------------------------------ MODULE Replica ------------------------------
(***************************************************************************)
(* One pair on the servers that hold its chunk, and who keeps it the same  *)
(* on all of them: the operations of the client (src/client), the handlers *)
(* of the servers (src/server), and the repair of a chunk whose checksums  *)
(* stay different (src/dist/repair).                                       *)
(*                                                                         *)
(* A pair is its timestamp, 0 for no pair; no two writes have the same.    *)
(* The clocks of the clients need not agree.  What a server does with a    *)
(* request is what module PMap does for one key, with room in the file and *)
(* the index.  The holders of the chunk are always the same and every      *)
(* client knows them.                                                      *)
(***************************************************************************)
EXTENDS Integers

CONSTANTS
    Replica,            \* the servers that hold the chunk
    Master,             \* the one with the greatest hash(key + address)
    checksTillRepair,
    Empty,              \* the timestamps of the pairs with an empty value
    LastStamp,          \* bound on the writes
    MaxGets, MaxLosses  \* bounds

ASSUME ReplicaAssumption ==
    /\ Master \in Replica
    /\ LastStamp \in Nat /\ checksTillRepair \in Nat \ {0}

ASSUME EmptyAssumption == Empty \subseteq 1 .. LastStamp

VARIABLES
    used,           \* the timestamps taken
    store,          \* the pair on each server
    synched,        \* whether each server's group has equal checksums of the holders
    checks,         \* m[cid] of each server's repair loop
    net,            \* requests on their way, in any order
    get,            \* a client's Get
    wins,           \* the CAS that succeeded
    dels, gets, losses      \* the Del and Get calls, the requests and answers lost

vars == <<used, store, synched, checks, net, get, wins, dels, gets, losses>>

Stamp   == 1 .. LastStamp
Pair    == Stamp \cup {0}
Message == [kind : {"set", "del", "cas"}, to : Replica, ts : Stamp, old : Pair]

-----------------------------------------------------------------------------
(* The client                                                              *)

To(R, kind, t, old) == {[kind |-> kind, to |-> r, ts |-> t, old |-> old] : r \in R}

Set(t) ==
    /\ used' = used \cup {t}
    /\ net' = net \cup To(Replica, "set", t, 0)
    /\ UNCHANGED <<store, synched, checks, get, wins, dels, gets, losses>>

Del(t) ==
    /\ used' = used \cup {t} /\ dels' = dels \cup {t}
    /\ net' = net \cup To(Replica, "del", t, 0)
    /\ UNCHANGED <<store, synched, checks, get, wins, gets, losses>>

\* old is a pair that the client has read
CAS(old, t) ==
    /\ used' = used \cup {t}
    /\ net' = net \cup To({Master}, "cas", t, old)
    /\ UNCHANGED <<store, synched, checks, get, wins, dels, gets, losses>>

\* Bound: the last timestamp is for behaviours without Gets and losses
Spare == LastStamp \notin used

NoGet == [on |-> FALSE, times |-> [r \in {} |-> 0], floor |-> 0, behind |-> FALSE]

\* Get sends its requests; floor records a pair that some server has
GetStarts ==
    /\ ~get.on /\ gets < MaxGets /\ Spare /\ gets' = gets + 1
    /\ \E r \in Replica : get' = [NoGet EXCEPT !.on = TRUE, !.floor = store[r]]
    /\ UNCHANGED <<used, store, synched, checks, net, wins, dels, losses>>

lost == -1
Lose == losses < MaxLosses /\ Spare /\ losses' = losses + 1

\* Read-repair with the newest pair, of who answered with an older one, with none
\* or not at all
ReadRepair(times) ==
    UNION {To({r \in Replica : times[r] < t}, "set", t, 0) :
              t \in {u \in Stamp : /\ \E r \in Replica : times[r] = u
                                   /\ \A r \in Replica : times[r] <= u}}

\* A server answers, or fails to; after the last one Get returns.  behind records
\* that all have answered and none with a pair as new as floor
GetReads(r) ==
    /\ get.on /\ r \notin DOMAIN get.times
    /\ \E t \in {store[r], lost} :
          LET times == [q \in DOMAIN get.times \cup {r} |->
                            IF q = r THEN t ELSE get.times[q]]
          IN  /\ IF t = lost THEN Lose ELSE UNCHANGED losses
              /\ \/ /\ DOMAIN times # Replica
                    /\ get' = [get EXCEPT !.times = times] /\ UNCHANGED net
                 \/ /\ DOMAIN times = Replica
                    /\ get' = [NoGet EXCEPT !.behind = \A q \in Replica :
                                  times[q] # lost /\ times[q] < get.floor]
                    /\ net' = net \cup ReadRepair(times)
    /\ UNCHANGED <<used, store, synched, checks, wins, dels, gets>>

-----------------------------------------------------------------------------
(* The servers                                                             *)

Change(r, p) == store' = [store EXCEPT ![r] = p]

OpSetAlways(m) ==
    /\ m.kind = "set"
    /\ Change(m.to, m.ts)
    /\ net' = net \ {m}
    /\ UNCHANGED wins

OpSet(m) ==
    /\ m.kind = "set"
    /\ IF store[m.to] < m.ts THEN Change(m.to, m.ts) ELSE UNCHANGED store
    /\ net' = net \ {m}
    /\ UNCHANGED wins

OpDel(m) ==
    /\ m.kind = "del"
    /\ IF store[m.to] <= m.ts THEN Change(m.to, 0) ELSE UNCHANGED store
    /\ net' = net \ {m}
    /\ UNCHANGED wins

\* A mutant does not compare the pair
SwapsAny(m) == synched[m.to]

\* Where there is no pair, a CAS that expects an empty value passes whatever the
\* timestamp it expects
Swaps(m) == synched[m.to] /\ (store[m.to] = m.old \/ (store[m.to] = 0 /\ m.old \in Empty))

\* The client that learns that its CAS won goes on with the Sets of the slaves
OpCAS(m) ==
    /\ m.kind = "cas"
    /\ \/ /\ Swaps(m)
          /\ Change(m.to, m.ts) /\ wins' = wins \cup {m}
          /\ \/ net' = (net \ {m}) \cup To(Replica \ {m.to}, "set", m.ts, 0)
             \/ net' = net \ {m}        \* the answer comes too late
       \/ ~Swaps(m) /\ net' = net \ {m} /\ UNCHANGED <<store, wins>>

processMessage(m) ==
    /\ m \in net
    /\ OpSet(m) \/ OpDel(m) \/ OpCAS(m)
    /\ UNCHANGED <<used, synched, checks, get, dels, gets, losses>>

\* A request is lost with its connection
Loses(m) ==
    /\ m \in net /\ net' = net \ {m} /\ Lose
    /\ UNCHANGED <<used, store, synched, checks, get, wins, dels, gets>>

\* r's group has heard of the others, the repair loop has listed the chunk of r
\* itself, and the changes are old enough to be in the checksums (see SyncChecksum)
Told(r) ==
    /\ synched' = [synched EXCEPT ![r] = \A q \in Replica : store[q] = store[r]]
    /\ UNCHANGED <<used, store, checks, net, get, wins, dels, gets, losses>>

\* The pairs of the chunk, backwards, to all holders, the server itself included.  A
\* mutant leaves the others to themselves
repairAlone(r) == IF store[r] = 0 THEN {} ELSE To({r}, "set", store[r], 0)

repair(r) == IF store[r] = 0 THEN {} ELSE To(Replica, "set", store[r], 0)

\* One turn of r's repair loop.  The count goes on after a repair
Check(r) ==
    /\ \/ /\ synched[r]
          /\ checks' = [checks EXCEPT ![r] = 0] /\ UNCHANGED net
       \/ /\ ~synched[r] /\ checks[r] + 1 < checksTillRepair
          /\ checks' = [checks EXCEPT ![r] = @ + 1] /\ UNCHANGED net
       \/ /\ ~synched[r] /\ checks[r] + 1 >= checksTillRepair
          /\ checks' = [checks EXCEPT ![r] = checksTillRepair]
          /\ net' = net \cup repair(r)
    /\ UNCHANGED <<used, store, synched, get, wins, dels, gets, losses>>

-----------------------------------------------------------------------------
Init ==
    /\ used = {} /\ store = [r \in Replica |-> 0]
    /\ synched = [r \in Replica |-> TRUE] /\ checks = [r \in Replica |-> 0]
    /\ net = {} /\ get = NoGet /\ wins = {} /\ dels = {} /\ gets = 0 /\ losses = 0

Next ==
    \/ \E t \in Stamp \ used :
          /\ t = LastStamp => gets + losses = 0
          /\ Set(t) \/ Del(t) \/ \E old \in used \cup {0} : CAS(old, t)
    \/ \E m \in net : processMessage(m) \/ Loses(m)
    \/ \E r \in Replica : GetReads(r) \/ Check(r) \/ Told(r)
    \/ GetStarts

Spec == Init /\ [][Next]_vars

\* Connections deliver, but for MaxLosses times, and heartbeats and repair loops go
\* on.  Nothing makes a client call
Fairness ==
    \A r \in Replica :
        /\ WF_vars(Check(r)) /\ WF_vars(Told(r))
        /\ \A t \in Stamp : WF_vars(\E m \in net : m.to = r /\ m.ts = t /\ processMessage(m))

FairSpec == Spec /\ Fairness

-----------------------------------------------------------------------------
(* Properties                                                              *)

TypeOK ==
    /\ used \subseteq Stamp /\ store \in [Replica -> Pair]
    /\ synched \in [Replica -> BOOLEAN]
    /\ checks \in [Replica -> 0 .. checksTillRepair]
    /\ net \subseteq Message /\ wins \subseteq Message /\ dels \subseteq used
    /\ get \in [on : BOOLEAN, times : UNION {[R -> Pair \cup {lost}] : R \in SUBSET Replica},
               floor : Pair, behind : BOOLEAN]

\* A CAS has brought the time of the pair back: the clock of its client lags
\* behind the clock of who wrote the pair
Backwards == \E m \in wins : m.ts < m.old

\* A pair that some server has when Get begins is in its answer, or a newer one, if
\* all servers answer: a Set that was acknowledged, or that another Get has
\* returned, is not lost, whatever requests and repairs are on their way.  A Del
\* removes the pair, and a CAS may bring its time back
FreshRead == get.behind => dels # {} \/ Backwards

\* The comment of CAS: "This is an atomic operation".  Of the CAS that expect the
\* same pair only one succeeds, whatever Sets, read-repairs and repairs with older
\* pairs arrive at the master in between, and although a master without the pair
\* lets a CAS pass that expects an empty value.  A Del may bring the pair back, and
\* so may a CAS that brings its time back, as slaves still have the newer pair
CASOnce ==
    \A m, n \in wins : m # n /\ m.old = n.old => dels # {} \/ Backwards

\* The holders come to have the same pair and keep it, although requests are lost,
\* clients give up between the master and the slaves, and repairs go by outdated
\* checksums
Converges == <>[](\A r, q \in Replica : store[r] = store[q])
=============================================================================
