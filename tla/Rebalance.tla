------------------------------ MODULE Rebalance ------------------------------
(***************************************************************************)
(* One chunk among the servers of a group: duplication and release         *)
(* (src/dist/rebalance), the view each server has of the holders, kept by  *)
(* heartbeats (src/dist/heartbeat) and by its own repair loop              *)
(* (src/dist/repair), and the requests OpProtect, OpTransfer and           *)
(* OpGetChunkInfo (src/server/server.go).                                  *)
(*                                                                         *)
(* The holders that a server knows are a set: module ServerGroup shows     *)
(* that the list has every server once.  Whether a server has little or    *)
(* much work depends on the other chunks and may change at any time.       *)
(***************************************************************************)
EXTENDS Integers, FiniteSets

CONSTANTS
    Server,
    Creator,        \* the server that has created the database
    Redundancy,
    Light, Heavy,   \* servers that may have little or much work
    Lossy,          \* whether requests may fail and servers seem dead
    MaxStale,       \* bound on the lists taken and not applied, in the group
    MaxTransfers,   \* bound on the transfers under way
    none

ASSUME RebalanceAssumption ==
    /\ Creator \in Server /\ Light \subseteq Server /\ Heavy \subseteq Server
    /\ Redundancy \in Nat \ {0}
    /\ Lossy \in BOOLEAN
    /\ MaxStale \in Nat /\ MaxTransfers \in Nat
    /\ none \notin Server /\ none \notin BOOLEAN

VARIABLES
    copy,           \* the chunk in a server's core: "absent", present and
                    \* "empty", with "part" of the pairs, or with all the "data"
    protected,      \* whether it is protected there
    view,           \* the holders the server knows
    reply,          \* an answer to a heartbeat that is not processed yet
    local,          \* the repair loop's PresentChunksList, not applied yet
    duplicating,    \* a duplication: where it is, the holder it asks
    transfers,      \* the transfers under way, <<from, to>>
    queued,         \* the servers with the chunk in releaseChannel
    releaser        \* the goroutine of releaser

vars == <<copy, protected, view, reply, local, duplicating, transfers,
          queued, releaser>>

Present(s) == copy[s] # "absent"
NumHolders(s) == Cardinality(view[s])

NoReply == [from |-> none, present |-> FALSE]

\* SetServerChunks for r at s
Told(s, r, present) ==
    [view EXCEPT ![s] = IF present THEN @ \cup {r} ELSE @ \ {r}]

-----------------------------------------------------------------------------
(* Views                                                                   *)

Stale == Cardinality({s \in Server : reply[s] # NoReply})
         + Cardinality({s \in Server : local[s] # none})

Answer(r) == [from |-> r, present |-> Present(r)]

\* r answers a heartbeat of s
Heartbeat(s, r) ==
    /\ r # s /\ reply[s].from = none /\ Stale < MaxStale
    /\ reply' = [reply EXCEPT ![s] = Answer(r)]
    /\ UNCHANGED <<copy, protected, view, local, duplicating, transfers, releaser, queued>>

\* s processes the answer
HeartbeatDone(s) ==
    /\ reply[s].from # none
    /\ view' = Told(s, reply[s].from, reply[s].present)
    /\ reply' = [reply EXCEPT ![s] = NoReply]
    /\ UNCHANGED <<copy, protected, local, duplicating, transfers, releaser, queued>>

\* Three timeouts of r's answers
DeadServer(s, r) ==
    /\ Lossy /\ r # s /\ reply[s].from = none
    /\ view' = [view EXCEPT ![s] = @ \ {r}]
    /\ UNCHANGED <<copy, protected, reply, local, duplicating, transfers, releaser, queued>>

\* sg.SetServerChunks(localhost, lh.PresentChunksList()) in the repair loop: the
\* list is taken, then given to the ServerGroup
ListLocal(s) ==
    /\ local[s] = none /\ Stale < MaxStale
    /\ local' = [local EXCEPT ![s] = Present(s)]
    /\ UNCHANGED <<copy, protected, view, reply, duplicating, transfers, releaser, queued>>

SetLocal(s) ==
    /\ local[s] # none
    /\ view' = Told(s, s, local[s])
    /\ local' = [local EXCEPT ![s] = none]
    /\ UNCHANGED <<copy, protected, reply, duplicating, transfers, releaser, queued>>

-----------------------------------------------------------------------------
(* Duplication                                                             *)

NoDuplication == [pc |-> "idle", from |-> none]
DuplicatingAt(s, pc, from) ==
    duplicating' = [duplicating EXCEPT ![s] = [pc |-> pc, from |-> from]]

\* The load rebalancer finds too few holders, or has little work, and duplicate
\* asks any holder for the size of the chunk.  One duplication at a time.
Duplicate(s) ==
    /\ ~Present(s) /\ duplicating[s] = NoDuplication
    /\ NumHolders(s) < Redundancy \/ (s \in Light /\ NumHolders(s) = Redundancy)
    /\ \E h \in view[s] : DuplicatingAt(s, "info", h)
    /\ UNCHANGED <<copy, protected, view, reply, local, transfers, releaser, queued>>

\* OpGetChunkInfo at the holder: no chunk aborts, a failed request reads as 0
ChunkInfo(s) ==
    LET h == duplicating[s].from
    IN  /\ duplicating[s].pc = "info"
        /\ \/ ~Present(h) /\ DuplicatingAt(s, "idle", none)
           \/ copy[h] \in {"part", "data"} /\ DuplicatingAt(s, "some", none)
           \/ (copy[h] = "empty" \/ Lossy) /\ DuplicatingAt(s, "zero", none)
        /\ UNCHANGED <<copy, protected, view, reply, local, transfers, releaser, queued>>

\* A PMap is made only if there is none.  A mutant makes one anyway
PMapAnew(s) == "empty"
PMapOf(s) == IF Present(s) THEN copy[s] ELSE "empty"

\* lh.ChunkSetPresent, before any pair is there
DuplicateSetPresent(s) ==
    /\ duplicating[s].pc \in {"zero", "some"}
    /\ copy' = [copy EXCEPT ![s] = PMapOf(s)]
    /\ DuplicatingAt(s, IF duplicating[s].pc = "some" THEN "wait" ELSE "idle", none)
    /\ UNCHANGED <<protected, view, reply, local, transfers, releaser, queued>>

\* The requests that the other holders in H carry out
Requested(s, H) ==
    /\ transfers' = transfers \cup (H \X {s})
    /\ Cardinality(transfers') <= MaxTransfers

\* After duplicationWaitTime the other holders are asked for a transfer, until
\* one says OK, which it does whether or not it has the chunk.  An answer may be
\* lost, and a connection that fails counts as OK.
RequestTransfer(s) ==
    /\ duplicating[s].pc = "wait" /\ view[s] \ {s} # {}
    /\ \E H \in SUBSET (view[s] \ {s}) :
          (Cardinality(H) = 1 \/ Lossy) /\ Requested(s, H)
    /\ DuplicatingAt(s, "idle", none)
    /\ UNCHANGED <<copy, protected, view, reply, local, releaser, queued>>

\* No other holder says OK: duplicate(cid) once more, maybe from s itself
DuplicateAgain(s) ==
    /\ duplicating[s].pc = "wait" /\ (view[s] \subseteq {s} \/ Lossy)
    /\ \E H \in SUBSET (view[s] \ {s}) : Requested(s, H)
    /\ \/ view[s] = {} /\ DuplicatingAt(s, "idle", none)
       \/ \E h \in view[s] : DuplicatingAt(s, "info", h)
    /\ UNCHANGED <<copy, protected, view, reply, local, releaser, queued>>

\* What s may have after h has passed its pairs; those lost on the way are not
\* missed
Received(s, h) ==
    IF ~Present(s) \/ copy[s] = "data" \/ copy[h] \in {"absent", "empty"}
    THEN {copy[s]}
    ELSE {copy[h]} \cup (IF Lossy THEN {copy[s], "part"} ELSE {})

\* The goroutine of OpTransfer at h.  When it cannot connect to s, Received keeps
\* copy[s]; the code then also ends the process of h, by the deferred Close of a
\* nil connection, which is left out: servers stay in service here.
Transfer(h, s) ==
    /\ <<h, s>> \in transfers
    /\ transfers' = transfers \ {<<h, s>>}
    /\ \E pairs \in Received(s, h) : copy' = [copy EXCEPT ![s] = pairs]
    /\ UNCHANGED <<protected, view, reply, local, duplicating, releaser, queued>>

-----------------------------------------------------------------------------
(* Release                                                                 *)

\* The goroutine takes the chunk from releaseChannel when it is idle
Idle == [pc |-> "idle", ask |-> {}, at |-> none, present |-> FALSE, alone |-> TRUE]
At(s, r) == releaser' = [releaser EXCEPT ![s] = r]

\* The load rebalancer has much work and finds more holders than needed.  At
\* most one request in the channel.
Release(s) ==
    /\ s \notin queued /\ s \in Heavy
    /\ Present(s) /\ NumHolders(s) > Redundancy
    /\ queued' = queued \cup {s}
    /\ UNCHANGED <<copy, protected, view, reply, local, duplicating, transfers, releaser>>

ReleaseCheck(s) ==
    /\ releaser[s].pc = "idle" /\ s \in queued
    /\ queued' = queued \ {s}
    /\ At(s, IF protected[s] THEN Idle ELSE [Idle EXCEPT !.pc = "holders"])
    /\ UNCHANGED <<copy, protected, view, reply, local, duplicating, transfers>>

\* The holders were counted in Release and are listed here.  alone records that
\* there is another one to ask and that no other release overlaps this one.
ReleaseHolders(s) ==
    LET others == {r \in Server : releaser[r].pc = "asking"}
    IN  /\ releaser[s].pc = "holders"
        /\ releaser' = [r \in Server |->
              IF r = s
              THEN [Idle EXCEPT !.pc = "asking", !.ask = view[s] \ {s},
                                !.alone = others = {} /\ view[s] \ {s} # {}]
              ELSE [releaser[r] EXCEPT !.alone = @ /\ r \notin others]]
        /\ UNCHANGED <<copy, protected, view, reply, local, duplicating, transfers, queued>>

\* OpProtect at r: the holders are counted first
ReleaseAsk(s, r) ==
    /\ releaser[s].pc = "asking" /\ releaser[s].at = none /\ r \in releaser[s].ask
    /\ \/ NumHolders(r) > Redundancy /\ At(s, [releaser[s] EXCEPT !.at = r])
       \/ (NumHolders(r) <= Redundancy \/ Lossy) /\ At(s, Idle)
    /\ UNCHANGED <<copy, protected, view, reply, local, duplicating, transfers, queued>>

ProtectsAlways(r) == TRUE

\* ChunkSetProtected at r succeeds
Protects(r) == Present(r)

OpProtect(s) ==
    LET r == releaser[s].at
    IN  /\ releaser[s].pc = "asking" /\ r # none
        /\ protected' = [protected EXCEPT ![r] = @ \/ Protects(r)]
        /\ \/ Protects(r) /\ At(s, [releaser[s] EXCEPT !.ask = @ \ {r}, !.at = none])
           \/ (~Protects(r) \/ Lossy) /\ At(s, Idle)
        /\ UNCHANGED <<copy, view, reply, local, duplicating, transfers, queued>>

\* lh.ChunkSetNoPresent
ReleaseDo(s) ==
    /\ releaser[s].pc = "asking" /\ releaser[s].ask = {}
    /\ copy' = [copy EXCEPT ![s] = "absent"]
    /\ protected' = [protected EXCEPT ![s] = @ /\ ~Present(s)]
    /\ At(s, [Idle EXCEPT !.pc = "list"])
    /\ UNCHANGED <<view, reply, local, duplicating, transfers, queued>>

\* sg.SetServerChunks(localhost, lh.PresentChunksList())
ReleaseList(s) ==
    /\ releaser[s].pc = "list"
    /\ At(s, [Idle EXCEPT !.pc = "announce", !.present = Present(s)])
    /\ UNCHANGED <<copy, protected, view, reply, local, duplicating, transfers, queued>>

ReleaseAnnounce(s) ==
    /\ releaser[s].pc = "announce"
    /\ view' = Told(s, s, releaser[s].present)
    /\ At(s, Idle)
    /\ UNCHANGED <<copy, protected, reply, local, duplicating, transfers, queued>>

\* The goroutine of ChunkSetProtected
Expire(s) ==
    /\ protected[s]
    /\ protected' = [protected EXCEPT ![s] = FALSE]
    /\ UNCHANGED <<copy, view, reply, local, duplicating, transfers, releaser, queued>>

-----------------------------------------------------------------------------
\* The database was created, and every server has heard of its holder
Init ==
    /\ copy = [s \in Server |-> IF s = Creator THEN "data" ELSE "absent"]
    /\ protected = [s \in Server |-> FALSE]
    /\ view = [s \in Server |-> {Creator}]
    /\ reply = [s \in Server |-> NoReply]
    /\ local = [s \in Server |-> none]
    /\ duplicating = [s \in Server |-> NoDuplication]
    /\ transfers = {} /\ queued = {}
    /\ releaser = [s \in Server |-> Idle]

Next ==
    \E s \in Server :
        \/ HeartbeatDone(s) \/ ListLocal(s) \/ SetLocal(s)
        \/ Duplicate(s) \/ ChunkInfo(s) \/ DuplicateSetPresent(s)
        \/ RequestTransfer(s) \/ DuplicateAgain(s)
        \/ Release(s) \/ ReleaseCheck(s) \/ ReleaseHolders(s) \/ OpProtect(s)
        \/ ReleaseDo(s) \/ ReleaseList(s) \/ ReleaseAnnounce(s)
        \/ Expire(s)
        \/ \E r \in Server : \/ Heartbeat(s, r) \/ DeadServer(s, r)
                             \/ Transfer(s, r) \/ ReleaseAsk(s, r)

Spec == Init /\ [][Next]_vars

-----------------------------------------------------------------------------
(* Properties                                                              *)

Releaser ==
    [pc : {"idle", "holders", "asking", "list", "announce"}, ask : SUBSET Server,
     at : Server \cup {none}, present : BOOLEAN, alone : BOOLEAN]

TypeOK ==
    /\ copy \in [Server -> {"absent", "empty", "part", "data"}]
    /\ protected \in [Server -> BOOLEAN]
    /\ view \in [Server -> SUBSET Server]
    /\ reply \in [Server -> [from : Server \cup {none}, present : BOOLEAN]]
    /\ local \in [Server -> BOOLEAN \cup {none}]
    /\ duplicating \in [Server -> [pc : {"idle", "info", "zero", "some", "wait"},
                                   from : Server \cup {none}]]
    /\ transfers \subseteq Server \X Server /\ queued \subseteq Server
    /\ releaser \in [Server -> Releaser]

Releases(s) == releaser[s].pc = "asking" /\ releaser'[s].pc = "list"

(* A server that still knows of another holder when it lists those to ask, *)
(* after it has checked its own protection, and whose release overlaps no  *)
(* other from there on, leaves a copy of the chunk in another server,      *)
(* however old its view is.                                                *)
ReleaseLeavesCopy ==
    [][\A s \in Server : Releases(s) /\ releaser[s].alone =>
          \E r \in Server \ {s} : Present(r)']_vars

(* The comment of releaser: 'It request a chunk "protection" from the      *)
(* other servers to prevent data-loss (avoiding multiple deletions         *)
(* simultaneously on the same chunk)'.  Some server has the chunk.         *)
CopyRemains == \E s \in Server : Present(s)

(* The same, of the data: some server has the pairs of the chunk.          *)
DataRemains == \E s \in Server : copy[s] = "data"

(* What can take the chunk, or the pairs of it, from the group: only a     *)
(* release.  The last copy goes in one that overlapped another or that     *)
(* found nobody to ask; the last copy with all the pairs also in one while *)
(* a copy elsewhere was still incomplete.  The two counterexamples to the  *)
(* comment of releaser are the only kinds there are.                       *)
LossHasCause ==
    [][/\ CopyRemains /\ ~CopyRemains' =>
             \E s \in Server : Releases(s) /\ ~releaser[s].alone
       /\ DataRemains /\ ~DataRemains' =>
             \E s \in Server :
                /\ Releases(s)
                /\ ~releaser[s].alone \/ \E r \in Server \ {s} : copy[r] \in {"empty", "part"}]_vars
=============================================================================
