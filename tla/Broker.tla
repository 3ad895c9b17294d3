------------------------------- MODULE Broker -------------------------------
(***************************************************************************)
(* The requests that the goroutines of a node send to one other server:    *)
(* the VirtualServer, which opens, shares and frees a connection under its *)
(* RWMutex (src/dist/servergroup/virtualserver.go), and for each           *)
(* connection the broker (src/com/comclient.go), whose three goroutines    *)
(* send requests, hand out answers and time requests out.                  *)
(*                                                                         *)
(* A request is a goroutine with one message; its name stands for its tid  *)
(* (a uint32 that does not wrap in the model).  A step ends where a        *)
(* goroutine waits for a lock, a channel, the network or the ticker; what  *)
(* a goroutine of the broker does under the broker's mutex, with the send  *)
(* on a result channel that follows, is one step.  bconn.Write is a step   *)
(* of its own, which may never come: it has no deadline.  A deadline is    *)
(* kept as the time left to it.                                            *)
(***************************************************************************)
EXTENDS Integers, Sequences, FiniteSets

CONSTANTS
    Req,            \* requests
    Op,             \* the operation of each request
    Timeout,        \* the timeout of each request, in ticks
    MaxConn,        \* bound on the connections opened
    MaxFree,        \* bound on the calls of freeConn by the ServerGroup
    ChannelSize,    \* brokerChannelBufferSize
    none

Rch == 1 .. Cardinality(Req)     \* result channels of a connection

\* The operations of VirtualServer and Conn: those that wait for the answer with the
\* RWMutex read-locked, those that can be sent without asking for an answer, and
\* those that can be sent asking for one
WaitsLocked == {"Transfer", "GetAccessInfo", "AddServerToGroup", "Protect", "GetChunkInfo"}
SendOnly    == {"Set", "Del", "SetNoDelay", "SetBuffered"}
Answered    == WaitsLocked \cup {"Get", "Set", "Del", "CAS"}
Operation   == SendOnly \cup Answered

Sync == {r \in Req : Op[r] \in WaitsLocked}

ASSUME BrokerAssumption ==
    /\ IsFiniteSet(Req) /\ Op \in [Req -> Operation]
    /\ Timeout \in [Req -> Nat \ {0}]
    /\ MaxConn \in Nat /\ MaxFree \in Nat /\ ChannelSize \in Nat \ {0}
    /\ none \notin Req

VARIABLES
    pc,             \* where each request is
    rch,            \* the channel it waits on, with the connection it is of
    conn,           \* VirtualServer.conn, 0 for nil
    links,          \* the connections opened
    frees,          \* calls of freeConn by the group
    panicked        \* the process has followed a nil *timeoutMsg

vars == <<pc, rch, conn, links, frees, panicked>>

\* A brokerMsg, an entry of waits: a request and its result channel, 0 for nil
Msg == [req : Req, ch : Rch \cup {0}]

\* A timeoutMsg; ring: its next is not nil although it is the head
Entry == [req : Req, left : Nat, ring : BOOLEAN]

\* A connection: brokerSendChannel; brokerReceiveChannelPool and the result in
\* each channel; where its goroutines are, the message that To world is in
\* bconn.Write with, and whether the last activation of the ticker was missed
\* (history); waits; the queue from head to tail and the entries q.l counts that
\* q.head does not lead to
Link ==
    [chan : Seq(Msg), closed : BOOLEAN, pool : SUBSET Rch,
     buf : [Rch -> Req \cup {none}],
     toWorld : {"receive", "activate", "loop", "done"}, out : Msg \cup {none},
     fromWorld : {"read", "onClose", "done"},
     ticker : {"starting", "inactive", "active"}, missed : BOOLEAN,
     waits : SUBSET Msg, pq : Seq(Entry), lost : Nat]

CreateConnection ==
    [chan |-> <<>>, closed |-> FALSE, pool |-> {}, buf |-> [ch \in Rch |-> none],
     toWorld |-> "receive", out |-> none, fromWorld |-> "read", ticker |-> "starting",
     missed |-> FALSE, waits |-> {}, pq |-> <<>>, lost |-> 0]

Opened == DOMAIN links

Init ==
    /\ pc = [r \in Req |-> "enter"] /\ rch = [r \in Req |-> none]
    /\ conn = 0 /\ links = <<>>
    /\ frees = 0 /\ panicked = FALSE

-----------------------------------------------------------------------------
(* VirtualServer and its RWMutex m.  A reader is between needConnection    *)
(* and RUnlock; a writer waits for nothing while it has the lock, and one  *)
(* that waits for the lock keeps new readers out.                          *)

Readers == {r \in Req : pc[r] \in {"send", "hold"}}

WriterWaits == \/ \E r \in Req : pc[r] = "lock"
               \/ \E c \in Opened : links[c].fromWorld = "onClose"

Go(r, l) == pc' = [pc EXCEPT ![r] = l]

\* needConnection: RLock, and RUnlock again when there is no connection
Enter(r) ==
    /\ pc[r] = "enter" /\ ~WriterWaits
    /\ Go(r, IF conn = 0 THEN "lock" ELSE "send")
    /\ UNCHANGED <<rch, conn, links, frees, panicked>>

\* needConnection: Lock; another request may have opened the connection by now,
\* and dialing may fail.  With s.noDelay the first message is SetNoDelay
needConnection(r) ==
    /\ pc[r] = "lock" /\ Readers = {}
    /\ \/ /\ conn # 0 /\ Go(r, "enter")
          /\ UNCHANGED <<conn, links>>
       \/ /\ conn = 0 /\ Len(links) < MaxConn
          /\ \E noDelay \in BOOLEAN :
                links' = Append(links, [CreateConnection EXCEPT
                             !.chan = IF noDelay THEN <<[req |-> r, ch |-> 0]>> ELSE <<>>])
          /\ conn' = Len(links')
          /\ Go(r, "enter")
       \/ /\ conn = 0 /\ Go(r, "done")
          /\ UNCHANGED <<conn, links>>
    /\ UNCHANGED <<rch, frees, panicked>>

\* freeConn: Lock, close the connection there is, forget it.  A mutant takes the
\* lock for reading only
freeConnShared(ls) ==
    /\ conn' = 0
    /\ links' = [c \in Opened |-> [ls[c] EXCEPT !.closed = @ \/ c = conn]]

freeConn(ls) ==
    /\ Readers = {}
    /\ conn' = 0
    /\ links' = [c \in Opened |-> [ls[c] EXCEPT !.closed = @ \/ c = conn]]

\* ServerGroup.Stop, RemoveServer and DeadServer
GroupFrees ==
    /\ frees < MaxFree /\ frees' = frees + 1
    /\ freeConn(links)
    /\ UNCHANGED <<pc, rch, panicked>>

-----------------------------------------------------------------------------
(* Conn: send, sendAndReceive and Wait                                     *)

Waiting == {r \in Req : pc[r] \in {"wait", "hold"}}

\* A channel of the pool, or a new one (the pool may drop what it holds)
PoolGet(c) ==
    LET used == links[c].pool \cup {rch[q].ch : q \in {q \in Waiting : rch[q].conn = c}}
    IN  links[c].pool \cup
        (IF Rch \subseteq used THEN {} ELSE {CHOOSE ch \in Rch \ used : TRUE})

\* A send on the channel waits while it is full
Room(l) == Len(l.chan) < ChannelSize

\* RUnlock follows, except in a request that waits for its answer first
send(r) ==
    LET l == links[conn]
    IN  /\ pc[r] = "send" /\ Room(l)
        /\ \/ /\ Op[r] \in SendOnly /\ Go(r, "done")
              /\ links' = [links EXCEPT ![conn].chan = Append(@, [req |-> r, ch |-> 0])]
              /\ UNCHANGED rch
           \/ /\ Op[r] \in Answered /\ Go(r, IF r \in Sync THEN "hold" ELSE "wait")
              /\ \E ch \in PoolGet(conn) :
                    /\ rch' = [rch EXCEPT ![r] = [conn |-> conn, ch |-> ch]]
                    /\ links' = [links EXCEPT ![conn] =
                           [l EXCEPT !.chan = Append(@, [req |-> r, ch |-> ch]),
                                     !.pool = @ \ {ch}]]
        /\ UNCHANGED <<conn, frees, panicked>>

\* The result: Wait puts the channel into the pool, sendAndReceive does not
Wait(r) ==
    LET w == rch[r]
    IN  /\ r \in Waiting /\ links[w.conn].buf[w.ch] # none
        /\ links' = [links EXCEPT ![w.conn].buf[w.ch] = none,
                                  ![w.conn].pool = IF r \in Sync THEN @ ELSE @ \cup {w.ch}]
        /\ rch' = [rch EXCEPT ![r] = none] /\ Go(r, "done")
        /\ UNCHANGED <<conn, frees, panicked>>

-----------------------------------------------------------------------------
(* The queue of timeouts.  x is the head's entry; "later" is t.After.      *)

\* push; a mutant takes the deadlines to come in order.
\* The first entry, from the tail, that is not later than tm is the one tm goes
\* behind.  When there is none ("To head") the code goes on to put tm behind the
\* head as well: tm takes its place, the old head can no longer be reached from
\* q.head, and tm.next and the old head's next form a ring.  A push that comes to
\* walk round the ring does not end.
pushLast(l, tm) == [l EXCEPT !.pq = Append(@, tm)]

push(l, tm) ==
    LET later == {i \in DOMAIN l.pq : l.pq[i].left > tm.left}
        n     == Len(l.pq) - Cardinality(later)
    IN  CASE n > 0 \/ l.pq = <<>> ->
                [l EXCEPT !.pq = SubSeq(@, 1, n) \o <<tm>> \o SubSeq(@, n + 1, Len(@))]
          [] n = 0 /\ l.pq # <<>> /\ ~l.pq[1].ring ->
                [l EXCEPT !.pq = <<[tm EXCEPT !.ring = TRUE]>> \o Tail(@), !.lost = @ + 1]
          [] OTHER -> [l EXCEPT !.toWorld = "loop"]

\* What the callbacks of clean and forall do for the entries es: who still waits
\* gets a result
expire(l, es) ==
    LET ws == {w \in l.waits : \E i \in DOMAIN es : es[i].req = w.req}
    IN  [l EXCEPT !.waits = @ \ ws,
                  !.buf = [ch \in Rch |->
                       IF \E w \in ws : w.ch = ch
                       THEN (CHOOSE w \in ws : w.ch = ch).req ELSE @[ch]]]

\* A send on a result channel (of capacity 1) waits while it holds a result
CanExpire(l, es) ==
    \A w \in l.waits : (\E i \in DOMAIN es : es[i].req = w.req) => l.buf[w.ch] = none

-----------------------------------------------------------------------------
(* broker: its goroutines.  One that loops in push keeps the mutex.        *)

Unlocked(c) == links[c].toWorld # "loop"
Upd(c, l) == links' = [links EXCEPT ![c] = l]

\* To world: a message; what is left to do with it then waits for bconn.Write
ToWorld(c) ==
    LET l  == links[c]
        m  == Head(l.chan)
        tm == [req |-> m.req, left |-> Timeout[m.req], ring |-> FALSE]
        l1 == [l EXCEPT !.chan = Tail(@)]
        l2 == push([l1 EXCEPT !.toWorld = "activate"], tm)
    IN  /\ l.toWorld = "receive" /\ l.out = none /\ l.chan # <<>>
        /\ Upd(c, IF m.ch = 0 THEN [l1 EXCEPT !.out = m]
                  ELSE IF l2.toWorld = "loop" THEN l2
                  ELSE [l2 EXCEPT !.waits = @ \cup {m}, !.out = m])
        /\ UNCHANGED <<pc, rch, conn, frees, panicked>>

\* To world: bconn.Write returns, whose error is not looked at
ToWorldWrites(c) ==
    /\ links[c].out # none
    /\ Upd(c, [links[c] EXCEPT !.out = none])
    /\ UNCHANGED <<pc, rch, conn, frees, panicked>>

\* To world: tickerActivation has no buffer, and the send does not wait
ToWorldActivates(c) ==
    /\ links[c].toWorld = "activate" /\ links[c].out = none
    /\ Upd(c, [links[c] EXCEPT !.toWorld = "receive",
                               !.ticker = IF @ = "inactive" THEN "active" ELSE @,
                               !.missed = links[c].ticker = "starting"])
    /\ UNCHANGED <<pc, rch, conn, frees, panicked>>

\* To world: the channel is closed and empty.  forall follows q.head q.l times.
\* A mutant leaves the requests to the ticker
ToWorldJustCloses(c) ==
    /\ links[c].toWorld = "receive" /\ links[c].out = none
    /\ links[c].closed /\ links[c].chan = <<>>
    /\ Upd(c, [links[c] EXCEPT !.toWorld = "done", !.pq = <<>>])
    /\ UNCHANGED <<pc, rch, conn, frees, panicked>>

ToWorldCloses(c) ==
    LET l == links[c]
    IN  /\ l.toWorld = "receive" /\ l.out = none /\ l.closed /\ l.chan = <<>>
        /\ CanExpire(l, l.pq)
        /\ Upd(c, [expire(l, l.pq) EXCEPT !.toWorld = "done", !.pq = <<>>])
        /\ panicked' = (l.lost > 0)
        /\ UNCHANGED <<pc, rch, conn, frees>>

\* From world: an answer to a request that was written and waits; one that comes
\* later finds nothing in waits and is dropped.  A mutant keeps the request in waits
FromWorldKeeps(c) ==
    LET l == links[c]
    IN  /\ l.fromWorld = "read" /\ l.toWorld # "done" /\ Unlocked(c)
        /\ \E w \in l.waits : /\ w # l.out /\ l.buf[w.ch] = none
                              /\ Upd(c, [l EXCEPT !.buf[w.ch] = w.req])
        /\ UNCHANGED <<pc, rch, conn, frees, panicked>>

FromWorld(c) ==
    LET l == links[c]
    IN  /\ l.fromWorld = "read" /\ l.toWorld # "done" /\ Unlocked(c)
        /\ \E w \in l.waits : /\ w # l.out /\ l.buf[w.ch] = none
                              /\ Upd(c, [l EXCEPT !.waits = @ \ {w}, !.buf[w.ch] = w.req])
        /\ UNCHANGED <<pc, rch, conn, frees, panicked>>

\* From world: the read fails, since To world has closed the connection or the
\* network or the server has; onClose is freeConn, of whatever connection the
\* VirtualServer has when the lock is free
FromWorldFails(c) ==
    /\ links[c].fromWorld = "read" /\ Unlocked(c)
    /\ Upd(c, [links[c] EXCEPT !.fromWorld = "onClose"])
    /\ UNCHANGED <<pc, rch, conn, frees, panicked>>

onClose(c) ==
    /\ links[c].fromWorld = "onClose"
    /\ freeConn([links EXCEPT ![c].fromWorld = "done"])
    /\ UNCHANGED <<pc, rch, frees, panicked>>

\* Ticker: it comes to wait for an activation
TickerWaits(c) ==
    /\ links[c].ticker = "starting"
    /\ Upd(c, [links[c] EXCEPT !.ticker = "inactive"])
    /\ UNCHANGED <<pc, rch, conn, frees, panicked>>

\* Ticker: a tick, with clean.  To take the last entry q.head leads to while q.l
\* counts another is to follow nil.  A mutant goes inactive after each tick that
\* finds something
TickerCleansOnce(c) ==
    LET l == links[c]
        n == Cardinality({i \in DOMAIN l.pq : l.pq[i].left = 0})
        e == SubSeq(l.pq, 1, n)
    IN  /\ l.ticker = "active" /\ Unlocked(c)
        /\ n > 0 \/ l.pq = <<>>
        /\ CanExpire(l, e)
        /\ Upd(c, [expire(l, e) EXCEPT !.pq = SubSeq(@, n + 1, Len(@)),
                                       !.ticker = "starting"])
        /\ panicked' = (n > 0 /\ n = Len(l.pq) /\ l.lost > 0)
        /\ UNCHANGED <<pc, rch, conn, frees>>

TickerCleans(c) ==
    LET l == links[c]
        n == Cardinality({i \in DOMAIN l.pq : l.pq[i].left = 0})
        e == SubSeq(l.pq, 1, n)
    IN  /\ l.ticker = "active" /\ Unlocked(c)
        /\ n > 0 \/ l.pq = <<>>
        /\ CanExpire(l, e)
        /\ Upd(c, [expire(l, e) EXCEPT
                      !.pq = SubSeq(@, n + 1, Len(@)),
                      !.ticker = IF n = Len(l.pq) /\ l.lost = 0 THEN "starting" ELSE @])
        /\ panicked' = (n > 0 /\ n = Len(l.pq) /\ l.lost > 0)
        /\ UNCHANGED <<pc, rch, conn, frees>>

\* Time passes
Elapse ==
    /\ \E c \in Opened : \E i \in DOMAIN links[c].pq : links[c].pq[i].left > 0
    /\ links' = [c \in Opened |->
          [links[c] EXCEPT !.pq = [i \in DOMAIN @ |->
              [links[c].pq[i] EXCEPT !.left = IF @ = 0 THEN 0 ELSE @ - 1]]]]
    /\ UNCHANGED <<pc, rch, conn, frees, panicked>>

Request(r) == Enter(r) \/ needConnection(r) \/ send(r) \/ Wait(r)

broker(c) ==
    \/ ToWorld(c) \/ ToWorldWrites(c) \/ ToWorldActivates(c) \/ ToWorldCloses(c)
    \/ FromWorld(c) \/ FromWorldFails(c) \/ onClose(c)
    \/ TickerWaits(c) \/ TickerCleans(c)

Next ==
    /\ ~panicked
    /\ \/ \E r \in Req : Request(r)
       \/ \E c \in Opened : broker(c)
       \/ GroupFrees \/ Elapse

Spec == Init /\ [][Next]_vars

-----------------------------------------------------------------------------
(* Fairness.  The goroutines run and the locks are fair; time passes; a    *)
(* server need not answer and a connection need not break.  A write may    *)
(* block for ever: the server may have stopped reading.  It returns when   *)
(* Read has failed, which closes the tcp connection; a write of a message  *)
(* without answer need not even then, since it may be a mode message on    *)
(* which BuffConn deadlocks.                                               *)

Live(A) == ~panicked /\ A
On(c, A) == ~panicked /\ c \in Opened /\ A

\* To world is in a write that may never return
Blocked(c) ==
    links[c].out # none /\ (links[c].out.ch = 0 \/ links[c].fromWorld = "read")

Fairness ==
    /\ \A r \in Req : /\ SF_vars(Live(Enter(r))) /\ SF_vars(Live(needConnection(r)))
                      /\ WF_vars(Live(send(r))) /\ WF_vars(Live(Wait(r)))
    /\ \A c \in 1 .. MaxConn :
          /\ WF_vars(On(c, ToWorld(c) \/ ToWorldActivates(c) \/ ToWorldCloses(c)))
          /\ WF_vars(On(c, ~Blocked(c) /\ ToWorldWrites(c)))
          /\ WF_vars(On(c, links[c].toWorld = "done" /\ FromWorldFails(c))) /\ SF_vars(On(c, onClose(c)))
          /\ WF_vars(On(c, TickerWaits(c) \/ TickerCleans(c)))
    /\ WF_vars(Live(Elapse))

FairSpec == Spec /\ Fairness

-----------------------------------------------------------------------------
(* Properties                                                              *)

TypeOK ==
    /\ pc \in [Req -> {"enter", "lock", "send", "wait", "hold", "done"}]
    /\ rch \in [Req -> {none} \cup [conn : Opened, ch : Rch]]
    /\ conn \in 0 .. Len(links) /\ Len(links) <= MaxConn
    /\ \A c \in Opened : links[c] \in Link /\ Len(links[c].chan) <= ChannelSize
    /\ frees \in 0 .. MaxFree /\ panicked \in BOOLEAN

\* A request only ever gets its own result: a result in a channel is that of the
\* request that waits on it, although channels are pooled and an answer, a
\* time-out and the closing of the connection race for each request
OwnResult ==
    \A c \in Opened : \A ch \in Rch :
        LET r == links[c].buf[ch]
        IN  r # none => r \in Waiting /\ rch[r] = [conn |-> c, ch |-> ch]

\* A message is never sent on a closed channel, which would panic: who has the
\* VirtualServer read-locked has an open connection, whoever frees it and however
\* late the onClose of an older connection comes
ConnOpen ==
    /\ Readers # {} => conn # 0
    /\ conn # 0 => ~links[conn].closed /\ links[conn].toWorld # "done"

\* Nobody waits for a result that no goroutine will send: a request whose result
\* has not come is still in brokerSendChannel, or is in waits with an entry in the
\* queue of timeouts (unless the "To head" branch of push has lost one)
WaiterKnown ==
    \A r \in Waiting :
        LET l == links[rch[r].conn]
        IN  \/ l.buf[rch[r].ch] = r
            \/ [req |-> r, ch |-> rch[r].ch] \in {l.chan[i] : i \in DOMAIN l.chan}
            \/ /\ [req |-> r, ch |-> rch[r].ch] \in l.waits
               /\ l.lost = 0 => \E i \in DOMAIN l.pq : l.pq[i].req = r
            \/ l.toWorld = "loop"

\* The queue is in the order of the deadlines, which clean relies on
QueueSorted ==
    \A c \in Opened : \A i, j \in DOMAIN links[c].pq :
        i < j => links[c].pq[i].left <= links[c].pq[j].left

\* The ticker of c sleeps although there are requests to time out: its last
\* activation came when it was about to wait for one
Asleep(c) ==
    links[c].ticker = "inactive" /\ links[c].missed /\ links[c].pq # <<>>

\* Every request ends, with an answer, a time-out or an error, whether the server
\* answers or the connection breaks, unless push has lost an entry, a ticker sleeps
\* for ever or a write blocks for ever: the time-out of a request does not cover
\* the time it waits in brokerSendChannel, nor is the ticker activated before the
\* write is over
RequestsEnd ==
    <>[](\/ \A r \in Req : pc[r] = "done"
         \/ \E c \in Opened : links[c].lost > 0 \/ Asleep(c) \/ Blocked(c))
=============================================================================
