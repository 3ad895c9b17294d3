---------------------------- MODULE BrokerProofs ----------------------------
(***************************************************************************)
(* The requests sent over one connection do not get in each other's way,   *)
(* for any number of requests, connections and calls of freeConn: each     *)
(* gets its own result, none is forgotten, and none is sent on a           *)
(* connection that was closed.                                             *)
(***************************************************************************)
EXTENDS Broker, FiniteSetTheorems, WellFoundedInduction, TLAPS

Types ==
    /\ pc \in [Req -> {"enter", "lock", "send", "wait", "hold", "done"}]
    /\ rch \in [Req -> {none} \cup [conn : Opened, ch : Rch]]
    /\ conn \in 0 .. Len(links)
    /\ links \in Seq(Link) /\ Len(links) <= MaxConn
    /\ \A c \in Opened : Len(links[c].chan) <= ChannelSize
    /\ frees \in 0 .. MaxFree /\ panicked \in BOOLEAN

\* The message m is that of a request that waits for it on its channel of c
Holds(c, m) == m.req \in Waiting /\ rch[m.req] = [conn |-> c, ch |-> m.ch]

\* What is under way over c in the state l: messages, entries of waits and results
\* are those of requests that wait on just that channel, a request is in one place
\* only, and nobody waits on a channel of the pool
LinkOK(c, l) ==
    /\ \A i \in DOMAIN l.chan : l.chan[i].ch # 0 =>
          /\ Holds(c, l.chan[i])
          /\ l.chan[i] \notin l.waits /\ l.buf[l.chan[i].ch] # l.chan[i].req
          /\ \A j \in DOMAIN l.chan : l.chan[i] = l.chan[j] => i = j
    /\ \A w \in l.waits : Holds(c, w) /\ w.ch # 0 /\ l.buf[w.ch] # w.req
    /\ \A ch \in Rch : l.buf[ch] # none => Holds(c, [req |-> l.buf[ch], ch |-> ch])
    /\ \A r \in Waiting : rch[r].conn = c => rch[r].ch \notin l.pool
    /\ l.toWorld = "done" => l.closed

\* WaiterKnown for the request r, whose connection is in the state l
Known(r, l) ==
    \/ l.buf[rch[r].ch] = r
    \/ [req |-> r, ch |-> rch[r].ch] \in {l.chan[i] : i \in DOMAIN l.chan}
    \/ /\ [req |-> r, ch |-> rch[r].ch] \in l.waits
       /\ l.lost = 0 => \E i \in DOMAIN l.pq : l.pq[i].req = r
    \/ l.toWorld = "loop"

\* Every request that waits has a connection and a channel of its own
Apart ==
    /\ \A r \in Waiting : rch[r] \in [conn : Opened, ch : Rch]
    /\ \A r, q \in Waiting : rch[r] = rch[q] => r = q

BrokerInv ==
    /\ Types /\ Apart
    /\ \A c \in Opened : LinkOK(c, links[c])
    /\ Readers # {} => conn # 0
    /\ conn # 0 => ~links[conn].closed
    /\ \A r \in Waiting : Known(r, links[rch[r].conn])

-----------------------------------------------------------------------------
(* Sequences                                                               *)

Occurs(x, t) == \E i \in DOMAIN t : t[i] = x
Keeps(t, s) == \A j \in DOMAIN s : Occurs(s[j], t)
Inserted(s, n, x) == SubSeq(s, 1, n) \o <<x>> \o SubSeq(s, n + 1, Len(s))

(* An insertion keeps what was there.                                      *)
LEMMA Insertion ==
    ASSUME NEW S, NEW s \in Seq(S), NEW x \in S, NEW n \in 0 .. Len(s)
    PROVE  /\ Inserted(s, n, x) \in Seq(S)
           /\ Occurs(x, Inserted(s, n, x)) /\ Keeps(Inserted(s, n, x), s)
<1> DEFINE a == SubSeq(s, 1, n)
           b == SubSeq(s, n + 1, Len(s))
           t == a \o <<x>> \o b
<1>1. a \in Seq(S) /\ Len(a) = n /\ \A j \in 1 .. n : a[j] = s[j]
  OBVIOUS
<1>2. b \in Seq(S) /\ Len(b) = Len(s) - n /\ \A j \in 1 .. Len(b) : b[j] = s[n + j]
  OBVIOUS
<1> HIDE DEF a, b
<1>3. /\ t \in Seq(S) /\ Len(t) = Len(s) + 1
      /\ \A j \in 1 .. n : t[j] = a[j]
      /\ t[n + 1] = x
      /\ \A j \in 1 .. Len(b) : t[n + 1 + j] = b[j]
  BY <1>1, <1>2
<1> HIDE DEF t
<1>4. \E i \in DOMAIN t : t[i] = x
  BY <1>3
<1>5. ASSUME NEW j \in DOMAIN s PROVE \E i \in DOMAIN t : t[i] = s[j]
  <2>1. CASE j <= n
    BY <1>1, <1>3, <2>1
  <2>2. CASE j > n
    <3>0. j - n \in 1 .. Len(b) /\ j = n + (j - n)
      BY <1>2, <2>2
    <3>1. PICK k \in 1 .. Len(b) : j = n + k
      BY <3>0, Zenon
    <3>2. n + 1 + k \in DOMAIN t /\ t[n + 1 + k] = s[j]
      BY <1>2, <1>3, <3>1
    <3> QED
      BY <3>2, Zenon
  <2> QED
    BY <2>1, <2>2
<1> QED
  BY <1>3, <1>4, <1>5, Zenon DEF t, a, b, Inserted, Occurs, Keeps

(* A table of values is a sequence of them.                                *)
LEMMA Tabled ==
    ASSUME NEW S, NEW n \in Nat, NEW f, f = [i \in 1 .. n |-> f[i]],
           \A i \in 1 .. n : f[i] \in S
    PROVE  f \in Seq(S) /\ Len(f) = n /\ DOMAIN f = 1 .. n
<1>1. f \in [1 .. n -> S]
  BY Zenon
<1> QED
  BY <1>1

(* What clean leaves of the queue.                                         *)
LEMMA Rest ==
    ASSUME NEW S, NEW s \in Seq(S), NEW n \in 0 .. Len(s)
    PROVE  /\ SubSeq(s, n + 1, Len(s)) \in Seq(S)
           /\ \A j \in DOMAIN s : \/ Occurs(s[j], SubSeq(s, 1, n))
                                  \/ Occurs(s[j], SubSeq(s, n + 1, Len(s)))
<1> DEFINE a == SubSeq(s, 1, n)
           b == SubSeq(s, n + 1, Len(s))
<1>1. a \in Seq(S) /\ Len(a) = n /\ \A j \in 1 .. n : a[j] = s[j]
  OBVIOUS
<1>2. b \in Seq(S) /\ Len(b) = Len(s) - n /\ \A j \in 1 .. Len(b) : b[j] = s[n + j]
  OBVIOUS
<1> HIDE DEF a, b
<1>3. ASSUME NEW j \in DOMAIN s
      PROVE  (\E i \in DOMAIN a : a[i] = s[j]) \/ (\E i \in DOMAIN b : b[i] = s[j])
  <2>1. CASE j <= n
    BY <1>1, <2>1
  <2>2. CASE j > n
    <3>0. j - n \in 1 .. Len(b) /\ j = n + (j - n)
      BY <1>2, <2>2
    <3>1. PICK k \in 1 .. Len(b) : j = n + k
      BY <3>0, Zenon
    <3> QED
      BY <1>2, <3>1
  <2> QED
    BY <2>1, <2>2
<1> QED
  BY <1>2, <1>3, Zenon DEF a, b, Occurs

(* How many entries of a queue have some property.                         *)
LEMMA Counted ==
    ASSUME NEW S, NEW s \in Seq(S), NEW T \in SUBSET DOMAIN s
    PROVE  Cardinality(T) \in 0 .. Len(s)
<1>1. IsFiniteSet(1 .. Len(s)) /\ Cardinality(1 .. Len(s)) = Len(s)
  <2>1. Len(s) \in Nat /\ Len(s) \in Int /\ 1 \in Int
    OBVIOUS
  <2>2. Cardinality(1 .. Len(s)) = IF 1 > Len(s) THEN 0 ELSE Len(s) - 1 + 1
    BY <2>1, FS_Interval, Zenon
  <2> QED
    BY <2>1, <2>2, FS_Interval, SMTT(30)
<1>2. T \subseteq 1 .. Len(s)
  OBVIOUS
<1> QED
  BY <1>1, <1>2, FS_Subset, FS_CardinalityType

-----------------------------------------------------------------------------
(* The queue of timeouts                                                   *)

(* push leaves everything but the queue alone, and keeps every entry or    *)
(* counts one as lost, or does not end.                                    *)
LEMMA PushEffect ==
    ASSUME NEW l \in Link, NEW tm \in Entry
    PROVE  LET k == push(l, tm)
           IN  /\ k \in Link
               /\ k.chan = l.chan /\ k.closed = l.closed /\ k.pool = l.pool
               /\ k.buf = l.buf /\ k.waits = l.waits
               /\ k.toWorld \in {l.toWorld, "loop"}
               /\ \/ k.toWorld = "loop"
                  \/ k.lost > 0
                  \/ /\ k.lost = l.lost
                     /\ Occurs(tm, k.pq) /\ Keeps(k.pq, l.pq)
<1> DEFINE later == {i \in DOMAIN l.pq : l.pq[i].left > tm.left}
           n     == Len(l.pq) - Cardinality(later)
           put   == Inserted(l.pq, n, tm)
           ring  == <<[tm EXCEPT !.ring = TRUE]>> \o Tail(l.pq)
<1>0. l.pq \in Seq(Entry) /\ l.lost \in Nat
  BY Zenon DEF Link
<1>1. n \in 0 .. Len(l.pq)
  <2>1. Cardinality(later) \in 0 .. Len(l.pq)
    BY <1>0, Counted, Zenon
  <2> QED
    BY <1>0, <2>1
<1> HIDE DEF n
<1>2. put \in Seq(Entry) /\ Occurs(tm, put) /\ Keeps(put, l.pq)
  BY <1>0, <1>1, Insertion, Zenon
<1>3. l.pq # <<>> => ring \in Seq(Entry)
  <2>1. [tm EXCEPT !.ring = TRUE] \in Entry
    BY Zenon DEF Entry
  <2> QED
    BY <1>0, <2>1
<1> HIDE DEF put, ring
<1>4. CASE n > 0 \/ l.pq = <<>>
  <2>1. push(l, tm) = [l EXCEPT !.pq = put]
    BY <1>4 DEF push, n, put, Inserted
  <2> QED
    BY <1>2, <2>1, Zenon DEF Link
<1>5. CASE ~(n > 0 \/ l.pq = <<>>) /\ ~l.pq[1].ring
  <2>1. n = 0
    BY <1>1, <1>5
  <2>2. push(l, tm) = [l EXCEPT !.pq = ring, !.lost = l.lost + 1]
    BY <1>5, <2>1, Zenon DEF push, n, ring
  <2>3. l.lost + 1 \in Nat /\ l.lost + 1 > 0
    BY <1>0
  <2> QED
    BY <1>3, <1>5, <2>2, <2>3, Zenon DEF Link
<1>6. CASE ~(n > 0 \/ l.pq = <<>>) /\ l.pq[1].ring
  <2>1. push(l, tm) = [l EXCEPT !.toWorld = "loop"]
    BY <1>6, Zenon DEF push, n
  <2> QED
    BY <2>1, Zenon DEF Link
<1> QED
  BY <1>4, <1>5, <1>6, Zenon

\* Who is in waits and in es
Expired(l, es) == {w \in l.waits : \E i \in DOMAIN es : es[i].req = w.req}

\* b has the results of ws, and apart from them those of l
Results(b, l, ws) ==
    \A ch \in Rch : \/ b[ch] = l.buf[ch] /\ \A w \in ws : w.ch # ch
                    \/ \E w \in ws : w.ch = ch /\ b[ch] = w.req

(* A result for everybody in es who waits, on the channel of each.         *)
LEMMA ExpireEffect ==
    ASSUME NEW l \in Link, NEW es
    PROVE  /\ expire(l, es) \in Link
           /\ expire(l, es) = [l EXCEPT !.waits = expire(l, es).waits,
                                        !.buf = expire(l, es).buf]
           /\ expire(l, es).waits = l.waits \ Expired(l, es)
           /\ Results(expire(l, es).buf, l, Expired(l, es))
<1> DEFINE ws == Expired(l, es)
           b  == [ch \in Rch |-> IF \E w \in ws : w.ch = ch
                                 THEN (CHOOSE w \in ws : w.ch = ch).req ELSE l.buf[ch]]
<1>1. ws \subseteq Msg /\ l.waits \ ws \subseteq Msg
  BY Zenon DEF Link, Expired
<1>2. Results(b, l, ws)
  BY Zenon DEF Results
<1>3. b \in [Rch -> Req \cup {none}]
  BY <1>1, <1>2, Zenon DEF Msg, Link, Results
<1>4. expire(l, es) = [l EXCEPT !.waits = l.waits \ ws, !.buf = b]
  BY Zenon DEF expire, Expired
<1> HIDE DEF ws, b
<1>5. expire(l, es) \in Link
  BY <1>1, <1>3, <1>4, Zenon DEF Link
<1>6. expire(l, es).waits = l.waits \ ws /\ expire(l, es).buf = b
  BY <1>4, Zenon DEF Link
<1> QED
  BY <1>2, <1>4, <1>5, <1>6, Zenon DEF ws

-----------------------------------------------------------------------------
(* What the goroutines of a broker make of their connection                *)

\* From l to k no request is mixed up and none is forgotten
Moves(c, l, k) ==
    /\ k \in Link /\ LinkOK(c, k)
    /\ Len(k.chan) <= Len(l.chan) /\ k.closed = l.closed
    /\ \A r \in Waiting : rch[r].conn = c /\ Known(r, l) => Known(r, k)

\* From l to k no request moves
Quiet(l, k) ==
    /\ k.chan = l.chan /\ k.waits = l.waits /\ k.buf = l.buf /\ k.pool = l.pool
    /\ k.lost = l.lost /\ DOMAIN k.pq = DOMAIN l.pq
    /\ \A i \in DOMAIN l.pq : k.pq[i].req = l.pq[i].req
    /\ l.closed => k.closed
    /\ k.toWorld = "done" <=> l.toWorld = "done"
    /\ k.toWorld = "loop" <=> l.toWorld = "loop"

(* Closing the connection moves no request.                                *)
LEMMA ClosedQuiet ==
    ASSUME NEW l \in Link, NEW b
    PROVE  /\ [l EXCEPT !.closed = @ \/ b] \in Link
           /\ Quiet(l, [l EXCEPT !.closed = @ \/ b])
<1>1. PICK x \in BOOLEAN : x = (l.closed \/ b)
  BY Zenon
<1>2. [l EXCEPT !.closed = @ \/ b] = [l EXCEPT !.closed = x]
  BY <1>1, Zenon
<1>3. [l EXCEPT !.closed = x] \in Link
  BY Zenon DEF Link
<1>4. Quiet(l, [l EXCEPT !.closed = x])
  BY <1>1, Zenon DEF Quiet, Link
<1> QED
  BY <1>2, <1>3, <1>4, Zenon

(* A step of the clock moves no request.                                   *)
LEMMA RequeuedQuiet ==
    ASSUME NEW l \in Link, NEW q \in Seq(Entry), DOMAIN q = DOMAIN l.pq,
           \A i \in DOMAIN l.pq : q[i].req = l.pq[i].req
    PROVE  /\ [l EXCEPT !.pq = q] \in Link /\ [l EXCEPT !.pq = q].closed = l.closed
           /\ Quiet(l, [l EXCEPT !.pq = q])
<1>1. [l EXCEPT !.pq = q] \in Link
  BY Zenon DEF Link
<1>2. PICK k : k = [l EXCEPT !.pq = q]
  BY Zenon
<1>3. /\ k.pq = q /\ k.chan = l.chan /\ k.waits = l.waits /\ k.buf = l.buf /\ k.pool = l.pool
      /\ k.lost = l.lost /\ k.closed = l.closed /\ k.toWorld = l.toWorld
  BY <1>2, Zenon DEF Link
<1>4. Quiet(l, k)
  BY <1>3, Zenon DEF Quiet
<1> QED
  BY <1>1, <1>2, <1>3, <1>4, Zenon

(* Nothing is mixed up or forgotten when no request moves.                 *)
LEMMA QuietKeeps ==
    ASSUME NEW c, NEW l \in Link, NEW k \in Link, LinkOK(c, l), Quiet(l, k)
    PROVE  /\ LinkOK(c, k) /\ Len(k.chan) = Len(l.chan)
           /\ \A r \in Waiting : Known(r, l) => Known(r, k)
<1>1. LinkOK(c, k)
  BY DEF LinkOK, Quiet
<1>2. ASSUME NEW r \in Waiting, Known(r, l) PROVE Known(r, k)
  BY <1>2, Zenon DEF Known, Quiet
<1> QED
  BY <1>1, <1>2, Zenon DEF Quiet

(* Nothing is mixed up by what happens to the queue.                       *)
LEMMA SameOK ==
    ASSUME NEW c, NEW l, NEW k, LinkOK(c, l), k.chan = l.chan, k.waits = l.waits,
           k.buf = l.buf, k.pool = l.pool, k.closed = l.closed, k.toWorld # "done"
    PROVE  LinkOK(c, k)
BY DEF LinkOK

(* To world takes the first message: one that asks for an answer goes to   *)
(* waits and to the queue.                                                 *)
LEMMA ToWorldMoves ==
    ASSUME NEW c, NEW l \in Link, Apart, LinkOK(c, l), l.chan # <<>>, l.toWorld = "receive",
           NEW m \in Msg, m = Head(l.chan),
           NEW tm \in Entry, tm.req = m.req,
           NEW l1 \in Link, l1 = [l EXCEPT !.chan = Tail(@)],
           NEW l2 \in Link, l2 = push([l1 EXCEPT !.toWorld = "activate"], tm)
    PROVE  Moves(c, l, IF m.ch = 0 THEN [l1 EXCEPT !.out = m]
                       ELSE IF l2.toWorld = "loop" THEN l2
                       ELSE [l2 EXCEPT !.waits = @ \cup {m}, !.out = m])
<1>0. /\ l.chan \in Seq(Msg) /\ l.waits \in SUBSET Msg /\ l.buf \in [Rch -> Req \cup {none}]
      /\ l.lost \in Nat /\ m = l.chan[1] /\ 1 \in DOMAIN l.chan
  BY DEF Link
<1>1. /\ l1.chan = Tail(l.chan) /\ l1.waits = l.waits /\ l1.buf = l.buf /\ l1.pool = l.pool
      /\ l1.lost = l.lost /\ l1.pq = l.pq /\ l1.closed = l.closed /\ l1.toWorld = "receive"
  BY Zenon DEF Link
<1>2. /\ Tail(l.chan) \in Seq(Msg) /\ Len(Tail(l.chan)) <= Len(l.chan)
      /\ \A i \in DOMAIN Tail(l.chan) : i + 1 \in DOMAIN l.chan /\ Tail(l.chan)[i] = l.chan[i + 1]
      /\ \A i \in DOMAIN l.chan : i = 1 \/ (i - 1 \in DOMAIN Tail(l.chan)
                                           /\ Tail(l.chan)[i - 1] = l.chan[i])
  BY <1>0, SMTT(30)
<1>3. \A i \in DOMAIN Tail(l.chan) : Tail(l.chan)[i].ch # 0 =>
          /\ Holds(c, Tail(l.chan)[i])
          /\ Tail(l.chan)[i] \notin l.waits
          /\ l.buf[Tail(l.chan)[i].ch] # Tail(l.chan)[i].req
          /\ Tail(l.chan)[i] # m
          /\ \A j \in DOMAIN Tail(l.chan) : Tail(l.chan)[i] = Tail(l.chan)[j] => i = j
  <2> SUFFICES ASSUME NEW i \in DOMAIN Tail(l.chan), Tail(l.chan)[i].ch # 0
               PROVE  /\ Holds(c, Tail(l.chan)[i])
                      /\ Tail(l.chan)[i] \notin l.waits
                      /\ l.buf[Tail(l.chan)[i].ch] # Tail(l.chan)[i].req
                      /\ Tail(l.chan)[i] # m
                      /\ \A j \in DOMAIN Tail(l.chan) : Tail(l.chan)[i] = Tail(l.chan)[j] => i = j
    BY Zenon
  <2>1. i \in Nat \ {0} /\ i + 1 \in DOMAIN l.chan /\ Tail(l.chan)[i] = l.chan[i + 1]
    BY <1>0, <1>2
  <2>2. /\ Holds(c, l.chan[i + 1]) /\ l.chan[i + 1] \notin l.waits
        /\ l.buf[l.chan[i + 1].ch] # l.chan[i + 1].req
        /\ \A j \in DOMAIN l.chan : l.chan[i + 1] = l.chan[j] => i + 1 = j
    BY <2>1, Zenon DEF LinkOK
  <2>3. Tail(l.chan)[i] # m
    BY <1>0, <2>1, <2>2
  <2>4. ASSUME NEW j \in DOMAIN Tail(l.chan), Tail(l.chan)[i] = Tail(l.chan)[j] PROVE i = j
    <3>1. j \in Nat /\ j + 1 \in DOMAIN l.chan /\ Tail(l.chan)[j] = l.chan[j + 1]
      BY <1>0, <1>2
    <3>2. i + 1 = j + 1
      BY <2>1, <2>2, <2>4, <3>1, Zenon
    <3> QED
      BY <2>1, <3>1, <3>2
  <2> QED
    BY <2>1, <2>2, <2>3, <2>4, Zenon
<1>4. ASSUME NEW r \in Waiting, [req |-> r, ch |-> rch[r].ch] # m,
             [req |-> r, ch |-> rch[r].ch] \in {l.chan[i] : i \in DOMAIN l.chan}
      PROVE  [req |-> r, ch |-> rch[r].ch] \in {Tail(l.chan)[i] : i \in DOMAIN Tail(l.chan)}
  <2>1. PICK i \in DOMAIN l.chan : [req |-> r, ch |-> rch[r].ch] = l.chan[i]
    BY <1>4, Zenon
  <2>2. i # 1
    BY <1>0, <1>4, <2>1, Zenon
  <2> QED
    BY <1>2, <2>1, <2>2, ZenonT(40)
<1>a. LinkOK(c, l1)
  BY <1>1, <1>3 DEF LinkOK
<1>5. CASE m.ch = 0
  <2> DEFINE k == [l1 EXCEPT !.out = m]
  <2>1. /\ k \in Link /\ k.chan = l1.chan /\ k.waits = l1.waits /\ k.buf = l1.buf
        /\ k.pool = l1.pool /\ k.lost = l1.lost /\ k.pq = l1.pq /\ k.closed = l1.closed
        /\ k.toWorld = l1.toWorld
    BY ZenonT(40) DEF Link
  <2> HIDE DEF k
  <2>2. ASSUME NEW r \in Waiting, Known(r, l) PROVE Known(r, k)
    <3>1. [req |-> r, ch |-> rch[r].ch] # m
      BY <1>5 DEF Apart, Rch
    <3> QED
      BY <1>1, <1>4, <2>1, <2>2, <3>1, ZenonT(40) DEF Known
  <2>3. LinkOK(c, k)
    BY <1>1, <1>a, <2>1, SameOK, Zenon
  <2> QED
    BY <1>1, <1>2, <1>5, <2>1, <2>2, <2>3, Zenon DEF Moves, k
<1>6. CASE m.ch # 0
  <2>0. Holds(c, m) /\ m \notin l.waits /\ l.buf[m.ch] # m.req
    BY <1>0, <1>6, Zenon DEF LinkOK
  <2> DEFINE la == [l1 EXCEPT !.toWorld = "activate"]
             k  == [l2 EXCEPT !.waits = @ \cup {m}, !.out = m]
  <2>1. /\ la \in Link /\ la.chan = l1.chan /\ la.waits = l1.waits /\ la.buf = l1.buf
        /\ la.pool = l1.pool /\ la.lost = l1.lost /\ la.pq = l1.pq /\ la.closed = l1.closed
        /\ la.toWorld = "activate"
    BY ZenonT(40) DEF Link
  <2>2. l2 = push(la, tm)
    BY Zenon
  <2> HIDE DEF la
  <2>3. /\ l2.chan = Tail(l.chan) /\ l2.closed = l.closed /\ l2.pool = l.pool
        /\ l2.buf = l.buf /\ l2.waits = l.waits /\ l2.toWorld \in {"activate", "loop"}
        /\ \/ l2.toWorld = "loop"
           \/ l2.lost > 0
           \/ l2.lost = l.lost /\ Occurs(tm, l2.pq) /\ Keeps(l2.pq, l.pq)
    BY <1>1, <2>1, <2>2, PushEffect
  <2>4. CASE l2.toWorld = "loop"
    <3>0. /\ l2.chan = l1.chan /\ l2.closed = l1.closed /\ l2.pool = l1.pool
          /\ l2.buf = l1.buf /\ l2.waits = l1.waits /\ l2.toWorld # "done"
      BY <1>1, <2>3, <2>4, Zenon
    <3>1. LinkOK(c, l2)
      BY <1>a, <3>0, SameOK, Zenon
    <3>2. \A r \in Waiting : Known(r, l2)
      BY <2>4, Zenon DEF Known
    <3> QED
      BY <1>2, <1>6, <2>3, <2>4, <3>1, <3>2, Zenon DEF Moves
  <2>5. CASE l2.toWorld = "activate"
    <3>1. /\ k \in Link /\ k.chan = Tail(l.chan) /\ k.closed = l.closed /\ k.pool = l.pool
          /\ k.buf = l.buf /\ k.waits = l.waits \cup {m} /\ k.toWorld = "activate"
          /\ k.lost = l2.lost /\ k.pq = l2.pq
      BY <2>3, <2>5, ZenonT(40) DEF Link
    <3> HIDE DEF k
    <3>2. LinkOK(c, k)
      BY <1>3, <1>6, <2>0, <3>1, SMTT(30) DEF LinkOK
    <3>3. ASSUME NEW r \in Waiting, Known(r, l) PROVE Known(r, k)
      <4> DEFINE w == [req |-> r, ch |-> rch[r].ch]
      <4>1. CASE w = m
        <5>1. r = tm.req /\ w \in k.waits
          BY <3>1, <4>1
        <5>2. k.lost = 0 => Occurs(tm, k.pq)
          BY <2>3, <2>5, <3>1
        <5> QED
          BY <5>1, <5>2, Zenon DEF Known, Occurs
      <4>2. CASE w # m /\ l.buf[rch[r].ch] = r
        BY <3>1, <4>2, Zenon DEF Known
      <4>3. CASE w # m /\ w \in {l.chan[i] : i \in DOMAIN l.chan}
        BY <1>4, <3>1, <4>3, Zenon DEF Known
      <4>4. CASE /\ w # m /\ w \in l.waits
                 /\ l.lost = 0 => \E i \in DOMAIN l.pq : l.pq[i].req = r
        <5>1. k.lost = 0 => \E i \in DOMAIN k.pq : k.pq[i].req = r
          <6> SUFFICES ASSUME k.lost = 0 PROVE \E i \in DOMAIN k.pq : k.pq[i].req = r
            BY Zenon
          <6>1. l.lost = 0 /\ Keeps(k.pq, l.pq)
            BY <2>3, <2>5, <3>1
          <6> QED
            BY <4>4, <6>1, Zenon DEF Keeps, Occurs
        <5> QED
          BY <3>1, <4>4, <5>1, Zenon DEF Known
      <4>5. CASE l.toWorld = "loop"
        BY <4>5, Zenon
      <4> QED
        BY <3>3, <4>1, <4>2, <4>3, <4>4, <4>5, Zenon DEF Known
    <3> QED
      BY <1>2, <1>6, <2>5, <3>1, <3>2, <3>3, Zenon DEF Moves, k
  <2> QED
    BY <2>3, <2>4, <2>5, Zenon
<1> QED
  BY <1>5, <1>6, Zenon

(* The time-outs of the entries es, which leave the entries rest.          *)
LEMMA ExpireMoves ==
    ASSUME NEW c, NEW l \in Link, Apart, LinkOK(c, l), NEW es, NEW rest,
           \A j \in DOMAIN l.pq : Occurs(l.pq[j], es) \/ Occurs(l.pq[j], rest),
           NEW k \in Link,
           k.chan = l.chan, k.closed = l.closed, k.pool = l.pool, k.lost = l.lost,
           k.waits = expire(l, es).waits, k.buf = expire(l, es).buf, k.pq = rest,
           k.toWorld = l.toWorld \/ (k.toWorld = "done" /\ l.closed /\ l.toWorld # "loop")
    PROVE  Moves(c, l, k)
<1> DEFINE ws == Expired(l, es)
<1>0. /\ l.chan \in Seq(Msg) /\ l.waits \in SUBSET Msg /\ l.buf \in [Rch -> Req \cup {none}]
      /\ \A r \in Waiting : r \in Req /\ rch[r].ch \in Rch
  BY Zenon DEF Link, Apart, Waiting
<1>1. /\ k.waits = l.waits \ ws
      /\ \A ch \in Rch : \/ k.buf[ch] = l.buf[ch] /\ \A w \in ws : w.ch # ch
                         \/ \E w \in ws : w.ch = ch /\ k.buf[ch] = w.req
  <2>1. /\ expire(l, es).waits = l.waits \ Expired(l, es)
        /\ Results(expire(l, es).buf, l, Expired(l, es))
    BY ExpireEffect, Zenon
  <2>2. k.waits = l.waits \ ws /\ Results(k.buf, l, ws)
    BY <2>1, Zenon
  <2> HIDE DEF ws
  <2> QED
    BY <2>2, Zenon DEF Results
<1>a0. ws \subseteq l.waits
  BY Zenon DEF Expired
<1>a. \A w \in l.waits : w \in Msg /\ w.ch \in Rch /\ Holds(c, w) /\ l.buf[w.ch] # w.req
  BY <1>0, Zenon DEF LinkOK, Msg
<1>b. ASSUME NEW r \in Waiting, NEW w \in l.waits, rch[r].conn = c, w.ch = rch[r].ch
      PROVE  w.req = r
  <2>1. w.req \in Waiting /\ rch[w.req] = [conn |-> c, ch |-> w.ch]
    BY <1>a, Zenon DEF Holds
  <2>2. rch[r] = [conn |-> c, ch |-> w.ch]
    BY <1>b, Zenon DEF Apart
  <2> QED
    BY <2>1, <2>2, Zenon DEF Apart
<1>2. LinkOK(c, k)
  <2>1. ASSUME NEW i \in DOMAIN k.chan, k.chan[i].ch # 0
        PROVE  /\ Holds(c, k.chan[i])
               /\ k.chan[i] \notin k.waits /\ k.buf[k.chan[i].ch] # k.chan[i].req
               /\ \A j \in DOMAIN k.chan : k.chan[i] = k.chan[j] => i = j
    <3>1. /\ Holds(c, l.chan[i]) /\ l.chan[i] \notin l.waits
          /\ l.buf[l.chan[i].ch] # l.chan[i].req
          /\ \A j \in DOMAIN l.chan : l.chan[i] = l.chan[j] => i = j
      BY <2>1 DEF LinkOK
    <3>a. i \in DOMAIN l.chan /\ l.chan[i].ch # 0
      BY <2>1, Zenon
    <3>b. l.chan[i] \in Msg
      BY <1>0, <3>a
    <3>2. l.chan[i] \in Msg /\ l.chan[i].ch \in Rch
      BY <3>a, <3>b, Zenon DEF Msg
    <3>3. ASSUME NEW w \in ws, w.ch = l.chan[i].ch, w.req = l.chan[i].req PROVE FALSE
      <4>1. w = l.chan[i]
        BY <1>0, <1>a0, <3>2, <3>3 DEF Msg
      <4> QED
        BY <1>a0, <3>1, <4>1, Zenon
    <3> QED
      BY <1>1, <3>1, <3>2, <3>3
  <2>2. ASSUME NEW w \in k.waits PROVE Holds(c, w) /\ w.ch # 0 /\ k.buf[w.ch] # w.req
    <3>1. w \in l.waits /\ w \notin ws /\ w.ch # 0
      BY <1>1, Zenon DEF LinkOK
    <3>2. \A v \in ws : v.req = w.req => FALSE
      BY <1>a0, <3>1, Zenon DEF Expired
    <3> QED
      BY <1>1, <1>a, <3>1, <3>2, ZenonT(40)
  <2>3. ASSUME NEW ch \in Rch, k.buf[ch] # none
        PROVE  Holds(c, [req |-> k.buf[ch], ch |-> ch])
    <3>1. CASE k.buf[ch] = l.buf[ch]
      BY <2>3, <3>1, Zenon DEF LinkOK
    <3>2. ASSUME NEW w \in ws, w.ch = ch, k.buf[ch] = w.req
          PROVE  Holds(c, [req |-> k.buf[ch], ch |-> ch])
      BY <1>a, <1>a0, <3>2, Zenon DEF Holds
    <3> QED
      BY <1>1, <3>1, <3>2, Zenon
  <2>4. \A r \in Waiting : rch[r].conn = c => rch[r].ch \notin k.pool
    BY Zenon DEF LinkOK
  <2>5. k.toWorld = "done" => k.closed
    BY Zenon DEF LinkOK
  <2> QED
    BY <2>1, <2>2, <2>3, <2>4, <2>5, Zenon DEF LinkOK
<1>3. ASSUME NEW r \in Waiting, rch[r].conn = c, Known(r, l) PROVE Known(r, k)
  <2> DEFINE w == [req |-> r, ch |-> rch[r].ch]
  <2>1. CASE l.buf[rch[r].ch] = r
    <3>1. \A v \in ws : v.ch = rch[r].ch => v.req = r
      BY <1>a0, <1>b, <1>3, Zenon
    <3>2. k.buf[rch[r].ch] = r
      BY <1>0, <1>1, <2>1, <3>1, Zenon
    <3> QED
      BY <3>2, Zenon DEF Known
  <2>2. CASE w \in {l.chan[i] : i \in DOMAIN l.chan}
    BY <2>2, Zenon DEF Known
  <2>3. CASE w \in l.waits /\ w \in ws
    <3>1. \A v \in ws : v.ch = rch[r].ch => v.req = r
      BY <1>a0, <1>b, <1>3, Zenon
    <3>2. k.buf[rch[r].ch] = r
      BY <1>0, <1>1, <2>3, <3>1
    <3> QED
      BY <3>2, Zenon DEF Known
  <2>4. CASE /\ w \in l.waits /\ w \notin ws
             /\ l.lost = 0 => \E i \in DOMAIN l.pq : l.pq[i].req = r
    <3>1. w \in k.waits
      BY <1>1, <2>4, Zenon
    <3>2. ASSUME l.lost = 0 PROVE \E i \in DOMAIN k.pq : k.pq[i].req = r
      <4>1. PICK j \in DOMAIN l.pq : l.pq[j].req = r
        BY <2>4, <3>2, Zenon
      <4>2. ~Occurs(l.pq[j], es)
        BY <2>4, <4>1, Zenon DEF Occurs, Expired
      <4> QED
        BY <4>1, <4>2, Zenon DEF Occurs
    <3> QED
      BY <3>1, <3>2, Zenon DEF Known
  <2>5. CASE l.toWorld = "loop"
    BY <2>5, Zenon DEF Known
  <2> QED
    BY <1>3, <2>1, <2>2, <2>3, <2>4, <2>5, Zenon DEF Known
<1> QED
  BY <1>0, <1>2, <1>3 DEF Moves

(* From world gives the answer to the request it is for.                   *)
LEMMA FromWorldMoves ==
    ASSUME NEW c, NEW l \in Link, Apart, LinkOK(c, l), NEW w \in l.waits,
           NEW k \in Link, k = [l EXCEPT !.waits = @ \ {w}, !.buf[w.ch] = w.req]
    PROVE  Moves(c, l, k)
<1>0. /\ l.chan \in Seq(Msg) /\ l.waits \in SUBSET Msg /\ l.buf \in [Rch -> Req \cup {none}]
      /\ \A r \in Waiting : r \in Req /\ rch[r].ch \in Rch
  BY Zenon DEF Link, Apart, Waiting
<1>1. /\ k.chan = l.chan /\ k.closed = l.closed /\ k.pool = l.pool /\ k.lost = l.lost
      /\ k.pq = l.pq /\ k.toWorld = l.toWorld /\ k.waits = l.waits \ {w}
      /\ k.buf = [l.buf EXCEPT ![w.ch] = w.req]
  BY Zenon DEF Link
<1>2. w \in Msg /\ w.ch \in Rch /\ Holds(c, w)
  BY <1>0, Zenon DEF LinkOK, Msg
<1>3. k.buf[w.ch] = w.req /\ \A ch \in Rch \ {w.ch} : k.buf[ch] = l.buf[ch]
  BY <1>0, <1>1, <1>2
<1>b. ASSUME NEW r \in Waiting, rch[r].conn = c, w.ch = rch[r].ch
      PROVE  w.req = r
  <2>1. w.req \in Waiting /\ rch[w.req] = [conn |-> c, ch |-> w.ch]
    BY <1>2, Zenon DEF Holds
  <2>2. rch[r] = [conn |-> c, ch |-> w.ch]
    BY <1>b, Zenon DEF Apart
  <2> QED
    BY <2>1, <2>2, Zenon DEF Apart
<1>4. LinkOK(c, k)
  <2>1. ASSUME NEW i \in DOMAIN k.chan, k.chan[i].ch # 0
        PROVE  /\ Holds(c, k.chan[i])
               /\ k.chan[i] \notin k.waits /\ k.buf[k.chan[i].ch] # k.chan[i].req
               /\ \A j \in DOMAIN k.chan : k.chan[i] = k.chan[j] => i = j
    <3>1. /\ Holds(c, l.chan[i]) /\ l.chan[i] \notin l.waits
          /\ l.buf[l.chan[i].ch] # l.chan[i].req
          /\ \A j \in DOMAIN l.chan : l.chan[i] = l.chan[j] => i = j
      BY <1>1, <2>1 DEF LinkOK
    <3>a. i \in DOMAIN l.chan /\ l.chan[i].ch # 0
      BY <1>1, <2>1, Zenon
    <3>b. l.chan[i] \in Msg
      BY <1>0, <3>a
    <3>2. l.chan[i] \in Msg /\ l.chan[i].ch \in Rch
      BY <3>a, <3>b, Zenon DEF Msg
    <3>3. w.ch = l.chan[i].ch /\ w.req = l.chan[i].req => w = l.chan[i]
      BY <1>2, <3>2 DEF Msg
    <3> QED
      BY <1>1, <1>3, <3>1, <3>2, <3>3
  <2>2. ASSUME NEW v \in k.waits PROVE Holds(c, v) /\ v.ch # 0 /\ k.buf[v.ch] # v.req
    <3>1. /\ v \in l.waits /\ v # w /\ v \in Msg /\ v.ch # 0 /\ Holds(c, v)
          /\ l.buf[v.ch] # v.req
      BY <1>0, <1>1, Zenon DEF LinkOK
    <3>2. w.ch = v.ch /\ w.req = v.req => w = v
      BY <1>2, <3>1 DEF Msg
    <3>3. v.ch \in Rch
      BY <3>1, Zenon DEF Msg
    <3> QED
      BY <1>3, <3>1, <3>2, <3>3, Zenon
  <2>3. ASSUME NEW ch \in Rch, k.buf[ch] # none
        PROVE  Holds(c, [req |-> k.buf[ch], ch |-> ch])
    <3>1. CASE ch # w.ch
      BY <1>3, <2>3, <3>1, Zenon DEF LinkOK
    <3>2. CASE ch = w.ch
      BY <1>2, <1>3, <3>2, Zenon DEF Holds
    <3> QED
      BY <3>1, <3>2, Zenon
  <2>4. \A r \in Waiting : rch[r].conn = c => rch[r].ch \notin k.pool
    BY <1>1, Zenon DEF LinkOK
  <2>5. k.toWorld = "done" => k.closed
    BY <1>1, Zenon DEF LinkOK
  <2> QED
    BY <2>1, <2>2, <2>3, <2>4, <2>5, Zenon DEF LinkOK
<1>5. ASSUME NEW r \in Waiting, rch[r].conn = c, Known(r, l) PROVE Known(r, k)
  <2>1. CASE w.ch = rch[r].ch
    BY <1>3, <1>5, <1>b, <2>1, Zenon DEF Known
  <2>2. CASE w.ch # rch[r].ch
    <3>1. w # [req |-> r, ch |-> rch[r].ch]
      BY <2>2
    <3>2. k.buf[rch[r].ch] = l.buf[rch[r].ch]
      BY <1>0, <1>3, <2>2, Zenon
    <3> QED
      BY <1>1, <1>5, <3>1, <3>2 DEF Known
  <2> QED
    BY <2>1, <2>2, Zenon
<1> QED
  BY <1>0, <1>1, <1>4, <1>5 DEF Moves

-----------------------------------------------------------------------------
(* Steps on the connections                                                *)

(* What holds of a connection depends on who waits for what.               *)
LEMMA OKNext ==
    ASSUME NEW d, NEW l, Waiting' = Waiting, UNCHANGED rch, l = links'[d], LinkOK(d, l)
    PROVE  LinkOK(d, links[d])'
BY Zenon DEF LinkOK, Holds

(* The same for a request.                                                 *)
LEMMA KnownNext ==
    ASSUME NEW r, NEW l, UNCHANGED rch, l = links'[rch[r].conn], Known(r, l)
    PROVE  Known(r, links[rch[r].conn])'
BY Zenon DEF Known

(* The connections are numbered.                                           *)
LEMMA OpenedIs ==
    ASSUME Types
    PROVE  /\ Opened = 1 .. Len(links) /\ Len(links) \in Nat
           /\ \A c \in Opened : links[c] \in Link
BY DEF Types, Opened

(* A goroutine of one broker moves.                                        *)
LEMMA OneLink ==
    ASSUME BrokerInv, NEW c \in Opened, NEW k, Moves(c, links[c], k),
           links' = [links EXCEPT ![c] = k], UNCHANGED <<pc, rch, conn, frees>>,
           panicked' \in BOOLEAN
    PROVE  BrokerInv'
<1>0. Types /\ k \in Link /\ links \in Seq(Link)
  BY Zenon DEF BrokerInv, Moves, Types
<1>1. /\ links' \in Seq(Link) /\ Len(links') = Len(links) /\ Opened' = Opened
      /\ links'[c] = k /\ \A d \in Opened \ {c} : links'[d] = links[d]
  BY <1>0 DEF Opened
<1>2. Waiting' = Waiting /\ Readers' = Readers
  BY Zenon DEF Waiting, Readers
<1>3. Types'
  <2>1. \A d \in Opened : Len(links'[d].chan) <= ChannelSize
    <3>1. Len(k.chan) <= Len(links[c].chan) /\ Len(links[c].chan) <= ChannelSize
      BY <1>0, Zenon DEF Moves, Types
    <3>2. Len(k.chan) \in Nat /\ Len(links[c].chan) \in Nat /\ ChannelSize \in Nat
      BY <1>0, OpenedIs, BrokerAssumption, SMTT(30) DEF Link
    <3> QED
      BY <1>0, <1>1, <3>1, <3>2 DEF Types
  <2> QED
    BY <1>0, <1>1, <2>1, Zenon DEF Types
<1>4. Apart'
  BY <1>1, <1>2, Zenon DEF BrokerInv, Apart
<1>5. ASSUME NEW d \in Opened PROVE LinkOK(d, links[d])'
  <2>1. CASE d = c
    BY <1>1, <1>2, <2>1, OKNext, Zenon DEF Moves
  <2>2. CASE d # c
    <3>1. PICK l : l = links[d]
      BY Zenon
    <3>2. l = links'[d] /\ LinkOK(d, l)
      BY <1>1, <2>2, <3>1, Zenon DEF BrokerInv
    <3> QED
      BY <1>2, <3>2, OKNext, Zenon
  <2> QED
    BY <2>1, <2>2, Zenon
<1>6. (Readers # {} => conn # 0)' /\ (conn # 0 => ~links[conn].closed)'
  <2>1. k.closed = links[c].closed
    BY Zenon DEF Moves
  <2>2. conn # 0 => conn \in Opened
    BY <1>0, OpenedIs DEF Types
  <2> QED
    BY <1>1, <1>2, <2>1, <2>2, Zenon DEF BrokerInv
<1>7. ASSUME NEW r \in Waiting PROVE Known(r, links[rch[r].conn])'
  <2>1. Known(r, links[rch[r].conn]) /\ rch[r].conn \in Opened
    BY Zenon DEF BrokerInv, Apart
  <2>2. CASE rch[r].conn = c
    <3>1. Known(r, k)
      BY <2>1, <2>2, Zenon DEF Moves
    <3> QED
      BY <1>1, <2>2, <3>1, KnownNext, Zenon
  <2>3. CASE rch[r].conn # c
    <3>1. PICK l : l = links[rch[r].conn]
      BY Zenon
    <3>2. l = links'[rch[r].conn] /\ Known(r, l)
      BY <1>1, <2>1, <2>3, <3>1, Zenon
    <3> QED
      BY <3>2, KnownNext, Zenon
  <2> QED
    BY <2>2, <2>3, Zenon
<1> QED
  BY <1>1, <1>2, <1>3, <1>4, <1>5, <1>6, <1>7, Zenon DEF BrokerInv

(* A step that changes how far requests are timed out or closes            *)
(* connections, with nobody sending.                                       *)
LEMMA AllLinks ==
    ASSUME BrokerInv, links' \in Seq(Link), Len(links') = Len(links),
           \A d \in Opened : Quiet(links[d], links'[d]),
           UNCHANGED <<pc, rch>>, frees' \in 0 .. MaxFree, panicked' \in BOOLEAN,
           \/ conn' = conn /\ \A d \in Opened : links'[d].closed = links[d].closed
           \/ conn' = 0 /\ Readers = {}
    PROVE  BrokerInv'
<1>0. Types /\ Opened' = Opened /\ Waiting' = Waiting /\ Readers' = Readers
  BY DEF BrokerInv, Types, Opened, Waiting, Readers
<1>1. ASSUME NEW d \in Opened
      PROVE  /\ LinkOK(d, links'[d]) /\ Len(links'[d].chan) = Len(links[d].chan)
             /\ \A r \in Waiting : Known(r, links[d]) => Known(r, links'[d])
  <2>1. PICK l \in Link : l = links[d]
    BY <1>0, OpenedIs, Zenon
  <2>2. PICK k \in Link : k = links'[d]
    BY <1>0, OpenedIs
  <2>3. LinkOK(d, l) /\ Quiet(l, k)
    BY <2>1, <2>2, Zenon DEF BrokerInv
  <2>4. /\ LinkOK(d, k) /\ Len(k.chan) = Len(l.chan)
        /\ \A r \in Waiting : Known(r, l) => Known(r, k)
    BY <2>3, QuietKeeps, Zenon
  <2> QED
    BY <2>1, <2>2, <2>4, Zenon
<1>2. Types'
  <2>1. conn' \in 0 .. Len(links')
    BY <1>0 DEF Types
  <2>2. \A d \in Opened' : Len(links'[d].chan) <= ChannelSize
    BY <1>0, <1>1, Zenon DEF Types
  <2> QED
    BY <1>0, <2>1, <2>2, Zenon DEF Types
<1>3. Apart'
  BY <1>0, Zenon DEF BrokerInv, Apart
<1>4. ASSUME NEW d \in Opened PROVE LinkOK(d, links[d])'
  <2>1. PICK k : k = links'[d]
    BY Zenon
  <2> QED
    BY <1>0, <1>1, <2>1, OKNext, Zenon
<1>5. (Readers # {} => conn # 0)' /\ (conn # 0 => ~links[conn].closed)'
  <2>1. conn # 0 => conn \in Opened
    BY <1>0, OpenedIs DEF Types
  <2> QED
    BY <1>0, <2>1, Zenon DEF BrokerInv
<1>6. ASSUME NEW r \in Waiting PROVE Known(r, links[rch[r].conn])'
  <2>1. Known(r, links[rch[r].conn]) /\ rch[r].conn \in Opened
    BY Zenon DEF BrokerInv, Apart
  <2>2. PICK k : k = links'[rch[r].conn]
    BY Zenon
  <2>3. Known(r, k)
    BY <1>1, <2>1, <2>2, Zenon
  <2> QED
    BY <2>2, <2>3, KnownNext, Zenon
<1> QED
  BY <1>0, <1>2, <1>3, <1>4, <1>5, <1>6, Zenon DEF BrokerInv

(* The goroutines of a broker: messages, answers, failures and ticks.      *)
LEMMA BrokerStep ==
    ASSUME BrokerInv, NEW c \in Opened, broker(c), panicked = FALSE
    PROVE  BrokerInv'
<1>0. PICK l \in Link : l = links[c]
  BY OpenedIs, Zenon DEF BrokerInv
<1>a. Types /\ Apart /\ LinkOK(c, l) /\ links \in Seq(Link) /\ Opened = 1 .. Len(links)
  BY <1>0, OpenedIs, Zenon DEF BrokerInv, Types
<1>b. l.chan \in Seq(Msg) /\ l.pq \in Seq(Entry) /\ l.lost \in Nat /\ l.closed \in BOOLEAN
  BY Zenon DEF Link
<1>q. ASSUME NEW k \in Link, Quiet(l, k), k.closed = l.closed, Upd(c, k),
             UNCHANGED <<pc, rch, conn, frees, panicked>>
      PROVE  BrokerInv'
  <2>1. LinkOK(c, k) /\ Len(k.chan) = Len(l.chan) /\ \A r \in Waiting : Known(r, l) => Known(r, k)
    BY <1>a, <1>q, QuietKeeps, Zenon
  <2>2. Len(k.chan) <= Len(l.chan)
    BY <1>b, <2>1
  <2>3. Moves(c, links[c], k)
    BY <1>0, <1>q, <2>1, <2>2, Zenon DEF Moves
  <2> QED
    BY <1>q, <2>3, OneLink, Zenon DEF Upd
<1>1. CASE ToWorld(c)
  <2> DEFINE m  == Head(l.chan)
             tm == [req |-> m.req, left |-> Timeout[m.req], ring |-> FALSE]
             l1 == [l EXCEPT !.chan = Tail(@)]
             l2 == push([l1 EXCEPT !.toWorld = "activate"], tm)
             k  == IF m.ch = 0 THEN [l1 EXCEPT !.out = m]
                   ELSE IF l2.toWorld = "loop" THEN l2
                   ELSE [l2 EXCEPT !.waits = @ \cup {m}, !.out = m]
  <2>1. /\ l.toWorld = "receive" /\ l.chan # <<>> /\ Upd(c, k)
        /\ UNCHANGED <<pc, rch, conn, frees, panicked>>
    BY <1>0, <1>1, Zenon DEF ToWorld
  <2>2. m \in Msg /\ Tail(l.chan) \in Seq(Msg)
    BY <1>b, <2>1
  <2>3. tm \in Entry /\ tm.req = m.req
    BY <2>2, BrokerAssumption, Zenon DEF Entry, Msg
  <2>4. l1 \in Link /\ [l1 EXCEPT !.toWorld = "activate"] \in Link
    BY <2>2, Zenon DEF Link
  <2> HIDE DEF tm
  <2>5. l2 \in Link
    BY <2>3, <2>4, PushEffect, Zenon
  <2>6. Moves(c, l, k)
    BY <1>a, <2>1, <2>2, <2>3, <2>4, <2>5, ToWorldMoves, Zenon
  <2> HIDE DEF k
  <2> QED
    BY <1>0, <2>1, <2>6, OneLink, Zenon DEF Upd
<1>2. CASE ToWorldActivates(c)
  <2>0. PICK t \in {"starting", "inactive", "active"}, b \in BOOLEAN :
           Upd(c, [l EXCEPT !.toWorld = "receive", !.ticker = t, !.missed = b])
    BY <1>0, <1>2, Zenon DEF ToWorldActivates, Link
  <2> DEFINE k == [l EXCEPT !.toWorld = "receive", !.ticker = t, !.missed = b]
  <2>1. l.toWorld = "activate" /\ UNCHANGED <<pc, rch, conn, frees, panicked>>
    BY <1>0, <1>2, Zenon DEF ToWorldActivates
  <2>2. k \in Link /\ Quiet(l, k) /\ k.closed = l.closed
    BY <2>1, Zenon DEF Link, Quiet
  <2> QED
    BY <1>q, <2>0, <2>1, <2>2, Zenon
<1>3. CASE ToWorldCloses(c)
  <2> DEFINE k == [expire(l, l.pq) EXCEPT !.toWorld = "done", !.pq = <<>>]
  <2>1. /\ l.toWorld = "receive" /\ l.closed /\ Upd(c, k)
        /\ UNCHANGED <<pc, rch, conn, frees>> /\ panicked' = (l.lost > 0)
    BY <1>0, <1>3, Zenon DEF ToWorldCloses
  <2>2. expire(l, l.pq) \in Link
        /\ expire(l, l.pq) = [l EXCEPT !.waits = expire(l, l.pq).waits,
                                       !.buf = expire(l, l.pq).buf]
    BY ExpireEffect, Zenon
  <2>3. PICK e \in Link : e = expire(l, l.pq)
    BY <2>2, Zenon
  <2>4. e = [l EXCEPT !.waits = e.waits, !.buf = e.buf]
    BY <2>2, <2>3, Zenon
  <2>5. e.chan = l.chan /\ e.closed = l.closed /\ e.pool = l.pool /\ e.lost = l.lost
    BY <2>4, Zenon DEF Link
  <2>6. /\ k \in Link /\ k.chan = e.chan /\ k.closed = e.closed /\ k.pool = e.pool
        /\ k.lost = e.lost /\ k.waits = e.waits /\ k.buf = e.buf /\ k.pq = <<>>
        /\ k.toWorld = "done"
    <3>1. k = [e EXCEPT !.toWorld = "done", !.pq = <<>>] /\ <<>> \in Seq(Entry)
      BY <2>3
    <3> HIDE DEF k
    <3> QED
      BY <3>1, Zenon DEF Link
  <2> HIDE DEF k
  <2>7. Moves(c, l, k)
    <3>1. \A j \in DOMAIN l.pq : Occurs(l.pq[j], l.pq) \/ Occurs(l.pq[j], <<>>)
      BY Zenon DEF Occurs
    <3> QED
      BY <1>a, <2>1, <2>3, <2>5, <2>6, <3>1, ExpireMoves, Zenon
  <2>8. panicked' \in BOOLEAN
    BY <2>1
  <2> QED
    BY <1>0, <2>1, <2>7, <2>8, OneLink, Zenon DEF Upd
<1>4. CASE FromWorld(c)
  <2>1. PICK w \in l.waits : Upd(c, [l EXCEPT !.waits = @ \ {w}, !.buf[w.ch] = w.req])
    BY <1>0, <1>4, Zenon DEF FromWorld
  <2>2. UNCHANGED <<pc, rch, conn, frees, panicked>>
    BY <1>4, Zenon DEF FromWorld
  <2> DEFINE k == [l EXCEPT !.waits = @ \ {w}, !.buf[w.ch] = w.req]
  <2>3. k \in Link
    <3>1. w \in Msg /\ l.buf \in [Rch -> Req \cup {none}] /\ l.waits \subseteq Msg
      BY Zenon DEF Link
    <3>2. [l.buf EXCEPT ![w.ch] = w.req] \in [Rch -> Req \cup {none}] /\ l.waits \ {w} \subseteq Msg
      BY <3>1, Zenon DEF Msg
    <3> QED
      BY <3>2, Zenon DEF Link
  <2>4. Moves(c, l, k)
    BY <1>a, <2>3, FromWorldMoves, Zenon
  <2> HIDE DEF k
  <2>5. panicked' \in BOOLEAN
    BY <2>2, Zenon
  <2> QED
    BY <1>0, <2>1, <2>2, <2>4, <2>5, OneLink, Zenon DEF Upd, k
<1>5. CASE FromWorldFails(c)
  <2> DEFINE k == [l EXCEPT !.fromWorld = "onClose"]
  <2>1. Upd(c, k) /\ UNCHANGED <<pc, rch, conn, frees, panicked>>
    BY <1>0, <1>5, Zenon DEF FromWorldFails
  <2>2. k \in Link /\ Quiet(l, k) /\ k.closed = l.closed
    BY Zenon DEF Link, Quiet
  <2> QED
    BY <1>q, <2>1, <2>2, Zenon
<1>6. CASE ToWorldWrites(c)
  <2> DEFINE k == [l EXCEPT !.out = none]
  <2>1. Upd(c, k) /\ UNCHANGED <<pc, rch, conn, frees, panicked>>
    BY <1>0, <1>6, Zenon DEF ToWorldWrites
  <2>2. k \in Link /\ Quiet(l, k) /\ k.closed = l.closed
    BY Zenon DEF Link, Quiet
  <2> QED
    BY <1>q, <2>1, <2>2, Zenon
<1>7. CASE TickerWaits(c)
  <2> DEFINE k == [l EXCEPT !.ticker = "inactive"]
  <2>1. Upd(c, k) /\ UNCHANGED <<pc, rch, conn, frees, panicked>>
    BY <1>0, <1>7, Zenon DEF TickerWaits
  <2>2. k \in Link /\ Quiet(l, k) /\ k.closed = l.closed
    BY Zenon DEF Link, Quiet
  <2> QED
    BY <1>q, <2>1, <2>2, Zenon
<1>8. CASE TickerCleans(c)
  <2> DEFINE n == Cardinality({i \in DOMAIN l.pq : l.pq[i].left = 0})
             es == SubSeq(l.pq, 1, n)
             rest == SubSeq(l.pq, n + 1, Len(l.pq))
  <2>0. n \in 0 .. Len(l.pq)
    BY <1>b, Counted, Zenon
  <2>1. rest \in Seq(Entry) /\ \A j \in DOMAIN l.pq : Occurs(l.pq[j], es) \/ Occurs(l.pq[j], rest)
    BY <1>b, <2>0, Rest, Zenon
  <2>2. PICK e \in Link : e = expire(l, es)
    BY ExpireEffect, Zenon
  <2>3. e = [l EXCEPT !.waits = e.waits, !.buf = e.buf]
    BY <2>2, ExpireEffect, Zenon
  <2>4. /\ e.chan = l.chan /\ e.closed = l.closed /\ e.pool = l.pool /\ e.lost = l.lost
        /\ e.toWorld = l.toWorld /\ e.pq = l.pq /\ e.ticker = l.ticker
    BY <2>3, Zenon DEF Link
  <2>5. /\ UNCHANGED <<pc, rch, conn, frees>> /\ panicked' \in BOOLEAN
        /\ Upd(c, [e EXCEPT !.pq = SubSeq(e.pq, n + 1, Len(e.pq)),
                            !.ticker = IF n = Len(l.pq) /\ l.lost = 0
                                       THEN "starting" ELSE e.ticker])
    BY <1>0, <1>8, <2>2, Zenon DEF TickerCleans
  <2> DEFINE t == IF n = Len(l.pq) /\ l.lost = 0 THEN "starting" ELSE e.ticker
             k == [e EXCEPT !.pq = rest, !.ticker = t]
  <2>6. Upd(c, k)
    BY <2>4, <2>5, Zenon
  <2>7. t \in {"starting", "inactive", "active"}
    BY Zenon DEF Link
  <2> HIDE DEF rest, es, t
  <2>8. /\ k \in Link /\ k.chan = e.chan /\ k.closed = e.closed /\ k.pool = e.pool
        /\ k.lost = e.lost /\ k.waits = e.waits /\ k.buf = e.buf /\ k.pq = rest
        /\ k.toWorld = e.toWorld
    BY <2>1, <2>7, Zenon DEF Link
  <2> HIDE DEF k
  <2>9. Moves(c, l, k)
    BY <1>a, <2>1, <2>2, <2>4, <2>8, ExpireMoves, Zenon
  <2> QED
    BY <1>0, <2>5, <2>6, <2>9, OneLink, Zenon DEF Upd
<1>9. CASE onClose(c)
  <2> DEFINE ls == [links EXCEPT ![c].fromWorld = "done"]
  <2>1. /\ Readers = {} /\ conn' = 0 /\ UNCHANGED <<pc, rch, frees, panicked>>
        /\ links' = [d \in Opened |-> [ls[d] EXCEPT !.closed = @ \/ d = conn]]
    BY <1>9, Zenon DEF onClose, freeConn
  <2>2. ASSUME NEW d \in Opened
        PROVE  links'[d] \in Link /\ Quiet(links[d], links'[d])
    <3>1. links[d] \in Link
      BY <1>a, OpenedIs, Zenon
    <3>2. ls[d] \in Link /\ Quiet(links[d], ls[d])
      <4>1. CASE d = c
        <5>1. ls[d] = [l EXCEPT !.fromWorld = "done"]
          BY <1>0, <1>a, <4>1
        <5> QED
          BY <1>0, <4>1, <5>1 DEF Link, Quiet
      <4>2. CASE d # c
        <5>1. ls[d] = links[d]
          BY <1>a, <4>2
        <5> QED
          BY <3>1, <5>1, Zenon DEF Quiet
      <4> QED
        BY <4>1, <4>2, Zenon
    <3>3. links'[d] = [ls[d] EXCEPT !.closed = @ \/ d = conn]
      BY <2>1, Zenon
    <3> HIDE DEF ls
    <3>4. PICK x \in Link : x = ls[d] /\ Quiet(links[d], x)
      BY <3>2, Zenon
    <3>5. links'[d] \in Link /\ Quiet(x, links'[d])
      BY <3>3, <3>4, ClosedQuiet, Zenon
    <3> QED
      BY <3>4, <3>5, Zenon DEF Quiet
  <2>3. links' \in Seq(Link) /\ Len(links') = Len(links)
    BY <1>a, <2>1, <2>2
  <2>4. frees' \in 0 .. MaxFree /\ panicked' \in BOOLEAN
    BY <1>a, <2>1, Zenon DEF Types
  <2> QED
    BY <2>1, <2>2, <2>3, <2>4, AllLinks, Zenon
<1> QED
  BY <1>1, <1>2, <1>3, <1>4, <1>5, <1>6, <1>7, <1>8, <1>9, Zenon DEF broker

(* The group frees the connection.                                         *)
LEMMA GroupFreesStep ==
    ASSUME BrokerInv, GroupFrees
    PROVE  BrokerInv'
<1>0. Types /\ links \in Seq(Link) /\ Opened = 1 .. Len(links)
  BY OpenedIs, Zenon DEF BrokerInv, Types
<1>1. /\ Readers = {} /\ conn' = 0 /\ UNCHANGED <<pc, rch, panicked>>
      /\ frees < MaxFree /\ frees' = frees + 1
      /\ links' = [d \in Opened |-> [links[d] EXCEPT !.closed = @ \/ d = conn]]
  BY Zenon DEF GroupFrees, freeConn
<1>2. ASSUME NEW d \in Opened
      PROVE  links'[d] \in Link /\ Quiet(links[d], links'[d])
  <2>1. links[d] \in Link
    BY <1>0, OpenedIs, Zenon
  <2>2. links'[d] = [links[d] EXCEPT !.closed = @ \/ d = conn]
    BY <1>1, Zenon
  <2> QED
    BY <2>1, <2>2, Zenon DEF Link, Quiet
<1>3. links' \in Seq(Link) /\ Len(links') = Len(links)
  <2>1. PICK n \in Nat : n = Len(links) /\ Opened = 1 .. n
    BY <1>0
  <2>2. links' = [d \in 1 .. n |-> links'[d]] /\ \A d \in 1 .. n : links'[d] \in Link
    BY <1>1, <1>2, <2>1, Zenon
  <2> QED
    BY <2>1, <2>2, Tabled, Zenon
<1>4. frees' \in 0 .. MaxFree /\ panicked' \in BOOLEAN
  BY <1>0, <1>1, BrokerAssumption DEF Types
<1> QED
  BY <1>1, <1>2, <1>3, <1>4, AllLinks, Zenon

(* Time passes for every entry of every queue.                             *)
LEMMA ElapseStep ==
    ASSUME BrokerInv, Elapse
    PROVE  BrokerInv'
<1>0. Types /\ links \in Seq(Link) /\ Opened = 1 .. Len(links)
  BY OpenedIs, Zenon DEF BrokerInv, Types
<1>1. /\ UNCHANGED <<pc, rch, conn, frees, panicked>>
      /\ links' = [c \in Opened |->
            [links[c] EXCEPT !.pq = [i \in DOMAIN @ |->
                [links[c].pq[i] EXCEPT !.left = IF @ = 0 THEN 0 ELSE @ - 1]]]]
  BY Zenon DEF Elapse
<1>2. ASSUME NEW d \in Opened
      PROVE  /\ links'[d] \in Link /\ Quiet(links[d], links'[d])
             /\ links'[d].closed = links[d].closed
  <2>1. PICK l \in Link : l = links[d]
    BY <1>0, OpenedIs, Zenon
  <2> DEFINE q == [i \in DOMAIN l.pq |-> [l.pq[i] EXCEPT
                      !.left = IF l.pq[i].left = 0 THEN 0 ELSE l.pq[i].left - 1]]
  <2>2. links'[d] = [l EXCEPT !.pq = q]
    <3>1. links'[d] = [links[d] EXCEPT !.pq = [i \in DOMAIN links[d].pq |->
             [links[d].pq[i] EXCEPT !.left = IF links[d].pq[i].left = 0 THEN 0
                                             ELSE links[d].pq[i].left - 1]]]
      BY <1>1, Zenon
    <3> QED
      BY <2>1, <3>1, Zenon
  <2>3. l.pq \in Seq(Entry)
    BY Zenon DEF Link
  <2>4. ASSUME NEW i \in DOMAIN l.pq
        PROVE  q[i] \in Entry /\ q[i].req = l.pq[i].req
    <3>1. PICK e \in Entry : e = l.pq[i]
      BY <2>3
    <3>2. q[i] = [e EXCEPT !.left = IF e.left = 0 THEN 0 ELSE e.left - 1]
      BY <3>1, Zenon
    <3>3. e.left \in Nat
      BY Zenon DEF Entry
    <3>4. (IF e.left = 0 THEN 0 ELSE e.left - 1) \in Nat
      BY <3>3
    <3> QED
      BY <3>1, <3>2, <3>4, Zenon DEF Entry
  <2>5. q \in Seq(Entry) /\ DOMAIN q = DOMAIN l.pq
    <3>1. PICK n \in Nat : DOMAIN l.pq = 1 .. n
      BY <2>3
    <3>2. q = [i \in 1 .. n |-> q[i]] /\ \A i \in 1 .. n : q[i] \in Entry
      BY <2>4, <3>1, Zenon
    <3> HIDE DEF q
    <3> QED
      BY <3>1, <3>2, Tabled, Zenon
  <2> HIDE DEF q
  <2>6. \A i \in DOMAIN l.pq : q[i].req = l.pq[i].req
    BY <2>4, Zenon
  <2>7. /\ [l EXCEPT !.pq = q] \in Link /\ [l EXCEPT !.pq = q].closed = l.closed
        /\ Quiet(l, [l EXCEPT !.pq = q])
    BY <2>5, <2>6, RequeuedQuiet, Zenon
  <2> QED
    BY <2>1, <2>2, <2>7, Zenon
<1>3. links' \in Seq(Link) /\ Len(links') = Len(links)
  <2>1. PICK n \in Nat : n = Len(links) /\ Opened = 1 .. n
    BY <1>0
  <2>2. links' = [d \in 1 .. n |-> links'[d]] /\ \A d \in 1 .. n : links'[d] \in Link
    BY <1>1, <1>2, <2>1, Zenon
  <2> QED
    BY <2>1, <2>2, Tabled, Zenon
<1>4. frees' \in 0 .. MaxFree /\ panicked' \in BOOLEAN
  BY <1>0, <1>1, Zenon DEF Types
<1> QED
  BY <1>1, <1>2, <1>3, <1>4, AllLinks, Zenon

(* A request comes to another point of needConnection, or gives up.        *)
LEMMA SameLinks ==
    ASSUME BrokerInv, UNCHANGED <<rch, conn, links, frees, panicked>>,
           pc' \in [Req -> {"enter", "lock", "send", "wait", "hold", "done"}],
           Waiting' = Waiting, Readers' # {} => conn # 0
    PROVE  BrokerInv'
<1>0. Types' /\ Apart' /\ Opened' = Opened
  BY Zenon DEF BrokerInv, Types, Apart, Opened
<1>1. ASSUME NEW d \in Opened PROVE LinkOK(d, links[d])'
  <2>1. PICK l : l = links[d]
    BY Zenon
  <2>2. l = links'[d] /\ LinkOK(d, l)
    BY <2>1, Zenon DEF BrokerInv
  <2> QED
    BY <2>2, OKNext, Zenon
<1>2. ASSUME NEW r \in Waiting PROVE Known(r, links[rch[r].conn])'
  <2>1. PICK l : l = links[rch[r].conn]
    BY Zenon
  <2>2. l = links'[rch[r].conn] /\ Known(r, l)
    BY <2>1, Zenon DEF BrokerInv
  <2> QED
    BY <2>2, KnownNext, Zenon
<1> QED
  BY <1>0, <1>1, <1>2, Zenon DEF BrokerInv

(* needConnection, with its lock for reading.                              *)
LEMMA EnterStep ==
    ASSUME BrokerInv, NEW r \in Req, Enter(r)
    PROVE  BrokerInv'
<1>1. /\ pc \in [Req -> {"enter", "lock", "send", "wait", "hold", "done"}]
      /\ pc[r] = "enter" /\ pc' = [pc EXCEPT ![r] = IF conn = 0 THEN "lock" ELSE "send"]
      /\ UNCHANGED <<rch, conn, links, frees, panicked>>
  BY Zenon DEF BrokerInv, Types, Enter, Go
<1>2. pc' \in [Req -> {"enter", "lock", "send", "wait", "hold", "done"}]
  BY <1>1, Zenon
<1>3. Waiting' = Waiting
  BY <1>1, Zenon DEF Waiting
<1>4. Readers' # {} => conn # 0
  <2>1. CASE conn = 0
    BY <1>1, <2>1, Zenon DEF BrokerInv, Readers
  <2> QED
    BY <2>1, Zenon
<1> QED
  BY <1>1, <1>2, <1>3, <1>4, SameLinks, Zenon

(* The fields of a new connection.                                         *)
LEMMA FreshLink ==
    ASSUME NEW t \in Seq(Msg), NEW b \in [Rch -> Req \cup {none}], NEW q \in Seq(Entry)
    PROVE  [chan |-> t, closed |-> FALSE, pool |-> {}, buf |-> b,
            toWorld |-> "receive", out |-> none, fromWorld |-> "read", ticker |-> "starting",
            missed |-> FALSE, waits |-> {}, pq |-> q, lost |-> 0] \in Link
BY Zenon DEF Link

(* A new connection has at most the message SetNoDelay.                    *)
LEMMA CreatedOK ==
    ASSUME NEW r \in Req, NEW t \in {<<>>, <<[req |-> r, ch |-> 0]>>}, NEW c, NEW k,
           k = [CreateConnection EXCEPT !.chan = t],
           \A q \in Waiting : rch[q].conn # c
    PROVE  k \in Link /\ LinkOK(c, k) /\ Len(k.chan) <= 1 /\ ~k.closed
<1>1. [req |-> r, ch |-> 0] \in Msg
  BY Zenon DEF Msg
<1>2. t \in Seq(Msg) /\ Len(t) <= 1 /\ \A i \in DOMAIN t : t[i].ch = 0
  <2>1. CASE t = <<>>
    BY <2>1
  <2>2. CASE t = <<[req |-> r, ch |-> 0]>>
    BY <1>1, <2>2
  <2> QED
    BY <2>1, <2>2, Zenon
<1>3. /\ k.chan = t /\ k.closed = FALSE /\ k.pool = {} /\ k.buf = [ch \in Rch |-> none]
      /\ k.toWorld = "receive" /\ k.waits = {}
  BY Zenon DEF CreateConnection
<1>4. k \in Link
  <2>1. PICK b \in [Rch -> Req \cup {none}], q \in Seq(Entry) :
           b = [ch \in Rch |-> none] /\ q = <<>>
    <3>1. [ch \in Rch |-> none] \in [Rch -> Req \cup {none}] /\ <<>> \in Seq(Entry)
      OBVIOUS
    <3> QED
      BY <3>1, Zenon
  <2>2. k = [chan |-> t, closed |-> FALSE, pool |-> {}, buf |-> b,
             toWorld |-> "receive", out |-> none, fromWorld |-> "read", ticker |-> "starting",
             missed |-> FALSE, waits |-> {}, pq |-> q, lost |-> 0]
    BY <2>1, Zenon DEF CreateConnection
  <2>3. [chan |-> t, closed |-> FALSE, pool |-> {}, buf |-> b,
         toWorld |-> "receive", out |-> none, fromWorld |-> "read", ticker |-> "starting",
         missed |-> FALSE, waits |-> {}, pq |-> q, lost |-> 0] \in Link
    BY <1>2, FreshLink, Zenon
  <2> QED
    BY <2>2, <2>3, Zenon
<1>5. LinkOK(c, k)
  BY <1>2, <1>3 DEF LinkOK
<1> QED
  BY <1>2, <1>3, <1>4, <1>5, Zenon

(* needConnection, with its lock for writing.                              *)
LEMMA NeedConnectionStep ==
    ASSUME BrokerInv, NEW r \in Req, needConnection(r)
    PROVE  BrokerInv'
<1>0. Types /\ Apart /\ links \in Seq(Link) /\ Opened = 1 .. Len(links) /\ Len(links) \in Nat
  BY OpenedIs, Zenon DEF BrokerInv, Types
<1>1. PICK p \in {"enter", "done"} :
         pc[r] = "lock" /\ Readers = {} /\ pc' = [pc EXCEPT ![r] = p]
  BY Zenon DEF needConnection, Go
<1>2. /\ pc' \in [Req -> {"enter", "lock", "send", "wait", "hold", "done"}]
      /\ UNCHANGED <<rch, frees, panicked>>
  BY <1>0, <1>1, Zenon DEF Types, needConnection
<1>3. Waiting' = Waiting /\ Readers' = {}
  BY <1>0, <1>1, Zenon DEF Types, Waiting, Readers
<1>4. CASE UNCHANGED <<conn, links>>
  BY <1>2, <1>3, <1>4, SameLinks, Zenon
<1>5. CASE /\ conn = 0 /\ Len(links) < MaxConn /\ conn' = Len(links')
           /\ \E noDelay \in BOOLEAN :
                 links' = Append(links, [CreateConnection EXCEPT
                              !.chan = IF noDelay THEN <<[req |-> r, ch |-> 0]>> ELSE <<>>])
  <2>1. PICK n \in Nat : n = Len(links) + 1
    BY <1>0
  <2>2. PICK t \in {<<>>, <<[req |-> r, ch |-> 0]>>} :
           links' = Append(links, [CreateConnection EXCEPT !.chan = t])
    BY <1>5, Zenon
  <2> DEFINE k == [CreateConnection EXCEPT !.chan = t]
  <2>3. \A q \in Waiting : rch[q].conn \in Opened /\ rch[q].conn # n
    BY <1>0, <2>1 DEF Apart
  <2>4. k \in Link /\ LinkOK(n, k) /\ Len(k.chan) <= 1 /\ ~k.closed
    BY <2>3, CreatedOK, Zenon
  <2> HIDE DEF k
  <2>5. /\ links' \in Seq(Link) /\ Len(links') = n /\ Opened' = Opened \cup {n}
        /\ links'[n] = k /\ \A d \in Opened : links'[d] = links[d]
    BY <1>0, <2>1, <2>2, <2>4 DEF Opened, k
  <2>6. Types'
    <3>1. conn' \in 0 .. Len(links') /\ Len(links') <= MaxConn
      BY <1>0, <1>5, <2>1, <2>5, BrokerAssumption
    <3>2. \A d \in Opened' : Len(links'[d].chan) <= ChannelSize
      <4>1. Len(k.chan) <= ChannelSize
        BY <2>4, BrokerAssumption DEF Link
      <4> QED
        BY <1>0, <2>5, <4>1, Zenon DEF Types
    <3>3. rch' \in [Req -> {none} \cup [conn : Opened', ch : Rch]]
      BY <1>0, <1>2, <2>5, Zenon DEF Types
    <3> QED
      BY <1>0, <1>2, <2>5, <3>1, <3>2, <3>3, Zenon DEF Types
  <2>7. Apart'
    BY <1>0, <1>2, <1>3, <2>5, Zenon DEF Apart
  <2>8. ASSUME NEW d \in Opened' PROVE LinkOK(d, links[d])'
    <3>1. CASE d = n
      BY <1>2, <1>3, <2>4, <2>5, <3>1, OKNext, Zenon
    <3>2. CASE d \in Opened
      <4>1. PICK l : l = links[d]
        BY Zenon
      <4>2. l = links'[d] /\ LinkOK(d, l)
        BY <2>5, <3>2, <4>1, Zenon DEF BrokerInv
      <4> QED
        BY <1>2, <1>3, <4>2, OKNext, Zenon
    <3> QED
      BY <2>5, <3>1, <3>2, Zenon
  <2>9. ASSUME NEW q \in Waiting PROVE Known(q, links[rch[q].conn])'
    <3>1. PICK l : l = links[rch[q].conn]
      BY Zenon
    <3>2. l = links'[rch[q].conn] /\ Known(q, l)
      BY <2>3, <2>5, <3>1, Zenon DEF BrokerInv
    <3> QED
      BY <1>2, <3>2, KnownNext, Zenon
  <2>10. conn' # 0 /\ ~links'[conn'].closed
    <3>1. conn' = n /\ n # 0
      BY <1>0, <1>5, <2>1, <2>5
    <3> QED
      BY <2>4, <2>5, <3>1, Zenon
  <2> QED
    BY <1>3, <2>6, <2>7, <2>8, <2>9, <2>10, Zenon DEF BrokerInv
<1> QED
  BY <1>4, <1>5, Zenon DEF needConnection

(* A connection whose requests go on waiting as they did is as it was.     *)
LEMMA OKOther ==
    ASSUME NEW d, NEW l, LinkOK(d, l), l = links'[d],
           \A q \in Waiting : rch[q].conn = d => q \in Waiting' /\ rch'[q] = rch[q],
           \A q \in Waiting' : rch'[q].conn = d => q \in Waiting /\ rch'[q] = rch[q]
    PROVE  LinkOK(d, links[d])'
<1>1. ASSUME NEW m, Holds(d, m) PROVE Holds(d, m)'
  BY <1>1 DEF Holds
<1>2. \A q \in Waiting' : rch'[q].conn = d => rch'[q].ch \notin l.pool
  BY Zenon DEF LinkOK
<1> QED
  BY <1>1, <1>2, Zenon DEF LinkOK

(* A step of one request, over the connection c.                           *)
LEMMA Rejoin ==
    ASSUME BrokerInv, NEW c \in Opened, NEW k \in Link, links' = [links EXCEPT ![c] = k],
           Len(k.chan) <= ChannelSize, k.closed = links[c].closed,
           pc' \in [Req -> {"enter", "lock", "send", "wait", "hold", "done"}],
           rch' \in [Req -> {none} \cup [conn : Opened, ch : Rch]],
           UNCHANGED <<conn, frees, panicked>>, Readers' # {} => Readers # {},
           \A r \in Waiting' : rch'[r] \in [conn : Opened, ch : Rch],
           \A r, q \in Waiting' : rch'[r] = rch'[q] => r = q,
           \A d \in Opened : LinkOK(d, links[d])',
           \A r \in Waiting' : Known(r, links[rch[r].conn])'
    PROVE  BrokerInv'
<1>0. Types /\ links \in Seq(Link)
  BY Zenon DEF BrokerInv, Types
<1>1. /\ links' \in Seq(Link) /\ Len(links') = Len(links) /\ Opened' = Opened
      /\ links'[c] = k /\ \A d \in Opened \ {c} : links'[d] = links[d]
  BY <1>0 DEF Opened
<1>2. Types'
  <2>1. \A d \in Opened' : Len(links'[d].chan) <= ChannelSize
    BY <1>0, <1>1, Zenon DEF Types
  <2> QED
    BY <1>0, <1>1, <2>1, Zenon DEF Types
<1>3. Apart'
  BY <1>1, Zenon DEF Apart
<1>4. (Readers # {} => conn # 0)' /\ (conn # 0 => ~links[conn].closed)'
  <2>1. conn # 0 => conn \in Opened
    BY <1>0, OpenedIs DEF Types
  <2> QED
    BY <1>1, <2>1, Zenon DEF BrokerInv
<1> QED
  BY <1>1, <1>2, <1>3, <1>4, Zenon DEF BrokerInv

(* A result channel is taken from the pool, or is new: nobody waits on it. *)
LEMMA Taken ==
    ASSUME NEW c, LinkOK(c, links[c]), links[c] \in Link, NEW ch \in PoolGet(c)
    PROVE  ch \in Rch /\ \A q \in Waiting : rch[q].conn = c => rch[q].ch # ch
<1> DEFINE used == links[c].pool \cup {rch[q].ch : q \in {q \in Waiting : rch[q].conn = c}}
<1>1. \/ ch \in links[c].pool
      \/ ~(Rch \subseteq used) /\ ch = CHOOSE x \in Rch \ used : TRUE
  BY Zenon DEF PoolGet
<1>2. CASE ch \in links[c].pool
  <2>1. ch \in Rch
    BY <1>2, Zenon DEF Link
  <2> QED
    BY <1>2, <2>1, Zenon DEF LinkOK
<1>3. CASE ~(Rch \subseteq used) /\ ch = CHOOSE x \in Rch \ used : TRUE
  <2>1. ch \in Rch \ used
    <3> HIDE DEF used
    <3>1. \E x \in Rch \ used : TRUE
      BY <1>3, Zenon
    <3> QED
      BY <1>3, <3>1, Zenon
  <2> QED
    BY <2>1, Zenon
<1> QED
  BY <1>1, <1>2, <1>3, Zenon

(* What is known of a request whose channel stays the same.                *)
LEMMA KnownStays ==
    ASSUME NEW r, NEW l, rch'[r] = rch[r], l = links'[rch[r].conn], Known(r, l)
    PROVE  Known(r, links[rch[r].conn])'
BY Zenon DEF Known

(* Another message in brokerSendChannel.                                   *)
LEMMA Appended ==
    ASSUME NEW l \in Link, NEW m \in Msg, NEW k \in Link,
           k.chan = Append(l.chan, m), k.waits = l.waits, k.buf = l.buf,
           k.toWorld = l.toWorld, k.pq = l.pq, k.lost = l.lost
    PROVE  /\ Len(k.chan) = Len(l.chan) + 1 /\ k.chan[Len(l.chan) + 1] = m
           /\ \A i \in DOMAIN l.chan : i \in DOMAIN k.chan /\ k.chan[i] = l.chan[i]
           /\ \A i \in DOMAIN k.chan : i \in DOMAIN l.chan \/ i = Len(l.chan) + 1
           /\ Len(l.chan) + 1 \in DOMAIN k.chan /\ Len(l.chan) + 1 \notin DOMAIN l.chan
           /\ \A q : Known(q, l) => Known(q, k)
<1>1. l.chan \in Seq(Msg)
  BY Zenon DEF Link
<1>2. /\ Len(k.chan) = Len(l.chan) + 1 /\ k.chan[Len(l.chan) + 1] = m
      /\ \A i \in DOMAIN l.chan : i \in DOMAIN k.chan /\ k.chan[i] = l.chan[i]
      /\ \A i \in DOMAIN k.chan : i \in DOMAIN l.chan \/ i = Len(l.chan) + 1
      /\ Len(l.chan) + 1 \in DOMAIN k.chan /\ Len(l.chan) + 1 \notin DOMAIN l.chan
  BY <1>1
<1>3. ASSUME NEW q, Known(q, l) PROVE Known(q, k)
  <2>1. CASE [req |-> q, ch |-> rch[q].ch] \in {l.chan[i] : i \in DOMAIN l.chan}
    <3>1. PICK i \in DOMAIN l.chan : [req |-> q, ch |-> rch[q].ch] = l.chan[i]
      BY <2>1, Zenon
    <3>2. i \in DOMAIN k.chan /\ [req |-> q, ch |-> rch[q].ch] = k.chan[i]
      BY <1>2, <3>1, Zenon
    <3> QED
      BY <3>2, Zenon DEF Known
  <2> QED
    BY <1>3, <2>1, Zenon DEF Known
<1> QED
  BY <1>2, <1>3, Zenon

(* A message that asks for no answer is in nobody's way.                   *)
LEMMA SilentOK ==
    ASSUME NEW c, NEW l \in Link, LinkOK(c, l), NEW m \in Msg, m.ch = 0, NEW k \in Link,
           k.chan = Append(l.chan, m), k.waits = l.waits, k.buf = l.buf, k.pool = l.pool,
           k.closed = l.closed, k.toWorld = l.toWorld, k.pq = l.pq, k.lost = l.lost
    PROVE  LinkOK(c, k)
<1>1. PICK n : n = Len(l.chan) + 1
  BY Zenon
<1>2. /\ k.chan[n] = m /\ n \notin DOMAIN l.chan
      /\ \A i \in DOMAIN l.chan : i \in DOMAIN k.chan /\ k.chan[i] = l.chan[i]
      /\ \A i \in DOMAIN k.chan : i \in DOMAIN l.chan \/ i = n
  BY <1>1, Appended
<1>3. ASSUME NEW i \in DOMAIN k.chan, k.chan[i].ch # 0
      PROVE  /\ Holds(c, k.chan[i])
             /\ k.chan[i] \notin k.waits /\ k.buf[k.chan[i].ch] # k.chan[i].req
             /\ \A j \in DOMAIN k.chan : k.chan[i] = k.chan[j] => i = j
  <2>1. i \in DOMAIN l.chan /\ k.chan[i] = l.chan[i]
    BY <1>2, <1>3, Zenon
  <2>2. \A j \in DOMAIN k.chan : k.chan[i] = k.chan[j] => j \in DOMAIN l.chan
    BY <1>2, <1>3, Zenon
  <2> QED
    BY <1>2, <1>3, <2>1, <2>2, ZenonT(40) DEF LinkOK
<1> QED
  BY <1>3, Zenon DEF LinkOK

\* LinkOK for the connection c in the state k that a step leads to
OKAfter(c, k) ==
    /\ \A i \in DOMAIN k.chan : k.chan[i].ch # 0 =>
          /\ Holds(c, k.chan[i])'
          /\ k.chan[i] \notin k.waits /\ k.buf[k.chan[i].ch] # k.chan[i].req
          /\ \A j \in DOMAIN k.chan : k.chan[i] = k.chan[j] => i = j
    /\ \A w \in k.waits : Holds(c, w)' /\ w.ch # 0 /\ k.buf[w.ch] # w.req
    /\ \A x \in Rch : k.buf[x] # none => Holds(c, [req |-> k.buf[x], ch |-> x])'
    /\ \A q \in Waiting' : rch'[q].conn = c => rch'[q].ch \notin k.pool
    /\ k.toWorld = "done" => k.closed

(* That is what it says.                                                   *)
LEMMA OKJoined ==
    ASSUME NEW c, NEW k, k = links'[c], OKAfter(c, k)
    PROVE  LinkOK(c, links[c])'
<1> USE DEF Holds
<1>1. (\A i \in DOMAIN links[c].chan : links[c].chan[i].ch # 0 =>
        /\ Holds(c, links[c].chan[i])
        /\ links[c].chan[i] \notin links[c].waits
        /\ links[c].buf[links[c].chan[i].ch] # links[c].chan[i].req
        /\ \A j \in DOMAIN links[c].chan : links[c].chan[i] = links[c].chan[j] => i = j)'
  BY ZenonT(40) DEF OKAfter
<1>2. (\A w \in links[c].waits : Holds(c, w) /\ w.ch # 0 /\ links[c].buf[w.ch] # w.req)'
  BY Zenon DEF OKAfter
<1>3. (\A x \in Rch : links[c].buf[x] # none => Holds(c, [req |-> links[c].buf[x], ch |-> x]))'
  BY Zenon DEF OKAfter
<1>4. (\A q \in Waiting : rch[q].conn = c => rch[q].ch \notin links[c].pool)'
  BY Zenon DEF OKAfter
<1>5. (links[c].toWorld = "done" => links[c].closed)'
  BY Zenon DEF OKAfter
<1> QED
  BY <1>1, <1>2, <1>3, <1>4, <1>5, Zenon DEF LinkOK

(* A message that asks for one is that of a request which was nowhere yet. *)
LEMMA AskedOK ==
    ASSUME NEW c, NEW l \in Link, LinkOK(c, l), NEW r \in Req, r \notin Waiting,
           NEW ch \in Rch, NEW m \in Msg, m = [req |-> r, ch |-> ch], NEW k \in Link,
           k.chan = Append(l.chan, m), k.waits = l.waits, k.buf = l.buf,
           k.pool = l.pool \ {ch},
           k.closed = l.closed, k.toWorld = l.toWorld, k.pq = l.pq, k.lost = l.lost,
           Waiting' = Waiting \cup {r}, \A q \in Waiting : rch'[q] = rch[q],
           rch'[r] = [conn |-> c, ch |-> ch], k = links'[c]
    PROVE  LinkOK(c, links[c])'
<1>1. PICK n : n = Len(l.chan) + 1
  BY Zenon
<1>2. /\ k.chan[n] = m /\ n \notin DOMAIN l.chan
      /\ \A i \in DOMAIN l.chan : i \in DOMAIN k.chan /\ k.chan[i] = l.chan[i]
      /\ \A i \in DOMAIN k.chan : i \in DOMAIN l.chan \/ i = n
  BY <1>1, Appended
<1>3. ASSUME NEW x, Holds(c, x) PROVE Holds(c, x)' /\ x.req # r
  BY <1>3, Zenon DEF Holds
<1>4. Holds(c, m)' /\ m.req = r /\ m.ch = ch
  BY Zenon DEF Holds
<1>5. l.buf[ch] # r
  <2>1. CASE l.buf[ch] # none
    BY <2>1, ZenonT(40) DEF LinkOK, Holds
  <2>2. CASE l.buf[ch] = none
    BY <2>2, BrokerAssumption, Zenon
  <2> QED
    BY <2>1, <2>2, Zenon
<1>6. m \notin l.waits
  BY <1>3, <1>4, Zenon DEF LinkOK
<1>7. ASSUME NEW i \in DOMAIN k.chan, k.chan[i].ch # 0
      PROVE  /\ Holds(c, k.chan[i])'
             /\ k.chan[i] \notin k.waits /\ k.buf[k.chan[i].ch] # k.chan[i].req
             /\ \A j \in DOMAIN k.chan : k.chan[i] = k.chan[j] => i = j
  <2>0. \A j \in DOMAIN l.chan : l.chan[j].ch # 0 => l.chan[j] # m
    BY <1>3, <1>4, ZenonT(40) DEF LinkOK
  <2>1. CASE i \in DOMAIN l.chan
    <3>1. k.chan[i] = l.chan[i] /\ Holds(c, l.chan[i]) /\ l.chan[i] # m
      BY <1>2, <1>7, <2>0, <2>1, ZenonT(40) DEF LinkOK
    <3>2. Holds(c, k.chan[i])'
      <4>1. PICK x : x = l.chan[i]
        BY Zenon
      <4>2. Holds(c, x)'
        BY <1>3, <3>1, <4>1, Zenon
      <4> QED
        BY <3>1, <4>1, <4>2, Zenon
    <3>3. \A j \in DOMAIN k.chan : k.chan[i] = k.chan[j] => i = j
      BY <1>2, <1>7, <2>1, <3>1 DEF LinkOK
    <3> QED
      BY <1>7, <2>1, <3>1, <3>2, <3>3, SMTT(30) DEF LinkOK
  <2>2. CASE i = n
    BY <1>2, <1>4, <1>5, <1>6, <1>7, <2>0, <2>2
  <2> QED
    BY <1>2, <2>1, <2>2, ZenonT(40)
<1>8. \A w \in k.waits : Holds(c, w)' /\ w.ch # 0 /\ k.buf[w.ch] # w.req
  BY <1>3, ZenonT(40) DEF LinkOK
<1>9. \A x \in Rch : k.buf[x] # none => Holds(c, [req |-> k.buf[x], ch |-> x])'
  <2>1. ASSUME NEW x \in Rch, k.buf[x] # none PROVE Holds(c, [req |-> k.buf[x], ch |-> x])'
    <3>1. PICK y : y = [req |-> k.buf[x], ch |-> x]
      BY Zenon
    <3>2. Holds(c, y)
      BY <2>1, <3>1, Zenon DEF LinkOK
    <3>3. Holds(c, y)'
      BY <1>3, <3>2, Zenon
    <3> QED
      BY <3>1, <3>3, Zenon
  <2> QED
    BY <2>1, Zenon
<1>10. \A q \in Waiting' : rch'[q].conn = c => rch'[q].ch \notin k.pool
  BY DEF LinkOK
<1>11. k.toWorld = "done" => k.closed
  BY Zenon DEF LinkOK
<1>12. \A i \in DOMAIN k.chan : k.chan[i].ch # 0 =>
          /\ Holds(c, k.chan[i])'
          /\ k.chan[i] \notin k.waits /\ k.buf[k.chan[i].ch] # k.chan[i].req
          /\ \A j \in DOMAIN k.chan : k.chan[i] = k.chan[j] => i = j
  BY <1>7, Zenon
<1>13. OKAfter(c, k)
  BY <1>8, <1>9, <1>10, <1>11, <1>12, Zenon DEF OKAfter
<1> QED
  BY <1>13, OKJoined, Zenon

(* send, with and without asking for an answer.                            *)
LEMMA SendStep ==
    ASSUME BrokerInv, NEW r \in Req, send(r)
    PROVE  BrokerInv'
<1>0. /\ Types /\ Apart /\ Opened = 1 .. Len(links) /\ links \in Seq(Link)
      /\ pc \in [Req -> {"enter", "lock", "send", "wait", "hold", "done"}]
      /\ rch \in [Req -> {none} \cup [conn : Opened, ch : Rch]]
  BY OpenedIs, Zenon DEF BrokerInv, Types
<1>1. pc[r] = "send" /\ UNCHANGED <<conn, frees, panicked>>
  BY Zenon DEF send
<1>2. r \notin Waiting /\ Readers # {}
  BY <1>1, Zenon DEF Waiting, Readers
<1>3. PICK c \in Opened : c = conn
  BY <1>0, <1>2 DEF BrokerInv, Types
<1>4. PICK l \in Link : l = links[c]
  BY <1>0, OpenedIs, Zenon
<1>5. LinkOK(c, l) /\ l.chan \in Seq(Msg) /\ Len(l.chan) < ChannelSize
  <2>1. LinkOK(c, l)
    BY <1>4, Zenon DEF BrokerInv
  <2>2. l.chan \in Seq(Msg)
    BY Zenon DEF Link
  <2>3. Len(l.chan) < ChannelSize
    BY <1>3, <1>4, Zenon DEF send, Room
  <2> QED
    BY <2>1, <2>2, <2>3, Zenon
<1>6. CASE /\ pc' = [pc EXCEPT ![r] = "done"] /\ UNCHANGED rch
           /\ links' = [links EXCEPT ![conn].chan = Append(@, [req |-> r, ch |-> 0])]
  <2>1. PICK m \in Msg : m = [req |-> r, ch |-> 0]
    BY Zenon DEF Msg
  <2> DEFINE k == [l EXCEPT !.chan = Append(l.chan, m)]
  <2>2. links' = [links EXCEPT ![c] = k]
    BY <1>3, <1>4, <1>6, <2>1, Zenon
  <2>3. /\ k \in Link /\ k.chan = Append(l.chan, m) /\ k.waits = l.waits /\ k.buf = l.buf
        /\ k.pool = l.pool /\ k.closed = l.closed /\ k.toWorld = l.toWorld
        /\ k.pq = l.pq /\ k.lost = l.lost
    <3>1. Append(l.chan, m) \in Seq(Msg)
      BY <1>5
    <3> QED
      BY <3>1, Zenon DEF Link
  <2> HIDE DEF k
  <2>4. Len(k.chan) = Len(l.chan) + 1 /\ \A q : Known(q, l) => Known(q, k)
    BY <2>3, Appended, ZenonT(40)
  <2>5. m.ch = 0
    BY <2>1, Zenon
  <2>6. LinkOK(c, k)
    BY <1>5, <2>3, <2>5, SilentOK, Zenon
  <2>7. Len(k.chan) <= ChannelSize
    BY <1>5, <2>4, BrokerAssumption
  <2>8. Waiting' = Waiting /\ (Readers' # {} => Readers # {})
    BY <1>0, <1>1, <1>2, <1>6, Zenon DEF Waiting
  <2>9. links'[c] = k /\ \A d \in Opened \ {c} : links'[d] = links[d]
    BY <1>0, <2>2
  <2>10. ASSUME NEW d \in Opened PROVE LinkOK(d, links[d])'
    <3>1. CASE d = c
      BY <1>6, <2>6, <2>8, <2>9, <3>1, OKNext, Zenon
    <3>2. CASE d # c
      <4>1. PICK l2 : l2 = links[d]
        BY Zenon
      <4>2. l2 = links'[d] /\ LinkOK(d, l2)
        BY <2>9, <3>2, <4>1, Zenon DEF BrokerInv
      <4> QED
        BY <1>6, <2>8, <4>2, OKNext, Zenon
    <3> QED
      BY <3>1, <3>2, Zenon
  <2>11. ASSUME NEW q \in Waiting PROVE Known(q, links[rch[q].conn])'
    <3>1. PICK l2 : l2 = links'[rch[q].conn]
      BY Zenon
    <3>2. Known(q, links[rch[q].conn]) /\ rch[q].conn \in Opened
      BY <1>0, Zenon DEF BrokerInv, Apart
    <3>3. Known(q, l2)
      <4>1. CASE rch[q].conn = c
        BY <1>4, <2>4, <2>9, <3>1, <3>2, <4>1, Zenon
      <4>2. CASE rch[q].conn # c
        BY <2>9, <3>1, <3>2, <4>2, Zenon
      <4> QED
        BY <4>1, <4>2, Zenon
    <3> QED
      BY <1>6, <3>1, <3>3, KnownNext, Zenon
  <2>12. /\ \A q \in Waiting' : rch'[q] \in [conn : Opened, ch : Rch]
         /\ \A q, s \in Waiting' : rch'[q] = rch'[s] => q = s
    BY <1>0, <1>6, <2>8, Zenon DEF Apart
  <2>13. pc' \in [Req -> {"enter", "lock", "send", "wait", "hold", "done"}]
    BY <1>0, <1>6, Zenon
  <2>14. k.closed = links[c].closed /\ rch' \in [Req -> {none} \cup [conn : Opened, ch : Rch]]
    BY <1>0, <1>4, <1>6, <2>3, Zenon
  <2>15. \A q \in Waiting' : Known(q, links[rch[q].conn])'
    BY <2>8, <2>11, Zenon
  <2> QED
    BY <1>1, <2>2, <2>3, <2>7, <2>8, <2>10, <2>12, <2>13, <2>14, <2>15, Rejoin, Zenon
<1>7. CASE /\ pc' = [pc EXCEPT ![r] = IF r \in Sync THEN "hold" ELSE "wait"]
           /\ \E ch \in PoolGet(conn) :
                 /\ rch' = [rch EXCEPT ![r] = [conn |-> conn, ch |-> ch]]
                 /\ links' = [links EXCEPT ![conn] =
                        [links[conn] EXCEPT !.chan = Append(@, [req |-> r, ch |-> ch]),
                                            !.pool = @ \ {ch}]]
  <2>0. PICK ch \in PoolGet(c) :
           /\ rch' = [rch EXCEPT ![r] = [conn |-> c, ch |-> ch]]
           /\ links' = [links EXCEPT ![c] =
                  [l EXCEPT !.chan = Append(@, [req |-> r, ch |-> ch]), !.pool = @ \ {ch}]]
    BY <1>3, <1>4, <1>7, Zenon
  <2>1. ch \in Rch /\ \A q \in Waiting : rch[q].conn = c => rch[q].ch # ch
    BY <1>4, <1>5, Taken, Zenon
  <2>2. PICK m \in Msg : m = [req |-> r, ch |-> ch]
    BY <2>1, Zenon DEF Msg
  <2> DEFINE k == [l EXCEPT !.chan = Append(l.chan, m), !.pool = l.pool \ {ch}]
  <2>3. links' = [links EXCEPT ![c] = k]
    BY <2>0, <2>2, Zenon
  <2>4. /\ k \in Link /\ k.chan = Append(l.chan, m) /\ k.waits = l.waits /\ k.buf = l.buf
        /\ k.pool = l.pool \ {ch} /\ k.closed = l.closed /\ k.toWorld = l.toWorld
        /\ k.pq = l.pq /\ k.lost = l.lost
    <3>1. Append(l.chan, m) \in Seq(Msg) /\ l.pool \ {ch} \in SUBSET Rch
      BY <1>5 DEF Link
    <3> QED
      BY <3>1, Zenon DEF Link
  <2> HIDE DEF k
  <2>5. /\ Len(k.chan) = Len(l.chan) + 1 /\ \A q : Known(q, l) => Known(q, k)
        /\ k.chan[Len(l.chan) + 1] = m /\ Len(l.chan) + 1 \in DOMAIN k.chan
    BY <2>4, Appended
  <2>6. Len(k.chan) <= ChannelSize
    BY <1>5, <2>5, BrokerAssumption
  <2>7. /\ rch'[r] = [conn |-> c, ch |-> ch] /\ \A q \in Waiting : rch'[q] = rch[q]
        /\ rch' \in [Req -> {none} \cup [conn : Opened, ch : Rch]]
    <3>1. \A q \in Waiting : q \in Req /\ q # r
      BY <1>2, Zenon DEF Waiting
    <3>2. [conn |-> c, ch |-> ch] \in [conn : Opened, ch : Rch]
      BY <2>1, Zenon
    <3> QED
      BY <1>0, <2>0, <3>1, <3>2, Zenon
  <2>8. Waiting' = Waiting \cup {r} /\ (Readers' # {} => Readers # {})
    BY <1>0, <1>1, <1>2, <1>7, ZenonT(40) DEF Waiting
  <2>9. links'[c] = k /\ \A d \in Opened \ {c} : links'[d] = links[d]
    BY <1>0, <2>3
  <2>10. ASSUME NEW d \in Opened PROVE LinkOK(d, links[d])'
    <3>1. CASE d = c
      <4>1. LinkOK(c, links[c])'
        BY <1>2, <1>5, <2>1, <2>2, <2>4, <2>7, <2>8, <2>9, AskedOK, SMTT(40)
      <4> QED
        BY <3>1, <4>1, Zenon
    <3>2. CASE d # c
      <4>1. PICK l2 : l2 = links[d]
        BY Zenon
      <4>2. l2 = links'[d] /\ LinkOK(d, l2)
        BY <2>9, <3>2, <4>1, Zenon DEF BrokerInv
      <4>3. \A q \in Waiting : rch[q].conn = d => q \in Waiting' /\ rch'[q] = rch[q]
        BY <2>7, <2>8, Zenon
      <4>4. \A q \in Waiting' : rch'[q].conn = d => q \in Waiting /\ rch'[q] = rch[q]
        BY <2>7, <2>8, <3>2
      <4> QED
        BY <4>2, <4>3, <4>4, OKOther, Zenon
    <3> QED
      BY <3>1, <3>2, Zenon
  <2>11. ASSUME NEW q \in Waiting' PROVE Known(q, links[rch[q].conn])'
    <3>1. CASE q = r
      <4>1. [req |-> r, ch |-> ch] \in {k.chan[i] : i \in DOMAIN k.chan}
        BY <2>2, <2>5, Zenon
      <4>2. /\ rch'[q].conn = c /\ rch'[q].ch = ch
        BY <2>7, <3>1
      <4> QED
        BY <2>9, <3>1, <4>1, <4>2, Zenon DEF Known
    <3>2. CASE q \in Waiting
      <4>1. PICK l2 : l2 = links'[rch[q].conn]
        BY Zenon
      <4>2. Known(q, links[rch[q].conn]) /\ rch[q].conn \in Opened
        BY <1>0, <3>2, Zenon DEF BrokerInv, Apart
      <4>3. Known(q, l2)
        <5>1. CASE rch[q].conn = c
          BY <1>4, <2>5, <2>9, <4>1, <4>2, <5>1, Zenon
        <5>2. CASE rch[q].conn # c
          BY <2>9, <4>1, <4>2, <5>2, Zenon
        <5> QED
          BY <5>1, <5>2, Zenon
      <4> QED
        BY <2>7, <3>2, <4>1, <4>3, KnownStays, Zenon
    <3> QED
      BY <2>8, <3>1, <3>2, Zenon
  <2>12. /\ \A q \in Waiting' : rch'[q] \in [conn : Opened, ch : Rch]
         /\ \A q, s \in Waiting' : rch'[q] = rch'[s] => q = s
    <3>1. \A q \in Waiting : rch'[q] # rch'[r]
      BY <2>1, <2>7
    <3>2. rch'[r] \in [conn : Opened, ch : Rch]
      BY <2>1, <2>7
    <3> QED
      BY <1>0, <2>7, <2>8, <3>1, <3>2 DEF Apart
  <2>13. pc' \in [Req -> {"enter", "lock", "send", "wait", "hold", "done"}]
    BY <1>0, <1>7, Zenon
  <2>14. k.closed = links[c].closed
    BY <1>4, <2>4, Zenon
  <2> QED
    BY <1>1, <2>3, <2>4, <2>6, <2>7, <2>8, <2>10, <2>11, <2>12, <2>13, <2>14, Rejoin, Zenon
<1> QED
  BY <1>6, <1>7, Zenon DEF send, Go

(* A request takes its result: it was in its channel and nowhere else.     *)
LEMMA TakenOK ==
    ASSUME Apart, NEW c, NEW l \in Link, LinkOK(c, l), NEW r \in Waiting, NEW h \in Rch,
           rch[r] = [conn |-> c, ch |-> h], l.buf[h] = r, NEW k \in Link,
           k.chan = l.chan, k.waits = l.waits, k.buf = [l.buf EXCEPT ![h] = none],
           k.pool \subseteq l.pool \cup {h}, k.closed = l.closed, k.toWorld = l.toWorld,
           Waiting' = Waiting \ {r}, \A q \in Waiting \ {r} : rch'[q] = rch[q],
           k = links'[c]
    PROVE  LinkOK(c, links[c])'
<1>0. /\ l.buf \in [Rch -> Req \cup {none}] /\ k.buf[h] = none
      /\ \A x \in Rch : x # h => k.buf[x] = l.buf[x]
      /\ \A q \in Waiting : q \in Req
  BY Zenon DEF Link, Waiting
<1>1. ASSUME NEW x, Holds(c, x), x.req # r PROVE Holds(c, x)'
  BY <1>1, Zenon DEF Holds
<1>2. ASSUME NEW x, Holds(c, x), l.buf[x.ch] # x.req
      PROVE  x.req # r /\ x.ch \in Rch /\ k.buf[x.ch] # x.req
  <2>1. x.req # r
    <3>1. CASE x.req = r
      <4>1. x.ch = h
        BY <1>2, <3>1 DEF Holds
      <4> QED
        BY <1>2, <3>1, <4>1, Zenon
    <3> QED
      BY <3>1, Zenon
  <2>2. x.req \in Waiting /\ rch[x.req] = [conn |-> c, ch |-> x.ch]
    BY <1>2, Zenon DEF Holds
  <2>3. rch[x.req].ch \in Rch
    BY <2>2, Zenon DEF Apart
  <2>4. x.ch \in Rch /\ x.req \in Req
    BY <1>0, <2>2, <2>3
  <2>5. k.buf[x.ch] # x.req
    <3>1. CASE x.ch = h
      BY <1>0, <2>4, <3>1, BrokerAssumption, Zenon
    <3>2. CASE x.ch # h
      BY <1>0, <1>2, <2>4, <3>2, Zenon
    <3> QED
      BY <3>1, <3>2, Zenon
  <2> QED
    BY <2>1, <2>4, <2>5, Zenon
<1>3. \A i \in DOMAIN k.chan : k.chan[i].ch # 0 =>
          /\ Holds(c, k.chan[i])'
          /\ k.chan[i] \notin k.waits /\ k.buf[k.chan[i].ch] # k.chan[i].req
          /\ \A j \in DOMAIN k.chan : k.chan[i] = k.chan[j] => i = j
  <2>1. ASSUME NEW i \in DOMAIN k.chan, k.chan[i].ch # 0
        PROVE  Holds(c, k.chan[i])' /\ k.buf[k.chan[i].ch] # k.chan[i].req
    <3>1. PICK x : x = k.chan[i]
      BY Zenon
    <3>2. Holds(c, x) /\ l.buf[x.ch] # x.req
      BY <2>1, <3>1, SMTT(40) DEF LinkOK
    <3>3. Holds(c, x)' /\ k.buf[x.ch] # x.req
      BY <1>1, <1>2, <3>2, Zenon
    <3> QED
      BY <3>1, <3>3, Zenon
  <2> QED
    BY <2>1, SMTT(40) DEF LinkOK
<1>4. \A x \in k.waits : Holds(c, x)' /\ x.ch # 0 /\ k.buf[x.ch] # x.req
  BY <1>1, <1>2, ZenonT(40) DEF LinkOK
<1>5. \A x \in Rch : k.buf[x] # none => Holds(c, [req |-> k.buf[x], ch |-> x])'
  <2>1. ASSUME NEW x \in Rch, k.buf[x] # none
        PROVE  Holds(c, [req |-> k.buf[x], ch |-> x])'
    <3>1. PICK y : y = [req |-> k.buf[x], ch |-> x]
      BY Zenon
    <3>2. x # h /\ k.buf[x] = l.buf[x]
      BY <1>0, <2>1, Zenon
    <3>3. Holds(c, y)
      BY <2>1, <3>1, <3>2, Zenon DEF LinkOK
    <3>4. y.req # r
      BY <3>1, <3>2, <3>3, SMTT(40) DEF Holds
    <3>5. Holds(c, y)'
      BY <1>1, <3>3, <3>4, Zenon
    <3> QED
      BY <3>1, <3>5, Zenon
  <2> QED
    BY <2>1, Zenon
<1>6. \A q \in Waiting' : rch'[q].conn = c => rch'[q].ch \notin k.pool
  <2>1. ASSUME NEW q \in Waiting, q # r, rch[q].conn = c PROVE rch[q].ch \notin k.pool
    <3>1. rch[q] \in [conn : Opened, ch : Rch] /\ rch[q] # rch[r]
      BY <2>1, Zenon DEF Apart
    <3>2. rch[q].ch # h
      BY <2>1, <3>1, Zenon
    <3> QED
      BY <2>1, <3>2, Zenon DEF LinkOK
  <2> QED
    BY <2>1, Zenon
<1>7. k.toWorld = "done" => k.closed
  BY Zenon DEF LinkOK
<1>8. OKAfter(c, k)
  BY <1>3, <1>4, <1>5, <1>6, <1>7, Zenon DEF OKAfter
<1> QED
  BY <1>8, OKJoined, Zenon

(* Wait, and the end of sendAndReceive.                                    *)
LEMMA WaitStep ==
    ASSUME BrokerInv, NEW r \in Req, Wait(r)
    PROVE  BrokerInv'
<1>0. /\ Types /\ Apart /\ Opened = 1 .. Len(links) /\ links \in Seq(Link)
      /\ pc \in [Req -> {"enter", "lock", "send", "wait", "hold", "done"}]
      /\ rch \in [Req -> {none} \cup [conn : Opened, ch : Rch]]
  BY OpenedIs, Zenon DEF BrokerInv, Types
<1>1. /\ r \in Waiting /\ UNCHANGED <<conn, frees, panicked>>
      /\ rch' = [rch EXCEPT ![r] = none] /\ pc' = [pc EXCEPT ![r] = "done"]
  BY Zenon DEF Wait, Go
<1>2. PICK c \in Opened, h \in Rch : rch[r] = [conn |-> c, ch |-> h]
  BY <1>0, <1>1, Zenon DEF Apart
<1>3. PICK l \in Link : l = links[c]
  BY <1>0, OpenedIs, Zenon
<1>4. LinkOK(c, l)
  BY <1>3, Zenon DEF BrokerInv
<1>5. l.buf[h] = r
  <2>1. l.buf[h] # none
    BY <1>2, <1>3 DEF Wait
  <2>2. l.buf[h] \in Waiting /\ rch[l.buf[h]] = [conn |-> c, ch |-> h]
    BY <1>4, <2>1, Zenon DEF LinkOK, Holds
  <2> QED
    BY <1>0, <1>1, <1>2, <2>2, Zenon DEF Apart
<1>6. PICK p \in SUBSET Rch :
         /\ p \subseteq l.pool \cup {h}
         /\ links' = [links EXCEPT ![c].buf[h] = none, ![c].pool = p]
  <2>1. l.pool \in SUBSET Rch /\ l.pool \cup {h} \in SUBSET Rch
    BY Zenon DEF Link
  <2>2. links' = [links EXCEPT ![c].buf[h] = none,
                               ![c].pool = IF r \in Sync THEN l.pool ELSE l.pool \cup {h}]
    BY <1>0, <1>2, <1>3 DEF Wait, Link
  <2> QED
    BY <2>1, <2>2, Zenon
<1> DEFINE b == [l.buf EXCEPT ![h] = none]
           k == [l EXCEPT !.buf = b, !.pool = p]
<1>7. links' = [links EXCEPT ![c] = k]
  BY <1>0, <1>3, <1>6, Zenon DEF Link
<1>8. /\ k \in Link /\ k.chan = l.chan /\ k.waits = l.waits /\ k.buf = b /\ k.pool = p
      /\ k.closed = l.closed /\ k.toWorld = l.toWorld /\ k.pq = l.pq /\ k.lost = l.lost
  <2>1. b \in [Rch -> Req \cup {none}]
    BY Zenon DEF Link
  <2> HIDE DEF b
  <2> QED
    BY <2>1, Zenon DEF Link
<1> HIDE DEF k
<1>9. /\ Waiting' = Waiting \ {r} /\ (Readers' # {} => Readers # {})
      /\ \A q \in Waiting \ {r} : rch'[q] = rch[q]
      /\ rch' \in [Req -> {none} \cup [conn : Opened, ch : Rch]]
      /\ pc' \in [Req -> {"enter", "lock", "send", "wait", "hold", "done"}]
  <2>1. Waiting' = Waiting \ {r}
    BY <1>0, <1>1, Zenon DEF Waiting
  <2>2. Readers' # {} => Readers # {}
    BY <1>0, <1>1, Zenon DEF Readers
  <2>3. \A q \in Waiting \ {r} : rch'[q] = rch[q]
    BY <1>0, <1>1, Zenon DEF Waiting
  <2> QED
    BY <1>0, <1>1, <2>1, <2>2, <2>3, Zenon
<1>10. links'[c] = k /\ \A d \in Opened \ {c} : links'[d] = links[d]
  BY <1>0, <1>7
<1>11. ASSUME NEW d \in Opened PROVE LinkOK(d, links[d])'
  <2>1. CASE d = c
    <3>1. LinkOK(c, links[c])'
      <4>1. k.pool \subseteq l.pool \cup {h} /\ k.buf = [l.buf EXCEPT ![h] = none]
        BY <1>6, <1>8, Zenon DEF b
      <4>2. Apart /\ r \in Waiting /\ k = links'[c]
        BY <1>0, <1>1, <1>10, Zenon
      <4>3. Waiting' = Waiting \ {r} /\ \A q \in Waiting \ {r} : rch'[q] = rch[q]
        BY <1>9, Zenon
      <4> QED
        BY <1>2, <1>4, <1>5, <1>8, <4>1, <4>2, <4>3, TakenOK
    <3> QED
      BY <2>1, <3>1, Zenon
  <2>2. CASE d # c
    <3>1. PICK l2 : l2 = links[d]
      BY Zenon
    <3>2. l2 = links'[d] /\ LinkOK(d, l2)
      BY <1>10, <2>2, <3>1, Zenon DEF BrokerInv
    <3>3. rch[r].conn = c
      BY <1>2
    <3>4. \A q \in Waiting : rch[q].conn = d => q \in Waiting' /\ rch'[q] = rch[q]
      BY <1>9, <2>2, <3>3, Zenon
    <3>5. \A q \in Waiting' : rch'[q].conn = d => q \in Waiting /\ rch'[q] = rch[q]
      BY <1>9, Zenon
    <3> QED
      BY <3>2, <3>4, <3>5, OKOther, Zenon
  <2> QED
    BY <2>1, <2>2, Zenon
<1>12. ASSUME NEW q \in Waiting' PROVE Known(q, links[rch[q].conn])'
  <2>1. q \in Waiting /\ q # r /\ rch'[q] = rch[q]
    BY <1>9, Zenon
  <2>2. PICK l2 : l2 = links'[rch[q].conn]
    BY Zenon
  <2>3. Known(q, links[rch[q].conn]) /\ rch[q] \in [conn : Opened, ch : Rch] /\ rch[q] # rch[r]
    BY <1>0, <1>1, <2>1, Zenon DEF BrokerInv, Apart
  <2>4. Known(q, l2)
    <3>1. CASE rch[q].conn = c
      <4>1. rch[q].ch # h /\ rch[q].ch \in Rch
        BY <1>2, <2>3, <3>1, Zenon
      <4>2. k.buf[rch[q].ch] = l.buf[rch[q].ch]
        BY <1>8, <4>1, Zenon DEF Link, b
      <4>3. Known(q, l) /\ l2 = k
        BY <1>3, <1>10, <2>2, <2>3, <3>1, Zenon
      <4> QED
        BY <1>8, <4>2, <4>3, ZenonT(40) DEF Known
    <3>2. CASE rch[q].conn # c
      BY <1>10, <2>2, <2>3, <3>2, Zenon
    <3> QED
      BY <3>1, <3>2, Zenon
  <2> QED
    BY <2>1, <2>2, <2>4, KnownStays, Zenon
<1>13. /\ \A q \in Waiting' : rch'[q] \in [conn : Opened, ch : Rch]
       /\ \A q, s \in Waiting' : rch'[q] = rch'[s] => q = s
  BY <1>0, <1>9, Zenon DEF Apart
<1>14. k.closed = links[c].closed /\ Len(k.chan) <= ChannelSize
  BY <1>0, <1>3, <1>8, Zenon DEF Types
<1> QED
  BY <1>1, <1>7, <1>8, <1>9, <1>11, <1>12, <1>13, <1>14, Rejoin, Zenon

-----------------------------------------------------------------------------
(* The invariant                                                           *)

(* At the start there is no connection and nobody waits.                   *)
LEMMA InitInv == Init => BrokerInv
<1> SUFFICES ASSUME Init PROVE BrokerInv
  BY Zenon
<1>1. Opened = {} /\ Waiting = {} /\ Readers = {}
  BY DEF Init, Opened, Waiting, Readers
<1>2. Types
  <2>1. links \in Seq(Link) /\ Len(links) = 0
    BY DEF Init
  <2>2. conn \in 0 .. Len(links) /\ Len(links) <= MaxConn /\ frees \in 0 .. MaxFree
    BY <2>1, BrokerAssumption DEF Init
  <2>3. pc \in [Req -> {"enter", "lock", "send", "wait", "hold", "done"}]
    BY Zenon DEF Init
  <2>4. rch \in [Req -> {none} \cup [conn : Opened, ch : Rch]]
    BY Zenon DEF Init
  <2> QED
    BY <1>1, <2>1, <2>2, <2>3, <2>4, Zenon DEF Init, Types
<1> QED
  BY <1>1, <1>2, Zenon DEF BrokerInv, Apart, Init

(* Every step keeps the invariant.                                         *)
LEMMA NextInv == BrokerInv /\ [Next]_vars => BrokerInv'
<1> SUFFICES ASSUME BrokerInv, [Next]_vars PROVE BrokerInv'
  BY Zenon
<1>1. ASSUME NEW r \in Req, Request(r) PROVE BrokerInv'
  BY <1>1, EnterStep, NeedConnectionStep, SendStep, WaitStep, Zenon DEF Request
<1>2. ASSUME NEW c \in Opened, broker(c), ~panicked PROVE BrokerInv'
  <2>1. panicked = FALSE
    BY <1>2, Zenon DEF BrokerInv, Types
  <2> QED
    BY <1>2, <2>1, BrokerStep, Zenon
<1>3. CASE UNCHANGED vars
  <2>1. Waiting' = Waiting /\ Readers' = Readers
    BY <1>3, Zenon DEF vars, Waiting, Readers
  <2>2. pc' \in [Req -> {"enter", "lock", "send", "wait", "hold", "done"}]
    BY <1>3, Zenon DEF vars, BrokerInv, Types
  <2>3. UNCHANGED <<rch, conn, links, frees, panicked>> /\ (Readers' # {} => conn # 0)
    BY <1>3, <2>1, Zenon DEF vars, BrokerInv
  <2> QED
    BY <2>1, <2>2, <2>3, SameLinks, Zenon
<1> QED
  BY <1>1, <1>2, <1>3, GroupFreesStep, ElapseStep, Zenon DEF Next

(* The invariant holds for any number of requests and connections.         *)
THEOREM Invariance == Spec => []BrokerInv
BY InitInv, NextInv, PTL DEF Spec

(* Every variable keeps to its type, and brokerSendChannel to its size.    *)
THEOREM TypeCorrect == Spec => []TypeOK
<1>1. BrokerInv => TypeOK
  BY OpenedIs, Zenon DEF BrokerInv, Types, TypeOK
<1> QED
  BY <1>1, Invariance, PTL

(* A request only ever gets its own result, although channels are pooled   *)
(* and an answer, a time-out and the closing of the connection race.       *)
THEOREM ResultsOwn == Spec => []OwnResult
<1>1. BrokerInv => OwnResult
  BY Zenon DEF BrokerInv, LinkOK, Holds, OwnResult
<1> QED
  BY <1>1, Invariance, PTL

(* Nothing is sent on a closed channel: who has the VirtualServer          *)
(* read-locked has an open connection.                                     *)
THEOREM SendsOpen == Spec => []ConnOpen
<1>1. ASSUME BrokerInv PROVE ConnOpen
  <2>1. conn # 0 => conn \in Opened
    <3>1. Types /\ Opened = 1 .. Len(links) /\ Len(links) \in Nat
      BY <1>1, OpenedIs, Zenon DEF BrokerInv
    <3> QED
      BY <3>1 DEF Types
  <2>2. conn # 0 => ~links[conn].closed /\ LinkOK(conn, links[conn])
    BY <1>1, <2>1, Zenon DEF BrokerInv
  <2>3. conn # 0 => links[conn].toWorld # "done"
    BY <2>2, Zenon DEF LinkOK
  <2> QED
    BY <1>1, <2>2, <2>3, Zenon DEF BrokerInv, ConnOpen
<1> QED
  BY <1>1, Invariance, PTL

(* Nobody waits for a result that no goroutine will send.                  *)
THEOREM WaitersKnown == Spec => []WaiterKnown
<1>1. BrokerInv => WaiterKnown
  BY Zenon DEF BrokerInv, Known, WaiterKnown
<1> QED
  BY <1>1, Invariance, PTL

-----------------------------------------------------------------------------
(* The order of the queue                                                  *)

Ordered(q) == \A i, j \in DOMAIN q : i < j => q[i].left <= q[j].left

(* A nonempty set of naturals has a least element.                         *)
LEMMA Least ==
    ASSUME NEW S \in SUBSET Nat, S # {}
    PROVE  \E x \in S : \A y \in S : x <= y
<1>1. PICK x \in S : \A y \in S : ~(<<y, x>> \in OpToRel(<, Nat))
  BY NatLessThanWellFounded, WFMin, Zenon
<1>2. \A y \in Nat, z \in Nat : y < z => <<y, z>> \in OpToRel(<, Nat)
  BY Zenon DEF OpToRel
<1>3. \A y \in S : ~(y < x)
  BY <1>1, <1>2, Zenon
<1> QED BY <1>3

(* The entries of a queue are entries.                                     *)
LEMMA Entries ==
    ASSUME NEW q \in Seq(Entry)
    PROVE  /\ Len(q) \in Nat /\ DOMAIN q = 1 .. Len(q)
           /\ \A i \in DOMAIN q : q[i] \in Entry /\ q[i].left \in Nat
<1>1. ASSUME NEW i \in DOMAIN q PROVE q[i] \in Entry /\ q[i].left \in Nat
  <2>1. q[i] \in Entry
    OBVIOUS
  <2> QED
    BY <2>1, Zenon DEF Entry
<1> QED
  BY <1>1

(* Among numbers in order, those above t are the last ones.                *)
LEMMA AboveAreLast ==
    ASSUME NEW N \in Nat, NEW f \in [1 .. N -> Nat], NEW t \in Nat, NEW n,
           \A i, j \in 1 .. N : i < j => f[i] <= f[j],
           n = N - Cardinality({i \in 1 .. N : f[i] > t})
    PROVE  /\ n \in 0 .. N
           /\ \A i \in 1 .. n : f[i] <= t
           /\ \A i \in (n + 1) .. N : f[i] > t
<1> DEFINE later == {i \in 1 .. N : f[i] > t}
<1>0. \A i \in 1 .. N : i \notin later => f[i] <= t
  OBVIOUS
<1>1. CASE later = {}
  <2>1. Cardinality(later) = 0
    BY <1>1, FS_EmptySet, Zenon
  <2>2. n = N
    BY <2>1
  <2>3. \A i \in 1 .. N : f[i] <= t
    BY <1>0, <1>1, Zenon
  <2>4. N \in 0 .. N /\ (N + 1) .. N = {}
    OBVIOUS
  <2> QED
    BY <2>2, <2>3, <2>4, Zenon
<1>2. CASE later # {}
  <2>1. PICK m \in later : \A y \in later : m <= y
    <3>1. later \in SUBSET Nat
      OBVIOUS
    <3> HIDE DEF later
    <3> QED
      BY <1>2, <3>1, Least, Zenon
  <2>2. later = m .. N
    <3>1. ASSUME NEW i \in m .. N PROVE f[i] > t /\ i \in 1 .. N
      <4>1. f[m] > t /\ m \in 1 .. N /\ i \in 1 .. N
        BY <2>1
      <4>2. i = m \/ f[m] <= f[i]
        BY <4>1
      <4> QED
        BY <4>1, <4>2
    <3> QED
      BY <2>1, <3>1
  <2>3. m \in 1 .. N
    BY <2>1, Zenon
  <2>4. Cardinality(m .. N) = N - m + 1
    BY <2>3, FS_Interval
  <2>5. n = m - 1
    <3>1. Cardinality(later) = N - m + 1
      BY <2>2, <2>4, Zenon
    <3> HIDE DEF later
    <3>2. n = N - Cardinality(later)
      BY Zenon DEF later
    <3> QED
      BY <2>3, <3>1, <3>2
  <2>6. \A i \in 1 .. n : i \notin later
    BY <2>3, <2>5, <2>1
  <2>7. \A i \in (n + 1) .. N : i \in later
    BY <2>2, <2>3, <2>5, SMTT(30)
  <2>8. n \in 0 .. N
    BY <2>3, <2>5
  <2>9. \A i \in 1 .. n : f[i] <= t
    <3> HIDE DEF later
    <3> QED
      BY <1>0, <2>6, <2>8
  <2> QED
    BY <2>7, <2>8, <2>9, Zenon
<1> QED
  BY <1>1, <1>2, Zenon

(* x goes in order behind those that are not above it.                     *)
LEMMA PutInOrder ==
    ASSUME NEW N \in Nat, NEW f \in [1 .. N -> Nat], NEW g, NEW x \in Nat, NEW n \in 0 .. N,
           \A i, j \in 1 .. N : i < j => f[i] <= f[j],
           \A i \in 1 .. n : f[i] <= x,
           \A i \in (n + 1) .. N : f[i] > x,
           \A i \in 1 .. n : g[i] = f[i],
           g[n + 1] = x,
           \A i \in (n + 1) .. N : g[i + 1] = f[i]
    PROVE  \A i, j \in 1 .. (N + 1) : i < j => g[i] <= g[j]
<1> SUFFICES ASSUME NEW i \in 1 .. (N + 1), NEW j \in 1 .. (N + 1), i < j
             PROVE  g[i] <= g[j]
  BY Zenon
<1>1. \A k \in 1 .. (N + 1) : \/ k <= n /\ k \in 1 .. N /\ g[k] = f[k] /\ f[k] <= x
                              \/ k = n + 1 /\ g[k] = x
                              \/ k > n + 1 /\ k - 1 \in 1 .. N /\ g[k] = f[k - 1] /\ f[k - 1] > x
  <2> TAKE k \in 1 .. (N + 1)
  <2>1. CASE k <= n
    BY <2>1
  <2>2. CASE k = n + 1
    BY <2>2, Zenon
  <2>3. CASE k > n + 1
    <3>1. k - 1 \in (n + 1) .. N /\ (k - 1) + 1 = k
      BY <2>3
    <3> QED
      BY <2>3, <3>1
  <2> QED
    BY <2>1, <2>2, <2>3
<1>2. CASE i <= n /\ j <= n
  BY <1>1, <1>2
<1>3. CASE i <= n /\ j > n
  BY <1>1, <1>3, SMTT(30)
<1>4. CASE i = n + 1
  BY <1>1, <1>4
<1>5. CASE i > n + 1
  <2>1. /\ i - 1 \in 1 .. N /\ g[i] = f[i - 1] /\ j - 1 \in 1 .. N /\ g[j] = f[j - 1]
        /\ i - 1 < j - 1
    BY <1>1, <1>5
  <2> QED
    BY <2>1, Zenon
<1> QED
  BY <1>2, <1>3, <1>4, <1>5

(* Where the elements of an insertion come from.                           *)
LEMMA Placed ==
    ASSUME NEW S, NEW s \in Seq(S), NEW x \in S, NEW n \in 0 .. Len(s), NEW t,
           t = Inserted(s, n, x)
    PROVE  /\ DOMAIN t = 1 .. (Len(s) + 1)
           /\ \A j \in 1 .. n : t[j] = s[j]
           /\ t[n + 1] = x
           /\ \A j \in (n + 1) .. Len(s) : t[j + 1] = s[j]
<1> DEFINE a == SubSeq(s, 1, n)
           b == SubSeq(s, n + 1, Len(s))
<1>1. a \in Seq(S) /\ Len(a) = n /\ \A j \in 1 .. n : a[j] = s[j]
  OBVIOUS
<1>2. b \in Seq(S) /\ Len(b) = Len(s) - n /\ \A j \in 1 .. Len(b) : b[j] = s[n + j]
  BY SMTT(30)
<1> DEFINE u == a \o <<x>> \o b
<1>t. t = u
  BY Zenon DEF Inserted
<1> HIDE DEF a, b
<1>u. /\ u \in Seq(S) /\ Len(u) = Len(s) + 1
      /\ \A j \in 1 .. n : u[j] = a[j]
      /\ u[n + 1] = x
      /\ \A j \in 1 .. Len(b) : u[n + 1 + j] = b[j]
  BY <1>1, <1>2, SMTT(30)
<1> HIDE DEF u
<1>3. /\ t \in Seq(S) /\ Len(t) = Len(s) + 1
      /\ \A j \in 1 .. n : t[j] = a[j]
      /\ t[n + 1] = x
      /\ \A j \in 1 .. Len(b) : t[n + 1 + j] = b[j]
  BY <1>t, <1>u, Zenon
<1>4. ASSUME NEW j \in (n + 1) .. Len(s) PROVE t[j + 1] = s[j]
  <2>1. j - n \in 1 .. Len(b) /\ j = n + (j - n)
    BY <1>2
  <2>2. PICK k \in 1 .. Len(b) : j = n + k
    BY <2>1, Zenon
  <2>3. t[n + 1 + k] = s[n + k] /\ n + 1 + k = j + 1
    BY <1>2, <1>3, <2>2, SMTT(30)
  <2> QED
    BY <2>2, <2>3, Zenon
<1> QED
  BY <1>1, <1>3, <1>4

(* push keeps the queue in the order of the deadlines, also when it loses  *)
(* the head.                                                               *)
LEMMA PushOrders ==
    ASSUME NEW l \in Link, NEW tm \in Entry, Ordered(l.pq)
    PROVE  Ordered(push(l, tm).pq)
<1>0. PICK q \in Seq(Entry) : q = l.pq
  BY Zenon DEF Link
<1>1. PICK N \in Nat : N = Len(q) /\ DOMAIN q = 1 .. N
  BY Entries, Zenon
<1>2. PICK x \in Nat : x = tm.left
  BY Zenon DEF Entry
<1> DEFINE f == [i \in 1 .. N |-> q[i].left]
           n == Len(q) - Cardinality({i \in DOMAIN q : q[i].left > tm.left})
<1>3. /\ f \in [1 .. N -> Nat] /\ \A i \in 1 .. N : f[i] = q[i].left
  BY <1>1, Entries, Zenon
<1>4. \A i, j \in 1 .. N : i < j => f[i] <= f[j]
  BY <1>0, <1>1, <1>3, Zenon DEF Ordered
<1>5. n = N - Cardinality({i \in 1 .. N : f[i] > x})
  <2>1. {i \in DOMAIN q : q[i].left > tm.left} = {i \in 1 .. N : f[i] > x}
    BY <1>1, <1>2, <1>3, Zenon
  <2> QED
    BY <1>1, <2>1, Zenon
<1> HIDE DEF f, n
<1>6. /\ n \in 0 .. N
      /\ \A i \in 1 .. n : f[i] <= x
      /\ \A i \in (n + 1) .. N : f[i] > x
  BY <1>3, <1>4, <1>5, AboveAreLast, Zenon
<1>7. Ordered(Inserted(q, n, tm))
  <2>1. PICK t : t = Inserted(q, n, tm)
    BY Zenon
  <2>2. /\ DOMAIN t = 1 .. (N + 1)
        /\ \A j \in 1 .. n : t[j] = q[j]
        /\ t[n + 1] = tm
        /\ \A j \in (n + 1) .. N : t[j + 1] = q[j]
    <3>1. n \in 0 .. Len(q)
      BY <1>1, <1>6, Zenon
    <3>2. /\ DOMAIN t = 1 .. (Len(q) + 1)
          /\ \A j \in 1 .. n : t[j] = q[j]
          /\ t[n + 1] = tm
          /\ \A j \in (n + 1) .. Len(q) : t[j + 1] = q[j]
      BY <1>0, <2>1, <3>1, Placed
    <3> QED
      BY <1>1, <3>2, Zenon
  <2> DEFINE g == [j \in 1 .. (N + 1) |-> t[j].left]
  <2>4. \A j \in 1 .. (N + 1) : g[j] = t[j].left
    BY Zenon
  <2> HIDE DEF g
  <2>3. /\ \A j \in 1 .. n : g[j] = f[j]
        /\ g[n + 1] = x
        /\ \A j \in (n + 1) .. N : g[j + 1] = f[j]
    <3>1. ASSUME NEW j \in 1 .. n PROVE g[j] = f[j]
      <4>1. j \in 1 .. N /\ j \in 1 .. (N + 1)
        BY <1>6
      <4> QED
        BY <1>3, <2>2, <2>4, <4>1, Zenon
    <3>2. g[n + 1] = x
      <4>1. n + 1 \in 1 .. (N + 1)
        BY <1>6
      <4> QED
        BY <1>2, <2>2, <2>4, <4>1, Zenon
    <3>3. ASSUME NEW j \in (n + 1) .. N PROVE g[j + 1] = f[j]
      <4>1. j \in 1 .. N /\ j + 1 \in 1 .. (N + 1)
        BY <1>6
      <4> QED
        BY <1>3, <2>2, <2>4, <4>1, Zenon
    <3> QED
      BY <3>1, <3>2, <3>3, Zenon
  <2>5. \A i, j \in 1 .. (N + 1) : i < j => g[i] <= g[j]
    BY <1>3, <1>4, <1>6, <2>3, PutInOrder, ZenonT(40)
  <2> QED
    BY <2>1, <2>2, <2>4, <2>5 DEF Ordered
<1>8. ASSUME q # <<>>, n = 0 PROVE Ordered(<<[tm EXCEPT !.ring = TRUE]>> \o Tail(q))
  <2>1. PICK e \in Entry : e = [tm EXCEPT !.ring = TRUE] /\ e.left = x
    <3>1. [tm EXCEPT !.ring = TRUE] \in Entry /\ [tm EXCEPT !.ring = TRUE].left = tm.left
      BY Zenon DEF Entry
    <3> QED
      BY <1>2, <3>1, Zenon
  <2>2. PICK t : t = <<e>> \o Tail(q)
    BY Zenon
  <2>3. /\ DOMAIN t = 1 .. N /\ t[1] = e
        /\ \A j \in 1 .. N : j = 1 \/ t[j] = q[j]
    BY <1>1, <1>8, <2>2
  <2>4. ASSUME NEW i \in 1 .. N, NEW j \in 1 .. N, i < j
        PROVE  t[i].left <= t[j].left
    <3>1. j # 1 /\ t[j] = q[j] /\ t[j].left = f[j] /\ f[j] \in Nat
      BY <1>3, <2>3, <2>4
    <3>2. CASE i = 1
      <4>1. f[j] > x
        BY <1>6, <1>8
      <4>2. t[i].left = x
        BY <2>1, <2>3, <3>2, Zenon
      <4> QED
        BY <3>1, <4>1, <4>2
    <3>3. CASE i # 1
      BY <1>3, <1>4, <2>3, <2>4, <3>1, <3>3, Zenon
    <3> QED
      BY <3>2, <3>3, Zenon
  <2> QED
    BY <2>1, <2>2, <2>3, <2>4, Zenon DEF Ordered
<1>9. CASE n > 0 \/ q = <<>>
  <2>1. push(l, tm) = [l EXCEPT !.pq = Inserted(q, n, tm)]
    BY <1>0, <1>9, SMTT(30) DEF push, n, Inserted
  <2> QED
    BY <1>7, <2>1, Zenon DEF Link
<1>10. CASE ~(n > 0 \/ q = <<>>) /\ ~q[1].ring
  <2>1. n = 0
    BY <1>6, <1>10
  <2>2. push(l, tm) = [l EXCEPT !.pq = <<[tm EXCEPT !.ring = TRUE]>> \o Tail(q),
                                !.lost = l.lost + 1]
    BY <1>0, <1>10, <2>1, Zenon DEF push, n
  <2> QED
    BY <1>8, <1>10, <2>1, <2>2, Zenon DEF Link
<1>11. CASE ~(n > 0 \/ q = <<>>) /\ q[1].ring
  <2>1. push(l, tm) = [l EXCEPT !.toWorld = "loop"]
    BY <1>0, <1>11, Zenon DEF push, n
  <2> QED
    BY <2>1, Zenon DEF Link
<1> QED
  BY <1>9, <1>10, <1>11, Zenon

(* What clean leaves of a queue in order is in order.                      *)
LEMMA RestOrdered ==
    ASSUME NEW q \in Seq(Entry), NEW n \in 0 .. Len(q), Ordered(q)
    PROVE  Ordered(SubSeq(q, n + 1, Len(q)))
<1>1. PICK b : b = SubSeq(q, n + 1, Len(q))
  BY Zenon
<1>2. DOMAIN b = 1 .. (Len(q) - n) /\ \A j \in DOMAIN b : b[j] = q[n + j] /\ n + j \in DOMAIN q
  BY <1>1
<1>3. ASSUME NEW i \in DOMAIN b, NEW j \in DOMAIN b, i < j PROVE b[i].left <= b[j].left
  <2>1. n + i < n + j /\ n + i \in DOMAIN q /\ n + j \in DOMAIN q
    BY <1>2, <1>3
  <2>2. q[n + i].left <= q[n + j].left
    BY <2>1, Zenon DEF Ordered
  <2> QED
    BY <1>2, <2>2, Zenon
<1> QED
  BY <1>1, <1>3, Zenon DEF Ordered

(* The other queues stay as they are.                                      *)
LEMMA OneQueue ==
    ASSUME Types, QueueSorted, NEW c \in Opened, NEW k, Ordered(k.pq),
           links' = [links EXCEPT ![c] = k]
    PROVE  QueueSorted'
<1>1. DOMAIN links' = DOMAIN links /\ links'[c] = k /\ \A d \in Opened \ {c} : links'[d] = links[d]
  BY Zenon DEF Types, Opened
<1>2. ASSUME NEW d \in Opened PROVE Ordered(links'[d].pq)
  <2>1. CASE d = c
    BY <1>1, <2>1, Zenon
  <2>2. CASE d # c
    BY <1>1, <2>2 DEF QueueSorted, Ordered
  <2> QED
    BY <2>1, <2>2, Zenon
<1> QED
  BY <1>1, <1>2, Zenon DEF QueueSorted, Ordered, Opened

(* No queue changes.                                                       *)
LEMMA SameQueues ==
    ASSUME QueueSorted, DOMAIN links' = DOMAIN links,
           \A c \in DOMAIN links : links'[c].pq = links[c].pq
    PROVE  QueueSorted'
BY Zenon DEF QueueSorted, Opened

(* The goroutines of a broker keep the queues in order.                    *)
LEMMA BrokerSorts ==
    ASSUME Types, QueueSorted, NEW c \in Opened, broker(c)
    PROVE  QueueSorted'
<1>0. PICK l \in Link : l = links[c]
  BY OpenedIs, Zenon
<1>a. l.pq \in Seq(Entry) /\ l.chan \in Seq(Msg) /\ links \in Seq(Link) /\ Ordered(l.pq)
  BY <1>0, Zenon DEF Link, Types, QueueSorted, Ordered
<1>q. ASSUME NEW k, Ordered(k.pq), Upd(c, k) PROVE QueueSorted'
  BY <1>q, OneQueue, Zenon DEF Upd
<1>1. CASE ToWorld(c)
  <2> DEFINE m  == Head(l.chan)
             tm == [req |-> m.req, left |-> Timeout[m.req], ring |-> FALSE]
             l1 == [l EXCEPT !.chan = Tail(@)]
             la == [l1 EXCEPT !.toWorld = "activate"]
             l2 == push(la, tm)
             k  == IF m.ch = 0 THEN [l1 EXCEPT !.out = m]
                   ELSE IF l2.toWorld = "loop" THEN l2
                   ELSE [l2 EXCEPT !.waits = @ \cup {m}, !.out = m]
  <2>1. l.chan # <<>> /\ Upd(c, k)
    BY <1>0, <1>1, Zenon DEF ToWorld
  <2>2. m \in Msg /\ Tail(l.chan) \in Seq(Msg)
    BY <1>a, <2>1
  <2>3. tm \in Entry
    BY <2>2, BrokerAssumption, Zenon DEF Entry, Msg
  <2>4. la \in Link /\ [l1 EXCEPT !.out = m].pq = l.pq /\ la.pq = l.pq
    BY <2>2, Zenon DEF Link
  <2> HIDE DEF tm, la
  <2>5. l2 \in Link /\ Ordered(l2.pq)
    BY <1>a, <2>3, <2>4, PushEffect, PushOrders, Zenon
  <2> HIDE DEF l2
  <2>6. [l2 EXCEPT !.waits = @ \cup {m}, !.out = m].pq = l2.pq
    BY <2>5, Zenon DEF Link
  <2>7. Ordered(k.pq)
    <3>1. k.pq = l.pq \/ k.pq = l2.pq
      BY <2>4, <2>6, Zenon
    <3> QED
      BY <1>a, <2>5, <3>1, Zenon
  <2> HIDE DEF k
  <2> QED
    BY <1>q, <2>1, <2>7, Zenon
<1>2. CASE ToWorldActivates(c)
  <2>1. PICK t, b : Upd(c, [l EXCEPT !.toWorld = "receive", !.ticker = t, !.missed = b])
    BY <1>0, <1>2, Zenon DEF ToWorldActivates
  <2>2. [l EXCEPT !.toWorld = "receive", !.ticker = t, !.missed = b].pq = l.pq
    BY Zenon DEF Link
  <2> QED
    BY <1>a, <1>q, <2>1, <2>2, Zenon
<1>3. CASE ToWorldCloses(c)
  <2>1. Upd(c, [expire(l, l.pq) EXCEPT !.toWorld = "done", !.pq = <<>>])
    BY <1>0, <1>3, Zenon DEF ToWorldCloses
  <2>2. PICK e \in Link : e = expire(l, l.pq)
    BY ExpireEffect, Zenon
  <2>3. [e EXCEPT !.toWorld = "done", !.pq = <<>>].pq = <<>>
    BY Zenon DEF Link
  <2>4. Ordered(<<>>)
    BY DEF Ordered
  <2> QED
    BY <1>q, <2>1, <2>2, <2>3, <2>4, Zenon
<1>4. CASE FromWorld(c)
  <2>1. PICK w, b : Upd(c, [l EXCEPT !.waits = w, !.buf = b])
    BY <1>0, <1>4, Zenon DEF FromWorld
  <2>2. [l EXCEPT !.waits = w, !.buf = b].pq = l.pq
    BY Zenon DEF Link
  <2> QED
    BY <1>a, <1>q, <2>1, <2>2, Zenon
<1>5. CASE FromWorldFails(c)
  <2>1. Upd(c, [l EXCEPT !.fromWorld = "onClose"])
    BY <1>0, <1>5, Zenon DEF FromWorldFails
  <2>2. [l EXCEPT !.fromWorld = "onClose"].pq = l.pq
    BY Zenon DEF Link
  <2> QED
    BY <1>a, <1>q, <2>1, <2>2, Zenon
<1>6. CASE onClose(c)
  <2> DEFINE ls == [links EXCEPT ![c].fromWorld = "done"]
  <2>1. links' = [d \in Opened |-> [ls[d] EXCEPT !.closed = @ \/ d = conn]]
    BY <1>6, Zenon DEF onClose, freeConn
  <2>2. ASSUME NEW d \in Opened PROVE links'[d].pq = links[d].pq
    <3>1. links[d] \in Link
      BY OpenedIs, Zenon
    <3>2. ls[d] \in Link /\ ls[d].pq = links[d].pq
      <4>1. CASE d = c
        <5>1. ls[d] = [l EXCEPT !.fromWorld = "done"]
          BY <1>0, <4>1, Zenon DEF Opened
        <5>2. [l EXCEPT !.fromWorld = "done"] \in Link /\ [l EXCEPT !.fromWorld = "done"].pq = l.pq
          BY Zenon DEF Link
        <5> QED
          BY <1>0, <4>1, <5>1, <5>2, Zenon
      <4>2. CASE d # c
        <5>1. ls[d] = links[d]
          BY <1>a, <4>2
        <5> QED
          BY <3>1, <5>1, Zenon
      <4> QED
        BY <4>1, <4>2, Zenon
    <3>3. PICK x \in Link : x = ls[d]
      BY <3>2, Zenon
    <3>4. PICK y : links'[d] = [x EXCEPT !.closed = y]
      BY <2>1, <3>3, Zenon
    <3>5. [x EXCEPT !.closed = y].pq = x.pq
      BY Zenon DEF Link
    <3> QED
      BY <3>2, <3>3, <3>4, <3>5, Zenon
  <2>3. DOMAIN links' = DOMAIN links
    BY <2>1, Zenon DEF Opened
  <2> QED
    BY <2>2, <2>3, SameQueues, Zenon DEF Opened
<1>7. CASE TickerWaits(c)
  <2>1. Upd(c, [l EXCEPT !.ticker = "inactive"])
    BY <1>0, <1>7, Zenon DEF TickerWaits
  <2>2. [l EXCEPT !.ticker = "inactive"].pq = l.pq
    BY Zenon DEF Link
  <2> QED
    BY <1>a, <1>q, <2>1, <2>2, Zenon
<1>8. CASE TickerCleans(c)
  <2> DEFINE n == Cardinality({i \in DOMAIN l.pq : l.pq[i].left = 0})
             es == SubSeq(l.pq, 1, n)
  <2>1. PICK t : Upd(c, [expire(l, es) EXCEPT !.pq = SubSeq(@, n + 1, Len(@)), !.ticker = t])
    BY <1>0, <1>8, ZenonT(40) DEF TickerCleans
  <2>2. n \in 0 .. Len(l.pq)
    BY <1>a, Counted, Zenon
  <2> HIDE DEF n, es
  <2>3. PICK e \in Link : e = expire(l, es) /\ e = [l EXCEPT !.waits = e.waits, !.buf = e.buf]
    BY ExpireEffect, Zenon
  <2>4. e.pq = l.pq
    BY <2>3, Zenon DEF Link
  <2>5. PICK k : k = [e EXCEPT !.pq = SubSeq(@, n + 1, Len(@)), !.ticker = t]
    BY Zenon
  <2>6. k.pq = SubSeq(l.pq, n + 1, Len(l.pq))
    BY <2>4, <2>5, Zenon DEF Link
  <2>7. Ordered(SubSeq(l.pq, n + 1, Len(l.pq)))
    BY <1>a, <2>2, RestOrdered, Zenon
  <2>8. Upd(c, k)
    BY <2>1, <2>3, <2>5, Zenon
  <2>9. Ordered(k.pq)
    BY <2>6, <2>7, Zenon
  <2> QED
    BY <1>q, <2>8, <2>9, Zenon
<1>9. CASE ToWorldWrites(c)
  <2>1. Upd(c, [l EXCEPT !.out = none])
    BY <1>0, <1>9, Zenon DEF ToWorldWrites
  <2>2. [l EXCEPT !.out = none].pq = l.pq
    BY Zenon DEF Link
  <2> QED
    BY <1>a, <1>q, <2>1, <2>2, Zenon
<1> QED
  BY <1>1, <1>2, <1>3, <1>4, <1>5, <1>6, <1>7, <1>8, <1>9, Zenon DEF broker

(* Time brings all deadlines nearer alike.                                 *)
LEMMA ElapseSorts ==
    ASSUME Types, QueueSorted, Elapse
    PROVE  QueueSorted'
<1>1. DOMAIN links' = DOMAIN links
  BY Zenon DEF Elapse, Opened
<1>2. ASSUME NEW d \in Opened PROVE Ordered(links'[d].pq)
  <2>1. PICK l \in Link : l = links[d]
    BY OpenedIs, Zenon
  <2>2. l.pq \in Seq(Entry) /\ Ordered(l.pq)
    BY <2>1, Zenon DEF Link, QueueSorted, Ordered
  <2>3. links'[d] = [l EXCEPT !.pq = [i \in DOMAIN l.pq |-> [l.pq[i] EXCEPT
                      !.left = IF l.pq[i].left = 0 THEN 0 ELSE l.pq[i].left - 1]]]
    BY <2>1, Zenon DEF Elapse
  <2>4. PICK q : q = [i \in DOMAIN l.pq |-> [l.pq[i] EXCEPT
                      !.left = IF l.pq[i].left = 0 THEN 0 ELSE l.pq[i].left - 1]]
    BY Zenon
  <2>5. links'[d].pq = q
    BY <2>3, <2>4, Zenon DEF Link
  <2>6. ASSUME NEW i \in DOMAIN l.pq
        PROVE  /\ l.pq[i].left \in Nat
               /\ q[i].left = IF l.pq[i].left = 0 THEN 0 ELSE l.pq[i].left - 1
    <3>1. PICK e \in Entry : e = l.pq[i]
      BY <2>2, Entries, Zenon
    <3>2. q[i] = [e EXCEPT !.left = IF e.left = 0 THEN 0 ELSE e.left - 1] /\ e.left \in Nat
      BY <2>4, <3>1, Zenon DEF Entry
    <3>3. PICK x : x = IF e.left = 0 THEN 0 ELSE e.left - 1
      BY Zenon
    <3>4. [e EXCEPT !.left = x].left = x
      BY Zenon DEF Entry
    <3> QED
      BY <3>1, <3>2, <3>3, <3>4, Zenon
  <2>7. DOMAIN q = DOMAIN l.pq
    BY <2>4, Zenon
  <2>8. ASSUME NEW i \in DOMAIN l.pq, NEW j \in DOMAIN l.pq, i < j
        PROVE  q[i].left <= q[j].left
    <3>1. l.pq[i].left <= l.pq[j].left
      BY <2>2, <2>8, Zenon DEF Ordered
    <3> QED
      BY <2>6, <3>1
  <2> QED
    BY <2>5, <2>7, <2>8, Zenon DEF Ordered
<1> QED
  BY <1>1, <1>2, Zenon DEF QueueSorted, Ordered, Opened

(* What the requests and the ServerGroup do leaves the queues alone; a new *)
(* connection has an empty one.                                            *)
LEMMA OthersSort ==
    ASSUME Types, QueueSorted, GroupFrees \/ \E r \in Req : Request(r)
    PROVE  QueueSorted'
<1>0. links \in Seq(Link) /\ \A d \in Opened : links[d] \in Link
  BY OpenedIs, Zenon DEF Types
<1>1. CASE GroupFrees
  <2>1. links' = [d \in Opened |-> [links[d] EXCEPT !.closed = @ \/ d = conn]]
    BY <1>1, Zenon DEF GroupFrees, freeConn
  <2>2. ASSUME NEW d \in Opened PROVE links'[d].pq = links[d].pq
    <3>1. PICK x \in Link : x = links[d]
      BY <1>0, Zenon
    <3>2. PICK y : links'[d] = [x EXCEPT !.closed = y]
      BY <2>1, <3>1, Zenon
    <3>3. [x EXCEPT !.closed = y].pq = x.pq
      BY Zenon DEF Link
    <3> QED
      BY <3>1, <3>2, <3>3, Zenon
  <2> QED
    BY <2>1, <2>2, SameQueues, Zenon DEF Opened
<1>2. ASSUME NEW r \in Req, Enter(r) PROVE QueueSorted'
  BY <1>2, SameQueues, Zenon DEF Enter
<1>3. ASSUME NEW r \in Req, needConnection(r) PROVE QueueSorted'
  <2>1. CASE links' = links
    BY <2>1, SameQueues, Zenon
  <2>2. CASE \E noDelay \in BOOLEAN :
                links' = Append(links, [CreateConnection EXCEPT
                             !.chan = IF noDelay THEN <<[req |-> r, ch |-> 0]>> ELSE <<>>])
    <3>1. PICK s : links' = Append(links, [CreateConnection EXCEPT !.chan = s])
      BY <2>2, Zenon
    <3>2. PICK k : k = [CreateConnection EXCEPT !.chan = s]
      BY Zenon
    <3>3. k.pq = <<>>
      BY <3>2, Zenon DEF CreateConnection
    <3>4. /\ DOMAIN links' = DOMAIN links \cup {Len(links) + 1}
          /\ links'[Len(links) + 1] = k
          /\ \A d \in DOMAIN links : links'[d] = links[d]
      BY <1>0, <3>1, <3>2
    <3>5. ASSUME NEW d \in DOMAIN links' PROVE Ordered(links'[d].pq)
      <4>1. CASE d \in DOMAIN links
        BY <3>4, <4>1, Zenon DEF QueueSorted, Ordered, Opened
      <4>2. CASE d = Len(links) + 1
        BY <3>3, <3>4, <4>2 DEF Ordered
      <4> QED
        BY <3>4, <4>1, <4>2, Zenon
    <3> QED
      BY <3>5, Zenon DEF QueueSorted, Ordered, Opened
  <2> QED
    BY <1>3, <2>1, <2>2, Zenon DEF needConnection
<1>4. ASSUME NEW r \in Req, send(r) PROVE QueueSorted'
  <2>0. ASSUME NEW k, links' = [links EXCEPT ![conn] = k],
               conn \in Opened => k.pq = links[conn].pq
        PROVE  QueueSorted'
    <3>1. /\ DOMAIN links' = DOMAIN links
          /\ \A d \in DOMAIN links : d # conn => links'[d] = links[d]
          /\ conn \in DOMAIN links => links'[conn] = k
      BY <1>0, <2>0, Zenon
    <3> QED
      BY <2>0, <3>1, SameQueues, Zenon DEF Opened
  <2>1. ASSUME NEW l, l = links[conn], NEW s, NEW p, links' = [links EXCEPT ![conn] = [l EXCEPT !.chan = s, !.pool = p]]
        PROVE  QueueSorted'
    <3>1. conn \in Opened => l \in Link
      BY <1>0, <2>1, Zenon
    <3>2. conn \in Opened => [l EXCEPT !.chan = s, !.pool = p].pq = l.pq
      BY <3>1, Zenon DEF Link
    <3> QED
      BY <2>0, <2>1, <3>2, Zenon
  <2>2. ASSUME NEW l, l = links[conn], NEW s, links' = [links EXCEPT ![conn] = [l EXCEPT !.chan = s]]
        PROVE  QueueSorted'
    <3>1. conn \in Opened => l \in Link
      BY <1>0, <2>2, Zenon
    <3>2. conn \in Opened => [l EXCEPT !.chan = s].pq = l.pq
      BY <3>1, Zenon DEF Link
    <3> QED
      BY <2>0, <2>2, <3>2, Zenon
  <2>3. PICK l : l = links[conn]
    BY Zenon
  <2>4. CASE links' = [links EXCEPT ![conn].chan = Append(@, [req |-> r, ch |-> 0])]
    <3>1. links' = [links EXCEPT ![conn] = [l EXCEPT !.chan = Append(l.chan, [req |-> r, ch |-> 0])]]
      BY <2>3, <2>4, Zenon
    <3> QED
      BY <2>2, <2>3, <3>1, Zenon
  <2>5. CASE \E ch \in PoolGet(conn) : links' = [links EXCEPT ![conn] =
                           [links[conn] EXCEPT !.chan = Append(@, [req |-> r, ch |-> ch]),
                                     !.pool = @ \ {ch}]]
    <3>1. PICK s, p : links' = [links EXCEPT ![conn] = [l EXCEPT !.chan = s, !.pool = p]]
      BY <2>3, <2>5, Zenon
    <3> QED
      BY <2>1, <2>3, <3>1, Zenon
  <2> QED
    BY <1>4, <2>4, <2>5, Zenon DEF send
<1>5. ASSUME NEW r \in Req, Wait(r) PROVE QueueSorted'
  <2>1. PICK c : c = rch[r].conn
    BY Zenon
  <2>2. PICK b, p : links' = [links EXCEPT ![c].buf = b, ![c].pool = p]
    BY <1>5, <2>1, Zenon DEF Wait
  <2>3. /\ DOMAIN links' = DOMAIN links
        /\ \A d \in DOMAIN links : d # c => links'[d] = links[d]
        /\ c \in DOMAIN links => links'[c] = [links[c] EXCEPT !.buf = b, !.pool = p]
    BY <1>0, <2>2, Zenon
  <2>4. c \in DOMAIN links => links'[c].pq = links[c].pq
    <3> SUFFICES ASSUME c \in DOMAIN links PROVE links'[c].pq = links[c].pq
      BY Zenon
    <3>1. PICK x \in Link : x = links[c]
      BY <1>0, Zenon DEF Opened
    <3>2. [x EXCEPT !.buf = b, !.pool = p].pq = x.pq
      BY Zenon DEF Link
    <3> QED
      BY <2>3, <3>1, <3>2, Zenon
  <2> QED
    BY <2>3, <2>4, SameQueues, Zenon
<1> QED
  BY <1>1, <1>2, <1>3, <1>4, <1>5, Zenon DEF Request

(* The queue of timeouts of every connection is in the order of the        *)
(* deadlines, whatever timeouts the requests have and also after an entry  *)
(* was lost: push finds the place and clean, which stops at the first      *)
(* entry that is not due, leaves none that is.                             *)
THEOREM QueuesSorted == Spec => []QueueSorted
<1>1. Init => QueueSorted
  BY DEF Init, QueueSorted, Opened
<1>2. Types /\ QueueSorted /\ [Next]_vars => QueueSorted'
  <2> SUFFICES ASSUME Types, QueueSorted, [Next]_vars PROVE QueueSorted'
    BY Zenon
  <2>1. CASE UNCHANGED vars
    BY <2>1, SameQueues, Zenon DEF vars
  <2>2. CASE Next
    BY <2>2, BrokerSorts, ElapseSorts, OthersSort, Zenon DEF Next
  <2> QED
    BY <2>1, <2>2, Zenon
<1>3. BrokerInv => Types
  BY Zenon DEF BrokerInv
<1> QED
  BY <1>1, <1>2, <1>3, Invariance, PTL DEF Spec
=============================================================================
