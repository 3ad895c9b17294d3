------------------------------ MODULE BuffConn ------------------------------
(***************************************************************************)
(* One direction of a buffered connection (src/com/buffconn/buffconn.go):  *)
(* the goroutine that writes messages and at last closes, the flusher that *)
(* New starts, the TCP stream between, and the goroutine that reads        *)
(* messages at the other end, as From world and listenRequests do.         *)
(*                                                                         *)
(* The stream is kept byte by byte, so that framing is checked: byte       *)
(* <<i, k>> is the k-th of the i-th message.  A message is its size and,   *)
(* for OpSetBuffered and OpSetNoDelay, the mode it sets.                   *)
(***************************************************************************)
EXTENDS Integers, Sequences

CONSTANTS
    MinimumMessageSize, \* 13; the size of a message comes first in it
    writeBufferSize,    \* 1450
    readBufferSize,     \* 2048
    Compact,            \* 1400: Read moves the bytes left to the front beyond this
    Size,               \* sizes of messages
    MaxMsgs             \* bound on the messages written

ASSUME BuffConnAssumption ==
    /\ MinimumMessageSize \in Nat \ {0} /\ Compact \in Nat /\ MaxMsgs \in Nat
    /\ writeBufferSize \in Nat /\ readBufferSize \in Nat
    /\ MinimumMessageSize <= writeBufferSize
    /\ Compact + MinimumMessageSize < readBufferSize
    /\ Size \subseteq {n \in Nat : n >= MinimumMessageSize}

NoDelay  == 0    \* what Write sends to the flusher on c.ch
Buffered == 1

Messages == [size : Size, mode : {-1}]
            \cup [size : {MinimumMessageSize}, mode : {NoDelay, Buffered}]

VARIABLES
    sent,       \* the messages Write has put into the buffer or the stream
    writer,     \* the message whose mode Write is sending on c.ch, with
                \* writeMutex locked, or <<>>
    writeBuffer, buffering,
    ch,         \* c.ch, of capacity 1
    flusher,    \* "off": no ticker; "on"; "tick": wants writeMutex; "done"
    closed,     \* Close has been called
    up,         \* the network and the other end let bytes through
    tcp,        \* bytes on their way
    readStart, unread,  \* of readBuffer: the index, and the bytes up to readEnd
    got,        \* what Read has returned
    failed      \* Read has returned an error

wvars == <<sent, writer, writeBuffer, buffering, ch, flusher, closed>>
rvars == <<readStart, unread, got, failed>>
vars  == <<wvars, rvars, up, tcp>>

Init ==
    /\ sent = <<>> /\ writer = <<>> /\ writeBuffer = <<>>
    /\ buffering = TRUE /\ ch = <<Buffered>> /\ flusher = "off" /\ closed = FALSE
    /\ up = TRUE /\ tcp = <<>>
    /\ readStart = 0 /\ unread = <<>> /\ got = <<>> /\ failed = FALSE

-----------------------------------------------------------------------------
(* The writing end                                                         *)

\* Marshal
Marshal(i, m) == [k \in 1 .. m.size |-> <<i, k>>]

tcpWrite(bs) == tcp' = IF up /\ ~closed THEN tcp \o bs ELSE tcp

\* Marshal's tooLong is ~Fits.  A mutant is off by one
FitsAlmost(n) == Len(writeBuffer) + n <= writeBufferSize + 1
Fits(n) == Len(writeBuffer) + n <= writeBufferSize

\* A message bigger than the buffer goes out behind what is buffered.  A mutant
\* forgets that
BigAlone(bs) == bs
FlushWith(bs) == writeBuffer \o bs

\* Write after the mode has been set
Put(m) ==
    LET bs   == Marshal(Len(sent) + 1, m)
        big  == m.size > writeBufferSize
        out  == IF Fits(m.size) THEN <<>> ELSE IF big THEN FlushWith(bs) ELSE writeBuffer
        left == IF Fits(m.size) THEN writeBuffer \o bs ELSE IF big THEN <<>> ELSE bs
    IN  /\ sent' = Append(sent, m)
        /\ tcpWrite(IF buffering THEN out ELSE out \o left)
        /\ writeBuffer' = IF buffering THEN left ELSE <<>>

Write(m) ==
    /\ writer = <<>> /\ ~closed /\ up /\ Len(sent) < MaxMsgs
    /\ IF m.mode = -1
       THEN Put(m) /\ UNCHANGED <<writer, buffering>>
       ELSE /\ writer' = <<m>> /\ buffering' = (m.mode = Buffered)
            /\ UNCHANGED <<sent, writeBuffer, tcp>>
    /\ UNCHANGED <<ch, flusher, closed, up, rvars>>

\* c.ch <- mode, still with writeMutex, and the rest of Write
WriteMode ==
    /\ writer # <<>> /\ ch = <<>>
    /\ ch' = <<writer[1].mode>> /\ writer' = <<>>
    /\ Put(writer[1])
    /\ UNCHANGED <<buffering, flusher, closed, up, rvars>>

\* Close, by the goroutine that writes: what is in writeBuffer stays there
Close ==
    /\ writer = <<>> /\ ~closed /\ closed' = TRUE
    /\ UNCHANGED <<sent, writer, writeBuffer, buffering, ch, flusher, up, tcp, rvars>>

-----------------------------------------------------------------------------
(* The flusher                                                             *)

\* What the flusher does with a mode it has received.  A mutant takes no notice
\* of OpSetBuffered
Never(op) == "off"
Ticker(op) == IF op = Buffered THEN "on" ELSE "off"

\* A mutant does not look for the end of a closed channel while the ticker is on
FlusherOpOnly ==
    /\ flusher \in {"off", "on"}
    /\ ch # <<>> \/ (closed /\ flusher = "off")
    /\ ch' = <<>> /\ flusher' = IF ch = <<>> THEN "done" ELSE Ticker(ch[1])
    /\ UNCHANGED <<sent, writer, writeBuffer, buffering, closed, up, tcp, rvars>>

FlusherOp ==
    /\ flusher \in {"off", "on"}
    /\ ch # <<>> \/ closed
    /\ ch' = <<>> /\ flusher' = IF ch = <<>> THEN "done" ELSE Ticker(ch[1])
    /\ UNCHANGED <<sent, writer, writeBuffer, buffering, closed, up, tcp, rvars>>

\* <-ticker.C; select takes either case when both are ready
FlusherTick ==
    /\ flusher = "on"
    /\ writeBuffer # <<>> \/ ch # <<>>
    /\ flusher' = "tick"
    /\ UNCHANGED <<sent, writer, writeBuffer, buffering, ch, closed, up, tcp, rvars>>

FlusherFlush ==
    /\ flusher = "tick" /\ writer = <<>>
    /\ tcpWrite(writeBuffer) /\ writeBuffer' = <<>>
    /\ flusher' = "on"
    /\ UNCHANGED <<sent, writer, buffering, ch, closed, up, rvars>>

-----------------------------------------------------------------------------
(* The reading end: Read                                                   *)

\* The size at readStart, once its bytes are there
messageSize == IF unread[1][2] = 1 THEN sent[unread[1][1]].size ELSE 0

HasSize == Len(unread) >= MinimumMessageSize
Big     == HasSize /\ messageSize > readBufferSize - readStart
HasMessage == HasSize /\ Len(unread) >= messageSize

\* How many bytes tcp.Read may fill: of readBuffer, or of the bigBuffer made for
\* this message
Room == IF Big THEN messageSize - Len(unread)
               ELSE readBufferSize - readStart - Len(unread)

ReadMore ==
    /\ ~failed /\ ~HasMessage /\ tcp # <<>>
    /\ \E n \in 1 .. Len(tcp) :
          /\ n <= Room
          /\ unread' = unread \o SubSeq(tcp, 1, n)
          /\ tcp' = SubSeq(tcp, n + 1, Len(tcp))
    /\ UNCHANGED <<wvars, up, readStart, got, failed>>

\* The buffer is maintained before the message is taken from it
ReadReturns ==
    /\ ~failed /\ HasMessage
    /\ got' = Append(got, SubSeq(unread, 1, messageSize))
    /\ unread' = SubSeq(unread, messageSize + 1, Len(unread))
    /\ readStart' = IF Big THEN 0
                    ELSE (IF readStart > Compact THEN 0 ELSE readStart) + messageSize
    /\ UNCHANGED <<wvars, up, tcp, failed>>

\* The stream has ended; tcp.Read into an empty slice does not say so
ReadFails ==
    /\ ~failed /\ ~HasMessage /\ tcp = <<>> /\ (closed \/ ~up) /\ Room > 0
    /\ failed' = TRUE
    /\ UNCHANGED <<wvars, up, tcp, readStart, unread, got>>

\* The network fails or the other end is gone
Breaks ==
    /\ up /\ up' = FALSE /\ tcp' = <<>>
    /\ UNCHANGED <<wvars, rvars>>

Next ==
    \/ \E m \in Messages : Write(m)
    \/ WriteMode \/ Close
    \/ FlusherOp \/ FlusherTick \/ FlusherFlush
    \/ ReadMore \/ ReadReturns \/ ReadFails \/ Breaks

Spec == Init /\ [][Next]_vars

\* The goroutines run: select does not pass over a case that stays ready, and
\* Write goes on when it can; nobody has to write, to close or to break anything
Fairness ==
    /\ WF_vars(WriteMode) /\ SF_vars(FlusherOp) /\ WF_vars(FlusherTick)
    /\ SF_vars(FlusherFlush) /\ WF_vars(ReadMore \/ ReadReturns \/ ReadFails)

FairSpec == Spec /\ Fairness

-----------------------------------------------------------------------------
(* Properties                                                              *)

TypeOK ==
    /\ sent \in Seq(Messages) /\ writer \in {<<>>} \cup {<<m>> : m \in Messages}
    /\ Len(writeBuffer) <= writeBufferSize /\ buffering \in BOOLEAN
    /\ ch \in {<<>>, <<NoDelay>>, <<Buffered>>}
    /\ flusher \in {"off", "on", "tick", "done"}
    /\ closed \in BOOLEAN /\ up \in BOOLEAN /\ failed \in BOOLEAN
    /\ readStart \in 0 .. readBufferSize
    /\ ~Big => readStart + Len(unread) <= readBufferSize

\* Read returns the messages written, whole and in order, however writes, flushes
\* and big messages interleave and wherever TCP cuts the stream
InOrder ==
    \A i \in DOMAIN got : got[i] = Marshal(i, sent[i])

\* The messages written, as the bytes that should arrive
Packet  == {Marshal(i, m) : i \in 1 .. MaxMsgs, m \in Messages}
Packets == [i \in 1 .. Len(sent) |-> Marshal(i, sent[i])]

Chan == INSTANCE Channel WITH
            Message <- Packet, sent <- Packets, received <- got, open <- ~closed, ended <- failed

\* One direction of a connection is a queue, although goroutines, the flusher, the
\* modes and big messages share one buffer and TCP cuts the stream anywhere: Read
\* returns each message once, whole and in its turn, and an error only after Close
\* or a failure of the network
ImplementsChannel == Chan!Spec

\* tcp.Read is called with an empty slice, for ever: a message that ends at the
\* end of readBuffer began no further than Compact
Stuck == ~HasMessage /\ Room = 0

\* Write has writeMutex and waits for c.ch, the flusher has the ticker's case and
\* waits for writeMutex
ModeDeadlock == writer # <<>> /\ ch # <<>> /\ flusher = "tick"

\* On a connection that stands, every message written is read in the end, whether
\* it was buffered or not, unless the reader is stuck or the modes deadlock
Delivered ==
    <>[](closed \/ ~up \/ Stuck \/ ModeDeadlock \/ Len(got) = Len(sent))

\* The flusher ends when the connection is closed
FlusherEnds == closed ~> flusher = "done"
=============================================================================
