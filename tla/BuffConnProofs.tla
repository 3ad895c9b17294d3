--------------------------- MODULE BuffConnProofs ---------------------------
(***************************************************************************)
(* A buffered connection keeps the order and the bounds of its messages,   *)
(* for any sizes of messages and buffers: the bytes that the reader has    *)
(* not returned, those on their way and those in the buffer of the writer  *)
(* follow one another from the first message not returned to the last one  *)
(* written.                                                                *)
(***************************************************************************)
EXTENDS BuffConn, SequenceTheorems, WellFoundedInduction, TLAPS

Bytes == Nat \X Nat

\* b is a byte of the messages s, and the byte that comes after it
Byte(b, s) == b \in Bytes /\ b[1] \in 1 .. Len(s) /\ b[2] \in 1 .. s[b[1]].size
After(b, s) == IF b[2] < s[b[1]].size THEN <<b[1], b[2] + 1>> ELSE <<b[1] + 1, 1>>

(* The bytes w of the messages s go from a up to, but not including, b.    *)
Segment(w, s, a, b) ==
    /\ w \in Seq(Bytes)
    /\ \A j \in 1 .. Len(w) : Byte(w[j], s)
    /\ \A j \in 1 .. Len(w) - 1 : w[j + 1] = After(w[j], s)
    /\ IF Len(w) = 0 THEN a = b ELSE w[1] = a /\ After(w[Len(w)], s) = b

\* Where message i begins
Start(i) == <<i, 1>>

(* From the first message that Read has not returned, the stream has every *)
(* byte; up to the last message written as long as the connection stands.  *)
Stream ==
    \E b, c :
        /\ Segment(unread, sent, Start(Len(got) + 1), b)
        /\ Segment(tcp, sent, b, c)
        /\ up /\ ~closed => Segment(writeBuffer, sent, c, Start(Len(sent) + 1))

(* Read makes a bigger buffer for a message that does not fit, and fills   *)
(* it with that message alone.                                             *)
BigFits == Big => Len(unread) <= messageSize

Inv ==
    /\ TypeOK /\ InOrder /\ Stream /\ BigFits
    /\ got \in Seq(Seq(Bytes)) /\ Len(got) <= Len(sent)
    /\ writeBuffer \in Seq(Bytes)
    /\ writer # <<>> => writer[1].mode \in {NoDelay, Buffered}

-----------------------------------------------------------------------------
(* A set of numbers has a least one.                                       *)
LEMMA Least ==
    ASSUME NEW T \in SUBSET Nat, T # {} PROVE \E j \in T : \A k \in T : j <= k
<1>1. PICK j \in T : \A k \in T : ~(<<k, j>> \in OpToRel(<, Nat))
  BY NatLessThanWellFounded, WFMin
<1>2. \A k \in Nat, l \in Nat : k < l => <<k, l>> \in OpToRel(<, Nat)
  BY Zenon DEF OpToRel
<1>3. \A k \in T : ~(k < j)
  BY <1>1, <1>2, Zenon
<1> QED BY <1>3

(* The size of a message is a number.                                      *)
LEMMA MessageSize ==
    ASSUME NEW s \in Seq(Messages), NEW i \in 1 .. Len(s)
    PROVE  s[i].size \in Nat /\ s[i].size >= MinimumMessageSize /\ s[i].size > 0
<1>1. s[i] \in Messages
  OBVIOUS
<1>2. \A m \in Messages : m.size \in Size \cup {MinimumMessageSize}
  BY DEF Messages
<1>3. \A n \in Size \cup {MinimumMessageSize} : n \in Nat /\ n >= MinimumMessageSize /\ n > 0
  BY BuffConnAssumption
<1> QED BY <1>1, <1>2, <1>3, Zenon

-----------------------------------------------------------------------------
(* Segments                                                                *)

(* No bytes.                                                               *)
LEMMA SegmentNone ==
    ASSUME NEW s, NEW a PROVE Segment(<<>>, s, a, a)
BY DEF Segment

(* One segment after another.                                              *)
LEMMA SegmentJoin ==
    ASSUME NEW u, NEW v, NEW s, NEW a, NEW b, NEW c,
           Segment(u, s, a, b), Segment(v, s, b, c)
    PROVE  Segment(u \o v, s, a, c)
<1>1. /\ u \in Seq(Bytes) /\ v \in Seq(Bytes)
      /\ \A j \in 1 .. Len(u) : Byte(u[j], s)
      /\ \A j \in 1 .. Len(v) : Byte(v[j], s)
      /\ \A j \in 1 .. Len(u) - 1 : u[j + 1] = After(u[j], s)
      /\ \A j \in 1 .. Len(v) - 1 : v[j + 1] = After(v[j], s)
      /\ IF Len(u) = 0 THEN a = b ELSE u[1] = a /\ After(u[Len(u)], s) = b
      /\ IF Len(v) = 0 THEN b = c ELSE v[1] = b /\ After(v[Len(v)], s) = c
  BY DEF Segment
<1>2. PICK w \in Seq(Bytes) : w = u \o v
  BY <1>1, ConcatProperties, Zenon
<1>3. PICK m \in Nat, n \in Nat : m = Len(u) /\ n = Len(v)
  BY <1>1
<1>4. /\ Len(w) = m + n
      /\ \A j \in 1 .. m : w[j] = u[j]
      /\ \A j \in (m + 1) .. (m + n) : w[j] = v[j - m]
  BY <1>1, <1>2, <1>3
<1>5. \A j \in 1 .. Len(w) : Byte(w[j], s)
  <2> SUFFICES ASSUME NEW j \in 1 .. Len(w) PROVE Byte(w[j], s)
    OBVIOUS
  <2>1. CASE j <= m
    BY <1>1, <1>3, <1>4, <2>1
  <2>2. CASE j > m
    <3>1. j - m \in 1 .. n /\ w[j] = v[j - m]
      BY <1>4, <2>2
    <3> QED BY <1>1, <1>3, <3>1
  <2> QED BY <1>3, <2>1, <2>2
<1>6. \A j \in 1 .. Len(w) - 1 : w[j + 1] = After(w[j], s)
  <2> SUFFICES ASSUME NEW j \in 1 .. Len(w) - 1 PROVE w[j + 1] = After(w[j], s)
    OBVIOUS
  <2>1. CASE j < m
    <3>1. j \in 1 .. m - 1 /\ w[j] = u[j] /\ w[j + 1] = u[j + 1]
      BY <1>4, <2>1
    <3> QED BY <1>1, <1>3, <3>1
  <2>2. CASE j = m
    <3>1. m # 0 /\ n # 0 /\ w[j] = u[m] /\ w[j + 1] = v[1]
      BY <1>4, <2>2
    <3> QED BY <1>1, <1>3, <2>2, <3>1
  <2>3. CASE j > m
    <3>1. PICK i \in 1 .. n - 1 : i = j - m
      BY <1>4, <2>3
    <3>2. /\ j \in (m + 1) .. (m + n) /\ j + 1 \in (m + 1) .. (m + n)
          /\ j - m = i /\ (j + 1) - m = i + 1
      BY <1>4, <2>3, <3>1
    <3>3. w[j] = v[j - m] /\ w[j + 1] = v[(j + 1) - m]
      BY <1>4, <3>2
    <3>4. w[j] = v[i] /\ w[j + 1] = v[i + 1]
      BY <3>2, <3>3
    <3> QED BY <1>1, <1>3, <3>4
  <2> QED BY <1>3, <2>1, <2>2, <2>3
<1>7. IF Len(w) = 0 THEN a = c ELSE w[1] = a /\ After(w[Len(w)], s) = c
  <2>1. CASE m = 0 /\ n = 0
    BY <1>1, <1>3, <1>4, <2>1
  <2>2. CASE m = 0 /\ n # 0
    <3>1. Len(w) = n /\ w[1] = v[1] /\ w[n] = v[n]
      BY <1>4, <2>2
    <3> QED BY <1>1, <1>3, <2>2, <3>1
  <2>3. CASE m # 0 /\ n = 0
    <3>1. Len(w) = m /\ w[1] = u[1] /\ w[m] = u[m]
      BY <1>4, <2>3
    <3> QED BY <1>1, <1>3, <2>3, <3>1
  <2>4. CASE m # 0 /\ n # 0
    <3>1. Len(w) = m + n /\ w[1] = u[1] /\ w[m + n] = v[n]
      BY <1>4, <2>4
    <3> QED BY <1>1, <1>3, <2>4, <3>1
  <2> QED BY <2>1, <2>2, <2>3, <2>4
<1> HIDE DEF After, Byte
<1>8. Segment(w, s, a, c)
  BY <1>5, <1>6, <1>7 DEF Segment
<1> QED BY <1>2, <1>8

(* A segment cut in two.                                                   *)
LEMMA SegmentCut ==
    ASSUME NEW w, NEW s, NEW a, NEW c, Segment(w, s, a, c), NEW n \in 0 .. Len(w)
    PROVE  \E b : /\ Segment(SubSeq(w, 1, n), s, a, b)
                  /\ Segment(SubSeq(w, n + 1, Len(w)), s, b, c)
                  /\ n > 0 => b = After(w[n], s)
<1>1. /\ w \in Seq(Bytes) /\ Len(w) \in Nat
      /\ \A j \in 1 .. Len(w) : Byte(w[j], s)
      /\ \A j \in 1 .. Len(w) - 1 : w[j + 1] = After(w[j], s)
      /\ IF Len(w) = 0 THEN a = c ELSE w[1] = a /\ After(w[Len(w)], s) = c
  BY DEF Segment
<1>2. PICK m \in Nat : m = Len(w)
  BY <1>1
<1>3. PICK u \in Seq(Bytes), v \in Seq(Bytes) :
        u = SubSeq(w, 1, n) /\ v = SubSeq(w, n + 1, m)
  <2>1. \A i \in 1 .. m : w[i] \in Bytes
    BY <1>1, <1>2
  <2>2. n \in Int /\ (\A i \in 1 .. n : w[i] \in Bytes) /\ \A i \in (n + 1) .. m : w[i] \in Bytes
    BY <1>2, <2>1
  <2>3. 1 \in Int /\ n + 1 \in Int /\ m \in Int
    BY <1>2
  <2>4. SubSeq(w, 1, n) \in Seq(Bytes)
    BY <2>2, <2>3, SubSeqProperties, Zenon
  <2>5. SubSeq(w, n + 1, m) \in Seq(Bytes)
    BY <2>2, <2>3, SubSeqProperties, Zenon
  <2> QED BY <2>4, <2>5, Zenon
<1>4. /\ Len(u) = n /\ Len(v) = m - n
      /\ \A j \in 1 .. n : u[j] = w[j]
      /\ \A j \in 1 .. m - n : v[j] = w[n + j]
  BY <1>1, <1>2, <1>3
<1>5. PICK b : b = IF n = 0 THEN a ELSE After(w[n], s)
  OBVIOUS
<1>6. Segment(u, s, a, b)
  <2>1. \A j \in 1 .. Len(u) : Byte(u[j], s)
    BY <1>1, <1>2, <1>4
  <2>2. \A j \in 1 .. Len(u) - 1 : u[j + 1] = After(u[j], s)
    BY <1>1, <1>2, <1>4
  <2>3. IF Len(u) = 0 THEN a = b ELSE u[1] = a /\ After(u[Len(u)], s) = b
    BY <1>1, <1>2, <1>4, <1>5
  <2> QED BY <2>1, <2>2, <2>3, Zenon DEF Segment
<1>7. Segment(v, s, b, c)
  <2>1. \A j \in 1 .. Len(v) : Byte(v[j], s)
    BY <1>1, <1>2, <1>4
  <2>2. ASSUME NEW j \in 1 .. Len(v) - 1 PROVE v[j + 1] = After(v[j], s)
    <3>1. PICK i \in 1 .. m - 1 : i = n + j
      BY <1>2, <1>4
    <3>2. v[j] = w[i] /\ v[j + 1] = w[i + 1]
      BY <1>2, <1>4, <3>1, SMTT(40)
    <3> QED BY <1>1, <1>2, <3>2
  <2>3. IF Len(v) = 0 THEN b = c ELSE v[1] = b /\ After(v[Len(v)], s) = c
    <3>1. CASE n = m
      BY <1>1, <1>2, <1>4, <1>5, <3>1
    <3>2. CASE n # m
      <4>1. v[1] = w[n + 1] /\ v[m - n] = w[m] /\ m # 0 /\ Len(v) # 0 /\ Len(v) = m - n
        <5>1. m - n \in 1 .. m - n /\ 1 \in 1 .. m - n /\ n + (m - n) = m /\ m # 0
          BY <1>2, <3>2
        <5>2. v[m - n] = w[n + (m - n)] /\ v[1] = w[n + 1]
          BY <1>4, <5>1
        <5> QED BY <1>4, <5>1, <5>2
      <4>2. w[n + 1] = b
        <5>1. CASE n = 0
          BY <1>1, <1>2, <1>5, <4>1, <5>1
        <5>2. CASE n # 0
          <6>1. n \in 1 .. Len(w) - 1
            BY <1>2, <3>2, <5>2
          <6> QED BY <1>1, <1>5, <5>2, <6>1
        <5> QED BY <5>1, <5>2
      <4> QED BY <1>1, <1>2, <4>1, <4>2
    <3> QED BY <3>1, <3>2
  <2> QED BY <2>1, <2>2, <2>3 DEF Segment
<1> QED BY <1>2, <1>3, <1>5, <1>6, <1>7

(* A message more.                                                         *)
LEMMA SegmentSame ==
    ASSUME NEW w, NEW s \in Seq(Messages), NEW a, NEW b, Segment(w, s, a, b), NEW m \in Messages
    PROVE  Segment(w, Append(s, m), a, b)
<1>1. PICK t : t = Append(s, m)
  BY Zenon
<1>2. Len(s) \in Nat /\ Len(t) = Len(s) + 1 /\ \A i \in 1 .. Len(s) : t[i] = s[i]
  BY <1>1
<1>3. ASSUME NEW x, Byte(x, s) PROVE Byte(x, t) /\ After(x, t) = After(x, s)
  <2>1. x[1] \in 1 .. Len(s) /\ t[x[1]] = s[x[1]]
    BY <1>2, <1>3 DEF Byte
  <2> QED BY <1>2, <1>3, <2>1 DEF Byte, After
<1>4. /\ w \in Seq(Bytes) /\ Len(w) \in Nat
      /\ \A j \in 1 .. Len(w) : Byte(w[j], s)
      /\ \A j \in 1 .. Len(w) - 1 : w[j + 1] = After(w[j], s)
      /\ IF Len(w) = 0 THEN a = b ELSE w[1] = a /\ After(w[Len(w)], s) = b
  BY DEF Segment
<1>5. \A j \in 1 .. Len(w) : Byte(w[j], t) /\ After(w[j], t) = After(w[j], s)
  BY <1>3, <1>4
<1>6. Segment(w, t, a, b)
  BY <1>4, <1>5 DEF Segment
<1> QED BY <1>1, <1>6

(* The bytes of a message.                                                 *)
LEMMA SegmentMarshal ==
    ASSUME NEW s \in Seq(Messages), NEW i \in 1 .. Len(s)
    PROVE  Segment(Marshal(i, s[i]), s, Start(i), Start(i + 1))
<1>1. PICK n \in Nat : n = s[i].size /\ n > 0
  BY MessageSize
<1>2. PICK w : w = Marshal(i, s[i])
  OBVIOUS
<1>3. w = [k \in 1 .. n |-> <<i, k>>] /\ i \in Nat
  BY <1>1, <1>2 DEF Marshal
<1>4. \A k \in 1 .. n : <<i, k>> \in Bytes
  BY <1>3 DEF Bytes
<1>5. w \in Seq(Bytes) /\ Len(w) = n /\ \A k \in 1 .. n : w[k] = <<i, k>>
  BY <1>3, <1>4
<1>6. \A k \in 1 .. n : <<i, k>>[1] = i /\ <<i, k>>[2] = k
  OBVIOUS
<1>7. \A j \in 1 .. Len(w) : Byte(w[j], s)
  BY <1>1, <1>4, <1>5, <1>6 DEF Byte
<1>8. ASSUME NEW j \in 1 .. Len(w) - 1 PROVE w[j + 1] = After(w[j], s)
  <2>1. j \in 1 .. n /\ j + 1 \in 1 .. n /\ j < n
    BY <1>5
  <2>2. w[j] = <<i, j>> /\ w[j + 1] = <<i, j + 1>>
    BY <1>5, <2>1
  <2> QED BY <1>1, <2>1, <2>2 DEF After
<1>9. w[1] = Start(i) /\ After(w[Len(w)], s) = Start(i + 1)
  BY <1>1, <1>5, <1>6 DEF After, Start
<1>10. Segment(w, s, Start(i), Start(i + 1))
  BY <1>1, <1>5, <1>7, <1>8, <1>9 DEF Segment
<1> QED BY <1>2, <1>10

(* The first message of a segment is whole once it has its size.           *)
LEMMA SegmentTake ==
    ASSUME NEW s \in Seq(Messages), NEW w, NEW i \in Nat, NEW b, Segment(w, s, Start(i), b),
           Len(w) > 0, Len(w) >= s[i].size
    PROVE  /\ SubSeq(w, 1, s[i].size) = Marshal(i, s[i])
           /\ Segment(SubSeq(w, s[i].size + 1, Len(w)), s, Start(i + 1), b)
<1>1. /\ w \in Seq(Bytes) /\ Len(w) \in Nat /\ w[1] = <<i, 1>>
      /\ \A j \in 1 .. Len(w) : Byte(w[j], s)
      /\ \A j \in 1 .. Len(w) - 1 : w[j + 1] = After(w[j], s)
  BY DEF Segment, Start
<1>2. i \in 1 .. Len(s)
  BY <1>1 DEF Byte
<1>3. PICK n \in Nat : n = s[i].size /\ n > 0
  BY <1>2, MessageSize
<1>4. \A j \in 1 .. n : w[j] = <<i, j>>
  <2> DEFINE T == {j \in 1 .. n : w[j] # <<i, j>>}
  <2>1. SUFFICES ASSUME T # {} PROVE FALSE
    OBVIOUS
  <2>2. T \subseteq Nat
    OBVIOUS
  <2> HIDE DEF T
  <2>3. PICK j \in T : \A k \in T : j <= k
    BY <2>1, <2>2, Least
  <2>4. j \in 1 .. n /\ w[j] # <<i, j>> /\ j # 1
    BY <1>1, <2>3 DEF T
  <2>5. j - 1 \in 1 .. n /\ j - 1 \notin T
    BY <2>2, <2>3, <2>4
  <2>6. w[j - 1] = <<i, j - 1>>
    BY <2>5 DEF T
  <2>7. j - 1 \in 1 .. Len(w) - 1 /\ (j - 1) + 1 = j
    BY <1>1, <1>3, <2>4
  <2>8. w[j] = After(<<i, j - 1>>, s)
    <3>1. w[(j - 1) + 1] = After(w[j - 1], s)
      BY <1>1, <2>7
    <3> QED BY <2>6, <2>7, <3>1
  <2>9. After(<<i, j - 1>>, s) = <<i, j>>
    BY <1>3, <2>4 DEF After
  <2> QED BY <2>4, <2>8, <2>9
<1>5. SubSeq(w, 1, n) = Marshal(i, s[i])
  <2>1. SubSeq(w, 1, n) = [k \in 1 .. n |-> w[k]]
    BY <1>1, <1>3
  <2>2. Marshal(i, s[i]) = [k \in 1 .. n |-> <<i, k>>]
    BY <1>3 DEF Marshal
  <2> QED BY <1>4, <2>1, <2>2
<1>6. Segment(SubSeq(w, n + 1, Len(w)), s, Start(i + 1), b)
  <2>1. n \in 0 .. Len(w)
    BY <1>1, <1>3
  <2>2. PICK c : /\ Segment(SubSeq(w, n + 1, Len(w)), s, c, b)
                 /\ n > 0 => c = After(w[n], s)
    BY <2>1, SegmentCut
  <2>3. w[n] = <<i, n>>
    BY <1>3, <1>4
  <2>4. After(<<i, n>>, s) = Start(i + 1)
    BY <1>3 DEF After, Start
  <2> QED BY <1>3, <2>2, <2>3, <2>4
<1> QED BY <1>3, <1>5, <1>6

-----------------------------------------------------------------------------
(* The reader                                                              *)

(* Read finds the size of the first message that it has not returned.      *)
LEMMA SizeIs ==
    Stream /\ sent \in Seq(Messages) /\ got \in Seq(Seq(Bytes)) =>
        /\ unread \in Seq(Bytes) /\ tcp \in Seq(Bytes)
        /\ HasSize => /\ Len(got) + 1 \in 1 .. Len(sent)
                      /\ messageSize = sent[Len(got) + 1].size
                      /\ Len(unread) > 0
<1> SUFFICES ASSUME Stream, sent \in Seq(Messages), got \in Seq(Seq(Bytes))
             PROVE  /\ unread \in Seq(Bytes) /\ tcp \in Seq(Bytes)
                    /\ HasSize => /\ Len(got) + 1 \in 1 .. Len(sent)
                                  /\ messageSize = sent[Len(got) + 1].size
                                  /\ Len(unread) > 0
  OBVIOUS
<1>1. PICK b, c : Segment(unread, sent, Start(Len(got) + 1), b) /\ Segment(tcp, sent, b, c)
  BY DEF Stream
<1>2. unread \in Seq(Bytes) /\ tcp \in Seq(Bytes) /\ Len(unread) \in Nat
  BY <1>1 DEF Segment
<1>3. ASSUME HasSize
      PROVE  /\ Len(got) + 1 \in 1 .. Len(sent) /\ messageSize = sent[Len(got) + 1].size
             /\ Len(unread) > 0
  <2>1. Len(unread) > 0
    BY <1>2, <1>3, BuffConnAssumption DEF HasSize
  <2>2. unread[1] = <<Len(got) + 1, 1>> /\ Byte(unread[1], sent)
    BY <1>1, <1>2, <2>1 DEF Segment, Start
  <2> QED BY <2>1, <2>2 DEF Byte, messageSize
<1> QED BY <1>2, <1>3

\* What the reader keeps to
Reader ==
    /\ InOrder /\ BigFits /\ got \in Seq(Seq(Bytes)) /\ Len(got) <= Len(sent)
    /\ readStart \in 0 .. readBufferSize
    /\ ~Big => readStart + Len(unread) <= readBufferSize

(* The writing end does not disturb it.                                    *)
LEMMA Undisturbed ==
    ASSUME Inv, Stream', UNCHANGED rvars, sent' \in Seq(Messages),
           sent' = sent \/ \E m \in Messages : sent' = Append(sent, m)
    PROVE  Reader'
<1>1. sent \in Seq(Messages) /\ got \in Seq(Seq(Bytes)) /\ Stream /\ Len(got) <= Len(sent) /\ InOrder
      /\ Len(got) \in Nat /\ Len(sent) \in Nat
  BY DEF Inv, TypeOK
<1>2. /\ readStart' = readStart /\ unread' = unread /\ got' = got
  BY DEF rvars
<1>3. Len(sent') >= Len(sent) /\ Len(sent') \in Nat /\ \A i \in 1 .. Len(sent) : sent'[i] = sent[i]
  <2>1. CASE sent' = sent
    BY <1>1, <2>1
  <2>2. CASE sent' # sent
    <3>1. PICK m \in Messages : sent' = Append(sent, m)
      BY <2>2
    <3>2. Len(sent') = Len(sent) + 1 /\ \A i \in 1 .. Len(sent) : sent'[i] = sent[i]
      BY <1>1, <3>1, AppendProperties
    <3> QED BY <1>1, <3>2
  <2> QED BY <2>1, <2>2
<1>4. HasSize' <=> HasSize
  BY <1>2 DEF HasSize
<1>5. HasSize => Len(got) + 1 \in 1 .. Len(sent) /\ messageSize = sent[Len(got) + 1].size
  BY <1>1, SizeIs
<1>6. HasSize' => messageSize' = sent'[Len(got') + 1].size
  <2>1. (Stream /\ sent \in Seq(Messages) /\ got \in Seq(Seq(Bytes)))' =>
            (HasSize => messageSize = sent[Len(got) + 1].size)'
    BY SizeIs, PTL
  <2> QED BY <1>1, <1>2, <2>1
<1>7. HasSize => messageSize' = messageSize
  BY <1>2, <1>3, <1>4, <1>5, <1>6
<1>8. Big' <=> Big
  BY <1>2, <1>4, <1>7 DEF Big
<1>9. BigFits'
  BY <1>2, <1>4, <1>7, <1>8 DEF Inv, BigFits, Big
<1>10. InOrder'
  <2>1. \A i \in DOMAIN got : i \in 1 .. Len(sent) /\ got[i] = Marshal(i, sent[i])
    BY <1>1 DEF InOrder
  <2> QED BY <1>2, <1>3, <2>1 DEF InOrder, Marshal
<1> QED BY <1>1, <1>2, <1>3, <1>8, <1>9, <1>10 DEF Reader, Inv, TypeOK

(* tcp.Read fills the buffer.                                              *)
LEMMA Reads ==
    ASSUME Inv, ReadMore
    PROVE  Stream' /\ Reader'
<1>1. sent \in Seq(Messages) /\ got \in Seq(Seq(Bytes)) /\ Stream
      /\ Len(got) \in Nat /\ Len(sent) \in Nat
  BY DEF Inv, TypeOK
<1>2. UNCHANGED <<sent, writeBuffer, closed, up, readStart, got>>
  BY DEF ReadMore, wvars
<1>3. PICK n \in 1 .. Len(tcp) : /\ n <= Room /\ unread' = unread \o SubSeq(tcp, 1, n)
                                 /\ tcp' = SubSeq(tcp, n + 1, Len(tcp))
  BY SMTT(30) DEF ReadMore
<1>4. PICK b, c :
        /\ Segment(unread, sent, Start(Len(got) + 1), b) /\ Segment(tcp, sent, b, c)
        /\ up /\ ~closed => Segment(writeBuffer, sent, c, Start(Len(sent) + 1))
  BY <1>1 DEF Stream
<1>5. tcp \in Seq(Bytes) /\ unread \in Seq(Bytes) /\ n \in 0 .. Len(tcp) /\ Len(tcp) \in Nat
  BY <1>4 DEF Segment
<1>6. PICK d : /\ Segment(SubSeq(tcp, 1, n), sent, b, d)
               /\ Segment(SubSeq(tcp, n + 1, Len(tcp)), sent, d, c)
  BY <1>4, <1>5, SegmentCut
<1>7. Segment(unread', sent, Start(Len(got) + 1), d)
  BY <1>3, <1>4, <1>6, SegmentJoin
<1>8. Stream'
  <2>1. Segment(tcp', sent, d, c)
    BY <1>3, <1>6
  <2>2. /\ Segment(unread', sent', Start(Len(got') + 1), d)
        /\ Segment(tcp', sent', d, c)
        /\ up' /\ ~closed' => Segment(writeBuffer', sent', c, Start(Len(sent') + 1))
    BY <1>2, <1>4, <1>7, <2>1
  <2> QED BY <2>2 DEF Stream
<1>9. Len(unread) \in Nat /\ Len(unread') = Len(unread) + n
  <2>1. SubSeq(tcp, 1, n) \in Seq(Bytes) /\ Len(SubSeq(tcp, 1, n)) = n
    BY <1>5, <1>6 DEF Segment
  <2> QED BY <1>3, <1>5, <2>1, ConcatProperties
<1>10. HasSize => /\ HasSize' /\ messageSize = sent[Len(got) + 1].size
                  /\ messageSize \in Nat
  <2>1. HasSize => Len(got) + 1 \in 1 .. Len(sent) /\ messageSize = sent[Len(got) + 1].size
    BY <1>1, SizeIs
  <2> QED BY <1>1, <1>9, <2>1, MessageSize, BuffConnAssumption DEF HasSize
<1>11. HasSize' => messageSize' = sent[Len(got) + 1].size /\ messageSize' \in Nat
  <2>1. (Stream /\ sent \in Seq(Messages) /\ got \in Seq(Seq(Bytes)))' =>
          (HasSize => Len(got) + 1 \in 1 .. Len(sent) /\ messageSize = sent[Len(got) + 1].size)'
    BY SizeIs, PTL
  <2>2. HasSize' => Len(got) + 1 \in 1 .. Len(sent) /\ messageSize' = sent[Len(got) + 1].size
    BY <1>1, <1>2, <1>8, <2>1
  <2> QED BY <1>1, <2>2, MessageSize
<1>12. readStart \in 0 .. readBufferSize /\ readBufferSize \in Nat
  BY BuffConnAssumption DEF Inv, TypeOK
<1>13. CASE Big
  <2>1. HasSize /\ messageSize > readBufferSize - readStart /\ Room = messageSize - Len(unread)
    BY <1>13 DEF Big, Room
  <2>2. messageSize' = messageSize /\ HasSize'
    BY <1>10, <1>11, <2>1
  <2>3. Big' /\ Len(unread') <= messageSize'
    BY <1>2, <1>3, <1>9, <1>10, <2>1, <2>2 DEF Big
  <2> QED BY <1>2, <1>8, <2>3 DEF Inv, TypeOK, InOrder, Reader, BigFits
<1>14. CASE ~Big
  <2>1. readStart + Len(unread') <= readBufferSize
    BY <1>3, <1>9, <1>12, <1>14 DEF Room
  <2>2. Big' => messageSize' > readBufferSize - readStart /\ messageSize' \in Nat
    BY <1>2, <1>11 DEF Big
  <2>3. BigFits'
    BY <1>9, <1>12, <2>1, <2>2 DEF BigFits
  <2> QED BY <1>2, <1>8, <2>1, <2>3 DEF Inv, TypeOK, InOrder, Reader
<1> QED BY <1>13, <1>14

(* Read returns a message: the next one, and all of it.                    *)
LEMMA Returns ==
    ASSUME Inv, ReadReturns
    PROVE  Stream' /\ Reader'
<1>1. sent \in Seq(Messages) /\ got \in Seq(Seq(Bytes)) /\ Stream /\ InOrder
      /\ Len(got) \in Nat /\ Len(sent) \in Nat
  BY DEF Inv, TypeOK
<1>2. UNCHANGED <<sent, writeBuffer, closed, up, tcp>> /\ HasSize /\ Len(unread) >= messageSize
  BY DEF ReadReturns, wvars, HasMessage
<1>3. PICK i \in 1 .. Len(sent) : i = Len(got) + 1 /\ messageSize = sent[i].size
  BY <1>1, <1>2, SizeIs
<1>4. PICK n \in Nat : n = messageSize /\ n = sent[i].size /\ n >= MinimumMessageSize /\ n > 0
  BY <1>1, <1>3, MessageSize
<1>5. PICK b, c :
        /\ Segment(unread, sent, Start(i), b) /\ Segment(tcp, sent, b, c)
        /\ up /\ ~closed => Segment(writeBuffer, sent, c, Start(Len(sent) + 1))
  BY <1>1, <1>3 DEF Stream
<1>6. unread \in Seq(Bytes) /\ Len(unread) \in Nat /\ Len(unread) >= n /\ Len(unread) > 0
  BY <1>2, <1>4, <1>5 DEF Segment
<1>7. /\ SubSeq(unread, 1, n) = Marshal(i, sent[i])
      /\ Segment(SubSeq(unread, n + 1, Len(unread)), sent, Start(i + 1), b)
  BY <1>1, <1>4, <1>5, <1>6, SegmentTake
<1>8. /\ got' = Append(got, Marshal(i, sent[i]))
      /\ unread' = SubSeq(unread, n + 1, Len(unread))
  BY <1>4, <1>7, Zenon DEF ReadReturns
<1>9. Marshal(i, sent[i]) \in Seq(Bytes)
  BY <1>1, SegmentMarshal DEF Segment
<1>10. /\ got' \in Seq(Seq(Bytes)) /\ Len(got') = i
       /\ \A j \in 1 .. Len(got) : got'[j] = got[j]
       /\ got'[i] = Marshal(i, sent[i])
  BY <1>1, <1>3, <1>8, <1>9, AppendProperties
<1>11. InOrder'
  <2>1. \A j \in 1 .. Len(got) : got[j] = Marshal(j, sent[j])
    BY <1>1 DEF InOrder
  <2>2. ASSUME NEW j \in DOMAIN got' PROVE got'[j] = Marshal(j, sent[j])
    <3>1. j \in 1 .. Len(got) \/ j = i
      BY <1>1, <1>3, <1>10
    <3> QED BY <1>10, <2>1, <3>1
  <2> QED BY <1>2, <2>2 DEF InOrder, Marshal
<1>12. Stream'
  <2>1. /\ Segment(unread', sent', Start(Len(got') + 1), b)
        /\ Segment(tcp', sent', b, c)
        /\ up' /\ ~closed' => Segment(writeBuffer', sent', c, Start(Len(sent') + 1))
    BY <1>2, <1>5, <1>7, <1>8, <1>10
  <2> QED BY <2>1 DEF Stream
<1>13. unread' \in Seq(Bytes) /\ Len(unread') = Len(unread) - n
  <2>1. unread' \in Seq(Bytes)
    BY <1>7, <1>8 DEF Segment
  <2> QED BY <1>4, <1>6, <1>8, <2>1, SMTT(30)
<1>14. readStart \in 0 .. readBufferSize /\ readBufferSize \in Nat /\ Compact \in Nat
  BY BuffConnAssumption DEF Inv, TypeOK
<1>15. readStart' \in 0 .. readBufferSize /\ readStart' + Len(unread') <= readBufferSize
  <2>1. CASE Big
    <3>1. readStart' = 0 /\ Len(unread) <= n
      BY <1>4, <2>1 DEF ReadReturns, Inv, BigFits
    <3> QED BY <1>6, <1>13, <1>14, <3>1
  <2>2. CASE ~Big
    <3>1. /\ readStart' = (IF readStart > Compact THEN 0 ELSE readStart) + n
          /\ n <= readBufferSize - readStart
          /\ readStart + Len(unread) <= readBufferSize
      BY <1>2, <1>4, <1>14, <2>2, SMTT(30) DEF ReadReturns, Big, Inv, TypeOK
    <3>2. PICK r \in Nat : r = (IF readStart > Compact THEN 0 ELSE readStart) /\ r <= readStart
      BY <1>14
    <3>3. readStart' = r + n
      BY <3>1, <3>2
    <3>4. PICK u \in Nat, q \in Nat : u = Len(unread) /\ q = readStart /\ r <= q /\ u >= n
      BY <1>6, <1>14, <3>2
    <3>5. n <= readBufferSize - q /\ q + u <= readBufferSize /\ Len(unread') = u - n
      BY <1>13, <3>1, <3>4
    <3>6. r + n \in 0 .. readBufferSize /\ (r + n) + (u - n) <= readBufferSize
      BY <1>14, <3>4, <3>5
    <3> QED BY <3>3, <3>5, <3>6
  <2> QED BY <2>1, <2>2
<1>16. BigFits'
  <2>1. (Stream /\ sent \in Seq(Messages) /\ got \in Seq(Seq(Bytes)))' =>
          (HasSize => Len(got) + 1 \in 1 .. Len(sent) /\ messageSize = sent[Len(got) + 1].size)'
    BY SizeIs, PTL
  <2>2. HasSize' => i + 1 \in 1 .. Len(sent) /\ messageSize' = sent[i + 1].size
    BY <1>1, <1>2, <1>10, <1>12, <2>1
  <2>3. HasSize' => messageSize' \in Nat
    BY <1>1, <2>2, MessageSize
  <2>4. Big' => HasSize' /\ messageSize' > readBufferSize - readStart'
    BY DEF Big
  <2> QED BY <1>13, <1>14, <1>15, <2>3, <2>4 DEF BigFits
<1> QED BY <1>2, <1>3, <1>10, <1>11, <1>12, <1>15, <1>16 DEF Reader

-----------------------------------------------------------------------------
(* The writer                                                              *)

\* What the writer keeps to
Writer ==
    /\ sent \in Seq(Messages) /\ writeBuffer \in Seq(Bytes)
    /\ Len(writeBuffer) <= writeBufferSize

(* The rest of Write puts a message after the others, whether it stays in  *)
(* the buffer, goes out with what is there, or pushes that out.            *)
LEMMA Puts ==
    ASSUME Inv, NEW m \in Messages, Put(m), UNCHANGED <<closed, up, unread, got>>
    PROVE  Stream' /\ Writer' /\ sent' = Append(sent, m)
<1>1. /\ sent \in Seq(Messages) /\ writeBuffer \in Seq(Bytes) /\ Stream
      /\ Len(writeBuffer) <= writeBufferSize /\ Len(writeBuffer) \in Nat /\ Len(sent) \in Nat
      /\ buffering \in BOOLEAN /\ writeBufferSize \in Nat
  BY BuffConnAssumption DEF Inv, TypeOK
<1>2. PICK t \in Seq(Messages) : t = Append(sent, m) /\ Len(t) = Len(sent) + 1
                                 /\ t[Len(sent) + 1] = m
  BY <1>1, AppendProperties, ZenonT(40)
<1>3. PICK n \in Nat : n = Len(sent)
  BY <1>1
<1>4. PICK bs : bs = Marshal(n + 1, m)
  OBVIOUS
<1>5. n + 1 \in 1 .. Len(t) /\ m.size \in Nat
  BY <1>2, <1>3, MessageSize
<1>6. Segment(bs, t, Start(n + 1), Start(n + 2))
  <2>1. Segment(Marshal(n + 1, t[n + 1]), t, Start(n + 1), Start((n + 1) + 1))
    BY <1>5, SegmentMarshal
  <2>2. (n + 1) + 1 = n + 2
    OBVIOUS
  <2> QED BY <1>2, <1>3, <1>4, <2>1, <2>2
<1>7. bs \in Seq(Bytes) /\ Len(bs) = m.size
  <2>1. bs \in Seq(Bytes)
    BY <1>6 DEF Segment
  <2> QED BY <1>4, <1>5, <2>1 DEF Marshal
<1>8. PICK big : big = (m.size > writeBufferSize)
  OBVIOUS
<1>9. PICK wb : wb = writeBuffer
  OBVIOUS
<1>10. PICK out, left :
        /\ out = IF Fits(m.size) THEN <<>> ELSE IF big THEN wb \o bs ELSE wb
        /\ left = IF Fits(m.size) THEN wb \o bs ELSE IF big THEN <<>> ELSE bs
  BY Zenon
<1>11. /\ sent' = t
       /\ tcpWrite(IF buffering THEN out ELSE out \o left)
       /\ writeBuffer' = IF buffering THEN left ELSE <<>>
  BY <1>2, <1>3, <1>4, <1>8, <1>9, <1>10, Zenon DEF Put, FlushWith
<1>12. wb \o bs \in Seq(Bytes) /\ Len(wb \o bs) = Len(wb) + m.size
  <2>1. wb \in Seq(Bytes) /\ bs \in Seq(Bytes)
    BY <1>1, <1>7, <1>9
  <2>2. wb \o bs \in Seq(Bytes) /\ Len(wb \o bs) = Len(wb) + Len(bs)
    BY <2>1, ConcatProperties, Zenon
  <2> QED BY <1>7, <2>2
<1>13. left \in Seq(Bytes) /\ Len(left) <= writeBufferSize
  <2>1. CASE Fits(m.size)
    <3>1. left = wb \o bs /\ Len(wb) + m.size <= writeBufferSize
      BY <1>9, <1>10, <2>1 DEF Fits
    <3> QED BY <1>12, <3>1
  <2>2. CASE ~Fits(m.size) /\ m.size > writeBufferSize
    <3>1. left = <<>>
      BY <1>8, <1>10, <2>2, Zenon
    <3> QED BY <1>1, <3>1
  <2>3. CASE ~Fits(m.size) /\ ~(m.size > writeBufferSize)
    <3>1. left = bs
      BY <1>8, <1>10, <2>3, Zenon
    <3> QED BY <1>1, <1>5, <1>7, <2>3, <3>1
  <2> QED BY <2>1, <2>2, <2>3
<1>14. Writer'
  <2>1. writeBuffer' \in Seq(Bytes) /\ Len(writeBuffer') <= writeBufferSize
    <3>1. CASE buffering
      BY <1>11, <1>13, <3>1
    <3>2. CASE ~buffering
      BY <1>1, <1>11, <3>2
    <3> QED BY <3>1, <3>2
  <2> QED BY <1>11, <2>1 DEF Writer
<1>15. PICK b, c :
        /\ Segment(unread, sent, Start(Len(got) + 1), b) /\ Segment(tcp, sent, b, c)
        /\ up /\ ~closed => Segment(wb, sent, c, Start(n + 1))
  BY <1>1, <1>3, <1>9, Zenon DEF Stream
<1>16. /\ Segment(unread, t, Start(Len(got) + 1), b) /\ Segment(tcp, t, b, c)
       /\ up /\ ~closed => Segment(wb, t, c, Start(n + 1))
  BY <1>1, <1>2, <1>15, SegmentSame
<1>17. CASE ~(up /\ ~closed)
  <2>1. tcp' = tcp
    BY <1>11, <1>17 DEF tcpWrite
  <2>2. /\ Segment(unread', sent', Start(Len(got') + 1), b) /\ Segment(tcp', sent', b, c)
        /\ ~(up' /\ ~closed')
    BY <1>11, <1>16, <1>17, <2>1
  <2>3. Stream'
    BY <2>2 DEF Stream
  <2> QED BY <1>2, <1>11, <1>14, <2>3
<1>18. CASE up /\ ~closed
  <2>1. Segment(wb \o bs, t, c, Start(n + 2))
    BY <1>6, <1>16, <1>18, SegmentJoin
  <2>2. PICK d : Segment(out, t, c, d) /\ Segment(left, t, d, Start(n + 2))
    <3>1. CASE Fits(m.size)
      <4>1. out = <<>> /\ left = wb \o bs
        BY <1>10, <3>1
      <4>2. Segment(out, t, c, c) /\ Segment(left, t, c, Start(n + 2))
        BY <2>1, <4>1, SegmentNone
      <4> QED BY <4>2
    <3>2. CASE ~Fits(m.size) /\ m.size > writeBufferSize
      <4>1. out = wb \o bs /\ left = <<>>
        BY <1>8, <1>10, <3>2, Zenon
      <4>2. Segment(out, t, c, Start(n + 2)) /\ Segment(left, t, Start(n + 2), Start(n + 2))
        BY <2>1, <4>1, SegmentNone
      <4> QED BY <4>2
    <3>3. CASE ~Fits(m.size) /\ ~(m.size > writeBufferSize)
      <4>1. out = wb /\ left = bs
        BY <1>8, <1>10, <3>3, Zenon
      <4>2. Segment(out, t, c, Start(n + 1)) /\ Segment(left, t, Start(n + 1), Start(n + 2))
        BY <1>6, <1>16, <1>18, <4>1
      <4> QED BY <4>2
    <3> QED BY <3>1, <3>2, <3>3
  <2>3. PICK e : /\ Segment(tcp', t, b, e)
                 /\ Segment(writeBuffer', t, e, Start(n + 2))
    <3>1. CASE buffering
      <4>1. tcp' = tcp \o out /\ writeBuffer' = left
        BY <1>11, <1>18, <3>1 DEF tcpWrite
      <4>2. Segment(tcp', t, b, d) /\ Segment(writeBuffer', t, d, Start(n + 2))
        BY <1>16, <2>2, <4>1, SegmentJoin
      <4> QED BY <4>2
    <3>2. CASE ~buffering
      <4>1. tcp' = tcp \o (out \o left) /\ writeBuffer' = <<>>
        BY <1>11, <1>18, <3>2, SMTT(30) DEF tcpWrite
      <4>2. Segment(out \o left, t, c, Start(n + 2))
        BY <2>2, SegmentJoin
      <4>3. Segment(tcp', t, b, Start(n + 2)) /\ Segment(writeBuffer', t, Start(n + 2), Start(n + 2))
        BY <1>16, <4>1, <4>2, SegmentJoin, SegmentNone
      <4> QED BY <4>3
    <3> QED BY <3>1, <3>2
  <2>4. Start(Len(sent') + 1) = Start(n + 2)
    <3>1. Len(sent') + 1 = n + 2
      BY <1>2, <1>3, <1>11
    <3> QED BY <3>1
  <2>5. /\ Segment(unread', sent', Start(Len(got') + 1), b) /\ Segment(tcp', sent', b, e)
        /\ Segment(writeBuffer', sent', e, Start(Len(sent') + 1))
    BY <1>11, <1>16, <2>3, <2>4
  <2>6. Stream'
    BY <2>5 DEF Stream
  <2> QED BY <1>2, <1>11, <1>14, <2>6
<1> QED BY <1>17, <1>18

(* A flush moves the buffer into the stream.                               *)
LEMMA Flushes ==
    ASSUME Inv, tcpWrite(writeBuffer), writeBuffer' = <<>>,
           UNCHANGED <<sent, closed, up, unread, got>>
    PROVE  Stream'
<1>1. PICK b, c :
        /\ Segment(unread, sent, Start(Len(got) + 1), b) /\ Segment(tcp, sent, b, c)
        /\ up /\ ~closed => Segment(writeBuffer, sent, c, Start(Len(sent) + 1))
  BY DEF Inv, Stream
<1>2. CASE up /\ ~closed
  <2>1. tcp' = tcp \o writeBuffer
    BY <1>2 DEF tcpWrite
  <2>2. PICK e : e = Start(Len(sent) + 1) /\ e = Start(Len(sent') + 1)
    OBVIOUS
  <2>3. Segment(tcp', sent, b, e) /\ Segment(writeBuffer', sent, e, e)
    BY <1>1, <1>2, <2>1, <2>2, SegmentJoin, SegmentNone
  <2>4. /\ Segment(unread', sent', Start(Len(got') + 1), b) /\ Segment(tcp', sent', b, e)
        /\ Segment(writeBuffer', sent', e, Start(Len(sent') + 1))
    BY <1>1, <2>2, <2>3
  <2> QED BY <2>4 DEF Stream
<1>3. CASE ~(up /\ ~closed)
  <2>1. tcp' = tcp
    BY <1>3 DEF tcpWrite
  <2>2. /\ Segment(unread', sent', Start(Len(got') + 1), b) /\ Segment(tcp', sent', b, c)
        /\ ~(up' /\ ~closed')
    BY <1>1, <1>3, <2>1
  <2> QED BY <2>2 DEF Stream
<1> QED BY <1>2, <1>3

(* The stream when no byte of it moves.                                    *)
LEMMA Stays ==
    ASSUME Inv, UNCHANGED <<sent, writeBuffer, tcp, unread, got>>,
           (up' => up) /\ (closed => closed')
    PROVE  Stream'
<1>1. PICK b, c :
        /\ Segment(unread, sent, Start(Len(got) + 1), b) /\ Segment(tcp, sent, b, c)
        /\ up /\ ~closed => Segment(writeBuffer, sent, c, Start(Len(sent) + 1))
  BY DEF Inv, Stream
<1>2. /\ Segment(unread', sent', Start(Len(got') + 1), b) /\ Segment(tcp', sent', b, c)
      /\ up' /\ ~closed' => Segment(writeBuffer', sent', c, Start(Len(sent') + 1))
  BY <1>1
<1> QED BY <1>2 DEF Stream

-----------------------------------------------------------------------------
(* The invariant                                                           *)

\* The types of what is neither a buffer nor the stream
Modes ==
    /\ writer \in {<<>>} \cup {<<m>> : m \in Messages} /\ buffering \in BOOLEAN
    /\ ch \in {<<>>, <<NoDelay>>, <<Buffered>>}
    /\ flusher \in {"off", "on", "tick", "done"}
    /\ closed \in BOOLEAN /\ up \in BOOLEAN /\ failed \in BOOLEAN
    /\ writer # <<>> => writer[1].mode \in {NoDelay, Buffered}

(* The parts of the invariant.                                             *)
LEMMA InvIs == Inv <=> Modes /\ Writer /\ Reader /\ Stream
BY DEF Inv, TypeOK, Modes, Writer, Reader

(* A new connection has an empty stream.                                   *)
LEMMA InitInv == Init => Inv
<1> SUFFICES ASSUME Init PROVE Inv
  OBVIOUS
<1>1. Segment(<<>>, sent, Start(1), Start(1))
  BY SegmentNone
<1>2. Start(Len(got) + 1) = Start(1) /\ Start(Len(sent) + 1) = Start(1)
  BY DEF Init
<1>3. Stream
  BY <1>1, <1>2 DEF Init, Stream
<1>4. Writer /\ ~HasSize
  BY BuffConnAssumption DEF Init, Writer, HasSize
<1>5. Reader
  BY <1>4, BuffConnAssumption DEF Init, Reader, InOrder, BigFits, Big
<1>6. Modes
  BY Zenon DEF Init, Modes
<1> QED BY <1>3, <1>4, <1>5, <1>6, InvIs

(* Every step of the writers, the flusher, Close and Read keeps the stream. *)
LEMMA NextInv == Inv /\ [Next]_vars => Inv'
<1> SUFFICES ASSUME Inv, [Next]_vars PROVE Inv'
  OBVIOUS
<1>0. Modes /\ Writer /\ Reader /\ Stream
  BY InvIs
<1>a. (Modes /\ Writer /\ Reader /\ Stream)' => Inv'
  BY InvIs, PTL
<1>b. ASSUME UNCHANGED <<sent, writeBuffer>> PROVE Writer'
  BY <1>0, <1>b DEF Writer
<1>c. ASSUME UNCHANGED <<rvars, sent>>, Stream' PROVE Reader'
  <2>1. sent' \in Seq(Messages)
    BY <1>0, <1>c DEF Writer
  <2> QED BY <1>c, <2>1, Undisturbed
<1>d. ASSUME NEW m \in Messages, Put(m), UNCHANGED <<closed, up, rvars>>
      PROVE  Stream' /\ Writer' /\ Reader'
  <2>1. Stream' /\ Writer' /\ sent' = Append(sent, m)
    BY <1>d, Puts DEF rvars
  <2>2. sent' \in Seq(Messages)
    BY <2>1 DEF Writer
  <2> QED BY <1>d, <2>1, <2>2, Undisturbed
<1>1. ASSUME NEW m \in Messages, Write(m) PROVE Inv'
  <2>1. CASE m.mode = -1
    <3>1. /\ Put(m) /\ UNCHANGED <<closed, up, rvars>>
      BY <1>1, <2>1 DEF Write
    <3>2. Modes'
      BY <1>0, <1>1, <2>1 DEF Write, Modes, rvars
    <3> QED BY <1>a, <1>d, <3>1, <3>2
  <2>2. CASE m.mode # -1
    <3>1. /\ writer' = <<m>> /\ buffering' \in BOOLEAN
          /\ UNCHANGED <<sent, writeBuffer, tcp, ch, flusher, closed, up, rvars>>
      BY <1>1, <2>2 DEF Write
    <3>2. Stream' /\ Reader' /\ Writer'
      BY <1>b, <1>c, <3>1, Stays DEF rvars
    <3>3. Modes'
      <4>1. m.mode \in {NoDelay, Buffered}
        BY <2>2 DEF Messages
      <4>2. writer'[1].mode \in {NoDelay, Buffered}
        BY <3>1, <4>1
      <4> QED BY <1>0, <3>1, <4>2 DEF Modes, rvars
    <3> QED BY <1>a, <3>2, <3>3
  <2> QED BY <2>1, <2>2
<1>2. CASE WriteMode
  <2>1. PICK m \in Messages : m = writer[1] /\ m.mode \in {NoDelay, Buffered}
    BY <1>0, <1>2, SMTT(30) DEF WriteMode, Modes
  <2>2. Put(m) /\ UNCHANGED <<closed, up, rvars>>
    BY <1>2, <2>1 DEF WriteMode
  <2>3. Modes'
    BY <1>0, <1>2, <2>1 DEF WriteMode, Modes, rvars
  <2> QED BY <1>a, <1>d, <2>2, <2>3
<1>3. CASE Close
  <2>1. Stream' /\ Reader' /\ Writer'
    BY <1>3, <1>b, <1>c, Stays DEF Close, rvars
  <2>2. Modes'
    BY <1>0, <1>3 DEF Close, Modes, rvars
  <2> QED BY <1>a, <2>1, <2>2
<1>4. CASE FlusherOp
  <2>1. Stream' /\ Reader' /\ Writer'
    BY <1>4, <1>b, <1>c, Stays DEF FlusherOp, rvars
  <2>2. Modes'
    BY <1>0, <1>4 DEF FlusherOp, Ticker, Modes, rvars
  <2> QED BY <1>a, <2>1, <2>2
<1>5. CASE FlusherTick
  <2>1. Stream' /\ Reader' /\ Writer'
    BY <1>5, <1>b, <1>c, Stays DEF FlusherTick, rvars
  <2>2. Modes'
    BY <1>0, <1>5 DEF FlusherTick, Modes, rvars
  <2> QED BY <1>a, <2>1, <2>2
<1>6. CASE FlusherFlush
  <2>1. Stream'
    BY <1>6, Flushes DEF FlusherFlush, rvars
  <2>2. Reader'
    BY <1>6, <1>c, <2>1 DEF FlusherFlush
  <2>3. Writer'
    BY <1>0, <1>6, BuffConnAssumption DEF FlusherFlush, Writer
  <2>4. Modes'
    BY <1>0, <1>6 DEF FlusherFlush, Modes, rvars
  <2> QED BY <1>a, <2>1, <2>2, <2>3, <2>4
<1>7. CASE ReadMore
  <2>1. Writer' /\ Modes'
    BY <1>0, <1>7 DEF ReadMore, wvars, Writer, Modes
  <2> QED BY <1>a, <1>7, <2>1, Reads
<1>8. CASE ReadReturns
  <2>1. Writer' /\ Modes'
    BY <1>0, <1>8 DEF ReadReturns, wvars, Writer, Modes
  <2> QED BY <1>a, <1>8, <2>1, Returns
<1>9. CASE ReadFails
  <2>1. Stream'
    BY <1>9, Stays DEF ReadFails, wvars
  <2>2. Writer' /\ Modes'
    BY <1>0, <1>9 DEF ReadFails, wvars, Writer, Modes
  <2>3. Reader'
    BY <1>0, <1>9 DEF ReadFails, wvars, Reader, InOrder, BigFits, Big, HasSize, messageSize
  <2> QED BY <1>a, <2>1, <2>2, <2>3
<1>10. CASE Breaks
  <2>1. PICK b : Segment(unread, sent, Start(Len(got) + 1), b)
    BY <1>0 DEF Stream
  <2>2. UNCHANGED <<sent, unread, got, writeBuffer>> /\ tcp' = <<>> /\ up' = FALSE
    BY <1>10 DEF Breaks, wvars, rvars
  <2>3. /\ Segment(unread', sent', Start(Len(got') + 1), b) /\ Segment(tcp', sent', b, b)
        /\ ~up'
    BY <2>1, <2>2, SegmentNone
  <2>4. Stream'
    BY <2>3 DEF Stream
  <2>5. Writer' /\ Modes' /\ Reader'
    BY <1>0, <1>10, <1>b, <1>c, <2>2, <2>4, Zenon DEF Breaks, wvars, rvars, Modes
  <2> QED BY <1>a, <2>4, <2>5
<1>11. CASE UNCHANGED vars
  <2>1. UNCHANGED <<wvars, rvars, up, tcp>>
    BY <1>11 DEF vars
  <2>2. Stream'
    BY <2>1, Stays DEF wvars, rvars
  <2>3. Writer' /\ Modes' /\ Reader'
    BY <1>0, <1>b, <1>c, <2>1, <2>2 DEF wvars, rvars, Modes
  <2> QED BY <1>a, <2>2, <2>3
<1> QED BY <1>1, <1>2, <1>3, <1>4, <1>5, <1>6, <1>7, <1>8, <1>9, <1>10, <1>11 DEF Next

(* Inv is an invariant of the connection.                                  *)
THEOREM BuffConnInv == Spec => []Inv
BY InitInv, NextInv, PTL DEF Spec

(* The buffers of both ends keep their bounds, for any sizes of messages:  *)
(* Write never fills more than writeBuffer has, nor Read more than         *)
(* readBuffer or the buffer made for a big message.                        *)
THEOREM TypeCorrect == Spec => []TypeOK
BY BuffConnInv, PTL DEF Inv

(* Read returns the messages written, whole and in order, however writes,  *)
(* mode changes, flushes and big messages interleave, wherever TCP cuts    *)
(* the stream and whenever the connection is closed or breaks.             *)
THEOREM AlwaysInOrder == Spec => []InOrder
BY BuffConnInv, PTL DEF Inv

-----------------------------------------------------------------------------
(* The connection implements a queue                                       *)

(* While Write has writeMutex, nobody closes the connection and nobody     *)
(* else writes.                                                            *)
Locked ==
    /\ Len(sent) <= MaxMsgs
    /\ writer # <<>> => ~closed /\ Len(sent) < MaxMsgs

\* What the queue sees of a step
Shown == <<sent, got, closed, up, failed>>

(* The rest of Write adds one message.                                     *)
LEMMA PutAdds ==
    ASSUME Inv, NEW m \in Messages, Put(m)
    PROVE  sent' = Append(sent, m) /\ Len(sent') = Len(sent) + 1 /\ Len(sent) \in Nat
<1>1. sent \in Seq(Messages) /\ sent' = Append(sent, m)
  BY DEF Inv, TypeOK, Put
<1> QED BY <1>1, AppendProperties

LEMMA NextLocked == Inv /\ Locked /\ [Next]_vars => Locked'
<1> SUFFICES ASSUME Inv, Locked, [Next]_vars PROVE Locked'
  OBVIOUS
<1>0. Len(sent) \in Nat /\ MaxMsgs \in Nat
  BY BuffConnAssumption DEF Inv, TypeOK
<1>1. ASSUME NEW m \in Messages, Write(m) PROVE Locked'
  <2>1. ~closed /\ closed' = closed /\ Len(sent) < MaxMsgs
    BY <1>1 DEF Write
  <2>2. CASE m.mode = -1
    <3>1. Put(m) /\ writer' = <<>>
      BY <1>1, <2>2 DEF Write
    <3>2. Len(sent') = Len(sent) + 1
      BY <3>1, PutAdds
    <3> QED BY <1>0, <2>1, <3>1, <3>2 DEF Locked
  <2>3. CASE m.mode # -1
    <3>1. sent' = sent
      BY <1>1, <2>3 DEF Write
    <3> QED BY <2>1, <3>1 DEF Locked
  <2> QED BY <2>2, <2>3
<1>2. CASE WriteMode
  <2>1. PICK m \in Messages : m = writer[1]
    BY <1>2, SMTT(30) DEF WriteMode, Inv, TypeOK
  <2>2. Put(m) /\ writer' = <<>> /\ Len(sent) < MaxMsgs
    BY <1>2, <2>1 DEF WriteMode, Locked
  <2>3. Len(sent') = Len(sent) + 1
    BY <2>2, PutAdds
  <2> QED BY <1>0, <2>2, <2>3 DEF Locked
<1>3. CASE Close
  BY <1>3 DEF Close, Locked
<1>4. CASE UNCHANGED <<sent, writer, closed>>
  BY <1>4 DEF Locked
<1>5. CASE FlusherOp \/ FlusherTick \/ FlusherFlush
  BY <1>4, <1>5 DEF FlusherOp, FlusherTick, FlusherFlush
<1>6. CASE ReadMore \/ ReadReturns \/ ReadFails \/ Breaks
  BY <1>4, <1>6 DEF ReadMore, ReadReturns, ReadFails, Breaks, wvars
<1>7. CASE UNCHANGED vars
  BY <1>4, <1>7 DEF vars, wvars
<1> QED BY <1>1, <1>2, <1>3, <1>5, <1>6, <1>7 DEF Next

(* The bytes to arrive after another message.                              *)
LEMMA PacketsAppend ==
    ASSUME NEW s \in Seq(Messages), NEW m \in Messages, NEW t, t = Append(s, m)
    PROVE  [i \in 1 .. Len(t) |-> Marshal(i, t[i])]
             = Append([i \in 1 .. Len(s) |-> Marshal(i, s[i])], Marshal(Len(s) + 1, m))
<1> DEFINE p == [i \in 1 .. Len(s) |-> Marshal(i, s[i])]
           q == [i \in 1 .. Len(t) |-> Marshal(i, t[i])]
           x == Marshal(Len(s) + 1, m)
<1>1. /\ t \in Seq(Messages) /\ Len(t) = Len(s) + 1 /\ t[Len(s) + 1] = m
      /\ \A i \in 1 .. Len(s) : t[i] = s[i]
      /\ Len(s) \in Nat
  BY AppendProperties
<1> DEFINE P == {Marshal(i, t[i]) : i \in 1 .. Len(t)}
<1>3. x \in P /\ \A i \in 1 .. Len(s) : Marshal(i, s[i]) \in P
  <2>1. /\ Len(s) + 1 \in 1 .. Len(t) /\ x = Marshal(Len(s) + 1, t[Len(s) + 1])
        /\ \A i \in 1 .. Len(s) : i \in 1 .. Len(t) /\ Marshal(i, s[i]) = Marshal(i, t[i])
    BY <1>1
  <2> QED BY <2>1, Zenon
<1> HIDE DEF x, P
<1>4. p \in Seq(P) /\ Len(p) = Len(s)
  BY <1>1, <1>3
<1>5. /\ Append(p, x) \in Seq(P) /\ Len(Append(p, x)) = Len(s) + 1
      /\ Append(p, x)[Len(s) + 1] = x
      /\ \A i \in 1 .. Len(s) : Append(p, x)[i] = p[i]
  <2> HIDE DEF p
  <2> QED BY <1>1, <1>3, <1>4, AppendProperties
<1>6. \A i \in 1 .. Len(t) : q[i] = Append(p, x)[i]
  <2> TAKE i \in 1 .. Len(t)
  <2>1. q[i] = Marshal(i, t[i])
    OBVIOUS
  <2>2. CASE i = Len(s) + 1
    <3>1. Marshal(i, t[i]) = x
      BY <1>1, <2>2, Zenon DEF x
    <3> HIDE DEF p, q
    <3> QED BY <1>5, <2>1, <2>2, <3>1
  <2>3. CASE i \in 1 .. Len(s)
    <3>1. p[i] = Marshal(i, s[i]) /\ t[i] = s[i]
      BY <1>1, <2>3
    <3> HIDE DEF p, q
    <3> QED BY <1>5, <2>1, <2>3, <3>1
  <2>4. i = Len(s) + 1 \/ i \in 1 .. Len(s)
    BY <1>1
  <2> QED BY <2>2, <2>3, <2>4
<1>7. q = [i \in 1 .. Len(t) |-> q[i]]
  OBVIOUS
<1>8. Append(p, x) = [i \in 1 .. Len(t) |-> Append(p, x)[i]]
  <2> HIDE DEF p
  <2>1. Append(p, x) \in [1 .. Len(t) -> P]
    BY <1>1, <1>5, LenProperties, Zenon
  <2> QED BY <2>1, Zenon
<1>9. q = Append(p, x)
  <2> HIDE DEF p, q
  <2> QED BY <1>6, <1>7, <1>8, Zenon
<1> QED BY <1>9 DEF x

(* Write gives the queue a message.                                        *)
LEMMA PutSends ==
    ASSUME Inv, NEW m \in Messages, Put(m), ~closed, Len(sent) < MaxMsgs,
           UNCHANGED <<got, closed, up, failed>>
    PROVE  Chan!Send
<1>1. sent \in Seq(Messages) /\ sent' = Append(sent, m) /\ Len(sent) \in Nat /\ MaxMsgs \in Nat
  BY PutAdds, BuffConnAssumption DEF Inv, TypeOK
<1>2. Packets' = Append(Packets, Marshal(Len(sent) + 1, m))
  <2>1. [i \in 1 .. Len(sent') |-> Marshal(i, sent'[i])]
          = Append([i \in 1 .. Len(sent) |-> Marshal(i, sent[i])], Marshal(Len(sent) + 1, m))
    BY <1>1, PacketsAppend
  <2> QED BY <2>1, Zenon DEF Packets, Marshal
<1>3. Marshal(Len(sent) + 1, m) \in Packet
  <2>1. Len(sent) + 1 \in 1 .. MaxMsgs
    BY <1>1
  <2> QED BY <2>1 DEF Packet
<1> QED BY <1>2, <1>3, Zenon DEF Chan!Send

(* Read takes the next message from the queue.                             *)
LEMMA ReturnReceives ==
    ASSUME Inv, Inv', ReadReturns
    PROVE  Chan!Receive
<1>1. ~failed /\ UNCHANGED <<sent, closed, up, failed>>
  BY DEF ReadReturns, wvars
<1>2. PICK y : got' = Append(got, y)
  BY DEF ReadReturns
<1>3. PICK n \in Nat : n = Len(got)
  BY DEF Inv
<1>4. /\ got \in Seq(Seq(Bytes)) /\ got' \in Seq(Seq(Bytes)) /\ Len(got') <= Len(sent)
      /\ Len(sent) \in Nat
      /\ \A i \in DOMAIN got' : got'[i] = Marshal(i, sent[i])
  BY <1>1 DEF Inv, InOrder, TypeOK, Marshal
<1>5. Len(got') = n + 1 /\ got'[n + 1] = y
  BY <1>2, <1>3, <1>4
<1>6. n + 1 \in 1 .. Len(sent) /\ n + 1 \in DOMAIN got'
  BY <1>4, <1>5
<1>7. y = Packets[n + 1]
  BY <1>4, <1>5, <1>6 DEF Packets
<1>8. Len(Packets) = Len(sent)
  BY <1>4 DEF Packets
<1>9. Len(got) < Len(Packets)
  BY <1>3, <1>4, <1>6, <1>8
<1>10. Packets' = Packets
  BY <1>1, Zenon DEF Packets, Marshal
<1> QED BY <1>1, <1>2, <1>3, <1>7, <1>9, <1>10, Zenon DEF Chan!Receive

LEMMA Unseen == UNCHANGED Shown => UNCHANGED Chan!vars
<1> SUFFICES ASSUME UNCHANGED Shown PROVE UNCHANGED Chan!vars
  OBVIOUS
<1>1. Packets' = Packets
  BY Zenon DEF Shown, Packets, Marshal
<1> QED BY <1>1 DEF Shown, Chan!vars

(* Every step of the connection is one of the queue, or is not seen.       *)
LEMMA NextChannel ==
    ASSUME Inv, Inv', Locked, [Next]_vars
    PROVE  [Chan!Next]_(Chan!vars)
<1>a. ASSUME UNCHANGED Shown PROVE [Chan!Next]_(Chan!vars)
  BY <1>a, Unseen
<1>b. ASSUME UNCHANGED sent PROVE Packets' = Packets
  BY <1>b, Zenon DEF Packets, Marshal
<1>1. ASSUME NEW m \in Messages, Write(m) PROVE [Chan!Next]_(Chan!vars)
  <2>1. /\ ~closed /\ Len(sent) < MaxMsgs /\ UNCHANGED <<got, closed, up, failed>>
    BY <1>1 DEF Write, rvars
  <2>2. CASE m.mode = -1
    <3>1. Put(m)
      BY <1>1, <2>2 DEF Write
    <3>2. Chan!Send
      BY <2>1, <3>1, PutSends
    <3> QED BY <3>2 DEF Chan!Next
  <2>3. CASE m.mode # -1
    <3>1. sent' = sent
      BY <1>1, <2>3 DEF Write
    <3> QED BY <1>a, <2>1, <3>1 DEF Shown
  <2> QED BY <2>2, <2>3
<1>2. CASE WriteMode
  <2>1. PICK m \in Messages : m = writer[1]
    BY <1>2, SMTT(30) DEF WriteMode, Inv, TypeOK
  <2>2. /\ Put(m) /\ ~closed /\ Len(sent) < MaxMsgs
        /\ UNCHANGED <<got, closed, up, failed>>
    BY <1>2, <2>1 DEF WriteMode, Locked, rvars
  <2>3. Chan!Send
    BY <2>2, PutSends
  <2> QED BY <2>3 DEF Chan!Next
<1>3. CASE Close
  <2>1. ~closed /\ closed' = TRUE /\ UNCHANGED <<sent, got, up, failed>>
    BY <1>3 DEF Close, rvars
  <2>2. Chan!Close
    BY <1>b, <2>1 DEF Chan!Close
  <2> QED BY <2>2 DEF Chan!Next
<1>4. CASE ReadReturns
  BY <1>4, ReturnReceives DEF Chan!Next
<1>5. CASE ReadFails
  <2>1. ~failed /\ failed' = TRUE /\ ~(~closed /\ up) /\ UNCHANGED <<sent, got, closed, up>>
    BY <1>5 DEF ReadFails, wvars
  <2>2. Chan!End
    BY <1>b, <2>1 DEF Chan!End
  <2> QED BY <2>2 DEF Chan!Next
<1>6. CASE Breaks
  <2>1. up /\ up' = FALSE /\ UNCHANGED <<sent, got, closed, failed>>
    BY <1>6 DEF Breaks, wvars, rvars
  <2>2. Chan!Break
    BY <1>b, <2>1 DEF Chan!Break
  <2> QED BY <2>2 DEF Chan!Next
<1>7. CASE FlusherOp \/ FlusherTick \/ FlusherFlush
  BY <1>a, <1>7 DEF FlusherOp, FlusherTick, FlusherFlush, Shown, rvars
<1>8. CASE ReadMore \/ UNCHANGED vars
  BY <1>a, <1>8 DEF ReadMore, vars, wvars, rvars, Shown
<1> QED BY <1>1, <1>2, <1>3, <1>4, <1>5, <1>6, <1>7, <1>8 DEF Next

LEMMA InitChannel == Init => Chan!Init /\ Locked
<1> SUFFICES ASSUME Init PROVE Chan!Init /\ Locked
  OBVIOUS
<1>1. /\ sent = <<>> /\ got = <<>> /\ closed = FALSE /\ up = TRUE /\ failed = FALSE
      /\ writer = <<>>
  BY DEF Init
<1>2. Packets = <<>>
  BY <1>1 DEF Packets
<1>3. Chan!Init
  BY <1>1, <1>2 DEF Chan!Init
<1> QED BY <1>1, <1>3, BuffConnAssumption DEF Locked

(* One direction of a buffered connection is a queue: whatever the sizes   *)
(* of messages and buffers, Read takes out what Write has put in, each     *)
(* message once and in turn, and ends with an error only after Close or a  *)
(* failure of the network.                                                 *)
THEOREM ConnectionIsChannel == Spec => ImplementsChannel
<1>1. Inv /\ Inv' /\ Locked /\ [Next]_vars => [Chan!Next]_(Chan!vars)
  BY NextChannel
<1>2. Spec => []Inv
  BY BuffConnInv
<1> QED BY <1>1, <1>2, InitChannel, NextLocked, PTL DEF Spec, ImplementsChannel, Chan!Spec
=============================================================================
