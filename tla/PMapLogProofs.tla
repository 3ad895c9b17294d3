--------------------------- MODULE PMapLogProofs ---------------------------
(***************************************************************************)
(* What is proved of the file of a PMap: the index agrees with it through  *)
(* calls, kills and re-openings, the PMap implements LWWMap, and the bytes *)
(* of the file are accounted for.                                          *)
(***************************************************************************)
EXTENDS PMapProofs

-----------------------------------------------------------------------------
(* The log                                                                 *)

\* The pairs among the first n records of s that none of them follows up
Alive(s, n) ==
    {i \in 1..n : ~s[i].tomb /\ \A j \in (i + 1)..n : s[j].key # s[i].key}

\* Each tombstone among the first n records of s deletes a pair
WellFormed(s, n) ==
    \A m \in 1..n : s[m].tomb => \E i \in Alive(s, m - 1) : s[i].key = s[m].key

(* One more record is replayed.                                            *)
LEMMA AliveNext ==
    ASSUME NEW s, NEW m \in Nat
    PROVE  Alive(s, m + 1) = {i \in Alive(s, m) : s[i].key # s[m + 1].key}
                             \cup (IF s[m + 1].tomb THEN {} ELSE {m + 1})
<1> DEFINE R == {i \in Alive(s, m) : s[i].key # s[m + 1].key}
                \cup (IF s[m + 1].tomb THEN {} ELSE {m + 1})
<1>1. \A i \in 1..m : (i + 1)..(m + 1) = ((i + 1)..m) \cup {m + 1}
  OBVIOUS
<1>2. 1..(m + 1) = (1..m) \cup {m + 1} /\ ((m + 1) + 1)..(m + 1) = {} /\ m + 1 \notin 1..m
  BY SMTT(40)
<1>3. ASSUME NEW i \in 1..m PROVE i \in Alive(s, m + 1) <=> i \in R
  <2>1. i \in Alive(s, m + 1) <=> ~s[i].tomb /\ \A j \in ((i + 1)..m) \cup {m + 1} : s[j].key # s[i].key
    BY <1>1, <1>2, Zenon DEF Alive
  <2>2. i # m + 1
    BY <1>2, Zenon
  <2>3. i \in R <=> i \in Alive(s, m) /\ s[i].key # s[m + 1].key
    BY <2>2, Zenon
  <2> QED BY <2>1, <2>3, Zenon DEF Alive
<1>4. m + 1 \in Alive(s, m + 1) <=> ~s[m + 1].tomb
  BY <1>2, Zenon DEF Alive
<1>5. m + 1 \in R <=> ~s[m + 1].tomb
  BY <1>2, Zenon DEF Alive
<1>6. Alive(s, m + 1) \subseteq (1..m) \cup {m + 1} /\ R \subseteq (1..m) \cup {m + 1}
  BY <1>2, Zenon DEF Alive
<1> HIDE DEF R
<1>7. \A x : x \in Alive(s, m + 1) <=> x \in R
  BY <1>3, <1>4, <1>5, <1>6, Zenon
<1>8. Alive(s, m + 1) = R
  BY <1>7, Zenon
<1> QED BY <1>8, Zenon DEF R

(* No record, no pair.                                                     *)
LEMMA AliveNone ==
    ASSUME NEW s
    PROVE  Alive(s, 0) = {} /\ WellFormed(s, 0)
<1>1. 1..0 = {}
  OBVIOUS
<1> QED BY <1>1, Zenon DEF Alive, WellFormed

(* A key has one pair.                                                     *)
LEMMA AliveOnce ==
    ASSUME NEW s, NEW n \in Nat, NEW x \in Alive(s, n), NEW y \in Alive(s, n), s[x].key = s[y].key
    PROVE  x = y
BY DEF Alive

(* What the records n are worth does not depend on those behind them.      *)
LEMMA AliveSame ==
    ASSUME NEW s, NEW t, NEW n \in Nat, \A i \in 1..n : s[i] = t[i]
    PROVE  Alive(s, n) = Alive(t, n)
<1>1. ASSUME NEW i \in 1..n
      PROVE  (\A j \in (i + 1)..n : s[j].key # s[i].key) <=> (\A j \in (i + 1)..n : t[j].key # t[i].key)
  <2>1. \A j \in (i + 1)..n : j \in 1..n
    OBVIOUS
  <2> QED BY <2>1, Zenon
<1> QED BY <1>1, Zenon DEF Alive

(* The same for the form of the log.                                       *)
LEMMA WellFormedSame ==
    ASSUME NEW s, NEW t, NEW n \in Nat, \A i \in 1..n : s[i] = t[i], WellFormed(s, n)
    PROVE  WellFormed(t, n)
<1> SUFFICES ASSUME NEW m \in 1..n, t[m].tomb
             PROVE  \E i \in Alive(t, m - 1) : t[i].key = t[m].key
  BY Zenon DEF WellFormed
<1>1. m - 1 \in Nat /\ \A i \in 1..(m - 1) : i \in 1..n
  BY SMTT(40)
<1>2. Alive(t, m - 1) = Alive(s, m - 1)
  BY <1>1, AliveSame, Zenon
<1>3. PICK i \in Alive(s, m - 1) : s[i].key = s[m].key
  BY Zenon DEF WellFormed
<1>4. i \in 1..n
  BY <1>1, <1>3, Zenon DEF Alive
<1> QED BY <1>2, <1>3, <1>4, Zenon

(* The log grows by a pair, or by the tombstone of a pair.                 *)
LEMMA WellFormedNext ==
    ASSUME NEW s, NEW n \in Nat, WellFormed(s, n),
           s[n + 1].tomb => \E i \in Alive(s, n) : s[i].key = s[n + 1].key
    PROVE  WellFormed(s, n + 1)
<1> SUFFICES ASSUME NEW m \in 1..(n + 1), s[m].tomb
             PROVE  \E i \in Alive(s, m - 1) : s[i].key = s[m].key
  BY Zenon DEF WellFormed
<1>1. CASE m \in 1..n
  BY <1>1, Zenon DEF WellFormed
<1>2. CASE m = n + 1
  <2>1. m - 1 = n
    BY <1>2
  <2> QED BY <1>2, <2>1, Zenon
<1> QED BY <1>1, <1>2

(* So does a shorter one.                                                  *)
LEMMA WellFormedPrefix ==
    ASSUME NEW s, NEW n \in Nat, NEW m \in 0..n, WellFormed(s, n)
    PROVE  WellFormed(s, m)
<1>1. \A i \in 1..m : i \in 1..n
  OBVIOUS
<1> QED BY <1>1, Zenon DEF WellFormed

-----------------------------------------------------------------------------
(* The replay of the log                                                   *)

(* What Open makes of the size and the count of the hashmap is a function  *)
(* of the records: when it could not index one of them, it will stop there *)
(* again.  g is <<size, numStoredKeys>>.                                   *)
Tight(g) == ~(g[2] < NumKeysToExpand(g[1]))
Full(g)  == Tight(g) /\ ~(2 * g[1] <= SizeLimit)

Grown(s, m, g) == IF Tight(g) THEN <<2 * g[1], Cardinality(Alive(s, m))>> ELSE g

\* After record m + 1
After(s, m, g) ==
    LET w == Grown(s, m, g)
    IN  IF \E i \in Alive(s, m) : s[i].key = s[m + 1].key THEN w ELSE <<w[1], w[2] + 1>>

\* f tells size and count after each of the first p records of s
Replays(s, f, p) ==
    /\ f[0] = <<InitSize, 0>>
    /\ \A m \in 0..(p - 1) : ~Full(f[m]) /\ f[m + 1] = After(s, m, f[m])

(* The replay of the first p records does not depend on those behind them. *)
LEMMA ReplaysSame ==
    ASSUME NEW s, NEW t, NEW f, NEW p \in Nat, \A i \in 1..p : s[i] = t[i], Replays(s, f, p)
    PROVE  Replays(t, f, p)
<1>1. ASSUME NEW m \in 0..(p - 1) PROVE f[m + 1] = After(t, m, f[m])
  <2>1. m \in Nat /\ m + 1 \in 1..p /\ \A i \in 1..m : i \in 1..p
    OBVIOUS
  <2>2. Alive(s, m) = Alive(t, m)
    BY <2>1, AliveSame, Zenon
  <2>3. \A i \in Alive(s, m) : s[i] = t[i]
    BY <2>1, Zenon DEF Alive
  <2>4. Grown(s, m, f[m]) = Grown(t, m, f[m])
    BY <2>2, Zenon DEF Grown
  <2>5. (\E i \in Alive(s, m) : s[i].key = s[m + 1].key) <=> (\E i \in Alive(t, m) : t[i].key = t[m + 1].key)
    BY <2>1, <2>2, <2>3, Zenon
  <2>6. After(s, m, f[m]) = After(t, m, f[m])
    BY <2>4, <2>5, Zenon DEF After
  <2> QED BY <2>6, Zenon DEF Replays
<1> QED BY <1>1, Zenon DEF Replays

(* The replay goes on.                                                     *)
LEMMA ReplaysNext ==
    ASSUME NEW s, NEW f, NEW p \in Nat, Replays(s, f, p), ~Full(f[p])
    PROVE  \E g : Replays(s, g, p + 1) /\ g[p + 1] = After(s, p, f[p])
<1>1. PICK a : a = After(s, p, f[p])
  BY Zenon
<1>2. PICK g : g = [m \in 0..(p + 1) |-> IF m = p + 1 THEN a ELSE f[m]]
  BY Zenon
<1>3. g[p + 1] = a /\ g[0] = f[0] /\ \A m \in 0..p : g[m] = f[m]
  BY <1>2
<1>4. ASSUME NEW m \in 0..((p + 1) - 1) PROVE ~Full(g[m]) /\ g[m + 1] = After(s, m, g[m])
  <2>1. CASE m = p
    <3>1. g[m] = f[p] /\ g[m + 1] = a
      BY <1>3, <2>1
    <3> QED BY <1>1, <2>1, <3>1, Zenon
  <2>2. CASE m # p
    <3>1. m \in 0..(p - 1) /\ g[m] = f[m] /\ g[m + 1] = f[m + 1]
      BY <1>3, <2>2
    <3> QED BY <3>1, Zenon DEF Replays
  <2> QED BY <2>1, <2>2, Zenon
<1>5. g[0] = <<InitSize, 0>>
  BY <1>3, Zenon DEF Replays
<1>6. Replays(s, g, p + 1)
  BY <1>4, <1>5, Zenon DEF Replays
<1> QED BY <1>1, <1>3, <1>6, Zenon

(* The replay of no record.                                                *)
LEMMA ReplaysNone ==
    ASSUME NEW s
    PROVE  \E f : Replays(s, f, 0)
<1>1. PICK f : f = [m \in {0} |-> <<InitSize, 0>>]
  BY Zenon
<1>2. f[0] = <<InitSize, 0>> /\ 0..(0 - 1) = {}
  BY <1>1
<1>3. Replays(s, f, 0)
  BY <1>2, Zenon DEF Replays
<1> QED BY <1>3, Zenon

(* Distinct buckets lead to distinct records.                              *)
LEMMA CountImage ==
    ASSUME NEW S, IsFiniteSet(S), NEW g,
           \A x, y \in S : g[x].idx = g[y].idx => x = y
    PROVE  Cardinality({g[x].idx : x \in S}) = Cardinality(S)
<1> DEFINE T == {g[x].idx : x \in S}
           f == [x \in S |-> g[x].idx]
<1>1. f \in [S -> T] /\ \A x \in S : f[x] = g[x].idx
  BY Zenon
<1>2. \A t \in T : \E x \in S : g[x].idx = t
  BY Zenon
<1> HIDE DEF T, f
<1>3. f \in Surjection(S, T)
  BY <1>1, <1>2, Zenon DEF Surjection
<1>4. f \in Injection(S, T)
  BY <1>1, Zenon DEF Injection, IsInjective
<1>5. Cardinality(T) = Cardinality(S)
  BY <1>3, <1>4, FS_Surjection, Zenon
<1> QED BY <1>5, Zenon DEF T

(* expand counts the records indexed.                                      *)
LEMMA ExpandCounts ==
    ASSUME Inv, ExpandDone
    PROVE  size' = 2 * size /\ numStoredKeys' = Cardinality(Index)
<1>1. /\ pc = "expand" /\ size \in Nat /\ newMem \in [0..(2 * size - 1) -> Bucket]
      /\ size' = 2 * size /\ numStoredKeys' = newStored
  BY Zenon DEF Inv, TypeOK, ExpandDone
<1>2. newStored = Cardinality(NumBuckets(newMem))
  BY <1>1, Zenon DEF Inv, ProbingEnds
<1>3. IsFiniteSet(NumBuckets(newMem))
  <2>1. NumBuckets(newMem) \in SUBSET (0..(2 * size - 1)) /\ 2 * size \in Nat
    BY <1>1 DEF NumBuckets
  <2> QED BY <2>1, BucketsFinite, Zenon
<1>4. \A i \in NumBuckets(newMem) : i \in DOMAIN newMem /\ Live(newMem, i)
  BY <1>1, Zenon DEF Inv, ExpandCopies, NumBuckets, Live
<1>5. \A x, y \in NumBuckets(newMem) : newMem[x].idx = newMem[y].idx => x = y
  BY <1>1, <1>4, Zenon DEF Inv, IndexSound, OneBucketPerKey
<1>6. Index = {newMem[i].idx : i \in NumBuckets(newMem)}
  BY IndexExpanded, Zenon
<1>7. Cardinality({newMem[i].idx : i \in NumBuckets(newMem)}) = Cardinality(NumBuckets(newMem))
  BY <1>3, <1>5, CountImage, Zenon
<1> QED BY <1>1, <1>2, <1>6, <1>7, Zenon

-----------------------------------------------------------------------------
(* The index and the log                                                   *)

\* How many records the index stands for
Upto == IF Serving /\ pc # "early" THEN Len(store) ELSE restored

\* Open has replayed restored records, as f says
Follows(f) ==
    /\ Index = Alive(store, restored)
    /\ pc \in {"expand", "run"} => Tight(f[restored]) /\ ~Full(f[restored])
    /\ pc # "panic" => <<size, numStoredKeys>> =
           IF pc = "run" THEN Grown(store, restored, f[restored]) ELSE f[restored]

(* Open has indexed every record so far.                                   *)
Healthy ==
    /\ WellFormed(store, Len(store))
    /\ Serving => \/ Index = Alive(store, Upto)
                  \/ "del" \in refused /\ Index \subseteq Alive(store, Upto)
    /\ ~Serving => \E f : Replays(store, f, restored) /\ Follows(f)

\* The hashmap was full after p records and nothing was indexed since
Stuck(p) ==
    /\ ~HasRoom /\ ~CanExpand /\ pc \in {"idle", "restore", "panic", "early"}
    /\ p <= Upto /\ Index \subseteq Alive(store, p)

\* Open is on its way to that point again
Retraces(f, p) ==
    /\ pc # "idle" /\ op \in {NoOp, Restore} /\ restored <= p
    /\ Follows(f)

(* Open could not index record p + 1, nor will it the next time.           *)
Wedged ==
    \E p \in 0..Len(store) : \E f :
        /\ WellFormed(store, p) /\ Replays(store, f, p) /\ Full(f[p])
        /\ Stuck(p) \/ Retraces(f, p)

Logged == IF "restore" \in refused THEN Wedged ELSE Healthy

(* The facts about types that the steps below need.                        *)
LEMMA LogTypes ==
    ASSUME Inv
    PROVE  /\ store \in Seq(Record) /\ Len(store) \in Nat /\ restored \in 0..Len(store)
           /\ size \in Nat /\ numStoredKeys \in Nat
           /\ op = NoOp <=> pc \notin {"expand", "run"}
           /\ NoOp # Restore /\ NoOp.kind = "none" /\ Restore.kind = "restore"
           /\ \A o \in SetOp \cup CASOp : o.kind # "restore" /\ o # Restore /\ o # NoOp
           /\ \A i \in 1..Len(store) : store[i] \in Record /\ store[i].key \in Key
<1>1. /\ store \in Seq(Record) /\ restored \in 0..Len(store) /\ size \in Nat /\ numStoredKeys \in Nat
      /\ op = NoOp <=> pc \notin {"expand", "run"}
  BY Zenon DEF Inv, TypeOK
<1>2. \A i \in 1..Len(store) : store[i] \in Record /\ store[i].key \in Key
  <2>1. \A i \in 1..Len(store) : store[i] \in Record
    BY <1>1
  <2> QED BY <2>1, Zenon DEF Record
<1>3. NoOp # Restore /\ NoOp.kind = "none" /\ Restore.kind = "restore"
  BY Zenon DEF NoOp, Restore
<1>4. \A o \in SetOp \cup CASOp : o.kind # "restore" /\ o # Restore /\ o # NoOp
  BY DEF NoOp, Restore, SetOp, CASOp
<1> QED BY <1>1, <1>2, <1>3, <1>4

(* A record of Open is indexed.                                            *)
LEMMA FollowsNext ==
    ASSUME Inv, NEW f, Follows(f), Restores, WellFormed(store, restored + 1)
    PROVE  /\ ~Full(f[restored])
           /\ \A g : g[restored + 1] = After(store, restored, f[restored]) => Follows(g)'
<1> DEFINE n == restored
           r == store[restored + 1]
           k == r.key
<1>1. n \in Nat /\ n + 1 \in 1..Len(store) /\ k \in Key /\ size \in Nat /\ numStoredKeys \in Nat
  <2>1. n \in 0..Len(store) /\ Len(store) \in Nat /\ n < Len(store)
    BY LogTypes, Zenon DEF Restores
  <2> QED BY <2>1, LogTypes
<1>2. Index = Alive(store, n) /\ IndexFacts
  BY IndexIs, Zenon DEF Follows
<1>3. IsFound(k) <=> \E i \in Alive(store, n) : store[i].key = k
  BY <1>1, <1>2, Zenon DEF IndexFacts
<1>4. ~Full(f[n]) /\ <<size, numStoredKeys>> = Grown(store, n, f[n])
  <2>1. CASE pc = "restore" /\ HasRoom
    <3>1. <<size, numStoredKeys>> = f[n]
      BY <2>1, Zenon DEF Follows
    <3>2. f[n][1] = size /\ f[n][2] = numStoredKeys
      BY <3>1
    <3>3. ~Tight(f[n])
      BY <2>1, <3>2, Zenon DEF HasRoom, Tight
    <3> QED BY <3>1, <3>3, Zenon DEF Full, Grown
  <2>2. CASE pc = "run"
    BY <2>2, Zenon DEF Follows
  <2> QED BY <2>1, <2>2, Zenon DEF Restores
<1>5. RestoreEffect
  BY Zenon DEF Restores
<1>6. Index' = Alive(store, n + 1)
  <2>1. r.tomb => IsFound(k)
    <3>1. (n + 1) - 1 = n /\ n + 1 \in 1..(n + 1)
      BY <1>1
    <3>2. r.tomb => \E i \in Alive(store, n) : store[i].key = k
      BY <3>1, Zenon DEF WellFormed
    <3> QED BY <1>3, <3>2, Zenon
  <2>2. Index' = Others(k) \cup (IF r.tomb THEN {} ELSE {n + 1})
    BY <1>5, <2>1, Zenon DEF RestoreEffect
  <2>3. Others(k) = {i \in Alive(store, n) : store[i].key # k}
    BY <1>2, Zenon DEF Others
  <2> QED BY <1>1, <2>2, <2>3, AliveNext, Zenon
<1>7. <<size', numStoredKeys'>> = After(store, n, f[n])
  <2>1. size' = size /\ numStoredKeys' = IF IsFound(k) THEN numStoredKeys ELSE numStoredKeys + 1
    BY <1>5, Zenon DEF RestoreEffect
  <2>2. PICK w : w = Grown(store, n, f[n])
    BY Zenon
  <2>3. After(store, n, f[n]) = IF IsFound(k) THEN w ELSE <<w[1], w[2] + 1>>
    BY <1>3, <2>2, Zenon DEF After
  <2>4. w = <<size, numStoredKeys>>
    BY <1>4, <2>2, Zenon
  <2> QED BY <2>1, <2>3, <2>4, Zenon
<1>8. store' = store /\ restored' = n + 1 /\ pc' = "restore"
  BY <1>5, Zenon DEF RestoreEffect
<1>9. ASSUME NEW g, g[n + 1] = After(store, n, f[n]) PROVE Follows(g)'
  <2>1. <<size', numStoredKeys'>> = g[restored'] /\ Index' = Alive(store', restored')
    BY <1>6, <1>7, <1>8, <1>9, Zenon
  <2> QED BY <1>8, <2>1, Zenon DEF Follows
<1> QED BY <1>4, <1>9, Zenon

(* Open waits for expand.                                                  *)
LEMMA FollowsExpand ==
    ASSUME Inv, NEW f, Follows(f), Begins(Restore) \/ Copies \/ Grew
    PROVE  Follows(f)'
<1>1. Index' = Index /\ store' = store /\ restored' = restored
  BY Zenon DEF Begins, Copies, Grew, Rests
<1>2. Index' = Alive(store', restored')
  BY <1>1, Zenon DEF Follows
<1>3. CASE Begins(Restore)
  <2>1. /\ pc = "restore" /\ pc' = "expand" /\ size' = size /\ numStoredKeys' = numStoredKeys
        /\ ~HasRoom /\ CanExpand
    BY <1>3, LogTypes, Zenon DEF Begins
  <2>2. <<size, numStoredKeys>> = f[restored]
    BY <2>1, Zenon DEF Follows
  <2>3. f[restored][1] = size /\ f[restored][2] = numStoredKeys
    BY <2>2
  <2>4. Tight(f[restored]) /\ ~Full(f[restored])
    BY <2>1, <2>3, Zenon DEF HasRoom, CanExpand, Tight, Full
  <2> QED BY <1>1, <1>2, <2>1, <2>2, <2>4, Zenon DEF Follows
<1>4. CASE Copies
  <2>1. pc = "expand" /\ pc' = "expand" /\ size' = size /\ numStoredKeys' = numStoredKeys
    BY <1>4, Zenon DEF Copies
  <2> QED BY <1>1, <1>2, <2>1, Zenon DEF Follows
<1>5. CASE Grew
  <2>1. pc = "expand" /\ pc' = "run" /\ size' = 2 * size /\ numStoredKeys' = Cardinality(Index)
    BY <1>5, ExpandCounts, Zenon DEF Grew, ExpandDone
  <2>2. <<size, numStoredKeys>> = f[restored] /\ Tight(f[restored]) /\ ~Full(f[restored])
    BY <2>1, Zenon DEF Follows
  <2>3. f[restored][1] = size
    BY <2>2, SMTT(40)
  <2>4. Grown(store, restored, f[restored]) = <<2 * size, Cardinality(Index)>>
    BY <2>2, <2>3, Zenon DEF Grown, Follows
  <2> QED BY <1>1, <1>2, <2>1, <2>2, <2>4, Zenon DEF Follows
<1> QED BY <1>3, <1>4, <1>5, Zenon

(* Between the steps of Open.                                              *)
LEMMA FollowsKept ==
    ASSUME Inv, NEW f, Follows(f), UNCHANGED <<Index, store, restored, size, numStoredKeys>>,
           pc' \notin {"expand", "run"}, pc \notin {"expand", "run", "panic"}
    PROVE  Follows(f)'
BY Zenon DEF Follows

(* A panic of restorePair keeps what Open has indexed.                     *)
LEMMA FollowsBreak ==
    ASSUME NEW f, Follows(f), Breaks
    PROVE  Follows(f)'
BY Zenon DEF Follows, Breaks, Rests

(* Open begins with an empty hashmap.                                      *)
LEMMA FollowsFresh ==
    ASSUME Leaves, NEW f, f[0] = <<InitSize, 0>>
    PROVE  Follows(f)'
<1>1. /\ Index' = {} /\ restored' = 0 /\ size' = InitSize /\ numStoredKeys' = 0 /\ pc' = "closed"
  BY Zenon DEF Leaves, Leave
<1>2. Index' = Alive(store', restored')
  BY <1>1, AliveNone, Zenon
<1> QED BY <1>1, <1>2, Zenon DEF Follows

(* A call or a Del that is over leaves the log and the index in agreement. *)
LEMMA HealthyServes ==
    ASSUME Inv, Healthy, Serving, pc # "early", pc' = "idle",
           \/ UNCHANGED <<store, Index>> /\ refused \subseteq refused'
           \/ \E o \in SetOp \cup CASOp : Writes(o)
           \/ \E o \in DelOp : DelEffect(o)
    PROVE  Healthy'
<1>0. Serving' /\ pc' # "early" /\ Upto = Len(store) /\ Upto' = Len(store')
  BY Zenon DEF Serving, Upto
<1>1. /\ WellFormed(store, Len(store))
      /\ \/ Index = Alive(store, Len(store))
         \/ "del" \in refused /\ Index \subseteq Alive(store, Len(store))
  BY <1>0, Zenon DEF Healthy
<1>2. Len(store) \in Nat /\ IndexFacts
  BY LogTypes, IndexIs, Zenon
<1>3. ASSUME UNCHANGED <<store, Index>>, refused \subseteq refused' PROVE Healthy'
  BY <1>0, <1>1, <1>3, Zenon DEF Healthy
<1>4. ASSUME NEW r \in Record, store' = Append(store, r),
             r.tomb => \E i \in Index : store[i].key = r.key,
             Index' = Others(r.key) \cup (IF r.tomb THEN {} ELSE {Len(store) + 1}),
             refused' = refused
      PROVE  Healthy'
  <2>0. PICK n \in Nat : n = Len(store)
    BY <1>2, Zenon
  <2>1. PICK s, t : n = Len(store) /\ s = store /\ t = store'
    BY <2>0, Zenon
  <2>2. t[n + 1] = r /\ Len(t) = n + 1 /\ \A i \in 1..n : s[i] = t[i]
    BY <1>4, <2>1, AppendKeeps, Zenon
  <2>3. Alive(s, n) = Alive(t, n) /\ WellFormed(t, n)
    BY <1>1, <2>1, <2>2, AliveSame, WellFormedSame, Zenon
  <2>4. Index \subseteq Alive(t, n) /\ \A i \in Alive(t, n) : i \in 1..n
    BY <1>1, <2>1, <2>3, Zenon DEF Alive
  <2>5. WellFormed(t, n + 1)
    <3>1. t[n + 1].tomb => \E i \in Alive(t, n) : t[i].key = t[n + 1].key
      BY <1>4, <2>1, <2>2, <2>4, ZenonT(40)
    <3> QED BY <2>3, <3>1, WellFormedNext, Zenon
  <2>6. Alive(t, n + 1) = {i \in Alive(t, n) : t[i].key # r.key} \cup (IF r.tomb THEN {} ELSE {n + 1})
    <3>1. Alive(t, n + 1) = {i \in Alive(t, n) : t[i].key # t[n + 1].key}
                            \cup (IF t[n + 1].tomb THEN {} ELSE {n + 1})
      BY AliveNext, Zenon
    <3> QED BY <2>2, <3>1, Zenon
  <2>7. {i \in Alive(t, n) : t[i].key # r.key} = {i \in Alive(s, n) : s[i].key # r.key}
    BY <2>2, <2>3, <2>4, Zenon
  <2>8. Others(r.key) = {i \in Index : s[i].key # r.key}
    BY <2>1, Zenon DEF Others
  <2>9. CASE Index = Alive(s, n)
    <3>1. Index' = Alive(t, n + 1)
      BY <1>4, <2>1, <2>6, <2>7, <2>8, <2>9, Zenon
    <3> QED BY <1>0, <2>1, <2>2, <2>5, <3>1, Zenon DEF Healthy
  <2>10. CASE "del" \in refused /\ Index \subseteq Alive(s, n)
    <3>1. PICK E : E = IF r.tomb THEN {} ELSE {n + 1}
      BY Zenon
    <3>2. Index' = {i \in Index : s[i].key # r.key} \cup E
      BY <1>4, <2>1, <2>8, <3>1, Zenon
    <3>3. Alive(t, n + 1) = {i \in Alive(s, n) : s[i].key # r.key} \cup E
      BY <2>6, <2>7, <3>1, Zenon
    <3>4. Index' \subseteq Alive(t, n + 1)
      BY <2>10, <3>2, <3>3, Zenon
    <3> QED BY <1>0, <1>4, <2>1, <2>2, <2>5, <2>10, <3>4, Zenon DEF Healthy
  <2> QED BY <1>1, <2>1, <2>9, <2>10, Zenon
<1>5. ASSUME NEW o \in SetOp \cup CASOp, Writes(o) PROVE Healthy'
  <2>1. PICK r \in Record : r = Pair(o.key, o.ts, o.val) /\ r.key = o.key /\ ~r.tomb
    <3>1. o.key \in Key /\ o.ts \in Time /\ o.val \in Val
      BY Zenon DEF SetOp, CASOp
    <3> QED BY <3>1, PairType, Zenon DEF Pair
  <2>2. /\ store' = Append(store, r) /\ refused' = refused
        /\ Index' = Others(r.key) \cup (IF r.tomb THEN {} ELSE {Len(store) + 1})
    BY <1>5, <2>1, Zenon DEF Writes
  <2> QED BY <1>4, <2>1, <2>2, Zenon
<1>6. ASSUME NEW o \in DelOp, DelEffect(o) PROVE Healthy'
  <2>0. o.key \in Key
    BY Zenon DEF DelOp
  <2>1. CASE Rests
    BY <1>3, <2>1, Zenon DEF Rests
  <2>2. CASE /\ IsFound(o.key) /\ Index' = Others(o.key)
             /\ store' = Append(store, Tombstone(o.key)) /\ UNCHANGED refused
    <3>1. PICK r \in Record : r = Tombstone(o.key) /\ r.key = o.key /\ r.tomb
      BY <2>0, TombstoneType, Zenon DEF Tombstone
    <3>2. \E i \in Index : store[i].key = r.key
      BY <1>2, <2>0, <2>2, <3>1, Zenon DEF IndexFacts
    <3>3. Index' = Others(r.key) \cup (IF r.tomb THEN {} ELSE {Len(store) + 1})
      BY <2>2, <3>1, Zenon
    <3> QED BY <1>4, <2>2, <3>1, <3>2, <3>3, Zenon
  <2>3. CASE Index' = Others(o.key) /\ store' = store /\ refused' = refused \cup {"del"}
    <3>1. Index' \subseteq Alive(store, Len(store))
      BY <1>1, <2>3, Zenon DEF Others
    <3>2. "del" \in refused'
      BY <2>3, Zenon
    <3> QED BY <1>0, <1>1, <2>3, <3>1, <3>2, Zenon DEF Healthy
  <2> QED BY <1>6, <2>1, <2>2, <2>3, Zenon DEF DelEffect
<1> QED BY <1>3, <1>5, <1>6, Zenon

(* Every step keeps log and index in agreement, until Open cannot index a  *)
(* record.                                                                 *)
LEMMA NextHealthy ==
    ASSUME Inv, Healthy, [Next]_vars, "restore" \notin refused
    PROVE  Logged'
<1>0. /\ Len(store) \in Nat /\ restored \in 0..Len(store)
      /\ op = NoOp <=> pc \notin {"expand", "run"}
      /\ NoOp # Restore /\ NoOp.kind = "none" /\ Restore.kind = "restore"
      /\ \A o \in SetOp \cup CASOp : o.kind # "restore" /\ o # Restore /\ o # NoOp
  BY LogTypes, Zenon
<1>a. ASSUME Healthy', "restore" \notin refused' PROVE Logged'
  BY <1>a, Zenon DEF Logged
<1>b. WellFormed(store, Len(store))
  BY Zenon DEF Healthy
<1>1. ASSUME NEW o \in SetOp \cup CASOp, Serves(o) PROVE Logged'
  <2>1. Serving /\ pc # "early" /\ pc' = "idle" /\ CallEffect(o)
    BY <1>1, Zenon DEF Serves, CallEffect
  <2>2. \/ UNCHANGED <<store, Index>> /\ refused \subseteq refused'
        \/ Writes(o)
    BY <2>1, Zenon DEF CallEffect, Rests
  <2>3. "restore" \notin refused'
    BY <2>1, SMTT(40) DEF CallEffect, Rests, Writes
  <2>4. Healthy'
    BY <2>1, <2>2, HealthyServes, Zenon
  <2> QED BY <1>a, <2>3, <2>4, Zenon
<1>2. ASSUME NEW o \in DelOp, Deletes(o) PROVE Logged'
  <2>1. Serving /\ pc # "early" /\ pc' = "idle" /\ DelEffect(o)
    BY <1>2, Zenon DEF Deletes, DelEffect, Serving
  <2>2. "restore" \notin refused'
    BY <2>1 DEF DelEffect, Rests
  <2>3. Healthy'
    BY <2>1, HealthyServes, Zenon
  <2> QED BY <1>a, <2>2, <2>3, Zenon
<1>3. ASSUME Rests, Serving, Serving', Upto' = Upto PROVE Logged'
  <2>1. Healthy'
    BY <1>3, Zenon DEF Rests, Healthy
  <2> QED BY <1>3, <1>a, <2>1, Zenon DEF Rests
<1>4. ASSUME NEW o \in SetOp \cup CASOp, Begins(o) PROVE Logged'
  <2>1. Serving /\ Serving' /\ Upto' = Upto /\ Rests
    BY <1>0, <1>4, Zenon DEF Begins, Serving, Upto, Rests
  <2> QED BY <1>3, <2>1, Zenon
<1>5. CASE Shorts
  <2>1. Serving /\ Serving' /\ Upto' = Upto /\ Rests
    BY <1>5, Zenon DEF Shorts, Serving, Upto, Rests
  <2> QED BY <1>3, <2>1, Zenon
<1>6. ASSUME NEW f, Follows(f)', Replays(store, f, restored), ~Serving',
             UNCHANGED <<store, restored, refused>>
      PROVE  Logged'
  <2>1. Healthy'
    BY <1>6, <1>b, Zenon DEF Healthy
  <2> QED BY <1>6, <1>a, <2>1, Zenon
<1>7. CASE Copies \/ Grew
  <2>1. Rests /\ op' = op /\ restored' = restored /\ pc = "expand" /\ pc' \in {"expand", "run"}
    BY <1>7, Zenon DEF Copies, Grew, ExpandDone
  <2>2. CASE Serving
    <3>1. Serving' /\ Upto' = Upto
      BY <2>1, <2>2, Zenon DEF Serving, Upto, Rests
    <3> QED BY <1>3, <2>1, <2>2, <3>1, Zenon
  <2>3. CASE ~Serving
    <3>1. PICK f : Replays(store, f, restored) /\ Follows(f)
      BY <2>3, Zenon DEF Healthy
    <3>2. ~Serving'
      BY <2>1, <2>3, Zenon DEF Serving
    <3>3. Follows(f)'
      BY <1>7, <3>1, FollowsExpand, Zenon
    <3> QED BY <1>6, <2>1, <3>1, <3>2, <3>3, Zenon DEF Rests
  <2> QED BY <2>2, <2>3, Zenon
<1>8. CASE Begins(Restore)
  <2>1. ~Serving /\ ~Serving' /\ Rests /\ restored' = restored
    BY <1>0, <1>8, Zenon DEF Begins, Serving
  <2>2. PICK f : Replays(store, f, restored) /\ Follows(f)
    BY <2>1, Zenon DEF Healthy
  <2>3. Follows(f)'
    BY <1>8, <2>2, FollowsExpand, Zenon
  <2> QED BY <1>6, <2>1, <2>2, <2>3, Zenon DEF Rests
<1>9. CASE Restores
  <2>1. /\ ~Serving /\ ~Serving' /\ store' = store /\ restored' = restored + 1 /\ refused' = refused
        /\ restored < Len(store)
    BY <1>0, <1>9, Zenon DEF Restores, RestoreEffect, Serving
  <2>2. PICK f : Replays(store, f, restored) /\ Follows(f)
    BY <2>1, Zenon DEF Healthy
  <2>3. WellFormed(store, restored + 1) /\ restored \in Nat
    BY <1>0, <1>b, <2>1, WellFormedPrefix
  <2>4. /\ ~Full(f[restored])
        /\ \A g : g[restored + 1] = After(store, restored, f[restored]) => Follows(g)'
    BY <1>9, <2>2, <2>3, FollowsNext, Zenon
  <2>5. PICK g : Replays(store, g, restored + 1) /\ g[restored + 1] = After(store, restored, f[restored])
    BY <2>2, <2>3, <2>4, ReplaysNext, Zenon
  <2>6. Follows(g)'
    BY <2>4, <2>5, Zenon
  <2>7. Healthy'
    BY <1>b, <2>1, <2>5, <2>6, Zenon DEF Healthy
  <2> QED BY <1>a, <2>1, <2>7, Zenon
<1>10. CASE Skips
  <2>1. /\ pc = "restore" /\ pc' = "restore" /\ ~HasRoom /\ ~CanExpand /\ restored < Len(store)
        /\ restored' = restored + 1 /\ refused' = refused \cup {"restore"}
        /\ UNCHANGED <<store, Index, size, numStoredKeys, op>>
    BY <1>10, Zenon DEF Skips
  <2>2. PICK f : Replays(store, f, restored) /\ Follows(f)
    BY <2>1, Zenon DEF Healthy, Serving
  <2>3. WellFormed(store, restored)
    BY <1>0, <1>b, WellFormedPrefix, Zenon
  <2>4. <<size, numStoredKeys>> = f[restored] /\ Index = Alive(store, restored)
    BY <2>1, <2>2, Zenon DEF Follows
  <2>5. f[restored][1] = size /\ f[restored][2] = numStoredKeys
    BY <2>4
  <2>6. Full(f[restored])
    BY <2>1, <2>5, Zenon DEF HasRoom, CanExpand, Tight, Full
  <2>7. PICK p \in 0..Len(store) : p = restored
    BY <1>0, Zenon
  <2>8. Stuck(p)'
    <3>1. Upto' = restored + 1 /\ p <= restored + 1
      BY <2>1, <2>7 DEF Upto, Serving
    <3>2. ~HasRoom' /\ ~CanExpand'
      BY <2>1, Zenon DEF HasRoom, CanExpand
    <3>3. Index' \subseteq Alive(store', p)
      BY <2>1, <2>4, <2>7, Zenon
    <3> QED BY <2>1, <3>1, <3>2, <3>3, Zenon DEF Stuck
  <2>9. Wedged'
    BY <2>1, <2>2, <2>3, <2>6, <2>7, <2>8, Zenon DEF Wedged
  <2>10. "restore" \in refused'
    BY <2>1, Zenon
  <2> QED BY <2>9, <2>10, Zenon DEF Logged
<1>11. CASE Leaves
  <2>1. store' = store /\ refused' = refused /\ restored' = 0 /\ ~Serving'
    BY <1>11, Zenon DEF Leaves, Leave, Serving
  <2>2. PICK f : Replays(store', f, 0)
    BY ReplaysNone, Zenon
  <2>3. Follows(f)'
    BY <1>11, <2>2, FollowsFresh, Zenon DEF Replays
  <2>4. Healthy'
    BY <1>b, <2>1, <2>2, <2>3, Zenon DEF Healthy
  <2> QED BY <1>a, <2>1, <2>4, Zenon
<1>12. CASE Turns
  <2>1. ~Serving /\ UNCHANGED <<store, Index, size, numStoredKeys, op>>
    BY <1>12, Zenon DEF Turns, Open, OpenDone, OpenPanics, Serving
  <2>2. PICK f : Replays(store, f, restored) /\ Follows(f)
    BY <2>1, Zenon DEF Healthy
  <2>3. CASE Open \/ OpenPanics
    <3>1. /\ pc \notin {"expand", "run", "panic"} /\ pc' \notin {"expand", "run"} /\ ~Serving'
          /\ restored' = restored /\ refused' = refused
      BY <2>3, Zenon DEF Open, OpenPanics, Serving
    <3>2. Follows(f)'
      BY <2>1, <2>2, <3>1, FollowsKept, Zenon
    <3> QED BY <1>6, <2>1, <2>2, <3>1, <3>2, Zenon
  <2>4. CASE OpenDone
    <3>1. Serving' /\ Upto' = restored /\ refused' = refused \ {"del", "cas"}
      BY <2>1, <2>4, Zenon DEF OpenDone, Serving, Upto
    <3>2. Index' = Alive(store', Upto')
      BY <2>1, <2>2, <3>1, Zenon DEF Follows
    <3>3. Healthy'
      BY <1>b, <2>1, <3>1, <3>2, Zenon DEF Healthy
    <3> QED BY <1>a, <3>1, <3>3, Zenon
  <2> QED BY <1>12, <2>3, <2>4, Zenon DEF Turns
<1>13. CASE Stutters
  <2>1. UNCHANGED <<store, Index, refused, size, numStoredKeys, pc, op, restored>>
    BY <1>13, Zenon DEF Stutters
  <2>2. Serving' = Serving /\ Upto' = Upto
    BY <2>1, Zenon DEF Serving, Upto
  <2>3. \A f : Follows(f) => Follows(f)'
    BY <2>1, Zenon DEF Follows
  <2>4. Healthy'
    BY <2>1, <2>2, <2>3, Zenon DEF Healthy
  <2> QED BY <1>a, <2>1, <2>4, Zenon
<1>14. CASE Breaks
  <2>1. ~Serving /\ ~Serving' /\ Rests /\ restored' = restored
    BY <1>0, <1>14, Zenon DEF Breaks, Serving
  <2>2. PICK f : Replays(store, f, restored) /\ Follows(f)
    BY <2>1, Zenon DEF Healthy
  <2>3. Follows(f)'
    BY <1>14, <2>2, FollowsBreak, Zenon
  <2> QED BY <1>6, <2>1, <2>2, <2>3, Zenon DEF Rests
<1> QED BY <1>1, <1>2, <1>4, <1>5, <1>7, <1>8, <1>9, <1>10, <1>11, <1>12, <1>13, <1>14, StepIs, Zenon

(* A log that cannot be replayed stays one.                                *)
LEMMA NextWedged ==
    ASSUME Inv, Wedged, [Next]_vars
    PROVE  Wedged'
<1>0. /\ Len(store) \in Nat /\ restored \in 0..Len(store)
      /\ op = NoOp <=> pc \notin {"expand", "run"}
      /\ NoOp # Restore /\ NoOp.kind = "none" /\ Restore.kind = "restore"
      /\ \A o \in SetOp \cup CASOp : o.kind # "restore" /\ o # Restore /\ o # NoOp
  BY LogTypes, Zenon
<1>a. PICK p \in 0..Len(store) : \E f :
        /\ WellFormed(store, p) /\ Replays(store, f, p) /\ Full(f[p])
        /\ Stuck(p) \/ Retraces(f, p)
  BY Zenon DEF Wedged
<1>1. PICK f :
        /\ WellFormed(store, p) /\ Replays(store, f, p) /\ Full(f[p])
        /\ Stuck(p) \/ Retraces(f, p)
  BY <1>a, Zenon
<1>2. ASSUME store' = store, Stuck(p)' \/ Retraces(f, p)' PROVE Wedged'
  BY <1>1, <1>2, Zenon DEF Wedged
<1>3. ASSUME Stuck(p), UNCHANGED <<Index, store, size, numStoredKeys>>, Upto <= Upto',
             pc' \in {"idle", "restore", "panic", "early"}
      PROVE  Wedged'
  <2>1. ~HasRoom' /\ ~CanExpand'
    BY <1>3, Zenon DEF Stuck, HasRoom, CanExpand
  <2>2. Upto \in Nat /\ Upto' \in Nat
    <3>1. Inv'
      BY NextInv, Zenon
    <3>2. (restored \in 0..Len(store) /\ Len(store) \in Nat)'
      BY <3>1, SMTT(40) DEF Inv, TypeOK
    <3> QED BY <1>0, <3>2 DEF Upto
  <2>3. p <= Upto'
    BY <1>3, <2>2 DEF Stuck
  <2>4. Stuck(p)'
    BY <1>3, <2>1, <2>3, Zenon DEF Stuck
  <2> QED BY <1>2, <1>3, <2>4, Zenon
<1>4. ASSUME <<size, numStoredKeys>> = f[restored] PROVE
        /\ ~HasRoom <=> Tight(f[restored])
        /\ CanExpand <=> 2 * f[restored][1] <= SizeLimit
  <2>1. f[restored][1] = size /\ f[restored][2] = numStoredKeys
    BY <1>4
  <2> QED BY <2>1, Zenon DEF HasRoom, CanExpand, Tight
<1>5. ASSUME Retraces(f, p), ~HasRoom, ~CanExpand, pc = "restore"
      PROVE  restored = p /\ Index = Alive(store, p)
  <2>1. <<size, numStoredKeys>> = f[restored] /\ restored <= p /\ Index = Alive(store, restored)
    BY <1>5, Zenon DEF Retraces, Follows
  <2>2. Full(f[restored])
    BY <1>4, <1>5, <2>1, Zenon DEF Full
  <2>3. restored \notin 0..(p - 1)
    BY <1>1, <2>2, Zenon DEF Replays
  <2>4. restored = p
    BY <1>0, <2>1, <2>3
  <2> QED BY <2>1, <2>4, Zenon
<1>6. ASSUME NEW o \in SetOp \cup CASOp, Serves(o) PROVE Wedged'
  <2>1. ~Retraces(f, p)
    BY <1>0, <1>6, Zenon DEF Serves, Serving, Retraces
  <2>2. Stuck(p)
    BY <1>1, <2>1, Zenon
  <2>3. Rests /\ UNCHANGED <<size, numStoredKeys>> /\ pc' = "idle"
    BY <1>6, <2>2, Zenon DEF Serves, CallEffect, Stuck
  <2>4. Upto <= Upto'
    <3>1. Upto = Len(store) /\ Upto' = Len(store)
      BY <1>6, <2>3, Zenon DEF Upto, Serving, Serves, Rests
    <3> QED BY <1>0, <3>1
  <2> QED BY <1>3, <2>2, <2>3, <2>4, Zenon DEF Rests
<1>7. ASSUME NEW o \in DelOp, Deletes(o) PROVE Wedged'
  <2>1. Stuck(p)
    BY <1>1, <1>7, Zenon DEF Retraces, Deletes
  <2>2. /\ Index' \subseteq Index /\ size' = size /\ numStoredKeys' = numStoredKeys /\ pc' = "idle"
        /\ store' = store \/ store' = Append(store, Tombstone(o.key))
    BY <1>7, Zenon DEF Deletes, DelEffect, Rests, Others
  <2>a. PICK n \in Nat : n = Len(store)
    BY <1>0, Zenon
  <2>3. PICK s, t : s = store /\ t = store' /\ n = Len(store)
    BY <2>a, Zenon
  <2>4. Len(t) \in Nat /\ n <= Len(t) /\ \A i \in 1..n : s[i] = t[i]
    <3>1. o.key \in Key
      BY Zenon DEF DelOp
    <3>2. PICK r \in Record : r = Tombstone(o.key)
      BY <3>1, TombstoneType, Zenon
    <3> QED BY <2>2, <2>3, <3>2, AppendKeeps
  <2>5. p \in Nat /\ \A i \in 1..p : s[i] = t[i]
    BY <2>3, <2>4
  <2>6. Alive(t, p) = Alive(s, p) /\ WellFormed(t, p) /\ Replays(t, f, p)
    BY <1>1, <2>3, <2>5, AliveSame, WellFormedSame, ReplaysSame, Zenon
  <2>7. p \in 0..Len(t)
    BY <2>3, <2>4
  <2>8. Stuck(p)'
    <3>1. Upto' = Len(t)
      BY <2>2, <2>3, Zenon DEF Upto, Serving
    <3>2. ~HasRoom' /\ ~CanExpand'
      BY <2>1, <2>2, Zenon DEF Stuck, HasRoom, CanExpand
    <3>3. Index' \subseteq Alive(store', p)
      BY <2>1, <2>2, <2>3, <2>6, Zenon DEF Stuck
    <3> QED BY <2>2, <2>7, <3>1, <3>2, <3>3 DEF Stuck
  <2> QED BY <1>1, <2>3, <2>6, <2>7, <2>8, Zenon DEF Wedged
<1>8. CASE Shorts
  <2>1. Stuck(p)
    BY <1>1, <1>8, Zenon DEF Retraces, Shorts
  <2>2. Rests /\ size' = size /\ numStoredKeys' = numStoredKeys /\ pc' = "idle" /\ pc = "idle"
    BY <1>8, Zenon DEF Shorts
  <2>3. Upto <= Upto'
    <3>1. Upto = Len(store) /\ Upto' = Len(store)
      BY <2>2, Zenon DEF Upto, Serving, Rests
    <3> QED BY <1>0, <3>1
  <2> QED BY <1>3, <2>1, <2>2, <2>3, Zenon DEF Rests
<1>9. ASSUME NEW o \in SetOp \cup CASOp, Begins(o) PROVE Wedged'
  BY <1>0, <1>1, <1>9, Zenon DEF Begins, Stuck, Retraces
<1>10. CASE Begins(Restore) \/ Copies \/ Grew
  <2>1. Retraces(f, p)
    BY <1>1, <1>10, Zenon DEF Stuck, Begins, Copies, Grew, ExpandDone
  <2>2. store' = store /\ restored' = restored /\ pc' # "idle" /\ op' \in {NoOp, Restore}
    BY <1>10, <2>1, Zenon DEF Begins, Copies, Grew, ExpandDone, Rests, Retraces
  <2>3. Follows(f)'
    BY <1>10, <2>1, FollowsExpand, Zenon DEF Retraces
  <2>4. Retraces(f, p)'
    BY <2>1, <2>2, <2>3, Zenon DEF Retraces
  <2> QED BY <1>2, <2>2, <2>4, Zenon
<1>11. CASE Restores
  <2>1. Retraces(f, p)
    BY <1>1, <1>11, Zenon DEF Stuck, Restores
  <2>2. Follows(f) /\ restored <= p
    BY <2>1, Zenon DEF Retraces
  <2>3. restored # p
    <3> SUFFICES ASSUME restored = p PROVE FALSE
      BY Zenon
    <3>1. CASE pc = "restore" /\ HasRoom
      <4>1. <<size, numStoredKeys>> = f[restored]
        BY <2>2, <3>1, Zenon DEF Follows
      <4> QED BY <1>1, <1>4, <3>1, <4>1, Zenon DEF Full
    <3>2. CASE pc = "run"
      BY <1>1, <2>2, <3>2, Zenon DEF Follows
    <3> QED BY <1>11, <3>1, <3>2, Zenon DEF Restores
  <2>4. restored \in 0..(p - 1) /\ restored + 1 \in 0..p /\ p \in Nat /\ restored + 1 <= p
    BY <1>0, <2>2, <2>3
  <2>5. WellFormed(store, restored + 1)
    BY <1>1, <2>4, WellFormedPrefix, Zenon
  <2>6. f[restored + 1] = After(store, restored, f[restored])
    BY <1>1, <2>4, Zenon DEF Replays
  <2>7. Follows(f)'
    BY <1>11, <2>2, <2>5, <2>6, FollowsNext, Zenon
  <2>8. store' = store /\ restored' = restored + 1 /\ pc' = "restore" /\ op' = NoOp
    BY <1>11, Zenon DEF Restores, RestoreEffect
  <2>9. Retraces(f, p)'
    BY <2>4, <2>7, <2>8, Zenon DEF Retraces
  <2> QED BY <1>2, <2>8, <2>9, Zenon
<1>12. CASE Skips
  <2>1. /\ pc = "restore" /\ pc' = "restore" /\ ~HasRoom /\ ~CanExpand
        /\ restored' = restored + 1
        /\ UNCHANGED <<store, Index, size, numStoredKeys, op>>
    BY <1>12, Zenon DEF Skips
  <2>2. Upto = restored /\ Upto' = restored + 1
    BY <2>1, Zenon DEF Upto, Serving
  <2>3. Stuck(p)
    <3>1. CASE Retraces(f, p)
      <4>1. restored = p /\ Index = Alive(store, p)
        BY <1>5, <2>1, <3>1, Zenon
      <4> QED BY <1>0, <2>1, <2>2, <4>1 DEF Stuck
    <3> QED BY <1>1, <3>1, Zenon
  <2>4. Upto <= Upto'
    BY <1>0, <2>2
  <2> QED BY <1>3, <2>1, <2>3, <2>4, Zenon
<1>13. CASE Leaves
  <2>1. store' = store /\ restored' = 0 /\ pc' = "closed" /\ op' = NoOp
    BY <1>13, Zenon DEF Leaves, Leave
  <2>2. Follows(f)'
    BY <1>1, <1>13, FollowsFresh, Zenon DEF Replays
  <2>3. Retraces(f, p)'
    BY <2>1, <2>2 DEF Retraces
  <2> QED BY <1>2, <2>1, <2>3, Zenon
<1>14. CASE Turns
  <2>1. /\ UNCHANGED <<store, Index, size, numStoredKeys, op>>
        /\ pc \in {"closed", "restore"} /\ pc' \in {"restore", "idle", "early", "panic"}
    BY <1>14, Zenon DEF Turns, Open, OpenDone, OpenPanics
  <2>2. Upto = restored
    BY <2>1, Zenon DEF Upto, Serving
  <2>3. /\ pc' = "idle" => restored = Len(store) /\ pc = "restore" /\ Upto' = Len(store)
        /\ pc' # "idle" => restored' = restored /\ Upto' = restored
    BY <1>14, <2>1, Zenon DEF Turns, Open, OpenDone, OpenPanics, Upto, Serving
  <2>4. Upto <= Upto'
    BY <1>0, <2>2, <2>3
  <2>5. CASE Stuck(p)
    BY <1>3, <2>1, <2>4, <2>5, Zenon
  <2>6. CASE Retraces(f, p) /\ pc' # "idle"
    <3>1. Follows(f)'
      BY <2>1, <2>3, <2>6, FollowsKept, Zenon DEF Retraces
    <3>2. Retraces(f, p)'
      BY <2>1, <2>3, <2>6, <3>1, Zenon DEF Retraces
    <3> QED BY <1>2, <2>1, <3>2, Zenon
  <2>7. CASE Retraces(f, p) /\ pc' = "idle"
    <3>1. restored = p /\ pc = "restore"
      BY <1>0, <2>3, <2>7 DEF Retraces
    <3>2. <<size, numStoredKeys>> = f[restored] /\ Index = Alive(store, p)
      BY <2>7, <3>1, Zenon DEF Retraces, Follows
    <3>3. ~HasRoom /\ ~CanExpand
      BY <1>1, <1>4, <3>1, <3>2, Zenon DEF Full
    <3>4. Stuck(p)
      BY <1>0, <2>2, <3>1, <3>2, <3>3 DEF Stuck
    <3> QED BY <1>3, <2>1, <2>4, <3>4, Zenon
  <2> QED BY <1>1, <2>5, <2>6, <2>7, Zenon
<1>15. CASE Stutters
  <2>1. UNCHANGED <<store, Index, refused, size, numStoredKeys, pc, op, restored>>
    BY <1>15, Zenon DEF Stutters
  <2>2. Stuck(p)' <=> Stuck(p)
    BY <2>1, Zenon DEF Stuck, HasRoom, CanExpand, Upto, Serving
  <2>3. Retraces(f, p)' <=> Retraces(f, p)
    BY <2>1, Zenon DEF Retraces, Follows
  <2> QED BY <1>1, <1>2, <2>1, <2>2, <2>3, Zenon
<1>16. CASE Breaks
  <2>1. Retraces(f, p)
    BY <1>1, <1>16, Zenon DEF Stuck, Breaks
  <2>2. store' = store /\ restored' = restored /\ pc' = "panic" /\ op' = NoOp
    BY <1>16, Zenon DEF Breaks, Rests
  <2>3. Follows(f)'
    BY <1>16, <2>1, FollowsBreak, Zenon DEF Retraces
  <2>4. Retraces(f, p)'
    BY <2>1, <2>2, <2>3, Zenon DEF Retraces
  <2> QED BY <1>2, <2>2, <2>4, Zenon
<1> QED BY <1>6, <1>7, <1>8, <1>9, <1>10, <1>11, <1>12, <1>13, <1>14, <1>15, <1>16, StepIs, Zenon

(* No step takes the mark of a record that was not indexed away.           *)
LEMMA RestoreStays ==
    ASSUME Inv, [Next]_vars, "restore" \in refused
    PROVE  "restore" \in refused'
<1>1. ASSUME NEW o \in SetOp \cup CASOp, Serves(o) \/ Begins(o) PROVE "restore" \in refused'
  BY <1>1, Zenon DEF Serves, CallEffect, Writes, Rests, Begins
<1>2. ASSUME NEW o \in DelOp, Deletes(o) PROVE "restore" \in refused'
  BY <1>2, Zenon DEF Deletes, DelEffect, Rests
<1>3. CASE Shorts \/ Copies \/ Grew \/ Begins(Restore) \/ Skips \/ Breaks \/ Stutters
  BY <1>3, Zenon DEF Shorts, Copies, Grew, Begins, Skips, Breaks, Stutters, Rests
<1>4. CASE Restores
  BY <1>4, Zenon DEF Restores, RestoreEffect
<1>5. CASE Leaves \/ Turns
  BY <1>5, Zenon DEF Leaves, Leave, Turns, Open, OpenDone, OpenPanics
<1> QED BY <1>1, <1>2, <1>3, <1>4, <1>5, StepIs, Zenon

(* The log invariant is an invariant of the PMap.                          *)
THEOREM LogInv == Spec => []Logged
<1>1. Init => Logged
  <2> SUFFICES ASSUME Init PROVE Logged
    BY Zenon
  <2>1. Index = {}
    BY IndexEmpty, Zenon DEF Init
  <2>2. Len(store) = 0 /\ Serving /\ Upto = 0
    BY Zenon DEF Init, Serving, Upto
  <2>3. Healthy
    BY <2>1, <2>2, AliveNone, Zenon DEF Healthy
  <2> QED BY <2>3, Zenon DEF Init, Logged
<1>2. Inv /\ Logged /\ [Next]_vars => Logged'
  <2> SUFFICES ASSUME Inv, Logged, [Next]_vars PROVE Logged'
    BY Zenon
  <2>1. CASE "restore" \in refused
    BY <2>1, NextWedged, RestoreStays, Zenon DEF Logged
  <2>2. CASE "restore" \notin refused
    BY <2>2, NextHealthy, Zenon DEF Logged
  <2> QED BY <2>1, <2>2, Zenon
<1> QED BY <1>1, <1>2, PMapInv, PTL DEF Spec

(* A bounded nonempty set of naturals has a greatest element.              *)
LEMMA Greatest ==
    ASSUME NEW n \in Nat, NEW S \in SUBSET (1..n), S # {}
    PROVE  \E x \in S : \A y \in S : y <= x
<1> DEFINE T == {n - y : y \in S}
<1>1. T \in SUBSET Nat /\ T # {}
  <2>1. \A y \in S : n - y \in Nat
    OBVIOUS
  <2>2. PICK y \in S : TRUE
    BY Zenon
  <2>3. n - y \in T
    BY <2>2, Zenon
  <2> QED BY <2>1, <2>3, Zenon
<1>2. PICK t \in T : \A u \in T : t <= u
  <2> HIDE DEF T
  <2> QED BY <1>1, Least, Zenon
<1>3. PICK x \in S : t = n - x
  BY Zenon
<1>4. ASSUME NEW y \in S PROVE y <= x
  <2>1. n - y \in T
    BY Zenon
  <2> HIDE DEF T
  <2>2. PICK a \in Nat, b \in Nat : a = x /\ b = y
    OBVIOUS
  <2>3. n - a <= n - b
    BY <1>2, <1>3, <2>1, <2>2, Zenon
  <2>4. b <= a
    BY <2>3
  <2> QED BY <2>2, <2>4, Zenon
<1> QED BY <1>4, Zenon

(* LastRecord finds the last record.                                       *)
LEMMA LastIs ==
    ASSUME NEW k, NEW n \in Nat
    PROVE  \/ LastRecord(k, n) = 0 /\ \A i \in 1..n : store[i].key # k
           \/ /\ LastRecord(k, n) \in 1..n /\ store[LastRecord(k, n)].key = k
              /\ \A i \in 1..n : store[i].key = k => i <= LastRecord(k, n)
<1> DEFINE S == {i \in 1..n : store[i].key = k}
<1>1. CASE S = {}
  BY <1>1, Zenon DEF LastRecord
<1>2. CASE S # {}
  <2>1. S \in SUBSET (1..n)
    BY Zenon
  <2>2. LastRecord(k, n) = CHOOSE i \in S : \A j \in S : j <= i
    BY <1>2, Zenon DEF LastRecord
  <2> HIDE DEF S
  <2>3. \E x \in S : \A y \in S : y <= x
    BY <1>2, <2>1, Greatest, Zenon
  <2>4. LastRecord(k, n) \in S /\ \A j \in S : j <= LastRecord(k, n)
    BY <2>2, <2>3, Zenon
  <2> QED BY <2>4, Zenon DEF S
<1> QED BY <1>1, <1>2, Zenon

(* The index leads to pairs, none of which the records it stands for       *)
(* follow up; once Open could not index a record, those before it.         *)
LEMMA IndexAlive ==
    ASSUME Inv, Logged
    PROVE  /\ Upto \in 0..Len(store)
           /\ \E n \in 0..Upto : Index \subseteq Alive(store, n)
           /\ "restore" \notin refused => Index \subseteq Alive(store, Upto)
<1>1. Len(store) \in Nat /\ restored \in 0..Len(store) /\ (op = NoOp <=> pc \notin {"expand", "run"})
      /\ NoOp # Restore /\ Restore.kind = "restore"
  BY LogTypes, Zenon
<1>2. Upto \in 0..Len(store)
  BY <1>1 DEF Upto
<1>3. CASE "restore" \notin refused
  <2>1. Healthy
    BY <1>3, Zenon DEF Logged
  <2>2. CASE Serving
    <3>1. Index \subseteq Alive(store, Upto)
      BY <2>1, <2>2, Zenon DEF Healthy
    <3> QED BY <1>2, <3>1
  <2>3. CASE ~Serving
    <3>1. Upto = restored
      BY <2>3, Zenon DEF Upto
    <3>2. Index = Alive(store, restored)
      BY <2>1, <2>3, Zenon DEF Healthy, Follows
    <3> QED BY <1>2, <3>1, <3>2
  <2> QED BY <2>2, <2>3, Zenon
<1>4. CASE "restore" \in refused
  <2>1. PICK p \in 0..Len(store) : \E f : Stuck(p) \/ Retraces(f, p)
    BY <1>4, Zenon DEF Logged, Wedged
  <2>2. CASE Stuck(p)
    <3>1. p \in 0..Upto /\ Index \subseteq Alive(store, p)
      BY <1>2, <2>2 DEF Stuck
    <3> QED BY <1>2, <1>4, <3>1, Zenon
  <2>3. CASE \E f : Retraces(f, p)
    <3>1. Index = Alive(store, restored) /\ pc # "idle" /\ op \in {NoOp, Restore}
      BY <2>3, Zenon DEF Retraces, Follows
    <3>2. Upto = restored
      BY <1>1, <3>1, Zenon DEF Upto, Serving
    <3> QED BY <1>2, <1>4, <3>1, <3>2
  <2> QED BY <2>1, <2>2, <2>3, Zenon
<1> QED BY <1>2, <1>3, <1>4, Zenon

(* The index tells what the log tells, at every step of every history, so  *)
(* Open can rebuild it; and never does a bucket lead to a tombstone, not   *)
(* even when Open could not grow the hashmap.                              *)
THEOREM IndexAlwaysMatchesLog == Spec => []IndexMatchesLog
<1>1. Inv /\ Logged => IndexMatchesLog
  <2> SUFFICES ASSUME Inv, Logged PROVE IndexMatchesLog
    BY Zenon
  <2>0. IndexFacts /\ Len(store) \in Nat /\ restored \in 0..Len(store)
    BY IndexIs, LogTypes, Zenon
  <2>1. ASSUME NEW i \in DOMAIN mem, Live(mem, i) PROVE ~store[mem[i].idx].tomb
    <3>1. mem[i].idx \in Index
      BY <2>1, Indexes, Zenon
    <3>2. PICK n : Index \subseteq Alive(store, n)
      BY IndexAlive, Zenon
    <3> QED BY <3>1, <3>2, Zenon DEF Alive
  <2>2. ASSUME pc \notin {"closed", "panic"}, "restore" \notin refused, "del" \notin refused \/ Restoring,
               NEW k \in Key
        PROVE  LET n == LastRecord(k, Indexed)
               IN  IF IsFound(k) THEN mem[Slot(k)].idx = n ELSE n = 0 \/ store[n].tomb
    <3>1. Healthy
      BY <2>2, Zenon DEF Logged
    <3>2. Index = Alive(store, Indexed)
      <4>1. CASE Serving
        <5>1. ~Restoring /\ Upto = Indexed
          BY <4>1, Zenon DEF Serving, Restoring, Upto, Indexed
        <5> QED BY <2>2, <3>1, <4>1, <5>1, Zenon DEF Healthy
      <4>2. CASE ~Serving
        <5>1. Restoring
          BY <2>2, <4>2, Zenon DEF Serving, Restoring, Inv, TypeOK
        <5>2. Indexed = restored
          BY <5>1, Zenon DEF Indexed
        <5> QED BY <3>1, <4>2, <5>2, Zenon DEF Healthy, Follows
      <4> QED BY <4>1, <4>2, Zenon
    <3>3. PICK N \in Nat : N = Indexed
      BY <2>0 DEF Indexed
    <3>4. PICK n : n = LastRecord(k, N)
      BY Zenon
    <3>5. \/ n = 0 /\ \A i \in 1..N : store[i].key # k
          \/ /\ n \in 1..N /\ store[n].key = k
             /\ \A i \in 1..N : store[i].key = k => i <= n
      BY <3>4, LastIs, Zenon
    <3>6. CASE IsFound(k)
      <4>1. PICK x \in Alive(store, N) : x = mem[Slot(k)].idx /\ store[x].key = k
        BY <2>0, <3>2, <3>3, <3>6, Zenon DEF IndexFacts, Found
      <4>2. x \in 1..N /\ \A j \in (x + 1)..N : store[j].key # k
        BY <4>1, Zenon DEF Alive
      <4>3. n = x
        BY <3>5, <4>1, <4>2
      <4> QED BY <3>3, <3>4, <3>6, <4>1, <4>3, Zenon
    <3>7. CASE ~IsFound(k)
      <4>1. \A x \in Alive(store, N) : store[x].key # k
        BY <2>0, <3>2, <3>3, <3>7, Zenon DEF IndexFacts
      <4>2. ASSUME n # 0, ~store[n].tomb PROVE FALSE
        <5>1. n \in 1..N /\ store[n].key = k /\ \A j \in (n + 1)..N : store[j].key # store[n].key
          BY <3>5, <4>2
        <5>2. n \in Alive(store, N)
          BY <4>2, <5>1, Zenon DEF Alive
        <5> QED BY <4>1, <5>1, <5>2, Zenon
      <4> QED BY <3>3, <3>4, <3>7, <4>2, Zenon
    <3> QED BY <3>6, <3>7, Zenon
  <2> QED BY <2>1, <2>2, Zenon DEF IndexMatchesLog
<1> QED BY <1>1, PMapInv, LogInv, PTL

(* What Iterate visits is what Get finds, for any hash function that does  *)
(* not give a key the hashes 0 and 1, and in the order of the log.         *)
THEOREM IterateAlwaysCovers == Spec => []IterateCovers
<1>1. Inv /\ Logged => IterateCovers
  <2> SUFFICES ASSUME Inv, Logged, Serving PROVE IterateCovers
    BY Zenon DEF IterateCovers
  <2>0. IndexFacts /\ Len(store) \in Nat /\ restored \in 0..Len(store)
    BY IndexIs, LogTypes, Zenon
  <2>1. Indexed = Upto /\ Indexed \in 0..Len(store)
    BY <2>0 DEF Serving, Restoring, Upto, Indexed
  <2>2. ASSUME NEW k \in Key, Hash[k] >= 2
        PROVE  Get(k) = IF IsFound(k) THEN {Found(k)} ELSE {}
    <3>1. hashReMap(Hash[k]) = Hash[k]
      BY <2>2, ConstantsAssumption DEF hashReMap
    <3> QED BY <3>1, Zenon DEF Get, IsFound, Found, Slot
  <2>3. ASSUME NEW k \in Key, IsFound(k), Hash[k] >= 2
        PROVE  /\ mem[Slot(k)].idx \in Iterate
               /\ "restore" \notin refused =>
                    \A n \in Iterate : store[n].key = k => n <= mem[Slot(k)].idx
    <3>1. PICK x \in Index : x = mem[Slot(k)].idx /\ store[x].key = k /\ Found(k) = store[x]
      BY <2>0, <2>3, Zenon DEF IndexFacts, Found
    <3>2. PICK m \in 0..Upto : Index \subseteq Alive(store, m)
      BY IndexAlive, Zenon
    <3>3. x \in 1..Indexed /\ ~store[x].tomb
      BY <2>1, <3>1, <3>2 DEF Alive
    <3>4. x \in Iterate
      <4>1. Get(store[x].key) = {store[x]}
        BY <2>2, <2>3, <3>1, Zenon
      <4>2. isPresent(x)
        BY <3>3, <4>1, Zenon DEF isPresent
      <4> QED BY <3>3, <4>2, Zenon DEF Iterate
    <3>5. ASSUME "restore" \notin refused, NEW n \in Iterate, store[n].key = k PROVE n <= x
      <4>1. x \in Alive(store, Indexed) /\ n \in 1..Indexed
        BY <2>1, <3>1, <3>5, IndexAlive, Zenon DEF Iterate
      <4>2. n \notin (x + 1)..Indexed
        BY <3>1, <3>5, <4>1, Zenon DEF Alive
      <4> QED BY <2>1, <3>3, <4>1, <4>2
    <3> QED BY <3>1, <3>4, <3>5, Zenon
  <2>4. ASSUME NEW n \in Iterate, Hash[store[n].key] >= 2 PROVE IsFound(store[n].key)
    <3>1. n \in 1..Len(store) /\ isPresent(n)
      BY <2>1 DEF Iterate
    <3>2. store[n].key \in Key
      BY <3>1, LogTypes, Zenon
    <3>3. Get(store[n].key) # {}
      BY <3>1, Zenon DEF isPresent
    <3> QED BY <2>2, <2>4, <3>2, <3>3, Zenon
  <2> QED BY <2>3, <2>4, Zenon DEF IterateCovers
<1> QED BY <1>1, PMapInv, LogInv, PTL

-----------------------------------------------------------------------------
(* The refinement                                                          *)

\* The map that the records S of s make
Pairs(s, S) ==
    [k \in {s[x].key : x \in S} |->
        LET x == CHOOSE y \in S : s[y].key = k IN [ts |-> s[x].ts, val |-> s[x].val]]

\* S has one record for a key
OneEach(s, S) == \A x, y \in S : s[x].key = s[y].key => x = y

\* m has the pairs of the records S of s, and no others
Gives(m, s, S) ==
    /\ DOMAIN m = {s[x].key : x \in S}
    /\ \A y \in S : /\ s[y].key \in DOMAIN m
                    /\ m[s[y].key] = [ts |-> s[y].ts, val |-> s[y].val]

(* What the map holds.                                                     *)
LEMMA PairsAt ==
    ASSUME NEW s, NEW S, OneEach(s, S) PROVE Gives(Pairs(s, S), s, S)
<1>1. DOMAIN Pairs(s, S) = {s[x].key : x \in S}
  BY Zenon DEF Pairs
<1>2. ASSUME NEW y \in S
      PROVE  /\ s[y].key \in DOMAIN Pairs(s, S)
             /\ Pairs(s, S)[s[y].key] = [ts |-> s[y].ts, val |-> s[y].val]
  <2>1. PICK k : k = s[y].key
    BY Zenon
  <2>2. k \in {s[x].key : x \in S}
    BY <2>1, Zenon
  <2>3. PICK x : x = CHOOSE z \in S : s[z].key = k
    BY Zenon
  <2>4. x \in S /\ s[x].key = k
    BY <2>1, <2>3, Zenon
  <2>5. x = y
    BY <2>1, <2>4, Zenon DEF OneEach
  <2>6. Pairs(s, S)[k] = [ts |-> s[x].ts, val |-> s[x].val]
    BY <2>2, <2>3, Zenon DEF Pairs
  <2> QED BY <1>1, <2>1, <2>2, <2>5, <2>6, Zenon
<1> QED BY <1>1, <1>2, Zenon DEF Gives

\* m with the pair p under the key k, and without that key
With(m, k, p) == [x \in DOMAIN m \cup {k} |-> IF x = k THEN p ELSE m[x]]
Without(m, k) == [x \in DOMAIN m \ {k} |-> m[x]]

\* The records among S of other keys
Except(s, S, k) == {x \in S : s[x].key # k}

(* A map is known by its pairs.                                            *)
LEMMA PairsAre ==
    ASSUME NEW s, NEW S, OneEach(s, S), NEW D, NEW m, m = [k \in D |-> m[k]],
           \A y \in S : s[y].key \in D /\ m[s[y].key] = [ts |-> s[y].ts, val |-> s[y].val],
           \A k \in D : \E y \in S : s[y].key = k
    PROVE  Pairs(s, S) = m
<1>1. PICK g : g = Pairs(s, S)
  BY Zenon
<1>2. g = [k \in DOMAIN g |-> g[k]]
  BY <1>1, Zenon DEF Pairs
<1>3. DOMAIN g = {s[x].key : x \in S} /\ \A y \in S : g[s[y].key] = [ts |-> s[y].ts, val |-> s[y].val]
  <2>1. Gives(g, s, S)
    BY <1>1, PairsAt, Zenon
  <2> QED BY <2>1, Zenon DEF Gives
<1>4. DOMAIN g = D
  BY <1>3, ZenonT(40)
<1>5. ASSUME NEW k \in D PROVE g[k] = m[k]
  <2>1. PICK y \in S : s[y].key = k
    BY Zenon
  <2> QED BY <1>3, <2>1, Zenon
<1>6. g = m
  BY <1>2, <1>4, <1>5, Zenon
<1> QED BY <1>1, <1>6, Zenon

\* t keeps the records S of s, one for each key, and has the pair p of k at n
Adds(s, t, S, n, k, p) ==
    /\ OneEach(s, S) /\ t[n].key = k /\ p = [ts |-> t[n].ts, val |-> t[n].val]
    /\ \A x \in S : t[x] = s[x]

(* A write adds a pair or replaces the one of its key.                     *)
LEMMA PairsWrite ==
    ASSUME NEW s, NEW t, NEW S, NEW n, NEW k, NEW p, Adds(s, t, S, n, k, p)
    PROVE  Pairs(t, Except(s, S, k) \cup {n}) = With(Pairs(s, S), k, p)
<1> /\ OneEach(s, S) /\ t[n].key = k /\ p = [ts |-> t[n].ts, val |-> t[n].val]
    /\ \A x \in S : t[x] = s[x]
  BY Zenon DEF Adds
<1> DEFINE R == {x \in S : s[x].key # k} \cup {n}
           D == DOMAIN Pairs(s, S) \cup {k}
           m == [x \in D |-> IF x = k THEN p ELSE Pairs(s, S)[x]]
<1>1. /\ DOMAIN Pairs(s, S) = {s[x].key : x \in S}
      /\ \A y \in S : /\ s[y].key \in DOMAIN Pairs(s, S)
                      /\ Pairs(s, S)[s[y].key] = [ts |-> s[y].ts, val |-> s[y].val]
  <2>1. Gives(Pairs(s, S), s, S)
    BY PairsAt, Zenon
  <2> QED BY <2>1, Zenon DEF Gives
<1>2. \A y \in R : y = n \/ (y \in S /\ t[y] = s[y] /\ s[y].key # k)
  BY Zenon
<1>3. OneEach(t, R)
  <2> HIDE DEF R
  <2> QED BY <1>2, Zenon DEF OneEach
<1>4. ASSUME NEW y \in R PROVE t[y].key \in D /\ m[t[y].key] = [ts |-> t[y].ts, val |-> t[y].val]
  <2>1. CASE y = n
    BY <2>1, Zenon
  <2>2. CASE y \in S /\ t[y] = s[y] /\ s[y].key # k
    <3>1. t[y].key \in D /\ m[t[y].key] = Pairs(s, S)[s[y].key]
      BY <1>1, <2>2, Zenon
    <3> QED BY <1>1, <2>2, <3>1, Zenon
  <2> QED BY <1>2, <2>1, <2>2, Zenon
<1>5. ASSUME NEW d \in D PROVE \E y \in R : t[y].key = d
  <2>1. CASE d = k
    BY <2>1, Zenon
  <2>2. CASE d # k
    <3>1. PICK y \in S : s[y].key = d
      BY <1>1, <2>2, Zenon
    <3>2. y \in R /\ t[y].key = d
      BY <2>2, <3>1, Zenon
    <3> QED BY <3>2, Zenon
  <2> QED BY <2>1, <2>2, Zenon
<1>6. m = [x \in D |-> m[x]]
  BY Zenon
<1> HIDE DEF R, D, m
<1>7. Pairs(t, R) = m
  BY <1>3, <1>4, <1>5, <1>6, PairsAre
<1> QED BY <1>7, Zenon DEF R, D, m, With, Except

(* A deletion removes one.                                                 *)
LEMMA PairsRemove ==
    ASSUME NEW s, NEW t, NEW S, NEW k, OneEach(s, S), \A x \in S : t[x] = s[x]
    PROVE  Pairs(t, Except(s, S, k)) = Without(Pairs(s, S), k)
<1> DEFINE R == {x \in S : s[x].key # k}
           D == DOMAIN Pairs(s, S) \ {k}
           m == [x \in D |-> Pairs(s, S)[x]]
<1>1. /\ DOMAIN Pairs(s, S) = {s[x].key : x \in S}
      /\ \A y \in S : /\ s[y].key \in DOMAIN Pairs(s, S)
                      /\ Pairs(s, S)[s[y].key] = [ts |-> s[y].ts, val |-> s[y].val]
  <2>1. Gives(Pairs(s, S), s, S)
    BY PairsAt, Zenon
  <2> QED BY <2>1, Zenon DEF Gives
<1>2. OneEach(t, R)
  BY Zenon DEF OneEach
<1>3. ASSUME NEW y \in R PROVE t[y].key \in D /\ m[t[y].key] = [ts |-> t[y].ts, val |-> t[y].val]
  <2>1. t[y].key \in D /\ m[t[y].key] = Pairs(s, S)[s[y].key] /\ t[y] = s[y] /\ y \in S
    BY <1>1, Zenon
  <2> QED BY <1>1, <2>1, Zenon
<1>4. ASSUME NEW d \in D PROVE \E y \in R : t[y].key = d
  <2>1. PICK y \in S : s[y].key = d
    BY <1>1, Zenon
  <2>2. y \in R /\ t[y].key = d
    BY <2>1, Zenon
  <2> QED BY <2>2, Zenon
<1>5. m = [x \in D |-> m[x]]
  BY Zenon
<1> HIDE DEF R, D, m
<1>6. Pairs(t, R) = m
  BY <1>2, <1>3, <1>4, <1>5, PairsAre
<1> QED BY <1>6, Zenon DEF R, D, m, Without, Except

(* What the PMap holds are the pairs it indexes.                           *)
LEMMA ContentsIs == Inv => OneEach(store, Index) /\ Contents = Pairs(store, Index)
<1> SUFFICES ASSUME Inv PROVE OneEach(store, Index) /\ Contents = Pairs(store, Index)
  BY Zenon
<1>1. IndexFacts /\ Index \subseteq 1..Len(store)
  BY IndexIs, Zenon DEF IndexFacts
<1>2. OneEach(store, Index)
  BY <1>1, Zenon DEF IndexFacts, OneEach
<1>3. PICK s, S, m, D : s = store /\ S = Index /\ m = Contents /\ D = {x \in Key : IsFound(x)}
  BY Zenon
<1>4. /\ m = [k \in D |-> m[k]]
      /\ \A k \in D : m[k] = [ts |-> Found(k).ts, val |-> Found(k).val]
  BY <1>3, Zenon DEF Contents
<1>5. ASSUME NEW y \in S
      PROVE  s[y].key \in D /\ m[s[y].key] = [ts |-> s[y].ts, val |-> s[y].val]
  <2>1. PICK k \in Key : k = s[y].key
    BY <1>1, <1>3, LogTypes, Zenon
  <2>2. IsFound(k)
    BY <1>1, <1>3, <2>1, Zenon DEF IndexFacts
  <2>3. PICK x \in S : Found(k) = s[x] /\ s[x].key = k
    BY <1>1, <1>3, <2>2, Zenon DEF IndexFacts, Found
  <2>4. x = y
    BY <1>2, <1>3, <2>1, <2>3, Zenon DEF OneEach
  <2>5. k \in D
    BY <1>3, <2>2, Zenon
  <2> QED BY <1>4, <2>1, <2>3, <2>4, <2>5, Zenon
<1>6. \A k \in D : \E y \in S : s[y].key = k
  BY <1>1, <1>3, Zenon DEF IndexFacts
<1>7. Pairs(s, S) = m
  BY <1>2, <1>3, <1>4, <1>5, <1>6, PairsAre
<1> QED BY <1>2, <1>3, <1>7, Zenon

(* The map of an open PMap.                                                *)
LEMMA MapIs == Inv => (Serving => Map = Pairs(store, Index)) /\ (~Serving => Map = saved)
BY ContentsIs, Zenon DEF Map

(* It does not change with the rest of the state.                          *)
LEMMA MapStays ==
    ASSUME Inv, Inv', Serving' <=> Serving, UNCHANGED <<store, Index, saved>>
    PROVE  UNCHANGED Map
<1>1. (Serving => Map = Pairs(store, Index)) /\ (~Serving => Map = saved)
  BY MapIs, Zenon
<1>2. (Serving => Map = Pairs(store, Index))' /\ (~Serving => Map = saved)'
  BY MapIs, PTL
<1>3. Pairs(store, Index)' = Pairs(store, Index)
  BY Zenon DEF Pairs
<1> HIDE DEF Map
<1> QED BY <1>1, <1>2, <1>3, Zenon

(* What Get finds is what the map has.                                     *)
LEMMA MapFound ==
    ASSUME Serving, NEW k \in Key
    PROVE  /\ k \in DOMAIN Map <=> IsFound(k)
           /\ IsFound(k) => Map[k] = [ts |-> Found(k).ts, val |-> Found(k).val]
<1>1. PICK D, m : D = {x \in Key : IsFound(x)} /\ m = Map
  BY Zenon
<1>2. m = [x \in D |-> [ts |-> Found(x).ts, val |-> Found(x).val]]
  BY <1>1, Zenon DEF Map, Contents
<1>3. k \in D <=> IsFound(k)
  BY <1>1, Zenon
<1>4. k \in DOMAIN m <=> IsFound(k)
  BY <1>2, <1>3, Zenon
<1>5. k \in D => m[k] = [ts |-> Found(k).ts, val |-> Found(k).val]
  BY <1>2, Zenon
<1> QED BY <1>1, <1>3, <1>4, <1>5, Zenon

(* A write of the PMap is a write of the map.                              *)
LEMMA MapWrites ==
    ASSUME Inv, Inv', Serving, Serving', NEW o \in SetOp \cup CASOp, Writes(o)
    PROVE  LWW!Write(o)
<1>0. store \in Seq(Record) /\ Len(store) \in Nat
  BY LogTypes, Zenon
<1>1. PICK s, t, S, n, k : s = store /\ t = store' /\ S = Index /\ n = Len(store) + 1 /\ k = o.key
  BY Zenon
<1>2. Map = Pairs(s, S) /\ OneEach(s, S)
  BY <1>1, MapIs, ContentsIs, Zenon
<1>3. PICK r \in Record : r = Pair(o.key, o.ts, o.val)
                          /\ r.key = o.key /\ r.ts = o.ts /\ r.val = o.val
  <2>1. o.key \in Key /\ o.ts \in Time /\ o.val \in Val
    BY Zenon DEF SetOp, CASOp
  <2> QED BY <2>1, PairType, Zenon DEF Pair
<1>4. t[n] = r /\ \A x \in 1..Len(store) : t[x] = s[x]
  BY <1>0, <1>1, <1>3, AppendKeeps, Zenon DEF Writes
<1>5. Index \subseteq 1..Len(store)
  BY IndexIs, Zenon DEF IndexFacts
<1>6. \A x \in S : t[x] = s[x]
  BY <1>1, <1>4, <1>5, Zenon
<1>7. Index' = Except(s, S, k) \cup {n}
  BY <1>1, Zenon DEF Writes, Others, Except
<1>8. Map' = Pairs(store', Index')
  <2>1. (Serving => Map = Pairs(store, Index))'
    BY MapIs, PTL
  <2> QED BY <2>1, Zenon
<1>9. Map' = Pairs(t, Except(s, S, k) \cup {n})
  BY <1>1, <1>7, <1>8, Zenon
<1>10. PICK p : p = [ts |-> o.ts, val |-> o.val] /\ p = [ts |-> t[n].ts, val |-> t[n].val]
  BY <1>3, <1>4, Zenon
<1>11. Map' = With(Pairs(s, S), k, p)
  <2>1. t[n].key = k
    BY <1>1, <1>3, <1>4, Zenon
  <2>2. Adds(s, t, S, n, k, p)
    BY <1>2, <1>6, <1>10, <2>1, Zenon DEF Adds
  <2>3. Pairs(t, Except(s, S, k) \cup {n}) = With(Pairs(s, S), k, p)
    BY <2>2, PairsWrite, SMTT(30)
  <2> QED BY <1>2, <1>9, <2>3, Zenon
<1> HIDE DEF Map
<1> QED BY <1>1, <1>2, <1>10, <1>11, Zenon DEF LWW!Write, With

(* A deletion of the PMap is one of the map.                               *)
LEMMA MapRemoves ==
    ASSUME Inv, Inv', Serving, Serving', NEW o \in DelOp, Index' = Others(o.key),
           store' = store \/ store' = Append(store, Tombstone(o.key))
    PROVE  LWW!Remove(o)
<1>0. store \in Seq(Record) /\ Len(store) \in Nat
  BY LogTypes, Zenon
<1>1. PICK s, t, S, k : s = store /\ t = store' /\ S = Index /\ k = o.key
  BY Zenon
<1>2. Map = Pairs(s, S) /\ OneEach(s, S)
  BY <1>1, MapIs, ContentsIs, Zenon
<1>3. \A x \in 1..Len(store) : t[x] = s[x]
  <2>1. CASE store' = store
    BY <1>1, <2>1, Zenon
  <2>2. CASE store' = Append(store, Tombstone(o.key))
    <3>1. PICK r \in Record : r = Tombstone(o.key)
      BY TombstoneType, Zenon DEF DelOp
    <3> QED BY <1>0, <1>1, <2>2, <3>1, AppendKeeps, Zenon
  <2> QED BY <2>1, <2>2, Zenon
<1>4. Index \subseteq 1..Len(store)
  BY IndexIs, Zenon DEF IndexFacts
<1>5. \A x \in S : t[x] = s[x]
  BY <1>1, <1>3, <1>4, Zenon
<1>6. Index' = Except(s, S, k)
  BY <1>1, Zenon DEF Others, Except
<1>7. Map' = Pairs(store', Index')
  <2>1. (Serving => Map = Pairs(store, Index))'
    BY MapIs, PTL
  <2> QED BY <2>1, Zenon
<1>8. Map' = Pairs(t, Except(s, S, k))
  BY <1>1, <1>6, <1>7, Zenon
<1>9. Map' = Without(Pairs(s, S), k)
  BY <1>2, <1>5, <1>8, PairsRemove
<1> HIDE DEF Map
<1> QED BY <1>1, <1>2, <1>9, Zenon DEF LWW!Remove, Without

\* Some record of s has an empty key; none of the first n has one
Blank(s) == \E i \in 1..Len(s) : KeyLen[s[i].key] = 0
Filled(s, n) == \A i \in 1..n : KeyLen[s[i].key] # 0

\* The records whose key Open has read
Passed == IF op = Restore THEN restored + 1 ELSE restored

(* What the PMap closed with is what the file says, unless a tombstone or  *)
(* an index entry is missing, or Open stops at an empty key.               *)
Kept ==
    /\ ~Serving => ans = NoAnswer /\ Filled(store, Passed)
    /\ pc = "early" => Blank(store)
    /\ ~Serving /\ {"del", "restore"} \cap refused = {} =>
          saved = Pairs(store, Alive(store, Len(store))) \/ Blank(store)

(* Open reads the key of another record.                                   *)
LEMMA FilledNext ==
    ASSUME Inv, pc = "restore", ~AtEnd, Filled(store, restored)
    PROVE  Filled(store, restored + 1)
<1>1. restored \in 0..Len(store) /\ Len(store) \in Nat
  BY LogTypes, Zenon
<1>2. KeyLen[store[restored + 1].key] # 0
  BY Zenon DEF AtEnd
<1> QED BY <1>1, <1>2 DEF Filled

(* What a PMap closes with.                                                *)
LEMMA ClosesWith ==
    ASSUME Inv, Logged, Kept, Serving, {"del", "restore"} \cap refused = {}
    PROVE  Contents = Pairs(store, Alive(store, Len(store))) \/ Blank(store)
<1>1. CASE pc = "early"
  BY <1>1, Zenon DEF Kept
<1>2. CASE pc # "early"
  <2>1. Healthy /\ "del" \notin refused
    BY Zenon DEF Logged
  <2>2. Index = Alive(store, Len(store))
    BY <1>2, <2>1, Zenon DEF Healthy, Upto
  <2>3. Contents = Pairs(store, Index)
    BY ContentsIs, Zenon
  <2> QED BY <2>2, <2>3, Zenon
<1> QED BY <1>1, <1>2, Zenon

(* Every step keeps it.                                                    *)
LEMMA NextKept ==
    ASSUME Inv, Inv', Logged, Kept, [Next]_vars
    PROVE  Kept'
<1>0. /\ restored \in 0..Len(store) /\ Len(store) \in Nat
      /\ op = NoOp <=> pc \notin {"expand", "run"}
      /\ NoOp # Restore /\ NoOp.kind = "none" /\ Restore.kind = "restore"
      /\ \A o \in SetOp \cup CASOp : o.kind # "restore" /\ o # Restore /\ o # NoOp
  BY LogTypes, Zenon
<1>a. ASSUME Serving', pc' # "early" PROVE Kept'
  BY <1>a, Zenon DEF Kept
<1>b. ASSUME ~Serving, ~Serving', pc' # "early", UNCHANGED <<store, saved>>,
             refused \subseteq refused', ans' = NoAnswer, Filled(store, Passed')
      PROVE  Kept'
  <2>1. {"del", "restore"} \cap refused' = {} => {"del", "restore"} \cap refused = {}
    BY <1>b, Zenon
  <2>2. PICK s : s = store /\ s = store'
    BY <1>b, Zenon
  <2>3. /\ {"del", "restore"} \cap refused' = {} => saved = Pairs(s, Alive(s, Len(s))) \/ Blank(s)
        /\ Filled(s, Passed')
    BY <1>b, <2>1, <2>2, Zenon DEF Kept
  <2> QED BY <1>b, <2>2, <2>3, Zenon DEF Kept
<1>c. ~Serving => ans = NoAnswer /\ Filled(store, Passed)
  BY Zenon DEF Kept
<1>1. ASSUME NEW o \in SetOp \cup CASOp, Serves(o) \/ Begins(o) PROVE Kept'
  <2>1. Serving' /\ pc' # "early"
    BY <1>0, <1>1, Zenon DEF Serves, CallEffect, Begins, Serving
  <2> QED BY <1>a, <2>1, Zenon
<1>2. ASSUME NEW o \in DelOp, Deletes(o) PROVE Kept'
  <2>1. Serving' /\ pc' # "early"
    BY <1>2, Zenon DEF Deletes, DelEffect, Serving
  <2> QED BY <1>a, <2>1, Zenon
<1>3. CASE Shorts
  <2>1. Serving' /\ pc' # "early"
    BY <1>3, Zenon DEF Shorts, Serving
  <2> QED BY <1>a, <2>1, Zenon
<1>4. CASE Copies \/ Grew
  <2>1. /\ (Serving' <=> Serving) /\ pc' # "early"
        /\ UNCHANGED <<store, saved, refused, ans, op, restored>>
    BY <1>4, Zenon DEF Copies, Grew, ExpandDone, Rests, Serving
  <2>2. CASE Serving
    BY <1>a, <2>1, <2>2, Zenon
  <2>3. CASE ~Serving
    <3>1. Passed' = Passed
      BY <2>1, Zenon DEF Passed
    <3> QED BY <1>b, <1>c, <2>1, <2>3, <3>1, Zenon
  <2> QED BY <2>2, <2>3, Zenon
<1>5. CASE Begins(Restore)
  <2>1. /\ pc = "restore" /\ ~AtEnd /\ pc' = "expand" /\ op' = Restore /\ ans' = NoAnswer
        /\ UNCHANGED <<store, saved, refused, restored>>
    BY <1>0, <1>5, Zenon DEF Begins, Rests
  <2>2. ~Serving /\ ~Serving' /\ Passed = restored /\ Passed' = restored + 1
    BY <1>0, <2>1, Zenon DEF Serving, Passed
  <2>3. Filled(store, Passed')
    BY <1>c, <2>1, <2>2, FilledNext, Zenon
  <2> QED BY <1>b, <2>1, <2>2, <2>3, Zenon
<1>6. CASE Restores
  <2>1. /\ pc' = "restore" /\ op' = NoOp /\ restored' = restored + 1
        /\ UNCHANGED <<store, saved, refused, ans>>
    BY <1>6, Zenon DEF Restores, RestoreEffect
  <2>2. ~Serving /\ ~Serving' /\ Passed' = restored + 1
    BY <1>0, <1>6, <2>1, Zenon DEF Serving, Passed, Restores
  <2>3. CASE pc = "restore" /\ op = NoOp /\ ~AtEnd
    <3>1. Filled(store, Passed')
      BY <1>0, <1>c, <2>2, <2>3, FilledNext, Zenon DEF Passed
    <3> QED BY <1>b, <1>c, <2>1, <2>2, <3>1, Zenon
  <2>4. CASE pc = "run" /\ op = Restore
    <3>1. Passed' = Passed
      BY <2>2, <2>4, Zenon DEF Passed
    <3> QED BY <1>b, <1>c, <2>1, <2>2, <3>1, Zenon
  <2> QED BY <1>6, <2>3, <2>4, Zenon DEF Restores
<1>7. CASE Skips
  <2>1. /\ pc = "restore" /\ ~AtEnd /\ pc' = "restore" /\ op = NoOp /\ restored' = restored + 1
        /\ UNCHANGED <<store, saved, op, ans>> /\ refused \subseteq refused'
    BY <1>0, <1>7, Zenon DEF Skips
  <2>2. ~Serving /\ ~Serving' /\ Passed = restored /\ Passed' = restored + 1
    BY <1>0, <2>1, Zenon DEF Serving, Passed
  <2>3. Filled(store, Passed')
    BY <1>c, <2>1, <2>2, FilledNext, Zenon
  <2> QED BY <1>b, <1>c, <2>1, <2>2, <2>3, Zenon
<1>8. CASE Leaves
  <2>1. /\ pc' = "closed" /\ op' = NoOp /\ restored' = 0 /\ ans' = NoAnswer
        /\ UNCHANGED <<store, refused>> /\ saved' = IF Serving THEN Contents ELSE saved
    BY <1>8, Zenon DEF Leaves, Leave
  <2>2. ~Serving' /\ Passed' = 0 /\ pc' # "early"
    BY <1>0, <2>1, Zenon DEF Serving, Passed
  <2>3. Filled(store, Passed')
    BY <2>2 DEF Filled
  <2>4. CASE Serving
    <3>1. PICK s, m : s = store /\ s = store' /\ m = Contents /\ m = saved'
      BY <2>1, <2>4, Zenon
    <3>2. {"del", "restore"} \cap refused = {} => m = Pairs(s, Alive(s, Len(s))) \/ Blank(s)
      BY <2>4, <3>1, ClosesWith, Zenon
    <3> QED BY <2>1, <2>2, <2>3, <3>1, <3>2, Zenon DEF Kept
  <2>5. CASE ~Serving
    BY <1>b, <2>1, <2>2, <2>3, <2>5, Zenon
  <2> QED BY <2>4, <2>5, Zenon
<1>9. CASE Turns
  <2>1. UNCHANGED <<store, op, ans>> /\ op = NoOp
    BY <1>0, <1>9, Zenon DEF Turns, Open, OpenDone, OpenPanics
  <2>2. CASE Open \/ OpenPanics
    <3>1. ~Serving /\ ~Serving' /\ pc' # "early" /\ UNCHANGED <<saved, refused, restored>>
      BY <1>0, <2>1, <2>2, Zenon DEF Serving, Open, OpenPanics
    <3>2. Passed' = Passed
      BY <2>1, <3>1, Zenon DEF Passed
    <3> QED BY <1>b, <1>c, <2>1, <3>1, <3>2, Zenon
  <2>3. CASE OpenDone
    <3>1. Serving'
      BY <2>3, Zenon DEF OpenDone, Serving
    <3>2. pc' = "early" => Blank(store)
      <4>1. pc' = "early" => restored # Len(store) /\ AtEnd
        BY <2>3, Zenon DEF OpenDone
      <4> QED BY <1>0, <4>1 DEF AtEnd, Blank
    <3>3. Blank(store)' <=> Blank(store)
      BY <2>1, Zenon DEF Blank
    <3> QED BY <3>1, <3>2, <3>3, Zenon DEF Kept
  <2> QED BY <1>9, <2>2, <2>3, Zenon DEF Turns
<1>10. CASE Stutters
  <2>1. PICK s : s = store /\ s = store'
    BY <1>10, Zenon DEF Stutters
  <2>2. /\ UNCHANGED <<pc, op, restored, ans, saved, refused>> /\ (Serving' <=> Serving)
        /\ Passed' = Passed
    BY <1>10, Zenon DEF Stutters, Serving, Passed
  <2> QED BY <2>1, <2>2, Zenon DEF Kept, NoAnswer
<1>11. CASE Breaks
  <2>1. /\ pc' = "panic" /\ op' = NoOp /\ restored' = restored
        /\ UNCHANGED <<store, saved, refused, ans>>
    BY <1>11, Zenon DEF Breaks, Rests
  <2>2. ~Serving /\ ~Serving' /\ Passed' = restored
    BY <1>0, <1>11, <2>1, Zenon DEF Serving, Passed, Breaks
  <2>3. PICK n \in Nat : n = restored /\ (Passed = n \/ Passed = n + 1)
    <3>1. restored \in Nat
      BY <1>0, SMTT(30)
    <3> QED BY <3>1, Zenon DEF Passed
  <2>a. \A i \in 1..n : i \in 1..(n + 1)
    BY SMTT(30)
  <2>4. Filled(store, restored)
    BY <1>c, <2>2, <2>3, <2>a, Zenon DEF Filled
  <2> QED BY <1>b, <1>c, <2>1, <2>2, <2>4, Zenon
<1> QED BY <1>1, <1>2, <1>3, <1>4, <1>5, <1>6, <1>7, <1>8, <1>9, <1>10, <1>11, StepIs, Zenon

(* A call of Set or CAS that is over is a call of the map.                 *)
LEMMA ServesMap ==
    ASSUME Inv, Inv', NEW o \in SetOp \cup CASOp, Serves(o)
    PROVE  LWW!Next
<1>0. /\ Serving /\ Serving' /\ CallEffect(o) /\ saved' = saved
      /\ o.key \in Key
  BY Zenon DEF Serves, CallEffect, Serving, SetOp, CASOp
<1> DEFINE Has == o.key \in DOMAIN Map
<1>1. /\ Has <=> IsFound(o.key)
      /\ IsFound(o.key) => Map[o.key] = [ts |-> Found(o.key).ts, val |-> Found(o.key).val]
  BY <1>0, MapFound, Zenon
<1>2. LWW!SetOp = SetOp /\ LWW!CASOp = CASOp
  BY Zenon DEF LWW!SetOp, SetOp, LWW!CASOp, CASOp
<1>3. ASSUME UNCHANGED <<store, Index>>, ans' = [op |-> o, out |-> "err"] PROVE LWW!Next
  <2>1. LWW!Refused(o)
    BY <1>0, <1>3, MapStays, Zenon DEF LWW!Refused, LWW!Answer
  <2> QED BY <1>2, <2>1, Zenon DEF LWW!Next
<1>4. CASE /\ Writes(o) /\ ans' = [op |-> o, out |-> "ok"]
           /\ o.kind = "set" /\ IsFound(o.key) => ~Discards(Found(o.key), o.ts)
           /\ o.kind = "cas" => ~CASFails(o)
  <2>0. LWW!Write(o) /\ LWW!Answer(o, "ok")
    BY <1>0, <1>4, MapWrites, Zenon DEF LWW!Answer
  <2>1. CASE o \in SetOp
    <3>1. o.kind = "set"
      BY <2>1, Zenon DEF SetOp
    <3>2. ~(Has /\ Map[o.key].ts >= o.ts)
      BY <1>1, <1>4, <3>1 DEF Discards
    <3>3. LWW!Set(o)
      BY <2>0, <3>2, Zenon DEF LWW!Set, LWW!Has
    <3> QED BY <1>2, <2>1, <3>3, Zenon DEF LWW!Next
  <2>2. CASE o \in CASOp
    <3>1. o.kind = "cas"
      BY <2>2, Zenon DEF CASOp
    <3>2. ~CASFails(o)
      BY <1>4, <3>1, Zenon
    <3>3. Has => Map[o.key] = [ts |-> o.oldTs, val |-> o.oldVal]
      <4>1. Has => Found(o.key).ts = o.oldTs /\ Found(o.key).val = o.oldVal
        BY <1>1, <3>2, Zenon DEF CASFails, CASMismatch
      <4> QED BY <1>1, <4>1, Zenon
    <3>4. ~Has => o.oldTs = 0 \/ o.oldVal = EmptyVal
      BY <1>1, <3>2, Zenon DEF CASFails, CASFailsEmpty
    <3>5. LWW!CAS(o) \/ LWW!LooseCAS(o)
      BY <2>0, <3>3, <3>4, Zenon DEF LWW!CAS, LWW!LooseCAS, LWW!Passes, LWW!Has
    <3> QED BY <1>2, <2>2, <3>5, Zenon DEF LWW!Next
  <2> QED BY <2>1, <2>2, Zenon
<1>5. CASE /\ Rests /\ ans' = [op |-> o, out |-> "ok"]
           /\ o.kind = "set" /\ IsFound(o.key) /\ Discards(Found(o.key), o.ts)
  <2>1. o \in SetOp
    BY <1>5, Zenon DEF CASOp
  <2>2. Has /\ Map[o.key].ts >= o.ts
    BY <1>1, <1>5 DEF Discards
  <2>3. UNCHANGED Map
    BY <1>0, <1>5, MapStays, Zenon DEF Rests
  <2>4. LWW!Answer(o, "ok")
    BY <1>5, Zenon DEF LWW!Answer
  <2>5. LWW!Set(o)
    BY <2>2, <2>3, <2>4, Zenon DEF LWW!Set, LWW!Has
  <2> QED BY <1>2, <2>1, <2>5, Zenon DEF LWW!Next
<1> QED BY <1>0, <1>3, <1>4, <1>5, Zenon DEF CallEffect, Rests

(* A Del is one of the map.                                                *)
LEMMA DeletesMap ==
    ASSUME Inv, Inv', NEW o \in DelOp, Deletes(o)
    PROVE  LWW!Next
<1>0. /\ Serving /\ Serving' /\ DelEffect(o) /\ saved' = saved
      /\ o.key \in Key /\ o.ts \in Nat
  BY ConstantsAssumption, Zenon DEF Deletes, DelEffect, Serving, DelOp
<1> DEFINE Has == o.key \in DOMAIN Map
<1>1. /\ Has <=> IsFound(o.key)
      /\ IsFound(o.key) => Map[o.key] = [ts |-> Found(o.key).ts, val |-> Found(o.key).val]
  BY <1>0, MapFound, Zenon
<1>a. IsFound(o.key) => Map[o.key].ts = Found(o.key).ts
  BY <1>1
<1>2. LWW!DelOp = DelOp
  BY Zenon DEF LWW!DelOp, DelOp
<1>3. IsFound(o.key) => Found(o.key).ts \in Nat
  <2>1. IsFound(o.key) => Found(o.key) \in Record
    BY <1>0, SlotFinds, Zenon
  <2>2. \A r \in Record : r.ts \in Time \cup {0}
    BY Zenon DEF Record
  <2>3. Time \cup {0} \subseteq Nat
    BY ConstantsAssumption
  <2> QED BY <2>1, <2>2, <2>3, Zenon
<1>4. CASE /\ IsFound(o.key) => DelDiscards(Found(o.key), o.ts)
           /\ Rests /\ ans' = [op |-> o, out |-> "ok"]
  <2>1. ASSUME Has, Map[o.key].ts <= o.ts PROVE FALSE
    <3>1. PICK a \in Nat, b \in Nat : a = Found(o.key).ts /\ b = o.ts
      BY <1>0, <1>1, <1>3, <2>1, Zenon
    <3>2. a <= b /\ b < a
      BY <1>1, <1>a, <1>4, <2>1, <3>1, Zenon DEF DelDiscards
    <3> QED BY <3>2
  <2>2. UNCHANGED Map /\ LWW!Answer(o, "ok")
    BY <1>0, <1>4, MapStays, Zenon DEF Rests, LWW!Answer
  <2>3. LWW!Del(o)
    BY <2>1, <2>2, Zenon DEF LWW!Del, LWW!Has
  <2> QED BY <1>2, <2>3, Zenon DEF LWW!Next
<1>5. CASE /\ IsFound(o.key) /\ ~DelDiscards(Found(o.key), o.ts)
           /\ Index' = Others(o.key)
           /\ store' = store \/ store' = Append(store, Tombstone(o.key))
           /\ \E r \in {"ok", "err"} : ans' = [op |-> o, out |-> r]
  <2>1. Has /\ Map[o.key].ts <= o.ts
    <3>1. PICK a \in Nat, b \in Nat : a = Found(o.key).ts /\ b = o.ts
      BY <1>0, <1>3, <1>5, Zenon
    <3>2. ~(b < a)
      BY <1>5, <3>1, Zenon DEF DelDiscards
    <3>3. a <= b
      BY <3>2
    <3> QED BY <1>1, <1>a, <1>5, <3>1, <3>3, Zenon
  <2>2. PICK r \in {"ok", "err"} : LWW!Answer(o, r)
    BY <1>5, Zenon DEF LWW!Answer
  <2>3. LWW!Remove(o)
    BY <1>0, <1>5, MapRemoves, Zenon
  <2>4. LWW!Del(o)
    BY <2>1, <2>2, <2>3, Zenon DEF LWW!Del, LWW!Has
  <2> QED BY <1>2, <2>4, Zenon DEF LWW!Next
<1> QED BY <1>0, <1>4, <1>5, Zenon DEF DelEffect

(* The end of Open shows the pairs the PMap closed with, or loses some.    *)
LEMMA OpenDoneMap ==
    ASSUME Inv, Inv', Logged, Kept, OpenDone, UNCHANGED <<store, Index, ans>>
    PROVE  LWW!Next \/ UNCHANGED <<Map, ans>>
<1>0. /\ pc = "restore" /\ AtEnd /\ ~Serving /\ Serving' /\ op = NoOp /\ op # Restore
      /\ restored \in 0..Len(store)
  BY LogTypes, Zenon DEF OpenDone, Serving
<1>1. ans = NoAnswer /\ Filled(store, restored)
  BY <1>0, Zenon DEF Kept, Passed
<1>2. CASE Lost
  <2>1. LWW!Loses
    BY <1>1, <1>2, Zenon DEF LWW!Loses, LWW!NoAnswer, LWW!ShortOp, NoAnswer, ShortOp
  <2> QED BY <2>1, Zenon DEF LWW!Next
<1>3. CASE ~Lost
  <2>1. {"del", "restore"} \cap refused = {} /\ restored = Len(store)
    BY <1>0, <1>3 DEF Lost
  <2>2. ~Blank(store)
    BY <1>1, <2>1, Zenon DEF Filled, Blank
  <2>3. saved = Pairs(store, Alive(store, Len(store)))
    BY <1>0, <2>1, <2>2, Zenon DEF Kept
  <2>4. Index = Alive(store, Len(store))
    <3>1. Healthy
      BY <2>1, Zenon DEF Logged
    <3> QED BY <1>0, <2>1, <3>1, Zenon DEF Healthy, Follows
  <2>5. Map = saved
    BY <1>0, MapIs, Zenon
  <2>6. Map' = Pairs(store', Index')
    <3>1. (Serving => Map = Pairs(store, Index))'
      BY MapIs, PTL
    <3> QED BY <1>0, <3>1, Zenon
  <2>7. PICK s, S : s = store /\ s = store' /\ S = Index /\ S = Index'
    BY Zenon
  <2> HIDE DEF Map
  <2>8. Map' = Map
    BY <2>3, <2>4, <2>5, <2>6, <2>7, Zenon
  <2> QED BY <2>8, Zenon
<1> QED BY <1>2, <1>3, Zenon

(* Every step of the PMap is a step of the map, or leaves it as it is.     *)
LEMMA StepMap ==
    ASSUME Inv, Inv', Logged, Kept, [Next]_vars
    PROVE  LWW!Next \/ UNCHANGED <<Map, ans>>
<1>0. /\ op = NoOp <=> pc \notin {"expand", "run"}
      /\ NoOp # Restore /\ NoOp.kind = "none" /\ Restore.kind = "restore"
      /\ \A o \in SetOp \cup CASOp : o.kind # "restore" /\ o # Restore /\ o # NoOp
  BY LogTypes, Zenon
<1>a. ASSUME UNCHANGED Map, ans' = NoAnswer PROVE LWW!Next
  <2>1. LWW!Silent
    BY <1>a, Zenon DEF LWW!Silent, LWW!NoAnswer, LWW!ShortOp, NoAnswer, ShortOp
  <2> QED BY <2>1, Zenon DEF LWW!Next
<1>1. ASSUME NEW o \in SetOp \cup CASOp, Serves(o) PROVE LWW!Next
  BY <1>1, ServesMap, Zenon
<1>2. ASSUME NEW o \in SetOp \cup CASOp, Begins(o) PROVE LWW!Next
  <2>1. Serving /\ Serving' /\ UNCHANGED <<store, Index, saved>> /\ ans' = NoAnswer
    BY <1>0, <1>2, Zenon DEF Begins, Serving, Rests
  <2> QED BY <1>a, <2>1, MapStays, Zenon
<1>3. ASSUME NEW o \in DelOp, Deletes(o) PROVE LWW!Next
  BY <1>3, DeletesMap, Zenon
<1>4. CASE Shorts
  <2>1. /\ Serving /\ Serving' /\ UNCHANGED <<store, Index, saved>>
        /\ ans' = [op |-> ShortOp, out |-> "err"]
    BY <1>4, Zenon DEF Shorts, Serving, Rests
  <2>2. UNCHANGED Map
    BY <2>1, MapStays, Zenon
  <2>3. LWW!Refused(LWW!ShortOp)
    BY <2>1, <2>2, Zenon DEF LWW!Refused, LWW!Answer, LWW!ShortOp, ShortOp
  <2> QED BY <2>3, Zenon DEF LWW!Next
<1>5. CASE Copies \/ Grew \/ Stutters
  <2>1. (Serving' <=> Serving) /\ UNCHANGED <<store, Index, saved, ans>>
    BY <1>5, Zenon DEF Copies, Grew, ExpandDone, Stutters, Rests, Serving
  <2> QED BY <2>1, MapStays, Zenon
<1>6. CASE Begins(Restore)
  <2>1. ~Serving /\ ~Serving' /\ UNCHANGED <<store, Index, saved>> /\ ans' = NoAnswer
    BY <1>0, <1>6, Zenon DEF Begins, Serving, Rests
  <2> QED BY <1>a, <2>1, MapStays, Zenon
<1>7. CASE Restores \/ Skips \/ Breaks
  <2>1. ~Serving /\ ~Serving' /\ UNCHANGED <<saved, ans>>
    BY <1>0, <1>7, Zenon DEF Restores, RestoreEffect, Skips, Breaks, Serving
  <2> QED BY <2>1, Zenon DEF Map
<1>8. CASE Leaves
  <2>1. ~Serving' /\ ans' = NoAnswer /\ saved' = IF Serving THEN Contents ELSE saved
    BY <1>8, Zenon DEF Leaves, Leave, Serving
  <2>2. Map' = saved'
    BY <2>1, Zenon DEF Map
  <2>3. UNCHANGED Map
    BY <2>1, <2>2, Zenon DEF Map
  <2> QED BY <1>a, <2>1, <2>3, Zenon
<1>9. CASE Turns
  <2>1. CASE Open \/ OpenPanics
    <3>1. ~Serving /\ ~Serving' /\ UNCHANGED <<saved, ans>>
      BY <1>0, <2>1, Zenon DEF Open, OpenPanics, Serving
    <3> QED BY <3>1, Zenon DEF Map
  <2>2. CASE OpenDone
    BY <1>9, <2>2, OpenDoneMap, Zenon DEF Turns
  <2> QED BY <1>9, <2>1, <2>2, Zenon DEF Turns
<1> HIDE DEF Map
<1> QED BY <1>1, <1>2, <1>3, <1>4, <1>5, <1>6, <1>7, <1>8, <1>9, StepIs, Zenon

(* A PMap is a durable last-writer-wins map: each call of Set, CAS and Del *)
(* takes effect once, also through an expansion; and a kill at any point   *)
(* followed by Open brings the same pairs back, unless a tombstone was     *)
(* refused, the hashmap could not grow or a key is empty.                  *)
THEOREM PMapImplementsLWW == Spec => ImplementsLWW
<1>1. Init => LWW!Init
  <2> SUFFICES ASSUME Init PROVE LWW!Init
    BY Zenon
  <2>0. Serving /\ Index = {} /\ ans = NoAnswer
    BY IndexEmpty, Zenon DEF Init, Serving
  <2>1. Inv
    BY InitInv, Zenon
  <2>2. Map = Pairs(store, {})
    BY <2>0, <2>1, MapIs, Zenon
  <2>3. Map = [k \in {} |-> 0]
    BY <2>2, Zenon DEF Pairs
  <2> QED BY <2>0, <2>3, Zenon DEF LWW!Init, LWW!NoAnswer, LWW!ShortOp, NoAnswer, ShortOp
<1>2. Init => Kept
  BY Zenon DEF Init, Kept, Serving
<1>3. Inv /\ Inv' /\ Logged /\ Kept /\ [Next]_vars => Kept'
  BY NextKept, Zenon
<1>4. Inv /\ Inv' /\ Logged /\ Kept /\ [Next]_vars => [LWW!Next]_<<Map, ans>>
  BY StepMap, Zenon
<1> QED BY <1>1, <1>2, <1>3, <1>4, PMapInv, LogInv, PTL DEF Spec, ImplementsLWW, LWW!Spec

-----------------------------------------------------------------------------
(* Sums over finite sets                                                   *)

\* SumFunctionOnSet takes the elements of a set one by one: the equation of the
\* recursive function in it
Taken(s) == CHOOSE x \in s : TRUE
SumStep(f, w, s) == IF s = {} THEN 0 ELSE w[Taken(s)] + f[s \ {Taken(s)}]
SumOf(f, w, S) == f = [s \in SUBSET S |-> SumStep(f, w, s)]

(* Among sets of subsets of a finite set there is a smallest one.          *)
LEMMA Smallest ==
    ASSUME NEW S, IsFiniteSet(S), NEW B \in SUBSET (SUBSET S), B # {}
    PROVE  \E u \in B : \A v \in SUBSET u : v # u => v \notin B
<1>1. B \subseteq FiniteSubsetsOf(S)
  BY FS_Subset, Zenon DEF FiniteSubsetsOf
<1>2. PICK u \in B : \A v \in B : ~(<<v, u>> \in StrictSubsetOrdering(S))
  BY <1>1, FS_StrictSubsetOrderingWellFounded, WFMin, Zenon
<1>3. ASSUME NEW v \in SUBSET u, v # u, v \in B PROVE FALSE
  BY <1>2, <1>3, Zenon DEF StrictSubsetOrdering
<1> QED BY <1>3, Zenon

(* What is taken is an element, and the rest is smaller.                   *)
LEMMA TakenIs ==
    ASSUME NEW s, s # {}
    PROVE  Taken(s) \in s /\ s \ {Taken(s)} \in SUBSET s /\ s \ {Taken(s)} # s
BY Zenon DEF Taken

(* The rest of a set is smaller.                                           *)
LEMMA Smaller ==
    ASSUME NEW u, NEW a \in u
    PROVE  \E v : v = u \ {a} /\ v \in SUBSET u /\ v # u
<1>1. u \ {a} \in SUBSET u /\ u \ {a} # u
  BY Zenon
<1> QED BY <1>1, Zenon

(* The equation, at a subset.                                              *)
LEMMA SumAt ==
    ASSUME NEW f, NEW w, NEW S, SumOf(f, w, S), NEW s \in SUBSET S
    PROVE  /\ s = {} => f[s] = 0
           /\ s # {} => f[s] = w[Taken(s)] + f[s \ {Taken(s)}]
<1>1. f[s] = SumStep(f, w, s)
  BY Zenon DEF SumOf
<1> QED BY <1>1, Zenon DEF SumStep

(* It has one solution at most.                                            *)
LEMMA SumAgrees ==
    ASSUME NEW w, NEW f, NEW g, NEW S, NEW T, SumOf(f, w, S), SumOf(g, w, T),
           NEW s, IsFiniteSet(s), s \subseteq S, s \subseteq T
    PROVE  f[s] = g[s]
<1> DEFINE B == {u \in SUBSET s : f[u] # g[u]}
<1>1. SUFFICES ASSUME B # {} PROVE FALSE
  BY Zenon
<1>2. PICK u \in B : \A v \in SUBSET u : v # u => v \notin B
  <2> HIDE DEF B
  <2>1. B \in SUBSET (SUBSET s)
    BY Zenon DEF B
  <2> QED BY <1>1, <2>1, Smallest, Zenon
<1>3. u \in SUBSET S /\ u \in SUBSET T /\ u \in SUBSET s /\ f[u] # g[u]
  BY Zenon
<1>4. CASE u = {}
  BY <1>3, <1>4, SumAt, Zenon
<1>5. CASE u # {}
  <2>1. u \ {Taken(u)} \in SUBSET u /\ u \ {Taken(u)} # u
    BY <1>5, TakenIs, Zenon
  <2>2. f[u \ {Taken(u)}] = g[u \ {Taken(u)}]
    BY <1>2, <1>3, <2>1, Zenon
  <2>3. f[u] = w[Taken(u)] + f[u \ {Taken(u)}]
    BY <1>3, <1>5, SumAt
  <2>4. g[u] = w[Taken(u)] + g[u \ {Taken(u)}]
    BY <1>3, <1>5, SumAt, ZenonT(40)
  <2> QED BY <1>3, <2>2, <2>3, <2>4, Zenon
<1> QED BY <1>4, <1>5, Zenon

\* The solution for S
Solution(w, S) == CHOOSE f : SumOf(f, w, S)

(* It has one.                                                             *)
LEMMA SumSolved ==
    ASSUME NEW w, NEW S, IsFiniteSet(S)
    PROVE  SumOf(Solution(w, S), w, S)
<1> DEFINE B == {u \in SUBSET S : ~SumOf(Solution(w, u), w, u)}
<1>1. SUFFICES ASSUME B # {} PROVE FALSE
  BY Zenon
<1>2. PICK u \in B : \A v \in SUBSET u : v # u => v \notin B
  <2> HIDE DEF B
  <2>1. B \in SUBSET (SUBSET S)
    BY Zenon DEF B
  <2> QED BY <1>1, <2>1, Smallest, Zenon
<1>3. ASSUME NEW v \in SUBSET u, v # u PROVE SumOf(Solution(w, v), w, v) /\ IsFiniteSet(v)
  BY <1>2, <1>3, FS_Subset, Zenon
<1> DEFINE Rest(s) == s \ {Taken(s)}
           g == [s \in SUBSET u |-> IF s = {} THEN 0
                                    ELSE w[Taken(s)] + Solution(w, Rest(s))[Rest(s)]]
<1>4. ASSUME NEW s \in SUBSET u, s # {} PROVE g[Rest(s)] = Solution(w, Rest(s))[Rest(s)]
  <2>1. PICK t : t = Rest(s)
    BY Zenon
  <2>2. t \in SUBSET u /\ t # u
    BY <1>4, <2>1, TakenIs, Zenon
  <2>3. SumOf(Solution(w, t), w, t) /\ IsFiniteSet(t)
    BY <1>3, <2>2, Zenon
  <2>4. CASE t = {}
    <3>1. Solution(w, t)[t] = 0
      BY <2>3, <2>4, SumAt, Zenon
    <3>2. g[t] = 0
      BY <2>2, <2>4, Zenon
    <3> QED BY <2>1, <3>1, <3>2, Zenon
  <2>5. CASE t # {}
    <3>1. Solution(w, t)[t] = w[Taken(t)] + Solution(w, t)[Rest(t)]
      BY <2>3, <2>5, SumAt
    <3>2. Rest(t) \in SUBSET t /\ Rest(t) \in SUBSET u /\ Rest(t) # u
      BY <2>2, <2>5, TakenIs, Zenon
    <3>3. SumOf(Solution(w, Rest(t)), w, Rest(t)) /\ IsFiniteSet(Rest(t))
      BY <1>3, <3>2, Zenon
    <3>4. PICK v : v = Rest(t)
      BY Zenon
    <3>5. Solution(w, t)[v] = Solution(w, v)[v]
      <4>1. v \subseteq t /\ v \subseteq v /\ IsFiniteSet(v) /\ SumOf(Solution(w, v), w, v)
        BY <3>2, <3>3, <3>4, Zenon
      <4> HIDE DEF Rest
      <4>2. PICK a : a = Solution(w, t)
        BY Zenon
      <4>3. PICK b : b = Solution(w, v)
        BY Zenon
      <4>4. SumOf(a, w, t) /\ SumOf(b, w, v)
        BY <2>3, <4>1, <4>2, <4>3, Zenon
      <4>5. a[v] = b[v]
        BY <4>1, <4>4, SumAgrees
      <4> QED BY <4>2, <4>3, <4>5, Zenon
    <3>6. g[t] = w[Taken(t)] + Solution(w, Rest(t))[Rest(t)]
      BY <2>2, <2>5, Zenon
    <3> QED BY <2>1, <3>1, <3>4, <3>5, <3>6, Zenon
  <2> QED BY <2>4, <2>5, Zenon
<1>5. ASSUME NEW s \in SUBSET u PROVE g[s] = SumStep(g, w, s)
  <2>1. CASE s = {}
    BY <2>1, Zenon DEF SumStep
  <2>2. CASE s # {}
    <3>1. g[s] = w[Taken(s)] + Solution(w, Rest(s))[Rest(s)]
      BY <2>2, Zenon
    <3> HIDE DEF g
    <3> QED BY <1>4, <2>2, <3>1, Zenon DEF SumStep
  <2> QED BY <2>1, <2>2, Zenon
<1>6. g = [s \in SUBSET u |-> g[s]]
  BY Zenon
<1> HIDE DEF g
<1>7. SumOf(g, w, u)
  BY <1>5, <1>6, Zenon DEF SumOf
<1>8. SumOf(Solution(w, u), w, u)
  BY <1>7, Zenon DEF Solution
<1> QED BY <1>8, Zenon
(* The sum of a set is that of an element and of the rest.                 *)
LEMMA SumIs ==
    ASSUME NEW w, NEW S, IsFiniteSet(S)
    PROVE  /\ S = {} => SumFunctionOnSet(w, S) = 0
           /\ S # {} => SumFunctionOnSet(w, S) =
                            w[Taken(S)] + SumFunctionOnSet(w, S \ {Taken(S)})
<1>1. ASSUME NEW T PROVE SumFunctionOnSet(w, T) = Solution(w, T)[T]
  <2>1. SumFunctionOnSet(w, T) =
            (CHOOSE f : f = [s \in SUBSET T |-> IF s = {} THEN 0
                    ELSE w[CHOOSE x \in s : TRUE] + f[s \ {CHOOSE x \in s : TRUE}]])[T]
    BY Zenon DEF SumFunctionOnSet, FoldFunctionOnSet, MapThenFoldSet
  <2> QED BY <2>1, Zenon DEF Solution, SumOf, SumStep, Taken
<1>2. PICK f : f = Solution(w, S) /\ SumOf(f, w, S)
  BY SumSolved, Zenon
<1>3. CASE S = {}
  BY <1>1, <1>2, <1>3, SumAt, ZenonT(40)
<1>4. CASE S # {}
  <2>0. Taken(S) \in S
    BY <1>4, TakenIs, Zenon
  <2>1. PICK R : R = S \ {Taken(S)} /\ R \in SUBSET S /\ R # S
    BY <2>0, Smaller
  <2>2. IsFiniteSet(R)
    BY <2>1, FS_Subset, Zenon
  <2>3. PICK g : g = Solution(w, R) /\ SumOf(g, w, R)
    BY <2>2, SumSolved, Zenon
  <2>4. f[R] = g[R]
    BY <1>2, <2>1, <2>2, <2>3, SumAgrees
  <2>5. f[S] = w[Taken(S)] + f[R]
    BY <1>2, <1>4, <2>1, SumAt, ZenonT(40)
  <2> QED BY <1>1, <1>2, <1>4, <2>1, <2>3, <2>4, <2>5, Zenon
<1> QED BY <1>3, <1>4, Zenon

(* It is a number when they are.                                           *)
LEMMA SumType ==
    ASSUME NEW w, NEW S, IsFiniteSet(S), \A x \in S : w[x] \in Nat
    PROVE  SumFunctionOnSet(w, S) \in Nat
<1> DEFINE B == {u \in SUBSET S : SumFunctionOnSet(w, u) \notin Nat}
<1>1. SUFFICES ASSUME B # {} PROVE FALSE
  BY Zenon
<1>2. PICK u \in B : \A v \in SUBSET u : v # u => v \notin B
  <2>1. B \in SUBSET (SUBSET S)
    BY Zenon
  <2> HIDE DEF B
  <2> QED BY <1>1, <2>1, Smallest, Zenon
<1>3. u \in SUBSET S /\ IsFiniteSet(u) /\ SumFunctionOnSet(w, u) \notin Nat
  BY FS_Subset, Zenon
<1>4. SumFunctionOnSet(w, {}) = 0
  BY FS_EmptySet, SumIs, Zenon
<1>5. u # {}
  BY <1>3, <1>4
<1>6. PICK a \in u : a = Taken(u)
  BY <1>5, TakenIs, Zenon
<1>7. PICK v : v = u \ {a} /\ v \in SUBSET u /\ v # u
  BY <1>6, Smaller
<1>8. SumFunctionOnSet(w, u) = w[a] + SumFunctionOnSet(w, v)
  BY <1>3, <1>5, <1>6, <1>7, SumIs, Zenon
<1>9. SumFunctionOnSet(w, v) \in Nat /\ w[a] \in Nat
  BY <1>2, <1>3, <1>6, <1>7, Zenon
<1> QED BY <1>3, <1>8, <1>9

\* Any element can be the one
Splits(w, S) == \A x \in S : SumFunctionOnSet(w, S) = w[x] + SumFunctionOnSet(w, S \ {x})

(* It can.                                                                 *)
LEMMA SumSplit ==
    ASSUME NEW w, NEW S, IsFiniteSet(S), \A x \in S : w[x] \in Nat
    PROVE  Splits(w, S)
<1> DEFINE B == {u \in SUBSET S : ~Splits(w, u)}
<1>1. SUFFICES ASSUME B # {} PROVE FALSE
  BY Zenon
<1>2. PICK u \in B : \A v \in SUBSET u : v # u => v \notin B
  <2>1. B \in SUBSET (SUBSET S)
    BY Zenon
  <2> HIDE DEF B
  <2> QED BY <1>1, <2>1, Smallest, Zenon
<1>3. u \in SUBSET S /\ ~Splits(w, u) /\ \A v \in SUBSET u : v # u => Splits(w, v)
  BY <1>2, Zenon
<1> HIDE DEF B
<1>4. ASSUME NEW v \in SUBSET u
      PROVE  IsFiniteSet(v) /\ SumFunctionOnSet(w, v) \in Nat
  <2>1. IsFiniteSet(v) /\ \A y \in v : w[y] \in Nat
    BY <1>3, FS_Subset, Zenon
  <2> QED BY <2>1, SumType, Zenon
<1>5. PICK x \in u : SumFunctionOnSet(w, u) # w[x] + SumFunctionOnSet(w, u \ {x})
  BY <1>3, Zenon DEF Splits
<1>6. PICK a \in u : SumFunctionOnSet(w, u) = w[a] + SumFunctionOnSet(w, u \ {a})
  BY <1>4, SumIs, TakenIs, Zenon
<1>7. x # a /\ w[x] \in Nat /\ w[a] \in Nat
  BY <1>3, <1>5, <1>6, Zenon
<1>8. ASSUME NEW y \in u, NEW z \in u, y # z
      PROVE  SumFunctionOnSet(w, u \ {y}) = w[z] + SumFunctionOnSet(w, (u \ {y}) \ {z})
  <2>1. PICK v : v = u \ {y} /\ v \in SUBSET u /\ v # u
    BY Smaller
  <2>2. z \in v
    BY <1>8, <2>1, Zenon
  <2>3. SumFunctionOnSet(w, v) = w[z] + SumFunctionOnSet(w, v \ {z})
    BY <1>3, <2>1, <2>2, Zenon DEF Splits
  <2> QED BY <2>1, <2>3, Zenon
<1>9. PICK t : t = (u \ {x}) \ {a} /\ t = (u \ {a}) \ {x} /\ t \in SUBSET u
  BY Zenon
<1>10. PICK n \in Nat : n = SumFunctionOnSet(w, t)
  BY <1>4, <1>9, Zenon
<1>11. SumFunctionOnSet(w, u \ {a}) = w[x] + n /\ SumFunctionOnSet(w, u \ {x}) = w[a] + n
  BY <1>7, <1>8, <1>9, <1>10, Zenon
<1> QED BY <1>5, <1>6, <1>7, <1>11

(* The sum depends on the numbers of the set only.                         *)
LEMMA SumSame ==
    ASSUME NEW w, NEW z, NEW S, IsFiniteSet(S), \A x \in S : w[x] = z[x]
    PROVE  SumFunctionOnSet(w, S) = SumFunctionOnSet(z, S)
<1> DEFINE B == {u \in SUBSET S : SumFunctionOnSet(w, u) # SumFunctionOnSet(z, u)}
<1>1. SUFFICES ASSUME B # {} PROVE FALSE
  BY Zenon
<1>2. PICK u \in B : \A v \in SUBSET u : v # u => v \notin B
  <2>1. B \in SUBSET (SUBSET S)
    BY Zenon
  <2> HIDE DEF B
  <2> QED BY <1>1, <2>1, Smallest, Zenon
<1>3. /\ u \in SUBSET S /\ IsFiniteSet(u) /\ SumFunctionOnSet(w, u) # SumFunctionOnSet(z, u)
      /\ \A v \in SUBSET u : v # u => SumFunctionOnSet(w, v) = SumFunctionOnSet(z, v)
  BY <1>2, FS_Subset, Zenon
<1> HIDE DEF B
<1>4. SumFunctionOnSet(w, {}) = 0 /\ SumFunctionOnSet(z, {}) = 0
  BY FS_EmptySet, SumIs, Zenon
<1>5. u # {}
  BY <1>3, <1>4, Zenon
<1>6. PICK a \in u : a = Taken(u)
  BY <1>5, TakenIs, Zenon
<1>7. PICK v : v = u \ {a} /\ v \in SUBSET u /\ v # u
  BY <1>6, Smaller
<1>8. SumFunctionOnSet(w, u) = w[a] + SumFunctionOnSet(w, v)
  BY <1>3, <1>5, <1>6, <1>7, SumIs, Zenon
<1>9. SumFunctionOnSet(z, u) = z[a] + SumFunctionOnSet(z, v)
  BY <1>3, <1>5, <1>6, <1>7, SumIs, Zenon
<1> QED BY <1>3, <1>6, <1>7, <1>8, <1>9, Zenon

-----------------------------------------------------------------------------
(* The bytes of the store                                                  *)

\* The bytes of the records S of s
Total(s, S) == SumFunctionOnSet([n \in 1..Len(s) |-> RecordSize(s[n])], S)

(* Records have bytes.                                                     *)
LEMMA TotalType ==
    ASSUME NEW s \in Seq(Record), NEW S \in SUBSET (1..Len(s))
    PROVE  IsFiniteSet(S) /\ Total(s, S) \in Nat
<1> DEFINE w == [n \in 1..Len(s) |-> RecordSize(s[n])]
<1>1. IsFiniteSet(S)
  <2>1. IsFiniteSet(1..Len(s))
    BY FS_Interval
  <2> QED BY <2>1, FS_Subset, Zenon
<1>2. \A n \in S : s[n] \in Record
  OBVIOUS
<1>3. \A n \in S : w[n] \in Nat
  BY <1>2, RecordSizeType, Zenon
<1> HIDE DEF w
<1>4. SumFunctionOnSet(w, S) \in Nat
  BY <1>1, <1>3, SumType, Zenon
<1> QED BY <1>1, <1>4, Zenon DEF Total, w

(* One record among others.                                                *)
LEMMA TotalLess ==
    ASSUME NEW s \in Seq(Record), NEW S \in SUBSET (1..Len(s)), NEW x \in S
    PROVE  /\ Total(s, S) = Total(s, S \ {x}) + RecordSize(s[x])
           /\ RecordSize(s[x]) \in Nat
<1> DEFINE w == [n \in 1..Len(s) |-> RecordSize(s[n])]
<1>1. IsFiniteSet(S)
  BY TotalType, Zenon
<1>2. \A n \in S : s[n] \in Record
  OBVIOUS
<1>3. \A n \in S : w[n] \in Nat
  BY <1>2, RecordSizeType, Zenon
<1>4. w[x] = RecordSize(s[x]) /\ w[x] \in Nat
  BY <1>3, Zenon
<1>5. Total(s, S \ {x}) \in Nat
  BY TotalType, Zenon
<1>6. Total(s, S) = SumFunctionOnSet(w, S) /\ Total(s, S \ {x}) = SumFunctionOnSet(w, S \ {x})
  BY Zenon DEF Total
<1> HIDE DEF w
<1>7. SumFunctionOnSet(w, S) = w[x] + SumFunctionOnSet(w, S \ {x})
  BY <1>1, <1>3, SumSplit, ZenonT(40) DEF Splits
<1> QED BY <1>4, <1>5, <1>6, <1>7

(* One record more.                                                        *)
LEMMA TotalMore ==
    ASSUME NEW s \in Seq(Record), NEW S \in SUBSET (1..Len(s)), NEW n \in 1..Len(s), n \notin S
    PROVE  Total(s, S \cup {n}) = Total(s, S) + RecordSize(s[n])
<1>1. PICK T : T = S \cup {n} /\ T \ {n} = S /\ T \in SUBSET (1..Len(s)) /\ n \in T
  <2>1. (S \cup {n}) \ {n} = S /\ S \cup {n} \in SUBSET (1..Len(s)) /\ n \in S \cup {n}
    BY Zenon
  <2> QED BY <2>1, Zenon
<1>2. Total(s, T) = Total(s, T \ {n}) + RecordSize(s[n])
  BY <1>1, TotalLess, Zenon
<1> QED BY <1>1, <1>2, Zenon

(* The first records, one by one.                                          *)
LEMMA TotalFirst ==
    ASSUME NEW s \in Seq(Record), NEW n \in Nat, n < Len(s)
    PROVE  Total(s, 1..(n + 1)) = Total(s, 1..n) + RecordSize(s[n + 1])
<1>1. /\ 1..(n + 1) = (1..n) \cup {n + 1} /\ 1..n \in SUBSET (1..Len(s))
      /\ n + 1 \in 1..Len(s) /\ n + 1 \notin 1..n
  OBVIOUS
<1>2. PICK S : S = 1..n
  BY Zenon
<1>3. Total(s, S \cup {n + 1}) = Total(s, S) + RecordSize(s[n + 1])
  BY <1>1, <1>2, TotalMore, Zenon
<1> QED BY <1>1, <1>2, <1>3, Zenon

(* No record, no bytes.                                                    *)
LEMMA TotalNone ==
    ASSUME NEW s
    PROVE  Total(s, {}) = 0 /\ Total(s, 1..0) = 0
<1>1. 1..0 = {} /\ IsFiniteSet({})
  BY FS_EmptySet
<1> QED BY <1>1, SumIs, Zenon DEF Total

(* Old records keep their bytes when the store grows.                      *)
LEMMA TotalKept ==
    ASSUME NEW s \in Seq(Record), NEW r \in Record, NEW S \in SUBSET (1..Len(s))
    PROVE  Total(Append(s, r), S) = Total(s, S)
<1> DEFINE t == Append(s, r)
           w == [n \in 1..Len(s) |-> RecordSize(s[n])]
           z == [n \in 1..Len(t) |-> RecordSize(t[n])]
<1>1. IsFiniteSet(S)
  BY TotalType, Zenon
<1>2. \A n \in S : n \in 1..Len(s) /\ n \in 1..Len(t) /\ t[n] = s[n]
  OBVIOUS
<1> HIDE DEF t
<1>3. \A n \in S : w[n] = z[n]
  BY <1>2, Zenon
<1>4. Total(s, S) = SumFunctionOnSet(w, S) /\ Total(t, S) = SumFunctionOnSet(z, S)
  BY Zenon DEF Total
<1> HIDE DEF w, z
<1>5. SumFunctionOnSet(w, S) = SumFunctionOnSet(z, S)
  BY <1>1, <1>3, SumSame, Zenon
<1> QED BY <1>4, <1>5, Zenon DEF t

(* The used bytes are those of the records the index stands for, the       *)
(* deleted ones are none of those indexed, and while Open counts them it   *)
(* misses none unless it could not index a record.                         *)
Weighed ==
    /\ length = Total(store, 1..Upto)
    /\ deleted + Total(store, Index) <= length
    /\ ~Serving /\ "restore" \notin refused => deleted + Total(store, Index) = length

(* The types of the bytes.                                                 *)
LEMMA WeighedTypes ==
    ASSUME Inv
    PROVE  /\ store \in Seq(Record) /\ length \in Nat /\ deleted \in Nat
           /\ Len(store) \in Nat /\ restored \in 0..Len(store)
           /\ Index \in SUBSET (1..Len(store)) /\ Total(store, Index) \in Nat
           /\ \A k : Others(k) \in SUBSET (1..Len(store)) /\ Total(store, Others(k)) \in Nat
<1>1. store \in Seq(Record) /\ length \in Nat /\ deleted \in Nat
  BY Zenon DEF Inv, TypeOK
<1>2. Len(store) \in Nat /\ restored \in 0..Len(store)
  BY LogTypes, Zenon
<1>3. Index \in SUBSET (1..Len(store))
  BY IndexIs, Zenon DEF IndexFacts
<1>4. \A k : Others(k) \in SUBSET (1..Len(store))
  BY <1>3, Zenon DEF Others
<1> QED BY <1>1, <1>2, <1>3, <1>4, TotalType, Zenon

(* The pair of a key among those indexed.                                  *)
LEMMA OldIs ==
    ASSUME Inv, NEW k \in Key
    PROVE  OldBytes(k) \in Nat /\ Total(store, Index) = Total(store, Others(k)) + OldBytes(k)
<1>1. IndexFacts /\ store \in Seq(Record) /\ Index \in SUBSET (1..Len(store))
      /\ Total(store, Index) \in Nat
  BY IndexIs, WeighedTypes, Zenon
<1>2. CASE IsFound(k)
  <2>1. PICK x \in Index : store[x].key = k /\ Found(k) = store[x]
    BY <1>1, <1>2, Zenon DEF IndexFacts, Found
  <2>2. \A y \in Index : store[y].key = k => y = x
    BY <1>1, <2>1, Zenon DEF IndexFacts
  <2>3. Others(k) = Index \ {x}
    BY <2>1, <2>2, Zenon DEF Others
  <2>4. OldBytes(k) = RecordSize(store[x])
    BY <1>2, <2>1, Zenon DEF OldBytes
  <2> QED BY <1>1, <2>3, <2>4, TotalLess, Zenon
<1>3. CASE ~IsFound(k)
  <2>1. \A y \in Index : store[y].key # k
    BY <1>1, <1>3, Zenon DEF IndexFacts
  <2>2. Others(k) = Index
    BY <2>1, Zenon DEF Others
  <2> QED BY <1>1, <1>3, <2>2 DEF OldBytes
<1> QED BY <1>2, <1>3, Zenon

(* A step that moves no bytes.                                             *)
LEMMA WeighedKept ==
    ASSUME Weighed, UNCHANGED <<store, length, deleted, Index>>, Upto' = Upto,
           Serving' \/ (~Serving /\ refused' = refused)
    PROVE  Weighed'
BY Zenon DEF Weighed

(* Set and CAS use the bytes of what they write, and set none aside.       *)
LEMMA WriteWeighed ==
    ASSUME Inv, Weighed, NEW o \in SetOp \cup CASOp, Writes(o), Upto = Len(store),
           Serving', Upto' = Len(store')
    PROVE  Weighed'
<1>1. PICK r \in Record : r = Pair(o.key, o.ts, o.val)
  BY PairType, Zenon DEF SetOp, CASOp
<1>2. PICK k \in Key : k = o.key
  BY Zenon DEF SetOp, CASOp
<1>3. PICK s \in Seq(Record) : s = Append(store, r)
  <2>1. Append(store, r) \in Seq(Record)
    BY WeighedTypes
  <2> QED BY <2>1, Zenon
<1>4. PICK n \in Nat : n = Len(store)
  BY WeighedTypes, Zenon
<1>5. Len(s) = n + 1 /\ s[n + 1] = r /\ n < Len(s) /\ n + 1 \in 1..Len(s)
  BY <1>3, <1>4, AppendKeeps
<1>6. RecordSize(r) \in Nat
  BY RecordSizeType, Zenon
<1>7. Total(s, 1..(n + 1)) = length + RecordSize(r)
  <2>1. Total(s, 1..(n + 1)) = Total(s, 1..n) + RecordSize(s[n + 1])
    BY <1>5, TotalFirst, Zenon
  <2>2. Total(s, 1..n) = Total(store, 1..n)
    BY <1>3, <1>4, WeighedTypes, TotalKept, Zenon
  <2>3. length = Total(store, 1..n)
    BY <1>4, Zenon DEF Weighed
  <2> QED BY <1>5, <2>1, <2>2, <2>3, Zenon
<1>8. Total(s, Others(k) \cup {n + 1}) = Total(store, Others(k)) + RecordSize(r)
  <2>1. PICK R : R = Others(k) /\ R \in SUBSET (1..Len(store))
    BY WeighedTypes, Zenon
  <2>2. R \in SUBSET (1..Len(s)) /\ n + 1 \notin R
    BY <1>4, <1>5, <2>1
  <2>3. Total(s, R \cup {n + 1}) = Total(s, R) + RecordSize(s[n + 1])
    BY <1>5, <2>2, TotalMore, Zenon
  <2>4. Total(s, R) = Total(store, R)
    BY <1>3, <2>1, WeighedTypes, TotalKept, Zenon
  <2> QED BY <1>5, <2>1, <2>3, <2>4, Zenon
<1>9. PICK a \in Nat, b \in Nat : a = Total(store, Others(k)) /\ b = OldBytes(k) /\ Total(store, Index) = a + b
  BY OldIs, WeighedTypes, Zenon
<1>10. deleted + (a + b) <= length /\ deleted \in Nat /\ length \in Nat
  BY <1>9, WeighedTypes, Zenon DEF Weighed
<1>11. /\ length' = length + RecordSize(r) /\ deleted' = deleted
       /\ store' = s /\ Index' = Others(k) \cup {n + 1} /\ Upto' = n + 1
  BY <1>1, <1>2, <1>3, <1>4, <1>5, Zenon DEF Writes
<1>12. length' = Total(store', 1..Upto') /\ Total(store', Index') = a + RecordSize(r)
  BY <1>7, <1>8, <1>9, <1>11, Zenon
<1>13. deleted' + Total(store', Index') <= length'
  BY <1>6, <1>10, <1>11, <1>12
<1> QED BY <1>12, <1>13, Zenon DEF Weighed

(* Del sets the bytes of the pair aside, and uses those of the tombstone.  *)
LEMMA DelWeighed ==
    ASSUME Inv, Weighed, NEW o \in DelOp, DelEffect(o), Upto = Len(store),
           Serving', Upto' = Len(store')
    PROVE  Weighed'
<1>1. CASE Rests
  BY <1>1, WeighedKept, Zenon DEF Rests
<1>2. PICK k \in Key : k = o.key
  BY Zenon DEF DelOp
<1>3. PICK a \in Nat, b \in Nat : a = Total(store, Others(k)) /\ b = OldBytes(k) /\ Total(store, Index) = a + b
  BY OldIs, WeighedTypes, Zenon
<1>4. deleted + (a + b) <= length /\ deleted \in Nat /\ length \in Nat
  BY <1>3, WeighedTypes, Zenon DEF Weighed
<1>5. PICK n \in Nat : n = Len(store) /\ length = Total(store, 1..n)
  BY WeighedTypes, Zenon DEF Weighed
<1>6. CASE /\ Index' = Others(k) /\ deleted' = deleted + b
           /\ store' = Append(store, Tombstone(k))
           /\ length' = length + RecordSize(Tombstone(k))
  <2>1. PICK r \in Record : r = Tombstone(k)
    BY TombstoneType, Zenon
  <2>2. PICK s \in Seq(Record) : s = Append(store, r)
    <3>1. Append(store, r) \in Seq(Record)
      BY WeighedTypes
    <3> QED BY <3>1, Zenon
  <2>3. Len(s) = n + 1 /\ s[n + 1] = r /\ n < Len(s)
    BY <1>5, <2>2, AppendKeeps
  <2>4. Total(s, 1..(n + 1)) = length + RecordSize(r)
    <3>1. Total(s, 1..(n + 1)) = Total(s, 1..n) + RecordSize(s[n + 1])
      BY <2>3, TotalFirst, Zenon
    <3>2. Total(s, 1..n) = Total(store, 1..n)
      BY <1>5, <2>2, WeighedTypes, TotalKept, Zenon
    <3> QED BY <1>5, <2>3, <3>1, <3>2, Zenon
  <2>5. Total(s, Others(k)) = a
    <3>1. PICK R : R = Others(k) /\ R \in SUBSET (1..Len(store))
      BY WeighedTypes, Zenon
    <3>2. Total(s, R) = Total(store, R)
      BY <2>2, <3>1, WeighedTypes, TotalKept, Zenon
    <3> QED BY <1>3, <3>1, <3>2, Zenon
  <2>6. length' = length + RecordSize(r) /\ store' = s /\ Upto' = n + 1
    BY <1>6, <2>1, <2>2, <2>3, Zenon
  <2>7. length' = Total(store', 1..Upto') /\ Total(store', Index') = a
    BY <1>6, <2>4, <2>5, <2>6, Zenon
  <2>8. deleted' + Total(store', Index') <= length'
    <3>1. RecordSize(r) \in Nat
      BY RecordSizeType, Zenon
    <3> QED BY <1>4, <1>6, <2>6, <2>7, <3>1
  <2> QED BY <2>7, <2>8, Zenon DEF Weighed
<1>7. CASE Index' = Others(k) /\ deleted' = deleted + b /\ store' = store /\ length' = length
  <2>1. length' = Total(store', 1..Upto') /\ Total(store', Index') = a
    BY <1>3, <1>5, <1>7, Zenon
  <2>2. deleted' + Total(store', Index') <= length'
    BY <1>4, <1>7, <2>1
  <2> QED BY <2>1, <2>2, Zenon DEF Weighed
<1> QED BY <1>1, <1>2, <1>3, <1>6, <1>7, Zenon DEF DelEffect

(* Open meets a tombstone where the pair it deletes is indexed.            *)
LEMMA TombFinds ==
    ASSUME Inv, Logged, Restores, store[restored + 1].tomb
    PROVE  IsFound(store[restored + 1].key)
<1>1. /\ Len(store) \in Nat /\ restored \in 0..Len(store) /\ restored < Len(store)
      /\ restored \in Nat /\ restored + 1 \in 1..Len(store) /\ (restored + 1) - 1 = restored
  <2>1. Len(store) \in Nat /\ restored \in 0..Len(store) /\ restored < Len(store)
    BY LogTypes, Zenon DEF Restores
  <2> QED BY <2>1
<1>2. ~Serving /\ NoOp # Restore
  BY LogTypes, Zenon DEF Restores, Serving, Restore
<1>3. PICK p \in 0..Len(store) : WellFormed(store, p) /\ restored < p /\ Index = Alive(store, restored)
  <2>1. CASE "restore" \notin refused
    <3>1. Healthy
      BY <2>1, Zenon DEF Logged
    <3>2. WellFormed(store, Len(store)) /\ Index = Alive(store, restored)
      BY <1>2, <3>1, Zenon DEF Healthy, Follows
    <3> QED BY <1>1, <3>2
  <2>2. CASE "restore" \in refused
    <3>1. PICK p \in 0..Len(store) : \E f :
            /\ WellFormed(store, p) /\ Full(f[p])
            /\ Stuck(p) \/ Retraces(f, p)
      BY <2>2, Zenon DEF Logged, Wedged
    <3>2. PICK f : WellFormed(store, p) /\ Full(f[p]) /\ (Stuck(p) \/ Retraces(f, p))
      BY <3>1, Zenon
    <3>3. ~Stuck(p)
      BY Zenon DEF Restores, Stuck
    <3>4. Follows(f) /\ restored <= p /\ WellFormed(store, p)
      BY <3>2, <3>3, Zenon DEF Retraces
    <3>5. restored # p
      <4>1. CASE pc = "run"
        BY <3>2, <3>4, <4>1, Zenon DEF Follows
      <4>2. CASE pc = "restore" /\ HasRoom
        <5>1. <<size, numStoredKeys>> = f[restored]
          BY <3>4, <4>2, Zenon DEF Follows
        <5>2. f[restored][1] = size /\ f[restored][2] = numStoredKeys
          BY <5>1
        <5>3. ~Full(f[restored])
          BY <4>2, <5>2, Zenon DEF HasRoom, Tight, Full
        <5> QED BY <3>2, <5>3, Zenon
      <4> QED BY <4>1, <4>2, Zenon DEF Restores
    <3>6. restored < p /\ Index = Alive(store, restored)
      BY <1>1, <3>4, <3>5 DEF Follows
    <3> QED BY <3>4, <3>6, Zenon
  <2> QED BY <2>1, <2>2, Zenon
<1>4. restored + 1 \in 1..p
  BY <1>1, <1>3
<1>5. \E i \in Alive(store, restored) : store[i].key = store[restored + 1].key
  BY <1>1, <1>3, <1>4, Zenon DEF WellFormed
<1>6. store[restored + 1].key \in Key
  BY <1>1, LogTypes, Zenon
<1> QED BY <1>3, <1>5, <1>6, IndexIs, Zenon DEF IndexFacts

(* Open counts the bytes of a record as used, those of the pair it follows *)
(* up and its own, if it is a tombstone, as deleted.                       *)
LEMMA RestoreWeighed ==
    ASSUME Inv, Logged, Weighed, Restores
    PROVE  Weighed'
<1>0. PICK n \in Nat : n = restored /\ n < Len(store) /\ n + 1 \in 1..Len(store)
  <2>1. restored \in Nat /\ restored < Len(store) /\ restored + 1 \in 1..Len(store)
    BY WeighedTypes DEF Restores
  <2> QED BY <2>1, Zenon
<1>1. PICK r \in Record : r = store[n + 1]
  BY <1>0, LogTypes, Zenon
<1>2. PICK k \in Key : k = r.key
  BY Zenon DEF Record
<1>3. ~Serving /\ ~Serving' /\ Upto = n /\ Upto' = n + 1 /\ refused' = refused
  BY <1>0, LogTypes, Zenon DEF Restores, RestoreEffect, Serving, Upto, Restore
<1>4. PICK a \in Nat, b \in Nat : a = Total(store, Others(k)) /\ b = OldBytes(k) /\ Total(store, Index) = a + b
  BY OldIs, WeighedTypes, Zenon
<1>5. /\ deleted \in Nat /\ length \in Nat /\ length = Total(store, 1..n)
      /\ deleted + (a + b) <= length
      /\ "restore" \notin refused => deleted + (a + b) = length
  BY <1>3, <1>4, WeighedTypes, Zenon DEF Weighed
<1>6. /\ store' = store /\ length' = length + RecordSize(r)
      /\ deleted' = deleted + b + TombBytes(r)
      /\ Index' = IF r.tomb THEN Others(k) ELSE Others(k) \cup {n + 1}
  <2>1. r.tomb => IsFound(k)
    BY <1>0, <1>1, <1>2, TombFinds, Zenon
  <2>2. RestoreEffect
    BY Zenon DEF Restores
  <2> QED BY <1>0, <1>1, <1>2, <1>4, <2>1, <2>2, Zenon DEF RestoreEffect
<1>7. Total(store, 1..(n + 1)) = length + RecordSize(r)
  BY <1>0, <1>1, <1>5, WeighedTypes, TotalFirst, Zenon
<1>8. RecordSize(r) \in Nat
  BY RecordSizeType, Zenon
<1>9. CASE r.tomb
  <2>1. deleted' = deleted + b + RecordSize(r) /\ Total(store', Index') = a
    BY <1>4, <1>6, <1>9, Zenon DEF TombBytes
  <2>2. length' = Total(store', 1..Upto')
    BY <1>3, <1>6, <1>7, Zenon
  <2>3. /\ deleted' + Total(store', Index') <= length'
        /\ "restore" \notin refused => deleted' + Total(store', Index') = length'
    BY <1>5, <1>6, <1>8, <2>1
  <2> QED BY <1>3, <2>2, <2>3, Zenon DEF Weighed
<1>10. CASE ~r.tomb
  <2>1. n + 1 \notin Others(k)
    <3>1. PICK m \in 0..n : Index \subseteq Alive(store, m)
      BY <1>3, IndexAlive, Zenon
    <3>2. Index \subseteq 1..m
      BY <3>1, Zenon DEF Alive
    <3>3. n + 1 \notin 1..m
      BY <3>1
    <3> QED BY <3>2, <3>3, Zenon DEF Others
  <2>2. Total(store', Index') = a + RecordSize(r)
    <3>1. PICK R : R = Others(k) /\ R \in SUBSET (1..Len(store)) /\ n + 1 \notin R
      BY <2>1, WeighedTypes, Zenon
    <3>2. Total(store, R \cup {n + 1}) = Total(store, R) + RecordSize(store[n + 1])
      BY <1>0, <3>1, WeighedTypes, TotalMore, Zenon
    <3> QED BY <1>1, <1>4, <1>6, <1>10, <3>1, <3>2, Zenon
  <2>3. deleted' = deleted + b
    BY <1>5, <1>6, <1>10 DEF TombBytes
  <2>4. length' = Total(store', 1..Upto')
    BY <1>3, <1>6, <1>7, Zenon
  <2>5. /\ deleted' + Total(store', Index') <= length'
        /\ "restore" \notin refused => deleted' + Total(store', Index') = length'
    BY <1>5, <1>6, <1>8, <2>2, <2>3, SMTT(30)
  <2> QED BY <1>3, <2>4, <2>5, Zenon DEF Weighed
<1> QED BY <1>9, <1>10, Zenon

(* Every step keeps the count of the bytes.                                *)
LEMMA NextWeighed ==
    ASSUME Inv, Logged, Weighed, [Next]_vars
    PROVE  Weighed'
<1>0. /\ Len(store) \in Nat /\ restored \in 0..Len(store)
      /\ op = NoOp <=> pc \notin {"expand", "run"}
      /\ NoOp # Restore /\ NoOp.kind = "none" /\ Restore.kind = "restore"
      /\ \A o \in SetOp \cup CASOp : o.kind # "restore" /\ o # Restore /\ o # NoOp
  BY LogTypes, Zenon
<1>1. ASSUME NEW o \in SetOp \cup CASOp, Serves(o) PROVE Weighed'
  <2>1. Upto = Len(store) /\ Upto' = Len(store') /\ Serving' /\ CallEffect(o)
    BY <1>1, Zenon DEF Serves, CallEffect, Upto, Serving
  <2>2. CASE Writes(o)
    BY <2>1, <2>2, WriteWeighed, Zenon
  <2>3. CASE UNCHANGED <<store, length, deleted, Index>>
    BY <2>1, <2>3, WeighedKept, Zenon
  <2> QED BY <2>1, <2>2, <2>3, Zenon DEF CallEffect, Rests
<1>2. ASSUME NEW o \in DelOp, Deletes(o) PROVE Weighed'
  <2>1. Upto = Len(store) /\ Upto' = Len(store') /\ Serving' /\ DelEffect(o)
    BY <1>2, Zenon DEF Deletes, DelEffect, Upto, Serving
  <2> QED BY <2>1, DelWeighed, Zenon
<1>3. ASSUME Rests, Upto' = Upto, Serving' \/ ~Serving PROVE Weighed'
  BY <1>3, WeighedKept, Zenon DEF Rests
<1>4. ASSUME NEW o \in SetOp \cup CASOp, Begins(o) PROVE Weighed'
  <2>1. Rests /\ Upto' = Upto /\ Serving'
    BY <1>0, <1>4, Zenon DEF Begins, Upto, Serving, Rests
  <2> QED BY <1>3, <2>1, Zenon
<1>5. CASE Shorts \/ Copies \/ Grew
  <2>1. Rests /\ Upto' = Upto /\ (Serving' <=> Serving)
    BY <1>5, Zenon DEF Shorts, Copies, Grew, ExpandDone, Upto, Serving, Rests
  <2> QED BY <1>3, <2>1, Zenon
<1>6. CASE Begins(Restore)
  <2>1. Rests /\ Upto' = Upto /\ ~Serving
    BY <1>0, <1>6, Zenon DEF Begins, Upto, Serving, Rests
  <2> QED BY <1>3, <2>1, Zenon
<1>7. CASE Restores
  BY <1>7, RestoreWeighed, Zenon
<1>8. CASE Skips
  <2>1. PICK n \in Nat : n = restored /\ n < Len(store) /\ n + 1 \in 1..Len(store)
    <3>1. restored \in Nat /\ restored < Len(store) /\ restored + 1 \in 1..Len(store)
      BY <1>0, <1>8 DEF Skips
    <3> QED BY <3>1, Zenon
  <2>2. PICK r \in Record : r = store[n + 1]
    BY <2>1, LogTypes, Zenon
  <2>3. Upto = n /\ Upto' = n + 1 /\ "restore" \in refused'
    BY <1>8, <2>1, Zenon DEF Skips, Upto, Serving
  <2>4. /\ length' = length + RecordSize(r) /\ deleted' = deleted + TombBytes(r)
        /\ store' = store /\ Index' = Index
    BY <1>8, <2>1, <2>2, Zenon DEF Skips
  <2>5. Total(store, 1..(n + 1)) = length + RecordSize(r)
    <3>1. length = Total(store, 1..n)
      BY <2>3, Zenon DEF Weighed
    <3> QED BY <2>1, <2>2, <3>1, WeighedTypes, TotalFirst, Zenon
  <2>6. length' = Total(store', 1..Upto')
    BY <2>3, <2>4, <2>5, Zenon
  <2>7. TombBytes(r) <= RecordSize(r) /\ TombBytes(r) \in Nat /\ RecordSize(r) \in Nat
    BY RecordSizeType DEF TombBytes
  <2>8. PICK b \in Nat : b = Total(store, Index) /\ deleted + b <= length /\ deleted \in Nat /\ length \in Nat
    BY WeighedTypes, Zenon DEF Weighed
  <2>9. deleted' + Total(store', Index') <= length'
    BY <2>4, <2>7, <2>8
  <2> QED BY <2>3, <2>6, <2>9, Zenon DEF Weighed
<1>9. CASE Leaves
  <2>1. length' = 0 /\ deleted' = 0 /\ Index' = {} /\ Upto' = 0
    BY <1>9, Zenon DEF Leaves, Leave, Upto, Serving
  <2>2. Total(store', 1..Upto') = 0 /\ Total(store', Index') = 0
    BY <2>1, TotalNone, Zenon
  <2> QED BY <2>1, <2>2 DEF Weighed
<1>10. CASE Turns
  <2>1. UNCHANGED <<store, length, deleted, Index>>
    BY <1>10, Zenon DEF Turns
  <2>2. Upto' = Upto
    BY <1>0, <1>10, <2>1, Zenon DEF Turns, Open, OpenDone, OpenPanics, Upto, Serving
  <2>3. Serving' \/ (~Serving /\ refused' = refused)
    BY <1>0, <1>10, Zenon DEF Turns, Open, OpenDone, OpenPanics, Serving
  <2> QED BY <2>1, <2>2, <2>3, WeighedKept, Zenon
<1>11. CASE Stutters
  <2>1. Upto' = Upto /\ (Serving' <=> Serving)
    BY <1>11, Zenon DEF Stutters, Upto, Serving
  <2> QED BY <1>11, <2>1, WeighedKept, Zenon DEF Stutters
<1>12. CASE Breaks
  <2>1. Rests /\ Upto' = Upto /\ ~Serving
    BY <1>0, <1>12, Zenon DEF Breaks, Upto, Serving, Rests
  <2> QED BY <1>3, <2>1, Zenon
<1> QED BY <1>1, <1>2, <1>4, <1>5, <1>6, <1>7, <1>8, <1>9, <1>10, <1>11, <1>12, StepIs, Zenon

(* More records, more bytes.                                               *)
LEMMA TotalGrows ==
    ASSUME NEW s \in Seq(Record), NEW T \in SUBSET (1..Len(s)), NEW S \in SUBSET T
    PROVE  Total(s, S) <= Total(s, T)
<1> DEFINE B == {u \in SUBSET T : S \subseteq u /\ ~(Total(s, S) <= Total(s, u))}
<1>1. SUFFICES ASSUME B # {} PROVE FALSE
  BY Zenon
<1>2. PICK u \in B : \A v \in SUBSET u : v # u => v \notin B
  <2>1. B \in SUBSET (SUBSET T) /\ IsFiniteSet(T)
    BY TotalType, Zenon
  <2> HIDE DEF B
  <2> QED BY <1>1, <2>1, Smallest, Zenon
<1>3. u \in SUBSET (1..Len(s)) /\ S \subseteq u /\ ~(Total(s, S) <= Total(s, u))
  BY Zenon
<1>4. Total(s, S) \in Nat /\ Total(s, u) \in Nat
  BY <1>3, TotalType, Zenon
<1>5. PICK x \in u : x \notin S
  <2>1. u # S
    BY <1>3, <1>4
  <2> QED BY <1>3, <2>1, Zenon
<1>6. PICK v : v = u \ {x} /\ v \in SUBSET u /\ v # u
  BY Smaller
<1>7. Total(s, S) <= Total(s, v) /\ Total(s, v) \in Nat
  <2>1. S \subseteq v /\ v \in SUBSET T /\ v \in SUBSET (1..Len(s))
    BY <1>3, <1>5, <1>6, Zenon
  <2>2. v \notin B
    BY <1>2, <1>6, Zenon
  <2> QED BY <2>1, <2>2, TotalType, Zenon
<1>8. PICK a \in Nat : Total(s, u) = Total(s, v) + a
  BY <1>3, <1>6, TotalLess, Zenon
<1> QED BY <1>3, <1>4, <1>7, <1>8

(* The lengths of the key and of the record take 12 bytes.                 *)
LEMMA RecordBytes ==
    ASSUME NEW r \in Record
    PROVE  RecordSize(r) \in Nat /\ RecordSize(r) >= 12
<1>1. KeyLen[r.key] \in Nat /\ ValLen[r.val] \in Nat
  BY ConstantsAssumption, Zenon DEF Record
<1> QED BY <1>1 DEF RecordSize

(* Only a put that fits changes the file.                                  *)
LEMMA PutFits ==
    ASSUME Inv, [Next]_vars, store' # store
    PROVE  length' < StoreSize /\ pc' = "idle"
<1>1. ASSUME NEW o \in SetOp \cup CASOp, Run(o) PROVE length' < StoreSize /\ pc' = "idle"
  <2>1. o.kind # "restore"
    BY Zenon DEF SetOp, CASOp
  <2>2. CASE Set(o)
    BY <2>2, Zenon DEF Set, PutAt, put, CanPut, Answer, stVars
  <2>3. CASE CAS(o)
    BY <2>3, Zenon DEF CAS, PutAt, put, CanPut, Answer, stVars
  <2> QED BY <1>1, <2>1, <2>2, <2>3, Zenon DEF Run
<1>2. ~restorePair /\ ~restorePairPanics
  BY Zenon DEF restorePair, RestoreAdvance, restorePairPanics, stVars
<1>3. ASSUME NEW o \in SetOp \cup CASOp \cup {Restore}, Call(o) PROVE length' < StoreSize /\ pc' = "idle"
  <2>1. Run(o)
    BY <1>3, Zenon DEF Call, StartExpand, IndexFull, RestoreAdvance, stVars
  <2>2. o # Restore
    BY <1>2, <2>1 DEF Run, Restore
  <2> QED BY <1>1, <2>1, <2>2, Zenon
<1>4. CASE CallSet \/ CallCAS
  BY <1>3, <1>4, Zenon DEF CallSet, CallCAS
<1>5. CASE CallDel
  BY <1>5, Zenon DEF CallDel, Del, put, CanPut, Answer, stVars
<1>6. CASE Resume
  <2>1. op \in SetOp \cup CASOp \cup {Restore} /\ Run(op)
    BY <1>6, Zenon DEF Resume, Inv, TypeOK
  <2>2. op # Restore
    BY <1>2, <2>1 DEF Run, Restore
  <2> QED BY <1>1, <2>1, <2>2, Zenon
<1>7. CASE OpenNext
  BY <1>3, <1>7, Zenon DEF OpenNext
<1>8. ~(CallShort \/ ExpandStep \/ ExpandDone)
  BY Zenon DEF CallShort, ExpandStep, ExpandDone, stVars
<1>9. ~(Close \/ Crash \/ Open \/ OpenDone \/ OpenPanics)
  BY Zenon DEF Close, Crash, Leave, Open, OpenDone, OpenPanics, stVars
<1>10. ~UNCHANGED vars
  BY Zenon DEF vars, stVars
<1> QED BY <1>4, <1>5, <1>6, <1>7, <1>8, <1>9, <1>10, Zenon DEF Next

\* Open is where it cannot read the next 4 bytes
Short == ~CanReadKeyLen \/ (restored < Len(store) /\ ~CanReadTime)

\* The file holds its records, and Open panics where there are no 4 bytes to read
Fits ==
    /\ Len(store) = 0 \/ Total(store, 1..Len(store)) < StoreSize
    /\ pc = "panic" => Short

(* Every step keeps to the file: the room is what the records leave.       *)
LEMMA NextFits ==
    ASSUME Inv, Fits, [Next]_vars, Weighed'
    PROVE  Fits'
<1>1. Len(store') = 0 \/ Total(store', 1..Len(store')) < StoreSize
  <2>1. CASE store' = store
    BY <2>1, Zenon DEF Fits
  <2>2. CASE store' # store
    <3>1. length' < StoreSize /\ pc' = "idle"
      BY <2>2, PutFits, Zenon
    <3>2. Upto' = Len(store')
      BY <3>1, Zenon DEF Upto, Serving
    <3> QED BY <3>1, <3>2, Zenon DEF Weighed
  <2> QED BY <2>1, <2>2, Zenon
<1>2. ASSUME pc' = "panic" PROVE Short'
  <2>1. ASSUME UNCHANGED <<store, length, restored>> PROVE Short' <=> Short
    BY <2>1, Zenon DEF Short, CanReadKeyLen, CanReadTime
  <2>2. CASE Turns
    <3>1. OpenPanics
      BY <1>2, <2>2, Zenon DEF Turns, Open, OpenDone
    <3> QED BY <2>1, <2>2, <3>1, Zenon DEF OpenPanics, Turns, Short
  <2>3. CASE Breaks
    BY <2>1, <2>3, Zenon DEF Breaks, Rests, Short
  <2>4. CASE Stutters
    BY <1>2, <2>1, <2>4, Zenon DEF Stutters, Fits
  <2>5. ASSUME NEW o \in SetOp \cup CASOp PROVE ~(Serves(o) \/ Begins(o))
    BY <1>2, Zenon DEF Serves, CallEffect, Begins
  <2>6. ASSUME NEW o \in DelOp PROVE ~Deletes(o)
    BY <1>2, Zenon DEF Deletes, DelEffect
  <2>7. ~(Shorts \/ Copies \/ Grew \/ Begins(Restore) \/ Restores \/ Skips \/ Leaves)
    BY <1>2, Zenon DEF Shorts, Copies, Grew, ExpandDone, Begins, Restores, RestoreEffect, Skips,
                       Leaves, Leave
  <2> QED BY <2>2, <2>3, <2>4, <2>5, <2>6, <2>7, StepIs, Zenon
<1> QED BY <1>1, <1>2, Zenon DEF Fits

(* The store's byte counts are right at every step of every history.       *)
THEOREM WeighedInv == Spec => []Weighed
<1>1. Init => Weighed
  <2> SUFFICES ASSUME Init PROVE Weighed
    BY Zenon
  <2>1. Index = {}
    BY IndexEmpty, Zenon DEF Init
  <2>2. length = 0 /\ deleted = 0 /\ Upto = 0 /\ Serving
    BY Zenon DEF Init, Upto, Serving
  <2>3. Total(store, 1..Upto) = 0 /\ Total(store, Index) = 0
    BY <2>1, <2>2, TotalNone, Zenon
  <2> QED BY <2>2, <2>3 DEF Weighed
<1>2. Inv /\ Logged /\ Weighed /\ [Next]_vars => Weighed'
  BY NextWeighed, Zenon
<1> QED BY <1>1, <1>2, PMapInv, LogInv, PTL DEF Spec

(* The used bytes are those of the records, what counts as deleted is none *)
(* of what is found, and Open leaves out no byte that could be given back. *)
THEOREM BytesAlwaysCounted == Spec => []DeletedIsReclaimable
<1>1. Inv /\ Weighed => DeletedIsReclaimable
  <2> SUFFICES ASSUME Inv, Weighed, Serving \/ Restoring PROVE DeletedIsReclaimable
    BY Zenon DEF DeletedIsReclaimable
  <2>1. Indexed = Upto /\ (Restoring => ~Serving)
    BY Zenon DEF Indexed, Upto, Serving, Restoring
  <2>2. Present = Index
    <3>1. IndexFacts
      BY IndexIs, Zenon
    <3>2. ASSUME NEW x \in Index PROVE x \in Present
      <4>1. PICK k \in Key : store[x].key = k
        BY <3>1, LogTypes, Zenon DEF IndexFacts
      <4>2. IsFound(k) /\ mem[Slot(k)].idx \in Index /\ Found(k).key = k
        BY <3>1, <4>1, Zenon DEF IndexFacts
      <4>3. mem[Slot(k)].idx = x
        BY <3>1, <4>1, <4>2, Zenon DEF IndexFacts, Found
      <4> QED BY <4>2, <4>3, Zenon DEF Present
    <3>3. ASSUME NEW x \in Present PROVE x \in Index
      BY <3>1, ZenonT(40) DEF Present, IndexFacts
    <3> QED BY <3>2, <3>3, Zenon
  <2>3. \A S : Bytes(S) = Total(store, S)
    BY Zenon DEF Bytes, Total
  <2> QED BY <2>1, <2>2, <2>3, Zenon DEF Weighed, DeletedIsReclaimable
<1> QED BY <1>1, WeighedInv, PMapInv, PTL

(* No put of any history of calls, kills and openings writes behind the    *)
(* end of the file, and Open panics at its last record or not at all.      *)
THEOREM StoreAlwaysFits == Spec => []StoreFits
<1>1. Init => Fits
  BY Zenon DEF Init, Fits
<1>2. Inv /\ Fits /\ [Next]_vars /\ Weighed' => Fits'
  BY NextFits, Zenon
<1>3. Inv /\ Weighed /\ Fits => StoreFits
  <2> SUFFICES ASSUME Inv, Weighed, Fits PROVE StoreFits
    BY Zenon
  <2>1. \A S : Bytes(S) = Total(store, S)
    BY Zenon DEF Bytes, Total
  <2>2. PICK n \in Nat : n = Len(store)
    BY WeighedTypes, Zenon
  <2>3. PICK b \in Nat : b = Total(store, 1..n)
    BY <2>2, WeighedTypes, TotalType, Zenon
  <2>4. Bytes(1..Len(store)) <= StoreSize
    <3>1. CASE n = 0
      <4>1. b = 0
        BY <2>3, <3>1, TotalNone, Zenon
      <4> QED BY <2>1, <2>2, <2>3, <4>1, ConstantsAssumption
    <3>2. CASE n # 0
      <4>1. b < StoreSize
        BY <2>2, <2>3, <3>2, Zenon DEF Fits
      <4> QED BY <2>1, <2>2, <2>3, <4>1, ConstantsAssumption
    <3> QED BY <3>1, <3>2, Zenon
  <2>5. ASSUME pc = "panic"
        PROVE  /\ StoreSize - b < 4
               /\ \/ restored = n
                  \/ restored + 1 = n /\ store[n].tomb
    <3>1. PICK m \in Nat : m = restored /\ m <= n /\ Upto = m /\ length = Total(store, 1..m)
      <4>1. Upto = restored
        BY <2>5, Zenon DEF Upto, Serving
      <4>2. restored \in Nat /\ restored <= n
        BY <2>2, WeighedTypes
      <4> QED BY <4>1, <4>2, Zenon DEF Weighed
    <3>2. Short /\ StoreSize \in Nat /\ length \in Nat
      BY <2>5, WeighedTypes, ConstantsAssumption, Zenon DEF Fits
    <3>3. CASE m = n
      <4>1. length = b /\ ~(StoreSize - length >= 4)
        BY <2>2, <2>3, <3>1, <3>2, <3>3 DEF Short, CanReadKeyLen
      <4> QED BY <3>1, <3>2, <3>3, <4>1
    <3>4. CASE m < n
      <4>1. PICK r \in Record : r = store[m + 1]
        BY <2>2, <3>1, <3>4, LogTypes
      <4>2. PICK c \in Nat : c = RecordSize(r) /\ c >= 12
        BY RecordBytes, Zenon
      <4>3. Total(store, 1..(m + 1)) = length + c
        BY <2>2, <3>1, <3>4, <4>1, <4>2, WeighedTypes, TotalFirst, Zenon
      <4>4. ASSUME NEW i \in Nat, i <= n PROVE Total(store, 1..i) <= b
        <5>1. PICK S, T : S = 1..i /\ T = 1..n
          BY Zenon
        <5>2. S \in SUBSET T /\ T \in SUBSET (1..Len(store))
          BY <2>2, <4>4, <5>1
        <5>3. Total(store, S) <= Total(store, T)
          BY <5>2, WeighedTypes, TotalGrows, Zenon
        <5> QED BY <2>3, <5>1, <5>3, Zenon
      <4>5. b < StoreSize
        BY <2>2, <2>3, <3>1, <3>4 DEF Fits
      <4>6. length + c <= b
        BY <3>4, <4>3, <4>4
      <4>7. CanReadKeyLen
        BY <3>2, <4>2, <4>5, <4>6 DEF CanReadKeyLen
      <4>8. r.tomb /\ ~(StoreSize - (length + c) >= 4)
        BY <3>1, <3>2, <4>1, <4>2, <4>7, Zenon DEF Short, CanReadTime
      <4>9. m + 1 = n
        <5> SUFFICES ASSUME m + 2 <= n PROVE FALSE
          BY <3>4
        <5>1. PICK q \in Record : q = store[m + 2]
          BY <2>2, LogTypes
        <5>2. PICK d \in Nat : d = RecordSize(q) /\ d >= 12
          BY RecordBytes, Zenon
        <5>3. PICK j \in Nat : j = m + 1 /\ j + 1 = m + 2 /\ j + 1 \in 1..Len(store) /\ j < Len(store)
          BY <2>2
        <5>4. Total(store, 1..(j + 1)) = Total(store, 1..j) + d
          BY <5>1, <5>2, <5>3, WeighedTypes, TotalFirst, Zenon
        <5>5. length + c + d <= b
          BY <4>3, <4>4, <5>3, <5>4
        <5> QED BY <3>2, <4>5, <4>8, <5>2, <5>5
      <4>10. StoreSize - b < 4
        BY <3>2, <4>6, <4>8
      <4> QED BY <3>1, <4>1, <4>8, <4>9, <4>10, Zenon
    <3> QED BY <3>1, <3>3, <3>4
  <2>6. Bytes(1..Len(store)) = b
    BY <2>1, <2>2, <2>3, Zenon
  <2> QED BY <2>2, <2>4, <2>5, <2>6, Zenon DEF StoreFits
<1> QED BY <1>1, <1>2, <1>3, WeighedInv, PMapInv, PTL DEF Spec

=============================================================================
