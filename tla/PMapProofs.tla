----------------------------- MODULE PMapProofs -----------------------------
(***************************************************************************)
(* What is proved of PMap for every set of keys, values and timestamps,    *)
(* every hash function and every limit.                                    *)
(***************************************************************************)
EXTENDS PMap, FiniteSetTheorems, WellFoundedInduction, TLAPS

-----------------------------------------------------------------------------
(* Arithmetic of the hashmap                                               *)

(* A home bucket is a bucket.                                              *)
LEMMA HomeType ==
    ASSUME NEW h \in Nat, NEW n \in Nat \ {0}
    PROVE  Home(h, n) \in 0..(n - 1)
BY DEF Home

(* setSize's load limit leaves a bucket empty, and doubling the size       *)
(* raises it.                                                              *)
LEMMA LoadLimit ==
    ASSUME NEW n \in Nat \ {0}
    PROVE  /\ NumKeysToExpand(n) \in Nat
           /\ NumKeysToExpand(n) < n
           /\ NumKeysToExpand(n) < NumKeysToExpand(2 * n)
BY DEF NumKeysToExpand

(* hashReMap keeps clear of the marks of empty and deleted buckets.        *)
LEMMA ReMapped ==
    ASSUME NEW h \in Nat
    PROVE  hashReMap(h) \in Nat /\ hashReMap(h) > deletedBucket
BY DEF hashReMap, deletedBucket

(* A nonempty set of naturals has a least element.                         *)
LEMMA Least ==
    ASSUME NEW S \in SUBSET Nat, S # {}
    PROVE  \E x \in S : \A y \in S : x <= y
<1>1. PICK x \in S : \A y \in S : ~(<<y, x>> \in OpToRel(<, Nat))
  BY NatLessThanWellFounded, WFMin, Zenon
<1>2. \A y \in Nat, z \in Nat : y < z => <<y, z>> \in OpToRel(<, Nat)
  BY Zenon DEF OpToRel
<1>3. \A y \in S : ~(y < x)
  BY <1>1, <1>2, Zenon
<1> QED BY <1>3

(* Linear probing from any bucket reaches every nonempty set of buckets,   *)
(* and reaches one of them first.                                          *)
LEMMA FirstProbed ==
    ASSUME NEW n \in Nat \ {0}, NEW a \in 0..(n - 1),
           NEW S \in SUBSET (0..(n - 1)), S # {}
    PROVE  \E i \in S : \A j \in Before(a, i, n) : j \notin S
<1> DEFINE T == {i \in S : a <= i}
<1>1. CASE T # {}
  <2>1. PICK i \in T : \A j \in T : i <= j
    <3>1. T \in SUBSET S /\ S \in SUBSET Nat
      OBVIOUS
    <3> HIDE DEF T
    <3> QED BY <1>1, <3>1, Least, Zenon
  <2>2. \A j \in Before(a, i, n) : j \notin S
    BY <2>1 DEF Before
  <2> QED BY <2>1, <2>2, Zenon
<1>2. CASE T = {}
  <2>1. PICK i \in S : \A j \in S : i <= j
    <3>1. S \in SUBSET Nat
      OBVIOUS
    <3> QED BY <3>1, Least, Zenon
  <2>2. i < a
    BY <1>2
  <2>3. \A j \in Before(a, i, n) : j \notin S
    BY <2>1, <2>2, <1>2 DEF Before
  <2> QED BY <2>1, <2>3, Zenon
<1> QED BY <1>1, <1>2, Zenon

(* Of two buckets, probing visits one before the other.                    *)
LEMMA ProbeOrder ==
    ASSUME NEW n \in Nat \ {0}, NEW a \in 0..(n - 1),
           NEW i \in 0..(n - 1), NEW j \in 0..(n - 1), i # j
    PROVE  i \in Before(a, j, n) \/ j \in Before(a, i, n)
BY DEF Before

(* Probing stays inside the hashmap.                                       *)
LEMMA BeforeType ==
    ASSUME NEW n \in Nat \ {0}, NEW a \in 0..(n - 1), NEW i \in 0..(n - 1)
    PROVE  Before(a, i, n) \subseteq 0..(n - 1) /\ i \notin Before(a, i, n)
BY DEF Before

(* A set of buckets is finite.                                             *)
LEMMA BucketsFinite ==
    ASSUME NEW n \in Nat, NEW S \in SUBSET (0..(n - 1))
    PROVE  IsFiniteSet(S)
<1>1. IsFiniteSet(0..(n - 1))
  BY FS_Interval
<1> QED BY <1>1, FS_Subset, Zenon

(* A set of fewer than n of the n buckets leaves one out.                  *)
LEMMA OneLeft ==
    ASSUME NEW n \in Nat, NEW S \in SUBSET (0..(n - 1)), Cardinality(S) < n
    PROVE  \E i \in 0..(n - 1) : i \notin S
<1>1. Cardinality(0..(n - 1)) = n
  BY FS_Interval
<1>2. S # 0..(n - 1)
  BY <1>1
<1> QED BY <1>2, Zenon

-----------------------------------------------------------------------------
(* Probing                                                                 *)

(* With an empty bucket somewhere, the probing loop of Set, CAS, Del and   *)
(* restorePair ends, at the first bucket that stops it.                    *)
LEMMA ProbeEnds ==
    ASSUME TypeOK, NEW h \in Nat, NEW k,
           \E i \in DOMAIN mem : mem[i].hash = emptyBucket
    PROVE  /\ Probe(h, k) \in 0..(size - 1)
           /\ Stops(mem, h, k, Probe(h, k))
           /\ \A j \in Before(Home(h, size), Probe(h, k), size) : ~Stops(mem, h, k, j)
<1> DEFINE S == {i \in 0..(size - 1) : Stops(mem, h, k, i)}
<1>1. size \in Nat \ {0} /\ DOMAIN mem = 0..(size - 1)
  BY Zenon DEF TypeOK
<1>2. S # {}
  BY <1>1, Zenon DEF Stops
<1>3. Home(h, size) \in 0..(size - 1)
  BY <1>1, HomeType, Zenon
<1>4. PICK i \in S : \A j \in Before(Home(h, size), i, size) : j \notin S
  <2> HIDE DEF S
  <2>1. S \in SUBSET (0..(size - 1))
    BY Zenon DEF S
  <2> QED BY <1>1, <1>2, <1>3, <2>1, FirstProbed, Zenon
<1>5. Before(Home(h, size), i, size) \subseteq 0..(size - 1)
  BY <1>1, <1>3, BeforeType, Zenon
<1>6. \E x \in 0..(size - 1) :
        /\ Stops(mem, h, k, x)
        /\ \A j \in Before(Home(h, size), x, size) : ~Stops(mem, h, k, j)
  BY <1>4, <1>5, Zenon
<1> QED BY <1>6, Zenon DEF Probe

(* So does the loop of expand.                                             *)
LEMMA ProbeEmptyEnds ==
    ASSUME NEW n \in Nat \ {0}, NEW m, DOMAIN m = 0..(n - 1), NEW h \in Nat,
           \E i \in DOMAIN m : m[i].hash = emptyBucket
    PROVE  /\ ProbeEmpty(m, n, h) \in 0..(n - 1)
           /\ m[ProbeEmpty(m, n, h)].hash = emptyBucket
           /\ \A j \in Before(Home(h, n), ProbeEmpty(m, n, h), n) : m[j].hash # emptyBucket
<1> DEFINE S == {i \in 0..(n - 1) : m[i].hash = emptyBucket}
<1>1. S # {}
  BY Zenon
<1>2. Home(h, n) \in 0..(n - 1)
  BY HomeType, Zenon
<1>3. PICK i \in S : \A j \in Before(Home(h, n), i, n) : j \notin S
  <2> HIDE DEF S
  <2>1. S \in SUBSET (0..(n - 1))
    BY Zenon DEF S
  <2> QED BY <1>1, <1>2, <2>1, FirstProbed, Zenon
<1>4. Before(Home(h, n), i, n) \subseteq 0..(n - 1)
  BY <1>2, BeforeType, Zenon
<1>5. \E x \in 0..(n - 1) :
        /\ m[x].hash = emptyBucket
        /\ \A j \in Before(Home(h, n), x, n) : m[j].hash # emptyBucket
  BY <1>3, <1>4, Zenon
<1> QED BY <1>5, Zenon DEF ProbeEmpty

-----------------------------------------------------------------------------
(* The inductive invariant                                                 *)

Inv == TypeOK /\ LoadBounded /\ ProbingEnds /\ IndexSound /\ ExpandCopies

(* Probing for a key ends at the one live bucket of the key, or at an      *)
(* empty bucket when no live bucket has the key.                           *)
LEMMA SlotFinds ==
    ASSUME Inv, NEW k \in Key
    PROVE  /\ Slot(k) \in 0..(size - 1)
           /\ hashReMap(Hash[k]) \in Nat /\ hashReMap(Hash[k]) > deletedBucket
           /\ \A j \in Before(Home(hashReMap(Hash[k]), size), Slot(k), size) :
                j \in 0..(size - 1) /\ mem[j].hash # emptyBucket
           /\ IsFound(k) => /\ Live(mem, Slot(k))
                            /\ mem[Slot(k)].hash = hashReMap(Hash[k])
                            /\ mem[Slot(k)].idx \in 1..Len(store)
                            /\ Found(k) \in Record
                            /\ Found(k).key = k
           /\ ~IsFound(k) =>
                \A j \in 0..(size - 1) : Live(mem, j) => store[mem[j].idx].key # k
<1> DEFINE h == hashReMap(Hash[k])
           i == Slot(k)
<1>1. Hash[k] \in Nat
  BY ConstantsAssumption, Zenon
<1>2. h \in Nat /\ h > deletedBucket
  BY <1>1, ReMapped, Zenon
<1>3. size \in Nat \ {0} /\ mem \in [0..(size - 1) -> Bucket] /\ store \in Seq(Record)
  BY Zenon DEF Inv, TypeOK
<1>4. \E x \in DOMAIN mem : mem[x].hash = emptyBucket
  BY Zenon DEF Inv, ProbingEnds
<1>5. /\ i \in 0..(size - 1)
      /\ Stops(mem, h, k, i)
      /\ \A j \in Before(Home(h, size), i, size) : ~Stops(mem, h, k, j)
  BY <1>2, <1>4, ProbeEnds, Zenon DEF Slot, Inv
<1>6. Home(h, size) \in 0..(size - 1)
  BY <1>2, <1>3, HomeType, Zenon
<1>7. Before(Home(h, size), i, size) \subseteq 0..(size - 1)
  BY <1>3, <1>5, <1>6, BeforeType, Zenon
<1>8. \A j \in Before(Home(h, size), i, size) : j \in 0..(size - 1) /\ mem[j].hash # emptyBucket
  BY <1>5, <1>7, Zenon DEF Stops
<1>9. ASSUME IsFound(k)
      PROVE  /\ Live(mem, i) /\ mem[i].hash = h /\ mem[i].idx \in 1..Len(store)
             /\ Found(k) \in Record /\ Found(k).key = k
  <2>1. mem[i].hash = h /\ store[mem[i].idx].key = k
    BY <1>5, <1>9, Zenon DEF Stops, IsFound
  <2>2. Live(mem, i)
    BY <2>1, <1>2, Zenon DEF Live
  <2>3. mem[i].idx \in 1..Len(store)
    BY <2>2, <1>3, <1>5, Zenon DEF Inv, IndexSound, LeadsToRecord
  <2> QED BY <2>1, <2>2, <2>3, <1>3 DEF Found
<1>10. ASSUME ~IsFound(k), NEW j \in 0..(size - 1), Live(mem, j), store[mem[j].idx].key = k
       PROVE  FALSE
  <2>1. mem[j].hash = h
    BY <1>3, <1>10, Zenon DEF Inv, IndexSound, LeadsToRecord
  <2>2. mem[i].hash = emptyBucket
    BY <1>10, Zenon DEF IsFound
  <2>3. i # j
    BY <2>1, <2>2, <1>2 DEF emptyBucket, deletedBucket
  <2>4. j \notin Before(Home(h, size), i, size)
    BY <2>1, <1>5, <1>10, Zenon DEF Stops
  <2>5. i \notin Before(Home(h, size), j, size)
    BY <2>1, <2>2, <1>3, <1>10, Zenon DEF Inv, IndexSound, Reachable
  <2> QED BY <1>3, <1>5, <1>6, <2>3, <2>4, <2>5, ProbeOrder, Zenon
<1> QED BY <1>2, <1>5, <1>8, <1>9, <1>10, Zenon

(* The records a bucket may lead to are never rewritten: the store only    *)
(* grows.                                                                  *)
StoreGrows ==
    /\ Len(store) <= Len(store')
    /\ \A x \in 1..Len(store) : store'[x] = store[x]

(* Indexing record n of key k in the bucket where probing for k ends keeps *)
(* the invariant, if the hashmap had room for one more key.                *)
LEMMA IndexWrite ==
    ASSUME Inv, TypeOK', HasRoom, StoreGrows,
           NEW k \in Key, NEW n \in 1..Len(store'), store'[n].key = k,
           size' = size,
           mem' = [mem EXCEPT ![Slot(k)] = [hash |-> hashReMap(Hash[k]), idx |-> n]],
           numStoredKeys' = IF IsFound(k) THEN numStoredKeys ELSE numStoredKeys + 1,
           pc' \notin {"expand", "run"}
    PROVE  Inv'
<1> DEFINE h == hashReMap(Hash[k])
           i == Slot(k)
<1>1. /\ i \in 0..(size - 1)
      /\ h \in Nat /\ h > deletedBucket
      /\ \A j \in Before(Home(h, size), i, size) : j \in 0..(size - 1) /\ mem[j].hash # emptyBucket
      /\ IsFound(k) => Live(mem, i) /\ mem[i].hash = h /\ Found(k).key = k
      /\ ~IsFound(k) => \A j \in 0..(size - 1) : Live(mem, j) => store[mem[j].idx].key # k
  BY SlotFinds, Zenon
<1>2. /\ size \in Nat \ {0} /\ mem \in [0..(size - 1) -> Bucket] /\ store \in Seq(Record)
      /\ mem' \in [0..(size - 1) -> Bucket] /\ store' \in Seq(Record)
      /\ numStoredKeys \in Nat
  BY Zenon DEF Inv, TypeOK
<1>3. mem'[i] = [hash |-> h, idx |-> n] /\ \A j \in 0..(size - 1) : j # i => mem'[j] = mem[j]
  BY <1>1, <1>2, Zenon
<1> HIDE DEF h, i
<1>4. \A j \in 0..(size - 1) : mem[j].hash # emptyBucket => mem'[j].hash # emptyBucket
  BY <1>1, <1>3 DEF emptyBucket, deletedBucket
<1>5. \A j \in 0..(size - 1) : j # i /\ Live(mem', j) =>
        Live(mem, j) /\ mem[j].idx \in 1..Len(store) /\ store'[mem'[j].idx] = store[mem[j].idx]
  BY <1>2, <1>3, Zenon DEF Live, Inv, IndexSound, LeadsToRecord, StoreGrows
<1>6. NumBuckets(mem') = NumBuckets(mem) \cup {i}
  BY <1>1, <1>2, <1>3 DEF NumBuckets, emptyBucket, deletedBucket
<1>7. i \in NumBuckets(mem) <=> IsFound(k)
  BY <1>1, <1>2, Zenon DEF NumBuckets, IsFound, i
<1>8. numStoredKeys' = Cardinality(NumBuckets(mem'))
  <2>1. IsFiniteSet(NumBuckets(mem))
    <3>1. NumBuckets(mem) \subseteq 0..(size - 1)
      BY <1>2, Zenon DEF NumBuckets
    <3> QED BY <3>1, <1>2, BucketsFinite, Zenon
  <2>2. Cardinality(NumBuckets(mem)) = numStoredKeys
    BY Zenon DEF Inv, ProbingEnds
  <2>3. CASE IsFound(k)
    BY <2>2, <2>3, <1>6, <1>7, Zenon
  <2>4. CASE ~IsFound(k)
    BY <2>1, <2>2, <2>4, <1>6, <1>7, FS_AddElement, Zenon
  <2> QED BY <2>3, <2>4, Zenon
<1>9. /\ numStoredKeys' <= NumKeysToExpand(size)
      /\ NumKeysToExpand(size) \in Nat /\ NumKeysToExpand(size) < size
      /\ numStoredKeys' \in Nat
  <2>1. NumKeysToExpand(size) \in Nat /\ NumKeysToExpand(size) < size
    BY <1>2, LoadLimit, Zenon
  <2> QED BY <2>1, <1>2 DEF HasRoom
<1>10. \E j \in 0..(size - 1) : mem'[j].hash = emptyBucket
  <2>1. Cardinality(NumBuckets(mem')) < size
    BY <1>2, <1>8, <1>9
  <2>2. NumBuckets(mem') \in SUBSET (0..(size - 1))
    BY <1>2, Zenon DEF NumBuckets
  <2>3. \E j \in 0..(size - 1) : j \notin NumBuckets(mem')
    BY <1>2, <2>1, <2>2, OneLeft, Zenon
  <2> QED BY <1>2, <2>3, Zenon DEF NumBuckets
<1>11. LeadsToRecord(mem)'
  <2> SUFFICES ASSUME NEW j \in 0..(size - 1), Live(mem', j)
               PROVE  /\ mem'[j].idx \in 1..Len(store')
                      /\ mem'[j].hash = hashReMap(Hash[store'[mem'[j].idx].key])
    BY <1>2, Zenon DEF LeadsToRecord, Live
  <2>1. CASE j = i
    BY <2>1, <1>3 DEF h
  <2>2. CASE j # i
    <3>1. /\ mem[j].idx \in 1..Len(store)
          /\ mem[j].hash = hashReMap(Hash[store[mem[j].idx].key])
      BY <2>2, <1>2, <1>5, Zenon DEF Inv, IndexSound, LeadsToRecord
    <3>2. Len(store) \in Nat /\ Len(store') \in Nat
      BY <1>2
    <3> QED BY <2>2, <3>1, <3>2, <1>3, <1>5 DEF StoreGrows
  <2> QED BY <2>1, <2>2, Zenon
<1>12. Reachable(mem, size)'
  <2> SUFFICES ASSUME NEW j \in 0..(size - 1), Live(mem', j),
                      NEW b \in Before(Home(mem'[j].hash, size), j, size)
               PROVE  mem'[b].hash # emptyBucket
    BY <1>2, Zenon DEF Reachable, Live
  <2>1. CASE j = i
    BY <2>1, <1>1, <1>3, <1>4
  <2>2. CASE j # i
    <3>1. mem[b].hash # emptyBucket
      BY <2>2, <1>2, <1>3, <1>5, Zenon DEF Inv, IndexSound, Reachable
    <3>2. mem'[j].hash \in Nat
      BY <1>2, Zenon DEF Bucket
    <3>3. b \in 0..(size - 1)
      BY <1>2, <3>2, HomeType, BeforeType, Zenon
    <3> QED BY <3>1, <3>3, <1>4, Zenon
  <2> QED BY <2>1, <2>2, Zenon
<1>13. OneBucketPerKey(mem)'
  <2> SUFFICES ASSUME NEW a \in 0..(size - 1), NEW b \in 0..(size - 1),
                      Live(mem', a), Live(mem', b), a # b,
                      store'[mem'[a].idx].key = store'[mem'[b].idx].key
               PROVE  FALSE
    BY <1>2 DEF OneBucketPerKey, Live
  <2>1. \A j \in 0..(size - 1) : j # i /\ Live(mem', j) => store'[mem'[j].idx].key # k
    <3> SUFFICES ASSUME NEW j \in 0..(size - 1), j # i, Live(mem', j),
                        store[mem[j].idx].key = k
                 PROVE  FALSE
      BY <1>5, Zenon
    <3>1. CASE IsFound(k)
      BY <3>1, <1>1, <1>2, <1>5, Zenon DEF Inv, IndexSound, OneBucketPerKey, Found, i
    <3>2. CASE ~IsFound(k)
      BY <3>2, <1>1, <1>5, Zenon
    <3> QED BY <3>1, <3>2, Zenon
  <2>2. store'[mem'[i].idx].key = k
    BY <1>3
  <2>3. a # i /\ b # i
    BY <2>1, <2>2, Zenon
  <2> QED BY <2>3, <1>2, <1>5, Zenon DEF Inv, IndexSound, OneBucketPerKey
<1> QED BY <1>2, <1>8, <1>9, <1>10, <1>11, <1>12, <1>13, Zenon
        DEF Inv, LoadBounded, ProbingEnds, IndexSound, ExpandCopies

(* So does marking the bucket of a key that is found as deleted.           *)
LEMMA IndexDelete ==
    ASSUME Inv, TypeOK', StoreGrows, NEW k \in Key, IsFound(k),
           size' = size, numStoredKeys' = numStoredKeys,
           mem' = [mem EXCEPT ![Slot(k)] = [@ EXCEPT !.hash = deletedBucket]],
           pc' \notin {"expand", "run"}
    PROVE  Inv'
<1> DEFINE i == Slot(k)
<1>1. i \in 0..(size - 1) /\ Live(mem, i)
  BY SlotFinds, Zenon
<1>2. /\ size \in Nat \ {0} /\ mem \in [0..(size - 1) -> Bucket] /\ store \in Seq(Record)
      /\ mem' \in [0..(size - 1) -> Bucket] /\ store' \in Seq(Record)
  BY Zenon DEF Inv, TypeOK
<1>3. mem'[i].hash = deletedBucket /\ \A j \in 0..(size - 1) : j # i => mem'[j] = mem[j]
  BY <1>1, <1>2, Zenon DEF Bucket
<1> HIDE DEF i
<1>4. \A j \in 0..(size - 1) : mem'[j].hash # emptyBucket <=> mem[j].hash # emptyBucket
  BY <1>1, <1>2, <1>3 DEF Live, Bucket, emptyBucket, deletedBucket
<1>5. \A j \in 0..(size - 1) : Live(mem', j) =>
        /\ Live(mem, j) /\ mem'[j] = mem[j] /\ mem[j].idx \in 1..Len(store)
        /\ store'[mem[j].idx] = store[mem[j].idx]
  BY <1>2, <1>3 DEF Live, Inv, IndexSound, LeadsToRecord, StoreGrows, deletedBucket
<1>6. NumBuckets(mem') = NumBuckets(mem)
  BY <1>2, <1>4, Zenon DEF NumBuckets
<1>7. ProbingEnds'
  BY <1>2, <1>4, <1>6, Zenon DEF Inv, ProbingEnds
<1>8. LeadsToRecord(mem)'
  <2> SUFFICES ASSUME NEW j \in 0..(size - 1), Live(mem', j)
               PROVE  /\ mem'[j].idx \in 1..Len(store')
                      /\ mem'[j].hash = hashReMap(Hash[store'[mem'[j].idx].key])
    BY <1>2, Zenon DEF LeadsToRecord, Live
  <2>1. mem[j].hash = hashReMap(Hash[store[mem[j].idx].key])
    BY <1>2, <1>5, Zenon DEF Inv, IndexSound, LeadsToRecord
  <2>2. Len(store) \in Nat /\ Len(store') \in Nat
    BY <1>2
  <2>3. /\ mem'[j] = mem[j] /\ mem[j].idx \in 1..Len(store)
        /\ store'[mem'[j].idx] = store[mem[j].idx]
    BY <1>5, Zenon
  <2>4. mem'[j].idx \in 1..Len(store')
    BY <2>2, <2>3 DEF StoreGrows
  <2> QED BY <2>1, <2>3, <2>4, Zenon
<1>9. Reachable(mem, size)'
  <2> SUFFICES ASSUME NEW j \in 0..(size - 1), Live(mem', j),
                      NEW b \in Before(Home(mem'[j].hash, size), j, size)
               PROVE  mem'[b].hash # emptyBucket
    BY <1>2, Zenon DEF Reachable, Live
  <2>1. mem[b].hash # emptyBucket
    BY <1>2, <1>5, Zenon DEF Inv, IndexSound, Reachable
  <2>2. mem'[j].hash \in Nat
    BY <1>2, Zenon DEF Bucket
  <2>3. b \in 0..(size - 1)
    BY <1>2, <2>2, HomeType, BeforeType, Zenon
  <2> QED BY <2>1, <2>3, <1>4, Zenon
<1>10. OneBucketPerKey(mem)'
  <2> SUFFICES ASSUME NEW a \in 0..(size - 1), NEW b \in 0..(size - 1),
                      Live(mem', a), Live(mem', b), a # b,
                      store'[mem'[a].idx].key = store'[mem'[b].idx].key
               PROVE  FALSE
    BY <1>2 DEF OneBucketPerKey, Live
  <2> QED BY <1>2, <1>5, Zenon DEF Inv, IndexSound, OneBucketPerKey
<1> QED BY <1>7, <1>8, <1>9, <1>10, Zenon DEF Inv, LoadBounded, IndexSound, ExpandCopies

(* Nothing is lost in a step that leaves the hashmap and the store alone.  *)
LEMMA Untouched ==
    ASSUME Inv, TypeOK', UNCHANGED <<hmVars, store>>, pc' \notin {"expand", "run"}
    PROVE  Inv'
<1>1. LeadsToRecord(mem)' /\ Reachable(mem, size)' /\ OneBucketPerKey(mem)'
  BY Zenon DEF Inv, IndexSound, hmVars, LeadsToRecord, Reachable, OneBucketPerKey, Live
<1>2. ProbingEnds'
  BY Zenon DEF Inv, ProbingEnds, hmVars, NumBuckets
<1> QED BY <1>1, <1>2, Zenon DEF Inv, LoadBounded, IndexSound, ExpandCopies, hmVars

(* A hashmap with empty buckets only, as a new one or one that Open starts *)
(* from.                                                                   *)
LEMMA FreshSound ==
    TypeOK /\ mem = Fresh(size) /\ numStoredKeys = 0 /\ pc \notin {"expand", "run"} => Inv
<1> SUFFICES ASSUME TypeOK, mem = Fresh(size), numStoredKeys = 0, pc \notin {"expand", "run"}
             PROVE  Inv
  BY Zenon
<1>1. size \in Nat \ {0} /\ DOMAIN mem = 0..(size - 1) /\ 0 \in DOMAIN mem
  BY DEF TypeOK
<1>2. \A i \in DOMAIN mem : mem[i].hash = emptyBucket /\ ~Live(mem, i)
  BY DEF Fresh, Live, emptyBucket, deletedBucket
<1>3. NumBuckets(mem) = {}
  BY <1>2, Zenon DEF NumBuckets
<1>4. ProbingEnds
  BY <1>1, <1>2, <1>3, FS_EmptySet, Zenon DEF ProbingEnds
<1>5. NumKeysToExpand(size) \in Nat
  BY <1>1, LoadLimit, Zenon
<1>6. LoadBounded
  BY <1>5 DEF LoadBounded
<1>7. IndexSound
  BY <1>2, Zenon DEF IndexSound, LeadsToRecord, Reachable, OneBucketPerKey
<1> QED BY <1>4, <1>6, <1>7, Zenon DEF Inv, ExpandCopies

-----------------------------------------------------------------------------
(* Types of what the operations compute                                    *)

(* One element of a function is replaced.                                  *)
LEMMA UpdateType ==
    ASSUME NEW D, NEW R, NEW f \in [D -> R], NEW x, NEW v \in R
    PROVE  [f EXCEPT ![x] = v] \in [D -> R]
BY Zenon

(* The size of a record in the file.                                       *)
LEMMA RecordSizeType ==
    ASSUME NEW r \in Record
    PROVE  RecordSize(r) \in Nat /\ TombBytes(r) \in Nat
<1>1. KeyLen[r.key] \in Nat /\ ValLen[r.val] \in Nat
  BY ConstantsAssumption, Zenon DEF Record
<1> QED BY <1>1 DEF RecordSize, TombBytes

(* What Set and CAS write is a record of their key.                        *)
LEMMA PairType ==
    ASSUME NEW k \in Key, NEW t \in Time, NEW v \in Val
    PROVE  Pair(k, t, v) \in Record /\ Pair(k, t, v).key = k
BY Zenon DEF Pair, Record

(* So is what Del writes.                                                  *)
LEMMA TombstoneType ==
    ASSUME NEW k \in Key
    PROVE  Tombstone(k) \in Record /\ Tombstone(k).key = k
BY ConstantsAssumption, Zenon DEF Tombstone, Record

(* sum and sub of the term of a pair give a checksum.                      *)
LEMMA ChecksumType ==
    ASSUME NEW s \in [Key \X Time -> Int], NEW k, NEW t
    PROVE  /\ sum(s, k, t) \in [Key \X Time -> Int]
           /\ sub(s, k, t) \in [Key \X Time -> Int]
<1>1. ASSUME NEW D, NEW f \in [D -> Int], NEW x
      PROVE  [f EXCEPT ![x] = @ + 1] \in [D -> Int] /\ [f EXCEPT ![x] = @ - 1] \in [D -> Int]
  <2>1. CASE x \in D
    <3>1. f[x] + 1 \in Int /\ f[x] - 1 \in Int
      BY <2>1
    <3> QED BY <3>1, UpdateType, Zenon
  <2>2. CASE x \notin D
    <3>1. [f EXCEPT ![x] = @ + 1] = f /\ [f EXCEPT ![x] = @ - 1] = f
      BY <2>2, Zenon
    <3> QED BY <3>1, Zenon
  <2> QED BY <2>1, <2>2, Zenon
<1> QED BY <1>1, Zenon DEF sum, sub

(* put appends a record, so that no bucket leads elsewhere than before.    *)
LEMMA PutGrows ==
    ASSUME Inv, NEW r \in Record, put(r)
    PROVE  /\ StoreGrows /\ store' \in Seq(Record) /\ length' \in Nat
           /\ Len(store') = Len(store) + 1 /\ store'[Len(store) + 1] = r
<1>1. store \in Seq(Record) /\ length \in Nat
  BY Zenon DEF Inv, TypeOK
<1>2. RecordSize(r) \in Nat
  BY RecordSizeType, Zenon
<1> QED BY <1>1, <1>2 DEF put, StoreGrows

(* What a call that is not in a loop leaves behind keeps the types.        *)
LEMMA CallType ==
    ASSUME Inv, op' = NoOp, UNCHANGED <<expandVars, size>>, pc # "expand",
           mem' \in [0..(size - 1) -> Bucket], numStoredKeys' \in Nat,
           store' \in Seq(Record), length' \in Nat, deleted' \in Nat,
           checksum' \in [Key \X Time -> Int],
           pc' \in {"idle", "closed", "restore", "early", "panic"},
           restored' \in 0..Len(store'),
           ans'.out \in {"ok", "err"}, ans'.op \in SetOp \cup CASOp \cup DelOp \cup {ShortOp},
           refused' \subseteq {"cas", "del", "restore"}
    PROVE  TypeOK'
<1>1. NoOp # Restore
  BY Zenon DEF NoOp, Restore
<1> QED BY <1>1, Zenon DEF Inv, TypeOK, expandVars

-----------------------------------------------------------------------------
(* The operations keep the invariant                                       *)

(* A call that answers without touching hashmap, store or checksum.        *)
LEMMA AnswerInv ==
    ASSUME Inv, NEW o \in SetOp \cup CASOp \cup DelOp \cup {ShortOp}, NEW r \in {"ok", "err"},
           Answer(o, r), op' = NoOp, pc # "expand", UNCHANGED <<hmVars, stVars, expandVars, restored>>,
           checksum' \in [Key \X Time -> Int], refused' \subseteq {"cas", "del", "restore"}
    PROVE  Inv'
<1>1. ans'.op = o /\ ans'.out = r /\ pc' = "idle"
  BY Zenon DEF Answer
<1>2. TypeOK'
  BY <1>1, CallType, Zenon DEF Inv, TypeOK, hmVars, stVars
<1> QED BY <1>1, <1>2, Untouched, Zenon DEF stVars

(* A call that writes pair r of key k in the bucket found for k.           *)
LEMMA PutAtInv ==
    ASSUME Inv, HasRoom, NEW o \in SetOp \cup CASOp, Answer(o, "ok"),
           PutAt(Slot(o.key), Pair(o.key, o.ts, o.val)),
           numStoredKeys' = IF IsFound(o.key) THEN numStoredKeys ELSE numStoredKeys + 1,
           checksum' \in [Key \X Time -> Int],
           op' = NoOp, pc # "expand", UNCHANGED <<expandVars, restored, refused>>
    PROVE  Inv'
<1> DEFINE k == o.key
           r == Pair(k, o.ts, o.val)
<1>1. k \in Key /\ o.ts \in Time /\ o.val \in Val
  BY Zenon DEF SetOp, CASOp
<1>2. r \in Record /\ r.key = k
  BY <1>1, PairType, Zenon
<1>3. /\ StoreGrows /\ store' \in Seq(Record) /\ length' \in Nat
      /\ Len(store') = Len(store) + 1 /\ store'[Len(store) + 1] = r
  <2> HIDE DEF r
  <2> QED BY <1>2, PutGrows, Zenon DEF PutAt, r
<1>4. mem' = [mem EXCEPT ![Slot(k)] = [hash |-> hashReMap(Hash[k]), idx |-> Len(store) + 1]]
  BY <1>2, Zenon DEF PutAt
<1>5. /\ mem \in [0..(size - 1) -> Bucket] /\ store \in Seq(Record)
      /\ numStoredKeys \in Nat /\ deleted \in Nat /\ restored \in 0..Len(store)
      /\ refused \subseteq {"cas", "del", "restore"}
  BY Zenon DEF Inv, TypeOK
<1>6. hashReMap(Hash[k]) \in Nat
  BY <1>1, SlotFinds, Zenon
<1> HIDE DEF k, r
<1>7. mem' \in [0..(size - 1) -> Bucket]
  <2>1. [hash |-> hashReMap(Hash[k]), idx |-> Len(store) + 1] \in Bucket
    BY <1>5, <1>6 DEF Bucket
  <2> QED BY <1>4, <1>5, <2>1, UpdateType, Zenon
<1>8. ans'.op = o /\ ans'.out = "ok" /\ pc' = "idle"
  BY Zenon DEF Answer
<1>9. restored' \in 0..Len(store') /\ numStoredKeys' \in Nat /\ deleted' \in Nat /\ size' = size
  BY <1>3, <1>5 DEF PutAt
<1>10. TypeOK'
  BY <1>3, <1>5, <1>7, <1>8, <1>9, CallType, Zenon
<1>11. Len(store) + 1 \in 1..Len(store') /\ store'[Len(store) + 1].key = k
  BY <1>2, <1>3, <1>5
<1> QED BY <1>1, <1>3, <1>4, <1>8, <1>9, <1>10, <1>11, IndexWrite, Zenon DEF k

(* Set, whether it writes, discards or is refused.                         *)
LEMMA SetInv ==
    ASSUME Inv, HasRoom, NEW o \in SetOp, Set(o),
           op' = NoOp, pc # "expand", UNCHANGED expandVars
    PROVE  Inv'
<1> DEFINE k == o.key
           r == Pair(k, o.ts, o.val)
<1>1. checksum \in [Key \X Time -> Int] /\ refused \subseteq {"cas", "del", "restore"}
  BY Zenon DEF Inv, TypeOK
<1>2. CASE /\ ~IsFound(k) /\ PutAt(Slot(k), r)
           /\ numStoredKeys' = numStoredKeys + 1
           /\ checksum' = sum(checksum, k, o.ts)
           /\ Answer(o, "ok") /\ UNCHANGED <<restored, refused>>
  BY <1>1, <1>2, ChecksumType, PutAtInv, Zenon
<1>3. CASE /\ IsFound(k) /\ PutAt(Slot(k), r)
           /\ checksum' = sum(sub(checksum, k, Found(k).ts), k, o.ts)
           /\ Answer(o, "ok") /\ UNCHANGED <<numStoredKeys, restored, refused>>
  BY <1>1, <1>3, ChecksumType, PutAtInv, Zenon
<1>4. CASE /\ Answer(o, "ok") \/ Answer(o, "err")
           /\ UNCHANGED <<hmVars, stVars, checksum, restored, refused>>
  BY <1>1, <1>4, AnswerInv, Zenon
<1> QED BY <1>2, <1>3, <1>4, Zenon DEF Set

(* CAS, whether it fails its test, writes or is refused.                   *)
LEMMA CASInv ==
    ASSUME Inv, HasRoom, NEW o \in CASOp, CAS(o),
           op' = NoOp, pc # "expand", UNCHANGED expandVars
    PROVE  Inv'
<1> DEFINE k == o.key
           r == Pair(k, o.ts, o.val)
<1>1. checksum \in [Key \X Time -> Int] /\ refused \subseteq {"cas", "del", "restore"}
  BY Zenon DEF Inv, TypeOK
<1>2. CASSub(k) \in [Key \X Time -> Int]
  BY <1>1, ChecksumType, Zenon DEF CASSub
<1>3. CASE /\ Answer(o, "err")
           /\ UNCHANGED <<hmVars, stVars, checksum, refused, restored>>
  BY <1>1, <1>3, AnswerInv, Zenon
<1>4. CASE /\ PutAt(Slot(k), r)
           /\ numStoredKeys' = IF IsFound(k) THEN numStoredKeys ELSE numStoredKeys + 1
           /\ checksum' = sum(CASSub(k), k, o.ts)
           /\ Answer(o, "ok") /\ UNCHANGED <<refused, restored>>
  <2>1. checksum' \in [Key \X Time -> Int]
    BY <1>2, <1>4, ChecksumType, Zenon
  <2> QED BY <1>1, <1>4, <2>1, PutAtInv, Zenon
<1>5. CASE /\ checksum' = CASSub(k)
           /\ Answer(o, "err")
           /\ refused' = IF IsFound(k) THEN refused \cup {"cas"} ELSE refused
           /\ UNCHANGED <<hmVars, stVars, restored>>
  BY <1>1, <1>2, <1>5, AnswerInv, Zenon
<1> QED BY <1>3, <1>4, <1>5, Zenon DEF CAS

(* restorePair, whether the key of the record is found or not.             *)
LEMMA RestoreInv ==
    ASSUME Inv, HasRoom, restored < Len(store), restorePair,
           op' = NoOp, pc # "expand", UNCHANGED expandVars
    PROVE  Inv'
<1> DEFINE r == store[restored + 1]
           k == r.key
           b == [hash |-> hashReMap(Hash[k]), idx |-> restored + 1]
<1>1. /\ size \in Nat \ {0} /\ mem \in [0..(size - 1) -> Bucket] /\ store \in Seq(Record)
      /\ numStoredKeys \in Nat /\ deleted \in Nat /\ length \in Nat
      /\ restored \in 0..Len(store) /\ checksum \in [Key \X Time -> Int]
      /\ refused \subseteq {"cas", "del", "restore"}
      /\ ans.out \in {"ok", "err"} /\ ans.op \in SetOp \cup CASOp \cup DelOp \cup {ShortOp}
  BY Zenon DEF Inv, TypeOK
<1>2. r \in Record /\ k \in Key /\ restored + 1 \in 1..Len(store)
  <2>1. restored + 1 \in 1..Len(store)
    BY <1>1
  <2>2. r \in Record
    BY <2>1, <1>1
  <2> QED BY <2>1, <2>2, Zenon DEF Record
<1>3. RecordSize(r) \in Nat /\ TombBytes(r) \in Nat
  BY <1>2, RecordSizeType, Zenon
<1>4. /\ restored' \in 0..Len(store') /\ length' \in Nat /\ store' = store
      /\ pc' = "restore" /\ size' = size /\ ans' = ans /\ refused' = refused
  BY <1>1, <1>2, <1>3, SMTT(30) DEF restorePair, RestoreAdvance
<1>5. b \in Bucket
  <2>1. hashReMap(Hash[k]) \in Nat
    BY <1>2, SlotFinds, Zenon
  <2> QED BY <1>2, <2>1 DEF Bucket
<1>6. StoreGrows
  BY <1>1, <1>4 DEF StoreGrows
<1> HIDE DEF r, k, b
<1>7. ASSUME mem' \in [0..(size - 1) -> Bucket], numStoredKeys' \in Nat, deleted' \in Nat,
             checksum' \in [Key \X Time -> Int]
      PROVE  TypeOK'
  BY <1>1, <1>4, <1>7, CallType, Zenon
<1>8. ASSUME mem' = [mem EXCEPT ![Slot(k)] = b], deleted' \in Nat,
             numStoredKeys' = IF IsFound(k) THEN numStoredKeys ELSE numStoredKeys + 1,
             checksum' \in [Key \X Time -> Int]
      PROVE  Inv'
  <2>1. mem' \in [0..(size - 1) -> Bucket] /\ numStoredKeys' \in Nat
    BY <1>1, <1>5, <1>8, UpdateType
  <2>2. TypeOK'
    BY <1>7, <1>8, <2>1, Zenon
  <2>3. store'[restored + 1].key = k /\ restored + 1 \in 1..Len(store')
    BY <1>2, <1>4, Zenon DEF k, r
  <2>4. mem' = [mem EXCEPT ![Slot(k)] = [hash |-> hashReMap(Hash[k]), idx |-> restored + 1]]
    BY <1>8, Zenon DEF b
  <2> QED BY <1>2, <1>4, <1>6, <1>8, <2>2, <2>3, <2>4, IndexWrite, Zenon
<1>9. CASE ~IsFound(k)
  <2>1. /\ mem' = [mem EXCEPT ![Slot(k)] = b] /\ numStoredKeys' = numStoredKeys + 1
        /\ checksum' = sum(checksum, k, r.ts) /\ deleted' = deleted + TombBytes(r)
    BY <1>9, Zenon DEF restorePair, k, r, b
  <2>2. checksum' \in [Key \X Time -> Int]
    BY <2>1, <1>1, ChecksumType, Zenon
  <2>3. deleted' \in Nat
    BY <2>1, <1>1, <1>3
  <2> QED BY <2>1, <2>2, <2>3, <1>8, <1>9, Zenon
<1>10. CASE IsFound(k)
  <2>1. /\ mem' = [mem EXCEPT ![Slot(k)] = RestoreBucket(@, r)] /\ numStoredKeys' = numStoredKeys
        /\ checksum' = IF r.tomb THEN sub(checksum, k, Found(k).ts)
                                 ELSE sum(sub(checksum, k, Found(k).ts), k, r.ts)
        /\ deleted' = deleted + RecordSize(Found(k)) + TombBytes(r)
    BY <1>10, Zenon DEF restorePair, k, r
  <2>2. checksum' \in [Key \X Time -> Int]
    BY <2>1, <1>1, ChecksumType, Zenon
  <2>3. Found(k) \in Record /\ Slot(k) \in 0..(size - 1)
    BY <1>2, <1>10, SlotFinds, Zenon
  <2>4. deleted' \in Nat
    <3>1. RecordSize(Found(k)) \in Nat
      BY <2>3, RecordSizeType, Zenon
    <3> QED BY <2>1, <3>1, <1>1, <1>3
  <2>5. CASE ~r.tomb
    <3>1. mem' = [mem EXCEPT ![Slot(k)] = b]
      BY <2>1, <2>5, Zenon DEF RestoreBucket, b, k
    <3> QED BY <2>1, <2>2, <2>4, <3>1, <1>8, <1>10, Zenon
  <2>6. CASE r.tomb
    <3>1. mem' = [mem EXCEPT ![Slot(k)] = [@ EXCEPT !.hash = deletedBucket]]
      BY <2>1, <2>6, Zenon DEF RestoreBucket
    <3>2. mem' \in [0..(size - 1) -> Bucket]
      <4>1. mem[Slot(k)] \in Bucket
        BY <1>1, <2>3, Zenon
      <4>2. [mem[Slot(k)] EXCEPT !.hash = deletedBucket] \in Bucket
        BY <4>1, Zenon DEF Bucket, deletedBucket
      <4> QED BY <3>1, <4>2, <1>1, UpdateType, Zenon
    <3>3. TypeOK'
      BY <3>2, <2>1, <2>2, <2>4, <1>1, <1>7, Zenon
    <3> QED BY <3>1, <3>3, <2>1, <1>2, <1>4, <1>6, <1>10, IndexDelete, Zenon
  <2> QED BY <2>5, <2>6, Zenon
<1> QED BY <1>9, <1>10, Zenon

(* restorePair panics, before or after it has grown the hashmap.           *)
LEMMA BreakInv ==
    ASSUME Inv, restorePairPanics, op' = NoOp, pc # "expand", UNCHANGED expandVars
    PROVE  Inv'
<1>1. /\ size \in Nat \ {0} /\ mem \in [0..(size - 1) -> Bucket] /\ store \in Seq(Record)
      /\ numStoredKeys \in Nat /\ deleted \in Nat /\ length \in Nat
      /\ restored \in 0..Len(store) /\ checksum \in [Key \X Time -> Int]
      /\ refused \subseteq {"cas", "del", "restore"}
      /\ ans.out \in {"ok", "err"} /\ ans.op \in SetOp \cup CASOp \cup DelOp \cup {ShortOp}
  BY Zenon DEF Inv, TypeOK
<1>2. /\ UNCHANGED <<size, mem, numStoredKeys, store, length, deleted, checksum, restored, ans, refused>>
      /\ pc' = "panic"
  BY Zenon DEF restorePairPanics, hmVars, stVars
<1>3. TypeOK'
  BY <1>1, <1>2, CallType, Zenon
<1> QED BY <1>2, <1>3, Untouched, Zenon DEF hmVars

(* The operation that runs once there is room, be it at once or after      *)
(* expand.                                                                 *)
LEMMA RunInv ==
    ASSUME Inv, HasRoom, NEW o \in SetOp \cup CASOp \cup {Restore}, Run(o),
           o = Restore => restored < Len(store),
           op' = NoOp, pc # "expand", UNCHANGED expandVars
    PROVE  Inv'
<1>1. CASE o.kind = "set" /\ Set(o)
  <2>1. o \in SetOp
    BY <1>1 DEF SetOp, CASOp, Restore
  <2> QED BY <1>1, <2>1, SetInv, Zenon
<1>2. CASE o.kind = "cas" /\ CAS(o)
  <2>1. o \in CASOp
    BY <1>2 DEF SetOp, CASOp, Restore
  <2> QED BY <1>2, <2>1, CASInv, Zenon
<1>3. CASE o.kind = "restore" /\ restorePair
  <2>1. o = Restore
    BY <1>3, Zenon DEF SetOp, CASOp
  <2> QED BY <1>3, <2>1, RestoreInv, Zenon
<1>4. CASE restorePairPanics
  BY <1>4, BreakInv, Zenon
<1> QED BY <1>1, <1>2, <1>3, <1>4, Zenon DEF Run

(* Del, whether it discards, deletes or deletes without a tombstone.       *)
LEMMA DelInv ==
    ASSUME Inv, NEW o \in DelOp, Del(o), pc = "idle",
           UNCHANGED <<size, numStoredKeys, op, expandVars, restored>>
    PROVE  Inv'
<1> DEFINE k == o.key
<1>1. /\ mem \in [0..(size - 1) -> Bucket] /\ store \in Seq(Record)
      /\ numStoredKeys \in Nat /\ deleted \in Nat /\ length \in Nat
      /\ restored \in 0..Len(store) /\ checksum \in [Key \X Time -> Int]
      /\ refused \subseteq {"cas", "del", "restore"}
      /\ op = NoOp
  BY Zenon DEF Inv, TypeOK
<1>2. k \in Key
  BY Zenon DEF DelOp
<1>3. CASE Answer(o, "ok") /\ UNCHANGED <<mem, stVars, checksum, refused>>
  BY <1>1, <1>3, AnswerInv, Zenon DEF hmVars
<1>4. CASE /\ IsFound(k)
           /\ mem' = [mem EXCEPT ![Slot(k)].hash = deletedBucket]
           /\ checksum' = sub(checksum, k, Found(k).ts)
           /\ deleted' = deleted + RecordSize(Found(k))
           /\ \/ put(Tombstone(k)) /\ Answer(o, "ok") /\ UNCHANGED refused
              \/ /\ UNCHANGED <<store, length>>
                 /\ Answer(o, "err") /\ refused' = refused \cup {"del"}
  <2>1. Found(k) \in Record /\ Slot(k) \in 0..(size - 1)
    BY <1>2, <1>4, SlotFinds, Zenon
  <2>2. mem' = [mem EXCEPT ![Slot(k)] = [@ EXCEPT !.hash = deletedBucket]]
    BY <1>4, Zenon
  <2>3. mem' \in [0..(size - 1) -> Bucket]
    <3>1. mem[Slot(k)] \in Bucket
      BY <1>1, <2>1, Zenon
    <3>2. [mem[Slot(k)] EXCEPT !.hash = deletedBucket] \in Bucket
      BY <3>1, Zenon DEF Bucket, deletedBucket
    <3> QED BY <2>2, <3>2, <1>1, UpdateType, Zenon
  <2>4. checksum' \in [Key \X Time -> Int]
    BY <1>1, <1>4, ChecksumType, Zenon
  <2>5. deleted' \in Nat
    BY <1>1, <1>4, <2>1, RecordSizeType
  <2>6. /\ StoreGrows /\ store' \in Seq(Record) /\ length' \in Nat
        /\ Len(store) \in Nat /\ Len(store') \in Nat
    <3>1. CASE put(Tombstone(k))
      BY <1>1, <1>2, <3>1, TombstoneType, PutGrows
    <3>2. CASE UNCHANGED <<store, length>>
      BY <1>1, <3>2 DEF StoreGrows
    <3> QED BY <1>4, <3>1, <3>2, Zenon
  <2>7. restored' \in 0..Len(store') /\ refused' \subseteq {"cas", "del", "restore"}
    BY <1>1, <1>4, <2>6 DEF StoreGrows
  <2>8. ans'.op = o /\ ans'.out \in {"ok", "err"} /\ pc' = "idle"
    BY <1>4 DEF Answer
  <2>9. TypeOK'
    BY <1>1, <2>3, <2>4, <2>5, <2>6, <2>7, <2>8, CallType, Zenon
  <2> QED BY <1>2, <1>4, <2>2, <2>6, <2>8, <2>9, IndexDelete, Zenon
<1> QED BY <1>3, <1>4, Zenon DEF Del

-----------------------------------------------------------------------------
(* expand                                                                  *)

(* The hashmap in use stays as it is while expand fills the new one.       *)
LEMMA OldIndexKept ==
    ASSUME Inv, UNCHANGED <<hmVars, store>>
    PROVE  /\ LeadsToRecord(mem)' /\ Reachable(mem, size)' /\ OneBucketPerKey(mem)'
           /\ (\E i \in DOMAIN mem : mem[i].hash = emptyBucket)'
           /\ (numStoredKeys = Cardinality(NumBuckets(mem)))'
           /\ (numStoredKeys <= NumKeysToExpand(size))'
<1>1. LeadsToRecord(mem)' /\ Reachable(mem, size)' /\ OneBucketPerKey(mem)'
  BY Zenon DEF Inv, IndexSound, hmVars, LeadsToRecord, Reachable, OneBucketPerKey, Live
<1>2. /\ (\E i \in DOMAIN mem : mem[i].hash = emptyBucket)'
      /\ (numStoredKeys = Cardinality(NumBuckets(mem)))'
  BY Zenon DEF Inv, ProbingEnds, hmVars, NumBuckets
<1> QED BY <1>1, <1>2, Zenon DEF Inv, LoadBounded, hmVars

(* expand begins with a new hashmap, twice as large and empty.             *)
LEMMA StartExpandInv ==
    ASSUME Inv, NEW o \in SetOp \cup CASOp \cup {Restore}, StartExpand(o),
           o = Restore => restored < Len(store)
    PROVE  Inv'
<1>1. size \in Nat \ {0}
  BY Zenon DEF Inv, TypeOK
<1>2. /\ newMem' \in [0..(2 * size - 1) -> Bucket] /\ 0 \in DOMAIN newMem'
      /\ \A i \in DOMAIN newMem' : newMem'[i].hash = emptyBucket /\ ~Live(newMem', i)
  BY <1>1 DEF StartExpand, Fresh, Bucket, emptyBucket, deletedBucket, Live
<1>3. pc' = "expand" /\ op' = o /\ newStored' = 0 /\ next' = 0 /\ size' = size
  BY Zenon DEF StartExpand, hmVars
<1>4. op' \in SetOp \cup CASOp \cup {Restore, NoOp} /\ op' # NoOp
  BY <1>3 DEF SetOp, CASOp, Restore, NoOp
<1>5. ans'.out \in {"ok", "err"} /\ ans'.op \in {ShortOp}
  BY Zenon DEF StartExpand, NoAnswer
<1>6. TypeOK'
  BY <1>1, <1>2, <1>3, <1>4, <1>5 DEF Inv, TypeOK, StartExpand, hmVars, stVars
<1>7. NumBuckets(newMem') = {}
  BY <1>2, Zenon DEF NumBuckets
<1>8. UNCHANGED <<hmVars, store>>
  BY Zenon DEF StartExpand, stVars
<1>9. ProbingEnds'
  BY <1>2, <1>3, <1>7, <1>8, OldIndexKept, FS_EmptySet, Zenon DEF ProbingEnds
<1>10. IndexSound'
  BY <1>2, <1>8, OldIndexKept, Zenon DEF IndexSound, LeadsToRecord, Reachable, OneBucketPerKey
<1>11. LoadBounded'
  BY <1>3, <1>8, OldIndexKept, Zenon DEF LoadBounded
<1>12. ExpandCopies'
  <2>1. {i \in NumBuckets(mem') : i < 0} = {}
    BY <1>6, SMTT(40) DEF TypeOK, NumBuckets
  <2>2. newStored' <= Cardinality({i \in NumBuckets(mem') : i < next'})
    BY <1>3, <2>1, FS_EmptySet
  <2>3. 0..(next' - 1) = {}
    BY <1>3
  <2> QED BY <1>2, <2>2, <2>3, Zenon DEF ExpandCopies, NumBuckets
<1> QED BY <1>6, <1>9, <1>10, <1>11, <1>12, Zenon DEF Inv

(* One turn of expand's loop copies a live bucket to where probing will    *)
(* find it, and drops a deleted one.                                       *)
LEMMA ExpandStepInv ==
    ASSUME Inv, ExpandStep
    PROVE  Inv'
<1> DEFINE b == mem[next]
           i == ProbeEmpty(newMem, 2 * size, b.hash)
           Passed == {x \in NumBuckets(mem) : x < next}
<1>1. /\ size \in Nat \ {0} /\ mem \in [0..(size - 1) -> Bucket] /\ store \in Seq(Record)
      /\ pc = "expand" /\ next \in 0..(size - 1)
      /\ newMem \in [0..(2 * size - 1) -> Bucket] /\ newStored \in Nat
      /\ numStoredKeys \in Nat
  BY DEF Inv, TypeOK, ExpandStep
<1>2. /\ next' = next + 1 /\ pc' = "expand" /\ op' = op /\ UNCHANGED <<hmVars, store>>
      /\ size' = size /\ mem' = mem /\ store' = store
  BY <1>1, Zenon DEF ExpandStep, stVars, hmVars
<1>3. b \in Bucket
  BY <1>1, Zenon
<1>4. /\ i \in 0..(2 * size - 1)
      /\ newMem[i].hash = emptyBucket
      /\ \A j \in Before(Home(b.hash, 2 * size), i, 2 * size) : newMem[j].hash # emptyBucket
  <2>1. b.hash \in Nat /\ 2 * size \in Nat \ {0} /\ DOMAIN newMem = 0..(2 * size - 1)
    BY <1>1, <1>3 DEF Bucket
  <2>2. \E x \in DOMAIN newMem : newMem[x].hash = emptyBucket
    BY <1>1, Zenon DEF Inv, ProbingEnds
  <2> HIDE DEF b
  <2> QED BY <2>1, <2>2, ProbeEmptyEnds, Zenon
<1>5. IsFiniteSet(Passed) /\ Cardinality(Passed) \in Nat /\ newStored <= Cardinality(Passed)
  <2>1. Passed \in SUBSET (0..(size - 1))
    BY <1>1, Zenon DEF NumBuckets
  <2>2. newStored <= Cardinality(Passed)
    BY <1>1, Zenon DEF Inv, ExpandCopies
  <2> HIDE DEF Passed
  <2>3. IsFiniteSet(Passed)
    BY <2>1, <1>1, BucketsFinite, Zenon
  <2> QED BY <2>2, <2>3, FS_CardinalityType, Zenon
<1>6. CASE ~Survives(b)
  <2>1. UNCHANGED <<newMem, newStored>> /\ ~Live(mem, next)
    BY <1>6, Zenon DEF ExpandStep, Survives, Live
  <2>2. TypeOK'
    BY <1>1, <1>2, <2>1 DEF Inv, TypeOK, ExpandStep, hmVars, stVars
  <2>3. ProbingEnds'
    BY <1>1, <1>2, <2>1, OldIndexKept, Zenon DEF Inv, ProbingEnds, NumBuckets
  <2>4. IndexSound'
    <3>1. LeadsToRecord(newMem)' /\ Reachable(newMem, 2 * size)' /\ OneBucketPerKey(newMem)'
      BY <1>1, <1>2, <2>1 DEF Inv, IndexSound, LeadsToRecord, Reachable, OneBucketPerKey, Live
    <3> QED BY <3>1, <1>2, OldIndexKept, Zenon DEF IndexSound
  <2>5. LoadBounded'
    BY <1>2, OldIndexKept, Zenon DEF LoadBounded
  <2>6. newStored' <= Cardinality({x \in NumBuckets(mem) : x < next + 1})
    <3>1. CASE b.hash = emptyBucket
      <4>1. {x \in NumBuckets(mem) : x < next + 1} = Passed
        BY <1>1, <3>1 DEF NumBuckets
      <4> QED BY <4>1, <1>5, <2>1, Zenon
    <3>2. CASE b.hash # emptyBucket
      <4>1. {x \in NumBuckets(mem) : x < next + 1} = Passed \cup {next} /\ next \notin Passed
        BY <1>1, <3>2 DEF NumBuckets
      <4>2. Cardinality(Passed \cup {next}) = Cardinality(Passed) + 1
        <5> HIDE DEF Passed
        <5> QED BY <4>1, <1>5, FS_AddElement, Zenon
      <4> QED BY <4>1, <4>2, <1>1, <1>5, <2>1, SMTT(30)
    <3> QED BY <3>1, <3>2, Zenon
  <2>7. \A x \in DOMAIN newMem' : newMem'[x].hash # emptyBucket =>
          \E j \in 0..(next' - 1) : Live(mem', j) /\ newMem'[x] = mem'[j]
    BY <1>1, <1>2, <2>1 DEF Inv, ExpandCopies
  <2>8. \A j \in 0..(next' - 1) : Live(mem', j) => \E x \in DOMAIN newMem' : newMem'[x] = mem'[j]
    <3>1. \A j \in 0..next : Live(mem, j) => j \in 0..(next - 1)
      BY <2>1, <1>1
    <3> QED BY <3>1, <1>1, <1>2, <2>1 DEF Inv, ExpandCopies
  <2>9. ExpandCopies'
    BY <1>2, <2>6, <2>7, <2>8, Zenon DEF ExpandCopies, Live, NumBuckets
  <2> QED BY <2>2, <2>3, <2>4, <2>5, <2>9, Zenon DEF Inv
<1>7. CASE Survives(b)
  <2>1. /\ newMem' = [newMem EXCEPT ![i] = b] /\ newStored' = newStored + 1
        /\ Live(mem, next)
    BY <1>7, Zenon DEF ExpandStep, Survives, Live
  <2>2. newMem' \in [0..(2 * size - 1) -> Bucket] /\ newStored' \in Nat
    <3> HIDE DEF b, i
    <3> QED BY <1>1, <1>3, <2>1, UpdateType
  <2>3. newMem'[i] = b /\ \A j \in 0..(2 * size - 1) : j # i => newMem'[j] = newMem[j]
    BY <1>1, <1>4, <2>1, Zenon
  <2> HIDE DEF i
  <2>4. TypeOK'
    BY <1>1, <1>2, <2>2 DEF Inv, TypeOK, ExpandStep, hmVars, stVars
  <2>5. b.hash > deletedBucket
    BY <2>1, Zenon DEF Live
  <2>6. /\ b.idx \in 1..Len(store)
        /\ b.hash = hashReMap(Hash[store[b.idx].key])
    BY <1>1, <2>1, Zenon DEF Inv, IndexSound, LeadsToRecord
  <2>7. \A j \in 0..(2 * size - 1) : newMem[j].hash # emptyBucket => newMem'[j].hash # emptyBucket
    BY <2>3, <2>5 DEF emptyBucket, deletedBucket
  <2>8. NumBuckets(newMem') = NumBuckets(newMem) \cup {i} /\ i \notin NumBuckets(newMem)
    <3>1. b.hash # emptyBucket
      BY <1>3, <2>5 DEF Bucket, emptyBucket, deletedBucket
    <3>2. DOMAIN newMem = 0..(2 * size - 1) /\ DOMAIN newMem' = 0..(2 * size - 1)
      BY <1>1, <2>2, Zenon
    <3> HIDE DEF b
    <3>3. \A j \in 0..(2 * size - 1) : newMem'[j].hash # emptyBucket <=>
            newMem[j].hash # emptyBucket \/ j = i
      BY <3>1, <1>4, <2>3, Zenon
    <3> QED BY <3>2, <3>3, <1>4, Zenon DEF NumBuckets
  <2>9. newStored' = Cardinality(NumBuckets(newMem'))
    <3>1. NumBuckets(newMem) \in SUBSET (0..(2 * size - 1)) /\ 2 * size \in Nat
      BY <1>1 DEF NumBuckets
    <3>2. IsFiniteSet(NumBuckets(newMem))
      BY <3>1, BucketsFinite, Zenon
    <3>3. newStored = Cardinality(NumBuckets(newMem))
      BY <1>1, Zenon DEF Inv, ProbingEnds
    <3> QED BY <3>2, <3>3, <2>1, <2>8, FS_AddElement, Zenon
  <2>10. newStored' <= Cardinality({x \in NumBuckets(mem) : x < next + 1})
    <3>1. {x \in NumBuckets(mem) : x < next + 1} = Passed \cup {next} /\ next \notin Passed
      BY <1>1, <1>3, <2>5, SMTT(30) DEF NumBuckets, Bucket, emptyBucket, deletedBucket
    <3>2. Cardinality(Passed \cup {next}) = Cardinality(Passed) + 1
      <4> HIDE DEF Passed
      <4> QED BY <3>1, <1>5, FS_AddElement, Zenon
    <3>3. newStored + 1 <= Cardinality(Passed) + 1
      <4> HIDE DEF Passed
      <4> QED BY <1>1, <1>5
    <3> QED BY <3>1, <3>2, <3>3, <2>1, Zenon
  <2>11. \E x \in DOMAIN newMem' : newMem'[x].hash = emptyBucket
    <3> DEFINE P == {x \in NumBuckets(mem) : x < next + 1}
    <3>1. P \in SUBSET (0..(size - 1))
      BY <1>1, Zenon DEF NumBuckets
    <3>2. newStored' <= Cardinality(P)
      BY <2>10, Zenon
    <3> HIDE DEF P
    <3>3. IsFiniteSet(0..(size - 1)) /\ Cardinality(0..(size - 1)) = size
      BY <1>1, FS_Interval
    <3>4. Cardinality(P) \in Nat /\ Cardinality(P) <= size
      BY <3>1, <3>3, FS_Subset, FS_CardinalityType, Zenon
    <3>5. Cardinality(NumBuckets(newMem')) < 2 * size
      BY <3>2, <3>4, <2>2, <2>9, <1>1
    <3>6. NumBuckets(newMem') \in SUBSET (0..(2 * size - 1)) /\ 2 * size \in Nat
      BY <2>2, <1>1 DEF NumBuckets
    <3>7. \E x \in 0..(2 * size - 1) : x \notin NumBuckets(newMem')
      BY <3>5, <3>6, OneLeft, Zenon
    <3> QED BY <3>7, <2>2, Zenon DEF NumBuckets
  <2>12. ProbingEnds'
    BY <1>2, <2>9, <2>11, OldIndexKept, Zenon DEF ProbingEnds, NumBuckets
  <2>13. LeadsToRecord(newMem)'
    <3> SUFFICES ASSUME NEW j \in 0..(2 * size - 1), Live(newMem', j)
                 PROVE  /\ newMem'[j].idx \in 1..Len(store)
                        /\ newMem'[j].hash = hashReMap(Hash[store[newMem'[j].idx].key])
      BY <1>2, <2>2, Zenon DEF LeadsToRecord, Live
    <3>1. CASE j = i
      BY <3>1, <2>3, <2>6, Zenon
    <3>2. CASE j # i
      BY <3>2, <2>3, <1>1, Zenon DEF Inv, IndexSound, LeadsToRecord, Live
    <3> QED BY <3>1, <3>2, Zenon
  <2>14. Reachable(newMem, 2 * size)'
    <3> SUFFICES ASSUME NEW j \in 0..(2 * size - 1), Live(newMem', j),
                        NEW x \in Before(Home(newMem'[j].hash, 2 * size), j, 2 * size)
                 PROVE  newMem'[x].hash # emptyBucket
      BY <1>2, <2>2, Zenon DEF Reachable, Live
    <3>1. newMem[x].hash # emptyBucket
      <4>1. CASE j = i
        BY <4>1, <1>4, <2>3, Zenon
      <4>2. CASE j # i
        BY <4>2, <2>3, <1>1, Zenon DEF Inv, IndexSound, Reachable, Live
      <4> QED BY <4>1, <4>2, Zenon
    <3>2. newMem'[j].hash \in Nat /\ 2 * size \in Nat \ {0}
      BY <1>1, <2>2 DEF Bucket
    <3>3. x \in 0..(2 * size - 1)
      BY <3>2, HomeType, BeforeType, Zenon
    <3> QED BY <3>1, <3>3, <2>7, Zenon
  <2>15. \A j \in 0..(2 * size - 1) : newMem[j].hash # emptyBucket =>
           \E y \in 0..(next - 1) : Live(mem, y) /\ newMem[j] = mem[y]
    BY <1>1, Zenon DEF Inv, ExpandCopies
  <2>16. OneBucketPerKey(newMem)'
    <3> SUFFICES ASSUME NEW x \in 0..(2 * size - 1), NEW y \in 0..(2 * size - 1), x # y,
                        Live(newMem', x), Live(newMem', y),
                        store[newMem'[x].idx].key = store[newMem'[y].idx].key
                 PROVE  FALSE
      BY <1>2, <2>2, Zenon DEF OneBucketPerKey, Live
    <3>1. \A j \in 0..(2 * size - 1) : j # i /\ Live(newMem', j) =>
            Live(newMem, j) /\ store[newMem'[j].idx].key # store[b.idx].key
      <4> SUFFICES ASSUME NEW j \in 0..(2 * size - 1), j # i, Live(newMem', j)
                   PROVE  Live(newMem, j) /\ store[newMem'[j].idx].key # store[b.idx].key
        BY Zenon
      <4>1. newMem'[j] = newMem[j] /\ Live(newMem, j) /\ newMem[j].hash # emptyBucket
        BY <2>3 DEF Live, emptyBucket, deletedBucket
      <4>2. PICK z \in 0..(next - 1) : Live(mem, z) /\ newMem[j] = mem[z]
        BY <4>1, <2>15, Zenon
      <4>3. z \in 0..(size - 1) /\ z # next
        BY <1>1
      <4> QED BY <4>1, <4>2, <4>3, <1>1, <2>1, Zenon DEF Inv, IndexSound, OneBucketPerKey
    <3>2. x # i /\ y # i
      BY <3>1, <2>3, Zenon
    <3> QED BY <3>1, <3>2, <2>3, <1>1, Zenon DEF Inv, IndexSound, OneBucketPerKey
  <2>17. IndexSound'
    BY <2>13, <2>14, <2>16, <1>2, OldIndexKept, Zenon DEF IndexSound
  <2>18. LoadBounded'
    BY <1>2, OldIndexKept, Zenon DEF LoadBounded
  <2>19. \A x \in 0..(2 * size - 1) : newMem'[x].hash # emptyBucket =>
           \E j \in 0..next : Live(mem, j) /\ newMem'[x] = mem[j]
    BY <2>1, <2>3, <2>15, <1>1
  <2>20. \A j \in 0..next : Live(mem, j) => \E x \in 0..(2 * size - 1) : newMem'[x] = mem[j]
    <3> SUFFICES ASSUME NEW j \in 0..next, Live(mem, j)
                 PROVE  \E x \in 0..(2 * size - 1) : newMem'[x] = mem[j]
      BY Zenon
    <3>1. CASE j = next
      BY <3>1, <1>4, <2>3, Zenon
    <3>2. CASE j # next
      <4>1. PICK x \in 0..(2 * size - 1) : newMem[x] = mem[j]
        BY <3>2, <1>1 DEF Inv, ExpandCopies
      <4>2. x # i
        BY <4>1, <1>4 DEF Live, emptyBucket, deletedBucket
      <4> QED BY <4>1, <4>2, <2>3, Zenon
    <3> QED BY <3>1, <3>2, Zenon
  <2>21. ExpandCopies'
    <3>1. next' - 1 = next
      BY <1>1, <1>2
    <3> QED BY <3>1, <1>2, <2>2, <2>10, <2>19, <2>20, Zenon DEF ExpandCopies, Live, NumBuckets
  <2> QED BY <2>4, <2>12, <2>17, <2>18, <2>21, Zenon DEF Inv
<1> QED BY <1>6, <1>7, Zenon

(* When its loop is over, expand has made room for the call that waits.    *)
LEMMA ExpandDoneInv ==
    ASSUME Inv, ExpandDone
    PROVE  Inv'
<1>1. /\ size \in Nat \ {0} /\ mem \in [0..(size - 1) -> Bucket]
      /\ pc = "expand" /\ next = size
      /\ newMem \in [0..(2 * size - 1) -> Bucket] /\ newStored \in Nat
      /\ numStoredKeys \in Nat /\ op # NoOp
  BY Zenon DEF Inv, TypeOK, ExpandDone
<1>2. /\ size' = 2 * size /\ mem' = newMem /\ numStoredKeys' = newStored
      /\ pc' = "run" /\ UNCHANGED <<stVars, op, checksum, restored, ans, refused>>
      /\ newMem' = Fresh(0) /\ newStored' = 0 /\ next' = 0
  BY Zenon DEF ExpandDone
<1>3. newMem' \in [0..(-1) -> Bucket]
  BY <1>2 DEF Fresh
<1>4. TypeOK'
  BY <1>1, <1>2, <1>3 DEF Inv, TypeOK, stVars
<1>5. /\ ProbingEnds'
      /\ LeadsToRecord(mem)' /\ Reachable(mem, size)' /\ OneBucketPerKey(mem)'
  BY <1>1, <1>2, Zenon DEF Inv, ProbingEnds, IndexSound, LeadsToRecord, Reachable, OneBucketPerKey,
                    Live, NumBuckets, stVars
<1>6. newStored <= numStoredKeys
  <2>1. {x \in NumBuckets(mem) : x < next} = NumBuckets(mem)
    BY <1>1 DEF NumBuckets
  <2> QED BY <1>1, <2>1, Zenon DEF Inv, ExpandCopies, ProbingEnds
<1>7. /\ NumKeysToExpand(size) \in Nat /\ NumKeysToExpand(2 * size) \in Nat
      /\ NumKeysToExpand(size) < NumKeysToExpand(2 * size)
  <2>1. 2 * size \in Nat \ {0}
    BY <1>1
  <2> QED BY <1>1, <2>1, LoadLimit, Zenon
<1>8. newStored < NumKeysToExpand(2 * size)
  BY <1>1, <1>6, <1>7 DEF Inv, LoadBounded
<1>9. LoadBounded'
  BY <1>1, <1>2, <1>7, <1>8 DEF LoadBounded, HasRoom
<1> QED BY <1>2, <1>4, <1>5, <1>9, Zenon DEF Inv, IndexSound, ExpandCopies

-----------------------------------------------------------------------------
(* Calls, Close and Open                                                   *)

(* A call refused, or a record skipped, because the hashmap cannot grow.   *)
LEMMA IndexFullInv ==
    ASSUME Inv, NEW o \in SetOp \cup CASOp \cup {Restore}, IndexFull(o),
           o = Restore => restored < Len(store), pc \in {"idle", "restore"}
    PROVE  Inv'
<1>1. /\ store \in Seq(Record) /\ length \in Nat /\ deleted \in Nat
      /\ restored \in 0..Len(store) /\ op = NoOp
      /\ refused \subseteq {"cas", "del", "restore"} /\ checksum \in [Key \X Time -> Int]
      /\ ans.out \in {"ok", "err"} /\ ans.op \in SetOp \cup CASOp \cup DelOp \cup {ShortOp}
      /\ mem \in [0..(size - 1) -> Bucket] /\ numStoredKeys \in Nat
  BY Zenon DEF Inv, TypeOK
<1>2. UNCHANGED <<hmVars, checksum, op, expandVars>>
  BY Zenon DEF IndexFull
<1>3. CASE o.kind \in {"set", "cas"} /\ Answer(o, "err") /\ UNCHANGED <<stVars, restored, refused>>
  <2>1. o \in SetOp \cup CASOp
    BY <1>3 DEF Restore
  <2> QED BY <1>1, <1>2, <1>3, <2>1, AnswerInv, Zenon
<1>4. CASE /\ o.kind = "restore" /\ RestoreAdvance
           /\ deleted' = deleted + TombBytes(store[restored + 1])
           /\ pc' = "restore" /\ refused' = refused \cup {"restore"}
           /\ UNCHANGED ans
  <2>1. o = Restore
    BY <1>4, Zenon DEF SetOp, CASOp
  <2>2. restored + 1 \in 1..Len(store)
    BY <1>1, <2>1
  <2>3. store[restored + 1] \in Record
    BY <1>1, <2>2
  <2>4. /\ RecordSize(store[restored + 1]) \in Nat
        /\ TombBytes(store[restored + 1]) \in Nat
    BY <2>3, RecordSizeType, Zenon
  <2>5. /\ length' \in Nat /\ deleted' \in Nat /\ store' = store
        /\ restored' \in 0..Len(store')
    BY <1>1, <1>4, <2>2, <2>4, SMTT(30) DEF RestoreAdvance
  <2>6. size' = size /\ mem' = mem /\ numStoredKeys' = numStoredKeys
    BY <1>2, Zenon DEF hmVars
  <2>7. TypeOK'
    BY <1>1, <1>2, <1>4, <2>5, <2>6, CallType, Zenon
  <2> QED BY <1>2, <1>4, <2>5, <2>7, Untouched, Zenon
<1> QED BY <1>3, <1>4, Zenon DEF IndexFull

(* A call runs, waits for expand, or is refused.                           *)
LEMMA CallInv ==
    ASSUME Inv, NEW o \in SetOp \cup CASOp \cup {Restore}, Call(o),
           o = Restore => restored < Len(store), pc \in {"idle", "restore"}
    PROVE  Inv'
<1>1. op = NoOp
  BY Zenon DEF Inv, TypeOK
<1>2. CASE HasRoom /\ Run(o) /\ UNCHANGED <<op, expandVars, saved>>
  BY <1>1, <1>2, RunInv, Zenon
<1>3. CASE StartExpand(o)
  BY <1>3, StartExpandInv, Zenon
<1>4. CASE IndexFull(o)
  BY <1>4, IndexFullInv, Zenon
<1> QED BY <1>2, <1>3, <1>4, Zenon DEF Call

(* The call that waited for expand goes on.                                *)
LEMMA ResumeInv ==
    ASSUME Inv, Resume
    PROVE  Inv'
<1>1. /\ pc = "run" /\ Run(op) /\ op' = NoOp /\ UNCHANGED expandVars
      /\ op \in SetOp \cup CASOp \cup {Restore} /\ (op = Restore => restored < Len(store))
  BY Zenon DEF Resume, Inv, TypeOK
<1>2. HasRoom
  BY <1>1, Zenon DEF Inv, LoadBounded
<1> QED BY <1>1, <1>2, RunInv, Zenon

(* After Close or a crash the PMap is as when Open starts.                 *)
LEMMA LeaveInv ==
    ASSUME Inv, Leave
    PROVE  Inv'
<1>1. Fresh(InitSize) \in [0..(InitSize - 1) -> Bucket] /\ InitSize \in Nat \ {0}
  BY ConstantsAssumption, Zenon DEF Fresh, Bucket, emptyBucket
<1>2. Fresh(0) \in [0..(-1) -> Bucket]
  BY DEF Fresh
<1>3. ans'.out = "ok" /\ ans'.op = ShortOp
  BY Zenon DEF Leave, NoAnswer
<1>4. checksum' \in [Key \X Time -> Int]
  BY DEF Leave, noTerms
<1>5. NoOp # Restore
  BY Zenon DEF NoOp, Restore
<1>6. TypeOK'
  BY <1>1, <1>2, <1>3, <1>4, <1>5 DEF Inv, TypeOK, Leave
<1>7. (mem = Fresh(size) /\ numStoredKeys = 0 /\ pc \notin {"expand", "run"})'
  BY Zenon DEF Leave, Fresh
<1> QED BY <1>6, <1>7, FreshSound, PTL

-----------------------------------------------------------------------------
(* The theorems                                                            *)

(* A new PMap satisfies the invariant.                                     *)
LEMMA InitInv ==
    ASSUME Init
    PROVE  Inv
<1>1. Fresh(InitSize) \in [0..(InitSize - 1) -> Bucket] /\ InitSize \in Nat \ {0}
  BY ConstantsAssumption, Zenon DEF Fresh, Bucket, emptyBucket
<1>2. Fresh(0) \in [0..(-1) -> Bucket]
  BY DEF Fresh
<1>3. ans.out = "ok" /\ ans.op = ShortOp
  BY Zenon DEF Init, NoAnswer
<1>4. checksum \in [Key \X Time -> Int]
  BY DEF Init, noTerms
<1>5. NoOp # Restore
  BY Zenon DEF NoOp, Restore
<1>6. TypeOK
  BY <1>1, <1>2, <1>3, <1>4, <1>5 DEF TypeOK, Init
<1> QED BY <1>6, FreshSound, Zenon DEF Init

(* Every step of the PMap keeps the invariant.                             *)
LEMMA NextInv ==
    ASSUME Inv, [Next]_vars
    PROVE  Inv'
<1>0. pc = "idle" => op = NoOp /\ restored \in 0..Len(store)
  BY Zenon DEF Inv, TypeOK
<1>1. CASE CallSet
  BY <1>1, CallInv DEF CallSet, Idle, SetOp, Restore
<1>2. CASE CallCAS
  BY <1>2, CallInv DEF CallCAS, Idle, CASOp, Restore
<1>3. CASE CallDel
  BY <1>3, DelInv, Zenon DEF CallDel, Idle
<1>4. CASE CallShort
  <2>1. checksum \in [Key \X Time -> Int] /\ refused \subseteq {"cas", "del", "restore"}
    BY Zenon DEF Inv, TypeOK
  <2> QED BY <1>0, <1>4, <2>1, AnswerInv, Zenon DEF CallShort
<1>5. CASE ExpandStep
  BY <1>5, ExpandStepInv, Zenon
<1>6. CASE ExpandDone
  BY <1>6, ExpandDoneInv, Zenon
<1>7. CASE Resume
  BY <1>7, ResumeInv, Zenon
<1>8. CASE Close
  BY <1>8, LeaveInv, Zenon DEF Close
<1>9. CASE Crash
  BY <1>9, LeaveInv, Zenon DEF Crash
<1>10. CASE Open
  <2>1. TypeOK'
    BY <1>10, Zenon DEF Open, Inv, TypeOK, hmVars, stVars, expandVars
  <2> QED BY <1>10, <2>1, Untouched, Zenon DEF Open, stVars
<1>11. CASE OpenNext
  <2>1. restored < Len(store)
    <3>1. restored \in 0..Len(store) /\ Len(store) \in Nat
      BY DEF Inv, TypeOK
    <3> QED BY <1>11, <3>1, Zenon DEF OpenNext, AtEnd
  <2> QED BY <1>11, <2>1, CallInv, Zenon DEF OpenNext
<1>12. CASE OpenDone
  <2>1. TypeOK'
    BY <1>12 DEF OpenDone, Inv, TypeOK, hmVars, stVars, expandVars
  <2> QED BY <1>12, <2>1, Untouched, Zenon DEF OpenDone, stVars
<1>13. CASE OpenPanics
  <2>1. TypeOK'
    BY <1>13, Zenon DEF OpenPanics, Inv, TypeOK, hmVars, stVars, expandVars
  <2> QED BY <1>13, <2>1, Untouched, Zenon DEF OpenPanics, stVars
<1>14. CASE UNCHANGED vars
  <2>0. UNCHANGED <<size, mem, numStoredKeys, store, pc, newMem, newStored, next>>
    BY <1>14, Zenon DEF vars, hmVars, stVars, expandVars
  <2>1. TypeOK'
    BY <1>14, Zenon DEF vars, hmVars, stVars, expandVars, Inv, TypeOK
  <2>2. LoadBounded'
    BY <2>0, Zenon DEF Inv, LoadBounded, HasRoom
  <2>3. ProbingEnds'
    BY <2>0, Zenon DEF Inv, ProbingEnds, NumBuckets
  <2>4. IndexSound'
    BY <2>0, Zenon DEF Inv, IndexSound, LeadsToRecord, Reachable, OneBucketPerKey, Live
  <2>5. ExpandCopies'
    BY <2>0, Zenon DEF Inv, ExpandCopies, Live, NumBuckets
  <2> QED BY <2>1, <2>2, <2>3, <2>4, <2>5, Zenon DEF Inv
<1> QED BY <1>1, <1>2, <1>3, <1>4, <1>5, <1>6, <1>7, <1>8, <1>9, <1>10, <1>11, <1>12, <1>13,
           <1>14, Zenon DEF Next

(* Inv is an invariant of the PMap.                                        *)
THEOREM PMapInv == Spec => []Inv
<1>1. Init => Inv
  BY InitInv, Zenon
<1>2. Inv /\ [Next]_vars => Inv'
  BY NextInv, Zenon
<1> QED BY <1>1, <1>2, PTL DEF Spec

(* Type correctness: no operation, expansion, crash or opening of the PMap *)
(* leaves a field outside its type.                                        *)
THEOREM TypeCorrect == Spec => []TypeOK
BY PMapInv, PTL DEF Inv

(* For every hash function, limit and sequence of calls, expansions,       *)
(* crashes and openings, the unbounded probing loops of Get, Set, CAS,     *)
(* Del, restorePair and expand end.                                        *)
THEOREM ProbingAlwaysEnds == Spec => []ProbingEnds
BY PMapInv, PTL DEF Inv

(* The load limit is kept and one expansion always makes enough room.      *)
THEOREM LoadAlwaysBounded == Spec => []LoadBounded
BY PMapInv, PTL DEF Inv

(* Every live bucket leads to a record of the store under its own hash, is *)
(* reached by probing and is the only one of its key, in the hashmap and   *)
(* in the one expand is filling.                                           *)
THEOREM IndexAlwaysSound == Spec => []IndexSound
BY PMapInv, PTL DEF Inv

(* At every step of its loop, expand has copied the live buckets behind it *)
(* and nothing else: no pair is lost or doubled when the hashmap grows.    *)
THEOREM ExpandAlwaysCopies == Spec => []ExpandCopies
BY PMapInv, PTL DEF Inv

-----------------------------------------------------------------------------
(* What the hashmap indexes                                                *)

\* The records that the live buckets lead to
Index == {mem[i].idx : i \in {j \in DOMAIN mem : Live(mem, j)}}

\* The hashmap as a set of records, one for each key that is found
IndexFacts ==
    /\ Index \subseteq 1..Len(store)
    /\ \A x, y \in Index : store[x].key = store[y].key => x = y
    /\ \A k \in Key : IsFound(k) <=> \E x \in Index : store[x].key = k
    /\ \A k \in Key : IsFound(k) => mem[Slot(k)].idx \in Index /\ Found(k).key = k

(* A live bucket is one that leads to a record of Index.                   *)
LEMMA Indexes ==
    ASSUME NEW x
    PROVE  x \in Index <=> \E i \in DOMAIN mem : Live(mem, i) /\ mem[i].idx = x
BY Zenon DEF Index

(* The hashmap finds a key exactly when it indexes a record of the key.    *)
LEMMA IndexIs == Inv => IndexFacts
<1> SUFFICES ASSUME Inv PROVE IndexFacts
  BY Zenon
<1>1. DOMAIN mem = 0..(size - 1)
  BY Zenon DEF Inv, TypeOK
<1>2. Index \subseteq 1..Len(store)
  BY Indexes, Zenon DEF Inv, IndexSound, LeadsToRecord
<1>3. ASSUME NEW x \in Index, NEW y \in Index, store[x].key = store[y].key PROVE x = y
  <2>1. PICK i \in DOMAIN mem : Live(mem, i) /\ mem[i].idx = x
    BY <1>3, Indexes, Zenon
  <2>2. PICK j \in DOMAIN mem : Live(mem, j) /\ mem[j].idx = y
    BY <1>3, Indexes, Zenon
  <2> QED BY <1>3, <2>1, <2>2, Zenon DEF Inv, IndexSound, OneBucketPerKey
<1>4. ASSUME NEW k \in Key, IsFound(k)
      PROVE  mem[Slot(k)].idx \in Index /\ Found(k).key = k /\ \E x \in Index : store[x].key = k
  <2>1. Slot(k) \in DOMAIN mem /\ Live(mem, Slot(k)) /\ Found(k).key = k
    BY <1>1, <1>4, SlotFinds, Zenon
  <2>2. mem[Slot(k)].idx \in Index
    BY <2>1, Indexes, Zenon
  <2> QED BY <2>1, <2>2, Zenon DEF Found
<1>5. ASSUME NEW k \in Key, NEW x \in Index, store[x].key = k PROVE IsFound(k)
  <2>1. PICK i \in DOMAIN mem : Live(mem, i) /\ mem[i].idx = x
    BY Indexes, Zenon
  <2> QED BY <1>1, <1>5, <2>1, SlotFinds, Zenon
<1> QED BY <1>2, <1>3, <1>4, <1>5, Zenon DEF IndexFacts

(* Writing record n of key k in the bucket of k.                           *)
LEMMA IndexPut ==
    ASSUME Inv, NEW k \in Key, NEW n,
           mem' = [mem EXCEPT ![Slot(k)] = [hash |-> hashReMap(Hash[k]), idx |-> n]]
    PROVE  Index' = {x \in Index : store[x].key # k} \cup {n}
<1>1. PICK i \in 0..(size - 1) : i = Slot(k)
  BY SlotFinds, Zenon
<1>2. /\ hashReMap(Hash[k]) > deletedBucket
      /\ IsFound(k) => Live(mem, i) /\ Found(k).key = k
      /\ ~IsFound(k) => \A j \in 0..(size - 1) : Live(mem, j) => store[mem[j].idx].key # k
  BY <1>1, SlotFinds, Zenon
<1>3. DOMAIN mem = 0..(size - 1) /\ DOMAIN mem' = DOMAIN mem /\ \A j \in DOMAIN mem : mem[j].hash \in Nat
  BY Zenon DEF Inv, TypeOK, Bucket
<1>4. mem'[i] = [hash |-> hashReMap(Hash[k]), idx |-> n] /\ \A j \in DOMAIN mem : j # i => mem'[j] = mem[j]
  BY <1>1, <1>3, Zenon
<1>5. Live(mem', i) /\ mem'[i].idx = n
  BY <1>2, <1>4 DEF Live
<1>6. \A j \in DOMAIN mem : j # i => (Live(mem', j) <=> Live(mem, j)) /\ mem'[j].idx = mem[j].idx
  BY <1>4, Zenon DEF Live
<1>7. \A j \in DOMAIN mem : j # i /\ Live(mem, j) => store[mem[j].idx].key # k
  <2>1. CASE IsFound(k)
    BY <2>1, <1>1, <1>2, <1>3, Zenon DEF Found, Inv, IndexSound, OneBucketPerKey
  <2>2. CASE ~IsFound(k)
    BY <2>2, <1>2, <1>3, Zenon
  <2> QED BY <2>1, <2>2, Zenon
<1>8. Live(mem, i) => store[mem[i].idx].key = k
  <2>1. Live(mem, i) => mem[i].hash # emptyBucket
    BY <1>1, <1>3 DEF Live, emptyBucket, deletedBucket
  <2> QED BY <1>1, <1>2, <2>1, Zenon DEF IsFound, Found
<1>9. \A x : x \in Index' <=> \E j \in DOMAIN mem : Live(mem', j) /\ mem'[j].idx = x
  BY <1>3, Zenon DEF Index, Live
<1>10. ASSUME NEW x PROVE x \in Index' <=> (x \in Index /\ store[x].key # k) \/ x = n
  <2>1. ASSUME x \in Index' PROVE (x \in Index /\ store[x].key # k) \/ x = n
    BY <2>1, <1>5, <1>6, <1>7, <1>9, Indexes, ZenonT(40)
  <2>2. ASSUME x = n PROVE x \in Index'
    BY <2>2, <1>1, <1>3, <1>5, <1>9, Zenon
  <2>3. ASSUME x \in Index, store[x].key # k PROVE x \in Index'
    BY <2>3, <1>6, <1>8, <1>9, Indexes, ZenonT(40)
  <2> QED BY <2>1, <2>2, <2>3, Zenon
<1> QED BY <1>10, Zenon

(* Marking the bucket of k as deleted.                                     *)
LEMMA IndexDrop ==
    ASSUME Inv, NEW k \in Key, IsFound(k),
           mem' = [mem EXCEPT ![Slot(k)] = [@ EXCEPT !.hash = deletedBucket]]
    PROVE  Index' = {x \in Index : store[x].key # k}
<1>1. PICK i \in 0..(size - 1) : i = Slot(k)
  BY SlotFinds, Zenon
<1>2. Live(mem, i) /\ store[mem[i].idx].key = k
  BY <1>1, SlotFinds, Zenon DEF Found
<1>3. DOMAIN mem = 0..(size - 1) /\ DOMAIN mem' = DOMAIN mem /\ mem[i] \in Bucket
  BY <1>1, Zenon DEF Inv, TypeOK
<1>4. mem'[i].hash = deletedBucket /\ \A j \in DOMAIN mem : j # i => mem'[j] = mem[j]
  BY <1>1, <1>3, Zenon DEF Bucket
<1>5. ~Live(mem', i)
  BY <1>4 DEF Live, deletedBucket
<1>6. \A j \in DOMAIN mem : j # i => (Live(mem', j) <=> Live(mem, j)) /\ mem'[j].idx = mem[j].idx
  BY <1>4, Zenon DEF Live
<1>7. \A j \in DOMAIN mem : j # i /\ Live(mem, j) => store[mem[j].idx].key # k
  BY <1>2, <1>3, Zenon DEF Inv, IndexSound, OneBucketPerKey
<1>8. \A x : x \in Index' <=> \E j \in DOMAIN mem : Live(mem', j) /\ mem'[j].idx = x
  BY <1>3, Zenon DEF Index, Live
<1>9. ASSUME NEW x PROVE x \in Index' <=> x \in Index /\ store[x].key # k
  <2>1. ASSUME x \in Index' PROVE x \in Index /\ store[x].key # k
    <3>1. PICK j \in DOMAIN mem : Live(mem', j) /\ mem'[j].idx = x
      BY <2>1, <1>8, Zenon
    <3>2. Live(mem, j) /\ mem[j].idx = x /\ store[mem[j].idx].key # k
      BY <3>1, <1>5, <1>6, <1>7, Zenon
    <3> QED BY <3>2, Indexes, Zenon
  <2>2. ASSUME x \in Index, store[x].key # k PROVE x \in Index'
    BY <2>2, <1>2, <1>6, <1>8, Indexes, Zenon
  <2> QED BY <2>1, <2>2, Zenon
<1> QED BY <1>9, Zenon

(* The hashmap that expand has filled indexes the same records.            *)
LEMMA IndexExpanded ==
    ASSUME Inv, ExpandDone
    PROVE  Index' = Index /\ Index = {newMem[i].idx : i \in NumBuckets(newMem)}
<1>1. /\ pc = "expand" /\ next = size /\ mem' = newMem
      /\ DOMAIN mem = 0..(size - 1) /\ size \in Nat
      /\ \A i \in DOMAIN newMem : newMem[i].hash \in Nat
  BY Zenon DEF Inv, TypeOK, ExpandDone, Bucket
<1>2. \A i \in DOMAIN newMem : newMem[i].hash # emptyBucket =>
        \E j \in DOMAIN mem : Live(mem, j) /\ newMem[i] = mem[j]
  BY <1>1, Zenon DEF Inv, ExpandCopies
<1>3. \A j \in DOMAIN mem : Live(mem, j) => \E i \in DOMAIN newMem : newMem[i] = mem[j]
  BY <1>1, Zenon DEF Inv, ExpandCopies
<1>4. \A i \in DOMAIN newMem : Live(newMem, i) => newMem[i].hash # emptyBucket
  BY <1>1 DEF Live, emptyBucket, deletedBucket
<1>5. \A x : x \in Index' <=> \E i \in DOMAIN newMem : Live(newMem, i) /\ newMem[i].idx = x
  BY <1>1, Zenon DEF Index, Live
<1>6. \A x : x \in {newMem[i].idx : i \in NumBuckets(newMem)} <=>
        \E i \in DOMAIN newMem : newMem[i].hash # emptyBucket /\ newMem[i].idx = x
  BY Zenon DEF NumBuckets
<1>7. ASSUME NEW x, \E i \in DOMAIN newMem : newMem[i].hash # emptyBucket /\ newMem[i].idx = x
      PROVE  x \in Index
  BY <1>2, <1>7, Indexes, Zenon
<1>8. ASSUME NEW x \in Index
      PROVE  \E i \in DOMAIN newMem : Live(newMem, i) /\ newMem[i].idx = x
  BY <1>3, Indexes, Zenon DEF Live
<1> HIDE DEF Index
<1>9. \A x : x \in Index' <=> x \in Index
  BY <1>4, <1>5, <1>7, <1>8, Zenon
<1>10. \A x : x \in {newMem[i].idx : i \in NumBuckets(newMem)} <=> x \in Index
  BY <1>4, <1>6, <1>7, <1>8, Zenon
<1> QED BY <1>9, <1>10, Zenon

(* An empty hashmap indexes nothing.                                       *)
LEMMA IndexEmpty ==
    ASSUME NEW n, mem = Fresh(n)
    PROVE  Index = {}
<1>1. \A i \in DOMAIN mem : ~Live(mem, i)
  BY DEF Fresh, Live, emptyBucket, deletedBucket
<1> QED BY <1>1, Indexes, Zenon

(* The records behind the buckets do not depend on anything but them.      *)
LEMMA IndexKept ==
    ASSUME mem' = mem
    PROVE  Index' = Index
BY Zenon DEF Index, Live

-----------------------------------------------------------------------------
(* What the operations do, in terms of the records indexed                 *)

\* The records indexed of the other keys
Others(k) == {x \in Index : store[x].key # k}

\* The bytes of the pair of k that is found
OldBytes(k) == IF IsFound(k) THEN RecordSize(Found(k)) ELSE 0

Writes(o) ==
    /\ store' = Append(store, Pair(o.key, o.ts, o.val))
    /\ length' = length + RecordSize(Pair(o.key, o.ts, o.val)) /\ UNCHANGED deleted
    /\ Index' = Others(o.key) \cup {Len(store) + 1}
    /\ checksum' = sum(CASSub(o.key), o.key, o.ts)
    /\ UNCHANGED refused

Rests == UNCHANGED <<store, length, deleted, Index, checksum, refused>>

\* Set and CAS write, discard, or answer an error; a CAS that is refused takes
\* the old term off the checksum
CallEffect(o) ==
    /\ pc' = "idle" /\ UNCHANGED restored
    /\ \/ /\ Writes(o) /\ ans' = [op |-> o, out |-> "ok"]
          /\ o.kind = "set" /\ IsFound(o.key) => ~Discards(Found(o.key), o.ts)
          /\ o.kind = "cas" => ~CASFails(o)
       \/ /\ Rests /\ ans' = [op |-> o, out |-> "ok"]
          /\ o.kind = "set" /\ IsFound(o.key) /\ Discards(Found(o.key), o.ts)
       \/ Rests /\ ans' = [op |-> o, out |-> "err"]
       \/ /\ ans' = [op |-> o, out |-> "err"] /\ checksum' = CASSub(o.key)
          /\ refused' = IF IsFound(o.key) THEN refused \cup {"cas"} ELSE refused
          /\ UNCHANGED <<store, length, deleted, Index>>

\* A tombstone takes the bucket of its key away when there is one
RestoreEffect ==
    LET r == store[restored + 1]
        k == r.key
    IN  /\ pc' = "restore" /\ restored' = restored + 1
        /\ UNCHANGED <<store, size, ans, refused>>
        /\ length' = length + RecordSize(r)
        /\ deleted' = deleted + OldBytes(k) + TombBytes(r)
        /\ numStoredKeys' = IF IsFound(k) THEN numStoredKeys ELSE numStoredKeys + 1
        /\ \/ /\ ~(IsFound(k) /\ r.tomb)
              /\ Index' = Others(k) \cup {restored + 1}
              /\ checksum' = sum(CASSub(k), k, r.ts)
           \/ /\ IsFound(k) /\ r.tomb
              /\ Index' = Others(k)
              /\ checksum' = CASSub(k)

DelEffect(o) ==
    /\ pc' = "idle"
    /\ \/ /\ IsFound(o.key) => DelDiscards(Found(o.key), o.ts)
          /\ Rests /\ ans' = [op |-> o, out |-> "ok"]
       \/ /\ IsFound(o.key) /\ ~DelDiscards(Found(o.key), o.ts)
          /\ Index' = Others(o.key)
          /\ checksum' = CASSub(o.key)
          /\ deleted' = deleted + OldBytes(o.key)
          /\ \/ /\ store' = Append(store, Tombstone(o.key))
                /\ length' = length + RecordSize(Tombstone(o.key))
                /\ ans' = [op |-> o, out |-> "ok"] /\ UNCHANGED refused
             \/ /\ store' = store /\ length' = length
                /\ ans' = [op |-> o, out |-> "err"] /\ refused' = refused \cup {"del"}

(* Set and CAS write the pair after the records of the store.              *)
LEMMA WriteIs ==
    ASSUME Inv, NEW o \in SetOp \cup CASOp, PutAt(Slot(o.key), Pair(o.key, o.ts, o.val)),
           checksum' = sum(CASSub(o.key), o.key, o.ts), UNCHANGED refused
    PROVE  Writes(o)
<1>1. o.key \in Key /\ Pair(o.key, o.ts, o.val).key = o.key
  BY Zenon DEF SetOp, CASOp, Pair
<1>2. mem' = [mem EXCEPT ![Slot(o.key)] = [hash |-> hashReMap(Hash[o.key]), idx |-> Len(store) + 1]]
  BY <1>1, Zenon DEF PutAt
<1>3. Index' = Others(o.key) \cup {Len(store) + 1}
  BY <1>1, <1>2, IndexPut, Zenon DEF Others
<1> QED BY <1>3, Zenon DEF Writes, PutAt, put

(* A call that changes neither hashmap nor store.                          *)
LEMMA RestIs ==
    ASSUME UNCHANGED <<hmVars, stVars, checksum, refused>>
    PROVE  Rests
BY IndexKept, Zenon DEF Rests, hmVars, stVars

(* Set.                                                                    *)
LEMMA SetDoes ==
    ASSUME Inv, NEW o \in SetOp, Set(o)
    PROVE  CallEffect(o)
<1> DEFINE k == o.key
           r == Pair(k, o.ts, o.val)
<1>0. o.kind = "set"
  BY Zenon DEF SetOp
<1>1. CASE /\ ~IsFound(k) /\ PutAt(Slot(k), r)
           /\ checksum' = sum(checksum, k, o.ts)
           /\ Answer(o, "ok") /\ UNCHANGED <<restored, refused>>
  <2>1. checksum' = sum(CASSub(k), k, o.ts)
    BY <1>1, Zenon DEF CASSub
  <2>2. Writes(o)
    BY <1>1, <2>1, WriteIs, Zenon
  <2> QED BY <1>0, <1>1, <2>2, Zenon DEF CallEffect, Answer
<1>2. CASE /\ IsFound(k) /\ ~Discards(Found(k), o.ts) /\ PutAt(Slot(k), r)
           /\ checksum' = sum(sub(checksum, k, Found(k).ts), k, o.ts)
           /\ Answer(o, "ok") /\ UNCHANGED <<restored, refused>>
  <2>1. checksum' = sum(CASSub(k), k, o.ts)
    BY <1>2, Zenon DEF CASSub
  <2>2. Writes(o)
    BY <1>2, <2>1, WriteIs, Zenon
  <2> QED BY <1>0, <1>2, <2>2, Zenon DEF CallEffect, Answer
<1>3. CASE /\ IsFound(k) /\ Discards(Found(k), o.ts) /\ Answer(o, "ok")
           /\ UNCHANGED <<hmVars, stVars, checksum, restored, refused>>
  BY <1>0, <1>3, RestIs, Zenon DEF CallEffect, Answer
<1>4. CASE Answer(o, "err") /\ UNCHANGED <<hmVars, stVars, checksum, restored, refused>>
  BY <1>4, RestIs, Zenon DEF CallEffect, Answer
<1> QED BY <1>1, <1>2, <1>3, <1>4, Zenon DEF Set

(* CAS.                                                                    *)
LEMMA CASDoes ==
    ASSUME Inv, NEW o \in CASOp, CAS(o)
    PROVE  CallEffect(o)
<1> DEFINE k == o.key
           r == Pair(k, o.ts, o.val)
<1>0. o.kind = "cas"
  BY Zenon DEF CASOp
<1>1. CASE Answer(o, "err") /\ UNCHANGED <<hmVars, stVars, checksum, refused, restored>>
  BY <1>1, RestIs, Zenon DEF CallEffect, Answer
<1>2. CASE /\ ~CASFails(o) /\ PutAt(Slot(k), r)
           /\ checksum' = sum(CASSub(k), k, o.ts)
           /\ Answer(o, "ok") /\ UNCHANGED <<refused, restored>>
  BY <1>0, <1>2, WriteIs, Zenon DEF CallEffect, Answer
<1>3. CASE /\ checksum' = CASSub(k) /\ Answer(o, "err")
           /\ refused' = IF IsFound(k) THEN refused \cup {"cas"} ELSE refused
           /\ UNCHANGED <<hmVars, stVars, restored>>
  BY <1>3, IndexKept, Zenon DEF CallEffect, Answer, hmVars, stVars
<1> QED BY <1>1, <1>2, <1>3, Zenon DEF CAS

(* A call that runs at once or after expand, or that the hashmap has no    *)
(* room for.                                                               *)
LEMMA CallDoes ==
    ASSUME Inv, NEW o \in SetOp \cup CASOp, Run(o) \/ IndexFull(o)
    PROVE  CallEffect(o)
<1>1. CASE o \in SetOp /\ Run(o)
  <2>1. Set(o)
    BY <1>1, Zenon DEF Run, SetOp
  <2> QED BY <1>1, <2>1, SetDoes, Zenon
<1>2. CASE o \in CASOp /\ Run(o)
  <2>1. CAS(o)
    BY <1>2, Zenon DEF Run, CASOp
  <2> QED BY <1>2, <2>1, CASDoes, Zenon
<1>3. CASE IndexFull(o)
  <2>1. o.kind # "restore"
    BY Zenon DEF SetOp, CASOp
  <2>2. Answer(o, "err") /\ UNCHANGED <<hmVars, stVars, checksum, restored, refused>>
    BY <1>3, <2>1, Zenon DEF IndexFull
  <2> QED BY <2>2, RestIs, Zenon DEF CallEffect, Answer
<1> QED BY <1>1, <1>2, <1>3, Zenon

(* restorePair.                                                            *)
LEMMA RestoreDoes ==
    ASSUME Inv, restored < Len(store), restorePair
    PROVE  RestoreEffect
<1> DEFINE r == store[restored + 1]
           k == r.key
           b == [hash |-> hashReMap(Hash[k]), idx |-> restored + 1]
<1>1. k \in Key
  <2>1. store \in Seq(Record) /\ restored \in 0..Len(store)
    BY Zenon DEF Inv, TypeOK
  <2>2. r \in Record
    BY <2>1
  <2> QED BY <2>2, Zenon DEF Record
<1>2. /\ pc' = "restore" /\ restored' = restored + 1 /\ length' = length + RecordSize(r)
      /\ UNCHANGED <<store, size, ans, refused>>
  BY Zenon DEF restorePair, RestoreAdvance
<1> HIDE DEF r, k
<1>3. CASE ~IsFound(k)
  <2>1. /\ mem' = [mem EXCEPT ![Slot(k)] = b] /\ numStoredKeys' = numStoredKeys + 1
        /\ checksum' = sum(checksum, k, r.ts) /\ deleted' = deleted + TombBytes(r)
    BY <1>3, Zenon DEF restorePair, k, r
  <2>2. Index' = Others(k) \cup {restored + 1}
    BY <1>1, <2>1, IndexPut, Zenon DEF Others
  <2>3. CASSub(k) = checksum
    BY <1>3, Zenon DEF CASSub
  <2>4. deleted = deleted + OldBytes(k)
    BY <1>3 DEF OldBytes, Inv, TypeOK
  <2>5. deleted' = deleted + OldBytes(k) + TombBytes(r)
    BY <2>1, <2>4, Zenon
  <2> QED BY <1>2, <1>3, <2>1, <2>2, <2>3, <2>5, Zenon DEF RestoreEffect, k, r
<1>4. CASE IsFound(k)
  <2>1. /\ mem' = [mem EXCEPT ![Slot(k)] = RestoreBucket(@, r)] /\ numStoredKeys' = numStoredKeys
        /\ checksum' = IF r.tomb THEN sub(checksum, k, Found(k).ts)
                                 ELSE sum(sub(checksum, k, Found(k).ts), k, r.ts)
        /\ deleted' = deleted + OldBytes(k) + TombBytes(r)
    BY <1>4, Zenon DEF restorePair, OldBytes, k, r
  <2>2. CASSub(k) = sub(checksum, k, Found(k).ts)
    BY <1>4, Zenon DEF CASSub
  <2>3. CASE r.tomb
    <3>1. mem' = [mem EXCEPT ![Slot(k)] = [@ EXCEPT !.hash = deletedBucket]]
      BY <2>1, <2>3, Zenon DEF RestoreBucket
    <3>2. Index' = Others(k)
      BY <1>1, <1>4, <3>1, IndexDrop, Zenon DEF Others
    <3> QED BY <1>2, <1>4, <2>1, <2>2, <2>3, <3>2, Zenon DEF RestoreEffect, k, r
  <2>4. CASE ~r.tomb
    <3>1. mem' = [mem EXCEPT ![Slot(k)] = b]
      BY <2>1, <2>4, Zenon DEF RestoreBucket, k
    <3>2. Index' = Others(k) \cup {restored + 1}
      BY <1>1, <3>1, IndexPut, Zenon DEF Others
    <3> QED BY <1>2, <1>4, <2>1, <2>2, <2>4, <3>2, Zenon DEF RestoreEffect, k, r
  <2> QED BY <2>3, <2>4, Zenon
<1> QED BY <1>3, <1>4, Zenon

(* Del.                                                                    *)
LEMMA DelDoes ==
    ASSUME Inv, NEW o \in DelOp, Del(o)
    PROVE  DelEffect(o)
<1> DEFINE k == o.key
<1>1. k \in Key
  BY Zenon DEF DelOp
<1>2. CASE /\ IsFound(k) => DelDiscards(Found(k), o.ts)
           /\ Answer(o, "ok") /\ UNCHANGED <<mem, stVars, checksum, refused>>
  BY <1>2, IndexKept, Zenon DEF DelEffect, Rests, Answer, stVars
<1>3. CASE /\ IsFound(k) /\ ~DelDiscards(Found(k), o.ts)
           /\ mem' = [mem EXCEPT ![Slot(k)].hash = deletedBucket]
           /\ checksum' = sub(checksum, k, Found(k).ts)
           /\ deleted' = deleted + RecordSize(Found(k))
           /\ \/ put(Tombstone(k)) /\ Answer(o, "ok") /\ UNCHANGED refused
              \/ /\ UNCHANGED <<store, length>>
                 /\ Answer(o, "err") /\ refused' = refused \cup {"del"}
  <2>1. mem' = [mem EXCEPT ![Slot(k)] = [@ EXCEPT !.hash = deletedBucket]]
    BY <1>3, Zenon
  <2>2. Index' = Others(k)
    BY <1>1, <1>3, <2>1, IndexDrop, Zenon DEF Others
  <2>3. checksum' = CASSub(k) /\ deleted' = deleted + OldBytes(k)
    BY <1>3, Zenon DEF CASSub, OldBytes
  <2> QED BY <1>3, <2>2, <2>3, Zenon DEF DelEffect, Answer, put
<1> QED BY <1>2, <1>3, Zenon DEF Del

-----------------------------------------------------------------------------
(* The checksum                                                            *)

\* The terms of the records S of s
Terms(s, S) ==
    [kt \in Key \X Time |-> IF \E x \in S : s[x].key = kt[1] /\ s[x].ts = kt[2] THEN 1 ELSE 0]

(* Only a CAS that a full store refused upsets the checksum, and only      *)
(* until the PMap is closed.                                               *)
Sums == ("cas" \in refused /\ Serving) \/ checksum = Terms(store, Index)

(* Taking off the term of the one record of its key.                       *)
LEMMA TermsSub ==
    ASSUME NEW s, NEW S, NEW y \in S, \A x, z \in S : s[x].key = s[z].key => x = z
    PROVE  sub(Terms(s, S), s[y].key, s[y].ts) = Terms(s, {x \in S : s[x].key # s[y].key})
<1> DEFINE k == s[y].key
           t == s[y].ts
           R == {x \in S : s[x].key # k}
<1>1. sub(Terms(s, S), k, t) = [kt \in Key \X Time |->
          IF kt = <<k, t>> THEN Terms(s, S)[kt] - 1 ELSE Terms(s, S)[kt]]
  BY ZenonT(40) DEF sub, Terms
<1>2. ASSUME NEW kt \in Key \X Time
      PROVE  (IF kt = <<k, t>> THEN Terms(s, S)[kt] - 1 ELSE Terms(s, S)[kt])
             = IF \E x \in R : s[x].key = kt[1] /\ s[x].ts = kt[2] THEN 1 ELSE 0
  <2>1. kt = <<k, t>> <=> kt[1] = k /\ kt[2] = t
    BY SMTT(30)
  <2>2. Terms(s, S)[kt] = IF \E x \in S : s[x].key = kt[1] /\ s[x].ts = kt[2] THEN 1 ELSE 0
    BY Zenon DEF Terms
  <2>3. CASE kt[1] = k /\ kt[2] = t
    <3>1. ~\E x \in R : s[x].key = kt[1] /\ s[x].ts = kt[2]
      BY <2>3, Zenon
    <3>2. \E x \in S : s[x].key = kt[1] /\ s[x].ts = kt[2]
      BY <2>3, Zenon
    <3> HIDE DEF k, t, R
    <3> QED BY <2>1, <2>2, <2>3, <3>1, <3>2
  <2>4. CASE ~(kt[1] = k /\ kt[2] = t)
    <3>1. (\E x \in S : s[x].key = kt[1] /\ s[x].ts = kt[2]) <=>
          (\E x \in R : s[x].key = kt[1] /\ s[x].ts = kt[2])
      BY <2>4, Zenon
    <3> HIDE DEF k, t, R
    <3> QED BY <2>1, <2>2, <2>4, <3>1, Zenon
  <2> QED BY <2>3, <2>4, Zenon
<1> HIDE DEF R
<1>3. Terms(s, R) = [kt \in Key \X Time |->
                       IF \E x \in R : s[x].key = kt[1] /\ s[x].ts = kt[2] THEN 1 ELSE 0]
  BY Zenon DEF Terms
<1>4. sub(Terms(s, S), k, t) = Terms(s, R)
  BY <1>1, <1>2, <1>3, ZenonT(40)
<1> QED BY <1>4, Zenon DEF R

(* Adding the term of a record whose key had none.                         *)
LEMMA TermsSum ==
    ASSUME NEW s, NEW S, NEW n, \A x \in S : s[x].key # s[n].key
    PROVE  sum(Terms(s, S), s[n].key, s[n].ts) = Terms(s, S \cup {n})
<1> DEFINE k == s[n].key
           t == s[n].ts
           R == S \cup {n}
<1>1. sum(Terms(s, S), k, t) = [kt \in Key \X Time |->
          IF kt = <<k, t>> THEN Terms(s, S)[kt] + 1 ELSE Terms(s, S)[kt]]
  BY Zenon DEF sum, Terms
<1>2. ASSUME NEW kt \in Key \X Time
      PROVE  (IF kt = <<k, t>> THEN Terms(s, S)[kt] + 1 ELSE Terms(s, S)[kt])
             = IF \E x \in R : s[x].key = kt[1] /\ s[x].ts = kt[2] THEN 1 ELSE 0
  <2>1. kt = <<k, t>> <=> kt[1] = k /\ kt[2] = t
    OBVIOUS
  <2>2. Terms(s, S)[kt] = IF \E x \in S : s[x].key = kt[1] /\ s[x].ts = kt[2] THEN 1 ELSE 0
    BY Zenon DEF Terms
  <2>3. CASE kt[1] = k /\ kt[2] = t
    <3>1. ~\E x \in S : s[x].key = kt[1] /\ s[x].ts = kt[2]
      BY <2>3, Zenon
    <3>2. \E x \in R : s[x].key = kt[1] /\ s[x].ts = kt[2]
      BY <2>3, Zenon
    <3> HIDE DEF k, t, R
    <3> QED BY <2>1, <2>2, <2>3, <3>1, <3>2
  <2>4. CASE ~(kt[1] = k /\ kt[2] = t)
    <3>1. (\E x \in S : s[x].key = kt[1] /\ s[x].ts = kt[2]) <=>
          (\E x \in R : s[x].key = kt[1] /\ s[x].ts = kt[2])
      BY <2>4, Zenon
    <3> HIDE DEF k, t, R
    <3> QED BY <2>1, <2>2, <2>4, <3>1, Zenon
  <2> QED BY <2>3, <2>4, Zenon
<1> HIDE DEF R
<1>3. Terms(s, R) = [kt \in Key \X Time |->
                       IF \E x \in R : s[x].key = kt[1] /\ s[x].ts = kt[2] THEN 1 ELSE 0]
  BY Zenon DEF Terms
<1>4. sum(Terms(s, S), k, t) = Terms(s, R)
  BY <1>1, <1>2, <1>3, Zenon
<1> QED BY <1>4, Zenon DEF R

(* The terms of records that two stores share.                             *)
LEMMA TermsSame ==
    ASSUME NEW s, NEW t, NEW S, \A x \in S : s[x] = t[x]
    PROVE  Terms(s, S) = Terms(t, S)
<1>1. \A k, u : (\E x \in S : s[x].key = k /\ s[x].ts = u) <=> (\E x \in S : t[x].key = k /\ t[x].ts = u)
  BY Zenon
<1> QED BY <1>1, SMTT(40) DEF Terms

(* What is left of a sound checksum when the term of k is taken off.       *)
LEMMA OldTerm ==
    ASSUME Inv, NEW k \in Key, checksum = Terms(store, Index)
    PROVE  CASSub(k) = Terms(store, Others(k))
<1>0. IndexFacts
  BY IndexIs, Zenon
<1>1. CASE IsFound(k)
  <2>1. PICK y \in Index : y = mem[Slot(k)].idx /\ store[y].key = k /\ Found(k) = store[y]
    BY <1>0, <1>1, Zenon DEF IndexFacts, Found
  <2>2. CASSub(k) = sub(Terms(store, Index), store[y].key, store[y].ts)
    BY <1>1, <2>1, Zenon DEF CASSub
  <2>3. sub(Terms(store, Index), store[y].key, store[y].ts)
          = Terms(store, {x \in Index : store[x].key # store[y].key})
    <3>1. PICK s, S : s = store /\ S = Index
      BY Zenon
    <3>2. y \in S /\ \A x, z \in S : s[x].key = s[z].key => x = z
      BY <1>0, <3>1, Zenon DEF IndexFacts
    <3>3. sub(Terms(s, S), s[y].key, s[y].ts) = Terms(s, {x \in S : s[x].key # s[y].key})
      BY <3>2, TermsSub, ZenonT(40)
    <3> QED BY <3>1, <3>3, Zenon
  <2> QED BY <2>1, <2>2, <2>3, Zenon DEF Others
<1>2. CASE ~IsFound(k)
  <2>1. \A x \in Index : store[x].key # k
    BY <1>0, <1>2, Zenon DEF IndexFacts
  <2>2. Others(k) = Index
    BY <2>1, Zenon DEF Others
  <2> QED BY <1>2, <2>2, Zenon DEF CASSub
<1> QED BY <1>1, <1>2, Zenon

(* Record n takes the place of the record of its key.                      *)
LEMMA NewTerm ==
    ASSUME Inv, NEW k \in Key, checksum = Terms(store, Index), NEW s, NEW n, s[n].key = k,
           \A x \in Index : s[x] = store[x]
    PROVE  sum(CASSub(k), k, s[n].ts) = Terms(s, Others(k) \cup {n})
<1>1. CASSub(k) = Terms(store, Others(k))
  BY OldTerm, Zenon
<1>2. \A x \in Others(k) : s[x] = store[x] /\ s[x].key # k
  BY Zenon DEF Others
<1>3. Terms(store, Others(k)) = Terms(s, Others(k))
  BY <1>2, TermsSame, Zenon
<1>4. PICK S : S = Others(k)
  BY Zenon
<1>5. \A x \in S : s[x].key # s[n].key
  BY <1>2, <1>4, Zenon
<1>6. sum(Terms(s, S), s[n].key, s[n].ts) = Terms(s, S \cup {n})
  BY ONLY <1>5, TermsSum, Zenon
<1> QED BY <1>1, <1>3, <1>4, <1>6, Zenon

(* What a call writes goes behind the records that are indexed.            *)
LEMMA AppendKeeps ==
    ASSUME Inv, NEW r \in Record
    PROVE  /\ \A x \in 1..Len(store) : Append(store, r)[x] = store[x]
           /\ \A x \in Index : Append(store, r)[x] = store[x]
           /\ Append(store, r)[Len(store) + 1] = r
           /\ Len(Append(store, r)) = Len(store) + 1
           /\ Len(store) \in Nat
<1>1. store \in Seq(Record)
  BY Zenon DEF Inv, TypeOK
<1>2. Index \subseteq 1..Len(store)
  BY IndexIs, Zenon DEF IndexFacts
<1>3. \A x \in 1..Len(store) : Append(store, r)[x] = store[x]
  BY <1>1
<1> QED BY <1>1, <1>2, <1>3

(* Set and CAS keep the checksum, except a CAS that is refused.            *)
LEMMA CallSums ==
    ASSUME Inv, Sums, NEW o \in SetOp \cup CASOp, CallEffect(o), Serving
    PROVE  Sums'
<1>0. Serving' /\ o.key \in Key /\ o.ts \in Time /\ o.val \in Val
  BY Zenon DEF CallEffect, Serving, SetOp, CASOp
<1>1. CASE "cas" \in refused
  <2>1. "cas" \in refused'
    BY <1>1, Zenon DEF CallEffect, Writes, Rests
  <2> QED BY <1>0, <2>1, Zenon DEF Sums
<1>2. CASE "cas" \notin refused /\ Writes(o)
  <2>1. checksum = Terms(store, Index)
    BY <1>2, Zenon DEF Sums
  <2>2. PICK r \in Record : r = Pair(o.key, o.ts, o.val) /\ r.key = o.key /\ r.ts = o.ts
    BY <1>0, PairType, Zenon DEF Pair
  <2>3. PICK s : s = Append(store, r)
    BY Zenon
  <2>4. s[Len(store) + 1] = r /\ \A x \in Index : s[x] = store[x]
    BY <2>3, AppendKeeps, Zenon
  <2>5. sum(CASSub(o.key), o.key, o.ts) = Terms(s, Others(o.key) \cup {Len(store) + 1})
    <3>0. PICK k \in Key : k = o.key
      BY <1>0, Zenon
    <3>1. PICK n : k = o.key /\ n = Len(store) + 1
      BY <3>0, Zenon
    <3>2. s[n].key = k /\ s[n].ts = o.ts
      BY <2>2, <2>4, <3>1, Zenon
    <3>3. sum(CASSub(k), k, s[n].ts) = Terms(s, Others(k) \cup {n})
      BY <2>1, <2>4, <3>2, NewTerm, Zenon
    <3> QED BY <3>1, <3>2, <3>3, Zenon
  <2>6. checksum' = Terms(store', Index')
    BY <1>2, <2>2, <2>3, <2>5, Zenon DEF Writes
  <2> QED BY <2>6, Zenon DEF Sums
<1>3. CASE Rests
  BY <1>0, <1>3, Zenon DEF Sums, Rests
<1>4. CASE /\ "cas" \notin refused /\ checksum' = CASSub(o.key)
           /\ refused' = IF IsFound(o.key) THEN refused \cup {"cas"} ELSE refused
           /\ UNCHANGED <<store, Index>>
  <2>1. CASE IsFound(o.key)
    BY <1>0, <1>4, <2>1, Zenon DEF Sums
  <2>2. CASE ~IsFound(o.key)
    BY <1>4, <2>2, Zenon DEF Sums, CASSub
  <2> QED BY <2>1, <2>2, Zenon
<1> QED BY <1>1, <1>2, <1>3, <1>4, Zenon DEF CallEffect

(* Del keeps the checksum, also when it leaves no tombstone.               *)
LEMMA DelSums ==
    ASSUME Inv, Sums, NEW o \in DelOp, DelEffect(o), Serving
    PROVE  Sums'
<1>0. Serving' /\ o.key \in Key
  BY Zenon DEF DelEffect, Serving, DelOp
<1>1. CASE "cas" \in refused
  <2>1. "cas" \in refused'
    BY <1>1, Zenon DEF DelEffect, Rests
  <2> QED BY <1>0, <2>1, Zenon DEF Sums
<1>2. CASE Rests
  BY <1>0, <1>2, Zenon DEF Sums, Rests
<1>3. CASE /\ "cas" \notin refused /\ Index' = Others(o.key) /\ checksum' = CASSub(o.key)
           /\ store' = Append(store, Tombstone(o.key)) \/ store' = store
  <2>1. checksum' = Terms(store, Others(o.key))
    BY <1>0, <1>3, OldTerm, Zenon DEF Sums
  <2>2. \A x \in Others(o.key) : store[x] = store'[x]
    <3>1. Tombstone(o.key) \in Record
      BY <1>0, TombstoneType, Zenon
    <3>2. \A x \in Index : Append(store, Tombstone(o.key))[x] = store[x]
      BY <3>1, AppendKeeps, Zenon
    <3>3. \A x \in Index : store[x] = store'[x]
      BY <1>3, <3>2, Zenon
    <3> QED BY <3>3, Zenon DEF Others
  <2>3. Terms(store, Others(o.key)) = Terms(store', Others(o.key))
    BY <2>2, TermsSame, Zenon
  <2> QED BY <1>3, <2>1, <2>3, Zenon DEF Sums
<1> QED BY <1>1, <1>2, <1>3, Zenon DEF DelEffect

(* restorePair gives each record the term it had, whatever was indexed.    *)
LEMMA RestoreSums ==
    ASSUME Inv, Sums, restored < Len(store), RestoreEffect, ~Serving
    PROVE  Sums'
<1> DEFINE r == store[restored + 1]
           k == r.key
<1>1. k \in Key
  <2>1. store \in Seq(Record) /\ restored \in 0..Len(store)
    BY Zenon DEF Inv, TypeOK
  <2>2. r \in Record
    BY <2>1, SMTT(40)
  <2> QED BY <2>2, Zenon DEF Record
<1>2. checksum = Terms(store, Index) /\ store' = store
  BY Zenon DEF Sums, RestoreEffect
<1>3. CASE Index' = Others(k) \cup {restored + 1} /\ checksum' = sum(CASSub(k), k, r.ts)
  <2>1. sum(CASSub(k), k, r.ts) = Terms(store, Others(k) \cup {restored + 1})
    BY <1>1, <1>2, NewTerm, Zenon
  <2> QED BY <1>2, <1>3, <2>1, Zenon DEF Sums
<1>4. CASE Index' = Others(k) /\ checksum' = CASSub(k)
  BY <1>1, <1>2, <1>4, OldTerm, Zenon DEF Sums
<1> QED BY <1>3, <1>4, Zenon DEF RestoreEffect

-----------------------------------------------------------------------------
(* The steps of the PMap, in the same terms                                *)

\* A call of Set or CAS is over
Serves(o) ==
    /\ pc \in {"idle", "run"} /\ Serving /\ CallEffect(o)
    /\ HasRoom \/ (Rests /\ UNCHANGED <<size, numStoredKeys>>)
    /\ op' = NoOp /\ UNCHANGED saved

Deletes(o) ==
    /\ pc = "idle" /\ DelEffect(o)
    /\ UNCHANGED <<size, numStoredKeys, op, restored, saved>>

Shorts ==
    /\ pc = "idle" /\ pc' = "idle" /\ ans' = [op |-> ShortOp, out |-> "err"]
    /\ Rests /\ UNCHANGED <<size, numStoredKeys, op, restored, saved>>

Begins(o) ==
    /\ pc' = "expand" /\ op' = o /\ ans' = NoAnswer
    /\ ~HasRoom /\ CanExpand
    /\ Rests /\ UNCHANGED <<size, numStoredKeys, restored, saved>>
    /\ \/ pc = "idle" /\ o \in SetOp \cup CASOp
       \/ pc = "restore" /\ o = Restore /\ ~AtEnd

\* The loop of expand
Copies ==
    /\ pc = "expand" /\ pc' = "expand"
    /\ Rests /\ UNCHANGED <<size, numStoredKeys, op, restored, ans, saved>>

Grew ==
    /\ ExpandDone
    /\ Rests /\ UNCHANGED <<op, restored, ans, saved>>

Restores ==
    /\ \/ pc = "restore" /\ op = NoOp /\ HasRoom /\ ~AtEnd
       \/ pc = "run" /\ op = Restore
    /\ restored < Len(store) /\ RestoreEffect
    /\ op' = NoOp /\ UNCHANGED saved

\* restorePair reads behind the end of the file
Breaks ==
    /\ \/ pc = "restore" /\ op = NoOp /\ HasRoom
       \/ pc = "run" /\ op = Restore
    /\ restored < Len(store) /\ ~CanReadTime
    /\ pc' = "panic" /\ op' = NoOp
    /\ Rests /\ UNCHANGED <<size, numStoredKeys, restored, ans, saved>>

\* Open could not grow the hashmap
Skips ==
    /\ pc = "restore" /\ ~HasRoom /\ ~CanExpand /\ ~AtEnd
    /\ restored < Len(store) /\ restored' = restored + 1
    /\ refused' = refused \cup {"restore"} /\ pc' = "restore"
    /\ length' = length + RecordSize(store[restored + 1])
    /\ deleted' = deleted + TombBytes(store[restored + 1])
    /\ UNCHANGED <<store, Index, checksum, size, numStoredKeys, op, ans, saved>>

Leaves ==
    /\ Leave /\ Index' = {}

\* Open begins, fails or is over
Turns ==
    /\ Open \/ OpenDone \/ OpenPanics
    /\ UNCHANGED <<store, length, deleted, Index, checksum, size, numStoredKeys, op, ans>>

Stutters ==
    UNCHANGED <<store, length, deleted, Index, checksum, refused, size, numStoredKeys,
                pc, op, restored, ans, saved>>

(* The calls, in terms of what they leave behind.                          *)
LEMMA CallIs ==
    ASSUME Inv, NEW o \in SetOp \cup CASOp, Call(o), pc = "idle"
    PROVE  Serves(o) \/ Begins(o)
<1>1. op = NoOp /\ Serving
  BY Zenon DEF Inv, TypeOK, Serving
<1>2. CASE HasRoom /\ Run(o) /\ UNCHANGED <<op, expandVars, saved>>
  BY <1>1, <1>2, CallDoes, Zenon DEF Serves
<1>3. CASE ~HasRoom /\ CanExpand /\ StartExpand(o)
  <2>1. Rests
    BY <1>3, RestIs, Zenon DEF StartExpand
  <2> QED BY <1>3, <2>1, Zenon DEF Begins, StartExpand, hmVars
<1>4. CASE ~HasRoom /\ ~CanExpand /\ IndexFull(o)
  <2>1. CallEffect(o)
    BY <1>4, CallDoes, Zenon
  <2>2. o.kind # "restore"
    BY Zenon DEF SetOp, CASOp
  <2>3. UNCHANGED <<hmVars, stVars, checksum, refused>>
    BY <1>4, <2>2, Zenon DEF IndexFull
  <2>4. Rests
    BY <2>3, RestIs, Zenon
  <2> QED BY <1>1, <1>4, <2>1, <2>3, <2>4, Zenon DEF Serves, IndexFull, hmVars
<1> QED BY <1>2, <1>3, <1>4, Zenon DEF Call

(* So is a step of Open.                                                   *)
LEMMA OpenNextIs ==
    ASSUME Inv, OpenNext
    PROVE  Restores \/ Breaks \/ Begins(Restore) \/ Skips
<1>1. pc = "restore" /\ ~AtEnd /\ op = NoOp /\ restored \in 0..Len(store) /\ Len(store) \in Nat
  BY SMTT(40) DEF Inv, TypeOK, OpenNext
<1>2. restored < Len(store) /\ Restore.kind = "restore"
  BY <1>1, Zenon DEF AtEnd, Restore
<1>3. CASE HasRoom /\ Run(Restore) /\ UNCHANGED <<op, expandVars, saved>>
  <2>1. CASE restorePair
    BY <1>1, <1>2, <1>3, <2>1, RestoreDoes, Zenon DEF Restores
  <2>2. CASE restorePairPanics
    <3>1. Rests
      BY <2>2, RestIs, Zenon DEF restorePairPanics
    <3> QED BY <1>1, <1>2, <1>3, <2>2, <3>1, Zenon DEF Breaks, restorePairPanics, hmVars
  <2> QED BY <1>2, <1>3, <2>1, <2>2, Zenon DEF Run
<1>4. CASE ~HasRoom /\ CanExpand /\ StartExpand(Restore)
  <2>1. Rests
    BY <1>4, RestIs, Zenon DEF StartExpand
  <2> QED BY <1>1, <1>4, <2>1, Zenon DEF Begins, StartExpand, hmVars
<1>5. CASE ~HasRoom /\ ~CanExpand /\ IndexFull(Restore)
  BY <1>1, <1>2, <1>5, IndexKept, Zenon DEF Skips, IndexFull, RestoreAdvance, hmVars
<1> QED BY <1>3, <1>4, <1>5, Zenon DEF OpenNext, Call

(* The call that waited for expand.                                        *)
LEMMA ResumeIs ==
    ASSUME Inv, Resume
    PROVE  Restores \/ Breaks \/ \E o \in SetOp \cup CASOp : Serves(o)
<1>1. /\ pc = "run" /\ Run(op) /\ op' = NoOp /\ UNCHANGED saved
      /\ op \in SetOp \cup CASOp \cup {Restore} /\ (op = Restore => restored < Len(store))
  BY Zenon DEF Resume, Inv, TypeOK
<1>2. HasRoom
  BY <1>1, Zenon DEF Inv, LoadBounded
<1>3. CASE op \in SetOp \cup CASOp
  <2>1. op.kind # "restore"
    BY <1>3, Zenon DEF SetOp, CASOp
  <2>2. CallEffect(op)
    BY <1>1, <1>3, CallDoes, Zenon
  <2> QED BY <1>1, <1>2, <1>3, <2>1, <2>2, Zenon DEF Serves, Serving
<1>4. CASE op = Restore
  <2>1. CASE restorePair
    BY <1>1, <1>4, <2>1, RestoreDoes, Zenon DEF Restores
  <2>2. CASE restorePairPanics
    <3>1. Rests
      BY <2>2, RestIs, Zenon DEF restorePairPanics
    <3> QED BY <1>1, <1>4, <2>2, <3>1, Zenon DEF Breaks, restorePairPanics, hmVars
  <2> QED BY <1>1, <1>4, <2>1, <2>2, Zenon DEF Run, Restore
<1> QED BY <1>1, <1>3, <1>4, Zenon

(* Every step is one of these.                                             *)
LEMMA StepIs ==
    ASSUME Inv, [Next]_vars
    PROVE  \/ \E o \in SetOp \cup CASOp : Serves(o) \/ Begins(o)
           \/ \E o \in DelOp : Deletes(o)
           \/ Shorts \/ Copies \/ Grew
           \/ Begins(Restore) \/ Restores \/ Skips \/ Breaks
           \/ Leaves \/ Turns \/ Stutters
<1>1. CASE CallSet \/ CallCAS
  <2>1. PICK o \in SetOp \cup CASOp : Call(o) /\ pc = "idle"
    BY <1>1, Zenon DEF CallSet, CallCAS, Idle
  <2> QED BY <2>1, CallIs, Zenon
<1>2. CASE CallDel
  <2>1. PICK o \in DelOp : Del(o)
    BY <1>2, Zenon DEF CallDel
  <2>2. Deletes(o)
    BY <1>2, <2>1, DelDoes, Zenon DEF Deletes, CallDel, Idle
  <2> QED BY <2>2, Zenon
<1>3. CASE CallShort
  <2>1. Rests
    BY <1>3, RestIs, Zenon DEF CallShort
  <2> QED BY <1>3, <2>1, Zenon DEF Shorts, CallShort, Answer, hmVars
<1>4. CASE ExpandStep
  <2>1. Rests
    BY <1>4, RestIs, Zenon DEF ExpandStep
  <2> QED BY <1>4, <2>1, Zenon DEF Copies, ExpandStep, hmVars
<1>5. CASE ExpandDone
  <2>1. Index' = Index
    BY <1>5, IndexExpanded, Zenon
  <2> QED BY <1>5, <2>1, Zenon DEF Grew, Rests, ExpandDone, stVars
<1>6. CASE Resume
  BY <1>6, ResumeIs, Zenon
<1>7. CASE Close \/ Crash
  <2>1. Leave
    BY <1>7, Zenon DEF Close, Crash
  <2>2. mem' = Fresh(InitSize)
    BY <2>1, Zenon DEF Leave
  <2>3. \A i \in DOMAIN mem' : ~Live(mem', i)
    BY <2>2 DEF Fresh, Live, emptyBucket, deletedBucket
  <2>4. Index' = {}
    BY <2>3, Zenon DEF Index, Live
  <2> QED BY <2>1, <2>4, Zenon DEF Leaves
<1>8. CASE Open \/ OpenDone \/ OpenPanics
  <2>1. UNCHANGED <<hmVars, stVars, checksum, op, ans>>
    BY <1>8, Zenon DEF Open, OpenDone, OpenPanics
  <2> QED BY <1>8, <2>1, IndexKept, Zenon DEF Turns, hmVars, stVars
<1>9. CASE OpenNext
  BY <1>9, OpenNextIs, Zenon
<1>10. CASE UNCHANGED vars
  BY <1>10, IndexKept, Zenon DEF vars, hmVars, stVars, Stutters
<1> QED BY <1>1, <1>2, <1>3, <1>4, <1>5, <1>6, <1>7, <1>8, <1>9, <1>10, Zenon DEF Next

(* Every step keeps the checksum.                                          *)
LEMMA NextSums ==
    ASSUME Inv, Sums, [Next]_vars
    PROVE  Sums'
<1>0. op = NoOp <=> pc \notin {"expand", "run"}
  BY Zenon DEF Inv, TypeOK
<1>1. ASSUME NEW o \in SetOp \cup CASOp, Serves(o) PROVE Sums'
  BY <1>1, CallSums, Zenon DEF Serves
<1>2. ASSUME NEW o \in DelOp, Deletes(o) PROVE Sums'
  BY <1>2, DelSums, Zenon DEF Deletes, Serving
<1>3. ASSUME Rests, Serving => Serving' PROVE Sums'
  BY <1>3, Zenon DEF Rests, Sums
<1>4. ASSUME NEW o \in SetOp \cup CASOp, Begins(o) PROVE Sums'
  <2>1. o.kind # "restore"
    BY Zenon DEF SetOp, CASOp
  <2> QED BY <1>3, <1>4, <2>1, Zenon DEF Begins, Serving
<1>5. CASE Shorts \/ Copies
  BY <1>3, <1>5, Zenon DEF Shorts, Copies, Serving
<1>6. CASE Grew
  <2>1. Rests /\ pc = "expand" /\ pc' = "run" /\ op' = op
    BY <1>6, Zenon DEF Grew, ExpandDone
  <2> QED BY <1>3, <2>1, Zenon DEF Serving
<1>7. CASE Begins(Restore)
  <2>1. Rests /\ ~Serving
    BY <1>7, Zenon DEF Begins, Serving, SetOp, CASOp, Restore
  <2> QED BY <1>3, <2>1, Zenon
<1>8. CASE Restores
  <2>1. ~Serving
    BY <1>8 DEF Restores, Serving, Restore
  <2> QED BY <1>8, <2>1, RestoreSums, Zenon DEF Restores
<1>9. CASE Skips
  <2>1. ~Serving
    BY <1>9, Zenon DEF Skips, Serving
  <2> QED BY <1>9, <2>1, Zenon DEF Skips, Sums
<1>10. CASE Leaves
  <2>1. checksum' = noTerms /\ Index' = {}
    BY <1>10, Zenon DEF Leaves, Leave
  <2>2. noTerms = Terms(store', {})
    BY Zenon DEF noTerms, Terms
  <2> QED BY <2>1, <2>2, Zenon DEF Sums
<1>11. CASE Turns
  <2>1. ~Serving
    BY <1>11, Zenon DEF Turns, Open, OpenDone, OpenPanics, Serving
  <2> QED BY <1>11, <2>1, Zenon DEF Turns, Sums
<1>12. CASE Stutters
  BY <1>12, Zenon DEF Stutters, Sums, Serving
<1>13. CASE Breaks
  <2>1. ~Serving
    BY <1>13 DEF Breaks, Serving, Restore
  <2> QED BY <1>3, <1>13, <2>1, Zenon DEF Breaks
<1> QED BY <1>1, <1>2, <1>4, <1>5, <1>6, <1>7, <1>8, <1>9, <1>10, <1>11, <1>12, <1>13, StepIs, Zenon

(* The checksum that replicas compare is the sum of the terms of the pairs *)
(* present, for any history of calls, expansions, kills and openings, with *)
(* the one exception of a CAS that a full store refused.                   *)
THEOREM ChecksumAlwaysMatches == Spec => []ChecksumMatches
<1>1. Init => Sums
  <2> SUFFICES ASSUME Init PROVE Sums
    BY Zenon
  <2>1. Index = {}
    BY IndexEmpty, Zenon DEF Init
  <2>2. noTerms = Terms(store, {})
    BY Zenon DEF noTerms, Terms
  <2> QED BY <2>1, <2>2, Zenon DEF Init, Sums
<1>2. Inv /\ Sums /\ [Next]_vars => Sums'
  BY NextSums, Zenon
<1>3. Inv /\ Sums => ChecksumMatches
  <2> SUFFICES ASSUME Inv, Sums PROVE ChecksumMatches
    BY Zenon
  <2>1. CASE "cas" \in refused /\ Serving
    <3>1. ~Restoring
      BY <2>1, Zenon DEF Serving, Restoring
    <3> QED BY <2>1, <3>1, Zenon DEF ChecksumMatches
  <2>2. CASE checksum = Terms(store, Index)
    <3>1. ASSUME NEW kt \in Key \X Time
          PROVE  (\E x \in Index : store[x].key = kt[1] /\ store[x].ts = kt[2])
                 <=> IsFound(kt[1]) /\ Found(kt[1]).ts = kt[2]
      <4>1. PICK k \in Key : k = kt[1]
        BY Zenon
      <4>2. IndexFacts
        BY IndexIs, Zenon
      <4>3. CASE IsFound(k)
        <5>1. PICK y \in Index : y = mem[Slot(k)].idx /\ store[y].key = k /\ Found(k) = store[y]
          BY <4>2, <4>3, Zenon DEF IndexFacts, Found
        <5>2. ASSUME NEW x \in Index, store[x].key = k PROVE x = y
          <6>1. \A a, b \in Index : store[a].key = store[b].key => a = b
            BY <4>2, Zenon DEF IndexFacts
          <6> QED BY <5>1, <5>2, <6>1, Zenon
        <5> QED BY <4>1, <4>3, <5>1, <5>2, Zenon
      <4>4. CASE ~IsFound(k)
        BY <4>1, <4>2, <4>4, Zenon DEF IndexFacts
      <4> QED BY <4>3, <4>4, Zenon
    <3>2. Terms(store, Index) = [kt \in Key \X Time |->
              IF IsFound(kt[1]) /\ Found(kt[1]).ts = kt[2] THEN 1 ELSE 0]
      BY <3>1, Zenon DEF Terms
    <3> QED BY <2>2, <3>2, Zenon DEF ChecksumMatches
  <2> QED BY <2>1, <2>2, Zenon DEF Sums
<1> QED BY <1>1, <1>2, <1>3, PMapInv, PTL DEF Spec

-----------------------------------------------------------------------------
(* The windows of time of the checksum                                     *)

VARIABLES calls, new, medium, old, newTime, mediumTime, oldTime, moves

Windowed == INSTANCE SyncChecksum

(* The next whole second is after t.                                       *)
LEMMA NextSecondAfter ==
    ASSUME NEW t \in Nat PROVE Windowed!NextSecond(t) \in Nat /\ Windowed!NextSecond(t) > t
BY DEF Windowed!NextSecond, Windowed!second

(* Inv is inductive: when the time moves forward, the sum that becomes the *)
(* medium one has every call so far, and those are not after newTime.      *)
LEMMA NextWindowed == Windowed!Inv /\ [Windowed!Next]_(Windowed!vars) => Windowed!Inv'
<1> SUFFICES ASSUME Windowed!Inv, [Windowed!Next]_(Windowed!vars) PROVE Windowed!Inv'
  BY Zenon
<1>1. CASE UNCHANGED Windowed!vars
  BY <1>1, Zenon DEF Windowed!Inv, Windowed!Windows, Windowed!Changes, Windowed!vars
<1>2. CASE Windowed!Next
  <2> PICK c \in Windowed!Call : Windowed!sum(c)
    BY <1>2, Zenon DEF Windowed!Next
  <2>0. c.t \in Nat /\ c.change \in BOOLEAN /\ \A d \in calls : d.t \in Nat /\ d.t <= newTime
    BY DEF Windowed!Inv, Windowed!Call
  <2>1. calls' = calls \cup {c} /\ new' = calls'
    BY Zenon DEF Windowed!sum, Windowed!Inv, Windowed!Windows
  <2>2. calls' \subseteq Windowed!Call
    BY <2>1, Zenon DEF Windowed!Inv
  <2>3. moves' = IF c.change THEN 0 ELSE IF c.t > newTime THEN moves + 1 ELSE moves
    BY Zenon DEF Windowed!sum
  <2>4. ~c.change => Windowed!Changes(calls') = Windowed!Changes(calls)
    BY <2>1, Zenon DEF Windowed!Changes
  <2>5. CASE Windowed!Forward(c)
    <3>1. newTime' \in Nat /\ newTime' > c.t /\ c.t > newTime
      BY <2>0, <2>5, NextSecondAfter, Zenon DEF Windowed!Forward
    <3>2. mediumTime' = newTime /\ oldTime' = mediumTime /\ medium' = calls /\ old' = medium
      BY <2>0, <2>5 DEF Windowed!Forward, Windowed!Inv, Windowed!Windows
    <3>3. \A d \in calls' : d.t <= newTime'
      BY <2>0, <2>1, <3>1 DEF Windowed!Inv
    <3>4. Windowed!Windows'
      BY <2>0, <2>1, <3>1, <3>2 DEF Windowed!Inv, Windowed!Windows
    <3>5. /\ moves' \in Nat
          /\ moves' >= 1 => ~c.change
          /\ moves' >= 2 => ~c.change /\ moves >= 1
      BY <2>0, <2>3, <3>1 DEF Windowed!Inv
    <3>6. moves' >= 1 => Windowed!Changes(calls') \subseteq medium'
      BY <2>4, <3>2, <3>5, Zenon DEF Windowed!Changes
    <3>7. moves' >= 2 => Windowed!Changes(calls') \subseteq old'
      BY <2>4, <3>2, <3>5, Zenon DEF Windowed!Inv
    <3>8. /\ {newTime', mediumTime', oldTime'} \subseteq Nat
          /\ oldTime' <= mediumTime' /\ mediumTime' <= newTime'
      BY <2>0, <3>1, <3>2 DEF Windowed!Inv
    <3>9. moves' \in Nat
      BY <3>5
    <3> QED BY <2>2, <3>3, <3>4, <3>6, <3>7, <3>8, <3>9, Zenon DEF Windowed!Inv
  <2>6. CASE Windowed!Adds(c)
    <3>1. Windowed!Windows'
      BY <2>0, <2>1, <2>6 DEF Windowed!Adds, Windowed!Inv, Windowed!Windows
    <3>2. \A d \in calls' : d.t <= newTime'
      BY <2>1, <2>6, Zenon DEF Windowed!Adds, Windowed!Inv
    <3>3. \/ ~c.change /\ moves' = moves
          \/ moves' = 0
      BY <2>0, <2>3, <2>6 DEF Windowed!Adds, Windowed!Inv
    <3>4. medium \subseteq medium' /\ old \subseteq old'
      BY <2>6, Zenon DEF Windowed!Adds
    <3>5. /\ moves' \in Nat
          /\ moves' >= 1 => ~c.change /\ moves >= 1
          /\ moves' >= 2 => ~c.change /\ moves >= 2
      BY <3>3 DEF Windowed!Inv
    <3>6. moves' >= 1 => Windowed!Changes(calls') \subseteq medium'
      BY <2>4, <3>4, <3>5, Zenon DEF Windowed!Inv
    <3>7. moves' >= 2 => Windowed!Changes(calls') \subseteq old'
      BY <2>4, <3>4, <3>5, Zenon DEF Windowed!Inv
    <3> QED BY <2>2, <2>6, <3>1, <3>2, <3>5, <3>6, <3>7, Zenon DEF Windowed!Adds, Windowed!Inv
  <2> QED BY <2>5, <2>6, Zenon DEF Windowed!sum
<1> QED BY <1>1, <1>2, Zenon

(* The invariant of the windows holds in the beginning.                    *)
LEMMA InitWindowed == Windowed!Init => Windowed!Inv
BY DEF Windowed!Init, Windowed!Inv, Windowed!Windows, Windowed!Changes

(* The windows of the checksum hold what they should, always.              *)
THEOREM WindowsAlways == Windowed!Spec => []Windowed!Windows
BY InitWindowed, NextWindowed, PTL DEF Windowed!Spec, Windowed!Inv

(* When changes have ceased and checksum() has moved the time twice, it    *)
(* returns the sum of all changes.                                         *)
THEOREM SettledAlways == Windowed!Spec => []Windowed!Settled
<1>1. Windowed!Inv => Windowed!Settled
  BY Zenon DEF Windowed!Inv, Windowed!Windows, Windowed!Settled, Windowed!Changes
<1> QED BY <1>1, InitWindowed, NextWindowed, PTL DEF Windowed!Spec
=============================================================================
