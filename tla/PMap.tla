-------------------------------- MODULE PMap --------------------------------
(***************************************************************************)
(* The persistent dictionary of core/pmap: an open-addressed hashmap in    *)
(* RAM that indexes an append-only store kept in a memory-mapped file.     *)
(*                                                                         *)
(* A PMap is used under its chunk's mutex, so its operations do not        *)
(* interleave; the loops that walk the whole structure (expand, Open) are  *)
(* one step per iteration, which lets a crash fall between two of them and *)
(* makes their invariants visible.                                         *)
(*                                                                         *)
(* Abstractions.  A store index is the position of a record, not its byte  *)
(* offset; lengths are kept in bytes.  The FNV1a64 hash of a value is the  *)
(* value itself (no collisions between values), while the 32 bit hash of a *)
(* key is the constant Hash, with all its collisions.  The checksum is the *)
(* formal sum of the terms h64 ^ timestamp, one per <<key, timestamp>>.    *)
(***************************************************************************)
EXTENDS Integers, Sequences, FiniteSets, Functions

CONSTANTS Key, Val, Time, EmptyVal,
          Hash,        \* uint32(FNV1a64(key))
          KeyLen,      \* length of a key in bytes
          ValLen,      \* length of a value in bytes, without the header
          InitSize,    \* buckets of a new hashmap (defaultHashMapInitialLog2Size)
          SizeLimit,   \* defaultHashMapSizeLimit
          StoreSize,   \* bytes of the memory-mapped file
          MaxRecords   \* bound of the model: operations stop at this many records

ASSUME ConstantsAssumption ==
    /\ EmptyVal \in Val
    /\ Time \subseteq Nat
    /\ Hash \in [Key -> Nat] /\ KeyLen \in [Key -> Nat] /\ ValLen \in [Val -> Nat]
    /\ InitSize \in Nat \ {0} /\ SizeLimit \in Nat
    /\ StoreSize \in Nat /\ MaxRecords \in Nat

VARIABLES
    size, mem, numStoredKeys,    \* hm: the hashmap
    store, length, deleted,      \* st: its records, used and deleted bytes
    checksum,                    \* newChecksum: [Key \X Time -> Int]
    pc,                          \* what the PMap is doing
    op,                          \* the call that waits for expand to finish
    newMem, newStored, next,     \* expand: the new hashmap, its count, the loop index
    restored,                    \* Open: how many records have been replayed
    ans,                         \* the last call and its answer
    saved, refused               \* history: contents when closed; puts and
                                 \* index growths refused for lack of space

hmVars     == <<size, mem, numStoredKeys>>
stVars     == <<store, length, deleted>>
expandVars == <<newMem, newStored, next>>
vars == <<hmVars, stVars, checksum, pc, op, expandVars, restored, ans, saved, refused>>

emptyBucket   == 0
deletedBucket == 1

Bucket == [hash: Nat, idx: Nat]
Record == [key: Key, tomb: BOOLEAN, ts: Time \cup {0}, val: Val]

SetOp   == [kind: {"set"}, key: Key, ts: Time, val: Val]
CASOp   == [kind: {"cas"}, key: Key, ts: Time, val: Val, oldTs: Time \cup {0}, oldVal: Val]
DelOp   == [kind: {"del"}, key: Key, ts: Time]
ShortOp == [kind |-> "short"]   \* a value too short to hold its header
Restore == [kind |-> "restore"] \* Open calls restorePair
NoOp    == [kind |-> "none"]

-----------------------------------------------------------------------------
(* The hashmap                                                             *)

Fresh(n) == [i \in 0..(n - 1) |-> [hash |-> emptyBucket, idx |-> 0]]

\* defaultHashMapMaxLoadFactor is 0.7
NumKeysToExpandFull(n) == n
NumKeysToExpand(n) == (7 * n) \div 10

\* Hashes 0 and 1 mark empty and deleted buckets
hashReMap(h) == IF h < 2 THEN h + 2 ELSE h

Home(h, n) == h % n

\* The buckets linear probing visits before bucket b, starting from a
Before(a, b, n) == IF a <= b THEN a..(b - 1) ELSE (a..(n - 1)) \cup (0..(b - 1))

\* Probing for key k under hash h ends at an empty bucket or at a full match
Stops(m, h, k, i) ==
    \/ m[i].hash = emptyBucket
    \/ m[i].hash = h /\ store[m[i].idx].key = k

Probe(h, k) ==
    CHOOSE i \in 0..(size - 1) :
        /\ Stops(mem, h, k, i)
        /\ \A j \in Before(Home(h, size), i, size) : ~Stops(mem, h, k, j)

\* expand() only looks for an empty bucket
ProbeEmptyFirst(m, n, h) ==
    CHOOSE i \in 0..(n - 1) :
        m[i].hash = emptyBucket /\ \A j \in 0..(i - 1) : m[j].hash # emptyBucket
ProbeEmpty(m, n, h) ==
    CHOOSE i \in 0..(n - 1) :
        /\ m[i].hash = emptyBucket
        /\ \A j \in Before(Home(h, n), i, n) : m[j].hash # emptyBucket

Slot(k)  == Probe(hashReMap(Hash[k]), k)
IsFound(k) == mem[Slot(k)].hash # emptyBucket
Found(k) == store[mem[Slot(k)].idx]

-----------------------------------------------------------------------------
(* The store                                                               *)

Pair(k, t, v) == [key |-> k, tomb |-> FALSE, ts |-> t, val |-> v]
Tombstone(k)  == [key |-> k, tomb |-> TRUE, ts |-> 0, val |-> EmptyVal]

\* 4 bytes of key length, 4 of value length, the data, 4 of total length
RecordSize(r) == 12 + KeyLen[r.key] + (IF r.tomb THEN 0 ELSE 8 + ValLen[r.val])

CanPutData(r) == length + KeyLen[r.key] + ValLen[r.val] < StoreSize
CanPut(r) == length + RecordSize(r) < StoreSize

put(r) == store' = Append(store, r) /\ length' = length + RecordSize(r)

-----------------------------------------------------------------------------
(* The checksum: sum and sub of the term of one pair                       *)

noTerms == [kt \in Key \X Time |-> 0]
sum(s, k, t) == [s EXCEPT ![<<k, t>>] = @ + 1]
sub(s, k, t) == [s EXCEPT ![<<k, t>>] = @ - 1]

-----------------------------------------------------------------------------
(* Operations, once there is room in the hashmap                           *)

NoAnswer == [op |-> ShortOp, out |-> "ok"]
Answer(o, r) == ans' = [op |-> o, out |-> r] /\ pc' = "idle"

\* Write record r and index it at bucket i
PutAt(i, r) ==
    /\ put(r)
    /\ mem' = [mem EXCEPT ![i] = [hash |-> hashReMap(Hash[r.key]), idx |-> Len(store) + 1]]
    /\ UNCHANGED <<size, deleted>>

\* Last write wins: the stored pair is newer than, or as new as, the one provided
Discards(old, t) == old.ts >= t

Set(o) ==
    LET k == o.key
        r == Pair(k, o.ts, o.val)
    IN  /\ \/ /\ ~IsFound(k) /\ CanPut(r)
              /\ PutAt(Slot(k), r)
              /\ numStoredKeys' = numStoredKeys + 1
              /\ checksum' = sum(checksum, k, o.ts)
              /\ Answer(o, "ok")
           \/ /\ IsFound(k) /\ ~Discards(Found(k), o.ts) /\ CanPut(r)
              /\ PutAt(Slot(k), r)
              /\ checksum' = sum(sub(checksum, k, Found(k).ts), k, o.ts)
              /\ Answer(o, "ok")
              /\ UNCHANGED numStoredKeys
           \/ /\ IsFound(k) /\ Discards(Found(k), o.ts)
              /\ Answer(o, "ok")
              /\ UNCHANGED <<hmVars, stVars, checksum>>
           \/ /\ IsFound(k) => ~Discards(Found(k), o.ts)
              /\ ~CanPut(r)
              /\ Answer(o, "err")
              /\ UNCHANGED <<hmVars, stVars, checksum>>
        /\ UNCHANGED <<restored, refused>>

\* The test on an absent pair: an error needs BOTH a non-zero timestamp and
\* a hash that is not that of nil
CASFailsEmpty(oldT, oldV) == oldT # 0 /\ oldV # EmptyVal

CASMismatchTime(old, oldT, oldV) == old.ts # oldT
CASMismatch(old, oldT, oldV) == old.ts # oldT \/ old.val # oldV

CASFails(o) ==
    IF IsFound(o.key) THEN CASMismatch(Found(o.key), o.oldTs, o.oldVal)
                      ELSE CASFailsEmpty(o.oldTs, o.oldVal)

\* On a match the old term leaves the checksum before the put that may fail
CASSubNone(k) == checksum
CASSub(k) == IF IsFound(k) THEN sub(checksum, k, Found(k).ts) ELSE checksum

CAS(o) ==
    LET k == o.key
        r == Pair(k, o.ts, o.val)
    IN  /\ \/ /\ CASFails(o)
              /\ Answer(o, "err")
              /\ UNCHANGED <<hmVars, stVars, checksum, refused>>
           \/ /\ ~CASFails(o) /\ CanPut(r)
              /\ PutAt(Slot(k), r)
              /\ numStoredKeys' = IF IsFound(k) THEN numStoredKeys ELSE numStoredKeys + 1
              /\ checksum' = sum(CASSub(k), k, o.ts)
              /\ Answer(o, "ok")
              /\ UNCHANGED refused
           \/ /\ ~CASFails(o) /\ ~CanPut(r)
              /\ checksum' = CASSub(k)
              /\ Answer(o, "err")
              /\ refused' = IF IsFound(k) THEN refused \cup {"cas"} ELSE refused
              /\ UNCHANGED <<hmVars, stVars>>
        /\ UNCHANGED restored

\* Where Open has got to: the next record, and the bytes behind it
RestoreAdvance ==
    LET r == store[restored + 1]
    IN  /\ restored' = restored + 1
        /\ length' = length + RecordSize(r)
        /\ UNCHANGED store

TombBytesAlways(r) == RecordSize(r)
TombBytes(r) == IF r.tomb THEN RecordSize(r) ELSE 0

\* What a record makes of the bucket of its key
RestoreBucketAlways(b, r) == [hash |-> b.hash, idx |-> restored + 1]
RestoreBucket(b, r) ==
    IF r.tomb THEN [b EXCEPT !.hash = deletedBucket]
              ELSE [hash |-> hashReMap(Hash[r.key]), idx |-> restored + 1]

\* value[:8] of a tombstone, whose value is empty, reaches behind the record: the
\* total length and the first 4 bytes of what follows
CanReadTime ==
    LET r == store[restored + 1]
    IN  r.tomb => StoreSize - (length + RecordSize(r)) >= 4

\* Open replays records in file order, without comparing timestamps
restorePair ==
    LET r == store[restored + 1]
        i == Slot(r.key)
        h == hashReMap(Hash[r.key])
    IN  /\ CanReadTime
        /\ \/ /\ ~IsFound(r.key)
              /\ mem' = [mem EXCEPT ![i] = [hash |-> h, idx |-> restored + 1]]
              /\ numStoredKeys' = numStoredKeys + 1
              /\ checksum' = sum(checksum, r.key, r.ts)
              /\ deleted' = deleted + TombBytes(r)
           \/ /\ IsFound(r.key)
              /\ LET old  == Found(r.key)
                     less == sub(checksum, r.key, old.ts)
                 IN  /\ deleted' = deleted + RecordSize(old) + TombBytes(r)
                     /\ checksum' = IF r.tomb THEN less ELSE sum(less, r.key, r.ts)
              /\ mem' = [mem EXCEPT ![i] = RestoreBucket(@, r)]
              /\ UNCHANGED numStoredKeys
        /\ RestoreAdvance
        /\ pc' = "restore"
        /\ UNCHANGED <<size, ans, refused>>

\* What restorePair has put in the hashmap by then is lost with the process
restorePairPanics ==
    /\ ~CanReadTime
    /\ pc' = "panic"
    /\ UNCHANGED <<hmVars, stVars, checksum, restored, ans, refused>>

Run(o) ==
    \/ o.kind = "set" /\ Set(o)
    \/ o.kind = "cas" /\ CAS(o)
    \/ o.kind = "restore" /\ (restorePair \/ restorePairPanics)

-----------------------------------------------------------------------------
(* expand(), and the calls that may need it                                *)

HasRoom   == numStoredKeys < NumKeysToExpand(size)
CanExpand == 2 * size <= SizeLimit

StartExpand(o) ==
    /\ pc' = "expand" /\ op' = o
    /\ newMem' = Fresh(2 * size) /\ newStored' = 0 /\ next' = 0
    /\ ans' = NoAnswer
    /\ UNCHANGED <<hmVars, stVars, checksum, restored, saved, refused>>

\* Set and CAS give the error back; Open ignores it and goes on with the next record
IndexFull(o) ==
    /\ \/ /\ o.kind \in {"set", "cas"}
          /\ Answer(o, "err")
          /\ UNCHANGED <<stVars, restored, refused>>
       \/ /\ o.kind = "restore"
          /\ RestoreAdvance
          /\ deleted' = deleted + TombBytes(store[restored + 1])
          /\ pc' = "restore" /\ refused' = refused \cup {"restore"}
          /\ UNCHANGED ans
    /\ UNCHANGED <<hmVars, checksum, op, expandVars, saved>>

Call(o) ==
    \/ HasRoom /\ Run(o) /\ UNCHANGED <<op, expandVars, saved>>
    \/ ~HasRoom /\ CanExpand /\ StartExpand(o)
    \/ ~HasRoom /\ ~CanExpand /\ IndexFull(o)

\* Deleted buckets are not copied
SurvivesAll(b) == b.hash > emptyBucket
Survives(b) == b.hash > deletedBucket

ExpandStep ==
    /\ pc = "expand" /\ next < size
    /\ next' = next + 1
    /\ IF Survives(mem[next])
       THEN /\ newMem' = [newMem EXCEPT ![ProbeEmpty(newMem, 2 * size, mem[next].hash)] = mem[next]]
            /\ newStored' = newStored + 1
       ELSE UNCHANGED <<newMem, newStored>>
    /\ UNCHANGED <<hmVars, stVars, checksum, pc, op, restored, ans, saved, refused>>

ExpandDone ==
    /\ pc = "expand" /\ next = size
    /\ size' = 2 * size /\ mem' = newMem /\ numStoredKeys' = newStored
    /\ newMem' = Fresh(0) /\ newStored' = 0 /\ next' = 0
    /\ pc' = "run"
    /\ UNCHANGED <<stVars, checksum, op, restored, ans, saved, refused>>

Resume ==
    /\ pc = "run"
    /\ Run(op)
    /\ op' = NoOp
    /\ UNCHANGED <<expandVars, saved>>

Idle == pc = "idle" /\ Len(store) < MaxRecords

CallSet == Idle /\ \E o \in SetOp : Call(o)
\* Bound of the model: one CAS refused by a full store between two openings,
\* since each one takes another term off the checksum
CallCAS == Idle /\ "cas" \notin refused /\ \E o \in CASOp : Call(o)

\* A value without room for its header is refused before anything else
CallShort ==
    /\ pc = "idle" /\ Answer(ShortOp, "err")
    /\ UNCHANGED <<hmVars, stVars, checksum, op, expandVars, restored, saved, refused>>

\* Stored pair is newer than the provided one
DelDiscards(old, t) == t < old.ts

Del(o) ==
    LET k == o.key
    IN  \/ /\ IsFound(k) => DelDiscards(Found(k), o.ts)
           /\ Answer(o, "ok")
           /\ UNCHANGED <<mem, stVars, checksum, refused>>
        \/ /\ IsFound(k) /\ ~DelDiscards(Found(k), o.ts)
           /\ mem' = [mem EXCEPT ![Slot(k)].hash = deletedBucket]
           /\ checksum' = sub(checksum, k, Found(k).ts)
           /\ deleted' = deleted + RecordSize(Found(k))
           /\ \/ /\ CanPut(Tombstone(k)) /\ put(Tombstone(k))
                 /\ Answer(o, "ok") /\ UNCHANGED refused
              \/ /\ ~CanPut(Tombstone(k)) /\ UNCHANGED <<store, length>>
                 /\ Answer(o, "err") /\ refused' = refused \cup {"del"}

CallDel ==
    /\ Idle /\ \E o \in DelOp : Del(o)
    /\ UNCHANGED <<size, numStoredKeys, op, expandVars, restored, saved>>

-----------------------------------------------------------------------------
(* Reads                                                                   *)

Restoring == pc = "restore" \/ (pc \in {"expand", "run"} /\ op.kind = "restore")
Serving   == pc \in {"idle", "early"} \/ (pc \in {"expand", "run"} /\ op.kind # "restore")

\* The records in the bytes that st.length counts
Indexed == IF Restoring \/ pc = "early" THEN restored ELSE Len(store)

\* Get probes with the hash as it is, not re-mapped; nil is the empty set
Get(k) ==
    LET b == mem[Probe(Hash[k], k)]
    IN  IF b.hash = emptyBucket THEN {} ELSE {store[b.idx]}

\* Iterate and BackwardsIterate visit the records that look present: Get finds
\* a pair of that key with the same timestamp
isPresentAll(n) == ~store[n].tomb
isPresent(n) == ~store[n].tomb /\ \E r \in Get(store[n].key) : r.ts = store[n].ts

Iterate == {n \in 1..Indexed : isPresent(n)}

-----------------------------------------------------------------------------
(* Close and Open                                                          *)

Contents == [k \in {x \in Key : IsFound(x)} |-> [ts |-> Found(k).ts, val |-> Found(k).val]]

\* Only the file survives
Leave ==
    /\ pc' = "closed"
    /\ saved' = IF Serving THEN Contents ELSE saved
    /\ size' = InitSize /\ mem' = Fresh(InitSize) /\ numStoredKeys' = 0
    /\ length' = 0 /\ deleted' = 0 /\ checksum' = noTerms /\ restored' = 0
    /\ op' = NoOp /\ newMem' = Fresh(0) /\ newStored' = 0 /\ next' = 0
    /\ ans' = NoAnswer
    /\ UNCHANGED <<store, refused>>

Close == pc \in {"idle", "early"} /\ Leave

\* The process is killed inside a loop of the PMap; the mapped pages survive it
Crash == pc \in {"expand", "run", "restore", "panic"} /\ Leave

Open ==
    /\ pc = "closed" /\ pc' = "restore"
    /\ UNCHANGED <<hmVars, stVars, checksum, op, expandVars, restored, ans, saved, refused>>

\* Reading the key length at the end of the used bytes needs 4 bytes of file
CanReadKeyLen == StoreSize - length >= 4

\* A key of length 0 looks like the zeroes behind the last record
AtEnd == restored < Len(store) => KeyLen[store[restored + 1].key] = 0

OpenNext == pc = "restore" /\ CanReadKeyLen /\ ~AtEnd /\ Call(Restore)

\* When Open stopped before the last record the next put would overwrite the
\* records behind: the model only reads from there on ("early")
OpenDone ==
    /\ pc = "restore" /\ CanReadKeyLen /\ AtEnd
    /\ pc' = IF restored = Len(store) THEN "idle" ELSE "early"
    /\ refused' = refused \ {"del", "cas"}
    /\ restored' = IF restored = Len(store) THEN 0 ELSE restored
    /\ saved' = [k \in {} |-> 0]
    /\ UNCHANGED <<hmVars, stVars, checksum, op, expandVars, ans>>

OpenPanics ==
    /\ pc = "restore" /\ ~CanReadKeyLen
    /\ pc' = "panic"
    /\ UNCHANGED <<hmVars, stVars, checksum, op, expandVars, restored, ans, saved, refused>>

Init ==
    /\ size = InitSize /\ mem = Fresh(InitSize) /\ numStoredKeys = 0
    /\ store = <<>> /\ length = 0 /\ deleted = 0 /\ checksum = noTerms
    /\ pc = "idle" /\ op = NoOp /\ ans = NoAnswer /\ restored = 0
    /\ newMem = Fresh(0) /\ newStored = 0 /\ next = 0
    /\ saved = [k \in {} |-> 0] /\ refused = {}

Next ==
    \/ CallSet \/ CallCAS \/ CallDel \/ CallShort
    \/ ExpandStep \/ ExpandDone \/ Resume
    \/ Close \/ Crash \/ Open \/ OpenNext \/ OpenDone \/ OpenPanics

Spec == Init /\ [][Next]_vars

-----------------------------------------------------------------------------
(* Properties                                                              *)

Live(m, i) == m[i].hash > deletedBucket
NumBuckets(m) == {i \in DOMAIN m : m[i].hash # emptyBucket}

(* The types of the fields of PMap, hashmap and store, and of the loops'   *)
(* own state.                                                              *)
TypeOK ==
    /\ size \in Nat \ {0} /\ mem \in [0..(size - 1) -> Bucket] /\ numStoredKeys \in Nat
    /\ store \in Seq(Record) /\ length \in Nat /\ deleted \in Nat
    /\ checksum \in [Key \X Time -> Int]
    /\ pc \in {"idle", "expand", "run", "closed", "restore", "early", "panic"}
    /\ op \in SetOp \cup CASOp \cup {Restore, NoOp}
    /\ op = NoOp <=> pc \notin {"expand", "run"}
    /\ newMem \in [0..(IF pc = "expand" THEN 2 * size - 1 ELSE -1) -> Bucket]
    /\ newStored \in Nat /\ next \in 0..size
    /\ restored \in 0..Len(store)
    /\ op = Restore => restored < Len(store)
    /\ ans.out \in {"ok", "err"} /\ ans.op \in SetOp \cup CASOp \cup DelOp \cup {ShortOp}
    /\ refused \subseteq {"cas", "del", "restore"}

(* The probing loops of Get, Set, CAS, Del, restorePair and expand have no *)
(* bound of their own: they end because some bucket is always empty, in    *)
(* the hashmap and in the one expand is filling.  numStoredKeys counts the *)
(* other buckets, deleted ones included.                                   *)
ProbingEnds ==
    /\ \E i \in DOMAIN mem : mem[i].hash = emptyBucket
    /\ numStoredKeys = Cardinality(NumBuckets(mem))
    /\ pc = "expand" => /\ \E i \in DOMAIN newMem : newMem[i].hash = emptyBucket
                        /\ newStored = Cardinality(NumBuckets(newMem))

\* A live bucket of m leads to a record, under the record's own hash
LeadsToRecord(m) ==
    \A i \in DOMAIN m : Live(m, i) =>
        /\ m[i].idx \in 1..Len(store)
        /\ m[i].hash = hashReMap(Hash[store[m[i].idx].key])

\* Probing from the home bucket of a live bucket meets no empty one on the way
Reachable(m, n) ==
    \A i \in DOMAIN m : Live(m, i) =>
        \A j \in Before(Home(m[i].hash, n), i, n) : m[j].hash # emptyBucket

\* No key is indexed twice
OneBucketPerKey(m) ==
    \A i, j \in DOMAIN m :
        Live(m, i) /\ Live(m, j) /\ store[m[i].idx].key = store[m[j].idx].key => i = j

(* The hashmap stays under its load limit, and expand makes room for the   *)
(* call that waits for it: one expansion is always enough.                 *)
LoadBounded ==
    /\ numStoredKeys <= NumKeysToExpand(size)
    /\ pc = "run" => HasRoom

(* In its loop, expand has copied the live buckets it has passed and       *)
(* nothing else, and counted no more of them than there were.              *)
ExpandCopies ==
    pc = "expand" =>
        /\ \A i \in DOMAIN newMem : newMem[i].hash # emptyBucket =>
              \E j \in 0..(next - 1) : Live(mem, j) /\ newMem[i] = mem[j]
        /\ \A j \in 0..(next - 1) : Live(mem, j) =>
              \E i \in DOMAIN newMem : newMem[i] = mem[j]
        /\ newStored <= Cardinality({i \in NumBuckets(mem) : i < next})

(* The hashmap indexes the store: after any sequence of calls, expansions, *)
(* crashes and re-openings, every live bucket leads to a record under the  *)
(* hash of its key, is found by probing, and is the only one of its key.   *)
(* The same holds of the hashmap that expand is filling.                   *)
IndexSound ==
    /\ LeadsToRecord(mem) /\ Reachable(mem, size) /\ OneBucketPerKey(mem)
    /\ pc = "expand" =>
        LeadsToRecord(newMem) /\ Reachable(newMem, 2 * size) /\ OneBucketPerKey(newMem)

\* The last record of k among the first n, 0 if it has none
LastRecord(k, n) ==
    LET S == {i \in 1..n : store[i].key = k}
    IN  IF S = {} THEN 0 ELSE CHOOSE i \in S : \A j \in S : j <= i

(* The index and the file tell the same story, which is why Open can       *)
(* rebuild the first from the second: a key is found exactly when its last *)
(* record is a pair, and what is found is that record.  It fails only when *)
(* a tombstone was refused by a full store (Del answers an error after it  *)
(* deleted the pair) or when Open could not grow the hashmap.  Never does  *)
(* a live bucket lead to a tombstone, which has no timestamp to read.      *)
IndexMatchesLog ==
    /\ \A i \in DOMAIN mem : Live(mem, i) => ~store[mem[i].idx].tomb
    /\ \/ pc \in {"closed", "panic"} \/ "restore" \in refused
       \/ "del" \in refused /\ ~Restoring
       \/ \A k \in Key :
             LET n == LastRecord(k, Indexed)
             IN  IF IsFound(k) THEN mem[Slot(k)].idx = n ELSE n = 0 \/ store[n].tomb

\* The bytes of the records S
Bytes(S) == SumFunctionOnSet([n \in 1..Len(store) |-> RecordSize(store[n])], S)

\* The records of the pairs that are found
Present == {mem[Slot(k)].idx : k \in {x \in Key : IsFound(x)}}

(* st.length and st.deleted tell the store's bytes apart.  The used bytes  *)
(* are those of the records, also while Open counts them again, so the     *)
(* next put goes behind the last record.  Deleted(), from which            *)
(* Core.Delete decides to defragment, counts bytes that a defragmentation  *)
(* gives back: with those of the pairs present they never exceed the bytes *)
(* used.  Open counts every such byte, overwritten pairs and tombstones    *)
(* included, as long as the hashmap can grow.                              *)
DeletedIsReclaimable ==
    Serving \/ Restoring =>
        /\ length = Bytes(1..Indexed)
        /\ deleted + Bytes(Present) <= length
        /\ Restoring /\ "restore" \notin refused => deleted + Bytes(Present) = length

(* No put writes behind the end of the file, although the room is counted  *)
(* anew by each Open and puts go on after it.  Open panics only at the     *)
(* last record, and only when put has left less than 4 bytes behind it: in *)
(* restorePair if the record is a tombstone, whose timestamp it reads      *)
(* there, and otherwise when it looks for the length of the next key.      *)
StoreFits ==
    /\ Bytes(1..Len(store)) <= StoreSize
    /\ pc = "panic" =>
         /\ StoreSize - Bytes(1..Len(store)) < 4
         /\ \/ restored = Len(store)
            \/ restored + 1 = Len(store) /\ store[Len(store)].tomb

(* The checksum that replicas compare is the sum of the terms of exactly   *)
(* the pairs present, whatever was overwritten, deleted, expanded or       *)
(* restored; except after a CAS whose put was refused by a full store,     *)
(* which subtracts the old term and leaves the pair.                       *)
ChecksumMatches ==
    \/ pc \in {"closed", "panic"} \/ ("cas" \in refused /\ ~Restoring)
    \/ checksum = [kt \in Key \X Time |->
                     IF IsFound(kt[1]) /\ Found(kt[1]).ts = kt[2] THEN 1 ELSE 0]

-----------------------------------------------------------------------------
(* Refinement                                                              *)

\* While the PMap is closed or being opened its contents are those it closed with
Map == IF Serving THEN Contents ELSE saved

\* Open has been through the file, and a tombstone is missing in it, a record was
\* not indexed, or there are records behind one with an empty key
Lost == pc = "restore" /\ AtEnd /\
        ({"del", "restore"} \cap refused # {} \/ restored < Len(store))

LWW == INSTANCE LWWMap WITH map <- Map, lost <- Lost

(* A PMap is a durable last-writer-wins map: each call takes effect once,  *)
(* on its own key only, also when the hashmap grows in the middle of it or *)
(* the call is refused for lack of space; and Close, a kill and Open       *)
(* change nothing, unless a tombstone was refused by a full store, the     *)
(* hashmap could not grow during Open or Open met an empty key.            *)
ImplementsLWW == LWW!Spec

(* The comment of CAS (pmap.go): it "sets a pair value if 2 tests are      *)
(* passed", that the timestamp is the expected one, 0 for an absent pair,  *)
(* and that the value's hash is.                                           *)
CASNeedsBothTests ==
    [][\A o \in CASOp : Map' # Map /\ LWW!Answer(o, "ok") => LWW!Passes(o)]_vars

(* "Iterate calls foreach for each stored pair" (pmap.go): every pair that *)
(* Get finds is visited, after any older record of its key that is visited *)
(* too, and no key that is absent is visited.  A defragmentation or a      *)
(* transfer of the chunk copies what Iterate visits.  A key whose hash is  *)
(* 0 or 1 is left out: Get does not find it when it is there, and it can   *)
(* match one with hash 1 in the deleted bucket of its deleted pair.  When  *)
(* Open could not grow the hashmap, a later pair with the same timestamp   *)
(* may follow.                                                             *)
IterateCovers ==
    Serving =>
        /\ \A k \in Key : IsFound(k) /\ Hash[k] >= 2 =>
              /\ mem[Slot(k)].idx \in Iterate
              /\ "restore" \notin refused =>
                   \A n \in Iterate : store[n].key = k => n <= mem[Slot(k)].idx
        /\ \A n \in Iterate : Hash[store[n].key] >= 2 => IsFound(store[n].key)

=============================================================================
