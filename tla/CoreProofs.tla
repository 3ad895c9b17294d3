----------------------------- MODULE CoreProofs -----------------------------
(***************************************************************************)
(* What the locks of a Core guarantee, for any number of chunks, keys,     *)
(* defragmentations, protections and restarts: the counter, the list and   *)
(* the timers agree with the flags of the chunks, and the pairs that were  *)
(* acknowledged are in the PMap and in the files at every moment.          *)
(***************************************************************************)
EXTENDS Core, FiniteSetTheorems, WellFoundedInduction, TLAPS

Copying(c) == defragmenter.pc = "copy" /\ defragmenter.chunk = c

\* Who holds which lock, and what holding it protects: a chunk that is present has
\* a PMap and keeps it while the defragmenter copies or the repair system waits
LocksHeld ==
    /\ list = nil \/ mutex = nil
    /\ mutex # nil /\ mutex.op = "protect" => mutex.t \in Stamp
    /\ \A c \in Chunk : /\ chunks[c].present => chunks[c].pm # nil
                        /\ proc = "up" /\ chunks[c].pm # nil => chunks[c].present
    /\ defragmenter.pc \in {"lock", "copy"} => defragMutex[defragmenter.chunk] = "defrag"
    /\ defragmenter.pc = "copy" =>
          /\ lock[defragmenter.chunk] = "defrag"
          /\ chunks[defragmenter.chunk].present /\ defragmenter.old # nil
    /\ repair # nil =>
          IF repair.waiting
          THEN lock[repair.chunk] = "repair" /\ chunks[repair.chunk].present
          ELSE defragMutex[repair.chunk] = "repair"

Queued(q, c) == {i \in DOMAIN q : q[i] = c}
Asked(c) ==
    IF c \in sending THEN 1 ELSE 0
Pending(c) ==
    IF defragmenter.pc \in {"defragMutex", "lock"} /\ defragmenter.chunk = c THEN 1 ELSE 0

\* Every defragmentation asked for has a revision left to it
RevisionsLeft ==
    proc = "up" => \A c \in Chunk :
        chunks[c].revision + Cardinality(Queued(defragChannel, c))
            + Asked(c) + Pending(c) <= MaxRev

\* The pairs acknowledged are in the PMap, or still to be copied into it, and in the
\* files of the chunk: that of its PMap and, during a defragmentation, the old one
Kept(c) ==
    IF chunks[c].present
    THEN /\ chunks[c].pm.rev <= chunks[c].revision
         /\ file[c][chunks[c].pm.rev] = Keys(c)
         /\ IF Copying(c)
            THEN /\ defragmenter.old.rev < chunks[c].pm.rev
                 /\ Keys(c) \cup defragmenter.todo = acked[c]
                 /\ Files(c) = {defragmenter.old.rev, chunks[c].pm.rev}
                 /\ file[c][defragmenter.old.rev] = acked[c]
            ELSE Keys(c) = acked[c] /\ Files(c) = {chunks[c].pm.rev}
    ELSE proc = "up" => Files(c) = {}

PairsKept == ~opened => \A c \in Chunk : Kept(c)

NothingSkipped == transfer # nil => transfer.owed \subseteq transfer.todo

-----------------------------------------------------------------------------
(* Types                                                                   *)

StoreType ==
    /\ proc \in {"up", "down", "panic"} /\ opened \in BOOLEAN
    /\ chunks \in [Chunk -> MetaChunk] /\ knownChunks \in Int
    /\ file \in [Chunk -> [Rev -> (SUBSET Key) \cup {nil}]]
    /\ acked \in [Chunk -> SUBSET Key]
LockType ==
    /\ mutex \in Setter \cup {nil} /\ list \in Listing \cup {nil}
    /\ lock \in [Chunk -> {"free", "defrag", "repair"}]
    /\ defragMutex \in [Chunk -> {"free", "defrag", "repair"}]
DefragState ==
    [pc : {"receive", "defragMutex", "lock", "copy"}, chunk : Chunk,
     old : PM \cup {nil}, todo : SUBSET Key]
DefragType ==
    /\ defragChannel \in Seq(Chunk) /\ Len(defragChannel) <= BufferSize
    /\ sending \subseteq Chunk /\ defragmenter \in DefragState
IterType == transfer \in Iteration \cup {nil} /\ repair \in Iteration \cup {nil}
TimerType == timers \subseteq [chunk : Chunk, t : Stamp]

Types == StoreType /\ LockType /\ DefragType /\ IterType /\ TimerType

(* TypeOK, by groups of variables.                                         *)
LEMMA TypesDef == TypeOK <=> Types
BY Zenon DEF TypeOK, Types, StoreType, LockType, DefragType, DefragState, IterType, TimerType

(* The same after a step.                                                  *)
LEMMA TypesDefNext == TypeOK' <=> Types'
BY Zenon DEF TypeOK, Types, StoreType, LockType, DefragType, DefragState, IterType, TimerType

(* What a step leaves alone keeps its type.                                *)
LEMMA Unchanged ==
    ASSUME Types
    PROVE  /\ UNCHANGED store => StoreType'
           /\ UNCHANGED locks => LockType'
           /\ UNCHANGED defrag => DefragType'
           /\ UNCHANGED iters => IterType'
           /\ UNCHANGED timers => TimerType'
BY Zenon DEF Types, StoreType, LockType, DefragType, IterType, TimerType,
             store, locks, defrag, iters

(* The messages of a channel are finitely many.                            *)
LEMMA QueuedFinite ==
    ASSUME NEW S, NEW q \in Seq(S), NEW c
    PROVE  IsFiniteSet(Queued(q, c)) /\ Queued(q, c) \subseteq 1 .. Len(q)
<1>1. Queued(q, c) \subseteq 1 .. Len(q)
  BY DEF Queued
<1>2. IsFiniteSet(1 .. Len(q))
  BY FS_Interval
<1> QED
  BY <1>1, <1>2, FS_Subset, Zenon

(* The steps of an iteration.                                              *)
LEMMA IterationTypes ==
    ASSUME NEW it \in Iteration \cup {nil}, NEW c \in Chunk, NEW k \in Key
    PROVE  /\ Appended(it, c, k) \in Iteration \cup {nil}
           /\ Overwritten(it, c, k) \in Iteration \cup {nil}
           /\ it # nil => Visited(it, k) \in Iteration
BY Zenon DEF Appended, Overwritten, Visited, Reads, Iteration

(* Closing the PMap an iteration reads.                                    *)
LEMMA ClosedType ==
    ASSUME NEW it \in Iteration \cup {nil}, NEW c \in Chunk,
           NEW why \in {"no", "defrag", "release"}
    PROVE  Closed(it, c, why) \in Iteration \cup {nil}
BY Zenon DEF Closed, Reads, Iteration

(* An iteration that starts.                                               *)
LEMMA VisitingType ==
    ASSUME NEW c \in Chunk, NEW k \in Key, chunks[c].pm \in PM
    PROVE  Visiting(c, k) \in Iteration
BY Zenon DEF Visiting, Keys, PM, Iteration

(* What is written to the file of a PMap is a set of keys.                 *)
LEMMA WrittenType ==
    ASSUME StoreType, NEW c \in Chunk, chunks[c].pm \in PM, NEW ks \in SUBSET Key
    PROVE  Written(c, ks) \in [Chunk -> [Rev -> (SUBSET Key) \cup {nil}]]
BY Zenon DEF StoreType, Written, PM

(* A chunk that has a PMap.                                                *)
LEMMA PMapType ==
    ASSUME StoreType, NEW c \in Chunk, chunks[c].pm # nil
    PROVE  chunks[c] \in MetaChunk /\ chunks[c].pm \in PM /\ Keys(c) \in SUBSET Key
BY Zenon DEF StoreType, MetaChunk, PM, Keys

(* The assignments to a metaChunk.                                         *)
LEMMA ChunkType ==
    ASSUME NEW m \in MetaChunk, NEW pm \in PM \cup {nil}, NEW t \in Stamp \cup {noTime},
           NEW r \in Rev
    PROVE  /\ [m EXCEPT !.pm = pm, !.revision = r] \in MetaChunk
           /\ [m EXCEPT !.pm = pm, !.present = TRUE] \in MetaChunk
           /\ [m EXCEPT !.pm = pm, !.present = FALSE, !.protected = FALSE] \in MetaChunk
           /\ [m EXCEPT !.protected = TRUE, !.protectionTime = t] \in MetaChunk
           /\ [m EXCEPT !.protectionTime = t, !.protected = FALSE] \in MetaChunk
BY Zenon DEF MetaChunk

(* A PMap that gets or loses a pair.                                       *)
LEMMA KeysSetType ==
    ASSUME StoreType, NEW c \in Chunk, chunks[c].pm # nil, NEW ks \in SUBSET Key
    PROVE  [chunks EXCEPT ![c].pm.keys = ks] \in [Chunk -> MetaChunk]
<1>1. chunks[c] \in MetaChunk /\ chunks[c].pm \in PM
  BY PMapType, Zenon
<1>2. [chunks[c].pm EXCEPT !.keys = ks] \in PM
  BY <1>1, Zenon DEF PM
<1>3. [chunks[c] EXCEPT !.pm = [chunks[c].pm EXCEPT !.keys = ks]] \in MetaChunk
  BY <1>1, <1>2, Zenon DEF MetaChunk
<1>4. [chunks EXCEPT ![c].pm.keys = ks]
      = [chunks EXCEPT ![c] = [chunks[c] EXCEPT !.pm = [chunks[c].pm EXCEPT !.keys = ks]]]
  BY Zenon
<1> QED
  BY <1>3, <1>4, Zenon DEF StoreType

(* A put, a delete or a copied pair changes the keys of one PMap.          *)
LEMMA KeysSet ==
    ASSUME StoreType, NEW c \in Chunk, chunks[c].pm # nil, NEW ks \in SUBSET Key,
           chunks' = [chunks EXCEPT ![c].pm.keys = ks]
    PROVE  /\ \A d \in Chunk \ {c} : chunks'[d] = chunks[d]
           /\ chunks'[c].pm = [rev |-> chunks[c].pm.rev, keys |-> ks]
           /\ chunks'[c].pm # nil
           /\ chunks'[c].present = chunks[c].present
           /\ chunks'[c].protected = chunks[c].protected
           /\ chunks'[c].protectionTime = chunks[c].protectionTime
           /\ chunks'[c].revision = chunks[c].revision
<1>1. chunks[c] \in MetaChunk /\ chunks[c].pm \in PM
  BY PMapType, Zenon
<1>2. [chunks[c].pm EXCEPT !.keys = ks] = [rev |-> chunks[c].pm.rev, keys |-> ks]
  BY <1>1 DEF PM
<1>3. [rev |-> chunks[c].pm.rev, keys |-> ks] \in PM
  BY <1>1, Zenon DEF PM
<1>4. chunks'[c] = [chunks[c] EXCEPT !.pm = [rev |-> chunks[c].pm.rev, keys |-> ks]]
  BY <1>2, Zenon DEF StoreType
<1>5. \A d \in Chunk \ {c} : chunks'[d] = chunks[d]
  BY Zenon DEF StoreType
<1>6. /\ chunks'[c].pm = [rev |-> chunks[c].pm.rev, keys |-> ks]
      /\ chunks'[c].present = chunks[c].present
      /\ chunks'[c].protected = chunks[c].protected
      /\ chunks'[c].protectionTime = chunks[c].protectionTime
      /\ chunks'[c].revision = chunks[c].revision
  BY <1>1, <1>4, ZenonT(40) DEF MetaChunk
<1>7. chunks'[c].pm # nil
  BY <1>3, <1>6, CoreAssumption, Zenon
<1> QED
  BY <1>5, <1>6, <1>7, Zenon

(* A defragmentation gives one chunk a new PMap and a new revision.        *)
LEMMA NewRevision ==
    ASSUME chunks \in [Chunk -> MetaChunk], defragmenter.chunk \in Chunk, DefragNew
    PROVE  LET c == defragmenter.chunk
               r == chunks[c].revision + 1
           IN  /\ \A d \in Chunk \ {c} : chunks'[d] = chunks[d]
               /\ chunks'[c].present = chunks[c].present
               /\ chunks'[c].protected = chunks[c].protected
               /\ chunks'[c].protectionTime = chunks[c].protectionTime
               /\ chunks'[c].pm = [rev |-> r, keys |-> {}] /\ chunks'[c].revision = r
<1> DEFINE c == defragmenter.chunk
           r == chunks[c].revision + 1
           m == [chunks[c] EXCEPT !.pm = [rev |-> r, keys |-> {}], !.revision = r]
<1>1. chunks' = [chunks EXCEPT ![c] = m]
  BY Zenon DEF DefragNew
<1>2. chunks[c] \in MetaChunk
  BY Zenon
<1> HIDE DEF r
<1>3. /\ m.present = chunks[c].present /\ m.revision = r
      /\ m.pm = [rev |-> r, keys |-> {}] /\ m.protected = chunks[c].protected
      /\ m.protectionTime = chunks[c].protectionTime
  BY <1>2, Zenon DEF MetaChunk
<1> HIDE DEF m
<1>4. chunks'[c] = m /\ \A d \in Chunk \ {c} : chunks'[d] = chunks[d]
  BY <1>1, Zenon
<1> QED
  BY <1>3, <1>4, Zenon DEF r

(* No setter changes a revision.                                           *)
LEMMA SettersKeep ==
    ASSUME chunks \in [Chunk -> MetaChunk], mutex # nil => mutex.chunk \in Chunk, Setters
    PROVE  \A d \in Chunk : chunks'[d].revision = chunks[d].revision
BY DEF Setters, ChunkSetPresent, ChunkSetNoPresent, ChunkSetProtected, ProtectionExpires,
       Setting, MetaChunk

(* A request does not move an iteration from its chunk.                    *)
LEMMA IterationStays ==
    ASSUME NEW it \in Iteration \cup {nil}, NEW c \in Chunk, NEW k \in Key
    PROVE  /\ Overwritten(it, c, k) = nil <=> it = nil
           /\ it # nil => /\ Overwritten(it, c, k).chunk = it.chunk
                          /\ Overwritten(it, c, k).waiting = it.waiting
                          /\ Visited(it, k).chunk = it.chunk
                          /\ Visited(it, k).waiting = it.waiting
                          /\ Visited(it, k) # nil
<1>1. CASE it = nil
  BY <1>1, Zenon DEF Overwritten, Reads
<1>2. CASE it \in Iteration
  <2>1. Visited(it, k) \in Iteration /\ Overwritten(it, c, k) \in Iteration
    BY <1>2, Zenon DEF Overwritten, Visited, Reads, Iteration
  <2> QED
    BY <1>2, <2>1, CoreAssumption, Zenon DEF Overwritten, Visited, Reads, Iteration
<1> QED
  BY <1>1, <1>2, Zenon

(* findChunk finds one of the files of the chunk.                          *)
LEMMA FindChunkFile ==
    ASSUME StoreType, NEW c \in Chunk, Files(c) # {}
    PROVE  findChunk(c) \in Files(c)
<1> DEFINE less == {p \in Nat \X Nat : p[1] < p[2]}
           T == {NameRank(r) : r \in Files(c)}
<1>1. IsWellFoundedOn(less, Nat)
  <2>1. less = OpToRel(<, Nat)
    BY Zenon DEF OpToRel
  <2> QED
    BY <2>1, NatLessThanWellFounded, Zenon
<1>2. \A r \in Files(c) : NameRank(r) \in Nat
  BY CoreAssumption DEF Files, Rev, NameRank
<1>3. T \subseteq Nat /\ T # {}
  BY <1>2, Zenon
<1>4. PICK n \in T : \A m \in T : ~ (<<m, n>> \in less)
  BY <1>1, <1>3, WFMin, Zenon
<1>5. PICK r \in Files(c) : n = NameRank(r)
  BY <1>4, Zenon
<1>6. \A q \in Files(c) : NameRank(r) <= NameRank(q)
  <2> SUFFICES ASSUME NEW q \in Files(c) PROVE NameRank(r) <= NameRank(q)
    BY Zenon
  <2>1. ~ (<<NameRank(q), NameRank(r)>> \in less)
    BY <1>4, <1>5, Zenon
  <2>2. ASSUME NEW a \in Nat, NEW b \in Nat, ~ (<<a, b>> \in less) PROVE b <= a
    BY <2>2
  <2> QED
    BY <1>2, <2>1, <2>2, Zenon
<1> QED
  BY <1>6, Zenon DEF findChunk

(* What Open makes of a chunk.                                             *)
LEMMA OpenChunkType ==
    ASSUME StoreType, NEW c \in Chunk
    PROVE  OpenChunk(c) \in MetaChunk
<1> USE CoreAssumption
<1>1. CASE Files(c) = {}
  BY <1>1 DEF OpenChunk, NewMetaChunk, MetaChunk, Rev, noTime
<1>2. CASE Files(c) # {}
  <2>1. findChunk(c) \in Rev /\ file[c][findChunk(c)] \in SUBSET Key
    BY <1>2, FindChunkFile DEF Files, StoreType
  <2>2. [rev |-> findChunk(c), keys |-> file[c][findChunk(c)]] \in PM
    BY <2>1, Zenon DEF PM
  <2>3. NewMetaChunk \in MetaChunk
    BY DEF NewMetaChunk, MetaChunk, Rev, noTime
  <2>4. [NewMetaChunk EXCEPT !.pm = [rev |-> findChunk(c), keys |-> file[c][findChunk(c)]],
                             !.present = TRUE] \in MetaChunk
    BY <2>1, <2>2, <2>3, ChunkType, Zenon
  <2> QED
    BY <1>2, <2>4, Zenon DEF OpenChunk
<1> QED
  BY <1>1, <1>2, Zenon

(* Open makes the chunks present that it has a PMap for.                   *)
LEMMA OpenChunkPresent ==
    ASSUME StoreType, NEW c \in Chunk
    PROVE  OpenChunk(c).present <=> OpenChunk(c).pm # nil
<1>1. CASE Files(c) = {}
  BY <1>1, Zenon DEF OpenChunk, NewMetaChunk
<1>2. CASE Files(c) # {}
  <2> DEFINE pm == [rev |-> findChunk(c), keys |-> file[c][findChunk(c)]]
  <2>1. pm \in PM
    BY <1>2, FindChunkFile, ZenonT(40) DEF Files, StoreType, PM
  <2>2. OpenChunk(c).present /\ OpenChunk(c).pm = pm
    BY <1>2, Zenon DEF OpenChunk, NewMetaChunk
  <2> HIDE DEF pm
  <2> QED
    BY <2>1, <2>2, CoreAssumption, Zenon
<1> QED
  BY <1>1, <1>2, Zenon

(* Every step of the requests, the setters, the defragmenter, the          *)
(* iterations and the process keeps the types.                             *)
LEMMA NextType == Types /\ LocksHeld /\ RevisionsLeft /\ [Next]_vars => Types'
<1> SUFFICES ASSUME Types, LocksHeld, RevisionsLeft, [Next]_vars PROVE Types'
  BY Zenon
<1> USE CoreAssumption
<1>0. /\ UNCHANGED store => StoreType'
      /\ UNCHANGED locks => LockType'
      /\ UNCHANGED defrag => DefragType'
      /\ UNCHANGED iters => IterType'
      /\ UNCHANGED timers => TimerType'
  BY Unchanged, Zenon
<1>a. StoreType /\ LockType /\ DefragType /\ IterType /\ TimerType
  BY Zenon DEF Types
<1>b. ASSUME NEW c \in Chunk, chunks[c].present PROVE chunks[c].pm # nil
  BY <1>b, Zenon DEF LocksHeld
<1>1. ASSUME NEW c \in Chunk, NEW k \in Key, Set(c, k) PROVE Types'
  <2>1. chunks[c].pm # nil /\ Keys(c) \cup {k} \in SUBSET Key /\ chunks[c].pm \in PM
    BY <1>1, <1>a, <1>b, PMapType, Zenon DEF Set
  <2>2. /\ chunks' \in [Chunk -> MetaChunk]
        /\ file' \in [Chunk -> [Rev -> (SUBSET Key) \cup {nil}]]
    BY <1>1, <1>a, <2>1, KeysSetType, WrittenType, Zenon DEF Set, Keys
  <2>3. StoreType'
    BY <1>1, <1>a, <2>2, Zenon DEF Set, StoreType
  <2>4. IterType'
    BY <1>1, <1>a, IterationTypes, Zenon DEF Set, IterType
  <2> QED
    BY <1>0, <1>1, <2>3, <2>4, Zenon DEF Set, Types
<1>2. ASSUME NEW c \in Chunk, NEW k \in Key, Delete(c, k) PROVE Types'
  <2>1. chunks[c].pm # nil /\ Keys(c) \ {k} \in SUBSET Key /\ chunks[c].pm \in PM
    BY <1>2, <1>a, <1>b, PMapType, Zenon DEF Delete
  <2>2. /\ chunks' \in [Chunk -> MetaChunk]
        /\ file' \in [Chunk -> [Rev -> (SUBSET Key) \cup {nil}]]
    BY <1>2, <1>a, <2>1, KeysSetType, WrittenType, Zenon DEF Delete, Keys
  <2>3. StoreType'
    BY <1>2, <1>a, <2>2, Zenon DEF Delete, StoreType
  <2>4. IterType'
    BY <1>2, <1>a, IterationTypes, Zenon DEF Delete, IterType
  <2>5. DefragType'
    BY <1>2, <1>a, Zenon DEF Delete, DefragType
  <2> QED
    BY <1>0, <1>2, <2>3, <2>4, <2>5, Zenon DEF Delete, Types
<1>3. ASSUME NEW c \in Chunk, SendDefrag(c) PROVE Types'
  <2>1. DefragType'
    BY <1>3, <1>a DEF SendDefrag, Room, DefragType
  <2> QED
    BY <1>0, <1>3, <2>1, Zenon DEF SendDefrag, Types
<1>4. ASSUME DefragReceive PROVE Types'
  <2>1. StoreType'
    BY <1>4, <1>a, Zenon DEF DefragReceive, Panic, StoreType
  <2>2. CASE Panic
    BY <1>0, <2>1, <2>2, Zenon DEF Panic, Types
  <2>3. CASE ~Panic
    <3>1. /\ defragChannel # <<>> /\ defragChannel' = Tail(defragChannel)
          /\ defragmenter' = [defragmenter EXCEPT !.pc = "defragMutex",
                                                  !.chunk = Head(defragChannel)]
          /\ UNCHANGED sending
      BY <1>4, <2>3, Zenon DEF DefragReceive
    <3>2. Head(defragChannel) \in Chunk /\ defragChannel' \in Seq(Chunk)
      BY <1>a, <3>1 DEF DefragType
    <3>3. Len(defragChannel') <= BufferSize
      BY <1>a, <3>1 DEF DefragType
    <3>4. defragmenter' \in DefragState
      BY <1>a, <3>1, <3>2, Zenon DEF DefragType, DefragState
    <3>5. DefragType'
      BY <1>a, <3>1, <3>2, <3>3, <3>4, Zenon DEF DefragType
    <3> QED
      BY <1>0, <1>4, <2>1, <2>3, <3>5, Zenon DEF DefragReceive, Types
  <2> QED
    BY <2>2, <2>3, Zenon
<1>5. ASSUME DefragLock PROVE Types'
  <2>1. DefragType' /\ LockType'
    BY <1>5, <1>a, Zenon DEF DefragLock, DefragType, DefragState, LockType
  <2> QED
    BY <1>0, <1>5, <2>1, Zenon DEF DefragLock, Types
<1>6. ASSUME DefragNew PROVE Types'
  <2> DEFINE c == defragmenter.chunk
             old == chunks[c].pm
             r == chunks[c].revision + 1
  <2>1. c \in Chunk
    BY <1>a, Zenon DEF DefragType, DefragState
  <2>2. chunks[c] \in MetaChunk
    BY <1>a, <2>1, Zenon DEF StoreType
  <2>3. r \in Rev
    <3>1. Pending(c) = 1
      BY <1>6, Zenon DEF DefragNew, Pending
    <3>2. chunks[c].revision + Cardinality(Queued(defragChannel, c)) + Asked(c)
            + Pending(c) <= MaxRev
      BY <1>6, <2>1, Zenon DEF DefragNew, Up, RevisionsLeft
    <3>3. Asked(c) \in Nat /\ chunks[c].revision \in Nat
      BY <2>2 DEF Asked, MetaChunk, Rev
    <3>4. Cardinality(Queued(defragChannel, c)) \in Nat
      BY <1>a, QueuedFinite, FS_CardinalityType, Zenon DEF DefragType
    <3> QED
      BY <3>1, <3>2, <3>3, <3>4 DEF Rev
  <2>4. [chunks[c] EXCEPT !.pm = [rev |-> r, keys |-> {}], !.revision = r] \in MetaChunk
    <3>1. [rev |-> r, keys |-> {}] \in PM
      BY <2>3, Zenon DEF PM
    <3> QED
      BY <2>2, <2>3, <3>1, ChunkType, Zenon
  <2>5. chunks' = [chunks EXCEPT ![c] =
            [chunks[c] EXCEPT !.pm = [rev |-> r, keys |-> {}], !.revision = r]]
    BY <1>6, <1>a, <2>1, Zenon DEF DefragNew, StoreType
  <2>6. chunks' \in [Chunk -> MetaChunk]
    BY <1>a, <2>4, <2>5, Zenon DEF StoreType
  <2>7. file' \in [Chunk -> [Rev -> (SUBSET Key) \cup {nil}]]
    BY <1>6, <1>a, <2>1, <2>3, Zenon DEF DefragNew, NewFile, StoreType
  <2>8. StoreType'
    BY <1>6, <1>a, <2>6, <2>7, Zenon DEF DefragNew, Panic, StoreType
  <2>9. CASE old = nil
    BY <1>0, <1>6, <2>8, <2>9, Zenon DEF DefragNew, Panic, Types
  <2>10. CASE old # nil
    <3>1. LockType'
      BY <1>6, <1>a, <2>1, <2>10, Zenon DEF DefragNew, DefragLocked, LockType
    <3>2. old \in PM /\ OldPairs(old, r) \in SUBSET Key
      BY <2>2, <2>10, Zenon DEF MetaChunk, PM, OldPairs
    <3>3. defragmenter' = [defragmenter EXCEPT
              !.pc = "copy", !.old = old, !.todo = OldPairs(old, r)]
      BY <1>6, <2>10, Zenon DEF DefragNew
    <3>4. defragmenter' \in DefragState
      BY <1>a, <3>2, <3>3, Zenon DEF DefragType, DefragState
    <3>5. DefragType'
      BY <1>6, <1>a, <2>10, <3>4, Zenon DEF DefragNew, DefragType
    <3> QED
      BY <1>0, <1>6, <2>8, <2>10, <3>1, <3>5, Zenon DEF DefragNew, Types
  <2> QED
    BY <2>9, <2>10, Zenon
<1>7. ASSUME NEW k \in Key, DefragCopy(k) PROVE Types'
  <2> DEFINE c == defragmenter.chunk
  <2>1. c \in Chunk
    BY <1>a, Zenon DEF DefragType, DefragState
  <2>2. chunks[c].pm # nil
    BY <1>7, <1>b, <2>1, Zenon DEF DefragCopy, LocksHeld
  <2>3. Keys(c) \cup {k} \in SUBSET Key /\ chunks[c].pm \in PM
    BY <1>a, <2>1, <2>2, PMapType, Zenon
  <2>4. /\ chunks' \in [Chunk -> MetaChunk]
        /\ file' \in [Chunk -> [Rev -> (SUBSET Key) \cup {nil}]]
    BY <1>7, <1>a, <2>1, <2>2, <2>3, KeysSetType, WrittenType, Zenon DEF DefragCopy, Keys
  <2>5. StoreType'
    BY <1>7, <1>a, <2>4, Zenon DEF DefragCopy, StoreType
  <2>6. DefragType'
    BY <1>7, <1>a, Zenon DEF DefragCopy, DefragType, DefragState
  <2> QED
    BY <1>0, <1>7, <2>5, <2>6, Zenon DEF DefragCopy, Types
<1>8. ASSUME DefragEnd PROVE Types'
  <2> DEFINE c == defragmenter.chunk
  <2>1. c \in Chunk
    BY <1>a, Zenon DEF DefragType, DefragState
  <2>2. StoreType'
    BY <1>8, <1>a, <2>1, Zenon DEF DefragEnd, StoreType
  <2>3. LockType'
    BY <1>8, <1>a, <2>1, Zenon DEF DefragEnd, DefragUnlock, LockType
  <2>4. DefragType'
    BY <1>8, <1>a DEF DefragEnd, DefragType, DefragState, Idle, Chunk
  <2>5. IterType'
    BY <1>8, <1>a, <2>1, ClosedType, Zenon DEF DefragEnd, IterType
  <2> QED
    BY <1>0, <1>8, <2>2, <2>3, <2>4, <2>5, Zenon DEF DefragEnd, Types
<1>9. ASSUME Call PROVE Types'
  <2>1. PICK m \in Setter : LockMutex(m) /\ UNCHANGED timers
    BY <1>9, Zenon DEF Call, CallSetter, Setter, FreeStamp
  <2>2. LockType'
    BY <1>a, <2>1, Zenon DEF LockMutex, LockType
  <2> QED
    BY <1>0, <2>1, <2>2, Zenon DEF LockMutex, Types
<1>c. ASSUME NEW op, Setting(op)
      PROVE  /\ mutex.chunk \in Chunk /\ mutex.t \in Stamp \cup {noTime}
             /\ LockType' /\ DefragType'
  <2>1. mutex.chunk \in Chunk /\ mutex.t \in Stamp \cup {noTime}
    BY <1>a, <1>c, Zenon DEF Setting, LockType, Setter
  <2>2. LockType'
    BY <1>a, <1>c, Zenon DEF Setting, LockType
  <2> QED
    BY <1>0, <1>c, <2>1, <2>2, Zenon DEF Setting
<1>10. ASSUME ChunkSetPresent PROVE Types'
  <2> DEFINE c == mutex.chunk
  <2>1. c \in Chunk /\ LockType' /\ DefragType'
    BY <1>10, <1>c, Zenon DEF ChunkSetPresent
  <2>2. CASE IsPresent(c)
    BY <1>0, <1>10, <2>1, <2>2, Zenon DEF ChunkSetPresent, Setting, Types, store
  <2>3. CASE ~IsPresent(c)
    <3>0. chunks[c] \in MetaChunk /\ [rev |-> 0, keys |-> {}] \in PM /\ 0 \in Rev
      BY <1>a, <2>1 DEF StoreType, PM, Rev
    <3>1. [chunks[c] EXCEPT !.pm = [rev |-> 0, keys |-> {}], !.present = TRUE] \in MetaChunk
      BY <1>a, <2>1, <3>0, ChunkType, Zenon
    <3>2. chunks' = [chunks EXCEPT ![c] =
              [chunks[c] EXCEPT !.pm = [rev |-> 0, keys |-> {}], !.present = TRUE]]
      BY <1>10, <1>a, <2>1, <2>3, Zenon DEF ChunkSetPresent, StoreType
    <3>3. chunks' \in [Chunk -> MetaChunk]
      BY <1>a, <3>1, <3>2, Zenon DEF StoreType
    <3>4. /\ file' = [file EXCEPT ![c][0] = {}] /\ knownChunks' = knownChunks + 1
          /\ acked' = [acked EXCEPT ![c] = {}] /\ UNCHANGED <<proc, opened>>
      BY <1>10, <2>3, Zenon DEF ChunkSetPresent, Setting
    <3>5. StoreType'
      BY <1>a, <2>1, <3>3, <3>4 DEF StoreType, Rev
    <3> QED
      BY <1>0, <1>10, <2>1, <3>5, Zenon DEF ChunkSetPresent, Types
  <2> QED
    BY <2>2, <2>3, Zenon
<1>11. ASSUME ChunkSetNoPresent PROVE Types'
  <2> DEFINE c == mutex.chunk
  <2>1. c \in Chunk /\ LockType' /\ DefragType'
    BY <1>11, <1>c, Zenon DEF ChunkSetNoPresent
  <2>2. CASE ~chunks[c].present
    BY <1>0, <1>11, <2>1, <2>2, Zenon DEF ChunkSetNoPresent, Setting, Types, store
  <2>3. CASE chunks[c].present
    <3>0. chunks[c] \in MetaChunk /\ [rev |-> 0, keys |-> {}] \in PM /\ 0 \in Rev
      BY <1>a, <2>1 DEF StoreType, PM, Rev
    <3>1. [chunks[c] EXCEPT !.pm = nil, !.present = FALSE, !.protected = FALSE] \in MetaChunk
      BY <1>a, <2>1, <3>0, ChunkType, Zenon
    <3>2. chunks' = [chunks EXCEPT ![c] =
              [chunks[c] EXCEPT !.pm = nil, !.present = FALSE, !.protected = FALSE]]
      BY <1>11, <1>a, <2>1, <2>3, ZenonT(40) DEF ChunkSetNoPresent, StoreType
    <3>3. chunks' \in [Chunk -> MetaChunk]
      BY <1>a, <3>1, <3>2, Zenon DEF StoreType
    <3>4. /\ file' = [file EXCEPT ![c][chunks[c].pm.rev] = nil]
          /\ knownChunks' = knownChunks - 1
          /\ acked' = [acked EXCEPT ![c] = {}] /\ UNCHANGED <<proc, opened>>
          /\ transfer' = Closed(transfer, c, "release")
          /\ repair' = Closed(repair, c, "release")
      BY <1>11, <2>3, Zenon DEF ChunkSetNoPresent, Setting
    <3>5. file' \in [Chunk -> [Rev -> (SUBSET Key) \cup {nil}]]
      BY <1>a, <2>1, <3>4, Zenon DEF StoreType
    <3>7. StoreType'
      BY <1>a, <2>1, <3>3, <3>4, <3>5 DEF StoreType
    <3>6. IterType'
      BY <1>a, <2>1, <3>4, ClosedType, Zenon DEF IterType
    <3> QED
      BY <1>0, <1>11, <2>1, <3>7, <3>6, Zenon DEF ChunkSetNoPresent, Types
  <2> QED
    BY <2>2, <2>3, Zenon
<1>12. ASSUME ChunkSetProtected PROVE Types'
  <2> DEFINE c == mutex.chunk
  <2>1. c \in Chunk /\ mutex.t \in Stamp \cup {noTime} /\ LockType' /\ DefragType'
    BY <1>12, <1>c, Zenon DEF ChunkSetProtected
  <2>2. CASE ~chunks[c].present
    BY <1>0, <1>12, <2>1, <2>2, Zenon DEF ChunkSetProtected, Setting, Types, store
  <2>3. CASE chunks[c].present
    <3>0. chunks[c] \in MetaChunk /\ [rev |-> 0, keys |-> {}] \in PM /\ 0 \in Rev
      BY <1>a, <2>1 DEF StoreType, PM, Rev
    <3>1. [chunks[c] EXCEPT !.protected = TRUE, !.protectionTime = mutex.t] \in MetaChunk
      BY <1>a, <2>1, <3>0, ChunkType, Zenon
    <3>2. chunks' = [chunks EXCEPT ![c] =
              [chunks[c] EXCEPT !.protected = TRUE, !.protectionTime = mutex.t]]
      BY <1>12, <1>a, <2>1, <2>3, Zenon DEF ChunkSetProtected, StoreType
    <3>3. chunks' \in [Chunk -> MetaChunk]
      BY <1>a, <3>1, <3>2, Zenon DEF StoreType
    <3>4. StoreType'
      BY <1>12, <1>a, <3>3, Zenon DEF ChunkSetProtected, Setting, StoreType
    <3>5. mutex.t \in Stamp
      BY <1>12, <2>1, Zenon DEF ChunkSetProtected, Setting, LocksHeld
    <3>6. TimerType'
      BY <1>12, <1>a, <2>1, <2>3, <3>5 DEF ChunkSetProtected, Sleep, TimerType
    <3> QED
      BY <1>0, <1>12, <2>1, <3>4, <3>6, Zenon DEF ChunkSetProtected, Types
  <2> QED
    BY <2>2, <2>3, Zenon
<1>13. ASSUME ProtectionExpires PROVE Types'
  <2> DEFINE c == mutex.chunk
  <2>1. c \in Chunk /\ LockType' /\ DefragType'
    BY <1>13, <1>c, Zenon DEF ProtectionExpires
  <2>2. [chunks[c] EXCEPT !.protectionTime = noTime, !.protected = FALSE] \in MetaChunk
    <3>1. chunks[c] \in MetaChunk /\ 0 \in Rev
      BY <1>a, <2>1 DEF StoreType, Rev
    <3> QED
      BY <3>1, ChunkType, Zenon
  <2>3. \/ UNCHANGED chunks
        \/ chunks' = [chunks EXCEPT ![c] =
              [chunks[c] EXCEPT !.protectionTime = noTime, !.protected = FALSE]]
    BY <1>13, <1>a, <2>1, Zenon DEF ProtectionExpires, StoreType
  <2>4. chunks' \in [Chunk -> MetaChunk]
    BY <1>a, <2>2, <2>3, Zenon DEF StoreType
  <2>5. StoreType'
    BY <1>13, <1>a, <2>4, Zenon DEF ProtectionExpires, Setting, StoreType
  <2> QED
    BY <1>0, <1>13, <2>1, <2>5, Zenon DEF ProtectionExpires, Types
<1>14. ASSUME NEW x \in timers, Wake(x) PROVE Types'
  <2>1. LockType' /\ TimerType'
    BY <1>14, <1>a, Zenon DEF Wake, LockMutex, LockType, TimerType, Setter
  <2> QED
    BY <1>0, <1>14, <2>1, Zenon DEF Wake, LockMutex, Types
<1>15. ASSUME ListStart PROVE Types'
  <2>1. StoreType'
    BY <1>15, <1>a, Zenon DEF ListStart, Panic, StoreType
  <2>2. CASE knownChunks < 0
    BY <1>0, <1>15, <2>1, <2>2, Zenon DEF ListStart, Panic, Types
  <2>3. CASE ~(knownChunks < 0)
    <3>1. [next |-> 0, ids |-> {}] \in Listing
      BY DEF Listing
    <3>2. LockType'
      BY <1>15, <1>a, <2>3, <3>1, Zenon DEF ListStart, LockType
    <3> QED
      BY <1>0, <1>15, <2>1, <2>3, <3>2, Zenon DEF ListStart, Types
  <2> QED
    BY <2>2, <2>3, Zenon
<1>16. ASSUME ListNext \/ ListEnd PROVE Types'
  <2>1. list' \in Listing \cup {nil}
    BY <1>16, <1>a DEF ListNext, ListEnd, LockType, Listing, Chunk
  <2>2. LockType'
    BY <1>16, <1>a, <2>1, Zenon DEF ListNext, ListEnd, LockType
  <2> QED
    BY <1>0, <1>16, <2>2, Zenon DEF ListNext, ListEnd, Types
<1>17. ASSUME NEW c \in Chunk, Iterate(c) PROVE Types'
  <2>1. chunks[c].pm \in PM /\ Keys(c) \in SUBSET Key
    BY <1>17, <1>a, <1>b, PMapType, Zenon DEF Iterate
  <2>2. IterType'
    BY <1>17, <1>a, <2>1, VisitingType, ZenonT(40) DEF Iterate, IterType
  <2> QED
    BY <1>0, <1>17, <2>2, Zenon DEF Iterate, Types
<1>18. ASSUME IterateNext PROVE Types'
  <2>1. StoreType'
    BY <1>18, <1>a, Zenon DEF IterateNext, Panic, StoreType
  <2>2. CASE transfer.closed # "no"
    BY <1>0, <1>18, <2>1, <2>2, Zenon DEF IterateNext, Panic, Types
  <2>3. CASE transfer.closed = "no"
    <3>1. transfer \in Iteration /\ transfer.todo \in SUBSET Key /\ transfer.chunk \in Chunk
      BY <1>18, <1>a, Zenon DEF IterateNext, IterType, Iteration
    <3>2. transfer' \in Iteration \cup {nil}
      BY <1>18, <2>3, <3>1, IterationTypes DEF IterateNext
    <3>3. IterType'
      BY <1>18, <1>a, <2>3, <3>2, Zenon DEF IterateNext, IterType
    <3> QED
      BY <1>0, <1>18, <2>1, <2>3, <3>3, Zenon DEF IterateNext, Types
  <2> QED
    BY <2>2, <2>3, Zenon
<1>19. ASSUME NEW c \in Chunk, BackwardsIterate(c) PROVE Types'
  <2>1. [chunk |-> c, waiting |-> TRUE, todo |-> {}, owed |-> {}, closed |-> "no"] \in Iteration
    BY Zenon DEF Iteration
  <2>2. IterType' /\ LockType'
    BY <1>19, <1>a, <2>1, Zenon DEF BackwardsIterate, IterType, LockType
  <2> QED
    BY <1>0, <1>19, <2>2, Zenon DEF BackwardsIterate, Types
<1>20. ASSUME BackwardsFirst PROVE Types'
  <2> DEFINE c == repair.chunk
  <2>1. c \in Chunk /\ chunks[c].present
    BY <1>20, <1>a, Zenon DEF BackwardsFirst, IterType, Iteration, LocksHeld
  <2>2. chunks[c].pm \in PM /\ Keys(c) \in SUBSET Key
    BY <1>a, <1>b, <2>1, PMapType, Zenon
  <2>3. repair' \in Iteration \cup {nil}
    BY <1>20, <2>1, <2>2, VisitingType DEF BackwardsFirst
  <2>4. IterType'
    BY <1>20, <1>a, <2>3, Zenon DEF BackwardsFirst, IterType
  <2>5. LockType'
    BY <1>20, <1>a, <2>1 DEF BackwardsFirst, LockType
  <2> QED
    BY <1>0, <1>20, <2>4, <2>5, Zenon DEF BackwardsFirst, Types
<1>21. ASSUME BackwardsNext PROVE Types'
  <2>1. StoreType'
    BY <1>21, <1>a, Zenon DEF BackwardsNext, Panic, StoreType
  <2>2. CASE Panic
    BY <1>0, <2>1, <2>2, Zenon DEF Panic, Types
  <2>3. repair \in Iteration /\ repair.todo \in SUBSET Key /\ repair.chunk \in Chunk
    BY <1>21, <1>a, Zenon DEF BackwardsNext, IterType, Iteration
  <2>4. ASSUME NEW k \in repair.todo, repair' = Visited(repair, k),
               UNCHANGED <<proc, locks, defrag, transfer, timers>>
        PROVE  Types'
    <3>1. IterType'
      BY <1>21, <1>a, <2>3, <2>4, IterationTypes, Zenon DEF BackwardsNext, IterType
    <3> QED
      BY <1>0, <2>1, <2>4, <3>1, Zenon DEF Types
  <2>5. CASE /\ repair' = nil
             /\ defragMutex' = [defragMutex EXCEPT ![repair.chunk] = "free"]
             /\ UNCHANGED <<proc, mutex, list, lock, defrag, transfer, timers>>
    <3>1. IterType' /\ LockType'
      BY <1>a, <2>3, <2>5, Zenon DEF IterType, LockType
    <3> QED
      BY <1>0, <2>1, <2>5, <3>1, Zenon DEF Types
  <2> QED
    BY <1>21, <2>2, <2>4, <2>5, Zenon DEF BackwardsNext
<1>22. ASSUME Close \/ Kill PROVE Types'
  <2>1. StoreType'
    BY <1>22, <1>a, Zenon DEF Close, Kill, StoreType
  <2> QED
    BY <1>0, <1>22, <2>1, Zenon DEF Close, Kill, Types
<1>23. ASSUME Open PROVE Types'
  <2>1. ASSUME NEW c \in Chunk PROVE OpenChunk(c) \in MetaChunk
    BY <1>a, OpenChunkType, Zenon
  <2>2. StoreType'
    BY <1>23, <1>a, <2>1 DEF Open, StoreType
  <2>3. LockType' /\ TimerType' /\ IterType'
    BY <1>23, Zenon DEF Open, LockType, TimerType, IterType
  <2>4. DefragType'
    BY <1>23 DEF Open, DefragType, DefragState, Idle, Chunk
  <2> QED
    BY <2>2, <2>3, <2>4, Zenon DEF Types
<1>24. CASE UNCHANGED vars
  BY <1>0, <1>24, Zenon DEF vars, Types
<1> QED
  BY <1>1, <1>2, <1>3, <1>4, <1>5, <1>6, <1>7, <1>8, <1>9, <1>10, <1>11, <1>12,
     <1>13, <1>14, <1>15, <1>16, <1>17, <1>18, <1>19, <1>20, <1>21, <1>22, <1>23,
     <1>24, Zenon
     DEF Next, Request, CAS, Defragmenter, Setters, StayDown

(* The locks are held by those who say so.                                 *)
LEMMA NextLocks == Types /\ Types' /\ LocksHeld /\ [Next]_vars => LocksHeld'
<1> SUFFICES ASSUME Types, Types', LocksHeld, [Next]_vars PROVE LocksHeld'
  BY Zenon
<1> USE CoreAssumption
<1>a. /\ chunks \in [Chunk -> MetaChunk] /\ chunks' \in [Chunk -> MetaChunk]
      /\ lock \in [Chunk -> {"free", "defrag", "repair"}]
      /\ defragMutex \in [Chunk -> {"free", "defrag", "repair"}]
      /\ defragmenter \in DefragState /\ defragmenter.chunk \in Chunk
      /\ mutex \in Setter \cup {nil}
      /\ mutex # nil => mutex.chunk \in Chunk
      /\ repair \in Iteration \cup {nil}
      /\ repair # nil => repair.chunk \in Chunk
  BY Zenon DEF Types, StoreType, LockType, DefragType, DefragState, IterType, Setter, Iteration
<1>1. ASSUME NEW c \in Chunk, NEW k \in Key, Set(c, k) PROVE LocksHeld'
  <2>1. chunks[c].pm # nil /\ Keys(c) \cup {k} \in SUBSET Key
    BY <1>1, <1>a, PMapType, Zenon DEF Set, LocksHeld, Types
  <2>2. /\ \A d \in Chunk : /\ chunks'[d].present = chunks[d].present
                            /\ chunks'[d].pm = nil <=> chunks[d].pm = nil
    <3>1. chunks' = [chunks EXCEPT ![c].pm.keys = Keys(c) \cup {k}]
      BY <1>1, Zenon DEF Set, Keys
    <3>2. StoreType
      BY Zenon DEF Types
    <3>3. /\ \A d \in Chunk \ {c} : chunks'[d] = chunks[d]
          /\ chunks'[c].pm # nil /\ chunks'[c].present = chunks[c].present
      BY <2>1, <3>1, <3>2, KeysSet, Zenon
    <3> QED
      BY <2>1, <3>3, Zenon
  <2>3. /\ repair' = nil <=> repair = nil
        /\ repair # nil => repair'.chunk = repair.chunk /\ repair'.waiting = repair.waiting
    BY <1>1, <1>a, IterationStays DEF Set
  <2> QED
    BY <1>1, <1>a, <2>2, <2>3 DEF Set, LocksHeld, locks, defrag
<1>2. ASSUME NEW c \in Chunk, NEW k \in Key, Delete(c, k) PROVE LocksHeld'
  <2>1. chunks[c].pm # nil /\ Keys(c) \ {k} \in SUBSET Key
    BY <1>2, <1>a, PMapType, Zenon DEF Delete, LocksHeld, Types
  <2>2. /\ \A d \in Chunk : /\ chunks'[d].present = chunks[d].present
                            /\ chunks'[d].pm = nil <=> chunks[d].pm = nil
    <3>1. chunks' = [chunks EXCEPT ![c].pm.keys = Keys(c) \ {k}]
      BY <1>2, Zenon DEF Delete, Keys
    <3>2. StoreType
      BY Zenon DEF Types
    <3>3. /\ \A d \in Chunk \ {c} : chunks'[d] = chunks[d]
          /\ chunks'[c].pm # nil /\ chunks'[c].present = chunks[c].present
      BY <2>1, <3>1, <3>2, KeysSet, Zenon
    <3> QED
      BY <2>1, <3>3, Zenon
  <2>3. /\ repair' = nil <=> repair = nil
        /\ repair # nil => repair'.chunk = repair.chunk /\ repair'.waiting = repair.waiting
    BY <1>2, <1>a, IterationStays DEF Delete
  <2> QED
    BY <1>2, <1>a, <2>2, <2>3 DEF Delete, LocksHeld, locks, defrag
<1>3. ASSUME NEW c \in Chunk, SendDefrag(c) PROVE LocksHeld'
  BY <1>a, <1>3, Zenon DEF LocksHeld, SendDefrag, store, locks, iters, DefragState, MetaChunk,
         Setter, Iteration
<1>4. ASSUME DefragReceive PROVE LocksHeld'
  <2>1. CASE Panic
    BY <1>4, <2>1, Zenon DEF DefragReceive, Panic, LocksHeld, locks, defrag, iters
  <2>2. CASE ~Panic
    <3>1. defragmenter' = [defragmenter EXCEPT !.pc = "defragMutex",
                                               !.chunk = Head(defragChannel)]
      BY <1>4, <2>2, Zenon DEF DefragReceive
    <3>2. defragmenter'.pc = "defragMutex"
      BY <1>a, <3>1, Zenon DEF DefragState
    <3> QED
      BY <1>4, <2>2, <3>2, Zenon DEF DefragReceive, LocksHeld, locks, iters
  <2> QED
    BY <2>1, <2>2, Zenon
<1>5. ASSUME DefragLock PROVE LocksHeld'
  BY <1>a, <1>5, ZenonT(40) DEF LocksHeld, DefragLock, DefragMutexFree, store, iters, DefragState,
         MetaChunk, Setter, Iteration
<1>6. ASSUME DefragNew PROVE LocksHeld'
  <2> DEFINE c == defragmenter.chunk
             r == chunks[c].revision + 1
  <2>1. /\ \A d \in Chunk \ {c} : chunks'[d] = chunks[d]
        /\ chunks'[c].present = chunks[c].present
        /\ chunks'[c].pm = [rev |-> r, keys |-> {}] /\ chunks'[c].revision = r
    BY <1>6, <1>a, NewRevision, Zenon
  <2>2. chunks'[c].pm # nil
    <3>1. r \in Rev
      BY <1>a, <2>1 DEF MetaChunk
    <3>2. [rev |-> r, keys |-> {}] \in PM
      BY <3>1, Zenon DEF PM
    <3> QED
      BY <2>1, <3>2, Zenon
  <2>3. CASE chunks[c].pm = nil
    <3>1. /\ proc' = "panic" /\ UNCHANGED <<mutex, list, defragMutex, lock, repair>>
          /\ defragmenter' = defragmenter
      BY <1>6, <2>3, Zenon DEF DefragNew, Panic, locks, defrag, iters
    <3>2. \A d \in Chunk : /\ chunks'[d].present = chunks[d].present
                           /\ chunks'[d].present => chunks'[d].pm # nil
      BY <1>a, <2>1, <2>2, Zenon DEF LocksHeld
    <3>3. proc' # "up"
      BY <3>1, Zenon
    <3>4. repair # nil /\ repair.waiting => repair.chunk \in Chunk
      BY <1>a, Zenon DEF Iteration
    <3>5. defragmenter.pc # "copy"
      BY <1>6, Zenon DEF DefragNew
    <3> QED
      BY <1>a, <3>1, <3>2, <3>3, <3>4, <3>5, Zenon DEF LocksHeld
  <2>4. CASE chunks[c].pm # nil
    <3>1. chunks[c].present /\ lock[c] = "free" /\ proc = "up"
      BY <1>6, <1>a, <2>4, Zenon DEF DefragNew, Up, LocksHeld
    <3>2. /\ defragmenter' = [defragmenter EXCEPT !.pc = "copy", !.old = chunks[c].pm,
                                                  !.todo = OldPairs(chunks[c].pm, r)]
          /\ lock' = [lock EXCEPT ![c] = "defrag"]
          /\ UNCHANGED <<proc, mutex, list, defragMutex, iters>>
      BY <1>6, <2>4, Zenon DEF DefragNew, DefragLocked, iters
    <3>3. defragmenter'.pc = "copy" /\ defragmenter'.chunk = c /\ defragmenter'.old # nil
      BY <1>a, <2>4, <3>2, Zenon DEF DefragState
    <3>4. defragMutex[c] = "defrag"
      BY <1>6, Zenon DEF DefragNew, LocksHeld
    <3> QED
      BY <1>a, <2>1, <2>2, <3>1, <3>2, <3>3, <3>4, ZenonT(40) DEF LocksHeld, iters
  <2> QED
    BY <2>3, <2>4, Zenon
<1>7. ASSUME NEW k \in Key, DefragCopy(k) PROVE LocksHeld'
  <2> DEFINE c == defragmenter.chunk
  <2>1. chunks[c].pm # nil /\ Keys(c) \cup {k} \in SUBSET Key
    BY <1>7, <1>a, PMapType, Zenon DEF DefragCopy, LocksHeld, Types
  <2>2. /\ \A d \in Chunk : /\ chunks'[d].present = chunks[d].present
                            /\ chunks'[d].pm = nil <=> chunks[d].pm = nil
    BY <1>7, <1>a, <2>1, KeysSet, ZenonT(40) DEF DefragCopy, Keys, Types
  <2>3. /\ defragmenter'.pc = defragmenter.pc /\ defragmenter'.chunk = c
        /\ defragmenter'.old = defragmenter.old
    BY <1>7, <1>a, Zenon DEF DefragCopy, DefragState
  <2> QED
    BY <1>7, <1>a, <2>2, <2>3, ZenonT(40) DEF DefragCopy, LocksHeld, locks, iters
<1>8. ASSUME DefragEnd PROVE LocksHeld'
  BY <1>a, <1>8 DEF LocksHeld, DefragEnd, DefragUnlock, Closed, Reads, Idle,
         DefragState, MetaChunk, Setter, Iteration
<1>9. ASSUME Call PROVE LocksHeld'
  BY <1>a, <1>9 DEF LocksHeld, Call, CallSetter, LockMutex, NotListed, FreeStamp, store,
         defrag, iters, DefragState, MetaChunk, Setter, Iteration
<1>10. ASSUME ChunkSetPresent PROVE LocksHeld'
  BY <1>a, <1>10 DEF LocksHeld, ChunkSetPresent, Setting, Up, IsPresent, defrag, iters,
         DefragState, MetaChunk, Setter, Iteration
<1>11. ASSUME ChunkSetNoPresent PROVE LocksHeld'
  BY <1>a, <1>11 DEF LocksHeld, ChunkSetNoPresent, Setting, Up, Closed, Reads, defrag,
         iters, DefragState, MetaChunk, Setter, Iteration
<1>12. ASSUME ChunkSetProtected PROVE LocksHeld'
  <2>1. \A d \in Chunk : /\ chunks'[d].present = chunks[d].present
                         /\ chunks'[d].pm = chunks[d].pm
    BY <1>12, <1>a DEF ChunkSetProtected, Setting, MetaChunk
  <2> QED
    BY <1>12, <1>a, <2>1, Zenon DEF ChunkSetProtected, Setting, LocksHeld, defrag, iters
<1>13. ASSUME ProtectionExpires PROVE LocksHeld'
  BY <1>a, <1>13 DEF LocksHeld, ProtectionExpires, Setting, Up, defrag, iters,
         DefragState, MetaChunk, Setter, Iteration
<1>14. ASSUME NEW x \in timers, Wake(x) PROVE LocksHeld'
  BY <1>a, <1>14, Zenon DEF LocksHeld, Wake, LockMutex, NotListed, store, defrag, iters,
         DefragState, MetaChunk, Setter, Iteration
<1>15. ASSUME ListStart PROVE LocksHeld'
  BY <1>a, <1>15, Zenon DEF LocksHeld, ListStart, Panic, locks, defrag, iters, DefragState,
         MetaChunk, Setter, Iteration
<1>16. ASSUME ListNext \/ ListEnd PROVE LocksHeld'
  BY <1>a, <1>16, Zenon DEF LocksHeld, ListNext, ListEnd, store, defrag, iters, DefragState,
         MetaChunk, Setter, Iteration
<1>17. ASSUME NEW c \in Chunk, Iterate(c) PROVE LocksHeld'
  BY <1>a, <1>17, Zenon DEF LocksHeld, Iterate, store, locks, defrag, DefragState, MetaChunk,
         Setter, Iteration
<1>18. ASSUME IterateNext PROVE LocksHeld'
  BY <1>a, <1>18, Zenon DEF LocksHeld, IterateNext, Panic, Up, locks, defrag, iters,
         DefragState, MetaChunk, Setter, Iteration
<1>19. ASSUME NEW c \in Chunk, BackwardsIterate(c) PROVE LocksHeld'
  BY <1>a, <1>19, ZenonT(40) DEF LocksHeld, BackwardsIterate, Up, store, defrag, DefragState,
         MetaChunk, Setter, Iteration
<1>20. ASSUME BackwardsFirst PROVE LocksHeld'
  BY <1>a, <1>20 DEF LocksHeld, BackwardsFirst, Visiting, store, defrag, DefragState,
         MetaChunk, Setter, Iteration
<1>21. ASSUME BackwardsNext PROVE LocksHeld'
  <2>1. CASE Panic
    BY <1>21, <2>1, Zenon DEF BackwardsNext, Panic, LocksHeld, locks, defrag, iters
  <2>2. ASSUME NEW k \in repair.todo, repair' = Visited(repair, k),
               UNCHANGED <<proc, locks, defrag, transfer, timers>>
        PROVE  LocksHeld'
    <3>1. k \in Key
      BY <1>21, <1>a, Zenon DEF BackwardsNext, Iteration
    <3>2. repair # nil /\ repair' # nil /\ repair'.chunk = repair.chunk
          /\ repair'.waiting = repair.waiting
      BY <1>21, <1>a, <2>2, <3>1, IterationStays, Zenon DEF BackwardsNext
    <3> QED
      BY <1>21, <2>2, <3>2, Zenon DEF BackwardsNext, LocksHeld, locks, defrag
  <2>3. CASE /\ repair' = nil
             /\ defragMutex' = [defragMutex EXCEPT ![repair.chunk] = "free"]
             /\ UNCHANGED <<proc, mutex, list, lock, defrag, transfer, timers>>
    BY <1>21, <1>a, <2>3, Zenon DEF BackwardsNext, LocksHeld, defrag
  <2> QED
    BY <1>21, <2>1, <2>2, <2>3, Zenon DEF BackwardsNext
<1>22. ASSUME Close \/ Kill PROVE LocksHeld'
  BY <1>a, <1>22, Zenon DEF LocksHeld, Close, Kill, Up, locks, defrag, iters, DefragState,
         MetaChunk, Setter, Iteration
<1>23. ASSUME Open PROVE LocksHeld'
  <2>1. ASSUME NEW c \in Chunk
        PROVE  chunks'[c].present <=> chunks'[c].pm # nil
    BY <1>23, OpenChunkPresent, Zenon DEF Open, Types
  <2> QED
    BY <1>23, <2>1, Zenon DEF Open, Idle, LocksHeld
<1>24. ASSUME UNCHANGED vars PROVE LocksHeld'
  BY <1>a, <1>24, Zenon DEF LocksHeld, vars, store, locks, defrag, iters, DefragState,
         MetaChunk, Setter, Iteration
<1> QED
  BY <1>1, <1>2, <1>3, <1>4, <1>5, <1>6, <1>7, <1>8, <1>9, <1>10, <1>11, <1>12,
     <1>13, <1>14, <1>15, <1>16, <1>17, <1>18, <1>19, <1>20, <1>21, <1>22, <1>23, <1>24, Zenon
     DEF Next, Request, CAS, Defragmenter, Setters, StayDown

-----------------------------------------------------------------------------
(* Revisions                                                               *)

(* A message sent on the channel adds one to those of its chunk.           *)
LEMMA QueuedAppend ==
    ASSUME NEW q \in Seq(Chunk), NEW c \in Chunk, NEW d \in Chunk
    PROVE  Cardinality(Queued(Append(q, d), c)) =
               Cardinality(Queued(q, c)) + (IF d = c THEN 1 ELSE 0)
<1>1. IsFiniteSet(Queued(q, c)) /\ Len(q) + 1 \notin Queued(q, c)
  BY QueuedFinite
<1>2. Cardinality(Queued(q, c)) \in Nat
  BY <1>1, FS_CardinalityType, Zenon
<1>3. Queued(Append(q, d), c) = IF d = c THEN Queued(q, c) \cup {Len(q) + 1} ELSE Queued(q, c)
  BY DEF Queued
<1>4. CASE d = c
  BY <1>1, <1>3, <1>4, FS_AddElement, Zenon
<1>5. CASE d # c
  BY <1>2, <1>3, <1>5
<1> QED
  BY <1>4, <1>5, Zenon

(* The message received is one less of its chunk.                          *)
LEMMA QueuedTail ==
    ASSUME NEW q \in Seq(Chunk), q # <<>>, NEW c \in Chunk
    PROVE  Cardinality(Queued(Tail(q), c)) + (IF Head(q) = c THEN 1 ELSE 0)
               <= Cardinality(Queued(q, c))
<1> DEFINE S == Queued(Tail(q), c)
           T == Queued(q, c)
           f == [i \in S |-> i + 1]
<1>1. Tail(q) \in Seq(Chunk) /\ Len(q) \in Nat /\ Len(q) > 0
  OBVIOUS
<1>2. IsFiniteSet(T) /\ T \subseteq 1 .. Len(q) /\ IsFiniteSet(S) /\ S \subseteq 1 .. Len(Tail(q))
  BY <1>1, QueuedFinite, Zenon
<1>3. ASSUME NEW i \in S PROVE i \in Nat /\ i + 1 \in T \ {1}
  BY <1>1, <1>2 DEF Queued
<1>4. f \in Injection(S, T \ {1})
  <2>1. f \in [S -> T \ {1}]
    BY <1>3, Zenon
  <2>2. \A a, b \in S : f[a] = f[b] => a = b
    BY <1>3
  <2> QED
    BY <2>1, <2>2, Zenon DEF Injection, IsInjective
<1>5. IsFiniteSet(T \ {1})
      /\ Cardinality(T \ {1}) = IF 1 \in T THEN Cardinality(T) - 1 ELSE Cardinality(T)
  BY <1>2, FS_RemoveElement, Zenon
<1> HIDE DEF f
<1>6. Cardinality(S) <= Cardinality(T \ {1})
  BY <1>4, <1>5, FS_Injection, Zenon
<1>7. Head(q) = c => 1 \in T
  BY <1>1 DEF Queued
<1>8. Cardinality(S) \in Nat /\ Cardinality(T) \in Nat
  BY <1>2, FS_CardinalityType, Zenon
<1> HIDE DEF S, T
<1> QED
  <2>1. Cardinality(S) + (IF Head(q) = c THEN 1 ELSE 0) <= Cardinality(T)
    BY <1>5, <1>6, <1>7, <1>8
  <2> QED
    BY <2>1, Zenon DEF S, T

(* A step that changes neither a revision nor what is asked for.           *)
LEMMA RevisionsSame ==
    ASSUME RevisionsLeft, UNCHANGED defrag, proc' = "up" => proc = "up",
           \A c \in Chunk : chunks'[c].revision = chunks[c].revision
    PROVE  RevisionsLeft'
BY Zenon DEF RevisionsLeft, Asked, Pending, Queued, defrag

(* No more defragmentations are asked for than there are revisions left.   *)
LEMMA NextRevisions == Types /\ Types' /\ LocksHeld /\ RevisionsLeft /\ [Next]_vars => RevisionsLeft'
<1> SUFFICES ASSUME Types, Types', LocksHeld, RevisionsLeft, [Next]_vars PROVE RevisionsLeft'
  BY Zenon
<1> USE CoreAssumption
<1>a. /\ chunks \in [Chunk -> MetaChunk] /\ chunks' \in [Chunk -> MetaChunk]
      /\ defragmenter \in DefragState /\ defragmenter.chunk \in Chunk
      /\ mutex # nil => mutex.chunk \in Chunk
      /\ defragChannel \in Seq(Chunk)
  BY Zenon DEF Types, StoreType, LockType, DefragType, DefragState, Setter
<1>b. ASSUME NEW c \in Chunk
      PROVE  /\ chunks[c].revision \in Nat /\ chunks'[c].revision \in Nat
             /\ Cardinality(Queued(defragChannel, c)) \in Nat
             /\ Asked(c) \in {0, 1} /\ Asked(c)' \in {0, 1}
             /\ Pending(c) \in {0, 1} /\ Pending(c)' \in {0, 1}
  <2>1. chunks[c].revision \in Nat /\ chunks'[c].revision \in Nat
    BY <1>a DEF MetaChunk, Rev
  <2>2. Cardinality(Queued(defragChannel, c)) \in Nat
    BY <1>a, QueuedFinite, FS_CardinalityType, Zenon
  <2> QED
    BY <2>1, <2>2, Zenon DEF Asked, Pending
<1>c. ASSUME NEW c \in Chunk, proc = "up"
      PROVE  chunks[c].revision + Cardinality(Queued(defragChannel, c))
                 + Asked(c) + Pending(c) <= MaxRev
  BY <1>c, Zenon DEF RevisionsLeft
<1>d. ASSUME NEW c \in Chunk, NEW ks, chunks[c].present,
             chunks' = [chunks EXCEPT ![c].pm.keys = ks]
      PROVE  \A d \in Chunk : chunks'[d].revision = chunks[d].revision
  <2>1. chunks'[c] = [chunks[c] EXCEPT !.pm = [chunks[c].pm EXCEPT !.keys = ks]]
    BY <1>a, <1>d, Zenon
  <2>2. chunks'[c].revision = chunks[c].revision
    <3>1. chunks[c] \in MetaChunk
      BY <1>a, Zenon
    <3> QED
      BY <2>1, <3>1, Zenon DEF MetaChunk
  <2> QED
    BY <1>a, <1>d, <2>2, Zenon
<1>1. ASSUME NEW c \in Chunk, NEW k \in Key, Set(c, k) PROVE RevisionsLeft'
  <2>1. chunks[c].present /\ chunks' = [chunks EXCEPT ![c].pm.keys = Keys(c) \cup {k}]
    BY <1>1, Zenon DEF Set, Keys
  <2> QED
    BY <1>1, <1>d, <2>1, RevisionsSame, Zenon DEF Set
<1>2. ASSUME NEW c \in Chunk, NEW k \in Key, Delete(c, k) PROVE RevisionsLeft'
  <2>1. chunks[c].present /\ chunks' = [chunks EXCEPT ![c].pm.keys = Keys(c) \ {k}]
    BY <1>2, Zenon DEF Delete, Keys
  <2>2. \A d \in Chunk : chunks'[d].revision = chunks[d].revision
    BY <1>d, <2>1, Zenon
  <2>3. CASE UNCHANGED sending
    BY <1>2, <2>2, <2>3, RevisionsSame, Zenon DEF Delete, defrag
  <2>4. CASE MayAsk(c) /\ sending' = sending \cup {c}
    <3>1. proc = "up" /\ UNCHANGED <<proc, defragChannel, defragmenter>>
      BY <1>2, Zenon DEF Delete, Up
    <3>2. \A d \in Chunk : Pending(d)' = Pending(d)
      BY <3>1, Zenon DEF Pending
    <3>3. \A d \in Chunk \ {c} : Asked(d)' = Asked(d)
      BY <2>4, Zenon DEF Asked
    <3>4. chunks[c].revision + Cardinality(Queued(defragChannel, c)) + Pending(c) < MaxRev
      <4>1. chunks[c].revision + Cardinality(Queued(defragChannel, c))
              + (IF defragmenter.pc # "receive" /\ defragmenter.chunk = c THEN 1 ELSE 0)
              < MaxRev
        BY <2>4, Zenon DEF MayAsk, Queued
      <4>2. Pending(c) <= IF defragmenter.pc # "receive" /\ defragmenter.chunk = c
                          THEN 1 ELSE 0
        BY DEF Pending
      <4> QED
        BY <1>b, <4>1, <4>2
    <3> SUFFICES ASSUME NEW d \in Chunk
                 PROVE  chunks'[d].revision + Cardinality(Queued(defragChannel', d))
                            + Asked(d)' + Pending(d)' <= MaxRev
      BY Zenon DEF RevisionsLeft
    <3>5. CASE d = c
      BY <1>b, <2>2, <3>1, <3>2, <3>4, <3>5
    <3>6. CASE d # c
      BY <1>b, <1>c, <2>2, <3>1, <3>2, <3>3, <3>6, Zenon
    <3> QED
      BY <3>5, <3>6, Zenon
  <2> QED
    BY <1>2, <2>3, <2>4, Zenon DEF Delete
<1>3. ASSUME NEW c \in Chunk, SendDefrag(c) PROVE RevisionsLeft'
  <2>1. /\ proc = "up" /\ c \in sending /\ sending' = sending \ {c}
        /\ defragChannel' = Append(defragChannel, c)
        /\ UNCHANGED <<chunks, defragmenter>>
    BY <1>3, Zenon DEF SendDefrag, store
  <2> SUFFICES ASSUME NEW d \in Chunk
               PROVE  chunks'[d].revision + Cardinality(Queued(defragChannel', d))
                          + Asked(d)' + Pending(d)' <= MaxRev
    BY Zenon DEF RevisionsLeft
  <2>2. Asked(d)' = Asked(d) - (IF d = c THEN 1 ELSE 0) /\ Pending(d)' = Pending(d)
    BY <2>1 DEF Asked, Pending
  <2>3. Cardinality(Queued(defragChannel', d)) =
            Cardinality(Queued(defragChannel, d)) + (IF c = d THEN 1 ELSE 0)
    BY <1>a, <2>1, QueuedAppend, Zenon
  <2> QED
    BY <1>b, <1>c, <2>1, <2>2, <2>3, SMTT(30)
<1>4. ASSUME DefragReceive PROVE RevisionsLeft'
  <2>1. CASE Panic
    BY <2>1, Zenon DEF Panic, RevisionsLeft
  <2>2. CASE ~Panic
    <3>1. /\ proc = "up" /\ defragmenter.pc = "receive" /\ defragChannel # <<>>
          /\ defragChannel' = Tail(defragChannel)
          /\ defragmenter' = [defragmenter EXCEPT !.pc = "defragMutex",
                                                  !.chunk = Head(defragChannel)]
          /\ UNCHANGED <<chunks, sending>>
      BY <1>4, <2>2, Zenon DEF DefragReceive
    <3> SUFFICES ASSUME NEW d \in Chunk
                 PROVE  chunks'[d].revision + Cardinality(Queued(defragChannel', d))
                            + Asked(d)' + Pending(d)' <= MaxRev
      BY Zenon DEF RevisionsLeft
    <3>2. Pending(d) = 0 /\ Asked(d)' = Asked(d)
      BY <3>1, Zenon DEF Asked, Pending
    <3>3. Pending(d)' = IF Head(defragChannel) = d THEN 1 ELSE 0
      BY <1>a, <3>1, Zenon DEF Pending, DefragState
    <3>4. Cardinality(Queued(defragChannel', d)) + (IF Head(defragChannel) = d THEN 1 ELSE 0)
              <= Cardinality(Queued(defragChannel, d))
      BY <1>a, <3>1, QueuedTail, Zenon
    <3>5. Cardinality(Queued(defragChannel', d)) \in Nat
      <4>1. defragChannel' \in Seq(Chunk)
        BY Zenon DEF Types, DefragType
      <4> QED
        BY <4>1, QueuedFinite, FS_CardinalityType, Zenon
    <3>6. /\ chunks[d].revision \in Nat /\ Cardinality(Queued(defragChannel, d)) \in Nat
          /\ Asked(d) \in {0, 1}
          /\ chunks[d].revision + Cardinality(Queued(defragChannel, d))
                + Asked(d) + Pending(d) <= MaxRev
      BY <1>b, <1>c, <3>1, Zenon
    <3>7. UNCHANGED chunks
      BY <3>1, Zenon
    <3> QED
      BY <3>2, <3>3, <3>4, <3>5, <3>6, <3>7
  <2> QED
    BY <2>1, <2>2, Zenon
<1>5. ASSUME DefragLock PROVE RevisionsLeft'
  <2>1. \A d \in Chunk : Pending(d)' = Pending(d) /\ Asked(d)' = Asked(d)
    BY <1>5, <1>a, Zenon DEF DefragLock, Pending, Asked, DefragState
  <2> QED
    BY <1>5, <1>c, <2>1, Zenon DEF DefragLock, RevisionsLeft, store
<1>6. ASSUME DefragNew PROVE RevisionsLeft'
  <2> DEFINE c == defragmenter.chunk
  <2>1. CASE chunks[c].pm = nil
    BY <1>6, <2>1, Zenon DEF DefragNew, Panic, RevisionsLeft
  <2>2. CASE chunks[c].pm # nil
    <3>1. /\ proc = "up" /\ UNCHANGED <<defragChannel, sending>>
          /\ defragmenter' = [defragmenter EXCEPT !.pc = "copy", !.old = chunks[c].pm,
                                 !.todo = OldPairs(chunks[c].pm, chunks[c].revision + 1)]
      BY <1>6, <2>2, Zenon DEF DefragNew, Up
    <3>2. /\ \A d \in Chunk \ {c} : chunks'[d] = chunks[d]
          /\ chunks'[c].revision = chunks[c].revision + 1
      BY <1>6, <1>a, NewRevision, Zenon
    <3>3. Pending(c) = 1
      BY <1>6, Zenon DEF DefragNew, Pending
    <3>4. \A d \in Chunk : Pending(d)' = 0 /\ Asked(d)' = Asked(d)
      BY <1>a, <3>1, Zenon DEF Pending, Asked, DefragState
    <3> SUFFICES ASSUME NEW d \in Chunk
                 PROVE  chunks'[d].revision + Cardinality(Queued(defragChannel', d))
                            + Asked(d)' + Pending(d)' <= MaxRev
      BY Zenon DEF RevisionsLeft
    <3>5. CASE d = c
      BY <1>b, <1>c, <3>1, <3>2, <3>3, <3>4, <3>5
    <3>6. CASE d # c
      BY <1>b, <1>c, <3>1, <3>2, <3>4, <3>6
    <3> QED
      BY <3>5, <3>6, Zenon
  <2> QED
    BY <2>1, <2>2, Zenon
<1>7. ASSUME NEW k \in Key, DefragCopy(k) PROVE RevisionsLeft'
  <2> DEFINE c == defragmenter.chunk
  <2>1. chunks[c].present /\ chunks' = [chunks EXCEPT ![c].pm.keys = Keys(c) \cup {k}]
    BY <1>7, Zenon DEF DefragCopy, Keys, LocksHeld
  <2>2. \A d \in Chunk : chunks'[d].revision = chunks[d].revision
    BY <1>a, <1>d, <2>1, Zenon
  <2>3. \A d \in Chunk : Pending(d)' = Pending(d) /\ Asked(d)' = Asked(d)
    BY <1>7, <1>a, Zenon DEF DefragCopy, Pending, Asked, DefragState
  <2> QED
    BY <1>7, <1>c, <2>2, <2>3, Zenon DEF DefragCopy, RevisionsLeft
<1>8. ASSUME DefragEnd PROVE RevisionsLeft'
  <2>1. \A d \in Chunk : Pending(d)' = Pending(d) /\ Asked(d)' = Asked(d)
    BY <1>8, <1>a, Zenon DEF DefragEnd, Pending, Asked, Idle
  <2> QED
    BY <1>8, <1>c, <2>1, Zenon DEF DefragEnd, RevisionsLeft
<1>9. ASSUME Call \/ \E x \in timers : Wake(x) PROVE RevisionsLeft'
  BY <1>9, RevisionsSame, Zenon DEF Call, CallSetter, Wake, LockMutex, store
<1>10. ASSUME Setters PROVE RevisionsLeft'
  <2>1. \A d \in Chunk : chunks'[d].revision = chunks[d].revision
    BY <1>10, <1>a, SettersKeep, Zenon
  <2> QED
    BY <1>10, <2>1, RevisionsSame, Zenon
       DEF Setters, ChunkSetPresent, ChunkSetNoPresent, ChunkSetProtected,
           ProtectionExpires, Setting
<1>11. ASSUME ListStart \/ ListNext \/ ListEnd PROVE RevisionsLeft'
  BY <1>11, RevisionsSame, Zenon DEF ListStart, ListNext, ListEnd, Panic, store
<1>12. ASSUME IterateNext \/ \E c \in Chunk : Iterate(c) PROVE RevisionsLeft'
  BY <1>12, RevisionsSame, Zenon DEF Iterate, IterateNext, Panic, store
<1>13. ASSUME BackwardsFirst \/ BackwardsNext \/ \E c \in Chunk : BackwardsIterate(c)
       PROVE  RevisionsLeft'
  BY <1>13, RevisionsSame, Zenon DEF BackwardsIterate, BackwardsFirst, BackwardsNext, Panic, store
<1>14. ASSUME Close \/ Kill PROVE RevisionsLeft'
  BY <1>14, RevisionsSame, Zenon DEF Close, Kill
<1>15. ASSUME Open PROVE RevisionsLeft'
  <2> SUFFICES ASSUME NEW c \in Chunk
               PROVE  chunks'[c].revision + Cardinality(Queued(defragChannel', c))
                          + Asked(c)' + Pending(c)' <= MaxRev
    BY Zenon DEF RevisionsLeft
  <2>1. Queued(defragChannel', c) = {}
    BY <1>15 DEF Open, Queued
  <2>2. Asked(c)' = 0 /\ Pending(c)' = 0
    BY <1>15, Zenon DEF Open, Asked, Pending, Idle
  <2>3. chunks'[c].revision = 0
    BY <1>15, Zenon DEF Open, OpenChunk, NewMetaChunk
  <2> QED
    BY <2>1, <2>2, <2>3, FS_EmptySet
<1>16. CASE UNCHANGED vars
  BY <1>16, RevisionsSame, Zenon DEF vars, store
<1> QED
  BY <1>1, <1>2, <1>3, <1>4, <1>5, <1>6, <1>7, <1>8, <1>9, <1>10, <1>11, <1>12,
     <1>13, <1>14, <1>15, <1>16, Zenon
     DEF Next, Request, CAS, Defragmenter, StayDown

-----------------------------------------------------------------------------
(* Pairs and files                                                         *)

(* A step that leaves the PMap, the files and the defragmentation of a     *)
(* chunk alone.                                                            *)
LEMMA KeptSame ==
    ASSUME NEW c \in Chunk, Kept(c), proc' = "up" => proc = "up",
           chunks'[c].present = chunks[c].present, chunks'[c].pm = chunks[c].pm,
           chunks'[c].revision = chunks[c].revision,
           file'[c] = file[c], acked'[c] = acked[c], Copying(c)' <=> Copying(c),
           Copying(c) => defragmenter' = defragmenter
    PROVE  Kept(c)'
<1>1. Files(c)' = Files(c) /\ Keys(c)' = Keys(c)
  BY Zenon DEF Files, Keys
<1> QED
  BY <1>1, Zenon DEF Kept

(* Writing to the file of a PMap that is in the directory.                 *)
LEMMA WrittenEffect ==
    ASSUME StoreType, NEW c \in Chunk, chunks[c].pm \in PM, NEW ks \in SUBSET Key,
           file[c][chunks[c].pm.rev] # nil, file' = Written(c, ks)
    PROVE  /\ \A d \in Chunk \ {c} : file'[d] = file[d]
           /\ file'[c][chunks[c].pm.rev] = ks
           /\ \A r \in Rev : r # chunks[c].pm.rev => file'[c][r] = file[c][r]
           /\ Files(c)' = Files(c)
<1> DEFINE r == chunks[c].pm.rev
<1>1. r \in Rev
  BY Zenon DEF PM
<1>2. file' = [file EXCEPT ![c][r] = ks]
  BY Zenon DEF Written
<1>3. /\ \A d \in Chunk \ {c} : file'[d] = file[d]
      /\ file'[c] = [file[c] EXCEPT ![r] = ks] /\ file[c] \in [Rev -> (SUBSET Key) \cup {nil}]
  BY <1>2, Zenon DEF StoreType
<1>4. file'[c][r] = ks /\ \A q \in Rev : q # r => file'[c][q] = file[c][q]
  BY <1>1, <1>3, Zenon
<1>5. Files(c)' = Files(c)
  <2>1. ASSUME NEW q \in Rev PROVE file'[c][q] = nil <=> file[c][q] = nil
    BY <1>1, <1>4, CoreAssumption, Zenon
  <2> QED
    BY <2>1, Zenon DEF Files
<1> QED
  BY <1>3, <1>4, <1>5, Zenon

(* A request to a chunk whose lock is free changes its PMap, its file and  *)
(* what is acknowledged alike.                                             *)
LEMMA RequestKept ==
    ASSUME Types, LocksHeld, NEW c \in Chunk, NEW ks \in SUBSET Key, Kept(c), Up(c),
           chunks[c].present, chunks' = [chunks EXCEPT ![c].pm.keys = ks],
           file' = Written(c, ks), acked'[c] = ks, UNCHANGED <<proc, defragmenter>>
    PROVE  Kept(c)'
<1>1. chunks[c].pm # nil /\ StoreType
  BY Zenon DEF LocksHeld, Types
<1>2. chunks[c].pm \in PM /\ Keys(c) \in SUBSET Key
  BY <1>1, PMapType, Zenon
<1>3. ~Copying(c) /\ ~Copying(c)'
  BY Zenon DEF Copying, LocksHeld, Up
<1>4. /\ chunks[c].pm.rev <= chunks[c].revision /\ Files(c) = {chunks[c].pm.rev}
      /\ file[c][chunks[c].pm.rev] # nil
  BY <1>2, <1>3, CoreAssumption, Zenon DEF Kept
<1>5. /\ chunks'[c].pm = [rev |-> chunks[c].pm.rev, keys |-> ks]
      /\ chunks'[c].present = chunks[c].present
      /\ chunks'[c].revision = chunks[c].revision
  BY <1>1, KeysSet, Zenon
<1>6. Keys(c)' = ks /\ chunks'[c].pm.rev = chunks[c].pm.rev
  BY <1>5 DEF Keys
<1>7. file'[c][chunks[c].pm.rev] = ks /\ Files(c)' = Files(c)
  BY <1>1, <1>2, <1>4, WrittenEffect, Zenon
<1> QED
  BY <1>3, <1>4, <1>5, <1>6, <1>7, Zenon DEF Kept

(* A step that leaves the PMaps, the files and the copying alone.          *)
LEMMA PairsSame ==
    ASSUME PairsKept, UNCHANGED <<opened, chunks, file, acked>>,
           proc' = "up" => proc = "up",
           \/ UNCHANGED defragmenter
           \/ defragmenter.pc # "copy" /\ defragmenter'.pc # "copy"
    PROVE  PairsKept'
<1> SUFFICES ASSUME ~opened, NEW c \in Chunk PROVE Kept(c)'
  BY Zenon DEF PairsKept
<1>1. Kept(c)
  BY Zenon DEF PairsKept
<1>2. /\ Copying(c)' <=> Copying(c)
      /\ Copying(c) => defragmenter' = defragmenter
  BY Zenon DEF Copying
<1> QED
  BY <1>1, <1>2, KeptSame, Zenon

(* A file created or removed.                                              *)
LEMMA FileCreated ==
    ASSUME StoreType, NEW c \in Chunk, NEW r \in Rev, file' = [file EXCEPT ![c][r] = {}]
    PROVE  /\ \A d \in Chunk \ {c} : file'[d] = file[d]
           /\ file'[c][r] = {} /\ \A q \in Rev : q # r => file'[c][q] = file[c][q]
           /\ Files(c)' = Files(c) \cup {r}
<1>1. /\ \A d \in Chunk \ {c} : file'[d] = file[d]
      /\ file'[c] = [file[c] EXCEPT ![r] = {}] /\ file[c] \in [Rev -> (SUBSET Key) \cup {nil}]
  BY Zenon DEF StoreType
<1>2. file'[c][r] = {} /\ \A q \in Rev : q # r => file'[c][q] = file[c][q]
  BY <1>1, ZenonT(40)
<1>3. nil # {}
  BY CoreAssumption, Zenon
<1> QED
  BY <1>1, <1>2, <1>3, Zenon DEF Files

(* Removing the file of one revision leaves the others.                    *)
LEMMA FileRemoved ==
    ASSUME StoreType, NEW c \in Chunk, NEW r \in Rev, file' = [file EXCEPT ![c][r] = nil]
    PROVE  /\ \A d \in Chunk \ {c} : file'[d] = file[d]
           /\ \A q \in Rev : q # r => file'[c][q] = file[c][q]
           /\ Files(c)' = Files(c) \ {r}
<1>1. /\ \A d \in Chunk \ {c} : file'[d] = file[d]
      /\ file'[c] = [file[c] EXCEPT ![r] = nil] /\ file[c] \in [Rev -> (SUBSET Key) \cup {nil}]
  BY Zenon DEF StoreType
<1>2. file'[c][r] = nil /\ \A q \in Rev : q # r => file'[c][q] = file[c][q]
  BY <1>1, ZenonT(40)
<1> QED
  BY <1>1, <1>2, Zenon DEF Files

(* Every step keeps the acknowledged pairs.                                *)
LEMMA NextPairs ==
    Types /\ Types' /\ LocksHeld /\ PairsKept /\ [Next]_vars => PairsKept'
<1> SUFFICES ASSUME Types, Types', LocksHeld, PairsKept, [Next]_vars PROVE PairsKept'
  BY Zenon
<1> USE CoreAssumption
<1>a. /\ StoreType /\ chunks \in [Chunk -> MetaChunk] /\ acked \in [Chunk -> SUBSET Key]
      /\ defragmenter \in DefragState /\ defragmenter.chunk \in Chunk
      /\ mutex # nil => mutex.chunk \in Chunk
  BY Zenon DEF Types, StoreType, LockType, DefragType, DefragState, Setter
<1>b. ASSUME NEW c \in Chunk, chunks[c].present
      PROVE  chunks[c].pm # nil /\ chunks[c].pm \in PM /\ Keys(c) \in SUBSET Key
  BY <1>a, <1>b, PMapType, Zenon DEF LocksHeld
<1>c. ASSUME NEW c \in Chunk, ~opened PROVE Kept(c)
  BY <1>c, Zenon DEF PairsKept
<1>d. ASSUME NEW c \in Chunk, Up(c) PROVE ~Copying(c)
  BY <1>d, Zenon DEF Up, Copying, LocksHeld
<1>1. ASSUME NEW c \in Chunk, NEW k \in Key, Set(c, k) \/ Delete(c, k) PROVE PairsKept'
  <2> SUFFICES ASSUME ~opened, NEW d \in Chunk PROVE Kept(d)'
    BY <1>1, Zenon DEF PairsKept, Set, Delete
  <2>1. Up(c) /\ chunks[c].present
    BY <1>1, Zenon DEF Set, Delete
  <2>2. Keys(c) = acked[c]
    BY <1>c, <1>d, <2>1, Zenon DEF Kept
  <2>3. PICK ks \in SUBSET Key : /\ chunks' = [chunks EXCEPT ![c].pm.keys = ks]
                                 /\ file' = Written(c, ks)
                                 /\ acked' = [acked EXCEPT ![c] = ks]
    <3>1. CASE Set(c, k)
      <4>1. Keys(c) \cup {k} \in SUBSET Key
        BY <1>b, <2>1, Zenon
      <4>2. /\ chunks' = [chunks EXCEPT ![c].pm.keys = Keys(c) \cup {k}]
            /\ file' = Written(c, Keys(c) \cup {k})
            /\ acked' = [acked EXCEPT ![c] = Keys(c) \cup {k}]
        BY <2>2, <3>1, Zenon DEF Set, Keys
      <4> QED
        BY <4>1, <4>2, Zenon
    <3>2. CASE Delete(c, k)
      <4>1. Keys(c) \ {k} \in SUBSET Key
        BY <1>b, <2>1, Zenon
      <4>2. /\ chunks' = [chunks EXCEPT ![c].pm.keys = Keys(c) \ {k}]
            /\ file' = Written(c, Keys(c) \ {k})
            /\ acked' = [acked EXCEPT ![c] = Keys(c) \ {k}]
        BY <2>2, <3>2, Zenon DEF Delete, Keys
      <4> QED
        BY <4>1, <4>2, Zenon
    <3> QED
      BY <1>1, <3>1, <3>2, Zenon
  <2>4. UNCHANGED <<proc, defragmenter>>
    BY <1>1, Zenon DEF Set, Delete, defrag
  <2>5. CASE d = c
    <3>1. acked'[c] = ks
      BY <1>a, <2>3, Zenon
    <3> QED
      BY <1>c, <2>1, <2>3, <2>4, <2>5, <3>1, RequestKept, Zenon
  <2>6. CASE d # c
    <3>1. chunks'[d] = chunks[d]
      BY <1>a, <1>b, <2>1, <2>3, <2>6, KeysSet, Zenon
    <3>2. file[c][chunks[c].pm.rev] # nil
      BY <1>b, <1>c, <2>1, Zenon DEF Kept
    <3>3. file'[d] = file[d]
      BY <1>a, <1>b, <2>1, <2>3, <2>6, <3>2, WrittenEffect
    <3>4. acked'[d] = acked[d]
      BY <1>a, <2>3, <2>6, Zenon
    <3>5. Copying(d)' <=> Copying(d)
      BY <2>4, Zenon DEF Copying
    <3> QED
      BY <1>c, <2>4, <3>1, <3>3, <3>4, <3>5, KeptSame, Zenon
  <2> QED
    BY <2>5, <2>6, Zenon
<1>2. ASSUME NEW c \in Chunk, SendDefrag(c) PROVE PairsKept'
  BY <1>2, PairsSame, Zenon DEF SendDefrag, store
<1>3. ASSUME DefragReceive \/ DefragLock PROVE PairsKept'
  <2>1. UNCHANGED <<opened, chunks, file, acked>> /\ (proc' = "up" => proc = "up")
    BY <1>3, Zenon DEF DefragReceive, DefragLock, store
  <2>2. \/ UNCHANGED defragmenter
        \/ defragmenter.pc # "copy" /\ defragmenter'.pc # "copy"
    BY <1>3, <1>a, Zenon DEF DefragReceive, DefragLock, Panic, defrag, DefragState
  <2> QED
    BY <2>1, <2>2, PairsSame, Zenon
<1>4. ASSUME DefragNew PROVE PairsKept'
  <2>0. PICK c \in Chunk : c = defragmenter.chunk
    BY <1>a, Zenon
  <2> USE <2>0
  <2> DEFINE r == chunks[c].revision + 1
  <2> SUFFICES ASSUME ~opened, NEW d \in Chunk PROVE Kept(d)'
    BY <1>4, Zenon DEF PairsKept, DefragNew
  <2>1. /\ \A e \in Chunk \ {c} : chunks'[e] = chunks[e]
        /\ chunks'[c].present = chunks[c].present
        /\ chunks'[c].pm = [rev |-> r, keys |-> {}] /\ chunks'[c].revision = r
    BY <1>4, <1>a, NewRevision, Zenon
  <2>2. r \in Rev
    <3>1. chunks'[c] \in MetaChunk
      BY <2>0, Zenon DEF Types, StoreType
    <3>2. chunks'[c].revision \in Rev
      BY <3>1, Zenon DEF MetaChunk
    <3> QED
      BY <2>1, <3>2, Zenon
  <2>3. file' = [file EXCEPT ![c][r] = {}] /\ UNCHANGED acked
    BY <1>4, Zenon DEF DefragNew, NewFile
  <2>4. /\ \A e \in Chunk \ {c} : file'[e] = file[e]
        /\ file'[c][r] = {} /\ (\A q \in Rev : q # r => file'[c][q] = file[c][q])
        /\ Files(c)' = Files(c) \cup {r}
    <3>1. PICK x \in Rev : x = r
      BY <2>2, Zenon
    <3>2. file' = [file EXCEPT ![c][x] = {}]
      BY <2>3, <3>1, Zenon
    <3> HIDE DEF r
    <3>3. /\ \A e \in Chunk \ {c} : file'[e] = file[e]
          /\ \A q \in Rev : q # x => file'[c][q] = file[c][q]
          /\ file'[c][x] = {} /\ Files(c)' = Files(c) \cup {x}
      <4>1. StoreType /\ c \in Chunk /\ x \in Rev
        BY <1>a, <3>1, Zenon
      <4> HIDE CoreAssumption, <2>0
      <4> QED
        BY <4>1, <3>2, FileCreated, Zenon
    <3> QED
      BY <2>2, <3>1, <3>3, Zenon
  <2>5. Up(c) /\ defragmenter.pc = "lock" /\ (proc' = "up" => proc = "up")
    BY <1>4, Zenon DEF DefragNew, Up
  <2>6. CASE d # c
    <3>1. Copying(d)' <=> Copying(d)
      <4>1. ~Copying(d)
        BY <2>5, Zenon DEF Copying
      <4>2. defragmenter' = defragmenter \/ defragmenter'.chunk = c
        BY <1>4, <1>a, Zenon DEF DefragNew, Panic, defrag, DefragState
      <4> QED
        BY <2>5, <2>6, <4>1, <4>2, Zenon DEF Copying
    <3>2. ~Copying(d)
      BY <2>5, Zenon DEF Copying
    <3> QED
      BY <1>c, <2>1, <2>3, <2>4, <2>5, <2>6, <3>1, <3>2, KeptSame, Zenon
  <2>7. CASE d = c /\ chunks[c].pm = nil
    <3>1. ~chunks'[c].present /\ proc' = "panic"
      BY <1>4, <1>a, <2>1, <2>7, Zenon DEF DefragNew, Panic, LocksHeld
    <3> QED
      BY <2>7, <3>1, Zenon DEF Kept
  <2>8. CASE d = c /\ chunks[c].pm # nil
    <3>1. chunks[c].present
      BY <1>a, <2>5, <2>8, Zenon DEF LocksHeld, Up
    <3>2. /\ chunks[c].pm.rev <= chunks[c].revision
          /\ file[c][chunks[c].pm.rev] = Keys(c)
          /\ Keys(c) = acked[c] /\ Files(c) = {chunks[c].pm.rev}
      BY <1>a, <1>c, <1>d, <2>5, <3>1, Zenon DEF Kept
    <3>3. chunks[c].pm.rev \in Rev /\ chunks[c].pm.rev < r /\ chunks[c].revision \in Nat
      <4>1. chunks[c].pm \in PM /\ chunks[c] \in MetaChunk
        BY <1>a, <1>b, <3>1, Zenon
      <4>2. chunks[c].pm.rev \in Rev /\ chunks[c].revision \in Rev
        BY <4>1, Zenon DEF PM, MetaChunk
      <4>3. \A a, b \in Rev : a <= b => a < b + 1 /\ b \in Nat
        BY DEF Rev
      <4> QED
        BY <3>2, <4>2, <4>3, Zenon
    <3>4. defragmenter' = [defragmenter EXCEPT !.pc = "copy", !.old = chunks[c].pm,
                                               !.todo = OldPairs(chunks[c].pm, r)]
      BY <1>4, <2>8, Zenon DEF DefragNew
    <3>5. /\ Copying(c)' /\ defragmenter'.old = chunks[c].pm
          /\ defragmenter'.todo = OldPairs(chunks[c].pm, r)
      BY <1>a, <3>4, Zenon DEF Copying, DefragState
    <3>6. defragmenter'.todo = Keys(c)
      BY <3>3, <3>5 DEF OldPairs, Keys, Rev
    <3>7. Keys(c)' = {} /\ chunks'[c].pm.rev = r
      BY <2>1 DEF Keys
    <3>8. file'[c][chunks[c].pm.rev] = acked[c]
      BY <2>2, <2>4, <3>2, <3>3, SMTT(30) DEF Rev
    <3> HIDE DEF r
    <3>9. /\ chunks'[c].present /\ chunks'[c].pm.rev <= chunks'[c].revision
          /\ file'[c][chunks'[c].pm.rev] = Keys(c)'
          /\ defragmenter'.old.rev < chunks'[c].pm.rev
      BY <2>1, <2>2, <2>4, <3>1, <3>3, <3>5, <3>7, SMTT(30) DEF Rev
    <3>10. /\ Keys(c)' \cup defragmenter'.todo = acked'[c]
           /\ Files(c)' = {defragmenter'.old.rev, chunks'[c].pm.rev}
           /\ file'[c][defragmenter'.old.rev] = acked'[c]
      BY <2>3, <2>4, <3>2, <3>5, <3>6, <3>7, <3>8, ZenonT(40)
    <3> QED
      BY <2>8, <3>5, <3>9, <3>10, Zenon DEF Kept
  <2> QED
    BY <2>6, <2>7, <2>8, Zenon
<1>5. ASSUME NEW k \in Key, DefragCopy(k) PROVE PairsKept'
  <2>0. PICK c \in Chunk : c = defragmenter.chunk
    BY <1>a, Zenon
  <2> USE <2>0
  <2> DEFINE ks == Keys(c) \cup {k}
  <2> SUFFICES ASSUME ~opened, NEW d \in Chunk PROVE Kept(d)'
    BY <1>5, Zenon DEF PairsKept, DefragCopy
  <2>1. chunks[c].present /\ Copying(c)
    BY <1>5, Zenon DEF DefragCopy, Copying, LocksHeld
  <2>2. chunks[c].pm \in PM /\ chunks[c].pm # nil /\ ks \in SUBSET Key
    BY <1>a, <1>b, <2>1, Zenon
  <2>3. /\ chunks' = [chunks EXCEPT ![c].pm.keys = ks] /\ file' = Written(c, ks)
        /\ defragmenter' = [defragmenter EXCEPT !.todo = @ \ {k}]
        /\ UNCHANGED <<proc, acked>> /\ k \in defragmenter.todo
    BY <1>5, Zenon DEF DefragCopy, Keys
  <2>4. /\ \A e \in Chunk \ {c} : chunks'[e] = chunks[e]
        /\ chunks'[c].pm = [rev |-> chunks[c].pm.rev, keys |-> ks]
        /\ chunks'[c].present = chunks[c].present
        /\ chunks'[c].revision = chunks[c].revision
    <3>1. StoreType /\ c \in Chunk
      BY <1>a, Zenon
    <3> HIDE DEF ks
    <3> QED
      BY <2>2, <2>3, <3>1, KeysSet, ZenonT(40)
  <2>5. /\ defragmenter'.pc = "copy" /\ defragmenter'.chunk = c
        /\ defragmenter'.old = defragmenter.old
        /\ defragmenter'.todo = defragmenter.todo \ {k}
    BY <1>a, <2>1, <2>3, Zenon DEF DefragState, Copying
  <2>6. /\ chunks[c].pm.rev <= chunks[c].revision
        /\ file[c][chunks[c].pm.rev] = Keys(c)
        /\ defragmenter.old.rev < chunks[c].pm.rev
        /\ Keys(c) \cup defragmenter.todo = acked[c]
        /\ Files(c) = {defragmenter.old.rev, chunks[c].pm.rev}
        /\ file[c][defragmenter.old.rev] = acked[c]
    BY <1>a, <1>c, <2>1, Zenon DEF Kept
  <2>7. /\ \A e \in Chunk \ {c} : file'[e] = file[e]
        /\ file'[c][chunks[c].pm.rev] = ks /\ Files(c)' = Files(c)
        /\ \A q \in Rev : q # chunks[c].pm.rev => file'[c][q] = file[c][q]
    <3>1. file[c][chunks[c].pm.rev] # nil
      BY <1>a, <1>b, <2>1, <2>6, Zenon
    <3> QED
      BY <1>a, <2>2, <2>3, <3>1, WrittenEffect, ZenonT(40)
  <2>8. CASE d # c
    <3>1. ~Copying(d) /\ ~Copying(d)'
      BY <2>5, <2>8, Zenon DEF Copying
    <3> QED
      BY <1>c, <2>3, <2>4, <2>7, <2>8, <3>1, KeptSame, Zenon
  <2>9. CASE d = c
    <3>1. Copying(c)' /\ Keys(c)' = ks /\ chunks'[c].pm.rev = chunks[c].pm.rev
      BY <2>4, <2>5 DEF Copying, Keys
    <3>2. ks \cup defragmenter'.todo = acked'[c]
      BY <2>3, <2>5, <2>6, Zenon
    <3>3. file'[c][defragmenter.old.rev] = acked[c]
      <4>1. defragmenter.old.rev \in Rev /\ chunks[c].pm.rev \in Rev
        BY <2>6, Zenon DEF Files
      <4>2. \A a, b \in Rev : a < b => a # b
        BY DEF Rev
      <4> QED
        BY <2>6, <2>7, <4>1, <4>2, Zenon
    <3> HIDE DEF ks
    <3>4. /\ chunks'[c].present /\ chunks'[c].pm.rev <= chunks'[c].revision
          /\ file'[c][chunks'[c].pm.rev] = Keys(c)'
      BY <2>1, <2>4, <2>6, <2>7, <3>1, Zenon
    <3>5. /\ defragmenter'.old.rev < chunks'[c].pm.rev
          /\ Keys(c)' \cup defragmenter'.todo = acked'[c]
          /\ Files(c)' = {defragmenter'.old.rev, chunks'[c].pm.rev}
          /\ file'[c][defragmenter'.old.rev] = acked'[c]
      BY <2>3, <2>5, <2>6, <2>7, <3>1, <3>2, <3>3, Zenon
    <3>6. Kept(c)'
      BY <3>1, <3>4, <3>5, Zenon DEF Kept
    <3> QED
      BY <2>9, <3>6, Zenon
  <2> QED
    BY <2>8, <2>9, Zenon
<1>6. ASSUME DefragEnd PROVE PairsKept'
  <2>0. PICK c \in Chunk : c = defragmenter.chunk
    BY <1>a, Zenon
  <2> USE <2>0
  <2> DEFINE r == defragmenter.old.rev
  <2> SUFFICES ASSUME ~opened, NEW d \in Chunk PROVE Kept(d)'
    BY <1>6, Zenon DEF PairsKept, DefragEnd
  <2>1. chunks[c].present /\ Copying(c) /\ defragmenter.todo = {}
    BY <1>6, Zenon DEF DefragEnd, Copying, LocksHeld
  <2>2. /\ file' = [file EXCEPT ![c][r] = nil] /\ defragmenter' = Idle
        /\ UNCHANGED <<proc, chunks, acked>>
    BY <1>6, Zenon DEF DefragEnd
  <2>3. /\ chunks[c].pm.rev <= chunks[c].revision
        /\ file[c][chunks[c].pm.rev] = Keys(c) /\ r < chunks[c].pm.rev
        /\ Keys(c) = acked[c] /\ Files(c) = {r, chunks[c].pm.rev}
    BY <1>a, <1>c, <2>1, SMTT(30) DEF Kept
  <2>4. r \in Rev /\ chunks[c].pm.rev \in Rev
    BY <2>3, Zenon DEF Files
  <2>5. /\ \A e \in Chunk \ {c} : file'[e] = file[e]
        /\ \A q \in Rev : q # r => file'[c][q] = file[c][q]
        /\ Files(c)' = Files(c) \ {r}
    <3>1. PICK x \in Rev : x = r
      BY <2>4, Zenon
    <3>2. file' = [file EXCEPT ![c][x] = nil]
      BY <2>2, <3>1, Zenon
    <3> HIDE DEF r
    <3>3. /\ \A e \in Chunk \ {c} : file'[e] = file[e]
          /\ \A q \in Rev : q # x => file'[c][q] = file[c][q]
          /\ Files(c)' = Files(c) \ {x}
      <4>1. StoreType /\ c \in Chunk /\ x \in Rev
        BY <1>a, <3>1, Zenon
      <4> HIDE CoreAssumption, <2>0
      <4> QED
        BY <4>1, <3>2, FileRemoved, Zenon
    <3> QED
      BY <2>4, <3>1, <3>3, Zenon
  <2>6. ~Copying(d)'
    BY <2>2, Zenon DEF Copying, Idle
  <2>7. CASE d # c
    <3>1. ~Copying(d)
      BY <2>7, Zenon DEF Copying
    <3> QED
      BY <1>c, <2>2, <2>5, <2>6, <2>7, <3>1, KeptSame, Zenon
  <2>8. CASE d = c
    <3>1. Files(c)' = {chunks[c].pm.rev} /\ file'[c][chunks[c].pm.rev] = Keys(c)
      <4>1. PICK x \in Rev, y \in Rev : x = r /\ y = chunks[c].pm.rev
        BY <2>4, Zenon
      <4>2. x < y
        BY <2>3, <4>1, Zenon
      <4>3. x # y
        <5>1. x \in Int /\ y \in Int
          BY DEF Rev
        <5> HIDE <2>0, CoreAssumption DEF r
        <5> QED
          BY <4>2, <5>1
      <4>4. Files(c)' = {y} /\ file'[c][y] = Keys(c)
        BY <2>3, <2>5, <4>1, <4>3, ZenonT(40)
      <4> QED
        BY <4>1, <4>4, Zenon
    <3>2. Keys(c)' = Keys(c)
      BY <2>2, Zenon DEF Keys
    <3> HIDE DEF r
    <3> QED
      BY <2>1, <2>2, <2>3, <2>6, <2>8, <3>1, <3>2, Zenon DEF Kept
  <2> QED
    BY <2>7, <2>8, Zenon
<1>7. ASSUME Call \/ \E x \in timers : Wake(x) PROVE PairsKept'
  BY <1>7, PairsSame, Zenon DEF Call, CallSetter, Wake, LockMutex, store, defrag
<1>8. ASSUME ChunkSetPresent PROVE PairsKept'
  <2>0. PICK c \in Chunk : c = mutex.chunk
    BY <1>a, <1>8, Zenon DEF ChunkSetPresent, Setting
  <2> USE <2>0
  <2>1. c \in Chunk /\ Up(c) /\ UNCHANGED <<proc, opened, defragmenter>>
    BY <1>8, <1>a, Zenon DEF ChunkSetPresent, Setting, defrag
  <2>2. CASE IsPresent(c)
    BY <1>8, <2>1, <2>2, PairsSame, Zenon DEF ChunkSetPresent
  <2>3. CASE ~IsPresent(c)
    <3> SUFFICES ASSUME ~opened, NEW d \in Chunk PROVE Kept(d)'
      BY <2>1, Zenon DEF PairsKept
    <3>1. /\ chunks' = [chunks EXCEPT ![c] =
                 [chunks[c] EXCEPT !.pm = [rev |-> 0, keys |-> {}], !.present = TRUE]]
          /\ file' = [file EXCEPT ![c][0] = {}] /\ acked' = [acked EXCEPT ![c] = {}]
      BY <1>8, <1>a, <2>1, <2>3, Zenon DEF ChunkSetPresent
    <3>2. /\ \A e \in Chunk \ {c} : file'[e] = file[e]
          /\ file'[c][0] = {} /\ Files(c)' = Files(c) \cup {0}
      <4>1. 0 \in Rev
        BY DEF Rev
      <4> QED
        BY <1>a, <2>1, <3>1, <4>1, FileCreated, Zenon
    <3>3. CASE d # c
      BY <1>a, <1>c, <2>1, <3>1, <3>2, <3>3, KeptSame, Zenon DEF Copying
    <3>4. CASE d = c
      <4>1. chunks[c] \in MetaChunk /\ Files(c) = {} /\ chunks[c].revision \in Nat
        BY <1>a, <1>c, <2>1, <2>3 DEF Kept, IsPresent, Up, MetaChunk, Rev
      <4>2. /\ chunks'[c].present /\ chunks'[c].pm = [rev |-> 0, keys |-> {}]
            /\ chunks'[c].revision = chunks[c].revision /\ acked'[c] = {}
        BY <1>a, <2>1, <3>1, <4>1, Zenon DEF MetaChunk
      <4>3. chunks'[c].pm.rev = 0 /\ Keys(c)' = {}
        <5> HIDE CoreAssumption, <2>0
        <5> QED
          BY <4>2, SMT DEF Keys
      <4>4. ~Copying(c)'
        BY <1>d, <2>1, Zenon DEF Copying
      <4>5. chunks'[c].pm.rev <= chunks'[c].revision
        <5> HIDE CoreAssumption, <2>0
        <5> QED
          BY <4>1, <4>2, <4>3, SMT
      <4>6. Files(c)' = {0}
        BY <3>2, <4>1, Zenon
      <4> QED
        BY <3>2, <3>4, <4>2, <4>3, <4>4, <4>5, <4>6, Zenon DEF Kept
    <3> QED
      BY <3>3, <3>4, Zenon
  <2> QED
    BY <2>2, <2>3, Zenon
<1>9. ASSUME ChunkSetNoPresent PROVE PairsKept'
  <2>0. PICK c \in Chunk : c = mutex.chunk
    BY <1>a, <1>9, Zenon DEF ChunkSetNoPresent, Setting
  <2> USE <2>0
  <2> DEFINE r == chunks[c].pm.rev
  <2>1. c \in Chunk /\ Up(c) /\ UNCHANGED <<proc, opened, defragmenter>>
    BY <1>9, <1>a, Zenon DEF ChunkSetNoPresent, Setting, defrag
  <2>2. CASE ~chunks[c].present
    BY <1>9, <2>1, <2>2, PairsSame, Zenon DEF ChunkSetNoPresent
  <2>3. CASE chunks[c].present
    <3> SUFFICES ASSUME ~opened, NEW d \in Chunk PROVE Kept(d)'
      BY <2>1, Zenon DEF PairsKept
    <3>1. /\ chunks' = [chunks EXCEPT ![c] =
                 [chunks[c] EXCEPT !.pm = nil, !.present = FALSE, !.protected = FALSE]]
          /\ file' = [file EXCEPT ![c][r] = nil] /\ acked' = [acked EXCEPT ![c] = {}]
      BY <1>9, <1>a, <2>1, <2>3, Zenon DEF ChunkSetNoPresent
    <3>2. Files(c) = {r} /\ r \in Rev
      BY <1>c, <1>d, <2>1, <2>3, Zenon DEF Kept, Files
    <3>3. (\A e \in Chunk \ {c} : file'[e] = file[e]) /\ Files(c)' = {}
      <4>1. PICK x \in Rev : x = r
        BY <3>2, Zenon
      <4>2. file' = [file EXCEPT ![c][x] = nil]
        BY <3>1, <4>1, Zenon
      <4> HIDE DEF r
      <4>3. /\ \A e \in Chunk \ {c} : file'[e] = file[e]
            /\ \A q \in Rev : q # x => file'[c][q] = file[c][q]
            /\ Files(c)' = Files(c) \ {x}
        <5>1. StoreType /\ c \in Chunk /\ x \in Rev
          BY <1>a, <4>1, Zenon
        <5> HIDE CoreAssumption, <2>0
        <5> QED
          BY <5>1, <4>2, FileRemoved, Zenon
      <4> QED
        BY <3>2, <4>1, <4>3, Zenon
    <3>4. CASE d # c
      BY <1>a, <1>c, <2>1, <3>1, <3>3, <3>4, KeptSame, Zenon DEF Copying
    <3>5. CASE d = c
      <4>1. ~chunks'[c].present
        <5>1. chunks[c] \in MetaChunk
          BY <1>a, <2>1, Zenon
        <5> QED
          BY <1>a, <2>1, <3>1, <5>1, Zenon DEF MetaChunk
      <4> QED
        BY <3>3, <3>5, <4>1, Zenon DEF Kept
    <3> QED
      BY <3>4, <3>5, Zenon
  <2> QED
    BY <2>2, <2>3, Zenon
<1>10. ASSUME ChunkSetProtected \/ ProtectionExpires PROVE PairsKept'
  <2>0. PICK c \in Chunk : c = mutex.chunk
    BY <1>a, <1>10, Zenon DEF ChunkSetProtected, ProtectionExpires, Setting
  <2> USE <2>0
  <2>1. /\ c \in Chunk /\ UNCHANGED <<proc, opened, defragmenter, file, acked>>
    BY <1>10, <1>a, Zenon DEF ChunkSetProtected, ProtectionExpires, Setting, defrag
  <2>2. \A d \in Chunk : /\ chunks'[d].present = chunks[d].present
                         /\ chunks'[d].pm = chunks[d].pm
                         /\ chunks'[d].revision = chunks[d].revision
    BY <1>10, <1>a, <2>1 DEF ChunkSetProtected, ProtectionExpires, MetaChunk
  <2> SUFFICES ASSUME ~opened, NEW d \in Chunk PROVE Kept(d)'
    BY <2>1, Zenon DEF PairsKept
  <2>3. Copying(d)' <=> Copying(d)
    BY <2>1, Zenon DEF Copying
  <2> QED
    BY <1>c, <2>1, <2>2, <2>3, KeptSame, Zenon
<1>11. ASSUME ListStart \/ ListNext \/ ListEnd PROVE PairsKept'
  BY <1>11, PairsSame, Zenon DEF ListStart, ListNext, ListEnd, Panic, store, defrag
<1>12. ASSUME IterateNext \/ \E c \in Chunk : Iterate(c) PROVE PairsKept'
  BY <1>12, PairsSame, Zenon DEF Iterate, IterateNext, Panic, store, defrag
<1>13. ASSUME BackwardsFirst \/ BackwardsNext \/ \E c \in Chunk : BackwardsIterate(c)
       PROVE  PairsKept'
  BY <1>13, PairsSame, Zenon DEF BackwardsIterate, BackwardsFirst, BackwardsNext, Panic, store,
         defrag
<1>14. ASSUME Close \/ Kill PROVE PairsKept'
  BY <1>14, PairsSame, Zenon DEF Close, Kill, defrag
<1>15. ASSUME Open PROVE PairsKept'
  BY <1>15, Zenon DEF Open, PairsKept
<1>16. CASE UNCHANGED vars
  BY <1>16, PairsSame, Zenon DEF vars, store, defrag
<1> QED
  BY <1>1, <1>2, <1>3, <1>4, <1>5, <1>6, <1>7, <1>8, <1>9, <1>10, <1>11, <1>12,
     <1>13, <1>14, <1>15, <1>16, Zenon
     DEF Next, Request, CAS, Defragmenter, Setters, StayDown

-----------------------------------------------------------------------------
(* Iterations                                                              *)

(* What a request, a defragmentation or a release does to an iteration.    *)
LEMMA IterationEffects ==
    ASSUME NEW it \in Iteration, NEW c \in Chunk, NEW k \in Key
    PROVE  /\ it.owed \subseteq it.todo =>
                 /\ Appended(it, c, k).owed \subseteq Appended(it, c, k).todo
                 /\ Overwritten(it, c, k).owed \subseteq Overwritten(it, c, k).todo
                 /\ Visited(it, k).owed \subseteq Visited(it, k).todo
           /\ Overwritten(it, c, k).closed = it.closed
           /\ Visited(it, k).closed = it.closed
BY Zenon DEF Appended, Overwritten, Visited, Reads, Iteration

(* Closing the PMap marks the iteration and leaves its visits alone.       *)
LEMMA ClosedEffect ==
    ASSUME NEW it \in Iteration, NEW c \in Chunk, NEW why
    PROVE  /\ Closed(it, c, why).owed = it.owed /\ Closed(it, c, why).todo = it.todo
           /\ Closed(it, c, why).closed \in {it.closed, why}
BY Zenon DEF Closed, Reads, Iteration

(* An iteration that is not running stays so.                              *)
LEMMA IterationNil ==
    ASSUME NEW c, NEW k, NEW why
    PROVE  /\ Appended(nil, c, k) = nil /\ Overwritten(nil, c, k) = nil
           /\ Closed(nil, c, why) = nil
BY Zenon DEF Appended, Overwritten, Closed, Reads

IterationsRight == NothingSkipped /\ DefragSparesRepair

(* No step makes a transfer skip a pair, none closes the PMap of the       *)
(* repair system to defragment it.                                         *)
LEMMA NextIterations ==
    Types /\ Types' /\ LocksHeld /\ IterationsRight /\ [Next]_vars => IterationsRight'
<1> SUFFICES ASSUME Types, Types', LocksHeld, IterationsRight, [Next]_vars
             PROVE  IterationsRight'
  BY Zenon
<1> USE CoreAssumption
<1>a. /\ transfer \in Iteration \cup {nil} /\ repair \in Iteration \cup {nil}
      /\ transfer # nil => transfer.owed \subseteq transfer.todo
      /\ repair # nil => repair.closed # "defrag"
  BY Zenon DEF Types, IterType, IterationsRight, NothingSkipped, DefragSparesRepair
<1>b. defragmenter.chunk \in Chunk /\ (mutex # nil => mutex.chunk \in Chunk)
  BY Zenon DEF Types, LockType, Setter, DefragType, DefragState
<1>c. UNCHANGED iters => IterationsRight'
  BY Zenon DEF iters, IterationsRight, NothingSkipped, DefragSparesRepair
<1>d. ASSUME NEW c \in Chunk, NEW why \in {"no", "release"},
             transfer' = Closed(transfer, c, why), repair' = Closed(repair, c, why)
      PROVE  IterationsRight'
  <2>1. transfer' # nil => transfer'.owed \subseteq transfer'.todo
    <3>1. CASE transfer = nil
      BY <1>d, <3>1, IterationNil, Zenon
    <3>2. CASE transfer \in Iteration /\ transfer # nil
      <4>1. transfer'.owed = transfer.owed /\ transfer'.todo = transfer.todo
        BY <1>d, <3>2, ClosedEffect, Zenon
      <4> QED
        BY <1>a, <3>2, <4>1, Zenon
    <3> QED
      BY <1>a, <3>1, <3>2, Zenon
  <2>2. repair' # nil => repair'.closed # "defrag"
    BY <1>a, <1>d, ClosedEffect, IterationNil
  <2> QED
    BY <2>1, <2>2, Zenon DEF IterationsRight, NothingSkipped, DefragSparesRepair
<1>1. ASSUME NEW c \in Chunk, NEW k \in Key, Set(c, k) \/ Delete(c, k) PROVE IterationsRight'
  <2>1. /\ transfer' \in {Appended(transfer, c, k), Overwritten(transfer, c, k)}
        /\ repair' = Overwritten(repair, c, k)
    BY <1>1, Zenon DEF Set, Delete
  <2>2. transfer' # nil => transfer'.owed \subseteq transfer'.todo
    BY <1>a, <2>1, IterationEffects, IterationNil
  <2>3. repair' # nil => repair'.closed # "defrag"
    BY <1>a, <2>1, IterationEffects, IterationNil, ZenonT(40)
  <2> QED
    BY <2>2, <2>3, Zenon DEF IterationsRight, NothingSkipped, DefragSparesRepair
<1>2. ASSUME NEW c \in Chunk, SendDefrag(c) PROVE IterationsRight'
  BY <1>2, <1>c, Zenon DEF SendDefrag
<1>3. ASSUME DefragReceive \/ DefragLock \/ DefragNew \/ \E k \in Key : DefragCopy(k)
      PROVE  IterationsRight'
  BY <1>3, <1>c, Zenon DEF DefragReceive, DefragLock, DefragNew, DefragCopy, Panic
<1>4. ASSUME DefragEnd PROVE IterationsRight'
  <2>1. transfer' = Closed(transfer, defragmenter.chunk, "defrag")
        /\ repair' = Closed(repair, defragmenter.chunk, "defrag")
    BY <1>4, Zenon DEF DefragEnd
  <2>2. ~Reads(repair, defragmenter.chunk)
    BY <1>4, Zenon DEF DefragEnd, LocksHeld, Reads
  <2>3. repair' = repair
    BY <1>b, <2>1, <2>2, Zenon DEF Closed
  <2>4. transfer' # nil => transfer'.owed \subseteq transfer'.todo
    BY <1>a, <1>b, <2>1, ClosedEffect, IterationNil
  <2> QED
    BY <1>a, <2>3, <2>4, Zenon DEF IterationsRight, NothingSkipped, DefragSparesRepair
<1>5. ASSUME Call \/ (\E x \in timers : Wake(x)) \/ ListStart \/ ListNext \/ ListEnd
      PROVE  IterationsRight'
  BY <1>5, <1>c, Zenon DEF Call, CallSetter, Wake, LockMutex, ListStart, ListNext, ListEnd, Panic
<1>6. ASSUME ChunkSetPresent \/ ChunkSetProtected \/ ProtectionExpires PROVE IterationsRight'
  BY <1>6, <1>c, Zenon DEF ChunkSetPresent, ChunkSetProtected, ProtectionExpires
<1>7. ASSUME ChunkSetNoPresent PROVE IterationsRight'
  <2>1. PICK c \in Chunk : c = mutex.chunk
    BY <1>7, <1>b, Zenon DEF ChunkSetNoPresent, Setting
  <2>2. \/ UNCHANGED iters
        \/ /\ transfer' = Closed(transfer, c, "release")
           /\ repair' = Closed(repair, c, "release")
    BY <1>7, <2>1, Zenon DEF ChunkSetNoPresent
  <2> QED
    BY <1>c, <1>d, <2>2, Zenon
<1>8. ASSUME NEW c \in Chunk, Iterate(c) PROVE IterationsRight'
  <2>1. PICK k \in Keys(c) : transfer' = Visiting(c, k) /\ UNCHANGED repair
    BY <1>8, Zenon DEF Iterate
  <2> QED
    BY <1>a, <2>1, Zenon DEF Visiting, IterationsRight, NothingSkipped, DefragSparesRepair
<1>9. ASSUME IterateNext PROVE IterationsRight'
  <2>1. CASE transfer.closed # "no"
    BY <1>9, <1>c, <2>1, Zenon DEF IterateNext, Panic
  <2>2. CASE transfer.closed = "no"
    <3>1. transfer \in Iteration /\ UNCHANGED repair
      BY <1>9, <1>a, <2>2, Zenon DEF IterateNext
    <3>2. transfer' = nil \/ \E k \in Key : transfer' = Visited(transfer, k)
      BY <1>9, <2>2, <3>1, Zenon DEF IterateNext, Iteration
    <3>3. \A k \in Key : Visited(transfer, k).owed \subseteq Visited(transfer, k).todo
      BY <1>9, <1>a, <1>b, <3>1, IterationEffects, Zenon DEF IterateNext
    <3> QED
      BY <1>a, <3>1, <3>2, <3>3, Zenon DEF IterationsRight, NothingSkipped, DefragSparesRepair
  <2> QED
    BY <2>1, <2>2, Zenon
<1>10. ASSUME NEW c \in Chunk, BackwardsIterate(c) PROVE IterationsRight'
  BY <1>10, <1>a, Zenon DEF BackwardsIterate, IterationsRight, NothingSkipped, DefragSparesRepair
<1>11. ASSUME BackwardsFirst PROVE IterationsRight'
  <2>1. UNCHANGED transfer /\ (repair' = nil \/ repair'.closed = "no")
    BY <1>11 DEF BackwardsFirst, Visiting
  <2> QED
    BY <1>a, <2>1, Zenon DEF IterationsRight, NothingSkipped, DefragSparesRepair
<1>12. ASSUME BackwardsNext PROVE IterationsRight'
  <2>1. repair \in Iteration
    BY <1>12, <1>a, Zenon DEF BackwardsNext
  <2>2. UNCHANGED transfer /\ \/ repair' \in {repair, nil}
                              \/ \E k \in Key : repair' = Visited(repair, k)
    BY <1>12, <2>1, Zenon DEF BackwardsNext, Panic, iters, Iteration
  <2>3. \A k \in Key : Visited(repair, k).closed = repair.closed
    BY <1>b, <2>1, IterationEffects, Zenon
  <2> QED
    BY <1>a, <2>1, <2>2, <2>3, Zenon DEF IterationsRight, NothingSkipped, DefragSparesRepair
<1>13. ASSUME Close \/ Kill PROVE IterationsRight'
  BY <1>13, <1>c, Zenon DEF Close, Kill
<1>14. ASSUME Open PROVE IterationsRight'
  BY <1>14, Zenon DEF Open, IterationsRight, NothingSkipped, DefragSparesRepair
<1>15. CASE UNCHANGED vars
  BY <1>15, <1>c, Zenon DEF vars
<1> QED
  BY <1>1, <1>2, <1>3, <1>4, <1>5, <1>6, <1>7, <1>8, <1>9, <1>10, <1>11, <1>12,
     <1>13, <1>14, <1>15, Zenon
     DEF Next, Request, CAS, Defragmenter, Setters, StayDown

-----------------------------------------------------------------------------
(* Flags                                                                   *)

Flags(c) == <<chunks[c].present, chunks[c].protected, chunks[c].protectionTime>>
FlagsSame == UNCHANGED knownChunks /\ \A c \in Chunk : Flags(c)' = Flags(c)

FlagsRight == KnownIsPresent /\ ListIsSnapshot /\ ProtectionHasTimer

\* The steps that leave the flags of the chunks to the setters
FlagsLeft ==
    \/ Request \/ (\E c \in Chunk : SendDefrag(c)) \/ Defragmenter
    \/ Call \/ (\E x \in timers : Wake(x)) \/ ListStart \/ ListNext \/ ListEnd
    \/ (\E c \in Chunk : Iterate(c)) \/ IterateNext
    \/ (\E c \in Chunk : BackwardsIterate(c)) \/ BackwardsFirst \/ BackwardsNext
    \/ Close \/ Kill \/ StayDown

(* Only the setters and a restart change the flags and the counter.        *)
LEMMA OthersKeepFlags ==
    ASSUME Types, LocksHeld, FlagsLeft \/ UNCHANGED vars
    PROVE  FlagsSame
<1>a. chunks \in [Chunk -> MetaChunk] /\ defragmenter.chunk \in Chunk /\ StoreType
  BY Zenon DEF Types, StoreType, DefragType, DefragState
<1>b. UNCHANGED <<chunks, knownChunks>> => FlagsSame
  BY Zenon DEF FlagsSame, Flags
<1>c. ASSUME NEW c \in Chunk, chunks[c].present, NEW ks \in SUBSET Key,
             chunks' = [chunks EXCEPT ![c].pm.keys = ks], UNCHANGED knownChunks
      PROVE  FlagsSame
  <2>1. chunks[c].pm # nil
    BY <1>c, Zenon DEF LocksHeld
  <2> QED
    BY <1>a, <1>c, <2>1, KeysSet, Zenon DEF FlagsSame, Flags
<1>1. ASSUME NEW c \in Chunk, NEW k \in Key, Set(c, k) \/ Delete(c, k) PROVE FlagsSame
  <2>1. chunks[c].present /\ chunks[c].pm # nil
    BY <1>1, Zenon DEF Set, Delete, LocksHeld
  <2>2. Keys(c) \in SUBSET Key
    BY <1>a, <2>1, PMapType, Zenon
  <2>3. PICK ks \in SUBSET Key : chunks' = [chunks EXCEPT ![c].pm.keys = ks]
    <3>1. CASE Set(c, k)
      BY <2>2, <3>1, Zenon DEF Set, Keys
    <3>2. CASE Delete(c, k)
      BY <2>2, <3>2, Zenon DEF Delete, Keys
    <3> QED
      BY <1>1, <3>1, <3>2, Zenon
  <2>4. UNCHANGED knownChunks
    BY <1>1, Zenon DEF Set, Delete
  <2> QED
    BY <1>c, <2>1, <2>3, <2>4, Zenon
<1>2. ASSUME DefragNew PROVE FlagsSame
  <2>1. UNCHANGED knownChunks
    BY <1>2, Zenon DEF DefragNew
  <2> QED
    BY <1>a, <1>2, <2>1, NewRevision, Zenon DEF FlagsSame, Flags
<1>3. ASSUME NEW k \in Key, DefragCopy(k) PROVE FlagsSame
  <2>0. PICK c \in Chunk : c = defragmenter.chunk
    BY <1>a, Zenon
  <2>1. chunks[c].present /\ chunks[c].pm # nil
    BY <1>3, <2>0, Zenon DEF DefragCopy, LocksHeld
  <2>2. Keys(c) \in SUBSET Key
    BY <1>a, <2>1, PMapType, Zenon
  <2>3. PICK ks \in SUBSET Key : chunks' = [chunks EXCEPT ![c].pm.keys = ks]
    BY <1>3, <2>0, <2>2, Zenon DEF DefragCopy, Keys
  <2>4. UNCHANGED knownChunks
    BY <1>3, Zenon DEF DefragCopy
  <2> QED
    BY <1>c, <2>1, <2>3, <2>4, Zenon
<1>4. ASSUME \/ (\E c \in Chunk : SendDefrag(c)) \/ DefragReceive \/ DefragLock \/ DefragEnd
             \/ Call \/ (\E x \in timers : Wake(x)) \/ ListStart \/ ListNext \/ ListEnd
      PROVE  FlagsSame
  BY <1>4, <1>b, Zenon DEF SendDefrag, DefragReceive, DefragLock, DefragEnd, Call, CallSetter,
         Wake,
                    LockMutex, ListStart, ListNext, ListEnd, store
<1>5. ASSUME \/ (\E c \in Chunk : Iterate(c)) \/ IterateNext
             \/ (\E c \in Chunk : BackwardsIterate(c)) \/ BackwardsFirst \/ BackwardsNext
             \/ Close \/ Kill \/ UNCHANGED vars
      PROVE  FlagsSame
  BY <1>5, <1>b, Zenon DEF Iterate, IterateNext, BackwardsIterate, BackwardsFirst, BackwardsNext,
                    Close, Kill, vars, store
<1> QED
  BY <1>1, <1>2, <1>3, <1>4, <1>5, Zenon
     DEF FlagsLeft, Request, CAS, Defragmenter, StayDown

(* The chunks are finitely many.                                           *)
LEMMA PresentFinite == IsFiniteSet({c \in Chunk : chunks[c].present})
<1>1. IsFiniteSet(Chunk)
  BY CoreAssumption, FS_Interval DEF Chunk
<1> QED
  BY <1>1, FS_Subset, Zenon

(* The list in the making and the counter, in a step of the setters.       *)
LEMMA SettersCount ==
    ASSUME Types, LocksHeld, Setters, KnownIsPresent, ListIsSnapshot
    PROVE  KnownIsPresent' /\ ListIsSnapshot'
<1> USE CoreAssumption
<1> DEFINE P == {c \in Chunk : chunks[c].present}
<1>a. /\ mutex # nil /\ mutex.chunk \in Chunk /\ list = nil
      /\ UNCHANGED <<proc, opened, list>> /\ proc = "up"
  BY Zenon DEF Setters, ChunkSetPresent, ChunkSetNoPresent, ChunkSetProtected, ProtectionExpires,
         Setting, LocksHeld, Types, LockType, Setter, Up
<1>b. ListIsSnapshot'
  BY <1>a, Zenon DEF ListIsSnapshot
<1>c. chunks \in [Chunk -> MetaChunk] /\ knownChunks \in Int
  BY Zenon DEF Types, StoreType
<1>d. PICK c \in Chunk : c = mutex.chunk
  BY <1>a, Zenon
<1>e. IsFiniteSet(P) /\ Cardinality(P) \in Nat
  BY PresentFinite, FS_CardinalityType, Zenon
<1>1. \/ /\ P' = P /\ knownChunks' = knownChunks
      \/ /\ c \notin P /\ P' = P \cup {c} /\ knownChunks' = knownChunks + 1
      \/ /\ c \in P /\ P' = P \ {c} /\ knownChunks' = knownChunks - 1
  <2>1. CASE ChunkSetPresent
    BY <1>c, <1>d, <2>1 DEF ChunkSetPresent, IsPresent, MetaChunk
  <2>2. CASE ChunkSetNoPresent
    BY <1>c, <1>d, <2>2 DEF ChunkSetNoPresent, MetaChunk
  <2>3. CASE ChunkSetProtected
    BY <1>c, <1>d, <2>3 DEF ChunkSetProtected, MetaChunk
  <2>4. CASE ProtectionExpires
    BY <1>c, <1>d, <2>4, Zenon DEF ProtectionExpires, MetaChunk
  <2> QED
    BY <2>1, <2>2, <2>3, <2>4, Zenon DEF Setters
<1>2. (proc = "up" /\ ~opened => knownChunks = Cardinality(P))
  BY Zenon DEF KnownIsPresent
<1>3. (proc' = "up" /\ ~opened' => knownChunks' = Cardinality(P'))
  <2>1. c \notin P => Cardinality(P \cup {c}) = Cardinality(P) + 1
    BY <1>e, FS_AddElement, Zenon
  <2>2. c \in P => Cardinality(P \ {c}) = Cardinality(P) - 1
    BY <1>e, FS_RemoveElement, Zenon
  <2> HIDE DEF P
  <2> QED
    BY <1>1, <1>2, <1>a, <1>c, <1>e, <2>1, <2>2, Zenon
<1>4. KnownIsPresent'
  BY <1>3, Zenon DEF KnownIsPresent
<1> QED
  BY <1>b, <1>4, Zenon

(* A setter that sets the protection starts its timer; the last goroutine  *)
(* of a protection ends it.                                                *)
LEMMA SettersProtect ==
    ASSUME Types, Setters, ProtectionHasTimer
    PROVE  ProtectionHasTimer'
<1> USE CoreAssumption
<1>a. mutex # nil /\ mutex.chunk \in Chunk /\ chunks \in [Chunk -> MetaChunk]
  BY Zenon DEF Setters, ChunkSetPresent, ChunkSetNoPresent, ChunkSetProtected, ProtectionExpires,
         Setting, Types, LockType, StoreType, Setter
<1> SUFFICES ASSUME NEW c \in Chunk, chunks'[c].protected
             PROVE  [chunk |-> c, t |-> chunks'[c].protectionTime] \in timers'
  BY Zenon DEF ProtectionHasTimer
<1>b. chunks[c].protected => \/ [chunk |-> c, t |-> chunks[c].protectionTime] \in timers
                             \/ mutex = [op |-> "expire", chunk |-> c,
                                         t |-> chunks[c].protectionTime]
  BY Zenon DEF ProtectionHasTimer
<1>1. CASE ChunkSetPresent
  BY <1>1, <1>a, <1>b DEF ChunkSetPresent, Setting, IsPresent, MetaChunk
<1>2. CASE ChunkSetNoPresent
  BY <1>2, <1>a, <1>b DEF ChunkSetNoPresent, Setting, MetaChunk
<1>3. CASE ChunkSetProtected
  BY <1>3, <1>a, <1>b DEF ChunkSetProtected, Setting, Sleep, MetaChunk
<1>4. CASE ProtectionExpires
  BY <1>4, <1>a, <1>b DEF ProtectionExpires, Setting, MetaChunk
<1> QED
  BY <1>1, <1>2, <1>3, <1>4, Zenon DEF Setters

(* What the other steps do to the process, the list and the timers.        *)
LEMMA OthersKeep ==
    ASSUME FlagsLeft \/ UNCHANGED vars
    PROVE  /\ UNCHANGED opened /\ (proc' = "up" => proc = "up")
           /\ UNCHANGED list \/ ListStart \/ ListNext \/ ListEnd
           /\ UNCHANGED <<mutex, timers>> \/ Call \/ \E x \in timers : Wake(x)
<1> DEFINE Quiet == UNCHANGED <<opened, list, mutex, timers>> /\ (proc' = "up" => proc = "up")
<1>1. ASSUME NEW c \in Chunk, NEW k \in Key, Set(c, k) \/ Delete(c, k) PROVE Quiet
  BY <1>1, Zenon DEF Set, Delete, locks
<1>2. ASSUME NEW c \in Chunk, SendDefrag(c) PROVE Quiet
  BY <1>2, Zenon DEF SendDefrag, store, locks
<1>3. ASSUME DefragReceive \/ DefragLock \/ DefragNew PROVE Quiet
  BY <1>3, Zenon DEF DefragReceive, DefragLock, DefragNew, Panic, store, locks, Up
<1>4. ASSUME DefragEnd \/ \E k \in Key : DefragCopy(k) PROVE Quiet
  BY <1>4, Zenon DEF DefragEnd, DefragCopy, locks
<1>5. ASSUME Call \/ \E x \in timers : Wake(x)
      PROVE  UNCHANGED <<opened, list>> /\ (proc' = "up" => proc = "up")
  BY <1>5, Zenon DEF Call, CallSetter, Wake, LockMutex, store
<1>6. ASSUME ListStart \/ ListNext \/ ListEnd
      PROVE  UNCHANGED <<opened, mutex, timers>> /\ (proc' = "up" => proc = "up")
  BY <1>6, Zenon DEF ListStart, ListNext, ListEnd, Panic, store, locks
<1>7. ASSUME (\E c \in Chunk : Iterate(c)) \/ IterateNext PROVE Quiet
  BY <1>7, Zenon DEF Iterate, IterateNext, Panic, store, locks
<1>8. ASSUME (\E c \in Chunk : BackwardsIterate(c)) \/ BackwardsFirst \/ BackwardsNext
      PROVE  Quiet
  BY <1>8, Zenon DEF BackwardsIterate, BackwardsFirst, BackwardsNext, Panic, store, locks
<1>9. ASSUME Close \/ Kill \/ UNCHANGED vars PROVE Quiet
  BY <1>9, Zenon DEF Close, Kill, vars, store, locks
<1> QED
  BY <1>1, <1>2, <1>3, <1>4, <1>5, <1>6, <1>7, <1>8, <1>9, Zenon
     DEF FlagsLeft, Request, CAS, Defragmenter, StayDown

(* Every step keeps the counter, the list and the timers in agreement with *)
(* the flags.                                                              *)
LEMMA NextFlags ==
    Types /\ LocksHeld /\ FlagsRight /\ [Next]_vars => FlagsRight'
<1> SUFFICES ASSUME Types, LocksHeld, FlagsRight, [Next]_vars PROVE FlagsRight'
  BY Zenon
<1> USE CoreAssumption
<1>1. CASE Setters
  BY <1>1, SettersCount, SettersProtect, Zenon DEF FlagsRight
<1>2. CASE Open
  <2>1. opened' = TRUE /\ list' = nil /\ chunks' = [c \in Chunk |-> OpenChunk(c)]
    BY <1>2, Zenon DEF Open
  <2>2. \A c \in Chunk : ~OpenChunk(c).protected
    BY Zenon DEF OpenChunk, NewMetaChunk
  <2> QED
    BY <2>1, <2>2, Zenon DEF FlagsRight, KnownIsPresent, ListIsSnapshot, ProtectionHasTimer
<1>3. CASE FlagsLeft \/ UNCHANGED vars
  <2>1. FlagsSame
    BY <1>3, OthersKeepFlags, Zenon
  <2>2. /\ UNCHANGED opened /\ (proc' = "up" => proc = "up")
        /\ UNCHANGED list \/ ListStart \/ ListNext \/ ListEnd
        /\ UNCHANGED <<mutex, timers>> \/ Call \/ \E x \in timers : Wake(x)
    BY <1>3, OthersKeep, Zenon
  <2>3. \A c \in Chunk : /\ chunks'[c].present = chunks[c].present
                         /\ chunks'[c].protected = chunks[c].protected
                         /\ chunks'[c].protectionTime = chunks[c].protectionTime
    BY <2>1, Zenon DEF FlagsSame, Flags
  <2>4. KnownIsPresent'
    <3>1. {c \in Chunk : chunks'[c].present} = {c \in Chunk : chunks[c].present}
      BY <2>3, Zenon
    <3>2. UNCHANGED knownChunks /\ KnownIsPresent
      BY <2>1, Zenon DEF FlagsSame, FlagsRight
    <3> QED
      BY <2>2, <3>1, <3>2, Zenon DEF KnownIsPresent
  <2>5. ListIsSnapshot'
    <3>0. (list # nil /\ proc = "up" =>
              list.ids = {c \in Chunk : c < list.next /\ chunks[c].present})
          /\ list \in Listing \cup {nil}
      BY Zenon DEF FlagsRight, ListIsSnapshot, Types, LockType
    <3> SUFFICES ASSUME list' # nil, proc' = "up"
                 PROVE  list'.ids = {c \in Chunk : c < list'.next /\ chunks[c].present}
      BY <2>3, Zenon DEF ListIsSnapshot
    <3>1. CASE UNCHANGED list
      BY <2>2, <3>0, <3>1, Zenon
    <3>2. CASE ListStart
      BY <3>2 DEF ListStart, Panic, Chunk
    <3>3. CASE ListNext
      <4>a. list \in Listing /\ list.next \in Nat /\ list.next < NumChunks /\ proc = "up"
        BY <3>0, <3>3 DEF ListNext, Listing
      <4>b. list.next \in Chunk
        BY <4>a DEF Chunk
      <4>c. list.ids = {c \in Chunk : c < list.next /\ chunks[c].present}
        BY <3>0, <3>3, <4>a, Zenon DEF ListNext
      <4>1. /\ list'.next = list.next + 1
            /\ list'.ids = IF chunks[list.next].present THEN list.ids \cup {list.next}
                                                       ELSE list.ids
        <5>1. CASE chunks[list.next].present
          BY <3>3, <5>1 DEF ListNext
        <5>2. CASE ~chunks[list.next].present
          BY <3>3, <4>a, <5>2, Zenon DEF ListNext, Listing
        <5> QED
          BY <5>1, <5>2, Zenon
      <4>2. \A c \in Chunk : c < list.next + 1 <=> c < list.next \/ c = list.next
        BY <4>a DEF Chunk
      <4> QED
        BY <4>b, <4>c, <4>1, <4>2, Zenon
    <3>4. CASE ListEnd
      BY <3>4, Zenon DEF ListEnd
    <3> QED
      BY <2>2, <3>1, <3>2, <3>3, <3>4, Zenon
  <2>6. ProtectionHasTimer'
    <3> SUFFICES ASSUME NEW c \in Chunk, chunks[c].protected
                 PROVE  LET t == chunks[c].protectionTime
                        IN  \/ [chunk |-> c, t |-> t] \in timers'
                            \/ mutex' = [op |-> "expire", chunk |-> c, t |-> t]
      BY <2>3, Zenon DEF ProtectionHasTimer
    <3>1. PICK t \in Stamp \cup {noTime} : t = chunks[c].protectionTime
      BY Zenon DEF Types, StoreType, MetaChunk
    <3>2. \/ [chunk |-> c, t |-> t] \in timers
          \/ mutex = [op |-> "expire", chunk |-> c, t |-> t]
      BY <3>1, Zenon DEF FlagsRight, ProtectionHasTimer
    <3>3. [op |-> "expire", chunk |-> c, t |-> t] \in Setter
      BY Zenon DEF Setter
    <3>4. mutex = nil => [chunk |-> c, t |-> t] \in timers
      BY <3>2, <3>3, Zenon
    <3>5. CASE UNCHANGED <<mutex, timers>>
      BY <3>1, <3>2, <3>5, Zenon
    <3>6. CASE Call
      BY <3>1, <3>4, <3>6, Zenon DEF Call, CallSetter, LockMutex
    <3>7. ASSUME NEW x \in timers, Wake(x)
          PROVE  \/ [chunk |-> c, t |-> t] \in timers'
                 \/ mutex' = [op |-> "expire", chunk |-> c, t |-> t]
      BY <3>4, <3>7 DEF Wake, LockMutex
    <3> QED
      BY <2>2, <3>1, <3>5, <3>6, <3>7, Zenon
  <2> QED
    BY <2>4, <2>5, <2>6, Zenon DEF FlagsRight
<1> QED
  BY <1>1, <1>2, <1>3, Zenon DEF Next, FlagsLeft

-----------------------------------------------------------------------------
(* The inductive invariant                                                 *)

CoreInv == Types /\ LocksHeld /\ RevisionsLeft /\ PairsKept /\ IterationsRight /\ FlagsRight

(* A database that Create or Assoc has made.                               *)
LEMMA InitInv == Init => CoreInv
<1> SUFFICES ASSUME Init PROVE CoreInv
  BY Zenon
<1> USE CoreAssumption
<1>a. PICK all \in BOOLEAN :
         /\ chunks = [c \in Chunk |->
                        IF all THEN [NewMetaChunk EXCEPT !.pm = [rev |-> 0, keys |-> {}],
                                                         !.present = TRUE]
                               ELSE NewMetaChunk]
         /\ knownChunks = IF all THEN NumChunks ELSE 0
         /\ file = [c \in Chunk |-> [r \in Rev |-> IF all /\ r = 0 THEN {} ELSE nil]]
  BY Zenon DEF Init
<1>b. /\ proc = "up" /\ opened = FALSE /\ acked = [c \in Chunk |-> {}]
      /\ mutex = nil /\ list = nil /\ lock = [c \in Chunk |-> "free"]
      /\ defragMutex = [c \in Chunk |-> "free"] /\ defragChannel = <<>> /\ sending = {}
      /\ defragmenter = Idle /\ transfer = nil /\ repair = nil /\ timers = {}
  BY Zenon DEF Init
<1>c. 0 \in Rev /\ 0 \in Chunk /\ [rev |-> 0, keys |-> {}] \in PM
  BY DEF Rev, Chunk, PM
<1>d. /\ NewMetaChunk \in MetaChunk
      /\ [NewMetaChunk EXCEPT !.pm = [rev |-> 0, keys |-> {}], !.present = TRUE] \in MetaChunk
  <2>1. NewMetaChunk \in MetaChunk
    BY <1>c, Zenon DEF NewMetaChunk, MetaChunk
  <2> QED
    BY <1>c, <2>1, ChunkType, Zenon
<1>e. \A c \in Chunk : /\ chunks[c].present = all /\ chunks[c].protected = FALSE
                       /\ chunks[c].revision = 0
                       /\ chunks[c].pm = IF all THEN [rev |-> 0, keys |-> {}] ELSE nil
  BY <1>a, Zenon DEF NewMetaChunk
<1>f. \A c \in Chunk : all => chunks[c].pm.rev = 0 /\ Keys(c) = {} /\ chunks[c].pm # nil
  <2> SUFFICES ASSUME NEW c \in Chunk, all
               PROVE  chunks[c].pm.rev = 0 /\ Keys(c) = {} /\ chunks[c].pm # nil
    BY Zenon
  <2>1. chunks[c].pm = [rev |-> 0, keys |-> {}]
    BY <1>e, Zenon
  <2>2. chunks[c].pm # nil
    BY <1>c, <2>1, Zenon
  <2> HIDE CoreAssumption
  <2> QED
    BY <2>1, <2>2, SMT DEF Keys
<1>g. \A c \in Chunk : Files(c) = IF all THEN {0} ELSE {}
  BY <1>a, <1>c, Zenon DEF Files
<1>1. Types
  <2>1. StoreType
    <3>1. chunks \in [Chunk -> MetaChunk]
      BY <1>a, <1>d, Zenon
    <3>2. file \in [Chunk -> [Rev -> (SUBSET Key) \cup {nil}]]
      BY <1>a, Zenon
    <3>3. knownChunks \in Int
      BY <1>a
    <3> QED
      BY <1>b, <3>1, <3>2, <3>3, Zenon DEF StoreType
  <2>2. LockType
    BY <1>b, Zenon DEF LockType
  <2>3. DefragType
    BY <1>b, <1>c, SMTT(30) DEF DefragType, DefragState, Idle
  <2> QED
    BY <1>b, <2>1, <2>2, <2>3, Zenon DEF Types, IterType, TimerType
<1>2. LocksHeld
  BY <1>b, <1>e, <1>f, Zenon DEF LocksHeld, Idle
<1>3. RevisionsLeft
  <2> SUFFICES ASSUME NEW c \in Chunk
               PROVE  chunks[c].revision + Cardinality(Queued(defragChannel, c))
                          + Asked(c) + Pending(c) <= MaxRev
    BY Zenon DEF RevisionsLeft
  <2>1. Queued(defragChannel, c) = {}
    BY <1>b DEF Queued
  <2>2. Asked(c) = 0 /\ Pending(c) = 0
    BY <1>b, Zenon DEF Asked, Pending, Idle
  <2>3. Cardinality(Queued(defragChannel, c)) = 0
    BY <2>1, FS_EmptySet, Zenon
  <2>4. chunks[c].revision = 0
    BY <1>e, Zenon
  <2> QED
    BY <2>2, <2>3, <2>4
<1>4. PairsKept
  <2> SUFFICES ASSUME NEW c \in Chunk PROVE Kept(c)
    BY Zenon DEF PairsKept
  <2>1. CASE all
    <3>1. ~Copying(c)
      BY <1>b, Zenon DEF Copying, Idle
    <3>2. file[c][0] = {} /\ acked[c] = {}
      BY <1>a, <1>b, <1>c, <2>1, Zenon
    <3>3. /\ chunks[c].present /\ chunks[c].revision = 0 /\ chunks[c].pm.rev = 0
          /\ Keys(c) = {} /\ Files(c) = {0}
      BY <1>e, <1>f, <1>g, <2>1, Zenon
    <3> QED
      BY <3>1, <3>2, <3>3 DEF Kept
  <2>2. CASE ~all
    BY <1>e, <1>g, <2>2, Zenon DEF Kept
  <2> QED
    BY <2>1, <2>2, Zenon
<1>5. IterationsRight
  BY <1>b, Zenon DEF IterationsRight, NothingSkipped, DefragSparesRepair
<1>6. FlagsRight
  <2>1. ListIsSnapshot /\ ProtectionHasTimer
    BY <1>b, <1>e, Zenon DEF ListIsSnapshot, ProtectionHasTimer
  <2>2. CASE all
    <3>1. {c \in Chunk : chunks[c].present} = Chunk
      BY <1>e, <2>2, Zenon
    <3>2. Cardinality(Chunk) = NumChunks
      BY FS_Interval DEF Chunk
    <3> QED
      BY <1>a, <2>1, <2>2, <3>1, <3>2, Zenon DEF FlagsRight, KnownIsPresent
  <2>3. CASE ~all
    <3>1. {c \in Chunk : chunks[c].present} = {}
      BY <1>e, <2>3, Zenon
    <3> QED
      BY <1>a, <2>1, <2>3, <3>1, FS_EmptySet, Zenon DEF FlagsRight, KnownIsPresent
  <2> QED
    BY <2>2, <2>3, Zenon
<1> QED
  BY <1>1, <1>2, <1>3, <1>4, <1>5, <1>6, Zenon DEF CoreInv

(* Every step preserves it.                                                *)
LEMMA NextInv == CoreInv /\ [Next]_vars => CoreInv'
<1> SUFFICES ASSUME CoreInv, [Next]_vars PROVE CoreInv'
  BY Zenon
<1>1. Types'
  BY NextType, Zenon DEF CoreInv
<1> QED
  BY <1>1, NextLocks, NextRevisions, NextPairs, NextIterations, NextFlags, Zenon DEF CoreInv

(* The invariant holds in every reachable state.                           *)
THEOREM Invariance == Spec => []CoreInv
BY InitInv, NextInv, PTL DEF Spec

(* findChunk finds the complete file of a chunk: the only one or, during a *)
(* defragmentation, the older of the two.                                  *)
LEMMA KeptOnDisk ==
    ASSUME Types, PairsKept
    PROVE  KillSafe
<1> USE CoreAssumption
<1> SUFFICES ASSUME NEW c \in Chunk, ~opened, chunks[c].revision < 10
             PROVE  IF chunks[c].present
                    THEN Files(c) # {} /\ file[c][findChunk(c)] = acked[c]
                    ELSE proc = "up" => Files(c) = {}
  BY Zenon DEF KillSafe
<1>a. Kept(c) /\ chunks[c].revision \in Nat /\ Files(c) \subseteq Rev
  BY DEF PairsKept, Types, StoreType, MetaChunk, Rev, Files
<1>b. ASSUME NEW a \in Files(c), a < 10,
             \A q \in Files(c) : a <= q /\ q < 10
      PROVE  findChunk(c) = a
  <2>1. \A q \in Files(c) : q \in Nat /\ NameRank(q) = 11 * q
    <3>1. \A q \in Files(c) : q \in Rev /\ q < 10
      BY <1>a, <1>b, Zenon
    <3>2. \A q \in Rev : q < 10 => q \in Nat /\ NameRank(q) = 11 * q
      BY DEF NameRank, Rev
    <3> QED
      BY <3>1, <3>2, Zenon
  <2>2. \A q \in Files(c) : NameRank(a) <= NameRank(q)
    BY <1>b, <2>1
  <2>3. \A r \in Files(c) : (\A q \in Files(c) : NameRank(r) <= NameRank(q)) => r = a
    BY <1>b, <2>1
  <2>4. findChunk(c) \in Files(c) /\ \A q \in Files(c) : NameRank(findChunk(c)) <= NameRank(q)
    BY <2>2, Zenon DEF findChunk
  <2> QED
    BY <2>3, <2>4, Zenon
<1>1. CASE ~chunks[c].present
  BY <1>1, <1>a, Zenon DEF Kept
<1>2. CASE chunks[c].present /\ Copying(c)
  <2>1. PICK o \in Rev : o = defragmenter.old.rev
    BY <1>2, <1>a, Zenon DEF Kept
  <2>2. PICK r \in Rev : r = chunks[c].pm.rev
    BY <1>2, <1>a, Zenon DEF Kept
  <2>3. o < r /\ r < 10 /\ Files(c) = {o, r} /\ file[c][o] = acked[c]
    BY <1>2, <1>a, <2>1, <2>2, SMTT(30) DEF Kept, Rev
  <2>4. findChunk(c) = o
    BY <1>b, <2>3 DEF Rev
  <2> QED
    BY <1>2, <2>3, <2>4, Zenon
<1>3. CASE chunks[c].present /\ ~Copying(c)
  <2>1. PICK r \in Rev : r = chunks[c].pm.rev
    BY <1>3, <1>a, Zenon DEF Kept
  <2>2. r < 10 /\ Files(c) = {r} /\ file[c][r] = acked[c]
    BY <1>3, <1>a, <2>1, SMTT(30) DEF Kept, Rev
  <2>3. findChunk(c) = r
    BY <1>b, <2>2 DEF Rev
  <2> QED
    BY <1>3, <2>2, <2>3, Zenon
<1> QED
  BY <1>1, <1>2, <1>3, Zenon

(* A process comes up by opening the files.                                *)
LEMMA OpenFinds ==
    ASSUME KillSafe, [Next]_vars, proc # "up", proc' = "up", ~opened,
           NEW c \in Chunk, chunks[c].present, chunks[c].revision < 10
    PROVE  chunks'[c].present /\ chunks'[c].pm.keys = acked[c]
<1>1. Open
  <2>1. ~Setters
    BY Zenon DEF Setters, ChunkSetPresent, ChunkSetNoPresent, ChunkSetProtected,
           ProtectionExpires, Setting, Up
  <2>2. ~(FlagsLeft \/ UNCHANGED vars)
    BY OthersKeep, Zenon
  <2> QED
    BY <2>1, <2>2, Zenon DEF Next, FlagsLeft
<1>2. Files(c) # {} /\ file[c][findChunk(c)] = acked[c]
  BY Zenon DEF KillSafe
<1>3. chunks'[c] = OpenChunk(c)
  BY <1>1, Zenon DEF Open
<1> QED
  BY <1>2, <1>3 DEF OpenChunk, NewMetaChunk

-----------------------------------------------------------------------------
(* Theorems                                                                *)

(* The state of a Core keeps its types; in particular no defragmentation   *)
(* goes beyond the revisions it was asked for.                             *)
THEOREM TypeCorrect == Spec => []TypeOK
<1>1. CoreInv => TypeOK
  BY TypesDef, Zenon DEF CoreInv
<1> QED
  BY <1>1, Invariance, PTL

(* knownChunks counts the chunks that are present, in a process that has   *)
(* created its database.                                                   *)
THEOREM CounterRight == Spec => []KnownIsPresent
<1>1. CoreInv => KnownIsPresent
  BY Zenon DEF CoreInv, FlagsRight
<1> QED
  BY <1>1, Invariance, PTL

(* PresentChunksList returns the chunks present at one moment, although it *)
(* takes them one by one.                                                  *)
THEOREM ListRight == Spec => []ListIsSnapshot
<1>1. CoreInv => ListIsSnapshot
  BY Zenon DEF CoreInv, FlagsRight
<1> QED
  BY <1>1, Invariance, PTL

(* Every protected chunk has a goroutine that will end the protection.     *)
THEOREM TimerRight == Spec => []ProtectionHasTimer
<1>1. CoreInv => ProtectionHasTimer
  BY Zenon DEF CoreInv, FlagsRight
<1> QED
  BY <1>1, Invariance, PTL

(* A request that gets the lock of a present chunk reads exactly the pairs *)
(* acknowledged: neither a defragmentation nor a release loses one.        *)
THEOREM RequestsRead == Spec => []AckedReadable
<1>1. CoreInv => AckedReadable
  <2> SUFFICES ASSUME CoreInv, NEW c \in Chunk, Up(c), ~opened, chunks[c].present
               PROVE  chunks[c].pm # nil /\ Keys(c) = acked[c]
    BY Zenon DEF AckedReadable
  <2>1. chunks[c].pm # nil /\ ~Copying(c)
    BY Zenon DEF CoreInv, LocksHeld, Copying, Up
  <2>2. Kept(c)
    BY Zenon DEF CoreInv, PairsKept
  <2> QED
    BY <2>1, <2>2, Zenon DEF Kept
<1> QED
  BY <1>1, Invariance, PTL

(* A process killed at any moment, also in the middle of a                 *)
(* defragmentation, leaves files from which Open reads what was            *)
(* acknowledged, as long as the revision of the chunk is below 10.         *)
THEOREM FilesComplete == Spec => []KillSafe
<1>1. CoreInv => KillSafe
  BY KeptOnDisk, Zenon DEF CoreInv
<1> QED
  BY <1>1, Invariance, PTL

(* The first process that opens the files reads what was acknowledged.     *)
THEOREM OpenRight == Spec => OpenKeepsAcked
<1>1. CoreInv /\ [Next]_vars =>
          [proc # "up" /\ proc' = "up" /\ ~opened =>
             \A c \in Chunk : chunks[c].present /\ chunks[c].revision < 10 =>
                 chunks[c]'.present /\ Keys(c)' = acked[c]]_vars
  BY KeptOnDisk, OpenFinds, Zenon DEF CoreInv, Keys
<1> QED
  BY <1>1, Invariance, PTL DEF Spec, OpenKeepsAcked

(* A transfer visits every pair that stays in the chunk, though the chunk  *)
(* is unlocked while foreach runs.                                         *)
THEOREM TransferRight == Spec => []TransferDelivers
<1>1. CoreInv => TransferDelivers
  BY Zenon DEF CoreInv, IterationsRight, NothingSkipped, TransferDelivers
<1> QED
  BY <1>1, Invariance, PTL

(* The defragmenter never closes the PMap the repair system reads.         *)
THEOREM RepairSpared == Spec => []DefragSparesRepair
<1>1. CoreInv => DefragSparesRepair
  BY Zenon DEF CoreInv, IterationsRight
<1> QED
  BY <1>1, Invariance, PTL
=============================================================================
