-------------------------------- MODULE Core --------------------------------
(***************************************************************************)
(* The chunk store of a server (src/core/core.go, src/core/defrag.go): the *)
(* chunks of the database, each a PMap behind a lock, the goroutine that   *)
(* defragments them, and the goroutines that iterate over them.            *)
(*                                                                         *)
(* A PMap is abstracted to the set of keys it holds (module PMap models    *)
(* what is inside) and to the revision in the name of its file.  A request *)
(* locks one chunk and does not block while it holds the lock: it is one   *)
(* step, enabled when the lock is free.  Every operation that holds a lock *)
(* while it waits, or that lets go of it and takes it again, has a step    *)
(* for each part.                                                          *)
(***************************************************************************)
EXTENDS Integers, Sequences, FiniteSets

CONSTANTS
    NumChunks,      \* chunks of the database
    Key,            \* keys
    ChunkOf,        \* the chunk that the hash of a key leads to
    BufferSize,     \* defragBufferSize, the capacity of defragChannel
    MaxRev,         \* bound on the revisions a chunk goes through
    Stamp,          \* times at which protections start; each Protect has its own
    Goroutines,     \* which of "list", "transfer", "repair" run
    Restarts,       \* whether the process may be stopped or killed
    nil

Chunk == 0 .. (NumChunks - 1)
Rev   == 0 .. MaxRev
PM    == [rev : Rev, keys : SUBSET Key]
noTime == 0         \* time.Time{}

MetaChunk == [pm : PM \cup {nil}, present : BOOLEAN, protected : BOOLEAN,
              protectionTime : Stamp \cup {noTime}, revision : Rev]
Setter    == [op : {"present", "absent", "protect", "expire"},
              chunk : Chunk, t : Stamp \cup {noTime}]
\* closed: "no", or what has closed the PMap that the iteration reads
Iteration == [chunk : Chunk, waiting : BOOLEAN, todo : SUBSET Key,
              owed : SUBSET Key, closed : {"no", "defrag", "release"}]
Listing   == [next : 0 .. NumChunks, ids : SUBSET Chunk]

ASSUME ChunkOfAssumption == ChunkOf \in [Key -> Chunk]

ASSUME CoreAssumption ==
    /\ NumChunks \in Nat \ {0} /\ BufferSize \in Nat \ {0} /\ MaxRev \in Nat
    /\ Stamp \subseteq Nat \ {noTime}
    /\ Goroutines \subseteq {"list", "transfer", "repair"}
    /\ Restarts \in BOOLEAN
    /\ nil \notin PM \cup Setter \cup Iteration \cup Listing
    /\ \A keys \in SUBSET Key : nil # keys

VARIABLES
    proc,           \* the server process: "up", "down", "panic"
    opened,         \* this process has opened the files of an earlier one
    chunks,         \* Core.chunks
    knownChunks,    \* Core.knownChunks
    file,           \* file[c][r]: the keys in the file <c>_rev<r>, or nil
    acked,          \* the keys set and not deleted since, as clients know them
    mutex,          \* Core.mutex: nil, or the setter that has it for writing
    list,           \* PresentChunksList, which has Core.mutex for reading
    lock,           \* the metaChunks' Mutex: "free" or its holder
    defragMutex,    \* the metaChunks' defragMutex
    defragChannel,  \* the channel of defragOps
    sending,        \* chunks whose Delete waits to send on defragChannel
    defragmenter,   \* the goroutine of newDefragmenter
    transfer,       \* an Iterate of OpTransfer, or nil
    repair,         \* the BackwardsIterate of the repair system, or nil
    timers          \* the goroutines of ChunkSetProtected that sleep

store  == <<proc, opened, chunks, knownChunks, file, acked>>
locks  == <<mutex, list, lock, defragMutex>>
defrag == <<defragChannel, sending, defragmenter>>
iters  == <<transfer, repair>>
vars   == <<store, locks, defrag, iters, timers>>

Idle      == [pc |-> "receive", chunk |-> 0, old |-> nil, todo |-> {}]

-----------------------------------------------------------------------------
(* Requests                                                                *)

Up(c)     == proc = "up" /\ lock[c] = "free"
Keys(c)   == chunks[c].pm.keys

\* The file of the PMap, if its name is still in the directory
Written(c, keys) ==
    LET r == chunks[c].pm.rev
    IN  IF file[c][r] = nil THEN file ELSE [file EXCEPT ![c][r] = keys]

Reads(it, c) == it # nil /\ it.chunk = c /\ it.closed = "no"

AppendedBehind(it, c, k) ==
    IF Reads(it, c) THEN [it EXCEPT !.todo = @ \ {k}] ELSE it

\* Iterate reads up to the present end of the store: a pair that is set again
\* is still ahead of it
Appended(it, c, k) ==
    IF Reads(it, c) THEN [it EXCEPT !.todo = @ \cup {k}] ELSE it

\* BackwardsIterate started at an earlier end: a pair that is set again is not
\* visited any more
Overwritten(it, c, k) ==
    IF Reads(it, c)
    THEN [it EXCEPT !.todo = @ \ {k}, !.owed = @ \ {k}]
    ELSE it

Set(c, k) ==
    /\ Up(c) /\ chunks[c].present
    /\ chunks' = [chunks EXCEPT ![c].pm.keys = @ \cup {k}]
    /\ file' = Written(c, Keys(c) \cup {k})
    /\ acked' = [acked EXCEPT ![c] = @ \cup {k}]
    /\ transfer' = Appended(transfer, c, k)
    /\ repair' = Overwritten(repair, c, k)
    /\ UNCHANGED <<proc, opened, knownChunks, locks, defrag, timers>>

\* The chunk is synchronised and the PMap accepts the swap
CAS(c, k) == Set(c, k)

\* Bounds: one Delete per chunk waits on the channel, and no more requests are
\* made for a chunk than MaxRev leaves room for
MayAsk(c) ==
    LET queued == Cardinality({i \in DOMAIN defragChannel : defragChannel[i] = c})
        busy   == IF defragmenter.pc # "receive" /\ defragmenter.chunk = c
                  THEN 1 ELSE 0
    IN  c \notin sending /\ chunks[c].revision + queued + busy < MaxRev

\* A defragmentation is asked for when more than a tenth of the used bytes is
\* deleted and more than a tenth of the chunk is used.  Bytes are not counted here:
\* any Delete may ask for one, where the code needs the sets and deletes before it
\* that have filled the file
Delete(c, k) ==
    /\ Up(c) /\ chunks[c].present
    /\ chunks' = [chunks EXCEPT ![c].pm.keys = @ \ {k}]
    /\ file' = Written(c, Keys(c) \ {k})
    /\ acked' = [acked EXCEPT ![c] = @ \ {k}]
    /\ transfer' = Overwritten(transfer, c, k)
    /\ repair' = Overwritten(repair, c, k)
    /\ \/ UNCHANGED sending
       \/ MayAsk(c) /\ sending' = sending \cup {c}
    /\ UNCHANGED <<proc, opened, knownChunks, locks, defragChannel,
                   defragmenter, timers>>

Room == Len(defragChannel) < BufferSize

\* c.defragChannel <- defragOp{chunkID: chunkIndex}, with the chunk unlocked
SendDefrag(c) ==
    /\ proc = "up" /\ c \in sending /\ Room
    /\ defragChannel' = Append(defragChannel, c)
    /\ sending' = sending \ {c}
    /\ UNCHANGED <<store, locks, defragmenter, iters, timers>>

-----------------------------------------------------------------------------
(* The defragmenter                                                        *)

\* Nothing the process held in memory matters once it has panicked
Panic == proc' = "panic" /\ UNCHANGED <<locks, defrag, iters, timers>>

\* The log line reads chunk.pm without the lock
DefragReceive ==
    /\ proc = "up" /\ defragmenter.pc = "receive" /\ defragChannel # <<>>
    /\ LET c == Head(defragChannel)
       IN  IF chunks[c].pm = nil
           THEN Panic
           ELSE /\ defragChannel' = Tail(defragChannel)
                /\ defragmenter' = [defragmenter EXCEPT !.pc = "defragMutex",
                                                        !.chunk = c]
                /\ UNCHANGED <<proc, locks, sending, iters, timers>>
    /\ UNCHANGED <<opened, chunks, knownChunks, file, acked>>

DefragMutexFreeAlways == TRUE
DefragMutexFree == defragMutex[defragmenter.chunk] = "free"

DefragLock ==
    /\ proc = "up" /\ defragmenter.pc = "defragMutex" /\ DefragMutexFree
    /\ defragMutex' = [defragMutex EXCEPT ![defragmenter.chunk] = "defrag"]
    /\ defragmenter' = [defragmenter EXCEPT !.pc = "lock"]
    /\ UNCHANGED <<store, mutex, list, lock, defragChannel, sending, iters, timers>>

\* New creates the file or truncates it.  When it is the file of the old PMap,
\* which is mapped, the old PMap reads zeros and has no pairs left.
OldPairs(old, r) == IF old.rev = r THEN {} ELSE old.keys

DefragLockedNot(c) == UNCHANGED lock
DefragLocked(c) == lock' = [lock EXCEPT ![c] = "defrag"]

NewFileOnly(c, r) == [file EXCEPT ![c][chunks[c].pm.rev] = nil, ![c][r] = {}]
NewFile(c, r) == [file EXCEPT ![c][r] = {}]

DefragNew ==
    LET c   == defragmenter.chunk
        old == chunks[c].pm
        r   == chunks[c].revision + 1
    IN  /\ Up(c) /\ defragmenter.pc = "lock"
        /\ chunks' = [chunks EXCEPT ![c].pm = [rev |-> r, keys |-> {}],
                                    ![c].revision = r]
        /\ file' = NewFile(c, r)
        /\ IF old = nil
           THEN Panic
           ELSE /\ DefragLocked(c)
                /\ defragmenter' = [defragmenter EXCEPT
                       !.pc = "copy", !.old = old, !.todo = OldPairs(old, r)]
                /\ UNCHANGED <<proc, mutex, list, defragMutex, defragChannel,
                               sending, iters, timers>>
        /\ UNCHANGED <<opened, knownChunks, acked>>

\* One call of the function passed to old.Iterate
DefragCopy(k) ==
    LET c == defragmenter.chunk
    IN  /\ proc = "up" /\ defragmenter.pc = "copy" /\ k \in defragmenter.todo
        /\ chunks' = [chunks EXCEPT ![c].pm.keys = @ \cup {k}]
        /\ file' = Written(c, Keys(c) \cup {k})
        /\ defragmenter' = [defragmenter EXCEPT !.todo = @ \ {k}]
        /\ UNCHANGED <<proc, opened, knownChunks, acked, locks, defragChannel,
                       sending, iters, timers>>

DefragUnlockNot(c) == UNCHANGED defragMutex
DefragUnlock(c) == defragMutex' = [defragMutex EXCEPT ![c] = "free"]

Closed(it, c, why) == IF Reads(it, c) THEN [it EXCEPT !.closed = why] ELSE it

\* old.CloseAndDelete() removes the file by its name; then both unlocks
DefragEnd ==
    LET c == defragmenter.chunk
    IN  /\ proc = "up" /\ defragmenter.pc = "copy" /\ defragmenter.todo = {}
        /\ file' = [file EXCEPT ![c][defragmenter.old.rev] = nil]
        /\ lock' = [lock EXCEPT ![c] = "free"]
        /\ DefragUnlock(c)
        /\ defragmenter' = Idle
        /\ transfer' = Closed(transfer, c, "defrag")
        /\ repair' = Closed(repair, c, "defrag")
        /\ UNCHANGED <<proc, opened, chunks, knownChunks, acked, mutex, list,
                       defragChannel, sending, timers>>

-----------------------------------------------------------------------------
(* Setters: each takes Core.mutex, then the lock of its chunk              *)

NotListedAlways == TRUE
NotListed == list = nil

LockMutex(s) ==
    /\ proc = "up" /\ mutex = nil /\ NotListed
    /\ mutex' = s
    /\ UNCHANGED <<store, list, lock, defragMutex, defrag, iters>>

CallSetter(op, c, t) ==
    /\ LockMutex([op |-> op, chunk |-> c, t |-> t])
    /\ UNCHANGED timers

\* The setter that has Core.mutex gets the lock of its chunk, does its work and
\* unlocks both
Setting(op) ==
    /\ mutex # nil /\ mutex.op = op /\ Up(mutex.chunk)
    /\ mutex' = nil
    /\ UNCHANGED <<proc, opened, list, lock, defragMutex, defrag>>

IsPresentNever(c) == FALSE
IsPresent(c) == chunks[c].present

ChunkSetPresent ==
    /\ Setting("present")
    /\ LET c == mutex.chunk
       IN  IF IsPresent(c)
           THEN UNCHANGED <<chunks, knownChunks, file, acked>>
           ELSE /\ chunks' = [chunks EXCEPT ![c].pm = [rev |-> 0, keys |-> {}],
                                            ![c].present = TRUE]
                /\ file' = [file EXCEPT ![c][0] = {}]
                /\ knownChunks' = knownChunks + 1
                /\ acked' = [acked EXCEPT ![c] = {}]
    /\ UNCHANGED <<iters, timers>>

ChunkSetNoPresent ==
    /\ Setting("absent")
    /\ LET c == mutex.chunk
       IN  IF ~chunks[c].present
           THEN UNCHANGED <<chunks, knownChunks, file, acked, iters>>
           ELSE /\ chunks' = [chunks EXCEPT ![c].pm = nil, ![c].present = FALSE,
                                            ![c].protected = FALSE]
                /\ file' = [file EXCEPT ![c][chunks[c].pm.rev] = nil]
                /\ knownChunks' = knownChunks - 1
                /\ acked' = [acked EXCEPT ![c] = {}]
                /\ transfer' = Closed(transfer, c, "release")
                /\ repair' = Closed(repair, c, "release")
    /\ UNCHANGED timers

SleepOnce(c, t) ==
    IF \E x \in timers : x.chunk = c THEN UNCHANGED timers
    ELSE timers' = timers \cup {[chunk |-> c, t |-> t]}

\* The goroutine that will disable the flag, named by the time it was started
Sleep(c, t) == timers' = timers \cup {[chunk |-> c, t |-> t]}

ChunkSetProtected ==
    /\ Setting("protect")
    /\ LET c == mutex.chunk
       IN  IF ~chunks[c].present
           THEN UNCHANGED <<chunks, timers>>
           ELSE /\ chunks' = [chunks EXCEPT ![c].protected = TRUE,
                                            ![c].protectionTime = mutex.t]
                /\ Sleep(c, mutex.t)
    /\ UNCHANGED <<knownChunks, file, acked, iters>>

\* A sleeping goroutine wakes up and takes Core.mutex
Wake(x) ==
    /\ x \in timers
    /\ LockMutex([op |-> "expire", chunk |-> x.chunk, t |-> x.t])
    /\ timers' = timers \ {x}

ProtectionExpires ==
    /\ Setting("expire")
    /\ LET c == mutex.chunk
       IN  chunks' = IF chunks[c].protectionTime = mutex.t
                     THEN [chunks EXCEPT ![c].protectionTime = noTime,
                                         ![c].protected = FALSE]
                     ELSE chunks
    /\ UNCHANGED <<knownChunks, file, acked, iters, timers>>

-----------------------------------------------------------------------------
(* PresentChunksList, with Core.mutex for reading                          *)

ListStart ==
    /\ proc = "up" /\ "list" \in Goroutines /\ list = nil /\ mutex = nil
    /\ IF knownChunks < 0               \* make panics: negative capacity
       THEN Panic
       ELSE /\ list' = [next |-> 0, ids |-> {}]
            /\ UNCHANGED <<proc, mutex, lock, defragMutex, defrag, iters, timers>>
    /\ UNCHANGED <<opened, chunks, knownChunks, file, acked>>

ListNext ==
    /\ proc = "up" /\ list # nil /\ list.next < NumChunks
    /\ IF chunks[list.next].present
       THEN /\ lock[list.next] = "free"
            /\ list' = [next |-> list.next + 1, ids |-> list.ids \cup {list.next}]
       ELSE list' = [list EXCEPT !.next = @ + 1]
    /\ UNCHANGED <<store, mutex, lock, defragMutex, defrag, iters, timers>>

ListEnd ==
    /\ proc = "up" /\ list # nil /\ list.next = NumChunks
    /\ list' = nil
    /\ UNCHANGED <<store, mutex, lock, defragMutex, defrag, iters, timers>>

-----------------------------------------------------------------------------
(* Iterations.  foreach runs with the chunk unlocked.                      *)

\* The first pair is passed to foreach; the others are to be visited
Visiting(c, k) ==
    [chunk |-> c, waiting |-> FALSE, todo |-> Keys(c) \ {k},
     owed |-> Keys(c) \ {k}, closed |-> "no"]

Visited(it, k) == [it EXCEPT !.todo = @ \ {k}, !.owed = @ \ {k}]

\* Iterate on an empty chunk does nothing
Iterate(c) ==
    /\ "transfer" \in Goroutines /\ transfer = nil
    /\ Up(c) /\ chunks[c].present
    /\ \E k \in Keys(c) : transfer' = Visiting(c, k)
    /\ UNCHANGED <<store, locks, defrag, repair, timers>>

\* foreach has returned: lock the chunk and read on, in a PMap that may have
\* been closed meanwhile
IterateNext ==
    /\ transfer # nil /\ Up(transfer.chunk)
    /\ IF transfer.closed # "no"
       THEN Panic
       ELSE /\ \/ \E k \in transfer.todo : transfer' = Visited(transfer, k)
               \/ transfer.todo = {} /\ transfer' = nil
            /\ UNCHANGED <<proc, locks, defrag, repair, timers>>
    /\ UNCHANGED <<opened, chunks, knownChunks, file, acked>>

\* BackwardsIterate locks the chunk and, holding it, waits for defragMutex
BackwardsIterate(c) ==
    /\ "repair" \in Goroutines /\ repair = nil
    /\ Up(c) /\ chunks[c].present
    /\ lock' = [lock EXCEPT ![c] = "repair"]
    /\ repair' = [chunk |-> c, waiting |-> TRUE, todo |-> {}, owed |-> {},
                  closed |-> "no"]
    /\ UNCHANGED <<store, mutex, list, defragMutex, defrag, transfer, timers>>

BackwardsFirst ==
    /\ proc = "up" /\ repair # nil /\ repair.waiting
    /\ LET c == repair.chunk
       IN  /\ defragMutex[c] = "free"
           /\ lock' = [lock EXCEPT ![c] = "free"]
           /\ IF Keys(c) = {}
              THEN repair' = nil /\ UNCHANGED defragMutex
              ELSE /\ defragMutex' = [defragMutex EXCEPT ![c] = "repair"]
                   /\ \E k \in Keys(c) : repair' = Visiting(c, k)
    /\ UNCHANGED <<store, mutex, list, defrag, transfer, timers>>

\* As IterateNext.  foreach stops the iteration when the chunk is synchronised,
\* and then nothing more is read; nor is it at the first record of the file.
BackwardsNext ==
    /\ repair # nil /\ ~repair.waiting /\ Up(repair.chunk)
    /\ \/ /\ repair.closed # "no"
          /\ Panic
       \/ /\ repair.closed = "no"
          /\ \E k \in repair.todo : repair' = Visited(repair, k)
          /\ UNCHANGED <<proc, locks, defrag, transfer, timers>>
       \/ /\ repair' = nil
          /\ defragMutex' = [defragMutex EXCEPT ![repair.chunk] = "free"]
          /\ UNCHANGED <<proc, mutex, list, lock, defrag, transfer, timers>>
    /\ UNCHANGED <<opened, chunks, knownChunks, file, acked>>

-----------------------------------------------------------------------------
(* The process                                                             *)

\* Close takes the lock of every chunk in turn; the process then exits
Close ==
    /\ Restarts /\ \A c \in Chunk : Up(c)
    /\ proc' = "down"
    /\ UNCHANGED <<opened, chunks, knownChunks, file, acked, locks, defrag,
                   iters, timers>>

\* The process is killed; the files are memory mapped and keep what was written
Kill ==
    /\ Restarts /\ proc = "up"
    /\ proc' = "down"
    /\ UNCHANGED <<opened, chunks, knownChunks, file, acked, locks, defrag,
                   iters, timers>>

\* ReadDir sorts by name, and _rev10 comes before _rev9 (revisions below 100)
NameRank(r) == IF r < 10 THEN 11 * r ELSE 11 * (r \div 10) + (r % 10) + 1

Files(c) == {r \in Rev : file[c][r] # nil}

findChunkLast(c) ==
    CHOOSE r \in Files(c) : \A q \in Files(c) : NameRank(r) >= NameRank(q)

\* The revision of the file found, for a chunk that has files
findChunk(c) ==
    CHOOSE r \in Files(c) : \A q \in Files(c) : NameRank(r) <= NameRank(q)

NewMetaChunk == [pm |-> nil, present |-> FALSE, protected |-> FALSE,
                 protectionTime |-> noTime, revision |-> 0]

OpenChunk(c) ==
    IF Files(c) = {}
    THEN NewMetaChunk
    ELSE LET r == findChunk(c)
         IN  [NewMetaChunk EXCEPT !.pm = [rev |-> r, keys |-> file[c][r]],
                                  !.present = TRUE]

\* A new process: New, then Open
Open ==
    /\ Restarts /\ proc \in {"down", "panic"}
    /\ proc' = "up" /\ opened' = TRUE
    /\ chunks' = [c \in Chunk |-> OpenChunk(c)]
    /\ knownChunks' = 0
    /\ mutex' = nil /\ list' = nil
    /\ lock' = [c \in Chunk |-> "free"] /\ defragMutex' = [c \in Chunk |-> "free"]
    /\ defragChannel' = <<>> /\ sending' = {} /\ defragmenter' = Idle
    /\ transfer' = nil /\ repair' = nil /\ timers' = {}
    /\ UNCHANGED <<file, acked>>

\* Without restarts a process that has panicked stays so
StayDown == ~Restarts /\ proc = "panic" /\ UNCHANGED vars

\* Create makes every chunk present, Assoc none
Init ==
    /\ proc = "up" /\ opened = FALSE
    /\ \E all \in BOOLEAN :
         /\ chunks = [c \in Chunk |->
                        IF all THEN [NewMetaChunk EXCEPT
                                       !.pm = [rev |-> 0, keys |-> {}],
                                       !.present = TRUE]
                               ELSE NewMetaChunk]
         /\ knownChunks = IF all THEN NumChunks ELSE 0
         /\ file = [c \in Chunk |-> [r \in Rev |->
                        IF all /\ r = 0 THEN {} ELSE nil]]
    /\ acked = [c \in Chunk |-> {}]
    /\ mutex = nil /\ list = nil
    /\ lock = [c \in Chunk |-> "free"] /\ defragMutex = [c \in Chunk |-> "free"]
    /\ defragChannel = <<>> /\ sending = {} /\ defragmenter = Idle
    /\ transfer = nil /\ repair = nil /\ timers = {}

Request == \E c \in Chunk, k \in Key :
    ChunkOf[k] = c /\ (Set(c, k) \/ CAS(c, k) \/ Delete(c, k))

FreeStamp == Stamp \ ({x.t : x \in timers} \cup {chunks[c].protectionTime : c \in Chunk})

Call == \E c \in Chunk :
    \/ CallSetter("present", c, noTime)
    \/ CallSetter("absent", c, noTime)
    \/ \E t \in FreeStamp : CallSetter("protect", c, t)

Setters == ChunkSetPresent \/ ChunkSetNoPresent \/ ChunkSetProtected \/ ProtectionExpires

Defragmenter ==
    DefragReceive \/ DefragLock \/ DefragNew \/ DefragEnd \/ \E k \in Key : DefragCopy(k)

Next ==
    \/ Request \/ (\E c \in Chunk : SendDefrag(c))
    \/ Defragmenter
    \/ Call \/ Setters \/ (\E x \in timers : Wake(x))
    \/ ListStart \/ ListNext \/ ListEnd
    \/ (\E c \in Chunk : Iterate(c)) \/ IterateNext
    \/ (\E c \in Chunk : BackwardsIterate(c)) \/ BackwardsFirst \/ BackwardsNext
    \/ Close \/ Kill \/ Open \/ StayDown

Spec == Init /\ [][Next]_vars

\* A goroutine that waits for a lock gets it if it is free again and again (the
\* starvation mode of sync.Mutex), one that can send on the channel does, and
\* sleeping goroutines wake up.  Nothing makes a request or a call arrive.
Fairness ==
    /\ \A c \in Chunk : SF_vars(SendDefrag(c))
    /\ SF_vars(Defragmenter)
    /\ SF_vars(Setters)
    /\ \A c \in Chunk, t \in Stamp : SF_vars(Wake([chunk |-> c, t |-> t]))
    /\ SF_vars(ListNext \/ ListEnd)
    /\ SF_vars(IterateNext)
    /\ SF_vars(BackwardsFirst \/ BackwardsNext)

FairSpec == Spec /\ Fairness

-----------------------------------------------------------------------------
(* Properties                                                              *)

TypeOK ==
    /\ proc \in {"up", "down", "panic"} /\ opened \in BOOLEAN
    /\ chunks \in [Chunk -> MetaChunk] /\ knownChunks \in Int
    /\ file \in [Chunk -> [Rev -> (SUBSET Key) \cup {nil}]]
    /\ acked \in [Chunk -> SUBSET Key]
    /\ mutex \in Setter \cup {nil}
    /\ list \in Listing \cup {nil}
    /\ lock \in [Chunk -> {"free", "defrag", "repair"}]
    /\ defragMutex \in [Chunk -> {"free", "defrag", "repair"}]
    /\ defragChannel \in Seq(Chunk) /\ Len(defragChannel) <= BufferSize
    /\ sending \subseteq Chunk
    /\ defragmenter \in [pc : {"receive", "defragMutex", "lock", "copy"},
                         chunk : Chunk, old : PM \cup {nil}, todo : SUBSET Key]
    /\ {transfer, repair} \subseteq Iteration \cup {nil}
    /\ timers \subseteq [chunk : Chunk, t : Stamp]

(* PresentChunks and the capacity of PresentChunksList come from           *)
(* knownChunks, which ChunkSetPresent and ChunkSetNoPresent count          *)
(* separately from the flags: in a process that has created its chunks the *)
(* two agree.                                                              *)
KnownIsPresent ==
    proc = "up" /\ ~opened =>
        knownChunks = Cardinality({c \in Chunk : chunks[c].present})

(* PresentChunksList takes the chunks one by one and lets requests through *)
(* in between; the list it returns is that of one moment: no chunk becomes *)
(* present or absent under it.                                             *)
ListIsSnapshot ==
    list # nil /\ proc = "up" =>
        list.ids = {c \in Chunk : c < list.next /\ chunks[c].present}

(* A request that gets the lock of a present chunk finds a PMap with       *)
(* exactly the pairs set and not deleted, whatever defragmentation,        *)
(* release and new presence the chunk went through.                        *)
AckedReadable ==
    \A c \in Chunk : Up(c) /\ ~opened /\ chunks[c].present =>
        chunks[c].pm # nil /\ Keys(c) = acked[c]

(* What Open would find if the process were killed now is what was         *)
(* acknowledged, also between any two steps of a defragmentation, which    *)
(* has a complete and a partial file in the directory.  Revisions below    *)
(* 10, in a process that has created its chunks.                           *)
KillSafe ==
    \A c \in Chunk : ~opened /\ chunks[c].revision < 10 =>
        IF chunks[c].present
        THEN Files(c) # {} /\ file[c][findChunk(c)] = acked[c]
        ELSE proc = "up" => Files(c) = {}

(* The first process that opens the files, after a Close, a kill or a      *)
(* panic at any moment, has every chunk that was present, with the pairs   *)
(* acknowledged.                                                           *)
OpenKeepsAcked ==
    [][proc # "up" /\ proc' = "up" /\ ~opened =>
         \A c \in Chunk : chunks[c].present /\ chunks[c].revision < 10 =>
             chunks[c]'.present /\ Keys(c)' = acked[c]]_vars

(* TestSingleOpen and TestMultiOpen, "to test the persistence": what was   *)
(* acknowledged is readable also in a process that has opened the files of *)
(* an earlier one.                                                         *)
ReopenedReadable ==
    \A c \in Chunk : Up(c) /\ chunks[c].present => acked[c] \subseteq Keys(c)

(* A transfer passes to foreach every pair that is in the chunk from the   *)
(* call of Iterate to its return, although the chunk is unlocked while     *)
(* foreach runs and pairs are set and deleted then.                        *)
TransferDelivers ==
    transfer # nil /\ transfer.closed = "no" /\ transfer.todo = {} => transfer.owed = {}

(* defragMutex protects the iteration of the repair system from the        *)
(* defragmenter, though the chunk is unlocked while foreach runs.          *)
DefragSparesRepair == repair # nil => repair.closed # "defrag"

(* A protected chunk has a goroutine that will disable the flag: the one   *)
(* of its last protection, however often it was renewed, released and made *)
(* present again.                                                          *)
ProtectionHasTimer ==
    \A c \in Chunk : chunks[c].protected =>
        LET t == chunks[c].protectionTime
        IN  \/ [chunk |-> c, t |-> t] \in timers
            \/ mutex = [op |-> "expire", chunk |-> c, t |-> t]

\* BackwardsIterate has the lock of a chunk and waits for defragMutex, which the
\* defragmenter has and waits for the lock.  Neither goes on, and who waits for the
\* chunk's lock with Core.mutex, or for room in the channel, does not either
Deadlocked ==
    /\ repair # nil /\ repair.waiting
    /\ defragmenter.pc = "lock" /\ defragmenter.chunk = repair.chunk

(* The comment of ChunkSetProtected: "The flag will be disabled            *)
(* automatically after a period of time".  Every protection ends or is     *)
(* renewed, as long as the process lives; only the deadlock of the repair  *)
(* system and the defragmenter keeps it for ever.                          *)
ProtectionEnds ==
    \A c \in Chunk, t \in Stamp :
        chunks[c].protected /\ chunks[c].protectionTime = t
            ~> \/ proc # "up" \/ Deadlocked
               \/ ~(chunks[c].protected /\ chunks[c].protectionTime = t)

(* A Delete that asks for a defragmentation returns: the channel it sends  *)
(* on is drained, also when it was full and the repair system keeps the    *)
(* defragmenter waiting, as long as the process lives and they have not    *)
(* deadlocked.                                                             *)
DeleteReturns ==
    \A c \in Chunk : c \in sending ~> c \notin sending \/ proc # "up" \/ Deadlocked
=============================================================================
