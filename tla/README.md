# Treeless in TLA+

TLA+ models of [treeless](../src/README.md), a distributed key-value database in
Go: TLC checks them on small instances, TLAPS proves what matters most for every
instance. `PROJECT.json` names, for every definition, the lines of `src/` it
models, and for every run, property, mutant, finding, hazard and theorem what it is.

## The system

| Part | State | Operations | What is hard |
|---|---|---|---|
| PMap (`core/pmap`) | open-addressed index in RAM, append-only memory mapped file, checksum | Set, CAS, Del, Get, Iterate, expand, Open, Close | full index and full file, growth in the middle of a call, rebuilding the index after a kill, reserved hash values, equal timestamps |
| Core (`core/core.go`) | chunks (a PMap, flags, revision, two locks), counter of present chunks, files | requests, ChunkSet*, PresentChunksList, Iterate, BackwardsIterate, Open, Close | three kinds of locks, iterations that unlock, timers, kills |
| Defragmenter (`core/defrag.go`) | channel, goroutine | copies a chunk to a file of the next revision | replaces the PMap under everybody, two files in the directory |
| ServerGroup (`dist/servergroup`) | servers, held chunks, holders, connections | SetServerChunks, AddServerToGroup, RemoveServer, DeadServer, IsSynched, requests | one fact stored twice, stale lists |
| Heartbeater (`dist/heartbeat`) | timeouts, recently added and dead servers | request, gossip, reply | lost and late answers |
| Rebalancer (`dist/rebalance`) | duplication and release channels | duplicate, transfer, protect, release | decisions on stale views, two servers deciding at once |
| Repair (`dist/repair`) | failed checks per chunk | publishes the local chunks, repairs chunks whose checksums differ | iterates while the chunk changes |
| Server (`server`) | Core, ServerGroup, the goroutines above | Create, Assoc, Stop, request handlers | handlers run concurrently |
| Client (`client`) | ServerGroup, heartbeater | replicated Get with read repair, Set, CAS, Del | partial failure, concurrent writers |
| Broker, connections (`com`) | queue of timeouts, waiting requests, buffers | send, answer, timeout, flush, close | timers racing answers, locks held while sending |
| Protocol (`com/protocol`), hashing | none | encode, decode, FNV-1a | limits of buffers |

A server receives requests over TCP and gives them to its Core; a chunk of the Core
is a PMap.  Heartbeats carry each server's list of present chunks into the others'
ServerGroups, on which the rebalancer and the repair system of each decide.  Clients,
transfers and repairs reach a server through its VirtualServer, whose connection is
shared by goroutines and has a broker and a buffered connection underneath.

## Modules

- `PMap` — the index and the file.  Calls are steps; `expand` and `Open` are one
  step per iteration, so that a kill falls between them.  A record is kept by its
  position and its length in bytes.  `Get` and `Iterate` are operators.
  `LWWMap` is what a PMap promises, a durable last-writer-wins map; `MCPMap` has
  TLC's instance; `PMapProofs` the theorems on the index and the checksum,
  `PMapLogProofs` those on the file.
- `SyncChecksum` — the checksum that servers compare, with its windows of time.  A sum
  is the set of the changes added up in it.  Its theorems are in `PMapProofs`.  It has no
  run: its state is unbounded in every interesting case, and the proof is short.
- `Core` — the chunks of one server process, with a PMap reduced to its set of keys
  and its file's revision.  A request that holds one lock and never waits is one
  step; everything that waits with a lock, or lets go of it, has a step per part:
  the setters (`LockMutex`, then the work), the defragmenter (`DefragReceive`,
  `DefragLock`, `DefragNew`, `DefragCopy` per pair, `DefragEnd`), the two iterations,
  `PresentChunksList`, the protection timers.  `Close`, `Kill` and `Open` end and
  start the process.  `MCCore` has the instances, `CoreProofs` the theorems.
- `ServerGroup` — one node's record of servers, held chunks and holders, all under
  one mutex.
- `Heartbeat` — what changes the group of a node: it extends `ServerGroup` with the
  heartbeater, whose `request` is a stack of activations (retries, and questions
  about servers that an answer tells of), with the handler of OpAddServerToGroup, and
  with the repair loop and the releaser, which take the list of the local chunks and
  give it to the group later.  An exchange over UDP is one step, decoding included.
  `HeartbeatProofs` has the theorems on it and on `ServerGroup`.
- `Rebalance` — one chunk among several servers: heartbeats, the repair loop's own
  list, the duplicator and the releaser with the requests they send.  It composes
  what Core does with one chunk (present, protected) and what ServerGroup knows of
  it (the set of holders, which `HeartbeatProofs` shows to have no repetitions).
  A step ends wherever the code reads remote state, sends a request or calls a
  setter.  `RebalanceProofs` has its theorems.
- `Replica` — one pair on the holders of its chunk: the client's Set, Del, CAS and Get
  with read-repair, the servers' handlers, the repair loop of each server with its
  count of failed checks.  Each request is a message of its own, which can be late or
  lost; Get reads one holder per step.  What a holder does is `LWWMap` for one key.
  `ReplicaProofs` has its theorems.
- `Broker` — the requests of a node to one other server: `VirtualServer` with its
  RWMutex, and for each connection the three goroutines of the broker with the
  channel, `waits`, the queue of timeouts, the ticker and the pool of channels.  A
  deadline is the time left to it.  `MCBroker` has the instance, `BrokerProofs` the
  theorems.
- `BuffConn` — one direction of a buffered connection, byte by byte: `Write` (modes,
  buffer, big messages), the flusher, `Close`, the stream, `Read` with its buffer.
  `Channel` is what it promises, a queue that may end early: the bytes of the messages
  written are put in, what `Read` has returned is taken out.  `BuffConnProofs` has the
  theorems.

## Runs

| Run | Instance | Distinct states | Shows |
|---|---|---|---|
| `pmap` | 2 keys that collide, one with a reserved hash, 2 values, 2 timestamps, index of 2 growing to 4, a file of 73 bytes, 4 records | 86,616 | PMap implements LWWMap, also when puts and growth are refused; index, load, probing, checksum; the bytes counted as used and as deleted; nothing is written behind the end of the file; the index agrees with the file; Iterate covers |
| `core_progress` | 1 chunk, 4 defragmentations, channel of 1, 2 protections, the repair's iteration | 33,725 | a protection has its timer; protections end, Deletes return (fair) |
| `core_iterate` | a chunk of 2 keys, 2 defragmentations, both iterations; a second chunk; list; restarts | 5,924,805 | counter and list agree with the flags in every interleaving; acknowledged pairs are readable, in the files at every moment, delivered by transfers; the repair keeps its PMap |
| `heartbeat` | 3 servers, 1 chunk, 2 checksums, 2 changes, 3 lost exchanges | 477,874 | the two records agree, IsSynched is right; no server is buried for old failures; request ends, the group becomes accurate (fair) |
| `rebalance` | 2 servers, redundancy 1, lost requests | 3,534,974 | a release that had somebody to ask and that no other overlaps leaves a copy; the chunk and its pairs are lost in the two ways of the violation runs only |
| `broker` | 2 requests, one that waits with the lock, different timeouts, 2 connections | 310,986 | own answers, open connections, nobody waits for nothing, sorted queue; requests end (fair) |
| `buffconn` | 4 messages of 3 sizes and both modes, buffers of 4 and 6 bytes | 369,328 | BuffConn implements Channel; all messages are read, the flusher ends (fair) |
| `replica` | 2 holders, 3 writes, one of an empty value, or 2 with a Get and a loss | 1,018,005 | reads are fresh, CAS is atomic; the holders converge (fair) |

Runs expected to end in a violation state what a comment or a test of the
repository says and the code does not do; `findings` in `PROJECT.json` quotes each:

| Run | The code |
|---|---|
| `pmap_cas` | on an absent pair CAS writes when one of its two tests passes and the other does not |
| `core_reopen` | after a restart a defragmentation can truncate the file in use (the trace asks for one at the first Delete; in the code the sets and deletes before it must have left enough deleted bytes) |
| `rebalance_simultaneous` | two servers release the last two copies: the second has passed the test of its own protection before the first asks for it, and has nobody left to ask when it lists the holders |
| `rebalance_empty` | the data is released while the new copy is still empty |

### What the properties except

The models do at these places what the code does, and the properties of the passing
runs say where they do not hold:

- Get probes with the raw hash, Set with the re-mapped one: a key whose hash is 0 or
  1 is stored and not found (`IterateCovers`).
- Open panics on a file that is full but for 1 to 3 bytes: it reads a key length
  beyond its end when it has restored every record (`OpenPanics`), or, when the last
  one is a tombstone, the 8 bytes of a timestamp that tombstones do not have
  (`restorePairPanics`).  `StoreFits` says that it panics nowhere else.  It
  stops at a pair with an empty key (`pc = "early"`, which needs
  such a key: the instance of the run has none, the theorems cover it; with
  `KeyLen` 0 for one of the two keys the same instance has 90,306 distinct states and
  passes too).
- A Del whose tombstone does not fit is undone by Open (`Lost` in `ImplementsLWW`,
  `IndexMatchesLog`); a CAS whose put does not fit has changed the checksum
  (`ChecksumMatches`).
- CAS on an absent pair passes when either its timestamp or its hash is the neutral
  one: `LooseCAS` of `LWWMap`, a step of its own beside the `CAS` of the comment, and
  `Swaps` of `Replica`.
- Iterate visits an overwritten record with the timestamp of the stored one
  (`IterateCovers`).  Such a record comes before the stored one, unless Open could not
  grow the index: then it skips records, and may have indexed an earlier pair than the
  last one of its key.
- Open does not count the chunks it makes present (`KnownIsPresent`).
- The defragmenter closes the PMap of a transfer (`TransferDelivers`).
- The partial file of revision 10 is found before the one of revision 9 (`KillSafe`).
- BackwardsIterate takes the chunk's lock and then defragMutex, the defragmenter
  defragMutex and then the lock: they can block each other for ever, and then no
  protection of the chunk ends and no Delete returns (`Deadlocked` in
  `ProtectionEnds` and `DeleteReturns`, which say that nothing else has this effect).
- A deadline earlier than all others in the broker's queue displaces the head, which
  is no longer reached: its request may never time out, a later `push` may loop, and
  `clean` or `forall` may follow nil (`lost` in `WaiterKnown` and `RequestsEnd`).
- The activation of the broker's ticker is missed when the ticker is about to wait for
  it: the request waits until another one is sent (`Asleep` in `RequestsEnd`).
- `Write` sends the mode with writeMutex held, and the flusher may wait for it
  (`ModeDeadlock`); `Read` calls tcp.Read with an empty slice when the bytes left end
  at the end of its buffer (`Stuck`); `Delivered` excepts both, and connections that
  are closed, since Close does not flush.
- A write to a server that does not read has no deadline: To world stays in it, requests
  behind it wait in brokerSendChannel without a timeout, and the ticker is not activated
  for the one that is written (`Blocked` in `RequestsEnd`).
- The decoder of heartbeats never gets to the dead servers: `UnMarshal` returns none.
- A CAS of a client whose clock lags brings the pair's time back, a Del leaves nothing
  to compare times with: `FreshRead` and `CASOnce` except runs with `Backwards` or a
  Del.

### Bounds

Two keys that collide are enough for collisions, deleted buckets and probes past
them; an index of two buckets grows after one key; 73 bytes refuse the third or
fourth record by each kind of call, tombstones included.  (Files of 67 and of 83
bytes, 32,856 and 175,304 states, pass too.)  Two chunks show a setter and a list at
different places; the keys are all in one of them, since chunks share nothing but the
counter, the list and the channel; two keys show an iteration with a pair behind and a
pair ahead; two revisions show a defragmentation after another, and a re-opening
between them.  `MaxRev`, one waiting Delete per chunk and the protections' times
(`Stamp`) bound Core.

In Rebalance `MaxStale` bounds the lists taken and not applied, `MaxTransfers` the
transfers under way; one duplication and one queued release per server.  Two servers
with redundancy 1 are the smallest group in which a copy can move; the theorem covers
the others.

In Heartbeat `MaxChanges` bounds what the servers do (stop, start, get and release
chunks, have news) and `MaxLosses` the exchanges a server in service misses: three
bury one that lives.  Three servers let an answer tell of a third one.  In Broker
`MaxConn` = 2 lets the onClose of a connection meet its successor, and the request
with the shorter timeout comes second in the queue in some behaviours, which is the
case `push` gets wrong.  In BuffConn a message is as big as the write buffer allows,
or bigger than it, and four of them pass `Compact` and the end of the read buffer.
In Replica three writes let a CAS come back to a pair that a CAS before it has replaced,
with an empty value or not; a Get and a loss take the place of the third (`Spare`),
since together they have too many states.  The theorems on reads and CAS cover any
number.

Keys are symmetric where `SYMMETRY` is given, never in a run with fairness.

### Fairness

- `Core`: strong fairness for a goroutine that waits for a lock (sync.Mutex hands over
  to a waiter in starvation mode, and a waiter may be overtaken until then), for a
  send on the channel, and for timers that wake up.  Nothing makes a request or a
  setter's call arrive.
- `Heartbeat`: the loop of Start comes to every server of the group again and again
  (it ranges over all of them), an exchange ends with an answer or the time-out of
  UDPRequest, the repair loop goes on, a list that was taken is given to the group.
  After `MaxLosses` losses a server in service answers.
- `Broker`: goroutines run, the RWMutex is fair to readers and writers, time passes.
  A server need not answer, a connection need not break.  A write need not return, except
  that of a request with an answer once Read has failed, since From world then closes the
  connection.
- `BuffConn`: goroutines run; select does not pass over a ready case for ever, since
  Go chooses among ready cases at random (strong fairness of `FlusherOp`).  Nobody has
  to write or to close.
- `Replica`: a request that is not lost is processed, heartbeats and repair loops go
  on.  Clients need not call anything.

## Proofs

All for every value of the constants, under the `ASSUME`s of the modules, which TLC
evaluates on the instances.

- `PMapProofs` and `PMapLogProofs`, in six parts, the first three in `PMapProofs`.
  - The index: types, its load, the end of every probe, its soundness, the copying of
    `expand`.  That a bucket stays empty needs the count of the keys to bound the
    occupied buckets, in the index and in the one that `expand` fills, and that
    `expand` has copied no more than it has passed; that is the inductive invariant
    `Inv`, with the cardinality facts it rests on as lemmas.
  - The steps: `Index` is the set of the records that live buckets lead to, and every
    step is restated as what it does to `Index` and the store (`StepIs`: a call that
    writes, discards or is refused, a deletion, an expansion, a restored or skipped
    record, the end of the process).  The parts below know nothing of buckets.
  - The checksum (`Sums`): it is the sum over `Index`, unless a CAS was refused by a
    full file since the last opening.
  - The file (`Logged`): `Index` is the set of the pairs that no later record of the
    key follows (`Alive`).  During Open this needs that the index grows at the same
    records as in the replay before: the size and the count of the index are a function
    of the records replayed (`Replays`, `After`), so that a file whose every record was
    indexed once (`Healthy`) is indexed again, and an Open that met a full index at
    record p (`Wedged`) meets it there again; and that each tombstone deletes a pair
    (`WellFormed`), because restorePair indexes a tombstone that does not.  From it
    follow `IndexMatchesLog` and `IterateCovers`.
  - The refinement (`PMapImplementsLWW`): the pairs of `Index` are the map (`Pairs`,
    `ContentsIs`), each kind of step is a step of LWWMap or leaves the map alone
    (`StepMap`).  While the PMap is closed or opening, its map is the one it was closed
    with; that the one Open ends with is the same is `Logged`, together with `Kept`: the
    file says what was saved, unless a tombstone or an index entry was refused or a key
    is empty, and Open has passed no empty key.
  - The bytes (`Weighed`, `Fits`): the length of the store is the sum of the lengths of
    its records, and the bytes counted as deleted are, together with those of the pairs
    that are present, never more than it (`DeletedIsReclaimable`); so that the room that
    `put` sees is that of the file, however often it was opened (`StoreFits`).  When
    `restorePair` panics, the record it is at is a tombstone and has fewer than 4 bytes
    behind it, so that it is the last.  Both are inductive because different keys lead
    to different records; that Open counts every byte also needs the part on the file,
    since a tombstone that deletes nothing would be counted and indexed.  Between two
    openings `deleted` may be less than what could be reclaimed, because Set and CAS do
    not count the pair that they replace, nor Del its tombstone, as Open does.  What a
    sum over a finite set is (`SumAt`, `SumSplit`) is shown without an induction
    theorem: of the subsets for which an equation fails a smallest one is taken, since
    strict inclusion among finite sets is well-founded.
- `PMapProofs`, on `SyncChecksum`: each window holds the changes older than its time and
  none that is newer, and once no more changes come and the time has moved twice the sum
  compared is that of all of them.  When the time moves forward, the sum of the newest
  window becomes that of the next one: right only because every change so far is at most
  `newTime` old, which is the strengthening.
- `CoreProofs`: types; the counter, the list and the timers agree with the flags of the
  chunks; requests read what was acknowledged; the files hold it at every moment and
  the first process that opens them reads it (below revision 10); transfers skip
  nothing; the defragmenter spares the repair's PMap.  For any number of chunks, keys,
  protections, defragmentations and restarts.  The inductive invariant `CoreInv` has,
  besides the types: `LocksHeld`, who holds which lock and what that protects (the
  defragmenter that copies has both locks of its chunk, which is present; the repair
  system has one of the two; a list and a setter exclude each other); `PairsKept`, for
  each chunk what is in its PMap, what is still to be copied and what each of its files
  has; `RevisionsLeft`, that each defragmentation asked for, wherever the request is,
  has a revision left; `NothingSkipped`, that the pairs a transfer owes are ahead of
  it.  `AckedReadable` says nothing of a chunk that is locked, so that by itself it is
  not inductive: `PairsKept` says what the copy has reached.
- `HeartbeatProofs`, on the group: holders and held chunks agree, holders are distinct, dead
  servers hold nothing, IsSynched is agreement.  The first two need each other:
  `removeHolder` takes out one entry, so that none is left only if there was no
  second; a chunk not in the old list is not searched, so that there is no entry only
  if the lists matched.
- `HeartbeatProofs`, on the heartbeater: types; the four facts above of the group of a
  node under its heartbeater, handlers and local lists (`HeartbeatGroupAgrees`), whose
  steps change the group by the operations of `ServerGroup` only; failures are counted
  within the activation that asks.  The last needs the stack: the count of a server is
  not 0 only while it is at the top and no answer is being processed.
- `RebalanceProofs`: types; a release that no other overlaps, by a server that had
  another holder to ask when it listed them, leaves a copy, with any number of servers,
  any redundancy, lost requests and wrong views.  The invariant: such a release has
  someone left to ask, or another server holds the chunk; whoever granted the protection
  had the chunk, and only a release could take it away.  From it follows what can be
  lost at all: no duplication, transfer, death, wrong view or lost request takes a copy
  or a pair from anybody, the last copy goes in a release that is not alone, the last
  complete one in such a release or in one that leaves an incomplete copy
  (`LossHasCause`).
- `ReplicaProofs`: types; reads are fresh and CAS is atomic for any number of holders,
  writes, Gets and losses.  Without a Del or a CAS that goes back, no
  holder's pair becomes older, so that a holder that had the pair when Get began, and
  has not answered, still has it or a newer one; and each CAS that won has left its
  pair or a newer one at the master, so that no later one finds what it expected.

- `BrokerProofs`: types; a request gets its own result; nobody sends on a closed
  connection; a request that waits has its result, or its message is in the channel, or
  it is in `waits` with a timeout (unless `push` has lost an entry), or the broker loops
  in `push`; the queue of timeouts is sorted.  For any number of requests, timeouts,
  connections and failures. `BrokerInv` has, besides the types, `Apart` (two requests
  never wait on the same channel of results) and `LinkOK` for each connection: messages,
  entries of `waits` and results are those of requests that wait on just that channel, a
  request is in only one of the three places, and nobody waits on a channel that is in
  the pool; and `Known` for each request that waits. `OwnResult` alone is not inductive:
  an answer is delivered by way of `waits`, and a channel goes back to the pool when its
  request has ended, wherever its message is. The order of the queue needs only the
  types: `clean` takes a prefix, time never reverses two deadlines, and `push` inserts
  behind the deadlines that are not later, or replaces a head that is later, which is
  why an entry is lost and the order is not.
- `BuffConnProofs`: the bounds of both buffers; messages are read whole and in order.
  For any sizes of messages and buffers.  The inductive invariant `Stream` says that
  the bytes not yet returned, those on their way and those in the write buffer are
  three consecutive segments of the messages, from the first not returned, and up to
  the last one written while the connection stands; `BigFits` that a buffer made for
  a big message has bytes of that message only, without which the next message would
  be lost when Read drops the buffer.  That a segment begins with the whole of its
  first message is shown with the least byte that is out of place.
  From `Stream` follows that the connection implements `Channel`: Read's step takes the
  next message because its bytes are the first segment; a Write that waits to send its
  mode is still before `Close` (`Locked`), so that nothing is put into a closed queue.

Only model-checked: liveness (`ProtectionEnds`, `DeleteReturns`, `RequestEnds`,
`ViewConverges`, `RequestsEnd`, `Delivered`, `FlusherEnds`, `Converges`), because
fairness is out of the prover's reach.  Every safety property of a passing run has a
theorem.  The types of Core, Broker, Heartbeat, Rebalance and Replica, and `InOrder`,
which `ImplementsChannel` implies, are proved and in no run.

## Not modelled

- `com/comserver.go`: accepting connections, and stopping.  Its goroutine per
  connection is the reader of `BuffConn` and the caller of the handlers.
- The order of `DBServer.Stop` against running requests and loops: Core's `Close` is
  the end of the process, as it is in main.
- The layout of encoded fields, and heartbeats with more chunks than fit into their
  buffer (Marshal then panics); chunks with more than the 8 holders that
  GetChunkHolders can return.
- A kill in the middle of one put; a crash of the operating system (memory mapped
  pages may then be lost in any order); databases in RAM only; Create over the files
  of an older database; the size limit of a duplicated chunk.
- The end of a server that cannot connect to the target of a transfer: OpTransfer defers
  the Close of a nil connection, which panics; `Rebalance` has the loss of the pairs and
  keeps the server.
- Different views of the holders in clients that write the same pair, and pairs with
  equal timestamps (`Replica` fixes the holders and gives every write its own time).
- `tid` wrapping round after 2^32 messages.
- Hashing, the command line, the test harness.  Reads that change nothing are not
  steps.

## Plan

1. A file of single writes under PMap for torn records.
2. `DBServer.Stop` with requests under way; `Replica` with changing holders, composed
   with `Rebalance`.
