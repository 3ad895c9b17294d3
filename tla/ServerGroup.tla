----------------------------- MODULE ServerGroup -----------------------------
(***************************************************************************)
(* What one node knows of the group (src/dist/servergroup): the servers,   *)
(* the chunks each is known to hold, and for every chunk the list of its   *)
(* holders.  The same fact is stored twice, in VirtualServer.heldChunks    *)
(* and in VirtualChunk.holders.  All operations run under ServerGroup's    *)
(* mutex: each is one step.  A VirtualServer is named by its address.      *)
(***************************************************************************)
EXTENDS Integers, Sequences, FiniteSets

CONSTANTS
    Server,         \* addresses
    Chunk,          \* chunk IDs
    Checksum,       \* checksums that heartbeats carry
    none            \* no entry for a chunk in a heldChunks list

ASSUME GroupAssumption == none \notin Checksum

VARIABLES
    servers,        \* ServerGroup.servers, the addresses known
    dead,           \* VirtualServer.dead
    heldChunks,     \* heldChunks[s][c]: the checksum listed for c, or none
    holders         \* holders[c]: VirtualChunk.holders

vars == <<servers, dead, heldChunks, holders>>

\* A list of AmAliveChunk, which has every chunk ID at most once
ChunkList == [Chunk -> Checksum \cup {none}]
NoChunks  == [c \in Chunk |-> none]

-----------------------------------------------------------------------------
(* VirtualChunk                                                            *)

hasHolder(h, s) == \E i \in 1 .. Len(h) : h[i] = s

\* The last holder takes the place of the first entry of s
removeHolder(h, s) ==
    IF hasHolder(h, s)
    THEN LET i == CHOOSE i \in 1 .. Len(h) :
                     h[i] = s /\ \A j \in 1 .. (i - 1) : h[j] # s
         IN  [j \in 1 .. (Len(h) - 1) |-> IF j = i THEN h[Len(h)] ELSE h[j]]
    ELSE h

addHolder(h, s) == Append(h, s)

-----------------------------------------------------------------------------
(* ServerGroup                                                             *)

ForgetNot(s) == holders

\* Every chunk that s is listed to hold forgets s
Forget(s) ==
    [c \in Chunk |-> IF heldChunks[s][c] # none THEN removeHolder(holders[c], s)
                                                ELSE holders[c]]

ForgottenNever(s, cids, c) == FALSE
Forgotten(s, cids, c) == heldChunks[s][c] # none /\ cids[c] = none

Added(s, cids, c) == cids[c] # none /\ ~hasHolder(holders[c], s)

\* The chunks of the old list that are not in the new one forget s, then those
\* of the new list get it
Relisted(s, cids) ==
    [c \in Chunk |->
        IF Forgotten(s, cids, c) THEN removeHolder(holders[c], s)
        ELSE IF Added(s, cids, c) THEN addHolder(holders[c], s)
        ELSE holders[c]]

SetServerChunks(s, cids) ==
    /\ s \in servers
    /\ dead' = [dead EXCEPT ![s] = FALSE]
    /\ holders' = Relisted(s, cids)
    /\ heldChunks' = [heldChunks EXCEPT ![s] = cids]
    /\ UNCHANGED servers

ServerAlive(s) ==
    /\ s \in servers
    /\ dead' = [dead EXCEPT ![s] = FALSE]
    /\ UNCHANGED <<servers, heldChunks, holders>>

\* A new VirtualServer lists no chunks
AddServerToGroup(s) ==
    /\ s \notin servers
    /\ servers' = servers \cup {s}
    /\ dead' = [dead EXCEPT ![s] = FALSE]
    /\ heldChunks' = [heldChunks EXCEPT ![s] = NoChunks]
    /\ UNCHANGED holders

RemoveServer(s) ==
    /\ s \in servers
    /\ servers' = servers \ {s}
    /\ holders' = Forget(s)
    /\ heldChunks' = [heldChunks EXCEPT ![s] = NoChunks]    \* garbage
    /\ UNCHANGED dead

DeadServer(s) ==
    /\ s \in servers
    /\ dead' = [dead EXCEPT ![s] = TRUE]
    /\ holders' = Forget(s)
    /\ heldChunks' = [heldChunks EXCEPT ![s] = NoChunks]
    /\ UNCHANGED servers

\* CreateServerGroup, or UnmarhalServerGroup of the servers another node knows
Init ==
    /\ servers \in SUBSET Server
    /\ dead = [s \in Server |-> FALSE]
    /\ heldChunks = [s \in Server |-> NoChunks]
    /\ holders = [c \in Chunk |-> <<>>]

Next ==
    \E s \in Server :
        \/ \E cids \in ChunkList : SetServerChunks(s, cids)
        \/ ServerAlive(s) \/ AddServerToGroup(s) \/ RemoveServer(s) \/ DeadServer(s)

Spec == Init /\ [][Next]_vars

-----------------------------------------------------------------------------
(* Getters                                                                 *)

NumHolders(c) == Len(holders[c])

\* getChunk is nil where the entry is none, and IsSynched reads its Checksum
getChunk(s, c) == heldChunks[s][c]

IsSynchedButLast(c) ==
    Len(holders[c]) < 2 \/
    \A i \in 2 .. (Len(holders[c]) - 1) :
        getChunk(holders[c][1], c) = getChunk(holders[c][i], c)

\* Every holder is compared with the first one
IsSynched(c) ==
    Len(holders[c]) < 2 \/
    \A i \in 2 .. Len(holders[c]) :
        getChunk(holders[c][1], c) = getChunk(holders[c][i], c)

-----------------------------------------------------------------------------
(* Properties                                                              *)

TypeOK ==
    /\ servers \subseteq Server
    /\ dead \in [Server -> BOOLEAN]
    /\ heldChunks \in [Server -> ChunkList]
    /\ holders \in [Chunk -> Seq(Server)]

(* The two lists agree: a server is a holder of a chunk exactly when it    *)
(* lists the chunk.  IsSynched, which CAS calls, dereferences the entry of *)
(* every holder; and no holder is left behind by a server that was removed *)
(* or declared dead.                                                       *)
HoldersMatch ==
    \A c \in Chunk, s \in Server :
        hasHolder(holders[c], s) <=> s \in servers /\ heldChunks[s][c] # none

(* A server is in the list of holders of a chunk once: the number that     *)
(* rebalancing compares with the redundancy, and that OpProtect trusts,    *)
(* counts servers, however heartbeats and deaths were ordered.             *)
HoldersDistinct ==
    \A c \in Chunk : \A i, j \in 1 .. Len(holders[c]) :
        holders[c][i] = holders[c][j] => i = j

(* A server that is declared dead counts for no chunk until it is heard of *)
(* again.                                                                  *)
DeadHoldNothing ==
    \A s \in servers : dead[s] => \A c \in Chunk : ~hasHolder(holders[c], s)

(* IsSynched compares the holders with the first only, in the order of the *)
(* list; its answer is whether all servers known to hold the chunk have    *)
(* the same checksum.                                                      *)
SynchedIsAgreement ==
    \A c \in Chunk :
        IsSynched(c) <=>
            \A s, r \in servers :
                heldChunks[s][c] # none /\ heldChunks[r][c] # none
                    => heldChunks[s][c] = heldChunks[r][c]
=============================================================================
