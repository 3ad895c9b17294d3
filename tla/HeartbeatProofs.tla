-------------------------- MODULE HeartbeatProofs --------------------------
(***************************************************************************)
(* The server group and the heartbeater that drives it, for any servers,   *)
(* chunks, checksums and losses.                                           *)
(*                                                                         *)
(* The lists of holders and the lists of held chunks of a ServerGroup      *)
(* agree after any sequence of its operations.  The two invariants need    *)
(* each other: removeHolder takes out one entry, so that no holder is left *)
(* only if there was no second one, and SetServerChunks removes the holder *)
(* only of the chunks listed, so that there is none elsewhere only if the  *)
(* lists matched.                                                          *)
(*                                                                         *)
(* The heartbeater implements ServerGroup: what it does to the group are   *)
(* operations of ServerGroup, whose invariants hold therefore while        *)
(* heartbeats run.  And failures are counted within one request.           *)
(***************************************************************************)
EXTENDS Heartbeat, FiniteSetTheorems, TLAPS

-----------------------------------------------------------------------------
(* The group                                                               *)

Inv == TypeOK /\ HoldersMatch /\ HoldersDistinct /\ DeadHoldNothing

Distinct(h) == \A i, j \in 1 .. Len(h) : h[i] = h[j] => i = j

(* removeHolder, on a list without repetitions, returns such a list with   *)
(* the same holders but the one removed.                                   *)
LEMMA RemoveHolder ==
    ASSUME NEW h \in Seq(Server), NEW s \in Server, Distinct(h)
    PROVE  /\ removeHolder(h, s) \in Seq(Server)
           /\ Distinct(removeHolder(h, s))
           /\ \A r \in Server : hasHolder(removeHolder(h, s), r)
                                    <=> hasHolder(h, r) /\ r # s
<1>1. CASE ~hasHolder(h, s)
  BY <1>1 DEF removeHolder, hasHolder
<1>2. CASE hasHolder(h, s)
  <2> DEFINE first(i) == h[i] = s /\ \A j \in 1 .. (i - 1) : h[j] # s
             i == CHOOSE i \in 1 .. Len(h) : first(i)
             n == Len(h)
             g == [j \in 1 .. (n - 1) |-> IF j = i THEN h[n] ELSE h[j]]
  <2>1. PICK k \in 1 .. Len(h) : h[k] = s
    BY <1>2 DEF hasHolder
  <2>2. first(k)
    BY <2>1 DEF Distinct
  <2>3. i \in 1 .. Len(h) /\ h[i] = s
    BY <2>2
  <2>4. removeHolder(h, s) = g
    BY <1>2 DEF removeHolder
  <2> HIDE DEF i, first
  <2>5. n \in Nat /\ n - 1 \in Nat
    BY <2>1
  <2>6. g \in Seq(Server) /\ Len(g) = n - 1
    <3>1. \A j \in 1 .. (n - 1) : g[j] \in Server
      BY <2>5
    <3> QED
      BY <3>1, <2>5
  <2>7. Distinct(g)
    BY <2>3, <2>5, <2>6 DEF Distinct
  <2>8. ASSUME NEW r \in Server
        PROVE  hasHolder(g, r) <=> hasHolder(h, r) /\ r # s
    <3>1. ASSUME hasHolder(g, r)
          PROVE  hasHolder(h, r) /\ r # s
      <4>1. PICK j \in 1 .. (n - 1) : g[j] = r
        BY <3>1, <2>6 DEF hasHolder
      <4>2. CASE j = i
        BY <4>1, <4>2, <2>3, <2>5 DEF hasHolder, Distinct
      <4>3. CASE j # i
        BY <4>1, <4>3, <2>3, <2>5 DEF hasHolder, Distinct
      <4> QED BY <4>2, <4>3
    <3>2. ASSUME hasHolder(h, r), r # s
          PROVE  hasHolder(g, r)
      <4>1. PICK j \in 1 .. n : h[j] = r
        BY <3>2 DEF hasHolder
      <4>2. j # i
        BY <4>1, <3>2, <2>3
      <4>3. CASE j = n
        <5>1. i \in 1 .. (n - 1)
          BY <4>2, <4>3, <2>3, <2>5
        <5>2. g[i] = r
          BY <5>1, <4>1, <4>3
        <5> QED BY <5>1, <5>2, <2>6, Zenon DEF hasHolder
      <4>4. CASE j # n
        <5>1. j \in 1 .. (n - 1) /\ g[j] = r
          BY <4>1, <4>2, <4>4, <2>5
        <5> QED BY <5>1, <2>6 DEF hasHolder
      <4> QED BY <4>3, <4>4
    <3> QED BY <3>1, <3>2
  <2> QED
    BY <2>4, <2>6, <2>7, <2>8
<1> QED
  BY <1>1, <1>2

(* addHolder, of a server that is not in a list without repetitions,       *)
(* returns such a list with the same holders and that one.                 *)
LEMMA AddHolder ==
    ASSUME NEW h \in Seq(Server), NEW s \in Server, Distinct(h), ~hasHolder(h, s)
    PROVE  /\ addHolder(h, s) \in Seq(Server)
           /\ Distinct(addHolder(h, s))
           /\ \A r \in Server : hasHolder(addHolder(h, s), r)
                                    <=> hasHolder(h, r) \/ r = s
<1> DEFINE g == addHolder(h, s)
           n == Len(h)
<1>1. n \in Nat /\ g \in Seq(Server) /\ Len(g) = n + 1
  BY DEF addHolder
<1>2. g[n + 1] = s /\ \A i \in 1 .. n : g[i] = h[i]
  BY DEF addHolder
<1> HIDE DEF g
<1>3. Distinct(g)
  BY <1>1, <1>2 DEF Distinct, hasHolder
<1>4. ASSUME NEW r \in Server
      PROVE  hasHolder(g, r) <=> hasHolder(h, r) \/ r = s
  BY <1>1, <1>2 DEF hasHolder
<1> QED
  BY <1>1, <1>3, <1>4 DEF g

(* What holders becomes when s is taken out of every chunk it lists, as    *)
(* RemoveServer and DeadServer do.                                         *)
LEMMA Forgets ==
    ASSUME Inv, NEW s \in servers
    PROVE  /\ Forget(s) \in [Chunk -> Seq(Server)]
           /\ \A c \in Chunk : Distinct(Forget(s)[c])
           /\ \A c \in Chunk, r \in Server :
                hasHolder(Forget(s)[c], r) <=> hasHolder(holders[c], r) /\ r # s
<1> USE DEF Inv, TypeOK
<1>1. s \in Server
  OBVIOUS
<1>2. ASSUME NEW c \in Chunk
      PROVE  /\ Forget(s)[c] \in Seq(Server) /\ Distinct(Forget(s)[c])
             /\ \A r \in Server : hasHolder(Forget(s)[c], r)
                                      <=> hasHolder(holders[c], r) /\ r # s
  <2>1. holders[c] \in Seq(Server) /\ Distinct(holders[c])
    BY DEF HoldersDistinct, Distinct
  <2>2. CASE heldChunks[s][c] # none
    <3>1. Forget(s)[c] = removeHolder(holders[c], s)
      BY <2>2 DEF Forget
    <3> QED BY <3>1, <2>1, <1>1, RemoveHolder
  <2>3. CASE heldChunks[s][c] = none
    <3>1. Forget(s)[c] = holders[c]
      BY <2>3 DEF Forget
    <3>2. ~hasHolder(holders[c], s)
      BY <2>3, <1>1 DEF HoldersMatch
    <3> QED BY <3>1, <3>2, <2>1
  <2> QED BY <2>2, <2>3
<1>3. Forget(s) = [c \in Chunk |-> Forget(s)[c]]
  BY DEF Forget
<1> QED
  BY <1>2, <1>3

(* What holders becomes when s reports the list cids, as SetServerChunks   *)
(* computes it.                                                            *)
LEMMA Relists ==
    ASSUME Inv, NEW s \in servers, NEW cids \in ChunkList
    PROVE  /\ Relisted(s, cids) \in [Chunk -> Seq(Server)]
           /\ \A c \in Chunk : Distinct(Relisted(s, cids)[c])
           /\ \A c \in Chunk, r \in Server :
                hasHolder(Relisted(s, cids)[c], r) <=>
                    IF r = s THEN cids[c] # none ELSE hasHolder(holders[c], r)
<1> USE DEF Inv, TypeOK
<1>1. s \in Server
  OBVIOUS
<1>2. ASSUME NEW c \in Chunk
      PROVE  /\ Relisted(s, cids)[c] \in Seq(Server)
             /\ Distinct(Relisted(s, cids)[c])
             /\ \A r \in Server : hasHolder(Relisted(s, cids)[c], r) <=>
                    IF r = s THEN cids[c] # none ELSE hasHolder(holders[c], r)
  <2>1. holders[c] \in Seq(Server) /\ Distinct(holders[c])
    BY DEF HoldersDistinct, Distinct
  <2>2. hasHolder(holders[c], s) <=> heldChunks[s][c] # none
    BY <1>1 DEF HoldersMatch
  <2>3. CASE Forgotten(s, cids, c)
    <3>1. Relisted(s, cids)[c] = removeHolder(holders[c], s) /\ cids[c] = none
      BY <2>3 DEF Relisted, Forgotten
    <3>2. /\ Relisted(s, cids)[c] \in Seq(Server) /\ Distinct(Relisted(s, cids)[c])
          /\ \A r \in Server : hasHolder(Relisted(s, cids)[c], r)
                                   <=> hasHolder(holders[c], r) /\ r # s
      BY <3>1, <2>1, <1>1, RemoveHolder
    <3> QED BY <3>1, <3>2
  <2>4. CASE Added(s, cids, c)
    <3>1. /\ Relisted(s, cids)[c] = addHolder(holders[c], s)
          /\ cids[c] # none /\ ~hasHolder(holders[c], s)
      BY <2>4 DEF Relisted, Forgotten, Added
    <3> QED BY <3>1, <2>1, <1>1, AddHolder
  <2>5. CASE ~Forgotten(s, cids, c) /\ ~Added(s, cids, c)
    <3>1. Relisted(s, cids)[c] = holders[c]
      BY <2>5 DEF Relisted
    <3>2. hasHolder(holders[c], s) <=> cids[c] # none
      BY <2>5, <2>2 DEF Forgotten, Added
    <3> QED BY <3>1, <3>2, <2>1
  <2> QED BY <2>3, <2>4, <2>5
<1>3. Relisted(s, cids) = [c \in Chunk |-> Relisted(s, cids)[c]]
  BY DEF Relisted
<1> QED
  BY <1>2, <1>3

(* A new ServerGroup knows servers but no chunks of theirs.                *)
LEMMA InitInv == Init => Inv
<1> SUFFICES ASSUME Init PROVE Inv
  OBVIOUS
<1>1. TypeOK
  BY DEF Init, TypeOK, NoChunks, ChunkList
<1>2. \A c \in Chunk : holders[c] = <<>>
  BY DEF Init
<1>3. \A c \in Chunk, s \in Server : ~hasHolder(holders[c], s)
  BY <1>2 DEF hasHolder
<1>4. HoldersMatch /\ DeadHoldNothing
  BY <1>1, <1>3 DEF HoldersMatch, DeadHoldNothing, Init, NoChunks, TypeOK
<1>5. HoldersDistinct
  BY <1>2 DEF HoldersDistinct
<1> QED
  BY <1>1, <1>4, <1>5 DEF Inv

(* Every operation of ServerGroup preserves the invariant.                 *)
LEMMA NextInv == Inv /\ [Next]_vars => Inv'
<1> SUFFICES ASSUME Inv, [Next]_vars PROVE Inv'
  OBVIOUS
<1>T. NoChunks \in ChunkList /\ \A c \in Chunk : NoChunks[c] = none
  BY DEF NoChunks, ChunkList
<1>1. ASSUME NEW s \in Server, NEW cids \in ChunkList, SetServerChunks(s, cids)
      PROVE  Inv'
  <2>1. /\ holders' \in [Chunk -> Seq(Server)]
        /\ \A c \in Chunk : Distinct(holders'[c])
        /\ \A c \in Chunk, r \in Server : hasHolder(holders'[c], r) <=>
               IF r = s THEN cids[c] # none ELSE hasHolder(holders[c], r)
    BY <1>1, Relists DEF SetServerChunks
  <2>2. /\ heldChunks' = [heldChunks EXCEPT ![s] = cids] /\ servers' = servers
        /\ dead' = [dead EXCEPT ![s] = FALSE] /\ s \in servers
    BY <1>1 DEF SetServerChunks
  <2>3. TypeOK'
    BY <2>1, <2>2 DEF Inv, TypeOK
  <2>4. HoldersMatch'
    BY <2>1, <2>2 DEF Inv, TypeOK, HoldersMatch
  <2>5. HoldersDistinct'
    BY <2>1 DEF HoldersDistinct, Distinct
  <2>6. DeadHoldNothing'
    BY <2>1, <2>2 DEF Inv, TypeOK, DeadHoldNothing
  <2> QED BY <2>3, <2>4, <2>5, <2>6 DEF Inv
<1>2. ASSUME NEW s \in Server, ServerAlive(s)
      PROVE  Inv'
  BY <1>2 DEF ServerAlive, Inv, TypeOK, HoldersMatch, HoldersDistinct, DeadHoldNothing
<1>3. ASSUME NEW s \in Server, AddServerToGroup(s)
      PROVE  Inv'
  <2>1. \A c \in Chunk : ~hasHolder(holders[c], s)
    BY <1>3 DEF AddServerToGroup, Inv, HoldersMatch
  <2>2. /\ heldChunks' = [heldChunks EXCEPT ![s] = NoChunks]
        /\ servers' = servers \cup {s} /\ holders' = holders
        /\ dead' = [dead EXCEPT ![s] = FALSE]
    BY <1>3 DEF AddServerToGroup
  <2>3. TypeOK'
    BY <2>2, <1>T DEF Inv, TypeOK
  <2>4. HoldersMatch'
    BY <2>1, <2>2, <1>T DEF Inv, TypeOK, HoldersMatch
  <2>5. HoldersDistinct' /\ DeadHoldNothing'
    BY <2>1, <2>2 DEF Inv, TypeOK, HoldersDistinct, DeadHoldNothing
  <2> QED BY <2>3, <2>4, <2>5 DEF Inv
<1>4. ASSUME NEW s \in Server, RemoveServer(s) \/ DeadServer(s)
      PROVE  Inv'
  <2>0. /\ s \in servers /\ holders' = Forget(s)
        /\ heldChunks' = [heldChunks EXCEPT ![s] = NoChunks]
        /\ \/ servers' = servers /\ dead' = [dead EXCEPT ![s] = TRUE]
           \/ servers' = servers \ {s} /\ dead' = dead
    BY <1>4 DEF RemoveServer, DeadServer
  <2>1. /\ holders' \in [Chunk -> Seq(Server)]
        /\ \A c \in Chunk : Distinct(holders'[c])
        /\ \A c \in Chunk, r \in Server :
               hasHolder(holders'[c], r) <=> hasHolder(holders[c], r) /\ r # s
    BY <2>0, Forgets
  <2>3. TypeOK'
    BY <2>0, <2>1, <1>T, Zenon DEF Inv, TypeOK
  <2>4. HoldersMatch'
    BY <2>0, <2>1, <1>T DEF Inv, TypeOK, HoldersMatch
  <2>5. HoldersDistinct'
    BY <2>1 DEF HoldersDistinct, Distinct
  <2>6. DeadHoldNothing'
    BY <2>0, <2>1 DEF Inv, TypeOK, DeadHoldNothing
  <2> QED BY <2>3, <2>4, <2>5, <2>6 DEF Inv
<1>5. CASE UNCHANGED vars
  BY <1>5 DEF vars, Inv, TypeOK, HoldersMatch, HoldersDistinct, DeadHoldNothing
<1> QED
  BY <1>1, <1>2, <1>3, <1>4, <1>5 DEF Next

(* The invariant holds in every state a ServerGroup can reach.             *)
THEOREM GroupInv == Spec => []Inv
  BY InitInv, NextInv, PTL DEF Spec

(* A server is a holder of a chunk exactly when its list of held chunks    *)
(* has the chunk: the entry that IsSynched dereferences is always there.   *)
THEOREM HoldersAlwaysMatch == Spec => []HoldersMatch
<1>1. Inv => HoldersMatch
  BY DEF Inv
<1> QED
  BY <1>1, GroupInv, PTL

(* NumHolders counts every holder of a chunk once.                         *)
THEOREM HoldersAlwaysDistinct == Spec => []HoldersDistinct
<1>1. Inv => HoldersDistinct
  BY DEF Inv
<1> QED
  BY <1>1, GroupInv, PTL

(* A server that is declared dead is a holder of no chunk.                 *)
THEOREM DeadAlwaysHoldNothing == Spec => []DeadHoldNothing
<1>1. Inv => DeadHoldNothing
  BY DEF Inv
<1> QED
  BY <1>1, GroupInv, PTL

(* IsSynched compares the holders in the list with its first; since the    *)
(* list has exactly the servers that report the chunk, its answer is that  *)
(* all their checksums are equal.                                          *)
THEOREM SynchedAlwaysAgreement == Spec => []SynchedIsAgreement
<1>1. Inv => SynchedIsAgreement
  <2> SUFFICES ASSUME Inv, NEW c \in Chunk
               PROVE  IsSynched(c) <=>
                        \A s, r \in servers :
                            heldChunks[s][c] # none /\ heldChunks[r][c] # none
                                => heldChunks[s][c] = heldChunks[r][c]
    BY DEF SynchedIsAgreement
  <2> DEFINE h == holders[c]
             n == Len(h)
  <2>1. h \in Seq(Server) /\ n \in Nat
    BY DEF Inv, TypeOK
  <2>2. \A i \in 1 .. n : h[i] \in servers /\ heldChunks[h[i]][c] # none
    BY <2>1 DEF Inv, HoldersMatch, hasHolder
  <2>3. \A s \in servers : heldChunks[s][c] # none => \E i \in 1 .. n : h[i] = s
    BY DEF Inv, TypeOK, HoldersMatch, hasHolder
  <2>4. IsSynched(c) <=> n < 2 \/ \A i \in 2 .. n :
                             heldChunks[h[1]][c] = heldChunks[h[i]][c]
    BY DEF IsSynched, getChunk
  <2> HIDE DEF h, n
  <2>5. ASSUME IsSynched(c), NEW s \in servers, NEW r \in servers,
               heldChunks[s][c] # none, heldChunks[r][c] # none
        PROVE  heldChunks[s][c] = heldChunks[r][c]
    <3>1. PICK i \in 1 .. n : h[i] = s
      BY <2>3, <2>5
    <3>2. PICK j \in 1 .. n : h[j] = r
      BY <2>3, <2>5
    <3>3. \A k \in 1 .. n : heldChunks[h[1]][c] = heldChunks[h[k]][c]
      BY <2>1, <2>4, <2>5
    <3> QED BY <3>1, <3>2, <3>3
  <2>6. ASSUME \A s, r \in servers :
                  heldChunks[s][c] # none /\ heldChunks[r][c] # none
                      => heldChunks[s][c] = heldChunks[r][c]
        PROVE  IsSynched(c)
    <3>1. CASE n < 2
      BY <3>1, <2>4
    <3>2. CASE n >= 2
      <4>1. 1 \in 1 .. n /\ \A i \in 2 .. n : i \in 1 .. n
        BY <2>1, <3>2
      <4>2. \A i \in 2 .. n : heldChunks[h[1]][c] = heldChunks[h[i]][c]
        BY <4>1, <2>2, <2>6
      <4> QED BY <4>2, <2>4
    <3> QED BY <2>1, <3>1, <3>2
  <2> QED
    BY <2>5, <2>6
<1> QED
  BY <1>1, GroupInv, PTL

-----------------------------------------------------------------------------
(* The heartbeater                                                         *)

Entry   == [addr : Server, why : {"none", "added", "dead"}]
AmAlive == [KnownChunks : ChunkList, added : SUBSET Server, dead : SUBSET Server]

(* What keeps CountIsCurrent: the activation that counts is innermost, has *)
(* its check behind it and is not about this node, so that it is not       *)
(* skipped.                                                                *)
Counting ==
    \A s \in Server : timeouts[s] > 0 =>
        stack # <<>> /\ Top = [addr |-> s, why |-> "none"] /\ aa = none /\ s # me

HBInv == HBTypeOK /\ Inv /\ Counting

-----------------------------------------------------------------------------
(* Sequences: what Again leaves on the stack.                              *)
LEMMA AgainStack ==
    ASSUME stack \in Seq(Entry), stack # <<>>
    PROVE  /\ Again \in Seq(Entry) /\ Again # <<>> /\ Tail(stack) \in Seq(Entry)
           /\ Head(Again) = [addr |-> Top.addr, why |-> "none"] /\ Top \in Entry
<1>1. Top \in Entry /\ Tail(stack) \in Seq(Entry)
  BY DEF Top
<1>2. [Top EXCEPT !.why = "none"] \in Entry
        /\ [Top EXCEPT !.why = "none"] = [addr |-> Top.addr, why |-> "none"]
  BY <1>1 DEF Entry
<1>3. <<[Top EXCEPT !.why = "none"]>> \in Seq(Entry)
  BY <1>2
<1> QED BY <1>1, <1>2, <1>3 DEF Again

(* The steps that change the group are operations of ServerGroup, and the  *)
(* others leave it alone.                                                  *)
LEMMA GroupSteps == HBTypeOK /\ [HBNext]_hbvars => [Next]_vars
<1> SUFFICES ASSUME HBTypeOK, [HBNext]_hbvars PROVE [Next]_vars
  OBVIOUS
<1>1. CASE UNCHANGED hbvars
  BY <1>1 DEF hbvars, vars
<1>2. CASE Skips
  BY <1>2 DEF Skips, group
<1>3. CASE Lists \/ Releases
  BY <1>3 DEF Lists, Releases, group
<1>4. ASSUME NEW s \in Server, Round(s) \/ Answers(s) \/ cleanNews(s) \/ Changes(s)
      PROVE  UNCHANGED vars
  BY <1>4 DEF Round, Answers, cleanNews, Changes, group
<1>5. ASSUME NEW s \in Server, Fails(s) PROVE [Next]_vars
  BY <1>5 DEF Fails, group, Next
<1>6. ASSUME NEW s \in Server, Adds(s) PROVE Next
  BY <1>6 DEF Adds, Next
<1>7. ASSUME NEW s \in Server, Processes(s) PROVE Next
  <2>1. aa.KnownChunks \in ChunkList
    BY <1>7 DEF Processes, HBTypeOK
  <2> QED BY <1>7, <2>1 DEF Processes, Next
<1>8. ASSUME NEW s \in Server, OpAddServerToGroup(s) PROVE [Next]_vars
  BY <1>8 DEF OpAddServerToGroup, group, Next
<1>9. ASSUME NEW g \in Lister, SetsLocal(g) PROVE Next
  <2>1. local[g] \in ChunkList
    BY <1>9 DEF SetsLocal, HBTypeOK
  <2> QED BY <1>9, <2>1, HeartbeatAssumption DEF SetsLocal, Next
<1> QED BY <1>1, <1>2, <1>3, <1>4, <1>5, <1>6, <1>7, <1>8, <1>9 DEF HBNext

-----------------------------------------------------------------------------
(* Types.                                                                  *)
LEMMA HBNextType == HBTypeOK /\ TypeOK' /\ [HBNext]_hbvars => HBTypeOK'
<1> SUFFICES ASSUME HBTypeOK, TypeOK', [HBNext]_hbvars PROVE HBTypeOK'
  OBVIOUS
<1>0. /\ stack \in Seq(Entry) /\ aa \in AmAlive \cup {none} /\ timeouts \in [Server -> 0 .. 2]
      /\ has \in [Server -> ChunkList] /\ tells \in [Server -> SUBSET Server]
      /\ buries \in [Server -> SUBSET Server] /\ me \in Server
      /\ MaxChanges \in Nat /\ MaxLosses \in Nat
  BY HeartbeatAssumption DEF HBTypeOK, Entry, AmAlive, timeoutRetries
<1> DEFINE T(st, a, ti) == /\ st \in Seq(Entry) /\ a \in AmAlive \cup {none}
                           /\ ti \in [Server -> 0 .. 2] /\ (a # none => st # <<>>)
<1>H. ASSUME T(stack', aa', timeouts'), up' \subseteq Server, has' \in [Server -> ChunkList],
             tells' \in [Server -> SUBSET Server], buries' \in [Server -> SUBSET Server],
             recentlyAdded' \subseteq Server, recentlyDead' \subseteq Server,
             local' \in [Lister -> ChunkList \cup {none}],
             changes' \in 0 .. MaxChanges, losses' \in 0 .. MaxLosses
      PROVE  HBTypeOK'
  BY <1>H DEF HBTypeOK, Entry, AmAlive, timeoutRetries
<1>1. CASE UNCHANGED hbvars
  BY <1>1 DEF hbvars, env, news, HBTypeOK
<1>2. CASE Skips
  <2>1. Tail(stack) \in Seq(Entry)
    BY <1>0, <1>2, AgainStack DEF Skips
  <2>2. T(stack', aa', timeouts')
    BY <1>0, <1>2, <2>1 DEF Skips
  <2> QED BY <1>2, <1>H, <2>2 DEF Skips, env, news, HBTypeOK
<1>3. CASE Lists
  <2>1. local' \in [Lister -> ChunkList \cup {none}]
    BY <1>0, <1>3, Zenon DEF Lists, HBTypeOK
  <2>2. T(stack', aa', timeouts')
    BY <1>0, <1>3 DEF Lists, HBTypeOK
  <2> QED BY <1>3, <1>H, <2>1, <2>2 DEF Lists, news, HBTypeOK
<1>4. ASSUME NEW s \in Server, Round(s) PROVE HBTypeOK'
  <2>1. [addr |-> s, why |-> "none"] \in Entry
    BY DEF Entry
  <2>2. <<[addr |-> s, why |-> "none"]>> \in Seq(Entry)
    BY <2>1
  <2>3. T(stack', aa', timeouts')
    BY <1>0, <1>4, <2>2 DEF Round
  <2> QED BY <1>4, <1>H, <2>3 DEF Round, env, news, HBTypeOK
<1>5. ASSUME NEW s \in Server, Fails(s) PROVE HBTypeOK'
  <2>1. Tail(stack) \in Seq(Entry) /\ Again \in Seq(Entry) /\ aa = none
    BY <1>0, <1>5, AgainStack DEF Fails, Asking
  <2>2. stack' \in Seq(Entry)
    BY <1>5, <2>1, SMTT(30) DEF Fails
  <2>3. timeouts' \in [Server -> 0 .. 2]
    BY <1>0, <1>5 DEF Fails, TooMany, timeoutRetries
  <2>4. losses' \in 0 .. MaxLosses
    BY <1>0, <1>5 DEF Fails, HBTypeOK
  <2>5. recentlyAdded' \subseteq Server /\ recentlyDead' \subseteq Server
    BY <1>5 DEF Fails, GossipDead, news, HBTypeOK
  <2>6. T(stack', aa', timeouts')
    BY <1>5, <2>1, <2>2, <2>3 DEF Fails
  <2> QED BY <1>5, <1>H, <2>4, <2>5, <2>6, Zenon DEF Fails, env, HBTypeOK
<1>6. ASSUME NEW s \in Server, Answers(s) PROVE HBTypeOK'
  <2>1. Again \in Seq(Entry) /\ Again # <<>>
    BY <1>0, <1>6, AgainStack DEF Answers, Asking
  <2>2. aa' \in AmAlive
    BY <1>0, <1>6, Zenon DEF Answers, UnMarshal, Marshal, AmAlive
  <2>3. timeouts' \in [Server -> 0 .. 2]
    BY <1>0, <1>6 DEF Answers
  <2>4. T(stack', aa', timeouts')
    BY <1>6, <2>1, <2>2, <2>3 DEF Answers
  <2> QED BY <1>6, <1>H, <2>4 DEF Answers, env, news, HBTypeOK
<1>7. ASSUME NEW s \in Server, Adds(s) PROVE HBTypeOK'
  <2>1. recentlyAdded' \subseteq Server /\ recentlyDead' \subseteq Server
    BY <1>7 DEF Adds, GossipAdded, HBTypeOK
  <2>2. T(stack', aa', timeouts')
    BY <1>0, <1>7 DEF Adds, HBTypeOK
  <2> QED BY <1>7, <1>H, <2>1, <2>2 DEF Adds, env, HBTypeOK
<1>8. ASSUME NEW s \in Server, Processes(s) PROVE HBTypeOK'
  <2>1. aa \in AmAlive /\ stack # <<>>
    BY <1>0, <1>8, Zenon DEF Processes, HBTypeOK
  <2>2. aa.added \subseteq Server /\ aa.dead \subseteq Server
    BY <2>1 DEF AmAlive
  <2>3. IsFiniteSet(aa.added) /\ IsFiniteSet(aa.dead)
    BY <2>2, FS_Subset, HeartbeatAssumption
  <2>4. Cardinality(aa.added) \in Nat /\ Cardinality(aa.dead) \in Nat
    BY <2>3, FS_CardinalityType
  <2>5. PICK f \in Orders(aa.added, "added"), g \in Orders(aa.dead, "dead") :
            stack' = f \o g \o Tail(stack)
    BY <1>8, Zenon DEF Processes
  <2>6. f \in [1 .. Cardinality(aa.added) -> Entry] /\ g \in [1 .. Cardinality(aa.dead) -> Entry]
    BY <2>2, <2>5 DEF Orders, Entry
  <2>7. f \in Seq(Entry) /\ g \in Seq(Entry)
    BY <2>4, <2>6
  <2>8. Tail(stack) \in Seq(Entry)
    BY <1>0, <2>1, AgainStack
  <2>9. stack' \in Seq(Entry)
    BY <2>5, <2>7, <2>8
  <2>10. T(stack', aa', timeouts')
    BY <1>0, <1>8, <2>9 DEF Processes
  <2> QED BY <1>8, <1>H, <2>10, Zenon DEF Processes, env, news, HBTypeOK
<1>9. ASSUME NEW s \in Server, cleanNews(s) PROVE HBTypeOK'
  <2>1. recentlyAdded' \subseteq Server /\ recentlyDead' \subseteq Server
    BY <1>9 DEF cleanNews, HBTypeOK
  <2>2. T(stack', aa', timeouts')
    BY <1>0, <1>9 DEF cleanNews, HBTypeOK
  <2> QED BY <1>9, <1>H, <2>1, <2>2 DEF cleanNews, env, HBTypeOK
<1>10. ASSUME NEW s \in Server, OpAddServerToGroup(s) PROVE HBTypeOK'
  <2>1. recentlyAdded' \subseteq Server /\ recentlyDead' \subseteq Server
    BY <1>10 DEF OpAddServerToGroup, GossipAdded, HBTypeOK
  <2>2. changes' \in 0 .. MaxChanges
    BY <1>0, <1>10 DEF OpAddServerToGroup, HBTypeOK
  <2>3. T(stack', aa', timeouts')
    BY <1>0, <1>10 DEF OpAddServerToGroup, HBTypeOK
  <2> QED BY <1>10, <1>H, <2>1, <2>2, <2>3 DEF OpAddServerToGroup, HBTypeOK
<1>11. ASSUME NEW s \in Server, Changes(s) PROVE HBTypeOK'
  <2>1. changes' \in 0 .. MaxChanges
    BY <1>0, <1>11 DEF Changes, HBTypeOK
  <2>2. up' \subseteq Server
    BY <1>11, Zenon DEF Changes, HBTypeOK
  <2>3. has' \in [Server -> ChunkList]
    BY <1>0, <1>11 DEF Changes
  <2>4. tells' \in [Server -> SUBSET Server]
    BY <1>0, <1>11 DEF Changes, Other
  <2>5. buries' \in [Server -> SUBSET Server]
    BY <1>0, <1>11 DEF Changes, Other
  <2>6. T(stack', aa', timeouts')
    BY <1>0, <1>11, Zenon DEF Changes, HBTypeOK
  <2> QED BY <1>11, <1>H, <2>1, <2>2, <2>3, <2>4, <2>5, <2>6, Zenon DEF Changes, news, HBTypeOK
<1>12. CASE Releases
  <2>1. PICK c \in Chunk : has' = [has EXCEPT ![me][c] = none]
    BY <1>12, Zenon DEF Releases
  <2>2. [has[me] EXCEPT ![c] = none] \in ChunkList
    BY <1>0 DEF ChunkList
  <2>3. has' \in [Server -> ChunkList]
    BY <1>0, <2>1, <2>2
  <2>4. local' \in [Lister -> ChunkList \cup {none}]
    BY <1>0, <1>12, <2>3, Zenon DEF Releases, HBTypeOK
  <2>5. changes' \in 0 .. MaxChanges
    BY <1>0, <1>12 DEF Releases, HBTypeOK
  <2>6. T(stack', aa', timeouts')
    BY <1>0, <1>12 DEF Releases, HBTypeOK
  <2> QED BY <1>12, <1>H, <2>3, <2>4, <2>5, <2>6 DEF Releases, news, HBTypeOK
<1>13. ASSUME NEW g \in Lister, SetsLocal(g) PROVE HBTypeOK'
  <2>1. local' \in [Lister -> ChunkList \cup {none}]
    BY <1>13 DEF SetsLocal, HBTypeOK
  <2>2. T(stack', aa', timeouts')
    BY <1>0, <1>13, Zenon DEF SetsLocal, HBTypeOK
  <2> QED BY <1>13, <1>H, <2>1, <2>2, Zenon DEF SetsLocal, news, HBTypeOK
<1> QED BY <1>1, <1>2, <1>3, <1>4, <1>5, <1>6, <1>7, <1>8, <1>9, <1>10, <1>11, <1>12, <1>13
        DEF HBNext

-----------------------------------------------------------------------------
(* Only the server that is being asked has failures counted.               *)
LEMMA HBNextCounting == HBTypeOK /\ Counting /\ [HBNext]_hbvars => Counting'
<1> SUFFICES ASSUME HBTypeOK, Counting, [HBNext]_hbvars PROVE Counting'
  OBVIOUS
<1>0. stack \in Seq(Entry) /\ timeouts \in [Server -> 0 .. 2]
  BY DEF HBTypeOK, Entry, timeoutRetries
<1>Z. ASSUME \A s \in Server : timeouts'[s] = 0 PROVE Counting'
  BY <1>Z DEF Counting
<1>U. ASSUME UNCHANGED <<stack, timeouts, aa>> PROVE Counting'
  BY <1>U DEF Counting, Top
<1>1. CASE UNCHANGED hbvars
  BY <1>1, <1>U DEF hbvars
<1>2. CASE Skips
  <2>1. \A s \in Server : ~(timeouts[s] > 0)
    BY <1>2 DEF Skips, Known, Counting
  <2>2. \A s \in Server : timeouts'[s] = 0
    BY <1>0, <1>2, <2>1 DEF Skips
  <2> QED BY <2>2, <1>Z
<1>3. CASE Lists \/ Releases \/ \E g \in Lister : SetsLocal(g)
  BY <1>3, <1>U DEF Lists, Releases, SetsLocal
<1>4. ASSUME NEW s \in Server, Round(s) PROVE Counting'
  <2>1. \A r \in Server : ~(timeouts[r] > 0)
    BY <1>4 DEF Round, Counting
  <2>2. \A r \in Server : timeouts'[r] = 0
    BY <1>0, <1>4, <2>1, SMTT(40) DEF Round
  <2> QED BY <2>2, <1>Z
<1>5. ASSUME NEW s \in Server, Fails(s) PROVE Counting'
  <2>1. stack # <<>> /\ aa = none /\ aa' = none /\ ~Known(Top) /\ Top.addr = s
    BY <1>5 DEF Fails, Asking
  <2>2. \A r \in Server \ {s} : timeouts[r] = 0
    <3>1. \A r \in Server \ {s} : ~(timeouts[r] > 0)
      BY <2>1 DEF Counting
    <3> QED BY <1>0, <3>1
  <2>3. s # me
    BY <2>1 DEF Known
  <2>4. CASE timeouts' = [timeouts EXCEPT ![s] = 0]
    <3>1. \A r \in Server : timeouts'[r] = 0
      BY <1>0, <2>2, <2>4
    <3> QED BY <3>1, <1>Z
  <2>5. CASE timeouts' = [timeouts EXCEPT ![s] = @ + 1] /\ stack' = Again
    <3>1. \A r \in Server \ {s} : timeouts'[r] = 0
      BY <1>0, <2>2, <2>5
    <3>2. stack' # <<>> /\ Head(stack') = [addr |-> s, why |-> "none"]
      BY <1>0, <2>1, <2>5, AgainStack
    <3> QED BY <2>1, <2>3, <3>1, <3>2 DEF Counting, Top
  <2> QED BY <1>5, <2>4, <2>5 DEF Fails
<1>6. ASSUME NEW s \in Server, Answers(s) PROVE Counting'
  <2>1. \A r \in Server \ {s} : ~(timeouts[r] > 0)
    BY <1>6 DEF Answers, Asking, Counting
  <2>2. \A r \in Server : timeouts'[r] = 0
    BY <1>0, <1>6, <2>1 DEF Answers
  <2> QED BY <2>2, <1>Z
<1>7. ASSUME NEW s \in Server, Adds(s) PROVE Counting'
  BY <1>7, <1>U DEF Adds
<1>8. ASSUME NEW s \in Server, Processes(s) PROVE Counting'
  <2>1. \A r \in Server : ~(timeouts[r] > 0)
    BY <1>8 DEF Processes, Counting
  <2>2. \A r \in Server : timeouts'[r] = 0
    BY <1>0, <1>8, <2>1 DEF Processes
  <2> QED BY <2>2, <1>Z
<1>9. ASSUME NEW s \in Server, cleanNews(s) \/ OpAddServerToGroup(s) \/ Changes(s) PROVE Counting'
  BY <1>9, <1>U DEF cleanNews, OpAddServerToGroup, Changes
<1> QED BY <1>1, <1>2, <1>3, <1>4, <1>5, <1>6, <1>7, <1>8, <1>9 DEF HBNext

(* The initial states.                                                     *)
LEMMA HBInitInv == HBInit => Init /\ HBInv
<1> SUFFICES ASSUME HBInit PROVE Init /\ HBInv
  OBVIOUS
<1>1. Init /\ Inv /\ TypeOK
  BY InitInv DEF HBInit, Inv
<1>2. has \in [Server -> ChunkList]
  BY HeartbeatAssumption DEF HBInit, ChunkList
<1>3. stack \in Seq(Entry) /\ timeouts \in [Server -> 0 .. 2]
  BY DEF HBInit
<1>4. HBTypeOK
  BY <1>1, <1>2, <1>3, HeartbeatAssumption DEF HBInit, HBTypeOK, Entry, timeoutRetries
<1>5. Counting
  BY DEF HBInit, Counting
<1> QED BY <1>1, <1>4, <1>5 DEF HBInv

(* The invariant is inductive; the invariant of the group comes from       *)
(* ServerGroup, whose operations the steps are.                            *)
LEMMA HBNextInv == HBInv /\ [HBNext]_hbvars => HBInv'
<1> SUFFICES ASSUME HBInv, [HBNext]_hbvars PROVE HBInv'
  OBVIOUS
<1>1. HBTypeOK /\ Counting /\ Inv
  BY DEF HBInv
<1>2. [Next]_vars
  BY <1>1, GroupSteps
<1>3. Inv'
  BY <1>1, <1>2, NextInv
<1>4. TypeOK'
  BY <1>3 DEF Inv
<1>5. HBTypeOK' /\ Counting'
  BY <1>1, <1>4, HBNextType, HBNextCounting
<1> QED BY <1>3, <1>5 DEF HBInv

(* The invariant of the heartbeater holds in every state.                  *)
THEOREM HeartbeatInv == HBSpec => []HBInv
BY HBInitInv, HBNextInv, PTL DEF HBSpec

(* The variables of the heartbeater have their types.                      *)
THEOREM HeartbeatTypes == HBSpec => []HBTypeOK
BY HeartbeatInv, PTL DEF HBInv

(* Whatever heartbeats, gossip, deaths and local lists do to the group, in *)
(* any order: the two records of who holds what agree, a server is a       *)
(* holder once, dead servers hold nothing, and IsSynched tells agreement.  *)
THEOREM HeartbeatGroupAgrees ==
    HBSpec => [](HoldersMatch /\ HoldersDistinct /\ DeadHoldNothing /\ SynchedIsAgreement)
<1>1. HBInit => Init
  BY HBInitInv
<1>2. HBTypeOK /\ [HBNext]_hbvars => [Next]_vars
  BY GroupSteps
<1>3. HBSpec => Spec
  BY <1>1, <1>2, HeartbeatTypes, PTL DEF HBSpec, Spec
<1> QED
  BY <1>3, HoldersAlwaysMatch, HoldersAlwaysDistinct, DeadAlwaysHoldNothing,
     SynchedAlwaysAgreement, PTL

(* Failures are counted within one request: a server is declared dead      *)
(* after three failures in a row.                                          *)
THEOREM CountAlwaysCurrent == HBSpec => []CountIsCurrent
<1>1. HBInv => CountIsCurrent
  BY DEF HBInv, Counting, CountIsCurrent
<1> QED BY <1>1, HeartbeatInv, PTL
=============================================================================
