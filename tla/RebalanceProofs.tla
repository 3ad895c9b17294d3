--------------------------- MODULE RebalanceProofs ---------------------------
(***************************************************************************)
(* A release that overlaps no other, and has somebody to ask, leaves a     *)
(* copy, for any number of servers, any redundancy, requests that fail and *)
(* views that are wrong.                                                   *)
(***************************************************************************)
EXTENDS Rebalance, TLAPS

Asking(s) == releaser[s].pc = "asking"

\* A release that is alone has someone left to ask, or another server holds the
\* chunk, because whoever granted it had it and only a release takes it away
AloneIsSafe ==
    \A s \in Server : Asking(s) /\ releaser[s].alone =>
        /\ \A r \in Server : Asking(r) => r = s
        /\ releaser[s].ask # {} \/ \E r \in Server \ {s} : Present(r)

\* The server that handles OpProtect is one of the others that are asked
AskedAreOthers ==
    \A s \in Server : /\ s \notin releaser[s].ask
                      /\ releaser[s].at # none => releaser[s].at \in releaser[s].ask

Inv == TypeOK /\ AskedAreOthers /\ AloneIsSafe

(* The servers' state when the database has been created is safe.          *)
LEMMA InitInv == Init => Inv
<1> SUFFICES ASSUME Init PROVE Inv
  OBVIOUS
<1>1. TypeOK
  BY RebalanceAssumption DEF Init, TypeOK, NoReply, NoDuplication, Idle, Releaser
<1>2. AskedAreOthers /\ AloneIsSafe
  BY DEF Init, Idle, AskedAreOthers, AloneIsSafe, Asking
<1> QED
  BY <1>1, <1>2 DEF Inv

(* Moving the releaser of a server on keeps the type of the releasers.     *)
LEMMA AtType ==
    ASSUME TypeOK, NEW s \in Server, NEW v \in Releaser, At(s, v)
    PROVE  releaser' \in [Server -> Releaser]
BY Zenon DEF TypeOK, At

(* Every step of the heartbeater, the repair loop, the duplicator, the     *)
(* releaser and the request handlers keeps the types.                      *)
LEMMA NextType == TypeOK /\ [Next]_vars => TypeOK'
<1> SUFFICES ASSUME TypeOK, [Next]_vars PROVE TypeOK'
  OBVIOUS
<1> USE RebalanceAssumption
<1>1. ASSUME NEW s \in Server, NEW r \in Server, Heartbeat(s, r)
      PROVE  TypeOK'
  BY <1>1 DEF TypeOK, Heartbeat, Answer, Present
<1>2. ASSUME NEW s \in Server, HeartbeatDone(s)
      PROVE  TypeOK'
  BY <1>2 DEF TypeOK, HeartbeatDone, Told, NoReply
<1>3. ASSUME NEW s \in Server, NEW r \in Server, DeadServer(s, r)
      PROVE  TypeOK'
  BY <1>3 DEF TypeOK, DeadServer
<1>4. ASSUME NEW s \in Server, ListLocal(s) \/ SetLocal(s)
      PROVE  TypeOK'
  <2>1. CASE ListLocal(s)
    BY <2>1 DEF TypeOK, ListLocal, Present
  <2>2. CASE SetLocal(s)
    BY <2>2 DEF TypeOK, SetLocal, Told
  <2> QED
    BY <1>4, <2>1, <2>2
<1>5. ASSUME NEW s \in Server, Duplicate(s) \/ ChunkInfo(s)
      PROVE  TypeOK'
  <2>1. CASE Duplicate(s)
    BY <2>1 DEF TypeOK, Duplicate, DuplicatingAt
  <2>2. CASE ChunkInfo(s)
    <3>1. \E pc \in {"idle", "zero", "some"} : DuplicatingAt(s, pc, none)
      BY <2>2 DEF ChunkInfo
    <3>2. PICK pc \in {"idle", "zero", "some"} : DuplicatingAt(s, pc, none)
      BY <3>1
    <3>3. duplicating' \in [Server -> [pc : {"idle", "info", "zero", "some", "wait"},
                                       from : Server \cup {none}]]
      BY <3>2 DEF TypeOK, DuplicatingAt
    <3> QED
      BY <2>2, <3>3 DEF TypeOK, ChunkInfo
  <2> QED
    BY <1>5, <2>1, <2>2
<1>6. ASSUME NEW s \in Server, DuplicateSetPresent(s)
      PROVE  TypeOK'
  BY <1>6 DEF TypeOK, DuplicateSetPresent, PMapOf, Present, DuplicatingAt
<1>7. ASSUME NEW s \in Server, RequestTransfer(s)
      PROVE  TypeOK'
  BY <1>7 DEF TypeOK, RequestTransfer, DuplicatingAt, Requested
<1>8. ASSUME NEW s \in Server, DuplicateAgain(s)
      PROVE  TypeOK'
  BY <1>8 DEF TypeOK, DuplicateAgain, DuplicatingAt, Requested
<1>9. ASSUME NEW s \in Server, NEW r \in Server, Transfer(s, r)
      PROVE  TypeOK'
  BY <1>9 DEF TypeOK, Transfer, Received
<1>10. ASSUME NEW s \in Server, Release(s)
       PROVE  TypeOK'
  BY <1>10 DEF TypeOK, Release
<1>11. ASSUME NEW s \in Server, ReleaseCheck(s)
       PROVE  TypeOK'
  <2>1. [Idle EXCEPT !.pc = "holders"] \in Releaser /\ Idle \in Releaser
    BY Zenon DEF Releaser, Idle
  <2> QED
    BY <1>11, <2>1 DEF TypeOK, ReleaseCheck, At
<1>12. ASSUME NEW s \in Server, ReleaseHolders(s)
       PROVE  TypeOK'
  <2> DEFINE others == {r \in Server : releaser[r].pc = "asking"}
             mine == [Idle EXCEPT !.pc = "asking", !.ask = view[s] \ {s},
                                  !.alone = others = {} /\ view[s] \ {s} # {}]
             theirs(r) == [releaser[r] EXCEPT !.alone = @ /\ r \notin others]
  <2>1. mine \in Releaser
    BY Zenon DEF Releaser, Idle, TypeOK
  <2>2. ASSUME NEW r \in Server PROVE theirs(r) \in Releaser
    <3>1. releaser[r] \in Releaser
      BY DEF TypeOK
    <3>2. (releaser[r].alone /\ r \notin others) \in BOOLEAN
      BY <3>1 DEF Releaser
    <3> HIDE DEF others
    <3> QED
      BY <3>1, <3>2, Zenon DEF Releaser
  <2>3. releaser' = [r \in Server |-> IF r = s THEN mine ELSE theirs(r)]
    BY <1>12, Zenon DEF ReleaseHolders
  <2> HIDE DEF mine, theirs
  <2>4. releaser' \in [Server -> Releaser]
    BY <2>1, <2>2, <2>3
  <2> QED
    BY <1>12, <2>4, Zenon DEF TypeOK, ReleaseHolders
<1>13. ASSUME NEW s \in Server, NEW r \in Server, ReleaseAsk(s, r)
       PROVE  TypeOK'
  <2>1. releaser[s] \in Releaser
    BY DEF TypeOK
  <2>2. [releaser[s] EXCEPT !.at = r] \in Releaser /\ Idle \in Releaser
    BY <2>1 DEF Releaser, Idle
  <2>3. At(s, [releaser[s] EXCEPT !.at = r]) \/ At(s, Idle)
    BY <1>13 DEF ReleaseAsk
  <2>4. releaser' \in [Server -> Releaser]
    BY <2>2, <2>3, AtType
  <2> QED
    BY <1>13, <2>4 DEF TypeOK, ReleaseAsk
<1>14. ASSUME NEW s \in Server, OpProtect(s)
       PROVE  TypeOK'
  <2> DEFINE r == releaser[s].at
  <2>1. releaser[s] \in Releaser
    BY DEF TypeOK
  <2>2. /\ [releaser[s] EXCEPT !.ask = @ \ {r}, !.at = none] \in Releaser
        /\ Idle \in Releaser
    BY <2>1, Zenon DEF Releaser, Idle
  <2>3. releaser' \in [Server -> Releaser]
    BY <1>14, <2>2 DEF TypeOK, OpProtect, At
  <2>4. r \in Server
    BY <1>14, <2>1 DEF OpProtect, Releaser
  <2>5. protected' \in [Server -> BOOLEAN]
    <3>1. protected' = [protected EXCEPT ![r] = @ \/ Protects(r)]
      BY <1>14 DEF OpProtect
    <3>2. (protected[r] \/ Protects(r)) \in BOOLEAN
      BY <2>4 DEF TypeOK, Protects, Present
    <3> QED
      BY <3>1, <3>2, <2>4 DEF TypeOK
  <2> QED
    BY <1>14, <2>3, <2>5 DEF TypeOK, OpProtect
<1>15. ASSUME NEW s \in Server, ReleaseDo(s)
       PROVE  TypeOK'
  <2>1. [Idle EXCEPT !.pc = "list"] \in Releaser
    BY Zenon DEF Releaser, Idle
  <2>2. (protected[s] /\ ~Present(s)) \in BOOLEAN
    BY DEF TypeOK, Present
  <2> QED
    BY <1>15, <2>1, <2>2 DEF TypeOK, ReleaseDo, At
<1>16. ASSUME NEW s \in Server, ReleaseList(s)
       PROVE  TypeOK'
  <2>1. [Idle EXCEPT !.pc = "announce", !.present = Present(s)] \in Releaser
    BY Zenon DEF Releaser, Idle, Present, TypeOK
  <2> QED
    BY <1>16, <2>1 DEF TypeOK, ReleaseList, At
<1>17. ASSUME NEW s \in Server, ReleaseAnnounce(s)
       PROVE  TypeOK'
  <2>1. Idle \in Releaser
    BY DEF Releaser, Idle
  <2> QED
    BY <1>17, <2>1 DEF TypeOK, ReleaseAnnounce, Told, At
<1>18. ASSUME NEW s \in Server, Expire(s)
       PROVE  TypeOK'
  BY <1>18 DEF TypeOK, Expire
<1>19. CASE UNCHANGED vars
  BY <1>19 DEF TypeOK, vars
<1> QED
  BY <1>1, <1>2, <1>3, <1>4, <1>5, <1>6, <1>7, <1>8, <1>9, <1>10, <1>11, <1>12,
     <1>13, <1>14, <1>15, <1>16, <1>17, <1>18, <1>19 DEF Next

(* A step that takes the chunk from nobody and starts no release keeps a   *)
(* lone release safe.                                                      *)
LEMMA OthersSafe ==
    AskedAreOthers /\ AloneIsSafe /\ releaser' = releaser
        /\ (\A r \in Server : Present(r) => Present(r)')
    => AskedAreOthers' /\ AloneIsSafe'
BY DEF AskedAreOthers, AloneIsSafe, Asking

(* A step of the releaser of one server that ends its request, or keeps it *)
(* waiting for somebody, keeps every lone release safe.                    *)
LEMMA ReleaserSafe ==
    ASSUME NEW s \in Server, NEW new, Inv, At(s, new),
           \A r \in Server : Present(r)' = Present(r),
           \/ new.pc # "asking" /\ new.ask = {} /\ new.at = none
           \/ /\ Asking(s) /\ new.pc = "asking" /\ new.alone = releaser[s].alone
              /\ new.ask \subseteq releaser[s].ask
              /\ new.at # none => new.at \in new.ask
              /\ releaser[s].ask # new.ask => \E r \in Server \ {s} : Present(r)
    PROVE  AskedAreOthers' /\ AloneIsSafe'
<1>1. releaser'[s] = new /\ \A r \in Server \ {s} : releaser'[r] = releaser[r]
  BY DEF At, Inv, TypeOK
<1>2. AskedAreOthers'
  BY <1>1 DEF Inv, AskedAreOthers
<1>3. AloneIsSafe'
  BY <1>1 DEF Inv, AloneIsSafe, Asking
<1> QED
  BY <1>2, <1>3

(* A lone release stays safe in every step of every server.                *)
LEMMA NextInv == Inv /\ [Next]_vars => Inv'
<1> SUFFICES ASSUME Inv, [Next]_vars PROVE AskedAreOthers' /\ AloneIsSafe'
  BY NextType DEF Inv
<1> USE RebalanceAssumption
<1>1. ASSUME releaser' = releaser, copy' = copy
      PROVE  AskedAreOthers' /\ AloneIsSafe'
  BY <1>1, OthersSafe DEF Inv, Present
<1>2. ASSUME NEW s \in Server,
             HeartbeatDone(s) \/ ListLocal(s) \/ SetLocal(s) \/ Duplicate(s)
                \/ ChunkInfo(s) \/ RequestTransfer(s) \/ DuplicateAgain(s)
                \/ Release(s) \/ Expire(s)
      PROVE  AskedAreOthers' /\ AloneIsSafe'
  BY <1>1, <1>2 DEF HeartbeatDone, ListLocal, SetLocal, Duplicate, ChunkInfo,
                    RequestTransfer, DuplicateAgain, Release, Expire
<1>3. ASSUME NEW s \in Server, NEW r \in Server, Heartbeat(s, r) \/ DeadServer(s, r)
      PROVE  AskedAreOthers' /\ AloneIsSafe'
  BY <1>1, <1>3 DEF Heartbeat, DeadServer
<1>4. ASSUME NEW s \in Server, DuplicateSetPresent(s)
      PROVE  AskedAreOthers' /\ AloneIsSafe'
  BY <1>4, OthersSafe DEF DuplicateSetPresent, PMapOf, Present, Inv, TypeOK
<1>5. ASSUME NEW h \in Server, NEW s \in Server, Transfer(h, s)
      PROVE  AskedAreOthers' /\ AloneIsSafe'
  BY <1>5, OthersSafe DEF Transfer, Received, Present, Inv, TypeOK
<1>6. ASSUME NEW s \in Server, ReleaseCheck(s)
      PROVE  AskedAreOthers' /\ AloneIsSafe'
  <2>1. At(s, Idle) \/ At(s, [Idle EXCEPT !.pc = "holders"])
    BY <1>6 DEF ReleaseCheck
  <2>2. \A r \in Server : Present(r)' = Present(r)
    BY <1>6 DEF ReleaseCheck, Present
  <2> QED
    BY <2>1, <2>2, ReleaserSafe DEF Idle
<1>7. ASSUME NEW s \in Server, ReleaseHolders(s)
      PROVE  AskedAreOthers' /\ AloneIsSafe'
  <2> DEFINE others == {r \in Server : releaser[r].pc = "asking"}
  <2>1. /\ releaser'[s] = [Idle EXCEPT !.pc = "asking", !.ask = view[s] \ {s},
                               !.alone = others = {} /\ view[s] \ {s} # {}]
        /\ \A r \in Server \ {s} :
              releaser'[r] = [releaser[r] EXCEPT !.alone = @ /\ r \notin others]
        /\ UNCHANGED copy
    BY <1>7, Zenon DEF ReleaseHolders
  <2>2. /\ releaser'[s].pc = "asking" /\ releaser'[s].ask = view[s] \ {s}
        /\ releaser'[s].at = none
        /\ releaser'[s].alone = (others = {} /\ view[s] \ {s} # {})
    BY <2>1 DEF Idle
  <2>3. ASSUME NEW r \in Server \ {s}
        PROVE  /\ releaser'[r].pc = releaser[r].pc
               /\ releaser'[r].ask = releaser[r].ask
               /\ releaser'[r].at = releaser[r].at
               /\ releaser'[r].alone => r \notin others
    <3>1. releaser[r] \in Releaser
      BY DEF Inv, TypeOK
    <3>2. releaser'[r] = [releaser[r] EXCEPT !.alone = @ /\ r \notin others]
      BY <2>1
    <3> HIDE DEF others
    <3> QED
      BY <3>1, <3>2, Zenon DEF Releaser
  <2>4. AskedAreOthers'
    BY <2>2, <2>3 DEF Inv, AskedAreOthers
  <2>5. AloneIsSafe'
    BY <2>2, <2>3, Zenon DEF AloneIsSafe, Asking
  <2> QED
    BY <2>4, <2>5
<1>8. ASSUME NEW s \in Server, NEW r \in Server, ReleaseAsk(s, r)
      PROVE  AskedAreOthers' /\ AloneIsSafe'
  <2>1. /\ At(s, [releaser[s] EXCEPT !.at = r]) \/ At(s, Idle)
        /\ Asking(s) /\ r \in releaser[s].ask
    BY <1>8 DEF ReleaseAsk, Asking
  <2>2. \A q \in Server : Present(q)' = Present(q)
    BY <1>8 DEF ReleaseAsk, Present
  <2>3. CASE At(s, Idle)
    BY <2>2, <2>3, ReleaserSafe DEF Idle
  <2>4. CASE At(s, [releaser[s] EXCEPT !.at = r])
    <3> DEFINE new == [releaser[s] EXCEPT !.at = r]
    <3>1. /\ new.pc = "asking" /\ new.alone = releaser[s].alone
          /\ new.ask = releaser[s].ask /\ new.at = r
      BY <2>1 DEF Inv, TypeOK, Releaser, Asking
    <3> HIDE DEF new
    <3> QED
      BY <2>1, <2>2, <2>4, <3>1, ReleaserSafe, Zenon DEF new
  <2> QED
    BY <2>1, <2>3, <2>4
<1>9. ASSUME NEW s \in Server, OpProtect(s)
      PROVE  AskedAreOthers' /\ AloneIsSafe'
  <2> DEFINE r == releaser[s].at
             new == [releaser[s] EXCEPT !.ask = @ \ {r}, !.at = none]
  <2>1. /\ (Present(r) /\ At(s, new)) \/ At(s, Idle)
        /\ Asking(s) /\ r # none
    BY <1>9 DEF OpProtect, Asking, Protects
  <2>2. \A q \in Server : Present(q)' = Present(q)
    BY <1>9 DEF OpProtect, Present
  <2>3. CASE At(s, Idle)
    BY <2>2, <2>3, ReleaserSafe DEF Idle
  <2>4. CASE Present(r) /\ At(s, new)
    <3>1. /\ new.pc = "asking" /\ new.alone = releaser[s].alone
          /\ new.ask = releaser[s].ask \ {r} /\ new.at = none
      BY <2>1 DEF Inv, TypeOK, Releaser, Asking
    <3>2. r \in Server \ {s}
      BY <2>1 DEF Inv, TypeOK, Releaser, AskedAreOthers
    <3> HIDE DEF new, r
    <3> QED
      BY <2>1, <2>2, <2>4, <3>1, <3>2, ReleaserSafe
  <2> QED
    BY <2>1, <2>3, <2>4
<1>10. ASSUME NEW s \in Server, ReleaseDo(s)
       PROVE  AskedAreOthers' /\ AloneIsSafe'
  <2>1. /\ Asking(s) /\ At(s, [Idle EXCEPT !.pc = "list"])
    BY <1>10 DEF ReleaseDo, Asking
  <2>2. /\ releaser'[s].pc = "list" /\ releaser'[s].ask = {} /\ releaser'[s].at = none
        /\ \A r \in Server \ {s} : releaser'[r] = releaser[r]
    BY <2>1 DEF At, Idle, Inv, TypeOK
  <2>3. AskedAreOthers'
    BY <2>2 DEF Inv, AskedAreOthers
  \* Any other request overlaps this one, so it is not alone
  <2>4. AloneIsSafe'
    BY <2>1, <2>2 DEF Inv, AloneIsSafe, Asking
  <2> QED
    BY <2>3, <2>4
<1>11. ASSUME NEW s \in Server, ReleaseList(s)
       PROVE  AskedAreOthers' /\ AloneIsSafe'
  <2> DEFINE new == [Idle EXCEPT !.pc = "announce", !.present = Present(s)]
  <2>1. At(s, new) /\ \A r \in Server : Present(r)' = Present(r)
    BY <1>11 DEF ReleaseList, Present
  <2>2. new.pc = "announce" /\ new.ask = {} /\ new.at = none
    BY DEF Idle
  <2> HIDE DEF new
  <2> QED
    BY <2>1, <2>2, ReleaserSafe
<1>12. ASSUME NEW s \in Server, ReleaseAnnounce(s)
       PROVE  AskedAreOthers' /\ AloneIsSafe'
  <2>1. At(s, Idle) /\ \A r \in Server : Present(r)' = Present(r)
    BY <1>12 DEF ReleaseAnnounce, Present
  <2> QED
    BY <2>1, ReleaserSafe DEF Idle
<1>13. CASE UNCHANGED vars
  BY <1>1, <1>13 DEF vars
<1> QED
  BY <1>2, <1>3, <1>4, <1>5, <1>6, <1>7, <1>8, <1>9, <1>10, <1>11, <1>12, <1>13
     DEF Next

(* Only lh.ChunkSetNoPresent completes a release.                          *)
LEMMA OnlyReleaseDo ==
    ASSUME TypeOK, Next, NEW s \in Server, Releases(s)
    PROVE  ReleaseDo(s)
<1>1. releaser' # releaser
  BY DEF Releases
<1>2. ASSUME NEW q \in Server, NEW new, At(q, new)
      PROVE  q = s /\ new.pc = "list"
  BY <1>2 DEF At, Releases, TypeOK
<1>3. ASSUME NEW q \in Server, ReleaseHolders(q)
      PROVE  FALSE
  <2>1. CASE q = s
    BY <1>3, <2>1, Zenon DEF ReleaseHolders, Releases
  <2>2. CASE q # s
    <3>1. releaser[s] \in Releaser
      BY DEF TypeOK
    <3>2. PICK a : releaser'[s] = [releaser[s] EXCEPT !.alone = a]
      BY <1>3, <2>2, Zenon DEF ReleaseHolders
    <3>3. releaser'[s].pc = releaser[s].pc
      BY <3>1, <3>2 DEF Releaser
    <3> QED
      BY <3>3 DEF Releases
  <2> QED
    BY <2>1, <2>2
<1>4. ASSUME NEW q \in Server, ReleaseCheck(q)
      PROVE  FALSE
  BY <1>2, <1>4 DEF ReleaseCheck, Idle
<1>5. ASSUME NEW q \in Server, NEW r \in Server, ReleaseAsk(q, r)
      PROVE  FALSE
  <2>1. releaser[q] \in Releaser /\ releaser[q].pc = "asking"
    BY <1>5 DEF TypeOK, ReleaseAsk
  <2>2. [releaser[q] EXCEPT !.at = r].pc = "asking" /\ Idle.pc = "idle"
    BY <2>1 DEF Releaser, Idle
  <2> QED
    BY <1>2, <1>5, <2>2, Zenon DEF ReleaseAsk
<1>6. ASSUME NEW q \in Server, OpProtect(q)
      PROVE  FALSE
  <2> DEFINE new == [releaser[q] EXCEPT !.ask = @ \ {releaser[q].at}, !.at = none]
  <2>1. releaser[q] \in Releaser /\ releaser[q].pc = "asking"
    BY <1>6 DEF TypeOK, OpProtect
  <2>2. new.pc = "asking" /\ Idle.pc = "idle"
    BY <2>1 DEF Releaser, Idle
  <2>3. At(q, new) \/ At(q, Idle)
    BY <1>6 DEF OpProtect
  <2> HIDE DEF new
  <2> QED
    BY <1>2, <2>2, <2>3
<1>7. ASSUME NEW q \in Server, ReleaseDo(q)
      PROVE  q = s
  BY <1>2, <1>7 DEF ReleaseDo
<1>8. ASSUME NEW q \in Server, ReleaseList(q) \/ ReleaseAnnounce(q)
      PROVE  FALSE
  <2>1. q = s
    BY <1>2, <1>8 DEF ReleaseList, ReleaseAnnounce
  <2> QED
    BY <1>8, <2>1 DEF ReleaseList, ReleaseAnnounce, Releases
<1> QED
  BY <1>1, <1>3, <1>4, <1>5, <1>6, <1>7, <1>8, Zenon
     DEF Next, HeartbeatDone, ListLocal, SetLocal, Duplicate, ChunkInfo,
         DuplicateSetPresent, RequestTransfer, DuplicateAgain, Release, Expire,
         Heartbeat, DeadServer, Transfer

(* The types hold in every state of the servers.                           *)
THEOREM RebalanceTypes == Spec => []TypeOK
BY InitInv, NextType, PTL DEF Spec, Inv

(* A lone release is safe in every state.                                  *)
THEOREM RebalanceInv == Spec => []Inv
BY InitInv, NextInv, PTL DEF Spec

(* The release of a chunk that no other release overlaps, by a server that *)
(* had another holder to ask, leaves the chunk in another server: the      *)
(* comment of releaser is right about one such release, whatever the       *)
(* servers' views are.                                                     *)
THEOREM ReleaseAlwaysLeavesCopy == Spec => ReleaseLeavesCopy
<1> DEFINE Leaves == \A s \in Server : Releases(s) /\ releaser[s].alone =>
                         \E r \in Server \ {s} : Present(r)'
<1>1. Inv /\ [Next]_vars => [Leaves]_vars
  <2> SUFFICES ASSUME Inv, Next, NEW s \in Server, Releases(s), releaser[s].alone
               PROVE  \E r \in Server \ {s} : Present(r)'
    BY DEF Leaves
  <2>1. ReleaseDo(s)
    BY OnlyReleaseDo DEF Inv
  <2>2. releaser[s].ask = {} /\ Asking(s) /\ \A r \in Server \ {s} : copy'[r] = copy[r]
    BY <2>1 DEF ReleaseDo, Asking, Inv, TypeOK
  <2> QED
    BY <2>2 DEF Inv, AloneIsSafe, Present
<1> QED
  BY <1>1, RebalanceInv, PTL DEF Spec, ReleaseLeavesCopy

(* A step that is no release takes neither a copy nor the pairs from       *)
(* anybody.                                                                *)
LEMMA KeepsPairs ==
    ASSUME TypeOK, Next, NEW s \in Server, Present(s), ~ReleaseDo(s)
    PROVE  Present(s)' /\ (copy[s] = "data" => copy'[s] = "data")
<1>1. ASSUME copy' = copy PROVE Present(s)' /\ (copy[s] = "data" => copy'[s] = "data")
  BY <1>1 DEF Present
<1>2. ASSUME NEW q \in Server, DuplicateSetPresent(q)
      PROVE  Present(s)' /\ (copy[s] = "data" => copy'[s] = "data")
  BY <1>2 DEF DuplicateSetPresent, PMapOf, Present, TypeOK
<1>3. ASSUME NEW h \in Server, NEW q \in Server, Transfer(h, q)
      PROVE  Present(s)' /\ (copy[s] = "data" => copy'[s] = "data")
  <2>1. PICK pairs \in Received(q, h) : copy' = [copy EXCEPT ![q] = pairs]
    BY <1>3, Zenon DEF Transfer
  <2>2. Present(q) => pairs # "absent" /\ (copy[q] = "data" => pairs = "data")
    BY DEF Received, Present
  <2> QED BY <2>1, <2>2 DEF Present, TypeOK
<1>4. ASSUME NEW q \in Server, ReleaseDo(q)
      PROVE  Present(s)' /\ (copy[s] = "data" => copy'[s] = "data")
  BY <1>4, Zenon DEF ReleaseDo, Present, TypeOK
<1>5. ASSUME NEW q \in Server,
             HeartbeatDone(q) \/ ListLocal(q) \/ SetLocal(q) \/ Duplicate(q) \/ ChunkInfo(q)
                \/ RequestTransfer(q) \/ DuplicateAgain(q) \/ Release(q)
                \/ ReleaseCheck(q) \/ ReleaseHolders(q) \/ OpProtect(q) \/ ReleaseList(q)
                \/ ReleaseAnnounce(q) \/ Expire(q)
      PROVE  copy' = copy
  BY <1>5, Zenon DEF HeartbeatDone, ListLocal, SetLocal, Duplicate, ChunkInfo, RequestTransfer,
              DuplicateAgain, Release, ReleaseCheck, ReleaseHolders, OpProtect, ReleaseList,
              ReleaseAnnounce, Expire
<1>6. ASSUME NEW q \in Server, NEW r \in Server,
             Heartbeat(q, r) \/ DeadServer(q, r) \/ ReleaseAsk(q, r)
      PROVE  copy' = copy
  BY <1>6 DEF Heartbeat, DeadServer, ReleaseAsk
<1> QED BY <1>1, <1>2, <1>3, <1>4, <1>5, <1>6 DEF Next

(* A release takes the chunk from one server only, and a lone one leaves a *)
(* copy at another.                                                        *)
LEMMA ReleaseSpares ==
    ASSUME Inv, NEW s \in Server, ReleaseDo(s)
    PROVE  /\ Releases(s)
           /\ \A r \in Server \ {s} : copy'[r] = copy[r]
           /\ releaser[s].alone => \E r \in Server \ {s} : Present(r)
<1>1. releaser'[s].pc = "list"
  BY DEF ReleaseDo, At, Idle, Inv, TypeOK
<1> QED BY <1>1 DEF ReleaseDo, Releases, Asking, Inv, TypeOK, AloneIsSafe

(* Nothing but a release loses the chunk, and only one that overlapped     *)
(* another or asked nobody; the pairs are lost in such a release, or in    *)
(* one that left an incomplete copy, in any group of servers.              *)
THEOREM LossAlwaysHasCause == Spec => LossHasCause
<1> DEFINE CopyLost == CopyRemains /\ ~CopyRemains' =>
               \E s \in Server : Releases(s) /\ ~releaser[s].alone
           DataLost == DataRemains /\ ~DataRemains' =>
               \E s \in Server :
                 /\ Releases(s)
                 /\ ~releaser[s].alone \/ \E r \in Server \ {s} : copy[r] \in {"empty", "part"}
<1>1. ASSUME Inv, Next, CopyRemains, ~CopyRemains'
      PROVE  \E s \in Server : Releases(s) /\ ~releaser[s].alone
  <2>1. PICK s \in Server : Present(s)
    BY <1>1 DEF CopyRemains
  <2>2. ReleaseDo(s)
    <3>1. ~Present(s)'
      BY <1>1 DEF CopyRemains
    <3> QED BY <1>1, <2>1, <3>1, KeepsPairs DEF Inv
  <2>3. ASSUME releaser[s].alone PROVE FALSE
    <3>1. PICK r \in Server \ {s} : Present(r) /\ copy'[r] = copy[r]
      BY <1>1, <2>2, <2>3, ReleaseSpares
    <3> QED BY <1>1, <3>1 DEF CopyRemains, Present
  <2> QED BY <1>1, <2>2, <2>3, ReleaseSpares
<1>2. ASSUME Inv, Next, DataRemains, ~DataRemains'
      PROVE  \E s \in Server :
               /\ Releases(s)
               /\ ~releaser[s].alone \/ \E r \in Server \ {s} : copy[r] \in {"empty", "part"}
  <2>1. PICK s \in Server : copy[s] = "data"
    BY <1>2 DEF DataRemains
  <2>2. ReleaseDo(s)
    <3>1. Present(s) /\ copy'[s] # "data"
      BY <1>2, <2>1 DEF DataRemains, Present
    <3> QED BY <1>2, <2>1, <3>1, KeepsPairs DEF Inv
  <2>3. ASSUME releaser[s].alone PROVE \E r \in Server \ {s} : copy[r] \in {"empty", "part"}
    <3>1. PICK r \in Server \ {s} : Present(r) /\ copy'[r] = copy[r]
      BY <1>2, <2>2, <2>3, ReleaseSpares
    <3>2. copy[r] # "data" /\ copy[r] \in {"absent", "empty", "part", "data"}
      BY <1>2, <3>1 DEF DataRemains, Inv, TypeOK
    <3> QED BY <3>1, <3>2 DEF Present
  <2> QED BY <1>2, <2>2, <2>3, ReleaseSpares
<1>3. Inv /\ [Next]_vars => [CopyLost /\ DataLost]_vars
  BY <1>1, <1>2
<1> QED BY <1>3, RebalanceInv, PTL DEF Spec, LossHasCause
=============================================================================
