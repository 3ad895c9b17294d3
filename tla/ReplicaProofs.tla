--------------------------- MODULE ReplicaProofs ---------------------------
(***************************************************************************)
(* Theorems about Replica: for any number of servers, writes, Gets and     *)
(* losses, a Get that all servers answer is not behind, and of the CAS     *)
(* that expect the same pair one succeeds.                                 *)
(***************************************************************************)
EXTENDS Replica, TLAPS

\* Nothing has taken a pair back
Forwards == dels = {} /\ ~Backwards

(* A CAS is on its way to the master and expects another pair than it      *)
(* brings; a Del on its way has been called.                               *)
Requests ==
    \A m \in net : /\ m.kind = "cas" => m.to = Master /\ m.ts # m.old
                   /\ m.kind = "del" => dels # {}

(* Every CAS that won has left its pair, or a newer one, at the master.    *)
Ladder == Forwards => \A m \in wins : m.old < m.ts /\ m.ts <= store[Master]

(* While a Get runs, a server has answered with a pair as new as floor, or *)
(* has one and is still to answer, or the answer of a server was lost.     *)
Ahead ==
    get.on /\ Forwards =>
        \E r \in Replica :
            IF r \in DOMAIN get.times
            THEN get.times[r] = lost \/ get.times[r] >= get.floor
            ELSE store[r] >= get.floor

Inv == TypeOK /\ Requests /\ Ladder /\ Ahead /\ FreshRead /\ CASOnce

-----------------------------------------------------------------------------
(* What a client sends are messages.                                       *)
LEMMA ToMessages ==
    ASSUME NEW R \in SUBSET Replica, NEW kind \in {"set", "del", "cas"},
           NEW t \in Stamp, NEW o \in Pair
    PROVE  /\ To(R, kind, t, o) \subseteq Message
           /\ \A m \in To(R, kind, t, o) : /\ m.kind = kind /\ m.to \in R
                                           /\ m.ts = t /\ m.old = o
BY DEF To, Message

(* Pairs are numbers.                                                      *)
LEMMA Numbers ==
    /\ \A p \in Pair : p \in Int
    /\ \A t \in Stamp : t \in Int /\ t \in Pair /\ t # 0
    /\ 0 \in Pair
BY DEF Pair, Stamp

(* A message is what it says.                                              *)
LEMMA Fields ==
    ASSUME NEW m \in Message
    PROVE  /\ m.to \in Replica /\ m.ts \in Stamp /\ m.old \in Pair
           /\ m.ts \in Int /\ m.old \in Int
<1>1. m.to \in Replica /\ m.ts \in Stamp /\ m.old \in Pair
  BY DEF Message
<1> QED BY <1>1, Numbers

(* Requests, Ladder, Ahead and the properties are kept by a step that only *)
(* adds Sets to the requests.                                              *)
LEMMA OnlySets ==
    ASSUME Inv, UNCHANGED <<store, get, wins, dels>>,
           \A m \in net' : m \in net \/ m.kind = "set"
    PROVE  Requests' /\ Ladder' /\ Ahead' /\ FreshRead' /\ CASOnce'
<1>1. Requests'
  BY DEF Inv, Requests
<1>2. Ladder' /\ Ahead' /\ FreshRead' /\ CASOnce'
  BY DEF Inv, Ladder, Ahead, FreshRead, CASOnce, Forwards, Backwards
<1> QED BY <1>1, <1>2

(* Calls.                                                                  *)
LEMMA CallsInv == ASSUME Inv, NEW t \in Stamp \ used,
                         Set(t) \/ Del(t) \/ \E o \in used \cup {0} : CAS(o, t)
                  PROVE  Inv'
<1>0. Master \in Replica /\ {Master} \subseteq Replica /\ 0 \in Pair /\ used \subseteq Pair
  BY ReplicaAssumption, Numbers DEF Inv, TypeOK
<1>1. CASE Set(t)
  <2>1. To(Replica, "set", t, 0) \subseteq Message
          /\ \A m \in To(Replica, "set", t, 0) : m.kind = "set"
    BY <1>0, ToMessages
  <2>2. TypeOK'
    BY <1>1, <2>1 DEF Set, Inv, TypeOK
  <2> QED BY <1>1, <2>1, <2>2, OnlySets DEF Set, Inv
<1>2. CASE Del(t)
  <2>1. To(Replica, "del", t, 0) \subseteq Message
          /\ \A m \in To(Replica, "del", t, 0) : m.kind = "del"
    BY <1>0, ToMessages
  <2>2. TypeOK'
    BY <1>2, <2>1 DEF Del, Inv, TypeOK
  <2>3. dels' # {}
    BY <1>2 DEF Del
  <2>4. Requests'
    BY <1>2, <2>1, <2>3 DEF Del, Inv, Requests
  <2> QED BY <2>2, <2>3, <2>4 DEF Inv, Ladder, Ahead, FreshRead, CASOnce, Forwards
<1>3. ASSUME NEW o \in used \cup {0}, CAS(o, t) PROVE Inv'
  <2>0. o \in Pair /\ o # t
    BY <1>0, Numbers
  <2>1. To({Master}, "cas", t, o) \subseteq Message
          /\ \A m \in To({Master}, "cas", t, o) :
                m.kind = "cas" /\ m.to = Master /\ m.ts = t /\ m.old = o
    BY <1>0, <2>0 DEF To, Message
  <2>2. TypeOK'
    BY <1>3, <2>1 DEF CAS, Inv, TypeOK
  <2>3. Requests'
    BY <1>3, <2>0, <2>1 DEF CAS, Inv, Requests
  <2>4. Ladder' /\ Ahead' /\ FreshRead' /\ CASOnce'
    BY <1>3 DEF CAS, Inv, Ladder, Ahead, FreshRead, CASOnce, Forwards, Backwards
  <2> QED BY <2>2, <2>3, <2>4 DEF Inv
<1> QED BY <1>1, <1>2, <1>3

(* A server never goes back as long as nothing takes pairs back.           *)
LEMMA StoreGrows ==
    ASSUME Inv, NEW m, processMessage(m), Forwards'
    PROVE  \A r \in Replica : store'[r] >= store[r]
<1>0. m \in Message /\ store \in [Replica -> Pair]
  BY DEF processMessage, Inv, TypeOK
<1>a. m.to \in Replica /\ m.ts \in Int /\ m.old \in Int /\ \A r \in Replica : store[r] \in Int
  BY <1>0, Fields, Numbers
<1>1. CASE OpSet(m)
  BY <1>0, <1>a, <1>1 DEF OpSet, Change
<1>2. CASE OpDel(m)
  BY <1>2 DEF OpDel, processMessage, Inv, Requests, Forwards
<1>3. CASE OpCAS(m)
  <2>1. CASE Swaps(m) /\ Change(m.to, m.ts) /\ wins' = wins \cup {m}
    <3>1. m.old <= m.ts
      BY <1>a, <2>1 DEF Forwards, Backwards
    <3>2. store[m.to] <= m.old
      BY <1>0, <1>a, <2>1, Fields, Numbers DEF Swaps, Pair, Stamp
    <3> QED BY <1>0, <1>a, <2>1, <3>1, <3>2 DEF Change
  <2>2. CASE UNCHANGED store
    BY <1>a, <2>2
  <2> QED BY <1>3, <2>1, <2>2 DEF OpCAS
<1> QED BY <1>1, <1>2, <1>3 DEF processMessage

(* Requests that arrive.                                                   *)
LEMMA MessageInv == ASSUME Inv, NEW m \in net, processMessage(m) PROVE Inv'
<1>0. m \in Message /\ store \in [Replica -> Pair] /\ Master \in Replica
  BY ReplicaAssumption DEF Inv, TypeOK
<1>a. /\ m.to \in Replica /\ m.ts \in Stamp /\ m.ts \in Pair /\ m.ts \in Int /\ m.old \in Int
      /\ 0 \in Pair /\ \A r \in Replica : store[r] \in Int
  BY <1>0, Fields, Numbers
<1>1. To(Replica \ {m.to}, "set", m.ts, 0) \subseteq Message
        /\ \A n \in To(Replica \ {m.to}, "set", m.ts, 0) : n.kind = "set"
  BY <1>a DEF To, Message
<1>2. \/ UNCHANGED wins
      \/ /\ wins' = wins \cup {m} /\ Swaps(m) /\ m.kind = "cas"
         /\ store' = [store EXCEPT ![m.to] = m.ts]
  BY DEF processMessage, OpSet, OpDel, OpCAS, Change
<1>3. net' \subseteq Message /\ \A n \in net' : n \in net \/ n.kind = "set"
  BY <1>1 DEF processMessage, OpSet, OpDel, OpCAS, Inv, TypeOK
<1>4. store' \in [Replica -> Pair]
  BY <1>0, <1>a DEF processMessage, OpSet, OpDel, OpCAS, Change
<1>5. UNCHANGED <<used, synched, checks, get, dels, gets, losses>>
  BY DEF processMessage
<1>6. TypeOK'
  BY <1>0, <1>2, <1>3, <1>4, <1>5 DEF Inv, TypeOK
<1>7. Requests'
  BY <1>3, <1>5 DEF Inv, Requests
<1>8. Forwards' => Forwards
  BY <1>2, <1>5 DEF Forwards, Backwards
<1>9. Forwards' => \A r \in Replica : store'[r] >= store[r]
  BY StoreGrows
<1>10. ASSUME wins' = wins \cup {m}, Swaps(m), m.kind = "cas",
              store' = [store EXCEPT ![m.to] = m.ts], Forwards'
       PROVE  /\ store'[Master] = m.ts /\ m.old < m.ts
              /\ \A n \in wins : n.old < n.ts /\ n.ts <= m.old
  <2>1. m.to = Master /\ m.ts # m.old
    BY <1>10 DEF Inv, Requests
  <2>2. ~(m.ts < m.old)
    BY <1>10 DEF Forwards, Backwards
  <2>3. store[Master] <= m.old /\ store'[Master] = m.ts
    <3>1. m.old \in Pair
      BY <1>0, Fields
    <3> QED BY <1>0, <1>10, <2>1, <3>1 DEF Swaps, Pair, Stamp
  <2>4. m.old < m.ts
    BY <1>a, <2>1, <2>2
  <2>5. \A n \in wins : n.old < n.ts /\ n.ts <= store[Master] /\ n.ts \in Int
    BY <1>8, <1>10, Fields DEF Inv, Ladder, TypeOK
  <2> QED BY <1>a, <1>0, <2>3, <2>4, <2>5
<1>11. wins \subseteq Message /\ \A n \in wins : n.ts \in Int /\ n.old \in Int
  BY Fields DEF Inv, TypeOK
<1>12. Ladder'
  <2> SUFFICES ASSUME Forwards', NEW n \in wins'
               PROVE  n.old < n.ts /\ n.ts <= store'[Master]
    BY DEF Ladder
  <2>1. CASE UNCHANGED wins
    <3>1. n.old < n.ts /\ n.ts <= store[Master]
      BY <1>8, <2>1 DEF Inv, Ladder
    <3>2. store'[Master] >= store[Master] /\ store[Master] \in Int /\ store'[Master] \in Int
      BY <1>0, <1>4, <1>9, Numbers
    <3> QED BY <1>11, <2>1, <3>1, <3>2
  <2>2. CASE wins' = wins \cup {m} /\ Swaps(m) /\ m.kind = "cas"
               /\ store' = [store EXCEPT ![m.to] = m.ts]
    <3>1. /\ store'[Master] = m.ts /\ m.old < m.ts
          /\ \A o \in wins : o.old < o.ts /\ o.ts <= m.old
      BY <1>10, <2>2
    <3> QED BY <1>a, <1>11, <2>2, <3>1
  <2> QED BY <1>2, <2>1, <2>2
<1>13. Ahead'
  <2> SUFFICES ASSUME get.on, Forwards'
               PROVE  \E r \in Replica :
                         IF r \in DOMAIN get.times
                         THEN get.times[r] = lost \/ get.times[r] >= get.floor
                         ELSE store'[r] >= get.floor
    BY <1>5 DEF Ahead
  <2>1. PICK r \in Replica : IF r \in DOMAIN get.times
                             THEN get.times[r] = lost \/ get.times[r] >= get.floor
                             ELSE store[r] >= get.floor
    BY <1>8 DEF Inv, Ahead
  <2>2. store[r] \in Int /\ store'[r] \in Int /\ get.floor \in Int /\ store'[r] >= store[r]
    BY <1>a, <1>4, <1>9, Numbers DEF Inv, TypeOK
  <2> QED BY <2>1, <2>2
<1>14. FreshRead'
  BY <1>5, <1>8 DEF Inv, FreshRead, Forwards
<1>15. CASOnce'
  <2> SUFFICES ASSUME Forwards', NEW n \in wins', NEW o \in wins', n # o PROVE n.old # o.old
    BY DEF CASOnce, Forwards
  <2>1. CASE UNCHANGED wins
    BY <1>8, <2>1 DEF Inv, CASOnce, Forwards
  <2>2. CASE wins' = wins \cup {m} /\ Swaps(m) /\ m.kind = "cas"
               /\ store' = [store EXCEPT ![m.to] = m.ts]
    <3>1. CASE n \in wins /\ o \in wins
      BY <1>8, <3>1 DEF Inv, CASOnce, Forwards
    <3>2. CASE n = m \/ o = m
      <4>1. m.old < m.ts /\ \A w \in wins : w.old < w.ts /\ w.ts <= m.old
        BY <1>10, <2>2
      <4> QED BY <1>a, <1>11, <2>2, <3>2, <4>1
    <3> QED BY <2>2, <3>1, <3>2
  <2> QED BY <1>2, <2>1, <2>2
<1> QED BY <1>6, <1>7, <1>12, <1>13, <1>14, <1>15 DEF Inv

(* Losses, heartbeats and repairs.                                         *)
LEMMA ServersInv ==
    ASSUME Inv, (\E m \in net : Loses(m)) \/ (\E r \in Replica : Check(r) \/ Told(r))
    PROVE  Inv'
<1>1. ASSUME NEW m \in net, Loses(m) PROVE Inv'
  <2>1. TypeOK'
    BY <1>1 DEF Loses, Inv, TypeOK
  <2> QED BY <1>1, <2>1, OnlySets DEF Loses, Inv
<1>2. ASSUME NEW r \in Replica, Told(r) PROVE Inv'
  <2>1. TypeOK'
    BY <1>2 DEF Told, Inv, TypeOK
  <2> QED BY <1>2, <2>1, OnlySets DEF Told, Inv
<1>3. ASSUME NEW r \in Replica, Check(r) PROVE Inv'
  <2>1. repair(r) \subseteq Message /\ \A m \in repair(r) : m.kind = "set"
    <3>1. store[r] # 0 => store[r] \in Stamp
      BY DEF Inv, TypeOK, Pair
    <3>2. CASE store[r] = 0
      BY <3>2 DEF repair
    <3>3. CASE store[r] # 0
      BY <3>1, <3>3, ToMessages, Numbers DEF repair
    <3> QED BY <3>2, <3>3
  <2>2. net' \subseteq Message /\ \A m \in net' : m \in net \/ m.kind = "set"
    BY <1>3, <2>1 DEF Check, Inv, TypeOK
  <2>3. checks' \in [Replica -> 0 .. checksTillRepair]
    <3>1. checks \in [Replica -> 0 .. checksTillRepair] /\ checksTillRepair \in Nat
      BY ReplicaAssumption DEF Inv, TypeOK
    <3> QED BY <1>3, <3>1 DEF Check
  <2>4. TypeOK'
    BY <1>3, <2>2, <2>3 DEF Check, Inv, TypeOK
  <2> QED BY <1>3, <2>2, <2>4, OnlySets DEF Check, Inv
<1> QED BY <1>1, <1>2, <1>3

-----------------------------------------------------------------------------
(* Get begins with a pair that some server has, as floor.                  *)
LEMMA GetStartsInv == ASSUME Inv, GetStarts PROVE Inv'
<1>0. PICK r \in Replica : get' = [NoGet EXCEPT !.on = TRUE, !.floor = store[r]]
  BY DEF GetStarts
<1>1. store[r] \in Pair /\ store[r] \in Int
  BY Numbers DEF Inv, TypeOK
<1>2. get'.on /\ get'.times = [q \in {} |-> 0] /\ get'.floor = store[r] /\ ~get'.behind
  BY <1>0 DEF NoGet
<1>3. get' \in [on : BOOLEAN, times : UNION {[R -> Pair \cup {lost}] : R \in SUBSET Replica},
                floor : Pair, behind : BOOLEAN]
  <2>1. [q \in {} |-> 0] \in [{} -> Pair \cup {lost}] /\ {} \in SUBSET Replica
    OBVIOUS
  <2>2. [q \in {} |-> 0] \in UNION {[R -> Pair \cup {lost}] : R \in SUBSET Replica}
    BY <2>1
  <2> QED BY <1>0, <1>1, <2>2 DEF NoGet
<1>4. TypeOK'
  BY <1>3 DEF GetStarts, Inv, TypeOK
<1>5. Ahead'
  BY <1>1, <1>2 DEF GetStarts, Ahead
<1>6. Requests' /\ Ladder' /\ CASOnce' /\ FreshRead'
  BY <1>2 DEF GetStarts, Inv, Requests, Ladder, CASOnce, FreshRead, Forwards, Backwards
<1> QED BY <1>4, <1>5, <1>6 DEF Inv

(* Get reads on, and when it returns it is not behind.                     *)
LEMMA GetReadsInv == ASSUME Inv, NEW r \in Replica, GetReads(r) PROVE Inv'
<1> DEFINE Read(t) == [q \in DOMAIN get.times \cup {r} |-> IF q = r THEN t ELSE get.times[q]]
<1>1. PICK t \in {store[r], lost} :
        \/ /\ DOMAIN Read(t) # Replica
           /\ get' = [get EXCEPT !.times = Read(t)] /\ UNCHANGED net
        \/ /\ DOMAIN Read(t) = Replica
           /\ get' = [NoGet EXCEPT !.behind = \A q \in Replica :
                         Read(t)[q] # lost /\ Read(t)[q] < get.floor]
           /\ net' = net \cup ReadRepair(Read(t))
  BY DEF GetReads
<1>2. get.on /\ r \notin DOMAIN get.times /\ UNCHANGED <<used, store, synched, checks, wins, dels, gets>>
  BY DEF GetReads
<1>3. PICK R \in SUBSET Replica : get.times \in [R -> Pair \cup {lost}]
  BY DEF Inv, TypeOK
<1>4. /\ get = [on |-> get.on, times |-> get.times, floor |-> get.floor, behind |-> get.behind]
      /\ get.on \in BOOLEAN /\ get.floor \in Pair /\ get.behind \in BOOLEAN
      /\ get.floor \in Int /\ store[r] \in Int /\ store[r] \in Pair
  BY Numbers DEF Inv, TypeOK
<1>5. DOMAIN get.times = R /\ DOMAIN Read(t) = R \cup {r} /\ R \cup {r} \in SUBSET Replica
  BY <1>3
<1>6. Read(t) \in [R \cup {r} -> Pair \cup {lost}]
  BY <1>3, <1>4, <1>5
<1>7. Read(t) \in UNION {[S -> Pair \cup {lost}] : S \in SUBSET Replica}
  BY <1>5, <1>6
<1>8. /\ Read(t)[r] = t
      /\ \A q \in R : q # r /\ Read(t)[q] = get.times[q]
  BY <1>2, <1>3, <1>5
<1> HIDE DEF Read
<1>9. ReadRepair(Read(t)) \subseteq Message /\ \A m \in ReadRepair(Read(t)) : m.kind = "set"
  BY Numbers DEF ReadRepair, To, Message
<1>10. net' \subseteq Message /\ \A m \in net' : m \in net \/ m.kind = "set"
  BY <1>1, <1>9 DEF Inv, TypeOK
<1>11. Requests' /\ Ladder' /\ CASOnce'
  <2>1. Requests'
    BY <1>2, <1>10 DEF Inv, Requests
  <2>2. Ladder' /\ CASOnce'
    BY <1>2 DEF Inv, Ladder, CASOnce, Forwards, Backwards
  <2> QED BY <2>1, <2>2
<1>12. Forwards' => Forwards
  BY <1>2 DEF Forwards, Backwards
<1>13. Forwards => \E q \in Replica : IF q \in R
                                     THEN get.times[q] = lost \/ get.times[q] >= get.floor
                                     ELSE store[q] >= get.floor
  BY <1>2, <1>5 DEF Inv, Ahead
<1>14. Forwards => \E q \in Replica : IF q \in R \cup {r}
                                     THEN Read(t)[q] = lost \/ Read(t)[q] >= get.floor
                                     ELSE store[q] >= get.floor
  <2> SUFFICES ASSUME Forwards,
                      NEW q \in Replica, IF q \in R
                                         THEN get.times[q] = lost \/ get.times[q] >= get.floor
                                         ELSE store[q] >= get.floor
               PROVE  IF q \in R \cup {r}
                      THEN Read(t)[q] = lost \/ Read(t)[q] >= get.floor
                      ELSE store[q] >= get.floor
    BY <1>13
  <2> QED BY <1>1, <1>8
<1>15. CASE /\ DOMAIN Read(t) # Replica
            /\ get' = [get EXCEPT !.times = Read(t)]
  <2>1. get' = [on |-> get.on, times |-> Read(t), floor |-> get.floor, behind |-> get.behind]
    BY <1>4, <1>15
  <2>2. TypeOK'
    BY <1>2, <1>4, <1>7, <1>10, <2>1 DEF Inv, TypeOK
  <2>3. Ahead'
    BY <1>2, <1>5, <1>12, <1>14, <2>1 DEF Ahead
  <2>4. FreshRead'
    BY <1>2, <2>1 DEF Inv, FreshRead, Backwards
  <2> QED BY <1>11, <2>2, <2>3, <2>4 DEF Inv
<1>16. CASE /\ DOMAIN Read(t) = Replica
            /\ get' = [NoGet EXCEPT !.behind = \A q \in Replica :
                         Read(t)[q] # lost /\ Read(t)[q] < get.floor]
  <2> DEFINE behind == \A q \in Replica : Read(t)[q] # lost /\ Read(t)[q] < get.floor
  <2>1. get' = [on |-> FALSE, times |-> [q \in {} |-> 0], floor |-> 0, behind |-> behind]
    BY <1>16 DEF NoGet
  <2>2. behind \in BOOLEAN
    OBVIOUS
  <2>3. Forwards => ~behind
    <3> SUFFICES ASSUME NEW q \in Replica, Read(t)[q] = lost \/ Read(t)[q] >= get.floor
                 PROVE  ~(Read(t)[q] # lost /\ Read(t)[q] < get.floor)
      BY <1>5, <1>14, <1>16
    <3>1. Read(t)[q] \in Int
      BY <1>5, <1>6, <1>16, Numbers DEF lost
    <3> QED BY <1>4, <3>1
  <2> HIDE DEF behind
  <2>4. [q \in {} |-> 0] \in UNION {[S -> Pair \cup {lost}] : S \in SUBSET Replica}
    <3>1. [q \in {} |-> 0] \in [{} -> Pair \cup {lost}] /\ {} \in SUBSET Replica
      OBVIOUS
    <3> QED BY <3>1
  <2>5. TypeOK'
    BY <1>2, <1>10, <2>1, <2>2, <2>4, Numbers DEF Inv, TypeOK
  <2>6. Ahead'
    BY <2>1 DEF Ahead
  <2>7. FreshRead'
    BY <1>2, <2>1, <2>3 DEF FreshRead, Forwards, Backwards
  <2> QED BY <1>11, <2>5, <2>6, <2>7 DEF Inv
<1> QED BY <1>1, <1>15, <1>16

-----------------------------------------------------------------------------
(* Inv is an inductive invariant.                                          *)
LEMMA InitInv == Init => Inv
<1> SUFFICES ASSUME Init PROVE Inv
  OBVIOUS
<1>1. [q \in {} |-> 0] \in UNION {[S -> Pair \cup {lost}] : S \in SUBSET Replica}
  <2>1. [q \in {} |-> 0] \in [{} -> Pair \cup {lost}] /\ {} \in SUBSET Replica
    OBVIOUS
  <2> QED BY <2>1
<1>2. TypeOK
  BY <1>1, ReplicaAssumption, Numbers DEF Init, TypeOK, NoGet
<1> QED BY <1>2 DEF Init, NoGet, Inv, Requests, Ladder, Ahead, FreshRead, CASOnce

(* Every step keeps Inv.                                                   *)
LEMMA NextInv == Inv /\ [Next]_vars => Inv'
<1> SUFFICES ASSUME Inv, [Next]_vars PROVE Inv'
  OBVIOUS
<1>1. CASE UNCHANGED vars
  BY <1>1 DEF vars, Inv, TypeOK, Requests, Ladder, Ahead, FreshRead, CASOnce, Forwards, Backwards
<1>2. CASE Next
  BY <1>2, CallsInv, MessageInv, ServersInv, GetStartsInv, GetReadsInv DEF Next
<1> QED BY <1>1, <1>2

(* Inv holds in every state.                                               *)
THEOREM ReplicaInv == Spec => []Inv
BY InitInv, NextInv, PTL DEF Spec

(* The variables of Replica have their types.                              *)
THEOREM ReplicaTypes == Spec => []TypeOK
BY ReplicaInv, PTL DEF Inv

(* A Get that every server answers is not behind what a server had.        *)
THEOREM ReadsAlwaysFresh == Spec => []FreshRead
BY ReplicaInv, PTL DEF Inv

(* Of the CAS that expect the same pair, one succeeds.                     *)
THEOREM CASAlwaysOnce == Spec => []CASOnce
BY ReplicaInv, PTL DEF Inv
=============================================================================
