---------------------------- MODULE SyncChecksum ----------------------------
(***************************************************************************)
(* The checksum of a PMap (src/core/pmap/syncchecksum.go), which servers   *)
(* compare to find out whether their copies of a chunk differ.  Servers    *)
(* get the same write at different moments; so that this alone does not    *)
(* make them differ, the sum that is compared leaves out what is newer     *)
(* than oldTime, which follows the clock at a distance.                    *)
(*                                                                         *)
(* A sum is modelled as the set of the calls of sum and sub that were      *)
(* added up in it.  A call has a number of its own, the time it was given, *)
(* and whether it changes the sums: checksum() calls sum with 0, at the    *)
(* present time, to move the windows and then returns oldChecksum.         *)
(***************************************************************************)
EXTENDS Integers

VARIABLES
    calls,                  \* the calls made
    new, medium, old,       \* newChecksum, mediumChecksum, oldChecksum
    newTime, mediumTime, oldTime,
    moves                   \* history: how often the time has moved since a change

vars == <<calls, new, medium, old, newTime, mediumTime, oldTime, moves>>

Call == [n : Nat, t : Nat, change : BOOLEAN]

second == 1000      \* time is counted in milliseconds

\* time.Unix(t.Unix()+1, 0)
NextSecond(t) == (t \div second + 1) * second

\* sum(el, t) when t is after newTime moves the time forward, and then adds el
Forward(c) ==
    /\ c.t > newTime
    /\ oldTime' = mediumTime /\ mediumTime' = newTime /\ newTime' = NextSecond(c.t)
    /\ old' = medium \cup (IF c.t < mediumTime THEN {c} ELSE {})
    /\ medium' = new \cup (IF c.t < newTime THEN {c} ELSE {})

Adds(c) ==
    /\ c.t <= newTime
    /\ medium' = medium \cup (IF c.t < mediumTime THEN {c} ELSE {})
    /\ old' = old \cup (IF c.t < oldTime THEN {c} ELSE {})
    /\ UNCHANGED <<newTime, mediumTime, oldTime>>

sum(c) ==
    /\ \A d \in calls : d.n # c.n
    /\ calls' = calls \cup {c} /\ new' = new \cup {c}
    /\ Forward(c) \/ Adds(c)
    /\ moves' = IF c.change THEN 0 ELSE IF c.t > newTime THEN moves + 1 ELSE moves

Init ==
    /\ calls = {} /\ new = {} /\ medium = {} /\ old = {}
    /\ newTime = 0 /\ mediumTime = 0 /\ oldTime = 0 /\ moves = 0

Next == \E c \in Call : sum(c)

Spec == Init /\ [][Next]_vars

-----------------------------------------------------------------------------
(* Every call with a time before a window's is in the window's sum, and    *)
(* none with a time after it, in whatever order the calls came: late       *)
(* writes, repairs and deletions included.  A call at the very instant of  *)
(* a whole second may be in or out.                                        *)
Windows ==
    /\ new = calls
    /\ {c \in calls : c.t < mediumTime} \subseteq medium
    /\ medium \subseteq {c \in calls : c.t <= mediumTime}
    /\ {c \in calls : c.t < oldTime} \subseteq old
    /\ old \subseteq {c \in calls : c.t <= oldTime}

Changes(S) == {c \in S : c.change}

(* Once no more changes come and checksum() has moved the time twice, the  *)
(* sum it returns is that of all changes, whatever times they were given   *)
(* and in whatever order they came: servers whose changes are the same     *)
(* come to agree.                                                          *)
Settled == moves >= 2 => Changes(old) = Changes(calls)

(* The times of the windows are in order, no call is after the newest, and *)
(* each time it moves the changes get into the next window.                *)
Inv ==
    /\ calls \subseteq Call
    /\ {newTime, mediumTime, oldTime} \subseteq Nat
    /\ oldTime <= mediumTime /\ mediumTime <= newTime
    /\ \A c \in calls : c.t <= newTime
    /\ Windows
    /\ moves \in Nat
    /\ moves >= 1 => Changes(calls) \subseteq medium
    /\ moves >= 2 => Changes(calls) \subseteq old
=============================================================================
