------------------------------- MODULE LWWMap -------------------------------
(***************************************************************************)
(* What a PMap promises: a dictionary of timestamped pairs in which the    *)
(* last writer wins.  This is the abstract specification that the hashmap  *)
(* and the append-only store of module PMap implement together.  A call    *)
(* is a record that names the operation and its arguments.                 *)
(***************************************************************************)
EXTENDS Naturals

CONSTANTS Key,       \* keys
          Val,       \* values, without their 8 byte timestamp header
          Time,      \* timestamps
          EmptyVal   \* the value of length 0

VARIABLES map,       \* the pairs present: a function on a subset of Key
          ans,       \* the last call and its answer, "ok" or "err"
          lost       \* the map is being opened, and something that the file or
                     \* the index had no room for is missing

SetOp   == [kind: {"set"}, key: Key, ts: Time, val: Val]
CASOp   == [kind: {"cas"}, key: Key, ts: Time, val: Val, oldTs: Time \cup {0}, oldVal: Val]
DelOp   == [kind: {"del"}, key: Key, ts: Time]
ShortOp == [kind |-> "short"]   \* a value too short to hold its header

Has(k) == k \in DOMAIN map

Write(o) ==
    map' = [x \in DOMAIN map \cup {o.key} |->
                IF x = o.key THEN [ts |-> o.ts, val |-> o.val] ELSE map[x]]

Remove(o) == map' = [x \in DOMAIN map \ {o.key} |-> map[x]]

Answer(o, r) == ans' = [op |-> o, out |-> r]

NoAnswer == [op |-> ShortOp, out |-> "ok"]

Init == map = [k \in {} |-> 0] /\ ans = NoAnswer

(* A Set wins against an absent pair and an older one.  A Set that loses   *)
(* is discarded, which is not an error.                                    *)
Set(o) ==
    /\ Answer(o, "ok")
    /\ IF Has(o.key) /\ map[o.key].ts >= o.ts THEN UNCHANGED map ELSE Write(o)

\* The two tests of a CAS: an absent pair has timestamp 0 and an empty value
Passes(o) ==
    IF Has(o.key) THEN map[o.key] = [ts |-> o.oldTs, val |-> o.oldVal]
                  ELSE o.oldTs = 0 /\ o.oldVal = EmptyVal

(* A CAS names the pair it replaces; the answer is "ok" when it wrote.     *)
CAS(o) == Answer(o, "ok") /\ Passes(o) /\ Write(o)

(* What the code does and its comment does not say: on an absent pair a    *)
(* CAS also writes when only ONE of its two tests passes.                  *)
LooseCAS(o) ==
    /\ Answer(o, "ok")
    /\ ~Has(o.key) /\ (o.oldTs = 0 <=> o.oldVal # EmptyVal)
    /\ Write(o)

(* A Del wins against a pair that is not newer.  It may answer "err" and   *)
(* still have deleted the pair: the store had no room for the tombstone.   *)
Del(o) ==
    \E r \in {"ok", "err"} :
        /\ Answer(o, r)
        /\ IF Has(o.key) /\ map[o.key].ts <= o.ts
           THEN Remove(o)
           ELSE r = "ok" /\ UNCHANGED map

(* A write may be refused: a test that fails, no room, a short value.      *)
Refused(o) == Answer(o, "err") /\ UNCHANGED map

(* The last answer is forgotten: a call begins, or the process restarts.   *)
Silent == ans' = NoAnswer /\ UNCHANGED map

(* The process restarts with other pairs than those it stopped with.       *)
Loses == lost /\ ans' = NoAnswer

Next ==
    \/ Silent \/ Loses
    \/ \E o \in SetOp : Set(o) \/ Refused(o)
    \/ \E o \in CASOp : CAS(o) \/ LooseCAS(o) \/ Refused(o)
    \/ \E o \in DelOp : Del(o)
    \/ Refused(ShortOp)

Spec == Init /\ [][Next]_<<map, ans>>
=============================================================================
