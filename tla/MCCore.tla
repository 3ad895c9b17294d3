------------------------------- MODULE MCCore -------------------------------
(* Instances of Core for TLC.                                              *)
EXTENDS Core, TLC

\* All keys are in one chunk; another one only comes and goes
FirstChunk == [k \in Key |-> 0]

\* No property of Core tells one key from another
KeySymmetry == Permutations(Key)
=============================================================================
