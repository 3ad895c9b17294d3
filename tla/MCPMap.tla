------------------------------- MODULE MCPMap -------------------------------
(* Instances of PMap for TLC.                                              *)
EXTENDS PMap

CONSTANTS k1, k2

\* The keys have the same hash after hashReMap
ReservedHash == [k \in Key |-> IF k = k1 THEN 1 ELSE 3]

FourByteKeys  == [k \in Key |-> 4]
ValLengths    == [v \in Val |-> IF v = "" THEN 0 ELSE 4]
=============================================================================
