------------------------------ MODULE MCBroker ------------------------------
(* Instance of Broker: r1 waits with the lock held, r2 has the shorter     *)
(* timeout.                                                                *)
EXTENDS Broker

CONSTANTS r1, r2

ProtectAndSet == [r \in Req |-> IF r = r1 THEN "Protect" ELSE "Set"]
OneShorter == [r \in Req |-> IF r = r1 THEN 2 ELSE 1]
=============================================================================
