------------------------------ MODULE Channel ------------------------------
(***************************************************************************)
(* What a buffered connection promises in one direction: a queue that is   *)
(* never reordered, repeated or holed.  Read returns the messages that     *)
(* Write was given, each once and whole, up to some point; it ends with an *)
(* error only when the writer has closed the connection or the network has *)
(* failed.  How many of the last messages are lost then is left open.      *)
(***************************************************************************)
EXTENDS Naturals, Sequences

CONSTANT Message

VARIABLES sent,     \* the messages that Write has accepted
          received, \* those that Read has returned
          open,     \* the writer has not called Close
          up,       \* the network lets bytes through
          ended     \* Read has returned an error

vars == <<sent, received, open, up, ended>>

Init == sent = <<>> /\ received = <<>> /\ open = TRUE /\ up = TRUE /\ ended = FALSE

(* A message accepted before a failure is noticed may never arrive.        *)
Send ==
    /\ open
    /\ \E m \in Message : sent' = Append(sent, m)
    /\ UNCHANGED <<received, open, up, ended>>

Receive ==
    /\ ~ended /\ Len(received) < Len(sent)
    /\ received' = Append(received, sent[Len(received) + 1])
    /\ UNCHANGED <<sent, open, up, ended>>

Close == open /\ open' = FALSE /\ UNCHANGED <<sent, received, up, ended>>

Break == up /\ up' = FALSE /\ UNCHANGED <<sent, received, open, ended>>

End ==
    /\ ~ended /\ ~(open /\ up) /\ ended' = TRUE
    /\ UNCHANGED <<sent, received, open, up>>

Next == Send \/ Receive \/ Close \/ Break \/ End

Spec == Init /\ [][Next]_vars
=============================================================================
