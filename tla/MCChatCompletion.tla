-------------------------- MODULE MCChatCompletion --------------------------
(* An instance of ChatCompletion for TLC: three requests, so that two can  *)
(* queue for one slot, of all kinds.                                       *)
EXTENDS ChatCompletion

CONSTANTS q1, q2, q3

AllKinds == q1 :> {"live"} @@ q2 :> {"buffered"} @@ q3 :> {"fallthrough"}

=============================================================================
