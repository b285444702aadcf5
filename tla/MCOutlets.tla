------------------------------ MODULE MCOutlets ------------------------------
(***************************************************************************)
(* Instances of Outlets for TLC.                                           *)
(***************************************************************************)
EXTENDS Outlets, TLC

CONSTANTS w1, w2

\* The first is what the HTTP sender posts; the second may be posted by any client
\* of the endpoint: nothing, or metrics in a list, as in the messages for Kafka.
Bodies == w1 :> {"map"} @@ w2 :> {"map", "list", "empty"}
=============================================================================
