-------------------------- MODULE MCTumblingWindow --------------------------
(***************************************************************************)
(* Instances of TumblingWindow for TLC.                                    *)
(***************************************************************************)
EXTENDS TumblingWindow, TLC

CONSTANTS p1, p2, m1, m2

\* Two goroutines with a meter each.
SingleReads == p1 :> {m1} @@ p2 :> {m2}
=============================================================================
