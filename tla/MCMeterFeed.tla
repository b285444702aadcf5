----------------------------- MODULE MCMeterFeed -----------------------------
(***************************************************************************)
(* An instance of MeterFeed for TLC: grains of one, the ends of each range *)
(* and some values between them.                                           *)
(***************************************************************************)
EXTENDS MeterFeed

SomeLoads == {200, 333, 1000}
SomeNoises == {-10, -3, 9, 10}
SomeVoltages == {2150, 2203, 2250}
=============================================================================
