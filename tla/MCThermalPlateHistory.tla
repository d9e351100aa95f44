----------------------- MODULE MCThermalPlateHistory -----------------------
(***************************************************************************)
(* A small instance of ThermalPlateHistory: one heater, one control and    *)
(* two plate sensors, and two limits whose hysteresis bands overlap.       *)
(* Temperatures are ranks: the cutoff is the highest, and below it lie one *)
(* value under the bang-bang band, one inside it and one over it.          *)
(***************************************************************************)
EXTENDS ThermalPlateHistory, TLC

CONSTANTS h1, s1, p1, p2

OneFull == h1 :> 2
NoGains == {[kp |-> 0, ki |-> 0, kd |-> 0]}
BangFactory ==
    [ enabled |-> TRUE, target |-> 2, manual |-> Off,
      gains |-> [kp |-> 0, ki |-> 0, kd |-> 0],
      mode |-> "BANG_BANG", hyst |-> 1, bangPower |-> 2, fusion |-> "MEAN",
      limitOn |-> FALSE, limit |-> 4, plate |-> p1 ]

\* Another firmware left the limiter on, with a limit or sensor that this one
\* may not accept.
LeftBehind == [BangFactory EXCEPT !.limitOn = TRUE, !.limit = 3, !.plate = p2]
OtherFirmware ==
    {[LeftBehind EXCEPT !.limit = limit, !.plate = plate] :
        limit \in {3, OutOfRange}, plate \in {p2, OutOfRange}}
=============================================================================
