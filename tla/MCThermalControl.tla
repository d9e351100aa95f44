-------------------------- MODULE MCThermalControl --------------------------
(***************************************************************************)
(* Small instances of ThermalControl for TLC.  Powers are in units of half *)
(* the full scale; temperatures are ranks: the cutoff is the highest, and  *)
(* below it lie one value under the bang-bang band, at least one inside it *)
(* and one over it, and likewise around the plate limit and its hysteresis *)
(* (in thermal_sensors none inside the bands).                             *)
(***************************************************************************)
EXTENDS ThermalControl, TLC

CONSTANTS h1, h2, s1, s2, p1, p2

BothHeaters == {h1, h2}
HalfAndFull == (h1 :> 1) @@ (h2 :> 2)
OneFull     == h1 :> 2

NoGains      == [kp |-> 0, ki |-> 0, kd |-> 0]
Proportional == [kp |-> 1, ki |-> 0, kd |-> 0]
FullPid      == [kp |-> 1, ki |-> 1, kd |-> 1]
OneGain      == {NoGains}
PidGains     == {Proportional, FullPid}

Factory ==
    [ enabled |-> TRUE, target |-> 2, manual |-> Off, gains |-> NoGains,
      mode |-> "PID", hyst |-> 1, bangPower |-> 2, fusion |-> "MEAN",
      limitOn |-> FALSE, limit |-> 4, plate |-> p1 ]
PidFactory  == [Factory EXCEPT !.gains = Proportional]

\* Another firmware heated by hand; what it did not know reads as garbage, or
\* happens to be a value of this one.
LeftBehind ==
    [ enabled |-> FALSE, target |-> 2, manual |-> [h \in Heaters |-> 1],
      gains |-> Proportional, mode |-> "BANG_BANG", hyst |-> 1, bangPower |-> 2,
      fusion |-> "MAXIMUM", limitOn |-> TRUE, limit |-> 4, plate |-> p1 ]
OtherFirmware ==
    {[f \in DOMAIN LeftBehind |-> IF f \in unknown THEN OutOfRange ELSE LeftBehind[f]] :
        unknown \in SUBSET {"gains", "hyst", "fusion", "limit", "plate"}}
=============================================================================
