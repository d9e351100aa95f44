------------------------ MODULE ThermalPlateHistory ------------------------
(***************************************************************************)
(* ThermalControl with the history of the heating plate: has the plate     *)
(* reached its limit since it was last cool, and what happened since then  *)
(* that the limiter's own latch cannot remember?  The README promises that *)
(* once the plate temperature reaches the limit, the selected heater       *)
(* output "remains inhibited until the plate is at least 1 K below the     *)
(* limit".                                                                 *)
(***************************************************************************)
EXTENDS ThermalControl

VARIABLES
    excursion,  \* the plate reported its limit and has not been cool since
    restarted,  \* the board restarted during this excursion
    unseen      \* a sample of this excursion skipped the limiter

historyVars == <<ctl, settings, eeprom, reading, connected,
                 excursion, restarted, unseen>>

HistoryInit ==
    /\ Init
    /\ excursion = FALSE /\ restarted = FALSE /\ unseen = FALSE

PlateExcursion(before, s, r) ==
    /\ s.limitOn
    /\ IF r[s.plate] = NoReading THEN before
       ELSE \/ r[s.plate] >= s.limit
            \/ before /\ r[s.plate] > s.limit - PlateHysteresis

\* thermal_control_update returns before it evaluates the limiter when the
\* control sensors are insufficient or unsafe, and without a ground station
\* no plate report evaluates it instead.
LimiterSkipped(r) ==
    /\ ~connected
    /\ \/ Cardinality(ValidControl(r)) < MinValid
       \/ ~ControlSensorsSafe(r)

HistoryNext ==
    /\ Next
    /\ excursion' = PlateExcursion(excursion, settings', reading')
    /\ restarted' = (excursion' /\ (restarted \/ PowerCycle))
    /\ unseen'    = (excursion' /\ (unseen \/ LimiterSkipped(reading')))

HistorySpec == HistoryInit /\ [][HistoryNext]_historyVars

-----------------------------------------------------------------------------
ProtectedOff == \A h \in Heaters : PlateSelected(h) => ctl.power[h] = 0

\* The README's promise, for an excursion that the limiter saw and that no
\* restart interrupted: the protected heaters are off until the plate is
\* cool, whatever commands, mode changes and link losses come in between.
InhibitedWhileLatched == excursion /\ ~restarted /\ ~unseen => ProtectedOff
=============================================================================
