---------------------------- MODULE HealthReports ----------------------------
(***************************************************************************)
(* What the ground station is told about the AIRDOS sensors and about the  *)
(* Secondary: the states the Primary derives from the age of what it       *)
(* received (telemetry.cpp, teensy_link.cpp), the reports that telemetry   *)
(* queues on a change and every Period, and the link that resets its       *)
(* queues when the ground station times out (ethernet_link.cpp).           *)
(*                                                                         *)
(* Time is counted in ticks.  The two parts of an iteration of loop() that *)
(* matter here are separate steps, and time may pass between them.         *)
(***************************************************************************)
EXTENDS Naturals

CONSTANTS
  Remote, Local,   \* AIRDOS sensors of the Secondary and of the Primary
  Timeout,         \* AIRDOS_TIMEOUT_MS, and the same limit for the Secondary
  CheckPeriod,     \* the 100 ms between two checks for a change
  Period,          \* SYSTEM_TELEMETRY_PERIOD_MS
  GsTimeout,       \* ETHERNET_GROUND_STATION_TIMEOUT_MS
  MaxPause,        \* assumption: the longest time between telemetry updates
  MaxOverflow      \* bound: overflow counts of the sensors

Sensors == Remote \cup Local
Secondary == "SECONDARY"
Keys == Sensors \cup {Secondary}

ASSUME HealthAssumption ==
  /\ Remote \cap Local = {} /\ Secondary \notin Sensors
  /\ {Timeout, CheckPeriod, Period, GsTimeout, MaxPause} \subseteq Nat \ {0}
  /\ CheckPeriod < Period
  /\ MaxOverflow \in Nat

VARIABLES
  age, received,   \* of the last data of a key; since the start if none came
  overflow,        \* overflow counts as the Primary knows them
  known, silence,  \* ground_station_known, time since its last datagram
  complete,        \* system_telemetry_sent
  sinceComplete, sinceCheck,
  last,            \* last_state and last_errors: never reset
  pending,         \* the report of a key in the outbox, or None
  phase, pause,    \* the loop: next step, time since the last telemetry update
  seen,            \* history: what the ground station was told in this session
  missed,          \* history: reports lost by the network or by a reset of the
                   \* queues that telemetry did not see
  behind           \* history: how long a report has not been the current one

data == <<age, received, overflow>>
network == <<known, silence>>
telemetry == <<complete, sinceComplete, sinceCheck, last>>
history == <<seen, missed, behind>>
vars == <<data, network, telemetry, pending, phase, pause, history>>

-----------------------------------------------------------------------------

None == [state |-> "none", errors |-> 0]

Saturated(n, max) == IF n = max THEN n ELSE n + 1

\* An AIRDOS sensor is in time up to and including the limit, the Secondary
\* only below it.
InTime(k) == IF k = Secondary THEN age[k] < Timeout ELSE age[k] <= Timeout

State(k) == CASE ~InTime(k)  -> "FAULT"
              [] received[k] -> "OK"
              [] OTHER       -> "WAITING"

Current(k) == [state  |-> State(k),
               errors |-> IF k = Secondary THEN 0 ELSE overflow[k]]

Connected == known /\ silence <= GsTimeout

\* What the ground station knows or will be told without a new report.
Latest(k) == IF pending[k] # None THEN pending[k] ELSE seen[k]

Init ==
  /\ age = [k \in Keys |-> 0] /\ received = [k \in Keys |-> FALSE]
  /\ overflow = [s \in Sensors |-> 0]
  /\ known = FALSE /\ silence = 0
  /\ complete = FALSE /\ sinceComplete = 0 /\ sinceCheck = 0
  /\ last = [s \in Sensors |-> None]
  /\ pending = [k \in Keys |-> None]
  /\ phase = "network" /\ pause = 0
  /\ seen = [k \in Keys |-> None]
  /\ missed = {} /\ behind = [k \in Keys |-> 0]

-----------------------------------------------------------------------------
(* Data arrive on the UARTs.  Every valid frame shows that the Secondary   *)
(* is there, and those of a sensor that the sensor is.                     *)

Heard(ks) ==
  /\ age' = [k \in Keys |-> IF k \in ks THEN 0 ELSE age[k]]
  /\ received' = [k \in Keys |-> received[k] \/ k \in ks]

Measurement(s) ==
  /\ Heard({s} \cup (IF s \in Remote THEN {Secondary} ELSE {}))
  /\ UNCHANGED <<overflow, network, telemetry, pending, phase, pause, history>>

StatusFrame ==
  /\ Heard({Secondary})
  /\ UNCHANGED <<overflow, network, telemetry, pending, phase, pause, history>>

\* The count of a remote sensor is the last one received: after a reset of
\* the Secondary it starts again.
Overflow(s, count) ==
  /\ IF s \in Remote THEN Heard({Secondary})
     ELSE count = overflow[s] + 1 /\ UNCHANGED <<age, received>>
  /\ overflow' = [overflow EXCEPT ![s] = count]
  /\ UNCHANGED <<network, telemetry, pending, phase, pause, history>>

-----------------------------------------------------------------------------
(* ethernet_link_update: time-out, one datagram that may be waiting, and   *)
(* the reports the pacer and the network take.                             *)

TimedOut == known /\ silence > GsTimeout

Network(heard) ==
  /\ phase = "network" /\ phase' = "telemetry"
  /\ known' = ((known /\ ~TimedOut) \/ heard)
  /\ silence' = IF heard THEN 0 ELSE silence
  /\ UNCHANGED <<data, telemetry, pause, behind>>

\* A datagram takes the pending reports of the keys ks, as many as fit, and
\* arrives or is lost as a whole.
NetworkSends(heard, ks, arrives) ==
  /\ Network(heard) /\ ~TimedOut
  /\ \A k \in ks : pending[k] # None
  /\ pending' = [k \in Keys |-> IF k \in ks THEN None ELSE pending[k]]
  /\ IF arrives
     THEN /\ seen' = [k \in Keys |-> IF k \in ks THEN pending[k] ELSE seen[k]]
          /\ UNCHANGED missed
     ELSE missed' = missed \cup ks /\ UNCHANGED seen

\* The pacer or the network takes none.
NetworkQuiet(heard) ==
  /\ Network(heard) /\ ~TimedOut
  /\ UNCHANGED <<pending, seen, missed>>

\* The queues are reset, and values of the old session are invalid on the
\* ground.
NetworkTimesOut(heard) ==
  /\ Network(heard) /\ TimedOut
  /\ pending' = [k \in Keys |-> None] /\ seen' = [k \in Keys |-> None]
  /\ missed' = IF heard THEN Keys ELSE {}

-----------------------------------------------------------------------------
(* telemetry_update                                                        *)

\* Mutant of Changed: only the state is compared.
ChangedState(periodic) ==
  IF ~periodic /\ sinceCheck < CheckPeriod THEN {}
  ELSE {s \in Sensors : periodic \/ last[s].state # State(s)}

\* The sensors whose report is queued by a check; a complete report has the
\* Secondary as well.
Changed(periodic) ==
  IF ~periodic /\ sinceCheck < CheckPeriod THEN {}
  ELSE {s \in Sensors : periodic \/ last[s] # Current(s)}

Queued(periodic) ==
  Changed(periodic) \cup (IF periodic THEN {Secondary} ELSE {})

Report(periodic) ==
  /\ last' = [s \in Sensors |->
                IF s \in Changed(periodic) THEN Current(s) ELSE last[s]]
  /\ pending' = [k \in Keys |->
                   IF k \in Queued(periodic) THEN Current(k) ELSE pending[k]]
  /\ sinceCheck' = IF periodic \/ sinceCheck >= CheckPeriod THEN 0 ELSE sinceCheck
  /\ sinceComplete' = IF periodic THEN 0 ELSE sinceComplete

\* Mutant of Due: one complete report in a session.
DueOnce == ~complete

Due == ~complete \/ sinceComplete >= Period

TelemetryUpdate ==
  /\ phase = "telemetry" /\ phase' = "network"
  /\ pause' = 0
  /\ complete' = Connected
  /\ IF Connected
     THEN /\ Report(Due)
          /\ missed' = missed \ Queued(Due)
     ELSE /\ missed' = {}
          /\ UNCHANGED <<last, pending, sinceCheck, sinceComplete>>
  /\ UNCHANGED <<data, network, seen>>
  /\ behind' = [k \in Keys |-> IF Connected /\ Latest(k)' # Current(k)
                               THEN behind[k] ELSE 0]

-----------------------------------------------------------------------------

Tick ==
  /\ pause < MaxPause
  /\ pause' = pause + 1
  /\ age' = [k \in Keys |-> Saturated(age[k], Timeout + 1)]
  /\ silence' = Saturated(silence, GsTimeout + 1)
  /\ sinceComplete' = Saturated(sinceComplete, Period)
  /\ sinceCheck' = Saturated(sinceCheck, CheckPeriod)
  /\ UNCHANGED <<received, overflow, known, complete, last, pending, phase,
                 seen, missed>>
  /\ behind' = [k \in Keys |->
       IF known /\ Latest(k) # Current(k)'
       THEN Saturated(behind[k], Period + MaxPause + 1) ELSE 0]

NetworkUpdate(heard) ==
  \/ NetworkQuiet(heard) \/ NetworkTimesOut(heard)
  \/ \E ks \in SUBSET Keys \ {{}}, arrives \in BOOLEAN :
       NetworkSends(heard, ks, arrives)

Next ==
  \/ \E s \in Sensors : Measurement(s)
  \/ StatusFrame
  \/ \E s \in Sensors, count \in 0..MaxOverflow : Overflow(s, count)
  \/ \E heard \in BOOLEAN : NetworkUpdate(heard)
  \/ TelemetryUpdate
  \/ Tick

Spec == Init /\ [][Next]_vars

\* The loop runs, time passes, and a report that is pending again and again
\* gets through at some time.
FairSpec ==
  /\ Spec
  /\ WF_vars(\E heard \in BOOLEAN : NetworkUpdate(heard))
  /\ WF_vars(TelemetryUpdate) /\ WF_vars(Tick)
  /\ \A k \in Keys :
       SF_vars(\E heard \in BOOLEAN, ks \in SUBSET Keys :
                 k \in ks /\ NetworkSends(heard, ks, TRUE))

-----------------------------------------------------------------------------
(* Properties.                                                             *)

\* While a ground station is known, what it was or is about to be told of a
\* sensor is what the Primary knows, but for the time of a check.  It takes up
\* to a period only after a report was lost, or when the queues were reset and
\* the ground station was heard in the same call, so that telemetry never saw
\* the link down; and for the Secondary, which is reported periodically.
ReportsAreCurrent ==
  known => \A k \in Keys :
    behind[k] < (IF k \in missed \cup {Secondary} THEN Period ELSE CheckPeriod)
                  + MaxPause

\* A state that lasts reaches a ground station that stays, although reports
\* are replaced, reset with the queues, and lost on the network.
GroundStationLearns ==
  \A k \in Keys :
    <>[]Connected /\ <>[][Current(k)' = Current(k)]_vars
      => <>[](seen[k] = Current(k))
=============================================================================
