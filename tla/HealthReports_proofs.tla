------------------------ MODULE HealthReports_proofs ------------------------
(***************************************************************************)
(* Proof that the ground station is told of a sensor in time.  What a      *)
(* report lags behind is no longer than the timers of telemetry.cpp say,   *)
(* as long as telemetry remembers what the ground station knows, which it  *)
(* does for every sensor of which no report was missed.                    *)
(*                                                                         *)
(* Proof as well that the driver of a sensor, of which the state reported  *)
(* comes, is misled about the device only by a restart that it cannot see. *)
(***************************************************************************)
EXTENDS HealthReports, TLAPS

CONSTANTS Kinds, MaxErrors, RetryPeriod
VARIABLES kind, driver, device, settled

Driver == INSTANCE SensorRecovery

Types ==
  /\ known \in BOOLEAN /\ complete \in BOOLEAN /\ phase \in {"network", "telemetry"}
  /\ pause \in 0..MaxPause
  /\ sinceCheck \in 0..CheckPeriod /\ sinceComplete \in 0..Period
  /\ behind \in [Keys -> Nat]
  /\ last = [s \in Sensors |-> last[s]]
  /\ pending = [k \in Keys |-> pending[k]] /\ seen = [k \in Keys |-> seen[k]]

\* A lag n that began after a timer did: the timer shows how long it can be
\* until it expires, and the pause of the loop p from then on.
Bounded(n, timer, limit, p) == IF timer < limit THEN n <= timer ELSE n < limit + p

\* In a session that has begun with a complete report, telemetry knows what
\* the ground station was told last, unless it was missed.
Lags ==
  /\ phase = "network" /\ ~known => ~complete
  /\ ~complete => \A k \in Keys : behind[k] <= pause
  /\ known /\ complete =>
       /\ \A k \in Keys : Bounded(behind[k], sinceComplete, Period, pause)
       /\ \A s \in Sensors \ missed :
            last[s] = Latest(s) /\ Bounded(behind[s], sinceCheck, CheckPeriod, pause)

HInv == Types /\ Lags

-----------------------------------------------------------------------------

LEMMA Limits ==
  /\ CheckPeriod \in Nat \ {0} /\ Period \in Nat \ {0} /\ MaxPause \in Nat \ {0}
  /\ Sensors \subseteq Keys /\ Secondary \notin Sensors
BY HealthAssumption DEF Keys

LEMMA CurrentIsAReport == \A k \in Keys : Current(k) # None
<1> SUFFICES ASSUME NEW k \in Keys PROVE Current(k).state # None.state
  OBVIOUS
<1>1. State(k) \in {"FAULT", "OK", "WAITING"}
  BY DEF State
<1>2. Current(k).state = State(k) /\ None.state = "none"
  BY DEF Current, None
<1>3. QED
  BY <1>1, <1>2

LEMMA Counts ==
  ASSUME NEW limit \in Nat, NEW n \in Nat
  PROVE  /\ Saturated(n, limit) \in Nat /\ Saturated(n, limit) <= n + 1
         /\ n <= limit => Saturated(n, limit) \in 0..limit
         /\ n < limit => Saturated(n, limit) = n + 1
         /\ n = limit => Saturated(n, limit) = limit
BY DEF Saturated

\* A tick keeps a bound.
LEMMA BoundGrows ==
  ASSUME NEW limit \in Nat \ {0}, NEW timer \in 0..limit, NEW p \in Nat,
         NEW n \in Nat, NEW m \in Nat, m <= n + 1, Bounded(n, timer, limit, p)
  PROVE  Bounded(m, Saturated(timer, limit), limit, p + 1)
BY DEF Bounded, Saturated

\* Data change nothing that the ground station was told.
LEMMA DataStep ==
  ASSUME HInv, UNCHANGED <<network, telemetry, pending, phase, pause, history>>
  PROVE  HInv'
BY DEF HInv, Types, Lags, Latest, network, telemetry, history

LEMMA NetworkStep ==
  ASSUME HInv, NEW heard \in BOOLEAN, NetworkUpdate(heard)
  PROVE  HInv'
<1>1. /\ phase = "network" /\ phase' = "telemetry"
      /\ known' = ((known /\ ~TimedOut) \/ heard)
      /\ complete' = complete /\ sinceComplete' = sinceComplete
      /\ sinceCheck' = sinceCheck /\ last' = last
      /\ pause' = pause /\ behind' = behind
  BY DEF NetworkUpdate, NetworkQuiet, NetworkSends, NetworkTimesOut, Network, telemetry
<1>2. Types'
  <2>1. known' \in BOOLEAN
    BY <1>1
  <2>2. pending' = [k \in Keys |-> pending'[k]] /\ seen' = [k \in Keys |-> seen'[k]]
    BY DEF HInv, Types, NetworkUpdate, NetworkQuiet, NetworkSends, NetworkTimesOut
  <2>3. QED
    BY <1>1, <2>1, <2>2 DEF HInv, Types
<1>3. ASSUME known', complete' PROVE known
  BY <1>1, <1>3 DEF HInv, Lags
<1>4. ASSUME known', complete', NEW s \in Sensors \ missed'
      PROVE  s \in Sensors \ missed /\ Latest(s)' = Latest(s)
  <2>1. s \in Keys
    BY Limits
  <2>2. CASE NetworkQuiet(heard)
    BY <2>2 DEF NetworkQuiet, Latest
  <2>3. ASSUME NEW ks \in SUBSET Keys, NEW arrives \in BOOLEAN,
               NetworkSends(heard, ks, arrives)
        PROVE  s \in Sensors \ missed /\ Latest(s)' = Latest(s)
    <3>1. /\ pending' = [k \in Keys |-> IF k \in ks THEN None ELSE pending[k]]
          /\ \A k \in ks : pending[k] # None
          /\ IF arrives
             THEN /\ seen' = [k \in Keys |-> IF k \in ks THEN pending[k] ELSE seen[k]]
                  /\ UNCHANGED missed
             ELSE missed' = missed \cup ks /\ UNCHANGED seen
      BY <2>3 DEF NetworkSends
    <3>2. pending'[s] = IF s \in ks THEN None ELSE pending[s]
      BY <2>1, <3>1
    <3>3. CASE arrives
      <4>1. s \in Sensors \ missed
        BY <1>4, <3>1, <3>3
      <4>2. seen'[s] = IF s \in ks THEN pending[s] ELSE seen[s]
        BY <2>1, <3>1, <3>3
      <4>3. CASE s \in ks
        BY <3>1, <3>2, <4>1, <4>2, <4>3 DEF Latest
      <4>4. CASE s \notin ks
        BY <3>2, <4>1, <4>2, <4>4 DEF Latest
      <4>5. QED
        BY <4>3, <4>4
    <3>4. CASE ~arrives
      <4>1. s \in Sensors \ missed /\ s \notin ks
        BY <1>4, <3>1, <3>4
      <4>2. QED
        BY <3>1, <3>2, <3>4, <4>1 DEF Latest
    <3>5. QED
      BY <3>3, <3>4
  <2>4. CASE NetworkTimesOut(heard)
    <3>1. ~heard
      BY <1>4, <2>1, <2>4 DEF NetworkTimesOut
    <3>2. QED
      BY <1>1, <1>4, <2>4, <3>1 DEF NetworkTimesOut
  <2>5. QED
    BY <2>2, <2>3, <2>4 DEF NetworkUpdate
<1>5. Lags'
  <2>1. phase' = "network" /\ ~known' => ~complete'
    BY <1>1
  <2>2. ~complete' => \A k \in Keys : behind'[k] <= pause'
    BY <1>1 DEF HInv, Lags
  <2>3. ASSUME known', complete'
        PROVE  /\ \A k \in Keys : Bounded(behind'[k], sinceComplete', Period, pause')
               /\ \A s \in Sensors \ missed' :
                    /\ last'[s] = Latest(s)'
                    /\ Bounded(behind'[s], sinceCheck', CheckPeriod, pause')
    BY <1>1, <1>3, <1>4, <2>3 DEF HInv, Lags
  <2>4. QED
    BY <2>1, <2>2, <2>3 DEF Lags
<1>6. QED
  BY <1>2, <1>5 DEF HInv

LEMMA TickStep ==
  ASSUME HInv, Tick
  PROVE  HInv'
<1>1. /\ known' = known /\ complete' = complete /\ phase' = phase
      /\ last' = last /\ pending' = pending /\ seen' = seen /\ missed' = missed
      /\ pause' = pause + 1 /\ pause < MaxPause
      /\ sinceCheck' = Saturated(sinceCheck, CheckPeriod)
      /\ sinceComplete' = Saturated(sinceComplete, Period)
  BY DEF Tick
<1>2. /\ pause \in Nat /\ sinceCheck \in 0..CheckPeriod /\ sinceComplete \in 0..Period
      /\ behind \in [Keys -> Nat]
  BY Limits DEF HInv, Types
<1>3. /\ pause' \in 0..MaxPause /\ sinceCheck' \in 0..CheckPeriod
      /\ sinceComplete' \in 0..Period
  BY <1>1, <1>2, Limits, Counts
<1>4. behind' \in [Keys -> Nat] /\ \A k \in Keys : behind'[k] <= behind[k] + 1
  <2> DEFINE n(k) == IF known /\ Latest(k) # Current(k)'
                     THEN Saturated(behind[k], Period + MaxPause + 1) ELSE 0
  <2>1. behind' = [k \in Keys |-> n(k)]
    BY DEF Tick
  <2>2. ASSUME NEW k \in Keys PROVE n(k) \in Nat /\ n(k) <= behind[k] + 1
    <3>1. Period + MaxPause + 1 \in Nat /\ behind[k] \in Nat
      BY <1>2, Limits
    <3>2. /\ Saturated(behind[k], Period + MaxPause + 1) \in Nat
          /\ Saturated(behind[k], Period + MaxPause + 1) <= behind[k] + 1
      BY <3>1, Counts
    <3>3. QED
      BY <3>1, <3>2
  <2> HIDE DEF n
  <2>3. QED
    BY <2>1, <2>2
<1>5. Types'
  BY <1>1, <1>3, <1>4 DEF HInv, Types
<1>6. \A k : Latest(k)' = Latest(k)
  BY <1>1 DEF Latest
<1>7. ASSUME ~complete, NEW k \in Keys PROVE behind'[k] <= pause'
  <2>1. behind[k] <= pause
    BY <1>7 DEF HInv, Lags
  <2>2. behind[k] \in Nat /\ behind'[k] \in Nat /\ behind'[k] <= behind[k] + 1
    BY <1>2, <1>4
  <2>3. QED
    BY <1>1, <1>2, <2>1, <2>2
<1>8. ASSUME NEW k \in Keys, NEW timer, NEW limit \in Nat \ {0}, timer \in 0..limit,
             Bounded(behind[k], timer, limit, pause)
      PROVE  Bounded(behind'[k], Saturated(timer, limit), limit, pause')
  <2>1. behind[k] \in Nat /\ behind'[k] \in Nat /\ behind'[k] <= behind[k] + 1
    BY <1>2, <1>4
  <2>2. QED
    BY <1>1, <1>2, <1>8, <2>1, BoundGrows
<1>9. ASSUME known', complete'
      PROVE  /\ \A k \in Keys : Bounded(behind'[k], sinceComplete', Period, pause')
             /\ \A s \in Sensors \ missed' :
                  /\ last'[s] = Latest(s)'
                  /\ Bounded(behind'[s], sinceCheck', CheckPeriod, pause')
  <2>1. /\ \A k \in Keys : Bounded(behind[k], sinceComplete, Period, pause)
        /\ \A s \in Sensors \ missed :
             last[s] = Latest(s) /\ Bounded(behind[s], sinceCheck, CheckPeriod, pause)
    BY <1>1, <1>9 DEF HInv, Lags
  <2>2. \A k \in Keys : Bounded(behind'[k], sinceComplete', Period, pause')
    BY <1>1, <1>2, <1>8, <2>1, Limits
  <2>3. \A s \in Sensors \ missed' :
           last'[s] = Latest(s)' /\ Bounded(behind'[s], sinceCheck', CheckPeriod, pause')
    BY <1>1, <1>2, <1>6, <1>8, <2>1, Limits
  <2>4. QED
    BY <2>2, <2>3
<1>10. Lags'
  BY <1>1, <1>7, <1>9 DEF HInv, Lags
<1>11. QED
  BY <1>5, <1>10 DEF HInv

\* An update of telemetry reports what has changed since the last check.
LEMMA TelemetryStep ==
  ASSUME HInv, TelemetryUpdate
  PROVE  HInv'
<1>1. /\ phase' = "network" /\ pause' = 0 /\ complete' = Connected /\ known' = known
      /\ seen' = seen
      /\ behind' = [k \in Keys |-> IF Connected /\ Latest(k)' # Current(k)
                                   THEN behind[k] ELSE 0]
  BY DEF TelemetryUpdate, network
<1>2. Connected \in BOOLEAN /\ (Connected => known)
  BY DEF Connected, HInv, Types
<1>3. /\ sinceCheck \in 0..CheckPeriod /\ sinceComplete \in 0..Period
      /\ behind \in [Keys -> Nat] /\ known \in BOOLEAN /\ complete \in BOOLEAN
  BY DEF HInv, Types
<1>4. behind' \in [Keys -> Nat]
  BY <1>1, <1>3
<1>5. CASE ~Connected
  <2>1. UNCHANGED <<last, pending, sinceCheck, sinceComplete>>
    BY <1>5 DEF TelemetryUpdate
  <2>2. Types'
    BY <1>1, <1>2, <1>4, <2>1, Limits DEF HInv, Types
  <2>3. \A k \in Keys : behind'[k] = 0
    BY <1>1, <1>5
  <2>4. ~complete'
    BY <1>1, <1>5
  <2>5. Lags'
    BY <1>1, <2>3, <2>4 DEF Lags
  <2>6. QED
    BY <2>2, <2>5 DEF HInv
<1>6. CASE Connected
  <2>1. /\ known' /\ complete'
        /\ last' = [s \in Sensors |-> IF s \in Changed(Due) THEN Current(s) ELSE last[s]]
        /\ pending' = [k \in Keys |-> IF k \in Queued(Due) THEN Current(k) ELSE pending[k]]
        /\ missed' = missed \ Queued(Due)
        /\ sinceCheck' = IF Due \/ sinceCheck >= CheckPeriod THEN 0 ELSE sinceCheck
        /\ sinceComplete' = IF Due THEN 0 ELSE sinceComplete
    BY <1>1, <1>2, <1>6 DEF TelemetryUpdate, Report
  <2>2. Types'
    <3>1. sinceCheck' \in 0..CheckPeriod /\ sinceComplete' \in 0..Period
      BY <1>3, <2>1, Limits
    <3>2. /\ last' = [s \in Sensors |-> last'[s]]
          /\ pending' = [k \in Keys |-> pending'[k]]
      BY <2>1
    <3>3. QED
      BY <1>1, <1>2, <1>3, <1>4, <3>1, <3>2, Limits DEF HInv, Types
  <2>3. ASSUME NEW k \in Queued(Due), k \in Keys
        PROVE  Latest(k)' = Current(k) /\ behind'[k] = 0
    <3>1. pending'[k] = Current(k) /\ Current(k) # None
      BY <2>1, <2>3, CurrentIsAReport
    <3>2. Latest(k)' = Current(k)
      BY <3>1 DEF Latest
    <3>3. QED
      BY <1>1, <2>3, <3>2
  <2>4. ASSUME NEW k \in Keys, k \notin Queued(Due) PROVE Latest(k)' = Latest(k)
    BY <1>1, <2>1, <2>4 DEF Latest
  <2>5. ASSUME NEW k \in Keys PROVE behind'[k] \in {0, behind[k]}
    BY <1>1
  <2>6. CASE Due
    <3>1. Queued(Due) = Keys /\ Changed(Due) = Sensors
      BY <2>6 DEF Queued, Changed, Keys
    <3>2. sinceCheck' = 0 /\ sinceComplete' = 0
      BY <2>1, <2>6
    <3>3. \A k \in Keys : Bounded(behind'[k], sinceComplete', Period, pause')
      BY <2>3, <3>1, <3>2, Limits DEF Bounded
    <3>4. ASSUME NEW s \in Sensors
          PROVE  last'[s] = Latest(s)' /\ Bounded(behind'[s], sinceCheck', CheckPeriod, pause')
      <4>1. behind'[s] = 0 /\ Latest(s)' = Current(s)
        BY <2>3, <3>1, Limits
      <4>2. last'[s] = Current(s)
        BY <2>1, <3>1
      <4>3. QED
        BY <3>2, <4>1, <4>2, Limits DEF Bounded
    <3>5. Lags'
      BY <1>1, <2>1, <3>3, <3>4 DEF Lags
    <3>6. QED
      BY <2>2, <3>5 DEF HInv
  <2>7. CASE ~Due
    <3>1. complete /\ sinceComplete < Period
      <4>1. complete /\ ~(sinceComplete >= Period)
        BY <2>7 DEF Due
      <4>2. QED
        BY <1>3, <4>1, Limits
    <3>2. /\ \A k \in Keys : Bounded(behind[k], sinceComplete, Period, pause)
          /\ \A s \in Sensors \ missed :
               last[s] = Latest(s) /\ Bounded(behind[s], sinceCheck, CheckPeriod, pause)
      BY <1>2, <1>6, <3>1 DEF HInv, Lags
    <3>3. Queued(Due) = Changed(Due) /\ sinceComplete' = sinceComplete
      BY <2>1, <2>7 DEF Queued
    <3>4. ASSUME NEW k \in Keys PROVE Bounded(behind'[k], sinceComplete', Period, pause')
      <4>1. behind[k] <= sinceComplete
        BY <3>1, <3>2 DEF Bounded
      <4>2. behind'[k] <= sinceComplete
        BY <1>3, <2>5, <4>1
      <4>3. QED
        BY <3>1, <3>3, <4>2 DEF Bounded
    <3>5. CASE sinceCheck < CheckPeriod
      <4>1. Changed(Due) = {} /\ sinceCheck' = sinceCheck
        BY <1>3, <2>1, <2>7, <3>5, Limits DEF Changed
      <4>2. ASSUME NEW s \in Sensors \ missed'
            PROVE  last'[s] = Latest(s)' /\ Bounded(behind'[s], sinceCheck', CheckPeriod, pause')
        <5>1. s \in Sensors \ missed /\ s \in Keys /\ s \notin Queued(Due)
          BY <2>1, <3>3, <4>1, <4>2, Limits
        <5>2. last'[s] = Latest(s)'
          BY <2>1, <2>4, <3>2, <3>3, <5>1
        <5>3. behind[s] <= sinceCheck
          BY <3>2, <3>5, <5>1 DEF Bounded
        <5>4. behind'[s] <= sinceCheck
          BY <1>3, <2>5, <5>1, <5>3
        <5>5. QED
          BY <3>5, <4>1, <5>2, <5>4 DEF Bounded
      <4>3. Lags'
        BY <1>1, <2>1, <3>4, <4>2 DEF Lags
      <4>4. QED
        BY <2>2, <4>3 DEF HInv
    <3>6. CASE ~(sinceCheck < CheckPeriod)
      <4>1. Changed(Due) = {s \in Sensors : last[s] # Current(s)} /\ sinceCheck' = 0
        BY <1>3, <2>1, <2>7, <3>6, Limits DEF Changed
      <4>2. ASSUME NEW s \in Sensors \ missed'
            PROVE  last'[s] = Latest(s)' /\ Bounded(behind'[s], sinceCheck', CheckPeriod, pause')
        <5>1. s \in Keys /\ s \in Sensors
          BY <4>2, Limits
        <5>2. CASE s \in Changed(Due)
          <6>1. Latest(s)' = Current(s) /\ behind'[s] = 0
            BY <2>3, <3>3, <5>1, <5>2
          <6>2. last'[s] = Current(s)
            BY <2>1, <5>1, <5>2
          <6>3. QED
            BY <4>1, <6>1, <6>2, Limits DEF Bounded
        <5>3. CASE s \notin Changed(Due)
          <6>1. s \in Sensors \ missed /\ last[s] = Current(s)
            BY <2>1, <3>3, <4>1, <4>2, <5>3
          <6>2. Latest(s)' = last[s]
            BY <2>4, <3>2, <3>3, <5>1, <5>3, <6>1
          <6>3. last'[s] = last[s]
            BY <2>1, <5>1, <5>3
          <6>4. behind'[s] = 0
            BY <1>1, <5>1, <6>1, <6>2
          <6>5. QED
            BY <4>1, <6>2, <6>3, <6>4, Limits DEF Bounded
        <5>4. QED
          BY <5>2, <5>3
      <4>3. Lags'
        BY <1>1, <2>1, <3>4, <4>2 DEF Lags
      <4>4. QED
        BY <2>2, <4>3 DEF HInv
    <3>7. QED
      BY <3>5, <3>6
  <2>8. QED
    BY <2>6, <2>7
<1>7. QED
  BY <1>5, <1>6

-----------------------------------------------------------------------------
(* The theorem                                                             *)

LEMMA InvariantStep == HInv /\ [Next]_vars => HInv'
<1> SUFFICES ASSUME HInv, [Next]_vars PROVE HInv'
  OBVIOUS
<1>1. ASSUME NEW s, Measurement(s) PROVE HInv'
  BY <1>1, DataStep DEF Measurement
<1>2. CASE StatusFrame
  BY <1>2, DataStep DEF StatusFrame
<1>3. ASSUME NEW s, NEW count, Overflow(s, count) PROVE HInv'
  BY <1>3, DataStep DEF Overflow
<1>4. CASE UNCHANGED vars
  BY <1>4, DataStep DEF vars
<1>5. QED
  BY <1>1, <1>2, <1>3, <1>4, NetworkStep, TelemetryStep, TickStep DEF Next

\* What the ground station is told lags behind by at most a check, or by a
\* period where a report was missed, for any sensors and times.
THEOREM ReportsKeepUp == Spec => []ReportsAreCurrent
<1>1. ASSUME Init PROVE HInv
  <2>1. /\ last = [s \in Sensors |-> last[s]]
        /\ pending = [k \in Keys |-> pending[k]] /\ seen = [k \in Keys |-> seen[k]]
    BY <1>1 DEF Init
  <2>2. Types
    <3>1. /\ 0 \in 0..MaxPause /\ 0 \in 0..CheckPeriod /\ 0 \in 0..Period
      BY Limits
    <3>2. /\ known = FALSE /\ complete = FALSE /\ phase = "network"
          /\ pause = 0 /\ sinceCheck = 0 /\ sinceComplete = 0
      BY <1>1 DEF Init
    <3>3. behind \in [Keys -> Nat]
      BY <1>1 DEF Init
    <3>4. QED
      BY <2>1, <3>1, <3>2, <3>3 DEF Types
  <2>3. Lags
    <3>1. ~known /\ ~complete /\ pause = 0 /\ \A k \in Keys : behind[k] = 0
      BY <1>1 DEF Init
    <3>2. QED
      BY <3>1 DEF Lags
  <2>4. QED
    BY <2>2, <2>3 DEF HInv
<1>2. ASSUME HInv, known, NEW k \in Keys
      PROVE  behind[k] < (IF k \in missed \cup {Secondary} THEN Period ELSE CheckPeriod)
                           + MaxPause
  <2>1. /\ behind[k] \in Nat /\ pause \in Nat /\ pause <= MaxPause
        /\ sinceCheck \in 0..CheckPeriod /\ sinceComplete \in 0..Period
        /\ complete \in BOOLEAN
    BY <1>2, Limits DEF HInv, Types
  <2>2. CASE ~complete
    <3>1. behind[k] <= pause
      BY <1>2, <2>2 DEF HInv, Lags
    <3>2. QED
      BY <2>1, <3>1, Limits
  <2>3. CASE complete /\ k \in missed \cup {Secondary}
    <3>1. Bounded(behind[k], sinceComplete, Period, pause)
      BY <1>2, <2>3 DEF HInv, Lags
    <3>2. QED
      BY <2>1, <2>3, <3>1, Limits DEF Bounded
  <2>4. CASE complete /\ k \notin missed \cup {Secondary}
    <3>1. k \in Sensors \ missed
      BY <2>4 DEF Keys
    <3>2. Bounded(behind[k], sinceCheck, CheckPeriod, pause)
      BY <1>2, <2>4, <3>1 DEF HInv, Lags
    <3>3. QED
      BY <2>1, <2>4, <3>2, Limits DEF Bounded
  <2>5. QED
    BY <2>1, <2>2, <2>3, <2>4
<1>3. HInv => ReportsAreCurrent
  BY <1>2 DEF ReportsAreCurrent
<1>4. QED
  BY <1>1, <1>3, InvariantStep, PTL DEF Spec

-----------------------------------------------------------------------------
(* The driver of a sensor                                                  *)

DriverTypes ==
  /\ "initialized" \in DOMAIN driver
  /\ device \in {"absent", "unconfigured", "running"}

\* An initialisation sets the flag to its outcome.
LEMMA InitialisedIs ==
  ASSUME NEW d, "initialized" \in DOMAIN d, NEW ok \in BOOLEAN
  PROVE  /\ "initialized" \in DOMAIN Driver!Initialised(d, ok)
         /\ Driver!Initialised(d, ok).initialized = ok
BY DEF Driver!Initialised, Driver!CountError

\* A measurement never sets it.
LEMMA MeasuredIs ==
  ASSUME NEW d, "initialized" \in DOMAIN d, NEW end
  PROVE  /\ "initialized" \in DOMAIN Driver!Measured(d, end)
         /\ Driver!Measured(d, end).initialized => d.initialized
BY DEF Driver!Measured, Driver!CountError

LEMMA FreshIs == "initialized" \in DOMAIN Driver!Fresh
BY DEF Driver!Fresh

LEMMA AgedIs ==
  ASSUME NEW d, "initialized" \in DOMAIN d
  PROVE  /\ "initialized" \in DOMAIN Driver!Aged(d)
         /\ Driver!Aged(d).initialized = d.initialized
BY DEF Driver!Aged

LEMMA DriverStep ==
  ASSUME DriverTypes, [Driver!Next]_(Driver!vars)
  PROVE  DriverTypes' /\ (driver' # driver /\ Driver!Misled' => Driver!Misled)
<1> DEFINE Result == DriverTypes' /\ (Driver!Misled' => Driver!Misled)
<1>1. ASSUME NEW ok \in BOOLEAN, Driver!Boot(ok) PROVE Result
  <2>1. /\ driver' = Driver!Initialised(Driver!Fresh, ok) /\ device' \in Driver!AfterInit(ok)
        /\ kind' = kind
    BY <1>1 DEF Driver!Boot
  <2>2. driver'.initialized = ok /\ "initialized" \in DOMAIN driver'
    BY <2>1, FreshIs, InitialisedIs
  <2>3. /\ device' \in {"absent", "unconfigured", "running"}
        /\ ok => device' # "unconfigured"
    BY <2>1 DEF Driver!AfterInit, DriverTypes
  <2>4. QED
    BY <2>2, <2>3 DEF DriverTypes, Driver!Misled
<1>2. ASSUME Driver!SampleWaits PROVE Result
  <2>1. ~driver.initialized /\ driver' = Driver!Aged([driver EXCEPT !.valid = FALSE])
        /\ device' = device
    BY <1>2 DEF Driver!SampleWaits
  <2>2. /\ "initialized" \in DOMAIN [driver EXCEPT !.valid = FALSE]
        /\ [driver EXCEPT !.valid = FALSE].initialized = driver.initialized
    BY DEF DriverTypes
  <2>3. driver'.initialized = driver.initialized /\ "initialized" \in DOMAIN driver'
    BY <2>1, <2>2, AgedIs
  <2>4. QED
    BY <2>1, <2>3 DEF DriverTypes, Driver!Misled
<1>3. ASSUME Driver!SampleInitFails PROVE Result
  <2>1. driver' = Driver!Initialised(driver, FALSE) /\ device' \in Driver!AfterInit(FALSE)
    BY <1>3 DEF Driver!SampleInitFails
  <2>2. ~driver'.initialized /\ "initialized" \in DOMAIN driver'
    BY <2>1, InitialisedIs DEF DriverTypes
  <2>3. device' \in {"absent", "unconfigured", "running"}
    BY <2>1 DEF Driver!AfterInit, DriverTypes
  <2>4. QED
    BY <2>2, <2>3 DEF DriverTypes, Driver!Misled
<1>4. ASSUME NEW end, Driver!Sample(end) PROVE Result
  <2> DEFINE found == IF Driver!Attempt /\ device # "absent" THEN "running" ELSE device
             d     == IF Driver!Attempt THEN Driver!Initialised(driver, TRUE)
                      ELSE Driver!Aged(driver)
  <2>1. /\ driver' = Driver!Measured(d, end) /\ device' = found /\ kind' = kind
        /\ driver.initialized \/ Driver!Attempt
    BY <1>4 DEF Driver!Sample
  <2>2. /\ "initialized" \in DOMAIN d
        /\ ~Driver!Attempt => d.initialized = driver.initialized
    BY InitialisedIs, AgedIs DEF DriverTypes
  <2> HIDE DEF d
  <2>3. "initialized" \in DOMAIN driver' /\ (driver'.initialized => d.initialized)
    BY <2>1, <2>2, MeasuredIs
  <2>4. CASE Driver!Attempt
    <3>1. device' \in {"absent", "running"}
      BY <2>1, <2>4 DEF DriverTypes
    <3>2. QED
      BY <2>3, <3>1 DEF DriverTypes, Driver!Misled
  <2>5. CASE ~Driver!Attempt
    <3>1. device' = device /\ (driver'.initialized => driver.initialized)
      BY <2>1, <2>2, <2>3, <2>5
    <3>2. QED
      BY <2>1, <2>3, <3>1 DEF DriverTypes, Driver!Misled, Driver!NeedsConfiguration
  <2>6. QED
    BY <2>4, <2>5
<1>5. ASSUME Driver!Unplug \/ Driver!Restart \/ Driver!Settle \/ UNCHANGED Driver!vars
      PROVE  DriverTypes' /\ driver' = driver
  BY <1>5 DEF Driver!Unplug, Driver!Restart, Driver!Settle, Driver!vars, DriverTypes
<1> HIDE DEF Result
<1>6. CASE Driver!Next
  <2>1. Result \/ (DriverTypes' /\ driver' = driver)
    BY <1>1, <1>2, <1>3, <1>4, <1>5, <1>6 DEF Driver!Next, Driver!Update
  <2>2. QED
    BY <2>1 DEF Result
<1>7. QED
  BY <1>5, <1>6

\* Whatever transactions fail, only a restart of the device that none of them
\* notices makes a driver believe in a configuration the device does not have.
THEOREM DriverIsMisledByRestart == Driver!Spec => Driver!OnlyARestartMisleads
<1>1. Driver!Init => DriverTypes
  <2>1. SUFFICES ASSUME Driver!Init PROVE DriverTypes
    OBVIOUS
  <2>2. PICK ok \in BOOLEAN, dev \in {"absent", "unconfigured"} :
           /\ driver = Driver!Initialised(Driver!Fresh, ok)
           /\ device = IF ok /\ dev # "absent" THEN "running" ELSE dev
    BY <2>1 DEF Driver!Init
  <2>3. QED
    BY <2>2, FreshIs, InitialisedIs DEF DriverTypes
<1>2. DriverTypes /\ [Driver!Next]_(Driver!vars)
        => DriverTypes' /\ [driver' # driver /\ Driver!Misled' => Driver!Misled]_(Driver!vars)
  BY DriverStep
<1>3. QED
  BY <1>1, <1>2, PTL DEF Driver!Spec, Driver!OnlyARestartMisleads
=============================================================================
