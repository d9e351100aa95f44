------------------------ MODULE ThermalControl_proofs ------------------------
(***************************************************************************)
(* Proofs about ThermalControl.  The invariants of the module are proved   *)
(* together: Consistent relates a controller record to the settings and    *)
(* readings it was computed from, each function of the controller is shown *)
(* to deliver a consistent record, and an action is then a composition of  *)
(* such functions.  Two strengthenings follow in the same way: the power   *)
(* of a channel is Accounted for, and a bang-bang demand is met.           *)
(*                                                                         *)
(* Last comes the README's promise about the heating plate.  The limiter's *)
(* latch is shown to follow the history of ThermalPlateHistory: whatever   *)
(* step is taken, the latch is set during an excursion that no sample and  *)
(* no restart hid from it.                                                 *)
(***************************************************************************)
EXTENDS ThermalPlateHistory, FiniteSetTheorems, TLAPS

\* Well-formed records: a PID history exists once the regulator is
\* initialized, and a disabled channel is never powered.
WellFormed(c) ==
    /\ c \in ControllerStates
    /\ c.initialized => c.prev \in Temps
    /\ \A h \in Heaters \ HeaterEnabled : c.power[h] = 0

SafeToHeat(r) ==
    Cardinality(ValidControl(r)) >= MinValid /\ ControlSensorsSafe(r)

PlateTooHot(s, r) ==
    s.limitOn /\ (r[s.plate] = NoReading \/ r[s.plate] >= s.limit)

PlateCool(s, r) ==
    r[s.plate] # NoReading /\ r[s.plate] <= s.limit - PlateHysteresis

PlateHolds(c, s, r) ==
    \A h \in Heaters :
        PlateSelected(h) /\ (c.tripped \/ PlateTooHot(s, r)) => c.power[h] = 0

NotWoundUp(c) ==
    c.enabled /\ c.tripped /\ PlateHeater = "ALL" =>
        c.integral = 0 /\ ~c.bangOn /\ ~c.initialized /\ c.output = 0

Consistent(c, s, r) ==
    /\ WellFormed(c)
    /\ Heating(c) => SafeToHeat(r)
    /\ PlateHolds(c, s, r)
    /\ NotWoundUp(c)

\* What every function of the controller leaves alone, and the only way it
\* releases the limiter's latch.
Keeps(c, d, s, r) ==
    /\ d.enabled = c.enabled /\ d.target = c.target
    /\ c.tripped /\ ~d.tripped => ~s.limitOn \/ PlateCool(s, r)

-----------------------------------------------------------------------------
(* Clamping and heater power                                               *)

\* constrain() returns a value within its bounds.
LEMMA ClampInRange ==
    ASSUME NEW x \in Int, NEW low \in Int, NEW high \in Int, low <= high
    PROVE  Clamp(x, low, high) \in low .. high
BY DEF Clamp

LEMMA OffIsPower == Off \in [Heaters -> 0 .. MaxOutput]
BY HeaterAssumption DEF Off

\* A reset yields a consistent record whatever the settings and readings.
LEMMA ResetIsConsistent ==
    ASSUME NEW c \in ControllerStates, NEW s \in Settings, NEW r \in Readings
    PROVE  Consistent(ResetController(c), s, r) /\ Keeps(c, ResetController(c), s, r)
<1> DEFINE d == ResetController(c)
<1>1. d = [ enabled |-> c.enabled, target |-> c.target, tripped |-> c.tripped,
            bangOn |-> FALSE, integral |-> 0, prev |-> NoReading,
            initialized |-> FALSE, output |-> 0, power |-> Off ]
  BY DEF ResetController, AtRest
<1> HIDE DEF d
<1>2. d \in ControllerStates
  BY <1>1, OffIsPower, HeaterAssumption DEF ControllerStates
<1>3. \A h \in Heaters : d.power[h] = 0
  BY <1>1 DEF Off
<1>4. ~Heating(d)
  BY <1>3 DEF Heating
<1>5. Consistent(d, s, r) /\ Keeps(c, d, s, r)
  BY <1>1, <1>2, <1>3, <1>4 DEF Consistent, WellFormed, PlateHolds, NotWoundUp, Keeps
<1>6. QED
  BY <1>5 DEF d

\* Switching all heaters off is consistent while control is disabled.
LEMMA AllOffIsConsistent ==
    ASSUME NEW c, WellFormed(c), ~c.enabled,
           NEW s \in Settings, NEW r \in Readings
    PROVE  Consistent(HeaterAllOff(c), s, r) /\ Keeps(c, HeaterAllOff(c), s, r)
<1> DEFINE d == HeaterAllOff(c)
<1>1. /\ d.power = Off /\ d.initialized = c.initialized /\ d.prev = c.prev
      /\ d.enabled = c.enabled /\ d.target = c.target /\ d.tripped = c.tripped
  BY DEF HeaterAllOff, ControllerStates, WellFormed
<1>2. d \in ControllerStates
  BY OffIsPower DEF HeaterAllOff, ControllerStates, WellFormed
<1>3. \A h \in Heaters : d.power[h] = 0
  BY <1>1 DEF Off
<1> HIDE DEF d
<1>4. ~Heating(d)
  BY <1>3 DEF Heating
<1>5. Consistent(d, s, r) /\ Keeps(c, d, s, r)
  BY <1>1, <1>2, <1>3, <1>4 DEF Consistent, WellFormed, PlateHolds, NotWoundUp, Keeps
<1>6. QED
  BY <1>5 DEF d

-----------------------------------------------------------------------------
(* The plate limiter                                                       *)

\* The limiter trips whenever the plate is too hot or unreadable, and lets
\* go only of a cool plate or when it is switched off.
LEMMA TripFollowsPlate ==
    ASSUME NEW b \in BOOLEAN, NEW s \in Settings, NEW r \in Readings
    PROVE  /\ PlateTripped(b, s, r) \in BOOLEAN
           /\ PlateTooHot(s, r) => PlateTripped(b, s, r)
           /\ b /\ ~PlateTripped(b, s, r) => ~s.limitOn \/ PlateCool(s, r)
<1>1. /\ s.limitOn \in BOOLEAN /\ s.limit \in Int /\ s.plate \in Sensors
  BY OperandAssumption DEF Settings, Sensors
<1>2. r[s.plate] = NoReading \/ r[s.plate] \in Int
  BY <1>1, SensorAssumption DEF Readings
<1>3. QED
  BY <1>1, <1>2, SensorAssumption DEF PlateTripped, PlateTooHot, PlateCool

\* Updating the limiter changes the trip state alone.
LEMMA LimitIsWellFormed ==
    ASSUME NEW c, WellFormed(c), NEW s \in Settings, NEW r \in Readings
    PROVE  LET d == UpdatePlateLimit(c, s, r)
           IN  /\ WellFormed(d)
               /\ d.enabled = c.enabled /\ d.target = c.target
               /\ d.power = c.power
               /\ d.initialized = c.initialized /\ d.prev = c.prev
               /\ Keeps(c, d, s, r)
               /\ PlateTooHot(s, r) => d.tripped
<1> DEFINE d == UpdatePlateLimit(c, s, r)
<1>1. c \in ControllerStates /\ c.tripped \in BOOLEAN
  BY DEF WellFormed, ControllerStates
<1>2. /\ d.tripped = PlateTripped(c.tripped, s, r)
      /\ d.enabled = c.enabled /\ d.target = c.target /\ d.power = c.power
      /\ d.initialized = c.initialized /\ d.prev = c.prev
  BY <1>1 DEF UpdatePlateLimit, ControllerStates
<1>3. d \in ControllerStates
  BY <1>1, TripFollowsPlate DEF UpdatePlateLimit, ControllerStates
<1> HIDE DEF d
<1>4. WellFormed(d)
  BY <1>2, <1>3 DEF WellFormed
<1>5. Keeps(c, d, s, r) /\ (PlateTooHot(s, r) => d.tripped)
  BY <1>1, <1>2, TripFollowsPlate DEF Keeps
<1>6. QED
  BY <1>2, <1>4, <1>5 DEF d

\* Power written through the gate stays in range and off where it must be.
LEMMA LimitedPowerIsPower ==
    ASSUME NEW c, WellFormed(c), NEW demand \in [Heaters -> Int]
    PROVE  /\ LimitedPower(c, demand) \in [Heaters -> 0 .. MaxOutput]
           /\ \A h \in Heaters \ HeaterEnabled : LimitedPower(c, demand)[h] = 0
           /\ \A h \in Heaters : c.tripped /\ PlateSelected(h)
                                    => LimitedPower(c, demand)[h] = 0
<1>1. c.power \in [Heaters -> 0 .. MaxOutput]
  BY DEF WellFormed, ControllerStates
<1>2. ASSUME NEW h \in Heaters
      PROVE  Clamp(demand[h], 0, HeaterMax[h]) \in 0 .. MaxOutput
  <2>1. HeaterMax[h] \in 0 .. MaxOutput /\ demand[h] \in Int /\ MaxOutput \in Nat
    BY HeaterAssumption
  <2>2. QED
    BY <2>1 DEF Clamp
<1>3. LimitedPower(c, demand) \in [Heaters -> 0 .. MaxOutput]
  BY <1>1, <1>2, HeaterAssumption DEF LimitedPower
<1>4. QED
  BY <1>3 DEF LimitedPower, WellFormed

\* Writing limited power after the limiter has been updated is consistent.
LEMMA WriteIsConsistent ==
    ASSUME NEW c, WellFormed(c), NEW demand \in [Heaters -> Int],
           NEW s \in Settings, NEW r \in Readings,
           SafeToHeat(r), NotWoundUp(c), PlateTooHot(s, r) => c.tripped
    PROVE  LET d == WriteLimitedPower(c, demand)
           IN  /\ Consistent(d, s, r)
               /\ d.enabled = c.enabled /\ d.target = c.target
               /\ d.tripped = c.tripped
<1> DEFINE d == WriteLimitedPower(c, demand)
<1>1. c \in ControllerStates
  BY DEF WellFormed
<1>2. /\ d.power = LimitedPower(c, demand)
      /\ d.enabled = c.enabled /\ d.target = c.target /\ d.tripped = c.tripped
      /\ d.initialized = c.initialized /\ d.prev = c.prev
      /\ d.integral = c.integral /\ d.bangOn = c.bangOn /\ d.output = c.output
  BY <1>1 DEF WriteLimitedPower, ControllerStates
<1>3. d \in ControllerStates
  BY <1>1, LimitedPowerIsPower DEF WriteLimitedPower, ControllerStates
<1> HIDE DEF d
<1>4. WellFormed(d)
  BY <1>2, <1>3, LimitedPowerIsPower DEF WellFormed
<1>5. PlateHolds(d, s, r)
  BY <1>2, LimitedPowerIsPower DEF PlateHolds
<1>6. NotWoundUp(d)
  BY <1>2 DEF NotWoundUp
<1>7. QED
  BY <1>2, <1>4, <1>5, <1>6 DEF Consistent, d

\* With safe sensors the regulator's demand is applied consistently.
LEMMA ApplyIsConsistent ==
    ASSUME NEW c, WellFormed(c), NEW s \in Settings, NEW r \in Readings,
           NEW demand \in Int, SafeToHeat(r)
    PROVE  LET d == ApplyOutput(c, s, r, demand)
           IN  Consistent(d, s, r) /\ Keeps(c, d, s, r)
<1> DEFINE limited == UpdatePlateLimit(c, s, r)
           out     == Clamp(demand, 0, MaxOutput)
           written == [limited EXCEPT !.output = out]
<1>1. /\ WellFormed(limited) /\ Keeps(c, limited, s, r)
      /\ PlateTooHot(s, r) => limited.tripped
  BY LimitIsWellFormed
<1>2. out \in 0 .. MaxOutput
  BY HeaterAssumption DEF Clamp
<1> HIDE DEF limited, out
<1>3. CASE limited.tripped /\ PlateHeater = "ALL"
  <2>1. ApplyOutput(c, s, r, demand) = ResetController(limited)
    BY <1>3 DEF ApplyOutput, limited
  <2>2. /\ Consistent(ResetController(limited), s, r)
        /\ Keeps(limited, ResetController(limited), s, r)
    BY <1>1, ResetIsConsistent DEF WellFormed
  <2>3. ResetController(limited).tripped = limited.tripped
    BY DEF ResetController, AtRest
  <2>4. QED
    BY <1>1, <2>1, <2>2, <2>3 DEF Keeps
<1>4. CASE ~(limited.tripped /\ PlateHeater = "ALL")
  <2>1. limited \in ControllerStates
    BY <1>1 DEF WellFormed
  <2>2. written \in ControllerStates
    BY <1>2, <2>1 DEF ControllerStates
  <2>3. /\ written.tripped = limited.tripped /\ written.enabled = limited.enabled
        /\ written.target = limited.target /\ written.power = limited.power
        /\ written.initialized = limited.initialized /\ written.prev = limited.prev
    BY <2>1 DEF ControllerStates
  <2> HIDE DEF written
  <2>4. WellFormed(written) /\ NotWoundUp(written)
    BY <1>1, <1>4, <2>2, <2>3 DEF WellFormed, NotWoundUp
  <2>5. [h \in Heaters |-> out] \in [Heaters -> Int]
    BY <1>2
  <2>6. ApplyOutput(c, s, r, demand) = WriteLimitedPower(written, [h \in Heaters |-> out])
    BY <1>4 DEF ApplyOutput, limited, out, written
  <2>7. LET d == WriteLimitedPower(written, [h \in Heaters |-> out])
        IN  /\ Consistent(d, s, r) /\ d.enabled = written.enabled
            /\ d.target = written.target /\ d.tripped = written.tripped
    BY <1>1, <2>3, <2>4, <2>5, WriteIsConsistent
  <2>8. QED
    BY <1>1, <2>3, <2>6, <2>7 DEF Keeps
<1>5. QED
  BY <1>3, <1>4

\* Recording the last temperature of the regulator is consistent.
LEMMA PrevIsConsistent ==
    ASSUME NEW c, NEW s, NEW r, Consistent(c, s, r), NEW t \in Temps
    PROVE  LET d == [c EXCEPT !.prev = t]
           IN  /\ Consistent(d, s, r)
               /\ d.enabled = c.enabled /\ d.target = c.target
               /\ d.tripped = c.tripped
<1> DEFINE d == [c EXCEPT !.prev = t]
<1>1. c \in ControllerStates
  BY DEF Consistent, WellFormed
<1>2. d \in ControllerStates
  BY <1>1 DEF ControllerStates
<1>3. /\ d.power = c.power /\ d.enabled = c.enabled /\ d.target = c.target
      /\ d.tripped = c.tripped /\ d.initialized = c.initialized /\ d.prev = t
      /\ d.integral = c.integral /\ d.bangOn = c.bangOn /\ d.output = c.output
  BY <1>1 DEF ControllerStates
<1> HIDE DEF d
<1>4. Consistent(d, s, r)
  BY <1>2, <1>3 DEF Consistent, WellFormed, PlateHolds, NotWoundUp, Heating
<1>5. QED
  BY <1>3, <1>4 DEF d

\* Enforcing the limiter restores consistency with new settings.
LEMMA EnforceIsConsistent ==
    ASSUME NEW c, WellFormed(c), NEW s \in Settings, NEW r \in Readings,
           Heating(c) => SafeToHeat(r)
    PROVE  LET d == EnforcePlateLimit(c, s, r)
           IN  Consistent(d, s, r) /\ Keeps(c, d, s, r)
<1> DEFINE limited == UpdatePlateLimit(c, s, r)
           gated   == [limited EXCEPT !.power = GatedPower(limited)]
<1>1. /\ WellFormed(limited) /\ Keeps(c, limited, s, r) /\ limited.power = c.power
      /\ PlateTooHot(s, r) => limited.tripped
  BY LimitIsWellFormed
<1> HIDE DEF limited
<1>2. limited \in ControllerStates /\ limited.power \in [Heaters -> 0 .. MaxOutput]
  BY <1>1 DEF WellFormed, ControllerStates
<1>3. CASE limited.enabled /\ limited.tripped /\ PlateHeater = "ALL"
  <2>1. EnforcePlateLimit(c, s, r) = ResetController(limited)
    BY <1>3 DEF EnforcePlateLimit, limited
  <2>2. /\ Consistent(ResetController(limited), s, r)
        /\ Keeps(limited, ResetController(limited), s, r)
    BY <1>2, ResetIsConsistent
  <2>3. ResetController(limited).tripped = limited.tripped
    BY DEF ResetController, AtRest
  <2>4. QED
    BY <1>1, <2>1, <2>2, <2>3 DEF Keeps
<1>4. CASE ~(limited.enabled /\ limited.tripped /\ PlateHeater = "ALL")
  <2>1. GatedPower(limited) \in [Heaters -> 0 .. MaxOutput]
    BY <1>2, HeaterAssumption DEF GatedPower
  <2>2. gated \in ControllerStates
    BY <1>2, <2>1 DEF ControllerStates
  <2>3. /\ gated.power = GatedPower(limited) /\ gated.enabled = limited.enabled
        /\ gated.target = limited.target /\ gated.tripped = limited.tripped
        /\ gated.initialized = limited.initialized /\ gated.prev = limited.prev
    BY <1>2 DEF ControllerStates
  <2> HIDE DEF gated
  <2>4. \A h \in Heaters : /\ gated.power[h] \in {0, c.power[h]}
                           /\ h \notin HeaterEnabled => gated.power[h] = 0
                           /\ PlateSelected(h) /\ gated.tripped => gated.power[h] = 0
    BY <1>1, <2>3 DEF GatedPower, WellFormed
  <2>5. WellFormed(gated)
    BY <1>1, <2>2, <2>3, <2>4 DEF WellFormed
  <2>6. Heating(gated) => SafeToHeat(r)
    BY <2>4 DEF Heating
  <2>7. PlateHolds(gated, s, r)
    BY <1>1, <2>3, <2>4 DEF PlateHolds
  <2>8. NotWoundUp(gated)
    BY <1>4, <2>3 DEF NotWoundUp
  <2>9. Consistent(gated, s, r) /\ Keeps(c, gated, s, r)
    BY <1>1, <2>3, <2>5, <2>6, <2>7, <2>8 DEF Consistent, Keeps
  <2>10. EnforcePlateLimit(c, s, r) = gated
    BY <1>4 DEF EnforcePlateLimit, limited, gated
  <2>11. QED
    BY <2>9, <2>10
<1>5. QED
  BY <1>3, <1>4

-----------------------------------------------------------------------------
(* The regulators and the whole update                                     *)

\* What a valid fused temperature says of the readings.
LEMMA TemperatureOfReadings ==
    ASSUME NEW fusion, NEW r \in Readings, NEW t \in ControlTemperatures(fusion, r)
    PROVE  /\ t = NoReading \/ t \in Temps
           /\ t # NoReading => Cardinality(ValidControl(r)) >= MinValid
<1> DEFINE n == Cardinality(ValidControl(r))
<1>1. IsFiniteSet(ValidControl(r))
  BY SensorAssumption, FS_Subset DEF ValidControl
<1>2. n \in Nat /\ MinValid \in Nat
  BY <1>1, SensorAssumption, FS_CardinalityType
<1>3. \A x \in ValidControl(r) : r[x] \in Temps
  BY DEF ValidControl, Readings, Sensors
<1> HIDE DEF n
<1>4. CASE n < MinValid
  BY <1>2, <1>4 DEF ControlTemperatures, n
<1>5. CASE ~(n < MinValid)
  <2>1. n >= MinValid
    BY <1>2, <1>5
  <2>2. t \in Temps
    BY <1>3, <1>5 DEF ControlTemperatures, n
  <2>3. QED
    BY <2>1, <2>2 DEF n
<1>6. QED
  BY <1>4, <1>5

\* Bang-bang control delivers a consistent record.
LEMMA BangBangIsConsistent ==
    ASSUME NEW c, WellFormed(c), NEW s \in Settings, NEW r \in Readings,
           NEW t \in Temps, SafeToHeat(r)
    PROVE  LET d == BangBangUpdate(c, s, r, t)
           IN  Consistent(d, s, r) /\ Keeps(c, d, s, r)
<1> DEFINE on == \/ t <= c.target - s.hyst
                 \/ c.bangOn /\ t < c.target + s.hyst
           e  == [c EXCEPT !.bangOn = on]
<1>1. c \in ControllerStates
  BY DEF WellFormed
<1>2. e \in ControllerStates
  BY <1>1 DEF ControllerStates
<1>3. /\ e.power = c.power /\ e.enabled = c.enabled /\ e.target = c.target
      /\ e.tripped = c.tripped /\ e.initialized = c.initialized /\ e.prev = c.prev
  BY <1>1 DEF ControllerStates
<1>4. s.bangPower \in Int
  <2>1. s.bangPower \in Powers
    BY DEF Settings
  <2>2. Powers \subseteq 0 .. MaxOutput
    BY OperandAssumption
  <2>3. s.bangPower \in 0 .. MaxOutput
    BY <2>1, <2>2
  <2>4. QED
    BY <2>3, HeaterAssumption
<1> HIDE DEF on
<1>5. BangBangUpdate(c, s, r, t) = ApplyOutput(e, s, r, IF on THEN s.bangPower ELSE 0)
  BY DEF BangBangUpdate, on
<1> HIDE DEF e
<1>6. WellFormed(e)
  BY <1>2, <1>3 DEF WellFormed
<1>7. (IF on THEN s.bangPower ELSE 0) \in Int
  BY <1>4
<1>8. QED
  BY <1>3, <1>5, <1>6, <1>7, ApplyIsConsistent DEF Keeps

\* The first PID sample delivers a consistent record.
LEMMA PidFirstIsConsistent ==
    ASSUME NEW c, WellFormed(c), NEW s \in Settings, NEW r \in Readings,
           NEW t \in Temps, SafeToHeat(r)
    PROVE  LET d == PidFirstSample(c, s, r, t)
           IN  Consistent(d, s, r) /\ Keeps(c, d, s, r)
<1> DEFINE e == [c EXCEPT !.prev = t, !.initialized = TRUE]
<1>1. c \in ControllerStates
  BY DEF WellFormed
<1>2. e \in ControllerStates
  BY <1>1 DEF ControllerStates
<1>3. /\ e.power = c.power /\ e.enabled = c.enabled /\ e.target = c.target
      /\ e.tripped = c.tripped /\ e.prev = t
  BY <1>1 DEF ControllerStates
<1>4. c.target \in Int /\ t \in Int /\ s.gains \in [kp : Nat, ki : Nat, kd : Nat]
  BY <1>1, SensorAssumption, OperandAssumption DEF Settings, ControllerStates
<1>5. s.gains.kp * (c.target - t) \in Int
  BY <1>4
<1>6. PidFirstSample(c, s, r, t) = ApplyOutput(e, s, r, s.gains.kp * (c.target - t))
  BY DEF PidFirstSample
<1> HIDE DEF e
<1>7. WellFormed(e)
  BY <1>2, <1>3 DEF WellFormed
<1>8. QED
  BY <1>3, <1>5, <1>6, <1>7, ApplyIsConsistent DEF Keeps

\* Every later PID sample delivers a consistent record, and its integral
\* stays within the output range.
LEMMA PidIsConsistent ==
    ASSUME NEW c, WellFormed(c), c.initialized,
           NEW s \in Settings, NEW r \in Readings,
           NEW t \in Temps, NEW dt \in SampleGaps, SafeToHeat(r)
    PROVE  LET d == PidUpdate(c, s, r, t, dt)
           IN  Consistent(d, s, r) /\ Keeps(c, d, s, r)
<1> DEFINE error     == c.target - t
           pTerm     == s.gains.kp * error
           dTerm     == -(s.gains.kd * ((t - c.prev) \div dt))
           candidate == Clamp(c.integral + s.gains.ki * error * dt, -MaxOutput, MaxOutput)
           demand    == pTerm + candidate + dTerm
           windsUp   == \/ demand > MaxOutput /\ error > 0
                        \/ demand < 0 /\ error < 0
           integral  == IF windsUp THEN c.integral ELSE candidate
           e         == [c EXCEPT !.integral = integral]
           total     == pTerm + integral + dTerm
<1>1. c \in ControllerStates /\ c.prev \in Temps
  BY DEF WellFormed
<1>2. /\ c.target \in Int /\ t \in Int /\ c.prev \in Int /\ dt \in Nat \ {0}
      /\ s.gains \in [kp : Nat, ki : Nat, kd : Nat] /\ MaxOutput \in Nat
      /\ c.integral \in -MaxOutput .. MaxOutput
  BY <1>1, SensorAssumption, HeaterAssumption, OperandAssumption
     DEF Settings, ControllerStates
<1>3. error \in Int /\ pTerm \in Int
  BY <1>2
<1>4. dTerm \in Int
  <2>1. (t - c.prev) \div dt \in Int
    BY <1>2
  <2>2. QED
    BY <1>2, <2>1
<1> HIDE DEF error
<1>5. candidate \in -MaxOutput .. MaxOutput
  <2>1. c.integral + s.gains.ki * error * dt \in Int
    BY <1>2, <1>3
  <2>2. QED
    BY <1>2, <2>1 DEF Clamp
<1> HIDE DEF candidate
<1>6. integral \in -MaxOutput .. MaxOutput
  BY <1>2, <1>5
<1> HIDE DEF integral, pTerm, dTerm
<1>7. total \in Int
  BY <1>2, <1>3, <1>4, <1>6
<1>8. e \in ControllerStates
  BY <1>1, <1>6 DEF ControllerStates
<1>9. /\ e.power = c.power /\ e.enabled = c.enabled /\ e.target = c.target
      /\ e.tripped = c.tripped /\ e.initialized = c.initialized /\ e.prev = c.prev
  BY <1>1 DEF ControllerStates
<1>10. PidUpdate(c, s, r, t, dt) = [ApplyOutput(e, s, r, total) EXCEPT !.prev = t]
  BY DEF PidUpdate, error, pTerm, dTerm, candidate, integral
<1> HIDE DEF e, total
<1>11. WellFormed(e)
  BY <1>8, <1>9 DEF WellFormed
<1>12. Consistent(ApplyOutput(e, s, r, total), s, r) /\ Keeps(e, ApplyOutput(e, s, r, total), s, r)
  BY <1>7, <1>11, ApplyIsConsistent
<1>13. QED
  BY <1>9, <1>10, <1>12, PrevIsConsistent DEF Keeps

\* thermal_control_update delivers a consistent record from any well-formed
\* one, for the readings it was given.
LEMMA UpdateIsConsistent ==
    ASSUME NEW c, WellFormed(c), NEW s \in Settings, NEW r \in Readings, NEW fusion,
           NEW t \in ControlTemperatures(fusion, r), NEW dt \in SampleGaps
    PROVE  LET d == ThermalControlUpdate(c, s, r, t, dt)
           IN  Consistent(d, s, r) /\ Keeps(c, d, s, r)
<1> DEFINE d == ThermalControlUpdate(c, s, r, t, dt)
<1>1. c \in ControllerStates /\ c.enabled \in BOOLEAN
  BY DEF WellFormed, ControllerStates
<1>2. CASE t = NoReading \/ ~ControlSensorsSafe(r)
  <2>1. CASE c.enabled
    BY <1>1, <1>2, <2>1, ResetIsConsistent DEF ThermalControlUpdate
  <2>2. CASE ~c.enabled
    BY <1>2, <2>2, AllOffIsConsistent DEF ThermalControlUpdate
  <2>3. QED
    BY <2>1, <2>2
<1>3. CASE ~(t = NoReading \/ ~ControlSensorsSafe(r))
  <2>1. SafeToHeat(r) /\ t \in Temps
    BY <1>3, TemperatureOfReadings DEF SafeToHeat
  <2>2. CASE ~c.enabled
    <3> DEFINE limited == UpdatePlateLimit(c, s, r)
    <3>1. d = WriteLimitedPower(limited, s.manual)
      BY <1>3, <2>2 DEF ThermalControlUpdate
    <3>2. /\ WellFormed(limited) /\ limited.enabled = c.enabled
          /\ limited.target = c.target /\ Keeps(c, limited, s, r)
          /\ PlateTooHot(s, r) => limited.tripped
      BY LimitIsWellFormed
    <3> HIDE DEF limited
    <3>3. NotWoundUp(limited)
      BY <2>2, <3>2 DEF NotWoundUp
    <3>4. s.manual \in [Heaters -> Int]
      BY HeaterAssumption DEF Settings
    <3>5. LET w == WriteLimitedPower(limited, s.manual)
          IN  /\ Consistent(w, s, r) /\ w.enabled = limited.enabled
              /\ w.target = limited.target /\ w.tripped = limited.tripped
      BY <2>1, <3>2, <3>3, <3>4, WriteIsConsistent
    <3>6. QED
      BY <3>1, <3>2, <3>5 DEF Keeps
  <2>3. CASE c.enabled /\ s.mode = "BANG_BANG"
    BY <1>3, <2>1, <2>3, BangBangIsConsistent DEF ThermalControlUpdate
  <2>4. CASE c.enabled /\ s.mode # "BANG_BANG" /\ ~c.initialized
    BY <1>3, <2>1, <2>4, PidFirstIsConsistent DEF ThermalControlUpdate
  <2>5. CASE c.enabled /\ s.mode # "BANG_BANG" /\ c.initialized
    BY <1>3, <2>1, <2>5, PidIsConsistent DEF ThermalControlUpdate
  <2>6. QED
    BY <2>2, <2>3, <2>4, <2>5
<1>4. QED
  BY <1>2, <1>3

-----------------------------------------------------------------------------
(* The inductive invariant                                                 *)

\* The invariant all the theorems below follow from.
IInv ==
    /\ Consistent(ctl, settings, reading)
    /\ settings \in Settings /\ eeprom = settings
    /\ ctl.enabled = settings.enabled /\ ctl.target = settings.target
    /\ reading \in Readings /\ connected \in BOOLEAN

\* A start from valid stored settings establishes the invariant.
LEMMA BootIsConsistent ==
    ASSUME NEW s \in Settings
    PROVE  /\ Consistent(BootController(s), s, NoReadings)
           /\ BootController(s).enabled = s.enabled
           /\ BootController(s).target = s.target
           /\ NoReadings \in Readings
<1> DEFINE c == BootController(s)
<1>1. c = [ enabled |-> s.enabled, target |-> s.target, tripped |-> FALSE,
            bangOn |-> FALSE, integral |-> 0, prev |-> NoReading,
            initialized |-> FALSE, output |-> 0, power |-> Off ]
  BY DEF BootController, AtRest
<1> HIDE DEF c
<1>2. c \in ControllerStates
  BY <1>1, OffIsPower, HeaterAssumption DEF ControllerStates, Settings
<1>3. \A h \in Heaters : c.power[h] = 0
  BY <1>1 DEF Off
<1>4. ~Heating(c)
  BY <1>3 DEF Heating
<1>5. Consistent(c, s, NoReadings)
  BY <1>1, <1>2, <1>3, <1>4 DEF Consistent, WellFormed, PlateHolds, NotWoundUp
<1>6. NoReadings \in Readings
  BY DEF NoReadings, Readings
<1>7. QED
  BY <1>1, <1>5, <1>6 DEF c

\* Whatever the version and whatever the appended fields hold, the settings
\* that are loaded are valid.
LEMMA MigratedIsValid ==
    ASSUME NEW stored, NEW version \in Versions,
           stored.enabled \in BOOLEAN, stored.limitOn \in BOOLEAN,
           stored.target \in StoredTargets,
           stored.manual \in [Heaters -> 0 .. MaxStored]
    PROVE  Migrated(stored, version) \in Settings
BY DefaultsAssumption DEF Migrated, ValidBangBang, Settings

\* Migration keeps settings that this firmware stored.
LEMMA CurrentIsKept ==
    ASSUME NEW stored \in Settings
    PROVE  Migrated(stored, SettingsVersion) = stored
BY DEF Migrated, ValidBangBang, Settings, SettingsVersion

LEMMA StoredAreLoaded ==
    ASSUME NEW stored \in Settings
    PROVE  LoadSettings(stored, SettingsVersion) \in Settings
BY CurrentIsKept, DefaultsAssumption DEF LoadSettings

\* So are the settings that a torn save leaves, whichever field it tore.
LEMMA TornAreLoaded ==
    ASSUME settings \in Settings, ctl.enabled \in BOOLEAN, PowerLossDuringSave
    PROVE  \E stored : BootFrom(stored) /\ LoadSettings(stored, SettingsVersion) \in Settings
<1> DEFINE Goal == \E stored :
                 BootFrom(stored) /\ LoadSettings(stored, SettingsVersion) \in Settings
<1> SUFFICES Goal
  OBVIOUS
<1>1. ASSUME NEW u, BootFrom(u), u.enabled \in BOOLEAN, u.limitOn \in BOOLEAN,
             u.target \in StoredTargets, u.manual \in [Heaters -> 0 .. MaxStored]
      PROVE  Goal
  <2>1. SettingsVersion \in Versions
    BY DEF SettingsVersion, Versions
  <2>2. Migrated(u, SettingsVersion) \in Settings
    BY <1>1, <2>1, MigratedIsValid
  <2>3. LoadSettings(u, SettingsVersion) \in Settings
    BY <2>2, DefaultsAssumption DEF LoadSettings
  <2>4. QED
    BY <1>1, <2>3
<1> HIDE DEF Goal
<1>2. ASSUME NEW on \in BOOLEAN, NEW m \in [Heaters -> 0 .. MaxStored],
             BootFrom([settings EXCEPT !.enabled = on, !.manual = m])
      PROVE  Goal
  <2> DEFINE u == [settings EXCEPT !.enabled = on, !.manual = m]
  <2>1. /\ u.enabled \in BOOLEAN /\ u.limitOn \in BOOLEAN
        /\ u.target \in StoredTargets /\ u.manual \in [Heaters -> 0 .. MaxStored]
    BY DEF Settings
  <2> HIDE DEF u
  <2>2. BootFrom(u)
    BY <1>2 DEF u
  <2>3. QED
    BY <1>1, <2>1, <2>2
<1>3. ASSUME NEW m \in [Heaters -> 0 .. MaxStored],
             BootFrom([settings EXCEPT !.manual = m])
      PROVE  Goal
  <2> DEFINE u == [settings EXCEPT !.manual = m]
  <2>1. /\ u.enabled \in BOOLEAN /\ u.limitOn \in BOOLEAN
        /\ u.target \in StoredTargets /\ u.manual \in [Heaters -> 0 .. MaxStored]
    BY DEF Settings
  <2> HIDE DEF u
  <2>2. BootFrom(u)
    BY <1>3 DEF u
  <2>3. QED
    BY <1>1, <2>1, <2>2
<1>4. ASSUME NEW t \in StoredTargets, BootFrom([settings EXCEPT !.target = t])
      PROVE  Goal
  <2> DEFINE u == [settings EXCEPT !.target = t]
  <2>1. /\ u.enabled \in BOOLEAN /\ u.limitOn \in BOOLEAN
        /\ u.target \in StoredTargets /\ u.manual \in [Heaters -> 0 .. MaxStored]
    BY DEF Settings
  <2> HIDE DEF u
  <2>2. BootFrom(u)
    BY <1>4 DEF u
  <2>3. QED
    BY <1>1, <2>1, <2>2
<1>5. ASSUME NEW x, NEW u,
             u \in { [settings EXCEPT !.gains = x], [settings EXCEPT !.hyst = x],
                     [settings EXCEPT !.bangPower = x], [settings EXCEPT !.limit = x] },
             BootFrom(u)
      PROVE  Goal
  <2>1. /\ u.enabled \in BOOLEAN /\ u.limitOn \in BOOLEAN
        /\ u.target \in StoredTargets /\ u.manual \in [Heaters -> 0 .. MaxStored]
    BY <1>5 DEF Settings
  <2>2. QED
    BY <1>1, <1>5, <2>1
<1>6. \A requested : TornSetpoints(requested) \subseteq [Heaters -> 0 .. MaxStored]
  BY DEF TornSetpoints
<1>7. (~ctl.enabled) \in BOOLEAN
  OBVIOUS
<1>8. CASE \E m \in TornSetpoints(Off) :
              BootFrom([settings EXCEPT !.enabled = ~ctl.enabled, !.manual = m])
  BY <1>2, <1>6, <1>7, <1>8
<1>9. CASE \E selected \in ManualTargets, p \in Powers :
              \E m \in TornSetpoints(ManualSetpoints(selected, p)) :
                 BootFrom([settings EXCEPT !.manual = m])
  BY <1>3, <1>6, <1>9
<1>10. CASE \E t \in StoredTargets : BootFrom([settings EXCEPT !.target = t])
  BY <1>4, <1>10
<1>11. CASE \E x : \/ BootFrom([settings EXCEPT !.gains = x])
                   \/ BootFrom([settings EXCEPT !.hyst = x])
                   \/ BootFrom([settings EXCEPT !.bangPower = x])
                   \/ BootFrom([settings EXCEPT !.limit = x])
  BY <1>5, <1>11
<1>12. QED
  BY <1>8, <1>9, <1>10, <1>11 DEF PowerLossDuringSave

\* A power cycle from stored settings that are loaded as valid ones
\* establishes the invariant.
LEMMA BootFromIsConsistent ==
    ASSUME NEW stored, BootFrom(stored),
           LoadSettings(stored, SettingsVersion) \in Settings
    PROVE  IInv'
BY BootIsConsistent DEF BootFrom, IInv

\* Every start satisfies the invariant.
LEMMA InitEstablishes == Init => IInv
<1>1. ASSUME NEW stored \in Found \cup {Blank}, NEW version \in Versions
      PROVE  LoadSettings(stored, version) \in Settings
  BY MigratedIsValid, DefaultsAssumption, FoundAssumption DEF LoadSettings
<1>2. QED
  BY <1>1, BootIsConsistent DEF Init, IInv

-----------------------------------------------------------------------------
(* Steps                                                                   *)

\* Saving settings that leave the limiter alone keeps the controller's
\* record consistent.
LEMMA SettingsUnrelated ==
    ASSUME NEW c, NEW s, NEW u, NEW r, Consistent(c, s, r),
           u.limitOn = s.limitOn, u.limit = s.limit, u.plate = s.plate
    PROVE  Consistent(c, u, r)
BY DEF Consistent, PlateHolds, PlateTooHot

\* A reset of the controller is consistent with any settings.
LEMMA ResetAgrees ==
    ASSUME NEW c \in ControllerStates, NEW u \in Settings, NEW r \in Readings
    PROVE  /\ Consistent(ResetController(c), u, r)
           /\ ResetController(c).enabled = c.enabled
           /\ ResetController(c).target = c.target
BY ResetIsConsistent DEF ResetController, AtRest

\* The sample keeps the invariant.
LEMMA SampleStep == IInv /\ Sample => IInv'
<1> SUFFICES ASSUME IInv, Sample PROVE IInv'
  OBVIOUS
<1>a. PICK r \in Readings : \E t \in ControlTemperatures(settings.fusion, r), dt \in SampleGaps :
        LET updated == ThermalControlUpdate(ctl, settings, r, t, dt)
        IN  /\ reading' = r
            /\ ctl' = IF connected THEN EnforcePlateLimit(updated, settings, r) ELSE updated
  BY DEF Sample
<1>1. PICK t \in ControlTemperatures(settings.fusion, r), dt \in SampleGaps :
        LET updated == ThermalControlUpdate(ctl, settings, r, t, dt)
        IN  /\ reading' = r
            /\ ctl' = IF connected THEN EnforcePlateLimit(updated, settings, r) ELSE updated
  BY <1>a
<1>2. UNCHANGED <<settings, eeprom, connected>>
  BY DEF Sample
<1> DEFINE updated == ThermalControlUpdate(ctl, settings, r, t, dt)
<1>3. Consistent(updated, settings, r) /\ Keeps(ctl, updated, settings, r)
  BY UpdateIsConsistent DEF IInv, Consistent
<1>4. ctl' = IF connected THEN EnforcePlateLimit(updated, settings, r) ELSE updated
  BY <1>1
<1> HIDE DEF updated
<1>5. LET d == EnforcePlateLimit(updated, settings, r)
      IN  Consistent(d, settings, r) /\ Keeps(updated, d, settings, r)
  BY <1>3, EnforceIsConsistent DEF IInv, Consistent
<1>6. /\ Consistent(ctl', settings, r)
      /\ ctl'.enabled = ctl.enabled /\ ctl'.target = ctl.target
  BY <1>3, <1>4, <1>5 DEF Keeps
<1>7. QED
  BY <1>1, <1>2, <1>6 DEF IInv

\* Each command that tunes the regulators keeps the invariant.
LEMMA RegulatorStep == IInv /\ RegulatorCommand => IInv'
<1> SUFFICES ASSUME IInv, RegulatorCommand PROVE IInv'
  OBVIOUS
<1>1. ctl \in ControllerStates /\ settings \in Settings /\ reading \in Readings
  BY DEF IInv, Consistent, WellFormed
<1>2. ASSUME NEW t \in Targets, SetTarget(t) PROVE IInv'
  <2> DEFINE u == [settings EXCEPT !.target = t]
             c == [ctl EXCEPT !.target = t]
  <2>1. /\ u \in Settings /\ u.limitOn = settings.limitOn /\ u.limit = settings.limit
        /\ u.plate = settings.plate /\ u.target = t /\ u.enabled = settings.enabled
    BY <1>1, OperandAssumption DEF Settings
  <2>2. c \in ControllerStates
    BY <1>1, OperandAssumption DEF ControllerStates
  <2>3. /\ c.power = ctl.power /\ c.enabled = ctl.enabled /\ c.target = t
        /\ c.tripped = ctl.tripped /\ c.initialized = ctl.initialized
        /\ c.prev = ctl.prev /\ c.integral = ctl.integral
        /\ c.bangOn = ctl.bangOn /\ c.output = ctl.output
    BY <1>1 DEF ControllerStates
  <2>4. /\ SaveSettings(u)
        /\ ctl' = IF ctl.enabled /\ settings.mode = "BANG_BANG" THEN ResetController(c) ELSE c
    BY <1>2 DEF SetTarget
  <2> HIDE DEF u, c
  <2>5. Consistent(c, u, reading)
    BY <2>1, <2>2, <2>3
       DEF IInv, Consistent, WellFormed, Heating, PlateHolds, PlateTooHot, NotWoundUp
  <2>6. /\ Consistent(ctl', u, reading)
        /\ ctl'.enabled = ctl.enabled /\ ctl'.target = t
    BY <1>1, <2>1, <2>2, <2>3, <2>4, <2>5, ResetAgrees
  <2>7. QED
    BY <2>1, <2>4, <2>6 DEF IInv, SaveSettings
<1>3. ASSUME NEW u \in Settings, SaveSettings(u),
             u.limitOn = settings.limitOn, u.limit = settings.limit,
             u.plate = settings.plate, u.target = settings.target,
             u.enabled = settings.enabled, ctl' \in {ctl, ResetController(ctl)}
      PROVE  IInv'
  BY <1>1, <1>3, SettingsUnrelated, ResetAgrees DEF IInv, SaveSettings
<1>4. ASSUME NEW g \in GainSets, SetPid(g) PROVE IInv'
  <2> DEFINE u == [settings EXCEPT !.gains = g]
  <2>1. u \in Settings
    BY <1>1 DEF Settings
  <2>2. QED
    BY <1>1, <1>3, <1>4, <2>1 DEF SetPid, Settings
<1>5. ASSUME NEW m \in FusionModes, SetFusionMode(m) PROVE IInv'
  <2> DEFINE u == [settings EXCEPT !.fusion = m]
  <2>1. u \in Settings
    BY <1>1 DEF Settings
  <2>2. QED
    BY <1>1, <1>3, <1>5, <2>1 DEF SetFusionMode, Settings
<1>6. ASSUME NEW m \in Modes, SetMode(m) PROVE IInv'
  <2> DEFINE u == [settings EXCEPT !.mode = m]
  <2>1. u \in Settings
    BY <1>1 DEF Settings
  <2>2. QED
    BY <1>1, <1>3, <1>6, <2>1 DEF SetMode, Settings
<1>7. ASSUME NEW k \in Hystereses, SetHysteresis(k) PROVE IInv'
  <2> DEFINE u == [settings EXCEPT !.hyst = k]
  <2>1. u \in Settings
    BY <1>1 DEF Settings
  <2>2. QED
    BY <1>1, <1>3, <1>7, <2>1 DEF SetHysteresis, ResetIfBangBang, Settings
<1>8. ASSUME NEW p \in Powers, SetBangBangPower(p) PROVE IInv'
  <2> DEFINE u == [settings EXCEPT !.bangPower = p]
  <2>1. u \in Settings
    BY <1>1 DEF Settings
  <2>2. QED
    BY <1>1, <1>3, <1>8, <2>1 DEF SetBangBangPower, ResetIfBangBang, Settings
<1>9. QED
  BY <1>2, <1>4, <1>5, <1>6, <1>7, <1>8 DEF RegulatorCommand

\* Every power of a channel can be stored as a setpoint.
LEMMA OutputsCanBeStored == 0 .. MaxOutput \subseteq 0 .. MaxStored
BY HeaterAssumption, OperandAssumption

\* So can the setpoints of a manual command.
LEMMA SetpointsCanBeStored ==
    ASSUME settings \in Settings, NEW selected, NEW p \in Powers
    PROVE  ManualSetpoints(selected, p) \in [Heaters -> 0 .. MaxStored]
<1>1. settings.manual \in [Heaters -> 0 .. MaxStored]
  BY DEF Settings
<1>2. p \in 0 .. MaxOutput
  BY OperandAssumption
<1>3. ASSUME NEW h \in Heaters PROVE Clamp(p, 0, HeaterMax[h]) \in 0 .. MaxOutput
  BY <1>2, HeaterAssumption DEF Clamp
<1>4. 0 \in 0 .. MaxOutput
  BY HeaterAssumption
<1>5. /\ 0 \in 0 .. MaxStored
      /\ \A h \in Heaters : Clamp(p, 0, HeaterMax[h]) \in 0 .. MaxStored
  BY <1>3, <1>4, OutputsCanBeStored
<1>6. QED
  BY <1>1, <1>5 DEF ManualSetpoints

\* Mode changes and manual setpoints keep the invariant.
LEMMA HeatingStep == IInv /\ HeatingCommand => IInv'
<1> SUFFICES ASSUME IInv, HeatingCommand PROVE IInv'
  OBVIOUS
<1>1. ctl \in ControllerStates /\ settings \in Settings /\ reading \in Readings
  BY DEF IInv, Consistent, WellFormed
<1>2. ASSUME NEW on \in BOOLEAN, SetEnabled(on) PROVE IInv'
  <2> DEFINE u == [settings EXCEPT !.enabled = on, !.manual = Off]
             c == [ctl EXCEPT !.enabled = on]
  <2>1. u \in Settings /\ u.enabled = on /\ u.target = settings.target
    BY <1>1, OffIsPower, OutputsCanBeStored DEF Settings
  <2>2. c \in ControllerStates /\ c.enabled = on /\ c.target = ctl.target
    BY <1>1 DEF ControllerStates
  <2>3. SaveSettings(u) /\ ctl' = ResetController(c)
    BY <1>2 DEF SetEnabled
  <2> HIDE DEF u, c
  <2>4. QED
    BY <1>1, <2>1, <2>2, <2>3, ResetAgrees DEF IInv, SaveSettings
<1>3. ASSUME NEW selected \in ManualTargets, NEW p \in Powers, SetManualPower(selected, p)
      PROVE  IInv'
  <2> DEFINE u == [settings EXCEPT !.manual = ManualSetpoints(selected, p)]
  <2>1. u \in Settings /\ u.enabled = settings.enabled /\ u.target = settings.target
    BY <1>1, SetpointsCanBeStored DEF Settings
  <2>2. SaveSettings(u)
    BY <1>3 DEF SetManualPower
  <2>3. PICK t \in ControlTemperatures(settings.fusion, reading), dt \in SampleGaps :
          ctl' = ThermalControlUpdate(ctl, u, reading, t, dt)
    BY <1>3 DEF SetManualPower
  <2> HIDE DEF u
  <2>4. Consistent(ctl', u, reading) /\ Keeps(ctl, ctl', u, reading)
    BY <1>1, <2>1, <2>3, UpdateIsConsistent DEF IInv, Consistent
  <2>5. QED
    BY <2>1, <2>2, <2>4 DEF IInv, SaveSettings, Keeps
<1>4. QED
  BY <1>2, <1>3 DEF HeatingCommand

\* Plate commands keep the invariant, and release the limiter's latch only
\* of a cool plate or by switching the limiter off.
LEMMA PlateStep == IInv /\ PlateLimitCommand => IInv' /\ Keeps(ctl, ctl', settings', reading')
<1> DEFINE Goal == IInv' /\ Keeps(ctl, ctl', settings', reading')
<1> SUFFICES ASSUME IInv, PlateLimitCommand PROVE Goal
  OBVIOUS
<1>1. settings \in Settings /\ reading \in Readings
  BY DEF IInv
<1>2. ASSUME NEW u \in Settings, PlateCommand(u),
             u.enabled = settings.enabled, u.target = settings.target
      PROVE  Goal
  <2>1. Consistent(ctl', u, reading) /\ Keeps(ctl, ctl', u, reading)
    BY <1>1, <1>2, EnforceIsConsistent DEF PlateCommand, IInv, Consistent
  <2>2. QED
    BY <1>2, <2>1 DEF IInv, PlateCommand, SaveSettings, Keeps
<1>3. ASSUME NEW on \in BOOLEAN, SetPlateLimitEnabled(on) PROVE Goal
  <2> DEFINE u == [settings EXCEPT !.limitOn = on]
  <2>1. u \in Settings /\ u.enabled = settings.enabled /\ u.target = settings.target
    BY <1>1 DEF Settings
  <2>2. QED
    BY <1>2, <1>3, <2>1 DEF SetPlateLimitEnabled
<1>4. ASSUME NEW k \in Limits, SetPlateLimit(k) PROVE Goal
  <2> DEFINE u == [settings EXCEPT !.limit = k]
  <2>1. u \in Settings /\ u.enabled = settings.enabled /\ u.target = settings.target
    BY <1>1 DEF Settings
  <2>2. QED
    BY <1>2, <1>4, <2>1 DEF SetPlateLimit
<1>5. ASSUME NEW s \in PlateSensors, SetPlateSensor(s) PROVE Goal
  <2> DEFINE u == [settings EXCEPT !.plate = s]
  <2>1. u \in Settings /\ u.enabled = settings.enabled /\ u.target = settings.target
    BY <1>1 DEF Settings
  <2>2. QED
    BY <1>2, <1>5, <2>1 DEF SetPlateSensor
<1> HIDE DEF Goal
<1>6. QED
  BY <1>3, <1>4, <1>5 DEF PlateLimitCommand

\* A power cycle, also one in the middle of a save, keeps the invariant.
LEMMA PowerStep == IInv /\ PowerCycle => IInv'
<1> SUFFICES ASSUME IInv, PowerCycle PROVE IInv'
  OBVIOUS
<1>1. settings \in Settings /\ eeprom \in Settings /\ ctl.enabled \in BOOLEAN
  BY DEF IInv, Settings
<1>2. CASE Reboot
  BY <1>1, <1>2, StoredAreLoaded, BootFromIsConsistent DEF Reboot
<1>3. CASE PowerLossDuringSave
  BY <1>1, <1>3, TornAreLoaded, BootFromIsConsistent
<1>4. QED
  BY <1>2, <1>3 DEF PowerCycle

\* IInv is inductive.
LEMMA InvariantStep == IInv /\ [Next]_vars => IInv'
<1> SUFFICES ASSUME IInv, [Next]_vars PROVE IInv'
  OBVIOUS
<1>1. CASE Sample
  BY <1>1, SampleStep
<1>2. CASE GroundStationHeard
  BY <1>2 DEF GroundStationHeard, IInv
<1>3. CASE GroundStationLost
  BY <1>3 DEF GroundStationLost, IInv
<1>4. CASE RegulatorCommand
  BY <1>4, RegulatorStep
<1>5. CASE HeatingCommand
  BY <1>5, HeatingStep
<1>6. CASE PlateLimitCommand
  BY <1>6, PlateStep
<1>7. CASE PowerCycle
  BY <1>7, PowerStep
<1>8. CASE UNCHANGED vars
  BY <1>8 DEF vars, IInv
<1>9. QED
  BY <1>1, <1>2, <1>3, <1>4, <1>5, <1>6, <1>7, <1>8 DEF Next

LEMMA Invariant == Spec => []IInv
BY InitEstablishes, InvariantStep, PTL DEF Spec

\* The latch is released only of a cool plate or with the limiter off.
Released ==
    ctl.tripped /\ ~ctl'.tripped => ~settings'.limitOn \/ PlateCool(settings', reading')

\* No step but a power cycle releases the limiter's latch otherwise.
LEMMA LatchStep == IInv /\ [Next]_vars => Released \/ PowerCycle
<1> SUFFICES ASSUME IInv, [Next]_vars, ~PowerCycle PROVE Released
  OBVIOUS
<1>1. ctl \in ControllerStates /\ settings \in Settings /\ reading \in Readings
  BY DEF IInv, Consistent, WellFormed
<1>2. CASE Sample
  <2>a. PICK r \in Readings : \E t \in ControlTemperatures(settings.fusion, r), dt \in SampleGaps :
          LET updated == ThermalControlUpdate(ctl, settings, r, t, dt)
          IN  /\ reading' = r
              /\ ctl' = IF connected THEN EnforcePlateLimit(updated, settings, r) ELSE updated
    BY <1>2 DEF Sample
  <2>1. PICK t \in ControlTemperatures(settings.fusion, r), dt \in SampleGaps :
          LET updated == ThermalControlUpdate(ctl, settings, r, t, dt)
          IN  /\ reading' = r
              /\ ctl' = IF connected THEN EnforcePlateLimit(updated, settings, r) ELSE updated
    BY <2>a
  <2> DEFINE updated == ThermalControlUpdate(ctl, settings, r, t, dt)
  <2>2. Consistent(updated, settings, r) /\ Keeps(ctl, updated, settings, r)
    BY UpdateIsConsistent DEF IInv, Consistent
  <2>3. reading' = r /\ ctl' = IF connected THEN EnforcePlateLimit(updated, settings, r) ELSE updated
    BY <2>1
  <2> HIDE DEF updated
  <2>4. Keeps(updated, EnforcePlateLimit(updated, settings, r), settings, r)
    BY <1>1, <2>2, EnforceIsConsistent DEF Consistent
  <2>5. settings' = settings
    BY <1>2 DEF Sample
  <2>6. QED
    BY <2>2, <2>3, <2>4, <2>5 DEF Keeps, Released
<1>3. \A c : ResetController(c).tripped = c.tripped
  BY DEF ResetController, AtRest
<1>4. CASE RegulatorCommand
  <2>1. \A t : [ctl EXCEPT !.target = t].tripped = ctl.tripped
    BY <1>1 DEF ControllerStates
  <2>2. QED
    BY <1>3, <1>4, <2>1 DEF RegulatorCommand, SetTarget, SetPid, SetFusionMode,
       SetMode, SetHysteresis, SetBangBangPower, ResetIfBangBang, Released
<1>5. ASSUME NEW on, SetEnabled(on) PROVE Released
  <2>1. [ctl EXCEPT !.enabled = on].tripped = ctl.tripped
    BY <1>1 DEF ControllerStates
  <2>2. QED
    BY <1>3, <1>5, <2>1 DEF SetEnabled, Released
<1>6. ASSUME NEW selected, NEW p \in Powers, SetManualPower(selected, p) PROVE Released
  <2> DEFINE u == [settings EXCEPT !.manual = ManualSetpoints(selected, p)]
  <2>1. u \in Settings
    BY <1>1, SetpointsCanBeStored DEF Settings
  <2>2. settings' = u /\ reading' = reading
    BY <1>6 DEF SetManualPower, SaveSettings
  <2>3. PICK t \in ControlTemperatures(settings.fusion, reading), dt \in SampleGaps :
          ctl' = ThermalControlUpdate(ctl, u, reading, t, dt)
    BY <1>6 DEF SetManualPower
  <2> HIDE DEF u
  <2>4. Keeps(ctl, ctl', u, reading)
    BY <1>1, <2>1, <2>3, UpdateIsConsistent DEF IInv, Consistent
  <2>5. QED
    BY <2>2, <2>4 DEF Keeps, Released
<1>7. CASE PlateLimitCommand
  BY <1>7, PlateStep DEF Keeps, Released
<1>8. CASE GroundStationHeard \/ GroundStationLost \/ UNCHANGED vars
  BY <1>8 DEF GroundStationHeard, GroundStationLost, vars, Released
<1>9. QED
  BY <1>2, <1>4, <1>5, <1>6, <1>7, <1>8 DEF Next, HeatingCommand

-----------------------------------------------------------------------------
(* The theorems                                                            *)

\* The controller, settings and readings always have their types; among
\* them the PID integral stays within plus and minus the full output.
THEOREM TypeCorrect == Spec => []TypeOK
<1>1. IInv => TypeOK
  BY DEF IInv, Consistent, WellFormed, TypeOK
<1>2. QED
  BY <1>1, Invariant, PTL

\* No heater is powered unless enough control sensors are valid and all of
\* them are below the cutoff, also when power fails inside a save.
THEOREM CutoffAlwaysWins == Spec => []HeatingOnlyWhenSafe
<1>1. IInv => HeatingOnlyWhenSafe
  BY DEF IInv, Consistent, HeatingOnlyWhenSafe, SafeToHeat
<1>2. QED
  BY <1>1, Invariant, PTL

\* Protected heaters are off while the limiter is tripped or its plate is
\* too hot or unreadable.
THEOREM PlateIsLimited == Spec => []PlateLimiterHolds
<1>1. IInv => PlateLimiterHolds
  BY DEF IInv, Consistent, PlateHolds, PlateTooHot, PlateLimiterHolds
<1>2. QED
  BY <1>1, Invariant, PTL

\* An inhibited controller accumulates nothing.
THEOREM InhibitionClearsHistory == Spec => []NoWindupWhileInhibited
<1>1. IInv => NoWindupWhileInhibited
  BY DEF IInv, Consistent, NotWoundUp, NoWindupWhileInhibited
<1>2. QED
  BY <1>1, Invariant, PTL

\* EEPROM, RAM settings and controller agree between any two handlers.
THEOREM SettingsSurvive == Spec => []SettingsDurable
<1>1. IInv => SettingsDurable
  BY DEF IInv, SettingsDurable
<1>2. QED
  BY <1>1, Invariant, PTL

\* The latch of the limiter is released only by a cool plate, by switching
\* the limiter off or by a power cycle.
THEOREM LatchHolds == Spec => TripReleasedOnlyWhenCool
<1>1. IInv /\ [Next]_vars =>
        [ ctl.tripped /\ ~ctl'.tripped /\ ~PowerCycle =>
            \/ ~settings'.limitOn
            \/ /\ reading'[settings'.plate] # NoReading
               /\ reading'[settings'.plate] <= settings'.limit - PlateHysteresis ]_vars
  BY LatchStep DEF Released, PlateCool
<1>2. QED
  BY <1>1, Invariant, PTL DEF Spec, TripReleasedOnlyWhenCool

-----------------------------------------------------------------------------
(* Power: each function that switches heaters leaves Accounted records,    *)
(* and each action keeps them so.                                          *)

Accounted(c, s) ==
    \A h \in Heaters :
        c.power[h] > 0 =>
            c.power[h] = Clamp(IF c.enabled THEN c.output ELSE s.manual[h],
                               0, HeaterMax[h])

-----------------------------------------------------------------------------
(* The functions of the controller                                         *)

HasOutputs(c) == {"enabled", "output", "power"} \subseteq DOMAIN c

DisabledOff(c) == \A h \in Heaters \ HeaterEnabled : c.power[h] = 0

LEMMA WellFormedHasOutputs ==
    ASSUME NEW c, WellFormed(c)
    PROVE  HasOutputs(c) /\ DisabledOff(c)
BY DEF WellFormed, ControllerStates, HasOutputs, DisabledOff

\* Nothing has to be accounted for where nothing is powered.
LEMMA OffIsAccounted ==
    ASSUME NEW c, NEW s, c.power = Off
    PROVE  Accounted(c, s)
BY DEF Accounted, Off

\* Neither is anything after a reset.
LEMMA ResetIsAccounted ==
    ASSUME NEW c, NEW s
    PROVE  Accounted(ResetController(c), s)
<1>1. ResetController(c).power = Off
  BY DEF ResetController, AtRest
<1>2. QED
  BY <1>1, OffIsAccounted

\* Written power is the demand within the limits of the channel, or zero.
LEMMA WriteIsAccounted ==
    ASSUME NEW c, HasOutputs(c), DisabledOff(c), NEW s, NEW demand,
           \A h \in HeaterEnabled :
              demand[h] = IF c.enabled THEN c.output ELSE s.manual[h]
    PROVE  LET d == WriteLimitedPower(c, demand)
           IN  HasOutputs(d) /\ Accounted(d, s)
<1> DEFINE d == WriteLimitedPower(c, demand)
<1>1. /\ HasOutputs(d) /\ d.power = LimitedPower(c, demand)
      /\ d.enabled = c.enabled /\ d.output = c.output
  BY DEF WriteLimitedPower, HasOutputs
<1> HIDE DEF d
<1>2. \A h \in Heaters :
         \/ d.power[h] = 0
         \/ h \in HeaterEnabled /\ d.power[h] = Clamp(demand[h], 0, HeaterMax[h])
  BY <1>1 DEF LimitedPower, DisabledOff
<1>3. Accounted(d, s)
  BY <1>1, <1>2 DEF Accounted
<1>4. QED
  BY <1>1, <1>3 DEF d

\* The regulators report the output they apply.
LEMMA ApplyIsAccounted ==
    ASSUME NEW c, HasOutputs(c), DisabledOff(c), c.enabled = TRUE,
           NEW s, NEW r, NEW demand
    PROVE  LET d == ApplyOutput(c, s, r, demand)
           IN  HasOutputs(d) /\ Accounted(d, s)
<1> DEFINE limited == UpdatePlateLimit(c, s, r)
           out     == Clamp(demand, 0, MaxOutput)
           written == [limited EXCEPT !.output = out]
<1>1. ApplyOutput(c, s, r, demand) =
        IF limited.tripped /\ PlateHeater = "ALL" THEN ResetController(limited)
        ELSE WriteLimitedPower(written, [h \in Heaters |-> out])
  BY DEF ApplyOutput
<1>2. HasOutputs(limited) /\ limited.power = c.power /\ limited.enabled = c.enabled
  BY DEF UpdatePlateLimit, HasOutputs
<1> HIDE DEF limited, out
<1>3. /\ HasOutputs(written) /\ written.power = limited.power
      /\ written.enabled = limited.enabled /\ written.output = out
  BY <1>2 DEF HasOutputs
<1> HIDE DEF written
<1>4. HasOutputs(written) /\ DisabledOff(written) /\ written.enabled = TRUE
  BY <1>2, <1>3 DEF DisabledOff
<1>5. \A h \in HeaterEnabled :
         [g \in Heaters |-> out][h] =
            IF written.enabled THEN written.output ELSE s.manual[h]
  BY <1>3, <1>4, HeaterAssumption
<1>6. LET d == WriteLimitedPower(written, [h \in Heaters |-> out])
      IN  HasOutputs(d) /\ Accounted(d, s)
  BY <1>4, <1>5, WriteIsAccounted
<1>7. HasOutputs(ResetController(limited))
  BY DEF ResetController, AtRest, HasOutputs
<1>8. QED
  BY <1>1, <1>6, <1>7, ResetIsAccounted

\* A sample accounts for the power it leaves on.
LEMMA UpdateIsAccounted ==
    ASSUME NEW c, WellFormed(c), NEW s, NEW r, NEW t, NEW dt
    PROVE  Accounted(ThermalControlUpdate(c, s, r, t, dt), s)
<1> DEFINE d == ThermalControlUpdate(c, s, r, t, dt)
<1>1. c.enabled \in BOOLEAN /\ HasOutputs(c) /\ DisabledOff(c)
  BY WellFormedHasOutputs DEF WellFormed, ControllerStates
<1>2. CASE t = NoReading \/ ~ControlSensorsSafe(r)
  <2>1. d = IF c.enabled THEN ResetController(c) ELSE HeaterAllOff(c)
    BY <1>2 DEF ThermalControlUpdate
  <2>2. HeaterAllOff(c).power = Off
    BY <1>1 DEF HeaterAllOff, HasOutputs
  <2>3. QED
    BY <2>1, <2>2, ResetIsAccounted, OffIsAccounted
<1>3. CASE ~(t = NoReading \/ ~ControlSensorsSafe(r))
  <2>1. CASE ~c.enabled
    <3> DEFINE limited == UpdatePlateLimit(c, s, r)
    <3>1. d = WriteLimitedPower(limited, s.manual)
      BY <1>3, <2>1 DEF ThermalControlUpdate
    <3>2. HasOutputs(limited) /\ limited.power = c.power /\ limited.enabled = c.enabled
      BY <1>1 DEF UpdatePlateLimit, HasOutputs
    <3> HIDE DEF limited
    <3>3. DisabledOff(limited)
      BY <1>1, <3>2 DEF DisabledOff
    <3>4. \A h \in HeaterEnabled :
             s.manual[h] = IF limited.enabled THEN limited.output ELSE s.manual[h]
      BY <2>1, <3>2
    <3>5. QED
      BY <3>1, <3>2, <3>3, <3>4, WriteIsAccounted
  <2>2. CASE c.enabled /\ s.mode = "BANG_BANG"
    <3> DEFINE on == \/ t <= c.target - s.hyst
                     \/ c.bangOn /\ t < c.target + s.hyst
               e  == [c EXCEPT !.bangOn = on]
    <3>1. d = ApplyOutput(e, s, r, IF on THEN s.bangPower ELSE 0)
      BY <1>3, <2>2 DEF ThermalControlUpdate, BangBangUpdate
    <3> HIDE DEF on
    <3>2. HasOutputs(e) /\ e.power = c.power /\ e.enabled = c.enabled
      BY <1>1 DEF HasOutputs
    <3> HIDE DEF e
    <3>3. DisabledOff(e) /\ e.enabled = TRUE
      BY <1>1, <2>2, <3>2 DEF DisabledOff
    <3>4. QED
      BY <3>1, <3>2, <3>3, ApplyIsAccounted
  <2>3. CASE c.enabled /\ s.mode # "BANG_BANG" /\ ~c.initialized
    <3> DEFINE e == [c EXCEPT !.prev = t, !.initialized = TRUE]
    <3>1. d = ApplyOutput(e, s, r, s.gains.kp * (c.target - t))
      BY <1>3, <2>3 DEF ThermalControlUpdate, PidFirstSample
    <3>2. HasOutputs(e) /\ e.power = c.power /\ e.enabled = c.enabled
      BY <1>1 DEF HasOutputs
    <3> HIDE DEF e
    <3>3. DisabledOff(e) /\ e.enabled = TRUE
      BY <1>1, <2>3, <3>2 DEF DisabledOff
    <3>4. QED
      BY <3>1, <3>2, <3>3, ApplyIsAccounted
  <2>4. CASE c.enabled /\ s.mode # "BANG_BANG" /\ c.initialized
    <3>1. PICK integral, demand :
            d = [ApplyOutput([c EXCEPT !.integral = integral], s, r, demand)
                   EXCEPT !.prev = t]
      BY <1>3, <2>4 DEF ThermalControlUpdate, PidUpdate
    <3> DEFINE e == [c EXCEPT !.integral = integral]
               a == ApplyOutput(e, s, r, demand)
    <3>2. HasOutputs(e) /\ e.power = c.power /\ e.enabled = c.enabled
      BY <1>1 DEF HasOutputs
    <3>3. d = [a EXCEPT !.prev = t]
      BY <3>1
    <3> HIDE DEF e
    <3>4. DisabledOff(e) /\ e.enabled = TRUE
      BY <1>1, <2>4, <3>2 DEF DisabledOff
    <3>5. HasOutputs(a) /\ Accounted(a, s)
      BY <3>2, <3>4, ApplyIsAccounted
    <3> HIDE DEF a
    <3>6. d.power = a.power /\ d.enabled = a.enabled /\ d.output = a.output
      BY <3>3, <3>5 DEF HasOutputs
    <3> HIDE DEF d
    <3>7. Accounted(d, s)
      BY <3>5, <3>6 DEF Accounted
    <3>8. QED
      BY <3>7 DEF d
  <2>5. QED
    BY <1>1, <2>1, <2>2, <2>3, <2>4
<1>4. QED
  BY <1>2, <1>3

\* Enforcing the plate limit switches off what it does not account for.
LEMMA EnforceIsAccounted ==
    ASSUME NEW c, WellFormed(c), NEW s, NEW u, NEW r,
           Accounted(c, s), u.manual = s.manual
    PROVE  Accounted(EnforcePlateLimit(c, u, r), u)
<1> DEFINE limited == UpdatePlateLimit(c, u, r)
           gated   == [limited EXCEPT !.power = GatedPower(limited)]
<1>1. /\ HasOutputs(limited) /\ limited.power = c.power
      /\ limited.enabled = c.enabled /\ limited.output = c.output
  BY WellFormedHasOutputs DEF UpdatePlateLimit, HasOutputs
<1>2. EnforcePlateLimit(c, u, r) =
        IF limited.enabled /\ limited.tripped /\ PlateHeater = "ALL"
        THEN ResetController(limited) ELSE gated
  BY DEF EnforcePlateLimit
<1> HIDE DEF limited
<1>3. /\ gated.power = GatedPower(limited)
      /\ gated.enabled = c.enabled /\ gated.output = c.output
  BY <1>1 DEF HasOutputs
<1> HIDE DEF gated
<1>4. \A h \in Heaters : gated.power[h] \in {0, c.power[h]}
  BY <1>1, <1>3 DEF GatedPower
<1>5. Accounted(gated, u)
  BY <1>3, <1>4 DEF Accounted
<1>6. QED
  BY <1>2, <1>5, ResetIsAccounted

-----------------------------------------------------------------------------
(* The inductive invariant                                                 *)

AInv == IInv /\ Accounted(ctl, settings)

LEMMA PowerInitEstablishes == Init => AInv
<1> SUFFICES ASSUME Init PROVE AInv
  OBVIOUS
<1>1. ctl.power = Off
  BY DEF Init, BootController, AtRest
<1>2. QED
  BY <1>1, InitEstablishes, OffIsAccounted DEF AInv

\* Each command keeps the power accounted for.
LEMMA CommandIsAccounted ==
    ASSUME AInv, RegulatorCommand \/ HeatingCommand \/ PlateLimitCommand
    PROVE  Accounted(ctl', settings')
<1> DEFINE Goal == Accounted(ctl', settings')
<1> SUFFICES Goal
  OBVIOUS
<1>1. /\ WellFormed(ctl) /\ ctl \in ControllerStates
      /\ settings \in Settings /\ reading \in Readings
      /\ Accounted(ctl, settings)
  BY DEF AInv, IInv, Consistent, WellFormed
<1>2. ASSUME NEW c, NEW u, u.manual = settings.manual, SaveSettings(u),
             ctl' \in {c, ResetController(c)}, Accounted(c, settings)
      PROVE  Goal
  <2>1. settings' = u
    BY <1>2 DEF SaveSettings
  <2>2. Accounted(c, u)
    BY <1>2 DEF Accounted
  <2>3. QED
    BY <1>2, <2>1, <2>2, ResetIsAccounted
<1>3. CASE RegulatorCommand
  <2>1. ASSUME NEW t, SetTarget(t) PROVE Goal
    <3> DEFINE c == [ctl EXCEPT !.target = t]
               u == [settings EXCEPT !.target = t]
    <3>1. SaveSettings(u) /\ ctl' \in {c, ResetController(c)}
      BY <2>1 DEF SetTarget
    <3>2. /\ u.manual = settings.manual
          /\ c.power = ctl.power /\ c.enabled = ctl.enabled /\ c.output = ctl.output
      BY <1>1 DEF Settings, ControllerStates
    <3> HIDE DEF c, u
    <3>3. Accounted(c, settings)
      BY <1>1, <3>2 DEF Accounted
    <3>4. QED
      BY <1>2, <3>1, <3>2, <3>3
  <2>2. ASSUME NEW u, u.manual = settings.manual, SaveSettings(u),
               ctl' \in {ctl, ResetController(ctl)}
        PROVE  Goal
    BY <1>1, <1>2, <2>2
  <2>3. ASSUME NEW g, SetPid(g) PROVE Goal
    <3>1. [settings EXCEPT !.gains = g].manual = settings.manual
      BY <1>1 DEF Settings
    <3>2. QED
      BY <2>2, <2>3, <3>1 DEF SetPid
  <2>4. ASSUME NEW m, SetFusionMode(m) PROVE Goal
    <3>1. [settings EXCEPT !.fusion = m].manual = settings.manual
      BY <1>1 DEF Settings
    <3>2. QED
      BY <2>2, <2>4, <3>1 DEF SetFusionMode
  <2>5. ASSUME NEW m, SetMode(m) PROVE Goal
    <3>1. [settings EXCEPT !.mode = m].manual = settings.manual
      BY <1>1 DEF Settings
    <3>2. QED
      BY <2>2, <2>5, <3>1 DEF SetMode
  <2>6. ASSUME NEW k, SetHysteresis(k) PROVE Goal
    <3>1. [settings EXCEPT !.hyst = k].manual = settings.manual
      BY <1>1 DEF Settings
    <3>2. QED
      BY <2>2, <2>6, <3>1 DEF SetHysteresis, ResetIfBangBang
  <2>7. ASSUME NEW p, SetBangBangPower(p) PROVE Goal
    <3>1. [settings EXCEPT !.bangPower = p].manual = settings.manual
      BY <1>1 DEF Settings
    <3>2. QED
      BY <2>2, <2>7, <3>1 DEF SetBangBangPower, ResetIfBangBang
  <2> HIDE DEF Goal
  <2>8. QED
    BY <1>3, <2>1, <2>3, <2>4, <2>5, <2>6, <2>7 DEF RegulatorCommand
<1>4. ASSUME NEW on \in BOOLEAN, SetEnabled(on) PROVE Goal
  BY <1>4, ResetIsAccounted DEF SetEnabled
<1>5. ASSUME NEW selected, NEW p \in Powers, SetManualPower(selected, p) PROVE Goal
  <2> DEFINE u == [settings EXCEPT !.manual = ManualSetpoints(selected, p)]
  <2>1. settings' = u
    BY <1>5 DEF SetManualPower, SaveSettings
  <2>2. PICK t, dt : ctl' = ThermalControlUpdate(ctl, u, reading, t, dt)
    BY <1>5 DEF SetManualPower
  <2> HIDE DEF u
  <2>3. QED
    BY <1>1, <2>1, <2>2, UpdateIsAccounted
<1>6. ASSUME NEW u, u.manual = settings.manual, PlateCommand(u) PROVE Goal
  <2>1. settings' = u /\ ctl' = EnforcePlateLimit(ctl, u, reading)
    BY <1>6 DEF PlateCommand, SaveSettings
  <2>2. Accounted(EnforcePlateLimit(ctl, u, reading), u)
    BY <1>1, <1>6, EnforceIsAccounted
  <2>3. QED
    BY <2>1, <2>2
<1>7. CASE PlateLimitCommand
  <2>1. \A x : /\ [settings EXCEPT !.limitOn = x].manual = settings.manual
               /\ [settings EXCEPT !.limit = x].manual = settings.manual
               /\ [settings EXCEPT !.plate = x].manual = settings.manual
    BY <1>1 DEF Settings
  <2> HIDE DEF Goal
  <2>2. QED
    BY <1>6, <1>7, <2>1 DEF PlateLimitCommand, SetPlateLimitEnabled,
       SetPlateLimit, SetPlateSensor
<1> HIDE DEF Goal
<1>8. QED
  BY <1>3, <1>4, <1>5, <1>7 DEF HeatingCommand

\* After a power cycle, also one that tears a save, everything is off.
LEMMA PowerCycleIsAccounted ==
    ASSUME PowerCycle
    PROVE  Accounted(ctl', settings')
<1>1. ctl' = BootController(settings')
  BY DEF PowerCycle, Reboot, PowerLossDuringSave, BootFrom
<1>2. ctl'.power = Off
  BY <1>1 DEF BootController, AtRest
<1>3. QED
  BY <1>2, OffIsAccounted

\* A sample accounts for what it applies.
LEMMA SampleIsAccounted ==
    ASSUME AInv, Sample
    PROVE  Accounted(ctl', settings')
<1>1. PICK r \in Readings : \E t \in ControlTemperatures(settings.fusion, r), dt \in SampleGaps :
        LET updated == ThermalControlUpdate(ctl, settings, r, t, dt)
        IN  /\ reading' = r
            /\ ctl' = IF connected THEN EnforcePlateLimit(updated, settings, r) ELSE updated
  BY DEF Sample
<1>2. PICK t \in ControlTemperatures(settings.fusion, r), dt \in SampleGaps :
        LET updated == ThermalControlUpdate(ctl, settings, r, t, dt)
        IN  /\ reading' = r
            /\ ctl' = IF connected THEN EnforcePlateLimit(updated, settings, r) ELSE updated
  BY <1>1
<1> DEFINE updated == ThermalControlUpdate(ctl, settings, r, t, dt)
<1>3. /\ settings' = settings
      /\ ctl' = IF connected THEN EnforcePlateLimit(updated, settings, r) ELSE updated
  BY <1>2 DEF Sample
<1>4. WellFormed(ctl) /\ settings \in Settings
  BY DEF AInv, IInv, Consistent
<1>5. WellFormed(updated)
  BY <1>4, UpdateIsConsistent DEF Consistent
<1>6. Accounted(updated, settings)
  BY <1>4, UpdateIsAccounted
<1> HIDE DEF updated
<1>7. Accounted(EnforcePlateLimit(updated, settings, r), settings)
  BY <1>5, <1>6, EnforceIsAccounted
<1>8. QED
  BY <1>3, <1>4, <1>6, <1>7

\* AInv is inductive.
LEMMA PowerInvariantStep == AInv /\ [Next]_vars => AInv'
<1> SUFFICES ASSUME AInv, [Next]_vars PROVE AInv'
  OBVIOUS
<1>1. IInv'
  BY InvariantStep DEF AInv
<1>2. CASE GroundStationHeard \/ GroundStationLost \/ UNCHANGED vars
  BY <1>1, <1>2 DEF GroundStationHeard, GroundStationLost, vars, AInv
<1>3. QED
  BY <1>1, <1>2, SampleIsAccounted, CommandIsAccounted, PowerCycleIsAccounted
     DEF AInv, Next

-----------------------------------------------------------------------------
(* The theorem                                                             *)

\* Every powered channel runs at the reported output or the stored setpoint,
\* limited to its maximum, whatever commands, samples, restarts and torn
\* saves came before.
THEOREM PowerIsVisible == Spec => []PowerIsAccountedFor
<1>1. AInv => PowerIsAccountedFor
  BY DEF AInv, Accounted, PowerIsAccountedFor
<1>2. Init => AInv
  BY PowerInitEstablishes
<1>3. QED
  BY <1>1, <1>2, PowerInvariantStep, PTL DEF Spec
-----------------------------------------------------------------------------
(* The bang-bang regulator                                                 *)

\* Assumption of the theorem, as config.h has it: the limiter protects every
\* channel.  A trip on some channels leaves the demand of the others, which
\* the protected ones follow at once when the plate has cooled.
AllProtected == PlateHeater = "ALL"

\* The configured power is none on every channel.
CannotHeat(s) ==
    \A h \in HeaterEnabled : Clamp(Clamp(s.bangPower, 0, MaxOutput), 0, HeaterMax[h]) = 0

\* A demand belongs to bang-bang control, and is met if it can be.
DemandIsMet(c, s) ==
    c.bangOn => /\ c.enabled /\ s.mode = "BANG_BANG"
                /\ Heating(c) \/ CannotHeat(s)

\* What ApplyOutput needs of a controller record.
Outputs(c) ==
    /\ {"bangOn", "enabled", "tripped", "power", "output"} \subseteq DOMAIN c
    /\ DisabledOff(c)

LEMMA ResetHasNoDemand ==
    ASSUME NEW c, NEW s
    PROVE  DemandIsMet(ResetController(c), s) /\ ~Heating(ResetController(c))
<1>1. ResetController(c).power = Off /\ ResetController(c).bangOn = FALSE
  BY DEF ResetController, AtRest
<1>2. ~Heating(ResetController(c))
  BY <1>1 DEF Heating, Off
<1>3. QED
  BY <1>1, <1>2 DEF DemandIsMet

\* An output is applied as it is, or with a reset.
LEMMA ApplyKeepsDemand ==
    ASSUME NEW c, Outputs(c), NEW s, NEW r, NEW demand
    PROVE  LET d == ApplyOutput(c, s, r, demand)
           IN  /\ "bangOn" \in DOMAIN d
               /\ \/ ~d.bangOn /\ ~Heating(d)
                  \/ /\ d.bangOn = c.bangOn /\ d.enabled = c.enabled
                     /\ AllProtected => \A h \in Heaters : d.power[h] =
                           IF h \in HeaterEnabled
                           THEN Clamp(Clamp(demand, 0, MaxOutput), 0, HeaterMax[h]) ELSE 0
<1> DEFINE limited == UpdatePlateLimit(c, s, r)
           out     == Clamp(demand, 0, MaxOutput)
           written == [limited EXCEPT !.output = out]
           d       == ApplyOutput(c, s, r, demand)
<1>1. d = IF limited.tripped /\ PlateHeater = "ALL" THEN ResetController(limited)
          ELSE WriteLimitedPower(written, [h \in Heaters |-> out])
  BY DEF ApplyOutput
<1>2. /\ limited.power = c.power /\ limited.bangOn = c.bangOn
      /\ limited.enabled = c.enabled
      /\ {"bangOn", "enabled", "tripped", "power", "output"} \subseteq DOMAIN limited
  BY DEF UpdatePlateLimit, Outputs
<1> HIDE DEF limited, out
<1>3. /\ written.power = c.power /\ written.bangOn = c.bangOn
      /\ written.enabled = c.enabled /\ written.tripped = limited.tripped
      /\ {"bangOn", "enabled", "tripped", "power"} \subseteq DOMAIN written
  BY <1>2
<1> HIDE DEF written
<1>4. CASE limited.tripped /\ PlateHeater = "ALL"
  <2>1. d = ResetController(limited)
    BY <1>1, <1>4
  <2>2. d.bangOn = FALSE /\ "bangOn" \in DOMAIN d
    BY <2>1 DEF ResetController, AtRest
  <2>3. ~Heating(d)
    BY <2>1, ResetHasNoDemand
  <2>4. QED
    BY <2>2, <2>3
<1>5. CASE ~(limited.tripped /\ PlateHeater = "ALL")
  <2> DEFINE demands == [h \in Heaters |-> out]
  <2>1. d = WriteLimitedPower(written, demands)
    BY <1>1, <1>5
  <2>2. /\ d.bangOn = c.bangOn /\ d.enabled = c.enabled
        /\ "bangOn" \in DOMAIN d
        /\ d.power = LimitedPower(written, demands)
    BY <1>3, <2>1 DEF WriteLimitedPower
  <2>3. \A h \in Heaters : demands[h] = out
    OBVIOUS
  <2> HIDE DEF demands
  <2>4. ASSUME AllProtected, NEW h \in Heaters
        PROVE  d.power[h] = IF h \in HeaterEnabled THEN Clamp(out, 0, HeaterMax[h]) ELSE 0
    <3>1. ~written.tripped
      BY <1>3, <1>5, <2>4 DEF AllProtected
    <3>2. h \notin HeaterEnabled => written.power[h] = 0
      BY <1>3 DEF Outputs, DisabledOff
    <3>3. QED
      BY <2>2, <2>3, <3>1, <3>2 DEF LimitedPower
  <2>5. QED
    BY <2>2, <2>4 DEF out
<1>6. QED
  BY <1>4, <1>5

\* The regulator heats only below the band or on a demand it had, and meets
\* the demand it has.
LEMMA BangBangMeetsDemand ==
    ASSUME AllProtected, NEW c, WellFormed(c), c.enabled,
           NEW s \in Settings, s.mode = "BANG_BANG", NEW r, NEW t
    PROVE  LET d == BangBangUpdate(c, s, r, t)
           IN  /\ DemandIsMet(d, s)
               /\ Heating(d) => (t <= c.target - s.hyst \/ c.bangOn) /\ ~CannotHeat(s)
<1> DEFINE on     == \/ t <= c.target - s.hyst
                     \/ c.bangOn /\ t < c.target + s.hyst
           e      == [c EXCEPT !.bangOn = on]
           demand == IF on THEN s.bangPower ELSE 0
           d      == ApplyOutput(e, s, r, demand)
           p(h)   == Clamp(Clamp(demand, 0, MaxOutput), 0, HeaterMax[h])
<1>1. BangBangUpdate(c, s, r, t) = d
  BY DEF BangBangUpdate
<1>2. on \in BOOLEAN /\ (on => t <= c.target - s.hyst \/ c.bangOn)
  OBVIOUS
<1> HIDE DEF on
<1>3. Outputs(e) /\ e.bangOn = on /\ e.enabled = c.enabled
  BY <1>2 DEF Outputs, DisabledOff, WellFormed, ControllerStates
<1> HIDE DEF e
<1> HIDE DEF demand
<1>4. \/ ~d.bangOn /\ ~Heating(d)
      \/ /\ d.bangOn = on /\ d.enabled = c.enabled
         /\ \A h \in Heaters : d.power[h] = IF h \in HeaterEnabled THEN p(h) ELSE 0
  <2>1. \/ ~d.bangOn /\ ~Heating(d)
        \/ /\ d.bangOn = e.bangOn /\ d.enabled = e.enabled
           /\ AllProtected => \A h \in Heaters : d.power[h] =
                 IF h \in HeaterEnabled
                 THEN Clamp(Clamp(demand, 0, MaxOutput), 0, HeaterMax[h]) ELSE 0
    BY <1>3, ApplyKeepsDemand
  <2> HIDE DEF d
  <2>2. QED
    BY <1>3, <2>1
<1> HIDE DEF d
<1>5. CASE ~d.bangOn /\ ~Heating(d)
  BY <1>1, <1>5 DEF DemandIsMet
<1>6. CASE /\ d.bangOn = on /\ d.enabled = c.enabled
           /\ \A h \in Heaters : d.power[h] = IF h \in HeaterEnabled THEN p(h) ELSE 0
  <2>1. CASE ~on
    <3>1. \A h \in HeaterEnabled : p(h) = 0
      <4>1. demand = 0
        BY <2>1 DEF demand
      <4>2. \A h \in HeaterEnabled : HeaterMax[h] \in 0 .. MaxOutput
        BY HeaterAssumption
      <4>3. QED
        BY <4>1, <4>2, HeaterAssumption DEF Clamp
    <3>2. ~Heating(d)
      BY <1>6, <3>1 DEF Heating
    <3>3. QED
      BY <1>1, <1>6, <2>1, <3>2 DEF DemandIsMet
  <2>2. CASE on
    <3>1. demand = s.bangPower
      BY <2>2 DEF demand
    <3>2. CASE CannotHeat(s)
      <4>1. \A h \in Heaters : d.power[h] = 0
        BY <1>6, <3>1, <3>2 DEF CannotHeat
      <4>2. ~Heating(d)
        BY <4>1 DEF Heating
      <4>3. DemandIsMet(d, s)
        BY <1>6, <3>2 DEF DemandIsMet
      <4>4. QED
        BY <1>1, <4>2, <4>3
    <3>3. CASE ~CannotHeat(s)
      <4>1. PICK h \in HeaterEnabled : p(h) # 0
        BY <3>1, <3>3 DEF CannotHeat
      <4>2. p(h) \in Int /\ p(h) >= 0
        <5>1. s.bangPower \in Powers
          BY DEF Settings
        <5>2. demand \in 0 .. MaxOutput
          BY <3>1, <5>1, OperandAssumption
        <5>3. Clamp(demand, 0, MaxOutput) \in Int /\ Clamp(demand, 0, MaxOutput) >= 0
          BY <5>2, HeaterAssumption DEF Clamp
        <5>4. HeaterMax[h] \in Int /\ HeaterMax[h] >= 0
          BY HeaterAssumption
        <5>5. QED
          BY <5>3, <5>4 DEF Clamp
      <4> HIDE DEF p
      <4>3. h \in Heaters /\ d.power[h] > 0
        BY <1>6, <4>1, <4>2, HeaterAssumption
      <4>4. Heating(d)
        BY <4>3 DEF Heating
      <4>5. DemandIsMet(d, s)
        BY <1>6, <4>4 DEF DemandIsMet
      <4>6. QED
        BY <1>1, <1>2, <2>2, <3>3, <4>5
    <3>4. QED
      BY <3>2, <3>3
  <2>3. QED
    BY <2>1, <2>2
<1>7. QED
  BY <1>4, <1>5, <1>6

\* Heaters are only switched off, and a demand only dropped.
LEMMA EnforceKeepsDemand ==
    ASSUME AllProtected, NEW c, WellFormed(c), NEW s, NEW u, NEW r,
           DemandIsMet(c, s), u.mode = s.mode, u.bangPower = s.bangPower
    PROVE  LET d == EnforcePlateLimit(c, u, r)
           IN  DemandIsMet(d, u) /\ (Heating(d) => Heating(c))
<1> DEFINE limited == UpdatePlateLimit(c, u, r)
           gated   == [limited EXCEPT !.power = GatedPower(limited)]
           d       == EnforcePlateLimit(c, u, r)
<1> SUFFICES DemandIsMet(d, u) /\ (Heating(d) => Heating(c))
  OBVIOUS
<1>1. /\ limited.power = c.power /\ limited.bangOn = c.bangOn
      /\ limited.enabled = c.enabled
      /\ {"bangOn", "enabled", "tripped", "power"} \subseteq DOMAIN limited
  BY DEF UpdatePlateLimit, WellFormed, ControllerStates
<1>2. d = IF limited.enabled /\ limited.tripped /\ PlateHeater = "ALL"
          THEN ResetController(limited) ELSE gated
  BY DEF EnforcePlateLimit
<1> HIDE DEF limited
<1>3. /\ gated.power = GatedPower(limited)
      /\ gated.bangOn = c.bangOn /\ gated.enabled = c.enabled
  BY <1>1
<1> HIDE DEF gated, d
<1>4. CASE limited.enabled /\ limited.tripped /\ PlateHeater = "ALL"
  BY <1>2, <1>4, ResetHasNoDemand
<1>5. CASE ~(limited.enabled /\ limited.tripped /\ PlateHeater = "ALL")
  <2>1. d = gated
    BY <1>2, <1>5
  <2>2. \A h \in Heaters : gated.power[h] \in {0, c.power[h]}
    BY <1>1, <1>3 DEF GatedPower
  <2>3. Heating(d) => Heating(c)
    BY <2>1, <2>2 DEF Heating
  <2>4. CannotHeat(s) <=> CannotHeat(u)
    BY DEF CannotHeat
  <2>5. ASSUME c.bangOn PROVE Heating(d) \/ CannotHeat(u)
    <3>1. c.enabled /\ (Heating(c) \/ CannotHeat(s))
      BY <2>5 DEF DemandIsMet
    <3>2. ~limited.tripped
      BY <1>1, <1>5, <3>1 DEF AllProtected
    <3>3. \A h \in Heaters : gated.power[h] = c.power[h]
      BY <1>1, <1>3, <3>2 DEF GatedPower
    <3>4. Heating(c) => Heating(d)
      BY <2>1, <3>3 DEF Heating
    <3>5. QED
      BY <2>4, <3>1, <3>4
  <2>6. DemandIsMet(d, u)
    BY <1>3, <2>1, <2>5 DEF DemandIsMet
  <2>7. QED
    BY <2>3, <2>6
<1>6. QED
  BY <1>4, <1>5

\* A sample meets the demand of bang-bang control, and starts to heat only
\* below its band.
LEMMA UpdateMeetsDemand ==
    ASSUME AllProtected, NEW c, WellFormed(c), NEW s \in Settings,
           DemandIsMet(c, s), NEW r, NEW t, NEW dt
    PROVE  LET d == ThermalControlUpdate(c, s, r, t, dt)
           IN  /\ DemandIsMet(d, s)
               /\ Heating(d) /\ c.enabled /\ s.mode = "BANG_BANG"
                  => t # NoReading /\ (t <= c.target - s.hyst \/ Heating(c))
<1> DEFINE d == ThermalControlUpdate(c, s, r, t, dt)
           Goal == /\ DemandIsMet(d, s)
                   /\ Heating(d) /\ c.enabled /\ s.mode = "BANG_BANG"
                      => t # NoReading /\ (t <= c.target - s.hyst \/ Heating(c))
<1> SUFFICES Goal
  OBVIOUS
<1>1. c.enabled \in BOOLEAN /\ c.bangOn \in BOOLEAN
  BY DEF WellFormed, ControllerStates
<1>2. CASE t = NoReading \/ ~ControlSensorsSafe(r)
  <2>1. CASE c.enabled
    <3>1. d = ResetController(c)
      BY <1>2, <2>1 DEF ThermalControlUpdate
    <3>2. QED
      BY <3>1, ResetHasNoDemand
  <2>2. CASE ~c.enabled
    <3>1. d = HeaterAllOff(c)
      BY <1>2, <2>2 DEF ThermalControlUpdate
    <3>2. d.bangOn = c.bangOn
      BY <3>1 DEF HeaterAllOff, WellFormed, ControllerStates
    <3>3. ~c.bangOn
      BY <2>2 DEF DemandIsMet
    <3>4. QED
      BY <2>2, <3>2, <3>3 DEF DemandIsMet
  <2>3. QED
    BY <2>1, <2>2
<1>3. CASE ~(t = NoReading \/ ~ControlSensorsSafe(r)) /\ ~c.enabled
  <2>1. d = WriteLimitedPower(UpdatePlateLimit(c, s, r), s.manual)
    BY <1>3 DEF ThermalControlUpdate
  <2>2. d.bangOn = c.bangOn
    BY <2>1 DEF WriteLimitedPower, UpdatePlateLimit, WellFormed, ControllerStates
  <2>3. ~c.bangOn
    BY <1>3 DEF DemandIsMet
  <2>4. QED
    BY <1>3, <2>2, <2>3 DEF DemandIsMet
<1>4. CASE /\ ~(t = NoReading \/ ~ControlSensorsSafe(r))
           /\ c.enabled /\ s.mode = "BANG_BANG"
  <2>1. d = BangBangUpdate(c, s, r, t)
    BY <1>4 DEF ThermalControlUpdate
  <2>2. /\ DemandIsMet(d, s)
        /\ Heating(d) => (t <= c.target - s.hyst \/ c.bangOn) /\ ~CannotHeat(s)
    BY <1>4, <2>1, BangBangMeetsDemand
  <2>3. c.bangOn /\ ~CannotHeat(s) => Heating(c)
    BY DEF DemandIsMet
  <2>4. QED
    BY <1>4, <2>2, <2>3
<1>5. CASE /\ ~(t = NoReading \/ ~ControlSensorsSafe(r))
           /\ c.enabled /\ s.mode # "BANG_BANG"
  <2>1. ~c.bangOn
    BY <1>5 DEF DemandIsMet
  <2>2. ~d.bangOn
    <3>1. CASE ~c.initialized
      <4> DEFINE e == [c EXCEPT !.prev = t, !.initialized = TRUE]
      <4>1. d = ApplyOutput(e, s, r, s.gains.kp * (c.target - t))
        BY <1>5, <3>1 DEF ThermalControlUpdate, PidFirstSample
      <4>2. Outputs(e) /\ e.bangOn = c.bangOn
        BY DEF Outputs, DisabledOff, WellFormed, ControllerStates
      <4> HIDE DEF e
      <4>3. QED
        BY <2>1, <4>1, <4>2, ApplyKeepsDemand
    <3>2. CASE c.initialized
      <4>1. PICK integral, demand :
              d = [ApplyOutput([c EXCEPT !.integral = integral], s, r, demand)
                     EXCEPT !.prev = t]
        BY <1>5, <3>2 DEF ThermalControlUpdate, PidUpdate
      <4> DEFINE e == [c EXCEPT !.integral = integral]
                 a == ApplyOutput(e, s, r, demand)
      <4>2. Outputs(e) /\ e.bangOn = c.bangOn
        BY DEF Outputs, DisabledOff, WellFormed, ControllerStates
      <4>3. d = [a EXCEPT !.prev = t]
        BY <4>1
      <4> HIDE DEF e
      <4>4. "bangOn" \in DOMAIN a /\ ~a.bangOn
        BY <2>1, <4>2, ApplyKeepsDemand
      <4> HIDE DEF a
      <4>5. QED
        BY <4>3, <4>4
    <3>3. QED
      BY <3>1, <3>2
  <2> HIDE DEF d
  <2>3. DemandIsMet(d, s)
    BY <2>2 DEF DemandIsMet
  <2>4. QED
    BY <1>5, <2>3
<1>6. QED
  BY <1>1, <1>2, <1>3, <1>4, <1>5

\* No fused temperature is below every reading.
LEMMA ReadingBelowFused ==
    ASSUME NEW fusion, NEW r \in Readings, NEW t \in ControlTemperatures(fusion, r),
           t # NoReading
    PROVE  \E s \in ControlSensors : r[s] # NoReading /\ r[s] <= t
<1> DEFINE valid == {r[s] : s \in ValidControl(r)}
<1>1. valid \subseteq Temps
  BY DEF ValidControl, Readings, Sensors
<1>2. t \in valid \/ \E v \in valid : v <= t
  BY DEF ControlTemperatures
<1>3. PICK v \in valid : v <= t
  <2>1. CASE t \in valid
    <3>1. t \in Temps /\ Temps \subseteq Int
      BY <1>1, <2>1, SensorAssumption
    <3>2. t <= t
      BY <3>1
    <3>3. QED
      BY <2>1, <3>2
  <2>2. QED
    BY <1>2, <2>1
<1>4. QED
  BY <1>3 DEF ValidControl

\* The invariant: a demand is met.
DInv == IInv /\ DemandIsMet(ctl, settings)

StartsBelowBand ==
    ~Heating(ctl) /\ Heating(ctl') /\ ctl'.enabled /\ settings'.mode = "BANG_BANG"
    => \E s \in ControlSensors :
          reading'[s] # NoReading /\ reading'[s] <= settings'.target - settings'.hyst

LEMMA SampleStartsBelowBand ==
    ASSUME AllProtected, DInv, Sample
    PROVE  DemandIsMet(ctl', settings') /\ StartsBelowBand
<1>1. PICK r \in Readings : \E t \in ControlTemperatures(settings.fusion, r), dt \in SampleGaps :
        LET updated == ThermalControlUpdate(ctl, settings, r, t, dt)
        IN  /\ reading' = r
            /\ ctl' = IF connected THEN EnforcePlateLimit(updated, settings, r) ELSE updated
  BY DEF Sample
<1>2. PICK t \in ControlTemperatures(settings.fusion, r), dt \in SampleGaps :
        LET updated == ThermalControlUpdate(ctl, settings, r, t, dt)
        IN  /\ reading' = r
            /\ ctl' = IF connected THEN EnforcePlateLimit(updated, settings, r) ELSE updated
  BY <1>1
<1> DEFINE updated == ThermalControlUpdate(ctl, settings, r, t, dt)
<1>3. /\ settings' = settings /\ reading' = r
      /\ ctl' = IF connected THEN EnforcePlateLimit(updated, settings, r) ELSE updated
  BY <1>2 DEF Sample
<1>4. /\ WellFormed(ctl) /\ settings \in Settings /\ DemandIsMet(ctl, settings)
      /\ ctl.enabled = settings.enabled /\ ctl.target = settings.target
  BY DEF DInv, IInv, Consistent
<1>5. WellFormed(updated) /\ updated.enabled = ctl.enabled
  BY <1>4, UpdateIsConsistent DEF Consistent, Keeps
<1>6. /\ DemandIsMet(updated, settings)
      /\ Heating(updated) /\ ctl.enabled /\ settings.mode = "BANG_BANG"
         => t # NoReading /\ (t <= ctl.target - settings.hyst \/ Heating(ctl))
  BY <1>4, UpdateMeetsDemand
<1> HIDE DEF updated
<1>7. /\ DemandIsMet(EnforcePlateLimit(updated, settings, r), settings)
      /\ Heating(EnforcePlateLimit(updated, settings, r)) => Heating(updated)
  BY <1>5, <1>6, EnforceKeepsDemand
<1>8. DemandIsMet(ctl', settings') /\ (Heating(ctl') => Heating(updated))
  BY <1>3, <1>6, <1>7
<1>9. ctl'.enabled = settings'.enabled
  BY SampleStep DEF DInv, IInv
<1>10. ASSUME ~Heating(ctl), Heating(ctl'), ctl'.enabled, settings'.mode = "BANG_BANG"
       PROVE  \E s \in ControlSensors : r[s] # NoReading /\ r[s] <= settings.target - settings.hyst
  <2>1. t # NoReading /\ t <= settings.target - settings.hyst
    BY <1>3, <1>4, <1>6, <1>8, <1>9, <1>10
  <2>2. PICK s \in ControlSensors : r[s] # NoReading /\ r[s] <= t
    BY <2>1, ReadingBelowFused
  <2>3. r[s] \in Int /\ t \in Int
    BY <2>1, <2>2, TemperatureOfReadings, SensorAssumption DEF Readings, Sensors
  <2>4. settings.target \in StoredTargets /\ settings.hyst \in Hystereses
    BY <1>4 DEF Settings
  <2>5. settings.target \in Int
    BY <2>4, OperandAssumption
  <2>6. settings.hyst \in Int
    <3>1. \A k \in Hystereses : k \in Nat
      BY OperandAssumption
    <3>2. QED
      BY <2>4, <3>1
  <2>7. r[s] <= settings.target - settings.hyst
    BY <2>1, <2>2, <2>3, <2>5, <2>6
  <2>8. QED
    BY <2>2, <2>7
<1>11. QED
  BY <1>3, <1>8, <1>10 DEF StartsBelowBand

\* A record whose power and demand are those of another.
LEMMA SamePowerSameDemand ==
    ASSUME NEW c, NEW d, NEW s, NEW u, DemandIsMet(c, s),
           d.power = c.power, d.bangOn = c.bangOn, d.enabled = c.enabled,
           u.mode = s.mode, u.bangPower = s.bangPower
    PROVE  DemandIsMet(d, u) /\ (Heating(d) <=> Heating(c))
BY DEF DemandIsMet, CannotHeat, Heating

\* A command never starts to heat under automatic control.
LEMMA CommandStartsNothing ==
    ASSUME AllProtected, DInv, RegulatorCommand \/ HeatingCommand \/ PlateLimitCommand
    PROVE  DemandIsMet(ctl', settings') /\ StartsBelowBand
<1> DEFINE Goal == DemandIsMet(ctl', settings') /\ StartsBelowBand
<1> SUFFICES Goal
  OBVIOUS
<1>1. /\ WellFormed(ctl) /\ ctl \in ControllerStates
      /\ settings \in Settings /\ reading \in Readings
      /\ DemandIsMet(ctl, settings) /\ ctl.enabled \in BOOLEAN
      /\ settings.enabled = ctl.enabled
  BY DEF DInv, IInv, Consistent, WellFormed, ControllerStates
<1>2. ASSUME NEW c, ctl' = ResetController(c) PROVE Goal
  <2>1. DemandIsMet(ctl', settings') /\ ~Heating(ctl')
    BY <1>2, ResetHasNoDemand
  <2>2. QED
    BY <2>1 DEF StartsBelowBand
<1>3. ASSUME DemandIsMet(ctl', settings'), Heating(ctl') => Heating(ctl) PROVE Goal
  BY <1>3 DEF StartsBelowBand
\* While disabled there is no demand.
<1>4. ASSUME ~ctl.enabled, ctl' = ctl PROVE Goal
  <2>1. ~ctl'.bangOn
    BY <1>1, <1>4 DEF DemandIsMet
  <2>2. DemandIsMet(ctl', settings')
    BY <2>1 DEF DemandIsMet
  <2>3. QED
    BY <1>3, <1>4, <2>2
<1>5. ASSUME NEW t, SetTarget(t) PROVE Goal
  <2> DEFINE c == [ctl EXCEPT !.target = t]
             u == [settings EXCEPT !.target = t]
  <2>1. /\ settings' = u /\ u.mode = settings.mode /\ u.bangPower = settings.bangPower
        /\ c.power = ctl.power /\ c.bangOn = ctl.bangOn /\ c.enabled = ctl.enabled
    BY <1>1, <1>5 DEF SetTarget, SaveSettings, Settings, ControllerStates
  <2>2. ctl' = c \/ ctl' = ResetController(c)
    BY <1>5 DEF SetTarget
  <2> HIDE DEF c, u
  <2>3. CASE ctl' = c
    <3>1. DemandIsMet(ctl', settings') /\ (Heating(ctl') <=> Heating(ctl))
      BY <1>1, <2>1, <2>3, SamePowerSameDemand
    <3>2. QED
      BY <1>3, <3>1
  <2>4. QED
    BY <1>2, <2>2, <2>3
<1>6. ASSUME NEW u, SaveSettings(u), ctl' = ctl,
             u.mode = settings.mode, u.bangPower = settings.bangPower
      PROVE  Goal
  <2>1. settings' = u
    BY <1>6 DEF SaveSettings
  <2>2. DemandIsMet(ctl', settings')
    BY <1>1, <1>6, <2>1, SamePowerSameDemand
  <2>3. QED
    BY <1>3, <1>6, <2>2
<1> HIDE DEF Goal
<1>7. ASSUME NEW g, SetPid(g) PROVE Goal
  <2> DEFINE u == [settings EXCEPT !.gains = g]
  <2>1. u.mode = settings.mode /\ u.bangPower = settings.bangPower
    BY <1>1 DEF Settings
  <2>2. SaveSettings(u) /\ (ctl' = ctl \/ ctl' = ResetController(ctl))
    BY <1>7 DEF SetPid
  <2> HIDE DEF u
  <2>3. QED
    BY <1>2, <1>6, <2>1, <2>2
<1>8. ASSUME NEW m, SetFusionMode(m) \/ SetMode(m) PROVE Goal
  <2>1. IF ctl.enabled THEN ctl' = ResetController(ctl) ELSE ctl' = ctl
    BY <1>8 DEF SetFusionMode, SetMode
  <2>2. QED
    BY <1>1, <1>2, <1>4, <2>1
<1>9. ASSUME NEW x, SetHysteresis(x) \/ SetBangBangPower(x) PROVE Goal
  <2>1. \/ ctl' = ResetController(ctl)
        \/ ctl' = ctl /\ ~(ctl.enabled /\ settings.mode = "BANG_BANG")
    BY <1>9 DEF SetHysteresis, SetBangBangPower, ResetIfBangBang
  <2>2. CASE ctl' = ctl /\ ~(ctl.enabled /\ settings.mode = "BANG_BANG")
    <3>1. ~ctl.bangOn
      BY <1>1, <2>2 DEF DemandIsMet
    <3>2. DemandIsMet(ctl', settings')
      BY <2>2, <3>1 DEF DemandIsMet
    <3>3. QED
      BY <1>3, <2>2, <3>2
  <2>3. QED
    BY <1>2, <2>1, <2>2
<1>10. ASSUME NEW on, SetEnabled(on) PROVE Goal
  BY <1>2, <1>10 DEF SetEnabled
<1>11. ASSUME NEW selected, NEW p \in Powers, SetManualPower(selected, p) PROVE Goal
  <2> DEFINE u == [settings EXCEPT !.manual = ManualSetpoints(selected, p)]
  <2>1. u \in Settings /\ u.mode = settings.mode /\ u.bangPower = settings.bangPower
    BY <1>1, SetpointsCanBeStored DEF Settings
  <2>2. settings' = u /\ ~ctl.enabled
    BY <1>11 DEF SetManualPower, SaveSettings
  <2>3. PICK t \in ControlTemperatures(settings.fusion, reading), dt \in SampleGaps :
          ctl' = ThermalControlUpdate(ctl, u, reading, t, dt)
    BY <1>11 DEF SetManualPower
  <2> HIDE DEF u
  <2>4. DemandIsMet(ctl, u)
    BY <1>1, <2>1, SamePowerSameDemand
  <2>5. DemandIsMet(ctl', settings')
    BY <1>1, <2>1, <2>2, <2>3, <2>4, UpdateMeetsDemand
  <2>6. ctl'.enabled = ctl.enabled
    BY <1>1, <2>1, <2>3, UpdateIsConsistent DEF Keeps
  <2>7. StartsBelowBand
    BY <2>2, <2>6 DEF StartsBelowBand
  <2>8. QED
    BY <2>5, <2>7 DEF Goal
<1>12. ASSUME NEW u, PlateCommand(u), u.mode = settings.mode, u.bangPower = settings.bangPower
       PROVE  Goal
  <2>1. settings' = u /\ ctl' = EnforcePlateLimit(ctl, u, reading)
    BY <1>12 DEF PlateCommand, SaveSettings
  <2>2. DemandIsMet(ctl', settings') /\ (Heating(ctl') => Heating(ctl))
    BY <1>1, <1>12, <2>1, EnforceKeepsDemand
  <2>3. QED
    BY <1>3, <2>2
<1>13. CASE RegulatorCommand
  BY <1>5, <1>7, <1>8, <1>9, <1>13 DEF RegulatorCommand
<1>14. CASE HeatingCommand
  BY <1>10, <1>11, <1>14 DEF HeatingCommand
<1>15. CASE PlateLimitCommand
  <2>1. \A x : LET v == [settings EXCEPT !.limitOn = x]
                   w == [settings EXCEPT !.limit = x]
                   z == [settings EXCEPT !.plate = x]
               IN  /\ v.mode = settings.mode /\ v.bangPower = settings.bangPower
                   /\ w.mode = settings.mode /\ w.bangPower = settings.bangPower
                   /\ z.mode = settings.mode /\ z.bangPower = settings.bangPower
    BY <1>1 DEF Settings
  <2>2. QED
    BY <1>12, <1>15, <2>1 DEF PlateLimitCommand, SetPlateLimitEnabled,
       SetPlateLimit, SetPlateSensor
<1>16. QED
  BY <1>13, <1>14, <1>15

\* DInv is inductive, and every step starts to heat only below the band.
LEMMA DemandStep ==
    ASSUME AllProtected
    PROVE  DInv /\ [Next]_vars => DInv' /\ StartsBelowBand
<1> SUFFICES ASSUME DInv, [Next]_vars PROVE DInv' /\ StartsBelowBand
  OBVIOUS
<1>1. IInv'
  BY InvariantStep DEF DInv
<1>2. CASE GroundStationHeard \/ GroundStationLost \/ UNCHANGED vars
  BY <1>1, <1>2 DEF GroundStationHeard, GroundStationLost, vars, DInv, StartsBelowBand
<1>3. CASE PowerCycle
  <2>0. ctl' = BootController(settings')
    BY <1>3 DEF PowerCycle, Reboot, PowerLossDuringSave, BootFrom
  <2>1. ctl'.power = Off /\ ~ctl'.bangOn
    BY <2>0 DEF BootController, AtRest
  <2>2. ~Heating(ctl')
    BY <2>1 DEF Heating, Off
  <2>3. QED
    BY <1>1, <2>1, <2>2 DEF DInv, DemandIsMet, StartsBelowBand
<1>4. QED
  BY <1>1, <1>2, <1>3, SampleStartsBelowBand, CommandStartsNothing DEF DInv, Next

\* Under bang-bang control heating starts only below the band, where the
\* limiter protects every channel.
THEOREM HeatingStartsBelowBand ==
    ASSUME AllProtected
    PROVE  Spec => BangBangStartsBelowBand
<1>1. Init => DInv
  <2>1. Init => ~ctl.bangOn
    BY DEF Init, BootController, AtRest
  <2>2. QED
    BY <2>1, InitEstablishes DEF DInv, DemandIsMet
<1>2. DInv /\ [Next]_vars => DInv' /\ StartsBelowBand
  BY DemandStep
<1>3. StartsBelowBand =>
        [/\ ~Heating(ctl) /\ Heating(ctl')
         /\ ctl'.enabled /\ settings'.mode = "BANG_BANG"
         => \E s \in ControlSensors :
               /\ reading'[s] # NoReading
               /\ reading'[s] <= settings'.target - settings'.hyst ]_vars
  BY DEF StartsBelowBand
<1>4. QED
  BY <1>1, <1>2, <1>3, PTL DEF Spec, BangBangStartsBelowBand

-----------------------------------------------------------------------------
(* The history of the plate                                                *)

\* The plate sensor of valid settings is one that reports.
LEMMA PlateReading ==
    ASSUME NEW s \in Settings, NEW r \in Readings
    PROVE  /\ s.limitOn \in BOOLEAN /\ s.limit \in Int
           /\ r[s.plate] = NoReading \/ r[s.plate] \in Int
BY SensorAssumption, OperandAssumption DEF Settings, Sensors, Readings

\* Looking at the same plate twice changes nothing.
LEMMA ExcursionSettles ==
    ASSUME NEW e \in BOOLEAN, NEW s \in Settings, NEW r \in Readings
    PROVE  /\ PlateExcursion(e, s, r) \in BOOLEAN
           /\ PlateExcursion(PlateExcursion(e, s, r), s, r) = PlateExcursion(e, s, r)
BY PlateReading, SensorAssumption DEF PlateExcursion

\* A latch that was set during the excursion so far is set after it is
\* evaluated in an excursion.
LEMMA ExcursionTrips ==
    ASSUME NEW e \in BOOLEAN, NEW b \in BOOLEAN, NEW s \in Settings, NEW r \in Readings,
           e => b, PlateExcursion(e, s, r)
    PROVE  PlateTripped(b, s, r)
BY PlateReading, SensorAssumption DEF PlateExcursion, PlateTripped

-----------------------------------------------------------------------------
(* What the controller makes of the latch                                  *)

HasLatch(c) == "tripped" \in DOMAIN c

\* Resetting the controller keeps the latch.
LEMMA ResetKeepsLatch ==
    ASSUME NEW c
    PROVE  ResetController(c).tripped = c.tripped
BY DEF ResetController, AtRest

LEMMA LimitEvaluates ==
    ASSUME NEW c, HasLatch(c), NEW s, NEW r
    PROVE  /\ HasLatch(UpdatePlateLimit(c, s, r))
           /\ UpdatePlateLimit(c, s, r).tripped = PlateTripped(c.tripped, s, r)
BY DEF HasLatch, UpdatePlateLimit

\* Applying an output evaluates the latch once.
LEMMA ApplyEvaluates ==
    ASSUME NEW c, HasLatch(c), NEW s, NEW r, NEW demand
    PROVE  /\ HasLatch(ApplyOutput(c, s, r, demand))
           /\ ApplyOutput(c, s, r, demand).tripped = PlateTripped(c.tripped, s, r)
<1> DEFINE limited == UpdatePlateLimit(c, s, r)
           out     == Clamp(demand, 0, MaxOutput)
           written == [limited EXCEPT !.output = out]
<1>1. HasLatch(limited) /\ limited.tripped = PlateTripped(c.tripped, s, r)
  BY LimitEvaluates
<1>2. ApplyOutput(c, s, r, demand) =
        IF limited.tripped /\ PlateHeater = "ALL" THEN ResetController(limited)
        ELSE WriteLimitedPower(written, [h \in Heaters |-> out])
  BY DEF ApplyOutput
<1> HIDE DEF limited, out
<1>3. HasLatch(ResetController(limited))
  BY DEF ResetController, AtRest, HasLatch
<1>4. HasLatch(written) /\ written.tripped = limited.tripped
  BY <1>1 DEF HasLatch
<1> HIDE DEF written
<1>5. LET w == WriteLimitedPower(written, [h \in Heaters |-> out])
      IN  HasLatch(w) /\ w.tripped = written.tripped
  BY <1>4 DEF WriteLimitedPower, HasLatch
<1>6. QED
  BY <1>1, <1>2, <1>3, <1>4, <1>5, ResetKeepsLatch

\* So does enforcing the limit after a command or with a plate report.
LEMMA EnforceEvaluates ==
    ASSUME NEW c, HasLatch(c), NEW s, NEW r
    PROVE  EnforcePlateLimit(c, s, r).tripped = PlateTripped(c.tripped, s, r)
<1> DEFINE limited == UpdatePlateLimit(c, s, r)
<1>1. HasLatch(limited) /\ limited.tripped = PlateTripped(c.tripped, s, r)
  BY LimitEvaluates
<1>2. EnforcePlateLimit(c, s, r) =
        IF limited.enabled /\ limited.tripped /\ PlateHeater = "ALL"
        THEN ResetController(limited)
        ELSE [limited EXCEPT !.power = GatedPower(limited)]
  BY DEF EnforcePlateLimit
<1> HIDE DEF limited
<1>3. [limited EXCEPT !.power = GatedPower(limited)].tripped = limited.tripped
  BY <1>1 DEF HasLatch
<1>4. QED
  BY <1>1, <1>2, <1>3, ResetKeepsLatch

\* Sensors that suffice and are safe.
Evaluates(r) == ~(Cardinality(ValidControl(r)) < MinValid) /\ ControlSensorsSafe(r)

\* A sample leaves the latch alone or evaluates it, and evaluates it when the
\* control sensors suffice and are safe.
LEMMA UpdateEvaluates ==
    ASSUME NEW c, HasLatch(c), NEW s, NEW r \in Readings, NEW fusion,
           NEW t \in ControlTemperatures(fusion, r), NEW dt
    PROVE  LET d == ThermalControlUpdate(c, s, r, t, dt)
           IN  /\ HasLatch(d)
               /\ d.tripped \in {c.tripped, PlateTripped(c.tripped, s, r)}
               /\ Evaluates(r) => d.tripped = PlateTripped(c.tripped, s, r)
<1> DEFINE d == ThermalControlUpdate(c, s, r, t, dt)
           Evaluated == HasLatch(d) /\ d.tripped = PlateTripped(c.tripped, s, r)
<1>1. CASE t = NoReading \/ ~ControlSensorsSafe(r)
  <2>1. ~Evaluates(r)
    <3>1. \A x \in ValidControl(r) : r[x] \in Temps
      BY DEF ValidControl, Readings, Sensors
    <3>2. t \in Temps \/ Cardinality(ValidControl(r)) < MinValid
      BY <3>1 DEF ControlTemperatures
    <3>3. NoReading \notin Temps
      BY SensorAssumption
    <3>4. QED
      BY <1>1, <3>2, <3>3 DEF Evaluates
  <2>2. d = IF c.enabled THEN ResetController(c) ELSE HeaterAllOff(c)
    BY <1>1 DEF ThermalControlUpdate
  <2>3. HasLatch(ResetController(c)) /\ HasLatch(HeaterAllOff(c))
    BY DEF ResetController, AtRest, HeaterAllOff, HasLatch
  <2>4. HeaterAllOff(c).tripped = c.tripped
    BY DEF HeaterAllOff, HasLatch
  <2>5. QED
    BY <2>1, <2>2, <2>3, <2>4, ResetKeepsLatch
<1>2. CASE ~(t = NoReading \/ ~ControlSensorsSafe(r))
  <2>1. CASE ~c.enabled
    <3> DEFINE limited == UpdatePlateLimit(c, s, r)
    <3>1. d = WriteLimitedPower(limited, s.manual)
      BY <1>2, <2>1 DEF ThermalControlUpdate
    <3>2. HasLatch(limited) /\ limited.tripped = PlateTripped(c.tripped, s, r)
      BY LimitEvaluates
    <3> HIDE DEF limited
    <3>3. /\ HasLatch(WriteLimitedPower(limited, s.manual))
          /\ WriteLimitedPower(limited, s.manual).tripped = limited.tripped
      BY <3>2 DEF WriteLimitedPower, HasLatch
    <3>4. Evaluated
      BY <3>1, <3>2, <3>3
    <3>5. QED
      BY <3>4
  <2>2. CASE c.enabled /\ s.mode = "BANG_BANG"
    <3> DEFINE on == \/ t <= c.target - s.hyst
                     \/ c.bangOn /\ t < c.target + s.hyst
               e  == [c EXCEPT !.bangOn = on]
    <3>1. d = ApplyOutput(e, s, r, IF on THEN s.bangPower ELSE 0)
      BY <1>2, <2>2 DEF ThermalControlUpdate, BangBangUpdate
    <3> HIDE DEF on
    <3>2. HasLatch(e) /\ e.tripped = c.tripped
      BY DEF HasLatch
    <3> HIDE DEF e
    <3>3. Evaluated
      BY <3>1, <3>2, ApplyEvaluates
    <3>4. QED
      BY <3>3
  <2>3. CASE c.enabled /\ s.mode # "BANG_BANG" /\ ~c.initialized
    <3> DEFINE e == [c EXCEPT !.prev = t, !.initialized = TRUE]
    <3>1. d = ApplyOutput(e, s, r, s.gains.kp * (c.target - t))
      BY <1>2, <2>3 DEF ThermalControlUpdate, PidFirstSample
    <3>2. HasLatch(e) /\ e.tripped = c.tripped
      BY DEF HasLatch
    <3> HIDE DEF e
    <3>3. Evaluated
      BY <3>1, <3>2, ApplyEvaluates
    <3>4. QED
      BY <3>3
  <2>4. CASE c.enabled /\ s.mode # "BANG_BANG" /\ c.initialized
    <3>1. PICK integral, demand :
            d = [ApplyOutput([c EXCEPT !.integral = integral], s, r, demand)
                   EXCEPT !.prev = t]
      BY <1>2, <2>4 DEF ThermalControlUpdate, PidUpdate
    <3> DEFINE e == [c EXCEPT !.integral = integral]
               a == ApplyOutput(e, s, r, demand)
    <3>2. HasLatch(e) /\ e.tripped = c.tripped
      BY DEF HasLatch
    <3> HIDE DEF e
    <3>3. HasLatch(a) /\ a.tripped = PlateTripped(c.tripped, s, r)
      BY <3>2, ApplyEvaluates
    <3>4. d = [a EXCEPT !.prev = t]
      BY <3>1 DEF e
    <3> HIDE DEF a
    <3>5. Evaluated
      BY <3>3, <3>4 DEF HasLatch
    <3>6. QED
      BY <3>5
  <2>5. QED
    BY <2>1, <2>2, <2>3, <2>4
<1>3. QED
  BY <1>1, <1>2

-----------------------------------------------------------------------------
(* The inductive invariant                                                 *)

\* The history has been brought up to date with the plate, and the latch is
\* set in an excursion that the limiter saw.
Followed ==
    /\ excursion \in BOOLEAN
    /\ excursion = PlateExcursion(excursion, settings, reading)
    /\ excursion /\ ~restarted /\ ~unseen => ctl.tripped

HInv == IInv /\ Followed

\* Settings that agree on the limiter judge the plate alike.
SamePlate(s, u) == u.limitOn = s.limitOn /\ u.limit = s.limit /\ u.plate = s.plate

LEMMA SamePlateSameExcursion ==
    ASSUME NEW e, NEW s, NEW u, NEW r, SamePlate(s, u)
    PROVE  PlateExcursion(e, u, r) = PlateExcursion(e, s, r)
BY DEF SamePlate, PlateExcursion

\* The latch of a step that evaluates it, or that changes neither the latch
\* nor what the plate is judged by.
LatchFollows ==
    \/ ctl'.tripped = PlateTripped(ctl.tripped, settings', reading')
    \/ /\ ctl'.tripped = ctl.tripped /\ reading' = reading
       /\ SamePlate(settings, settings')

\* A latch that was set during an excursion stays so when it follows.
LEMMA FollowingLatchHolds ==
    ASSUME HInv, IInv', LatchFollows, excursion => ctl.tripped,
           PlateExcursion(excursion, settings', reading')
    PROVE  ctl'.tripped
<1>1. /\ ctl.tripped \in BOOLEAN /\ excursion \in BOOLEAN
      /\ settings' \in Settings /\ reading' \in Readings
  BY DEF HInv, Followed, IInv, Consistent, WellFormed, ControllerStates
<1>2. CASE ctl'.tripped = PlateTripped(ctl.tripped, settings', reading')
  BY <1>1, <1>2, ExcursionTrips
<1>3. CASE /\ ctl'.tripped = ctl.tripped /\ reading' = reading
           /\ SamePlate(settings, settings')
  BY <1>3, SamePlateSameExcursion DEF HInv, Followed
<1>4. QED
  BY <1>2, <1>3 DEF LatchFollows

\* A sample that does not skip the limiter sets the latch in an excursion.
LEMMA SampleFollows ==
    ASSUME HInv, Sample, ~LimiterSkipped(reading'), excursion => ctl.tripped,
           PlateExcursion(excursion, settings', reading')
    PROVE  ctl'.tripped
<1>1. PICK r \in Readings : \E t \in ControlTemperatures(settings.fusion, r), dt \in SampleGaps :
        LET updated == ThermalControlUpdate(ctl, settings, r, t, dt)
        IN  /\ reading' = r
            /\ ctl' = IF connected THEN EnforcePlateLimit(updated, settings, r) ELSE updated
  BY DEF Sample
<1>2. PICK t \in ControlTemperatures(settings.fusion, r), dt \in SampleGaps :
        LET updated == ThermalControlUpdate(ctl, settings, r, t, dt)
        IN  /\ reading' = r
            /\ ctl' = IF connected THEN EnforcePlateLimit(updated, settings, r) ELSE updated
  BY <1>1
<1> DEFINE updated == ThermalControlUpdate(ctl, settings, r, t, dt)
<1>3. /\ reading' = r /\ settings' = settings
      /\ ctl' = IF connected THEN EnforcePlateLimit(updated, settings, r) ELSE updated
  BY <1>2 DEF Sample
<1>4. /\ ctl.tripped \in BOOLEAN /\ excursion \in BOOLEAN /\ HasLatch(ctl)
      /\ settings \in Settings
  BY DEF HInv, Followed, IInv, Consistent, WellFormed, ControllerStates, HasLatch
<1>5. /\ HasLatch(updated)
      /\ updated.tripped \in {ctl.tripped, PlateTripped(ctl.tripped, settings, r)}
      /\ Evaluates(r) => updated.tripped = PlateTripped(ctl.tripped, settings, r)
  BY <1>4, UpdateEvaluates
<1> HIDE DEF updated
<1>6. PlateTripped(ctl.tripped, settings, r) = TRUE
  BY <1>3, <1>4, ExcursionTrips, TripFollowsPlate
<1>7. CASE connected
  <2>1. updated.tripped \in BOOLEAN /\ (excursion => updated.tripped)
    BY <1>4, <1>5, <1>6
  <2>2. ctl'.tripped = PlateTripped(updated.tripped, settings, r)
    BY <1>3, <1>5, <1>7, EnforceEvaluates
  <2>3. QED
    BY <1>3, <1>4, <2>1, <2>2, ExcursionTrips
<1>8. CASE ~connected
  <2>1. Evaluates(r)
    BY <1>3, <1>8 DEF LimiterSkipped, Evaluates
  <2>2. QED
    BY <1>3, <1>5, <1>6, <1>8, <2>1
<1>9. QED
  BY <1>7, <1>8

\* The latch of every command follows.
LEMMA CommandFollows ==
    ASSUME HInv, RegulatorCommand \/ HeatingCommand \/ PlateLimitCommand
    PROVE  LatchFollows
<1>1. /\ ctl \in ControllerStates /\ HasLatch(ctl)
      /\ settings \in Settings /\ reading \in Readings
  BY DEF HInv, IInv, Consistent, WellFormed, ControllerStates, HasLatch
<1>2. CASE RegulatorCommand
  <2>1. \A t : [ctl EXCEPT !.target = t].tripped = ctl.tripped
    BY <1>1 DEF HasLatch
  <2>2. \A c : ResetController(c).tripped = c.tripped
    BY ResetKeepsLatch
  <2>3. ASSUME NEW t, SetTarget(t) PROVE ctl'.tripped = ctl.tripped
    <3> DEFINE c == [ctl EXCEPT !.target = t]
    <3>1. ctl' = IF ctl.enabled /\ settings.mode = "BANG_BANG"
                 THEN ResetController(c) ELSE c
      BY <2>3 DEF SetTarget
    <3>2. c.tripped = ctl.tripped
      BY <2>1
    <3> HIDE DEF c
    <3>3. QED
      BY <3>1, <3>2, <2>2
  <2>4. ctl'.tripped = ctl.tripped
    BY <1>2, <2>2, <2>3 DEF RegulatorCommand, SetPid,
       SetFusionMode, SetMode, SetHysteresis, SetBangBangPower, ResetIfBangBang
  <2>5. SamePlate(settings, settings') /\ reading' = reading
    BY <1>1, <1>2 DEF RegulatorCommand, SetTarget, SetPid, SetFusionMode, SetMode,
       SetHysteresis, SetBangBangPower, SaveSettings, SamePlate, Settings
  <2>6. QED
    BY <2>4, <2>5 DEF LatchFollows
<1>3. ASSUME NEW on \in BOOLEAN, SetEnabled(on) PROVE LatchFollows
  <2>1. [ctl EXCEPT !.enabled = on].tripped = ctl.tripped
    BY <1>1 DEF HasLatch
  <2>2. ctl'.tripped = ctl.tripped
    BY <1>3, <2>1, ResetKeepsLatch DEF SetEnabled
  <2>3. SamePlate(settings, settings') /\ reading' = reading
    BY <1>1, <1>3 DEF SetEnabled, SaveSettings, SamePlate, Settings
  <2>4. QED
    BY <2>2, <2>3 DEF LatchFollows
<1>4. ASSUME NEW selected, NEW p, SetManualPower(selected, p) PROVE LatchFollows
  <2> DEFINE u == [settings EXCEPT !.manual = ManualSetpoints(selected, p)]
  <2>1. SamePlate(settings, u)
    BY <1>1 DEF SamePlate, Settings
  <2>2. settings' = u /\ reading' = reading
    BY <1>4 DEF SetManualPower, SaveSettings
  <2>3. PICK t \in ControlTemperatures(settings.fusion, reading), dt \in SampleGaps :
          ctl' = ThermalControlUpdate(ctl, u, reading, t, dt)
    BY <1>4 DEF SetManualPower
  <2> HIDE DEF u
  <2>4. ctl'.tripped \in {ctl.tripped, PlateTripped(ctl.tripped, u, reading)}
    BY <1>1, <2>3, UpdateEvaluates
  <2>5. QED
    BY <2>1, <2>2, <2>4 DEF LatchFollows
<1>5. CASE PlateLimitCommand
  <2>1. PICK u : PlateCommand(u)
    BY <1>5 DEF PlateLimitCommand, SetPlateLimitEnabled, SetPlateLimit, SetPlateSensor
  <2>2. ctl' = EnforcePlateLimit(ctl, u, reading) /\ settings' = u /\ reading' = reading
    BY <2>1 DEF PlateCommand, SaveSettings
  <2>3. QED
    BY <1>1, <2>2, EnforceEvaluates DEF LatchFollows
<1>6. QED
  BY <1>2, <1>3, <1>4, <1>5 DEF HeatingCommand

LEMMA HistoryInitEstablishes == HistoryInit => HInv
<1> SUFFICES ASSUME HistoryInit PROVE HInv
  OBVIOUS
<1>1. IInv
  BY InitEstablishes DEF HistoryInit
<1>2. excursion = FALSE /\ reading[settings.plate] = NoReading
  BY <1>1 DEF HistoryInit, Init, NoReadings, IInv, Settings, Sensors
<1>3. PlateExcursion(FALSE, settings, reading) = FALSE
  BY <1>2 DEF PlateExcursion
<1>4. QED
  BY <1>1, <1>2, <1>3 DEF HInv, Followed

\* HInv is inductive.
LEMMA HistoryStep == HInv /\ [HistoryNext]_historyVars => HInv'
<1> SUFFICES ASSUME HInv, [HistoryNext]_historyVars PROVE HInv'
  OBVIOUS
<1>1. CASE UNCHANGED historyVars
  BY <1>1 DEF historyVars, HInv, IInv, Followed
<1>2. CASE HistoryNext
  <2>1. IInv'
    BY <1>2, InvariantStep DEF HInv, HistoryNext
  <2>2. excursion \in BOOLEAN /\ settings' \in Settings /\ reading' \in Readings
    BY <2>1 DEF HInv, Followed, IInv
  <2>3. excursion' = PlateExcursion(excursion, settings', reading')
    BY <1>2 DEF HistoryNext
  <2>4. /\ excursion' \in BOOLEAN
        /\ excursion' = PlateExcursion(excursion', settings', reading')
    BY <2>2, <2>3, ExcursionSettles
  <2>5. ASSUME excursion', ~restarted', ~unseen' PROVE ctl'.tripped
    <3>1. ~restarted /\ ~PowerCycle /\ ~unseen /\ ~LimiterSkipped(reading')
      BY <1>2, <2>5 DEF HistoryNext
    <3>2. /\ excursion => ctl.tripped
          /\ PlateExcursion(excursion, settings', reading')
      BY <2>3, <2>5, <3>1 DEF HInv, Followed
    <3>3. CASE Sample
      BY <3>1, <3>2, <3>3, SampleFollows
    <3>4. CASE GroundStationHeard \/ GroundStationLost
      <4>1. LatchFollows
        BY <3>4 DEF GroundStationHeard, GroundStationLost, LatchFollows, SamePlate
      <4>2. QED
        BY <2>1, <3>2, <4>1, FollowingLatchHolds
    <3>5. CASE RegulatorCommand \/ HeatingCommand \/ PlateLimitCommand
      BY <2>1, <3>2, <3>5, CommandFollows, FollowingLatchHolds
    <3>6. QED
      BY <1>2, <3>1, <3>3, <3>4, <3>5 DEF HistoryNext, Next
  <2>6. QED
    BY <2>1, <2>4, <2>5 DEF HInv, Followed
<1>3. QED
  BY <1>1, <1>2

-----------------------------------------------------------------------------
(* The theorem                                                             *)

\* Once the plate reached the limit, the protected heaters are off until it
\* is cool, unless a restart or samples that skip the limiter (bad control
\* sensors and no ground station) hid the excursion from the latch.
THEOREM PlateStaysInhibited == HistorySpec => []InhibitedWhileLatched
<1>1. HInv => InhibitedWhileLatched
  BY DEF HInv, Followed, IInv, Consistent, PlateHolds, InhibitedWhileLatched, ProtectedOff
<1>2. QED
  BY <1>1, HistoryInitEstablishes, HistoryStep, PTL DEF HistorySpec
=============================================================================
