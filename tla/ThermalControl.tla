--------------------------- MODULE ThermalControl ---------------------------
(***************************************************************************)
(* The heater controller of the Primary board: the PID / bang-bang         *)
(* regulator, the heating-plate limiter, the manual setpoints, the heater  *)
(* outputs and the settings kept in EEPROM (src/src/thermal_control.cpp,   *)
(* src/src/heater.cpp), with the callers that drive them: the 1 Hz sample  *)
(* of src/src/main.cpp, the command handlers of src/src/commands.cpp and   *)
(* the plate report of src/src/telemetry.cpp, which re-evaluates the       *)
(* limiter whenever the ground station is connected.                       *)
(*                                                                         *)
(* Every handler runs to completion on the single-threaded loop, so each   *)
(* is one action.  A handler that makes several calls in sequence is the   *)
(* composition of the functions below, each from a controller record to a  *)
(* controller record.                                                      *)
(***************************************************************************)
EXTENDS Integers, FiniteSets

CONSTANTS
    Heaters,          \* the heater channels
    HeaterEnabled,    \* the channels config.h enables
    HeaterMax,        \* power limit of each channel, in percent
    PlateHeater,      \* HEATING_PLATE_HEATER: "ALL" or one channel
    ControlSensors,   \* THERMAL_CONTROL_SENSORS
    MinValid,         \* THERMAL_MIN_VALID_SENSORS
    PlateSensors,     \* the two selectable plate sensors
    Temps,            \* temperatures a sensor can report
    NoReading,        \* an invalid or missing sample, and a NAN history
    Cutoff,           \* THERMAL_MAX_TEMPERATURE_K
    PlateHysteresis,  \* HEATING_PLATE_LIMIT_HYSTERESIS_K
    MaxOutput,        \* THERMAL_MAX_OUTPUT_PERCENT
    SampleGaps,       \* seconds between two samples of the regulator
    Modes, FusionModes, Targets, GainSets, Hystereses, Powers, Limits,
                      \* the operands commands may carry
    MaxStored,        \* bound of the setpoints EEPROM may hold; a cut-off
                      \* one may exceed every limit
    StoredTargets,    \* the targets EEPROM may hold: these are not validated
    OutOfRange,       \* a stored value that a validation rejects
    Defaults,         \* settings of a blank EEPROM
    Blank,            \* the EEPROM contents before the first start
    Found,            \* what other versions of the firmware may have stored
    TornSaves         \* may power fail inside a save?

Sensors == ControlSensors \cup PlateSensors

Readings == [Sensors -> Temps \cup {NoReading}]

Off == [h \in Heaters |-> 0]

Settings ==
    [ enabled   : BOOLEAN,
      target    : StoredTargets,
      manual    : [Heaters -> 0 .. MaxStored],
      gains     : GainSets,
      mode      : Modes,
      hyst      : Hystereses,
      bangPower : Powers,
      fusion    : FusionModes,
      limitOn   : BOOLEAN,
      limit     : Limits,
      plate     : PlateSensors ]

ASSUME SensorAssumption ==
    /\ IsFiniteSet(ControlSensors) /\ PlateSensors # {}
    /\ MinValid \in 1 .. Cardinality(ControlSensors)
    /\ Temps \subseteq Int /\ NoReading \notin Int
    /\ Cutoff \in Int /\ PlateHysteresis \in Nat \ {0}

ASSUME HeaterAssumption ==
    /\ MaxOutput \in Nat
    /\ HeaterEnabled \subseteq Heaters
    /\ HeaterMax \in [Heaters -> 0 .. MaxOutput]
    /\ PlateHeater \in Heaters \cup {"ALL"} /\ "ALL" \notin Heaters

ASSUME OperandAssumption ==
    /\ Modes \subseteq {"PID", "BANG_BANG"}
    /\ FusionModes \subseteq {"MEAN", "MEDIAN", "MINIMUM", "MAXIMUM"}
    /\ Targets \subseteq {t \in Int : t < Cutoff}
    /\ GainSets \subseteq [kp : Nat, ki : Nat, kd : Nat]
    /\ Hystereses \subseteq Nat \ {0}
    /\ Powers \subseteq 0 .. MaxOutput
    /\ Limits \subseteq Int
    /\ MaxStored \in Nat /\ MaxOutput <= MaxStored
    /\ Targets \subseteq StoredTargets /\ StoredTargets \subseteq Int
    /\ OutOfRange \notin GainSets /\ OutOfRange \notin Hystereses \cup Powers \cup Limits
    /\ SampleGaps \subseteq Nat \ {0}
    /\ TornSaves \in BOOLEAN

ASSUME DefaultsAssumption ==
    /\ Defaults \in Settings /\ Blank \notin Settings \cup Found
    /\ Defaults.manual = Off

\* What all versions stored.  A torn save of theirs may have left any target
\* and any setpoint, which are never validated.
ASSUME FoundAssumption ==
    \A stored \in Found :
        /\ stored.enabled \in BOOLEAN /\ stored.limitOn \in BOOLEAN
        /\ stored.target \in StoredTargets
        /\ stored.manual \in [Heaters -> 0 .. MaxStored]

VARIABLES
    ctl,        \* ControllerState and the heater outputs (RAM)
    settings,   \* PersistentSettings, the RAM copy
    eeprom,     \* PersistentSettings, the stored copy
    reading,    \* what each sensor reported in the last measurement cycle
    connected   \* ethernet_link_connected()

vars == <<ctl, settings, eeprom, reading, connected>>

-----------------------------------------------------------------------------
(* Sensors                                                                 *)

ValidControl(r) == {s \in ControlSensors : r[s] # NoReading}

ControlSensorsSafe(r) == \A s \in ValidControl(r) : r[s] < Cutoff

\* The fused temperatures get_control_temperature may return.  MEAN and
\* MEDIAN lie between the extremes of the valid readings; where exactly does
\* not matter here, so every value between them is allowed.
ControlTemperatures(fusion, r) ==
    LET valid == {r[s] : s \in ValidControl(r)}
        AtLeastOne(t) == \E v \in valid : v <= t
        AtMostOne(t)  == \E v \in valid : t <= v
    IN  IF Cardinality(ValidControl(r)) < MinValid THEN {NoReading}
        ELSE CASE fusion = "MINIMUM" -> {t \in valid : \A v \in valid : t <= v}
               [] fusion = "MAXIMUM" -> {t \in valid : \A v \in valid : v <= t}
               [] OTHER -> {t \in Temps : AtLeastOne(t) /\ AtMostOne(t)}

-----------------------------------------------------------------------------
(* Heater outputs and the plate limiter                                    *)

Clamp(x, low, high) == IF x < low THEN low ELSE IF x > high THEN high ELSE x

PlateSelected(h) == PlateHeater = "ALL" \/ h = PlateHeater

OutputsKept(c) == c  \* mutant of HeaterAllOff
HeaterAllOff(c) == [c EXCEPT !.power = Off]

\* No history and every output off.
AtRest(enabled, target, tripped) ==
    [ enabled |-> enabled, target |-> target, tripped |-> tripped,
      bangOn |-> FALSE, integral |-> 0, prev |-> NoReading,
      initialized |-> FALSE, output |-> 0, power |-> Off ]

BootController(s) == AtRest(s.enabled, s.target, FALSE)

\* Mutants of ResetController.
ResetKeepsOutputs(c)  == [AtRest(c.enabled, c.target, c.tripped) EXCEPT !.power = c.power]
ResetKeepsDemand(c)   == [AtRest(c.enabled, c.target, c.tripped) EXCEPT !.bangOn = c.bangOn]
ResetForgetsLatch(c)  == AtRest(c.enabled, c.target, FALSE)

\* "Keep target and enabled state, but discard the PID history."
ResetController(c) == AtRest(c.enabled, c.target, c.tripped)

\* Mutants of PlateTripped.
PlateTrippedNoHysteresis(tripped, s, r) ==
    s.limitOn /\ (r[s.plate] = NoReading \/ r[s.plate] >= s.limit)
PlateTrippedForGood(tripped, s, r) ==
    s.limitOn /\ (tripped \/ r[s.plate] = NoReading \/ r[s.plate] >= s.limit)

PlateTripped(tripped, s, r) ==
    /\ s.limitOn
    /\ \/ r[s.plate] = NoReading
       \/ IF tripped THEN r[s.plate] > s.limit - PlateHysteresis
                     ELSE r[s.plate] >= s.limit

UpdatePlateLimit(c, s, r) == [c EXCEPT !.tripped = PlateTripped(@, s, r)]

\* heater_set_power: a disabled channel keeps what it had.
LimitedPower(c, demand) ==
    [h \in Heaters |->
        IF h \notin HeaterEnabled THEN c.power[h]
        ELSE IF c.tripped /\ PlateSelected(h) THEN 0
        ELSE Clamp(demand[h], 0, HeaterMax[h])]

WriteLimitedPower(c, demand) == [c EXCEPT !.power = LimitedPower(c, demand)]

\* Mutant of ApplyOutput.
ApplyOutputKeepsHistory(c, s, r, demand) ==
    LET limited == UpdatePlateLimit(c, s, r)
        out     == Clamp(demand, 0, MaxOutput)
    IN  WriteLimitedPower([limited EXCEPT !.output = out], [h \in Heaters |-> out])

ApplyOutput(c, s, r, demand) ==
    LET limited == UpdatePlateLimit(c, s, r)
        out     == Clamp(demand, 0, MaxOutput)
    IN  IF limited.tripped /\ PlateHeater = "ALL" THEN ResetController(limited)
        ELSE WriteLimitedPower([limited EXCEPT !.output = out],
                               [h \in Heaters |-> out])

GatedPower(c) ==
    [h \in Heaters |->
        IF c.tripped /\ PlateSelected(h) /\ h \in HeaterEnabled
        THEN 0 ELSE c.power[h]]

EnforcePlateLimit(c, s, r) ==
    LET limited == UpdatePlateLimit(c, s, r)
    IN  IF limited.enabled /\ limited.tripped /\ PlateHeater = "ALL"
        THEN ResetController(limited)
        ELSE [limited EXCEPT !.power = GatedPower(limited)]

-----------------------------------------------------------------------------
(* The regulators                                                          *)

BangBangUpdate(c, s, r, t) ==
    LET on == \/ t <= c.target - s.hyst
              \/ c.bangOn /\ t < c.target + s.hyst
    IN  ApplyOutput([c EXCEPT !.bangOn = on], s, r, IF on THEN s.bangPower ELSE 0)

PidFirstSample(c, s, r, t) ==
    ApplyOutput([c EXCEPT !.prev = t, !.initialized = TRUE], s, r,
                s.gains.kp * (c.target - t))

\* The history is written after the output, also when apply_output has just
\* reset the controller.  dt > 0: samples are at least a second apart.
PidUpdate(c, s, r, t, dt) ==
    LET error     == c.target - t
        pTerm     == s.gains.kp * error
        dTerm     == -(s.gains.kd * ((t - c.prev) \div dt))
        candidate == Clamp(c.integral + s.gains.ki * error * dt, -MaxOutput, MaxOutput)
        demand    == pTerm + candidate + dTerm
        windsUp   == \/ demand > MaxOutput /\ error > 0
                     \/ demand < 0 /\ error < 0
        integral  == IF windsUp THEN c.integral ELSE candidate
    IN  [ApplyOutput([c EXCEPT !.integral = integral], s, r, pTerm + integral + dTerm)
            EXCEPT !.prev = t]

ThermalControlUpdate(c, s, r, t, dt) ==
    IF t = NoReading \/ ~ControlSensorsSafe(r)
    THEN IF c.enabled THEN ResetController(c) ELSE HeaterAllOff(c)
    ELSE IF ~c.enabled THEN WriteLimitedPower(UpdatePlateLimit(c, s, r), s.manual)
    ELSE IF s.mode = "BANG_BANG" THEN BangBangUpdate(c, s, r, t)
    ELSE IF ~c.initialized THEN PidFirstSample(c, s, r, t)
    ELSE PidUpdate(c, s, r, t, dt)

-----------------------------------------------------------------------------
(* Start-up                                                                *)

SettingsVersion == 6

\* Version 1 had no version field, where anything may be found, and 7 is one
\* to come.
Versions == 1 .. SettingsVersion + 1

\* Mutant of ValidBangBang: only the mode is looked at.
ValidMode(stored) == stored.mode \in Modes

ValidBangBang(stored) ==
    stored.mode \in Modes /\ stored.hyst \in Hystereses /\ stored.bangPower \in Powers

\* Settings that were appended by a later version, or that are out of range,
\* get their defaults, group by group.
Migrated(stored, version) ==
    LET gains  == version \in 2 .. SettingsVersion /\ stored.gains \in GainSets
        bang   == version # 2 /\ ValidBangBang(stored)
        fusion == version >= 4 /\ stored.fusion \in FusionModes
        limit  == version \in 5 .. SettingsVersion /\ stored.limit \in Limits
        plate  == limit /\ version >= 6 /\ stored.plate \in PlateSensors
        Pick(kept, field) == IF kept THEN stored[field] ELSE Defaults[field]
    IN  [ enabled   |-> stored.enabled,
          target    |-> stored.target,
          manual    |-> stored.manual,
          gains     |-> Pick(gains, "gains"),
          mode      |-> Pick(bang, "mode"),
          hyst      |-> Pick(bang, "hyst"),
          bangPower |-> Pick(bang, "bangPower"),
          fusion    |-> Pick(fusion, "fusion"),
          limitOn   |-> Pick(limit, "limitOn"),
          limit     |-> Pick(limit, "limit"),
          plate     |-> Pick(plate, "plate") ]

LoadSettings(stored, version) ==
    IF stored = Blank THEN Defaults ELSE Migrated(stored, version)

NoReadings == [s \in Sensors |-> NoReading]

Init ==
    /\ \E stored \in Found \cup {Blank}, version \in Versions :
          settings = LoadSettings(stored, version)
    /\ eeprom = settings
    /\ ctl = BootController(settings)
    /\ reading = NoReadings
    /\ connected = FALSE

BootFrom(stored) ==
    /\ settings' = LoadSettings(stored, SettingsVersion)
    /\ eeprom' = settings'
    /\ ctl' = BootController(settings')
    /\ reading' = NoReadings
    /\ connected' = FALSE

Reboot == BootFrom(eeprom)

-----------------------------------------------------------------------------
(* The 1 Hz sample, and the ground-station link                            *)

Sample ==
    /\ \E r \in Readings : \E t \in ControlTemperatures(settings.fusion, r), dt \in SampleGaps :
          LET updated == ThermalControlUpdate(ctl, settings, r, t, dt)
          IN  /\ reading' = r
              /\ ctl' = IF connected THEN EnforcePlateLimit(updated, settings, r)
                                     ELSE updated
    /\ UNCHANGED <<settings, eeprom, connected>>

GroundStationHeard ==
    /\ ~connected
    /\ connected' = TRUE
    /\ UNCHANGED <<ctl, settings, eeprom, reading>>

GroundStationLost ==
    /\ connected
    /\ connected' = FALSE
    /\ UNCHANGED <<ctl, settings, eeprom, reading>>

-----------------------------------------------------------------------------
(* Commands.  They arrive over the link, so the station is connected.      *)

\* Mutant of SaveSettings.
SaveInRamOnly(s) ==
    connected /\ settings' = s /\ UNCHANGED <<eeprom, reading, connected>>

SaveSettings(s) ==
    /\ connected
    /\ settings' = s
    /\ eeprom' = s
    /\ UNCHANGED <<reading, connected>>

SetTarget(t) ==
    LET retargeted == [ctl EXCEPT !.target = t]
    IN  /\ SaveSettings([settings EXCEPT !.target = t])
        /\ ctl' = IF ctl.enabled /\ settings.mode = "BANG_BANG"
                  THEN ResetController(retargeted) ELSE retargeted

SetPid(g) ==
    /\ SaveSettings([settings EXCEPT !.gains = g])
    /\ ctl' = IF ctl.enabled /\ settings.mode = "PID" THEN ResetController(ctl) ELSE ctl

SetEnabled(on) ==
    /\ ctl.enabled # on
    /\ SaveSettings([settings EXCEPT !.enabled = on, !.manual = Off])
    /\ ctl' = ResetController([ctl EXCEPT !.enabled = on])

\* The command addresses ALL channels or one enabled channel.
ManualTargets == {Heaters} \cup {{h} : h \in HeaterEnabled}

ManualSetpoints(selected, p) ==
    [h \in Heaters |->
        IF h \notin selected THEN settings.manual[h]
        ELSE IF h \in HeaterEnabled THEN Clamp(p, 0, HeaterMax[h]) ELSE 0]

SetManualPower(selected, p) ==
    LET requested == [settings EXCEPT !.manual = ManualSetpoints(selected, p)]
    IN  /\ ~ctl.enabled
        /\ SaveSettings(requested)
        /\ \E t \in ControlTemperatures(settings.fusion, reading), dt \in SampleGaps :
              ctl' = ThermalControlUpdate(ctl, requested, reading, t, dt)

\* Mutant of PlateCommand.
PlateCommandUnenforced(s) == SaveSettings(s) /\ UNCHANGED ctl

\* The three plate commands enforce the limit with the new settings; the
\* report each handler then sends enforces it again, to no further effect.
PlateCommand(s) ==
    /\ SaveSettings(s)
    /\ ctl' = EnforcePlateLimit(ctl, s, reading)

SetPlateLimitEnabled(on) == PlateCommand([settings EXCEPT !.limitOn = on])

SetPlateLimit(k) == PlateCommand([settings EXCEPT !.limit = k])

SetPlateSensor(s) == PlateCommand([settings EXCEPT !.plate = s])

SetFusionMode(m) ==
    /\ settings.fusion # m
    /\ SaveSettings([settings EXCEPT !.fusion = m])
    /\ ctl' = IF ctl.enabled THEN ResetController(ctl) ELSE ctl

SetMode(m) ==
    /\ settings.mode # m
    /\ SaveSettings([settings EXCEPT !.mode = m])
    /\ ctl' = IF ctl.enabled THEN ResetController(ctl) ELSE ctl

ResetIfBangBang ==
    ctl' = IF ctl.enabled /\ settings.mode = "BANG_BANG" THEN ResetController(ctl) ELSE ctl

SetHysteresis(k) ==
    /\ settings.hyst # k
    /\ SaveSettings([settings EXCEPT !.hyst = k])
    /\ ResetIfBangBang

SetBangBangPower(p) ==
    /\ settings.bangPower # p
    /\ SaveSettings([settings EXCEPT !.bangPower = p])
    /\ ResetIfBangBang

-----------------------------------------------------------------------------
(* Power failing inside a save.  EEPROM.put writes the record byte by byte, *)
(* in the order of its fields and the low-order bytes of a float first: the *)
(* fields before the cut are new, those after it old, and the float at the  *)
(* cut has new low-order bytes under old high-order ones, so that 30 % over *)
(* 45 % may read as 120 %.  The heaters may be cut in any order here.       *)

\* Over a setpoint cut off while it goes to zero, some bytes of the old one.
CutOff(old, new) == IF new = 0 THEN 0 .. old ELSE 0 .. MaxStored

TornSetpoints(requested) ==
    {stored \in [Heaters -> 0 .. MaxStored] : \E cut \in Heaters :
        /\ stored[cut] \in CutOff(settings.manual[cut], requested[cut])
        /\ \A h \in Heaters \ {cut} : stored[h] \in {settings.manual[h], requested[h]}}

\* A field that is validated at start-up may hold anything its validation
\* accepts, or what it rejects.
PowerLossDuringSave ==
    /\ TornSaves
    /\ connected
    /\ \/ \E m \in TornSetpoints(Off) :
             BootFrom([settings EXCEPT !.enabled = ~ctl.enabled, !.manual = m])
       \/ /\ ~ctl.enabled
          /\ \E selected \in ManualTargets, p \in Powers :
             \E m \in TornSetpoints(ManualSetpoints(selected, p)) :
                BootFrom([settings EXCEPT !.manual = m])
       \/ \E t \in StoredTargets : BootFrom([settings EXCEPT !.target = t])
       \/ \E g \in GainSets \cup {OutOfRange} : BootFrom([settings EXCEPT !.gains = g])
       \/ \E k \in Hystereses \cup {OutOfRange} : BootFrom([settings EXCEPT !.hyst = k])
       \/ \E p \in Powers \cup {OutOfRange} : BootFrom([settings EXCEPT !.bangPower = p])
       \/ \E k \in Limits \cup {OutOfRange} : BootFrom([settings EXCEPT !.limit = k])

PowerCycle == Reboot \/ PowerLossDuringSave

-----------------------------------------------------------------------------
RegulatorCommand ==
    \/ \E t \in Targets : SetTarget(t)
    \/ \E g \in GainSets : SetPid(g)
    \/ \E m \in FusionModes : SetFusionMode(m)
    \/ \E m \in Modes : SetMode(m)
    \/ \E k \in Hystereses : SetHysteresis(k)
    \/ \E p \in Powers : SetBangBangPower(p)

HeatingCommand ==
    \/ \E on \in BOOLEAN : SetEnabled(on)
    \/ \E selected \in ManualTargets, p \in Powers : SetManualPower(selected, p)

PlateLimitCommand ==
    \/ \E on \in BOOLEAN : SetPlateLimitEnabled(on)
    \/ \E k \in Limits : SetPlateLimit(k)
    \/ \E s \in PlateSensors : SetPlateSensor(s)

Next ==
    \/ Sample
    \/ GroundStationHeard \/ GroundStationLost
    \/ RegulatorCommand \/ HeatingCommand \/ PlateLimitCommand
    \/ PowerCycle

Spec == Init /\ [][Next]_vars

\* The cooperative loop calls update_max31865 on every pass, and the sample
\* period keeps coming due.
FairSpec == Spec /\ WF_vars(Sample)

-----------------------------------------------------------------------------
(* Properties                                                              *)

ControllerStates ==
    [ enabled : BOOLEAN, target : StoredTargets, tripped : BOOLEAN, bangOn : BOOLEAN,
      integral : -MaxOutput .. MaxOutput, prev : Temps \cup {NoReading},
      initialized : BOOLEAN, output : 0 .. MaxOutput,
      power : [Heaters -> 0 .. MaxOutput] ]

\* Type invariant of the controller, its settings and its inputs.
TypeOK ==
    /\ ctl \in ControllerStates
    /\ settings \in Settings
    /\ eeprom \in Settings
    /\ reading \in Readings
    /\ connected \in BOOLEAN

Heating(c) == \E h \in Heaters : c.power[h] > 0

\* "The cutoff always wins": no heater is powered, in any mode and after any
\* sequence of commands, unless enough control sensors were valid in the
\* last cycle and every one of them was below the cutoff.
HeatingOnlyWhenSafe ==
    Heating(ctl) =>
        /\ Cardinality(ValidControl(reading)) >= MinValid
        /\ ControlSensorsSafe(reading)

\* With the limiter on, the heaters it protects are off as long as the
\* selected plate sensor is invalid or at the limit, whichever command or
\* sample came last; and a latched trip keeps them off.
PlateLimiterHolds ==
    \A h \in Heaters :
        /\ PlateSelected(h)
        /\ \/ ctl.tripped
           \/ settings.limitOn /\ \/ reading[settings.plate] = NoReading
                                  \/ reading[settings.plate] >= settings.limit
        => ctl.power[h] = 0

\* While automatic control is inhibited on every channel no integral, no
\* bang-bang demand and no output survives, so nothing is released at once
\* when the plate cools down.
NoWindupWhileInhibited ==
    ctl.enabled /\ ctl.tripped /\ PlateHeater = "ALL" =>
        /\ ctl.integral = 0 /\ ~ctl.bangOn /\ ~ctl.initialized
        /\ ctl.output = 0

\* Each powered channel runs at what the controller or the operator set,
\* within the channel's maximum: the reported output in automatic control,
\* the stored setpoint in manual, also one that no command requested but a
\* torn save left behind.
PowerIsAccountedFor ==
    \A h \in Heaters :
        ctl.power[h] > 0 =>
            ctl.power[h] = Clamp(IF ctl.enabled THEN ctl.output ELSE settings.manual[h],
                                 0, HeaterMax[h])

\* A crash or reset between any two handlers loses no accepted setting: the
\* EEPROM, the RAM copy and the controller agree.
SettingsDurable ==
    /\ eeprom = settings
    /\ ctl.enabled = settings.enabled
    /\ ctl.target = settings.target

\* A latched limiter is released only by a plate at least the hysteresis
\* below the limit, by switching the limiter off, or by a power cycle.
TripReleasedOnlyWhenCool ==
    [][ ctl.tripped /\ ~ctl'.tripped /\ ~PowerCycle =>
          \/ ~settings'.limitOn
          \/ /\ reading'[settings'.plate] # NoReading
             /\ reading'[settings'.plate] <= settings'.limit - PlateHysteresis ]_vars

\* In bang-bang control heating starts only below the band: after a mode
\* change, a reset, a sensor drop-out or a trip of a limiter of all channels
\* the regulator is off inside the band.
BangBangStartsBelowBand ==
    [][ /\ ~Heating(ctl) /\ Heating(ctl')
        /\ ctl'.enabled /\ settings'.mode = "BANG_BANG"
        => \E s \in ControlSensors :
              /\ reading'[s] # NoReading
              /\ reading'[s] <= settings'.target - settings'.hyst ]_vars

ManualAllowed(h) ==
    /\ ~ctl.enabled
    /\ Cardinality(ValidControl(reading)) >= MinValid
    /\ ControlSensorsSafe(reading)
    /\ PlateSelected(h) /\ settings.limitOn =>
          /\ reading[settings.plate] # NoReading
          /\ reading[settings.plate] <= settings.limit - PlateHysteresis

\* "Manual requested setpoints are retained and restored when the gate and
\* sensor safety allow it": once they allow it for good, the heater settles
\* on the stored setpoint, limited to the channel's maximum.
ManualSetpointRestored ==
    \A h \in HeaterEnabled :
        <>[]ManualAllowed(h) => <>[](ctl.power[h] = Clamp(settings.manual[h], 0, HeaterMax[h]))
=============================================================================
