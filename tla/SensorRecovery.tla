--------------------------- MODULE SensorRecovery ---------------------------
(***************************************************************************)
(* How the drivers of the temperature, pressure, humidity and inertial     *)
(* sensors (max31865.cpp, wsen_pads.cpp, wsen_hids.cpp, wsen_isds.cpp)     *)
(* lose a device and find it again.  The devices do not share state, so    *)
(* one of them, of any kind, is modelled.                                  *)
(*                                                                         *)
(* An update of a driver is a sequence of bus transactions that stops at   *)
(* the first one that fails; the parameter "end" names where it stops.     *)
(***************************************************************************)
EXTENDS Naturals

CONSTANTS
  Kinds,              \* the kinds of device, of "max", "pads", "hids", "isds"
  MaxErrors,          \* the error counter is followed up to this value
  RetryPeriod         \* samples between two initialisations of the ISDS

ASSUME SensorAssumption ==
  /\ Kinds \subseteq {"max", "pads", "hids", "isds"} /\ Kinds # {}
  /\ MaxErrors \in Nat \ {0}
  /\ RetryPeriod \in Nat \ {0}

VARIABLES
  kind,      \* the kind of the device, chosen once
  driver,    \* the state the driver keeps
  device,    \* external: "absent", "unconfigured" or "running"
  settled    \* external: nothing fails or goes away any more

vars == <<kind, driver, device, settled>>

-----------------------------------------------------------------------------
(* The driver.                                                             *)

Fresh == [initialized |-> FALSE, valid |-> FALSE, errors |-> 0,
          faultActive |-> FALSE, sinceInit |-> 0]

\* A MAX31865 counts one error for a whole fault episode.
CountError(d) ==
  [d EXCEPT !.errors = IF d.faultActive \/ @ = MaxErrors THEN @ ELSE @ + 1,
            !.faultActive = (kind = "max")]

\* Mutant of Initialised: set before the last register is written.
InitialisedEarly(d, ok) ==
  LET e == [d EXCEPT !.initialized = TRUE, !.valid = FALSE, !.sinceInit = 0]
  IN  IF ok THEN e ELSE CountError(e)

Initialised(d, ok) ==
  LET e == [d EXCEPT !.initialized = ok, !.valid = FALSE, !.sinceInit = 0]
  IN  IF ok THEN e ELSE CountError(e)

\* The points at which an update of an initialised driver may stop.
Stages ==
  [max  |-> {"fault", "measured"},
   pads |-> {"status", "not ready", "data", "measured"},
   hids |-> {"command", "read", "crc", "measured"},
   isds |-> {"status", "not ready", "data", "measured"}]

\* Those after which the driver takes the device for lost.
Loses ==
  [max |-> {}, pads |-> {"status", "data"}, hids |-> {"read"},
   isds |-> {"status", "data"}]

\* Mutant of Measured: an error leaves the last measurement valid.
MeasuredKeepsValid(d, end) ==
  IF end = "measured" THEN [d EXCEPT !.valid = TRUE, !.faultActive = FALSE]
  ELSE IF end = "not ready" THEN d
  ELSE CountError([d EXCEPT !.initialized = @ /\ end \notin Loses[kind]])

Measured(d, end) ==
  LET e == [d EXCEPT !.valid = FALSE]
  IN  CASE end = "measured" ->
             [e EXCEPT !.valid = TRUE, !.faultActive = FALSE]
        [] end = "not ready" -> e
        [] OTHER -> CountError([e EXCEPT !.initialized =
                                             @ /\ end \notin Loses[kind]])

\* Mutant of Attempt: no retry after a failed initialisation.
AttemptAtBootOnly == FALSE

\* Only the ISDS, which is sampled every 10 ms, waits between attempts.
Attempt ==
  /\ ~driver.initialized
  /\ kind = "isds" => driver.sinceInit >= RetryPeriod

Aged(d) ==
  [d EXCEPT !.sinceInit = IF @ = RetryPeriod THEN @ ELSE @ + 1]

\* telemetry.cpp
HealthState ==
  IF ~driver.initialized THEN "FAULT"
  ELSE IF driver.valid THEN "OK"
  ELSE IF driver.errors = 0 THEN "WAITING" ELSE "FAULT"

-----------------------------------------------------------------------------
(* What the device and the bus may do.                                     *)

NeedsConfiguration == kind \in {"pads", "isds"}

Delivers(dev) == dev = "running" \/ (dev = "unconfigured" /\ ~NeedsConfiguration)

BusMayFail == ~settled \/ device = "absent"

\* The MAX31865 is on an SPI bus, which acknowledges nothing: its
\* initialisation may succeed without a device, and its fault register then
\* reads as a fault (assumption: the open bus reads as ones).
Initialises(dev) == dev # "absent" \/ kind = "max"

\* What an initialisation leaves behind: a failed one may have got as far as
\* the software reset of the device.
AfterInit(ok) ==
  IF ok /\ device # "absent" THEN {"running"}
  ELSE {device} \cup (IF device # "absent" /\ NeedsConfiguration
                      THEN {"unconfigured"} ELSE {})

Possible(end, dev) ==
  CASE end = "measured"  -> Delivers(dev)
    [] end = "not ready" -> dev # "absent"
    [] OTHER             -> BusMayFail

-----------------------------------------------------------------------------

Init ==
  /\ kind \in Kinds
  /\ settled = FALSE
  /\ \E ok \in BOOLEAN, dev \in {"absent", "unconfigured"} :
       /\ ok => Initialises(dev)
       /\ driver = Initialised(Fresh, ok)
       /\ device = IF ok /\ dev # "absent" THEN "running" ELSE dev

\* A reset of the board runs the initialisation of the driver once.
Boot(ok) ==
  /\ ~settled
  /\ ok => Initialises(device)
  /\ ~ok => BusMayFail
  /\ driver' = Initialised(Fresh, ok)
  /\ device' \in AfterInit(ok)
  /\ UNCHANGED <<kind, settled>>

\* The ISDS is not there and its next attempt is not due.
SampleWaits ==
  /\ ~driver.initialized /\ ~Attempt
  /\ driver' = Aged([driver EXCEPT !.valid = FALSE])
  /\ UNCHANGED <<kind, device, settled>>

SampleInitFails ==
  /\ Attempt /\ BusMayFail
  /\ driver' = Initialised(driver, FALSE)
  /\ device' \in AfterInit(FALSE)
  /\ UNCHANGED <<kind, settled>>

\* An update of a lost device initialises it and goes on in the same call.
Sample(end) ==
  /\ driver.initialized \/ (Attempt /\ Initialises(device))
  /\ end \in Stages[kind]
  /\ LET dev == IF Attempt /\ device # "absent" THEN "running" ELSE device
         d   == IF Attempt THEN Initialised(driver, TRUE) ELSE Aged(driver)
     IN  /\ Possible(end, dev)
         /\ driver' = Measured(d, end)
         /\ device' = dev
  /\ UNCHANGED <<kind, settled>>

Update == SampleWaits \/ SampleInitFails
          \/ \E end \in Stages[kind] : Sample(end)

(* The device leaves the bus, comes back without configuration, or restarts *)
(* so quickly that no transaction fails.                                   *)
Unplug ==
  /\ ~settled /\ device # "absent"
  /\ device' = "absent"
  /\ UNCHANGED <<kind, driver, settled>>

Restart ==
  /\ ~settled /\ device # "unconfigured"
  /\ device' = "unconfigured"
  /\ UNCHANGED <<kind, driver, settled>>

Settle ==
  /\ ~settled
  /\ settled' = TRUE
  /\ UNCHANGED <<kind, driver, device>>

Next ==
  \/ \E ok \in BOOLEAN : Boot(ok)
  \/ Update
  \/ Unplug \/ Restart \/ Settle

Spec == Init /\ [][Next]_vars

\* The loop samples every device when it is due, and a device that is running
\* has new data at some of those times.
FairSpec == Spec /\ WF_vars(Update) /\ SF_vars(Sample("measured"))

-----------------------------------------------------------------------------
(* Properties.                                                             *)

\* The driver believes in a configuration that the device does not have.  Its
\* status register then says "not ready" for ever, which is not an error
\* (wsen_pads.cpp:257, wsen_isds.cpp:343), and nothing initialises it again.
Misled ==
  driver.initialized /\ NeedsConfiguration /\ device = "unconfigured"

\* Only a restart of the device that no transaction notices misleads the
\* driver: a driver never takes a half-configured device for initialised.
OnlyARestartMisleads ==
  [][driver' # driver /\ Misled' => Misled]_vars

\* A device that is there from some time on is measured again, after any
\* sequence of failed transactions, failed initialisations and resets, unless
\* an unnoticed restart has misled its driver.
RecoversByItself ==
  (settled /\ device # "absent" /\ ~Misled) ~> driver.valid

\* A device that is gone for good is reported as FAULT and as nothing else,
\* although the HIDS driver goes on taking it for initialised.
DeadSensorBecomesFault ==
  (settled /\ device = "absent") ~> [](HealthState = "FAULT")

=============================================================================
