------------------------ MODULE DownlinkQueues_proofs ------------------------
(***************************************************************************)
(* Proofs about DownlinkQueues, for any sensors, queues and thresholds:    *)
(* nothing that was queued for a silent ground station reaches one that is *)
(* heard later, and a level is restored only after a calm hold time.       *)
(*                                                                         *)
(* Both rest on timers. What the link timed out on is in the queues only   *)
(* until the next update, which looks at the timeout before the socket     *)
(* (Session). The low timer runs no longer than the queue has been calm,   *)
(* as long as there is a level to restore; without a limit there is none   *)
(* (Restoring).                                                            *)
(***************************************************************************)
EXTENDS DownlinkQueues, SequenceTheorems, WellFoundedInduction, TLAPS

\* The part of the types that the timers need.
Timers ==
    /\ raw = [airdos |-> raw.airdos, level |-> raw.level,
              highFor |-> raw.highFor, lowFor |-> raw.lowFor]
    /\ raw.level \in 0 .. MaxLevel /\ raw.lowFor \in None .. RestoreHold
    /\ calm \in 0 .. RestoreHold

Session ==
    /\ known \in BOOLEAN /\ leftover \in BOOLEAN /\ silent \in 0 .. Timeout + 1
    /\ leftover => Expired

Restoring ==
    /\ limit = 0 => raw.level = MaxLevel
    /\ raw.level < MaxLevel /\ raw.lowFor # None => raw.lowFor <= calm

-----------------------------------------------------------------------------
(* Sessions                                                                *)

LEMMA InitSession == Init => Session
  <1> SUFFICES ASSUME Init PROVE Session
    OBVIOUS
  <1>1. silent \in 0 .. Timeout + 1
    <2>1. Timeout \in Nat
      BY QueueAssumption
    <2> QED BY <2>1 DEF Init
  <1>2. known \in BOOLEAN /\ leftover \in BOOLEAN /\ ~leftover
    BY DEF Init
  <1> QED BY <1>1, <1>2 DEF Session

LEMMA TickSession == Session /\ Tick => Session'
  <1> SUFFICES ASSUME Session, Tick PROVE Session'
    OBVIOUS
  <1>1. /\ known' = known /\ silent' = Older(silent, Timeout + 1)
        /\ silent \in 0 .. Timeout + 1 /\ Timeout \in Nat
    BY QueueAssumption DEF Tick, Session
  <1>2. silent' = IF silent = Timeout + 1 THEN silent ELSE silent + 1
    BY <1>1 DEF Older, None
  <1>3. silent' \in 0 .. Timeout + 1
    BY <1>1, <1>2
  <1>4. leftover' \in BOOLEAN
    BY DEF Tick
  <1>5. ASSUME leftover' PROVE known' /\ silent' > Timeout
    <2>1. CASE leftover
      <3>1. known /\ silent > Timeout
        BY <2>1 DEF Session, Expired
      <3>2. silent' > Timeout
        BY <1>1, <1>2, <3>1
      <3> QED BY <1>1, <3>1, <3>2
    <2>2. CASE known /\ silent = Timeout
      <3>1. silent' > Timeout
        BY <1>1, <1>2, <2>2
      <3> QED BY <1>1, <2>2, <3>1
    <2> QED BY <1>5, <2>1, <2>2 DEF Tick
  <1> QED BY <1>1, <1>3, <1>4, <1>5 DEF Session, Expired

LEMMA StepSession == Session /\ [Next]_vars => Session'
  <1> SUFFICES ASSUME Session, [Next]_vars PROVE Session'
    OBVIOUS
  <1>1. ASSUME NEW heard \in BOOLEAN, NEW taken \in BOOLEAN, Update(heard, taken)
        PROVE  Session'
    <2>1. /\ known' = (heard \/ (known /\ ~Expired))
          /\ silent' = IF heard THEN 0 ELSE silent
          /\ leftover' = (leftover /\ ~Expired)
      BY <1>1 DEF Update, ResetOnTimeout
    <2>2. leftover' = FALSE
      BY <2>1 DEF Session
    <2>3. known' \in BOOLEAN
      BY <2>1
    <2>4. silent' \in 0 .. Timeout + 1
      BY <2>1, QueueAssumption DEF Session
    <2> QED BY <2>2, <2>3, <2>4 DEF Session
  <1>2. ASSUME UNCHANGED <<known, silent, leftover>> PROVE Session'
    BY <1>2 DEF Session, Expired
  <1>3. CASE \E length \in SystemLengths : SendLine(length)
    BY <1>2, <1>3 DEF SendLine
  <1>4. CASE \E key \in Keys : SendHealth(key)
    BY <1>2, <1>4 DEF SendHealth
  <1>5. CASE \E sensor \in Sensors : SendAirdosLine(sensor)
    BY <1>2, <1>5 DEF SendAirdosLine
  <1>6. CASE \E l \in Limits : SetDownlinkLimit(l)
    BY <1>2, <1>6 DEF SetDownlinkLimit
  <1>7. CASE Tick
    BY <1>7, TickSession
  <1>8. CASE UNCHANGED vars
    BY <1>2, <1>8 DEF vars
  <1> QED BY <1>1, <1>3, <1>4, <1>5, <1>6, <1>7, <1>8 DEF Next

\* What was queued for a ground station that fell silent never reaches one that
\* is heard later.
THEOREM SessionsAreSeparate == Spec => []NothingFromAnEarlierSession
  <1>1. Session => NothingFromAnEarlierSession
    <2> SUFFICES ASSUME Session, Connected, leftover PROVE FALSE
      BY DEF NothingFromAnEarlierSession
    <2>1. silent <= Timeout /\ silent > Timeout
      BY DEF Session, Expired, Connected
    <2> QED BY <2>1, QueueAssumption DEF Session
  <1> QED BY <1>1, InitSession, StepSession, PTL DEF Spec

-----------------------------------------------------------------------------
(* What the functions on the AIRDOS queue do to its level and its timers   *)

\* A record of the queue, its level and its timers.
Shaped(r) == r = [airdos |-> r.airdos, level |-> r.level, highFor |-> r.highFor,
                  lowFor |-> r.lowFor]

LEMMA ConstantTypes ==
    /\ MaxLevel \in Nat \ {0} /\ RestoreHold \in Nat \ {0}
  BY QueueAssumption

LEMMA SetLevelDoes ==
    ASSUME NEW r, Shaped(r), NEW level
    PROVE  /\ Shaped(SetLevel(r, level))
           /\ SetLevel(r, level).level = level
           /\ level = r.level => SetLevel(r, level) = r
           /\ level # r.level => SetLevel(r, level).lowFor = None
  BY DEF SetLevel, Shaped

LEMMA ReduceDoes ==
    ASSUME NEW r, Shaped(r), r.level \in 0 .. MaxLevel
    PROVE  /\ Shaped(ReduceLevel(r))
           /\ ReduceLevel(r).level = IF r.level = 0 THEN 0 ELSE r.level - 1
           /\ r.level = 0 => ReduceLevel(r) = r
           /\ r.level # 0 => ReduceLevel(r).lowFor = None
  <1>1. CASE r.level = 0
    BY <1>1 DEF ReduceLevel
  <1>2. CASE r.level # 0
    <2>1. ReduceLevel(r) = SetLevel(r, r.level - 1) /\ r.level - 1 # r.level
      BY <1>2 DEF ReduceLevel
    <2> QED BY <1>2, <2>1, SetLevelDoes
  <1> QED BY <1>1, <1>2

\* A change of one of the other fields.
LEMMA OtherFields ==
    ASSUME NEW r, Shaped(r), NEW x
    PROVE  /\ Shaped([r EXCEPT !.airdos = x])
           /\ [r EXCEPT !.airdos = x].level = r.level
           /\ [r EXCEPT !.airdos = x].lowFor = r.lowFor
           /\ Shaped([r EXCEPT !.highFor = x])
           /\ [r EXCEPT !.highFor = x].level = r.level
           /\ [r EXCEPT !.highFor = x].lowFor = r.lowFor
           /\ [r EXCEPT !.highFor = x].airdos = r.airdos
           /\ Shaped([r EXCEPT !.lowFor = x])
           /\ [r EXCEPT !.lowFor = x].level = r.level
           /\ [r EXCEPT !.lowFor = x].lowFor = x
  BY DEF Shaped

\* Exactly one field of a record differs.
Timed(w, r, high) == w = [r EXCEPT !.highFor = high]
Rested(w, r, low) == w = [r EXCEPT !.lowFor = low]
Refilled(w, r, lines) == w = [r EXCEPT !.airdos = lines]

LEMMA RefilledDoes ==
    ASSUME NEW r, Shaped(r), NEW lines, NEW w, Refilled(w, r, lines)
    PROVE  Shaped(w) /\ w.level = r.level /\ w.lowFor = r.lowFor
  BY OtherFields DEF Refilled

LEMMA TimedDoes ==
    ASSUME NEW r, Shaped(r), NEW high, NEW w, Timed(w, r, high)
    PROVE  Shaped(w) /\ w.level = r.level /\ w.lowFor = r.lowFor
  BY OtherFields DEF Timed

LEMMA RestedDoes ==
    ASSUME NEW r, Shaped(r), NEW low, NEW w, Rested(w, r, low)
    PROVE  Shaped(w) /\ w.level = r.level /\ w.lowFor = low
  BY OtherFields DEF Rested

\* A high queue never restores, and stops the low timer.
LEMMA HighDoes ==
    ASSUME NEW r, Shaped(r), r.level \in 1 .. MaxLevel
    PROVE  /\ Shaped(WhileHigh(r)) /\ WhileHigh(r).lowFor = None
           /\ WhileHigh(r).level \in {r.level, r.level - 1}
  <1>1. PICK high : Rested(high, r, None)
    BY DEF Rested
  <1>2. Shaped(high) /\ high.level = r.level /\ high.lowFor = None
    BY <1>1, RestedDoes
  <1>3. MaxLevel \in Nat /\ ReduceHold # None
    BY QueueAssumption DEF None
  <1>4. CASE r.highFor = None
    <2>1. Timed(WhileHigh(r), high, 0)
      <3>1. r.highFor # ReduceHold
        BY <1>3, <1>4
      <3> QED BY <1>1, <1>4, <3>1, Zenon DEF WhileHigh, Timed, Rested
    <2> QED BY <1>2, <2>1, TimedDoes
  <1>5. CASE r.highFor # None /\ r.highFor = ReduceHold
    <2>1. Timed(WhileHigh(r), ReduceLevel(high), 0)
      BY <1>1, <1>5, Zenon DEF WhileHigh, Timed, Rested
    <2>2. high.level \in 0 .. MaxLevel /\ high.level # 0
      BY <1>2, <1>3
    <2>3. /\ Shaped(ReduceLevel(high)) /\ ReduceLevel(high).level = r.level - 1
          /\ ReduceLevel(high).lowFor = None
      BY <1>2, <2>2, ReduceDoes
    <2> QED BY <2>1, <2>3, TimedDoes
  <1>6. CASE r.highFor # None /\ r.highFor # ReduceHold
    <2>1. WhileHigh(r) = high
      BY <1>1, <1>6, Zenon DEF WhileHigh, Rested
    <2> QED BY <1>2, <2>1
  <1> QED BY <1>4, <1>5, <1>6

\* A queue that is not high restores a level only when the low timer of a low
\* queue ends.
LEMMA NotHighDoes ==
    ASSUME NEW r, Shaped(r), r.level \in 0 .. MaxLevel
    PROVE  /\ Shaped(WhileNotHigh(r))
           /\ \/ WhileNotHigh(r).level = r.level /\ WhileNotHigh(r).lowFor = None
              \/ /\ QueueLow(r.airdos) /\ r.level < MaxLevel
                 /\ WhileNotHigh(r).level = r.level
                 /\ WhileNotHigh(r).lowFor \in {0, r.lowFor}
              \/ /\ QueueLow(r.airdos) /\ r.level < MaxLevel /\ r.lowFor = RestoreHold
                 /\ WhileNotHigh(r).level = r.level + 1 /\ WhileNotHigh(r).lowFor = 0
  <1> DEFINE low == QueueLow(r.airdos)
  <1>1. PICK eased : Timed(eased, r, None)
    BY DEF Timed
  <1>2. Shaped(eased) /\ eased.level = r.level /\ eased.lowFor = r.lowFor
    BY <1>1, TimedDoes
  <1>3. MaxLevel \in Nat /\ RestoreHold # None
    BY QueueAssumption DEF None
  <1>4. CASE ~low \/ r.level = MaxLevel
    <2>1. Rested(WhileNotHigh(r), eased, None)
      <3>1. ~(low /\ r.level < MaxLevel)
        BY <1>3, <1>4
      <3> QED BY <1>1, <1>4, <3>1, Zenon DEF WhileNotHigh, Timed, Rested
    <2> QED BY <1>2, <2>1, RestedDoes
  <1>5. CASE low /\ r.level # MaxLevel
    <2>1. r.level < MaxLevel
      BY <1>3, <1>5
    <2>2. CASE r.lowFor = None
      <3>1. Rested(WhileNotHigh(r), eased, 0)
        <4>1. r.lowFor # RestoreHold
          BY <1>3, <2>2
        <4> QED BY <1>1, <1>5, <2>1, <2>2, <4>1, Zenon DEF WhileNotHigh, Timed, Rested
      <3> QED BY <1>2, <1>5, <2>1, <3>1, RestedDoes
    <2>3. CASE r.lowFor = RestoreHold
      <3>1. Rested(WhileNotHigh(r), SetLevel(eased, r.level + 1), 0)
        <4>1. r.lowFor # None
          BY <1>3, <2>3
        <4> QED BY <1>1, <1>5, <2>1, <2>3, <4>1, Zenon DEF WhileNotHigh, Timed, Rested
      <3>2. /\ Shaped(SetLevel(eased, r.level + 1))
            /\ SetLevel(eased, r.level + 1).level = r.level + 1
        BY <1>2, SetLevelDoes
      <3> QED BY <1>5, <2>1, <2>3, <3>1, <3>2, RestedDoes
    <2>4. CASE r.lowFor # None /\ r.lowFor # RestoreHold
      <3>1. WhileNotHigh(r) = eased
        BY <1>1, <1>5, <2>1, <2>4, Zenon DEF WhileNotHigh, Timed
      <3> QED BY <1>2, <1>5, <2>1, <3>1
    <2> QED BY <2>2, <2>3, <2>4
  <1> QED BY <1>4, <1>5

\* Dropping and sending lines leaves the level and the timers alone.
LEMMA FlushDoes ==
    ASSUME NEW h, NEW sys, NEW r, Shaped(r), NEW reports, NEW taken,
           FlushTelemetry(h, sys, r, reports, taken)
    PROVE  Shaped(raw') /\ raw'.level = r.level /\ raw'.lowFor = r.lowFor
  <1>1. PICK front \in {SelectedFront(r)} :
           IF taken /\ Due(h, sys, front.airdos) THEN SendMixedPacket(h, sys, front, reports)
           ELSE health' = h /\ system' = sys /\ raw' = front /\ untold' = reports
    BY DEF FlushTelemetry
  <1>2. Shaped(front) /\ front.level = r.level /\ front.lowFor = r.lowFor
    <2>1. PICK lines : Refilled(front, r, lines)
      BY DEF SelectedFront, Refilled
    <2> QED BY <2>1, RefilledDoes
  <1>3. CASE SendMixedPacket(h, sys, front, reports)
    <2>1. PICK lines : Refilled(raw', front, lines)
      BY <1>3 DEF SendMixedPacket, Refilled
    <2>2. Shaped(raw') /\ raw'.level = front.level /\ raw'.lowFor = front.lowFor
      BY <1>2, <2>1, RefilledDoes
    <2> QED BY <1>2, <2>2
  <1>4. CASE raw' = front
    BY <1>2, <1>4
  <1> QED BY <1>1, <1>3, <1>4

LEMMA LevelDoes ==
    ASSUME NEW r, Shaped(r), r.level \in 0 .. MaxLevel, r.lowFor \in None .. RestoreHold,
           limit = 0 => r.level = MaxLevel
    PROVE  /\ Shaped(UpdateLevel(r))
           /\ UpdateLevel(r).level \in 0 .. MaxLevel
           /\ UpdateLevel(r).lowFor \in None .. RestoreHold
           /\ limit = 0 => UpdateLevel(r).level = MaxLevel
           /\ UpdateLevel(r).level > r.level =>
                 r.level < MaxLevel /\ r.lowFor = RestoreHold
           /\ UpdateLevel(r).level < MaxLevel /\ UpdateLevel(r).lowFor # None =>
                 \/ UpdateLevel(r).lowFor = 0
                 \/ /\ UpdateLevel(r).lowFor = r.lowFor /\ UpdateLevel(r).level = r.level
                    /\ QueueLow(r.airdos)
  <1>1. MaxLevel \in Nat /\ RestoreHold \in Nat /\ None = -1
    BY QueueAssumption DEF None
  <1>2. CASE limit = 0
    <2>1. UpdateLevel(r) = r
      BY <1>2, SetLevelDoes DEF UpdateLevel
    <2> QED BY <1>1, <1>2, <2>1
  <1>3. CASE limit # 0 /\ QueueHigh(r.airdos) /\ r.level > 0
    <2>1. UpdateLevel(r) = WhileHigh(r)
      BY <1>3, Zenon DEF UpdateLevel
    <2>2. r.level \in 1 .. MaxLevel
      BY <1>1, <1>3
    <2>3. /\ Shaped(WhileHigh(r)) /\ WhileHigh(r).lowFor = None
          /\ WhileHigh(r).level \in {r.level, r.level - 1}
      BY <2>2, HighDoes
    <2> QED BY <1>1, <1>3, <2>1, <2>2, <2>3
  <1>4. CASE limit # 0 /\ ~(QueueHigh(r.airdos) /\ r.level > 0)
    <2>1. UpdateLevel(r) = WhileNotHigh(r)
      BY <1>4, Zenon DEF UpdateLevel
    <2> QED BY <1>1, <1>4, <2>1, NotHighDoes
  <1> QED BY <1>2, <1>3, <1>4

-----------------------------------------------------------------------------
(* Levels                                                                  *)

Levels == Timers /\ Restoring

RestoredCalmly == raw'.level > raw.level /\ limit' = limit /\ limit # 0 => calm = RestoreHold

LEMMA InitLevels == Init => Levels
  <1> SUFFICES ASSUME Init PROVE Levels
    OBVIOUS
  <1>1. MaxLevel \in Nat /\ RestoreHold \in Nat /\ None = -1
    BY QueueAssumption DEF None
  <1>2. raw.level = MaxLevel /\ raw.lowFor = None /\ calm = 0
    BY DEF Init
  <1>3. raw = [airdos |-> raw.airdos, level |-> raw.level, highFor |-> raw.highFor,
               lowFor |-> raw.lowFor]
    BY DEF Init
  <1> QED BY <1>1, <1>2, <1>3 DEF Levels, Timers, Restoring

\* An update restores a level only at the end of a calm hold time.
LEMMA UpdateLevels ==
    ASSUME Levels, NEW heard, NEW taken, Update(heard, taken)
    PROVE  Levels' /\ RestoredCalmly
  <1>1. /\ MaxLevel \in Nat /\ RestoreHold \in Nat /\ None = -1
        /\ raw.level \in 0 .. MaxLevel /\ raw.lowFor \in None .. RestoreHold
        /\ calm \in 0 .. RestoreHold
    BY QueueAssumption DEF None, Levels, Timers
  <1>2. PICK r : /\ Shaped(r) /\ r.level = raw.level /\ r.lowFor = raw.lowFor
                 /\ Expired \/ r.airdos = raw.airdos
                 /\ \/ \E h, sys, reports :
                          FlushTelemetry(h, sys, UpdateLevel(r), reports, taken)
                    \/ raw' = UpdateLevel(r)
    <2>1. PICK reset \in {Expired} :
             \E h \in {IF reset THEN Empty ELSE health},
                sys \in {IF reset THEN <<>> ELSE system},
                r \in {UpdateLevel(IF reset THEN [raw EXCEPT !.airdos = <<>>] ELSE raw)},
                reports \in {IF reset THEN {} ELSE untold} :
                   \/ FlushTelemetry(h, sys, r, reports, taken)
                   \/ raw' = r
      BY DEF Update, ResetOnTimeout
    <2>2. PICK r : r = IF reset THEN [raw EXCEPT !.airdos = <<>>] ELSE raw
      OBVIOUS
    <2>3. /\ Shaped(r) /\ r.level = raw.level /\ r.lowFor = raw.lowFor
          /\ Expired \/ r.airdos = raw.airdos
      <3>1. Shaped(raw)
        BY DEF Levels, Timers, Shaped
      <3>2. CASE reset
        <4>1. PICK none : r = [raw EXCEPT !.airdos = none]
          BY <2>2, <3>2
        <4> QED BY <2>1, <3>1, <3>2, <4>1, OtherFields
      <3>3. CASE ~reset
        BY <2>2, <3>1, <3>3
      <3> QED BY <3>2, <3>3
    <2>4. \/ \E h, sys, reports : FlushTelemetry(h, sys, UpdateLevel(r), reports, taken)
          \/ raw' = UpdateLevel(r)
      BY <2>1, <2>2, Zenon
    <2> QED BY <2>3, <2>4
  <1>3. limit = 0 => r.level = MaxLevel
    BY <1>2 DEF Levels, Restoring
  <1>4. /\ Shaped(UpdateLevel(r))
        /\ UpdateLevel(r).level \in 0 .. MaxLevel
        /\ UpdateLevel(r).lowFor \in None .. RestoreHold
        /\ limit = 0 => UpdateLevel(r).level = MaxLevel
        /\ UpdateLevel(r).level > raw.level => raw.level < MaxLevel /\ raw.lowFor = RestoreHold
        /\ UpdateLevel(r).level < MaxLevel /\ UpdateLevel(r).lowFor # None =>
              \/ UpdateLevel(r).lowFor = 0
              \/ /\ UpdateLevel(r).lowFor = raw.lowFor /\ UpdateLevel(r).level = raw.level
                 /\ QueueLow(r.airdos)
    BY <1>1, <1>2, <1>3, LevelDoes
  <1>5. /\ Shaped(raw') /\ raw'.level = UpdateLevel(r).level
        /\ raw'.lowFor = UpdateLevel(r).lowFor
    BY <1>2, <1>4, FlushDoes
  <1>6. /\ calm' = IF (~Expired /\ ~QueueLow(raw.airdos)) \/ raw'.level # raw.level
                   THEN 0 ELSE calm
        /\ limit' = limit
    BY DEF Update
  <1>7. calm' \in 0 .. RestoreHold
    BY <1>1, <1>6
  <1>8. Timers'
    BY <1>4, <1>5, <1>7 DEF Timers, Shaped
  <1>9. raw.level < MaxLevel /\ raw.lowFor # None => raw.lowFor <= calm
    BY DEF Levels, Restoring
  <1>10. Restoring'
    <2>1. limit' = 0 => raw'.level = MaxLevel
      BY <1>4, <1>5, <1>6
    <2>2. ASSUME raw'.level < MaxLevel, raw'.lowFor # None PROVE raw'.lowFor <= calm'
      <3>1. CASE raw'.lowFor = 0
        BY <1>1, <1>7, <3>1
      <3>2. CASE /\ raw'.lowFor = raw.lowFor /\ raw'.level = raw.level
                 /\ QueueLow(r.airdos)
        <4>1. calm' = calm
          BY <1>2, <1>6, <3>2
        <4> QED BY <1>9, <2>2, <3>2, <4>1
      <3> QED BY <1>4, <1>5, <2>2, <3>1, <3>2
    <2> QED BY <2>1, <2>2 DEF Restoring, None
  <1>11. RestoredCalmly
    <2> SUFFICES ASSUME raw'.level > raw.level PROVE calm = RestoreHold
      BY DEF RestoredCalmly
    <2>1. raw.level < MaxLevel /\ raw.lowFor = RestoreHold
      BY <1>4, <1>5
    <2> QED BY <1>1, <1>9, <2>1
  <1> QED BY <1>8, <1>10, <1>11 DEF Levels

\* A line taken or refused leaves the level or gives one up.
LEMMA LineLevels ==
    ASSUME Levels, NEW r, Shaped(r), raw' = r, limit' = limit,
           calm' = IF raw'.level # raw.level THEN 0 ELSE calm,
           \/ r.level = raw.level /\ r.lowFor = raw.lowFor
           \/ limit # 0 /\ raw.level > 0 /\ r.level = raw.level - 1 /\ r.lowFor = None
    PROVE  Levels' /\ RestoredCalmly
  <1>1. /\ MaxLevel \in Nat /\ RestoreHold \in Nat /\ None = -1
        /\ raw.level \in 0 .. MaxLevel /\ raw.lowFor \in None .. RestoreHold
        /\ calm \in 0 .. RestoreHold
    BY QueueAssumption DEF None, Levels, Timers
  <1>2. /\ r.level \in 0 .. MaxLevel /\ r.lowFor \in None .. RestoreHold
        /\ ~(r.level > raw.level) /\ calm' \in 0 .. RestoreHold
    BY <1>1
  <1>3. Timers'
    BY <1>2 DEF Timers, Shaped
  <1>4. Restoring'
    <2>1. CASE r.level = raw.level /\ r.lowFor = raw.lowFor
      BY <2>1 DEF Levels, Restoring, None
    <2>2. CASE limit # 0 /\ r.lowFor = None
      BY <2>2 DEF Restoring, None
    <2> QED BY <2>1, <2>2
  <1> QED BY <1>2, <1>3, <1>4 DEF Levels, RestoredCalmly

LEMMA ReducedLine ==
    ASSUME Levels, NEW r, r = IF limit = 0 THEN raw ELSE ReduceLevel(raw)
    PROVE  /\ Shaped(r)
           /\ \/ r.level = raw.level /\ r.lowFor = raw.lowFor
              \/ limit # 0 /\ raw.level > 0 /\ r.level = raw.level - 1 /\ r.lowFor = None
  <1>1. Shaped(raw) /\ raw.level \in 0 .. MaxLevel /\ MaxLevel \in Nat
    BY QueueAssumption DEF Levels, Timers, Shaped
  <1>2. CASE limit = 0
    BY <1>1, <1>2
  <1>3. CASE limit # 0
    <2>1. r = ReduceLevel(raw)
      BY <1>3
    <2>2. CASE raw.level = 0
      BY <1>1, <2>1, <2>2, ReduceDoes
    <2>3. CASE raw.level # 0
      BY <1>1, <1>3, <2>1, <2>3, ReduceDoes
    <2> QED BY <2>2, <2>3
  <1> QED BY <1>2, <1>3

LEMMA SendLineLevels ==
    ASSUME Levels, NEW length, SendLine(length)
    PROVE  Levels' /\ RestoredCalmly
  <1>1. Shaped(raw)
    BY DEF Levels, Timers, Shaped
  <1>2. limit' = limit /\ calm' = IF raw'.level # raw.level THEN 0 ELSE calm
    BY DEF SendLine, KeepCalm
  <1>3. CASE raw' = raw
    BY <1>1, <1>2, <1>3, LineLevels
  <1>4. CASE Refuse
    <2>1. PICK r : r = IF limit = 0 THEN raw ELSE ReduceLevel(raw)
      OBVIOUS
    <2>2. raw' = r
      BY <1>4, <2>1 DEF Refuse
    <2> QED BY <1>2, <2>1, <2>2, ReducedLine, LineLevels
  <1> QED BY <1>3, <1>4 DEF SendLine

LEMMA SendAirdosLevels ==
    ASSUME Levels, NEW sensor, SendAirdosLine(sensor)
    PROVE  Levels' /\ RestoredCalmly
  <1>1. Shaped(raw)
    BY DEF Levels, Timers, Shaped
  <1>2. limit' = limit /\ calm' = IF raw'.level # raw.level THEN 0 ELSE calm
    BY DEF SendAirdosLine, KeepCalm
  <1>3. PICK r, lines :
           /\ r = raw \/ r = IF limit = 0 THEN raw ELSE ReduceLevel(raw)
           /\ raw' = r \/ raw' = [r EXCEPT !.airdos = lines]
    BY Zenon DEF SendAirdosLine
  <1>4. /\ Shaped(r)
        /\ \/ r.level = raw.level /\ r.lowFor = raw.lowFor
           \/ limit # 0 /\ raw.level > 0 /\ r.level = raw.level - 1 /\ r.lowFor = None
    BY <1>1, <1>3, ReducedLine
  <1>5. PICK u : /\ raw' = u /\ Shaped(u)
                 /\ u.level = r.level /\ u.lowFor = r.lowFor
    <2>1. CASE raw' = r
      BY <1>4, <2>1
    <2>2. CASE raw' = [r EXCEPT !.airdos = lines]
      <3>1. PICK u : u = [r EXCEPT !.airdos = lines]
        OBVIOUS
      <3>2. Shaped(u) /\ u.level = r.level /\ u.lowFor = r.lowFor
        BY <1>4, <3>1, OtherFields
      <3> QED BY <2>2, <3>1, <3>2
    <2> QED BY <1>3, <2>1, <2>2
  <1> QED BY <1>2, <1>4, <1>5, LineLevels

\* A new limit starts at the full level.
LEMMA LimitLevels ==
    ASSUME Levels, NEW l, SetDownlinkLimit(l)
    PROVE  Levels' /\ RestoredCalmly
  <1>1. /\ MaxLevel \in Nat /\ RestoreHold \in Nat /\ None = -1
        /\ raw.level \in 0 .. MaxLevel /\ raw.lowFor \in None .. RestoreHold
        /\ calm \in 0 .. RestoreHold /\ Shaped(raw)
    BY QueueAssumption DEF None, Levels, Timers, Shaped
  <1>2. /\ limit' # limit /\ raw' = SetLevel(raw, MaxLevel)
        /\ calm' = IF raw'.level # raw.level THEN 0 ELSE calm
    BY DEF SetDownlinkLimit, KeepCalm
  <1>3. /\ Shaped(raw') /\ raw'.level = MaxLevel
        /\ raw'.lowFor \in {None, raw.lowFor}
    BY <1>1, <1>2, SetLevelDoes
  <1>4. calm' \in 0 .. RestoreHold
    BY <1>1, <1>2
  <1>5. Timers'
    BY <1>1, <1>3, <1>4 DEF Timers, Shaped
  <1>6. Restoring'
    BY <1>1, <1>3 DEF Restoring
  <1> QED BY <1>2, <1>5, <1>6 DEF Levels, RestoredCalmly

\* The timers and the history of calm run alike.
LEMMA TickLevels ==
    ASSUME Levels, Tick
    PROVE  Levels' /\ RestoredCalmly
  <1>1. /\ MaxLevel \in Nat /\ RestoreHold \in Nat /\ None = -1
        /\ raw.level \in 0 .. MaxLevel /\ raw.lowFor \in None .. RestoreHold
        /\ calm \in 0 .. RestoreHold
    BY QueueAssumption DEF None, Levels, Timers
  <1>2. /\ raw'.level = raw.level /\ raw'.lowFor = Older(raw.lowFor, RestoreHold)
        /\ raw' = [airdos |-> raw'.airdos, level |-> raw'.level,
                   highFor |-> raw'.highFor, lowFor |-> raw'.lowFor]
    <2>1. PICK lines, high, low :
             /\ low = Older(raw.lowFor, RestoreHold)
             /\ raw' = [raw EXCEPT !.airdos = lines, !.highFor = high, !.lowFor = low]
      BY DEF Tick
    <2> QED BY <2>1 DEF Levels, Timers
  <1>3. calm' = Older(calm, RestoreHold) /\ limit' = limit
    BY DEF Tick
  <1>4. calm' = IF calm = RestoreHold THEN calm ELSE calm + 1
    BY <1>1, <1>3 DEF Older
  <1>5. raw'.lowFor = IF raw.lowFor = -1 \/ raw.lowFor = RestoreHold
                      THEN raw.lowFor ELSE raw.lowFor + 1
    BY <1>1, <1>2 DEF Older
  <1>6. calm' \in 0 .. RestoreHold /\ raw'.lowFor \in None .. RestoreHold
    BY <1>1, <1>4, <1>5
  <1>7. Timers'
    BY <1>1, <1>2, <1>6 DEF Timers
  <1>8. Restoring'
    <2>1. limit' = 0 => raw'.level = MaxLevel
      BY <1>2, <1>3 DEF Levels, Restoring
    <2>2. ASSUME raw'.level < MaxLevel, raw'.lowFor # -1 PROVE raw'.lowFor <= calm'
      <3>1. raw.lowFor # -1
        BY <1>5, <2>2
      <3>2. raw.lowFor <= calm
        BY <1>1, <1>2, <2>2, <3>1 DEF Levels, Restoring
      <3> QED BY <1>1, <1>4, <1>5, <3>1, <3>2
    <2> QED BY <2>1, <2>2 DEF Restoring, None
  <1>9. RestoredCalmly
    BY <1>1, <1>2 DEF RestoredCalmly
  <1> QED BY <1>7, <1>8, <1>9 DEF Levels

LEMMA StepLevels == Levels /\ [Next]_vars => Levels' /\ [RestoredCalmly]_vars
  <1> SUFFICES ASSUME Levels, [Next]_vars PROVE Levels' /\ [RestoredCalmly]_vars
    OBVIOUS
  <1>1. ASSUME NEW heard \in BOOLEAN, NEW taken \in BOOLEAN, Update(heard, taken)
        PROVE  Levels' /\ RestoredCalmly
    BY <1>1, UpdateLevels
  <1>2. ASSUME NEW length \in SystemLengths, SendLine(length) PROVE Levels' /\ RestoredCalmly
    BY <1>2, SendLineLevels
  <1>3. ASSUME NEW key \in Keys, SendHealth(key) PROVE Levels' /\ RestoredCalmly
    <2>1. UNCHANGED <<raw, limit, calm>>
      BY <1>3 DEF SendHealth
    <2>2. raw.level \in Int
      BY DEF Levels, Timers
    <2> QED BY <2>1, <2>2 DEF Levels, Timers, Restoring, RestoredCalmly
  <1>4. ASSUME NEW sensor \in Sensors, SendAirdosLine(sensor)
        PROVE  Levels' /\ RestoredCalmly
    BY <1>4, SendAirdosLevels
  <1>5. ASSUME NEW l \in Limits, SetDownlinkLimit(l) PROVE Levels' /\ RestoredCalmly
    BY <1>5, LimitLevels
  <1>6. CASE Tick
    BY <1>6, TickLevels
  <1>7. CASE UNCHANGED vars
    BY <1>7 DEF vars, Levels, Timers, Restoring
  <1> QED BY <1>1, <1>2, <1>3, <1>4, <1>5, <1>6, <1>7 DEF Next

\* An unchanged limit restores a level only after the queue was low at every
\* update of a whole hold time without another change of level.
THEOREM LevelsRestoreCalmly == Spec => RestoredOnlyWhenCalm
  <1>1. Levels /\ [Next]_vars =>
           [raw'.level > raw.level /\ limit' = limit /\ limit # 0 => calm = RestoreHold]_vars
    BY StepLevels DEF RestoredCalmly
  <1>2. Spec => []Levels
    BY InitLevels, StepLevels, PTL DEF Spec
  <1> QED BY <1>1, <1>2, PTL DEF Spec, RestoredOnlyWhenCalm
-----------------------------------------------------------------------------
(* Recursion over a sequence                                               *)

\* The natural numbers are well-founded.
LEMMA LeastNumber ==
  ASSUME NEW T, T \subseteq Nat, T # {}
  PROVE  \E x \in T : \A y \in T : ~(y < x)
<1>1. PICK R : R = OpToRel(<, Nat)
  OBVIOUS
<1>2. IsWellFoundedOn(R, Nat)
  BY <1>1, NatLessThanWellFounded, Zenon
<1>3. PICK x \in T : \A y \in T : ~(<<y, x>> \in R)
  BY <1>2, WFMin
<1>4. \A a, b \in Nat : a < b => <<a, b>> \in R
  BY <1>1 DEF OpToRel
<1>5. QED
  BY <1>3, <1>4

LEMMA Induction ==
  ASSUME NEW S, 0 \in S, \A n \in Nat : n \in S => n + 1 \in S
  PROVE  Nat \subseteq S
<1> DEFINE T == Nat \ S
<1>1. SUFFICES ASSUME T # {} PROVE FALSE
  OBVIOUS
<1>2. PICK x \in T : \A y \in T : ~(y < x)
  BY <1>1, LeastNumber
<1>3. x # 0 /\ x \in Nat
  OBVIOUS
<1>4. x - 1 \in Nat /\ x - 1 < x /\ (x - 1) + 1 = x
  BY <1>3
<1>5. x - 1 \in S
  BY <1>2, <1>4
<1>6. QED
  BY <1>2, <1>4, <1>5

\* A function on 0..n may be defined by its first value and how each value
\* follows from the one before.
Follows(f, n, c, D) == f[0] = c /\ \A i \in 1 .. n : f[i] = D[<<f[i - 1], i>>]

LEMMA Recursion ==
  ASSUME NEW S, NEW c \in S, NEW n \in Nat, NEW D \in [S \X (1 .. n) -> S]
  PROVE  \E f \in [0 .. n -> S] : Follows(f, n, c, D)
<1> DEFINE Defined == {m \in Nat : m <= n => \E f \in [0 .. m -> S] : Follows(f, m, c, D)}
<1>1. 0 \in Defined
  <2> DEFINE f == [i \in 0 .. 0 |-> c]
  <2>1. f \in [0 .. 0 -> S] /\ Follows(f, 0, c, D)
    BY DEF Follows
  <2>2. QED
    BY <2>1
<1>2. ASSUME NEW m \in Nat, m \in Defined PROVE m + 1 \in Defined
  <2>1. SUFFICES ASSUME m + 1 <= n
                 PROVE  \E f \in [0 .. m + 1 -> S] : Follows(f, m + 1, c, D)
    OBVIOUS
  <2>2. PICK f \in [0 .. m -> S] : Follows(f, m, c, D)
    BY <1>2, <2>1
  <2> DEFINE g == [i \in 0 .. m + 1 |-> IF i = m + 1 THEN D[<<f[m], m + 1>>] ELSE f[i]]
  <2>3. m \in 0 .. m /\ m + 1 \in 1 .. n /\ f[m] \in S
    BY <2>1, <2>2
  <2>4. D[<<f[m], m + 1>>] \in S
    BY <2>3
  <2>5. g \in [0 .. m + 1 -> S]
    BY <2>2, <2>4
  <2>6. g[0] = c /\ g[m] = f[m] /\ g[m + 1] = D[<<f[m], m + 1>>]
    BY <2>2 DEF Follows
  <2>7. ASSUME NEW i \in 1 .. m PROVE g[i] = D[<<g[i - 1], i>>]
    <3>1. g[i] = f[i] /\ g[i - 1] = f[i - 1]
      OBVIOUS
    <3>2. QED
      BY <2>2, <3>1 DEF Follows
  <2> HIDE DEF g
  <2>8. ASSUME NEW i \in 1 .. m + 1 PROVE g[i] = D[<<g[i - 1], i>>]
    <3>1. CASE i = m + 1
      <4>1. i - 1 = m
        BY <3>1
      <4>2. QED
        BY <2>6, <3>1, <4>1
    <3>2. CASE i # m + 1
      <4>1. i \in 1 .. m
        BY <3>2
      <4>2. QED
        BY <2>7, <4>1
    <3>3. QED
      BY <3>1, <3>2
  <2>9. QED
    BY <2>5, <2>6, <2>8 DEF Follows
<1>3. Nat \subseteq Defined
  <2> HIDE DEF Defined
  <2>1. QED
    BY <1>1, <1>2, Induction
<1>4. QED
  BY <1>3

\* Whatever takes the steps from a value of S on stays in S.
LEMMA RecursionTyped ==
  ASSUME NEW S, NEW c \in S, NEW n \in Nat, NEW D \in [S \X (1 .. n) -> S], NEW g,
         g[0] = c, \A i \in 1 .. n : g[i - 1] \in S => g[i] = D[<<g[i - 1], i>>]
  PROVE  \A i \in 0 .. n : g[i] \in S
<1> DEFINE Typed == {m \in Nat : m <= n => g[m] \in S}
<1>1. 0 \in Typed
  OBVIOUS
<1>2. ASSUME NEW m \in Nat, m \in Typed PROVE m + 1 \in Typed
  <2>1. SUFFICES ASSUME m + 1 <= n PROVE g[m + 1] \in S
    OBVIOUS
  <2>2. m + 1 \in 1 .. n /\ g[m] \in S /\ (m + 1) - 1 = m
    BY <1>2, <2>1
  <2>3. g[m + 1] = D[<<g[m], m + 1>>]
    BY <2>2
  <2> QED BY <2>2, <2>3
<1> HIDE DEF Typed
<1>3. Nat \subseteq Typed
  BY <1>1, <1>2, Induction
<1> QED BY <1>3 DEF Typed

-----------------------------------------------------------------------------
(* What is queued is selected                                              *)

LinesOf(level) == {x \in Lines : Selected(x.sensor, level)}

Chosen(r) == r.airdos \in Seq(LinesOf(r.level))

LEMMA PurgedIsChosen ==
    ASSUME NEW queue \in Seq(Lines), NEW level
    PROVE  Purged(queue, level) \in Seq(LinesOf(level))
  <1> DEFINE Is(f) == f = [n \in 0 .. Len(queue) |->
                 IF n = 0 THEN <<>>
                 ELSE IF Selected(queue[n].sensor, level) THEN Append(f[n - 1], queue[n])
                 ELSE f[n - 1]]
             S == Seq(LinesOf(level))
             D == [p \in S \X (1 .. Len(queue)) |->
                      IF Selected(queue[p[2]].sensor, level) THEN Append(p[1], queue[p[2]])
                      ELSE p[1]]
             kept == CHOOSE f : Is(f)
  <1>1. Len(queue) \in Nat /\ \A i \in 1 .. Len(queue) : queue[i] \in Lines
    BY LenProperties, ElementOfSeq
  <1>2. <<>> \in S
    OBVIOUS
  <1>3. \A x \in S, i \in 1 .. Len(queue) :
           D[<<x, i>>] = IF Selected(queue[i].sensor, level) THEN Append(x, queue[i]) ELSE x
    OBVIOUS
  <1>4. D \in [S \X (1 .. Len(queue)) -> S]
    <2>1. \A x \in S, i \in 1 .. Len(queue) :
             (IF Selected(queue[i].sensor, level) THEN Append(x, queue[i]) ELSE x) \in S
      BY <1>1 DEF LinesOf
    <2> QED BY <2>1
  <1> HIDE DEF D
  <1>5. ASSUME NEW f
        PROVE  LET Body(n) == IF n = 0 THEN <<>>
                              ELSE IF Selected(queue[n].sensor, level)
                                   THEN Append(f[n - 1], queue[n]) ELSE f[n - 1]
               IN  /\ Is(f) => \A n \in 0 .. Len(queue) : f[n] = Body(n)
                   /\ (/\ f = [n \in 0 .. Len(queue) |-> f[n]]
                       /\ \A n \in 0 .. Len(queue) : f[n] = Body(n)) => Is(f)
    <2> DEFINE Body(n) == IF n = 0 THEN <<>>
                          ELSE IF Selected(queue[n].sensor, level)
                               THEN Append(f[n - 1], queue[n]) ELSE f[n - 1]
    <2>1. Is(f) <=> f = [n \in 0 .. Len(queue) |-> Body(n)]
      OBVIOUS
    <2> HIDE DEF Is, Body
    <2>2. Is(f) => \A n \in 0 .. Len(queue) : f[n] = Body(n)
      BY <2>1
    <2>3. (/\ f = [n \in 0 .. Len(queue) |-> f[n]]
           /\ \A n \in 0 .. Len(queue) : f[n] = Body(n)) => Is(f)
      BY <2>1
    <2> QED BY <2>2, <2>3 DEF Body
  <1> HIDE DEF Is, S
  <1>6. PICK f \in [0 .. Len(queue) -> S] : Follows(f, Len(queue), <<>>, D)
    BY <1>1, <1>2, <1>4, Recursion, Zenon
  <1>7. Is(f)
    <2>1. ASSUME NEW n \in 0 .. Len(queue)
          PROVE  f[n] = IF n = 0 THEN <<>>
                        ELSE IF Selected(queue[n].sensor, level)
                             THEN Append(f[n - 1], queue[n]) ELSE f[n - 1]
      <3>1. CASE n = 0
        BY <1>6, <3>1 DEF Follows
      <3>2. CASE n # 0
        <4>1. n \in 1 .. Len(queue) /\ f[n - 1] \in S
          BY <1>1, <1>6, <3>2
        <4> QED BY <1>3, <1>6, <3>2, <4>1 DEF Follows
      <3> QED BY <3>1, <3>2
    <2>2. f = [n \in 0 .. Len(queue) |-> f[n]]
      BY <1>6
    <2> QED BY <1>5, <2>1, <2>2
  <1>8. Is(kept)
    BY <1>7, Zenon
  <1>9. Purged(queue, level) = kept[Len(queue)]
    BY DEF Purged, Is
  <1> HIDE DEF kept
  <1>10. \A i \in 0 .. Len(queue) : kept[i] \in S
    <2>1. kept[0] = <<>>
      BY <1>1, <1>5, <1>8
    <2>2. ASSUME NEW i \in 1 .. Len(queue), kept[i - 1] \in S
          PROVE  kept[i] = D[<<kept[i - 1], i>>]
      <3>1. i \in 0 .. Len(queue) /\ i # 0
        BY <1>1
      <3> QED BY <1>3, <1>5, <1>8, <2>2, <3>1
    <2> QED BY <1>1, <1>2, <1>4, <2>1, <2>2, RecursionTyped, Zenon
  <1> QED BY <1>1, <1>9, <1>10 DEF S

LEMMA LinesSubset ==
    ASSUME NEW level
    PROVE  /\ LinesOf(level) \subseteq Lines
           /\ \A s \in Seq(LinesOf(level)) : s \in Seq(Lines)
  <1>1. LinesOf(level) \subseteq Lines
    BY DEF LinesOf
  <1>2. ASSUME NEW A, NEW B, A \subseteq B, NEW s \in Seq(A) PROVE s \in Seq(B)
    BY <1>2
  <1>3. \A s \in Seq(LinesOf(level)) : s \in Seq(Lines)
    BY <1>1, <1>2
  <1> QED BY <1>1, <1>3

\* The timers are not the lines.
LEMMA TimersKeepLines ==
    ASSUME NEW r, Shaped(r), NEW w, NEW x, Timed(w, r, x) \/ Rested(w, r, x)
    PROVE  /\ Shaped(w) /\ w.airdos = r.airdos /\ w.level = r.level
           /\ Chosen(r) => Chosen(w)
  <1>1. CASE Timed(w, r, x)
    BY <1>1, OtherFields DEF Timed, Chosen, Shaped
  <1>2. CASE Rested(w, r, x)
    BY <1>2, OtherFields DEF Rested, Chosen, Shaped
  <1> QED BY <1>1, <1>2

LEMMA SetLevelChooses ==
    ASSUME NEW r, Shaped(r), Chosen(r), NEW level
    PROVE  Shaped(SetLevel(r, level)) /\ Chosen(SetLevel(r, level))
  <1>1. CASE level = r.level
    BY <1>1, SetLevelDoes
  <1>2. CASE level # r.level
    <2>1. Purged(r.airdos, level) \in Seq(LinesOf(level))
      BY LinesSubset, PurgedIsChosen DEF Chosen
    <2>2. SetLevel(r, level).airdos = Purged(r.airdos, level)
      BY <1>2 DEF SetLevel
    <2> QED BY <2>1, <2>2, SetLevelDoes DEF Chosen
  <1> QED BY <1>1, <1>2

LEMMA ReduceChooses ==
    ASSUME NEW r, Shaped(r), Chosen(r)
    PROVE  Shaped(ReduceLevel(r)) /\ Chosen(ReduceLevel(r))
  BY SetLevelChooses DEF ReduceLevel

LEMMA HighChooses ==
    ASSUME NEW r, Shaped(r), Chosen(r)
    PROVE  Chosen(WhileHigh(r))
  <1>1. PICK high : Rested(high, r, None)
    BY DEF Rested
  <1>2. Shaped(high) /\ Chosen(high)
    BY <1>1, TimersKeepLines
  <1>3. \/ Timed(WhileHigh(r), high, 0)
        \/ Timed(WhileHigh(r), ReduceLevel(high), 0)
        \/ WhileHigh(r) = high
    <2>1. ReduceHold # None
      BY QueueAssumption DEF None
    <2>2. CASE r.highFor = None
      <3>1. r.highFor # ReduceHold
        BY <2>1, <2>2
      <3> QED BY <1>1, <2>2, <3>1, Zenon DEF WhileHigh, Timed, Rested
    <2>3. CASE r.highFor # None /\ r.highFor = ReduceHold
      BY <1>1, <2>3, Zenon DEF WhileHigh, Timed, Rested
    <2>4. CASE r.highFor # None /\ r.highFor # ReduceHold
      BY <1>1, <2>4, Zenon DEF WhileHigh, Rested
    <2> QED BY <2>2, <2>3, <2>4
  <1>4. Shaped(ReduceLevel(high)) /\ Chosen(ReduceLevel(high))
    BY <1>2, ReduceChooses
  <1> QED BY <1>2, <1>3, <1>4, TimersKeepLines

LEMMA NotHighChooses ==
    ASSUME NEW r, Shaped(r), Chosen(r), r.level \in 0 .. MaxLevel
    PROVE  Chosen(WhileNotHigh(r))
  <1>1. PICK eased : Timed(eased, r, None)
    BY DEF Timed
  <1>2. Shaped(eased) /\ Chosen(eased)
    BY <1>1, TimersKeepLines
  <1>3. MaxLevel \in Nat /\ RestoreHold # None
    BY QueueAssumption DEF None
  <1>4. \/ Rested(WhileNotHigh(r), eased, None)
        \/ Rested(WhileNotHigh(r), eased, 0)
        \/ Rested(WhileNotHigh(r), SetLevel(eased, r.level + 1), 0)
        \/ WhileNotHigh(r) = eased
    <2>1. CASE ~QueueLow(r.airdos) \/ r.level = MaxLevel
      <3>1. ~(QueueLow(r.airdos) /\ r.level < MaxLevel)
        BY <1>3, <2>1
      <3> QED BY <1>1, <2>1, <3>1, Zenon DEF WhileNotHigh, Timed, Rested
    <2>2. CASE QueueLow(r.airdos) /\ r.level # MaxLevel
      <3>1. r.level < MaxLevel
        BY <1>3, <2>2
      <3>2. CASE r.lowFor = None
        <4>1. r.lowFor # RestoreHold
          BY <1>3, <3>2
        <4> QED BY <1>1, <2>2, <3>1, <3>2, <4>1, Zenon DEF WhileNotHigh, Timed, Rested
      <3>3. CASE r.lowFor = RestoreHold
        <4>1. r.lowFor # None
          BY <1>3, <3>3
        <4> QED BY <1>1, <2>2, <3>1, <3>3, <4>1, Zenon DEF WhileNotHigh, Timed, Rested
      <3>4. CASE r.lowFor # None /\ r.lowFor # RestoreHold
        BY <1>1, <2>2, <3>1, <3>4, Zenon DEF WhileNotHigh, Timed
      <3> QED BY <3>2, <3>3, <3>4
    <2> QED BY <2>1, <2>2
  <1>5. Shaped(SetLevel(eased, r.level + 1)) /\ Chosen(SetLevel(eased, r.level + 1))
    BY <1>2, SetLevelChooses
  <1> QED BY <1>2, <1>4, <1>5, TimersKeepLines

LEMMA LevelChooses ==
    ASSUME NEW r, Shaped(r), Chosen(r), r.level \in 0 .. MaxLevel
    PROVE  Chosen(UpdateLevel(r))
  <1>1. CASE limit = 0
    BY <1>1, SetLevelChooses DEF UpdateLevel
  <1>2. CASE limit # 0
    <2>1. UpdateLevel(r) \in {WhileHigh(r), WhileNotHigh(r)}
      BY <1>2 DEF UpdateLevel
    <2> QED BY <2>1, HighChooses, NotHighChooses
  <1> QED BY <1>1, <1>2

\* Lines leave the queue at its front.
LEMMA FrontChooses ==
    ASSUME NEW r, Shaped(r), Chosen(r), NEW n \in Nat, NEW w,
           Refilled(w, r, SubSeq(r.airdos, n + 1, Len(r.airdos)))
    PROVE  Shaped(w) /\ Chosen(w)
  <1>1. /\ Len(r.airdos) \in Nat
        /\ SubSeq(r.airdos, n + 1, Len(r.airdos)) \in Seq(LinesOf(r.level))
    <2>1. ASSUME NEW S, NEW s \in Seq(S)
          PROVE  Len(s) \in Nat /\ SubSeq(s, n + 1, Len(s)) \in Seq(S)
      BY <2>1, SubSeqProperties, LenProperties
    <2> QED BY <2>1 DEF Chosen
  <1>2. Shaped(w) /\ w.level = r.level
    BY RefilledDoes
  <1>3. w.airdos = SubSeq(r.airdos, n + 1, Len(r.airdos))
    BY DEF Refilled, Shaped
  <1> QED BY <1>1, <1>2, <1>3 DEF Chosen

LEMMA FlushChooses ==
    ASSUME NEW h, NEW sys, NEW r, Shaped(r), Chosen(r), NEW reports, NEW taken,
           FlushTelemetry(h, sys, r, reports, taken)
    PROVE  Chosen(raw')
  <1>1. PICK front \in {SelectedFront(r)} :
           IF taken /\ Due(h, sys, front.airdos) THEN SendMixedPacket(h, sys, front, reports)
           ELSE health' = h /\ system' = sys /\ raw' = front /\ untold' = reports
    BY DEF FlushTelemetry
  <1>2. Shaped(front) /\ Chosen(front)
    <2> DEFINE Dropped(n) == \A i \in 1 .. n : ~Selected(r.airdos[i].sensor, r.level)
               Ends(n)    == Dropped(n) /\ (n = Len(r.airdos) \/ ~Dropped(n + 1))
               dropped    == CHOOSE n \in 0 .. Len(r.airdos) : Ends(n)
    <2>1. Refilled(front, r, SubSeq(r.airdos, dropped + 1, Len(r.airdos)))
      BY DEF SelectedFront, Refilled
    <2>2. dropped \in Nat
      <3> DEFINE Stops == {n \in 0 .. Len(r.airdos) : n = Len(r.airdos) \/ ~Dropped(n + 1)}
      <3>1. Len(r.airdos) \in Nat
        BY LenProperties DEF Chosen
      <3>2. Stops \subseteq Nat /\ Len(r.airdos) \in Stops
        BY <3>1
      <3>3. PICK x \in Stops : \A y \in Stops : ~(y < x)
        BY <3>2, LeastNumber, Zenon
      <3>4. x \in 0 .. Len(r.airdos) /\ (x = Len(r.airdos) \/ ~Dropped(x + 1))
        OBVIOUS
      <3>5. Dropped(x)
        <4>1. CASE x = 0
          BY <4>1
        <4>2. CASE x # 0
          <5>1. /\ x - 1 \in 0 .. Len(r.airdos) /\ x - 1 < x /\ x - 1 # Len(r.airdos)
                /\ (x - 1) + 1 = x
            BY <3>1, <3>4, <4>2
          <5>2. x - 1 \notin Stops
            BY <3>3, <5>1
          <5> HIDE DEF Dropped
          <5> QED BY <5>1, <5>2
        <4> QED BY <4>1, <4>2
      <3>6. Ends(x)
        BY <3>4, <3>5
      <3> HIDE DEF Ends
      <3>7. dropped \in 0 .. Len(r.airdos)
        BY <3>4, <3>6, Zenon
      <3> HIDE DEF dropped
      <3> QED BY <3>1, <3>7
    <2> HIDE DEF dropped
    <2> QED BY <2>1, <2>2, FrontChooses
  <1>3. CASE SendMixedPacket(h, sys, front, reports)
    <2>1. PICK k \in 0 .. Len(front.airdos) :
             raw' = [front EXCEPT !.airdos = SubSeq(@, k + 1, Len(@))]
      BY <1>3 DEF SendMixedPacket
    <2>2. Refilled(raw', front, SubSeq(front.airdos, k + 1, Len(front.airdos)))
      BY <2>1 DEF Refilled
    <2>3. k \in Nat
      OBVIOUS
    <2> QED BY <1>2, <2>2, <2>3, FrontChooses
  <1>4. CASE raw' = front
    BY <1>2, <1>4
  <1> QED BY <1>1, <1>3, <1>4

LEMMA ChosenTimers == Levels => Shaped(raw) /\ raw.level \in 0 .. MaxLevel
  BY DEF Levels, Timers, Shaped

LEMMA UpdateChooses ==
    ASSUME Levels, Chosen(raw), NEW heard \in BOOLEAN, NEW taken \in BOOLEAN,
           Update(heard, taken)
    PROVE  Chosen(raw')
  <1>1. PICK h, sys, q, reports :
           /\ \/ q = raw
              \/ q = [raw EXCEPT !.airdos = <<>>]
           /\ \/ FlushTelemetry(h, sys, UpdateLevel(q), reports, taken)
              \/ raw' = UpdateLevel(q)
    BY DEF Update
  <1>2. Shaped(q) /\ Chosen(q) /\ q.level = raw.level /\ q.lowFor = raw.lowFor
    <2>1. CASE q = raw
      BY <2>1, ChosenTimers
    <2>2. CASE q = [raw EXCEPT !.airdos = <<>>]
      <3>1. /\ Shaped(q) /\ q.level = raw.level /\ q.lowFor = raw.lowFor
            /\ q.airdos = <<>>
        BY <2>2, ChosenTimers, OtherFields DEF Shaped
      <3>2. <<>> \in Seq(LinesOf(q.level))
        OBVIOUS
      <3> QED BY <3>1, <3>2, ChosenTimers DEF Chosen
    <2> QED BY <1>1, <2>1, <2>2
  <1>3. PICK u : u = UpdateLevel(q)
    OBVIOUS
  <1>4. Shaped(u) /\ Chosen(u)
    <2>1. /\ q.level \in 0 .. MaxLevel /\ q.lowFor \in None .. RestoreHold
          /\ limit = 0 => q.level = MaxLevel
      BY <1>2 DEF Levels, Timers, Restoring
    <2> QED BY <1>2, <1>3, <2>1, LevelDoes, LevelChooses
  <1> QED BY <1>1, <1>3, <1>4, FlushChooses

LEMMA ReducedChooses ==
    ASSUME Levels, Chosen(raw), NEW r, r = IF limit = 0 THEN raw ELSE ReduceLevel(raw)
    PROVE  Shaped(r) /\ Chosen(r)
  BY ChosenTimers, ReduceChooses

LEMMA SendLineChooses ==
    ASSUME Levels, Chosen(raw), NEW length, SendLine(length)
    PROVE  Chosen(raw')
  <1>1. raw' \in {raw, IF limit = 0 THEN raw ELSE ReduceLevel(raw)}
    BY DEF SendLine, Refuse
  <1> QED BY <1>1, ReducedChooses

\* The level is looked at after it was lowered for the line itself.
LEMMA SendAirdosChooses ==
    ASSUME Levels, Chosen(raw), NEW sensor \in Sensors, SendAirdosLine(sensor)
    PROVE  Chosen(raw')
  <1> DEFINE line == [sensor |-> sensor, age |-> 0]
  <1>1. PICK r :
           /\ r = raw \/ r = IF limit = 0 THEN raw ELSE ReduceLevel(raw)
           /\ raw' = IF Selected(sensor, r.level) /\ AirdosAccepts(r.airdos, sensor)
                     THEN [r EXCEPT !.airdos = Append(r.airdos, line)] ELSE r
    BY Zenon DEF SendAirdosLine
  <1>2. Shaped(r) /\ Chosen(r)
    BY <1>1, ChosenTimers, ReducedChooses
  <1>3. CASE raw' = r
    BY <1>2, <1>3
  <1>4. CASE Selected(sensor, r.level) /\ raw' = [r EXCEPT !.airdos = Append(r.airdos, line)]
    <2>1. line \in LinesOf(r.level)
      <3>1. 0 \in 0 .. BatchWait
        BY QueueAssumption
      <3> QED BY <1>4, <3>1 DEF LinesOf, Lines
    <2>2. Append(r.airdos, line) \in Seq(LinesOf(r.level))
      BY <1>2, <2>1 DEF Chosen
    <2>3. PICK lines : lines = Append(r.airdos, line)
      OBVIOUS
    <2>4. raw'.airdos = lines /\ raw'.level = r.level
      <3>1. raw' = [r EXCEPT !.airdos = lines]
        BY <1>4, <2>3
      <3> HIDE <1>4
      <3> QED BY <1>2, <3>1 DEF Shaped
    <2> QED BY <2>2, <2>3, <2>4 DEF Chosen
  <1> QED BY <1>1, <1>3, <1>4

LEMMA LimitChooses ==
    ASSUME Levels, Chosen(raw), NEW l, SetDownlinkLimit(l)
    PROVE  Chosen(raw')
  BY ChosenTimers, SetLevelChooses DEF SetDownlinkLimit

\* A line grows older and stays of its sensor.
LEMMA TickChooses ==
    ASSUME Levels, Chosen(raw), Tick
    PROVE  Chosen(raw')
  <1>1. ASSUME NEW x \in LinesOf(raw.level) PROVE OlderLine(x) \in LinesOf(raw.level)
    <2>1. x \in Lines /\ Selected(x.sensor, raw.level)
      BY DEF LinesOf
    <2>2. PICK age : age = Older(x.age, BatchWait)
      OBVIOUS
    <2>3. age \in 0 .. BatchWait
      <3>1. BatchWait \in Nat /\ x.age \in 0 .. BatchWait /\ None = -1
        BY <2>1, QueueAssumption DEF Lines, None
      <3> QED BY <2>2, <3>1 DEF Older
    <2>4. OlderLine(x) = [x EXCEPT !.age = age]
      BY <2>1, <2>2 DEF Lines, OlderLine
    <2>5. OlderLine(x) \in Lines /\ OlderLine(x).sensor = x.sensor
      BY <2>1, <2>3, <2>4 DEF Lines
    <2> QED BY <2>1, <2>5 DEF LinesOf
  <1> DEFINE q  == raw.airdos
             ql == [i \in DOMAIN q |-> OlderLine(q[i])]
  <1>2. raw'.airdos = ql /\ raw'.level = raw.level
    <2>1. PICK high, low : raw' = [raw EXCEPT !.airdos = ql, !.highFor = high, !.lowFor = low]
      BY DEF Tick
    <2> HIDE DEF ql
    <2> QED BY <2>1 DEF Levels, Timers
  <1>3. ql \in Seq(LinesOf(raw.level))
    <2>1. q \in Seq(LinesOf(raw.level))
      BY DEF Chosen
    <2> HIDE DEF q
    <2>2. Len(q) \in Nat /\ DOMAIN q = 1 .. Len(q)
          /\ \A i \in 1 .. Len(q) : q[i] \in LinesOf(raw.level)
      BY <2>1
    <2> QED BY <1>1, <2>2
  <1> HIDE DEF q, ql
  <1> QED BY <1>2, <1>3 DEF Chosen

Choice == Levels /\ Chosen(raw)

LEMMA InitChooses == Init => Choice
  <1> SUFFICES ASSUME Init PROVE Chosen(raw)
    BY InitLevels DEF Choice
  <1>1. raw.airdos = <<>>
    BY DEF Init
  <1> QED BY <1>1 DEF Chosen

LEMMA StepChooses == Choice /\ [Next]_vars => Choice'
  <1> SUFFICES ASSUME Levels, Chosen(raw), [Next]_vars PROVE Chosen(raw')
    BY StepLevels DEF Choice
  <1>1. CASE \E heard, taken \in BOOLEAN : Update(heard, taken)
    BY <1>1, UpdateChooses
  <1>2. CASE \E length \in SystemLengths : SendLine(length)
    BY <1>2, SendLineChooses
  <1>3. CASE \E key \in Keys : SendHealth(key)
    BY <1>3 DEF SendHealth
  <1>4. CASE \E sensor \in Sensors : SendAirdosLine(sensor)
    BY <1>4, SendAirdosChooses
  <1>5. CASE \E l \in Limits : SetDownlinkLimit(l)
    BY <1>5, LimitChooses
  <1>6. CASE Tick
    BY <1>6, TickChooses
  <1>7. CASE UNCHANGED vars
    BY <1>7 DEF vars
  <1> QED BY <1>1, <1>2, <1>3, <1>4, <1>5, <1>6, <1>7 DEF Next

\* No line waits of a sensor that the link gave up, whoever lowered the level
\* (purge_unselected_airdos).
THEOREM QueueIsSelected == Spec => []QueuedAreSelected
  <1>1. Choice => QueuedAreSelected
    <2> SUFFICES ASSUME Chosen(raw), NEW i \in DOMAIN raw.airdos
                 PROVE  Selected(raw.airdos[i].sensor, raw.level)
      BY DEF Choice, QueuedAreSelected
    <2>1. ASSUME NEW S, NEW q \in Seq(S), NEW k \in DOMAIN q PROVE q[k] \in S
      BY <2>1
    <2>2. raw.airdos[i] \in LinesOf(raw.level)
      BY <2>1 DEF Chosen
    <2> QED BY <2>2 DEF LinesOf
  <1> QED BY <1>1, InitChooses, StepChooses, PTL DEF Spec

=============================================================================
