--------------------------- MODULE DownlinkQueues --------------------------
(***************************************************************************)
(* What the Ethernet link holds back and what it drops                     *)
(* (src/src/ethernet_link.cpp): the health outbox, the queues of system    *)
(* and AIRDOS lines, the automatic choice of the AIRDOS sensors and the    *)
(* datagram that mixes the three.                                          *)
(*                                                                         *)
(* A record is its length, payload lengths are net of the 8-byte header.   *)
(* Whether the pacer (DownlinkPacer) and the network take a datagram is    *)
(* the parameter "taken" of Update. A duration counts the ticks since its  *)
(* time stamp, up to the threshold it is compared with. The counters       *)
(* reported as diagnostics are left out.                                   *)
(***************************************************************************)
EXTENDS Integers, FiniteSets, SequencesExt

CONSTANTS
    Limits,        \* limits set_downlink_limit accepts; 0: none
    Target,        \* telemetry_packet_target, by limit
    PayloadMax,    \* ETHERNET_UDP_PAYLOAD_MAX
    Keys,          \* identities of health reports
    Slots,         \* entries of health_snapshots
    HealthLength,  \* length of a health record
    SystemLengths, SystemDepth, SystemBytes,    \* system_queue
    Sensors, AirdosDepth, AirdosBytes,          \* airdos_queue
    AirdosLength,  \* length of a sensor's record
    Priority,      \* a sensor's column in AIRDOS_DOWNLINK_PRIORITY, from 0
    MaxLevel,      \* AIRDOS_DOWNLINK_MAX_LEVEL
    HighPercent, LowPercent,           \* AIRDOS_DOWNLINK_QUEUE_*_PERCENT
    ReduceHold, RestoreHold,           \* AIRDOS_DOWNLINK_*_HOLD_MS
    BatchWait, Timeout                 \* ..._BATCH_WAIT_MS, ..._TIMEOUT_MS

Lines == [sensor : Sensors, age : 0 .. BatchWait]

None == -1   \* a time stamp of 0: not running

ASSUME QueueAssumption ==
    /\ 0 \in Limits /\ Limits \subseteq Nat
    /\ Target \in [Limits -> 1 .. PayloadMax] /\ Target[0] = PayloadMax
    /\ Cardinality(Keys) <= Slots
    /\ HealthLength \in 1 .. PayloadMax /\ SystemLengths \subseteq 1 .. PayloadMax
    /\ AirdosLength \in [Sensors -> 1 .. PayloadMax]
    /\ Priority \in [Sensors -> 0 .. MaxLevel]   \* MaxLevel: an unknown id
    /\ {SystemDepth, SystemBytes, AirdosDepth, AirdosBytes, MaxLevel} \subseteq Nat \ {0}
    /\ {ReduceHold, RestoreHold, BatchWait, Timeout} \subseteq Nat \ {0}

VARIABLES
    known,     \* ground_station_known
    silent,    \* since last_ground_station_rx_ms
    limit,     \* downlink_limit_kbit_s
    system,    \* system_queue: the lengths of its records
    health,    \* health_snapshots: the keys in slot order, the slots that are
               \* pending, and health_cursor (from 1)
    raw,       \* airdos_queue, airdos_downlink_level and how long the queue
               \* has been high and low
    untold,    \* history: keys whose latest report was not sent
    leftover,  \* history: the link timed out on what is queued
    calm       \* history: since an update found the queue not low, or the
               \* level changed

vars == <<known, silent, limit, system, health, raw, untold, leftover, calm>>

Empty == [slots |-> <<>>, pending |-> {}, cursor |-> 1]

Init ==
    /\ known = FALSE /\ silent = 0 /\ limit = 0
    /\ system = <<>> /\ health = Empty
    /\ raw = [airdos |-> <<>>, level |-> MaxLevel, highFor |-> None, lowFor |-> None]
    /\ untold = {} /\ leftover = FALSE /\ calm = 0

-----------------------------------------------------------------------------
\* ethernet_link_connected
Connected == known /\ silent <= Timeout

Sum(lengths) == FoldLeft(+, 0, lengths)

AirdosLengths(queue) == [i \in DOMAIN queue |-> AirdosLength[queue[i].sensor]]

\* LineQueue::push: a descriptor and the bytes must be free.
Accepts(lengths, depth, bytes, length) ==
    Len(lengths) < depth /\ length <= bytes - Sum(lengths)


SystemAccepts(length) == Accepts(system, SystemDepth, SystemBytes, length)
AirdosAccepts(queue, sensor) ==
    Accepts(AirdosLengths(queue), AirdosDepth, AirdosBytes, AirdosLength[sensor])

\* append_records: n records from the front is all that fits in the room.
Fits(lengths, n, room) ==
    /\ n > 0 => Sum(SubSeq(lengths, 1, n)) <= room
    /\ n < Len(lengths) => Sum(SubSeq(lengths, 1, n + 1)) > room

-----------------------------------------------------------------------------
(* The AIRDOS level *)

\* airdos_sensor_selected
Selected(sensor, level) == Priority[sensor] < level

\* purge_unselected_airdos
Purged(queue, level) ==
    LET kept[n \in 0 .. Len(queue)] ==
            IF n = 0 THEN <<>>
            ELSE IF Selected(queue[n].sensor, level) THEN Append(kept[n - 1], queue[n])
            ELSE kept[n - 1]
    IN  kept[Len(queue)]

\* Mutant of SetLevel: what is queued already stays.
SetLevelKeepsQueue(r, level) ==
    IF level = r.level THEN r
    ELSE [r EXCEPT !.level = level, !.highFor = None, !.lowFor = None]

\* Mutant of SetLevel: the timers run on.
SetLevelKeepsTimers(r, level) ==
    IF level = r.level THEN r
    ELSE [r EXCEPT !.level = level, !.airdos = Purged(@, level)]

SetLevel(r, level) ==
    IF level = r.level THEN r
    ELSE [airdos |-> Purged(r.airdos, level), level |-> level,
          highFor |-> None, lowFor |-> None]

ReduceLevel(r) == IF r.level = 0 THEN r ELSE SetLevel(r, r.level - 1)

QueueHigh(queue) ==
    \/ Len(queue) * 100 >= AirdosDepth * HighPercent
    \/ Sum(AirdosLengths(queue)) * 100 >= AirdosBytes * HighPercent

QueueLow(queue) ==
    /\ Len(queue) * 100 <= AirdosDepth * LowPercent
    /\ Sum(AirdosLengths(queue)) * 100 <= AirdosBytes * LowPercent

\* A high queue reduces the level once per ReduceHold, and stops the low timer.
WhileHigh(r) ==
    LET high == [r EXCEPT !.lowFor = None]
    IN  CASE r.highFor = None       -> [high EXCEPT !.highFor = 0]
          [] r.highFor = ReduceHold -> [ReduceLevel(high) EXCEPT !.highFor = 0]
          [] OTHER                  -> high

\* A low queue restores the level once per RestoreHold.
WhileNotHigh(r) ==
    LET eased == [r EXCEPT !.highFor = None]
    IN  CASE ~QueueLow(r.airdos) \/ r.level = MaxLevel -> [eased EXCEPT !.lowFor = None]
          [] QueueLow(r.airdos) /\ r.level < MaxLevel /\ r.lowFor = None ->
                 [eased EXCEPT !.lowFor = 0]
          [] QueueLow(r.airdos) /\ r.level < MaxLevel /\ r.lowFor = RestoreHold ->
                 [SetLevel(eased, r.level + 1) EXCEPT !.lowFor = 0]
          [] OTHER -> eased

\* update_airdos_downlink_level: without a limit the timers are not looked at.
UpdateLevel(r) ==
    IF limit = 0 THEN SetLevel(r, MaxLevel)
    ELSE IF QueueHigh(r.airdos) /\ r.level > 0 THEN WhileHigh(r)
    ELSE WhileNotHigh(r)

-----------------------------------------------------------------------------
(* The mixed datagram *)

\* Mutant of SlotAt: every datagram starts at the first slot.
SlotFromFirst(h, i) == i

\* The i-th slot from the cursor on, round robin.
SlotAt(h, i) == ((h.cursor + i - 2) % Slots) + 1

\* The pending slots in the order in which they are sent.
PendingInOrder(h) ==
    SelectSeq([i \in 1 .. Slots |-> SlotAt(h, i)], LAMBDA s : s \in h.pending)

\* Of the pending reports the first goes out whatever the target is, more of
\* them up to it.
ReportsFit(pending, n) ==
    /\ n = 0 <=> pending = 0
    /\ n > 1 => n * HealthLength <= Target[limit]
    /\ n < pending => (n + 1) * HealthLength > Target[limit]

\* A first system record above the target goes alone.
LinesFit(sys, used, n) ==
    IF sys # <<>> /\ used = 0 /\ sys[1] > Target[limit] THEN n = 1
    ELSE Fits(sys, n, Target[limit] - used)

\* AIRDOS records fill the room that is left; without housekeeping one above
\* the target goes alone.
SamplesFit(queue, used, housekeeping, n) ==
    LET lengths == AirdosLengths(queue)
    IN  IF queue # <<>> /\ ~housekeeping /\ lengths[1] > Target[limit] THEN n = 1
        ELSE Fits(lengths, n, Target[limit] - used)

\* The first n pending reports left the outbox; the cursor is behind them.
HealthSent(h, n) ==
    LET sent == SubSeq(PendingInOrder(h), 1, n)
    IN  IF n = 0 THEN h
        ELSE [h EXCEPT !.pending = @ \ ToSet(sent), !.cursor = (Last(sent) % Slots) + 1]

\* send_mixed_packet: what is left in the queues is what the datagram does not
\* carry.
SendMixedPacket(h, sys, r, reports) ==
    \E n \in 0 .. Cardinality(h.pending) :
        /\ ReportsFit(Cardinality(h.pending), n)
        /\ health' = HealthSent(h, n)
        /\ untold' = reports \ {h.slots[s] : s \in h.pending \ HealthSent(h, n).pending}
        /\ \E m \in 0 .. Len(sys) :
              /\ LinesFit(sys, n * HealthLength, m)
              /\ system' = SubSeq(sys, m + 1, Len(sys))
              /\ \E k \in 0 .. Len(r.airdos),
                    used \in {n * HealthLength + Sum(SubSeq(sys, 1, m))} :
                    /\ SamplesFit(r.airdos, used, n > 0 \/ sys # <<>>, k)
                    /\ raw' = [r EXCEPT !.airdos = SubSeq(@, k + 1, Len(@))]

\* The lines flush_telemetry drops from the front of the queue.
SelectedFront(r) ==
    LET Dropped(n) == \A i \in 1 .. n : ~Selected(r.airdos[i].sensor, r.level)
        dropped    == CHOOSE n \in 0 .. Len(r.airdos) :
                         Dropped(n) /\ (n = Len(r.airdos) \/ ~Dropped(n + 1))
    IN  [r EXCEPT !.airdos = SubSeq(@, dropped + 1, Len(@))]

\* AIRDOS lines alone wait a little for company.
Due(h, sys, queue) ==
    \/ sys # <<>> \/ h.pending # {}
    \/ queue # <<>> /\ (queue[1].age >= BatchWait \/ Len(queue) >= AirdosDepth \div 2)

\* flush_telemetry
FlushTelemetry(h, sys, r, reports, taken) ==
    \E front \in {SelectedFront(r)} :
        IF taken /\ Due(h, sys, front.airdos) THEN SendMixedPacket(h, sys, front, reports)
        ELSE health' = h /\ system' = sys /\ raw' = front /\ untold' = reports

-----------------------------------------------------------------------------
(* ethernet_link_update, once per iteration of loop *)

Expired == known /\ silent > Timeout

\* Mutant of ResetOnTimeout: a datagram of this iteration comes first.
ResetUnlessHeard(heard) == Expired /\ ~heard

\* The timeout is looked at before the socket.
ResetOnTimeout(heard) == Expired

\* A command datagram may be waiting (heard); AIRDOS lines are purged, paced
\* and sent after the level was settled.
Update(heard, taken) ==
    /\ known' = (heard \/ (known /\ ~ResetOnTimeout(heard)))
    /\ silent' = IF heard THEN 0 ELSE silent
    /\ \E reset \in {ResetOnTimeout(heard)} :
       \E h       \in {IF reset THEN Empty ELSE health},
          sys     \in {IF reset THEN <<>> ELSE system},
          r       \in {UpdateLevel(IF reset THEN [raw EXCEPT !.airdos = <<>>] ELSE raw)},
          reports \in {IF reset THEN {} ELSE untold} :
            /\ IF known' /\ silent' <= Timeout THEN FlushTelemetry(h, sys, r, reports, taken)
               ELSE health' = h /\ system' = sys /\ raw' = r /\ untold' = reports
            /\ leftover' = (leftover /\ ~reset)
    /\ calm' = IF (~Expired /\ ~QueueLow(raw.airdos)) \/ raw'.level # raw.level
               THEN 0 ELSE calm
    /\ limit' = limit

\* What the rest of the iteration queues while the ground station is there.

\* A refused housekeeping line takes AIRDOS load off at once.
Refuse == raw' = IF limit = 0 THEN raw ELSE ReduceLevel(raw)

KeepCalm == calm' = IF raw'.level # raw.level THEN 0 ELSE calm

SendLine(length) ==
    /\ Connected
    /\ IF SystemAccepts(length) THEN system' = Append(system, length) /\ raw' = raw
       ELSE system' = system /\ Refuse
    /\ KeepCalm
    /\ UNCHANGED <<known, silent, limit, health, untold, leftover>>

\* The key keeps its slot: the first free one when it is new.
QueueHealth(key) ==
    LET slots == IF key \in ToSet(health.slots) THEN health.slots
                 ELSE Append(health.slots, key)
    IN  [health EXCEPT !.slots = slots,
                       !.pending = @ \cup {i \in DOMAIN slots : slots[i] = key}]

SendHealth(key) ==
    /\ Connected
    /\ health' = QueueHealth(key)
    /\ untold' = untold \cup {key}
    /\ UNCHANGED <<known, silent, limit, system, raw, leftover, calm>>

\* A line that does not fit costs a level when there is one to give.
SendAirdosLine(sensor) ==
    LET line == [sensor |-> sensor, age |-> 0]
        less == IF limit = 0 THEN raw ELSE ReduceLevel(raw)
        With(r) == IF Selected(sensor, r.level) /\ AirdosAccepts(r.airdos, sensor)
                   THEN [r EXCEPT !.airdos = Append(@, line)] ELSE r
    IN  /\ Connected
        /\ Selected(sensor, raw.level)
        /\ raw' = IF AirdosAccepts(raw.airdos, sensor) THEN With(raw) ELSE With(less)
        /\ KeepCalm
        /\ UNCHANGED <<known, silent, limit, system, health, untold, leftover>>

\* A command: an unchanged limit changes nothing.
SetDownlinkLimit(l) ==
    /\ l # limit
    /\ limit' = l
    /\ raw' = SetLevel(raw, MaxLevel)
    /\ KeepCalm
    /\ UNCHANGED <<known, silent, system, health, untold, leftover>>

\* Time passes: a duration is counted up to its threshold.
Older(duration, threshold) ==
    IF duration = None \/ duration = threshold THEN duration ELSE duration + 1

OlderLine(line) == [line EXCEPT !.age = Older(@, BatchWait)]

Tick ==
    /\ silent' = Older(silent, Timeout + 1)
    /\ raw' = [raw EXCEPT
                 !.airdos = [i \in DOMAIN @ |-> OlderLine(@[i])],
                 !.highFor = Older(@, ReduceHold), !.lowFor = Older(@, RestoreHold)]
    /\ calm' = Older(calm, RestoreHold)
    /\ leftover' = (leftover \/ (known /\ silent = Timeout /\
                      (system # <<>> \/ raw.airdos # <<>> \/ health.pending # {})))
    /\ UNCHANGED <<known, limit, system, health, untold>>

Next ==
    \/ \E heard, taken \in BOOLEAN : Update(heard, taken)
    \/ \E length \in SystemLengths : SendLine(length)
    \/ \E key \in Keys : SendHealth(key)
    \/ \E sensor \in Sensors : SendAirdosLine(sensor)
    \/ \E l \in Limits : SetDownlinkLimit(l)
    \/ Tick

Spec == Init /\ [][Next]_vars

\* The loop runs and the pacer lets regular telemetry out time and again.
FairSpec == Spec /\ WF_vars(\E heard \in BOOLEAN : Update(heard, TRUE))

-----------------------------------------------------------------------------
(* Properties *)

\* Every queued AIRDOS line is of a sensor the level selects, whoever lowered
\* the level and whenever: no line waits that the link gave up.
QueuedAreSelected ==
    \A i \in DOMAIN raw.airdos : Selected(raw.airdos[i].sensor, raw.level)

\* What was queued for a ground station that fell silent never reaches one
\* that is heard later, even when it is heard before the loop noticed.
NothingFromAnEarlierSession == Connected => ~leftover

\* An unchanged limit restores a level only after the queue was low at every
\* update of a whole hold time without another change of level.
RestoredOnlyWhenCalm ==
    [][raw'.level > raw.level /\ limit' = limit /\ limit # 0
          => calm = RestoreHold]_vars

\* Every health report is sent, in its latest form, unless the ground station
\* is lost: whatever else is reported in the meantime (the round robin).
EveryReportSent == \A key \in Keys : key \in untold ~> key \notin untold
=============================================================================
