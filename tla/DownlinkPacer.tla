--------------------------- MODULE DownlinkPacer ---------------------------
(***************************************************************************)
(* The rate scheduler of the Ethernet link (src/src/ethernet_link.cpp):    *)
(* the average-rate debt, the telemetry slot and the burst history, all    *)
(* kept in micros(), a clock that wraps.                                   *)
(*                                                                         *)
(* A handler reads micros() a few times; the reads are taken as one, the   *)
(* clock moves between handlers.                                           *)
(***************************************************************************)
EXTENDS Integers, Sequences

CONSTANTS
    Limits,       \* limits set_downlink_limit accepts, in bits per tick; 0: none
    PacketBits,   \* estimated_packet_bits of the datagrams
    Window,       \* ETHERNET_BURST_WINDOW_US
    Slot,         \* ETHERNET_TELEMETRY_SLOT_US
    Capacity,     \* BURST_HISTORY_CAPACITY
    Mod,          \* 2^32: micros() counts modulo Mod
    MaxBits       \* bound: bits in the history before one more reply

Half == Mod \div 2   \* the sign bit of a difference

ASSUME PacerAssumption ==
    /\ 0 \in Limits /\ Limits \subseteq Nat
    /\ PacketBits \subseteq Nat \ {0}
    /\ Window \in Nat \ {0} /\ Slot \in Nat \ {0}
    /\ Capacity \in Nat \ {0}
    /\ Mod \in Nat /\ Mod = 2 * Half /\ Window < Half /\ Slot <= Window
    /\ \A l \in Limits \ {0}, b \in PacketBits : (b + l - 1) \div l < Half

VARIABLES
    clock,     \* micros()
    limit,     \* downlink_limit_kbit_s
    nextSend,  \* next_regular_send_us
    nextSlot,  \* next_telemetry_slot_us
    history,   \* burst_history from burst_head on; burst_bits is its sum
    sequence,  \* telemetry_sequence modulo 2
    debt, sent, silence   \* history variables: see PacedLink

paceVars == <<debt, sent, silence>>
vars == <<clock, limit, nextSend, nextSlot, history, sequence, paceVars>>

Promise == INSTANCE PacedLink WITH
    Limits <- Limits, PacketBits <- PacketBits, Window <- Window, Slot <- Slot,
    Memory <- Half,
    limit <- limit, debt <- debt, sent <- sent, sequence <- sequence, silence <- silence

Later(t, d) == (t + d) % Mod

Init ==
    /\ clock \in 0 .. Mod - 1
    /\ limit = 0
    /\ nextSend = clock /\ nextSlot = clock
    /\ history = <<>> /\ sequence = 0
    /\ debt = 0 /\ sent = Promise!Nothing /\ silence = 0

-----------------------------------------------------------------------------
\* static_cast<int32_t>(now_us - target_us) >= 0
SendTimeReached(target) == (clock - target) % Mod < Half

BurstLimitBits == limit * Window

\* burst_bits: the bits in the history, or in a part of it
Bits(entries) ==
    LET sum[n \in 0 .. Len(entries)] ==
            IF n = 0 THEN 0 ELSE sum[n - 1] + entries[n].bits
    IN  sum[Len(entries)]

\* The head entries that left the window; a younger one ends the search.
ExpiredBurstHistory ==
    LET Gone(n) == \A i \in 1 .. n : (clock - history[i].at) % Mod >= Window
        gone    == CHOOSE n \in 0 .. Len(history) :
                      Gone(n) /\ (n = Len(history) \/ ~Gone(n + 1))
    IN  SubSeq(history, gone + 1, Len(history))

\* A full history merges into its newest entry and extends its lifetime.
RecordSentPacket(bits) ==
    LET kept  == ExpiredBurstHistory
        entry == [at |-> clock, bits |-> bits]
    IN  IF Len(kept) < Capacity THEN Append(kept, entry)
        ELSE [kept EXCEPT ![Capacity] = [entry EXCEPT !.bits = @ + kept[Capacity].bits]]

BurstAllows(bits) ==
    \/ limit = 0
    \/ LET kept == ExpiredBurstHistory
       IN  IF bits > BurstLimitBits THEN kept = <<>>
           ELSE Bits(kept) <= BurstLimitBits - bits

RegularSendReady ==
    limit # 0 => SendTimeReached(nextSend) /\ SendTimeReached(nextSlot)

\* Bounds: replies never run up a debt of half the range of the clock, and
\* they do not merge without end.
ReplyPace(bits) ==
    /\ limit # 0 => debt + Promise!Interval(bits) < Half
    /\ Bits(history) <= MaxBits

\* History of a charge: a time that reads as past holds nothing back.
ChargeHistory(bits) == Promise!Send(bits, ~SendTimeReached(nextSend'))

\* Mutant of ChargeDownlink: a send in debt forgets the debt.
ChargeFromNow(bits) ==
    /\ IF limit = 0 THEN UNCHANGED <<nextSend, nextSlot, history>>
       ELSE /\ nextSend' = Later(clock, Promise!Interval(bits))
            /\ nextSlot' = Later(clock, Slot)
            /\ history' = RecordSentPacket(bits)
    /\ ChargeHistory(bits)

\* "Immediate command replies can create rate debt."
ChargeDownlink(bits) ==
    /\ IF limit = 0 THEN UNCHANGED <<nextSend, nextSlot, history>>
       ELSE /\ nextSend' = Later(IF SendTimeReached(nextSend) THEN clock ELSE nextSend,
                                 Promise!Interval(bits))
            /\ nextSlot' = Later(clock, Slot)
            /\ history' = RecordSentPacket(bits)
    /\ ChargeHistory(bits)

\* An immediate reply is sent whatever the debt.
SendImmediate(bits) ==
    /\ ReplyPace(bits)
    /\ ChargeDownlink(bits)
    /\ silence' = IF silence < Half THEN 0 ELSE silence
    /\ UNCHANGED <<clock, sequence>>

SendRegularPayload(bits) ==
    /\ RegularSendReady /\ BurstAllows(bits)
    /\ ChargeDownlink(bits)
    /\ sequence' = 1 - sequence
    /\ silence' = 0
    /\ UNCHANGED clock

\* The budget is used up, or the datagram could not be sent.
RegularPayloadHeld(bits) ==
    /\ limit # 0 /\ RegularSendReady
    /\ history' = ExpiredBurstHistory
    /\ UNCHANGED <<clock, limit, nextSend, nextSlot, sequence, paceVars>>

\* Mutant of SetDownlinkLimit: the debt at the old rate stays.
SetLimitKeepsDebt(l) ==
    /\ l # limit /\ limit' = l
    /\ history' = <<>> /\ debt' = 0 /\ sent' = Promise!Nothing /\ silence' = 0
    /\ UNCHANGED <<clock, nextSend, nextSlot, sequence>>

SetDownlinkLimit(l) ==
    /\ l # limit /\ limit' = l
    /\ nextSend' = clock /\ nextSlot' = clock
    /\ history' = <<>> /\ debt' = 0 /\ sent' = Promise!Nothing /\ silence' = 0
    /\ UNCHANGED <<clock, sequence>>

Tick ==
    /\ clock' = Later(clock, 1)
    /\ Promise!Pass
    /\ UNCHANGED <<nextSend, nextSlot, history>>

Next ==
    \/ \E bits \in PacketBits :
          SendImmediate(bits) \/ SendRegularPayload(bits) \/ RegularPayloadHeld(bits)
    \/ \E l \in Limits : SetDownlinkLimit(l)
    \/ Tick

Spec == Init /\ [][Next]_vars

-----------------------------------------------------------------------------
(* Properties                                                              *)

\* The configured limit holds, for the average and for every burst window,
\* however replies and regular packets interleave, through wraps of the
\* clock, merged history entries and changes of the limit: regular telemetry
\* "may wait longer, never shorter".  The average has PacedLink's exception:
\* replies after a silence of half the range of the clock (36 minutes).
KeepsPace == Promise!Spec

\* Telemetry may go as far as the rate and the slot are concerned.
Due == limit = 0 \/ (debt = 0 /\ Promise!SlotFree)

\* The scheduler does not hold back telemetry that is due, unless nothing
\* was sent for half the range of the clock (36 minutes) before.
NotHeldBack == Due /\ silence < Half => RegularSendReady

\* "System telemetry may send on the next available slot immediately": the
\* same after any silence, such as a lost ground station that returns.
ResumesAfterSilence == Due => RegularSendReady
=============================================================================
