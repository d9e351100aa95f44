----------------------------- MODULE PacedLink -----------------------------
(***************************************************************************)
(* What the downlink limit promises the operator of the balloon link, in   *)
(* terms of a clock that never wraps.  Command replies go out at once; a   *)
(* packet of regular telemetry starts only when                            *)
(*   - every send before it has been paid for at the configured rate (a    *)
(*     leaky bucket of one packet),                                        *)
(*   - a fresh slot has passed since the last send, and                    *)
(*   - it fits into the burst budget of the last window together with all  *)
(*     sends in that window, or is alone in it.                            *)
(* A change of the limit starts afresh; limit 0 means no limit.            *)
(*                                                                         *)
(* One exception: after a silence as long as the scheduler's memory a      *)
(* reply may clear the debt instead of adding to it, until telemetry goes  *)
(* out.  The slot and the burst budget count it all the same.              *)
(***************************************************************************)
EXTENDS Integers

CONSTANTS
    Limits,       \* the limits an operator may set, in bits per tick; 0: none
    PacketBits,   \* estimated_packet_bits of the datagrams
    Window,       \* ETHERNET_BURST_WINDOW_US
    Slot,         \* ETHERNET_TELEMETRY_SLOT_US, at most the window
    Memory        \* half the range of micros()

VARIABLES
    limit,   \* downlink_limit_kbit_s
    debt,    \* ticks until all sends are paid for
    sent,    \* the bits sent less than d ticks ago, for each d up to the window
    sequence,\* telemetry_sequence modulo 2: the number of the last telemetry
    silence  \* ticks since the last send or new limit, up to Memory; a reply
             \* does not end a silence of Memory, telemetry does

vars == <<limit, debt, sent, sequence, silence>>

Spans == 0 .. Window

Nothing == [d \in Spans |-> 0]

Init == limit = 0 /\ debt = 0 /\ sent = Nothing /\ sequence = 0 /\ silence = 0

Interval(bits) == (bits + limit - 1) \div limit

Budget == limit * Window

SlotFree == sent[Slot] = 0

BudgetAllows(bits) ==
    \/ bits + sent[Window] <= Budget
    \/ bits > Budget /\ sent[Window] = 0

Send(bits, charged) ==
    /\ IF limit = 0 THEN UNCHANGED <<debt, sent>>
       ELSE /\ debt' = IF charged THEN debt + Interval(bits) ELSE 0
            /\ sent' = [d \in Spans |-> IF d = 0 THEN 0 ELSE sent[d] + bits]
    /\ UNCHANGED limit

Reply ==
    /\ \E bits \in PacketBits, charged \in BOOLEAN :
          /\ charged \/ silence = Memory
          /\ Send(bits, charged)
    /\ silence' = IF silence < Memory THEN 0 ELSE silence
    /\ UNCHANGED sequence

Telemetry ==
    \E bits \in PacketBits :
        /\ limit # 0 => debt = 0 /\ SlotFree /\ BudgetAllows(bits)
        /\ Send(bits, TRUE)
        /\ sequence' = 1 - sequence
        /\ silence' = 0

Pass ==
    /\ debt' = IF debt > 0 THEN debt - 1 ELSE 0
    /\ sent' = [d \in Spans |-> IF d = 0 THEN 0 ELSE sent[d - 1]]
    /\ silence' = IF silence < Memory THEN silence + 1 ELSE silence
    /\ UNCHANGED <<limit, sequence>>

ChangeLimit ==
    /\ limit' \in Limits \ {limit}
    /\ debt' = 0 /\ sent' = Nothing /\ silence' = 0
    /\ UNCHANGED sequence

Next == Reply \/ Telemetry \/ Pass \/ ChangeLimit

Spec == Init /\ [][Next]_vars
=============================================================================
