---------------------------- MODULE RemoteErase ----------------------------
(***************************************************************************)
(* What the remote log erase promises the operator, whatever the UART, the *)
(* two boards' resets and the retransmissions do.                          *)
(*                                                                         *)
(* A request is asked once and answered at most once.  Its erase may run   *)
(* on the Secondary at most once per boot of the Secondary, and never      *)
(* after the erase of a later request.  OK and FAILED report an erase that *)
(* ran and ended so; TIMEOUT promises nothing, the erase may even run      *)
(* after it was reported; and a reset of the Primary forgets the request.  *)
(***************************************************************************)
EXTENDS Integers, Sequences

CONSTANT Storages   \* the two log storages of a board

VARIABLES
    jobs,      \* the accepted requests, in order: storage and answer so far
    effects,   \* the erases the Secondary ran, in order
    bootMark   \* how many of them before its last boot

vars == <<jobs, effects, bootMark>>

Answers == {"none", "OK", "FAILED", "TIMEOUT", "forgotten"}

Open(j) == j.answer = "none"

Init == jobs = <<>> /\ effects = <<>> /\ bootMark = 0

Ask(s) ==
    /\ \A t \in 1 .. Len(jobs) : ~Open(jobs[t])
    /\ jobs' = Append(jobs, [storage |-> s, answer |-> "none"])
    /\ UNCHANGED <<effects, bootMark>>

Erase(t, ok) ==
    /\ \A i \in 1 .. Len(effects) : effects[i].token <= t
    /\ \A i \in bootMark + 1 .. Len(effects) : effects[i].token # t
    /\ effects' = Append(effects, [token |-> t, storage |-> jobs[t].storage, ok |-> ok])
    /\ UNCHANGED <<jobs, bootMark>>

Ran(t, ok) ==
    \E i \in 1 .. Len(effects) :
        effects[i] = [token |-> t, storage |-> jobs[t].storage, ok |-> ok]

Answer(t, answer) ==
    /\ Open(jobs[t])
    /\ answer = "OK" => Ran(t, TRUE)
    /\ answer = "FAILED" => Ran(t, FALSE)
    /\ jobs' = [jobs EXCEPT ![t].answer = answer]
    /\ UNCHANGED <<effects, bootMark>>

SecondaryBoots ==
    /\ bootMark' = Len(effects)
    /\ UNCHANGED <<jobs, effects>>

Next ==
    \/ \E s \in Storages : Ask(s)
    \/ \E t \in 1 .. Len(jobs), ok \in BOOLEAN : Erase(t, ok)
    \/ \E t \in 1 .. Len(jobs), answer \in Answers \ {"none"} : Answer(t, answer)
    \/ SecondaryBoots

Spec == Init /\ [][Next]_vars
=============================================================================
