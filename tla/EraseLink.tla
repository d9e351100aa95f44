----------------------------- MODULE EraseLink -----------------------------
(***************************************************************************)
(* The remote log erase over the UART between the two boards.  The Primary *)
(* (src/src/teensy_link.cpp, commands.cpp, main.cpp) keeps one request,    *)
(* retransmits it until a reply or a deadline, and reports its result to   *)
(* the ground station; the Secondary executes a request, remembers the     *)
(* last token it executed, and answers every copy of it.                   *)
(*                                                                         *)
(* The boards are separate processors: an action is what one of them does  *)
(* with one frame.  Frames arrive in order or not at all (a full receive   *)
(* buffer, a reset).  A token, a hash of the request's time and command    *)
(* ID, is taken as unique: requests are numbered in the order accepted.    *)
(***************************************************************************)
EXTENDS Integers, Sequences

CONSTANTS
    Storages,        \* 'I' and 'B'
    RequestTimeout,  \* 12000 ms: the Primary gives a request up
    RetryPeriod,     \* 800 ms between two transmissions
    MaxAttempts,     \* 8 transmissions
    DedupeWindow,    \* 15000 ms: the Secondary still knows an executed token
    MaxPause,        \* the longest a frame waits for a Secondary that is up
    MaxRequests,     \* bound: requests accepted in a behaviour
    MaxResets        \* bound: resets of the two boards together

ASSUME EraseAssumption ==
    /\ RequestTimeout \in Nat \ {0} /\ RetryPeriod \in Nat
    /\ MaxAttempts \in Nat \ {0} /\ MaxPause \in Nat
    /\ DedupeWindow \in Nat /\ RequestTimeout + MaxPause <= DedupeWindow + 1
    /\ MaxRequests \in Nat /\ MaxResets \in Nat

VARIABLES
    request,      \* EraseRequest; age and sentAge are millis() differences
    toSecondary,  \* the !C frames on their way
    toPrimary,    \* the !R frames on their way
    secondary,    \* last_erase_*, ack_pending
    listening,    \* does the Secondary's loop reach teensy_link_update?
    connected,    \* ethernet_link_connected() on the Primary
    resets,       \* resets so far
    jobs, effects, bootMark    \* what was asked and done: see RemoteErase

linkVars    == <<toSecondary, toPrimary>>
historyVars == <<jobs, effects, bootMark>>
vars == <<request, toSecondary, toPrimary, secondary, listening, connected,
          resets, jobs, effects, bootMark>>

Idle == [ pending |-> FALSE, ready |-> FALSE, token |-> 0, storage |-> "none",
          result |-> "TIMEOUT", age |-> 0, sentAge |-> 0, attempts |-> 0 ]

Booted == [ have |-> FALSE, token |-> 0, storage |-> "none", ok |-> FALSE,
            age |-> 0, ack |-> FALSE ]

\* A timer that is only compared with its limit.
Older(age, limit) == IF age < limit THEN age + 1 ELSE limit

Init ==
    /\ request = Idle
    /\ toSecondary = <<>> /\ toPrimary = <<>>
    /\ secondary = Booted
    /\ listening = TRUE
    /\ connected = FALSE
    /\ resets = 0
    /\ jobs = <<>> /\ effects = <<>> /\ bootMark = 0

-----------------------------------------------------------------------------
(* The Primary                                                             *)

\* ERASE_I / ERASE_B with YES.  A busy request is answered NACK,BUSY.
RequestErase(s) ==
    /\ connected
    /\ ~request.pending /\ ~request.ready
    /\ Len(jobs) < MaxRequests
    /\ jobs' = Append(jobs, [storage |-> s, answer |-> "none"])
    /\ request' = [Idle EXCEPT !.pending = TRUE, !.token = Len(jobs'), !.storage = s]
    /\ UNCHANGED <<linkVars, secondary, listening, connected, resets, effects, bootMark>>

\* Mutant of Expired: no deadline.
ExpiredByAttempts == request.attempts >= MaxAttempts /\ request.sentAge >= RetryPeriod

Expired ==
    \/ request.age >= RequestTimeout
    \/ request.attempts >= MaxAttempts /\ request.sentAge >= RetryPeriod

\* Mutant of Expire: silence is reported as a failed erase.
ExpireAsFailed ==
    /\ request.pending /\ Expired
    /\ request' = [request EXCEPT !.pending = FALSE, !.ready = TRUE, !.result = "FAILED"]
    /\ UNCHANGED <<linkVars, secondary, listening, connected, resets, historyVars>>

Expire ==
    /\ request.pending /\ Expired
    /\ request' = [request EXCEPT !.pending = FALSE, !.ready = TRUE, !.result = "TIMEOUT"]
    /\ UNCHANGED <<linkVars, secondary, listening, connected, resets, historyVars>>

\* The frame is written if the transmit buffer has room; it may be lost.
Transmit ==
    /\ request.pending /\ ~Expired
    /\ request.attempts = 0 \/ request.sentAge >= RetryPeriod
    /\ request' = [request EXCEPT !.sentAge = 0, !.attempts = @ + 1]
    /\ \/ UNCHANGED toSecondary
       \/ /\ listening
          /\ toSecondary' = Append(toSecondary,
                [token |-> request.token, storage |-> request.storage,
                 waited |-> 0, old |-> request.age])
    /\ UNCHANGED <<toPrimary, secondary, listening, connected, resets, historyVars>>

MatchesAny(reply) == request.pending  \* mutant of Matches

Matches(reply) ==
    /\ request.pending
    /\ reply.token = request.token /\ reply.storage = request.storage

\* "Ignore late replies."
PrimaryReceives ==
    /\ toPrimary # <<>>
    /\ toPrimary' = Tail(toPrimary)
    /\ LET reply == Head(toPrimary)
       IN  request' = IF Matches(reply)
                      THEN [request EXCEPT !.pending = FALSE, !.ready = TRUE,
                               !.result = IF reply.ok THEN "OK" ELSE "FAILED"]
                      ELSE request
    /\ UNCHANGED <<toSecondary, secondary, listening, connected, resets, historyVars>>

\* main.cpp: the result is cleared only when the datagram was sent.
ReportResult ==
    /\ request.ready /\ connected
    /\ jobs' = [jobs EXCEPT ![request.token].answer = request.result]
    /\ request' = [request EXCEPT !.ready = FALSE]
    /\ UNCHANGED <<linkVars, secondary, listening, connected, resets, effects, bootMark>>

ForgetOpenRequest ==
    IF request.pending \/ request.ready
    THEN jobs' = [jobs EXCEPT ![request.token].answer = "forgotten"]
    ELSE UNCHANGED jobs

PrimaryResets ==
    /\ resets < MaxResets
    /\ resets' = resets + 1
    /\ request' = Idle
    /\ toPrimary' = <<>>
    /\ connected' = FALSE
    /\ ForgetOpenRequest
    /\ UNCHANGED <<toSecondary, secondary, listening, effects, bootMark>>

GroundStationHeard ==
    /\ ~connected /\ connected' = TRUE
    /\ UNCHANGED <<request, linkVars, secondary, listening, resets, historyVars>>

GroundStationLost ==
    /\ connected /\ connected' = FALSE
    /\ UNCHANGED <<request, linkVars, secondary, listening, resets, historyVars>>

-----------------------------------------------------------------------------
(* The Secondary                                                           *)

\* Mutant of KnownRetry: the window is one tick short.
KnownRetryEarly(frame) ==
    /\ secondary.have
    /\ frame.token = secondary.token /\ frame.storage = secondary.storage
    /\ secondary.age < DedupeWindow

\* "A retry after losing the ACK cannot erase newly logged samples again."
KnownRetry(frame) ==
    /\ secondary.have
    /\ frame.token = secondary.token /\ frame.storage = secondary.storage
    /\ secondary.age <= DedupeWindow

\* logger_erase_storage succeeds or fails; the ACK repeats what it returned.
HandleEraseCommand ==
    /\ listening /\ toSecondary # <<>>
    /\ toSecondary' = Tail(toSecondary)
    /\ LET frame == Head(toSecondary)
       IN  IF KnownRetry(frame)
           THEN /\ secondary' = [secondary EXCEPT !.ack = TRUE]
                /\ UNCHANGED effects
           ELSE \E ok \in BOOLEAN :
                /\ secondary' = [ have |-> TRUE, token |-> frame.token,
                                  storage |-> frame.storage, ok |-> ok,
                                  age |-> 0, ack |-> TRUE ]
                /\ effects' = Append(effects,
                      [token |-> frame.token, storage |-> frame.storage, ok |-> ok])
    /\ UNCHANGED <<request, toPrimary, listening, connected, resets, jobs, bootMark>>

\* One flag for all requests: the reply names the last token executed.
Acknowledge ==
    /\ listening /\ secondary.ack
    /\ secondary' = [secondary EXCEPT !.ack = FALSE]
    /\ \/ UNCHANGED toPrimary
       \/ toPrimary' = Append(toPrimary,
             [token |-> secondary.token, storage |-> secondary.storage, ok |-> secondary.ok])
    /\ UNCHANGED <<request, toSecondary, listening, connected, resets, historyVars>>

\* The token is kept in RAM only.  A reset also ends a USB download.
SecondaryResets ==
    /\ resets < MaxResets
    /\ resets' = resets + 1
    /\ secondary' = Booted
    /\ toSecondary' = <<>>
    /\ listening' = TRUE
    /\ bootMark' = Len(effects)
    /\ UNCHANGED <<request, toPrimary, connected, jobs, effects>>

\* USB download: the loop returns before the link is served, until a reset.
SecondaryDownloads ==
    /\ listening /\ listening' = FALSE
    /\ toSecondary' = <<>>
    /\ UNCHANGED <<request, toPrimary, secondary, connected, resets, historyVars>>

-----------------------------------------------------------------------------
Tick ==
    /\ \A i \in 1 .. Len(toSecondary) : toSecondary[i].waited < MaxPause
    /\ toSecondary' = [i \in 1 .. Len(toSecondary) |->
          [toSecondary[i] EXCEPT !.waited = @ + 1, !.old = @ + 1]]
    /\ request' = IF request.pending
                  THEN [request EXCEPT !.age = Older(@, RequestTimeout),
                                       !.sentAge = Older(@, RetryPeriod)]
                  ELSE request
    /\ secondary' = IF secondary.have
                    THEN [secondary EXCEPT !.age = Older(@, DedupeWindow + 1)]
                    ELSE secondary
    /\ UNCHANGED <<toPrimary, listening, connected, resets, historyVars>>

Primary ==
    \/ \E s \in Storages : RequestErase(s)
    \/ Expire \/ Transmit \/ PrimaryReceives \/ ReportResult \/ PrimaryResets

Secondary ==
    HandleEraseCommand \/ Acknowledge \/ SecondaryResets \/ SecondaryDownloads

Environment == Tick \/ GroundStationHeard \/ GroundStationLost

Next == Primary \/ Secondary \/ Environment

Spec == Init /\ [][Next]_vars

\* Both loops keep running and time passes.  Nothing makes a transmission
\* succeed: the deadline alone ends a request.
FairSpec ==
    /\ Spec
    /\ WF_vars(Tick) /\ WF_vars(Expire) /\ WF_vars(ReportResult)
    /\ WF_vars(HandleEraseCommand)

-----------------------------------------------------------------------------
(* Properties                                                              *)

Promise == INSTANCE RemoteErase WITH
    Storages <- Storages, jobs <- jobs, effects <- effects, bootMark <- bootMark

Requests ==
    [ pending : BOOLEAN, ready : BOOLEAN, token : Nat,
      storage : Storages \cup {"none"}, result : {"OK", "FAILED", "TIMEOUT"},
      age : 0 .. RequestTimeout, sentAge : 0 .. RetryPeriod, attempts : 0 .. MaxAttempts ]

Frames  == [token : Nat, storage : Storages, waited : 0 .. MaxPause, old : Nat]
Replies == [token : Nat, storage : Storages, ok : BOOLEAN]

Jobs    == [storage : Storages, answer : Promise!Answers]

Memories ==
    [ have : BOOLEAN, token : Nat, storage : Storages \cup {"none"}, ok : BOOLEAN,
      age : 0 .. DedupeWindow + 1, ack : BOOLEAN ]

\* Type invariant of the two boards, the link and the history.
TypeOK ==
    /\ request \in Requests
    /\ toSecondary \in Seq(Frames) /\ toPrimary \in Seq(Replies)
    /\ secondary \in Memories
    /\ listening \in BOOLEAN /\ connected \in BOOLEAN
    /\ resets \in Nat
    /\ jobs \in Seq(Jobs)
    /\ effects \in Seq(Replies)
    /\ bootMark \in 0 .. Len(effects)

\* The protocol keeps the promise of RemoteErase: an erase runs at most once
\* per boot of the Secondary and never after that of a later request, and
\* OK or FAILED is told only of an erase of the asked storage that ended so.
KeepsPromise == Promise!Spec

\* A retransmission is never executed again: while the Secondary is not
\* reset, the log written after an erase survives every copy of its request.
AtMostOncePerBoot ==
    \A i, j \in bootMark + 1 .. Len(effects) :
        effects[i].token = effects[j].token => i = j

\* A positive or negative result waiting for the ground station is that of
\* its own request, never of a late reply to an earlier one.
ResultIsTrue ==
    request.ready /\ request.result # "TIMEOUT" =>
        \E i \in 1 .. Len(effects) :
            effects[i] = [ token |-> request.token, storage |-> request.storage,
                           ok |-> (request.result = "OK") ]

Answered(t) == t <= Len(jobs) /\ jobs[t].answer # "none"

\* Every accepted request is answered (or lost with the Primary's RAM) once
\* the ground station stays in contact, also when the Secondary never does.
EveryRequestAnswered ==
    <>[]connected =>
        \A t \in 1 .. MaxRequests : t <= Len(jobs) ~> Answered(t)
=============================================================================
