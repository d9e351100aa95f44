-------------------------- MODULE EraseLink_proofs --------------------------
(***************************************************************************)
(* Proofs about EraseLink, for all timeouts, attempts, resets and numbers  *)
(* of requests: its types, that a retransmission is not executed again,    *)
(* that a result is that of its own request, and that every step is one    *)
(* that RemoteErase allows.                                                *)
(*                                                                         *)
(* The argument: frames travel in the order of their requests, and never   *)
(* one of a request older than the last executed (Ordered).  A copy of     *)
(* that last request is sent before the request's deadline and read within *)
(* MaxPause, so it is younger than the window in which the Secondary still *)
(* knows the token (Timely).  Replies and results name erases that ran     *)
(* (Backed).                                                               *)
(***************************************************************************)
EXTENDS EraseLink, TLAPS

Tokens == 1 .. Len(jobs)

\* The open request is the last one accepted; all others were answered.
OneOpen ==
    /\ request.pending \/ request.ready =>
          /\ request.token = Len(jobs) /\ Len(jobs) > 0
          /\ jobs[request.token].storage = request.storage
          /\ jobs[request.token].answer = "none"
          /\ \A t \in Tokens : t # request.token => jobs[t].answer # "none"
    /\ ~request.pending /\ ~request.ready =>
          \A t \in Tokens : jobs[t].answer # "none"
    /\ ~(request.pending /\ request.ready)

\* A frame or a record of an erase names a request and its storage.
Names(x) == x.token \in Tokens /\ x.storage = jobs[x.token].storage

Named ==
    /\ \A i \in 1 .. Len(toSecondary) : Names(toSecondary[i])
    /\ \A i \in 1 .. Len(effects) : Names(effects[i])
    /\ secondary.have => Names(secondary)

\* Requests reach the Secondary, and are executed, in the order accepted.
Ordered ==
    /\ \A i, j \in 1 .. Len(toSecondary) :
          i <= j => toSecondary[i].token <= toSecondary[j].token
    /\ \A i \in 1 .. Len(effects), j \in 1 .. Len(toSecondary) :
          effects[i].token <= toSecondary[j].token
    /\ secondary.have => \A i \in 1 .. Len(effects) : effects[i].token <= secondary.token
    /\ secondary.have => \A j \in 1 .. Len(toSecondary) :
                            secondary.token <= toSecondary[j].token
    /\ ~secondary.have => bootMark = Len(effects)

\* A copy of the last executed request is younger than the window.
Timely ==
    /\ \A i \in 1 .. Len(toSecondary) :
          /\ toSecondary[i].old < RequestTimeout + toSecondary[i].waited
          /\ secondary.have /\ toSecondary[i].token = secondary.token =>
                secondary.age <= toSecondary[i].old
    /\ /\ request.pending /\ secondary.have /\ request.token = secondary.token
       /\ request.age < RequestTimeout
       => secondary.age <= request.age

HasRun(x) == \E i \in 1 .. Len(effects) : effects[i] = x

\* Acknowledgements and results are those of erases that ran.
Backed ==
    /\ secondary.have => HasRun([token |-> secondary.token,
                                 storage |-> secondary.storage, ok |-> secondary.ok])
    /\ \A i \in 1 .. Len(toPrimary) : HasRun(toPrimary[i])
    /\ secondary.ack => secondary.have
    /\ ResultIsTrue

IInv ==
    /\ TypeOK /\ OneOpen /\ Named /\ Ordered /\ Timely /\ Backed
    /\ AtMostOncePerBoot

-----------------------------------------------------------------------------
LEMMA ElementOfSeq ==
    ASSUME NEW S, NEW s \in Seq(S), NEW i \in 1 .. Len(s) PROVE s[i] \in S
OBVIOUS

LEMMA StartTypes ==
    /\ Idle \in Requests
    /\ \A n \in Nat, s \in Storages :
          [Idle EXCEPT !.pending = TRUE, !.token = n, !.storage = s] \in Requests
    /\ Booted \in Memories
<1>1. 0 \in 0 .. RequestTimeout /\ 0 \in 0 .. RetryPeriod /\ 0 \in 0 .. MaxAttempts
  BY EraseAssumption
<1>2. 0 \in 0 .. DedupeWindow + 1
  BY EraseAssumption
<1>3. Idle \in Requests
  BY <1>1 DEF Idle, Requests
<1>4. ASSUME NEW n \in Nat, NEW s \in Storages
      PROVE  [Idle EXCEPT !.pending = TRUE, !.token = n, !.storage = s] \in Requests
  BY <1>3 DEF Requests
<1>5. Booted \in Memories
  BY <1>2 DEF Booted, Memories
<1>6. QED
  BY <1>3, <1>4, <1>5

LEMMA InitEstablishes == Init => IInv
<1> SUFFICES ASSUME Init PROVE IInv
  OBVIOUS
<1>1. TypeOK
  <2>1. <<>> \in Seq(Frames) /\ <<>> \in Seq(Replies) /\ Len(<<>>) = 0
        /\ <<>> \in Seq(Jobs)
    OBVIOUS
  <2>2. /\ request = Idle /\ secondary = Booted /\ listening = TRUE /\ connected = FALSE
        /\ toSecondary = <<>> /\ toPrimary = <<>> /\ jobs = <<>> /\ effects = <<>>
        /\ resets = 0 /\ bootMark = 0
    BY DEF Init
  <2>3. bootMark \in 0 .. Len(effects) /\ resets \in Nat
    BY <2>1, <2>2
  <2>4. QED
    BY <2>1, <2>2, <2>3, StartTypes DEF TypeOK
<1> USE DEF Init, Idle, Booted
<1>2. OneOpen /\ Named /\ Ordered
  BY DEF OneOpen, Named, Ordered, Tokens
<1>3. Timely /\ Backed /\ AtMostOncePerBoot
  BY DEF Timely, Backed, ResultIsTrue, AtMostOncePerBoot
<1>4. QED
  BY <1>1, <1>2, <1>3 DEF IInv

\* Accepting a request opens a new, last token.
LEMMA RequestStep == ASSUME IInv, NEW s \in Storages, RequestErase(s) PROVE IInv'
<1> USE DEF RequestErase, linkVars, Idle
<1>1. /\ jobs \in Seq(Jobs)
      /\ Len(jobs) \in Nat /\ Len(jobs') = Len(jobs) + 1
      /\ jobs'[Len(jobs')] = [storage |-> s, answer |-> "none"]
      /\ \A t \in Tokens : jobs'[t] = jobs[t]
  BY DEF IInv, TypeOK, Tokens
<1>2. TypeOK'
  <2>1. [storage |-> s, answer |-> "none"] \in Jobs
    BY DEF Jobs, Promise!Answers
  <2>2. jobs' \in Seq(Jobs)
    BY <1>1, <2>1
  <2>3. request' \in Requests
    <3>1. Len(jobs') \in Nat
      BY <1>1
    <3> HIDE DEF Idle
    <3>2. QED
      BY <3>1, StartTypes
  <2>4. QED
    BY <2>2, <2>3 DEF IInv, TypeOK
<1>3. OneOpen'
  BY <1>1 DEF IInv, OneOpen, Tokens
<1>4. Named'
  BY <1>1 DEF IInv, Named, Names, Tokens, TypeOK
<1>5. Ordered'
  BY DEF IInv, Ordered
<1>6. Timely'
  BY <1>1 DEF IInv, Timely, Named, Names, Tokens
<1>7. Backed'
  BY DEF IInv, Backed, HasRun, ResultIsTrue
<1>8. AtMostOncePerBoot'
  BY DEF IInv, AtMostOncePerBoot
<1>9. QED
  BY <1>2, <1>3, <1>4, <1>5, <1>6, <1>7, <1>8 DEF IInv

LEMMA ExpireStep == IInv /\ Expire => IInv'
<1> SUFFICES ASSUME IInv, Expire PROVE IInv'
  OBVIOUS
<1> USE DEF Expire, linkVars, historyVars
<1>1. TypeOK'
  BY DEF IInv, TypeOK, Requests
<1>2. OneOpen'
  BY DEF IInv, OneOpen, Tokens, TypeOK, Requests
<1>3. Named' /\ Ordered'
  BY DEF IInv, Named, Names, Ordered, Tokens
<1>4. Timely'
  BY DEF IInv, Timely, TypeOK, Requests
<1>5. Backed'
  BY DEF IInv, Backed, HasRun, ResultIsTrue, TypeOK, Requests
<1>6. AtMostOncePerBoot'
  BY DEF IInv, AtMostOncePerBoot
<1>7. QED
  BY <1>1, <1>2, <1>3, <1>4, <1>5, <1>6 DEF IInv

LEMMA TransmitStep == IInv /\ Transmit => IInv'
<1> SUFFICES ASSUME IInv, Transmit PROVE IInv'
  OBVIOUS
<1> USE DEF Transmit, linkVars, historyVars
<1>1. /\ request \in Requests /\ request.pending /\ request.token = Len(jobs)
      /\ request.storage \in Storages /\ request.storage = jobs[request.token].storage
      /\ request.token \in Tokens
      /\ request.age < RequestTimeout /\ request.age \in Nat
  <2>1. request \in Requests /\ request.pending
    BY DEF IInv, TypeOK
  <2>2. /\ request.token = Len(jobs) /\ Len(jobs) > 0
        /\ request.storage = jobs[request.token].storage
    BY <2>1 DEF IInv, OneOpen
  <2>3. jobs \in Seq(Jobs) /\ Len(jobs) \in Nat
    BY DEF IInv, TypeOK
  <2>4. request.token \in 1 .. Len(jobs)
    BY <2>2, <2>3
  <2>5. jobs[request.token] \in Jobs
    BY <2>3, <2>4, ElementOfSeq
  <2>6. request.age \in Nat /\ request.age < RequestTimeout
    BY <2>1, EraseAssumption DEF Requests, Expired
  <2>7. QED
    BY <2>1, <2>2, <2>4, <2>5, <2>6 DEF Tokens, Jobs
<1> DEFINE frame == [token |-> request.token, storage |-> request.storage,
                     waited |-> 0, old |-> request.age]
<1>2. frame \in Frames
  BY <1>1, EraseAssumption DEF Frames, Requests
<1>3. request' \in Requests
  <2>1. request.attempts \in 0 .. MaxAttempts /\ request.sentAge \in 0 .. RetryPeriod
    BY <1>1 DEF Requests
  <2>2. request.attempts + 1 \in 0 .. MaxAttempts
    BY <2>1, EraseAssumption DEF Expired
  <2>3. 0 \in 0 .. RetryPeriod
    BY EraseAssumption
  <2>4. QED
    BY <1>1, <2>2, <2>3 DEF Requests
<1>4. CASE UNCHANGED toSecondary
  <2>1. TypeOK' /\ OneOpen'
    BY <1>1, <1>3, <1>4 DEF IInv, TypeOK, OneOpen, Tokens, Requests
  <2>2. Named' /\ Ordered'
    BY <1>4 DEF IInv, Named, Names, Ordered, Tokens
  <2>3. Timely' /\ Backed' /\ AtMostOncePerBoot'
    BY <1>1, <1>4 DEF IInv, Timely, Backed, HasRun, ResultIsTrue, AtMostOncePerBoot, Requests
  <2>4. QED
    BY <2>1, <2>2, <2>3 DEF IInv
<1>5. CASE toSecondary' = Append(toSecondary, frame)
  <2>1. /\ Len(toSecondary) \in Nat
        /\ Len(toSecondary') = Len(toSecondary) + 1
        /\ \A i \in 1 .. Len(toSecondary) : toSecondary'[i] = toSecondary[i]
        /\ toSecondary'[Len(toSecondary')] = frame
        /\ toSecondary' \in Seq(Frames)
    BY <1>2, <1>5 DEF IInv, TypeOK
  <2>2. TypeOK' /\ OneOpen'
    BY <1>1, <1>3, <2>1 DEF IInv, TypeOK, OneOpen, Tokens, Requests
  <2>3. Named'
    BY <1>1, <2>1 DEF IInv, Named, Names, Tokens
  <2>4. Ordered'
    <3>1. Len(jobs) \in Nat /\ Len(effects) \in Nat
      BY DEF IInv, TypeOK
    <3>2. /\ \A i \in 1 .. Len(toSecondary) : toSecondary[i].token <= Len(jobs)
          /\ \A i \in 1 .. Len(effects) : effects[i].token <= Len(jobs)
          /\ secondary.have => secondary.token <= Len(jobs)
      BY DEF IInv, Named, Names, Tokens
    <3>3. ASSUME NEW j \in 1 .. Len(toSecondary')
          PROVE  \/ j \in 1 .. Len(toSecondary) /\ toSecondary'[j] = toSecondary[j]
                 \/ j = Len(toSecondary') /\ toSecondary'[j].token = Len(jobs)
      BY <1>1, <2>1, <3>3
    <3>4. ASSUME NEW i \in 1 .. Len(toSecondary'), NEW j \in 1 .. Len(toSecondary'), i <= j
          PROVE  toSecondary'[i].token <= toSecondary'[j].token
      <4>1. CASE j \in 1 .. Len(toSecondary)
        BY <2>1, <3>4, <4>1 DEF IInv, Ordered
      <4>2. CASE j = Len(toSecondary')
        BY <1>1, <2>1, <3>1, <3>2, <3>3, <4>2
      <4>3. QED
        BY <2>1, <4>1, <4>2
    <3>5. ASSUME NEW i \in 1 .. Len(effects), NEW j \in 1 .. Len(toSecondary')
          PROVE  effects[i].token <= toSecondary'[j].token
      BY <3>2, <3>3 DEF IInv, Ordered
    <3>6. ASSUME secondary.have, NEW j \in 1 .. Len(toSecondary')
          PROVE  secondary.token <= toSecondary'[j].token
      BY <3>2, <3>3, <3>6 DEF IInv, Ordered
    <3>7. UNCHANGED <<effects, secondary, bootMark>>
      OBVIOUS
    <3>8. QED
      BY <3>4, <3>5, <3>6, <3>7 DEF IInv, Ordered
  <2>5. Timely'
    <3>1. request'.age = request.age /\ request'.pending /\ request'.token = request.token
      BY <1>1 DEF Requests
    <3>2. ASSUME NEW j \in 1 .. Len(toSecondary')
          PROVE  /\ toSecondary'[j].old < RequestTimeout + toSecondary'[j].waited
                 /\ secondary.have /\ toSecondary'[j].token = secondary.token =>
                       secondary.age <= toSecondary'[j].old
      <4>1. CASE j \in 1 .. Len(toSecondary)
        BY <2>1, <4>1 DEF IInv, Timely
      <4>2. CASE j = Len(toSecondary')
        <5>1. toSecondary'[j] = frame
          BY <2>1, <4>2
        <5>2. secondary.have /\ frame.token = secondary.token => secondary.age <= request.age
          BY <1>1 DEF IInv, Timely
        <5>3. request.age < RequestTimeout + 0
          BY <1>1, EraseAssumption
        <5>4. QED
          BY <5>1, <5>2, <5>3
      <4>3. QED
        BY <2>1, <4>1, <4>2
    <3>3. QED
      BY <3>1, <3>2 DEF IInv, Timely
  <2>6. Backed' /\ AtMostOncePerBoot'
    BY <1>1 DEF IInv, Backed, HasRun, ResultIsTrue, AtMostOncePerBoot, Requests
  <2>7. QED
    BY <2>2, <2>3, <2>4, <2>5, <2>6 DEF IInv
<1>6. QED
  BY <1>4, <1>5

LEMMA ReceiveStep == IInv /\ PrimaryReceives => IInv'
<1> SUFFICES ASSUME IInv, PrimaryReceives PROVE IInv'
  OBVIOUS
<1> USE DEF PrimaryReceives, historyVars
<1>1. /\ toPrimary \in Seq(Replies) /\ toPrimary # <<>> /\ request \in Requests
      /\ Head(toPrimary) = toPrimary[1] /\ Head(toPrimary) \in Replies
      /\ toPrimary' \in Seq(Replies)
      /\ Len(toPrimary') = Len(toPrimary) - 1
      /\ \A i \in 1 .. Len(toPrimary') : toPrimary'[i] = toPrimary[i + 1]
  BY DEF IInv, TypeOK
<1>2. CASE Matches(Head(toPrimary))
  <2>1. request' = [request EXCEPT !.pending = FALSE, !.ready = TRUE,
                       !.result = IF Head(toPrimary).ok THEN "OK" ELSE "FAILED"]
    BY <1>2
  <2>2. TypeOK' /\ OneOpen'
    <3>1. request' \in Requests /\ ~request'.pending /\ request'.ready /\ request.pending
          /\ request'.token = request.token /\ request'.storage = request.storage
      BY <1>1, <1>2, <2>1 DEF Requests, Matches
    <3>2. TypeOK'
      BY <1>1, <3>1 DEF IInv, TypeOK
    <3>3. OneOpen'
      BY <3>1 DEF IInv, OneOpen, Tokens
    <3>4. QED
      BY <3>2, <3>3
  <2>3. Named' /\ Ordered' /\ AtMostOncePerBoot'
    BY DEF IInv, Named, Names, Ordered, Tokens, AtMostOncePerBoot
  <2>4. Timely'
    BY <1>1, <2>1 DEF IInv, Timely, Requests
  <2>5. HasRun(Head(toPrimary))
    BY <1>1 DEF IInv, Backed
  <2>6. Head(toPrimary) = [token |-> request.token, storage |-> request.storage,
                           ok |-> (request'.result = "OK")]
    BY <1>1, <1>2, <2>1 DEF Matches, Replies, Requests
  <2>7. ResultIsTrue'
    BY <1>1, <2>1, <2>5, <2>6 DEF ResultIsTrue, HasRun, Requests
  <2>8. Backed'
    <3>1. ASSUME NEW i \in 1 .. Len(toPrimary') PROVE HasRun(toPrimary'[i])
      <4>1. i + 1 \in 1 .. Len(toPrimary) /\ toPrimary'[i] = toPrimary[i + 1]
        BY <1>1
      <4>2. QED
        BY <4>1 DEF IInv, Backed
    <3>2. UNCHANGED <<effects, secondary>>
      OBVIOUS
    <3>3. QED
      BY <2>7, <3>1, <3>2 DEF IInv, Backed, HasRun
  <2>9. QED
    BY <2>2, <2>3, <2>4, <2>8 DEF IInv
<1>3. CASE ~Matches(Head(toPrimary))
  <2>1. request' = request
    BY <1>3
  <2>2. TypeOK' /\ OneOpen' /\ Timely' /\ AtMostOncePerBoot'
    BY <1>1, <2>1 DEF IInv, TypeOK, OneOpen, Tokens, Timely, AtMostOncePerBoot
  <2>3. Named' /\ Ordered'
    BY DEF IInv, Named, Names, Ordered, Tokens
  <2>4. Backed'
    <3>1. ASSUME NEW i \in 1 .. Len(toPrimary') PROVE HasRun(toPrimary'[i])
      <4>1. i + 1 \in 1 .. Len(toPrimary) /\ toPrimary'[i] = toPrimary[i + 1]
        BY <1>1
      <4>2. QED
        BY <4>1 DEF IInv, Backed
    <3>2. UNCHANGED <<effects, secondary, request>>
      BY <2>1
    <3>3. ResultIsTrue'
      BY <3>2 DEF IInv, Backed, ResultIsTrue
    <3>4. QED
      BY <3>1, <3>2, <3>3 DEF IInv, Backed, HasRun
  <2>5. QED
    BY <2>2, <2>3, <2>4 DEF IInv
<1>4. QED
  BY <1>2, <1>3

\* Answering or forgetting the open request leaves only closed ones.
LEMMA ClosedKeeps ==
    ASSUME IInv,
           jobs' \in Seq(Jobs), Len(jobs') = Len(jobs),
           \A t \in Tokens : jobs'[t].storage = jobs[t].storage /\ jobs'[t].answer # "none",
           request' \in Requests, ~request'.pending, ~request'.ready,
           toPrimary' = toPrimary \/ toPrimary' = <<>>,
           connected' \in BOOLEAN, resets' \in Nat,
           UNCHANGED <<toSecondary, secondary, listening, effects, bootMark>>
    PROVE  IInv'
<1>1. toPrimary' \in Seq(Replies) /\ \A i \in 1 .. Len(toPrimary') : HasRun(toPrimary'[i])
  <2>1. CASE toPrimary' = toPrimary
    BY <2>1 DEF IInv, TypeOK, Backed
  <2>2. CASE toPrimary' = <<>>
    BY <2>2
  <2>3. QED
    BY <2>1, <2>2
<1>2. TypeOK'
  BY <1>1 DEF IInv, TypeOK
<1>3. OneOpen'
  BY DEF OneOpen, Tokens
<1>4. Named'
  BY DEF IInv, Named, Names, Tokens
<1>5. Ordered' /\ Timely' /\ AtMostOncePerBoot'
  BY DEF IInv, Ordered, Timely, AtMostOncePerBoot
<1>6. Backed'
  BY <1>1 DEF IInv, Backed, HasRun, ResultIsTrue
<1>7. QED
  BY <1>2, <1>3, <1>4, <1>5, <1>6 DEF IInv

LEMMA AnswerWritten ==
    ASSUME IInv, request.pending \/ request.ready, NEW a \in Promise!Answers \ {"none"},
           jobs' = [jobs EXCEPT ![request.token].answer = a]
    PROVE  /\ jobs' \in Seq(Jobs) /\ Len(jobs') = Len(jobs)
           /\ \A t \in Tokens :
                 jobs'[t].storage = jobs[t].storage /\ jobs'[t].answer # "none"
<1>1. jobs \in Seq(Jobs) /\ Len(jobs) \in Nat
  BY DEF IInv, TypeOK
<1>2. /\ request.token \in 1 .. Len(jobs)
      /\ \A t \in Tokens : t # request.token => jobs[t].answer # "none"
  BY <1>1 DEF IInv, OneOpen
<1>3. \A t \in 1 .. Len(jobs) : jobs[t] \in Jobs
  BY <1>1, ElementOfSeq
<1>4. [jobs[request.token] EXCEPT !.answer = a] \in Jobs
  BY <1>2, <1>3 DEF Jobs
<1>5. jobs' = [jobs EXCEPT ![request.token] = [jobs[request.token] EXCEPT !.answer = a]]
  OBVIOUS
<1>6. jobs' \in Seq(Jobs) /\ Len(jobs') = Len(jobs)
  BY <1>1, <1>2, <1>4, <1>5
<1>7. ASSUME NEW t \in Tokens
      PROVE  jobs'[t].storage = jobs[t].storage /\ jobs'[t].answer # "none"
  BY <1>1, <1>2, <1>3, <1>5 DEF Tokens, Jobs
<1>8. QED
  BY <1>6, <1>7

LEMMA ReportStep == IInv /\ ReportResult => IInv'
<1> SUFFICES ASSUME IInv, ReportResult PROVE IInv'
  OBVIOUS
<1>1. request \in Requests /\ request.ready /\ ~request.pending
  BY DEF IInv, TypeOK, OneOpen, ReportResult
<1>2. request.result \in Promise!Answers \ {"none"}
  BY <1>1 DEF Requests, Promise!Answers
<1>3. request' \in Requests /\ ~request'.pending /\ ~request'.ready
  BY <1>1 DEF ReportResult, Requests
<1>4. connected' \in BOOLEAN /\ resets' \in Nat
  BY DEF IInv, TypeOK, ReportResult
<1>5. QED
  BY <1>1, <1>2, <1>3, <1>4, AnswerWritten, ClosedKeeps DEF ReportResult, linkVars

LEMMA PrimaryResetStep == IInv /\ PrimaryResets => IInv'
<1> SUFFICES ASSUME IInv, PrimaryResets PROVE IInv'
  OBVIOUS
<1>1. request' \in Requests /\ ~request'.pending /\ ~request'.ready
  BY StartTypes DEF PrimaryResets, Idle
<1>2. connected' \in BOOLEAN /\ resets' \in Nat /\ toPrimary' = <<>>
  <2>1. connected' = FALSE /\ toPrimary' = <<>>
    BY DEF PrimaryResets
  <2>2. resets' \in Nat
    BY DEF IInv, TypeOK, PrimaryResets
  <2>3. QED
    BY <2>1, <2>2
<1>3. /\ jobs' \in Seq(Jobs) /\ Len(jobs') = Len(jobs)
      /\ \A t \in Tokens :
            jobs'[t].storage = jobs[t].storage /\ jobs'[t].answer # "none"
  <2>1. CASE request.pending \/ request.ready
    <3>1. "forgotten" \in Promise!Answers \ {"none"}
      BY DEF Promise!Answers
    <3>2. QED
      BY <2>1, <3>1, AnswerWritten DEF PrimaryResets, ForgetOpenRequest
  <2>2. CASE ~(request.pending \/ request.ready)
    BY <2>2 DEF IInv, TypeOK, OneOpen, PrimaryResets, ForgetOpenRequest
  <2>3. QED
    BY <2>1, <2>2
<1>4. QED
  BY <1>1, <1>2, <1>3, ClosedKeeps DEF PrimaryResets

\* A frame is read: a known retry is only acknowledged, a new one is newer
\* than every erase of this boot.
LEMMA HandleStep == IInv /\ HandleEraseCommand => IInv'
<1> SUFFICES ASSUME IInv, HandleEraseCommand PROVE IInv'
  OBVIOUS
<1> DEFINE frame == Head(toSecondary)
<1>1. /\ toSecondary \in Seq(Frames) /\ toSecondary # <<>> /\ Len(toSecondary) \in Nat
      /\ 1 \in 1 .. Len(toSecondary) /\ frame = toSecondary[1]
      /\ toSecondary' \in Seq(Frames)
      /\ Len(toSecondary') = Len(toSecondary) - 1
      /\ \A i \in 1 .. Len(toSecondary') :
            i + 1 \in 1 .. Len(toSecondary) /\ toSecondary'[i] = toSecondary[i + 1]
  BY DEF IInv, TypeOK, HandleEraseCommand
<1>2. frame \in Frames
  BY <1>1, ElementOfSeq
<1>3. UNCHANGED <<request, toPrimary, listening, connected, resets, jobs, bootMark>>
  BY DEF HandleEraseCommand
<1> HIDE DEF frame
<1>4. Names(frame)
  BY <1>1 DEF IInv, Named
<1>5. CASE KnownRetry(frame)
  <2>1. secondary' = [secondary EXCEPT !.ack = TRUE] /\ effects' = effects
    BY <1>5 DEF HandleEraseCommand, frame
  <2>2. secondary \in Memories /\ secondary.have
    BY <1>5 DEF IInv, TypeOK, KnownRetry
  <2>3. /\ secondary' \in Memories /\ secondary'.have = secondary.have
        /\ secondary'.token = secondary.token /\ secondary'.storage = secondary.storage
        /\ secondary'.ok = secondary.ok /\ secondary'.age = secondary.age
    BY <2>1, <2>2 DEF Memories
  <2>4. TypeOK' /\ OneOpen' /\ AtMostOncePerBoot'
    BY <1>1, <1>3, <2>1, <2>3 DEF IInv, TypeOK, OneOpen, Tokens, AtMostOncePerBoot
  <2>5. Named'
    BY <1>1, <1>3, <2>1, <2>3 DEF IInv, Named, Names, Tokens
  <2>6. Ordered'
    BY <1>1, <1>3, <2>1, <2>3 DEF IInv, Ordered
  <2>7. Timely'
    BY <1>1, <1>3, <2>1, <2>3 DEF IInv, Timely
  <2>8. Backed'
    BY <1>3, <2>1, <2>2, <2>3 DEF IInv, Backed, HasRun, ResultIsTrue
  <2>9. QED
    BY <2>4, <2>5, <2>6, <2>7, <2>8 DEF IInv
<1>6. CASE ~KnownRetry(frame)
  <2>1. PICK ok \in BOOLEAN :
           /\ secondary' = [ have |-> TRUE, token |-> frame.token,
                             storage |-> frame.storage, ok |-> ok, age |-> 0, ack |-> TRUE ]
           /\ effects' = Append(effects,
                 [token |-> frame.token, storage |-> frame.storage, ok |-> ok])
    BY <1>6 DEF HandleEraseCommand, frame
  <2> DEFINE effect == [token |-> frame.token, storage |-> frame.storage, ok |-> ok]
  <2>2. effect \in Replies
    BY <1>2 DEF Frames, Replies
  <2>3. /\ effects \in Seq(Replies) /\ Len(effects) \in Nat /\ effects' \in Seq(Replies)
        /\ Len(effects') = Len(effects) + 1
        /\ \A i \in 1 .. Len(effects) : effects'[i] = effects[i]
        /\ effects'[Len(effects')] = effect
    BY <2>1, <2>2 DEF IInv, TypeOK
  <2>4. ASSUME NEW i \in 1 .. Len(effects')
        PROVE  \/ i \in 1 .. Len(effects) /\ effects'[i] = effects[i]
               \/ i = Len(effects') /\ effects'[i] = effect
    BY <2>3
  <2>5. /\ secondary'.have /\ secondary'.token = frame.token
        /\ secondary'.storage = frame.storage /\ secondary'.ok = ok /\ secondary'.age = 0
        /\ secondary' \in Memories
    <3>1. 0 \in 0 .. DedupeWindow + 1
      BY EraseAssumption
    <3>2. QED
      BY <1>2, <2>1, <3>1 DEF Memories, Frames
  <2>6. TypeOK' /\ OneOpen'
    BY <1>1, <1>3, <2>3, <2>5 DEF IInv, TypeOK, OneOpen, Tokens
  <2> HIDE DEF effect
  <2>7. effect.token = frame.token /\ effect.storage = frame.storage
    BY DEF effect
  <2>8. Named'
    <3>1. ASSUME NEW i \in 1 .. Len(toSecondary') PROVE Names(toSecondary'[i])
      BY <1>1 DEF IInv, Named
    <3>2. ASSUME NEW i \in 1 .. Len(effects') PROVE Names(effects'[i])
      BY <1>4, <2>4, <2>7 DEF IInv, Named, Names
    <3>3. Names(secondary')
      BY <1>4, <2>5 DEF Names
    <3>4. QED
      BY <1>3, <3>1, <3>2, <3>3 DEF Named, Names, Tokens
  <2>9. Ordered'
    <3>1. ASSUME NEW i \in 1 .. Len(effects)
          PROVE  effects[i].token <= frame.token
      BY <1>1 DEF IInv, Ordered
    <3>2. ASSUME NEW j \in 1 .. Len(toSecondary')
          PROVE  /\ frame.token <= toSecondary'[j].token
                 /\ \A i \in 1 .. Len(effects) : effects[i].token <= toSecondary'[j].token
      BY <1>1 DEF IInv, Ordered
    <3>3. frame.token \in Nat
      BY <1>2 DEF Frames
    <3>4. ASSUME NEW i \in 1 .. Len(effects') PROVE effects'[i].token <= frame.token
      BY <2>4, <2>7, <3>1, <3>3
    <3>5. ASSUME NEW i \in 1 .. Len(effects'), NEW j \in 1 .. Len(toSecondary')
          PROVE  effects'[i].token <= toSecondary'[j].token
      BY <2>4, <2>7, <3>2
    <3>6. ASSUME NEW i \in 1 .. Len(toSecondary'), NEW j \in 1 .. Len(toSecondary'), i <= j
          PROVE  toSecondary'[i].token <= toSecondary'[j].token
      BY <1>1, <3>6 DEF IInv, Ordered
    <3>7. QED
      BY <2>5, <3>2, <3>4, <3>5, <3>6 DEF Ordered
  <2>10. Timely'
    <3>1. ASSUME NEW i \in 1 .. Len(toSecondary')
          PROVE  /\ toSecondary'[i].old < RequestTimeout + toSecondary'[i].waited
                 /\ 0 <= toSecondary'[i].old
      <4>1. toSecondary'[i] \in Frames
        BY <1>1, ElementOfSeq
      <4>2. toSecondary'[i] = toSecondary[i + 1] /\ i + 1 \in 1 .. Len(toSecondary)
        BY <1>1
      <4>3. toSecondary'[i].old \in Nat
        BY <4>1 DEF Frames
      <4>4. 0 <= toSecondary'[i].old
        BY <4>3
      <4>5. QED
        BY <4>2, <4>4 DEF IInv, Timely
    <3>2. 0 <= request.age
      BY EraseAssumption DEF IInv, TypeOK, Requests
    <3>3. QED
      BY <1>3, <2>5, <3>1, <3>2 DEF Timely
  <2>11. Backed'
    <3>1. ASSUME NEW x, HasRun(x) PROVE \E k \in 1 .. Len(effects') : effects'[k] = x
      <4>1. PICK k \in 1 .. Len(effects) : effects[k] = x
        BY <3>1 DEF HasRun
      <4>2. k \in 1 .. Len(effects') /\ effects'[k] = x
        BY <2>3, <4>1
      <4>3. QED
        BY <4>2
    <3>2. \E k \in 1 .. Len(effects') :
             effects'[k] = [ token |-> secondary'.token, storage |-> secondary'.storage,
                             ok |-> secondary'.ok ]
      <4>1. Len(effects') \in 1 .. Len(effects')
        BY <2>3
      <4>2. QED
        BY <2>3, <2>5, <4>1 DEF effect
    <3>3. \A i \in 1 .. Len(toPrimary') :
             \E k \in 1 .. Len(effects') : effects'[k] = toPrimary'[i]
      BY <1>3, <3>1 DEF IInv, Backed
    <3>4. ResultIsTrue'
      <4>1. CASE request.ready /\ request.result # "TIMEOUT"
        <5>1. HasRun([ token |-> request.token, storage |-> request.storage,
                       ok |-> (request.result = "OK") ])
          BY <4>1 DEF IInv, Backed, ResultIsTrue, HasRun
        <5>2. QED
          BY <1>3, <3>1, <5>1 DEF ResultIsTrue
      <4>2. CASE ~(request.ready /\ request.result # "TIMEOUT")
        BY <1>3, <4>2 DEF ResultIsTrue
      <4>3. QED
        BY <4>1, <4>2
    <3>5. QED
      BY <2>5, <3>2, <3>3, <3>4 DEF Backed, HasRun
  <2>12. ASSUME NEW i \in bootMark + 1 .. Len(effects) PROVE effects[i].token # frame.token
    <3>1. bootMark \in 0 .. Len(effects)
      BY DEF IInv, TypeOK
    <3>2. i \in 1 .. Len(effects) /\ bootMark # Len(effects)
      BY <2>3, <3>1
    <3>3. secondary.have
      BY <3>2 DEF IInv, Ordered
    <3>4. effects[i].token <= secondary.token /\ secondary.token <= frame.token
      BY <1>1, <3>2, <3>3 DEF IInv, Ordered
    <3>5. effects[i].token \in Nat /\ secondary.token \in Nat /\ frame.token \in Nat
      <4>1. effects[i] \in Replies /\ secondary \in Memories
        BY <2>3, <3>2, ElementOfSeq DEF IInv, TypeOK
      <4>2. QED
        BY <1>2, <4>1 DEF Memories, Replies, Frames
    <3>6. frame.token # secondary.token
      <4>1. SUFFICES ASSUME frame.token = secondary.token PROVE FALSE
        OBVIOUS
      <4>2. frame.storage = secondary.storage
        BY <1>4, <3>3, <4>1 DEF IInv, Named, Names
      <4>3. secondary.age <= frame.old /\ frame.old < RequestTimeout + frame.waited
        BY <1>1, <3>3, <4>1 DEF IInv, Timely
      <4>4. secondary.age \in Nat /\ frame.old \in Nat /\ frame.waited \in 0 .. MaxPause
        BY <1>2, EraseAssumption DEF IInv, TypeOK, Memories, Frames
      <4>5. secondary.age <= DedupeWindow
        BY <4>3, <4>4, EraseAssumption
      <4>6. QED
        BY <1>6, <3>3, <4>1, <4>2, <4>5 DEF KnownRetry
    <3>7. QED
      BY <3>4, <3>5, <3>6
  <2>13. AtMostOncePerBoot'
    <3>1. bootMark' = bootMark /\ bootMark \in Nat
      BY <1>3, <2>3 DEF IInv, TypeOK
    <3>2. SUFFICES ASSUME NEW i \in bootMark + 1 .. Len(effects'),
                          NEW j \in bootMark + 1 .. Len(effects'),
                          effects'[i].token = effects'[j].token
                   PROVE  i = j
      BY <3>1 DEF AtMostOncePerBoot
    <3>3. /\ i \in 1 .. Len(effects') /\ j \in 1 .. Len(effects')
          /\ i \in 1 .. Len(effects) => i \in bootMark + 1 .. Len(effects)
          /\ j \in 1 .. Len(effects) => j \in bootMark + 1 .. Len(effects)
      BY <2>3, <3>1
    <3>4. CASE i \in 1 .. Len(effects) /\ j \in 1 .. Len(effects)
      <4>1. effects[i].token = effects[j].token
        BY <2>3, <3>2, <3>4
      <4>2. QED
        BY <3>3, <3>4, <4>1 DEF IInv, AtMostOncePerBoot
    <3>5. CASE i = Len(effects') /\ j \in 1 .. Len(effects)
      BY <2>3, <2>7, <2>12, <3>2, <3>3, <3>5
    <3>6. CASE i \in 1 .. Len(effects) /\ j = Len(effects')
      BY <2>3, <2>7, <2>12, <3>2, <3>3, <3>6
    <3>7. QED
      BY <2>4, <3>3, <3>4, <3>5, <3>6
  <2>14. QED
    BY <2>6, <2>8, <2>9, <2>10, <2>11, <2>13 DEF IInv
<1>7. QED
  BY <1>5, <1>6

LEMMA AcknowledgeStep == IInv /\ Acknowledge => IInv'
<1> SUFFICES ASSUME IInv, Acknowledge PROVE IInv'
  OBVIOUS
<1> DEFINE reply == [token |-> secondary.token, storage |-> secondary.storage,
                     ok |-> secondary.ok]
<1>1. /\ secondary \in Memories /\ secondary.have
      /\ UNCHANGED <<request, toSecondary, listening, connected, resets, jobs,
                     effects, bootMark>>
  BY DEF IInv, TypeOK, Backed, Acknowledge, historyVars
<1>2. /\ secondary' \in Memories /\ secondary'.have /\ secondary'.token = secondary.token
      /\ secondary'.storage = secondary.storage /\ secondary'.ok = secondary.ok
      /\ secondary'.age = secondary.age /\ ~secondary'.ack
  BY <1>1 DEF Acknowledge, Memories
<1>3. reply \in Replies /\ HasRun(reply)
  <2>1. HasRun(reply)
    BY <1>1 DEF IInv, Backed
  <2>2. PICK k \in 1 .. Len(effects) : effects[k] = reply
    BY <2>1 DEF HasRun
  <2>3. effects[k] \in Replies
    BY <2>2, ElementOfSeq DEF IInv, TypeOK
  <2>4. QED
    BY <2>1, <2>2, <2>3
<1> HIDE DEF reply
<1>4. /\ toPrimary' \in Seq(Replies)
      /\ \A i \in 1 .. Len(toPrimary') : HasRun(toPrimary'[i])
  <2>1. toPrimary \in Seq(Replies) /\ \A i \in 1 .. Len(toPrimary) : HasRun(toPrimary[i])
    BY DEF IInv, TypeOK, Backed
  <2>2. CASE toPrimary' = toPrimary
    BY <2>1, <2>2
  <2>3. CASE toPrimary' = Append(toPrimary, reply)
    <3>1. toPrimary' \in Seq(Replies)
      BY <1>3, <2>1, <2>3
    <3>2. ASSUME NEW i \in 1 .. Len(toPrimary')
          PROVE  \/ i \in 1 .. Len(toPrimary) /\ toPrimary'[i] = toPrimary[i]
                 \/ toPrimary'[i] = reply
      BY <1>3, <2>1, <2>3
    <3>3. QED
      BY <1>3, <2>1, <3>1, <3>2
  <2>4. QED
    BY <2>2, <2>3 DEF Acknowledge, reply
<1>5. TypeOK' /\ OneOpen' /\ AtMostOncePerBoot'
  BY <1>1, <1>2, <1>4 DEF IInv, TypeOK, OneOpen, Tokens, AtMostOncePerBoot
<1>6. Named'
  BY <1>1, <1>2 DEF IInv, Named, Names, Tokens
<1>7. Ordered' /\ Timely'
  BY <1>1, <1>2 DEF IInv, Ordered, Timely
<1>8. Backed'
  BY <1>1, <1>2, <1>4 DEF IInv, Backed, HasRun, ResultIsTrue
<1>9. QED
  BY <1>5, <1>6, <1>7, <1>8 DEF IInv

\* A reset forgets the token together with every copy of it on its way.
LEMMA SecondaryResetStep == IInv /\ SecondaryResets => IInv'
<1> SUFFICES ASSUME IInv, SecondaryResets PROVE IInv'
  OBVIOUS
<1>1. /\ secondary' = Booted /\ secondary' \in Memories
      /\ ~secondary'.have /\ ~secondary'.ack
      /\ toSecondary' = <<>> /\ Len(toSecondary') = 0 /\ toSecondary' \in Seq(Frames)
      /\ listening' = TRUE /\ bootMark' = Len(effects)
      /\ UNCHANGED <<request, toPrimary, connected, jobs, effects>>
  <2>1. Booted \in Memories
    BY StartTypes
  <2>2. ~Booted.have /\ ~Booted.ack
    BY DEF Booted
  <2>3. /\ secondary' = Booted /\ toSecondary' = <<>> /\ listening' = TRUE
        /\ bootMark' = Len(effects)
        /\ UNCHANGED <<request, toPrimary, connected, jobs, effects>>
    BY DEF SecondaryResets
  <2>4. Len(toSecondary') = 0 /\ toSecondary' \in Seq(Frames)
    BY <2>3
  <2>5. QED
    BY <2>1, <2>2, <2>3, <2>4
<1>2. resets' \in Nat
  BY DEF IInv, TypeOK, SecondaryResets
<1>3. bootMark' \in 0 .. Len(effects)
  BY <1>1 DEF IInv, TypeOK
<1>4. TypeOK' /\ OneOpen'
  BY <1>1, <1>2, <1>3 DEF IInv, TypeOK, OneOpen, Tokens
<1>5. Named' /\ Ordered' /\ Timely'
  BY <1>1 DEF IInv, Named, Names, Tokens, Ordered, Timely
<1>6. Backed'
  BY <1>1 DEF IInv, Backed, HasRun, ResultIsTrue
<1>7. AtMostOncePerBoot'
  BY <1>1, <1>3 DEF IInv, TypeOK, AtMostOncePerBoot
<1>8. QED
  BY <1>4, <1>5, <1>6, <1>7 DEF IInv

LEMMA DownloadStep == IInv /\ SecondaryDownloads => IInv'
<1> SUFFICES ASSUME IInv, SecondaryDownloads PROVE IInv'
  OBVIOUS
<1>1. /\ toSecondary' = <<>> /\ Len(toSecondary') = 0 /\ toSecondary' \in Seq(Frames)
      /\ listening' = FALSE
      /\ UNCHANGED <<request, toPrimary, secondary, connected, resets, jobs,
                     effects, bootMark>>
  BY DEF SecondaryDownloads, historyVars
<1>2. TypeOK'
  BY <1>1 DEF IInv, TypeOK
<1>3. OneOpen'
  BY <1>1 DEF IInv, OneOpen, Tokens
<1>4. AtMostOncePerBoot'
  BY <1>1 DEF IInv, AtMostOncePerBoot
<1>5. Named'
  BY <1>1 DEF IInv, Named, Names, Tokens
<1>6. Ordered'
  BY <1>1 DEF IInv, Ordered
<1>7. Timely'
  BY <1>1 DEF IInv, Timely
<1>8. Backed'
  BY <1>1 DEF IInv, Backed, HasRun, ResultIsTrue
<1>9. QED
  BY <1>2, <1>3, <1>4, <1>5, <1>6, <1>7, <1>8 DEF IInv

LEMMA AgedFrame ==
    ASSUME NEW f \in Frames, f.waited + 1 \in 0 .. MaxPause, f.old + 1 \in Nat
    PROVE  LET g == [f EXCEPT !.waited = @ + 1, !.old = @ + 1]
           IN  /\ g \in Frames /\ g.token = f.token /\ g.storage = f.storage
               /\ g.waited = f.waited + 1 /\ g.old = f.old + 1
<1>1. ASSUME NEW w \in 0 .. MaxPause, NEW o \in Nat
      PROVE  LET g == [f EXCEPT !.waited = w, !.old = o]
             IN  /\ g \in Frames /\ g.token = f.token /\ g.storage = f.storage
                 /\ g.waited = w /\ g.old = o
  BY DEF Frames
<1>2. QED
  BY <1>1, Zenon

\* Time: a frame waits no longer than MaxPause, and the Secondary's memory
\* ages no faster than the frames do.
LEMMA TickStep == IInv /\ Tick => IInv'
<1> SUFFICES ASSUME IInv, Tick PROVE IInv'
  OBVIOUS
<1>1. UNCHANGED <<toPrimary, listening, connected, resets, jobs, effects, bootMark>>
  BY DEF Tick, historyVars
<1>2. toSecondary \in Seq(Frames) /\ Len(toSecondary) \in Nat
  BY DEF IInv, TypeOK
<1> DEFINE aged(f) == [f EXCEPT !.waited = @ + 1, !.old = @ + 1]
<1>3. /\ toSecondary' = [i \in 1 .. Len(toSecondary) |-> aged(toSecondary[i])]
      /\ \A i \in 1 .. Len(toSecondary) : toSecondary[i].waited < MaxPause
  BY DEF Tick
<1>4. ASSUME NEW i \in 1 .. Len(toSecondary)
      PROVE  /\ aged(toSecondary[i]) \in Frames
             /\ aged(toSecondary[i]).token = toSecondary[i].token
             /\ aged(toSecondary[i]).storage = toSecondary[i].storage
             /\ aged(toSecondary[i]).waited = toSecondary[i].waited + 1
             /\ aged(toSecondary[i]).old = toSecondary[i].old + 1
             /\ toSecondary[i].waited \in Nat /\ toSecondary[i].old \in Nat
  <2>1. toSecondary[i] \in Frames
    BY <1>2, ElementOfSeq
  <2>2. toSecondary[i].waited < MaxPause
    BY <1>3
  <2>3. /\ toSecondary[i].waited \in 0 .. MaxPause /\ toSecondary[i].old \in Nat
        /\ toSecondary[i].token \in Nat /\ toSecondary[i].storage \in Storages
    BY <2>1 DEF Frames
  <2>4. /\ toSecondary[i].waited + 1 \in 0 .. MaxPause /\ toSecondary[i].waited \in Nat
        /\ toSecondary[i].old + 1 \in Nat
    <3>1. MaxPause \in Nat
      BY EraseAssumption
    <3>2. ASSUME NEW n \in 0 .. MaxPause, n < MaxPause
          PROVE  n + 1 \in 0 .. MaxPause /\ n \in Nat
      BY <3>1, <3>2
    <3>3. toSecondary[i].waited \in 0 .. MaxPause
      BY <2>3
    <3>4. toSecondary[i].old + 1 \in Nat
      BY <2>3
    <3>5. toSecondary[i].waited + 1 \in 0 .. MaxPause /\ toSecondary[i].waited \in Nat
      BY ONLY <2>2, <3>2, <3>3
    <3>6. QED
      BY ONLY <3>4, <3>5
  <2>5. QED
    BY <2>1, <2>3, <2>4, AgedFrame, Zenon
<1> HIDE DEF aged
<1>5. /\ toSecondary' \in Seq(Frames) /\ Len(toSecondary') = Len(toSecondary)
      /\ \A i \in 1 .. Len(toSecondary) : toSecondary'[i] = aged(toSecondary[i])
  <2>1. \A i \in 1 .. Len(toSecondary) : aged(toSecondary[i]) \in Frames
    BY <1>4
  <2>2. QED
    BY <1>2, <1>3, <2>1
<1>6. /\ request' \in Requests /\ request'.pending = request.pending
      /\ request'.ready = request.ready /\ request'.token = request.token
      /\ request'.storage = request.storage /\ request'.result = request.result
      /\ request.pending /\ request'.age < RequestTimeout =>
            request'.age = request.age + 1 /\ request.age < RequestTimeout
  <2>1. request \in Requests
    BY DEF IInv, TypeOK
  <2>2. Older(request.age, RequestTimeout) \in 0 .. RequestTimeout
    BY <2>1, EraseAssumption DEF Older, Requests
  <2>3. Older(request.sentAge, RetryPeriod) \in 0 .. RetryPeriod
    BY <2>1, EraseAssumption DEF Older, Requests
  <2>4. Older(request.age, RequestTimeout) < RequestTimeout =>
           Older(request.age, RequestTimeout) = request.age + 1 /\ request.age < RequestTimeout
    BY <2>1, EraseAssumption DEF Older, Requests
  <2> HIDE DEF Older
  <2>5. QED
    BY <2>1, <2>2, <2>3, <2>4 DEF Tick, Requests
<1>7. /\ secondary' \in Memories /\ secondary'.have = secondary.have
      /\ secondary'.token = secondary.token /\ secondary'.storage = secondary.storage
      /\ secondary'.ok = secondary.ok /\ secondary'.ack = secondary.ack
      /\ secondary'.age <= secondary.age + 1 /\ secondary.age \in Nat
      /\ secondary'.age \in Nat
  <2>1. secondary \in Memories
    BY DEF IInv, TypeOK
  <2>2. secondary.age \in 0 .. DedupeWindow + 1
    BY <2>1 DEF Memories
  <2>3. /\ Older(secondary.age, DedupeWindow + 1) \in 0 .. DedupeWindow + 1
        /\ Older(secondary.age, DedupeWindow + 1) <= secondary.age + 1
    BY <2>2, EraseAssumption DEF Older
  <2> HIDE DEF Older
  <2>4. secondary.have => secondary' = [secondary EXCEPT
                                !.age = Older(secondary.age, DedupeWindow + 1)]
    BY DEF Tick
  <2>5. ~secondary.have => secondary' = secondary
    BY DEF Tick
  <2>6. secondary.age \in Nat /\ Older(secondary.age, DedupeWindow + 1) \in Nat
    BY <2>2, <2>3, EraseAssumption
  <2>7. CASE secondary.have
    BY <2>1, <2>3, <2>4, <2>6, <2>7 DEF Memories
  <2>8. CASE ~secondary.have
    BY <2>1, <2>5, <2>6, <2>8
  <2>9. QED
    BY <2>7, <2>8
<1>8. TypeOK'
  BY <1>1, <1>5, <1>6, <1>7 DEF IInv, TypeOK
<1>9. OneOpen'
  BY <1>1, <1>6 DEF IInv, OneOpen, Tokens
<1>10. Named'
  <2>1. ASSUME NEW i \in 1 .. Len(toSecondary') PROVE Names(toSecondary'[i])
    BY <1>4, <1>5 DEF IInv, Named, Names
  <2>2. ASSUME NEW i \in 1 .. Len(effects') PROVE Names(effects'[i])
    BY <1>1 DEF IInv, Named
  <2>3. secondary'.have => Names(secondary')
    BY <1>7 DEF IInv, Named, Names
  <2>4. QED
    BY <1>1, <2>1, <2>2, <2>3 DEF Named, Names, Tokens
<1>11. Ordered'
  BY <1>1, <1>4, <1>5, <1>7 DEF IInv, Ordered
<1>12. Timely'
  <2>1. ASSUME NEW i \in 1 .. Len(toSecondary')
        PROVE  /\ toSecondary'[i].old < RequestTimeout + toSecondary'[i].waited
               /\ secondary'.have /\ toSecondary'[i].token = secondary'.token =>
                     secondary'.age <= toSecondary'[i].old
    <3>1. i \in 1 .. Len(toSecondary)
      BY <1>5
    <3>2. /\ toSecondary[i].old < RequestTimeout + toSecondary[i].waited
          /\ secondary.have /\ toSecondary[i].token = secondary.token =>
                secondary.age <= toSecondary[i].old
      BY <3>1 DEF IInv, Timely
    <3>3. /\ toSecondary'[i].old = toSecondary[i].old + 1
          /\ toSecondary'[i].waited = toSecondary[i].waited + 1
          /\ toSecondary'[i].token = toSecondary[i].token
          /\ toSecondary[i].waited \in Nat /\ toSecondary[i].old \in Nat
      BY <1>4, <1>5, <3>1
    <3>4. RequestTimeout \in Nat
      BY EraseAssumption
    <3>5. toSecondary'[i].old < RequestTimeout + toSecondary'[i].waited
      BY <3>2, <3>3, <3>4
    <3>6. ASSUME secondary'.have, toSecondary'[i].token = secondary'.token
          PROVE  secondary'.age <= toSecondary'[i].old
      <4>1. secondary.age <= toSecondary[i].old
        BY <1>7, <3>2, <3>3, <3>6
      <4>2. QED
        BY <1>7, <3>3, <4>1
    <3>7. QED
      BY <3>5, <3>6
  <2>2. ASSUME request.pending, secondary.have, request.token = secondary.token,
               request'.age < RequestTimeout
        PROVE  secondary'.age <= request'.age
    <3>1. request.age \in Nat
      BY EraseAssumption DEF IInv, TypeOK, Requests
    <3>2. secondary.age <= request.age
      BY <1>6, <2>2 DEF IInv, Timely
    <3>3. QED
      BY <1>6, <1>7, <2>2, <3>1, <3>2
  <2>3. QED
    BY <1>6, <1>7, <2>1, <2>2 DEF Timely
<1>13. Backed'
  BY <1>1, <1>6, <1>7 DEF IInv, Backed, HasRun, ResultIsTrue
<1>14. AtMostOncePerBoot'
  BY <1>1 DEF IInv, AtMostOncePerBoot
<1>15. QED
  BY <1>8, <1>9, <1>10, <1>11, <1>12, <1>13, <1>14 DEF IInv

\* Contact with the ground station comes and goes.
LEMMA ContactStep == IInv /\ (GroundStationHeard \/ GroundStationLost) => IInv'
<1> SUFFICES ASSUME IInv, GroundStationHeard \/ GroundStationLost PROVE IInv'
  OBVIOUS
<1>1. /\ connected' \in BOOLEAN
      /\ UNCHANGED <<request, toSecondary, toPrimary, secondary, listening, resets,
                     jobs, effects, bootMark>>
  BY DEF GroundStationHeard, GroundStationLost, linkVars, historyVars
<1>2. TypeOK' /\ OneOpen' /\ AtMostOncePerBoot'
  BY <1>1 DEF IInv, TypeOK, OneOpen, Tokens, AtMostOncePerBoot
<1>3. Named' /\ Ordered' /\ Timely'
  BY <1>1 DEF IInv, Named, Names, Tokens, Ordered, Timely
<1>4. Backed'
  BY <1>1 DEF IInv, Backed, HasRun, ResultIsTrue
<1>5. QED
  BY <1>2, <1>3, <1>4 DEF IInv

LEMMA InvariantStep == IInv /\ [Next]_vars => IInv'
<1> SUFFICES ASSUME IInv, [Next]_vars PROVE IInv'
  OBVIOUS
<1>1. CASE Primary
  BY <1>1, RequestStep, ExpireStep, TransmitStep, ReceiveStep, ReportStep,
     PrimaryResetStep DEF Primary
<1>2. CASE Secondary
  BY <1>2, HandleStep, AcknowledgeStep, SecondaryResetStep, DownloadStep DEF Secondary
<1>3. CASE Environment
  BY <1>3, TickStep, ContactStep DEF Environment
<1>4. CASE UNCHANGED vars
  <2>1. TypeOK' /\ OneOpen' /\ AtMostOncePerBoot'
    BY <1>4 DEF vars, IInv, TypeOK, OneOpen, Tokens, AtMostOncePerBoot
  <2>2. Named' /\ Ordered' /\ Timely'
    BY <1>4 DEF vars, IInv, Named, Names, Tokens, Ordered, Timely
  <2>3. Backed'
    BY <1>4 DEF vars, IInv, Backed, HasRun, ResultIsTrue
  <2>4. QED
    BY <2>1, <2>2, <2>3 DEF IInv
<1>5. QED
  BY <1>1, <1>2, <1>3, <1>4 DEF Next

LEMMA Invariant == Spec => []IInv
<1>1. Init => IInv
  BY InitEstablishes
<1>2. IInv /\ [Next]_vars => IInv'
  BY InvariantStep
<1>3. QED
  BY <1>1, <1>2, PTL DEF Spec

\* Both boards' records, the frames and the history keep their types: no age
\* leaves its range and no frame names a storage that is not one.
THEOREM LinkTypeCorrect == Spec => []TypeOK
<1>1. IInv => TypeOK
  BY DEF IInv
<1>2. QED
  BY <1>1, Invariant, PTL

\* While the Secondary is not reset it executes no request twice, whatever
\* copies of it were sent, lost or late.
THEOREM RetryIsNotExecuted == Spec => []AtMostOncePerBoot
<1>1. IInv => AtMostOncePerBoot
  BY DEF IInv
<1>2. QED
  BY <1>1, Invariant, PTL

\* A result other than TIMEOUT is that of an erase that ran for this request.
THEOREM ResultIsTruthful == Spec => []ResultIsTrue
<1>1. IInv => ResultIsTrue
  BY DEF IInv, Backed
<1>2. QED
  BY <1>1, Invariant, PTL

-----------------------------------------------------------------------------
(* Refinement: every step of the two boards is a step of RemoteErase, or   *)
(* none.                                                                   *)

LEMMA RequestMapped ==
    ASSUME IInv, NEW s \in Storages, RequestErase(s) PROVE Promise!Ask(s)
<1>1. jobs' = Append(jobs, [storage |-> s, answer |-> "none"])
      /\ UNCHANGED <<effects, bootMark>>
  BY DEF RequestErase
<1>2. \A t \in 1 .. Len(jobs) : jobs[t].answer # "none"
  BY DEF RequestErase, IInv, OneOpen, Tokens
<1>3. QED
  BY <1>1, <1>2 DEF Promise!Ask, Promise!Open

LEMMA ReportMapped ==
    ASSUME IInv, ReportResult
    PROVE  \E t \in 1 .. Len(jobs), answer \in Promise!Answers \ {"none"} :
              Promise!Answer(t, answer)
<1> DEFINE t == request.token
<1>1. /\ t \in 1 .. Len(jobs) /\ jobs[t].answer = "none"
      /\ jobs[t].storage = request.storage
  BY DEF IInv, TypeOK, OneOpen, ReportResult
<1>2. request.result \in {"OK", "FAILED", "TIMEOUT"}
  BY DEF IInv, TypeOK, Requests
<1>3. /\ jobs' = [jobs EXCEPT ![t].answer = request.result]
      /\ UNCHANGED <<effects, bootMark>>
  BY DEF ReportResult
<1>4. request.result # "TIMEOUT" => Promise!Ran(t, request.result = "OK")
  BY <1>1 DEF IInv, Backed, ResultIsTrue, ReportResult, Promise!Ran
<1>5. request.result = "OK" => Promise!Ran(t, TRUE)
  <2>1. ASSUME request.result = "OK" PROVE (request.result = "OK") = TRUE
    BY <2>1
  <2>2. QED
    BY <1>4, <2>1
<1>6. request.result = "FAILED" => Promise!Ran(t, FALSE)
  <2>1. ASSUME request.result = "FAILED" PROVE (request.result = "OK") = FALSE
    BY <2>1
  <2>2. QED
    BY <1>4, <2>1
<1>7. Promise!Answer(t, request.result)
  BY <1>1, <1>3, <1>5, <1>6 DEF Promise!Answer, Promise!Open
<1>8. QED
  BY <1>1, <1>2, <1>7 DEF Promise!Answers

LEMMA PrimaryResetMapped ==
    ASSUME IInv, PrimaryResets
    PROVE  \/ UNCHANGED Promise!vars
           \/ \E t \in 1 .. Len(jobs), answer \in Promise!Answers \ {"none"} :
                 Promise!Answer(t, answer)
<1>1. UNCHANGED <<effects, bootMark>> /\ ForgetOpenRequest
  BY DEF PrimaryResets
<1>2. CASE request.pending \/ request.ready
  <2>1. /\ request.token \in 1 .. Len(jobs) /\ jobs[request.token].answer = "none"
    BY <1>2 DEF IInv, TypeOK, OneOpen
  <2>2. Promise!Answer(request.token, "forgotten")
    BY <1>1, <1>2, <2>1 DEF ForgetOpenRequest, Promise!Answer, Promise!Open
  <2>3. "forgotten" \in Promise!Answers \ {"none"}
    BY DEF Promise!Answers
  <2>4. QED
    BY <2>1, <2>2, <2>3
<1>3. CASE ~(request.pending \/ request.ready)
  BY <1>1, <1>3 DEF ForgetOpenRequest, Promise!vars
<1>4. QED
  BY <1>2, <1>3

\* The new erase is of the last executed request or a later one, and not of
\* one executed since the boot: AtMostOncePerBoot of the next state says so.
LEMMA HandleMapped ==
    ASSUME IInv, HandleEraseCommand
    PROVE  \/ UNCHANGED Promise!vars
           \/ \E t \in 1 .. Len(jobs), ok \in BOOLEAN : Promise!Erase(t, ok)
<1> DEFINE frame == Head(toSecondary)
<1>1. UNCHANGED <<jobs, bootMark>>
  BY DEF HandleEraseCommand
<1>2. /\ toSecondary \in Seq(Frames) /\ frame = toSecondary[1]
      /\ 1 \in 1 .. Len(toSecondary)
  BY DEF IInv, TypeOK, HandleEraseCommand
<1>3. Names(frame) /\ \A i \in 1 .. Len(effects) : effects[i].token <= frame.token
  BY <1>2 DEF IInv, Named, Ordered
<1>4. CASE effects' = effects
  BY <1>1, <1>4 DEF Promise!vars
<1>5. CASE \E ok \in BOOLEAN : effects' = Append(effects,
              [token |-> frame.token, storage |-> frame.storage, ok |-> ok])
  <2>1. PICK ok \in BOOLEAN : effects' = Append(effects,
              [token |-> frame.token, storage |-> frame.storage, ok |-> ok])
    BY <1>5
  <2> DEFINE effect == [token |-> frame.token, storage |-> frame.storage, ok |-> ok]
  <2>2. effects \in Seq(Replies) /\ Len(effects) \in Nat /\ bootMark \in 0 .. Len(effects)
    BY DEF IInv, TypeOK
  <2>3. effect.token = frame.token
    OBVIOUS
  <2> HIDE DEF effect
  <2>4. effects' = Append(effects, effect)
    BY <2>1 DEF effect
  <2>5. /\ Len(effects') = Len(effects) + 1
        /\ \A i \in 1 .. Len(effects) : effects'[i] = effects[i]
        /\ effects'[Len(effects')] = effect
    BY <2>2, <2>4
  <2>6. IInv'
    BY HandleStep
  <2>7. ASSUME NEW i \in bootMark + 1 .. Len(effects) PROVE effects[i].token # frame.token
    <3>1. /\ i \in bootMark' + 1 .. Len(effects') /\ i # Len(effects')
          /\ Len(effects') \in bootMark' + 1 .. Len(effects')
          /\ effects'[i] = effects[i]
      BY <1>1, <2>2, <2>5
    <3>2. effects'[i].token # effects'[Len(effects')].token
      BY <2>6, <3>1 DEF IInv, AtMostOncePerBoot
    <3>3. QED
      BY <2>3, <2>5, <3>1, <3>2
  <2>8. frame.token \in 1 .. Len(jobs) /\ frame.storage = jobs[frame.token].storage
    BY <1>3 DEF Names, Tokens
  <2>9. Promise!Erase(frame.token, ok)
    BY <1>1, <1>3, <2>1, <2>7, <2>8 DEF Promise!Erase
  <2>10. QED
    BY <2>8, <2>9
<1>6. QED
  BY <1>4, <1>5 DEF HandleEraseCommand

LEMMA StepMapped == IInv /\ [Next]_vars => [Promise!Next]_(Promise!vars)
<1> SUFFICES ASSUME IInv, [Next]_vars PROVE Promise!Next \/ UNCHANGED Promise!vars
  OBVIOUS
<1>1. CASE Primary
  <2>1. ASSUME NEW s \in Storages, RequestErase(s) PROVE Promise!Next
    BY <2>1, RequestMapped DEF Promise!Next
  <2>2. CASE Expire \/ Transmit \/ PrimaryReceives
    BY <2>2 DEF Expire, Transmit, PrimaryReceives, historyVars, Promise!vars
  <2>3. CASE ReportResult
    BY <2>3, ReportMapped DEF Promise!Next
  <2>4. CASE PrimaryResets
    BY <2>4, PrimaryResetMapped DEF Promise!Next
  <2>5. QED
    BY <1>1, <2>1, <2>2, <2>3, <2>4 DEF Primary
<1>2. CASE Secondary
  <2>1. CASE HandleEraseCommand
    BY <2>1, HandleMapped DEF Promise!Next
  <2>2. CASE SecondaryResets
    BY <2>2 DEF SecondaryResets, Promise!Next, Promise!SecondaryBoots
  <2>3. CASE Acknowledge \/ SecondaryDownloads
    BY <2>3 DEF Acknowledge, SecondaryDownloads, historyVars, Promise!vars
  <2>4. QED
    BY <1>2, <2>1, <2>2, <2>3 DEF Secondary
<1>3. CASE Environment
  BY <1>3 DEF Environment, Tick, GroundStationHeard, GroundStationLost, historyVars,
     Promise!vars
<1>4. CASE UNCHANGED vars
  BY <1>4 DEF vars, Promise!vars
<1>5. QED
  BY <1>1, <1>2, <1>3, <1>4 DEF Next

\* The two boards keep what RemoteErase promises the operator.
THEOREM ImplementsRemoteErase == Spec => KeepsPromise
<1>1. Init => Promise!Init
  BY DEF Init, Promise!Init
<1>2. IInv /\ [Next]_vars => [Promise!Next]_(Promise!vars)
  BY StepMapped
<1>3. QED
  BY <1>1, <1>2, Invariant, PTL DEF Spec, KeepsPromise, Promise!Spec
=============================================================================
