------------------------ MODULE CommandSession_proofs ------------------------
(***************************************************************************)
(* Proofs about CommandSession, for every ID range, number of processes    *)
(* and number of commands: its types, and, when no datagram of an earlier  *)
(* ground-station process arrives, that commands run in order, that an     *)
(* answer is true, and that a stale command was overtaken.                 *)
(*                                                                         *)
(* The argument: all commands in flight are Coherent, their IDs being as   *)
(* far behind the ID of the current command as their numbers are.  So the  *)
(* difference of two IDs, read as an int16_t, is the difference of the     *)
(* numbers (DifferenceIsExact), also across the wrap-around.               *)
(***************************************************************************)
EXTENDS CommandSession, TLAPS

\* A command of the running process, with the ID that its number has.
Coherent(m) ==
    /\ m.session = gs.session
    /\ m.n \in 1 .. gs.current.n
    /\ \/ m.id = gs.current.id - (gs.current.n - m.n)
       \/ m.id = gs.current.id - (gs.current.n - m.n) + IdRange

\* The process sends commands only after its session was acknowledged.
ProcessOK ==
    /\ gs.waiting => gs.current.n > 0
    /\ gs.current.n > 0 => gs.ready /\ gs.current.session = gs.session

InFlight ==
    \A m \in uplink : m.kind = "CMD" => Coherent(m)

\* The acknowledgement of the session is received or on its way.
Acknowledged == gs.ready \/ \E r \in downlink : r.kind = "SESSION"

\* From then on the board remembers nothing but this session.
Remembered ==
    Acknowledged => \A i \in 1 .. Len(ran) : Coherent(ran[i]) /\ ran[i] \in everRan

\* What the board compares with is the last command it ran.
LastIsNewest ==
    /\ last.available => Len(ran) > 0 /\ last.response = ran[Len(ran)]
    /\ ~last.available => Len(ran) = 0

\* A response on its way is that of a command that ran.
Responses ==
    \A r \in downlink : r.kind = "RAN" =>
        r.command \in everRan /\ Coherent(r.command) /\ r.id = r.command.id

-----------------------------------------------------------------------------
(* Arithmetic of the IDs                                                   *)

LEMMA ModSmall ==
    ASSUME NEW N \in Nat \ {0}, NEW a \in 0 .. N - 1 PROVE a % N = a
  BY SMT

LEMMA ModNegative ==
    ASSUME NEW N \in Nat \ {0}, NEW a \in Int, -N <= a, a < 0 PROVE a % N = a + N
  BY SMT

\* Half the range is a positive number.
LEMMA HalfRange == Half \in Nat \ {0} /\ IdRange = 2 * Half /\ IdRange \in Nat \ {0}
  <1>1. Half \in Nat \ {0} /\ IdRange = 2 * Half
    BY SessionAssumption
  <1>2. ASSUME NEW h \in Nat \ {0}, NEW r, r = 2 * h PROVE r \in Nat \ {0}
    BY <1>2
  <1> QED BY <1>1, <1>2

\* Between 0 and the range, a difference of IDs that is k up to one turn is
\* read as k, when k is less than half the range.
LEMMA Wrapped ==
    ASSUME NEW h \in Nat \ {0}, NEW N, N = 2 * h, NEW k \in Int, -h < k, k < h,
           NEW x \in Int, -N < x, x < N, x \in {k, k + N, k - N}
    PROVE  (IF x % N < h THEN x % N ELSE (x % N) - N) = k
  <1>0. N \in Nat \ {0}
    OBVIOUS
  <1>1. CASE x >= 0
    <2>1. x % N = x
      BY <1>0, <1>1, ModSmall
    <2> QED BY <2>1, <1>1
  <1>2. CASE x < 0
    <2>1. x % N = x + N
      BY <1>0, <1>2, ModNegative
    <2> QED BY <2>1, <1>2
  <1> QED BY <1>1, <1>2

\* The difference of the IDs is that of the numbers.
LEMMA DifferenceIsExact ==
    ASSUME TypeOK, NEW m \in Commands, Coherent(m), Coherent(last.response),
           last.available
    PROVE  Difference(m.id) = m.n - last.response.n
  <1> DEFINE p == last.response
             c == gs.current
             k == m.n - p.n
             x == m.id - p.id
  <1>1. p \in Commands /\ c \in Commands /\ last.id = p.id
    BY DEF TypeOK
  <1>2. MaxCommands \in Nat /\ MaxCommands <= Half
    BY SessionAssumption, HalfRange
  <1>3. /\ m.n \in 1 .. c.n /\ p.n \in 1 .. c.n /\ c.n \in 0 .. MaxCommands
        /\ m.id \in 0 .. IdRange - 1 /\ p.id \in 0 .. IdRange - 1
        /\ c.id \in 0 .. IdRange - 1
    BY <1>1 DEF Coherent, Commands
  <1>4. /\ \/ m.id = c.id - (c.n - m.n) \/ m.id = c.id - (c.n - m.n) + IdRange
        /\ \/ p.id = c.id - (c.n - p.n) \/ p.id = c.id - (c.n - p.n) + IdRange
    BY DEF Coherent
  <1>5. k \in Int /\ -Half < k /\ k < Half
    BY <1>2, <1>3, HalfRange
  <1>6. x \in Int /\ -IdRange < x /\ x < IdRange
    BY <1>3, HalfRange
  <1>7. x \in {k, k + IdRange, k - IdRange}
    BY <1>3, <1>4, HalfRange
  <1>8. (IF x % IdRange < Half THEN x % IdRange ELSE (x % IdRange) - IdRange) = k
    BY <1>5, <1>6, <1>7, HalfRange, Wrapped
  <1> QED BY <1>1, <1>8 DEF Difference

-----------------------------------------------------------------------------
(* Types                                                                   *)

LEMMA NoCommandIsACommand == NoCommand \in Commands /\ NoCommand.n = 0
  <1>1. 0 \in 0 .. MaxSessions /\ 0 \in 0 .. MaxCommands /\ 0 \in 0 .. IdRange - 1
    BY SessionAssumption, HalfRange
  <1> QED BY <1>1 DEF NoCommand, Command, Commands

LEMMA ReplyKeepsType ==
    ASSUME TypeOK, NEW r \in Replies, Reply(r)
    PROVE  downlink' \subseteq Replies
  BY DEF Reply, TypeOK

LEMMA TypeInit == Init => TypeOK
  <1> SUFFICES ASSUME Init PROVE TypeOK
    OBVIOUS
  <1> USE DEF Init
  <1>1. last \in [available : BOOLEAN, id : 0 .. IdRange - 1, response : Commands]
    BY NoCommandIsACommand, HalfRange DEF Forgotten
  <1>2. ~last.available
    BY DEF Forgotten
  <1>3. gs \in [ session : 0 .. MaxSessions, ready : BOOLEAN,
                 current : Commands, waiting : BOOLEAN ]
    BY NoCommandIsACommand, SessionAssumption
  <1> QED BY <1>1, <1>2, <1>3 DEF TypeOK

\* A command or HELLO that reaches the board.
LEMMA TypeHandle == TypeOK /\ CommandsHandle => TypeOK'
  <1> SUFFICES ASSUME TypeOK, CommandsHandle PROVE TypeOK'
    OBVIOUS
  <1> PICK m \in uplink : IF m.kind = "HELLO" THEN HandleHello(m) ELSE HandleCommand(m)
    BY DEF CommandsHandle
  <1>1. m \in Datagrams
    BY DEF TypeOK
  <1>2. CASE m.kind = "HELLO" /\ HandleHello(m)
    <2>1. m.session \in 0 .. MaxSessions
      BY <1>1 DEF Datagrams, Commands
    <2>2. [kind |-> "SESSION", session |-> m.session] \in Replies
      BY <2>1 DEF Replies
    <2>3. downlink' \subseteq Replies
      BY <1>2, <2>2, ReplyKeepsType DEF HandleHello
    <2>4. /\ last' \in [available : BOOLEAN, id : 0 .. IdRange - 1, response : Commands]
          /\ ~last'.available
      BY <1>2, NoCommandIsACommand, HalfRange DEF HandleHello, Forgotten
    <2> QED BY <1>2, <2>3, <2>4 DEF HandleHello, TypeOK
  <1>3. CASE m.kind # "HELLO" /\ HandleCommand(m)
    <2>1. m \in Commands
      BY <1>1, <1>3 DEF Datagrams
    <2>2. m.id \in 0 .. IdRange - 1
      BY <2>1 DEF Commands
    <2>3. CASE RepeatResponse(m)
      <3>1. [kind |-> "RAN", command |-> last.response, id |-> m.id] \in Replies
        BY <2>2 DEF TypeOK, Replies
      <3>2. downlink' \subseteq Replies
        BY <2>3, <3>1, ReplyKeepsType DEF RepeatResponse
      <3> QED BY <2>3, <3>2 DEF RepeatResponse, histories, TypeOK
    <2>4. CASE RefuseStale(m)
      <3>1. [kind |-> "STALE", command |-> m, id |-> m.id] \in Replies
        BY <2>1, <2>2 DEF Replies
      <3>2. downlink' \subseteq Replies
        BY <2>4, <3>1, ReplyKeepsType DEF RefuseStale
      <3> QED BY <2>1, <2>4, <3>2 DEF RefuseStale, TypeOK
    <2>5. CASE RunCommand(m)
      <3>1. [kind |-> "RAN", command |-> m, id |-> m.id] \in Replies
        BY <2>1, <2>2 DEF Replies
      <3>2. downlink' \subseteq Replies
        BY <2>5, <3>1, ReplyKeepsType DEF RunCommand
      <3>3. /\ last' \in [available : BOOLEAN, id : 0 .. IdRange - 1, response : Commands]
            /\ last'.response.id = last'.id
        BY <2>1, <2>2, <2>5 DEF RunCommand
      <3>4. ran' \in Seq(Commands) /\ everRan' \subseteq Commands
        BY <2>1, <2>5 DEF RunCommand, TypeOK
      <3> QED BY <2>5, <3>2, <3>3, <3>4 DEF RunCommand, TypeOK
    <2> QED BY <1>3, <2>3, <2>4, <2>5 DEF HandleCommand
  <1> QED BY <1>2, <1>3

\* The next command of the process, with the next ID.
LEMMA NextCommand ==
    ASSUME TypeOK, GsSends
    PROVE  \E next \in Commands :
             /\ next.session = gs.session /\ next.n = gs.current.n + 1
             /\ gs.current.n > 0 => next.id = (gs.current.id + 1) % IdRange
             /\ gs' = [gs EXCEPT !.current = next, !.waiting = TRUE]
             /\ uplink' = uplink \cup {next}
  <1> PICK id \in IF gs.current.n = 0 THEN FirstIds ELSE {(gs.current.id + 1) % IdRange} :
        LET next == Command(gs.session, gs.current.n + 1, id)
        IN  /\ gs' = [gs EXCEPT !.current = next, !.waiting = TRUE]
            /\ uplink' = uplink \cup {next}
    BY DEF GsSends
  <1>1. gs.current \in Commands /\ gs.session \in 0 .. MaxSessions
    BY DEF TypeOK
  <1>2. gs.current.n \in 0 .. MaxCommands /\ gs.current.id \in 0 .. IdRange - 1
    BY <1>1 DEF Commands
  <1>3. (gs.current.id + 1) % IdRange \in 0 .. IdRange - 1
    BY <1>2, HalfRange
  <1>4. id \in 0 .. IdRange - 1
    BY <1>3, SessionAssumption
  <1>5. gs.current.n + 1 \in 0 .. MaxCommands
    BY <1>2, SessionAssumption, HalfRange DEF GsSends
  <1>6. Command(gs.session, gs.current.n + 1, id) \in Commands
    BY <1>1, <1>4, <1>5 DEF Command, Commands
  <1>7. gs.current.n > 0 => id = (gs.current.id + 1) % IdRange
    BY <1>2
  <1> DEFINE next == Command(gs.session, gs.current.n + 1, id)
  <1>8. next.session = gs.session /\ next.n = gs.current.n + 1 /\ next.id = id
    BY DEF Command
  <1> QED BY <1>6, <1>7, <1>8

LEMMA TypeGroundStation == TypeOK /\ GroundStation => TypeOK'
  <1> SUFFICES ASSUME TypeOK, GroundStation PROVE TypeOK'
    OBVIOUS
  <1>1. CASE GsStarts
    <2>1. gs.session + 1 \in 0 .. MaxSessions
      BY <1>1, SessionAssumption DEF GsStarts, TypeOK
    <2>2. gs' \in [ session : 0 .. MaxSessions, ready : BOOLEAN,
                    current : Commands, waiting : BOOLEAN ]
      BY <1>1, <2>1, NoCommandIsACommand DEF GsStarts
    <2>3. Hello(gs.session + 1) \in Datagrams
      BY <2>1 DEF Hello, Datagrams
    <2>4. uplink' \subseteq Datagrams /\ downlink' \subseteq Replies
      BY <1>1, <2>3 DEF GsStarts, TypeOK
    <2> QED BY <1>1, <2>2, <2>4 DEF GsStarts, TypeOK
  <1>2. CASE GsSessionAcknowledged
    BY <1>2 DEF GsSessionAcknowledged, histories, TypeOK
  <1>3. CASE GsSends
    <2> PICK next \in Commands :
          /\ gs' = [gs EXCEPT !.current = next, !.waiting = TRUE]
          /\ uplink' = uplink \cup {next}
      BY <1>3, NextCommand
    <2>1. uplink' \subseteq Datagrams
      BY DEF Datagrams, TypeOK
    <2>2. gs' \in [ session : 0 .. MaxSessions, ready : BOOLEAN,
                    current : Commands, waiting : BOOLEAN ]
      BY DEF TypeOK
    <2> QED BY <1>3, <2>1, <2>2 DEF GsSends, histories, TypeOK
  <1>4. CASE GsGivesUp
    BY <1>4 DEF GsGivesUp, histories, TypeOK
  <1>5. CASE GsReceives
    BY <1>5 DEF GsReceives, TypeOK
  <1> QED BY <1>1, <1>2, <1>3, <1>4, <1>5 DEF GroundStation

LEMMA TypeStep == TypeOK /\ [Next]_vars => TypeOK'
  <1> SUFFICES ASSUME TypeOK, [Next]_vars PROVE TypeOK'
    OBVIOUS
  <1>1. CASE Reset
    <2>1. /\ last' \in [available : BOOLEAN, id : 0 .. IdRange - 1, response : Commands]
          /\ ~last'.available
      BY <1>1, NoCommandIsACommand, HalfRange DEF Reset, Forgotten
    <2> QED BY <1>1, <2>1 DEF Reset, TypeOK
  <1>2. CASE UNCHANGED vars
    BY <1>2 DEF vars, TypeOK
  <1> QED BY <1>1, <1>2, TypeHandle, TypeGroundStation DEF Next

\* The session keeps its types, for any ID range and numbers of processes and
\* commands; the stored response is always the one to the stored ID.
THEOREM SessionTypeCorrect == Spec => []TypeOK
  BY TypeInit, TypeStep, PTL DEF Spec

-----------------------------------------------------------------------------
(* The invariant                                                           *)

\* IInv but for the types, which TypeStep keeps.
Safe == /\ ProcessOK /\ InFlight /\ Remembered /\ LastIsNewest /\ Responses
        /\ RanInOrder /\ AnsweredHasRun /\ StaleOnlyIfOvertaken

LEMMA SafeInit == Init => Safe
  <1> SUFFICES ASSUME Init PROVE Safe
    OBVIOUS
  <1>1. gs.current.n = 0 /\ ~gs.waiting
    BY NoCommandIsACommand DEF Init
  <1>2. Len(ran) = 0 /\ ran = <<>> /\ ~last.available
    BY DEF Init, Forgotten
  <1>3. uplink = {} /\ downlink = {} /\ answered = {} /\ refused = {}
    BY DEF Init
  <1> QED BY <1>1, <1>2, <1>3 DEF Safe, ProcessOK, InFlight, Remembered, LastIsNewest,
                                Responses, RanInOrder, AnsweredHasRun, StaleOnlyIfOvertaken

\* When a command reaches the board, all it remembers is of this session.
LEMMA OnlyThisSession ==
    ASSUME TypeOK, Safe, NEW m \in uplink, m.kind # "HELLO"
    PROVE  /\ m \in Commands /\ Coherent(m)
           /\ \A i \in 1 .. Len(ran) : Coherent(ran[i]) /\ ran[i] \in everRan
           /\ last.available =>
                 /\ Coherent(last.response) /\ last.response \in everRan
                 /\ \A i \in 1 .. Len(ran) : ran[i].n <= last.response.n
  <1>1. m \in Commands
    BY DEF TypeOK, Datagrams
  <1>2. Coherent(m)
    BY <1>1 DEF Safe, InFlight, Commands
  <1>3. gs.current.n > 0
    BY <1>1, <1>2 DEF Coherent, Commands, TypeOK
  <1>4. \A i \in 1 .. Len(ran) : Coherent(ran[i]) /\ ran[i] \in everRan
    BY <1>3 DEF Safe, ProcessOK, Acknowledged, Remembered
  <1>5. ASSUME last.available
        PROVE  /\ Coherent(last.response) /\ last.response \in everRan
               /\ \A i \in 1 .. Len(ran) : ran[i].n <= last.response.n
    <2>1. ran \in Seq(Commands) /\ Len(ran) \in Nat
      BY DEF TypeOK
    <2>2. Len(ran) \in 1 .. Len(ran) /\ last.response = ran[Len(ran)]
      BY <1>5, <2>1 DEF Safe, LastIsNewest
    <2>3. Coherent(last.response) /\ last.response \in everRan
      BY <1>4, <2>2
    <2>4. ASSUME NEW i \in 1 .. Len(ran) PROVE ran[i].n <= last.response.n
      <3>0. ran[i] \in Commands
        BY <2>1
      <3>1. ran[i].n \in Nat
        BY <3>0 DEF Commands
      <3>2. CASE i = Len(ran)
        BY <2>2, <3>1, <3>2
      <3>3. CASE i # Len(ran)
        <4>1. i < Len(ran) /\ ran[i].session = ran[Len(ran)].session
          BY <1>4, <2>1, <2>2, <3>3 DEF Coherent
        <4>2. ran[i].n < ran[Len(ran)].n
          BY <2>2, <4>1 DEF Safe, RanInOrder
        <4>3. last.response.n \in Nat
          BY DEF TypeOK, Commands
        <4> QED BY <2>2, <3>1, <4>2, <4>3
      <3> QED BY <3>2, <3>3
    <2> QED BY <2>3, <2>4
  <1> QED BY <1>1, <1>2, <1>4, <1>5

\* Two commands of the process with the same number have the same ID.
LEMMA SameNumberSameId ==
    ASSUME NEW c \in Nat, NEW id \in 0 .. IdRange - 1, NEW n \in 1 .. c,
           NEW x \in 0 .. IdRange - 1, NEW y \in 0 .. IdRange - 1,
           x = id - (c - n) \/ x = id - (c - n) + IdRange,
           y = id - (c - n) \/ y = id - (c - n) + IdRange
    PROVE  x = y
  BY HalfRange

LEMMA SafeHello ==
    ASSUME TypeOK, Safe, NEW m \in uplink, HandleHello(m)
    PROVE  Safe'
  <1>1. /\ UNCHANGED <<gs, uplink, everRan, answered, refused>>
        /\ ran' = <<>> /\ ~last'.available
        /\ \A r \in downlink' : r \in downlink \/ r.kind = "SESSION"
    BY DEF HandleHello, Forgotten, Reply
  <1>2. Len(ran') = 0
    BY <1>1
  <1>3. \A x : Coherent(x)' <=> Coherent(x)
    BY <1>1 DEF Coherent
  <1>4. ProcessOK' /\ AnsweredHasRun' /\ StaleOnlyIfOvertaken'
    BY <1>1 DEF Safe, ProcessOK, AnsweredHasRun, StaleOnlyIfOvertaken
  <1>5. InFlight' /\ Responses'
    BY <1>1, <1>3 DEF Safe, InFlight, Responses
  <1>6. Remembered' /\ LastIsNewest' /\ RanInOrder'
    BY <1>1, <1>2 DEF Remembered, LastIsNewest, RanInOrder
  <1> QED BY <1>4, <1>5, <1>6 DEF Safe

LEMMA SafeRepeat ==
    ASSUME TypeOK, Safe, NEW m \in uplink, m.kind # "HELLO", RepeatResponse(m)
    PROVE  Safe'
  <1> DEFINE p == last.response
             reply == [kind |-> "RAN", command |-> p, id |-> m.id]
  <1>1. /\ UNCHANGED <<last, gs, uplink, ran, everRan, answered, refused>>
        /\ \A r \in downlink' : r \in downlink \/ r = reply
    BY DEF RepeatResponse, Reply, histories
  <1>2. m \in Commands /\ Coherent(m) /\ Coherent(p) /\ p \in everRan /\ p \in Commands
    BY OnlyThisSession DEF RepeatResponse, TypeOK
  <1>3. m.id = p.id
    <2>1. m.n - p.n = 0
      BY <1>2, DifferenceIsExact DEF RepeatResponse
    <2>2. m.n \in Nat /\ p.n \in Nat
      BY <1>2 DEF Commands
    <2>3. m.n = p.n
      BY <2>1, <2>2
    <2>4. /\ gs.current.n \in Nat /\ gs.current.id \in 0 .. IdRange - 1
          /\ m.id \in 0 .. IdRange - 1 /\ p.id \in 0 .. IdRange - 1
      BY <1>2 DEF TypeOK, Commands
    <2> QED BY <1>2, <2>3, <2>4, SameNumberSameId DEF Coherent
  <1>4. \A x : Coherent(x)' <=> Coherent(x)
    BY <1>1 DEF Coherent
  <1>5. Responses'
    BY <1>1, <1>2, <1>3, <1>4 DEF Safe, Responses
  <1>6. Acknowledged' => Acknowledged
    BY <1>1 DEF Acknowledged
  <1>7. InFlight' /\ Remembered'
    BY <1>1, <1>4, <1>6 DEF Safe, InFlight, Remembered
  <1>8. /\ ProcessOK' /\ LastIsNewest' /\ RanInOrder'
        /\ AnsweredHasRun' /\ StaleOnlyIfOvertaken'
    BY <1>1 DEF Safe, ProcessOK, LastIsNewest, RanInOrder, AnsweredHasRun,
                StaleOnlyIfOvertaken
  <1> QED BY <1>5, <1>7, <1>8 DEF Safe

LEMMA SafeStale ==
    ASSUME TypeOK, Safe, NEW m \in uplink, m.kind # "HELLO", RefuseStale(m)
    PROVE  Safe'
  <1> DEFINE p == last.response
  <1>1. /\ UNCHANGED <<last, gs, uplink, ran, everRan, answered>>
        /\ refused' = refused \cup {m}
        /\ \A r \in downlink' : r \in downlink \/ r.kind = "STALE"
    BY DEF RefuseStale, Reply
  <1>2. m \in Commands /\ Coherent(m) /\ Coherent(p) /\ p \in everRan /\ p \in Commands
    BY OnlyThisSession DEF RefuseStale, TypeOK
  <1>3. p.session = m.session /\ p.n > m.n
    <2>1. m.n - p.n < 0
      BY <1>2, DifferenceIsExact DEF RefuseStale
    <2>2. m.n \in Nat /\ p.n \in Nat
      BY <1>2 DEF Commands
    <2> QED BY <1>2, <2>1, <2>2 DEF Coherent
  <1>4. StaleOnlyIfOvertaken'
    BY <1>1, <1>2, <1>3 DEF Safe, StaleOnlyIfOvertaken
  <1>5. \A x : Coherent(x)' <=> Coherent(x)
    BY <1>1 DEF Coherent
  <1>6. Acknowledged' => Acknowledged
    BY <1>1 DEF Acknowledged
  <1>7. InFlight' /\ Remembered' /\ Responses'
    BY <1>1, <1>5, <1>6 DEF Safe, InFlight, Remembered, Responses
  <1>8. ProcessOK' /\ LastIsNewest' /\ RanInOrder' /\ AnsweredHasRun'
    BY <1>1 DEF Safe, ProcessOK, LastIsNewest, RanInOrder, AnsweredHasRun
  <1> QED BY <1>4, <1>7, <1>8 DEF Safe

LEMMA SafeRun ==
    ASSUME TypeOK, Safe, NEW m \in uplink, m.kind # "HELLO", RunCommand(m)
    PROVE  Safe'
  <1> DEFINE reply == [kind |-> "RAN", command |-> m, id |-> m.id]
  <1>1. /\ UNCHANGED <<gs, uplink, answered, refused>>
        /\ last' = [available |-> TRUE, id |-> m.id, response |-> m]
        /\ ran' = Append(ran, m) /\ everRan' = everRan \cup {m}
        /\ \A r \in downlink' : r \in downlink \/ r = reply
    BY DEF RunCommand, Reply
  <1>2. /\ m \in Commands /\ Coherent(m)
        /\ \A i \in 1 .. Len(ran) : Coherent(ran[i]) /\ ran[i] \in everRan
    BY OnlyThisSession
  <1>3. ran \in Seq(Commands) /\ Len(ran) \in Nat
    BY DEF TypeOK
  <1>4. /\ Len(ran') = Len(ran) + 1 /\ ran'[Len(ran) + 1] = m
        /\ \A i \in 1 .. Len(ran) : ran'[i] = ran[i]
    BY <1>1, <1>2, <1>3
  <1>5. \A i \in 1 .. Len(ran) : ran[i].n < m.n
    <2>1. CASE last.available
      <3>1. m.n - last.response.n > 0
        BY <1>2, <2>1, OnlyThisSession, DifferenceIsExact DEF RunCommand
      <3>2. m.n \in Nat /\ last.response.n \in Nat
        BY <1>2 DEF TypeOK, Commands
      <3>3. ASSUME NEW i \in 1 .. Len(ran) PROVE ran[i].n < m.n
        <4>1. ran[i] \in Commands
          BY <1>3
        <4>2. ran[i].n \in Nat
          BY <4>1 DEF Commands
        <4>3. ran[i].n <= last.response.n
          BY <2>1, OnlyThisSession
        <4> QED BY <3>1, <3>2, <4>2, <4>3
      <3> QED BY <3>3
    <2>2. CASE ~last.available
      BY <2>2 DEF Safe, LastIsNewest
    <2> QED BY <2>1, <2>2
  <1>6. RanInOrder'
    <2> SUFFICES ASSUME NEW i \in 1 .. Len(ran'), NEW j \in 1 .. Len(ran'), i < j,
                        ran'[i].session = ran'[j].session
                 PROVE  ran'[i].n < ran'[j].n
      BY DEF RanInOrder
    <2>1. i \in 1 .. Len(ran) /\ ran'[i] = ran[i]
      BY <1>3, <1>4
    <2>2. CASE j = Len(ran) + 1
      BY <1>4, <1>5, <2>1, <2>2
    <2>3. CASE j # Len(ran) + 1
      <3>1. j \in 1 .. Len(ran) /\ ran'[j] = ran[j]
        BY <1>3, <1>4, <2>3
      <3> QED BY <2>1, <3>1 DEF Safe, RanInOrder
    <2> QED BY <2>2, <2>3
  <1>7. \A x : Coherent(x)' <=> Coherent(x)
    BY <1>1 DEF Coherent
  <1>8. Remembered'
    <2>1. ASSUME NEW i \in 1 .. Len(ran')
          PROVE  Coherent(ran'[i]) /\ ran'[i] \in everRan'
      <3>1. CASE i = Len(ran) + 1
        BY <1>1, <1>2, <1>4, <3>1
      <3>2. CASE i # Len(ran) + 1
        <4>1. i \in 1 .. Len(ran)
          BY <1>3, <1>4, <3>2
        <4> QED BY <1>1, <1>2, <1>4, <4>1
      <3> QED BY <3>1, <3>2
    <2> QED BY <1>1, <2>1 DEF Remembered, Coherent
  <1>9. LastIsNewest'
    BY <1>1, <1>3, <1>4 DEF LastIsNewest
  <1>10. Responses'
    BY <1>1, <1>2, <1>7 DEF Safe, Responses
  <1>11. InFlight' /\ ProcessOK'
    BY <1>1, <1>7 DEF Safe, InFlight, ProcessOK
  <1>12. AnsweredHasRun' /\ StaleOnlyIfOvertaken'
    BY <1>1 DEF Safe, AnsweredHasRun, StaleOnlyIfOvertaken
  <1> QED BY <1>6, <1>8, <1>9, <1>10, <1>11, <1>12 DEF Safe

LEMMA SafeReset == ASSUME TypeOK, Safe, Reset PROVE Safe'
  <1>1. /\ UNCHANGED <<gs, uplink, downlink, everRan, answered, refused>>
        /\ ran' = <<>> /\ ~last'.available
    BY DEF Reset, Forgotten
  <1>2. Len(ran') = 0
    BY <1>1
  <1>3. \A x : Coherent(x)' <=> Coherent(x)
    BY <1>1 DEF Coherent
  <1>4. ProcessOK' /\ InFlight' /\ Responses' /\ AnsweredHasRun' /\ StaleOnlyIfOvertaken'
    BY <1>1, <1>3 DEF Safe, ProcessOK, InFlight, Responses, AnsweredHasRun,
                      StaleOnlyIfOvertaken
  <1>5. Remembered' /\ LastIsNewest' /\ RanInOrder'
    BY <1>1, <1>2 DEF Remembered, LastIsNewest, RanInOrder
  <1> QED BY <1>4, <1>5 DEF Safe

\* A new process: everything of the earlier one is gone.
LEMMA SafeStart == ASSUME ~OldTraffic, TypeOK, Safe, GsStarts PROVE Safe'
  <1>1. /\ UNCHANGED <<last, ran>> /\ ~gs'.ready /\ ~gs'.waiting
        /\ uplink' = {Hello(gs.session + 1)} /\ downlink' = {}
        /\ answered' = {} /\ refused' = {}
    BY DEF GsStarts
  <1>2. gs'.current.n = 0
    BY NoCommandIsACommand DEF GsStarts
  <1>3. \A m \in uplink' : m.kind = "HELLO"
    BY <1>1 DEF Hello
  <1>4. ProcessOK' /\ InFlight'
    BY <1>1, <1>2, <1>3 DEF ProcessOK, InFlight
  <1>5. Remembered' /\ Responses'
    BY <1>1 DEF Remembered, Acknowledged, Responses
  <1>6. LastIsNewest' /\ RanInOrder' /\ AnsweredHasRun' /\ StaleOnlyIfOvertaken'
    BY <1>1 DEF Safe, LastIsNewest, RanInOrder, AnsweredHasRun, StaleOnlyIfOvertaken
  <1> QED BY <1>4, <1>5, <1>6 DEF Safe

LEMMA SafeAcknowledged ==
    ASSUME TypeOK, Safe, GsSessionAcknowledged PROVE Safe'
  <1>1. /\ UNCHANGED <<last, uplink, downlink, ran, everRan, answered, refused>>
        /\ gs' = [gs EXCEPT !.ready = TRUE]
        /\ \E r \in downlink : r.kind = "SESSION"
    BY DEF GsSessionAcknowledged, histories
  <1>2. gs'.current = gs.current /\ gs'.session = gs.session /\ gs'.waiting = gs.waiting
        /\ gs'.ready
    BY <1>1 DEF TypeOK
  <1>3. \A x : Coherent(x)' <=> Coherent(x)
    BY <1>2 DEF Coherent
  <1>4. Acknowledged
    BY <1>1 DEF Acknowledged
  <1>5. ProcessOK' /\ InFlight' /\ Remembered' /\ Responses'
    BY <1>1, <1>2, <1>3, <1>4 DEF Safe, ProcessOK, InFlight, Remembered, Responses
  <1>6. LastIsNewest' /\ RanInOrder' /\ AnsweredHasRun' /\ StaleOnlyIfOvertaken'
    BY <1>1 DEF Safe, LastIsNewest, RanInOrder, AnsweredHasRun, StaleOnlyIfOvertaken
  <1> QED BY <1>5, <1>6 DEF Safe

\* Counting the ID on, modulo the range, keeps every earlier one in place.
LEMMA IdsMoveOn ==
    ASSUME NEW c \in Nat, NEW id \in 0 .. IdRange - 1, NEW n \in 1 .. c,
           c < Half, NEW x \in 0 .. IdRange - 1,
           x = id - (c - n) \/ x = id - (c - n) + IdRange
    PROVE  LET next == (id + 1) % IdRange
           IN  x = next - (c + 1 - n) \/ x = next - (c + 1 - n) + IdRange
  <1> DEFINE next == (id + 1) % IdRange
  <1>1. CASE id + 1 < IdRange
    <2>1. next = id + 1
      BY <1>1, HalfRange, ModSmall
    <2> QED BY <2>1, HalfRange
  <1>2. CASE id + 1 = IdRange
    <2>1. next = 0
      BY <1>2, HalfRange
    <2> QED BY <1>2, <2>1, HalfRange
  <1> QED BY <1>1, <1>2, HalfRange

LEMMA SafeSends == ASSUME TypeOK, Safe, GsSends PROVE Safe'
  <1> PICK next \in Commands :
        /\ next.session = gs.session /\ next.n = gs.current.n + 1
        /\ gs.current.n > 0 => next.id = (gs.current.id + 1) % IdRange
        /\ gs' = [gs EXCEPT !.current = next, !.waiting = TRUE]
        /\ uplink' = uplink \cup {next}
    BY NextCommand
  <1>1. /\ UNCHANGED <<last, downlink, ran, everRan, answered, refused>>
        /\ gs'.session = gs.session /\ gs'.ready = gs.ready /\ gs.ready
    BY DEF GsSends, histories, TypeOK
  <1>2. /\ gs'.current = next /\ gs'.current.n = gs.current.n + 1
        /\ gs'.current.id = next.id
    BY DEF TypeOK
  <1>3. /\ gs.current.n \in Nat /\ gs.current.n < Half
        /\ gs.current.id \in 0 .. IdRange - 1
    <2>1. gs.current \in Commands
      BY DEF TypeOK
    <2>2. gs.current.n \in 0 .. MaxCommands /\ gs.current.id \in 0 .. IdRange - 1
      BY <2>1 DEF Commands
    <2>3. MaxCommands \in 0 .. Half /\ gs.current.n < MaxCommands
      BY SessionAssumption DEF GsSends
    <2> QED BY <2>2, <2>3, HalfRange
  <1>4. ASSUME NEW x \in Commands, Coherent(x) PROVE Coherent(x)'
    <2>1. x.id \in 0 .. IdRange - 1 /\ x.n \in 1 .. gs.current.n
      BY <1>4 DEF Coherent, Commands
    <2>2. gs.current.n > 0
      BY <1>3, <2>1
    <2>3. next.id = (gs.current.id + 1) % IdRange
      BY <2>2
    <2>4. \/ x.id = next.id - (gs.current.n + 1 - x.n)
          \/ x.id = next.id - (gs.current.n + 1 - x.n) + IdRange
      BY <1>3, <1>4, <2>1, <2>3, IdsMoveOn DEF Coherent
    <2>5. x.n \in 1 .. gs.current.n + 1
      BY <1>3, <2>1
    <2>6. x.session = gs.session
      BY <1>4 DEF Coherent
    <2>7. x.n \in 1 .. gs'.current.n
      BY <1>2, <2>5
    <2>8. \/ x.id = gs'.current.id - (gs'.current.n - x.n)
          \/ x.id = gs'.current.id - (gs'.current.n - x.n) + IdRange
      <3>1. next.id \in Int
        BY HalfRange DEF Commands
      <3> QED BY <1>2, <1>3, <2>1, <2>4, <3>1, HalfRange
    <2>9. x.session = gs'.session
      BY <1>1, <2>6
    <2> QED BY <2>7, <2>8, <2>9 DEF Coherent
  <1>5. Coherent(next)'
    <2>1. next.n \in 1 .. next.n
      BY <1>3
    <2>2. next.id \in Int
      BY HalfRange DEF Commands
    <2>3. next.id = next.id - (next.n - next.n)
      BY <1>3, <2>2
    <2> QED BY <1>1, <1>2, <2>1, <2>3 DEF Coherent
  <1>6. InFlight'
    <2> SUFFICES ASSUME NEW m \in uplink', m.kind = "CMD" PROVE Coherent(m)'
      BY DEF InFlight
    <2>1. CASE m = next
      BY <1>5, <2>1
    <2>2. CASE m # next
      <3>1. m \in uplink /\ Coherent(m)
        BY <2>2 DEF Safe, InFlight
      <3>2. m \in Commands
        BY <3>1 DEF TypeOK, Datagrams
      <3> QED BY <1>4, <3>1, <3>2
    <2> QED BY <2>1, <2>2
  <1>7. Remembered'
    <2>1. ASSUME NEW i \in 1 .. Len(ran) PROVE Coherent(ran[i])' /\ ran[i] \in everRan
      <3>1. Coherent(ran[i]) /\ ran[i] \in everRan
        BY <1>1 DEF Safe, Remembered, Acknowledged
      <3>2. ran[i] \in Commands
        BY DEF TypeOK
      <3> QED BY <1>1, <1>4, <3>1, <3>2 DEF Coherent
    <2> QED BY <1>1, <2>1 DEF Remembered, Coherent
  <1>8. Responses'
    <2> SUFFICES ASSUME NEW r \in downlink', r.kind = "RAN"
                 PROVE  r.command \in everRan' /\ Coherent(r.command)' /\ r.id = r.command.id
      BY DEF Responses, Coherent
    <2>1. r \in downlink /\ r.command \in everRan /\ Coherent(r.command) /\ r.id = r.command.id
      BY <1>1 DEF Safe, Responses
    <2>2. r.command \in Commands
      BY <2>1 DEF TypeOK
    <2> QED BY <1>1, <1>4, <2>1, <2>2
  <1>9. ProcessOK'
    BY <1>1, <1>2, <1>3 DEF ProcessOK
  <1>10. LastIsNewest' /\ RanInOrder' /\ AnsweredHasRun' /\ StaleOnlyIfOvertaken'
    BY <1>1 DEF Safe, LastIsNewest, RanInOrder, AnsweredHasRun, StaleOnlyIfOvertaken
  <1> QED BY <1>6, <1>7, <1>8, <1>9, <1>10 DEF Safe

LEMMA SafeGivesUp == ASSUME TypeOK, Safe, GsGivesUp PROVE Safe'
  <1>1. /\ UNCHANGED <<last, uplink, downlink, ran, everRan, answered, refused>>
        /\ gs'.current = gs.current /\ gs'.session = gs.session
        /\ ~gs'.waiting /\ gs'.ready = gs.ready
    BY DEF GsGivesUp, histories, TypeOK
  <1>2. \A x : Coherent(x)' <=> Coherent(x)
    BY <1>1 DEF Coherent
  <1>3. Acknowledged' <=> Acknowledged
    BY <1>1 DEF Acknowledged
  <1>4. ProcessOK' /\ InFlight' /\ Remembered' /\ Responses'
    BY <1>1, <1>2, <1>3 DEF Safe, ProcessOK, InFlight, Remembered, Responses
  <1>5. LastIsNewest' /\ RanInOrder' /\ AnsweredHasRun' /\ StaleOnlyIfOvertaken'
    BY <1>1 DEF Safe, LastIsNewest, RanInOrder, AnsweredHasRun, StaleOnlyIfOvertaken
  <1> QED BY <1>4, <1>5 DEF Safe

LEMMA SameCommand ==
    ASSUME NEW a \in Commands, NEW b \in Commands,
           a.session = b.session, a.n = b.n, a.id = b.id
    PROVE  a = b
  BY DEF Commands

\* A response that carries the ID of the current command is the response to it.
LEMMA SafeReceives == ASSUME TypeOK, Safe, GsReceives PROVE Safe'
  <1> PICK r \in downlink :
        /\ r.id = gs.current.id
        /\ gs' = [gs EXCEPT !.waiting = FALSE]
        /\ answered' = IF r.kind = "RAN" THEN answered \cup {gs.current} ELSE answered
    BY DEF GsReceives
  <1>1. /\ UNCHANGED <<last, uplink, downlink, ran, everRan, refused>>
        /\ gs'.current = gs.current /\ gs'.session = gs.session
        /\ ~gs'.waiting /\ gs'.ready = gs.ready
    BY DEF GsReceives, TypeOK
  <1>2. ASSUME r.kind = "RAN" PROVE gs.current \in everRan
    <2> DEFINE c == r.command
    <2>1. c \in everRan /\ Coherent(c) /\ r.id = c.id
      BY <1>2 DEF Safe, Responses
    <2>2. c \in Commands /\ gs.current \in Commands
      BY <2>1 DEF TypeOK
    <2>3. /\ c.n \in 1 .. gs.current.n /\ gs.current.n \in 0 .. MaxCommands
          /\ gs.current.id \in 0 .. IdRange - 1
      BY <2>1, <2>2 DEF Coherent, Commands
    <2>4. c.n = gs.current.n
      <3>1. MaxCommands \in 0 .. Half
        BY SessionAssumption
      <3>2. \/ gs.current.id = gs.current.id - (gs.current.n - c.n)
            \/ gs.current.id = gs.current.id - (gs.current.n - c.n) + IdRange
        BY <2>1 DEF Coherent
      <3> QED BY <2>3, <3>1, <3>2, HalfRange
    <2>5. gs.current.n > 0
      BY <2>3
    <2>6. c.session = gs.current.session
      BY <2>1, <2>5 DEF Safe, ProcessOK, Coherent
    <2>7. c = gs.current
      BY <2>1, <2>2, <2>4, <2>6, SameCommand
    <2> QED BY <2>1, <2>7
  <1>3. AnsweredHasRun'
    BY <1>1, <1>2 DEF Safe, AnsweredHasRun
  <1>4. \A x : Coherent(x)' <=> Coherent(x)
    BY <1>1 DEF Coherent
  <1>5. Acknowledged' <=> Acknowledged
    BY <1>1 DEF Acknowledged
  <1>6. ProcessOK' /\ InFlight' /\ Remembered' /\ Responses'
    BY <1>1, <1>4, <1>5 DEF Safe, ProcessOK, InFlight, Remembered, Responses
  <1>7. LastIsNewest' /\ RanInOrder' /\ StaleOnlyIfOvertaken'
    BY <1>1 DEF Safe, LastIsNewest, RanInOrder, StaleOnlyIfOvertaken
  <1> QED BY <1>3, <1>6, <1>7 DEF Safe

LEMMA SafeUnchanged == ASSUME Safe, UNCHANGED vars PROVE Safe'
  <1>1. \A x : Coherent(x)' <=> Coherent(x)
    BY DEF vars, Coherent
  <1>2. ProcessOK' /\ InFlight' /\ Remembered' /\ Responses'
    BY <1>1 DEF Safe, vars, ProcessOK, InFlight, Remembered, Acknowledged, Responses
  <1>3. LastIsNewest' /\ RanInOrder' /\ AnsweredHasRun' /\ StaleOnlyIfOvertaken'
    BY DEF Safe, vars, LastIsNewest, RanInOrder, AnsweredHasRun, StaleOnlyIfOvertaken
  <1> QED BY <1>2, <1>3 DEF Safe

LEMMA SafeStep ==
    ASSUME ~OldTraffic, TypeOK, Safe, [Next]_vars PROVE Safe'
  <1>1. CASE CommandsHandle
    <2> PICK m \in uplink : IF m.kind = "HELLO" THEN HandleHello(m) ELSE HandleCommand(m)
      BY <1>1 DEF CommandsHandle
    <2>1. CASE m.kind = "HELLO"
      BY <2>1, SafeHello
    <2>2. CASE m.kind # "HELLO"
      BY <2>2, SafeRepeat, SafeStale, SafeRun DEF HandleCommand
    <2> QED BY <2>1, <2>2
  <1>2. CASE GroundStation
    BY <1>2, SafeStart, SafeAcknowledged, SafeSends, SafeGivesUp, SafeReceives
       DEF GroundStation
  <1> QED BY <1>1, <1>2, SafeReset, SafeUnchanged DEF Next

LEMMA SafeAlways == ASSUME ~OldTraffic PROVE Spec => [](TypeOK /\ Safe)
  <1>1. Init => TypeOK /\ Safe
    BY TypeInit, SafeInit
  <1>2. TypeOK /\ Safe /\ [Next]_vars => (TypeOK /\ Safe)'
    BY TypeStep, SafeStep
  <1> QED BY <1>1, <1>2, PTL DEF Spec

-----------------------------------------------------------------------------
(* The theorems, for a network on which no datagram of an earlier process  *)
(* is left.                                                                *)

\* Since the last HELLO or reset, the commands of a session ran in the order
\* they were issued and each at most once.
THEOREM CommandsRunInOrder == ASSUME ~OldTraffic PROVE Spec => []RanInOrder
  <1>1. Safe => RanInOrder
    BY DEF Safe
  <1> QED BY <1>1, SafeAlways, PTL

\* A command that was answered as run did run.
THEOREM AnswersAreTrue == ASSUME ~OldTraffic PROVE Spec => []AnsweredHasRun
  <1>1. Safe => AnsweredHasRun
    BY DEF Safe
  <1> QED BY <1>1, SafeAlways, PTL

\* A command is refused as stale only after a later one of its session ran.
THEOREM StaleIsOvertaken == ASSUME ~OldTraffic PROVE Spec => []StaleOnlyIfOvertaken
  <1>1. Safe => StaleOnlyIfOvertaken
    BY DEF Safe
  <1> QED BY <1>1, SafeAlways, PTL
=============================================================================
