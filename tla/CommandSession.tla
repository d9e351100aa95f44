--------------------------- MODULE CommandSession ---------------------------
(***************************************************************************)
(* Commands over UDP: the duplicate and order check of commands_handle     *)
(* (src/src/commands.cpp) against a network that loses, duplicates and     *)
(* reorders datagrams, resets of the board, and a ground station that      *)
(* starts a session with HELLO and retransmits one command at a time.      *)
(*                                                                         *)
(* The ground station is not part of the repository; it is modelled from   *)
(* what the README and the handler say of it, and marked external.  What a *)
(* command does is abstracted to the fact that its handler ran.            *)
(***************************************************************************)
EXTENDS Integers, Sequences

CONSTANTS
    IdRange,      \* 2^16: command IDs count modulo IdRange
    FirstIds,     \* the ID a ground-station process may start with
    MaxSessions,  \* bound: ground-station processes
    MaxCommands,  \* bound: commands of one process, at most half the ID range
    OldTraffic    \* may datagrams of an earlier process still arrive?

Half == IdRange \div 2   \* the sign bit of an int16_t

ASSUME SessionAssumption ==
    /\ IdRange = 2 * Half /\ Half \in Nat \ {0}
    /\ FirstIds \subseteq 0 .. IdRange - 1
    /\ MaxSessions \in Nat \ {0} /\ MaxCommands \in 0 .. Half
    /\ OldTraffic \in BOOLEAN

VARIABLES
    last,      \* last_command_available, last_command_id, last_response
    gs,        \* the running ground-station process
    uplink,    \* datagrams that may still reach the board, any number of times
    downlink,  \* datagrams that may still reach the ground station
    ran,       \* history: the commands run since the last HELLO or reset
    everRan,   \* history, since the process started: the commands that ran
    answered,  \* history, likewise: commands the process saw answered as run
    refused    \* history, likewise: commands answered STALE_COMMAND

vars == <<last, gs, uplink, downlink, ran, everRan, answered, refused>>
histories == <<ran, everRan, answered, refused>>

\* A command: its session, its place in it and the ID it carries.
Command(s, n, id) == [kind |-> "CMD", session |-> s, n |-> n, id |-> id]
Hello(s)          == [kind |-> "HELLO", session |-> s]

NoCommand == Command(0, 0, 0)
Forgotten == [available |-> FALSE, id |-> 0, response |-> NoCommand]

Init ==
    /\ last = Forgotten
    /\ gs = [session |-> 0, ready |-> FALSE, current |-> NoCommand, waiting |-> FALSE]
    /\ uplink = {} /\ downlink = {}
    /\ ran = <<>> /\ everRan = {}
    /\ answered = {} /\ refused = {}

-----------------------------------------------------------------------------
(* The board                                                               *)

\* A reply datagram may be lost, or arrive any number of times.
Reply(r) == downlink' = downlink \cup {r} \/ UNCHANGED downlink

HelloKeepsHistory(m) ==  \* mutant of HandleHello
    /\ Reply([kind |-> "SESSION", session |-> m.session])
    /\ UNCHANGED <<last, gs, uplink, histories>>

\* "A new GS process starts a new ID sequence with a short session token."
HandleHello(m) ==
    /\ last' = Forgotten
    /\ ran' = <<>>
    /\ Reply([kind |-> "SESSION", session |-> m.session])
    /\ UNCHANGED <<gs, uplink, everRan, answered, refused>>

DifferenceUnwrapped(id) == id - last.id  \* mutant of Difference

\* static_cast<int16_t>(active_command_id - last_command_id)
Difference(id) ==
    LET d == (id - last.id) % IdRange
    IN  IF d < Half THEN d ELSE d - IdRange

RepeatSilently(m) ==  \* mutant of RepeatResponse
    /\ last.available /\ Difference(m.id) = 0
    /\ UNCHANGED vars

\* The retry of the last command gets the stored response.
RepeatResponse(m) ==
    /\ last.available /\ Difference(m.id) = 0
    /\ Reply([kind |-> "RAN", command |-> last.response, id |-> m.id])
    /\ UNCHANGED <<last, gs, uplink, histories>>

RefuseStale(m) ==
    /\ last.available /\ Difference(m.id) < 0
    /\ Reply([kind |-> "STALE", command |-> m, id |-> m.id])
    /\ refused' = refused \cup {m}
    /\ UNCHANGED <<last, gs, uplink, ran, everRan, answered>>

\* Mutant of RunCommand: the order is not checked.
RunAnyOther(m) ==
    /\ last.available => Difference(m.id) # 0
    /\ last' = [available |-> TRUE, id |-> m.id, response |-> m]
    /\ ran' = Append(ran, m)
    /\ everRan' = everRan \cup {m}
    /\ Reply([kind |-> "RAN", command |-> m, id |-> m.id])
    /\ UNCHANGED <<gs, uplink, answered, refused>>

\* The handler runs and send_reply stores the response; an unknown command
\* or bad operand is answered NACK the same way.
RunCommand(m) ==
    /\ last.available => Difference(m.id) > 0
    /\ last' = [available |-> TRUE, id |-> m.id, response |-> m]
    /\ ran' = Append(ran, m)
    /\ everRan' = everRan \cup {m}
    /\ Reply([kind |-> "RAN", command |-> m, id |-> m.id])
    /\ UNCHANGED <<gs, uplink, answered, refused>>

HandleCommand(m) == RepeatResponse(m) \/ RefuseStale(m) \/ RunCommand(m)

CommandsHandle ==
    \E m \in uplink : IF m.kind = "HELLO" THEN HandleHello(m) ELSE HandleCommand(m)

Reset ==
    /\ last' = Forgotten
    /\ ran' = <<>>
    /\ UNCHANGED <<gs, uplink, downlink, everRan, answered, refused>>

-----------------------------------------------------------------------------
(* The ground station (external)                                           *)

GsStarts ==
    /\ gs.session < MaxSessions
    /\ gs' = [ session |-> gs.session + 1, ready |-> FALSE,
               current |-> NoCommand, waiting |-> FALSE ]
    /\ uplink' = {Hello(gs.session + 1)} \cup (IF OldTraffic THEN uplink ELSE {})
    /\ downlink' = IF OldTraffic THEN downlink ELSE {}
    /\ everRan' = {} /\ answered' = {} /\ refused' = {}
    /\ UNCHANGED <<last, ran>>

GsSessionAcknowledged ==
    /\ ~gs.ready
    /\ [kind |-> "SESSION", session |-> gs.session] \in downlink
    /\ gs' = [gs EXCEPT !.ready = TRUE]
    /\ UNCHANGED <<last, uplink, downlink, histories>>

GsSends ==
    /\ gs.ready /\ ~gs.waiting /\ gs.current.n < MaxCommands
    /\ \E id \in IF gs.current.n = 0 THEN FirstIds ELSE {(gs.current.id + 1) % IdRange} :
          LET next == Command(gs.session, gs.current.n + 1, id)
          IN  /\ gs' = [gs EXCEPT !.current = next, !.waiting = TRUE]
              /\ uplink' = uplink \cup {next}
    /\ UNCHANGED <<last, downlink, histories>>

GsGivesUp ==
    /\ gs.waiting /\ gs' = [gs EXCEPT !.waiting = FALSE]
    /\ UNCHANGED <<last, uplink, downlink, histories>>

\* A response is matched by its ID.
GsReceives ==
    /\ gs.waiting
    /\ \E r \in downlink :
          /\ r.kind \in {"RAN", "STALE"} /\ r.id = gs.current.id
          /\ gs' = [gs EXCEPT !.waiting = FALSE]
          /\ answered' = IF r.kind = "RAN" THEN answered \cup {gs.current} ELSE answered
    /\ UNCHANGED <<last, uplink, downlink, ran, everRan, refused>>

GroundStation ==
    GsStarts \/ GsSessionAcknowledged \/ GsSends \/ GsGivesUp \/ GsReceives

Next == CommandsHandle \/ Reset \/ GroundStation

Spec == Init /\ [][Next]_vars

\* A command that is sent again and again is received at some time, and one
\* of its responses gets through.
AnswerArrives ==
    /\ gs.waiting /\ gs.current \in uplink
    /\ HandleCommand(gs.current)
    /\ downlink' # downlink

FairSpec == Spec /\ WF_vars(AnswerArrives) /\ WF_vars(GsReceives)

-----------------------------------------------------------------------------
(* Properties                                                              *)

Commands == [ kind : {"CMD"}, session : 0 .. MaxSessions, n : 0 .. MaxCommands,
              id : 0 .. IdRange - 1 ]

Datagrams == Commands \cup [kind : {"HELLO"}, session : 0 .. MaxSessions]
Replies ==
    [kind : {"SESSION"}, session : 0 .. MaxSessions] \cup
    [kind : {"RAN", "STALE"}, command : Commands, id : 0 .. IdRange - 1]

\* Type invariant; the stored response is the one to the stored ID.
TypeOK ==
    /\ last \in [available : BOOLEAN, id : 0 .. IdRange - 1, response : Commands]
    /\ last.available => last.response.id = last.id
    /\ gs \in [ session : 0 .. MaxSessions, ready : BOOLEAN,
                current : Commands, waiting : BOOLEAN ]
    /\ uplink \subseteq Datagrams /\ downlink \subseteq Replies
    /\ ran \in Seq(Commands) /\ everRan \subseteq Commands
    /\ answered \subseteq Commands /\ refused \subseteq Commands

\* Since the last HELLO or reset, the commands of a session ran in the order
\* they were issued and each at most once, whatever was retransmitted,
\* duplicated or overtaken, also where the IDs wrap around.
RanInOrder ==
    \A i, j \in 1 .. Len(ran) :
        i < j /\ ran[i].session = ran[j].session => ran[i].n < ran[j].n

\* A command the ground station saw answered as run did run: no response of
\* an earlier command, session or boot passes for it.
AnsweredHasRun == answered \subseteq everRan

\* A session is never refused because of an earlier one: a command is stale
\* only after a later one of its own session ran.
StaleOnlyIfOvertaken ==
    \A m \in refused : \E later \in everRan :
        later.session = m.session /\ later.n > m.n

\* A ground station that keeps retransmitting gets its answer, also when the
\* command ran long ago and only the responses were lost.
AnswerComes == []<>~gs.waiting
=============================================================================
