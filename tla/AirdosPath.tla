----------------------------- MODULE AirdosPath -----------------------------
(***************************************************************************)
(* The way of an AIRDOS line from a detector over the Secondary to the     *)
(* Primary: airdos.cpp cuts the bytes of the detector's UART into lines,   *)
(* teensy_link.cpp frames a line for the inter-board UART on one board and *)
(* finds it again on the other.  Bytes are lost where a receive buffer     *)
(* runs over or a board resets, or damaged on the wire.                    *)
(*                                                                         *)
(* A symbol stands for a byte or for the bytes of a field; "junk" and      *)
(* "nul" are bytes that are not printable.  It remembers                   *)
(* which line n of the detector (0: none) and which frame f of the link    *)
(* (0: none yet) it belongs to; no step of the code looks at n or f.       *)
(***************************************************************************)
EXTENDS Naturals, Sequences, FiniteSets

CONSTANTS
  Unprintable, \* lines of the detector with a byte that is not printable
  LineMax,     \* symbols that fit AIRDOS_LINE_BUFFER_SIZE
  WireMax,     \* symbols that fit the transmit buffer of the link
  MaxLines,    \* bound: lines the detector sends
  MaxStatus,   \* bound: status frames on the link
  MaxFaults,   \* bound: symbols lost or damaged
  MaxResets    \* bound: resets of the boards

ASSUME PathAssumption ==
  /\ {LineMax, WireMax} \subseteq Nat \ {0}
  /\ {MaxLines, MaxStatus, MaxFaults, MaxResets} \subseteq Nat

VARIABLES
  sent,        \* external: symbols the detector has sent
  assembler,   \* Secondary: AirdosState of the channel
  wire,        \* what is in the transmit buffer or on the line
  receiver,    \* Primary: line and discard
  parsed,      \* history: lines the Secondary took from the detector
  frames,      \* history: frames put on the wire
  accepted,    \* history: lines the Primary took for a valid frame
  gone,        \* history: newlines of the detector lost or damaged, and of the
               \* link lost or cut off
  damaged,     \* history: lines and frames that did not arrive whole
  faults, resets

vars == <<sent, assembler, wire, receiver, parsed, frames, accepted, gone,
          damaged, faults, resets>>

-----------------------------------------------------------------------------

Symbol(c, n, f) == [c |-> c, n |-> n, f |-> f]

\* A line of the detector is "$", text and a newline (the code ignores its
\* carriage return); a frame has a newline at either end.
Newlines == {"newline", "lead", "tail"}

Junk == {"junk", "nul"}

IsNewline(s) == s.c \in Newlines

IsPrintable(content) == \A i \in DOMAIN content : content[i].c \notin Junk

Text(n) == Symbol(IF n \in Unprintable THEN "junk" ELSE "text", n, 0)

Line(n) == <<Symbol("$", n, 0), Text(n)>>

NextSymbol ==
  Append(Line((sent \div 3) + 1), Symbol("newline", (sent \div 3) + 1, 0))[(sent % 3) + 1]

FreshAssembler == [line |-> <<>>, overflow |-> FALSE]

\* A reset may occur in the middle of an incoming frame.
FreshReceiver == [line |-> <<>>, discard |-> TRUE]

Init ==
  /\ sent = 0 /\ assembler = FreshAssembler
  /\ wire = <<>> /\ receiver = FreshReceiver
  /\ parsed = {} /\ frames = <<>> /\ accepted = {}
  /\ gone = {} /\ damaged = {} /\ faults = 0 /\ resets = 0

-----------------------------------------------------------------------------
(* Secondary.                                                              *)

OfFrame(line, f) == [i \in DOMAIN line |-> [line[i] EXCEPT !.f = f]]

\* Mutant of Framed: only the end of a frame is marked.
FramedWithoutLead(content, f) == OfFrame(content, f) \o <<Symbol("tail", 0, f)>>

\* The leading newline makes a frame findable after one that was cut off.
Framed(content, f) ==
  <<Symbol("lead", 0, f)>> \o OfFrame(content, f) \o <<Symbol("tail", 0, f)>>

\* A frame enters the transmit buffer whole or not at all.
Put(content) ==
  LET f == Len(frames) + 1
  IN  IF Len(wire) + Len(content) + 2 <= WireMax
      THEN /\ wire' = wire \o Framed(content, f)
           /\ frames' = Append(frames, OfFrame(content, f))
      ELSE UNCHANGED <<wire, frames>>

\* A line is handed over as a C string: it ends at its first NUL.
CString(line) ==
  SubSeq(line, 1, Cardinality({i \in DOMAIN line : \A j \in 1..i : line[j].c # "nul"}))

\* Only a line that starts with "$" and has more than that is forwarded, with
\* whatever bytes it has.
Forward(line) ==
  IF Len(line) >= 2 /\ line[1].c = "$"
  THEN Put(<<Symbol("A", 0, 0)>> \o line)
  ELSE UNCHANGED <<wire, frames>>

\* Mutant of EndLine: the overflow of one line is that of all.
EndLineKeepsOverflow ==
  /\ assembler' = [assembler EXCEPT !.line = <<>>]
  /\ IF assembler.overflow \/ assembler.line = <<>>
     THEN UNCHANGED <<wire, frames, parsed>>
     ELSE /\ parsed' = parsed \cup {CString(assembler.line)}
          /\ Forward(CString(assembler.line))

\* The end of a line: an overlong one is dropped, an empty one ignored.
EndLine ==
  /\ assembler' = FreshAssembler
  /\ IF assembler.overflow \/ assembler.line = <<>>
     THEN UNCHANGED <<wire, frames, parsed>>
     ELSE /\ parsed' = parsed \cup {CString(assembler.line)}
          /\ Forward(CString(assembler.line))

Collected(s) ==
  IF Len(assembler.line) < LineMax
  THEN [assembler EXCEPT !.line = Append(@, s)]
  ELSE [assembler EXCEPT !.overflow = TRUE]

\* airdos_update reads a byte of the detector; the next module forwards a
\* complete line in the same visit.
AirdosByte ==
  /\ sent < 3 * MaxLines /\ sent' = sent + 1
  /\ IF IsNewline(NextSymbol)
     THEN EndLine
     ELSE /\ assembler' = Collected(NextSymbol)
          /\ UNCHANGED <<wire, frames, parsed>>
  /\ UNCHANGED <<receiver, accepted, gone, damaged, faults, resets>>

\* One of the periodic status frames (storage, overflow counters).
StatusFrame ==
  /\ Cardinality({f \in DOMAIN frames : frames[f][1].c = "O"}) < MaxStatus
  /\ Put(<<Symbol("O", 0, 0), Symbol("digit", 0, 0)>>)
  /\ UNCHANGED <<sent, assembler, receiver, parsed, accepted, gone, damaged,
                 faults, resets>>

-----------------------------------------------------------------------------
(* Primary: teensy_link_update, receive_line.                              *)

ValidAirdos(line) ==
  /\ Len(line) >= 3 /\ line[1].c = "A" /\ line[2].c = "$"
  /\ Len(line) - 1 <= LineMax

ValidStatus(line) ==
  /\ Len(line) >= 2 /\ line[1].c = "O"
  /\ \A i \in 2..Len(line) : line[i].c = "digit"

ReceiveLine(line) ==
  IF ValidAirdos(line) \/ ValidStatus(line)
  THEN accepted' = accepted \cup {line}
  ELSE UNCHANGED accepted

\* Mutant of Receive: what is not printable is skipped.
ReceiveSkipsJunk(s) ==
  IF IsNewline(s)
  THEN /\ receiver' = [line |-> <<>>, discard |-> FALSE]
       /\ IF receiver.discard \/ receiver.line = <<>>
          THEN UNCHANGED accepted
          ELSE ReceiveLine(receiver.line)
  ELSE /\ UNCHANGED accepted
       /\ receiver' =
            IF receiver.discard \/ s.c \in Junk THEN receiver
            ELSE IF Len(receiver.line) >= LineMax + 2
            THEN [receiver EXCEPT !.discard = TRUE]
            ELSE [receiver EXCEPT !.line = Append(@, s)]

\* Mutant of Receive: the beginning of a discarded line stays in the buffer.
ReceiveKeepsRest(s) ==
  IF IsNewline(s)
  THEN IF receiver.discard \/ receiver.line = <<>>
       THEN receiver' = [receiver EXCEPT !.discard = FALSE] /\ UNCHANGED accepted
       ELSE receiver' = [line |-> <<>>, discard |-> FALSE] /\ ReceiveLine(receiver.line)
  ELSE /\ UNCHANGED accepted
       /\ receiver' =
            IF receiver.discard THEN receiver
            ELSE IF s.c \in Junk \/ Len(receiver.line) >= LineMax + 2
            THEN [receiver EXCEPT !.discard = TRUE]
            ELSE [receiver EXCEPT !.line = Append(@, s)]

Receive(s) ==
  IF IsNewline(s)
  THEN /\ receiver' = [line |-> <<>>, discard |-> FALSE]
       /\ IF receiver.discard \/ receiver.line = <<>>
          THEN UNCHANGED accepted
          ELSE ReceiveLine(receiver.line)
  ELSE /\ UNCHANGED accepted
       /\ receiver' =
            IF receiver.discard THEN receiver
            ELSE IF s.c \in Junk \/ Len(receiver.line) >= LineMax + 2
            THEN [receiver EXCEPT !.discard = TRUE]
            ELSE [receiver EXCEPT !.line = Append(@, s)]

LinkByte ==
  /\ wire # <<>> /\ wire' = Tail(wire)
  /\ Receive(Head(wire))
  /\ UNCHANGED <<sent, assembler, parsed, frames, gone, damaged, faults, resets>>

-----------------------------------------------------------------------------
(* Faults.                                                                 *)

\* Lines and frames that are not whole without a symbol: a newline belongs to
\* the line it ends and to the one it starts.
Harmed(s) ==
  IF s.f # 0 THEN {<<"frame", s.f>>}
  ELSE {<<"line", s.n>>} \cup (IF IsNewline(s) THEN {<<"line", s.n + 1>>} ELSE {})

Newline(s) == IF IsNewline(s) THEN {<<s.c, IF s.f # 0 THEN s.f ELSE s.n>>} ELSE {}

Fault(s) ==
  /\ faults < MaxFaults /\ faults' = faults + 1
  /\ damaged' = damaged \cup Harmed(s)
  /\ UNCHANGED resets

AirdosByteLost ==
  /\ sent < 3 * MaxLines /\ sent' = sent + 1
  /\ Fault(NextSymbol)
  /\ gone' = gone \cup Newline(NextSymbol)
  /\ UNCHANGED <<assembler, wire, receiver, parsed, frames, accepted>>

\* A byte of the detector's UART that is not printable any more: to the
\* assembler it is text.
AirdosByteDamaged ==
  /\ sent < 3 * MaxLines /\ sent' = sent + 1
  /\ Fault(NextSymbol)
  /\ gone' = gone \cup Newline(NextSymbol)
  /\ \E c \in Junk : assembler' = Collected([NextSymbol EXCEPT !.c = c])
  /\ UNCHANGED <<wire, receiver, parsed, frames, accepted>>

LinkByteLost ==
  /\ wire # <<>> /\ wire' = Tail(wire)
  /\ Fault(Head(wire))
  /\ gone' = gone \cup Newline(Head(wire))
  /\ UNCHANGED <<sent, assembler, receiver, parsed, frames, accepted>>

\* A byte that is not printable any more.
LinkByteDamaged ==
  /\ wire # <<>> /\ wire' = Tail(wire)
  /\ Fault(Head(wire))
  /\ Receive([Head(wire) EXCEPT !.c = "junk"])
  /\ UNCHANGED <<sent, assembler, parsed, frames, gone>>

SymbolsOf(q) == {q[i] : i \in DOMAIN q}

SecondaryResets ==
  /\ resets < MaxResets /\ resets' = resets + 1
  /\ assembler' = FreshAssembler /\ wire' = <<>>
  /\ gone' = gone \cup UNION {Newline(s) : s \in SymbolsOf(wire)}
  /\ damaged' = damaged \cup (UNION {Harmed(s) : s \in SymbolsOf(wire)})
                  \cup (IF sent % 3 = 0 THEN {} ELSE {<<"line", (sent \div 3) + 1>>})
  /\ UNCHANGED <<sent, receiver, parsed, frames, accepted, faults>>

PrimaryResets ==
  /\ resets < MaxResets /\ resets' = resets + 1
  /\ receiver' = FreshReceiver
  /\ damaged' = damaged \cup (IF wire = <<>> \/ Head(wire).c = "lead" THEN {}
                              ELSE Harmed(Head(wire)))
  /\ UNCHANGED <<sent, assembler, wire, parsed, frames, accepted, gone, faults>>

Next ==
  \/ AirdosByte \/ StatusFrame \/ LinkByte
  \/ AirdosByteLost \/ AirdosByteDamaged \/ LinkByteLost \/ LinkByteDamaged
  \/ SecondaryResets \/ PrimaryResets

Spec == Init /\ [][Next]_vars

-----------------------------------------------------------------------------
(* Properties.                                                             *)

\* A line of which every byte arrives, and the newline before it, is taken as
\* it is, printable or not (but for a NUL), whatever was lost, cut or overlong
\* before.
WholeLinesAreParsed ==
  \A n \in 1..(sent \div 3) :
    <<"line", n>> \notin damaged => Line(n) \in parsed

\* A frame of printable bytes, all of which arrive, is accepted as it was sent,
\* whatever came before it: "the next intact frame can be received after either
\* Teensy resets" (README.md:142).
WholeFramesAreAccepted ==
  \A f \in DOMAIN frames : IsPrintable(frames[f]) =>
    \/ <<"frame", f>> \in damaged
    \/ \E i \in DOMAIN wire : wire[i].f = f
    \/ frames[f] \in accepted

\* The sender forwards a line with a byte that is not printable, and the
\* receiver discards its frame to the end (README.md:141, test_link.cpp:86): as
\* long as nothing of the frame is lost no record is made of any part of it.
MalformedFramesAreDiscarded ==
  \A f \in DOMAIN frames :
    \/ IsPrintable(frames[f]) \/ <<"frame", f>> \in damaged
    \/ \A line \in accepted : \A i \in DOMAIN line : line[i].f # f

\* No record is put together from two frames unless both newlines between
\* them were lost, nor from two lines of a detector unless the newline of the
\* first was lost.
SplicesNeedLostNewlines ==
  \A line \in accepted : \A i \in 1..(Len(line) - 1) :
    LET x == line[i]
        y == line[i + 1]
    IN  /\ x.f # y.f => {<<"tail", x.f>>, <<"lead", y.f>>} \subseteq gone
        /\ x.f = y.f /\ x.n # y.n /\ x.n # 0 => <<"newline", x.n>> \in gone
=============================================================================
