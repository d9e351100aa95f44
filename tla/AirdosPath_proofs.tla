-------------------------- MODULE AirdosPath_proofs --------------------------
(***************************************************************************)
(* Proofs that both ends of the path resynchronise, and that a record is   *)
(* put together from two only where newlines are lost.                     *)
(*                                                                         *)
(* The line assembler of airdos.cpp: as long as nothing of the line that   *)
(* is arriving was lost, it holds exactly what has arrived of it, whatever *)
(* was lost, cut or overlong before (InStep).                              *)
(*                                                                         *)
(* The receiver of teensy_link.cpp: a frame of which nothing was lost      *)
(* waits as a whole on the wire, or has begun, its first symbols being in  *)
(* the receiver and the others next on the wire, or is accepted (Intact).  *)
(*                                                                         *)
(* No splices: in the queue of what the receiver holds and what is on the  *)
(* wire, two frames are separated by the last newline of the one and the   *)
(* first newline of the other, unless those are lost, and the symbols of a *)
(* frame come from one line unless its newline is lost (Separated).        *)
(***************************************************************************)
EXTENDS AirdosPath, SequenceTheorems, FiniteSetTheorems, TLAPS

\* Assumption of the theorem: a line of the detector fits the line buffer.
LinesFit == LineMax >= 2

Current == (sent \div 3) + 1

\* What has arrived of the current line.
Arrived ==
  IF sent % 3 = 0 THEN <<>>
  ELSE IF sent % 3 = 1 THEN <<Symbol("$", Current, 0)>>
  ELSE Line(Current)

InStep ==
  <<"line", Current>> \notin damaged =>
    assembler.line = Arrived /\ assembler.overflow = FALSE

IsAssembler == {"line", "overflow"} \subseteq DOMAIN assembler

PathInv == sent \in Nat /\ IsAssembler /\ InStep /\ WholeLinesAreParsed

-----------------------------------------------------------------------------

\* Which byte of which line comes next.
LEMMA Progress ==
  ASSUME NEW k \in Nat
  PROVE  /\ k % 3 \in 0..2 /\ k \div 3 \in Nat
         /\ k % 3 # 2 => (k + 1) \div 3 = k \div 3 /\ (k + 1) % 3 = (k % 3) + 1
         /\ k % 3 = 2 => (k + 1) \div 3 = k \div 3 + 1 /\ (k + 1) % 3 = 0
OBVIOUS

\* What the bytes of a line are appended to.
LEMMA AppendToOne ==
  ASSUME NEW a, NEW b PROVE Append(<<a>>, b) = <<a, b>>
<1> DEFINE S == {a, b}
           s == Append(<<a>>, b)
<1>1. <<a>> \in Seq(S) /\ <<a, b>> \in Seq(S) /\ b \in S
  OBVIOUS
<1>2. /\ Len(<<a>>) = 1 /\ Len(<<a, b>>) = 2
      /\ <<a>>[1] = a /\ <<a, b>>[1] = a /\ <<a, b>>[2] = b
  OBVIOUS
<1> HIDE DEF S
<1>3. /\ s \in Seq(S) /\ Len(s) = Len(<<a>>) + 1
      /\ \A i \in 1..Len(<<a>>) : s[i] = <<a>>[i]
      /\ s[Len(<<a>>) + 1] = b
  BY <1>1, AppendProperties
<1> HIDE DEF s
<1>4. Len(s) = 2 /\ s[1] = a /\ s[2] = b
  BY <1>2, <1>3
<1>5. \A i \in 1..Len(s) : s[i] = <<a, b>>[i]
  BY <1>2, <1>4
<1>6. s = <<a, b>>
  BY <1>1, <1>2, <1>3, <1>4, <1>5, SeqEqual
<1>7. QED
  BY <1>6 DEF s

LEMMA AppendToTwo ==
  ASSUME NEW a, NEW b, NEW c
  PROVE  LET s == Append(<<a, b>>, c) IN s[1] = a /\ s[2] = b /\ s[3] = c
<1> DEFINE S == {a, b, c}
           s == Append(<<a, b>>, c)
<1>1. <<a, b>> \in Seq(S) /\ c \in S
  OBVIOUS
<1>2. Len(<<a, b>>) = 2 /\ <<a, b>>[1] = a /\ <<a, b>>[2] = b
  OBVIOUS
<1> HIDE DEF S
<1>3. /\ \A i \in 1..Len(<<a, b>>) : s[i] = <<a, b>>[i]
      /\ s[Len(<<a, b>>) + 1] = c
  BY <1>1, AppendProperties
<1> HIDE DEF s
<1>4. s[1] = a /\ s[2] = b /\ s[3] = c
  BY <1>2, <1>3
<1>5. QED
  BY <1>4 DEF s

LEMMA NextIs ==
  ASSUME sent \in Nat
  PROVE  NextSymbol = IF sent % 3 = 0 THEN Symbol("$", Current, 0)
                      ELSE IF sent % 3 = 1 THEN Text(Current)
                      ELSE Symbol("newline", Current, 0)
<1>1. sent % 3 \in 0..2
  BY Progress
<1> DEFINE a == Symbol("$", Current, 0)
           b == Text(Current)
           c == Symbol("newline", Current, 0)
           s == Append(<<a, b>>, c)
<1>2. NextSymbol = s[(sent % 3) + 1] /\ s[1] = a /\ s[2] = b /\ s[3] = c
  BY AppendToTwo DEF NextSymbol, Line, Current
<1> HIDE DEF a, b, c, s
<1>3. CASE sent % 3 = 0
  <2>1. NextSymbol = a
    BY <1>2, <1>3
  <2>2. QED
    BY <1>3, <2>1 DEF a
<1>4. CASE sent % 3 = 1
  <2>1. NextSymbol = b
    BY <1>2, <1>4
  <2>2. QED
    BY <1>4, <2>1 DEF b
<1>5. CASE sent % 3 = 2
  <2>1. NextSymbol = c
    BY <1>2, <1>5
  <2>2. QED
    BY <1>5, <2>1 DEF c
<1>6. QED
  BY <1>1, <1>3, <1>4, <1>5

\* Only the newline ends a line.
LEMMA NewlineIsLast ==
  ASSUME sent \in Nat
  PROVE  IsNewline(NextSymbol) <=> sent % 3 = 2
<1>1. sent % 3 \in 0..2
  BY Progress
<1>2. QED
  BY <1>1, NextIs DEF IsNewline, Newlines, Symbol, Text

\* A line of the detector has no NUL, so all of it is handed over.
LEMMA LineIsWhole ==
  ASSUME NEW n PROVE CString(Line(n)) = Line(n)
<1> DEFINE l == Line(n)
           A == {Symbol("$", n, 0), Text(n)}
           S == {i \in DOMAIN l : \A j \in 1..i : l[j].c # "nul"}
<1>1. l \in Seq(A) /\ Len(l) = 2 /\ DOMAIN l = 1..2
  BY DEF Line
<1>2. l[1].c # "nul" /\ l[2].c # "nul"
  BY DEF Line, Symbol, Text
<1> HIDE DEF l, A
<1>3. \A j \in 1..2 : l[j].c # "nul"
  <2>1. \A j \in 1..2 : j = 1 \/ j = 2
    OBVIOUS
  <2>2. QED
    BY <1>2, <2>1
<1>4. S = 1..2
  <2>1. \A i \in 1..2 : \A j \in 1..i : j \in 1..2
    OBVIOUS
  <2>2. QED
    BY <1>1, <1>3, <2>1
<1>5. Cardinality(S) = 2
  <2>1. 1 \in Int /\ 2 \in Int
    OBVIOUS
  <2>2. Cardinality(1..2) = IF 1 > 2 THEN 0 ELSE 2 - 1 + 1
    BY <2>1, FS_Interval
  <2>3. QED
    BY <1>4, <2>2
<1>6. SubSeq(l, 1, 2) = l
  BY <1>1, SubSeqFull
<1>7. CString(l) = SubSeq(l, 1, Cardinality(S))
  BY DEF CString
<1>8. QED
  BY <1>5, <1>6, <1>7 DEF l

\* More damage and more parsed lines leave the invariant as it is.
LEMMA NothingOfTheLine ==
  ASSUME PathInv, UNCHANGED <<sent, assembler>>,
         damaged \subseteq damaged', parsed \subseteq parsed'
  PROVE  PathInv'
BY DEF PathInv, InStep, IsAssembler, WholeLinesAreParsed, Current, Arrived

\* A byte is taken.
LEMMA ByteStep ==
  ASSUME LinesFit, PathInv, AirdosByte
  PROVE  PathInv'
<1>1. /\ sent \in Nat /\ sent' = sent + 1 /\ sent' \in Nat
      /\ damaged' = damaged /\ sent % 3 \in 0..2
  BY Progress DEF PathInv, AirdosByte
<1>2. CASE sent % 3 # 2
  <2>1. Current' = Current /\ sent' % 3 = (sent % 3) + 1 /\ sent' \div 3 = sent \div 3
    BY <1>1, <1>2, Progress DEF Current
  <2>2. assembler' = Collected(NextSymbol) /\ UNCHANGED parsed
    BY <1>1, <1>2, NewlineIsLast DEF AirdosByte
  <2>3. ASSUME <<"line", Current>> \notin damaged
        PROVE  assembler'.line = Arrived' /\ assembler'.overflow = FALSE
    <3>1. assembler.line = Arrived /\ assembler.overflow = FALSE /\ IsAssembler
      BY <2>3 DEF PathInv, InStep
    <3>2. ASSUME Len(Arrived) < LineMax, Append(Arrived, NextSymbol) = Arrived'
          PROVE  assembler'.line = Arrived' /\ assembler'.overflow = FALSE
      <4>1. assembler' = [assembler EXCEPT !.line = Append(assembler.line, NextSymbol)]
        BY <2>2, <3>1, <3>2 DEF Collected
      <4>2. assembler'.line = Append(assembler.line, NextSymbol)
        BY <3>1, <4>1 DEF IsAssembler
      <4>3. assembler'.overflow = assembler.overflow
        BY <3>1, <4>1 DEF IsAssembler
      <4>4. QED
        BY <3>1, <3>2, <4>2, <4>3
    <3>3. CASE sent % 3 = 0
      <4>1. Arrived = <<>> /\ Arrived' = <<Symbol("$", Current, 0)>>
        BY <1>1, <2>1, <3>3 DEF Arrived
      <4>2. Len(Arrived) < LineMax
        BY <4>1, EmptySeq, PathAssumption
      <4>3. NextSymbol = Symbol("$", Current, 0)
        BY <1>1, <3>3, NextIs
      <4>4. Append(Arrived, NextSymbol) = Arrived'
        BY <4>1, <4>3
      <4>5. QED
        BY <3>2, <4>2, <4>4
    <3>4. CASE sent % 3 = 1
      <4>1. Arrived = <<Symbol("$", Current, 0)>> /\ Arrived' = Line(Current)
        BY <1>1, <2>1, <3>4 DEF Arrived
      <4>2. Len(Arrived) < LineMax
        BY <4>1, PathAssumption DEF LinesFit
      <4>3. NextSymbol = Text(Current)
        BY <1>1, <3>4, NextIs
      <4>4. Append(Arrived, NextSymbol) = Arrived'
        BY <4>1, <4>3, AppendToOne DEF Line
      <4>5. QED
        BY <3>2, <4>2, <4>4
    <3>5. sent % 3 = 0 \/ sent % 3 = 1
      BY <1>1, <1>2
    <3>6. QED
      BY <3>3, <3>4, <3>5
  <2>4. InStep'
    BY <1>1, <2>1, <2>3 DEF InStep
  <2>5. WholeLinesAreParsed'
    BY <1>1, <2>1, <2>2 DEF PathInv, WholeLinesAreParsed
  <2>6. IsAssembler'
    BY <2>2 DEF Collected, IsAssembler, PathInv
  <2>7. QED
    BY <1>1, <2>4, <2>5, <2>6 DEF PathInv
<1>3. CASE sent % 3 = 2
  <2>1. /\ sent' \div 3 = Current /\ sent' % 3 = 0 /\ Current \in Nat
        /\ sent \div 3 = Current - 1
    BY <1>1, <1>3, Progress DEF Current
  <2>2. EndLine
    BY <1>1, <1>3, NewlineIsLast DEF AirdosByte
  <2>3. InStep'
    BY <2>1, <2>2 DEF EndLine, FreshAssembler, InStep, Arrived
  <2>4. parsed \subseteq parsed'
    BY <2>2 DEF EndLine
  <2>5. <<"line", Current>> \notin damaged => Line(Current) \in parsed'
    <3> SUFFICES ASSUME <<"line", Current>> \notin damaged PROVE Line(Current) \in parsed'
      OBVIOUS
    <3>1. assembler.line = Line(Current) /\ assembler.overflow = FALSE
      BY <1>3 DEF PathInv, InStep, Arrived
    <3>2. Line(Current) # <<>>
      BY DEF Line
    <3>3. CString(assembler.line) \in parsed'
      BY <2>2, <3>1, <3>2 DEF EndLine
    <3>4. QED
      BY <3>1, <3>3, LineIsWhole
  <2>6. ASSUME NEW n \in 1..Current, <<"line", n>> \notin damaged'
        PROVE  Line(n) \in parsed'
    <3>1. CASE n = Current
      BY <1>1, <2>5, <2>6, <3>1
    <3>2. CASE n # Current
      <4>1. n \in 1..(sent \div 3)
        BY <2>1, <2>6, <3>2
      <4>2. QED
        BY <1>1, <2>4, <2>6, <4>1 DEF PathInv, WholeLinesAreParsed
    <3>3. QED
      BY <3>1, <3>2
  <2>7. WholeLinesAreParsed'
    BY <2>1, <2>6 DEF WholeLinesAreParsed
  <2>8. IsAssembler'
    BY <2>2 DEF EndLine, FreshAssembler, IsAssembler
  <2>9. QED
    BY <1>1, <2>3, <2>7, <2>8 DEF PathInv
<1>4. QED
  BY <1>2, <1>3

\* A byte of the detector is lost or damaged: whatever the assembler does with
\* it, the line is not whole.
LEMMA LossStep ==
  ASSUME PathInv, AirdosByteLost \/ AirdosByteDamaged
  PROVE  PathInv'
<1>1. /\ sent \in Nat /\ sent' = sent + 1 /\ sent' \in Nat /\ parsed' = parsed
      /\ damaged' = damaged \cup Harmed(NextSymbol) /\ sent % 3 \in 0..2
  BY Progress DEF PathInv, AirdosByteLost, AirdosByteDamaged, Fault
<1>2. NextSymbol.f = 0 /\ NextSymbol.n = Current
  BY <1>1, NextIs DEF Symbol, Text
<1>a. IsAssembler'
  <2>1. CASE AirdosByteLost
    BY <2>1 DEF AirdosByteLost, IsAssembler, PathInv
  <2>2. CASE AirdosByteDamaged
    BY <2>2 DEF AirdosByteDamaged, Collected, IsAssembler, PathInv
  <2>3. QED
    BY <2>1, <2>2
<1>3. <<"line", Current>> \in damaged'
  BY <1>1, <1>2 DEF Harmed
<1>4. CASE sent % 3 # 2
  <2>1. Current' = Current /\ sent' \div 3 = sent \div 3
    BY <1>1, <1>4, Progress DEF Current
  <2>2. QED
    BY <1>1, <1>3, <1>a, <2>1 DEF PathInv, InStep, WholeLinesAreParsed
<1>5. CASE sent % 3 = 2
  <2>1. /\ sent' \div 3 = Current /\ Current' = Current + 1
        /\ Current \in Nat /\ sent \div 3 = Current - 1
    BY <1>1, <1>5, Progress DEF Current
  <2>2. <<"line", Current'>> \in damaged'
    <3>1. IsNewline(NextSymbol)
      BY <1>1, <1>5, NewlineIsLast
    <3>2. QED
      BY <1>1, <1>2, <2>1, <3>1 DEF Harmed
  <2>3. ASSUME NEW n \in 1..Current, <<"line", n>> \notin damaged'
        PROVE  Line(n) \in parsed'
    <3>1. n # Current
      BY <1>3, <2>3
    <3>2. n \in 1..(sent \div 3)
      BY <2>1, <2>3, <3>1
    <3>3. QED
      BY <1>1, <2>3, <3>2 DEF PathInv, WholeLinesAreParsed
  <2>4. WholeLinesAreParsed'
    BY <2>1, <2>3 DEF WholeLinesAreParsed
  <2>5. QED
    BY <1>1, <1>a, <2>2, <2>4 DEF PathInv, InStep
<1>6. QED
  BY <1>4, <1>5

\* A reset of the Secondary cuts the line that is arriving.
LEMMA ResetStep ==
  ASSUME PathInv, SecondaryResets
  PROVE  PathInv'
<1>1. /\ sent' = sent /\ parsed' = parsed /\ assembler' = FreshAssembler
      /\ damaged \subseteq damaged'
      /\ sent % 3 # 0 => <<"line", Current>> \in damaged'
  BY DEF SecondaryResets, Current
<1>2. InStep'
  BY <1>1 DEF InStep, Arrived, Current, FreshAssembler
<1>3. WholeLinesAreParsed'
  <2> SUFFICES ASSUME NEW n \in 1..(sent \div 3), <<"line", n>> \notin damaged'
               PROVE  Line(n) \in parsed
    BY <1>1 DEF WholeLinesAreParsed
  <2>1. <<"line", n>> \notin damaged
    BY <1>1
  <2>2. QED
    BY <2>1 DEF PathInv, WholeLinesAreParsed
<1>4. IsAssembler'
  BY <1>1 DEF IsAssembler, FreshAssembler
<1>5. QED
  BY <1>1, <1>2, <1>3, <1>4 DEF PathInv

\* PathInv is inductive.
LEMMA PathStep ==
  ASSUME LinesFit
  PROVE  PathInv /\ [Next]_vars => PathInv'
<1> SUFFICES ASSUME PathInv, [Next]_vars PROVE PathInv'
  OBVIOUS
<1>1. CASE AirdosByte
  BY <1>1, ByteStep
<1>2. CASE AirdosByteLost \/ AirdosByteDamaged
  BY <1>2, LossStep
<1>3. CASE SecondaryResets
  BY <1>3, ResetStep
<1>4. CASE StatusFrame
  BY <1>4, NothingOfTheLine DEF StatusFrame
<1>5. CASE LinkByte
  BY <1>5, NothingOfTheLine DEF LinkByte
<1>6. CASE LinkByteLost
  BY <1>6, NothingOfTheLine DEF LinkByteLost, Fault
<1>7. CASE LinkByteDamaged
  BY <1>7, NothingOfTheLine DEF LinkByteDamaged, Fault
<1>8. CASE PrimaryResets
  BY <1>8, NothingOfTheLine DEF PrimaryResets
<1>9. CASE UNCHANGED vars
  BY <1>9, NothingOfTheLine DEF vars
<1>10. QED
  BY <1>1, <1>2, <1>3, <1>4, <1>5, <1>6, <1>7, <1>8, <1>9 DEF Next

\* A line of which every byte arrives is parsed as it is, for any number of
\* lines, losses and resets.
THEOREM AssemblerResynchronises ==
  ASSUME LinesFit
  PROVE  Spec => []WholeLinesAreParsed
<1>1. Init => PathInv
  BY DEF Init, PathInv, InStep, IsAssembler, Arrived, WholeLinesAreParsed, FreshAssembler
<1>2. PathInv /\ [Next]_vars => PathInv'
  BY PathStep
<1>3. PathInv => WholeLinesAreParsed
  BY DEF PathInv
<1>4. QED
  BY <1>1, <1>2, <1>3, PTL DEF Spec

-----------------------------------------------------------------------------
(* Frames                                                                  *)

Chars == {"$", "text", "A", "O", "digit"} \cup Junk

\* Symbols of a line or a frame, and symbols on the wire.
Bytes == [c : Chars, n : Nat, f : Nat]
WireBytes == [c : Chars \cup {"lead", "tail"}, n : Nat, f : Nat]

LineInBuffer == assembler.line \in Seq(Bytes) /\ Len(assembler.line) <= LineMax

\* What the Primary takes for a valid line.
Valid(content) == ValidAirdos(content) \/ ValidStatus(content)

IsFrame(content, f) ==
  /\ content \in Seq(Bytes)
  /\ Len(content) \in 2..(LineMax + 2)
  /\ Valid(content)
  /\ \A i \in 1..Len(content) : content[i].f = f

FramesAreValid ==
  /\ frames \in Seq(Seq(Bytes))
  /\ \A f \in DOMAIN frames : IsFrame(frames[f], f)

Size(f) == Len(frames[f]) + 2

\* The i-th symbol of a frame on the wire.
At(f, i) ==
  IF i = 1 THEN Symbol("lead", 0, f)
  ELSE IF i = Size(f) THEN Symbol("tail", 0, f)
  ELSE frames[f][i - 1]

\* All of a frame is on the wire, after k other symbols.
Waits(f, k) ==
  /\ k + Size(f) <= Len(wire)
  /\ \A i \in 1..Size(f) : wire[k + i] = At(f, i)

\* The first k symbols of a frame are received, and the others come next.
Begun(f, k) ==
  /\ Size(f) - k <= Len(wire)
  /\ \A i \in (k + 1)..Size(f) : wire[i - k] = At(f, i)
  /\ receiver.discard = FALSE
  /\ receiver.line \in Seq(Bytes) /\ Len(receiver.line) = k - 1
  /\ \A i \in 1..(k - 1) : receiver.line[i] = frames[f][i]

Intact(f) ==
  \/ ~IsPrintable(frames[f])
  \/ <<"frame", f>> \in damaged
  \/ \E k \in Nat : Waits(f, k)
  \/ \E k \in 1..(Size(f) - 1) : Begun(f, k)
  \/ frames[f] \in accepted

Buffers ==
  /\ assembler = [line |-> assembler.line, overflow |-> assembler.overflow]
  /\ receiver = [line |-> receiver.line, discard |-> receiver.discard]
  /\ wire \in Seq(WireBytes)
  /\ LineInBuffer

\* The invariant of the link.
FrameInv == sent \in Nat /\ Buffers /\ FramesAreValid /\ \A f \in DOMAIN frames : Intact(f)

-----------------------------------------------------------------------------
(* What is put on the wire                                                 *)

LEMMA Sizes == LineMax \in Nat \ {0}
BY PathAssumption

\* Only the newlines end a line.
LEMMA BytesAreNoNewlines ==
  ASSUME NEW s \in Bytes
  PROVE  ~IsNewline(s)
BY DEF Bytes, Chars, Junk, IsNewline, Newlines

LEMMA FrameOfContent ==
  ASSUME NEW content \in Seq(Bytes), NEW f \in Nat
  PROVE  /\ OfFrame(content, f) \in Seq(Bytes)
         /\ Len(OfFrame(content, f)) = Len(content)
         /\ \A i \in 1..Len(content) : /\ OfFrame(content, f)[i].c = content[i].c
                                       /\ OfFrame(content, f)[i].f = f
<1> DEFINE g == OfFrame(content, f)
<1>1. /\ Len(content) \in Nat /\ DOMAIN content = 1..Len(content)
      /\ \A i \in 1..Len(content) : content[i] \in Bytes
  BY LenProperties, ElementOfSeq
<1>2. g = [i \in 1..Len(content) |-> [content[i] EXCEPT !.f = f]]
  BY <1>1 DEF OfFrame
<1>3. ASSUME NEW i \in 1..Len(content)
      PROVE  /\ [content[i] EXCEPT !.f = f] \in Bytes
             /\ [content[i] EXCEPT !.f = f].c = content[i].c
             /\ [content[i] EXCEPT !.f = f].f = f
  <2>1. content[i] \in Bytes
    BY <1>1
  <2>2. QED
    BY <2>1 DEF Bytes
<1>4. g \in Seq(Bytes) /\ Len(g) = Len(content)
  BY <1>1, <1>2, <1>3
<1>5. QED
  BY <1>2, <1>3, <1>4

\* A frame starts and ends with a newline.
LEMMA FrameOnWire ==
  ASSUME NEW content \in Seq(Bytes), NEW f \in Nat
  PROVE  LET w == Framed(content, f)
             g == OfFrame(content, f)
         IN  /\ w \in Seq(WireBytes) /\ Len(w) = Len(content) + 2
             /\ w[1] = Symbol("lead", 0, f)
             /\ w[Len(content) + 2] = Symbol("tail", 0, f)
             /\ \A i \in 2..(Len(content) + 1) : w[i] = g[i - 1]
<1> DEFINE w == Framed(content, f)
           g == OfFrame(content, f)
           a == Symbol("lead", 0, f)
           b == Symbol("tail", 0, f)
<1>1. a \in WireBytes /\ b \in WireBytes
  BY DEF Symbol, WireBytes
<1>2. g \in Seq(WireBytes) /\ Len(g) = Len(content) /\ Len(content) \in Nat
  <2>1. Bytes \subseteq WireBytes
    BY DEF Bytes, WireBytes
  <2>2. QED
    BY <2>1, FrameOfContent, SeqMonotonic, LenProperties
<1>3. w = (<<a>> \o g) \o <<b>>
  BY DEF Framed
<1> HIDE DEF w, g, a, b
<1> DEFINE A == <<a>>
           B == <<b>>
<1>4. /\ A \in Seq(WireBytes) /\ Len(A) = 1 /\ A[1] = a
      /\ B \in Seq(WireBytes) /\ Len(B) = 1 /\ B[1] = b
  BY <1>1
<1> HIDE DEF A, B
<1> DEFINE ag == A \o g
<1>5. /\ ag \in Seq(WireBytes) /\ Len(ag) = Len(g) + 1
      /\ \A i \in 1..(Len(g) + 1) : ag[i] = IF i <= 1 THEN A[i] ELSE g[i - 1]
  <2>1. /\ ag \in Seq(WireBytes) /\ Len(ag) = Len(A) + Len(g)
        /\ \A i \in 1..(Len(A) + Len(g)) : ag[i] = IF i <= Len(A) THEN A[i] ELSE g[i - Len(A)]
    <3>1. A \in Seq(WireBytes) /\ g \in Seq(WireBytes)
      BY <1>2, <1>4
    <3>2. QED
      BY <3>1, ConcatProperties
  <2>2. Len(A) + Len(g) = Len(g) + 1
    BY <1>2, <1>4
  <2> HIDE DEF ag
  <2>3. QED
    BY <1>4, <2>1, <2>2
<1> HIDE DEF ag
<1>6. /\ w \in Seq(WireBytes) /\ Len(w) = Len(g) + 2
      /\ \A i \in 1..(Len(g) + 2) : w[i] = IF i <= Len(g) + 1 THEN ag[i] ELSE B[i - (Len(g) + 1)]
  <2>1. w = ag \o B
    BY <1>3 DEF ag, A, B
  <2>2. /\ w \in Seq(WireBytes) /\ Len(w) = Len(ag) + Len(B)
        /\ \A i \in 1..(Len(ag) + Len(B)) : w[i] = IF i <= Len(ag) THEN ag[i] ELSE B[i - Len(ag)]
    BY <1>4, <1>5, <2>1, ConcatProperties
  <2>3. Len(ag) + Len(B) = Len(g) + 2 /\ Len(ag) = Len(g) + 1
    BY <1>2, <1>4, <1>5
  <2>4. QED
    BY <2>2, <2>3
<1>7. w[1] = a
  <2>1. 1 \in 1..(Len(g) + 2) /\ 1 \in 1..(Len(g) + 1) /\ 1 <= Len(g) + 1
    BY <1>2
  <2>2. QED
    BY <1>4, <1>5, <1>6, <2>1
<1>8. w[Len(content) + 2] = b
  <2>1. (Len(g) + 2) - (Len(g) + 1) = 1 /\ ~(Len(g) + 2 <= Len(g) + 1)
    BY <1>2
  <2>2. QED
    BY <1>2, <1>4, <1>6, <2>1
<1>9. \A i \in 2..(Len(content) + 1) : w[i] = g[i - 1]
  BY <1>2, <1>5, <1>6
<1>10. QED
  BY <1>2, <1>6, <1>7, <1>8, <1>9 DEF w, g, a, b

\* A frame stays intact while symbols are only added behind those on the wire.
LEMMA LaterSymbolsKeepIntact ==
  ASSUME NEW f, Len(frames[f]) \in Nat, Intact(f), frames'[f] = frames[f],
         receiver' = receiver, accepted \subseteq accepted', damaged \subseteq damaged',
         Len(wire) \in Nat, Len(wire') \in Nat, Len(wire) <= Len(wire'),
         \A i \in 1..Len(wire) : wire'[i] = wire[i]
  PROVE  Intact(f)'
<1>1. /\ Size(f)' = Size(f) /\ Size(f) \in Nat
      /\ \A i : At(f, i)' = At(f, i)
  BY DEF Size, At
<1>2. CASE ~IsPrintable(frames[f]) \/ <<"frame", f>> \in damaged \/ frames[f] \in accepted
  BY <1>2 DEF Intact
<1>3. ASSUME NEW k \in Nat, Waits(f, k) PROVE Waits(f, k)'
  <2>1. k + Size(f)' <= Len(wire')
    BY <1>1, <1>3 DEF Waits
  <2>2. ASSUME NEW i \in 1..Size(f)' PROVE wire'[k + i] = At(f, i)'
    <3>1. k + i \in 1..Len(wire) /\ i \in 1..Size(f)
      BY <1>1, <1>3 DEF Waits
    <3>2. QED
      BY <1>1, <1>3, <3>1 DEF Waits
  <2>3. QED
    BY <2>1, <2>2 DEF Waits
<1>4. ASSUME NEW k \in 1..(Size(f) - 1), Begun(f, k) PROVE Begun(f, k)'
  <2>1. Size(f)' - k <= Len(wire')
    BY <1>1, <1>4 DEF Begun
  <2>2. ASSUME NEW i \in (k + 1)..Size(f)' PROVE wire'[i - k] = At(f, i)'
    <3>1. i - k \in 1..Len(wire) /\ i \in (k + 1)..Size(f)
      BY <1>1, <1>4 DEF Begun
    <3>2. QED
      BY <1>1, <1>4, <3>1 DEF Begun
  <2>3. QED
    BY <1>4, <2>1, <2>2 DEF Begun
<1>5. QED
  BY <1>1, <1>2, <1>3, <1>4 DEF Intact

\* A new frame waits behind all others, and those stay where they are.
LEMMA PutKeepsIntact ==
  ASSUME FrameInv, NEW content \in Seq(Bytes), Len(content) \in 2..(LineMax + 2),
         NEW new, new = Len(frames) + 1, Valid(OfFrame(content, new)), Put(content),
         receiver' = receiver, accepted' = accepted, damaged' = damaged
  PROVE  /\ wire' \in Seq(WireBytes) /\ FramesAreValid'
         /\ \A f \in DOMAIN frames' : Intact(f)'
<1> DEFINE g == OfFrame(content, new)
           w == Framed(content, new)
<1>1. CASE UNCHANGED <<wire, frames>>
  <2>1. ASSUME NEW f \in DOMAIN frames PROVE Intact(f)'
    <3>1. Intact(f) /\ Len(frames[f]) \in Nat
      BY DEF FrameInv, FramesAreValid, IsFrame
    <3>2. Len(wire) \in Nat /\ wire' = wire /\ frames' = frames
      BY <1>1, LenProperties DEF FrameInv, Buffers
    <3>3. QED
      BY <3>1, <3>2, LaterSymbolsKeepIntact
  <2>2. QED
    BY <1>1, <2>1 DEF FrameInv, Buffers, FramesAreValid, IsFrame, Valid, ValidAirdos, ValidStatus
<1>2. CASE wire' = wire \o w /\ frames' = Append(frames, g)
  <2>1. Len(frames) \in Nat /\ DOMAIN frames = 1..Len(frames) /\ new \in Nat
    BY LenProperties DEF FrameInv, FramesAreValid
  <2>2. /\ g \in Seq(Bytes) /\ Len(g) = Len(content) /\ Len(content) \in Nat
        /\ \A i \in 1..Len(g) : g[i].f = new
    BY <2>1, FrameOfContent, LenProperties
  <2>3. /\ w \in Seq(WireBytes) /\ Len(w) = Len(content) + 2
        /\ w[1] = Symbol("lead", 0, new) /\ w[Len(content) + 2] = Symbol("tail", 0, new)
        /\ \A i \in 2..(Len(content) + 1) : w[i] = g[i - 1]
    BY <2>1, FrameOnWire
  <2>4. IsFrame(g, new)
    BY <2>2 DEF IsFrame
  <2>5. frames \in Seq(Seq(Bytes))
    BY DEF FrameInv, FramesAreValid
  <2> HIDE DEF g, w
  <2>6. /\ frames' \in Seq(Seq(Bytes)) /\ Len(frames') = new
        /\ \A f \in 1..Len(frames) : frames'[f] = frames[f]
        /\ frames'[new] = g
    BY <1>2, <2>2, <2>5, AppendProperties
  <2>7. DOMAIN frames' = 1..new
    BY <2>6, LenProperties
  <2>8. FramesAreValid'
    <3> SUFFICES ASSUME NEW f \in 1..new PROVE IsFrame(frames'[f], f)
      BY <2>1, <2>6, <2>7 DEF FramesAreValid, IsFrame, Valid, ValidAirdos, ValidStatus
    <3>1. CASE f = new
      BY <2>4, <2>6, <3>1
    <3>2. CASE f # new
      <4>1. f \in 1..Len(frames)
        BY <2>1, <3>2
      <4>2. QED
        BY <2>1, <2>6, <4>1 DEF FrameInv, FramesAreValid
    <3>3. QED
      BY <3>1, <3>2
  <2>9. /\ wire \in Seq(WireBytes) /\ Len(wire) \in Nat
        /\ wire' \in Seq(WireBytes) /\ Len(wire') = Len(wire) + Len(w)
        /\ \A i \in 1..Len(wire) : wire'[i] = wire[i]
        /\ \A i \in 1..Len(w) : wire'[Len(wire) + i] = w[i]
    <3>1. wire \in Seq(WireBytes) /\ Len(wire) \in Nat /\ Len(w) \in Nat
      BY <2>3, LenProperties DEF FrameInv, Buffers
    <3>2. /\ wire' \in Seq(WireBytes) /\ Len(wire') = Len(wire) + Len(w)
          /\ \A i \in 1..(Len(wire) + Len(w)) :
               wire'[i] = IF i <= Len(wire) THEN wire[i] ELSE w[i - Len(wire)]
      BY <1>2, <2>3, <3>1, ConcatProperties
    <3>3. \A i \in 1..Len(wire) : wire'[i] = wire[i]
      BY <3>1, <3>2
    <3>4. ASSUME NEW i \in 1..Len(w) PROVE wire'[Len(wire) + i] = w[i]
      <4>1. Len(wire) + i \in 1..(Len(wire) + Len(w)) /\ ~(Len(wire) + i <= Len(wire))
            /\ (Len(wire) + i) - Len(wire) = i
        BY <3>1
      <4>2. QED
        BY <3>2, <4>1
    <3>5. QED
      BY <3>1, <3>2, <3>3, <3>4
  <2>10. Intact(new)'
    <3>1. Size(new)' = Len(w) /\ Len(w) \in Nat /\ Len(g) = Len(content)
      BY <2>2, <2>3, <2>6 DEF Size
    <3>2. ASSUME NEW i \in 1..Len(w) PROVE w[i] = At(new, i)'
      <4>1. CASE i = 1
        BY <2>3, <4>1 DEF At
      <4>2. CASE i = Len(w)
        BY <2>2, <2>3, <3>1, <4>2 DEF At
      <4>3. CASE i # 1 /\ i # Len(w)
        <5>1. i \in 2..(Len(content) + 1)
          BY <2>2, <2>3, <4>3
        <5>2. w[i] = g[i - 1]
          BY <2>3, <5>1
        <5>3. At(new, i)' = g[i - 1]
          BY <2>6, <3>1, <4>3 DEF At
        <5>4. QED
          BY <5>2, <5>3
      <4>4. QED
        BY <4>1, <4>2, <4>3
    <3>3. \E k \in Nat : Waits(new, k)'
      <4> DEFINE k == Len(wire)
      <4>1. k \in Nat
        BY <2>9
      <4>2. k + Size(new)' <= Len(wire') /\ \A i \in 1..Size(new)' : wire'[k + i] = At(new, i)'
        BY <2>9, <3>1, <3>2
      <4> HIDE DEF k
      <4>3. QED
        BY <4>1, <4>2 DEF Waits
    <3>4. QED
      BY <3>3 DEF Intact
  <2>11. ASSUME NEW f \in 1..Len(frames) PROVE Intact(f)'
    <3>1. Intact(f) /\ Len(frames[f]) \in Nat
      <4>1. f \in DOMAIN frames
        BY <2>1, <2>11
      <4>2. Intact(f) /\ IsFrame(frames[f], f)
        BY <4>1 DEF FrameInv, FramesAreValid
      <4>3. QED
        BY <4>2, LenProperties DEF IsFrame
    <3>2. Len(wire) \in Nat /\ Len(wire') \in Nat /\ Len(wire) <= Len(wire')
      <4>1. Len(w) \in Nat
        BY <2>3, LenProperties
      <4>2. QED
        BY <2>9, <4>1
    <3>3. QED
      BY <2>6, <2>9, <2>11, <3>1, <3>2, LaterSymbolsKeepIntact
  <2>12. ASSUME NEW f \in DOMAIN frames' PROVE Intact(f)'
    <3>1. f = new \/ f \in 1..Len(frames)
      BY <2>1, <2>7, <2>12
    <3>2. QED
      BY <2>10, <2>11, <3>1
  <2>13. QED
    BY <2>8, <2>9, <2>12
<1>3. QED
  BY <1>1, <1>2 DEF Put

-----------------------------------------------------------------------------
(* What the Primary receives                                               *)

\* Whatever is received, nothing accepted is forgotten.
LEMMA ReceiveAdds ==
  ASSUME Buffers, NEW s, Receive(s)
  PROVE  /\ accepted \subseteq accepted'
         /\ receiver' = [line |-> receiver'.line, discard |-> receiver'.discard]
<1>1. accepted \subseteq accepted'
  BY DEF Receive, ReceiveLine
<1>2. CASE IsNewline(s)
  BY <1>1, <1>2 DEF Receive
<1>3. CASE ~IsNewline(s)
  BY <1>1, <1>3 DEF Receive, Buffers
<1>4. QED
  BY <1>2, <1>3

\* A newline ends the line and the discarding of one.
LEMMA ReceiveNewline ==
  ASSUME NEW s, IsNewline(s), Receive(s)
  PROVE  /\ receiver'.line = <<>> /\ receiver'.discard = FALSE
         /\ receiver.discard = FALSE /\ receiver.line # <<>> /\ Valid(receiver.line)
              => receiver.line \in accepted'
BY DEF Receive, ReceiveLine, Valid

\* Any other printable symbol is appended as long as there is room.
LEMMA ReceiveByte ==
  ASSUME Buffers, NEW s \in Bytes, s.c \notin Junk, Receive(s), receiver.discard = FALSE,
         Len(receiver.line) \in Nat, Len(receiver.line) < LineMax + 2
  PROVE  receiver'.line = Append(receiver.line, s) /\ receiver'.discard = FALSE
<1>1. ~IsNewline(s) /\ s.c \notin Junk
  BY BytesAreNoNewlines
<1>2. ~(Len(receiver.line) >= LineMax + 2)
  BY Sizes
<1>3. receiver' = [receiver EXCEPT !.line = Append(@, s)]
  BY <1>1, <1>2 DEF Receive
<1>4. QED
  BY <1>3 DEF Buffers

\* Every symbol of a frame belongs to it.
LEMMA SymbolsOfFrame ==
  ASSUME FramesAreValid, NEW f \in DOMAIN frames
  PROVE  /\ f \in Nat \ {0} /\ Len(frames[f]) \in 2..(LineMax + 2)
         /\ Size(f) = Len(frames[f]) + 2 /\ Size(f) \in Nat
         /\ frames[f] \in Seq(Bytes) /\ Valid(frames[f])
         /\ At(f, 1) = Symbol("lead", 0, f) /\ At(f, Size(f)) = Symbol("tail", 0, f)
         /\ \A i \in 2..(Size(f) - 1) : At(f, i) = frames[f][i - 1] /\ At(f, i) \in Bytes
         /\ \A i \in 1..Size(f) : At(f, i).f = f
<1>1. f \in Nat \ {0}
  BY LenProperties DEF FramesAreValid
<1>2. IsFrame(frames[f], f)
  BY DEF FramesAreValid
<1>3. /\ Len(frames[f]) \in 2..(LineMax + 2) /\ Len(frames[f]) \in Nat
      /\ Size(f) = Len(frames[f]) + 2 /\ Size(f) \in Nat
      /\ frames[f] \in Seq(Bytes) /\ Valid(frames[f])
  BY <1>2, LenProperties DEF IsFrame, Size
<1>4. At(f, 1) = Symbol("lead", 0, f) /\ At(f, Size(f)) = Symbol("tail", 0, f)
  BY <1>3 DEF At
<1>5. ASSUME NEW i \in 2..(Size(f) - 1)
      PROVE  At(f, i) = frames[f][i - 1] /\ At(f, i) \in Bytes /\ At(f, i).f = f
  <2>1. i - 1 \in 1..Len(frames[f]) /\ i # 1 /\ i # Size(f)
    BY <1>3
  <2>2. At(f, i) = frames[f][i - 1]
    BY <2>1 DEF At
  <2>3. frames[f][i - 1] \in Bytes
    BY <1>3, <2>1, ElementOfSeq
  <2>4. frames[f][i - 1].f = f
    BY <1>2, <2>1 DEF IsFrame
  <2>5. QED
    BY <2>2, <2>3, <2>4
<1>6. ASSUME NEW i \in 1..Size(f) PROVE At(f, i).f = f
  <2>1. i = 1 \/ i = Size(f) \/ i \in 2..(Size(f) - 1)
    BY <1>3
  <2>2. QED
    BY <1>4, <1>5, <2>1 DEF Symbol
<1>7. QED
  BY <1>1, <1>3, <1>4, <1>5, <1>6

\* A frame that waits behind other symbols moves up when the first one leaves.
LEMMA MovesUp ==
  ASSUME FrameInv, NEW f \in DOMAIN frames, wire # <<>>, wire' = Tail(wire),
         frames' = frames, NEW k \in Nat \ {0}, Waits(f, k)
  PROVE  Intact(f)'
<1>1. /\ Len(wire) \in Nat /\ Len(wire') = Len(wire) - 1
      /\ \A i \in 1..Len(wire') : wire'[i] = wire[i + 1]
  BY HeadTailProperties, LenProperties DEF FrameInv, Buffers
<1>2. Size(f)' = Size(f) /\ Size(f) \in Nat /\ \A i : At(f, i)' = At(f, i)
  BY SymbolsOfFrame DEF FrameInv, Size, At
<1>3. PICK j \in Nat : k = j + 1
  <2>1. k - 1 \in Nat /\ k = (k - 1) + 1
    OBVIOUS
  <2>2. QED
    BY <2>1
<1>4. j + Size(f) <= Len(wire')
  BY <1>1, <1>2, <1>3 DEF Waits
<1>5. ASSUME NEW i \in 1..Size(f) PROVE wire'[j + i] = At(f, i)
  <2>1. j + i \in 1..Len(wire') /\ (j + i) + 1 = k + i
    BY <1>1, <1>2, <1>3, <1>4
  <2>2. wire'[j + i] = wire[k + i]
    BY <1>1, <2>1
  <2>3. QED
    BY <2>2 DEF Waits
<1>6. Waits(f, j)'
  BY <1>2, <1>4, <1>5 DEF Waits
<1>7. QED
  BY <1>3, <1>6 DEF Intact

\* The first symbol of the wire is that of a frame that has begun or is next.
LEMMA NextOfFrame ==
  ASSUME FrameInv, NEW f \in DOMAIN frames
  PROVE  /\ Waits(f, 0) => wire # <<>> /\ Head(wire) = At(f, 1)
         /\ \A k \in 1..(Size(f) - 1) :
              Begun(f, k) => wire # <<>> /\ Head(wire) = At(f, k + 1)
<1>1. /\ wire \in Seq(WireBytes) /\ Len(wire) \in Nat
      /\ (Len(wire) >= 1 => wire # <<>> /\ Head(wire) = wire[1])
  BY LenProperties DEF FrameInv, Buffers
<1>2. Size(f) \in Nat /\ Size(f) >= 4
  BY SymbolsOfFrame, Sizes DEF FrameInv
<1>3. ASSUME Waits(f, 0) PROVE wire # <<>> /\ Head(wire) = At(f, 1)
  <2>1. Len(wire) >= 1 /\ 1 \in 1..Size(f) /\ 0 + 1 = 1
    BY <1>1, <1>2, <1>3 DEF Waits
  <2>2. wire[0 + 1] = At(f, 1)
    BY <1>3, <2>1 DEF Waits
  <2>3. QED
    BY <1>1, <2>1, <2>2
<1>4. ASSUME NEW k \in 1..(Size(f) - 1), Begun(f, k)
      PROVE  wire # <<>> /\ Head(wire) = At(f, k + 1)
  <2>1. Len(wire) >= 1 /\ k + 1 \in (k + 1)..Size(f) /\ (k + 1) - k = 1
    BY <1>1, <1>2, <1>4 DEF Begun
  <2>2. wire[(k + 1) - k] = At(f, k + 1)
    BY <1>4, <2>1 DEF Begun
  <2>3. QED
    BY <1>1, <2>1, <2>2
<1>5. QED
  BY <1>3, <1>4

\* The leading newline is received.
LEMMA FrameBegins ==
  ASSUME FrameInv, NEW f \in DOMAIN frames, wire # <<>>, wire' = Tail(wire),
         frames' = frames, Receive(Head(wire)), Waits(f, 0)
  PROVE  Intact(f)'
<1>1. /\ Len(wire) \in Nat /\ Len(wire') = Len(wire) - 1
      /\ \A i \in 1..Len(wire') : wire'[i] = wire[i + 1]
  BY HeadTailProperties, LenProperties DEF FrameInv, Buffers
<1>2. /\ Size(f)' = Size(f) /\ Size(f) \in Nat /\ Size(f) >= 4
      /\ \A i : At(f, i)' = At(f, i)
  BY SymbolsOfFrame, Sizes DEF FrameInv, Size, At
<1>3. IsNewline(Head(wire))
  BY NextOfFrame, SymbolsOfFrame DEF FrameInv, Symbol, IsNewline, Newlines
<1>4. receiver'.line = <<>> /\ receiver'.discard = FALSE
  BY <1>3, ReceiveNewline
<1>5. Size(f) - 1 <= Len(wire')
  BY <1>1, <1>2 DEF Waits
<1>6. ASSUME NEW i \in 2..Size(f) PROVE wire'[i - 1] = At(f, i)
  <2>1. i - 1 \in 1..Len(wire') /\ (i - 1) + 1 = i /\ 0 + i = i /\ i \in 1..Size(f)
    BY <1>1, <1>2, <1>5
  <2>2. wire'[i - 1] = wire[i]
    BY <1>1, <2>1
  <2>3. wire[0 + i] = At(f, i)
    BY <2>1 DEF Waits
  <2>4. QED
    BY <2>1, <2>2, <2>3
<1>7. /\ receiver'.line \in Seq(Bytes) /\ Len(receiver'.line) = 1 - 1
      /\ \A i \in 1..(1 - 1) : receiver'.line[i] = frames[f][i]
  BY <1>4
<1>8. Begun(f, 1)'
  BY <1>2, <1>4, <1>5, <1>6, <1>7 DEF Begun
<1>9. 1 \in 1..(Size(f)' - 1)
  BY <1>2
<1>10. QED
  BY <1>8, <1>9 DEF Intact

\* A byte of a printable frame that has begun is received.
LEMMA FrameContinues ==
  ASSUME FrameInv, NEW f \in DOMAIN frames, wire # <<>>, wire' = Tail(wire),
         frames' = frames, Receive(Head(wire)), IsPrintable(frames[f]),
         NEW k \in 1..(Size(f) - 2), Begun(f, k)
  PROVE  Intact(f)'
<1>1. /\ Len(wire) \in Nat /\ Len(wire') = Len(wire) - 1
      /\ \A i \in 1..Len(wire') : wire'[i] = wire[i + 1]
  BY HeadTailProperties, LenProperties DEF FrameInv, Buffers
<1>2. /\ Size(f)' = Size(f) /\ Size(f) \in Nat /\ Size(f) <= LineMax + 4
      /\ Size(f) = Len(frames[f]) + 2
      /\ \A i : At(f, i)' = At(f, i)
  BY SymbolsOfFrame, Sizes DEF FrameInv, Size, At
<1>3. /\ k \in 1..(Size(f) - 1) /\ k + 1 \in 2..(Size(f) - 1) /\ k + 1 \in Nat
      /\ (k + 1) - 1 = k
  BY <1>2
<1>4. Head(wire) = frames[f][k] /\ Head(wire) \in Bytes /\ Head(wire).c \notin Junk
  <2>1. Head(wire) = At(f, k + 1)
    BY <1>3, NextOfFrame
  <2>2. At(f, k + 1) = frames[f][(k + 1) - 1] /\ At(f, k + 1) \in Bytes
    BY <1>3, SymbolsOfFrame DEF FrameInv
  <2>3. DOMAIN frames[f] = 1..Len(frames[f]) /\ k \in 1..Len(frames[f])
    BY <1>2, SymbolsOfFrame, LenProperties DEF FrameInv
  <2>4. frames[f][k].c \notin Junk
    BY <2>3 DEF IsPrintable
  <2>5. QED
    BY <1>3, <2>1, <2>2, <2>4
<1>5. /\ receiver.discard = FALSE /\ receiver.line \in Seq(Bytes)
      /\ Len(receiver.line) = k - 1
      /\ \A i \in 1..(k - 1) : receiver.line[i] = frames[f][i]
  BY DEF Begun
<1>6. receiver'.line = Append(receiver.line, Head(wire)) /\ receiver'.discard = FALSE
  <2>1. Len(receiver.line) \in Nat /\ Len(receiver.line) < LineMax + 2
    BY <1>2, <1>5, Sizes
  <2>2. QED
    BY <1>4, <1>5, <2>1, ReceiveByte DEF FrameInv
<1>7. /\ receiver'.line \in Seq(Bytes) /\ Len(receiver'.line) = k
      /\ \A i \in 1..k : receiver'.line[i] = frames[f][i]
  <2> DEFINE b == Head(wire)
             l == receiver.line
             m == receiver'.line
  <2>1. m = Append(l, b) /\ l \in Seq(Bytes) /\ b \in Bytes /\ Len(l) = k - 1 /\ b = frames[f][k]
    BY <1>4, <1>5, <1>6
  <2>2. \A i \in 1..(k - 1) : l[i] = frames[f][i]
    BY <1>5
  <2> HIDE DEF b, l, m
  <2>3. /\ m \in Seq(Bytes) /\ Len(m) = Len(l) + 1
        /\ \A i \in 1..Len(l) : m[i] = l[i]
        /\ m[Len(l) + 1] = b
    BY <2>1, AppendProperties
  <2>4. Len(m) = k /\ m[k] = b
    BY <2>1, <2>3
  <2>5. \A i \in 1..(k - 1) : m[i] = frames[f][i]
    BY <2>1, <2>2, <2>3
  <2>6. ASSUME NEW i \in 1..k PROVE m[i] = frames[f][i]
    <3>1. i = k \/ i \in 1..(k - 1)
      OBVIOUS
    <3>2. QED
      BY <2>1, <2>4, <2>5, <3>1
  <2>7. QED
    BY <2>3, <2>4, <2>6 DEF m
<1>8. Size(f) - (k + 1) <= Len(wire')
  <2>1. Size(f) - k <= Len(wire)
    BY DEF Begun
  <2>2. QED
    BY <1>1, <1>2, <2>1
<1>9. ASSUME NEW i \in ((k + 1) + 1)..Size(f) PROVE wire'[i - (k + 1)] = At(f, i)
  <2>1. /\ i - (k + 1) \in 1..Len(wire') /\ (i - (k + 1)) + 1 = i - k
        /\ i \in (k + 1)..Size(f)
    BY <1>1, <1>2, <1>8
  <2>2. wire'[i - (k + 1)] = wire[i - k]
    BY <1>1, <2>1
  <2>3. wire[i - k] = At(f, i)
    BY <2>1 DEF Begun
  <2>4. QED
    BY <2>2, <2>3
<1>10. Begun(f, k + 1)'
  BY <1>2, <1>3, <1>6, <1>7, <1>8, <1>9 DEF Begun
<1>11. k + 1 \in 1..(Size(f)' - 1)
  BY <1>2, <1>3
<1>12. QED
  BY <1>10, <1>11 DEF Intact

\* The newline that ends a frame is received, and the frame is accepted.
LEMMA FrameEnds ==
  ASSUME FrameInv, NEW f \in DOMAIN frames, wire # <<>>, frames' = frames,
         Receive(Head(wire)), Begun(f, Size(f) - 1)
  PROVE  Intact(f)'
<1>1. /\ Size(f) \in Nat /\ Size(f) = Len(frames[f]) + 2 /\ Len(frames[f]) \in Nat
      /\ Len(frames[f]) >= 2 /\ Size(f) - 1 \in 1..(Size(f) - 1)
      /\ (Size(f) - 1) + 1 = Size(f) /\ (Size(f) - 1) - 1 = Len(frames[f])
  BY SymbolsOfFrame, Sizes DEF FrameInv
<1>2. frames[f] \in Seq(Bytes) /\ Valid(frames[f])
  BY SymbolsOfFrame DEF FrameInv
<1>3. IsNewline(Head(wire))
  <2>1. Head(wire) = At(f, Size(f))
    BY <1>1, NextOfFrame
  <2>2. At(f, Size(f)) = Symbol("tail", 0, f)
    BY SymbolsOfFrame DEF FrameInv
  <2>3. QED
    BY <2>1, <2>2 DEF Symbol, IsNewline, Newlines
<1>4. /\ receiver.discard = FALSE /\ receiver.line \in Seq(Bytes)
      /\ Len(receiver.line) = Len(frames[f])
      /\ \A i \in 1..Len(frames[f]) : receiver.line[i] = frames[f][i]
  BY <1>1 DEF Begun
<1>5. receiver.line = frames[f]
  BY <1>2, <1>4, SeqEqual
<1>6. receiver.line # <<>>
  BY <1>1, <1>4
<1>7. frames[f] \in accepted'
  BY <1>2, <1>3, <1>4, <1>5, <1>6, ReceiveNewline
<1>8. QED
  BY <1>7 DEF Intact

\* Whatever the Primary receives from the wire, intact frames stay intact.
LEMMA LinkByteKeepsIntact ==
  ASSUME FrameInv, LinkByte, NEW f \in DOMAIN frames
  PROVE  Intact(f)'
<1>1. /\ wire # <<>> /\ wire' = Tail(wire) /\ Receive(Head(wire))
      /\ frames' = frames /\ damaged' = damaged
  BY DEF LinkByte
<1>2. accepted \subseteq accepted'
  BY <1>1, ReceiveAdds DEF FrameInv
<1>3. CASE ~IsPrintable(frames[f]) \/ <<"frame", f>> \in damaged \/ frames[f] \in accepted
  BY <1>1, <1>2, <1>3 DEF Intact
<1>4. ASSUME NEW k \in Nat, Waits(f, k) PROVE Intact(f)'
  <2>1. CASE k = 0
    BY <1>1, <1>4, <2>1, FrameBegins
  <2>2. CASE k # 0
    BY <1>1, <1>4, <2>2, MovesUp
  <2>3. QED
    BY <2>1, <2>2
<1>5. ASSUME NEW k \in 1..(Size(f) - 1), Begun(f, k) PROVE Intact(f)'
  <2>1. Size(f) \in Nat
    BY SymbolsOfFrame DEF FrameInv
  <2>2. CASE k = Size(f) - 1
    BY <1>1, <1>5, <2>2, FrameEnds
  <2>3. CASE k # Size(f) - 1
    <3>1. k \in 1..(Size(f) - 2)
      BY <2>1, <2>3
    <3>2. CASE IsPrintable(frames[f])
      BY <1>1, <1>5, <3>1, <3>2, FrameContinues
    <3>3. CASE ~IsPrintable(frames[f])
      BY <1>3, <3>3
    <3>4. QED
      BY <3>2, <3>3
  <2>4. QED
    BY <2>2, <2>3
<1>6. Intact(f)
  BY DEF FrameInv
<1>7. QED
  BY <1>3, <1>4, <1>5, <1>6 DEF Intact

\* A symbol of the wire that is lost or damaged harms the frame it belongs to.
LEMMA FaultKeepsIntact ==
  ASSUME FrameInv, wire # <<>>, wire' = Tail(wire), frames' = frames,
         damaged' = damaged \cup Harmed(Head(wire)), accepted \subseteq accepted',
         NEW f \in DOMAIN frames
  PROVE  Intact(f)'
<1>1. CASE ~IsPrintable(frames[f]) \/ <<"frame", f>> \in damaged \/ frames[f] \in accepted
  BY <1>1 DEF Intact
<1>2. ASSUME Head(wire).f = f PROVE Intact(f)'
  <2>1. f # 0
    BY SymbolsOfFrame DEF FrameInv
  <2>2. <<"frame", f>> \in Harmed(Head(wire))
    BY <1>2, <2>1 DEF Harmed
  <2>3. QED
    BY <2>2 DEF Intact
<1>3. ASSUME NEW k \in Nat, Waits(f, k) PROVE Intact(f)'
  <2>1. CASE k = 0
    <3>1. Head(wire).f = f
      BY <1>3, <2>1, NextOfFrame, SymbolsOfFrame DEF FrameInv, Symbol
    <3>2. QED
      BY <1>2, <3>1
  <2>2. CASE k # 0
    BY <1>3, <2>2, MovesUp
  <2>3. QED
    BY <2>1, <2>2
<1>4. ASSUME NEW k \in 1..(Size(f) - 1), Begun(f, k) PROVE Intact(f)'
  <2>1. k + 1 \in 1..Size(f)
    BY SymbolsOfFrame DEF FrameInv
  <2>2. Head(wire) = At(f, k + 1)
    BY <1>4, NextOfFrame
  <2>3. At(f, k + 1).f = f
    BY <2>1, SymbolsOfFrame DEF FrameInv
  <2>4. QED
    BY <1>2, <2>2, <2>3
<1>5. Intact(f)
  BY DEF FrameInv
<1>6. QED
  BY <1>1, <1>3, <1>4, <1>5 DEF Intact

-----------------------------------------------------------------------------
(* The steps                                                               *)

\* A frame that waits or has begun has a symbol on the wire.
LEMMA FrameIsOnWire ==
  ASSUME FrameInv, NEW f \in DOMAIN frames,
         (\E k \in Nat : Waits(f, k)) \/ (\E k \in 1..(Size(f) - 1) : Begun(f, k))
  PROVE  \E j \in DOMAIN wire : wire[j].f = f
<1>1. DOMAIN wire = 1..Len(wire) /\ Len(wire) \in Nat
  BY LenProperties DEF FrameInv, Buffers
<1>2. Size(f) \in Nat /\ Size(f) >= 4 /\ \A i \in 1..Size(f) : At(f, i).f = f
  BY SymbolsOfFrame, Sizes DEF FrameInv
<1>3. ASSUME NEW k \in Nat, Waits(f, k) PROVE \E j \in DOMAIN wire : wire[j].f = f
  <2>1. k + 1 \in 1..Len(wire) /\ 1 \in 1..Size(f)
    BY <1>1, <1>2, <1>3 DEF Waits
  <2>2. wire[k + 1].f = f
    BY <1>2, <1>3, <2>1 DEF Waits
  <2>3. QED
    BY <1>1, <2>1, <2>2
<1>4. ASSUME NEW k \in 1..(Size(f) - 1), Begun(f, k)
      PROVE  \E j \in DOMAIN wire : wire[j].f = f
  <2>1. /\ Size(f) \in (k + 1)..Size(f) /\ Size(f) \in 1..Size(f)
        /\ Size(f) - k \in 1..Len(wire)
    BY <1>1, <1>2, <1>4 DEF Begun
  <2>2. wire[Size(f) - k].f = f
    BY <1>2, <1>4, <2>1 DEF Begun
  <2>3. QED
    BY <1>1, <2>1, <2>2
<1>5. QED
  BY <1>3, <1>4

\* A reset of the Secondary harms every frame on the wire.
LEMMA SecondaryResetStep ==
  ASSUME FrameInv, SecondaryResets
  PROVE  FrameInv'
<1>1. /\ sent' = sent /\ assembler' = FreshAssembler /\ wire' = <<>>
      /\ receiver' = receiver /\ frames' = frames /\ accepted' = accepted
      /\ damaged \subseteq damaged'
      /\ \A j \in DOMAIN wire : Harmed(wire[j]) \subseteq damaged'
  BY DEF SecondaryResets, SymbolsOf
<1>2. Buffers'
  <2>1. FreshAssembler.line = <<>> /\ Len(<<>>) <= LineMax
    BY Sizes DEF FreshAssembler
  <2>2. LineInBuffer'
    BY <1>1, <2>1 DEF LineInBuffer
  <2>3. QED
    BY <1>1, <2>2 DEF FrameInv, Buffers, FreshAssembler
<1>3. FramesAreValid'
  BY <1>1 DEF FrameInv, FramesAreValid, IsFrame, Valid, ValidAirdos, ValidStatus
<1>4. ASSUME NEW f \in DOMAIN frames PROVE Intact(f)'
  <2>1. CASE ~IsPrintable(frames[f]) \/ <<"frame", f>> \in damaged \/ frames[f] \in accepted
    BY <1>1, <2>1 DEF Intact
  <2>2. CASE (\E k \in Nat : Waits(f, k)) \/ (\E k \in 1..(Size(f) - 1) : Begun(f, k))
    <3>1. PICK j \in DOMAIN wire : wire[j].f = f
      BY <2>2, FrameIsOnWire
    <3>2. f # 0
      BY SymbolsOfFrame DEF FrameInv
    <3>3. <<"frame", f>> \in Harmed(wire[j])
      BY <3>1, <3>2 DEF Harmed
    <3>4. QED
      BY <1>1, <3>3 DEF Intact
  <2>3. QED
    BY <2>1, <2>2 DEF FrameInv, Intact
<1>5. QED
  BY <1>1, <1>2, <1>3, <1>4 DEF FrameInv

\* A reset of the Primary harms the frame that has begun, and no other one.
LEMMA PrimaryResetStep ==
  ASSUME FrameInv, PrimaryResets
  PROVE  FrameInv'
<1>1. /\ sent' = sent /\ assembler' = assembler /\ wire' = wire
      /\ receiver' = FreshReceiver /\ frames' = frames /\ accepted' = accepted
      /\ damaged \subseteq damaged'
      /\ wire # <<>> /\ Head(wire).c # "lead" => Harmed(Head(wire)) \subseteq damaged'
  BY DEF PrimaryResets
<1>2. Buffers'
  BY <1>1 DEF FrameInv, Buffers, LineInBuffer, FreshReceiver
<1>3. FramesAreValid'
  BY <1>1 DEF FrameInv, FramesAreValid, IsFrame, Valid, ValidAirdos, ValidStatus
<1>4. ASSUME NEW f \in DOMAIN frames PROVE Intact(f)'
  <2>1. CASE ~IsPrintable(frames[f]) \/ <<"frame", f>> \in damaged \/ frames[f] \in accepted
    BY <1>1, <2>1 DEF Intact
  <2>2. ASSUME NEW k \in Nat, Waits(f, k) PROVE Intact(f)'
    <3>1. Waits(f, k)'
      BY <1>1, <2>2 DEF Waits, Size, At
    <3>2. QED
      BY <3>1 DEF Intact
  <2>3. ASSUME NEW k \in 1..(Size(f) - 1), Begun(f, k) PROVE Intact(f)'
    <3>1. /\ Size(f) \in Nat
          /\ At(f, Size(f)) = Symbol("tail", 0, f)
          /\ \A i \in 2..(Size(f) - 1) : At(f, i) \in Bytes
          /\ \A i \in 1..Size(f) : At(f, i).f = f
          /\ f # 0
      BY SymbolsOfFrame DEF FrameInv
    <3>2. k + 1 \in 1..Size(f) /\ (k + 1 = Size(f) \/ k + 1 \in 2..(Size(f) - 1))
      BY <3>1
    <3>3. At(f, k + 1).c # "lead" /\ At(f, k + 1).f = f
      <4>1. At(f, k + 1).f = f
        BY <3>1, <3>2
      <4>2. CASE k + 1 = Size(f)
        BY <3>1, <4>1, <4>2 DEF Symbol
      <4>3. CASE k + 1 \in 2..(Size(f) - 1)
        BY <3>1, <4>1, <4>3 DEF Bytes, Chars, Junk
      <4>4. QED
        BY <3>2, <4>2, <4>3
    <3>4. wire # <<>> /\ Head(wire) = At(f, k + 1)
      BY <2>3, NextOfFrame
    <3>5. <<"frame", f>> \in Harmed(Head(wire))
      BY <3>1, <3>3, <3>4 DEF Harmed
    <3>6. QED
      BY <1>1, <3>3, <3>4, <3>5 DEF Intact
  <2>4. QED
    BY <2>1, <2>2, <2>3 DEF FrameInv, Intact
<1>5. QED
  BY <1>1, <1>2, <1>3, <1>4 DEF FrameInv

\* What only concerns the wire, the receiver and the histories.
LEMMA WireStep ==
  ASSUME FrameInv, sent' = sent, assembler' = assembler, frames' = frames,
         wire # <<>>, wire' = Tail(wire),
         receiver' = [line |-> receiver'.line, discard |-> receiver'.discard],
         \A f \in DOMAIN frames : Intact(f)'
  PROVE  FrameInv'
<1>1. wire' \in Seq(WireBytes)
  BY HeadTailProperties DEF FrameInv, Buffers
<1>2. Buffers'
  BY <1>1 DEF FrameInv, Buffers, LineInBuffer
<1>3. FramesAreValid'
  BY DEF FrameInv, FramesAreValid, IsFrame, Valid, ValidAirdos, ValidStatus
<1>4. QED
  BY <1>2, <1>3 DEF FrameInv

LEMMA LinkByteStep ==
  ASSUME FrameInv, LinkByte
  PROVE  FrameInv'
<1>1. /\ wire # <<>> /\ wire' = Tail(wire) /\ Receive(Head(wire))
      /\ frames' = frames /\ sent' = sent /\ assembler' = assembler
  BY DEF LinkByte
<1>2. receiver' = [line |-> receiver'.line, discard |-> receiver'.discard]
  BY <1>1, ReceiveAdds DEF FrameInv
<1>3. QED
  BY <1>1, <1>2, LinkByteKeepsIntact, WireStep

LEMMA LinkFaultStep ==
  ASSUME FrameInv, LinkByteLost \/ LinkByteDamaged
  PROVE  FrameInv'
<1>1. /\ wire # <<>> /\ wire' = Tail(wire) /\ frames' = frames /\ sent' = sent
      /\ assembler' = assembler /\ damaged' = damaged \cup Harmed(Head(wire))
  BY DEF LinkByteLost, LinkByteDamaged, Fault
<1>2. /\ accepted \subseteq accepted'
      /\ receiver' = [line |-> receiver'.line, discard |-> receiver'.discard]
  <2>1. CASE LinkByteLost
    BY <2>1 DEF LinkByteLost, FrameInv, Buffers
  <2>2. CASE LinkByteDamaged
    BY <2>2, ReceiveAdds DEF LinkByteDamaged, FrameInv
  <2>3. QED
    BY <2>1, <2>2
<1>3. \A f \in DOMAIN frames : Intact(f)'
  BY <1>1, <1>2, FaultKeepsIntact
<1>4. QED
  BY <1>1, <1>2, <1>3, WireStep

\* What leaves the wire, the receiver and the frames alone.
LEMMA NothingOfTheLink ==
  ASSUME FrameInv, wire' = wire, receiver' = receiver, frames' = frames,
         accepted' = accepted, damaged \subseteq damaged', sent' \in Nat,
         assembler' = [line |-> assembler'.line, overflow |-> assembler'.overflow],
         LineInBuffer'
  PROVE  FrameInv'
<1>1. ASSUME NEW f \in DOMAIN frames PROVE Intact(f)'
  <2>1. Intact(f) /\ Len(frames[f]) \in Nat /\ Len(wire) \in Nat
    BY SymbolsOfFrame, LenProperties DEF FrameInv, Buffers
  <2>2. QED
    BY <2>1, LaterSymbolsKeepIntact
<1>2. FramesAreValid'
  BY DEF FrameInv, FramesAreValid, IsFrame, Valid, ValidAirdos, ValidStatus
<1>3. QED
  BY <1>1, <1>2 DEF FrameInv, Buffers

LEMMA StatusStep ==
  ASSUME FrameInv, StatusFrame
  PROVE  FrameInv'
<1> DEFINE o == Symbol("O", 0, 0)
           d == Symbol("digit", 0, 0)
           content == <<o, d>>
<1>1. PICK new : new = Len(frames) + 1
  OBVIOUS
<1>2. new \in Nat
  BY <1>1, LenProperties DEF FrameInv, FramesAreValid
<1>3. /\ content \in Seq(Bytes) /\ Len(content) = 2
      /\ content[1].c = "O" /\ content[2].c = "digit"
  BY DEF Symbol, Bytes, Chars
<1>4. Put(content) /\ sent' = sent /\ assembler' = assembler /\ receiver' = receiver
      /\ accepted' = accepted /\ damaged' = damaged
  BY DEF StatusFrame
<1> HIDE DEF content
<1>5. Len(content) \in 2..(LineMax + 2)
  BY <1>3, Sizes
<1>6. Valid(OfFrame(content, new))
  <2>1. /\ Len(OfFrame(content, new)) = 2 /\ OfFrame(content, new)[1].c = "O"
        /\ OfFrame(content, new)[2].c = "digit"
    BY <1>2, <1>3, FrameOfContent
  <2>2. \A i \in 2..2 : i = 2
    OBVIOUS
  <2>3. ValidStatus(OfFrame(content, new))
    BY <2>1, <2>2 DEF ValidStatus
  <2>4. QED
    BY <2>3 DEF Valid
<1>7. wire' \in Seq(WireBytes) /\ FramesAreValid' /\ \A f \in DOMAIN frames' : Intact(f)'
  BY <1>1, <1>3, <1>4, <1>5, <1>6, PutKeepsIntact
<1>8. QED
  BY <1>4, <1>7 DEF FrameInv, Buffers, LineInBuffer

\* What is handed over of a line is a beginning of it.
LEMMA CStringIs ==
  ASSUME NEW q \in Seq(Bytes)
  PROVE  /\ CString(q) \in Seq(Bytes)
         /\ Len(CString(q)) \in Nat /\ Len(CString(q)) <= Len(q)
         /\ \A i \in 1..Len(CString(q)) : CString(q)[i] = q[i]
<1> DEFINE S == {i \in DOMAIN q : \A j \in 1..i : q[j].c # "nul"}
           m == Cardinality(S)
           p == SubSeq(q, 1, m)
<1>1. Len(q) \in Nat /\ DOMAIN q = 1..Len(q) /\ \A i \in 1..Len(q) : q[i] \in Bytes
  BY LenProperties, ElementOfSeq
<1>2. IsFiniteSet(1..Len(q)) /\ Cardinality(1..Len(q)) = Len(q)
  <2>1. 1 \in Int /\ Len(q) \in Int
    BY <1>1
  <2>2. /\ IsFiniteSet(1..Len(q))
        /\ Cardinality(1..Len(q)) = IF 1 > Len(q) THEN 0 ELSE Len(q) - 1 + 1
    BY <2>1, FS_Interval
  <2>3. QED
    BY <1>1, <2>2
<1>3. m \in Nat /\ m <= Len(q)
  <2>1. S \in SUBSET (1..Len(q))
    BY <1>1
  <2> HIDE DEF S
  <2>2. IsFiniteSet(S) /\ Cardinality(S) <= Cardinality(1..Len(q))
    BY <1>2, <2>1, FS_Subset
  <2>3. QED
    BY <1>2, <2>2, FS_CardinalityType
<1> HIDE DEF S, m
<1>4. /\ p \in Seq(Bytes) /\ Len(p) = m
      /\ \A i \in 1..m : p[i] = q[i]
  <2>1. 1 \in Int /\ m \in Int /\ \A i \in 1..m : q[i] \in Bytes
    BY <1>1, <1>3
  <2>2. /\ p \in Seq(Bytes) /\ Len(p) = IF 1 <= m THEN m - 1 + 1 ELSE 0
        /\ \A i \in 1..(m - 1 + 1) : p[i] = q[1 + i - 1]
    BY <2>1, SubSeqProperties
  <2> HIDE DEF p
  <2>3. Len(p) = m
    BY <1>3, <2>2
  <2>4. \A i \in 1..m : i \in 1..(m - 1 + 1) /\ 1 + i - 1 = i
    BY <1>3
  <2>5. QED
    BY <2>2, <2>3, <2>4
<1>5. CString(q) = p
  BY DEF CString, S, m
<1> HIDE DEF p
<1>6. QED
  BY <1>3, <1>4, <1>5

\* A line is forwarded only if it makes a frame the Primary takes for valid but
\* for its bytes.
LEMMA ForwardStep ==
  ASSUME FrameInv, sent' \in Nat, assembler' = FreshAssembler, receiver' = receiver,
         accepted' = accepted, damaged' = damaged, Forward(CString(assembler.line))
  PROVE  FrameInv'
<1> DEFINE a == Symbol("A", 0, 0)
           l == CString(assembler.line)
           content == <<a>> \o l
<1>1. LineInBuffer'
  BY Sizes DEF LineInBuffer, FreshAssembler
<1>2. assembler' = [line |-> assembler'.line, overflow |-> assembler'.overflow]
  BY DEF FreshAssembler
<1>3. CASE UNCHANGED <<wire, frames>>
  BY <1>1, <1>2, <1>3, NothingOfTheLink
<1>4. CASE Len(l) >= 2 /\ l[1].c = "$" /\ Put(content)
  <2>1. PICK new : new = Len(frames) + 1
    OBVIOUS
  <2>2. new \in Nat
    BY <2>1, LenProperties DEF FrameInv, FramesAreValid
  <2>3. /\ l \in Seq(Bytes) /\ Len(l) \in Nat /\ Len(l) <= LineMax /\ Len(l) >= 2
        /\ l[1].c = "$" /\ a \in Bytes /\ a.c = "A"
    <3>1. /\ l \in Seq(Bytes) /\ Len(l) \in Nat /\ Len(l) <= Len(assembler.line)
          /\ Len(assembler.line) \in Nat /\ Len(assembler.line) <= LineMax
      BY CStringIs, LenProperties DEF FrameInv, Buffers, LineInBuffer
    <3>2. a \in Bytes /\ a.c = "A"
      BY DEF Symbol, Bytes, Chars
    <3> HIDE DEF l, a
    <3>3. QED
      BY <1>4, <3>1, <3>2, Sizes
  <2> HIDE DEF l, a
  <2> DEFINE A == <<a>>
  <2>4. A \in Seq(Bytes) /\ Len(A) = 1 /\ A[1] = a
    BY <2>3
  <2>5. content = A \o l
    OBVIOUS
  <2> HIDE DEF A, content
  <2>6. /\ content \in Seq(Bytes) /\ Len(content) = 1 + Len(l)
        /\ \A i \in 1..(1 + Len(l)) : content[i] = IF i <= 1 THEN A[i] ELSE l[i - 1]
    <3>1. l \in Seq(Bytes) /\ A \in Seq(Bytes)
      BY <2>3, <2>4
    <3>2. /\ A \o l \in Seq(Bytes) /\ Len(A \o l) = Len(A) + Len(l)
          /\ \A i \in 1..(Len(A) + Len(l)) :
               (A \o l)[i] = IF i <= Len(A) THEN A[i] ELSE l[i - Len(A)]
      BY <3>1, ConcatProperties
    <3>3. QED
      BY <2>4, <2>5, <3>2
  <2>7. content[1].c = "A" /\ content[2].c = "$"
    <3>1. /\ 1 \in 1..(1 + Len(l)) /\ 2 \in 1..(1 + Len(l)) /\ ~(2 <= 1) /\ 1 <= 1
          /\ 2 - 1 = 1
      BY <2>3
    <3>2. content[1] = A[1] /\ content[2] = l[1]
      BY <2>6, <3>1
    <3>3. QED
      BY <2>3, <2>4, <3>2
  <2>8. Len(content) \in 2..(LineMax + 2) /\ Len(content) >= 3 /\ Len(content) - 1 <= LineMax
    BY <2>3, <2>6, Sizes
  <2>9. Valid(OfFrame(content, new))
    <3> DEFINE g == OfFrame(content, new)
    <3>1. /\ Len(g) = Len(content)
          /\ \A i \in 1..Len(content) : g[i].c = content[i].c
      BY <2>2, <2>6, FrameOfContent
    <3>2. 1 \in 1..Len(content) /\ 2 \in 1..Len(content)
      BY <2>3, <2>6
    <3> HIDE DEF g
    <3>3. g[1].c = "A" /\ g[2].c = "$"
      BY <2>7, <3>1, <3>2
    <3>4. ValidAirdos(g)
      BY <2>8, <3>1, <3>3 DEF ValidAirdos
    <3>5. QED
      BY <3>4 DEF Valid, g
  <2>10. wire' \in Seq(WireBytes) /\ FramesAreValid' /\ \A f \in DOMAIN frames' : Intact(f)'
    BY <1>4, <2>1, <2>6, <2>8, <2>9, PutKeepsIntact
  <2>11. QED
    BY <1>1, <1>2, <2>10 DEF FrameInv, Buffers
<1>5. QED
  BY <1>3, <1>4 DEF Forward

\* The bytes of a line, and damaged ones, are bytes to the assembler.
LEMMA NextIsByte ==
  ASSUME sent \in Nat
  PROVE  /\ Current \in Nat /\ NextSymbol.n = Current /\ NextSymbol.f = 0
         /\ sent % 3 # 2 => NextSymbol \in Bytes
         /\ \A c \in Junk : /\ [NextSymbol EXCEPT !.c = c] \in Bytes
                           /\ [NextSymbol EXCEPT !.c = c].n = Current
<1>1. sent % 3 \in 0..2 /\ Current \in Nat
  BY Progress DEF Current
<1>2. PICK d \in Chars \cup {"newline"} : NextSymbol = Symbol(d, Current, 0)
  BY <1>1, NextIs DEF Text, Chars, Junk
<1>3. sent % 3 # 2 => NextSymbol \in Bytes
  BY <1>1, NextIs DEF Text, Symbol, Bytes, Chars, Junk
<1>4. ASSUME NEW c \in Junk
      PROVE  /\ [NextSymbol EXCEPT !.c = c] \in Bytes
             /\ [NextSymbol EXCEPT !.c = c].n = Current
  <2>1. [NextSymbol EXCEPT !.c = c] = Symbol(c, Current, 0)
    BY <1>2 DEF Symbol
  <2>2. QED
    BY <1>1, <2>1 DEF Symbol, Bytes, Chars
<1>5. QED
  BY <1>1, <1>2, <1>3, <1>4 DEF Symbol

\* A byte is collected, or the line overflows.
LEMMA CollectStep ==
  ASSUME FrameInv, sent' \in Nat, NEW s \in Bytes, assembler' = Collected(s),
         wire' = wire, receiver' = receiver, frames' = frames, accepted' = accepted,
         damaged \subseteq damaged'
  PROVE  FrameInv'
<1>1. /\ assembler = [line |-> assembler.line, overflow |-> assembler.overflow]
      /\ assembler.line \in Seq(Bytes) /\ Len(assembler.line) \in Nat
      /\ Len(assembler.line) <= LineMax /\ LineMax \in Nat
  BY Sizes, LenProperties DEF FrameInv, Buffers, LineInBuffer
<1>2. CASE Len(assembler.line) < LineMax
  <2>1. /\ assembler'.line = Append(assembler.line, s)
        /\ assembler' = [line |-> assembler'.line, overflow |-> assembler'.overflow]
    BY <1>1, <1>2 DEF Collected
  <2>2. /\ Append(assembler.line, s) \in Seq(Bytes)
        /\ Len(Append(assembler.line, s)) = Len(assembler.line) + 1
    BY <1>1, AppendProperties
  <2>3. LineInBuffer'
    BY <1>1, <1>2, <2>1, <2>2 DEF LineInBuffer
  <2>4. QED
    BY <2>1, <2>3, NothingOfTheLink
<1>3. CASE ~(Len(assembler.line) < LineMax)
  <2>1. /\ assembler'.line = assembler.line
        /\ assembler' = [line |-> assembler'.line, overflow |-> assembler'.overflow]
    BY <1>1, <1>3 DEF Collected
  <2>2. LineInBuffer'
    BY <1>1, <2>1 DEF LineInBuffer
  <2>3. QED
    BY <2>1, <2>2, NothingOfTheLink
<1>4. QED
  BY <1>2, <1>3

\* A byte of the detector, with the frame that the end of a line sends.
LEMMA AirdosByteStep ==
  ASSUME FrameInv, AirdosByte
  PROVE  FrameInv'
<1>1. /\ sent \in Nat /\ sent' = sent + 1 /\ receiver' = receiver
      /\ accepted' = accepted /\ damaged' = damaged
  BY DEF FrameInv, AirdosByte
<1>2. CASE IsNewline(NextSymbol)
  <2>1. EndLine
    BY <1>2 DEF AirdosByte
  <2>2. assembler' = FreshAssembler
    BY <2>1 DEF EndLine
  <2>3. CASE assembler.overflow \/ assembler.line = <<>>
    <3>1. wire' = wire /\ frames' = frames
      BY <2>1, <2>3 DEF EndLine
    <3>2. LineInBuffer'
      BY <2>2, Sizes DEF LineInBuffer, FreshAssembler
    <3>3. QED
      BY <1>1, <2>2, <3>1, <3>2, NothingOfTheLink DEF FreshAssembler
  <2>4. CASE ~(assembler.overflow \/ assembler.line = <<>>)
    <3>1. Forward(CString(assembler.line))
      BY <2>1, <2>4 DEF EndLine
    <3>2. QED
      BY <1>1, <2>2, <3>1, ForwardStep
  <2>5. QED
    BY <2>3, <2>4
<1>3. CASE ~IsNewline(NextSymbol)
  <2>1. assembler' = Collected(NextSymbol) /\ wire' = wire /\ frames' = frames
    BY <1>3 DEF AirdosByte
  <2>2. NextSymbol \in Bytes
    <3>1. sent % 3 # 2 /\ sent % 3 \in 0..2 /\ Current \in Nat
      BY <1>1, <1>3, NewlineIsLast, Progress DEF Current
    <3>2. QED
      BY <1>1, <3>1, NextIsByte
  <2>3. QED
    BY <1>1, <2>1, <2>2, CollectStep
<1>4. QED
  BY <1>2, <1>3

LEMMA AirdosLossStep ==
  ASSUME FrameInv, AirdosByteLost
  PROVE  FrameInv'
<1>1. /\ sent \in Nat /\ sent' = sent + 1 /\ assembler' = assembler /\ wire' = wire
      /\ receiver' = receiver /\ frames' = frames /\ accepted' = accepted
      /\ damaged \subseteq damaged'
  BY DEF FrameInv, AirdosByteLost, Fault
<1>2. LineInBuffer' /\ assembler' = [line |-> assembler'.line, overflow |-> assembler'.overflow]
  BY <1>1 DEF FrameInv, Buffers, LineInBuffer
<1>3. QED
  BY <1>1, <1>2, NothingOfTheLink

LEMMA AirdosDamageStep ==
  ASSUME FrameInv, AirdosByteDamaged
  PROVE  FrameInv'
<1>1. /\ sent \in Nat /\ sent' = sent + 1 /\ wire' = wire
      /\ receiver' = receiver /\ frames' = frames /\ accepted' = accepted
      /\ damaged \subseteq damaged'
  BY DEF FrameInv, AirdosByteDamaged, Fault
<1>2. PICK c \in Junk : assembler' = Collected([NextSymbol EXCEPT !.c = c])
  BY DEF AirdosByteDamaged
<1>3. [NextSymbol EXCEPT !.c = c] \in Bytes
  BY <1>1, NextIsByte
<1>4. QED
  BY <1>1, <1>2, <1>3, CollectStep

\* FrameInv is inductive.
LEMMA FrameStep == FrameInv /\ [Next]_vars => FrameInv'
<1> SUFFICES ASSUME FrameInv, [Next]_vars PROVE FrameInv'
  OBVIOUS
<1>1. CASE AirdosByte
  BY <1>1, AirdosByteStep
<1>2. CASE AirdosByteLost
  BY <1>2, AirdosLossStep
<1>3. CASE StatusFrame
  BY <1>3, StatusStep
<1>4. CASE LinkByte
  BY <1>4, LinkByteStep
<1>5. CASE LinkByteLost \/ LinkByteDamaged
  BY <1>5, LinkFaultStep
<1>6. CASE SecondaryResets
  BY <1>6, SecondaryResetStep
<1>7. CASE PrimaryResets
  BY <1>7, PrimaryResetStep
<1>8. CASE UNCHANGED vars
  <2>1. /\ sent' = sent /\ assembler' = assembler /\ wire' = wire
        /\ receiver' = receiver /\ frames' = frames /\ accepted' = accepted
        /\ damaged' = damaged
    BY <1>8 DEF vars
  <2>2. LineInBuffer' /\ assembler' = [line |-> assembler'.line, overflow |-> assembler'.overflow]
    BY <2>1 DEF FrameInv, Buffers, LineInBuffer
  <2>3. sent' \in Nat
    BY <2>1 DEF FrameInv
  <2>4. QED
    BY <2>1, <2>2, <2>3, NothingOfTheLink
<1>9. CASE AirdosByteDamaged
  BY <1>9, AirdosDamageStep
<1>10. QED
  BY <1>1, <1>2, <1>3, <1>4, <1>5, <1>6, <1>7, <1>8, <1>9 DEF Next

LEMMA FrameInit == Init => FrameInv
<1> SUFFICES ASSUME Init PROVE FrameInv
  OBVIOUS
<1>1. LineInBuffer
  BY Sizes DEF Init, LineInBuffer, FreshAssembler
<1>2. Buffers
  BY <1>1 DEF Init, Buffers, FreshAssembler, FreshReceiver
<1>3. FramesAreValid /\ DOMAIN frames = {}
  BY DEF Init, FramesAreValid
<1>4. QED
  BY <1>2, <1>3 DEF FrameInv, Init

\* "The next intact frame can be received after either Teensy resets": a frame
\* of printable bytes, all of which arrive, is accepted as it was sent, for any
\* buffers and any number of frames, losses and resets.
THEOREM ReceiverResynchronises == Spec => []WholeFramesAreAccepted
<1>1. FrameInv => WholeFramesAreAccepted
  <2> SUFFICES ASSUME FrameInv, NEW f \in DOMAIN frames, IsPrintable(frames[f])
               PROVE  \/ <<"frame", f>> \in damaged
                      \/ \E i \in DOMAIN wire : wire[i].f = f
                      \/ frames[f] \in accepted
    BY DEF WholeFramesAreAccepted
  <2>1. Intact(f)
    BY DEF FrameInv
  <2>2. QED
    BY <2>1, FrameIsOnWire DEF Intact
<1>2. QED
  BY <1>1, FrameInit, FrameStep, PTL DEF Spec

-----------------------------------------------------------------------------
(* Splices                                                                 *)

\* The newline c of frame f is among q[lo], ..., q[hi], or lost.
NewlineIn(c, f, q, lo, hi, g) ==
  <<c, f>> \in g \/ \E k \in lo..hi : q[k].c = c /\ q[k].f = f

\* x before y in one frame.
InOrder(x, y, g) == x.n = 0 \/ x.n = y.n \/ <<"newline", x.n>> \in g

\* In a queue of n symbols, of which the newlines g were lost before, a frame
\* is followed by its last newline, and by another frame only behind that and
\* the first newline of the other.
Separate(q, n, g) ==
  \A i \in 1..n : ~IsNewline(q[i]) =>
    /\ NewlineIn("tail", q[i].f, q, i + 1, n, g)
    /\ \A j \in (i + 1)..n : ~IsNewline(q[j]) =>
         IF q[i].f = q[j].f THEN InOrder(q[i], q[j], g)
         ELSE /\ NewlineIn("tail", q[i].f, q, i + 1, j - 1, g)
              /\ NewlineIn("lead", q[j].f, q, i + 1, j - 1, g)

\* p is what is left of q: symbols may be left out if they are not newlines, if
\* they are lost newlines, or if they come before all that is left.
Thinned(q, n, p, l, m, g, h) ==
  /\ n \in Nat /\ l \in Nat /\ m \in [1..l -> 1..n] /\ g \subseteq h
  /\ \A i, j \in 1..l : i < j => m[i] < m[j]
  /\ \A i \in 1..l : p[i] = q[m[i]]
  /\ \A k \in 1..n : IsNewline(q[k]) =>
       \/ \E i \in 1..l : m[i] = k
       \/ <<q[k].c, q[k].f>> \in h
       \/ \A i \in 1..l : k < m[i]

LEMMA ThinningSeparates ==
  ASSUME NEW q, NEW n, NEW p, NEW l, NEW m, NEW g, NEW h,
         Thinned(q, n, p, l, m, g, h), Separate(q, n, g)
  PROVE  Separate(p, l, h)
<1>a. /\ n \in Nat /\ l \in Nat /\ m \in [1..l -> 1..n] /\ g \subseteq h
      /\ \A i, j \in 1..l : i < j => m[i] < m[j]
      /\ \A i \in 1..l : p[i] = q[m[i]]
      /\ \A k \in 1..n : IsNewline(q[k]) =>
            \/ \E i \in 1..l : m[i] = k
            \/ <<q[k].c, q[k].f>> \in h
            \/ \A i \in 1..l : k < m[i]
  BY DEF Thinned
<1>1. ASSUME NEW i \in 1..l, NEW j \in 1..l, m[i] < m[j] PROVE i < j
  <2>1. m[i] \in Int /\ m[j] \in Int /\ i \in Int /\ j \in Int
    BY <1>a
  <2>2. ~(j < i) /\ j # i
    BY <1>a, <1>1, <2>1
  <2>3. QED
    BY <1>a, <2>1, <2>2
<1>2. ASSUME NEW i \in 1..l, NEW c \in {"lead", "tail"}, NEW f, NEW hi \in Int, NEW top \in Int,
             NewlineIn(c, f, q, m[i] + 1, hi, g), hi <= n,
             \A k \in 1..l : m[k] <= hi => k <= top
      PROVE  NewlineIn(c, f, p, i + 1, top, h)
  <2>1. CASE <<c, f>> \in g
    BY <1>a, <2>1 DEF NewlineIn
  <2>2. CASE <<c, f>> \notin g
    <3>1. PICK k \in (m[i] + 1)..hi : q[k].c = c /\ q[k].f = f
      BY <1>a, <1>2, <2>2 DEF NewlineIn
    <3>2. m[i] \in 1..n
      BY <1>a
    <3>3. k \in 1..n /\ m[i] < k /\ k <= hi
      BY <1>a, <1>2, <3>1, <3>2
    <3>4. IsNewline(q[k])
      BY <1>a, <3>1 DEF IsNewline, Newlines
    <3>5. ~\A j \in 1..l : k < m[j]
      BY <1>a, <3>2, <3>3
    <3>6. CASE <<q[k].c, q[k].f>> \in h
      BY <1>a, <3>1, <3>6 DEF NewlineIn
    <3>7. ASSUME NEW j \in 1..l, m[j] = k PROVE NewlineIn(c, f, p, i + 1, top, h)
      <4>1. i < j /\ j <= top
        BY <1>a, <1>1, <1>2, <3>3, <3>7
      <4>2. j \in (i + 1)..top /\ p[j] = q[k]
        BY <1>a, <1>2, <3>7, <4>1
      <4>3. QED
        BY <1>a, <3>1, <4>2 DEF NewlineIn
    <3>8. QED
      BY <1>a, <3>3, <3>4, <3>5, <3>6, <3>7
  <2>3. QED
    BY <1>a, <2>1, <2>2
<1> SUFFICES ASSUME NEW i \in 1..l, ~IsNewline(p[i])
             PROVE  /\ NewlineIn("tail", p[i].f, p, i + 1, l, h)
                    /\ \A j \in (i + 1)..l : ~IsNewline(p[j]) =>
                         IF p[i].f = p[j].f THEN InOrder(p[i], p[j], h)
                         ELSE /\ NewlineIn("tail", p[i].f, p, i + 1, j - 1, h)
                              /\ NewlineIn("lead", p[j].f, p, i + 1, j - 1, h)
  BY <1>a DEF Separate
<1>3. /\ m[i] \in 1..n /\ p[i] = q[m[i]]
      /\ NewlineIn("tail", q[m[i]].f, q, m[i] + 1, n, g)
  BY <1>a DEF Separate
<1>4. NewlineIn("tail", p[i].f, p, i + 1, l, h)
  BY <1>a, <1>2, <1>3
<1>5. ASSUME NEW j \in (i + 1)..l, ~IsNewline(p[j])
      PROVE  IF p[i].f = p[j].f THEN InOrder(p[i], p[j], h)
             ELSE /\ NewlineIn("tail", p[i].f, p, i + 1, j - 1, h)
                  /\ NewlineIn("lead", p[j].f, p, i + 1, j - 1, h)
  <2>1. j \in 1..l /\ i < j
    BY <1>a
  <2>2. m[j] \in 1..n /\ m[i] < m[j] /\ p[j] = q[m[j]]
    BY <1>a, <2>1
  <2>3. m[j] \in (m[i] + 1)..n
    BY <1>a, <1>3, <2>2
  <2>4. IF p[i].f = p[j].f THEN InOrder(p[i], p[j], g)
        ELSE /\ NewlineIn("tail", p[i].f, q, m[i] + 1, m[j] - 1, g)
             /\ NewlineIn("lead", p[j].f, q, m[i] + 1, m[j] - 1, g)
    BY <1>a, <1>3, <1>5, <2>2, <2>3 DEF Separate
  <2>5. CASE p[i].f = p[j].f
    BY <1>a, <2>4, <2>5 DEF InOrder
  <2>6. CASE p[i].f # p[j].f
    <3>1. /\ m[j] - 1 \in Int /\ j - 1 \in Int /\ m[j] - 1 <= n
          /\ \A k \in 1..l : m[k] <= m[j] - 1 => k <= j - 1
      <4>1. ASSUME NEW k \in 1..l, m[k] <= m[j] - 1 PROVE k <= j - 1
        <5>1. m[k] \in Int /\ m[j] \in Int /\ m[k] < m[j]
          BY <1>a, <2>2, <4>1
        <5>2. k < j
          BY <1>a, <1>1, <2>1, <5>1
        <5>3. QED
          BY <1>a, <2>1, <5>2
      <4>2. QED
        BY <1>a, <2>1, <2>2, <4>1
    <3>2. QED
      BY <1>a, <1>2, <2>4, <2>6, <3>1
  <2>7. QED
    BY <1>a, <2>5, <2>6
<1>6. QED
  BY <1>a, <1>4, <1>5

\* A new frame may be added behind the others.
LEMMA FrameSeparates ==
  ASSUME NEW q, NEW n \in Nat, NEW p, NEW l \in Nat, l >= 2, NEW new, NEW g,
         Separate(q, n, g),
         \A i \in 1..n : p[i] = q[i] /\ q[i].f # new,
         p[n + 1].c = "lead" /\ p[n + 1].f = new,
         p[n + l].c = "tail" /\ p[n + l].f = new,
         \A i \in (n + 2)..(n + l - 1) : p[i].f = new,
         \A i, j \in (n + 2)..(n + l - 1) : i < j => InOrder(p[i], p[j], g)
  PROVE  Separate(p, n + l, g)
<1> SUFFICES ASSUME NEW i \in 1..(n + l), ~IsNewline(p[i])
             PROVE  /\ NewlineIn("tail", p[i].f, p, i + 1, n + l, g)
                    /\ \A j \in (i + 1)..(n + l) : ~IsNewline(p[j]) =>
                         IF p[i].f = p[j].f THEN InOrder(p[i], p[j], g)
                         ELSE /\ NewlineIn("tail", p[i].f, p, i + 1, j - 1, g)
                              /\ NewlineIn("lead", p[j].f, p, i + 1, j - 1, g)
  BY DEF Separate
<1>1. IsNewline(p[n + 1]) /\ IsNewline(p[n + l])
  BY DEF IsNewline, Newlines
<1>2. ASSUME NEW k \in (n + 1)..(n + l), ~IsNewline(p[k])
      PROVE  k \in (n + 2)..(n + l - 1) /\ p[k].f = new
  <2>1. k # n + 1 /\ k # n + l
    BY <1>1, <1>2
  <2>2. k \in (n + 2)..(n + l - 1)
    BY <2>1
  <2>3. QED
    BY <2>2
<1>3. ASSUME NEW c, NEW f, NEW lo \in Nat, lo >= 1, NEW hi \in Int, NEW top \in Int,
             hi <= n, hi <= top, NewlineIn(c, f, q, lo, hi, g)
      PROVE  NewlineIn(c, f, p, lo, top, g)
  <2>1. ASSUME NEW k \in lo..hi, q[k].c = c, q[k].f = f
        PROVE  NewlineIn(c, f, p, lo, top, g)
    <3>1. k \in 1..n /\ k \in lo..top
      BY <1>3, <2>1
    <3>2. p[k] = q[k]
      BY <3>1
    <3>3. QED
      BY <2>1, <3>1, <3>2 DEF NewlineIn
  <2>2. QED
    BY <1>3, <2>1 DEF NewlineIn
<1>4. CASE i \in 1..n
  <2>1. /\ p[i] = q[i] /\ q[i].f # new
        /\ NewlineIn("tail", q[i].f, q, i + 1, n, g)
    BY <1>4 DEF Separate
  <2>2. NewlineIn("tail", p[i].f, p, i + 1, n + l, g)
    BY <1>3, <1>4, <2>1
  <2>3. ASSUME NEW j \in (i + 1)..(n + l), ~IsNewline(p[j])
        PROVE  IF p[i].f = p[j].f THEN InOrder(p[i], p[j], g)
               ELSE /\ NewlineIn("tail", p[i].f, p, i + 1, j - 1, g)
                    /\ NewlineIn("lead", p[j].f, p, i + 1, j - 1, g)
    <3>1. CASE j <= n
      <4>1. j \in (i + 1)..n /\ p[j] = q[j]
        BY <1>4, <2>3, <3>1
      <4>2. IF p[i].f = p[j].f THEN InOrder(p[i], p[j], g)
            ELSE /\ NewlineIn("tail", p[i].f, q, i + 1, j - 1, g)
                 /\ NewlineIn("lead", p[j].f, q, i + 1, j - 1, g)
        BY <1>4, <2>1, <2>3, <4>1 DEF Separate
      <4>3. i + 1 \in Nat /\ i + 1 >= 1 /\ j - 1 \in Int /\ j - 1 <= n /\ j - 1 <= j - 1
        BY <1>4, <4>1
      <4>4. QED
        BY <1>3, <4>2, <4>3
    <3>2. CASE ~(j <= n)
      <4>1. j \in (n + 1)..(n + l)
        BY <1>4, <3>2
      <4>2. j \in (n + 2)..(n + l - 1) /\ p[j].f = new
        BY <1>2, <2>3, <4>1
      <4>3. /\ i + 1 \in Nat /\ i + 1 >= 1 /\ j - 1 \in Int /\ n <= j - 1
            /\ n + 1 \in (i + 1)..(j - 1)
        BY <1>4, <4>2
      <4>4. NewlineIn("tail", p[i].f, p, i + 1, j - 1, g)
        BY <1>3, <2>1, <4>3
      <4>5. NewlineIn("lead", p[j].f, p, i + 1, j - 1, g)
        BY <4>2, <4>3 DEF NewlineIn
      <4>6. QED
        BY <2>1, <4>2, <4>4, <4>5
    <3>3. QED
      BY <3>1, <3>2
  <2>4. QED
    BY <2>2, <2>3
<1>5. CASE i \notin 1..n
  <2>1. i \in (n + 1)..(n + l)
    BY <1>5
  <2>2. i \in (n + 2)..(n + l - 1) /\ p[i].f = new
    BY <1>2, <2>1
  <2>3. n + l \in (i + 1)..(n + l)
    BY <2>2
  <2>4. NewlineIn("tail", p[i].f, p, i + 1, n + l, g)
    BY <2>2, <2>3 DEF NewlineIn
  <2>5. ASSUME NEW j \in (i + 1)..(n + l), ~IsNewline(p[j])
        PROVE  p[i].f = p[j].f /\ InOrder(p[i], p[j], g)
    <3>1. j \in (n + 1)..(n + l) /\ i < j
      BY <2>2
    <3>2. j \in (n + 2)..(n + l - 1) /\ p[j].f = new
      BY <1>2, <2>5, <3>1
    <3>3. QED
      BY <2>2, <3>1, <3>2
  <2>6. QED
    BY <2>4, <2>5
<1>6. QED
  BY <1>4, <1>5

\* What the Primary still has to do with: the line it holds, unless that is
\* discarded, and the symbols on the wire.
HeldBy(r) == IF r.discard THEN 0 ELSE Len(r.line)

LengthOf(r, w) == HeldBy(r) + Len(w)

QueueOf(r, w) ==
  [i \in 1..LengthOf(r, w) |-> IF i <= HeldBy(r) THEN r.line[i] ELSE w[i - HeldBy(r)]]

IsReceiver(r) ==
  /\ r = [line |-> r.line, discard |-> r.discard]
  /\ r.line \in Seq(Bytes) /\ r.discard \in BOOLEAN

Separated(r, w, n, g) ==
  /\ \A i \in 1..LengthOf(r, w) : QueueOf(r, w)[i].f \in 1..n
  /\ Separate(QueueOf(r, w), LengthOf(r, w), g)

LEMMA QueueIs ==
  ASSUME NEW r, IsReceiver(r), NEW w \in Seq(WireBytes)
  PROVE  /\ HeldBy(r) \in Nat /\ Len(w) \in Nat /\ Len(r.line) \in Nat
         /\ LengthOf(r, w) \in Nat /\ LengthOf(r, w) = HeldBy(r) + Len(w)
         /\ \A i \in 1..HeldBy(r) : QueueOf(r, w)[i] = r.line[i]
         /\ \A i \in 1..Len(w) : QueueOf(r, w)[HeldBy(r) + i] = w[i]
<1>1. HeldBy(r) \in Nat /\ Len(w) \in Nat /\ Len(r.line) \in Nat
  BY LenProperties DEF HeldBy, IsReceiver
<1>2. LengthOf(r, w) \in Nat /\ LengthOf(r, w) = HeldBy(r) + Len(w)
  BY <1>1 DEF LengthOf
<1>3. ASSUME NEW i \in 1..HeldBy(r) PROVE QueueOf(r, w)[i] = r.line[i]
  BY <1>1, <1>2 DEF QueueOf
<1>4. ASSUME NEW i \in 1..Len(w) PROVE QueueOf(r, w)[HeldBy(r) + i] = w[i]
  <2>1. /\ HeldBy(r) + i \in 1..LengthOf(r, w) /\ ~(HeldBy(r) + i <= HeldBy(r))
        /\ (HeldBy(r) + i) - HeldBy(r) = i
    BY <1>1, <1>2
  <2>2. QED
    BY <2>1 DEF QueueOf
<1>5. QED
  BY <1>1, <1>2, <1>3, <1>4

\* The first symbols are taken from the queue.
LEMMA DropSeparated ==
  ASSUME NEW r, IsReceiver(r), NEW w \in Seq(WireBytes),
         NEW s, IsReceiver(s), NEW v \in Seq(WireBytes), NEW n, NEW g, NEW h, g \subseteq h,
         NEW d \in Nat, LengthOf(r, w) = LengthOf(s, v) + d,
         \A i \in 1..LengthOf(s, v) : QueueOf(s, v)[i] = QueueOf(r, w)[i + d],
         Separated(r, w, n, g)
  PROVE  Separated(s, v, n, h)
<1> DEFINE q == QueueOf(r, w)
           p == QueueOf(s, v)
           N == LengthOf(r, w)
           L == LengthOf(s, v)
           m == [i \in 1..L |-> i + d]
<1>1. N \in Nat /\ L \in Nat /\ N = L + d
  BY QueueIs
<1>2. Separate(q, N, g) /\ \A i \in 1..N : q[i].f \in 1..n
  BY DEF Separated
<1> HIDE DEF q, p, N, L
<1>3. \A i \in 1..L : m[i] \in 1..N /\ m[i] = i + d
  BY <1>1
<1>4. m \in [1..L -> 1..N]
  BY <1>3
<1>5. \A i, j \in 1..L : i < j => m[i] < m[j]
  BY <1>1, <1>3
<1>6. \A i \in 1..L : p[i] = q[m[i]]
  BY <1>3 DEF p, q, L
<1>7. ASSUME NEW k \in 1..N
      PROVE  (\E i \in 1..L : m[i] = k) \/ \A i \in 1..L : k < m[i]
  <2>1. CASE k <= d
    BY <1>1, <1>3, <2>1
  <2>2. CASE ~(k <= d)
    <3>1. k - d \in 1..L /\ (k - d) + d = k
      BY <1>1, <2>2
    <3>2. m[k - d] = k
      BY <1>3, <3>1
    <3>3. QED
      BY <3>1, <3>2
  <2>3. QED
    BY <2>1, <2>2
<1> HIDE DEF m
<1>t. Thinned(q, N, p, L, m, g, h)
  BY <1>1, <1>4, <1>5, <1>6, <1>7 DEF Thinned
<1>8. Separate(p, L, h)
  BY <1>2, <1>t, ThinningSeparates
<1>9. \A i \in 1..L : p[i].f \in 1..n
  BY <1>2, <1>3, <1>6
<1>10. QED
  BY <1>8, <1>9 DEF Separated, p, L

\* One symbol is lost from the queue.
LEMMA LossSeparated ==
  ASSUME NEW r, IsReceiver(r), NEW w \in Seq(WireBytes),
         NEW s, IsReceiver(s), NEW v \in Seq(WireBytes), NEW n, NEW g, NEW h, g \subseteq h,
         LengthOf(r, w) = LengthOf(s, v) + 1, NEW e \in 1..LengthOf(r, w),
         \A i \in 1..LengthOf(s, v) :
            QueueOf(s, v)[i] = QueueOf(r, w)[IF i < e THEN i ELSE i + 1],
         LET x == QueueOf(r, w)[e] IN IsNewline(x) => <<x.c, x.f>> \in h,
         Separated(r, w, n, g)
  PROVE  Separated(s, v, n, h)
<1> DEFINE q == QueueOf(r, w)
           p == QueueOf(s, v)
           N == LengthOf(r, w)
           L == LengthOf(s, v)
           m == [i \in 1..L |-> IF i < e THEN i ELSE i + 1]
<1>1. N \in Nat /\ L \in Nat /\ N = L + 1 /\ e \in 1..N
  BY QueueIs
<1>2. Separate(q, N, g) /\ \A i \in 1..N : q[i].f \in 1..n
  BY DEF Separated
<1>a. IsNewline(q[e]) => <<q[e].c, q[e].f>> \in h
  OBVIOUS
<1> HIDE DEF q, p, N, L
<1>3. \A i \in 1..L : m[i] \in 1..N /\ m[i] = IF i < e THEN i ELSE i + 1
  BY <1>1
<1>4. m \in [1..L -> 1..N]
  BY <1>3
<1>5. \A i, j \in 1..L : i < j => m[i] < m[j]
  BY <1>1, <1>3
<1>6. \A i \in 1..L : p[i] = q[m[i]]
  BY <1>3 DEF p, q, L
<1>7. ASSUME NEW k \in 1..N, k # e PROVE \E i \in 1..L : m[i] = k
  <2>1. CASE k < e
    <3>1. k \in 1..L
      BY <1>1, <2>1
    <3>2. m[k] = k
      BY <1>3, <2>1, <3>1
    <3>3. QED
      BY <3>1, <3>2
  <2>2. CASE k > e
    <3>1. k - 1 \in 1..L /\ ~(k - 1 < e) /\ (k - 1) + 1 = k
      BY <1>1, <2>2
    <3>2. m[k - 1] = k
      BY <1>3, <3>1
    <3>3. QED
      BY <3>1, <3>2
  <2>3. QED
    BY <1>1, <1>7, <2>1, <2>2
<1>b. ASSUME NEW k \in 1..N, IsNewline(q[k])
      PROVE  (\E i \in 1..L : m[i] = k) \/ <<q[k].c, q[k].f>> \in h
  BY <1>a, <1>7, <1>b
<1> HIDE DEF m
<1>t. Thinned(q, N, p, L, m, g, h)
  BY <1>1, <1>4, <1>5, <1>6, <1>b DEF Thinned
<1>8. Separate(p, L, h)
  BY <1>2, <1>t, ThinningSeparates
<1>9. \A i \in 1..L : p[i].f \in 1..n
  BY <1>2, <1>3, <1>6
<1>10. QED
  BY <1>8, <1>9 DEF Separated, p, L

\* Only the first symbols are left.
LEMMA CutSeparated ==
  ASSUME NEW r, IsReceiver(r), NEW w \in Seq(WireBytes),
         NEW s, IsReceiver(s), NEW v \in Seq(WireBytes), NEW n, NEW g, NEW h, g \subseteq h,
         LengthOf(s, v) <= LengthOf(r, w),
         \A i \in 1..LengthOf(s, v) : QueueOf(s, v)[i] = QueueOf(r, w)[i],
         \A k \in (LengthOf(s, v) + 1)..LengthOf(r, w) :
            LET x == QueueOf(r, w)[k] IN IsNewline(x) => <<x.c, x.f>> \in h,
         Separated(r, w, n, g)
  PROVE  Separated(s, v, n, h)
<1> DEFINE q == QueueOf(r, w)
           p == QueueOf(s, v)
           N == LengthOf(r, w)
           L == LengthOf(s, v)
           m == [i \in 1..L |-> i]
<1>1. N \in Nat /\ L \in Nat /\ L <= N
  BY QueueIs
<1>2. Separate(q, N, g) /\ \A i \in 1..N : q[i].f \in 1..n
  BY DEF Separated
<1>a. \A k \in (L + 1)..N : IsNewline(q[k]) => <<q[k].c, q[k].f>> \in h
  OBVIOUS
<1> HIDE DEF q, p, N, L
<1>3. \A i \in 1..L : m[i] \in 1..N /\ m[i] = i
  BY <1>1
<1>4. m \in [1..L -> 1..N]
  BY <1>3
<1>5. \A i, j \in 1..L : i < j => m[i] < m[j]
  BY <1>1, <1>3
<1>6. \A i \in 1..L : p[i] = q[m[i]]
  BY <1>3 DEF p, q, L
<1>b. ASSUME NEW k \in 1..N, IsNewline(q[k])
      PROVE  (\E i \in 1..L : m[i] = k) \/ <<q[k].c, q[k].f>> \in h
  <2>1. CASE k <= L
    BY <1>1, <1>3, <2>1
  <2>2. CASE ~(k <= L)
    <3>1. k \in (L + 1)..N
      BY <1>1, <2>2
    <3>2. QED
      BY <1>a, <1>b, <3>1
  <2>3. QED
    BY <2>1, <2>2
<1> HIDE DEF m
<1>t. Thinned(q, N, p, L, m, g, h)
  BY <1>1, <1>4, <1>5, <1>6, <1>b DEF Thinned
<1>8. Separate(p, L, h)
  BY <1>2, <1>t, ThinningSeparates
<1>9. \A i \in 1..L : p[i].f \in 1..n
  BY <1>2, <1>3, <1>6
<1>10. QED
  BY <1>8, <1>9 DEF Separated, p, L

\* A symbol that is received leaves the queue as it is, or takes all that was
\* held out of it.
LEMMA ReceivedSeparated ==
  ASSUME IsReceiver(receiver), wire \in Seq(WireBytes), wire # <<>>, wire' = Tail(wire),
         NEW s, s = Head(wire) \/ s = [Head(wire) EXCEPT !.c = "junk"], Receive(s),
         NEW n, NEW g, NEW h, g \subseteq h, Separated(receiver, wire, n, g)
  PROVE  IsReceiver(receiver)' /\ Separated(receiver', wire', n, h)
<1> DEFINE r == receiver
           t == receiver'
           v == Tail(wire)
<1>1. /\ Head(wire) \in WireBytes /\ Head(wire) = wire[1] /\ v \in Seq(WireBytes)
      /\ Len(v) = Len(wire) - 1 /\ \A i \in 1..Len(v) : v[i] = wire[i + 1]
      /\ Len(wire) \in Nat /\ Len(v) \in Nat
  BY HeadTailProperties, LenProperties
<1>2. /\ HeldBy(r) \in Nat /\ Len(r.line) \in Nat
      /\ LengthOf(r, wire) \in Nat /\ LengthOf(r, wire) = HeldBy(r) + Len(wire)
      /\ \A i \in 1..HeldBy(r) : QueueOf(r, wire)[i] = r.line[i]
      /\ \A i \in 1..Len(wire) : QueueOf(r, wire)[HeldBy(r) + i] = wire[i]
  BY QueueIs
<1>3. CASE /\ ~IsNewline(s) /\ ~receiver.discard /\ s.c \notin Junk
           /\ ~(Len(receiver.line) >= LineMax + 2)
  <2>1. s = Head(wire) /\ s \in Bytes
    <3>1. Head(wire) # s => s.c = "junk"
      BY <1>1 DEF WireBytes
    <3>2. QED
      BY <1>1, <1>3, <3>1 DEF WireBytes, Bytes, IsNewline, Newlines, Junk
  <2>2. t = [receiver EXCEPT !.line = Append(receiver.line, s)]
    BY <1>3 DEF Receive
  <2>3. /\ t = [line |-> t.line, discard |-> t.discard]
        /\ t.line = Append(receiver.line, s) /\ t.discard = FALSE
    BY <1>3, <2>2 DEF IsReceiver
  <2>4. /\ t.line \in Seq(Bytes) /\ Len(t.line) = Len(receiver.line) + 1
        /\ \A i \in 1..Len(receiver.line) : t.line[i] = receiver.line[i]
        /\ t.line[Len(receiver.line) + 1] = s
    <3>1. receiver.line \in Seq(Bytes)
      BY DEF IsReceiver
    <3>2. QED
      BY <2>1, <2>3, <3>1, AppendProperties
  <2>5. IsReceiver(t)
    BY <2>3, <2>4 DEF IsReceiver
  <2>6. HeldBy(r) = Len(receiver.line) /\ HeldBy(t) = HeldBy(r) + 1
    BY <1>3, <2>3, <2>4 DEF HeldBy
  <2> HIDE DEF r, t, v
  <2>7. /\ LengthOf(t, v) = HeldBy(t) + Len(v)
        /\ \A i \in 1..HeldBy(t) : QueueOf(t, v)[i] = t.line[i]
        /\ \A i \in 1..Len(v) : QueueOf(t, v)[HeldBy(t) + i] = v[i]
    BY <1>1, <2>5, QueueIs
  <2>8. LengthOf(r, wire) = LengthOf(t, v) + 0
    BY <1>1, <1>2, <2>6, <2>7
  <2>9. ASSUME NEW i \in 1..LengthOf(t, v) PROVE QueueOf(t, v)[i] = QueueOf(r, wire)[i + 0]
    <3>1. i + 0 = i
      OBVIOUS
    <3>2. CASE i \in 1..HeldBy(r)
      <4>1. i \in 1..HeldBy(t) /\ i \in 1..Len(receiver.line)
        BY <1>2, <2>6, <3>2
      <4>2. QueueOf(t, v)[i] = receiver.line[i]
        BY <2>4, <2>7, <4>1
      <4>3. QueueOf(r, wire)[i] = receiver.line[i]
        BY <1>2, <3>2 DEF r
      <4>4. QED
        BY <3>1, <4>2, <4>3
    <3>3. CASE i = HeldBy(r) + 1
      <4>1. i \in 1..HeldBy(t) /\ i = Len(receiver.line) + 1
        BY <1>2, <2>6, <3>3
      <4>2. QueueOf(t, v)[i] = s
        BY <2>4, <2>7, <4>1
      <4>3. 1 \in 1..Len(wire)
        BY <1>1
      <4>4. QueueOf(r, wire)[i] = s
        BY <1>1, <1>2, <2>1, <3>3, <4>3
      <4>5. QED
        BY <3>1, <4>2, <4>4
    <3>4. CASE i \notin 1..HeldBy(r) /\ i # HeldBy(r) + 1
      <4> DEFINE k == i - HeldBy(t)
      <4>1. /\ i \in Nat /\ i <= HeldBy(r) + 1 + Len(v) /\ i > HeldBy(r) + 1
            /\ HeldBy(t) = HeldBy(r) + 1 /\ HeldBy(r) \in Nat /\ Len(v) \in Nat
            /\ Len(v) = Len(wire) - 1 /\ Len(wire) \in Nat
        <5>1. LengthOf(t, v) = HeldBy(r) + 1 + Len(v)
          BY <1>2, <2>6, <2>7
        <5>2. i \in 1..(HeldBy(r) + 1 + Len(v))
          BY <5>1
        <5>3. HeldBy(r) \in Nat /\ Len(v) \in Nat /\ Len(wire) \in Nat
          BY <1>1, <1>2
        <5>4. i \in Nat /\ i >= 1 /\ i <= HeldBy(r) + 1 + Len(v)
          BY <5>2, <5>3
        <5>5. i > HeldBy(r) + 1
          BY <3>4, <5>3, <5>4
        <5>6. Len(v) = Len(wire) - 1 /\ HeldBy(t) = HeldBy(r) + 1
          BY <1>1, <2>6
        <5>7. QED
          BY <5>3, <5>4, <5>5, <5>6
      <4>5. /\ k \in 1..Len(v) /\ i = HeldBy(t) + k
            /\ k + 1 \in 1..Len(wire) /\ i = HeldBy(r) + (k + 1)
        BY <4>1
      <4> HIDE DEF k
      <4>2. QueueOf(t, v)[i] = v[k]
        BY <2>7, <4>5
      <4>3. QueueOf(r, wire)[i] = wire[k + 1]
        BY <1>2, <4>5
      <4>4. QED
        BY <1>1, <3>1, <4>5, <4>2, <4>3
    <3>5. QED
      BY <3>2, <3>3, <3>4
  <2>10. 0 \in Nat /\ IsReceiver(r) /\ Separated(r, wire, n, g)
    BY DEF r
  <2>11. Separated(t, v, n, h)
    BY <1>1, <2>5, <2>8, <2>9, <2>10, DropSeparated
  <2>12. QED
    BY <2>5, <2>11 DEF t, v
<1>4. CASE ~(/\ ~IsNewline(s) /\ ~receiver.discard /\ s.c \notin Junk
             /\ ~(Len(receiver.line) >= LineMax + 2))
  <2>1. IsReceiver(t) /\ HeldBy(t) = 0
    <3>1. CASE IsNewline(s)
      <4>1. t = [line |-> <<>>, discard |-> FALSE]
        BY <3>1 DEF Receive
      <4>2. t.line = <<>> /\ t.discard = FALSE
        BY <4>1
      <4>3. HeldBy(t) = 0
        BY <4>2 DEF HeldBy
      <4>4. QED
        BY <4>1, <4>2, <4>3 DEF IsReceiver
    <3>2. CASE ~IsNewline(s)
      <4>1. (t = receiver /\ receiver.discard) \/ t = [receiver EXCEPT !.discard = TRUE]
        BY <1>4, <3>2 DEF Receive
      <4>2. /\ t = [line |-> t.line, discard |-> t.discard]
            /\ t.line = receiver.line /\ t.discard = TRUE
        BY <4>1 DEF IsReceiver
      <4>3. IsReceiver(t)
        BY <4>2 DEF IsReceiver
      <4>4. HeldBy(t) = 0
        BY <4>2 DEF HeldBy
      <4>5. QED
        BY <4>3, <4>4
    <3>3. QED
      BY <3>1, <3>2
  <2> HIDE DEF r, t, v
  <2>2. /\ LengthOf(t, v) = Len(v)
        /\ \A i \in 1..Len(v) : QueueOf(t, v)[HeldBy(t) + i] = v[i]
    <3>1. IsReceiver(t) /\ v \in Seq(WireBytes)
      BY <1>1, <2>1
    <3>2. /\ LengthOf(t, v) = HeldBy(t) + Len(v)
          /\ \A i \in 1..Len(v) : QueueOf(t, v)[HeldBy(t) + i] = v[i]
      BY <3>1, QueueIs, Zenon
    <3>3. Len(v) \in Nat
      BY <3>1
    <3>4. LengthOf(t, v) = Len(v)
      BY <2>1, <3>2, <3>3
    <3>5. QED
      BY <3>2, <3>4
  <2>3. LengthOf(r, wire) = LengthOf(t, v) + (HeldBy(r) + 1) /\ HeldBy(r) + 1 \in Nat
    BY <1>1, <1>2, <2>2
  <2>4. ASSUME NEW i \in 1..LengthOf(t, v)
        PROVE  QueueOf(t, v)[i] = QueueOf(r, wire)[i + (HeldBy(r) + 1)]
    <3>1. /\ i \in 1..Len(v) /\ HeldBy(t) + i = i
          /\ i + 1 \in 1..Len(wire) /\ i + (HeldBy(r) + 1) = HeldBy(r) + (i + 1)
      BY <1>1, <1>2, <2>1, <2>2
    <3>2. QueueOf(t, v)[i] = v[i]
      BY <2>2, <3>1
    <3>3. QueueOf(r, wire)[i + (HeldBy(r) + 1)] = wire[i + 1]
      BY <1>2, <3>1
    <3>4. QED
      BY <1>1, <3>1, <3>2, <3>3
  <2>5. IsReceiver(r) /\ Separated(r, wire, n, g)
    BY DEF r
  <2> DEFINE d == HeldBy(r) + 1
  <2>6. d \in Nat /\ LengthOf(r, wire) = LengthOf(t, v) + d
        /\ \A i \in 1..LengthOf(t, v) : QueueOf(t, v)[i] = QueueOf(r, wire)[i + d]
    BY <2>3, <2>4
  <2> HIDE DEF d
  <2>7. Separated(t, v, n, h)
    BY <1>1, <2>1, <2>5, <2>6, DropSeparated
  <2>8. QED
    BY <2>1, <2>7 DEF t, v
<1>5. QED
  BY <1>3, <1>4

\* The symbols of a frame keep the lines they come from.
LEMMA LinesOfContent ==
  ASSUME NEW content \in Seq(Bytes), NEW f \in Nat, NEW i \in 1..Len(content)
  PROVE  OfFrame(content, f)[i].n = content[i].n
<1>1. DOMAIN content = 1..Len(content) /\ content[i] \in Bytes
  BY LenProperties, ElementOfSeq
<1>2. OfFrame(content, f)[i] = [content[i] EXCEPT !.f = f]
  BY <1>1 DEF OfFrame
<1>3. QED
  BY <1>1, <1>2 DEF Bytes

\* Symbols of which none comes from a later line than its successors.
Ordered(content, g) ==
  \A i, j \in 1..Len(content) : i < j => InOrder(content[i], content[j], g)

LEMMA PutSeparates ==
  ASSUME IsReceiver(receiver), wire \in Seq(WireBytes), frames \in Seq(Seq(Bytes)),
         NEW content \in Seq(Bytes), NEW g, Ordered(content, g), Put(content),
         Separated(receiver, wire, Len(frames), g)
  PROVE  Separated(receiver, wire', Len(frames'), g)
<1> DEFINE new == Len(frames) + 1
           o == OfFrame(content, new)
           w == Framed(content, new)
<1>1. CASE UNCHANGED <<wire, frames>>
  BY <1>1
<1>2. CASE wire' = wire \o w /\ frames' = Append(frames, o)
  <2>1. Len(frames) \in Nat /\ new \in Nat /\ Len(wire) \in Nat /\ Len(content) \in Nat
    BY LenProperties
  <2>2. /\ o \in Seq(Bytes) /\ Len(o) = Len(content)
        /\ \A i \in 1..Len(content) : o[i].f = new /\ o[i].n = content[i].n
    BY <2>1, FrameOfContent, LinesOfContent
  <2>3. /\ w \in Seq(WireBytes) /\ Len(w) = Len(content) + 2
        /\ w[1] = Symbol("lead", 0, new) /\ w[Len(content) + 2] = Symbol("tail", 0, new)
        /\ \A i \in 2..(Len(content) + 1) : w[i] = o[i - 1]
    BY <2>1, FrameOnWire
  <2> HIDE DEF o, w
  <2>4. Len(frames') = new
    BY <1>2, <2>2, AppendProperties
  <2>5. /\ wire' \in Seq(WireBytes) /\ Len(wire') = Len(wire) + Len(w)
        /\ \A i \in 1..(Len(wire) + Len(w)) :
             wire'[i] = IF i <= Len(wire) THEN wire[i] ELSE w[i - Len(wire)]
    BY <1>2, <2>3, ConcatProperties
  <2> DEFINE v == wire'
             q == QueueOf(receiver, wire)
             p == QueueOf(receiver, v)
             n == LengthOf(receiver, wire)
             l == Len(content) + 2
             h == HeldBy(receiver)
  <2>6. /\ h \in Nat /\ n \in Nat /\ n = h + Len(wire)
        /\ \A i \in 1..h : q[i] = receiver.line[i]
        /\ \A i \in 1..Len(wire) : q[h + i] = wire[i]
    BY QueueIs
  <2>7. v \in Seq(WireBytes)
    BY <2>5
  <2> HIDE DEF v
  <2>8. /\ LengthOf(receiver, v) = h + Len(v)
        /\ \A i \in 1..h : p[i] = receiver.line[i]
        /\ \A i \in 1..Len(v) : p[h + i] = v[i]
    BY <2>7, QueueIs
  <2>9. l \in Nat /\ l >= 2 /\ Len(w) = l /\ Len(v) = Len(wire) + l
    BY <2>1, <2>3, <2>5 DEF v
  <2>10. Separate(q, n, g) /\ \A i \in 1..n : q[i].f \in 1..Len(frames)
    BY DEF Separated
  <2> HIDE DEF p, q, n, l, h
  <2>11. LengthOf(receiver, v) = n + l
    BY <2>1, <2>6, <2>8, <2>9
  <2>12. ASSUME NEW i \in 1..n PROVE p[i] = q[i]
    <3>1. CASE i \in 1..h
      BY <2>6, <2>8, <3>1
    <3>2. CASE i \notin 1..h
      <4> DEFINE k == i - h
      <4>1. k \in 1..Len(wire) /\ i = h + k
        BY <2>1, <2>6, <3>2
      <4>2. k \in 1..Len(v) /\ k <= Len(wire) /\ k \in 1..(Len(wire) + Len(w))
        BY <2>1, <2>9, <4>1
      <4> HIDE DEF k
      <4>3. v[k] = wire[k]
        BY <2>5, <4>2 DEF v
      <4>4. QED
        BY <2>6, <2>8, <4>1, <4>2, <4>3
    <3>3. QED
      BY <3>1, <3>2
  <2>13. ASSUME NEW i \in 1..l PROVE p[n + i] = w[i]
    <3> DEFINE k == Len(wire) + i
    <3>1. /\ k \in 1..Len(v) /\ n + i = h + k /\ ~(k <= Len(wire)) /\ k - Len(wire) = i
          /\ k \in 1..(Len(wire) + Len(w))
      BY <2>1, <2>6, <2>9
    <3> HIDE DEF k
    <3>2. v[k] = w[i]
      BY <2>5, <3>1 DEF v
    <3>3. QED
      BY <2>8, <3>1, <3>2
  <2>14. ASSUME NEW i \in (n + 2)..(n + l - 1)
         PROVE  LET k == i - n - 1 IN /\ k \in 1..Len(content)
                                      /\ p[i].f = new /\ p[i].n = content[k].n
    <3> DEFINE k == i - n - 1
               j == i - n
    <3>1. /\ k \in 1..Len(content) /\ j \in 1..l /\ j \in 2..(Len(content) + 1)
          /\ j - 1 = k /\ i = n + j
      BY <2>1, <2>6, <2>9 DEF l
    <3> HIDE DEF j
    <3>2. p[i] = w[j] /\ w[j] = o[j - 1]
      BY <2>3, <2>13, <3>1
    <3>3. p[i] = o[k]
      BY <3>1, <3>2
    <3> SUFFICES k \in 1..Len(content) /\ p[i].f = new /\ p[i].n = content[k].n
      OBVIOUS
    <3> HIDE DEF k
    <3>4. QED
      BY <2>2, <3>1, <3>3
  <2>15. /\ p[n + 1].c = "lead" /\ p[n + 1].f = new
         /\ p[n + l].c = "tail" /\ p[n + l].f = new
    <3>1. 1 \in 1..l /\ l \in 1..l
      BY <2>9
    <3>2. p[n + 1] = w[1] /\ p[n + l] = w[l]
      BY <2>13, <3>1
    <3>3. w[1] = Symbol("lead", 0, new) /\ w[l] = Symbol("tail", 0, new)
      BY <2>3 DEF l
    <3>4. QED
      BY <3>2, <3>3 DEF Symbol
  <2>16. \A i \in 1..n : p[i] = q[i] /\ q[i].f # new
    <3>1. \A i \in 1..n : q[i].f # new
      BY <2>1, <2>10
    <3>2. QED
      BY <2>12, <3>1
  <2>17. ASSUME NEW i \in (n + 2)..(n + l - 1), NEW j \in (n + 2)..(n + l - 1), i < j
         PROVE  InOrder(p[i], p[j], g)
    <3> DEFINE a == i - n - 1
               b == j - n - 1
    <3>1. a \in 1..Len(content) /\ b \in 1..Len(content)
          /\ p[i].n = content[a].n /\ p[j].n = content[b].n
      BY <2>14
    <3>2. a < b
      BY <2>6, <2>9, <2>17
    <3> HIDE DEF a, b
    <3>3. InOrder(content[a], content[b], g)
      BY <3>1, <3>2 DEF Ordered
    <3>4. QED
      BY <3>1, <3>3 DEF InOrder
  <2>18. Separate(p, n + l, g)
    <3>1. \A i \in (n + 2)..(n + l - 1) : p[i].f = new
      BY <2>14
    <3> HIDE DEF new
    <3>2. QED
      BY <2>6, <2>9, <2>10, <2>15, <2>16, <2>17, <3>1, FrameSeparates
  <2>19. ASSUME NEW i \in 1..(n + l) PROVE p[i].f \in 1..new
    <3>1. CASE i \in 1..n
      BY <2>1, <2>10, <2>12, <3>1
    <3>2. CASE i = n + 1 \/ i = n + l
      BY <2>1, <2>15, <3>2
    <3>3. CASE i \notin 1..n /\ i # n + 1 /\ i # n + l
      <4>1. i \in (n + 2)..(n + l - 1)
        <5>1. n \in Nat /\ l \in Nat
          BY <2>6, <2>9
        <5>2. i \in Nat /\ i >= 1 /\ i <= n + l
          BY <5>1
        <5>3. i > n
          BY <3>3, <5>1, <5>2
        <5>4. QED
          BY <3>3, <5>1, <5>2, <5>3
      <4>2. p[i].f = new
        BY <2>14, <4>1
      <4>3. QED
        BY <2>1, <4>2
    <3>4. QED
      BY <3>1, <3>2, <3>3
  <2>20. QED
    BY <2>4, <2>11, <2>18, <2>19 DEF Separated, p, v
<1>3. QED
  BY <1>1, <1>2 DEF Put

\* No record of the symbols q is a splice, unless newlines are lost.
NoSplice(q, g) ==
  \A i \in 1..(Len(q) - 1) :
    LET x == q[i]
        y == q[i + 1]
    IN  /\ x.f # y.f => {<<"tail", x.f>>, <<"lead", y.f>>} \subseteq g
        /\ x.f = y.f /\ x.n # y.n /\ x.n # 0 => <<"newline", x.n>> \in g

\* What the receiver holds is not a splice.
LEMMA HeldIsNoSplice ==
  ASSUME NEW r, IsReceiver(r), NEW w \in Seq(WireBytes), NEW n, NEW g,
         Separated(r, w, n, g), r.discard = FALSE
  PROVE  NoSplice(r.line, g)
<1> DEFINE q == QueueOf(r, w)
           N == LengthOf(r, w)
<1>1. /\ Len(r.line) \in Nat /\ N \in Nat /\ Len(r.line) <= N
      /\ \A i \in 1..Len(r.line) : q[i] = r.line[i]
  <2>1. HeldBy(r) = Len(r.line)
    BY DEF HeldBy
  <2>2. QED
    BY <2>1, QueueIs
<1>2. Separate(q, N, g)
  BY DEF Separated
<1>3. \A i \in 1..Len(r.line) : ~IsNewline(r.line[i])
  <2> SUFFICES ASSUME NEW i \in 1..Len(r.line) PROVE ~IsNewline(r.line[i])
    OBVIOUS
  <2>1. r.line[i] \in Bytes
    BY ElementOfSeq DEF IsReceiver
  <2>2. QED
    BY <2>1, BytesAreNoNewlines
<1> HIDE DEF q, N
<1> SUFFICES ASSUME NEW i \in 1..(Len(r.line) - 1)
             PROVE  LET x == r.line[i]
                        y == r.line[i + 1]
                    IN  /\ x.f # y.f => {<<"tail", x.f>>, <<"lead", y.f>>} \subseteq g
                        /\ x.f = y.f /\ x.n # y.n /\ x.n # 0 => <<"newline", x.n>> \in g
  BY DEF NoSplice
<1>4. /\ i \in 1..Len(r.line) /\ i + 1 \in 1..Len(r.line)
      /\ i \in 1..N /\ i + 1 \in (i + 1)..N
  BY <1>1
<1>5. q[i] = r.line[i] /\ q[i + 1] = r.line[i + 1]
  BY <1>1, <1>4
<1>6. IF q[i].f = q[i + 1].f THEN InOrder(q[i], q[i + 1], g)
      ELSE /\ NewlineIn("tail", q[i].f, q, i + 1, (i + 1) - 1, g)
           /\ NewlineIn("lead", q[i + 1].f, q, i + 1, (i + 1) - 1, g)
  BY <1>2, <1>3, <1>4, <1>5 DEF Separate
<1>7. (i + 1)..((i + 1) - 1) = {}
  OBVIOUS
<1>8. CASE q[i].f = q[i + 1].f
  BY <1>5, <1>6, <1>8 DEF InOrder
<1>9. CASE q[i].f # q[i + 1].f
  <2>1. <<"tail", q[i].f>> \in g /\ <<"lead", q[i + 1].f>> \in g
    BY <1>6, <1>7, <1>9 DEF NewlineIn
  <2>2. QED
    BY <1>5, <1>9, <2>1
<1>10. QED
  BY <1>8, <1>9

\* A symbol in front of the others.
LEMMA InFront ==
  ASSUME NEW a \in Bytes, NEW l \in Seq(Bytes)
  PROVE  LET content == <<a>> \o l
         IN  /\ content \in Seq(Bytes) /\ Len(content) = Len(l) + 1
             /\ content[1] = a
             /\ \A i \in 2..(Len(l) + 1) : content[i] = l[i - 1]
<1> DEFINE A == <<a>>
           content == A \o l
<1>1. A \in Seq(Bytes) /\ Len(A) = 1 /\ A[1] = a /\ Len(l) \in Nat
  BY LenProperties
<1> HIDE DEF A
<1>2. /\ content \in Seq(Bytes) /\ Len(content) = Len(A) + Len(l)
      /\ \A i \in 1..(Len(A) + Len(l)) : content[i] = IF i <= Len(A) THEN A[i] ELSE l[i - Len(A)]
  BY <1>1, ConcatProperties
<1> HIDE DEF content
<1>3. Len(content) = Len(l) + 1
  BY <1>1, <1>2
<1>4. content[1] = a
  BY <1>1, <1>2
<1>5. \A i \in 2..(Len(l) + 1) : content[i] = l[i - 1]
  BY <1>1, <1>2
<1>6. QED
  BY <1>2, <1>3, <1>4, <1>5 DEF content, A

\* A line in order stays in order behind the letter of its channel.
LEMMA ForwardedInOrder ==
  ASSUME NEW l \in Seq(Bytes), NEW g, Ordered(l, g)
  PROVE  /\ <<Symbol("A", 0, 0)>> \o l \in Seq(Bytes)
         /\ Ordered(<<Symbol("A", 0, 0)>> \o l, g)
<1> DEFINE a == Symbol("A", 0, 0)
           content == <<a>> \o l
<1>1. a \in Bytes /\ a.n = 0
  BY DEF Symbol, Bytes, Chars
<1> HIDE DEF a
<1>2. /\ content \in Seq(Bytes) /\ Len(content) = Len(l) + 1 /\ Len(l) \in Nat
      /\ content[1] = a /\ \A i \in 2..(Len(l) + 1) : content[i] = l[i - 1]
  BY <1>1, InFront, LenProperties
<1> HIDE DEF content
<1>3. ASSUME NEW i \in 1..Len(content), NEW j \in 1..Len(content), i < j
      PROVE  InOrder(content[i], content[j], g)
  <2>1. CASE i = 1
    BY <1>1, <1>2, <2>1 DEF InOrder
  <2>2. CASE i # 1
    <3>1. /\ i \in 2..(Len(l) + 1) /\ j \in 2..(Len(l) + 1)
          /\ i - 1 \in 1..Len(l) /\ j - 1 \in 1..Len(l) /\ i - 1 < j - 1
      BY <1>2, <1>3, <2>2
    <3>2. InOrder(l[i - 1], l[j - 1], g)
      BY <3>1 DEF Ordered
    <3>3. QED
      BY <1>2, <3>1, <3>2
  <2>3. QED
    BY <2>1, <2>2
<1>4. QED
  BY <1>2, <1>3 DEF Ordered, content, a

\* So does what is handed over of it.
LEMMA BeginningInOrder ==
  ASSUME NEW l \in Seq(Bytes), NEW g, Ordered(l, g)
  PROVE  CString(l) \in Seq(Bytes) /\ Ordered(CString(l), g)
<1> DEFINE p == CString(l)
<1>1. /\ p \in Seq(Bytes) /\ Len(p) \in Nat /\ Len(p) <= Len(l) /\ Len(l) \in Nat
      /\ \A i \in 1..Len(p) : p[i] = l[i]
  BY CStringIs, LenProperties
<1> HIDE DEF p
<1>2. \A i \in 1..Len(p) : i \in 1..Len(l)
  BY <1>1
<1>3. Ordered(p, g)
  BY <1>1, <1>2 DEF Ordered
<1>4. QED
  BY <1>1, <1>3 DEF p

\* The first symbol on the wire is lost.
LEMMA LostSeparated ==
  ASSUME IsReceiver(receiver), wire \in Seq(WireBytes), wire # <<>>, NEW n \in Nat, NEW g,
         Separated(receiver, wire, n, g)
  PROVE  Separated(receiver, Tail(wire), n, g \cup Newline(Head(wire)))
<1> DEFINE r == receiver
           v == Tail(wire)
           h == g \cup Newline(Head(wire))
           e == HeldBy(r) + 1
<1>1. /\ Head(wire) = wire[1] /\ v \in Seq(WireBytes)
      /\ Len(v) = Len(wire) - 1 /\ \A i \in 1..Len(v) : v[i] = wire[i + 1]
      /\ Len(wire) \in Nat /\ Len(v) \in Nat
  BY HeadTailProperties, LenProperties
<1>2. /\ HeldBy(r) \in Nat /\ LengthOf(r, wire) \in Nat
      /\ LengthOf(r, wire) = HeldBy(r) + Len(wire)
      /\ \A i \in 1..HeldBy(r) : QueueOf(r, wire)[i] = r.line[i]
      /\ \A i \in 1..Len(wire) : QueueOf(r, wire)[HeldBy(r) + i] = wire[i]
  BY QueueIs
<1>3. IsReceiver(r) /\ Separated(r, wire, n, g) /\ g \subseteq h
  OBVIOUS
<1> HIDE DEF r, v
<1>4. /\ LengthOf(r, v) = HeldBy(r) + Len(v)
      /\ \A i \in 1..HeldBy(r) : QueueOf(r, v)[i] = r.line[i]
      /\ \A i \in 1..Len(v) : QueueOf(r, v)[HeldBy(r) + i] = v[i]
  BY <1>1, <1>3, QueueIs
<1>5. e \in 1..LengthOf(r, wire) /\ LengthOf(r, wire) = LengthOf(r, v) + 1
  BY <1>1, <1>2, <1>4
<1>6. ASSUME NEW i \in 1..LengthOf(r, v)
      PROVE  QueueOf(r, v)[i] = QueueOf(r, wire)[IF i < e THEN i ELSE i + 1]
  <2>1. CASE i < e
    <3>1. i \in 1..HeldBy(r)
      BY <1>2, <2>1
    <3>2. QED
      BY <1>2, <1>4, <2>1, <3>1
  <2>2. CASE ~(i < e)
    <3> DEFINE k == i - HeldBy(r)
    <3>1. /\ k \in 1..Len(v) /\ i = HeldBy(r) + k /\ k + 1 \in 1..Len(wire)
          /\ i + 1 = HeldBy(r) + (k + 1)
      BY <1>1, <1>2, <1>4, <2>2
    <3> HIDE DEF k
    <3>2. QueueOf(r, v)[i] = v[k] /\ QueueOf(r, wire)[i + 1] = wire[k + 1]
      BY <1>2, <1>4, <3>1
    <3>3. QED
      BY <1>1, <2>2, <3>1, <3>2
  <2>3. QED
    BY <2>1, <2>2
<1>7. LET x == QueueOf(r, wire)[e] IN IsNewline(x) => <<x.c, x.f>> \in h
  <2>1. 1 \in 1..Len(wire)
    BY <1>1
  <2>2. QueueOf(r, wire)[e] = Head(wire)
    BY <1>1, <1>2, <2>1
  <2>3. Head(wire).f \in 1..n
    BY <1>3, <1>5, <2>2 DEF Separated
  <2>4. Head(wire).f # 0
    BY <2>3
  <2>5. IsNewline(Head(wire)) => <<Head(wire).c, Head(wire).f>> \in h
    BY <2>4 DEF Newline
  <2>6. QED
    BY <2>2, <2>5
<1> HIDE DEF h, e
<1>8. Separated(r, v, n, h)
  BY <1>1, <1>3, <1>5, <1>6, <1>7, LossSeparated
<1>9. QED
  BY <1>8 DEF r, v, h

\* What is left is a front part, and the newlines cut off are in h.
Cut(r, w, s, v, g, h) ==
  /\ IsReceiver(r) /\ w \in Seq(WireBytes) /\ IsReceiver(s) /\ v \in Seq(WireBytes)
  /\ g \subseteq h /\ LengthOf(s, v) <= LengthOf(r, w)
  /\ \A i \in 1..LengthOf(s, v) : QueueOf(s, v)[i] = QueueOf(r, w)[i]
  /\ \A k \in (LengthOf(s, v) + 1)..LengthOf(r, w) :
       IsNewline(QueueOf(r, w)[k]) => <<QueueOf(r, w)[k].c, QueueOf(r, w)[k].f>> \in h

LEMMA CutDoes ==
  ASSUME NEW r, NEW w, NEW s, NEW v, NEW n, NEW g, NEW h, Cut(r, w, s, v, g, h),
         Separated(r, w, n, g)
  PROVE  Separated(s, v, n, h)
<1>1. /\ IsReceiver(r) /\ w \in Seq(WireBytes) /\ IsReceiver(s) /\ v \in Seq(WireBytes)
      /\ g \subseteq h /\ LengthOf(s, v) <= LengthOf(r, w)
      /\ \A i \in 1..LengthOf(s, v) : QueueOf(s, v)[i] = QueueOf(r, w)[i]
  BY DEF Cut
<1>2. \A k \in (LengthOf(s, v) + 1)..LengthOf(r, w) :
         LET x == QueueOf(r, w)[k] IN IsNewline(x) => <<x.c, x.f>> \in h
  BY DEF Cut
<1>3. QED
  BY <1>1, <1>2, CutSeparated, Zenon

\* What is on the wire is lost.
LEMMA ClearedSeparated ==
  ASSUME IsReceiver(receiver), wire \in Seq(WireBytes), NEW n \in Nat, NEW g, NEW h,
         g \subseteq h, \A i \in 1..Len(wire) : Newline(wire[i]) \subseteq h,
         Separated(receiver, wire, n, g)
  PROVE  Separated(receiver, <<>>, n, h)
<1> DEFINE r == receiver
           v == <<>>
<1>1. v \in Seq(WireBytes) /\ Len(v) = 0 /\ Len(wire) \in Nat
  BY LenProperties
<1>2. /\ HeldBy(r) \in Nat /\ LengthOf(r, wire) \in Nat
      /\ LengthOf(r, wire) = HeldBy(r) + Len(wire)
      /\ \A i \in 1..HeldBy(r) : QueueOf(r, wire)[i] = r.line[i]
      /\ \A i \in 1..Len(wire) : QueueOf(r, wire)[HeldBy(r) + i] = wire[i]
  BY QueueIs
<1>3. IsReceiver(r) /\ Separated(r, wire, n, g)
  OBVIOUS
<1> HIDE DEF r, v
<1>4. /\ LengthOf(r, v) = HeldBy(r) + Len(v)
      /\ \A i \in 1..HeldBy(r) : QueueOf(r, v)[i] = r.line[i]
  BY <1>1, <1>3, QueueIs
<1>5. LengthOf(r, v) = HeldBy(r) /\ LengthOf(r, v) <= LengthOf(r, wire)
  BY <1>1, <1>2, <1>4
<1>6. \A i \in 1..LengthOf(r, v) : QueueOf(r, v)[i] = QueueOf(r, wire)[i]
  BY <1>2, <1>4, <1>5
<1>7. ASSUME NEW k \in (LengthOf(r, v) + 1)..LengthOf(r, wire)
      PROVE  LET x == QueueOf(r, wire)[k] IN IsNewline(x) => <<x.c, x.f>> \in h
  <2> DEFINE i == k - HeldBy(r)
             x == QueueOf(r, wire)[k]
  <2>1. i \in 1..Len(wire) /\ k = HeldBy(r) + i /\ k \in 1..LengthOf(r, wire)
    BY <1>1, <1>2, <1>5
  <2> HIDE DEF i
  <2>2. x = wire[i] /\ x.f \in 1..n
    BY <1>2, <1>3, <2>1 DEF Separated
  <2>3. x.f # 0 /\ Newline(x) \subseteq h
    BY <2>1, <2>2
  <2> SUFFICES IsNewline(x) => <<x.c, x.f>> \in h
    OBVIOUS
  <2> HIDE DEF x
  <2>4. QED
    BY <2>3 DEF Newline
<1>8. Cut(r, wire, r, v, g, h)
  BY <1>1, <1>3, <1>5, <1>6, <1>7 DEF Cut
<1>9. Separated(r, v, n, h)
  BY <1>3, <1>8, CutDoes
<1>10. QED
  BY <1>9 DEF r, v

\* What is held is forgotten.
LEMMA ForgottenSeparated ==
  ASSUME IsReceiver(receiver), wire \in Seq(WireBytes), NEW n \in Nat, NEW g,
         Separated(receiver, wire, n, g)
  PROVE  IsReceiver(FreshReceiver) /\ Separated(FreshReceiver, wire, n, g)
<1> DEFINE r == receiver
           t == FreshReceiver
           d == HeldBy(r)
<1>1. /\ HeldBy(r) \in Nat /\ LengthOf(r, wire) \in Nat /\ Len(wire) \in Nat
      /\ LengthOf(r, wire) = HeldBy(r) + Len(wire)
      /\ \A i \in 1..Len(wire) : QueueOf(r, wire)[HeldBy(r) + i] = wire[i]
  BY QueueIs
<1>2. IsReceiver(r) /\ Separated(r, wire, n, g)
  OBVIOUS
<1>3. IsReceiver(t) /\ HeldBy(t) = 0
  BY DEF FreshReceiver, IsReceiver, HeldBy
<1> HIDE DEF r, t
<1>4. /\ LengthOf(t, wire) = HeldBy(t) + Len(wire)
      /\ \A i \in 1..Len(wire) : QueueOf(t, wire)[HeldBy(t) + i] = wire[i]
  BY <1>3, QueueIs
<1>5. LengthOf(r, wire) = LengthOf(t, wire) + d /\ d \in Nat
  BY <1>1, <1>3, <1>4
<1>6. ASSUME NEW i \in 1..LengthOf(t, wire)
      PROVE  QueueOf(t, wire)[i] = QueueOf(r, wire)[i + d]
  <2>1. i \in 1..Len(wire) /\ HeldBy(t) + i = i /\ i + d = HeldBy(r) + i
    BY <1>1, <1>3, <1>4
  <2>2. QED
    BY <1>1, <1>4, <2>1
<1> HIDE DEF d
<1>7. g \subseteq g
  OBVIOUS
<1>8. Separated(t, wire, n, g)
  BY <1>2, <1>3, <1>5, <1>6, <1>7, DropSeparated
<1>9. QED
  BY <1>3, <1>8 DEF t

\* The line the Secondary collects: only behind a lost newline does it hold
\* symbols of an earlier line.
LineInOrder ==
  /\ Ordered(assembler.line, gone)
  /\ \A i \in 1..Len(assembler.line) :
       LET n == assembler.line[i].n IN n = Current \/ <<"newline", n>> \in gone

\* The invariant of the splices.
SpliceInv ==
  /\ FrameInv /\ IsReceiver(receiver) /\ LineInOrder
  /\ Separated(receiver, wire, Len(frames), gone)
  /\ \A line \in accepted : NoSplice(line, gone)

\* An unchanged part is not harmed by more lost newlines.
LEMMA MoreLost ==
  ASSUME NEW q, NEW g, NEW h, g \subseteq h
  PROVE  /\ Ordered(q, g) => Ordered(q, h)
         /\ NoSplice(q, g) => NoSplice(q, h)
<1>1. Ordered(q, g) => Ordered(q, h)
  BY DEF Ordered, InOrder
<1>2. NoSplice(q, g) => NoSplice(q, h)
  BY DEF NoSplice
<1>3. QED
  BY <1>1, <1>2

LEMMA SeparatedStays ==
  ASSUME NEW r, IsReceiver(r), NEW w \in Seq(WireBytes), NEW n, NEW g, NEW h, g \subseteq h,
         Separated(r, w, n, g)
  PROVE  Separated(r, w, n, h)
<1>1. LengthOf(r, w) \in Nat
  BY QueueIs
<1>2. LengthOf(r, w) = LengthOf(r, w) + 0 /\ 0 \in Nat
  BY <1>1
<1>3. \A i \in 1..LengthOf(r, w) : QueueOf(r, w)[i] = QueueOf(r, w)[i + 0]
  <2>1. \A i \in 1..LengthOf(r, w) : i + 0 = i
    OBVIOUS
  <2>2. QED
    BY <2>1
<1>4. QED
  BY <1>2, <1>3, DropSeparated

LEMMA LineStays ==
  ASSUME LineInOrder, sent' = sent, assembler' = assembler, gone \subseteq gone'
  PROVE  LineInOrder'
<1>1. Ordered(assembler.line, gone')
  BY MoreLost DEF LineInOrder
<1>2. Current' = Current
  BY DEF Current
<1>3. QED
  BY <1>1, <1>2 DEF LineInOrder, Ordered, InOrder

\* A symbol is received, whole or damaged.
LEMMA ReceiveStep ==
  ASSUME SpliceInv, FrameInv', LinkByte \/ LinkByteDamaged
  PROVE  SpliceInv'
<1>1. PICK s : (s = Head(wire) \/ s = [Head(wire) EXCEPT !.c = "junk"]) /\ Receive(s)
  BY DEF LinkByte, LinkByteDamaged
<1>2. /\ wire # <<>> /\ wire' = Tail(wire) /\ sent' = sent /\ assembler' = assembler
      /\ frames' = frames /\ gone' = gone
  BY DEF LinkByte, LinkByteDamaged
<1>3. /\ IsReceiver(receiver) /\ wire \in Seq(WireBytes)
      /\ Separated(receiver, wire, Len(frames), gone)
  BY DEF SpliceInv, FrameInv, Buffers
<1>4. IsReceiver(receiver)' /\ Separated(receiver', wire', Len(frames), gone)
  BY <1>1, <1>2, <1>3, ReceivedSeparated
<1>5. LineInOrder'
  BY <1>2, LineStays DEF SpliceInv
<1>6. ASSUME NEW line \in accepted' PROVE NoSplice(line, gone)
  <2>1. CASE line \in accepted
    BY <2>1 DEF SpliceInv
  <2>2. CASE line \notin accepted
    <3>1. receiver.discard = FALSE /\ line = receiver.line
      BY <1>1, <1>3, <1>6, <2>2 DEF Receive, ReceiveLine, IsReceiver
    <3>2. QED
      BY <1>3, <3>1, HeldIsNoSplice
  <2>3. QED
    BY <2>1, <2>2
<1>7. QED
  BY <1>2, <1>4, <1>5, <1>6 DEF SpliceInv

\* The part of the step that is not about the queue.
LEMMA SpliceRest ==
  ASSUME SpliceInv, FrameInv', gone \subseteq gone', accepted' = accepted, LineInOrder',
         IsReceiver(receiver)', Separated(receiver', wire', Len(frames'), gone')
  PROVE  SpliceInv'
<1>1. \A line \in accepted' : NoSplice(line, gone')
  BY MoreLost DEF SpliceInv
<1>2. QED
  BY <1>1 DEF SpliceInv

LEMMA LinkLossStep ==
  ASSUME SpliceInv, FrameInv', LinkByteLost
  PROVE  SpliceInv'
<1>1. /\ wire # <<>> /\ wire' = Tail(wire) /\ sent' = sent /\ assembler' = assembler
      /\ frames' = frames /\ gone' = gone \cup Newline(Head(wire))
      /\ receiver' = receiver /\ accepted' = accepted
  BY DEF LinkByteLost
<1>2. /\ IsReceiver(receiver) /\ wire \in Seq(WireBytes) /\ Len(frames) \in Nat
      /\ Separated(receiver, wire, Len(frames), gone)
  BY LenProperties DEF SpliceInv, FrameInv, Buffers, FramesAreValid
<1>3. Separated(receiver, Tail(wire), Len(frames), gone \cup Newline(Head(wire)))
  BY <1>1, <1>2, LostSeparated
<1>4. LineInOrder'
  BY <1>1, LineStays DEF SpliceInv
<1>5. IsReceiver(receiver)' /\ Separated(receiver', wire', Len(frames'), gone')
  BY <1>1, <1>2, <1>3 DEF IsReceiver
<1>6. QED
  BY <1>1, <1>4, <1>5, SpliceRest

LEMMA PrimaryForgetsStep ==
  ASSUME SpliceInv, FrameInv', PrimaryResets
  PROVE  SpliceInv'
<1>1. /\ wire' = wire /\ sent' = sent /\ assembler' = assembler /\ frames' = frames
      /\ gone' = gone /\ receiver' = FreshReceiver /\ accepted' = accepted
  BY DEF PrimaryResets
<1>2. /\ IsReceiver(receiver) /\ wire \in Seq(WireBytes) /\ Len(frames) \in Nat
      /\ Separated(receiver, wire, Len(frames), gone)
  BY LenProperties DEF SpliceInv, FrameInv, Buffers, FramesAreValid
<1>3. IsReceiver(FreshReceiver) /\ Separated(FreshReceiver, wire, Len(frames), gone)
  BY <1>2, ForgottenSeparated
<1>4. LineInOrder'
  BY <1>1, LineStays DEF SpliceInv
<1>5. IsReceiver(receiver)' /\ Separated(receiver', wire', Len(frames'), gone')
  BY <1>1, <1>3 DEF IsReceiver
<1>6. QED
  BY <1>1, <1>4, <1>5, SpliceRest

LEMMA SecondaryForgetsStep ==
  ASSUME SpliceInv, FrameInv', SecondaryResets
  PROVE  SpliceInv'
<1>1. /\ wire' = <<>> /\ sent' = sent /\ assembler' = FreshAssembler /\ frames' = frames
      /\ gone' = gone \cup UNION {Newline(s) : s \in SymbolsOf(wire)}
      /\ receiver' = receiver /\ accepted' = accepted
  BY DEF SecondaryResets
<1>2. /\ IsReceiver(receiver) /\ wire \in Seq(WireBytes) /\ Len(frames) \in Nat
      /\ Separated(receiver, wire, Len(frames), gone)
  BY LenProperties DEF SpliceInv, FrameInv, Buffers, FramesAreValid
<1>3. gone \subseteq gone' /\ \A i \in 1..Len(wire) : Newline(wire[i]) \subseteq gone'
  <2>1. DOMAIN wire = 1..Len(wire)
    BY <1>2, LenProperties
  <2>2. QED
    BY <1>1, <2>1 DEF SymbolsOf
<1>4. Separated(receiver, <<>>, Len(frames), gone')
  BY <1>2, <1>3, ClearedSeparated
<1>5. LineInOrder'
  BY <1>1 DEF LineInOrder, Ordered, FreshAssembler
<1>6. IsReceiver(receiver)' /\ Separated(receiver', wire', Len(frames'), gone')
  BY <1>1, <1>2, <1>4 DEF IsReceiver
<1>7. QED
  BY <1>1, <1>3, <1>5, <1>6, SpliceRest

\* A byte of the current line is collected. Its newline may be lost with it.
LEMMA CollectInOrder ==
  ASSUME LineInOrder, NEW s \in Bytes, s.n = Current, assembler' = Collected(s),
         assembler = [line |-> assembler.line, overflow |-> assembler.overflow],
         assembler.line \in Seq(Bytes), gone \subseteq gone',
         Current' = Current \/ <<"newline", Current>> \in gone'
  PROVE  LineInOrder'
<1> DEFINE l == assembler.line
           k == Append(l, s)
<1>1. /\ \A i, j \in 1..Len(l) : i < j => InOrder(l[i], l[j], gone')
      /\ \A i \in 1..Len(l) : l[i].n = Current' \/ <<"newline", l[i].n>> \in gone'
  <2>1. Ordered(l, gone')
    BY MoreLost DEF LineInOrder
  <2>2. \A i \in 1..Len(l) : l[i].n = Current \/ <<"newline", l[i].n>> \in gone
    BY DEF LineInOrder
  <2> HIDE DEF l
  <2>3. QED
    BY <2>1, <2>2 DEF Ordered
<1>2. CASE assembler'.line = l
  <2> HIDE DEF l
  <2>1. QED
    BY <1>1, <1>2 DEF LineInOrder, Ordered, InOrder
<1>3. CASE assembler'.line = k
  <2>1. /\ Len(l) \in Nat /\ Len(k) = Len(l) + 1 /\ k[Len(l) + 1] = s
        /\ \A i \in 1..Len(l) : k[i] = l[i]
    BY AppendProperties, LenProperties
  <2> HIDE DEF l, k
  <2>2. \A i \in 1..Len(k) : i = Len(l) + 1 \/ i \in 1..Len(l)
    BY <2>1
  <2>3. s.n = Current' \/ <<"newline", s.n>> \in gone'
    OBVIOUS
  <2>4. ASSUME NEW i \in 1..Len(k)
        PROVE  k[i].n = Current' \/ <<"newline", k[i].n>> \in gone'
    BY <1>1, <2>1, <2>2, <2>3
  <2>5. ASSUME NEW i \in 1..Len(k), NEW j \in 1..Len(k), i < j
        PROVE  InOrder(k[i], k[j], gone')
    <3>1. i \in 1..Len(l)
      BY <2>1, <2>5
    <3>2. CASE j = Len(l) + 1
      <4>1. l[i].n = s.n \/ <<"newline", l[i].n>> \in gone'
        BY <3>1 DEF LineInOrder, l
      <4>2. k[i] = l[i] /\ k[j] = s
        BY <2>1, <3>1, <3>2
      <4>3. QED
        BY <4>1, <4>2 DEF InOrder
    <3>3. CASE j \in 1..Len(l)
      BY <1>1, <2>1, <2>5, <3>1, <3>3
    <3>4. QED
      BY <2>2, <3>2, <3>3
  <2>6. Ordered(k, gone')
    BY <2>5 DEF Ordered
  <2>7. QED
    BY <1>3, <2>4, <2>6 DEF LineInOrder, Ordered, InOrder
<1>4. QED
  BY <1>2, <1>3 DEF Collected

LEMMA DetectorLossStep ==
  ASSUME SpliceInv, FrameInv', AirdosByteLost \/ AirdosByteDamaged
  PROVE  SpliceInv'
<1>1. /\ wire' = wire /\ sent' = sent + 1 /\ frames' = frames
      /\ gone' = gone \cup Newline(NextSymbol)
      /\ receiver' = receiver /\ accepted' = accepted
  BY DEF AirdosByteLost, AirdosByteDamaged
<1>2. /\ IsReceiver(receiver) /\ wire \in Seq(WireBytes) /\ sent \in Nat
      /\ Separated(receiver, wire, Len(frames), gone)
  BY DEF SpliceInv, FrameInv, Buffers
<1>3. gone \subseteq gone'
  BY <1>1
<1>4. Separated(receiver, wire, Len(frames), gone')
  BY <1>2, <1>3, SeparatedStays
<1>5. Current' = Current \/ <<"newline", Current>> \in gone'
  <2>1. CASE sent % 3 # 2
    BY <1>1, <1>2, <2>1, Progress DEF Current
  <2>2. CASE sent % 3 = 2
    <3>1. NextSymbol = Symbol("newline", Current, 0)
      BY <1>2, <2>2, NextIs
    <3>2. <<"newline", Current>> \in Newline(NextSymbol)
      BY <3>1 DEF Newline, IsNewline, Newlines, Symbol
    <3>3. QED
      BY <1>1, <3>2
  <2>3. QED
    BY <2>1, <2>2
<1>a. ASSUME AirdosByteLost PROVE LineInOrder'
  <2>1. Ordered(assembler.line, gone') /\ assembler' = assembler
    BY <1>3, <1>a, MoreLost DEF SpliceInv, LineInOrder, AirdosByteLost
  <2>2. \A i \in 1..Len(assembler.line) :
          LET n == assembler.line[i].n IN n = Current' \/ <<"newline", n>> \in gone'
    BY <1>3, <1>5 DEF SpliceInv, LineInOrder
  <2>3. QED
    BY <1>1, <2>1, <2>2 DEF LineInOrder, Ordered, InOrder
<1>b. ASSUME AirdosByteDamaged PROVE LineInOrder'
  <2>1. PICK c \in Junk : assembler' = Collected([NextSymbol EXCEPT !.c = c])
    BY <1>b DEF AirdosByteDamaged
  <2>2. [NextSymbol EXCEPT !.c = c] \in Bytes /\ [NextSymbol EXCEPT !.c = c].n = Current
    BY <1>2, NextIsByte
  <2>3. /\ assembler = [line |-> assembler.line, overflow |-> assembler.overflow]
        /\ assembler.line \in Seq(Bytes)
    BY DEF SpliceInv, FrameInv, Buffers, LineInBuffer
  <2>4. QED
    BY <1>3, <1>5, <2>1, <2>2, <2>3, CollectInOrder DEF SpliceInv
<1>6. LineInOrder'
  BY <1>a, <1>b
<1>7. IsReceiver(receiver)' /\ Separated(receiver', wire', Len(frames'), gone')
  BY <1>1, <1>2, <1>4 DEF IsReceiver
<1>8. QED
  BY <1>1, <1>3, <1>6, <1>7, SpliceRest

\* A frame of ordered content is put behind the others.
LEMMA PutStep ==
  ASSUME SpliceInv, FrameInv', NEW content \in Seq(Bytes), Ordered(content, gone),
         Put(content), receiver' = receiver, accepted' = accepted, gone' = gone, LineInOrder'
  PROVE  SpliceInv'
<1>1. /\ IsReceiver(receiver) /\ wire \in Seq(WireBytes) /\ frames \in Seq(Seq(Bytes))
      /\ Separated(receiver, wire, Len(frames), gone)
  BY DEF SpliceInv, FrameInv, Buffers, FramesAreValid
<1>2. Separated(receiver, wire', Len(frames'), gone)
  BY <1>1, PutSeparates
<1>3. IsReceiver(receiver)' /\ Separated(receiver', wire', Len(frames'), gone')
  BY <1>1, <1>2 DEF IsReceiver
<1>4. QED
  BY <1>3, SpliceRest

LEMMA StatusPutStep ==
  ASSUME SpliceInv, FrameInv', StatusFrame
  PROVE  SpliceInv'
<1> DEFINE content == <<Symbol("O", 0, 0), Symbol("digit", 0, 0)>>
<1>1. content \in Seq(Bytes)
  BY DEF Symbol, Bytes, Chars
<1>2. Ordered(content, gone)
  BY DEF Ordered, InOrder, Symbol
<1>3. /\ Put(content) /\ receiver' = receiver /\ accepted' = accepted /\ gone' = gone
      /\ sent' = sent /\ assembler' = assembler
  BY DEF StatusFrame
<1>4. LineInOrder'
  BY <1>3, LineStays DEF SpliceInv
<1> HIDE DEF content
<1>5. QED
  BY <1>1, <1>2, <1>3, <1>4, PutStep

LEMMA DetectorByteStep ==
  ASSUME SpliceInv, FrameInv', AirdosByte
  PROVE  SpliceInv'
<1>1. /\ sent' = sent + 1 /\ receiver' = receiver /\ accepted' = accepted /\ gone' = gone
  BY DEF AirdosByte
<1>2. /\ IsReceiver(receiver) /\ sent \in Nat /\ assembler.line \in Seq(Bytes)
      /\ assembler = [line |-> assembler.line, overflow |-> assembler.overflow]
      /\ Separated(receiver, wire, Len(frames), gone)
  BY DEF SpliceInv, FrameInv, Buffers, LineInBuffer
<1>3. CASE IsNewline(NextSymbol)
  <2>1. EndLine /\ assembler' = FreshAssembler
    BY <1>3 DEF AirdosByte, EndLine
  <2>2. LineInOrder'
    BY <2>1 DEF LineInOrder, Ordered, FreshAssembler
  <2>3. CASE UNCHANGED <<wire, frames>>
    <3>1. IsReceiver(receiver)' /\ Separated(receiver', wire', Len(frames'), gone')
      BY <1>1, <1>2, <2>3 DEF IsReceiver
    <3>2. QED
      BY <1>1, <2>2, <3>1, SpliceRest
  <2>4. CASE Put(<<Symbol("A", 0, 0)>> \o CString(assembler.line))
    <3> DEFINE l == CString(assembler.line)
    <3>1. l \in Seq(Bytes) /\ Ordered(l, gone)
      BY <1>2, BeginningInOrder DEF SpliceInv, LineInOrder
    <3> HIDE DEF l
    <3>2. /\ <<Symbol("A", 0, 0)>> \o l \in Seq(Bytes)
          /\ Ordered(<<Symbol("A", 0, 0)>> \o l, gone)
      BY <3>1, ForwardedInOrder
    <3>3. QED
      BY <1>1, <2>2, <2>4, <3>2, PutStep DEF l
  <2>5. QED
    BY <2>1, <2>3, <2>4 DEF EndLine, Forward
<1>4. CASE ~IsNewline(NextSymbol)
  <2>1. assembler' = Collected(NextSymbol) /\ wire' = wire /\ frames' = frames
    BY <1>4 DEF AirdosByte
  <2>2. Current' = Current /\ NextSymbol \in Bytes /\ NextSymbol.n = Current
    <3>1. sent % 3 # 2 /\ sent % 3 \in 0..2
      BY <1>2, <1>4, NewlineIsLast, Progress
    <3>2. Current' = Current /\ Current \in Nat
      BY <1>1, <1>2, <3>1, Progress DEF Current
    <3>3. QED
      BY <1>2, <3>1, <3>2, NextIsByte
  <2>3. LineInOrder'
    BY <1>1, <1>2, <2>1, <2>2, CollectInOrder DEF SpliceInv
  <2>4. IsReceiver(receiver)' /\ Separated(receiver', wire', Len(frames'), gone')
    BY <1>1, <1>2, <2>1 DEF IsReceiver
  <2>5. QED
    BY <1>1, <2>3, <2>4, SpliceRest
<1>5. QED
  BY <1>3, <1>4

\* SpliceInv is inductive.
LEMMA SpliceStep == SpliceInv /\ [Next]_vars => SpliceInv'
<1> SUFFICES ASSUME SpliceInv, [Next]_vars PROVE SpliceInv'
  OBVIOUS
<1>1. FrameInv'
  BY FrameStep DEF SpliceInv
<1>2. CASE AirdosByte
  BY <1>1, <1>2, DetectorByteStep
<1>3. CASE AirdosByteLost \/ AirdosByteDamaged
  BY <1>1, <1>3, DetectorLossStep
<1>4. CASE StatusFrame
  BY <1>1, <1>4, StatusPutStep
<1>5. CASE LinkByte \/ LinkByteDamaged
  BY <1>1, <1>5, ReceiveStep
<1>6. CASE LinkByteLost
  BY <1>1, <1>6, LinkLossStep
<1>7. CASE SecondaryResets
  BY <1>1, <1>7, SecondaryForgetsStep
<1>8. CASE PrimaryResets
  BY <1>1, <1>8, PrimaryForgetsStep
<1>9. CASE UNCHANGED vars
  <2>1. /\ sent' = sent /\ assembler' = assembler /\ wire' = wire /\ receiver' = receiver
        /\ frames' = frames /\ gone' = gone /\ accepted' = accepted
    BY <1>9 DEF vars
  <2>2. LineInOrder'
    BY <2>1, LineStays DEF SpliceInv
  <2>3. IsReceiver(receiver)' /\ Separated(receiver', wire', Len(frames'), gone')
    BY <2>1 DEF SpliceInv, IsReceiver
  <2>4. QED
    BY <1>1, <2>1, <2>2, <2>3, SpliceRest
<1>10. QED
  BY <1>2, <1>3, <1>4, <1>5, <1>6, <1>7, <1>8, <1>9 DEF Next

LEMMA SpliceInit == Init => SpliceInv
<1> SUFFICES ASSUME Init PROVE SpliceInv
  OBVIOUS
<1>1. FrameInv
  BY FrameInit
<1>2. IsReceiver(receiver) /\ HeldBy(receiver) = 0 /\ wire = <<>>
  BY DEF Init, FreshReceiver, IsReceiver, HeldBy
<1>3. LengthOf(receiver, wire) = 0
  BY <1>2 DEF LengthOf
<1>4. Separated(receiver, wire, Len(frames), gone)
  BY <1>3 DEF Separated, Separate
<1>5. LineInOrder
  BY DEF Init, LineInOrder, Ordered, FreshAssembler
<1>6. QED
  BY <1>1, <1>2, <1>4, <1>5 DEF SpliceInv, Init

\* The Primary takes no record that is put together from two frames or two
\* lines for a valid one, unless the newlines between them were lost: for any
\* buffers and any number of frames, losses and resets.
THEOREM SplicesAreMarked == Spec => []SplicesNeedLostNewlines
<1>1. SpliceInv => SplicesNeedLostNewlines
  BY DEF SpliceInv, NoSplice, SplicesNeedLostNewlines
<1>2. QED
  BY <1>1, SpliceInit, SpliceStep, PTL DEF Spec
=============================================================================
