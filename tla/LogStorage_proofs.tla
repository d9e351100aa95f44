-------------------------- MODULE LogStorage_proofs --------------------------
(***************************************************************************)
(* Proofs about LogStorage, for all sets of cards and logs, any bound on   *)
(* the lines and any flush period: its types, and the safety of the        *)
(* mirrored files, the erase and the download.                             *)
(*                                                                         *)
(* The argument: the writers are those of all ready cards until the        *)
(* download closes all of them for good (OpenFiles), so no line is logged  *)
(* past a ready card; a session implies that the logger is closed          *)
(* (Sessions), so the files do not change under a transfer, and what was   *)
(* sent and what remains add up to the file (Progress).                    *)
(***************************************************************************)
EXTENDS LogStorage, TLAPS, FiniteSetTheorems

\* Copies of the files that fit the bound together with what is cached.
Fits(kept, pending) ==
    /\ kept \in Copies /\ pending \in Copies
    /\ \A c \in Cards, l \in Logs : kept[c][l] + pending[c][l] <= MaxLines

OpenFiles == writers = IF closed THEN {} ELSE FilesOf(ready)

Sessions ==
    /\ session => closed
    /\ transfer.active \/ usb.line = "END" => session

Progress ==
    transfer.active =>
        /\ transfer.card \in Cards /\ transfer.log \in Logs /\ usb.line # "END"
        /\ usb.sent + transfer.remaining = Written(transfer.card, transfer.log)

-----------------------------------------------------------------------------
(* What the operators on the copies do                                     *)

LEMMA WrittenInBounds ==
    ASSUME Fits(durable, cached), NEW c \in Cards, NEW l \in Logs
    PROVE  /\ durable[c][l] \in 0 .. MaxLines /\ cached[c][l] \in 0 .. MaxLines
           /\ Written(c, l) \in 0 .. MaxLines
  <1>1. durable[c] \in [Logs -> 0 .. MaxLines] /\ cached[c] \in [Logs -> 0 .. MaxLines]
    BY DEF Fits, Copies
  <1>2. durable[c][l] \in 0 .. MaxLines /\ cached[c][l] \in 0 .. MaxLines
    BY <1>1
  <1>3. durable[c][l] + cached[c][l] <= MaxLines
    BY DEF Fits
  <1>4. MaxLines \in Nat
    BY StorageAssumption
  <1> QED BY <1>2, <1>3, <1>4 DEF Written

LEMMA SavedFits ==
    ASSUME Fits(durable, cached), NEW S
    PROVE  Fits(Saved(S), Pending(S))
  <1>1. \A c \in Cards, l \in Logs :
           /\ Saved(S)[c][l] = IF c \in S THEN Written(c, l) ELSE durable[c][l]
           /\ Pending(S)[c][l] = IF c \in S THEN 0 ELSE cached[c][l]
    BY DEF Saved, Pending
  <1>2. MaxLines \in Nat
    BY StorageAssumption
  <1>3. Saved(S) \in Copies
    <2> SUFFICES ASSUME NEW c \in Cards
                 PROVE  (IF c \in S THEN [l \in Logs |-> Written(c, l)] ELSE durable[c])
                           \in [Logs -> 0 .. MaxLines]
      BY DEF Saved, Copies
    <2>1. \A l \in Logs : Written(c, l) \in 0 .. MaxLines
      BY WrittenInBounds
    <2> QED BY <2>1 DEF Fits, Copies
  <1>4. Pending(S) \in Copies
    <2> SUFFICES ASSUME NEW c \in Cards
                 PROVE  (IF c \in S THEN [l \in Logs |-> 0] ELSE cached[c])
                           \in [Logs -> 0 .. MaxLines]
      BY DEF Pending, Copies
    <2> QED BY <1>2 DEF Fits, Copies
  <1>5. ASSUME NEW c \in Cards, NEW l \in Logs
        PROVE  Saved(S)[c][l] + Pending(S)[c][l] <= MaxLines
    <2>1. /\ durable[c][l] \in 0 .. MaxLines /\ cached[c][l] \in 0 .. MaxLines
          /\ Written(c, l) \in 0 .. MaxLines
          /\ durable[c][l] + cached[c][l] <= MaxLines
      BY WrittenInBounds DEF Fits
    <2>2. CASE c \in S
      BY <1>1, <1>2, <2>1, <2>2
    <2>3. CASE c \notin S
      BY <1>1, <2>1, <2>3
    <2> QED BY <2>2, <2>3
  <1> QED BY <1>3, <1>4, <1>5 DEF Fits

LEMMA WithoutFits ==
    ASSUME NEW kept, NEW pending, Fits(kept, pending), NEW removed
    PROVE  Fits(Without(kept, removed), Without(pending, removed))
  <1>1. MaxLines \in Nat
    BY StorageAssumption
  <1>2. ASSUME NEW copies \in Copies PROVE Without(copies, removed) \in Copies
    <2> SUFFICES ASSUME NEW c \in Cards
                 PROVE  [l \in Logs |-> IF <<c, l>> \in removed THEN 0 ELSE copies[c][l]]
                           \in [Logs -> 0 .. MaxLines]
      BY DEF Without, Copies
    <2>1. copies[c] \in [Logs -> 0 .. MaxLines]
      BY DEF Copies
    <2> QED BY <1>1, <2>1
  <1>3. ASSUME NEW c \in Cards, NEW l \in Logs
        PROVE  Without(kept, removed)[c][l] + Without(pending, removed)[c][l] <= MaxLines
    <2>1. /\ Without(kept, removed)[c][l] = IF <<c, l>> \in removed THEN 0 ELSE kept[c][l]
          /\ Without(pending, removed)[c][l] =
                IF <<c, l>> \in removed THEN 0 ELSE pending[c][l]
      BY DEF Without
    <2>2. CASE <<c, l>> \in removed
      BY <1>1, <2>1, <2>2
    <2>3. CASE <<c, l>> \notin removed
      BY <2>1, <2>3 DEF Fits
    <2> QED BY <2>2, <2>3
  <1> QED BY <1>2, <1>3 DEF Fits

\* Nothing is written: a board that starts.
LEMMA EmptyFits ==
    Fits([c \in Cards |-> [l \in Logs |-> 0]], [c \in Cards |-> [l \in Logs |-> 0]])
  BY StorageAssumption DEF Fits, Copies

\* A line on some of the cards.
LEMMA LogFits ==
    ASSUME Fits(durable, cached), NEW log \in Logs, NEW bad, Log(log, bad)
    PROVE  Fits(durable', cached')
  <1> DEFINE good == LoggedOn(log, bad)
  <1>1. /\ durable' = durable
        /\ cached' = [c \in Cards |->
                        IF c \in good THEN [cached[c] EXCEPT ![log] = @ + 1] ELSE cached[c]]
        /\ \A c \in Cards : Written(c, log) < MaxLines
    BY DEF Log, files
  <1> HIDE DEF good
  <1>2. ASSUME NEW c \in Cards, NEW l \in Logs
        PROVE  /\ durable[c][l] \in 0 .. MaxLines
               /\ cached'[c][l] \in 0 .. MaxLines
               /\ durable[c][l] + cached'[c][l] <= MaxLines
    <2>1. /\ durable[c][l] \in 0 .. MaxLines /\ cached[c][l] \in 0 .. MaxLines
          /\ durable[c][l] + cached[c][l] <= MaxLines
      BY WrittenInBounds DEF Fits
    <2>2. CASE c \in good /\ l = log
      <3>1. cached[c] \in [Logs -> 0 .. MaxLines]
        BY DEF Fits, Copies
      <3>2. cached'[c][l] = cached[c][l] + 1
        BY <1>1, <2>2, <3>1
      <3>3. durable[c][l] + cached[c][l] < MaxLines
        BY <1>1, <2>2 DEF Written
      <3>4. MaxLines \in Nat
        BY StorageAssumption
      <3> QED BY <2>1, <3>2, <3>3, <3>4
    <2>3. CASE ~(c \in good /\ l = log)
      <3>1. cached[c] \in [Logs -> 0 .. MaxLines]
        BY DEF Fits, Copies
      <3>2. cached'[c][l] = cached[c][l]
        BY <1>1, <2>3, <3>1
      <3> QED BY <2>1, <3>2
    <2> QED BY <2>2, <2>3
  <1>3. ASSUME NEW c \in Cards PROVE cached'[c] \in [Logs -> 0 .. MaxLines]
    <2>1. cached[c] \in [Logs -> 0 .. MaxLines]
      BY DEF Fits, Copies
    <2>2. CASE c \in good
      <3>1. cached'[c] = [cached[c] EXCEPT ![log] = cached[c][log] + 1]
        BY <1>1, <2>2
      <3>2. cached'[c][log] \in 0 .. MaxLines
        BY <1>2
      <3>3. cached[c][log] + 1 \in 0 .. MaxLines
        BY <2>1, <3>1, <3>2
      <3> QED BY <2>1, <3>1, <3>3
    <2>3. CASE c \notin good
      BY <1>1, <2>1, <2>3
    <2> QED BY <2>2, <2>3
  <1>4. cached' \in Copies
    BY <1>1, <1>3 DEF Copies
  <1> QED BY <1>1, <1>2, <1>4 DEF Fits

\* Nothing but what the card keeps: the caches are lost with the power.
LEMMA KeptFits ==
    ASSUME NEW kept \in Copies
    PROVE  Fits(kept, [c \in Cards |-> [l \in Logs |-> 0]])
  <1> DEFINE nothing == [c \in Cards |-> [l \in Logs |-> 0]]
  <1>1. nothing \in Copies
    BY EmptyFits DEF Fits
  <1>2. ASSUME NEW c \in Cards, NEW l \in Logs
        PROVE  kept[c][l] + nothing[c][l] <= MaxLines
    <2>1. kept[c] \in [Logs -> 0 .. MaxLines]
      BY DEF Copies
    <2>2. kept[c][l] \in 0 .. MaxLines /\ nothing[c][l] = 0
      BY <2>1
    <2> QED BY <2>2, StorageAssumption
  <1> QED BY <1>1, <1>2 DEF Fits

-----------------------------------------------------------------------------
(* The inductive invariant                                                 *)

Storage ==
    /\ TypeOK
    /\ Fits(durable, cached) /\ OpenFiles /\ Sessions /\ Progress
    /\ CompleteCopies /\ EndMeansComplete /\ EraseIsTruthful

LEMMA InitStorage == Init => Storage
  <1> SUFFICES ASSUME Init PROVE Storage
    OBVIOUS
  <1>1. Fits(durable, cached)
    BY EmptyFits DEF Init
  <1>2. TypeOK
    <2>1. durable \in Copies /\ cached \in Copies
      BY <1>1 DEF Fits
    <2>2. transfer \in [active : BOOLEAN, card : Cards \cup {"none"}, log : Logs \cup {"none"},
                        size : 0 .. MaxLines, remaining : 0 .. MaxLines]
      BY StorageAssumption DEF Init, NoTransfer
    <2>3. usb \in [line : {"none", "READY", "ERROR", "BEGIN", "DATA", "END"},
                   sent : 0 .. MaxLines]
      BY StorageAssumption DEF Init, Quiet
    <2>4. answer \in [card : Cards \cup {"none"}, ok : BOOLEAN, unseen : SUBSET Erasable]
      BY DEF Init, Silence
    <2>5. sinceFlush \in 0 .. FlushPeriod
      BY StorageAssumption DEF Init
    <2> QED BY <2>1, <2>2, <2>3, <2>4, <2>5 DEF Init, TypeOK
  <1>3. OpenFiles /\ Sessions /\ Progress
    BY DEF Init, OpenFiles, Sessions, Progress, NoTransfer, Quiet
  <1>4. CompleteCopies /\ EndMeansComplete /\ EraseIsTruthful
    BY DEF Init, CompleteCopies, EndMeansComplete, EraseIsTruthful, Quiet, Silence
  <1> QED BY <1>1, <1>2, <1>3, <1>4 DEF Storage

\* A line logged: no ready card is left out, for all of them have their writers.
LEMMA LogStep ==
    ASSUME Storage, NEW log \in Logs, NEW bad, Log(log, bad)
    PROVE  Storage'
  <1>1. Fits(durable', cached')
    BY LogFits DEF Storage
  <1>2. ~closed /\ writers = FilesOf(ready)
    BY DEF Storage, OpenFiles, Log, Reached
  <1>3. missed' = missed
    <2>1. Reached(log) = ready
      BY <1>2 DEF Reached, FilesOf
    <2> QED BY <2>1 DEF Log, Disable, LoggedOn
  <1>4. /\ ready' = ready \ bad
        /\ writers' = FilesOf(ready')
    BY <1>2 DEF Log, Disable, FilesOf
  <1>5. TypeOK'
    BY <1>1, <1>3, <1>4 DEF Storage, TypeOK, Log, Fits, Silence
  <1>6. (OpenFiles /\ Sessions /\ Progress /\ EndMeansComplete)'
    BY <1>2, <1>4 DEF Storage, OpenFiles, Sessions, Progress, EndMeansComplete, Log
  <1>7. CompleteCopies'
    BY <1>3, <1>4 DEF Storage, CompleteCopies
  <1>8. EraseIsTruthful'
    BY DEF EraseIsTruthful, Log, Silence
  <1> QED BY <1>1, <1>5, <1>6, <1>7, <1>8 DEF Storage

LEMMA FlushStep ==
    ASSUME Storage, NEW bad, Flush(bad)
    PROVE  Storage'
  <1>1. Fits(durable', cached')
    BY SavedFits DEF Storage, Flush
  <1>2. /\ ready' = ready \ bad
        /\ writers' = FilesOf(ready')
        /\ ~closed' /\ ~session'
    BY DEF Storage, OpenFiles, Flush, Disable, FilesOf
  <1>3. TypeOK'
    BY <1>1, <1>2, StorageAssumption DEF Storage, TypeOK, Flush, Fits, Silence
  <1>4. (OpenFiles /\ Sessions /\ Progress /\ EndMeansComplete)'
    BY <1>2 DEF Storage, OpenFiles, Sessions, Progress, EndMeansComplete, Flush
  <1>5. CompleteCopies'
    BY <1>2 DEF Storage, CompleteCopies, Flush
  <1>6. EraseIsTruthful'
    BY DEF EraseIsTruthful, Flush, Silence
  <1> QED BY <1>1, <1>3, <1>4, <1>5, <1>6 DEF Storage

\* An erase: what it reports removed is gone, and the card has its writers again.
LEMMA EraseStep ==
    ASSUME Storage, NEW card \in Cards, NEW bad, NEW kept, NEW unseen, NEW lost,
           EraseStorage(card, bad, kept, unseen, lost)
    PROVE  Storage'
  <1>1. CASE closed \/ card \notin ready
    <2>1. /\ UNCHANGED <<ready, writers, durable, cached, sinceFlush, closed, session,
                         transfer, usb, missed>>
          /\ answer' = [card |-> card, ok |-> FALSE, unseen |-> {}]
      BY <1>1 DEF EraseStorage, files
    <2>2. TypeOK'
      BY <2>1 DEF Storage, TypeOK
    <2>3. (OpenFiles /\ Sessions /\ Progress /\ EndMeansComplete /\ CompleteCopies)'
      BY <2>1 DEF Storage, OpenFiles, Sessions, Progress, EndMeansComplete, CompleteCopies,
                  Written
    <2>4. EraseIsTruthful'
      BY <2>1 DEF EraseIsTruthful
    <2>5. Fits(durable', cached')
      BY <2>1 DEF Storage
    <2> QED BY <2>2, <2>3, <2>4, <2>5 DEF Storage
  <1>2. CASE ~(closed \/ card \notin ready)
    <2>1. /\ durable' = Without(Saved(Flushed(bad)), Removed(card, kept \cup unseen))
          /\ cached' = Without(Pending(Flushed(bad)), Removed(card, kept \cup unseen))
          /\ ready' = ready \ (bad \cup lost)
          /\ writers' = FilesOf(ready')
          /\ answer' = [card |-> card, ok |-> EraseSucceeded(card, kept), unseen |-> unseen]
          /\ unseen \subseteq Erasable
          /\ UNCHANGED <<sinceFlush, closed, session, transfer, usb, missed>>
          /\ ~session
      BY <1>2 DEF EraseStorage
    <2>2. Fits(durable', cached')
      BY <2>1, SavedFits, WithoutFits DEF Storage
    <2>3. TypeOK'
      BY <2>1, <2>2 DEF Storage, TypeOK, Fits, EraseSucceeded
    <2>4. (OpenFiles /\ Sessions /\ Progress /\ EndMeansComplete)'
      BY <1>2, <2>1 DEF Storage, OpenFiles, Sessions, Progress, EndMeansComplete
    <2>5. CompleteCopies'
      BY <2>1 DEF Storage, CompleteCopies
    <2>6. EraseIsTruthful'
      <3> SUFFICES ASSUME answer'.ok
                   PROVE  /\ \A l \in Erasable \ unseen :
                               durable'[card][l] + cached'[card][l] = 0
                          /\ FilesOf({card}) \subseteq writers'
        BY <2>1 DEF EraseIsTruthful, Written
      <3>1. kept = {} /\ card \in ready'
        BY <2>1 DEF EraseSucceeded
      <3>2. ASSUME NEW l \in Erasable \ unseen
            PROVE  durable'[card][l] = 0 /\ cached'[card][l] = 0
        <4>1. <<card, l>> \in Removed(card, kept \cup unseen) /\ l \in Logs
          BY <3>1, StorageAssumption DEF Removed
        <4> QED BY <2>1, <4>1 DEF Without
      <3>3. FilesOf({card}) \subseteq writers'
        BY <2>1, <3>1 DEF FilesOf
      <3> QED BY <3>2, <3>3
    <2> QED BY <2>2, <2>3, <2>4, <2>5, <2>6 DEF Storage
  <1> QED BY <1>1, <1>2

LEMMA EnterStep ==
    ASSUME Storage, NEW bad, EnterDownload(bad)
    PROVE  Storage'
  <1>1. CASE closed
    <2>1. /\ UNCHANGED <<ready, writers, durable, cached, sinceFlush, closed, transfer, missed>>
          /\ session' = TRUE /\ usb' = [usb EXCEPT !.line = "READY"]
          /\ answer' = Silence /\ ~transfer.active
      BY <1>1 DEF EnterDownload, files, Say
    <2>2. TypeOK'
      BY <2>1 DEF Storage, TypeOK, Silence
    <2>3. usb'.line = "READY"
      BY <2>1 DEF Storage, TypeOK
    <2>4. (OpenFiles /\ Sessions /\ Progress /\ EndMeansComplete /\ CompleteCopies)'
      BY <1>1, <2>1, <2>3 DEF Storage, OpenFiles, Sessions, Progress, EndMeansComplete,
                              CompleteCopies
    <2>5. EraseIsTruthful'
      BY <2>1 DEF EraseIsTruthful, Silence
    <2>6. Fits(durable', cached')
      BY <2>1 DEF Storage
    <2> QED BY <2>2, <2>4, <2>5, <2>6 DEF Storage
  <1>2. CASE ~closed
    <2>1. /\ durable' = Saved(Flushed(bad)) /\ cached' = Pending(Flushed(bad))
          /\ ready' = ready \ bad /\ writers' = {}
          /\ closed' = TRUE /\ session' = (ready' # {})
          /\ usb' = [usb EXCEPT !.line = IF ready' # {} THEN "READY" ELSE "ERROR"]
          /\ answer' = Silence /\ ~transfer.active
          /\ UNCHANGED <<sinceFlush, transfer, missed>>
      BY <1>2 DEF EnterDownload, WritersInDownload, Say
    <2>2. Fits(durable', cached')
      BY <2>1, SavedFits DEF Storage
    <2>3. TypeOK'
      BY <2>1, <2>2 DEF Storage, TypeOK, Silence, Fits
    <2>4. usb'.line \in {"READY", "ERROR"}
      BY <2>1 DEF Storage, TypeOK
    <2>5. (OpenFiles /\ Sessions /\ Progress /\ EndMeansComplete /\ CompleteCopies)'
      BY <2>1, <2>4 DEF Storage, OpenFiles, Sessions, Progress, EndMeansComplete, CompleteCopies
    <2>6. EraseIsTruthful'
      BY <2>1 DEF EraseIsTruthful, Silence
    <2> QED BY <2>2, <2>3, <2>5, <2>6 DEF Storage
  <1> QED BY <1>1, <1>2

\* The beginning of a transfer, and its refusal.
LEMMA StartStep ==
    ASSUME Storage, NEW card \in Cards, NEW log \in Logs, NEW found,
           StartTransfer(card, log, found)
    PROVE  Storage'
  <1>1. /\ UNCHANGED <<ready, writers, durable, cached, sinceFlush, closed, session, missed>>
        /\ answer' = Silence /\ ~transfer.active
    BY DEF StartTransfer, files
  <1>2. Fits(durable', cached') /\ OpenFiles' /\ CompleteCopies' /\ EraseIsTruthful'
    BY <1>1 DEF Storage, OpenFiles, CompleteCopies, EraseIsTruthful, Silence
  <1>3. CASE session /\ log \in Downloadable /\ card \in ready /\ found
    <2>1. /\ transfer' = [active |-> TRUE, card |-> card, log |-> log,
                          size |-> Written(card, log), remaining |-> Written(card, log)]
          /\ usb' = [line |-> "BEGIN", sent |-> 0]
      BY <1>3 DEF StartTransfer
    <2>2. Written(card, log) \in 0 .. MaxLines
      BY WrittenInBounds DEF Storage
    <2>3. TypeOK'
      BY <1>1, <2>1, <2>2, StorageAssumption DEF Storage, TypeOK, Silence
    <2>4. (Sessions /\ EndMeansComplete)'
      BY <1>1, <1>3, <2>1 DEF Storage, Sessions, EndMeansComplete
    <2>5. Progress'
      BY <1>1, <2>1, <2>2 DEF Progress, Written
    <2> QED BY <1>2, <2>3, <2>4, <2>5 DEF Storage
  <1>4. CASE ~(session /\ log \in Downloadable /\ card \in ready /\ found)
    <2>1. usb' = [usb EXCEPT !.line = "ERROR"] /\ UNCHANGED transfer
      BY <1>4 DEF StartTransfer, Say
    <2>2. usb'.line = "ERROR"
      BY <2>1 DEF Storage, TypeOK
    <2>3. TypeOK'
      BY <1>1, <2>1 DEF Storage, TypeOK, Silence
    <2>4. (Sessions /\ EndMeansComplete /\ Progress)'
      BY <1>1, <2>1, <2>2 DEF Storage, Sessions, EndMeansComplete, Progress
    <2> QED BY <1>2, <2>3, <2>4 DEF Storage
  <1> QED BY <1>3, <1>4

\* One step of a transfer: what was sent and what remains add up to the file.
LEMMA ContinueStep ==
    ASSUME Storage, NEW count, NEW works, ContinueTransfer(count, works)
    PROVE  Storage'
  <1>1. /\ UNCHANGED <<ready, writers, durable, cached, sinceFlush, closed, session, missed>>
        /\ answer' = Silence /\ transfer.active /\ session
    BY DEF ContinueTransfer, files, Storage, Sessions
  <1>2. Fits(durable', cached') /\ OpenFiles' /\ CompleteCopies' /\ EraseIsTruthful'
    BY <1>1 DEF Storage, OpenFiles, CompleteCopies, EraseIsTruthful, Silence
  <1>3. /\ transfer.card \in Cards /\ transfer.log \in Logs
        /\ usb.sent + transfer.remaining = Written(transfer.card, transfer.log)
        /\ Written(transfer.card, transfer.log) \in 0 .. MaxLines
        /\ usb.sent \in 0 .. MaxLines /\ transfer.remaining \in 0 .. MaxLines
        /\ MaxLines \in Nat
    BY <1>1, WrittenInBounds, StorageAssumption DEF Storage, Progress, TypeOK
  <1>4. CASE transfer.remaining = 0 /\ FinishTransfer
    <2>1. /\ usb' = [usb EXCEPT !.line = "END"]
          /\ transfer' = [transfer EXCEPT !.active = FALSE]
      BY <1>4 DEF FinishTransfer, Say
    <2>2. TypeOK'
      BY <1>1, <2>1 DEF Storage, TypeOK, Silence
    <2>3. (Sessions /\ Progress)'
      BY <1>1, <2>1 DEF Storage, TypeOK, Sessions, Progress
    <2>4. EndMeansComplete'
      <3>1. usb.sent = Written(transfer.card, transfer.log)
        BY <1>3, <1>4
      <3>2. /\ usb'.sent = usb.sent
            /\ transfer'.card = transfer.card /\ transfer'.log = transfer.log
        BY <2>1 DEF Storage, TypeOK
      <3> QED BY <1>1, <3>1, <3>2 DEF EndMeansComplete, Written
    <2> QED BY <1>2, <2>2, <2>3, <2>4 DEF Storage
  <1>5. CASE FailTransfer
    <2>1. /\ usb' = [usb EXCEPT !.line = "ERROR"]
          /\ transfer' = [transfer EXCEPT !.active = FALSE]
      BY <1>5 DEF FailTransfer, Say
    <2>2. TypeOK'
      BY <1>1, <2>1 DEF Storage, TypeOK, Silence
    <2>3. (Sessions /\ Progress /\ EndMeansComplete)'
      BY <1>1, <2>1 DEF Storage, TypeOK, Sessions, Progress, EndMeansComplete
    <2> QED BY <1>2, <2>2, <2>3 DEF Storage
  <1>6. CASE /\ count \in 1 .. transfer.remaining
             /\ transfer' = [transfer EXCEPT !.remaining = transfer.remaining - count]
             /\ usb' = [line |-> "DATA", sent |-> usb.sent + count]
    <2>1. /\ transfer.remaining - count \in 0 .. MaxLines
          /\ usb.sent + count \in 0 .. MaxLines
          /\ (usb.sent + count) + (transfer.remaining - count)
                = Written(transfer.card, transfer.log)
      BY <1>3, <1>6
    <2>2. /\ transfer'.active /\ transfer'.card = transfer.card /\ transfer'.log = transfer.log
          /\ transfer'.remaining = transfer.remaining - count
          /\ usb'.line = "DATA" /\ usb'.sent = usb.sent + count
      BY <1>1, <1>6 DEF Storage, TypeOK
    <2>3. TypeOK'
      BY <1>1, <1>6, <2>1 DEF Storage, TypeOK, Silence
    <2>4. (Sessions /\ EndMeansComplete)'
      BY <1>1, <2>2 DEF Storage, Sessions, EndMeansComplete
    <2>5. Progress'
      BY <1>1, <1>3, <2>1, <2>2 DEF Progress, Written
    <2> QED BY <1>2, <2>3, <2>4, <2>5 DEF Storage
  <1>7. \/ transfer.remaining = 0 /\ FinishTransfer
        \/ FailTransfer
        \/ /\ count \in 1 .. transfer.remaining
           /\ transfer' = [transfer EXCEPT !.remaining = transfer.remaining - count]
           /\ usb' = [line |-> "DATA", sent |-> usb.sent + count]
    BY DEF ContinueTransfer, EndOfFile
  <1> QED BY <1>4, <1>5, <1>6, <1>7

\* A board that starts with any copies is in a state of the invariant.
LEMMA StartedStorage ==
    ASSUME NEW cards \in SUBSET Cards, Started(cards), durable' \in Copies,
           cached' = [c \in Cards |-> [l \in Logs |-> 0]]
    PROVE  Storage'
  <1>1. Fits(durable', cached')
    BY KeptFits
  <1>2. TypeOK'
    <2>1. (durable \in Copies /\ cached \in Copies)'
      BY <1>1 DEF Fits
    <2>2. (transfer \in [active : BOOLEAN, card : Cards \cup {"none"}, log : Logs \cup {"none"},
                         size : 0 .. MaxLines, remaining : 0 .. MaxLines])'
      BY StorageAssumption DEF Started, NoTransfer
    <2>3. (usb \in [line : {"none", "READY", "ERROR", "BEGIN", "DATA", "END"},
                    sent : 0 .. MaxLines])'
      BY StorageAssumption DEF Started, Quiet
    <2>4. (answer \in [card : Cards \cup {"none"}, ok : BOOLEAN, unseen : SUBSET Erasable])'
      BY DEF Started, Silence
    <2>5. (sinceFlush \in 0 .. FlushPeriod)'
      BY StorageAssumption DEF Started
    <2> QED BY <2>1, <2>2, <2>3, <2>4, <2>5 DEF Started, TypeOK
  <1>3. (OpenFiles /\ Sessions /\ Progress)'
    BY DEF Started, OpenFiles, Sessions, Progress, NoTransfer, Quiet
  <1>4. (CompleteCopies /\ EndMeansComplete /\ EraseIsTruthful)'
    BY DEF Started, CompleteCopies, EndMeansComplete, EraseIsTruthful, Quiet, Silence
  <1> QED BY <1>1, <1>2, <1>3, <1>4 DEF Storage

LEMMA StepStorage == Storage /\ [Next]_vars => Storage'
  <1> SUFFICES ASSUME Storage, [Next]_vars PROVE Storage'
    OBVIOUS
  <1>1. ASSUME NEW log \in Logs, NEW bad \in SUBSET Cards, Log(log, bad) PROVE Storage'
    BY <1>1, LogStep
  <1>2. ASSUME NEW bad \in SUBSET Cards, Flush(bad) PROVE Storage'
    BY <1>2, FlushStep
  <1>3. ASSUME NEW card \in Cards, NEW bad \in SUBSET Cards, NEW lost \in SUBSET Cards,
               NEW kept \in SUBSET Erasable, NEW unseen \in SUBSET Erasable,
               EraseStorage(card, bad, kept, unseen, lost)
        PROVE  Storage'
    BY <1>3, EraseStep
  <1>4. ASSUME NEW bad \in SUBSET Cards, EnterDownload(bad) PROVE Storage'
    BY <1>4, EnterStep
  <1>5. ASSUME NEW card \in Cards, NEW log \in Logs, NEW found \in BOOLEAN,
               StartTransfer(card, log, found)
        PROVE  Storage'
    BY <1>5, StartStep
  <1>6. ASSUME NEW count \in 1 .. MaxLines, NEW works \in BOOLEAN,
               ContinueTransfer(count, works)
        PROVE  Storage'
    BY <1>6, ContinueStep
  <1>7. CASE Tick
    <2>1. TypeOK'
      BY <1>7, StorageAssumption DEF Tick, Storage, TypeOK, files, Silence
    <2>2. (OpenFiles /\ Sessions /\ Progress /\ EndMeansComplete /\ CompleteCopies)'
      BY <1>7 DEF Tick, Storage, OpenFiles, Sessions, Progress, EndMeansComplete,
                  CompleteCopies, Written, files
    <2>3. EraseIsTruthful' /\ Fits(durable', cached')
      BY <1>7 DEF Tick, Storage, EraseIsTruthful, Silence, files
    <2> QED BY <2>1, <2>2, <2>3 DEF Storage
  <1>8. ASSUME NEW cards \in SUBSET Cards, Restart(cards) PROVE Storage'
    <2>1. durable' \in Copies
      BY <1>8 DEF Restart
    <2> QED BY <1>8, <2>1, StartedStorage DEF Restart
  <1>9. ASSUME NEW card \in Cards, NEW left \in SUBSET Erasable, NEW cards \in SUBSET Cards,
               PowerLossDuringErase(card, left, cards)
        PROVE  Storage'
    <2>1. durable' \in Copies
      <3>1. Fits(Saved(Flushed({})), Pending(Flushed({})))
        BY SavedFits DEF Storage
      <3>2. Fits(Without(Saved(Flushed({})), Removed(card, left)),
                 Without(Pending(Flushed({})), Removed(card, left)))
        BY <3>1, WithoutFits
      <3> QED BY <1>9, <3>2 DEF Fits, PowerLossDuringErase
    <2> QED BY <1>9, <2>1, StartedStorage DEF PowerLossDuringErase
  <1>10. CASE UNCHANGED vars
    BY <1>10 DEF vars, files, Storage, TypeOK, Fits, OpenFiles, Sessions, Progress,
                 CompleteCopies, EndMeansComplete, EraseIsTruthful, Written
  <1> QED BY <1>1, <1>2, <1>3, <1>4, <1>5, <1>6, <1>7, <1>8, <1>9, <1>10 DEF Next

-----------------------------------------------------------------------------
(* Theorems                                                                *)

THEOREM StorageInvariant == Spec => []Storage
  BY InitStorage, StepStorage, PTL DEF Spec

\* The variables of the logger and of the download keep their types.
THEOREM StorageTypeCorrect == Spec => []TypeOK
  <1>1. Storage => TypeOK
    BY DEF Storage
  <1> QED BY <1>1, StorageInvariant, PTL

\* The failure of a card never costs the other one a line.
THEOREM CopiesAreComplete == Spec => []CompleteCopies
  <1>1. Storage => CompleteCopies
    BY DEF Storage
  <1> QED BY <1>1, StorageInvariant, PTL

\* The file system is never read over USB with a writer open.
THEOREM DownloadOwnsTheFiles == Spec => []NoWriterDuringDownload
  <1>1. Storage => NoWriterDuringDownload
    BY DEF Storage, NoWriterDuringDownload, Sessions, OpenFiles
  <1> QED BY <1>1, StorageInvariant, PTL

\* FILE_END follows all lines of the file.
THEOREM DownloadsAreComplete == Spec => []EndMeansComplete
  <1>1. Storage => EndMeansComplete
    BY DEF Storage
  <1> QED BY <1>1, StorageInvariant, PTL

\* An erase that reports success removed every recording its card showed it, and
\* the card logs on.
THEOREM ErasesAreTruthful == Spec => []EraseIsTruthful
  <1>1. Storage => EraseIsTruthful
    BY DEF Storage
  <1> QED BY <1>1, StorageInvariant, PTL

-----------------------------------------------------------------------------
(* Only an erase destroys                                                  *)

Destroyed == {f \in FilesOf(Cards) : durable'[f[1]][f[2]] < durable[f[1]][f[2]]}

DestroysByErase ==
    /\ \A f \in Destroyed : f[2] \in Erasable /\ durable'[f[1]][f[2]] = 0
    /\ Cardinality({f[1] : f \in Destroyed}) <= 1
    /\ Destroyed # {} => ~closed

\* A step that shortens no file destroys nothing.
LEMMA NothingDestroyed ==
    ASSUME Storage,
           \A c \in Cards, l \in Logs :
              durable'[c][l] \in Int /\ durable'[c][l] >= durable[c][l]
    PROVE  DestroysByErase
  <1>1. Destroyed = {}
    <2> SUFFICES ASSUME NEW f \in Destroyed PROVE FALSE
      OBVIOUS
    <2>1. PICK c \in Cards, l \in Logs : f = <<c, l>>
      BY DEF Destroyed, FilesOf
    <2>2. durable'[c][l] < durable[c][l]
      BY <2>1 DEF Destroyed
    <2>3. durable[c][l] \in 0 .. MaxLines
      BY WrittenInBounds DEF Storage
    <2> QED BY <2>2, <2>3
  <1>2. {f[1] : f \in Destroyed} = {}
    BY <1>1
  <1> QED BY <1>1, <1>2, FS_EmptySet DEF DestroysByErase

\* Saving the caches shortens no file.
LEMMA SavedIsLonger ==
    ASSUME Storage, NEW S, NEW c \in Cards, NEW l \in Logs
    PROVE  Saved(S)[c][l] \in Int /\ Saved(S)[c][l] >= durable[c][l]
  <1>1. /\ durable[c][l] \in 0 .. MaxLines /\ cached[c][l] \in 0 .. MaxLines
        /\ Written(c, l) \in 0 .. MaxLines
    BY WrittenInBounds DEF Storage
  <1>2. Written(c, l) >= durable[c][l]
    BY <1>1 DEF Written
  <1>3. Saved(S)[c][l] = IF c \in S THEN Written(c, l) ELSE durable[c][l]
    BY DEF Saved
  <1> QED BY <1>1, <1>2, <1>3

\* The removals of an erase hit recordings of its card only.
LEMMA ErasedOnly ==
    ASSUME Storage, NEW S, NEW card \in Cards, NEW left, ~closed,
           durable' = Without(Saved(S), Removed(card, left))
    PROVE  DestroysByErase
  <1>1. ASSUME NEW f \in Destroyed
        PROVE  f[1] = card /\ f[2] \in Erasable /\ durable'[f[1]][f[2]] = 0
    <2>1. PICK c \in Cards, l \in Logs : f = <<c, l>>
      BY DEF Destroyed, FilesOf
    <2>2. durable'[c][l] < durable[c][l]
      BY <2>1 DEF Destroyed
    <2>3. durable'[c][l] = IF <<c, l>> \in Removed(card, left) THEN 0 ELSE Saved(S)[c][l]
      BY DEF Without
    <2>4. <<c, l>> \in Removed(card, left)
      <3>1. durable[c][l] \in 0 .. MaxLines
        BY WrittenInBounds DEF Storage
      <3>2. Saved(S)[c][l] \in Int /\ Saved(S)[c][l] >= durable[c][l]
        BY SavedIsLonger
      <3> QED BY <2>2, <2>3, <3>1, <3>2
    <2>5. c = card /\ l \in Erasable
      BY <2>4 DEF Removed
    <2> QED BY <2>1, <2>3, <2>4, <2>5
  <1>2. Cardinality({f[1] : f \in Destroyed}) <= 1
    <2>1. {f[1] : f \in Destroyed} \subseteq {card}
      BY <1>1
    <2>2. IsFiniteSet({card}) /\ Cardinality({card}) = 1
      BY FS_Singleton
    <2>3. Cardinality({f[1] : f \in Destroyed}) <= Cardinality({card})
      BY <2>1, <2>2, FS_Subset
    <2> QED BY <2>2, <2>3
  <1> QED BY <1>1, <1>2 DEF DestroysByErase

LEMMA StepDestroysByErase == Storage /\ [Next]_vars => DestroysByErase \/ UNCHANGED vars
  <1> SUFFICES ASSUME Storage, Next PROVE DestroysByErase
    OBVIOUS
  <1>1. ASSUME UNCHANGED durable PROVE DestroysByErase
    <2>1. \A c \in Cards, l \in Logs : durable[c][l] \in Int
      BY WrittenInBounds DEF Storage
    <2> QED BY <1>1, <2>1, NothingDestroyed
  <1>2. ASSUME NEW S, durable' = Saved(S) PROVE DestroysByErase
    BY <1>2, SavedIsLonger, NothingDestroyed
  <1>3. CASE \E log \in Logs, bad \in SUBSET Cards : Log(log, bad)
    BY <1>1, <1>3 DEF Log
  <1>4. CASE \E bad \in SUBSET Cards : Flush(bad)
    BY <1>2, <1>4 DEF Flush
  <1>5. ASSUME NEW card \in Cards, NEW bad, NEW lost, NEW kept, NEW unseen,
               EraseStorage(card, bad, kept, unseen, lost)
        PROVE  DestroysByErase
    <2>1. CASE closed \/ card \notin ready
      BY <1>1, <1>5, <2>1 DEF EraseStorage, files
    <2>2. CASE ~(closed \/ card \notin ready)
      BY <1>5, <2>2, ErasedOnly DEF EraseStorage
    <2> QED BY <2>1, <2>2
  <1>6. ASSUME NEW bad, EnterDownload(bad) PROVE DestroysByErase
    <2>1. CASE closed
      BY <1>1, <1>6, <2>1 DEF EnterDownload, files
    <2>2. CASE ~closed
      BY <1>2, <1>6, <2>2 DEF EnterDownload
    <2> QED BY <2>1, <2>2
  <1>7. CASE \E card \in Cards, log \in Logs, found \in BOOLEAN : StartTransfer(card, log, found)
    BY <1>1, <1>7 DEF StartTransfer, files
  <1>8. CASE \E count \in 1 .. MaxLines, works \in BOOLEAN : ContinueTransfer(count, works)
    BY <1>1, <1>8 DEF ContinueTransfer, files
  <1>9. CASE Tick
    BY <1>1, <1>9 DEF Tick, files
  <1>10. ASSUME NEW cards, Restart(cards) PROVE DestroysByErase
    <2>1. PICK kept \in Copies :
             /\ \A c \in Cards, l \in Logs : kept[c][l] \in durable[c][l] .. Written(c, l)
             /\ durable' = kept
      BY <1>10 DEF Restart
    <2> QED BY <2>1, NothingDestroyed
  <1>11. ASSUME NEW card \in Cards, NEW left, NEW cards,
                PowerLossDuringErase(card, left, cards)
         PROVE  DestroysByErase
    BY <1>11, ErasedOnly DEF PowerLossDuringErase
  <1> QED BY <1>3, <1>4, <1>5, <1>6, <1>7, <1>8, <1>9, <1>10, <1>11 DEF Next

\* Only an erase destroys what a card keeps, on one card and never while the
\* download owns the files.
THEOREM OnlyErasesDestroy == Spec => OnlyEraseDestroys
  <1>1. Storage /\ [Next]_vars =>
          [LET gone == {f \in FilesOf(Cards) : durable'[f[1]][f[2]] < durable[f[1]][f[2]]}
           IN  /\ \A f \in gone : f[2] \in Erasable /\ durable'[f[1]][f[2]] = 0
               /\ Cardinality({f[1] : f \in gone}) <= 1
               /\ gone # {} => ~closed]_vars
    BY StepDestroysByErase DEF DestroysByErase, Destroyed
  <1> QED BY <1>1, StorageInvariant, PTL DEF Spec, OnlyEraseDestroys
=============================================================================
