----------------------------- MODULE LogStorage -----------------------------
(***************************************************************************)
(* The mirrored CSV logs of a board and their two readers: the erase       *)
(* command and the USB download (src/src/logger.cpp,                       *)
(* src/src/storage_download.cpp, loop in src/src/main.cpp).                *)
(*                                                                         *)
(* A file is the number of its lines, those the card keeps without power   *)
(* (durable) and those in its caches (cached). Every access to a card may  *)
(* fail: "bad" is the set of cards that fail the accesses of an action.    *)
(* Headers, the listing of files and the error counters are left out.      *)
(***************************************************************************)
EXTENDS Integers, FiniteSets

CONSTANTS
    Cards,         \* LoggerStorage: internal SD and XTSD backup
    Logs,          \* log_files
    Erasable,      \* the files logger_erase_storage removes
    Downloadable,  \* known_log_files of the download protocol
    FlushPeriod,   \* SD_FLUSH_PERIOD_MS
    MaxLines       \* bound: lines of a file

ASSUME StorageAssumption ==
    /\ Erasable \subseteq Logs /\ Downloadable \subseteq Logs
    /\ FlushPeriod \in Nat \ {0} /\ MaxLines \in Nat

VARIABLES
    ready,       \* cards whose internal_sd_ready / backup_sd_ready is set
    writers,     \* the open files <<card, log>>
    durable, cached,
    sinceFlush,  \* since last_flush_time, up to FlushPeriod
    closed,      \* download_mode of logger.cpp
    session,     \* download_mode of storage_download.cpp: loop does nothing else
    transfer,    \* transfer_active, _storage, _filename, _size, _remaining
    usb,         \* the last protocol line and the lines of the file sent so far
    answer,      \* the result of an erase, in the step that gives it, with the
                 \* history of the recordings it did not see
    missed       \* history: files a line was logged past while their card
                 \* stayed ready, since the board started

files == <<durable, cached>>
vars == <<ready, writers, files, sinceFlush, closed, session, transfer, usb,
          answer, missed>>

Copies == [Cards -> [Logs -> 0 .. MaxLines]]

Silence == [card |-> "none", ok |-> FALSE, unseen |-> {}]   \* no erase was answered
Quiet == [line |-> "none", sent |-> 0]
NoTransfer == [active |-> FALSE, card |-> "none", log |-> "none", size |-> 0, remaining |-> 0]

FilesOf(cards) == cards \X Logs

\* logger_init found these cards; storage_download starts idle.
Started(cards) ==
    /\ ready' = cards /\ writers' = FilesOf(cards)
    /\ sinceFlush' = 0 /\ closed' = FALSE /\ session' = FALSE
    /\ transfer' = NoTransfer /\ usb' = Quiet
    /\ answer' = Silence /\ missed' = {}

Init ==
    /\ ready \in SUBSET Cards /\ writers = FilesOf(ready)
    /\ durable = [c \in Cards |-> [l \in Logs |-> 0]] /\ cached = durable
    /\ sinceFlush = 0 /\ closed = FALSE /\ session = FALSE
    /\ transfer = NoTransfer /\ usb = Quiet /\ answer = Silence /\ missed = {}

-----------------------------------------------------------------------------
(* The mirrored files *)

Written(card, log) == durable[card][log] + cached[card][log]

\* disable_internal_sd, disable_backup_sd: all files of the card are closed.
Disable(bad) ==
    /\ ready' = ready \ bad
    /\ writers' = writers \ FilesOf(bad)

\* The cards a write to the log reaches.
Reached(log) == {c \in ready : <<c, log>> \in writers}

\* Mutant of LoggedOn: the second card is written when the first one failed.
LoggedOnOne(log, bad) ==
    LET good == Reached(log) \ bad
    IN  IF good = {} THEN {} ELSE {CHOOSE c \in good : TRUE}

\* MirroredLogFile::write: every card that does not fail gets the line.
LoggedOn(log, bad) == Reached(log) \ bad

\* logger_log_*: a line of a log with an open file; a card that fails it is
\* disabled for good, the other one goes on.
Log(log, bad) ==
    /\ ~session
    /\ Reached(log) # {} /\ bad \subseteq Reached(log)
    /\ \A c \in Cards : Written(c, log) < MaxLines
    /\ Disable(bad)
    /\ cached' = [c \in Cards |->
                    IF c \in LoggedOn(log, bad) THEN [cached[c] EXCEPT ![log] = @ + 1]
                    ELSE cached[c]]
    /\ missed' = missed \cup {<<c, log>> : c \in ready' \ LoggedOn(log, bad)}
    /\ answer' = Silence
    /\ UNCHANGED <<durable, sinceFlush, closed, session, transfer, usb>>

\* What the files of the flushed cards keep.
Saved(cards) ==
    [c \in Cards |-> IF c \in cards THEN [l \in Logs |-> Written(c, l)] ELSE durable[c]]
Pending(cards) ==
    [c \in Cards |-> IF c \in cards THEN [l \in Logs |-> 0] ELSE cached[c]]

\* Mutant of Flushed: the other card is flushed only when the first one fails.
FlushedFirst(bad) ==
    LET good == ready \ bad IN IF good = {} THEN {} ELSE {CHOOSE c \in good : TRUE}

\* flush_all_files: MirroredLogFile::flush of every open file.
Flushed(bad) == {c \in ready \ bad : FilesOf({c}) \subseteq writers}

\* logger_update
Flush(bad) ==
    /\ ~session /\ ~closed /\ sinceFlush >= FlushPeriod
    /\ bad \subseteq ready
    /\ sinceFlush' = 0
    /\ durable' = Saved(Flushed(bad)) /\ cached' = Pending(Flushed(bad))
    /\ Disable(bad)
    /\ answer' = Silence
    /\ UNCHANGED <<closed, session, transfer, usb, missed>>

-----------------------------------------------------------------------------
(* Erase *)

\* Mutant of Removed: the files go from both cards.
RemovedFromBoth(card, left) == FilesOf(Cards) \ (Cards \X (left \cup (Logs \ Erasable)))

\* The recordings of one card, but for those that are left.
Removed(card, left) == {card} \X (Erasable \ left)

Without(copies, removed) ==
    [c \in Cards |-> [l \in Logs |-> IF <<c, l>> \in removed THEN 0 ELSE copies[c][l]]]

\* Mutant of EraseSucceeded: a file that could not be removed is forgotten.
EraseSucceededIfReady(card, kept) == card \in ready'

\* What was not seen counts as removed: removed = !exists(f) || remove(f).
EraseSucceeded(card, kept) == kept = {} /\ card \in ready'

\* logger_erase_storage: flush and close everything, remove the recordings of
\* the card, reopen what is ready. "bad" fail the flush, "lost" the reopening;
\* of the recordings remove() fails "kept", and exists() fails "unseen".
EraseStorage(card, bad, kept, unseen, lost) ==
    /\ ~session
    /\ bad \subseteq ready /\ lost \subseteq ready \ bad
    /\ kept \subseteq Erasable /\ unseen \subseteq Erasable \ kept
    /\ IF closed \/ card \notin ready
       THEN /\ UNCHANGED <<ready, writers, files>>
            /\ answer' = [card |-> card, ok |-> FALSE, unseen |-> {}]
       ELSE /\ durable' = Without(Saved(Flushed(bad)), Removed(card, kept \cup unseen))
            /\ cached' = Without(Pending(Flushed(bad)), Removed(card, kept \cup unseen))
            /\ ready' = ready \ (bad \cup lost)
            /\ writers' = FilesOf(ready')
            /\ answer' = [card |-> card, ok |-> EraseSucceeded(card, kept), unseen |-> unseen]
    /\ UNCHANGED <<sinceFlush, closed, session, transfer, usb, missed>>

-----------------------------------------------------------------------------
(* The USB download *)

Say(line) == usb' = [usb EXCEPT !.line = line]

\* Mutant of WritersInDownload: the files stay open.
WritersStayOpen(bad) == writers \ FilesOf(bad)

\* close_all_files
WritersInDownload(bad) == {}

\* DOWNLOAD,ENTER: without a card the logs stay closed and loop goes on; a
\* second request is then granted.
EnterDownload(bad) ==
    /\ ~transfer.active /\ bad \subseteq ready
    /\ IF closed
       THEN session' = TRUE /\ Say("READY") /\ UNCHANGED <<ready, writers, files, closed>>
       ELSE /\ durable' = Saved(Flushed(bad)) /\ cached' = Pending(Flushed(bad))
            /\ ready' = ready \ bad
            /\ writers' = WritersInDownload(bad)
            /\ closed' = TRUE
            /\ session' = (ready' # {})
            /\ Say(IF ready' # {} THEN "READY" ELSE "ERROR")
    /\ answer' = Silence
    /\ UNCHANGED <<sinceFlush, transfer, missed>>

\* DOWNLOAD,GET of a known file: "found" says whether the card opens it.
StartTransfer(card, log, found) ==
    /\ ~transfer.active
    /\ answer' = Silence
    /\ IF session /\ log \in Downloadable /\ card \in ready /\ found
       THEN /\ transfer' = [active |-> TRUE, card |-> card, log |-> log,
                            size |-> Written(card, log), remaining |-> Written(card, log)]
            /\ usb' = [line |-> "BEGIN", sent |-> 0]
       ELSE Say("ERROR") /\ UNCHANGED transfer
    /\ UNCHANGED <<ready, writers, files, sinceFlush, closed, session, missed>>

FinishTransfer ==
    /\ Say("END")
    /\ transfer' = [transfer EXCEPT !.active = FALSE]

FailTransfer ==
    /\ Say("ERROR")
    /\ transfer' = [transfer EXCEPT !.active = FALSE]

\* Mutant of EndOfFile: an early end of the file is taken for its end.
EndOfFileOrFailure(works) == transfer.remaining = 0 \/ ~works

EndOfFile(works) == transfer.remaining = 0

\* Mutant of ContinueTransfer: a failed read is tried again.
RetryTransfer(count, works) ==
    /\ transfer.active
    /\ works \/ transfer.remaining = 0
    /\ answer' = Silence
    /\ IF transfer.remaining = 0 THEN FinishTransfer
       ELSE /\ count \in 1 .. transfer.remaining
            /\ transfer' = transfer
            /\ usb' = [line |-> "DATA", sent |-> usb.sent]
    /\ UNCHANGED <<ready, writers, files, sinceFlush, closed, session, missed>>

\* continue_transfer, with room for "count" lines in the USB buffer: reading
\* and sending works or ends the transfer.
ContinueTransfer(count, works) ==
    /\ transfer.active
    /\ answer' = Silence
    /\ \/ EndOfFile(works) /\ FinishTransfer
       \/ ~EndOfFile(works) /\ ~works /\ FailTransfer
       \/ /\ ~EndOfFile(works) /\ works /\ count \in 1 .. transfer.remaining
          /\ transfer' = [transfer EXCEPT !.remaining = @ - count]
          /\ usb' = [line |-> "DATA", sent |-> usb.sent + count]
    /\ UNCHANGED <<ready, writers, files, sinceFlush, closed, session, missed>>

-----------------------------------------------------------------------------
(* Time and power *)

Tick ==
    /\ sinceFlush < FlushPeriod
    /\ sinceFlush' = sinceFlush + 1
    /\ answer' = Silence
    /\ UNCHANGED <<ready, writers, files, closed, session, transfer, usb, missed>>

\* The board starts again. Of what was cached the cards kept any beginning;
\* any of the cards may be found.
Restart(cards) ==
    /\ \E kept \in Copies :
          /\ \A c \in Cards, l \in Logs : kept[c][l] \in durable[c][l] .. Written(c, l)
          /\ durable' = kept
    /\ cached' = [c \in Cards |-> [l \in Logs |-> 0]]
    /\ Started(cards)

\* The power fails while logger_erase_storage removes files, one by one.
PowerLossDuringErase(card, left, cards) ==
    /\ ~session /\ ~closed /\ card \in ready
    /\ durable' = Without(Saved(Flushed({})), Removed(card, left))
    /\ cached' = [c \in Cards |-> [l \in Logs |-> 0]]
    /\ Started(cards)

Next ==
    \/ \E log \in Logs, bad \in SUBSET Cards : Log(log, bad)
    \/ \E bad \in SUBSET Cards : Flush(bad)
    \/ \E card \in Cards, bad, lost \in SUBSET Cards, kept, unseen \in SUBSET Erasable :
          EraseStorage(card, bad, kept, unseen, lost)
    \/ \E bad \in SUBSET Cards : EnterDownload(bad)
    \/ \E card \in Cards, log \in Logs, found \in BOOLEAN : StartTransfer(card, log, found)
    \/ \E count \in 1 .. MaxLines, works \in BOOLEAN : ContinueTransfer(count, works)
    \/ Tick
    \/ \E cards \in SUBSET Cards : Restart(cards)
    \/ \E card \in Cards, left \in SUBSET Erasable, cards \in SUBSET Cards :
          PowerLossDuringErase(card, left, cards)

Spec == Init /\ [][Next]_vars

\* loop runs, time passes, and the host reads what the board sends.
FairSpec ==
    /\ Spec
    /\ WF_vars(\E bad \in SUBSET Cards : Flush(bad))
    /\ WF_vars(Tick)
    /\ WF_vars(\E count \in 1 .. MaxLines, works \in BOOLEAN : ContinueTransfer(count, works))

-----------------------------------------------------------------------------
(* Properties *)

\* The variables keep their types, and only ready cards have open files.
TypeOK ==
    /\ ready \subseteq Cards /\ writers \subseteq FilesOf(ready)
    /\ durable \in Copies /\ cached \in Copies
    /\ sinceFlush \in 0 .. FlushPeriod
    /\ closed \in BOOLEAN /\ session \in BOOLEAN
    /\ transfer \in [active : BOOLEAN, card : Cards \cup {"none"}, log : Logs \cup {"none"},
                     size : 0 .. MaxLines, remaining : 0 .. MaxLines]
    /\ usb \in [line : {"none", "READY", "ERROR", "BEGIN", "DATA", "END"}, sent : 0 .. MaxLines]
    /\ answer \in [card : Cards \cup {"none"}, ok : BOOLEAN, unseen : SUBSET Erasable]
    /\ missed \subseteq FilesOf(Cards)

\* As long as a card is ready it has every line that was logged: the failure of
\* one card never costs the other one a line.
CompleteCopies == \A c \in ready, l \in Logs : <<c, l>> \notin missed

\* No writer is open while the file system is read over USB.
NoWriterDuringDownload == session \/ transfer.active => writers = {}

\* FILE_END is sent only after all lines the file has.
EndMeansComplete ==
    usb.line = "END" => usb.sent = Written(transfer.card, transfer.log)

\* An erase that reports success left no recording of the card but those the
\* card denied having (a failed exists()), and the card takes new ones. A failed
\* flush, removal or reopening is never a success.
EraseIsTruthful ==
    answer.ok => /\ \A l \in Erasable \ answer.unseen : Written(answer.card, l) = 0
                 /\ FilesOf({answer.card}) \subseteq writers

\* Only an erase destroys what a card keeps: it empties recordings, of one card,
\* and never while the download owns the files.
OnlyEraseDestroys ==
    [][LET gone == {f \in FilesOf(Cards) : durable'[f[1]][f[2]] < durable[f[1]][f[2]]}
       IN  /\ \A f \in gone : f[2] \in Erasable /\ durable'[f[1]][f[2]] = 0
           /\ Cardinality({f[1] : f \in gone}) <= 1
           /\ gone # {} => ~closed]_vars

\* A logged line reaches the card for good unless the card fails or the power
\* does: the periodic flush is neither skipped nor starved.
LinesBecomeDurable ==
    \A c \in Cards, l \in Logs :
        cached[c][l] > 0 ~> (cached[c][l] = 0 \/ c \notin ready)

\* A transfer ends, with its file or with an error.
TransferEnds == transfer.active ~> ~transfer.active
=============================================================================
