----------------------------- MODULE LogStream -----------------------------
(***************************************************************************)
(* The live log of a run: service/tiny_log.go, log_manager.go and          *)
(* log_cleanup.go, with the readers of handler/log.go.                     *)
(*                                                                         *)
(* A run writes its output to a TinyLog, which passes it on to whoever     *)
(* watches, and to a log file of bounded size.  When the run has ended the *)
(* TinyLog is closed and what it holds goes into the row of the run.  Nobody *)
(* waits for those who read the output of hooks and inline scripts: they may *)
(* come with more at any time.                                             *)
(*                                                                         *)
(* The output is a sequence of characters of two bytes.  It comes in lines, *)
(* but the last one, and any that is not UTF-8, may end inside what looks   *)
(* like a character: a chunk is cut anywhere.                               *)
(***************************************************************************)
EXTENDS Naturals, Sequences

CONSTANTS
    LogReaders, \* the open log windows
    Characters, \* how many characters the run writes
    MaxChunk,   \* no chunk has more bytes
    Room,       \* the bytes that fit where a cut character is kept
    ChannelCap, \* how many chunks wait for a reader
    FileCap,    \* maxSize of a log file
    PollLimit,  \* how often a window asks for a live log that does not come
    MaxReconnects \* how often it comes back

VARIABLES
    logRun,  \* the run: its stage, how much is written (when the TinyLog closed), and how cut
    tl,      \* its TinyLog
    logRow,  \* its row in task_logs
    logFile, \* its file: whether it is open, the bytes written since, and all that are in it
    windows  \* the log windows

logVars == <<logRun, tl, logRow, logFile, windows>>

ASSUME LogAssumption ==
    /\ {Characters, MaxChunk, Room, ChannelCap, FileCap, PollLimit, MaxReconnects} \subseteq Nat

Size == 2 * Characters
Output == [i \in 1..Size |-> i]
IsFirstByte(b) == b % 2 = 1

LogInit ==
    /\ logRun \in [stage : {"start"}, written : {0}, atClose : {0}, cuts : {0},
                  quiet : BOOLEAN, old : BOOLEAN]
    /\ tl = [state |-> "none", listed |-> FALSE, kept |-> <<>>, room |-> 0, data |-> <<>>]
    /\ logRow = [exists |-> FALSE, content |-> <<>>, filled |-> FALSE, done |-> FALSE]
    /\ logFile = [exists |-> FALSE, open |-> FALSE, size |-> 0, data |-> <<>>]
    /\ windows = [r \in LogReaders |->
                    [pc |-> "off", shown |-> <<>>, chan |-> <<>>, closed |-> FALSE,
                     polls |-> 0, tries |-> 0]]

IsRunning == logRun.stage \in {"listed", "created", "writing", "ending", "closed", "removed"}

-----------------------------------------------------------------------------
(* The run                                                                  *)

\* The task is running before it has a live log, and has one before it has a row.
SetRunning ==
    /\ logRun.stage = "start" /\ logRun' = [logRun EXCEPT !.stage = "listed"]
    /\ UNCHANGED <<tl, logRow, logFile, windows>>

Create ==
    /\ logRun.stage = "listed" /\ logRun' = [logRun EXCEPT !.stage = "created"]
    /\ tl' = IF logRun.quiet THEN tl ELSE [tl EXCEPT !.state = "open", !.listed = TRUE]
    /\ UNCHANGED <<logRow, logFile, windows>>

CreateRow ==
    /\ logRun.stage = "created" /\ logRun' = [logRun EXCEPT !.stage = "writing"]
    /\ logRow' = [logRow EXCEPT !.exists = TRUE]
    /\ UNCHANGED <<tl, logFile, windows>>

\* append and remainder[:0]: what fits stands where the cut character is kept, and is
\* overwritten there by the next one, by the same call or by a later one.
Over(old, new) == [i \in DOMAIN old |-> IF i <= Len(new) THEN new[i] ELSE old[i]]

CutOff(data) == IF data # <<>> /\ IsFirstByte(data[Len(data)]) THEN <<data[Len(data)]>> ELSE <<>>

Written(p) ==
    LET data == tl.kept \o p
        shared == Len(data) <= tl.room
        kept == CutOff(data)
        out == SubSeq(data, 1, Len(data) - Len(kept))
    IN  [kept |-> kept, shared |-> shared, all |-> data,
         out |-> IF shared /\ kept # <<>> THEN Over(out, kept) ELSE out,
         room |-> IF kept # <<>> /\ tl.room = 0 THEN Room ELSE tl.room]

\* broadcast: a reader whose channel is full misses the chunk.
broadcast(w, write) ==
    LET place == IF write.shared THEN Over(write.all, write.kept) ELSE write.kept
        old == [k \in DOMAIN w.chan |->
                  IF w.chan[k].shared THEN [w.chan[k] EXCEPT !.bytes = Over(@, place)] ELSE w.chan[k]]
    IN  [w EXCEPT !.chan = IF w.pc = "loop" /\ Len(w.chan) < ChannelCap /\ write.out # <<>>
                           THEN Append(old, [bytes |-> write.out, shared |-> write.shared])
                           ELSE old]

\* LogStreamManager.Write: opens the file if need be, and counts from nothing; adds nothing
\* once the file is full, and nothing that can be found if it was deleted while open.
FileWith(p) ==
    LET size == IF logFile.open THEN logFile.size ELSE 0
        there == logFile.exists \/ ~logFile.open
    IN  [exists |-> there, open |-> TRUE, size |-> IF size >= FileCap THEN size ELSE size + Len(p),
         data |-> IF size >= FileCap \/ ~there THEN logFile.data ELSE logFile.data \o p]

\* By the run, or by a reader of a hook's output, for as long as there is one: a TinyLog that
\* is closed refuses the chunk, the file takes it.
Write(n) ==
    LET p == SubSeq(Output, logRun.written + 1, logRun.written + n)
        write == Written(p)
    IN  /\ logRun.stage \notin {"start", "listed", "created"} /\ logRun.written + n <= Size
        /\ IF tl.state = "open"
           THEN /\ tl' = [tl EXCEPT !.kept = write.kept, !.room = write.room, !.data = @ \o write.out]
                /\ windows' = [r \in LogReaders |-> broadcast(windows[r], write)]
                /\ logRun' = [logRun EXCEPT !.written = @ + n, !.cuts = @ + Len(CutOff(p))]
           ELSE /\ logRun' = [logRun EXCEPT !.written = @ + n]
                /\ UNCHANGED <<tl, windows>>
        /\ logFile' = FileWith(p)
        /\ UNCHANGED logRow

\* The function of the run returns: first its file is closed.
CloseStream ==
    /\ logRun.stage = "writing" /\ logRun' = [logRun EXCEPT !.stage = "ending"]
    /\ logFile' = [logFile EXCEPT !.open = FALSE, !.size = 0]
    /\ UNCHANGED <<tl, logRow, windows>>

\* Close: the rest is written, and the channels of the readers are closed.
CloseAndForget ==
    /\ logRun.stage = "ending"
    /\ logRun' = [logRun EXCEPT !.stage = "closed", !.atClose = logRun.written]
    /\ tl' = IF tl.state = "open" THEN [tl EXCEPT !.state = "closed"] ELSE tl
    /\ UNCHANGED <<logRow, logFile, windows>>

CloseTinyLog ==
    /\ logRun.stage = "ending"
    /\ logRun' = [logRun EXCEPT !.stage = "closed", !.atClose = logRun.written]
    /\ tl' = IF tl.state = "open" THEN [tl EXCEPT !.state = "closed", !.data = @ \o tl.kept] ELSE tl
    /\ windows' = [r \in LogReaders |->
                     [windows[r] EXCEPT !.closed = @ \/ windows[r].pc = "loop"]]
    /\ UNCHANGED <<logRow, logFile>>

Remove ==
    /\ logRun.stage = "closed" /\ logRun' = [logRun EXCEPT !.stage = "removed"]
    /\ tl' = [tl EXCEPT !.listed = FALSE] /\ UNCHANGED <<logRow, logFile, windows>>

\* A row that the cleanup has deleted is not written.  What a TinyLog held is compressed, and
\* never empty then.
SettleLog ==
    /\ logRun.stage = "removed" /\ logRun' = [logRun EXCEPT !.stage = "settled"]
    /\ logRow' = IF logRow.exists
               THEN [logRow EXCEPT !.content = tl.data, !.filled = tl.state = "closed", !.done = TRUE]
               ELSE logRow
    /\ UNCHANGED <<tl, logFile, windows>>

\* CleanOldLogs goes by the last write to a file, cleanupOldLogs by the start of a run.
CleanOldLogs == IF logRun.stage = "settled" THEN [logFile EXCEPT !.exists = FALSE, !.data = <<>>] ELSE logFile

cleanupOldLogs ==
    /\ logRun.old /\ logRow.exists /\ logRow' = [logRow EXCEPT !.exists = FALSE]
    /\ logFile' = CleanOldLogs
    /\ UNCHANGED <<logRun, tl, windows>>

-----------------------------------------------------------------------------
(* A log window: handler Stream                                             *)

Window(r, pc) == windows[r].pc = pc
Becomes(r, w) ==
    /\ windows' = [windows EXCEPT ![r] = w]
    /\ UNCHANGED <<logRun, tl, logRow, logFile>>
Rename(r, pc) == [windows[r] EXCEPT !.pc = pc]

\* ReadAll: the file of a closed TinyLog is gone.
ReadAll == IF tl.state = "open" THEN tl.data ELSE <<>>

OpenWindow(r) == Window(r, "off") /\ Becomes(r, Rename(r, "find"))

Find(r) ==
    /\ Window(r, "find")
    /\ Becomes(r, Rename(r, IF tl.listed THEN "history" ELSE IF IsRunning THEN "poll" ELSE "sleep"))

HistoryAfterSubscribe(r) ==
    /\ Window(r, "history")
    /\ Becomes(r, [Rename(r, "loop") EXCEPT !.shown = ReadAll,
                     !.chan = IF tl.data = <<>> THEN <<>> ELSE <<[bytes |-> tl.data, shared |-> FALSE]>>])

History(r) ==
    /\ Window(r, "history")
    /\ Becomes(r, [Rename(r, "subscribe") EXCEPT !.shown = ReadAll])

\* To a closed TinyLog one can subscribe, but its channels were closed before.
Subscribe(r) == Window(r, "subscribe") /\ Becomes(r, Rename(r, "loop"))

Receive(r) ==
    /\ Window(r, "loop") /\ windows[r].chan # <<>>
    /\ Becomes(r, [windows[r] EXCEPT !.shown = @ \o Head(windows[r].chan).bytes, !.chan = Tail(@)])

FinishWindow(r) ==
    /\ Window(r, "loop") /\ windows[r].chan = <<>> /\ windows[r].closed
    /\ Becomes(r, Rename(r, "finished"))

\* The task did not run: wait, and look again.
SleepAndLook(r) ==
    /\ Window(r, "sleep")
    /\ Becomes(r, [Rename(r, IF IsRunning THEN "reconnect" ELSE "finished") EXCEPT
                     !.shown = IF tl.listed THEN ReadAll ELSE @])

Poll(r) ==
    /\ Window(r, "poll")
    /\ Becomes(r,
         IF tl.listed THEN [Rename(r, "reconnect") EXCEPT !.shown = ReadAll]
         ELSE IF windows[r].polls + 1 >= PollLimit THEN Rename(r, "finished")
         ELSE [windows[r] EXCEPT !.polls = @ + 1])

\* The window clears itself and comes back, a few times.
Reconnect(r) ==
    /\ Window(r, "reconnect")
    /\ Becomes(r, IF windows[r].tries >= MaxReconnects THEN Rename(r, "finished")
                  ELSE [Rename(r, "find") EXCEPT !.shown = <<>>, !.polls = 0, !.tries = @ + 1])

\* The client goes away, and Unsubscribe closes its channel.
CloseWindow(r) ==
    /\ windows[r].pc \in {"loop", "finished"}
    /\ Becomes(r, [Rename(r, "gone") EXCEPT !.chan = <<>>, !.shown = <<>>, !.closed = FALSE])

\* Detail and LatestLog: the content of the row, or else the file.
ReadLogFile == IF logFile.exists THEN logFile.data ELSE <<>>
Detail == IF logRow.filled THEN logRow.content ELSE ReadLogFile

-----------------------------------------------------------------------------
RunStep == SetRunning \/ Create \/ CreateRow \/ CloseStream \/ CloseTinyLog \/ Remove \/ SettleLog
WindowStep(r) ==
    \/ Find(r) \/ History(r) \/ Subscribe(r) \/ Receive(r) \/ FinishWindow(r) \/ SleepAndLook(r)
    \/ Poll(r) \/ Reconnect(r)

LogNext ==
    \/ RunStep \/ (\E n \in 1..MaxChunk : Write(n)) \/ cleanupOldLogs
    \/ \E r \in LogReaders : OpenWindow(r) \/ WindowStep(r) \/ CloseWindow(r)

\* The run ends, and windows are served; nobody need write.
LogFairness ==
    /\ WF_logVars(RunStep)
    /\ \A r \in LogReaders : WF_logVars(WindowStep(r))

LogSpec == LogInit /\ [][LogNext]_logVars /\ LogFairness
=============================================================================
