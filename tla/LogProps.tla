------------------------------ MODULE LogProps ------------------------------
(***************************************************************************)
(* What live logs must guarantee.                                          *)
(***************************************************************************)
EXTENDS LogStream

Increasing(s) == \A i, j \in DOMAIN s : i < j => s[i] < s[j]

\* What a window shows is the output in its order and nothing twice, although it reads
\* the past and follows the present separately: it may only miss something.  After a
\* chunk ended inside a character its bytes may be overwritten before they are read.
ShownInOrder ==
    logRun.cuts = 0 => \A r \in LogReaders :
        /\ Increasing(windows[r].shown)
        /\ \A i \in DOMAIN windows[r].shown : windows[r].shown[i] <= logRun.written

\* What is shown of a settled run that was followed live is all that was written until its
\* TinyLog closed and nothing else, however slow the windows and however full the file, and
\* whatever a reader of a hook brings later; a second cut character may overwrite bytes.
SettledLogIsWhole ==
    logRow.done /\ logRun.cuts <= 1 /\ ~logRun.quiet => Detail = SubSeq(Output, 1, logRun.atClose)

\* A window that subscribed in time learns that the run has ended.
SubscribersLearnTheEnd ==
    \A r \in LogReaders :
        Window(r, "loop") /\ tl.state = "open" ~> windows[r].pc \in {"finished", "gone"}
=============================================================================
