--------------------------- MODULE ManagedCommand ---------------------------
(***************************************************************************)
(* One script command from its preparation to its result: the files that   *)
(* CreateManagedCommand and its siblings lay out for an interpreter        *)
(* (runtime_exec.go), the pipe, the reader, the waiter and the timer of    *)
(* runSingleCommand, and the inline and hook scripts of a task             *)
(* (script_runner.go).  Several runs share work directories.               *)
(*                                                                         *)
(* What the interpreter's bootstrap does inside the child process is left  *)
(* out: a child writes chunks and ends, and may leave a background process *)
(* of its own session behind that still holds the pipe.                    *)
(***************************************************************************)
EXTENDS Integers, Sequences, FiniteSets

CONSTANTS Runs,          \* the commands that are run
          WorkDirs,      \* the directories they run in
          ScriptsDir,    \* the one that inline and hook scripts run in
          Forms,         \* the forms of commands that occur, of AllForms
          MaxChunks      \* bound: chunks of output the pipe holds

VARIABLES run,           \* each command: its form, progress and files
          link           \* WorkDir -> what its node_modules entry is

cmdVars == <<run, link>>

AllForms == {"python", "module", "executable", "node", "ts-node", "shell",
             "go", "other", "inline", "hook"}

ASSUME CommandAssumption ==
  Forms \subseteq AllForms /\ ScriptsDir \in WorkDirs /\ MaxChunks \in Nat

\* The steps that prepare a command of a form, in the code's order.
createManagedPythonCommand       == <<"support", "binary", "env">>
createManagedPythonModuleCommand == <<"support", "binary", "env">>
createManagedExecutableCommand   == <<"binary">>
createManagedNodeCommand         == <<"binary", "env", "link", "preload">>
createManagedTSNodeCommand       == <<"env", "link", "preload", "binary">>
createManagedShellCommand        == <<"normalise", "binary", "env">>
createManagedGoCommand           == <<"binary", "env", "wrapper">>
createStandardManagedCommand     == <<"binary">>
RunInlineScript                  == <<"script", "normalise", "binary", "env">>
RunHookScript                    == <<"normalise", "normalise", "binary", "env">>

CreateManagedCommand(form) ==
  CASE form = "python"     -> createManagedPythonCommand
    [] form = "module"     -> createManagedPythonModuleCommand
    [] form = "executable" -> createManagedExecutableCommand
    [] form = "node"       -> createManagedNodeCommand
    [] form = "ts-node"    -> createManagedTSNodeCommand
    [] form = "shell"      -> createManagedShellCommand
    [] form = "go"         -> createManagedGoCommand
    [] form = "other"      -> createStandardManagedCommand
    [] form = "inline"     -> RunInlineScript
    [] form = "hook"       -> RunHookScript

\* The k-th step: the preparation, then the two of runSingleCommand that start
\* the child.
Step(form, k) ==
  LET steps == CreateManagedCommand(form) IN
    CASE k <= Len(steps)     -> steps[k]
      [] k = Len(steps) + 1  -> "pipe"
      [] k > Len(steps) + 1  -> "start"

\* The early returns, had the one for a missing npx been forgotten.
UndoneBeforeNpx(form, step) ==
  (IF form = "inline" /\ step # "script" THEN {"script"} ELSE {}) \cup
  CASE step = "preload"           -> {"env", "link"}
    [] step \in {"env", "wrapper"} -> {"env"}
    [] step \in {"pipe", "start"} -> {"env", "link", "wrapper"}
    [] OTHER                      -> {}

\* What the early return of a failing step takes away again: the files of the
\* steps before it, and of its own only the environment file; an inline script is
\* removed by a deferred call that comes after the writing.
Undone(form, step) ==
  (IF form = "inline" /\ step # "script" THEN {"script"} ELSE {}) \cup
  CASE step = "preload"                      -> {"env", "link"}
    [] step = "binary" /\ form = "ts-node"   -> {"env", "link"}
    [] step \in {"env", "wrapper"}           -> {"env"}
    [] step \in {"pipe", "start"}            -> {"env", "link", "wrapper"}
    [] OTHER                                 -> {}

\* cleanup(): every file the preparation made.
cleanup(form) == {"env", "link", "wrapper"}
                   \cup (IF form = "inline" THEN {"script"} ELSE {})

\* A command that has no process, and the step of its preparation that failed.
Unstarted(form, dir, pc, holds, failed) ==
  [form |-> form, dir |-> dir, pc |-> pc, at |-> 1, holds |-> holds, failed |-> failed,
   writers |-> {}, piped |-> 0, reader |-> "idle", waiter |-> "idle"]
NotRun == Unstarted("other", ScriptsDir, "idle", {}, "none")

CmdInit == /\ run = [r \in Runs |-> NotRun]
           /\ link \in [WorkDirs -> {"none", "own"}]

\* os.Remove on the link goes by its path, whoever made what is there now; a
\* directory of the user's stays because it is not empty.
Unlink(r, files) ==
  link' = IF "link" \in files \cap run[r].holds /\ link[run[r].dir] = "managed"
            THEN [link EXCEPT ![run[r].dir] = "none"] ELSE link

\* The functions whose cleanup is deferred to their return.
Deferred(r) == run[r].form \in {"inline", "hook"}

\* runSingleCommand, RunInlineScript, RunHookScript: a command is asked for.
Begin(r) ==
  /\ run[r].pc = "idle"
  /\ \E form \in Forms, dir \in WorkDirs :
       /\ form \in {"inline", "hook"} => dir = ScriptsDir
       /\ run' = [run EXCEPT ![r] = Unstarted(form, dir, "prepare", {}, "none")]
  /\ UNCHANGED link

StepOf(r) == Step(run[r].form, run[r].at)

Advance(r, new) ==
  run' = [run EXCEPT ![r].at = @ + 1, ![r].holds = @ \cup new]

\* The interpreter is found: in the managed directories, on the path, and for
\* Python with the version asked for; or the checks before it pass.
resolveManagedBinary(r) ==
  /\ StepOf(r) \in {"support", "normalise", "binary", "pipe"}
  /\ Advance(r, {}) /\ UNCHANGED link

\* The variables go to a file in a directory of its own under /tmp, as JSON
\* or for a shell as assignments.
writeManagedRuntimeEnvFile(r) ==
  /\ StepOf(r) = "env" /\ run[r].form \notin {"shell", "inline", "hook"}
  /\ Advance(r, {"env"}) /\ UNCHANGED link
writeManagedRuntimeShellEnvFile(r) ==
  /\ StepOf(r) = "env" /\ run[r].form \in {"shell", "inline", "hook"}
  /\ Advance(r, {"env"}) /\ UNCHANGED link

\* The preload script is written next to it.
writeNodePreloadScript(r) ==
  /\ StepOf(r) = "preload" /\ Advance(r, {}) /\ UNCHANGED link

\* The Go wrapper goes next to the script, an inline script to ScriptsDir.
WriteBesideScript(r) ==
  /\ StepOf(r) \in {"wrapper", "script"}
  /\ Advance(r, {StepOf(r)}) /\ UNCHANGED link

\* A link to the managed modules, unless the entry is there already.
ensureManagedNodeModulesAccess(r) ==
  /\ StepOf(r) = "link"
  /\ \/ /\ link[run[r].dir] = "none"
        /\ link' = [link EXCEPT ![run[r].dir] = "managed"]
        /\ Advance(r, {"link"})
     \/ Advance(r, {}) /\ UNCHANGED link        \* it is there, or it failed

PrepareFile(r) ==
  /\ run[r].pc = "prepare" /\ StepOf(r) # "start"
  /\ \/ resolveManagedBinary(r) \/ ensureManagedNodeModulesAccess(r)
     \/ writeManagedRuntimeEnvFile(r) \/ writeManagedRuntimeShellEnvFile(r)
     \/ writeNodePreloadScript(r) \/ WriteBesideScript(r)

\* A step fails: the command is not run.  os.WriteFile may have made the file it
\* could not write to the end.
PreparationFails(r) ==
  /\ run[r].pc = "prepare" /\ StepOf(r) # "link"
  /\ LET gone == Undone(run[r].form, StepOf(r)) IN
       /\ \E torn \in SUBSET ({StepOf(r)} \cap {"env", "wrapper", "script"}) :
            run' = [run EXCEPT ![r] =
                      Unstarted(@.form, @.dir, "done", (@.holds \cup torn) \ gone, StepOf(r))]
       /\ Unlink(r, gone)

\* cmd.Start: the reader's goroutine, the waiter's and the timer begin.
StartCommand(r) ==
  /\ run[r].pc = "prepare" /\ StepOf(r) = "start"
  /\ run' = [run EXCEPT ![r].pc = "running", ![r].writers = {"script"},
                        ![r].reader = "reads", ![r].waiter = "waits"]
  /\ UNCHANGED link

\* The child: it writes, leaves a background process behind, ends.
ChildWrites(r) ==
  /\ run[r].writers # {} /\ run[r].piped < MaxChunks /\ run[r].reader = "reads"
  /\ run' = [run EXCEPT ![r].piped = @ + 1]
  /\ UNCHANGED link
ChildForks(r) ==
  /\ "script" \in run[r].writers
  /\ run' = [run EXCEPT ![r].writers = @ \cup {"background"}]
  /\ UNCHANGED link
ChildEnds(r) ==
  /\ "script" \in run[r].writers
  /\ run' = [run EXCEPT ![r].writers = @ \ {"script"}]
  /\ UNCHANGED link

\* The reader emits what the pipe holds; it ends when no writer is left or
\* when the waiter has closed the reading end.
ReaderEmits(r) ==
  /\ run[r].reader = "reads" /\ run[r].piped > 0
  /\ run' = [run EXCEPT ![r].piped = @ - 1]
  /\ UNCHANGED link
ReaderEnds(r) ==
  /\ \/ run[r].reader = "closed"
     \/ run[r].reader = "reads" /\ run[r].piped = 0 /\ run[r].writers = {}
  /\ run' = [run EXCEPT ![r].reader = "ended"]
  /\ UNCHANGED link

\* A waiter that waits for the output first, as the manual of os/exec asks.
WaitAfterReading(r) ==
  /\ run[r].waiter = "waits" /\ "script" \notin run[r].writers
  /\ run[r].reader = "ended"
  /\ run' = [run EXCEPT ![r].waiter = "cleans"]
  /\ UNCHANGED link

\* cmd.Wait returns when the child has ended, and closes the reading end of
\* the pipe with whatever it holds.
Wait(r) ==
  /\ run[r].waiter = "waits" /\ "script" \notin run[r].writers
  /\ run' = [run EXCEPT ![r].waiter = "cleans",
               ![r].reader = IF @ = "reads" THEN "closed" ELSE @,
               ![r].piped = 0]
  /\ UNCHANGED link

\* cleanup() follows it in the same goroutine, but for a deferred one.
Clean(r) ==
  /\ run[r].waiter = "cleans"
  /\ LET gone == IF Deferred(r) THEN {} ELSE cleanup(run[r].form) IN
       /\ run' = [run EXCEPT ![r].waiter = "sent", ![r].holds = @ \ gone]
       /\ Unlink(r, gone)

\* The timer: KillProcessGroup, which does not reach another session.
Timeout(r) ==
  /\ run[r].pc = "running" /\ "script" \in run[r].writers
  /\ run' = [run EXCEPT ![r].writers = @ \ {"script"}]
  /\ UNCHANGED link

\* <-waitCh and <-done: the result is returned.  The inline and hook scripts
\* do not wait for their reader, and clean up here.
Finish(r) ==
  /\ run[r].pc = "running" /\ run[r].waiter = "sent"
  /\ Deferred(r) \/ run[r].reader = "ended"
  /\ LET gone == IF Deferred(r) THEN cleanup(run[r].form) ELSE {} IN
       /\ run' = [run EXCEPT ![r].pc = "done", ![r].holds = @ \ gone]
       /\ Unlink(r, gone)

\* The user puts a directory of that name in place, or takes the entry away.
UserTouches(d) ==
  /\ link' = [link EXCEPT ![d] = IF @ = "none" THEN "own" ELSE "none"]
  /\ UNCHANGED run

CmdNext ==
  \/ \E r \in Runs :
       \/ Begin(r) \/ PrepareFile(r) \/ PreparationFails(r) \/ StartCommand(r)
       \/ ChildWrites(r) \/ ChildForks(r) \/ ChildEnds(r)
       \/ ReaderEmits(r) \/ ReaderEnds(r) \/ Wait(r) \/ Clean(r)
       \/ Timeout(r) \/ Finish(r)
  \/ \E d \in WorkDirs : UserTouches(d)

\* The goroutines run; the commands are ones with a timeout, and its timer
\* fires.  Nothing makes a child end or stop writing.
CmdFair == \A r \in Runs :
  WF_cmdVars(PrepareFile(r) \/ PreparationFails(r) \/ StartCommand(r)) /\ WF_cmdVars(Timeout(r))
  /\ WF_cmdVars(ReaderEnds(r)) /\ WF_cmdVars(Wait(r)) /\ WF_cmdVars(Clean(r))
  /\ WF_cmdVars(Finish(r))

CmdSpec == CmdInit /\ [][CmdNext]_cmdVars /\ CmdFair
=============================================================================
