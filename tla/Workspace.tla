------------------------------ MODULE Workspace ------------------------------
(***************************************************************************)
(* The tools that read and change the workspace (internal/tools/file.go,   *)
(* exec.go), one at a time, while other programs write to the same files:  *)
(* a file is read, and written later; a write fails half way or the        *)
(* process is killed in it; a command outlives its time, its shell or the  *)
(* operator's patience.                                                    *)
(***************************************************************************)
EXTENDS Diff

CONSTANTS Path,
          Contents,  \* what write_file may write
          Foreign,   \* what other programs may write
          Parts,     \* what edit_file may put in the place of what
          MaxLength, \* bound: symbols in an edited file
          Absent

\* What a file may hold: a sequence of the symbols there are.
Symbols == UNION {{t[k] : k \in 1..Len(t)} : t \in Contents \cup Foreign \cup Parts}
Texts == Seq(Symbols)

ASSUME WorkspaceAssumption ==
    /\ Contents \cup Foreign \cup Parts \subseteq Texts
    /\ Absent \notin Contents \cup Foreign
    /\ MaxLength \in Nat

VARIABLES disk,         \* the files
          seen,         \* ReadTracker.seen; the content it keeps is never used
          tool,         \* the tool that is running
          interrupted,  \* the session's context is cancelled
          result        \* of the last tool

vars == <<disk, seen, tool, interrupted, result>>

NoTool == [kind |-> "none"]
Idle == tool = NoTool

\* A write_file or edit_file that has read what there is.
Changing(path, before, after) ==
    [kind |-> "change", path |-> path, before |-> before, after |-> after]

\* A command: what became of the shell, with its exit code (-1 if it was
\* killed) and whether Wait says so or reports the context's error instead;
\* whether something else holds its output open; and why runCtx is done.
Command(shell, code, held, cause) ==
    [kind |-> "exec", shell |-> shell, code |-> code, held |-> held, cause |-> cause]

NoResult == [kind |-> "none"]
ToolError == [kind |-> "error"]
CannotRun == [kind |-> "cannot_run"]
Aborted == [kind |-> "aborted"]
Changed(diff) == [kind |-> "changed", diff |-> diff]
Ran(code, timedOut) == [kind |-> "ran", code |-> code, timedOut |-> timedOut]

Init ==
    /\ disk \in [Path -> {Absent, <<>>}]
    /\ seen = {}
    /\ tool = NoTool
    /\ interrupted = FALSE
    /\ result = NoResult

-----------------------------------------------------------------------------
(* Files.                                                                  *)

ReadFile(p) ==
    /\ Idle
    /\ disk[p] # Absent
    /\ seen' = seen \cup {p}
    /\ result' = NoResult
    /\ UNCHANGED <<disk, tool, interrupted>>

\* write_file needs not have seen the file.  A missing one reads as empty.
WriteStart(p, content) ==
    /\ Idle
    /\ tool' = Changing(p, IF disk[p] = Absent THEN <<>> ELSE disk[p], content)
    /\ result' = NoResult
    /\ UNCHANGED <<disk, seen, interrupted>>

edited(before, old, new, replaceAll) ==
    IF replaceAll THEN ReplaceEach(before, old, new) ELSE Replace(before, old, new)

\* The old string stands in the file, once unless all are to be replaced.
EditStart(p, old, new, replaceAll) ==
    /\ Idle
    /\ old # new
    /\ disk[p] # Absent
    /\ p \in seen
    /\ LET n == Count(disk[p], old) IN n > 0 /\ (replaceAll \/ n = 1)
    /\ LET after == edited(disk[p], old, new, replaceAll) IN
       /\ Len(after) <= MaxLength
       /\ tool' = Changing(p, disk[p], after)
    /\ result' = NoResult
    /\ UNCHANGED <<disk, seen, interrupted>>

\* os.WriteFile replaces what is there, whoever wrote it.
WriteDone ==
    /\ tool.kind = "change"
    /\ disk' = [disk EXCEPT ![tool.path] = tool.after]
    /\ seen' = seen \cup {tool.path}
    /\ result' = Changed(UnifiedDiff(tool.before, tool.after))
    /\ tool' = NoTool
    /\ UNCHANGED interrupted

\* What a write that did not end leaves: the file, if it could not be opened,
\* or, once it is truncated, the beginning of what was to be written.
Unfinished == {disk[tool.path]} \cup Prefixes(tool.after)

WriteFails ==
    /\ tool.kind = "change"
    /\ \E left \in Unfinished : disk' = [disk EXCEPT ![tool.path] = left]
    /\ result' = ToolError
    /\ tool' = NoTool
    /\ UNCHANGED <<seen, interrupted>>

-----------------------------------------------------------------------------
(* Commands.                                                               *)

ExecStart ==
    /\ Idle
    /\ ~interrupted
    /\ tool' = Command("running", 0, FALSE, "none")
    /\ result' = NoResult
    /\ UNCHANGED <<disk, seen, interrupted>>

\* There is no such shell; or the session has been interrupted before, and
\* Start returns the context's error, which is reported the same way.
ExecCannotStart ==
    /\ Idle
    /\ result' = CannotRun
    /\ UNCHANGED <<disk, seen, tool, interrupted>>

Running == tool.kind = "exec" /\ tool.shell = "running"

\* The shell ends by itself, and may leave others that hold its output.
ShellExits ==
    /\ Running
    /\ \E code \in 0..1, held \in BOOLEAN :
          tool' = Command("exited", code, held, tool.cause)
    /\ UNCHANGED <<disk, seen, interrupted, result>>

\* Mutation of Killed: the shell is left to itself.
KilledNot(cause) == {[tool EXCEPT !.cause = cause]}

\* runCtx is done: the shell is killed, and only the shell.  It may just be
\* ending by itself; if it ends well, Wait returns the context's error.
Killed(cause) ==
    IF tool.shell # "running" THEN {[tool EXCEPT !.cause = cause]}
    ELSE {Command(how[1], how[2], held, cause) :
              how \in {<<"killed", -1>>, <<"exited", 1>>, <<"context", 0>>},
              held \in BOOLEAN}

Deadline ==
    /\ tool.kind = "exec"
    /\ tool.cause = "none"
    /\ tool' \in Killed("deadline")
    /\ UNCHANGED <<disk, seen, interrupted, result>>

\* Mutation of Interrupt: the tools have a context of their own.
InterruptUnheeded ==
    /\ ~interrupted
    /\ tool.kind = "exec" /\ tool.cause = "none"
    /\ tool' \in Killed("interrupt")
    /\ UNCHANGED <<disk, seen, interrupted, result>>

\* Ctrl+C.  Only a command takes notice.
Interrupt ==
    /\ ~interrupted
    /\ interrupted' = TRUE
    /\ IF tool.kind = "exec" /\ tool.cause = "none" THEN tool' \in Killed("interrupt")
       ELSE UNCHANGED tool
    /\ UNCHANGED <<disk, seen, result>>

PipesClose ==
    /\ tool.kind = "exec"
    /\ ~Running
    /\ tool.held
    /\ tool' = [tool EXCEPT !.held = FALSE]
    /\ UNCHANGED <<disk, seen, interrupted, result>>

\* Mutation of Outcome: the context is not looked at.
OutcomeUnaborted ==
    LET timedOut == tool.cause = "deadline" IN
    IF tool.shell = "context"
    THEN IF timedOut THEN Ran(-1, TRUE) ELSE CannotRun
    ELSE Ran(tool.code, timedOut)

\* What Run makes of it, once the shell is gone and its output closed.
Outcome ==
    LET timedOut == tool.cause = "deadline" IN
    IF tool.shell = "context" /\ ~timedOut THEN CannotRun
    ELSE IF interrupted THEN Aborted
    ELSE Ran(IF tool.shell = "context" THEN -1 ELSE tool.code, timedOut)

ExecReturns ==
    /\ tool.kind = "exec"
    /\ ~Running
    /\ ~tool.held
    /\ result' = Outcome
    /\ tool' = NoTool
    /\ UNCHANGED <<disk, seen, interrupted>>

-----------------------------------------------------------------------------
(* Everything else.                                                        *)

\* Another program, or a command of the session, writes or removes a file.
OtherWrites(p) ==
    /\ \E content \in Foreign \cup {Absent} : disk' = [disk EXCEPT ![p] = content]
    /\ UNCHANGED <<seen, tool, interrupted, result>>

\* The process ends, in a write or elsewhere, and another session begins.
Restart ==
    /\ IF tool.kind = "change"
       THEN \E left \in Unfinished : disk' = [disk EXCEPT ![tool.path] = left]
       ELSE UNCHANGED disk
    /\ seen' = {}
    /\ tool' = NoTool
    /\ interrupted' = FALSE
    /\ result' = NoResult

Next ==
    \/ \E p \in Path :
          \/ ReadFile(p)
          \/ \E c \in Contents : WriteStart(p, c)
          \/ \E old, new \in Parts, all \in BOOLEAN : EditStart(p, old, new, all)
          \/ OtherWrites(p)
    \/ WriteDone
    \/ WriteFails
    \/ ExecStart
    \/ ExecCannotStart
    \/ ShellExits
    \/ Deadline
    \/ Interrupt
    \/ PipesClose
    \/ ExecReturns
    \/ Restart

\* The deadline of a command comes, and Run returns once what it waits for is
\* there.  A shell needs not end by itself, and nothing makes what it leaves
\* behind let go of its output: WaitDelay is not set.
Fairness == WF_vars(Deadline) /\ WF_vars(ExecReturns)

Spec == Init /\ [][Next]_vars /\ Fairness

-----------------------------------------------------------------------------
(* Properties.                                                             *)

Codes == -1..1
Files == [Path -> {Absent} \cup Texts]
ToolType ==
    {NoTool}
    \cup [kind : {"change"}, path : Path, before : Texts, after : Texts]
    \cup [kind : {"exec"}, shell : {"running", "exited", "killed", "context"}, code : Codes,
          held : BOOLEAN, cause : {"none", "deadline", "interrupt"}]

\* The files hold texts, and a tool and its result are of a kind there is.
TypeOK ==
    /\ disk \in Files
    /\ seen \subseteq Path
    /\ interrupted \in BOOLEAN
    /\ tool \in ToolType
    /\ tool.kind = "exec" /\ tool.cause = "interrupt" => interrupted
    /\ \/ result \in {NoResult, ToolError, CannotRun, Aborted}
       \/ result.kind = "ran" /\ result.code \in Codes /\ result.timedOut \in BOOLEAN
       \/ result.kind = "changed"

\* The diff a write or an edit hands to the audit log is the change it made to
\* the file: its hunks stand where they say in the old file and in the new,
\* all else is the same in both, and there is no more of it than context.  It
\* is not so if another program wrote the file after the tool had read it
\* (UnifiedDiff is given what was read), nor is the end of the last line told.
AuditedDiffIsTheChange ==
    [][tool.kind = "change" /\ result'.kind = "changed" =>
          \A p \in Path :
             LET old == IF disk[p] = Absent THEN <<>> ELSE disk[p] IN
             p = tool.path /\ old = tool.before =>
                Explains(result'.diff, splitLines(old), splitLines(disk'[p]))]_vars

\* What is said of a command that was begun is what became of it.  An exit code
\* is told only when the shell ended by itself with that code, -1 only when its
\* time was up, a time-out only and always when that is what ended the wait, and
\* none of these once the operator has interrupted it.  Run says that it was
\* interrupted only if it was; and that it cannot be run only if an interrupt
\* met a shell that was just ending well (exec.go:118-147).
ExecTellsTheTruth ==
    [][tool.kind = "exec" /\ tool' = NoTool =>
          /\ result'.kind = "ran" =>
                /\ ~interrupted
                /\ result'.timedOut <=> tool.cause = "deadline"
                /\ IF result'.code = -1 THEN tool.cause = "deadline" /\ tool.shell # "exited"
                   ELSE tool.shell = "exited" /\ tool.code = result'.code
          /\ result'.kind = "aborted" => interrupted
          /\ result'.kind = "cannot_run" => interrupted /\ tool.shell = "context"]_vars

\* Time and again there is no command, or its shell is gone and all that keeps
\* it is that something it left behind holds its output open: even a shell that
\* would run forever is killed at its deadline, and the command is over as soon
\* as its output closes (exec.go:101-118).
OnlyHeldOutputKeepsACommand ==
    []<>(tool.kind # "exec" \/ (~Running /\ tool.held))

=============================================================================
