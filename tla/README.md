# A verification project for mkr

mkr is a coding assistant for the command line (Go, module `mkrcode`): it talks
to an OpenAI-compatible model server, lets the model call tools in one
workspace behind a permission gate, keeps the conversation inside the model's
context window, writes each session to a transcript that can be resumed, and
records what it did in a hash-chained audit log. This directory holds TLA+
modules for the parts of it that have state, the TLC runs that check them, and
TLAPS proofs. `PROJECT.json` maps every definition to the source lines it
stands for.

To check by hand, in this directory:

    tlc -workers 2 -config AuditLog.cfg MCAuditLog
    tlapm AuditLogProofs.tla

and likewise for the other runs of section 3, and for `Lemmas`,
`SessionStoreProofs`, `AgentProofs`, `ConfigStoreProofs`, `StreamProofs`,
`WorkspaceProofs` and `SearchProofs`.

## 1. The system

One `mkr` process runs one session, on one goroutine as far as its state is
concerned: prompt, request, tools, prompt. Other goroutines only serve I/O
(the HTTP client, the pipes of a command, the signal handler). The concurrency
that matters is *between processes*, which share three kinds of file (the audit
log, the transcripts, the user configuration), and *between the session and
the world*: the server, the operator, the tools, signals, kills.

| Component | State | Operations | What is hard | What makes it correct |
|---|---|---|---|---|
| Audit log, `internal/audit` | the file; in memory `seq`, `prevHash`, the sticky error of `bufio.Writer` | `Open` (`tail`, then open), `Log`, `Close`, `Verify` | several processes, each with its own memory of the chain; a failed or torn write between the two updates of that memory | the log of sessions that follow one another verifies; a log that verifies has lost nothing; edits are found |
| Transcripts, `internal/session` | a file per session; modification times | `NewID`, `Create`, `Append`, `Load`, `Latest` | torn last line, resume while another session still writes, errors that the agent ignores | what was acknowledged is there for a resume, and nothing stands behind a gap |
| Permission engine, `internal/permission` | mode, remembered approvals | `Evaluate`, `Check`, `SetMode` | approvals that outlive what they were given for; shared with sub-agents | nothing runs that was not allowed or consented to under the mode in force, and consent is to what was shown |
| Agent loop, `internal/agent/agent.go` | conversation, turn, pending calls | `Run`, `stream`, `runTools`, `Compact`, `Reset`, `SetMode` | failure, quit, interrupt or kill at any point of the loop | each run ends; memory, transcript and audit log agree |
| Delegation, `task.go` | the sub-agent's own conversation, registry, budget | `taskTool.Run`, `newSubagent` | two agents interleaved in one transcript and one log | the sub-agent stays within what the operator allowed |
| Context budget, `context.go` | characters per token | `observe`, `needsCompaction`, `compact` | cutting between messages, floors and off-by-ones, repeated compaction | each request is one the server accepts; recent content stays |
| Interactive session, `cmd/mkr/chat.go`, and terminal, `internal/ui` | the prompt | `/mode`, `/compact`, `/clear`, `/exit`, answers, Ctrl+C | answers of the operator that must mean what they say | quit quits, an approval is for what was shown |
| Probe, `internal/provider/probe.go` | what is known of the endpoint | `Probe`, `testNativeTools` | a test whose reply fails, is cut off or never comes | every outcome settles on an adapter; the native one only on a whole call |
| Stream and adapters, `internal/provider` | partial events, partial tags, partial calls | `Next`, `Filter`, `add`, `calls` | any chunking of the text, interleaved fragments, early end | no byte lost or repeated; calls put together from their own fragments |
| Workspace tools, `internal/tools` | the read tracker, the files | read, write, edit, exec | files that change under the agent, timeouts, interrupts, partial writes | the audited diff is the change; the model is told what became of a command; a command ends |
| Search tools, `internal/tools/search.go`, pages of `read_file` | none beyond a call; the tree they walk | `list_dir`, `glob`, `grep`, `read_file` with an offset | a tree that changes under the walk; reads that fail; two limits on one result; seams between pages | a result that says nothing of being cut is complete, of what could be read; nothing is shown that was not there |
| Skills, `internal/skills`, `internal/tools/skill.go` | the set found at start-up | `Discover`, `skill` | malformed files, two layers, files that change after they were found | layering; one bad file hides and stops nothing |
| Configuration, `internal/config`, `cmd/mkr/config.go` | layered files | load, `config set`, `config unset` | two writers, one temporary name; names and nulls that one part of the code reads otherwise than another | an update is not lost, the file always parses, what is set is what is loaded |
| Jail, network guard, redaction, prompts, secureio, self-test | none that changes | path, address and text functions | host dependent | — |

Interactions: `chat.go` probes the endpoint, discovers the skills, loads the
rules, opens transcript, then audit log, then builds the agent from the loaded
history. The agent calls the engine before every tool, the
engine calls the terminal, every message goes to memory and to the transcript,
every decision to the log. A sub-agent shares engine, log and transcript.

`PROJECT.json` lists all components with their status, and under `hazards`
what is hard to test in this code, at its line.

## 2. The modules

| Module | Models | Used by |
|---|---|---|
| `LineFile` | a JSON-lines file opened with O_APPEND by several processes: complete writes, cut writes, gluing | `AuditLog`, `SessionStore` |
| `Journal` | abstract: what a file of records promises its readers | `AuditLog`, `SessionStore` |
| `AuditLog` | `internal/audit`, any number of processes | `MCAuditLog` |
| `SessionStore` | `internal/session` and how `runChat` opens it, any number of processes and transcripts | `MCSessionStore` |
| `Permission` | `LoadRules` and `Engine.Evaluate`, as operators | `Consent`, `Agent` |
| `Consent` | abstract: what the permission gate promises | `Agent` |
| `Transcript` | `context.go`, as operators on sequences of messages | `Agent` |
| `Strings` | the functions of Go's `strings` and `sort` on sequences of symbols and sets of numbers | `Tags`, `Diff`, `Stream`, `FileTree` |
| `Tags` | texts with tool-call tags in them | `Reply`, `Stream` |
| `Reply` | abstract: what is promised about each streamed reply | `Stream` |
| `Stream` | streamed replies: `sse.go`, `consumeStream` and the accumulator, the adapters' filters, what `Agent.stream` collects | `Probe` |
| `Probe` | how a session settles on an adapter, and its replies then | `MCStream` |
| `Agent` | one session: prompt loop, turn loop, gate, delegation, compaction, transcript, audit events, interrupt, kill, resume | `MCAgent` |
| `Diff` | `diff.go`: the unified diff, and what it is for | `Workspace` |
| `Workspace` | `read_file`, `write_file`, `edit_file` and `exec`, with other programs, failures, kills, deadlines | `MCWorkspace` |
| `FileTree` | a file system of directories and files, and what other programs do to it | `Search` |
| `Search` | `list_dir`, `glob`, `grep` and the pages of `read_file`, over a tree that changes | `Skills` |
| `Skills` | discovery of skills at start-up and the `skill` tool, beside the tools of `Search` | `MCSkills` |
| `ConfigStore` | layered configuration, `config set`, `config unset`, any number of processes | `MCConfigStore` |
| `MC*` | the small instances | the `.cfg` files |
| `Lemmas` | what the proofs about several components use: the least number in place of induction, functions by recursion, where one sequence stands in another (`Strings`), numbers in order, the elements of sequences, and what one write does to what a reader of a `LineFile` gets | the modules below |
| `AuditLogProofs` | theorems about `AuditLog` | |
| `SessionStoreProofs` | theorems about `SessionStore` | |
| `AgentProofs` | lemmas: what estimation, elision and dropping do to a conversation of any length (`Transcript`); theorems about `Agent`: types, compaction, requests, the transcript, audit events, sub-agents, rules and consent, `Consent` | |
| `ConfigStoreProofs` | theorems about `ConfigStore` | |
| `StreamProofs` | theorems about `Stream` and `Probe`, and that they implement `Reply` | |
| `WorkspaceProofs` | theorems about `Workspace` and `Diff` | |
| `SearchProofs` | theorems about `Search` and `Skills` | |

`Agent` composes `Permission` and `Transcript` with the control of
`agent.go`, `task.go` and `chat.go`, and is shown to implement `Consent`; `Probe`
extends `Stream`, and `Skills` extends `Search`, with what comes before in
`runChat`. Operators named `...` with the comment
"Mutation of" are deliberate faults: each is substituted for the definition it
follows to show that a property notices it. They are used by no specification.

### LineFile, Journal and AuditLog

`bufio.Writer` is empty before each record and flushed after it, so record and
newline reach the file in one `write`; O_APPEND puts it at the end. A write
that fails, or in which the process dies, leaves nothing, a fragment, or the
record without its newline (`Cuts`). On an unfinished last line the next record
makes one malformed line with it.

`tail` and `Open` are two actions, because another process may act between
them. `Log` is one: it holds the logger's mutex and touches the shared file
once. In `LogFails` `seq` has moved, `prevHash` has not, and `bufio.Writer`
keeps its error, so that every later `Log` of that process fails
(`LogAfterFailure`). A kill between two records is `Close`. `SharedAppend` is
the difference between Unix, where a second process may open the file, and
Windows, where the handle denies write sharing and `Open` fails.

A digest is modelled by what it covers: the sequence of everything hashed so
far. That is collision freedom, which is what the code relies on.
`acked`, `overlapped` and `cut` are history, read by properties only.

`Journal` is what both files are to their readers: it grows by one entry at a
time until a write is cut short, and never changes afterwards, but that a last
record without its newline is spoiled by the next write. `AuditLog` implements
it with the records up to the first line that does not parse as the entries
(`Recovered`), whatever processes are at it; `SessionStore` does for each
transcript (`Transcript`), since that is what `Load` returns.

### SessionStore

`StartFresh`, `Load` followed by `Create`, `AppendMsg` (one `Append` of the
agent: memory and file), `AppendFails`, `AppendAfterFailure`, `End`. `latest` is
the transcript modified last, which `-resume last` takes whether or not a
session still writes to it. `NewID` is unlike every other identifier: its
suffix is six random characters. The agent ignores what `Append` returns and goes
on. `told` is history: what a session found in its transcript and was given to
append since, by its agent or a sub-agent. It is not the agent's memory, which
compaction and `/clear` make shorter without a word to the transcript; memory is
in `Agent`, and what it has to do with the transcript is `TranscriptCoversMemory`.

### Permission and Transcript

Patterns are modelled by the sets of requests they match. `LoadRules` merges a
rules file with the defaults list by list: three lists are added to, the
auto-allowed tools are replaced if the file names any, as in
`permission.go:166-171`. `rememberKey` is a
function, so that two requests may share a key, as two writes of the same
length to one path and all edits of one file do. Text is modelled by its size; `usable` and `target` are
the code's truncated products as integer arithmetic, and the estimator is a rate
in tokens per unit, chosen from `Rates` after each reply. Iteration is written
with recursive functions, never with RECURSIVE operators, so that the module can
be proved about.

### Agent

Depth 0 is the session's agent, depth 1 its sub-agent; `depth` says which one
runs. `phase` is where it is:

| phase | code |
|---|---|
| `off` | no process |
| `prompt` | `repl` waits in `render.Prompt` |
| `stream` | before `a.stream` in `Run` |
| `waiting` | in `client.Stream` |
| `dispatch` | at the top of the loop in `runTools` |
| `confirm` | `Confirm` waits for an answer |
| `approved` | `Check` has allowed the call, before `tool.Run` |
| `tool` | in `tool.Run` |

| Action | Code |
|---|---|
| `UserPrompt`, `SetMode`, `Compact`, `Reset`, `Exit` | `repl` and `command`, with `Run` up to the loop, `Agent.SetMode`, `Compact`, `Reset` |
| `Resume` | `runChat` with `-resume`, `New` |
| `SendRequest` | `compactIfNeeded` and the start of `stream` |
| `Reply`, `FinalReply`, `StreamFails` | the end of `stream`: calls, none, an error |
| `TurnBudgetSpent`, `NextTurn` | the loop condition in `Run` |
| `BadCall`, `Check`, `Ask`, `AnswerYes`, `AnswerNo`, `AnswerQuit` | `runTools` up to `tool.Run` |
| `RunTool`, `Delegate`, `ToolDone`, `ToolFails` | `tool.Run` and what follows it |
| `Interrupt`, `Cancelled` | the signal context, and each place that notices it |
| `Kill` | the process dies |

`FinishRun` is the return of `Run`: to the prompt, or, in a sub-agent, through
`taskTool.Run` to the delegating agent's next call. `trace` is the audit log's
records of the kinds `permission`, `tool_call`, `subagent_start` and the mode
(session start and change), with the operator's answers and the starts of tools
between them; it is read by properties only.

Abstractions: a kill falls between two actions, so a message is in memory and in
the transcript or in neither (a write that fails or is cut short is
`SessionStore`'s subject); print mode is a session with one request; calls have
ids of their own (see section 6); `file` is the transcript of the one session,
with no other process at it.

### Consent

`Consent` is the gate without the conversation: what may be thought of at all
inside a delegation, what is let through by a rule, a mode or a standing
approval, what the operator is asked, that each thing let through begins once
at most, and that approvals end with the mode they were given in. `Agent` implements it
with `approvals` as what stands, the call in `confirm` as what is asked, the call in
`approved` as what is due, and the running tools of both depths as what runs.

### Stream, Reply and Tags

`Stream` takes the body of one reply line by line, as `sseReader.Next` does:

| Action | Code |
|---|---|
| `WholeLine`, `FirstLine`, `SecondLine`, `OtherLine` | the server sends a data line, `Next` adds it to `data` |
| `Blank` | `Next` returns a payload, or `io.EOF` for the end marker |
| `BodyEnds`, `Flush` | the scanner is at the end, and what is left without a blank line |
| `ReadFails` | a read error, a line too long, cancellation, the deadline |

`Payload` is one round of `consumeStream` with everything it calls: `Filter` of
the adapter, whose loop is the recursive function `drain`, and
`toolCallAccumulator.add`. `EndOfStream` is its end, up to what `Agent.stream`
returns. A chunk's JSON may be broken over two data lines; half of it does not
decode. `said` and `sent` are what the server has put on the wire.

The text is over four symbols, and the tags are `<tt` and `</t`: like the real
ones they begin alike, and no proper suffix of the open tag is a prefix of it.
Which bodies are calls is the parameter `Callable` (`parseCall` of the code, with
both payload forms). Native calls come only under the native adapter, since
`PrepareRequest` of the other takes the tools out of the request. A server that
gives ids is assumed to give distinct ones, other than `call_N`.

`Reply` is the abstract specification. `Reading` says what a text means to
someone who sees all of it; `Grow` allows a reply to have shown anything that
holds back no more than a proper prefix of the open tag, or the body of an open
call; `Complete` shows all and hands over the calls; `Begin` is the next reply,
with a new reader, accumulator and filter. `Stream` implements it under
the mapping in `Whole`: the text is what has been delivered, without the event
that waits for its blank line.

A reply that is cut off inside a call shows the call's text without its open
tag, and nothing at all if the cut is right after the tag; `Final` says so,
since that is what the code does, although the comment at `xmladapter.go:95-97`
speaks of surfacing the fragment so that the failure is visible.

### Probe

| Action | Code |
|---|---|
| `ModelsFail` | `Client.Models` returns an error, an empty list included: no session |
| `Forced` | the configuration names the adapter: only model and window are taken from the list |
| `Test` | `testNativeTools` sends its request |
| `TestEnds` | what it makes of the reply, or of the error, and `SelectAdapter` |
| `Replies` | the reply to the test, and then the session's, as in `Stream` |

The test reads the raw events, so that its reply is one by the native adapter,
and keeps the last call that comes (`Usable`). Its arguments are JSON if they are
in `Json`. The property looks at the fragments the server put on the wire
(`sent`), not at what the accumulator made of them.

### Search, FileTree and Skills

A file is absent, a directory, a text (its lines), binary, or too large.
`glob` and `grep` walk it as `filepath.WalkDir` does: `look.agenda` is what is still
to be visited, with the kind that the reading of the directory saw.

| Action | Code |
|---|---|
| `Search` | `globTool.Run`, `grepTool.Run` up to the walk |
| `VisitDirectory`, `DirectoryFails` | the callback for a directory (`skipDirs`), then `os.ReadDir` of it, which may fail |
| `GlobFile`, `GrepFile`, `FileFails` | the callback for a file, with `d.Info`, `os.ReadFile` and the matching |
| `WalkDone`, `WalkCancelled` | the rest of `Run` |
| `ListDir`, `ListDone` | `listDir.Run`: `os.ReadDir`, then the sizes and the layout |
| `ReadFirst`, `ReadNext` | `readFile.Run`, first without an offset and then with the one the notice names |
| `Refused` | a path outside the workspace, or one that is not what the tool needs |
| `OtherWrites`, `OtherRemoves`, `OtherRenames` | other programs, between any two of these steps |
| `ScanDirectory`, `ScanDirectoryFails`, `ScanEntry`, `ScanEntryFails`, `StartSession` | `Discover`: `scan` of either directory, one entry of it, and what `runChat` does with the problems |
| `UseSkill`, `SupportingFile`, `SkillDone`, `SkillRefused` | `skillTool.Run`: `Body`, the walk of `SupportingFiles`, the result |

Results are items, and the notices at their end: `truncate` cuts the end off, so
the notice that a search was stopped goes with it and only "truncated" is left. A
glob is a sequence of segments, each a set of names, with `**`; an expression is
the set of lines it matches. A path of the model is a sequence of segments, relative
or absolute, which `AbsolutePath` cleans and `Resolves` holds against the root.
`since` is history: what has been at each path since the look, or the discovery,
began; and so is `missed`: the paths that could not be read meanwhile.

Any reading may fail on what is there all the same, for want of permission, of a
file descriptor, or because of a lock. `DirectoryFails` leaves a walk with some of the
directory or none of it, and `FileFails` with nothing of the file; the code says
nothing of either (`search.go:168-170`, `309-316`). `ScanDirectoryFails` is taken
for a directory of skills that is not there (`skills.go:138-142`), and
`ScanEntryFails` is a problem that is reported, like a malformed skill. In
`list_dir` a size that cannot be had is left out.

Abstractions: there are no symbolic links, so that `Resolve` is lexical; names are in
lower case; walk order stands for the order of `sort.Strings`, which differs in
where `/` sorts; `truncate` cuts between items; reading a file is one step;
`.mkr/skills` is one directory; others change things only while something is
looked at, since between two looks it is as if the later one had begun with what
they leave. `grep` passes binary and too large files over without a word, and
`skill` names only the first supporting files (20 in the code): the model does
the same, and `SilentResultIsComplete` speaks of text files, of searches, and of
what could be read. A `SKILL.md` of any kind of file is parsed, as `parseFile`
looks at neither size nor content. A page that `truncate` has cut names no next
line, and the model of the pages goes no further there.

### Workspace and Diff

One tool runs at a time, beside other programs.

| Action | Code |
|---|---|
| `ReadFile` | `readFile.Run`, which marks the file as read |
| `WriteStart`, `EditStart` | `writeFile.Run` and `editFile.Run` up to `os.WriteFile`, with what they have read |
| `WriteDone`, `WriteFails` | `os.WriteFile` and the rest; a failure leaves the file, or the beginning of the new text |
| `ExecStart`, `ExecCannotStart` | `execTool.Run` up to a running shell, or none |
| `ShellExits`, `Deadline`, `Interrupt`, `PipesClose` | what `exec.Cmd.Run` waits for and reacts to |
| `ExecReturns` | what `Run` makes of the error, the exit code and the two contexts (`Outcome`) |
| `OtherWrites`, `Restart` | another program; the end of the process, in a write or elsewhere |

`ReadTracker` keeps the content of what was read, but nothing looks at it, so
`seen` is a set of paths: an edit of a file that has changed since it was read
goes ahead, although the comment at `file.go:13-15` speaks of the current file.
A refusal changes nothing and has no action. A text is a sequence over two
symbols, one of them the newline. `diffOps` is the longest-common-subsequence
walk, as recursive functions; `Explains` says, without reference to how a diff
is made, when one is right for two texts.

When an interrupt comes as the shell ends well, or before it is started,
`Cmd.Run` returns the context's error, and `Run` reports that the shell cannot be
run (`exec.go:130-134`) before it comes to the check for an interrupt at
`exec.go:139`. `Outcome` does the same, and the run `interrupt` shows it.

### ConfigStore

Files have names and inodes, since two processes may have the same temporary
file open: `Create` empties what has the name, `Write` writes to the file that
was opened, whatever it is called by then, `Rename` and the removal in
`WriteFails` act on the name. `Overlay` is a write over another process's longer
text. `Start` is what `run` does with every command: load the layers, put the
flags on top, validate, and only then look at the subcommand. Three settings
stand for three kinds: one that is judged together with another (`endpoint`,
`ca_cert`) and one with a closed list of values that is parsed from flags,
environment and `config set`, but taken from files as it is (`mode`).

A file is a map by names as they are spelled there, since the parts of the code
do not agree on them: `encoding/json`, by which `mergeFile` reads a file into
`Config`, takes a name in any case and leaves a setting alone on null (`Taken`);
`config set`, `config unset` and `fileHasKey` go by the exact name, and by whether
it is there. Each key has its own spelling and one other (`Variant`). With both in
a file the one that comes later decides; `config set` writes the names in order,
capitals first, and a file from an editor is taken to be in that order too. The steps
are those of Unix; on Windows the second of two processes is refused the
temporary file.

## 3. The runs

| Run | Instance | Properties | States |
|---|---|---|---|
| `audit` | 2 processes, 2 bodies, 3 lines | `TypeOK`, `LoggerAtTail`, `CleanLogVerifies`, `VerifiedLogIsComplete`, `EditsAreDetected`, `LogIsAJournal` | 54,897 |
| `session` | 2 processes, 2 transcripts, 2 messages, 2 lines | `TypeOK`, `AckedBeforeTearSurvive`, `TranscriptHasNoGap`, `TranscriptsAreJournals` | 511,182 |
| `gate` | 7 requests, 2 turns, 1 sub-agent turn, 3 inputs, histories not continued beyond 11 events | `TypeOK`, `NothingForbiddenRuns`, `AuditTellsOfEveryRun`, `SubagentStaysInBounds`, `GateKeepsConsent` | 1,051,792 |
| `context` | window of 20 units, floor of 2 messages, 1 recent result, 2 turns, 2 inputs, 2 starts | `RequestsWellFormed`, `OverThresholdOnlyAtFloor`, `CompactionSettles`, `TranscriptCoversMemory`, `CompactionKeepsRecent`, `EveryRunEnds` | 748,908 |
| `stream` | texts of up to 6 symbols and 6 longer ones, 4 native calls in 1 to 3 fragments, pieces of up to 7 symbols and more | `TypeOK`, `AssembledFromOwnFragments`, `CompleteReplyHasAllThatWasSent`, `IdsDistinct`, `ReadsAsAWhole`, `ProbeBelievesOnlyWholeCalls` | 340,718 |
| `workspace` | one file, texts of up to 4 symbols and 4 longer ones, edits of up to 2 symbols, one line of context | `TypeOK`, `AuditedDiffIsTheChange`, `ExecTellsTheTruth`, `OnlyHeldOutputKeepsACommand` | 140,396 |
| `config` | 2 processes, 4 inodes, 7 typed settings, 3 files from an editor with names in two spellings and a null, 4 project files, 4 environments, 2 sets of flags | `TypeOK`, `UpdatesTakeEffect`, `SettingsStayUsable`, `SetIsWhatIsLoaded` | about 170,000 |
| `search` | 5 source files and directories or 5 of skills, 4 trees, 5 queries, 2 matches, 3 items, pages of 1 and 2 lines, 2 changes or failed reads during each look | `SkillsTypeOK`, `ShownWasThere`, `PagesAddUp`, `SilentResultIsComplete`, `DiscoveryLayersSkills` | 680,621 |

What they show:

- **audit.** `LoggerAtTail` relates each running logger's memory to the file,
  `CleanLogVerifies` says that any succession of sessions, closed, killed or
  with failing writes, leaves a verifying log. `VerifiedLogIsComplete` holds
  even for processes that overlap and writes that are torn: if `Verify` is
  content, every acknowledged record is on its line, in order.
  `EditsAreDetected` applies each single edit to each reachable verifying log.
  `LogIsAJournal` is the refinement of `Journal`, for processes that overlap and
  writes that are torn as well. What does not hold of two sessions that are open
  at a time on one workspace, where `Open` does not exclude it, is that the log
  verifies: both continue from the same record, although `audit.go:153-154` says a
  new process continues the existing file; hence `Clean` in `CleanLogVerifies`.
- **session.** `AckedBeforeTearSurvive` says how far the promise of a resumable
  transcript goes: up to the first write that left bytes and failed.
  `TranscriptHasNoGap` says that what a session alone on its transcript leaves there
  is what it found and was given to append, from the beginning and without an
  omission, up to its first failed write: that an error the agent ignores comes
  again with every later `Append` is what keeps a resume from joining messages
  between which others are missing. `TranscriptsAreJournals` is
  the refinement of `Journal`, for resumes of a transcript that is still written.
- **gate.** The first properties are stated over the history only, not over
  the engine's state: what ran, under which mode, with which answer before it,
  and against the default rules and the rules file as they are, not as merged.
  In `NothingForbiddenRuns` consent is to the very request (`Consented`), or to
  another one that has its tool and its summary and was allowed always
  (`KeyApproved`). The second is what the code does and not what its
  documentation says, which is the run `not_shown`; that it is the keys alone
  that make the difference is the theorem `DistinctKeysWouldDo`.
  `AuditTellsOfEveryRun` pairs records with what they are about from the record's
  side: a tool that failed or was interrupted leaves no `tool_call` record, and
  none is asked for.
  `GateKeepsConsent` is the refinement of `Consent`, which has its own account of
  what stands, is asked, is due and runs.
- **context.** `RequestsWellFormed` is about what the server receives, for any
  interleaving of turns, delegation, `/compact`, `/clear`, failed streams,
  kills and a resume. `EveryRunEnds` is the liveness property.

- **stream.** `ReadsAsAWhole` is the refinement of `Reply`: however the text is
  cut up, over chunks and over lines, the operator sees the same and the agent
  gets the same calls. `AssembledFromOwnFragments` says the same of native calls
  and any interleaving of their fragments. `CompleteReplyHasAllThatWasSent` is
  about the end: what is taken as a complete reply, with or without an end
  marker, has every event that was on the wire. That an early end is taken as
  complete is part of it; a native call cut short then has arguments that are
  no JSON and is refused by `runTools` (`BadCall` in `Agent`).
  `ProbeBelievesOnlyWholeCalls` relates the adapter of the session to what was on
  the wire in reply to the test request, for every way the reply comes or fails.
- **workspace.** `AuditedDiffIsTheChange` holds the audited diff against the
  file before and after: whoever has one and the diff can tell the other, up to
  the end of the last line. It leaves out the case that another program writes
  between the tool's read and its write; the diff then is of what was read.
  `ExecTellsTheTruth` goes through every order of exit, deadline, interrupt and
  pipes that stay open, and says of each kind of result when it may be given; for
  "cannot run" of a command that was begun that is an interrupt alone, which
  the code does not mean to report like this (`interrupt`).
  `OnlyHeldOutputKeepsACommand` says how far the timeout reaches: time and again
  there is no command, or its shell is gone and something it left behind holds
  its output open. That it goes no further is seen in the run `interrupt` too.
- **config.** `UpdatesTakeEffect` says that `config set` is all or nothing, at
  every step it may fail or be killed at, as long as updates do not overlap. If
  they do, one may be lost, and a mixture of two may be put in place.
  `SettingsStayUsable` relates what `config set` accepts to what every later
  command demands. It has two exceptions, which the code has: `endpoint` and
  `ca_cert` are accepted each for itself and refused together, by `config
  unset` as well, until a flag or the environment helps; and when `config unset`
  takes a name out of a file that has it under another spelling too, that value
  takes effect, which nobody has judged. `SetIsWhatIsLoaded` says that `config set`
  is heard in any case, whatever the file has under other spellings: it holds
  because the lower case of the keys sorts last. What `config show` says of a
  value's origin is not modelled, see the end of this section.
- **search.** `SilentResultIsComplete` is what the model relies on: a result that
  does not say it was stopped or truncated has every file, and every line, that
  matched, stayed as it was and could be read, whatever happened to the others
  meanwhile and whatever else could not be read. What cannot be read is left out
  in silence; the comment at `search.go:169` says that this is meant, and nothing
  else in the repository says otherwise.
  `ShownWasThere` is the converse: no line under a wrong number, no file under a
  path it never had. `PagesAddUp` follows the notices from page to page.
  `DiscoveryLayersSkills` holds the set against the files as they are, with a
  reading of frontmatter that is not the parser's.

Bounds, and why they suffice. `MaxLines` caps the lines of a file and the
numbers given out: three lines are a first, a middle and a last record, which
is what the chain, the edits and the gap after a failure need; two lines in the
transcripts allow a message before and one after a tear. `MaxTurns = 2` and
`SubTurns = 1` reach both sides of the loop condition at both depths.
`MaxInputs` caps lines at the prompt: three allow a request, a change of mode
and another request. `MaxStarts` caps starts: two are a session and a resume of
it. `ShortHistory` bounds the history of the gate run: a state with more than 11
events is not expanded. With `Window = 20` both elision and
dropping happen, and stop at the floor; the constants of the code (6 recent
results, 4 kept messages) are parameters, here 1 and 2, so that conversations of
a few messages go past them. In `context` the estimator's rate is
one or two after each reply (`Rates`), so that a conversation that was below the
threshold may be far above it in the next turn. In `stream` six symbols are enough
for an open tag in any place, cut anywhere, with false starts before and after
it; the longer texts have two calls, markup that is no call, a tag inside a
call, a stray close tag and an open tag at the end. In `workspace` texts of four
symbols have up to four lines of two kinds; the longer ones give two hunks with
what is left out between them, and one is past `MaxLines`, so that it is only
summed up. In `config` four inodes are two names and two open files; a history is
not continued once two updates have overlapped (`Alone`), since no property
speaks of what follows. In `search` a behaviour is about source files or about
skills; five paths give a directory in a directory, a skipped one beside it, and
a file beside both, two matches and three items make each limit cut a result of
the other, and two changes are one before and one after a step, or a rename and
what takes its place, or one of them and a read that fails (`MaxChanges` counts
both).

`SessionStore.cfg` uses symmetry in processes, transcripts and messages,
`ConfigStore.cfg` in processes and inodes, which no action or property tells
apart, and neither checks liveness; the view `Files` of the latter leaves out what
is in an inode that has no name and is not open, which is emptied or written
over before it is used again. `AgentContext.cfg` has
the view `Conversation`, which leaves out mode, approvals and history: in that
instance every tool that changes something is on the auto-allow list, so
`Evaluate` always answers "allow" and no guard or property of the run depends on
what the view leaves out. It also leaves out the rate of a sub-agent, which has
one turn and never uses what it learns, and takes all ends after the last start for one. Deadlock is not checked: sessions may stop for good,
and bounds stop the models.

Fairness (`FairSpec`, for `EveryRunEnds` only): `WF_vars(Progress)`, where
`Progress` are the program's own steps. One goroutine takes them and nothing
preempts it; a request ends at the latest at `RequestTimeout`, which
`context.WithTimeout` enforces (`StreamFails`, or `Cancelled`); a tool is
assumed to return. That the server answers, or that the operator types or
answers anything, is not assumed, which is why a run may come to rest at
`confirm`. `Workspace` assumes that time passes (`WF_vars(Deadline)`, a timer) and
that `Run` returns once there is nothing more to wait for
(`WF_vars(ExecReturns)`). That what holds a command's output open ends some time
is not assumed, for nothing in the code sees to it: `exec.Cmd.WaitDelay` is not
set.

### Disagreements between the documentation and the code

| Run | What TLC finds |
|---|---|
| `session_torn` | kill in a write, resume, one message: it is glued to the torn line, and the next resume does not have it |
| `resume_orphans` | delegation, kill or exit, resume, compaction: the delegating call is dropped and its result stays, since the sub-agent's messages stand between them in the transcript |
| `not_shown` | `a` to one edit of a file, and the next edit of that file, another one, runs unasked; so with writes of one length and commands that begin alike |
| `interrupt` | an interrupt as the shell ends well: "cannot run" goes to the model, and not the interrupt to the agent. Were the tests in `exec.go:123-141` in the other order, the run would find a command whose deadline has passed and that was interrupted, and that never ends while something holds its output |

Each is in `PROJECT.json` under `findings` with the sentence it contradicts.
Three more were met on the way and have no run of their own:

- Compaction protects the last messages, whoever wrote them (`context.go:240`),
  so a run of a few turns may drop the request it is for; `USAGE.md:147-148` says
  that "your current request" is always kept. `CompactionKeepsRecent` says what is
  kept.
- After `q` at a prompt `Run` returns nil (`agent.go:357`), so that the session goes
  on at the prompt, or, from within a sub-agent, with the delegating agent's
  next turn; `USAGE.md:80` says "End the session now". The model does as the code does
  (`AnswerQuit`), and `GateKeepsConsent` covers what follows.
- `originOf` says that it "reports which layer supplied a value"
  (`cmd/mkr/config.go:117`), but `fileHasKey` looks for the exact name and takes null
  for a value, where the loader takes a name in any case and ignores null, and
  flags are none of its layers; `config show` may name a layer the value is not
  from. It changes nothing and is not modelled.

## 4. What is proved

Forty-one theorems, for every value of the constants that satisfies the named
assumptions. These say little more than what the code's own types say: `AuditAssumption`,
`SessionAssumption` (a length and a sharing mode), `TranscriptAssumption` (sizes
are natural numbers), `PermissionAssumption` (rules are lists of requests,
`rememberKey` is a function of them), `AgentAssumption` (delegation changes
something, replies ask for tools, budgets are numbers), `ConfigAssumption`
(what is typed after `config set` is for a key there is; a file holds settings,
or does not parse), `TagsAssumption` (neither tag is empty), `ProbeAssumption`
(what a list of models is), `WorkspaceAssumption` (files hold sequences of
symbols), `FileTreeAssumption` (paths are sequences of names, and the directory of
a path is one), `SearchAssumption` (what is there to begin with is a tree with
the workspace in it; files hold lines), `SkillsAssumption` and
`StreamAssumption`. Two say something more. `SkillsAssumption` has that no skill
has the empty name, which `parseFile` refuses (`Valid`), and that the paths at
which `scan` looks are among `Paths`, without which the model would take a file for
absent that nobody could put there. `StreamAssumption` has a conjunct that is about
the server: if it gives ids, it gives no two calls of a reply the same one. The
code relies on it, for it keeps what id it is sent, and of the theorems
`DistinctIds` needs it. TLC evaluates each assumption in its run.

TLC had agreed with each property before it was proved, and was asked about the
strengthenings on the instances of section 3 as well.

| Theorem | Property | Inductive invariant, and why it is needed |
|---|---|---|
| `AuditLogTypeCorrect` | `TypeOK` | `Shape`: an open last line is a line, only an open log has a failed writer |
| `LoggerStaysAtTail`, `SequentialLogVerifies` | `LoggerAtTail`, `CleanLogVerifies` | each needs the other: a record chains only if the logger's memory matches the last line |
| `VerifiedLogsAreComplete` | `VerifiedLogIsComplete` | `OnlyAcked`: a log that verifies has nothing beside the acknowledged records but one whose newline is missing; else a failed write could later be taken for an acknowledged one |
| `EditsAreAlwaysDetected` | `EditsAreDetected` | none: it is true of every log that verifies |
| `LogImplementsJournal` | `LogIsAJournal` | `TypeInv`, and `WriteIsJournalled` of `Lemmas`: one write to any file is a step of `Journal`, or a stutter |
| `SessionStoreTypeCorrect` | `TypeOK` | as above, and an unused identifier has no transcript |
| `AckedAlwaysSurvive` | `AckedBeforeTearSurvive` | `Survived`: untorn, the transcript is exactly what was acknowledged; torn, there is one message more to spare while its newline is missing, for the next write spoils that one |
| `NoTranscriptHasAGap` | `TranscriptHasNoGap` | `AloneUnlessShared`: a transcript that was never shared has one session at a time, so that its lines are that session's up to the first write that failed |
| `TranscriptsImplementJournal` | `TranscriptsAreJournals` | `SurviveInv`, `WriteIsJournalled` |
| `AgentTypeCorrect` | `TypeOK` | `AtWork` (a call that is waited for is there, and of a tool its agent has; a sub-agent has a delegation above it) and `Prompted` (an agent that runs has its system prompt) |
| `OnlyOverThresholdAtFloor` | `OverThresholdOnlyAtFloor` | none but the types; `CompactReachesFloor`: what `compact` returns is below the target or at the floor |
| `CompactionAlwaysSettles` | `CompactionSettles` | `CompactSettled`: compacting again changes nothing |
| `CompactionAlwaysKeepsRecent` | `CompactionKeepsRecent` | an action property: `CompactIs` says which places of a conversation elision and dropping leave as they were |
| `RequestsAlwaysWellFormed` | `RequestsWellFormed` | `OrderInv`, below |
| `TranscriptAlwaysCoversMemory` | `TranscriptCoversMemory` | `CoverInv`, below |
| `AuditAlwaysTells`, `SubagentAlwaysInBounds` | `AuditTellsOfEveryRun`, `SubagentStaysInBounds` | `Told`: an approved call has just been logged as allowed; what runs, or was delegated, is the last thing its agent did. Both are about a history in which two agents alternate. Of a tool that left no record the first says nothing |
| `NothingForbiddenEverRuns` | `NothingForbiddenRuns` | `Law`: what is asked about or approved may run under the mode in force at the end of the history, and each approval that is remembered is the key of a request that was allowed always since it was set |
| `DistinctKeysWouldDo` | `OnlyWhatWasShownRuns` | none but the last: if no two requests have one key (`KeysTellApart`, which is not so of this code), consent by key is consent to the request |
| `SessionKeepsConsent` | `GateKeepsConsent` | `TypeInv`: each step of the session is a step of `Consent` or a stutter |
| `ConfigTypeCorrect` | `TypeOK` | what a process holds, at each of its steps, is settings for the keys there are |
| `UpdatesAlwaysTakeEffect` | `UpdatesTakeEffect` | `Undisturbed`: the one update under way holds what the file is to become, in a file that is called `*.tmp` and is not the user's, emptied before it is written |
| `SettingsAlwaysStayUsable` | `SettingsStayUsable` | the same, and `UpdateKeepsUsable`: what `parseValue` accepts is valid in any configuration that was, setting by setting |
| `SetIsAlwaysLoaded` | `SetIsWhatIsLoaded` | the same as for `UpdatesAlwaysTakeEffect`; what is put in place has the key in its own spelling, which `Taken` prefers |
| `StreamInvariant` | | `Sound` and `StageSound`, below |
| `StreamTypes` | `TypeOK` | `Sound` |
| `CallsFromOwnFragments` | `AssembledFromOwnFragments` | `Heard`, of `Sound`: each entry of the accumulator is what those of its fragments say that have arrived, whatever lies between them |
| `CompleteReplies` | `CompleteReplyHasAllThatWasSent` | `DoneSound`, of `Sound`: a reply is done only when no event is waiting, and then its calls are those of the accumulator and the filter |
| `DistinctIds` | `IdsDistinct` | `Counted`, of `Sound`: the filter's calls are numbered in order; and the accumulator's are the server's or numbered by their place |
| `RepliesReadAsAWhole` | `ReadsAsAWhole` | `ReadTo`, of `Sound`: what is read, with what is held back and what is still to come, reads as the whole text does |
| `BelievedOnlyWhole` | `ProbeBelievesOnlyWholeCalls` | `StageSound`: a test is made with native calls and knows of the model only what was listed |
| `WorkspaceTypes` | `TypeOK` | `ToolSound`: what is left of a command's shell goes with what `Wait` will say |
| `CommandsToldTruly` | `ExecTellsTheTruth` | `ToolSound`: a shell that is killed, or not waited for, has a cause, and one that is killed has no code of its own |
| `DiffIsTheChange` | `AuditedDiffIsTheChange` | `Unanswered`: a write under way has no result yet; and `DiffExplains`, below |
| `SkillsInvariant` | | `SearchInv`, `ScanTyped` and `Layered`, below |
| `SkillsTypes` | `SkillsTypeOK` | `Typed`: what each kind of look consists of; a walk that is at its limit has nothing left to visit |
| `ShowsWhatWasThere` | `ShownWasThere` | `FilesWereSeen`: what is on the agenda as a file has been one since the search began |
| `PagesAreTheFile` | `PagesAddUp` | `PagesGoOn`: a page whose notice says there is more has the lines up to the one it names |
| `SilenceMeansAll` | `SilentResultIsComplete` | an action property, by `NothingLost` and `ListIsWhole`, below |
| `SkillsAreLayered` | `DiscoveryLayersSkills` | an action property, by `FoundSoFar`, below |

**Audit log.** The step of the chain is the lemma `ChainExtends`: a verifying log,
extended by the record that `MakeRecord` builds from its last hash and length,
verifies. That the logger's memory is of the last line depends on no other
process being at the log (`Clean`); a failed write leaves `Clean` false if it left
bytes, and otherwise leaves the file alone with a logger that can never write
again. `VerifiedLogsAreComplete` needs none of this, and holds of processes that
overlap.

**Well-formed requests.** Between the reply and the last tool result a
conversation is not well formed: calls are still to be answered. `Whole` is the
conversation with those answers filled in, and `OrderInv` speaks of it: `Ordered`,
each agent's conversation in the first session is answered call by call until
calls are abandoned; `Resumable`, as long as nothing was delegated neither the
conversation nor the transcript has a result without its call, so that a resume
begins with one the server accepts; `Idle`, when the agent sends, nothing is left
over. Compaction cuts between groups of a call and its results (`GroupLenIs`),
so what it leaves is again paired (`BackedCompacted`).

**Transcript and memory.** `TranscriptCoversMemory` looks for the conversation in
the transcript from the front, one message after the other. `Covers` says that
there are rising places at which it stands, which is easy to keep: places stay
when the transcript grows, go when compaction drops their message, and elision
changes only sizes. `FoundIs` shows that the search from the front
finds a conversation that has such places, since it is nowhere behind them.

**The gate.** What an action does to the gate and to the history is one of a few
kinds: nothing, a call checked, asked about, begun, delegated, ended, a mode set,
a start, a stop. `StepKinds` goes through the actions once, and the four theorems
go through the kinds.

**Streamed replies.** A reply comes as chunks of text and fragments of calls, cut up
anyhow, and `Sound` says how far it has come: `DataSound`, what the lines of the event at
hand are of what the server sent last; `FilterSound`, that the accumulator holds
all fragments but those of this event (`Heard`), and the filter all text but this
event's (`ReadTo`); `DoneSound`, what there is in the end. The heart of it is
`ReadTo`. The filter keeps no account of the text it has read, so the claim is
about its future: for any text `u` that may still come, what the filter has shown
and called already, put before what a reading of its buffer followed by `u` would show,
is a reading of the whole text followed by `u`. One turn of `drain` keeps this
(`OpenCall` and `CloseCall`, by what `Strings` says of the first place of a tag
in a longer text), so does holding back what may be the beginning of a tag, and
appending a piece only says what `u` begins with. `drain` and the reading are recursive
functions on the length of what is left; that they end is shown at a shortest
text at which they would not.

**The diff.** `DiffExplains` goes up `diff.go`. `splitLines` cuts a text into
lines. The script of `diffOps` is a path through both texts, from `<<0, 0>>` to both
ends, on which an equal line goes one on in both, a deleted one in the old and an
inserted one in the new (`Leads`); it is so whatever the table of longest common subsequences holds,
since the walk falls back on a deletion or an insertion. `groupHunks` keeps
the places near a change, and a run of them makes a hunk that stands, in both
texts, where the path is at its two ends (`HunkIs`); a hunk that has no line of
a side begins at 1 there. Between two runs there are only equal lines, so that
the texts agree there (`SameBetween`). Therefore the hunks, each where it says,
turn the one text into the other. That the script is a *longest* one is claimed
nowhere and not proved.

**Searches.** `NothingLost` says, of a walk that has not been stopped and of each
file that has stayed as it was since it began, is under the root and in no skipped directory,
and is not missed, nor a directory above it (a reading that fails adds to `missed`, and
so takes from what is claimed exactly what it may lose, `MissedIsSound`):
either it is on the agenda, or a directory above it is (`Pending`), or what it
is to give is among what has been found (`Tell`). A file that stays as it was
keeps every directory above it in place (`AboveIsDirectory`), since what others
do leaves a tree (`PutIs`, `UnlinkIs`, `MoveIs`); so a directory that is visited gives
way to an entry that is still above the file, or is the file (`OnTheWayIs`).
At the limit a walk is stopped, and says so. An empty agenda has nothing
pending, and `Found` either keeps all items or says that it does not. That
`truncate` cuts off the notice of the stop together with the items is no
exception: its own notice takes the place.

**Discovery.** `FoundSoFar` says of each name what is known in the middle of the scan:
a skill that has stayed as it was is found, or is still to come, or the
workspace's of the same name has been found after it, and that one comes only
when nothing of the user's is to come (`UserFirst`). `DeclaresIs` relates the
parser to the reading of frontmatter in the property: the parser
looks for the first closing line and the last line with a key, the property for
any lines that are such.

**Instead of induction.** `countChars`, `dropOldest`, `LaterResults`, `groupLen`, the
prefix a reader gets from a file, the search above, `drain`, `Split`, the walk of
`diffOps`, the lines of a hunk and `Clean` are recursive functions over positions. What is claimed of them for all positions is shown at the least,
or the last, position at which it would fail; that there is one is
`SmallestExists`, from the well-ordering of finite sets by inclusion, and that
such a function exists at all is `IterationExists`, and for functions on a
set with a measure, such as texts by their length, `RecursionExists`.

Only model-checked are `EveryRunEnds` and `OnlyHeldOutputKeepsACommand`, liveness under
fairness, and with it ENABLED, which is out of the proof system's reach; and the
four disagreements that have a run (section 3).

## 5. Plan

Done: the modules of section 2, in the order `AuditLog`, `SessionStore`, `Agent`,
`Stream`, `Workspace`, `ConfigStore`, then `Search`, `Skills`, `Probe`; the
abstract specifications `Journal`, `Consent` and `Reply`; the theorems of
section 4, which are all invariants, action properties and refinements of the
runs that pass.

Left are the liveness properties, should the proof system learn of ENABLED, and
the parts of section 6.

## 6. Not modelled, and why

- Of the provider: the request, the explanations of transport errors, reasoning text, usage and finish reason (which the agent
  ignores).
- Repeated call ids: the XML adapter and the native fallback number calls from
  the start in every reply. `Agent` gives each call an id of its own and so
  speaks of servers that do; the pairing by position, `Paired`, does not
  depend on it, the orphan check does.
- Symbolic links and the grammar of Windows paths (most of `internal/fsjail`):
  they are the host's, and `Search` has paths without links.
- Redaction and the network guard: functions without state, of a text and of an
  address; what they say depends on regular expressions and on the host's names.
- Prompts: text only. That the prompt names the mode of its time and is not
  rebuilt by `/mode` follows from reading `New` and `SetMode`.
- Token usage, rendering, wording of messages: no property is about them. Of the
  terminal, what it returns from `Confirm` and `Prompt` is in `Agent`.
- Records larger than the readers' 16 MiB line limit.
- The self-test and the mock servers: they exercise the program from outside.
