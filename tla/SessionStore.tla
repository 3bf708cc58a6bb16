---------------------------- MODULE SessionStore ----------------------------
(***************************************************************************)
(* Session transcripts (internal/session) and how cmd/mkr opens them.  A   *)
(* new session writes a transcript of its own; a resumed one first loads   *)
(* what an earlier session left, by name or "last", and then appends to    *)
(* the same file.  The loading and the opening are two steps, and another  *)
(* process may have the same transcript open all the while.                *)
(***************************************************************************)
EXTENDS LineFile

CONSTANTS Process,       \* processes that run sessions
          Sid,           \* session identifiers; a transcript file each
          Msg,           \* conversation messages
          SharedAppend,  \* TRUE: a second writer may open the file (Unix)
          MaxLines       \* bound: messages of one session, told or written

ASSUME SessionAssumption == SharedAppend \in BOOLEAN /\ MaxLines \in Nat

VARIABLES files,   \* the transcripts
          used,    \* the identifiers whose transcript exists
          latest,  \* the transcripts last modified: one, or none yet
          pc,      \* off | loaded (history read, file not yet open) | open
          sid,     \* the session a process runs
          told,    \* history: what a session loaded and was given to append
          failed,  \* Session's bufio.Writer holds its sticky error
          acked,   \* history: messages for which Append returned nil
          torn,    \* history: how many were, when a write first left bytes
          shared   \* history: two processes were at one transcript at a time

vars == <<files, used, latest, pc, sid, told, failed, acked, torn, shared>>

NotTorn == MaxLines + 1

Init ==
    /\ files = [s \in Sid |-> EmptyFile]
    /\ used = {}
    /\ latest = {}
    /\ pc = [p \in Process |-> "off"]
    /\ sid \in [Process -> Sid]
    /\ told = [p \in Process |-> <<>>]
    /\ failed = [p \in Process |-> FALSE]
    /\ acked = [s \in Sid |-> <<>>]
    /\ torn = [s \in Sid |-> NotTorn]
    /\ shared = [s \in Sid |-> FALSE]

Others(p, s) == {q \in Process \ {p} : pc[q] # "off" /\ sid[q] = s}

\* Mutation of StartFresh: the new transcript is not among those listed.
StartFreshUnlisted(p, s) ==
    /\ pc[p] = "off"
    /\ s \notin used
    /\ latest' = {s}
    /\ pc' = [pc EXCEPT ![p] = "open"]
    /\ sid' = [sid EXCEPT ![p] = s]
    /\ told' = [told EXCEPT ![p] = <<>>]
    /\ UNCHANGED <<files, used, failed, acked, torn, shared>>

\* runChat without -resume: NewID is unlike every other, Create makes the file.
StartFresh(p, s) ==
    /\ pc[p] = "off"
    /\ s \notin used
    /\ used' = used \cup {s}
    /\ latest' = {s}
    /\ pc' = [pc EXCEPT ![p] = "open"]
    /\ sid' = [sid EXCEPT ![p] = s]
    /\ told' = [told EXCEPT ![p] = <<>>]
    /\ UNCHANGED <<files, failed, acked, torn, shared>>

\* Load: the messages up to the first line that does not parse.  No error is
\* reported for what follows it.
Load(p, s) ==
    /\ pc[p] = "off"
    /\ s \in used
    /\ pc' = [pc EXCEPT ![p] = "loaded"]
    /\ sid' = [sid EXCEPT ![p] = s]
    /\ told' = [told EXCEPT ![p] = GoodPrefix(files[s])]
    /\ shared' = [shared EXCEPT ![s] = @ \/ Others(p, s) # {}]
    /\ UNCHANGED <<files, used, latest, failed, acked, torn>>

\* -resume ID, and -resume last, which is whichever was modified last even
\* when a session is still running on it.
ResumeByID(p) == \E s \in used : Load(p, s)
ResumeLast(p) == \E s \in latest : Load(p, s)

\* Mutation of Create: the transcript is truncated when it is opened.
CreateTruncating(p) ==
    /\ pc[p] = "loaded"
    /\ pc' = [pc EXCEPT ![p] = "open"]
    /\ files' = [files EXCEPT ![sid[p]] = EmptyFile]
    /\ UNCHANGED <<used, latest, sid, told, failed, acked, torn, shared>>

\* Create on a transcript that exists: append to it as it is.  Where the
\* handle denies write sharing this fails while another process has it open.
Create(p) ==
    /\ pc[p] = "loaded"
    /\ pc' = [pc EXCEPT ![p] =
                IF SharedAppend \/ \A q \in Others(p, sid[p]) : pc[q] # "open"
                  THEN "open" ELSE "off"]
    /\ UNCHANGED <<files, used, latest, sid, told, failed, acked, torn, shared>>

\* Room, within the bound, for one more message of the session and of the file.
CanAppend(p) ==
    /\ pc[p] = "open"
    /\ Len(told[p]) < MaxLines
    /\ Len(files[sid[p]].lines) < MaxLines
    /\ Len(acked[sid[p]]) < MaxLines

\* Append, called by the agent for each message it adds to its conversation and
\* by its sub-agents, which are given the same Session, for theirs.  What the
\* agent does with its conversation otherwise, compaction and Reset (/clear),
\* calls nothing here: the transcript goes on from where it is.
AppendMsg(p, m) ==
    LET s == sid[p] IN
    /\ CanAppend(p) /\ ~failed[p]
    /\ told' = [told EXCEPT ![p] = Append(@, m)]
    /\ files' = [files EXCEPT ![s] = WriteLine(@, m, "line")]
    /\ latest' = {s}
    /\ acked' = [acked EXCEPT ![s] = Append(@, m)]
    /\ UNCHANGED <<used, pc, sid, failed, torn, shared>>

\* The write fails, or the process is killed in it; some of the line may be
\* in the file.  The agent ignores the error, and the session goes on.
AppendFails(p, m, how) ==
    LET s == sid[p] IN
    /\ CanAppend(p) /\ ~failed[p]
    /\ told' = [told EXCEPT ![p] = Append(@, m)]
    /\ files' = [files EXCEPT ![s] = WriteLine(@, m, how)]
    /\ latest' = IF how = "none" THEN latest ELSE {s}
    /\ failed' = [failed EXCEPT ![p] = TRUE]
    /\ torn' = [torn EXCEPT ![s] =
                  IF how # "none" /\ @ = NotTorn THEN Len(acked[s]) ELSE @]
    /\ UNCHANGED <<used, pc, sid, acked, shared>>

\* Mutation of AppendAfterFailure: the writer forgets its error and goes on.
AppendForgiving(p, m) ==
    LET s == sid[p] IN
    /\ CanAppend(p) /\ failed[p]
    /\ told' = [told EXCEPT ![p] = Append(@, m)]
    /\ files' = [files EXCEPT ![s] = WriteLine(@, m, "line")]
    /\ latest' = {s}
    /\ acked' = [acked EXCEPT ![s] = Append(@, m)]
    /\ UNCHANGED <<used, pc, sid, failed, torn, shared>>

\* Every later Append of that session: the writer returns its stored error.
AppendAfterFailure(p, m) ==
    /\ CanAppend(p) /\ failed[p]
    /\ told' = [told EXCEPT ![p] = Append(@, m)]
    /\ UNCHANGED <<files, used, latest, pc, sid, failed, acked, torn, shared>>

\* The session ends, by Close or by being killed between two messages; or it
\* fails to start, killed or refused by the audit log after it has loaded.
End(p) ==
    /\ pc[p] # "off"
    /\ pc' = [pc EXCEPT ![p] = "off"]
    /\ told' = [told EXCEPT ![p] = <<>>]
    /\ failed' = [failed EXCEPT ![p] = FALSE]
    /\ UNCHANGED <<files, used, latest, sid, acked, torn, shared>>

Next ==
    \E p \in Process :
       \/ \E s \in Sid : StartFresh(p, s)
       \/ ResumeByID(p)
       \/ ResumeLast(p)
       \/ Create(p)
       \/ \E m \in Msg : AppendMsg(p, m)
       \/ \E m \in Msg, how \in Cuts : AppendFails(p, m, how)
       \/ \E m \in Msg : AppendAfterFailure(p, m)
       \/ End(p)

Spec == Init /\ [][Next]_vars
-----------------------------------------------------------------------------
(* Properties.                                                             *)

\* The types of the transcripts, of the processes and of the history.
TypeOK ==
    /\ files \in [Sid -> FileOf(Msg)]
    /\ used \subseteq Sid
    /\ latest \subseteq used
    /\ pc \in [Process -> {"off", "loaded", "open"}]
    /\ sid \in [Process -> Sid]
    /\ told \in [Process -> Seq(Msg)]
    /\ failed \in [Process -> BOOLEAN]
    /\ acked \in [Sid -> Seq(Msg)]
    /\ torn \in [Sid -> 0..NotTorn]
    /\ shared \in [Sid -> BOOLEAN]

\* What was acknowledged before the first write that was cut short is what
\* Load recovers first, in order, however many sessions have been at the
\* transcript since and whatever failed in them.
AckedBeforeTearSurvive ==
    \A s \in Sid :
        LET g == GoodPrefix(files[s]) IN
        \A i \in 1..Len(acked[s]) :
            i <= torn[s] => i <= Len(g) /\ g[i] = acked[s][i]

\* A transcript has no gap.  Of a session that has it to itself, a resume will
\* find the beginning: what the session itself found there and then, in order,
\* every message that it and its sub-agents gave to Append since, all of them
\* while no write has failed.  This is about the session and its file; what the
\* agent still has in memory is less after a compaction or a /clear, and
\* Agent's TranscriptCoversMemory is about that.
TranscriptHasNoGap ==
    \A p \in Process :
        LET s == sid[p]
            g == GoodPrefix(files[s])
        IN pc[p] # "off" /\ ~shared[s] /\ torn[s] = NotTorn =>
             /\ Len(g) <= Len(told[p])
             /\ \A i \in 1..Len(g) : told[p][i] = g[i]
             /\ ~failed[p] => Len(told[p]) = Len(g)

Transcript(s) == INSTANCE Journal WITH
    entries <- GoodPrefix(files[s]),
    condition <- Condition(files[s])

\* Each transcript is a journal, whichever sessions are at it, one after the
\* other or at once: what Load returns only ever grows, by one message at a
\* time, until a write is cut short, and then never changes again, but that
\* a last message without its newline may be lost (Create, Append, Load).
TranscriptsAreJournals ==
    [][\A s \in Sid :
          \/ Transcript(s)!Next
          \/ UNCHANGED <<GoodPrefix(files[s]), Condition(files[s])>>]_vars

\* A message acknowledged is never lost to a later resume: each is where it
\* was appended among the messages that Load returns.
NothingAckedIsLost ==
    \A s \in Sid :
        LET g == GoodPrefix(files[s]) IN
        \A i \in 1..Len(acked[s]) : i <= Len(g) /\ g[i] = acked[s][i]
=============================================================================
