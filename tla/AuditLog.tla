------------------------------ MODULE AuditLog ------------------------------
(***************************************************************************)
(* The hash-chained audit log (internal/audit).  Every mkr process on a    *)
(* workspace opens the same file: it reads the tail to learn the last      *)
(* sequence number and hash, opens the file for append, and then keeps     *)
(* both in memory while it logs.  Nothing re-reads the file afterwards.    *)
(*                                                                         *)
(* SHA-256 is modelled by what it must do, not by its bytes: the digest of *)
(* a record is the sequence of everything it covers, the chain before it   *)
(* included, so two digests are equal only when they cover the same.       *)
(***************************************************************************)
EXTENDS LineFile

CONSTANTS Process,       \* processes that may hold the log open
          Body,          \* what a record says (event, tool, arguments...)
          SharedAppend,  \* TRUE: a second writer may open the file (Unix)
          MaxLines       \* bound: lines of the file, and sequence numbers

ASSUME AuditAssumption == SharedAppend \in BOOLEAN /\ MaxLines \in Nat

VARIABLES file,        \* the log on disk
          pc,          \* closed | tailed (tail read, not yet open) | open
          seq,         \* Logger.seq
          prevHash,    \* Logger.prevHash
          failed,      \* the bufio.Writer holds its sticky error
          acked,       \* history: bodies for which Log returned nil, in order
          overlapped,  \* history: a process read the tail while another ran
          cut          \* history: a failed write left bytes in the file

vars == <<file, pc, seq, prevHash, failed, acked, overlapped, cut>>

Digests == Seq([seq : Nat, body : Body])
Record  == [seq : Nat, prev : Digests, body : Body, hash : Digests]

genesisHash == <<>>

\* hashRecord: covers every field but Hash, PrevHash among them.
hashRecord(s, prev, b) == Append(prev, [seq |-> s, body |-> b])

MakeRecord(s, prev, b) ==
    [seq |-> s, prev |-> prev, body |-> b, hash |-> hashRecord(s, prev, b)]

-----------------------------------------------------------------------------
(* Verification: the walk over the file that "mkr audit verify" makes.     *)

\* The hash that the record on line i has to name as its predecessor.
PrevOf(lines, i) == IF i = 1 THEN genesisHash ELSE lines[i - 1].val.hash

\* Mutation of VerifiesAt: no record's own hash is recomputed.
VerifiesAtIgnoringHash(lines, i) ==
    /\ lines[i].ok
    /\ lines[i].val.seq = i
    /\ lines[i].val.prev = PrevOf(lines, i)

VerifiesAt(lines, i) ==
    /\ lines[i].ok
    /\ lines[i].val.seq = i
    /\ lines[i].val.prev = PrevOf(lines, i)
    /\ lines[i].val.hash = hashRecord(i, lines[i].val.prev, lines[i].val.body)

verify(lines) == \A i \in 1..Len(lines) : VerifiesAt(lines, i)

-----------------------------------------------------------------------------
Init ==
    /\ file = EmptyFile
    /\ pc = [p \in Process |-> "closed"]
    /\ seq = [p \in Process |-> 0]
    /\ prevHash = [p \in Process |-> genesisHash]
    /\ failed = [p \in Process |-> FALSE]
    /\ acked = <<>>
    /\ overlapped = FALSE
    /\ cut = FALSE

\* Mutation of tail: the sequence resumes one short of the last record's.
tailOffByOne(p) ==
    LET n == Len(file.lines) IN
    /\ pc[p] = "closed"
    /\ WellFormed(file)
    /\ pc' = [pc EXCEPT ![p] = "tailed"]
    /\ seq' = [seq EXCEPT ![p] = n - 1]
    /\ prevHash' = [prevHash EXCEPT ![p] = PrevOf(file.lines, n + 1)]
    /\ overlapped' = (overlapped \/ \E q \in Process \ {p} : pc[q] # "closed")
    /\ UNCHANGED <<file, failed, acked, cut>>

\* The first half of Open.  A log with a malformed line is refused: tail
\* returns an error and the session does not start.
tail(p) ==
    LET n == Len(file.lines) IN
    /\ pc[p] = "closed"
    /\ WellFormed(file)
    /\ pc' = [pc EXCEPT ![p] = "tailed"]
    /\ seq' = [seq EXCEPT ![p] = IF n = 0 THEN 0 ELSE file.lines[n].val.seq]
    /\ prevHash' = [prevHash EXCEPT ![p] = PrevOf(file.lines, n + 1)]
    /\ overlapped' = (overlapped \/ \E q \in Process \ {p} : pc[q] # "closed")
    /\ UNCHANGED <<file, failed, acked, cut>>

\* Mutation of Open: a log that is not empty is begun again.
OpenTruncating(p) ==
    /\ pc[p] = "tailed"
    /\ pc' = [pc EXCEPT ![p] = "open"]
    /\ file' = EmptyFile
    /\ UNCHANGED <<seq, prevHash, failed, acked, overlapped, cut>>

\* The second half.  Where the handle denies write sharing, the open fails
\* while another process has the log, and that session does not start.
Open(p) ==
    /\ pc[p] = "tailed"
    /\ pc' = [pc EXCEPT ![p] =
                IF SharedAppend \/ \A q \in Process : pc[q] # "open"
                  THEN "open" ELSE "closed"]
    /\ UNCHANGED <<file, seq, prevHash, failed, acked, overlapped, cut>>

\* Can p number and place one more record, within the bound?
CanLog(p) == pc[p] = "open" /\ seq[p] < MaxLines /\ Len(file.lines) < MaxLines

\* Mutation of Log: no Flush, so the caller is told the record is down while
\* it is still in the process's buffer.
LogUnflushed(p, b) ==
    /\ CanLog(p) /\ ~failed[p]
    /\ seq' = [seq EXCEPT ![p] = @ + 1]
    /\ prevHash' = [prevHash EXCEPT ![p] = hashRecord(seq[p] + 1, @, b)]
    /\ acked' = Append(acked, b)
    /\ UNCHANGED <<file, pc, failed, overlapped, cut>>

\* Log: number the record, chain it, write it with its newline, and only then
\* move the chain on.
Log(p, b) ==
    /\ CanLog(p) /\ ~failed[p]
    /\ seq' = [seq EXCEPT ![p] = @ + 1]
    /\ file' = WriteLine(file, MakeRecord(seq[p] + 1, prevHash[p], b), "line")
    /\ prevHash' = [prevHash EXCEPT ![p] = hashRecord(seq[p] + 1, @, b)]
    /\ acked' = Append(acked, b)
    /\ UNCHANGED <<pc, failed, overlapped, cut>>

\* Mutation of LogFails: the writer forgets its error, and the next record is
\* written with a gap in the numbers.
LogFailsRetryable(p, b, how) ==
    /\ CanLog(p) /\ ~failed[p]
    /\ seq' = [seq EXCEPT ![p] = @ + 1]
    /\ file' = WriteLine(file, MakeRecord(seq[p] + 1, prevHash[p], b), how)
    /\ cut' = (cut \/ how # "none")
    /\ UNCHANGED <<pc, prevHash, failed, acked, overlapped>>

\* Log whose write fails (full disk), or that the process is killed in: seq
\* has moved, the chain has not, and some of the record may be in the file.
LogFails(p, b, how) ==
    /\ CanLog(p) /\ ~failed[p]
    /\ seq' = [seq EXCEPT ![p] = @ + 1]
    /\ file' = WriteLine(file, MakeRecord(seq[p] + 1, prevHash[p], b), how)
    /\ failed' = [failed EXCEPT ![p] = TRUE]
    /\ cut' = (cut \/ how # "none")
    /\ UNCHANGED <<pc, prevHash, acked, overlapped>>

\* Every later Log of that process: the writer returns its stored error, and
\* the agent, which ignores what Log returns, carries on.
LogAfterFailure(p) ==
    /\ CanLog(p) /\ failed[p]
    /\ seq' = [seq EXCEPT ![p] = @ + 1]
    /\ UNCHANGED <<file, pc, prevHash, failed, acked, overlapped, cut>>

\* The session ends, by Close or by being killed between two records.
Close(p) ==
    /\ pc[p] = "open"
    /\ pc' = [pc EXCEPT ![p] = "closed"]
    /\ failed' = [failed EXCEPT ![p] = FALSE]
    /\ UNCHANGED <<file, seq, prevHash, acked, overlapped, cut>>

Next ==
    \E p \in Process :
       \/ tail(p)
       \/ Open(p)
       \/ \E b \in Body : Log(p, b)
       \/ \E b \in Body, how \in Cuts : LogFails(p, b, how)
       \/ LogAfterFailure(p)
       \/ Close(p)

Spec == Init /\ [][Next]_vars
-----------------------------------------------------------------------------
(* Properties.                                                             *)

\* The types of the log, of the loggers and of the history.
TypeOK ==
    /\ file \in FileOf(Record)
    /\ pc \in [Process -> {"closed", "tailed", "open"}]
    /\ seq \in [Process -> Nat]
    /\ prevHash \in [Process -> Digests]
    /\ failed \in [Process -> BOOLEAN]
    /\ acked \in Seq(Body)
    /\ overlapped \in BOOLEAN
    /\ cut \in BOOLEAN

\* Sessions that follow one another and whose writes complete.
Clean == ~overlapped /\ ~cut

\* A running logger's memory and the file agree: at most one process is at
\* the log, it holds the hash of the last record, and, unless its writer has
\* failed, that record's sequence number; what was acknowledged is what is
\* in the file.  This is what makes the next record chain.
LoggerAtTail ==
    Clean =>
        /\ ~file.open
        /\ Len(acked) = Len(file.lines)
        /\ \A i \in 1..Len(acked) : acked[i] = file.lines[i].val.body
        /\ \A p, q \in Process : pc[p] # "closed" /\ pc[q] # "closed" => p = q
        /\ \A p \in Process : pc[p] # "closed" =>
             /\ prevHash[p] = PrevOf(file.lines, Len(file.lines) + 1)
             /\ ~failed[p] => seq[p] = Len(file.lines)

\* While sessions follow one another, however they ended, the log they left
\* verifies: a restarted process continues the chain the last one left, even
\* after a write that failed without leaving a byte.
CleanLogVerifies == Clean => verify(file.lines)

\* A log that verifies has lost nothing: each record for which Log returned
\* nil is on its line, in order, whatever overlapped or was cut short.
VerifiedLogIsComplete ==
    verify(file.lines) =>
        /\ Len(acked) <= Len(file.lines)
        /\ \A i \in 1..Len(acked) : file.lines[i].val.body = acked[i]

Without(s, k) == [i \in 1..Len(s) - 1 |-> s[IF i < k THEN i ELSE i + 1]]
Swapped(s, k) == [s EXCEPT ![k] = s[k + 1], ![k + 1] = s[k]]

\* Changing what one record says, taking a record out from among the others,
\* or exchanging two neighbours turns a log that verifies into one that does
\* not.  Cutting the end off does not: the record count tells that.
EditsAreDetected ==
    LET L == file.lines IN
    verify(L) =>
        /\ \A i \in 1..Len(L), b \in Body :
             b # L[i].val.body => ~verify([L EXCEPT ![i].val.body = b])
        /\ \A i \in 1..Len(L) - 1 : ~verify(Without(L, i)) /\ ~verify(Swapped(L, i))

Recovered == INSTANCE Journal WITH
    entries <- GoodPrefix(file),
    condition <- Condition(file)

\* The log is a journal, however many processes are at it: no record that was
\* whole is ever changed or lost, and after a write that was cut short none
\* is added to those that can be verified (Open, Log, verify).
LogIsAJournal == Recovered!Spec
=============================================================================
