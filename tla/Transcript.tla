----------------------------- MODULE Transcript -----------------------------
(***************************************************************************)
(* The conversation an agent holds in memory, and its compaction           *)
(* (internal/agent/context.go).  Text is modelled by how much room it      *)
(* takes: content has a size, and the estimator turns an amount of text    *)
(* into tokens at a rate that each reply of the server may recalibrate.    *)
(***************************************************************************)
EXTENDS Naturals, Sequences

CONSTANTS Window,      \* the model's context window, 0 when unknown
          KeepRecent,  \* keepRecentToolResults
          MinKept,     \* minKeptExchanges
          MarkerSize   \* size of the text that stands for an elided result

ASSUME TranscriptAssumption ==
    Window \in Nat /\ KeepRecent \in Nat /\ MinKept \in Nat /\ MarkerSize \in Nat

\* id: which request a user message is, which call a tool result answers.
\* calls: the ids of the tool calls an assistant message makes.
\* by: the depth of the agent that wrote it (not part of the message).
Message == [role : {"system", "user", "assistant", "tool"}, id : Nat,
            calls : Seq(Nat), size : Nat, by : 0..1]

System(d) == [role |-> "system", id |-> 0, calls |-> <<>>, size |-> 1, by |-> d]
User(i, d) == [role |-> "user", id |-> i, calls |-> <<>>, size |-> 1, by |-> d]
Assistant(ids, n, d) ==
    [role |-> "assistant", id |-> 0, calls |-> ids, size |-> n, by |-> d]
ToolResult(i, n, d) == [role |-> "tool", id |-> i, calls |-> <<>>, size |-> n, by |-> d]

\* Content, the calls it makes and the framing of each message.
countChars(msgs) ==
    LET sum[i \in 0..Len(msgs)] ==
            IF i = 0 THEN 0
            ELSE sum[i - 1] + msgs[i].size + Len(msgs[i].calls) + 1
    IN sum[Len(msgs)]

estimate(rate, msgs) == rate * countChars(msgs)

\* completionReserve is a fifth, compactThreshold three quarters; both
\* products are truncated.
usable == (Window * 4) \div 5
target == (usable * 3) \div 4

needsCompaction(rate, msgs) == usable > 0 /\ estimate(rate, msgs) > target

-----------------------------------------------------------------------------
\* How many tool results come after position i.
LaterResults(msgs, i) ==
    LET cnt[j \in i..Len(msgs)] ==
            IF j = i THEN 0
            ELSE cnt[j - 1] + (IF msgs[j].role = "tool" THEN 1 ELSE 0)
    IN cnt[Len(msgs)]

\* Mutation of elideOldToolResults: one recent result too few is spared.
elideOneTooMany(msgs) ==
    [i \in 1..Len(msgs) |->
        IF /\ msgs[i].role = "tool"
           /\ LaterResults(msgs, i) + 1 >= KeepRecent
           /\ msgs[i].size > MarkerSize
        THEN [msgs[i] EXCEPT !.size = MarkerSize] ELSE msgs[i]]

\* The bodies of all but the KeepRecent last tool results become a marker,
\* unless they are no longer than the marker.
elideOldToolResults(msgs) ==
    [i \in 1..Len(msgs) |->
        IF /\ msgs[i].role = "tool"
           /\ LaterResults(msgs, i) >= KeepRecent
           /\ msgs[i].size > MarkerSize
        THEN [msgs[i] EXCEPT !.size = MarkerSize] ELSE msgs[i]]

\* Mutation of groupLen: every message is a group of its own.
groupLenWithoutResults(msgs, i) == 1

\* The group at position i: a message without calls by itself, one with calls
\* and all the tool results that directly follow.
groupLen(msgs, i) ==
    IF msgs[i].calls = <<>> THEN 1
    ELSE LET stop == {j \in i + 1..Len(msgs) + 1 :
                        j = Len(msgs) + 1 \/ msgs[j].role # "tool"}
         IN (CHOOSE j \in stop : \A k \in stop : j <= k) - i

\* Where the body begins, after the system prompt if there is one.
BodyStart(msgs) == IF msgs # <<>> /\ msgs[1].role = "system" THEN 2 ELSE 1

\* What is left when everything of the body before position i is dropped.
KeepFrom(msgs, i) ==
    SubSeq(msgs, 1, BodyStart(msgs) - 1) \o SubSeq(msgs, i, Len(msgs))

\* No further group can go without cutting into the last MinKept messages.
AtFloor(msgs, i) ==
    LET left == Len(msgs) + 1 - i IN
    left <= MinKept \/ left - groupLen(msgs, i) < MinKept

\* Mutation of dropOldest: one group goes, and that has to do.
dropOldestOnce(rate, msgs) ==
    LET i == BodyStart(msgs) IN
    IF AtFloor(msgs, i) THEN msgs ELSE KeepFrom(msgs, i + groupLen(msgs, i))

\* Groups go from the front until the rest fits or the floor is reached; the
\* first one goes without asking, since the whole did not fit.
dropOldest(rate, msgs) ==
    LET from[i \in BodyStart(msgs)..Len(msgs) + 1] ==
            IF AtFloor(msgs, i) THEN i
            ELSE LET j == i + groupLen(msgs, i) IN
                 IF estimate(rate, KeepFrom(msgs, j)) <= target THEN j
                 ELSE from[j]
    IN KeepFrom(msgs, from[BodyStart(msgs)])

\* Elide first; drop only if that was not enough.
compact(rate, msgs) ==
    LET out == elideOldToolResults(msgs) IN
    IF estimate(rate, out) <= target THEN out ELSE dropOldest(rate, out)

-----------------------------------------------------------------------------
\* The tool results whose call is not in the conversation.
orphanedToolResults(msgs) ==
    LET seen == UNION {{msgs[i].calls[k] : k \in 1..Len(msgs[i].calls)} :
                         i \in 1..Len(msgs)}
    IN {i \in 1..Len(msgs) : msgs[i].role = "tool" /\ msgs[i].id \notin seen}

\* Each call is answered in turn by the messages that directly follow, and
\* no tool result is anything but such an answer.
Paired(msgs) ==
    /\ \A i \in 1..Len(msgs) : \A k \in 1..Len(msgs[i].calls) :
         /\ i + k <= Len(msgs)
         /\ msgs[i + k].role = "tool"
         /\ msgs[i + k].id = msgs[i].calls[k]
    /\ orphanedToolResults(msgs) = {}
=============================================================================
