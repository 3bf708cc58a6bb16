-------------------------------- MODULE Diff --------------------------------
(***************************************************************************)
(* The unified diff that goes into the audit log (internal/tools/diff.go), *)
(* and what it is for: whoever has one of the two texts and the diff can   *)
(* tell the other, line by line.                                           *)
(***************************************************************************)
EXTENDS Strings

CONSTANTS Newline,
          Context,  \* lines of context around a change
          MaxLines  \* of a text that is compared line by line

ASSUME DiffAssumption == Context \in Nat \ {0} /\ MaxLines \in Nat

\* A final newline ends the last line and does not begin another.
splitLines(s) ==
    LET lines == Split(s, <<Newline>>) IN
    IF s = <<>> THEN <<>> ELSE IF Last(lines) = <<>> THEN Front(lines) ELSE lines

Op(kind, text, aLine, bLine) ==
    [kind |-> kind, text |-> text, aLine |-> aLine, bLine |-> bLine]

\* How far one may be in a and in b.
Positions(a, b) == (0..Len(a)) \X (0..Len(b))

\* Mutation of diffOps: the loop over what is left of b is missing.
diffOpsCut(a, b) ==
    LET walk[at \in Positions(a, b)] ==
            LET i == at[1]
                j == at[2] IN
            IF i = Len(a) THEN <<>>
            ELSE IF j < Len(b) /\ a[i + 1] = b[j + 1]
            THEN <<Op("equal", a[i + 1], i + 1, j + 1)>> \o walk[<<i + 1, j + 1>>]
            ELSE <<Op("delete", a[i + 1], i + 1, 0)>> \o walk[<<i + 1, j>>]
    IN walk[<<0, 0>>]

\* The edit script from a to b, along a longest common subsequence: lcs[at]
\* is the length of one of what follows.
diffOps(a, b) ==
    LET lcs[at \in Positions(a, b)] ==
            LET i == at[1]
                j == at[2] IN
            IF i = Len(a) \/ j = Len(b) THEN 0
            ELSE IF a[i + 1] = b[j + 1] THEN lcs[<<i + 1, j + 1>>] + 1
            ELSE Max({lcs[<<i + 1, j>>], lcs[<<i, j + 1>>]})
        walk[at \in Positions(a, b)] ==
            LET i == at[1]
                j == at[2] IN
            IF i = Len(a) /\ j = Len(b) THEN <<>>
            ELSE IF i < Len(a) /\ j < Len(b) /\ a[i + 1] = b[j + 1]
            THEN <<Op("equal", a[i + 1], i + 1, j + 1)>> \o walk[<<i + 1, j + 1>>]
            ELSE IF i < Len(a) /\ (j = Len(b) \/ lcs[<<i + 1, j>>] >= lcs[<<i, j + 1>>])
            THEN <<Op("delete", a[i + 1], i + 1, 0)>> \o walk[<<i + 1, j>>]
            ELSE <<Op("insert", b[j + 1], 0, j + 1)>> \o walk[<<i, j + 1>>]
    IN walk[<<0, 0>>]

\* One contiguous run of operations.  A side it has no line of begins at 1.
buildHunk(ops) ==
    LET aLines == {ops[k].aLine : k \in 1..Len(ops)} \ {0}
        bLines == {ops[k].bLine : k \in 1..Len(ops)} \ {0}
        start(lines) == IF lines = {} THEN 1 ELSE Min(lines) IN
    [aStart |-> start(aLines), aCount |-> Cardinality(aLines),
     bStart |-> start(bLines), bCount |-> Cardinality(bLines), ops |-> ops]

\* Every change with the lines around it, runs that touch taken together.
groupHunks(ops) ==
    LET changed == {k \in 1..Len(ops) : ops[k].kind # "equal"}
        keep == {k \in 1..Len(ops) : \E c \in changed : c - Context <= k /\ k <= c + Context}
        starts == {k \in keep : k - 1 \notin keep}
        end(k) == Max({e \in keep : k <= e /\ k..e \subseteq keep}) IN
    [n \in 1..Cardinality(starts) |->
        LET k == Ascending(starts)[n] IN buildHunk(SubSeq(ops, k, end(k)))]

\* A diff: its hunks, or only the numbers of lines.
Hunks(hunks) == [summary |-> FALSE, hunks |-> hunks]
Summary == [summary |-> TRUE, hunks |-> <<>>]

UnifiedDiff(before, after) ==
    LET a == splitLines(before)
        b == splitLines(after) IN
    IF before = after THEN Hunks(<<>>)
    ELSE IF Len(a) > MaxLines \/ Len(b) > MaxLines THEN Summary
    ELSE Hunks(groupHunks(diffOps(a, b)))

-----------------------------------------------------------------------------
(* What a diff is for.                                                     *)

TextOf(hunk, kinds) ==
    LET of == {k \in 1..Len(hunk.ops) : hunk.ops[k].kind \in kinds} IN
    [k \in 1..Cardinality(of) |-> hunk.ops[Ascending(of)[k]].text]

\* Where the k-th hunk says it is in either text, it says what is there.
HunkFits(a, b, h) ==
    /\ SubSeq(a, h.aStart, h.aStart + h.aCount - 1) = TextOf(h, {"equal", "delete"})
    /\ SubSeq(b, h.bStart, h.bStart + h.bCount - 1) = TextOf(h, {"equal", "insert"})

\* Between two hunks, before the first and after the last, a and b agree.
RestAgrees(a, b, hunks) ==
    \A k \in 0..Len(hunks) :
        LET fromA == IF k = 0 THEN 1 ELSE hunks[k].aStart + hunks[k].aCount
            fromB == IF k = 0 THEN 1 ELSE hunks[k].bStart + hunks[k].bCount
            toA == IF k = Len(hunks) THEN Len(a) ELSE hunks[k + 1].aStart - 1
            toB == IF k = Len(hunks) THEN Len(b) ELSE hunks[k + 1].bStart - 1 IN
        SubSeq(a, fromA, toA) = SubSeq(b, fromB, toB)

\* No hunk has more of what did not change than it may.
NoMoreThanContext(hunks) ==
    \A k \in 1..Len(hunks) : \A i \in 1..Len(hunks[k].ops) :
        \E c \in 1..Len(hunks[k].ops) :
            /\ hunks[k].ops[c].kind # "equal"
            /\ c - Context <= i /\ i <= c + Context

Explains(diff, a, b) ==
    /\ diff.summary => Len(a) > MaxLines \/ Len(b) > MaxLines
    /\ ~diff.summary =>
          /\ \A k \in 1..Len(diff.hunks) : HunkFits(a, b, diff.hunks[k])
          /\ RestAgrees(a, b, diff.hunks)
          /\ NoMoreThanContext(diff.hunks)
=============================================================================
