------------------------------ MODULE Strings -------------------------------
(***************************************************************************)
(* The functions of Go's packages strings and sort that mkr uses, on       *)
(* sequences of symbols and on sets of numbers.                            *)
(***************************************************************************)
EXTENDS Integers, FiniteSetsExt, SequencesExt

\* strings.Index: part stands in s with n symbols before it.
Places(s, part) ==
    {n \in 0..(Len(s) - Len(part)) : SubSeq(s, n + 1, n + Len(part)) = part}

Has(s, part) == Places(s, part) # {}
Before(s, part) == SubSeq(s, 1, Min(Places(s, part)))
After(s, part) == SubSeq(s, Min(Places(s, part)) + Len(part) + 1, Len(s))

\* The pieces of s between the occurrences of sep, which do not overlap.
Split(s, sep) ==
    LET pieces[n \in 0..Len(s)] ==
            LET t == SubSeq(s, n + 1, Len(s)) IN
            IF Has(t, sep)
            THEN <<Before(t, sep)>> \o pieces[n + Min(Places(t, sep)) + Len(sep)]
            ELSE <<t>>
    IN pieces[0]

\* An empty part stands before, between and after the symbols.
Count(s, part) == IF part = <<>> THEN Len(s) + 1 ELSE Len(Split(s, part)) - 1

Replace(s, old, new) == Before(s, old) \o new \o After(s, old)

ReplaceEach(s, old, new) ==
    IF old = <<>> THEN FlattenSeq([k \in 1..Len(s) |-> new \o <<s[k]>>]) \o new
    ELSE LET pieces == Split(s, old) IN
         FlattenSeq([k \in 1..Len(pieces) |-> IF k = 1 THEN pieces[k] ELSE new \o pieces[k]])

\* sort.Ints: the elements of a finite set of numbers, the least one first.
Ascending(S) ==
    CHOOSE s \in [1..Cardinality(S) -> S] :
        \A j, k \in 1..Cardinality(S) : j < k => s[j] < s[k]

\* The elements of s at these places, in the order they have in s.
At(s, places) ==
    LET order == Ascending(places) IN [k \in 1..Cardinality(places) |-> s[order[k]]]
=============================================================================
