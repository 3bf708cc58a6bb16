--------------------------- MODULE WorkspaceProofs --------------------------
(***************************************************************************)
(* Proofs about Workspace: what is told of a command is the truth, the     *)
(* files stay texts, and the diff that goes into the audit log is the      *)
(* change, for texts of any length.                                        *)
(***************************************************************************)
EXTENDS Workspace, Lemmas

-----------------------------------------------------------------------------
(* Texts cut and put together (Strings).                                   *)

\* A sequence is split into sequences, and into itself if the separator does
\* not stand in it.
LEMMA SplitIs ==
    ASSUME NEW S, NEW s \in Seq(S), NEW sep \in Seq(S), sep # <<>>
    PROVE  /\ Split(s, sep) \in Seq(Seq(S)) /\ Split(s, sep) # <<>>
           /\ ~Has(s, sep) => Split(s, sep) = <<s>>
  <1> DEFINE N == 0..Len(s)
             V == Seq(Seq(S)) \ {<<>>}
             t(n) == SubSeq(s, n + 1, Len(s))
             first(n) == Min(Places(t(n), sep))
             more == {n \in N : Has(t(n), sep)}
             next == [n \in N |-> IF n \in more THEN n + first(n) + Len(sep) ELSE n]
             mu == [n \in N |-> Len(s) - n]
             comb == [n \in N |-> IF n \in more THEN [v \in V |-> <<Before(t(n), sep)>> \o v]
                                  ELSE [v \in V |-> v]]
             base == [n \in N |-> IF n \in more THEN <<s>> ELSE <<t(n)>>]
             rhs(f, n) == IF Has(t(n), sep)
                          THEN <<Before(t(n), sep)>> \o f[n + first(n) + Len(sep)]
                          ELSE <<t(n)>>
             Eq(f) == f = [n \in N |-> IF Has(SubSeq(s, n + 1, Len(s)), sep)
                              THEN <<Before(SubSeq(s, n + 1, Len(s)), sep)>>
                                   \o f[n + Min(Places(SubSeq(s, n + 1, Len(s)), sep)) + Len(sep)]
                              ELSE <<SubSeq(s, n + 1, Len(s))>>]
             R == CHOOSE f : Eq(f)
  <1>1. /\ Len(s) \in Nat /\ Len(sep) \in Nat /\ Len(sep) > 0 /\ 0 \in N
        /\ s = t(0)
    OBVIOUS
  <1>2. ASSUME NEW n \in N
        PROVE  t(n) \in Seq(S) /\ Len(t(n)) = Len(s) - n
    <2>1. n \in 0..Len(s) /\ s \in Seq(S)
      OBVIOUS
    <2> HIDE DEF N
    <2> QED
      BY <2>1, Halves
  <1>3. ASSUME NEW n \in N, Has(t(n), sep)
        PROVE  /\ Before(t(n), sep) \in Seq(S) /\ first(n) \in Nat
               /\ n + first(n) + Len(sep) \in N
               /\ n < n + first(n) + Len(sep)
    <2> DEFINE u == t(n)
    <2>1. u \in Seq(S) /\ Len(u) = Len(s) - n /\ Has(u, sep)
      BY <1>2, <1>3
    <2> HIDE DEF u
    <2>2. Before(u, sep) \in Seq(S) /\ Min(Places(u, sep)) \in Nat
          /\ Min(Places(u, sep)) + Len(sep) <= Len(u)
      BY <2>1, CutAt, FirstPlace
    <2> DEFINE m == Min(Places(u, sep))
    <2> HIDE DEF m
    <2>3. n + m + Len(sep) \in N /\ n < n + m + Len(sep)
      BY <1>1, <2>1, <2>2 DEF m
    <2> QED
      BY <2>2, <2>3 DEF m, u
  <1>4. next \in [N -> N] /\ mu \in [N -> Nat] /\ \A n \in N : n \in more => mu[next[n]] < mu[n]
    <2>1. ASSUME NEW n \in N
          PROVE  next[n] \in N /\ mu[n] \in Nat /\ (n \in more => mu[next[n]] < mu[n])
      <3>1. n \in more => n + first(n) + Len(sep) \in N /\ n < n + first(n) + Len(sep)
        BY <1>3
      <3> HIDE DEF first
      <3> QED
        BY <1>1, <3>1
    <2> HIDE DEF more, first
    <2> QED
      BY <2>1
  <1>5. base \in [N -> V] /\ comb \in [N -> [V -> V]]
    <2>1. ASSUME NEW n \in N PROVE base[n] \in V
      BY <1>2
    <2>2. ASSUME NEW n \in N, NEW v \in V, n \in more PROVE <<Before(t(n), sep)>> \o v \in V
      <3> DEFINE e == Before(t(n), sep)
      <3>1. e \in Seq(S)
        BY <1>3, <2>2
      <3> HIDE DEF e
      <3>2. <<e>> \in Seq(Seq(S)) /\ v \in Seq(Seq(S)) /\ Len(<<e>>) = 1
        BY <3>1
      <3>3. <<e>> \o v \in Seq(Seq(S)) /\ Len(<<e>> \o v) = 1 + Len(v) /\ Len(v) \in Nat
        BY <3>2, ConcatProperties
      <3> QED
        BY <3>3 DEF e
    <2>3. ASSUME NEW n \in N PROVE comb[n] \in [V -> V]
      <3> HIDE DEF V, t
      <3> QED
        BY <2>2
    <2> HIDE DEF V
    <2> QED
      BY <2>1, <2>3
  <1>6. PICK F \in [N -> V] : Recursive(N, more, next, comb, base, F)
    <2> HIDE DEF N, V, more, next, comb, base, mu
    <2> QED
      BY <1>4, <1>5, RecursionExists
  <1>7. \A n \in N : F[n] = rhs(F, n)
    <2>1. ASSUME NEW n \in N PROVE F[n] = rhs(F, n)
      <3>1. F[n] = IF n \in more THEN comb[n][F[next[n]]] ELSE base[n]
        <4> HIDE DEF N, V, more, next, comb, base
        <4> QED
          BY <1>6 DEF Recursive
      <3>2. n \in more => F[next[n]] \in V /\ next[n] = n + first(n) + Len(sep)
        BY <1>3
      <3> HIDE DEF V, t, first
      <3> QED
        BY <3>1, <3>2
    <2> QED
      BY <2>1
  <1>8. Eq(F)
    <2>1. F = [n \in N |-> rhs(F, n)]
      <3> HIDE DEF rhs, N, V
      <3> QED
        BY <1>7
    <2> QED
      BY <2>1
  <1>9. Eq(R)
    <2> HIDE DEF Eq
    <2> QED
      BY <1>8
  <1>10. Split(s, sep) = R[0]
    BY DEF Split
  <1> HIDE DEF R
  <1>11. \A n \in N : R[n] = rhs(R, n)
    <2>1. R = [n \in N |-> rhs(R, n)]
      BY <1>9
    <2> HIDE DEF rhs, N
    <2> QED
      BY <2>1
  <1>12. \A n \in N : R[n] = F[n]
    <2> DEFINE B == {n \in N : R[n] # F[n]}
    <2>1. \A n \in B : \E m \in B : mu[m] < mu[n]
      <3>1. ASSUME NEW n \in N, R[n] # F[n]
            PROVE  n \in more /\ R[next[n]] # F[next[n]]
        <4>1. n \in more => next[n] = n + first(n) + Len(sep)
          OBVIOUS
        <4> HIDE DEF N, next, first, t, V
        <4> QED
          BY <1>7, <1>11, <3>1, <4>1
      <3> HIDE DEF N, more, next, mu, rhs, R
      <3> QED
        BY <1>4, <3>1
    <2>2. mu \in [N -> Nat] /\ B \subseteq N
      BY <1>4
    <2> HIDE DEF N, mu, B
    <2>3. B = {}
      BY <2>1, <2>2, NoneEndless
    <2> QED
      BY <2>3 DEF B
  <1>13. R[0] \in V
    <2> HIDE DEF N, V
    <2> QED
      BY <1>1, <1>6, <1>12
  <1>14. ~Has(s, sep) => R[0] = <<s>>
    <2> HIDE DEF N, t, first
    <2> QED
      BY <1>1, <1>11
  <1> QED
    BY <1>10, <1>13, <1>14

\* An edit leaves a sequence of the symbols of what was there and what is put
\* in.
LEMMA EditedTyped ==
    ASSUME NEW S, NEW s \in Seq(S), NEW old \in Seq(S), NEW new \in Seq(S),
           NEW all \in BOOLEAN, Count(s, old) > 0, all \/ Count(s, old) = 1
    PROVE  edited(s, old, new, all) \in Seq(S)
  <1>1. CASE ~all
    <2>1. Has(s, old)
      <3>1. CASE old = <<>>
        <4>1. Len(old) = 0 /\ 0 + Len(old) <= Len(s) /\ \A i \in 1..Len(old) : s[0 + i] = old[i]
          BY <3>1
        <4> DEFINE n == 0
        <4> HIDE DEF n
        <4>2. n \in Places(s, old)
          <5>1. n \in Nat /\ n + Len(old) <= Len(s) /\ \A i \in 1..Len(old) : s[n + i] = old[i]
            BY <4>1 DEF n
          <5> QED
            BY <5>1, PlaceIs
        <4> QED
          BY <4>2 DEF Has
      <3>2. CASE old # <<>>
        <4>1. ASSUME ~Has(s, old) PROVE FALSE
          <5>1. Split(s, old) = <<s>>
            BY <3>2, <4>1, SplitIs
          <5>2. Count(s, old) = 0
            BY <3>2, <5>1 DEF Count
          <5> QED
            BY <5>2
        <4> QED
          BY <4>1
      <3> QED
        BY <3>1, <3>2
    <2>2. Before(s, old) \in Seq(S) /\ After(s, old) \in Seq(S)
      BY <2>1, CutAt
    <2>3. Before(s, old) \o new \in Seq(S)
      BY <2>2, ConcatProperties
    <2>4. (Before(s, old) \o new) \o After(s, old) \in Seq(S)
      BY <2>2, <2>3, ConcatProperties
    <2> QED
      BY <1>1, <2>4 DEF edited, Replace
  <1>2. CASE all /\ old = <<>>
    <2> DEFINE q == [k \in 1..Len(s) |-> new \o <<s[k]>>]
    <2>1. \A k \in 1..Len(s) : new \o <<s[k]>> \in Seq(S)
      BY ConcatProperties
    <2>2. q \in Seq(Seq(S))
      BY <2>1
    <2> HIDE DEF q
    <2>3. FlattenSeq(q) \o new \in Seq(S)
      BY <2>2, FlattenTyped, ConcatProperties
    <2> QED
      BY <1>2, <2>3 DEF edited, ReplaceEach, q
  <1>3. CASE all /\ old # <<>>
    <2> DEFINE pieces == Split(s, old)
               q == [k \in 1..Len(pieces) |-> IF k = 1 THEN pieces[k] ELSE new \o pieces[k]]
    <2>1. pieces \in Seq(Seq(S))
      BY <1>3, SplitIs
    <2>2. q \in Seq(Seq(S))
      <3> HIDE DEF pieces
      <3>1. \A k \in 1..Len(pieces) : pieces[k] \in Seq(S) /\ new \o pieces[k] \in Seq(S)
        BY <2>1, ConcatProperties
      <3> QED
        BY <2>1, <3>1
    <2>3. FlattenSeq(q) \in Seq(S)
      <3> HIDE DEF q
      <3> QED
        BY <2>2, FlattenTyped
    <2> QED
      BY <1>3, <2>3 DEF edited, ReplaceEach
  <1> QED
    BY <1>1, <1>2, <1>3

\* The lines of a text are sequences.
LEMMA SplitLinesIs ==
    ASSUME NEW S, NEW s \in Seq(S), Newline \in S
    PROVE  splitLines(s) \in Seq(Seq(S))
  <1> DEFINE lines == Split(s, <<Newline>>)
             X == Seq(S)
  <1>1. lines \in Seq(X) /\ lines # <<>>
    <2> DEFINE sep == <<Newline>>
    <2>1. sep \in Seq(S) /\ sep # <<>>
      OBVIOUS
    <2> HIDE DEF sep
    <2>2. Split(s, sep) \in Seq(Seq(S)) /\ Split(s, sep) # <<>>
      BY <2>1, SplitIs
    <2> QED
      BY <2>2 DEF sep
  <1> HIDE DEF lines, X
  <1>2. Front(lines) \in Seq(X)
    <2>1. Len(lines) - 1 \in 0..Len(lines)
      BY <1>1
    <2> QED
      BY <1>1, <2>1, Halves DEF Front
  <1>3. <<>> \in Seq(X)
    OBVIOUS
  <1> QED
    BY <1>1, <1>2, <1>3 DEF splitLines, lines, X

-----------------------------------------------------------------------------
(* Counting lines: how far one has come in a text grows by one with every  *)
(* line, and stays with every line of the other text.                      *)

Climbs(g, l) ==
    /\ g \in [0..l -> Nat]
    /\ \A m \in 1..l : g[m] = g[m - 1] \/ g[m] = g[m - 1] + 1

\* Where it grows.
Rises(g, l) == {m \in 1..l : g[m] # g[m - 1]}

\* It never goes back.
LEMMA ClimbsUp ==
    ASSUME NEW l \in Nat, NEW g, Climbs(g, l), NEW i \in 0..l, NEW j \in 0..l, i <= j
    PROVE  g[i] <= g[j]
  <1> DEFINE B == {m \in i..l : ~ (g[i] <= g[m])}
  <1>1. ASSUME NEW m \in B, \A k \in B : m <= k PROVE FALSE
    <2>1. m \in i..l /\ ~ (g[i] <= g[m])
      OBVIOUS
    <2>2. m # i
      BY <2>1 DEF Climbs
    <2>3. m - 1 \in i..l /\ m \in 1..l /\ m - 1 \in 0..l /\ ~ (m <= m - 1)
      BY <2>1, <2>2
    <2>4. g[i] <= g[m - 1]
      <3>1. m - 1 \notin B
        <4> HIDE DEF B
        <4> QED
          BY <1>1, <2>3
      <3> QED
        BY <2>3, <3>1
    <2>5. g[m] \in Nat /\ g[m - 1] \in Nat /\ g[i] \in Nat
          /\ (g[m] = g[m - 1] \/ g[m] = g[m - 1] + 1)
      <3>1. m \in 0..l
        BY <2>3
      <3>2. g[m] \in Nat /\ g[m - 1] \in Nat /\ g[i] \in Nat
        BY <2>3, <3>1 DEF Climbs
      <3>3. g[m] = g[m - 1] \/ g[m] = g[m - 1] + 1
        BY <2>3 DEF Climbs
      <3> QED
        BY <3>2, <3>3
    <2> QED
      BY <2>1, <2>4, <2>5
  <1>2. B = {}
    <2>1. B \subseteq Nat
      OBVIOUS
    <2> HIDE DEF B
    <2> QED
      BY <1>1, <2>1, SmallestExists
  <1>3. j \in i..l
    OBVIOUS
  <1> QED
    BY <1>2, <1>3

\* It leaves out no number.
LEMMA ClimbReaches ==
    ASSUME NEW l \in Nat, NEW g, Climbs(g, l), NEW x \in Nat, g[0] < x, x <= g[l]
    PROVE  \E m \in Rises(g, l) : g[m] = x
  <1> DEFINE T == {m \in 0..l : x <= g[m]}
  <1>1. PICK m \in T : \A k \in T : m <= k
    <2>1. T \subseteq Nat
      OBVIOUS
    <2>2. l \in T
      OBVIOUS
    <2> HIDE DEF T
    <2> QED
      BY <2>1, <2>2, SmallestExists
  <1>2. m \in 0..l /\ x <= g[m]
    OBVIOUS
  <1>3. m # 0
    <2>1. 0 \in 0..l /\ g[0] \in Nat
      BY DEF Climbs
    <2> QED
      BY <1>2, <2>1
  <1>4. m \in 1..l /\ m - 1 \in 0..l /\ ~ (m <= m - 1)
    BY <1>2, <1>3
  <1>5. ~ (x <= g[m - 1])
    <2>1. m - 1 \notin T
      <3> HIDE DEF T
      <3> QED
        BY <1>1, <1>4
    <2> QED
      BY <1>4, <2>1
  <1>6. g[m] \in Nat /\ g[m - 1] \in Nat /\ (g[m] = g[m - 1] \/ g[m] = g[m - 1] + 1)
    BY <1>4 DEF Climbs
  <1>7. g[m] = x /\ g[m] # g[m - 1]
    BY <1>2, <1>5, <1>6
  <1> QED
    BY <1>4, <1>7 DEF Rises

\* f counts from 1 to m: its n numbers grow, and none is left out.
Counts(f, n, m) ==
    /\ f \in [1..n -> 1..m]
    /\ \A j, k \in 1..n : j < k => f[j] < f[k]
    /\ \A x \in 1..m : \E k \in 1..n : f[k] = x

\* Then its k-th number is k.
LEMMA CountedInOrder ==
    ASSUME NEW n \in Nat, NEW m \in Nat, NEW f, Counts(f, n, m)
    PROVE  n = m /\ \A k \in 1..n : f[k] = k
  <1> USE DEF Counts
  <1> DEFINE B == {k \in 1..n : f[k] # k}
  <1>1. ASSUME NEW r \in B, \A k \in B : r <= k PROVE FALSE
    <2>1. r \in 1..n /\ f[r] # r /\ f[r] \in 1..m
      OBVIOUS
    <2>2. ASSUME NEW j \in 1..n, j < r PROVE f[j] = j
      <3>1. j \notin B
        <4>1. ~ (r <= j)
          BY <2>1, <2>2
        <4> HIDE DEF B
        <4> QED
          BY <1>1, <4>1
      <3> QED
        BY <3>1
    <2>3. f[r] > r
      <3>1. CASE r = 1
        BY <2>1, <3>1
      <3>2. CASE r # 1
        <4>1. r - 1 \in 1..n /\ r - 1 < r
          BY <2>1, <3>2
        <4>2. f[r - 1] = r - 1 /\ f[r - 1] < f[r]
          BY <2>1, <2>2, <4>1
        <4> QED
          BY <2>1, <4>2
      <3> QED
        BY <3>1, <3>2
    <2>4. r \in 1..m
      BY <2>1, <2>3
    <2>5. PICK k \in 1..n : f[k] = r
      BY <2>4
    <2>6. ~ (k < r)
      BY <2>2, <2>5
    <2>7. k = r \/ r < k
      BY <2>1, <2>6
    <2>8. r < k => f[r] < f[k]
      BY <2>1
    <2> QED
      BY <2>1, <2>3, <2>5, <2>7, <2>8
  <1>2. B = {}
    <2>1. B \subseteq Nat
      OBVIOUS
    <2> HIDE DEF B
    <2> QED
      BY <1>1, <2>1, SmallestExists
  <1>3. \A k \in 1..n : f[k] = k
    BY <1>2
  <1>4. n <= m
    <2>1. n # 0 => n \in 1..n /\ f[n] \in 1..m
      OBVIOUS
    <2> QED
      BY <1>3, <2>1
  <1>5. m <= n
    <2>1. CASE m # 0
      <3>1. m \in 1..m
        BY <2>1
      <3>2. PICK k \in 1..n : f[k] = m
        BY <3>1
      <3> QED
        BY <1>3, <3>2
    <2>2. CASE m = 0
      BY <2>2
    <2> QED
      BY <2>1, <2>2
  <1> QED
    BY <1>3, <1>4, <1>5

\* The places where it grows, in order, are those of the numbers in order.
LEMMA ClimbListed ==
    ASSUME NEW l \in Nat, NEW g, Climbs(g, l)
    PROVE  LET of == Rises(g, l) IN
           /\ Cardinality(of) = g[l] - g[0] /\ g[l] - g[0] \in Nat
           /\ \A r \in 1..Cardinality(of) :
                 Ascending(of)[r] \in of /\ g[Ascending(of)[r]] = g[0] + r
  <1> DEFINE of == Rises(g, l)
             n == Cardinality(of)
             s == Ascending(of)
             m == g[l] - g[0]
             f == [r \in 1..n |-> g[s[r]] - g[0]]
  <1>1. of \subseteq 1..l /\ of \subseteq Nat /\ IsFiniteSet(of)
    <2>1. of \subseteq 1..l /\ 1..l \subseteq Nat
      BY DEF Rises
    <2>2. IsFiniteSet(1..l)
      <3>1. 1 \in Int /\ l \in Int
        OBVIOUS
      <3> QED
        BY <3>1, FS_Interval
    <2> HIDE DEF of
    <2> QED
      BY <2>1, <2>2, FS_Subset
  <1>2. /\ n \in Nat /\ s \in [1..n -> of]
        /\ \A j, k \in 1..n : j < k => s[j] < s[k]
        /\ \A x \in of : \E k \in 1..n : s[k] = x
    <2> HIDE DEF of
    <2> QED
      BY <1>1, AscendingIs
  <1>3. m \in Nat /\ g[0] \in Nat /\ g[l] \in Nat /\ 0 \in 0..l /\ l \in 0..l
    <2>1. 0 \in 0..l /\ l \in 0..l /\ 0 <= l
      OBVIOUS
    <2>2. g[0] \in Nat /\ g[l] \in Nat
      BY <2>1 DEF Climbs
    <2> DEFINE z == 0
    <2> HIDE DEF z
    <2>3. g[z] <= g[l]
      <3>1. z \in 0..l /\ l \in 0..l /\ z <= l
        BY <2>1 DEF z
      <3> QED
        BY <3>1, ClimbsUp
    <2> QED
      BY <2>1, <2>2, <2>3 DEF z
  <1>4. ASSUME NEW x \in of
        PROVE  x \in 1..l /\ x - 1 \in 0..l /\ x \in 0..l /\ g[x] \in Nat /\ g[x - 1] \in Nat
               /\ g[x] = g[x - 1] + 1 /\ g[x] - g[0] \in 1..m
    <2>1. x \in 1..l /\ x - 1 \in 0..l /\ x \in 0..l /\ g[x] # g[x - 1]
      BY DEF Rises
    <2>2. g[x] \in Nat /\ g[x - 1] \in Nat /\ g[x] = g[x - 1] + 1
      BY <2>1 DEF Climbs
    <2>3. g[0] <= g[x - 1]
      <3> DEFINE z == 0
      <3> HIDE DEF z
      <3>1. z \in 0..l /\ x - 1 \in 0..l /\ z <= x - 1
        BY <2>1 DEF z
      <3>2. g[z] <= g[x - 1]
        BY <3>1, ClimbsUp
      <3> QED
        BY <3>2 DEF z
    <2>4. g[x] <= g[l]
      <3>1. x \in 0..l /\ l \in 0..l /\ x <= l
        BY <2>1
      <3> QED
        BY <3>1, ClimbsUp
    <2> QED
      BY <1>3, <2>1, <2>2, <2>3, <2>4
  <1>5. f \in [1..n -> 1..m]
    <2> HIDE DEF of, s, n, m
    <2>1. \A r \in 1..n : g[s[r]] - g[0] \in 1..m
      BY <1>2, <1>4
    <2> QED
      BY <2>1
  <1>6. ASSUME NEW j \in 1..n, NEW k \in 1..n, j < k PROVE f[j] < f[k]
    <2>1. s[j] \in of /\ s[k] \in of /\ s[j] < s[k]
      <3> HIDE DEF of, s, n
      <3> QED
        BY <1>2, <1>6
    <2> DEFINE x == s[j]
               y == s[k]
    <2>2. x \in of /\ y \in of /\ x < y /\ f[j] = g[x] - g[0] /\ f[k] = g[y] - g[0]
      BY <2>1
    <2> HIDE DEF x, y, of, f
    <2>3. x \in 0..l /\ y - 1 \in 0..l /\ x <= y - 1 /\ g[y] = g[y - 1] + 1
          /\ g[x] \in Nat /\ g[y - 1] \in Nat
      <3>1. x \in 0..l /\ g[x] \in Nat
        BY <1>4, <2>2
      <3>2. y \in 0..l /\ y - 1 \in 0..l /\ g[y] = g[y - 1] + 1 /\ g[y - 1] \in Nat
        BY <1>4, <2>2
      <3> QED
        BY <2>2, <3>1, <3>2
    <2>4. g[x] <= g[y - 1]
      BY <2>3, ClimbsUp
    <2> QED
      BY <1>3, <2>2, <2>3, <2>4
  <1>7. ASSUME NEW x \in 1..m PROVE \E k \in 1..n : f[k] = x
    <2> DEFINE y == g[0] + x
    <2>1. y \in Nat /\ g[0] < y /\ y <= g[l]
      BY <1>3
    <2>2. PICK q \in of : g[q] = y
      <3> HIDE DEF y
      <3> QED
        BY <2>1, ClimbReaches
    <2>3. PICK k \in 1..n : s[k] = q
      <3> HIDE DEF of, s, n
      <3> QED
        BY <1>2
    <2>4. f[k] = g[q] - g[0]
      <3> HIDE DEF of, s, n
      <3> QED
        BY <2>3
    <2>5. g[q] - g[0] = x
      BY <1>3, <2>2
    <2> QED
      BY <2>4, <2>5
  <1>8. n = m /\ \A r \in 1..n : f[r] = r
    <2> HIDE DEF of, n, m, s, f
    <2>1. Counts(f, n, m)
      BY <1>5, <1>6, <1>7 DEF Counts
    <2> QED
      BY <1>2, <1>3, <2>1, CountedInOrder
  <1>9. ASSUME NEW r \in 1..n PROVE s[r] \in of /\ g[s[r]] = g[0] + r
    <2>1. s[r] \in of
      <3> HIDE DEF of, s, n
      <3> QED
        BY <1>2
    <2>2. g[s[r]] - g[0] = r
      <3>1. f[r] = r
        BY <1>8
      <3> HIDE DEF s, n, of
      <3> QED
        BY <3>1
    <2>3. g[s[r]] \in Nat
      <3> HIDE DEF s, n, of
      <3> QED
        BY <1>4, <2>1
    <2> HIDE DEF s, n, of
    <2> QED
      BY <1>3, <2>1, <2>2, <2>3
  <1> QED
    BY <1>3, <1>8, <1>9

-----------------------------------------------------------------------------
(* The edit script: a way through both texts.                              *)

OpOf(X) == [kind : {"equal", "delete", "insert"}, text : X, aLine : Nat, bLine : Nat]

\* One operation leads from p to q in a and b, and says what it passes.
Passes(op, a, b, p, q) ==
    \/ /\ q = <<p[1] + 1, p[2] + 1>>
       /\ a[p[1] + 1] = b[p[2] + 1]
       /\ op = Op("equal", a[p[1] + 1], p[1] + 1, p[2] + 1)
    \/ /\ q = <<p[1] + 1, p[2]>>
       /\ op = Op("delete", a[p[1] + 1], p[1] + 1, 0)
    \/ /\ q = <<p[1], p[2] + 1>>
       /\ op = Op("insert", b[p[2] + 1], 0, p[2] + 1)

\* The operations lead along path from a position to the end of both.
Leads(ops, a, b, at, path) ==
    /\ path \in [0..Len(ops) -> Positions(a, b)]
    /\ path[0] = at
    /\ path[Len(ops)] = <<Len(a), Len(b)>>
    /\ \A k \in 1..Len(ops) : Passes(ops[k], a, b, path[k - 1], path[k])

IsScript(ops, X, a, b, at) ==
    ops \in Seq(OpOf(X)) /\ \E path : Leads(ops, a, b, at, path)

\* An operation before a script makes a script.
LEMMA ScriptLonger ==
    ASSUME NEW X, NEW a \in Seq(X), NEW b \in Seq(X), NEW at \in Positions(a, b),
           NEW to \in Positions(a, b), NEW op \in OpOf(X), Passes(op, a, b, at, to),
           NEW ops, IsScript(ops, X, a, b, to)
    PROVE  IsScript(<<op>> \o ops, X, a, b, at)
  <1> DEFINE l == Len(ops)
             N == Positions(a, b)
             O == OpOf(X)
             o == <<op>>
             new == o \o ops
  <1>1. ops \in Seq(O) /\ l \in Nat /\ o \in Seq(O) /\ Len(o) = 1 /\ o[1] = op
    BY DEF IsScript
  <1>2. PICK path : Leads(ops, a, b, to, path)
    BY DEF IsScript
  <1>3. new \in Seq(O) /\ Len(new) = l + 1 /\ new[1] = op /\ \A k \in 1..l : new[1 + k] = ops[k]
    <2> HIDE DEF o, O
    <2>1. /\ o \o ops \in Seq(O) /\ Len(o \o ops) = Len(o) + Len(ops)
          /\ \A i \in 1..Len(o) : (o \o ops)[i] = o[i]
          /\ \A i \in 1..Len(ops) : (o \o ops)[Len(o) + i] = ops[i]
      <3>1. o \in Seq(O) /\ ops \in Seq(O)
        BY <1>1
      <3> QED
        BY <3>1, Joined
    <2>2. 1 \in 1..Len(o)
      BY <1>1
    <2> QED
      BY <1>1, <2>1, <2>2
  <1> HIDE DEF new, o, O
  <1> DEFINE way == [k \in 0..l + 1 |-> IF k = 0 THEN at ELSE path[k - 1]]
  <1>4. /\ path \in [0..l -> N] /\ path[0] = to /\ path[l] = <<Len(a), Len(b)>>
        /\ \A k \in 1..l : Passes(ops[k], a, b, path[k - 1], path[k])
    BY <1>2 DEF Leads
  <1> HIDE DEF N
  <1>5. way \in [0..l + 1 -> N]
    <2>1. ASSUME NEW k \in 0..l + 1, k # 0 PROVE path[k - 1] \in N
      <3>1. k - 1 \in 0..l
        BY <1>1, <2>1
      <3> QED
        BY <1>4, <3>1
    <2>2. at \in N
      BY DEF N
    <2> QED
      BY <2>1, <2>2
  <1>6. way[0] = at /\ way[l + 1] = <<Len(a), Len(b)>>
    BY <1>1, <1>4
  <1>7. ASSUME NEW k \in 1..l + 1 PROVE Passes(new[k], a, b, way[k - 1], way[k])
    <2>1. CASE k = 1
      <3>1. way[k - 1] = at /\ way[k] = to /\ new[k] = op
        BY <1>1, <1>3, <1>4, <2>1
      <3> QED
        BY <3>1
    <2>2. CASE k # 1
      <3>1. k - 1 \in 1..l /\ k - 1 # 0 /\ k # 0 /\ k \in 0..l + 1 /\ k - 1 \in 0..l + 1
            /\ 1 + (k - 1) = k
        BY <1>1, <2>2
      <3>2. way[k - 1] = path[(k - 1) - 1] /\ way[k] = path[k - 1]
        BY <3>1
      <3>3. new[k] = ops[k - 1]
        BY <1>3, <3>1
      <3>4. Passes(ops[k - 1], a, b, path[(k - 1) - 1], path[k - 1])
        BY <1>4, <3>1
      <3> QED
        BY <3>2, <3>3, <3>4
    <2> QED
      BY <2>1, <2>2
  <1> HIDE DEF way
  <1>8. Leads(new, a, b, at, way)
    BY <1>1, <1>3, <1>5, <1>6, <1>7 DEF Leads, N
  <1> QED
    BY <1>3, <1>8 DEF IsScript, new, o, O

\* What diffOps returns is a script of both texts.
LEMMA DiffOpsIs ==
    ASSUME NEW X, NEW a \in Seq(X), NEW b \in Seq(X)
    PROVE  IsScript(diffOps(a, b), X, a, b, <<0, 0>>)
  <1> DEFINE N == Positions(a, b)
             V == Seq(OpOf(X))
             lcs == CHOOSE f : f = [at \in N |->
                        IF at[1] = Len(a) \/ at[2] = Len(b) THEN 0
                        ELSE IF a[at[1] + 1] = b[at[2] + 1] THEN f[<<at[1] + 1, at[2] + 1>>] + 1
                        ELSE Max({f[<<at[1] + 1, at[2]>>], f[<<at[1], at[2] + 1>>]})]
             same(at) == at[1] < Len(a) /\ at[2] < Len(b) /\ a[at[1] + 1] = b[at[2] + 1]
             drop(at) == at[1] < Len(a)
                         /\ (at[2] = Len(b) \/ lcs[<<at[1] + 1, at[2]>>] >= lcs[<<at[1], at[2] + 1>>])
             Eq(f) == f = [at \in N |->
                        IF at[1] = Len(a) /\ at[2] = Len(b) THEN <<>>
                        ELSE IF at[1] < Len(a) /\ at[2] < Len(b) /\ a[at[1] + 1] = b[at[2] + 1]
                        THEN <<Op("equal", a[at[1] + 1], at[1] + 1, at[2] + 1)>>
                             \o f[<<at[1] + 1, at[2] + 1>>]
                        ELSE IF at[1] < Len(a)
                                /\ (at[2] = Len(b)
                                    \/ lcs[<<at[1] + 1, at[2]>>] >= lcs[<<at[1], at[2] + 1>>])
                        THEN <<Op("delete", a[at[1] + 1], at[1] + 1, 0)>>
                             \o f[<<at[1] + 1, at[2]>>]
                        ELSE <<Op("insert", b[at[2] + 1], 0, at[2] + 1)>>
                             \o f[<<at[1], at[2] + 1>>]]
             R == CHOOSE f : Eq(f)
  <1>1. diffOps(a, b) = R[<<0, 0>>]
    BY DEF diffOps
  <1> HIDE DEF lcs
  <1> DEFINE to(at) == IF same(at) THEN <<at[1] + 1, at[2] + 1>>
                       ELSE IF drop(at) THEN <<at[1] + 1, at[2]>>
                       ELSE <<at[1], at[2] + 1>>
             op(at) == IF same(at) THEN Op("equal", a[at[1] + 1], at[1] + 1, at[2] + 1)
                       ELSE IF drop(at) THEN Op("delete", a[at[1] + 1], at[1] + 1, 0)
                       ELSE Op("insert", b[at[2] + 1], 0, at[2] + 1)
             end(at) == at[1] = Len(a) /\ at[2] = Len(b)
             rhs(f, at) == IF end(at) THEN <<>> ELSE <<op(at)>> \o f[to(at)]
             more == {at \in N : ~end(at)}
             next == [at \in N |-> IF at \in more THEN to(at) ELSE at]
             mu == [at \in N |-> (Len(a) - at[1]) + (Len(b) - at[2])]
             comb == [at \in N |-> IF at \in more THEN [v \in V |-> <<op(at)>> \o v]
                                   ELSE [v \in V |-> v]]
             base == [at \in N |-> <<>>]
  <1>2. Len(a) \in Nat /\ Len(b) \in Nat /\ <<0, 0>> \in N
    BY DEF Positions
  <1>3. ASSUME NEW at \in N
        PROVE  /\ at = <<at[1], at[2]>> /\ at[1] \in 0..Len(a) /\ at[2] \in 0..Len(b)
               /\ mu[at] \in Nat
               /\ ~end(at) => /\ to(at) \in N /\ op(at) \in OpOf(X)
                              /\ Passes(op(at), a, b, at, to(at))
                              /\ mu[to(at)] < mu[at]
    <2>1. at = <<at[1], at[2]>> /\ at[1] \in 0..Len(a) /\ at[2] \in 0..Len(b)
      BY DEF Positions
    <2>2. mu[at] \in Nat
      BY <1>2, <2>1
    <2>3. ASSUME same(at)
          PROVE  /\ to(at) \in N /\ op(at) \in OpOf(X) /\ Passes(op(at), a, b, at, to(at))
                 /\ mu[to(at)] < mu[at]
      <3>1. at[1] + 1 \in 1..Len(a) /\ at[2] + 1 \in 1..Len(b)
        BY <1>2, <2>1, <2>3
      <3>2. a[at[1] + 1] \in X
        BY <3>1
      <3>3. to(at) = <<at[1] + 1, at[2] + 1>>
            /\ op(at) = Op("equal", a[at[1] + 1], at[1] + 1, at[2] + 1)
        BY <2>3
      <3>4. to(at) \in N
        BY <1>2, <3>1, <3>3 DEF Positions
      <3>5. op(at) \in OpOf(X)
        BY <1>2, <2>1, <3>2, <3>3 DEF Op, OpOf
      <3>6. mu[to(at)] < mu[at]
        <4>1. mu[to(at)] = (Len(a) - (at[1] + 1)) + (Len(b) - (at[2] + 1))
          BY <3>3, <3>4
        <4> QED
          BY <1>2, <2>1, <4>1
      <3> QED
        BY <2>3, <3>3, <3>4, <3>5, <3>6 DEF Passes
    <2>4. ASSUME ~same(at), drop(at)
          PROVE  /\ to(at) \in N /\ op(at) \in OpOf(X) /\ Passes(op(at), a, b, at, to(at))
                 /\ mu[to(at)] < mu[at]
      <3>1. at[1] + 1 \in 1..Len(a)
        BY <1>2, <2>1, <2>4
      <3>2. a[at[1] + 1] \in X
        BY <3>1
      <3>3. to(at) = <<at[1] + 1, at[2]>> /\ op(at) = Op("delete", a[at[1] + 1], at[1] + 1, 0)
        <4> HIDE DEF same, drop
        <4> QED
          BY <2>4
      <3>4. to(at) \in N
        BY <1>2, <2>1, <3>1, <3>3 DEF Positions
      <3>5. op(at) \in OpOf(X)
        BY <1>2, <2>1, <3>2, <3>3 DEF Op, OpOf
      <3>6. mu[to(at)] < mu[at]
        <4>1. mu[to(at)] = (Len(a) - (at[1] + 1)) + (Len(b) - at[2])
          BY <3>3, <3>4
        <4> QED
          BY <1>2, <2>1, <4>1
      <3> QED
        BY <3>3, <3>4, <3>5, <3>6 DEF Passes
    <2>5. ASSUME ~same(at), ~drop(at), ~end(at)
          PROVE  /\ to(at) \in N /\ op(at) \in OpOf(X) /\ Passes(op(at), a, b, at, to(at))
                 /\ mu[to(at)] < mu[at]
      <3>1. at[2] + 1 \in 1..Len(b)
        BY <1>2, <2>1, <2>5
      <3>2. b[at[2] + 1] \in X
        BY <3>1
      <3>3. to(at) = <<at[1], at[2] + 1>> /\ op(at) = Op("insert", b[at[2] + 1], 0, at[2] + 1)
        <4> HIDE DEF same, drop
        <4> QED
          BY <2>5
      <3>4. to(at) \in N
        BY <1>2, <2>1, <3>1, <3>3 DEF Positions
      <3>5. op(at) \in OpOf(X)
        BY <1>2, <2>1, <3>2, <3>3 DEF Op, OpOf
      <3>6. mu[to(at)] < mu[at]
        <4>1. mu[to(at)] = (Len(a) - at[1]) + (Len(b) - (at[2] + 1))
          BY <3>3, <3>4
        <4> QED
          BY <1>2, <2>1, <4>1
      <3> QED
        BY <3>3, <3>4, <3>5, <3>6 DEF Passes
    <2> HIDE DEF same, drop, to, op, mu, N, end
    <2> QED
      BY <2>1, <2>2, <2>3, <2>4, <2>5
  <1> HIDE DEF to, op, end
  <1>4. next \in [N -> N] /\ mu \in [N -> Nat] /\ \A at \in N : at \in more => mu[next[at]] < mu[at]
    <2>1. \A at \in N : mu[at] \in Nat
      BY <1>3
    <2>2. mu \in [N -> Nat]
      <3> HIDE DEF N
      <3> QED
        BY <2>1
    <2> HIDE DEF N, mu
    <2>3. \A at \in N : at \in more => to(at) \in N /\ mu[to(at)] < mu[at]
      BY <1>3
    <2> QED
      BY <2>2, <2>3
  <1>5. ASSUME NEW o \in OpOf(X), NEW v \in V PROVE <<o>> \o v \in V
    <2> DEFINE s == <<o>>
    <2>1. s \in V
      OBVIOUS
    <2> HIDE DEF s
    <2>2. s \o v \in V
      BY <2>1, ConcatProperties
    <2> QED
      BY <2>2 DEF s
  <1>6. base \in [N -> V] /\ comb \in [N -> [V -> V]]
    <2>1. <<>> \in V
      OBVIOUS
    <2> HIDE DEF N, mu, V
    <2>2. ASSUME NEW at \in N PROVE comb[at] \in [V -> V]
      BY <1>3, <1>5
    <2> QED
      BY <2>1, <2>2
  <1>7. PICK F \in [N -> V] : Recursive(N, more, next, comb, base, F)
    <2> HIDE DEF N, V, more, next, comb, base, mu
    <2> QED
      BY <1>4, <1>6, RecursionExists
  <1>8. \A at \in N : F[at] = rhs(F, at)
    <2>1. ASSUME NEW at \in N PROVE F[at] = rhs(F, at)
      <3>1. F[at] = IF at \in more THEN comb[at][F[next[at]]] ELSE base[at]
        <4> HIDE DEF N, V, more, next, comb, base
        <4> QED
          BY <1>7 DEF Recursive
      <3>2. at \in more => F[next[at]] \in V /\ next[at] = to(at)
        <4>1. at \in more => next[at] \in N /\ next[at] = to(at)
          BY <1>4
        <4> HIDE DEF N, V, next, more
        <4> QED
          BY <4>1
      <3> HIDE DEF N, V
      <3> QED
        BY <3>1, <3>2
    <2> QED
      BY <2>1
  <1>9. ASSUME NEW f PROVE Eq(f) <=> f = [at \in N |-> rhs(f, at)]
    <2>1. [at \in N |->
                        IF at[1] = Len(a) /\ at[2] = Len(b) THEN <<>>
                        ELSE IF at[1] < Len(a) /\ at[2] < Len(b) /\ a[at[1] + 1] = b[at[2] + 1]
                        THEN <<Op("equal", a[at[1] + 1], at[1] + 1, at[2] + 1)>>
                             \o f[<<at[1] + 1, at[2] + 1>>]
                        ELSE IF at[1] < Len(a)
                                /\ (at[2] = Len(b)
                                    \/ lcs[<<at[1] + 1, at[2]>>] >= lcs[<<at[1], at[2] + 1>>])
                        THEN <<Op("delete", a[at[1] + 1], at[1] + 1, 0)>>
                             \o f[<<at[1] + 1, at[2]>>]
                        ELSE <<Op("insert", b[at[2] + 1], 0, at[2] + 1)>>
                             \o f[<<at[1], at[2] + 1>>]] = [at \in N |-> rhs(f, at)]
      <3> HIDE DEF N
      <3> QED
        BY Zenon DEF to, op, end
    <2> HIDE DEF rhs, N
    <2> QED
      BY <2>1
  <1>10. Eq(R)
    <2>1. F = [at \in N |-> rhs(F, at)]
      <3> HIDE DEF rhs, N, V
      <3> QED
        BY <1>8
    <2>2. Eq(F)
      <3> HIDE DEF Eq, rhs
      <3> QED
        BY <1>9, <2>1
    <2> HIDE DEF Eq
    <2> QED
      BY <2>2
  <1> HIDE DEF R
  <1>11. \A at \in N : R[at] = rhs(R, at)
    <2>1. R = [at \in N |-> rhs(R, at)]
      <3> HIDE DEF Eq, rhs
      <3> QED
        BY <1>9, <1>10
    <2> HIDE DEF rhs, N
    <2> QED
      BY <2>1
  <1>12. \A at \in N : IsScript(R[at], X, a, b, at)
    <2> DEFINE B == {at \in N : ~IsScript(R[at], X, a, b, at)}
    <2>1. \A at \in B : \E p \in B : mu[p] < mu[at]
      <3>1. ASSUME NEW at \in N, ~IsScript(R[at], X, a, b, at)
            PROVE  ~end(at) /\ to(at) \in B
        <4>1. ASSUME end(at) PROVE FALSE
          <5> DEFINE path == [k \in 0..0 |-> at]
                     none == <<>>
          <5>1. R[at] = none
            <6> HIDE DEF N
            <6> QED
              BY <1>11, <4>1
          <5>2. at = <<Len(a), Len(b)>>
            BY <1>3, <4>1 DEF end
          <5>3. none \in Seq(OpOf(X)) /\ Len(none) = 0
            OBVIOUS
          <5> HIDE DEF none
          <5>4. Leads(none, a, b, at, path)
            BY <5>2, <5>3 DEF Leads
          <5> HIDE DEF path
          <5> QED
            BY <3>1, <5>1, <5>3, <5>4 DEF IsScript
        <4>2. ~end(at)
          BY <4>1
        <4>3. to(at) \in N /\ op(at) \in OpOf(X) /\ Passes(op(at), a, b, at, to(at))
          BY <1>3, <4>2
        <4>4. R[at] = <<op(at)>> \o R[to(at)]
          <5> HIDE DEF N
          <5> QED
            BY <1>11, <4>2
        <4>5. ASSUME IsScript(R[to(at)], X, a, b, to(at)) PROVE FALSE
          <5> DEFINE o == op(at)
                     r == R[to(at)]
                     t == to(at)
          <5>1. /\ t \in N /\ o \in OpOf(X) /\ Passes(o, a, b, at, t) /\ IsScript(r, X, a, b, t)
                /\ at \in N
            BY <4>3, <4>5
          <5> HIDE DEF o, r, t
          <5>2. IsScript(<<o>> \o r, X, a, b, at)
            BY <5>1, ScriptLonger
          <5> QED
            BY <3>1, <4>4, <5>2 DEF o, r, t
        <4> QED
          BY <4>2, <4>3, <4>5
      <3> QED
        <4> HIDE DEF N, mu
        <4>1. \A at \in N : ~end(at) => mu[to(at)] < mu[at]
          BY <1>3
        <4> QED
          BY <3>1, <4>1
    <2>2. mu \in [N -> Nat] /\ B \subseteq N
      BY <1>4
    <2> HIDE DEF N, mu, B
    <2>3. B = {}
      BY <2>1, <2>2, NoneEndless
    <2> QED
      BY <2>3 DEF B
  <1> QED
    <2> HIDE DEF N
    <2> QED
      BY <1>1, <1>2, <1>12

-----------------------------------------------------------------------------
(* Hunks: what they say of either text is so.                              *)

\* g is how far the operations of seq have come in x: those of the kinds, and
\* no others, pass a line of x, with its number and its text.
OneSide(x, seq, kinds, line, g) ==
    LET l == Len(seq) IN
    /\ Climbs(g, l)
    /\ g[l] <= Len(x)
    /\ line \in [1..l -> Nat]
    /\ \A m \in 1..l : line[m] = IF g[m] # g[m - 1] THEN g[m] ELSE 0
    /\ \A m \in 1..l : seq[m].kind \in kinds <=> g[m] # g[m - 1]
    /\ \A m \in 1..l : g[m] # g[m - 1] => seq[m].text = x[g[m]]

\* What a hunk of seq says of x: where, how many lines and which.
Says(x, seq, kinds, line, g) ==
    LET l == Len(seq)
        lines == {line[m] : m \in 1..l} \ {0}
        first == IF lines = {} THEN 1 ELSE Min(lines) IN
    /\ g[0] \in Nat /\ g[l] \in Nat /\ g[0] <= g[l]
    /\ Cardinality(lines) = g[l] - g[0]
    /\ first = IF g[l] = g[0] THEN 1 ELSE g[0] + 1
    /\ \A h : h.ops = seq =>
          TextOf(h, kinds) = SubSeq(x, first, first + Cardinality(lines) - 1)

\* The lines they pass are in a row, and their texts are those of x.
LEMMA LinesInARow ==
    ASSUME NEW X, NEW x \in Seq(X), NEW seq \in Seq(OpOf(X)), NEW kinds, NEW line, NEW g,
           OneSide(x, seq, kinds, line, g)
    PROVE  Says(x, seq, kinds, line, g)
  <1> DEFINE l == Len(seq)
             lines == {line[m] : m \in 1..l} \ {0}
             first == IF lines = {} THEN 1 ELSE Min(lines)
             of == Rises(g, l)
             lo == g[0]
             hi == g[l]
             n == Cardinality(of)
             s == Ascending(of)
  <1>1. /\ l \in Nat /\ Climbs(g, l) /\ hi <= Len(x) /\ Len(x) \in Nat
        /\ \A m \in 1..l : line[m] = IF g[m] # g[m - 1] THEN g[m] ELSE 0
        /\ \A m \in 1..l : seq[m].kind \in kinds <=> g[m] # g[m - 1]
        /\ \A m \in 1..l : g[m] # g[m - 1] => seq[m].text = x[g[m]]
    BY DEF OneSide
  <1>2. /\ n = hi - lo /\ hi - lo \in Nat
        /\ \A r \in 1..n : s[r] \in of /\ g[s[r]] = lo + r
    BY <1>1, ClimbListed
  <1>3. lo \in Nat /\ hi \in Nat /\ lo <= hi
    <2>1. 0 \in 0..l /\ l \in 0..l
      BY <1>1
    <2>2. lo \in Nat /\ hi \in Nat
      BY <1>1, <2>1 DEF Climbs
    <2> HIDE DEF lo, hi
    <2> QED
      BY <1>2, <2>2
  <1>4. lines = lo + 1..hi
    <2>1. ASSUME NEW y \in lines PROVE y \in lo + 1..hi
      <3>1. PICK m \in 1..l : y = line[m] /\ y # 0
        OBVIOUS
      <3>2. y = g[m] /\ g[m] # g[m - 1] /\ m - 1 \in 0..l /\ m \in 0..l /\ m <= l
        BY <1>1, <3>1
      <3>3. g[m] \in Nat /\ g[m - 1] \in Nat /\ g[m] = g[m - 1] + 1
        BY <1>1, <3>2 DEF Climbs
      <3>4. g[m] <= hi
        <4>1. l \in 0..l /\ m \in 0..l /\ m <= l
          BY <1>1, <3>2
        <4> QED
          BY <1>1, <4>1, ClimbsUp
      <3>5. lo <= g[m - 1]
        <4> DEFINE z == 0
        <4> HIDE DEF z
        <4>1. z \in 0..l /\ m - 1 \in 0..l /\ z <= m - 1
          BY <1>1, <3>2 DEF z
        <4>2. g[z] <= g[m - 1]
          BY <1>1, <4>1, ClimbsUp
        <4> QED
          BY <4>2 DEF z
      <3> HIDE DEF lo, hi
      <3> QED
        BY <1>3, <3>2, <3>3, <3>4, <3>5
    <2>2. ASSUME NEW y \in lo + 1..hi PROVE y \in lines
      <3>1. y \in Nat /\ g[0] < y /\ y <= g[l] /\ y # 0
        BY <1>3
      <3>2. PICK m \in Rises(g, l) : g[m] = y
        BY <1>1, <3>1, ClimbReaches
      <3>3. m \in 1..l /\ line[m] = y
        BY <1>1, <3>2 DEF Rises
      <3> HIDE DEF l
      <3> QED
        BY <3>1, <3>3
    <2> HIDE DEF lines, lo, hi
    <2> QED
      BY <2>1, <2>2
  <1> HIDE DEF lo, hi, lines, n, s, of
  <1>5. Cardinality(lines) = hi - lo
    <2>1. lo + 1 \in Int /\ hi \in Int
      BY <1>3
    <2>2. Cardinality(lo + 1..hi) = IF lo + 1 > hi THEN 0 ELSE hi - (lo + 1) + 1
      BY <2>1, FS_Interval
    <2> QED
      BY <1>3, <1>4, <2>2
  <1>6. first = IF hi = lo THEN 1 ELSE lo + 1
    <2>1. CASE hi = lo
      <3>1. lines = {}
        BY <1>3, <1>4, <2>1
      <3> QED
        BY <2>1, <3>1
    <2>2. CASE hi # lo
      <3>1. lo + 1 \in lines /\ \A y \in lines : lo + 1 <= y
        BY <1>3, <1>4, <2>2
      <3>2. \A y \in lines : (\A z \in lines : y <= z) => y = lo + 1
        <4>1. ASSUME NEW y \in lines, \A z \in lines : y <= z PROVE y = lo + 1
          <5>1. y <= lo + 1 /\ lo + 1 <= y /\ y \in Int
            BY <1>3, <1>4, <3>1, <4>1
          <5> QED
            BY <1>3, <5>1
        <4> QED
          BY <4>1
      <3>3. Min(lines) = lo + 1
        BY <3>1, <3>2 DEF Min
      <3>4. lines # {}
        BY <3>1
      <3> QED
        BY <2>2, <3>3, <3>4
    <2> QED
      BY <2>1, <2>2
  <1> HIDE DEF first
  <1>7. ASSUME NEW h, h.ops = seq
        PROVE  TextOf(h, kinds) = SubSeq(x, first, first + Cardinality(lines) - 1)
    <2> DEFINE t == [k \in 1..n |-> seq[s[k]].text]
               u == SubSeq(x, lo + 1, hi)
    <2>1. {k \in 1..Len(h.ops) : h.ops[k].kind \in kinds} = of
      BY <1>1, <1>7 DEF of, Rises, l
    <2>2. TextOf(h, kinds) = t
      BY <1>7, <2>1 DEF TextOf, n, s
    <2>3. ASSUME NEW k \in 1..n
          PROVE  lo + k \in 1..Len(x) /\ seq[s[k]].text = x[lo + k]
      <3>1. s[k] \in of /\ g[s[k]] = lo + k
        BY <1>2
      <3>2. s[k] \in 1..l /\ g[s[k]] # g[s[k] - 1]
        BY <3>1 DEF of, Rises
      <3>3. seq[s[k]].text = x[lo + k]
        BY <1>1, <3>1, <3>2
      <3>4. lo + k \in 1..Len(x)
        BY <1>1, <1>2, <1>3
      <3> QED
        BY <3>3, <3>4
    <2>4. /\ u \in Seq(X)
          /\ Len(u) = IF lo + 1 <= hi THEN hi - (lo + 1) + 1 ELSE 0
          /\ \A i \in 1..hi - (lo + 1) + 1 : u[i] = x[(lo + 1) + i - 1]
      <3>1. lo + 1 \in Int /\ hi \in Int /\ \A i \in lo + 1..hi : x[i] \in X
        BY <1>1, <1>3
      <3> DEFINE p == lo + 1
      <3> HIDE DEF p
      <3>2. p \in Int /\ hi \in Int /\ \A i \in p..hi : x[i] \in X
        BY <3>1 DEF p
      <3>3. /\ SubSeq(x, p, hi) \in Seq(X)
            /\ Len(SubSeq(x, p, hi)) = IF p <= hi THEN hi - p + 1 ELSE 0
            /\ \A i \in 1..hi - p + 1 : SubSeq(x, p, hi)[i] = x[p + i - 1]
        BY <3>2, SubSeqProperties
      <3> QED
        BY <3>3 DEF p
    <2>5. n \in Nat /\ n = hi - (lo + 1) + 1 /\ Len(u) = n
      <3> HIDE DEF u
      <3> QED
        BY <1>2, <1>3, <2>4
    <2>6. t \in Seq(X) /\ Len(t) = n
      <3>1. \A k \in 1..n : seq[s[k]].text \in X
        BY <2>3
      <3> QED
        BY <2>5, <3>1
    <2>7. ASSUME NEW k \in 1..n PROVE t[k] = u[k]
      <3>1. t[k] = x[lo + k]
        BY <2>3
      <3>2. (lo + 1) + k - 1 = lo + k
        BY <1>3, <2>5
      <3>3. u[k] = x[(lo + 1) + k - 1]
        <4> HIDE DEF u
        <4> QED
          BY <2>4, <2>5
      <3> QED
        BY <3>1, <3>2, <3>3
    <2>8. t = u
      <3> HIDE DEF t, u
      <3> QED
        BY <2>4, <2>5, <2>6, <2>7, SeqEqual
    <2>9. SubSeq(x, first, first + Cardinality(lines) - 1) = u
      <3>1. CASE hi = lo
        <4> DEFINE p == first
                   q == first + Cardinality(lines) - 1
        <4>1. p \in Int /\ q \in Int /\ q < p /\ lo + 1 \in Int /\ hi \in Int /\ hi < lo + 1
          BY <1>3, <1>5, <1>6, <3>1
        <4> HIDE DEF p, q
        <4>2. SubSeq(x, p, q) = <<>>
          BY <4>1, SubSeqEmpty
        <4> DEFINE o == lo + 1
        <4>3. o \in Int /\ hi < o
          BY <4>1
        <4> HIDE DEF o
        <4>4. SubSeq(x, o, hi) = <<>>
          BY <4>1, <4>3, SubSeqEmpty
        <4> QED
          BY <4>2, <4>4 DEF p, q, o
      <3>2. CASE hi # lo
        <4>1. first = lo + 1 /\ first + Cardinality(lines) - 1 = hi
          BY <1>3, <1>5, <1>6, <3>2
        <4> QED
          BY <4>1
      <3> QED
        BY <3>1, <3>2
    <2> HIDE DEF t, u
    <2> QED
      BY <2>2, <2>8, <2>9
  <1> QED
    BY <1>3, <1>5, <1>6, <1>7 DEF Says, lines, first, lo, hi

\* What op says of the lines it passes, from p to q.
Tells(op, a, b, p, q) ==
    /\ p[1] \in 0..Len(a) /\ q[1] \in 0..Len(a) /\ p[2] \in 0..Len(b) /\ q[2] \in 0..Len(b)
    /\ q[1] = p[1] \/ q[1] = p[1] + 1
    /\ q[2] = p[2] \/ q[2] = p[2] + 1
    /\ op.aLine = IF q[1] # p[1] THEN q[1] ELSE 0
    /\ op.bLine = IF q[2] # p[2] THEN q[2] ELSE 0
    /\ op.kind \in {"equal", "delete"} <=> q[1] # p[1]
    /\ op.kind \in {"equal", "insert"} <=> q[2] # p[2]
    /\ q[1] # p[1] => op.text = a[q[1]]
    /\ q[2] # p[2] => op.text = b[q[2]]

\* Every operation on the way says so.
LEMMA PassedIs ==
    ASSUME NEW X, NEW a \in Seq(X), NEW b \in Seq(X), NEW ops \in Seq(OpOf(X)), NEW at, NEW path,
           Leads(ops, a, b, at, path), NEW k \in 1..Len(ops)
    PROVE  Tells(ops[k], a, b, path[k - 1], path[k])
  <1> DEFINE p == path[k - 1]
             q == path[k]
             op == ops[k]
  <1>1. p \in Positions(a, b) /\ q \in Positions(a, b) /\ Passes(op, a, b, p, q)
    <2>1. k - 1 \in 0..Len(ops) /\ k \in 0..Len(ops)
      OBVIOUS
    <2> QED
      BY <2>1 DEF Leads
  <1> HIDE DEF p, q, op
  <1>2. /\ p[1] \in 0..Len(a) /\ p[2] \in 0..Len(b) /\ q[1] \in 0..Len(a) /\ q[2] \in 0..Len(b)
        /\ q = <<q[1], q[2]>>
    BY <1>1 DEF Positions
  <1>3. CASE /\ q = <<p[1] + 1, p[2] + 1>>
             /\ a[p[1] + 1] = b[p[2] + 1]
             /\ op = Op("equal", a[p[1] + 1], p[1] + 1, p[2] + 1)
    <2>1. q[1] = p[1] + 1 /\ q[2] = p[2] + 1 /\ q[1] # p[1] /\ q[2] # p[2]
      BY <1>2, <1>3
    <2>2. op.kind = "equal" /\ op.text = a[q[1]] /\ op.text = b[q[2]] /\ op.aLine = q[1]
          /\ op.bLine = q[2]
      BY <1>3, <2>1 DEF Op
    <2> QED
      BY <1>2, <2>1, <2>2 DEF Tells, p, q, op
  <1>4. CASE q = <<p[1] + 1, p[2]>> /\ op = Op("delete", a[p[1] + 1], p[1] + 1, 0)
    <2>1. q[1] = p[1] + 1 /\ q[2] = p[2] /\ q[1] # p[1]
      BY <1>2, <1>4
    <2>2. op.kind = "delete" /\ op.text = a[q[1]] /\ op.aLine = q[1] /\ op.bLine = 0
      BY <1>4, <2>1 DEF Op
    <2> QED
      BY <1>2, <2>1, <2>2 DEF Tells, p, q, op
  <1>5. CASE q = <<p[1], p[2] + 1>> /\ op = Op("insert", b[p[2] + 1], 0, p[2] + 1)
    <2>1. q[1] = p[1] /\ q[2] = p[2] + 1 /\ q[2] # p[2]
      BY <1>2, <1>5
    <2>2. op.kind = "insert" /\ op.text = b[q[2]] /\ op.bLine = q[2] /\ op.aLine = 0
      BY <1>5, <2>1 DEF Op
    <2> QED
      BY <1>2, <2>1, <2>2 DEF Tells, p, q, op
  <1> QED
    BY <1>1, <1>3, <1>4, <1>5 DEF Passes

\* A run of operations makes a hunk that stands where the run does in both
\* texts and says what is there.
LEMMA HunkIs ==
    ASSUME NEW X, NEW a \in Seq(X), NEW b \in Seq(X), NEW ops \in Seq(OpOf(X)), NEW at, NEW path,
           Leads(ops, a, b, at, path), NEW k \in 1..Len(ops), NEW e \in k..Len(ops)
    PROVE  LET h == buildHunk(SubSeq(ops, k, e))
               p == path[k - 1]
               q == path[e]
           IN /\ p[1] \in Nat /\ q[1] \in Nat /\ p[2] \in Nat /\ q[2] \in Nat
              /\ p[1] <= q[1] /\ p[2] <= q[2]
              /\ h.aCount = q[1] - p[1] /\ h.aStart = IF q[1] = p[1] THEN 1 ELSE p[1] + 1
              /\ h.bCount = q[2] - p[2] /\ h.bStart = IF q[2] = p[2] THEN 1 ELSE p[2] + 1
              /\ HunkFits(a, b, h)
              /\ Len(h.ops) = e - k + 1 /\ \A i \in 1..e - k + 1 : h.ops[i] = ops[k + i - 1]
  <1> DEFINE seq == SubSeq(ops, k, e)
             l == e - k + 1
             h == buildHunk(seq)
             ga == [m \in 0..l |-> path[k + m - 1][1]]
             gb == [m \in 0..l |-> path[k + m - 1][2]]
             la == [m \in 1..l |-> seq[m].aLine]
             lb == [m \in 1..l |-> seq[m].bLine]
  <1>1. Len(ops) \in Nat /\ k \in Nat /\ e \in Nat /\ l \in Nat /\ l > 0
    OBVIOUS
  <1>2. seq \in Seq(OpOf(X)) /\ Len(seq) = l /\ \A m \in 1..l : seq[m] = ops[k + m - 1]
    <2> DEFINE O == OpOf(X)
    <2>1. k \in Int /\ e \in Int /\ k <= e /\ \A i \in k..e : ops[i] \in O
      OBVIOUS
    <2> HIDE DEF O
    <2>2. /\ SubSeq(ops, k, e) \in Seq(O)
          /\ Len(SubSeq(ops, k, e)) = IF k <= e THEN e - k + 1 ELSE 0
          /\ \A i \in 1..e - k + 1 : SubSeq(ops, k, e)[i] = ops[k + i - 1]
      BY <2>1, SubSeqProperties
    <2> QED
      BY <2>1, <2>2 DEF O
  <1> HIDE DEF seq
  <1>3. ASSUME NEW m \in 1..l
        PROVE  /\ ga[m - 1] \in Nat /\ ga[m] \in 0..Len(a) /\ la[m] \in Nat
               /\ gb[m - 1] \in Nat /\ gb[m] \in 0..Len(b) /\ lb[m] \in Nat
               /\ ga[m] = ga[m - 1] \/ ga[m] = ga[m - 1] + 1
               /\ gb[m] = gb[m - 1] \/ gb[m] = gb[m - 1] + 1
               /\ la[m] = IF ga[m] # ga[m - 1] THEN ga[m] ELSE 0
               /\ lb[m] = IF gb[m] # gb[m - 1] THEN gb[m] ELSE 0
               /\ seq[m].kind \in {"equal", "delete"} <=> ga[m] # ga[m - 1]
               /\ seq[m].kind \in {"equal", "insert"} <=> gb[m] # gb[m - 1]
               /\ ga[m] # ga[m - 1] => seq[m].text = a[ga[m]]
               /\ gb[m] # gb[m - 1] => seq[m].text = b[gb[m]]
    <2>1. k + m - 1 \in 1..Len(ops) /\ (k + m - 1) - 1 = k + m - 2 /\ k + (m - 1) - 1 = k + m - 2
          /\ m - 1 \in 0..l /\ m \in 0..l
      BY <1>1
    <2> DEFINE j == k + m - 1
    <2> HIDE DEF l
    <2>2. /\ ga[m - 1] = path[j - 1][1] /\ ga[m] = path[j][1]
          /\ gb[m - 1] = path[j - 1][2] /\ gb[m] = path[j][2]
          /\ la[m] = seq[m].aLine /\ lb[m] = seq[m].bLine
      BY <2>1
    <2>3. seq[m] = ops[j] /\ j \in 1..Len(ops) /\ j - 1 = k + m - 2
      BY <1>2, <2>1
    <2> HIDE DEF ga, gb, la, lb, j
    <2>4. Tells(ops[j], a, b, path[j - 1], path[j])
      BY <2>3, PassedIs
    <2>5. la[m] \in Nat /\ lb[m] \in Nat
      <3>1. Len(a) \in Nat /\ Len(b) \in Nat
        OBVIOUS
      <3> QED
        BY <2>2, <2>3, <2>4, <3>1 DEF Tells
    <2> QED
      BY <2>2, <2>3, <2>4, <2>5 DEF Tells
  <1> HIDE DEF ga, gb, la, lb
  <1>4. /\ ga[0] = path[k - 1][1] /\ gb[0] = path[k - 1][2]
        /\ ga[l] = path[e][1] /\ gb[l] = path[e][2]
        /\ ga[l] \in 0..Len(a) /\ gb[l] \in 0..Len(b)
    <2>1. 0 \in 0..l /\ l \in 0..l /\ l \in 1..l /\ k + 0 - 1 = k - 1 /\ k + l - 1 = e
      BY <1>1
    <2>2. /\ ga[0] = path[k - 1][1] /\ gb[0] = path[k - 1][2]
          /\ ga[l] = path[e][1] /\ gb[l] = path[e][2]
      BY <2>1 DEF ga, gb
    <2>3. ga[l] \in 0..Len(a) /\ gb[l] \in 0..Len(b)
      BY <1>3, <2>1
    <2> QED
      BY <2>2, <2>3
  <1>5. OneSide(a, seq, {"equal", "delete"}, la, ga)
    <2>1. ga \in [0..l -> Nat]
      <3>1. ASSUME NEW m \in 0..l PROVE ga[m] \in Nat
        <4>1. CASE m = 0
          <5>1. 1 \in 1..l /\ 1 - 1 = m
            BY <1>1, <4>1
          <5>2. ga[1 - 1] \in Nat
            BY <1>3, <5>1
          <5> QED
            BY <5>1, <5>2
        <4>2. CASE m # 0
          <5>1. m \in 1..l
            BY <1>1, <4>2
          <5> QED
            BY <1>3, <5>1
        <4> QED
          BY <4>1, <4>2
      <3>2. ga = [m \in 0..l |-> ga[m]]
        BY DEF ga
      <3> HIDE DEF l
      <3> QED
        BY <3>1, <3>2
    <2>2. Climbs(ga, l)
      <3> HIDE DEF l
      <3> QED
        BY <1>3, <2>1 DEF Climbs
    <2>3. la \in [1..l -> Nat]
      <3>1. \A m \in 1..l : la[m] \in Nat
        BY <1>3
      <3>2. la = [m \in 1..l |-> la[m]]
        BY DEF la
      <3> HIDE DEF l
      <3> QED
        BY <3>1, <3>2
    <2> HIDE DEF l
    <2> QED
      BY <1>2, <1>3, <1>4, <2>2, <2>3 DEF OneSide
  <1>6. OneSide(b, seq, {"equal", "insert"}, lb, gb)
    <2>1. gb \in [0..l -> Nat]
      <3>1. ASSUME NEW m \in 0..l PROVE gb[m] \in Nat
        <4>1. CASE m = 0
          <5>1. 1 \in 1..l /\ 1 - 1 = m
            BY <1>1, <4>1
          <5>2. gb[1 - 1] \in Nat
            BY <1>3, <5>1
          <5> QED
            BY <5>1, <5>2
        <4>2. CASE m # 0
          <5>1. m \in 1..l
            BY <1>1, <4>2
          <5> QED
            BY <1>3, <5>1
        <4> QED
          BY <4>1, <4>2
      <3>2. gb = [m \in 0..l |-> gb[m]]
        BY DEF gb
      <3> HIDE DEF l
      <3> QED
        BY <3>1, <3>2
    <2>2. Climbs(gb, l)
      <3> HIDE DEF l
      <3> QED
        BY <1>3, <2>1 DEF Climbs
    <2>3. lb \in [1..l -> Nat]
      <3>1. \A m \in 1..l : lb[m] \in Nat
        BY <1>3
      <3>2. lb = [m \in 1..l |-> lb[m]]
        BY DEF lb
      <3> HIDE DEF l
      <3> QED
        BY <3>1, <3>2
    <2> HIDE DEF l
    <2> QED
      BY <1>2, <1>3, <1>4, <2>2, <2>3 DEF OneSide
  <1> DEFINE as == {la[m] : m \in 1..l} \ {0}
             bs == {lb[m] : m \in 1..l} \ {0}
             fa == IF as = {} THEN 1 ELSE Min(as)
             fb == IF bs = {} THEN 1 ELSE Min(bs)
  <1>7. /\ ga[0] \in Nat /\ ga[l] \in Nat /\ ga[0] <= ga[l]
        /\ Cardinality(as) = ga[l] - ga[0]
        /\ fa = IF ga[l] = ga[0] THEN 1 ELSE ga[0] + 1
        /\ h.ops = seq =>
              TextOf(h, {"equal", "delete"}) = SubSeq(a, fa, fa + Cardinality(as) - 1)
    <2> DEFINE kinds == {"equal", "delete"}
    <2> HIDE DEF kinds, l, h
    <2>1. OneSide(a, seq, kinds, la, ga) /\ seq \in Seq(OpOf(X))
      BY <1>2, <1>5 DEF kinds
    <2>2. Says(a, seq, kinds, la, ga)
      BY <2>1, LinesInARow
    <2> QED
      BY <1>2, <2>2 DEF kinds, Says
  <1>8. /\ gb[0] \in Nat /\ gb[l] \in Nat /\ gb[0] <= gb[l]
        /\ Cardinality(bs) = gb[l] - gb[0]
        /\ fb = IF gb[l] = gb[0] THEN 1 ELSE gb[0] + 1
        /\ h.ops = seq =>
              TextOf(h, {"equal", "insert"}) = SubSeq(b, fb, fb + Cardinality(bs) - 1)
    <2> DEFINE kinds == {"equal", "insert"}
    <2> HIDE DEF kinds, l, h
    <2>1. OneSide(b, seq, kinds, lb, gb) /\ seq \in Seq(OpOf(X))
      BY <1>2, <1>6 DEF kinds
    <2>2. Says(b, seq, kinds, lb, gb)
      BY <2>1, LinesInARow
    <2> QED
      BY <1>2, <2>2 DEF kinds, Says
  <1>9. /\ h.ops = seq /\ h.aStart = fa /\ h.aCount = Cardinality(as)
        /\ h.bStart = fb /\ h.bCount = Cardinality(bs)
    <2>1. as = {seq[m].aLine : m \in 1..Len(seq)} \ {0} /\ bs = {seq[m].bLine : m \in 1..Len(seq)} \ {0}
      <3> HIDE DEF l
      <3> QED
        BY <1>2 DEF la, lb
    <2> HIDE DEF as, bs, l
    <2>2. h = [aStart |-> fa, aCount |-> Cardinality(as),
               bStart |-> fb, bCount |-> Cardinality(bs), ops |-> seq]
      BY <2>1 DEF buildHunk
    <2> HIDE DEF fa, fb, h
    <2> QED
      BY <2>2
  <1> HIDE DEF h, as, bs, fa, fb
  <1>10. HunkFits(a, b, h)
    BY <1>7, <1>8, <1>9 DEF HunkFits
  <1> HIDE DEF l
  <1>11. Len(h.ops) = l /\ \A i \in 1..l : h.ops[i] = ops[k + i - 1]
    BY <1>2, <1>9
  <1> QED
    BY <1>4, <1>7, <1>8, <1>9, <1>10, <1>11 DEF h, seq, l

-----------------------------------------------------------------------------
(* Which operations go into a hunk.                                        *)

\* The operations that are kept, where runs of them begin, and where they end.
Kept(ops) ==
    LET changed == {k \in 1..Len(ops) : ops[k].kind # "equal"} IN
    {k \in 1..Len(ops) : \E c \in changed : c - Context <= k /\ k <= c + Context}

Starts(ops) == {k \in Kept(ops) : k - 1 \notin Kept(ops)}

RunEnd(K, k) == Max({e \in K : k <= e /\ k..e \subseteq K})

\* groupHunks makes one hunk of every run of operations that are kept.
LEMMA GroupIs ==
    ASSUME NEW ops
    PROVE  groupHunks(ops) =
              [n \in 1..Cardinality(Starts(ops)) |->
                  buildHunk(SubSeq(ops, Ascending(Starts(ops))[n],
                                   RunEnd(Kept(ops), Ascending(Starts(ops))[n])))]
  BY DEF groupHunks, Starts, RunEnd, Kept

\* A run goes on up to its end and no further.
LEMMA RunIs ==
    ASSUME NEW n \in Nat, NEW K, K \subseteq 1..n, NEW k \in K
    PROVE  LET e == RunEnd(K, k) IN
           /\ e \in K /\ k <= e /\ k..e \subseteq K
           /\ e + 1 \notin K
  <1> DEFINE T == {e \in K : k <= e /\ k..e \subseteq K}
             e == RunEnd(K, k)
  <1>1. k \in Nat /\ k \in T
    <2>1. k \in Nat /\ k..k = {k}
      OBVIOUS
    <2> QED
      BY <2>1
  <1>2. T \subseteq Nat /\ IsFiniteSet(T)
    <2>1. T \subseteq 1..n /\ 1..n \subseteq Nat
      <3>1. T \subseteq K
        OBVIOUS
      <3>2. 1..n \subseteq Nat
        OBVIOUS
      <3> HIDE DEF T
      <3> QED
        BY <3>1, <3>2
    <2>2. IsFiniteSet(1..n)
      <3>1. 1 \in Int /\ n \in Int
        OBVIOUS
      <3> QED
        BY <3>1, FS_Interval
    <2> HIDE DEF T
    <2> QED
      BY <2>1, <2>2, FS_Subset
  <1>3. e \in T /\ \A x \in T : x <= e
    <2>1. e = Max(T)
      BY DEF RunEnd
    <2> HIDE DEF T, e
    <2>2. T # {}
      BY <1>1
    <2> QED
      BY <1>2, <2>1, <2>2, GreatestIs
  <1>4. e \in K /\ k <= e /\ k..e \subseteq K /\ e \in Nat
    <2>1. e \in T /\ e \in Nat
      BY <1>2, <1>3
    <2> HIDE DEF e
    <2> QED
      BY <2>1
  <1> HIDE DEF e
  <1>5. ASSUME e + 1 \in K PROVE FALSE
    <2>1. k <= e + 1 /\ k..e + 1 = k..e \cup {e + 1}
      BY <1>1, <1>4
    <2>2. e + 1 \in T
      BY <1>4, <1>5, <2>1
    <2>3. e + 1 <= e
      <3> HIDE DEF T
      <3> QED
        BY <1>3, <2>2
    <2> QED
      BY <1>4, <2>3
  <1> QED
    BY <1>4, <1>5 DEF e

\* Kept are the changes, and near each of them all that lies between.
LEMMA KeptIs ==
    ASSUME NEW X, NEW ops \in Seq(OpOf(X))
    PROVE  /\ Kept(ops) \subseteq 1..Len(ops)
           /\ \A k \in 1..Len(ops) : k \notin Kept(ops) => ops[k].kind = "equal"
           /\ \A k \in Starts(ops) : k = 1 \/ ops[k].kind = "equal"
           /\ \A k \in Kept(ops) : \E c \in 1..Len(ops) :
                 /\ ops[c].kind # "equal" /\ c - Context <= k /\ k <= c + Context
                 /\ \A j \in 1..Len(ops) :
                       (c <= j /\ j <= k) \/ (k <= j /\ j <= c) => j \in Kept(ops)
  <1>1. Context \in Nat /\ Context > 0 /\ Len(ops) \in Nat
    BY DiffAssumption
  <1>2. Kept(ops) \subseteq 1..Len(ops)
    BY DEF Kept
  <1>3. \A c, k \in 1..Len(ops) :
           ops[c].kind # "equal" /\ c - Context <= k /\ k <= c + Context => k \in Kept(ops)
    BY DEF Kept
  <1>4. \A k \in Kept(ops) : \E c \in 1..Len(ops) :
           ops[c].kind # "equal" /\ c - Context <= k /\ k <= c + Context
    BY DEF Kept
  <1>5. ASSUME NEW k \in 1..Len(ops), k \notin Kept(ops) PROVE ops[k].kind = "equal"
    <2>1. k - Context <= k /\ k <= k + Context
      BY <1>1
    <2> QED
      BY <1>3, <1>5, <2>1
  <1>6. ASSUME NEW k \in Starts(ops), k # 1, ops[k].kind # "equal" PROVE FALSE
    <2>1. k \in Kept(ops) /\ k - 1 \notin Kept(ops)
      BY DEF Starts
    <2>2. k \in 1..Len(ops) /\ k - 1 \in 1..Len(ops)
      BY <1>1, <1>2, <1>6, <2>1
    <2>3. k - Context <= k - 1 /\ k - 1 <= k + Context
      BY <1>1, <2>2
    <2> QED
      BY <1>3, <1>6, <2>1, <2>2, <2>3
  <1>7. ASSUME NEW k \in Kept(ops)
        PROVE  \E c \in 1..Len(ops) :
                 /\ ops[c].kind # "equal" /\ c - Context <= k /\ k <= c + Context
                 /\ \A j \in 1..Len(ops) :
                       (c <= j /\ j <= k) \/ (k <= j /\ j <= c) => j \in Kept(ops)
    <2>1. PICK c \in 1..Len(ops) : ops[c].kind # "equal" /\ c - Context <= k /\ k <= c + Context
      BY <1>4
    <2>2. ASSUME NEW j \in 1..Len(ops), (c <= j /\ j <= k) \/ (k <= j /\ j <= c)
          PROVE  j \in Kept(ops)
      <3>1. k \in Nat /\ c \in Nat /\ j \in Nat
        BY <1>1, <1>2
      <3>2. c - Context <= j /\ j <= c + Context
        BY <1>1, <2>1, <2>2, <3>1
      <3> QED
        BY <1>3, <2>1, <3>2
    <2> QED
      BY <2>1, <2>2
  <1> QED
    BY <1>2, <1>5, <1>6, <1>7

\* From i on, up to j, nothing is changed.
OnlyEqual(ops, i, j) == \A m \in i + 1..j : ops[m].kind = "equal"

\* On the way, from the i-th operation to the j-th, the texts agree.
Agree(a, b, path, i, j) ==
    SubSeq(a, path[i][1] + 1, path[j][1]) = SubSeq(b, path[i][2] + 1, path[j][2])

\* What only equal operations pass is the same in both texts.
LEMMA SameBetween ==
    ASSUME NEW X, NEW a \in Seq(X), NEW b \in Seq(X), NEW ops \in Seq(OpOf(X)), NEW at, NEW path,
           Leads(ops, a, b, at, path), NEW i \in 0..Len(ops), NEW j \in i..Len(ops),
           OnlyEqual(ops, i, j)
    PROVE  Agree(a, b, path, i, j)
  <1> DEFINE B == {m \in i..j : ~ (/\ path[m][1] = path[i][1] + (m - i)
                                   /\ path[m][2] = path[i][2] + (m - i))}
             u == path[i][1]
             v == path[i][2]
             l == j - i
             p == path[j][1]
             q == path[j][2]
             s == SubSeq(a, u + 1, p)
             t == SubSeq(b, v + 1, q)
  <1>1. /\ Len(ops) \in Nat /\ i \in Nat /\ j \in Nat /\ l \in Nat
        /\ Len(a) \in Nat /\ Len(b) \in Nat /\ u \in 0..Len(a) /\ v \in 0..Len(b)
    <2>1. path[i] \in Positions(a, b)
      BY DEF Leads
    <2>2. u \in 0..Len(a) /\ v \in 0..Len(b)
      BY <2>1 DEF Positions
    <2> QED
      BY <2>2
  <1>2. ASSUME NEW m \in i + 1..j
        PROVE  LET c == path[m - 1]
                   d == path[m]
               IN /\ c[1] \in Nat /\ c[2] \in Nat
                  /\ d[1] \in 0..Len(a) /\ d[2] \in 0..Len(b)
                  /\ d[1] = c[1] + 1 /\ d[2] = c[2] + 1 /\ a[d[1]] = b[d[2]]
    <2> DEFINE c == path[m - 1]
               d == path[m]
    <2>1. m \in 1..Len(ops) /\ ops[m].kind = "equal"
      BY <1>1 DEF OnlyEqual
    <2>2. /\ c[1] \in 0..Len(a) /\ d[1] \in 0..Len(a) /\ c[2] \in 0..Len(b) /\ d[2] \in 0..Len(b)
          /\ d[1] = c[1] \/ d[1] = c[1] + 1
          /\ d[2] = c[2] \/ d[2] = c[2] + 1
          /\ ops[m].kind \in {"equal", "delete"} <=> d[1] # c[1]
          /\ ops[m].kind \in {"equal", "insert"} <=> d[2] # c[2]
          /\ d[1] # c[1] => ops[m].text = a[d[1]]
          /\ d[2] # c[2] => ops[m].text = b[d[2]]
      <3>1. Tells(ops[m], a, b, path[m - 1], path[m])
        BY <2>1, PassedIs
      <3> QED
        BY <3>1 DEF Tells
    <2> HIDE DEF c, d
    <2>3. d[1] # c[1] /\ d[2] # c[2]
      BY <2>1, <2>2
    <2>4. a[d[1]] = b[d[2]] /\ d[1] = c[1] + 1 /\ d[2] = c[2] + 1
      BY <2>2, <2>3
    <2>5. c[1] \in Nat /\ c[2] \in Nat
      BY <1>1, <2>2
    <2> QED
      BY <2>2, <2>4, <2>5 DEF c, d
  <1>3. ASSUME NEW m \in B, \A k \in B : m <= k PROVE FALSE
    <2>1. /\ m \in i..j
          /\ ~ (path[m][1] = path[i][1] + (m - i) /\ path[m][2] = path[i][2] + (m - i))
      OBVIOUS
    <2>2. m # i
      BY <1>1, <2>1
    <2>3. m \in i + 1..j /\ m - 1 \in i..j /\ ~ (m <= m - 1)
      BY <1>1, <2>1, <2>2
    <2>4. path[m - 1][1] = u + ((m - 1) - i) /\ path[m - 1][2] = v + ((m - 1) - i)
      <3>1. m - 1 \notin B
        <4> HIDE DEF B
        <4> QED
          BY <1>3, <2>3
      <3> QED
        BY <2>3, <3>1
    <2>5. path[m][1] = path[m - 1][1] + 1 /\ path[m][2] = path[m - 1][2] + 1
      BY <1>2, <2>3
    <2>6. path[m][1] = u + (m - i) /\ path[m][2] = v + (m - i)
      <3> DEFINE x == path[m - 1][1]
                 y == path[m - 1][2]
      <3>1. /\ x = u + ((m - 1) - i) /\ path[m][1] = x + 1
            /\ y = v + ((m - 1) - i) /\ path[m][2] = y + 1
        BY <2>4, <2>5
      <3>2. u \in Nat /\ v \in Nat /\ m \in Nat
        <4>1. u \in Nat /\ v \in Nat
          <5> HIDE DEF u, v
          <5> QED
            BY <1>1
        <4>2. m \in Nat
          BY <1>1, <2>3
        <4> QED
          BY <4>1, <4>2
      <3> HIDE DEF u, v, x, y
      <3> QED
        BY <1>1, <3>1, <3>2
    <2> QED
      BY <2>1, <2>6
  <1>4. B = {}
    <2>1. B \subseteq Nat
      BY <1>1
    <2> HIDE DEF B
    <2> QED
      BY <1>3, <2>1, SmallestExists
  <1>5. \A m \in i..j : path[m][1] = u + (m - i) /\ path[m][2] = v + (m - i)
    BY <1>4
  <1> HIDE DEF B, u, v, p, q
  <1>6. p = u + l /\ q = v + l /\ p \in 0..Len(a) /\ q \in 0..Len(b)
    <2>1. j \in i..j
      BY <1>1
    <2>2. p = u + l /\ q = v + l
      BY <1>5, <2>1 DEF p, q
    <2>3. path[j] \in Positions(a, b)
      <3>1. path \in [0..Len(ops) -> Positions(a, b)] /\ j \in 0..Len(ops)
        BY <1>1 DEF Leads
      <3> QED
        BY <3>1
    <2>4. p \in 0..Len(a) /\ q \in 0..Len(b)
      BY <2>3 DEF Positions, p, q
    <2> QED
      BY <2>2, <2>4
  <1>7. ASSUME NEW k \in 1..l PROVE a[u + k] = b[v + k]
    <2>1. i + k \in i + 1..j /\ i + k \in i..j /\ (i + k) - i = k
      BY <1>1
    <2> DEFINE m == i + k
    <2> HIDE DEF m
    <2>2. m \in i + 1..j /\ m \in i..j /\ m - i = k
      BY <2>1 DEF m
    <2>3. a[path[m][1]] = b[path[m][2]]
      BY <1>2, <2>2
    <2>4. path[m][1] = u + k /\ path[m][2] = v + k
      BY <1>5, <2>2
    <2> QED
      BY <2>3, <2>4
  <1>8. s \in Seq(X) /\ Len(s) = l /\ \A k \in 1..l : s[k] = a[u + k]
    <2> DEFINE x == u + 1
    <2>1. x \in Int /\ p \in Int /\ (\A k \in x..p : a[k] \in X) /\ p - x + 1 = l
          /\ (x <= p \/ l = 0) /\ \A k \in 1..l : x + k - 1 = u + k
      BY <1>1, <1>6
    <2> HIDE DEF x, l
    <2>2. /\ SubSeq(a, x, p) \in Seq(X)
          /\ Len(SubSeq(a, x, p)) = IF x <= p THEN p - x + 1 ELSE 0
          /\ \A k \in 1..p - x + 1 : SubSeq(a, x, p)[k] = a[x + k - 1]
      BY <2>1, SubSeqProperties
    <2> QED
      BY <2>1, <2>2 DEF x
  <1>9. t \in Seq(X) /\ Len(t) = l /\ \A k \in 1..l : t[k] = b[v + k]
    <2> DEFINE x == v + 1
    <2>1. x \in Int /\ q \in Int /\ (\A k \in x..q : b[k] \in X) /\ q - x + 1 = l
          /\ (x <= q \/ l = 0) /\ \A k \in 1..l : x + k - 1 = v + k
      BY <1>1, <1>6
    <2> HIDE DEF x, l
    <2>2. /\ SubSeq(b, x, q) \in Seq(X)
          /\ Len(SubSeq(b, x, q)) = IF x <= q THEN q - x + 1 ELSE 0
          /\ \A k \in 1..q - x + 1 : SubSeq(b, x, q)[k] = b[x + k - 1]
      BY <2>1, SubSeqProperties
    <2> QED
      BY <2>1, <2>2 DEF x
  <1>10. s = t
    <2> HIDE DEF s, t, l
    <2> QED
      BY <1>7, <1>8, <1>9, SeqEqual
  <1> QED
    BY <1>10 DEF Agree, u, v, p, q

\* In hunks of the operations on the way through two texts, every hunk says
\* what is there, they leave out only what is the same in both, and take in no
\* more of that than context.
LEMMA HunksExplain ==
    ASSUME NEW X, NEW a \in Seq(X), NEW b \in Seq(X), NEW ops \in Seq(OpOf(X)), NEW at, NEW path,
           Leads(ops, a, b, at, path), at = <<0, 0>>
    PROVE  LET hunks == groupHunks(ops) IN
           /\ \A k \in 1..Len(hunks) : HunkFits(a, b, hunks[k])
           /\ RestAgrees(a, b, hunks)
           /\ NoMoreThanContext(hunks)
  <1> DEFINE n == Len(ops)
             K == Kept(ops)
             S == Starts(ops)
             c == Cardinality(S)
             st == Ascending(S)
             en(r) == RunEnd(K, st[r])
             hk(r) == buildHunk(SubSeq(ops, st[r], en(r)))
             hunks == groupHunks(ops)
  <1>1. /\ n \in Nat /\ K \subseteq 1..n /\ S \subseteq K
        /\ S \subseteq Nat /\ IsFiniteSet(S)
    <2>1. n \in Nat /\ K \subseteq 1..n
      BY KeptIs
    <2>2. S \subseteq K
      BY DEF Starts
    <2> HIDE DEF K, S, n
    <2>3. 1..n \subseteq Nat /\ IsFiniteSet(1..n)
      <3>1. 1 \in Int /\ n \in Int
        BY <2>1
      <3>2. IsFiniteSet(1..n)
        BY <3>1, FS_Interval
      <3> QED
        BY <2>1, <3>2
    <2>4. S \subseteq 1..n
      BY <2>1, <2>2
    <2>5. IsFiniteSet(S)
      BY <2>3, <2>4, FS_Subset
    <2> QED
      BY <2>1, <2>2, <2>3, <2>4, <2>5
  <1>2. /\ c \in Nat /\ st \in [1..c -> S]
        /\ \A j, k \in 1..c : j < k => st[j] < st[k]
        /\ \A x \in S : \E k \in 1..c : st[k] = x
    <2> HIDE DEF S
    <2> QED
      BY <1>1, AscendingIs
  <1> HIDE DEF n, c, st
  <1>3. ASSUME NEW r \in 1..c
        PROVE  /\ st[r] \in S /\ st[r] \in K /\ st[r] \in 1..n /\ st[r] - 1 \notin K
               /\ en(r) \in K /\ en(r) \in st[r]..n /\ en(r) \in 1..n
               /\ st[r]..en(r) \subseteq K /\ en(r) + 1 \notin K
    <2>1. st[r] \in S
      <3> HIDE DEF S
      <3> QED
        BY <1>2
    <2> DEFINE k == st[r]
    <2>2. k \in K /\ k - 1 \notin K
      BY <2>1 DEF Starts
    <2> HIDE DEF K, S, k
    <2>3. LET e == RunEnd(K, k) IN e \in K /\ k <= e /\ k..e \subseteq K /\ e + 1 \notin K
      <3>1. n \in Nat /\ K \subseteq 1..n /\ k \in K
        BY <1>1, <2>2
      <3> QED
        BY <3>1, RunIs
    <2> DEFINE e == RunEnd(K, k)
    <2>4. e \in K /\ k <= e /\ k..e \subseteq K /\ e + 1 \notin K
      BY <2>3
    <2> HIDE DEF e
    <2>5. k \in 1..n /\ e \in 1..n /\ e \in k..n
      BY <1>1, <2>2, <2>4
    <2> QED
      BY <2>1, <2>2, <2>4, <2>5 DEF e, k
  <1>4. Len(hunks) = c /\ \A r \in 1..c : hunks[r] = hk(r)
    <2> DEFINE T == {hk(r) : r \in 1..c}
               f == [r \in 1..c |-> hk(r)]
    <2>1. hunks = f
      BY GroupIs DEF c, st
    <2>2. \A r \in 1..c : hk(r) \in T
      OBVIOUS
    <2> HIDE DEF T, hk
    <2>3. f \in Seq(T) /\ Len(f) = c
      BY <1>2, <2>2
    <2>4. \A r \in 1..c : f[r] = hk(r)
      OBVIOUS
    <2> HIDE DEF f, hunks
    <2> QED
      BY <2>1, <2>3, <2>4
  <1>5. ASSUME NEW r \in 1..c
        PROVE  LET h == hunks[r]
                   p == path[st[r] - 1]
                   q == path[en(r)]
               IN /\ p[1] \in Nat /\ p[2] \in Nat /\ q[1] \in Nat /\ q[2] \in Nat
                  /\ h.aStart = p[1] + 1 /\ h.aStart + h.aCount = q[1] + 1
                  /\ h.bStart = p[2] + 1 /\ h.bStart + h.bCount = q[2] + 1
                  /\ HunkFits(a, b, h)
                  /\ Len(h.ops) = en(r) - st[r] + 1
                  /\ \A i \in 1..en(r) - st[r] + 1 : h.ops[i] = ops[st[r] + i - 1]
    <2> DEFINE k == st[r]
               e == en(r)
               h == buildHunk(SubSeq(ops, k, e))
               p == path[k - 1]
               q == path[e]
    <2>1. k \in S /\ k \in 1..n /\ e \in k..n /\ hunks[r] = h
      BY <1>3, <1>4
    <2> HIDE DEF k, e, S, K
    <2>2. /\ p[1] \in Nat /\ q[1] \in Nat /\ p[2] \in Nat /\ q[2] \in Nat
          /\ p[1] <= q[1] /\ p[2] <= q[2]
          /\ h.aCount = q[1] - p[1] /\ h.aStart = IF q[1] = p[1] THEN 1 ELSE p[1] + 1
          /\ h.bCount = q[2] - p[2] /\ h.bStart = IF q[2] = p[2] THEN 1 ELSE p[2] + 1
          /\ HunkFits(a, b, h)
          /\ Len(h.ops) = e - k + 1 /\ \A i \in 1..e - k + 1 : h.ops[i] = ops[k + i - 1]
      <3>1. k \in 1..Len(ops) /\ e \in k..Len(ops)
        BY <2>1 DEF n
      <3> QED
        BY <3>1, HunkIs
    <2> HIDE DEF h, p, q
    <2>3. (q[1] = p[1] => p[1] = 0) /\ (q[2] = p[2] => p[2] = 0)
      <3>1. CASE k = 1
        <4>1. p = at
          BY <3>1 DEF p, Leads
        <4> QED
          BY <4>1
      <3>2. CASE ops[k].kind = "equal"
        <4> DEFINE o == path[k]
        <4>1. k \in 1..Len(ops)
          BY <2>1 DEF n
        <4> HIDE DEF o
        <4>2. /\ o[1] = p[1] \/ o[1] = p[1] + 1
              /\ o[2] = p[2] \/ o[2] = p[2] + 1
              /\ ops[k].kind \in {"equal", "delete"} <=> o[1] # p[1]
              /\ ops[k].kind \in {"equal", "insert"} <=> o[2] # p[2]
          <5>1. Tells(ops[k], a, b, path[k - 1], path[k])
            BY <4>1, PassedIs
          <5> QED
            BY <5>1 DEF Tells, o, p
        <4>3. o[1] = p[1] + 1 /\ o[2] = p[2] + 1
          BY <3>2, <4>2
        <4>4. o[1] <= q[1] /\ o[2] <= q[2]
          <5>1. CASE e = k
            <6>1. o = q
              BY <5>1 DEF o, q
            <6> QED
              BY <2>2, <6>1
          <5>2. CASE e # k
            <6> DEFINE k1 == k + 1
            <6>1. k1 \in 1..Len(ops) /\ e \in k1..Len(ops) /\ k1 - 1 = k
              BY <1>1, <2>1, <5>2 DEF n
            <6> HIDE DEF k1
            <6>2. path[k1 - 1][1] <= path[e][1] /\ path[k1 - 1][2] <= path[e][2]
              BY <6>1, HunkIs
            <6> QED
              BY <6>1, <6>2 DEF o, q
          <5> QED
            BY <5>1, <5>2
        <4> QED
          BY <2>2, <4>3, <4>4
      <3>3. k = 1 \/ ops[k].kind = "equal"
        BY <2>1, KeptIs DEF S
      <3> QED
        BY <3>1, <3>2, <3>3
    <2>4. /\ h.aStart = p[1] + 1 /\ h.aStart + h.aCount = q[1] + 1
          /\ h.bStart = p[2] + 1 /\ h.bStart + h.bCount = q[2] + 1
      <3> DEFINE p1 == p[1]
                 p2 == p[2]
                 q1 == q[1]
                 q2 == q[2]
      <3>1. /\ p1 \in Nat /\ q1 \in Nat /\ p2 \in Nat /\ q2 \in Nat
            /\ h.aCount = q1 - p1 /\ h.aStart = IF q1 = p1 THEN 1 ELSE p1 + 1
            /\ h.bCount = q2 - p2 /\ h.bStart = IF q2 = p2 THEN 1 ELSE p2 + 1
            /\ (q1 = p1 => p1 = 0) /\ (q2 = p2 => p2 = 0)
        BY <2>2, <2>3
      <3> HIDE DEF p1, p2, q1, q2
      <3>2. h.aStart = p1 + 1 /\ h.bStart = p2 + 1
        BY <3>1
      <3>3. h.aStart + h.aCount = q1 + 1 /\ h.bStart + h.bCount = q2 + 1
        BY <3>1, <3>2
      <3> QED
        BY <3>2, <3>3 DEF p1, p2, q1, q2
    <2> QED
      BY <2>1, <2>2, <2>4 DEF p, q, k, e
  <1> HIDE DEF hunks
  <1>6. ASSUME NEW r \in 1..c, NEW i \in 1..Len(hunks[r].ops)
        PROVE  \E d \in 1..Len(hunks[r].ops) :
                  /\ hunks[r].ops[d].kind # "equal"
                  /\ d - Context <= i /\ i <= d + Context
    <2> DEFINE k == st[r]
               e == en(r)
               o == hunks[r].ops
               m == k + i - 1
    <2>1. /\ k \in 1..n /\ e \in 1..n /\ e \in k..n /\ k..e \subseteq K
          /\ k - 1 \notin K /\ e + 1 \notin K
          /\ Len(o) = e - k + 1 /\ \A j \in 1..e - k + 1 : o[j] = ops[k + j - 1]
          /\ i \in 1..Len(o)
      BY <1>3, <1>5, <1>6
    <2> HIDE DEF k, e, o, S, K
    <2>2. m \in k..e /\ m \in K
      <3>1. k \in Nat /\ e \in Nat /\ i \in 1..e - k + 1
        BY <2>1
      <3>2. m \in k..e
        BY <3>1
      <3> QED
        BY <2>1, <3>2
    <2> HIDE DEF m
    <2>3. PICK x \in 1..n :
             /\ ops[x].kind # "equal" /\ x - Context <= m /\ m <= x + Context
             /\ \A j \in 1..n : (x <= j /\ j <= m) \/ (m <= j /\ j <= x) => j \in K
      BY <2>2, KeptIs DEF K, n
    <2>4. ASSUME x < k PROVE FALSE
      <3>1. k - 1 \in 1..n /\ x <= k - 1 /\ k - 1 <= m
        BY <1>1, <2>1, <2>2, <2>3, <2>4
      <3> QED
        BY <2>1, <2>3, <3>1
    <2>5. ASSUME e < x PROVE FALSE
      <3>1. e + 1 \in 1..n /\ m <= e + 1 /\ e + 1 <= x
        BY <1>1, <2>1, <2>2, <2>3, <2>5
      <3> QED
        BY <2>1, <2>3, <3>1
    <2> DEFINE d == x - k + 1
    <2>6. d \in 1..e - k + 1 /\ k + d - 1 = x /\ d - Context <= i /\ i <= d + Context
      BY <1>1, <2>1, <2>2, <2>3, <2>4, <2>5, DiffAssumption DEF m
    <2> HIDE DEF d
    <2>7. o[d].kind # "equal" /\ d \in 1..Len(o)
      BY <2>1, <2>3, <2>6
    <2> QED
      BY <2>6, <2>7 DEF o
  <1>7. NoMoreThanContext(hunks)
    BY <1>4, <1>6 DEF NoMoreThanContext
  <1> DEFINE E(r) == IF r = 0 THEN 0 ELSE en(r)
             Z(r) == IF r = c THEN n ELSE st[r + 1] - 1
  <1>8. ASSUME NEW r \in 0..c
        PROVE  /\ E(r) \in 0..n /\ Z(r) \in E(r)..n
               /\ \A m \in E(r) + 1..Z(r) : m \notin K
    <2> DEFINE x == E(r)
               z == Z(r)
    <2>1. r \in Nat /\ (r # 0 => r \in 1..c) /\ (r # c => r + 1 \in 1..c)
      BY <1>2
    <2>2. /\ r = 0 => x = 0
          /\ r # 0 => x = en(r) /\ x \in 1..n /\ x \in st[r]..n /\ st[r]..x \subseteq K /\ x + 1 \notin K
      BY <1>3, <2>1
    <2>3. /\ r = c => z = n
          /\ r # c => /\ z = st[r + 1] - 1 /\ st[r + 1] \in 1..n /\ st[r + 1] - 1 \notin K
                      /\ st[r + 1] \in S
      BY <1>3, <2>1
    <2>4. r # 0 => st[r] \in 1..n
      BY <1>3, <2>1
    <2> HIDE DEF x, z, en, K, S
    <2>5. x \in 0..n /\ z \in 0..n
      BY <1>1, <2>2, <2>3
    <2>6. x <= z
      <3>1. CASE r = 0 \/ r = c
        BY <1>1, <2>2, <2>3, <2>5, <3>1
      <3>2. CASE r # 0 /\ r # c
        <4>1. st[r] < st[r + 1]
          <5>1. r \in 1..c /\ r + 1 \in 1..c /\ r < r + 1
            BY <2>1, <3>2
          <5> QED
            BY <1>2, <5>1
        <4>2. ASSUME x > z PROVE FALSE
          <5>1. z \in st[r]..x
            <6> DEFINE p == st[r]
                       q == st[r + 1]
            <6>1. p \in 1..n /\ q \in 1..n /\ p < q /\ z = q - 1
              BY <2>3, <2>4, <3>2, <4>1
            <6> HIDE DEF p, q
            <6>2. p \in Nat /\ q \in Nat /\ x \in Nat
              BY <2>5, <6>1
            <6>3. z \in p..x
              BY <4>2, <6>1, <6>2
            <6> QED
              BY <6>3 DEF p
          <5> QED
            BY <2>2, <2>3, <3>2, <5>1
        <4> QED
          BY <2>5, <4>2
      <3> QED
        BY <3>1, <3>2
    <2> DEFINE B == {m \in x + 1..z : m \in K}
    <2>7. ASSUME NEW m \in B, \A k \in B : m <= k PROVE FALSE
      <3>1. m \in x + 1..z /\ m \in K
        OBVIOUS
      <3>2. m - 1 \notin K
        <4>1. CASE m = x + 1
          <5>1. CASE r = 0
            <6>1. m - 1 = 0 /\ 0 \notin 1..n
              BY <1>1, <2>2, <4>1, <5>1
            <6> QED
              BY <1>1, <6>1
          <5>2. CASE r # 0
            BY <2>2, <3>1, <4>1, <5>2
          <5> QED
            BY <5>1, <5>2
        <4>2. CASE m # x + 1
          <5>1. m - 1 \in x + 1..z /\ ~ (m <= m - 1)
            BY <2>5, <3>1, <4>2
          <5>2. m - 1 \notin B
            <6> HIDE DEF B
            <6> QED
              BY <2>7, <5>1
          <5> QED
            BY <5>1, <5>2
        <4> QED
          BY <4>1, <4>2
      <3>3. m \in S
        BY <3>1, <3>2 DEF S, Starts, K
      <3>4. PICK k \in 1..c : st[k] = m
        BY <1>2, <3>3
      <3>5. k \in Nat /\ st[k] \in 1..n
        BY <1>1, <1>2, <3>1, <3>4
      <3>6. ~ (k <= r)
        <4>1. ASSUME k <= r PROVE FALSE
          <5>1. r # 0 /\ r \in 1..c /\ (k = r \/ k < r)
            BY <2>1, <3>5, <4>1
          <5>2. st[k] <= st[r]
            <6>1. k < r => st[k] < st[r]
              BY <1>2, <5>1
            <6> QED
              BY <2>4, <3>5, <5>1, <6>1
          <5>3. st[r] <= x /\ x < m
            BY <2>2, <2>5, <3>1, <5>1
          <5> QED
            BY <2>4, <2>5, <3>1, <3>4, <5>1, <5>2, <5>3
        <4> QED
          BY <4>1
      <3>7. ~ (r < k)
        <4>1. ASSUME r < k PROVE FALSE
          <5>1. r # c /\ r + 1 \in 1..c /\ (k = r + 1 \/ r + 1 < k)
            BY <1>2, <2>1, <3>5, <4>1
          <5>2. st[r + 1] <= st[k]
            <6>1. ASSUME r + 1 < k PROVE st[r + 1] < st[k]
              <7> DEFINE r1 == r + 1
              <7>1. r1 \in 1..c /\ r1 < k
                BY <5>1, <6>1
              <7> HIDE DEF r1
              <7>2. st[r1] < st[k]
                BY <1>2, <7>1
              <7> QED
                BY <7>2 DEF r1
            <6> DEFINE lower == st[r + 1]
                       upper == st[k]
            <6>2. lower \in Nat /\ upper \in Nat
              BY <2>3, <3>5, <5>1
            <6>3. r + 1 = k => lower = upper
              OBVIOUS
            <6>4. r + 1 < k => lower < upper
              BY <6>1
            <6> HIDE DEF lower, upper
            <6>5. lower <= upper
              BY <5>1, <6>2, <6>3, <6>4
            <6> QED
              BY <6>5 DEF lower, upper
          <5> QED
            BY <2>3, <2>5, <3>1, <3>4, <5>1, <5>2
        <4> QED
          BY <4>1
      <3> QED
        BY <2>1, <3>5, <3>6, <3>7
    <2>8. B = {}
      <3>1. B \subseteq Nat
        BY <2>5
      <3> HIDE DEF B
      <3> QED
        BY <2>7, <3>1, SmallestExists
    <2>9. \A m \in x + 1..z : m \notin K
      BY <2>8
    <2>10. z \in x..n
      BY <2>5, <2>6
    <2> QED
      BY <2>5, <2>9, <2>10 DEF x, z
  <1>9. ASSUME NEW r \in 0..c
        PROVE  LET fromA == IF r = 0 THEN 1 ELSE hunks[r].aStart + hunks[r].aCount
                   fromB == IF r = 0 THEN 1 ELSE hunks[r].bStart + hunks[r].bCount
                   toA == IF r = c THEN Len(a) ELSE hunks[r + 1].aStart - 1
                   toB == IF r = c THEN Len(b) ELSE hunks[r + 1].bStart - 1
               IN SubSeq(a, fromA, toA) = SubSeq(b, fromB, toB)
    <2> DEFINE fromA == IF r = 0 THEN 1 ELSE hunks[r].aStart + hunks[r].aCount
               fromB == IF r = 0 THEN 1 ELSE hunks[r].bStart + hunks[r].bCount
               toA == IF r = c THEN Len(a) ELSE hunks[r + 1].aStart - 1
               toB == IF r = c THEN Len(b) ELSE hunks[r + 1].bStart - 1
               x == E(r)
               z == Z(r)
    <2>1. r \in Nat /\ (r # 0 => r \in 1..c) /\ (r # c => r + 1 \in 1..c)
      BY <1>2
    <2>2. fromA = path[x][1] + 1 /\ fromB = path[x][2] + 1
      <3>1. CASE r = 0
        <4>1. path[x] = at /\ at[1] = 0 /\ at[2] = 0
          BY <3>1 DEF Leads
        <4> QED
          BY <3>1, <4>1
      <3>2. CASE r # 0
        <4> HIDE DEF en
        <4>1. x = en(r)
          BY <3>2
        <4> HIDE DEF x
        <4>2. /\ hunks[r].aStart + hunks[r].aCount = path[x][1] + 1
              /\ hunks[r].bStart + hunks[r].bCount = path[x][2] + 1
          BY <1>5, <2>1, <3>2, <4>1
        <4> QED
          BY <3>2, <4>2
      <3> QED
        BY <3>1, <3>2
    <2>3. toA = path[z][1] /\ toB = path[z][2]
      <3>1. CASE r = c
        <4>1. path[z] = <<Len(a), Len(b)>>
          BY <3>1 DEF Leads, n
        <4> HIDE DEF z
        <4> QED
          BY <3>1, <4>1
      <3>2. CASE r # c
        <4>1. z = st[r + 1] - 1
          BY <3>2
        <4> HIDE DEF z, en
        <4> DEFINE k == r + 1
        <4>2. k \in 1..c
          BY <2>1, <3>2
        <4> HIDE DEF k
        <4>3. /\ path[st[k] - 1][1] \in Nat /\ path[st[k] - 1][2] \in Nat
              /\ hunks[k].aStart = path[st[k] - 1][1] + 1
              /\ hunks[k].bStart = path[st[k] - 1][2] + 1
          BY <1>5, <4>2
        <4>4. hunks[k].aStart - 1 = path[st[k] - 1][1] /\ hunks[k].bStart - 1 = path[st[k] - 1][2]
          <5> DEFINE p1 == path[st[k] - 1][1]
                     p2 == path[st[k] - 1][2]
          <5>1. p1 \in Nat /\ p2 \in Nat /\ hunks[k].aStart = p1 + 1 /\ hunks[k].bStart = p2 + 1
            BY <4>3
          <5> HIDE DEF p1, p2
          <5>2. hunks[k].aStart - 1 = p1 /\ hunks[k].bStart - 1 = p2
            BY <5>1
          <5> QED
            BY <5>2 DEF p1, p2
        <4> QED
          BY <3>2, <4>1, <4>4 DEF k
      <3> QED
        BY <3>1, <3>2
    <2>4. x \in 0..n /\ z \in x..n /\ \A m \in x + 1..z : m \notin K
      BY <1>8
    <2> HIDE DEF x, z, K
    <2>5. \A m \in x + 1..z : ops[m].kind = "equal"
      <3>1. \A m \in x + 1..z : m \in 1..n
        BY <1>1, <2>4
      <3> QED
        BY <2>4, <3>1, KeptIs DEF K, n
    <2>6. Agree(a, b, path, x, z)
      <3>1. x \in 0..Len(ops) /\ z \in x..Len(ops)
        BY <2>4 DEF n
      <3>2. OnlyEqual(ops, x, z)
        BY <2>5 DEF OnlyEqual
      <3> QED
        BY <3>1, <3>2, SameBetween
    <2> HIDE DEF fromA, fromB, toA, toB
    <2>7. SubSeq(a, fromA, toA) = SubSeq(b, fromB, toB)
      BY <2>2, <2>3, <2>6 DEF Agree
    <2> QED
      BY <2>7 DEF fromA, fromB, toA, toB
  <1>10. RestAgrees(a, b, hunks)
    <2> HIDE DEF E, Z, en, hk, K, S
    <2> QED
      BY <1>4, <1>9 DEF RestAgrees
  <1>11. \A k \in 1..Len(hunks) : HunkFits(a, b, hunks[k])
    BY <1>4, <1>5
  <1> QED
    BY <1>7, <1>10, <1>11 DEF hunks

\* The diff of two texts explains the one by the other.
LEMMA DiffExplains ==
    ASSUME NEW S, NEW before \in Seq(S), NEW after \in Seq(S), Newline \in S
    PROVE  Explains(UnifiedDiff(before, after), splitLines(before), splitLines(after))
  <1> DEFINE a == splitLines(before)
             b == splitLines(after)
             X == Seq(S)
             ops == diffOps(a, b)
             diff == UnifiedDiff(before, after)
  <1>1. a \in Seq(X) /\ b \in Seq(X)
    BY SplitLinesIs
  <1> HIDE DEF a, b, X
  <1>2. CASE before = after
    <2>1. a = b
      BY <1>2 DEF a, b
    <2> DEFINE none == <<>>
    <2>2. Len(none) = 0
      OBVIOUS
    <2>3. diff = Hunks(none)
      BY <1>2 DEF UnifiedDiff
    <2> HIDE DEF none, diff
    <2>4. ~diff.summary /\ diff.hunks = none
      BY <2>3 DEF Hunks
    <2>5. RestAgrees(a, b, none)
      <3>1. \A k \in 0..Len(none) : k = 0 /\ k = Len(none)
        BY <2>2
      <3> QED
        BY <2>1, <3>1 DEF RestAgrees
    <2>6. NoMoreThanContext(none) /\ \A k \in 1..Len(none) : HunkFits(a, b, none[k])
      BY <2>2 DEF NoMoreThanContext
    <2> QED
      BY <2>4, <2>5, <2>6 DEF Explains, a, b, diff
  <1>3. CASE before # after /\ (Len(a) > MaxLines \/ Len(b) > MaxLines)
    <2>1. diff = Summary
      BY <1>3 DEF UnifiedDiff, a, b
    <2> HIDE DEF diff
    <2>2. diff.summary
      BY <2>1 DEF Summary
    <2> QED
      BY <1>3, <2>2 DEF Explains, a, b, diff
  <1>4. CASE before # after /\ ~ (Len(a) > MaxLines \/ Len(b) > MaxLines)
    <2>1. diff = Hunks(groupHunks(ops))
      BY <1>4 DEF UnifiedDiff, a, b
    <2>2. IsScript(ops, X, a, b, <<0, 0>>)
      <3> HIDE DEF ops
      <3>1. IsScript(diffOps(a, b), X, a, b, <<0, 0>>)
        BY <1>1, DiffOpsIs
      <3> QED
        BY <3>1 DEF ops
    <2> DEFINE at == <<0, 0>>
    <2>3. at = <<0, 0>>
      OBVIOUS
    <2>4. ops \in Seq(OpOf(X)) /\ \E path : Leads(ops, a, b, at, path)
      BY <2>2 DEF IsScript
    <2> HIDE DEF ops, at, diff
    <2>5. PICK path : Leads(ops, a, b, at, path)
      BY <2>4
    <2> DEFINE hunks == groupHunks(ops)
    <2>6. /\ \A k \in 1..Len(hunks) : HunkFits(a, b, hunks[k])
          /\ RestAgrees(a, b, hunks)
          /\ NoMoreThanContext(hunks)
      BY <1>1, <2>3, <2>4, <2>5, HunksExplain
    <2> HIDE DEF hunks
    <2>7. ~diff.summary /\ diff.hunks = hunks
      BY <2>1 DEF Hunks, hunks
    <2> QED
      BY <2>6, <2>7 DEF Explains, a, b, diff
  <1> QED
    BY <1>2, <1>3, <1>4

-----------------------------------------------------------------------------
(* The files, and what is told of a command.                               *)

\* What there is of the shell goes with what Wait will say.
ToolSound ==
    tool.kind = "exec" =>
        /\ tool.shell = "running" => tool.cause = "none"
        /\ tool.shell = "exited" => tool.code \in 0..1
        /\ tool.shell = "killed" => tool.code = -1
        /\ tool.shell \in {"killed", "context"} => tool.cause # "none"

\* A file there is none of reads as an empty one.
LEMMA ReadTyped ==
    ASSUME TypeOK, NEW p \in Path
    PROVE  (IF disk[p] = Absent THEN <<>> ELSE disk[p]) \in Texts
  BY DEF TypeOK, Files, Texts

\* What a write may leave is a text.
LEMMA UnfinishedTyped ==
    ASSUME TypeOK, tool.kind = "change", NEW left \in Unfinished
    PROVE  left = Absent \/ left \in Texts
  <1>1. tool.path \in Path /\ tool.after \in Texts
    BY DEF TypeOK, ToolType, NoTool
  <1>2. CASE left = disk[tool.path]
    BY <1>1, <1>2 DEF TypeOK, Files
  <1>3. CASE left \in Prefixes(tool.after)
    <2> DEFINE s == tool.after
    <2> HIDE DEF s
    <2>1. PICK n \in 0..Len(s) : left = SubSeq(s, 1, n)
      BY <1>3 DEF Prefixes, s
    <2>2. s \in Seq(Symbols)
      BY <1>1 DEF s, Texts
    <2> QED
      BY <2>1, <2>2, Halves DEF Texts
  <1> QED
    BY <1>2, <1>3 DEF Unfinished

\* A tool begins and ends as it should, and so do the files.
LEMMA NextTyped ==
    ASSUME TypeOK, ToolSound, [Next]_vars
    PROVE  TypeOK' /\ ToolSound'
  <1>1. ASSUME NEW p \in Path, ReadFile(p) PROVE TypeOK' /\ ToolSound'
    BY <1>1 DEF ReadFile, TypeOK, ToolSound
  <1>2. ASSUME NEW p \in Path, NEW c \in Contents, WriteStart(p, c) PROVE TypeOK' /\ ToolSound'
    <2> DEFINE before == IF disk[p] = Absent THEN <<>> ELSE disk[p]
    <2>1. before \in Texts /\ c \in Texts
      BY ReadTyped, WorkspaceAssumption
    <2>2. /\ tool' = Changing(p, before, c) /\ result' = NoResult
          /\ UNCHANGED <<disk, seen, interrupted>>
      BY <1>2 DEF WriteStart
    <2> HIDE DEF before
    <2>3. tool' \in ToolType /\ tool'.kind = "change"
      BY <2>1, <2>2 DEF Changing, ToolType
    <2> QED
      BY <2>2, <2>3 DEF TypeOK, ToolSound
  <1>3. ASSUME NEW p \in Path, NEW old \in Parts, NEW new \in Parts, NEW all \in BOOLEAN,
               EditStart(p, old, new, all)
        PROVE  TypeOK' /\ ToolSound'
    <2> DEFINE before == disk[p]
               after == edited(before, old, new, all)
    <2>1. before \in Texts /\ old \in Texts /\ new \in Texts
      BY <1>3, WorkspaceAssumption DEF EditStart, TypeOK, Files
    <2>2. /\ tool' = Changing(p, before, after) /\ result' = NoResult
          /\ UNCHANGED <<disk, seen, interrupted>>
          /\ Count(before, old) > 0 /\ (all \/ Count(before, old) = 1)
      BY <1>3 DEF EditStart
    <2> HIDE DEF before
    <2>3. after \in Texts
      BY <2>1, <2>2, EditedTyped DEF Texts
    <2> HIDE DEF after
    <2>4. tool' \in ToolType /\ tool'.kind = "change"
      BY <2>1, <2>2, <2>3 DEF Changing, ToolType
    <2> QED
      BY <2>2, <2>4 DEF TypeOK, ToolSound
  <1>4. ASSUME NEW p \in Path, OtherWrites(p) PROVE TypeOK' /\ ToolSound'
    <2>1. PICK content \in Foreign \cup {Absent} : disk' = [disk EXCEPT ![p] = content]
      BY <1>4 DEF OtherWrites
    <2>2. UNCHANGED <<seen, tool, interrupted, result>>
      BY <1>4 DEF OtherWrites
    <2>3. content = Absent \/ content \in Texts
      BY <2>1, WorkspaceAssumption
    <2>4. disk' \in Files
      BY <2>1, <2>3 DEF TypeOK, Files
    <2> QED
      BY <2>2, <2>4 DEF TypeOK, ToolSound
  <1>5. ASSUME tool.kind = "change", NEW left, left = Absent \/ left \in Texts,
               disk' = [disk EXCEPT ![tool.path] = left]
        PROVE  disk' \in Files
    BY <1>5 DEF TypeOK, Files
  <1>6. CASE WriteDone
    <2>1. tool.kind = "change" /\ tool.path \in Path /\ tool.after \in Texts
      BY <1>6 DEF WriteDone, TypeOK, ToolType, NoTool
    <2>2. disk' \in Files
      BY <1>5, <1>6, <2>1 DEF WriteDone
    <2>3. /\ seen' \subseteq Path /\ tool' = NoTool /\ interrupted' = interrupted
          /\ result'.kind = "changed"
      BY <1>6, <2>1 DEF WriteDone, Changed, TypeOK
    <2> QED
      BY <2>2, <2>3 DEF TypeOK, ToolSound, NoTool, ToolType
  <1>7. CASE WriteFails
    <2>1. PICK left \in Unfinished : disk' = [disk EXCEPT ![tool.path] = left]
      BY <1>7 DEF WriteFails
    <2>2. disk' \in Files
      BY <1>5, <1>7, <2>1, UnfinishedTyped DEF WriteFails
    <2>3. tool' = NoTool /\ result' = ToolError /\ UNCHANGED <<seen, interrupted>>
      BY <1>7 DEF WriteFails
    <2> QED
      BY <2>2, <2>3 DEF TypeOK, ToolSound, NoTool, ToolType
  <1>8. CASE ExecStart
    <2>1. /\ tool' = Command("running", 0, FALSE, "none") /\ result' = NoResult
          /\ UNCHANGED <<disk, seen, interrupted>>
      BY <1>8 DEF ExecStart
    <2>2. tool' \in ToolType /\ tool'.cause = "none" /\ tool'.shell = "running"
      BY <2>1 DEF Command, ToolType, Codes
    <2> QED
      BY <2>1, <2>2 DEF TypeOK, ToolSound
  <1>9. CASE ExecCannotStart
    BY <1>9 DEF ExecCannotStart, TypeOK, ToolSound
  <1>10. CASE ShellExits
    <2>1. PICK code \in 0..1, held \in BOOLEAN : tool' = Command("exited", code, held, tool.cause)
      BY <1>10 DEF ShellExits
    <2>2. /\ UNCHANGED <<disk, seen, interrupted, result>> /\ tool.kind = "exec"
          /\ tool.shell = "running" /\ tool.cause = "none"
      BY <1>10 DEF ShellExits, Running, ToolSound
    <2>3. /\ tool' \in ToolType /\ tool'.cause = "none" /\ tool'.shell = "exited"
          /\ tool'.code \in 0..1
      BY <2>1, <2>2 DEF Command, ToolType, Codes
    <2> QED
      BY <2>2, <2>3 DEF TypeOK, ToolSound
  <1>11. ASSUME tool.kind = "exec", tool.cause = "none", NEW cause \in {"deadline", "interrupt"},
                tool' \in Killed(cause)
         PROVE  /\ tool' \in ToolType /\ tool'.cause = cause /\ tool'.kind = "exec"
                /\ tool'.shell # "running"
                /\ tool'.shell = "exited" => tool'.code \in 0..1
                /\ tool'.shell = "killed" => tool'.code = -1
    <2>1. CASE tool.shell # "running"
      <3>1. tool' = [tool EXCEPT !.cause = cause]
        BY <1>11, <2>1 DEF Killed
      <3>2. tool \in [kind : {"exec"}, shell : {"running", "exited", "killed", "context"},
                      code : Codes, held : BOOLEAN, cause : {"none", "deadline", "interrupt"}]
        BY <1>11 DEF TypeOK, ToolType, NoTool
      <3> QED
        BY <1>11, <2>1, <3>1, <3>2 DEF ToolType, ToolSound
    <2>2. CASE tool.shell = "running"
      <3>1. PICK how \in {<<"killed", -1>>, <<"exited", 1>>, <<"context", 0>>}, held \in BOOLEAN :
               tool' = Command(how[1], how[2], held, cause)
        BY <1>11, <2>2 DEF Killed
      <3>2. /\ how[1] \in {"killed", "exited", "context"} /\ how[2] \in -1..1
            /\ how[1] = "exited" => how[2] = 1
            /\ how[1] = "killed" => how[2] = -1
        OBVIOUS
      <3> QED
        BY <3>1, <3>2 DEF Command, ToolType, Codes
    <2> QED
      BY <2>1, <2>2
  <1>12. CASE Deadline
    <2>1. /\ tool.kind = "exec" /\ tool.cause = "none" /\ tool' \in Killed("deadline")
          /\ UNCHANGED <<disk, seen, interrupted, result>>
      BY <1>12 DEF Deadline
    <2> QED
      BY <1>11, <2>1 DEF TypeOK, ToolSound
  <1>13. CASE Interrupt
    <2>1. interrupted' = TRUE /\ UNCHANGED <<disk, seen, result>>
      BY <1>13 DEF Interrupt
    <2>2. CASE tool.kind = "exec" /\ tool.cause = "none"
      <3>1. tool' \in Killed("interrupt")
        BY <1>13, <2>2 DEF Interrupt
      <3> QED
        BY <1>11, <2>1, <2>2, <3>1 DEF TypeOK, ToolSound
    <2>3. CASE ~ (tool.kind = "exec" /\ tool.cause = "none")
      <3>1. tool' = tool
        BY <1>13, <2>3 DEF Interrupt
      <3> QED
        BY <2>1, <3>1 DEF TypeOK, ToolSound
    <2> QED
      BY <2>2, <2>3
  <1>14. CASE PipesClose
    <2>1. /\ tool' = [tool EXCEPT !.held = FALSE] /\ tool.kind = "exec"
          /\ UNCHANGED <<disk, seen, interrupted, result>>
      BY <1>14 DEF PipesClose
    <2>2. tool \in [kind : {"exec"}, shell : {"running", "exited", "killed", "context"},
                    code : Codes, held : BOOLEAN, cause : {"none", "deadline", "interrupt"}]
      BY <2>1 DEF TypeOK, ToolType, NoTool
    <2>3. /\ tool' \in ToolType /\ tool'.kind = "exec" /\ tool'.shell = tool.shell
          /\ tool'.code = tool.code /\ tool'.cause = tool.cause
      BY <2>1, <2>2 DEF ToolType
    <2> QED
      BY <2>1, <2>3 DEF TypeOK, ToolSound
  <1>15. CASE ExecReturns
    <2>1. /\ tool.kind = "exec" /\ result' = Outcome /\ tool' = NoTool
          /\ UNCHANGED <<disk, seen, interrupted>>
      BY <1>15 DEF ExecReturns
    <2>2. tool.code \in Codes
      BY <2>1 DEF TypeOK, ToolType, NoTool
    <2>3. \/ Outcome \in {CannotRun, Aborted}
          \/ \E code \in Codes, late \in BOOLEAN : Outcome = Ran(code, late)
      <3> DEFINE code == IF tool.shell = "context" THEN -1 ELSE tool.code
                 late == tool.cause = "deadline"
      <3>1. code \in Codes /\ late \in BOOLEAN
        BY <2>2 DEF Codes
      <3>2. Outcome \in {CannotRun, Aborted} \/ Outcome = Ran(code, late)
        BY DEF Outcome
      <3> HIDE DEF code, late
      <3> QED
        BY <3>1, <3>2
    <2> QED
      BY <2>1, <2>3 DEF TypeOK, ToolSound, Ran, NoTool, ToolType
  <1>16. CASE Restart
    <2>1. disk' \in Files
      <3>1. CASE tool.kind = "change"
        <4>1. PICK left \in Unfinished : disk' = [disk EXCEPT ![tool.path] = left]
          BY <1>16, <3>1 DEF Restart
        <4> QED
          BY <1>5, <3>1, <4>1, UnfinishedTyped
      <3>2. CASE tool.kind # "change"
        BY <1>16, <3>2 DEF Restart, TypeOK
      <3> QED
        BY <3>1, <3>2
    <2>2. seen' = {} /\ tool' = NoTool /\ interrupted' = FALSE /\ result' = NoResult
      BY <1>16 DEF Restart
    <2> QED
      BY <2>1, <2>2 DEF TypeOK, ToolSound, NoTool, ToolType
  <1>17. CASE UNCHANGED vars
    BY <1>17 DEF vars, TypeOK, ToolSound
  <1> QED
    BY <1>1, <1>2, <1>3, <1>4, <1>6, <1>7, <1>8, <1>9, <1>10, <1>12, <1>13, <1>14, <1>15, <1>16,
       <1>17 DEF Next

\* And so it is in the beginning.
LEMMA InitTyped ==
    ASSUME Init
    PROVE  TypeOK /\ ToolSound
  <1>1. <<>> \in Texts
    BY DEF Texts
  <1>2. disk \in Files
    BY <1>1 DEF Init, Files
  <1> QED
    BY <1>1, <1>2 DEF Init, TypeOK, ToolSound, NoTool, ToolType

\* Throughout, tools and files are as they should be.
LEMMA WorkspaceInvariant == Spec => [](TypeOK /\ ToolSound)
  <1>1. Init => TypeOK /\ ToolSound
    BY InitTyped
  <1>2. TypeOK /\ ToolSound /\ [Next]_vars => (TypeOK /\ ToolSound)'
    BY NextTyped
  <1> QED
    BY <1>1, <1>2, PTL DEF Spec

\* Whatever is written, and however writes and commands end, the files hold
\* texts and a tool and its result are of a kind there is (TypeOK).
THEOREM WorkspaceTypes == Spec => []TypeOK
  BY WorkspaceInvariant, PTL

\* An exit code told of a command is that of a shell that ended by itself, -1
\* and a time-out are told of one whose time was up, nothing of the kind after
\* an interrupt; that it was interrupted or cannot be run is said of a command
\* that was begun only if it was interrupted (ExecTellsTheTruth, execTool.Run).
THEOREM CommandsToldTruly == Spec => ExecTellsTheTruth
  <1> DEFINE Told == /\ ~interrupted
                     /\ result'.timedOut <=> tool.cause = "deadline"
                     /\ IF result'.code = -1 THEN tool.cause = "deadline" /\ tool.shell # "exited"
                        ELSE tool.shell = "exited" /\ tool.code = result'.code
             ToldOf == /\ result'.kind = "ran" => Told
                       /\ result'.kind = "aborted" => interrupted
                       /\ result'.kind = "cannot_run" => interrupted /\ tool.shell = "context"
  <1>1. TypeOK /\ ToolSound /\ [Next]_vars
           => [tool.kind = "exec" /\ tool' = NoTool => ToldOf]_vars
    <2> SUFFICES ASSUME TypeOK, ToolSound, Next, tool.kind = "exec", tool' = NoTool,
                        result'.kind \in {"ran", "aborted", "cannot_run"}
                 PROVE  ToldOf
      BY DEF vars
    <2> HIDE DEF Told, ToldOf
    <2>1. /\ ~Idle /\ tool # tool' /\ tool'.kind = "none" /\ tool.kind # "change"
          /\ result' # NoResult
      BY DEF Idle, NoTool, NoResult
    <2>2. ~ \E p \in Path : ReadFile(p) \/ OtherWrites(p) \/ \E c \in Contents : WriteStart(p, c)
      BY <2>1 DEF ReadFile, OtherWrites, WriteStart
    <2>3. ~ \E p \in Path, old, new \in Parts, all \in BOOLEAN : EditStart(p, old, new, all)
      BY <2>1 DEF EditStart
    <2>4. ~WriteDone /\ ~WriteFails /\ ~ExecStart /\ ~ExecCannotStart /\ ~Restart
      BY <2>1 DEF WriteDone, WriteFails, ExecStart, ExecCannotStart, Restart
    <2>5. ~ShellExits
      BY <2>1 DEF ShellExits, Command
    <2>6. ~PipesClose
      <3>1. ASSUME PipesClose PROVE FALSE
        <4>1. tool' = [tool EXCEPT !.held = FALSE] /\ tool.kind = "exec"
          BY <3>1 DEF PipesClose
        <4>2. tool \in [kind : {"exec"}, shell : {"running", "exited", "killed", "context"},
                        code : Codes, held : BOOLEAN, cause : {"none", "deadline", "interrupt"}]
          BY <4>1 DEF TypeOK, ToolType, NoTool
        <4>3. tool'.kind = "exec"
          BY <4>1, <4>2
        <4> QED
          BY <2>1, <4>3
      <3> QED
        BY <3>1
    <2>7. ASSUME NEW cause, tool' \in Killed(cause) PROVE FALSE
      <3>1. tool \in [kind : {"exec"}, shell : {"running", "exited", "killed", "context"},
                      code : Codes, held : BOOLEAN, cause : {"none", "deadline", "interrupt"}]
        BY DEF TypeOK, ToolType, NoTool
      <3>2. tool'.kind = "exec"
        BY <2>7, <3>1 DEF Killed, Command
      <3> QED
        BY <2>1, <3>2
    <2>8. ~Deadline /\ ~Interrupt
      BY <2>1, <2>7 DEF Deadline, Interrupt
    <2>9. ExecReturns
      BY <2>2, <2>3, <2>4, <2>5, <2>6, <2>8 DEF Next
    <2>10. /\ tool.shell # "running" /\ result' = Outcome
           /\ tool.shell \in {"running", "exited", "killed", "context"}
           /\ tool.cause \in {"none", "deadline", "interrupt"}
           /\ tool.code \in Codes
      BY <2>9 DEF ExecReturns, Running, TypeOK, ToolType, NoTool
    <2> DEFINE code == IF tool.shell = "context" THEN -1 ELSE tool.code
               late == tool.cause = "deadline"
    <2>14. tool.shell = "context" => tool.cause # "none"
      BY <2>10 DEF ToolSound
    <2>15. tool.cause = "interrupt" => interrupted
      BY DEF TypeOK
    <2>16. CASE tool.shell = "context" /\ ~late
      <3>1. interrupted /\ result' = CannotRun
        BY <2>10, <2>14, <2>15, <2>16 DEF Outcome
      <3> HIDE DEF code, late
      <3> QED
        BY <2>16, <3>1 DEF CannotRun, ToldOf
    <2>17. CASE ~ (tool.shell = "context" /\ ~late) /\ interrupted
      <3>1. result' = Aborted
        BY <2>10, <2>17 DEF Outcome
      <3> HIDE DEF code, late
      <3> QED
        BY <2>17, <3>1 DEF Aborted, ToldOf
    <2>18. CASE ~ (tool.shell = "context" /\ ~late) /\ ~interrupted
      <3>1. Outcome = Ran(code, late)
        BY <2>18 DEF Outcome
      <3>2. result'.timedOut = late /\ result'.code = code /\ result'.kind = "ran"
        <4> HIDE DEF code, late
        <4> QED
          BY <2>10, <3>1 DEF Ran
      <3>3. tool.cause # "interrupt"
        BY <2>15, <2>18
      <3>4. tool.shell = "killed" => tool.cause = "deadline"
        BY <2>10, <3>3 DEF ToolSound
      <3>5. Told
        <4>1. CASE tool.shell = "exited"
          <5>1. code \in 0..1 /\ code = tool.code /\ code # -1
            BY <4>1 DEF ToolSound
          <5> QED
            BY <2>18, <3>2, <4>1, <5>1 DEF Told
        <4>2. CASE tool.shell = "killed"
          <5>1. code = -1
            BY <4>2 DEF ToolSound
          <5> QED
            BY <2>18, <3>2, <3>4, <4>2, <5>1 DEF Told
        <4>3. CASE tool.shell = "context"
          <5>1. code = -1 /\ tool.cause = "deadline"
            BY <2>18, <4>3
          <5> QED
            BY <2>18, <3>2, <4>3, <5>1 DEF Told
        <4> QED
          BY <2>10, <4>1, <4>2, <4>3
      <3> QED
        BY <3>2, <3>5 DEF ToldOf
    <2> QED
      BY <2>16, <2>17, <2>18
  <1> QED
    BY <1>1, WorkspaceInvariant, PTL DEF Spec, ExecTellsTheTruth

\* A write that has begun has no result yet.
Unanswered == tool.kind = "change" => result = NoResult

\* No step gives a result to a write that goes on.
LEMMA NextUnanswered ==
    ASSUME TypeOK, ToolSound, Unanswered, [Next]_vars
    PROVE  Unanswered'
  <1>0. TypeOK'
    BY NextTyped
  <1>1. SUFFICES ASSUME tool'.kind = "change", result' # NoResult PROVE FALSE
    BY DEF Unanswered
  <1>2. ~ \E p \in Path : ReadFile(p) \/ \E c \in Contents : WriteStart(p, c)
    BY <1>1 DEF ReadFile, WriteStart
  <1>3. ~ \E p \in Path, old, new \in Parts, all \in BOOLEAN : EditStart(p, old, new, all)
    BY <1>1 DEF EditStart
  <1>4. ~ \E p \in Path : OtherWrites(p)
    BY <1>1 DEF OtherWrites, Unanswered
  <1>5. ~WriteDone /\ ~WriteFails /\ ~ExecStart /\ ~ExecReturns /\ ~Restart
    BY <1>1 DEF WriteDone, WriteFails, ExecStart, ExecReturns, Restart, NoTool, Command
  <1>6. ~ExecCannotStart
    BY <1>1 DEF ExecCannotStart, Idle, NoTool
  <1>7. ~ShellExits
    BY <1>1 DEF ShellExits, Command
  <1>8. ASSUME tool.kind = "exec", NEW cause, tool' \in Killed(cause) PROVE FALSE
    <2>1. tool \in [kind : {"exec"}, shell : {"running", "exited", "killed", "context"},
                    code : Codes, held : BOOLEAN, cause : {"none", "deadline", "interrupt"}]
      BY <1>8 DEF TypeOK, ToolType, NoTool
    <2>2. tool'.kind = "exec"
      BY <1>8, <2>1 DEF Killed, Command
    <2> QED
      BY <1>1, <2>2
  <1>9. ~Deadline
    BY <1>8 DEF Deadline
  <1>10. ~Interrupt
    BY <1>1, <1>8 DEF Interrupt, Unanswered
  <1>11. ~PipesClose
    <2>1. ASSUME PipesClose PROVE FALSE
      <3>1. tool' = [tool EXCEPT !.held = FALSE] /\ tool.kind = "exec"
        BY <2>1 DEF PipesClose
      <3>2. tool \in [kind : {"exec"}, shell : {"running", "exited", "killed", "context"},
                      code : Codes, held : BOOLEAN, cause : {"none", "deadline", "interrupt"}]
        BY <3>1 DEF TypeOK, ToolType, NoTool
      <3>3. tool'.kind = "exec"
        BY <3>1, <3>2
      <3> QED
        BY <1>1, <3>3
    <2> QED
      BY <2>1
  <1>12. vars' # vars
    BY <1>1 DEF vars, Unanswered
  <1> QED
    BY <1>2, <1>3, <1>4, <1>5, <1>6, <1>7, <1>9, <1>10, <1>11, <1>12 DEF Next

\* The diff that a write or an edit hands to the audit log is the change it
\* made to the file, whatever the two texts are (AuditedDiffIsTheChange).
THEOREM DiffIsTheChange == Spec => AuditedDiffIsTheChange
  <1> DEFINE Shown == \A p \in Path :
                         LET old == IF disk[p] = Absent THEN <<>> ELSE disk[p] IN
                         p = tool.path /\ old = tool.before =>
                            Explains(result'.diff, splitLines(old), splitLines(disk'[p]))
  <1>1. TypeOK /\ ToolSound /\ Unanswered /\ [Next]_vars
           => [tool.kind = "change" /\ result'.kind = "changed" => Shown]_vars
    <2> SUFFICES ASSUME TypeOK, ToolSound, Unanswered, Next, tool.kind = "change",
                        result'.kind = "changed"
                 PROVE  Shown
      BY DEF vars
    <2>1. ~Idle /\ result = NoResult /\ result' # result /\ result' # ToolError /\ result' # NoResult
      BY DEF Idle, NoTool, Unanswered, NoResult, ToolError
    <2>2. ~ \E p \in Path : ReadFile(p) \/ OtherWrites(p) \/ \E c \in Contents : WriteStart(p, c)
      BY <2>1 DEF ReadFile, OtherWrites, WriteStart
    <2>3. ~ \E p \in Path, old, new \in Parts, all \in BOOLEAN : EditStart(p, old, new, all)
      BY <2>1 DEF EditStart
    <2>4. ~WriteFails /\ ~ExecStart /\ ~ExecCannotStart /\ ~Restart
      BY <2>1 DEF WriteFails, ExecStart, ExecCannotStart, Restart
    <2>5. ~ShellExits /\ ~Deadline /\ ~Interrupt /\ ~PipesClose /\ ~ExecReturns
      BY <2>1 DEF ShellExits, Running, Deadline, Interrupt, PipesClose, ExecReturns
    <2>6. WriteDone
      BY <2>2, <2>3, <2>4, <2>5 DEF Next
    <2> DEFINE before == tool.before
               after == tool.after
    <2>7. /\ tool.path \in Path /\ before \in Texts /\ after \in Texts
          /\ result' = Changed(UnifiedDiff(before, after))
          /\ disk'[tool.path] = after
      <3>1. tool.path \in Path /\ before \in Texts /\ after \in Texts
        BY DEF TypeOK, ToolType, NoTool
      <3>2. disk' = [disk EXCEPT ![tool.path] = after] /\ disk \in Files
        BY <2>6 DEF WriteDone, TypeOK
      <3>3. disk'[tool.path] = after
        BY <3>1, <3>2 DEF Files
      <3>4. result' = Changed(UnifiedDiff(before, after))
        BY <2>6 DEF WriteDone
      <3> QED
        BY <3>1, <3>3, <3>4
    <2> HIDE DEF before, after
    <2>8. Explains(UnifiedDiff(before, after), splitLines(before), splitLines(after))
      <3> DEFINE S == Symbols \cup {Newline}
      <3>1. before \in Seq(Symbols) /\ after \in Seq(Symbols)
        BY <2>7 DEF Texts
      <3>2. Symbols \subseteq S /\ Newline \in S
        OBVIOUS
      <3> HIDE DEF S
      <3>3. before \in Seq(S) /\ after \in Seq(S)
        BY <3>1, <3>2
      <3> QED
        BY <3>2, <3>3, DiffExplains
    <2> DEFINE diff == UnifiedDiff(before, after)
    <2> HIDE DEF diff
    <2>9. result'.diff = diff
      BY <2>7 DEF Changed, diff
    <2>10. ASSUME NEW p \in Path, p = tool.path, NEW old, old = before
           PROVE  Explains(result'.diff, splitLines(old), splitLines(disk'[p]))
      BY <2>7, <2>8, <2>9, <2>10 DEF diff
    <2> QED
      BY <2>10 DEF before
  <1>2. Init => Unanswered
    BY DEF Init, Unanswered, NoTool
  <1>3. TypeOK /\ ToolSound /\ Unanswered /\ [Next]_vars => Unanswered'
    BY NextUnanswered
  <1> QED
    BY <1>1, <1>2, <1>3, WorkspaceInvariant, PTL DEF Spec, AuditedDiffIsTheChange
=============================================================================
