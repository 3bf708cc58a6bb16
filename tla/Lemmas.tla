------------------------------- MODULE Lemmas -------------------------------
(***************************************************************************)
(* What the proofs about several components use: the least number, which   *)
(* stands in for induction, functions defined by recursion, where one      *)
(* sequence stands in another, numbers in order, the elements of sequences *)
(* and what a write does to a file of lines.                               *)
(***************************************************************************)
EXTENDS LineFile, Strings, SequenceTheorems, FiniteSetTheorems,
        WellFoundedInduction, TLAPS

(* The least element of a set of natural numbers.  It is what the proofs   *)
(* use in place of induction: a claim about all numbers that failed for    *)
(* some would fail for a least one.                                        *)

\* A set of natural numbers that is not empty has a least element.  (The
\* initial segments 1..n are finite sets, well ordered by inclusion.)
LEMMA SmallestExists ==
    ASSUME NEW T, T \subseteq Nat, T # {}
    PROVE  \E m \in T : \A k \in T : m <= k
  <1> DEFINE U == {1..n : n \in T}
             R == StrictSubsetOrdering(Nat)
  <1>1. U \subseteq FiniteSubsetsOf(Nat)
    <2>1. ASSUME NEW n \in T PROVE 1..n \in SUBSET Nat /\ IsFiniteSet(1..n)
      BY FS_Interval
    <2> QED
      BY <2>1 DEF FiniteSubsetsOf
  <1>2. U # {}
    OBVIOUS
  <1>3. \E x \in U : \A y \in U : ~ (<<y, x>> \in R)
    <2>1. IsWellFoundedOn(R, FiniteSubsetsOf(Nat))
      BY FS_StrictSubsetOrderingWellFounded
    <2> HIDE DEF U, R
    <2> QED
      BY <1>1, <1>2, <2>1, WFMin
  <1>4. PICK m \in T : \A k \in T : ~ (<<1..k, 1..m>> \in R)
    BY <1>3
  <1>5. ASSUME NEW k \in T, ~ (m <= k) PROVE FALSE
    <2>1. m \in 1..m /\ m \notin 1..k
      BY <1>5
    <2>2. 1..k \subseteq 1..m /\ 1..k # 1..m
      BY <1>5, <2>1
    <2>3. <<1..k, 1..m>> \in R
      BY <2>2 DEF StrictSubsetOrdering
    <2> QED
      BY <1>4, <2>3
  <1> QED
    BY <1>5

-----------------------------------------------------------------------------
(* Recursion.                                                              *)

\* f begins at v and goes on as h says for each position from the value before.
Iterated(a, b, v, h, f) == f = [j \in a..b |-> IF j = a THEN v ELSE h[j][f[j - 1]]]

\* There is one such function over each interval.
LEMMA IterationExists ==
    ASSUME NEW a \in Nat, NEW b \in Nat, a <= b, NEW V, NEW v \in V,
           NEW h \in [a..b -> [V -> V]]
    PROVE  \E f \in [a..b -> V] : Iterated(a, b, v, h, f)
  <1> USE DEF Iterated
  <1> DEFINE It(n, f) == Iterated(a, n, v, h, f)
             T == {n \in a..b : ~ \E f \in [a..n -> V] : It(n, f)}
  <1>1. CASE T = {}
    <2>1. b \in a..b
      OBVIOUS
    <2>2. b \notin T
      <3> HIDE DEF T
      <3> QED
        BY <1>1
    <2> QED
      BY <2>1, <2>2
  <1>2. CASE T # {}
    <2>1. PICK n \in T : \A k \in T : n <= k
      <3> HIDE DEF T
      <3>1. T \subseteq Nat
        BY DEF T
      <3> QED
        BY <1>2, <3>1, SmallestExists
    <2>2. CASE n = a
      <3>1. [j \in a..n |-> v] \in [a..n -> V] /\ It(n, [j \in a..n |-> v])
        BY <2>2
      <3> QED
        BY <2>1, <3>1
    <2>3. CASE n # a
      <3>1. n - 1 \in a..b /\ n \in a..b
        BY <2>3
      <3>a. n - 1 \notin T
        <4> HIDE DEF T
        <4> QED
          BY <2>1, <3>1
      <3>2. PICK f \in [a..n - 1 -> V] : It(n - 1, f)
        BY <3>1, <3>a
      <3> DEFINE g == [j \in a..n |-> IF j = n THEN h[n][f[n - 1]] ELSE f[j]]
      <3>3. n - 1 \in a..n - 1 /\ f[n - 1] \in V /\ n \in a..b /\ h[n][f[n - 1]] \in V
        BY <3>1, <3>2
      <3>4. g \in [a..n -> V]
        <4>1. ASSUME NEW j \in a..n, j # n PROVE f[j] \in V
          BY <3>1, <3>2, <4>1
        <4> QED
          BY <3>3, <4>1
      <3>5. ASSUME NEW j \in a..n
            PROVE  g[j] = IF j = a THEN v ELSE h[j][g[j - 1]]
        <4>1. CASE j = n
          BY <2>3, <3>1, <3>3, <4>1
        <4>2. CASE j # n
          <5>1. j \in a..n - 1 /\ (j # a => j - 1 \in a..n - 1)
            BY <3>1, <4>2
          <5>2. f[j] = IF j = a THEN v ELSE h[j][f[j - 1]]
            BY <3>2, <5>1
          <5>3. g[j] = f[j] /\ (j # a => g[j - 1] = f[j - 1])
            BY <3>1, <4>2, <5>1
          <5> QED
            BY <5>2, <5>3
        <4> QED
          BY <4>1, <4>2
      <3>6. It(n, g)
        <4> HIDE DEF g
        <4> QED
          BY <3>4, <3>5
      <3> QED
        BY <2>1, <3>4, <3>6
    <2> QED
      BY <2>2, <2>3
  <1> QED
    BY <1>1, <1>2

\* Of the elements of a set that is not empty, one is measured the least.
LEMMA LeastExists ==
    ASSUME NEW S, NEW mu \in [S -> Nat], NEW T, T \subseteq S, T # {}
    PROVE  \E s \in T : \A t \in T : mu[s] <= mu[t]
  <1> DEFINE M == {mu[t] : t \in T}
  <1>1. M \subseteq Nat /\ M # {}
    OBVIOUS
  <1>2. PICK m \in M : \A k \in M : m <= k
    <2> HIDE DEF M
    <2> QED
      BY <1>1, SmallestExists
  <1> QED
    BY <1>2

\* There are none of which each has another that is measured less.
LEMMA NoneEndless ==
    ASSUME NEW S, NEW mu \in [S -> Nat], NEW B, B \subseteq S,
           \A s \in B : \E t \in B : mu[t] < mu[s]
    PROVE  B = {}
  <1>1. ASSUME B # {} PROVE FALSE
    <2>1. PICK s \in B : \A t \in B : mu[s] <= mu[t]
      BY <1>1, LeastExists
    <2>2. PICK t \in B : mu[t] < mu[s]
      OBVIOUS
    <2>3. mu[s] <= mu[t] /\ mu[s] \in Nat /\ mu[t] \in Nat
      BY <2>1
    <2> QED
      BY <2>2, <2>3
  <1> QED
    BY <1>1

\* f is defined by recursion: on the elements of more, from its value at the
\* next element; elsewhere, as base says.
Recursive(S, more, next, comb, base, f) ==
    f = [s \in S |-> IF s \in more THEN comb[s][f[next[s]]] ELSE base[s]]

\* There is such a function, if the next element always measures less.
LEMMA RecursionExists ==
    ASSUME NEW S, NEW V, NEW more, NEW next \in [S -> S], NEW mu \in [S -> Nat],
           NEW comb \in [S -> [V -> V]], NEW base \in [S -> V],
           \A s \in S : s \in more => mu[next[s]] < mu[s]
    PROVE  \E f \in [S -> V] : Recursive(S, more, next, comb, base, f)
  <1> DEFINE Upto(n) == {s \in S : mu[s] <= n}
             Ok(n, f) == \A s \in Upto(n) :
                            f[s] = IF s \in more THEN comb[s][f[next[s]]] ELSE base[s]
             T == {n \in Nat : ~ \E f \in [Upto(n) -> V] : Ok(n, f)}
  <1>1. ASSUME NEW n \in T, \A k \in T : n <= k PROVE FALSE
    <2>0. n \in Nat
      OBVIOUS
    <2>1. PICK e \in [Upto(n - 1) -> V] : n # 0 => Ok(n - 1, e)
      <3>1. CASE n = 0
        <4>1. Upto(n - 1) = {}
          BY <3>1
        <4>2. [s \in Upto(n - 1) |-> base[s]] \in [Upto(n - 1) -> V]
          BY <4>1
        <4> HIDE DEF Upto
        <4> QED
          BY <3>1, <4>2
      <3>2. CASE n # 0
        <4>1. n - 1 \in Nat /\ ~ (n <= n - 1)
          BY <2>0, <3>2
        <4>2. n - 1 \notin T
          <5> HIDE DEF T
          <5> QED
            BY <1>1, <4>1
        <4> HIDE DEF Upto, Ok
        <4> QED
          BY <4>1, <4>2
      <3> QED
        BY <3>1, <3>2
    <2> DEFINE f == [s \in Upto(n) |-> IF s \in more THEN comb[s][e[next[s]]] ELSE base[s]]
    <2>2. ASSUME NEW s \in Upto(n), s \in more
          PROVE  n # 0 /\ next[s] \in Upto(n - 1) /\ next[s] \in Upto(n)
      BY <2>0, <2>2
    <2>3. f \in [Upto(n) -> V]
      <3>1. ASSUME NEW s \in Upto(n) PROVE f[s] \in V
        <4>1. s \in more => next[s] \in Upto(n - 1)
          BY <2>2
        <4>2. s \in S
          OBVIOUS
        <4> HIDE DEF Upto
        <4>3. s \in more => e[next[s]] \in V
          BY <2>1, <4>1
        <4> QED
          BY <4>2, <4>3
      <3> HIDE DEF Upto
      <3> QED
        BY <3>1
    <2>4. Ok(n, f)
      <3>1. ASSUME NEW s \in Upto(n), s \in more PROVE f[next[s]] = e[next[s]]
        <4>1. n # 0 /\ next[s] \in Upto(n - 1) /\ next[s] \in Upto(n)
          BY <2>2, <3>1
        <4> HIDE DEF Upto
        <4> QED
          BY <2>1, <4>1
      <3> QED
        BY <3>1
    <2> HIDE DEF f, Upto, Ok
    <2> QED
      BY <2>3, <2>4
  <1>2. \A n \in Nat : \E f \in [Upto(n) -> V] : Ok(n, f)
    <2>1. T = {}
      <3> HIDE DEF T
      <3>1. T \subseteq Nat
        BY DEF T
      <3> QED
        BY <1>1, <3>1, SmallestExists
    <2> HIDE DEF Upto, Ok
    <2> QED
      BY <2>1
  <1> DEFINE g == [n \in Nat |-> CHOOSE f \in [Upto(n) -> V] : Ok(n, f)]
  <1>3. ASSUME NEW n \in Nat PROVE g[n] \in [Upto(n) -> V] /\ Ok(n, g[n])
    <2> HIDE DEF Upto, Ok
    <2> QED
      BY <1>2
  <1> HIDE DEF g
  <1> DEFINE f == [s \in S |-> g[mu[s]][s]]
  <1>4. ASSUME NEW n \in Nat, NEW m \in Nat, n <= m, NEW s \in Upto(n)
        PROVE  g[n][s] = g[m][s]
    <2> DEFINE B == {t \in Upto(n) : g[n][t] # g[m][t]}
    <2>1. ASSUME NEW t \in B, \A u \in B : mu[t] <= mu[u] PROVE FALSE
      <3>0. t \in Upto(n) /\ t \in Upto(m) /\ t \in S
        BY <1>4
      <3>1. t \in more => next[t] \in Upto(n) /\ ~ (mu[t] <= mu[next[t]])
        BY <3>0
      <3>2. /\ g[n][t] = IF t \in more THEN comb[t][g[n][next[t]]] ELSE base[t]
            /\ g[m][t] = IF t \in more THEN comb[t][g[m][next[t]]] ELSE base[t]
        BY <1>3, <1>4, <3>0
      <3>3. t \in more => g[n][next[t]] = g[m][next[t]]
        <4>1. t \in more => next[t] \notin B
          <5> HIDE DEF B
          <5> QED
            BY <2>1, <3>1
        <4> QED
          BY <3>1, <4>1
      <3>4. g[n][t] = g[m][t]
        BY <3>2, <3>3
      <3> QED
        BY <3>4
    <2>2. B = {}
      <3>1. B \subseteq S
        OBVIOUS
      <3> HIDE DEF B
      <3> QED
        BY <2>1, <3>1, LeastExists
    <2> QED
      BY <2>2
  <1>5. ASSUME NEW s \in S
        PROVE  /\ f[s] \in V
               /\ f[s] = IF s \in more THEN comb[s][f[next[s]]] ELSE base[s]
    <2>1. mu[s] \in Nat /\ s \in Upto(mu[s])
      OBVIOUS
    <2>2. f[s] = g[mu[s]][s] /\ f[s] \in V
      BY <1>3, <2>1
    <2>3. f[s] = IF s \in more THEN comb[s][g[mu[s]][next[s]]] ELSE base[s]
      BY <1>3, <2>1, <2>2
    <2>4. ASSUME s \in more PROVE g[mu[s]][next[s]] = f[next[s]]
      <3>1. next[s] \in S /\ mu[next[s]] \in Nat /\ mu[next[s]] <= mu[s]
        BY <2>1, <2>4
      <3>2. next[s] \in Upto(mu[next[s]])
        BY <3>1
      <3>3. g[mu[next[s]]][next[s]] = g[mu[s]][next[s]]
        <4> HIDE DEF Upto
        <4> QED
          BY <1>4, <2>1, <3>1, <3>2
      <3> QED
        BY <3>1, <3>3
    <2> HIDE DEF f
    <2> QED
      BY <2>2, <2>3, <2>4
  <1>6. f \in [S -> V]
    BY <1>5
  <1>7. f = [s \in S |-> IF s \in more THEN comb[s][f[next[s]]] ELSE base[s]]
    <2>1. DOMAIN f = S
      OBVIOUS
    <2> HIDE DEF f
    <2> QED
      BY <1>5, <1>6
  <1> HIDE DEF f
  <1> QED
    BY <1>6, <1>7 DEF Recursive

-----------------------------------------------------------------------------
(* Sequences, and where one stands in another (Strings).                  *)

\* Three sequences one behind the other, however they are put together.
LEMMA Regrouped ==
    \A S : \A x, y, z \in Seq(S) : (x \o y) \o z = x \o (y \o z)
  <1>1. ASSUME NEW S, NEW x \in Seq(S), NEW y \in Seq(S), NEW z \in Seq(S)
        PROVE  (x \o y) \o z = x \o (y \o z)
    BY ConcatAssociative
  <1> QED
    BY <1>1

Grouping(x, y, z) == (x \o y) \o z = x \o (y \o z)

\* The same of three given sequences.
LEMMA Regrouping ==
    ASSUME NEW S, NEW x \in Seq(S), NEW y \in Seq(S), NEW z \in Seq(S)
    PROVE  Grouping(x, y, z)
  BY ConcatAssociative DEF Grouping

\* Two elements, one after the other.
LEMMA AppendToOne ==
    ASSUME NEW S, NEW a \in S, NEW b \in S
    PROVE  Append(<<a>>, b) = <<a, b>>
  <1> DEFINE one == <<a>>
             t == Append(one, b)
             p == <<a, b>>
  <1>1. one \in Seq(S) /\ Len(one) = 1 /\ one[1] = a
    OBVIOUS
  <1> HIDE DEF one
  <1>2. /\ t \in Seq(S) /\ Len(t) = Len(one) + 1 /\ t[Len(one) + 1] = b
        /\ \A i \in 1..Len(one) : t[i] = one[i]
    BY <1>1
  <1>3. p \in Seq(S) /\ Len(p) = 2 /\ p[1] = a /\ p[2] = b
    OBVIOUS
  <1> HIDE DEF t, p
  <1>4. Len(t) = 2 /\ t[2] = b /\ t[1] = a
    BY <1>1, <1>2
  <1>5. \A i \in 1..2 : t[i] = p[i]
    BY <1>3, <1>4
  <1>6. t = p
    BY <1>2, <1>3, <1>4, <1>5, SeqEqual
  <1> QED
    BY <1>6 DEF one, t, p

Halved(s, n) ==
    LET a == SubSeq(s, 1, n)
        b == SubSeq(s, n + 1, Len(s))
    IN  /\ Len(a) = n /\ Len(b) = Len(s) - n
        /\ \A i \in 1..n : a[i] = s[i]
        /\ \A i \in 1..Len(s) - n : b[i] = s[n + i]
        /\ s = a \o b

\* A sequence cut in two.
LEMMA Halves ==
    ASSUME NEW S, NEW s \in Seq(S), NEW n \in 0..Len(s)
    PROVE  /\ SubSeq(s, 1, n) \in Seq(S) /\ SubSeq(s, n + 1, Len(s)) \in Seq(S)
           /\ Len(SubSeq(s, 1, n)) = n /\ Len(SubSeq(s, n + 1, Len(s))) = Len(s) - n
           /\ \A i \in 1..n : SubSeq(s, 1, n)[i] = s[i]
           /\ \A i \in 1..Len(s) - n : SubSeq(s, n + 1, Len(s))[i] = s[n + i]
           /\ s = SubSeq(s, 1, n) \o SubSeq(s, n + 1, Len(s))
  <1> DEFINE a == SubSeq(s, 1, n)
             b == SubSeq(s, n + 1, Len(s))
  <1>0. Len(s) \in Nat /\ n \in Nat /\ n <= Len(s)
    OBVIOUS
  <1>1. a \in Seq(S) /\ Len(a) = n /\ \A i \in 1..n : a[i] = s[i]
    BY <1>0
  <1>2. b \in Seq(S) /\ Len(b) = Len(s) - n /\ \A i \in 1..Len(s) - n : b[i] = s[n + i]
    BY <1>0
  <1> HIDE DEF a, b
  <1>3. /\ a \o b \in Seq(S) /\ Len(a \o b) = Len(s)
        /\ \A i \in 1..Len(s) : (a \o b)[i] = IF i <= n THEN a[i] ELSE b[i - n]
    BY <1>0, <1>1, <1>2, ConcatProperties
  <1>4. \A i \in 1..Len(s) : (a \o b)[i] = s[i]
    <2>1. ASSUME NEW i \in 1..Len(s) PROVE (a \o b)[i] = s[i]
      <3>1. CASE i <= n
        BY <1>0, <1>1, <1>3, <3>1
      <3>2. CASE ~ (i <= n)
        <4>1. i - n \in 1..Len(s) - n /\ n + (i - n) = i
          BY <1>0, <3>2
        <4> QED
          BY <1>2, <1>3, <3>2, <4>1
      <3> QED
        BY <3>1, <3>2
    <2> QED
      BY <2>1
  <1>5. s = a \o b
    BY <1>3, <1>4, SeqEqual
  <1> QED
    BY <1>1, <1>2, <1>5 DEF a, b

\* The same of a given cut.
LEMMA Halving ==
    ASSUME NEW S, NEW s \in Seq(S), NEW n \in 0..Len(s)
    PROVE  /\ SubSeq(s, 1, n) \in Seq(S) /\ SubSeq(s, n + 1, Len(s)) \in Seq(S)
           /\ Halved(s, n)
  BY Halves DEF Halved

\* Two sequences one behind the other, and what each half of that is.
LEMMA Joined ==
    ASSUME NEW S, NEW s \in Seq(S), NEW t \in Seq(S)
    PROVE  /\ s \o t \in Seq(S) /\ Len(s \o t) = Len(s) + Len(t)
           /\ Len(s) \in Nat /\ Len(t) \in Nat
           /\ \A i \in 1..Len(s) : (s \o t)[i] = s[i]
           /\ \A i \in 1..Len(t) : (s \o t)[Len(s) + i] = t[i]
           /\ SubSeq(s \o t, 1, Len(s)) = s
           /\ SubSeq(s \o t, Len(s) + 1, Len(s \o t)) = t
  <1> DEFINE u == s \o t
             a == SubSeq(u, 1, Len(s))
             b == SubSeq(u, Len(s) + 1, Len(u))
  <1>0. Len(s) \in Nat /\ Len(t) \in Nat
    OBVIOUS
  <1>1. /\ u \in Seq(S) /\ Len(u) = Len(s) + Len(t)
        /\ \A i \in 1..Len(s) + Len(t) : u[i] = IF i <= Len(s) THEN s[i] ELSE t[i - Len(s)]
    BY ConcatProperties
  <1>2. \A i \in 1..Len(s) : u[i] = s[i]
    BY <1>0, <1>1
  <1>3. ASSUME NEW i \in 1..Len(t) PROVE u[Len(s) + i] = t[i]
    <2>1. Len(s) + i \in 1..Len(s) + Len(t) /\ ~ (Len(s) + i <= Len(s))
          /\ (Len(s) + i) - Len(s) = i
      BY <1>0
    <2> HIDE DEF u
    <2> QED
      BY <1>1, <2>1
  <1> HIDE DEF u
  <1>4. Len(s) \in 0..Len(u)
    BY <1>0, <1>1
  <1>5. a \in Seq(S) /\ Len(a) = Len(s) /\ \A i \in 1..Len(s) : a[i] = u[i]
    BY <1>1, <1>4, Halves
  <1>6. b \in Seq(S) /\ Len(b) = Len(t) /\ \A i \in 1..Len(t) : b[i] = u[Len(s) + i]
    <2>1. Len(u) - Len(s) = Len(t)
      BY <1>0, <1>1
    <2>2. /\ b \in Seq(S) /\ Len(b) = Len(u) - Len(s)
          /\ \A i \in 1..Len(u) - Len(s) : b[i] = u[Len(s) + i]
      BY <1>1, <1>4, Halves
    <2> HIDE DEF b
    <2> QED
      BY <2>1, <2>2
  <1>7. a = s
    <2> HIDE DEF a
    <2> QED
      BY <1>2, <1>5, SeqEqual
  <1>8. b = t
    <2> HIDE DEF b
    <2> QED
      BY <1>3, <1>6, SeqEqual
  <1> QED
    BY <1>0, <1>1, <1>2, <1>3, <1>7, <1>8 DEF u

\* f[i] is what the first i sequences of q come to, one behind the other.
Flattening(q, f) ==
    /\ f[1] = q[1]
    /\ \A i \in 2..Len(q) : f[i] = f[i - 1] \o q[i]

\* FlattenSeq is the last of these.
LEMMA FlattenIs ==
    ASSUME NEW S, NEW q \in Seq(Seq(S)), q # <<>>
    PROVE  \E f \in [1..Len(q) -> Seq(S)] : Flattening(q, f) /\ FlattenSeq(q) = f[Len(q)]
  <1> DEFINE n == Len(q)
             V == Seq(S)
             Eq(f) == f = [i \in 1..n |-> IF i = 1 THEN q[i] ELSE f[i - 1] \o q[i]]
             c == CHOOSE f : Eq(f)
             h == [i \in 1..n |-> [v \in V |-> v \o q[i]]]
  <1>1. n \in Nat /\ n # 0 /\ 1 \in 1..n /\ \A i \in 1..n : q[i] \in V
    OBVIOUS
  <1>2. h \in [1..n -> [V -> V]] /\ \A i \in 1..n, v \in V : h[i][v] = v \o q[i]
    <2>1. ASSUME NEW i \in 1..n PROVE [v \in V |-> v \o q[i]] \in [V -> V]
      <3>1. \A v \in V : v \o q[i] \in V
        BY <1>1, ConcatProperties
      <3> QED
        BY <3>1
    <2> QED
      BY <2>1
  <1>3. PICK F \in [1..n -> V] : Iterated(1, n, q[1], h, F)
    <2>1. 1 \in Nat /\ 1 <= n /\ q[1] \in V
      BY <1>1
    <2> HIDE DEF h, V, n
    <2> QED
      BY <1>1, <1>2, <2>1, IterationExists
  <1> HIDE DEF h
  <1>4. Eq(F)
    <2>1. ASSUME NEW i \in 1..n PROVE F[i] = IF i = 1 THEN q[i] ELSE F[i - 1] \o q[i]
      <3>1. F[i] = IF i = 1 THEN q[1] ELSE h[i][F[i - 1]]
        BY <1>3 DEF Iterated
      <3>2. i # 1 => i - 1 \in 1..n /\ F[i - 1] \in V
        <4>1. i # 1 => i - 1 \in 1..n
          BY <1>1
        <4> HIDE DEF V, n
        <4> QED
          BY <1>3, <4>1
      <3> HIDE DEF n, V
      <3> QED
        BY <1>2, <3>1, <3>2
    <2> HIDE DEF n, V
    <2> QED
      BY <2>1
  <1>5. Eq(c)
    <2> HIDE DEF Eq
    <2> QED
      BY <1>4
  <1>6. FlattenSeq(q) = c[n]
    BY <1>1 DEF FlattenSeq
  <1> HIDE DEF c
  <1>7. c = F
    <2> DEFINE B == {i \in 1..n : c[i] # F[i]}
    <2>1. ASSUME NEW i \in B, \A k \in B : i <= k PROVE FALSE
      <3>1. i \in 1..n /\ c[i] # F[i]
        OBVIOUS
      <3>2. i # 1
        BY <1>4, <1>5, <3>1
      <3>3. i - 1 \in 1..n /\ ~ (i <= i - 1)
        BY <1>1, <3>1, <3>2
      <3>4. c[i - 1] = F[i - 1]
        <4>1. i - 1 \notin B
          <5> HIDE DEF B
          <5> QED
            BY <2>1, <3>3
        <4> QED
          BY <3>3, <4>1
      <3>5. c[i] = c[i - 1] \o q[i] /\ F[i] = F[i - 1] \o q[i]
        <4> HIDE DEF n, B
        <4> QED
          BY <1>4, <1>5, <3>1, <3>2
      <3> QED
        BY <3>1, <3>4, <3>5
    <2>2. B = {}
      <3>1. B \subseteq Nat
        OBVIOUS
      <3> HIDE DEF B
      <3> QED
        BY <2>1, <3>1, SmallestExists
    <2>3. \A i \in 1..n : c[i] = F[i]
      BY <2>2
    <2>4. DOMAIN c = 1..n /\ c = [i \in 1..n |-> c[i]]
      BY <1>5
    <2> HIDE DEF Eq, V, n
    <2> QED
      BY <2>3, <2>4
  <1>8. Flattening(q, F)
    <2>1. \A i \in 2..n : i \in 1..n /\ i # 1
      BY <1>1
    <2>2. F[1] = q[1]
      BY <1>1, <1>4
    <2>3. \A i \in 2..n : F[i] = F[i - 1] \o q[i]
      BY <1>4, <2>1
    <2> QED
      BY <2>2, <2>3 DEF Flattening
  <1> QED
    BY <1>6, <1>7, <1>8

\* One sequence comes to itself.
LEMMA FlattenOne ==
    ASSUME NEW S, NEW q \in Seq(Seq(S)), Len(q) = 1
    PROVE  FlattenSeq(q) = q[1]
  <1>1. q # <<>>
    OBVIOUS
  <1>2. PICK f \in [1..Len(q) -> Seq(S)] : Flattening(q, f) /\ FlattenSeq(q) = f[Len(q)]
    BY <1>1, FlattenIs
  <1> QED
    BY <1>2 DEF Flattening

\* One more is added at the end.
LEMMA FlattenMore ==
    ASSUME NEW S, NEW q \in Seq(Seq(S)), NEW r \in Seq(Seq(S)), Len(q) > 0,
           Len(r) = Len(q) + 1, \A i \in 1..Len(q) : r[i] = q[i]
    PROVE  FlattenSeq(r) = FlattenSeq(q) \o r[Len(r)]
  <1> DEFINE n == Len(q)
  <1>0. n \in Nat /\ n > 0 /\ q # <<>> /\ r # <<>>
    OBVIOUS
  <1>1. PICK f \in [1..Len(q) -> Seq(S)] : Flattening(q, f) /\ FlattenSeq(q) = f[Len(q)]
    BY <1>0, FlattenIs
  <1>2. PICK g \in [1..Len(r) -> Seq(S)] : Flattening(r, g) /\ FlattenSeq(r) = g[Len(r)]
    BY <1>0, FlattenIs
  <1> DEFINE B == {i \in 1..n : f[i] # g[i]}
  <1>3. ASSUME NEW i \in B, \A k \in B : i <= k PROVE FALSE
    <2>1. i \in 1..n /\ f[i] # g[i] /\ r[i] = q[i]
      OBVIOUS
    <2>2. i # 1
      BY <1>1, <1>2, <2>1 DEF Flattening
    <2>3. i - 1 \in 1..n /\ ~ (i <= i - 1) /\ i \in 2..Len(q) /\ i \in 2..Len(r)
      BY <1>0, <2>1, <2>2
    <2>4. f[i - 1] = g[i - 1]
      <3>1. i - 1 \notin B
        <4> HIDE DEF B
        <4> QED
          BY <1>3, <2>3
      <3> QED
        BY <2>3, <3>1
    <2> QED
      BY <1>1, <1>2, <2>1, <2>3, <2>4 DEF Flattening
  <1>4. B = {}
    <2>1. B \subseteq Nat
      OBVIOUS
    <2> HIDE DEF B
    <2> QED
      BY <1>3, <2>1, SmallestExists
  <1>5. f[n] = g[n] /\ Len(r) \in 2..Len(r) /\ Len(r) - 1 = n
    <2>1. n \in 1..n
      BY <1>0
    <2>2. f[n] = g[n]
      BY <1>4, <2>1
    <2>3. Len(r) \in 2..Len(r) /\ Len(r) - 1 = n
      BY <1>0
    <2> QED
      BY <2>2, <2>3
  <1> QED
    BY <1>1, <1>2, <1>5 DEF Flattening

\* A place is where all symbols of the part stand in a row.
LEMMA PlaceIs ==
    ASSUME NEW S, NEW s \in Seq(S), NEW part \in Seq(S), NEW n \in Nat
    PROVE  n \in Places(s, part) <=>
              n + Len(part) <= Len(s) /\ \A i \in 1..Len(part) : s[n + i] = part[i]
  <1> DEFINE m == Len(part)
             a == SubSeq(s, n + 1, n + m)
  <1>0. Len(s) \in Nat /\ m \in Nat /\ part \in Seq(S) /\ Len(part) = m
    OBVIOUS
  <1>1. CASE n + m <= Len(s)
    <2>1. a \in Seq(S) /\ Len(a) = m /\ \A i \in 1..m : a[i] = s[n + i]
      <3>1. CASE m = 0
        <4>1. a = <<>>
          BY <1>0, <3>1, SubSeqEmpty
        <4> HIDE DEF a, m
        <4> QED
          BY <3>1, <4>1
      <3>2. CASE m # 0
        <4> HIDE DEF m
        <4>1. n + 1 \in 1..Len(s) /\ n + m \in 1..Len(s) /\ n + 1 <= n + m
          BY <1>0, <1>1, <3>2
        <4>2. Len(a) = m
          BY <1>0, <4>1
        <4> QED
          BY <1>0, <4>1, <4>2
      <3> QED
        BY <3>1, <3>2
    <2> HIDE DEF a, m
    <2>2. a = part <=> \A i \in 1..m : a[i] = part[i]
      BY <1>0, <2>1, SeqEqual
    <2>3. n \in 0..(Len(s) - m)
      BY <1>0, <1>1
    <2>4. n \in Places(s, part) <=> a = part
      BY <2>3 DEF Places, a, m
    <2> QED
      BY <1>1, <2>1, <2>2, <2>4 DEF m
  <1>2. CASE ~ (n + m <= Len(s))
    <2>1. n \notin 0..(Len(s) - m)
      BY <1>0, <1>2
    <2> QED
      BY <1>2, <2>1 DEF Places
  <1> QED
    BY <1>1, <1>2

\* A part that stands in a sequence has a first place there.
LEMMA FirstPlace ==
    ASSUME NEW S, NEW s \in Seq(S), NEW part \in Seq(S), Has(s, part)
    PROVE  /\ Min(Places(s, part)) \in Places(s, part)
           /\ \A n \in Places(s, part) : Min(Places(s, part)) <= n
           /\ Min(Places(s, part)) \in Nat
           /\ Min(Places(s, part)) + Len(part) <= Len(s)
  <1>1. Places(s, part) \subseteq Nat /\ Places(s, part) # {}
    BY DEF Places, Has
  <1>2. \E m \in Places(s, part) : \A k \in Places(s, part) : m <= k
    BY <1>1, SmallestExists
  <1>3. /\ Min(Places(s, part)) \in Places(s, part)
        /\ \A n \in Places(s, part) : Min(Places(s, part)) <= n
    BY <1>2 DEF Min
  <1>4. Min(Places(s, part)) \in Nat
    BY <1>1, <1>3
  <1>5. Min(Places(s, part)) + Len(part) <= Len(s)
    BY <1>3, <1>4, PlaceIs
  <1> QED
    BY <1>3, <1>4, <1>5

\* It is the only one that is a place and is not behind any.
LEMMA FirstPlaceIs ==
    ASSUME NEW S, NEW s \in Seq(S), NEW part \in Seq(S), NEW n \in Places(s, part),
           \A k \in Places(s, part) : n <= k
    PROVE  Has(s, part) /\ Min(Places(s, part)) = n
  <1>1. Places(s, part) \subseteq Nat
    BY DEF Places
  <1>2. Has(s, part)
    BY DEF Has
  <1>3. Min(Places(s, part)) <= n /\ n <= Min(Places(s, part))
        /\ Min(Places(s, part)) \in Nat
    BY <1>2, FirstPlace
  <1> QED
    BY <1>1, <1>2, <1>3

\* What stands before and after it.
LEMMA CutAt ==
    ASSUME NEW S, NEW s \in Seq(S), NEW part \in Seq(S), Has(s, part)
    PROVE  /\ Before(s, part) \in Seq(S) /\ After(s, part) \in Seq(S)
           /\ Len(Before(s, part)) = Min(Places(s, part))
           /\ s = Before(s, part) \o part \o After(s, part)
           /\ Len(After(s, part)) = Len(s) - Min(Places(s, part)) - Len(part)
  <1> DEFINE n == Min(Places(s, part))
             m == Len(part)
             a == SubSeq(s, 1, n)
             t == SubSeq(s, n + 1, Len(s))
             b == SubSeq(t, 1, m)
             c == SubSeq(t, m + 1, Len(t))
             d == SubSeq(s, n + m + 1, Len(s))
  <1>0. /\ n \in Nat /\ m \in Nat /\ Len(s) \in Nat /\ n + m <= Len(s)
        /\ n \in Places(s, part) /\ Len(part) = m
        /\ \A i \in 1..m : s[n + i] = part[i]
    BY FirstPlace, PlaceIs
  <1> HIDE DEF n, m
  <1>1. /\ a \in Seq(S) /\ Len(a) = n /\ t \in Seq(S) /\ Len(t) = Len(s) - n
        /\ \A i \in 1..Len(s) - n : t[i] = s[n + i]
        /\ s = a \o t
    <2>1. n \in 0..Len(s)
      BY <1>0
    <2>2. a \in Seq(S) /\ t \in Seq(S) /\ Halved(s, n)
      BY <2>1, Halving
    <2> QED
      BY <2>2 DEF Halved
  <1> HIDE DEF t
  <1>2. /\ b \in Seq(S) /\ Len(b) = m /\ c \in Seq(S) /\ Len(c) = Len(s) - n - m
        /\ \A i \in 1..m : b[i] = t[i]
        /\ \A i \in 1..Len(t) - m : c[i] = t[m + i]
        /\ t = b \o c
    <2>1. m \in 0..Len(t) /\ Len(t) - m = Len(s) - n - m
      BY <1>0, <1>1
    <2>2. t \in Seq(S)
      BY <1>1
    <2>3. b \in Seq(S) /\ c \in Seq(S) /\ Halved(t, m)
      BY <2>1, <2>2, Halving
    <2>4. /\ Len(b) = m /\ Len(c) = Len(t) - m
          /\ \A i \in 1..m : b[i] = t[i]
          /\ \A i \in 1..Len(t) - m : c[i] = t[m + i]
          /\ t = b \o c
      BY <2>3 DEF Halved
    <2> HIDE DEF b, c
    <2> QED
      BY <2>1, <2>3, <2>4
  <1>3. b = part
    <2>1. \A i \in 1..m : b[i] = part[i]
      <3>1. \A i \in 1..m : i \in 1..Len(s) - n
        BY <1>0
      <3> HIDE DEF b
      <3> QED
        BY <1>0, <1>1, <1>2, <3>1
    <2> HIDE DEF b
    <2> QED
      BY <1>0, <1>2, <2>1, SeqEqual
  <1>4. d = c
    <2>1. n + m \in 0..Len(s)
      BY <1>0
    <2>2. /\ d \in Seq(S) /\ Len(d) = Len(s) - (n + m)
          /\ \A i \in 1..Len(s) - (n + m) : d[i] = s[n + m + i]
      BY <2>1, Halves
    <2>3. ASSUME NEW i \in 1..Len(s) - (n + m) PROVE d[i] = c[i]
      <3>1. i \in 1..Len(t) - m /\ m + i \in 1..Len(s) - n /\ n + (m + i) = n + m + i
        BY <1>0, <1>1
      <3> HIDE DEF c, d
      <3> QED
        BY <1>1, <1>2, <2>2, <3>1
    <2>4. Len(c) = Len(s) - (n + m)
      BY <1>0, <1>2
    <2> HIDE DEF c, d
    <2> QED
      BY <1>2, <2>2, <2>3, <2>4, SeqEqual
  <1>5. Before(s, part) = a /\ After(s, part) = d
    BY DEF Before, After, n, m
  <1>6. s = a \o part \o c
    <2>1. s = a \o (part \o c)
      <3> HIDE DEF a, b, c
      <3> QED
        BY <1>1, <1>2, <1>3
    <2>2. part \in Seq(S)
      OBVIOUS
    <2>3. a \in Seq(S) /\ c \in Seq(S)
      BY <1>1, <1>2
    <2> HIDE DEF a, b, c
    <2>4. Grouping(a, part, c)
      BY <2>2, <2>3, Regrouping
    <2> QED
      BY <2>1, <2>4 DEF Grouping
  <1> HIDE DEF a, c, d
  <1>7. Len(After(s, part)) = Len(s) - n - m /\ Len(Before(s, part)) = n
    BY <1>1, <1>2, <1>4, <1>5
  <1> QED
    BY <1>1, <1>2, <1>4, <1>5, <1>6, <1>7 DEF n, m

\* And how to know that they are the ones.
LEMMA CutIs ==
    ASSUME NEW S, NEW a \in Seq(S), NEW part \in Seq(S), NEW b \in Seq(S),
           \A n \in Places((a \o part) \o b, part) : Len(a) <= n
    PROVE  /\ Has((a \o part) \o b, part)
           /\ Before((a \o part) \o b, part) = a
           /\ After((a \o part) \o b, part) = b
  <1> DEFINE p == a \o part
             s == p \o b
  <1>1. /\ p \in Seq(S) /\ Len(p) = Len(a) + Len(part)
        /\ Len(a) \in Nat /\ Len(part) \in Nat /\ Len(b) \in Nat
        /\ \A i \in 1..Len(a) : p[i] = a[i]
        /\ \A i \in 1..Len(part) : p[Len(a) + i] = part[i]
    BY Joined
  <1> HIDE DEF p
  <1>2. /\ s \in Seq(S) /\ Len(s) = Len(a) + Len(part) + Len(b)
        /\ \A i \in 1..Len(p) : s[i] = p[i]
        /\ SubSeq(s, Len(p) + 1, Len(s)) = b
    <2>1. /\ s \in Seq(S) /\ Len(s) = Len(p) + Len(b)
          /\ \A i \in 1..Len(p) : s[i] = p[i]
          /\ SubSeq(s, Len(p) + 1, Len(s)) = b
      <3>1. p \in Seq(S)
        BY <1>1
      <3> QED
        BY <3>1, Joined
    <2> HIDE DEF s
    <2> QED
      BY <1>1, <2>1
  <1> HIDE DEF s
  <1>3. Len(a) \in Places(s, part)
    <2>1. \A i \in 1..Len(part) : Len(a) + i \in 1..Len(p)
      BY <1>1
    <2>2. Len(a) + Len(part) <= Len(s)
      BY <1>1, <1>2
    <2>3. \A i \in 1..Len(part) : s[Len(a) + i] = part[i]
      BY <1>1, <1>2, <2>1
    <2> QED
      BY <1>1, <1>2, <2>2, <2>3, PlaceIs
  <1>4. Has(s, part) /\ Min(Places(s, part)) = Len(a)
    <2>1. \A n \in Places(s, part) : Len(a) <= n
      BY DEF s, p
    <2> QED
      BY <1>2, <1>3, <2>1, FirstPlaceIs
  <1>5. After(s, part) = b
    BY <1>1, <1>2, <1>4 DEF After
  <1>6. Before(s, part) = a
    <2>1. SubSeq(s, 1, Len(a)) = a
      <3>1. Len(a) \in 0..Len(s)
        BY <1>1, <1>2
      <3>2. /\ SubSeq(s, 1, Len(a)) \in Seq(S) /\ Len(SubSeq(s, 1, Len(a))) = Len(a)
            /\ \A i \in 1..Len(a) : SubSeq(s, 1, Len(a))[i] = s[i]
        BY <1>2, <3>1, Halves
      <3>3. \A i \in 1..Len(a) : s[i] = a[i]
        BY <1>1, <1>2
      <3> QED
        BY <3>2, <3>3, SeqEqual
    <2> QED
      BY <1>4, <2>1 DEF Before
  <1> QED
    BY <1>4, <1>5, <1>6 DEF s, p

\* In a longer sequence a part stands where it stood before, if it ends there.
LEMMA PlacesInLonger ==
    ASSUME NEW S, NEW s \in Seq(S), NEW u \in Seq(S), NEW part \in Seq(S), NEW n \in Nat,
           n + Len(part) <= Len(s)
    PROVE  n \in Places(s \o u, part) <=> n \in Places(s, part)
  <1>1. /\ s \o u \in Seq(S) /\ Len(s \o u) = Len(s) + Len(u)
        /\ Len(s) \in Nat /\ Len(u) \in Nat /\ Len(part) \in Nat
        /\ \A i \in 1..Len(s) : (s \o u)[i] = s[i]
    BY Joined
  <1>2. n + Len(part) <= Len(s \o u)
    BY <1>1
  <1>3. \A i \in 1..Len(part) : n + i \in 1..Len(s) /\ (s \o u)[n + i] = s[n + i]
    <2>1. \A i \in 1..Len(part) : n + i \in 1..Len(s)
      BY <1>1
    <2> QED
      BY <1>1, <2>1
  <1>4. n \in Places(s, part) <=> \A i \in 1..Len(part) : s[n + i] = part[i]
    BY PlaceIs
  <1>5. n \in Places(s \o u, part) <=> \A i \in 1..Len(part) : (s \o u)[n + i] = part[i]
    <2> DEFINE t == s \o u
    <2>1. t \in Seq(S) /\ n + Len(part) <= Len(t)
      BY <1>1, <1>2
    <2> HIDE DEF t
    <2>2. n \in Places(t, part) <=> \A i \in 1..Len(part) : t[n + i] = part[i]
      BY <2>1, PlaceIs
    <2> QED
      BY <2>2 DEF t
  <1> QED
    BY <1>3, <1>4, <1>5

\* Behind a beginning it stands that much later.
LEMMA PlacesBehind ==
    ASSUME NEW S, NEW w \in Seq(S), NEW v \in Seq(S), NEW part \in Seq(S), NEW n \in Nat
    PROVE  Len(w) + n \in Places(w \o v, part) <=> n \in Places(v, part)
  <1>1. /\ w \o v \in Seq(S) /\ Len(w \o v) = Len(w) + Len(v)
        /\ Len(w) \in Nat /\ Len(v) \in Nat /\ Len(part) \in Nat
        /\ \A i \in 1..Len(v) : (w \o v)[Len(w) + i] = v[i]
    BY Joined
  <1>2. Len(w) + n + Len(part) <= Len(w \o v) <=> n + Len(part) <= Len(v)
    BY <1>1
  <1>3. ASSUME n + Len(part) <= Len(v)
        PROVE  \A i \in 1..Len(part) : (w \o v)[Len(w) + n + i] = v[n + i]
    <2>1. \A i \in 1..Len(part) : n + i \in 1..Len(v) /\ Len(w) + (n + i) = Len(w) + n + i
      BY <1>1, <1>3
    <2>2. \A i \in 1..Len(part) : (w \o v)[Len(w) + (n + i)] = v[n + i]
      BY <1>1, <2>1
    <2> QED
      BY <2>1, <2>2
  <1>4. n \in Places(v, part) <=>
           n + Len(part) <= Len(v) /\ \A i \in 1..Len(part) : v[n + i] = part[i]
    BY PlaceIs
  <1>5. Len(w) + n \in Nat
    BY <1>1
  <1>6. Len(w) + n \in Places(w \o v, part) <=>
           /\ Len(w) + n + Len(part) <= Len(w \o v)
           /\ \A i \in 1..Len(part) : (w \o v)[Len(w) + n + i] = part[i]
    <2> DEFINE t == w \o v
               k == Len(w) + n
    <2>1. t \in Seq(S) /\ k \in Nat
      BY <1>1, <1>5
    <2> HIDE DEF t, k
    <2>2. k \in Places(t, part) <=>
             k + Len(part) <= Len(t) /\ \A i \in 1..Len(part) : t[k + i] = part[i]
      BY <2>1, PlaceIs
    <2> QED
      BY <2>2 DEF t, k
  <1> QED
    BY <1>2, <1>3, <1>4, <1>6

\* What follows a sequence leaves the first occurrence in it the first.
LEMMA CutInLonger ==
    ASSUME NEW S, NEW s \in Seq(S), NEW r \in Seq(S), NEW part \in Seq(S), Has(s, part)
    PROVE  /\ Has(s \o r, part)
           /\ Before(s \o r, part) = Before(s, part)
           /\ After(s \o r, part) = After(s, part) \o r
  <1> DEFINE a == Before(s, part)
             b == After(s, part)
             m == Min(Places(s, part))
             c == b \o r
             p == a \o part
             t == p \o c
  <1>1. /\ a \in Seq(S) /\ b \in Seq(S) /\ Len(a) = m /\ s = p \o b
        /\ m \in Nat /\ m + Len(part) <= Len(s)
        /\ \A n \in Places(s, part) : m <= n
    BY CutAt, FirstPlace
  <1>2. p \in Seq(S) /\ c \in Seq(S)
    <2> HIDE DEF a, b
    <2> QED
      BY <1>1, Joined
  <1>3. s \o r = t
    <2> HIDE DEF a, b, c, p, t
    <2>1. (p \o b) \o r = p \o (b \o r)
      <3>1. p \in Seq(S) /\ b \in Seq(S) /\ r \in Seq(S)
        BY <1>1, <1>2
      <3>2. Grouping(p, b, r)
        BY <3>1, Regrouping
      <3> QED
        BY <3>2 DEF Grouping
    <2> QED
      BY <1>1, <2>1 DEF c, t
  <1>4. ASSUME NEW n \in Places(t, part) PROVE Len(a) <= n
    <2>1. n \in Nat
      BY DEF Places
    <2>2. CASE n + Len(part) <= Len(s)
      <3>1. n \in Places(s \o r, part)
        BY <1>3
      <3>2. n \in Places(s, part)
        BY <2>1, <2>2, <3>1, PlacesInLonger
      <3> QED
        BY <1>1, <3>2
    <2>3. CASE ~ (n + Len(part) <= Len(s))
      <3>1. Len(s) \in Nat /\ Len(part) \in Nat
        OBVIOUS
      <3> HIDE DEF a, m
      <3> QED
        BY <1>1, <2>1, <2>3, <3>1
    <2> QED
      BY <2>2, <2>3
  <1>5. Has(t, part) /\ Before(t, part) = a /\ After(t, part) = c
    <2> HIDE DEF a, c
    <2> QED
      BY <1>1, <1>2, <1>4, CutIs
  <1> QED
    BY <1>3, <1>5

\* If a part cannot begin in w, it stands in w \o v where it stands in v.
LEMMA CutBehind ==
    ASSUME NEW S, NEW w \in Seq(S), NEW v \in Seq(S), NEW part \in Seq(S),
           \A n \in Places(w \o v, part) : Len(w) <= n
    PROVE  /\ Has(w \o v, part) <=> Has(v, part)
           /\ Has(v, part) =>
                 /\ Before(w \o v, part) = w \o Before(v, part)
                 /\ After(w \o v, part) = After(v, part)
  <1>0. Len(w) \in Nat /\ Len(v) \in Nat
    OBVIOUS
  <1>1. ASSUME Has(w \o v, part) PROVE Has(v, part)
    <2>1. PICK n \in Places(w \o v, part) : TRUE
      BY <1>1 DEF Has
    <2>2. n \in Nat /\ Len(w) <= n
      <3>1. n \in Nat
        BY DEF Places
      <3> QED
        BY <3>1
    <2>3. n - Len(w) \in Nat /\ Len(w) + (n - Len(w)) = n
      BY <1>0, <2>2
    <2>4. n - Len(w) \in Places(v, part)
      BY <2>1, <2>3, PlacesBehind
    <2> QED
      BY <2>4 DEF Has
  <1>2. ASSUME Has(v, part)
        PROVE  /\ Has(w \o v, part)
               /\ Before(w \o v, part) = w \o Before(v, part)
               /\ After(w \o v, part) = After(v, part)
    <2> DEFINE a == Before(v, part)
               b == After(v, part)
               m == Min(Places(v, part))
               c == w \o a
               q == a \o part
               t == (c \o part) \o b
    <2>1. /\ a \in Seq(S) /\ b \in Seq(S) /\ Len(a) = m /\ v = q \o b
          /\ m \in Nat
          /\ \A n \in Places(v, part) : m <= n
      BY <1>2, CutAt, FirstPlace
    <2>2. q \in Seq(S) /\ c \in Seq(S) /\ Len(c) = Len(w) + Len(a)
      <3>1. a \in Seq(S)
        BY <2>1
      <3> HIDE DEF a
      <3> QED
        BY <3>1, Joined
    <2>3. w \o v = t
      <3>1. w \o (q \o b) = (w \o q) \o b
        <4>1. q \in Seq(S) /\ b \in Seq(S)
          BY <2>1, <2>2
        <4> HIDE DEF a, b, q
        <4>2. Grouping(w, q, b)
          BY <4>1, Regrouping
        <4> QED
          BY <4>2 DEF Grouping
      <3>2. w \o (a \o part) = (w \o a) \o part
        <4>1. a \in Seq(S)
          BY <2>1
        <4> HIDE DEF a
        <4>2. Grouping(w, a, part)
          BY <4>1, Regrouping
        <4> QED
          BY <4>2 DEF Grouping
      <3> HIDE DEF a, b
      <3> QED
        BY <2>1, <3>1, <3>2
    <2>4. ASSUME NEW n \in Places(t, part) PROVE Len(c) <= n
      <3>1. n \in Places(w \o v, part)
        BY <2>3
      <3>2. n \in Nat /\ Len(w) <= n
        <4>1. n \in Nat
          BY <3>1 DEF Places
        <4> QED
          BY <3>1, <4>1
      <3>3. n - Len(w) \in Nat /\ Len(w) + (n - Len(w)) = n
        BY <1>0, <3>2
      <3>4. n - Len(w) \in Places(v, part)
        BY <3>1, <3>3, PlacesBehind
      <3>5. Len(a) <= n - Len(w)
        BY <2>1, <3>4
      <3> HIDE DEF c, a, m
      <3> QED
        BY <1>0, <2>1, <2>2, <3>2, <3>5
    <2>5. Has(t, part) /\ Before(t, part) = c /\ After(t, part) = b
      <3> HIDE DEF a, b, c
      <3> QED
        BY <2>1, <2>2, <2>4, CutIs
    <2> QED
      BY <2>3, <2>5
  <1> QED
    BY <1>1, <1>2

-----------------------------------------------------------------------------
(* A finite set of numbers in order (Strings).                            *)

\* s lists S, the least element first.
Lists(s, S) ==
    /\ s \in [1..Cardinality(S) -> S]
    /\ \A j, k \in 1..Cardinality(S) : j < k => s[j] < s[k]

\* A finite set of natural numbers can be listed.
LEMMA ListExists ==
    ASSUME NEW S, IsFiniteSet(S), S \subseteq Nat
    PROVE  \E s : Lists(s, S)
  <1> DEFINE B == {k \in Nat : \E T \in SUBSET S : Cardinality(T) = k /\ ~ \E s : Lists(s, T)}
  <1>1. ASSUME NEW n \in B, \A k \in B : n <= k PROVE FALSE
    <2>1. PICK T \in SUBSET S : Cardinality(T) = n /\ ~ \E s : Lists(s, T)
      OBVIOUS
    <2>2. IsFiniteSet(T) /\ T \subseteq Nat /\ n \in Nat
      BY <2>1, FS_Subset
    <2>3. T # {}
      <3>1. ASSUME T = {} PROVE FALSE
        <4>1. n = 0
          BY <2>1, <3>1, FS_EmptySet
        <4>2. [i \in 1..n |-> i] \in [1..n -> T] /\ 1..n = {}
          BY <4>1
        <4>3. Lists([i \in 1..n |-> i], T)
          BY <2>1, <4>2 DEF Lists
        <4> QED
          BY <2>1, <4>3
      <3> QED
        BY <3>1
    <2>4. PICK m \in T : \A k \in T : m <= k
      BY <2>2, <2>3, SmallestExists
    <2> DEFINE U == T \ {m}
    <2>5. U \in SUBSET S /\ Cardinality(U) = n - 1 /\ n - 1 \in Nat
      <3>1. Cardinality(U) = n - 1
        BY <2>1, <2>2, FS_RemoveElement
      <3>2. Cardinality(U) \in Nat
        <4>1. IsFiniteSet(U)
          BY <2>2, FS_RemoveElement
        <4> QED
          BY <4>1, FS_CardinalityType
      <3> QED
        BY <3>1, <3>2
    <2>6. PICK r : Lists(r, U)
      <3>1. n - 1 \notin B
        <4>1. ~ (n <= n - 1)
          BY <2>2
        <4> HIDE DEF B
        <4> QED
          BY <1>1, <4>1
      <3> HIDE DEF U
      <3> QED
        BY <2>5, <3>1
    <2> DEFINE s == [i \in 1..n |-> IF i = 1 THEN m ELSE r[i - 1]]
    <2>7. /\ r \in [1..n - 1 -> U]
          /\ \A j, k \in 1..n - 1 : j < k => r[j] < r[k]
      <3> HIDE DEF U
      <3> QED
        BY <2>5, <2>6 DEF Lists
    <2>8. \A i \in 1..n : i # 1 => i - 1 \in 1..n - 1 /\ r[i - 1] \in T /\ m < r[i - 1]
      <3>1. ASSUME NEW i \in 1..n, i # 1
            PROVE  i - 1 \in 1..n - 1 /\ r[i - 1] \in T /\ m < r[i - 1]
        <4>1. i - 1 \in 1..n - 1
          BY <2>2, <3>1
        <4>2. r[i - 1] \in U
          <5> HIDE DEF U
          <5> QED
            BY <2>7, <4>1
        <4>3. r[i - 1] \in T /\ r[i - 1] # m /\ m \in Nat /\ r[i - 1] \in Nat
          BY <2>2, <4>2
        <4>4. m <= r[i - 1]
          BY <2>4, <4>3
        <4> QED
          BY <4>1, <4>3, <4>4
      <3> QED
        BY <3>1
    <2>9. s \in [1..n -> T]
      BY <2>8
    <2>10. ASSUME NEW j \in 1..n, NEW k \in 1..n, j < k PROVE s[j] < s[k]
      <3>1. k # 1 /\ s[k] = r[k - 1]
        BY <2>2, <2>10
      <3>2. CASE j = 1
        BY <2>8, <3>1, <3>2
      <3>3. CASE j # 1
        <4>1. j - 1 \in 1..n - 1 /\ k - 1 \in 1..n - 1 /\ j - 1 < k - 1
          BY <2>2, <2>10, <3>1, <3>3
        <4> QED
          BY <2>7, <3>1, <3>3, <4>1
      <3> QED
        BY <3>2, <3>3
    <2>11. Lists(s, T)
      <3> HIDE DEF s
      <3> QED
        BY <2>1, <2>9, <2>10 DEF Lists
    <2> QED
      BY <2>1, <2>11
  <1>2. B = {}
    <2>1. B \subseteq Nat
      OBVIOUS
    <2> HIDE DEF B
    <2> QED
      BY <1>1, <2>1, SmallestExists
  <1>3. Cardinality(S) \in Nat
    BY FS_CardinalityType
  <1> QED
    BY <1>2, <1>3

\* Ascending is such a list, in which every element stands once.
LEMMA AscendingIs ==
    ASSUME NEW S, IsFiniteSet(S), S \subseteq Nat
    PROVE  /\ Cardinality(S) \in Nat
           /\ Ascending(S) \in [1..Cardinality(S) -> S]
           /\ \A j, k \in 1..Cardinality(S) : j < k => Ascending(S)[j] < Ascending(S)[k]
           /\ \A x \in S : \E k \in 1..Cardinality(S) : Ascending(S)[k] = x
  <1> DEFINE n == Cardinality(S)
             s == Ascending(S)
  <1>1. n \in Nat
    BY FS_CardinalityType
  <1>2. /\ s \in [1..n -> S]
        /\ \A j, k \in 1..n : j < k => s[j] < s[k]
    <2>1. \E r \in [1..n -> S] : \A j, k \in 1..n : j < k => r[j] < r[k]
      BY ListExists DEF Lists
    <2>2. s = CHOOSE r \in [1..n -> S] : \A j, k \in 1..n : j < k => r[j] < r[k]
      BY DEF Ascending
    <2> HIDE DEF n, s
    <2> QED
      BY <2>1, <2>2
  <1> HIDE DEF s
  <1>3. s \in Injection(1..n, S)
    <2>1. ASSUME NEW j \in 1..n, NEW k \in 1..n, s[j] = s[k] PROVE j = k
      <3>1. s[j] \in Nat /\ s[k] \in Nat
        BY <1>2
      <3>2. ~ (j < k) /\ ~ (k < j)
        BY <1>2, <2>1, <3>1
      <3> QED
        BY <1>1, <3>2
    <2>2. DOMAIN s = 1..n
      BY <1>2
    <2> HIDE DEF n
    <2> QED
      BY <1>2, <2>1, <2>2 DEF Injection, IsInjective
  <1>4. Cardinality(1..n) = n
    BY <1>1, FS_Interval
  <1>5. s \in Surjection(1..n, S)
    <2>1. Cardinality(1..n) = Cardinality(S) <=> s \in Surjection(1..n, S)
      <3> HIDE DEF n
      <3> QED
        BY <1>3, FS_Injection
    <2> QED
      BY <1>4, <2>1
  <1>6. \A x \in S : \E k \in 1..n : s[k] = x
    <2> HIDE DEF n
    <2> QED
      BY <1>5 DEF Surjection
  <1> QED
    BY <1>1, <1>2, <1>6 DEF s

\* The last of the list is the greatest.
LEMMA AscendingLast ==
    ASSUME NEW S, IsFiniteSet(S), S \subseteq Nat, S # {}
    PROVE  /\ Cardinality(S) \in 1..Cardinality(S)
           /\ Max(S) \in S
           /\ Ascending(S)[Cardinality(S)] = Max(S)
  <1> DEFINE n == Cardinality(S)
             s == Ascending(S)
  <1>1. /\ n \in Nat /\ s \in [1..n -> S]
        /\ \A j, k \in 1..n : j < k => s[j] < s[k]
        /\ \A x \in S : \E k \in 1..n : s[k] = x
    BY AscendingIs
  <1> HIDE DEF n, s
  <1>2. n \in 1..n
    <2>1. PICK x \in S : TRUE
      OBVIOUS
    <2>2. PICK k \in 1..n : s[k] = x
      BY <1>1
    <2> QED
      BY <1>1, <2>2
  <1>3. s[n] \in S /\ \A x \in S : s[n] >= x
    <2>1. ASSUME NEW x \in S PROVE s[n] >= x
      <3>1. PICK k \in 1..n : s[k] = x
        BY <1>1
      <3>2. k = n \/ k < n
        BY <1>1
      <3>3. s[n] \in Nat /\ x \in Nat
        BY <1>1, <1>2
      <3> QED
        BY <1>1, <1>2, <3>1, <3>2, <3>3
    <2> QED
      BY <1>1, <1>2, <2>1
  <1>4. \A x \in S : (\A y \in S : x >= y) => x = s[n]
    <2>1. ASSUME NEW x \in S, \A y \in S : x >= y PROVE x = s[n]
      <3>1. x >= s[n] /\ s[n] >= x /\ x \in Nat /\ s[n] \in Nat
        BY <1>3, <2>1
      <3> QED
        BY <3>1
    <2> QED
      BY <2>1
  <1>5. Max(S) = s[n]
    BY <1>3, <1>4 DEF Max
  <1> QED
    BY <1>2, <1>3, <1>5 DEF n, s

\* A finite set of natural numbers has a greatest element.
LEMMA GreatestIs ==
    ASSUME NEW S, IsFiniteSet(S), S \subseteq Nat, S # {}
    PROVE  Max(S) \in S /\ \A x \in S : x <= Max(S)
  <1> DEFINE n == Cardinality(S)
             s == Ascending(S)
  <1>1. /\ n \in Nat /\ s \in [1..n -> S]
        /\ \A j, k \in 1..n : j < k => s[j] < s[k]
        /\ \A x \in S : \E k \in 1..n : s[k] = x
    BY AscendingIs
  <1>2. n \in 1..n /\ Max(S) \in S /\ s[n] = Max(S)
    BY AscendingLast
  <1> HIDE DEF n, s
  <1>3. ASSUME NEW x \in S PROVE x <= Max(S)
    <2>1. PICK k \in 1..n : s[k] = x
      BY <1>1
    <2>2. k = n \/ k < n
      BY <1>1
    <2>3. x \in Nat /\ Max(S) \in Nat
      BY <1>2
    <2> QED
      BY <1>1, <1>2, <2>1, <2>2, <2>3
  <1> QED
    BY <1>2, <1>3

-----------------------------------------------------------------------------
(* Elements of sequences, and of several of them.                          *)

\* The greater and the smaller of two numbers.
LEMMA TwoIs ==
    ASSUME NEW a \in Int, NEW b \in Int
    PROVE  /\ Max({a, b}) \in {a, b} /\ a <= Max({a, b}) /\ b <= Max({a, b})
           /\ Min({a, b}) \in {a, b} /\ Min({a, b}) <= a /\ Min({a, b}) <= b
  <1> DEFINE Greatest(x) == x \in {a, b} /\ \A y \in {a, b} : x >= y
             Smallest(x) == x \in {a, b} /\ \A y \in {a, b} : x <= y
  <1>1. \E x \in {a, b} : \A y \in {a, b} : x >= y
    <2>1. CASE a <= b
      <3>1. \A y \in {a, b} : b >= y
        BY <2>1
      <3> QED
        BY <3>1
    <2>2. CASE ~ (a <= b)
      <3>1. \A y \in {a, b} : a >= y
        BY <2>2
      <3> QED
        BY <3>1
    <2> QED
      BY <2>1, <2>2
  <1>2. \E x \in {a, b} : \A y \in {a, b} : x <= y
    <2>1. CASE a <= b
      <3>1. \A y \in {a, b} : a <= y
        BY <2>1
      <3> QED
        BY <3>1
    <2>2. CASE ~ (a <= b)
      <3>1. \A y \in {a, b} : b <= y
        BY <2>2
      <3> QED
        BY <3>1
    <2> QED
      BY <2>1, <2>2
  <1>3. Max({a, b}) \in {a, b} /\ \A y \in {a, b} : Max({a, b}) >= y
    BY <1>1, Zenon DEF Max
  <1>4. Min({a, b}) \in {a, b} /\ \A y \in {a, b} : Min({a, b}) <= y
    BY <1>2, Zenon DEF Min
  <1> QED
    BY <1>3, <1>4

\* At gives the elements at these places and no others.
LEMMA AtIs ==
    ASSUME NEW S, NEW s \in Seq(S), NEW P, P \subseteq 1..Len(s)
    PROVE  /\ At(s, P) \in Seq(S)
           /\ \A k \in P : \E j \in 1..Len(At(s, P)) : At(s, P)[j] = s[k]
           /\ \A j \in 1..Len(At(s, P)) : \E k \in P : At(s, P)[j] = s[k]
  <1> DEFINE n == Cardinality(P)
             o == Ascending(P)
             t == [k \in 1..n |-> s[o[k]]]
  <1>1. IsFiniteSet(P) /\ P \subseteq Nat
    <2>1. Len(s) \in Nat
      OBVIOUS
    <2> DEFINE I == 1..Len(s)
    <2>2. IsFiniteSet(I) /\ I \subseteq Nat /\ P \subseteq I
      BY <2>1, FS_Interval
    <2> HIDE DEF I
    <2> QED
      BY <2>2, FS_Subset
  <1>2. n \in Nat /\ o \in [1..n -> P] /\ \A x \in P : \E k \in 1..n : o[k] = x
    BY <1>1, AscendingIs
  <1>3. At(s, P) = t
    BY DEF At
  <1> HIDE DEF n, o
  <1>4. \A k \in 1..n : o[k] \in P /\ s[o[k]] \in S
    <2>1. \A x \in P : s[x] \in S
      OBVIOUS
    <2> QED
      BY <1>2, <2>1
  <1>5. t \in Seq(S) /\ Len(t) = n /\ \A k \in 1..n : t[k] = s[o[k]]
    BY <1>2, <1>4
  <1> HIDE DEF t
  <1>6. \A k \in P : \E j \in 1..n : t[j] = s[k]
    BY <1>2, <1>5
  <1>7. \A j \in 1..n : \E k \in P : t[j] = s[k]
    BY <1>4, <1>5
  <1> QED
    BY <1>3, <1>5, <1>6, <1>7

\* What is at one of the places is taken.
LEMMA AtHas ==
    ASSUME NEW S, NEW s \in Seq(S), NEW P, P \subseteq 1..Len(s), NEW k \in P
    PROVE  \E j \in 1..Len(At(s, P)) : At(s, P)[j] = s[k]
  <1>1. \A x \in P : \E j \in 1..Len(At(s, P)) : At(s, P)[j] = s[x]
    BY AtIs
  <1> QED
    BY <1>1

\* The elements of c are those of a and b.
Together(a, b, c) ==
    /\ \A i \in 1..Len(c) : (\E j \in 1..Len(a) : c[i] = a[j]) \/ (\E j \in 1..Len(b) : c[i] = b[j])
    /\ \A j \in 1..Len(a) : \E i \in 1..Len(c) : c[i] = a[j]
    /\ \A j \in 1..Len(b) : \E i \in 1..Len(c) : c[i] = b[j]

\* One sequence behind the other has the elements of both.
LEMMA ConcatTogether ==
    ASSUME NEW S, NEW a \in Seq(S), NEW b \in Seq(S)
    PROVE  a \o b \in Seq(S) /\ Together(a, b, a \o b)
  <1> DEFINE c == a \o b
  <1>1. /\ c \in Seq(S) /\ Len(a) \in Nat /\ Len(b) \in Nat /\ Len(c) = Len(a) + Len(b)
        /\ \A i \in 1..Len(a) : c[i] = a[i]
    BY ConcatProperties
  <1>2. \A i \in 1..Len(b) : Len(a) + i \in 1..Len(c) /\ c[Len(a) + i] = b[i]
    <2>1. ASSUME NEW i \in 1..Len(b) PROVE c[Len(a) + i] = b[i] /\ Len(a) + i \in 1..Len(c)
      <3>1. Len(a) + i \in 1..Len(a) + Len(b) /\ ~ (Len(a) + i <= Len(a)) /\ (Len(a) + i) - Len(a) = i
        BY <1>1
      <3> QED
        BY <1>1, <3>1, ConcatProperties
    <2> QED
      BY <2>1
  <1> HIDE DEF c
  <1>3. \A i \in 1..Len(c) : (\E j \in 1..Len(a) : c[i] = a[j]) \/ (\E j \in 1..Len(b) : c[i] = b[j])
    <2>1. ASSUME NEW i \in 1..Len(c)
          PROVE  (\E j \in 1..Len(a) : c[i] = a[j]) \/ (\E j \in 1..Len(b) : c[i] = b[j])
      <3>1. CASE i <= Len(a)
        <4>1. i \in 1..Len(a)
          BY <1>1, <3>1
        <4> QED
          BY <1>1, <4>1
      <3>2. CASE ~ (i <= Len(a))
        <4> DEFINE j == i - Len(a)
        <4>1. j \in 1..Len(b) /\ Len(a) + j = i
          BY <1>1, <3>2
        <4> HIDE DEF j
        <4> QED
          BY <1>2, <4>1
      <3> QED
        BY <3>1, <3>2
    <2> QED
      BY <2>1
  <1>4. \A j \in 1..Len(a) : \E i \in 1..Len(c) : c[i] = a[j]
    <2>1. \A j \in 1..Len(a) : j \in 1..Len(c)
      BY <1>1
    <2> QED
      BY <1>1, <2>1
  <1>5. \A j \in 1..Len(b) : \E i \in 1..Len(c) : c[i] = b[j]
    BY <1>2
  <1> QED
    BY <1>1, <1>3, <1>4, <1>5 DEF Together, c

\* Sequences put one behind the other, if there are any.
LEMMA FlattenTyped ==
    ASSUME NEW S, NEW q \in Seq(Seq(S))
    PROVE  FlattenSeq(q) \in Seq(S)
  <1>1. CASE q = <<>>
    BY <1>1 DEF FlattenSeq
  <1>2. CASE q # <<>>
    <2>1. PICK f \in [1..Len(q) -> Seq(S)] : FlattenSeq(q) = f[Len(q)]
      BY <1>2, FlattenIs
    <2>2. Len(q) \in 1..Len(q)
      BY <1>2
    <2> QED
      BY <2>1, <2>2
  <1> QED
    BY <1>1, <1>2

\* What is in one of the sequences is in all of them together.
LEMMA FlattenHas ==
    ASSUME NEW S, NEW q \in Seq(Seq(S)), NEW k \in 1..Len(q), NEW j \in 1..Len(q[k])
    PROVE  \E i \in 1..Len(FlattenSeq(q)) : FlattenSeq(q)[i] = q[k][j]
  <1> DEFINE n == Len(q)
             x == q[k][j]
             In(s) == \E i \in 1..Len(s) : s[i] = x
  <1>1. n \in Nat /\ k \in Nat /\ 1 <= k /\ k <= n /\ q # <<>> /\ \A i \in 1..n : q[i] \in Seq(S)
    OBVIOUS
  <1>2. PICK f \in [1..n -> Seq(S)] : Flattening(q, f) /\ FlattenSeq(q) = f[n]
    BY <1>1, FlattenIs
  <1> DEFINE B == {i \in k..n : ~In(f[i])}
  <1>3. ASSUME NEW u \in Seq(S), NEW v \in Seq(S), In(u) \/ In(v) PROVE In(u \o v)
    <2>1. Len(u \o v) = Len(u) + Len(v) /\ Len(u) \in Nat /\ Len(v) \in Nat
          /\ \A i \in 1..Len(u) : (u \o v)[i] = u[i]
      BY ConcatProperties
    <2>2. ASSUME NEW i \in 1..Len(v) PROVE (u \o v)[Len(u) + i] = v[i] /\ Len(u) + i \in 1..Len(u \o v)
      <3>1. Len(u) + i \in 1..Len(u) + Len(v) /\ ~ (Len(u) + i <= Len(u)) /\ (Len(u) + i) - Len(u) = i
        BY <2>1
      <3> QED
        BY <2>1, <3>1, ConcatProperties
    <2>3. CASE In(u)
      <3>1. PICK i \in 1..Len(u) : u[i] = x
        BY <2>3
      <3>2. i \in 1..Len(u \o v) /\ (u \o v)[i] = x
        BY <2>1, <3>1
      <3> QED
        BY <3>2
    <2>4. CASE In(v)
      <3>1. PICK i \in 1..Len(v) : v[i] = x
        BY <2>4
      <3> QED
        BY <2>2, <3>1
    <2> QED
      BY <1>3, <2>3, <2>4
  <1>4. In(q[k])
    OBVIOUS
  <1>5. ASSUME NEW m \in B, \A i \in B : m <= i PROVE FALSE
    <2>1. m \in k..n /\ m \in 1..n /\ ~In(f[m])
      BY <1>1
    <2>2. CASE m = 1
      <3>1. f[m] = q[k]
        BY <1>1, <1>2, <2>1, <2>2 DEF Flattening
      <3> QED
        BY <1>4, <2>1, <3>1
    <2>3. CASE m # 1
      <3> DEFINE l == m - 1
      <3>1. m \in 2..n /\ l \in 1..n /\ l \in Nat /\ l < m
        BY <1>1, <2>1, <2>3
      <3>2. f[m] = f[l] \o q[m] /\ f[l] \in Seq(S) /\ q[m] \in Seq(S)
        BY <1>1, <1>2, <2>1, <3>1 DEF Flattening
      <3>3. m = k => In(q[m])
        BY <1>4
      <3>4. m # k => In(f[l])
        <4>1. m # k => l \in k..n
          BY <1>1, <2>1, <3>1
        <4>2. l \notin B
          <5>1. l \in B => m <= l
            <6> HIDE DEF B, l
            <6> QED
              BY <1>5
          <5>2. m \in Nat /\ l \in Nat /\ l < m
            BY <1>1, <2>1, <3>1
          <5> HIDE DEF B, l
          <5> QED
            BY <5>1, <5>2
        <4> HIDE DEF l, In
        <4> QED
          BY <4>1, <4>2
      <3> HIDE DEF In, l
      <3> QED
        BY <1>3, <2>1, <3>2, <3>3, <3>4
    <2> QED
      BY <2>2, <2>3
  <1>6. B = {}
    <2>1. B \subseteq Nat
      BY <1>1
    <2> HIDE DEF B
    <2> QED
      BY <1>5, <2>1, SmallestExists
  <1>7. In(f[n])
    <2>1. n \in k..n
      BY <1>1
    <2> HIDE DEF In
    <2> QED
      BY <1>6, <2>1
  <1> QED
    BY <1>2, <1>7

-----------------------------------------------------------------------------
(* LineFile: what one write, complete or cut short, does to what a reader  *)
(* gets from a file, for any file and any record.                          *)

\* A file of values in V whose last line, if it lacks its newline, is there.
GoodFile(f, V) == f \in FileOf(V) /\ (f.open => f.lines # <<>>)

\* f has n lines that parse before the first one that does not.
ReadableUpTo(f, n) ==
    /\ n \in 0..Len(f.lines)
    /\ \A i \in 1..n : f.lines[i].ok
    /\ n < Len(f.lines) => ~f.lines[n + 1].ok

\* What a well-typed file is made of.
LEMMA GoodFileType ==
    ASSUME NEW V, NEW f, GoodFile(f, V)
    PROVE  /\ f.lines \in Seq(LineOf(V)) /\ f.open \in BOOLEAN
           /\ Len(f.lines) \in Nat
           /\ f.open => Len(f.lines) > 0
           /\ f = [lines |-> f.lines, open |-> f.open]
           /\ \A i \in 1..Len(f.lines) : f.lines[i].ok \in BOOLEAN /\ f.lines[i].val \in V
  <1>1. f.lines \in Seq(LineOf(V)) /\ f.open \in BOOLEAN
    BY DEF GoodFile, FileOf
  <1>2. f.open => Len(f.lines) > 0
    BY <1>1 DEF GoodFile
  <1>3. f = [lines |-> f.lines, open |-> f.open]
    BY DEF GoodFile, FileOf
  <1>4. ASSUME NEW i \in 1..Len(f.lines)
        PROVE  f.lines[i].ok \in BOOLEAN /\ f.lines[i].val \in V
    <2>1. f.lines[i] \in LineOf(V)
      BY <1>1
    <2> QED
      BY <2>1 DEF LineOf
  <1> QED
    BY <1>1, <1>2, <1>3, <1>4

\* A write keeps the file a file, and an open last line is a line.
LEMMA WriteLineType ==
    ASSUME NEW V, NEW f, GoodFile(f, V), NEW v \in V, NEW how
    PROVE  GoodFile(WriteLine(f, v, how), V)
  <1>0. f.lines \in Seq(LineOf(V)) /\ f.open \in BOOLEAN
    BY DEF GoodFile, FileOf
  <1>1. CASE how = "none"
    BY <1>1 DEF WriteLine
  <1>2. CASE how # "none" /\ f.open
    <2> DEFINE L == [f.lines EXCEPT ![Len(f.lines)] = Malformed(@)]
    <2>1. Len(f.lines) \in 1..Len(f.lines)
      BY <1>0, <1>2 DEF GoodFile
    <2>2. f.lines[Len(f.lines)] \in LineOf(V)
      BY <1>0, <2>1
    <2>3. Malformed(f.lines[Len(f.lines)]) \in LineOf(V)
      BY <2>2 DEF Malformed, LineOf
    <2>4. L \in Seq(LineOf(V)) /\ L # <<>>
      BY <1>0, <2>1, <2>3
    <2>5. WriteLine(f, v, how) = [lines |-> L, open |-> how # "line"]
      BY <1>2 DEF WriteLine
    <2> QED
      BY <2>4, <2>5 DEF FileOf, GoodFile
  <1>3. CASE how # "none" /\ ~f.open
    <2> DEFINE e == [ok |-> how # "part", val |-> v]
               L == Append(f.lines, e)
    <2>1. e \in LineOf(V)
      BY DEF LineOf
    <2>2. L \in Seq(LineOf(V)) /\ L # <<>>
      <3> HIDE DEF e
      <3> QED BY <1>0, <2>1, AppendProperties
    <2>3. WriteLine(f, v, how) = [lines |-> L, open |-> how # "line"]
      BY <1>3 DEF WriteLine
    <2> QED
      BY <2>2, <2>3 DEF FileOf, GoodFile
  <1> QED
    BY <1>1, <1>2, <1>3

\* Where the first line that does not parse is, or the end.
LEMMA ReadableExists ==
    ASSUME NEW V, NEW f, GoodFile(f, V)
    PROVE  \E n \in 0..Len(f.lines) : ReadableUpTo(f, n)
  <1> DEFINE bad == {i \in 1..Len(f.lines) : ~f.lines[i].ok}
  <1>0. Len(f.lines) \in Nat
    BY GoodFileType
  <1>1. CASE bad = {}
    <2>1. \A i \in 1..Len(f.lines) : f.lines[i].ok
      BY <1>1
    <2>2. Len(f.lines) \in 0..Len(f.lines) /\ ~ (Len(f.lines) < Len(f.lines))
      BY <1>0
    <2>3. ReadableUpTo(f, Len(f.lines))
      BY <2>1, <2>2 DEF ReadableUpTo
    <2> QED
      BY <2>2, <2>3
  <1>2. CASE bad # {}
    <2>1. bad \subseteq Nat
      BY <1>0
    <2>2. PICK m \in bad : \A k \in bad : m <= k
      <3> HIDE DEF bad
      <3> QED BY <1>2, <2>1, SmallestExists
    <2>3. ReadableUpTo(f, m - 1)
      BY <1>0, <2>2 DEF ReadableUpTo
    <2> QED
      BY <1>0, <2>3 DEF ReadableUpTo
  <1> QED
    BY <1>1, <1>2

\* A reader gets exactly the values of those lines.
LEMMA GoodPrefixIs ==
    ASSUME NEW V, NEW f, GoodFile(f, V), NEW n, ReadableUpTo(f, n)
    PROVE  GoodPrefix(f) = [i \in 1..n |-> f.lines[i].val]
  <1> DEFINE bad == {i \in 1..Len(f.lines) : ~f.lines[i].ok}
             end == IF bad = {} THEN Len(f.lines)
                    ELSE (CHOOSE i \in bad : \A j \in bad : i <= j) - 1
  <1>0. Len(f.lines) \in Nat /\ n \in 0..Len(f.lines)
    BY GoodFileType DEF ReadableUpTo
  <1>1. end = n
    <2>1. CASE bad = {}
      BY <1>0, <2>1 DEF ReadableUpTo
    <2>2. CASE bad # {}
      <3>1. n + 1 \in bad /\ \A j \in bad : n + 1 <= j
        BY <1>0, <2>2 DEF ReadableUpTo
      <3>2. \A i \in bad : (\A j \in bad : i <= j) => i = n + 1
        BY <1>0, <3>1
      <3>3. (CHOOSE i \in bad : \A j \in bad : i <= j) = n + 1
        <4> HIDE DEF bad
        <4> QED BY <3>1, <3>2
      <3> DEFINE c == CHOOSE i \in bad : \A j \in bad : i <= j
      <3>4. end = c - 1 /\ c = n + 1
        BY <2>2, <3>3
      <3> HIDE DEF c, end, bad
      <3> QED
        BY <1>0, <3>4
    <2> QED
      BY <2>1, <2>2
  <1>2. GoodPrefix(f) = [i \in 1..end |-> f.lines[i].val]
    BY DEF GoodPrefix
  <1> QED
    BY <1>1, <1>2

\* What is read back is a sequence of values.
LEMMA GoodPrefixType ==
    ASSUME NEW V, NEW f, GoodFile(f, V)
    PROVE  GoodPrefix(f) \in Seq(V)
  <1>1. PICK n \in 0..Len(f.lines) : ReadableUpTo(f, n)
    BY ReadableExists
  <1>2. GoodPrefix(f) = [i \in 1..n |-> f.lines[i].val]
    BY <1>1, GoodPrefixIs
  <1>3. n \in Nat /\ \A i \in 1..n : f.lines[i].val \in V
    BY GoodFileType
  <1>4. [i \in 1..n |-> f.lines[i].val] \in Seq(V)
    BY <1>3
  <1> QED
    BY <1>2, <1>4

\* To a file that is sound, a write that leaves anything adds a line at the
\* end.  A whole line adds its value to what a reader gets; a part of one is
\* the first line that does not parse.
LEMMA WriteToSound ==
    ASSUME NEW V, NEW f, GoodFile(f, V), WellFormed(f), ~f.open, NEW v \in V,
           NEW how \in {"line", "part", "whole"}
    PROVE  LET g == WriteLine(f, v, how) IN
           /\ WellFormed(g) <=> how # "part"
           /\ g.open <=> how # "line"
           /\ GoodPrefix(g) = IF how = "part" THEN GoodPrefix(f)
                              ELSE Append(GoodPrefix(f), v)
  <1> DEFINE g == WriteLine(f, v, how)
             n == Len(f.lines)
             e == [ok |-> how # "part", val |-> v]
  <1>0. f.lines \in Seq(LineOf(V)) /\ n \in Nat /\ e \in LineOf(V)
    BY GoodFileType DEF LineOf
  <1>1. g = [lines |-> Append(f.lines, e), open |-> how # "line"]
    BY DEF WriteLine
  <1>2. /\ Len(g.lines) = n + 1
        /\ \A i \in 1..n : g.lines[i] = f.lines[i]
        /\ g.lines[n + 1] = e
    <2>1. g.lines = Append(f.lines, e)
      BY <1>1
    <2> HIDE DEF e, g
    <2> QED
      BY <1>0, <2>1, AppendProperties
  <1>3. (WellFormed(g) <=> how # "part") /\ (g.open <=> how # "line")
    <2>1. (how = "line" => ~g.open) /\ (how # "line" => g.open)
      <3> DEFINE o == how # "line"
      <3>1. g = [lines |-> Append(f.lines, e), open |-> o]
        BY <1>1
      <3> HIDE DEF g, o, e
      <3>2. g.open = o
        BY <3>1
      <3> QED BY <3>2 DEF o
    <2>2. e.ok <=> how # "part"
      OBVIOUS
    <2> HIDE DEF g, e
    <2> QED
      BY <1>0, <1>2, <2>1, <2>2 DEF WellFormed
  <1>4. GoodPrefix(f) = [i \in 1..n |-> f.lines[i].val]
    <2>1. ReadableUpTo(f, n)
      BY <1>0 DEF ReadableUpTo, WellFormed
    <2> QED
      BY <2>1, GoodPrefixIs
  <1>5. GoodFile(g, V)
    BY WriteLineType
  <1>6. \A i \in 1..n : f.lines[i].val \in V
    BY GoodFileType
  <1>7. CASE how = "part"
    <2>1. ReadableUpTo(g, n)
      <3>1. ~e.ok
        BY <1>7
      <3> HIDE DEF g, e
      <3> QED BY <1>0, <1>2, <3>1 DEF ReadableUpTo, WellFormed
    <2>2. GoodPrefix(g) = [i \in 1..n |-> g.lines[i].val]
      <3> HIDE DEF g
      <3> QED BY <1>5, <2>1, GoodPrefixIs
    <2>3. [i \in 1..n |-> g.lines[i].val] = [i \in 1..n |-> f.lines[i].val]
      BY <1>2
    <2> QED
      BY <1>3, <1>4, <1>7, <2>2, <2>3
  <1>8. CASE how # "part"
    <2> DEFINE a == [i \in 1..n + 1 |-> g.lines[i].val]
               b == [i \in 1..n |-> f.lines[i].val]
               c == Append(b, v)
    <2>1. ReadableUpTo(g, n + 1)
      BY <1>0, <1>2, <1>3, <1>8 DEF ReadableUpTo, WellFormed
    <2>2. GoodPrefix(g) = a
      <3> HIDE DEF g
      <3> QED BY <1>5, <2>1, GoodPrefixIs
    <2>3. b \in Seq(V) /\ Len(b) = n
      BY <1>0, <1>6
    <2>4. \A i \in 1..n + 1 : g.lines[i].val \in V
      BY <1>0, <1>2, <1>6
    <2>5. a \in Seq(V) /\ Len(a) = n + 1
      <3> HIDE DEF g
      <3> QED BY <1>0, <2>4
    <2>6. c \in Seq(V) /\ Len(c) = n + 1 /\ c[n + 1] = v /\ \A i \in 1..n : c[i] = b[i]
      <3> HIDE DEF b
      <3> QED BY <2>3, AppendProperties
    <2>7. \A i \in 1..n + 1 : a[i] = c[i]
      BY <1>0, <1>2, <2>6
    <2>8. a = c
      <3> HIDE DEF a, c
      <3> QED BY <2>5, <2>6, <2>7, SeqEqual
    <2> QED
      BY <1>3, <1>4, <1>8, <2>2, <2>8
  <1> QED
    BY <1>3, <1>7, <1>8

\* On a last line that lacks its newline, whatever is written spoils that
\* line, and a reader no longer gets it.
LEMMA WriteToLoose ==
    ASSUME NEW V, NEW f, GoodFile(f, V), WellFormed(f), f.open, NEW v \in V,
           NEW how \in {"line", "part", "whole"}
    PROVE  LET g == WriteLine(f, v, how)
               p == GoodPrefix(f)
           IN /\ ~WellFormed(g)
              /\ Len(p) > 0
              /\ GoodPrefix(g) = SubSeq(p, 1, Len(p) - 1)
  <1> DEFINE g == WriteLine(f, v, how)
             n == Len(f.lines)
             p == [i \in 1..n |-> f.lines[i].val]
             L == [f.lines EXCEPT ![n] = Malformed(@)]
  <1>0. f.lines \in Seq(LineOf(V)) /\ n \in Nat /\ n > 0
    BY GoodFileType
  <1>1. g = [lines |-> L, open |-> how # "line"]
    BY DEF WriteLine
  <1>2. /\ Len(g.lines) = n
        /\ \A i \in 1..n - 1 : g.lines[i] = f.lines[i]
        /\ ~g.lines[n].ok
    BY <1>0, <1>1 DEF Malformed
  <1>3. ReadableUpTo(f, n) /\ ReadableUpTo(g, n - 1) /\ ~WellFormed(g)
    BY <1>0, <1>2 DEF ReadableUpTo, WellFormed
  <1>4. GoodPrefix(f) = p
    BY <1>3, GoodPrefixIs
  <1>5. GoodPrefix(g) = [i \in 1..n - 1 |-> g.lines[i].val]
    <2>1. GoodFile(g, V)
      BY WriteLineType
    <2> HIDE DEF g
    <2> QED
      BY <1>3, <2>1, GoodPrefixIs
  <1>6. [i \in 1..n - 1 |-> g.lines[i].val] = [i \in 1..n - 1 |-> p[i]]
    BY <1>0, <1>2
  <1>7. Len(p) = n /\ SubSeq(p, 1, n - 1) = [i \in 1..n - 1 |-> p[i]]
    <2>1. p \in Seq(V) /\ Len(p) = n
      BY <1>0, GoodFileType
    <2> HIDE DEF p
    <2> QED
      BY <1>0, <2>1
  <1> QED
    <2>1. /\ ~WellFormed(g)
          /\ Len(GoodPrefix(f)) > 0
          /\ GoodPrefix(g) = SubSeq(GoodPrefix(f), 1, Len(GoodPrefix(f)) - 1)
      <3> HIDE DEF p, g
      <3> QED BY <1>0, <1>3, <1>4, <1>5, <1>6, <1>7
    <2> QED
      BY <2>1

\* Behind a line that does not parse nothing reaches the reader.
LEMMA WriteToFrozen ==
    ASSUME NEW V, NEW f, GoodFile(f, V), ~WellFormed(f), NEW v \in V,
           NEW how \in {"line", "part", "whole"}
    PROVE  LET g == WriteLine(f, v, how) IN
           ~WellFormed(g) /\ GoodPrefix(g) = GoodPrefix(f)
  <1> DEFINE g == WriteLine(f, v, how)
             n == Len(f.lines)
  <1>0. f.lines \in Seq(LineOf(V)) /\ n \in Nat
    BY GoodFileType
  <1>1. PICK k \in 0..n : ReadableUpTo(f, k)
    BY ReadableExists
  <1>2. k < n /\ ~f.lines[k + 1].ok
    BY <1>0, <1>1 DEF ReadableUpTo, WellFormed
  <1>3. /\ Len(g.lines) \in Nat /\ Len(g.lines) >= n
        /\ \A i \in 1..k : g.lines[i] = f.lines[i]
        /\ ~g.lines[k + 1].ok
    <2>1. CASE f.open
      <3> DEFINE L == [f.lines EXCEPT ![n] = Malformed(@)]
      <3>1. g.lines = L
        BY <2>1 DEF WriteLine
      <3>2. Len(L) = n /\ \A i \in 1..n - 1 : L[i] = f.lines[i]
        BY <1>0
      <3>3. k + 1 = n => ~L[k + 1].ok
        BY <1>0, <1>2 DEF Malformed
      <3> HIDE DEF L, g
      <3> QED
        BY <1>0, <1>2, <3>1, <3>2, <3>3
    <2>2. CASE ~f.open
      <3> DEFINE e == [ok |-> how # "part", val |-> v]
      <3>1. e \in LineOf(V)
        BY DEF LineOf
      <3>2. g.lines = Append(f.lines, e)
        BY <2>2 DEF WriteLine
      <3> HIDE DEF e, g
      <3> QED
        BY <1>0, <1>2, <3>1, <3>2, AppendProperties
    <2> QED
      BY <2>1, <2>2, GoodFileType
  <1>4. ReadableUpTo(g, k) /\ ~WellFormed(g)
    <2> HIDE DEF g
    <2> QED BY <1>0, <1>1, <1>2, <1>3 DEF ReadableUpTo, WellFormed
  <1>5. GoodPrefix(g) = [i \in 1..k |-> g.lines[i].val]
    <2>1. GoodFile(g, V)
      BY WriteLineType
    <2> HIDE DEF g
    <2> QED
      BY <1>4, <2>1, GoodPrefixIs
  <1>6. GoodPrefix(f) = [i \in 1..k |-> f.lines[i].val]
    BY <1>1, GoodPrefixIs
  <1> QED
    BY <1>3, <1>4, <1>5, <1>6

-----------------------------------------------------------------------------
(* The three cases together are what Journal says of a step.               *)

\* What the writer of a file may do to it, as its readers see it: what they
\* get and the condition of the file, before and after.
JournalStep(e, c, e2, c2) ==
    \/ e2 = e /\ c2 = c
    \/ c = "sound" /\ c2 \in {"sound", "loose"}
         /\ Len(e2) = Len(e) + 1 /\ SubSeq(e2, 1, Len(e)) = e
    \/ c = "sound" /\ c2 = "frozen" /\ e2 = e
    \/ c = "loose" /\ c2 = "frozen" /\ e2 = SubSeq(e, 1, Len(e) - 1)

\* Which of the three conditions a file is in.
LEMMA ConditionIs ==
    ASSUME NEW f
    PROVE  /\ ~WellFormed(f) => Condition(f) = "frozen"
           /\ WellFormed(f) /\ f.open => Condition(f) = "loose"
           /\ WellFormed(f) /\ ~f.open => Condition(f) = "sound"
  BY DEF Condition

\* Any write, cut short anywhere, is a step of the journal or changes nothing
\* that it sees: the condition of the file says which.
LEMMA WriteIsJournalled ==
    ASSUME NEW V, NEW f, GoodFile(f, V), NEW v \in V, NEW how \in Cuts \cup {"line"}
    PROVE  LET g == WriteLine(f, v, how) IN
           JournalStep(GoodPrefix(f), Condition(f), GoodPrefix(g), Condition(g))
  <1> DEFINE g == WriteLine(f, v, how)
             e == GoodPrefix(f)
  <1>1. CASE how = "none"
    BY <1>1 DEF WriteLine, JournalStep
  <1>2. CASE how # "none"
    <2>0. how \in {"line", "part", "whole"}
      BY <1>2 DEF Cuts
    <2>1. CASE ~WellFormed(f)
      <3>1. ~WellFormed(g) /\ GoodPrefix(g) = e
        BY <2>0, <2>1, WriteToFrozen
      <3>2. Condition(g) = Condition(f)
        BY <2>1, <3>1, ConditionIs
      <3> HIDE DEF g
      <3> QED
        BY <3>1, <3>2 DEF JournalStep, g
    <2>2. CASE WellFormed(f) /\ f.open
      <3>1. ~WellFormed(g) /\ GoodPrefix(g) = SubSeq(e, 1, Len(e) - 1)
        BY <2>0, <2>2, WriteToLoose
      <3>2. Condition(f) = "loose" /\ Condition(g) = "frozen"
        BY <2>2, <3>1, ConditionIs
      <3> QED
        BY <3>1, <3>2 DEF JournalStep
    <2>3. CASE WellFormed(f) /\ ~f.open
      <3>1. /\ WellFormed(g) <=> how # "part"
            /\ g.open <=> how # "line"
            /\ GoodPrefix(g) = IF how = "part" THEN e ELSE Append(e, v)
        BY <2>0, <2>3, WriteToSound
      <3>2. Condition(f) = "sound"
        BY <2>3, ConditionIs
      <3>3. CASE how = "part"
        <4>1. Condition(g) = "frozen" /\ GoodPrefix(g) = e
          BY <3>1, <3>3, ConditionIs
        <4> QED
          BY <3>2, <4>1 DEF JournalStep
      <3>4. CASE how # "part"
        <4>1. Condition(g) \in {"sound", "loose"} /\ GoodPrefix(g) = Append(e, v)
          BY <3>1, <3>4, ConditionIs
        <4>2. e \in Seq(V)
          BY GoodPrefixType
        <4>3. Len(Append(e, v)) = Len(e) + 1 /\ SubSeq(Append(e, v), 1, Len(e)) = e
          <5> HIDE DEF e
          <5> QED BY <4>2
        <4> QED
          BY <3>2, <4>1, <4>3 DEF JournalStep
      <3> QED
        BY <3>3, <3>4
    <2> QED
      BY <2>1, <2>2, <2>3
  <1> QED
    BY <1>1, <1>2
=============================================================================
