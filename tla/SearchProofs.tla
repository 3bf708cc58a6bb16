---------------------------- MODULE SearchProofs ----------------------------
(***************************************************************************)
(* Theorems about the tools that only look and about skills (Search,       *)
(* Skills), while other programs change what is looked at: their types,    *)
(* that what is shown was there, that a result that does not say it is cut *)
(* short leaves nothing out, that pages add up to the file, and that the   *)
(* workspace's skills hide the user's; for any paths, trees and inputs.    *)
(***************************************************************************)
EXTENDS Skills, Lemmas

-----------------------------------------------------------------------------
(* Paths (FileTree).                                                       *)

\* p is under d if it begins with the names of d.
LEMMA WithinIs ==
    ASSUME NEW p \in Seq(STRING), NEW d \in Seq(STRING)
    PROVE  Within(p, d) <=> Len(d) <= Len(p) /\ \A i \in 1..Len(d) : p[i] = d[i]
  <1>1. Len(p) \in Nat /\ Len(d) \in Nat
    OBVIOUS
  <1>2. CASE Len(d) <= Len(p)
    <2>1. Len(d) \in 0..Len(p) /\ Len(d) \in 0..Len(d)
      BY <1>1, <1>2
    <2> DEFINE a == SubSeq(d, 1, Len(d))
               b == SubSeq(p, 1, Len(d))
    <2>2. a \in Seq(STRING) /\ Len(a) = Len(d) /\ \A i \in 1..Len(d) : a[i] = d[i]
      <3>1. a = d
        OBVIOUS
      <3> QED
        BY <3>1
    <2>3. b \in Seq(STRING) /\ Len(b) = Len(d) /\ \A i \in 1..Len(d) : b[i] = p[i]
      BY <1>1, <2>1, Halves
    <2> HIDE DEF a, b
    <2>4. a = b <=> \A i \in 1..Len(d) : p[i] = d[i]
      BY <2>2, <2>3, SeqEqual
    <2> QED
      BY <1>2, <2>4 DEF Within, IsPrefix, a, b
  <1>3. CASE ~ (Len(d) <= Len(p))
    BY <1>3 DEF Within, IsPrefix
  <1> QED
    BY <1>2, <1>3

\* The directory of a path, and the last name of it.
LEMMA FrontIs ==
    ASSUME NEW p \in Seq(STRING), p # <<>>
    PROVE  /\ Front(p) \in Seq(STRING) /\ Len(Front(p)) = Len(p) - 1 /\ Len(p) \in Nat \ {0}
           /\ \A i \in 1..Len(p) - 1 : Front(p)[i] = p[i]
           /\ Last(p) = p[Len(p)] /\ Last(p) \in STRING
           /\ p = Append(Front(p), Last(p))
           /\ Within(p, Front(p)) /\ ~Within(Front(p), p)
  <1> DEFINE n == Len(p) - 1
             f == SubSeq(p, 1, n)
             x == p[Len(p)]
  <1>1. Len(p) \in Nat /\ Len(p) # 0 /\ n \in 0..Len(p) /\ n \in Nat /\ x \in STRING
    OBVIOUS
  <1>2. f \in Seq(STRING) /\ Len(f) = n /\ \A i \in 1..n : f[i] = p[i]
    <2>1. n \in 0..Len(p)
      BY <1>1
    <2> HIDE DEF n
    <2>2. f \in Seq(STRING) /\ Halved(p, n)
      BY <2>1, Halving
    <2> QED
      BY <2>2 DEF Halved
  <1>3. Front(p) = f /\ Last(p) = x
    BY DEF Front, Last
  <1> HIDE DEF f
  <1>4. p = Append(f, x)
    <2> DEFINE q == Append(f, x)
    <2>1. q \in Seq(STRING) /\ Len(q) = Len(p) /\ \A i \in 1..Len(p) : q[i] = IF i <= n THEN f[i] ELSE x
      BY <1>1, <1>2
    <2>2. \A i \in 1..Len(p) : q[i] = p[i]
      BY <1>1, <1>2, <2>1
    <2> HIDE DEF q
    <2>3. q = p
      BY <2>1, <2>2, SeqEqual
    <2> QED
      BY <2>3 DEF q
  <1>5. Within(p, f) /\ ~Within(f, p)
    BY <1>1, <1>2, WithinIs
  <1> QED
    BY <1>1, <1>2, <1>3, <1>4, <1>5

\* A path and what is in the directory it names.
LEMMA ChildIs ==
    ASSUME NEW d \in Seq(STRING), NEW x \in STRING
    PROVE  LET c == Append(d, x) IN
           /\ c \in Seq(STRING) /\ c # <<>> /\ Len(c) = Len(d) + 1
           /\ \A i \in 1..Len(d) : c[i] = d[i]
           /\ c[Len(d) + 1] = x
           /\ Front(c) = d /\ Last(c) = x /\ Within(c, d)
  <1> DEFINE c == Append(d, x)
  <1>1. /\ c \in Seq(STRING) /\ Len(c) = Len(d) + 1 /\ Len(d) \in Nat
        /\ \A i \in 1..Len(d) : c[i] = d[i]
        /\ c[Len(d) + 1] = x
    OBVIOUS
  <1> HIDE DEF c
  <1>2. c # <<>>
    BY <1>1
  <1>3. /\ Front(c) \in Seq(STRING) /\ Len(Front(c)) = Len(d) /\ Last(c) = x
        /\ \A i \in 1..Len(d) : Front(c)[i] = d[i]
    <2>1. /\ Front(c) \in Seq(STRING) /\ Len(Front(c)) = Len(c) - 1 /\ Last(c) = c[Len(c)]
          /\ \A i \in 1..Len(c) - 1 : Front(c)[i] = c[i]
      BY <1>1, <1>2, FrontIs
    <2>2. Len(c) - 1 = Len(d)
      BY <1>1
    <2> QED
      BY <1>1, <2>1, <2>2
  <1>4. Front(c) = d
    BY <1>3, SeqEqual
  <1>5. Within(c, d)
    BY <1>1, WithinIs
  <1> QED
    BY <1>1, <1>2, <1>3, <1>4, <1>5 DEF c

\* What is under something that is under d is under d, and so is its
\* directory if it is not d itself.
LEMMA WithinTwice ==
    ASSUME NEW p \in Seq(STRING), NEW q \in Seq(STRING), NEW d \in Seq(STRING)
    PROVE  /\ Within(p, q) /\ Within(q, d) => Within(p, d)
           /\ Within(p, p)
           /\ p # <<>> /\ Within(p, d) /\ p # d => Within(Front(p), d)
           /\ Within(p, d) /\ Within(d, p) => p = d
  <1>1. Len(p) \in Nat /\ Len(q) \in Nat /\ Len(d) \in Nat
    OBVIOUS
  <1>2. Within(p, q) /\ Within(q, d) => Within(p, d)
    BY <1>1, WithinIs
  <1>3. Within(p, p)
    BY <1>1, WithinIs
  <1>4. ASSUME Within(p, d), Len(p) = Len(d) PROVE p = d
    <2>1. \A i \in 1..Len(d) : p[i] = d[i]
      BY <1>4, WithinIs
    <2> QED
      BY <1>4, <2>1, SeqEqual
  <1>5. ASSUME p # <<>>, Within(p, d), p # d PROVE Within(Front(p), d)
    <2> DEFINE f == Front(p)
    <2>1. f \in Seq(STRING) /\ Len(f) = Len(p) - 1 /\ \A i \in 1..Len(p) - 1 : f[i] = p[i]
      BY <1>5, FrontIs
    <2>2. Len(d) <= Len(p) /\ Len(d) # Len(p) /\ \A i \in 1..Len(d) : p[i] = d[i]
      BY <1>4, <1>5, WithinIs
    <2> HIDE DEF f
    <2>3. Len(d) <= Len(f) /\ \A i \in 1..Len(d) : f[i] = d[i]
      BY <1>1, <2>1, <2>2
    <2>4. Within(f, d)
      BY <2>1, <2>3, WithinIs
    <2> QED
      BY <2>4 DEF f
  <1>6. Within(p, d) /\ Within(d, p) => p = d
    <2>1. Within(p, d) /\ Within(d, p) => Len(p) = Len(d)
      BY <1>1, WithinIs
    <2> QED
      BY <1>4, <2>1
  <1> QED
    BY <1>2, <1>3, <1>5, <1>6

\* The path under d that p is in.
OnTheWay(p, d) == SubSeq(p, 1, Len(d) + 1)

\* A path under d goes through an entry of d.
LEMMA OnTheWayIs ==
    ASSUME NEW p \in Seq(STRING), NEW d \in Seq(STRING), Within(p, d), p # d
    PROVE  LET c == OnTheWay(p, d) IN
           /\ Len(d) < Len(p) /\ c \in Seq(STRING) /\ c # <<>> /\ Len(c) = Len(d) + 1
           /\ c = Append(d, p[Len(d) + 1]) /\ p[Len(d) + 1] \in STRING
           /\ Front(c) = d /\ Last(c) = p[Len(d) + 1] /\ Within(p, c) /\ Within(c, d)
  <1> DEFINE n == Len(d) + 1
             c == SubSeq(p, 1, n)
             e == Append(d, p[n])
  <1>1. Len(p) \in Nat /\ Len(d) \in Nat /\ Len(d) <= Len(p) /\ \A i \in 1..Len(d) : p[i] = d[i]
    BY WithinIs
  <1>2. Len(d) # Len(p)
    <2>1. Len(d) = Len(p) => p = d
      BY <1>1, SeqEqual
    <2> QED
      BY <2>1
  <1>3. n \in 1..Len(p) /\ n \in 0..Len(p) /\ p[n] \in STRING
    BY <1>1, <1>2
  <1>4. /\ e \in Seq(STRING) /\ e # <<>> /\ Len(e) = n /\ Front(e) = d /\ Last(e) = p[n] /\ Within(e, d)
        /\ e[n] = p[n] /\ \A i \in 1..Len(d) : e[i] = d[i]
    BY <1>3, ChildIs
  <1>5. c \in Seq(STRING) /\ Len(c) = n /\ \A i \in 1..n : c[i] = p[i]
    <2> HIDE DEF n
    <2>1. c \in Seq(STRING) /\ Halved(p, n)
      BY <1>3, Halving
    <2> QED
      BY <2>1 DEF Halved
  <1> HIDE DEF e, c
  <1>6. \A i \in 1..n : e[i] = p[i]
    BY <1>1, <1>4
  <1>7. c = e
    BY <1>4, <1>5, <1>6, SeqEqual
  <1>8. Within(p, c)
    <2>1. Len(c) <= Len(p)
      BY <1>3, <1>5
    <2> QED
      BY <1>5, <2>1, WithinIs
  <1> QED
    <2>1. /\ Len(d) < Len(p) /\ c # <<>>
          /\ c = Append(d, p[n]) /\ Front(c) = d /\ Last(c) = p[n] /\ Within(c, d)
      BY <1>1, <1>2, <1>4, <1>7 DEF e
    <2>2. OnTheWay(p, d) = c
      BY DEF OnTheWay, c
    <2> QED
      BY <1>3, <1>5, <1>8, <2>1, <2>2

\* What something is under is a directory.
LEMMA AboveIsDirectory ==
    ASSUME NEW t, IsTree(t), NEW p \in Paths, t[p] # Absent,
           NEW d \in Seq(STRING), Within(p, d)
    PROVE  d \in Paths /\ (d # p => t[d] = Directory)
  <1> DEFINE Ok(n) == \A e \in Seq(STRING) :
                         Len(e) = n /\ Within(p, e) => e \in Paths /\ (e # p => t[e] = Directory)
             N == 0..Len(p)
             B == {n \in N : ~Ok(n)}
             mu == [n \in N |-> Len(p) - n]
  <1>0. p \in Seq(STRING) /\ Len(p) \in Nat
    BY FileTreeAssumption
  <1>1. mu \in [N -> Nat]
    BY <1>0
  <1>2. ASSUME NEW n \in N, ~Ok(n) PROVE n + 1 \in N /\ ~Ok(n + 1)
    <2>1. PICK e \in Seq(STRING) :
             Len(e) = n /\ Within(p, e) /\ ~ (e \in Paths /\ (e # p => t[e] = Directory))
      BY <1>2
    <2>2. e # p
      BY <2>1
    <2> DEFINE c == OnTheWay(p, e)
    <2>3. /\ Len(e) < Len(p) /\ c \in Seq(STRING) /\ c # <<>> /\ Len(c) = n + 1
          /\ Front(c) = e /\ Within(p, c)
      BY <1>0, <2>1, <2>2, OnTheWayIs
    <2> HIDE DEF c
    <2>4. n + 1 \in N
      BY <1>0, <2>1, <2>3
    <2>5. ASSUME Ok(n + 1) PROVE FALSE
      <3>1. c \in Paths /\ (c # p => t[c] = Directory)
        BY <2>3, <2>5
      <3>2. t[c] # Absent
        BY <3>1 DEF Absent, Directory
      <3>3. Front(c) \in Paths /\ t[Front(c)] = Directory
        BY <2>3, <3>1, <3>2, FileTreeAssumption DEF IsTree
      <3> QED
        BY <2>1, <2>3, <3>3
    <2> QED
      BY <2>4, <2>5
  <1>3. \A n \in B : \E m \in B : mu[m] < mu[n]
    <2>1. ASSUME NEW n \in B PROVE n + 1 \in B /\ mu[n + 1] < mu[n]
      <3>1. n \in N /\ ~Ok(n)
        OBVIOUS
      <3> HIDE DEF Ok
      <3>2. n + 1 \in N /\ ~Ok(n + 1)
        BY <1>2, <3>1
      <3> QED
        BY <1>0, <3>1, <3>2
    <2> HIDE DEF B, mu
    <2> QED
      BY <2>1
  <1>4. B \subseteq N
    OBVIOUS
  <1>5. B = {}
    <2> HIDE DEF B, mu, N
    <2> QED
      BY <1>1, <1>3, <1>4, NoneEndless
  <1>6. Len(d) \in N
    BY <1>0, WithinIs
  <1>7. Ok(Len(d))
    <2> HIDE DEF Ok
    <2> QED
      BY <1>5, <1>6
  <1> QED
    BY <1>7

\* ReadDir has what there is in the directory, and nothing else.
LEMMA ReadDirIs ==
    ASSUME NEW t, IsTree(t), NEW d \in Paths
    PROVE  /\ ReadDir(t, d) \in Seq(Paths)
           /\ \A k \in 1..Len(ReadDir(t, d)) :
                 LET c == ReadDir(t, d)[k] IN
                 t[c] # Absent /\ c # <<>> /\ Front(c) = d /\ Within(c, d)
           /\ \A c \in Paths \ {<<>>} : Front(c) = d /\ t[c] # Absent =>
                 \E k \in 1..Len(ReadDir(t, d)) : ReadDir(t, d)[k] = c
  <1> DEFINE P == {k \in DOMAIN Names : NodeAt(t, Append(d, Names[k])) # Absent}
             there == At(Names, P)
             r == [k \in DOMAIN there |-> Append(d, there[k])]
  <1>1. d \in Seq(STRING) /\ Names \in Seq(STRING) /\ DOMAIN Names = 1..Len(Names)
        /\ \A c \in Paths : c \in Seq(STRING)
    BY FileTreeAssumption
  <1>2. ReadDir(t, d) = r
    BY DEF ReadDir
  <1>3. /\ there \in Seq(STRING)
        /\ \A k \in P : \E j \in 1..Len(there) : there[j] = Names[k]
        /\ \A j \in 1..Len(there) : \E k \in P : there[j] = Names[k]
    <2>1. P \subseteq 1..Len(Names) /\ Names \in Seq(STRING)
      BY <1>1
    <2> HIDE DEF P
    <2> QED
      BY <2>1, AtIs
  <1> HIDE DEF there
  <1>4. Len(r) = Len(there) /\ DOMAIN r = 1..Len(there) /\ \A k \in 1..Len(there) : r[k] = Append(d, there[k])
    BY <1>3
  <1>5. ASSUME NEW k \in 1..Len(there)
        PROVE  r[k] \in Paths /\ t[r[k]] # Absent /\ r[k] # <<>> /\ Front(r[k]) = d /\ Within(r[k], d)
    <2> DEFINE x == there[k]
               c == Append(d, x)
    <2>1. PICK j \in P : x = Names[j]
      BY <1>3
    <2>2. x \in STRING /\ r[k] = c
      BY <1>3, <1>4
    <2>3. NodeAt(t, c) # Absent
      BY <2>1
    <2>4. c # <<>> /\ Front(c) = d /\ Within(c, d)
      <3> HIDE DEF x
      <3> QED
        BY <1>1, <2>2, ChildIs
    <2> HIDE DEF c
    <2>5. c \in Paths /\ t[c] # Absent
      BY <2>3 DEF NodeAt
    <2> QED
      BY <2>2, <2>4, <2>5
  <1>6. ASSUME NEW c \in Paths \ {<<>>}, Front(c) = d, t[c] # Absent
        PROVE  \E k \in 1..Len(there) : r[k] = c
    <2>1. c \in Seq(STRING) /\ c # <<>>
      BY <1>1
    <2>2. c = Append(d, Last(c)) /\ Last(c) \in ToSet(Names)
      BY <1>6, <2>1, FrontIs, FileTreeAssumption
    <2>3. PICK j \in DOMAIN Names : Names[j] = Last(c)
      BY <2>2 DEF ToSet
    <2>4. j \in P
      BY <1>6, <2>2, <2>3 DEF NodeAt
    <2>5. PICK k \in 1..Len(there) : there[k] = Names[j]
      BY <1>3, <2>4
    <2>6. r[k] = Append(d, there[k])
      BY <1>4
    <2> QED
      BY <2>2, <2>3, <2>5, <2>6
  <1> HIDE DEF r
  <1>7. r \in Seq(Paths)
    <2>1. r = [k \in 1..Len(there) |-> Append(d, there[k])] /\ Len(there) \in Nat
      BY <1>3 DEF r
    <2>2. \A k \in 1..Len(there) : Append(d, there[k]) \in Paths
      BY <1>4, <1>5
    <2> QED
      BY <2>1, <2>2
  <1> QED
    BY <1>2, <1>4, <1>5, <1>6, <1>7

-----------------------------------------------------------------------------
(* What other programs do leaves a tree.                                   *)

\* A tree with something put where it can be is a tree.
LEMMA PutIs ==
    ASSUME NEW t, IsTree(t), NEW p \in Paths, CanHold(t, p), NEW node \in Node,
           IF node = Directory THEN t[p] = Absent ELSE t[p] # Directory
    PROVE  IsTree(Put(t, p, node))
  <1> DEFINE u == [t EXCEPT ![p] = node]
  <1>1. u \in [Paths -> Node] /\ \A q \in Paths : u[q] = IF q = p THEN node ELSE t[q]
    BY DEF IsTree
  <1>2. ASSUME NEW q \in Paths \ {<<>>}, u[q] # Absent PROVE u[Front(q)] = Directory
    <2>1. Front(q) \in Paths /\ q \in Paths
      BY FileTreeAssumption
    <2>2. t[Front(q)] = Directory
      BY <1>1, <1>2 DEF IsTree, CanHold
    <2>3. CASE Front(q) # p
      BY <1>1, <2>1, <2>2, <2>3
    <2>4. CASE Front(q) = p
      <3>1. node = Directory => t[p] = Absent
        OBVIOUS
      <3> QED
        BY <2>2, <2>4, <3>1 DEF Absent, Directory
    <2> QED
      BY <2>3, <2>4
  <1> QED
    BY <1>1, <1>2 DEF IsTree, Put

\* A tree without a path, and what was under it, is a tree.
LEMMA UnlinkIs ==
    ASSUME NEW t, IsTree(t), NEW p \in Paths
    PROVE  IsTree(Unlink(t, p))
  <1> DEFINE u == [q \in Paths |-> IF Within(q, p) THEN Absent ELSE t[q]]
  <1>1. u \in [Paths -> Node] /\ \A q \in Paths : u[q] = IF Within(q, p) THEN Absent ELSE t[q]
    BY DEF IsTree, Node
  <1>2. ASSUME NEW q \in Paths \ {<<>>}, u[q] # Absent PROVE u[Front(q)] = Directory
    <2>1. Front(q) \in Paths /\ q \in Paths /\ q \in Seq(STRING) /\ p \in Seq(STRING) /\ q # <<>>
          /\ Front(q) \in Seq(STRING)
      BY FileTreeAssumption
    <2>2. ~Within(q, p) /\ t[q] # Absent
      BY <1>1, <1>2
    <2>3. ~Within(Front(q), p)
      BY <2>1, <2>2, WithinTwice, FrontIs
    <2> QED
      BY <1>1, <2>1, <2>2, <2>3 DEF IsTree
  <1> QED
    BY <1>1, <1>2 DEF IsTree, Unlink

\* Where what is at x under q comes from, if q was p.
From(p, q, x) == p \o SubSeq(x, Len(q) + 1, Len(x))

\* What is under q comes from under p, with the same names behind.
LEMMA FromIs ==
    ASSUME NEW p \in Seq(STRING), NEW q \in Seq(STRING), NEW x \in Seq(STRING), Within(x, q)
    PROVE  LET y == From(p, q, x) IN
           /\ y \in Seq(STRING) /\ Len(y) = Len(p) + (Len(x) - Len(q)) /\ Len(x) - Len(q) \in Nat
           /\ \A i \in 1..Len(p) : y[i] = p[i]
           /\ \A i \in 1..Len(x) - Len(q) : y[Len(p) + i] = x[Len(q) + i]
  <1> DEFINE n == Len(q)
             m == Len(x) - n
             s == SubSeq(x, n + 1, Len(x))
  <1>1. n \in 0..Len(x) /\ n \in Nat /\ Len(x) \in Nat /\ m \in Nat /\ Len(p) \in Nat
    BY WithinIs
  <1>2. s \in Seq(STRING) /\ Len(s) = m /\ \A i \in 1..m : s[i] = x[n + i]
    <2> HIDE DEF n
    <2>1. s \in Seq(STRING) /\ Halved(x, n)
      BY <1>1, Halving
    <2> QED
      BY <1>1, <2>1 DEF Halved
  <1> HIDE DEF s, m
  <1> DEFINE y == p \o s
  <1>3. y \in Seq(STRING) /\ Len(y) = Len(p) + m
    BY <1>1, <1>2, ConcatProperties
  <1>4. \A i \in 1..Len(p) + m : y[i] = IF i <= Len(p) THEN p[i] ELSE s[i - Len(p)]
    BY <1>1, <1>2, ConcatProperties
  <1> HIDE DEF y
  <1>5. \A i \in 1..Len(p) : y[i] = p[i]
    BY <1>1, <1>4
  <1>6. ASSUME NEW i \in 1..m PROVE y[Len(p) + i] = x[n + i]
    <2>1. Len(p) + i \in 1..Len(p) + m /\ ~ (Len(p) + i <= Len(p)) /\ (Len(p) + i) - Len(p) = i
      BY <1>1
    <2> QED
      BY <1>2, <1>4, <2>1
  <1>7. From(p, q, x) = y
    BY DEF From, y, s
  <1> QED
    BY <1>1, <1>3, <1>5, <1>6, <1>7 DEF m

\* A directory is moved with what is in it.
LEMMA FromFront ==
    ASSUME NEW p \in Seq(STRING), NEW q \in Seq(STRING), NEW x \in Seq(STRING),
           Within(x, q), x # q
    PROVE  LET y == From(p, q, x) IN
           /\ x # <<>> /\ Within(Front(x), q)
           /\ y # <<>> /\ Front(y) = From(p, q, Front(x))
  <1> DEFINE f == Front(x)
             y == From(p, q, x)
             z == From(p, q, f)
             g == Front(y)
             m == Len(x) - Len(q)
  <1>0. Len(x) \in Nat /\ Len(q) \in Nat /\ Len(p) \in Nat
    OBVIOUS
  <1>1. Len(q) < Len(x) /\ x # <<>>
    BY <1>0, OnTheWayIs
  <1>2. f \in Seq(STRING) /\ Len(f) = Len(x) - 1 /\ \A i \in 1..Len(x) - 1 : f[i] = x[i]
    BY <1>1, FrontIs
  <1>3. Within(f, q)
    BY <1>1, WithinTwice
  <1> HIDE DEF f
  <1>4. /\ y \in Seq(STRING) /\ Len(y) = Len(p) + m /\ m \in Nat
        /\ \A i \in 1..Len(p) : y[i] = p[i]
        /\ \A i \in 1..m : y[Len(p) + i] = x[Len(q) + i]
    BY FromIs
  <1>5. /\ z \in Seq(STRING) /\ Len(z) = Len(p) + (m - 1)
        /\ \A i \in 1..Len(p) : z[i] = p[i]
        /\ \A i \in 1..m - 1 : z[Len(p) + i] = f[Len(q) + i]
    <2>1. Len(f) - Len(q) = m - 1
      BY <1>0, <1>2
    <2>2. /\ z \in Seq(STRING) /\ Len(z) = Len(p) + (Len(f) - Len(q))
          /\ \A i \in 1..Len(p) : z[i] = p[i]
          /\ \A i \in 1..Len(f) - Len(q) : z[Len(p) + i] = f[Len(q) + i]
      BY <1>2, <1>3, FromIs
    <2> QED
      BY <2>1, <2>2
  <1> HIDE DEF y, z
  <1>6. m > 0 /\ y # <<>>
    BY <1>0, <1>1, <1>4
  <1>7. g \in Seq(STRING) /\ Len(g) = Len(y) - 1 /\ \A i \in 1..Len(y) - 1 : g[i] = y[i]
    BY <1>4, <1>6, FrontIs
  <1> HIDE DEF g
  <1>8. Len(g) = Len(z)
    BY <1>0, <1>4, <1>5, <1>6, <1>7
  <1>9. ASSUME NEW i \in 1..Len(z) PROVE g[i] = z[i]
    <2>1. g[i] = y[i]
      BY <1>7, <1>8
    <2>2. CASE i <= Len(p)
      <3>1. i \in 1..Len(p)
        BY <1>0, <2>2
      <3> QED
        BY <1>4, <1>5, <2>1, <3>1
    <2>3. CASE ~ (i <= Len(p))
      <3> DEFINE j == i - Len(p)
      <3>1. j \in 1..m - 1 /\ j \in 1..m /\ i = Len(p) + j /\ Len(q) + j \in 1..Len(x) - 1
        BY <1>0, <1>4, <1>5, <1>6, <2>3
      <3> HIDE DEF j
      <3>2. y[Len(p) + j] = x[Len(q) + j] /\ z[Len(p) + j] = f[Len(q) + j] /\ f[Len(q) + j] = x[Len(q) + j]
        BY <1>2, <1>4, <1>5, <3>1
      <3> QED
        BY <2>1, <3>1, <3>2
    <2> QED
      BY <2>2, <2>3
  <1>10. g = z
    BY <1>5, <1>7, <1>8, <1>9, SeqEqual
  <1> QED
    BY <1>1, <1>3, <1>6, <1>10 DEF f, y, z, g

\* A tree with something moved to where it can be is a tree.
LEMMA MoveIs ==
    ASSUME NEW t, IsTree(t), NEW p \in Paths, NEW q \in Paths,
           t[p] # Absent, ~Within(q, p), ~Within(p, q), CanHold(t, q)
    PROVE  IsTree(Move(t, p, q))
  <1> DEFINE new(x) == IF Within(x, q) THEN NodeAt(t, From(p, q, x))
                       ELSE IF Within(x, p) THEN Absent ELSE t[x]
             u == [x \in Paths |-> new(x)]
  <1>0. p \in Seq(STRING) /\ q \in Seq(STRING)
    BY FileTreeAssumption
  <1>1. Move(t, p, q) = u
    BY DEF Move, From
  <1>2. u \in [Paths -> Node] /\ \A x \in Paths : u[x] = new(x)
    BY DEF IsTree, Node, NodeAt
  <1> HIDE DEF u
  <1>3. ASSUME NEW x \in Paths \ {<<>>}, u[x] # Absent PROVE u[Front(x)] = Directory
    <2> DEFINE f == Front(x)
    <2>1. f \in Paths /\ f \in Seq(STRING) /\ x \in Seq(STRING) /\ x # <<>>
      BY FileTreeAssumption
    <2>2. Within(x, f) /\ ~Within(f, x)
      BY <2>1, FrontIs
    <2>3. u[f] = new(f) /\ u[x] = new(x)
      BY <1>2, <2>1
    <2>4. CASE x = q
      <3>1. ~Within(f, q)
        BY <2>2, <2>4
      <3>2. ~Within(f, p)
        BY <1>0, <2>1, <2>2, <2>4, WithinTwice
      <3>3. t[f] = Directory
        BY <2>4 DEF CanHold
      <3> QED
        BY <2>3, <3>1, <3>2, <3>3
    <2>5. CASE Within(x, q) /\ x # q
      <3> DEFINE y == From(p, q, x)
      <3>1. Within(f, q) /\ y # <<>> /\ Front(y) = From(p, q, f)
        BY <1>0, <2>1, <2>5, FromFront
      <3>2. NodeAt(t, y) # Absent
        BY <1>3, <2>3, <2>5
      <3> HIDE DEF y
      <3>3. y \in Paths /\ t[y] # Absent
        BY <3>2 DEF NodeAt
      <3>4. Front(y) \in Paths /\ t[Front(y)] = Directory
        BY <3>1, <3>3, FileTreeAssumption DEF IsTree
      <3>5. NodeAt(t, From(p, q, f)) = Directory
        BY <3>1, <3>4 DEF NodeAt
      <3> QED
        BY <2>3, <3>1, <3>5
    <2>6. CASE ~Within(x, q)
      <3>1. ~Within(x, p) /\ t[x] # Absent
        BY <1>3, <2>3, <2>6
      <3>2. ~Within(f, q) /\ ~Within(f, p)
        BY <1>0, <2>1, <2>2, <2>6, <3>1, WithinTwice
      <3>3. t[f] = Directory
        BY <3>1 DEF IsTree
      <3> QED
        BY <2>3, <3>2, <3>3
    <2> QED
      BY <1>0, <2>4, <2>5, <2>6
  <1> QED
    BY <1>1, <1>2, <1>3 DEF IsTree

-----------------------------------------------------------------------------
(* What there is to see, to look with and to say.                          *)

Entry == [path : Paths, isDir : BOOLEAN]
Item == [kind : {"path"}, path : Paths]
        \cup [kind : {"entry"}, path : Paths, isDir : BOOLEAN, sized : BOOLEAN]
        \cup [kind : {"line"}, path : Paths, number : Nat, text : STRING, hit : BOOLEAN]
        \cup [kind : {"body"}, text : STRING]
NoteSets == {{}, {"stopped"}, {"more"}, {"truncated"}}

\* A walk has entries under its root to visit, and none if it is at its limit.
IsWalk(l) ==
    /\ l \in [kind : {"glob", "grep", "support"}, root : {l.root}, query : {l.query},
              found : Seq(Item), hits : 0..MaxMatches, stopped : BOOLEAN, agenda : Seq(Entry)]
    /\ l.agenda # <<>> => l.root \in Paths /\ l.hits < MaxMatches /\ ~l.stopped
    /\ \A k \in 1..Len(l.agenda) : Within(l.agenda[k].path, l.root)
    /\ l.kind \in {"glob", "grep"} => l.query \in Queries /\ l.query.kind = l.kind
IsList(l) == l \in [kind : {"list"}, root : Paths, entries : Seq(Entry)]
IsPage(l) == l \in [kind : {"page"}, path : Paths, next : Nat \ {0}, got : Seq(Item)]
IsLook(l) == l = NoLook \/ IsWalk(l) \/ IsList(l) \/ IsPage(l)

Results ==
    {NoResult, ToolError, Aborted}
    \cup [kind : {"found"}, items : {s \in Seq(Item) : Len(s) <= MaxOutput}, notes : NoteSets]

\* The tree, and the history of it during a look.
WorldSound ==
    /\ IsTree(tree)
    /\ since \in [Paths -> SUBSET Node]
    /\ missed \subseteq Paths
    /\ changes \in 0..MaxChanges
    /\ interrupted \in BOOLEAN
    /\ Watching => \A p \in Paths : tree[p] \in since[p]
    /\ look.kind # "none" => Watching

Typed == WorldSound /\ IsLook(look) /\ result \in Results

\* Paths are sequences of names, and include the directories above them.
LEMMA PathsAre ==
    /\ <<>> \in Paths /\ Names \in Seq(STRING)
    /\ \A p \in Paths : p \in Seq(STRING)
    /\ \A p \in Paths \ {<<>>} : Front(p) \in Paths
  BY FileTreeAssumption

\* What kind of look it is, is told by its kind.
LEMMA LookIs ==
    ASSUME NEW l, IsLook(l)
    PROVE  /\ l.kind \in {"none", "glob", "grep", "support", "list", "page"}
           /\ l.kind = "none" => l = NoLook
           /\ l.kind \in {"glob", "grep", "support"} => IsWalk(l)
           /\ l.kind = "list" => IsList(l)
           /\ l.kind = "page" => IsPage(l)
  BY DEF IsLook, NoLook, IsWalk, IsList, IsPage

\* What can be at a path; a file is made of lines.
LEMMA NodesAre ==
    /\ Absent # Directory
    /\ Absent \in Node /\ Directory \in Node
    /\ \A n \in Node : IsFile(n) => n.lines \in Seq(STRING)
    /\ \A n \in Node : n.kind = "text" => n.lines \in Seq(STRING) /\ n # Absent /\ n # Directory
  BY DEF Node, Absent, Directory, IsFile

\* Only a place of the tree has something at it.
LEMMA NodeIs ==
    ASSUME IsTree(tree), NEW p
    PROVE  /\ NodeAt(tree, p) # Absent => p \in Paths /\ NodeAt(tree, p) = tree[p]
           /\ NodeAt(tree, p) = Directory => p \in Paths /\ tree[p] = Directory
           /\ IsFile(NodeAt(tree, p)) =>
                 p \in Paths /\ NodeAt(tree, p) = tree[p] /\ tree[p] \in Node /\ IsFile(tree[p])
           /\ NodeAt(tree, p).kind = "text" =>
                 p \in Paths /\ NodeAt(tree, p) = tree[p] /\ tree[p] \in Node /\ tree[p].kind = "text"
  BY DEF NodeAt, Absent, Directory, IsTree, IsFile

\* What truncate makes of a result.
LEMMA FoundIs ==
    ASSUME NEW items \in Seq(Item), NEW notes \in NoteSets
    PROVE  /\ Found(items, notes) \in Results /\ Found(items, notes).kind = "found"
           /\ \/ Found(items, notes).items = items /\ Found(items, notes).notes = notes
              \/ Found(items, notes).notes = {"truncated"}
  <1>1. Cardinality(notes) \in 0..1
    <2>1. Cardinality({}) = 0
      BY FS_EmptySet
    <2>2. \A x : Cardinality({x}) = 1
      BY FS_Singleton
    <2>3. notes = {} \/ \E x : notes = {x}
      BY DEF NoteSets
    <2>4. Cardinality(notes) = 0 \/ Cardinality(notes) = 1
      BY <2>1, <2>2, <2>3, Zenon
    <2> QED
      BY <2>4
  <1>2. MaxOutput \in Nat \ {0} /\ Len(items) \in Nat
    BY SearchAssumption
  <1>3. CASE Len(items) + Cardinality(notes) <= MaxOutput
    <2>1. Len(items) <= MaxOutput
      BY <1>1, <1>2, <1>3
    <2>2. Found(items, notes) = [kind |-> "found", items |-> items, notes |-> notes]
      BY <1>3 DEF Found
    <2> QED
      BY <2>1, <2>2 DEF Results
  <1>4. CASE ~ (Len(items) + Cardinality(notes) <= MaxOutput)
    <2> DEFINE s == SubSeq(items, 1, MaxOutput)
    <2>1. MaxOutput \in 0..Len(items)
      BY <1>1, <1>2, <1>4
    <2>2. s \in Seq(Item) /\ Len(s) = MaxOutput
      BY <2>1, Halves
    <2> HIDE DEF s
    <2>3. Found(items, notes) = [kind |-> "found", items |-> s, notes |-> {"truncated"}]
      BY <1>4 DEF Found, s
    <2>4. Len(s) <= MaxOutput /\ {"truncated"} \in NoteSets
      BY <1>2, <2>2 DEF NoteSets
    <2> QED
      BY <2>2, <2>3, <2>4 DEF Results
  <1> QED
    BY <1>3, <1>4

-----------------------------------------------------------------------------
(* What a step does to the variables of Search.                            *)

\* A step that begins a look keeps the types.
LEMMA BeginKeeps ==
    ASSUME Typed, NEW new, Begin(new), IsLook(new)
    PROVE  Typed'
  <1>1. look' = new /\ result' = NoResult /\ since' = [p \in Paths |-> {tree[p]}] /\ changes' = 0
        /\ missed' = {} /\ tree' = tree /\ interrupted' = interrupted
    BY DEF Begin, Watch
  <1>2. since' \in [Paths -> SUBSET Node] /\ \A p \in Paths : tree[p] \in since'[p]
    BY <1>1 DEF Typed, WorldSound, IsTree
  <1>3. Watching' /\ changes' \in 0..MaxChanges
    BY <1>1, PathsAre, SearchAssumption DEF Watching
  <1>4. WorldSound'
    BY <1>1, <1>2, <1>3 DEF Typed, WorldSound
  <1> QED
    BY <1>1, <1>4 DEF Typed, Results

\* So does one that ends it,
LEMMA EndKeeps ==
    ASSUME Typed, NEW outcome \in Results, End(outcome)
    PROVE  Typed'
  <1>1. look' = NoLook /\ result' = outcome /\ since' = [p \in Paths |-> {}] /\ changes' = 0
        /\ missed' = {} /\ tree' = tree /\ interrupted' = interrupted
    BY DEF End, Unwatch
  <1>2. since' \in [Paths -> SUBSET Node] /\ ~Watching' /\ changes' \in 0..MaxChanges
    BY <1>1, PathsAre, SearchAssumption DEF Watching
  <1>3. IsLook(look') /\ look'.kind = "none"
    BY <1>1 DEF IsLook, NoLook
  <1>4. WorldSound'
    BY <1>1, <1>2, <1>3 DEF Typed, WorldSound
  <1> QED
    BY <1>1, <1>3, <1>4 DEF Typed

\* one that goes on with it, whether or not it can read what it comes to,
LEMMA StepKeeps ==
    ASSUME Typed, look.kind # "none", IsWalk(look'), UNCHANGED <<tree, since, result, interrupted>>,
           missed' \subseteq Paths, changes' \in 0..MaxChanges
    PROVE  Typed'
  <1>1. Watching /\ Watching'
    BY DEF Typed, WorldSound, Watching
  <1>2. WorldSound'
    BY <1>1 DEF Typed, WorldSound
  <1> QED
    BY <1>2 DEF Typed, IsLook

\* and a change by others.
LEMMA ChangedKeeps ==
    ASSUME Typed, NEW new, Changed(new), IsTree(new)
    PROVE  Typed'
  <1>1. /\ Watching /\ changes < MaxChanges /\ tree' = new
        /\ since' = [p \in Paths |-> since[p] \cup {new[p]}]
        /\ changes' = changes + 1 /\ missed' = missed
        /\ look' = look /\ result' = result /\ interrupted' = interrupted
    BY DEF Changed
  <1>2. since' \in [Paths -> SUBSET Node] /\ \A p \in Paths : new[p] \in since'[p]
    BY <1>1 DEF Typed, WorldSound, IsTree
  <1>3. changes' \in 0..MaxChanges
    BY <1>1, SearchAssumption DEF Typed, WorldSound
  <1>4. Watching'
    BY <1>1, <1>2, PathsAre DEF Watching
  <1>5. WorldSound'
    BY <1>1, <1>2, <1>3, <1>4 DEF Typed, WorldSound
  <1> QED
    BY <1>1, <1>5 DEF Typed

\* Others interrupt, or change the tree into another one.
LEMMA OthersAre ==
    ASSUME Typed, Others
    PROVE  Interrupt \/ \E new : IsTree(new) /\ Changed(new)
  <1>0. IsTree(tree) /\ Changeable \subseteq Paths /\ Movable \subseteq Paths
        /\ Contents \in [Changeable -> SUBSET Node]
    BY SearchAssumption DEF Typed, WorldSound
  <1>1. ASSUME NEW p \in Changeable, OtherWrites(p) PROVE \E new : IsTree(new) /\ Changed(new)
    <2>1. PICK node \in Contents[p] :
             /\ CanHold(tree, p)
             /\ IF node = Directory THEN tree[p] = Absent ELSE tree[p] # Directory
             /\ Changed(Put(tree, p, node))
      BY <1>1 DEF OtherWrites
    <2>2. p \in Paths /\ node \in Node
      BY <1>0
    <2>3. IsTree(Put(tree, p, node))
      BY <1>0, <2>1, <2>2, PutIs
    <2> QED
      BY <2>1, <2>3
  <1>2. ASSUME NEW p \in Changeable, OtherRemoves(p) PROVE \E new : IsTree(new) /\ Changed(new)
    <2>1. p \in Paths /\ Changed(Unlink(tree, p))
      BY <1>0, <1>2 DEF OtherRemoves
    <2>2. IsTree(Unlink(tree, p))
      BY <1>0, <2>1, UnlinkIs
    <2> QED
      BY <2>1, <2>2
  <1>3. ASSUME NEW p \in Movable, NEW q \in Movable, OtherRenames(p, q)
        PROVE  \E new : IsTree(new) /\ Changed(new)
    <2>1. /\ p \in Paths /\ q \in Paths /\ tree[p] # Absent /\ ~Within(q, p) /\ ~Within(p, q)
          /\ CanHold(tree, q) /\ Changed(Move(tree, p, q))
      BY <1>0, <1>3 DEF OtherRenames
    <2>2. IsTree(Move(tree, p, q))
      BY <1>0, <2>1, MoveIs
    <2> QED
      BY <2>1, <2>2
  <1> QED
    BY <1>1, <1>2, <1>3 DEF Others

-----------------------------------------------------------------------------
(* Walks.                                                                  *)

-----------------------------------------------------------------------------
(* What is in a directory.                                                *)

\* What ReadDir says of a directory.
LEMMA SeenInIs ==
    ASSUME IsTree(tree), NEW d \in Paths
    PROVE  /\ SeenIn(d) \in Seq(Entry)
           /\ \A k \in 1..Len(SeenIn(d)) :
                 LET e == SeenIn(d)[k] IN
                 /\ e = Seen(e.path) /\ tree[e.path] # Absent
                 /\ e.path # <<>> /\ Front(e.path) = d /\ Within(e.path, d)
           /\ \A c \in Paths \ {<<>>} : Front(c) = d /\ tree[c] # Absent =>
                 \E k \in 1..Len(SeenIn(d)) : SeenIn(d)[k] = Seen(c)
  <1> DEFINE r == ReadDir(tree, d)
             s == [k \in DOMAIN r |-> Seen(r[k])]
  <1>1. /\ r \in Seq(Paths)
        /\ \A k \in 1..Len(r) :
              tree[r[k]] # Absent /\ r[k] # <<>> /\ Front(r[k]) = d /\ Within(r[k], d)
        /\ \A c \in Paths \ {<<>>} : Front(c) = d /\ tree[c] # Absent =>
              \E k \in 1..Len(r) : r[k] = c
    BY ReadDirIs
  <1>2. SeenIn(d) = s
    BY DEF SeenIn
  <1> HIDE DEF r
  <1>3. s = [k \in 1..Len(r) |-> Seen(r[k])] /\ Len(r) \in Nat
    BY <1>1
  <1> HIDE DEF s
  <1>4. \A p \in Paths : Seen(p) \in Entry /\ Seen(p).path = p
    BY DEF Seen, Entry
  <1>5. \A k \in 1..Len(r) : r[k] \in Paths
    BY <1>1
  <1>6. s \in Seq(Entry) /\ Len(s) = Len(r) /\ \A k \in 1..Len(r) : s[k] = Seen(r[k])
    BY <1>3, <1>4, <1>5
  <1>7. \A k \in 1..Len(r) : s[k].path = r[k]
    BY <1>4, <1>5, <1>6
  <1>8. \A k \in 1..Len(r) :
           /\ s[k] = Seen(s[k].path) /\ tree[s[k].path] # Absent
           /\ s[k].path # <<>> /\ Front(s[k].path) = d /\ Within(s[k].path, d)
    BY <1>1, <1>6, <1>7
  <1>9. \A c \in Paths \ {<<>>} : Front(c) = d /\ tree[c] # Absent => \E k \in 1..Len(r) : s[k] = Seen(c)
    <2>1. ASSUME NEW c \in Paths \ {<<>>}, Front(c) = d, tree[c] # Absent
          PROVE  \E k \in 1..Len(r) : s[k] = Seen(c)
      <3>1. PICK k \in 1..Len(r) : r[k] = c
        BY <1>1, <2>1
      <3> QED
        BY <1>6, <3>1
    <2> QED
      BY <2>1
  <1> QED
    BY <1>2, <1>6, <1>8, <1>9

\* The entry at the head of the agenda, and those behind it.
LEMMA AgendaIs ==
    ASSUME NEW l, IsWalk(l), l.agenda # <<>>
    PROVE  /\ Head(l.agenda) \in Entry /\ Head(l.agenda).path \in Paths
           /\ l.root \in Paths /\ l.hits \in 0..MaxMatches /\ l.hits < MaxMatches /\ ~l.stopped
           /\ Within(Head(l.agenda).path, l.root)
           /\ Tail(l.agenda) \in Seq(Entry) /\ Len(l.agenda) = Len(Tail(l.agenda)) + 1
           /\ \A k \in 1..Len(Tail(l.agenda)) : Tail(l.agenda)[k] = l.agenda[k + 1]
           /\ \A k \in 1..Len(Tail(l.agenda)) : Within(Tail(l.agenda)[k].path, l.root)
           /\ Head(l.agenda) = l.agenda[1]
  <1> DEFINE a == l.agenda
  <1>1. a \in Seq(Entry) /\ a # <<>> /\ l.root \in Paths /\ l.hits \in 0..MaxMatches /\ l.hits < MaxMatches
        /\ ~l.stopped
        /\ \A k \in 1..Len(a) : Within(a[k].path, l.root)
    BY DEF IsWalk
  <1> HIDE DEF a
  <1>2. Head(a) \in Entry /\ Head(a) = a[1] /\ 1 \in 1..Len(a)
    BY <1>1
  <1>3. Tail(a) \in Seq(Entry) /\ Len(a) = Len(Tail(a)) + 1 /\ Len(Tail(a)) \in Nat
        /\ \A k \in 1..Len(Tail(a)) : Tail(a)[k] = a[k + 1]
    BY <1>1
  <1>4. \A k \in 1..Len(Tail(a)) : Within(Tail(a)[k].path, l.root)
    BY <1>1, <1>3
  <1>5. Head(a).path \in Paths
    BY <1>2 DEF Entry
  <1> QED
    BY <1>1, <1>2, <1>3, <1>4, <1>5 DEF a

\* One more file of a walk.
LEMMA VisitedIs ==
    ASSUME IsWalk(look), look.agenda # <<>>, NEW more \in Seq(Item), NEW hits \in Nat,
           NEW stopped \in BOOLEAN, look.hits + hits <= MaxMatches,
           look.hits + hits = MaxMatches => stopped
    PROVE  /\ IsWalk(Visited(more, hits, stopped))
           /\ Visited(more, hits, stopped).kind = look.kind
           /\ Visited(more, hits, stopped).root = look.root
           /\ Visited(more, hits, stopped).query = look.query
           /\ Visited(more, hits, stopped).found = look.found \o more
           /\ Visited(more, hits, stopped).stopped = stopped
           /\ Visited(more, hits, stopped).agenda = IF stopped THEN <<>> ELSE Tail(look.agenda)
  <1> DEFINE a == IF stopped THEN <<>> ELSE Tail(look.agenda)
             f == look.found \o more
             h == look.hits + hits
             v == [look EXCEPT !.found = f, !.hits = h, !.stopped = stopped, !.agenda = a]
  <1>1. Visited(more, hits, stopped) = v
    BY DEF Visited
  <1>2. /\ look \in [kind : {"glob", "grep", "support"}, root : {look.root}, query : {look.query},
                     found : Seq(Item), hits : 0..MaxMatches, stopped : BOOLEAN, agenda : Seq(Entry)]
        /\ look.kind \in {"glob", "grep"} => look.query \in Queries /\ look.query.kind = look.kind
    BY DEF IsWalk
  <1>3. a \in Seq(Entry) /\ \A k \in 1..Len(a) : Within(a[k].path, look.root)
    BY AgendaIs
  <1>4. f \in Seq(Item)
    BY <1>2, ConcatProperties
  <1>5. h \in 0..MaxMatches /\ look.root \in Paths /\ (a # <<>> => h < MaxMatches /\ ~stopped)
    <2>1. MaxMatches \in Nat
      BY SearchAssumption
    <2>2. look.root \in Paths /\ look.hits \in 0..MaxMatches
      BY AgendaIs
    <2> DEFINE m == look.hits
    <2>3. m \in 0..MaxMatches /\ m + hits <= MaxMatches /\ (m + hits = MaxMatches => stopped)
      BY <2>2
    <2>4. h = m + hits
      OBVIOUS
    <2>5. a # <<>> => ~stopped
      OBVIOUS
    <2> HIDE DEF m, h, a
    <2> QED
      BY <2>1, <2>2, <2>3, <2>4, <2>5
  <1> HIDE DEF a, f, h
  <1>6. /\ v \in [kind : {"glob", "grep", "support"}, root : {look.root}, query : {look.query},
                  found : Seq(Item), hits : 0..MaxMatches, stopped : BOOLEAN, agenda : Seq(Entry)]
        /\ v.kind = look.kind /\ v.root = look.root /\ v.query = look.query /\ v.found = f
        /\ v.hits = h /\ v.stopped = stopped /\ v.agenda = a
    BY <1>2, <1>3, <1>4, <1>5
  <1> HIDE DEF v
  <1>7. IsWalk(v)
    BY <1>2, <1>3, <1>5, <1>6 DEF IsWalk
  <1> QED
    BY <1>1, <1>6, <1>7 DEF a, f

-----------------------------------------------------------------------------
(* What is shown of a file.                                                *)

\* An item shows a file as node of that path.
Shows(item, p, node, query) ==
    /\ item.path = p
    /\ item.kind = "line" =>
          /\ node.kind = "text"
          /\ item.number \in DOMAIN node.lines
          /\ item.text = node.lines[item.number]
          /\ item.hit => item.text \in query.expression

\* The lines a grep is to show.
Around(query, lines) ==
    {k \in DOMAIN lines : \E i \in DOMAIN lines :
         lines[i] \in query.expression /\ k \in (i - query.around)..(i + query.around)}

ShowsLine(items, p, k, text) ==
    \E j \in 1..Len(items), hit \in BOOLEAN : items[j] = LineItem(p, k, text, hit)

\* Items say everything about a file as node of that path.
Tell(items, p, node, query, root) ==
    GlobMatches(query.glob, Relative(root, p)) =>
       /\ query.kind = "glob" => \E j \in 1..Len(items) : items[j] = PathItem(p)
       /\ query.kind = "grep" /\ node.kind = "text" =>
             \A k \in Around(query, node.lines) : ShowsLine(items, p, k, node.lines[k])

\* What was said stays said.
LEMMA TellMore ==
    ASSUME NEW a \in Seq(Item), NEW b \in Seq(Item), NEW p, NEW node, NEW query, NEW root,
           Tell(a, p, node, query, root) \/ Tell(b, p, node, query, root)
    PROVE  Tell(a \o b, p, node, query, root)
  <1> DEFINE c == a \o b
  <1>1. /\ c \in Seq(Item) /\ Len(a) \in Nat /\ Len(b) \in Nat /\ Len(c) = Len(a) + Len(b)
        /\ \A i \in 1..Len(a) : c[i] = a[i]
    BY ConcatProperties
  <1>2. \A i \in 1..Len(b) : Len(a) + i \in 1..Len(c) /\ c[Len(a) + i] = b[i]
    <2>1. ASSUME NEW i \in 1..Len(b) PROVE c[Len(a) + i] = b[i] /\ Len(a) + i \in 1..Len(c)
      <3>1. Len(a) + i \in 1..Len(a) + Len(b) /\ ~ (Len(a) + i <= Len(a)) /\ (Len(a) + i) - Len(a) = i
        BY <1>1
      <3> QED
        BY <1>1, <3>1, ConcatProperties
    <2> QED
      BY <2>1
  <1> HIDE DEF c
  <1>3. \A x : (\E j \in 1..Len(a) : a[j] = x) \/ (\E j \in 1..Len(b) : b[j] = x)
                  => \E j \in 1..Len(c) : c[j] = x
    <2>1. \A x : (\E j \in 1..Len(a) : a[j] = x) => \E j \in 1..Len(c) : c[j] = x
      <3>1. \A j \in 1..Len(a) : j \in 1..Len(c)
        BY <1>1
      <3> QED
        BY <1>1, <3>1
    <2>2. \A x : (\E j \in 1..Len(b) : b[j] = x) => \E j \in 1..Len(c) : c[j] = x
      BY <1>2
    <2> QED
      BY <2>1, <2>2
  <1>4. \A k, text : ShowsLine(a, p, k, text) \/ ShowsLine(b, p, k, text) => ShowsLine(c, p, k, text)
    BY <1>3 DEF ShowsLine
  <1>5. CASE Tell(a, p, node, query, root)
    BY <1>3, <1>4, <1>5 DEF Tell, c
  <1>6. CASE Tell(b, p, node, query, root)
    BY <1>3, <1>4, <1>6 DEF Tell, c
  <1> QED
    BY <1>5, <1>6

\* The lines of a file around one that matches.
Shown(p, lines, query) ==
    {item \in Item : /\ item.kind = "line" /\ item.path = p
                     /\ item.number \in 1..Len(lines) /\ item.text = lines[item.number]
                     /\ item.hit => item.text \in query.expression}

\* The item that shows a line.
LEMMA LineItemIs ==
    ASSUME NEW p \in Paths, NEW n \in Nat, NEW text \in STRING, NEW hit \in BOOLEAN
    PROVE  /\ LineItem(p, n, text, hit) \in Item
           /\ LineItem(p, n, text, hit).kind = "line" /\ LineItem(p, n, text, hit).path = p
           /\ LineItem(p, n, text, hit).number = n /\ LineItem(p, n, text, hit).text = text
           /\ LineItem(p, n, text, hit).hit = hit
  BY DEF LineItem, Item

\* The lines around one that matches are shown, each as it is in the file.
LEMMA WindowIs ==
    ASSUME NEW p \in Paths, NEW lines \in Seq(STRING), NEW at \in 1..Len(lines),
           look.query.around \in Nat, lines[at] \in look.query.expression
    PROVE  /\ Window(p, lines, at) \in Seq(Shown(p, lines, look.query))
           /\ \A k \in 1..Len(lines) :
                 k \in (at - look.query.around)..(at + look.query.around)
                    => ShowsLine(Window(p, lines, at), p, k, lines[k])
  <1> DEFINE r == look.query.around
             n == Len(lines)
             lo == Max({1, at - r})
             hi == Min({n, at + r})
             m == hi - lo + 1
             w == [k \in 1..m |-> LineItem(p, lo + k - 1, lines[lo + k - 1], lo + k - 1 = at)]
  <1>1. Window(p, lines, at) = w
    BY DEF Window
  <1>2. n \in Nat /\ r \in Nat /\ at \in 1..n /\ at - r \in Int /\ at + r \in Int
    OBVIOUS
  <1>3. /\ lo \in {1, at - r} /\ 1 <= lo /\ at - r <= lo
        /\ hi \in {n, at + r} /\ hi <= n /\ hi <= at + r
    <2> DEFINE a == at - r
               b == at + r
    <2>1. a \in Int /\ b \in Int /\ n \in Int /\ 1 \in Int
      BY <1>2
    <2> HIDE DEF r, n, a, b
    <2>2. Max({1, a}) \in {1, a} /\ 1 <= Max({1, a}) /\ a <= Max({1, a})
      BY <2>1, TwoIs
    <2>3. Min({n, b}) \in {n, b} /\ Min({n, b}) <= n /\ Min({n, b}) <= b
      BY <2>1, TwoIs
    <2> QED
      BY <2>2, <2>3 DEF a, b
  <1> HIDE DEF r, n, lo, hi
  <1>4. lo \in 1..at /\ hi \in at..n /\ m \in Nat
    BY <1>2, <1>3
  <1>5. \A k \in 1..m : lo + k - 1 \in 1..n
    BY <1>2, <1>4
  <1>6. \A i \in 1..n : lines[i] \in STRING
    BY DEF n
  <1> HIDE DEF m
  <1>7. \A k \in 1..m : w[k] \in Shown(p, lines, look.query)
    <2>1. ASSUME NEW k \in 1..m PROVE w[k] \in Shown(p, lines, look.query)
      <3> DEFINE i == lo + k - 1
                 hit == i = at
      <3>1. i \in 1..n /\ i \in Nat /\ lines[i] \in STRING /\ hit \in BOOLEAN
        BY <1>5, <1>6
      <3>2. w[k] = LineItem(p, i, lines[i], hit)
        OBVIOUS
      <3>3. hit => lines[i] \in look.query.expression
        OBVIOUS
      <3> DEFINE text == lines[i]
                 item == LineItem(p, i, text, hit)
      <3>4. text \in STRING /\ i \in Nat
        BY <3>1
      <3> HIDE DEF i, hit, w, text
      <3>5. /\ item \in Item /\ item.kind = "line" /\ item.path = p /\ item.number = i
            /\ item.text = text /\ item.hit = hit
        BY <3>1, <3>4, LineItemIs
      <3> HIDE DEF item
      <3> QED
        BY <3>1, <3>2, <3>3, <3>5 DEF Shown, n, text, item
    <2> QED
      BY <2>1
  <1>8. w \in Seq(Shown(p, lines, look.query)) /\ Len(w) = m
    BY <1>4, <1>7
  <1>9. ASSUME NEW k \in 1..n, k \in (at - r)..(at + r) PROVE ShowsLine(w, p, k, lines[k])
    <2> DEFINE j == k - lo + 1
    <2>1. j \in 1..m /\ lo + j - 1 = k
      BY <1>2, <1>3, <1>4, <1>9 DEF m
    <2> HIDE DEF j
    <2>2. w[j] = LineItem(p, k, lines[k], k = at)
      BY <2>1
    <2> HIDE DEF w
    <2>3. (k = at) \in BOOLEAN
      OBVIOUS
    <2> QED
      BY <1>8, <2>1, <2>2, <2>3 DEF ShowsLine
  <1> HIDE DEF w
  <1> QED
    BY <1>1, <1>8, <1>9 DEF n, r

-----------------------------------------------------------------------------
(* One more file of a search.                                              *)

\* A step of a walk shows what there is now of the file it visits, and all of
\* it if the walk goes on.
VisitsFile(more, hits, stopped) ==
    LET p == Visiting.path IN
    /\ more \in Seq(Item) /\ hits \in Nat /\ stopped \in BOOLEAN
    /\ look.hits + hits <= MaxMatches
    /\ look.hits + hits = MaxMatches => stopped
    /\ look' = Visited(more, hits, stopped)
    /\ \A j \in 1..Len(more) : Shows(more[j], p, tree[p], look.query)
    /\ ~stopped => Tell(more, p, tree[p], look.query, look.root)

\* What is known of a walk that goes on.
LEMMA WalkingIs ==
    ASSUME Typed, Walking
    PROVE  /\ IsWalk(look)
           /\ Heeding => look.query \in Queries /\ look.query.kind = look.kind /\ look.query.around \in Nat
  <1>1. IsWalk(look)
    BY LookIs DEF Typed, Walking
  <1>2. Heeding => look.query \in Queries /\ look.query.kind = look.kind
    BY <1>1 DEF IsWalk, Heeding
  <1> QED
    BY <1>1, <1>2, SearchAssumption

\* glob visits a file: if its path matches it is among what is found.
LEMMA GlobFileIs ==
    ASSUME Typed, GlobFile
    PROVE  \E more, hits, stopped : VisitsFile(more, hits, stopped)
  <1> DEFINE p == Visiting.path
             matches == GlobMatches(look.query.glob, Relative(look.root, p))
             more == IF matches THEN <<PathItem(p)>> ELSE <<>>
             stopped == look.hits + Len(more) >= MaxMatches
  <1>1. /\ Walking /\ Heeding /\ look.kind = "glob" /\ look.agenda # <<>>
        /\ look' = Visited(more, Len(more), stopped)
    BY DEF GlobFile, Going, Heeding
  <1>2. IsWalk(look) /\ look.query.kind = "glob"
    BY <1>1, WalkingIs
  <1>3. p \in Paths /\ look.hits \in 0..MaxMatches /\ look.hits < MaxMatches
    BY <1>1, <1>2, AgendaIs DEF Visiting
  <1>4. PathItem(p) \in Item /\ PathItem(p).kind = "path" /\ PathItem(p).path = p
    BY <1>3 DEF PathItem, Item
  <1> DEFINE item == PathItem(p)
  <1> HIDE DEF p, item
  <1>5. more \in Seq(Item) /\ Len(more) \in 0..1 /\ (matches => Len(more) = 1 /\ more[1] = item)
        /\ (~matches => Len(more) = 0)
    <2> HIDE DEF matches
    <2>1. CASE matches
      <3>1. more = <<item>>
        BY <2>1 DEF item, p
      <3> QED
        BY <1>4, <2>1, <3>1 DEF item
    <2>2. CASE ~matches
      <3>1. more = <<>>
        BY <2>2
      <3> QED
        BY <2>2, <3>1
    <2> QED
      BY <2>1, <2>2
  <1> HIDE DEF more, matches
  <1>6. \A j \in 1..Len(more) : Shows(more[j], p, tree[p], look.query)
    <2>1. ASSUME NEW j \in 1..Len(more) PROVE Shows(more[j], p, tree[p], look.query)
      <3>1. more[j] = item
        BY <1>5
      <3> QED
        BY <1>4, <3>1 DEF Shows, item
    <2> QED
      BY <2>1
  <1>7. Tell(more, p, tree[p], look.query, look.root)
    <2>1. matches => \E j \in 1..Len(more) : more[j] = PathItem(p)
      <3>1. matches => 1 \in 1..Len(more) /\ more[1] = item
        BY <1>5
      <3>2. item = PathItem(p)
        BY DEF item
      <3> QED
        BY <3>1, <3>2
    <2> QED
      BY <1>2, <2>1 DEF Tell, matches
  <1>8. /\ Len(more) \in Nat /\ look.hits + Len(more) <= MaxMatches
        /\ (look.hits + Len(more) = MaxMatches => stopped) /\ stopped \in BOOLEAN
    <2> DEFINE h == look.hits
               n == Len(more)
    <2>1. h \in Nat /\ n \in 0..1 /\ MaxMatches \in Nat /\ h < MaxMatches
      BY <1>3, <1>5, SearchAssumption
    <2> HIDE DEF h, n
    <2>2. n \in Nat /\ h + n <= MaxMatches /\ (h + n = MaxMatches => h + n >= MaxMatches)
      BY <2>1
    <2> QED
      BY <2>2 DEF h, n
  <1> HIDE DEF stopped
  <1>9. VisitsFile(more, Len(more), stopped)
    BY <1>1, <1>5, <1>6, <1>7, <1>8 DEF VisitsFile, p
  <1> QED
    BY <1>9

\* The lines of a file that match, in order.
LEMMA MatchingIs ==
    ASSUME NEW lines \in Seq(STRING), NEW expression
    PROVE  LET m == MatchingLines(lines, expression) IN
           /\ m \in Seq(1..Len(lines))
           /\ \A k \in 1..Len(m) : lines[m[k]] \in expression
           /\ \A i \in 1..Len(lines) : lines[i] \in expression => \E k \in 1..Len(m) : m[k] = i
  <1> DEFINE M == {k \in DOMAIN lines : lines[k] \in expression}
             n == Cardinality(M)
             s == Ascending(M)
  <1>1. IsFiniteSet(M) /\ M \subseteq Nat /\ M \subseteq 1..Len(lines)
    <2>1. Len(lines) \in Nat /\ DOMAIN lines = 1..Len(lines)
      OBVIOUS
    <2> DEFINE I == 1..Len(lines)
    <2>2. IsFiniteSet(I) /\ I \subseteq Nat /\ M \subseteq I
      BY <2>1, FS_Interval
    <2> HIDE DEF I, M
    <2>3. IsFiniteSet(M)
      BY <2>2, FS_Subset
    <2> QED
      BY <2>2, <2>3 DEF I
  <1>2. \A k \in M : lines[k] \in expression
    OBVIOUS
  <1>3. \A i \in 1..Len(lines) : lines[i] \in expression => i \in M
    OBVIOUS
  <1> HIDE DEF M
  <1>4. n \in Nat /\ s \in [1..n -> M] /\ \A x \in M : \E k \in 1..n : s[k] = x
    BY <1>1, AscendingIs
  <1> HIDE DEF n, s
  <1>5. s \in Seq(1..Len(lines)) /\ Len(s) = n
    <2> DEFINE I == 1..Len(lines)
    <2>1. M \subseteq I
      BY <1>1
    <2> HIDE DEF I
    <2>2. s \in [1..n -> I]
      BY <1>4, <2>1
    <2>3. s \in Seq(I) /\ Len(s) = n
      BY <1>4, <2>2
    <2> QED
      BY <2>3 DEF I
  <1>6. \A k \in 1..n : lines[s[k]] \in expression
    BY <1>2, <1>4
  <1>7. \A i \in 1..Len(lines) : lines[i] \in expression => \E k \in 1..n : s[k] = i
    BY <1>3, <1>4
  <1>8. MatchingLines(lines, expression) = s
    BY DEF MatchingLines, s, M
  <1> QED
    BY <1>5, <1>6, <1>7, <1>8

\* grep visits a file: each line that matches is among what is found, with the
\* lines around it, unless the walk is stopped.
LEMMA GrepFileIs ==
    ASSUME Typed, GrepFile
    PROVE  \E more, hits, stopped : VisitsFile(more, hits, stopped)
  <1> DEFINE p == Visiting.path
             lines == tree[p].lines
             query == look.query
             matches == GlobMatches(query.glob, Relative(look.root, p))
             searched == matches /\ tree[p].kind = "text"
             places == IF searched THEN MatchingLines(lines, query.expression) ELSE <<>>
             room == MaxMatches - look.hits
             n == Min({room, Len(places)})
             taken == SubSeq(places, 1, n)
             q == [k \in DOMAIN taken |-> Window(p, lines, taken[k])]
             more == FlattenSeq(q)
             stopped == Len(places) >= room
             I == 1..Len(lines)
             S == Shown(p, lines, query)
  <1>1. /\ Walking /\ Heeding /\ look.kind = "grep" /\ look.agenda # <<>>
        /\ look' = Visited(more, Len(taken), stopped)
    BY DEF GrepFile, Going, Heeding
  <1>2. IsWalk(look) /\ query.kind = "grep" /\ query.around \in Nat
    BY <1>1, WalkingIs
  <1>3. p \in Paths /\ look.hits \in 0..MaxMatches /\ look.hits < MaxMatches
    BY <1>1, <1>2, AgendaIs DEF Visiting
  <1>4. tree[p].kind = "text" => lines \in Seq(STRING)
    BY <1>3, NodesAre DEF Typed, WorldSound, IsTree
  <1>5. /\ places \in Seq(I)
        /\ searched => /\ \A k \in 1..Len(places) : lines[places[k]] \in query.expression
                       /\ \A i \in I : lines[i] \in query.expression => \E k \in 1..Len(places) : places[k] = i
        /\ ~searched => Len(places) = 0
    <2>1. CASE searched
      <3> DEFINE x == query.expression
      <3>1. places = MatchingLines(lines, x) /\ lines \in Seq(STRING)
        BY <1>4, <2>1
      <3> HIDE DEF places, lines, query, searched, x
      <3>2. /\ places \in Seq(I)
            /\ \A k \in 1..Len(places) : lines[places[k]] \in x
            /\ \A i \in I : lines[i] \in x => \E k \in 1..Len(places) : places[k] = i
        BY <3>1, MatchingIs
      <3> QED
        BY <2>1, <3>2 DEF x
    <2>2. CASE ~searched
      <3>1. places = <<>>
        BY <2>2
      <3> HIDE DEF places
      <3> QED
        BY <2>2, <3>1
    <2> QED
      BY <2>1, <2>2
  <1>6. room \in Nat \ {0} /\ look.hits + room = MaxMatches
    <2>1. MaxMatches \in Nat
      BY SearchAssumption
    <2> QED
      BY <1>3, <2>1
  <1>7. Len(places) \in Nat
    <2> HIDE DEF places, I
    <2> QED
      BY <1>5
  <1> HIDE DEF places, searched, matches, room, lines, p, I
  <1>8. n \in 0..Len(places) /\ n <= room /\ (n = room <=> Len(places) >= room)
        /\ (Len(places) < room => n = Len(places))
    <2> DEFINE m == Len(places)
    <2>1. m \in Int /\ room \in Int
      BY <1>6, <1>7
    <2>2. n = Min({room, m})
      OBVIOUS
    <2> HIDE DEF m, n
    <2>3. n \in {room, m} /\ n <= room /\ n <= m
      BY <2>1, <2>2, TwoIs
    <2>4. m \in Nat /\ room \in Nat
      BY <1>6, <1>7 DEF m
    <2>5. n \in 0..m /\ (n = room <=> m >= room) /\ (m < room => n = m)
      BY <2>3, <2>4
    <2> QED
      BY <2>3, <2>5 DEF m
  <1> HIDE DEF n
  <1>9. taken \in Seq(I) /\ Len(taken) = n /\ \A k \in 1..n : taken[k] = places[k]
    <2>1. taken \in Seq(I) /\ Halved(places, n)
      BY <1>5, <1>8, Halving
    <2> QED
      BY <2>1 DEF Halved
  <1> HIDE DEF taken
  <1>10. ASSUME NEW k \in 1..n
         PROVE  /\ Window(p, lines, taken[k]) \in Seq(S)
                /\ \A i \in I : i \in (taken[k] - query.around)..(taken[k] + query.around)
                      => ShowsLine(Window(p, lines, taken[k]), p, i, lines[i])
    <2> DEFINE at == taken[k]
    <2>1. searched /\ k \in 1..Len(places)
      BY <1>5, <1>7, <1>8
    <2>2. lines \in Seq(STRING)
      BY <1>4, <2>1 DEF searched
    <2>3. at \in I /\ lines[at] \in query.expression
      BY <1>5, <1>9, <2>1
    <2> HIDE DEF at
    <2> QED
      BY <1>2, <1>3, <2>2, <2>3, WindowIs DEF I, at
  <1>11. q \in Seq(Seq(S)) /\ Len(q) = n /\ \A k \in 1..n : q[k] = Window(p, lines, taken[k])
    <2>1. q = [k \in 1..n |-> Window(p, lines, taken[k])] /\ n \in Nat
      BY <1>7, <1>8, <1>9
    <2> HIDE DEF q, S
    <2> QED
      BY <1>10, <2>1
  <1>12. more \in Seq(S)
    <2> HIDE DEF q, S
    <2> QED
      BY <1>11, FlattenTyped
  <1>13. S \subseteq Item /\ \A item \in S : tree[p].kind = "text" => Shows(item, p, tree[p], query)
    BY <1>4 DEF Shown, Shows, lines
  <1>14. more \in Seq(Item) /\ \A j \in 1..Len(more) : more[j] \in S
    <2> HIDE DEF more, S
    <2> QED
      BY <1>12, <1>13
  <1>15. \A j \in 1..Len(more) : Shows(more[j], p, tree[p], query)
    <2>1. CASE searched
      <3> HIDE DEF more, S
      <3> QED
        BY <1>13, <1>14, <2>1 DEF searched
    <2>2. CASE ~searched
      <3>1. n = 0
        BY <1>5, <1>8, <2>2
      <3>2. q = <<>>
        BY <1>11, <3>1
      <3>3. more = <<>>
        BY <3>2 DEF FlattenSeq
      <3> HIDE DEF more
      <3> QED
        BY <3>3
    <2> QED
      BY <2>1, <2>2
  <1>16. ASSUME ~stopped PROVE Tell(more, p, tree[p], query, look.root)
    <2>1. n = Len(places)
      BY <1>6, <1>7, <1>8, <1>16
    <2>2. ASSUME searched, NEW i \in Around(query, lines) PROVE ShowsLine(more, p, i, lines[i])
      <3>1. lines \in Seq(STRING)
        BY <1>4, <2>2 DEF searched
      <3>2. PICK a \in I : i \in I /\ lines[a] \in query.expression
                            /\ i \in (a - query.around)..(a + query.around)
        BY <2>2, <3>1 DEF Around, I
      <3>3. PICK k \in 1..n : taken[k] = a
        BY <1>5, <1>9, <2>1, <2>2, <3>2
      <3>4. ShowsLine(q[k], p, i, lines[i]) /\ q[k] \in Seq(S)
        BY <1>10, <1>11, <3>2, <3>3
      <3>5. PICK j \in 1..Len(q[k]), hit \in BOOLEAN : q[k][j] = LineItem(p, i, lines[i], hit)
        BY <3>4 DEF ShowsLine
      <3>6. \E m \in 1..Len(more) : more[m] = q[k][j]
        <4> HIDE DEF q, S
        <4> QED
          BY <1>11, <3>5, FlattenHas
      <3> HIDE DEF more, q
      <3> QED
        BY <3>5, <3>6 DEF ShowsLine
    <2>3. Around(query, tree[p].lines) = Around(query, lines)
      BY DEF lines
    <2> HIDE DEF more
    <2> QED
      BY <1>2, <2>2, <2>3 DEF Tell, matches, searched, lines
  <1>17. /\ Len(taken) \in Nat /\ look.hits + Len(taken) <= MaxMatches
         /\ (look.hits + Len(taken) = MaxMatches => stopped) /\ stopped \in BOOLEAN
    <2> DEFINE h == look.hits
    <2>1. h \in Nat /\ n \in Nat /\ room \in Nat /\ n <= room /\ h + room = MaxMatches
      BY <1>3, <1>6, <1>7, <1>8
    <2> HIDE DEF h
    <2>2. h + n <= MaxMatches /\ (h + n = MaxMatches => n = room)
      BY <2>1
    <2> QED
      BY <1>8, <1>9, <2>1, <2>2 DEF h
  <1> HIDE DEF stopped, more
  <1>18. VisitsFile(more, Len(taken), stopped)
    BY <1>1, <1>14, <1>15, <1>16, <1>17 DEF VisitsFile, p
  <1> QED
    BY <1>18

-----------------------------------------------------------------------------
(* What a look relies on.                                                  *)

FilesWereSeen ==
    Heeding => \A k \in 1..Len(look.agenda) :
                  ~look.agenda[k].isDir => \E node \in since[look.agenda[k].path] : IsFile(node)

\* An item of what has been found, and a file that has been under its path.
WasThere(item) ==
    item.path \in Paths /\ \E node \in since[item.path] :
                              IsFile(node) /\ Shows(item, item.path, node, look.query)
FoundWasThere == Heeding => \A j \in 1..Len(look.found) : WasThere(look.found[j])

\* The path is still to come: it is on the agenda, or something above it is.
Pending(agenda, p) ==
    \E k \in 1..Len(agenda) : /\ Within(p, agenda[k].path)
                              /\ agenda[k].isDir <=> agenda[k].path # p

Sought(p) ==
    /\ Steady(p) /\ IsFile(tree[p])
    /\ Within(p, look.root) /\ p # look.root /\ ~Hidden(look.root, p)

NothingLost ==
    Heeding /\ ~look.stopped =>
        \A p \in Paths : Sought(p) =>
            Pending(look.agenda, p) \/ Tell(look.found, p, tree[p], look.query, look.root)

ListIsWhole ==
    look.kind = "list" =>
        \A p \in Paths \ {<<>>} : Steady(p) /\ Front(p) = look.root /\ tree[p] # Absent =>
            \E k \in 1..Len(look.entries) : look.entries[k] = Seen(p)

PagesGoOn ==
    look.kind = "page" =>
        LET p == look.path
            lines == tree[p].lines
        IN /\ result.kind = "found"
           /\ Steady(p) =>
                 /\ tree[p].kind = "text"
                 /\ result.notes = {} => look.got = Lines(p, lines, 1, Len(lines))
                 /\ result.notes = {"more"} => /\ look.next \in 2..Len(lines)
                                               /\ look.got = Lines(p, lines, 1, look.next - 1)

SearchInv ==
    Typed /\ FilesWereSeen /\ FoundWasThere /\ NothingLost /\ ListIsWhole /\ PagesGoOn

-----------------------------------------------------------------------------
(* It holds after a step that ends a look.                                 *)

\* It has nothing to say of a look that has ended.
LEMMA EndIsSound ==
    ASSUME SearchInv, NEW outcome \in Results, End(outcome)
    PROVE  SearchInv'
  <1>1. Typed'
    BY EndKeeps DEF SearchInv
  <1>2. look'.kind = "none"
    BY DEF End, NoLook
  <1>3. ~Heeding' /\ look'.kind # "list" /\ look'.kind # "page"
    BY <1>2 DEF Heeding
  <1> QED
    BY <1>1, <1>3 DEF SearchInv, FilesWereSeen, FoundWasThere, NothingLost, ListIsWhole, PagesGoOn

\* And after a change that others make while one looks.
LEMMA ChangedIsSound ==
    ASSUME SearchInv, NEW new, IsTree(new), Changed(new)
    PROVE  SearchInv'
  <1>1. /\ tree' = new /\ look' = look /\ result' = result /\ missed' = missed
        /\ since' = [p \in Paths |-> since[p] \cup {new[p]}]
    BY DEF Changed
  <1>2. Typed'
    BY ChangedKeeps DEF SearchInv
  <1>3. \A p \in Paths : since[p] \subseteq since'[p]
    BY <1>1
  <1>4. ASSUME look.kind # "none", NEW p \in Paths, Steady(p)' PROVE Steady(p) /\ tree'[p] = tree[p]
    <2>1. tree[p] \in since[p] /\ since'[p] = {new[p]} /\ since'[p] = since[p] \cup {new[p]}
      BY <1>1, <1>4 DEF SearchInv, Typed, WorldSound, Steady
    <2>2. \A q \in missed : ~Within(p, q)
      BY <1>1, <1>4 DEF Steady
    <2> QED
      BY <1>1, <2>1, <2>2 DEF Steady
  <1>5. FilesWereSeen'
    <2>1. ASSUME Heeding, NEW k \in 1..Len(look.agenda), ~look.agenda[k].isDir
          PROVE  \E node \in since'[look.agenda[k].path] : IsFile(node)
      <3>1. look.agenda[k].path \in Paths
        <4>1. IsWalk(look)
          BY <2>1, WalkingIs DEF SearchInv, Heeding, Walking
        <4>2. look.agenda \in Seq(Entry)
          BY <4>1 DEF IsWalk
        <4>3. look.agenda[k] \in Entry
          BY <2>1, <4>2
        <4> QED
          BY <4>3 DEF Entry
      <3>2. \E node \in since[look.agenda[k].path] : IsFile(node)
        BY <2>1 DEF SearchInv, FilesWereSeen
      <3> QED
        BY <1>3, <3>1, <3>2
    <2> QED
      BY <1>1, <2>1 DEF FilesWereSeen, Heeding
  <1>6. FoundWasThere'
    <2>1. ASSUME Heeding, NEW j \in 1..Len(look.found) PROVE WasThere(look.found[j])'
      <3>1. WasThere(look.found[j])
        BY <2>1 DEF SearchInv, FoundWasThere
      <3> QED
        BY <1>1, <1>3, <3>1 DEF WasThere
    <2> QED
      BY <1>1, <2>1 DEF FoundWasThere, Heeding
  <1>7. NothingLost'
    <2>1. ASSUME Heeding, ~look.stopped, NEW p \in Paths, Sought(p)'
          PROVE  Pending(look.agenda, p) \/ Tell(look.found, p, tree'[p], look.query, look.root)
      <3>1. Steady(p) /\ tree'[p] = tree[p]
        BY <1>4, <2>1 DEF Sought, Heeding
      <3>2. Sought(p)
        BY <1>1, <2>1, <3>1 DEF Sought
      <3> QED
        BY <2>1, <3>1, <3>2 DEF SearchInv, NothingLost
    <2> QED
      BY <1>1, <2>1 DEF NothingLost, Heeding
  <1>8. ListIsWhole'
    <2>1. ASSUME look.kind = "list", NEW p \in Paths \ {<<>>}, Steady(p)', Front(p) = look.root, tree'[p] # Absent
          PROVE  \E k \in 1..Len(look.entries) : look.entries[k] = Seen(p)'
      <3>1. Steady(p) /\ tree'[p] = tree[p]
        BY <1>4, <2>1
      <3>2. \E k \in 1..Len(look.entries) : look.entries[k] = Seen(p)
        BY <2>1, <3>1 DEF SearchInv, ListIsWhole
      <3> QED
        BY <3>1, <3>2 DEF Seen
    <2> QED
      BY <1>1, <2>1 DEF ListIsWhole
  <1>9. PagesGoOn'
    <2>1. ASSUME look.kind = "page", Steady(look.path)' PROVE Steady(look.path) /\ tree'[look.path] = tree[look.path]
      <3>1. look.path \in Paths
        BY <2>1, LookIs DEF SearchInv, Typed, IsPage
      <3>2. since'[look.path] = {tree'[look.path]} /\ \A q \in missed' : ~Within(look.path, q)
        BY <1>1, <2>1 DEF Steady
      <3> QED
        BY <1>4, <2>1, <3>1, <3>2 DEF Steady
    <2> QED
      BY <1>1, <2>1 DEF SearchInv, PagesGoOn, Steady
  <1> QED
    BY <1>2, <1>5, <1>6, <1>7, <1>8, <1>9 DEF SearchInv

\* And after the others' steps.
LEMMA OthersAreSound ==
    ASSUME SearchInv, Others
    PROVE  SearchInv'
  <1>1. CASE Interrupt
    <2>1. look' = look /\ result' = result /\ tree' = tree /\ since' = since /\ changes' = changes
          /\ missed' = missed /\ interrupted' = TRUE
      BY <1>1 DEF Interrupt, world
    <2>2. Typed'
      BY <2>1 DEF SearchInv, Typed, WorldSound, Watching
    <2>3. FilesWereSeen' /\ FoundWasThere'
      BY <2>1 DEF SearchInv, FilesWereSeen, FoundWasThere, WasThere, Heeding
    <2>4. NothingLost'
      BY <2>1 DEF SearchInv, NothingLost, Sought, Steady, Heeding
    <2>5. ListIsWhole' /\ PagesGoOn'
      BY <2>1 DEF SearchInv, ListIsWhole, PagesGoOn, Steady, Seen
    <2> QED
      BY <2>2, <2>3, <2>4, <2>5 DEF SearchInv
  <1>2. CASE \E new : IsTree(new) /\ Changed(new)
    BY <1>2, ChangedIsSound
  <1> QED
    BY <1>1, <1>2, OthersAre DEF SearchInv

-----------------------------------------------------------------------------
(* The path that an input means.                                           *)

\* Clean gives a path, of whatever segments.
LEMMA CleanIs ==
    ASSUME NEW segments \in Seq(STRING)
    PROVE  Clean(segments) \in Seq(STRING)
  <1> DEFINE n == Len(segments)
             V == Seq(STRING)
             Up(p) == SubSeq(p, 1, Len(p) - 1)
             Eq(f) == f = [k \in 0..n |->
                             IF k = 0 THEN <<>>
                             ELSE CASE segments[k] = "." -> f[k - 1]
                                    [] segments[k] = ".." -> SubSeq(f[k - 1], 1, Len(f[k - 1]) - 1)
                                    [] OTHER -> Append(f[k - 1], segments[k])]
             c == CHOOSE f : Eq(f)
             step(k, p) == CASE segments[k] = "." -> p
                             [] segments[k] = ".." -> SubSeq(p, 1, Len(p) - 1)
                             [] OTHER -> Append(p, segments[k])
             h == [k \in 0..n |-> [p \in V |-> IF k = 0 THEN p ELSE step(k, p)]]
  <1>1. n \in Nat /\ \A k \in 1..n : segments[k] \in STRING
    OBVIOUS
  <1>2. ASSUME NEW k \in 1..n, NEW p \in V PROVE step(k, p) \in V
    <2>1. CASE segments[k] = "."
      BY <2>1
    <2>2. CASE segments[k] # "." /\ segments[k] = ".."
      <3>1. step(k, p) = SubSeq(p, 1, Len(p) - 1)
        BY <2>2
      <3> HIDE DEF step
      <3>2. SubSeq(p, 1, Len(p) - 1) \in Seq(STRING)
        <4>1. CASE Len(p) = 0
          BY <4>1
        <4>2. CASE Len(p) # 0
          <5>1. Len(p) - 1 \in 0..Len(p)
            BY <4>2
          <5> QED
            BY <5>1, Halves
        <4> QED
          BY <4>1, <4>2
      <3> QED
        BY <3>1, <3>2
    <2>3. CASE segments[k] # "." /\ segments[k] # ".."
      <3>1. step(k, p) = Append(p, segments[k])
        BY <2>3
      <3> HIDE DEF step
      <3> QED
        BY <1>1, <3>1
    <2> QED
      BY <2>1, <2>2, <2>3
  <1>3. h \in [0..n -> [V -> V]] /\ \A k \in 1..n, p \in V : h[k][p] = step(k, p)
    <2>1. ASSUME NEW k \in 0..n, NEW p \in V PROVE (IF k = 0 THEN p ELSE step(k, p)) \in V
      <3>1. k # 0 => k \in 1..n
        BY <1>1
      <3> HIDE DEF step, V, n
      <3> QED
        BY <1>2, <2>1, <3>1
    <2>2. \A k \in 1..n : k \in 0..n /\ k # 0
      BY <1>1
    <2> HIDE DEF step, V, n
    <2> QED
      BY <2>1, <2>2
  <1>4. PICK F \in [0..n -> V] : Iterated(0, n, <<>>, h, F)
    <2>1. 0 \in Nat /\ 0 <= n /\ <<>> \in V
      BY <1>1
    <2> HIDE DEF h, V, n
    <2> QED
      BY <1>1, <1>3, <2>1, IterationExists
  <1> HIDE DEF h
  <1>5. \A k \in 0..n : F[k] = IF k = 0 THEN <<>> ELSE step(k, F[k - 1])
    <2>1. ASSUME NEW k \in 0..n, k # 0 PROVE F[k] = step(k, F[k - 1])
      <3>1. k \in 1..n /\ k - 1 \in 0..n
        BY <1>1, <2>1
      <3>2. F[k - 1] \in V
        <4> HIDE DEF V, n
        <4> QED
          BY <1>4, <3>1
      <3>3. F[k] = h[k][F[k - 1]]
        BY <1>4, <2>1 DEF Iterated
      <3> HIDE DEF step, V, n
      <3> QED
        BY <1>3, <3>1, <3>2, <3>3
    <2>2. 0 \in 0..n => F[0] = <<>>
      BY <1>4 DEF Iterated
    <2> HIDE DEF step, n
    <2> QED
      BY <2>1, <2>2
  <1>6. Eq(F)
    <2>1. F = [k \in 0..n |-> IF k = 0 THEN <<>> ELSE step(k, F[k - 1])]
      <3> HIDE DEF step, V, n
      <3> QED
        BY <1>4, <1>5
    <2> QED
      BY <2>1
  <1>7. Eq(c)
    <2> HIDE DEF Eq
    <2> QED
      BY <1>6
  <1>8. Clean(segments) = c[n]
    BY DEF Clean
  <1>9. \A k \in 0..n : c[k] = IF k = 0 THEN <<>> ELSE step(k, c[k - 1])
    <2> HIDE DEF c
    <2> QED
      BY <1>7
  <1> HIDE DEF c, step, Eq
  <1> DEFINE B == {k \in 0..n : c[k] \notin V}
  <1>10. ASSUME NEW k \in B, \A j \in B : k <= j PROVE FALSE
    <2>1. k \in 0..n /\ c[k] \notin V
      OBVIOUS
    <2>2. k # 0
      <3>1. <<>> \in V
        OBVIOUS
      <3> HIDE DEF V, B
      <3> QED
        BY <1>9, <2>1, <3>1
    <2>3. k \in 1..n /\ k - 1 \in 0..n /\ ~ (k <= k - 1)
      BY <1>1, <2>1, <2>2
    <2>4. k - 1 \notin B
      <3> HIDE DEF B
      <3> QED
        BY <1>10, <2>3
    <2>5. c[k - 1] \in V
      BY <2>3, <2>4
    <2>6. c[k] = step(k, c[k - 1])
      <3> HIDE DEF B
      <3> QED
        BY <1>9, <2>1, <2>2
    <2> HIDE DEF B, V, n
    <2> QED
      BY <1>2, <2>1, <2>3, <2>5, <2>6
  <1>11. B = {}
    <2>1. B \subseteq Nat
      BY <1>1
    <2> HIDE DEF B
    <2> QED
      BY <1>10, <2>1, SmallestExists
  <1>12. n \in 0..n
    BY <1>1
  <1>13. c[n] \in V
    <2> HIDE DEF V, n
    <2> QED
      BY <1>11, <1>12
  <1> QED
    BY <1>8, <1>13

\* The path that an input means is one.
LEMMA AbsoluteIs ==
    ASSUME NEW input, input.segments \in Seq(STRING)
    PROVE  AbsolutePath(input) \in Seq(STRING)
  <1>1. Root \in Seq(STRING)
    BY SearchAssumption, PathsAre
  <1>2. Root \o input.segments \in Seq(STRING)
    BY <1>1, ConcatProperties
  <1> QED
    BY <1>2, CleanIs DEF AbsolutePath

-----------------------------------------------------------------------------
(* It holds after a step that begins a look.                               *)

\* The entry of a path says what is there.
LEMMA SeenIs ==
    ASSUME NEW p \in Paths
    PROVE  /\ Seen(p) \in Entry /\ Seen(p).path = p
           /\ Seen(p).isDir <=> tree[p] = Directory
  BY DEF Seen, Entry

\* A new walk is one, and has nothing but its root to visit.
LEMMA WalkIs ==
    ASSUME Typed, NEW query, NEW root \in Seq(STRING),
           query.kind = "support" \/ query \in Queries
    PROVE  LET w == Walk(query, root) IN
           /\ IsWalk(w) /\ w.kind = query.kind /\ w.root = root /\ w.query = query
           /\ w.found = <<>> /\ ~w.stopped
           /\ \A k \in 1..Len(w.agenda) :
                 k = 1 /\ root \in Paths /\ w.agenda[k] = Seen(root) /\ tree[root] # Absent
           /\ root \in Paths /\ tree[root] # Absent => Len(w.agenda) = 1 /\ w.agenda[1] = Seen(root)
  <1> DEFINE a == IF NodeAt(tree, root) = Absent THEN <<>> ELSE <<Seen(root)>>
             w == [kind |-> query.kind, root |-> root, query |-> query,
                   found |-> <<>>, hits |-> 0, stopped |-> FALSE, agenda |-> a]
  <1>1. Walk(query, root) = w
    BY DEF Walk
  <1>2. a \in Seq(Entry) /\ (a # <<>> => root \in Paths)
        /\ (\A k \in 1..Len(a) :
              k = 1 /\ root \in Paths /\ a[k] = Seen(root) /\ tree[root] # Absent /\ Within(a[k].path, root))
        /\ (root \in Paths /\ tree[root] # Absent => Len(a) = 1 /\ a[1] = Seen(root))
    <2>1. CASE NodeAt(tree, root) = Absent
      <3>1. a = <<>> /\ ~ (root \in Paths /\ tree[root] # Absent)
        BY <2>1 DEF NodeAt
      <3> HIDE DEF a
      <3> QED
        BY <3>1
    <2>2. CASE NodeAt(tree, root) # Absent
      <3>1. a = <<Seen(root)>>
        BY <2>2
      <3>2. root \in Paths /\ tree[root] # Absent
        BY <2>2 DEF NodeAt
      <3>3. Seen(root) \in Entry /\ Seen(root).path = root
        BY <3>2, SeenIs
      <3>4. Within(root, root)
        BY WithinTwice
      <3> HIDE DEF a
      <3> QED
        BY <3>1, <3>2, <3>3, <3>4
    <2> QED
      BY <2>1, <2>2
  <1> HIDE DEF a
  <1>3. MaxMatches \in Nat \ {0} /\ (query \in Queries => query.kind \in {"glob", "grep"})
    BY SearchAssumption
  <1>4. w \in [kind : {"glob", "grep", "support"}, root : {w.root}, query : {w.query},
               found : Seq(Item), hits : 0..MaxMatches, stopped : BOOLEAN, agenda : Seq(Entry)]
        /\ w.kind = query.kind /\ w.root = root /\ w.query = query /\ w.found = <<>> /\ w.hits = 0
        /\ w.stopped = FALSE /\ w.agenda = a
    BY <1>2, <1>3
  <1> HIDE DEF w
  <1>5. IsWalk(w)
    BY <1>2, <1>3, <1>4 DEF IsWalk
  <1> QED
    BY <1>1, <1>2, <1>4, <1>5

\* Nothing is lost yet when glob or grep begins: all is under the root.
LEMMA SearchIsSound ==
    ASSUME SearchInv, NEW query \in Queries, Search(query)
    PROVE  SearchInv'
  <1> DEFINE r == AbsolutePath(query.input)
             w == Walk(query, r)
  <1>1. Begin(w)
    BY DEF Search
  <1>2. r \in Seq(STRING)
    BY SearchAssumption, AbsoluteIs
  <1> HIDE DEF r
  <1>3. /\ IsWalk(w) /\ w.kind = query.kind /\ w.root = r /\ w.query = query
        /\ w.found = <<>> /\ ~w.stopped
        /\ \A k \in 1..Len(w.agenda) :
              k = 1 /\ r \in Paths /\ w.agenda[k] = Seen(r) /\ tree[r] # Absent
        /\ r \in Paths /\ tree[r] # Absent => Len(w.agenda) = 1 /\ w.agenda[1] = Seen(r)
    BY <1>2, WalkIs DEF SearchInv
  <1> HIDE DEF w
  <1>4. Typed' /\ look' = w /\ tree' = tree /\ since' = [p \in Paths |-> {tree[p]}]
    <2>1. IsLook(w)
      BY <1>3 DEF IsLook
    <2> QED
      BY <1>1, <2>1, BeginKeeps DEF SearchInv, Begin, Watch
  <1>5. IsTree(tree) /\ query.kind \in {"glob", "grep"}
    BY SearchAssumption DEF SearchInv, Typed, WorldSound
  <1>6. FilesWereSeen'
    <2>1. ASSUME NEW k \in 1..Len(w.agenda), ~w.agenda[k].isDir
          PROVE  \E node \in since'[w.agenda[k].path] : IsFile(node)
      <3>1. r \in Paths /\ w.agenda[k] = Seen(r) /\ tree[r] # Absent
        BY <1>3
      <3>2. w.agenda[k].path = r /\ tree[r] # Directory
        BY <2>1, <3>1, SeenIs
      <3> QED
        BY <1>4, <3>1, <3>2 DEF IsFile
    <2> QED
      BY <1>4, <2>1 DEF FilesWereSeen
  <1>7. FoundWasThere'
    BY <1>3, <1>4 DEF FoundWasThere
  <1>8. NothingLost'
    <2>1. ASSUME NEW p \in Paths, Sought(p)' PROVE Pending(w.agenda, p)
      <3>1. tree[p] # Absent /\ tree[p] # Directory /\ Within(p, r) /\ p # r
        BY <1>3, <1>4, <2>1 DEF Sought, IsFile
      <3>2. r \in Paths /\ tree[r] = Directory
        BY <1>2, <1>5, <3>1, AboveIsDirectory
      <3>3. Len(w.agenda) = 1 /\ w.agenda[1] = Seen(r)
        BY <1>3, <3>2, NodesAre
      <3>4. w.agenda[1].path = r /\ w.agenda[1].isDir
        BY <3>2, <3>3, SeenIs
      <3>5. 1 \in 1..Len(w.agenda)
        BY <3>3
      <3> QED
        BY <3>1, <3>4, <3>5 DEF Pending
    <2> QED
      BY <1>4, <2>1 DEF NothingLost
  <1>9. ListIsWhole' /\ PagesGoOn'
    BY <1>3, <1>4, <1>5 DEF ListIsWhole, PagesGoOn
  <1> QED
    BY <1>4, <1>6, <1>7, <1>8, <1>9 DEF SearchInv

\* A listing has every entry of the directory when it begins.
LEMMA ListDirIsSound ==
    ASSUME SearchInv, NEW input, ListDir(input)
    PROVE  SearchInv'
  <1> DEFINE r == AbsolutePath(input)
             l == [kind |-> "list", root |-> r, entries |-> SeenIn(r)]
  <1>1. Begin(l) /\ NodeAt(tree, r) = Directory
    BY DEF ListDir
  <1>2. IsTree(tree)
    BY DEF SearchInv, Typed, WorldSound
  <1>3. r \in Paths /\ tree[r] = Directory
    BY <1>1, <1>2, NodeIs
  <1> DEFINE s == SeenIn(r)
  <1> HIDE DEF r
  <1>4. /\ s \in Seq(Entry)
        /\ \A c \in Paths \ {<<>>} : Front(c) = r /\ tree[c] # Absent =>
              \E k \in 1..Len(s) : s[k] = Seen(c)
    BY <1>2, <1>3, SeenInIs
  <1>5. l = [kind |-> "list", root |-> r, entries |-> s]
    OBVIOUS
  <1> HIDE DEF s, l
  <1>6. IsList(l) /\ l.kind = "list" /\ l.root = r /\ l.entries = s
    BY <1>3, <1>4, <1>5 DEF IsList
  <1>7. Typed' /\ look' = l /\ tree' = tree
    <2>1. IsLook(l)
      BY <1>6 DEF IsLook
    <2> QED
      BY <1>1, <2>1, BeginKeeps DEF SearchInv, Begin
  <1>8. ~Heeding' /\ look'.kind # "page"
    BY <1>6, <1>7 DEF Heeding
  <1>9. ListIsWhole'
    <2>1. ASSUME NEW p \in Paths \ {<<>>}, Front(p) = look'.root, tree'[p] # Absent
          PROVE  \E k \in 1..Len(s) : s[k] = Seen(p)'
      <3>1. \E k \in 1..Len(s) : s[k] = Seen(p)
        BY <1>4, <1>6, <1>7, <2>1
      <3> QED
        BY <1>7, <3>1 DEF Seen
    <2> QED
      BY <1>6, <1>7, <2>1 DEF ListIsWhole
  <1> QED
    BY <1>7, <1>8, <1>9 DEF SearchInv, FilesWereSeen, FoundWasThere, NothingLost, PagesGoOn

-----------------------------------------------------------------------------
(* And after a step of a walk.                                             *)

\* What is visited may give way to entries that are there and under it, as long
\* as they are above all that is to come in it and could be read.
LEMMA OpenedIsSound ==
    ASSUME SearchInv, Walking, look.agenda # <<>>,
           NEW new \in Seq(Entry), NEW a \in Seq(Entry),
           \A k \in 1..Len(new) : /\ new[k] = Seen(new[k].path) /\ tree[new[k].path] # Absent
                                  /\ Within(new[k].path, Visiting.path),
           Together(new, Tail(look.agenda), a),
           look' = [look EXCEPT !.agenda = a],
           UNCHANGED <<tree, since, result, interrupted>>,
           missed \subseteq missed', missed' \subseteq Paths, changes' \in 0..MaxChanges,
           \A p \in Paths : /\ Sought(p) /\ \A q \in missed' : ~Within(p, q)
                            /\ Within(p, Visiting.path) /\ (Visiting.isDir <=> Visiting.path # p)
                            => Pending(new, p)
    PROVE  SearchInv'
  <1> DEFINE d == Visiting.path
             tail == Tail(look.agenda)
             l == [look EXCEPT !.agenda = a]
  <1>1. /\ look' = l /\ result' = result /\ Together(new, tail, a)
        /\ \A k \in 1..Len(new) :
              new[k] = Seen(new[k].path) /\ tree[new[k].path] # Absent /\ Within(new[k].path, d)
    OBVIOUS
  <1>2. tree' = tree /\ since' = since
    OBVIOUS
  <1>3. IsTree(tree) /\ look.kind # "none" /\ \A p \in Paths : tree[p] \in since[p]
    BY DEF SearchInv, Typed, WorldSound, Walking
  <1>4. IsWalk(look) /\ Typed
    BY WalkingIs DEF SearchInv
  <1>5. /\ d \in Paths /\ look.root \in Paths /\ look.hits < MaxMatches /\ ~look.stopped /\ Within(d, look.root)
        /\ tail \in Seq(Entry) /\ Len(look.agenda) = Len(tail) + 1 /\ Len(tail) \in Nat
        /\ \A k \in 1..Len(tail) : tail[k] = look.agenda[k + 1] /\ Within(tail[k].path, look.root)
        /\ Visiting = look.agenda[1]
    <2>1. Tail(look.agenda) \in Seq(Entry)
      BY <1>4, AgendaIs
    <2>2. Len(tail) \in Nat
      BY <2>1
    <2> QED
      BY <1>4, <2>1, <2>2, AgendaIs DEF Visiting
  <1>6. \A p \in Paths : Sought(p) /\ (\A q \in missed' : ~Within(p, q)) /\ Within(p, d)
                         /\ (Visiting.isDir <=> d # p) => Pending(new, p)
    OBVIOUS
  <1> HIDE DEF tail, d
  <1>9. \A k \in 1..Len(new) : new[k].path \in Paths /\ Within(new[k].path, look.root)
    <2>1. ASSUME NEW k \in 1..Len(new) PROVE new[k].path \in Paths /\ Within(new[k].path, look.root)
      <3>1. new[k] \in Entry
        OBVIOUS
      <3>2. new[k].path \in Paths
        BY <3>1 DEF Entry
      <3>3. new[k].path \in Seq(STRING) /\ d \in Seq(STRING) /\ look.root \in Seq(STRING)
        BY <1>5, <3>2, PathsAre
      <3>4. Within(new[k].path, d) /\ Within(d, look.root)
        BY <1>1, <1>5
      <3> QED
        BY <3>2, <3>3, <3>4, WithinTwice
    <2> QED
      BY <2>1
  <1>10. \A k \in 1..Len(a) : Within(a[k].path, look.root)
    BY <1>1, <1>5, <1>9 DEF Together
  <1>11. /\ l \in [kind : {"glob", "grep", "support"}, root : {l.root}, query : {l.query},
                   found : Seq(Item), hits : 0..MaxMatches, stopped : BOOLEAN, agenda : Seq(Entry)]
         /\ l.kind = look.kind /\ l.root = look.root /\ l.query = look.query /\ l.found = look.found
         /\ l.hits = look.hits /\ l.stopped = look.stopped /\ l.agenda = a
    BY <1>4 DEF IsWalk
  <1> HIDE DEF l
  <1>12. Typed'
    <2>1. IsWalk(l)
      BY <1>4, <1>5, <1>10, <1>11 DEF IsWalk
    <2> QED
      BY <1>1, <1>3, <1>4, <2>1, StepKeeps
  <1>13. Heeding' = Heeding
    BY <1>1, <1>11 DEF Heeding
  <1>14. FilesWereSeen'
    <2>1. ASSUME Heeding, NEW k \in 1..Len(a), ~a[k].isDir PROVE \E node \in since[a[k].path] : IsFile(node)
      <3>1. ASSUME NEW j \in 1..Len(new), a[k] = new[j] PROVE \E node \in since[a[k].path] : IsFile(node)
        <4> DEFINE p == new[j].path
        <4>1. p \in Paths /\ new[j] = Seen(p) /\ tree[p] # Absent
          BY <1>1, <1>9
        <4>2. tree[p] # Directory
          BY <2>1, <3>1, <4>1, SeenIs
        <4>3. tree[p] \in since[p] /\ IsFile(tree[p])
          BY <1>3, <4>1, <4>2 DEF IsFile
        <4> QED
          BY <3>1, <4>3
      <3>2. ASSUME NEW j \in 1..Len(tail), a[k] = tail[j] PROVE \E node \in since[a[k].path] : IsFile(node)
        <4>1. j + 1 \in 1..Len(look.agenda) /\ tail[j] = look.agenda[j + 1]
          BY <1>5
        <4> QED
          BY <2>1, <3>2, <4>1 DEF SearchInv, FilesWereSeen
      <3> QED
        BY <1>1, <3>1, <3>2 DEF Together
    <2> QED
      BY <1>1, <1>2, <1>11, <1>13, <2>1 DEF FilesWereSeen
  <1>15. FoundWasThere'
    BY <1>1, <1>2, <1>11, <1>13 DEF SearchInv, FoundWasThere, WasThere
  <1>16. NothingLost'
    <2>1. ASSUME Heeding, ~look.stopped, NEW p \in Paths, Sought(p), Pending(look.agenda, p),
                 \A q \in missed' : ~Within(p, q)
          PROVE  Pending(a, p)
      <3>1. PICK k \in 1..Len(look.agenda) : /\ Within(p, look.agenda[k].path)
                                             /\ look.agenda[k].isDir <=> look.agenda[k].path # p
        BY <2>1 DEF Pending
      <3>2. CASE k # 1
        <4> DEFINE j == k - 1
        <4>1. j \in 1..Len(tail) /\ j + 1 = k
          BY <1>5, <3>1, <3>2
        <4>2. tail[j] = look.agenda[k]
          BY <1>5, <4>1
        <4> HIDE DEF j
        <4>3. PICK i \in 1..Len(a) : a[i] = tail[j]
          BY <1>1, <4>1 DEF Together
        <4> QED
          BY <3>1, <4>2, <4>3 DEF Pending
      <3>3. CASE k = 1
        <4>1. Within(p, d) /\ (Visiting.isDir <=> d # p)
          BY <1>5, <3>1, <3>3 DEF d
        <4>2. Pending(new, p)
          BY <1>6, <2>1, <4>1
        <4>3. PICK j \in 1..Len(new) : Within(p, new[j].path) /\ (new[j].isDir <=> new[j].path # p)
          BY <4>2 DEF Pending
        <4>4. PICK i \in 1..Len(a) : a[i] = new[j]
          BY <1>1 DEF Together
        <4> QED
          BY <4>3, <4>4 DEF Pending
      <3> QED
        BY <3>2, <3>3
    <2>2. ASSUME NEW p \in Paths, Sought(p)' PROVE Sought(p) /\ \A q \in missed' : ~Within(p, q)
      BY <1>1, <1>2, <1>11, <2>2 DEF Sought, Steady
    <2>3. ASSUME Heeding, ~look.stopped, NEW p \in Paths, Sought(p), \A q \in missed' : ~Within(p, q)
          PROVE  Pending(a, p) \/ Tell(look.found, p, tree[p], look.query, look.root)
      BY <2>1, <2>3 DEF SearchInv, NothingLost
    <2> QED
      BY <1>1, <1>2, <1>11, <1>13, <2>2, <2>3 DEF NothingLost
  <1>17. look'.kind # "list" /\ look'.kind # "page"
    BY <1>1, <1>11 DEF Walking
  <1> QED
    BY <1>12, <1>14, <1>15, <1>16, <1>17 DEF SearchInv, ListIsWhole, PagesGoOn

\* A directory gives way to its entries on the agenda, and they are above all
\* that was to come in it and is not hidden.
LEMMA VisitDirectoryIsSound ==
    ASSUME SearchInv, VisitDirectory
    PROVE  SearchInv'
  <1> DEFINE d == Visiting.path
             new == IF Skipped(d) THEN <<>> ELSE SeenIn(d)
             tail == Tail(look.agenda)
             a == new \o tail
  <1>1. /\ Walking /\ look.agenda # <<>> /\ Visiting.isDir
        /\ look' = [look EXCEPT !.agenda = a]
        /\ UNCHANGED <<world, result, interrupted>>
    BY DEF VisitDirectory, Going
  <1>2. tree' = tree /\ since' = since /\ missed' = missed /\ changes' = changes
    BY <1>1 DEF world
  <1>3. IsTree(tree) /\ missed \subseteq Paths /\ changes \in 0..MaxChanges
    BY DEF SearchInv, Typed, WorldSound
  <1>4. IsWalk(look)
    BY <1>1, WalkingIs DEF SearchInv
  <1>5. /\ d \in Paths /\ look.root \in Paths /\ Within(d, look.root)
        /\ tail \in Seq(Entry)
    BY <1>1, <1>4, AgendaIs DEF Visiting
  <1>6. /\ SeenIn(d) \in Seq(Entry)
        /\ \A k \in 1..Len(SeenIn(d)) :
              LET e == SeenIn(d)[k] IN
              /\ e = Seen(e.path) /\ tree[e.path] # Absent
              /\ e.path # <<>> /\ Front(e.path) = d /\ Within(e.path, d)
        /\ \A c \in Paths \ {<<>>} : Front(c) = d /\ tree[c] # Absent =>
              \E k \in 1..Len(SeenIn(d)) : SeenIn(d)[k] = Seen(c)
    BY <1>3, <1>5, SeenInIs
  <1>7. /\ new \in Seq(Entry)
        /\ \A k \in 1..Len(new) :
              new[k] = Seen(new[k].path) /\ tree[new[k].path] # Absent /\ Within(new[k].path, d)
        /\ ~Skipped(d) => \A c \in Paths \ {<<>>} : Front(c) = d /\ tree[c] # Absent =>
                             \E k \in 1..Len(new) : new[k] = Seen(c)
    <2>1. CASE Skipped(d)
      <3>1. new = <<>>
        BY <2>1
      <3> HIDE DEF new
      <3> QED
        BY <2>1, <3>1
    <2>2. CASE ~Skipped(d)
      <3>1. new = SeenIn(d)
        BY <2>2
      <3> HIDE DEF new
      <3> QED
        BY <1>6, <3>1
    <2> QED
      BY <2>1, <2>2
  <1> HIDE DEF new, tail, d
  <1>8. a \in Seq(Entry) /\ Together(new, tail, a)
    BY <1>5, <1>7, ConcatTogether
  <1> HIDE DEF a
  <1>9. ASSUME NEW p \in Paths, Sought(p), Within(p, d), Visiting.isDir <=> d # p
        PROVE  Pending(new, p)
    <2>1. Within(p, d) /\ d # p
      BY <1>1, <1>9
    <2>2. p \in Seq(STRING) /\ d \in Seq(STRING) /\ look.root \in Seq(STRING)
      BY <1>5, PathsAre
    <2> DEFINE c == OnTheWay(p, d)
               n == Len(d)
               m == Len(look.root)
    <2>3. /\ n < Len(p) /\ c \in Seq(STRING) /\ c # <<>>
          /\ Front(c) = d /\ Within(p, c) /\ Within(c, d)
      BY <2>1, <2>2, OnTheWayIs
    <2> HIDE DEF c
    <2>4. ~Skipped(d)
      <3>1. ASSUME Skipped(d) PROVE FALSE
        <4>1. d # look.root /\ Last(d) \in SkipDirs
          BY <3>1 DEF Skipped
        <4>2. m < n /\ n \in Nat /\ m \in Nat /\ Len(p) \in Nat
          BY <1>5, <2>2, <4>1, OnTheWayIs
        <4>3. n \in (m + 1)..(Len(p) - 1)
          BY <2>3, <4>2
        <4>4. Last(d) = d[n] /\ d[n] = p[n]
          <5>1. d # <<>> /\ n \in 1..n
            BY <4>2
          <5>2. Last(d) = d[n]
            BY <2>2, <5>1, FrontIs
          <5>3. \A i \in 1..n : p[i] = d[i]
            BY <2>1, <2>2, WithinIs
          <5> QED
            BY <5>1, <5>2, <5>3
        <4>5. Hidden(look.root, p)
          BY <4>1, <4>3, <4>4 DEF Hidden
        <4> QED
          BY <1>9, <4>5 DEF Sought
      <3> QED
        BY <3>1
    <2>5. tree[p] # Absent /\ tree[p] # Directory
      BY <1>9 DEF Sought, IsFile
    <2>6. c \in Paths /\ (c # p => tree[c] = Directory)
      BY <1>3, <2>3, <2>5, AboveIsDirectory
    <2>7. tree[c] # Absent /\ (tree[c] = Directory <=> c # p)
      BY <2>5, <2>6, NodesAre
    <2>8. PICK j \in 1..Len(new) : new[j] = Seen(c)
      BY <1>7, <2>3, <2>4, <2>6, <2>7
    <2>9. new[j].path = c /\ (new[j].isDir <=> c # p)
      BY <2>6, <2>7, <2>8, SeenIs
    <2> QED
      BY <2>3, <2>9 DEF Pending
  <1> QED
    BY <1>1, <1>2, <1>3, <1>7, <1>8, <1>9, OpenedIsSound DEF d, tail

\* What a failure to read leaves alone, and what it counts among the missed.
LEMMA FailsIs ==
    ASSUME Typed, NEW p \in Paths, Fails(p)
    PROVE  /\ UNCHANGED <<tree, since>> /\ missed' = missed \cup {p} /\ missed' \subseteq Paths
           /\ changes' \in 0..MaxChanges
  BY SearchAssumption DEF Fails, Typed, WorldSound

\* Of a directory that cannot be read nothing is to come: all in it is missed.
LEMMA DirectoryFailsIsSound ==
    ASSUME SearchInv, DirectoryFails
    PROVE  SearchInv'
  <1> DEFINE d == Visiting.path
             entries == SeenIn(d)
             tail == Tail(look.agenda)
  <1>1. PICK read \in SUBSET DOMAIN entries : look' = [look EXCEPT !.agenda = At(entries, read) \o tail]
    BY DEF DirectoryFails
  <1>2. /\ Walking /\ look.agenda # <<>> /\ Visiting.isDir /\ Fails(d)
        /\ UNCHANGED <<result, interrupted>>
    BY DEF DirectoryFails, Going
  <1>3. IsTree(tree) /\ Typed
    BY DEF SearchInv, Typed, WorldSound
  <1>4. IsWalk(look)
    BY <1>2, WalkingIs DEF SearchInv
  <1>5. d \in Paths /\ tail \in Seq(Entry)
    BY <1>2, <1>4, AgendaIs DEF Visiting
  <1>6. /\ UNCHANGED <<tree, since>> /\ missed' = missed \cup {d} /\ missed' \subseteq Paths
        /\ changes' \in 0..MaxChanges
    BY <1>2, <1>3, <1>5, FailsIs
  <1>7. /\ entries \in Seq(Entry)
        /\ \A k \in 1..Len(entries) :
              entries[k] = Seen(entries[k].path) /\ tree[entries[k].path] # Absent
              /\ Within(entries[k].path, d)
    BY <1>3, <1>5, SeenInIs
  <1> DEFINE new == At(entries, read)
             a == new \o tail
  <1> HIDE DEF entries, tail, d
  <1>8. /\ new \in Seq(Entry)
        /\ \A k \in 1..Len(new) :
              new[k] = Seen(new[k].path) /\ tree[new[k].path] # Absent /\ Within(new[k].path, d)
    <2>1. read \subseteq 1..Len(entries)
      BY <1>7
    <2>2. new \in Seq(Entry)
      BY <1>7, <2>1, AtIs
    <2>3. \A j \in 1..Len(new) : \E k \in read : new[j] = entries[k]
      BY <1>7, <2>1, AtIs
    <2> HIDE DEF new
    <2> QED
      BY <1>7, <2>1, <2>2, <2>3
  <1> HIDE DEF new
  <1>9. a \in Seq(Entry) /\ Together(new, tail, a) /\ look' = [look EXCEPT !.agenda = a]
    BY <1>1, <1>5, <1>8, ConcatTogether DEF new
  <1> HIDE DEF a
  <1> QED
    BY <1>2, <1>6, <1>8, <1>9, OpenedIsSound DEF d, tail

\* A file that cannot be read is missed.
LEMMA FileFailsIsSound ==
    ASSUME SearchInv, FileFails
    PROVE  SearchInv'
  <1> DEFINE d == Visiting.path
             tail == Tail(look.agenda)
  <1>1. /\ Walking /\ look.agenda # <<>> /\ ~Visiting.isDir /\ Fails(d)
        /\ look' = [look EXCEPT !.agenda = tail]
        /\ UNCHANGED <<result, interrupted>>
    BY DEF FileFails, Going
  <1>2. Typed
    BY DEF SearchInv
  <1>3. IsWalk(look)
    BY <1>1, WalkingIs DEF SearchInv
  <1>4. d \in Paths /\ tail \in Seq(Entry)
    BY <1>1, <1>3, AgendaIs DEF Visiting
  <1>5. /\ UNCHANGED <<tree, since>> /\ missed' = missed \cup {d} /\ missed' \subseteq Paths
        /\ changes' \in 0..MaxChanges
    BY <1>1, <1>2, <1>4, FailsIs
  <1> DEFINE new == <<>>
  <1>6. new \in Seq(Entry) /\ Len(new) = 0
    OBVIOUS
  <1> HIDE DEF new, d, tail
  <1>7. Together(new, tail, tail)
    BY <1>4, <1>6 DEF Together
  <1>8. d \in missed' /\ missed \subseteq missed'
    BY <1>5
  <1>9. \A k \in 1..Len(new) : /\ new[k] = Seen(new[k].path) /\ tree[new[k].path] # Absent
                               /\ Within(new[k].path, Visiting.path)
    BY <1>6
  <1>10. \A p \in Paths : /\ Sought(p) /\ \A q \in missed' : ~Within(p, q)
                          /\ Within(p, Visiting.path) /\ (Visiting.isDir <=> Visiting.path # p)
                          => Pending(new, p)
    BY <1>8 DEF d
  <1>11. tail = Tail(look.agenda) /\ Walking /\ look.agenda # <<>>
    BY <1>1 DEF tail
  <1> QED
    BY <1>1, <1>4, <1>5, <1>6, <1>7, <1>8, <1>9, <1>10, <1>11, OpenedIsSound

\* A file that stays as it was is told of when it is visited, and what is told
\* of it was there.
LEMMA FileIsSound ==
    ASSUME SearchInv, Going, Heeding, ~Visiting.isDir, UNCHANGED <<world, result, interrupted>>,
           NEW more, NEW hits, NEW stopped, VisitsFile(more, hits, stopped)
    PROVE  SearchInv'
  <1> DEFINE d == Visiting.path
             tail == Tail(look.agenda)
             l == Visited(more, hits, stopped)
             f == look.found \o more
             a == IF stopped THEN <<>> ELSE tail
  <1>1. /\ Walking /\ look.agenda # <<>> /\ Heeding
        /\ tree' = tree /\ since' = since /\ missed' = missed /\ changes' = changes /\ look' = l
    BY DEF Going, world, VisitsFile
  <1>2. /\ more \in Seq(Item) /\ hits \in Nat /\ stopped \in BOOLEAN
        /\ look.hits + hits <= MaxMatches /\ (look.hits + hits = MaxMatches => stopped)
        /\ \A j \in 1..Len(more) : Shows(more[j], d, tree[d], look.query)
        /\ ~stopped => Tell(more, d, tree[d], look.query, look.root)
    BY DEF VisitsFile
  <1>3. IsTree(tree) /\ look.kind # "none" /\ \A p \in Paths : tree[p] \in since[p]
    BY <1>1 DEF SearchInv, Typed, WorldSound, Walking
  <1>4. IsWalk(look) /\ Typed
    BY <1>1, WalkingIs DEF SearchInv
  <1>5. /\ d \in Paths
        /\ Len(look.agenda) = Len(tail) + 1 /\ Len(tail) \in Nat
        /\ \A k \in 1..Len(tail) : tail[k] = look.agenda[k + 1]
        /\ Visiting = look.agenda[1]
    <2>1. Tail(look.agenda) \in Seq(Entry)
      BY <1>1, <1>4, AgendaIs
    <2>2. Len(tail) \in Nat
      BY <2>1
    <2> QED
      BY <1>1, <1>4, <2>1, <2>2, AgendaIs DEF Visiting
  <1>6. /\ IsWalk(l) /\ l.kind = look.kind /\ l.root = look.root /\ l.query = look.query
        /\ l.found = f /\ l.stopped = stopped /\ l.agenda = a
    BY <1>1, <1>2, <1>4, VisitedIs
  <1>7. look.found \in Seq(Item)
    BY <1>4 DEF IsWalk
  <1> HIDE DEF d, l
  <1>8. Typed'
    <2>1. missed \subseteq Paths /\ changes \in 0..MaxChanges
      BY <1>4 DEF Typed, WorldSound
    <2> QED
      BY <1>1, <1>3, <1>4, <1>6, <2>1, StepKeeps
  <1>9. Heeding' = Heeding
    BY <1>1, <1>6 DEF Heeding
  <1>10. f \in Seq(Item) /\ Together(look.found, more, f)
    BY <1>2, <1>7, ConcatTogether
  <1>11. a = <<>> \/ (~stopped /\ a = tail)
    BY <1>2
  <1> HIDE DEF f, a, tail
  <1>12. FilesWereSeen'
    <2>1. ASSUME NEW k \in 1..Len(a), ~a[k].isDir PROVE \E node \in since[a[k].path] : IsFile(node)
      <3>1. a = tail
        BY <1>11, <2>1
      <3>2. k + 1 \in 1..Len(look.agenda) /\ a[k] = look.agenda[k + 1]
        BY <1>5, <2>1, <3>1
      <3> QED
        BY <1>1, <2>1, <3>2 DEF SearchInv, FilesWereSeen
    <2> QED
      BY <1>1, <1>6, <2>1 DEF FilesWereSeen
  <1>13. FoundWasThere'
    <2>1. ASSUME NEW j \in 1..Len(f)
          PROVE  f[j].path \in Paths
                 /\ \E node \in since[f[j].path] : IsFile(node) /\ Shows(f[j], f[j].path, node, look.query)
      <3>1. ASSUME NEW i \in 1..Len(look.found), f[j] = look.found[i]
            PROVE  WasThere(f[j])
        BY <1>1, <3>1 DEF SearchInv, FoundWasThere
      <3>2. ASSUME NEW i \in 1..Len(more), f[j] = more[i]
            PROVE  WasThere(f[j])
        <4> DEFINE item == more[i]
        <4>1. Shows(item, d, tree[d], look.query)
          BY <1>2
        <4>2. item.path = d /\ d \in Paths
          BY <1>5, <4>1 DEF Shows
        <4>3. CASE item.kind = "line"
          <5>1. tree[d].kind = "text" /\ tree[d] \in Node /\ tree[d] \in since[d]
            BY <1>3, <1>5, <4>1, <4>3 DEF Shows, IsTree
          <5>2. IsFile(tree[d])
            BY <5>1, NodesAre DEF IsFile
          <5> QED
            BY <3>2, <4>1, <4>2, <5>1, <5>2 DEF WasThere
        <4>4. CASE item.kind # "line"
          <5>1. 1 \in 1..Len(look.agenda) /\ look.agenda[1].path = d /\ ~look.agenda[1].isDir
            BY <1>5 DEF d
          <5>2. PICK node \in since[d] : IsFile(node)
            BY <1>1, <5>1 DEF SearchInv, FilesWereSeen
          <5>3. Shows(item, d, node, look.query)
            BY <4>2, <4>4 DEF Shows
          <5> QED
            BY <3>2, <4>2, <5>2, <5>3 DEF WasThere
        <4> QED
          BY <4>3, <4>4
      <3> QED
        BY <1>10, <3>1, <3>2 DEF Together, WasThere
    <2> QED
      BY <1>1, <1>6, <2>1 DEF FoundWasThere, WasThere
  <1>14. NothingLost'
    <2>1. ASSUME ~stopped, NEW p \in Paths, Sought(p)
          PROVE  Pending(a, p) \/ Tell(f, p, tree[p], look.query, look.root)
      <3>1. a = tail
        BY <2>1 DEF a
      <3>2. ~look.stopped
        BY <1>1, <1>4, AgendaIs
      <3>3. CASE Tell(look.found, p, tree[p], look.query, look.root)
        <4>1. Tell(f, p, tree[p], look.query, look.root)
          BY <1>2, <1>7, <3>3, TellMore DEF f
        <4> QED
          BY <4>1
      <3>4. CASE Pending(look.agenda, p)
        <4>1. PICK k \in 1..Len(look.agenda) : /\ Within(p, look.agenda[k].path)
                                               /\ look.agenda[k].isDir <=> look.agenda[k].path # p
          BY <3>4 DEF Pending
        <4>2. CASE k # 1
          <5> DEFINE j == k - 1
          <5>1. j \in 1..Len(tail) /\ j + 1 = k
            BY <1>5, <4>1, <4>2
          <5>2. tail[j] = look.agenda[k]
            BY <1>5, <5>1
          <5> HIDE DEF j
          <5> QED
            BY <3>1, <4>1, <5>1, <5>2 DEF Pending
        <4>3. CASE k = 1
          <5>1. p = d
            BY <1>5, <4>1, <4>3 DEF d
          <5>2. Tell(more, p, tree[p], look.query, look.root)
            BY <1>2, <2>1, <5>1
          <5>3. Tell(f, p, tree[p], look.query, look.root)
            BY <1>2, <1>7, <5>2, TellMore DEF f
          <5> QED
            BY <5>3
        <4> QED
          BY <4>2, <4>3
      <3> QED
        BY <1>1, <2>1, <3>2, <3>3, <3>4 DEF SearchInv, NothingLost
    <2>2. ASSUME NEW p \in Paths, Sought(p)' PROVE Sought(p)
      BY <1>1, <1>6, <2>2 DEF Sought, Steady
    <2> QED
      BY <1>1, <1>6, <2>1, <2>2 DEF NothingLost
  <1>15. look'.kind # "list" /\ look'.kind # "page"
    BY <1>1, <1>6 DEF Walking
  <1> QED
    BY <1>8, <1>12, <1>13, <1>14, <1>15 DEF SearchInv, ListIsWhole, PagesGoOn

-----------------------------------------------------------------------------
(* And after a page.                                                       *)

\* Some lines of a file.
LEMMA LinesAre ==
    ASSUME NEW p \in Paths, NEW lines \in Seq(STRING), NEW first \in Nat \ {0},
           NEW last \in 0..Len(lines), first <= last + 1
    PROVE  LET s == Lines(p, lines, first, last) IN
           /\ s \in Seq(Item) /\ Len(s) = last - first + 1
           /\ \A k \in 1..(last - first + 1) : s[k] = LineItem(p, first + k - 1, lines[first + k - 1], FALSE)
  <1> DEFINE n == last - first + 1
             s == [k \in 1..n |-> LineItem(p, first + k - 1, lines[first + k - 1], FALSE)]
  <1>1. n \in Nat /\ Len(lines) \in Nat
    OBVIOUS
  <1>2. Lines(p, lines, first, last) = s
    BY DEF Lines
  <1>3. ASSUME NEW k \in 1..n PROVE s[k] \in Item
    <2> DEFINE i == first + k - 1
               text == lines[i]
    <2>1. i \in 1..Len(lines) /\ i \in Nat
      BY <1>1
    <2>2. text \in STRING
      BY <2>1
    <2> DEFINE hit == FALSE
    <2>3. s[k] = LineItem(p, i, text, hit) /\ hit \in BOOLEAN
      OBVIOUS
    <2> HIDE DEF i, text, s, hit
    <2>4. LineItem(p, i, text, hit) \in Item
      BY <2>1, <2>2, <2>3, LineItemIs
    <2> QED
      BY <2>3, <2>4
  <1> HIDE DEF n
  <1>4. s \in Seq(Item) /\ Len(s) = n
    <2>1. DOMAIN s = 1..n /\ s = [k \in 1..n |-> s[k]]
      OBVIOUS
    <2> HIDE DEF s
    <2>2. s \in [1..n -> Item]
      BY <1>3, <2>1
    <2> QED
      BY <1>1, <2>2
  <1>5. \A k \in 1..n : s[k] = LineItem(p, first + k - 1, lines[first + k - 1], FALSE)
    OBVIOUS
  <1> HIDE DEF s
  <1> QED
    BY <1>2, <1>4, <1>5 DEF n

\* The lines from the first one on.
LEMMA LinesFromFirst ==
    ASSUME NEW p \in Paths, NEW lines \in Seq(STRING), NEW last \in 0..Len(lines)
    PROVE  /\ Lines(p, lines, 1, last) \in Seq(Item) /\ Len(Lines(p, lines, 1, last)) = last
           /\ \A i \in 1..last : Lines(p, lines, 1, last)[i] = LineItem(p, i, lines[i], FALSE)
  <1> DEFINE f == 1
             s == Lines(p, lines, f, last)
  <1>1. f \in Nat \ {0} /\ f <= last + 1 /\ last \in Nat
    OBVIOUS
  <1>2. last - f + 1 = last /\ \A i \in 1..last : f + i - 1 = i
    BY <1>1
  <1>3. s = Lines(p, lines, 1, last)
    OBVIOUS
  <1> HIDE DEF f
  <1>4. s \in Seq(Item) /\ Len(s) = last - f + 1
        /\ \A k \in 1..(last - f + 1) : s[k] = LineItem(p, f + k - 1, lines[f + k - 1], FALSE)
    BY <1>1, LinesAre
  <1> HIDE DEF s
  <1> QED
    BY <1>2, <1>3, <1>4

\* The lines that follow.
LEMMA LinesJoin ==
    ASSUME NEW p \in Paths, NEW lines \in Seq(STRING), NEW m \in 0..Len(lines),
           NEW last \in m..Len(lines)
    PROVE  Lines(p, lines, 1, m) \o Lines(p, lines, m + 1, last) = Lines(p, lines, 1, last)
  <1> DEFINE a == Lines(p, lines, 1, m)
             b == Lines(p, lines, m + 1, last)
             c == Lines(p, lines, 1, last)
             d == a \o b
             line(i) == LineItem(p, i, lines[i], FALSE)
  <1>1. Len(lines) \in Nat /\ m \in Nat /\ last \in Nat /\ m <= last /\ last \in 0..Len(lines)
        /\ 1 \in Nat \ {0} /\ m + 1 \in Nat \ {0}
    OBVIOUS
  <1>2. a \in Seq(Item) /\ Len(a) = m /\ \A i \in 1..m : a[i] = line(i)
    BY <1>1, LinesFromFirst
  <1>3. c \in Seq(Item) /\ Len(c) = last /\ \A i \in 1..last : c[i] = line(i)
    BY <1>1, LinesFromFirst
  <1>4. b \in Seq(Item) /\ Len(b) = last - m /\ \A k \in 1..last - m : b[k] = line(m + k)
    <2> DEFINE f == m + 1
    <2>1. f \in Nat \ {0} /\ f <= last + 1
      BY <1>1
    <2>2. b = Lines(p, lines, f, last)
      OBVIOUS
    <2> HIDE DEF f, b
    <2>3. b \in Seq(Item) /\ Len(b) = last - f + 1
          /\ \A k \in 1..(last - f + 1) : b[k] = LineItem(p, f + k - 1, lines[f + k - 1], FALSE)
      BY <1>1, <2>1, <2>2, LinesAre
    <2>4. last - f + 1 = last - m /\ \A k \in 1..last - m : f + k - 1 = m + k
      BY <1>1 DEF f
    <2> QED
      BY <2>3, <2>4
  <1> HIDE DEF a, b, c, line
  <1>5. /\ d \in Seq(Item) /\ Len(d) = last
        /\ \A i \in 1..m : d[i] = a[i]
        /\ \A i \in 1..last : i > m => d[i] = b[i - m]
    <2>1. /\ d \in Seq(Item) /\ Len(d) = Len(a) + Len(b)
          /\ \A i \in 1..Len(a) + Len(b) : d[i] = IF i <= Len(a) THEN a[i] ELSE b[i - Len(a)]
      BY <1>2, <1>4, ConcatProperties
    <2>2. Len(a) + Len(b) = last
      BY <1>1, <1>2, <1>4
    <2> HIDE DEF d
    <2>3. \A i \in 1..last : d[i] = IF i <= m THEN a[i] ELSE b[i - m]
      BY <1>2, <2>1, <2>2
    <2>4. \A i \in 1..m : i \in 1..last /\ i <= m
      BY <1>1
    <2>5. \A i \in 1..last : i > m => ~ (i <= m)
      BY <1>1
    <2> QED
      BY <2>1, <2>2, <2>3, <2>4, <2>5
  <1> HIDE DEF d
  <1>6. \A i \in 1..last : d[i] = c[i]
    <2>1. ASSUME NEW i \in 1..last PROVE d[i] = c[i]
      <3>1. CASE i <= m
        <4>1. i \in 1..m
          BY <1>1, <3>1
        <4> QED
          BY <1>2, <1>3, <1>5, <4>1
      <3>2. CASE i > m
        <4>1. i - m \in 1..last - m /\ m + (i - m) = i
          BY <1>1, <3>2
        <4>2. b[i - m] = line(m + (i - m))
          BY <1>4, <4>1
        <4> QED
          BY <1>3, <1>5, <3>2, <4>1, <4>2
      <3> QED
        BY <1>1, <3>1, <3>2
    <2> QED
      BY <2>1
  <1>7. d = c
    BY <1>3, <1>5, <1>6, SeqEqual
  <1> QED
    BY <1>7 DEF a, b, c, d

\* A page that follows the ones before it makes them up to the file so far.
LEMMA PageIsSound ==
    ASSUME Typed, NEW p \in Paths, NEW offset \in Nat \ {0}, NEW limit \in Limits,
           NEW got \in Seq(Item), tree' = tree, tree[p].kind = "text",
           Page(p, offset, limit, got),
           Steady(p)' => /\ offset - 1 <= Len(tree[p].lines)
                         /\ got = Lines(p, tree[p].lines, 1, offset - 1)
    PROVE  /\ look' = NoLook \/ IsPage(look')
           /\ result' \in Results
           /\ PagesGoOn'
  <1> DEFINE lines == tree[p].lines
             n == Len(lines)
             last == LastOf(lines, offset, limit)
             past == offset > n
             notes == IF last < n THEN {"more"} ELSE {}
             items == Lines(p, lines, offset, last)
             shown == IF past THEN ToolError ELSE Found(items, notes)
             next == Following(last)
             l == [kind |-> "page", path |-> p, next |-> next, got |-> got \o shown.items]
  <1>1. result' = shown /\ look' = IF past THEN NoLook ELSE l
    BY DEF Page
  <1>2. lines \in Seq(STRING) /\ n \in Nat /\ limit \in Nat \ {0}
    <2>1. tree[p] \in Node
      BY DEF Typed, WorldSound, IsTree
    <2>2. lines \in Seq(STRING) /\ limit \in Nat \ {0}
      BY <2>1, NodesAre, SearchAssumption
    <2> HIDE DEF lines
    <2> QED
      BY <2>2
  <1>3. CASE past
    <2>1. look' = NoLook /\ result' = ToolError
      BY <1>1, <1>3
    <2>2. look'.kind = "none"
      BY <2>1 DEF NoLook
    <2> QED
      BY <2>1, <2>2 DEF Results, PagesGoOn
  <1>4. CASE ~past
    <2> HIDE DEF lines, n
    <2>1. last \in offset..n /\ next = last + 1 /\ offset <= n
      <3> DEFINE z == offset - 1 + limit
      <3>1. z \in Int /\ n \in Int /\ z >= offset /\ offset <= n
        BY <1>2, <1>4
      <3>2. last = Min({z, n})
        BY DEF LastOf, n
      <3> HIDE DEF z, last
      <3>3. last \in {z, n} /\ last <= z /\ last <= n
        BY <3>1, <3>2, TwoIs
      <3> QED
        BY <1>2, <3>1, <3>3 DEF Following
    <2> HIDE DEF last
    <2>2. items \in Seq(Item)
      <3>1. offset <= last + 1 /\ last \in 0..Len(lines)
        BY <1>2, <2>1 DEF n
      <3> QED
        BY <1>2, <3>1, LinesAre
    <2>3. notes \in NoteSets
      BY DEF NoteSets
    <2>4. shown = Found(items, notes)
      BY <1>4
    <2>5. (last < n => notes = {"more"}) /\ (~ (last < n) => notes = {})
      OBVIOUS
    <2> HIDE DEF items, notes
    <2>6. /\ shown \in Results /\ shown.kind = "found"
          /\ (shown.items = items /\ shown.notes = notes) \/ shown.notes = {"truncated"}
      BY <2>2, <2>3, <2>4, FoundIs
    <2> HIDE DEF shown
    <2>7. shown.items \in Seq(Item)
      BY <2>6 DEF Results, NoResult, ToolError, Aborted
    <2>8. got \o shown.items \in Seq(Item) /\ next \in Nat \ {0}
      BY <1>2, <2>1, <2>7, ConcatProperties
    <2>9. look' = l /\ result' = shown
      BY <1>1, <1>4
    <2>10. /\ l.kind = "page" /\ l.path = p /\ l.next = next /\ l.got = got \o shown.items
           /\ IsPage(l)
      BY <2>8 DEF IsPage
    <2> HIDE DEF l
    <2>11. ASSUME Steady(p)', shown.notes # {"truncated"}
           PROVE  l.got = Lines(p, lines, 1, last) /\ (last < n => shown.notes = {"more"})
                  /\ (~ (last < n) => shown.notes = {})
      <3> DEFINE m == offset - 1
      <3>1. m \in 0..Len(lines) /\ m + 1 = offset /\ last \in m..Len(lines)
        BY <1>2, <2>1 DEF n
      <3>2. got = Lines(p, lines, 1, m)
        BY <2>11 DEF lines
      <3>3. items = Lines(p, lines, m + 1, last)
        BY <3>1 DEF items
      <3> HIDE DEF m
      <3>4. got \o items = Lines(p, lines, 1, last)
        BY <1>2, <3>1, <3>2, <3>3, LinesJoin
      <3> QED
        BY <2>5, <2>6, <2>10, <2>11, <3>4
    <2>12. PagesGoOn'
      <3>1. ASSUME Steady(p)', shown.notes = {} PROVE l.got = Lines(p, lines, 1, n)
        <4>1. shown.notes # {"truncated"} /\ shown.notes # {"more"}
          BY <3>1
        <4>2. last = n
          BY <1>2, <2>1, <2>11, <3>1, <4>1
        <4> QED
          BY <2>11, <3>1, <4>1, <4>2
      <3>2. ASSUME Steady(p)', shown.notes = {"more"}
            PROVE  l.next \in 2..n /\ l.got = Lines(p, lines, 1, l.next - 1)
        <4>1. shown.notes # {"truncated"} /\ shown.notes # {}
          <5>1. "more" # "truncated"
            OBVIOUS
          <5> QED
            BY <3>2, <5>1
        <4>2. last < n
          BY <2>11, <3>2, <4>1
        <4>3. next \in 2..n /\ next - 1 = last
          BY <1>2, <2>1, <4>2
        <4> QED
          BY <2>10, <2>11, <3>2, <4>1, <4>3
      <3> QED
        BY <2>6, <2>9, <2>10, <3>1, <3>2 DEF PagesGoOn, Steady, lines, n
    <2> QED
      BY <2>6, <2>9, <2>10, <2>12
  <1> QED
    BY <1>3, <1>4

\* The first page has nothing before it.
LEMMA ReadFirstIsSound ==
    ASSUME SearchInv, NEW input, NEW limit \in Limits, ReadFirst(input, limit)
    PROVE  SearchInv'
  <1> DEFINE p == AbsolutePath(input)
  <1>1. /\ NodeAt(tree, p).kind = "text" /\ Page(p, 1, limit, <<>>)
        /\ tree' = tree /\ interrupted' = interrupted
        /\ since' = [q \in Paths |-> {tree[q]}] /\ missed' = {} /\ changes' = 0
    BY DEF ReadFirst, Watch
  <1>2. Typed /\ IsTree(tree)
    BY DEF SearchInv, Typed, WorldSound
  <1>3. p \in Paths /\ tree[p].kind = "text" /\ tree[p] \in Node
    BY <1>1, <1>2, NodeIs
  <1> HIDE DEF p
  <1> DEFINE one == 1
             lines == tree[p].lines
  <1>4. lines \in Seq(STRING) /\ Len(lines) \in Nat
    <2>1. lines \in Seq(STRING)
      BY <1>3, NodesAre
    <2> HIDE DEF lines
    <2> QED
      BY <2>1
  <1>5. <<>> = Lines(p, lines, 1, one - 1) /\ one - 1 <= Len(lines) /\ one \in Nat \ {0}
    BY <1>4 DEF Lines
  <1>6. Page(p, one, limit, <<>>) /\ <<>> \in Seq(Item)
    BY <1>1
  <1> HIDE DEF one, lines
  <1>7. /\ look' = NoLook \/ IsPage(look')
        /\ result' \in Results
        /\ PagesGoOn'
    BY <1>1, <1>2, <1>3, <1>5, <1>6, PageIsSound DEF lines
  <1>8. since' \in [Paths -> SUBSET Node] /\ \A q \in Paths : tree[q] \in since'[q]
    BY <1>1, <1>2 DEF IsTree
  <1>9. Watching' /\ changes' \in 0..MaxChanges
    BY <1>1, PathsAre, SearchAssumption DEF Watching
  <1>10. Typed'
    BY <1>1, <1>2, <1>7, <1>8, <1>9 DEF Typed, WorldSound, IsLook
  <1>11. ~Heeding' /\ look'.kind # "list"
    BY <1>7 DEF Heeding, IsPage, NoLook
  <1> QED
    BY <1>7, <1>10, <1>11 DEF SearchInv, FilesWereSeen, FoundWasThere, NothingLost, ListIsWhole

\* The next one has the pages before it.
LEMMA ReadNextIsSound ==
    ASSUME SearchInv, NEW limit \in Limits, ReadNext(limit)
    PROVE  SearchInv'
  <1>1. PICK p, offset, got : p = look.path /\ offset = look.next /\ got = look.got
    OBVIOUS
  <1>2. /\ look.kind = "page" /\ "more" \in result.notes /\ result.kind = "found"
        /\ tree[p].kind = "text" /\ Page(p, offset, limit, got)
        /\ tree' = tree /\ since' = since /\ changes' = changes /\ missed' = missed
        /\ interrupted' = interrupted
    BY <1>1 DEF ReadNext, world
  <1>3. Typed /\ IsTree(tree) /\ PagesGoOn
    BY DEF SearchInv, Typed, WorldSound
  <1>4. p \in Paths /\ offset \in Nat \ {0} /\ got \in Seq(Item)
    <2>1. IsPage(look)
      BY <1>2, <1>3, LookIs DEF Typed
    <2> QED
      BY <1>1, <2>1 DEF IsPage
  <1>5. result.notes = {"more"}
    <2>1. result.notes \in NoteSets
      BY <1>2, <1>3 DEF Typed, Results, NoResult, ToolError, Aborted
    <2> QED
      BY <1>2, <2>1 DEF NoteSets
  <1>6. ASSUME Steady(p)' PROVE /\ offset - 1 <= Len(tree[p].lines)
                                /\ got = Lines(p, tree[p].lines, 1, offset - 1)
    <2>1. Steady(p)
      BY <1>2, <1>6 DEF Steady
    <2>2. offset \in 2..Len(tree[p].lines) /\ got = Lines(p, tree[p].lines, 1, offset - 1)
      BY <1>1, <1>2, <1>3, <1>5, <2>1 DEF PagesGoOn
    <2>3. Len(tree[p].lines) \in Nat
      <3>1. tree[p].lines \in Seq(STRING)
        BY <1>2, <1>3, <1>4, NodesAre DEF IsTree
      <3> QED
        BY <3>1
    <2> QED
      BY <2>2, <2>3
  <1>7. /\ look' = NoLook \/ IsPage(look')
        /\ result' \in Results
        /\ PagesGoOn'
    BY <1>2, <1>3, <1>4, <1>6, PageIsSound
  <1>8. Watching /\ Watching'
    BY <1>2, <1>3 DEF Typed, WorldSound, Watching
  <1>9. Typed'
    BY <1>2, <1>3, <1>7, <1>8 DEF Typed, WorldSound, IsLook
  <1>10. ~Heeding' /\ look'.kind # "list"
    BY <1>7 DEF Heeding, IsPage, NoLook
  <1> QED
    BY <1>7, <1>9, <1>10 DEF SearchInv, FilesWereSeen, FoundWasThere, NothingLost, ListIsWhole

\* What a listing says of an entry.
Listed(e, sized) == EntryItem(e.path, e.isDir, sized)

\* A listing ends with an item for each entry.
LEMMA ListDoneIs ==
    ASSUME Typed, ListDone
    PROVE  \E s \in Seq(Item) :
              /\ look.kind = "list" /\ End(Found(s, {}))
              /\ \A k \in 1..Len(look.entries) : \E i \in 1..Len(s) : \E sized \in BOOLEAN :
                    s[i] = Listed(look.entries[k], sized)
  <1> DEFINE e == look.entries
             isDir(k) == e[k].isDir
             D == {k \in DOMAIN e : isDir(k)}
             F == {k \in DOMAIN e : ~isDir(k)}
             dirs == At(e, D)
             files == At(e, F)
             all == dirs \o files
             Items(sizes) == [k \in DOMAIN all |-> Listed(all[k], k \in sizes)]
  <1>0. PICK sizes : look.kind = "list" /\ End(Found(Items(sizes), {}))
    BY DEF ListDone, Listed
  <1> DEFINE item(k) == Listed(all[k], k \in sizes)
             s == [k \in DOMAIN all |-> item(k)]
  <1>1. look.kind = "list" /\ End(Found(s, {}))
    BY <1>0
  <1>2. e \in Seq(Entry)
    BY <1>1, LookIs DEF Typed, IsList
  <1>3. D \subseteq 1..Len(e) /\ F \subseteq 1..Len(e) /\ \A k \in 1..Len(e) : k \in D \/ k \in F
    BY <1>2
  <1> HIDE DEF e, D, F
  <1>4. dirs \in Seq(Entry) /\ \A k \in D : \E j \in 1..Len(dirs) : dirs[j] = e[k]
    <2>1. D \subseteq 1..Len(e)
      BY <1>3
    <2>2. At(e, D) \in Seq(Entry)
      BY <1>2, <2>1, AtIs
    <2>3. ASSUME NEW k \in D
          PROVE  \E j \in 1..Len(At(e, D)) : At(e, D)[j] = e[k]
      <3>1. e \in Seq(Entry) /\ D \subseteq 1..Len(e) /\ k \in D
        BY <1>2, <2>1, <2>3
      <3> QED
        BY <3>1, AtHas
    <2> QED
      BY <2>2, <2>3
  <1>5. files \in Seq(Entry) /\ \A k \in F : \E j \in 1..Len(files) : files[j] = e[k]
    <2>1. F \subseteq 1..Len(e)
      BY <1>3
    <2>2. At(e, F) \in Seq(Entry)
      BY <1>2, <2>1, AtIs
    <2>3. ASSUME NEW k \in F
          PROVE  \E j \in 1..Len(At(e, F)) : At(e, F)[j] = e[k]
      <3>1. e \in Seq(Entry) /\ F \subseteq 1..Len(e) /\ k \in F
        BY <1>2, <2>1, <2>3
      <3> QED
        BY <3>1, AtHas
    <2> QED
      BY <2>2, <2>3
  <1> HIDE DEF dirs, files
  <1>6. all \in Seq(Entry) /\ Together(dirs, files, all)
    BY <1>4, <1>5, ConcatTogether
  <1> HIDE DEF all
  <1>7. \A x \in Entry, sized \in BOOLEAN : Listed(x, sized) \in Item
    BY DEF Entry, Listed, EntryItem, Item
  <1>8. s \in Seq(Item) /\ Len(s) = Len(all)
        /\ \A k \in 1..Len(all) : \E sized \in BOOLEAN : s[k] = Listed(all[k], sized)
    <2>1. \A k : \E sized \in BOOLEAN : item(k) = Listed(all[k], sized)
      <3>1. ASSUME NEW k PROVE \E sized \in BOOLEAN : item(k) = Listed(all[k], sized)
        <4>1. CASE k \in sizes
          <5>1. item(k) = Listed(all[k], TRUE)
            BY <4>1
          <5> HIDE DEF item
          <5> QED
            BY <5>1
        <4>2. CASE k \notin sizes
          <5>1. (k \in sizes) = FALSE
            BY <4>2
          <5>2. item(k) = Listed(all[k], FALSE)
            BY <5>1, Zenon
          <5> HIDE DEF item
          <5> QED
            BY <5>2
        <4> QED
          BY <4>1, <4>2
      <3> QED
        BY <3>1
    <2> HIDE DEF item
    <2>2. s = [k \in 1..Len(all) |-> item(k)] /\ Len(all) \in Nat
          /\ \A k \in 1..Len(all) : all[k] \in Entry
      BY <1>6
    <2>3. \A k \in 1..Len(all) : item(k) \in Item
      BY <1>7, <2>1, <2>2
    <2> HIDE DEF s
    <2> QED
      BY <2>1, <2>2, <2>3
  <1> HIDE DEF item
  <1> HIDE DEF s
  <1>9. ASSUME NEW k \in 1..Len(e)
        PROVE  \E i \in 1..Len(s) : \E sized \in BOOLEAN : s[i] = Listed(e[k], sized)
    <2>1. \E i \in 1..Len(all) : all[i] = e[k]
      <3>1. CASE k \in D
        <4>1. PICK j \in 1..Len(dirs) : dirs[j] = e[k]
          BY <1>4, <3>1
        <4> QED
          BY <1>6, <4>1 DEF Together
      <3>2. CASE k \in F
        <4>1. PICK j \in 1..Len(files) : files[j] = e[k]
          BY <1>5, <3>2
        <4> QED
          BY <1>6, <4>1 DEF Together
      <3> QED
        BY <1>3, <3>1, <3>2
    <2> QED
      BY <1>8, <2>1
  <1> QED
    BY <1>1, <1>8, <1>9 DEF e

\* A listing ends.
LEMMA ListDoneIsSound ==
    ASSUME SearchInv, ListDone
    PROVE  SearchInv'
  <1>1. PICK s \in Seq(Item) : End(Found(s, {}))
    BY ListDoneIs DEF SearchInv
  <1>2. Found(s, {}) \in Results
    BY FoundIs DEF NoteSets
  <1> QED
    BY <1>1, <1>2, EndIsSound

\* A walk ends, or is ended, or an input is refused.
LEMMA WalkDoneIsSound ==
    ASSUME SearchInv, WalkDone \/ WalkCancelled \/ Refused
    PROVE  SearchInv'
  <1>1. CASE WalkDone
    <2> DEFINE notes == IF look.stopped THEN {"stopped"} ELSE {}
    <2>1. Heeding /\ End(Found(look.found, notes))
      BY <1>1 DEF WalkDone
    <2>2. look.found \in Seq(Item) /\ notes \in NoteSets
      <3>1. IsWalk(look)
        BY <2>1, WalkingIs DEF SearchInv, Heeding, Walking
      <3> QED
        BY <3>1 DEF IsWalk, NoteSets
    <2> HIDE DEF notes
    <2>3. Found(look.found, notes) \in Results
      BY <2>2, FoundIs
    <2> QED
      BY <2>1, <2>3, EndIsSound
  <1>2. CASE WalkCancelled
    <2>1. End(Aborted) /\ Aborted \in Results
      BY <1>2 DEF WalkCancelled, Results
    <2> QED
      BY <2>1, EndIsSound
  <1>3. CASE Refused
    <2>1. End(ToolError) /\ ToolError \in Results
      BY <1>3 DEF Refused, Results
    <2> QED
      BY <2>1, EndIsSound
  <1> QED
    BY <1>1, <1>2, <1>3

\* The tools that only look keep what they rely on.
LEMMA ToolsAreSound ==
    ASSUME SearchInv, Tools
    PROVE  SearchInv'
  <1>1. CASE GlobFile
    <2>1. PICK more, hits, stopped : VisitsFile(more, hits, stopped)
      BY <1>1, GlobFileIs DEF SearchInv
    <2>2. Going /\ Heeding /\ ~Visiting.isDir /\ UNCHANGED <<world, result, interrupted>>
      BY <1>1 DEF GlobFile, Heeding
    <2> QED
      BY <2>1, <2>2, FileIsSound
  <1>2. CASE GrepFile
    <2>1. PICK more, hits, stopped : VisitsFile(more, hits, stopped)
      BY <1>2, GrepFileIs DEF SearchInv
    <2>2. Going /\ Heeding /\ ~Visiting.isDir /\ UNCHANGED <<world, result, interrupted>>
      BY <1>2 DEF GrepFile, Heeding
    <2> QED
      BY <2>1, <2>2, FileIsSound
  <1> QED
    BY <1>1, <1>2, WalkDoneIsSound, ListDoneIsSound, ReadFirstIsSound, ReadNextIsSound,
       ListDirIsSound, SearchIsSound, VisitDirectoryIsSound, DirectoryFailsIsSound, FileFailsIsSound
       DEF Tools

-----------------------------------------------------------------------------
(* Skills.                                                                 *)

\* The invariant of the searches says nothing of a walk for supporting files.
LEMMA NotHeedingIsSound ==
    ASSUME Typed', look'.kind \in {"none", "support"}
    PROVE  SearchInv'
  <1>1. ~Heeding' /\ look'.kind # "list" /\ look'.kind # "page"
    BY DEF Heeding
  <1> QED
    BY <1>1 DEF SearchInv, FilesWereSeen, FoundWasThere, NothingLost, ListIsWhole, PagesGoOn

\* A supporting file is one more path that was found.
LEMMA SupportingFileKeeps ==
    ASSUME SearchInv, SupportingFile
    PROVE  SearchInv'
  <1> DEFINE p == Visiting.path
             more == IF Last(p) = SkillFile THEN <<>> ELSE <<PathItem(p)>>
             zero == 0
             no == FALSE
  <1>1. /\ look.kind = "support" /\ look.agenda # <<>> /\ Walking
        /\ look' = Visited(more, zero, no) /\ UNCHANGED <<world, result, interrupted>>
    BY DEF SupportingFile, Going
  <1>2. Typed /\ IsWalk(look)
    BY <1>1, WalkingIs DEF SearchInv
  <1>3. p \in Paths /\ look.hits \in 0..MaxMatches /\ look.hits < MaxMatches
    BY <1>1, <1>2, AgendaIs DEF Visiting
  <1>4. more \in Seq(Item)
    <2> HIDE DEF p
    <2>1. PathItem(p) \in Item
      BY <1>3 DEF PathItem, Item
    <2> DEFINE item == PathItem(p)
    <2> HIDE DEF item
    <2>2. <<item>> \in Seq(Item) /\ <<>> \in Seq(Item)
      BY <2>1 DEF item
    <2> QED
      BY <2>2 DEF item
  <1>5. zero \in Nat /\ no \in BOOLEAN /\ look.hits + zero <= MaxMatches
        /\ (look.hits + zero = MaxMatches => no)
    BY <1>3, SearchAssumption
  <1> HIDE DEF more, zero, no, p
  <1>6. IsWalk(Visited(more, zero, no)) /\ Visited(more, zero, no).kind = look.kind
    BY <1>1, <1>2, <1>4, <1>5, VisitedIs
  <1>7. Typed'
    <2>1. UNCHANGED <<tree, since, result, interrupted>> /\ missed' \subseteq Paths /\ changes' \in 0..MaxChanges
      BY <1>1, <1>2 DEF world, Typed, WorldSound
    <2> QED
      BY <1>1, <1>2, <1>6, <2>1, StepKeeps
  <1> QED
    BY <1>1, <1>6, <1>7, NotHeedingIsSound

\* The body and the first supporting files are a result.
LEMMA SkillDoneKeeps ==
    ASSUME SearchInv, SkillDone
    PROVE  SearchInv'
  <1> DEFINE f == look.found
             kind(k) == f[k].kind
             B == {k \in DOMAIN f : kind(k) = "body"}
             F == {k \in DOMAIN f : kind(k) = "path"}
             body == At(f, B)
             files == At(f, F)
             n == Min({Len(files), MaxSupporting})
             some == SubSeq(files, 1, n)
             all == body \o some
  <1>1. look.kind = "support" /\ End(Found(all, {}))
    BY DEF SkillDone
  <1>2. f \in Seq(Item)
    <2>1. IsWalk(look)
      BY <1>1, WalkingIs DEF SearchInv, Walking
    <2> QED
      BY <2>1 DEF IsWalk
  <1>3. B \subseteq 1..Len(f) /\ F \subseteq 1..Len(f)
    BY <1>2
  <1> HIDE DEF f, B, F
  <1>4. body \in Seq(Item)
    BY <1>2, <1>3, AtIs
  <1>5. files \in Seq(Item)
    BY <1>2, <1>3, AtIs
  <1> HIDE DEF body, files
  <1>6. n \in 0..Len(files)
    <2> DEFINE m == Len(files)
    <2>1. m \in Nat /\ MaxSupporting \in Nat /\ m \in Int /\ MaxSupporting \in Int
      <3>1. MaxSupporting \in Nat
        BY SkillsAssumption
      <3>2. m \in Nat
        BY <1>5
      <3> HIDE DEF m
      <3> QED
        BY <3>1, <3>2
    <2> HIDE DEF m
    <2>2. Min({m, MaxSupporting}) \in {m, MaxSupporting} /\ Min({m, MaxSupporting}) <= m
      BY <2>1, TwoIs
    <2> QED
      BY <2>1, <2>2 DEF m
  <1> HIDE DEF n
  <1>7. some \in Seq(Item)
    BY <1>5, <1>6, Halving
  <1> HIDE DEF some
  <1>8. all \in Seq(Item)
    BY <1>4, <1>7, ConcatProperties
  <1> HIDE DEF all
  <1>9. Found(all, {}) \in Results
    BY <1>8, FoundIs DEF NoteSets
  <1> QED
    BY <1>1, <1>9, EndIsSound

\* Where the frontmatter of a text ends.
LEMMA CloseIs ==
    ASSUME NEW lines \in Seq(STRING), Closings(lines) # {}
    PROVE  /\ Close(lines) \in 2..Len(lines) /\ lines[Close(lines)] = Delimiter
           /\ \A k \in Closings(lines) : Close(lines) <= k
           /\ Len(lines) \in Nat
  <1>1. Len(lines) \in Nat
    OBVIOUS
  <1>2. Closings(lines) \subseteq Nat
    BY <1>1 DEF Closings
  <1> DEFINE C == Closings(lines)
  <1> HIDE DEF C
  <1>3. \E c \in C : \A k \in C : c <= k
    BY <1>2, SmallestExists DEF C
  <1>4. Min(C) \in C /\ \A k \in C : Min(C) <= k
    BY <1>3, Zenon DEF Min
  <1>5. Close(lines) \in Closings(lines) /\ \A k \in Closings(lines) : Close(lines) <= k
    BY <1>4 DEF Close, C
  <1> QED
    BY <1>1, <1>5 DEF Closings

\* A skill that is used begins with its body and a walk of its directory.
LEMMA UseSkillKeeps ==
    ASSUME SearchInv, NEW n \in SkillNames, UseSkill(n)
    PROVE  SearchInv'
  <1> DEFINE d == SkillDir(n)
             lines == tree[SkillPath(d)].lines
             body == Body(lines)
             w == Walk([kind |-> "support"], d)
             found == [k \in DOMAIN body |-> [kind |-> "body", text |-> body[k]]]
             v == [w EXCEPT !.found = found]
  <1>1. Loadable(n) /\ Begin(v)
    BY DEF UseSkill
  <1>2. d \in Seq(STRING)
    <2> DEFINE e == DirectoryOf(known[n])
    <2>1. e \in Seq(STRING)
      BY SkillsAssumption, PathsAre DEF DirectoryOf
    <2>2. n \in STRING
      BY SkillsAssumption
    <2> HIDE DEF e
    <2>3. Append(e, n) \in Seq(STRING)
      BY <2>1, <2>2, AppendProperties
    <2> QED
      BY <2>3 DEF SkillDir, e
  <1> HIDE DEF d
  <1>3. body \in Seq(STRING)
    <2>1. IsFile(NodeAt(tree, SkillPath(d))) /\ Understood(NodeAt(tree, SkillPath(d)).lines)
      BY <1>1 DEF Loadable, d
    <2>2. tree[SkillPath(d)] \in Node /\ NodeAt(tree, SkillPath(d)) = tree[SkillPath(d)]
          /\ IsFile(tree[SkillPath(d)])
      <3>1. IsTree(tree)
        BY DEF SearchInv, Typed, WorldSound
      <3> QED
        BY <2>1, <3>1, NodeIs
    <2>3. lines \in Seq(STRING) /\ Understood(lines)
      BY <2>1, <2>2, NodesAre
    <2> HIDE DEF lines
    <2>4. Close(lines) \in 2..Len(lines) /\ Len(lines) \in Nat
      BY <2>3, CloseIs DEF Understood
    <2> DEFINE c == Close(lines)
    <2>5. c \in 0..Len(lines)
      BY <2>4
    <2> HIDE DEF c
    <2>6. SubSeq(lines, c + 1, Len(lines)) \in Seq(STRING)
      BY <2>3, <2>5, Halving
    <2> QED
      BY <2>6 DEF Body, c
  <1> HIDE DEF body
  <1>4. found \in Seq(Item)
    <2>1. \A k \in DOMAIN body : [kind |-> "body", text |-> body[k]] \in Item
      BY <1>3 DEF Item
    <2>2. DOMAIN body = 1..Len(body) /\ Len(body) \in Nat
      BY <1>3
    <2>3. found \in [1..Len(body) -> Item]
      BY <2>1, <2>2
    <2> HIDE DEF found
    <2> QED
      BY <2>2, <2>3
  <1> HIDE DEF found
  <1>5. IsWalk(w) /\ w.kind = "support"
    <2> DEFINE query == [kind |-> "support"]
    <2>1. query.kind = "support"
      OBVIOUS
    <2>2. w = Walk(query, d)
      OBVIOUS
    <2> HIDE DEF query, w
    <2> QED
      BY <1>2, <2>1, <2>2, WalkIs DEF SearchInv
  <1> HIDE DEF w
  <1>6. /\ v \in [kind : {"glob", "grep", "support"}, root : {v.root}, query : {v.query},
                  found : Seq(Item), hits : 0..MaxMatches, stopped : BOOLEAN, agenda : Seq(Entry)]
        /\ v.kind = "support" /\ v.root = w.root /\ v.query = w.query /\ v.hits = w.hits
        /\ v.agenda = w.agenda /\ v.stopped = w.stopped
    BY <1>4, <1>5 DEF IsWalk
  <1> HIDE DEF v
  <1>7. IsWalk(v)
    BY <1>5, <1>6 DEF IsWalk
  <1>8. Typed' /\ look' = v
    BY <1>1, <1>7, BeginKeeps DEF SearchInv, IsLook, Begin
  <1> QED
    BY <1>6, <1>8, NotHeedingIsSound

-----------------------------------------------------------------------------
(* What a SKILL.md declares.                                               *)

\* The k-th line is the last one with that key.
LastWith(meta, key, k) ==
    /\ meta[k] \in DOMAIN KeyValue /\ KeyValue[meta[k]].key = key
    /\ \A l \in (k + 1)..Len(meta) :
          meta[l] \in DOMAIN KeyValue => KeyValue[meta[l]].key # key

\* Some lines of a text.
LEMMA MiddleIs ==
    ASSUME NEW lines \in Seq(STRING), NEW c \in 2..Len(lines)
    PROVE  LET m == SubSeq(lines, 2, c - 1) IN
           /\ m \in Seq(STRING) /\ Len(m) = c - 2 /\ Len(lines) \in Nat
           /\ \A k \in 1..c - 2 : m[k] = lines[k + 1]
  <1> DEFINE m == SubSeq(lines, 2, c - 1)
  <1>1. Len(lines) \in Nat /\ c - 2 \in Nat /\ c - 1 \in Nat /\ c - 1 <= Len(lines)
    OBVIOUS
  <1>2. m \in Seq(STRING) /\ Len(m) = c - 2 /\ \A k \in 1..c - 2 : m[k] = lines[k + 1]
    BY <1>1
  <1> QED
    BY <1>1, <1>2

\* Meta is the value of the last line with that key.
LEMMA MetaIs ==
    ASSUME NEW lines \in Seq(STRING), Closings(lines) # {}, NEW key
    PROVE  LET meta == Frontmatter(lines) IN
           /\ \A k \in DOMAIN meta : LastWith(meta, key, k) => Meta(lines, key) = KeyValue[meta[k]].value
           /\ Meta(lines, key) # "" =>
                 \E k \in DOMAIN meta : LastWith(meta, key, k) /\ KeyValue[meta[k]].value = Meta(lines, key)
  <1> DEFINE meta == Frontmatter(lines)
             n == Len(meta)
             W == {k \in DOMAIN meta : meta[k] \in DOMAIN KeyValue /\ KeyValue[meta[k]].key = key}
             g == Max(W)
  <1>1. meta \in Seq(STRING)
    BY CloseIs, MiddleIs DEF Frontmatter
  <1>2. n \in Nat /\ DOMAIN meta = 1..n
    <2> HIDE DEF meta
    <2> QED
      BY <1>1
  <1>3. Meta(lines, key) = IF W = {} THEN "" ELSE KeyValue[meta[g]].value
    BY DEF Meta
  <1> HIDE DEF meta, n
  <1>4. IsFiniteSet(W) /\ W \subseteq Nat /\ W \subseteq 1..n
    <2> DEFINE I == 1..n
    <2>1. W \subseteq I
      BY <1>2
    <2>3. I \subseteq Nat
      BY <1>2
    <2>4. IsFiniteSet(I)
      BY <1>2, FS_Interval
    <2> HIDE DEF I, W
    <2>2. IsFiniteSet(W)
      BY <2>1, <2>4, FS_Subset
    <2> QED
      BY <2>1, <2>2, <2>3 DEF I
  <1>5. ASSUME W # {} PROVE g \in W /\ \A k \in W : k <= g
    <2> HIDE DEF W
    <2> QED
      BY <1>4, <1>5, GreatestIs
  <1> HIDE DEF g
  <1>6. ASSUME NEW k \in DOMAIN meta, LastWith(meta, key, k)
        PROVE  Meta(lines, key) = KeyValue[meta[k]].value
    <2>1. k \in W
      BY <1>6 DEF LastWith
    <2>2. g \in W /\ k <= g /\ k \in Nat /\ g \in 1..n
      BY <1>4, <1>5, <2>1
    <2>3. g \in (k + 1)..n => FALSE
      BY <1>6, <2>2 DEF LastWith, n
    <2>4. g = k
      BY <1>2, <2>2, <2>3
    <2> QED
      BY <1>3, <2>1, <2>4
  <1>7. ASSUME Meta(lines, key) # ""
        PROVE  \E k \in DOMAIN meta : LastWith(meta, key, k) /\ KeyValue[meta[k]].value = Meta(lines, key)
    <2>1. W # {} /\ KeyValue[meta[g]].value = Meta(lines, key)
      BY <1>3, <1>7
    <2>2. g \in W /\ \A k \in W : k <= g
      BY <1>5, <2>1
    <2>3. \A l \in (g + 1)..n : l \in 1..n /\ l \notin W
      BY <1>2, <1>4, <2>2
    <2>4. LastWith(meta, key, g)
      BY <1>2, <2>2, <2>3 DEF LastWith, n
    <2> QED
      BY <2>1, <2>2, <2>4
  <1> QED
    BY <1>6, <1>7 DEF meta

\* To declare a name is to be parsed in the directory of that name.
LEMMA DeclaresIs ==
    ASSUME NEW node \in Node, NEW n, NEW dir, Last(dir) = n
    PROVE  /\ Parses(node, dir) => Declares(node, n)
           /\ n \in Valid /\ Declares(node, n) => Parses(node, dir)
  <1> DEFINE lines == node.lines
             Good(meta, c) ==
                 /\ lines[1] = Delimiter /\ lines[c] = Delimiter
                 /\ \A k \in DOMAIN meta : meta[k] \in (Ignored \cup DOMAIN KeyValue) \ {Delimiter}
                 /\ \E k \in DOMAIN meta : LastWith(meta, "name", k) /\ KeyValue[meta[k]].value = n
                 /\ \E k \in DOMAIN meta : LastWith(meta, "description", k) /\ KeyValue[meta[k]].value # ""
  <1>1. Declares(node, n) <=> /\ IsFile(node)
                              /\ \E c \in 2..Len(lines) : Good(SubSeq(lines, 2, c - 1), c)
    BY DEF Declares, LastWith
  <1>2. IsFile(node) => lines \in Seq(STRING)
    BY NodesAre
  <1>3. ASSUME Parses(node, dir) PROVE Declares(node, n)
    <2>1. /\ IsFile(node) /\ lines # <<>> /\ lines[1] = Delimiter /\ Closings(lines) # {}
          /\ ToSet(Frontmatter(lines)) \subseteq Ignored \cup DOMAIN KeyValue
          /\ Meta(lines, "name") = n /\ n \in Valid /\ Meta(lines, "description") # ""
      BY <1>3 DEF Parses, Understood
    <2>2. lines \in Seq(STRING)
      BY <1>2, <2>1
    <2> DEFINE c == Close(lines)
               meta == SubSeq(lines, 2, c - 1)
    <2>3. /\ c \in 2..Len(lines) /\ lines[c] = Delimiter /\ \A k \in Closings(lines) : c <= k
      BY <2>1, <2>2, CloseIs
    <2>4. Frontmatter(lines) = meta
      BY DEF Frontmatter
    <2> HIDE DEF c
    <2>5. meta \in Seq(STRING) /\ Len(meta) = c - 2 /\ Len(lines) \in Nat
          /\ \A k \in 1..c - 2 : meta[k] = lines[k + 1]
      BY <2>2, <2>3, MiddleIs
    <2> HIDE DEF meta, lines
    <2>6. DOMAIN meta = 1..c - 2
      BY <2>5
    <2>7. ASSUME NEW k \in DOMAIN meta PROVE meta[k] \in (Ignored \cup DOMAIN KeyValue) \ {Delimiter}
      <3>1. meta[k] \in Ignored \cup DOMAIN KeyValue
        BY <2>1, <2>4, <2>7 DEF ToSet
      <3>2. k + 1 \in 2..Len(lines) /\ ~ (c <= k + 1) /\ k \in 1..c - 2
        BY <2>3, <2>5, <2>6
      <3>3. meta[k] # Delimiter
        BY <2>3, <2>5, <3>2 DEF Closings
      <3> QED
        BY <3>1, <3>3
    <2>8. Meta(lines, "name") # ""
      BY <2>1, SkillsAssumption
    <2>9. \E k \in DOMAIN meta : LastWith(meta, "name", k) /\ KeyValue[meta[k]].value = n
      <3> DEFINE key == "name"
      <3> HIDE DEF key
      <3>1. Meta(lines, key) # "" =>
                 \E k \in DOMAIN meta : LastWith(meta, key, k) /\ KeyValue[meta[k]].value = Meta(lines, key)
        BY <2>1, <2>2, <2>4, MetaIs
      <3> QED
        BY <2>1, <2>8, <3>1 DEF key
    <2>10. \E k \in DOMAIN meta : LastWith(meta, "description", k) /\ KeyValue[meta[k]].value # ""
      <3> DEFINE key == "description"
      <3> HIDE DEF key
      <3>1. Meta(lines, key) # "" =>
                 \E k \in DOMAIN meta : LastWith(meta, key, k) /\ KeyValue[meta[k]].value = Meta(lines, key)
        BY <2>1, <2>2, <2>4, MetaIs
      <3> QED
        BY <2>1, <3>1 DEF key
    <2>11. Good(meta, c)
      BY <2>1, <2>3, <2>7, <2>9, <2>10
    <2>12. Good(SubSeq(lines, 2, c - 1), c)
      BY <2>11 DEF meta
    <2> HIDE DEF Good
    <2> QED
      BY <1>1, <2>1, <2>3, <2>12
  <1>4. ASSUME n \in Valid, Declares(node, n) PROVE Parses(node, dir)
    <2>1. PICK c \in 2..Len(lines) : Good(SubSeq(lines, 2, c - 1), c)
      <3> HIDE DEF Good
      <3> QED
        BY <1>1, <1>4
    <2>2. lines \in Seq(STRING) /\ IsFile(node)
      BY <1>1, <1>2, <1>4
    <2> DEFINE meta == SubSeq(lines, 2, c - 1)
    <2>3. meta \in Seq(STRING) /\ Len(meta) = c - 2 /\ Len(lines) \in Nat
          /\ \A k \in 1..c - 2 : meta[k] = lines[k + 1]
      BY <2>2, MiddleIs
    <2>4. Good(meta, c)
      BY <2>1
    <2> HIDE DEF meta, lines
    <2>5. DOMAIN meta = 1..c - 2 /\ c \in Closings(lines)
      <3>1. c \in 2..Len(lines)
        BY DEF lines
      <3>2. DOMAIN meta = 1..c - 2
        BY <2>3
      <3>3. lines[c] = Delimiter
        BY <2>4
      <3> QED
        BY <3>1, <3>2, <3>3 DEF Closings
    <2>6. Close(lines) \in 2..Len(lines) /\ lines[Close(lines)] = Delimiter /\ Close(lines) <= c
      BY <2>2, <2>5, CloseIs
    <2>7. Close(lines) = c
      <3> DEFINE d == Close(lines)
                 k == d - 1
      <3>1. d \in 2..Len(lines) /\ lines[d] = Delimiter /\ d <= c
        BY <2>6
      <3> HIDE DEF d
      <3>2. ASSUME d # c PROVE FALSE
        <4>1. k \in 1..c - 2 /\ k + 1 = d
          BY <2>3, <3>1, <3>2
        <4> HIDE DEF k
        <4>2. meta[k] = Delimiter
          BY <2>3, <3>1, <4>1
        <4> QED
          BY <2>4, <2>5, <4>1, <4>2
      <3> QED
        BY <3>2 DEF d
    <2>8. Frontmatter(lines) = meta
      BY <2>7 DEF Frontmatter, meta
    <2>9. ToSet(meta) \subseteq Ignored \cup DOMAIN KeyValue
      BY <2>4 DEF ToSet
    <2>10. Meta(lines, "name") = n
      <3> DEFINE key == "name"
      <3> HIDE DEF key
      <3>1. \A k \in DOMAIN meta : LastWith(meta, key, k) => Meta(lines, key) = KeyValue[meta[k]].value
        BY <2>2, <2>5, <2>8, MetaIs
      <3> QED
        BY <2>4, <3>1 DEF key
    <2>11. Meta(lines, "description") # ""
      <3> DEFINE key == "description"
      <3> HIDE DEF key
      <3>1. \A k \in DOMAIN meta : LastWith(meta, key, k) => Meta(lines, key) = KeyValue[meta[k]].value
        BY <2>2, <2>5, <2>8, MetaIs
      <3> QED
        BY <2>4, <3>1 DEF key
    <2>12. lines # <<>>
      BY <2>3
    <2>13. lines[1] = Delimiter
      BY <2>4
    <2> HIDE DEF Good
    <2> QED
      BY <1>4, <2>2, <2>5, <2>8, <2>9, <2>10, <2>11, <2>12, <2>13 DEF Parses, Understood, lines
  <1> QED
    BY <1>3, <1>4

-----------------------------------------------------------------------------
(* Discovery.                                                              *)

Origins == {"user", "project"}
Home(s, n) == Append(DirectoryOf(s), n)

Todo == [list : {TRUE}, source : Origins]
        \cup [list : {FALSE}, source : Origins, path : Paths, isDir : BOOLEAN]

ScanTyped ==
    /\ scan \in Seq(Todo)
    /\ \A k \in 1..Len(scan) : ~scan[k].list =>
          scan[k].path # <<>> /\ Front(scan[k].path) = DirectoryOf(scan[k].source)
    /\ known \in [SkillNames -> Origins \cup {Unknown}]
    /\ problems \subseteq Paths
    /\ started \in BOOLEAN
    /\ ~started => look = NoLook
    /\ started => scan = <<>>

\* A directory of skills, or what is in it under a name, is still to be read.
Coming(s, n) ==
    \E k \in 1..Len(scan) :
        /\ scan[k].source = s
        /\ ~scan[k].list => scan[k].path = Home(s, n) /\ scan[k].isDir

UserFirst ==
    \A j, k \in 1..Len(scan) : j < k /\ scan[j].source = "project" => scan[k].source = "project"

\* What has been found of a name, and what it is found to be.
FoundSoFar(n) ==
    /\ known[n] = "project" => \A k \in 1..Len(scan) : scan[k].source = "project"
    /\ \A s \in Origins :
          /\ known[n] = s => Installed(s, n) \in {"skill", "changing"}
          /\ Installed(s, n) = "skill" => Coming(s, n) \/ known[n] \in {s, "project"}
          /\ Installed(s, n) = "malformed" => Coming(s, n) \/ SkillPath(Home(s, n)) \in problems

Layered == ~started => UserFirst /\ \A n \in Valid \cap SkillNames : FoundSoFar(n)

SkillsInv == SearchInv /\ ScanTyped /\ Layered

\* Where a skill of that name lives.
LEMMA HomeIs ==
    ASSUME NEW s \in Origins, NEW n \in SkillNames
    PROVE  /\ DirectoryOf(s) \in Paths /\ DirectoryOf(s) \in Seq(STRING)
           /\ Home(s, n) \in Paths /\ Home(s, n) # <<>>
           /\ Front(Home(s, n)) = DirectoryOf(s) /\ Last(Home(s, n)) = n
           /\ SkillPath(Home(s, n)) \in Paths /\ SkillPath(Home(s, n)) # <<>>
           /\ Front(SkillPath(Home(s, n))) = Home(s, n)
  <1> DEFINE d == DirectoryOf(s)
             h == Append(d, n)
             f == Append(h, SkillFile)
  <1>1. d \in {UserSkills, ProjectSkills} /\ d \in Paths /\ d \in Seq(STRING)
    BY SkillsAssumption, PathsAre DEF DirectoryOf
  <1>2. n \in STRING /\ SkillFile \in STRING
    BY SkillsAssumption
  <1>3. h \in Paths
    BY <1>1, SkillsAssumption
  <1> HIDE DEF d
  <1>4. h # <<>> /\ Front(h) = d /\ Last(h) = n /\ h \in Seq(STRING)
    BY <1>1, <1>2, ChildIs
  <1> HIDE DEF h
  <1>5. SkillPath(h) \in Paths
    BY <1>1, <1>3, <1>4, SkillsAssumption
  <1>6. f # <<>> /\ Front(f) = h
    BY <1>2, <1>4, ChildIs
  <1>7. f = SkillPath(h)
    BY DEF SkillPath
  <1> QED
    BY <1>1, <1>3, <1>4, <1>5, <1>6, <1>7 DEF Home, h, d

\* What is installed is known while it is steady.
LEMMA InstalledIs ==
    ASSUME NEW s, NEW n
    PROVE  LET node == tree[SkillPath(Home(s, n))]
               steady == Steady(Home(s, n)) /\ Steady(SkillPath(Home(s, n)))
           IN /\ Installed(s, n) \in {"changing", "nothing", "skill", "malformed"}
              /\ Installed(s, n) = "changing" <=> ~steady
              /\ Installed(s, n) = "nothing" => node = Absent
              /\ Installed(s, n) = "skill" => node # Absent /\ Declares(node, n)
              /\ Installed(s, n) = "malformed" => node # Absent /\ ~Declares(node, n)
  <1> DEFINE h == Append(DirectoryOf(s), n)
             node == tree[SkillPath(h)]
             steady == Steady(h) /\ Steady(SkillPath(h))
  <1>1. Installed(s, n) = IF ~steady THEN "changing"
                          ELSE IF node = Absent THEN "nothing"
                          ELSE IF Declares(node, n) THEN "skill" ELSE "malformed"
    BY DEF Installed
  <1> HIDE DEF node, steady
  <1>2. /\ Installed(s, n) \in {"changing", "nothing", "skill", "malformed"}
        /\ Installed(s, n) = "changing" <=> ~steady
        /\ Installed(s, n) = "nothing" => node = Absent
        /\ Installed(s, n) = "skill" => node # Absent /\ Declares(node, n)
        /\ Installed(s, n) = "malformed" => node # Absent /\ ~Declares(node, n)
    BY <1>1
  <1> QED
    BY <1>2 DEF node, steady, Home

\* What is steady has been so.
LEMMA SteadyWas ==
    ASSUME Typed, NEW p \in Paths, Steady(p)', missed \subseteq missed',
           UNCHANGED <<tree, since>> \/ \E new : Changed(new)
    PROVE  Steady(p) /\ tree'[p] = tree[p]
  <1>1. since'[p] = {tree'[p]} /\ \A q \in missed : ~Within(p, q)
    BY DEF Steady
  <1>3. CASE UNCHANGED <<tree, since>>
    BY <1>1, <1>3 DEF Steady
  <1>4. CASE \E new : Changed(new)
    <2>1. PICK new : Watching /\ tree' = new /\ since' = [q \in Paths |-> since[q] \cup {new[q]}]
      BY <1>4 DEF Changed
    <2>3. tree[p] \in since[p]
      BY <2>1 DEF Typed, WorldSound
    <2>2. since'[p] = since[p] \cup {new[p]} /\ since'[p] = {new[p]}
      BY <1>1, <2>1
    <2> QED
      BY <1>1, <2>1, <2>2, <2>3 DEF Steady
  <1> QED
    BY <1>3, <1>4

\* What is installed does not change: it is changing, for good.
LEMMA InstalledStays ==
    ASSUME Typed, missed \subseteq missed',
           UNCHANGED <<tree, since>> \/ \E new : Changed(new),
           NEW s \in Origins, NEW n \in SkillNames, Installed(s, n)' # "changing"
    PROVE  /\ Installed(s, n)' = Installed(s, n)
           /\ \A q \in missed' : ~Within(Home(s, n), q) /\ ~Within(SkillPath(Home(s, n)), q)
  <1> DEFINE h == Append(DirectoryOf(s), n)
             f == SkillPath(h)
  <1>1. h \in Paths /\ f \in Paths
    BY HomeIs DEF Home
  <1>2. Installed(s, n)' =
           IF ~(Steady(h)' /\ Steady(f)') THEN "changing"
           ELSE IF tree'[f] = Absent THEN "nothing"
           ELSE IF Declares(tree'[f], n) THEN "skill" ELSE "malformed"
    BY DEF Installed
  <1>3. Installed(s, n) =
           IF ~(Steady(h) /\ Steady(f)) THEN "changing"
           ELSE IF tree[f] = Absent THEN "nothing"
           ELSE IF Declares(tree[f], n) THEN "skill" ELSE "malformed"
    BY DEF Installed
  <1>4. h = Home(s, n) /\ f = SkillPath(Home(s, n))
    BY DEF Home
  <1> HIDE DEF h, f
  <1>5. Steady(h)' /\ Steady(f)'
    BY <1>2
  <1>6. Steady(h)
    BY <1>1, <1>5, SteadyWas
  <1>7. Steady(f) /\ tree'[f] = tree[f]
    BY <1>1, <1>5, SteadyWas
  <1>8. \A q \in missed' : ~Within(h, q) /\ ~Within(f, q)
    BY <1>5 DEF Steady
  <1> QED
    BY <1>2, <1>3, <1>4, <1>5, <1>6, <1>7, <1>8

\* What cannot be read is not found, and changes nothing of what has been.
LEMMA MissedIsSound ==
    ASSUME SkillsInv, scan # <<>>, scan' = Tail(scan),
           UNCHANGED <<look, tree, since, known, started>>,
           NEW q \in Paths, missed' = missed \cup {q},
           problems \subseteq problems', problems' \subseteq Paths,
           \A o \in Origins, n \in SkillNames :
              scan[1].source = o /\ (~scan[1].list => scan[1].path = Home(o, n))
                 => Within(Home(o, n), q) \/ Within(SkillPath(Home(o, n)), q)
    PROVE  ScanTyped' /\ Layered'
  <1> DEFINE tail == Tail(scan)
  <1>1. ScanTyped /\ scan \in Seq(Todo) /\ Typed
    BY DEF SkillsInv, ScanTyped, SearchInv
  <1>2. /\ scan[1] \in Todo /\ tail \in Seq(Todo) /\ Len(tail) \in Nat /\ Len(scan) = Len(tail) + 1
        /\ \A k \in 1..Len(tail) : tail[k] = scan[k + 1] /\ k + 1 \in 1..Len(scan)
    BY <1>1
  <1> HIDE DEF tail
  <1>3. scan' = tail
    BY DEF tail
  <1>4. ScanTyped'
    <2>1. \A k \in 1..Len(tail) : ~tail[k].list =>
             tail[k].path # <<>> /\ Front(tail[k].path) = DirectoryOf(tail[k].source)
      BY <1>1, <1>2 DEF ScanTyped
    <2> QED
      BY <1>1, <1>2, <1>3, <2>1 DEF ScanTyped
  <1>5. ASSUME ~started PROVE UserFirst'
    <2>1. UserFirst
      BY <1>5 DEF SkillsInv, Layered
    <2>2. ASSUME NEW j \in 1..Len(tail), NEW k \in 1..Len(tail), j < k, tail[j].source = "project"
          PROVE  tail[k].source = "project"
      <3>1. j + 1 < k + 1
        BY <1>2, <2>2
      <3> QED
        BY <1>2, <2>1, <2>2, <3>1 DEF UserFirst
    <2> QED
      BY <1>3, <2>2 DEF UserFirst
  <1>6. ASSUME ~started, NEW n \in Valid \cap SkillNames PROVE FoundSoFar(n)'
    <2>1. FoundSoFar(n)
      BY <1>6 DEF SkillsInv, Layered
    <2>3. known[n] = "project" => \A k \in 1..Len(tail) : tail[k].source = "project"
      BY <1>2, <2>1 DEF FoundSoFar
    <2>4. ASSUME NEW o \in Origins, Installed(o, n)' # "changing"
          PROVE  Installed(o, n)' = Installed(o, n) /\ (Coming(o, n) => Coming(o, n)')
      <3>1. /\ Installed(o, n)' = Installed(o, n)
            /\ \A x \in missed' : ~Within(Home(o, n), x) /\ ~Within(SkillPath(Home(o, n)), x)
        <4>1. missed \subseteq missed' /\ UNCHANGED <<tree, since>> /\ n \in SkillNames
          OBVIOUS
        <4> QED
          BY <1>1, <2>4, <4>1, InstalledStays
      <3>2. ASSUME Coming(o, n) PROVE Coming(o, n)'
        <4>1. PICK k \in 1..Len(scan) : /\ scan[k].source = o
                                        /\ ~scan[k].list => scan[k].path = Home(o, n) /\ scan[k].isDir
          BY <3>2 DEF Coming
        <4>2. k # 1
          BY <3>1, <4>1
        <4> DEFINE i == k - 1
        <4>3. i \in 1..Len(tail) /\ i + 1 = k
          BY <1>2, <4>2
        <4> HIDE DEF i
        <4>4. tail[i] = scan[k]
          BY <1>2, <4>3
        <4> QED
          BY <1>3, <4>1, <4>3, <4>4 DEF Coming
      <3> QED
        BY <3>1, <3>2
    <2>5. ASSUME NEW o \in Origins
          PROVE  /\ known[n] = o => Installed(o, n)' \in {"skill", "changing"}
                 /\ Installed(o, n)' = "skill" => Coming(o, n)' \/ known[n] \in {o, "project"}
                 /\ Installed(o, n)' = "malformed" => Coming(o, n)' \/ SkillPath(Home(o, n)) \in problems'
      <3>1. CASE Installed(o, n)' = "changing"
        BY <3>1
      <3>2. CASE Installed(o, n)' # "changing"
        BY <2>1, <2>4, <3>2 DEF FoundSoFar
      <3> QED
        BY <3>1, <3>2
    <2> QED
      BY <1>3, <2>3, <2>5 DEF FoundSoFar
  <1> QED
    BY <1>4, <1>5, <1>6 DEF Layered

\* A directory of skills that cannot be read.
LEMMA ScanDirectoryFailsIsSound ==
    ASSUME SkillsInv, ScanDirectoryFails
    PROVE  ScanTyped' /\ Layered'
  <1>1. PICK d : d = DirectoryOf(Head(scan).source)
    OBVIOUS
  <1>2. /\ scan # <<>> /\ Head(scan).list /\ scan' = Tail(scan)
        /\ UNCHANGED <<look, tree, since, known, started, problems>>
        /\ missed' = missed \cup {d}
    BY <1>1 DEF ScanDirectoryFails, Scanned, Fails
  <1>3. scan \in Seq(Todo) /\ problems \subseteq Paths
    BY DEF SkillsInv, ScanTyped
  <1>4. Head(scan) = scan[1] /\ scan[1] \in Todo /\ scan[1].source \in Origins
    <2>1. Head(scan) = scan[1] /\ scan[1] \in Todo
      BY <1>2, <1>3
    <2> QED
      BY <2>1 DEF Todo
  <1>5. d \in Paths
    BY <1>1, <1>4, HomeIs, SkillsAssumption DEF DirectoryOf
  <1>6. ASSUME NEW o \in Origins, NEW n \in SkillNames, scan[1].source = o
        PROVE  Within(Home(o, n), d)
    <2>1. d \in Seq(STRING) /\ n \in STRING /\ Home(o, n) = Append(d, n)
      BY <1>1, <1>4, <1>5, <1>6, PathsAre, SkillsAssumption DEF Home
    <2> QED
      BY <2>1, ChildIs
  <1> QED
    BY <1>2, <1>3, <1>5, <1>6, MissedIsSound

\* And a SKILL.md.
LEMMA ScanEntryFailsIsSound ==
    ASSUME SkillsInv, ScanEntryFails
    PROVE  ScanTyped' /\ Layered'
  <1>1. PICK p, q : p = Head(scan).path /\ q = SkillPath(p)
    OBVIOUS
  <1>2. /\ scan # <<>> /\ ~Head(scan).list /\ scan' = Tail(scan)
        /\ UNCHANGED <<look, tree, since, known, started>>
        /\ problems' = problems \cup {q} /\ missed' = missed \cup {q}
    BY <1>1 DEF ScanEntryFails, Scanned, Fails
  <1>3. ScanTyped /\ scan \in Seq(Todo) /\ problems \subseteq Paths
    BY DEF SkillsInv, ScanTyped
  <1>4. Head(scan) = scan[1] /\ scan[1] \in Todo /\ 1 \in 1..Len(scan)
    BY <1>2, <1>3
  <1>5. p \in Paths /\ p # <<>> /\ Front(p) \in {UserSkills, ProjectSkills}
    BY <1>1, <1>2, <1>3, <1>4 DEF ScanTyped, Todo, DirectoryOf
  <1>6. q \in Paths
    BY <1>1, <1>5, SkillsAssumption
  <1>7. ASSUME NEW o \in Origins, NEW n \in SkillNames, scan[1].path = Home(o, n)
        PROVE  Within(SkillPath(Home(o, n)), q)
    <2>1. q = SkillPath(Home(o, n)) /\ q \in Seq(STRING)
      BY <1>1, <1>4, <1>6, <1>7, PathsAre
    <2> QED
      BY <2>1, WithinTwice
  <1> QED
    BY <1>2, <1>3, <1>4, <1>6, <1>7, MissedIsSound

\* Nothing but what is still to be scanned differs: it holds as long as that is
\* right.
LEMMA ScanDirectoryIsSound ==
    ASSUME SkillsInv, ScanDirectory
    PROVE  ScanTyped' /\ Layered'
  <1>1. PICK s, d : s = Head(scan).source /\ d = DirectoryOf(s)
    OBVIOUS
  <1> DEFINE entries == SeenIn(d)
             es == [k \in DOMAIN entries |-> Parse(s, entries[k])]
             tail == Tail(scan)
             next == es \o tail
  <1>2. /\ scan # <<>> /\ Head(scan).list /\ scan' = next
        /\ known' = known /\ problems' = problems /\ started' = started
        /\ look' = look /\ tree' = tree /\ since' = since /\ missed' = missed
    BY <1>1 DEF ScanDirectory, Scanned, vars
  <1>3. ScanTyped /\ scan \in Seq(Todo) /\ IsTree(tree)
    BY DEF SkillsInv, ScanTyped, SearchInv, Typed, WorldSound
  <1>4. /\ Head(scan) \in Todo /\ Head(scan) = scan[1] /\ 1 \in 1..Len(scan)
        /\ tail \in Seq(Todo) /\ Len(tail) \in Nat /\ Len(scan) = Len(tail) + 1
        /\ \A k \in 1..Len(tail) : tail[k] = scan[k + 1] /\ k + 1 \in 1..Len(scan)
    BY <1>2, <1>3
  <1>5. s \in Origins
    BY <1>1, <1>4 DEF Todo
  <1>6. d \in Paths
    BY <1>1, <1>5, SkillsAssumption DEF DirectoryOf
  <1>7. /\ entries \in Seq(Entry)
        /\ \A k \in 1..Len(entries) : entries[k].path # <<>> /\ Front(entries[k].path) = d
        /\ \A c \in Paths \ {<<>>} : Front(c) = d /\ tree[c] # Absent =>
              \E k \in 1..Len(entries) : entries[k] = Seen(c)
    BY <1>3, <1>6, SeenInIs
  <1> HIDE DEF entries, tail
  <1>8. \A e \in Entry : /\ Parse(s, e) \in Todo /\ ~Parse(s, e).list /\ Parse(s, e).source = s
                         /\ Parse(s, e).path = e.path /\ Parse(s, e).isDir = e.isDir
    BY <1>5 DEF Parse, Todo, Entry
  <1>9. es \in Seq(Todo) /\ Len(es) = Len(entries) /\ Len(es) \in Nat
        /\ \A k \in 1..Len(es) : es[k] = Parse(s, entries[k]) /\ entries[k] \in Entry
    <2>1. es = [k \in 1..Len(entries) |-> Parse(s, entries[k])] /\ Len(entries) \in Nat
          /\ \A k \in 1..Len(entries) : entries[k] \in Entry
      BY <1>7
    <2> HIDE DEF es, Todo, Entry
    <2> QED
      BY <1>8, <2>1
  <1> HIDE DEF es
  <1>10. /\ next \in Seq(Todo) /\ Len(next) = Len(es) + Len(tail) /\ Together(es, tail, next)
         /\ \A k \in 1..Len(next) : next[k] = IF k <= Len(es) THEN es[k] ELSE tail[k - Len(es)]
    <2>1. next \in Seq(Todo) /\ Together(es, tail, next)
      BY <1>4, <1>9, ConcatTogether
    <2>2. Len(next) = Len(es) + Len(tail)
      BY <1>4, <1>9, ConcatProperties
    <2>3. \A k \in 1..Len(es) + Len(tail) : next[k] = IF k <= Len(es) THEN es[k] ELSE tail[k - Len(es)]
      BY <1>4, <1>9, ConcatProperties
    <2> HIDE DEF next
    <2> QED
      BY <2>1, <2>2, <2>3
  <1> HIDE DEF next
  <1>11. ScanTyped'
    <2>1. ASSUME NEW k \in 1..Len(next), ~next[k].list
          PROVE  next[k].path # <<>> /\ Front(next[k].path) = DirectoryOf(next[k].source)
      <3>1. CASE \E j \in 1..Len(es) : next[k] = es[j]
        BY <1>1, <1>7, <1>8, <1>9, <3>1
      <3>2. CASE \E j \in 1..Len(tail) : next[k] = tail[j]
        BY <1>3, <1>4, <2>1, <3>2 DEF ScanTyped
      <3> QED
        BY <1>10, <3>1, <3>2 DEF Together
    <2> QED
      BY <1>2, <1>3, <1>10, <2>1 DEF ScanTyped
  <1>12. ASSUME ~started PROVE UserFirst'
    <2>1. UserFirst
      BY <1>12 DEF SkillsInv, Layered
    <2>2. ASSUME NEW j \in 1..Len(next), NEW k \in 1..Len(next), j < k, next[j].source = "project"
          PROVE  next[k].source = "project"
      <3>1. ASSUME s = "project", NEW i \in 1..Len(tail) PROVE tail[i].source = "project"
        <4>1. tail[i] = scan[i + 1] /\ i + 1 \in 1..Len(scan) /\ 1 < i + 1
          BY <1>4, <3>1
        <4> QED
          BY <1>1, <1>4, <2>1, <3>1, <4>1 DEF UserFirst
      <3>2. \A i \in 1..Len(es) : es[i].source = s
        BY <1>8, <1>9
      <3>3. CASE k <= Len(es)
        <4>1. j \in 1..Len(es) /\ k \in 1..Len(es)
          BY <1>9, <2>2, <3>3
        <4> QED
          BY <1>10, <2>2, <3>2, <3>3, <4>1
      <3>4. CASE ~ (k <= Len(es))
        <4>1. k - Len(es) \in 1..Len(tail) /\ next[k] = tail[k - Len(es)]
          BY <1>4, <1>9, <1>10, <3>4
        <4>2. CASE j <= Len(es)
          <5>1. j \in 1..Len(es) /\ next[j] = es[j]
            BY <1>9, <1>10, <4>2
          <5> QED
            BY <2>2, <3>1, <3>2, <4>1, <5>1
        <4>3. CASE ~ (j <= Len(es))
          <5>1. j - Len(es) \in 1..Len(tail) /\ next[j] = tail[j - Len(es)]
            BY <1>4, <1>9, <1>10, <4>3
          <5> DEFINE x == j - Len(es)
                     y == k - Len(es)
          <5>2. x < y /\ x + 1 < y + 1
            BY <1>9, <2>2
          <5>3. /\ x \in 1..Len(tail) /\ y \in 1..Len(tail) /\ next[j] = tail[x] /\ next[k] = tail[y]
            BY <4>1, <5>1
          <5> HIDE DEF x, y
          <5> QED
            BY <1>4, <2>1, <2>2, <5>2, <5>3 DEF UserFirst
        <4> QED
          BY <4>2, <4>3
      <3> QED
        BY <3>3, <3>4
    <2> QED
      BY <1>2, <2>2 DEF UserFirst
  <1>13. ASSUME ~started, NEW n \in Valid \cap SkillNames PROVE FoundSoFar(n)'
    <2>1. FoundSoFar(n)
      BY <1>13 DEF SkillsInv, Layered
    <2>2. \A o : Installed(o, n)' = Installed(o, n)
      BY <1>2 DEF Installed, Steady
    <2>3. ASSUME known[n] = "project", NEW k \in 1..Len(next) PROVE next[k].source = "project"
      <3>1. s = "project"
        BY <1>1, <1>4, <2>1, <2>3 DEF FoundSoFar
      <3>2. CASE \E j \in 1..Len(es) : next[k] = es[j]
        BY <1>8, <1>9, <3>1, <3>2
      <3>3. CASE \E j \in 1..Len(tail) : next[k] = tail[j]
        BY <1>4, <2>1, <2>3, <3>3 DEF FoundSoFar
      <3> QED
        BY <1>10, <3>2, <3>3 DEF Together
    <2>4. ASSUME NEW o \in Origins, Coming(o, n), Installed(o, n) \in {"skill", "malformed"}
          PROVE  Coming(o, n)'
      <3>1. PICK k \in 1..Len(scan) : /\ scan[k].source = o
                                      /\ ~scan[k].list => scan[k].path = Home(o, n) /\ scan[k].isDir
        BY <2>4 DEF Coming
      <3>2. CASE k = 1
        <4>1. o = s
          BY <1>1, <1>4, <3>1, <3>2
        <4> DEFINE h == Home(o, n)
                   f == SkillPath(h)
        <4>2. /\ h \in Paths /\ h # <<>> /\ Front(h) = d
              /\ f \in Paths /\ f # <<>> /\ Front(f) = h
          BY <1>1, <4>1, HomeIs
        <4>3. tree[f] # Absent
          BY <2>4, InstalledIs
        <4> HIDE DEF h, f
        <4>4. tree[h] = Directory
          BY <1>3, <4>2, <4>3 DEF IsTree
        <4>5. PICK i \in 1..Len(entries) : entries[i] = Seen(h)
          BY <1>7, <4>2, <4>4, NodesAre
        <4>6. PICK j \in 1..Len(next) : next[j] = es[i]
          BY <1>9, <1>10, <4>5 DEF Together
        <4>7. next[j].source = o /\ next[j].path = h /\ next[j].isDir
          <5>1. Seen(h).path = h /\ Seen(h).isDir
            BY <4>2, <4>4, SeenIs
          <5> QED
            BY <1>8, <1>9, <4>1, <4>5, <4>6, <5>1
        <4> QED
          BY <1>2, <4>7 DEF Coming, h
      <3>3. CASE k # 1
        <4> DEFINE i == k - 1
        <4>1. i \in 1..Len(tail) /\ i + 1 = k
          BY <1>4, <3>3
        <4> HIDE DEF i
        <4>2. tail[i] = scan[k]
          BY <1>4, <4>1
        <4>3. PICK j \in 1..Len(next) : next[j] = tail[i]
          BY <1>10, <4>1 DEF Together
        <4> QED
          BY <1>2, <3>1, <4>2, <4>3 DEF Coming
      <3> QED
        BY <3>2, <3>3
    <2>5. ASSUME NEW o \in Origins
          PROVE  /\ known[n] = o => Installed(o, n) \in {"skill", "changing"}
                 /\ Installed(o, n) = "skill" => Coming(o, n)' \/ known[n] \in {o, "project"}
                 /\ Installed(o, n) = "malformed" => Coming(o, n)' \/ SkillPath(Home(o, n)) \in problems
      BY <2>1, <2>4 DEF FoundSoFar
    <2> QED
      BY <1>2, <2>2, <2>3, <2>5 DEF FoundSoFar
  <1> QED
    BY <1>2, <1>11, <1>12, <1>13 DEF Layered

\* What one entry says of a name is right, and what others say of it stays so.
LEMMA ScanEntryIsSound ==
    ASSUME SkillsInv, ScanEntry
    PROVE  ScanTyped' /\ Layered'
  <1> DEFINE todo == Head(scan)
             p == todo.path
             s == todo.source
             file == SkillPath(p)
             node == NodeAt(tree, file)
             name == Meta(node.lines, "name")
             counts == todo.isDir /\ (node # Absent \/ IsFile(tree[p]))
             tail == Tail(scan)
  <1>1. /\ scan # <<>> /\ ~todo.list /\ scan' = tail
        /\ known' = IF counts /\ Parses(node, p) THEN [known EXCEPT ![name] = s] ELSE known
        /\ problems' = IF counts /\ ~Parses(node, p) THEN problems \cup {file} ELSE problems
        /\ started' = started /\ look' = look /\ tree' = tree /\ since' = since /\ missed' = missed
    BY DEF ScanEntry, Scanned, vars
  <1>2. ScanTyped /\ scan \in Seq(Todo) /\ IsTree(tree)
    BY DEF SkillsInv, ScanTyped, SearchInv, Typed, WorldSound
  <1>3. /\ todo \in Todo /\ todo = scan[1] /\ 1 \in 1..Len(scan)
        /\ tail \in Seq(Todo) /\ Len(tail) \in Nat /\ Len(scan) = Len(tail) + 1
        /\ \A k \in 1..Len(tail) : tail[k] = scan[k + 1] /\ k + 1 \in 1..Len(scan)
    BY <1>1, <1>2
  <1>4. /\ s \in Origins /\ p \in Paths /\ todo.isDir \in BOOLEAN
        /\ p # <<>> /\ Front(p) = DirectoryOf(s)
    BY <1>1, <1>2, <1>3 DEF Todo, ScanTyped
  <1>5. file \in Paths /\ node = tree[file] /\ node \in Node
    <2>1. DirectoryOf(s) \in {UserSkills, ProjectSkills}
      BY DEF DirectoryOf
    <2>2. file \in Paths
      BY <1>4, <2>1, SkillsAssumption
    <2> QED
      BY <1>2, <2>2 DEF NodeAt, IsTree
  <1>6. ASSUME NEW n \in SkillNames, NEW o \in Origins
        PROVE  p = Home(o, n) <=> DirectoryOf(o) = DirectoryOf(s) /\ Last(p) = n
    <2>1. p \in Seq(STRING) /\ p = Append(Front(p), Last(p))
      BY <1>4, PathsAre, FrontIs
    <2>2. Front(Home(o, n)) = DirectoryOf(o) /\ Last(Home(o, n)) = n
      BY HomeIs
    <2> QED
      BY <1>4, <2>1, <2>2 DEF Home
  <1> HIDE DEF todo, p, s, file, node, name, counts, tail
  <1>7. ScanTyped'
    <2>1. known' \in [SkillNames -> Origins \cup {Unknown}]
      BY <1>1, <1>2, <1>4 DEF ScanTyped
    <2>2. problems' \subseteq Paths
      BY <1>1, <1>2, <1>5 DEF ScanTyped
    <2>3. \A k \in 1..Len(tail) : ~tail[k].list =>
             tail[k].path # <<>> /\ Front(tail[k].path) = DirectoryOf(tail[k].source)
      BY <1>2, <1>3 DEF ScanTyped
    <2> QED
      BY <1>1, <1>2, <1>3, <2>1, <2>2, <2>3 DEF ScanTyped
  <1>8. ASSUME ~started PROVE UserFirst'
    <2>1. UserFirst
      BY <1>8 DEF SkillsInv, Layered
    <2>2. ASSUME NEW j \in 1..Len(tail), NEW k \in 1..Len(tail), j < k, tail[j].source = "project"
          PROVE  tail[k].source = "project"
      <3>1. j + 1 < k + 1
        BY <1>3, <2>2
      <3> QED
        BY <1>3, <2>1, <2>2, <3>1 DEF UserFirst
    <2> QED
      BY <1>1, <2>2 DEF UserFirst
  <1>9. ASSUME ~started, NEW n \in Valid \cap SkillNames PROVE FoundSoFar(n)'
    <2>1. FoundSoFar(n) /\ UserFirst
      BY <1>9 DEF SkillsInv, Layered
    <2>2. \A o : Installed(o, n)' = Installed(o, n)
      BY <1>1 DEF Installed, Steady
    <2>3. known \in [SkillNames -> Origins \cup {Unknown}] /\ known' \in [SkillNames -> Origins \cup {Unknown}]
      BY <1>2, <1>7 DEF ScanTyped
    <2>4. ASSUME s = "project", NEW k \in 1..Len(tail) PROVE tail[k].source = "project"
      <3>1. tail[k] = scan[k + 1] /\ k + 1 \in 1..Len(scan) /\ 1 < k + 1
        BY <1>3, <2>4
      <3> QED
        BY <1>3, <2>1, <2>4, <3>1 DEF UserFirst, s, todo
    <2>5. known[n] = "project" => s = "project" /\ \A k \in 1..Len(tail) : tail[k].source = "project"
      <3>1. known[n] = "project" => \A k \in 1..Len(scan) : scan[k].source = "project"
        BY <2>1 DEF FoundSoFar
      <3>2. known[n] = "project" => s = "project"
        BY <1>3, <3>1 DEF s
      <3>3. known[n] = "project" => \A k \in 1..Len(tail) : tail[k].source = "project"
        BY <1>3, <3>1
      <3> QED
        BY <3>2, <3>3
    <2> DEFINE found == counts /\ Parses(node, p) /\ name = n
    <2>6. found => known'[n] = s
      BY <1>1, <2>3
    <2>7. ~found => known'[n] = known[n]
      BY <1>1, <2>3
    <2>8. found => Last(p) = n /\ Declares(node, n)
      <3>1. Parses(node, p) => name = Last(p)
        BY DEF Parses, name
      <3> QED
        BY <1>5, <3>1, DeclaresIs
    <2>9. ASSUME NEW o \in Origins, Coming(o, n)
          PROVE  \/ \E k \in 1..Len(tail) : /\ tail[k].source = o
                                            /\ ~tail[k].list => tail[k].path = Home(o, n) /\ tail[k].isDir
                 \/ s = o /\ p = Home(o, n) /\ todo.isDir
      <3>1. PICK k \in 1..Len(scan) : /\ scan[k].source = o
                                      /\ ~scan[k].list => scan[k].path = Home(o, n) /\ scan[k].isDir
        BY <2>9 DEF Coming
      <3>2. CASE k = 1
        BY <1>1, <1>3, <3>1, <3>2 DEF s, p
      <3>3. CASE k # 1
        <4> DEFINE i == k - 1
        <4>1. i \in 1..Len(tail) /\ i + 1 = k
          BY <1>3, <3>3
        <4> HIDE DEF i
        <4>2. tail[i] = scan[k]
          BY <1>3, <4>1
        <4> QED
          BY <3>1, <4>1, <4>2
      <3> QED
        BY <3>2, <3>3
    <2>10. \A o \in Origins :
              (\E k \in 1..Len(tail) : /\ tail[k].source = o
                                       /\ ~tail[k].list => tail[k].path = Home(o, n) /\ tail[k].isDir)
                => Coming(o, n)'
      BY <1>1 DEF Coming
    <2>11. ASSUME NEW o \in Origins, s = o, p = Home(o, n), todo.isDir
           PROVE  /\ Installed(o, n) = "skill" => known'[n] = o
                  /\ Installed(o, n) = "malformed" => SkillPath(Home(o, n)) \in problems'
      <3>1. file = SkillPath(Home(o, n)) /\ Last(p) = n
        BY <1>6, <2>11 DEF file
      <3>2. ASSUME Installed(o, n) = "skill" PROVE known'[n] = o
        <4>1. node # Absent /\ Declares(node, n)
          BY <1>5, <3>1, <3>2, InstalledIs
        <4>2. Parses(node, p)
          BY <1>5, <3>1, <4>1, DeclaresIs
        <4>3. name = n
          BY <3>1, <4>2 DEF Parses, name
        <4> QED
          BY <2>6, <2>11, <4>1, <4>2, <4>3 DEF counts
      <3>3. ASSUME Installed(o, n) = "malformed" PROVE SkillPath(Home(o, n)) \in problems'
        <4>1. node # Absent /\ ~Declares(node, n)
          BY <1>5, <3>1, <3>3, InstalledIs
        <4>2. ~Parses(node, p)
          BY <1>5, <3>1, <4>1, DeclaresIs
        <4>3. counts
          BY <2>11, <4>1 DEF counts
        <4> QED
          BY <1>1, <3>1, <4>2, <4>3
      <3> QED
        BY <3>2, <3>3
    <2>12. ASSUME NEW o \in Origins, known'[n] = o PROVE Installed(o, n) \in {"skill", "changing"}
      <3>1. CASE found
        <4>1. o = s
          BY <2>6, <2>12, <3>1
        <4>2. p = Home(o, n)
          BY <1>6, <2>8, <3>1, <4>1
        <4>3. node = tree[SkillPath(Home(o, n))] /\ node # Absent /\ Declares(node, n)
          <5>1. node # Absent
            BY <1>5, <3>1 DEF Parses, IsFile
          <5> QED
            BY <1>5, <2>8, <3>1, <4>2, <5>1 DEF file
        <4>4. Installed(o, n) # "nothing" /\ Installed(o, n) # "malformed"
          BY <4>3, InstalledIs
        <4> QED
          BY <4>4, InstalledIs
      <3>2. CASE ~found
        BY <2>1, <2>7, <2>12, <3>2 DEF FoundSoFar
      <3> QED
        BY <3>1, <3>2
    <2>13. known'[n] = "project" => \A k \in 1..Len(tail) : tail[k].source = "project"
      BY <2>4, <2>5, <2>6, <2>7
    <2>14. \A o \in Origins : known[n] \in {o, "project"} => known'[n] \in {o, "project"}
      <3>1. ASSUME NEW o \in Origins, known[n] \in {o, "project"} PROVE known'[n] \in {o, "project"}
        <4>1. CASE found
          <5>1. known[n] = "project" => known'[n] = "project"
            BY <2>5, <2>6, <4>1
          <5>2. known[n] = o /\ o = "user" => known'[n] \in {o, "project"}
            BY <1>4, <2>6, <4>1 DEF Origins
          <5> QED
            BY <3>1, <5>1, <5>2 DEF Origins
        <4>2. CASE ~found
          BY <2>7, <3>1, <4>2
        <4> QED
          BY <4>1, <4>2
      <3> QED
        BY <3>1
    <2>15. problems \subseteq problems'
      BY <1>1
    <2>16. ASSUME NEW o \in Origins
           PROVE  /\ Installed(o, n) = "skill" => Coming(o, n)' \/ known'[n] \in {o, "project"}
                  /\ Installed(o, n) = "malformed" => Coming(o, n)' \/ SkillPath(Home(o, n)) \in problems'
      <3>1. Installed(o, n) = "skill" => Coming(o, n) \/ known[n] \in {o, "project"}
        BY <2>1 DEF FoundSoFar
      <3>2. Installed(o, n) = "malformed" => Coming(o, n) \/ SkillPath(Home(o, n)) \in problems
        BY <2>1 DEF FoundSoFar
      <3>3. Coming(o, n) => \/ Coming(o, n)'
                            \/ s = o /\ p = Home(o, n) /\ todo.isDir
        BY <2>9, <2>10
      <3> QED
        BY <2>11, <2>14, <2>15, <3>1, <3>2, <3>3
    <2> HIDE DEF found
    <2> QED
      BY <1>1, <2>2, <2>12, <2>13, <2>16 DEF FoundSoFar
  <1> QED
    BY <1>1, <1>7, <1>8, <1>9 DEF Layered

-----------------------------------------------------------------------------
(* Everything together.                                                    *)

\* It all holds when mkr starts.
LEMMA StartIsSound ==
    ASSUME SkillsInit
    PROVE  SkillsInv
  <1>1. /\ tree \in Trees /\ look = NoLook /\ result = NoResult /\ interrupted = FALSE
        /\ since = [p \in Paths |-> {tree[p]}] /\ missed = {} /\ changes = 0
        /\ scan = <<List("user"), List("project")>>
        /\ known = [n \in SkillNames |-> Unknown] /\ problems = {} /\ started = FALSE
    BY DEF SkillsInit, Init, Order
  <1>2. IsTree(tree) /\ MaxChanges \in Nat
    BY <1>1, SearchAssumption
  <1>3. WorldSound
    <2>1. since \in [Paths -> SUBSET Node] /\ \A p \in Paths : tree[p] \in since[p]
      BY <1>1, <1>2 DEF IsTree
    <2>2. Watching
      BY <1>1, PathsAre DEF Watching
    <2>3. changes \in 0..MaxChanges
      BY <1>1, <1>2
    <2> QED
      BY <1>1, <1>2, <2>1, <2>2, <2>3 DEF WorldSound
  <1>4. Typed /\ look.kind = "none"
    BY <1>1, <1>3 DEF Typed, IsLook, Results, NoLook
  <1>5. SearchInv
    BY <1>4 DEF SearchInv, FilesWereSeen, FoundWasThere, NothingLost, ListIsWhole, PagesGoOn, Heeding
  <1>6. /\ scan \in Seq(Todo) /\ Len(scan) = 2 /\ scan[1] = List("user") /\ scan[2] = List("project")
    <2>1. List("user") \in Todo /\ List("project") \in Todo
      BY DEF List, Todo, Origins
    <2> DEFINE a == List("user")
               b == List("project")
    <2>2. scan = <<a, b>> /\ a \in Todo /\ b \in Todo
      BY <1>1, <2>1
    <2> HIDE DEF a, b
    <2>3. scan \in Seq(Todo) /\ Len(scan) = 2 /\ scan[1] = a /\ scan[2] = b
      BY <2>2
    <2> QED
      BY <2>3 DEF a, b
  <1>7. \A k \in 1..Len(scan) : k = 1 \/ k = 2
    BY <1>6
  <1>8. /\ scan[1].source = "user" /\ scan[1].list /\ scan[2].source = "project" /\ scan[2].list
    BY <1>6 DEF List
  <1>9. ScanTyped
    BY <1>1, <1>6, <1>7, <1>8 DEF ScanTyped
  <1>10. UserFirst
    BY <1>7, <1>8 DEF UserFirst
  <1>11. \A n \in SkillNames : FoundSoFar(n)
    <2>1. ASSUME NEW n \in SkillNames PROVE FoundSoFar(n)
      <3>1. known[n] # "user" /\ known[n] # "project"
        BY <1>1 DEF Unknown
      <3>2. \A s \in Origins : Coming(s, n)
        <4>1. 1 \in 1..Len(scan) /\ 2 \in 1..Len(scan)
          BY <1>6
        <4> QED
          BY <1>8, <4>1 DEF Coming, Origins
      <3> QED
        BY <3>1, <3>2 DEF FoundSoFar, Origins
    <2> QED
      BY <2>1
  <1> QED
    BY <1>5, <1>9, <1>10, <1>11 DEF SkillsInv, Layered

\* When the session begins everything has been scanned.
LEMMA StartSessionIsSound ==
    ASSUME SkillsInv, StartSession
    PROVE  SkillsInv'
  <1>1. /\ started' = TRUE /\ problems' = {} /\ since' = [p \in Paths |-> {}] /\ changes' = 0 /\ missed' = {}
        /\ tree' = tree /\ look' = look /\ result' = result /\ interrupted' = interrupted
        /\ scan' = scan /\ known' = known /\ ~started /\ scan = <<>>
    BY DEF StartSession, Unwatch, Scanned
  <1>2. look = NoLook /\ look.kind = "none"
    BY <1>1 DEF SkillsInv, ScanTyped, NoLook
  <1>3. Typed'
    <2>1. since' \in [Paths -> SUBSET Node] /\ ~Watching' /\ changes' \in 0..MaxChanges
      BY <1>1, PathsAre, SearchAssumption DEF Watching
    <2>2. WorldSound'
      BY <1>1, <1>2, <2>1 DEF SkillsInv, SearchInv, Typed, WorldSound
    <2> QED
      BY <1>1, <2>2 DEF SkillsInv, SearchInv, Typed
  <1>4. SearchInv'
    BY <1>1, <1>2, <1>3, NotHeedingIsSound
  <1>5. ScanTyped' /\ Layered'
    BY <1>1 DEF SkillsInv, ScanTyped, Layered
  <1> QED
    BY <1>4, <1>5 DEF SkillsInv

\* What others do while skills are sought.
LEMMA OthersMeanwhile ==
    ASSUME SkillsInv, Others, UNCHANGED skillVars
    PROVE  SkillsInv'
  <1>1. scan' = scan /\ known' = known /\ problems' = problems /\ started' = started
    BY DEF skillVars
  <1>2. SearchInv' /\ Typed
    BY OthersAreSound DEF SkillsInv, SearchInv
  <1>3. Interrupt \/ \E new : IsTree(new) /\ Changed(new)
    BY <1>2, OthersAre
  <1>4. ScanTyped'
    <2>1. look = NoLook => ~Interrupt
      BY DEF Interrupt, Heeding, NoLook
    <2>2. look = NoLook => look' = NoLook
      BY <1>3, <2>1 DEF Changed
    <2> QED
      BY <1>1, <2>2 DEF SkillsInv, ScanTyped
  <1>5. ASSUME ~started, NEW n \in Valid \cap SkillNames PROVE FoundSoFar(n)'
    <2>1. FoundSoFar(n)
      BY <1>5 DEF SkillsInv, Layered
    <2>2. ASSUME NEW s \in Origins, Installed(s, n)' # "changing"
          PROVE  Installed(s, n)' = Installed(s, n)
      <3>1. ~Interrupt
        BY <1>5 DEF SkillsInv, ScanTyped, Interrupt, Heeding, NoLook
      <3>2. PICK new : Changed(new)
        BY <1>3, <3>1
      <3>3. missed \subseteq missed' /\ n \in SkillNames /\ \E any : Changed(any)
        BY <3>2 DEF Changed
      <3> QED
        BY <1>2, <2>2, <3>3, InstalledStays
    <2>3. \A s : Coming(s, n)' <=> Coming(s, n)
      BY <1>1 DEF Coming
    <2>4. ASSUME NEW s \in Origins
          PROVE  /\ known[n] = s => Installed(s, n)' \in {"skill", "changing"}
                 /\ Installed(s, n)' = "skill" => Coming(s, n) \/ known[n] \in {s, "project"}
                 /\ Installed(s, n)' = "malformed" => Coming(s, n) \/ SkillPath(Home(s, n)) \in problems
      <3>1. CASE Installed(s, n)' = "changing"
        BY <3>1
      <3>2. CASE Installed(s, n)' # "changing"
        BY <2>1, <2>2, <3>2 DEF FoundSoFar
      <3> QED
        BY <3>1, <3>2
    <2> QED
      BY <1>1, <2>1, <2>3, <2>4 DEF FoundSoFar
  <1>6. ~started => UserFirst'
    BY <1>1 DEF SkillsInv, Layered, UserFirst
  <1> QED
    BY <1>1, <1>2, <1>4, <1>5, <1>6 DEF SkillsInv, Layered

\* A step of the session leaves alone what was found.
LEMMA SkillToolsAreSound ==
    ASSUME SkillsInv, started, SkillTools, UNCHANGED skillVars
    PROVE  SkillsInv'
  <1>1. scan' = scan /\ known' = known /\ problems' = problems /\ started' = started
    BY DEF skillVars
  <1>2. SearchInv'
    <2>1. SkillRefused => SearchInv'
      <3>1. SkillRefused => End(ToolError) /\ ToolError \in Results
        BY DEF SkillRefused, Results
      <3> QED
        BY <3>1, EndIsSound DEF SkillsInv
    <2> QED
      BY <2>1, ToolsAreSound, UseSkillKeeps, SupportingFileKeeps, SkillDoneKeeps DEF SkillsInv, SkillTools
  <1> QED
    BY <1>1, <1>2 DEF SkillsInv, ScanTyped, Layered

\* Scanning is no look.
LEMMA ScanningIsSound ==
    ASSUME SkillsInv, ScanDirectory \/ ScanDirectoryFails \/ ScanEntry \/ ScanEntryFails
    PROVE  SearchInv'
  <1>1. Typed
    BY DEF SkillsInv, SearchInv
  <1>2. ScanTyped /\ scan \in Seq(Todo)
    BY DEF SkillsInv, ScanTyped
  <1>3. /\ UNCHANGED <<tree, look, result, interrupted, since>>
        /\ missed' \subseteq Paths /\ changes' \in 0..MaxChanges
    <2>1. CASE ScanDirectory \/ ScanEntry
      BY <1>1, <2>1 DEF ScanDirectory, ScanEntry, vars, Typed, WorldSound
    <2>2. CASE ScanDirectoryFails
      <3>1. scan # <<>> /\ Head(scan) \in Todo
        BY <1>2, <2>2 DEF ScanDirectoryFails, Scanned
      <3>2. DirectoryOf(Head(scan).source) \in Paths
        BY SkillsAssumption DEF DirectoryOf
      <3> QED
        BY <1>1, <2>2, <3>2, FailsIs DEF ScanDirectoryFails
    <2>3. CASE ScanEntryFails
      <3>1. scan # <<>> /\ Head(scan) \in Todo /\ Head(scan) = scan[1] /\ 1 \in 1..Len(scan)
            /\ ~Head(scan).list
        BY <1>2, <2>3 DEF ScanEntryFails, Scanned
      <3>2. SkillPath(Head(scan).path) \in Paths
        <4>1. /\ Head(scan).path \in Paths /\ Head(scan).path # <<>>
              /\ Front(Head(scan).path) \in {UserSkills, ProjectSkills}
          BY <1>2, <3>1 DEF ScanTyped, Todo, DirectoryOf
        <4> QED
          BY <4>1, SkillsAssumption
      <3> QED
        BY <1>1, <2>3, <3>2, FailsIs DEF ScanEntryFails
    <2> QED
      BY <2>1, <2>2, <2>3
  <1>4. look.kind = "none"
    <2>1. scan # <<>>
      BY DEF Scanned, ScanDirectory, ScanEntry, ScanDirectoryFails, ScanEntryFails
    <2> QED
      BY <1>2, <2>1 DEF ScanTyped, NoLook
  <1>5. Typed'
    BY <1>1, <1>3 DEF Typed, WorldSound, Watching
  <1> QED
    BY <1>3, <1>4, <1>5, NotHeedingIsSound

\* It holds in every reachable state, whatever other programs do.
THEOREM SkillsInvariant == SkillsSpec => []SkillsInv
  <1>1. SkillsInit => SkillsInv
    BY StartIsSound
  <1>2. SkillsInv /\ [SkillsNext]_allVars => SkillsInv'
    <2> SUFFICES ASSUME SkillsInv, [SkillsNext]_allVars PROVE SkillsInv'
      OBVIOUS
    <2>1. CASE ScanDirectory \/ ScanDirectoryFails \/ ScanEntry \/ ScanEntryFails
      <3>1. ScanTyped' /\ Layered'
        BY <2>1, ScanDirectoryIsSound, ScanDirectoryFailsIsSound, ScanEntryIsSound, ScanEntryFailsIsSound
      <3>2. SearchInv'
        BY <2>1, ScanningIsSound
      <3> QED
        BY <3>1, <3>2 DEF SkillsInv
    <2>2. CASE UNCHANGED allVars
      <3>1. /\ tree' = tree /\ look' = look /\ result' = result /\ interrupted' = interrupted
            /\ since' = since /\ changes' = changes /\ missed' = missed
            /\ scan' = scan /\ known' = known /\ problems' = problems /\ started' = started
        BY <2>2 DEF allVars, vars, skillVars
      <3>2. Typed'
        BY <3>1 DEF SkillsInv, SearchInv, Typed, WorldSound, Watching
      <3>3. FilesWereSeen' /\ FoundWasThere'
        BY <3>1 DEF SkillsInv, SearchInv, FilesWereSeen, FoundWasThere, WasThere, Heeding
      <3>4. NothingLost'
        BY <3>1 DEF SkillsInv, SearchInv, NothingLost, Sought, Steady, Heeding
      <3>5. ListIsWhole' /\ PagesGoOn'
        BY <3>1 DEF SkillsInv, SearchInv, ListIsWhole, PagesGoOn, Steady, Seen
      <3>6. ScanTyped'
        BY <3>1 DEF SkillsInv, ScanTyped
      <3>7. Layered'
        BY <3>1 DEF SkillsInv, Layered, UserFirst, FoundSoFar, Coming, Installed, Steady
      <3> QED
        BY <3>2, <3>3, <3>4, <3>5, <3>6, <3>7 DEF SkillsInv, SearchInv
    <2> QED
      BY <2>1, <2>2, StartSessionIsSound, SkillToolsAreSound, OthersMeanwhile DEF SkillsNext
  <1> QED
    BY <1>1, <1>2, PTL DEF SkillsSpec

-----------------------------------------------------------------------------
(* What the runs check.                                                    *)

\* The values of what is looked at, and of what was found, are as they should
\* be in every reachable state (SkillsTypeOK).
THEOREM SkillsTypes == SkillsSpec => []SkillsTypeOK
  <1>1. SkillsInv => SkillsTypeOK
    <2> SUFFICES ASSUME SkillsInv PROVE SkillsTypeOK
      OBVIOUS
    <2>1. Typed /\ ScanTyped
      BY DEF SkillsInv, SearchInv
    <2>2. /\ IsTree(tree) /\ since \in [Paths -> SUBSET Node] /\ changes \in 0..MaxChanges
          /\ missed \subseteq Paths /\ interrupted \in BOOLEAN
      BY <2>1 DEF Typed, WorldSound
    <2>3. look.kind \in {"none", "glob", "grep", "support", "list", "page"}
      BY <2>1, LookIs DEF Typed
    <2>4. ASSUME Walking
          PROVE  /\ \A e \in ToSet(look.agenda) : e.path \in Paths /\ Within(e.path, look.root)
                 /\ look.hits <= MaxMatches
      <3>1. IsWalk(look)
        BY <2>1, <2>4, WalkingIs
      <3>2. look.agenda \in Seq(Entry) /\ look.hits \in 0..MaxMatches /\ MaxMatches \in Nat
        BY <3>1, SearchAssumption DEF IsWalk
      <3>3. ASSUME NEW e \in ToSet(look.agenda) PROVE e.path \in Paths /\ Within(e.path, look.root)
        <4>1. PICK k \in 1..Len(look.agenda) : e = look.agenda[k]
          BY <3>2 DEF ToSet
        <4>2. look.agenda[k] \in Entry
          BY <3>2
        <4>3. Within(look.agenda[k].path, look.root)
          BY <3>1 DEF IsWalk
        <4> QED
          BY <4>1, <4>2, <4>3 DEF Entry
      <3>4. look.hits <= MaxMatches
        BY <3>2
      <3> QED
        BY <3>3, <3>4
    <2>5. /\ result.kind \in {"none", "error", "aborted", "found"}
          /\ result.kind = "found" => Len(result.items) <= MaxOutput
      BY <2>1 DEF Typed, Results, NoResult, ToolError, Aborted
    <2>6. TypeOK
      BY <2>2, <2>3, <2>4, <2>5 DEF TypeOK
    <2>7. /\ known \in [SkillNames -> {Unknown, "user", "project"}]
          /\ problems \subseteq Paths /\ started \in BOOLEAN
      <3>1. {Unknown, "user", "project"} = Origins \cup {Unknown}
        BY DEF Origins
      <3> QED
        BY <2>1, <3>1 DEF ScanTyped
    <2> QED
      BY <2>6, <2>7 DEF SkillsTypeOK
  <1> QED
    BY <1>1, SkillsInvariant, PTL

\* What a search shows was in the workspace while it ran (ShownWasThere).
THEOREM ShowsWhatWasThere == SkillsSpec => []ShownWasThere
  <1>1. SkillsInv => ShownWasThere
    <2> SUFFICES ASSUME SkillsInv, Heeding, NEW item \in ToSet(look.found)
                 PROVE  /\ item.path \in Paths
                        /\ \E node \in since[item.path] :
                              /\ IsFile(node)
                              /\ item.kind = "line" =>
                                    /\ node.kind = "text"
                                    /\ item.number \in DOMAIN node.lines
                                    /\ item.text = node.lines[item.number]
                                    /\ item.hit => item.text \in look.query.expression
      BY DEF ShownWasThere
    <2>1. IsWalk(look)
      BY WalkingIs DEF SkillsInv, SearchInv, Heeding, Walking
    <2>2. look.found \in Seq(Item)
      BY <2>1 DEF IsWalk
    <2>3. PICK j \in 1..Len(look.found) : item = look.found[j]
      BY <2>2 DEF ToSet
    <2>4. WasThere(item)
      BY <2>3 DEF SkillsInv, SearchInv, FoundWasThere
    <2> QED
      BY <2>4 DEF WasThere, Shows
  <1> QED
    BY <1>1, SkillsInvariant, PTL

\* Pages that follow one another's notices make up the file (PagesAddUp).
THEOREM PagesAreTheFile == SkillsSpec => []PagesAddUp
  <1>1. SkillsInv => PagesAddUp
    BY DEF SkillsInv, SearchInv, PagesGoOn, PagesAddUp
  <1> QED
    BY <1>1, SkillsInvariant, PTL

\* Only the end of a walk or of a listing gives what it has found.
LEMMA OnlyTheEndFinds ==
    ASSUME SkillsInv, SkillsNext, look.kind \in {"glob", "grep", "list"}, look' = NoLook,
           result'.kind = "found"
    PROVE  WalkDone \/ ListDone
  <1>1. Typed /\ look # NoLook /\ look' # look /\ ~Ready /\ look.kind # "page" /\ look.kind # "support"
    BY DEF SkillsInv, SearchInv, NoLook, Ready, Walking
  <1>2. ~ScanDirectory /\ ~ScanEntry /\ ~StartSession /\ ~ScanDirectoryFails /\ ~ScanEntryFails
    BY <1>1 DEF ScanDirectory, ScanEntry, StartSession, ScanDirectoryFails, ScanEntryFails, vars
  <1>3. ~Others
    BY <1>1 DEF Others, OtherWrites, OtherRemoves, OtherRenames, Changed, Interrupt
  <1>5. /\ ~Refused
        /\ \A input : ~ListDir(input) /\ \A limit : ~ReadFirst(input, limit)
        /\ \A query : ~Search(query)
        /\ \A limit : ~ReadNext(limit)
    BY <1>1 DEF Refused, ListDir, ReadFirst, Search, ReadNext
  <1>6. ~VisitDirectory /\ ~DirectoryFails /\ ~FileFails /\ ~GlobFile /\ ~GrepFile
    <2>1. ASSUME Walking, NEW a PROVE [look EXCEPT !.agenda = a].kind # "none"
      <3>1. IsWalk(look)
        BY <1>1, <2>1, WalkingIs
      <3> QED
        BY <3>1 DEF IsWalk
    <2>2. ASSUME Walking, NEW m, NEW h, NEW s PROVE Visited(m, h, s).kind # "none"
      <3>1. IsWalk(look)
        BY <1>1, <2>2, WalkingIs
      <3> QED
        BY <3>1 DEF IsWalk, Visited
    <2>3. look'.kind = "none"
      BY DEF NoLook
    <2>4. ~VisitDirectory
      BY <2>1, <2>3 DEF VisitDirectory, Going
    <2>7. ~DirectoryFails
      BY <2>1, <2>3 DEF DirectoryFails, Going
    <2>8. ~FileFails
      BY <2>1, <2>3 DEF FileFails, Going
    <2>5. ~GlobFile
      BY <2>2, <2>3 DEF GlobFile, Going
    <2>6. ~GrepFile
      BY <2>2, <2>3 DEF GrepFile, Going
    <2> QED
      BY <2>4, <2>5, <2>6, <2>7, <2>8
  <1>7. ~WalkCancelled
    BY DEF WalkCancelled, End, Aborted
  <1>8. ~SupportingFile /\ ~SkillDone
    BY <1>1 DEF SupportingFile, SkillDone
  <1> QED
    BY <1>1, <1>2, <1>3, <1>5, <1>6, <1>7, <1>8 DEF SkillsNext, SkillTools, Tools

\* A walk that ends without a word has found every file it was to find.
LEMMA WalkTellsAll ==
    ASSUME SkillsInv, WalkDone, result'.notes = {},
           NEW p \in Paths, Steady(p), Within(p, look.root), p # look.root,
           IsFile(tree[p]), ~Hidden(look.root, p)
    PROVE  result'.items = look.found /\ Tell(look.found, p, tree[p], look.query, look.root)
  <1> DEFINE notes == IF look.stopped THEN {"stopped"} ELSE {}
  <1>1. Heeding /\ look.agenda = <<>> /\ result' = Found(look.found, notes)
    BY DEF WalkDone, End
  <1>2. IsWalk(look)
    BY <1>1, WalkingIs DEF SkillsInv, SearchInv, Heeding, Walking
  <1>3. look.found \in Seq(Item) /\ notes \in NoteSets
    BY <1>2 DEF IsWalk, NoteSets
  <1>4. notes = {} => ~look.stopped
    OBVIOUS
  <1> HIDE DEF notes
  <1>5. result'.items = look.found /\ result'.notes = notes
    <2>1. {"truncated"} # {}
      OBVIOUS
    <2> QED
      BY <1>1, <1>3, <2>1, FoundIs
  <1>6. ~look.stopped
    BY <1>4, <1>5
  <1>7. Pending(look.agenda, p) \/ Tell(look.found, p, tree[p], look.query, look.root)
    BY <1>1, <1>6 DEF SkillsInv, SearchInv, NothingLost, Sought
  <1>8. ~Pending(look.agenda, p)
    BY <1>1 DEF Pending
  <1> QED
    BY <1>5, <1>7, <1>8

\* A listing that is not cut off has every entry.
LEMMA ListTellsAll ==
    ASSUME SkillsInv, ListDone, result'.notes = {},
           NEW p \in Paths, Steady(p), p # <<>>, Front(p) = look.root, tree[p] # Absent
    PROVE  \E sized \in BOOLEAN : EntryItem(p, tree[p] = Directory, sized) \in ToSet(result'.items)
  <1>1. PICK s \in Seq(Item) :
              /\ look.kind = "list" /\ End(Found(s, {}))
              /\ \A k \in 1..Len(look.entries) : \E i \in 1..Len(s) : \E sized \in BOOLEAN :
                    s[i] = Listed(look.entries[k], sized)
    BY ListDoneIs DEF SkillsInv, SearchInv
  <1>2. result'.items = s
    <2>1. {} \in NoteSets /\ {"truncated"} # {} /\ result' = Found(s, {})
      BY <1>1 DEF NoteSets, End
    <2> DEFINE notes == {}
    <2>2. notes \in NoteSets /\ {"truncated"} # {} /\ result' = Found(s, notes)
      BY <2>1
    <2> HIDE DEF notes
    <2> QED
      BY <2>2, FoundIs
  <1>3. PICK k \in 1..Len(look.entries) : look.entries[k] = Seen(p)
    BY <1>1 DEF SkillsInv, SearchInv, ListIsWhole
  <1>4. PICK i \in 1..Len(s), sized \in BOOLEAN : s[i] = Listed(Seen(p), sized)
    BY <1>1, <1>3
  <1>5. Listed(Seen(p), sized) = EntryItem(p, tree[p] = Directory, sized)
    BY DEF Listed, Seen
  <1>6. s[i] \in ToSet(s)
    BY DEF ToSet
  <1> QED
    BY <1>2, <1>4, <1>5, <1>6

\* A result that does not say it is not whole is whole
\* (SilentResultIsComplete).
THEOREM SilenceMeansAll == SkillsSpec => SilentResultIsComplete
  <1> DEFINE Complete ==
        \A p \in Paths : Steady(p) /\ Within(p, look.root) /\ p # look.root =>
             LET items == ToSet(result'.items)
                 sought == IsFile(tree[p]) /\ ~Hidden(look.root, p)
                           /\ GlobMatches(look.query.glob, Relative(look.root, p))
             IN CASE look.kind = "list" ->
                        tree[p] # Absent /\ Front(p) = look.root =>
                           \E sized \in BOOLEAN : EntryItem(p, tree[p] = Directory, sized) \in items
                  [] look.kind = "glob" -> sought => PathItem(p) \in items
                  [] look.kind = "grep" ->
                        sought /\ tree[p].kind = "text" =>
                           \A k \in Wanted(tree[p].lines) : \E hit \in BOOLEAN :
                              LineItem(p, k, tree[p].lines[k], hit) \in items
  <1>1. SkillsInv /\ [SkillsNext]_allVars
           => [look.kind \in {"glob", "grep", "list"} /\ look' = NoLook
               /\ result'.kind = "found" /\ result'.notes = {} => Complete]_vars
    <2> SUFFICES ASSUME SkillsInv, SkillsNext, look.kind \in {"glob", "grep", "list"}, look' = NoLook,
                        result'.kind = "found", result'.notes = {}
                 PROVE  Complete
      BY DEF allVars
    <2> SUFFICES ASSUME NEW p \in Paths, Steady(p), Within(p, look.root), p # look.root
                 PROVE  LET items == ToSet(result'.items)
                            sought == IsFile(tree[p]) /\ ~Hidden(look.root, p)
                                      /\ GlobMatches(look.query.glob, Relative(look.root, p))
                        IN CASE look.kind = "list" ->
                                  tree[p] # Absent /\ Front(p) = look.root =>
                                     \E sized \in BOOLEAN : EntryItem(p, tree[p] = Directory, sized) \in items
                             [] look.kind = "glob" -> sought => PathItem(p) \in items
                             [] look.kind = "grep" ->
                                  sought /\ tree[p].kind = "text" =>
                                     \A k \in Wanted(tree[p].lines) : \E hit \in BOOLEAN :
                                        LineItem(p, k, tree[p].lines[k], hit) \in items
      OBVIOUS
    <2>1. WalkDone \/ ListDone
      BY OnlyTheEndFinds
    <2>2. CASE look.kind = "list"
      <3>1. ListDone
        BY <2>1, <2>2 DEF WalkDone, Heeding
      <3>2. p # <<>>
        <4>1. look.root \in Paths
          BY <2>2, LookIs DEF SkillsInv, SearchInv, Typed, IsList
        <4>2. p \in Seq(STRING) /\ look.root \in Seq(STRING)
          BY <4>1, PathsAre
        <4>3. Len(look.root) <= Len(p)
          BY <4>2, WithinIs
        <4> QED
          BY <4>2, <4>3
      <3>3. tree[p] # Absent /\ Front(p) = look.root =>
               \E sized \in BOOLEAN : EntryItem(p, tree[p] = Directory, sized) \in ToSet(result'.items)
        BY <3>1, <3>2, ListTellsAll
      <3> QED
        BY <2>2, <3>3
    <2>3. CASE look.kind \in {"glob", "grep"}
      <3> DEFINE found == look.found
      <3>1. WalkDone
        BY <2>1, <2>3 DEF ListDone
      <3>2. IsWalk(look)
        BY <2>3, WalkingIs DEF SkillsInv, SearchInv, Walking
      <3>3. found \in Seq(Item) /\ (look.query.kind = look.kind)
        BY <2>3, <3>2 DEF IsWalk
      <3>4. ASSUME IsFile(tree[p]), ~Hidden(look.root, p),
                   GlobMatches(look.query.glob, Relative(look.root, p))
            PROVE  /\ look.kind = "glob" => PathItem(p) \in ToSet(result'.items)
                   /\ look.kind = "grep" /\ tree[p].kind = "text" =>
                         \A k \in Wanted(tree[p].lines) : \E hit \in BOOLEAN :
                            LineItem(p, k, tree[p].lines[k], hit) \in ToSet(result'.items)
        <4>1. result'.items = found /\ Tell(found, p, tree[p], look.query, look.root)
          BY <3>1, <3>4, WalkTellsAll
        <4> HIDE DEF found
        <4>2. \A j \in 1..Len(found) : found[j] \in ToSet(found)
          BY DEF ToSet
        <4>3. look.kind = "glob" => PathItem(p) \in ToSet(found)
          BY <3>3, <3>4, <4>1, <4>2 DEF Tell
        <4>4. ASSUME look.kind = "grep", tree[p].kind = "text", NEW k \in Wanted(tree[p].lines)
              PROVE  \E hit \in BOOLEAN : LineItem(p, k, tree[p].lines[k], hit) \in ToSet(found)
          <5>1. k \in Around(look.query, tree[p].lines)
            BY <4>4 DEF Wanted, Around
          <5>2. ShowsLine(found, p, k, tree[p].lines[k])
            BY <3>3, <3>4, <4>1, <4>4, <5>1 DEF Tell
          <5> QED
            BY <4>2, <5>2 DEF ShowsLine
        <4> QED
          BY <4>1, <4>3, <4>4
      <3> QED
        BY <2>3, <3>4
    <2> QED
      BY <2>2, <2>3
  <1> QED
    BY <1>1, SkillsInvariant, PTL DEF SkillsSpec, SilentResultIsComplete

\* Discovery layers skills as configuration is layered
\* (DiscoveryLayersSkills).
THEOREM SkillsAreLayered == SkillsSpec => DiscoveryLayersSkills
  <1> DEFINE LayeredAs(n) ==
        LET user == Installed("user", n)
            project == Installed("project", n)
        IN /\ project = "skill" => known[n] = "project"
           /\ project \in {"malformed", "nothing"} =>
                 /\ user = "skill" => known[n] = "user"
                 /\ user \in {"malformed", "nothing"} => known[n] = Unknown
           /\ \A source \in {"user", "project"} :
                 Installed(source, n) = "malformed" =>
                    SkillPath(Append(DirectoryOf(source), n)) \in problems
  <1>1. SkillsInv /\ [SkillsNext]_allVars
           => [~started /\ started' => \A n \in Valid \cap SkillNames : LayeredAs(n)]_allVars
    <2> SUFFICES ASSUME SkillsInv, SkillsNext, ~started, started', NEW n \in Valid \cap SkillNames
                 PROVE  LayeredAs(n)
      BY DEF allVars
    <2>1. scan = <<>>
      <3>1. ~ScanDirectory /\ ~ScanEntry /\ ~ScanDirectoryFails /\ ~ScanEntryFails
        BY DEF ScanDirectory, ScanEntry, ScanDirectoryFails, ScanEntryFails, skillVars
      <3>2. ~UNCHANGED skillVars
        BY DEF skillVars
      <3> QED
        BY <3>1, <3>2 DEF SkillsNext, StartSession, Scanned
    <2>2. FoundSoFar(n) /\ \A s \in Origins : ~Coming(s, n)
      <3>1. \A s \in Origins : ~Coming(s, n)
        BY <2>1 DEF Coming
      <3> QED
        BY <3>1 DEF SkillsInv, Layered
    <2>3. known[n] \in {"user", "project", Unknown}
      BY DEF SkillsInv, ScanTyped, Origins
    <2>4. ASSUME NEW s \in Origins
          PROVE  /\ known[n] = s => Installed(s, n) \in {"skill", "changing"}
                 /\ Installed(s, n) = "skill" => known[n] \in {s, "project"}
                 /\ Installed(s, n) = "malformed" => SkillPath(Append(DirectoryOf(s), n)) \in problems
      BY <2>2 DEF FoundSoFar, Home
    <2>5. "user" \in Origins /\ "project" \in Origins /\ Origins = {"user", "project"}
      BY DEF Origins
    <2> QED
      BY <2>3, <2>4, <2>5
  <1> QED
    BY <1>1, SkillsInvariant, PTL DEF SkillsSpec, DiscoveryLayersSkills
=============================================================================
