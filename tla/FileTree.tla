------------------------------ MODULE FileTree ------------------------------
(***************************************************************************)
(* A file system of directories and files, as the tools see it through     *)
(* package os, and what other programs may do to it.  Symbolic links are   *)
(* left out.                                                               *)
(***************************************************************************)
EXTENDS Strings

CONSTANTS Paths,  \* every path there may be, each a sequence of names
          Names   \* the names, in the order of os.ReadDir

ASSUME FileTreeAssumption ==
    /\ Names \in Seq(STRING)
    /\ Paths \subseteq Seq(STRING) /\ <<>> \in Paths
    /\ \A p \in Paths \ {<<>>} : Front(p) \in Paths /\ Last(p) \in ToSet(Names)

Absent == [kind |-> "absent"]
Directory == [kind |-> "directory"]
File(kind, lines) == [kind |-> kind, lines |-> lines]
Text(lines) == File("text", lines)

\* A text, something that is none, or a file too long to be searched or read.
FileKinds == {"text", "binary", "large"}

Node == {Absent, Directory} \cup [kind : FileKinds, lines : Seq(STRING)]

IsFile(node) == node \notin {Absent, Directory}

NodeAt(tree, p) == IF p \in Paths THEN tree[p] ELSE Absent

Within(p, dir) == IsPrefix(dir, p)

\* os.ReadDir: the entries by name, none of what is no directory.
ReadDir(tree, dir) ==
    LET there == At(Names, {k \in DOMAIN Names : NodeAt(tree, Append(dir, Names[k])) # Absent})
    IN [k \in DOMAIN there |-> Append(dir, there[k])]

\* What is anywhere is in a directory.
IsTree(tree) ==
    /\ tree \in [Paths -> Node]
    /\ \A p \in Paths \ {<<>>} : tree[p] # Absent => tree[Front(p)] = Directory

Put(tree, p, node) == [tree EXCEPT ![p] = node]

Unlink(tree, p) == [q \in Paths |-> IF Within(q, p) THEN Absent ELSE tree[q]]

Move(tree, from, to) ==
    [q \in Paths |-> IF Within(q, to)
                     THEN NodeAt(tree, from \o SubSeq(q, Len(to) + 1, Len(q)))
                     ELSE IF Within(q, from) THEN Absent ELSE tree[q]]

CanHold(tree, p) == p # <<>> /\ tree[Front(p)] = Directory
=============================================================================
