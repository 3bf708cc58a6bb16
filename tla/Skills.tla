------------------------------- MODULE Skills -------------------------------
(***************************************************************************)
(* Skills (internal/skills, internal/tools/skill.go): found when a session *)
(* starts, first those of the user and then those of the workspace, and    *)
(* read when the model asks for one, out of files that other programs      *)
(* change in between.                                                      *)
(***************************************************************************)
EXTENDS Search

CONSTANTS UserSkills,     \* the two directories of skills
          ProjectSkills,
          SkillFile,
          SkillNames,     \* the names that skills may be asked for
          Delimiter,      \* the line that opens and closes the frontmatter
          Ignored,        \* empty lines and comments in it
          KeyValue,       \* key and value of each "key: value" line
          Valid,          \* the names parseFile accepts
          MaxBody,        \* lines of a skill that can be loaded
          MaxSupporting

SkillPath(dir) == Append(dir, SkillFile)

ASSUME SkillsAssumption ==
    /\ {UserSkills, ProjectSkills} \subseteq Paths
    /\ \A dir \in {UserSkills, ProjectSkills} :
          /\ \A p \in Paths \ {<<>>} : Front(p) = dir => SkillPath(p) \in Paths
          /\ \A n \in SkillNames : Append(dir, n) \in Paths
    /\ SkillFile \in STRING /\ SkillNames \subseteq STRING
    /\ KeyValue \in [DOMAIN KeyValue -> [key : STRING, value : STRING]]
    /\ "" \notin Valid
    /\ MaxSupporting \in Nat

VARIABLES scan,      \* what Discover has still to do
          known,     \* Set.byName: where each skill was found
          problems,  \* the files it reports
          started    \* the session has begun

skillVars == <<scan, known, problems, started>>
allVars == <<vars, skillVars>>

-----------------------------------------------------------------------------
(* A SKILL.md.                                                             *)

Closings(lines) == {k \in 2..Len(lines) : lines[k] = Delimiter}
Close(lines) == Min(Closings(lines))
Frontmatter(lines) == SubSeq(lines, 2, Close(lines) - 1)

\* splitFrontmatter understands all of it or nothing.
Understood(lines) ==
    /\ lines # <<>> /\ lines[1] = Delimiter
    /\ Closings(lines) # {}
    /\ ToSet(Frontmatter(lines)) \subseteq Ignored \cup DOMAIN KeyValue

\* The value of the last line with that key, or none.
Meta(lines, key) ==
    LET meta == Frontmatter(lines)
        with == {k \in DOMAIN meta : meta[k] \in DOMAIN KeyValue /\ KeyValue[meta[k]].key = key}
    IN IF with = {} THEN "" ELSE KeyValue[meta[Max(with)]].value

Body(lines) == SubSeq(lines, Close(lines) + 1, Len(lines))

\* parseFile, which takes a file of any kind and length, and the name it
\* declares is the directory's.
Parses(node, dir) ==
    /\ IsFile(node)
    /\ Understood(node.lines)
    /\ Meta(node.lines, "name") \in Valid
    /\ Meta(node.lines, "description") # ""
    /\ Meta(node.lines, "name") = Last(dir)

-----------------------------------------------------------------------------
(* Discovery.                                                              *)

DirectoryOf(source) == IF source = "user" THEN UserSkills ELSE ProjectSkills

Unknown == "unknown"
Scanned == scan = <<>>

List(source) == [list |-> TRUE, source |-> source]
Parse(source, entry) == [list |-> FALSE, source |-> source, path |-> entry.path,
                         isDir |-> entry.isDir]

\* Mutation of Order: the workspace's skills first.
OrderReversed == <<List("project"), List("user")>>

Order == <<List("user"), List("project")>>

SkillsInit ==
    /\ Init
    /\ scan = Order
    /\ known = [n \in SkillNames |-> Unknown]
    /\ problems = {}
    /\ started = FALSE

\* ReadDir of one of the two directories; a missing one has none.
ScanDirectory ==
    /\ ~Scanned
    /\ LET todo == Head(scan)
           entries == SeenIn(DirectoryOf(todo.source))
       IN /\ todo.list
          /\ scan' = [k \in DOMAIN entries |-> Parse(todo.source, entries[k])] \o Tail(scan)
    /\ UNCHANGED <<vars, known, problems, started>>

\* A directory that cannot be read is taken for one that is not there.
ScanDirectoryFails ==
    /\ ~Scanned
    /\ Head(scan).list
    /\ scan' = Tail(scan)
    /\ Fails(DirectoryOf(Head(scan).source))
    /\ UNCHANGED <<look, result, interrupted, known, problems, started>>

\* One entry: no directory, no SKILL.md in it, a skill, or a problem.
ScanEntry ==
    /\ ~Scanned
    /\ LET todo == Head(scan)
           node == NodeAt(tree, SkillPath(todo.path))
           counts == todo.isDir /\ (node # Absent \/ IsFile(tree[todo.path]))
       IN /\ ~todo.list
          /\ IF counts /\ Parses(node, todo.path)
             THEN known' = [known EXCEPT ![Meta(node.lines, "name")] = todo.source]
             ELSE UNCHANGED known
          /\ problems' = IF counts /\ ~Parses(node, todo.path)
                         THEN problems \cup {SkillPath(todo.path)} ELSE problems
    /\ scan' = Tail(scan)
    /\ UNCHANGED <<vars, started>>

\* A SKILL.md that cannot be read is a problem like any other.
ScanEntryFails ==
    /\ ~Scanned
    /\ ~Head(scan).list /\ Head(scan).isDir
    /\ scan' = Tail(scan)
    /\ problems' = problems \cup {SkillPath(Head(scan).path)}
    /\ Fails(SkillPath(Head(scan).path))
    /\ UNCHANGED <<look, result, interrupted, known, started>>

\* runChat warns of the problems and goes on.
StartSession ==
    /\ Scanned
    /\ ~started
    /\ started' = TRUE
    /\ problems' = {}
    /\ Unwatch
    /\ UNCHANGED <<tree, look, result, interrupted, scan, known>>

-----------------------------------------------------------------------------
(* The tool.  It is offered only if there is a skill.                      *)

SkillDir(n) == Append(DirectoryOf(known[n]), n)

\* Body reads the file again, which may have changed since it was found.
Loadable(n) ==
    /\ known[n] # Unknown
    /\ LET node == NodeAt(tree, SkillPath(SkillDir(n))) IN
       IsFile(node) /\ node.kind # "large" /\ Len(node.lines) <= MaxBody /\ Understood(node.lines)

\* Not loadable, or not to be read just now.
SkillRefused ==
    /\ SkillNames # {}
    /\ End(ToolError)

\* The body, and then a walk for SupportingFiles.
UseSkill(n) ==
    /\ Loadable(n)
    /\ LET body == Body(tree[SkillPath(SkillDir(n))].lines) IN
       Begin([Walk([kind |-> "support"], SkillDir(n)) EXCEPT
                 !.found = [k \in DOMAIN body |-> [kind |-> "body", text |-> body[k]]]])

SupportingFile ==
    /\ Going
    /\ look.kind = "support"
    /\ ~Visiting.isDir
    /\ LET more == IF Last(Visiting.path) = SkillFile THEN <<>> ELSE <<PathItem(Visiting.path)>>
       IN look' = Visited(more, 0, FALSE)
    /\ UNCHANGED <<world, result, interrupted>>

\* The first MaxSupporting files; nothing says that there are more.
SkillDone ==
    /\ look.kind = "support"
    /\ look.agenda = <<>>
    /\ LET kind(k) == look.found[k].kind
           body == At(look.found, {k \in DOMAIN look.found : kind(k) = "body"})
           files == At(look.found, {k \in DOMAIN look.found : kind(k) = "path"})
       IN End(Found(body \o SubSeq(files, 1, Min({Len(files), MaxSupporting})), {}))

SkillTools ==
    \/ Tools
    \/ Ready /\ (SkillRefused \/ \E n \in SkillNames : UseSkill(n))
    \/ SupportingFile
    \/ SkillDone

SkillsNext ==
    \/ ScanDirectory
    \/ ScanDirectoryFails
    \/ ScanEntry
    \/ ScanEntryFails
    \/ StartSession
    \/ started /\ SkillTools /\ UNCHANGED skillVars
    \/ Others /\ UNCHANGED skillVars

SkillsSpec == SkillsInit /\ [][SkillsNext]_allVars

-----------------------------------------------------------------------------
(* Properties.                                                             *)

SkillsTypeOK ==
    /\ TypeOK
    /\ known \in [SkillNames -> {Unknown, "user", "project"}]
    /\ problems \subseteq Paths
    /\ started \in BOOLEAN

\* A file that declares the name n and is understood to its last line.
Declares(node, n) ==
    /\ IsFile(node)
    /\ \E close \in 2..Len(node.lines) :
          LET meta == SubSeq(node.lines, 2, close - 1)
              last(key, k) == /\ meta[k] \in DOMAIN KeyValue /\ KeyValue[meta[k]].key = key
                              /\ \A l \in (k + 1)..Len(meta) :
                                    meta[l] \in DOMAIN KeyValue => KeyValue[meta[l]].key # key
          IN /\ node.lines[1] = Delimiter /\ node.lines[close] = Delimiter
             /\ \A k \in DOMAIN meta : meta[k] \in (Ignored \cup DOMAIN KeyValue) \ {Delimiter}
             /\ \E k \in DOMAIN meta : last("name", k) /\ KeyValue[meta[k]].value = n
             /\ \E k \in DOMAIN meta : last("description", k) /\ KeyValue[meta[k]].value # ""

\* What is installed under a name in one of the directories, while nobody
\* touches it and it can be read: a skill, something that is none, nothing.
Installed(source, n) ==
    LET dir == Append(DirectoryOf(source), n) IN
    IF ~(Steady(dir) /\ Steady(SkillPath(dir))) THEN "changing"
    ELSE IF tree[SkillPath(dir)] = Absent THEN "nothing"
    ELSE IF Declares(tree[SkillPath(dir)], n) THEN "skill" ELSE "malformed"

\* Discovery layers skills as configuration is layered: the workspace's skill
\* hides the user's of the same name, but only if it is one; a malformed file
\* hides nothing, stops nothing and is reported; and no file can install a
\* skill but the one of its own directory (skills.go:108-113, 151-158).
DiscoveryLayersSkills ==
    [][~started /\ started' =>
          \A n \in Valid \cap SkillNames :
             LET user == Installed("user", n)
                 project == Installed("project", n)
             IN /\ project = "skill" => known[n] = "project"
                /\ project \in {"malformed", "nothing"} =>
                      /\ user = "skill" => known[n] = "user"
                      /\ user \in {"malformed", "nothing"} => known[n] = Unknown
                /\ \A source \in {"user", "project"} :
                      Installed(source, n) = "malformed" =>
                         SkillPath(Append(DirectoryOf(source), n)) \in problems]_allVars
=============================================================================
