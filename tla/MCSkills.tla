------------------------------ MODULE MCSkills ------------------------------
(***************************************************************************)
(* Search and Skills for TLC.  A behaviour is about source files or about  *)
(* skills: what is not there at first other programs do not begin with.    *)
(***************************************************************************)
EXTENDS Skills

MCRoot == <<"ws">>
MCUser == <<"config">>
MCProject == <<"ws", ".mkr">>
MCNames == <<".mkr", "SKILL.md", "a", "bin", "config", "d", "e", "more", "s", "src", "t", "ws">>

Source == <<"ws", "src">>
Sources == {Source \o p : p \in {<<"d">>, <<"d", "a">>, <<"bin">>, <<"bin", "a">>, <<"e">>}}
Packs == {<<"config", "s">>, <<"config", "s", "SKILL.md">>, <<"ws", ".mkr", "s">>,
          <<"ws", ".mkr", "s", "SKILL.md">>, <<"ws", ".mkr", "s", "more">>}
\* Never there, but a skill of that name may be asked for.
Elsewhere == {Append(dir, "t") : dir \in {MCUser, MCProject}}
MCPaths == {<<>>, MCRoot, MCUser, MCProject, Source} \cup Sources \cup Packs \cup Elsewhere
               \cup {Append(p, "SKILL.md") : p \in Elsewhere}
MCMovable == Sources \ {Source \o <<"bin", "a">>}
MCChangeable == Sources \cup Packs

\* The tree with these files, and the directories they need.
TreeOf(files, dirs) ==
    [p \in MCPaths |-> IF p \in DOMAIN files THEN files[p]
                       ELSE IF \E q \in dirs \cup DOMAIN files : IsPrefix(p, q)
                       THEN Directory ELSE Absent]

Source1 == Text(<<"x", "y", "x">>)
Source2 == Text(<<"y">>)
Skill == Text(<<"---", "#", "name: s", "description: x", "---", "do">>)
OtherSkill == Text(<<"---", "name: s", "name: t", "description: x", "---">>)
Half == Text(<<"---", "name: s", "description: x", " - y", "---">>)
Bare == Text(<<"---", "description: x", "name: s", "description:", "---">>)
Long == File("binary", <<"---", "name: s", "description: x", "---", "do", "---", "more">>)

MCKeyValue == [l \in {"name: s", "name: t", "description: x", "description:"} |->
    [key |-> IF l \in {"name: s", "name: t"} THEN "name" ELSE "description",
     value |-> CASE l = "name: s" -> "s" [] l = "name: t" -> "t"
                 [] l = "description: x" -> "x" [] OTHER -> ""]]

\* Source files; a skill of the user's, beside none, a good or a malformed one
\* of the workspace.
MCTrees ==
    {TreeOf([p \in {Source \o <<"e">>, Source \o <<"d", "a">>} |-> Source1], {}),
     TreeOf([p \in {<<"config", "s", "SKILL.md">>} |-> Skill], {MCProject})} \cup
    {TreeOf([p \in Packs \ {<<"config", "s">>, <<"ws", ".mkr", "s">>} |->
                 IF p[1] = "config" THEN Skill ELSE own], {}) : own \in {Skill, Half}}

MCContents == [p \in MCChangeable |->
    CASE Last(p) \in {"d", "bin", "s"} -> {Directory}
      [] p = <<"config", "s", "SKILL.md">> -> {Bare}
      [] Last(p) = "SKILL.md" -> {OtherSkill, Long}
      [] Last(p) = "more" -> {}
      [] Last(p) = "a" -> {Source1}
      [] OTHER -> {Source2}]

In(segments) == [absolute |-> FALSE, segments |-> segments]
MCInputs == {In(<<"src", "d", "..">>), In(<<"..">>), In(<<"src", "e">>),
             [absolute |-> TRUE, segments |-> <<"ws", "src", "d">>]}

Query(kind, segments, glob, expression, around) ==
    [kind |-> kind, input |-> In(segments), glob |-> glob,
     expression |-> expression, around |-> around]
MCQueries ==
    {Query("glob", <<>>, <<Segment({"a"})>>, {}, 0),
     Query("glob", <<".", "src", "..", "src">>, <<AnyDirs, Segment({"a", "e"})>>, {}, 0),
     Query("glob", <<"src", "bin">>, AllFiles, {}, 0),
     Query("grep", <<"src">>, AllFiles, {"x"}, 1),
     Query("grep", <<>>, <<Segment({"src"}), Segment({"d"}), AnyRest>>, {"y"}, 0)}
=============================================================================
