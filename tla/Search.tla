------------------------------- MODULE Search -------------------------------
(***************************************************************************)
(* The tools that only look: list_dir, glob and grep                       *)
(* (internal/tools/search.go) and the pages of read_file                   *)
(* (internal/tools/file.go), one at a time, while other programs create,   *)
(* change, remove and rename what is looked at.  glob and grep walk the    *)
(* tree one directory and one file after the other, and pass over what     *)
(* they cannot read.                                                       *)
(***************************************************************************)
EXTENDS FileTree

CONSTANTS Root,        \* the workspace
          Trees,       \* the trees to begin with
          Changeable,  \* the paths other programs work on
          Movable,     \* and those among them that they rename
          Contents,    \* what they may put at each
          SkipDirs,
          Inputs,      \* paths as the model gives them
          Queries,     \* what the model asks glob and grep
          Limits,      \* lines of a page
          MaxMatches,
          MaxOutput,   \* of a result, in items
          MaxChanges   \* bound: changes by other programs and failures to
                       \* read during one look

ASSUME SearchAssumption ==
    /\ Root \in Paths
    /\ \A t \in Trees : IsTree(t) /\ t[Root] = Directory
    /\ Changeable \cup Movable \subseteq Paths
    /\ Contents \in [Changeable -> SUBSET Node]
    /\ \A query \in Queries : query.kind \in {"glob", "grep"} /\ query.around \in Nat
    /\ \A input \in Inputs \cup {query.input : query \in Queries} : input.segments \in Seq(STRING)
    /\ {MaxMatches, MaxOutput} \subseteq Nat \ {0}
    /\ MaxChanges \in Nat
    /\ Limits \subseteq Nat \ {0}

VARIABLES tree,
          look,         \* the tool that is looking, or the page read last
          result,       \* of the last tool
          interrupted,  \* the session's context is cancelled
          since,        \* history: what has been at each path since the look began
          missed,       \* history: what could not be read since then
          changes       \* the number of changes and failures since then

vars == <<tree, look, result, interrupted, since, missed, changes>>
world == <<tree, since, missed, changes>>

-----------------------------------------------------------------------------
(* Paths and patterns.                                                     *)

\* filepath.Clean of a path from the top of the file system.
Clean(segments) ==
    LET upto[k \in 0..Len(segments)] ==
            IF k = 0 THEN <<>>
            ELSE CASE segments[k] = "." -> upto[k - 1]
                   [] segments[k] = ".." -> SubSeq(upto[k - 1], 1, Len(upto[k - 1]) - 1)
                   [] OTHER -> Append(upto[k - 1], segments[k])
    IN upto[Len(segments)]

AbsolutePath(input) ==
    Clean(IF input.absolute THEN input.segments ELSE Root \o input.segments)

\* Jail.Resolve, where no symbolic link is on the way.
Resolves(input) == Within(AbsolutePath(input), Root)

\* A path under base, by which the patterns go; base itself is called ".".
Relative(base, p) ==
    IF p = base THEN <<".">> ELSE SubSeq(p, Len(base) + 1, Len(p))

\* A glob is a sequence of parts: AnyDirs for a "**" that a slash follows,
\* AnyRest for another one at the end, and for any other segment the set of
\* names it stands for.
AnyDirs == [any |-> "dirs"]
AnyRest == [any |-> "rest"]
Segment(names) == [any |-> "no", names |-> names]
AllFiles == <<AnyRest>>

\* What globToRegexp makes of a glob matches rel.  A glob without a slash also
\* matches the last name.
GlobMatches(glob, rel) ==
    LET match[i \in 1..(Len(glob) + 1), j \in 1..(Len(rel) + 1)] ==
            IF i > Len(glob) THEN j > Len(rel)
            ELSE IF j > Len(rel) THEN FALSE
            ELSE CASE glob[i] = AnyDirs -> \E k \in j..Len(rel) : match[i + 1, k]
                   [] glob[i] = AnyRest -> TRUE
                   [] OTHER -> rel[j] \in glob[i].names /\ match[i + 1, j + 1]
    IN \/ match[1, 1]
       \/ Len(glob) = 1 /\ glob[1] # AnyDirs /\ match[1, Len(rel)]

-----------------------------------------------------------------------------
(* Results: items, and what is said about them at the end.  truncate cuts  *)
(* the end off.                                                            *)

PathItem(p) == [kind |-> "path", path |-> p]
EntryItem(p, isDir, sized) == [kind |-> "entry", path |-> p, isDir |-> isDir, sized |-> sized]
LineItem(p, number, text, hit) ==
    [kind |-> "line", path |-> p, number |-> number, text |-> text, hit |-> hit]

NoResult == [kind |-> "none"]
ToolError == [kind |-> "error"]
Aborted == [kind |-> "aborted"]

\* Mutation of Found: whatever there is.
FoundAll(items, notes) == [kind |-> "found", items |-> items, notes |-> notes]

Found(items, notes) ==
    IF Len(items) + Cardinality(notes) <= MaxOutput
    THEN [kind |-> "found", items |-> items, notes |-> notes]
    ELSE [kind |-> "found", items |-> SubSeq(items, 1, MaxOutput), notes |-> {"truncated"}]

-----------------------------------------------------------------------------
(* Looking.                                                                *)

NoLook == [kind |-> "none"]
Walking == look.kind \in {"glob", "grep", "support"}
\* An interrupt before a look begins is one right after it.
Ready == ~Walking /\ look.kind # "list" /\ ~interrupted

\* A directory entry, with what ReadDir saw it to be.
Seen(p) == [path |-> p, isDir |-> tree[p] = Directory]
SeenIn(dir) == LET entries == ReadDir(tree, dir) IN
               [k \in DOMAIN entries |-> Seen(entries[k])]

\* filepath.WalkDir under root: what is still to be visited, and what has been
\* found.
Walk(query, root) ==
    [kind |-> query.kind, root |-> root, query |-> query,
     found |-> <<>>, hits |-> 0, stopped |-> FALSE,
     agenda |-> IF NodeAt(tree, root) = Absent THEN <<>> ELSE <<Seen(root)>>]

Watch == since' = [p \in Paths |-> {tree[p]}] /\ missed' = {} /\ changes' = 0
Unwatch == since' = [p \in Paths |-> {}] /\ missed' = {} /\ changes' = 0
Watching == since[<<>>] # {}

Init ==
    /\ tree \in Trees
    /\ look = NoLook
    /\ result = NoResult
    /\ interrupted = FALSE
    /\ since = [p \in Paths |-> {tree[p]}]
    /\ missed = {}
    /\ changes = 0

Begin(new) ==
    /\ look' = new
    /\ result' = NoResult
    /\ Watch
    /\ UNCHANGED <<tree, interrupted>>

End(outcome) ==
    /\ look' = NoLook
    /\ result' = outcome
    /\ Unwatch
    /\ UNCHANGED <<tree, interrupted>>

\* The call failed on p, which may be there all the same: permissions, too many
\* open files, a lock.
Fails(p) ==
    /\ changes < MaxChanges
    /\ changes' = changes + 1
    /\ missed' = missed \cup {p}
    /\ UNCHANGED <<tree, since>>

\* Any of them may also be one that cannot be read.
Refused ==
    /\ Ready
    /\ \E input \in Inputs :
          \/ ~Resolves(input)
          \/ NodeAt(tree, AbsolutePath(input)) # Directory  \* list_dir
          \/ NodeAt(tree, AbsolutePath(input)).kind # "text"  \* read_file
    /\ End(ToolError)

\* glob and grep; a root that is not there is found empty.
Search(query) ==
    /\ Ready
    /\ Resolves(query.input)
    /\ Begin(Walk(query, AbsolutePath(query.input)))

ListDir(input) ==
    /\ Ready
    /\ Resolves(input)
    /\ NodeAt(tree, AbsolutePath(input)) = Directory
    /\ Begin([kind |-> "list", root |-> AbsolutePath(input),
              entries |-> SeenIn(AbsolutePath(input))])

\* Directories first; the size of a file only if Info finds it.
ListDone ==
    /\ look.kind = "list"
    /\ LET isDir(k) == look.entries[k].isDir
           dirs == At(look.entries, {k \in DOMAIN look.entries : isDir(k)})
           files == At(look.entries, {k \in DOMAIN look.entries : ~isDir(k)})
           all == dirs \o files
       IN \E sized \in SUBSET {k \in DOMAIN all : ~all[k].isDir /\ tree[all[k].path] # Absent} :
             End(Found([k \in DOMAIN all |-> EntryItem(all[k].path, all[k].isDir, k \in sized)], {}))

Visiting == Head(look.agenda)

\* The session's walks end at the next entry once it is interrupted.
Heeding == look.kind \in {"glob", "grep"}
Going == Walking /\ look.agenda # <<>> /\ ~(Heeding /\ interrupted)

\* Mutation of Skipped: the directory one asks to search is skipped as well.
SkippedAtRoot(p) == Heeding /\ Last(p) \in SkipDirs

Skipped(p) == Heeding /\ p # look.root /\ Last(p) \in SkipDirs

VisitDirectory ==
    /\ Going
    /\ Visiting.isDir
    /\ look' = [look EXCEPT !.agenda =
                   (IF Skipped(Visiting.path) THEN <<>> ELSE SeenIn(Visiting.path)) \o Tail(@)]
    /\ UNCHANGED <<world, result, interrupted>>

\* Of a directory that cannot be read, or not to its end, the walk takes what
\* there is; of a root that it cannot look at, nothing.
DirectoryFails ==
    /\ Going
    /\ Visiting.isDir /\ ~Skipped(Visiting.path)
    /\ LET entries == SeenIn(Visiting.path) IN
       \E read \in SUBSET DOMAIN entries : look' = [look EXCEPT !.agenda = At(entries, read) \o Tail(@)]
    /\ Fails(Visiting.path)
    /\ UNCHANGED <<result, interrupted>>

\* grep cannot read a file, or any walk not look at the one it starts from.
FileFails ==
    /\ Going
    /\ ~Visiting.isDir
    /\ \/ look.kind = "grep" /\ GlobMatches(look.query.glob, Relative(look.root, Visiting.path))
       \/ Visiting.path = look.root
    /\ look' = [look EXCEPT !.agenda = Tail(@)]
    /\ Fails(Visiting.path)
    /\ UNCHANGED <<result, interrupted>>

\* What a walk has after one more file.
Visited(more, hits, stopped) ==
    [look EXCEPT !.found = @ \o more, !.hits = @ + hits, !.stopped = stopped,
                 !.agenda = IF stopped THEN <<>> ELSE Tail(@)]

GlobFile ==
    /\ Going
    /\ look.kind = "glob"
    /\ ~Visiting.isDir
    /\ LET more == IF GlobMatches(look.query.glob, Relative(look.root, Visiting.path))
                   THEN <<PathItem(Visiting.path)>> ELSE <<>>
       IN look' = Visited(more, Len(more), look.hits + Len(more) >= MaxMatches)
    /\ UNCHANGED <<world, result, interrupted>>

\* Mutation of Window: lines are counted from zero.
WindowFromZero(p, lines, at) ==
    LET lo == Max({1, at - look.query.around})
        hi == Min({Len(lines), at + look.query.around})
    IN [k \in 1..(hi - lo + 1) |->
           LineItem(p, lo + k - 2, lines[lo + k - 1], lo + k - 1 = at)]

\* The line that matches and the lines around it.
Window(p, lines, at) ==
    LET lo == Max({1, at - look.query.around})
        hi == Min({Len(lines), at + look.query.around})
    IN [k \in 1..(hi - lo + 1) |->
           LineItem(p, lo + k - 1, lines[lo + k - 1], lo + k - 1 = at)]

MatchingLines(lines, expression) ==
    Ascending({k \in DOMAIN lines : lines[k] \in expression})

\* Files that are binary, too large or gone by now are passed over.
GrepFile ==
    /\ Going
    /\ look.kind = "grep"
    /\ ~Visiting.isDir
    /\ LET p == Visiting.path
           searched == GlobMatches(look.query.glob, Relative(look.root, p)) /\ tree[p].kind = "text"
           places == IF searched THEN MatchingLines(tree[p].lines, look.query.expression) ELSE <<>>
           room == MaxMatches - look.hits
           taken == SubSeq(places, 1, Min({room, Len(places)}))
       IN look' = Visited(FlattenSeq([k \in DOMAIN taken |-> Window(p, tree[p].lines, taken[k])]),
                          Len(taken), Len(places) >= room)
    /\ UNCHANGED <<world, result, interrupted>>

\* glob sorts what it has found, which the walk has done already.
WalkDone ==
    /\ Heeding
    /\ look.agenda = <<>>
    /\ End(Found(look.found, IF look.stopped THEN {"stopped"} ELSE {}))

WalkCancelled ==
    /\ Heeding
    /\ interrupted
    /\ look.agenda # <<>>
    /\ End(Aborted)

-----------------------------------------------------------------------------
(* The pages of read_file.                                                 *)

Lines(p, lines, first, last) ==
    [k \in 1..(last - first + 1) |-> LineItem(p, first + k - 1, lines[first + k - 1], FALSE)]

LastOf(lines, offset, limit) == Min({offset - 1 + limit, Len(lines)})

\* Mutation of Following: the notice names the last line shown.
FollowingAgain(last) == last

\* The line at which the notice of a page says to go on.
Following(last) == last + 1

\* One page from offset on, after the pages that gave got.  Its notice names
\* the line that is next.
Page(p, offset, limit, got) ==
    LET lines == tree[p].lines
        last == LastOf(lines, offset, limit)
        past == offset > Len(lines)
        shown == IF past THEN ToolError
                 ELSE Found(Lines(p, lines, offset, last),
                            IF last < Len(lines) THEN {"more"} ELSE {})
    IN /\ result' = shown
       /\ look' = IF past THEN NoLook
                  ELSE [kind |-> "page", path |-> p, next |-> Following(last),
                        got |-> got \o shown.items]

ReadFirst(input, limit) ==
    LET p == AbsolutePath(input) IN
    /\ Ready
    /\ Resolves(input)
    /\ NodeAt(tree, p).kind = "text"
    /\ Page(p, 1, limit, <<>>)
    /\ Watch
    /\ UNCHANGED <<tree, interrupted>>

\* The model goes on where the notice of the last page says.
ReadNext(limit) ==
    /\ look.kind = "page"
    /\ result.kind = "found" /\ "more" \in result.notes
    /\ tree[look.path].kind = "text"
    /\ Page(look.path, look.next, limit, look.got)
    /\ UNCHANGED <<world, interrupted>>

-----------------------------------------------------------------------------
(* Everything else.                                                        *)

\* Between two looks others change nothing: it is as if the next one had begun
\* with what they leave.
Changed(new) ==
    /\ Watching
    /\ changes < MaxChanges
    /\ tree' = new
    /\ since' = [p \in Paths |-> since[p] \cup {new[p]}]
    /\ changes' = changes + 1
    /\ UNCHANGED <<look, result, interrupted, missed>>

OtherWrites(p) ==
    /\ CanHold(tree, p)
    /\ \E node \in Contents[p] :
          /\ IF node = Directory THEN tree[p] = Absent ELSE tree[p] # Directory
          /\ Changed(Put(tree, p, node))

OtherRemoves(p) ==
    /\ tree[p] # Absent
    /\ Changed(Unlink(tree, p))

\* A file may take the place of another one, as when an editor saves.
OtherRenames(p, q) ==
    /\ tree[p] # Absent
    /\ ~Within(q, p) /\ ~Within(p, q)
    /\ CanHold(tree, q)
    /\ tree[q] = Absent \/ {tree[p], tree[q]} \cap {Absent, Directory} = {}
    /\ \A r \in Paths : Within(r, p) /\ tree[r] # Absent =>
                            q \o SubSeq(r, Len(p) + 1, Len(r)) \in Paths
    /\ Changed(Move(tree, p, q))

\* Only a walk takes notice.
Interrupt ==
    /\ Heeding
    /\ ~interrupted
    /\ interrupted' = TRUE
    /\ UNCHANGED <<world, look, result>>

Others ==
    \/ \E p \in Changeable :
          \/ OtherWrites(p)
          \/ OtherRemoves(p)
    \/ \E p, q \in Movable : OtherRenames(p, q)
    \/ Interrupt

Tools ==
    \/ Refused
    \/ \E input \in Inputs :
          \/ ListDir(input)
          \/ \E limit \in Limits : ReadFirst(input, limit)
    \/ \E query \in Queries : Search(query)
    \/ \E limit \in Limits : ReadNext(limit)
    \/ VisitDirectory
    \/ DirectoryFails
    \/ FileFails
    \/ GlobFile
    \/ GrepFile
    \/ ListDone
    \/ WalkDone
    \/ WalkCancelled

Next == Tools \/ Others

Spec == Init /\ [][Next]_vars

-----------------------------------------------------------------------------
(* Properties.                                                             *)

\* The tree is one, and a look goes over paths of it (search.go, file.go).
TypeOK ==
    /\ IsTree(tree)
    /\ look.kind \in {"none", "glob", "grep", "support", "list", "page"}
    /\ Walking => \A e \in ToSet(look.agenda) : e.path \in Paths /\ Within(e.path, look.root)
    /\ Walking => look.hits <= MaxMatches
    /\ result.kind \in {"none", "error", "aborted", "found"}
    /\ result.kind = "found" => Len(result.items) <= MaxOutput
    /\ interrupted \in BOOLEAN
    /\ since \in [Paths -> SUBSET Node]
    /\ missed \subseteq Paths
    /\ changes \in 0..MaxChanges

\* It stayed as it was, and no reading of it or of a directory above it failed.
Steady(p) == since[p] = {tree[p]} /\ \A q \in missed : ~Within(p, q)

\* A directory that is never searched is below the one that is asked for.
Hidden(root, p) == \E k \in (Len(root) + 1)..(Len(p) - 1) : p[k] \in SkipDirs

\* The lines that a complete result shows of a file.
Wanted(lines) ==
    {k \in DOMAIN lines : \E i \in DOMAIN lines :
         lines[i] \in look.query.expression /\ k \in (i - look.query.around)..(i + look.query.around)}

\* A result that does not say it was stopped or truncated leaves nothing out
\* that could be read: whatever other programs did to other files meanwhile, and
\* whatever could not be read elsewhere in the tree, each file that stayed as it
\* was, and that is not in a skipped directory, is there if its path matches, or
\* each of its lines that does with the lines around it (search.go:144-203 and
\* 251-373); a listing has every entry.  What cannot be read is left out in
\* silence (search.go:168-170 and 309-316).
SilentResultIsComplete ==
    [][look.kind \in {"glob", "grep", "list"} /\ look' = NoLook
       /\ result'.kind = "found" /\ result'.notes = {} =>
          \A p \in Paths : Steady(p) /\ Within(p, look.root) /\ p # look.root =>
             LET items == ToSet(result'.items)
                 sought == IsFile(tree[p]) /\ ~Hidden(look.root, p)
                           /\ GlobMatches(look.query.glob, Relative(look.root, p))
             IN CASE look.kind = "list" ->
                        tree[p] # Absent /\ Front(p) = look.root =>
                           \E sized \in BOOLEAN : EntryItem(p, tree[p] = Directory, sized) \in items
                  [] look.kind = "glob" -> sought => PathItem(p) \in items
                  [] look.kind = "grep" ->
                        sought /\ tree[p].kind = "text" =>
                           \A k \in Wanted(tree[p].lines) : \E hit \in BOOLEAN :
                              LineItem(p, k, tree[p].lines[k], hit) \in items]_vars

\* What a search shows was there when it ran: each path was a file under that
\* path of the workspace, each line stood in the file under that number, and
\* was one that matches if it is shown as such (search.go:182, 336-341).
ShownWasThere ==
    Heeding =>
        \A item \in ToSet(look.found) :
           /\ item.path \in Paths
           /\ \E node \in since[item.path] :
                 /\ IsFile(node)
                 /\ item.kind = "line" =>
                       /\ node.kind = "text"
                       /\ item.number \in DOMAIN node.lines
                       /\ item.text = node.lines[item.number]
                       /\ item.hit => item.text \in look.query.expression

\* Pages that follow one another's notices are the file, each line once and
\* under its number, when a page comes without notice, if the file has stayed
\* as it was (file.go:132-160).
PagesAddUp ==
    look.kind = "page" /\ result.notes = {} /\ Steady(look.path) =>
        look.got = Lines(look.path, tree[look.path].lines, 1, Len(tree[look.path].lines))
=============================================================================
