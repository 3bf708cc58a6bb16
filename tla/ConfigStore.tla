----------------------------- MODULE ConfigStore -----------------------------
(***************************************************************************)
(* Configuration (internal/config, cmd/mkr/config.go): the layers every    *)
(* command loads and validates before it does anything else, and `config   *)
(* set' and `config unset', which read the user's file, write it anew      *)
(* under the name *.tmp and rename that, in any number of processes that   *)
(* may fail or be killed at any step.                                      *)
(***************************************************************************)
CONSTANTS Process,
          Inode,
          Typed,    \* [key, value]: what is typed after `config set'
          Written,  \* what an operator's editor may leave in the file
          Project,  \* <workspace>/.mkr/config.json
          Env,      \* the MKR_* variables, by the key each stands for
          Flags,    \* the flags that commands are given, likewise
          None

\* Files are found by two names; a process may hold one that has no name.
Name == {"config", "tmp"}
Key == {"endpoint", "ca_cert", "mode"}

\* encoding/json matches a name in any case: each key has its own spelling, and
\* another that an editor may use.  `null' is in a file, but sets nothing.
Variant == [endpoint |-> "Endpoint", ca_cert |-> "CA_CERT", mode |-> "Mode"]
Spelling == Key \cup {Variant[k] : k \in Key}
Null == "null"

VARIABLES content,    \* of the files, by inode
          at,         \* the file under each name
          proc,       \* the processes of `config set' and `config unset'
          intended,   \* history: what the updates so far are to have left
          overlapped  \* history: two of them were between read and rename

vars == <<content, at, proc, intended, overlapped>>

\* Files that do not parse, and one that is a map.
Empty == [empty |-> TRUE]
Torn == [torn |-> TRUE]
NoFile == [missing |-> TRUE]
Json(map) == [map |-> map]
Parses(file) == "map" \in DOMAIN file

\* What an editor leaves is settings, or does not parse.
ASSUME ConfigAssumption ==
    /\ None \notin Inode
    /\ \A t \in Typed : t.key \in Key
    /\ \A file \in Written :
          file # Torn => file = Json(file.map) /\ DOMAIN file.map \subseteq Spelling

UserFile == IF at["config"] = None THEN NoFile ELSE content[at["config"]]

-----------------------------------------------------------------------------
(* Loading.                                                                *)

Default == [endpoint |-> "http", ca_cert |-> "", mode |-> "approve"]

\* What is found when there is nothing to read.
MapOf(file) == IF Parses(file) THEN file.map ELSE <<>>

Sets(map, name) == name \in DOMAIN map /\ map[name] # Null

\* Mutation of Taken: the other spelling comes last.
TakenVariant(map) ==
    [k \in {j \in Key : Sets(map, j) \/ Sets(map, Variant[j])} |->
        map[IF Sets(map, Variant[k]) THEN Variant[k] ELSE k]]

\* The name that comes last in the file decides; config set writes the names in
\* order, capitals first, and so is a file of the editor's taken to be.
Taken(map) ==
    [k \in {j \in Key : Sets(map, j) \/ Sets(map, Variant[j])} |->
        map[IF Sets(map, k) THEN k ELSE Variant[k]]]

\* A missing file is an empty layer; one that does not parse is an error.
Layer(file) == Taken(MapOf(file))
Readable(file) == file = NoFile \/ Parses(file)

\* Names and modes are accepted in any case, and with space around them.
ParseMode == [plan |-> "plan", approve |-> "approve", auto |-> "auto", Auto |-> "auto"]

\* MKR_MODE is parsed when it is read; a file's mode is taken as it is.
EnvLayer(env) ==
    [k \in DOMAIN env |-> IF k = "mode" THEN ParseMode[env[k]] ELSE env[k]]
EnvOk(env) == "mode" \in DOMAIN env => env["mode"] \in DOMAIN ParseMode

\* What the upper layer does not set is as in the lower one.
Over(upper, lower) ==
    [k \in DOMAIN upper \cup DOMAIN lower |-> IF k \in DOMAIN upper THEN upper[k] ELSE lower[k]]

Load(user, project, env) ==
    Over(EnvLayer(env), Over(Layer(project), Over(Layer(user), Default)))

\* Endpoints are told apart by their scheme; "ca.pem" is a file that is there.
Validate(cfg) ==
    /\ cfg.endpoint \in {"http", "http/", "https", "https/"}
    /\ cfg.ca_cert # "" => cfg.ca_cert = "ca.pem" /\ cfg.endpoint \in {"https", "https/"}
    /\ cfg.mode \in DOMAIN ParseMode

\* What run does with every command before it looks at which one it is.
Accepts(user, project, env, flags) ==
    /\ Readable(user)
    /\ Readable(project)
    /\ EnvOk(env)
    /\ EnvOk(flags)
    /\ Validate(Over(EnvLayer(flags), Load(user, project, env)))

-----------------------------------------------------------------------------
(* Updates.                                                                *)

Unset(key) == [op |-> "unset", key |-> key]
Set(key, value) == [op |-> "set", key |-> key, value |-> value]

\* Mutation of ValueOk: a mode is not looked at.
ValueOkAnyMode(key, value) ==
    CASE key = "endpoint" -> value \in {"http", "http/", "https", "https/"}
      [] key = "ca_cert" -> value = "ca.pem"
      [] key = "mode" -> TRUE

\* What parseValue lets pass.  An endpoint is judged beside the defaults, not
\* beside the certificate authority that is configured.
ValueOk(key, value) ==
    CASE key = "endpoint" -> Validate([Default EXCEPT !.endpoint = value])
      [] key = "ca_cert" -> value = "ca.pem"
      [] key = "mode" -> value \in DOMAIN ParseMode

\* ... and what it makes of it.
parseValue(key, value) ==
    CASE key = "endpoint" /\ value = "http/" -> "http"
      [] key = "endpoint" /\ value = "https/" -> "https"
      [] key = "mode" /\ value \in DOMAIN ParseMode -> ParseMode[value]
      [] OTHER -> value

Updated(map, cmd) ==
    IF cmd.op = "set" THEN Over([k \in {cmd.key} |-> parseValue(cmd.key, cmd.value)], map)
    ELSE [k \in DOMAIN map \ {cmd.key} |-> map[k]]

NoProcess == [phase |-> "none"]
Busy(p) == proc[p].phase \in {"read", "created", "written"}
Ended(p) == proc' = [proc EXCEPT ![p] = NoProcess]

Init ==
    /\ content = [i \in Inode |-> Empty]
    /\ at = [n \in Name |-> None]
    /\ proc = [p \in Process |-> NoProcess]
    /\ intended = NoFile
    /\ overlapped = FALSE

\* A command starts and its own arguments are good; another ends here.
Start(p, cmd) ==
    /\ proc[p] = NoProcess
    /\ cmd.op = "set" => ValueOk(cmd.key, cmd.value)
    /\ \E project \in Project, env \in Env, flags \in Flags :
          Accepts(UserFile, project, env, flags)
    /\ proc' = [proc EXCEPT ![p] = [phase |-> "started", cmd |-> cmd]]
    /\ UNCHANGED <<content, at, intended, overlapped>>

\* The file is read a second time, and its map changed.
ReadMap(p) ==
    /\ proc[p].phase = "started"
    /\ Readable(UserFile)
    /\ LET map == MapOf(UserFile)
           cmd == proc[p].cmd IN
       /\ cmd.op = "unset" => cmd.key \in DOMAIN map
       /\ proc' = [proc EXCEPT ![p] = [phase |-> "read", cmd |-> cmd, map |-> Updated(map, cmd)]]
    /\ overlapped' = (overlapped \/ \E q \in Process : Busy(q))
    /\ UNCHANGED <<content, at, intended>>

\* The file does not parse any more, or the key to unset is not in it.
Refused(p) ==
    /\ proc[p].phase = "started"
    /\ Readable(UserFile) => proc[p].cmd.op = "unset" /\ proc[p].cmd.key \notin DOMAIN MapOf(UserFile)
    /\ Ended(p)
    /\ UNCHANGED <<content, at, intended, overlapped>>

Held == {proc[q].inode : q \in {r \in Process : proc[r].phase \in {"created", "written"}}}
Free == Inode \ (Held \cup {at[n] : n \in Name})

\* O_CREATE|O_TRUNC: the file that has the name is emptied, or there is a new one.
Opened(name, p) ==
    \E i \in IF at[name] = None THEN Free ELSE {at[name]} :
        /\ at' = [at EXCEPT ![name] = i]
        /\ content' = [content EXCEPT ![i] = Empty]
        /\ proc' = [proc EXCEPT ![p] =
              [phase |-> "created", cmd |-> @.cmd, map |-> @.map, inode |-> i]]

\* Mutation of Create: the file itself is opened, not a temporary one.
CreateInPlace(p) ==
    /\ proc[p].phase = "read"
    /\ Opened("config", p)
    /\ UNCHANGED <<intended, overlapped>>

Create(p) ==
    /\ proc[p].phase = "read"
    /\ Opened("tmp", p)
    /\ UNCHANGED <<intended, overlapped>>

\* From the start of the file.  What another process has written there and is
\* longer stands behind it.
Overlay(old, map) == {Json(map)} \cup (IF old \in {Empty, Json(map)} THEN {} ELSE {Torn})

Write(p) ==
    /\ proc[p].phase = "created"
    /\ \E new \in Overlay(content[proc[p].inode], proc[p].map) :
          content' = [content EXCEPT ![proc[p].inode] = new]
    /\ proc' = [proc EXCEPT ![p].phase = "written"]
    /\ UNCHANGED <<at, intended, overlapped>>

\* Write or Close fails: whatever is called *.tmp is removed.
WriteFails(p) ==
    /\ proc[p].phase \in {"created", "written"}
    /\ content' = [content EXCEPT ![proc[p].inode] = IF proc[p].phase = "created" THEN Torn ELSE @]
    /\ at' = [at EXCEPT !["tmp"] = None]
    /\ Ended(p)
    /\ UNCHANGED <<intended, overlapped>>

\* Mutation of Rename: the file keeps its temporary name as well.
RenameLinking(p) ==
    /\ proc[p].phase = "written"
    /\ at["tmp"] # None
    /\ at' = [at EXCEPT !["config"] = at["tmp"]]
    /\ intended' = Json(Updated(MapOf(intended), proc[p].cmd))
    /\ Ended(p)
    /\ UNCHANGED <<content, overlapped>>

Rename(p) ==
    /\ proc[p].phase = "written"
    /\ at["tmp"] # None
    /\ at' = [config |-> at["tmp"], tmp |-> None]
    /\ intended' = Json(Updated(MapOf(intended), proc[p].cmd))
    /\ Ended(p)
    /\ UNCHANGED <<content, overlapped>>

\* Creating or renaming fails, the latter also because another process has
\* renamed the file; nothing is removed.
StepFails(p) ==
    /\ proc[p].phase \in {"read", "written"}
    /\ Ended(p)
    /\ UNCHANGED <<content, at, intended, overlapped>>

Kill(p) ==
    /\ proc[p] # NoProcess
    /\ IF proc[p].phase = "created"
       THEN content' \in {content, [content EXCEPT ![proc[p].inode] = Torn]}
       ELSE UNCHANGED content
    /\ Ended(p)
    /\ UNCHANGED <<at, intended, overlapped>>

\* The operator edits the file.
Edit(file) ==
    /\ \E i \in IF at["config"] = None THEN Free ELSE {at["config"]} :
          /\ at' = [at EXCEPT !["config"] = i]
          /\ content' = [content EXCEPT ![i] = file]
    /\ intended' = file
    /\ overlapped' = (overlapped \/ \E q \in Process : Busy(q))
    /\ UNCHANGED proc

Commands == {Set(t.key, t.value) : t \in Typed} \cup {Unset(k) : k \in Key}

Next ==
    \/ \E p \in Process :
          \/ \E cmd \in Commands : Start(p, cmd)
          \/ ReadMap(p)
          \/ Refused(p)
          \/ Create(p)
          \/ Write(p)
          \/ WriteFails(p)
          \/ Rename(p)
          \/ StepFails(p)
          \/ Kill(p)
    \/ \E file \in Written : Edit(file)

Spec == Init /\ [][Next]_vars

-----------------------------------------------------------------------------
(* Properties.                                                             *)

Values == {t.value : t \in Typed} \cup {Default[k] : k \in Key} \cup {"http", "https", "auto"}
             \cup UNION {{f.map[k] : k \in DOMAIN f.map} : f \in {g \in Written : Parses(g)}}

IsFile(file) ==
    \/ file \in {Empty, Torn}
    \/ /\ DOMAIN file.map \subseteq Spelling
       /\ \A k \in DOMAIN file.map : file.map[k] \in Values

\* Names are of different files, and a process holds one while it writes it.
TypeOK ==
    /\ \A i \in Inode : IsFile(content[i])
    /\ \A n \in Name : at[n] \in Inode \cup {None}
    /\ at["config"] = at["tmp"] => at["tmp"] = None
    /\ \A p \in Process :
          \/ proc[p] = NoProcess
          \/ proc[p].phase = "started" /\ proc[p].cmd \in Commands
          \/ proc[p].phase = "read" /\ IsFile(Json(proc[p].map))
          \/ proc[p].phase \in {"created", "written"} /\ proc[p].inode \in Inode
    /\ intended = NoFile \/ IsFile(intended)
    /\ overlapped \in BOOLEAN

\* While updates do not overlap, each that is carried out has its effect on the
\* key it names and on no other, at once; one that fails or is killed at any
\* step has none; and a file that does not parse is left as it is
\* (writeConfigMap, config_test.go:164).
UpdatesTakeEffect == ~overlapped => UserFile = intended

Usable(file) == Accepts(file, NoFile, <<>>, <<>>)

\* A certificate authority is configured for an endpoint that is not https.
AtOdds(file) ==
    LET cfg == Load(file, NoFile, <<>>) IN
    cfg.ca_cert # "" /\ cfg.endpoint \in {"http", "http/"}

\* Some process puts its file in place.
PutInPlace(p) ==
    /\ proc[p].phase = "written" /\ proc'[p] = NoProcess
    /\ at["tmp"] # None /\ at'["config"] = at["tmp"]

\* No update makes a configuration that later commands, config set among them,
\* refuse, whatever was updated before (parseValue against Validate), but for
\* two: endpoint and ca_cert are judged each without the other, and what the
\* file has under another spelling is judged by nobody when config unset lets
\* it take effect.
SettingsStayUsable ==
    [][\A p \in Process :
          PutInPlace(p) /\ Usable(UserFile) /\ ~overlapped =>
             \/ Usable(UserFile')
             \/ AtOdds(UserFile')
             \/ proc[p].cmd.op = "unset" /\ Sets(UserFile'.map, Variant[proc[p].cmd.key])]_vars

\* What config set has put in place is what the next load takes from the file,
\* however else the setting is spelled there and whatever was done to the file
\* before (configSet against mergeFile).
SetIsWhatIsLoaded ==
    [][\A p \in Process :
          PutInPlace(p) /\ ~overlapped /\ proc[p].cmd.op = "set" =>
             LET cmd == proc[p].cmd IN
             Load(UserFile', NoFile, <<>>)[cmd.key] = parseValue(cmd.key, cmd.value)]_vars
=============================================================================
