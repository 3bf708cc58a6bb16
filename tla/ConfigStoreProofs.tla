-------------------------- MODULE ConfigStoreProofs --------------------------
(***************************************************************************)
(* Theorems about the configuration (ConfigStore).  While updates do not   *)
(* overlap, the one that is being carried out holds what the file is to    *)
(* become, and writes it into a file that is not the user's: Undisturbed   *)
(* says so for each step it may stop at.                                   *)
(***************************************************************************)
EXTENDS ConfigStore, TLAPS

-----------------------------------------------------------------------------
(* Files and updates.                                                      *)

\* The commands whose arguments parseValue has let pass.
Good == {cmd \in Commands : cmd.op = "set" => ValueOk(cmd.key, cmd.value)}

IsMap(map) == DOMAIN map \subseteq Spelling /\ \A k \in DOMAIN map : map[k] \in Values

Stored(file) == file \in {Empty, Torn} \/ (file = Json(file.map) /\ IsMap(file.map))

\* A file that parses is none of those that do not.
LEMMA JsonParses ==
    ASSUME NEW m
    PROVE  /\ Json(m) \notin {Empty, Torn, NoFile}
           /\ Parses(Json(m))
           /\ Json(m).map = m
           /\ Readable(Json(m))
           /\ Layer(Json(m)) = Taken(m)
           /\ MapOf(Json(m)) = m
<1>1. Json(m) \notin {Empty, Torn, NoFile} /\ Parses(Json(m)) /\ Json(m).map = m
  BY DEF Empty, Torn, NoFile, Json, Parses
<1>. QED  BY <1>1 DEF Readable, Layer, MapOf

\* A file that is empty, torn or not there parses as no settings.
LEMMA OthersDoNot ==
    /\ ~ Parses(Empty)
    /\ ~ Parses(Torn)
    /\ ~ Parses(NoFile)
    /\ Empty # Torn
    /\ NoFile \notin {Empty, Torn}
    /\ \A file \in {Empty, Torn, NoFile} : MapOf(file) = <<>>
  BY DEF Empty, Torn, NoFile, Parses, MapOf

\* The empty map has no names, and a file that is not there sets nothing.
LEMMA EmptyLayer == DOMAIN <<>> = {} /\ DOMAIN Layer(NoFile) = {}
<1>1. DOMAIN <<>> = {}
  OBVIOUS
<1>2. MapOf(NoFile) = <<>>
  BY OthersDoNot
<1>. QED  BY <1>1, <1>2 DEF Layer, Taken, Sets

\* The keys' own spellings and the others are different names.
LEMMA Spellings ==
    /\ Key \subseteq Spelling
    /\ \A k \in Key : Variant[k] \notin Key
    /\ \A j, k \in Key : Variant[j] = Variant[k] => j = k
  BY DEF Key, Variant, Spelling

\* The defaults are a map, with every key.
LEMMA DefaultIsMap == DOMAIN Default = Key /\ IsMap(Default)
<1>1. DOMAIN Default = Key
  BY DEF Default, Key
<1>. QED  BY <1>1, Spellings DEF IsMap, Values

\* What ParseMode accepts, and as what.
LEMMA Modes == /\ DOMAIN ParseMode = {"plan", "approve", "auto", "Auto"}
               /\ ParseMode["plan"] = "plan"
               /\ ParseMode["approve"] = "approve"
               /\ ParseMode["auto"] = "auto"
               /\ ParseMode["Auto"] = "auto"
  BY DEF ParseMode

\* Over is what the layering of the code is: the upper value where there is one.
LEMMA OverLayers ==
    ASSUME NEW upper, NEW lower
    PROVE  /\ DOMAIN Over(upper, lower) = DOMAIN upper \cup DOMAIN lower
           /\ \A k \in DOMAIN upper : Over(upper, lower)[k] = upper[k]
           /\ \A k \in DOMAIN lower \ DOMAIN upper : Over(upper, lower)[k] = lower[k]
  BY DEF Over

\* What is read of any file is a map of settings.
LEMMA MapOfIsMap ==
    ASSUME NEW file, file = NoFile \/ Stored(file)
    PROVE  IsMap(MapOf(file))
<1>1. CASE file = Json(file.map) /\ IsMap(file.map)
  BY <1>1, JsonParses
<1>2. CASE file \in {NoFile, Empty, Torn}
  BY <1>2, OthersDoNot, EmptyLayer DEF IsMap
<1>. QED  BY <1>1, <1>2 DEF Stored

\* A command that is carried out is for a key there is, with a value it takes.
LEMMA GoodCommands ==
    ASSUME NEW cmd \in Good
    PROVE  /\ cmd.key \in Key
           /\ cmd.op \in {"set", "unset"}
           /\ cmd.op = "set" => ValueOk(cmd.key, cmd.value) /\ cmd.value \in Values
<1>1. CASE \E t \in Typed : cmd = Set(t.key, t.value)
  <2>1. PICK t \in Typed : cmd = Set(t.key, t.value)
    BY <1>1
  <2>2. cmd.key = t.key /\ cmd.value = t.value /\ cmd.op = "set"
    BY <2>1 DEF Set
  <2>. QED  BY <2>2, ConfigAssumption DEF Good, Values
<1>2. CASE \E k \in Key : cmd = Unset(k)
  BY <1>2 DEF Unset
<1>. QED  BY <1>1, <1>2 DEF Good, Commands

\* What config set writes for a value that it accepts.
LEMMA ParsedValues ==
    ASSUME NEW cmd \in Good, cmd.op = "set"
    PROVE  /\ parseValue(cmd.key, cmd.value) \in Values
           /\ cmd.key = "endpoint" => parseValue(cmd.key, cmd.value) \in {"http", "https"}
           /\ cmd.key = "ca_cert" => parseValue(cmd.key, cmd.value) = "ca.pem"
           /\ cmd.key = "mode" => parseValue(cmd.key, cmd.value) \in DOMAIN ParseMode
<1>. DEFINE value == parseValue(cmd.key, cmd.value)
<1>1. cmd.key \in Key /\ ValueOk(cmd.key, cmd.value) /\ cmd.value \in Values
  BY GoodCommands
<1>2. CASE cmd.key = "endpoint"
  <2>1. Validate([Default EXCEPT !.endpoint = cmd.value])
    BY <1>1, <1>2 DEF ValueOk
  <2>2. cmd.value \in {"http", "http/", "https", "https/"}
    BY <2>1 DEF Validate, Default
  <2>3. value \in {"http", "https"}
    BY <1>2, <2>2 DEF parseValue
  <2>4. {"http", "https"} \subseteq Values
    BY DEF Values
  <2>. QED  BY <1>2, <2>3, <2>4
<1>3. CASE cmd.key = "ca_cert"
  <2>1. cmd.value = "ca.pem"
    BY <1>1, <1>3 DEF ValueOk
  <2>. QED  BY <1>1, <1>3, <2>1 DEF parseValue
<1>4. CASE cmd.key = "mode"
  <2>1. cmd.value \in DOMAIN ParseMode
    BY <1>1, <1>4 DEF ValueOk
  <2>2. value = ParseMode[cmd.value]
    BY <1>4, <2>1 DEF parseValue
  <2>3. value \in {cmd.value, "auto"} /\ value \in DOMAIN ParseMode
    BY <2>1, <2>2, Modes
  <2>4. "auto" \in Values
    BY DEF Values
  <2>. QED  BY <1>1, <1>4, <2>3, <2>4
<1>. QED  BY <1>1, <1>2, <1>3, <1>4 DEF Key

\* It is never null.
LEMMA ParsedIsNotNull ==
    ASSUME NEW cmd \in Good, cmd.op = "set"
    PROVE  parseValue(cmd.key, cmd.value) # Null
<1>. DEFINE value == parseValue(cmd.key, cmd.value)
<1>1. /\ cmd.key = "endpoint" => value \in {"http", "https"}
      /\ cmd.key = "ca_cert" => value = "ca.pem"
      /\ cmd.key = "mode" => value \in DOMAIN ParseMode
  BY ParsedValues
<1>2. cmd.key \in Key
  BY GoodCommands
<1>. HIDE DEF value
<1>3. value # Null
  BY <1>1, <1>2, Modes DEF Key, Null
<1>. QED  BY <1>3 DEF value

\* An update touches the key it names and no other.
LEMMA UpdateTouchesItsKey ==
    ASSUME NEW map, NEW cmd \in Good
    PROVE  /\ \A k \in DOMAIN map : k # cmd.key =>
                 k \in DOMAIN Updated(map, cmd) /\ Updated(map, cmd)[k] = map[k]
           /\ \A k \in DOMAIN Updated(map, cmd) : k # cmd.key => k \in DOMAIN map
           /\ cmd.op = "set" =>
                 /\ cmd.key \in DOMAIN Updated(map, cmd)
                 /\ Updated(map, cmd)[cmd.key] = parseValue(cmd.key, cmd.value)
           /\ cmd.op = "unset" => cmd.key \notin DOMAIN Updated(map, cmd)
<1>1. CASE cmd.op = "set"
  <2>. DEFINE one == [k \in {cmd.key} |-> parseValue(cmd.key, cmd.value)]
  <2>1. DOMAIN one = {cmd.key} /\ one[cmd.key] = parseValue(cmd.key, cmd.value)
    OBVIOUS
  <2>2. Updated(map, cmd) = Over(one, map)
    BY <1>1 DEF Updated
  <2>. HIDE DEF one
  <2>3. DOMAIN Over(one, map) = {cmd.key} \cup DOMAIN map
    BY <2>1 DEF Over
  <2>4. Over(one, map)[cmd.key] = parseValue(cmd.key, cmd.value)
    BY <2>1 DEF Over
  <2>5. \A k \in DOMAIN map : k # cmd.key => Over(one, map)[k] = map[k]
    BY <2>1 DEF Over
  <2>. QED  BY <1>1, <2>2, <2>3, <2>4, <2>5
<1>2. CASE cmd.op # "set"
  BY <1>2 DEF Updated
<1>. QED  BY <1>1, <1>2

\* A map of settings stays one under any command.
LEMMA UpdatedIsMap ==
    ASSUME NEW map, IsMap(map), NEW cmd \in Good
    PROVE  IsMap(Updated(map, cmd))
<1>. DEFINE new == Updated(map, cmd)
<1>1. \A k \in DOMAIN new : k # cmd.key => k \in DOMAIN map /\ new[k] = map[k]
  BY UpdateTouchesItsKey
<1>2. \A k \in DOMAIN new : k = cmd.key => k \in Spelling /\ new[k] \in Values
  BY UpdateTouchesItsKey, GoodCommands, ParsedValues, Spellings
<1>. HIDE DEF new
<1>3. IsMap(new)
  BY <1>1, <1>2 DEF IsMap
<1>. QED  BY <1>3 DEF new

-----------------------------------------------------------------------------
(* What the layers give for each setting.                                  *)

\* With no project file, environment and flags.
Setting(map, key) == IF key \in DOMAIN map THEN map[key] ELSE Default[key]

\* No environment sets nothing, and is valid.
LEMMA EmptyEnv == DOMAIN EnvLayer(<<>>) = {} /\ EnvOk(<<>>)
  BY EmptyLayer DEF EnvLayer, EnvOk

\* With only the user's file, a setting is its own or the default.
LEMMA LoadedAlone ==
    ASSUME NEW file, NEW key \in Key
    PROVE  /\ Load(file, NoFile, <<>>)[key] = Setting(Layer(file), key)
           /\ Over(EnvLayer(<<>>), Load(file, NoFile, <<>>))[key] = Setting(Layer(file), key)
<1>. DEFINE env == EnvLayer(<<>>)
            project == Layer(NoFile)
            user == Layer(file)
            users == Over(user, Default)
            projects == Over(project, users)
            cfg == Over(env, projects)
<1>1. DOMAIN env = {} /\ DOMAIN project = {} /\ DOMAIN Default = Key
  BY EmptyEnv, EmptyLayer, DefaultIsMap
<1>2. Load(file, NoFile, <<>>) = cfg
  BY DEF Load
<1>. HIDE DEF env, project, user
<1>3. key \in DOMAIN users /\ users[key] = Setting(user, key)
  BY <1>1 DEF Over, Setting
<1>. HIDE DEF users
<1>4. key \in DOMAIN projects /\ projects[key] = users[key]
  BY <1>1, <1>3 DEF Over
<1>. HIDE DEF projects
<1>5. key \in DOMAIN cfg /\ cfg[key] = projects[key]
  BY <1>1, <1>4 DEF Over
<1>. HIDE DEF cfg
<1>6. Over(env, cfg)[key] = cfg[key]
  BY <1>1, <1>5 DEF Over
<1>. QED  BY <1>2, <1>3, <1>4, <1>5, <1>6 DEF env, user

\* Validate, setting by setting.
Valid(map) ==
    /\ Setting(map, "endpoint") \in {"http", "http/", "https", "https/"}
    /\ Setting(map, "ca_cert") # "" =>
          /\ Setting(map, "ca_cert") = "ca.pem"
          /\ Setting(map, "endpoint") \in {"https", "https/"}
    /\ Setting(map, "mode") \in DOMAIN ParseMode

\* A file can be loaded exactly if the settings it makes are valid.
LEMMA UsableIsValid ==
    ASSUME NEW file, Readable(file)
    PROVE  Usable(file) <=> Valid(Layer(file))
<1>1. Readable(NoFile)
  BY DEF Readable
<1>. DEFINE cfg == Over(EnvLayer(<<>>), Load(file, NoFile, <<>>))
<1>2. Usable(file) <=> Validate(cfg)
  BY <1>1, EmptyEnv DEF Usable, Accepts
<1>3. /\ cfg["endpoint"] = Setting(Layer(file), "endpoint")
      /\ cfg["ca_cert"] = Setting(Layer(file), "ca_cert")
      /\ cfg["mode"] = Setting(Layer(file), "mode")
  BY LoadedAlone DEF Key
<1>. HIDE DEF cfg
<1>4. Validate(cfg) <=> Valid(Layer(file))
  BY <1>3 DEF Validate, Valid
<1>. QED  BY <1>2, <1>4

\* What a map gives for a setting: its own spelling goes before the other.
LEMMA TakenGives ==
    ASSUME NEW map, NEW key \in Key
    PROVE  Setting(Taken(map), key) =
              IF Sets(map, key) THEN map[key]
              ELSE IF Sets(map, Variant[key]) THEN map[Variant[key]]
              ELSE Default[key]
  BY DEF Taken, Setting

\* What an update makes of the settings: the one it names is as it is written,
\* the default or what stood under another spelling, and the rest is as before.
LEMMA UpdatedGives ==
    ASSUME NEW map, NEW cmd \in Good
    PROVE  /\ \A k \in Key : k # cmd.key =>
                 Setting(Taken(Updated(map, cmd)), k) = Setting(Taken(map), k)
           /\ cmd.op = "set" => Setting(Taken(Updated(map, cmd)), cmd.key)
                                     = parseValue(cmd.key, cmd.value)
           /\ cmd.op = "unset" /\ ~Sets(Updated(map, cmd), Variant[cmd.key]) =>
                 Setting(Taken(Updated(map, cmd)), cmd.key) = Default[cmd.key]
<1>. DEFINE new == Updated(map, cmd)
<1>1. /\ \A n \in DOMAIN map : n # cmd.key => n \in DOMAIN new /\ new[n] = map[n]
      /\ \A n \in DOMAIN new : n # cmd.key => n \in DOMAIN map
  BY UpdateTouchesItsKey
<1>2. cmd.op = "set" => /\ cmd.key \in DOMAIN new
                        /\ new[cmd.key] = parseValue(cmd.key, cmd.value)
  BY UpdateTouchesItsKey
<1>3. cmd.op = "unset" => cmd.key \notin DOMAIN new
  BY UpdateTouchesItsKey
<1>4. cmd.key \in Key
  BY GoodCommands
<1>. HIDE DEF new
<1>5. ASSUME NEW n, n # cmd.key
      PROVE  (Sets(new, n) <=> Sets(map, n)) /\ (Sets(map, n) => new[n] = map[n])
  BY <1>1, <1>5 DEF Sets
<1>6. ASSUME NEW k \in Key, k # cmd.key
      PROVE  Setting(Taken(new), k) = Setting(Taken(map), k)
  <2>1. Variant[k] # cmd.key
    BY <1>4, Spellings
  <2>2. /\ (Sets(new, k) <=> Sets(map, k)) /\ (Sets(map, k) => new[k] = map[k])
        /\ Sets(new, Variant[k]) <=> Sets(map, Variant[k])
        /\ Sets(map, Variant[k]) => new[Variant[k]] = map[Variant[k]]
    BY <1>5, <1>6, <2>1
  <2>. QED  BY <2>2, TakenGives
<1>7. cmd.op = "set" => Setting(Taken(new), cmd.key) = parseValue(cmd.key, cmd.value)
  <2>1. cmd.op = "set" => Sets(new, cmd.key)
    BY <1>2, ParsedIsNotNull DEF Sets
  <2>. QED  BY <1>2, <1>4, <2>1, TakenGives
<1>8. cmd.op = "unset" /\ ~Sets(new, Variant[cmd.key]) =>
         Setting(Taken(new), cmd.key) = Default[cmd.key]
  BY <1>3, <1>4, TakenGives DEF Sets
<1>. QED  BY <1>6, <1>7, <1>8 DEF new

\* An accepted update of a usable configuration leaves a usable one, or one
\* whose certificate authority is for an endpoint that is not https, or it lets
\* what stood under another spelling take effect.
LEMMA UpdateKeepsUsable ==
    ASSUME NEW map, Valid(Taken(map)), NEW cmd \in Good,
           cmd.op = "unset" => ~Sets(Updated(map, cmd), Variant[cmd.key])
    PROVE  \/ Valid(Taken(Updated(map, cmd)))
           \/ /\ Setting(Taken(Updated(map, cmd)), "ca_cert") # ""
              /\ Setting(Taken(Updated(map, cmd)), "endpoint") \in {"http", "http/"}
<1>. DEFINE old == Taken(map)
            new == Taken(Updated(map, cmd))
<1>1. \A k \in Key : k # cmd.key => Setting(new, k) = Setting(old, k)
  BY UpdatedGives
<1>2. cmd.op = "set" => Setting(new, cmd.key) = parseValue(cmd.key, cmd.value)
  BY UpdatedGives
<1>3. cmd.op = "unset" => Setting(new, cmd.key) = Default[cmd.key]
  BY UpdatedGives
<1>. HIDE DEF new, old
<1>4. cmd.key \in Key /\ cmd.op \in {"set", "unset"}
  BY GoodCommands
<1>5. /\ cmd.key = "endpoint" => Setting(new, cmd.key) \in {"http", "https"}
      /\ cmd.key = "ca_cert" => Setting(new, cmd.key) \in {"ca.pem", ""}
      /\ cmd.key = "mode" => Setting(new, cmd.key) \in DOMAIN ParseMode
  <2>1. CASE cmd.op = "set"
    BY <1>2, <2>1, ParsedValues
  <2>2. CASE cmd.op = "unset"
    <3>1. Default["endpoint"] = "http" /\ Default["ca_cert"] = "" /\ Default["mode"] = "approve"
      BY DEF Default
    <3>. QED  BY <1>3, <2>2, <3>1, Modes
  <2>. QED  BY <1>4, <2>1, <2>2
<1>6. Valid(old)
  BY DEF old
<1>7. Valid(new) \/ (Setting(new, "ca_cert") # "" /\ Setting(new, "endpoint") \in {"http", "http/"})
  <2>1. CASE cmd.key = "endpoint"
    <3>1. Setting(new, "ca_cert") = Setting(old, "ca_cert") /\ Setting(new, "mode") = Setting(old, "mode")
      BY <1>1, <2>1 DEF Key
    <3>. QED  BY <1>5, <1>6, <2>1, <3>1 DEF Valid
  <2>2. CASE cmd.key = "ca_cert"
    <3>1. Setting(new, "endpoint") = Setting(old, "endpoint") /\ Setting(new, "mode") = Setting(old, "mode")
      BY <1>1, <2>2 DEF Key
    <3>. QED  BY <1>5, <1>6, <2>2, <3>1 DEF Valid
  <2>3. CASE cmd.key = "mode"
    <3>1. Setting(new, "endpoint") = Setting(old, "endpoint") /\ Setting(new, "ca_cert") = Setting(old, "ca_cert")
      BY <1>1, <2>3 DEF Key
    <3>. QED  BY <1>5, <1>6, <2>3, <3>1 DEF Valid
  <2>. QED  BY <1>4, <2>1, <2>2, <2>3 DEF Key
<1>. QED  BY <1>7 DEF new

-----------------------------------------------------------------------------
(* The inductive invariant.                                                *)

Started(r) == r = [phase |-> "started", cmd |-> r.cmd]
Reading(r) == r = [phase |-> "read", cmd |-> r.cmd, map |-> r.map] /\ IsMap(r.map)
Holding(r) ==
    /\ r.phase \in {"created", "written"}
    /\ r = [phase |-> r.phase, cmd |-> r.cmd, map |-> r.map, inode |-> r.inode]
    /\ IsMap(r.map)
    /\ r.inode \in Inode

ProcessOK(r) == r = NoProcess \/ (r.cmd \in Good /\ (Started(r) \/ Reading(r) \/ Holding(r)))

FilesOK ==
    /\ DOMAIN content = Inode
    /\ \A i \in Inode : Stored(content[i])
    /\ at \in [Name -> Inode \cup {None}]
    /\ at["config"] = at["tmp"] => at["tmp"] = None

HistoryOK ==
    /\ intended = NoFile \/ Stored(intended)
    /\ overlapped \in BOOLEAN

ProcessesOK ==
    /\ DOMAIN proc = Process
    /\ \A p \in Process : ProcessOK(proc[p])

\* One update at a time is carried out, on the file that is called *.tmp.
Sole == \A p, q \in Process : Busy(p) /\ Busy(q) => p = q

Plan(p) ==
    /\ Busy(p) => proc[p].map = Updated(MapOf(intended), proc[p].cmd)
    /\ proc[p].phase \in {"created", "written"} => proc[p].inode = at["tmp"]
    /\ proc[p].phase = "created" => content[at["tmp"]] = Empty
    /\ proc[p].phase = "written" => content[at["tmp"]] = Json(proc[p].map)

Undisturbed == UserFile = intended /\ Sole /\ \A p \in Process : Plan(p)

Inv == FilesOK /\ HistoryOK /\ ProcessesOK /\ (~overlapped => Undisturbed)

\* Which phase a process is in says what it holds.
LEMMA PhaseTells ==
    ASSUME NEW r, ProcessOK(r)
    PROVE  /\ r.phase = "none" <=> r = NoProcess
           /\ r.phase \in {"none", "started", "read", "created", "written"}
           /\ r.phase = "started" => Started(r) /\ r.cmd \in Good
           /\ r.phase = "read" => Reading(r) /\ r.cmd \in Good
           /\ r.phase \in {"created", "written"} => Holding(r) /\ r.cmd \in Good
  BY DEF ProcessOK, Started, Reading, Holding, NoProcess

\* The invariant holds at first.
LEMMA InitInv == Init => Inv
<1>. SUFFICES ASSUME Init
              PROVE  Inv
  OBVIOUS
<1>1. FilesOK
  BY DEF Init, FilesOK, Stored, Name
<1>2. HistoryOK
  BY DEF Init, HistoryOK
<1>3. ProcessesOK
  BY DEF Init, ProcessesOK, ProcessOK
<1>4. \A p \in Process : proc[p].phase = "none"
  BY DEF Init, NoProcess
<1>5. Undisturbed
  BY <1>4 DEF Init, Undisturbed, UserFile, Name, Sole, Busy, Plan
<1>. QED  BY <1>1, <1>2, <1>3, <1>5 DEF Inv

\* The user's file is settings, or nothing that parses.
LEMMA UserFileStored == FilesOK => UserFile = NoFile \/ Stored(UserFile)
  BY DEF FilesOK, UserFile, Name

\* Where a process ends: the files may change only if it was at an update.
LEMMA EndingKeeps ==
    ASSUME Inv, NEW p \in Process, Ended(p), UNCHANGED <<intended, overlapped>>,
           FilesOK',
           Busy(p) /\ ~overlapped => UserFile' = UserFile,
           ~Busy(p) => UNCHANGED <<content, at>>
    PROVE  Inv'
<1>1. \A q \in Process : proc'[q] = IF q = p THEN NoProcess ELSE proc[q]
  BY DEF Inv, ProcessesOK, Ended
<1>2. ProcessesOK'
  BY <1>1 DEF Inv, ProcessesOK, ProcessOK, Ended
<1>3. ASSUME ~overlapped
      PROVE  Undisturbed'
  <2>1. Undisturbed
    BY <1>3 DEF Inv
  <2>2. \A q \in Process : Busy(q)' => q # p /\ Busy(q)
    BY <1>1 DEF Busy, NoProcess
  <2>3. Sole'
    BY <2>1, <2>2 DEF Undisturbed, Sole
  <2>4. UserFile' = UserFile
    <3>1. CASE Busy(p)
      BY <1>3, <3>1
    <3>2. CASE ~Busy(p)
      BY <3>2 DEF UserFile
    <3>. QED  BY <3>1, <3>2
  <2>5. ASSUME NEW q \in Process
        PROVE  Plan(q)'
    <3>1. CASE ~Busy(q)'
      BY <3>1 DEF Plan, Busy
    <3>2. CASE Busy(q)'
      <4>1. q # p /\ Busy(q) /\ ~Busy(p)
        BY <2>1, <2>2, <3>2 DEF Undisturbed, Sole
      <4>. QED  BY <1>1, <2>1, <4>1 DEF Undisturbed, Plan, Busy
    <3>. QED  BY <3>1, <3>2
  <2>. QED  BY <2>1, <2>3, <2>4, <2>5 DEF Undisturbed
<1>. QED  BY <1>2, <1>3 DEF Inv, HistoryOK

\* A process that starts keeps the invariant.
LEMMA StartKeeps ==
    ASSUME Inv, NEW p \in Process, NEW cmd \in Commands, Start(p, cmd)
    PROVE  Inv'
<1>. DEFINE r == [phase |-> "started", cmd |-> cmd]
<1>1. ProcessOK(r) /\ r.phase = "started"
  BY DEF Start, ProcessOK, Started, Good
<1>2. proc' = [proc EXCEPT ![p] = r] /\ UNCHANGED <<content, at, intended, overlapped>>
  BY DEF Start
<1>. HIDE DEF r
<1>3. DOMAIN proc' = Process /\ \A q \in Process : proc'[q] = IF q = p THEN r ELSE proc[q]
  BY <1>2 DEF Inv, ProcessesOK
<1>4. ProcessesOK'
  BY <1>1, <1>3 DEF Inv, ProcessesOK
<1>5. ASSUME ~overlapped
      PROVE  Undisturbed'
  <2>1. \A q \in Process : Busy(q)' => q # p /\ Busy(q)
    BY <1>1, <1>3 DEF Busy
  <2>2. Sole'
    BY <1>5, <2>1 DEF Inv, Undisturbed, Sole
  <2>3. ASSUME NEW q \in Process
        PROVE  Plan(q)'
    <3>1. CASE q = p
      BY <1>1, <1>3, <3>1 DEF Plan, Busy
    <3>2. CASE q # p
      BY <1>2, <1>3, <1>5, <3>2 DEF Inv, Undisturbed, Plan, Busy
    <3>. QED  BY <3>1, <3>2
  <2>4. UserFile' = intended'
    BY <1>2, <1>5 DEF Inv, Undisturbed, UserFile
  <2>. QED  BY <2>2, <2>3, <2>4 DEF Undisturbed
<1>. QED  BY <1>2, <1>4, <1>5 DEF Inv, FilesOK, HistoryOK

\* One that has read the file keeps it.
LEMMA ReadMapKeeps ==
    ASSUME Inv, NEW p \in Process, ReadMap(p)
    PROVE  Inv'
<1>. DEFINE cmd == proc[p].cmd
            new == Updated(MapOf(UserFile), cmd)
            r == [phase |-> "read", cmd |-> cmd, map |-> new]
<1>1. cmd \in Good
  BY PhaseTells DEF ReadMap, Inv, ProcessesOK
<1>2. IsMap(MapOf(UserFile))
  BY UserFileStored, MapOfIsMap DEF Inv
<1>3. IsMap(new)
  BY <1>1, <1>2, UpdatedIsMap
<1>4. /\ proc' = [proc EXCEPT ![p] = r]
      /\ overlapped' = (overlapped \/ \E q \in Process : Busy(q))
      /\ UNCHANGED <<content, at, intended>>
  BY DEF ReadMap
<1>. HIDE DEF new, cmd
<1>5. ProcessOK(r) /\ r.phase = "read" /\ r.map = new /\ r.cmd = cmd
  BY <1>1, <1>3 DEF ProcessOK, Reading
<1>. HIDE DEF r
<1>6. DOMAIN proc' = Process /\ \A q \in Process : proc'[q] = IF q = p THEN r ELSE proc[q]
  BY <1>4 DEF Inv, ProcessesOK
<1>7. ProcessesOK'
  BY <1>5, <1>6 DEF Inv, ProcessesOK
<1>8. ASSUME ~overlapped'
      PROVE  Undisturbed'
  <2>1. Undisturbed /\ \A q \in Process : ~Busy(q)
    BY <1>4, <1>8 DEF Inv, HistoryOK
  <2>2. \A q \in Process : Busy(q)' => q = p
    BY <1>6, <2>1 DEF Busy
  <2>3. UserFile' = intended'
    BY <1>4, <2>1 DEF Undisturbed, UserFile
  <2>4. ASSUME NEW q \in Process
        PROVE  Plan(q)'
    <3>1. CASE q = p
      <4>1. new = Updated(MapOf(intended), cmd)
        BY <1>2, <2>1 DEF Undisturbed, new
      <4>. QED  BY <1>4, <1>5, <1>6, <3>1, <4>1 DEF Plan
    <3>2. CASE q # p
      BY <1>4, <1>6, <2>1, <3>2 DEF Undisturbed, Plan, Busy
    <3>. QED  BY <3>1, <3>2
  <2>. QED  BY <2>2, <2>3, <2>4 DEF Undisturbed, Sole
<1>9. HistoryOK'
  BY <1>4 DEF Inv, HistoryOK
<1>10. FilesOK'
  BY <1>4 DEF Inv, FilesOK
<1>. QED  BY <1>7, <1>8, <1>9, <1>10 DEF Inv

\* The temporary file is another than the user's.
LEMMA CreateKeeps ==
    ASSUME Inv, NEW p \in Process, Create(p)
    PROVE  Inv'
<1>1. PICK i \in (IF at["tmp"] = None THEN Free ELSE {at["tmp"]}) :
          /\ at' = [at EXCEPT !["tmp"] = i]
          /\ content' = [content EXCEPT ![i] = Empty]
          /\ proc' = [proc EXCEPT ![p] =
                [phase |-> "created", cmd |-> @.cmd, map |-> @.map, inode |-> i]]
  BY DEF Create, Opened
<1>2. i \in Inode /\ i # at["config"]
  BY <1>1 DEF Free, Inv, FilesOK, Name
<1>3. UNCHANGED <<intended, overlapped>>
  BY DEF Create
<1>4. proc[p].phase = "read" /\ Reading(proc[p]) /\ proc[p].cmd \in Good
  BY PhaseTells DEF Create, Inv, ProcessesOK
<1>. DEFINE r == [phase |-> "created", cmd |-> proc[p].cmd, map |-> proc[p].map, inode |-> i]
<1>5. /\ ProcessOK(r)
      /\ r.phase = "created"
      /\ r.cmd = proc[p].cmd
      /\ r.map = proc[p].map
      /\ r.inode = i
  BY <1>2, <1>4 DEF ProcessOK, Holding, Reading
<1>6. proc' = [proc EXCEPT ![p] = r]
  BY <1>1
<1>. HIDE DEF r
<1>7. DOMAIN proc' = Process /\ \A q \in Process : proc'[q] = IF q = p THEN r ELSE proc[q]
  BY <1>6 DEF Inv, ProcessesOK
<1>8. ProcessesOK'
  BY <1>5, <1>7 DEF Inv, ProcessesOK
<1>9. at' \in [Name -> Inode \cup {None}] /\ at'["tmp"] = i /\ at'["config"] = at["config"]
  BY <1>1, <1>2 DEF Inv, FilesOK, Name
<1>10. DOMAIN content' = Inode /\ \A j \in Inode : content'[j] = IF j = i THEN Empty ELSE content[j]
  BY <1>1 DEF Inv, FilesOK
<1>11. FilesOK'
  BY <1>2, <1>9, <1>10 DEF Inv, FilesOK, Stored
<1>12. HistoryOK'
  BY <1>3 DEF Inv, HistoryOK
<1>13. ASSUME ~overlapped
       PROVE  Undisturbed'
  <2>1. Undisturbed /\ Busy(p)
    BY <1>4, <1>13 DEF Inv, Busy
  <2>2. \A q \in Process : q # p => ~Busy(q) /\ ~Busy(q)'
    BY <1>7, <2>1 DEF Undisturbed, Sole, Busy
  <2>3. UserFile' = UserFile
    BY <1>2, <1>9, <1>10 DEF UserFile, Inv, FilesOK, Name
  <2>4. UserFile' = intended'
    BY <1>3, <2>1, <2>3 DEF Undisturbed
  <2>5. ASSUME NEW q \in Process
        PROVE  Plan(q)'
    <3>1. CASE q = p
      BY <1>2, <1>3, <1>5, <1>7, <1>9, <1>10, <2>1, <3>1 DEF Undisturbed, Plan
    <3>2. CASE q # p
      BY <2>2, <3>2 DEF Plan, Busy
    <3>. QED  BY <3>1, <3>2
  <2>. QED  BY <2>2, <2>4, <2>5 DEF Undisturbed, Sole
<1>. QED  BY <1>3, <1>8, <1>11, <1>12, <1>13 DEF Inv

\* One that has written its file keeps it.
LEMMA WriteKeeps ==
    ASSUME Inv, NEW p \in Process, Write(p)
    PROVE  Inv'
<1>. DEFINE i == proc[p].inode
            map == proc[p].map
<1>1. proc[p].phase = "created" /\ Holding(proc[p]) /\ proc[p].cmd \in Good
  BY PhaseTells DEF Write, Inv, ProcessesOK
<1>2. i \in Inode /\ IsMap(map)
  BY <1>1 DEF Holding
<1>3. PICK new \in Overlay(content[i], map) : content' = [content EXCEPT ![i] = new]
  BY DEF Write
<1>4. Stored(new)
  BY <1>2, <1>3, JsonParses DEF Overlay, Stored
<1>5. UNCHANGED <<at, intended, overlapped>> /\ proc' = [proc EXCEPT ![p].phase = "written"]
  BY DEF Write
<1>. DEFINE r == [proc[p] EXCEPT !.phase = "written"]
<1>6. /\ ProcessOK(r)
      /\ r.phase = "written"
      /\ r.cmd = proc[p].cmd
      /\ r.map = map
      /\ r.inode = i
  BY <1>1 DEF ProcessOK, Holding
<1>7. proc' = [proc EXCEPT ![p] = r]
  BY <1>5
<1>. HIDE DEF r
<1>8. DOMAIN proc' = Process /\ \A q \in Process : proc'[q] = IF q = p THEN r ELSE proc[q]
  BY <1>7 DEF Inv, ProcessesOK
<1>9. ProcessesOK'
  BY <1>6, <1>8 DEF Inv, ProcessesOK
<1>10. DOMAIN content' = Inode /\ \A j \in Inode : content'[j] = IF j = i THEN new ELSE content[j]
  BY <1>3 DEF Inv, FilesOK
<1>11. FilesOK'
  BY <1>4, <1>5, <1>10 DEF Inv, FilesOK
<1>12. HistoryOK'
  BY <1>5 DEF Inv, HistoryOK
<1>13. ASSUME ~overlapped
       PROVE  Undisturbed'
  <2>1. Undisturbed /\ Busy(p)
    BY <1>1, <1>13 DEF Inv, Busy
  <2>2. \A q \in Process : q # p => ~Busy(q) /\ ~Busy(q)'
    BY <1>8, <2>1 DEF Undisturbed, Sole, Busy
  <2>3. i = at["tmp"] /\ content[i] = Empty
    BY <1>1, <2>1 DEF Undisturbed, Plan
  <2>4. new = Json(map)
    BY <1>3, <2>3 DEF Overlay
  <2>5. at["config"] # i
    BY <1>2, <2>3, ConfigAssumption DEF Inv, FilesOK
  <2>6. UserFile' = intended'
    BY <1>5, <1>10, <2>1, <2>5 DEF UserFile, Undisturbed, Inv, FilesOK, Name
  <2>7. ASSUME NEW q \in Process
        PROVE  Plan(q)'
    <3>1. CASE q = p
      BY <1>2, <1>5, <1>6, <1>8, <1>10, <2>1, <2>3, <2>4, <3>1 DEF Undisturbed, Plan
    <3>2. CASE q # p
      BY <2>2, <3>2 DEF Plan, Busy
    <3>. QED  BY <3>1, <3>2
  <2>. QED  BY <2>2, <2>6, <2>7 DEF Undisturbed, Sole
<1>. QED  BY <1>5, <1>9, <1>11, <1>12, <1>13 DEF Inv

\* What a process holds while it writes, and that it is not the user's file.
LEMMA HeldIsApart ==
    ASSUME Inv, NEW p \in Process, proc[p].phase \in {"created", "written"}
    PROVE  /\ proc[p].inode \in Inode
           /\ ~overlapped => proc[p].inode = at["tmp"] /\ proc[p].inode # at["config"]
<1>1. proc[p].inode \in Inode
  BY PhaseTells DEF Inv, ProcessesOK, Holding
<1>2. ~overlapped => proc[p].inode = at["tmp"]
  BY DEF Inv, Undisturbed, Plan
<1>. QED  BY <1>1, <1>2, ConfigAssumption DEF Inv, FilesOK

\* Torn or kept, what a process held, and the name *.tmp kept or gone.
LEMMA AbandonedKeeps ==
    ASSUME Inv, NEW p \in Process, Ended(p), UNCHANGED <<intended, overlapped>>,
           proc[p].phase \in {"created", "written"},
           DOMAIN content' = Inode,
           \A j \in Inode : content'[j] = content[j] \/ (j = proc[p].inode /\ content'[j] = Torn),
           at' \in {at, [at EXCEPT !["tmp"] = None]}
    PROVE  Inv'
<1>. DEFINE i == proc[p].inode
<1>1. i \in Inode /\ (~overlapped => i # at["config"])
  BY HeldIsApart
<1>2. /\ DOMAIN content' = Inode
      /\ \A j \in Inode : content'[j] = content[j] \/ (j = i /\ content'[j] = Torn)
  OBVIOUS
<1>3. /\ at' \in [Name -> Inode \cup {None}]
      /\ at'["config"] = at["config"]
      /\ at'["tmp"] \in {at["tmp"], None}
  BY DEF Inv, FilesOK, Name
<1>4. FilesOK'
  BY <1>2, <1>3 DEF Inv, FilesOK, Stored
<1>5. ~overlapped => UserFile' = UserFile
  BY <1>1, <1>2, <1>3 DEF UserFile, Inv, FilesOK, Name
<1>6. Busy(p)
  BY DEF Busy
<1>. QED  BY <1>4, <1>5, <1>6, EndingKeeps

\* One whose write fails keeps it, for the file is not the user's.
LEMMA WriteFailsKeeps ==
    ASSUME Inv, NEW p \in Process, WriteFails(p)
    PROVE  Inv'
<1>1. /\ DOMAIN content' = Inode
      /\ \A j \in Inode :
            content'[j] = content[j] \/ (j = proc[p].inode /\ content'[j] = Torn)
  BY HeldIsApart DEF WriteFails, Inv, FilesOK
<1>. QED  BY <1>1, AbandonedKeeps DEF WriteFails

\* One that is killed keeps it.
LEMMA KillKeeps ==
    ASSUME Inv, NEW p \in Process, Kill(p)
    PROVE  Inv'
<1>1. CASE proc[p].phase \in {"created", "written"}
  <2>1. /\ DOMAIN content' = Inode
        /\ \A j \in Inode :
              content'[j] = content[j] \/ (j = proc[p].inode /\ content'[j] = Torn)
    BY HeldIsApart, <1>1 DEF Kill, Inv, FilesOK
  <2>. QED  BY <1>1, <2>1, AbandonedKeeps DEF Kill
<1>2. CASE proc[p].phase \notin {"created", "written"}
  <2>1. Ended(p) /\ UNCHANGED <<content, at, intended, overlapped>>
    BY <1>2 DEF Kill
  <2>2. FilesOK' /\ UserFile' = UserFile
    BY <2>1 DEF Inv, FilesOK, UserFile
  <2>. QED  BY <2>1, <2>2, EndingKeeps
<1>. QED  BY <1>1, <1>2

\* What a rename puts in place is what the update was to leave.
LEMMA RenamePuts ==
    ASSUME Inv, NEW p \in Process, Rename(p), ~overlapped
    PROVE  /\ UserFile' = Json(Updated(MapOf(UserFile), proc[p].cmd))
           /\ UserFile' = intended'
<1>1. /\ at["tmp"] # None
      /\ at'["config"] = at["tmp"]
      /\ UNCHANGED content
      /\ intended' = Json(Updated(MapOf(intended), proc[p].cmd))
  BY DEF Rename
<1>2. /\ UserFile = intended
      /\ proc[p].map = Updated(MapOf(intended), proc[p].cmd)
      /\ content[at["tmp"]] = Json(proc[p].map)
  BY DEF Rename, Inv, Undisturbed, Plan, Busy
<1>. QED  BY <1>1, <1>2 DEF UserFile

\* One that puts its file in place keeps it.
LEMMA RenameKeeps ==
    ASSUME Inv, NEW p \in Process, Rename(p)
    PROVE  Inv'
<1>1. /\ Ended(p)
      /\ proc[p].phase = "written"
      /\ at["tmp"] # None
      /\ at' = [config |-> at["tmp"], tmp |-> None]
      /\ intended' = Json(Updated(MapOf(intended), proc[p].cmd))
      /\ UNCHANGED <<content, overlapped>>
  BY DEF Rename
<1>2. \A q \in Process : proc'[q] = IF q = p THEN NoProcess ELSE proc[q]
  BY <1>1 DEF Inv, ProcessesOK, Ended
<1>3. ProcessesOK'
  BY <1>1, <1>2 DEF Inv, ProcessesOK, ProcessOK, Ended
<1>4. FilesOK'
  <2>1. at' \in [Name -> Inode \cup {None}] /\ at'["tmp"] = None
    BY <1>1 DEF Inv, FilesOK, Name
  <2>. QED  BY <1>1, <2>1 DEF Inv, FilesOK
<1>5. HistoryOK'
  <2>1. IsMap(Updated(MapOf(intended), proc[p].cmd))
    BY <1>1, PhaseTells, MapOfIsMap, UpdatedIsMap DEF Inv, ProcessesOK, HistoryOK
  <2>2. Stored(intended')
    BY <1>1, <2>1, JsonParses DEF Stored
  <2>. QED  BY <1>1, <2>2 DEF Inv, HistoryOK
<1>6. ASSUME ~overlapped
      PROVE  Undisturbed'
  <2>1. Undisturbed /\ Busy(p)
    BY <1>1, <1>6 DEF Inv, Busy
  <2>2. \A q \in Process : ~Busy(q)'
    BY <1>2, <2>1 DEF Undisturbed, Sole, Busy, NoProcess
  <2>3. UserFile' = intended'
    BY <1>6, RenamePuts
  <2>4. \A q \in Process : Plan(q)'
    BY <2>2 DEF Plan, Busy
  <2>. QED  BY <2>2, <2>3, <2>4 DEF Undisturbed, Sole
<1>. QED  BY <1>1, <1>3, <1>4, <1>5, <1>6 DEF Inv

\* What the user writes by hand is settings, or does not parse.
LEMMA WrittenStored ==
    ASSUME NEW file \in Written
    PROVE  Stored(file)
<1>1. CASE file = Torn
  BY <1>1 DEF Stored
<1>2. CASE file # Torn
  <2>1. file = Json(file.map) /\ DOMAIN file.map \subseteq Spelling
    BY <1>2, ConfigAssumption
  <2>2. Parses(file)
    BY <2>1, JsonParses
  <2>3. \A k \in DOMAIN file.map : file.map[k] \in Values
    BY <2>2 DEF Values
  <2>. QED  BY <2>1, <2>3 DEF Stored, IsMap
<1>. QED  BY <1>1, <1>2

\* An edit of the user keeps it.
LEMMA EditKeeps ==
    ASSUME Inv, NEW file \in Written, Edit(file)
    PROVE  Inv'
<1>1. PICK i \in (IF at["config"] = None THEN Free ELSE {at["config"]}) :
          /\ at' = [at EXCEPT !["config"] = i]
          /\ content' = [content EXCEPT ![i] = file]
  BY DEF Edit
<1>2. i \in Inode /\ i # at["tmp"]
  BY <1>1 DEF Free, Inv, FilesOK, Name
<1>3. /\ intended' = file
      /\ overlapped' = (overlapped \/ \E q \in Process : Busy(q))
      /\ UNCHANGED proc
  BY DEF Edit
<1>4. Stored(file)
  BY WrittenStored
<1>5. at' \in [Name -> Inode \cup {None}] /\ at'["config"] = i /\ at'["tmp"] = at["tmp"]
  BY <1>1, <1>2 DEF Inv, FilesOK, Name
<1>6. DOMAIN content' = Inode /\ \A j \in Inode : content'[j] = IF j = i THEN file ELSE content[j]
  BY <1>1 DEF Inv, FilesOK
<1>7. FilesOK'
  BY <1>2, <1>4, <1>5, <1>6 DEF Inv, FilesOK
<1>8. HistoryOK'
  BY <1>3, <1>4 DEF Inv, HistoryOK
<1>9. ProcessesOK'
  BY <1>3 DEF Inv, ProcessesOK
<1>10. ASSUME ~overlapped'
       PROVE  Undisturbed'
  <2>1. \A q \in Process : ~Busy(q)'
    BY <1>3, <1>10 DEF Inv, HistoryOK, Busy
  <2>2. UserFile' = intended'
    BY <1>2, <1>3, <1>5, <1>6, ConfigAssumption DEF UserFile
  <2>3. \A q \in Process : Plan(q)'
    BY <2>1 DEF Plan, Busy
  <2>. QED  BY <2>1, <2>2, <2>3 DEF Undisturbed, Sole
<1>. QED  BY <1>7, <1>8, <1>9, <1>10 DEF Inv

\* Every step keeps the invariant.
LEMMA NextInv == Inv /\ [Next]_vars => Inv'
<1>. SUFFICES ASSUME Inv, [Next]_vars
              PROVE  Inv'
  OBVIOUS
<1>1. ASSUME NEW p \in Process, Ended(p), UNCHANGED <<content, at, intended, overlapped>>
      PROVE  Inv'
  <2>1. FilesOK' /\ UserFile' = UserFile
    BY <1>1 DEF Inv, FilesOK, UserFile
  <2>. QED  BY <1>1, <2>1, EndingKeeps
<1>2. ASSUME NEW p \in Process, NEW cmd \in Commands, Start(p, cmd)
      PROVE  Inv'
  BY <1>2, StartKeeps
<1>3. ASSUME NEW p \in Process, ReadMap(p)
      PROVE  Inv'
  BY <1>3, ReadMapKeeps
<1>4. ASSUME NEW p \in Process, Refused(p)
      PROVE  Inv'
  BY <1>1, <1>4 DEF Refused
<1>5. ASSUME NEW p \in Process, Create(p)
      PROVE  Inv'
  BY <1>5, CreateKeeps
<1>6. ASSUME NEW p \in Process, Write(p)
      PROVE  Inv'
  BY <1>6, WriteKeeps
<1>7. ASSUME NEW p \in Process, WriteFails(p)
      PROVE  Inv'
  BY <1>7, WriteFailsKeeps
<1>8. ASSUME NEW p \in Process, Rename(p)
      PROVE  Inv'
  BY <1>8, RenameKeeps
<1>9. ASSUME NEW p \in Process, StepFails(p)
      PROVE  Inv'
  BY <1>1, <1>9 DEF StepFails
<1>10. ASSUME NEW p \in Process, Kill(p)
       PROVE  Inv'
  BY <1>10, KillKeeps
<1>11. ASSUME NEW file \in Written, Edit(file)
       PROVE  Inv'
  BY <1>11, EditKeeps
<1>12. CASE UNCHANGED vars
  BY <1>12 DEF vars, Inv, FilesOK, HistoryOK, ProcessesOK, ProcessOK, Started, Reading,
               Holding, Undisturbed, UserFile, Sole, Busy, Plan
<1>. QED  BY <1>2, <1>3, <1>4, <1>5, <1>6, <1>7, <1>8, <1>9, <1>10, <1>11, <1>12 DEF Next

-----------------------------------------------------------------------------
(* The theorems.                                                           *)

\* The invariant holds throughout.
LEMMA AlwaysInv == Spec => []Inv
  BY InitInv, NextInv, PTL DEF Spec

\* The user's file and its temporary one are different files, and each is
\* settings or nothing that parses, whatever processes are at them.
THEOREM ConfigTypeCorrect == Spec => []TypeOK
<1>1. Inv => TypeOK
  <2>. SUFFICES ASSUME Inv
                PROVE  TypeOK
    OBVIOUS
  <2>1. \A i \in Inode : IsFile(content[i])
    BY DEF Inv, FilesOK, Stored, IsFile, IsMap
  <2>2. intended = NoFile \/ IsFile(intended)
    BY DEF Inv, HistoryOK, Stored, IsFile, IsMap
  <2>3. ASSUME NEW p \in Process
        PROVE  \/ proc[p] = NoProcess
               \/ proc[p].phase = "started" /\ proc[p].cmd \in Commands
               \/ proc[p].phase = "read" /\ IsFile(Json(proc[p].map))
               \/ proc[p].phase \in {"created", "written"} /\ proc[p].inode \in Inode
    <3>1. ProcessOK(proc[p])
      BY DEF Inv, ProcessesOK
    <3>2. Reading(proc[p]) => IsFile(Json(proc[p].map))
      BY JsonParses DEF Reading, IsFile, IsMap
    <3>. QED  BY <3>1, <3>2, PhaseTells DEF Good, Holding
  <2>. QED  BY <2>1, <2>2, <2>3 DEF TypeOK, Inv, FilesOK, HistoryOK
<1>. QED  BY <1>1, AlwaysInv, PTL

\* While updates do not overlap, the file is what those carried out so far are
\* to leave, wherever others failed or were killed (writeConfigMap).
THEOREM UpdatesAlwaysTakeEffect == Spec => []UpdatesTakeEffect
<1>1. Inv => UpdatesTakeEffect
  BY DEF Inv, Undisturbed, UpdatesTakeEffect
<1>. QED  BY <1>1, AlwaysInv, PTL

\* Only a process that renames its file puts it in place.
LEMMA OnlyRenamePuts ==
    ASSUME Inv, Next, NEW p \in Process, PutInPlace(p)
    PROVE  Rename(p) /\ proc[p].cmd \in Good
<1>1. at["config"] # at["tmp"]
  BY DEF PutInPlace, Inv, FilesOK
<1>2. ASSUME UNCHANGED at
      PROVE  FALSE
  BY <1>1, <1>2 DEF PutInPlace
<1>3. ASSUME NEW q \in Process, Create(q)
      PROVE  FALSE
  BY <1>1, <1>3 DEF PutInPlace, Create, Opened, Inv, FilesOK, Name
<1>4. ASSUME NEW q \in Process, WriteFails(q)
      PROVE  FALSE
  BY <1>1, <1>4 DEF PutInPlace, WriteFails, Inv, FilesOK, Name
<1>5. ASSUME NEW file \in Written, Edit(file)
      PROVE  FALSE
  BY <1>5 DEF PutInPlace, Edit, NoProcess
<1>6. ASSUME NEW q \in Process, Rename(q), q # p
      PROVE  FALSE
  BY <1>6 DEF PutInPlace, Rename, Ended, NoProcess, Inv, ProcessesOK
<1>7. proc[p].cmd \in Good
  BY PhaseTells DEF PutInPlace, Inv, ProcessesOK
<1>. QED  BY <1>2, <1>3, <1>4, <1>5, <1>6, <1>7
          DEF Next, Start, ReadMap, Refused, Write, StepFails, Kill

\* An update puts nothing in place that later commands refuse, but a
\* certificate authority for plain http, and what stood in the file under
\* another spelling (parseValue against Validate).
THEOREM SettingsAlwaysStayUsable == Spec => SettingsStayUsable
<1>. DEFINE Step ==
        \A p \in Process :
          PutInPlace(p) /\ Usable(UserFile) /\ ~overlapped =>
             \/ Usable(UserFile')
             \/ AtOdds(UserFile')
             \/ proc[p].cmd.op = "unset" /\ Sets(UserFile'.map, Variant[proc[p].cmd.key])
<1>1. Inv /\ Next => Step
  <2>. SUFFICES ASSUME Inv, Next, NEW p \in Process, PutInPlace(p),
                       Usable(UserFile), ~overlapped,
                       ~(proc[p].cmd.op = "unset" /\ Sets(UserFile'.map, Variant[proc[p].cmd.key]))
                PROVE  Usable(UserFile') \/ AtOdds(UserFile')
    OBVIOUS
  <2>1. Rename(p) /\ proc[p].cmd \in Good
    BY OnlyRenamePuts
  <2>. DEFINE map == MapOf(UserFile)
              new == Updated(map, proc[p].cmd)
              set == Taken(new)
  <2>2. UserFile' = Json(new)
    BY <2>1, RenamePuts
  <2>3. Valid(Taken(map))
    <3>1. Readable(UserFile)
      BY DEF Usable, Accepts
    <3>2. Valid(Layer(UserFile))
      BY <3>1, UsableIsValid
    <3>. QED  BY <3>2 DEF Layer
  <2>. HIDE DEF map
  <2>4. UserFile'.map = new
    BY <2>2, JsonParses
  <2>5. Valid(set) \/ (Setting(set, "ca_cert") # "" /\ Setting(set, "endpoint") \in {"http", "http/"})
    BY <2>1, <2>3, <2>4, UpdateKeepsUsable
  <2>. HIDE DEF new
  <2>6. Readable(Json(new)) /\ Layer(Json(new)) = set
    BY JsonParses
  <2>. HIDE DEF set
  <2>7. Usable(Json(new)) <=> Valid(set)
    BY <2>6, UsableIsValid
  <2>. DEFINE cfg == Load(Json(new), NoFile, <<>>)
  <2>8. cfg["ca_cert"] = Setting(set, "ca_cert") /\ cfg["endpoint"] = Setting(set, "endpoint")
    BY <2>6, LoadedAlone DEF Key
  <2>. HIDE DEF cfg
  <2>9. Setting(set, "ca_cert") # "" /\ Setting(set, "endpoint") \in {"http", "http/"}
           => AtOdds(Json(new))
    BY <2>8 DEF AtOdds, cfg
  <2>. QED  BY <2>2, <2>5, <2>7, <2>9
<1>2. UNCHANGED vars => Step
  BY DEF vars, NoProcess, PutInPlace
<1>. QED  BY <1>1, <1>2, AlwaysInv, PTL DEF Spec, SettingsStayUsable

\* What config set has put in place is what a load takes from the file, however
\* else the setting is spelled in it (configSet against mergeFile).
THEOREM SetIsAlwaysLoaded == Spec => SetIsWhatIsLoaded
<1>. DEFINE Step ==
        \A p \in Process :
          PutInPlace(p) /\ ~overlapped /\ proc[p].cmd.op = "set" =>
             LET cmd == proc[p].cmd IN
             Load(UserFile', NoFile, <<>>)[cmd.key] = parseValue(cmd.key, cmd.value)
<1>1. Inv /\ Next => Step
  <2>. SUFFICES ASSUME Inv, Next, NEW p \in Process, PutInPlace(p),
                       ~overlapped, proc[p].cmd.op = "set"
                PROVE  Load(UserFile', NoFile, <<>>)[proc[p].cmd.key]
                          = parseValue(proc[p].cmd.key, proc[p].cmd.value)
    OBVIOUS
  <2>1. Rename(p) /\ proc[p].cmd \in Good
    BY OnlyRenamePuts
  <2>2. PICK cmd \in Good : cmd = proc[p].cmd
    BY <2>1
  <2>. DEFINE new == Updated(MapOf(UserFile), cmd)
  <2>3. UserFile' = Json(new)
    BY <2>1, <2>2, RenamePuts
  <2>4. Setting(Taken(new), cmd.key) = parseValue(cmd.key, cmd.value)
    BY <2>2, UpdatedGives
  <2>. HIDE DEF new
  <2>5. cmd.key \in Key /\ Layer(Json(new)) = Taken(new)
    BY GoodCommands, JsonParses
  <2>6. Load(Json(new), NoFile, <<>>)[cmd.key] = Setting(Taken(new), cmd.key)
    BY <2>5, LoadedAlone
  <2>. QED  BY <2>2, <2>3, <2>4, <2>6
<1>2. UNCHANGED vars => Step
  BY DEF vars, NoProcess, PutInPlace
<1>. QED  BY <1>1, <1>2, AlwaysInv, PTL DEF Spec, SetIsWhatIsLoaded
=============================================================================
