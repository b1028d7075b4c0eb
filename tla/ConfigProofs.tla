------------------------------ MODULE ConfigProofs -----------------------------
(***************************************************************************)
(* What Config.tla and Ping.tla promise of the layers of a configuration,  *)
(* and what PingArgs.tla reads from a command line, for all files,         *)
(* environments, texts and command lines; and the properties of            *)
(* MCPingArgs.tla, for every line that can be written.                     *)
(***************************************************************************)
EXTENDS MCPingArgs, DataProofs

(* A file gives a setting of a mode, and the value it gives.               *)
Gives(file, m, s) ==
  file.state = "read" /\ m \in DOMAIN file.sections /\ s \in DOMAIN file.sections[m]

Given(file, m, s) ==
  IF s \in Numbers THEN file.sections[m][s] ELSE Trim(file.sections[m][s])

EnvValue(env, m, s) ==
  IF m = "api" /\ s = "endpoint" THEN env["OPENAI_BASE_URL"]
  ELSE IF m = "offline" /\ s = "python" THEN env["INFERLENS_PYTHON"]
  ELSE ""

IsModes(modes) == /\ modes = [m \in Sections |-> modes[m]]
                  /\ \A m \in Sections : modes[m] = [s \in Settings |-> modes[m][s]]

(* The built-in defaults are a table of all sections and settings.          *)
LEMMA BuiltinModes == IsModes(BuiltinPingDefaults)
<1> DEFINE unset  == [s \in Settings |-> IF s \in Numbers THEN 0 ELSE ""]
           online == [unset EXCEPT !["max-tokens"] = DefaultMaxTokens,
                                   !["timeout"]    = DefaultTimeout]
           serve   == [online EXCEPT !["runtime"] = "vllm", !["endpoint"] = DefaultEndpoint]
           offline == [online EXCEPT !["timeout"] = 0, !["python"] = "python3"]
<1>1. BuiltinPingDefaults
        = [serve |-> serve, api |-> online, kserve |-> online, offline |-> offline]
  BY DEF BuiltinPingDefaults
<1>2. online = [s \in Settings |-> online[s]]
  OBVIOUS
<1>3. serve = [s \in Settings |-> serve[s]]
  OBVIOUS
<1>4. offline = [s \in Settings |-> offline[s]]
  OBVIOUS
<1> HIDE DEF online, serve, offline
<1> QED BY <1>1, <1>2, <1>3, <1>4 DEF IsModes, Sections

(* One file replaces exactly what it gives.                                *)
LEMMA MergedValue ==
  ASSUME NEW modes, IsModes(modes), NEW file
  PROVE  /\ IsModes(MergedSections(modes, file))
         /\ \A m \in Sections, s \in Settings :
              MergedSections(modes, file)[m][s]
                = IF Gives(file, m, s) THEN Given(file, m, s) ELSE modes[m][s]
<1>1. ASSUME NEW m \in Sections
      PROVE  /\ MergedSections(modes, file)[m]
                  = [s \in Settings |-> MergedSections(modes, file)[m][s]]
             /\ \A s \in Settings :
                  MergedSections(modes, file)[m][s]
                    = IF Gives(file, m, s) THEN Given(file, m, s) ELSE modes[m][s]
  <2>1. CASE file.state = "read" /\ m \in DOMAIN file.sections
    <3>1. MergedSections(modes, file)[m] = MergeModeDefaults(modes[m], file.sections[m])
      BY <2>1 DEF MergedSections
    <3> QED BY <2>1, <3>1 DEF MergeModeDefaults, Gives, Given
  <2>2. CASE ~(file.state = "read" /\ m \in DOMAIN file.sections)
    <3>1. MergedSections(modes, file)[m] = modes[m]
      BY <2>2 DEF MergedSections
    <3> QED BY <2>2, <3>1 DEF Gives, IsModes
  <2> QED BY <2>1, <2>2
<1>2. MergedSections(modes, file) = [m \in Sections |-> MergedSections(modes, file)[m]]
  BY DEF MergedSections
<1> QED BY <1>1, <1>2 DEF IsModes

(* The environment replaces two settings, unless it is empty.               *)
LEMMA EnvApplied ==
  ASSUME NEW modes, IsModes(modes), NEW env, NEW m \in Sections, NEW s \in Settings
  PROVE  ApplyPingEnv(modes, env)[m][s]
           = IF EnvValue(env, m, s) # "" THEN EnvValue(env, m, s) ELSE modes[m][s]
BY DEF ApplyPingEnv, EnvValue, IsModes, Sections, Settings

(* What the highest layer below the flags gives for a setting               *)
Highest(files, path, env, m, s) ==
  IF EnvValue(env, m, s) # "" THEN EnvValue(env, m, s)
  ELSE IF path # "" /\ Gives(FileAt(files, path), m, s)
       THEN Given(FileAt(files, path), m, s)
  ELSE IF Gives(FileAt(files, DefaultConfigPath), m, s)
       THEN Given(FileAt(files, DefaultConfigPath), m, s)
  ELSE BuiltinPingDefaults[m][s]

(* README.md:163: whatever the files and the environment are, the default  *)
(* of a flag is what the highest layer below the flags gives for it.       *)
THEOREM HighestLayerWins ==
  ASSUME NEW files, NEW path, NEW env, NEW m \in Sections, NEW s \in Settings
  PROVE  LoadPingDefaults(files, path, env).modes[m][s] = Highest(files, path, env, m, s)
<1> DEFINE one == MergedSections(BuiltinPingDefaults, FileAt(files, DefaultConfigPath))
           two == MergedSections(one, FileAt(files, path))
<1>1. IsModes(one) /\ one[m][s] = IF Gives(FileAt(files, DefaultConfigPath), m, s)
                                  THEN Given(FileAt(files, DefaultConfigPath), m, s)
                                  ELSE BuiltinPingDefaults[m][s]
  BY BuiltinModes, MergedValue
<1>2. IsModes(two) /\ two[m][s] = IF Gives(FileAt(files, path), m, s)
                                  THEN Given(FileAt(files, path), m, s) ELSE one[m][s]
  <2> HIDE DEF one
  <2> QED BY <1>1, MergedValue
<1>3. LoadPingDefaults(files, path, env).modes
        = ApplyPingEnv(IF path = "" THEN one ELSE two, env)
  BY DEF LoadPingDefaults, MergePingConfigFile
<1> HIDE DEF one, two
<1>4. CASE path = ""
  <2>1. LoadPingDefaults(files, path, env).modes = ApplyPingEnv(one, env)
    BY <1>3, <1>4
  <2>2. ApplyPingEnv(one, env)[m][s]
          = IF EnvValue(env, m, s) # "" THEN EnvValue(env, m, s) ELSE one[m][s]
    BY <1>1, EnvApplied
  <2> QED BY <1>1, <1>4, <2>1, <2>2 DEF Highest
<1>5. CASE path # ""
  <2>1. LoadPingDefaults(files, path, env).modes = ApplyPingEnv(two, env)
    BY <1>3, <1>5
  <2>2. ApplyPingEnv(two, env)[m][s]
          = IF EnvValue(env, m, s) # "" THEN EnvValue(env, m, s) ELSE two[m][s]
    BY <1>2, EnvApplied
  <2> QED BY <1>1, <1>2, <1>5, <2>1, <2>2 DEF Highest
<1> QED BY <1>4, <1>5

(* defaults.go:72-84 and :101: a probe starts only if the file named on    *)
(* the command line was read, and the default file read or absent. No      *)
(* broken file is passed over.                                             *)
THEOREM NoFileIgnored ==
  ASSUME NEW args, NEW files, NEW env, Run(args, files, env).started
  PROVE  LET read == Read(args)
             path == IF read.config = <<>> THEN "" ELSE read.config[1].name
         IN  /\ path # "" => FileAt(files, path).state = "read"
             /\ FileAt(files, DefaultConfigPath).state \in {"read", "absent"}
<1> DEFINE path == IF Read(args).config = <<>> THEN "" ELSE Read(args).config[1].name
<1>1. LoadPingDefaults(files, path, env).ok
  BY DEF Run, NoProbe
<1> HIDE DEF path
<1>2. /\ path # "" => FileAt(files, path).state = "read"
      /\ FileAt(files, DefaultConfigPath).state \in {"read", "absent"}
  BY <1>1 DEF LoadPingDefaults, MergePingConfigFile
<1> QED BY <1>2 DEF path

(* What every constructor of config.go requires of what it returns.         *)
Valid(cfg) == cfg.model # "" /\ cfg.prompt # "" /\ NonNegative(cfg)

(* The four constructors: what they let pass is valid.                      *)
LEMMA ServeValid ==
  ASSUME NEW opts, NewServe(opts).ok
  PROVE  Valid(NewServe(opts).cfg) /\ NewServe(opts).cfg.endpoint \in Web
<1> DEFINE online   == NewOnlineConfig(opts)
           runtime  == Trim(opts["runtime"])
           metrics  == Trim(opts["metrics-endpoint"])
           endpoint == IF online.endpoint = "" THEN DefaultEndpoint ELSE online.endpoint
           cfg == [online EXCEPT
                     !.runtime  = IF runtime = "" THEN "vllm" ELSE runtime,
                     !.endpoint = endpoint,
                     !.metrics  = IF metrics # "" THEN [base |-> metrics, path |-> ""]
                                  ELSE [base |-> endpoint, path |-> "/metrics"]]
<1>1. NewServe(opts) = [ok  |-> /\ cfg.runtime \in Observers
                                /\ ValidateOnlineConfig(cfg)
                                /\ IsHTTPURL(cfg.metrics.base),
                        cfg |-> cfg]
  BY Zenon DEF NewServe
<1> HIDE DEF cfg
<1>2. ValidateOnlineConfig(cfg) /\ NewServe(opts).cfg = cfg
  BY <1>1
<1> QED BY <1>2 DEF ValidateOnlineConfig, IsHTTPURL, Valid

(* The one of api mode needs an endpoint.                                    *)
LEMMA APIValid ==
  ASSUME NEW opts, NewAPI(opts).ok
  PROVE  Valid(NewAPI(opts).cfg) /\ NewAPI(opts).cfg.endpoint \in Web
<1> DEFINE cfg == NewOnlineConfig(opts)
           ok  == cfg.endpoint # "" /\ ValidateOnlineConfig(cfg)
<1>1. NewAPI(opts) = [ok |-> ok, cfg |-> cfg]
  BY Zenon DEF NewAPI
<1> HIDE DEF cfg, ok
<1>2. NewAPI(opts).ok = ok /\ NewAPI(opts).cfg = cfg
  BY <1>1
<1>3. ok
  BY <1>2, Zenon
<1>4. ValidateOnlineConfig(cfg)
  BY <1>3, Zenon DEF ok
<1> QED BY <1>2, <1>4 DEF ValidateOnlineConfig, IsHTTPURL, Valid

(* The one of kserve mode needs an endpoint and a name.                      *)
LEMMA KServeValid ==
  ASSUME NEW opts, NewKServe(opts).ok
  PROVE  Valid(NewKServe(opts).cfg) /\ NewKServe(opts).cfg.endpoint \in Web
<1> DEFINE cfg == NewOnlineConfig(opts)
           ok  == /\ Trim(opts["name"]) # ""
                  /\ cfg.endpoint # "" /\ ValidateOnlineConfig(cfg)
<1>1. NewKServe(opts) = [ok |-> ok, cfg |-> cfg]
  BY Zenon DEF NewKServe
<1> HIDE DEF cfg, ok
<1>2. NewKServe(opts).ok = ok /\ NewKServe(opts).cfg = cfg
  BY <1>1
<1>3. ok
  BY <1>2, Zenon
<1>4. ValidateOnlineConfig(cfg)
  BY <1>3, Zenon DEF ok
<1> QED BY <1>2, <1>4 DEF ValidateOnlineConfig, IsHTTPURL, Valid

(* The one of offline mode needs neither.                                    *)
LEMMA OfflineValid ==
  ASSUME NEW opts, NewOffline(opts).ok
  PROVE  Valid(NewOffline(opts).cfg)
<1> DEFINE cfg == [NewOnlineConfig(opts) EXCEPT !.endpoint = "", !.python = opts["python"]]
           ok  == cfg.model # "" /\ cfg.prompt # "" /\ NonNegative(cfg)
<1>1. NewOffline(opts) = [ok |-> ok, cfg |-> cfg]
  BY Zenon DEF NewOffline
<1> HIDE DEF cfg, ok
<1>2. NewOffline(opts).ok = ok /\ NewOffline(opts).cfg = cfg
  BY <1>1
<1>3. ok
  BY <1>2, Zenon
<1>4. cfg.model # "" /\ cfg.prompt # "" /\ NonNegative(cfg)
  BY <1>3, Zenon DEF ok
<1> QED BY <1>2, <1>4 DEF Valid

-------------------------------------------------------------------------------
(* A walk over the arguments: what a reading finds from each position on.  *)
ModeFrom(args, f) ==
  \A i \in 1..Len(args) + 2 :
    f[i] = IF i > Len(args) THEN 0
           ELSE IF IsConfig(args[i]) /\ args[i].joined = <<>> THEN f[i + 2]
           ELSE IF args[i].dashes > 0 THEN f[i + 1]
           ELSE IF args[i].name \in Modes THEN i ELSE 0

(* The mode is what the walk from the first argument finds: no argument or *)
(* one that is a mode.                                                     *)
LEMMA ModeWalk ==
  ASSUME NEW S, NEW args \in Seq(S)
  PROVE  /\ \E f : ModeAt(args) = f[1] /\ ModeFrom(args, f)
         /\ \/ ModeAt(args) = 0
            \/ ModeAt(args) \in 1..Len(args) /\ args[ModeAt(args)].name \in Modes
<1> DEFINE n == Len(args)
           none == 0
           V == {none} \cup {i \in 1..n : args[i].name \in Modes}
           step == [i \in 1..n |-> [a \in V |-> [b \in V |->
                      IF IsConfig(args[i]) /\ args[i].joined = <<>> THEN b
                      ELSE IF args[i].dashes > 0 THEN a
                      ELSE IF args[i].name \in Modes THEN i ELSE 0]]]
           From(f) == [i \in 1..n + 2 |->
                        IF i > n THEN 0
                        ELSE IF IsConfig(args[i]) /\ args[i].joined = <<>> THEN f[i + 2]
                        ELSE IF args[i].dashes > 0 THEN f[i + 1]
                        ELSE IF args[i].name \in Modes THEN i ELSE 0]
           from == CHOOSE f : f = From(f)
<1>1. n \in Nat
  OBVIOUS
<1>2. ModeAt(args) = from[1]
  BY Zenon DEF ModeAt
<1>3. \E f : f = From(f)
  <2>1. step \in [1..n -> [V -> [V -> V]]]
    OBVIOUS
  <2>2. none \in V
    OBVIOUS
  <2>3. PICK f \in [1..n + 2 -> V] : Backward(f, n, none, step)
    <3> HIDE DEF step, V, n, none
    <3> QED BY <1>1, <2>1, <2>2, BackwardRecursion, Zenon
  <2>4. ASSUME NEW i \in 1..n + 2 PROVE f[i] = From(f)[i]
    <3>1. CASE i > n
      BY <2>3, <3>1 DEF Backward
    <3>2. CASE i <= n
      <4>1. i \in 1..n /\ i + 1 \in 1..n + 2 /\ i + 2 \in 1..n + 2
        BY <3>2
      <4>2. f[i + 1] \in V /\ f[i + 2] \in V
        BY <4>1
      <4>3. f[i] = step[i][f[i + 1]][f[i + 2]]
        <5>1. ~(i > n)
          BY <3>2
        <5> HIDE DEF step, V, n
        <5> QED BY <2>3, <5>1, Zenon DEF Backward
      <4> QED BY <3>2, <4>1, <4>2, <4>3
    <3> QED BY <1>1, <3>1, <3>2
  <2>5. f = From(f)
    BY <2>4
  <2> QED BY <2>5, Zenon
<1>4. from = From(from)
  BY <1>3, Zenon
<1> HIDE DEF from
<1>5. ModeFrom(args, from)
  BY <1>4 DEF ModeFrom
<1>6. from[1] \in V
  <2> DEFINE B == {i \in 1..n + 2 : from[i] \notin V}
  <2>1. ASSUME B # {} PROVE FALSE
    <3>1. PICK m \in B : \A j \in B : j <= m
      <4>1. B \in SUBSET (1..n + 2) /\ n + 2 \in Nat
        OBVIOUS
      <4> HIDE DEF B
      <4> QED BY <2>1, <4>1, GreatestElement
    <3>2. m \in 1..n
      BY <1>5 DEF ModeFrom
    <3>3. m + 1 \notin B /\ m + 2 \notin B
      BY <3>1
    <3>4. from[m + 1] \in V /\ from[m + 2] \in V
      BY <3>2, <3>3
    <3>5. from[m] \in {from[m + 1], from[m + 2]} \cup V
      BY <1>5, <3>2 DEF ModeFrom
    <3> HIDE DEF V
    <3> QED BY <3>1, <3>4, <3>5
  <2> QED BY <1>1, <2>1
<1> QED BY <1>2, <1>5, <1>6

(* config.go:114-131 and ping.go:51-58: whatever the layers contain, a     *)
(* probe that starts has a model, a prompt and no negative number; it has  *)
(* an HTTP endpoint unless it is offline, and a deadline unless its        *)
(* timeout is not positive.                                                *)
THEOREM StartedProbeIsValid ==
  ASSUME NEW S, NEW args \in Seq(S), NEW files, NEW env, Run(args, files, env).started
  PROVE  LET probe == Run(args, files, env)
         IN  /\ Valid(probe.cfg)
             /\ probe.mode # "offline" => probe.cfg.endpoint \in Web
             /\ probe.deadline = (probe.cfg.timeout > 0)
<1> DEFINE read   == Read(args)
           path   == IF read.config = <<>> THEN "" ELSE read.config[1].name
           loaded == LoadPingDefaults(files, path, env)
           opts   == Options(read.values, loaded.modes[read.mode])
           made   == ConfigFor(read.mode, opts)
           probe  == Run(args, files, env)
<1>1. made.ok /\ probe.mode = read.mode /\ probe.cfg = made.cfg
      /\ probe.deadline = (made.cfg.timeout > 0)
  BY DEF Run, NoProbe
<1>2. read.mode \in {"serve", "api", "kserve", "offline"}
  <2>1. read.mode = IF ModeAt(args) = 0 THEN "serve" ELSE args[ModeAt(args)].name
    BY DEF Read
  <2>2. ModeAt(args) # 0 => args[ModeAt(args)].name \in Modes
    BY ModeWalk
  <2> HIDE DEF read
  <2> QED BY <2>1, <2>2 DEF Modes
<1> HIDE DEF read, opts, probe, path, loaded
<1>3. Valid(made.cfg) /\ (read.mode # "offline" => made.cfg.endpoint \in Web)
  <2>1. CASE read.mode = "serve"
    <3>1. made = NewServe(opts)
      BY <2>1, Zenon DEF ConfigFor
    <3> QED BY <1>1, <3>1, ServeValid
  <2>2. CASE read.mode = "api"
    <3>0. read.mode # "serve"
      BY <2>2
    <3>1. made = NewAPI(opts)
      BY <2>2, <3>0, Zenon DEF ConfigFor
    <3> QED BY <1>1, <3>1, APIValid
  <2>3. CASE read.mode = "kserve"
    <3>0. read.mode # "serve" /\ read.mode # "api"
      BY <2>3
    <3>1. made = NewKServe(opts)
      BY <2>3, <3>0, Zenon DEF ConfigFor
    <3> QED BY <1>1, <3>1, KServeValid
  <2>4. CASE read.mode = "offline"
    <3>0. read.mode # "serve" /\ read.mode # "api" /\ read.mode # "kserve"
      BY <2>4
    <3>1. made = NewOffline(opts)
      BY <2>4, <3>0, Zenon DEF ConfigFor
    <3> QED BY <1>1, <2>4, <3>1, OfflineValid
  <2> QED BY <1>2, <2>1, <2>2, <2>3, <2>4
<1> HIDE DEF made
<1>4. /\ Valid(probe.cfg)
      /\ probe.mode # "offline" => probe.cfg.endpoint \in Web
      /\ probe.deadline = (probe.cfg.timeout > 0)
  BY <1>1, <1>3
<1> QED BY <1>4 DEF probe

-------------------------------------------------------------------------------
ValueAt(args, i) == IF args[i].joined = <<>> THEN args[i + 1] ELSE args[i].joined[1]

Nothing  == [ok |-> TRUE, left |-> 0, values |-> <<>>]
Rejected == [ok |-> FALSE, left |-> 0, values |-> <<>>]

(* What is parsed from a position on, given what is parsed from the next    *)
(* two on                                                                   *)
ParseStep(flags, args, i, a, b) ==
  IF args[i].dashes = 0
  THEN [ok |-> TRUE, left |-> Len(args) + 1 - i, values |-> <<>>]
  ELSE IF args[i].name \notin flags \/ (args[i].joined = <<>> /\ i = Len(args))
  THEN Rejected
  ELSE [(IF args[i].joined = <<>> THEN b ELSE a) EXCEPT !.values =
          Give(@, args[i].name, ValueAt(args, i))]

ParseFrom(flags, args, f) ==
  \A i \in 1..Len(args) + 2 :
    f[i] = IF i > Len(args) THEN Nothing ELSE ParseStep(flags, args, i, f[i + 1], f[i + 2])

(* What a parse may return: values for some of the names in the arguments   *)
ValueMaps(args) ==
  UNION {[D -> {args[i] : i \in DOMAIN args} \cup {args[i].joined[1] : i \in DOMAIN args}] :
           D \in SUBSET {args[i].name : i \in DOMAIN args}}

Parsed(args) == [ok : BOOLEAN, left : Int, values : ValueMaps(args)]

(* To give one more value keeps it so. *)
LEMMA GivenMap ==
  ASSUME NEW N, NEW V, NEW n \in N, NEW v \in V, NEW vals,
         vals \in UNION {[D -> V] : D \in SUBSET N}
  PROVE  Give(vals, n, v) \in UNION {[D -> V] : D \in SUBSET N}
<1>1. PICK D \in SUBSET N : vals \in [D -> V]
  OBVIOUS
<1>2. Give(vals, n, v) \in [D \cup {n} -> V] /\ D \cup {n} \in SUBSET N
  BY <1>1 DEF Give
<1> QED BY <1>2, Zenon

(* No values are such values. *)
LEMMA NoValues == ASSUME NEW args PROVE <<>> \in ValueMaps(args)
<1> DEFINE V == {args[j] : j \in DOMAIN args} \cup {args[j].joined[1] : j \in DOMAIN args}
           N == {args[j].name : j \in DOMAIN args}
<1>1. {} \in SUBSET N
  OBVIOUS
<1> HIDE DEF V, N
<1>2. <<>> \in [{} -> V]
  OBVIOUS
<1>3. <<>> \in UNION {[D -> V] : D \in SUBSET N}
  BY <1>1, <1>2, Zenon
<1> QED BY <1>3 DEF ValueMaps, V, N

(* A step of the walk returns such values. *)
LEMMA ParseStepType ==
  ASSUME NEW S, NEW args \in Seq(S), NEW flags, NEW i \in 1..Len(args),
         NEW a \in Parsed(args), NEW b \in Parsed(args)
  PROVE  ParseStep(flags, args, i, a, b) \in Parsed(args)
<1>1. <<>> \in ValueMaps(args)
  BY NoValues, Zenon
<1>2. CASE args[i].dashes = 0
  <2>1. ParseStep(flags, args, i, a, b)
          = [ok |-> TRUE, left |-> Len(args) + 1 - i, values |-> <<>>]
    BY <1>2 DEF ParseStep
  <2>2. Len(args) + 1 - i \in Int
    OBVIOUS
  <2> HIDE DEF ValueMaps
  <2> QED BY <1>1, <2>1, <2>2 DEF Parsed
<1>3. CASE /\ args[i].dashes # 0
           /\ args[i].name \notin flags \/ (args[i].joined = <<>> /\ i = Len(args))
  <2>1. ParseStep(flags, args, i, a, b) = Rejected
    BY <1>3 DEF ParseStep
  <2> QED BY <1>1, <2>1 DEF Parsed, Rejected
<1>4. CASE /\ args[i].dashes # 0
           /\ ~(args[i].name \notin flags \/ (args[i].joined = <<>> /\ i = Len(args)))
  <2> DEFINE next == IF args[i].joined = <<>> THEN b ELSE a
  <2>1. ParseStep(flags, args, i, a, b)
          = [next EXCEPT !.values = Give(@, args[i].name, ValueAt(args, i))]
    BY <1>4 DEF ParseStep
  <2>2. next \in Parsed(args)
    OBVIOUS
  <2> HIDE DEF next
  <2>3. next.values \in ValueMaps(args)
    BY <2>2 DEF Parsed
  <2>4. Give(next.values, args[i].name, ValueAt(args, i)) \in ValueMaps(args)
    <3> DEFINE V == {args[j] : j \in DOMAIN args} \cup {args[j].joined[1] : j \in DOMAIN args}
               N == {args[j].name : j \in DOMAIN args}
    <3>1. DOMAIN args = 1..Len(args)
      OBVIOUS
    <3>2. args[i].name \in N
      BY <3>1
    <3>3. ValueAt(args, i) \in V
      <4>1. CASE args[i].joined = <<>>
        <5>1. i + 1 \in 1..Len(args)
          BY <1>4, <4>1
        <5> QED BY <3>1, <4>1, <5>1 DEF ValueAt
      <4>2. CASE args[i].joined # <<>>
        BY <3>1, <4>2 DEF ValueAt
      <4> QED BY <4>1, <4>2
    <3>4. ValueMaps(args) = UNION {[D -> V] : D \in SUBSET N}
      BY DEF ValueMaps
    <3> HIDE DEF V, N
    <3> QED BY <2>3, <3>2, <3>3, <3>4, GivenMap, Zenon
  <2> QED BY <2>1, <2>2, <2>4 DEF Parsed
<1> QED BY <1>2, <1>3, <1>4

(* The values are what such a walk finds from the first argument. *)
LEMMA ParseWalk ==
  ASSUME NEW S, NEW args \in Seq(S), NEW flags
  PROVE  \E f \in [1..Len(args) + 2 -> Parsed(args)] :
           Parse(flags, args) = f[1] /\ ParseFrom(flags, args, f)
<1> DEFINE n == Len(args)
           V == Parsed(args)
           none == Nothing
           step == [i \in 1..n |-> [a \in V |-> [b \in V |-> ParseStep(flags, args, i, a, b)]]]
           From(f) == [i \in 1..n + 2 |->
                        IF i > n THEN Nothing
                        ELSE ParseStep(flags, args, i, f[i + 1], f[i + 2])]
           Body(f) == [i \in 1..n + 2 |->
             IF i > n THEN [ok |-> TRUE, left |-> 0, values |-> <<>>]
             ELSE IF args[i].dashes = 0
             THEN [ok |-> TRUE, left |-> n + 1 - i, values |-> <<>>]
             ELSE LET arg  == args[i]
                      next == f[IF arg.joined = <<>> THEN i + 2 ELSE i + 1]
                  IN  IF arg.name \notin flags \/ (arg.joined = <<>> /\ i = n)
                      THEN [ok |-> FALSE, left |-> 0, values |-> <<>>]
                      ELSE [next EXCEPT !.values =
                              Give(@, arg.name, IF arg.joined = <<>> THEN args[i + 1]
                                                ELSE arg.joined[1])]]
           from == CHOOSE f : f = Body(f)
<1>1. n \in Nat
  OBVIOUS
<1>2. Parse(flags, args) = from[1]
  BY Zenon DEF Parse
<1>3. \A f : Body(f) = From(f)
  <2> TAKE f
  <2>1. ASSUME NEW i \in 1..n + 2 PROVE Body(f)[i] = From(f)[i]
    BY DEF ParseStep, Nothing, Rejected, ValueAt
  <2> QED BY <2>1
<1> HIDE DEF Body
<1>4. \E f : f = Body(f)
  <2>1. step \in [1..n -> [V -> [V -> V]]]
    <3>1. \A i \in 1..n, a \in V, b \in V : ParseStep(flags, args, i, a, b) \in V
      BY ParseStepType, Zenon
    <3> HIDE DEF V
    <3> QED BY <3>1
  <2>2. none \in V
    <3>1. <<>> \in ValueMaps(args)
      BY NoValues, Zenon
    <3> QED BY <3>1 DEF Parsed, Nothing
  <2>3. PICK f \in [1..n + 2 -> V] : Backward(f, n, none, step)
    <3> HIDE DEF step, V, n, none
    <3> QED BY <1>1, <2>1, <2>2, BackwardRecursion, Zenon
  <2>4. ASSUME NEW i \in 1..n + 2 PROVE f[i] = From(f)[i]
    <3>1. CASE i > n
      BY <2>3, <3>1 DEF Backward
    <3>2. CASE i <= n
      <4>1. i \in 1..n /\ i + 1 \in 1..n + 2 /\ i + 2 \in 1..n + 2 /\ ~(i > n)
        BY <3>2
      <4>2. f[i + 1] \in V /\ f[i + 2] \in V
        BY <4>1
      <4>3. f[i] = step[i][f[i + 1]][f[i + 2]]
        <5> HIDE DEF step, V, n
        <5> QED BY <2>3, <4>1, Zenon DEF Backward
      <4> HIDE DEF V
      <4> QED BY <4>1, <4>2, <4>3
    <3> QED BY <1>1, <3>1, <3>2
  <2>5. f = From(f)
    BY <2>4
  <2> QED BY <1>3, <2>5, Zenon
<1>5. from = Body(from)
  BY <1>4, Zenon
<1> HIDE DEF from
<1>6. from = From(from)
  BY <1>3, <1>5, Zenon
<1>7. ParseFrom(flags, args, from)
  BY <1>6 DEF ParseFrom
<1>8. from \in [1..n + 2 -> V]
  <2> DEFINE B == {i \in 1..n + 2 : from[i] \notin V}
  <2>1. ASSUME B # {} PROVE FALSE
    <3>1. PICK m \in B : \A j \in B : j <= m
      <4>1. B \in SUBSET (1..n + 2) /\ n + 2 \in Nat
        OBVIOUS
      <4> HIDE DEF B
      <4> QED BY <2>1, <4>1, GreatestElement
    <3>2. m \in 1..n
      <4>1. Nothing \in V
        <5>1. <<>> \in ValueMaps(args)
          BY NoValues, Zenon
        <5> QED BY <5>1 DEF Parsed, Nothing
      <4> HIDE DEF V
      <4> QED BY <1>7, <4>1 DEF ParseFrom
    <3>3. m + 1 \notin B /\ m + 2 \notin B
      BY <3>1
    <3>4. from[m + 1] \in V /\ from[m + 2] \in V
      BY <3>2, <3>3
    <3>5. from[m] = ParseStep(flags, args, m, from[m + 1], from[m + 2])
      BY <1>7, <3>2 DEF ParseFrom
    <3>6. from[m] \in V
      BY <3>2, <3>4, <3>5, ParseStepType, Zenon
    <3> QED BY <3>1, <3>6
  <2>2. \A i \in 1..n + 2 : from[i] \in V
    BY <2>1
  <2> HIDE DEF V
  <2> QED BY <1>6, <2>2
<1> QED BY <1>2, <1>7, <1>8, Zenon

-------------------------------------------------------------------------------
(* The arguments as they were written: P are the positions where a part     *)
(* begins, a word or a flag with its value, and the one behind the last.    *)
Detached(arg) == arg.dashes # 0 /\ arg.joined = <<>>

NextPart(args, i) == IF Detached(args[i]) THEN i + 2 ELSE i + 1

IsPart(args, P, i) ==
  /\ NextPart(args, i) \in P
  /\ Detached(args[i]) => i + 1 <= Len(args) /\ i + 1 \notin P

Parts(args, P) ==
  /\ P \in SUBSET (1..Len(args) + 1) /\ 1 \in P /\ Len(args) + 1 \in P
  /\ \A i \in 1..Len(args) : /\ args[i].dashes \in {0, 2}
                             /\ IF i \in P THEN IsPart(args, P, i)
                                ELSE args[i].dashes = 0

WordsOf(args, P) == {i \in P : i <= Len(args) /\ args[i].dashes = 0}
FlagsIn(args, P) == {i \in P : i <= Len(args) /\ args[i].dashes # 0}

(* Some position, if any, is the last one that is not as it should be.      *)
LEMMA LastWrong ==
  ASSUME NEW S, NEW args \in Seq(S), NEW P, Parts(args, P), NEW B \in SUBSET P, B # {}
  PROVE  \E m \in B : \A j \in B : j <= m
<1>1. B \in SUBSET (1..Len(args) + 1) /\ Len(args) + 1 \in Nat
  BY DEF Parts
<1> QED BY <1>1, GreatestElement

(* Where a word stands that is no value, parsing does not come to the end.  *)
LEMMA ParseWords ==
  ASSUME NEW S, NEW args \in Seq(S), NEW P, Parts(args, P), NEW flags,
         NEW w \in WordsOf(args, P)
  PROVE  ~(Parse(flags, args).ok /\ Parse(flags, args).left = 0)
<1> DEFINE n == Len(args)
<1>1. PICK f \in [1..n + 2 -> Parsed(args)] :
        Parse(flags, args) = f[1] /\ ParseFrom(flags, args, f)
  BY ParseWalk
<1>2. n \in Nat /\ w \in P /\ w \in 1..n /\ args[w].dashes = 0
  BY DEF WordsOf, Parts
<1> DEFINE B == {i \in P : i <= w /\ f[i].ok /\ f[i].left = 0}
<1>3. ASSUME B # {} PROVE FALSE
  <2>1. PICK m \in B : \A j \in B : j <= m
    <3>1. B \in SUBSET P
      OBVIOUS
    <3> HIDE DEF B
    <3> QED BY <1>3, <3>1, LastWrong
  <2>2. /\ m \in P /\ m \in 1..n /\ m <= w
        /\ args[m].dashes \in {0, 2} /\ IsPart(args, P, m)
        /\ m + 1 \in 1..n + 2 /\ m + 2 \in 1..n + 2
    BY <1>2 DEF Parts
  <2>3. f[m].ok /\ f[m].left = 0
    BY <2>1, Zenon
  <2>4. f[m] = ParseStep(flags, args, m, f[m + 1], f[m + 2])
    BY <1>1, <2>2 DEF ParseFrom
  <2>5. CASE args[m].dashes = 0
    <3>1. f[m].left = n + 1 - m
      BY <2>4, <2>5 DEF ParseStep
    <3> QED BY <2>2, <2>3, <3>1
  <2>6. CASE args[m].dashes # 0
    <3> DEFINE k == NextPart(args, m)
    <3>1. m # w
      BY <1>2, <2>6
    <3>2. k \in P /\ k <= w /\ k > m /\ k \in 1..n + 2
      BY <1>2, <2>2, <3>1 DEF IsPart, NextPart
    <3>3. f[k] \in Parsed(args)
      BY <3>2
    <3>4. f[m] # Rejected
      BY <2>3 DEF Rejected
    <3>5. f[m] = [f[k] EXCEPT !.values = Give(@, args[m].name, ValueAt(args, m))]
      BY <2>4, <2>6, <3>4 DEF ParseStep, NextPart, Detached
    <3> HIDE DEF k
    <3>6. f[k].ok = f[m].ok /\ f[k].left = f[m].left
      BY <3>3, <3>5 DEF Parsed
    <3>7. k \in B
      BY <2>3, <3>2, <3>6, Zenon
    <3> HIDE DEF B
    <3>8. k <= m
      BY <2>1, <3>7
    <3> QED BY <2>2, <3>2, <3>8
  <2> QED BY <2>5, <2>6
<1>4. 1 \notin B
  BY <1>3
<1>5. 1 \in P /\ 1 <= w
  BY <1>2 DEF Parts
<1> QED BY <1>1, <1>4, <1>5, Zenon

(* Values are those of the flags at these positions. *)
IsValues(vals, args, Q) ==
  /\ vals = [x \in DOMAIN vals |-> vals[x]]
  /\ DOMAIN vals = {args[j].name : j \in Q}
  /\ \A j \in Q : vals[args[j].name] = ValueAt(args, j)

(* One more flag, and its value *)
LEMMA OneMoreValue ==
  ASSUME NEW vals, NEW args, NEW Q, NEW m, IsValues(vals, args, Q),
         \A j \in Q : args[j].name # args[m].name
  PROVE  IsValues(Give(vals, args[m].name, ValueAt(args, m)), args, Q \cup {m})
BY DEF IsValues, Give

Behind(args, P, i) == {j \in FlagsIn(args, P) : j >= i}

ReadsWell(args, P, flags, parsed, i) ==
  /\ parsed.ok <=> \A j \in Behind(args, P, i) : args[j].name \in flags
  /\ parsed.ok => parsed.left = 0 /\ IsValues(parsed.values, args, Behind(args, P, i))

(* Without such a word, parsing fails for an unknown flag only and returns *)
(* the value of each flag.                                                 *)
LEMMA ParseFlags ==
  ASSUME NEW S, NEW args \in Seq(S), NEW P, Parts(args, P), NEW flags,
         WordsOf(args, P) = {},
         \A i, j \in FlagsIn(args, P) : args[i].name = args[j].name => i = j
  PROVE  ReadsWell(args, P, flags, Parse(flags, args), 1)
<1> DEFINE n == Len(args)
<1>1. PICK f \in [1..n + 2 -> Parsed(args)] :
        Parse(flags, args) = f[1] /\ ParseFrom(flags, args, f)
  BY ParseWalk
<1>2. n \in Nat /\ P \subseteq 1..n + 1 /\ 1 \in P
  BY DEF Parts
<1> DEFINE B == {i \in P : ~ReadsWell(args, P, flags, f[i], i)}
<1>3. ASSUME B # {} PROVE FALSE
  <2>1. PICK m \in B : \A j \in B : j <= m
    <3>1. B \in SUBSET P
      OBVIOUS
    <3> HIDE DEF B
    <3> QED BY <1>3, <3>1, LastWrong
  <2>2. m \in P /\ ~ReadsWell(args, P, flags, f[m], m)
    BY <2>1, Zenon
  <2> HIDE DEF B
  <2>3. CASE m = n + 1
    <3>1. f[m] = Nothing
      BY <1>1, <1>2, <2>3 DEF ParseFrom
    <3>2. Behind(args, P, m) = {}
      <4>1. ASSUME NEW j \in Behind(args, P, m) PROVE FALSE
        <5>1. j \in P /\ j <= n /\ j >= n + 1
          BY <2>3 DEF Behind, FlagsIn
        <5> QED BY <1>2, <5>1
      <4> QED BY <4>1
    <3>3. <<>> = [x \in DOMAIN <<>> |-> <<>>[x]] /\ DOMAIN <<>> = {}
      OBVIOUS
    <3>4. IsValues(<<>>, args, {})
      BY <3>3 DEF IsValues
    <3>5. ReadsWell(args, P, flags, Nothing, m)
      BY <3>2, <3>4 DEF ReadsWell, Nothing
    <3> QED BY <2>2, <3>1, <3>5
  <2>4. CASE m # n + 1
    <3> DEFINE k == NextPart(args, m)
    <3>1. /\ m \in 1..n /\ m + 1 \in 1..n + 2 /\ m + 2 \in 1..n + 2
          /\ IsPart(args, P, m)
      BY <1>2, <2>2, <2>4 DEF Parts
    <3>2. m \in FlagsIn(args, P) /\ args[m].dashes # 0
      BY <2>2, <3>1 DEF WordsOf, FlagsIn
    <3>3. k \in P /\ k > m /\ k \in 1..n + 2
      BY <3>1 DEF IsPart, NextPart
    <3>4. Behind(args, P, m) = Behind(args, P, k) \cup {m}
      <4>1. ASSUME NEW j \in P, j >= m PROVE j = m \/ j >= k
        BY <1>2, <3>1, <4>1 DEF IsPart, NextPart
      <4>2. \A j \in Behind(args, P, k) : j >= m /\ j \in FlagsIn(args, P)
        BY <1>2, <3>1, <3>3 DEF Behind, FlagsIn
      <4> HIDE DEF k
      <4>3. \A j \in Behind(args, P, m) : j \in P /\ j >= m /\ j \in FlagsIn(args, P)
        BY DEF Behind, FlagsIn
      <4>4. m >= m
        BY <3>1
      <4> QED BY <3>2, <4>1, <4>2, <4>3, <4>4, Zenon DEF Behind
    <3>5. \A j \in Behind(args, P, k) : args[j].name # args[m].name
      <4>1. \A j \in Behind(args, P, k) : j \in FlagsIn(args, P) /\ j # m
        BY <3>1, <3>3, <1>2 DEF Behind, FlagsIn
      <4> QED BY <3>2, <4>1
    <3>6. ReadsWell(args, P, flags, f[k], k)
      <4>1. k \notin B
        <5> HIDE DEF k
        <5>1. ~(k <= m)
          BY <3>1, <3>3
        <5> QED BY <2>1, <5>1
      <4> QED BY <3>3, <4>1 DEF B
    <3>7. f[k] \in Parsed(args)
      BY <3>3
    <3>8. f[m] = ParseStep(flags, args, m, f[m + 1], f[m + 2])
      BY <1>1, <3>1 DEF ParseFrom
    <3>9. CASE args[m].name \notin flags
      <4>1. f[m] = Rejected
        BY <3>2, <3>8, <3>9 DEF ParseStep
      <4>2. ~Rejected.ok
        BY DEF Rejected
      <4>3. m \in Behind(args, P, m)
        BY <3>4
      <4> QED BY <2>2, <3>9, <4>1, <4>2, <4>3, Zenon DEF ReadsWell
    <3>10. CASE args[m].name \in flags
      <4>1. ~(args[m].joined = <<>> /\ m = n)
        BY <3>1, <3>2 DEF IsPart, Detached
      <4>2. f[m] = [f[k] EXCEPT !.values = Give(@, args[m].name, ValueAt(args, m))]
        BY <3>2, <3>8, <3>10, <4>1 DEF ParseStep, NextPart, Detached
      <4> HIDE DEF k
      <4>3. /\ f[m].ok = f[k].ok /\ f[m].left = f[k].left
            /\ f[m].values = Give(f[k].values, args[m].name, ValueAt(args, m))
        BY <3>7, <4>2 DEF Parsed
      <4>4. f[k].ok => f[k].left = 0 /\ IsValues(f[k].values, args, Behind(args, P, k))
        BY <3>6, Zenon DEF ReadsWell
      <4>5. f[k].ok => IsValues(f[m].values, args, Behind(args, P, m))
        <5> SUFFICES ASSUME f[k].ok PROVE IsValues(f[m].values, args, Behind(args, P, m))
          OBVIOUS
        <5>1. IsValues(f[k].values, args, Behind(args, P, k))
          BY <4>4
        <5>2. IsValues(Give(f[k].values, args[m].name, ValueAt(args, m)), args,
                       Behind(args, P, k) \cup {m})
          BY <3>5, <5>1, OneMoreValue, Zenon
        <5> QED BY <3>4, <4>3, <5>2
      <4>6. f[k].ok <=> \A j \in Behind(args, P, k) : args[j].name \in flags
        BY <3>6, Zenon DEF ReadsWell
      <4>7. f[m].ok <=> \A j \in Behind(args, P, m) : args[j].name \in flags
        BY <3>4, <3>10, <4>3, <4>6, Zenon
      <4>8. ReadsWell(args, P, flags, f[m], m)
        BY <4>3, <4>4, <4>5, <4>7, Zenon DEF ReadsWell
      <4> QED BY <2>2, <4>8
    <3> QED BY <3>9, <3>10
  <2> QED BY <2>3, <2>4
<1> QED BY <1>1, <1>2, <1>3

-------------------------------------------------------------------------------
(* Where the search for the mode stops: at what is no flag, unless it is the *)
(* value of --config; the values of other flags are taken for words.        *)
Stops(args, P) ==
  {i \in 1..Len(args) :
     /\ args[i].dashes = 0
     /\ \A j \in P : i = j + 1 => ~(IsConfig(args[j]) /\ args[j].joined = <<>>)}

FirstStop(args, P, k) ==
  /\ k \in Stops(args, P) \cup {Len(args) + 1}
  /\ \A i \in Stops(args, P) : k <= i

(* The mode is the first stop, if that is one.                              *)
LEMMA ModeOf ==
  ASSUME NEW S, NEW args \in Seq(S), NEW P, Parts(args, P), NEW k, FirstStop(args, P, k)
  PROVE  ModeAt(args) = IF k <= Len(args) /\ args[k].name \in Modes THEN k ELSE 0
<1> DEFINE n == Len(args)
           mode_ == IF k <= n /\ args[k].name \in Modes THEN k ELSE 0
<1>1. PICK f : ModeAt(args) = f[1] /\ ModeFrom(args, f)
  BY ModeWalk
<1>2. n \in Nat /\ P \subseteq 1..n + 1 /\ 1 \in P /\ k \in 1..n + 1
  BY DEF Parts, FirstStop, Stops
<1>3. f[k] = mode_
  <2>1. k \in 1..n + 2
    BY <1>2
  <2>2. CASE k = n + 1
    <3>1. f[k] = 0
      BY <1>1, <1>2, <2>1, <2>2 DEF ModeFrom
    <3> QED BY <1>2, <2>2, <3>1
  <2>3. CASE k \in Stops(args, P)
    <3>1. k \in 1..n /\ args[k].dashes = 0
      BY <2>3 DEF Stops
    <3> QED BY <1>1, <2>1, <3>1 DEF ModeFrom, IsConfig
  <2> QED BY <2>2, <2>3 DEF FirstStop
<1> DEFINE B == {i \in P : i <= k /\ f[i] # mode_}
<1>4. ASSUME B # {} PROVE FALSE
  <2> HIDE DEF mode_
  <2>1. PICK m \in B : \A j \in B : j <= m
    <3>1. B \in SUBSET P
      OBVIOUS
    <3> HIDE DEF B
    <3> QED BY <1>4, <3>1, LastWrong
  <2>2. m \in P /\ m <= k /\ f[m] # mode_
    BY <2>1
  <2>3. /\ m < k /\ m \in 1..n /\ m \in 1..n + 2 /\ IsPart(args, P, m)
        /\ args[m].dashes \in {0, 2}
    BY <1>2, <1>3, <2>2 DEF Parts
  <2>4. ASSUME NEW i \in P, i > m, i <= k PROVE f[i] = mode_
    <3>1. i \notin B
      <4> HIDE DEF B
      <4> QED BY <1>2, <2>1, <2>3, <2>4
    <3> QED BY <2>4, <3>1
  <2> HIDE DEF B
  <2>5. CASE args[m].dashes = 0
    <3>1. \A j \in P : m = j + 1 => ~(IsConfig(args[j]) /\ args[j].joined = <<>>)
      <4> SUFFICES ASSUME NEW j \in P, m = j + 1, IsConfig(args[j]), args[j].joined = <<>>
                   PROVE  FALSE
        OBVIOUS
      <4>1. j \in 1..n
        BY <1>2, <2>3
      <4>2. IsPart(args, P, j)
        BY <4>1 DEF Parts
      <4> QED BY <2>2, <4>2 DEF IsPart, Detached, IsConfig
    <3>2. m \in Stops(args, P)
      BY <2>3, <2>5, <3>1 DEF Stops
    <3> QED BY <1>2, <2>3, <3>2 DEF FirstStop
  <2>6. CASE IsConfig(args[m]) /\ args[m].joined = <<>>
    <3>1. f[m] = f[m + 2]
      BY <1>1, <2>3, <2>6 DEF ModeFrom
    <3>2. m + 2 \in P /\ m + 1 <= n
      BY <2>3, <2>6 DEF IsPart, NextPart, Detached, IsConfig
    <3>3. k # m + 1
      <4>1. m + 1 \notin Stops(args, P)
        BY <2>2, <2>6 DEF Stops
      <4> QED BY <1>2, <2>3, <3>2, <4>1 DEF FirstStop
    <3> QED BY <1>2, <2>2, <2>3, <2>4, <3>1, <3>2, <3>3
  <2>7. CASE args[m].dashes = 2 /\ ~(IsConfig(args[m]) /\ args[m].joined = <<>>)
    <3>1. f[m] = f[m + 1]
      BY <1>1, <2>3, <2>7 DEF ModeFrom
    <3>2. CASE args[m].joined # <<>>
      <4>1. m + 1 \in P
        BY <2>3, <3>2 DEF IsPart, NextPart, Detached
      <4> QED BY <1>2, <2>2, <2>3, <2>4, <3>1, <4>1
    <3>3. CASE args[m].joined = <<>>
      <4>1. m + 1 \in 1..n /\ m + 1 \notin P
        BY <2>3, <2>7, <3>3 DEF IsPart, Detached
      <4>2. args[m + 1].dashes = 0
        BY <4>1 DEF Parts
      <4>3. \A j \in P : m + 1 = j + 1 => ~(IsConfig(args[j]) /\ args[j].joined = <<>>)
        <5>1. \A j \in P : m + 1 = j + 1 => j = m
          BY <1>2, <2>3
        <5> QED BY <2>7, <3>3, <5>1
      <4>4. m + 1 \in Stops(args, P)
        BY <4>1, <4>2, <4>3 DEF Stops
      <4>5. k = m + 1
        BY <1>2, <2>3, <4>4 DEF FirstStop
      <4> QED BY <1>3, <2>2, <3>1, <4>5
    <3> QED BY <3>2, <3>3
  <2> QED BY <2>3, <2>5, <2>6, <2>7
<1>5. 1 \in P /\ 1 <= k
  BY <1>2
<1> HIDE DEF mode_
<1>6. f[1] = mode_
  BY <1>4, <1>5
<1> QED BY <1>1, <1>6 DEF mode_

-------------------------------------------------------------------------------
(* The arguments without the one at m                                       *)
Before(j, m) == IF j < m THEN j ELSE j + 1

(* All the others are kept, in their order.                                  *)
LEMMA Removed ==
  ASSUME NEW S, NEW args \in Seq(S), NEW m \in 1..Len(args)
  PROVE  /\ RemoveAt(args, m) \in Seq(S) /\ Len(RemoveAt(args, m)) = Len(args) - 1
         /\ \A j \in 1..Len(args) - 1 : RemoveAt(args, m)[j] = args[Before(j, m)]
<1> DEFINE n == Len(args)
           a == SubSeq(args, 1, m - 1)
           b == SubSeq(args, m + 1, n)
<1>1. n \in Nat /\ m \in 1..n
  OBVIOUS
<1>2. /\ a \in Seq(S) /\ Len(a) = m - 1
      /\ \A j \in 1..m - 1 : a[j] = args[j]
  BY <1>1
<1>3. /\ b \in Seq(S) /\ Len(b) = n - m
      /\ \A j \in 1..n - m : b[j] = args[m + j]
  BY <1>1
<1>4. RemoveAt(args, m) = a \o b
  BY DEF RemoveAt
<1> HIDE DEF a, b
<1>5. /\ a \o b \in Seq(S) /\ Len(a \o b) = n - 1
      /\ \A j \in 1..n - 1 : (a \o b)[j] = IF j <= m - 1 THEN a[j] ELSE b[j - (m - 1)]
  <2>1. /\ a \o b \in Seq(S) /\ Len(a \o b) = Len(a) + Len(b)
        /\ \A j \in 1..Len(a) + Len(b) :
             (a \o b)[j] = IF j <= Len(a) THEN a[j] ELSE b[j - Len(a)]
    BY <1>2, <1>3, ConcatProperties
  <2>2. m - 1 + (n - m) = n - 1
    BY <1>1
  <2> HIDE DEF n
  <2> QED BY <1>2, <1>3, <2>1, <2>2
<1>7. n - 1 = Len(args) - 1
  OBVIOUS
<1> HIDE DEF n
<1>6. ASSUME NEW j \in 1..n - 1 PROVE (a \o b)[j] = args[Before(j, m)]
  <2>0. j \in Int /\ m \in Int /\ n \in Int
    BY <1>1
  <2>1. CASE j < m
    <3>1. j \in 1..m - 1 /\ Before(j, m) = j
      BY <1>1, <2>1 DEF Before
    <3>2. (a \o b)[j] = a[j]
      BY <1>5, <3>1
    <3> QED BY <1>2, <3>1, <3>2
  <2>2. CASE j >= m
    <3>1. j - (m - 1) \in 1..n - m /\ Before(j, m) = j + 1 /\ m + (j - (m - 1)) = j + 1
      BY <1>1, <2>2 DEF Before
    <3>2. (a \o b)[j] = b[j - (m - 1)]
      <4>1. ~(j <= m - 1)
        BY <2>0, <2>2
      <4> QED BY <1>5, <4>1
    <3> QED BY <1>3, <3>1, <3>2
  <2>3. j < m \/ j >= m
    BY <2>0
  <2> QED BY <2>1, <2>2, <2>3
<1> QED BY <1>4, <1>5, <1>6, <1>7

PartsLeft(args, P, m) == {j \in 1..Len(args) : Before(j, m) \in P}

(* They have the same flags and values, and one word less.                  *)
LEMMA RemovedParts ==
  ASSUME NEW S, NEW args \in Seq(S), NEW P, Parts(args, P), NEW m \in WordsOf(args, P)
  PROVE  LET rest == RemoveAt(args, m)
             Q == PartsLeft(args, P, m)
         IN  /\ Parts(rest, Q)
             /\ \A j \in WordsOf(rest, Q) : Before(j, m) \in WordsOf(args, P) \ {m}
             /\ WordsOf(rest, Q) = {} => WordsOf(args, P) = {m}
             /\ \A j \in FlagsIn(rest, Q) :
                  /\ Before(j, m) \in FlagsIn(args, P) /\ rest[j] = args[Before(j, m)]
                  /\ ValueAt(rest, j) = ValueAt(args, Before(j, m))
             /\ \A i \in FlagsIn(args, P) :
                  \E j \in FlagsIn(rest, Q) : Before(j, m) = i
<1> DEFINE n == Len(args)
           rest == RemoveAt(args, m)
           Q == PartsLeft(args, P, m)
<1>1. /\ n \in Nat /\ m \in 1..n /\ m \in P /\ args[m].dashes = 0 /\ m + 1 \in P
      /\ P \subseteq 1..n + 1 /\ n + 1 \in P /\ 1 \in P
  BY DEF WordsOf, Parts, IsPart, NextPart, Detached
<1>2. Len(rest) = n - 1 /\ \A j \in 1..n - 1 : rest[j] = args[Before(j, m)]
  BY <1>1, Removed
<1> HIDE DEF rest
<1>3. ASSUME NEW j \in 1..n - 1
      PROVE  Before(j, m) \in 1..n /\ Before(j, m) # m
  BY <1>1 DEF Before
<1>4. ASSUME NEW i \in 1..n, i # m
      PROVE  \E j \in 1..n - 1 : Before(j, m) = i
  <2>1. CASE i < m
    <3>1. i \in 1..n - 1 /\ Before(i, m) = i
      BY <1>1, <2>1 DEF Before
    <3> QED BY <3>1
  <2>2. CASE i > m
    <3>1. i - 1 \in 1..n - 1 /\ Before(i - 1, m) = i
      BY <1>1, <2>2 DEF Before
    <3> QED BY <3>1
  <2> QED BY <1>1, <1>4, <2>1, <2>2
<1>5. \A j \in 1..n - 1 : j \in Q <=> Before(j, m) \in P
  BY DEF PartsLeft
<1>6. Q \in SUBSET (1..n) /\ 1 \in Q /\ n \in Q
  BY <1>1 DEF PartsLeft, Before
<1>7. ASSUME NEW j \in 1..n - 1, j \in Q
      PROVE  /\ IsPart(rest, Q, j)
             /\ args[Before(j, m)].dashes # 0 => ValueAt(rest, j) = ValueAt(args, Before(j, m))
  <2> DEFINE i == Before(j, m)
  <2>1. i \in P /\ i \in 1..n /\ i # m /\ rest[j] = args[i]
    BY <1>2, <1>3, <1>5, <1>7
  <2>2. IsPart(args, P, i) /\ args[i].dashes \in {0, 2}
    BY <2>1 DEF Parts
  <2>3. (i = j /\ j < m) \/ (i = j + 1 /\ j >= m)
    BY <1>1 DEF Before
  <2> HIDE DEF i
  <2>4. CASE ~Detached(args[i])
    <3>1. i + 1 \in P
      BY <2>2, <2>4 DEF IsPart, NextPart
    <3>2. Before(j + 1, m) \in P
      BY <1>1, <2>3, <3>1 DEF Before
    <3>3. j + 1 \in Q
      BY <3>2 DEF PartsLeft
    <3>4. IsPart(rest, Q, j)
      BY <2>1, <2>4, <3>3 DEF IsPart, NextPart
    <3>5. args[i].dashes # 0 => ValueAt(rest, j) = ValueAt(args, i)
      BY <2>1, <2>4 DEF ValueAt, Detached
    <3> QED BY <3>4, <3>5 DEF i
  <2>5. CASE Detached(args[i])
    <3>1. i + 1 \notin P /\ i + 2 \in P /\ i + 1 <= n
      BY <2>2, <2>5 DEF IsPart, NextPart
    <3>2. i + 1 # m
      BY <1>1, <3>1
    <3>3. Before(j + 1, m) = i + 1
      BY <1>1, <2>3, <3>2 DEF Before
    <3>4. j + 1 \in 1..n - 1
      BY <1>1, <2>1, <2>3, <3>1, <3>2
    <3>5. j + 1 \notin Q
      BY <3>1, <3>3 DEF PartsLeft
    <3>6. Before(j + 2, m) \in P
      <4>1. CASE i = j /\ j < m
        <5>1. j + 2 <= m
          BY <1>1, <3>2, <4>1
        <5> QED BY <1>1, <3>1, <4>1, <5>1 DEF Before
      <4>2. CASE i = j + 1 /\ j >= m
        <5>1. Before(j + 2, m) = i + 2
          BY <1>1, <4>2 DEF Before
        <5> QED BY <3>1, <5>1
      <4> QED BY <2>3, <4>1, <4>2
    <3>7. j + 2 \in Q
      BY <3>4, <3>6 DEF PartsLeft
    <3>8. IsPart(rest, Q, j)
      BY <1>2, <2>1, <2>5, <3>4, <3>5, <3>7 DEF IsPart, NextPart
    <3>9. ValueAt(rest, j) = ValueAt(args, i)
      BY <1>2, <2>1, <2>5, <3>3, <3>4 DEF ValueAt, Detached
    <3> QED BY <3>8, <3>9 DEF i
  <2> QED BY <2>4, <2>5
<1> HIDE DEF Q
<1>8. Parts(rest, Q)
  <2>1. Q \in SUBSET (1..Len(rest) + 1) /\ 1 \in Q /\ Len(rest) + 1 \in Q
    BY <1>1, <1>2, <1>6
  <2>2. ASSUME NEW j \in 1..Len(rest)
        PROVE  /\ rest[j].dashes \in {0, 2}
               /\ IF j \in Q THEN IsPart(rest, Q, j) ELSE rest[j].dashes = 0
    <3>1. j \in 1..n - 1
      BY <1>2
    <3>2. Before(j, m) \in 1..n /\ rest[j] = args[Before(j, m)]
      BY <1>2, <1>3, <3>1
    <3>3. args[Before(j, m)].dashes \in {0, 2}
      BY <3>2 DEF Parts
    <3>4. j \notin Q => args[Before(j, m)].dashes = 0
      BY <1>5, <3>1, <3>2 DEF Parts
    <3> QED BY <1>7, <3>1, <3>2, <3>3, <3>4
  <2> QED BY <2>1, <2>2 DEF Parts
<1>9. ASSUME NEW j \in Q, j <= Len(rest)
      PROVE  /\ j \in 1..n - 1 /\ Before(j, m) \in P /\ Before(j, m) <= n
             /\ Before(j, m) # m /\ rest[j] = args[Before(j, m)]
  <2>1. j \in 1..n - 1
    BY <1>1, <1>2, <1>6, <1>9
  <2>2. Before(j, m) \in 1..n
    BY <1>3, <2>1
  <2> QED BY <1>1, <1>2, <1>3, <1>5, <2>1, <2>2
<1>10. ASSUME NEW i \in P, i <= n, i # m
       PROVE  \E j \in Q : j <= Len(rest) /\ Before(j, m) = i /\ rest[j] = args[i]
  <2>1. i \in 1..n
    BY <1>1, <1>10
  <2>2. PICK j \in 1..n - 1 : Before(j, m) = i
    BY <1>4, <1>10, <2>1
  <2> QED BY <1>1, <1>2, <1>5, <2>2
<1>11. \A j \in WordsOf(rest, Q) : Before(j, m) \in WordsOf(args, P) \ {m}
  BY <1>9 DEF WordsOf
<1>12. WordsOf(rest, Q) = {} => WordsOf(args, P) = {m}
  BY <1>10 DEF WordsOf
<1>13. \A j \in FlagsIn(rest, Q) :
         /\ Before(j, m) \in FlagsIn(args, P) /\ rest[j] = args[Before(j, m)]
         /\ ValueAt(rest, j) = ValueAt(args, Before(j, m))
  BY <1>7, <1>9 DEF FlagsIn
<1>14. \A i \in FlagsIn(args, P) : \E j \in FlagsIn(rest, Q) : Before(j, m) = i
  <2> SUFFICES ASSUME NEW i \in FlagsIn(args, P)
               PROVE  \E j \in FlagsIn(rest, Q) : Before(j, m) = i
    OBVIOUS
  <2>1. i \in P /\ i <= n /\ args[i].dashes # 0 /\ i # m
    BY <1>1 DEF FlagsIn
  <2>2. PICK j \in Q : j <= Len(rest) /\ Before(j, m) = i /\ rest[j] = args[i]
    BY <1>10, <2>1
  <2> QED BY <2>1, <2>2 DEF FlagsIn
<1> QED BY <1>8, <1>11, <1>12, <1>13, <1>14 DEF Q, rest

-------------------------------------------------------------------------------
(* What is no beginning of a part is the value of a flag.                   *)
Follows(args, P) ==
  \A i \in 1..Len(args) : i \notin P => i - 1 \in P /\ i > 1 /\ Detached(args[i - 1])

(* Arguments grow by one part.                                              *)
Grows(args, P, new, Q, words, flags, stops) ==
  /\ Len(new) \in Nat /\ Len(new) > Len(args)
  /\ \A i \in 1..Len(args) : new[i] = args[i]
  /\ Parts(new, Q) /\ Follows(new, Q)
  /\ words \cup flags \cup stops \subseteq Len(args) + 1..Len(new)
  /\ WordsOf(new, Q) = WordsOf(args, P) \cup words
  /\ FlagsIn(new, Q) = FlagsIn(args, P) \cup flags
  /\ Stops(new, Q) = Stops(args, P) \cup stops
  /\ \A j \in FlagsIn(args, P) : ValueAt(new, j) = ValueAt(args, j)

ByOne(S, args, P, e) ==
  LET n   == Len(args)
      new == Append(args, e)
      Q   == P \cup {n + 2}
  IN  /\ new \in Seq(S \cup {e}) /\ Len(new) = n + 1 /\ new[n + 1] = e
      /\ e.dashes = 0 => Grows(args, P, new, Q, {n + 1}, {}, {n + 1})
      /\ e.dashes = 2 => Grows(args, P, new, Q, {}, {n + 1}, {})

(* They grow by a word or by a flag and its value in one argument.          *)
LEMMA OneArgument ==
  ASSUME NEW S, NEW args \in Seq(S), NEW P, Parts(args, P), Follows(args, P),
         NEW e, e.dashes \in {0, 2}, ~Detached(e)
  PROVE  ByOne(S, args, P, e)
<1> DEFINE n == Len(args)
           new == Append(args, e)
           Q == P \cup {n + 2}
           word == IF e.dashes = 0 THEN {n + 1} ELSE {}
           flag == IF e.dashes = 0 THEN {} ELSE {n + 1}
<1>1. /\ n \in Nat /\ P \subseteq 1..n + 1 /\ 1 \in P /\ n + 1 \in P
  BY DEF Parts
<1>2. /\ new \in Seq(S \cup {e}) /\ Len(new) = n + 1 /\ new[n + 1] = e
      /\ \A i \in 1..n : new[i] = args[i]
  <2>1. args \in Seq(S \cup {e})
    OBVIOUS
  <2> QED BY <2>1
<1> HIDE DEF new, n
<1>3. \A i \in 1..n : /\ args[i].dashes \in {0, 2}
                      /\ i \in P => IsPart(args, P, i)
                      /\ i \notin P => args[i].dashes = 0
  BY DEF Parts, n
<1>4. ASSUME NEW i \in 1..n, i \in P PROVE IsPart(new, Q, i)
  <2>1. IsPart(args, P, i) /\ new[i] = args[i]
    BY <1>2, <1>3, <1>4
  <2>2. NextPart(new, i) \in Q
    BY <2>1 DEF IsPart, NextPart
  <2>3. Detached(new[i]) => i + 1 <= n + 1 /\ i + 1 \notin Q
    BY <1>1, <2>1 DEF IsPart, n
  <2> QED BY <1>2, <2>2, <2>3 DEF IsPart
<1>5. n + 1 \in Q /\ IsPart(new, Q, n + 1)
  BY <1>1, <1>2 DEF IsPart, NextPart
<1>6. Parts(new, Q)
  <2>1. Q \in SUBSET (1..n + 1 + 1) /\ 1 \in Q /\ n + 1 + 1 \in Q
    BY <1>1
  <2>2. ASSUME NEW i \in 1..n + 1
        PROVE  /\ new[i].dashes \in {0, 2}
               /\ IF i \in Q THEN IsPart(new, Q, i) ELSE new[i].dashes = 0
    <3>1. CASE i = n + 1
      BY <1>2, <1>5, <3>1
    <3>2. CASE i # n + 1
      <4>1. i \in 1..n /\ i # n + 2
        BY <1>1, <3>2
      <4> QED BY <1>2, <1>3, <1>4, <4>1
    <3> QED BY <3>1, <3>2
  <2> QED BY <1>2, <2>1, <2>2 DEF Parts
<1>7. Follows(new, Q)
  <2> SUFFICES ASSUME NEW i \in 1..n + 1, i \notin Q
               PROVE  i - 1 \in Q /\ i > 1 /\ Detached(new[i - 1])
    BY <1>2 DEF Follows
  <2>1. i \in 1..n /\ i \notin P
    BY <1>1
  <2>2. i - 1 \in P /\ i > 1 /\ Detached(args[i - 1])
    BY <2>1 DEF Follows, n
  <2>3. i - 1 \in 1..n
    BY <1>1, <2>1, <2>2
  <2> QED BY <1>2, <2>2, <2>3
<1>8. \A i \in Q : i <= n + 1 <=> (i \in P /\ i <= n) \/ i = n + 1
  BY <1>1
<1>9. WordsOf(new, Q) = WordsOf(args, P) \cup word
  <2>1. \A i : i \in WordsOf(new, Q) <=> i \in Q /\ i <= n + 1 /\ new[i].dashes = 0
    BY <1>2 DEF WordsOf
  <2>2. \A i : i \in WordsOf(args, P) <=> i \in P /\ i <= n /\ args[i].dashes = 0
    BY DEF WordsOf, n
  <2>3. \A i \in P : i <= n => i \in 1..n
    BY <1>1
  <2> QED BY <1>1, <1>2, <1>8, <2>1, <2>2, <2>3
<1>10. FlagsIn(new, Q) = FlagsIn(args, P) \cup flag
  <2>1. \A i : i \in FlagsIn(new, Q) <=> i \in Q /\ i <= n + 1 /\ new[i].dashes # 0
    BY <1>2 DEF FlagsIn
  <2>2. \A i : i \in FlagsIn(args, P) <=> i \in P /\ i <= n /\ args[i].dashes # 0
    BY DEF FlagsIn, n
  <2>3. \A i \in P : i <= n => i \in 1..n
    BY <1>1
  <2> QED BY <1>1, <1>2, <1>8, <2>1, <2>2, <2>3
<1>11. Stops(new, Q) = Stops(args, P) \cup word
  <2>1. ASSUME NEW i \in 1..n PROVE i \in Stops(new, Q) <=> i \in Stops(args, P)
    <3>1. \A j \in Q : i = j + 1 => j \in P /\ j \in 1..n
      BY <1>1
    <3>2. \A j \in P : i = j + 1 => j \in Q /\ j \in 1..n
      BY <1>1
    <3>3. i \in Stops(new, Q)
            <=> /\ new[i].dashes = 0
                /\ \A j \in Q : i = j + 1 => ~(IsConfig(new[j]) /\ new[j].joined = <<>>)
      <4>1. i \in 1..Len(new)
        BY <1>1, <1>2
      <4> HIDE DEF Q
      <4> QED BY <4>1, Zenon DEF Stops
    <3>4. i \in Stops(args, P)
            <=> /\ args[i].dashes = 0
                /\ \A j \in P : i = j + 1 => ~(IsConfig(args[j]) /\ args[j].joined = <<>>)
      BY DEF Stops, n
    <3> QED BY <1>2, <3>1, <3>2, <3>3, <3>4
  <2>2. n + 1 \in Stops(new, Q) <=> e.dashes = 0
    <3>1. ASSUME NEW j \in Q, n + 1 = j + 1
          PROVE  ~(IsConfig(new[j]) /\ new[j].joined = <<>>)
      <4>1. j = n /\ j \in 1..n /\ j \in P
        BY <1>1, <3>1
      <4>2. ~Detached(args[j])
        BY <1>1, <1>3, <4>1 DEF IsPart
      <4> QED BY <1>2, <4>1, <4>2 DEF Detached, IsConfig
    <3>2. n + 1 \in 1..n + 1
      BY <1>1
    <3> QED BY <1>2, <3>1, <3>2 DEF Stops
  <2>3. Stops(new, Q) \subseteq 1..n + 1 /\ Stops(args, P) \subseteq 1..n
    BY <1>2 DEF Stops, n
  <2>4. \A i \in 1..n + 1 : i \in 1..n \/ i = n + 1
    BY <1>1
  <2>5. n + 1 \notin 1..n
    BY <1>1
  <2> QED BY <2>1, <2>2, <2>3, <2>4, <2>5
<1>12. \A j \in FlagsIn(args, P) : ValueAt(new, j) = ValueAt(args, j)
  <2> SUFFICES ASSUME NEW j \in FlagsIn(args, P) PROVE ValueAt(new, j) = ValueAt(args, j)
    OBVIOUS
  <2>1. j \in P /\ j \in 1..n /\ args[j].dashes # 0
    BY <1>1 DEF FlagsIn, n
  <2>2. args[j].joined = <<>> => j + 1 \in 1..n
    BY <1>1, <1>3, <2>1 DEF IsPart, Detached, n
  <2> QED BY <1>2, <2>1, <2>2 DEF ValueAt
<1>13. word \cup flag \cup word \subseteq n + 1..n + 1
  BY <1>1
<1>14. Grows(args, P, new, Q, word, flag, word)
  <2>1. n + 1 \in Nat /\ n + 1 > n
    BY <1>1
  <2> HIDE DEF word, flag, Q
  <2> QED BY <1>2, <1>6, <1>7, <1>9, <1>10, <1>11, <1>12, <1>13, <2>1 DEF Grows, n
<1>15. /\ e.dashes = 0 => Grows(args, P, new, Q, {n + 1}, {}, {n + 1})
       /\ e.dashes = 2 => Grows(args, P, new, Q, {}, {n + 1}, {})
  <2>1. e.dashes = 0 => word = {n + 1} /\ flag = {}
    OBVIOUS
  <2>2. e.dashes = 2 => word = {} /\ flag = {n + 1}
    OBVIOUS
  <2> HIDE DEF word, flag, Q
  <2> QED BY <1>14, <2>1, <2>2
<1> QED BY <1>2, <1>15 DEF new, n, ByOne

ByTwo(S, args, P, e, v) ==
  LET n   == Len(args)
      new == args \o <<e, v>>
      Q   == P \cup {n + 3}
  IN  /\ new \in Seq(S \cup {e, v})
      /\ Len(new) = n + 2 /\ new[n + 1] = e /\ new[n + 2] = v
      /\ IsConfig(e) => Grows(args, P, new, Q, {}, {n + 1}, {})
      /\ ~IsConfig(e) => Grows(args, P, new, Q, {}, {n + 1}, {n + 2})

(* They grow by a flag and its value in the next argument: only --config   *)
(* keeps the search for the mode from stopping there.                      *)
LEMMA TwoArguments ==
  ASSUME NEW S, NEW args \in Seq(S), NEW P, Parts(args, P), Follows(args, P),
         NEW e, e.dashes = 2, Detached(e), NEW v, v.dashes = 0
  PROVE  ByTwo(S, args, P, e, v)
<1> DEFINE n == Len(args)
           new == args \o <<e, v>>
           Q == P \cup {n + 3}
           stop == IF IsConfig(e) THEN {} ELSE {n + 2}
<1>1. /\ n \in Nat /\ P \subseteq 1..n + 1 /\ 1 \in P /\ n + 1 \in P
  BY DEF Parts
<1>2. /\ new \in Seq(S \cup {e, v}) /\ Len(new) = n + 2 /\ new[n + 1] = e /\ new[n + 2] = v
      /\ \A i \in 1..n : new[i] = args[i]
  <2> DEFINE pair == <<e, v>>
  <2>1. args \in Seq(S \cup {e, v})
    OBVIOUS
  <2>2. pair \in Seq(S \cup {e, v}) /\ Len(pair) = 2 /\ pair[1] = e /\ pair[2] = v
    OBVIOUS
  <2> HIDE DEF pair
  <2>3. /\ args \o pair \in Seq(S \cup {e, v}) /\ Len(args \o pair) = Len(args) + Len(pair)
        /\ \A j \in 1..Len(args) + Len(pair) :
             (args \o pair)[j] = IF j <= Len(args) THEN args[j] ELSE pair[j - Len(args)]
    BY <2>1, <2>2, ConcatProperties
  <2>4. \A j \in 1..n + 2 : (args \o pair)[j] = IF j <= n THEN args[j] ELSE pair[j - n]
    BY <2>2, <2>3
  <2>5. (args \o pair)[n + 1] = pair[1] /\ (args \o pair)[n + 2] = pair[2]
    <3> DEFINE joint == args \o pair
    <3>1. ASSUME NEW j \in 1..n + 2, NEW d \in Int, j = n + d, d > 0 PROVE joint[j] = pair[d]
      <4>1. ~(j <= n) /\ j - n = d
        BY <1>1, <3>1
      <4> QED BY <2>4, <4>1
    <3>2. n + 1 \in 1..n + 2 /\ n + 2 \in 1..n + 2
      BY <1>1
    <3> HIDE DEF joint, n
    <3>3. joint[n + 1] = pair[1] /\ joint[n + 2] = pair[2]
      BY <3>1, <3>2
    <3> QED BY <3>3 DEF joint
  <2>6. \A i \in 1..n : (args \o pair)[i] = args[i]
    BY <1>1, <2>4
  <2> QED BY <2>2, <2>3, <2>5, <2>6 DEF pair
<1> HIDE DEF new, n
<1>3. \A i \in 1..n : /\ args[i].dashes \in {0, 2}
                      /\ i \in P => IsPart(args, P, i)
                      /\ i \notin P => args[i].dashes = 0
  BY DEF Parts, n
<1>4. ASSUME NEW i \in 1..n, i \in P PROVE IsPart(new, Q, i)
  <2>1. IsPart(args, P, i) /\ new[i] = args[i]
    BY <1>2, <1>3, <1>4
  <2>2. NextPart(new, i) \in Q
    BY <2>1 DEF IsPart, NextPart
  <2>3. Detached(new[i]) => i + 1 <= n + 2 /\ i + 1 \notin Q
    BY <1>1, <2>1 DEF IsPart, n
  <2> QED BY <1>2, <2>2, <2>3 DEF IsPart
<1>5. n + 1 \in Q /\ IsPart(new, Q, n + 1)
  BY <1>1, <1>2 DEF IsPart, NextPart
<1>6. Parts(new, Q)
  <2>1. Q \in SUBSET (1..n + 2 + 1) /\ 1 \in Q /\ n + 2 + 1 \in Q
    BY <1>1
  <2>2. ASSUME NEW i \in 1..n + 2
        PROVE  /\ new[i].dashes \in {0, 2}
               /\ IF i \in Q THEN IsPart(new, Q, i) ELSE new[i].dashes = 0
    <3>1. CASE i = n + 1
      BY <1>2, <1>5, <3>1
    <3>2. CASE i = n + 2
      <4>1. i \notin Q
        BY <1>1, <3>2
      <4> QED BY <1>2, <3>2, <4>1
    <3>3. CASE i # n + 1 /\ i # n + 2
      <4>1. i \in 1..n /\ i # n + 3
        BY <1>1, <3>3
      <4> QED BY <1>2, <1>3, <1>4, <4>1
    <3> QED BY <3>1, <3>2, <3>3
  <2> QED BY <1>2, <2>1, <2>2 DEF Parts
<1>7. Follows(new, Q)
  <2> SUFFICES ASSUME NEW i \in 1..n + 2, i \notin Q
               PROVE  i - 1 \in Q /\ i > 1 /\ Detached(new[i - 1])
    BY <1>2 DEF Follows
  <2>1. CASE i = n + 2
    <3>1. i - 1 = n + 1 /\ i > 1
      BY <1>1, <2>1
    <3> QED BY <1>2, <1>5, <3>1
  <2>2. CASE i # n + 2
    <3>1. i \in 1..n /\ i \notin P
      BY <1>1, <2>2
    <3>2. i - 1 \in P /\ i > 1 /\ Detached(args[i - 1])
      BY <3>1 DEF Follows, n
    <3>3. i - 1 \in 1..n
      BY <1>1, <3>1, <3>2
    <3> QED BY <1>2, <3>2, <3>3
  <2> QED BY <2>1, <2>2
<1>8. \A i \in Q : i <= n + 2 <=> (i \in P /\ i <= n) \/ i = n + 1
  BY <1>1
<1>9. WordsOf(new, Q) = WordsOf(args, P) \cup {}
  <2>1. \A i : i \in WordsOf(new, Q) <=> i \in Q /\ i <= n + 2 /\ new[i].dashes = 0
    BY <1>2 DEF WordsOf
  <2>2. \A i : i \in WordsOf(args, P) <=> i \in P /\ i <= n /\ args[i].dashes = 0
    BY DEF WordsOf, n
  <2>3. \A i \in P : i <= n => i \in 1..n /\ i \in Q
    BY <1>1
  <2> HIDE DEF Q
  <2>4. \A i : i \in WordsOf(new, Q) <=> i \in WordsOf(args, P)
    BY <1>2, <1>5, <1>8, <2>1, <2>2, <2>3
  <2> QED BY <2>4
<1>10. FlagsIn(new, Q) = FlagsIn(args, P) \cup {n + 1}
  <2>1. \A i : i \in FlagsIn(new, Q) <=> i \in Q /\ i <= n + 2 /\ new[i].dashes # 0
    BY <1>2 DEF FlagsIn
  <2>2. \A i : i \in FlagsIn(args, P) <=> i \in P /\ i <= n /\ args[i].dashes # 0
    BY DEF FlagsIn, n
  <2>3. \A i \in P : i <= n => i \in 1..n /\ i \in Q
    BY <1>1
  <2>4. new[n + 1].dashes # 0 /\ n + 1 <= n + 2
    BY <1>1, <1>2
  <2> HIDE DEF Q
  <2>5. \A i : i \in FlagsIn(new, Q) <=> i \in FlagsIn(args, P) \/ i = n + 1
    BY <1>2, <1>5, <1>8, <2>1, <2>2, <2>3, <2>4
  <2> QED BY <2>5
<1>11. Stops(new, Q) = Stops(args, P) \cup stop
  <2>1. ASSUME NEW i \in 1..n PROVE i \in Stops(new, Q) <=> i \in Stops(args, P)
    <3>1. \A j \in Q : i = j + 1 => j \in P /\ j \in 1..n
      BY <1>1
    <3>2. \A j \in P : i = j + 1 => j \in Q /\ j \in 1..n
      BY <1>1
    <3>3. i \in Stops(new, Q)
            <=> /\ new[i].dashes = 0
                /\ \A j \in Q : i = j + 1 => ~(IsConfig(new[j]) /\ new[j].joined = <<>>)
      <4>1. i \in 1..Len(new)
        BY <1>1, <1>2
      <4> HIDE DEF Q
      <4> QED BY <4>1, Zenon DEF Stops
    <3>4. i \in Stops(args, P)
            <=> /\ args[i].dashes = 0
                /\ \A j \in P : i = j + 1 => ~(IsConfig(args[j]) /\ args[j].joined = <<>>)
      BY DEF Stops, n
    <3> QED BY <1>2, <3>1, <3>2, <3>3, <3>4
  <2>2. n + 1 \notin Stops(new, Q)
    BY <1>1, <1>2 DEF Stops
  <2>3. n + 2 \in Stops(new, Q) <=> ~IsConfig(e)
    <3>1. \A j \in Q : n + 2 = j + 1 <=> j = n + 1
      BY <1>1
    <3>2. n + 2 \in 1..Len(new)
      BY <1>1, <1>2
    <3>3. new[n + 1].joined = <<>> /\ n + 1 \in Q
      BY <1>2, <1>5 DEF Detached
    <3> HIDE DEF Q
    <3> QED BY <1>2, <3>1, <3>2, <3>3 DEF Stops
  <2>4. Stops(new, Q) \subseteq 1..n + 2 /\ Stops(args, P) \subseteq 1..n
    BY <1>2 DEF Stops, n
  <2>5. \A i \in 1..n + 2 : i \in 1..n \/ i = n + 1 \/ i = n + 2
    BY <1>1
  <2>6. n + 1 \notin 1..n /\ n + 2 \notin 1..n
    BY <1>1
  <2> HIDE DEF Q
  <2> QED BY <2>1, <2>2, <2>3, <2>4, <2>5, <2>6
<1>12. \A j \in FlagsIn(args, P) : ValueAt(new, j) = ValueAt(args, j)
  <2> SUFFICES ASSUME NEW j \in FlagsIn(args, P) PROVE ValueAt(new, j) = ValueAt(args, j)
    OBVIOUS
  <2>1. j \in P /\ j \in 1..n /\ args[j].dashes # 0
    BY <1>1 DEF FlagsIn, n
  <2>2. args[j].joined = <<>> => j + 1 \in 1..n
    BY <1>1, <1>3, <2>1 DEF IsPart, Detached, n
  <2> QED BY <1>2, <2>1, <2>2 DEF ValueAt
<1>13. {} \cup {n + 1} \cup stop \subseteq n + 1..n + 2
  BY <1>1
<1>14. Grows(args, P, new, Q, {}, {n + 1}, stop)
  <2>1. n + 2 \in Nat /\ n + 2 > n
    BY <1>1
  <2> HIDE DEF stop, Q
  <2> QED BY <1>2, <1>6, <1>7, <1>9, <1>10, <1>11, <1>12, <1>13, <2>1 DEF Grows, n
<1>15. /\ IsConfig(e) => Grows(args, P, new, Q, {}, {n + 1}, {})
       /\ ~IsConfig(e) => Grows(args, P, new, Q, {}, {n + 1}, {n + 2})
  <2>1. IsConfig(e) => stop = {}
    OBVIOUS
  <2>2. ~IsConfig(e) => stop = {n + 2}
    OBVIOUS
  <2> HIDE DEF stop, Q
  <2> QED BY <1>14, <2>1, <2>2
<1> QED BY <1>2, <1>15 DEF new, n, ByTwo

-------------------------------------------------------------------------------
(* What is meant by a draft: each flag is given once and has its value, the  *)
(* mode is the only word that is one, and the other words are extra.         *)
Draft(args, m, vals, ex, P) ==
  /\ Parts(args, P) /\ Follows(args, P)
  /\ IsValues(vals, args, FlagsIn(args, P))
  /\ \A i, j \in FlagsIn(args, P) : args[i].name = args[j].name => i = j
  /\ \A i \in FlagsIn(args, P) : args[i].joined \in {<<>>, <<ValueAt(args, i)>>}
  /\ m # <<>> => \E w \in WordsOf(args, P) : args[w].name \in Modes /\ m = <<args[w].name>>
  /\ \A w \in WordsOf(args, P) : args[w].name \in Modes => m = <<args[w].name>>
  /\ \A w, x \in WordsOf(args, P) :
       args[w].name \in Modes /\ args[x].name \in Modes => w = x
  /\ ex <=> \E w \in WordsOf(args, P) : args[w].name \notin Modes

(* The search for the mode stops at the mode, if one is meant.               *)
AsDocumented(args, m, ex, P) ==
  \E k : /\ FirstStop(args, P, k)
         /\ k <= Len(args) => IF args[k].name \in Modes THEN k \in WordsOf(args, P)
                              ELSE m # <<>> => ex

NoWordIn(args) ==
  \A i \in DOMAIN args : args[i].dashes = 0 =>
    i > 1 /\ args[i - 1].name = "config" /\ args[i - 1].joined = <<>>

(* A word that is no value stops the search.                                 *)
LEMMA WordsStop ==
  ASSUME NEW args, Len(args) \in Nat, NEW P, Parts(args, P)
  PROVE  WordsOf(args, P) \subseteq Stops(args, P)
<1> SUFFICES ASSUME NEW m \in WordsOf(args, P) PROVE m \in Stops(args, P)
  OBVIOUS
<1>1. m \in P /\ m \in 1..Len(args) /\ args[m].dashes = 0
  BY DEF WordsOf, Parts
<1>2. ASSUME NEW j \in P, m = j + 1, IsConfig(args[j]), args[j].joined = <<>>
      PROVE  FALSE
  <2>1. j \in 1..Len(args)
    BY <1>1, <1>2 DEF Parts
  <2>2. IsPart(args, P, j)
    BY <2>1 DEF Parts
  <2> QED BY <1>1, <1>2, <2>2 DEF IsPart, Detached, IsConfig
<1> QED BY <1>1, <1>2 DEF Stops

(* Where there is no stop there is no word yet; and if there is none and     *)
(* the search stops all the same, then at a word.                            *)
LEMMA FirstWord ==
  ASSUME NEW args, Len(args) \in Nat, DOMAIN args = 1..Len(args),
         NEW P, Parts(args, P), Follows(args, P)
  PROVE  /\ Stops(args, P) = {} => NoWordIn(args)
         /\ NoWordIn(args) => Stops(args, P) \subseteq WordsOf(args, P)
<1>1. ASSUME Stops(args, P) = {} PROVE NoWordIn(args)
  <2> SUFFICES ASSUME NEW i \in 1..Len(args), args[i].dashes = 0
               PROVE  i > 1 /\ args[i - 1].name = "config" /\ args[i - 1].joined = <<>>
    BY DEF NoWordIn
  <2>1. PICK j \in P : i = j + 1 /\ IsConfig(args[j]) /\ args[j].joined = <<>>
    BY <1>1 DEF Stops
  <2>2. j \in 1..Len(args) + 1
    BY DEF Parts
  <2>3. i - 1 = j /\ i > 1
    BY <2>1, <2>2
  <2> QED BY <2>1, <2>3 DEF IsConfig
<1>2. ASSUME NoWordIn(args), NEW k \in Stops(args, P) PROVE k \in WordsOf(args, P)
  <2>1. k \in 1..Len(args) /\ args[k].dashes = 0
    BY DEF Stops
  <2>2. k > 1 /\ args[k - 1].name = "config" /\ args[k - 1].joined = <<>>
    BY <1>2, <2>1 DEF NoWordIn
  <2>3. k \in P
    <3> SUFFICES ASSUME k \notin P PROVE FALSE
      OBVIOUS
    <3>1. k - 1 \in P /\ Detached(args[k - 1])
      BY <2>1 DEF Follows
    <3>2. k - 1 \in 1..Len(args)
      BY <2>1, <2>2
    <3>3. args[k - 1].dashes = 2
      BY <3>1, <3>2 DEF Parts, Detached
    <3>4. k = (k - 1) + 1
      BY <2>1
    <3> QED BY <2>2, <3>1, <3>3, <3>4 DEF Stops, IsConfig
  <2> QED BY <2>1, <2>3 DEF WordsOf
<1> QED BY <1>1, <1>2

(* What Grows keeps, position by position                                    *)
LEMMA GrownStops ==
  ASSUME NEW args, NEW P, NEW new, NEW Q, NEW words, NEW flags, NEW stops,
         Len(args) \in Nat, Grows(args, P, new, Q, words, flags, stops)
  PROVE  /\ \A k : FirstStop(args, P, k) /\ k <= Len(args) => FirstStop(new, Q, k)
         /\ Stops(args, P) = {} /\ stops = {} => FirstStop(new, Q, Len(new) + 1)
         /\ \A k : Stops(args, P) = {} /\ stops = {k} => FirstStop(new, Q, k)
<1> DEFINE n == Len(args)
<1>1. /\ n \in Nat /\ Len(new) \in Nat /\ Len(new) > n
      /\ stops \subseteq n + 1..Len(new) /\ Stops(new, Q) = Stops(args, P) \cup stops
      /\ Stops(args, P) \subseteq 1..n
  BY DEF Grows, Stops
<1>2. ASSUME NEW k, FirstStop(args, P, k), k <= n PROVE FirstStop(new, Q, k)
  <2>1. k \in Stops(args, P) /\ k \in 1..n
    BY <1>1, <1>2 DEF FirstStop
  <2>2. \A i \in stops : k <= i
    BY <1>1, <2>1
  <2> QED BY <1>1, <1>2, <2>1, <2>2 DEF FirstStop
<1>3. ASSUME Stops(args, P) = {}, stops = {} PROVE FirstStop(new, Q, Len(new) + 1)
  BY <1>1, <1>3 DEF FirstStop
<1>4. ASSUME NEW k, Stops(args, P) = {}, stops = {k} PROVE FirstStop(new, Q, k)
  <2>1. k <= k /\ Stops(new, Q) = {k}
    BY <1>1, <1>4
  <2> QED BY <2>1 DEF FirstStop
<1> QED BY <1>2, <1>3, <1>4

WithWord(args, m, vals, ex, P, w) ==
  LET new == Append(args, Word(w))
      m2  == IF w \in Modes THEN <<w>> ELSE m
      ex2 == ex \/ w \notin Modes
      Q   == P \cup {Len(args) + 2}
  IN  /\ Draft(new, m2, vals, ex2, Q)
      /\ AsDocumented(args, m, ex, P) /\ (w \in Modes => NoWordIn(args))
           => AsDocumented(new, m2, ex2, Q)

(* A word more: a mode, if none was meant so far, or an extra word.          *)
LEMMA OneMoreWord ==
  ASSUME NEW S, NEW args \in Seq(S), NEW m, NEW vals, NEW ex \in BOOLEAN, NEW P,
         Draft(args, m, vals, ex, P), NEW w, w \in Modes => m = <<>>
  PROVE  WithWord(args, m, vals, ex, P, w)
<1> DEFINE n   == Len(args)
           e   == Word(w)
           new == Append(args, e)
           m2  == IF w \in Modes THEN <<w>> ELSE m
           ex2 == ex \/ w \notin Modes
           Q   == P \cup {n + 2}
<1>1. n \in Nat /\ DOMAIN args = 1..n /\ Parts(args, P) /\ Follows(args, P)
  BY DEF Draft
<1>2. e.dashes = 0 /\ ~Detached(e) /\ e.name = w
  BY DEF Word, Detached
<1> HIDE DEF e
<1>3. /\ Len(new) = n + 1 /\ new[n + 1] = e
      /\ Grows(args, P, new, Q, {n + 1}, {}, {n + 1})
  <2>1. e.dashes \in {0, 2}
    BY <1>2
  <2>2. ByOne(S, args, P, e)
    BY <1>1, <1>2, <2>1, OneArgument
  <2> QED BY <1>2, <2>2 DEF ByOne
<1> HIDE DEF new, Q
<1>4. /\ \A i \in 1..n : new[i] = args[i]
      /\ Parts(new, Q) /\ Follows(new, Q)
      /\ WordsOf(new, Q) = WordsOf(args, P) \cup {n + 1}
      /\ FlagsIn(new, Q) = FlagsIn(args, P)
      /\ Stops(new, Q) = Stops(args, P) \cup {n + 1}
      /\ \A j \in FlagsIn(args, P) : ValueAt(new, j) = ValueAt(args, j)
  BY <1>3 DEF Grows
<1>5. /\ \A i \in WordsOf(args, P) : i \in 1..n /\ new[i] = args[i]
      /\ \A i \in FlagsIn(args, P) : i \in 1..n /\ new[i] = args[i]
      /\ new[n + 1].name = w
  BY <1>1, <1>2, <1>3, <1>4 DEF WordsOf, FlagsIn, Parts
<1>6. IsValues(vals, new, FlagsIn(new, Q))
  <2>1. IsValues(vals, args, FlagsIn(args, P))
    BY DEF Draft
  <2> QED BY <1>4, <1>5, <2>1 DEF IsValues
<1>7. \A i, j \in FlagsIn(new, Q) : new[i].name = new[j].name => i = j
  BY <1>4, <1>5 DEF Draft
<1>8. /\ m2 # <<>> => \E x \in WordsOf(new, Q) : new[x].name \in Modes /\ m2 = <<new[x].name>>
      /\ \A x \in WordsOf(new, Q) : new[x].name \in Modes => m2 = <<new[x].name>>
      /\ \A x, y \in WordsOf(new, Q) :
           new[x].name \in Modes /\ new[y].name \in Modes => x = y
  <2>1. CASE w \in Modes
    <3>1. \A x \in WordsOf(args, P) : args[x].name \notin Modes
      BY <2>1 DEF Draft
    <3> QED BY <1>4, <1>5, <2>1, <3>1
  <2>2. CASE w \notin Modes
    <3>1. /\ m # <<>> => \E x \in WordsOf(args, P) : args[x].name \in Modes /\ m = <<args[x].name>>
          /\ \A x \in WordsOf(args, P) : args[x].name \in Modes => m = <<args[x].name>>
          /\ \A x, y \in WordsOf(args, P) :
               args[x].name \in Modes /\ args[y].name \in Modes => x = y
      BY DEF Draft
    <3> QED BY <1>4, <1>5, <2>2, <3>1
  <2> QED BY <2>1, <2>2
<1>9. ex2 <=> \E x \in WordsOf(new, Q) : new[x].name \notin Modes
  <2>1. ex <=> \E x \in WordsOf(args, P) : args[x].name \notin Modes
    BY DEF Draft
  <2> QED BY <1>4, <1>5, <2>1
<1>10. Draft(new, m2, vals, ex2, Q)
  <2>1. \A i \in FlagsIn(new, Q) : new[i].joined \in {<<>>, <<ValueAt(new, i)>>}
    BY <1>4, <1>5 DEF Draft
  <2> HIDE DEF m2, ex2
  <2> QED BY <1>4, <1>6, <1>7, <1>8, <1>9, <2>1 DEF Draft
<1>11. ASSUME AsDocumented(args, m, ex, P), w \in Modes => NoWordIn(args)
       PROVE  AsDocumented(new, m2, ex2, Q)
  <2>1. PICK k : /\ FirstStop(args, P, k)
                 /\ k <= n => IF args[k].name \in Modes THEN k \in WordsOf(args, P)
                              ELSE m # <<>> => ex
    BY <1>11 DEF AsDocumented
  <2>2. k \in 1..n + 1 /\ Stops(args, P) \subseteq 1..n
    BY <1>1, <2>1 DEF FirstStop, Stops
  <2>3. CASE k <= n
    <3>1. FirstStop(new, Q, k) /\ k \in Stops(args, P) /\ new[k] = args[k] /\ k \in 1..n
      BY <1>1, <1>3, <1>4, <2>1, <2>2, <2>3, GrownStops DEF FirstStop
    <3>2. CASE args[k].name \in Modes
      BY <1>4, <2>1, <2>3, <3>1, <3>2 DEF AsDocumented
    <3>3. CASE args[k].name \notin Modes
      <4>1. m2 # <<>> => ex2
        <5>1. CASE w \notin Modes
          BY <5>1
        <5>2. CASE w \in Modes
          <6>1. k \in WordsOf(args, P)
            BY <1>1, <1>11, <3>1, <5>2, FirstWord
          <6> QED BY <3>3, <6>1 DEF Draft
        <5> QED BY <5>1, <5>2
      <4> QED BY <3>1, <3>3, <4>1 DEF AsDocumented
    <3> QED BY <3>2, <3>3
  <2>4. CASE k = n + 1
    <3>1. Stops(args, P) = {}
      <4>1. \A i \in Stops(args, P) : i \in 1..n /\ n + 1 <= i
        BY <2>1, <2>2, <2>4 DEF FirstStop
      <4> QED BY <1>1, <4>1
    <3>2. FirstStop(new, Q, n + 1)
      BY <1>1, <1>3, <3>1, GrownStops
    <3>3. n + 1 \in WordsOf(new, Q)
      BY <1>4
    <3>4. w \notin Modes => ex2
      OBVIOUS
    <3> HIDE DEF m2, ex2
    <3> QED BY <1>5, <3>2, <3>3, <3>4 DEF AsDocumented
  <2> QED BY <2>2, <2>3, <2>4
<1>12. AsDocumented(args, m, ex, P) /\ (w \in Modes => NoWordIn(args))
         => AsDocumented(new, m2, ex2, Q)
  BY <1>11, Zenon
<1> QED BY <1>10, <1>12, Zenon DEF new, Q, e, WithWord

(* A new stop is not taken for the mode, unless there was a word before.     *)
NotAMode(args, m, new, stops, k) ==
  stops # {} => (new[k].name \in Modes /\ NoWordIn(args) => m # <<>>)

WithFlag(args, m, vals, ex, P, new, Q, stops, f, k) ==
  /\ Draft(new, m, Give(vals, f, ValueAt(new, Len(args) + 1)), ex, Q)
  /\ AsDocumented(args, m, ex, P) /\ NotAMode(args, m, new, stops, k)
       => AsDocumented(new, m, ex, Q)

(* A flag more, with its value behind it or joined                           *)
LEMMA OneMoreFlag ==
  ASSUME NEW args, Len(args) \in Nat, DOMAIN args = 1..Len(args),
         NEW m, NEW vals, NEW ex \in BOOLEAN, NEW P, Draft(args, m, vals, ex, P),
         NEW new, NEW Q, NEW stops, Grows(args, P, new, Q, {}, {Len(args) + 1}, stops),
         NEW f, new[Len(args) + 1].name = f, f \notin DOMAIN vals,
         new[Len(args) + 1].joined \in {<<>>, <<ValueAt(new, Len(args) + 1)>>},
         NEW k2 \in Nat, stops \subseteq {k2}
  PROVE  WithFlag(args, m, vals, ex, P, new, Q, stops, f, k2)
<1> DEFINE n == Len(args)
<1>1. n \in Nat /\ DOMAIN args = 1..n /\ Parts(args, P) /\ Follows(args, P)
  BY DEF Draft
<1>2. /\ \A i \in 1..n : new[i] = args[i]
      /\ Len(new) \in Nat /\ Len(new) > n
      /\ Parts(new, Q) /\ Follows(new, Q)
      /\ WordsOf(new, Q) = WordsOf(args, P)
      /\ FlagsIn(new, Q) = FlagsIn(args, P) \cup {n + 1}
      /\ Stops(new, Q) = Stops(args, P) \cup stops
      /\ \A j \in FlagsIn(args, P) : ValueAt(new, j) = ValueAt(args, j)
  BY DEF Grows
<1>3. /\ \A i \in WordsOf(args, P) : i \in 1..n /\ new[i] = args[i]
      /\ \A i \in FlagsIn(args, P) : i \in 1..n /\ new[i] = args[i]
  BY <1>1, <1>2 DEF WordsOf, FlagsIn, Parts
<1>4. /\ IsValues(vals, args, FlagsIn(args, P))
      /\ \A i, j \in FlagsIn(args, P) : args[i].name = args[j].name => i = j
  BY DEF Draft
<1>5. IsValues(vals, new, FlagsIn(args, P))
  BY <1>2, <1>3, <1>4 DEF IsValues
<1>6. \A j \in FlagsIn(args, P) : new[j].name # new[n + 1].name
  BY <1>3, <1>4 DEF IsValues
<1>7. IsValues(Give(vals, f, ValueAt(new, n + 1)), new, FlagsIn(new, Q))
  <2>1. IsValues(Give(vals, new[n + 1].name, ValueAt(new, n + 1)), new,
                 FlagsIn(args, P) \cup {n + 1})
    <3> HIDE DEF n
    <3> QED BY <1>5, <1>6, OneMoreValue
  <2> QED BY <1>2, <2>1
<1>8. \A i, j \in FlagsIn(new, Q) : new[i].name = new[j].name => i = j
  BY <1>2, <1>3, <1>4, <1>6
<1>9. /\ m # <<>> => \E x \in WordsOf(new, Q) : new[x].name \in Modes /\ m = <<new[x].name>>
      /\ \A x \in WordsOf(new, Q) : new[x].name \in Modes => m = <<new[x].name>>
      /\ \A x, y \in WordsOf(new, Q) :
           new[x].name \in Modes /\ new[y].name \in Modes => x = y
      /\ ex <=> \E x \in WordsOf(new, Q) : new[x].name \notin Modes
  BY <1>2, <1>3 DEF Draft
<1>10. Draft(new, m, Give(vals, f, ValueAt(new, n + 1)), ex, Q)
  <2>1. \A i \in FlagsIn(new, Q) : new[i].joined \in {<<>>, <<ValueAt(new, i)>>}
    BY <1>2, <1>3 DEF Draft
  <2> QED BY <1>2, <1>7, <1>8, <1>9, <2>1 DEF Draft
<1>11. ASSUME AsDocumented(args, m, ex, P), NotAMode(args, m, new, stops, k2)
       PROVE  AsDocumented(new, m, ex, Q)
  <2>1. PICK k : /\ FirstStop(args, P, k)
                 /\ k <= n => IF args[k].name \in Modes THEN k \in WordsOf(args, P)
                              ELSE m # <<>> => ex
    BY <1>11 DEF AsDocumented
  <2>2. k \in 1..n + 1 /\ Stops(args, P) \subseteq 1..n
    BY <1>1, <2>1 DEF FirstStop, Stops
  <2>3. CASE k <= n
    <3>1. FirstStop(new, Q, k) /\ new[k] = args[k]
      BY <1>1, <1>2, <2>1, <2>2, <2>3, GrownStops
    <3> QED BY <1>2, <2>1, <2>3, <3>1 DEF AsDocumented
  <2>4. CASE k = n + 1
    <3>1. Stops(args, P) = {}
      <4>1. \A i \in Stops(args, P) : i \in 1..n /\ n + 1 <= i
        BY <2>1, <2>2, <2>4 DEF FirstStop
      <4> QED BY <1>1, <4>1
    <3>2. WordsOf(args, P) = {} /\ NoWordIn(args)
      BY <1>1, <3>1, WordsStop, FirstWord
    <3>3. m = <<>>
      BY <3>2 DEF Draft
    <3>4. CASE stops = {}
      <4>1. FirstStop(new, Q, Len(new) + 1) /\ ~(Len(new) + 1 <= Len(new))
        BY <1>1, <1>2, <3>1, <3>4, GrownStops
      <4> QED BY <4>1 DEF AsDocumented
    <3>5. CASE stops = {k2}
      <4>1. FirstStop(new, Q, k2)
        BY <1>1, <3>1, <3>5, GrownStops
      <4>2. new[k2].name \notin Modes
        BY <1>11, <3>2, <3>3, <3>5 DEF NotAMode
      <4> QED BY <3>3, <4>1, <4>2 DEF AsDocumented
    <3> QED BY <3>4, <3>5
  <2> QED BY <2>2, <2>3, <2>4
<1> QED BY <1>10, <1>11 DEF WithFlag

-------------------------------------------------------------------------------
(* The invariant of the drafts: some partition of the line bears out what    *)
(* is recorded. It is claimed of lines whose flags are written with two      *)
(* dashes; the ordered drafts always are. What is started could be read.     *)
LineMeant ==
  \E A, P : /\ line \in Seq(A) /\ Draft(line, mode, values, extra, P)
            /\ documented => AsDocumented(line, mode, extra, P)

PingInductive ==
  /\ extra \in BOOLEAN /\ documented \in BOOLEAN
  /\ ordered => documented
  /\ ordered \/ Dashes = {2} => LineMeant
  /\ world # <<>> => /\ ordered /\ Read(line).understood
                     /\ {"model", "prompt"} \subseteq DOMAIN values

(* Nothing is written yet.                                                   *)
LEMMA InitMeant == Init => PingInductive
<1> SUFFICES ASSUME Init PROVE PingInductive
  OBVIOUS
<1>1. /\ line = <<>> /\ mode = <<>> /\ values = <<>> /\ extra = FALSE
      /\ documented = TRUE /\ world = <<>>
  BY DEF Init
<1>2. Parts(<<>>, {1}) /\ Follows(<<>>, {1})
  BY DEF Parts, Follows
<1>3. FlagsIn(<<>>, {1}) = {} /\ WordsOf(<<>>, {1}) = {} /\ Stops(<<>>, {1}) = {}
  BY DEF FlagsIn, WordsOf, Stops
<1>4. IsValues(<<>>, <<>>, {})
  BY DEF IsValues
<1>5. Draft(<<>>, <<>>, <<>>, FALSE, {1})
  BY <1>2, <1>3, <1>4 DEF Draft
<1>6. AsDocumented(<<>>, <<>>, FALSE, {1})
  <2>1. FirstStop(<<>>, {1}, 1) /\ ~(1 <= Len(<<>>))
    BY <1>3 DEF FirstStop
  <2> QED BY <2>1 DEF AsDocumented
<1>7. <<>> \in Seq({})
  OBVIOUS
<1>8. LineMeant
  BY <1>1, <1>5, <1>6, <1>7 DEF LineMeant
<1> QED BY <1>1, <1>8 DEF PingInductive

(* ping.go:64-66 and the flag package: a flag and its value                  *)
LEMMA WriteFlagMeant ==
  ASSUME LineMeant, extra \in BOOLEAN, documented \in BOOLEAN,
         NEW f, NEW v, NEW joined, WriteFlag(2, f, v, joined)
  PROVE  LineMeant'
<1>1. PICK A, P : /\ line \in Seq(A) /\ Draft(line, mode, values, extra, P)
                  /\ documented => AsDocumented(line, mode, extra, P)
  BY DEF LineMeant
<1>2. /\ Len(line) \in Nat /\ DOMAIN line = 1..Len(line)
      /\ Parts(line, P) /\ Follows(line, P) /\ f \notin DOMAIN values
      /\ values' = Give(values, f, Word(v)) /\ mode' = mode /\ extra' = extra
  BY <1>1 DEF Draft, WriteFlag
<1> DEFINE n == Len(line)
<1>3. CASE joined
  <2> DEFINE e == Joined(2, f, Word(v))
             Q == P \cup {n + 2}
  <2>1. line' = Append(line, e) /\ documented' = documented
    BY <1>3 DEF WriteFlag
  <2>2. /\ e.dashes = 2 /\ e.dashes \in {0, 2} /\ ~Detached(e)
        /\ e.name = f /\ e.joined = <<Word(v)>> /\ e.joined # <<>> /\ e.joined[1] = Word(v)
    BY DEF Joined, Detached
  <2> HIDE DEF e
  <2>3. ByOne(A, line, P, e)
    BY <1>1, <1>2, <2>2, OneArgument
  <2>4. /\ line' \in Seq(A \cup {e}) /\ line'[n + 1] = e
        /\ Grows(line, P, line', Q, {}, {n + 1}, {})
    BY <2>1, <2>2, <2>3 DEF ByOne
  <2>5. /\ ValueAt(line', n + 1) = Word(v) /\ line'[n + 1].name = f
        /\ line'[n + 1].joined \in {<<>>, <<ValueAt(line', n + 1)>>}
    BY <2>2, <2>4 DEF ValueAt
  <2>6. /\ Draft(line', mode, values', extra, Q)
        /\ AsDocumented(line, mode, extra, P) => AsDocumented(line', mode, extra, Q)
    <3> HIDE DEF Q
    <3>1. NotAMode(line, mode, line', {}, 0)
      BY DEF NotAMode
    <3>2. {} \subseteq {0} /\ 0 \in Nat
      OBVIOUS
    <3>3. WithFlag(line, mode, values, extra, P, line', Q, {}, f, 0)
      BY <1>1, <1>2, <2>4, <2>5, <3>2, OneMoreFlag, Zenon
    <3> QED BY <1>2, <2>5, <3>1, <3>3 DEF WithFlag
  <2> QED BY <1>1, <1>2, <2>1, <2>4, <2>6 DEF LineMeant
<1>4. CASE ~joined
  <2> DEFINE e == Flag(2, f)
             w == Word(v)
             Q == P \cup {n + 3}
             stops == IF IsConfig(e) THEN {} ELSE {n + 2}
  <2>1. /\ line' = line \o <<e, w>>
        /\ documented' = /\ documented
                         /\ v \in Modes /\ f # "config" /\ NoWordIn(line) => mode # <<>>
    BY <1>4 DEF WriteFlag, NoWordYet, NoWordIn
  <2>2. /\ e.dashes = 2 /\ Detached(e) /\ e.name = f /\ e.joined = <<>>
        /\ w.dashes = 0 /\ w.name = v /\ (IsConfig(e) <=> f = "config")
    BY DEF Flag, Word, Detached, IsConfig
  <2> HIDE DEF e
  <2>3. w = Word(v)
    OBVIOUS
  <2> HIDE DEF w
  <2>4. ByTwo(A, line, P, e, w)
    BY <1>1, <1>2, <2>2, TwoArguments
  <2>5. /\ line' \in Seq(A \cup {e, w}) /\ line'[n + 1] = e /\ line'[n + 2] = w
        /\ IsConfig(e) => Grows(line, P, line', Q, {}, {n + 1}, {})
        /\ ~IsConfig(e) => Grows(line, P, line', Q, {}, {n + 1}, {n + 2})
    BY <2>1, <2>4 DEF ByTwo
  <2>6. /\ ValueAt(line', n + 1) = w /\ line'[n + 1].name = f
        /\ line'[n + 1].joined \in {<<>>, <<ValueAt(line', n + 1)>>}
    <3>1. n + 1 + 1 = n + 2
      BY <1>2
    <3> QED BY <2>2, <2>5, <3>1 DEF ValueAt
  <2>7. Grows(line, P, line', Q, {}, {n + 1}, stops)
    <3>1. IsConfig(e) => stops = {}
      OBVIOUS
    <3>2. ~IsConfig(e) => stops = {n + 2}
      OBVIOUS
    <3> HIDE DEF stops, Q
    <3> QED BY <2>5, <3>1, <3>2
  <2>8. stops \subseteq {n + 2} /\ n + 2 \in Nat /\ (stops # {} => f # "config")
    BY <1>2, <2>2
  <2> HIDE DEF stops, Q
  <2>9. documented' => NotAMode(line, mode, line', stops, n + 2)
    BY <2>1, <2>2, <2>5, <2>8 DEF NotAMode
  <2>10. WithFlag(line, mode, values, extra, P, line', Q, stops, f, n + 2)
    BY <1>1, <1>2, <2>6, <2>7, <2>8, OneMoreFlag, Zenon
  <2>11. documented' => documented
    BY <2>1
  <2>12. Draft(line', mode, values', extra, Q)
    BY <1>2, <2>3, <2>6, <2>10 DEF WithFlag
  <2>13. documented' => AsDocumented(line', mode, extra, Q)
    BY <1>1, <2>9, <2>10, <2>11 DEF WithFlag
  <2> QED BY <1>2, <2>5, <2>12, <2>13 DEF LineMeant
<1> QED BY <1>3, <1>4

(* ping.go:64-76: a word, a mode or an extra one                             *)
LEMMA WriteWordMeant ==
  ASSUME LineMeant, extra \in BOOLEAN, documented \in BOOLEAN,
         NEW w, line' = Append(line, Word(w)), values' = values,
         \/ w \in Modes /\ mode = <<>> /\ mode' = <<w>> /\ extra' = extra
              /\ documented' = (documented /\ NoWordYet)
         \/ w \notin Modes /\ mode' = mode /\ extra' = TRUE /\ documented' = documented
  PROVE  LineMeant'
<1>1. PICK A, P : /\ line \in Seq(A) /\ Draft(line, mode, values, extra, P)
                  /\ documented => AsDocumented(line, mode, extra, P)
  BY DEF LineMeant
<1>2. /\ w \in Modes => mode = <<>>
      /\ mode' = IF w \in Modes THEN <<w>> ELSE mode
      /\ extra' = (extra \/ w \notin Modes)
      /\ documented' => documented /\ (w \in Modes => NoWordIn(line))
  <2>1. NoWordYet <=> NoWordIn(line)
    BY DEF NoWordYet, NoWordIn
  <2>2. CASE w \in Modes /\ mode = <<>> /\ mode' = <<w>> /\ extra' = extra
             /\ documented' = (documented /\ NoWordYet)
    <3>1. documented' => documented /\ NoWordIn(line)
      BY <2>1, <2>2, Zenon
    <3> QED BY <2>2, <3>1
  <2>3. CASE w \notin Modes /\ mode' = mode /\ extra' = TRUE /\ documented' = documented
    BY <2>3
  <2> QED BY <2>2, <2>3
<1> DEFINE Q == P \cup {Len(line) + 2}
<1>3. WithWord(line, mode, values, extra, P, w)
  BY <1>1, <1>2, OneMoreWord, Zenon
<1>4. /\ Draft(line', mode', values', extra', Q)
      /\ documented' => AsDocumented(line', mode', extra', Q)
  <2> DEFINE m2  == IF w \in Modes THEN <<w>> ELSE mode
             ex2 == extra \/ w \notin Modes
  <2>1. /\ Draft(line', m2, values, ex2, Q)
        /\ AsDocumented(line, mode, extra, P) /\ (w \in Modes => NoWordIn(line))
             => AsDocumented(line', m2, ex2, Q)
    BY <1>3, Zenon DEF WithWord
  <2>2. m2 = mode' /\ ex2 = extra' /\ values' = values
    BY <1>2, Zenon
  <2> HIDE DEF m2, ex2, Q
  <2> QED BY <1>1, <1>2, <2>1, <2>2
<1>5. line' \in Seq(A \cup {Word(w)})
  <2>1. line \in Seq(A \cup {Word(w)})
    BY <1>1
  <2> QED BY <2>1
<1> QED BY <1>4, <1>5, Zenon DEF LineMeant

(* Whatever part is written next, the line still means what is recorded.     *)
LEMMA WriteMeant ==
  ASSUME PingInductive, Write PROVE PingInductive'
<1>1. /\ extra \in BOOLEAN /\ documented \in BOOLEAN
      /\ ordered => documented
      /\ world' = <<>> /\ ordered' = ordered
      /\ IF ordered THEN WriteInOrder ELSE WriteAny
  BY DEF PingInductive, Write, WriteInOrder, WriteAny, WriteFlag, WriteMode, WriteExtra
<1>2. ASSUME NEW f, NEW v, NEW joined, NEW d, WriteFlag(d, f, v, joined),
             ordered => joined, ordered \/ Dashes = {2} => d = 2
      PROVE  PingInductive'
  <2>1. /\ extra' \in BOOLEAN /\ documented' \in BOOLEAN
        /\ joined => (documented' <=> documented)
    BY <1>1, <1>2, Zenon DEF WriteFlag
  <2>2. ordered \/ Dashes = {2} => LineMeant'
    <3> SUFFICES ASSUME ordered \/ Dashes = {2} PROVE LineMeant'
      OBVIOUS
    <3>1. LineMeant
      BY DEF PingInductive
    <3> QED BY <1>1, <1>2, <3>1, WriteFlagMeant
  <2> QED BY <1>1, <1>2, <2>1, <2>2 DEF PingInductive
<1>3. ASSUME NEW w, line' = Append(line, Word(w)), values' = values,
             \/ w \in Modes /\ mode = <<>> /\ mode' = <<w>> /\ extra' = extra
                  /\ documented' = (documented /\ NoWordYet)
             \/ w \notin Modes /\ mode' = mode /\ extra' = TRUE /\ documented' = documented,
             ordered => line = <<>> /\ w \in Modes
      PROVE  PingInductive'
  <2>1. extra' \in BOOLEAN /\ documented' \in BOOLEAN
    BY <1>1, <1>3, Zenon
  <2>2. ordered => documented'
    <3>1. line = <<>> => NoWordYet
      BY DEF NoWordYet
    <3> QED BY <1>1, <1>3, <3>1, Zenon
  <2>3. ordered \/ Dashes = {2} => LineMeant'
    <3> SUFFICES ASSUME ordered \/ Dashes = {2} PROVE LineMeant'
      OBVIOUS
    <3>1. LineMeant
      BY DEF PingInductive
    <3> QED BY <1>1, <1>3, <3>1, WriteWordMeant, Zenon
  <2> QED BY <1>1, <2>1, <2>2, <2>3 DEF PingInductive
<1>4. ASSUME NEW m \in Modes, WriteMode(m), ordered => line = <<>> PROVE PingInductive'
  <2>1. /\ line' = Append(line, Word(m)) /\ values' = values
        /\ mode = <<>> /\ mode' = <<m>> /\ extra' = extra
        /\ documented' = (documented /\ NoWordYet)
    BY <1>4, Zenon DEF WriteMode
  <2> QED BY <1>3, <1>4, <2>1
<1>5. CASE ordered
  <2>1. WriteInOrder
    BY <1>1, <1>5
  <2>2. CASE line = <<>> /\ \E m \in Modes : WriteMode(m)
    BY <1>4, <2>2
  <2>3. ASSUME NEW n \in DOMAIN Order, NEW v \in ValuesOf(Order[n]),
               WriteFlag(2, Order[n], v, TRUE)
        PROVE  PingInductive'
    BY <1>2, <2>3, Zenon
  <2> QED BY <2>1, <2>2, <2>3, Zenon DEF WriteInOrder
<1>6. CASE ~ordered
  <2>1. WriteAny
    BY <1>1, <1>6
  <2>2. ASSUME NEW d \in Dashes, NEW f \in Flags, NEW v \in Words, NEW j \in BOOLEAN,
               WriteFlag(d, f, v, j)
        PROVE  PingInductive'
    <3>1. ordered \/ Dashes = {2} => d = 2
      BY <1>6
    <3> QED BY <1>2, <1>6, <2>2, <3>1, Zenon
  <2>3. ASSUME NEW m \in Names, WriteMode(m) PROVE PingInductive'
    <3>1. m \in Modes
      BY NamesAreModes
    <3> QED BY <1>4, <1>6, <2>3, <3>1
  <2>4. ASSUME NEW w \in Words, WriteExtra(w) PROVE PingInductive'
    <3>1. /\ line' = Append(line, Word(w)) /\ values' = values /\ w \notin Modes
          /\ mode' = mode /\ extra' = TRUE /\ documented' = documented
      BY <2>4, Zenon DEF WriteExtra
    <3> QED BY <1>3, <1>6, <3>1
  <2> QED BY <2>1, <2>2, <2>3, <2>4, Zenon DEF WriteAny
<1> QED BY <1>1, <1>5, <1>6

(* Starting changes nothing of the line: every step keeps the invariant.     *)
LEMMA PingStep == PingInductive /\ [Next]_lvars => PingInductive'
<1> SUFFICES ASSUME PingInductive, [Next]_lvars PROVE PingInductive'
  OBVIOUS
<1>1. CASE Write
  BY <1>1, WriteMeant
<1>2. CASE Start
  <2>1. /\ line' = line /\ mode' = mode /\ values' = values /\ extra' = extra
        /\ documented' = documented /\ ordered' = ordered
        /\ ordered /\ Read(line).understood /\ {"model", "prompt"} \subseteq DOMAIN values
    BY <1>2 DEF Start
  <2>2. LineMeant' <=> LineMeant
    BY <2>1 DEF LineMeant
  <2> QED BY <2>1, <2>2 DEF PingInductive
<1>3. CASE UNCHANGED lvars
  <2>1. /\ line' = line /\ mode' = mode /\ values' = values /\ extra' = extra
        /\ documented' = documented /\ ordered' = ordered /\ world' = world
    BY <1>3 DEF lvars
  <2>2. LineMeant' <=> LineMeant
    BY <2>1 DEF LineMeant
  <2> QED BY <2>1, <2>2 DEF PingInductive
<1> QED BY <1>1, <1>2, <1>3 DEF Next

(* What is recorded of a line is what it means, in every reachable state.    *)
LEMMA PingInvariant == Spec => []PingInductive
BY InitMeant, PingStep, PTL DEF Spec

-------------------------------------------------------------------------------
(* What the three readings make of such a draft. First the one for --config: *)
(* it is read wherever it stands.                                            *)
LEMMA ConfigOf ==
  ASSUME NEW S, NEW args \in Seq(S), NEW m, NEW vals, NEW ex, NEW P,
         Draft(args, m, vals, ex, P)
  PROVE  /\ ConfigPath(args).ok = TRUE
         /\ ConfigPath(args).path = IF "config" \in DOMAIN vals THEN <<vals["config"]>> ELSE <<>>
<1> DEFINE n  == Len(args)
           at == {i \in DOMAIN args : IsConfig(args[i])}
<1>1. n \in Nat /\ DOMAIN args = 1..n
  OBVIOUS
<1>2. at = {i \in FlagsIn(args, P) : args[i].name = "config"}
  <2>1. ASSUME NEW i \in at PROVE i \in FlagsIn(args, P) /\ args[i].name = "config"
    <3>1. i \in 1..n /\ args[i].dashes = 2 /\ args[i].name = "config"
      BY <1>1 DEF IsConfig
    <3>2. i \in P
      BY <3>1 DEF Draft, Parts
    <3> QED BY <3>1, <3>2 DEF FlagsIn
  <2>2. ASSUME NEW i \in FlagsIn(args, P), args[i].name = "config" PROVE i \in at
    <3>1. i \in 1..n /\ args[i].dashes # 0
      BY <1>1 DEF FlagsIn, Draft, Parts
    <3>2. args[i].dashes = 2
      BY <3>1 DEF Draft, Parts
    <3> QED BY <1>1, <2>2, <3>1, <3>2 DEF IsConfig
  <2> QED BY <2>1, <2>2
<1>3. IsValues(vals, args, FlagsIn(args, P))
  BY DEF Draft
<1>4. at = {} <=> "config" \notin DOMAIN vals
  BY <1>2, <1>3 DEF IsValues
<1>5. CASE at = {}
  <2>1. ConfigPath(args) = [ok |-> TRUE, path |-> <<>>]
    BY <1>5 DEF ConfigPath
  <2> QED BY <1>4, <1>5, <2>1
<1>6. CASE at # {}
  <2>1. PICK i : i \in at
    BY <1>6
  <2>2. i \in FlagsIn(args, P) /\ i \in P /\ i \in 1..n /\ args[i].name = "config"
    BY <1>1, <1>2, <2>1 DEF FlagsIn
  <2>3. at = {i}
    BY <1>2, <2>1 DEF Draft
  <2>4. Min(at) = i
    <3> HIDE DEF at
    <3> QED BY <2>2, <2>3 DEF Min
  <2>5. vals["config"] = ValueAt(args, i)
    BY <1>3, <2>2 DEF IsValues
  <2>6. ConfigPath(args)
          = IF args[i].joined # <<>> THEN [ok |-> TRUE, path |-> args[i].joined]
            ELSE IF i = n THEN [ok |-> FALSE, path |-> <<>>]
            ELSE [ok |-> TRUE, path |-> <<args[i + 1]>>]
    <3>1. ConfigPath(args)
            = IF at = {} THEN [ok |-> TRUE, path |-> <<>>]
              ELSE IF args[Min(at)].joined # <<>>
              THEN [ok |-> TRUE, path |-> args[Min(at)].joined]
              ELSE IF Min(at) = n THEN [ok |-> FALSE, path |-> <<>>]
              ELSE [ok |-> TRUE, path |-> <<args[Min(at) + 1]>>]
      BY Zenon DEF ConfigPath
    <3> HIDE DEF at
    <3> QED BY <1>6, <2>4, <3>1
  <2>7. CASE args[i].joined # <<>>
    <3>1. args[i].joined = <<vals["config"]>>
      BY <2>2, <2>5, <2>7 DEF Draft
    <3> QED BY <1>4, <1>6, <2>6, <2>7, <3>1
  <2>8. CASE args[i].joined = <<>>
    <3>1. i # n
      BY <1>1, <2>2, <2>8 DEF Draft, Parts, IsPart, Detached, FlagsIn
    <3>2. vals["config"] = args[i + 1]
      BY <2>5, <2>8 DEF ValueAt
    <3> QED BY <1>4, <1>6, <2>6, <2>8, <3>1, <3>2
  <2> QED BY <2>7, <2>8
<1> QED BY <1>5, <1>6

Gets(parsed, vals, flags) ==
  /\ parsed.ok <=> DOMAIN vals \subseteq flags
  /\ parsed.ok => parsed.left = 0 /\ parsed.values = vals

(* Then the flag package, where no word is left.                             *)
LEMMA ValuesRead ==
  ASSUME NEW S, NEW args \in Seq(S), NEW P, Parts(args, P), WordsOf(args, P) = {},
         \A i, j \in FlagsIn(args, P) : args[i].name = args[j].name => i = j,
         NEW vals, IsValues(vals, args, FlagsIn(args, P)), NEW flags
  PROVE  Gets(Parse(flags, args), vals, flags)
<1> DEFINE parsed == Parse(flags, args)
<1>1. ReadsWell(args, P, flags, parsed, 1)
  BY ParseFlags
<1>2. Behind(args, P, 1) = FlagsIn(args, P)
  <2>1. \A j \in FlagsIn(args, P) : j >= 1
    BY DEF FlagsIn, Parts
  <2> QED BY <2>1 DEF Behind
<1> HIDE DEF parsed
<1>3. /\ parsed.ok <=> \A j \in FlagsIn(args, P) : args[j].name \in flags
      /\ parsed.ok => parsed.left = 0 /\ IsValues(parsed.values, args, FlagsIn(args, P))
  BY <1>1, <1>2, Zenon DEF ReadsWell
<1>4. DOMAIN vals = {args[j].name : j \in FlagsIn(args, P)}
  BY DEF IsValues
<1>5. parsed.ok <=> DOMAIN vals \subseteq flags
  <2>1. DOMAIN vals \subseteq flags <=> \A j \in FlagsIn(args, P) : args[j].name \in flags
    BY <1>4
  <2> QED BY <1>3, <2>1, Zenon
<1>6. ASSUME parsed.ok PROVE parsed.values = vals
  <2> DEFINE v == parsed.values
  <2>1. IsValues(v, args, FlagsIn(args, P))
    BY <1>3, <1>6
  <2> HIDE DEF v
  <2>2. DOMAIN v = DOMAIN vals
    BY <1>4, <2>1 DEF IsValues
  <2>3. \A x \in DOMAIN vals : v[x] = vals[x]
    BY <1>4, <2>1 DEF IsValues
  <2>4. v = [x \in DOMAIN v |-> v[x]] /\ vals = [x \in DOMAIN vals |-> vals[x]]
    BY <2>1 DEF IsValues
  <2> QED BY <2>2, <2>3, <2>4 DEF v
<1> QED BY <1>3, <1>5, <1>6 DEF parsed, Gets

(* The values are read from what is left when the mode is taken out.         *)
LEMMA RestRead ==
  ASSUME NEW S, NEW args \in Seq(S), NEW m, NEW vals, NEW P,
         Draft(args, m, vals, FALSE, P), NEW k \in WordsOf(args, P), NEW flags
  PROVE  Gets(Parse(flags, RemoveAt(args, k)), vals, flags)
<1> DEFINE rest == RemoveAt(args, k)
           Q == PartsLeft(args, P, k)
<1>1. Parts(args, P) /\ Len(args) \in Nat /\ k \in 1..Len(args) /\ P \subseteq 1..Len(args) + 1
  BY DEF Draft, Parts, WordsOf
<1>2. rest \in Seq(S)
  BY <1>1, Removed
<1>3. /\ Parts(rest, Q)
      /\ \A j \in WordsOf(rest, Q) : Before(j, k) \in WordsOf(args, P) \ {k}
      /\ \A j \in FlagsIn(rest, Q) :
           /\ Before(j, k) \in FlagsIn(args, P) /\ rest[j] = args[Before(j, k)]
           /\ ValueAt(rest, j) = ValueAt(args, Before(j, k))
      /\ \A i \in FlagsIn(args, P) : \E j \in FlagsIn(rest, Q) : Before(j, k) = i
  BY <1>1, RemovedParts
<1> HIDE DEF rest, Q
<1>4. WordsOf(rest, Q) = {}
  BY <1>3 DEF Draft
<1>5. IsValues(vals, args, FlagsIn(args, P))
  BY DEF Draft
<1>6. \A i, j \in FlagsIn(rest, Q) : rest[i].name = rest[j].name => i = j
  <2>1. \A j \in FlagsIn(rest, Q) : j \in Int
    BY <1>3 DEF FlagsIn, Parts
  <2>2. \A i, j \in Int : Before(i, k) = Before(j, k) => i = j
    BY <1>1 DEF Before
  <2>3. \A i, j \in FlagsIn(args, P) : args[i].name = args[j].name => i = j
    BY DEF Draft
  <2> QED BY <1>3, <2>1, <2>2, <2>3
<1>7. IsValues(vals, rest, FlagsIn(rest, Q))
  BY <1>3, <1>5 DEF IsValues
<1> QED BY <1>2, <1>3, <1>4, <1>6, <1>7, ValuesRead DEF rest

(* A draft written as documented is read as it was meant.                    *)
ModeMeant(m) == IF m = <<>> THEN "serve" ELSE m[1]

ReadRight(args, m, vals, ex) ==
  LET read == Read(args)
  IN  /\ read.understood <=> ~ex /\ DOMAIN vals \subseteq FlagsOf[ModeMeant(m)]
      /\ read.understood =>
           /\ read.mode = ModeMeant(m)
           /\ read.values = vals
           /\ read.config = IF "config" \in DOMAIN vals THEN <<vals["config"]>> ELSE <<>>

(* The three readings of a draft agree with what was meant by it.            *)
LEMMA DraftRead ==
  ASSUME NEW S, NEW args \in Seq(S), NEW m, NEW vals, NEW ex \in BOOLEAN, NEW P,
         Draft(args, m, vals, ex, P), AsDocumented(args, m, ex, P)
  PROVE  ReadRight(args, m, vals, ex)
<1> DEFINE n      == Len(args)
           at     == ModeAt(args)
           mode_  == IF at = 0 THEN "serve" ELSE args[at].name
           rest   == IF at = 0 THEN args ELSE RemoveAt(args, at)
           parsed == Parse(FlagsOf[mode_], rest)
           config == ConfigPath(args)
<1>1. Read(args) = [ understood |-> config.ok /\ parsed.ok /\ parsed.left = 0,
                     mode       |-> mode_,
                     config     |-> config.path,
                     values     |-> parsed.values ]
  BY Zenon DEF Read
<1>2. /\ config.ok = TRUE
      /\ config.path = IF "config" \in DOMAIN vals THEN <<vals["config"]>> ELSE <<>>
  BY ConfigOf
<1>3. n \in Nat /\ Parts(args, P) /\ P \subseteq 1..n + 1
  BY DEF Draft, Parts
<1>4. PICK k : /\ FirstStop(args, P, k)
               /\ k <= n => IF args[k].name \in Modes THEN k \in WordsOf(args, P)
                            ELSE m # <<>> => ex
  BY DEF AsDocumented
<1>5. at = IF k <= n /\ args[k].name \in Modes THEN k ELSE 0
  BY <1>3, <1>4, ModeOf
<1>6. k \in 1..n + 1 /\ \A i \in WordsOf(args, P) : i \in 1..n /\ k <= i
  <2>1. k \in 1..n + 1 /\ \A i \in Stops(args, P) : i \in 1..n /\ k <= i
    BY <1>3, <1>4 DEF FirstStop, Stops
  <2> QED BY <1>3, <2>1, WordsStop
<1>7. /\ m # <<>> => \E w \in WordsOf(args, P) : args[w].name \in Modes /\ m = <<args[w].name>>
      /\ \A w \in WordsOf(args, P) : args[w].name \in Modes => m = <<args[w].name>>
      /\ \A w, x \in WordsOf(args, P) :
           args[w].name \in Modes /\ args[x].name \in Modes => w = x
      /\ ex <=> \E w \in WordsOf(args, P) : args[w].name \notin Modes
      /\ IsValues(vals, args, FlagsIn(args, P))
      /\ \A i, j \in FlagsIn(args, P) : args[i].name = args[j].name => i = j
  BY DEF Draft
<1> HIDE DEF config, at
<1>8. ASSUME ~ex
      PROVE  mode_ = ModeMeant(m) /\ Gets(parsed, vals, FlagsOf[mode_])
  <2>1. CASE m = <<>>
    <3>1. WordsOf(args, P) = {}
      BY <1>7, <1>8, <2>1
    <3>2. at = 0
      BY <1>4, <1>5, <1>6, <3>1
    <3>3. mode_ = "serve" /\ rest = args
      BY <3>2
    <3>4. mode_ = ModeMeant(m)
      BY <2>1, <3>3 DEF ModeMeant
    <3> HIDE DEF mode_, rest
    <3> QED BY <1>3, <1>7, <3>1, <3>3, <3>4, ValuesRead
  <2>2. CASE m # <<>>
    <3>1. k <= n /\ args[k].name \in Modes /\ k \in WordsOf(args, P)
      BY <1>3, <1>4, <1>6, <1>7, <1>8, <2>2
    <3>2. at = k /\ at # 0
      BY <1>5, <1>6, <3>1
    <3>3. mode_ = args[k].name /\ rest = RemoveAt(args, k)
      BY <3>2
    <3>4. mode_ = ModeMeant(m)
      <4>1. m = <<args[k].name>>
        BY <1>7, <3>1
      <4> QED BY <2>2, <3>3, <4>1 DEF ModeMeant
    <3>5. Draft(args, m, vals, FALSE, P)
      <4>1. ex = FALSE
        BY <1>8
      <4> QED BY <4>1
    <3> HIDE DEF mode_, rest
    <3> QED BY <3>1, <3>3, <3>4, <3>5, RestRead
  <2> QED BY <2>1, <2>2
<1>9. ASSUME ex PROVE ~(parsed.ok /\ parsed.left = 0)
  <2>1. PICK w \in WordsOf(args, P) : args[w].name \notin Modes
    BY <1>7, <1>9
  <2>2. CASE at = 0
    <3>1. rest = args
      BY <2>2
    <3> HIDE DEF mode_, rest
    <3> QED BY <1>3, <2>1, <3>1, ParseWords
  <2>3. CASE at # 0
    <3>1. at = k /\ k <= n /\ args[k].name \in Modes /\ k \in WordsOf(args, P) /\ k \in 1..n
      BY <1>4, <1>5, <1>6, <2>3
    <3>2. rest = RemoveAt(args, k)
      BY <2>3, <3>1
    <3> DEFINE Q == PartsLeft(args, P, k)
    <3>3. /\ Parts(RemoveAt(args, k), Q)
          /\ WordsOf(RemoveAt(args, k), Q) = {} => WordsOf(args, P) = {k}
      BY <1>3, <3>1, RemovedParts
    <3>4. RemoveAt(args, k) \in Seq(S)
      BY <3>1, Removed
    <3> HIDE DEF mode_, rest, Q
    <3>5. PICK x : x \in WordsOf(rest, Q)
      BY <2>1, <3>1, <3>2, <3>3
    <3> QED BY <3>2, <3>3, <3>4, <3>5, ParseWords
  <2> QED BY <2>2, <2>3
<1> HIDE DEF parsed, mode_
<1>10. Read(args).understood <=> ~ex /\ DOMAIN vals \subseteq FlagsOf[ModeMeant(m)]
  <2>1. Read(args).understood <=> parsed.ok /\ parsed.left = 0
    <3>1. Read(args).understood = (config.ok /\ parsed.ok /\ parsed.left = 0)
      BY <1>1
    <3> QED BY <1>2, <3>1, Zenon
  <2> QED BY <1>8, <1>9, <2>1 DEF Gets
<1>11. ASSUME Read(args).understood
       PROVE  /\ Read(args).mode = ModeMeant(m) /\ Read(args).values = vals
              /\ Read(args).config
                   = IF "config" \in DOMAIN vals THEN <<vals["config"]>> ELSE <<>>
  <2>1. ~ex /\ parsed.ok
    BY <1>1, <1>10, <1>11
  <2> QED BY <1>1, <1>2, <1>8, <2>1 DEF Gets
<1> QED BY <1>10, <1>11 DEF ReadRight

(* So they do of the line, as far as it is written as documented.            *)
LEMMA MeantRead ==
  ASSUME PingInductive, ordered \/ Dashes = {2}, documented
  PROVE  ReadRight(line, mode, values, extra)
<1>1. PICK A, P : /\ line \in Seq(A) /\ Draft(line, mode, values, extra, P)
                  /\ documented => AsDocumented(line, mode, extra, P)
  BY DEF PingInductive, LineMeant
<1>2. extra \in BOOLEAN
  BY DEF PingInductive
<1> QED BY <1>1, <1>2, DraftRead, Zenon

(* ping.go:14-105 and README.md:197: whatever flags, values and words the    *)
(* user knows and however many are written, a line written as documented,    *)
(* with two dashes, is understood exactly if it means something, and then    *)
(* the three readings agree on the mode, the values and the file meant.      *)
THEOREM LinesAreRead == ASSUME Dashes = {2} PROVE Spec => []ReadAsMeant
<1>1. PingInductive => ReadAsMeant
  <2> SUFFICES ASSUME PingInductive, documented PROVE ReadAsMeant
    BY DEF ReadAsMeant
  <2>1. ReadRight(line, mode, values, extra)
    BY MeantRead
  <2>2. MeantMode = ModeMeant(mode)
    BY DEF MeantMode, ModeMeant
  <2> QED BY <2>1, <2>2 DEF ReadRight, ReadAsMeant, Meaningful
<1> QED BY <1>1, PingInvariant, PTL

-------------------------------------------------------------------------------
(* A started probe was read from its line as meant.                          *)
LEMMA StartedRead ==
  ASSUME PingInductive, world # <<>>
  PROVE  /\ Read(line).mode = MeantMode /\ Read(line).values = values
         /\ Read(line).config = IF "config" \in DOMAIN values THEN <<values["config"]>> ELSE <<>>
         /\ MeantMode \in Sections
<1>1. ordered /\ documented /\ Read(line).understood
  BY DEF PingInductive
<1>2. ReadRight(line, mode, values, extra)
  BY <1>1, MeantRead
<1>3. MeantMode = ModeMeant(mode)
  BY DEF MeantMode, ModeMeant
<1>4. MeantMode \in Sections
  <2>1. PICK A, P : Draft(line, mode, values, extra, P)
    BY <1>1 DEF PingInductive, LineMeant
  <2>2. CASE mode = <<>>
    BY <2>2 DEF MeantMode, Sections
  <2>3. CASE mode # <<>>
    <3>1. PICK w : line[w].name \in Modes /\ mode = <<line[w].name>>
      BY <2>1, <2>3 DEF Draft
    <3> QED BY <2>3, <3>1 DEF MeantMode, Sections, Modes
  <2> QED BY <2>2, <2>3
<1> QED BY <1>1, <1>2, <1>3, <1>4 DEF ReadRight

(* The path of the configuration file is the one named on the line.          *)
LEMMA PathRead ==
  ASSUME PingInductive, world # <<>>
  PROVE  (IF Read(line).config = <<>> THEN "" ELSE Read(line).config[1].name) = NamedFile
<1>1. Read(line).config = IF "config" \in DOMAIN values THEN <<values["config"]>> ELSE <<>>
  BY StartedRead
<1>2. CASE "config" \in DOMAIN values
  <2>1. Read(line).config = <<values["config"]>>
    BY <1>1, <1>2
  <2>2. Read(line).config # <<>> /\ Read(line).config[1] = values["config"]
    BY <2>1
  <2> QED BY <1>2, <2>2 DEF NamedFile
<1>3. CASE "config" \notin DOMAIN values
  BY <1>1, <1>3 DEF NamedFile
<1> QED BY <1>2, <1>3

(* defaults.go:72-84 and :101, for every line that can be written            *)
THEOREM NoConfigIgnored == Spec => []ConfigNotIgnored
<1>1. PingInductive => ConfigNotIgnored
  <2> SUFFICES ASSUME PingInductive, world # <<>>, Run(line, Files, Env).started
               PROVE  /\ NamedFile # "" => FileAt(Files, NamedFile).state = "read"
                      /\ FileAt(Files, DefaultConfigPath).state \in {"read", "absent"}
    BY DEF ConfigNotIgnored
  <2> DEFINE path == IF Read(line).config = <<>> THEN "" ELSE Read(line).config[1].name
  <2>1. /\ path # "" => FileAt(Files, path).state = "read"
        /\ FileAt(Files, DefaultConfigPath).state \in {"read", "absent"}
    BY NoFileIgnored, Zenon
  <2>2. path = NamedFile
    BY PathRead
  <2> HIDE DEF path
  <2> QED BY <2>1, <2>2
<1> QED BY <1>1, PingInvariant, PTL

(* The option a constructor is given for a setting is the value in force,    *)
(* but for the spaces a file may have around it.                             *)
LEMMA TrimTwice == ASSUME NEW text PROVE Trim(Trim(text)) = Trim(text)
BY TextAssumption DEF Trim

(* A section has a setting exactly if the file gives it, and the same value. *)
LEMMA SectionGives ==
  ASSUME NEW path, NEW s
  PROVE  /\ s \in DOMAIN Section(path) <=> Gives(FileAt(Files, path), MeantMode, s)
         /\ Gives(FileAt(Files, path), MeantMode, s) =>
              /\ s \in Numbers => Given(FileAt(Files, path), MeantMode, s) = Section(path)[s]
              /\ s \notin Numbers =>
                   Given(FileAt(Files, path), MeantMode, s) = Trim(Section(path)[s])
<1>1. CASE FileAt(Files, path).state = "read" /\ MeantMode \in DOMAIN FileAt(Files, path).sections
  <2>1. Section(path) = FileAt(Files, path).sections[MeantMode]
    BY <1>1 DEF Section
  <2> QED BY <1>1, <2>1 DEF Gives, Given
<1>2. CASE ~(FileAt(Files, path).state = "read"
             /\ MeantMode \in DOMAIN FileAt(Files, path).sections)
  <2>1. Section(path) = <<>>
    BY <1>2 DEF Section
  <2> QED BY <1>2, <2>1 DEF Gives
<1> QED BY <1>1, <1>2

(* The environment gives the same two settings.                              *)
LEMMA EnvGiven == ASSUME NEW s PROVE EnvGives(s) = EnvValue(Env, MeantMode, s)
<1>1. CASE s = "endpoint" /\ MeantMode = "api"
  <2>1. EnvGives(s) = Env.OPENAI_BASE_URL
    BY <1>1, Zenon DEF EnvGives
  <2> QED BY <1>1, <2>1 DEF EnvValue
<1>2. CASE s = "python" /\ MeantMode = "offline"
  <2>1. s # "endpoint"
    BY <1>2
  <2>2. EnvGives(s) = Env.INFERLENS_PYTHON
    BY <1>2, <2>1, Zenon DEF EnvGives
  <2>3. ~(MeantMode = "api" /\ s = "endpoint")
    BY <1>2
  <2> QED BY <1>2, <2>2, <2>3 DEF EnvValue
<1>3. CASE ~(s = "endpoint" /\ MeantMode = "api") /\ ~(s = "python" /\ MeantMode = "offline")
  <2>1. EnvGives(s) = ""
    BY <1>3, Zenon DEF EnvGives
  <2> QED BY <1>3, <2>1, Zenon DEF EnvValue
<1> QED BY <1>1, <1>2, <1>3

Option(s) == Options(values, LoadPingDefaults(Files, NamedFile, Env).modes[MeantMode])[s]

(* The value in force comes from the same layer as the option.               *)
LEMMA OptionInForce ==
  ASSUME MeantMode \in Sections, NEW s \in Settings
  PROVE  /\ s \in Numbers => Option(s) = InForce(s)
         /\ s \notin Numbers => Trim(Option(s)) = Trim(InForce(s))
<1> DEFINE layer == LoadPingDefaults(Files, NamedFile, Env).modes[MeantMode][s]
           below == IF EnvGives(s) # "" THEN EnvGives(s)
                    ELSE IF NamedFile # "" /\ s \in DOMAIN Section(NamedFile)
                         THEN Section(NamedFile)[s]
                    ELSE IF s \in DOMAIN Section(DefaultConfigPath)
                         THEN Section(DefaultConfigPath)[s]
                    ELSE BuiltinPingDefaults[MeantMode][s]
<1>1. layer = IF EnvGives(s) # "" THEN EnvGives(s)
              ELSE IF NamedFile # "" /\ s \in DOMAIN Section(NamedFile)
                   THEN Given(FileAt(Files, NamedFile), MeantMode, s)
              ELSE IF s \in DOMAIN Section(DefaultConfigPath)
                   THEN Given(FileAt(Files, DefaultConfigPath), MeantMode, s)
              ELSE BuiltinPingDefaults[MeantMode][s]
  <2>1. layer = IF EnvValue(Env, MeantMode, s) # "" THEN EnvValue(Env, MeantMode, s)
                ELSE IF NamedFile # "" /\ Gives(FileAt(Files, NamedFile), MeantMode, s)
                     THEN Given(FileAt(Files, NamedFile), MeantMode, s)
                ELSE IF Gives(FileAt(Files, DefaultConfigPath), MeantMode, s)
                     THEN Given(FileAt(Files, DefaultConfigPath), MeantMode, s)
                ELSE BuiltinPingDefaults[MeantMode][s]
    <3>1. layer = Highest(Files, NamedFile, Env, MeantMode, s)
      BY HighestLayerWins
    <3> QED BY <3>1 DEF Highest
  <2>2. EnvGives(s) = EnvValue(Env, MeantMode, s)
    BY EnvGiven, Zenon
  <2>3. ASSUME NEW path
        PROVE  s \in DOMAIN Section(path) <=> Gives(FileAt(Files, path), MeantMode, s)
    BY SectionGives
  <2>4. /\ s \in DOMAIN Section(NamedFile) <=> Gives(FileAt(Files, NamedFile), MeantMode, s)
        /\ s \in DOMAIN Section(DefaultConfigPath)
             <=> Gives(FileAt(Files, DefaultConfigPath), MeantMode, s)
    <3>1. s \in DOMAIN Section(NamedFile) <=> Gives(FileAt(Files, NamedFile), MeantMode, s)
      BY <2>3
    <3>2. s \in DOMAIN Section(DefaultConfigPath)
            <=> Gives(FileAt(Files, DefaultConfigPath), MeantMode, s)
      BY <2>3
    <3> QED BY <3>1, <3>2
  <2> HIDE DEF layer
  <2> QED BY <2>1, <2>2, <2>4
<1>2. /\ s \in Numbers => layer = below
      /\ s \notin Numbers => Trim(layer) = Trim(below)
  <2> HIDE DEF layer
  <2>1. \A path : s \in DOMAIN Section(path) =>
          /\ s \in Numbers => Given(FileAt(Files, path), MeantMode, s) = Section(path)[s]
          /\ s \notin Numbers =>
               Trim(Given(FileAt(Files, path), MeantMode, s)) = Trim(Section(path)[s])
    <3>1. ASSUME NEW path, s \in DOMAIN Section(path), s \in Numbers
          PROVE  Given(FileAt(Files, path), MeantMode, s) = Section(path)[s]
      BY <3>1, SectionGives, Zenon
    <3>2. ASSUME NEW path, s \in DOMAIN Section(path), s \notin Numbers
          PROVE  Trim(Given(FileAt(Files, path), MeantMode, s)) = Trim(Section(path)[s])
      <4>1. Given(FileAt(Files, path), MeantMode, s) = Trim(Section(path)[s])
        BY <3>2, SectionGives, Zenon
      <4> QED BY <4>1, TrimTwice
    <3> QED BY <3>1, <3>2, Zenon
  <2>2. CASE EnvGives(s) # ""
    BY <1>1, <2>2
  <2>3. CASE EnvGives(s) = "" /\ NamedFile # "" /\ s \in DOMAIN Section(NamedFile)
    <3>1. below = Section(NamedFile)[s] /\ layer = Given(FileAt(Files, NamedFile), MeantMode, s)
      BY <1>1, <2>3
    <3> QED BY <2>1, <2>3, <3>1, Zenon
  <2>4. CASE /\ EnvGives(s) = "" /\ ~(NamedFile # "" /\ s \in DOMAIN Section(NamedFile))
             /\ s \in DOMAIN Section(DefaultConfigPath)
    <3>1. /\ below = Section(DefaultConfigPath)[s]
          /\ layer = Given(FileAt(Files, DefaultConfigPath), MeantMode, s)
      BY <1>1, <2>4
    <3> QED BY <2>1, <2>4, <3>1, Zenon
  <2>5. CASE /\ EnvGives(s) = "" /\ ~(NamedFile # "" /\ s \in DOMAIN Section(NamedFile))
             /\ s \notin DOMAIN Section(DefaultConfigPath)
    BY <1>1, <2>5
  <2> QED BY <2>2, <2>3, <2>4, <2>5, Zenon
<1>3. s \in AllFlags
  BY DEF Settings, Numbers, AllFlags, Modes, FlagsOf, Online
<1>4. Option(s) = IF s \in DOMAIN values THEN FlagValue(s, values[s].name) ELSE layer
  BY <1>3 DEF Option, Options
<1>5. InForce(s) = IF s \in DOMAIN values THEN FlagValue(s, values[s].name) ELSE below
  BY Zenon DEF InForce
<1> HIDE DEF layer, below
<1> QED BY <1>2, <1>4, <1>5

(* What the constructors make of their options                               *)
LEMMA ServeMade ==
  ASSUME NEW opts, NewServe(opts).ok
  PROVE  LET cfg == NewServe(opts).cfg
         IN  /\ cfg.endpoint = OrDefault(opts["endpoint"], DefaultEndpoint)
             /\ cfg.maxTokens = MaxTokens(opts) /\ cfg.timeout = opts["timeout"]
             /\ cfg.runtime = OrDefault(opts["runtime"], "vllm")
             /\ cfg.metrics = IF Trim(opts["metrics-endpoint"]) = ""
                              THEN [base |-> cfg.endpoint, path |-> "/metrics"]
                              ELSE [base |-> Trim(opts["metrics-endpoint"]), path |-> ""]
BY DEF NewServe, NewOnlineConfig, OrDefault

(* For api and kserve there is no default endpoint: one is required.         *)
LEMMA APIMade ==
  ASSUME NEW opts, NewAPI(opts).ok
  PROVE  LET cfg == NewAPI(opts).cfg
         IN  /\ cfg.endpoint = OrDefault(opts["endpoint"], DefaultEndpoint)
             /\ cfg.maxTokens = MaxTokens(opts) /\ cfg.timeout = opts["timeout"]
BY DEF NewAPI, NewOnlineConfig, OrDefault

(* Likewise with the name of the service.                                    *)
LEMMA KServeMade ==
  ASSUME NEW opts, NewKServe(opts).ok
  PROVE  LET cfg == NewKServe(opts).cfg
         IN  /\ cfg.endpoint = OrDefault(opts["endpoint"], DefaultEndpoint)
             /\ cfg.maxTokens = MaxTokens(opts) /\ cfg.timeout = opts["timeout"]
BY DEF NewKServe, NewOnlineConfig, OrDefault

(* Offline there is no endpoint, and the interpreter is kept as given.       *)
LEMMA OfflineMade ==
  ASSUME NEW opts
  PROVE  LET cfg == NewOffline(opts).cfg
         IN  /\ cfg.maxTokens = MaxTokens(opts) /\ cfg.timeout = opts["timeout"]
             /\ cfg.python = opts["python"]
BY DEF NewOffline, NewOnlineConfig

(* README.md:163, "later layers overriding earlier layers": for all files,   *)
(* environments and command lines, each setting of a started probe is the    *)
(* one its highest layer gives.                                              *)
THEOREM HighestLayerInForce == Spec => []LayersInOrder
<1>1. ASSUME PingInductive, world # <<>>, Run(line, Files, Env).started
      PROVE  /\ MeantMode # "offline" =>
                  Run(line, Files, Env).cfg.endpoint = OrDefault(InForce("endpoint"), DefaultEndpoint)
             /\ Run(line, Files, Env).cfg.maxTokens
                  = IF InForce("max-tokens") = 0 THEN DefaultMaxTokens ELSE InForce("max-tokens")
             /\ Run(line, Files, Env).deadline <=> InForce("timeout") > 0
             /\ MeantMode = "serve" =>
                  /\ Run(line, Files, Env).cfg.runtime = OrDefault(InForce("runtime"), "vllm")
                  /\ Run(line, Files, Env).cfg.metrics =
                       IF Trim(InForce("metrics-endpoint")) = ""
                       THEN [base |-> Run(line, Files, Env).cfg.endpoint, path |-> "/metrics"]
                       ELSE [base |-> InForce("metrics-endpoint"), path |-> ""]
             /\ MeantMode = "offline" =>
                  Trim(Run(line, Files, Env).cfg.python) = Trim(InForce("python"))
  <2> DEFINE read   == Read(line)
             path   == IF read.config = <<>> THEN "" ELSE read.config[1].name
             loaded == LoadPingDefaults(Files, path, Env)
             opts   == Options(read.values, loaded.modes[read.mode])
             made   == ConfigFor(read.mode, opts)
             probe  == Run(line, Files, Env)
             m      == MeantMode
  <2>1. read.mode = m /\ read.values = values /\ path = NamedFile /\ m \in Sections
    BY <1>1, StartedRead, PathRead
  <2>2. made.ok /\ probe.cfg = made.cfg /\ probe.deadline = (made.cfg.timeout > 0)
    BY <1>1 DEF Run, NoProbe
  <2>3. \A s : opts[s] = Option(s)
    <3> HIDE DEF read, path, m
    <3> QED BY <2>1 DEF Option, m
  <2>4. \A s \in Settings : /\ s \in Numbers => opts[s] = InForce(s)
                            /\ s \notin Numbers => Trim(opts[s]) = Trim(InForce(s))
    BY <2>1, <2>3, OptionInForce
  <2>5. made = ConfigFor(m, opts)
    BY <2>1
  <2> HIDE DEF read, path, loaded, opts, made, probe, m
  <2>6. /\ opts["max-tokens"] = InForce("max-tokens") /\ opts["timeout"] = InForce("timeout")
        /\ Trim(opts["endpoint"]) = Trim(InForce("endpoint"))
        /\ Trim(opts["metrics-endpoint"]) = Trim(InForce("metrics-endpoint"))
        /\ Trim(opts["runtime"]) = Trim(InForce("runtime"))
        /\ Trim(opts["python"]) = Trim(InForce("python"))
    BY <2>4 DEF Settings, Numbers
  <2>7. /\ MaxTokens(opts) = IF InForce("max-tokens") = 0 THEN DefaultMaxTokens
                             ELSE InForce("max-tokens")
        /\ OrDefault(opts["endpoint"], DefaultEndpoint) = OrDefault(InForce("endpoint"), DefaultEndpoint)
        /\ OrDefault(opts["runtime"], "vllm") = OrDefault(InForce("runtime"), "vllm")
    BY <2>6 DEF MaxTokens, OrDefault
  <2>8. Trim(InForce("metrics-endpoint")) # "" =>
          Trim(opts["metrics-endpoint"]) = InForce("metrics-endpoint")
    BY <2>6 DEF Trim
  <2>9. CASE m = "serve"
    <3>1. made = NewServe(opts)
      BY <2>5, <2>9, Zenon DEF ConfigFor
    <3>2. NewServe(opts).ok /\ probe.cfg = NewServe(opts).cfg
      BY <2>2, <3>1
    <3>3. /\ probe.cfg.endpoint = OrDefault(opts["endpoint"], DefaultEndpoint)
          /\ probe.cfg.maxTokens = MaxTokens(opts) /\ probe.cfg.timeout = opts["timeout"]
          /\ probe.cfg.runtime = OrDefault(opts["runtime"], "vllm")
          /\ probe.cfg.metrics = IF Trim(opts["metrics-endpoint"]) = ""
                                 THEN [base |-> probe.cfg.endpoint, path |-> "/metrics"]
                                 ELSE [base |-> Trim(opts["metrics-endpoint"]), path |-> ""]
      BY <3>2, ServeMade
    <3>4. probe.cfg.metrics = IF Trim(InForce("metrics-endpoint")) = ""
                              THEN [base |-> probe.cfg.endpoint, path |-> "/metrics"]
                              ELSE [base |-> InForce("metrics-endpoint"), path |-> ""]
      BY <2>6, <2>8, <3>3
    <3>5. probe.deadline = (InForce("timeout") > 0)
      BY <2>2, <2>6, <3>2, <3>3
    <3> QED BY <2>7, <2>9, <3>3, <3>4, <3>5 DEF m, probe
  <2>10. CASE m = "api"
    <3>0. m # "serve"
      BY <2>10
    <3>1. made = NewAPI(opts)
      BY <2>5, <2>10, <3>0, Zenon DEF ConfigFor
    <3> QED BY <2>2, <2>6, <2>7, <2>10, <3>1, APIMade DEF m, probe
  <2>11. CASE m = "kserve"
    <3>0. m # "serve" /\ m # "api"
      BY <2>11
    <3>1. made = NewKServe(opts)
      BY <2>5, <2>11, <3>0, Zenon DEF ConfigFor
    <3> QED BY <2>2, <2>6, <2>7, <2>11, <3>1, KServeMade DEF m, probe
  <2>12. CASE m = "offline"
    <3>0. m # "serve" /\ m # "api" /\ m # "kserve"
      BY <2>12
    <3>1. made = NewOffline(opts)
      BY <2>5, <2>12, <3>0, Zenon DEF ConfigFor
    <3> QED BY <2>2, <2>6, <2>7, <2>12, <3>1, OfflineMade DEF m, probe
  <2> QED BY <2>1, <2>9, <2>10, <2>11, <2>12 DEF Sections
<1>2. PingInductive => LayersInOrder
  BY <1>1, Zenon DEF LayersInOrder
<1> QED BY <1>2, PingInvariant, PTL

===============================================================================
