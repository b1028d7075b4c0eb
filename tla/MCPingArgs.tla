------------------------------ MODULE MCPingArgs -------------------------------
(***************************************************************************)
(* A user writes a command line, part by part: flags with their values, a  *)
(* mode, a word that is none. What is meant is recorded while it is        *)
(* written, so that no grammar is needed to compare it with what is read.  *)
(* Drafts are of two kinds: the parts in any order with few words, and the *)
(* parts in one order with values of their own, which are then started in  *)
(* many worlds of configuration files and environments.                    *)
(***************************************************************************)
EXTENDS Ping

CONSTANTS
  Flags,       \* flags the user knows
  Dashes,      \* with how many dashes they are written
  Names,       \* modes the user knows
  Words,       \* values, and words in place of a mode
  MaxParts,    \* bound on the parts of a line
  MaxOrdered   \* bound on the parts of a line written in order

ASSUME NamesAreModes == Names \subseteq Modes

VARIABLES
  ordered,     \* the parts are written in order
  line,        \* the arguments written
  parts,       \* how many parts that is
  mode,        \* <<>>, or the mode meant
  values,      \* the value meant for each flag written
  extra,       \* a word that is no mode stands in place of one
  documented,  \* the mode is where README.md and ping.go:64-66 want it
  world        \* <<>>, or the files and the environment of the start

lvars == <<ordered, line, parts, mode, values, extra, documented, world>>

Init ==
  /\ ordered \in (IF MaxOrdered > 0 THEN BOOLEAN ELSE {FALSE})
  /\ line = <<>> /\ parts = 0
  /\ mode = <<>> /\ values = <<>>
  /\ extra = FALSE /\ documented = TRUE
  /\ world = <<>>

(* The first word a reader meets that is not the value of --config is the  *)
(* mode, or else is not the name of one.                                   *)
NoWordYet ==
  \A i \in DOMAIN line : line[i].dashes = 0 =>
    i > 1 /\ line[i - 1].name = "config" /\ line[i - 1].joined = <<>>

(* A flag with its value, joined to it or in the next argument             *)
WriteFlag(d, f, v, joined) ==
  /\ f \notin DOMAIN values
  /\ values' = Give(values, f, Word(v))
  /\ IF joined
     THEN /\ line' = Append(line, Joined(d, f, Word(v)))
          /\ UNCHANGED documented
     ELSE /\ line' = line \o <<Flag(d, f), Word(v)>>
          /\ documented' = /\ documented
                           /\ v \in Modes /\ f # "config" /\ NoWordYet => mode # <<>>
  /\ UNCHANGED <<ordered, mode, extra, world>>

WriteMode(m) ==
  /\ mode = <<>>
  /\ mode' = <<m>>
  /\ line' = Append(line, Word(m))
  /\ documented' = (documented /\ NoWordYet)
  /\ UNCHANGED <<ordered, values, extra, world>>

WriteExtra(w) ==
  /\ w \notin Modes
  /\ extra' = TRUE
  /\ line' = Append(line, Word(w))
  /\ UNCHANGED <<ordered, mode, values, documented, world>>

WriteAny == \/ \E d \in Dashes, f \in Flags, v \in Words, j \in BOOLEAN :
                 WriteFlag(d, f, v, j)
            \/ \E m \in Names : WriteMode(m)
            \/ \E w \in Words : WriteExtra(w)

(* The flags of the ordered drafts, with the values they are given.        *)
Order == << "config", "endpoint", "max-tokens", "metrics-endpoint", "model",
            "name", "prompt", "python", "runtime", "timeout" >>

ValuesOf(f) ==
  CASE f = "config"           -> {"team.yaml", "gone.yaml", ""}
    [] f = "endpoint"         -> {"http://flag", " "}
    [] f = "max-tokens"       -> {"9", "0", "-1"}
    [] f = "metrics-endpoint" -> {"http://flag/m", " "}
    [] f = "model"            -> {"qwen", " "}
    [] f = "prompt"           -> {"hi"}
    [] f = "name"             -> {"isvc"}
    [] f = "python"           -> {"py-flag"}
    [] f = "runtime"          -> {"sglang", "tgi"}
    [] f = "timeout"          -> {"9s", "9"}

WriteInOrder ==
  \/ line = <<>> /\ \E m \in Modes : WriteMode(m)
  \/ \E n \in DOMAIN Order :
       /\ \A k \in n..Len(Order) : Order[k] \notin DOMAIN values
       /\ \E v \in ValuesOf(Order[n]) : WriteFlag(2, Order[n], v, TRUE)

Bound == IF ordered THEN MaxOrdered ELSE MaxParts

Write ==
  /\ parts < Bound /\ world = <<>>
  /\ parts' = parts + 1
  /\ IF ordered THEN WriteInOrder ELSE WriteAny

MCWeb == { "http://localhost:8000", "http://flag", "http://flag/m", "http://default",
           "http://default/m", "http://other", "http://team", "http://team/m", "http://env" }
MCCounts    == "9" :> 9 @@ "0" :> 0 @@ "-1" :> -1
MCDurations == "9s" :> 9 @@ "0" :> 0

(* The layers below the flags. A layer gives nothing or some settings, each*)
(* with values of its own; those of the file that --config names are often *)
(* empty or invalid.                                                       *)
MeantMode == IF mode = <<>> THEN "serve" ELSE mode[1]

File(section, given) == [state |-> "read", sections |-> section :> given]
NoFile(state)        == [state |-> state, sections |-> <<>>]

DefaultFiles ==
  {NoFile("absent"), NoFile("unreadable")} \cup
  {File(MeantMode, given) : given \in
     { "endpoint" :> "http://default",
       "metrics-endpoint" :> "http://default/m",
       "max-tokens" :> 7 @@ "timeout" :> 0,
       "runtime" :> "llamacpp" @@ "python" :> "py-default" }} \cup
  {File(IF MeantMode = "api" THEN "serve" ELSE "api", "endpoint" :> "http://other")}

NamedFiles ==
  {NoFile("broken"), File(MeantMode, <<>>)} \cup
  {File(MeantMode, given) : given \in
     { "endpoint" :> "http://team",
       "endpoint" :> " " @@ "python" :> "",
       "metrics-endpoint" :> "ftp://team",
       "endpoint" :> "http://team" @@ "metrics-endpoint" :> "http://team/m",
       "max-tokens" :> -1 @@ "timeout" :> 5,
       "runtime" :> "" }}

Environments ==
  { [OPENAI_BASE_URL |-> b, INFERLENS_PYTHON |-> p, OPENAI_API_KEY |-> k] :
      b \in {"", "http://env"}, p \in {"", "py-env"}, k \in {"", "key"} }

Worlds ==
  LET named == IF "config" \in DOMAIN values THEN NamedFiles ELSE {NoFile("absent")}
      envs  == {e \in Environments : e.INFERLENS_PYTHON = "" \/ e.OPENAI_API_KEY # ""}
  IN  { [files |-> ("cfg/default.yaml" :> d @@ "team.yaml" :> n), env |-> e] :
          d \in DefaultFiles, n \in named, e \in envs }

(* A line that can be read is started in some world.                       *)
Start ==
  /\ ordered /\ world = <<>>
  /\ {"model", "prompt"} \subseteq DOMAIN values
  /\ Read(line).understood
  /\ world' \in {<<w>> : w \in Worlds}
  /\ UNCHANGED <<ordered, line, parts, mode, values, extra, documented>>

Next == Write \/ Start

Spec == Init /\ [][Next]_lvars

-------------------------------------------------------------------------------
(* A line that means something: every flag belongs to the mode, and no word*)
(* stands in the place of a mode.                                          *)
Meaningful == ~extra /\ DOMAIN values \subseteq FlagsOf[MeantMode]

(* A line written as documented is understood exactly if it means something*)
(* and then in the mode, with the values and with the configuration file   *)
(* meant: the three readings agree (pkg/ping/ping.go:14-105, README.md:197)*)
ReadAsMeant ==
  documented =>
    LET read == Read(line)
    IN  /\ read.understood <=> Meaningful
        /\ read.understood =>
             /\ read.mode = MeantMode
             /\ read.values = values
             /\ read.config = IF "config" \in DOMAIN values
                              THEN <<values["config"]>> ELSE <<>>

-------------------------------------------------------------------------------
(* The same facts about the layers, one setting at a time: the value in    *)
(* force is the one of the first layer that gives any.                     *)
Files == world[1].files
Env   == world[1].env

Section(path) ==
  LET file == FileAt(Files, path)
  IN  IF file.state = "read" /\ MeantMode \in DOMAIN file.sections
      THEN file.sections[MeantMode] ELSE <<>>

NamedFile == IF "config" \in DOMAIN values THEN values["config"].name ELSE ""

EnvGives(s) == CASE s = "endpoint" /\ MeantMode = "api"   -> Env.OPENAI_BASE_URL
                 [] s = "python" /\ MeantMode = "offline" -> Env.INFERLENS_PYTHON
                 [] OTHER                                 -> ""

InForce(s) ==
  IF s \in DOMAIN values THEN FlagValue(s, values[s].name)
  ELSE IF EnvGives(s) # "" THEN EnvGives(s)
  ELSE IF NamedFile # "" /\ s \in DOMAIN Section(NamedFile) THEN Section(NamedFile)[s]
  ELSE IF s \in DOMAIN Section(DefaultConfigPath) THEN Section(DefaultConfigPath)[s]
  ELSE BuiltinPingDefaults[MeantMode][s]

OrDefault(text, default) == IF Trim(text) = "" THEN default ELSE Trim(text)

(* README.md:163, "later layers overriding earlier layers": every setting  *)
(* of a started probe is the one its highest layer gives, an empty one     *)
(* standing for the default of serve; and the metrics read are those of the*)
(* server that is probed, unless a layer names another endpoint for them.  *)
LayersInOrder ==
  world # <<>> =>
    LET run == Run(line, Files, Env)
    IN  run.started =>
          /\ MeantMode # "offline" =>
               run.cfg.endpoint = OrDefault(InForce("endpoint"), DefaultEndpoint)
          /\ run.cfg.maxTokens = IF InForce("max-tokens") = 0 THEN DefaultMaxTokens
                                 ELSE InForce("max-tokens")
          /\ run.deadline <=> InForce("timeout") > 0
          /\ MeantMode = "serve" =>
               /\ run.cfg.runtime = OrDefault(InForce("runtime"), "vllm")
               /\ run.cfg.metrics =
                    IF Trim(InForce("metrics-endpoint")) = ""
                    THEN [base |-> run.cfg.endpoint, path |-> "/metrics"]
                    ELSE [base |-> InForce("metrics-endpoint"), path |-> ""]
          /\ MeantMode = "offline" => Trim(run.cfg.python) = Trim(InForce("python"))

(* A file the user names with --config is never passed over: if it cannot  *)
(* be read or decoded, no probe is made (config/defaults.go:81-84); the    *)
(* default file is passed over only if there is none (:102).               *)
ConfigNotIgnored ==
  world # <<>> /\ Run(line, Files, Env).started =>
    /\ NamedFile # "" => FileAt(Files, NamedFile).state = "read"
    /\ FileAt(Files, DefaultConfigPath).state \in {"read", "absent"}

(* pkg/ping/ping.go:27, "Path to ping YAML config", which PrintDefaults    *)
(* shows to the user as -config: a file given to this flag is the one read.*)
ConfigFlagIsRead ==
  LET read == Read(line)
  IN  read.understood /\ {"config", "model", "prompt"} \subseteq DOMAIN read.values =>
        read.config = <<read.values["config"]>>
===============================================================================
