-------------------------------- MODULE Config ---------------------------------
(***************************************************************************)
(* Where a ping takes its settings from (config/defaults.go) and when it   *)
(* may start with them (config/config.go). No state: the layers below the  *)
(* command line are merged into defaults, which become the defaults of the *)
(* flags; the values of the flags are then validated for their mode.       *)
(*                                                                         *)
(* Settings are named by their flags. A text is empty, blank, a URL or     *)
(* another word, none with spaces around it. "unset" in the environment is *)
(* the empty text, as for os.Getenv.                                       *)
(***************************************************************************)
EXTENDS Integers

CONSTANTS Blank,   \* texts that strings.TrimSpace empties
          Web      \* texts that begin with http:// or https://

DefaultEndpoint   == "http://localhost:8000"
DefaultMaxTokens  == 128
DefaultTimeout    == 60
DefaultConfigPath == "cfg/default.yaml"

ASSUME TextAssumption ==
  /\ "" \notin Blank \cup Web
  /\ DefaultEndpoint \in Web
  /\ Blank \cap (Web \cup {"vllm", "python3"}) = {}

Observers == {"vllm", "llamacpp", "sglang"}
Sections  == {"serve", "api", "offline", "kserve"}
Numbers   == {"max-tokens", "timeout"}
Settings  == Numbers \cup {"runtime", "endpoint", "metrics-endpoint", "python"}

Trim(text) == IF text \in Blank THEN "" ELSE text
IsHTTPURL(text) == text \in Web

BuiltinPingDefaults ==
  LET unset  == [s \in Settings |-> IF s \in Numbers THEN 0 ELSE ""]
      online == [unset EXCEPT !["max-tokens"] = DefaultMaxTokens,
                              !["timeout"]    = DefaultTimeout]
  IN  [ serve   |-> [online EXCEPT !["runtime"]  = "vllm",
                                   !["endpoint"] = DefaultEndpoint],
        api     |-> online,
        kserve  |-> online,
        offline |-> [online EXCEPT !["timeout"] = 0, !["python"] = "python3"] ]

-------------------------------------------------------------------------------
(* A section of a file gives some settings; each one given replaces the    *)
(* default, also when it is empty or zero.                                 *)
MergeModeDefaults(defaults, section) ==
  [s \in Settings |-> IF s \notin DOMAIN section THEN defaults[s]
                      ELSE IF s \in Numbers THEN section[s]
                      ELSE Trim(section[s])]

(* A file is absent, cannot be read, does not decode (an unknown key, a    *)
(* malformed duration), or was read and has some sections. Only an absent  *)
(* file that nobody asked for by name is passed over.                      *)
FileAt(files, path) ==
  IF path \in DOMAIN files THEN files[path] ELSE [state |-> "absent", sections |-> <<>>]

MergedSections(defaults, file) ==
  [m \in Sections |->
     IF file.state = "read" /\ m \in DOMAIN file.sections
     THEN MergeModeDefaults(defaults[m], file.sections[m]) ELSE defaults[m]]

(* Mutated: a file that is asked for may be absent as well.                *)
MergePingConfigFile_NeverRequired(defaults, file, required) ==
  [ok    |-> file.state \in {"read", "absent"},
   modes |-> MergedSections(defaults, file)]

MergePingConfigFile(defaults, file, required) ==
  [ok    |-> file.state = "read" \/ (file.state = "absent" /\ ~required),
   modes |-> MergedSections(defaults, file)]

ApplyPingEnv(modes, env) ==
  LET base   == env["OPENAI_BASE_URL"]
      python == env["INFERLENS_PYTHON"]
  IN  [modes EXCEPT !["api"]["endpoint"]   = IF base # "" THEN base ELSE @,
                    !["offline"]["python"] = IF python # "" THEN python ELSE @]

(* Mutated: the file asked for is merged first.                            *)
LoadPingDefaults_NamedFirst(files, path, env) ==
  LET named   == IF path = "" THEN [ok |-> TRUE, modes |-> BuiltinPingDefaults]
                 ELSE MergePingConfigFile(BuiltinPingDefaults, FileAt(files, path), TRUE)
      default == MergePingConfigFile(named.modes, FileAt(files, DefaultConfigPath), FALSE)
  IN  [ok |-> default.ok /\ named.ok, modes |-> ApplyPingEnv(default.modes, env)]

(* Built-in values, then the default file, then the file asked for, then   *)
(* the environment. The empty path asks for none.                          *)
LoadPingDefaults(files, path, env) ==
  LET default == MergePingConfigFile(BuiltinPingDefaults,
                                     FileAt(files, DefaultConfigPath), FALSE)
      named   == IF path = "" THEN default
                 ELSE MergePingConfigFile(default.modes, FileAt(files, path), TRUE)
  IN  [ok |-> default.ok /\ named.ok, modes |-> ApplyPingEnv(named.modes, env)]

-------------------------------------------------------------------------------
(* The constructors take the values of the flags of their mode and return  *)
(* a configuration, and whether it may be used.                            *)
NoMetrics == [base |-> "", path |-> ""]

MaxTokens(opts) ==
  IF opts["max-tokens"] = 0 THEN DefaultMaxTokens ELSE opts["max-tokens"]

NewOnlineConfig(opts) ==
  [endpoint  |-> Trim(opts["endpoint"]),
   metrics   |-> NoMetrics,
   runtime   |-> "",
   python    |-> "",
   model     |-> Trim(opts["model"]),
   prompt    |-> Trim(opts["prompt"]),
   maxTokens |-> MaxTokens(opts),
   timeout   |-> opts["timeout"]]

NonNegative(cfg) == cfg.maxTokens >= 0 /\ cfg.timeout >= 0

ValidateOnlineConfig(cfg) ==
  /\ cfg.model # "" /\ cfg.prompt # ""
  /\ cfg.endpoint # "" /\ IsHTTPURL(cfg.endpoint)
  /\ NonNegative(cfg)

(* The metrics endpoint, unless given, is below the endpoint in force.     *)
NewServe(opts) ==
  LET online   == NewOnlineConfig(opts)
      runtime  == Trim(opts["runtime"])
      metrics  == Trim(opts["metrics-endpoint"])
      endpoint == IF online.endpoint = "" THEN DefaultEndpoint ELSE online.endpoint
      cfg == [online EXCEPT
                !.runtime  = IF runtime = "" THEN "vllm" ELSE runtime,
                !.endpoint = endpoint,
                !.metrics  = IF metrics # "" THEN [base |-> metrics, path |-> ""]
                             ELSE [base |-> endpoint, path |-> "/metrics"]]
  IN  [ok  |-> /\ cfg.runtime \in Observers
               /\ ValidateOnlineConfig(cfg)
               /\ IsHTTPURL(cfg.metrics.base),
       cfg |-> cfg]

NewAPI(opts) ==
  LET cfg == NewOnlineConfig(opts)
  IN  [ok |-> cfg.endpoint # "" /\ ValidateOnlineConfig(cfg), cfg |-> cfg]

NewKServe(opts) ==
  LET cfg == NewOnlineConfig(opts)
  IN  [ok  |-> /\ Trim(opts["name"]) # ""
               /\ cfg.endpoint # "" /\ ValidateOnlineConfig(cfg),
       cfg |-> cfg]

(* The interpreter is kept by the mode, as it was given.                   *)
NewOffline(opts) ==
  LET cfg == [NewOnlineConfig(opts) EXCEPT !.endpoint = "", !.python = opts["python"]]
  IN  [ok |-> cfg.model # "" /\ cfg.prompt # "" /\ NonNegative(cfg), cfg |-> cfg]
===============================================================================
