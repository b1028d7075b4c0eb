--------------------------------- MODULE Ping ----------------------------------
(***************************************************************************)
(* inferlens ping up to the probe (pkg/ping/ping.go, Run): the arguments   *)
(* are read (PingArgs), the layers below them are loaded (Config), what the*)
(* flags were given is put on top of these, and the result is validated for*)
(* the mode. What runs then is the module of the mode: StreamClient for    *)
(* api, ServeProbe, KServeProbe or OfflineProbe.                           *)
(***************************************************************************)
EXTENDS PingArgs, Config

CONSTANTS Counts,     \* the texts strconv reads as integers, with their values
          Durations   \* the texts time.ParseDuration reads, with their values

AllFlags == UNION {FlagsOf[m] : m \in Modes}

(* The texts of the number flags; anything else stops flag parsing.        *)
NumberTexts(flag) ==
  CASE flag \in {"max-tokens", "retries"} -> DOMAIN Counts
    [] flag = "timeout"                   -> DOMAIN Durations

Malformed(values) ==
  \E f \in DOMAIN values \cap {"max-tokens", "retries", "timeout"} :
    values[f].name \notin NumberTexts(f)

FlagValue(f, text) == CASE f \in {"max-tokens", "retries"} -> Counts[text]
                        [] f = "timeout"                   -> Durations[text]
                        [] OTHER                           -> text

(* The variables behind the flags after parsing: RegisterFlags gives them  *)
(* their defaults; the name, the model and the prompt have none.           *)
Options(values, defaults) ==
  [f \in AllFlags |-> IF f \in DOMAIN values THEN FlagValue(f, values[f].name)
                      ELSE IF f \in Settings THEN defaults[f]
                      ELSE IF f = "retries" THEN 0 ELSE ""]

(* selected.Config() *)
ConfigFor(mode, opts) ==
  CASE mode = "serve"   -> NewServe(opts)
    [] mode = "api"     -> NewAPI(opts)
    [] mode = "kserve"  -> NewKServe(opts)
    [] mode = "offline" -> NewOffline(opts)

NoProbe == [started |-> FALSE]

(* Run: a probe under its configuration, or none. A deadline is set if the *)
(* timeout is positive. Only api mode looks for a token, in the environment*)
Run(args, files, env) ==
  LET read   == Read(args)
      path   == IF read.config = <<>> THEN "" ELSE read.config[1].name
      loaded == LoadPingDefaults(files, path, env)
      made   == ConfigFor(read.mode, Options(read.values, loaded.modes[read.mode]))
  IN  IF ~read.understood \/ ~loaded.ok \/ Malformed(read.values) \/ ~made.ok
      THEN NoProbe
      ELSE [ started  |-> TRUE,
             mode     |-> read.mode,
             cfg      |-> made.cfg,
             deadline |-> made.cfg.timeout > 0,
             auth     |-> IF read.mode = "api" /\ env["OPENAI_API_KEY"] # ""
                          THEN "bearer" ELSE "none" ]
===============================================================================
