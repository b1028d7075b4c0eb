------------------------------- MODULE PingArgs --------------------------------
(***************************************************************************)
(* How inferlens ping reads its command line (pkg/ping/ping.go). It is read*)
(* three times: extractConfigPath looks for the configuration file,        *)
(* parseArgs for the mode, and the flag package, told the flags of that    *)
(* mode, for the values. No state: one operator per reading.               *)
(*                                                                         *)
(* An argument is a flag, "-f" or "--f", with its value joined ("--f=v") or*)
(* in the next argument, or it is a word. Ping.tla goes on from here.      *)
(***************************************************************************)
EXTENDS Integers, SequencesExt

Modes == {"serve", "api", "offline", "kserve"}

Word(w)         == [dashes |-> 0, name |-> w, joined |-> <<>>]
Flag(d, f)      == [dashes |-> d, name |-> f, joined |-> <<>>]
Joined(d, f, v) == [dashes |-> d, name |-> f, joined |-> <<v>>]

(* The flags registered for a mode *)
Online == {"config", "model", "prompt", "endpoint", "max-tokens", "timeout", "retries"}

FlagsOf ==
  [ serve   |-> Online \cup {"runtime", "metrics-endpoint"},
    api     |-> Online,
    kserve  |-> Online \cup {"name", "namespace", "kubeconfig", "context"},
    offline |-> {"config", "model", "prompt", "max-tokens", "timeout", "python"} ]

IsConfig(arg) == arg.dashes = 2 /\ arg.name = "config"

(* extractConfigPath: the first --config, whatever stands before it        *)
ConfigPath(args) ==
  LET at == {i \in DOMAIN args : IsConfig(args[i])}
      i  == Min(at)
  IN  IF at = {} THEN [ok |-> TRUE, path |-> <<>>]
      ELSE IF args[i].joined # <<>> THEN [ok |-> TRUE, path |-> args[i].joined]
      ELSE IF i = Len(args) THEN [ok |-> FALSE, path |-> <<>>]
      ELSE [ok |-> TRUE, path |-> <<args[i + 1]>>]

(* Mutated: the value of --config is taken for a word of its own.          *)
ModeAt_NoSkip(args) ==
  LET words == {i \in DOMAIN args : args[i].dashes = 0}
  IN  IF words # {} /\ args[Min(words)].name \in Modes THEN Min(words) ELSE 0

(* parseArgs: the first word that is not the value of --config, if it is a *)
(* mode; else 0                                                            *)
ModeAt(args) ==
  LET from[i \in 1..Len(args) + 2] ==
        IF i > Len(args) THEN 0
        ELSE IF IsConfig(args[i]) /\ args[i].joined = <<>> THEN from[i + 2]
        ELSE IF args[i].dashes > 0 THEN from[i + 1]
        ELSE IF args[i].name \in Modes THEN i ELSE 0
  IN  from[1]

(* The values, and v for the flag f unless there is one already            *)
Give(values, f, v) ==
  [g \in DOMAIN values \cup {f} |-> IF g \in DOMAIN values THEN values[g] ELSE v]

(* The flag package: the values given to flags it knows, the last one of   *)
(* each, up to the first word that is no value (external).                 *)
Parse(flags, args) ==
  LET from[i \in 1..Len(args) + 2] ==
        IF i > Len(args) THEN [ok |-> TRUE, left |-> 0, values |-> <<>>]
        ELSE IF args[i].dashes = 0
        THEN [ok |-> TRUE, left |-> Len(args) + 1 - i, values |-> <<>>]
        ELSE LET arg  == args[i]
                 next == from[IF arg.joined = <<>> THEN i + 2 ELSE i + 1]
             IN  IF arg.name \notin flags \/ (arg.joined = <<>> /\ i = Len(args))
                 THEN [ok |-> FALSE, left |-> 0, values |-> <<>>]
                 ELSE [next EXCEPT !.values =
                         Give(@, arg.name, IF arg.joined = <<>> THEN args[i + 1]
                                           ELSE arg.joined[1])]
  IN  from[1]

(* What the arguments say, if they say something: each of the three      *)
(* readings starts from the arguments, not from what another one found.    *)
Read(args) ==
  LET config == ConfigPath(args)
      at     == ModeAt(args)
      mode   == IF at = 0 THEN "serve" ELSE args[at].name
      parsed == Parse(FlagsOf[mode], IF at = 0 THEN args ELSE RemoveAt(args, at))
  IN  [ understood |-> config.ok /\ parsed.ok /\ parsed.left = 0,
        mode       |-> mode,
        config     |-> config.path,
        values     |-> parsed.values ]
===============================================================================
