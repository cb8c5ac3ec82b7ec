----------------------------- MODULE Configuration -----------------------------
(***************************************************************************)
(* The effective configuration (src/infrastructure/config/mod.rs) and the  *)
(* places it comes from (src/cli/dispatch.rs, src/infrastructure/paths):   *)
(* the file, then the ATX_* variables, then explicit options.  A layer     *)
(* gives some of the fields a value.                                       *)
(***************************************************************************)
EXTENDS Integers, Functions, Texts

CONSTANTS
  SystemZones,      \* the time zones the system knows
  AbsolutePaths,    \* the texts that are absolute paths
  DurationParts,    \* a text -> the parts of the duration it spells
  MaxRetentionDays,
  MaxLogBytes

(* "none" stands for a text that is not there.                             *)
ASSUME PathsAssumption == "none" \notin AbsolutePaths

Runtimes == {"session", "durable"}
Colors == {"auto", "always", "never"}
Verbosities == {"quiet", "normal", "verbose"}

Defaults ==
  [default_timezone |-> "local", default_runtime |-> "session", default_shell |-> "/bin/sh",
   cancel_grace |-> "10s", history_days |-> 30, terminal_job_days |-> 30,
   max_log_bytes_per_stream |-> 10, color |-> "auto", verbosity |-> "normal"]

Fields == DOMAIN Defaults
Unset == [f \in {} |-> 0]

(* RawConfig::apply.                                                       *)
apply(layer, other) ==
  [f \in DOMAIN layer \cup DOMAIN other |-> IF f \in DOMAIN other THEN other[f] ELSE layer[f]]

(* A number that does not parse is written NoParse.                        *)
NoParse == -1

(* What the layers themselves refuse: the three enumerations and the three *)
(* numbers are parsed with their layer, the texts are only validated after *)
(* the merge.                                                              *)
Typed(layer) ==
  \A f \in DOMAIN layer :
    CASE f = "default_runtime" -> layer[f] \in Runtimes
      [] f = "color"           -> layer[f] \in Colors
      [] f = "verbosity"       -> layer[f] \in Verbosities
      [] f \in {"history_days", "terminal_job_days", "max_log_bytes_per_stream"} -> layer[f] # NoParse
      [] OTHER                 -> TRUE

(* environment_layer also refuses an ATX_ variable it does not know.       *)
environment_layer_ok(layer) == DOMAIN layer \subseteq Fields /\ Typed(layer)

parse_duration(text) ==
  IF text \in DOMAIN DurationParts THEN duration_from_str(DurationParts[text]) ELSE NoDuration

checked_days(value) == value \in 1 .. MaxRetentionDays

validate(config) ==
  /\ config.default_timezone \in SystemZones \cup {"local"}
  /\ config.default_shell \in AbsolutePaths
  /\ parse_duration(config.cancel_grace) # NoDuration
  /\ checked_days(config.history_days) /\ checked_days(config.terminal_job_days)
  /\ config.max_log_bytes_per_stream \in 1 .. MaxLogBytes

NoConfig == [f \in {} |-> 0]

load_config_FileLast(file, environment, overrides) ==
  LET config == apply(apply(apply(Defaults, environment), overrides), file)
  IN  IF Typed(file) /\ DOMAIN file \subseteq Fields /\ environment_layer_ok(environment)
         /\ validate(config)
      THEN config ELSE NoConfig

load_config(file, environment, overrides) ==
  LET config == apply(apply(apply(Defaults, file), environment), overrides)
  IN  IF Typed(file) /\ DOMAIN file \subseteq Fields /\ environment_layer_ok(environment)
         /\ validate(config)
      THEN config ELSE NoConfig

-------------------------------------------------------------------------------
(* The options a scheduling command line overrides the configuration with. *)
(* The file is a layer, or cannot be read.                                 *)
ConfigOverrides(global, durable) ==
  LET given == [default_runtime |-> IF durable THEN "durable" ELSE "none",
                color           |-> global.color,
                verbosity       |-> IF global.quiet THEN "quiet"
                                    ELSE IF global.verbose THEN "verbose" ELSE "none"]
  IN  Restrict(given, {f \in DOMAIN given : given[f] # "none"})

load_effective_config(file, environment, global, durable) ==
  IF ~ file.readable THEN NoConfig
  ELSE load_config(file.layer, environment, ConfigOverrides(global, durable))

(* The supervisor and the monitors: no command line, and the environment   *)
(* of whoever started the first of them.                                   *)
load_process_config(file, environment) ==
  IF ~ file.readable THEN NoConfig ELSE load_config(file.layer, environment, Unset)

(* resolve_paths: with --state-dir both directories are under it.          *)
NoPaths == [state |-> "none", runtime |-> "none"]

resolve_paths(home, state_override) ==
  LET default(root, else) == IF root # "none" THEN root ELSE else
      state   == default(state_override, default(home.xdg_state_home, home.home))
      runtime == default(state_override, default(home.xdg_runtime_dir, home.temporary_directory))
  IN  IF {state, runtime} \subseteq AbsolutePaths THEN [state |-> state, runtime |-> runtime]
      ELSE NoPaths
===============================================================================
