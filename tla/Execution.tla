------------------------------- MODULE Execution -------------------------------
(***************************************************************************)
(* What a job runs (src/domain/execution.rs), how it is built from the     *)
(* command line (build_execution of src/cli/dispatch.rs), and its text in  *)
(* the database, which is validated again on every load.                   *)
(***************************************************************************)
EXTENDS Configuration, Arguments

CONSTANTS
  Sizes,               \* a text -> its bytes (1 for the others)
  Scalars,             \* a text -> its Unicode scalar values (1 for the others)
  NotUtf8, WithNul,    \* the texts that are not UTF-8, that contain NUL
  InvalidKeys,         \* the texts that cannot name a variable
  RetainedKeys,        \* HOME, USER, ..., LC_*: inherited by default
  Assignments,         \* a text KEY=VALUE -> its key and value
  RealPaths,           \* a text that names a file or a directory -> its absolute path without links
  Directories,         \* the paths of the directories
  MaxArgumentBytes, MaxSerializedBytes, MaxNameSize, MaxDescriptionSize

Bytes(text) == IF text \in DOMAIN Sizes THEN Sizes[text] ELSE 1

Length(text) == IF text \in DOMAIN Scalars THEN Scalars[text] ELSE 1

Total(f) == FoldFunction(LAMBDA size, sum : size + sum, 0, f)

NoEnvironment == [key \in {} |-> NoText]

-------------------------------------------------------------------------------
(* Environment and ExecutionSpec::new.  A SecretString prints as           *)
(* [REDACTED] unless it is exposed.                                        *)
SecretString(value) == [secret |-> value]
expose(secret) == secret.secret

from_pairs_ok(values) ==
  \A key \in DOMAIN values : key \notin InvalidKeys /\ values[key] \notin WithNul

from_pairs(values) == [key \in DOMAIN values |-> SecretString(values[key])]

EnvironmentSize(environment) ==
  Total([key \in DOMAIN environment |-> Bytes(key) + Bytes(expose(environment[key])) + 2])

SerializedSize(argv, environment, cwd) ==
  Total([i \in DOMAIN argv |-> Bytes(argv[i])]) + EnvironmentSize(environment) + Bytes(cwd)

NoExecution == [mode |-> "none", argv |-> <<>>, working_directory |-> "none",
                environment |-> NoEnvironment, shell_path |-> "none", notify_tty |-> "none"]

ExecutionSpec(mode, argv, cwd, environment) ==
  IF /\ argv # <<>> /\ (mode = "shell" => Len(argv) = 1)
     /\ \A i \in DOMAIN argv : argv[i] \notin WithNul /\ Bytes(argv[i]) <= MaxArgumentBytes
     /\ cwd \in AbsolutePaths
     /\ SerializedSize(argv, environment, cwd) <= MaxSerializedBytes
  THEN [mode |-> mode, argv |-> argv, working_directory |-> cwd, environment |-> environment,
        shell_path |-> IF mode = "shell" THEN "/bin/sh" ELSE "none", notify_tty |-> "none"]
  ELSE NoExecution

set_shell_path(spec, path) ==
  IF spec.mode = "shell" /\ path \in AbsolutePaths THEN [spec EXCEPT !.shell_path = path]
  ELSE NoExecution

(* The terminal counts towards the limit, the shell does not.              *)
set_notify_tty(spec, tty) ==
  IF \/ tty \in WithNul \cup {NoText}
     \/ SerializedSize(spec.argv, spec.environment, spec.working_directory) + Bytes(tty)
          > MaxSerializedBytes
  THEN NoExecution
  ELSE [spec EXCEPT !.notify_tty = tty]

-------------------------------------------------------------------------------
(* The JSON a row holds (PersistedExecutionSpec), and reading it back.     *)
Persisted(spec, environment) ==
  [mode |-> spec.mode, argv |-> spec.argv, working_directory |-> spec.working_directory,
   environment |-> environment, stdin |-> "null", stdout |-> "bounded_file",
   stderr |-> "bounded_file", shell_path |-> spec.shell_path, notify_tty |-> spec.notify_tty]

to_persistence_json_Redacted(spec) ==
  Persisted(spec, [key \in DOMAIN spec.environment |-> "[REDACTED]"])

to_persistence_json(spec) ==
  Persisted(spec, [key \in DOMAIN spec.environment |-> expose(spec.environment[key])])

from_persistence_json(stored) ==
  LET spec  == ExecutionSpec(stored.mode, stored.argv, stored.working_directory,
                             from_pairs(stored.environment))
      shell == IF stored.mode = "shell" THEN set_shell_path(spec, stored.shell_path) ELSE spec
  IN  IF \/ stored.stdin # "null" \/ {stored.stdout, stored.stderr} # {"bounded_file"}
         \/ ~ from_pairs_ok(stored.environment)
         \/ spec = NoExecution \/ shell = NoExecution
         \/ (stored.mode = "direct") # (stored.shell_path = "none")
      THEN NoExecution
      ELSE IF stored.notify_tty = "none" THEN shell ELSE set_notify_tty(shell, stored.notify_tty)

-------------------------------------------------------------------------------
(* build_environment: the inherited variables, then the file's, then the   *)
(* options'.                                                               *)
BadEnvironment == [key \in {"error"} |-> SecretString("error")]

Extend_FirstWins(environment, pairs) ==
  FoldLeft(LAMBDA env, pair : [key \in DOMAIN env \cup {pair[1]} |->
                                 IF key \in DOMAIN env THEN env[key] ELSE pair[2]],
           environment, pairs)

Extend(environment, pairs) ==
  FoldLeft(LAMBDA env, pair : [key \in DOMAIN env \cup {pair[1]} |->
                                 IF key = pair[1] THEN pair[2] ELSE env[key]],
           environment, pairs)

(* collect_process_environment: only what is kept must be UTF-8.           *)
collect_process_environment(process, keys) == Restrict(process, DOMAIN process \cap keys)

Utf8(environment) ==
  \A key \in DOMAIN environment : key \notin NotUtf8 /\ environment[key] \notin NotUtf8

(* read_env_file: no key twice, every key valid.                           *)
read_env_file_ok(file) ==
  /\ file.regular
  /\ \A i, k \in DOMAIN file.lines : file.lines[i][1] = file.lines[k][1] => i = k
  /\ \A i \in DOMAIN file.lines : file.lines[i][1] \notin InvalidKeys /\ file.lines[i][2] \notin WithNul

NoFile == [regular |-> TRUE, lines |-> <<>>]

build_environment(args, process, env_file) ==
  LET kept  == IF Has(args, "--capture-env") THEN DOMAIN process ELSE RetainedKeys
      base  == collect_process_environment(process, kept)
      given == IF Has(args, "--env") THEN args.options["--env"] ELSE <<>>
      file  == IF Has(args, "--env-file") THEN env_file ELSE NoFile
      all   == Extend(Extend(base, file.lines), [i \in DOMAIN given |-> Assignments[given[i]]])
  IN  IF /\ Utf8(base) /\ read_env_file_ok(file)
         /\ \A i \in DOMAIN given : given[i] \in DOMAIN Assignments
         /\ from_pairs_ok(all)
      THEN from_pairs(all) ELSE BadEnvironment

(* fs::canonicalize: relative paths and links are resolved.                *)
NoPath == "none"

canonicalize(path) == IF path \in DOMAIN RealPaths THEN RealPaths[path] ELSE NoPath

(* stdout is the terminal that --tty asks for, or none.                    *)
build_execution(args, config, process, env_file, cwd, stdout) ==
  LET mode        == IF Has(args, "--shell") THEN "shell" ELSE "direct"
      directory   == canonicalize(IF Has(args, "--cwd") THEN Value(args, "--cwd") ELSE cwd)
      environment == build_environment(args, process, env_file)
      spec        == ExecutionSpec(mode, args.argv, directory, environment)
      shelled     == IF mode = "shell" /\ spec # NoExecution
                     THEN set_shell_path(spec, config.default_shell) ELSE spec
  IN  IF \/ \E i \in DOMAIN args.argv : args.argv[i] \in NotUtf8
         \/ directory = NoPath \/ directory \notin Directories \/ directory \in NotUtf8
         \/ environment = BadEnvironment
         \/ shelled = NoExecution
         \/ Has(args, "--tty") /\ stdout = "none"
      THEN NoExecution
      ELSE IF Has(args, "--tty") THEN set_notify_tty(shelled, stdout) ELSE shelled
===============================================================================
