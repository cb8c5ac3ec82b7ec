----------------------------- MODULE RequestsProofs -----------------------------
(***************************************************************************)
(* What the exit code says, when a job is due, how it is configured and    *)
(* that it can be loaded again, for any commands, configuration files,     *)
(* environments, zones and clocks.                                         *)
(***************************************************************************)
EXTENDS Requests, FiniteSetTheorems, WellFoundedInduction, TLAPS

(* The command lines are parsed as they were meant (MeansWhatWasTyped).    *)
LinesAreMeant == \A c \in Commands : parse_from(c.line) = c.meant

Pcs == {"parse", "policy", "config", "build", "service", "submit", "open", "create", "acknowledge",
        "managed", "done"}

(* How far the command has come.                                           *)
Progress ==
  /\ pc \in Pcs /\ req \in Commands
  /\ pc # "parse" => args = req.meant
  /\ pc \notin {"parse", "managed", "done"} => args.command = Schedule
  /\ pc # "done" => exit = NoExit

(* What it has left behind so far.                                         *)
Left ==
  /\ pc \notin {"open", "create", "acknowledge", "done"} => disk = Nothing
  /\ disk \in [directory : BOOLEAN, database : BOOLEAN, rows : {{}, {Row(job)}},
               acknowledged : BOOLEAN]
  /\ pc \in {"open", "create"} => disk.rows = {}
  /\ pc = "acknowledge" => disk.rows = {Row(job)}
  /\ pc # "done" => disk.acknowledged = FALSE
  /\ pc \in {"open", "create", "acknowledge"} => ~ Has(args, "--dry-run")

(* A durable job got past the check of the service.                        *)
UnderService ==
  /\ pc \in {"submit", "open", "create", "acknowledge"} \/ disk.rows # {} =>
       (job.tier = "durable" => service)

Reported ==
  /\ exit = 0 => IF req.meant = DisplayHelp \/ Has(req.meant, "--dry-run") THEN disk = Nothing
                 ELSE disk.rows # {} /\ disk.acknowledged
  /\ exit = 11 => disk.rows # {} /\ ~ disk.acknowledged
  /\ exit \in {2, 5, 10, 12} => disk.rows = {}
  /\ exit \in {2, 5} \/ (exit = 70 /\ req.unwritable = {}) => disk = Nothing

ExitInv == Progress /\ Left /\ UnderService /\ Reported

LEMMA RowTier == ASSUME NEW j PROVE Row(j).tier = j.tier
BY DEF Row

(* How a command ends: as it means to, or by a panic of what it prints.    *)
Panics == pc' = "done" /\ exit' = 70 /\ req.unwritable # {}
Ends(code) == Panics \/ (pc' = "done" /\ exit' = code)

LEMMA Endings ==
  /\ \A code : Fail(code) => Ends(code)
  /\ \A option : WarningFails(option) /\ Panic => Panics
  /\ Submitted("dry_run") \/ Submitted("supervised") => Ends(0)
  /\ Submitted("committed_unsupervised") => Ends(11)
BY DEF Fail, Panic, PrintFails, Exit, WarningFails, Submitted, RenderFails, Panics, Ends

LEMMA ScheduleIsNoHelp == ASSUME NEW a, a.command = Schedule PROVE a # DisplayHelp
BY DEF DisplayHelp, NotParsed, Schedule

LEMMA ExitInvInit == Init => ExitInv
BY DEF Init, ExitInv, Progress, Pcs, Left, UnderService, Reported, Nothing, NoExit, Row, NoJob

LEMMA ExitInvStep ==
  ASSUME LinesAreMeant, ExitInv, [Next]_vars
  PROVE  ExitInv'
<1> USE DEF ExitInv, Progress, Pcs, Left, UnderService, Reported, Nothing, NoExit
<1>1. CASE Parse
  <2>1. /\ pc = "parse" /\ disk = Nothing /\ disk' = Nothing /\ args' = req.meant /\ exit = NoExit
        /\ UNCHANGED <<req, job, service>>
    BY <1>1 DEF Parse, LinesAreMeant
  <2>2. \/ Ends(2) \/ (args' = DisplayHelp /\ pc' = "done" /\ exit' = 0)
        \/ (args'.command = Schedule /\ pc' = "policy" /\ exit' = exit)
        \/ (pc' = "managed" /\ exit' = exit)
    BY <1>1, Endings DEF Parse, Usage, Exit, Ends
  <2> QED
    BY <2>1, <2>2 DEF Ends, Panics
<1>2. CASE ResolveOutputPolicy
  BY <1>2 DEF ResolveOutputPolicy
<1>3. CASE EditConfig
  BY <1>3 DEF EditConfig
<1>4. CASE LoadConfig
  <2>1. Panics \/ Ends(12) \/ Ends(2) \/ (pc' = "build" /\ exit' = exit)
    BY <1>4, Endings DEF LoadConfig, Permission, Usage
  <2> QED
    BY <1>4, <2>1 DEF LoadConfig, Ends, Panics
<1>5. CASE BuildJob
  <2>1. Ends(2) \/ (pc' = "service" /\ exit' = exit)
        \/ (job'.tier = "session" /\ pc' = "submit" /\ exit' = exit)
    BY <1>5, Endings DEF BuildJob, Usage
  <2> QED
    BY <1>5, <2>1 DEF BuildJob, Ends, Panics
<1>6. CASE ClockFails
  <2>1. Ends(70)
    BY <1>6, Endings DEF ClockFails, Internal
  <2> QED
    BY <1>6, <2>1 DEF ClockFails, Ends, Panics
<1>7. CASE CheckService
  <2>1. \/ service' = TRUE /\ pc' = "submit" /\ exit' = exit
        \/ Ends(5) /\ service' = service
    BY <1>7, Endings DEF CheckService, Capability
  <2> QED
    BY <1>7, <2>1 DEF CheckService, Ends, Panics
<1>8. CASE DryRun
  <2>1. Ends(0) /\ Has(req.meant, "--dry-run") /\ disk = Nothing
    BY <1>8, Endings DEF DryRun
  <2> QED
    BY <1>8, <2>1 DEF DryRun, Ends, Panics
<1>9. CASE EnsurePrivateDir
  <2>1. pc = "submit" /\ disk = Nothing /\ UNCHANGED <<req, args, job, service>>
    BY <1>9 DEF EnsurePrivateDir
  <2>2. CASE disk' = [disk EXCEPT !.directory = TRUE] /\ pc' = "open" /\ UNCHANGED exit
    <3>1. disk' = [directory |-> TRUE, database |-> FALSE, rows |-> {}, acknowledged |-> FALSE]
      BY <2>1, <2>2
    <3>2. /\ ~ Has(args, "--dry-run") /\ (job.tier = "durable" => service)
          /\ exit = NoExit /\ req \in Commands /\ args = req.meant /\ args.command = Schedule
      BY <1>9, <2>1 DEF EnsurePrivateDir
    <3>3. /\ disk' \in [directory : BOOLEAN, database : BOOLEAN, rows : {{}, {Row(job)}},
                        acknowledged : BOOLEAN]
          /\ disk'.rows = {} /\ disk'.acknowledged = FALSE
      BY <3>1
    <3> QED
      BY <2>1, <2>2, <3>2, <3>3
  <2>3. CASE Permission /\ UNCHANGED disk
    <3>1. Ends(12)
      BY <2>3, Endings DEF Permission
    <3> QED
      BY <2>1, <2>3, <3>1 DEF Ends, Panics
  <2> QED
    BY <1>9, <2>2, <2>3 DEF EnsurePrivateDir
<1>10. CASE OpenDatabase
  <2>1. pc = "open" /\ disk.rows = {} /\ disk.acknowledged = FALSE
        /\ UNCHANGED <<req, args, job, service>>
    BY <1>10 DEF OpenDatabase
  <2>2. /\ disk' \in [directory : BOOLEAN, database : BOOLEAN, rows : {{}, {Row(job)}},
                      acknowledged : BOOLEAN]
        /\ disk'.rows = {} /\ disk'.acknowledged = FALSE
    BY <1>10, <2>1 DEF OpenDatabase
  <2>3. (pc' = "create" /\ UNCHANGED exit) \/ Ends(10)
    BY <1>10, Endings DEF OpenDatabase, Storage
  <2>4. ~ Has(args, "--dry-run") /\ (job.tier = "durable" => service)
    BY <2>1
  <2> QED
    BY <2>1, <2>2, <2>3, <2>4 DEF Ends, Panics
<1>11. CASE CreateJob
  <2>1. \/ disk' = [disk EXCEPT !.rows = @ \cup {Row(job)}] /\ pc' = "acknowledge" /\ exit' = exit
        \/ Ends(10) /\ disk' = disk
    BY <1>11, Endings DEF CreateJob, Storage
  <2> QED
    BY <1>11, <2>1 DEF CreateJob, Ends, Panics
<1>12. CASE Acknowledge
  <2>1. /\ pc = "acknowledge" /\ disk.rows = {Row(job)} /\ ~ Has(req.meant, "--dry-run")
        /\ req.meant # DisplayHelp /\ disk.acknowledged = FALSE
        /\ UNCHANGED <<req, args, job, service>>
    BY <1>12, ScheduleIsNoHelp DEF Acknowledge
  <2>2. /\ disk' \in [directory : BOOLEAN, database : BOOLEAN, rows : {{}, {Row(job)}},
                      acknowledged : BOOLEAN]
        /\ disk'.rows = {Row(job)}
    BY <1>12, <2>1 DEF Acknowledge
  <2>3. \/ Ends(0) /\ disk'.acknowledged = TRUE
        \/ Ends(11) /\ disk'.acknowledged = FALSE
    BY <1>12, <2>1, Endings DEF Acknowledge
  <2> QED
    BY <2>1, <2>2, <2>3 DEF Ends, Panics
<1>13. CASE UNCHANGED vars
  BY <1>13 DEF vars
<1> QED
  BY <1>1, <1>2, <1>3, <1>4, <1>5, <1>6, <1>7, <1>8, <1>9, <1>10, <1>11, <1>12, <1>13
     DEF Next, Finished

(* The exit code tells the truth, for any world the command meets and any  *)
(* step of it that fails, what it prints included: given lines that are    *)
(* parsed as they were meant, 0 means stored and acknowledged, or help, a  *)
(* version or a dry run that left nothing, 11 stored and not acknowledged, *)
(* and every other code that no job was stored, but for 70 after a panic   *)
(* of what is printed (run, run_schedule, schedule, submit_job).           *)
THEOREM ExitTellsTruthHolds ==
  ASSUME LinesAreMeant
  PROVE  Spec => []ExitTellsTruth
<1>1. ExitInv => ExitTellsTruth
  <2> SUFFICES ASSUME ExitInv PROVE ExitTellsTruth
    OBVIOUS
  <2>1. disk.rows # {} => disk.rows = {Row(job)} /\ Cardinality(disk.rows) = 1
    <3>1. Cardinality({Row(job)}) = 1
      BY FS_Singleton
    <3> QED
      BY <3>1 DEF ExitInv, Left
  <2>2. \A row \in disk.rows : row.tier = "durable" => service
    BY <2>1, RowTier DEF ExitInv, UnderService
  <2> QED
    BY <2>1, <2>2 DEF ExitInv, Reported, ExitTellsTruth
<1> QED
  BY <1>1, ExitInvInit, ExitInvStep, PTL DEF Spec

-------------------------------------------------------------------------------
(* The job that is submitted: built from the words as they were meant and  *)
(* from the configuration as it was read last, which nobody looks at again *)
(* afterwards.                                                             *)
Effective == load_effective_config(file, req.environment, policy, Has(req.meant, "--durable"))

Built ==
  /\ pc \in {"parse", "policy", "config", "build", "managed"} => job = NoJob
  /\ pc \in {"service", "submit", "open", "create", "acknowledge"} => job # NoJob
  /\ disk.rows # {} => job # NoJob
  /\ pc = "build" \/ job # NoJob => config # NoConfig /\ config = Effective
  /\ pc \in {"policy", "config", "build"} \/ job # NoJob => args.command = Schedule
  /\ job # NoJob => \E id \in Ids : job = build_job(id)

(* The output options, before and after the configuration is asked.        *)
OutputAsGiven ==
  /\ policy.quiet \in BOOLEAN /\ policy.verbose \in BOOLEAN
  /\ ~ (policy.quiet /\ policy.verbose)
  /\ Has(args, "--quiet") => policy.quiet
  /\ Has(args, "--verbose") => policy.verbose
  /\ Has(args, "--color") => policy.color = Value(args, "--color") /\ policy.color # "none"

BuiltInv == ExitInv /\ Built /\ (pc # "parse" => OutputAsGiven)

LEMMA NoJobTier == NoJob.tier = "none"
BY DEF NoJob

LEMMA JobKept ==
  ASSUME UNCHANGED <<req, args, config>>, NEW id
  PROVE  build_job(id)' = build_job(id)
BY DEF build_job, RuntimeTier, MissedPolicy, Metadata

LEMMA BuiltStep ==
  ASSUME LinesAreMeant, ExitInv, Built, [Next]_vars
  PROVE  Built'
<1> USE DEF Exit, Panic, Fail, Usage, Capability, Storage, Permission, Internal
<1>1. CASE Parse \/ ResolveOutputPolicy \/ EditConfig
  <2>1. job' = NoJob /\ disk'.rows = {} /\ pc' \in {"policy", "config", "managed", "done"}
    BY <1>1 DEF Parse, ResolveOutputPolicy, EditConfig, Built, ExitInv, Left, Nothing
  <2>2. pc' \in {"policy", "config"} => args'.command = Schedule
    BY <1>1 DEF Parse, ResolveOutputPolicy, EditConfig, Built
  <2> QED
    BY <2>1, <2>2 DEF Built
<1>2. CASE LoadConfig
  <2>1. /\ job' = NoJob /\ disk'.rows = {} /\ pc' \in {"build", "done"} /\ args = req.meant
        /\ UNCHANGED <<req, file, args, policy>> /\ args.command = Schedule
    BY <1>2 DEF LoadConfig, Built, ExitInv, Left, Nothing, Progress
  <2>2. pc' = "build" => config' # NoConfig /\ config' = Effective
    BY <1>2, <2>1 DEF LoadConfig, Effective
  <2>3. Effective' = Effective
    BY <2>1 DEF Effective
  <2> QED
    BY <2>1, <2>2, <2>3 DEF Built
<1>3. CASE BuildJob
  <2>1. /\ UNCHANGED <<req, file, args, policy, config, disk>> /\ pc = "build"
        /\ config # NoConfig /\ config = Effective /\ disk.rows = {} /\ args.command = Schedule
    BY <1>3 DEF BuildJob, Built, ExitInv, Left, Nothing
  <2>2. PICK id \in Ids : job' = build_job(id)
    BY <1>3 DEF BuildJob
  <2>3. job' = build_job(id)'
    BY <2>1, <2>2, JobKept
  <2>4. /\ pc' \in {"service", "submit", "done"}
        /\ pc' \in {"service", "submit"} => job' # NoJob
    BY <1>3, NoJobTier DEF BuildJob
  <2>5. Effective' = Effective
    BY <2>1 DEF Effective
  <2> QED
    BY <2>1, <2>3, <2>4, <2>5 DEF Built
<1>4. CASE ~ (Parse \/ ResolveOutputPolicy \/ EditConfig \/ LoadConfig \/ BuildJob)
  <2>1. UNCHANGED <<req, file, args, policy, config, job>>
    BY <1>4 DEF Next, Finished, vars, ClockFails, CheckService, DryRun, EnsurePrivateDir,
         OpenDatabase, CreateJob, Acknowledge
  <2>2. \A id : build_job(id)' = build_job(id)
    BY <2>1, JobKept
  <2>3. Effective' = Effective
    BY <2>1 DEF Effective
  <2>4. /\ pc' = pc \/ pc' = "done" \/ pc \in {"service", "submit", "open", "create", "acknowledge"}
        /\ pc' = pc \/ pc' \in {"done", "submit", "open", "create", "acknowledge"}
    BY <1>4 DEF Next, Finished, vars, ClockFails, CheckService, DryRun, EnsurePrivateDir,
         OpenDatabase, CreateJob, Acknowledge, Submitted
  <2>5. disk'.rows # {} => disk.rows # {} \/ pc = "create"
    <3>1. CASE EnsurePrivateDir \/ OpenDatabase \/ Acknowledge
      <4>1. disk'.rows = disk.rows
        BY <3>1 DEF EnsurePrivateDir, OpenDatabase, Acknowledge, ExitInv, Left
      <4> QED
        BY <4>1
    <3>2. CASE CreateJob
      BY <3>2 DEF CreateJob
    <3> QED
      BY <1>4, <3>1, <3>2 DEF Next, Finished, vars, ClockFails, CheckService, DryRun
  <2> QED
    BY <2>1, <2>2, <2>3, <2>4, <2>5 DEF Built
<1> QED
  BY <1>1, <1>2, <1>3, <1>4

(* clap refuses --quiet with --verbose, and other colors than its own.     *)
LEMMA ParsedOptions ==
  ASSUME NEW words
  PROVE  LET parsed == parse_from(words)
         IN  /\ ~ (Has(parsed, "--quiet") /\ Has(parsed, "--verbose"))
             /\ Has(parsed, "--color") => Value(parsed, "--color") \in {"auto", "always", "never"}
             /\ Has(parsed, "--dst") => Value(parsed, "--dst") \in {"reject", "earlier", "later"}
<1> DEFINE raw == try_parse_from(normalize_management_order(words))
<1>2. ASSUME NEW c, NEW acc, Acceptable(c, acc), raw.options = acc.options
      PROVE  /\ ~ (Has(raw, "--quiet") /\ Has(raw, "--verbose"))
             /\ Has(raw, "--color") => Value(raw, "--color") \in {"auto", "always", "never"}
             /\ Has(raw, "--dst") => Value(raw, "--dst") \in {"reject", "earlier", "later"}
  <2>1. ~ {"--quiet", "--verbose"} \subseteq DOMAIN acc.options
    BY <1>2 DEF Acceptable, Conflicts
  <2>2. \A o \in DOMAIN acc.options \cap {"--color", "--dst", "--missed"} :
          acc.options[o][1] \in Enumerations[o]
    BY <1>2 DEF Acceptable, Sound, Enumerations
  <2>3. /\ Enumerations["--color"] = {"auto", "always", "never"}
        /\ Enumerations["--dst"] = {"reject", "earlier", "later"}
    BY DEF Enumerations
  <2> QED
    BY <1>2, <2>1, <2>2, <2>3 DEF Has, Value
<1>3. raw \in {NotParsed, DisplayHelp} \/ \E c, acc : Acceptable(c, acc) /\ raw.options = acc.options
  BY DEF try_parse_from
<1>4. parse_from(words) \in {raw, NotParsed}
  BY DEF parse_from
<1>5. \A o : ~ Has(NotParsed, o) /\ ~ Has(DisplayHelp, o)
  <2>1. NotParsed.options = Empty /\ DisplayHelp.options = Empty /\ DOMAIN Empty = {}
    BY DEF NotParsed, DisplayHelp, Empty
  <2> QED
    BY <2>1 DEF Has
<1> QED
  BY <1>2, <1>3, <1>4, <1>5

LEMMA OutputStep ==
  ASSUME BuiltInv, [Next]_vars, pc' # "parse"
  PROVE  OutputAsGiven'
<1>1. CASE Parse
  <2>1. /\ args' = parse_from(req.line)
        /\ policy'.quiet = Has(args', "--quiet") /\ policy'.verbose = Has(args', "--verbose")
        /\ Has(args', "--color") => policy'.color = Value(args', "--color")
    BY <1>1 DEF Parse
  <2>2. /\ ~ (Has(args', "--quiet") /\ Has(args', "--verbose"))
        /\ Has(args', "--color") => Value(args', "--color") # "none"
    BY <2>1, ParsedOptions
  <2>3. Has(args', "--quiet") \in BOOLEAN /\ Has(args', "--verbose") \in BOOLEAN
    BY DEF Has
  <2> QED
    BY <2>1, <2>2, <2>3 DEF OutputAsGiven
<1>2. CASE ResolveOutputPolicy
  <2>1. /\ pc = "policy" /\ policy' = resolve_output_policy /\ UNCHANGED args
    BY <1>2 DEF ResolveOutputPolicy
  <2>2. OutputAsGiven
    BY <2>1 DEF BuiltInv
  <2>3. CASE policy' = policy
    BY <2>1, <2>2, <2>3 DEF OutputAsGiven
  <2>4. ASSUME NEW found,
               policy' = [quiet   |-> IF ~ policy.quiet /\ ~ policy.verbose
                                      THEN found.verbosity = "quiet" ELSE policy.quiet,
                          verbose |-> IF ~ policy.quiet /\ ~ policy.verbose
                                      THEN found.verbosity = "verbose" ELSE policy.verbose,
                          color   |-> IF policy.color = "none" THEN found.color ELSE policy.color]
        PROVE  OutputAsGiven'
    <3>1. Has(args, "--color") => policy'.color = policy.color
      BY <2>2, <2>4 DEF OutputAsGiven
    <3>2. CASE ~ policy.quiet /\ ~ policy.verbose
      <4>1. policy'.quiet = (found.verbosity = "quiet") /\ policy'.verbose = (found.verbosity = "verbose")
        BY <2>4, <3>2
      <4> QED
        BY <2>1, <2>2, <3>1, <3>2, <4>1 DEF OutputAsGiven
    <3>3. CASE policy.quiet \/ policy.verbose
      <4>1. policy'.quiet = policy.quiet /\ policy'.verbose = policy.verbose
        BY <2>4, <3>3
      <4> QED
        BY <2>1, <2>2, <3>1, <4>1 DEF OutputAsGiven
    <3> QED
      BY <3>2, <3>3
  <2> QED
    BY <2>1, <2>3, <2>4 DEF resolve_output_policy
<1>3. CASE ~ Parse /\ ~ ResolveOutputPolicy
  <2>1. UNCHANGED <<args, policy>>
    BY <1>3 DEF Next, Finished, vars, EditConfig, LoadConfig, BuildJob, ClockFails, CheckService,
         DryRun, EnsurePrivateDir, OpenDatabase, CreateJob, Acknowledge
  <2>2. pc # "parse"
    BY <1>3 DEF Next, Finished, vars, EditConfig, LoadConfig, BuildJob, ClockFails, CheckService,
         DryRun, EnsurePrivateDir, OpenDatabase, CreateJob, Acknowledge
  <2>3. OutputAsGiven
    BY <2>2 DEF BuiltInv
  <2> QED
    BY <2>1, <2>3 DEF OutputAsGiven
<1> QED
  BY <1>1, <1>2, <1>3

LEMMA BuiltInvariant ==
  ASSUME LinesAreMeant
  PROVE  Spec => []BuiltInv
<1>1. Init => BuiltInv
  BY ExitInvInit DEF Init, BuiltInv, Built, Nothing
<1>2. BuiltInv /\ [Next]_vars => BuiltInv'
  BY ExitInvStep, BuiltStep, OutputStep DEF BuiltInv
<1> QED
  BY <1>1, <1>2, PTL DEF Spec

-------------------------------------------------------------------------------
(* The configuration in effect: what no option overrides comes from the    *)
(* environment, then from the file.                                        *)
LEMMA ApplyTakes ==
  ASSUME NEW layer, NEW other, NEW f \in DOMAIN layer
  PROVE  /\ f \in DOMAIN apply(layer, other)
         /\ f \in DOMAIN other => apply(layer, other)[f] = other[f]
         /\ f \notin DOMAIN other => apply(layer, other)[f] = layer[f]
BY DEF apply

(* The fields that the options of a scheduling command may override.       *)
LEMMA Overridden ==
  ASSUME NEW global, NEW durable \in BOOLEAN
  PROVE  /\ DOMAIN ConfigOverrides(global, durable) \subseteq {"default_runtime", "color", "verbosity"}
         /\ ~ durable => "default_runtime" \notin DOMAIN ConfigOverrides(global, durable)
BY DEF ConfigOverrides, Restrict

Merged == apply(apply(Defaults, file.layer), req.environment)

LEMMA MergedIsConfigured ==
  ASSUME NEW f \in Fields
  PROVE  f \in DOMAIN Merged /\ Merged[f] = Configured(f)
<1>1. /\ f \in DOMAIN apply(Defaults, file.layer)
      /\ f \in DOMAIN file.layer => apply(Defaults, file.layer)[f] = file.layer[f]
      /\ f \notin DOMAIN file.layer => apply(Defaults, file.layer)[f] = Defaults[f]
  BY ApplyTakes DEF Fields
<1>2. /\ f \in DOMAIN Merged
      /\ f \in DOMAIN req.environment => Merged[f] = req.environment[f]
      /\ f \notin DOMAIN req.environment => Merged[f] = apply(Defaults, file.layer)[f]
  BY <1>1, ApplyTakes DEF Merged
<1> QED
  BY <1>1, <1>2 DEF Configured

(* What a configuration that was accepted says.                            *)
LEMMA AcceptedConfig ==
  ASSUME NEW durable \in BOOLEAN,
         NEW c, c = load_effective_config(file, req.environment, policy, durable), c # NoConfig
  PROVE  /\ file.readable /\ Typed(file.layer) /\ DOMAIN file.layer \subseteq Fields
         /\ environment_layer_ok(req.environment) /\ validate(c)
         /\ \A f \in Fields \ {"default_runtime", "color", "verbosity"} : c[f] = Configured(f)
         /\ ~ durable => c["default_runtime"] = Configured("default_runtime")
<1> DEFINE overrides == ConfigOverrides(policy, durable)
<1>1. /\ file.readable /\ Typed(file.layer) /\ DOMAIN file.layer \subseteq Fields
      /\ environment_layer_ok(req.environment) /\ validate(c)
      /\ c = apply(Merged, overrides)
  BY DEF load_effective_config, load_config, Merged
<1>2. ASSUME NEW f \in Fields, f \notin DOMAIN overrides
      PROVE  c[f] = Configured(f)
  BY <1>1, <1>2, MergedIsConfigured, ApplyTakes
<1>3. "default_runtime" \in Fields
  BY DEF Fields, Defaults
<1> QED
  BY <1>1, <1>2, <1>3, Overridden

(* What a job that was built is made of.                                   *)
ScheduleAsked == build_schedule(args, config, req.local, req.now)
ExecutionAsked == build_execution(args, config, req.process, req.env_file, req.cwd, req.stdout)

JobOf(id, created, schedule, tier, missed, execution, name, description) ==
  [id |-> id, created |-> created, updated |-> created, due |-> schedule.due, schedule |-> schedule,
   tier |-> tier, missed |-> missed, execution |-> execution, name |-> name, description |-> description]

LEMMA JobParts ==
  ASSUME NEW id, NEW j, j = build_job(id), j # NoJob
  PROVE  /\ j = JobOf(id, req.now, ScheduleAsked, RuntimeTier, MissedPolicy, ExecutionAsked,
                      Metadata("--name"), Metadata("--description"))
         /\ ScheduleAsked # NoSchedule /\ ExecutionAsked # NoExecution
         /\ ~ (ScheduleAsked.due <= req.now)
         /\ metadata_ok(Metadata("--name"), Metadata("--description"))
BY DEF build_job, ScheduleAsked, ExecutionAsked, JobOf

LEMMA JobFields ==
  ASSUME NEW id, NEW created, NEW schedule, NEW tier, NEW missed, NEW execution, NEW name, NEW description
  PROVE  LET j == JobOf(id, created, schedule, tier, missed, execution, name, description)
         IN  /\ j.id = id /\ j.created = created /\ j.updated = created /\ j.due = schedule.due
             /\ j.schedule = schedule /\ j.tier = tier /\ j.missed = missed
             /\ j.execution = execution /\ j.name = name /\ j.description = description
BY DEF JobOf

-------------------------------------------------------------------------------
(* An execution that was accepted: it satisfies what its row is validated  *)
(* against.                                                                *)
Execution(mode, argv, cwd, environment, shell, tty) ==
  [mode |-> mode, argv |-> argv, working_directory |-> cwd, environment |-> environment,
   shell_path |-> shell, notify_tty |-> tty]

TtyAccepted(argv, cwd, environment, tty) ==
  /\ tty \notin WithNul \cup {NoText}
  /\ ~ (SerializedSize(argv, environment, cwd) + Bytes(tty) > MaxSerializedBytes)

Accepted(mode, argv, cwd, environment, shell, tty) ==
  /\ ExecutionSpec(mode, argv, cwd, environment) # NoExecution
  /\ \E values : from_pairs_ok(values) /\ environment = from_pairs(values)
  /\ \/ mode = "shell" /\ shell \in AbsolutePaths
     \/ mode = "direct" /\ shell = "none"
  /\ tty # "none" => TtyAccepted(argv, cwd, environment, tty)

LEMMA SpecIs ==
  ASSUME NEW mode, NEW argv, NEW cwd, NEW environment,
         ExecutionSpec(mode, argv, cwd, environment) # NoExecution
  PROVE  ExecutionSpec(mode, argv, cwd, environment) =
           Execution(mode, argv, cwd, environment, IF mode = "shell" THEN "/bin/sh" ELSE "none", "none")
BY DEF ExecutionSpec, Execution

LEMMA ExecutionFields ==
  ASSUME NEW mode, NEW argv, NEW cwd, NEW environment, NEW shell, NEW tty
  PROVE  LET e == Execution(mode, argv, cwd, environment, shell, tty)
         IN  /\ e.mode = mode /\ e.argv = argv /\ e.working_directory = cwd
             /\ e.environment = environment /\ e.shell_path = shell /\ e.notify_tty = tty
BY DEF Execution

LEMMA ExecutionIsSome ==
  ASSUME NEW mode \in {"shell", "direct"}, NEW argv, NEW cwd, NEW environment, NEW shell, NEW tty
  PROVE  Execution(mode, argv, cwd, environment, shell, tty) # NoExecution
BY DEF Execution, NoExecution

LEMMA ShellSet ==
  ASSUME NEW argv, NEW cwd, NEW environment, NEW shell, NEW path \in AbsolutePaths
  PROVE  set_shell_path(Execution("shell", argv, cwd, environment, shell, "none"), path) =
           Execution("shell", argv, cwd, environment, path, "none")
BY DEF set_shell_path, Execution

LEMMA TtySet ==
  ASSUME NEW mode, NEW argv, NEW cwd, NEW environment, NEW shell, NEW tty
  PROVE  /\ TtyAccepted(argv, cwd, environment, tty) =>
              set_notify_tty(Execution(mode, argv, cwd, environment, shell, "none"), tty) =
                Execution(mode, argv, cwd, environment, shell, tty)
         /\ ~ TtyAccepted(argv, cwd, environment, tty) =>
              set_notify_tty(Execution(mode, argv, cwd, environment, shell, "none"), tty) = NoExecution
BY DEF set_notify_tty, Execution, TtyAccepted

LEMMA EnvironmentBuilt ==
  ASSUME NEW a, NEW process, NEW env_file, build_environment(a, process, env_file) # BadEnvironment
  PROVE  \E values : from_pairs_ok(values) /\ build_environment(a, process, env_file) = from_pairs(values)
BY DEF build_environment

LEMMA ExecutionBuilt ==
  ASSUME NEW a, NEW c, NEW process, NEW env_file, NEW cwd, NEW stdout,
         NEW e, e = build_execution(a, c, process, env_file, cwd, stdout), e # NoExecution
  PROVE  \E directory, tty :
           LET mode == IF Has(a, "--shell") THEN "shell" ELSE "direct"
               shell == IF Has(a, "--shell") THEN c.default_shell ELSE "none"
               environment == build_environment(a, process, env_file)
           IN  /\ e = Execution(mode, a.argv, directory, environment, shell, tty)
               /\ Accepted(mode, a.argv, directory, environment, shell, tty)
<1> DEFINE mode == IF Has(a, "--shell") THEN "shell" ELSE "direct"
           directory == canonicalize(IF Has(a, "--cwd") THEN Value(a, "--cwd") ELSE cwd)
           environment == build_environment(a, process, env_file)
           spec == ExecutionSpec(mode, a.argv, directory, environment)
           shelled == IF mode = "shell" /\ spec # NoExecution
                      THEN set_shell_path(spec, c.default_shell) ELSE spec
           shell == IF Has(a, "--shell") THEN c.default_shell ELSE "none"
           tty == IF Has(a, "--tty") THEN stdout ELSE "none"
<1>1. /\ environment # BadEnvironment /\ shelled # NoExecution
      /\ Has(a, "--tty") => stdout # "none"
      /\ e = IF Has(a, "--tty") THEN set_notify_tty(shelled, stdout) ELSE shelled
  BY DEF build_execution
<1>2. \E values : from_pairs_ok(values) /\ environment = from_pairs(values)
  BY <1>1, EnvironmentBuilt
<1>3. spec # NoExecution
  BY <1>1
<1>4. spec = Execution(mode, a.argv, directory, environment,
                       IF mode = "shell" THEN "/bin/sh" ELSE "none", "none")
  BY <1>3, SpecIs
<1>5. /\ shelled = Execution(mode, a.argv, directory, environment, shell, "none")
      /\ (mode = "shell" /\ shell \in AbsolutePaths) \/ (mode = "direct" /\ shell = "none")
  <2>1. CASE Has(a, "--shell")
    <3>1. mode = "shell" /\ shell = c.default_shell /\ shelled = set_shell_path(spec, shell)
      BY <1>3, <2>1
    <3>2. shell \in AbsolutePaths
      <4> HIDE DEF mode, directory, environment, spec, shelled, shell, tty
      <4> QED
        BY <1>1, <3>1 DEF set_shell_path
    <3> QED
      BY <1>4, <3>1, <3>2, ShellSet
  <2>2. CASE ~ Has(a, "--shell")
    <3>1. mode = "direct" /\ shell = "none" /\ shelled = spec
      BY <2>2
    <3> QED
      BY <1>4, <3>1
  <2> QED
    BY <2>1, <2>2
<1>6. /\ e = Execution(mode, a.argv, directory, environment, shell, tty)
      /\ tty # "none" => TtyAccepted(a.argv, directory, environment, tty)
  <2>1. CASE Has(a, "--tty")
    <3>1. tty = stdout /\ e = set_notify_tty(shelled, stdout)
      BY <1>1, <2>1
    <3> HIDE DEF mode, directory, environment, spec, shelled, shell, tty
    <3> QED
      BY <1>5, <3>1, TtySet
  <2>2. CASE ~ Has(a, "--tty")
    <3>1. tty = "none" /\ e = shelled
      BY <1>1, <2>2
    <3> HIDE DEF mode, directory, environment, spec, shelled, shell, tty
    <3> QED
      BY <1>5, <3>1
  <2> QED
    BY <2>1, <2>2
<1>7. Accepted(mode, a.argv, directory, environment, shell, tty)
  <2> HIDE DEF mode, directory, environment, shelled, shell, tty
  <2> QED
    BY <1>2, <1>3, <1>5, <1>6 DEF Accepted
<1> QED
  BY <1>6, <1>7

(* Explicit options, then the environment, then the file as it was read    *)
(* last: the tier and the shell of every job, for any layers (load_config, *)
(* resolve_output_policy).                                                 *)
THEOREM SavedAsConfiguredHolds ==
  ASSUME LinesAreMeant
  PROVE  Spec => []SavedAsConfigured
<1>1. BuiltInv => SavedAsConfigured
  <2> SUFFICES ASSUME BuiltInv, job # NoJob
               PROVE  /\ job.tier = IF Has(req.meant, "--durable") THEN "durable"
                                    ELSE Configured("default_runtime")
                      /\ job.execution.shell_path =
                           IF Has(req.meant, "--shell") THEN Configured("default_shell") ELSE "none"
                      /\ policy.quiet => ~ policy.verbose
                      /\ Has(req.meant, "--quiet") => policy.quiet
                      /\ Has(req.meant, "--verbose") => policy.verbose
                      /\ Has(req.meant, "--color") => policy.color = Value(req.meant, "--color")
    BY DEF SavedAsConfigured
  <2>1. /\ pc # "parse" /\ args = req.meant /\ config # NoConfig /\ config = Effective
        /\ OutputAsGiven
    BY DEF BuiltInv, Built, ExitInv, Progress
  <2>2. PICK id \in Ids : job = build_job(id)
    BY DEF BuiltInv, Built
  <2>3. /\ job.tier = RuntimeTier /\ job.execution = ExecutionAsked /\ ExecutionAsked # NoExecution
    BY <2>2, JobParts, JobFields
  <2>4. Has(req.meant, "--durable") \in BOOLEAN
    BY DEF Has
  <2>5. /\ config["default_shell"] = Configured("default_shell")
        /\ ~ Has(req.meant, "--durable") => config["default_runtime"] = Configured("default_runtime")
    <3>1. "default_shell" \in Fields \ {"default_runtime", "color", "verbosity"}
      BY DEF Fields, Defaults
    <3> QED
      BY <2>1, <2>4, <3>1, AcceptedConfig DEF Effective
  <2>6. job.tier = IF Has(req.meant, "--durable") THEN "durable" ELSE Configured("default_runtime")
    BY <2>1, <2>3, <2>5 DEF RuntimeTier
  <2>7. job.execution.shell_path =
          IF Has(req.meant, "--shell") THEN Configured("default_shell") ELSE "none"
    <3>1. job.execution.shell_path = IF Has(args, "--shell") THEN config.default_shell ELSE "none"
      BY <2>3, ExecutionBuilt, ExecutionFields DEF ExecutionAsked
    <3> QED
      BY <2>1, <2>5, <3>1
  <2> QED
    BY <2>1, <2>6, <2>7 DEF OutputAsGiven
<1> QED
  BY <1>1, BuiltInvariant, PTL

-------------------------------------------------------------------------------
(* The instants at which clocks read a local time, and the one a job is    *)
(* due at.                                                                 *)
Zone == [at : Int, before : Int, after : Int]
DstChoices == {"reject", "earlier", "later"}

LEMMA DayAndTime ==
  ASSUME NEW date \in Int, NEW time \in 0 .. Day - 1
  PROVE  (date * Day + time) \div Day = date /\ (date * Day + time) % Day = time
<1>1. (date * 86400 + time) \div 86400 = date
  BY DEF Day
<1>2. ASSUME NEW x \in Int
      PROVE  x % 86400 = x - 86400 * (x \div 86400)
  OBVIOUS
<1>3. (date * 86400 + time) % 86400 = time
  <2> DEFINE x == date * 86400 + time
  <2>1. x \in Int /\ x - 86400 * date = time
    BY DEF Day
  <2>2. x \div 86400 = date
    BY <1>1
  <2> HIDE DEF x
  <2>3. x % 86400 = time
    BY <1>2, <2>1, <2>2
  <2> QED
    BY <2>3 DEF x
<1> QED
  BY <1>1, <1>3 DEF Day

LEMMA ReadingsRead ==
  ASSUME NEW zone \in Zone, NEW local \in Int, NEW t \in Readings(zone, local)
  PROVE  t \in Int /\ Local(zone, t) = local
BY DEF Readings, Zone

(* Two readings at most, so that there is a first and a last.              *)
LEMMA FirstAndLast ==
  ASSUME NEW zone \in Zone, NEW local \in Int, Readings(zone, local) # {}
  PROVE  /\ \E t \in Readings(zone, local) : \A u \in Readings(zone, local) : t <= u
         /\ \E t \in Readings(zone, local) : \A u \in Readings(zone, local) : t >= u
<1> DEFINE R == Readings(zone, local)
           a == local - zone.before
           b == local - zone.after
<1>1. R \subseteq {a, b} /\ a \in Int /\ b \in Int
  BY DEF Readings, Zone
<1>2. R = {a} \/ R = {b} \/ R = {a, b}
  <2> HIDE DEF R, a, b
  <2>1. R # {}
    BY DEF R
  <2> QED
    BY <1>1, <2>1
<1>3. a <= b \/ b <= a
  <2> HIDE DEF a, b
  <2> QED
    BY <1>1
<1>4. /\ \E t \in R : \A u \in R : t <= u
      /\ \E t \in R : \A u \in R : t >= u
  <2> HIDE DEF R, a, b
  <2> QED
    BY <1>1, <1>2, <1>3
<1> QED
  BY <1>4

LEMMA Resolved ==
  ASSUME NEW zone \in Zone, NEW local \in Int, NEW dst \in DstChoices,
         NEW r, r = resolve_datetime(zone, local, dst), r # Never
  PROVE  /\ r \in Int /\ r \in Readings(zone, local) /\ Local(zone, r) = local
         /\ \A t \in Readings(zone, local) \ {r} : dst = IF t < r THEN "later" ELSE "earlier"
         /\ \A t \in Readings(zone, local) : t <= r \/ dst = "earlier"
<1> DEFINE R == Readings(zone, local)
<1>1. /\ R # {} /\ ~ (dst = "reject" /\ \E t, u \in R : t # u)
      /\ r = Pick(R, IF dst = "reject" THEN "earlier" ELSE dst)
  <2> HIDE DEF R
  <2>1. resolve_datetime(zone, local, dst) =
          LET instant == IF R = {} \/ (dst = "reject" /\ \E t, u \in R : t # u) THEN Never
                         ELSE Pick(R, IF dst = "reject" THEN "earlier" ELSE dst)
          IN  IF instant > LastInstant THEN Never ELSE instant
    BY DEF resolve_datetime, R
  <2> QED
    BY <2>1
<1>2. R \subseteq Int
  BY ReadingsRead
<1>3. CASE dst # "later"
  <2>1. r = CHOOSE t \in R : \A u \in R : t <= u
    BY <1>1, <1>3 DEF Pick, DstChoices
  <2>2. r \in R /\ \A u \in R : r <= u
    <3> HIDE DEF R
    <3>1. \E t \in R : \A u \in R : t <= u
      BY <1>1, FirstAndLast DEF R
    <3> QED
      BY <2>1, <3>1
  <2>3. \A t \in R \ {r} : ~ (t < r) /\ dst = "earlier"
    <3> HIDE DEF R
    <3> QED
      BY <1>1, <1>2, <1>3, <2>2 DEF DstChoices
  <2>4. \A t \in R : t <= r \/ dst = "earlier"
    <3> HIDE DEF R
    <3> QED
      BY <1>2, <2>2, <2>3
  <2> QED
    BY <1>2, <2>2, <2>3, <2>4, ReadingsRead
<1>4. CASE dst = "later"
  <2>1. r = CHOOSE t \in R : \A u \in R : t >= u
    BY <1>1, <1>4 DEF Pick
  <2>2. r \in R /\ \A u \in R : r >= u
    <3> HIDE DEF R
    <3>1. \E t \in R : \A u \in R : t >= u
      BY <1>1, FirstAndLast DEF R
    <3> QED
      BY <2>1, <3>1
  <2>3. \A t \in R : t <= r /\ (t # r => t < r)
    <3> HIDE DEF R
    <3> QED
      BY <1>2, <2>2
  <2> QED
    BY <1>2, <1>4, <2>2, <2>3, ReadingsRead
<1> QED
  BY <1>3, <1>4

(* What a calendar time comes to: the readings of the day and time asked   *)
(* for, or of today or tomorrow.                                           *)
DueOn(zone, due, date, time, dst) ==
  /\ due \in Int /\ Local(zone, due) = date * Day + time
  /\ \A t \in Readings(zone, date * Day + time) \ {due} : dst = IF t < due THEN "later" ELSE "earlier"

LEMMA ResolvedOn ==
  ASSUME NEW zone \in Zone, NEW date \in Int, NEW time \in 0 .. Day - 1, NEW dst \in DstChoices,
         NEW r, r = resolve_datetime(zone, date * Day + time, dst), r # Never
  PROVE  /\ DueOn(zone, r, date, time, dst)
         /\ \A t \in Readings(zone, date * Day + time) : t <= r \/ dst = "earlier"
<1>1. date * Day + time \in Int
  BY DEF Day
<1> DEFINE local == date * Day + time
<1> HIDE DEF local
<1>2. /\ r \in Int /\ r \in Readings(zone, local) /\ Local(zone, r) = local
      /\ \A t \in Readings(zone, local) \ {r} : dst = IF t < r THEN "later" ELSE "earlier"
      /\ \A t \in Readings(zone, local) : t <= r \/ dst = "earlier"
  BY <1>1, Resolved DEF local
<1> QED
  BY <1>2 DEF DueOn, local

LEMMA FutureTaken ==
  ASSUME NEW candidate, NEW now \in Nat, require_future(candidate, now) # Never
  PROVE  require_future(candidate, now) = candidate /\ candidate # Never
BY DEF require_future, Never

LEMMA TimeOnlyResolved ==
  ASSUME NEW zone \in Zone, NEW time \in 0 .. Day - 1, NEW dst \in DstChoices, NEW no_rollover \in BOOLEAN,
         NEW now \in Nat, NEW r, r = resolve_time_only(zone, time, dst, no_rollover, now), r # Never
  PROVE  LET today == Local(zone, now) \div Day
         IN  /\ today \in Int
             /\ \/ DueOn(zone, r, today, time, dst)
                \/ /\ DueOn(zone, r, today + 1, time, dst) /\ ~ no_rollover
                   /\ \A t \in Readings(zone, today * Day + time) : t <= now \/ dst = "earlier"
<1> DEFINE today == Local(zone, now) \div Day
           candidate == resolve_datetime(zone, today * Day + time, dst)
<1>1. Local(zone, now) \in Int
  BY DEF Local, Offset, Zone
<1>2. today \in Int /\ today + 1 \in Int
  <2> QED
    BY <1>1 DEF Day
<1> HIDE DEF today
<1>3. r = IF candidate = Never \/ candidate > now THEN candidate
          ELSE IF no_rollover THEN Never
          ELSE resolve_datetime(zone, (today + 1) * Day + time, dst)
  BY DEF resolve_time_only, today
<1> HIDE DEF candidate
<1>4. candidate # Never
  BY <1>3
<1>5. DueOn(zone, candidate, today, time, dst)
      /\ \A t \in Readings(zone, today * Day + time) : t <= candidate \/ dst = "earlier"
  BY <1>2, <1>4, ResolvedOn DEF candidate
<1>6. CASE candidate > now
  BY <1>2, <1>3, <1>5, <1>6 DEF today
<1>7. CASE ~ (candidate > now)
  <2>1. ~ no_rollover /\ r = resolve_datetime(zone, (today + 1) * Day + time, dst)
    BY <1>3, <1>4, <1>7
  <2>2. DueOn(zone, r, today + 1, time, dst)
    BY <1>2, <2>1, ResolvedOn
  <2>3. candidate \in Int /\ candidate <= now
    BY <1>5, <1>7 DEF DueOn
  <2>4. today * Day + time \in Int
    BY <1>2 DEF Day
  <2>5. \A t \in Readings(zone, today * Day + time) : t <= now \/ dst = "earlier"
    BY <1>5, <2>3, <2>4, ReadingsRead
  <2> QED
    BY <1>2, <2>1, <2>2, <2>5 DEF today
<1> QED
  BY <1>6, <1>7

LEMMA ShapeTyped ==
  ASSUME NEW text
  PROVE  WhenShape(text).date \in Int /\ WhenShape(text).time \in Int
<1>1. CASE text \in DOMAIN WhenWords
  BY <1>1, ZonesAssumption DEF WhenShape, Shapes
<1>2. CASE text \notin DOMAIN WhenWords
  BY <1>2 DEF WhenShape, Never
<1> QED
  BY <1>1, <1>2

LEMMA CalendarSyntax ==
  ASSUME NEW when, parse_calendar(when) # NoSyntax
  PROVE  LET syntax == parse_calendar(when)
         IN  /\ syntax.kind \in {"time", "date", "datetime"}
             /\ (syntax.kind = "time") <=> (syntax.date = Never)
             /\ syntax.date \in Int /\ syntax.time \in Int
<1> DEFINE words == trim(when)
           first == WhenShape(words[1])
           last == WhenShape(words[Len(words)])
           kind == IF ":" \in Marks(words) /\ "-" \notin Marks(words) THEN "time"
                   ELSE IF "-" \in Marks(words) /\ ":" \notin Marks(words) THEN "date"
                   ELSE "datetime"
           date == IF kind = "time" THEN Never ELSE first.date
           time == IF kind = "date" THEN Never ELSE last.time
<1>0. parse_calendar(when) = parse_words(words)
  BY DEF parse_calendar
<1>1. /\ parse_words(words) = [kind |-> kind, date |-> date, time |-> time]
      /\ kind # "time" => date # Never
  <2> HIDE DEF words
  <2> QED
    BY <1>0 DEF parse_words
<1>2. kind \in {"time", "date", "datetime"} /\ (kind = "time" => date = Never)
  OBVIOUS
<1>3. date \in Int /\ time \in Int
  BY ShapeTyped DEF Never
<1> HIDE DEF words, kind, date, time
<1> QED
  BY <1>0, <1>1, <1>2, <1>3

(* An absolute schedule is due on the day and at the time its words spell. *)
LEMMA AbsoluteDue ==
  ASSUME NEW a, NEW c, NEW local, NEW now \in Nat, NEW s, s = Absolute(a, c, local, now), s # NoSchedule,
         Has(a, "--dst") => Value(a, "--dst") \in DstChoices,
         NEW date \in Int, NEW time \in 0 .. Day - 1,
         parse_calendar(a.positionals) # NoSyntax =>
           /\ date = parse_calendar(a.positionals).date
           /\ time = IF parse_calendar(a.positionals).kind = "date" THEN 0
                     ELSE parse_calendar(a.positionals).time
  PROVE  LET zone  == Zones[s.zone]
             today == Local(zone, now) \div Day
         IN  /\ s.zone = ZoneNames[TimeZoneSelection(a, c, local)] /\ zone \in Zone
             /\ date # Never => DueOn(zone, s.due, date, time, s.dst)
             /\ date = Never =>
                  /\ today \in Int
                  /\ \/ DueOn(zone, s.due, today, time, s.dst)
                     \/ /\ DueOn(zone, s.due, today + 1, time, s.dst) /\ ~ Has(a, "--no-rollover")
                        /\ \A t \in Readings(zone, today * Day + time) : t <= now \/ s.dst = "earlier"
<1> DEFINE syntax == parse_calendar(a.positionals)
           name == resolve_time_zone(TimeZoneSelection(a, c, local))
           dst == IF Has(a, "--dst") THEN Value(a, "--dst") ELSE "reject"
           due == resolve_calendar(syntax, Zones[name], dst, Has(a, "--no-rollover"), now)
<1>1. /\ syntax # NoSyntax /\ name # NoZone /\ due # Never
      /\ s = [kind |-> "one_shot_absolute", due |-> due, duration |-> NoDuration,
              zone |-> name, dst |-> dst]
  BY DEF Absolute
<1>0. name = ZoneNames[TimeZoneSelection(a, c, local)] /\ name \in DOMAIN Zones
  BY <1>1, ZonesAssumption DEF resolve_time_zone
<1>2. dst \in DstChoices
  BY DEF DstChoices
<1>3. /\ syntax.kind \in {"time", "date", "datetime"}
      /\ (syntax.kind = "time") <=> (syntax.date = Never)
  BY <1>1, CalendarSyntax
<1>4. /\ date = syntax.date
      /\ time = IF syntax.kind = "date" THEN 0 ELSE syntax.time
  BY <1>1
<1>5. Has(a, "--no-rollover") \in BOOLEAN
  BY DEF Has
<1>6. due = CASE syntax.kind = "time" ->
                   resolve_time_only(Zones[name], syntax.time, dst, Has(a, "--no-rollover"), now)
              [] syntax.kind = "date" ->
                   require_future(resolve_datetime(Zones[name], syntax.date * Day, dst), now)
              [] syntax.kind = "datetime" ->
                   require_future(resolve_datetime(Zones[name], syntax.date * Day + syntax.time, dst), now)
  BY DEF resolve_calendar
<1> HIDE DEF syntax, name, dst, due
<1>7. s.zone = name /\ s.due = due /\ s.dst = dst
  BY <1>1
<1>8. Zones[name] \in Zone
  BY <1>0, ZonesAssumption DEF Zone
<1> DEFINE zone == Zones[name]
           today == Local(zone, now) \div Day
<1> HIDE DEF zone
<1>9. zone \in Zone
  BY <1>8 DEF zone
<1>10. CASE date # Never
  <2>1. due = require_future(resolve_datetime(zone, date * Day + time, dst), now)
    <3>1. date * Day + 0 = date * Day
      BY DEF Day
    <3>2. CASE syntax.kind = "date"
      BY <1>4, <1>6, <3>1, <3>2 DEF zone
    <3>3. CASE syntax.kind = "datetime"
      BY <1>4, <1>6, <3>3 DEF zone
    <3> QED
      BY <1>3, <1>4, <1>10, <3>2, <3>3
  <2>2. due = resolve_datetime(zone, date * Day + time, dst)
    BY <1>1, <2>1, FutureTaken
  <2>3. DueOn(zone, due, date, time, dst)
    BY <1>1, <1>2, <1>9, <2>2, ResolvedOn
  <2> QED
    BY <1>0, <1>7, <1>9, <1>10, <2>3 DEF zone
<1>11. CASE date = Never
  <2>1. due = resolve_time_only(zone, time, dst, Has(a, "--no-rollover"), now)
    BY <1>3, <1>4, <1>6, <1>11 DEF zone
  <2>2. /\ today \in Int
        /\ \/ DueOn(zone, due, today, time, dst)
           \/ /\ DueOn(zone, due, today + 1, time, dst) /\ ~ Has(a, "--no-rollover")
              /\ \A t \in Readings(zone, today * Day + time) : t <= now \/ dst = "earlier"
    BY <1>1, <1>2, <1>5, <1>9, <2>1, TimeOnlyResolved
  <2> QED
    BY <1>0, <1>7, <1>9, <1>11, <2>2 DEF zone
<1> QED
  BY <1>10, <1>11

(* An absolute schedule is due at an instant that can be stored.           *)
LEMMA ResolvedInRange ==
  ASSUME NEW zone \in Zone, NEW local \in Int, NEW dst \in DstChoices,
         NEW r, r = resolve_datetime(zone, local, dst), r # Never
  PROVE  r \in Int /\ r <= LastInstant
<1>1. r \in Int
  BY Resolved
<1>2. ~ (r > LastInstant)
  BY DEF resolve_datetime
<1>3. LastInstant \in Nat
  BY TextsAssumption
<1> QED
  BY <1>1, <1>2, <1>3

LEMMA AbsoluteInRange ==
  ASSUME NEW a, NEW c, NEW local, NEW now \in Nat, NEW s, s = Absolute(a, c, local, now), s # NoSchedule,
         Has(a, "--dst") => Value(a, "--dst") \in DstChoices
  PROVE  s.due \in Int /\ s.due <= LastInstant
<1> DEFINE syntax == parse_calendar(a.positionals)
           name == resolve_time_zone(TimeZoneSelection(a, c, local))
           zone == Zones[name]
           dst == IF Has(a, "--dst") THEN Value(a, "--dst") ELSE "reject"
           due == resolve_calendar(syntax, zone, dst, Has(a, "--no-rollover"), now)
           today == Local(zone, now) \div Day
<1>1. /\ syntax # NoSyntax /\ name # NoZone /\ due # Never /\ s.due = due
  BY DEF Absolute
<1>2. zone \in Zone
  BY <1>1, ZonesAssumption DEF resolve_time_zone, Zone
<1>3. dst \in DstChoices
  BY DEF DstChoices
<1>4. syntax.kind \in {"time", "date", "datetime"} /\ syntax.date \in Int /\ syntax.time \in Int
  BY <1>1, CalendarSyntax
<1>5. /\ syntax.date * Day \in Int /\ syntax.date * Day + syntax.time \in Int
  BY <1>4 DEF Day
<1>6. today * Day + syntax.time \in Int /\ (today + 1) * Day + syntax.time \in Int
  <2>1. Local(zone, now) \in Int
    BY <1>2 DEF Local, Offset, Zone
  <2>2. today \in Int
    BY <2>1 DEF Day
  <2> HIDE DEF today
  <2> QED
    BY <1>4, <2>2 DEF Day
<1>7. \E at \in Int : due = resolve_datetime(zone, at, dst)
  <2>1. CASE syntax.kind = "time"
    <3>1. due = resolve_time_only(zone, syntax.time, dst, Has(a, "--no-rollover"), now)
      BY <2>1 DEF resolve_calendar
    <3>2. \/ due = resolve_datetime(zone, today * Day + syntax.time, dst)
          \/ due = resolve_datetime(zone, (today + 1) * Day + syntax.time, dst)
      BY <1>1, <3>1 DEF resolve_time_only
    <3> HIDE DEF due, today, zone, dst, syntax
    <3> QED
      BY <1>6, <3>2
  <2>2. CASE syntax.kind = "date"
    <3>1. due = require_future(resolve_datetime(zone, syntax.date * Day, dst), now)
      BY <2>2 DEF resolve_calendar
    <3> HIDE DEF due, zone, dst, syntax
    <3> QED
      BY <1>1, <1>5, <3>1, FutureTaken
  <2>3. CASE syntax.kind = "datetime"
    <3>1. due = require_future(resolve_datetime(zone, syntax.date * Day + syntax.time, dst), now)
      BY <2>3 DEF resolve_calendar
    <3> HIDE DEF due, zone, dst, syntax
    <3> QED
      BY <1>1, <1>5, <3>1, FutureTaken
  <2> QED
    BY <1>4, <2>1, <2>2, <2>3
<1> HIDE DEF due, zone, dst
<1> QED
  BY <1>1, <1>2, <1>3, <1>7, ResolvedInRange

LEMMA ReadsAsAsked ==
  ASSUME NEW zone \in Zone, NEW due, NEW date \in Int, NEW time \in 0 .. Day - 1, NEW dst,
         DueOn(zone, due, date, time, dst)
  PROVE  LET local == Local(zone, due)
         IN  /\ local \div Day = date /\ local % Day = time
             /\ \A t \in Readings(zone, local) \ {due} : dst = IF t < due THEN "later" ELSE "earlier"
BY DayAndTime DEF DueOn

-------------------------------------------------------------------------------
(* Reading back what was stored.                                           *)
LEMMA EnvironmentReadBack ==
  ASSUME NEW values, from_pairs_ok(values)
  PROVE  LET environment == from_pairs(values)
             stored == [key \in DOMAIN environment |-> expose(environment[key])]
         IN  from_pairs_ok(stored) /\ from_pairs(stored) = environment
<1> DEFINE environment == from_pairs(values)
           stored == [key \in DOMAIN environment |-> expose(environment[key])]
<1>1. /\ DOMAIN environment = DOMAIN values /\ DOMAIN stored = DOMAIN values
      /\ environment = [key \in DOMAIN values |-> SecretString(values[key])]
      /\ \A key \in DOMAIN values : expose(environment[key]) = values[key]
  BY DEF from_pairs, expose, SecretString
<1>2. \A key \in DOMAIN values : stored[key] = values[key]
  BY <1>1
<1>3. from_pairs(stored) = [key \in DOMAIN values |-> SecretString(stored[key])]
  BY <1>1 DEF from_pairs
<1>4. [key \in DOMAIN values |-> SecretString(stored[key])] =
        [key \in DOMAIN values |-> SecretString(values[key])]
  <2> HIDE DEF stored
  <2> QED
    BY <1>2
<1>5. from_pairs_ok(stored)
  <2> HIDE DEF stored
  <2> QED
    BY <1>1, <1>2 DEF from_pairs_ok
<1> QED
  BY <1>1, <1>3, <1>4, <1>5

LEMMA PersistedFields ==
  ASSUME NEW spec, NEW environment
  PROVE  LET stored == Persisted(spec, environment)
         IN  /\ stored.mode = spec.mode /\ stored.argv = spec.argv
             /\ stored.working_directory = spec.working_directory
             /\ stored.environment = environment /\ stored.shell_path = spec.shell_path
             /\ stored.notify_tty = spec.notify_tty /\ stored.stdin = "null"
             /\ {stored.stdout, stored.stderr} = {"bounded_file"}
BY DEF Persisted

LEMMA ExecutionReadBack ==
  ASSUME NEW mode, NEW argv, NEW cwd, NEW environment, NEW shell, NEW tty,
         Accepted(mode, argv, cwd, environment, shell, tty)
  PROVE  LET e == Execution(mode, argv, cwd, environment, shell, tty)
         IN  from_persistence_json(to_persistence_json(e)) = e
<1> DEFINE e == Execution(mode, argv, cwd, environment, shell, tty)
           stored == to_persistence_json(e)
           spec == ExecutionSpec(mode, argv, cwd, environment)
           shelled == IF mode = "shell" THEN set_shell_path(spec, shell) ELSE spec
<1>1. /\ e.mode = mode /\ e.argv = argv /\ e.working_directory = cwd
      /\ e.environment = environment /\ e.shell_path = shell /\ e.notify_tty = tty
  BY ExecutionFields
<1>2. PICK values : from_pairs_ok(values) /\ environment = from_pairs(values)
  BY DEF Accepted
<1>3. /\ stored.mode = mode /\ stored.argv = argv /\ stored.working_directory = cwd
      /\ stored.environment = [key \in DOMAIN environment |-> expose(environment[key])]
      /\ stored.shell_path = shell /\ stored.notify_tty = tty /\ stored.stdin = "null"
      /\ {stored.stdout, stored.stderr} = {"bounded_file"}
  <2> HIDE DEF e
  <2> QED
    BY <1>1, PersistedFields DEF to_persistence_json
<1>4. from_pairs_ok(stored.environment) /\ from_pairs(stored.environment) = environment
  BY <1>2, <1>3, EnvironmentReadBack
<1>5. /\ spec # NoExecution
      /\ (mode = "shell" /\ shell \in AbsolutePaths) \/ (mode = "direct" /\ shell = "none")
      /\ tty # "none" => TtyAccepted(argv, cwd, environment, tty)
  BY DEF Accepted
<1>6. spec = Execution(mode, argv, cwd, environment,
                       IF mode = "shell" THEN "/bin/sh" ELSE "none", "none")
  BY <1>5, SpecIs
<1>7. shelled = Execution(mode, argv, cwd, environment, shell, "none")
  <2>1. CASE mode = "shell"
    <3>1. shell \in AbsolutePaths
      BY <1>5, <2>1
    <3>2. spec = Execution("shell", argv, cwd, environment, "/bin/sh", "none")
      BY <1>6, <2>1
    <3>3. shelled = set_shell_path(spec, shell)
      BY <2>1
    <3> HIDE DEF spec, shelled
    <3> QED
      BY <2>1, <3>1, <3>2, <3>3, ShellSet
  <2>2. CASE mode = "direct"
    BY <1>5, <1>6, <2>2
  <2> QED
    BY <1>5, <2>1, <2>2
<1>8. shelled # NoExecution
  <2> HIDE DEF shelled
  <2> QED
    BY <1>5, <1>7, ExecutionIsSome
<1>9. (mode = "direct") = (shell = "none")
  BY <1>5, PathsAssumption
<1>10. from_persistence_json(stored) = IF tty = "none" THEN shelled ELSE set_notify_tty(shelled, tty)
  <2> HIDE DEF stored
  <2> QED
    BY <1>3, <1>4, <1>5, <1>8, <1>9 DEF from_persistence_json
<1>11. from_persistence_json(stored) = e
  <2> HIDE DEF stored, shelled
  <2> QED
    BY <1>5, <1>7, <1>10, TtySet
<1> QED
  BY <1>11

(* A timestamp that can be printed is read back.                          *)
LEMMA TimestampReadBack ==
  ASSUME NEW t \in 0 .. LastInstant
  PROVE  timestamp_from_str(timestamp_fmt(t)) = t /\ t # NoInstant
<1>1. LastInstant \in Nat
  BY TextsAssumption
<1>2. t \in Nat
  BY <1>1
<1>3. (t \div 86400) * 86400 + ((t % 86400) \div 3600) * 3600 + ((t % 3600) \div 60) * 60 + (t % 60) = t
  BY <1>2
<1>4. /\ timestamp_fmt(t).day = t \div 86400 /\ timestamp_fmt(t).hour = (t % 86400) \div 3600
      /\ timestamp_fmt(t).minute = (t % 3600) \div 60 /\ timestamp_fmt(t).second = t % 60
  BY DEF timestamp_fmt
<1> QED
  BY <1>1, <1>2, <1>3, <1>4 DEF timestamp_from_str, NoInstant

(* A duration is none, or in range; a relative schedule always has one.    *)
LEMMA DurationRead ==
  ASSUME NEW parts
  PROVE  duration_from_str(parts) \in {NoDuration} \cup 1 .. MaxDuration
BY DEF duration_from_str

ScheduleOf(kind, due, duration, zone, dst) ==
  [kind |-> kind, due |-> due, duration |-> duration, zone |-> zone, dst |-> dst]

LEMMA RelativeIs ==
  ASSUME NEW kind, NEW a, NEW duration, NEW now, Relative(kind, a, duration, now) # NoSchedule
  PROVE  /\ duration # NoDuration
         /\ Relative(kind, a, duration, now) = ScheduleOf(kind, now + duration, duration, "none", "none")
         /\ now + duration <= LastInstant
<1> DEFINE due == relative_deadline(now, duration)
<1>1. due # Never /\ Relative(kind, a, duration, now) = ScheduleOf(kind, due, duration, "none", "none")
  BY DEF Relative, ScheduleOf
<1>2. duration # NoDuration /\ due = now + duration /\ now + duration <= LastInstant
  BY <1>1 DEF relative_deadline
<1> QED
  BY <1>1, <1>2

LEMMA ScheduleBuilt ==
  ASSUME NEW a, NEW c, NEW local, NEW now \in Nat,
         NEW s, s = build_schedule(a, c, local, now), s # NoSchedule,
         Has(a, "--dst") => Value(a, "--dst") \in DstChoices
  PROVE  \E kind, due, duration, zone, dst :
           /\ s = ScheduleOf(kind, due, duration, zone, dst)
           /\ duration \in {NoDuration} \cup 1 .. MaxDuration
           /\ kind = "one_shot_absolute" \/ duration # NoDuration
           /\ due \in Int /\ due <= LastInstant
<1>0. /\ MaxDuration \in Nat /\ \A d \in {NoDuration} \cup 1 .. MaxDuration : now + d \in Int
  BY TextsAssumption DEF NoDuration
<1>1. CASE Has(a, "--every")
  <2> DEFINE duration == parse_duration(Value(a, "--every"))
  <2>1. s = Relative("recurring_interval", a, duration, now)
    BY <1>1 DEF build_schedule
  <2>2. duration \in {NoDuration} \cup 1 .. MaxDuration
    BY DurationRead DEF parse_duration
  <2> HIDE DEF duration
  <2> QED
    BY <1>0, <2>1, <2>2, RelativeIs
<1>2. CASE ~ Has(a, "--every") /\ is_duration_input(a.positionals)
  <2> DEFINE duration == JoinedDuration(a.positionals)
  <2>1. s = Relative("one_shot_relative", a, duration, now)
    BY <1>2 DEF build_schedule
  <2>2. duration \in {NoDuration} \cup 1 .. MaxDuration
    BY DurationRead DEF JoinedDuration
  <2> HIDE DEF duration
  <2> QED
    BY <1>0, <2>1, <2>2, RelativeIs
<1>3. CASE ~ Has(a, "--every") /\ ~ is_duration_input(a.positionals)
  <2>1. s = Absolute(a, c, local, now)
    BY <1>3 DEF build_schedule
  <2>2. PICK due, zone, dst : s = ScheduleOf("one_shot_absolute", due, NoDuration, zone, dst)
    BY <2>1 DEF Absolute, ScheduleOf
  <2>3. s.due = due
    BY <2>2 DEF ScheduleOf
  <2>4. due \in Int /\ due <= LastInstant
    BY <2>1, <2>3, AbsoluteInRange
  <2> QED
    BY <2>2, <2>4
<1> QED
  BY <1>1, <1>2, <1>3

(* What the texts of the model print is read back as it was.               *)
TextsAreReadBack ==
  /\ \A id \in Ids : IdReadBack(id)
  /\ \A d \in 1 .. MaxDuration : DurationReadBack(d)

(* The supervisor of the same environment accepts what the command did.    *)
LEMMA SupervisorAccepts ==
  ASSUME NEW durable \in BOOLEAN,
         load_effective_config(file, req.environment, policy, durable) # NoConfig
  PROVE  load_process_config(file, req.environment) # NoConfig
<1> DEFINE c == load_effective_config(file, req.environment, policy, durable)
           p == apply(Merged, Unset)
           validated == {"default_timezone", "default_shell", "cancel_grace", "history_days",
                         "terminal_job_days", "max_log_bytes_per_stream"}
<1>1. /\ file.readable /\ Typed(file.layer) /\ DOMAIN file.layer \subseteq Fields
      /\ environment_layer_ok(req.environment) /\ validate(c)
      /\ \A f \in Fields \ {"default_runtime", "color", "verbosity"} : c[f] = Configured(f)
  <2> HIDE DEF c
  <2>1. c = load_effective_config(file, req.environment, policy, durable) /\ c # NoConfig
    BY DEF c
  <2> QED
    BY <2>1, AcceptedConfig
<1>2. validated \subseteq Fields \ {"default_runtime", "color", "verbosity"} /\ "color" \in Fields
  BY DEF Fields, Defaults
<1>3. ASSUME NEW f \in Fields
      PROVE  f \in DOMAIN p /\ p[f] = Configured(f)
  <2>1. f \notin DOMAIN Unset
    BY DEF Unset
  <2> QED
    BY <2>1, MergedIsConfigured, ApplyTakes
<1>4. \A f \in validated : p[f] = c[f]
  <2> HIDE DEF p, c, validated
  <2> QED
    BY <1>1, <1>2, <1>3
<1>5. validate(p)
  <2> HIDE DEF p, c
  <2>1. /\ p["default_timezone"] = c["default_timezone"] /\ p["default_shell"] = c["default_shell"]
        /\ p["cancel_grace"] = c["cancel_grace"] /\ p["history_days"] = c["history_days"]
        /\ p["terminal_job_days"] = c["terminal_job_days"]
        /\ p["max_log_bytes_per_stream"] = c["max_log_bytes_per_stream"]
    BY <1>4
  <2> QED
    BY <1>1, <2>1 DEF validate
<1>6. p # NoConfig
  <2>1. "color" \in DOMAIN p
    BY <1>2, <1>3
  <2>2. DOMAIN NoConfig = {}
    BY DEF NoConfig
  <2> HIDE DEF p
  <2> QED
    BY <2>1, <2>2
<1>7. load_process_config(file, req.environment) = p
  <2>1. p = apply(apply(apply(Defaults, file.layer), req.environment), Unset)
    BY DEF Merged
  <2> HIDE DEF p
  <2> QED
    BY <1>1, <1>5, <2>1 DEF load_process_config, load_config
<1> QED
  BY <1>6, <1>7

LEMMA RowFields ==
  ASSUME NEW id, NEW created, NEW schedule, NEW tier, NEW missed, NEW execution, NEW name, NEW description
  PROVE  LET row == Row(JobOf(id, created, schedule, tier, missed, execution, name, description))
         IN  /\ row.id = encode(id) /\ row.created = timestamp_fmt(created)
             /\ row.updated = timestamp_fmt(created) /\ row.due = timestamp_fmt(schedule.due)
             /\ row.schedule = schedule_json(schedule) /\ row.tier = tier /\ row.missed = missed
             /\ row.execution = to_persistence_json(execution)
             /\ row.name = name /\ row.description = description
<1> DEFINE j == JobOf(id, created, schedule, tier, missed, execution, name, description)
<1>1. /\ j.id = id /\ j.created = created /\ j.updated = created /\ j.due = schedule.due
      /\ j.schedule = schedule /\ j.tier = tier /\ j.missed = missed
      /\ j.execution = execution /\ j.name = name /\ j.description = description
  BY JobFields
<1> HIDE DEF j
<1>2. /\ Row(j).id = encode(id) /\ Row(j).created = timestamp_fmt(created)
      /\ Row(j).updated = timestamp_fmt(created) /\ Row(j).due = timestamp_fmt(schedule.due)
      /\ Row(j).schedule = schedule_json(schedule) /\ Row(j).tier = tier /\ Row(j).missed = missed
      /\ Row(j).execution = to_persistence_json(execution)
      /\ Row(j).name = name /\ Row(j).description = description
  BY <1>1 DEF Row
<1> QED
  BY <1>2 DEF j

LEMMA ScheduleReadBack ==
  ASSUME TextsAreReadBack, NEW kind, NEW due \in 0 .. LastInstant,
         NEW duration \in {NoDuration} \cup 1 .. MaxDuration, NEW zone, NEW dst
  PROVE  LET s == ScheduleOf(kind, due, duration, zone, dst)
         IN  schedule_from_json(schedule_json(s)) = s
<1> DEFINE s == ScheduleOf(kind, due, duration, zone, dst)
           stored == schedule_json(s)
<1>1. /\ s.kind = kind /\ s.due = due /\ s.duration = duration /\ s.zone = zone /\ s.dst = dst
  BY DEF ScheduleOf
<1>2. /\ stored.kind = kind /\ stored.due = timestamp_fmt(due) /\ stored.zone = zone /\ stored.dst = dst
      /\ stored.interval = IF duration = NoDuration THEN <<>> ELSE duration_fmt(duration)
  <2> HIDE DEF s
  <2> QED
    BY <1>1 DEF schedule_json
<1> HIDE DEF stored
<1>3. timestamp_from_str(stored.due) = due
  BY <1>2, TimestampReadBack
<1>4. (IF stored.interval = <<>> THEN NoDuration ELSE duration_from_str(stored.interval)) = duration
  <2>1. CASE duration = NoDuration
    BY <1>2, <2>1
  <2>2. CASE duration # NoDuration
    <3>1. duration_fmt(duration) # <<>> /\ duration_from_str(duration_fmt(duration)) = duration
      BY <2>2 DEF TextsAreReadBack, DurationReadBack
    <3> QED
      BY <1>2, <2>2, <3>1
  <2> QED
    BY <2>1, <2>2
<1>5. schedule_from_json(stored) = [kind |-> kind, due |-> due, duration |-> duration, zone |-> zone, dst |-> dst]
  BY <1>2, <1>3, <1>4 DEF schedule_from_json
<1> QED
  BY <1>5 DEF stored, ScheduleOf

LEMMA JobReadBack ==
  ASSUME TextsAreReadBack, req \in Commands,
         Has(args, "--dst") => Value(args, "--dst") \in DstChoices,
         NEW id \in Ids, NEW j, j = build_job(id), j # NoJob
  PROVE  decode_job_row(Row(j)) = j
<1> DEFINE name == Metadata("--name")
           description == Metadata("--description")
           now == req.now
           row == Row(j)
<1>1. /\ j = JobOf(id, now, ScheduleAsked, RuntimeTier, MissedPolicy, ExecutionAsked, name, description)
      /\ ScheduleAsked # NoSchedule /\ ExecutionAsked # NoExecution /\ metadata_ok(name, description)
      /\ ~ (ScheduleAsked.due <= now)
  BY JobParts
<1>2. now \in 0 .. LastInstant /\ now \in Nat /\ LastInstant \in Nat
  BY RequestsAssumption, TextsAssumption
<1>3. PICK kind, due, duration, zone, dst :
        /\ ScheduleAsked = ScheduleOf(kind, due, duration, zone, dst)
        /\ duration \in {NoDuration} \cup 1 .. MaxDuration
        /\ kind = "one_shot_absolute" \/ duration # NoDuration
        /\ due \in Int /\ due <= LastInstant
  <2> HIDE DEF now
  <2>1. ScheduleAsked = build_schedule(args, config, req.local, now)
    BY DEF ScheduleAsked, now
  <2> QED
    BY <1>1, <1>2, <2>1, ScheduleBuilt
<1>4. ScheduleAsked.due = due /\ ScheduleAsked.kind = kind /\ ScheduleAsked.duration = duration
  BY <1>3 DEF ScheduleOf
<1>5. due \in 0 .. LastInstant
  <2> HIDE DEF now
  <2> QED
    BY <1>1, <1>2, <1>3, <1>4
<1>6. from_persistence_json(to_persistence_json(ExecutionAsked)) = ExecutionAsked
  BY <1>1, ExecutionBuilt, ExecutionReadBack DEF ExecutionAsked
<1>7. schedule_from_json(schedule_json(ScheduleAsked)) = ScheduleAsked
  BY <1>3, <1>5, ScheduleReadBack
<1>8. decode(encode(id)) = id /\ id # NoValue
  BY RequestsAssumption, TextsAssumption DEF TextsAreReadBack, IdReadBack, NoValue
<1>9. /\ timestamp_from_str(timestamp_fmt(now)) = now /\ now # NoInstant
      /\ timestamp_from_str(timestamp_fmt(due)) = due /\ due # NoInstant
  BY <1>2, <1>5, TimestampReadBack
<1>10. /\ row.id = encode(id) /\ row.created = timestamp_fmt(now)
       /\ row.updated = timestamp_fmt(now) /\ row.due = timestamp_fmt(due)
       /\ row.schedule = schedule_json(ScheduleAsked) /\ row.tier = RuntimeTier
       /\ row.missed = MissedPolicy /\ row.execution = to_persistence_json(ExecutionAsked)
       /\ row.name = name /\ row.description = description
  <2> HIDE DEF now, name, description
  <2> QED
    BY <1>1, <1>4, RowFields
<1> HIDE DEF now, name, description, row
<1>11. /\ timestamp_from_str(row.created) = now /\ timestamp_from_str(row.updated) = now
       /\ timestamp_from_str(row.due) = due /\ schedule_from_json(row.schedule) = ScheduleAsked
       /\ from_persistence_json(row.execution) = ExecutionAsked /\ decode(row.id) = id
  BY <1>6, <1>7, <1>8, <1>9, <1>10
<1>12. ~ (\/ decode(row.id) = NoValue \/ from_persistence_json(row.execution) = NoExecution
          \/ NoInstant \in {timestamp_from_str(row.created), timestamp_from_str(row.updated),
                            timestamp_from_str(row.due), schedule_from_json(row.schedule).due}
          \/ /\ schedule_from_json(row.schedule).kind # "one_shot_absolute"
             /\ schedule_from_json(row.schedule).duration = NoDuration
          \/ ~ metadata_ok(row.name, row.description)
          \/ timestamp_from_str(row.created) > timestamp_from_str(row.updated))
  <2>1. ~ (now > now)
    BY <1>2
  <2> QED
    BY <1>1, <1>3, <1>4, <1>8, <1>9, <1>10, <1>11, <2>1
<1>13. decode_job_row(row) =
         [id |-> id, created |-> now, updated |-> now, due |-> due, schedule |-> ScheduleAsked,
          tier |-> RuntimeTier, missed |-> MissedPolicy, execution |-> ExecutionAsked,
          name |-> name, description |-> description]
  BY <1>10, <1>11, <1>12 DEF decode_job_row
<1> QED
  BY <1>1, <1>4, <1>13 DEF JobOf, row

(* Every row that is stored is read back as the job that was accepted, and *)
(* the supervisor that will read it accepts the configuration the command  *)
(* accepted: for any texts, limits, environments and layers, given lines   *)
(* that are parsed as they were meant and identifiers and durations that   *)
(* are read as they are printed; timestamps are shown to be (create_job,   *)
(* decode_job_row, to_persistence_json, from_persistence_json).            *)
THEOREM SavedIsReadableHolds ==
  ASSUME LinesAreMeant, TextsAreReadBack
  PROVE  Spec => []SavedIsReadable
<1>1. BuiltInv => SavedIsReadable
  <2> SUFFICES ASSUME BuiltInv, NEW row \in disk.rows
               PROVE  decode_job_row(row) = job /\ load_process_config(file, req.environment) # NoConfig
    BY DEF SavedIsReadable
  <2>1. row = Row(job) /\ job # NoJob
    BY DEF BuiltInv, ExitInv, Left, Built
  <2>2. PICK id \in Ids : job = build_job(id)
    BY <2>1 DEF BuiltInv, Built
  <2>3. Has(req.meant, "--durable") \in BOOLEAN
    BY DEF Has
  <2>4. Effective # NoConfig
    BY <2>1 DEF BuiltInv, Built
  <2>5. load_process_config(file, req.environment) # NoConfig
    BY <2>3, <2>4, SupervisorAccepts DEF Effective
  <2>6. req \in Commands /\ args = req.meant
    BY <2>1 DEF BuiltInv, Built, ExitInv, Progress
  <2>7. Has(args, "--dst") => Value(args, "--dst") \in DstChoices
    BY <2>6, ParsedOptions DEF LinesAreMeant, DstChoices
  <2> QED
    BY <2>1, <2>2, <2>5, <2>6, <2>7, JobReadBack
<1> QED
  BY <1>1, BuiltInvariant, PTL

-------------------------------------------------------------------------------
(* A duration is read part by part, in a loop; what it comes to by then is  *)
(* shown for the least number of parts for which it would not hold.        *)
(* Every nonempty set of naturals has a least element.                     *)
LEMMA LeastNatural ==
  ASSUME NEW T \in SUBSET Nat, T # {}
  PROVE  \E x \in T : \A y \in T : x <= y
<1>1. PICK x \in T : \A y \in T : ~(<<y, x>> \in OpToRel(<, Nat))
  BY NatLessThanWellFounded, WFMin, Zenon
<1>2. ASSUME NEW y \in T, <<y, x>> \notin OpToRel(<, Nat)
      PROVE  ~(y < x)
  BY <1>2, Zenon DEF OpToRel
<1>3. \A y \in T : ~(y < x)
  BY <1>1, <1>2, Zenon
<1> QED
  BY <1>3

(* The loop over the parts of a duration.                                  *)
Loop(parts, n, f) ==
  f = [i \in 0 .. n |-> IF i = 0 THEN StartOf(parts) ELSE AddPart(f[i - 1], parts[i])]

LEMMA LoopExists ==
  ASSUME NEW parts, NEW n \in Nat
  PROVE  \E f : Loop(parts, n, f)
<1> DEFINE T == {k \in Nat : \A f : ~ Loop(parts, k, f)}
<1> SUFFICES ASSUME T # {} PROVE FALSE
  OBVIOUS
<1>1. PICK k \in T : \A y \in T : k <= y
  <2>1. T \in SUBSET Nat
    OBVIOUS
  <2> HIDE DEF T
  <2> QED
    BY <2>1, LeastNatural
<1>2. k # 0
  <2> SUFFICES ASSUME k = 0 PROVE FALSE
    OBVIOUS
  <2> DEFINE f == [i \in 0 .. 0 |-> StartOf(parts)]
  <2>1. f = [i \in 0 .. 0 |-> IF i = 0 THEN StartOf(parts) ELSE AddPart(f[i - 1], parts[i])]
    OBVIOUS
  <2> HIDE DEF f
  <2> QED
    BY <1>1, <2>1 DEF Loop
<1>3. k - 1 \in Nat /\ k - 1 \notin T
  BY <1>1, <1>2
<1>4. PICK f : Loop(parts, k - 1, f)
  BY <1>3
<1> DEFINE g == [i \in 0 .. k |-> IF i < k THEN f[i] ELSE AddPart(f[k - 1], parts[k])]
<1>5. /\ \A i \in 0 .. k - 1 : f[i] = IF i = 0 THEN StartOf(parts) ELSE AddPart(f[i - 1], parts[i])
  BY <1>4 DEF Loop
<1>6. \A i \in 0 .. k : g[i] = IF i = 0 THEN StartOf(parts) ELSE AddPart(g[i - 1], parts[i])
  <2> TAKE i \in 0 .. k
  <2>1. CASE i = k
    <3>1. g[k] = AddPart(f[k - 1], parts[k]) /\ g[k - 1] = f[k - 1]
      BY <1>1, <1>2
    <3> HIDE DEF g
    <3> QED
      BY <1>1, <1>2, <2>1, <3>1
  <2>2. CASE i # k
    <3>1. i \in 0 .. k - 1 /\ g[i] = f[i] /\ (i # 0 => g[i - 1] = f[i - 1])
      BY <1>1, <1>2, <2>2
    <3> HIDE DEF g
    <3> QED
      BY <1>5, <3>1
  <2> QED
    BY <2>1, <2>2
<1>7. g = [i \in 0 .. k |-> g[i]]
  OBVIOUS
<1>8. Loop(parts, k, g)
  <2> HIDE DEF g
  <2>1. [i \in 0 .. k |-> g[i]] = [i \in 0 .. k |-> IF i = 0 THEN StartOf(parts) ELSE AddPart(g[i - 1], parts[i])]
    BY <1>6
  <2> QED
    BY <1>7, <2>1, Zenon DEF Loop
<1> QED
  BY <1>1, <1>8

LEMMA LoopSteps ==
  ASSUME NEW parts, Len(parts) \in Nat
  PROVE  LET read == ReadParts(parts)
         IN  /\ read[0] = StartOf(parts)
             /\ \A i \in 1 .. Len(parts) : read[i] = AddPart(read[i - 1], parts[i])
<1> DEFINE read == ReadParts(parts)
<1>1. read = CHOOSE f : Loop(parts, Len(parts), f)
  BY Zenon DEF ReadParts, Loop
<1>2. Loop(parts, Len(parts), read)
  BY <1>1, LoopExists
<1> HIDE DEF read
<1>3. \A i \in 0 .. Len(parts) : read[i] = IF i = 0 THEN StartOf(parts) ELSE AddPart(read[i - 1], parts[i])
  BY <1>2 DEF Loop
<1>4. \A i \in 1 .. Len(parts) : read[i] = AddPart(read[i - 1], parts[i])
  BY <1>3
<1> QED
  BY <1>3, <1>4 DEF read

(* A part that is added without an error.                                  *)
TimeUnits == {"h", "m", "s"}

WellFormed(part) ==
  part.digits > 0 /\ part.unit \in TimeUnits /\ (part.unit = "h" => part.n > 0)

LEMMA PartAdded ==
  ASSUME NEW acc, NEW part \in Part, AddPart(acc, part).error = "none"
  PROVE  /\ acc.error = "none" /\ WellFormed(part) /\ ~ (rank[part.unit] >= acc.previous)
         /\ AddPart(acc, part).previous = rank[part.unit]
         /\ AddPart(acc, part).total = acc.total + part.n * multiplier[part.unit]
<1>1. acc.error = "none"
  BY DEF AddPart
<1>2. PartError(acc, part) = "none"
  <2> SUFFICES ASSUME PartError(acc, part) # "none" PROVE FALSE
    OBVIOUS
  <2>1. AddPart(acc, part) = [acc EXCEPT !.error = PartError(acc, part)]
    BY <1>1 DEF AddPart
  <2>2. [acc EXCEPT !.error = PartError(acc, part)].error \in {PartError(acc, part), acc.error}
    OBVIOUS
  <2> QED
    BY <2>1, <2>2
<1>3. AddPart(acc, part) = [error |-> "none", previous |-> rank[part.unit],
                            total |-> acc.total + part.n * multiplier[part.unit]]
  BY <1>1, <1>2 DEF AddPart
<1>4. /\ part.digits # 0 /\ part.unit \notin {"none", "other"} /\ ~ (part.unit = "h" /\ part.n = 0)
      /\ ~ (rank[part.unit] >= acc.previous)
  BY <1>2 DEF PartError
<1>5. WellFormed(part)
  BY <1>4 DEF WellFormed, Part, TimeUnits
<1> QED
  BY <1>1, <1>3, <1>4, <1>5

LEMMA Ranks ==
  /\ rank["h"] = 3 /\ rank["m"] = 2 /\ rank["s"] = 1
  /\ multiplier["h"] = 3600 /\ multiplier["m"] = 60 /\ multiplier["s"] = 1
BY DEF rank, multiplier

AmountUpTo(parts, i, unit) ==
  LET given == {k \in 1 .. i : parts[k].unit = unit}
  IN  IF given = {} THEN 0 ELSE parts[CHOOSE k \in given : TRUE].n

LEMMA AmountIsNat ==
  ASSUME NEW parts \in Seq(Part), NEW i \in 0 .. Len(parts), NEW unit
  PROVE  AmountUpTo(parts, i, unit) \in Nat
<1> DEFINE given == {k \in 1 .. i : parts[k].unit = unit}
<1>1. \A k \in given : parts[k].n \in Nat
  <2> SUFFICES ASSUME NEW k \in 1 .. i PROVE parts[k].n \in Nat
    OBVIOUS
  <2>1. parts[k] \in Part
    OBVIOUS
  <2> QED
    BY <2>1 DEF Part
<1>2. AmountUpTo(parts, i, unit) = IF given = {} THEN 0 ELSE parts[CHOOSE k \in given : TRUE].n
  BY DEF AmountUpTo
<1> HIDE DEF given
<1>3. given # {} => (CHOOSE k \in given : TRUE) \in given
  OBVIOUS
<1> QED
  BY <1>1, <1>2, <1>3

LEMMA AmountNext ==
  ASSUME NEW parts, NEW i \in Nat, NEW unit
  PROVE  /\ parts[i + 1].unit # unit => AmountUpTo(parts, i + 1, unit) = AmountUpTo(parts, i, unit)
         /\ parts[i + 1].unit = unit /\ (\A k \in 1 .. i : parts[k].unit # unit) =>
              AmountUpTo(parts, i, unit) = 0 /\ AmountUpTo(parts, i + 1, unit) = parts[i + 1].n
<1> DEFINE before == {k \in 1 .. i : parts[k].unit = unit}
           after == {k \in 1 .. i + 1 : parts[k].unit = unit}
<1>1. /\ AmountUpTo(parts, i, unit) = IF before = {} THEN 0 ELSE parts[CHOOSE k \in before : TRUE].n
      /\ AmountUpTo(parts, i + 1, unit) = IF after = {} THEN 0 ELSE parts[CHOOSE k \in after : TRUE].n
  BY DEF AmountUpTo
<1>2. parts[i + 1].unit # unit => after = before
  OBVIOUS
<1>3. parts[i + 1].unit = unit /\ (\A k \in 1 .. i : parts[k].unit # unit) => before = {} /\ after = {i + 1}
  OBVIOUS
<1> HIDE DEF before, after
<1>4. parts[i + 1].unit # unit => AmountUpTo(parts, i + 1, unit) = AmountUpTo(parts, i, unit)
  <2> SUFFICES ASSUME after = before PROVE AmountUpTo(parts, i + 1, unit) = AmountUpTo(parts, i, unit)
    BY <1>2
  <2>1. (CHOOSE k \in after : TRUE) = (CHOOSE k \in before : TRUE)
    BY Zenon
  <2> QED
    BY <1>1, <2>1
<1>5. ASSUME before = {}, after = {i + 1}
      PROVE  AmountUpTo(parts, i, unit) = 0 /\ AmountUpTo(parts, i + 1, unit) = parts[i + 1].n
  <2>1. after # {} /\ (CHOOSE k \in after : TRUE) \in after
    BY <1>5
  <2>2. (CHOOSE k \in after : TRUE) = i + 1
    BY <1>5, <2>1
  <2> QED
    BY <1>1, <1>5, <2>1, <2>2
<1> QED
  BY <1>3, <1>4, <1>5

(* What the loop knows after i parts without an error.                     *)
ReadUpTo(parts, i, acc) ==
  /\ acc.previous \in 1 .. 4
  /\ \A k \in 1 .. i : WellFormed(parts[k]) /\ rank[parts[k].unit] >= acc.previous
  /\ \A k \in 1 .. i : \A l \in 1 .. k - 1 : rank[parts[k].unit] < rank[parts[l].unit]
  /\ acc.total = AmountUpTo(parts, i, "h") * 3600 + AmountUpTo(parts, i, "m") * 60 + AmountUpTo(parts, i, "s")

LEMMA ReadNext ==
  ASSUME NEW parts \in Seq(Part), NEW i \in 0 .. Len(parts) - 1, NEW acc, acc.error = "none" => ReadUpTo(parts, i, acc),
         AddPart(acc, parts[i + 1]).error = "none"
  PROVE  ReadUpTo(parts, i + 1, AddPart(acc, parts[i + 1]))
<1> DEFINE part == parts[i + 1]
           next == AddPart(acc, part)
           u == part.unit
<1>0. part \in Part /\ i \in Nat /\ i + 1 \in 1 .. Len(parts)
  OBVIOUS
<1>1. /\ acc.error = "none" /\ WellFormed(part) /\ ~ (rank[u] >= acc.previous)
      /\ next.previous = rank[u] /\ next.total = acc.total + part.n * multiplier[u]
  BY <1>0, PartAdded
<1>2. /\ acc.previous \in 1 .. 4
      /\ \A k \in 1 .. i : WellFormed(parts[k]) /\ rank[parts[k].unit] >= acc.previous
      /\ \A k \in 1 .. i : \A l \in 1 .. k - 1 : rank[parts[k].unit] < rank[parts[l].unit]
      /\ acc.total = AmountUpTo(parts, i, "h") * 3600 + AmountUpTo(parts, i, "m") * 60 + AmountUpTo(parts, i, "s")
  BY <1>1 DEF ReadUpTo
<1>3. /\ \A k \in 1 .. i : parts[k].unit \in TimeUnits /\ rank[parts[k].unit] \in 1 .. 3
      /\ u \in TimeUnits /\ rank[u] \in 1 .. 3 /\ rank[u] < acc.previous
  BY <1>1, <1>2, Ranks DEF WellFormed, TimeUnits
<1> HIDE DEF part, next, u
<1>4. ASSUME NEW k \in 1 .. i
      PROVE  rank[u] < rank[parts[k].unit] /\ parts[k].unit # u
  <2>1. /\ rank[parts[k].unit] \in 1 .. 3 /\ rank[parts[k].unit] >= acc.previous
        /\ rank[u] \in 1 .. 3 /\ rank[u] < acc.previous /\ acc.previous \in 1 .. 4
    BY <1>2, <1>3
  <2>2. rank[u] < rank[parts[k].unit]
    BY <2>1
  <2> QED
    BY <2>1, <2>2
<1>5. \A k \in 1 .. i + 1 : WellFormed(parts[k]) /\ rank[parts[k].unit] >= next.previous
  <2>1. WellFormed(part) /\ rank[u] >= next.previous
    BY <1>1, <1>3
  <2>2. \A k \in 1 .. i : WellFormed(parts[k]) /\ rank[parts[k].unit] >= next.previous
    BY <1>1, <1>2, <1>3, <1>4
  <2> QED
    BY <1>0, <2>1, <2>2 DEF part, u
<1>6. ASSUME NEW k \in 1 .. i + 1, NEW l \in 1 .. k - 1
      PROVE  rank[parts[k].unit] < rank[parts[l].unit]
  <2>1. CASE k = i + 1
    <3>1. l \in 1 .. i /\ parts[k].unit = u
      BY <1>0, <2>1 DEF part, u
    <3> QED
      BY <1>4, <3>1
  <2>2. CASE k # i + 1
    <3>1. k \in 1 .. i
      BY <1>0, <2>2
    <3> QED
      BY <1>2, <3>1
  <2> QED
    BY <2>1, <2>2
<1>7. /\ AmountUpTo(parts, i, "h") \in Nat /\ AmountUpTo(parts, i, "m") \in Nat /\ AmountUpTo(parts, i, "s") \in Nat
      /\ part.n \in Nat
  <2>1. i \in 0 .. Len(parts)
    BY <1>0
  <2>2. \A unit : AmountUpTo(parts, i, unit) \in Nat
    BY <2>1, AmountIsNat
  <2>3. part.n \in Nat
    BY <1>0 DEF Part
  <2> QED
    BY <2>2, <2>3
<1>8. /\ AmountUpTo(parts, i, u) = 0 /\ AmountUpTo(parts, i + 1, u) = part.n
      /\ \A v \in TimeUnits \ {u} : AmountUpTo(parts, i + 1, v) = AmountUpTo(parts, i, v)
  BY <1>0, <1>4, AmountNext DEF part, u
<1>9. next.total = AmountUpTo(parts, i + 1, "h") * 3600 + AmountUpTo(parts, i + 1, "m") * 60 + AmountUpTo(parts, i + 1, "s")
  <2> DEFINE H == AmountUpTo(parts, i, "h")
             M == AmountUpTo(parts, i, "m")
             S == AmountUpTo(parts, i, "s")
             H2 == AmountUpTo(parts, i + 1, "h")
             M2 == AmountUpTo(parts, i + 1, "m")
             S2 == AmountUpTo(parts, i + 1, "s")
  <2>0. /\ H \in Nat /\ M \in Nat /\ S \in Nat /\ part.n \in Nat
        /\ next.total = (H * 3600 + M * 60 + S) + part.n * multiplier[u]
    BY <1>1, <1>2, <1>7
  <2>1. CASE u = "h"
    <3>1. H = 0 /\ H2 = part.n /\ M2 = M /\ S2 = S /\ multiplier[u] = 3600
      BY <1>8, <2>1, Ranks DEF TimeUnits
    <3> HIDE DEF H, M, S, H2, M2, S2
    <3> QED
      BY <2>0, <3>1 DEF H2, M2, S2
  <2>2. CASE u = "m"
    <3>1. M = 0 /\ M2 = part.n /\ H2 = H /\ S2 = S /\ multiplier[u] = 60
      BY <1>8, <2>2, Ranks DEF TimeUnits
    <3> HIDE DEF H, M, S, H2, M2, S2
    <3> QED
      BY <2>0, <3>1 DEF H2, M2, S2
  <2>3. CASE u = "s"
    <3>1. S = 0 /\ S2 = part.n /\ H2 = H /\ M2 = M /\ multiplier[u] = 1
      BY <1>8, <2>3, Ranks DEF TimeUnits
    <3> HIDE DEF H, M, S, H2, M2, S2
    <3> QED
      BY <2>0, <3>1 DEF H2, M2, S2
  <2> QED
    BY <1>3, <2>1, <2>2, <2>3 DEF TimeUnits
<1>10. next.previous \in 1 .. 4
  BY <1>1, <1>3
<1> QED
  BY <1>5, <1>6, <1>9, <1>10 DEF ReadUpTo, next, part

LEMMA ReadThrough ==
  ASSUME NEW parts \in Seq(Part), NEW i \in 0 .. Len(parts), ReadParts(parts)[i].error = "none"
  PROVE  ReadUpTo(parts, i, ReadParts(parts)[i])
<1> DEFINE read == ReadParts(parts)
           T == {k \in 0 .. Len(parts) : ~ (read[k].error = "none" => ReadUpTo(parts, k, read[k]))}
<1>1. /\ read[0] = StartOf(parts)
      /\ \A k \in 1 .. Len(parts) : read[k] = AddPart(read[k - 1], parts[k])
  BY LoopSteps
<1> HIDE DEF read
<1> SUFFICES ASSUME T # {} PROVE FALSE
  BY DEF read
<1>2. PICK k \in T : \A y \in T : k <= y
  <2>1. T \in SUBSET Nat
    OBVIOUS
  <2> HIDE DEF T
  <2> QED
    BY <2>1, LeastNatural
<1>3. k # 0
  <2> SUFFICES ReadUpTo(parts, 0, StartOf(parts))
    BY <1>1, <1>2
  <2>1. AmountUpTo(parts, 0, "h") = 0 /\ AmountUpTo(parts, 0, "m") = 0 /\ AmountUpTo(parts, 0, "s") = 0
    BY DEF AmountUpTo
  <2>2. StartOf(parts).previous = 4 /\ StartOf(parts).total = 0
    BY DEF StartOf
  <2> QED
    BY <2>1, <2>2 DEF ReadUpTo
<1>4. /\ k - 1 \in 0 .. Len(parts) - 1 /\ k - 1 \notin T /\ read[k].error = "none"
      /\ read[k] = AddPart(read[k - 1], parts[k]) /\ (k - 1) + 1 = k /\ ~ ReadUpTo(parts, k, read[k])
  BY <1>1, <1>2, <1>3
<1>5. read[k - 1].error = "none" => ReadUpTo(parts, k - 1, read[k - 1])
  BY <1>4
<1> HIDE DEF T
<1> QED
  BY <1>4, <1>5, ReadNext

(* A duration that is read is the one its parts denote, whatever the text. *)
LEMMA DurationDenoted ==
  ASSUME NEW parts \in Seq(Part), duration_from_str(parts) # NoDuration
  PROVE  Denotes(parts, duration_from_str(parts))
<1> DEFINE n == Len(parts)
           end == ReadParts(parts)[n]
<1>1. /\ end.error = "none" /\ end.total \in 1 .. MaxDuration /\ duration_from_str(parts) = end.total
  BY DEF duration_from_str
<1>2. ReadUpTo(parts, n, end)
  BY <1>1, ReadThrough
<1> HIDE DEF end
<1>3. \A unit : Amount(parts, unit) = AmountUpTo(parts, n, unit)
  <2> SUFFICES ASSUME NEW unit PROVE Amount(parts, unit) = AmountUpTo(parts, n, unit)
    OBVIOUS
  <2> DEFINE given == {i \in DOMAIN parts : parts[i].unit = unit}
             upto == {k \in 1 .. n : parts[k].unit = unit}
  <2>1. given = upto
    OBVIOUS
  <2>2. /\ Amount(parts, unit) = IF given = {} THEN 0 ELSE parts[CHOOSE i \in given : TRUE].n
        /\ AmountUpTo(parts, n, unit) = IF upto = {} THEN 0 ELSE parts[CHOOSE k \in upto : TRUE].n
    BY DEF Amount, AmountUpTo
  <2> HIDE DEF given, upto
  <2> QED
    BY <2>1, <2>2, Zenon
<1>4. parts # <<>>
  <2> SUFFICES ASSUME parts = <<>> PROVE FALSE
    OBVIOUS
  <2>1. end = StartOf(parts)
    BY LoopSteps DEF end
  <2>2. StartOf(parts).error = "empty"
    BY DEF StartOf
  <2> QED
    BY <1>1, <2>1, <2>2
<1>5. \A i \in DOMAIN parts : WellFormed(parts[i]) /\ \A k \in 1 .. i - 1 : rank[parts[i].unit] < rank[parts[k].unit]
  BY <1>2 DEF ReadUpTo
<1> HIDE DEF n
<1>6. duration_from_str(parts) = Amount(parts, "h") * 3600 + Amount(parts, "m") * 60 + Amount(parts, "s")
  BY <1>1, <1>2, <1>3 DEF ReadUpTo
<1> QED
  BY <1>1, <1>4, <1>5, <1>6 DEF Denotes, WellFormed, TimeUnits

-------------------------------------------------------------------------------
(* When a job is due.                                                      *)
(* A relative schedule is due after exactly the duration its words denote. *)
LEMMA RelativeDue ==
  ASSUME NEW a, NEW c, NEW local, NEW now, NEW s, s = build_schedule(a, c, local, now), s # NoSchedule,
         Has(a, "--every") \/ is_duration_input(a.positionals)
  PROVE  LET duration == IF Has(a, "--every") THEN parse_duration(Value(a, "--every"))
                         ELSE JoinedDuration(a.positionals)
         IN  /\ duration \in 1 .. MaxDuration
             /\ s.duration = duration /\ s.due = now + duration
<1> DEFINE duration == IF Has(a, "--every") THEN parse_duration(Value(a, "--every"))
                       ELSE JoinedDuration(a.positionals)
<1>1. PICK kind : s = Relative(kind, a, duration, now)
  BY DEF build_schedule
<1>2. duration \in {NoDuration} \cup 1 .. MaxDuration
  BY DurationRead DEF parse_duration, JoinedDuration
<1> HIDE DEF duration
<1>3. duration # NoDuration /\ s = ScheduleOf(kind, now + duration, duration, "none", "none")
  BY <1>1, RelativeIs
<1>4. duration \in 1 .. MaxDuration /\ s.duration = duration /\ s.due = now + duration
  BY <1>2, <1>3 DEF ScheduleOf
<1> QED
  BY <1>4 DEF duration

(* A job is due in the future and when it was asked for, whatever the      *)
(* zones, their changes and the clock: given lines that are parsed as they *)
(* were meant and words that spell what is asked, after exactly the        *)
(* duration that the parts of the joined text denote, or when clocks read  *)
(* the time asked for, on the date asked for or today, or tomorrow when    *)
(* today's reading has passed (build_schedule, duration's from_str,        *)
(* resolve_calendar, resolve_time_only, relative_deadline).                *)
THEOREM DueAsAskedHolds ==
  ASSUME LinesAreMeant, \A c \in Commands : WordsSay(c)
  PROVE  Spec => []DueAsAsked
<1>1. BuiltInv => DueAsAsked
  <2> SUFFICES ASSUME BuiltInv, job # NoJob
               PROVE  DueAsAsked
    BY DEF DueAsAsked
  <2>1. /\ pc # "parse" /\ args = req.meant /\ config # NoConfig /\ config = Effective
        /\ req \in Commands /\ args.command = Schedule
    BY DEF BuiltInv, Built, ExitInv, Progress
  <2>2. PICK id \in Ids : job = build_job(id)
    BY DEF BuiltInv, Built
  <2> DEFINE s == job.schedule
             now == req.now
             a == req.meant
  <2>3. /\ s = build_schedule(a, config, req.local, now) /\ s # NoSchedule /\ ~ (s.due <= now)
    BY <2>1, <2>2, JobParts, JobFields DEF ScheduleAsked
  <2>0. job.due = s.due
    BY <2>2, JobParts, JobFields
  <2>4. now \in Nat
    BY <2>1, RequestsAssumption, TextsAssumption
  <2>5. ZoneNames[TimeZoneSelection(a, config, req.local)] = ZoneAsked
    <3>1. "default_timezone" \in Fields \ {"default_runtime", "color", "verbosity"}
      BY DEF Fields, Defaults
    <3>2. Has(req.meant, "--durable") \in BOOLEAN
      BY DEF Has
    <3>3. config["default_timezone"] = Configured("default_timezone")
      BY <2>1, <3>1, <3>2, AcceptedConfig DEF Effective
    <3> QED
      BY <3>3 DEF TimeZoneSelection, ZoneAsked, SelectionAsked
  <2>6. Has(a, "--dst") => Value(a, "--dst") \in DstChoices
    BY <2>1, ParsedOptions DEF LinesAreMeant, DstChoices
  <2>7. WordsSay(req)
    BY <2>1
  <2> DEFINE zone == Zones[ZoneAsked]
             local == Local(zone, s.due)
             today == Local(zone, now) \div Day
             relative == Has(a, "--every") \/ is_duration_input(a.positionals)
             asked == req.asked
  <2>8. CASE relative
    <3> DEFINE duration == IF Has(a, "--every") THEN parse_duration(Value(a, "--every"))
                           ELSE JoinedDuration(a.positionals)
    <3>1. duration \in 1 .. MaxDuration /\ s.duration = duration /\ s.due = now + duration
      <4> HIDE DEF s, a, now
      <4> QED
        BY <2>3, <2>8, RelativeDue
    <3>2. /\ asked.kind = "duration" /\ asked.parts \in Seq(Part)
          /\ duration = duration_from_str(asked.parts)
      BY <2>1, <2>7, <2>8 DEF WordsSay, parse_duration, JoinedDuration
    <3> HIDE DEF duration, s, now, asked
    <3>3. duration # NoDuration /\ s.due > now
      BY <2>4, <3>1, TextsAssumption DEF NoDuration
    <3>4. Denotes(asked.parts, duration)
      BY <3>2, <3>3, DurationDenoted
    <3> QED
      BY <2>0, <3>1, <3>2, <3>3, <3>4 DEF DueAsAsked, s, now, asked
  <2>9. CASE ~ relative
    <3>1. s = Absolute(a, config, req.local, now)
      BY <2>3, <2>9 DEF build_schedule
    <3>2. asked.kind # "duration"
      BY <2>7, <2>9 DEF WordsSay
    <3>3. CASE asked.kind = "calendar"
      <4>1. /\ asked.date \in Int /\ asked.time \in 0 .. Day - 1
            /\ parse_calendar(a.positionals) # NoSyntax =>
                 /\ asked.date = parse_calendar(a.positionals).date
                 /\ asked.time = IF parse_calendar(a.positionals).kind = "date" THEN 0
                                 ELSE parse_calendar(a.positionals).time
        BY <2>7, <3>3 DEF WordsSay
      <4>2. /\ s.zone = ZoneAsked /\ zone \in Zone
            /\ asked.date # Never => DueOn(zone, s.due, asked.date, asked.time, s.dst)
            /\ asked.date = Never =>
                 /\ today \in Int
                 /\ \/ DueOn(zone, s.due, today, asked.time, s.dst)
                    \/ /\ DueOn(zone, s.due, today + 1, asked.time, s.dst)
                       /\ ~ Has(a, "--no-rollover")
                       /\ \A t \in Readings(zone, today * Day + asked.time) :
                            t <= now \/ s.dst = "earlier"
        <5> HIDE DEF s, a, now, asked
        <5> QED
          BY <2>3, <2>4, <2>5, <2>6, <3>1, <4>1, AbsoluteDue
      <4> HIDE DEF s, a, now, asked, zone, today
      <4>3. PICK date \in Int : DueOn(zone, s.due, date, asked.time, s.dst)
        BY <4>1, <4>2
      <4>4. s.due > now
        BY <2>3, <2>4, <4>3 DEF DueOn
      <4>5. /\ local % Day = asked.time
            /\ \A t \in Readings(zone, local) \ {s.due} :
                 s.dst = IF t < s.due THEN "later" ELSE "earlier"
        BY <4>1, <4>2, <4>3, ReadsAsAsked
      <4>6. asked.date # Never => local \div Day = asked.date
        BY <4>1, <4>2, ReadsAsAsked
      <4>7. asked.date = Never =>
              \/ local \div Day = today
              \/ /\ local \div Day = today + 1 /\ ~ Has(a, "--no-rollover")
                 /\ \A t \in Readings(zone, today * Day + asked.time) : t <= now \/ s.dst = "earlier"
        BY <4>1, <4>2, ReadsAsAsked
      <4> QED
        BY <2>0, <3>2, <3>3, <4>2, <4>4, <4>5, <4>6, <4>7 DEF DueAsAsked, s, a, now, asked, zone, today
    <3>4. asked.kind = "calendar"
      <4>1. parse_calendar(a.positionals) # NoSyntax
        BY <2>3, <3>1 DEF Absolute
      <4>2. asked.kind # "none"
        BY <2>1, <2>7, <4>1 DEF WordsSay
      <4>3. asked.kind \in {"none", "duration", "calendar"}
        BY <2>7 DEF WordsSay
      <4> QED
        BY <3>2, <4>2, <4>3
    <3> QED
      BY <3>3, <3>4
  <2> QED
    BY <2>8, <2>9
<1> QED
  BY <1>1, BuiltInvariant, PTL

===============================================================================
