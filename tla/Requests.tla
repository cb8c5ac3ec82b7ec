-------------------------------- MODULE Requests --------------------------------
(***************************************************************************)
(* One `atx` command that schedules a job, from its words to its exit      *)
(* code: run, run_schedule, schedule and build_job of src/cli/dispatch.rs, *)
(* submit_job of src/application/submit.rs.  A request is the command line *)
(* and the world it meets: the configuration file (and what it is edited   *)
(* to meanwhile), the environment, the clock, the terminal, and which of   *)
(* its output streams cannot be written.                                   *)
(***************************************************************************)
EXTENDS Calendar, Execution, FiniteSets

CONSTANTS Commands, Ids

ASSUME RequestsAssumption ==
  Ids \subseteq 0 .. MaxId /\ \A c \in Commands : c.now \in 0 .. LastInstant

VARIABLES
  req,      \* the request
  pc,
  file,     \* the configuration file
  args,     \* what parse_from returns
  policy,   \* GlobalArgs, as resolve_output_policy leaves them
  config,   \* the effective configuration
  job,
  disk,     \* what is left behind: the directory, the database, the rows
  service,  \* the service manager was seen to run the supervisor
  exit

vars == <<req, pc, file, args, policy, config, job, disk, service, exit>>

NoExit == -1
NoJob == [id |-> NoValue, created |-> Never, updated |-> Never, due |-> Never, schedule |-> NoSchedule,
          tier |-> "none", missed |-> "none", execution |-> NoExecution, name |-> "none",
          description |-> "none"]

Nothing == [directory |-> FALSE, database |-> FALSE, rows |-> {}, acknowledged |-> FALSE]

Init ==
  /\ req \in Commands
  /\ pc = "parse" /\ file = req.file
  /\ args = NotParsed
  /\ policy = [quiet |-> FALSE, verbose |-> FALSE, color |-> "none"]
  /\ config = NoConfig /\ job = NoJob /\ disk = Nothing
  /\ service = FALSE /\ exit = NoExit

-------------------------------------------------------------------------------
Exit(code) == pc' = "done" /\ exit' = code

(* println! and eprintln! panic when their stream cannot be written; the   *)
(* process boundary turns a panic into an exit of its own.                 *)
Panic == Exit(70)
PrintFails(stream) == stream \in req.unwritable

(* print_error, with the error classes of CliError and src/cli/exit.rs.    *)
Fail(code) == IF PrintFails("stderr") THEN Panic ELSE Exit(code)

Usage == Fail(2)
Capability == Fail(5)
Storage == Fail(10)
Permission == Fail(12)
Internal == Fail(70)

(* What submit_job comes to.  render_submission prints the job unless it   *)
(* is told to be quiet, then the error of a supervisor that did not        *)
(* answer; run_schedule gives the exit code.                               *)
SubmissionOutcome == {"dry_run", "supervised", "committed_unsupervised"}

RenderFails(outcome) ==
  \/ (Has(args, "--json") \/ ~ policy.quiet) /\ PrintFails("stdout")
  \/ outcome = "committed_unsupervised" /\ PrintFails("stderr")

Submitted(outcome) ==
  /\ outcome \in SubmissionOutcome
  /\ IF RenderFails(outcome) THEN Panic
     ELSE Exit(IF outcome = "committed_unsupervised" THEN 11 ELSE 0)

(* run: parse, or print what clap has to say.  An error is printed as any  *)
(* other with --json; otherwise clap prints it, and that it cannot is      *)
(* ignored.  A management command goes its own way.                        *)
json_requested ==
  \E i \in DOMAIN req.line :
    req.line[i] = Plain("--json") /\ \A k \in 1 .. i : req.line[k] # Plain("--")

Parse ==
  /\ pc = "parse"
  /\ args' = parse_from(req.line)
  /\ policy' = [quiet   |-> Has(args', "--quiet"), verbose |-> Has(args', "--verbose"),
                color   |-> IF Has(args', "--color") THEN Value(args', "--color") ELSE "none"]
  /\ \/ args' = NotParsed /\ IF json_requested THEN Usage ELSE Exit(2)
     \/ args' = DisplayHelp /\ Exit(0)
     \/ args'.command = Schedule /\ pc' = "policy" /\ UNCHANGED exit
     \/ args'.command \in ManagementNames /\ pc' = "managed" /\ UNCHANGED exit
  /\ UNCHANGED <<req, file, config, job, disk, service>>

Paths == resolve_paths(req.home, IF Has(args, "--state-dir") THEN Value(args, "--state-dir") ELSE "none")

(* A first look at the configuration, for the output alone: what fails     *)
(* here fails again, and is reported, below.                               *)
resolve_output_policy ==
  LET found == load_effective_config(file, req.environment, policy, FALSE)
      silent == ~ policy.quiet /\ ~ policy.verbose
  IN  IF Paths = NoPaths \/ found = NoConfig THEN policy
      ELSE [quiet   |-> IF silent THEN found.verbosity = "quiet" ELSE policy.quiet,
            verbose |-> IF silent THEN found.verbosity = "verbose" ELSE policy.verbose,
            color   |-> IF policy.color = "none" THEN found.color ELSE policy.color]

ResolveOutputPolicy ==
  /\ pc = "policy" /\ pc' = "config"
  /\ policy' = resolve_output_policy
  /\ UNCHANGED <<req, file, args, config, job, disk, service, exit>>

(* Somebody else saves the file between the two looks.                     *)
EditConfig ==
  /\ pc \in {"policy", "config"} /\ file # req.edited
  /\ file' = req.edited
  /\ UNCHANGED <<req, pc, args, policy, config, job, disk, service, exit>>

(* The warnings of --capture-env, before, and of --shell, after.           *)
WarningFails(option) == Has(args, option) /\ PrintFails("stderr")

LoadConfig ==
  /\ pc = "config"
  /\ config' = load_effective_config(file, req.environment, policy, Has(args, "--durable"))
  /\ \/ WarningFails("--capture-env") /\ Panic
     \/ /\ ~ WarningFails("--capture-env")
        /\ \/ Paths = NoPaths /\ Permission
           \/ Paths # NoPaths /\ config' = NoConfig /\ Usage
           \/ /\ Paths # NoPaths /\ config' # NoConfig
              /\ IF WarningFails("--shell") THEN Panic ELSE pc' = "build" /\ UNCHANGED exit
  /\ UNCHANGED <<req, file, args, policy, job, disk, service>>

-------------------------------------------------------------------------------
(* build_job and Job::new, at the instant the clock was read.              *)
RuntimeTier == IF Has(args, "--durable") THEN "durable" ELSE config.default_runtime

MissedPolicy ==
  IF Has(args, "--missed") THEN Value(args, "--missed")
  ELSE IF Has(args, "--every") THEN "skip" ELSE "hold"

(* A name and a description have a limited length, and no NUL.             *)
validate_text(text, maximum) == Length(text) <= maximum /\ text \notin WithNul

metadata_ok(name, description) ==
  validate_text(name, MaxNameSize) /\ validate_text(description, MaxDescriptionSize)

Metadata(option) == IF Has(args, option) THEN Value(args, option) ELSE "none"

build_job(id) ==
  LET schedule  == build_schedule(args, config, req.local, req.now)
      execution == build_execution(args, config, req.process, req.env_file, req.cwd, req.stdout)
      name      == Metadata("--name")
      description == Metadata("--description")
  IN  IF schedule = NoSchedule \/ execution = NoExecution
         \/ schedule.due <= req.now
         \/ ~ metadata_ok(name, description)
      THEN NoJob
      ELSE [id |-> id, created |-> req.now, updated |-> req.now, due |-> schedule.due,
            schedule |-> schedule, tier |-> RuntimeTier, missed |-> MissedPolicy,
            execution |-> execution, name |-> name, description |-> description]

BuildJob ==
  /\ pc = "build"
  /\ \E id \in Ids : job' = build_job(id)
  /\ \/ job' = NoJob /\ Usage
     \/ job'.tier = "durable" /\ pc' = "service" /\ UNCHANGED exit
     \/ job'.tier = "session" /\ pc' = "submit" /\ UNCHANGED exit
  /\ UNCHANGED <<req, file, args, policy, config, disk, service>>

ClockFails ==
  /\ pc = "build" /\ Internal
  /\ UNCHANGED <<req, file, args, policy, config, job, disk, service>>

(* A durable job needs the service installed and running.                  *)
CheckService ==
  /\ pc = "service"
  /\ \/ service' = TRUE /\ pc' = "submit" /\ UNCHANGED exit
     \/ Capability /\ UNCHANGED service
  /\ UNCHANGED <<req, file, args, policy, config, job, disk>>

DryRun ==
  /\ pc = "submit" /\ Has(args, "--dry-run") /\ Submitted("dry_run")
  /\ UNCHANGED <<req, file, args, policy, config, job, disk, service>>

EnsurePrivateDir ==
  /\ pc = "submit" /\ ~ Has(args, "--dry-run")
  /\ \/ disk' = [disk EXCEPT !.directory = TRUE] /\ pc' = "open" /\ UNCHANGED exit
     \/ Permission /\ UNCHANGED disk
  /\ UNCHANGED <<req, file, args, policy, config, job, service>>

(* An open that fails may have created the file.                           *)
OpenDatabase ==
  /\ pc = "open"
  /\ \/ disk' = [disk EXCEPT !.database = TRUE] /\ pc' = "create" /\ UNCHANGED exit
     \/ disk' \in {disk, [disk EXCEPT !.database = TRUE]} /\ Storage
  /\ UNCHANGED <<req, file, args, policy, config, job, service>>

-------------------------------------------------------------------------------
(* The row: identifiers, timestamps, durations and the execution are       *)
(* stored as text.                                                         *)
schedule_json(schedule) ==
  [kind |-> schedule.kind, due |-> timestamp_fmt(schedule.due), zone |-> schedule.zone, dst |-> schedule.dst,
   interval |-> IF schedule.duration = NoDuration THEN <<>> ELSE duration_fmt(schedule.duration)]

Row(j) ==
  [id |-> encode(j.id), created |-> timestamp_fmt(j.created), updated |-> timestamp_fmt(j.updated),
   due |-> timestamp_fmt(j.due), schedule |-> schedule_json(j.schedule), tier |-> j.tier,
   missed |-> j.missed, execution |-> to_persistence_json(j.execution), name |-> j.name,
   description |-> j.description]

schedule_from_json(stored) ==
  [kind |-> stored.kind, due |-> timestamp_from_str(stored.due),
   duration |-> IF stored.interval = <<>> THEN NoDuration ELSE duration_from_str(stored.interval),
   zone |-> stored.zone, dst |-> stored.dst]

(* Job::rehydrate refuses a job updated before it was created.             *)
decode_job_row(row) ==
  LET created   == timestamp_from_str(row.created)
      updated   == timestamp_from_str(row.updated)
      due       == timestamp_from_str(row.due)
      schedule  == schedule_from_json(row.schedule)
      execution == from_persistence_json(row.execution)
  IN  IF \/ decode(row.id) = NoValue \/ execution = NoExecution
         \/ NoInstant \in {created, updated, due, schedule.due}
         \/ schedule.kind # "one_shot_absolute" /\ schedule.duration = NoDuration
         \/ ~ metadata_ok(row.name, row.description)
         \/ created > updated
      THEN NoJob
      ELSE [id |-> decode(row.id), created |-> created, updated |-> updated, due |-> due,
            schedule |-> schedule, tier |-> row.tier, missed |-> row.missed,
            execution |-> execution, name |-> row.name, description |-> row.description]

(* submit_job: store, then have the supervisor acknowledge.                *)
CreateJob ==
  /\ pc = "create"
  /\ \/ disk' = [disk EXCEPT !.rows = @ \cup {Row(job)}] /\ pc' = "acknowledge" /\ UNCHANGED exit
     \/ Storage /\ UNCHANGED disk
  /\ UNCHANGED <<req, file, args, policy, config, job, service>>

Acknowledge_IgnoresErrors ==
  /\ pc = "acknowledge"
  /\ Exit(0)
  /\ \E answered \in BOOLEAN : disk' = [disk EXCEPT !.acknowledged = answered]
  /\ UNCHANGED <<req, file, args, policy, config, job, service>>

Acknowledge ==
  /\ pc = "acknowledge"
  /\ \/ Submitted("supervised") /\ disk' = [disk EXCEPT !.acknowledged = TRUE]
     \/ Submitted("committed_unsupervised") /\ UNCHANGED disk
  /\ UNCHANGED <<req, file, args, policy, config, job, service>>

Finished ==
  pc \in {"done", "managed"} /\ UNCHANGED vars

Next ==
  \/ Parse \/ ResolveOutputPolicy \/ EditConfig \/ LoadConfig \/ BuildJob \/ ClockFails
  \/ CheckService \/ DryRun \/ EnsurePrivateDir \/ OpenDatabase \/ CreateJob \/ Acknowledge
  \/ Finished

Spec == Init /\ [][Next]_vars

-------------------------------------------------------------------------------
(* Options mean the same wherever they stand, written --option value or    *)
(* --option=value: an option's value or an argument of the program that    *)
(* spells like a command is not one (parse_from,                           *)
(* normalize_management_order), and a line that means nothing is refused.  *)
MeansWhatWasTyped ==
  pc # "parse" => args = req.meant

(* What the exit code says is so: 0 means stored and acknowledged (or,     *)
(* where help, the version or a dry run was asked for, that nothing at all *)
(* was left behind), 11 stored and not acknowledged, an error class that   *)
(* no job was stored, and the errors of the user's own making that nothing *)
(* was created (run, run_schedule, schedule, submit_job).  70 says the     *)
(* same as those only when both streams can be written: after a panic of   *)
(* render_submission the job is there.  A durable job is only stored under *)
(* a running service.                                                      *)
ExitTellsTruth ==
  /\ exit = 0 => IF req.meant = DisplayHelp \/ Has(req.meant, "--dry-run") THEN disk = Nothing
                 ELSE Cardinality(disk.rows) = 1 /\ disk.acknowledged
  /\ exit = 11 => Cardinality(disk.rows) = 1 /\ ~ disk.acknowledged
  /\ exit \in {2, 5, 10, 12} => disk.rows = {}
  /\ exit \in {2, 5} \/ (exit = 70 /\ req.unwritable = {}) => disk = Nothing
  /\ \A row \in disk.rows : row.tier = "durable" => service

(* The nearest layer that sets a field: the environment, then the file.    *)
Configured(field) ==
  IF field \in DOMAIN req.environment THEN req.environment[field]
  ELSE IF field \in DOMAIN file.layer THEN file.layer[field]
  ELSE Defaults[field]

SelectionAsked ==
  IF Has(req.meant, "--utc") THEN "UTC"
  ELSE IF Has(req.meant, "--tz") THEN Value(req.meant, "--tz")
  ELSE IF Configured("default_timezone") = "local" THEN req.local
  ELSE Configured("default_timezone")

ZoneAsked == ZoneNames[SelectionAsked]

(* The words of a request say what is asked for: joined, they are the      *)
(* text that spells the parts of the duration, the date and the time are   *)
(* those meant, and words that ask for nothing spell neither.              *)
WordsSay(c) ==
  LET when == c.meant.positionals
      syntax == parse_calendar(when)
  IN  /\ c.asked.kind = "none" /\ c.meant.command = Schedule =>
           ~ Has(c.meant, "--every") /\ ~ is_duration_input(when) /\ syntax = NoSyntax
      /\ c.asked.kind \in {"none", "duration", "calendar"}
      /\ c.asked.kind = "duration" =>
           /\ Has(c.meant, "--every") \/ is_duration_input(when)
           /\ c.asked.parts \in Seq(Part)
           /\ IF Has(c.meant, "--every")
              THEN /\ Value(c.meant, "--every") \in DOMAIN DurationParts
                   /\ DurationParts[Value(c.meant, "--every")] = c.asked.parts
              ELSE /\ \A i \in DOMAIN when : when[i] \in DOMAIN DurationParts
                   /\ JoinedParts(when) = c.asked.parts
      /\ c.asked.kind = "calendar" =>
           /\ ~ Has(c.meant, "--every") /\ ~ is_duration_input(when)
           /\ c.asked.date \in Int /\ c.asked.time \in 0 .. Day - 1
           /\ syntax # NoSyntax =>
                /\ c.asked.date = syntax.date
                /\ c.asked.time = IF syntax.kind = "date" THEN 0 ELSE syntax.time

(* A job is due in the future, and when it was asked for: after exactly    *)
(* the duration, or when clocks in the zone asked for read the time asked  *)
(* for, today if that is still to come and tomorrow otherwise; a time that *)
(* clocks read twice only as --dst says (build_schedule,                   *)
(* resolve_calendar, relative_deadline).                                   *)
DueAsAsked ==
  job # NoJob =>
    LET asked == req.asked
        s     == job.schedule
        zone  == Zones[ZoneAsked]
        local == Local(zone, s.due)
        today == Local(zone, req.now) \div Day
    IN  /\ job.due = s.due /\ s.due > req.now /\ asked.kind \in {"duration", "calendar"}
        /\ asked.kind = "duration" =>
             s.due = req.now + s.duration /\ Denotes(asked.parts, s.duration)
        /\ asked.kind = "calendar" =>
             /\ s.zone = ZoneAsked
             /\ local % Day = asked.time
             /\ asked.date # Never => local \div Day = asked.date
             /\ asked.date = Never =>
                  \/ local \div Day = today
                  \/ /\ local \div Day = today + 1 /\ ~ Has(req.meant, "--no-rollover")
                     /\ \A t \in Readings(zone, today * Day + asked.time) :
                          t <= req.now \/ s.dst = "earlier"
             /\ \A t \in Readings(zone, local) \ {s.due} :
                  s.dst = IF t < s.due THEN "later" ELSE "earlier"

(* A stored job has the tier and the shell that explicit options give,     *)
(* else the ATX_ variables, else the file as it was read last, and         *)
(* explicit output options outlive the configuration (load_config,         *)
(* resolve_output_policy).                                                 *)
SavedAsConfigured ==
  job # NoJob =>
    /\ job.tier = IF Has(req.meant, "--durable") THEN "durable" ELSE Configured("default_runtime")
    /\ job.execution.shell_path =
         IF Has(req.meant, "--shell") THEN Configured("default_shell") ELSE "none"
    /\ policy.quiet => ~ policy.verbose
    /\ Has(req.meant, "--quiet") => policy.quiet
    /\ Has(req.meant, "--verbose") => policy.verbose
    /\ Has(req.meant, "--color") => policy.color = Value(req.meant, "--color")

(* The variables a job is given: the lines of --env-file, then --env.      *)
ValuesAsked(option) == IF Has(req.meant, option) THEN req.meant.options[option] ELSE <<>>

PairsAsked ==
  (IF Has(req.meant, "--env-file") THEN req.env_file.lines ELSE <<>>)
    \o [i \in DOMAIN ValuesAsked("--env") |-> Assignments[ValuesAsked("--env")[i]]]

(* A job runs with what it inherits and with the variables it is given,    *)
(* the last word being the last to be given (build_environment).           *)
EnvironmentAsAsked ==
  job # NoJob =>
    LET environment == job.execution.environment
        inherited == IF Has(req.meant, "--capture-env") THEN DOMAIN req.process
                     ELSE DOMAIN req.process \cap RetainedKeys
    IN  /\ DOMAIN environment = inherited \cup {PairsAsked[i][1] : i \in DOMAIN PairsAsked}
        /\ \A key \in DOMAIN environment :
             LET given == {i \in DOMAIN PairsAsked : PairsAsked[i][1] = key}
             IN  IF given = {} THEN expose(environment[key]) = req.process[key]
                 ELSE \E i \in given : /\ \A k \in given : k <= i
                                       /\ expose(environment[key]) = PairsAsked[i][2]

(* What was accepted can be loaded: the row of a job is read back as the   *)
(* same job, with its identifier, its times, its interval and its secrets  *)
(* (create_job, decode_job_row, to_persistence_json); a row that cannot be *)
(* read would stop every supervisor from starting.  And what the command   *)
(* accepts as its configuration, the supervisor it starts accepts too, so  *)
(* that no override hides a layer that would stop it.                      *)
SavedIsReadable ==
  \A row \in disk.rows :
     /\ decode_job_row(row) = job
     /\ load_process_config(file, req.environment) # NoConfig
===============================================================================
