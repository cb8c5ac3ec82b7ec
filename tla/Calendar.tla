-------------------------------- MODULE Calendar --------------------------------
(***************************************************************************)
(* When a job is due (src/domain/calendar.rs, calendar_syntax.rs,          *)
(* recurrence.rs and build_schedule of src/cli/dispatch.rs).  Instants and *)
(* local times are seconds.  A time zone changes its offset once, so that  *)
(* a local time may be skipped (a gap) or occur twice (a fold).            *)
(***************************************************************************)
EXTENDS Configuration, Arguments

CONSTANTS
  Zones,        \* the bundled database: a name -> [at, before, after]
  ZoneNames,    \* a text that names a zone of it, in any case -> the zone's name
  WhenWords     \* a text -> its marks and the date and time it spells

Shapes == [marks : SUBSET {"-", ":", "T"}, digit : BOOLEAN, date : Int, time : Int]

ASSUME ZonesAssumption ==
  /\ \A z \in DOMAIN Zones : Zones[z] \in [at : Int, before : Int, after : Int]
  /\ \A name \in DOMAIN ZoneNames : ZoneNames[name] \in DOMAIN Zones
  /\ \A text \in DOMAIN WhenWords : WhenWords[text] \in Shapes

Day == 86400
Never == -1

Offset(zone, t) == IF t < zone.at THEN zone.before ELSE zone.after
Local(zone, t) == t + Offset(zone, t)

(* to_ambiguous_zoned: the instants at which clocks read the local time.   *)
Readings(zone, local) == {t \in {local - zone.before, local - zone.after} : Local(zone, t) = local}

-------------------------------------------------------------------------------
(* Syntax.  A word of WHEN says which marks it contains, and the date and  *)
(* the time of day it spells in the accepted form; Never when it does not. *)
StartsWithDigit(text) ==
  text \in DOMAIN DurationParts /\ DurationParts[text] # <<>> /\ DurationParts[text][1].digits > 0

WhenShape(text) ==
  IF text \in DOMAIN WhenWords THEN WhenWords[text]
  ELSE [marks |-> {}, digit |-> StartsWithDigit(text), date |-> Never, time |-> Never]

Marks(when) == UNION {WhenShape(when[i]).marks : i \in DOMAIN when}

(* Without the empty words at either end, which leave no trace in a text   *)
(* that is concatenated, or joined by spaces and trimmed.                  *)
trim(when) ==
  LET full == {i \in DOMAIN when : when[i] # NoText}
  IN  IF full = {} THEN <<>> ELSE SubSeq(when, Min(full), Max(full))

is_duration_input(when) ==
  trim(when) # <<>> /\ WhenShape(trim(when)[1]).digit /\ Marks(when) = {}

(* The words of a duration are concatenated.  Where one ends in digits,    *)
(* the next goes on with them: 1 30s is read as 130s.                      *)
Continued(number, part) ==
  [digits |-> number.digits + part.digits, n |-> number.n * 10 ^ part.digits + part.n, unit |-> part.unit]

Concatenated(left, right) ==
  IF left = <<>> \/ right = <<>> \/ Last(left).unit # "none" THEN left \o right
  ELSE Front(left) \o <<Continued(Last(left), Head(right))>> \o Tail(right)

JoinedParts(when) == FoldLeft(LAMBDA parts, w : Concatenated(parts, DurationParts[w]), <<>>, when)

JoinedDuration(when) ==
  IF \A i \in DOMAIN when : when[i] \in DOMAIN DurationParts THEN duration_from_str(JoinedParts(when))
  ELSE NoDuration

(* Those of a calendar time are joined by a space: two words are a date    *)
(* and a time.                                                             *)
NoSyntax == [kind |-> "none", date |-> Never, time |-> Never]

parse_words(when) ==
  LET first == WhenShape(when[1])
      last  == WhenShape(when[Len(when)])
      kind  == IF ":" \in Marks(when) /\ "-" \notin Marks(when) THEN "time"
               ELSE IF "-" \in Marks(when) /\ ":" \notin Marks(when) THEN "date"
               ELSE "datetime"
      date  == IF kind = "time" THEN Never ELSE first.date
      time  == IF kind = "date" THEN Never ELSE last.time
      whole == \/ Len(when) = 1
               \/ /\ Len(when) = 2 /\ kind = "datetime"
                  /\ first.time = Never /\ last.date = Never
  IN  IF whole /\ (kind # "time" => date # Never) /\ (kind # "date" => time # Never)
      THEN [kind |-> kind, date |-> date, time |-> time]
      ELSE NoSyntax

parse_calendar(when) == IF trim(when) = <<>> THEN NoSyntax ELSE parse_words(trim(when))

-------------------------------------------------------------------------------
(* Resolution.                                                             *)
Pick(instants, dst) ==
  CASE dst = "earlier" -> CHOOSE t \in instants : \A u \in instants : t <= u
    [] dst = "later"   -> CHOOSE t \in instants : \A u \in instants : t >= u

resolve_datetime(zone, local, dst) ==
  LET readings == Readings(zone, local)
      instant  == IF readings = {} \/ (dst = "reject" /\ \E t, u \in readings : t # u) THEN Never
                  ELSE Pick(readings, IF dst = "reject" THEN "earlier" ELSE dst)
  IN  IF instant > LastInstant THEN Never ELSE instant

require_future(candidate, now) == IF candidate > now THEN candidate ELSE Never

resolve_time_only_NoToday(zone, time, dst, no_rollover, now) ==
  LET today == Local(zone, now) \div Day
  IN  IF no_rollover THEN Never ELSE resolve_datetime(zone, (today + 1) * Day + time, dst)

(* Today's reading, or tomorrow's when that has passed.                    *)
resolve_time_only(zone, time, dst, no_rollover, now) ==
  LET today     == Local(zone, now) \div Day
      candidate == resolve_datetime(zone, today * Day + time, dst)
  IN  IF candidate = Never \/ candidate > now THEN candidate
      ELSE IF no_rollover THEN Never
      ELSE resolve_datetime(zone, (today + 1) * Day + time, dst)

resolve_calendar(syntax, zone, dst, no_rollover, now) ==
  CASE syntax.kind = "time"     -> resolve_time_only(zone, syntax.time, dst, no_rollover, now)
    [] syntax.kind = "date"     -> require_future(resolve_datetime(zone, syntax.date * Day, dst), now)
    [] syntax.kind = "datetime" ->
         require_future(resolve_datetime(zone, syntax.date * Day + syntax.time, dst), now)

relative_deadline(now, duration) ==
  IF duration # NoDuration /\ now + duration <= LastInstant THEN now + duration ELSE Never

-------------------------------------------------------------------------------
(* The selected zone: --utc, --tz, then the configuration.  local is the   *)
(* name of the system's zone, or no name.                                  *)
TimeZoneSelection(args, config, local) ==
  IF Has(args, "--utc") THEN "UTC"
  ELSE IF Has(args, "--tz") THEN Value(args, "--tz")
  ELSE IF config.default_timezone = "local" THEN local
  ELSE config.default_timezone

(* The name that the database gives to the zone of any name of it.         *)
NoZone == "none"

resolve_time_zone(selection) == IF selection \in DOMAIN ZoneNames THEN ZoneNames[selection] ELSE NoZone

CalendarOptions == {"--utc", "--tz", "--dst", "--no-rollover"}
CalendarOptionsGiven(args) == DOMAIN args.options \cap CalendarOptions # {}

NoSchedule == [kind |-> "none", due |-> Never, duration |-> NoDuration, zone |-> "none", dst |-> "none"]

Relative(kind, args, duration, now) ==
  LET due == relative_deadline(now, duration)
  IN  IF CalendarOptionsGiven(args) \/ due = Never THEN NoSchedule
      ELSE [kind |-> kind, due |-> due, duration |-> duration, zone |-> "none", dst |-> "none"]

Absolute(args, config, local, now) ==
  LET syntax == parse_calendar(args.positionals)
      zone   == resolve_time_zone(TimeZoneSelection(args, config, local))
      dst    == IF Has(args, "--dst") THEN Value(args, "--dst") ELSE "reject"
      due    == resolve_calendar(syntax, Zones[zone], dst, Has(args, "--no-rollover"), now)
  IN  IF \/ syntax = NoSyntax
         \/ Has(args, "--no-rollover") /\ syntax.kind # "time"
         \/ Has(args, "--utc") /\ Has(args, "--dst")
         \/ zone = NoZone
         \/ due = Never
      THEN NoSchedule
      ELSE [kind |-> "one_shot_absolute", due |-> due, duration |-> NoDuration, zone |-> zone, dst |-> dst]

build_schedule(args, config, local, now) ==
  IF Has(args, "--every")
  THEN Relative("recurring_interval", args, parse_duration(Value(args, "--every")), now)
  ELSE IF is_duration_input(args.positionals)
  THEN Relative("one_shot_relative", args, JoinedDuration(args.positionals), now)
  ELSE Absolute(args, config, local, now)
===============================================================================
