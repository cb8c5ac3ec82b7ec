------------------------------- MODULE Arguments -------------------------------
(***************************************************************************)
(* The command line (src/cli/args.rs).  A word is its text and, when it is *)
(* written --option=value, the value; texts are opaque, and the words that *)
(* start with a dash are the members of Options.  The parser proper is     *)
(* clap's, modelled from the declarations of RawCli and ManagementCommand. *)
(***************************************************************************)
EXTENDS Integers, SequencesExt

NoText == ""
Plain(t) == [text |-> t, eq |-> NoText]

-------------------------------------------------------------------------------
(* The declarations.                                                       *)
GlobalFlags == {"--quiet", "--verbose", "--json"}
GlobalValued == {"--color", "--state-dir"}

ScheduleFlags == {"--dry-run", "--utc", "--no-rollover", "--shell", "--capture-env", "--durable", "--tty"}
ScheduleValued == {"--tz", "--dst", "--cwd", "--name", "--description", "--env", "--env-file",
                   "--missed", "--every"}

ManagementNames ==
  {"list", "ls", "show", "cancel", "rm", "run", "ps", "history", "output", "doctor", "service",
   "version", "completions", "help", "__supervisor", "__monitor", "__man"}

(* The options and positionals a subcommand declares; Schedule is the      *)
(* command line without one.                                               *)
Schedule == "schedule"

CommandFlags(c) ==
  CASE c = Schedule -> ScheduleFlags
    [] c = "rm"  -> {"--cancel", "--keep-history"}
    [] c = "run" -> {"--yes"}
    [] OTHER     -> {}

CommandValued(c) ==
  CASE c = Schedule          -> ScheduleValued
    [] c \in {"list", "ls"}  -> {"--state", "--limit"}
    [] c = "cancel"          -> {"--grace"}
    [] c = "history"         -> {"--limit"}
    [] c = "completions"     -> {"--shell"}
    [] OTHER                 -> {}

PositionalCounts(c) ==
  CASE c = Schedule                                                -> Nat
    [] c \in {"show", "cancel", "rm", "run", "output", "service"}  -> {1}
    [] c = "history"                                               -> {0, 1}
    [] OTHER                                                       -> {0}

(* clap's own: every command has the first two, the program the others.    *)
HelpFlags == {"--help", "-h"}
VersionFlags == {"--version", "-V"}

Options ==
  GlobalFlags \cup GlobalValued \cup {"-q", "-v", "--"} \cup HelpFlags \cup VersionFlags
    \cup UNION {CommandFlags(c) \cup CommandValued(c) : c \in ManagementNames \cup {Schedule}}

Enumerations == [o \in {"--color", "--dst", "--missed"} |->
                   CASE o = "--color"  -> {"auto", "always", "never"}
                     [] o = "--dst"    -> {"reject", "earlier", "later"}
                     [] o = "--missed" -> {"hold", "run-latest", "skip"}]

Conflicts == {{"--quiet", "--verbose"}, {"--utc", "--tz"}, {"--env-file", "--capture-env"}}

-------------------------------------------------------------------------------
(* normalize_management_order: the command is moved before the options.    *)
is_management_name(word) == word.text \in ManagementNames /\ word.eq = NoText

option_takes_value(word) == word.text \in GlobalValued \cup ScheduleValued

(* The words the scan passes over because they are an option's value.      *)
Skipped(words) ==
  LET skip_value[i \in 0 .. Len(words)] ==
        i > 1 /\ ~ skip_value[i - 1]
          /\ option_takes_value(words[i - 1]) /\ words[i - 1].eq = NoText
  IN  {i \in 1 .. Len(words) : skip_value[i]}

normalize_management_order_AnyWord(words) ==
  LET names == {i \in 1 .. Len(words) : is_management_name(words[i])}
      first == CHOOSE i \in names : \A k \in names : i <= k
  IN  IF Len(words) < 2 \/ names = {} THEN words
      ELSE <<words[first]>> \o RemoveAt(words, first)

normalize_management_order(words) ==
  LET scanned == (1 .. Len(words)) \ Skipped(words)
      ends    == {i \in scanned : words[i] = Plain("--")}
      names   == {i \in scanned : /\ is_management_name(words[i])
                                  /\ \A k \in ends : i < k}
      first   == CHOOSE i \in names : \A k \in names : i <= k
  IN  IF Len(words) < 2 \/ is_management_name(words[1]) \/ names = {} THEN words
      ELSE <<words[first]>> \o RemoveAt(words, first)

-------------------------------------------------------------------------------
(* clap: the words of command c one by one.  pending is the option whose   *)
(* value comes next; an option maps to the values it was given.            *)
Long(t) == CASE t = "-q" -> "--quiet" [] t = "-v" -> "--verbose" [] OTHER -> t

Empty == [o \in {} |-> <<>>]

Start == [error |-> FALSE, shown |-> FALSE, pending |-> NoText, last |-> FALSE, options |-> Empty,
          positionals |-> <<>>, argv |-> <<>>]

Refused(acc) == [acc EXCEPT !.error = TRUE]

(* Only --env may be given twice.                                          *)
Given(acc, option, values) ==
  IF option \in DOMAIN acc.options /\ option # "--env" THEN Refused(acc)
  ELSE IF option \in DOMAIN acc.options
       THEN [acc EXCEPT !.options[option] = @ \o values, !.pending = NoText]
       ELSE [acc EXCEPT !.options = [o \in DOMAIN @ \cup {option} |->
                                       IF o = option THEN values ELSE @[o]],
                        !.pending = NoText]

TakeWord(c, acc, word) ==
  LET option == Long(word.text)
  IN  CASE word.text = "--" -> [acc EXCEPT !.last = TRUE]
        [] option \in GlobalFlags \cup CommandFlags(c) ->
             IF word.eq = NoText THEN Given(acc, option, <<>>) ELSE Refused(acc)
        [] option \in GlobalValued \cup CommandValued(c) ->
             IF word.eq = NoText THEN [acc EXCEPT !.pending = option]
             ELSE Given(acc, option, <<word.eq>>)
        [] option \in HelpFlags \cup (IF c = Schedule THEN VersionFlags ELSE {}) ->
             IF word.eq = NoText THEN [acc EXCEPT !.shown = TRUE] ELSE Refused(acc)
        [] option \notin Options -> [acc EXCEPT !.positionals = Append(@, word.text)]
        [] OTHER -> Refused(acc)

ParseWord(c, acc, word) ==
  IF acc.error \/ acc.shown THEN acc
  ELSE IF acc.pending # NoText
       THEN IF word.text \in Options THEN Refused(acc) ELSE Given(acc, acc.pending, <<word.text>>)
  ELSE IF acc.last THEN [acc EXCEPT !.argv = Append(@, word.text)]
  ELSE TakeWord(c, acc, word)

(* What is checked word by word.                                           *)
Sound(c, acc) ==
  /\ ~ acc.error /\ acc.pending = NoText
  /\ \A o \in DOMAIN acc.options \cap DOMAIN Enumerations :
       acc.options[o][1] \in Enumerations[o]
  /\ c # Schedule => \E n \in PositionalCounts(c) : Len(acc.positionals) <= n

Acceptable(c, acc) ==
  /\ Sound(c, acc)
  /\ \A pair \in Conflicts : ~ pair \subseteq DOMAIN acc.options
  /\ Len(acc.positionals) \in PositionalCounts(c)
  /\ c # Schedule => acc.argv = <<>>

NotParsed == [command |-> "none", options |-> Empty, positionals |-> <<>>, argv |-> <<>>]

(* The error by which clap shows its help or the version.                  *)
DisplayHelp == [NotParsed EXCEPT !.command = "display_help"]

(* The help command takes the name of another, and an action of service's. *)
help_ok(words) ==
  \/ Len(words) = 1
  \/ Len(words) = 2 /\ is_management_name(words[2])
  \/ Len(words) = 3 /\ words[2] = Plain("service") /\ words[3].text \in {"install", "status", "uninstall"}

try_parse_from(words) ==
  LET managed == words # <<>> /\ is_management_name(words[1])
      c       == IF managed THEN words[1].text ELSE Schedule
      acc     == FoldLeft(LAMBDA a, w : ParseWord(c, a, w), Start,
                          IF managed THEN Tail(words) ELSE words)
  IN  IF c = "help" THEN IF help_ok(words) THEN DisplayHelp ELSE NotParsed
      ELSE IF acc.shown THEN IF Sound(c, acc) THEN DisplayHelp ELSE NotParsed
      ELSE IF Acceptable(c, acc)
      THEN [command |-> c, options |-> acc.options, positionals |-> acc.positionals,
            argv |-> acc.argv]
      ELSE NotParsed

(* A command line to schedule needs a program, and WHEN or --every.        *)
parse_from(words) ==
  LET raw == try_parse_from(normalize_management_order(words))
  IN  IF /\ raw.command = Schedule
         /\ \/ raw.argv = <<>>
            \/ (raw.positionals = <<>>) = ("--every" \notin DOMAIN raw.options)
      THEN NotParsed
      ELSE raw

Has(args, option) == option \in DOMAIN args.options
Value(args, option) == args.options[option][1]
===============================================================================
