------------------------------- MODULE MCRequests -------------------------------
(* Command lines in every order of their words, and the worlds they meet.  *)
EXTENDS Requests

MCZones == [z \in {"UTC", "Spring", "Fall", "Midnight"} |->
  CASE z = "UTC"      -> [at |-> 0, before |-> 0, after |-> 0]
    [] z = "Spring"   -> [at |-> 10 * Day + 7200, before |-> 0, after |-> 3600]
    [] z = "Fall"     -> [at |-> 10 * Day + 3600, before |-> 3600, after |-> 0]
    [] z = "Midnight" -> [at |-> 10 * Day, before |-> 1800, after |-> -1800]]

MCZoneNames == [name \in {"UTC", "utc", "Spring", "spring", "Fall", "fall", "Midnight"} |->
  CASE name \in {"UTC", "utc"} -> "UTC" [] name \in {"Spring", "spring"} -> "Spring"
    [] name \in {"Fall", "fall"} -> "Fall" [] name = "Midnight" -> "Midnight"]

Shape(marks, date, time) == [marks |-> marks, digit |-> TRUE, date |-> date, time |-> time]

MCWhenWords == [w \in {"00:00", "01:30", "02:30", "23:45", "day10", "day11", "day10 02:30", "day10T01:30", "9:00"} |->
  CASE w = "00:00"       -> Shape({":"}, Never, 0)
    [] w = "01:30"       -> Shape({":"}, Never, 5400)
    [] w = "02:30"       -> Shape({":"}, Never, 9000)
    [] w = "23:45"       -> Shape({":"}, Never, 85500)
    [] w = "day10"       -> Shape({"-"}, 10, Never)
    [] w = "day11"       -> Shape({"-"}, 11, Never)
    [] w = "day10 02:30" -> Shape({"-", ":"}, 10, 9000)
    [] w = "day10T01:30" -> Shape({"-", ":", "T"}, 10, 5400)
    [] w = "9:00"        -> Shape({":"}, Never, Never)]

P(n, u) == [digits |-> Digits(n), n |-> n, unit |-> u]
MCDurationParts == [w \in {"10s", "5m", "1h", "0h", "90m", "8760h", "8761h", "9999999s", "1", "0s",
                           "30s", "05m", "h", ""} |->
  CASE w = "10s"      -> <<P(10, "s")>>
    [] w = "5m"       -> <<P(5, "m")>>
    [] w = "1h"       -> <<P(1, "h")>>
    [] w = "0h"       -> <<P(0, "h")>>
    [] w = "90m"      -> <<P(90, "m")>>
    [] w = "8760h"    -> <<P(8760, "h")>>
    [] w = "8761h"    -> <<P(8761, "h")>>
    [] w = "9999999s" -> <<P(9999999, "s")>>
    [] w = "1"        -> <<P(1, "none")>>
    [] w = "0s"       -> <<P(0, "s")>>
    [] w = "30s"      -> <<P(30, "s")>>
    [] w = "05m"      -> <<[digits |-> 2, n |-> 5, unit |-> "m"]>>
    [] w = "h"        -> <<[digits |-> 0, n |-> 0, unit |-> "h"]>>
    [] w = ""         -> <<>>]

(* Words that are one text, and what that spells.                          *)
JoinedTexts ==
  {<<<<"1", "30s">>, <<P(130, "s")>>>>, <<<<"1", "05m">>, <<P(105, "m")>>>>, <<<<"1", "h">>, <<P(1, "h")>>>>,
   <<<<"1", "h", "1", "30s">>, <<P(1, "h"), P(130, "s")>>>>, <<<<"", "10s">>, <<P(10, "s")>>>>,
   <<<<"10s", "">>, <<P(10, "s")>>>>, <<<<"1", "">>, <<P(1, "none")>>>>, <<<<"1", "1">>, <<P(11, "none")>>>>,
   <<<<"5m", "h">>, <<P(5, "m"), [digits |-> 0, n |-> 0, unit |-> "h"]>>>>, <<<<"0s", "1", "0h">>, <<P(0, "s"), P(10, "h")>>>>}

MCSizes == [t \in {"big", "huge", "long"} |-> CASE t = "big" -> 10 [] t = "huge" -> 13 [] t = "long" -> 9]
MCScalars == [t \in {"long", "wordy"} |-> CASE t = "long" -> 9 [] t = "wordy" -> 11]
MCRealPaths == [p \in {"/home", "/tmp", "link", "sub", "file"} |->
  CASE p \in {"/home", "sub"} -> "/home" [] p \in {"/tmp", "link"} -> "/tmp" [] p = "file" -> "/bin/sh"]
MCAssignments == [t \in {"A=1", "A=2", "B=1", "PATH=2", "%=1"} |->
  CASE t = "A=1" -> <<"A", "1">> [] t = "A=2" -> <<"A", "2">> [] t = "B=1" -> <<"B", "1">>
    [] t = "PATH=2" -> <<"PATH", "2">> [] t = "%=1" -> <<"%", "1">>]

-------------------------------------------------------------------------------
(* What is meant, and the lines that say it: every order of the options    *)
(* among the words that keep theirs, each value apart or after `='.        *)
Meaning(c, opts, positionals, argv) ==
  [command |-> c, options |-> opts, positionals |-> positionals, argv |-> argv]

Opt(o, values) == [name \in {o} |-> values]
Also(f, g) == [o \in DOMAIN f \cup DOMAIN g |-> IF o \in DOMAIN g THEN g[o] ELSE f[o]]

ValuedOptions == GlobalValued \cup ScheduleValued \cup {"--state", "--limit", "--grace"}

(* The ways to write one option.                                           *)
Writings(o, values) ==
  IF values = <<>> THEN {<<Plain(o)>>} \cup (IF o = "--quiet" THEN {<<Plain("-q")>>} ELSE {})
  ELSE {<<Plain(o), Plain(values[1])>>, <<[text |-> o, eq |-> values[1]]>>}

(* Every merge of sequences of words.                                      *)
Insert(words, i, group) == SubSeq(words, 1, i) \o group \o SubSeq(words, i + 1, Len(words))

(* The places an option may be put: not between an option and its value.   *)
Places(words) ==
  {i \in 0 .. Len(words) :
     i > 0 => ~ (words[i].text \in ValuedOptions /\ words[i].eq = NoText)}

With(lines, o, values) ==
  UNION {{Insert(words, i, group) : i \in Places(words)} :
           words \in lines, group \in Writings(o, values)}

Lines(m) ==
  LET fixed == (IF m.command = Schedule THEN <<>> ELSE <<Plain(m.command)>>)
                 \o [i \in DOMAIN m.positionals |-> Plain(m.positionals[i])]
      heads == FoldSet(LAMBDA o, lines : With(lines, o, m.options[o]), {fixed}, DOMAIN m.options)
      tail  == IF m.argv = <<>> THEN <<>>
               ELSE <<Plain("--")>> \o [i \in DOMAIN m.argv |-> Plain(m.argv[i])]
  IN  {head \o tail : head \in heads}

Line(m) ==
  LET options == SetToSeq(DOMAIN m.options)
      words(o) == IF m.options[o] = <<>> THEN <<Plain(o)>>
                  ELSE FlattenSeq([i \in DOMAIN m.options[o] |-> <<Plain(o), Plain(m.options[o][i])>>])
  IN  FlattenSeq([i \in DOMAIN options |-> words(options[i])])
        \o [i \in DOMAIN m.positionals |-> Plain(m.positionals[i])]
        \o <<Plain("--")>> \o [i \in DOMAIN m.argv |-> Plain(m.argv[i])]

-------------------------------------------------------------------------------
Layer(l) == [readable |-> TRUE, layer |-> l]
Set(f, v) == [field \in {f} |-> v]

NotAsked == [kind |-> "none", parts |-> <<>>, date |-> Never, time |-> Never]
Lasts(parts) == [NotAsked EXCEPT !.kind = "duration", !.parts = parts]
At(date, time) == [NotAsked EXCEPT !.kind = "calendar", !.date = date, !.time = time]

World ==
  [line |-> <<>>, meant |-> NotParsed, asked |-> NotAsked,
   file |-> Layer(Unset), edited |-> Layer(Unset), environment |-> Unset,
   home |-> [xdg_state_home |-> "none", xdg_runtime_dir |-> "none", home |-> "/home",
             temporary_directory |-> "/tmp"],
   unwritable |-> {}, local |-> "Fall", now |-> 9 * Day, stdout |-> "none", cwd |-> "/home",
   process |-> [k \in {"PATH", "X"} |-> "1"], env_file |-> NoFile]

Types(m, asked) == [World EXCEPT !.line = Line(m), !.meant = m, !.asked = asked]

Ask(opts, when) == Meaning(Schedule, opts, when, <<"prog">>)
Soon == Ask(Empty, <<"10s">>)
SoonWith(opts) == Ask(opts, <<"10s">>)
Ten == Lasts(<<P(10, "s")>>)

(* Every order of the words.                                               *)
Orders ==
  UNION {{[World EXCEPT !.line = line, !.meant = m, !.asked = Lasts(<<P(1, "h"), P(5, "m")>>)] :
            line \in Lines(m)} :
           m \in {Meaning(Schedule, Also(Opt("--name", <<"run">>), Also(Opt("--json", <<>>), opts)),
                          <<"1h", "5m">>, <<"list", "--tz">>) :
                    opts \in {Empty, Opt("--quiet", <<>>), Opt("--cwd", <<"/home">>)}}}
    \cup UNION {{[World EXCEPT !.line = line, !.meant = m] : line \in Lines(m)} :
                  m \in {Meaning("history", Also(Opt("--limit", <<"5">>), Also(Opt("--quiet", <<>>), Opt("--state-dir", <<"ps">>))),
                                 <<"run">>, <<>>),
                         Meaning("rm", Also(Opt("--cancel", <<>>), Opt("--json", <<>>)), <<"list">>, <<>>)}}

(* Lines that mean nothing.                                                *)
Refusals ==
  {[World EXCEPT !.line = line] :
     line \in {Line(SoonWith(Also(Opt("--quiet", <<>>), Opt("--verbose", <<>>)))),
               Line(SoonWith(Also(Opt("--utc", <<>>), Opt("--tz", <<"UTC">>)))),
               Line(SoonWith(Also(Opt("--env-file", <<"f">>), Opt("--capture-env", <<>>)))),
               Line(SoonWith(Opt("--every", <<"5m">>))), Line(Ask(Empty, <<>>)),
               Line(SoonWith(Opt("--limit", <<"5">>))), Line(SoonWith(Opt("--dst", <<"sometimes">>))),
               Line(SoonWith(Opt("--name", <<"a", "b">>))),
               <<Plain("10s")>>, <<Plain("10s"), Plain("--tz")>>, <<Plain("--tz"), Plain("--"), Plain("prog")>>,
               <<[text |-> "--json", eq |-> "1"], Plain("ps")>>, <<Plain("show")>>,
               <<Plain("list"), Plain("--version")>>, <<Plain("--version"), Plain("list")>>,
               <<Plain("--dst"), Plain("sometimes"), Plain("--help")>>, <<Plain("--tz"), Plain("--help")>>,
               <<Plain("--limit"), Plain("--help")>>, <<Plain("ps"), Plain("prog"), Plain("-h")>>,
               <<Plain("--json"), Plain("help")>>, <<Plain("help"), Plain("prog")>>}}

(* Lines that ask for help or for the version, whatever else they say.     *)
Helps ==
  {[World EXCEPT !.line = line, !.meant = DisplayHelp] :
     line \in {<<Plain("10s"), Plain("--help"), Plain("--"), Plain("prog")>>, <<Plain("-h"), Plain("list")>>,
               <<Plain("10s"), Plain("--version"), Plain("--tz")>>, <<Plain("-V"), Plain("--json")>>,
               <<Plain("--quiet"), Plain("--verbose"), Plain("--help")>>, <<Plain("--help"), Plain("--typo")>>,
               <<Plain("service"), Plain("--help")>>, <<Plain("rm"), Plain("-h"), Plain("--limit")>>,
               <<Plain("help")>>, <<Plain("help"), Plain("service"), Plain("status")>>}}

(* Durations, relative and recurring.                                      *)
Durations ==
  {Types(Ask(Empty, when), Lasts(FlattenSeq([i \in DOMAIN when |-> MCDurationParts[when[i]]]))) :
     when \in {<<w>> : w \in DOMAIN MCDurationParts \ {"h", ""}} \cup {<<v, w>> : v, w \in {"1h", "5m", "10s", "0h", "0s"}}
                \cup {<<"1h", "5m", "10s">>}}
    \cup {Types(Ask(Also(Opt("--every", <<w>>), opts), <<>>), Lasts(MCDurationParts[w])) :
            w \in {"90m", "0s", "8760h", "8761h"}, opts \in {Empty, Opt("--utc", <<>>), Opt("--missed", <<"hold">>)}}
    \cup {[Types(Soon, Ten) EXCEPT !.now = LastInstant - d] : d \in {9, 10}}
    \cup {Types(SoonWith(Opt("--dst", <<"later">>)), Ten)}
    \cup {Types(Ask(Empty, joined[1]), Lasts(joined[2])) : joined \in JoinedTexts}
    \cup {Types(Ask(Opt("--every", <<"h">>), <<>>), Lasts(MCDurationParts["h"]))}

(* Calendar times around the changes of the clocks.                        *)
Zoned(z) == IF z = "UTC" THEN Opt("--utc", <<>>) ELSE Opt("--tz", <<z>>)
Resolving == {Empty, Opt("--dst", <<"earlier">>), Opt("--dst", <<"later">>), Opt("--no-rollover", <<>>)}

Asks == {<<<<"01:30">>, At(Never, 5400)>>, <<<<"02:30">>, At(Never, 9000)>>, <<<<"00:00">>, At(Never, 0)>>,
         <<<<"23:45">>, At(Never, 85500)>>, <<<<"day10">>, At(10, 0)>>, <<<<"day11">>, At(11, 0)>>,
         <<<<"day10", "02:30">>, At(10, 9000)>>, <<<<"day10 02:30">>, At(10, 9000)>>,
         <<<<"day10T01:30">>, At(10, 5400)>>, <<<<"9:00">>, NotAsked>>, <<<<"day10", "day11">>, NotAsked>>,
         <<<<"prog">>, NotAsked>>, <<<<"">>, NotAsked>>, <<<<"h", "1">>, NotAsked>>, <<<<"", "23:45">>, At(Never, 85500)>>, <<<<"day10", "", "02:30">>, NotAsked>>}

Calendars ==
  {[Types(Ask(Also(Zoned(z), opts), a[1]), a[2]) EXCEPT !.now = now] :
     z \in {"UTC", "spring", "fall", "Midnight", "Nowhere"}, opts \in Resolving, a \in Asks,
     now \in {9 * Day + 5400, 10 * Day - 1000, 10 * Day, 10 * Day + 1700, 10 * Day + 3600, 10 * Day + 5400}}

(* Layers of configuration, and an edit between the two looks.             *)
Settings ==
  {Unset, Set("default_runtime", "durable"), Set("default_timezone", "spring"), Set("verbosity", "quiet"),
   Set("color", "never"), Set("default_shell", "/bin/zsh")}
BadSettings ==
  {Set("default_timezone", "Nowhere"), Set("default_shell", "sh"), Set("history_days", 0),
   Set("terminal_job_days", 3651), Set("max_log_bytes_per_stream", 0), Set("cancel_grace", "0h"),
   Set("color", "red"), Set("history_days", NoParse), Set("typo", "x")}

Layered ==
  {[Types(m, asked) EXCEPT !.file = Layer(f), !.edited = Layer(g), !.environment = e] :
     m \in {Ask(opts, <<"23:45">>) : opts \in {Empty, Opt("--shell", <<>>), Also(Opt("--durable", <<>>), Opt("--tz", <<"UTC">>)),
                                             Also(Opt("--verbose", <<>>), Opt("--color", <<"always">>)), Opt("--dry-run", <<>>)}},
     asked \in {At(Never, 85500)}, f \in Settings, g \in {Unset, Set("default_runtime", "session"), Set("default_runtime", "durable")},
     e \in {Unset, Set("default_runtime", "session"), Set("default_timezone", "UTC"), Set("verbosity", "verbose"), Set("default_shell", "/bin/zsh")}}
    \cup {[Types(Soon, Ten) EXCEPT !.file = Layer(f), !.edited = Layer(f), !.environment = e] :
            f \in BadSettings \cup {Unset}, e \in BadSettings \cup {Unset, Set("default_timezone", "UTC"), Set("color", "auto")}}
    \cup {[Types(Soon, Ten) EXCEPT !.file.readable = FALSE]}
    \cup {[Types(m, Ten) EXCEPT !.home.home = home] :
            home \in {"none", "relative"}, m \in {Soon, SoonWith(Opt("--state-dir", <<"/tmp">>))}}

(* What the job runs.                                                      *)
Executions ==
  {[Types(Meaning(Schedule, opts, <<"10s">>, argv), Ten) EXCEPT !.stdout = tty, !.env_file = f, !.process = p] :
     opts \in {Opt("--tty", <<>>), Opt("--shell", <<>>), Opt("--capture-env", <<>>), Opt("--env", <<"A=1", "A=2">>),
               Also(Opt("--env-file", <<"f">>), Opt("--env", <<"A=1", "PATH=2">>)), Opt("--env", <<"%=1">>),
               Opt("--cwd", <<"file">>), Opt("--cwd", <<"link">>), Opt("--cwd", <<"gone">>), Opt("--name", <<"long">>),
               Opt("--description", <<"long">>), Opt("--description", <<"wordy">>)},
     argv \in {<<"prog">>, <<"prog", "arg">>, <<"big">>, <<"huge">>, <<"latin">>}, tty \in {"none", "/dev/tty"},
     f \in {NoFile, [regular |-> TRUE, lines |-> <<<<"A", "3">>, <<"C", "1">>>>],
            [regular |-> TRUE, lines |-> <<<<"A", "3">>, <<"A", "4">>>>], [regular |-> FALSE, lines |-> <<>>]},
     p \in {[k \in {"PATH", "X"} |-> "1"], [k \in {"PATH", "%"} |-> "1"], [k \in {"X"} |-> "latin"]}}

(* Streams that cannot be written, and a current directory that is gone.   *)
Broken ==
  {[world EXCEPT !.unwritable = streams] :
     streams \in {{"stdout"}, {"stderr"}, {"stdout", "stderr"}},
     world \in {Types(SoonWith(opts), Ten) :
                  opts \in {Empty, Opt("--quiet", <<>>), Also(Opt("--quiet", <<>>), Opt("--json", <<>>)), Opt("--dry-run", <<>>),
                            Opt("--durable", <<>>), Opt("--capture-env", <<>>), Opt("--shell", <<>>), Opt("--name", <<"long">>)}}
              \cup {[Types(Soon, Ten) EXCEPT !.file.readable = FALSE], [Types(Soon, Ten) EXCEPT !.home.home = "none"],
                    [Types(Soon, Ten) EXCEPT !.environment = Set("verbosity", "quiet")],
                    [World EXCEPT !.line = <<Plain("10s")>>], [World EXCEPT !.line = <<Plain("--json"), Plain("10s")>>],
                    [World EXCEPT !.line = <<Plain("--json"), Plain("-h")>>, !.meant = DisplayHelp]}}
    \cup {[Types(Soon, Ten) EXCEPT !.cwd = "gone"], [Types(Ask(Empty, <<"23:45">>), At(Never, 85500)) EXCEPT !.local = "none"]}

MCCommands ==
  Orders \cup Refusals \cup Helps \cup Durations \cup Calendars \cup Layered \cup Executions \cup Broken

(* What the words of these requests spell is what they ask for.            *)
ASSUME WordsAssumption == \A c \in MCCommands : WordsSay(c)

(* The same of texts: what is printed is read back, the durations with     *)
(* each of the units present, absent and at its limits.                    *)
MCDurations ==
  {h * 3600 + m * 60 + s : h \in {0, 1, 24, 8759, 8760}, m \in {0, 1, 59}, s \in {0, 1, 59}}
    \cap 1 .. MaxDuration

ASSUME TextsReadBack == (\A id \in 0 .. MaxId : IdReadBack(id)) /\ \A d \in MCDurations : DurationReadBack(d)
===============================================================================
