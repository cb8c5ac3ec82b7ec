------------------------------- MODULE Capture -------------------------------
(***************************************************************************)
(* Bounded capture of a command's output and its echo to a terminal, as    *)
(* operators on one stream's record (src/run_monitor/capture.rs, tty.rs).  *)
(* Of the bytes only their number is kept.                                 *)
(***************************************************************************)
EXTENDS Naturals

CONSTANTS
  Cap,        \* the cap of each stream's log, never 0
  EchoLimit   \* how much of each log is echoed

ASSUME CaptureAssumption == Cap \in Nat \ {0} /\ EchoLimit \in Nat

Least(a, b) == IF a < b THEN a ELSE b

(* CaptureBudget and CapturedStream; done: drain_stream has returned.      *)
StreamCapture == [written : Nat, discarded : Nat, error : BOOLEAN, done : BOOLEAN]

NewCapture == [written |-> 0, discarded |-> 0, error |-> FALSE, done |-> FALSE]

remaining(c) == IF c.written < Cap THEN Cap - c.written ELSE 0

record_chunk(c, written, consumed) ==
  [c EXCEPT !.written = @ + written, !.discarded = @ + (consumed - written)]

(* drain_stream, one chunk: what the budget allows is written to the log,  *)
(* unless a write has failed before or fails now, part of the way.         *)
Allowed(c, read) == IF c.error THEN 0 ELSE Least(remaining(c), read)

Chunk_Uncounted(c, read) ==
  {[record_chunk(c, Least(remaining(c), read), read) EXCEPT !.discarded = c.discarded]}

Chunk(c, read) ==
  {record_chunk(c, Allowed(c, read), read)} \cup
  {[record_chunk(c, written, read) EXCEPT !.error = TRUE] :
     written \in {w \in 0..read : w < Allowed(c, read)}}

(* The end of the stream, with a flush that may fail; a read that fails.   *)
AtEnd(c) == {[c EXCEPT !.done = TRUE], [c EXCEPT !.done = TRUE, !.error = TRUE]}

OnReadError(c) == [c EXCEPT !.done = TRUE, !.error = TRUE]

truncated(c) == c.discarded > 0

-------------------------------------------------------------------------------
(* open_tty: only a terminal device of the user's own that others cannot   *)
(* write to; read_tail: the end of a log.                                  *)
tty_attributes_allowed(t) == t.char_device /\ t.owned /\ ~t.world_writable

open_tty(t) == tty_attributes_allowed(t) /\ t.is_terminal

Terminal == [char_device : BOOLEAN, owned : BOOLEAN, world_writable : BOOLEAN,
             is_terminal : BOOLEAN]

read_tail(c) == [bytes |-> Least(c.written, EchoLimit), truncated |-> c.written > EchoLimit]

(* sanitize_tail: control characters are left out, a malformed byte        *)
(* becomes a character of three, and the text is cut to the limit again,   *)
(* which no notice tells.                                                  *)
sanitize_tail(tail) ==
  {Least(n, EchoLimit) : n \in 0..(3 * tail.bytes)}

captured_truncated_StdoutOnly(out, err) == truncated(out)

captured_truncated(out, err) == truncated(err) \/ truncated(out)

(* echo_tty writes the notice of the cap, the notice of the limit, an      *)
(* empty line and the two texts.  Nobody waits for the terminal, so any    *)
(* write may end part of the way, and is the last one then; k writes       *)
(* succeed.  A log of stderr that cannot be read is noticed after the text *)
(* of stdout.                                                              *)
Part(k, before, text) ==
  IF k > before THEN {text} ELSE IF k = before THEN 0..text ELSE {0}

Echoed(out, err, readable, k, o, e) ==
  {[at_cap  |-> k > 0 /\ captured_truncated(out, err),
    limited |-> k > 1 /\ (read_tail(out).truncated \/ (readable /\ read_tail(err).truncated)),
    stdout  |-> shown, stderr |-> shown_err] :
     shown \in Part(k, 3, o),
     shown_err \in IF readable THEN Part(k, 4, e) ELSE {0}}

Writes(readable) == IF readable THEN 0..5 ELSE 0..4

echo_tty(out, err) ==
  UNION {UNION {Echoed(out, err, readable, k, o, e) :
                  k \in Writes(readable),
                  o \in sanitize_tail(read_tail(out)), e \in sanitize_tail(read_tail(err))} :
           readable \in BOOLEAN}

===============================================================================
