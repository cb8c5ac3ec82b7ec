------------------------------ MODULE Processes ------------------------------
(***************************************************************************)
(* Process identities (src/infrastructure/process/mod.rs) over the part of *)
(* the kernel's process table they are read from.  A process id is free    *)
(* for reuse once its process has been reaped and no process is left in    *)
(* the group of that number; what tells two holders of one id apart is the *)
(* start token, counted from boot, together with the boot identity.        *)
(***************************************************************************)
EXTENDS Naturals

CONSTANTS
  Pids,     \* the process ids
  None      \* no process, group or identity

ASSUME PidsAssumption == None \notin Pids

VARIABLES
  boot,     \* the boot identity, as the number of boots before this one
  tick,     \* the start token of the youngest process
  proc      \* the process table

procVars == <<boot, tick, proc>>

(* who is not the kernel's: it tells the command, a process the command    *)
(* started, and a process that has nothing to do with it.                  *)
Process == [st : {"alive", "zombie", "gone"}, token : Nat, group : Pids \cup {None},
            who : {"command", "child", "stranger", "nobody"}]

Gone == [st |-> "gone", token |-> 0, group |-> None, who |-> "nobody"]

(* ProcessIdentitySnapshot.                                                *)
Identity == [boot : Nat, pid : Pids, token : Nat, group : Pids \cup {None}]

ProcessesTypeOK ==
  /\ boot \in Nat
  /\ tick \in Nat
  /\ proc \in [Pids -> Process]

ProcessesInit ==
  /\ boot = 0
  /\ tick = 0
  /\ proc = [p \in Pids |-> Gone]

Present(p) == proc[p].st # "gone"

Alive(p) == proc[p].st = "alive"

Members(g) == {p \in Pids : Present(p) /\ proc[p].group = g}

Free(p) == ~Present(p) /\ Members(p) = {}

(* fork, and for a command process_group(0) before exec.                   *)
Fork(p, group, who) ==
  /\ Free(p)
  /\ tick' = tick + 1
  /\ proc' = [proc EXCEPT ![p] = [st |-> "alive", token |-> tick + 1,
                                  group |-> group, who |-> who]]
  /\ UNCHANGED boot

(* A machine that is started again counts its start tokens from zero.      *)
Restart ==
  /\ boot' = boot + 1
  /\ tick' = 0
  /\ proc' = [p \in Pids |-> Gone]

(* What the kernel says of a process, a zombie included: /proc/<pid>/stat  *)
(* on Linux, proc_pidinfo on macOS with sysctl for a zombie.  An entry     *)
(* that is not there is no identity.  A group that none of Pids leads, as  *)
(* the monitor's own, is None.                                             *)
IdentityOf(p) == [boot |-> boot, pid |-> p, token |-> proc[p].token, group |-> proc[p].group]

inspect(p) == IF Present(p) THEN IdentityOf(p) ELSE None

classify_identity_SameStart(expected) ==
  IF ~Present(expected.pid) THEN "dead"
  ELSE IF proc[expected.pid].token = expected.token THEN "alive" ELSE "reused"

classify_identity(expected) ==
  IF inspect(expected.pid) = None THEN "dead"
  ELSE IF inspect(expected.pid) = expected THEN "alive" ELSE "reused"

(* A zombie is dead to the Linux inspector, and not to that of macOS.      *)
classify(platform, expected) ==
  IF platform = "linux" /\ proc[expected.pid].st = "zombie" THEN "dead"
  ELSE classify_identity(expected)

===============================================================================
