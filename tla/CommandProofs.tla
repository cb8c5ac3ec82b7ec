----------------------------- MODULE CommandProofs -----------------------------
(***************************************************************************)
(* A cancellation spares strangers, and logs and echo say what is missing  *)
(* of the output, for any number of processes, reboots and bytes, on both  *)
(* platforms.                                                              *)
(***************************************************************************)
EXTENDS Command, TLAPS

(* The types of what identities are read from and kept in.                 *)
Types ==
  /\ ProcessesTypeOK
  /\ row \in [state : RunState, id : Identity \cup {None}]
  /\ mon \in [pc : MonPc, left : Nat, child : Pids \cup {None},
              id : Identity \cup {None}, out : RunOutcome, watched : BOOLEAN]
  /\ can \in [pc : CanPc, seen : Nat, late : BOOLEAN, result : CancellationResult]

(* A table of processes: no start token is ahead of the clock, and every   *)
(* stranger leads a group of its own.                                      *)
Table(t, table) ==
  \A p \in Pids : /\ table[p].st # "gone" => table[p].token <= t
                  /\ table[p].who = "stranger" => table[p].group = p

(* An identity that was read from the command: whoever has it still is the *)
(* command.                                                                *)
Known(id, b, t, table) ==
  /\ id \in Identity /\ id.group = id.pid /\ id.boot <= b
  /\ id.boot = b =>
       /\ id.token <= t
       /\ (table[id.pid].st # "gone" /\ table[id.pid].token = id.token)
            => table[id.pid].who = "command"

(* Every stranger in a group came after an instant.                        *)
Later(g, seen, table) ==
  \A p \in Pids :
     (table[p].st # "gone" /\ table[p].who = "stranger" /\ table[p].group = g)
       => table[p].token > seen

Spawned ==
  mon.pc = "inspect" => mon.child \in Pids /\ Present(mon.child) /\ proc[mon.child].who = "command"

Identified ==
  /\ mon.pc = "mark" => mon.id # None
  /\ mon.id # None => Known(mon.id, boot, tick, proc)
  /\ row.id # None => Known(row.id, boot, tick, proc)
  /\ row.state \in {"running", "cancel_requested"} => row.id # None
  /\ can.pc \notin {"idle", "over"} => row.id # None /\ row.state # "starting"

Checked ==
  /\ can.seen <= tick
  /\ can.pc \in {"term", "kill"} => Later(row.id.group, can.seen, proc)

IInv ==
  Types /\ Table(tick, proc) /\ Spawned /\ Identified /\ Checked /\ SparesStrangers

-------------------------------------------------------------------------------
(* Within one boot a process ends, leaves its group unless it is a         *)
(* stranger, or is a new one with a start token of its own.                *)
Moves ==
  /\ boot' = boot
  /\ tick' \in Nat /\ tick <= tick'
  /\ proc' \in [Pids -> Process]
  /\ \A p \in Pids :
       \/ proc'[p] = Gone
       \/ /\ proc'[p].st # "gone" => proc[p].st # "gone"
          /\ proc'[p].token = proc[p].token
          /\ proc'[p].who = proc[p].who
          /\ proc'[p].group = proc[p].group \/ proc[p].who # "stranger"
       \/ /\ proc'[p].token \in (tick + 1)..tick'
          /\ proc'[p].who = "stranger" => proc'[p].group = p

LEMMA MovesKeepTable ==
  ASSUME ProcessesTypeOK, Table(tick, proc), Moves
  PROVE  Table(tick', proc')
BY DEF ProcessesTypeOK, Process, Table, Moves, Gone

LEMMA MovesKeepKnown ==
  ASSUME ProcessesTypeOK, Moves, NEW id, Known(id, boot, tick, proc)
  PROVE  Known(id, boot', tick', proc')
BY DEF ProcessesTypeOK, Process, Identity, Known, Moves, Gone

LEMMA MovesKeepLater ==
  ASSUME ProcessesTypeOK, Moves, Table(tick, proc), NEW g, NEW seen \in Nat, seen <= tick,
         Later(g, seen, proc)
  PROVE  Later(g, seen, proc')
BY DEF ProcessesTypeOK, Process, Table, Later, Moves, Gone

LEMMA StandingMoves ==
  ASSUME ProcessesTypeOK, UNCHANGED procVars
  PROVE  Moves
BY DEF ProcessesTypeOK, procVars, Moves

LEMMA ForkMoves ==
  ASSUME ProcessesTypeOK, NEW p \in Pids, NEW g \in Pids \cup {None},
         NEW who \in {"command", "child", "stranger"}, who = "stranger" => g = p, Fork(p, g, who)
  PROVE  Moves /\ proc'[p].who = who /\ proc'[p].st = "alive"
<1>1. [st |-> "alive", token |-> tick + 1, group |-> g, who |-> who] \in Process
  BY DEF ProcessesTypeOK, Process
<1>2. proc' \in [Pids -> Process]
  BY <1>1 DEF ProcessesTypeOK, Fork
<1>3. \A q \in Pids : q # p => proc'[q] = proc[q]
  BY DEF ProcessesTypeOK, Fork
<1>4. proc'[p] = [st |-> "alive", token |-> tick + 1, group |-> g, who |-> who]
  BY DEF ProcessesTypeOK, Fork
<1>5. boot' = boot /\ tick' = tick + 1 /\ tick \in Nat
  BY DEF ProcessesTypeOK, Fork
<1> QED
  BY <1>2, <1>3, <1>4, <1>5 DEF Moves

LEMMA GoneIsProcess == Gone \in Process
BY DEF Gone, Process

LEMMA ReapMoves ==
  ASSUME ProcessesTypeOK, NEW gone \in SUBSET Pids, UNCHANGED <<boot, tick>>,
         proc' = [p \in Pids |-> IF p \in gone THEN Gone ELSE proc[p]]
  PROVE  Moves
BY GoneIsProcess DEF ProcessesTypeOK, Moves

LEMMA KilledMoves ==
  ASSUME ProcessesTypeOK, NEW victims, UNCHANGED <<boot, tick>>, proc' = Killed(victims)
  PROVE  /\ Moves
         /\ \A p \in Pids : (mon.pc # "dead" /\ proc[p].who = "command" /\ Present(p))
                              => Present(p)' /\ proc'[p].who = "command"
<1>1. ASSUME NEW p \in Pids
      PROVE  /\ proc'[p] \in Process
             /\ \/ proc'[p] = Gone
                \/ proc'[p] = proc[p]
                \/ proc'[p] = [proc[p] EXCEPT !.st = "zombie"] /\ proc[p].st = "alive"
             /\ (mon.pc # "dead" /\ proc[p].who = "command" /\ Present(p))
                  => proc'[p] # Gone
  BY GoneIsProcess DEF ProcessesTypeOK, Process, Killed, Alive, Present, Gone
<1>2. proc' \in [Pids -> Process]
  BY <1>1 DEF Killed
<1>3. ASSUME NEW p \in Pids
      PROVE  \/ proc'[p] = Gone
             \/ /\ proc'[p].st # "gone" => proc[p].st # "gone"
                /\ proc'[p].token = proc[p].token
                /\ proc'[p].who = proc[p].who
                /\ proc'[p].group = proc[p].group
  BY <1>1, <1>3 DEF ProcessesTypeOK, Process
<1>4. ASSUME NEW p \in Pids, mon.pc # "dead", proc[p].who = "command", Present(p)
      PROVE  Present(p)' /\ proc'[p].who = "command"
  BY <1>1, <1>4 DEF ProcessesTypeOK, Process, Present
<1> QED
  BY <1>2, <1>3, <1>4 DEF Moves, ProcessesTypeOK

-------------------------------------------------------------------------------
(* What a step keeps when it reads no new identity.                        *)
LEMMA StepKeeps ==
  ASSUME IInv, Moves, Types',
         row'.id = row.id,
         row'.state \in {"running", "cancel_requested"} => row.id # None,
         mon'.id \in {mon.id, None},
         mon'.pc = "mark" => mon'.id # None,
         Spawned',
         can'.pc \notin {"idle", "over"} => row.id # None /\ row'.state # "starting",
         Checked', SparesStrangers'
  PROVE  IInv'
<1>1. Table(tick', proc')
  BY MovesKeepTable DEF IInv, Types
<1>2. mon'.id # None => Known(mon'.id, boot', tick', proc')
  BY MovesKeepKnown DEF IInv, Types, Identified
<1>3. row'.id # None => Known(row'.id, boot', tick', proc')
  BY MovesKeepKnown DEF IInv, Types, Identified
<1>4. Identified'
  BY <1>2, <1>3 DEF Identified
<1> QED
  BY <1>1, <1>4 DEF IInv

(* ... and leaves the canceller alone.                                     *)
LEMMA OthersKeep ==
  ASSUME IInv, Moves, Types', can' = can, hurt' = hurt,
         row'.id = row.id,
         row'.state \in {row.state} \cup RunTerminal,
         mon'.id \in {mon.id, None},
         mon'.pc = "mark" => mon'.id # None,
         Spawned'
  PROVE  IInv'
<1>1. Checked'
  <2>1. can.seen \in Nat /\ can.seen <= tick /\ tick \in Nat
    BY DEF IInv, Types, Checked, ProcessesTypeOK
  <2>2. can.pc \in {"term", "kill"} => Later(row.id.group, can.seen, proc')
    BY <2>1, MovesKeepLater DEF IInv, Types, Checked
  <2> QED
    BY <2>1, <2>2 DEF Checked, Moves
<1>2. SparesStrangers'
  BY DEF IInv, SparesStrangers
<1>3. row'.state \in {"running", "cancel_requested"} => row.id # None
  BY DEF IInv, Identified, RunTerminal
<1>4. can'.pc \notin {"idle", "over"} => row.id # None /\ row'.state # "starting"
  BY DEF IInv, Identified, RunTerminal
<1> QED
  BY <1>1, <1>2, <1>3, <1>4, StepKeeps

-------------------------------------------------------------------------------
(* The steps of the monitor, one lemma per kind.                           *)

(* Spawn: the new process is the command.                                  *)
LEMMA SpawnKeeps ==
  ASSUME IInv, Spawn
  PROVE  IInv'
<1>1. PICK p \in Pids : Fork(p, p, "command") /\ mon' = [mon EXCEPT !.pc = "inspect", !.child = p]
  BY DEF Spawn
<1>2. Moves /\ proc'[p].who = "command" /\ proc'[p].st = "alive"
  BY <1>1, ForkMoves DEF IInv, Types
<1>3. mon'.pc = "inspect" /\ mon'.child = p /\ mon'.id = mon.id
  BY <1>1 DEF IInv, Types
<1>4. Types'
  BY <1>1, <1>2 DEF IInv, Types, Spawn, Moves, ProcessesTypeOK, MonPc
<1>5. Spawned'
  BY <1>2, <1>3 DEF Spawned, Present
<1> QED
  BY <1>2, <1>3, <1>4, <1>5, OthersKeep DEF Spawn

(* reap_failed_spawn.                                                      *)
LEMMA ReapFailedMoves ==
  ASSUME IInv, reap_failed_spawn
  PROVE  Moves
<1>1. proc' = [p \in Pids |-> IF p \in Pids \cap {mon.child} THEN Gone ELSE proc[p]]
  BY DEF IInv, Types, ProcessesTypeOK, reap_failed_spawn
<1> QED
  BY <1>1, ReapMoves DEF IInv, Types, reap_failed_spawn

(* Inspect: what is read is the command's identity.                        *)
LEMMA InspectKeeps ==
  ASSUME IInv, Inspect
  PROVE  IInv'
<1>1. mon.child \in Pids /\ proc[mon.child].who = "command" /\ Present(mon.child)
  BY DEF IInv, Spawned, Inspect
<1>2. inspect(mon.child) = IdentityOf(mon.child)
  BY <1>1 DEF inspect
<1> DEFINE id == IdentityOf(mon.child)
<1>3. id \in Identity /\ id.group = id.pid /\ id.boot = boot /\ id.pid = mon.child
        /\ id.token = proc[mon.child].token
  BY <1>1, <1>2 DEF IInv, Types, ProcessesTypeOK, Process, Identity, IdentityOf, Inspect
<1>4. Known(id, boot, tick, proc)
  BY <1>1, <1>3 DEF Known, IInv, Table, Types, ProcessesTypeOK, Present
<1>5. mon' = [mon EXCEPT !.pc = "mark", !.left = Attempts, !.id = id] /\ mon'.pc = "mark"
        /\ mon'.id = id
  BY <1>2 DEF Inspect, IInv, Types
<1>6. Types'
  BY <1>3, <1>5, CommandAssumption DEF Types, IInv, Inspect, procVars, ProcessesTypeOK, MonPc
<1>7. id # None
  BY <1>2 DEF Inspect
<1>8. Identified'
  BY <1>4, <1>5, <1>7 DEF Identified, IInv, Inspect, procVars
<1> QED
  BY <1>5, <1>6, <1>8 DEF IInv, Inspect, procVars, Table, Spawned, Checked, Later, SparesStrangers

(* mark_run_running: the identity becomes the row's.                       *)
LEMMA MarkKeeps ==
  ASSUME IInv, Mark
  PROVE  IInv'
<1>1. mon'.pc = "capture" /\ mon'.id = None /\ row'.id = mon.id /\ row'.state = "running"
  BY DEF Mark, IInv, Types
<1>2. mon.id # None /\ Known(mon.id, boot, tick, proc)
  BY DEF Mark, IInv, Identified
<1>3. Types'
  BY DEF Types, IInv, Mark, procVars, ProcessesTypeOK, MonPc, RunState
<1>4. Identified'
  BY <1>1, <1>2 DEF Identified, IInv, Mark, procVars
<1>5. can.pc \notin {"term", "kill"}
  BY DEF Mark, IInv, Identified
<1> QED
  BY <1>1, <1>3, <1>4, <1>5 DEF IInv, Mark, procVars, Table, Spawned, Checked, Later, SparesStrangers

(* The other steps of the monitor read no identity.                        *)
LEMMA RecordedState ==
  ASSUME Types, NEW out \in RunOutcome
  PROVE  /\ Recorded(out) \in [state : RunState, id : Identity \cup {None}]
         /\ Recorded(out).id = row.id
         /\ Recorded(out).state \in {row.state} \cup RunTerminal
<1>1. complete_run(row.state, out) \in RunTerminal \cup {"illegal"}
  BY DEF complete_run, outcome_state, RunTerminal
<1>2. CASE complete_run(row.state, out) = "illegal"
  BY <1>2 DEF Recorded, Types
<1>3. CASE complete_run(row.state, out) # "illegal"
  BY <1>1, <1>3 DEF Recorded, Types, RunTerminal, RunState
<1> QED
  BY <1>2, <1>3

LEMMA MonitorKeeps ==
  ASSUME IInv, MonitorNext
  PROVE  IInv'
<1> USE DEF MonPc, RunOutcome
<1>1. CASE SpawnError
  <2>1. Types'
    BY <1>1 DEF SpawnError, IInv, Types, procVars, ProcessesTypeOK
  <2>2. mon'.pc = "record" /\ mon'.id = mon.id
    BY <1>1 DEF SpawnError, IInv, Types
  <2> QED
    BY <1>1, <2>1, <2>2, StandingMoves, OthersKeep DEF SpawnError, IInv, Types, Spawned
<1>2. CASE Spawn
  BY <1>2, SpawnKeeps
<1>3. CASE InspectRetry
  <2>1. mon'.pc = "inspect" /\ mon'.id = mon.id /\ mon'.child = mon.child
    BY <1>3 DEF InspectRetry, IInv, Types
  <2>2. Types'
    BY <1>3 DEF InspectRetry, IInv, Types, procVars, ProcessesTypeOK
  <2>3. Spawned'
    BY <1>3, <2>1 DEF InspectRetry, IInv, Spawned, procVars, Present
  <2> QED
    BY <1>3, <2>1, <2>2, <2>3, StandingMoves, OthersKeep DEF InspectRetry, IInv, Types
<1>4. CASE InspectError
  <2>1. mon'.pc = "record" /\ mon'.id = mon.id
    BY <1>4 DEF InspectError, IInv, Types
  <2>2. Moves
    BY <1>4, ReapFailedMoves DEF InspectError
  <2>3. Types'
    BY <1>4, <2>2, CommandAssumption DEF InspectError, IInv, Types, Moves, ProcessesTypeOK
  <2> QED
    BY <1>4, <2>1, <2>2, <2>3, OthersKeep DEF InspectError, Spawned
<1>5. CASE Inspect
  BY <1>5, InspectKeeps
<1>6. CASE Mark
  BY <1>6, MarkKeeps
<1>7. CASE MarkRefused
  <2>1. mon'.pc = "over" /\ mon'.id = mon.id
    BY <1>7 DEF MarkRefused, IInv, Types
  <2>2. Moves
    BY <1>7, ReapFailedMoves DEF MarkRefused
  <2>3. Types'
    BY <1>7, <2>2 DEF MarkRefused, IInv, Types, Moves, ProcessesTypeOK
  <2> QED
    BY <1>7, <2>1, <2>2, <2>3, OthersKeep DEF MarkRefused, Spawned
<1>8. CASE Wait
  <2>1. PICK out \in RunOutcome : mon' = [mon EXCEPT !.pc = "record", !.out = out]
    BY <1>8 DEF Wait, completion_outcome
  <2>2. mon'.pc = "record" /\ mon'.id = mon.id
    BY <2>1 DEF IInv, Types
  <2>3. proc' = [p \in Pids |-> IF p \in Pids \cap {mon.child} THEN Gone ELSE proc[p]]
    BY <1>8 DEF Wait, IInv, Types, ProcessesTypeOK
  <2>4. Moves
    BY <1>8, <2>3, ReapMoves DEF Wait, IInv, Types
  <2>5. Types'
    BY <1>8, <2>1, <2>4 DEF Wait, IInv, Types, Moves, ProcessesTypeOK
  <2> QED
    BY <1>8, <2>2, <2>4, <2>5, OthersKeep DEF Wait, Spawned
<1>9. CASE Record
  <2>1. mon'.pc \in {"echo", "over"} /\ mon'.id = mon.id
    BY <1>9 DEF Record, IInv, Types
  <2>2. /\ row' \in [state : RunState, id : Identity \cup {None}]
        /\ row'.id = row.id
        /\ row'.state \in {row.state} \cup RunTerminal
    BY <1>9, RecordedState DEF Record, IInv, Types
  <2>3. Types'
    BY <1>9, <2>2 DEF Record, IInv, Types, procVars, ProcessesTypeOK
  <2> QED
    BY <1>9, <2>1, <2>2, <2>3, StandingMoves, OthersKeep DEF Record, IInv, Types, Spawned
<1>10. CASE EchoTty
  <2>1. Types'
    BY <1>10 DEF EchoTty, IInv, Types, procVars, ProcessesTypeOK
  <2>2. mon'.pc = "over" /\ mon'.id = mon.id
    BY <1>10 DEF EchoTty, IInv, Types
  <2> QED
    BY <1>10, <2>1, <2>2, StandingMoves, OthersKeep DEF EchoTty, IInv, Types, Spawned
<1> QED
  BY <1>1, <1>2, <1>3, <1>4, <1>5, <1>6, <1>7, <1>8, <1>9, <1>10 DEF MonitorNext

(* A step that leaves row, monitor and canceller alone, and every process. *)
LEMMA Aside ==
  ASSUME IInv, UNCHANGED <<procVars, row, mon, can, hurt>>
  PROVE  IInv'
BY DEF IInv, procVars, Types, ProcessesTypeOK, Table, Spawned, Present, Identified, Known,
       Checked, Later, SparesStrangers

LEMMA CaptureKeeps ==
  ASSUME IInv, NEW s \in Streams, CaptureNext(s) \/ ReadError(s)
  PROVE  IInv'
BY Aside DEF CaptureNext, Drain, EndOfStream, ReadError

(* The death of the monitor.                                               *)
LEMMA CrashKeeps ==
  ASSUME IInv, MonitorCrash
  PROVE  IInv'
<1>1. mon'.pc = "dead" /\ mon'.id = None
  BY DEF MonitorCrash, IInv, Types
<1>2. proc' = [p \in Pids |-> IF p \in {q \in Pids : proc[q].st = "zombie"} THEN Gone ELSE proc[p]]
  BY DEF MonitorCrash
<1>3. Moves
  BY <1>2, ReapMoves DEF MonitorCrash, IInv, Types
<1>4. Types'
  BY <1>3, CommandAssumption DEF MonitorCrash, IInv, Types, Moves, ProcessesTypeOK, MonPc
<1> QED
  BY <1>1, <1>3, <1>4, OthersKeep DEF MonitorCrash, Spawned

(* The command, the processes it starts, and everybody else's.             *)
LEMMA WorldKeeps ==
  ASSUME IInv, OthersNext
  PROVE  IInv'
<1>1. ASSUME NEW s \in Streams, Write(s)
      PROVE  IInv'
  BY <1>1, Aside DEF Write
<1>2. ASSUME Moves, UNCHANGED <<row, mon, can, hurt>>,
             \A p \in Pids : (mon.pc = "inspect" /\ proc[p].who = "command" /\ Present(p))
                               => Present(p)' /\ proc'[p].who = "command"
      PROVE  IInv'
  <2>1. Types'
    BY <1>2 DEF IInv, Types, Moves, ProcessesTypeOK
  <2>2. Spawned'
    BY <1>2 DEF IInv, Spawned
  <2> QED
    BY <1>2, <2>1, <2>2, OthersKeep DEF IInv, Identified
<1>3. CASE CommandExit
  BY <1>2, <1>3, KilledMoves DEF CommandExit, IInv, Types
<1>4. ASSUME NEW p \in Pids, NEW g \in Pids \cup {None}, NEW who \in {"child", "stranger"},
             who = "stranger" => g = p, Fork(p, g, who), UNCHANGED cmdVars
      PROVE  IInv'
  <2>1. Moves
    BY <1>4, ForkMoves DEF IInv, Types
  <2>2. \A q \in Pids : Present(q) => proc'[q] = proc[q]
    BY <1>4 DEF Fork, Free, IInv, Types, ProcessesTypeOK
  <2> QED
    BY <1>2, <1>4, <2>1, <2>2 DEF cmdVars, Present
<1>5. CASE CommandForks
  <2>1. PICK p \in Leaders, q \in Pids : Fork(q, proc[p].group, "child")
    BY <1>5 DEF CommandForks
  <2>2. proc[p].group \in Pids \cup {None}
    BY <2>1 DEF Leaders, IInv, Types, ProcessesTypeOK, Process
  <2> QED
    BY <1>4, <1>5, <2>1, <2>2 DEF CommandForks
<1>6. CASE StrangerStarts
  BY <1>4, <1>6 DEF StrangerStarts
<1>7. CASE Regroups
  <2>1. PICK q \in Holders : proc' = [proc EXCEPT ![q].group = None]
    BY <1>7 DEF Regroups
  <2>2. q \in Pids /\ proc[q].who # "stranger"
    BY DEF Holders
  <2>3. /\ proc' \in [Pids -> Process]
        /\ \A p \in Pids : /\ proc'[p].st = proc[p].st
                           /\ proc'[p].token = proc[p].token
                           /\ proc'[p].who = proc[p].who
                           /\ p # q => proc'[p] = proc[p]
    BY <2>1, <2>2 DEF IInv, Types, ProcessesTypeOK, Process
  <2>4. \A p \in Pids : proc'[p].group = proc[p].group \/ proc[p].who # "stranger"
    BY <2>2, <2>3
  <2>5. boot' = boot /\ tick' = tick /\ tick \in Nat
    BY <1>7 DEF Regroups, IInv, Types, ProcessesTypeOK
  <2>6. Moves
    BY <2>3, <2>4, <2>5 DEF Moves
  <2> QED
    BY <1>2, <1>7, <2>3, <2>6 DEF Regroups, cmdVars, Present
<1>8. CASE OtherExits
  <2>1. PICK q \in Pids : proc[q].who \in {"child", "stranger"} /\ proc' = [proc EXCEPT ![q] = Gone]
    BY <1>8 DEF OtherExits
  <2>2. proc' = [p \in Pids |-> IF p \in {q} THEN Gone ELSE proc[p]]
    BY <2>1 DEF IInv, Types, ProcessesTypeOK
  <2>3. Moves
    BY <1>8, <2>2, ReapMoves DEF OtherExits, IInv, Types
  <2>4. \A p \in Pids : proc[p].who = "command" => proc'[p] = proc[p]
    BY <2>1, <2>2
  <2> QED
    BY <1>2, <1>8, <2>3, <2>4 DEF OtherExits, cmdVars, Present
<1> QED
  BY <1>1, <1>3, <1>5, <1>6, <1>7, <1>8 DEF OthersNext

(* A machine that is started again has no process of the old one.          *)
LEMMA RebootKeeps ==
  ASSUME IInv, Reboot
  PROVE  IInv'
<1>1. mon'.pc \in {"over", "dead"} /\ mon'.id = None
  BY DEF Reboot, IInv, Types
<1>2. boot' = boot + 1 /\ tick' = 0 /\ boot \in Nat /\ \A p \in Pids : proc'[p] = Gone
  BY DEF Reboot, Restart, IInv, Types, ProcessesTypeOK
<1>3. Types'
  <2>1. ProcessesTypeOK'
    BY <1>2, GoneIsProcess DEF Reboot, Restart, ProcessesTypeOK
  <2>2. can' \in [pc : CanPc, seen : Nat, late : BOOLEAN, result : CancellationResult]
    BY DEF Reboot, NoCanceller, CanPc, CancellationResult
  <2>3. mon' \in [pc : MonPc, left : Nat, child : Pids \cup {None},
                  id : Identity \cup {None}, out : RunOutcome, watched : BOOLEAN]
    BY CommandAssumption DEF Reboot, IInv, Types, MonPc
  <2> QED
    BY <2>1, <2>2, <2>3 DEF Reboot, IInv, Types
<1>4. Table(tick', proc')
  BY <1>2 DEF Table, Gone
<1>5. row.id # None => Known(row.id, boot', tick', proc')
  BY <1>2 DEF IInv, Identified, Known, Identity
<1>6. can'.pc = "idle" /\ can'.seen = 0
  BY DEF Reboot, NoCanceller
<1>7. Identified'
  BY <1>1, <1>5, <1>6 DEF Identified, IInv, Reboot
<1>8. Checked' /\ Spawned' /\ SparesStrangers'
  BY <1>1, <1>2, <1>6 DEF Checked, Spawned, SparesStrangers, IInv, Reboot
<1> QED
  BY <1>3, <1>4, <1>7, <1>8 DEF IInv

-------------------------------------------------------------------------------
(* The canceller.                                                          *)

(* An identity that is alive is the command, which is alone in its group   *)
(* with what it started.                                                   *)
LEMMA AliveMeansCommand ==
  ASSUME IInv, row.id # None, classify(load.platform, row.id) \notin {"dead", "reused"}
  PROVE  Later(row.id.group, tick, proc)
<1>1. Known(row.id, boot, tick, proc) /\ row.id.pid \in Pids
  BY DEF IInv, Identified, Known, Identity
<1>2. inspect(row.id.pid) = row.id
  BY DEF classify, classify_identity
<1>3. Present(row.id.pid) /\ IdentityOf(row.id.pid) = row.id
  BY <1>2 DEF inspect
<1>4. proc[row.id.pid].who = "command"
  BY <1>1, <1>3 DEF Known, Present, IdentityOf
<1> QED
  BY <1>1, <1>4 DEF Later, Known, IInv, Table

(* A step of the canceller that signals nobody.                            *)
LEMMA QuietKeeps ==
  ASSUME IInv, Types', UNCHANGED <<procVars, mon, hurt>>, row'.id = row.id,
         row'.state \in {row.state, "cancelled", "cancel_requested"},
         row'.state = "cancel_requested" => row.id # None,
         can'.pc \notin {"idle", "over"} => row.id # None /\ row'.state # "starting",
         can'.seen <= tick,
         can'.pc \in {"term", "kill"} => Later(row.id.group, can'.seen, proc)
  PROVE  IInv'
<1>1. Checked'
  BY DEF Checked, procVars, Later
<1>2. Spawned' /\ SparesStrangers'
  BY DEF IInv, Spawned, Present, SparesStrangers, procVars
<1>3. row'.state \in {"running", "cancel_requested"} => row.id # None
  BY DEF IInv, Identified
<1>4. mon'.id \in {mon.id, None} /\ (mon'.pc = "mark" => mon'.id # None)
  BY DEF IInv, Identified
<1> QED
  BY <1>1, <1>2, <1>3, <1>4, StandingMoves, StepKeeps DEF IInv, Types

LEMMA EndTypes ==
  ASSUME NEW result \in CancellationResult, CanEnds(result)
  PROVE  /\ can' \in [pc : CanPc, seen : Nat, late : BOOLEAN, result : CancellationResult]
         /\ can'.pc = "over" /\ can'.seen = 0
BY DEF CanEnds, NoCanceller, CanPc, CancellationResult

LEMMA ClassifyKeeps ==
  ASSUME IInv, NEW pc \in {"check", "grace", "last"}, NEW dead \in CancellationResult,
         NEW next \in {"term", "grace", "last", "kill"}, Classify(pc, dead, next)
  PROVE  IInv'
<1>1. row.id # None /\ row.state # "starting" /\ tick \in Nat
  BY DEF IInv, Identified, Classify, Types, ProcessesTypeOK
<1>2. ASSUME NEW result \in CancellationResult, CanEnds(result)
      PROVE  IInv'
  <2>1. Types'
    BY <1>2, EndTypes DEF IInv, Types, Classify, procVars, ProcessesTypeOK
  <2> QED
    BY <1>1, <1>2, <2>1, EndTypes, QuietKeeps DEF Classify, IInv, Identified
<1>3. ASSUME classify(load.platform, row.id) \notin {"dead", "reused"},
             can' = [can EXCEPT !.pc = next, !.seen = tick]
      PROVE  IInv'
  <2>1. can'.pc = next /\ can'.seen = tick
    BY <1>3 DEF IInv, Types
  <2>2. Types'
    BY <1>1, <1>3 DEF IInv, Types, Classify, procVars, ProcessesTypeOK, CanPc
  <2>3. Later(row.id.group, tick, proc)
    BY <1>1, <1>3, AliveMeansCommand
  <2> QED
    BY <1>1, <2>1, <2>2, <2>3, QuietKeeps DEF Classify, IInv, Identified
<1> QED
  BY <1>2, <1>3 DEF Classify, CancellationResult

(* A signal meets only strangers that came after the comparison.           *)
LEMMA StruckSpares ==
  ASSUME IInv, can.pc \in {"term", "kill"}, Struck(row.id.group)
  PROVE  SparesStrangers'
<1>1. Later(row.id.group, can.seen, proc)
  BY DEF IInv, Checked
<1>2. ASSUME NEW p \in Pids, p \in Members(row.id.group), proc[p].who = "stranger"
      PROVE  proc[p].token > can.seen
  BY <1>1, <1>2 DEF Later, Members, Present
<1> QED
  BY <1>2 DEF SparesStrangers, Struck, IInv, Members

LEMMA TerminateKeeps ==
  ASSUME IInv, Terminate
  PROVE  IInv'
<1>1. row.id # None /\ row.state # "starting" /\ tick \in Nat /\ can.seen <= tick
  BY DEF IInv, Identified, Terminate, Types, ProcessesTypeOK, Checked
<1>2. /\ can' \in [pc : CanPc, seen : Nat, late : BOOLEAN, result : CancellationResult]
      /\ can'.pc \in {"over", "grace"} /\ can'.seen <= tick
  <2>1. CASE Members(row.id.group) = {}
    BY <1>1, <2>1, EndTypes DEF Terminate, CancellationResult
  <2>2. CASE Members(row.id.group) # {}
    BY <1>1, <2>2 DEF Terminate, IInv, Types, CanPc
  <2> QED
    BY <2>1, <2>2
<1>3. Types'
  BY <1>2 DEF IInv, Types, Terminate, procVars, ProcessesTypeOK
<1>4. Checked' /\ Spawned'
  BY <1>2 DEF Checked, Terminate, procVars, IInv, Spawned, Present
<1>5. SparesStrangers'
  BY StruckSpares DEF Terminate
<1>6. Moves
  BY StandingMoves DEF Terminate, IInv, Types
<1> QED
  BY <1>1, <1>3, <1>4, <1>5, <1>6, StepKeeps DEF Terminate, IInv, Identified

LEMMA SignalErrorKeeps ==
  ASSUME IInv, SignalError
  PROVE  IInv'
<1>1. row.id # None /\ row.state # "starting" /\ tick \in Nat
  BY DEF IInv, Identified, SignalError, Types, ProcessesTypeOK
<1>2. /\ can' \in [pc : CanPc, seen : Nat, late : BOOLEAN, result : CancellationResult]
      /\ can'.pc = "over" /\ can'.seen = 0
  BY EndTypes DEF SignalError, CancellationResult
<1>3. Types'
  BY <1>2 DEF IInv, Types, SignalError, procVars, ProcessesTypeOK
<1>4. Checked' /\ Spawned'
  BY <1>1, <1>2 DEF Checked, SignalError, procVars, IInv, Spawned, Present
<1>5. SparesStrangers'
  BY DEF SignalError, SparesStrangers, IInv
<1>6. Moves
  BY StandingMoves DEF SignalError, IInv, Types
<1> QED
  BY <1>1, <1>2, <1>3, <1>4, <1>5, <1>6, StepKeeps DEF SignalError, IInv, Identified

LEMMA KillKeeps ==
  ASSUME IInv, KillGroup
  PROVE  IInv'
<1>1. row.id # None /\ row.state # "starting" /\ tick \in Nat
  BY DEF IInv, Identified, KillGroup, Types, ProcessesTypeOK
<1>2. /\ can' \in [pc : CanPc, seen : Nat, late : BOOLEAN, result : CancellationResult]
      /\ can'.pc = "over" /\ can'.seen = 0
  BY EndTypes DEF KillGroup, CancellationResult
<1>3. /\ Moves
      /\ \A p \in Pids : (mon.pc # "dead" /\ proc[p].who = "command" /\ Present(p))
                           => Present(p)' /\ proc'[p].who = "command"
  BY KilledMoves DEF KillGroup, IInv, Types
<1>4. Types'
  BY <1>2, <1>3 DEF IInv, Types, KillGroup, Moves, ProcessesTypeOK
<1>5. Checked' /\ Spawned'
  BY <1>1, <1>2, <1>3 DEF Checked, KillGroup, IInv, Spawned
<1>6. SparesStrangers'
  BY StruckSpares DEF KillGroup
<1> QED
  BY <1>1, <1>2, <1>3, <1>4, <1>5, <1>6, StepKeeps DEF KillGroup, IInv, Identified

LEMMA CancellerKeeps ==
  ASSUME IInv, CancelBeforeSpawn \/ CancelCommit \/ CancelNext \/ GracePasses
  PROVE  IInv'
<1>0. can.seen \in Nat /\ can.seen <= tick
  BY DEF IInv, Types, Checked
<1>1. CASE CancelBeforeSpawn
  <2>1. can'.pc = "over" /\ can'.seen = can.seen /\ row'.id = row.id /\ row'.state = "cancelled"
    BY <1>1 DEF CancelBeforeSpawn, IInv, Types
  <2>2. Types'
    BY <1>1 DEF CancelBeforeSpawn, IInv, Types, procVars, ProcessesTypeOK, CanPc, RunState
  <2> QED
    BY <1>0, <1>1, <2>1, <2>2, QuietKeeps DEF CancelBeforeSpawn
<1>2. CASE CancelCommit
  <2>1. can'.pc = "check" /\ can'.seen = can.seen /\ row'.id = row.id
          /\ row'.state = "cancel_requested"
    BY <1>2 DEF CancelCommit, IInv, Types
  <2>2. Types'
    BY <1>2 DEF CancelCommit, IInv, Types, procVars, ProcessesTypeOK, CanPc, RunState
  <2>3. row.id # None
    BY <1>2 DEF CancelCommit, IInv, Identified
  <2> QED
    BY <1>0, <1>2, <2>1, <2>2, <2>3, QuietKeeps DEF CancelCommit
<1>3. CASE FirstCheck \/ GraceCheck \/ LastCheck
  BY <1>3, ClassifyKeeps DEF FirstCheck, GraceCheck, LastCheck, CancellationResult
<1>4. CASE CheckError
  <2>1. can' \in [pc : CanPc, seen : Nat, late : BOOLEAN, result : CancellationResult]
          /\ can'.pc = "over" /\ can'.seen = 0
    BY <1>4, EndTypes DEF CheckError, CancellationResult
  <2>2. Types'
    BY <1>4, <2>1 DEF CheckError, IInv, Types, procVars, ProcessesTypeOK
  <2>3. tick \in Nat
    BY DEF IInv, Types, ProcessesTypeOK
  <2> QED
    BY <1>4, <2>1, <2>2, <2>3, QuietKeeps DEF CheckError, IInv, Identified
<1>5. CASE GracePasses
  <2>1. can'.pc = "grace" /\ can'.seen = can.seen
    BY <1>5 DEF GracePasses, IInv, Types
  <2>2. Types'
    BY <1>5 DEF GracePasses, IInv, Types, procVars, ProcessesTypeOK
  <2> QED
    BY <1>0, <1>5, <2>1, <2>2, QuietKeeps DEF GracePasses, IInv, Identified
<1> QED
  BY <1>1, <1>2, <1>3, <1>4, <1>5, TerminateKeeps, KillKeeps, SignalErrorKeeps
     DEF CancelNext

-------------------------------------------------------------------------------
(* The identities, inductively.                                            *)
LEMMA IdentitiesHold == Spec => []IInv
<1>1. Init => IInv
  <2> SUFFICES ASSUME Init
               PROVE  IInv
    OBVIOUS
  <2>1. boot = 0 /\ tick = 0 /\ \A p \in Pids : proc[p] = Gone
    BY DEF Init, ProcessesInit
  <2>2. ProcessesTypeOK
    BY GoneIsProcess DEF Init, ProcessesInit, ProcessesTypeOK
  <2>3. Types
    BY <2>2, CommandAssumption
       DEF Init, Types, RunState, MonPc, RunOutcome, CanPc, CancellationResult, NoCanceller
  <2>4. Table(tick, proc)
    <3>1. Gone.st = "gone" /\ Gone.who = "nobody"
      BY DEF Gone
    <3> QED
      BY <2>1, <3>1 DEF Table
  <2>5. Spawned /\ Identified /\ Checked /\ SparesStrangers
    BY <2>1 DEF Init, Spawned, Identified, Checked, SparesStrangers, NoCanceller
  <2> QED
    BY <2>3, <2>4, <2>5 DEF IInv
<1>2. IInv /\ [Next]_vars => IInv'
  <2> SUFFICES ASSUME IInv, [Next]_vars
               PROVE  IInv'
    OBVIOUS
  <2>1. CASE Next
    BY <2>1, MonitorKeeps, CaptureKeeps, CrashKeeps, WorldKeeps, RebootKeeps, CancellerKeeps DEF Next
  <2>2. CASE UNCHANGED vars
    BY <2>2, Aside DEF vars, cmdVars
  <2> QED
    BY <2>1, <2>2
<1> QED
  BY <1>1, <1>2, PTL DEF Spec

(* A signal never reaches a process that has nothing to do with the        *)
(* command and was there when the identity was last compared               *)
(* (cancel_validated_group, cancel.rs:19 and 48), whatever process ids are *)
(* reused and however often the machine is started again.                  *)
THEOREM SparesStrangersHolds == Spec => []SparesStrangers
<1>1. IInv => SparesStrangers
  BY DEF IInv
<1> QED
  BY <1>1, IdentitiesHold, PTL

-------------------------------------------------------------------------------
(* The output.  While the monitor reads a stream, every byte of it is in   *)
(* the log, counted as discarded or still in the pipe.  A capture without  *)
(* an error ends only when no process is left that could write, and from   *)
(* then on nothing is added to either side.                                *)
Unmarked == {"spawn", "inspect", "mark"}

OutTypes ==
  /\ pipe \in [Streams -> [buf : Nat, open : BOOLEAN]]
  /\ made \in [Streams -> Nat]
  /\ cap \in [Streams -> StreamCapture]

(* As long as every write succeeds, the log is filled before anything is   *)
(* discarded.                                                              *)
LogFirst(c) == ~c.error => c.written = Least(c.written + c.discarded, Cap)

Accounted(s) ==
  /\ LogFirst(cap[s])
  /\ (mon.pc \in Unmarked \cup {"capture"} /\ ~cap[s].done)
       => made[s] = cap[s].written + cap[s].discarded + pipe[s].buf
  /\ (cap[s].done /\ ~cap[s].error)
       => made[s] = cap[s].written + cap[s].discarded /\ Holders = {}

Captured ==
  /\ mon.pc \in Unmarked => ~mon.watched /\ \A s \in Streams : ~cap[s].done
  /\ (mon.watched /\ mon.pc \in {"record", "echo", "over"}) => \A s \in Streams : cap[s].done
  /\ mon.pc = "echo" => mon.watched

Shown ==
  tty # None => /\ mon.pc = "over"
                /\ tty \in echo_tty(cap["stdout"], cap["stderr"])
                /\ \A s \in Streams : cap[s].done

Output == OutTypes /\ (\A s \in Streams : Accounted(s)) /\ Captured /\ Shown

(* Nobody starts a process that can write once none is left.               *)
LEMMA SilentStays ==
  ASSUME IInv, Next, mon.pc # "spawn", Holders = {}
  PROVE  Holders' = {}
<1>1. Leaders = {}
  BY DEF Leaders, Holders
<1>2. ASSUME \A p \in Pids : proc'[p].st = "alive" =>
                 \/ proc'[p].who = "stranger"
                 \/ proc[p].st = "alive" /\ proc'[p].who = proc[p].who
      PROVE  Holders' = {}
  BY <1>2 DEF Holders, Alive
<1>3. ASSUME proc' = proc
      PROVE  Holders' = {}
  BY <1>2, <1>3
<1>4. ASSUME NEW gone, proc' = [proc EXCEPT ![gone] = Gone]
      PROVE  Holders' = {}
  <2>1. \A p \in Pids : proc'[p] = proc[p] \/ proc'[p] = Gone
    BY <1>4 DEF IInv, Types, ProcessesTypeOK
  <2> QED
    BY <1>2, <2>1 DEF Gone
<1>5. ASSUME NEW victims, proc' = Killed(victims)
      PROVE  Holders' = {}
  <2>1. ASSUME NEW p \in Pids
        PROVE  \/ proc'[p] = proc[p] \/ proc'[p] = Gone
               \/ proc'[p] = [proc[p] EXCEPT !.st = "zombie"]
    BY <1>5 DEF Killed
  <2>2. ASSUME NEW p \in Pids, proc'[p].st = "alive"
        PROVE  proc'[p] = proc[p]
    <3>1. proc[p] \in Process
      BY DEF IInv, Types, ProcessesTypeOK
    <3>2. [proc[p] EXCEPT !.st = "zombie"].st = "zombie"
      BY <3>1 DEF Process
    <3>3. Gone.st = "gone"
      BY DEF Gone
    <3> QED
      BY <2>1, <2>2, <3>2, <3>3
  <2> QED
    BY <1>2, <2>2
<1>6. CASE MonitorNext
  BY <1>3, <1>4, <1>6 DEF MonitorNext, SpawnError, Spawn, InspectRetry, InspectError, Inspect, Mark,
     MarkRefused, Wait, Record, EchoTty, reap_failed_spawn, procVars
<1>7. CASE \E s \in Streams : CaptureNext(s) \/ ReadError(s)
  BY <1>3, <1>7 DEF CaptureNext, Drain, EndOfStream, ReadError, procVars
<1>8. CASE CancelBeforeSpawn \/ CancelCommit \/ CancelNext \/ GracePasses
  BY <1>3, <1>5, <1>8 DEF CancelBeforeSpawn, CancelCommit, CancelNext, GracePasses, FirstCheck,
     GraceCheck, LastCheck, Classify, CheckError, Terminate, KillGroup,
     SignalError, procVars
<1>9. CASE OthersNext
  <2>1. CASE StrangerStarts
    <3>1. PICK q \in Pids : Fork(q, q, "stranger")
      BY <2>1 DEF StrangerStarts
    <3>2. \A p \in Pids : proc'[p] = proc[p] \/ proc'[p].who = "stranger"
      BY <3>1 DEF Fork, IInv, Types, ProcessesTypeOK
    <3> QED
      BY <1>2, <3>2
  <2>2. CASE OtherExits
    BY <1>4, <2>2 DEF OtherExits
  <2> QED
    BY <1>1, <1>3, <1>9, <2>1, <2>2 DEF OthersNext, Write, CommandExit, CommandForks, Regroups, procVars
<1>10. CASE MonitorCrash
  <2>1. \A p \in Pids : proc'[p] = proc[p] \/ proc'[p] = Gone
    BY <1>10 DEF MonitorCrash
  <2> QED
    BY <1>2, <2>1 DEF Gone
<1>11. CASE Reboot
  <2>1. \A p \in Pids : proc'[p] = Gone
    BY <1>11 DEF Reboot, Restart
  <2> QED
    BY <1>2, <2>1 DEF Gone
<1> QED
  BY <1>6, <1>7, <1>8, <1>9, <1>10, <1>11 DEF Next

(* A step that neither reads nor writes output.                            *)
LEMMA OutputStays ==
  ASSUME IInv, Output, Next, UNCHANGED <<cap, made>>,
         pipe' = pipe \/ (pipe' = Shut /\ mon'.pc \notin Unmarked \cup {"capture"}),
         mon'.pc \in Unmarked => mon.pc \in Unmarked /\ mon'.watched = mon.watched,
         mon'.pc = "capture" => mon.pc \in Unmarked \cup {"capture"},
         (mon'.watched /\ mon'.pc \in {"record", "echo", "over"}) => \A s \in Streams : cap[s].done,
         mon'.pc = "echo" => mon'.watched,
         Shown'
  PROVE  Output'
<1>1. OutTypes'
  <2>1. Shut \in [Streams -> [buf : Nat, open : BOOLEAN]]
    BY DEF Shut
  <2> QED
    BY <2>1 DEF Output, OutTypes
<1>2. ASSUME NEW s \in Streams
      PROVE  Accounted(s)'
  <2>1. cap'[s] = cap[s] /\ made'[s] = made[s] /\ Accounted(s)
    BY DEF Output
  <2>2. LogFirst(cap'[s])
    BY <2>1 DEF Accounted
  <2>3. (mon'.pc \in Unmarked \cup {"capture"} /\ ~cap[s].done)
          => made[s] = cap[s].written + cap[s].discarded + pipe'[s].buf
    BY <2>1 DEF Accounted, Unmarked
  <2>4. ASSUME cap[s].done, ~cap[s].error
        PROVE  made[s] = cap[s].written + cap[s].discarded /\ Holders' = {}
    <3>1. mon.pc # "spawn"
      BY <2>4 DEF Output, Captured, Unmarked
    <3> QED
      BY <2>1, <2>4, <3>1, SilentStays DEF Accounted
  <2> QED
    BY <2>1, <2>2, <2>3, <2>4 DEF Accounted
<1>3. Captured'
  BY DEF Output, Captured
<1> QED
  BY <1>1, <1>2, <1>3 DEF Output

(* What drain_stream does with one chunk.                                  *)
LEMMA ChunkCounts ==
  ASSUME NEW c \in StreamCapture, LogFirst(c), NEW read \in Nat, NEW d \in Chunk(c, read)
  PROVE  /\ d \in StreamCapture /\ d.done = c.done /\ LogFirst(d)
         /\ d.written + d.discarded = c.written + c.discarded + read
<1>1. Allowed(c, read) \in 0..read
  BY CaptureAssumption DEF Allowed, Least, remaining, StreamCapture
<1>2. ASSUME NEW w \in 0..read
      PROVE  /\ record_chunk(c, w, read) \in StreamCapture
             /\ record_chunk(c, w, read).written = c.written + w
             /\ record_chunk(c, w, read).discarded = c.discarded + (read - w)
             /\ record_chunk(c, w, read).done = c.done
             /\ record_chunk(c, w, read).error = c.error
  <2>1. PICK x \in Nat, y \in Nat : x = c.written + w /\ y = c.discarded + (read - w)
    BY <1>2 DEF StreamCapture
  <2>2. record_chunk(c, w, read) = [c EXCEPT !.written = x, !.discarded = y]
    BY <2>1 DEF record_chunk, StreamCapture
  <2>3. /\ record_chunk(c, w, read) \in StreamCapture
        /\ record_chunk(c, w, read).written = x
        /\ record_chunk(c, w, read).discarded = y
        /\ record_chunk(c, w, read).done = c.done
        /\ record_chunk(c, w, read).error = c.error
    BY <2>2 DEF StreamCapture
  <2> QED
    BY <2>1, <2>3
<1>3. CASE d = record_chunk(c, Allowed(c, read), read)
  <2>1. /\ d \in StreamCapture /\ d.done = c.done /\ d.error = c.error
        /\ d.written = c.written + Allowed(c, read)
        /\ d.discarded = c.discarded + (read - Allowed(c, read))
    BY <1>1, <1>2, <1>3
  <2>2. d.written + d.discarded = c.written + c.discarded + read
    BY <1>1, <2>1 DEF StreamCapture
  <2>3. ASSUME ~c.error
        PROVE  d.written = Least(c.written + c.discarded + read, Cap)
    BY <2>1, <2>3, CaptureAssumption DEF LogFirst, Least, Allowed, remaining, StreamCapture
  <2> QED
    BY <2>1, <2>2, <2>3 DEF LogFirst
<1>4. CASE \E w \in {v \in 0..read : v < Allowed(c, read)} :
             d = [record_chunk(c, w, read) EXCEPT !.error = TRUE]
  <2>1. PICK w \in 0..read : d = [record_chunk(c, w, read) EXCEPT !.error = TRUE]
    BY <1>4
  <2>2. d \in StreamCapture /\ d.done = c.done /\ d.error
          /\ d.written = c.written + w /\ d.discarded = c.discarded + (read - w)
    BY <1>2, <2>1 DEF StreamCapture
  <2>3. d.written + d.discarded = c.written + c.discarded + read
    BY <2>1, <2>2 DEF StreamCapture
  <2> QED
    BY <2>2, <2>3 DEF LogFirst
<1> QED
  BY <1>3, <1>4 DEF Chunk

(* A step on one stream.                                                   *)
LEMMA StreamStep ==
  ASSUME IInv, Output, Next, NEW s \in Streams, UNCHANGED <<mon, tty>>, mon.pc # "over" \/ cap' = cap,
         NEW c \in StreamCapture, cap' = [cap EXCEPT ![s] = c], c.done \/ ~cap[s].done,
         NEW q \in [buf : Nat, open : BOOLEAN], pipe' = [pipe EXCEPT ![s] = q],
         NEW n \in Nat, made' = [made EXCEPT ![s] = n],
         mon.pc \in Unmarked => ~c.done,
         (mon.watched /\ mon.pc \in {"record", "echo", "over"}) => c.done,
         LogFirst(c),
         (mon.pc \in Unmarked \cup {"capture"} /\ ~c.done) => n = c.written + c.discarded + q.buf,
         (c.done /\ ~c.error) => n = c.written + c.discarded /\ Holders' = {}
  PROVE  Output'
<1>1. /\ cap'[s] = c /\ pipe'[s] = q /\ made'[s] = n
      /\ \A r \in Streams : r # s => cap'[r] = cap[r] /\ pipe'[r] = pipe[r] /\ made'[r] = made[r]
  BY DEF Output, OutTypes
<1>2. OutTypes'
  BY DEF Output, OutTypes
<1>3. ASSUME NEW r \in Streams
      PROVE  Accounted(r)'
  <2>1. CASE r = s
    BY <1>1, <2>1 DEF Accounted
  <2>2. CASE r # s
    <3>1. (cap[r].done /\ ~cap[r].error) => mon.pc # "spawn" /\ Holders = {}
      BY <1>3 DEF Output, Captured, Accounted, Unmarked
    <3> QED
      BY <1>1, <1>3, <2>2, <3>1, SilentStays DEF Accounted, Output
  <2> QED
    BY <2>1, <2>2
<1>4. Captured'
  BY <1>1 DEF Captured, Output
<1>5. Shown'
  BY DEF Shown, Output
<1> QED
  BY <1>2, <1>3, <1>4, <1>5 DEF Output

LEMMA CaptureCounts ==
  ASSUME IInv, Output, Next, NEW s \in Streams, CaptureNext(s) \/ ReadError(s)
  PROVE  Output'
<1>0. /\ cap[s] \in StreamCapture /\ made[s] \in Nat /\ pipe[s] \in [buf : Nat, open : BOOLEAN]
      /\ made = [made EXCEPT ![s] = made[s]] /\ pipe = [pipe EXCEPT ![s] = pipe[s]]
      /\ Accounted(s)
  BY DEF Output, OutTypes
<1>1. mon.pc = "capture" /\ ~cap[s].done /\ UNCHANGED <<mon, tty, made>>
  BY DEF CaptureNext, Drain, EndOfStream, ReadError
<1>2. made[s] = cap[s].written + cap[s].discarded + pipe[s].buf /\ LogFirst(cap[s])
  BY <1>0, <1>1 DEF Accounted
<1>3. CASE Drain(s)
  <2>0. PICK read \in 1..pipe[s].buf : \E d \in Chunk(cap[s], read) :
              cap' = [cap EXCEPT ![s] = d] /\ pipe' = [pipe EXCEPT ![s].buf = @ - read]
    BY <1>3 DEF Drain
  <2>1. PICK c \in Chunk(cap[s], read) :
              cap' = [cap EXCEPT ![s] = c] /\ pipe' = [pipe EXCEPT ![s].buf = @ - read]
    BY <2>0
  <2>2. read \in Nat /\ pipe[s].buf - read \in Nat
    BY <1>0, <2>1
  <2>3. /\ c \in StreamCapture /\ c.done = cap[s].done /\ LogFirst(c)
        /\ c.written + c.discarded = cap[s].written + cap[s].discarded + read
    BY <1>0, <1>2, <2>1, <2>2, ChunkCounts
  <2>4. PICK n \in Nat : n = pipe[s].buf - read
    BY <2>2
  <2>5. PICK q \in [buf : Nat, open : BOOLEAN] : q.buf = n /\ pipe' = [pipe EXCEPT ![s] = q]
    <3> DEFINE q == [pipe[s] EXCEPT !.buf = n]
    <3>1. q \in [buf : Nat, open : BOOLEAN] /\ q.buf = n
      BY <1>0
    <3>2. pipe' = [pipe EXCEPT ![s] = q]
      BY <2>1, <2>4 DEF Output, OutTypes
    <3> QED
      BY <3>1, <3>2
  <2>6. made[s] = c.written + c.discarded + q.buf
    BY <1>0, <1>2, <2>1, <2>2, <2>3, <2>4, <2>5 DEF StreamCapture
  <2> QED
    <3>1. mon.pc \notin Unmarked /\ mon.pc \notin {"record", "echo", "over"} /\ ~c.done
      BY <1>1, <2>3 DEF Unmarked
    <3>2. made' = [made EXCEPT ![s] = made[s]] /\ cap' = [cap EXCEPT ![s] = c]
      BY <1>0, <1>1, <2>1
    <3>3. c \in StreamCapture /\ LogFirst(c) /\ made[s] \in Nat
      BY <1>0, <2>3
    <3>4. pipe' = [pipe EXCEPT ![s] = q]
      BY <2>5
    <3>5. ~cap[s].done /\ UNCHANGED <<mon, tty>> /\ mon.pc # "over"
      BY <1>1
    <3> QED
      BY <2>6, <3>1, <3>2, <3>3, <3>4, <3>5, StreamStep
<1>4. CASE EndOfStream(s)
  <2>1. PICK c \in AtEnd(cap[s]) : cap' = [cap EXCEPT ![s] = c]
    BY <1>4 DEF EndOfStream
  <2>2. c \in StreamCapture /\ c.done /\ c.written = cap[s].written /\ c.discarded = cap[s].discarded
          /\ (~c.error => ~cap[s].error)
    BY <1>0 DEF AtEnd, StreamCapture
  <2>3. made[s] = c.written + c.discarded
    BY <1>0, <1>2, <1>4, <2>2 DEF EndOfStream, StreamCapture
  <2>4. Holders' = {}
    BY <1>1, <1>4, SilentStays DEF EndOfStream
  <2>5. LogFirst(c)
    BY <1>2, <2>2 DEF LogFirst
  <2> QED
    <3>1. mon.pc \notin Unmarked /\ mon.pc # "over"
      BY <1>1 DEF Unmarked
    <3>2. made' = [made EXCEPT ![s] = made[s]] /\ pipe' = [pipe EXCEPT ![s] = pipe[s]]
      BY <1>0, <1>1, <1>4 DEF EndOfStream
    <3> QED
      BY <1>0, <1>1, <2>1, <2>2, <2>3, <2>4, <2>5, <3>1, <3>2, StreamStep
<1>5. CASE ReadError(s)
  <2>1. cap' = [cap EXCEPT ![s] = OnReadError(cap[s])]
    BY <1>5 DEF ReadError, Output, OutTypes
  <2>2. OnReadError(cap[s]) \in StreamCapture /\ OnReadError(cap[s]).done /\ OnReadError(cap[s]).error
    BY <1>0 DEF OnReadError, StreamCapture
  <2>3. LogFirst(OnReadError(cap[s]))
    BY <2>2 DEF LogFirst
  <2> QED
    BY <1>0, <1>1, <1>5, <2>1, <2>2, <2>3, StreamStep DEF Unmarked, ReadError
<1> QED
  BY <1>3, <1>4, <1>5 DEF CaptureNext

LEMMA WriteCounts ==
  ASSUME IInv, Output, Next, NEW s \in Streams, Write(s)
  PROVE  Output'
<1>0. /\ cap[s] \in StreamCapture /\ made[s] \in Nat /\ pipe[s] \in [buf : Nat, open : BOOLEAN]
      /\ cap = [cap EXCEPT ![s] = cap[s]] /\ Accounted(s) /\ Captured
  BY DEF Output, OutTypes
<1>1. Holders # {} /\ Holders' = Holders
  BY DEF Write, Leaders, Holders, procVars, Alive
<1>2. PICK n \in Nat : n = made[s] + 1 /\ made' = [made EXCEPT ![s] = n]
  <2>1. PICK n \in Nat : n = made[s] + 1
    BY <1>0
  <2>2. made' = [made EXCEPT ![s] = n]
    BY <2>1 DEF Write, Output, OutTypes
  <2> QED
    BY <2>1, <2>2
<1>3. PICK b \in Nat : b = pipe[s].buf + 1
  BY <1>0
<1>4. PICK q \in [buf : Nat, open : BOOLEAN] : q.buf = b /\ pipe' = [pipe EXCEPT ![s] = q]
  <2> DEFINE q == [pipe[s] EXCEPT !.buf = b]
  <2>1. q \in [buf : Nat, open : BOOLEAN] /\ q.buf = b
    BY <1>0
  <2>2. pipe' = [pipe EXCEPT ![s] = q]
    BY <1>3 DEF Write, Output, OutTypes
  <2> QED
    BY <2>1, <2>2
<1>5. ~(cap[s].done /\ ~cap[s].error)
  BY <1>0, <1>1 DEF Accounted
<1>6. (mon.pc \in Unmarked \cup {"capture"} /\ ~cap[s].done)
        => n = cap[s].written + cap[s].discarded + q.buf
  BY <1>0, <1>2, <1>3, <1>4 DEF Accounted, StreamCapture
<1>7. LogFirst(cap[s])
  BY <1>0 DEF Accounted
<1>8. /\ mon.pc \in Unmarked => ~cap[s].done
      /\ (mon.watched /\ mon.pc \in {"record", "echo", "over"}) => cap[s].done
  BY <1>0 DEF Captured
<1>9. UNCHANGED <<mon, tty, cap>>
  BY DEF Write
<1> QED
  BY <1>0, <1>2, <1>4, <1>5, <1>6, <1>7, <1>8, <1>9, StreamStep

LEMMA MonitorCounts ==
  ASSUME IInv, Output, Next, MonitorNext
  PROVE  Output'
<1> USE DEF Unmarked
<1>0. mon \in [pc : MonPc, left : Nat, child : Pids \cup {None},
               id : Identity \cup {None}, out : RunOutcome, watched : BOOLEAN]
  BY DEF IInv, Types
<1>1. UNCHANGED <<cap, made>>
  BY DEF MonitorNext, SpawnError, Spawn, InspectRetry, InspectError, Inspect, Mark, MarkRefused, Wait,
         Record, EchoTty
<1>2. ASSUME mon.pc # "echo"
      PROVE  Shown' /\ tty' = None
  BY <1>2 DEF Output, Shown, MonitorNext, SpawnError, Spawn, InspectRetry, InspectError, Inspect, Mark,
         MarkRefused, Wait, Record, EchoTty
<1>3. CASE SpawnError
  <2>1. mon'.pc = "record" /\ mon'.watched = mon.watched /\ pipe' = Shut
    BY <1>0, <1>3 DEF SpawnError
  <2> QED
    BY <1>1, <1>2, <1>3, <2>1, OutputStays DEF Output, Captured, SpawnError
<1>4. CASE Spawn
  <2>1. mon'.pc = "inspect" /\ mon'.watched = mon.watched /\ pipe' = pipe
    BY <1>0, <1>4 DEF Spawn
  <2> QED
    BY <1>1, <1>2, <1>4, <2>1, OutputStays DEF Output, Captured, Spawn
<1>5. CASE InspectRetry \/ Inspect
  <2>1. mon'.pc \in {"inspect", "mark"} /\ mon'.watched = mon.watched /\ pipe' = pipe
    BY <1>0, <1>5 DEF InspectRetry, Inspect
  <2> QED
    BY <1>1, <1>2, <1>5, <2>1, OutputStays DEF Output, Captured, InspectRetry, Inspect
<1>6. CASE InspectError \/ MarkRefused
  <2>1. mon'.pc \in {"record", "over"} /\ mon'.watched = mon.watched /\ pipe' = Shut
    BY <1>0, <1>6 DEF InspectError, MarkRefused, reap_failed_spawn
  <2> QED
    BY <1>1, <1>2, <1>6, <2>1, OutputStays DEF Output, Captured, InspectError, MarkRefused
<1>7. CASE Mark
  <2>1. mon'.pc = "capture" /\ pipe' = pipe
    BY <1>0, <1>7 DEF Mark
  <2> QED
    BY <1>1, <1>2, <1>7, <2>1, OutputStays DEF Mark
<1>8. CASE Wait
  <2>1. mon'.pc = "record" /\ pipe' = pipe
    BY <1>0, <1>8 DEF Wait
  <2> QED
    BY <1>1, <1>2, <1>8, <2>1, OutputStays DEF Wait
<1>9. CASE Record
  <2>1. /\ mon'.pc = IF mon.watched THEN "echo" ELSE "over"
        /\ mon'.watched = mon.watched /\ pipe' = pipe /\ mon.pc = "record"
    BY <1>0, <1>9 DEF Record
  <2> QED
    BY <1>1, <1>2, <2>1, OutputStays DEF Output, Captured
<1>10. CASE EchoTty
  <2>1. mon'.pc = "over" /\ mon'.watched = mon.watched /\ pipe' = pipe /\ mon.pc = "echo"
    BY <1>0, <1>10 DEF EchoTty
  <2>2. mon.watched /\ \A s \in Streams : cap[s].done
    BY <2>1 DEF Output, Captured
  <2>3. tty' = None \/ tty' \in echo_tty(cap["stdout"], cap["stderr"])
    BY <1>10, <2>1 DEF EchoTty, Output, Shown
  <2>4. Shown'
    BY <1>1, <2>1, <2>2, <2>3 DEF Shown
  <2> QED
    BY <1>1, <2>1, <2>2, <2>4, OutputStays
<1> QED
  BY <1>3, <1>4, <1>5, <1>6, <1>7, <1>8, <1>9, <1>10 DEF MonitorNext

LEMMA ElseCounts ==
  ASSUME IInv, Output, Next
  PROVE  Output'
<1>1. ASSUME UNCHANGED <<mon, pipe, made, cap, tty>>
      PROVE  Output'
  BY <1>1, OutputStays DEF Output, Captured, Shown
<1>2. CASE MonitorCrash
  <2>1. mon'.pc = "dead" /\ pipe' = Shut /\ UNCHANGED <<cap, made, tty>> /\ mon.pc # "over"
    BY <1>2 DEF MonitorCrash, IInv, Types
  <2> QED
    BY <2>1, OutputStays DEF Output, Shown, Unmarked
<1>3. CASE Reboot
  <2>1. /\ mon'.pc = (IF mon.pc = "over" THEN "over" ELSE "dead") /\ mon'.watched = mon.watched
        /\ pipe' = Shut /\ UNCHANGED <<cap, made, tty>>
    BY <1>3 DEF Reboot, IInv, Types
  <2>2. Shown'
    BY <2>1 DEF Output, Shown
  <2> QED
    BY <2>1, <2>2, OutputStays DEF Output, Captured, Unmarked
<1>4. CASE OthersNext
  <2>1. CASE \E s \in Streams : Write(s)
    BY <2>1, WriteCounts
  <2> QED
    BY <1>1, <1>4, <2>1 DEF OthersNext, CommandExit, CommandForks, Regroups, StrangerStarts, OtherExits,
                            cmdVars
<1>5. CASE CancelBeforeSpawn \/ CancelCommit \/ CancelNext \/ GracePasses
  BY <1>1, <1>5 DEF CancelBeforeSpawn, CancelCommit, CancelNext, GracePasses, FirstCheck,
     GraceCheck, LastCheck, Classify, CheckError, Terminate, KillGroup,
     SignalError
<1> QED
  BY <1>2, <1>3, <1>4, <1>5, MonitorCounts, CaptureCounts DEF Next

LEMMA OutputInvariant == Spec => []Output
<1>1. Init => Output
  <2> SUFFICES ASSUME Init
               PROVE  Output
    OBVIOUS
  <2>1. NewCapture \in StreamCapture /\ LogFirst(NewCapture) /\ ~NewCapture.done
          /\ NewCapture.written = 0 /\ NewCapture.discarded = 0
    BY CaptureAssumption DEF NewCapture, StreamCapture, LogFirst, Least
  <2>2. \A s \in Streams : cap[s] = NewCapture /\ made[s] = 0 /\ pipe[s].buf = 0
    BY DEF Init
  <2>3. OutTypes
    BY <2>1 DEF Init, OutTypes
  <2>4. \A s \in Streams : Accounted(s)
    BY <2>1, <2>2 DEF Accounted
  <2>5. Captured /\ Shown
    BY <2>1, <2>2 DEF Init, Captured, Shown
  <2> QED
    BY <2>3, <2>4, <2>5 DEF Output
<1>2. IInv /\ Output /\ [Next]_vars => Output'
  <2>1. ASSUME Output, UNCHANGED vars
        PROVE  Output'
    BY <2>1 DEF vars, cmdVars, procVars, Output, OutTypes, Accounted, Captured, Shown, Holders, Alive
  <2> QED
    BY <2>1, ElseCounts
<1> QED
  BY <1>1, <1>2, IdentitiesHold, PTL DEF Spec

(* When the capture of a run ended without an error, its logs hold the     *)
(* beginning of each stream up to the cap, and the truncation noted in the *)
(* run's row says exactly whether something is missing (drain_stream and   *)
(* record_log_truncation), for any cap, pipe size and amount of output.    *)
THEOREM LogsAreHonestHolds == Spec => []LogsAreHonest
<1>1. Output => LogsAreHonest
  <2> SUFFICES ASSUME Output, mon.watched, mon.pc \in {"record", "echo", "over"},
                      NEW s \in Streams, ~cap[s].error
               PROVE  /\ cap[s].written = Least(made[s], Cap)
                      /\ truncated(cap[s]) <=> made[s] > cap[s].written
    BY DEF LogsAreHonest
  <2>1. /\ cap[s] \in StreamCapture /\ cap[s].done /\ LogFirst(cap[s])
        /\ made[s] = cap[s].written + cap[s].discarded
    BY DEF Output, OutTypes, Captured, Accounted
  <2> QED
    BY <2>1 DEF LogFirst, truncated, StreamCapture
<1> QED
  BY <1>1, OutputInvariant, PTL

(* What is written before the texts, for each of them.                     *)
LEMMA NoticesFirst ==
  ASSUME NEW out \in StreamCapture, NEW err \in StreamCapture, NEW t \in echo_tty(out, err)
  PROVE  /\ t.stdout > 0 => /\ captured_truncated(out, err) => t.at_cap
                            /\ read_tail(out).truncated => t.limited
         /\ t.stderr > 0 => /\ captured_truncated(out, err) => t.at_cap
                            /\ read_tail(err).truncated => t.limited
<1>1. PICK readable \in BOOLEAN :
        t \in UNION {Echoed(out, err, readable, k, o, e) : k \in Writes(readable),
                       o \in sanitize_tail(read_tail(out)), e \in sanitize_tail(read_tail(err))}
  BY DEF echo_tty
<1>2. PICK k \in Writes(readable), o \in sanitize_tail(read_tail(out)),
           e \in sanitize_tail(read_tail(err)) : t \in Echoed(out, err, readable, k, o, e)
  BY <1>1
<1>3. PICK shown \in Part(k, 3, o), shown_err \in IF readable THEN Part(k, 4, e) ELSE {0} :
        t = [at_cap  |-> k > 0 /\ captured_truncated(out, err),
             limited |-> k > 1 /\ (read_tail(out).truncated \/ (readable /\ read_tail(err).truncated)),
             stdout  |-> shown, stderr |-> shown_err]
  BY <1>2 DEF Echoed
<1>4. k \in Nat
  BY <1>2 DEF Writes
<1>5. shown > 0 => k > 2
  BY <1>3, <1>4 DEF Part
<1>6. shown_err > 0 => k > 3 /\ readable
  BY <1>3, <1>4 DEF Part
<1>7. /\ t.at_cap <=> k > 0 /\ captured_truncated(out, err)
      /\ t.limited <=> k > 1 /\ (read_tail(out).truncated \/ (readable /\ read_tail(err).truncated))
      /\ t.stdout = shown /\ t.stderr = shown_err
  BY <1>3
<1>8. (k > 2 => k > 1 /\ k > 0) /\ (k > 3 => k > 1 /\ k > 0)
  BY <1>4
<1> QED
  BY <1>4, <1>5, <1>6, <1>7, <1>8

(* A terminal that shows text of a stream was told before what of it is    *)
(* left out, by the notice for the log and by the one for the tail         *)
(* (echo_tty, src/run_monitor/tty.rs), for any cap, limit and amount of    *)
(* output and wherever the echo breaks off.                                *)
THEOREM EchoAdmitsLossHolds == Spec => []EchoAdmitsLoss
<1>1. Output => EchoAdmitsLoss
  <2> SUFFICES ASSUME Output, tty # None, \A s \in Streams : ~cap[s].error,
                      NEW s \in Streams, tty[s] > 0
               PROVE  /\ made[s] > Cap => tty.at_cap
                      /\ Least(made[s], Cap) > EchoLimit => tty.limited
    BY DEF EchoAdmitsLoss
  <2>1. /\ cap["stdout"] \in StreamCapture /\ cap["stderr"] \in StreamCapture
        /\ cap[s] \in StreamCapture /\ cap[s].done /\ LogFirst(cap[s])
        /\ made[s] = cap[s].written + cap[s].discarded
    BY DEF Output, OutTypes, Shown, Accounted, Streams
  <2>2. /\ made[s] > Cap => truncated(cap[s])
        /\ Least(made[s], Cap) > EchoLimit => read_tail(cap[s]).truncated
    <3>1. cap[s].written \in Nat /\ cap[s].discarded \in Nat
      BY <2>1 DEF StreamCapture
    <3>2. cap[s].written = Least(made[s], Cap) /\ (made[s] > Cap => cap[s].discarded > 0)
      BY <2>1, <3>1, CaptureAssumption DEF Least, LogFirst
    <3> QED
      BY <3>2 DEF truncated, read_tail
  <2>3. tty \in echo_tty(cap["stdout"], cap["stderr"])
    BY DEF Output, Shown
  <2>4. CASE s = "stdout"
    BY <2>1, <2>2, <2>3, <2>4, NoticesFirst DEF captured_truncated
  <2>5. CASE s = "stderr"
    BY <2>1, <2>2, <2>3, <2>5, NoticesFirst DEF captured_truncated
  <2> QED
    BY <2>4, <2>5 DEF Streams
<1> QED
  BY <1>1, OutputInvariant, PTL

===============================================================================
