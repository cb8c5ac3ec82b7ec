----------------------------- MODULE SupervisorLoop -----------------------------
(***************************************************************************)
(* The threads inside one supervisor process: the event loop (run_loop),   *)
(* the IPC thread that answers wakes (serve_ipc), the channel between      *)
(* them, the retries of failed due executions (DueFailureRetries), and the *)
(* way the process ends.  Around it, the clients that wake it.             *)
(*                                                                         *)
(* Time is left out but for its order: a deadline is ahead until it is     *)
(* due, at any later moment.  A due execution is one step that succeeds or *)
(* fails; Supervisor.tla has its statements.  Recovery has left the heap   *)
(* empty, and a process that ended is not started again: what the next one *)
(* does with the stored jobs is the subject of Lifecycle.tla.              *)
(***************************************************************************)
EXTENDS Naturals, Sequences

CONSTANTS
  Jobs,            \* the jobs, each submitted by a client of its own
  Broken,          \* the jobs whose due execution always fails
  ServiceManaged,  \* no idle timeout
  MaxSends,        \* bound: how often each client sends its wake
  MaxAttempts,     \* DueFailureRetries::MAX_ATTEMPTS
  Events           \* what may happen from outside, see the assumption

ASSUME LoopAssumption ==
  /\ Broken \subseteq Jobs
  /\ ServiceManaged \in BOOLEAN
  /\ MaxSends \in [Jobs -> Nat]
  /\ MaxAttempts \in Nat \ {0}
  /\ {"shutdown", "stray"} \cap Jobs = {}
  /\ Events \subseteq {"stop", "accept_error", "stray", "busy", "unreachable"}

VARIABLES
  job,       \* the stored job: "none", "waiting", or "started"
  client,    \* "new", "saved", "sent", "acked" (exit 0), or "failed" (exit 11)
  sends,     \* how often each client sent its wake
  backlog,   \* connections not accepted yet, as what was written to them
  ipc,       \* the IPC thread: [pc, job, at]
  chan,      \* the channel to the loop: [job, at], or "shutdown"
  heap,      \* the deadline heap: "none", "ahead" or "due"
  loop,      \* the event loop: "pop", "exec", "recv", "left", "join", "ended",
             \* or "unheard": like "join", and the IPC thread was not reached
  batch,     \* due jobs still to be executed
  failures,  \* those of the batch that failed
  attempts   \* DueFailureRetries::attempts; 0 for a job that is not in the map

clientVars == <<client, sends>>
loopVars == <<heap, loop, batch, failures, attempts>>
vars == <<job, clientVars, backlog, ipc, chan, loopVars>>

Deadline == {"ahead", "due"}

NoJob == "shutdown"

(* What a connection carries: the wake of a job, the request to shut down, *)
(* or nothing that is one of these: a frame that is empty, too long, cut   *)
(* off or malformed, another protocol or message, or silence until the     *)
(* timeout.                                                                *)
Stray == "stray"

IpcMessage == Jobs \cup {NoJob}

read_frame(connection) == IF connection \in IpcMessage THEN connection ELSE Stray

write_frame(message) == backlog' = Append(backlog, message)

Listening == [pc |-> "accept", job |-> NoJob, at |-> "due"]

Init ==
  /\ job = [j \in Jobs |-> "none"]
  /\ client = [j \in Jobs |-> "new"]
  /\ sends = [j \in Jobs |-> 0]
  /\ backlog = <<>>
  /\ ipc = Listening
  /\ chan = <<>>
  /\ heap = [j \in Jobs |-> "none"]
  /\ loop = "pop"
  /\ batch = {}
  /\ failures = {}
  /\ attempts = [j \in Jobs |-> 0]

Running == loop \in {"pop", "exec", "recv"}

-------------------------------------------------------------------------------
(* submit_job commits the job before it wakes anybody.                     *)
Save(j) ==
  /\ client[j] = "new"
  /\ job' = [job EXCEPT ![j] = "waiting"]
  /\ client' = [client EXCEPT ![j] = "saved"]
  /\ UNCHANGED <<sends, backlog, ipc, chan, loopVars>>

(* SocketAcknowledger::send connects and writes the wake; while the socket *)
(* exists the connection succeeds, whoever accepts it and when.            *)
Send(j) ==
  /\ client[j] = "saved"
  /\ sends[j] < MaxSends[j]
  /\ loop # "ended"
  /\ client' = [client EXCEPT ![j] = "sent"]
  /\ sends' = [sends EXCEPT ![j] = @ + 1]
  /\ write_frame(j)
  /\ UNCHANGED <<job, ipc, chan, loopVars>>

(* No answer within the timeout, or the connection was reset: try again    *)
(* until the deadline of SessionAcknowledger, then exit 11.                *)
Timeout(j) ==
  /\ client[j] = "sent"
  /\ client' = [client EXCEPT ![j] = "saved"]
  /\ UNCHANGED <<job, sends, backlog, ipc, chan, loopVars>>

GiveUp(j) ==
  /\ client[j] = "saved"
  /\ sends[j] = MaxSends[j] \/ loop = "ended"
  /\ client' = [client EXCEPT ![j] = "failed"]
  /\ UNCHANGED <<job, sends, backlog, ipc, chan, loopVars>>

-------------------------------------------------------------------------------
(* serve_ipc: one connection after the other.                              *)
Accept ==
  /\ ipc.pc = "accept"
  /\ backlog # <<>>
  /\ backlog' = Tail(backlog)
  /\ LET message == read_frame(Head(backlog))
     IN  ipc' = CASE message = NoJob -> [ipc EXCEPT !.pc = "gone"]
                  [] message = Stray -> ipc
                  [] OTHER           -> [ipc EXCEPT !.pc = "load", !.job = message]
  /\ UNCHANGED <<job, clientVars, chan, loopVars>>

(* accept failed: the thread ends, and the loop goes on without it.        *)
AcceptError ==
  /\ "accept_error" \in Events
  /\ ipc.pc = "accept"
  /\ ipc' = [Listening EXCEPT !.pc = "gone"]
  /\ UNCHANGED <<job, clientVars, backlog, chan, loopVars>>

(* load_wake: the job as it is stored now, and its deadline.  A started    *)
(* job is scheduled as well, unless it is over by now.                     *)
Load_AcksEarly ==
  /\ ipc.pc = "load"
  /\ \E at \in Deadline : ipc' = [ipc EXCEPT !.pc = "send", !.at = at]
  /\ client' = [client EXCEPT ![ipc.job] = IF @ = "sent" THEN "acked" ELSE @]
  /\ UNCHANGED <<job, sends, backlog, chan, loopVars>>

Load ==
  /\ ipc.pc = "load"
  /\ \/ \E at \in Deadline : ipc' = [ipc EXCEPT !.pc = "send", !.at = at]
     \/ job[ipc.job] = "started" /\ ipc' = [ipc EXCEPT !.pc = "reply"]
  /\ UNCHANGED <<job, clientVars, backlog, chan, loopVars>>

(* The load failed for the last time: Nack.  A client that is told so the  *)
(* first time starts a supervisor and tries again; later it gives up.      *)
LoadFails ==
  /\ "busy" \in Events
  /\ ipc.pc = "load"
  /\ client' = [client EXCEPT ![ipc.job] = IF @ # "sent" THEN @
                                           ELSE IF sends[ipc.job] = 1 THEN "saved" ELSE "failed"]
  /\ ipc' = Listening
  /\ UNCHANGED <<job, sends, backlog, chan, loopVars>>

(* Its client may have hung up meanwhile: then the write goes nowhere.     *)
Acknowledge ==
  /\ client' = [client EXCEPT ![ipc.job] = IF @ = "sent" THEN "acked" ELSE @]
  /\ ipc' = Listening

(* Schedule goes into the channel before the Ack goes to the client.  The  *)
(* receiver lives as long as the process, so the send never fails.         *)
Schedule ==
  /\ ipc.pc = "send"
  /\ chan' = Append(chan, [job |-> ipc.job, at |-> ipc.at])
  /\ ipc' = [ipc EXCEPT !.pc = "reply"]
  /\ UNCHANGED <<job, clientVars, backlog, loopVars>>

Reply ==
  /\ ipc.pc = "reply"
  /\ Acknowledge
  /\ UNCHANGED <<job, sends, backlog, chan, loopVars>>

-------------------------------------------------------------------------------
(* run_loop.  pop_due takes every due job out of the heap ...              *)
DueJobs == {j \in Jobs : heap[j] = "due"}

PopDue ==
  /\ loop = "pop"
  /\ DueJobs # {}
  /\ heap' = [j \in Jobs |-> IF j \in DueJobs THEN "none" ELSE heap[j]]
  /\ batch' = DueJobs
  /\ failures' = {}
  /\ attempts' = [j \in Jobs |-> IF j \in DueJobs THEN 0 ELSE attempts[j]]
  /\ loop' = "exec"
  /\ UNCHANGED <<job, clientVars, backlog, ipc, chan>>

(* ... execute_due_jobs tries each of them, whatever happened to the       *)
(* others ...                                                              *)
Execute_AbortsBatch(j) ==
  /\ loop = "exec"
  /\ j \in batch
  /\ IF job[j] = "waiting" /\ j \in Broken
     THEN /\ batch' = {}
          /\ failures' = failures \cup batch
          /\ job' = job
     ELSE /\ batch' = batch \ {j}
          /\ job' = [job EXCEPT ![j] = "started"]
          /\ UNCHANGED failures
  /\ UNCHANGED <<clientVars, backlog, ipc, chan, heap, loop, attempts>>

Execute(j) ==
  /\ loop = "exec"
  /\ j \in batch
  /\ batch' = batch \ {j}
  /\ IF job[j] = "waiting" /\ j \in Broken
     THEN /\ failures' = failures \cup {j}
          /\ job' = job
     ELSE /\ job' = [job EXCEPT ![j] = "started"]
          /\ UNCHANGED failures
  /\ UNCHANGED <<clientVars, backlog, ipc, chan, heap, loop, attempts>>

(* ... and a failed one goes back through the channel, unless              *)
(* record_failure says its attempts are used up.                           *)
Requeue(j) ==
  /\ loop = "exec"
  /\ batch = {}
  /\ j \in failures
  /\ failures' = failures \ {j}
  /\ attempts' = [attempts EXCEPT ![j] = IF @ <= MaxAttempts THEN @ + 1 ELSE @]
  /\ chan' = IF attempts[j] + 1 > MaxAttempts THEN chan
             ELSE Append(chan, [job |-> j, at |-> "ahead"])
  /\ UNCHANGED <<job, clientVars, backlog, ipc, heap, loop, batch>>

BatchDone ==
  /\ loop = "exec"
  /\ batch = {}
  /\ failures = {}
  /\ loop' = "pop"
  /\ UNCHANGED <<job, clientVars, backlog, ipc, chan, heap, batch, failures, attempts>>

(* Nothing is due: wait for an event, the next deadline, or the idle       *)
(* timeout.                                                                *)
Wait ==
  /\ loop = "pop"
  /\ DueJobs = {}
  /\ loop' = "recv"
  /\ UNCHANGED <<job, clientVars, backlog, ipc, chan, heap, batch, failures, attempts>>

Receive ==
  /\ loop = "recv"
  /\ chan # <<>>
  /\ chan' = Tail(chan)
  /\ IF Head(chan).job = NoJob
     THEN loop' = "left" /\ UNCHANGED heap
     ELSE /\ loop' = "pop"
          /\ heap' = [heap EXCEPT ![Head(chan).job] = Head(chan).at]
  /\ UNCHANGED <<job, clientVars, backlog, ipc, batch, failures, attempts>>

DeadlinePassed ==
  /\ loop = "recv"
  /\ chan = <<>>
  /\ DueJobs # {}
  /\ loop' = "pop"
  /\ UNCHANGED <<job, clientVars, backlog, ipc, chan, heap, batch, failures, attempts>>

(* The idle timeout with an empty heap ends the loop; no event was there   *)
(* at that moment.                                                         *)
IdleExit ==
  /\ loop = "recv"
  /\ chan = <<>>
  /\ ~ServiceManaged
  /\ \A j \in Jobs : heap[j] = "none"
  /\ loop' = "left"
  /\ UNCHANGED <<job, clientVars, backlog, ipc, chan, heap, batch, failures, attempts>>

(* request_ipc_shutdown: a connection of its own, behind all the others.   *)
(* Whether the connect or the write failed is not looked at.               *)
RequestIpcShutdown_Forgotten ==
  /\ loop = "left"
  /\ loop' = "join"
  /\ UNCHANGED <<job, clientVars, backlog, ipc, chan, heap, batch, failures, attempts>>

RequestIpcShutdown ==
  /\ loop = "left"
  /\ \/ loop' = "join" /\ write_frame(NoJob)
     \/ /\ "unreachable" \in Events
        /\ loop' = "unheard"
        /\ UNCHANGED backlog \/ write_frame(Stray)
  /\ UNCHANGED <<job, clientVars, ipc, chan, heap, batch, failures, attempts>>

(* The IPC thread is joined and the socket removed.                        *)
JoinIpc ==
  /\ loop \in {"join", "unheard"}
  /\ ipc.pc = "gone"
  /\ loop' = "ended"
  /\ backlog' = <<>>
  /\ UNCHANGED <<job, clientVars, ipc, chan, heap, batch, failures, attempts>>

-------------------------------------------------------------------------------
(* Time passes: a deadline that was ahead is due.                          *)
Elapse(j) ==
  /\ heap[j] = "ahead"
  /\ heap' = [heap EXCEPT ![j] = "due"]
  /\ UNCHANGED <<job, clientVars, backlog, ipc, chan, loop, batch, failures, attempts>>

(* Somebody connects who has no wake to send, one at a time.               *)
StrayConnects ==
  /\ "stray" \in Events
  /\ loop # "ended"
  /\ \A i \in DOMAIN backlog : backlog[i] # Stray
  /\ write_frame(Stray)
  /\ UNCHANGED <<job, clientVars, ipc, chan, loopVars>>

(* A stop signal reaches the signal thread, once.                          *)
StopSignal ==
  /\ "stop" \in Events
  /\ Running
  /\ \A i \in DOMAIN chan : chan[i].job # NoJob
  /\ chan' = Append(chan, [job |-> NoJob, at |-> "due"])
  /\ UNCHANGED <<job, clientVars, backlog, ipc, loopVars>>

Ipc == Accept \/ Load \/ Schedule \/ Reply

Loop ==
  \/ PopDue \/ BatchDone \/ Wait \/ Receive \/ DeadlinePassed
  \/ \E j \in Jobs : Execute(j) \/ Requeue(j)
  \/ RequestIpcShutdown \/ JoinIpc

Client(j) == Send(j) \/ Timeout(j) \/ GiveUp(j)

Next ==
  \/ \E j \in Jobs : Save(j) \/ Client(j) \/ Elapse(j)
  \/ Ipc \/ AcceptError \/ LoadFails \/ StrayConnects
  \/ Loop \/ IdleExit \/ StopSignal

Spec == Init /\ [][Next]_vars

(* Both threads run and time passes; clients, timeouts and outside events  *)
(* are free.                                                               *)
Fairness ==
  /\ WF_vars(Ipc)
  /\ WF_vars(Loop)
  /\ \A j \in Jobs : WF_vars(Elapse(j))

FairSpec == Spec /\ Fairness

-------------------------------------------------------------------------------
InChannel(j) == \E i \in DOMAIN chan : chan[i].job = j

(* The loop, or a message on its way to the loop, knows the job.           *)
Owned(j) == heap[j] # "none" \/ j \in batch \cup failures \/ InChannel(j)

(* A wake is never lost between the threads: while the loop runs, a job    *)
(* whose client was told "acknowledged" and that was not started yet is in *)
(* the heap, in the batch, or in the channel, or has used its attempts up  *)
(* and is left to recovery.  (serve_ipc sends Schedule before it writes    *)
(* the Ack; failed jobs go back through the channel.)  Of an Ack that      *)
(* comes after the loop was left nothing is said: the idle timeout may end *)
(* the loop between Accept and Schedule.                                   *)
AckedIsOwned ==
  Running => \A j \in Jobs : client[j] = "acked" /\ job[j] = "waiting"
                               => Owned(j) \/ attempts[j] > MaxAttempts

(* A broken job never holds up the others: an acknowledged job that can be *)
(* executed is started, however often its batch-mates fail ("a single      *)
(* broken job must never abort its batch-mates", execute_due_jobs), unless *)
(* the loop is left before.                                                *)
AckedIsStarted ==
  \A j \in Jobs \ Broken : client[j] = "acked" ~> job[j] = "started" \/ ~Running

(* A loop that was left ends the process: the IPC thread, which may sit in *)
(* accept, is woken and joined, whatever connections are ahead, unless     *)
(* request_ipc_shutdown could not reach it.  Then the join waits until     *)
(* accept fails or somebody else asks for a shutdown, which may be never.  *)
LeavingEnds == loop = "left" ~> loop \in {"ended", "unheard"}

(* What the comment of DueFailureRetries says: a job that keeps failing is *)
(* rescheduled up to MAX_ATTEMPTS times, and the loop then has it no more. *)
(* It does not hold: retries.forget comes before every attempt.            *)
BrokenIsDropped ==
  \A j \in Broken : client[j] = "acked" ~> ~Owned(j) \/ ~Running

===============================================================================
