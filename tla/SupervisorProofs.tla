--------------------------- MODULE SupervisorProofs ---------------------------
(***************************************************************************)
(* The threads of a supervisor.  No wake is lost between them, for any     *)
(* number of jobs and clients, any retries of theirs and anything that     *)
(* happens outside; and no exit of a monitor is missed, for any number of  *)
(* monitors and of children that are not the supervisor's own.             *)
(***************************************************************************)
EXTENDS SupervisorLoop, MonitorChildren, SequenceTheorems, TLAPS

Message == [job : Jobs \cup {NoJob}, at : Deadline]

Types ==
  /\ job \in [Jobs -> {"none", "waiting", "started"}]
  /\ client \in [Jobs -> {"new", "saved", "sent", "acked", "failed"}]
  /\ backlog \in Seq(IpcMessage \cup {Stray})
  /\ ipc \in [pc : {"accept", "load", "send", "reply", "gone"}, job : Jobs \cup {NoJob},
              at : Deadline]
  /\ chan \in Seq(Message)
  /\ heap \in [Jobs -> {"none"} \cup Deadline]
  /\ loop \in {"pop", "exec", "recv", "left", "join", "unheard", "ended"}
  /\ batch \subseteq Jobs
  /\ failures \subseteq Jobs
  /\ attempts \in [Jobs -> Nat]

(* The IPC thread, and every connection before it, has the wake of a job   *)
(* that is stored.                                                         *)
Wakes == ipc.pc \in {"load", "send", "reply"}

WakesAreSaved ==
  /\ Wakes => ipc.job \in Jobs /\ client[ipc.job] # "new"
  /\ \A i \in DOMAIN backlog : backlog[i] \in Jobs => client[backlog[i]] # "new"

(* A reply is only written when the loop has been told.                    *)
ToldFirst ==
  Running /\ ipc.pc = "reply" /\ job[ipc.job] = "waiting" => Owned(ipc.job)

(* The loop works on one batch at a time, and a job of it that fails goes  *)
(* back to the channel: taking it out of the heap forgot its attempts.     *)
OneBatch ==
  /\ loop # "exec" => batch = {} /\ failures = {}
  /\ \A j \in batch \cup failures : attempts[j] = 0

(* AckedIsOwned without its exception: as the attempts are forgotten       *)
(* before each of them, they are never used up.                            *)
NeverDropped ==
  Running => \A j \in Jobs : client[j] = "acked" /\ job[j] = "waiting" => Owned(j)

LoopInv == Types /\ WakesAreSaved /\ ToldFirst /\ OneBatch /\ NeverDropped

-------------------------------------------------------------------------------
LEMMA Appended ==
  ASSUME NEW S, NEW s \in Seq(S), NEW e \in S, NEW t, t = Append(s, e)
  PROVE  /\ t \in Seq(S)
         /\ \A i \in DOMAIN s : i \in DOMAIN t /\ t[i] = s[i]
         /\ \A i \in DOMAIN t : t[i] = e \/ (i \in DOMAIN s /\ t[i] = s[i])
         /\ \E i \in DOMAIN t : t[i] = e
<1>1. /\ t \in Seq(S) /\ Len(t) = Len(s) + 1
      /\ \A i \in 1..Len(s) : t[i] = s[i]
      /\ t[Len(s) + 1] = e
  BY AppendProperties
<1>2. Len(s) \in Nat /\ DOMAIN s = 1..Len(s) /\ DOMAIN t = 1..(Len(s) + 1)
  BY <1>1, LenProperties
<1>3. Len(s) + 1 \in DOMAIN t /\ \A i \in DOMAIN t : i \in DOMAIN s \/ i = Len(s) + 1
  BY <1>2
<1>4. \A i \in DOMAIN s : i \in DOMAIN t
  BY <1>2
<1> QED
  BY <1>1, <1>2, <1>3, <1>4

HeadTaken(s, t) == \A i \in DOMAIN s : s[i] = Head(s) \/ \E k \in DOMAIN t : t[k] = s[i]

LEMMA WithoutHead ==
  ASSUME NEW S, NEW s \in Seq(S), s # <<>>, NEW t, t = Tail(s)
  PROVE  /\ t \in Seq(S) /\ Head(s) \in S
         /\ 1 \in DOMAIN s /\ Head(s) = s[1]
         /\ HeadTaken(s, t)
         /\ \A k \in DOMAIN t : \E i \in DOMAIN s : s[i] = t[k]
<1>1. /\ t \in Seq(S) /\ Head(s) \in S /\ Len(t) = Len(s) - 1
      /\ \A i \in 1..Len(t) : t[i] = s[i + 1]
  BY HeadTailProperties
<1>2. Len(s) \in Nat \ {0} /\ DOMAIN s = 1..Len(s) /\ DOMAIN t = 1..(Len(s) - 1)
  BY <1>1, LenProperties, EmptySeq
<1>3. 1 \in DOMAIN s /\ Head(s) = s[1]
  BY <1>2
<1>4. ASSUME NEW i \in DOMAIN s, i # 1
      PROVE  i - 1 \in DOMAIN t /\ t[i - 1] = s[i]
  <2>1. i - 1 \in 1..Len(t) /\ (i - 1) + 1 = i
    BY <1>1, <1>2, <1>4
  <2> QED
    BY <1>1, <1>2, <2>1
<1>5. ASSUME NEW k \in DOMAIN t
      PROVE  k + 1 \in DOMAIN s /\ s[k + 1] = t[k]
  BY <1>1, <1>2
<1>6. HeadTaken(s, t)
  BY <1>3, <1>4 DEF HeadTaken
<1> QED
  BY <1>1, <1>3, <1>5, <1>6

(* What a step owes the invariant, apart from the types.                   *)
OwnedKept ==
  Running' => \A j \in Jobs : Owned(j) /\ job'[j] = "waiting" => Owned(j)'

JobsKept ==
  \A j \in Jobs : job'[j] = "waiting" => job[j] = "waiting" \/ client[j] = "new"

LEMMA Frame ==
  ASSUME LoopInv, Types', WakesAreSaved', OneBatch', OwnedKept, JobsKept,
         Running' => Running,
         ipc'.pc = "reply" =>
           \/ ipc.pc = "reply" /\ ipc'.job = ipc.job
           \/ \A j \in Jobs : j = ipc'.job => job'[j] # "waiting" \/ Owned(j)',
         \A j \in Jobs : client'[j] = "acked" =>
           client[j] = "acked" \/ (ipc.pc = "reply" /\ j = ipc.job)
  PROVE  LoopInv'
<1> USE DEF LoopInv, WakesAreSaved, Wakes
<1>1. ASSUME Running', NEW j \in Jobs, job'[j] = "waiting",
             client[j] = "acked" \/ (ipc.pc = "reply" /\ j = ipc.job)
      PROVE  Owned(j)'
  <2>1. Running /\ client[j] # "new" /\ job[j] = "waiting"
    BY <1>1 DEF JobsKept
  <2>2. Owned(j)
    BY <1>1, <2>1 DEF NeverDropped, ToldFirst
  <2> QED
    BY <1>1, <2>2 DEF OwnedKept
<1>2. NeverDropped'
  BY <1>1 DEF NeverDropped
<1>3. ToldFirst'
  <2> SUFFICES ASSUME Running', ipc'.pc = "reply", job'[ipc'.job] = "waiting"
               PROVE  Owned(ipc.job)'
    BY DEF ToldFirst
  <2>1. \A j \in Jobs : j = ipc'.job => Owned(j)'
    BY <1>1
  <2>2. ipc'.job \in Jobs
    OBVIOUS
  <2> QED
    BY <2>1, <2>2 DEF Owned, InChannel
<1> QED
  BY <1>2, <1>3

(* The steps of the clients and of the IPC thread that leave the loop      *)
(* alone.                                                                  *)
LEMMA LoopLeftAlone ==
  ASSUME LoopInv, UNCHANGED <<job, chan, loopVars>>
  PROVE  /\ OwnedKept /\ JobsKept /\ OneBatch'
         /\ Running' => Running
<1>1. OwnedKept
  BY DEF OwnedKept, Owned, InChannel, loopVars
<1> QED
  BY <1>1 DEF LoopInv, OneBatch, JobsKept, Running, loopVars

LEMMA ClientKeeps ==
  ASSUME LoopInv, NEW j \in Jobs, Save(j) \/ Client(j)
  PROVE  LoopInv'
<1> USE DEF LoopInv, Types, Wakes, WakesAreSaved
<1>1. CASE Save(j)
  <2>1. Types' /\ WakesAreSaved' /\ OneBatch'
    BY <1>1 DEF Save, loopVars, OneBatch
  <2>2. OwnedKept /\ JobsKept /\ (Running' => Running)
    BY <1>1 DEF Save, loopVars, OwnedKept, Owned, InChannel, JobsKept, Running
  <2> QED
    BY <1>1, <2>1, <2>2, Frame DEF Save
<1>2. CASE Send(j)
  <2>1. j \in IpcMessage \cup {Stray} /\ backlog' = Append(backlog, j)
    BY <1>2 DEF Send, write_frame, IpcMessage
  <2>2. /\ backlog' \in Seq(IpcMessage \cup {Stray})
        /\ \A i \in DOMAIN backlog' :
              backlog'[i] = j \/ (i \in DOMAIN backlog /\ backlog'[i] = backlog[i])
    BY <2>1, Appended
  <2>3. Types' /\ WakesAreSaved'
    BY <1>2, <2>2 DEF Send, loopVars
  <2> QED
    BY <1>2, <2>3, LoopLeftAlone, Frame DEF Send
<1>3. CASE Timeout(j) \/ GiveUp(j)
  <2>1. /\ UNCHANGED <<job, backlog, ipc, chan, heap, loop, batch, failures, attempts>>
        /\ client[j] # "new"
        /\ \E s \in {"saved", "failed"} : client' = [client EXCEPT ![j] = s]
    <3> HIDE DEF LoopInv, Types, Wakes, WakesAreSaved
    <3> QED
      BY <1>3 DEF Timeout, GiveUp, loopVars
  <2>2. /\ client' \in [Jobs -> {"new", "saved", "sent", "acked", "failed"}]
        /\ \A k \in Jobs : client'[k] = "new" => client[k] = "new"
    BY <2>1
  <2>3. Types'
    BY <2>1, <2>2
  <2>4. WakesAreSaved'
    <3> HIDE DEF LoopInv, Types
    <3>1. WakesAreSaved
      BY DEF LoopInv
    <3>2. Wakes' = Wakes
      BY <2>1
    <3> QED
      BY <2>1, <2>2, <3>1, <3>2
  <2> QED
    BY <1>3, <2>3, <2>4, LoopLeftAlone, Frame DEF Timeout, GiveUp
<1> QED
  BY <1>1, <1>2, <1>3 DEF Client

LEMMA IpcKeeps ==
  ASSUME LoopInv, Ipc \/ AcceptError \/ LoadFails \/ StrayConnects
  PROVE  LoopInv'
<1> USE DEF LoopInv, Types, Wakes, WakesAreSaved
<1>1. CASE Accept
  <2>0. backlog' = Tail(backlog) /\ backlog # <<>> /\ backlog \in Seq(IpcMessage \cup {Stray})
    BY <1>1 DEF Accept
  <2>1. /\ backlog' \in Seq(IpcMessage \cup {Stray})
        /\ 1 \in DOMAIN backlog /\ Head(backlog) = backlog[1]
        /\ \A i \in DOMAIN backlog' : \E k \in DOMAIN backlog : backlog[k] = backlog'[i]
    <3> HIDE DEF LoopInv, Types, Wakes, WakesAreSaved
    <3> QED
      BY <2>0, WithoutHead
  <2>2. Head(backlog) \in Jobs => client[Head(backlog)] # "new"
    BY <2>1
  <2>3. /\ ipc' \in [pc : {"accept", "load", "send", "reply", "gone"},
                     job : Jobs \cup {NoJob}, at : Deadline]
        /\ ipc'.pc \in {"accept", "gone"} \/ (ipc'.pc = "load" /\ ipc'.job = Head(backlog)
                                                /\ Head(backlog) \in Jobs)
    BY <1>1 DEF Accept, read_frame, IpcMessage
  <2>4. Types' /\ WakesAreSaved'
    BY <1>1, <2>1, <2>2, <2>3 DEF Accept, loopVars, clientVars
  <2> QED
    BY <1>1, <2>3, <2>4, LoopLeftAlone, Frame DEF Accept, clientVars
<1>2. CASE AcceptError
  <2>1. Types' /\ WakesAreSaved'
    BY <1>2 DEF AcceptError, Listening, Deadline, loopVars, clientVars
  <2> QED
    BY <1>2, <2>1, LoopLeftAlone, Frame DEF AcceptError, Listening, clientVars
<1>3. CASE Load
  <2>1. Types' /\ WakesAreSaved'
    BY <1>3 DEF Load, loopVars, clientVars
  <2>2. ipc'.pc = "reply" => job'[ipc'.job] = "started"
    BY <1>3 DEF Load
  <2> QED
    BY <1>3, <2>1, <2>2, LoopLeftAlone, Frame DEF Load, clientVars
<1>4. CASE LoadFails
  <2>1. Types' /\ WakesAreSaved'
    BY <1>4 DEF LoadFails, Listening, Deadline, loopVars
  <2>2. \A j \in Jobs : client'[j] = "acked" => client[j] = "acked"
    BY <1>4 DEF LoadFails
  <2> QED
    BY <1>4, <2>1, <2>2, LoopLeftAlone, Frame DEF LoadFails, Listening
<1>5. CASE Schedule
  <2> DEFINE message == [job |-> ipc.job, at |-> ipc.at]
  <2>1. /\ ipc.job \in Jobs /\ message \in Message /\ message.job = ipc.job
        /\ chan \in Seq(Message) /\ chan' = Append(chan, message)
    BY <1>5 DEF Schedule, Message
  <2> HIDE DEF message
  <2>2. /\ chan' \in Seq(Message)
        /\ \A i \in DOMAIN chan : i \in DOMAIN chan' /\ chan'[i] = chan[i]
        /\ \E i \in DOMAIN chan' : chan'[i] = message
    <3> HIDE DEF LoopInv, Types, Wakes, WakesAreSaved
    <3> QED
      BY <2>1, Appended
  <2>3. Types' /\ WakesAreSaved' /\ OneBatch'
    BY <1>5, <2>2 DEF Schedule, loopVars, clientVars, OneBatch
  <2>4. OwnedKept /\ JobsKept /\ (Running' => Running)
    BY <1>5, <2>2 DEF Schedule, loopVars, OwnedKept, Owned, InChannel, JobsKept, Running
  <2>5. ipc'.job = ipc.job /\ \A j \in Jobs : j = ipc.job => Owned(j)'
    BY <1>5, <2>1, <2>2 DEF Schedule, Owned, InChannel
  <2> QED
    BY <1>5, <2>3, <2>4, <2>5, Frame DEF Schedule, clientVars
<1>6. CASE Reply
  <2>1. Types' /\ WakesAreSaved'
    BY <1>6 DEF Reply, Acknowledge, Listening, Deadline, loopVars
  <2>2. \A j \in Jobs : client'[j] = "acked" => client[j] = "acked" \/ j = ipc.job
    BY <1>6 DEF Reply, Acknowledge
  <2> QED
    BY <1>6, <2>1, <2>2, LoopLeftAlone, Frame DEF Reply, Acknowledge, Listening
<1>7. CASE StrayConnects
  <2>1. /\ backlog' \in Seq(IpcMessage \cup {Stray})
        /\ \A i \in DOMAIN backlog' :
              backlog'[i] = Stray \/ (i \in DOMAIN backlog /\ backlog'[i] = backlog[i])
    BY <1>7, Appended DEF StrayConnects, write_frame
  <2>2. Stray \notin Jobs
    BY LoopAssumption DEF Stray
  <2>3. Types' /\ WakesAreSaved'
    BY <1>7, <2>1, <2>2 DEF StrayConnects, loopVars, clientVars
  <2> QED
    BY <1>7, <2>3, LoopLeftAlone, Frame DEF StrayConnects, clientVars
<1> QED
  BY <1>1, <1>2, <1>3, <1>4, <1>5, <1>6, <1>7 DEF Ipc

LEMMA LoopKeeps ==
  ASSUME LoopInv, PopDue \/ BatchDone \/ Wait \/ DeadlinePassed \/ IdleExit
  PROVE  LoopInv'
<1> USE DEF LoopInv, Types
<1>0. Running' => Running
  BY DEF PopDue, BatchDone, Wait, DeadlinePassed, IdleExit, Running
<1>1. UNCHANGED <<job, client, backlog, ipc, chan>>
  BY DEF PopDue, BatchDone, Wait, DeadlinePassed, IdleExit, clientVars
<1>2. WakesAreSaved' /\ JobsKept
  BY <1>1 DEF WakesAreSaved, Wakes, JobsKept
<1>3. CASE PopDue
  <2>1. Types' /\ OneBatch'
    BY <1>1, <1>3 DEF PopDue, DueJobs, OneBatch
  <2>2. OwnedKept
    BY <1>1, <1>3 DEF PopDue, DueJobs, OneBatch, OwnedKept, Owned, InChannel
  <2> QED
    BY <1>0, <1>1, <1>2, <2>1, <2>2, Frame
<1>4. CASE BatchDone \/ Wait \/ DeadlinePassed \/ IdleExit
  <2>1. Types' /\ OneBatch'
    BY <1>1, <1>4 DEF BatchDone, Wait, DeadlinePassed, IdleExit, OneBatch
  <2>2. OwnedKept
    BY <1>1, <1>4 DEF BatchDone, Wait, DeadlinePassed, IdleExit, OwnedKept, Owned, InChannel
  <2> QED
    BY <1>0, <1>1, <1>2, <2>1, <2>2, Frame
<1> QED
  BY <1>3, <1>4

LEMMA ReceiveKeeps ==
  ASSUME LoopInv, Receive
  PROVE  LoopInv'
<1>1. /\ UNCHANGED <<job, client, backlog, ipc>>
      /\ chan \in Seq(Message) /\ chan # <<>> /\ chan' = Tail(chan)
  BY DEF Receive, clientVars, LoopInv, Types
<1>2. /\ chan' \in Seq(Message) /\ Head(chan) \in Message
      /\ \A i \in DOMAIN chan : chan[i] = Head(chan) \/ \E k \in DOMAIN chan' : chan'[k] = chan[i]
  <2>1. chan \in Seq(Message) /\ chan # <<>>
    BY <1>1
  <2>2. chan' \in Seq(Message) /\ Head(chan) \in Message /\ HeadTaken(chan, chan')
    BY <1>1, <2>1, WithoutHead
  <2> QED
    BY <2>2, Zenon DEF HeadTaken
<1>3. WakesAreSaved' /\ JobsKept /\ (Running' => Running)
  BY <1>1 DEF LoopInv, WakesAreSaved, Wakes, JobsKept, Receive, Running
<1>4. Head(chan).job \in Jobs \cup {NoJob} /\ Head(chan).at \in Deadline
  BY <1>2 DEF Message
<1>5. Types' /\ OneBatch'
  <2>1. /\ UNCHANGED <<batch, failures, attempts>> /\ loop = "recv"
        /\ loop' \in {"left", "pop"}
        /\ \/ UNCHANGED heap
           \/ heap' = [heap EXCEPT ![Head(chan).job] = Head(chan).at]
    BY DEF Receive
  <2>2. heap' \in [Jobs -> {"none"} \cup Deadline]
    BY <1>4, <2>1 DEF LoopInv, Types
  <2> QED
    BY <1>1, <1>2, <2>1, <2>2 DEF LoopInv, Types, OneBatch
<1>6. OwnedKept
  <2> SUFFICES ASSUME Running', NEW j \in Jobs, Owned(j)
               PROVE  Owned(j)'
    BY DEF OwnedKept
  <2>1. /\ UNCHANGED <<batch, failures>> /\ heap' = [heap EXCEPT ![Head(chan).job] = Head(chan).at]
        /\ heap \in [Jobs -> {"none"} \cup Deadline]
    BY DEF Receive, Running, LoopInv, Types
  <2>2. CASE heap[j] # "none" \/ j = Head(chan).job
    BY <1>4, <2>1, <2>2 DEF Owned, Deadline
  <2>3. CASE j \in batch \cup failures
    BY <2>1, <2>3 DEF Owned
  <2>4. CASE j # Head(chan).job /\ InChannel(j)
    BY <1>2, <2>4 DEF Owned, InChannel
  <2> QED
    BY <2>2, <2>3, <2>4 DEF Owned
<1> QED
  BY <1>1, <1>3, <1>5, <1>6, Frame

LEMMA BatchKeeps ==
  ASSUME LoopInv, NEW j \in Jobs, Execute(j) \/ Requeue(j)
  PROVE  LoopInv'
<1>0. UNCHANGED <<client, backlog, ipc, heap, loop>>
  BY DEF Execute, Requeue, clientVars
<1>1. WakesAreSaved' /\ (Running' => Running)
  BY <1>0 DEF LoopInv, WakesAreSaved, Wakes, Running
<1>2. CASE Execute(j)
  <2>1. Types' /\ OneBatch'
    BY <1>0, <1>2 DEF Execute, LoopInv, Types, OneBatch
  <2>2. OwnedKept /\ JobsKept
    BY <1>0, <1>2 DEF Execute, LoopInv, Types, OwnedKept, JobsKept, Owned, InChannel
  <2> QED
    BY <1>0, <1>1, <2>1, <2>2, Frame
<1>3. CASE Requeue(j)
  <2> DEFINE message == [job |-> j, at |-> "ahead"]
  <2>1. attempts[j] = 0 /\ ~(attempts[j] + 1 > MaxAttempts)
    BY <1>3, LoopAssumption DEF Requeue, LoopInv, OneBatch
  <2>2. /\ message \in Message /\ message.job = j
        /\ chan \in Seq(Message) /\ chan' = Append(chan, message)
    BY <1>3, <2>1 DEF Requeue, Message, Deadline, LoopInv, Types
  <2> HIDE DEF message
  <2>3. /\ chan' \in Seq(Message)
        /\ \A i \in DOMAIN chan : i \in DOMAIN chan' /\ chan'[i] = chan[i]
        /\ \E i \in DOMAIN chan' : chan'[i] = message
    BY <2>2, Appended
  <2>4. Types' /\ OneBatch'
    BY <1>0, <1>3, <2>3 DEF Requeue, LoopInv, Types, OneBatch
  <2>5. OwnedKept /\ JobsKept
    BY <1>0, <1>3, <2>2, <2>3 DEF Requeue, OwnedKept, JobsKept, Owned, InChannel
  <2> QED
    BY <1>0, <1>1, <2>4, <2>5, Frame
<1> QED
  BY <1>2, <1>3

(* The loop was left, time passes, or a stop signal arrives.               *)
LEMMA OutsideKeeps ==
  ASSUME LoopInv, RequestIpcShutdown \/ JoinIpc \/ StopSignal \/ \E j \in Jobs : Elapse(j)
  PROVE  LoopInv'
<1>0. UNCHANGED <<job, client, ipc, batch, failures, attempts>>
  BY DEF RequestIpcShutdown, JoinIpc, StopSignal, Elapse, clientVars, loopVars
<1>1. JobsKept
  BY <1>0 DEF JobsKept
<1>2. CASE RequestIpcShutdown
  <2>1. /\ backlog \in Seq(IpcMessage \cup {Stray})
        /\ NoJob \in IpcMessage \cup {Stray} /\ Stray \in IpcMessage \cup {Stray}
        /\ \/ backlog' = backlog
           \/ \E m \in {NoJob, Stray} : backlog' = Append(backlog, m)
    BY <1>2 DEF RequestIpcShutdown, write_frame, LoopInv, Types, IpcMessage
  <2>2. /\ backlog' \in Seq(IpcMessage \cup {Stray})
        /\ \A i \in DOMAIN backlog' :
             \/ backlog'[i] \in {NoJob, Stray}
             \/ i \in DOMAIN backlog /\ backlog'[i] = backlog[i]
    <3>1. CASE backlog' = backlog
      BY <2>1, <3>1
    <3>2. CASE \E m \in {NoJob, Stray} : backlog' = Append(backlog, m)
      <4>1. PICK m \in {NoJob, Stray} : backlog' = Append(backlog, m)
        BY <3>2
      <4>2. /\ backlog' \in Seq(IpcMessage \cup {Stray})
            /\ \A i \in DOMAIN backlog' :
                  backlog'[i] = m \/ (i \in DOMAIN backlog /\ backlog'[i] = backlog[i])
        BY <2>1, <4>1, Appended
      <4> QED
        BY <4>1, <4>2, Zenon
    <3> QED
      BY <2>1, <3>1, <3>2, Zenon
  <2>3. NoJob \notin Jobs /\ Stray \notin Jobs
    BY LoopAssumption DEF NoJob, Stray
  <2>4. Types' /\ OneBatch' /\ WakesAreSaved'
    BY <1>0, <1>2, <2>2, <2>3 DEF RequestIpcShutdown, LoopInv, Types, OneBatch, WakesAreSaved, Wakes
  <2>5. ~Running'
    BY <1>2 DEF RequestIpcShutdown, Running
  <2> QED
    BY <1>0, <1>1, <2>4, <2>5, Frame DEF OwnedKept
<1>3. CASE JoinIpc
  <2>1. Types' /\ OneBatch' /\ WakesAreSaved' /\ ~Running'
    BY <1>0, <1>3 DEF JoinIpc, LoopInv, Types, OneBatch, WakesAreSaved, Wakes, Running
  <2> QED
    BY <1>0, <1>1, <2>1, Frame DEF OwnedKept
<1>4. CASE StopSignal
  <2> DEFINE message == [job |-> NoJob, at |-> "due"]
  <2>1. message \in Message /\ chan \in Seq(Message) /\ chan' = Append(chan, message)
    BY <1>4 DEF StopSignal, Message, Deadline, LoopInv, Types
  <2> HIDE DEF message
  <2>2. /\ chan' \in Seq(Message)
        /\ \A i \in DOMAIN chan : i \in DOMAIN chan' /\ chan'[i] = chan[i]
    BY <2>1, Appended
  <2>3. Types' /\ OneBatch' /\ WakesAreSaved'
    BY <1>0, <1>4, <2>2 DEF StopSignal, loopVars, LoopInv, Types, OneBatch, WakesAreSaved, Wakes
  <2>4. OwnedKept /\ (Running' => Running)
    BY <1>0, <1>4, <2>2 DEF StopSignal, loopVars, OwnedKept, Owned, InChannel, Running
  <2> QED
    BY <1>0, <1>1, <2>3, <2>4, Frame
<1>5. ASSUME NEW j \in Jobs, Elapse(j)
      PROVE  LoopInv'
  <2>1. Types' /\ OneBatch' /\ WakesAreSaved'
    BY <1>0, <1>5 DEF Elapse, Deadline, LoopInv, Types, OneBatch, WakesAreSaved, Wakes
  <2>2. OwnedKept /\ (Running' => Running)
    BY <1>0, <1>5 DEF Elapse, LoopInv, Types, OwnedKept, Owned, InChannel, Running
  <2> QED
    BY <1>0, <1>1, <2>1, <2>2, Frame
<1> QED
  BY <1>2, <1>3, <1>4, <1>5

-------------------------------------------------------------------------------
(* A wake that was acknowledged is never lost between the IPC thread, the  *)
(* channel, the heap and the batch, however many clients there are, how    *)
(* often they send, and whichever of their jobs fail (serve_ipc, run_loop  *)
(* and DueFailureRetries in src/supervisor/daemon.rs).                     *)
THEOREM AckedIsOwnedHolds == Spec => []AckedIsOwned
<1>1. Init => LoopInv
  <2> SUFFICES ASSUME Init
               PROVE  LoopInv
    OBVIOUS
  <2>1. Types
    BY DEF Init, Types, Listening, Deadline
  <2> QED
    BY <2>1 DEF Init, LoopInv, WakesAreSaved, Wakes, ToldFirst, OneBatch, NeverDropped, Listening
<1>2. LoopInv /\ [Next]_vars => LoopInv'
  <2> SUFFICES ASSUME LoopInv, [Next]_vars
               PROVE  LoopInv'
    OBVIOUS
  <2>1. CASE UNCHANGED vars
    BY <2>1 DEF vars, clientVars, loopVars, LoopInv, Types, WakesAreSaved, Wakes, ToldFirst, OneBatch,
                NeverDropped, Owned, InChannel, Running
  <2> QED
    BY <2>1, ClientKeeps, IpcKeeps, LoopKeeps, ReceiveKeeps, BatchKeeps, OutsideKeeps
       DEF Next, Loop
<1>3. LoopInv => AckedIsOwned
  BY DEF LoopInv, NeverDropped, AckedIsOwned
<1> QED
  BY <1>1, <1>2, <1>3, PTL DEF Spec

-------------------------------------------------------------------------------
(* The supervisor's children.                                              *)

(* Who is in the critical section holds the registry's lock.               *)
LockHeld ==
  /\ lock = "main" <=> main.pc \in {"locked", "insert"}
  /\ lock = "worker" <=> worker.pc = "reap"

(* The monitor in hand is a new one.                                       *)
InHand ==
  IF main.pc = "insert"
  THEN main.kid \in Monitors /\ kid[main.kid] \in {"alive", "zombie"}
  ELSE main.kid = None

(* Every monitor that is not reaped is registered, or about to be.         *)
Registered ==
  \A k \in Monitors : kid[k] \in {"alive", "zombie"} =>
    k \in children \/ (main.pc = "insert" /\ main.kid = k)

(* No monitor is started before the worker.                                *)
WorkerFirst ==
  /\ main.pc = "boot" => worker.pc = "none"
  /\ worker.pc = "none" => main.pc \in {"boot", "over"} /\ \A k \in Monitors : kid[k] = "none"

(* Once it has reaped, the worker owes nothing but to a pending signal.    *)
NothingOwed ==
  (worker.pc \in {"sigwait", "decide"} /\ "chld" \notin pending) => Zombies \cap Monitors = {}

ChildrenInv == TypeOK /\ LockHeld /\ InHand /\ Registered /\ WorkerFirst /\ NothingOwed

-------------------------------------------------------------------------------
(* The steps of the main thread.                                           *)
LEMMA MainKeeps ==
  ASSUME ChildrenInv, MainNext \/ StartError \/ Lock \/ LeaveLoop
  PROVE  ChildrenInv'
<1> USE ChildrenAssumption DEF Kids, MainGoes, Unlocked, stop_signal_set, supervisor_signal_set,
        Zombies
<1>1. CASE StartWorker
  BY <1>1 DEF ChildrenInv, TypeOK, LockHeld, InHand, Registered, WorkerFirst, NothingOwed, StartWorker
<1>2. CASE StartIpc
  BY <1>2 DEF ChildrenInv, TypeOK, LockHeld, InHand, Registered, WorkerFirst, NothingOwed, StartIpc
<1>3. ASSUME NEW k \in Monitors, Spawn(k)
      PROVE  ChildrenInv'
  BY <1>3 DEF ChildrenInv, TypeOK, LockHeld, InHand, Registered, WorkerFirst, NothingOwed, Spawn
<1>4. CASE SpawnError
  BY <1>4 DEF ChildrenInv, TypeOK, LockHeld, InHand, Registered, WorkerFirst, NothingOwed, SpawnError
<1>5. CASE Insert
  BY <1>5 DEF ChildrenInv, TypeOK, LockHeld, InHand, Registered, WorkerFirst, NothingOwed, Insert
<1>6. CASE StopWorker
  BY <1>6 DEF ChildrenInv, TypeOK, LockHeld, InHand, Registered, WorkerFirst, NothingOwed, StopWorker
<1>7. CASE Join
  BY <1>7 DEF ChildrenInv, TypeOK, LockHeld, InHand, Registered, WorkerFirst, NothingOwed, Join
<1>8. CASE StartError
  BY <1>8 DEF ChildrenInv, TypeOK, LockHeld, InHand, Registered, WorkerFirst, NothingOwed, StartError
<1>9. CASE Lock
  BY <1>9 DEF ChildrenInv, TypeOK, LockHeld, InHand, Registered, WorkerFirst, NothingOwed, Lock
<1>10. CASE LeaveLoop
  BY <1>10 DEF ChildrenInv, TypeOK, LockHeld, InHand, Registered, WorkerFirst, NothingOwed, LeaveLoop
<1> QED
  BY <1>1, <1>2, <1>3, <1>4, <1>5, <1>6, <1>7, <1>8, <1>9, <1>10 DEF MainNext

(* The steps of the signal worker.                                         *)
LEMMA WorkerKeeps ==
  ASSUME ChildrenInv, WorkerNext \/ ReapError
  PROVE  ChildrenInv'
<1> USE ChildrenAssumption DEF Kids, ReapEnds, stop_signal_set, supervisor_signal_set, Zombies
<1>1. ASSUME NEW k \in Monitors, ReapOne(k)
      PROVE  ChildrenInv'
  BY <1>1 DEF ChildrenInv, TypeOK, LockHeld, InHand, Registered, WorkerFirst, NothingOwed, ReapOne
<1>2. CASE SigWait
  BY <1>2 DEF ChildrenInv, TypeOK, LockHeld, InHand, Registered, WorkerFirst, NothingOwed, SigWait
<1>3. CASE ReapLock
  BY <1>3 DEF ChildrenInv, TypeOK, LockHeld, InHand, Registered, WorkerFirst, NothingOwed, ReapLock
<1>4. CASE ReapFinished
  BY <1>4 DEF ChildrenInv, TypeOK, LockHeld, InHand, Registered, WorkerFirst, NothingOwed, ReapFinished
<1>5. CASE ReapNone
  BY <1>5 DEF ChildrenInv, TypeOK, LockHeld, InHand, Registered, WorkerFirst, NothingOwed, ReapNone
<1>6. CASE Decide
  <2>1. CASE worker.got = "chld"
    BY <1>6, <2>1 DEF ChildrenInv, TypeOK, LockHeld, InHand, Registered, WorkerFirst, NothingOwed, Decide
  <2>2. CASE worker.got # "chld"
    BY <1>6, <2>2 DEF ChildrenInv, TypeOK, LockHeld, InHand, Registered, WorkerFirst, NothingOwed, Decide
  <2> QED
    BY <2>1, <2>2
<1>7. CASE ReapError
  BY <1>7 DEF ChildrenInv, TypeOK, LockHeld, InHand, Registered, WorkerFirst, NothingOwed, ReapError
<1> QED
  BY <1>1, <1>2, <1>3, <1>4, <1>5, <1>6, <1>7 DEF WorkerNext

(* The steps of everybody else.                                            *)
LEMMA OthersKeep ==
  ASSUME ChildrenInv, (\E k \in Kids : Exit(k) \/ OtherStarts(k) \/ OtherReaped(k)) \/ TermSignal
  PROVE  ChildrenInv'
<1> USE ChildrenAssumption DEF Kids, Blocked, stop_signal_set, supervisor_signal_set, Zombies
<1>1. ASSUME NEW k \in Kids, Exit(k)
      PROVE  ChildrenInv'
  BY <1>1 DEF ChildrenInv, TypeOK, LockHeld, InHand, Registered, WorkerFirst, NothingOwed, Exit
<1>2. ASSUME NEW k \in Kids, OtherStarts(k)
      PROVE  ChildrenInv'
  BY <1>2 DEF ChildrenInv, TypeOK, LockHeld, InHand, Registered, WorkerFirst, NothingOwed, OtherStarts
<1>3. ASSUME NEW k \in Kids, OtherReaped(k)
      PROVE  ChildrenInv'
  BY <1>3 DEF ChildrenInv, TypeOK, LockHeld, InHand, Registered, WorkerFirst, NothingOwed, OtherReaped
<1>4. CASE TermSignal
  BY <1>4 DEF ChildrenInv, TypeOK, LockHeld, InHand, Registered, WorkerFirst, NothingOwed, TermSignal
<1> QED
  BY <1>1, <1>2, <1>3, <1>4

(* When the signal worker sleeps and no SIGCHLD is pending, no monitor is  *)
(* left to reap, however many were started and whatever other children     *)
(* the process has (children.rs:20, reap_ready).                           *)
THEOREM NoExitMissedHolds == ChildrenSpec => []NoExitMissed
<1>1. ChildrenInit => ChildrenInv
  <2> SUFFICES ASSUME ChildrenInit
               PROVE  ChildrenInv
    OBVIOUS
  <2> USE ChildrenAssumption DEF ChildrenInit, Kids
  <2>1. TypeOK
    BY DEF TypeOK, stop_signal_set, supervisor_signal_set
  <2>2. LockHeld /\ InHand
    BY DEF LockHeld, InHand
  <2>3. Registered /\ WorkerFirst /\ NothingOwed
    BY DEF Registered, WorkerFirst, NothingOwed
  <2> QED
    BY <2>1, <2>2, <2>3 DEF ChildrenInv
<1>2. ChildrenInv /\ [ChildrenNext]_childrenVars => ChildrenInv'
  <2> SUFFICES ASSUME ChildrenInv, [ChildrenNext]_childrenVars
               PROVE  ChildrenInv'
    OBVIOUS
  <2>1. CASE ChildrenNext
    BY <2>1, MainKeeps, WorkerKeeps, OthersKeep DEF ChildrenNext
  <2>2. CASE UNCHANGED childrenVars
    BY <2>2 DEF childrenVars, ChildrenInv, TypeOK, LockHeld, InHand, Registered, WorkerFirst, NothingOwed, Zombies
  <2> QED
    BY <2>1, <2>2
<1>3. ChildrenInv => NoExitMissed
  BY DEF ChildrenInv, NothingOwed, NoExitMissed
<1> QED
  BY <1>1, <1>2, <1>3, PTL DEF ChildrenSpec

===============================================================================
