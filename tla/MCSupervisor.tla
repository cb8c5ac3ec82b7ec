----------------------------- MODULE MCSupervisor -----------------------------
(* The threads of one supervisor: the loop and the IPC thread at work, or  *)
(* the main thread with the worker that reaps its children.  The two pairs *)
(* share no state, so that one of them is looked at at a time; strays      *)
(* connect where nobody sends a wake again.                                *)
EXTENDS MCSupervisorLoop, MonitorChildren

VARIABLE load

ThreadsInit == Init /\ ChildrenInit /\ load \in {"strays", "again", "children"}

InLoop(step) == load # "children" /\ step /\ UNCHANGED <<childrenVars, load>>

InChildren(step) == load = "children" /\ step /\ UNCHANGED <<vars, load>>

Within ==
  IF load = "again" THEN ~ StrayConnects ELSE \A j \in Jobs : sends'[j] <= 1

ThreadsNext == InLoop(Next /\ Within) \/ InChildren(ChildrenNext)

(* The fairness of FairSpec and of ChildrenFairSpec.                       *)
ThreadsSpec ==
  /\ ThreadsInit /\ [][ThreadsNext]_<<vars, childrenVars, load>>
  /\ WF_vars(InLoop(Ipc))
  /\ WF_vars(InLoop(Loop))
  /\ \A j \in Jobs : WF_vars(InLoop(Elapse(j)))
  /\ WF_childrenVars(InChildren(MainNext))
  /\ WF_childrenVars(InChildren(WorkerNext))
  /\ SF_childrenVars(InChildren(ReapLock))

===============================================================================
