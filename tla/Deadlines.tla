------------------------------- MODULE Deadlines -------------------------------
(***************************************************************************)
(* What the supervisor expects of its deadline heap: a map from jobs to    *)
(* deadlines, from which the due jobs are taken in the order of their      *)
(* deadlines, and of their ids where those are equal.                      *)
(***************************************************************************)
EXTENDS Integers, Sequences

CONSTANTS
  Ids,      \* job ids, which are ordered
  Instants  \* deadlines

VARIABLES
  due,      \* the deadline of each job, or None
  result,   \* what the last operation returned
  popping   \* up to when the due jobs are being taken, or None

None == -1

Init ==
  /\ due = [j \in Ids |-> None]
  /\ result = <<>>
  /\ popping = None

(* A later deadline replaces an earlier one and the other way round.       *)
Upsert(j, d) ==
  /\ popping = None
  /\ due' = [due EXCEPT ![j] = d]
  /\ result' = <<>>
  /\ UNCHANGED popping

Remove(j) ==
  /\ popping = None
  /\ due' = [due EXCEPT ![j] = None]
  /\ result' = IF due[j] = None THEN <<>> ELSE <<j>>
  /\ UNCHANGED popping

PopDue(now) ==
  /\ popping = None
  /\ popping' = now
  /\ result' = <<>>
  /\ UNCHANGED due

Due(now) == {j \in Ids : due[j] # None /\ due[j] <= now}

InOrder(j, k) ==
  \/ due[j] < due[k]
  \/ due[j] = due[k] /\ j < k

(* The first of the due jobs is taken.                                     *)
Take(j) ==
  /\ popping # None
  /\ j \in Due(popping)
  /\ \A k \in Due(popping) \ {j} : InOrder(j, k)
  /\ due' = [due EXCEPT ![j] = None]
  /\ result' = Append(result, j)
  /\ UNCHANGED popping

(* Nothing that is due is left behind.                                     *)
AllTaken ==
  /\ popping # None
  /\ Due(popping) = {}
  /\ popping' = None
  /\ UNCHANGED <<due, result>>

Next ==
  \/ \E j \in Ids : Remove(j) \/ Take(j) \/ \E d \in Instants : Upsert(j, d)
  \/ \E now \in Instants : PopDue(now)
  \/ AllTaken

Spec == Init /\ [][Next]_<<due, result, popping>>

===============================================================================
