------------------------------ MODULE DeadlineHeap ------------------------------
(***************************************************************************)
(* The deadline heap of the supervisor (src/supervisor/heap.rs): a binary  *)
(* heap in a vector, with an index from jobs to positions so that a job's  *)
(* deadline can be changed or removed in place.  It is shown to implement  *)
(* Deadlines.                                                              *)
(*                                                                         *)
(* Position i of the vector is i + 1 here.  An operation ends with a loop  *)
(* that sifts one entry; a turn of a loop is a step, and the next          *)
(* operation begins when the loops of the last are over.                   *)
(***************************************************************************)
EXTENDS Integers, Sequences

CONSTANTS Ids, Instants

ASSUME HeapAssumption == Ids \subseteq Nat /\ Instants \subseteq Nat

None == -1

VARIABLES
  entries,    \* the vector, of records [due, job_id]
  positions,  \* the index: where each job is, or 0
  way,        \* the loop that runs: "up", "down" or "none"
  index,      \* the entry that it moves
  popping,    \* now, in pop_due, or None
  result      \* what the last operation returned

vars == <<entries, positions, way, index, popping, result>>

Init ==
  /\ entries = <<>>
  /\ positions = [j \in Ids |-> 0]
  /\ way = "none"
  /\ index = 0
  /\ popping = None
  /\ result = <<>>

parent(i) == i \div 2

comes_before_DueOnly(left, right) == left.due < right.due

comes_before(left, right) ==
  \/ left.due < right.due
  \/ left.due = right.due /\ left.job_id < right.job_id

swap_EntriesOnly(i, k) ==
  /\ entries' = [entries EXCEPT ![i] = entries[k], ![k] = entries[i]]
  /\ UNCHANGED positions

swap(i, k) ==
  /\ entries' = [entries EXCEPT ![i] = entries[k], ![k] = entries[i]]
  /\ positions' = [positions EXCEPT ![entries[k].job_id] = i, ![entries[i].job_id] = k]

-------------------------------------------------------------------------------
(* The loops.                                                              *)
Rises == index > 1 /\ comes_before(entries[index], entries[parent(index)])

sift_up ==
  /\ way = "up"
  /\ \/ /\ Rises
        /\ swap(index, parent(index))
        /\ index' = parent(index)
        /\ UNCHANGED way
     \/ /\ ~Rises
        /\ way' = "none" /\ index' = 0
        /\ UNCHANGED <<entries, positions>>
  /\ UNCHANGED <<popping, result>>

(* The child that comes first.                                             *)
child(i) ==
  LET left  == 2 * i
      right == left + 1
  IN  IF right <= Len(entries) /\ comes_before(entries[right], entries[left])
      THEN right ELSE left

Sinks == 2 * index <= Len(entries) /\ comes_before(entries[child(index)], entries[index])

sift_down ==
  /\ way = "down"
  /\ \/ /\ Sinks
        /\ swap(index, child(index))
        /\ index' = child(index)
        /\ UNCHANGED way
     \/ /\ ~Sinks
        /\ way' = "none" /\ index' = 0
        /\ UNCHANGED <<entries, positions>>
  /\ UNCHANGED <<popping, result>>

(* Where an entry changed: up if it now comes before its parent, else down.*)
restore_DownOnly(i) == way' = "down" /\ index' = i

restore(i) ==
  /\ way' = IF i > 1 /\ comes_before(entries'[i], entries'[parent(i)]) THEN "up" ELSE "down"
  /\ index' = i

-------------------------------------------------------------------------------
(* The operations.                                                         *)
Idle == way = "none" /\ popping = None

Insert(j, d) ==
  /\ Idle
  /\ positions[j] = 0
  /\ entries' = Append(entries, [due |-> d, job_id |-> j])
  /\ positions' = [positions EXCEPT ![j] = Len(entries) + 1]
  /\ way' = "up"
  /\ index' = Len(entries) + 1
  /\ result' = <<>>
  /\ UNCHANGED popping

Update(j, d) ==
  /\ Idle
  /\ positions[j] # 0
  /\ entries' = [entries EXCEPT ![positions[j]].due = d]
  /\ restore(positions[j])
  /\ result' = <<>>
  /\ UNCHANGED <<positions, popping>>

DropLast(j) ==
  /\ entries' = SubSeq(entries, 1, Len(entries) - 1)
  /\ positions' = [positions EXCEPT ![j] = 0]
  /\ UNCHANGED <<way, index>>

(* The last entry takes the place of the removed one.                      *)
Replace(j, last) ==
  /\ entries' = [SubSeq(entries, 1, Len(entries) - 1) EXCEPT ![positions[j]] = last]
  /\ positions' = [positions EXCEPT ![j] = 0, ![last.job_id] = positions[j]]
  /\ restore(positions[j])

remove(j) ==
  IF positions[j] = Len(entries) THEN DropLast(j) ELSE Replace(j, entries[Len(entries)])

Remove(j) ==
  /\ Idle
  /\ positions[j] # 0
  /\ remove(j)
  /\ result' = <<j>>
  /\ UNCHANGED popping

RemoveNothing(j) ==
  /\ Idle
  /\ positions[j] = 0
  /\ result' = <<>>
  /\ UNCHANGED <<entries, positions, way, index, popping>>

next_deadline == entries[1].due

FirstIsDue == entries # <<>> /\ next_deadline <= popping

PopDue(now) ==
  /\ Idle
  /\ popping' = now
  /\ result' = <<>>
  /\ UNCHANGED <<entries, positions, way, index>>

PopFirst ==
  /\ way = "none" /\ popping # None
  /\ FirstIsDue
  /\ remove(entries[1].job_id)
  /\ result' = Append(result, entries[1].job_id)
  /\ UNCHANGED popping

PopEnds ==
  /\ way = "none" /\ popping # None
  /\ ~FirstIsDue
  /\ popping' = None
  /\ UNCHANGED <<entries, positions, way, index, result>>

Next ==
  \/ \E j \in Ids : Remove(j) \/ RemoveNothing(j) \/ \E d \in Instants : Insert(j, d) \/ Update(j, d)
  \/ \E now \in Instants : PopDue(now)
  \/ PopFirst \/ PopEnds
  \/ sift_up \/ sift_down

Spec == Init /\ [][Next]_vars

-------------------------------------------------------------------------------
(* The index is exact, also between two turns of a loop: it names every    *)
(* job of the vector, where it is, and no other; a stale position would    *)
(* change or remove another job.                                           *)
PositionsAgree ==
  /\ \A i \in DOMAIN entries : positions[entries[i].job_id] = i
  /\ \A j \in Ids : positions[j] # 0 =>
       positions[j] \in DOMAIN entries /\ entries[positions[j]].job_id = j

(* The loop sleeps until next_deadline: no deadline is earlier.            *)
NextIsEarliest ==
  way = "none" => \A i \in DOMAIN entries : next_deadline <= entries[i].due

(* The deadline of each job, found through the index.                      *)
DueOf == [j \in Ids |-> IF positions[j] # 0 THEN entries[positions[j]].due ELSE None]

Abstract == INSTANCE Deadlines WITH due <- DueOf

(* Every operation does to the deadlines what Deadlines says, and returns  *)
(* what it says, whatever changes and removals of entries deep in the heap *)
(* went before.                                                            *)
ImplementsDeadlines == Abstract!Spec

===============================================================================
