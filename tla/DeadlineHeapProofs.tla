-------------------------- MODULE DeadlineHeapProofs --------------------------
(***************************************************************************)
(* DeadlineHeap implements Deadlines, for any set of jobs and any          *)
(* instants.  Between two turns of a loop the vector is in heap order but  *)
(* for the entry that is being moved; when the loop is over the first      *)
(* entry comes before all others, by the least position that would         *)
(* contradict it.                                                          *)
(***************************************************************************)
EXTENDS DeadlineHeap, SequenceTheorems, WellFoundedInduction, TLAPS

Entry == [due : Instants, job_id : Ids]

HeapTypes ==
  /\ entries \in Seq(Entry)
  /\ positions \in [Ids -> Nat]
  /\ way \in {"none", "up", "down"}
  /\ index \in Nat
  /\ popping \in Instants \union {None}

-------------------------------------------------------------------------------
(* The order of the entries.                                               *)
NotAfter(a, b) == ~comes_before(b, a)

LEMMA EntryFields ==
  ASSUME NEW a \in Entry
  PROVE  a.due \in Nat /\ a.job_id \in Nat
BY HeapAssumption DEF Entry

(* Not coming after is reflexive and transitive, and of two entries one    *)
(* does not come after the other.                                          *)
LEMMA NotAfterReflexive ==
  ASSUME NEW a \in Entry
  PROVE  NotAfter(a, a)
BY EntryFields DEF NotAfter, comes_before

LEMMA NotAfterTransitive ==
  ASSUME NEW a \in Entry, NEW b \in Entry, NEW c \in Entry, NotAfter(a, b), NotAfter(b, c)
  PROVE  NotAfter(a, c)
BY EntryFields DEF NotAfter, comes_before

LEMMA BeforeIsNotAfter ==
  ASSUME NEW a \in Entry, NEW b \in Entry, comes_before(a, b)
  PROVE  NotAfter(a, b)
BY EntryFields DEF NotAfter, comes_before

(* Where parents and children are.                                         *)
LEMMA ParentBelow ==
  ASSUME NEW i \in Nat, i > 1
  PROVE  parent(i) \in Nat /\ parent(i) > 0 /\ parent(i) < i
BY DEF parent

LEMMA ChildrenOf ==
  ASSUME NEW i \in Nat, NEW x \in Nat
  PROVE  parent(i) = x <=> i = 2 * x \/ i = 2 * x + 1
BY DEF parent

-------------------------------------------------------------------------------
(* Heap order, with and without the entry at x: on its way up x may come   *)
(* before its parent, on its way down after its children; either way its   *)
(* children do not come before its parent.                                 *)
Ordered(es) == \A i \in 2 .. Len(es) : NotAfter(es[parent(i)], es[i])

OrderedAbove(es, x) == \A i \in 2 .. Len(es) : i # x => NotAfter(es[parent(i)], es[i])

OrderedBelow(es, x) == \A i \in 2 .. Len(es) : parent(i) # x => NotAfter(es[parent(i)], es[i])

Bypassed(es, x) ==
  x > 1 => \A i \in 2 .. Len(es) : parent(i) = x => NotAfter(es[parent(x)], es[i])

Swapped(es, fs, i, k) ==
  /\ Len(fs) = Len(es)
  /\ fs[i] = es[k] /\ fs[k] = es[i]
  /\ \A m \in 1 .. Len(es) : m # i /\ m # k => fs[m] = es[m]

ChangedAt(es, fs, x) ==
  /\ Len(fs) = Len(es)
  /\ \A m \in 1 .. Len(es) : m # x => fs[m] = es[m]

(* A turn of sift_up moves the exception to the parent.                    *)
LEMMA TurnUp ==
  ASSUME NEW es \in Seq(Entry), NEW fs \in Seq(Entry), NEW x \in 2 .. Len(es),
         comes_before(es[x], es[parent(x)]), Swapped(es, fs, x, parent(x)),
         OrderedAbove(es, x), Bypassed(es, x)
  PROVE  OrderedAbove(fs, parent(x)) /\ Bypassed(fs, parent(x))
<1> DEFINE p == parent(x)
<1>1. p \in 1 .. Len(es) /\ p < x
  BY ParentBelow
<1>2. \A i \in 1 .. Len(es) : es[i] \in Entry
  BY ElementOfSeq
<1>3. NotAfter(es[x], es[p])
  BY <1>1, <1>2, BeforeIsNotAfter
<1>4. \A i \in 2 .. Len(es) : parent(i) \in 1 .. Len(es) /\ parent(i) < i
  BY ParentBelow
<1> HIDE DEF p
<1>5. OrderedAbove(fs, p)
  <2> SUFFICES ASSUME NEW i \in 2 .. Len(es), i # p
               PROVE  NotAfter(fs[parent(i)], fs[i])
    BY DEF OrderedAbove, Swapped
  <2>1. CASE i = x
    BY <2>1, <1>3 DEF Swapped, p
  <2>2. CASE i # x /\ parent(i) = x
    <3>1. NotAfter(es[p], es[i])
      BY <2>2, <1>1 DEF Bypassed, p
    <3> QED BY <3>1, <2>2 DEF Swapped, p
  <2>3. CASE i # x /\ parent(i) = p
    <3>1. NotAfter(es[p], es[i])
      BY <2>3 DEF OrderedAbove
    <3>2. NotAfter(es[x], es[i])
      BY <3>1, <1>1, <1>2, <1>3, NotAfterTransitive
    <3> QED BY <3>2, <2>3 DEF Swapped, p
  <2>4. CASE i # x /\ parent(i) # x /\ parent(i) # p
    BY <2>4, <1>4 DEF Swapped, OrderedAbove, p
  <2> QED BY <2>1, <2>2, <2>3, <2>4
<1>6. Bypassed(fs, p)
  <2> SUFFICES ASSUME p > 1, NEW i \in 2 .. Len(es), parent(i) = p
               PROVE  NotAfter(fs[parent(p)], fs[i])
    BY DEF Bypassed, Swapped
  <2>1. parent(p) \in 1 .. Len(es) /\ parent(p) < p
    BY <1>1, ParentBelow
  <2>2. fs[parent(p)] = es[parent(p)]
    BY <2>1, <1>1 DEF Swapped, p
  <2>3. NotAfter(es[parent(p)], es[p])
    BY <1>1 DEF OrderedAbove
  <2>4. CASE i = x
    BY <2>2, <2>3, <2>4 DEF Swapped, p
  <2>5. CASE i # x
    <3>1. NotAfter(es[p], es[i])
      BY <2>5 DEF OrderedAbove
    <3>2. NotAfter(es[parent(p)], es[i])
      BY <3>1, <2>1, <2>3, <1>1, <1>2, NotAfterTransitive
    <3>3. i # p
      BY <1>4, <1>1
    <3> QED BY <3>2, <3>3, <2>2, <2>5 DEF Swapped, p
  <2> QED BY <2>4, <2>5
<1> QED BY <1>5, <1>6 DEF p

(* A turn of sift_down moves the exception to the child c that comes first.*)
LEMMA TurnDown ==
  ASSUME NEW es \in Seq(Entry), NEW fs \in Seq(Entry), NEW x \in 1 .. Len(es),
         NEW c \in 2 .. Len(es), parent(c) = x,
         \A i \in 2 .. Len(es) : parent(i) = x => NotAfter(es[c], es[i]),
         comes_before(es[c], es[x]), Swapped(es, fs, x, c),
         OrderedBelow(es, x), Bypassed(es, x)
  PROVE  OrderedBelow(fs, c) /\ Bypassed(fs, c)
<1>1. x < c
  BY ParentBelow
<1>2. \A i \in 1 .. Len(es) : es[i] \in Entry
  BY ElementOfSeq
<1>3. NotAfter(es[c], es[x])
  BY <1>1, <1>2, BeforeIsNotAfter
<1>4. \A i \in 2 .. Len(es) : parent(i) \in 1 .. Len(es) /\ parent(i) < i
  BY ParentBelow
<1>5. OrderedBelow(fs, c)
  <2> SUFFICES ASSUME NEW i \in 2 .. Len(es), parent(i) # c
               PROVE  NotAfter(fs[parent(i)], fs[i])
    BY DEF OrderedBelow, Swapped
  <2>1. CASE i = c
    BY <2>1, <1>3 DEF Swapped
  <2>2. CASE i # c /\ parent(i) = x
    <3>1. i # x
      BY <2>2, <1>4
    <3> QED BY <3>1, <2>2 DEF Swapped
  <2>3. CASE i = x
    <3>1. NotAfter(es[parent(x)], es[c])
      BY <2>3 DEF Bypassed
    <3>2. parent(x) # x /\ parent(x) \in 1 .. Len(es)
      BY <2>3, <1>4
    <3> QED BY <3>1, <3>2, <2>3 DEF Swapped
  <2>4. CASE i # c /\ i # x /\ parent(i) # x
    BY <2>4, <1>4 DEF Swapped, OrderedBelow
  <2> QED BY <2>1, <2>2, <2>3, <2>4
<1>6. Bypassed(fs, c)
  <2> SUFFICES ASSUME NEW i \in 2 .. Len(es), parent(i) = c
               PROVE  NotAfter(fs[x], fs[i])
    BY DEF Bypassed, Swapped
  <2>1. NotAfter(es[c], es[i])
    BY <1>1 DEF OrderedBelow
  <2>2. i # c /\ i # x
    BY <1>1, <1>4
  <2> QED BY <2>1, <2>2 DEF Swapped
<1> QED BY <1>5, <1>6

(* An entry of an ordered heap is changed: restore's test says which way   *)
(* the exception is.                                                       *)
LEMMA Change ==
  ASSUME NEW es \in Seq(Entry), NEW fs \in Seq(Entry), NEW x \in 1 .. Len(es),
         Ordered(es), ChangedAt(es, fs, x)
  PROVE  /\ x > 1 /\ comes_before(fs[x], fs[parent(x)]) => OrderedAbove(fs, x)
         /\ ~(x > 1 /\ comes_before(fs[x], fs[parent(x)])) => OrderedBelow(fs, x)
         /\ Bypassed(fs, x)
<1>1. \A i \in 2 .. Len(es) : parent(i) \in 1 .. Len(es) /\ parent(i) < i
  BY ParentBelow
<1>2. /\ \A i \in 1 .. Len(es) : es[i] \in Entry
      /\ \A i \in 1 .. Len(es) : fs[i] \in Entry
  BY ElementOfSeq DEF ChangedAt
<1>3. Bypassed(fs, x)
  <2> SUFFICES ASSUME x > 1, NEW i \in 2 .. Len(es), parent(i) = x
               PROVE  NotAfter(fs[parent(x)], fs[i])
    BY DEF Bypassed, ChangedAt
  <2>1. NotAfter(es[parent(x)], es[x]) /\ NotAfter(es[x], es[i])
    BY DEF Ordered
  <2>2. parent(x) \in 1 .. Len(es) /\ parent(x) # x /\ i # x
    BY <1>1
  <2>3. NotAfter(es[parent(x)], es[i])
    BY <2>1, <2>2, <1>2, NotAfterTransitive
  <2> QED BY <2>2, <2>3 DEF ChangedAt
<1>4. ASSUME x > 1, comes_before(fs[x], fs[parent(x)])
      PROVE  OrderedAbove(fs, x)
  <2> SUFFICES ASSUME NEW i \in 2 .. Len(es), i # x
               PROVE  NotAfter(fs[parent(i)], fs[i])
    BY DEF OrderedAbove, ChangedAt
  <2>1. CASE parent(i) = x
    <3>1. NotAfter(fs[parent(x)], fs[i])
      BY <1>3, <1>4, <2>1 DEF Bypassed, ChangedAt
    <3>2. parent(x) \in 1 .. Len(es)
      BY <1>1, <1>4
    <3>3. NotAfter(fs[x], fs[parent(x)])
      BY <1>2, <1>4, <3>2, BeforeIsNotAfter
    <3> QED BY <3>1, <3>2, <3>3, <1>2, <2>1, NotAfterTransitive
  <2>2. CASE parent(i) # x
    BY <2>2, <1>1 DEF Ordered, ChangedAt
  <2> QED BY <2>1, <2>2
<1>5. ASSUME ~(x > 1 /\ comes_before(fs[x], fs[parent(x)]))
      PROVE  OrderedBelow(fs, x)
  <2> SUFFICES ASSUME NEW i \in 2 .. Len(es), parent(i) # x
               PROVE  NotAfter(fs[parent(i)], fs[i])
    BY DEF OrderedBelow, ChangedAt
  <2>1. CASE i = x
    BY <2>1, <1>5 DEF NotAfter
  <2>2. CASE i # x
    BY <2>2, <1>1 DEF Ordered, ChangedAt
  <2> QED BY <2>1, <2>2
<1> QED BY <1>3, <1>4, <1>5

(* A set of naturals has a least element, which is how a fact about all    *)
(* positions is shown from parent to child.                                *)
LEMMA Least ==
  ASSUME NEW T \in SUBSET Nat, T # {}
  PROVE  \E x \in T : \A y \in T : x <= y
<1>1. PICK x \in T : \A y \in T : ~(<<y, x>> \in OpToRel(<, Nat))
  BY NatLessThanWellFounded, WFMin, Zenon
<1>2. ASSUME NEW y \in T, <<y, x>> \notin OpToRel(<, Nat)
      PROVE  ~(y < x)
  BY <1>2, Zenon DEF OpToRel
<1>3. \A y \in T : ~(y < x)
  BY <1>1, <1>2, Zenon
<1> QED BY <1>3

(* Of an ordered heap the first entry comes first.                         *)
LEMMA RootFirst ==
  ASSUME NEW es \in Seq(Entry), Ordered(es)
  PROVE  \A i \in 1 .. Len(es) : NotAfter(es[1], es[i])
<1> DEFINE T == {i \in 1 .. Len(es) : ~NotAfter(es[1], es[i])}
<1> SUFFICES ASSUME T # {} PROVE FALSE
  BY Zenon
<1>0. T \in SUBSET Nat
  OBVIOUS
<1> HIDE DEF T
<1>1. PICK x \in T : \A y \in T : x <= y
  BY <1>0, Least, Zenon
<1> USE DEF T
<1>2. \A i \in 1 .. Len(es) : es[i] \in Entry
  BY ElementOfSeq
<1>3. x > 1
  BY <1>2, NotAfterReflexive
<1>4. parent(x) \in 1 .. Len(es) /\ parent(x) < x
  BY <1>3, ParentBelow
<1>5. NotAfter(es[1], es[parent(x)])
  BY <1>1, <1>4
<1>6. NotAfter(es[parent(x)], es[x])
  BY <1>3 DEF Ordered
<1> QED BY <1>2, <1>4, <1>5, <1>6, NotAfterTransitive

-------------------------------------------------------------------------------
(* The index and the vector, without their order.                          *)
Exact == HeapTypes /\ PositionsAgree

(* Where an entry is, its job is indexed, and no other job is.             *)
LEMMA ExactFacts ==
  ASSUME Exact
  PROVE  /\ Len(entries) \in Nat
         /\ DOMAIN entries = 1 .. Len(entries)
         /\ \A i \in 1 .. Len(entries) :
              /\ entries[i] \in Entry
              /\ entries[i].job_id \in Ids
              /\ entries[i].due \in Instants
              /\ positions[entries[i].job_id] = i
         /\ \A j \in Ids : positions[j] # 0 =>
              positions[j] \in 1 .. Len(entries) /\ entries[positions[j]].job_id = j
<1>1. Len(entries) \in Nat /\ DOMAIN entries = 1 .. Len(entries)
  BY LenProperties DEF Exact, HeapTypes
<1>2. \A i \in 1 .. Len(entries) : entries[i] \in Entry
  BY ElementOfSeq DEF Exact, HeapTypes
<1>3. \A i \in 1 .. Len(entries) : entries[i].job_id \in Ids /\ entries[i].due \in Instants
  BY <1>2 DEF Entry
<1> QED BY <1>1, <1>2, <1>3 DEF Exact, PositionsAgree

(* The index stays exact when two entries are swapped, and no deadline     *)
(* changes.                                                                *)
LEMMA SwapExact ==
  ASSUME Exact, NEW i \in 1 .. Len(entries), NEW k \in 1 .. Len(entries), i # k, swap(i, k)
  PROVE  /\ entries' \in Seq(Entry) /\ positions' \in [Ids -> Nat]
         /\ Swapped(entries, entries', i, k)
         /\ PositionsAgree'
         /\ DueOf' = DueOf
<1>1. /\ Len(entries) \in Nat
      /\ \A m \in 1 .. Len(entries) :
           entries[m] \in Entry /\ entries[m].job_id \in Ids /\ positions[entries[m].job_id] = m
      /\ \A j \in Ids : positions[j] # 0 =>
           positions[j] \in 1 .. Len(entries) /\ entries[positions[j]].job_id = j
  BY ExactFacts
<1>2. entries \in Seq(Entry) /\ positions \in [Ids -> Nat]
  BY DEF Exact, HeapTypes
<1> DEFINE once == [entries EXCEPT ![i] = entries[k]]
<1>3. /\ once \in Seq(Entry) /\ Len(once) = Len(entries)
      /\ \A m \in 1 .. Len(entries) : once[m] = IF m = i THEN entries[k] ELSE entries[m]
  BY <1>1, <1>2, ExceptSeq
<1>4. entries' = [once EXCEPT ![k] = entries[i]]
  BY DEF swap
<1> HIDE DEF once
<1>5. /\ entries' \in Seq(Entry) /\ Len(entries') = Len(entries)
      /\ \A m \in 1 .. Len(entries) : entries'[m] = IF m = k THEN entries[i] ELSE once[m]
  BY <1>1, <1>3, <1>4, ExceptSeq
<1>6. Swapped(entries, entries', i, k)
  BY <1>3, <1>5 DEF Swapped
<1>7. DOMAIN entries' = 1 .. Len(entries)
  BY <1>5, LenProperties
<1>8. /\ positions' \in [Ids -> Nat]
      /\ positions'[entries[k].job_id] = i /\ positions'[entries[i].job_id] = k
      /\ \A j \in Ids : j # entries[k].job_id /\ j # entries[i].job_id => positions'[j] = positions[j]
  BY <1>1, <1>2 DEF swap
<1>9. \A m \in 1 .. Len(entries) : positions'[entries'[m].job_id] = m
  BY <1>1, <1>6, <1>8 DEF Swapped
<1>10. \A j \in Ids : positions[j] = 0 => positions'[j] = 0
  BY <1>1, <1>8
<1>11. \A j \in Ids : positions[j] # 0 =>
         positions'[j] \in 1 .. Len(entries) /\ entries'[positions'[j]] = entries[positions[j]]
  BY <1>1, <1>6, <1>8 DEF Swapped
<1>12. PositionsAgree'
  BY <1>1, <1>7, <1>9, <1>10, <1>11 DEF PositionsAgree
<1>13. DueOf' = DueOf
  BY <1>10, <1>11 DEF DueOf
<1> QED BY <1>5, <1>6, <1>8, <1>12, <1>13

(* So it does when a job is appended,                                      *)
LEMMA InsertExact ==
  ASSUME Exact, NEW j \in Ids, NEW d \in Instants, Insert(j, d)
  PROVE  /\ entries' \in Seq(Entry) /\ positions' \in [Ids -> Nat]
         /\ Len(entries') = Len(entries) + 1
         /\ \A m \in 1 .. Len(entries) : entries'[m] = entries[m]
         /\ PositionsAgree'
         /\ DueOf' = [DueOf EXCEPT ![j] = d]
<1>1. /\ Len(entries) \in Nat
      /\ \A m \in 1 .. Len(entries) :
           entries[m] \in Entry /\ entries[m].job_id \in Ids /\ positions[entries[m].job_id] = m
      /\ \A k \in Ids : positions[k] # 0 =>
           positions[k] \in 1 .. Len(entries) /\ entries[positions[k]].job_id = k
  BY ExactFacts
<1>2. entries \in Seq(Entry) /\ positions \in [Ids -> Nat]
  BY DEF Exact, HeapTypes
<1> DEFINE e == [due |-> d, job_id |-> j]
<1>3. e \in Entry /\ e.due = d /\ e.job_id = j
  BY DEF Entry
<1>4. entries' = Append(entries, e) /\ positions' = [positions EXCEPT ![j] = Len(entries) + 1]
  BY DEF Insert
<1> HIDE DEF e
<1>5. /\ entries' \in Seq(Entry) /\ Len(entries') = Len(entries) + 1
      /\ entries'[Len(entries) + 1] = e
      /\ \A m \in 1 .. Len(entries) : entries'[m] = entries[m]
  BY <1>2, <1>3, <1>4, AppendProperties
<1>6. DOMAIN entries' = 1 .. Len(entries) + 1
  BY <1>5, LenProperties
<1>7. /\ positions' \in [Ids -> Nat] /\ positions'[j] = Len(entries) + 1
      /\ \A k \in Ids : k # j => positions'[k] = positions[k]
  BY <1>1, <1>2, <1>4
<1>8. positions[j] = 0
  BY DEF Insert
<1>9. PositionsAgree'
  <2>1. \A m \in 1 .. Len(entries) + 1 : positions'[entries'[m].job_id] = m
    BY <1>1, <1>3, <1>5, <1>7, <1>8
  <2>2. \A k \in Ids : positions'[k] # 0 =>
          positions'[k] \in 1 .. Len(entries) + 1 /\ entries'[positions'[k]].job_id = k
    BY <1>1, <1>3, <1>5, <1>7
  <2> QED BY <2>1, <2>2, <1>6 DEF PositionsAgree
<1>10. \A k \in Ids : DueOf'[k] = IF k = j THEN d ELSE DueOf[k]
  BY <1>1, <1>3, <1>5, <1>7 DEF DueOf
<1>11. DueOf' = [DueOf EXCEPT ![j] = d]
  BY <1>10 DEF DueOf
<1> QED BY <1>5, <1>7, <1>9, <1>11

(* when the deadline of a job is changed in place,                         *)
LEMMA UpdateExact ==
  ASSUME Exact, NEW j \in Ids, NEW d \in Instants, Update(j, d)
  PROVE  /\ entries' \in Seq(Entry) /\ positions' = positions
         /\ positions[j] \in 1 .. Len(entries)
         /\ ChangedAt(entries, entries', positions[j])
         /\ PositionsAgree'
         /\ DueOf' = [DueOf EXCEPT ![j] = d]
<1>1. /\ Len(entries) \in Nat
      /\ \A m \in 1 .. Len(entries) :
           entries[m] \in Entry /\ entries[m].job_id \in Ids /\ positions[entries[m].job_id] = m
      /\ \A k \in Ids : positions[k] # 0 =>
           positions[k] \in 1 .. Len(entries) /\ entries[positions[k]].job_id = k
  BY ExactFacts
<1>2. entries \in Seq(Entry) /\ positions \in [Ids -> Nat]
  BY DEF Exact, HeapTypes
<1> DEFINE x == positions[j]
           e == [entries[x] EXCEPT !.due = d]
<1>3. x \in 1 .. Len(entries) /\ positions' = positions
  BY <1>1 DEF Update
<1>4. e \in Entry /\ e.due = d /\ e.job_id = j
  BY <1>1, <1>3 DEF Entry, Update
<1>5. entries' = [entries EXCEPT ![x] = e]
  BY DEF Update
<1> HIDE DEF x, e
<1>6. /\ entries' \in Seq(Entry) /\ Len(entries') = Len(entries)
      /\ \A m \in 1 .. Len(entries) : entries'[m] = IF m = x THEN e ELSE entries[m]
  BY <1>2, <1>3, <1>4, <1>5, ExceptSeq
<1>7. DOMAIN entries' = 1 .. Len(entries)
  BY <1>6, LenProperties
<1>8. PositionsAgree'
  <2>1. \A m \in 1 .. Len(entries) : positions[entries'[m].job_id] = m
    BY <1>1, <1>3, <1>4, <1>6 DEF x
  <2>2. \A k \in Ids : positions[k] # 0 =>
          positions[k] \in 1 .. Len(entries) /\ entries'[positions[k]].job_id = k
    BY <1>1, <1>3, <1>4, <1>6 DEF x
  <2> QED BY <2>1, <2>2, <1>3, <1>7 DEF PositionsAgree
<1>9. \A k \in Ids : DueOf'[k] = IF k = j THEN d ELSE DueOf[k]
  <2> SUFFICES ASSUME NEW k \in Ids
               PROVE  DueOf'[k] = IF k = j THEN d ELSE DueOf[k]
    OBVIOUS
  <2>1. CASE k = j
    BY <2>1, <1>1, <1>3, <1>4, <1>6 DEF DueOf, x
  <2>2. CASE k # j
    <3>1. positions[k] # x
      BY <2>2, <1>1, <1>3 DEF x
    <3> QED BY <2>2, <3>1, <1>1, <1>3, <1>6 DEF DueOf
  <2> QED BY <2>1, <2>2
<1>10. DueOf' = [DueOf EXCEPT ![j] = d]
  BY <1>9 DEF DueOf
<1> QED BY <1>3, <1>6, <1>8, <1>10 DEF ChangedAt, x

Front == SubSeq(entries, 1, Len(entries) - 1)

LEMMA FrontFacts ==
  ASSUME entries \in Seq(Entry), Len(entries) > 0
  PROVE  /\ Front \in Seq(Entry) /\ Len(Front) = Len(entries) - 1
         /\ \A m \in 1 .. Len(entries) - 1 : Front[m] = entries[m]
<1>1. Len(entries) \in Nat /\ \A m \in 1 .. Len(entries) - 1 : entries[m] \in Entry
  BY LenProperties, ElementOfSeq
<1> DEFINE n == Len(entries) - 1
<1>2. n \in Int /\ n >= 0 /\ \A m \in 1 .. n : entries[m] \in Entry
  BY <1>1
<1> HIDE DEF n
<1>3. /\ SubSeq(entries, 1, n) \in Seq(Entry)
      /\ Len(SubSeq(entries, 1, n)) = IF 1 <= n THEN n - 1 + 1 ELSE 0
      /\ \A m \in 1 .. n - 1 + 1 : SubSeq(entries, 1, n)[m] = entries[1 + m - 1]
  BY <1>2, SubSeqProperties, SMT
<1>4. /\ SubSeq(entries, 1, n) \in Seq(Entry) /\ Len(SubSeq(entries, 1, n)) = n
      /\ \A m \in 1 .. n : SubSeq(entries, 1, n)[m] = entries[m]
  BY <1>2, <1>3
<1> QED BY <1>4 DEF Front, n

(* and when a job is removed, whether or not it is the last.               *)
LEMMA DropLastExact ==
  ASSUME Exact, NEW j \in Ids, positions[j] # 0, positions[j] = Len(entries), DropLast(j)
  PROVE  /\ entries' = Front /\ positions' \in [Ids -> Nat]
         /\ PositionsAgree'
         /\ DueOf' = [DueOf EXCEPT ![j] = None]
<1>1. /\ Len(entries) \in Nat
      /\ \A m \in 1 .. Len(entries) :
           entries[m] \in Entry /\ entries[m].job_id \in Ids /\ positions[entries[m].job_id] = m
      /\ \A k \in Ids : positions[k] # 0 =>
           positions[k] \in 1 .. Len(entries) /\ entries[positions[k]].job_id = k
  BY ExactFacts
<1>2. entries \in Seq(Entry) /\ positions \in [Ids -> Nat]
  BY DEF Exact, HeapTypes
<1>3. /\ entries' = Front
      /\ Front \in Seq(Entry) /\ Len(Front) = Len(entries) - 1
      /\ \A m \in 1 .. Len(entries) - 1 : Front[m] = entries[m]
  BY <1>1, <1>2, FrontFacts DEF DropLast, Front
<1>4. DOMAIN entries' = 1 .. Len(entries) - 1
  BY <1>3, LenProperties
<1>5. /\ positions' \in [Ids -> Nat] /\ positions'[j] = 0
      /\ \A k \in Ids : k # j => positions'[k] = positions[k]
  BY <1>2 DEF DropLast
<1>6. PositionsAgree'
  <2>1. \A m \in 1 .. Len(entries) - 1 : positions'[entries'[m].job_id] = m
    BY <1>1, <1>3, <1>5
  <2>2. \A k \in Ids : positions'[k] # 0 =>
          positions'[k] \in 1 .. Len(entries) - 1 /\ entries'[positions'[k]].job_id = k
    BY <1>1, <1>3, <1>5
  <2> QED BY <2>1, <2>2, <1>4 DEF PositionsAgree
<1>7. \A k \in Ids : DueOf'[k] = IF k = j THEN None ELSE DueOf[k]
  BY <1>1, <1>3, <1>5 DEF DueOf
<1>8. DueOf' = [DueOf EXCEPT ![j] = None]
  BY <1>7 DEF DueOf
<1> QED BY <1>3, <1>5, <1>6, <1>8

LEMMA ReplaceExact ==
  ASSUME Exact, NEW j \in Ids, positions[j] # 0, positions[j] # Len(entries),
         Replace(j, entries[Len(entries)])
  PROVE  /\ entries' \in Seq(Entry) /\ positions' \in [Ids -> Nat]
         /\ positions[j] \in 1 .. Len(Front)
         /\ ChangedAt(Front, entries', positions[j])
         /\ PositionsAgree'
         /\ DueOf' = [DueOf EXCEPT ![j] = None]
<1>1. /\ Len(entries) \in Nat
      /\ \A m \in 1 .. Len(entries) :
           entries[m] \in Entry /\ entries[m].job_id \in Ids /\ positions[entries[m].job_id] = m
      /\ \A k \in Ids : positions[k] # 0 =>
           positions[k] \in 1 .. Len(entries) /\ entries[positions[k]].job_id = k
  BY ExactFacts
<1>2. entries \in Seq(Entry) /\ positions \in [Ids -> Nat]
  BY DEF Exact, HeapTypes
<1> DEFINE n == Len(entries)
           x == positions[j]
           last == entries[n]
<1>3. /\ Front \in Seq(Entry) /\ Len(Front) = n - 1
      /\ \A m \in 1 .. n - 1 : Front[m] = entries[m]
  BY <1>1, <1>2, FrontFacts
<1>4. x \in 1 .. n - 1 /\ last \in Entry /\ last.job_id \in Ids /\ last.job_id # j
  BY <1>1
<1>5. /\ entries' = [Front EXCEPT ![x] = last]
      /\ positions' = [positions EXCEPT ![j] = 0, ![last.job_id] = x]
  BY DEF Replace, Front
<1> HIDE DEF x, last
<1>6. /\ entries' \in Seq(Entry) /\ Len(entries') = n - 1
      /\ \A m \in 1 .. n - 1 : entries'[m] = IF m = x THEN last ELSE Front[m]
  BY <1>3, <1>4, <1>5, ExceptSeq
<1>7. DOMAIN entries' = 1 .. n - 1
  BY <1>6, LenProperties
<1>8. /\ positions' \in [Ids -> Nat] /\ positions'[j] = 0 /\ positions'[last.job_id] = x
      /\ \A k \in Ids : k # j /\ k # last.job_id => positions'[k] = positions[k]
  <2>1. x \in Nat
    BY <1>4
  <2> QED BY <2>1, <1>2, <1>4, <1>5
<1>9. PositionsAgree'
  <2>1. \A m \in 1 .. n - 1 : positions'[entries'[m].job_id] = m
    <3> SUFFICES ASSUME NEW m \in 1 .. n - 1 PROVE positions'[entries'[m].job_id] = m
      OBVIOUS
    <3>1. CASE m = x
      BY <3>1, <1>6, <1>8
    <3>2. CASE m # x
      <4>1. entries'[m] = entries[m] /\ entries[m].job_id \in Ids
        BY <3>2, <1>1, <1>3, <1>6
      <4>2. entries[m].job_id # j /\ entries[m].job_id # last.job_id
        BY <3>2, <1>1 DEF x, last
      <4> QED BY <4>1, <4>2, <1>1, <1>8
    <3> QED BY <3>1, <3>2
  <2>2. \A k \in Ids : positions'[k] # 0 =>
          positions'[k] \in 1 .. n - 1 /\ entries'[positions'[k]].job_id = k
    <3> SUFFICES ASSUME NEW k \in Ids, positions'[k] # 0
                 PROVE  positions'[k] \in 1 .. n - 1 /\ entries'[positions'[k]].job_id = k
      OBVIOUS
    <3>1. CASE k = last.job_id
      BY <3>1, <1>4, <1>6, <1>8
    <3>2. CASE k # last.job_id
      <4>1. k # j /\ positions'[k] = positions[k]
        BY <3>2, <1>8
      <4>2. positions[k] \in 1 .. n - 1 /\ positions[k] # x /\ entries[positions[k]].job_id = k
        BY <4>1, <3>2, <1>1 DEF x, last
      <4> QED BY <4>1, <4>2, <1>3, <1>6
    <3> QED BY <3>1, <3>2
  <2> QED BY <2>1, <2>2, <1>7 DEF PositionsAgree
<1>10. \A k \in Ids : DueOf'[k] = IF k = j THEN None ELSE DueOf[k]
  <2> SUFFICES ASSUME NEW k \in Ids
               PROVE  DueOf'[k] = IF k = j THEN None ELSE DueOf[k]
    OBVIOUS
  <2>1. CASE k = j
    BY <2>1, <1>8 DEF DueOf
  <2>2. CASE k = last.job_id
    <3>1. positions[k] = n /\ positions'[k] = x /\ entries'[x] = entries[n]
      BY <2>2, <1>1, <1>4, <1>6, <1>8 DEF last
    <3>2. n # 0 /\ x # 0 /\ k # j
      BY <1>4, <2>2
    <3> QED BY <3>1, <3>2 DEF DueOf
  <2>3. CASE k # j /\ k # last.job_id
    <3>1. positions'[k] = positions[k]
      BY <2>3, <1>8
    <3>2. ASSUME positions[k] # 0 PROVE entries'[positions[k]] = entries[positions[k]]
      <4>1. positions[k] \in 1 .. n - 1 /\ positions[k] # x
        BY <3>2, <2>3, <1>1 DEF x, last
      <4> QED BY <4>1, <1>3, <1>6
    <3> QED BY <2>3, <3>1, <3>2 DEF DueOf
  <2> QED BY <2>1, <2>2, <2>3
<1>11. DueOf' = [DueOf EXCEPT ![j] = None]
  BY <1>10 DEF DueOf
<1> QED BY <1>3, <1>4, <1>6, <1>8, <1>9, <1>11 DEF ChangedAt, x

-------------------------------------------------------------------------------
(* The inductive invariant.                                                *)
HeapOrder ==
  /\ way = "none" => Ordered(entries)
  /\ way # "none" => index \in 1 .. Len(entries) /\ Bypassed(entries, index)
  /\ way = "up" => OrderedAbove(entries, index)
  /\ way = "down" => OrderedBelow(entries, index)

HeapInv == HeapTypes /\ PositionsAgree /\ HeapOrder

LEMMA HeapStart == Init => HeapInv
<1> SUFFICES ASSUME Init PROVE HeapInv
  OBVIOUS
<1>1. entries \in Seq(Entry) /\ Len(entries) = 0 /\ DOMAIN entries = {}
  BY EmptySeq, LenProperties DEF Init
<1>2. HeapTypes
  BY <1>1 DEF HeapTypes, Init
<1>3. PositionsAgree
  BY <1>1 DEF PositionsAgree, Init
<1>4. HeapOrder
  BY <1>1 DEF HeapOrder, Ordered, Init
<1> QED BY <1>2, <1>3, <1>4 DEF HeapInv

(* restore after a change of an ordered heap.                              *)
LEMMA RestoreKeeps ==
  ASSUME NEW es \in Seq(Entry), entries' \in Seq(Entry), NEW x \in 1 .. Len(es),
         Ordered(es), ChangedAt(es, entries', x), restore(x)
  PROVE  HeapOrder' /\ way' \in {"none", "up", "down"} /\ index' \in Nat
<1>1. /\ x > 1 /\ comes_before(entries'[x], entries'[parent(x)]) => OrderedAbove(entries', x)
      /\ ~(x > 1 /\ comes_before(entries'[x], entries'[parent(x)])) => OrderedBelow(entries', x)
      /\ Bypassed(entries', x)
  BY Change
<1>2. index' = x /\ x \in 1 .. Len(entries') /\ x \in Nat
  BY DEF restore, ChangedAt
<1>3. CASE x > 1 /\ comes_before(entries'[x], entries'[parent(x)])
  <2>1. way' = "up"
    BY <1>3 DEF restore
  <2> QED BY <2>1, <1>1, <1>2, <1>3 DEF HeapOrder
<1>4. CASE ~(x > 1 /\ comes_before(entries'[x], entries'[parent(x)]))
  <2>1. way' = "down"
    BY <1>4 DEF restore
  <2> QED BY <2>1, <1>1, <1>2, <1>4 DEF HeapOrder
<1> QED BY <1>3, <1>4

(* A removal from an ordered heap.                                         *)
LEMMA RemoveKeeps ==
  ASSUME HeapInv, way = "none", NEW j \in Ids, positions[j] # 0, remove(j),
         popping' = popping
  PROVE  HeapInv' /\ DueOf' = [DueOf EXCEPT ![j] = None]
<1>1. Exact /\ Ordered(entries) /\ popping \in Instants \union {None} /\ entries \in Seq(Entry)
  BY DEF HeapInv, Exact, HeapOrder, HeapTypes
<1>2. Len(entries) \in Nat /\ Len(entries) > 0
  BY <1>1, ExactFacts
<1>3. /\ Front \in Seq(Entry) /\ Len(Front) = Len(entries) - 1
      /\ \A m \in 1 .. Len(entries) - 1 : Front[m] = entries[m]
  BY <1>1, <1>2, FrontFacts
<1>4. Ordered(Front)
  <2>1. \A i \in 2 .. Len(Front) : parent(i) \in 1 .. Len(Front)
    BY <1>2, <1>3, ParentBelow
  <2>2. \A i \in 2 .. Len(Front) :
          /\ i \in 2 .. Len(entries)
          /\ Front[i] = entries[i] /\ Front[parent(i)] = entries[parent(i)]
    BY <2>1, <1>2, <1>3
  <2> QED BY <2>2, <1>1 DEF Ordered
<1>5. CASE positions[j] = Len(entries)
  <2>1. DropLast(j)
    BY <1>5 DEF remove
  <2>2. /\ entries' = Front /\ positions' \in [Ids -> Nat]
        /\ PositionsAgree'
        /\ DueOf' = [DueOf EXCEPT ![j] = None]
    BY <2>1, <1>1, <1>5, DropLastExact
  <2>3. way' = "none" /\ index' = index /\ index \in Nat
    BY <2>1 DEF DropLast, HeapInv, HeapTypes
  <2>4. HeapTypes'
    BY <2>2, <2>3, <1>1, <1>3 DEF HeapTypes
  <2>5. HeapOrder'
    BY <2>2, <2>3, <1>4 DEF HeapOrder
  <2> QED BY <2>2, <2>4, <2>5 DEF HeapInv
<1>6. CASE positions[j] # Len(entries)
  <2>1. Replace(j, entries[Len(entries)])
    BY <1>6 DEF remove
  <2>2. /\ entries' \in Seq(Entry) /\ positions' \in [Ids -> Nat]
        /\ positions[j] \in 1 .. Len(Front)
        /\ ChangedAt(Front, entries', positions[j])
        /\ PositionsAgree'
        /\ DueOf' = [DueOf EXCEPT ![j] = None]
    BY <2>1, <1>1, <1>6, ReplaceExact
  <2>3. restore(positions[j])
    BY <2>1 DEF Replace
  <2>4. HeapOrder' /\ way' \in {"none", "up", "down"} /\ index' \in Nat
    BY <2>2, <2>3, <1>3, <1>4, RestoreKeeps
  <2>5. HeapTypes'
    BY <2>2, <2>4, <1>1 DEF HeapTypes
  <2> QED BY <2>2, <2>4, <2>5 DEF HeapInv
<1> QED BY <1>5, <1>6

(* The other operations, and the turns of the loops.                       *)
LEMMA InsertKeeps ==
  ASSUME HeapInv, NEW j \in Ids, NEW d \in Instants, Insert(j, d)
  PROVE  HeapInv' /\ DueOf' = [DueOf EXCEPT ![j] = d]
<1>1. Exact /\ Ordered(entries) /\ popping \in Instants \union {None}
  BY DEF HeapInv, Exact, HeapOrder, HeapTypes, Insert, Idle
<1>2. /\ entries' \in Seq(Entry) /\ positions' \in [Ids -> Nat]
      /\ Len(entries') = Len(entries) + 1
      /\ \A m \in 1 .. Len(entries) : entries'[m] = entries[m]
      /\ PositionsAgree'
      /\ DueOf' = [DueOf EXCEPT ![j] = d]
  BY <1>1, InsertExact
<1>3. Len(entries) \in Nat
  BY <1>1, ExactFacts
<1>4. way' = "up" /\ index' = Len(entries) + 1 /\ popping' = popping
  BY DEF Insert
<1>5. HeapTypes'
  BY <1>1, <1>2, <1>3, <1>4 DEF HeapTypes
<1>6. \A i \in 2 .. Len(entries) + 1 : parent(i) \in 1 .. Len(entries)
  BY <1>3, ParentBelow
<1>7. OrderedAbove(entries', index')
  <2> SUFFICES ASSUME NEW i \in 2 .. Len(entries) + 1, i # Len(entries) + 1
               PROVE  NotAfter(entries'[parent(i)], entries'[i])
    BY <1>2, <1>4 DEF OrderedAbove
  <2>1. i \in 2 .. Len(entries)
    BY <1>3
  <2> QED BY <2>1, <1>1, <1>2, <1>6 DEF Ordered
<1>8. Bypassed(entries', index')
  BY <1>2, <1>3, <1>4, <1>6 DEF Bypassed
<1>9. HeapOrder'
  BY <1>2, <1>3, <1>4, <1>7, <1>8 DEF HeapOrder
<1> QED BY <1>2, <1>5, <1>9 DEF HeapInv

LEMMA UpdateKeeps ==
  ASSUME HeapInv, NEW j \in Ids, NEW d \in Instants, Update(j, d)
  PROVE  HeapInv' /\ DueOf' = [DueOf EXCEPT ![j] = d]
<1>1. /\ Exact /\ Ordered(entries) /\ popping \in Instants \union {None}
      /\ entries \in Seq(Entry) /\ positions \in [Ids -> Nat]
  BY DEF HeapInv, Exact, HeapOrder, HeapTypes, Update, Idle
<1>2. /\ entries' \in Seq(Entry) /\ positions' = positions
      /\ positions[j] \in 1 .. Len(entries)
      /\ ChangedAt(entries, entries', positions[j])
      /\ PositionsAgree'
      /\ DueOf' = [DueOf EXCEPT ![j] = d]
  BY <1>1, UpdateExact
<1>3. restore(positions[j]) /\ popping' = popping
  BY DEF Update
<1>4. HeapOrder' /\ way' \in {"none", "up", "down"} /\ index' \in Nat
  BY <1>1, <1>2, <1>3, RestoreKeeps
<1>5. HeapTypes'
  BY <1>1, <1>2, <1>3, <1>4 DEF HeapTypes
<1> QED BY <1>2, <1>4, <1>5 DEF HeapInv

LEMMA SiftUpKeeps ==
  ASSUME HeapInv, sift_up
  PROVE  HeapInv' /\ DueOf' = DueOf
<1>1. /\ HeapTypes /\ PositionsAgree /\ Exact /\ entries \in Seq(Entry)
      /\ index \in 1 .. Len(entries) /\ Bypassed(entries, index) /\ OrderedAbove(entries, index)
      /\ way = "up" /\ popping' = popping
  BY DEF HeapInv, HeapOrder, HeapTypes, Exact, sift_up
<1>2. CASE Rises
  <2>1. swap(index, parent(index)) /\ index' = parent(index) /\ way' = way
    BY <1>2 DEF sift_up
  <2>2. /\ index \in 2 .. Len(entries)
        /\ parent(index) \in 1 .. Len(entries) /\ parent(index) # index
    BY <1>1, <1>2, ParentBelow DEF Rises
  <2>3. /\ entries' \in Seq(Entry) /\ positions' \in [Ids -> Nat]
        /\ Swapped(entries, entries', index, parent(index))
        /\ PositionsAgree'
        /\ DueOf' = DueOf
    BY <1>1, <2>1, <2>2, SwapExact
  <2>4. OrderedAbove(entries', parent(index)) /\ Bypassed(entries', parent(index))
    BY <1>1, <1>2, <2>2, <2>3, TurnUp DEF Rises
  <2>5. HeapTypes'
    BY <1>1, <2>1, <2>2, <2>3 DEF HeapTypes
  <2>6. HeapOrder'
    BY <1>1, <2>1, <2>2, <2>3, <2>4 DEF HeapOrder, Swapped
  <2> QED BY <2>3, <2>5, <2>6 DEF HeapInv
<1>3. CASE ~Rises
  <2>1. entries' = entries /\ positions' = positions /\ way' = "none" /\ index' = 0
    BY <1>3 DEF sift_up
  <2>2. Ordered(entries)
    BY <1>1, <1>3 DEF Ordered, OrderedAbove, Rises, NotAfter
  <2>3. HeapTypes'
    BY <1>1, <2>1 DEF HeapTypes
  <2>4. PositionsAgree' /\ DueOf' = DueOf
    BY <1>1, <2>1 DEF PositionsAgree, DueOf
  <2>5. HeapOrder'
    BY <2>1, <2>2 DEF HeapOrder
  <2> QED BY <2>3, <2>4, <2>5 DEF HeapInv
<1> QED BY <1>2, <1>3

(* child finds the first of the children.                                  *)
LEMMA ChildFirst ==
  ASSUME entries \in Seq(Entry), NEW x \in 1 .. Len(entries), 2 * x <= Len(entries)
  PROVE  /\ child(x) \in 2 .. Len(entries) /\ parent(child(x)) = x
         /\ \A i \in 2 .. Len(entries) : parent(i) = x => NotAfter(entries[child(x)], entries[i])
<1>1. Len(entries) \in Nat /\ \A i \in 1 .. Len(entries) : entries[i] \in Entry
  BY LenProperties, ElementOfSeq
<1>2. \A i \in 2 .. Len(entries) : parent(i) = x <=> i = 2 * x \/ i = 2 * x + 1
  BY <1>1, ChildrenOf
<1>3. CASE 2 * x + 1 <= Len(entries) /\ comes_before(entries[2 * x + 1], entries[2 * x])
  <2>1. child(x) = 2 * x + 1
    BY <1>3 DEF child
  <2>2. /\ NotAfter(entries[2 * x + 1], entries[2 * x])
        /\ NotAfter(entries[2 * x + 1], entries[2 * x + 1])
    BY <1>1, <1>3, BeforeIsNotAfter, NotAfterReflexive
  <2> QED BY <1>1, <1>2, <1>3, <2>1, <2>2
<1>4. CASE ~(2 * x + 1 <= Len(entries) /\ comes_before(entries[2 * x + 1], entries[2 * x]))
  <2>1. child(x) = 2 * x
    BY <1>4 DEF child
  <2>2. NotAfter(entries[2 * x], entries[2 * x])
    BY <1>1, NotAfterReflexive
  <2>3. 2 * x + 1 <= Len(entries) => NotAfter(entries[2 * x], entries[2 * x + 1])
    BY <1>4 DEF NotAfter
  <2> QED BY <1>1, <1>2, <2>1, <2>2, <2>3
<1> QED BY <1>3, <1>4

LEMMA SiftDownKeeps ==
  ASSUME HeapInv, sift_down
  PROVE  HeapInv' /\ DueOf' = DueOf
<1>1. /\ HeapTypes /\ PositionsAgree /\ Exact /\ entries \in Seq(Entry)
      /\ index \in 1 .. Len(entries) /\ Bypassed(entries, index) /\ OrderedBelow(entries, index)
      /\ way = "down" /\ popping' = popping
  BY DEF HeapInv, HeapOrder, HeapTypes, Exact, sift_down
<1>2. CASE Sinks
  <2> DEFINE c == child(index)
  <2>1. swap(index, c) /\ index' = c /\ way' = way
    BY <1>2 DEF sift_down
  <2>2. /\ c \in 2 .. Len(entries) /\ parent(c) = index
        /\ \A i \in 2 .. Len(entries) : parent(i) = index => NotAfter(entries[c], entries[i])
    BY <1>1, <1>2, ChildFirst DEF Sinks
  <2>3. comes_before(entries[c], entries[index])
    BY <1>2 DEF Sinks
  <2> HIDE DEF c
  <2>4. c # index /\ c \in 1 .. Len(entries)
    BY <2>2, ParentBelow
  <2>5. /\ entries' \in Seq(Entry) /\ positions' \in [Ids -> Nat]
        /\ Swapped(entries, entries', index, c)
        /\ PositionsAgree'
        /\ DueOf' = DueOf
    BY <1>1, <2>1, <2>4, SwapExact
  <2>6. OrderedBelow(entries', c) /\ Bypassed(entries', c)
    BY <1>1, <2>2, <2>3, <2>5, TurnDown
  <2>7. HeapTypes'
    BY <1>1, <2>1, <2>2, <2>5 DEF HeapTypes
  <2>8. HeapOrder'
    BY <1>1, <2>1, <2>4, <2>5, <2>6 DEF HeapOrder, Swapped
  <2> QED BY <2>5, <2>7, <2>8 DEF HeapInv
<1>3. CASE ~Sinks
  <2>1. entries' = entries /\ positions' = positions /\ way' = "none" /\ index' = 0
    BY <1>3 DEF sift_down
  <2>2. Ordered(entries)
    <3> SUFFICES ASSUME NEW i \in 2 .. Len(entries), parent(i) = index
                 PROVE  NotAfter(entries[index], entries[i])
      BY <1>1 DEF Ordered, OrderedBelow
    <3>1. 2 * index <= Len(entries)
      BY <1>1, ChildrenOf
    <3>2. /\ child(index) \in 2 .. Len(entries)
          /\ NotAfter(entries[child(index)], entries[i])
      BY <1>1, <3>1, ChildFirst
    <3>3. NotAfter(entries[index], entries[child(index)])
      BY <1>3, <3>1 DEF Sinks, NotAfter
    <3>4. \A m \in 1 .. Len(entries) : entries[m] \in Entry
      BY <1>1, ElementOfSeq
    <3> QED BY <1>1, <3>2, <3>3, <3>4, NotAfterTransitive
  <2>3. HeapTypes'
    BY <1>1, <2>1 DEF HeapTypes
  <2>4. PositionsAgree' /\ DueOf' = DueOf
    BY <1>1, <2>1 DEF PositionsAgree, DueOf
  <2>5. HeapOrder'
    BY <2>1, <2>2 DEF HeapOrder
  <2> QED BY <2>3, <2>4, <2>5 DEF HeapInv
<1> QED BY <1>2, <1>3

LEMMA PopFirstJob ==
  ASSUME HeapInv, way = "none", entries # <<>>
  PROVE  /\ Len(entries) > 0
         /\ entries[1].job_id \in Ids
         /\ positions[entries[1].job_id] = 1
<1>1. Exact /\ entries \in Seq(Entry)
  BY DEF HeapInv, Exact, HeapTypes
<1>2. Len(entries) \in Nat \ {0}
  BY <1>1, EmptySeq
<1> QED BY <1>1, <1>2, ExactFacts

LEMMA HeapStep == HeapInv /\ [Next]_vars => HeapInv'
<1> SUFFICES ASSUME HeapInv, [Next]_vars PROVE HeapInv'
  OBVIOUS
<1>1. ASSUME NEW j \in Ids, Remove(j) PROVE HeapInv'
  <2>1. way = "none" /\ positions[j] # 0 /\ remove(j) /\ popping' = popping
    BY <1>1 DEF Remove, Idle
  <2> QED BY <2>1, RemoveKeeps
<1>2. ASSUME NEW j \in Ids, RemoveNothing(j) PROVE HeapInv'
  BY <1>2 DEF RemoveNothing, HeapInv, HeapTypes, PositionsAgree, HeapOrder
<1>3. ASSUME NEW j \in Ids, NEW d \in Instants, Insert(j, d) PROVE HeapInv'
  BY <1>3, InsertKeeps
<1>4. ASSUME NEW j \in Ids, NEW d \in Instants, Update(j, d) PROVE HeapInv'
  BY <1>4, UpdateKeeps
<1>5. ASSUME NEW now \in Instants, PopDue(now) PROVE HeapInv'
  BY <1>5 DEF PopDue, HeapInv, HeapTypes, PositionsAgree, HeapOrder
<1>6. CASE PopFirst
  <2>1. /\ way = "none" /\ entries # <<>> /\ remove(entries[1].job_id) /\ popping' = popping
    BY <1>6 DEF PopFirst, FirstIsDue
  <2>2. entries[1].job_id \in Ids /\ positions[entries[1].job_id] # 0
    BY <2>1, PopFirstJob
  <2> QED BY <2>1, <2>2, RemoveKeeps
<1>7. CASE PopEnds
  BY <1>7 DEF PopEnds, HeapInv, HeapTypes, PositionsAgree, HeapOrder
<1>8. CASE sift_up
  BY <1>8, SiftUpKeeps
<1>9. CASE sift_down
  BY <1>9, SiftDownKeeps
<1>10. CASE UNCHANGED vars
  BY <1>10 DEF vars, HeapInv, HeapTypes, PositionsAgree, HeapOrder
<1> QED BY <1>1, <1>2, <1>3, <1>4, <1>5, <1>6, <1>7, <1>8, <1>9, <1>10 DEF Next

LEMMA HeapInvariant == Spec => []HeapInv
<1> QED BY HeapStart, HeapStep, PTL DEF Spec

-------------------------------------------------------------------------------
(* Every position in the index is that of the job it is the position of,   *)
(* for any jobs and instants and in the middle of every operation.         *)
THEOREM PositionsAgreeHolds == Spec => []PositionsAgree
<1>1. HeapInv => PositionsAgree
  BY DEF HeapInv
<1> QED BY <1>1, HeapInvariant, PTL

(* Between the operations, and when pop_due looks at it, the first entry   *)
(* has the earliest deadline.                                              *)
LEMMA FirstIsEarliest ==
  ASSUME HeapInv, way = "none", NEW i \in 1 .. Len(entries)
  PROVE  NotAfter(entries[1], entries[i]) /\ next_deadline <= entries[i].due
<1>1. entries \in Seq(Entry) /\ Ordered(entries)
  BY DEF HeapInv, HeapTypes, HeapOrder
<1>2. NotAfter(entries[1], entries[i])
  BY <1>1, RootFirst
<1>3. entries[1] \in Entry /\ entries[i] \in Entry
  BY <1>1, ElementOfSeq
<1>4. entries[1].due <= entries[i].due
  BY <1>2, <1>3, EntryFields DEF NotAfter, comes_before
<1> QED BY <1>2, <1>4 DEF next_deadline

(* The deadline until which the event loop sleeps is the earliest there    *)
(* is, for any jobs and instants.                                          *)
THEOREM NextIsEarliestHolds == Spec => []NextIsEarliest
<1>1. HeapInv => NextIsEarliest
  <2> SUFFICES ASSUME HeapInv, way = "none", NEW i \in DOMAIN entries
               PROVE  next_deadline <= entries[i].due
    BY DEF NextIsEarliest
  <2>1. i \in 1 .. Len(entries)
    BY LenProperties DEF HeapInv, HeapTypes
  <2> QED BY <2>1, FirstIsEarliest
<1> QED BY <1>1, HeapInvariant, PTL

-------------------------------------------------------------------------------
(* The refinement.                                                         *)
LEMMA AbstractStart == Init => Abstract!Init
BY DEF Init, Abstract!Init, Abstract!None, None, DueOf

(* Which jobs have a deadline, and where it is.                            *)
LEMMA DueFacts ==
  ASSUME HeapInv, NEW j \in Ids
  PROVE  /\ positions[j] = 0 => DueOf[j] = None
         /\ positions[j] # 0 =>
              /\ positions[j] \in 1 .. Len(entries)
              /\ entries[positions[j]] \in Entry
              /\ entries[positions[j]].job_id = j
              /\ DueOf[j] = entries[positions[j]].due
              /\ DueOf[j] \in Nat
<1>1. Exact
  BY DEF HeapInv, Exact
<1>2. positions[j] # 0 =>
        /\ positions[j] \in 1 .. Len(entries)
        /\ entries[positions[j]] \in Entry
        /\ entries[positions[j]].job_id = j
        /\ entries[positions[j]].due \in Nat
  BY <1>1, ExactFacts, EntryFields
<1> QED BY <1>2 DEF DueOf

(* What pop_due takes is the first of the due jobs.                        *)
LEMMA PopFirstTakes ==
  ASSUME HeapInv, PopFirst
  PROVE  Abstract!Take(entries[1].job_id) /\ entries[1].job_id \in Ids
<1> DEFINE j == entries[1].job_id
<1>1. /\ way = "none" /\ entries # <<>> /\ popping # None /\ next_deadline <= popping
      /\ remove(j) /\ result' = Append(result, j) /\ popping' = popping
  BY DEF PopFirst, FirstIsDue
<1>2. j \in Ids /\ positions[j] = 1
  BY <1>1, PopFirstJob
<1>3. DueOf' = [DueOf EXCEPT ![j] = None]
  BY <1>1, <1>2, RemoveKeeps
<1>4. DueOf[j] = entries[1].due /\ DueOf[j] \in Nat /\ entries[1] \in Entry
  BY <1>2, DueFacts
<1> HIDE DEF j
<1>5. j \in Abstract!Due(popping)
  BY <1>1, <1>2, <1>4 DEF Abstract!Due, Abstract!None, next_deadline
<1>6. \A k \in Abstract!Due(popping) \ {j} : Abstract!InOrder(j, k)
  <2> SUFFICES ASSUME NEW k \in Ids, k # j, DueOf[k] # None
               PROVE  Abstract!InOrder(j, k)
    BY DEF Abstract!Due, Abstract!None, None
  <2> DEFINE m == positions[k]
  <2>1. /\ m \in 1 .. Len(entries) /\ entries[m] \in Entry /\ entries[m].job_id = k
        /\ DueOf[k] = entries[m].due
    BY DueFacts
  <2> HIDE DEF m
  <2>2. NotAfter(entries[1], entries[m])
    BY <1>1, <2>1, FirstIsEarliest
  <2>3. DueOf[j] < DueOf[k] \/ (DueOf[j] = DueOf[k] /\ j < k)
    BY <2>1, <2>2, <1>4, EntryFields DEF NotAfter, comes_before, j
  <2> QED BY <2>3 DEF Abstract!InOrder
<1> QED BY <1>1, <1>2, <1>3, <1>5, <1>6 DEF Abstract!Take, Abstract!None, None, j

(* It stops when no job is due.                                            *)
LEMMA PopEndsTakesAll ==
  ASSUME HeapInv, PopEnds
  PROVE  Abstract!AllTaken
<1>1. /\ way = "none" /\ popping # None /\ ~FirstIsDue /\ popping' = None /\ result' = result
      /\ DueOf' = DueOf
  BY DEF PopEnds, DueOf
<1>2. Abstract!Due(popping) = {}
  <2> SUFFICES ASSUME NEW k \in Ids, DueOf[k] # None, DueOf[k] <= popping
               PROVE  FALSE
    BY DEF Abstract!Due, Abstract!None, None
  <2> DEFINE m == positions[k]
  <2>1. m \in 1 .. Len(entries) /\ DueOf[k] = entries[m].due /\ DueOf[k] \in Nat
    BY DueFacts
  <2> HIDE DEF m
  <2>2. entries \in Seq(Entry) /\ popping \in Instants
    BY <1>1 DEF HeapInv, HeapTypes
  <2>3. entries # <<>>
    BY <2>1, <2>2, EmptySeq
  <2>4. next_deadline <= entries[m].due
    BY <1>1, <2>1, FirstIsEarliest
  <2>5. entries[1] \in Entry /\ popping \in Nat
    BY <2>1, <2>2, ElementOfSeq, HeapAssumption
  <2>6. next_deadline \in Nat
    BY <2>5, EntryFields DEF next_deadline
  <2>7. next_deadline <= popping
    BY <2>1, <2>4, <2>5, <2>6
  <2> QED BY <1>1, <2>3, <2>7 DEF FirstIsDue
<1> QED BY <1>1, <1>2 DEF Abstract!AllTaken, Abstract!None, None

LEMMA AbstractStep ==
  HeapInv /\ [Next]_vars => [Abstract!Next]_<<DueOf, result, popping>>
<1> SUFFICES ASSUME HeapInv, [Next]_vars
             PROVE  Abstract!Next \/ UNCHANGED <<DueOf, result, popping>>
  OBVIOUS
<1>1. ASSUME NEW j \in Ids, Remove(j) PROVE Abstract!Remove(j)
  <2>1. /\ way = "none" /\ popping = None /\ positions[j] # 0 /\ remove(j)
        /\ popping' = popping /\ result' = <<j>>
    BY <1>1 DEF Remove, Idle
  <2>2. DueOf' = [DueOf EXCEPT ![j] = None]
    BY <2>1, RemoveKeeps
  <2>3. DueOf[j] # None
    BY <2>1, DueFacts DEF None
  <2> QED BY <2>1, <2>2, <2>3 DEF Abstract!Remove, Abstract!None, None
<1>2. ASSUME NEW j \in Ids, RemoveNothing(j) PROVE Abstract!Remove(j)
  <2>1. /\ popping = None /\ positions[j] = 0 /\ popping' = popping /\ result' = <<>>
        /\ DueOf' = DueOf
    BY <1>2 DEF RemoveNothing, Idle, DueOf
  <2>2. DueOf[j] = None
    BY <2>1, DueFacts
  <2>3. DueOf' = [DueOf EXCEPT ![j] = None]
    BY <2>1, <2>2 DEF DueOf
  <2> QED BY <2>1, <2>2, <2>3 DEF Abstract!Remove, Abstract!None, None
<1>3. ASSUME NEW j \in Ids, NEW d \in Instants, Insert(j, d) \/ Update(j, d)
      PROVE  Abstract!Upsert(j, d)
  <2>1. popping = None /\ popping' = popping /\ result' = <<>>
    BY <1>3 DEF Insert, Update, Idle
  <2>2. DueOf' = [DueOf EXCEPT ![j] = d]
    BY <1>3, InsertKeeps, UpdateKeeps
  <2> QED BY <2>1, <2>2 DEF Abstract!Upsert, Abstract!None, None
<1>4. ASSUME NEW now \in Instants, PopDue(now) PROVE Abstract!PopDue(now)
  BY <1>4 DEF PopDue, Idle, Abstract!PopDue, Abstract!None, None, DueOf
<1>5. CASE PopFirst
  BY <1>5, PopFirstTakes DEF Abstract!Next
<1>6. CASE PopEnds
  BY <1>6, PopEndsTakesAll DEF Abstract!Next
<1>7. CASE sift_up \/ sift_down
  <2>1. DueOf' = DueOf
    BY <1>7, SiftUpKeeps, SiftDownKeeps
  <2> QED BY <1>7, <2>1 DEF sift_up, sift_down
<1>8. CASE UNCHANGED vars
  BY <1>8 DEF vars, DueOf
<1>9. CASE \E j \in Ids : Remove(j) \/ RemoveNothing(j) \/ \E d \in Instants : Insert(j, d) \/ Update(j, d)
  BY <1>9, <1>1, <1>2, <1>3 DEF Abstract!Next
<1>10. CASE \E now \in Instants : PopDue(now)
  BY <1>10, <1>4 DEF Abstract!Next
<1> QED BY <1>5, <1>6, <1>7, <1>8, <1>9, <1>10 DEF Next

(* The heap implements the ordered map of deadlines: whatever was upserted *)
(* and removed before, pop_due returns exactly the due jobs in the order   *)
(* of deadline and id, and every other operation does what it says, for    *)
(* any jobs and instants.                                                  *)
THEOREM ImplementsDeadlinesHolds == Spec => ImplementsDeadlines
<1> QED
  BY HeapInvariant, AbstractStart, AbstractStep, PTL DEF Spec, ImplementsDeadlines, Abstract!Spec

===============================================================================
