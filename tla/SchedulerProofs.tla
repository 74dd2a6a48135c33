-------------------------- MODULE SchedulerProofs --------------------------
(***************************************************************************)
(* Proofs about the scheduler and the process table, for every number of    *)
(* task ids, process ids, table slots and ticks in a quantum: the scheduler *)
(* uses nothing that was freed, a task runs in its own context, and the     *)
(* task list and the process table agree on what runs.                      *)
(*                                                                         *)
(* Everything the scheduler does is a function of its state sch; one lemma  *)
(* per function shows that it keeps Sound.  The process table enters only   *)
(* through Phase, the state in which it holds an id.                        *)
(***************************************************************************)
EXTENDS Scheduler, FiniteSetTheorems, WellFoundedInduction, TLAPS

----------------------------------------------------------------------------
(* The inductive invariant *)

Schedulers ==
  [ring : Seq(TaskIds), current : TaskIds,
   task : UNION {[T -> Task] : T \in SUBSET TaskIds},
   spaces : SUBSET ProcessIds, cr3 : 0 .. ProcessIdMax, tss : TaskIds,
   fpu : 0 .. TaskIdMax, broken : SUBSET TaskIds]

\* No task is in the list twice.
Once(ring) == \A i, j \in DOMAIN ring : ring[i] = ring[j] => i = j

Linked(sch) ==
  /\ Once(sch.ring)
  /\ InRing(sch) = DOMAIN sch.task
  /\ sch.current \in DOMAIN sch.task

\* A user task has an address space of its own, a kernel task none.
OwnSpaces(sch) ==
  /\ \A t \in DOMAIN sch.task :
       /\ sch.task[t].address_space = sch.task[t].app_process_id
       /\ sch.task[t].is_user <=> sch.task[t].app_process_id # 0
  /\ \A t, u \in DOMAIN sch.task :
       /\ sch.task[t].is_user /\ sch.task[u].is_user
       /\ sch.task[t].app_process_id = sch.task[u].app_process_id
       => t = u
  /\ \A a \in ProcessIds :
       a \in sch.spaces <=> \E t \in DOMAIN sch.task : sch.task[t].address_space = a

\* The registers kept for task t.
Kept(sch, t) ==
  sch.task[t].fpu_state = IF sch.task[t].pc = "entry" THEN ResetImage ELSE t

OwnContext(sch) ==
  /\ sch.cr3 = sch.task[sch.current].address_space
  /\ sch.tss = sch.current
  /\ sch.fpu = sch.current
  /\ \A t \in DOMAIN sch.task \ {sch.current} : Kept(sch, t)
  /\ sch.broken \subseteq {sch.current}
  /\ sch.task[sch.current].pc # "entry"

Sound(sch) == sch \in Schedulers /\ Linked(sch) /\ OwnSpaces(sch) /\ OwnContext(sch)

\* The table holds no id twice and is ahead of the ids it holds.
Tabled(p) ==
  /\ p \in [slots : [ProcessSlots -> Process], count : Int, next : 0 .. ProcessIdMax]
  /\ \A i \in UsedSlots(p) :
       /\ p.slots[i].process_id # 0
       /\ p.next # 0 => p.slots[i].process_id < p.next
  /\ \A i, j \in UsedSlots(p) : p.slots[i].process_id = p.slots[j].process_id => i = j

\* The state in which the table holds a process.
Phase(p, id) ==
  IF find_process(p, id) = 0 THEN "NONE" ELSE p.slots[find_process(p, id)].state

ReadyUser(sch, t) == sch.task[t].is_user /\ sch.task[t].state = "READY"

\* Ready user tasks and live processes correspond.
Matched(sch, p) ==
  /\ \A t \in DOMAIN sch.task : ReadyUser(sch, t) =>
       Phase(p, sch.task[t].app_process_id) =
         IF sch.task[t].pc = "user" THEN "RUNNING" ELSE "STARTING"
  /\ \A id \in ProcessIds : Phase(p, id) \in Live =>
       \E t \in DOMAIN sch.task : ReadyUser(sch, t) /\ sch.task[t].app_process_id = id

\* Only live processes own anything.
OwnersLive(owners, p) ==
  owners \subseteq ProcessIds /\ \A id \in owners : Phase(p, id) \in Live

\* The counters are ahead of the ids in use.
Ahead(sch, pid, next) ==
  /\ pid \in 0 .. TaskIdMax
  /\ pid # 0 => \A t \in DOMAIN sch.task : t < pid
  /\ next # 0 => \A t \in DOMAIN sch.task : sch.task[t].app_process_id < next

IInv ==
  /\ Sound(s)
  /\ Tabled(processes)
  /\ Matched(s, processes)
  /\ OwnersLive(services, processes)
  /\ Ahead(s, g_next_pid, processes.next)

----------------------------------------------------------------------------
(* The task list *)

\* A nonempty set of natural numbers has a least member.
LEMMA LeastOf ==
  ASSUME NEW S \in SUBSET Nat, S # {}
  PROVE  \E x \in S : \A y \in S : x <= y
<1> DEFINE R == {ss \in Nat \X Nat : ss[1] < ss[2]}
<1>1. IsWellFoundedOn(R, Nat)
  BY NatLessThanWellFounded, Zenon DEF OpToRel
<1>2. \A x, y \in Nat : <<y, x>> \in R <=> y < x
  OBVIOUS
<1> HIDE DEF R
<1>3. PICK x \in S : \A y \in S : ~ (<<y, x>> \in R)
  BY <1>1, WFMin
<1>4. \A y \in S : ~ (y < x)
  BY <1>2, <1>3
<1> QED
  BY <1>4

\* The members of a finite set of numbers are numbered from 1 on by the count of
\* the members up to each.
LEMMA Ranks ==
  ASSUME NEW n \in Nat, NEW K \in SUBSET (1 .. n)
  PROVE  /\ Cardinality(K) \in Nat
         /\ \A i \in K : Cardinality({j \in K : j <= i}) \in 1 .. Cardinality(K)
         /\ \A k \in 1 .. Cardinality(K) : \E i \in K : Cardinality({j \in K : j <= i}) = k
         /\ \A i, j \in K : i # j => Cardinality({m \in K : m <= i}) # Cardinality({m \in K : m <= j})
<1> DEFINE N == Cardinality(K)
           Upto(i) == {j \in K : j <= i}
           f == [i \in K |-> Cardinality(Upto(i))]
<1>1. IsFiniteSet(K) /\ N \in Nat
  <2>1. IsFiniteSet(1 .. n)
    BY FS_Interval
  <2>2. IsFiniteSet(K)
    BY <2>1, FS_Subset
  <2> QED
    BY <2>2, FS_CardinalityType
<1>2. ASSUME NEW i \in K
      PROVE  IsFiniteSet(Upto(i)) /\ Cardinality(Upto(i)) \in 1 .. N
  <2>1. Upto(i) \in SUBSET K /\ i \in Upto(i)
    OBVIOUS
  <2> HIDE DEF Upto
  <2>2. IsFiniteSet(Upto(i)) /\ Cardinality(Upto(i)) <= N
    BY <2>1, <1>1, FS_Subset
  <2>3. Cardinality(Upto(i)) \in Nat /\ Cardinality(Upto(i)) # 0
    BY <2>1, <2>2, FS_CardinalityType, FS_EmptySet
  <2> QED
    BY <2>2, <2>3, <1>1
<1>3. ASSUME NEW i \in K, NEW j \in K, i < j
      PROVE  Cardinality(Upto(i)) # Cardinality(Upto(j))
  <2>1. Upto(i) \in SUBSET Upto(j) /\ j \in Upto(j) /\ j \notin Upto(i)
    <3>1. i \in Int /\ j \in Int /\ \A m \in K : m \in Int
      OBVIOUS
    <3>2. \A m \in K : m <= i => m <= j
      BY <1>3, <3>1
    <3>3. ~ (j <= i) /\ j <= j
      BY <1>3, <3>1
    <3> QED
      BY <3>2, <3>3
  <2> HIDE DEF Upto
  <2>2. Upto(i) # Upto(j)
    BY <2>1
  <2> QED
    BY <2>1, <2>2, <1>2, FS_Subset
<1>4. \A i, j \in K : i # j => Cardinality(Upto(i)) # Cardinality(Upto(j))
  <2> SUFFICES ASSUME NEW i \in K, NEW j \in K, i # j
               PROVE  Cardinality(Upto(i)) # Cardinality(Upto(j))
    OBVIOUS
  <2>1. i < j \/ j < i
    OBVIOUS
  <2> QED
    BY <2>1, <1>3
<1>5. f \in Injection(K, 1 .. N)
  <2> HIDE DEF Upto
  <2>1. f \in [K -> 1 .. N] /\ \A i \in K : f[i] = Cardinality(Upto(i))
    BY <1>2
  <2> HIDE DEF f
  <2> QED
    BY <2>1, <1>4 DEF Injection, IsInjective
<1>6. IsFiniteSet(1 .. N) /\ Cardinality(1 .. N) = N
  BY <1>1, FS_Interval
<1>7. f \in Surjection(K, 1 .. N)
  <2> HIDE DEF f, N
  <2>1. Cardinality(K) = N
    BY DEF N
  <2> QED
    BY <1>5, <1>6, <2>1, FS_Injection
<1>8. \A k \in 1 .. N : \E i \in K : f[i] = k
  <2> HIDE DEF f, N
  <2> QED
    BY <1>7 DEF Surjection
<1>9. \A k \in 1 .. N : \E i \in K : Cardinality(Upto(i)) = k
  BY <1>8
<1> QED
  BY <1>1, <1>2, <1>4, <1>9

RingOf(ring) == {ring[i] : i \in DOMAIN ring}

\* Unlinking: what stays is in the list once, and nothing else is.
LEMMA Unlinks ==
  ASSUME NEW ring \in Seq(TaskIds), Once(ring), NEW gone
  PROVE  /\ Without(ring, gone) \in Seq(TaskIds)
         /\ Once(Without(ring, gone))
         /\ RingOf(Without(ring, gone)) = RingOf(ring) \ gone
<1> DEFINE K == {i \in DOMAIN ring : ring[i] \notin gone}
           N == Cardinality(K)
           Rank(i) == Cardinality({j \in K : j <= i})
           Nth(k) == CHOOSE i \in K : Rank(i) = k
           w == [k \in 1 .. N |-> ring[Nth(k)]]
<1>1. Without(ring, gone) = w
  BY DEF Without
<1>2. Len(ring) \in Nat /\ DOMAIN ring = 1 .. Len(ring) /\ K \in SUBSET (1 .. Len(ring))
  OBVIOUS
<1>3. \A i \in DOMAIN ring : ring[i] \in TaskIds
  OBVIOUS
<1>4. \A i \in K : i \in DOMAIN ring /\ ring[i] \notin gone
  OBVIOUS
<1>5. \A i \in DOMAIN ring : ring[i] \notin gone => i \in K
  OBVIOUS
<1> HIDE DEF K
<1>6. /\ N \in Nat
      /\ \A i \in K : Rank(i) \in 1 .. N
      /\ \A k \in 1 .. N : \E i \in K : Rank(i) = k
      /\ \A i, j \in K : i # j => Rank(i) # Rank(j)
  BY <1>2, Ranks
<1> HIDE DEF N, Rank
<1>7. \A k \in 1 .. N : Nth(k) \in K /\ Rank(Nth(k)) = k
  BY <1>6
<1>8. \A i \in K : Nth(Rank(i)) = i
  <2> SUFFICES ASSUME NEW i \in K PROVE Nth(Rank(i)) = i
    OBVIOUS
  <2>1. Rank(i) \in 1 .. N
    BY <1>6
  <2>2. Nth(Rank(i)) \in K /\ Rank(Nth(Rank(i))) = Rank(i)
    BY <2>1, <1>7
  <2> QED
    BY <2>2, <1>6
<1> HIDE DEF Nth
<1>9. w \in Seq(TaskIds) /\ DOMAIN w = 1 .. N /\ \A k \in 1 .. N : w[k] = ring[Nth(k)]
  <2>1. w \in [1 .. N -> TaskIds]
    BY <1>3, <1>4, <1>7
  <2> QED
    BY <2>1, <1>6
<1> HIDE DEF w
<1>10. Once(w)
  <2> SUFFICES ASSUME NEW k \in 1 .. N, NEW l \in 1 .. N, w[k] = w[l]
               PROVE  k = l
    BY <1>9 DEF Once
  <2>1. Nth(k) = Nth(l)
    BY <1>4, <1>7, <1>9 DEF Once
  <2> QED
    BY <2>1, <1>7
<1>11. ASSUME NEW x PROVE x \in RingOf(w) <=> x \in RingOf(ring) \ gone
  <2>1. ASSUME x \in RingOf(w) PROVE x \in RingOf(ring) \ gone
    <3>1. PICK k \in 1 .. N : x = w[k]
      BY <2>1, <1>9 DEF RingOf
    <3> QED
      BY <3>1, <1>4, <1>7, <1>9 DEF RingOf
  <2>2. ASSUME x \in RingOf(ring) \ gone PROVE x \in RingOf(w)
    <3>1. PICK i \in DOMAIN ring : x = ring[i] /\ ring[i] \notin gone
      BY <2>2 DEF RingOf
    <3>2. i \in K /\ Rank(i) \in 1 .. N
      BY <3>1, <1>5, <1>6
    <3>3. w[Rank(i)] = x
      BY <3>1, <3>2, <1>8, <1>9
    <3> QED
      BY <3>2, <3>3, <1>9 DEF RingOf
  <2> QED
    BY <2>1, <2>2
<1> QED
  BY <1>1, <1>9, <1>10, <1>11, Zenon

\* A new task goes into the list once.
LEMMA Links ==
  ASSUME NEW ring \in Seq(TaskIds), Once(ring), ring # <<>>,
         NEW id \in TaskIds, id \notin RingOf(ring)
  PROVE  LET w == <<Head(ring), id>> \o Tail(ring)
         IN  w \in Seq(TaskIds) /\ Once(w) /\ RingOf(w) = RingOf(ring) \cup {id}
<1> DEFINE w == <<Head(ring), id>> \o Tail(ring)
           n == Len(ring)
           Place(k) == IF k = 1 THEN 1 ELSE k - 1
<1>1. n \in Nat \ {0} /\ DOMAIN ring = 1 .. n
  OBVIOUS
<1>2. /\ w \in Seq(TaskIds) /\ Len(w) = n + 1 /\ DOMAIN w = 1 .. n + 1
  OBVIOUS
<1>3. w[2] = id /\ \A k \in 1 .. n + 1 : k # 2 => w[k] = ring[Place(k)] /\ Place(k) \in 1 .. n
  <2>1. w[1] = ring[1] /\ w[2] = id
    OBVIOUS
  <2>2. \A k \in 3 .. n + 1 : w[k] = ring[k - 1]
    OBVIOUS
  <2> QED
    BY <2>1, <2>2, <1>1
<1> HIDE DEF w, n
<1>4. \A i \in 1 .. n : ring[i] # id
  BY <1>1 DEF RingOf
<1>5. Once(w)
  <2> SUFFICES ASSUME NEW k \in 1 .. n + 1, NEW l \in 1 .. n + 1, w[k] = w[l]
               PROVE  k = l
    BY <1>2 DEF Once
  <2>1. CASE k = 2 \/ l = 2
    BY <2>1, <1>3, <1>4
  <2>2. CASE k # 2 /\ l # 2
    <3>1. /\ Place(k) \in 1 .. n /\ Place(l) \in 1 .. n
          /\ ring[Place(k)] = ring[Place(l)]
      BY <2>2, <1>3
    <3>2. Place(k) = Place(l)
      <4> HIDE DEF Place
      <4> QED
        BY <3>1, <1>1 DEF Once
    <3> QED
      BY <3>2, <2>2, <1>1
  <2> QED
    BY <2>1, <2>2
<1>6. ASSUME NEW x PROVE x \in RingOf(w) <=> x \in RingOf(ring) \cup {id}
  <2>1. ASSUME x \in RingOf(w) PROVE x \in RingOf(ring) \cup {id}
    <3>1. PICK k \in 1 .. n + 1 : x = w[k]
      BY <2>1, <1>2 DEF RingOf
    <3> HIDE DEF Place
    <3> QED
      BY <3>1, <1>1, <1>3 DEF RingOf
  <2>2. ASSUME x \in RingOf(ring) PROVE x \in RingOf(w)
    <3>1. PICK i \in 1 .. n : x = ring[i]
      BY <2>2, <1>1 DEF RingOf
    <3>2. CASE i = 1
      <4>1. w[1] = x /\ 1 \in 1 .. n + 1
        BY <3>1, <3>2, <1>1, <1>3
      <4> QED
        BY <4>1, <1>2 DEF RingOf
    <3>3. CASE i # 1
      <4>1. w[i + 1] = x /\ i + 1 \in 1 .. n + 1
        BY <3>1, <3>3, <1>1, <1>3
      <4> QED
        BY <4>1, <1>2 DEF RingOf
    <3> QED
      BY <3>2, <3>3
  <2>3. id \in RingOf(w)
    <3>1. 2 \in 1 .. n + 1
      BY <1>1
    <3> QED
      BY <3>1, <1>2, <1>3 DEF RingOf
  <2> QED
    BY <2>1, <2>2, <2>3
<1>7. RingOf(w) = RingOf(ring) \cup {id}
  BY <1>6, Zenon
<1> QED
  BY <1>2, <1>5, <1>7 DEF w

\* The task that runs next is in the list.
LEMMA NextIsLinked ==
  ASSUME NEW sch \in Schedulers, Linked(sch)
  PROVE  NextReady(sch) \in DOMAIN sch.task
<1> DEFINE n == Len(sch.ring)
           here == CHOOSE i \in DOMAIN sch.ring : sch.ring[i] = sch.current
           At(k) == ((here + k - 1) % n) + 1
           After(k) == sch.ring[At(k)]
           ready == {k \in 1 .. n - 1 : sch.task[After(k)].state = "READY"}
           best == CHOOSE k \in ready : \A j \in ready : k <= j
<1>1. sch.ring \in Seq(TaskIds) /\ n \in Nat /\ DOMAIN sch.ring = 1 .. n
  BY DEF Schedulers
<1>2. here \in 1 .. n
  <2>1. \E i \in DOMAIN sch.ring : sch.ring[i] = sch.current
    BY DEF Linked, InRing
  <2> QED
    BY <2>1, <1>1
<1> HIDE DEF here
<1>3. ready \in SUBSET (1 .. n - 1)
  OBVIOUS
<1>4. ASSUME NEW k \in 1 .. n - 1 PROVE At(k) \in 1 .. n
  <2>1. n \in Nat \ {0} /\ here + k - 1 \in Nat
    BY <1>1, <1>2
  <2> HIDE DEF n
  <2>2. \A a \in Nat : a % n \in 0 .. n - 1
    BY <2>1
  <2>3. (here + k - 1) % n \in 0 .. n - 1
    BY <2>1, <2>2
  <2> QED
    BY <2>1, <2>3
<1> HIDE DEF At
<1>5. CASE ready = {}
  BY <1>5 DEF NextReady, Linked, At, here
<1>6. CASE ready # {}
  <2>1. \E k \in ready : \A j \in ready : k <= j
    <3> HIDE DEF ready
    <3>1. ready \in SUBSET Nat
      BY <1>3, <1>1
    <3> QED
      BY <3>1, <1>6, LeastOf
  <2>2. best \in 1 .. n - 1
    <3> HIDE DEF ready
    <3> QED
      BY <2>1, <1>3
  <2>3. NextReady(sch) = After(best)
    BY <1>6 DEF NextReady, At, here
  <2> HIDE DEF best
  <2>4. sch.ring[At(best)] \in InRing(sch)
    BY <2>2, <1>1, <1>4 DEF InRing
  <2> QED
    BY <2>3, <2>4 DEF Linked
<1> QED
  BY <1>5, <1>6

----------------------------------------------------------------------------
(* What the scheduler's functions keep *)

\* Between u and v no ready user task came or went, and what the process table
\* knows of the tasks that stayed did not change.
Keeps(u, v) ==
  /\ DOMAIN v.task \subseteq DOMAIN u.task
  /\ \A t \in DOMAIN u.task \ DOMAIN v.task : ~ReadyUser(u, t)
  /\ \A t \in DOMAIN v.task :
       /\ ReadyUser(v, t) <=> ReadyUser(u, t)
       /\ v.task[t].app_process_id = u.task[t].app_process_id
       /\ v.task[t].pc = "user" <=> u.task[t].pc = "user"

LEMMA KeepsTransitive ==
  ASSUME NEW u, NEW v, NEW w, Keeps(u, v), Keeps(v, w)
  PROVE  Keeps(u, w)
BY DEF Keeps

LEMMA KeepsMatched ==
  ASSUME NEW u, NEW v, Keeps(u, v), NEW p, Matched(u, p)
  PROVE  Matched(v, p)
BY DEF Keeps, Matched

LEMMA KeepsAhead ==
  ASSUME NEW u, NEW v, Keeps(u, v), NEW pid, NEW next, Ahead(u, pid, next)
  PROVE  Ahead(v, pid, next)
BY DEF Keeps, Ahead

\* What is known of the task map of a scheduler state.
LEMMA TasksTyped ==
  ASSUME NEW sch \in Schedulers
  PROVE  /\ DOMAIN sch.task \subseteq TaskIds
         /\ sch.task \in [DOMAIN sch.task -> Task]
         /\ \A t \in DOMAIN sch.task : sch.task[t] \in Task
<1>1. sch.task \in UNION {[T -> Task] : T \in SUBSET TaskIds}
  BY DEF Schedulers
<1>2. PICK T \in SUBSET TaskIds : sch.task \in [T -> Task]
  BY <1>1, Zenon
<1> QED
  BY <1>2

\* v is sch with another Task structure for t.
Updated(v, sch, t, new) ==
  /\ v \in Schedulers
  /\ v.ring = sch.ring /\ v.current = sch.current /\ v.spaces = sch.spaces
  /\ v.cr3 = sch.cr3 /\ v.tss = sch.tss /\ v.fpu = sch.fpu /\ v.broken = sch.broken
  /\ DOMAIN v.task = DOMAIN sch.task
  /\ v.task[t] = new
  /\ \A u \in DOMAIN sch.task : u # t => v.task[u] = sch.task[u]

LEMMA Updates ==
  ASSUME NEW sch \in Schedulers, NEW t \in DOMAIN sch.task, NEW new \in Task
  PROVE  Updated(WithTask(sch, t, new), sch, t, new)
<1> DEFINE v == WithTask(sch, t, new)
           m == [sch.task EXCEPT ![t] = new]
<1>1. DOMAIN sch.task \in SUBSET TaskIds /\ sch.task \in [DOMAIN sch.task -> Task]
  BY TasksTyped
<1>2. m \in [DOMAIN sch.task -> Task]
  BY <1>1
<1>3. m \in UNION {[T -> Task] : T \in SUBSET TaskIds}
  <2> HIDE DEF m
  <2> QED
    BY <1>1, <1>2, Zenon
<1>4. v = [sch EXCEPT !.task = m]
  BY DEF WithTask, Schedulers
<1>5. m[t] = new /\ \A u \in DOMAIN sch.task : u # t => m[u] = sch.task[u]
  BY <1>1
<1> HIDE DEF m
<1>6. v \in Schedulers
  BY <1>3, <1>4 DEF Schedulers
<1>7. /\ v.ring = sch.ring /\ v.current = sch.current /\ v.spaces = sch.spaces
      /\ v.cr3 = sch.cr3 /\ v.tss = sch.tss /\ v.fpu = sch.fpu /\ v.broken = sch.broken
      /\ v.task = m
  BY <1>4 DEF Schedulers
<1> HIDE DEF v
<1>8. Updated(v, sch, t, new)
  BY <1>2, <1>5, <1>6, <1>7 DEF Updated
<1> QED
  BY <1>8 DEF v

\* new differs from old in nothing that the task's place in the list, its address
\* space or its registers depend on.
Alike(new, old) ==
  /\ new.is_user = old.is_user /\ new.address_space = old.address_space
  /\ new.app_process_id = old.app_process_id /\ new.fpu_state = old.fpu_state
  /\ new.pc = "entry" <=> old.pc = "entry"

LEMMA UpdateKeepsSound ==
  ASSUME NEW sch, Sound(sch), NEW t \in DOMAIN sch.task, NEW new \in Task,
         Alike(new, sch.task[t]), NEW v, Updated(v, sch, t, new)
  PROVE  Sound(v)
<1> USE DEF Sound
<1>1. /\ \A u \in DOMAIN sch.task : Alike(v.task[u], sch.task[u])
  BY DEF Updated, Alike
<1>2. Linked(v)
  BY DEF Updated, Linked, InRing
<1>3. OwnSpaces(v)
  BY <1>1 DEF Updated, OwnSpaces, Alike
<1>4. OwnContext(v)
  <2>1. \A u \in DOMAIN sch.task : Kept(sch, u) => Kept(v, u)
    BY <1>1 DEF Kept, Alike
  <2> QED
    BY <1>1, <2>1 DEF Updated, OwnContext, Alike, Linked
<1> QED
  BY <1>2, <1>3, <1>4 DEF Updated

\* reap_dead_tasks takes dead tasks out of the list with all that is theirs.
LEMMA ReapKeepsSound ==
  ASSUME NEW sch, Sound(sch), NEW v, v = reap_dead_tasks(sch)
  PROVE  Sound(v) /\ Keeps(sch, v) /\ v.current = sch.current /\ v.broken = sch.broken
<1> DEFINE dead == DeadTasks(sch)
           freed == {sch.task[t].address_space : t \in dead} \ {0}
           ring == Without(sch.ring, dead)
           stay == DOMAIN sch.task \ dead
           m == [t \in stay |-> sch.task[t]]
           spaces == sch.spaces \ freed
           cr3 == IF sch.cr3 \in freed THEN 0 ELSE sch.cr3
<1>1. CASE dead = {}
  <2>1. v = sch
    BY <1>1 DEF reap_dead_tasks
  <2> QED
    BY <2>1 DEF Keeps
<1>2. CASE dead # {}
  <2> USE DEF Sound
  <2>1. v = [sch EXCEPT !.ring = ring, !.task = m, !.spaces = spaces, !.cr3 = cr3]
    BY <1>2 DEF reap_dead_tasks, Schedulers
  <2>2. \A t \in dead : t \in DOMAIN sch.task /\ t # sch.current /\ sch.task[t].state = "DEAD"
    BY DEF DeadTasks, Linked
  <2>3. DOMAIN sch.task \in SUBSET TaskIds /\ \A t \in DOMAIN sch.task : sch.task[t] \in Task
    BY TasksTyped
  <2>4. ring \in Seq(TaskIds) /\ Once(ring) /\ RingOf(ring) = RingOf(sch.ring) \ dead
    <3>1. sch.ring \in Seq(TaskIds) /\ Once(sch.ring)
      BY DEF Schedulers, Linked
    <3> QED
      BY <3>1, Unlinks
  <2>5. m \in [stay -> Task] /\ stay \in SUBSET TaskIds /\ \A t \in stay : m[t] = sch.task[t]
    BY <2>3
  <2> HIDE DEF m, ring
  <2>6. m \in UNION {[T -> Task] : T \in SUBSET TaskIds} /\ DOMAIN m = stay
    BY <2>5, Zenon
  <2>7. \A a : a \in freed <=> a # 0 /\ \E t \in dead : a = sch.task[t].address_space
    OBVIOUS
  <2>8. sch.cr3 \notin freed
    BY <2>2, <2>7 DEF OwnContext, OwnSpaces, Linked
  <2> HIDE DEF dead, freed
  <2>9. cr3 = sch.cr3 /\ spaces \in SUBSET ProcessIds
    BY <2>8 DEF Schedulers
  <2> HIDE DEF spaces, cr3
  <2>10. /\ v \in Schedulers
         /\ v.ring = ring /\ v.task = m /\ v.spaces = spaces /\ v.cr3 = sch.cr3
         /\ v.current = sch.current /\ v.tss = sch.tss /\ v.fpu = sch.fpu
         /\ v.broken = sch.broken
    BY <2>1, <2>4, <2>6, <2>9 DEF Schedulers
  <2>11. \A t \in DOMAIN v.task : t \in DOMAIN sch.task /\ t \notin dead /\ v.task[t] = sch.task[t]
    BY <2>5, <2>6, <2>10
  <2>12. \A t \in DOMAIN sch.task : t \notin dead => t \in DOMAIN v.task
    BY <2>6, <2>10
  <2>13. Linked(v)
    <3>1. InRing(v) = RingOf(ring) /\ RingOf(sch.ring) = DOMAIN sch.task
      BY <2>10 DEF InRing, RingOf, Linked
    <3>2. InRing(v) = DOMAIN v.task
      BY <3>1, <2>4, <2>6, <2>10
    <3> QED
      BY <3>2, <2>2, <2>4, <2>10, <2>12 DEF Linked
  <2>14. OwnSpaces(v)
    <3>1. ASSUME NEW a \in ProcessIds
          PROVE  a \in v.spaces <=> \E t \in DOMAIN v.task : v.task[t].address_space = a
      <4>1. a # 0 /\ (a \in v.spaces <=> a \in sch.spaces /\ a \notin freed)
        BY <2>10, ProcessTableAssumption DEF spaces, ProcessIds
      <4>2. \A t, u \in DOMAIN sch.task :
              sch.task[t].address_space = a /\ sch.task[u].address_space = a => t = u
        BY <4>1 DEF OwnSpaces
      <4>3. a \in sch.spaces <=> \E t \in DOMAIN sch.task : sch.task[t].address_space = a
        BY DEF OwnSpaces
      <4> QED
        BY <4>1, <4>2, <4>3, <2>2, <2>7, <2>11, <2>12
    <3> QED
      BY <3>1, <2>11 DEF OwnSpaces
  <2>15. OwnContext(v)
    BY <2>2, <2>10, <2>11, <2>12 DEF OwnContext, Kept, Linked
  <2>16. Keeps(sch, v)
    BY <2>2, <2>11, <2>12 DEF Keeps, ReadyUser
  <2> QED
    BY <2>10, <2>13, <2>14, <2>15, <2>16
<1> QED
  BY <1>1, <1>2

\* The switch saves the registers of one task and takes up those of another.
LEMMA SwitchKeepsSound ==
  ASSUME NEW sch, Sound(sch), sch.broken = {}, NEW next \in DOMAIN sch.task,
         next # sch.current, NEW v, v = SwitchTo(sch, next)
  PROVE  Sound(v) /\ Keeps(sch, v)
<1> USE DEF Sound
<1> DEFINE c == sch.current
           from == [sch.task[c] EXCEPT !.fpu_state = sch.fpu]
           saved == save_task_fpu(sch)
           restored == restore_task_fpu(saved, next)
           left == [restored.task[c] EXCEPT !.quantum_ticks = 0]
           taken == Resumed(restored.task[next])
           m == [restored.task EXCEPT ![c] = left, ![next] = taken]
<1>1. /\ c \in DOMAIN sch.task /\ DOMAIN sch.task \in SUBSET TaskIds
      /\ sch.task \in [DOMAIN sch.task -> Task]
      /\ sch.task[c] \in Task /\ sch.task[next] \in Task
  BY TasksTyped DEF Linked
<1>2. 0 \in 0 .. SCHEDULER_USER_QUANTUM_TICKS /\ sch.fpu \in 0 .. TaskIdMax
  BY SchedulerAssumption DEF Schedulers
<1>3. from \in Task
  BY <1>1, <1>2 DEF Task
<1>4. Updated(saved, sch, c, from)
  <2>1. saved = WithTask(sch, c, from)
    BY DEF save_task_fpu, WithTask
  <2> HIDE DEF saved, from
  <2> QED
    BY <2>1, <1>1, <1>3, Updates
<1>5. /\ from.fpu_state = sch.fpu /\ from.pc = sch.task[c].pc
      /\ from.state = sch.task[c].state /\ from.is_user = sch.task[c].is_user
      /\ from.address_space = sch.task[c].address_space
      /\ from.app_process_id = sch.task[c].app_process_id
  BY <1>1 DEF Task
<1> HIDE DEF saved, from
<1>6. /\ saved \in Schedulers /\ saved.ring = sch.ring /\ saved.spaces = sch.spaces
      /\ saved.broken = sch.broken /\ DOMAIN saved.task = DOMAIN sch.task
      /\ saved.task[c] = from /\ \A t \in DOMAIN sch.task : t # c => saved.task[t] = sch.task[t]
  BY <1>4 DEF Updated
<1>7. Computed(saved.task[next].fpu_state, next) = next
  <2>1. Kept(sch, next)
    BY DEF OwnContext
  <2> QED
    BY <1>6, <2>1 DEF Computed, Kept
<1>8. /\ restored \in Schedulers /\ restored.ring = sch.ring /\ restored.spaces = sch.spaces
      /\ restored.broken = sch.broken /\ restored.fpu = next /\ restored.task = saved.task
  <2>1. restored = [saved EXCEPT !.fpu = next]
    BY <1>7 DEF restore_task_fpu
  <2>2. next \in 0 .. TaskIdMax
    BY <1>1, SchedulerAssumption DEF TaskIds
  <2> HIDE DEF restored
  <2> QED
    BY <2>1, <2>2, <1>6 DEF Schedulers
<1> HIDE DEF restored
<1>9. left \in Task /\ Alike(left, from) /\ left.state = from.state /\ left.pc = from.pc
  <2>1. restored.task[c] = from
    BY <1>6, <1>8
  <2> QED
    BY <2>1, <1>2, <1>3 DEF Alike, Task
<1>10. /\ taken \in Task
       /\ taken.is_user = sch.task[next].is_user /\ taken.state = sch.task[next].state
       /\ taken.address_space = sch.task[next].address_space
       /\ taken.app_process_id = sch.task[next].app_process_id
       /\ taken.pc = "user" <=> sch.task[next].pc = "user"
       /\ taken.pc # "entry"
  <2>1. restored.task[next] = sch.task[next]
    BY <1>6, <1>8
  <2> QED
    BY <2>1, <1>1, <1>2 DEF Resumed, Task, Pcs
<1> HIDE DEF left, taken
<1>11. /\ m \in [DOMAIN sch.task -> Task] /\ m[c] = left /\ m[next] = taken
       /\ \A t \in DOMAIN sch.task : t # c /\ t # next => m[t] = sch.task[t]
  <2>1. restored.task \in [DOMAIN sch.task -> Task]
    BY <1>6, <1>8, TasksTyped
  <2> QED
    BY <2>1, <1>1, <1>6, <1>8, <1>9, <1>10
<1>12. v = [restored EXCEPT !.current = next, !.task = m, !.tss = next,
                            !.cr3 = sch.task[next].address_space]
  BY DEF SwitchTo, saved, restored, left, taken
<1> HIDE DEF m
<1>13. m \in UNION {[T -> Task] : T \in SUBSET TaskIds} /\ DOMAIN m = DOMAIN sch.task
  BY <1>1, <1>11, Zenon
<1>14. next \in TaskIds /\ sch.task[next].address_space \in 0 .. ProcessIdMax
  BY <1>1 DEF Task
<1>15. /\ v \in Schedulers
       /\ v.ring = sch.ring /\ v.current = next /\ v.task = m /\ v.tss = next
       /\ v.cr3 = sch.task[next].address_space /\ v.fpu = next /\ v.spaces = sch.spaces
       /\ v.broken = {}
  BY <1>8, <1>12, <1>13, <1>14 DEF Schedulers
<1>16. \A t \in DOMAIN sch.task : /\ v.task[t].is_user = sch.task[t].is_user
                                  /\ v.task[t].state = sch.task[t].state
                                  /\ v.task[t].address_space = sch.task[t].address_space
                                  /\ v.task[t].app_process_id = sch.task[t].app_process_id
                                  /\ v.task[t].pc = "user" <=> sch.task[t].pc = "user"
  BY <1>5, <1>9, <1>10, <1>11, <1>15 DEF Alike
<1>17. Linked(v)
  BY <1>13, <1>15 DEF Linked, InRing
<1>18. OwnSpaces(v)
  BY <1>13, <1>15, <1>16 DEF OwnSpaces
<1>19. OwnContext(v)
  <2>1. ASSUME NEW t \in DOMAIN v.task \ {v.current} PROVE Kept(v, t)
    <3>1. CASE t = c
      <4>1. v.task[t].fpu_state = sch.fpu /\ v.task[t].pc = sch.task[c].pc
        BY <3>1, <1>5, <1>9, <1>11, <1>15 DEF Alike
      <4> QED
        BY <3>1, <4>1 DEF Kept, OwnContext
    <3>2. CASE t # c
      <4>1. v.task[t] = sch.task[t] /\ t \in DOMAIN sch.task
        BY <3>2, <1>11, <1>13, <1>15
      <4> QED
        BY <3>2, <4>1 DEF Kept, OwnContext
    <3> QED
      BY <3>1, <3>2
  <2>2. v.task[v.current].pc # "entry"
    BY <1>10, <1>11, <1>15
  <2> QED
    BY <2>1, <2>2, <1>15, <1>16 DEF OwnContext
<1>20. Keeps(sch, v)
  BY <1>13, <1>15, <1>16 DEF Keeps, ReadyUser
<1> QED
  BY <1>15, <1>17, <1>18, <1>19, <1>20

LEMMA SwitchedKeepsSound ==
  ASSUME NEW sch, Sound(sch), sch.broken = {}, NEW next \in DOMAIN sch.task,
         next # sch.current, NEW v, v = Switched(sch, next)
  PROVE  Sound(v) /\ Keeps(sch, v)
<1> DEFINE u == SwitchTo(sch, next)
<1>1. Sound(u) /\ Keeps(sch, u)
  BY SwitchKeepsSound
<1> HIDE DEF u
<1>2. v = u \/ v = reap_dead_tasks(u)
  BY DEF Switched, u
<1>3. CASE v = u
  BY <1>1, <1>3
<1>4. CASE v = reap_dead_tasks(u)
  <2>1. Sound(v) /\ Keeps(u, v)
    BY <1>1, <1>4, ReapKeepsSound
  <2> QED
    BY <2>1, <1>1, KeepsTransitive
<1> QED
  BY <1>2, <1>3, <1>4

\* schedule, wherever it is called from.
LEMMA ScheduleKeepsSound ==
  ASSUME NEW sch, Sound(sch), schedule(sch)
  PROVE  Sound(s') /\ Keeps(sch, s')
<1>1. CASE s' = sch
  BY <1>1 DEF Keeps
<1>2. CASE sch.current \notin sch.broken /\ Rescheduled(sch)
  <2> DEFINE reaped == reap_dead_tasks(sch)
             next == NextReady(reaped)
  <2>1. /\ Sound(reaped) /\ Keeps(sch, reaped)
        /\ reaped.current = sch.current /\ reaped.broken = sch.broken
    BY ReapKeepsSound
  <2>2. \/ s' = reaped
        \/ next # sch.current /\ s' = Switched(reaped, next)
    BY <1>2 DEF Rescheduled
  <2> HIDE DEF reaped
  <2>3. next \in DOMAIN reaped.task
    BY <2>1, NextIsLinked DEF Sound
  <2> HIDE DEF next
  <2>4. CASE s' = reaped
    BY <2>1, <2>4
  <2>5. CASE next # sch.current /\ s' = Switched(reaped, next)
    <3>1. reaped.broken = {}
      BY <1>2, <2>1 DEF Sound, OwnContext
    <3>2. Sound(s') /\ Keeps(reaped, s')
      BY <2>1, <2>3, <2>5, <3>1, SwitchedKeepsSound
    <3> QED
      BY <3>2, <2>1, KeepsTransitive
  <2> QED
    BY <2>2, <2>4, <2>5
<1> QED
  BY <1>1, <1>2 DEF schedule

\* v is sch with the new task id and these address spaces.
Grown(v, sch, id, new, spaces) ==
  /\ v \in Schedulers
  /\ v.ring = <<Head(sch.ring), id>> \o Tail(sch.ring)
  /\ v.current = sch.current /\ v.cr3 = sch.cr3 /\ v.tss = sch.tss
  /\ v.fpu = sch.fpu /\ v.broken = sch.broken /\ v.spaces = spaces
  /\ DOMAIN v.task = DOMAIN sch.task \cup {id}
  /\ v.task[id] = new
  /\ \A t \in DOMAIN sch.task : v.task[t] = sch.task[t]

LEMMA InsertGrows ==
  ASSUME NEW sch, Sound(sch), NEW id \in TaskIds, id \notin DOMAIN sch.task, NEW new \in Task,
         NEW a \in ProcessIds
  PROVE  /\ Grown(Inserted(sch, id, new), sch, id, new, sch.spaces)
         /\ Grown([Inserted(sch, id, new) EXCEPT !.spaces = @ \cup {a}],
                  sch, id, new, sch.spaces \cup {a})
<1> USE DEF Sound
<1> DEFINE ring == <<Head(sch.ring), id>> \o Tail(sch.ring)
           D == DOMAIN sch.task \cup {id}
           m == [t \in D |-> IF t = id THEN new ELSE sch.task[t]]
           v == Inserted(sch, id, new)
           more == sch.spaces \cup {a}
           w == [v EXCEPT !.spaces = @ \cup {a}]
<1>1. DOMAIN sch.task \in SUBSET TaskIds /\ \A t \in DOMAIN sch.task : sch.task[t] \in Task
  BY TasksTyped
<1>2. /\ m \in [D -> Task] /\ D \in SUBSET TaskIds /\ m[id] = new
      /\ \A t \in DOMAIN sch.task : m[t] = sch.task[t]
  BY <1>1
<1>3. v = [sch EXCEPT !.ring = ring, !.task = m]
  BY DEF Inserted
<1>4. ring \in Seq(TaskIds)
  <2>1. sch.ring \in Seq(TaskIds) /\ sch.ring # <<>>
    BY DEF Schedulers, Linked, InRing
  <2> QED
    BY <2>1
<1> HIDE DEF m, D, ring
<1>5. m \in UNION {[T -> Task] : T \in SUBSET TaskIds} /\ DOMAIN m = D
  BY <1>2, Zenon
<1>6. /\ v \in Schedulers /\ v.ring = ring /\ v.task = m
      /\ v.current = sch.current /\ v.cr3 = sch.cr3 /\ v.tss = sch.tss
      /\ v.fpu = sch.fpu /\ v.broken = sch.broken /\ v.spaces = sch.spaces
  BY <1>3, <1>4, <1>5 DEF Schedulers
<1> HIDE DEF v
<1>7. more \in SUBSET ProcessIds
  BY DEF Schedulers
<1>8. w = [v EXCEPT !.spaces = more]
  BY <1>6 DEF Schedulers
<1> HIDE DEF w, more
<1>9. /\ w \in Schedulers /\ w.ring = ring /\ w.task = m
      /\ w.current = sch.current /\ w.cr3 = sch.cr3 /\ w.tss = sch.tss
      /\ w.fpu = sch.fpu /\ w.broken = sch.broken /\ w.spaces = more
  BY <1>6, <1>7, <1>8 DEF Schedulers
<1>10. Grown(v, sch, id, new, sch.spaces) /\ Grown(w, sch, id, new, more)
  BY <1>2, <1>5, <1>6, <1>9 DEF Grown, D, ring
<1> QED
  BY <1>10 DEF v, w, more

\* What a new task looks like, and the address spaces there are once it is made.
Newborn(new, sch, spaces) ==
  /\ new.pc = "entry" /\ new.fpu_state = ResetImage
  /\ new.address_space = new.app_process_id
  /\ new.is_user <=> new.app_process_id # 0
  /\ \A t \in DOMAIN sch.task : new.is_user => sch.task[t].app_process_id # new.app_process_id
  /\ \A a \in ProcessIds : a \in spaces <=> a \in sch.spaces \/ a = new.app_process_id

LEMMA GrowthKeepsSound ==
  ASSUME NEW sch, Sound(sch), NEW id \in TaskIds, id \notin DOMAIN sch.task, NEW new \in Task,
         NEW spaces, Newborn(new, sch, spaces),
         NEW v, Grown(v, sch, id, new, spaces)
  PROVE  Sound(v)
<1> USE DEF Sound
<1>1. v \in Schedulers
  BY DEF Grown
<1>2. Linked(v)
  <2>1. /\ sch.ring \in Seq(TaskIds) /\ Once(sch.ring) /\ sch.ring # <<>>
        /\ RingOf(sch.ring) = DOMAIN sch.task
    BY DEF Schedulers, Linked, InRing, RingOf
  <2>2. Once(v.ring) /\ RingOf(v.ring) = RingOf(sch.ring) \cup {id}
    BY <2>1, Links DEF Grown
  <2>3. InRing(v) = RingOf(v.ring)
    BY DEF InRing, RingOf
  <2> QED
    BY <2>1, <2>2, <2>3 DEF Linked, Grown
<1>3. OwnSpaces(v)
  <2>1. ASSUME NEW t \in DOMAIN v.task, NEW u \in DOMAIN v.task,
               v.task[t].is_user, v.task[u].is_user,
               v.task[t].app_process_id = v.task[u].app_process_id
        PROVE  t = u
    BY <2>1 DEF OwnSpaces, Grown, Newborn
  <2>2. ASSUME NEW a \in ProcessIds
        PROVE  a \in v.spaces <=> \E t \in DOMAIN v.task : v.task[t].address_space = a
    BY DEF OwnSpaces, Grown, Newborn
  <2>3. ASSUME NEW t \in DOMAIN v.task
        PROVE  /\ v.task[t].address_space = v.task[t].app_process_id
               /\ v.task[t].is_user <=> v.task[t].app_process_id # 0
    BY DEF OwnSpaces, Grown, Newborn
  <2> QED
    BY <2>1, <2>2, <2>3 DEF OwnSpaces
<1>4. OwnContext(v)
  <2>1. Kept(v, id)
    BY DEF Kept, Grown, Newborn
  <2>2. \A t \in DOMAIN sch.task : Kept(sch, t) => Kept(v, t)
    BY DEF Kept, Grown
  <2> QED
    BY <2>1, <2>2 DEF OwnContext, Grown, Linked
<1> QED
  BY <1>1, <1>2, <1>3, <1>4

----------------------------------------------------------------------------
(* The process table *)

\* find_process finds the one slot that holds an id, and none when there is none.
LEMMA FindsSlot ==
  ASSUME NEW p, Tabled(p), NEW i \in UsedSlots(p)
  PROVE  find_process(p, p.slots[i].process_id) = i
<1> DEFINE id == p.slots[i].process_id
           Q(j) == /\ p.slots[j].process_id = id
                   /\ \A k \in UsedSlots(p) : p.slots[k].process_id = id => j <= k
<1>1. i \in Int /\ \A k \in UsedSlots(p) : p.slots[k].process_id = id => k = i
  BY ProcessTableAssumption DEF Tabled, UsedSlots, SlotsIn, ProcessSlots
<1>2. Q(i) /\ \A j \in UsedSlots(p) : Q(j) => j = i
  BY <1>1
<1>3. (CHOOSE j \in UsedSlots(p) : Q(j)) = i
  <2> HIDE DEF Q
  <2> QED
    BY <1>2
<1> QED
  BY <1>3 DEF find_process

LEMMA PhaseOfSlot ==
  ASSUME NEW p, Tabled(p), NEW i \in UsedSlots(p)
  PROVE  Phase(p, p.slots[i].process_id) = p.slots[i].state
<1>1. i # 0
  BY ProcessTableAssumption DEF UsedSlots, SlotsIn, ProcessSlots
<1> QED
  BY <1>1, FindsSlot DEF Phase

LEMMA PhaseOfNone ==
  ASSUME NEW p, NEW id, \A i \in UsedSlots(p) : p.slots[i].process_id # id
  PROVE  Phase(p, id) = "NONE"
BY DEF Phase, find_process

LEMMA SlotOfPhase ==
  ASSUME NEW p, Tabled(p), NEW id, Phase(p, id) # "NONE"
  PROVE  /\ find_process(p, id) \in UsedSlots(p)
         /\ p.slots[find_process(p, id)].process_id = id
         /\ p.slots[find_process(p, id)].state = Phase(p, id)
         /\ id \in ProcessIds
<1>1. PICK i \in UsedSlots(p) : p.slots[i].process_id = id
  BY PhaseOfNone
<1>2. find_process(p, id) = i
  BY <1>1, FindsSlot
<1>3. id \in ProcessIds
  BY <1>1, ProcessTableAssumption DEF Tabled, UsedSlots, SlotsIn, Process, ProcessIds
<1> QED
  BY <1>1, <1>2, <1>3, PhaseOfSlot

LEMMA IsInByPhase ==
  ASSUME NEW p, NEW id, NEW S, "NONE" \notin S
  PROVE  IsIn(p, id, S) <=> Phase(p, id) \in S
BY DEF IsIn, Phase

\* u is p with process id in phase st, every other process where it was.
Transferred(u, p, id, st) ==
  /\ Tabled(u) /\ u.next = p.next
  /\ Phase(u, id) = st
  /\ \A other : other # id => Phase(u, other) = Phase(p, other)

\* One slot i is rewritten for the id it holds.
LEMMA RewriteTransfers ==
  ASSUME NEW p, Tabled(p), NEW i \in UsedSlots(p), NEW new \in Process,
         new.process_id = p.slots[i].process_id, new.state # "UNUSED",
         NEW u, u = [slots |-> [p.slots EXCEPT ![i] = new], count |-> p.count, next |-> p.next]
  PROVE  Transferred(u, p, new.process_id, new.state)
<1> DEFINE m == [p.slots EXCEPT ![i] = new]
<1>1. /\ p.slots \in [ProcessSlots -> Process] /\ p.count \in Int
      /\ p.next \in 0 .. ProcessIdMax /\ i \in ProcessSlots
  BY DEF Tabled, UsedSlots, SlotsIn
<1>2. /\ m \in [ProcessSlots -> Process] /\ m[i] = new
      /\ \A j \in ProcessSlots : j # i => m[j] = p.slots[j]
  BY <1>1
<1> HIDE DEF m
<1>3. /\ u \in [slots : [ProcessSlots -> Process], count : Int, next : 0 .. ProcessIdMax]
      /\ u.slots = m /\ u.next = p.next
  BY <1>1, <1>2 DEF m
<1>4. UsedSlots(u) = UsedSlots(p)
  <2>1. ASSUME NEW j \in ProcessSlots
        PROVE  u.slots[j].state \in ProcessStates \ {"UNUSED"} <=>
                 p.slots[j].state \in ProcessStates \ {"UNUSED"}
    BY <1>2, <1>3 DEF Process, UsedSlots, SlotsIn
  <2> QED
    BY <2>1 DEF UsedSlots, SlotsIn
<1>5. \A j \in UsedSlots(p) : j \in ProcessSlots /\ u.slots[j].process_id = p.slots[j].process_id
  BY <1>2, <1>3 DEF UsedSlots, SlotsIn
<1>6. Tabled(u)
  BY <1>3, <1>4, <1>5 DEF Tabled
<1>7. Phase(u, new.process_id) = new.state
  BY <1>2, <1>3, <1>4, <1>6, PhaseOfSlot
<1>8. ASSUME NEW other, other # new.process_id PROVE Phase(u, other) = Phase(p, other)
  <2>1. CASE \E j \in UsedSlots(p) : p.slots[j].process_id = other
    <3>1. PICK j \in UsedSlots(p) : p.slots[j].process_id = other
      BY <2>1
    <3>2. u.slots[j] = p.slots[j]
      BY <1>2, <1>3, <1>5, <1>8, <3>1
    <3>3. Phase(p, p.slots[j].process_id) = p.slots[j].state
      BY PhaseOfSlot
    <3>4. j \in UsedSlots(u)
      BY <1>4
    <3>5. Phase(u, u.slots[j].process_id) = u.slots[j].state
      BY <3>4, <1>6, PhaseOfSlot
    <3> QED
      BY <3>1, <3>2, <3>3, <3>5
  <2>2. CASE \A j \in UsedSlots(p) : p.slots[j].process_id # other
    <3>1. \A j \in UsedSlots(u) : u.slots[j].process_id # other
      BY <2>2, <1>4, <1>5
    <3>2. Phase(u, other) = "NONE" /\ Phase(p, other) = "NONE"
      BY <2>2, <3>1, PhaseOfNone
    <3> QED
      BY <3>2
  <2> QED
    BY <2>1, <2>2
<1> QED
  BY <1>3, <1>6, <1>7, <1>8 DEF Transferred

LEMMA MovedTransfers ==
  ASSUME NEW p, Tabled(p), NEW id, Phase(p, id) # "NONE",
         NEW st \in ProcessStates \ {"UNUSED"}, NEW exit_code \in {0, -1}
  PROVE  Transferred(Moved(p, id, st, exit_code), p, id, st)
<1> DEFINE new == [state |-> st, process_id |-> id, exit_code |-> exit_code]
           i == find_process(p, id)
           u == [slots |-> [p.slots EXCEPT ![i] = new], count |-> p.count, next |-> p.next]
<1>1. i \in UsedSlots(p) /\ p.slots[i].process_id = id /\ id \in ProcessIds
  BY SlotOfPhase
<1>2. new \in Process /\ new.process_id = id /\ new.state = st
  BY <1>1, ProcessTableAssumption DEF Process, ProcessIds
<1>3. Moved(p, id, st, exit_code) = u
  BY DEF Moved
<1> HIDE DEF new, i
<1>4. Transferred(u, p, new.process_id, new.state)
  <2> DEFINE w == u
  <2>1. w = [slots |-> [p.slots EXCEPT ![i] = new], count |-> p.count, next |-> p.next]
    OBVIOUS
  <2> HIDE DEF w
  <2>2. Transferred(w, p, new.process_id, new.state)
    BY <2>1, <1>1, <1>2, RewriteTransfers
  <2> QED
    BY <2>2 DEF w
<1> QED
  BY <1>2, <1>3, <1>4

\* app_process_release forgets a process.
LEMMA ReleaseTransfers ==
  ASSUME NEW p, Tabled(p), NEW id, Phase(p, id) = "LOADED"
  PROVE  Transferred(app_process_release(p, id), p, id, "NONE")
<1> DEFINE i == find_process(p, id)
           m == [p.slots EXCEPT ![i] = UnusedProcess]
           u == [slots |-> m, count |-> p.count - 1, next |-> p.next]
<1>1. i \in UsedSlots(p) /\ p.slots[i].process_id = id
  BY SlotOfPhase
<1>2. app_process_release(p, id) = u
  <2>1. IsIn(p, id, Terminal \cup {"LOADED"})
    BY DEF IsIn, Phase
  <2> QED
    BY <2>1 DEF app_process_release
<1>3. /\ p.slots \in [ProcessSlots -> Process] /\ p.count \in Int
      /\ p.next \in 0 .. ProcessIdMax /\ i \in ProcessSlots
  BY <1>1 DEF Tabled, UsedSlots, SlotsIn
<1>4. UnusedProcess \in Process /\ UnusedProcess.state = "UNUSED"
  BY ProcessTableAssumption DEF UnusedProcess, Process, ProcessStates
<1> HIDE DEF i
<1>5. /\ m \in [ProcessSlots -> Process] /\ m[i] = UnusedProcess
      /\ \A j \in ProcessSlots : j # i => m[j] = p.slots[j]
  BY <1>3, <1>4
<1> HIDE DEF m
<1>6. /\ u \in [slots : [ProcessSlots -> Process], count : Int, next : 0 .. ProcessIdMax]
      /\ u.slots = m /\ u.next = p.next
  BY <1>3, <1>5
<1> HIDE DEF u
<1>7. \A j : j \in UsedSlots(u) <=> j \in UsedSlots(p) /\ j # i
  <2> SUFFICES ASSUME NEW j \in ProcessSlots
               PROVE  j \in UsedSlots(u) <=> j \in UsedSlots(p) /\ j # i
    BY DEF UsedSlots, SlotsIn
  <2>1. j = i => j \notin UsedSlots(u)
    BY <1>4, <1>5, <1>6 DEF UsedSlots, SlotsIn
  <2>2. j # i => u.slots[j] = p.slots[j]
    BY <1>5, <1>6
  <2> QED
    BY <2>1, <2>2 DEF UsedSlots, SlotsIn
<1>8. \A j \in UsedSlots(u) : j \in UsedSlots(p) /\ u.slots[j] = p.slots[j]
  BY <1>5, <1>6, <1>7 DEF UsedSlots, SlotsIn
<1>9. Tabled(u)
  BY <1>6, <1>8 DEF Tabled
<1>10. Phase(u, id) = "NONE"
  <2>1. \A j \in UsedSlots(u) : u.slots[j].process_id # id
    BY <1>1, <1>7, <1>8 DEF Tabled
  <2> QED
    BY <2>1, PhaseOfNone
<1>11. ASSUME NEW other, other # id PROVE Phase(u, other) = Phase(p, other)
  <2>1. CASE \E j \in UsedSlots(p) : p.slots[j].process_id = other
    <3>1. PICK j \in UsedSlots(p) : p.slots[j].process_id = other
      BY <2>1
    <3>2. j \in UsedSlots(u) /\ u.slots[j] = p.slots[j]
      BY <1>1, <1>7, <1>8, <1>11, <3>1
    <3>3. Phase(p, p.slots[j].process_id) = p.slots[j].state
      BY PhaseOfSlot
    <3>4. Phase(u, u.slots[j].process_id) = u.slots[j].state
      BY <3>2, <1>9, PhaseOfSlot
    <3> QED
      BY <3>1, <3>2, <3>3, <3>4
  <2>2. CASE \A j \in UsedSlots(p) : p.slots[j].process_id # other
    <3>1. \A j \in UsedSlots(u) : u.slots[j].process_id # other
      BY <2>2, <1>8
    <3>2. Phase(u, other) = "NONE" /\ Phase(p, other) = "NONE"
      BY <2>2, <3>1, PhaseOfNone
    <3> QED
      BY <3>2
  <2> QED
    BY <2>1, <2>2
<1>12. Transferred(u, p, id, "NONE")
  BY <1>6, <1>9, <1>10, <1>11 DEF Transferred
<1> QED
  BY <1>2, <1>12

\* The slot a new process takes is free, or its process finished before every
\* other finished one.
LEMMA SlotIsFreeOrOldest ==
  ASSUME NEW p, Tabled(p), SlotForNew(p) # 0
  PROVE  /\ SlotForNew(p) \in ProcessSlots
         /\ \/ p.slots[SlotForNew(p)].state = "UNUSED"
            \/ /\ p.slots[SlotForNew(p)].state \in Terminal
               /\ \A j \in SlotsIn(p, Terminal) :
                    p.slots[SlotForNew(p)].process_id <= p.slots[j].process_id
<1> DEFINE free == SlotsIn(p, {"UNUSED"})
           done == SlotsIn(p, Terminal)
           ids == {p.slots[j].process_id : j \in done}
<1>1. free \in SUBSET ProcessSlots /\ done \in SUBSET ProcessSlots
  BY DEF SlotsIn
<1>2. \A i \in ProcessSlots : i \in Nat /\ i # 0 /\ p.slots[i].process_id \in Nat
  BY ProcessTableAssumption DEF ProcessSlots, Tabled, Process
<1>3. CASE free # {}
  <2>1. \E i \in free : \A j \in free : i <= j
    <3> HIDE DEF free
    <3>1. free \in SUBSET Nat
      BY <1>1, <1>2
    <3> QED
      BY <3>1, <1>3, LeastOf
  <2>2. find_free_slot(p) \in free
    BY <2>1, <1>3 DEF find_free_slot
  <2>3. SlotForNew(p) = find_free_slot(p)
    BY <2>2, <1>1, <1>2 DEF SlotForNew
  <2> QED
    BY <2>2, <2>3, <1>1 DEF SlotsIn
<1>4. CASE free = {}
  <2>1. SlotForNew(p) = find_oldest_terminal_slot(p) /\ done # {}
    BY <1>4 DEF SlotForNew, find_free_slot, find_oldest_terminal_slot
  <2>2. \E x \in ids : \A y \in ids : x <= y
    <3>1. ids \in SUBSET Nat /\ ids # {}
      BY <2>1, <1>1, <1>2
    <3> HIDE DEF ids
    <3> QED
      BY <3>1, LeastOf
  <2>3. \E i \in done : \A j \in done : p.slots[i].process_id <= p.slots[j].process_id
    BY <2>2
  <2>4. /\ find_oldest_terminal_slot(p) \in done
        /\ \A j \in done : p.slots[find_oldest_terminal_slot(p)].process_id <= p.slots[j].process_id
    BY <2>1, <2>3 DEF find_oldest_terminal_slot
  <2> QED
    BY <2>1, <2>4, <1>1 DEF SlotsIn
<1> QED
  BY <1>3, <1>4

\* u keeps every process of p but perhaps the oldest finished one.
Forgot(u, p) ==
  \A id : Phase(p, id) # "NONE" =>
    \/ Phase(u, id) = Phase(p, id)
    \/ /\ Phase(u, id) = "NONE" /\ Phase(p, id) \in Terminal
       /\ \A kept : Phase(u, kept) \in Terminal => id < kept

\* A new process is in the table.
Entered(u, p) ==
  /\ Tabled(u)
  /\ u.next = 0 \/ u.next > p.next
  /\ p.next \in ProcessIds
  /\ Phase(p, p.next) = "NONE" /\ Phase(u, p.next) = "LOADED"
  /\ \A id : id # p.next /\ Phase(p, id) = "NONE" => Phase(u, id) = "NONE"
  /\ Forgot(u, p)

LEMMA TrackEnters ==
  ASSUME NEW p, Tabled(p), CanTrack(p)
  PROVE  Entered(app_process_track_loaded(p), p)
<1> DEFINE k == SlotForNew(p)
           new == [state |-> "LOADED", process_id |-> p.next, exit_code |-> 0]
           m == [p.slots EXCEPT ![k] = new]
           count == IF find_free_slot(p) # 0 THEN p.count + 1 ELSE p.count
           next == IF p.next = ProcessIdMax THEN 0 ELSE p.next + 1
           u == [slots |-> m, count |-> count, next |-> next]
<1>1. app_process_track_loaded(p) = u
  BY DEF app_process_track_loaded
<1>2. /\ p.slots \in [ProcessSlots -> Process] /\ p.count \in Int
      /\ p.next \in 0 .. ProcessIdMax /\ p.next # 0 /\ ProcessIdMax \in Nat
  BY ProcessTableAssumption DEF Tabled, CanTrack
<1>3. /\ k \in ProcessSlots
      /\ \/ p.slots[k].state = "UNUSED"
         \/ /\ p.slots[k].state \in Terminal
            /\ \A j \in SlotsIn(p, Terminal) : p.slots[k].process_id <= p.slots[j].process_id
  BY SlotIsFreeOrOldest DEF CanTrack
<1>4. /\ new \in Process /\ new.state = "LOADED" /\ new.process_id = p.next
      /\ p.next \in ProcessIds /\ count \in Int
      /\ next \in 0 .. ProcessIdMax /\ (next = 0 \/ next > p.next)
  BY <1>2 DEF Process, ProcessStates, ProcessIds
<1> HIDE DEF k, new, count, next
<1>5. /\ m \in [ProcessSlots -> Process] /\ m[k] = new
      /\ \A j \in ProcessSlots : j # k => m[j] = p.slots[j]
  BY <1>2, <1>3, <1>4
<1> HIDE DEF m
<1>6. /\ u \in [slots : [ProcessSlots -> Process], count : Int, next : 0 .. ProcessIdMax]
      /\ u.slots = m /\ u.next = next
  BY <1>4, <1>5
<1> HIDE DEF u
<1>7. /\ k \in UsedSlots(u) /\ u.slots[k] = new
      /\ \A j : j # k => (j \in UsedSlots(u) <=> j \in UsedSlots(p))
      /\ \A j \in UsedSlots(u) : j # k => u.slots[j] = p.slots[j]
  <2>1. k \in UsedSlots(u) /\ u.slots[k] = new
    BY <1>3, <1>4, <1>5, <1>6 DEF UsedSlots, SlotsIn, ProcessStates
  <2>2. \A j \in ProcessSlots : j # k => u.slots[j] = p.slots[j]
    BY <1>5, <1>6
  <2> QED
    BY <2>1, <2>2 DEF UsedSlots, SlotsIn
<1>8. /\ \A j \in UsedSlots(p) : /\ j \in ProcessSlots /\ p.slots[j].process_id \in Nat
                                 /\ p.slots[j].process_id # 0
                                 /\ p.slots[j].process_id < p.next
  BY <1>2 DEF Tabled, UsedSlots, SlotsIn, Process
<1>9. Tabled(u)
  <2>1. ASSUME NEW i \in UsedSlots(u)
        PROVE  /\ u.slots[i].process_id # 0
               /\ u.next # 0 => u.slots[i].process_id < u.next
    BY <1>2, <1>4, <1>6, <1>7, <1>8
  <2>2. ASSUME NEW i \in UsedSlots(u), NEW j \in UsedSlots(u),
               u.slots[i].process_id = u.slots[j].process_id
        PROVE  i = j
    BY <2>2, <1>2, <1>4, <1>7, <1>8 DEF Tabled
  <2> QED
    BY <2>1, <2>2, <1>6 DEF Tabled
<1>10. Phase(u, p.next) = "LOADED"
  BY <1>4, <1>7, <1>9, PhaseOfSlot
<1>11. Phase(p, p.next) = "NONE"
  <2>1. \A j \in UsedSlots(p) : p.slots[j].process_id # p.next
    BY <1>2, <1>8
  <2> QED
    BY <2>1, PhaseOfNone
<1>12. ASSUME NEW id, id # p.next, Phase(p, id) = "NONE" PROVE Phase(u, id) = "NONE"
  <2>1. \A j \in UsedSlots(p) : p.slots[j].process_id # id
    <3> SUFFICES ASSUME NEW j \in UsedSlots(p), p.slots[j].process_id = id PROVE FALSE
      OBVIOUS
    <3>1. Phase(p, id) = p.slots[j].state
      BY PhaseOfSlot
    <3> QED
      BY <3>1, <1>12 DEF UsedSlots, SlotsIn, ProcessStates
  <2>2. \A j \in UsedSlots(u) : u.slots[j].process_id # id
    BY <2>1, <1>4, <1>7, <1>12
  <2> QED
    BY <2>2, PhaseOfNone
<1>13. ASSUME NEW id, Phase(p, id) # "NONE"
       PROVE  \/ Phase(u, id) = Phase(p, id)
              \/ /\ Phase(u, id) = "NONE" /\ Phase(p, id) \in Terminal
                 /\ \A kept : Phase(u, kept) \in Terminal => id < kept
  <2>1. PICK i \in UsedSlots(p) : p.slots[i].process_id = id /\ p.slots[i].state = Phase(p, id)
    BY <1>13, SlotOfPhase
  <2>2. CASE i # k
    <3>1. i \in UsedSlots(u) /\ u.slots[i] = p.slots[i]
      BY <2>2, <1>7
    <3>2. Phase(u, u.slots[i].process_id) = u.slots[i].state
      BY <3>1, <1>9, PhaseOfSlot
    <3> QED
      BY <2>1, <3>1, <3>2
  <2>3. CASE i = k
    <3>1. p.slots[k].state \in Terminal /\ id \in Nat
      BY <2>1, <2>3, <1>3, <1>8 DEF UsedSlots, SlotsIn
    <3>2. Phase(u, id) = "NONE"
      <4>1. \A j \in UsedSlots(u) : u.slots[j].process_id # id
        BY <2>1, <2>3, <1>2, <1>4, <1>7, <1>8 DEF Tabled
      <4> QED
        BY <4>1, PhaseOfNone
    <3>3. ASSUME NEW kept, Phase(u, kept) \in Terminal PROVE id < kept
      <4>1. Phase(u, kept) # "NONE"
        BY <3>3 DEF Terminal
      <4>2. PICK j \in UsedSlots(u) : /\ u.slots[j].process_id = kept
                                      /\ u.slots[j].state = Phase(u, kept)
        BY <4>1, <1>9, SlotOfPhase
      <4>3. j # k
        BY <4>2, <3>3, <1>4, <1>7 DEF Terminal
      <4>4. j \in UsedSlots(p) /\ u.slots[j] = p.slots[j]
        BY <4>3, <1>7
      <4>5. j \in SlotsIn(p, Terminal)
        BY <4>2, <4>4, <3>3 DEF UsedSlots, SlotsIn
      <4>6. id <= kept /\ kept \in Nat
        BY <4>2, <4>4, <4>5, <2>1, <2>3, <3>1, <1>3, <1>8 DEF Terminal
      <4>7. id # kept
        BY <4>1, <3>2
      <4> QED
        BY <4>6, <4>7, <3>1
    <3> QED
      BY <2>1, <2>3, <3>1, <3>2, <3>3
  <2> QED
    BY <2>2, <2>3
<1>14. Entered(u, p)
  <2>1. Forgot(u, p)
    BY <1>13, Zenon DEF Forgot
  <2>2. \A id : id # p.next /\ Phase(p, id) = "NONE" => Phase(u, id) = "NONE"
    BY <1>12
  <2> QED
    BY <2>1, <2>2, <1>4, <1>6, <1>9, <1>10, <1>11 DEF Entered
<1> QED
  BY <1>1, <1>14

LEMMA MarkStartingTransfers ==
  ASSUME NEW p, Tabled(p), NEW id, Phase(p, id) = "LOADED"
  PROVE  Transferred(app_process_mark_starting(p, id), p, id, "STARTING")
<1>1. app_process_mark_starting(p, id) = Moved(p, id, "STARTING", 0)
  BY IsInByPhase DEF app_process_mark_starting
<1> QED
  BY <1>1, MovedTransfers DEF ProcessStates

LEMMA MarkRunningTransfers ==
  ASSUME NEW p, Tabled(p), NEW id, Phase(p, id) = "STARTING"
  PROVE  Transferred(app_process_mark_running(p, id), p, id, "RUNNING")
<1>1. app_process_mark_running(p, id) = Moved(p, id, "RUNNING", 0)
  BY IsInByPhase DEF app_process_mark_running
<1> QED
  BY <1>1, MovedTransfers DEF ProcessStates

LEMMA LiveByPhase ==
  ASSUME NEW p, NEW id
  PROVE  IsLive(p, id) <=> Phase(p, id) \in Live
BY IsInByPhase DEF IsLive, Live

LEMMA MarkExitedTransfers ==
  ASSUME NEW p, Tabled(p), NEW id, Phase(p, id) \in Live, NEW exit_code \in {0, -1}
  PROVE  Transferred(app_process_mark_exited(p, id, exit_code), p, id, "EXITED")
<1>1. app_process_mark_exited(p, id, exit_code) = Moved(p, id, "EXITED", exit_code)
  BY LiveByPhase DEF app_process_mark_exited
<1>2. Phase(p, id) # "NONE"
  BY DEF Live
<1> QED
  BY <1>1, <1>2, MovedTransfers DEF ProcessStates

LEMMA RecordFaultTransfers ==
  ASSUME NEW p, Tabled(p), NEW id, Phase(p, id) \in Live
  PROVE  Transferred(app_process_record_fault(p, id), p, id, "FAULTED")
<1>1. app_process_record_fault(p, id) = Moved(p, id, "FAULTED", 0)
  BY LiveByPhase DEF app_process_record_fault
<1>2. Phase(p, id) # "NONE"
  BY DEF Live
<1> QED
  BY <1>1, <1>2, MovedTransfers DEF ProcessStates

----------------------------------------------------------------------------
(* The steps *)

\* A step goes from s over sch to s': sch is what the caller of schedule or
\* reap_dead_tasks has made of the scheduler.
LEMMA Carried ==
  ASSUME NEW sch, Sound(s'), Keeps(sch, s'),
         Tabled(processes'), Matched(sch, processes'), OwnersLive(services', processes'),
         Ahead(sch, g_next_pid', processes'.next)
  PROVE  IInv'
<1>1. Matched(s', processes') /\ Ahead(s', g_next_pid', processes'.next)
  BY KeepsMatched, KeepsAhead
<1> QED
  BY <1>1 DEF IInv

LEMMA KeepsItself ==
  ASSUME NEW sch
  PROVE  Keeps(sch, sch)
BY DEF Keeps

LEMMA CarriedQuietly ==
  ASSUME IInv, Sound(s'), Keeps(s, s'), UNCHANGED <<g_next_pid, processes, services>>
  PROVE  IInv'
<1>1. /\ Tabled(processes') /\ Matched(s, processes') /\ OwnersLive(services', processes')
      /\ Ahead(s, g_next_pid', processes'.next)
  BY DEF IInv
<1> DEFINE sch == s
<1>2. Keeps(sch, s') /\ Matched(sch, processes') /\ Ahead(sch, g_next_pid', processes'.next)
  BY <1>1
<1> HIDE DEF sch
<1> QED
  BY <1>1, <1>2, Carried

\* Alike tasks that are equally ready and equally in ring 3.
LEMMA UpdateKeeps ==
  ASSUME NEW sch \in Schedulers, NEW t \in DOMAIN sch.task, NEW new, Alike(new, sch.task[t]),
         new.is_user => new.state = sch.task[t].state,
         new.pc = "user" <=> sch.task[t].pc = "user",
         NEW v, Updated(v, sch, t, new)
  PROVE  Keeps(sch, v)
BY DEF Keeps, Updated, Alike, ReadyUser

\* A ready user task dies and its process finishes in the same step.
LEMMA DeathIsMatched ==
  ASSUME NEW sch, Sound(sch), NEW t \in DOMAIN sch.task, ReadyUser(sch, t),
         NEW new \in Task, Alike(new, sch.task[t]), new.state = "DEAD",
         NEW v, Updated(v, sch, t, new),
         NEW p, Matched(sch, p), NEW st \in Terminal, NEW u,
         Transferred(u, p, sch.task[t].app_process_id, st),
         NEW owners, OwnersLive(owners, p), NEW pid, Ahead(sch, pid, p.next)
  PROVE  /\ Matched(v, u) /\ OwnersLive(owners \ {sch.task[t].app_process_id}, u)
         /\ Ahead(v, pid, u.next)
<1> DEFINE id == sch.task[t].app_process_id
<1>1. \A x \in DOMAIN sch.task : ReadyUser(v, x) <=> ReadyUser(sch, x) /\ x # t
  BY DEF Updated, ReadyUser
<1>2. \A x \in DOMAIN sch.task : x # t /\ ReadyUser(sch, x) => sch.task[x].app_process_id # id
  BY DEF ReadyUser, Sound, OwnSpaces
<1>3. Matched(v, u)
  <2>1. ASSUME NEW x \in DOMAIN v.task, ReadyUser(v, x)
        PROVE  Phase(u, v.task[x].app_process_id) =
                 IF v.task[x].pc = "user" THEN "RUNNING" ELSE "STARTING"
    BY <2>1, <1>1, <1>2 DEF Matched, Transferred, Updated
  <2>2. ASSUME NEW a \in ProcessIds, Phase(u, a) \in Live
        PROVE  \E x \in DOMAIN v.task : ReadyUser(v, x) /\ v.task[x].app_process_id = a
    <3>1. a # id /\ Phase(p, a) \in Live
      BY <2>2 DEF Transferred, Terminal, Live
    <3>2. PICK x \in DOMAIN sch.task : ReadyUser(sch, x) /\ sch.task[x].app_process_id = a
      BY <3>1 DEF Matched
    <3>3. x # t
      BY <3>1, <3>2
    <3> QED
      BY <3>2, <3>3, <1>1 DEF Updated
  <2> QED
    BY <2>1, <2>2 DEF Matched
<1>4. OwnersLive(owners \ {id}, u)
  BY DEF OwnersLive, Transferred
<1>5. Ahead(v, pid, u.next)
  BY DEF Ahead, Updated, Transferred, Alike
<1> QED
  BY <1>3, <1>4, <1>5

\* What every action knows of the current task.
LEMMA CurrentTyped ==
  ASSUME IInv
  PROVE  /\ s \in Schedulers /\ Sound(s) /\ s.current \in DOMAIN s.task
         /\ Current \in Task /\ Current.pc # "entry"
<1>1. s \in Schedulers /\ Sound(s) /\ s.current \in DOMAIN s.task
  BY DEF IInv, Sound, Linked
<1>2. Current \in Task
  BY <1>1, TasksTyped DEF Current
<1>3. Current.pc # "entry"
  BY DEF IInv, Sound, OwnContext, Current
<1> QED
  BY <1>1, <1>2, <1>3

\* An action that changes the current task alone, in nothing the table knows of.
LEMMA CurrentChanges ==
  ASSUME IInv, NEW new \in Task, Alike(new, Current), new.is_user => new.state = Current.state,
         new.pc = "user" <=> Current.pc = "user",
         NEW sch, sch = WithTask(s, s.current, new)
  PROVE  Sound(sch) /\ Keeps(s, sch)
<1>1. /\ s \in Schedulers /\ Sound(s) /\ s.current \in DOMAIN s.task
      /\ Current = s.task[s.current]
  BY CurrentTyped DEF Current
<1>2. Updated(sch, s, s.current, new)
  BY <1>1, Updates
<1>3. Sound(sch)
  BY <1>1, <1>2, UpdateKeepsSound
<1> QED
  BY <1>1, <1>2, <1>3, UpdateKeeps

LEMMA ScheduleIsQuiet ==
  ASSUME IInv, NEW sch, Sound(sch), Keeps(s, sch), schedule(sch),
         UNCHANGED <<g_next_pid, processes, services>>
  PROVE  IInv'
<1>1. Sound(s') /\ Keeps(sch, s')
  BY ScheduleKeepsSound
<1>2. Keeps(s, s')
  BY <1>1, KeepsTransitive
<1> QED
  BY <1>1, <1>2, CarriedQuietly

LEMMA KernelYieldsKeeps ==
  ASSUME IInv, KernelYields
  PROVE  IInv'
<1>1. Sound(s) /\ Keeps(s, s) /\ schedule(s) /\ UNCHANGED <<g_next_pid, processes, services>>
  BY CurrentTyped, KeepsItself DEF KernelYields
<1> QED
  BY <1>1, ScheduleIsQuiet

LEMMA UserYieldsKeeps ==
  ASSUME IInv, UserYields
  PROVE  IInv'
<1>1. Sound(s) /\ Keeps(s, s) /\ schedule(s) /\ UNCHANGED <<g_next_pid, processes, services>>
  BY CurrentTyped, KeepsItself DEF UserYields
<1> QED
  BY <1>1, ScheduleIsQuiet

LEMMA KernelStackOverflowsKeeps ==
  ASSUME IInv, KernelStackOverflows
  PROVE  IInv'
<1>1. s \in Schedulers /\ s.current \in TaskIds
  BY CurrentTyped DEF Schedulers
<1> DEFINE broken == s.broken \cup {s.current}
<1>2. broken \in SUBSET TaskIds /\ s' = [s EXCEPT !.broken = broken]
  BY <1>1 DEF KernelStackOverflows, Schedulers
<1>3. broken \subseteq {s.current}
  BY DEF IInv, Sound, OwnContext
<1> HIDE DEF broken
<1>4. /\ s' \in Schedulers /\ s'.broken = broken
      /\ s'.ring = s.ring /\ s'.current = s.current /\ s'.task = s.task
      /\ s'.spaces = s.spaces /\ s'.cr3 = s.cr3 /\ s'.tss = s.tss /\ s'.fpu = s.fpu
  BY <1>1, <1>2 DEF Schedulers
<1>5. Sound(s')
  <2>1. Linked(s') /\ OwnSpaces(s')
    BY <1>4 DEF IInv, Sound, Linked, InRing, OwnSpaces
  <2>2. OwnContext(s')
    BY <1>3, <1>4 DEF IInv, Sound, OwnContext, Kept
  <2> QED
    BY <2>1, <2>2, <1>4 DEF Sound
<1>6. Keeps(s, s')
  BY <1>4 DEF Keeps, ReadyUser
<1> QED
  BY <1>5, <1>6, CarriedQuietly DEF KernelStackOverflows

LEMMA ExitCurrentTaskKeeps ==
  ASSUME IInv, exit_current_task
  PROVE  IInv'
<1> DEFINE new == [Current EXCEPT !.state = "DEAD"]
           sch == Dead(s, s.current)
<1>1. new \in Task /\ Alike(new, Current) /\ ~new.is_user /\ new.pc = Current.pc
  BY CurrentTyped DEF Task, Alike, exit_current_task, KernelRuns
<1>2. sch = WithTask(s, s.current, new) /\ schedule(sch)
  BY DEF Dead, Current, exit_current_task
<1> HIDE DEF new, sch
<1>3. Sound(sch) /\ Keeps(s, sch)
  BY <1>1, <1>2, CurrentChanges
<1> QED
  BY <1>2, <1>3, ScheduleIsQuiet DEF exit_current_task

LEMMA DispatchKeeps ==
  ASSUME IInv, Dispatch
  PROVE  IInv'
<1> DEFINE new == [Current EXCEPT !.dispatch = @ + 1]
           sch == WithTask(s, s.current, new)
<1>1. new \in Task /\ Alike(new, Current) /\ new.state = Current.state /\ new.pc = Current.pc
  BY CurrentTyped, SchedulerAssumption DEF Task, Alike, Dispatch
<1>2. schedule(sch)
  BY DEF Dispatch
<1> HIDE DEF new
<1>3. Sound(sch) /\ Keeps(s, sch)
  BY <1>1, CurrentChanges
<1> HIDE DEF sch
<1> QED
  BY <1>2, <1>3, ScheduleIsQuiet DEF Dispatch

LEMMA TimerTickKeeps ==
  ASSUME IInv, scheduler_timer_tick
  PROVE  IInv'
<1> DEFINE Q == SCHEDULER_USER_QUANTUM_TICKS
           one == [Current EXCEPT !.quantum_ticks = @ + 1]
           none == [Current EXCEPT !.quantum_ticks = 0]
<1>1. CASE Current.quantum_ticks + 1 < Q
  <2>1. one \in Task /\ Alike(one, Current) /\ one.state = Current.state /\ one.pc = Current.pc
    BY <1>1, CurrentTyped, SchedulerAssumption DEF Task, Alike
  <2>2. s' = WithTask(s, s.current, one) /\ UNCHANGED <<g_next_pid, processes, services>>
    BY <1>1 DEF scheduler_timer_tick
  <2> HIDE DEF one
  <2>3. Sound(s') /\ Keeps(s, s')
    BY <2>1, <2>2, CurrentChanges
  <2> QED
    BY <2>2, <2>3, CarriedQuietly
<1>2. CASE ~ (Current.quantum_ticks + 1 < Q)
  <2> DEFINE sch == WithTask(s, s.current, none)
  <2>1. none \in Task /\ Alike(none, Current) /\ none.state = Current.state /\ none.pc = Current.pc
    BY CurrentTyped, SchedulerAssumption DEF Task, Alike
  <2>2. schedule(sch) /\ UNCHANGED <<g_next_pid, processes, services>>
    BY <1>2 DEF scheduler_timer_tick
  <2> HIDE DEF none
  <2>3. Sound(sch) /\ Keeps(s, sch)
    BY <2>1, CurrentChanges
  <2> HIDE DEF sch
  <2> QED
    BY <2>2, <2>3, ScheduleIsQuiet
<1> QED
  BY <1>1, <1>2

LEMMA DispatchReturnsKeeps ==
  ASSUME IInv, DispatchReturns
  PROVE  IInv'
<1> DEFINE new == [Current EXCEPT !.pc = "kernel", !.awaited = 0, !.dispatch = 0]
<1>1. /\ new \in Task /\ Alike(new, Current) /\ new.state = Current.state
      /\ new.pc # "user" /\ Current.pc # "user"
  <2>1. 0 \in 0 .. ProcessIdMax /\ 0 \in 0 .. APP_RUN_DISPATCH_BUDGET
    BY SchedulerAssumption, ProcessTableAssumption
  <2>2. Current \in Task /\ Current.pc = "dispatch"
    BY CurrentTyped DEF DispatchReturns, Dispatching
  <2> QED
    BY <2>1, <2>2 DEF Task, Pcs, Alike
<1>2. s' = WithTask(s, s.current, new) /\ UNCHANGED <<g_next_pid, processes, services>>
  BY DEF DispatchReturns
<1> HIDE DEF new
<1>3. Sound(s') /\ Keeps(s, s')
  BY <1>1, <1>2, CurrentChanges
<1> QED
  BY <1>2, <1>3, CarriedQuietly

LEMMA BootstrapChecksKeeps ==
  ASSUME IInv, BootstrapChecks
  PROVE  IInv'
<1> DEFINE new == [Current EXCEPT !.pc = "marking"]
<1>1. /\ new \in Task /\ Alike(new, Current) /\ new.state = Current.state
      /\ new.pc # "user" /\ Current.pc # "user"
  BY CurrentTyped DEF Task, Pcs, Alike, BootstrapChecks
<1>2. s' = WithTask(s, s.current, new) /\ UNCHANGED <<g_next_pid, processes, services>>
  BY DEF BootstrapChecks
<1> HIDE DEF new
<1>3. Sound(s') /\ Keeps(s, s')
  BY <1>1, <1>2, CurrentChanges
<1> QED
  BY <1>2, <1>3, CarriedQuietly

LEMMA BootstrapMarksKeeps ==
  ASSUME IInv, BootstrapMarks
  PROVE  IInv'
<1> DEFINE new == [Current EXCEPT !.pc = "user"]
           c == s.current
           id == Current.app_process_id
<1>1. /\ new \in Task /\ Alike(new, Current) /\ new.state = Current.state /\ new.pc = "user"
      /\ ReadyUser(s, c) /\ Current.pc = "marking"
  BY CurrentTyped DEF Task, Pcs, Alike, BootstrapMarks, scheduler_current_is_user, ReadyUser, Current
<1>2. /\ s \in Schedulers /\ Sound(s) /\ c \in DOMAIN s.task /\ Current = s.task[c]
  BY CurrentTyped DEF Current
<1>3. s' = WithTask(s, c, new) /\ processes' = app_process_mark_running(processes, id)
  BY DEF BootstrapMarks
<1> HIDE DEF new
<1>4. Updated(s', s, c, new)
  BY <1>1, <1>2, <1>3, Updates
<1>5. Sound(s')
  BY <1>1, <1>2, <1>4, UpdateKeepsSound
<1>6. Phase(processes, id) = "STARTING" /\ Tabled(processes)
  BY <1>1, <1>2 DEF IInv, Matched
<1>7. Transferred(processes', processes, id, "RUNNING")
  BY <1>3, <1>6, MarkRunningTransfers
<1>8. \A x \in DOMAIN s.task : x # c /\ ReadyUser(s, x) => s.task[x].app_process_id # id
  BY <1>1, <1>2 DEF ReadyUser, Sound, OwnSpaces
<1>9. \A x \in DOMAIN s.task : /\ ReadyUser(s', x) <=> ReadyUser(s, x)
                               /\ s'.task[x].app_process_id = s.task[x].app_process_id
  BY <1>1, <1>2, <1>4 DEF Updated, Alike, ReadyUser
<1>10. Matched(s', processes')
  <2>1. ASSUME NEW x \in DOMAIN s'.task, ReadyUser(s', x)
        PROVE  Phase(processes', s'.task[x].app_process_id) =
                 IF s'.task[x].pc = "user" THEN "RUNNING" ELSE "STARTING"
    <3>1. CASE x = c
      BY <3>1, <1>1, <1>2, <1>4, <1>7, <1>9 DEF Updated, Transferred
    <3>2. CASE x # c
      BY <2>1, <3>2, <1>4, <1>7, <1>8, <1>9 DEF Updated, Transferred, IInv, Matched
    <3> QED
      BY <3>1, <3>2
  <2>2. ASSUME NEW a \in ProcessIds, Phase(processes', a) \in Live
        PROVE  \E x \in DOMAIN s'.task : ReadyUser(s', x) /\ s'.task[x].app_process_id = a
    <3>1. Phase(processes, a) \in Live
      BY <2>2, <1>6, <1>7 DEF Transferred, Live
    <3> QED
      BY <3>1, <1>4, <1>9 DEF IInv, Matched, Updated
  <2> QED
    BY <2>1, <2>2 DEF Matched
<1>11. OwnersLive(services', processes')
  BY <1>7 DEF IInv, OwnersLive, Transferred, Live, BootstrapMarks
<1>12. Ahead(s', g_next_pid', processes'.next)
  BY <1>4, <1>7, <1>9 DEF IInv, Ahead, Updated, Transferred, BootstrapMarks
<1> QED
  BY <1>5, <1>7, <1>10, <1>11, <1>12 DEF IInv, Transferred

LEMMA UserAcquiresKeeps ==
  ASSUME IInv, UserAcquires
  PROVE  IInv'
<1> DEFINE id == Current.app_process_id
<1>1. ReadyUser(s, s.current) /\ s.current \in DOMAIN s.task /\ Current = s.task[s.current]
  BY CurrentTyped DEF UserAcquires, UserRuns, scheduler_current_is_user, ReadyUser, Current
<1>2. Phase(processes, id) = "RUNNING" /\ Tabled(processes)
  BY <1>1 DEF IInv, Matched, UserAcquires, UserRuns
<1>3. id \in ProcessIds
  BY <1>2, SlotOfPhase
<1>4. OwnersLive(services', processes')
  BY <1>2, <1>3 DEF IInv, OwnersLive, UserAcquires, Live
<1> QED
  BY <1>4 DEF IInv, UserAcquires

LEMMA SpawnKeeps ==
  ASSUME IInv, spawn_named_task
  PROVE  IInv'
<1> DEFINE id == g_next_pid
           new == KernelTask
<1>1. /\ id \in TaskIds /\ id \notin DOMAIN s.task /\ g_next_pid' \in 0 .. TaskIdMax
      /\ g_next_pid' # 0 => id < g_next_pid'
  <2>1. id \in 1 .. TaskIdMax /\ \A t \in DOMAIN s.task : t < id
    BY SchedulerAssumption DEF IInv, Ahead, spawn_named_task
  <2>2. g_next_pid' = IF id = TaskIdMax THEN 0 ELSE id + 1
    BY DEF spawn_named_task, NextPid
  <2> QED
    BY <2>1, <2>2, SchedulerAssumption DEF TaskIds
<1>2. /\ new \in Task /\ new.pc = "entry" /\ new.fpu_state = ResetImage
      /\ new.address_space = 0 /\ new.app_process_id = 0 /\ new.is_user = FALSE
  BY SchedulerAssumption, ProcessTableAssumption DEF KernelTask, Task, Pcs, ResetImage
<1> HIDE DEF new
<1>3. Newborn(new, s, s.spaces)
  BY <1>2, ProcessTableAssumption DEF Newborn, ProcessIds
<1>4. s' = Inserted(s, id, new) /\ UNCHANGED <<processes, services>>
  BY DEF spawn_named_task, new
<1>5. Sound(s) /\ \E a : a \in ProcessIds
  BY CurrentTyped, ProcessTableAssumption DEF ProcessIds
<1>6. Grown(s', s, id, new, s.spaces)
  BY <1>1, <1>2, <1>4, <1>5, InsertGrows
<1>7. Sound(s')
  <2> DEFINE spaces == s.spaces
  <2>1. Newborn(new, s, spaces) /\ Grown(s', s, id, new, spaces)
    BY <1>3, <1>6
  <2> HIDE DEF spaces
  <2> QED
    BY <2>1, <1>1, <1>2, <1>5, GrowthKeepsSound
<1>8. /\ ~ReadyUser(s', id)
      /\ \A x \in DOMAIN s.task : (ReadyUser(s', x) <=> ReadyUser(s, x)) /\ s'.task[x] = s.task[x]
  BY <1>2, <1>6 DEF Grown, ReadyUser
<1>9. Matched(s', processes')
  BY <1>4, <1>6, <1>8 DEF Grown, Matched, IInv
<1>10. Ahead(s', g_next_pid', processes'.next)
  <2>1. \A x \in DOMAIN s.task : x \in Int
    BY CurrentTyped, TasksTyped DEF TaskIds
  <2>2. g_next_pid' # 0 => \A t \in DOMAIN s'.task : t < g_next_pid'
    BY <2>1, <1>1, <1>6 DEF Grown, TaskIds, IInv, Ahead, spawn_named_task
  <2>3. processes'.next # 0 => \A t \in DOMAIN s'.task : s'.task[t].app_process_id < processes'.next
    <3>1. processes'.next \in 0 .. ProcessIdMax /\ processes' = processes
      BY <1>4 DEF IInv, Tabled
    <3> QED
      BY <3>1, <1>2, <1>6, <1>8, ProcessTableAssumption DEF Grown, IInv, Ahead
  <2> QED
    BY <2>2, <2>3, <1>1 DEF Ahead
<1> QED
  BY <1>4, <1>7, <1>9, <1>10 DEF IInv

\* A task that is marked dead, with what the process table makes of it.
LEMMA DeathIsCarried ==
  ASSUME IInv, NEW t \in DOMAIN s.task, ReadyUser(s, t), NEW sch, sch = Dead(s, t),
         NEW st \in Terminal,
         Transferred(processes', processes, s.task[t].app_process_id, st),
         services' = services \ {s.task[t].app_process_id}, UNCHANGED g_next_pid,
         Sound(sch) => Sound(s') /\ Keeps(sch, s')
  PROVE  IInv'
<1> DEFINE old == s.task[t]
           new == [old EXCEPT !.state = "DEAD"]
<1>1. s \in Schedulers /\ Sound(s) /\ old \in Task
  BY CurrentTyped, TasksTyped
<1>2. new \in Task /\ Alike(new, old) /\ new.state = "DEAD"
  BY <1>1 DEF Task, Alike
<1>3. sch = WithTask(s, t, new)
  BY DEF Dead
<1> HIDE DEF new
<1>4. Updated(sch, s, t, new)
  BY <1>1, <1>2, <1>3, Updates
<1>5. Sound(sch)
  BY <1>1, <1>2, <1>4, UpdateKeepsSound
<1>6. /\ Matched(sch, processes') /\ OwnersLive(services', processes')
      /\ Ahead(sch, g_next_pid', processes'.next)
  <2> DEFINE p == processes
             u == processes'
             owners == services
             pid == g_next_pid
  <2>1. Matched(s, p) /\ OwnersLive(owners, p) /\ Ahead(s, pid, p.next)
    BY DEF IInv
  <2>2. Transferred(u, p, s.task[t].app_process_id, st)
    OBVIOUS
  <2> HIDE DEF p, u, owners, pid
  <2>3. /\ Matched(sch, u) /\ OwnersLive(owners \ {s.task[t].app_process_id}, u)
        /\ Ahead(sch, pid, u.next)
    BY <2>1, <2>2, <1>1, <1>2, <1>4, DeathIsMatched
  <2> QED
    BY <2>3 DEF p, u, owners, pid
<1>7. Tabled(processes')
  BY DEF Transferred
<1> QED
  BY <1>5, <1>6, <1>7, Carried

LEMMA TerminateTaskKeeps ==
  ASSUME IInv, NEW t, scheduler_terminate_task(t)
  PROVE  IInv'
<1> DEFINE sch == Dead(s, t)
           id == s.task[t].app_process_id
<1>1. /\ t \in DOMAIN s.task /\ s.task[t] \in Task /\ s.task[t].state = "READY"
      /\ t # s.current /\ s \in Schedulers /\ Sound(s)
  <2>1. t \in DOMAIN s.task /\ t # s.current /\ s.task[t].state # "DEAD"
    BY DEF scheduler_terminate_task, IInv, Sound, Linked
  <2> QED
    BY <2>1, CurrentTyped, TasksTyped DEF Task
<1>2. /\ s' = reap_dead_tasks(sch)
      /\ processes' = app_process_mark_exited(processes, id, -1)
      /\ services' = services \ {id} /\ UNCHANGED g_next_pid
  BY DEF scheduler_terminate_task
<1>3. Sound(sch) => Sound(s') /\ Keeps(sch, s')
  <2> HIDE DEF sch
  <2> QED
    BY <1>2, ReapKeepsSound
<1>4. CASE s.task[t].is_user
  <2>1. ReadyUser(s, t) /\ Tabled(processes)
    BY <1>1, <1>4 DEF ReadyUser, IInv
  <2>2. Phase(processes, id) \in Live
    BY <2>1, <1>1 DEF IInv, Matched, Live
  <2>3. Transferred(processes', processes, id, "EXITED") /\ "EXITED" \in Terminal
    BY <2>1, <2>2, <1>2, MarkExitedTransfers DEF Terminal
  <2> HIDE DEF sch
  <2>4. sch = Dead(s, t)
    BY DEF sch
  <2> QED
    BY <2>1, <2>3, <2>4, <1>1, <1>2, <1>3, DeathIsCarried
<1>5. CASE ~s.task[t].is_user
  <2> DEFINE new == [s.task[t] EXCEPT !.state = "DEAD"]
  <2>1. new \in Task /\ Alike(new, s.task[t]) /\ ~new.is_user /\ new.pc = s.task[t].pc
    BY <1>1, <1>5 DEF Task, Alike
  <2>2. sch = WithTask(s, t, new)
    BY DEF Dead
  <2> HIDE DEF new, sch
  <2>3. Updated(sch, s, t, new)
    BY <2>1, <2>2, <1>1, Updates
  <2>4. Sound(sch) /\ Keeps(s, sch)
    BY <2>1, <2>3, <1>1, UpdateKeepsSound, UpdateKeeps
  <2>5. id = 0
    BY <1>1, <1>5 DEF Sound, OwnSpaces
  <2>6. ~IsLive(processes, id)
    <3>1. Tabled(processes) /\ 0 \notin ProcessIds
      BY DEF IInv, ProcessIds
    <3>2. Phase(processes, id) = "NONE"
      BY <2>5, <3>1, SlotOfPhase
    <3> QED
      BY <3>2, LiveByPhase DEF Live
  <2>7. processes' = processes
    BY <2>6, <1>2 DEF app_process_mark_exited
  <2>8. OwnersLive(services', processes')
    BY <2>7, <1>2 DEF IInv, OwnersLive
  <2>9. Keeps(s, s')
    BY <2>4, <1>3, KeepsTransitive
  <2> DEFINE u == s
  <2>10. /\ Keeps(u, s') /\ Matched(u, processes') /\ Ahead(u, g_next_pid', processes'.next)
         /\ Tabled(processes')
    BY <2>7, <2>9, <1>2 DEF IInv
  <2> HIDE DEF u
  <2> QED
    BY <2>4, <2>8, <2>10, <1>3, Carried
<1> QED
  BY <1>4, <1>5

LEMMA ExitCurrentUserKeeps ==
  ASSUME IInv, NEW exit_code \in {0, -1}, scheduler_exit_current_user(exit_code)
  PROVE  IInv'
<1> DEFINE sch == Dead(s, s.current)
           id == s.task[s.current].app_process_id
<1>1. /\ ReadyUser(s, s.current) /\ s.current \in DOMAIN s.task /\ Tabled(processes)
      /\ s.task[s.current].pc = "user"
  BY CurrentTyped DEF scheduler_exit_current_user, UserRuns, scheduler_current_is_user,
                      ReadyUser, Current, IInv
<1>2. /\ processes' = app_process_mark_exited(processes, id, exit_code)
      /\ services' = services \ {id} /\ UNCHANGED g_next_pid /\ schedule(sch)
  BY DEF scheduler_exit_current_user, Current
<1>3. Phase(processes, id) \in Live
  BY <1>1 DEF IInv, Matched, Live
<1>4. Transferred(processes', processes, id, "EXITED") /\ "EXITED" \in Terminal
  BY <1>1, <1>2, <1>3, MarkExitedTransfers DEF Terminal
<1>5. sch = Dead(s, s.current)
  OBVIOUS
<1> HIDE DEF sch
<1>6. Sound(sch) => Sound(s') /\ Keeps(sch, s')
  BY <1>2, ScheduleKeepsSound
<1> QED
  BY <1>1, <1>2, <1>4, <1>5, <1>6, DeathIsCarried

LEMMA FaultCurrentUserKeeps ==
  ASSUME IInv, scheduler_fault_current_user
  PROVE  IInv'
<1> DEFINE sch == Dead(s, s.current)
           id == s.task[s.current].app_process_id
<1>1. /\ ReadyUser(s, s.current) /\ s.current \in DOMAIN s.task /\ Tabled(processes)
      /\ s.task[s.current].pc = "user"
  BY CurrentTyped DEF scheduler_fault_current_user, UserRuns, scheduler_current_is_user,
                      ReadyUser, Current, IInv
<1>2. /\ processes' = app_process_record_fault(processes, id)
      /\ services' = services \ {id} /\ UNCHANGED g_next_pid /\ schedule(sch)
  BY DEF scheduler_fault_current_user, Current
<1>3. Phase(processes, id) \in Live
  BY <1>1 DEF IInv, Matched, Live
<1>4. Transferred(processes', processes, id, "FAULTED") /\ "FAULTED" \in Terminal
  BY <1>1, <1>2, <1>3, RecordFaultTransfers DEF Terminal
<1>5. sch = Dead(s, s.current)
  OBVIOUS
<1> HIDE DEF sch
<1>6. Sound(sch) => Sound(s') /\ Keeps(sch, s')
  BY <1>2, ScheduleKeepsSound
<1> QED
  BY <1>1, <1>2, <1>4, <1>5, <1>6, DeathIsCarried

\* Entering a process disturbs no live one.
LEMMA EnteredKeepsLive ==
  ASSUME NEW p, NEW u, Entered(u, p), NEW id, id # p.next,
         Phase(p, id) \in Live \/ Phase(u, id) \in Live
  PROVE  Phase(u, id) = Phase(p, id)
<1>1. Phase(p, id) # "NONE"
  BY DEF Entered, Live
<1>2. \/ Phase(u, id) = Phase(p, id)
      \/ Phase(u, id) = "NONE" /\ Phase(p, id) \in Terminal
  BY <1>1 DEF Entered, Forgot
<1> QED
  BY <1>2 DEF Live, Terminal

\* Both counters only grow, or stop.
LEMMA AheadOfMore ==
  ASSUME NEW sch, NEW pid, NEW p, Tabled(p), Ahead(sch, pid, p.next), sch \in Schedulers,
         NEW u, Entered(u, p)
  PROVE  Ahead(sch, pid, u.next)
<1>1. /\ p.next \in Int /\ p.next # 0 /\ u.next \in Int /\ (u.next = 0 \/ u.next > p.next)
  BY ProcessTableAssumption DEF Entered, Tabled, ProcessIds
<1>2. \A t \in DOMAIN sch.task : /\ sch.task[t].app_process_id \in Int
                                 /\ sch.task[t].app_process_id < p.next
  BY <1>1, TasksTyped, ProcessTableAssumption DEF Ahead, Task
<1> QED
  BY <1>1, <1>2 DEF Ahead

LEMMA LaunchFailsKeeps ==
  ASSUME IInv, LaunchFails
  PROVE  IInv'
<1> DEFINE p == processes
           u == app_process_track_loaded(p)
           id == processes.next
<1>1. Tabled(p) /\ CanTrack(p) /\ id = p.next
  BY DEF IInv, LaunchFails
<1>2. Entered(u, p)
  BY <1>1, TrackEnters
<1>3. processes' = app_process_release(u, id) /\ UNCHANGED <<s, g_next_pid, services>>
  BY DEF LaunchFails
<1>4. /\ Matched(s, p) /\ OwnersLive(services, p) /\ Ahead(s, g_next_pid, p.next)
      /\ s \in Schedulers
  BY CurrentTyped DEF IInv
<1> HIDE DEF p, u, id
<1>5. Phase(u, id) = "LOADED" /\ Phase(p, id) = "NONE" /\ Tabled(u)
  BY <1>1, <1>2 DEF Entered
<1>6. Transferred(processes', u, id, "NONE")
  BY <1>3, <1>5, ReleaseTransfers
<1>7. ASSUME NEW a, Phase(p, a) \in Live \/ Phase(processes', a) \in Live
      PROVE  Phase(processes', a) = Phase(p, a)
  <2>1. a # id
    BY <1>5, <1>6, <1>7 DEF Transferred, Live
  <2>2. Phase(processes', a) = Phase(u, a)
    BY <2>1, <1>6 DEF Transferred
  <2> QED
    BY <2>1, <2>2, <1>1, <1>2, <1>7, EnteredKeepsLive
<1>8. Matched(s, processes') /\ OwnersLive(services, processes')
  BY <1>4, <1>7 DEF Matched, OwnersLive, Live
<1>9. Ahead(s, g_next_pid, processes'.next)
  <2>1. Ahead(s, g_next_pid, u.next)
    BY <1>1, <1>2, <1>4, AheadOfMore
  <2> QED
    BY <2>1, <1>6 DEF Transferred
<1> QED
  BY <1>3, <1>6, <1>8, <1>9 DEF IInv, Transferred

LEMMA LaunchSucceedsKeeps ==
  ASSUME IInv, LaunchSucceeds
  PROVE  IInv'
<1> DEFINE p == processes
           u == app_process_track_loaded(p)
           id == processes.next
           pid == g_next_pid
           new == UserTask(id)
           spaces == s.spaces \cup {id}
           grown == [Inserted(s, pid, new) EXCEPT !.spaces = @ \cup {id}]
           c == s.current
           caller == [Current EXCEPT !.pc = "dispatch", !.awaited = id, !.dispatch = 0]
<1>1. Tabled(p) /\ CanTrack(p) /\ id = p.next
  BY DEF IInv, LaunchSucceeds
<1>2. Entered(u, p) /\ id \in ProcessIds
  BY <1>1, TrackEnters DEF Entered
<1>3. /\ processes' = app_process_mark_starting(u, id) /\ s' = WithTask(grown, c, caller)
      /\ services' \in {services, services \cup {id}}
  BY DEF LaunchSucceeds
<1>4. /\ Matched(s, p) /\ OwnersLive(services, p) /\ Ahead(s, pid, p.next)
      /\ s \in Schedulers /\ Sound(s) /\ c \in DOMAIN s.task /\ Current = s.task[c]
  BY CurrentTyped DEF IInv, Current
<1>5. /\ pid \in TaskIds /\ pid \notin DOMAIN s.task /\ g_next_pid' \in 0 .. TaskIdMax
      /\ (g_next_pid' # 0 => pid < g_next_pid') /\ \A t \in DOMAIN s.task : t < pid /\ t \in Int
  <2>1. pid \in 1 .. TaskIdMax /\ \A t \in DOMAIN s.task : t < pid
    BY <1>4, SchedulerAssumption DEF Ahead, LaunchSucceeds
  <2>2. g_next_pid' = IF pid = TaskIdMax THEN 0 ELSE pid + 1
    BY DEF LaunchSucceeds, NextPid
  <2>3. \A t \in DOMAIN s.task : t \in Int
    BY <1>4, TasksTyped DEF TaskIds
  <2> QED
    BY <2>1, <2>2, <2>3, SchedulerAssumption DEF TaskIds
<1>6. /\ new \in Task /\ new.pc = "entry" /\ new.fpu_state = ResetImage /\ new.state = "READY"
      /\ new.address_space = id /\ new.app_process_id = id /\ new.is_user = TRUE
  <2>1. /\ 0 \in 0 .. ProcessIdMax /\ 0 \in 0 .. APP_RUN_DISPATCH_BUDGET /\ 0 \in 0 .. TaskIdMax
        /\ 0 \in 0 .. SCHEDULER_USER_QUANTUM_TICKS /\ id \in 0 .. ProcessIdMax
    BY <1>2, SchedulerAssumption, ProcessTableAssumption DEF ProcessIds
  <2> QED
    BY <2>1 DEF UserTask, Task, Pcs, ResetImage
<1>7. /\ caller \in Task /\ Alike(caller, Current) /\ caller.pc = "dispatch"
      /\ caller.is_user = FALSE /\ Current.is_user = FALSE
  <2>1. /\ 0 \in 0 .. APP_RUN_DISPATCH_BUDGET /\ id \in 0 .. ProcessIdMax
    BY <1>2, SchedulerAssumption, ProcessTableAssumption DEF ProcessIds
  <2>2. Current \in Task /\ Current.pc # "entry" /\ ~Current.is_user
    BY CurrentTyped DEF LaunchSucceeds, KernelRuns
  <2> QED
    BY <2>1, <2>2 DEF Task, Pcs, Alike
<1>8. \A t \in DOMAIN s.task : s.task[t].app_process_id # id
  <2>1. \A t \in DOMAIN s.task : s.task[t].app_process_id \in Int
    BY <1>4, TasksTyped, ProcessTableAssumption DEF Task
  <2> QED
    BY <2>1, <1>1, <1>2, <1>4, ProcessTableAssumption DEF Ahead, ProcessIds
<1> HIDE DEF p, u, id, pid, new, caller, c
<1>9. Newborn(new, s, spaces)
  <2>1. id # 0
    BY <1>2, ProcessTableAssumption DEF ProcessIds
  <2> QED
    BY <2>1, <1>6, <1>8 DEF Newborn
<1>10. Grown(grown, s, pid, new, spaces)
  BY <1>2, <1>4, <1>5, <1>6, InsertGrows
<1> HIDE DEF grown, spaces
<1>11. Sound(grown)
  BY <1>4, <1>5, <1>6, <1>9, <1>10, GrowthKeepsSound
<1>12. grown \in Schedulers /\ c \in DOMAIN grown.task /\ grown.task[c] = Current
  BY <1>4, <1>10 DEF Grown
<1>13. Updated(s', grown, c, caller)
  BY <1>3, <1>7, <1>12, Updates
<1>14. Sound(s')
  BY <1>7, <1>11, <1>12, <1>13, UpdateKeepsSound
<1>15. /\ Phase(u, id) = "LOADED" /\ Phase(p, id) = "NONE" /\ Tabled(u)
  BY <1>1, <1>2 DEF Entered
<1>16. Transferred(processes', u, id, "STARTING")
  BY <1>3, <1>15, MarkStartingTransfers
<1>17. ASSUME NEW a, a # id, Phase(p, a) \in Live \/ Phase(processes', a) \in Live
       PROVE  Phase(processes', a) = Phase(p, a)
  <2>1. Phase(processes', a) = Phase(u, a)
    BY <1>16, <1>17 DEF Transferred
  <2> QED
    BY <2>1, <1>1, <1>2, <1>17, EnteredKeepsLive
<1>18. /\ DOMAIN s'.task = DOMAIN s.task \cup {pid} /\ s'.task[pid] = new
       /\ \A t \in DOMAIN s.task : /\ ReadyUser(s', t) <=> ReadyUser(s, t)
                                   /\ ReadyUser(s, t) => s'.task[t] = s.task[t]
                                   /\ s'.task[t].app_process_id = s.task[t].app_process_id
  <2>1. /\ DOMAIN s'.task = DOMAIN s.task \cup {pid} /\ s'.task[pid] = new /\ s'.task[c] = caller
        /\ \A t \in DOMAIN s.task : t # c => s'.task[t] = s.task[t]
    BY <1>4, <1>5, <1>10, <1>13 DEF Grown, Updated
  <2> QED
    BY <2>1, <1>4, <1>7 DEF ReadyUser, Alike
<1>19. Matched(s', processes')
  <2>1. ASSUME NEW t \in DOMAIN s'.task, ReadyUser(s', t)
        PROVE  Phase(processes', s'.task[t].app_process_id) =
                 IF s'.task[t].pc = "user" THEN "RUNNING" ELSE "STARTING"
    <3>1. CASE t = pid
      BY <3>1, <1>6, <1>16, <1>18 DEF Transferred
    <3>2. CASE t # pid
      <4>1. t \in DOMAIN s.task /\ ReadyUser(s, t) /\ s'.task[t] = s.task[t]
        BY <2>1, <3>2, <1>18
      <4>2. Phase(p, s.task[t].app_process_id) =
              IF s.task[t].pc = "user" THEN "RUNNING" ELSE "STARTING"
        BY <4>1, <1>4 DEF Matched
      <4>3. s.task[t].app_process_id # id
        BY <4>1, <1>8
      <4> QED
        BY <4>1, <4>2, <4>3, <1>17 DEF Live
    <3> QED
      BY <3>1, <3>2
  <2>2. ASSUME NEW a \in ProcessIds, Phase(processes', a) \in Live
        PROVE  \E t \in DOMAIN s'.task : ReadyUser(s', t) /\ s'.task[t].app_process_id = a
    <3>1. CASE a = id
      BY <3>1, <1>6, <1>18 DEF ReadyUser
    <3>2. CASE a # id
      <4>1. Phase(p, a) \in Live
        BY <2>2, <3>2, <1>17
      <4> QED
        BY <4>1, <1>4, <1>18 DEF Matched
    <3> QED
      BY <3>1, <3>2
  <2> QED
    BY <2>1, <2>2 DEF Matched
<1>20. OwnersLive(services', processes')
  <2>1. Phase(processes', id) \in Live
    BY <1>16 DEF Transferred, Live
  <2>2. \A a \in services : a \in ProcessIds /\ Phase(processes', a) \in Live
    <3> SUFFICES ASSUME NEW a \in services
                 PROVE  a \in ProcessIds /\ Phase(processes', a) \in Live
      OBVIOUS
    <3>1. a \in ProcessIds /\ Phase(p, a) \in Live
      BY <1>4 DEF OwnersLive
    <3> QED
      BY <3>1, <2>1, <1>17
  <2> QED
    BY <2>1, <2>2, <1>2, <1>3 DEF OwnersLive
<1>21. Ahead(s', g_next_pid', processes'.next)
  <2>1. Ahead(s, pid, u.next)
    BY <1>1, <1>2, <1>4, AheadOfMore
  <2>2. processes'.next = u.next /\ u.next \in Int /\ id \in Int
    BY <1>2, <1>15, <1>16, ProcessTableAssumption DEF Transferred, Tabled, ProcessIds
  <2>3. u.next # 0 => id < u.next
    BY <2>2, <1>1, <1>2 DEF Entered
  <2>4. g_next_pid' # 0 => \A t \in DOMAIN s'.task : t < g_next_pid'
    BY <1>5, <1>18 DEF TaskIds
  <2>5. u.next # 0 => \A t \in DOMAIN s'.task : s'.task[t].app_process_id < u.next
    BY <2>1, <2>3, <1>6, <1>18 DEF Ahead
  <2> QED
    BY <2>2, <2>4, <2>5, <1>5 DEF Ahead
<1> QED
  BY <1>14, <1>16, <1>19, <1>20, <1>21 DEF IInv, Transferred

----------------------------------------------------------------------------
(* The theorems *)

LEMMA InitIsSound ==
  ASSUME Init
  PROVE  IInv
<1> DEFINE k == [KernelTask EXCEPT !.pc = "kernel"]
           m == [t \in {1} |-> k]
<1>1. /\ k \in Task /\ k.pc = "kernel" /\ k.address_space = 0 /\ k.app_process_id = 0
      /\ k.is_user = FALSE
  <2>1. /\ 0 \in 0 .. ProcessIdMax /\ 0 \in 0 .. APP_RUN_DISPATCH_BUDGET
        /\ 0 \in 0 .. TaskIdMax /\ 0 \in 0 .. SCHEDULER_USER_QUANTUM_TICKS
    BY SchedulerAssumption, ProcessTableAssumption
  <2> QED
    BY <2>1 DEF KernelTask, Task, Pcs, ResetImage
<1> HIDE DEF k
<1>2. 1 \in TaskIds /\ 1 \in 0 .. TaskIdMax /\ 0 \in 0 .. ProcessIdMax
  BY SchedulerAssumption, ProcessTableAssumption DEF TaskIds
<1>3. m \in [{1} -> Task] /\ m[1] = k /\ DOMAIN m = {1}
  BY <1>1
<1>4. s = [ring |-> <<1>>, current |-> 1, task |-> m, spaces |-> {}, cr3 |-> 0, tss |-> 1,
           fpu |-> 1, broken |-> {}]
  BY DEF Init, k
<1> HIDE DEF m
<1>5. m \in UNION {[T -> Task] : T \in SUBSET TaskIds}
  <2>1. {1} \in SUBSET TaskIds
    BY <1>2
  <2> QED
    BY <2>1, <1>3, Zenon
<1>6. <<1>> \in Seq(TaskIds)
  BY <1>2
<1>7. /\ s \in Schedulers
      /\ s.ring = <<1>> /\ s.current = 1 /\ s.task = m /\ s.spaces = {} /\ s.cr3 = 0
      /\ s.tss = 1 /\ s.fpu = 1 /\ s.broken = {}
  BY <1>2, <1>4, <1>5, <1>6 DEF Schedulers
<1>8. Linked(s)
  <2>1. DOMAIN s.ring = {1} /\ s.ring[1] = 1
    BY <1>7
  <2> QED
    BY <2>1, <1>3, <1>7 DEF Linked, Once, InRing
<1>9. OwnSpaces(s)
  BY <1>1, <1>3, <1>7, ProcessTableAssumption DEF OwnSpaces, ProcessIds
<1>10. OwnContext(s)
  BY <1>1, <1>3, <1>7 DEF OwnContext
<1>11. /\ processes.slots = [i \in ProcessSlots |-> UnusedProcess]
       /\ processes.count = 0 /\ processes.next = 1
       /\ processes \in [slots : [ProcessSlots -> Process], count : Int, next : 0 .. ProcessIdMax]
  <2>1. UnusedProcess \in Process /\ 1 \in 0 .. ProcessIdMax
    BY ProcessTableAssumption DEF UnusedProcess, Process, ProcessStates
  <2> QED
    BY <2>1 DEF Init, app_process_table_reset
<1>12. UsedSlots(processes) = {}
  BY <1>11 DEF UsedSlots, SlotsIn, UnusedProcess
<1>13. Tabled(processes) /\ \A id : Phase(processes, id) = "NONE"
  BY <1>11, <1>12, PhaseOfNone DEF Tabled
<1>14. Matched(s, processes) /\ OwnersLive(services, processes)
  BY <1>1, <1>3, <1>7, <1>13 DEF Matched, OwnersLive, ReadyUser, Live, Init
<1>15. Ahead(s, g_next_pid, processes.next)
  <2>1. g_next_pid = IF 1 = TaskIdMax THEN 0 ELSE 2
    BY DEF Init, NextPid
  <2> QED
    BY <2>1, <1>1, <1>3, <1>7, <1>11, SchedulerAssumption DEF Ahead
<1> QED
  BY <1>7, <1>8, <1>9, <1>10, <1>13, <1>14, <1>15 DEF IInv, Sound

LEMMA NextKeepsIInv ==
  ASSUME IInv, [Next]_vars
  PROVE  IInv'
<1>1. CASE KernelYields
  BY <1>1, KernelYieldsKeeps
<1>2. CASE KernelStackOverflows
  BY <1>2, KernelStackOverflowsKeeps
<1>3. CASE spawn_named_task
  BY <1>3, SpawnKeeps
<1>4. CASE exit_current_task
  BY <1>4, ExitCurrentTaskKeeps
<1>5. CASE \E t \in TaskIds : scheduler_terminate_task(t)
  BY <1>5, TerminateTaskKeeps
<1>6. CASE \E id \in ProcessIds : scheduler_terminate_app_process(id)
  BY <1>6, TerminateTaskKeeps DEF scheduler_terminate_app_process
<1>7. CASE LaunchFails
  BY <1>7, LaunchFailsKeeps
<1>8. CASE LaunchSucceeds
  BY <1>8, LaunchSucceedsKeeps
<1>9. CASE Dispatch
  BY <1>9, DispatchKeeps
<1>10. CASE DispatchReturns
  BY <1>10, DispatchReturnsKeeps
<1>11. CASE BootstrapChecks
  BY <1>11, BootstrapChecksKeeps
<1>12. CASE BootstrapMarks
  BY <1>12, BootstrapMarksKeeps
<1>13. CASE UserAcquires
  BY <1>13, UserAcquiresKeeps
<1>14. CASE UserYields
  BY <1>14, UserYieldsKeeps
<1>15. CASE \E exit_code \in {0, -1} : scheduler_exit_current_user(exit_code)
  BY <1>15, ExitCurrentUserKeeps
<1>16. CASE scheduler_fault_current_user
  BY <1>16, FaultCurrentUserKeeps
<1>17. CASE scheduler_timer_tick
  BY <1>17, TimerTickKeeps
<1>18. CASE UNCHANGED vars
  BY <1>18 DEF vars, IInv
<1> QED
  BY <1>1, <1>2, <1>3, <1>4, <1>5, <1>6, <1>7, <1>8, <1>9, <1>10, <1>11, <1>12, <1>13, <1>14,
     <1>15, <1>16, <1>17, <1>18 DEF Next, Halted

\* The inductive invariant holds.
LEMMA AlwaysSound == Spec => []IInv
<1>1. Init => IInv
  BY InitIsSound
<1>2. IInv /\ [Next]_vars => IInv'
  BY NextKeepsIInv
<1> QED
  BY <1>1, <1>2, PTL DEF Spec

LEMMA SoundFreesNothingUsed ==
  ASSUME IInv
  PROVE  NothingFreedIsUsed
<1> USE DEF IInv, Sound
<1>1. InRing(s) = DOMAIN s.task /\ s.current \in InRing(s) /\ Once(s.ring)
  BY DEF Linked
<1>2. \A t \in InRing(s) : s.task[t] \in Task
  BY <1>1, TasksTyped
<1>3. ASSUME NEW a PROVE a \in s.spaces <=> a \in {s.task[t].address_space : t \in UserTasks}
  <2>1. s.spaces \subseteq ProcessIds /\ 0 \notin ProcessIds
    BY DEF Schedulers, ProcessIds
  <2>2. \A t \in InRing(s) : /\ s.task[t].is_user <=> s.task[t].address_space # 0
                             /\ s.task[t].address_space # 0 => s.task[t].address_space \in ProcessIds
    BY <1>1, <1>2, ProcessTableAssumption DEF OwnSpaces, Task, ProcessIds
  <2>3. \A b \in ProcessIds : b \in s.spaces <=> \E t \in InRing(s) : s.task[t].address_space = b
    BY <1>1 DEF OwnSpaces
  <2> QED
    BY <2>1, <2>2, <2>3 DEF UserTasks
<1>4. s.spaces = {s.task[t].address_space : t \in UserTasks}
  <2> DEFINE theirs == {s.task[t].address_space : t \in UserTasks}
  <2>1. \A a : a \in s.spaces <=> a \in theirs
    BY <1>3
  <2> HIDE DEF theirs
  <2>2. s.spaces = theirs
    BY <2>1, Zenon
  <2> QED
    BY <2>2 DEF theirs
<1>5. s.tss \in InRing(s) /\ s.cr3 \in s.spaces \cup {0}
  <2>1. s.tss = s.current /\ s.cr3 = s.task[s.current].address_space
    BY DEF OwnContext
  <2>2. s.cr3 = 0 \/ s.cr3 \in ProcessIds
    BY ProcessTableAssumption DEF Schedulers, ProcessIds
  <2>3. s.cr3 \in ProcessIds => s.cr3 \in s.spaces
    BY <2>1, <1>1 DEF OwnSpaces
  <2> QED
    BY <2>1, <2>2, <2>3, <1>1
<1> QED
  BY <1>1, <1>4, <1>5 DEF NothingFreedIsUsed, Once

\* The list, the heap and the processor agree at all times on what is alive,
\* however many tasks there are and whoever ends them.
THEOREM NothingFreedIsEverUsed == Spec => []NothingFreedIsUsed
<1>1. IInv => NothingFreedIsUsed
  BY SoundFreesNothingUsed
<1> QED
  BY <1>1, AlwaysSound, PTL

\* Every task always runs on its own page tables, interrupt stack and registers,
\* and finds them as it left them, through every sequence of switches.
THEOREM ContextIsAlwaysOwn == Spec => []ContextIsOwn
<1>1. IInv => ContextIsOwn
  BY DEF IInv, Sound, Linked, OwnContext, Kept, ContextIsOwn
<1> QED
  BY <1>1, AlwaysSound, PTL

LEMMA SoundMatches ==
  ASSUME IInv
  PROVE  TasksMatchProcesses
<1>1. /\ InRing(s) = DOMAIN s.task /\ Tabled(processes) /\ Matched(s, processes)
      /\ OwnersLive(services, processes) /\ Sound(s)
  BY DEF IInv, Sound, Linked
<1>2. \A t : t \in UserTasks \cap ReadyTasks <=> t \in DOMAIN s.task /\ ReadyUser(s, t)
  BY <1>1 DEF UserTasks, ReadyTasks, ReadyUser
<1>3. ASSUME NEW t \in UserTasks \cap ReadyTasks
      PROVE  IsIn(processes, s.task[t].app_process_id,
                  IF s.task[t].pc = "user" THEN {"RUNNING"} ELSE {"STARTING"})
  <2> DEFINE a == s.task[t].app_process_id
  <2>1. Phase(processes, a) = IF s.task[t].pc = "user" THEN "RUNNING" ELSE "STARTING"
    BY <1>1, <1>2, <1>3 DEF Matched
  <2>2. find_process(processes, a) # 0
    BY <2>1 DEF Phase
  <2>3. processes.slots[find_process(processes, a)].state = Phase(processes, a)
    BY <2>2 DEF Phase
  <2>4. CASE s.task[t].pc = "user"
    BY <2>1, <2>2, <2>3, <2>4 DEF IsIn
  <2>5. CASE s.task[t].pc # "user"
    BY <2>1, <2>2, <2>3, <2>5 DEF IsIn
  <2> QED
    BY <2>4, <2>5
<1>4. ASSUME NEW id \in ProcessIds, IsLive(processes, id)
      PROVE  Cardinality({t \in UserTasks \cap ReadyTasks : s.task[t].app_process_id = id}) = 1
  <2> DEFINE its == {t \in UserTasks \cap ReadyTasks : s.task[t].app_process_id = id}
  <2>1. Phase(processes, id) \in Live
    BY <1>4, LiveByPhase
  <2>2. PICK t \in DOMAIN s.task : ReadyUser(s, t) /\ s.task[t].app_process_id = id
    BY <2>1, <1>1 DEF Matched
  <2>3. t \in its
    BY <2>2, <1>2
  <2>4. ASSUME NEW u \in its PROVE u = t
    BY <2>2, <1>1, <1>2 DEF ReadyUser, Sound, OwnSpaces
  <2>5. its = {t}
    <3> HIDE DEF its
    <3> QED
      BY <2>3, <2>4
  <2> QED
    BY <2>5, FS_Singleton
<1>5. ASSUME NEW id \in services PROVE IsLive(processes, id) /\ id \in s.spaces
  <2>1. id \in ProcessIds /\ Phase(processes, id) \in Live
    BY <1>1 DEF OwnersLive
  <2>2. PICK t \in DOMAIN s.task : ReadyUser(s, t) /\ s.task[t].app_process_id = id
    BY <2>1, <1>1 DEF Matched
  <2>3. s.task[t].address_space = id
    BY <2>2, <1>1 DEF Sound, OwnSpaces
  <2> QED
    BY <2>1, <2>3, <1>1, LiveByPhase DEF Sound, OwnSpaces
<1> QED
  BY <1>3, <1>4, <1>5 DEF TasksMatchProcesses

\* Ready user tasks and live processes correspond one to one at all times, and
\* only live processes own anything.
THEOREM TasksAlwaysMatchProcesses == Spec => []TasksMatchProcesses
<1>1. IInv => TasksMatchProcesses
  BY SoundMatches
<1> QED
  BY <1>1, AlwaysSound, PTL

LEMMA FoundByPhase ==
  ASSUME NEW p, Tabled(p), NEW id
  PROVE  find_process(p, id) # 0 <=> Phase(p, id) # "NONE"
<1>1. ASSUME find_process(p, id) # 0 PROVE Phase(p, id) # "NONE"
  <2>1. PICK i \in UsedSlots(p) : p.slots[i].process_id = id
    BY <1>1 DEF find_process
  <2>2. Phase(p, id) = p.slots[i].state
    BY <2>1, PhaseOfSlot
  <2> QED
    BY <2>2 DEF UsedSlots, SlotsIn, ProcessStates
<1>2. ASSUME Phase(p, id) # "NONE" PROVE find_process(p, id) # 0
  BY <1>2 DEF Phase
<1> QED
  BY <1>1, <1>2

\* A launch, failed or not, forgets at most the oldest finished process: v is the
\* table after the launch, u the one in which the new process is LOADED.
LEMMA LaunchForgetsOldest ==
  ASSUME NEW p, Tabled(p), NEW u, Entered(u, p), NEW st, st \notin Terminal,
         NEW v, Transferred(v, u, p.next, st), NEW id,
         find_process(p, id) # 0, find_process(v, id) = 0
  PROVE  /\ IsIn(p, id, Terminal)
         /\ \A kept \in ProcessIds : IsIn(v, kept, Terminal) => id < kept
<1>1. Tabled(v)
  BY DEF Transferred
<1>2. Phase(p, id) # "NONE" /\ Phase(v, id) = "NONE"
  BY <1>1, FoundByPhase
<1>3. id # p.next
  BY <1>2 DEF Entered
<1>4. Phase(v, id) = Phase(u, id)
  BY <1>3 DEF Transferred
<1>5. /\ Phase(p, id) \in Terminal
      /\ \A kept : Phase(u, kept) \in Terminal => id < kept
  BY <1>2, <1>4 DEF Entered, Forgot
<1>6. "NONE" \notin Terminal
  BY DEF Terminal
<1>7. ASSUME NEW kept \in ProcessIds, IsIn(v, kept, Terminal) PROVE id < kept
  <2>1. Phase(v, kept) \in Terminal
    BY <1>6, <1>7, IsInByPhase
  <2>2. Phase(u, kept) \in Terminal
    BY <2>1 DEF Transferred
  <2> QED
    BY <2>2, <1>5
<1> QED
  BY <1>5, <1>6, <1>7, IsInByPhase

\* No other step takes an id from the counter.
LEMMA OthersTakeNoId ==
  ASSUME [Next]_vars, ~LaunchFails, ~LaunchSucceeds
  PROVE  processes'.next = processes.next
<1> USE DEF Moved
<1>1. CASE \E t \in TaskIds : scheduler_terminate_task(t)
  BY <1>1 DEF scheduler_terminate_task, app_process_mark_exited
<1>2. CASE \E id \in ProcessIds : scheduler_terminate_app_process(id)
  BY <1>2 DEF scheduler_terminate_app_process, scheduler_terminate_task, app_process_mark_exited
<1>3. CASE BootstrapMarks
  BY <1>3 DEF BootstrapMarks, app_process_mark_running
<1>4. CASE \E exit_code \in {0, -1} : scheduler_exit_current_user(exit_code)
  BY <1>4 DEF scheduler_exit_current_user, app_process_mark_exited
<1>5. CASE scheduler_fault_current_user
  BY <1>5 DEF scheduler_fault_current_user, app_process_record_fault
<1>6. CASE KernelYields \/ KernelStackOverflows \/ spawn_named_task \/ exit_current_task
  BY <1>6 DEF KernelYields, KernelStackOverflows, spawn_named_task, exit_current_task
<1>7. CASE Dispatch \/ DispatchReturns \/ BootstrapChecks \/ UserAcquires \/ UserYields
  BY <1>7 DEF Dispatch, DispatchReturns, BootstrapChecks, UserAcquires, UserYields
<1>8. CASE scheduler_timer_tick \/ Halted \/ UNCHANGED vars
  BY <1>8 DEF scheduler_timer_tick, Halted, vars
<1> QED
  BY <1>1, <1>2, <1>3, <1>4, <1>5, <1>6, <1>7, <1>8 DEF Next

\* Whatever a launch makes the table forget has finished, and was launched before
\* every process whose outcome the table still holds.
THEOREM OnlyTheOldestIsForgotten == Spec => [][ForgetsOldestFinished]_vars
<1>1. ASSUME IInv, [Next]_vars PROVE ForgetsOldestFinished
  <2> SUFFICES ASSUME NEW id \in ProcessIds, processes'.next # processes.next,
                      find_process(processes, id) # 0, find_process(processes', id) = 0
               PROVE  /\ IsIn(processes, id, Terminal)
                      /\ \A kept \in ProcessIds : IsIn(processes', kept, Terminal) => id < kept
    BY DEF ForgetsOldestFinished
  <2> DEFINE p == processes
             u == app_process_track_loaded(p)
             v == processes'
  <2>1. Tabled(p)
    BY <1>1 DEF IInv
  <2>2. LaunchFails \/ LaunchSucceeds
    BY <1>1, OthersTakeNoId
  <2>3. CanTrack(p)
    BY <2>2 DEF LaunchFails, LaunchSucceeds
  <2>4. Entered(u, p)
    BY <2>1, <2>3, TrackEnters
  <2>5. Phase(u, p.next) = "LOADED" /\ Tabled(u)
    BY <2>4 DEF Entered
  <2>6. v = app_process_release(u, p.next) \/ v = app_process_mark_starting(u, p.next)
    BY <2>2 DEF LaunchFails, LaunchSucceeds
  <2>7. find_process(p, id) # 0 /\ find_process(v, id) = 0
    OBVIOUS
  <2> HIDE DEF p, u, v
  <2>8. \E st : st \notin Terminal /\ Transferred(v, u, p.next, st)
    <3>1. CASE v = app_process_release(u, p.next)
      BY <3>1, <2>5, ReleaseTransfers DEF Terminal
    <3>2. CASE v = app_process_mark_starting(u, p.next)
      BY <3>2, <2>5, MarkStartingTransfers DEF Terminal
    <3> QED
      BY <2>6, <3>1, <3>2
  <2>9. /\ IsIn(p, id, Terminal)
        /\ \A kept \in ProcessIds : IsIn(v, kept, Terminal) => id < kept
    BY <2>1, <2>4, <2>7, <2>8, LaunchForgetsOldest
  <2> QED
    BY <2>9 DEF p, v
<1> QED
  BY <1>1, AlwaysSound, PTL DEF Spec

----------------------------------------------------------------------------
(* The process listing *)

Counted(p) == p.count = Cardinality(UsedSlots(p))

LEMMA UsedSlotsFinite ==
  ASSUME NEW p
  PROVE  /\ IsFiniteSet(UsedSlots(p)) /\ Cardinality(UsedSlots(p)) \in Nat
         /\ UsedSlots(p) \in SUBSET ProcessSlots
<1>1. IsFiniteSet(ProcessSlots)
  BY FS_Interval, ProcessTableAssumption DEF ProcessSlots
<1>2. UsedSlots(p) \in SUBSET ProcessSlots
  BY DEF UsedSlots, SlotsIn
<1>3. IsFiniteSet(UsedSlots(p))
  BY <1>1, <1>2, FS_Subset
<1> QED
  BY <1>2, <1>3, FS_CardinalityType

\* A process that moves on keeps its slot.
LEMMA MovedCounts ==
  ASSUME NEW p, Tabled(p), Counted(p), NEW id, Phase(p, id) # "NONE",
         NEW st \in ProcessStates \ {"UNUSED"}, NEW exit_code
  PROVE  Counted(Moved(p, id, st, exit_code))
<1> DEFINE i == find_process(p, id)
           new == [state |-> st, process_id |-> id, exit_code |-> exit_code]
           u == Moved(p, id, st, exit_code)
<1>1. i \in UsedSlots(p) /\ i \in ProcessSlots
  BY SlotOfPhase DEF UsedSlots, SlotsIn
<1>2. u.slots = [p.slots EXCEPT ![i] = new] /\ u.count = p.count /\ new.state = st
  BY DEF Moved
<1>3. p.slots \in [ProcessSlots -> Process]
  BY DEF Tabled
<1> HIDE DEF i, new, u
<1>4. ASSUME NEW j \in ProcessSlots PROVE j \in UsedSlots(u) <=> j \in UsedSlots(p)
  BY <1>1, <1>2, <1>3 DEF UsedSlots, SlotsIn
<1>5. UsedSlots(u) = UsedSlots(p)
  BY <1>4, UsedSlotsFinite
<1>6. Counted(u)
  BY <1>2, <1>5 DEF Counted
<1> QED
  BY <1>6 DEF u

LEMMA MarksCount ==
  ASSUME NEW p, Tabled(p), Counted(p), NEW id, NEW exit_code
  PROVE  /\ Counted(app_process_mark_starting(p, id))
         /\ Counted(app_process_mark_running(p, id))
         /\ Counted(app_process_mark_exited(p, id, exit_code))
         /\ Counted(app_process_record_fault(p, id))
<1>1. \A S : "NONE" \notin S /\ IsIn(p, id, S) => Phase(p, id) # "NONE"
  BY IsInByPhase
<1>2. ASSUME NEW S \in {{"LOADED"}, {"STARTING"}, Live}, IsIn(p, id, S) PROVE Phase(p, id) # "NONE"
  BY <1>1, <1>2 DEF Live
<1>3. {"STARTING", "RUNNING", "EXITED", "FAULTED"} \subseteq ProcessStates \ {"UNUSED"}
  BY DEF ProcessStates
<1>4. Counted(app_process_mark_starting(p, id))
  BY <1>2, <1>3, MovedCounts DEF app_process_mark_starting
<1>5. Counted(app_process_mark_running(p, id))
  BY <1>2, <1>3, MovedCounts DEF app_process_mark_running
<1>6. Counted(app_process_mark_exited(p, id, exit_code))
  BY <1>2, <1>3, MovedCounts DEF app_process_mark_exited, IsLive
<1>7. Counted(app_process_record_fault(p, id))
  BY <1>2, <1>3, MovedCounts DEF app_process_record_fault, IsLive
<1> QED
  BY <1>4, <1>5, <1>6, <1>7

LEMMA ReleaseCounts ==
  ASSUME NEW p, Tabled(p), Counted(p), NEW id, Phase(p, id) = "LOADED"
  PROVE  Counted(app_process_release(p, id))
<1> DEFINE i == find_process(p, id)
           u == app_process_release(p, id)
<1>1. i \in UsedSlots(p) /\ i \in ProcessSlots
  BY SlotOfPhase DEF UsedSlots, SlotsIn
<1>2. u.slots = [p.slots EXCEPT ![i] = UnusedProcess] /\ u.count = p.count - 1
  <2>1. IsIn(p, id, Terminal \cup {"LOADED"})
    BY DEF IsIn, Phase
  <2> QED
    BY <2>1 DEF app_process_release
<1>3. p.slots \in [ProcessSlots -> Process] /\ UnusedProcess.state = "UNUSED"
  BY DEF Tabled, UnusedProcess
<1> HIDE DEF i, u
<1>4. ASSUME NEW j \in ProcessSlots PROVE j \in UsedSlots(u) <=> j \in UsedSlots(p) \ {i}
  BY <1>1, <1>2, <1>3 DEF UsedSlots, SlotsIn
<1>5. UsedSlots(u) = UsedSlots(p) \ {i}
  BY <1>4, UsedSlotsFinite
<1>6. Cardinality(UsedSlots(p) \ {i}) = Cardinality(UsedSlots(p)) - 1
  BY <1>1, UsedSlotsFinite, FS_RemoveElement
<1>7. Counted(u)
  BY <1>2, <1>5, <1>6 DEF Counted
<1> QED
  BY <1>7 DEF u

\* A new process takes a slot more only when there is a free one.
LEMMA TrackCounts ==
  ASSUME NEW p, Tabled(p), Counted(p), CanTrack(p)
  PROVE  Counted(app_process_track_loaded(p))
<1> DEFINE k == SlotForNew(p)
           new == [state |-> "LOADED", process_id |-> p.next, exit_code |-> 0]
           u == app_process_track_loaded(p)
           free == SlotsIn(p, {"UNUSED"})
<1>1. /\ u.slots = [p.slots EXCEPT ![k] = new]
      /\ u.count = IF find_free_slot(p) # 0 THEN p.count + 1 ELSE p.count
      /\ new.state = "LOADED"
  BY DEF app_process_track_loaded
<1>2. k \in ProcessSlots /\ p.slots \in [ProcessSlots -> Process] /\ "LOADED" \in ProcessStates \ {"UNUSED"}
  BY SlotIsFreeOrOldest DEF CanTrack, Tabled, ProcessStates
<1>3. find_free_slot(p) # 0 <=> k \notin UsedSlots(p)
  <2>1. free \in SUBSET Nat /\ 0 \notin free
    BY ProcessTableAssumption DEF SlotsIn, ProcessSlots
  <2>2. CASE free # {}
    <3>1. \E i \in free : \A j \in free : i <= j
      BY <2>1, <2>2, LeastOf
    <3>2. find_free_slot(p) \in free
      BY <3>1, <2>2 DEF find_free_slot
    <3>3. k = find_free_slot(p)
      BY <2>1, <3>2 DEF SlotForNew
    <3>4. k \in free
      BY <3>2, <3>3
    <3> QED
      BY <2>1, <3>2, <3>4 DEF UsedSlots, SlotsIn
  <2>3. CASE free = {}
    <3>1. find_free_slot(p) = 0
      BY <2>3 DEF find_free_slot
    <3>2. p.slots[k].state # "UNUSED" /\ p.slots[k].state \in ProcessStates
      BY <1>2, <2>3 DEF SlotsIn, Process
    <3> QED
      BY <1>2, <3>1, <3>2 DEF UsedSlots, SlotsIn
  <2> QED
    BY <2>2, <2>3
<1> HIDE DEF k, new, u, free
<1>4. ASSUME NEW j \in ProcessSlots PROVE j \in UsedSlots(u) <=> j \in UsedSlots(p) \cup {k}
  BY <1>1, <1>2 DEF UsedSlots, SlotsIn
<1>5. UsedSlots(u) = UsedSlots(p) \cup {k}
  BY <1>2, <1>4, UsedSlotsFinite
<1>6. Cardinality(UsedSlots(p) \cup {k}) =
        IF k \in UsedSlots(p) THEN Cardinality(UsedSlots(p)) ELSE Cardinality(UsedSlots(p)) + 1
  BY UsedSlotsFinite, FS_AddElement
<1>7. Counted(u)
  BY <1>1, <1>3, <1>5, <1>6 DEF Counted
<1> QED
  BY <1>7 DEF u

LEMMA CountedInit ==
  ASSUME Init PROVE Counted(processes)
<1>1. processes = app_process_table_reset
  BY DEF Init
<1>2. UsedSlots(processes) = {} /\ processes.count = 0
  BY <1>1 DEF app_process_table_reset, UsedSlots, SlotsIn, UnusedProcess
<1> QED
  BY <1>2, FS_EmptySet DEF Counted

LEMMA CountedStep ==
  ASSUME IInv, Counted(processes), [Next]_vars PROVE Counted(processes')
<1> DEFINE p == processes
           u == app_process_track_loaded(p)
<1>1. Tabled(p)
  BY DEF IInv
<1>2. CASE \E t \in TaskIds : scheduler_terminate_task(t)
  BY <1>1, <1>2, MarksCount DEF scheduler_terminate_task
<1>3. CASE \E id \in ProcessIds : scheduler_terminate_app_process(id)
  BY <1>1, <1>3, MarksCount DEF scheduler_terminate_app_process, scheduler_terminate_task
<1>4. CASE BootstrapMarks
  BY <1>1, <1>4, MarksCount DEF BootstrapMarks
<1>5. CASE \E exit_code \in {0, -1} : scheduler_exit_current_user(exit_code)
  BY <1>1, <1>5, MarksCount DEF scheduler_exit_current_user
<1>6. CASE scheduler_fault_current_user
  BY <1>1, <1>6, MarksCount DEF scheduler_fault_current_user
<1>7. CASE KernelYields \/ KernelStackOverflows \/ spawn_named_task \/ exit_current_task
  BY <1>7 DEF KernelYields, KernelStackOverflows, spawn_named_task, exit_current_task
<1>8. CASE Dispatch \/ DispatchReturns \/ BootstrapChecks \/ UserAcquires \/ UserYields
  BY <1>8 DEF Dispatch, DispatchReturns, BootstrapChecks, UserAcquires, UserYields
<1>9. CASE scheduler_timer_tick \/ Halted \/ UNCHANGED vars
  BY <1>9 DEF scheduler_timer_tick, Halted, vars
<1>10. CASE LaunchFails \/ LaunchSucceeds
  <2>1. /\ CanTrack(p)
        /\ processes' = app_process_release(u, p.next) \/ processes' = app_process_mark_starting(u, p.next)
    BY <1>10 DEF LaunchFails, LaunchSucceeds
  <2>2. Entered(u, p) /\ Counted(u)
    BY <1>1, <2>1, TrackEnters, TrackCounts
  <2>3. Tabled(u) /\ Phase(u, p.next) = "LOADED"
    BY <2>2 DEF Entered
  <2> HIDE DEF u
  <2> QED
    BY <2>1, <2>2, <2>3, MarksCount, ReleaseCounts
<1> QED
  BY <1>2, <1>3, <1>4, <1>5, <1>6, <1>7, <1>8, <1>9, <1>10 DEF Next
\* A property of numbers that holds of 0 and of the successor of every number that
\* has it holds of all; the property is given as the set of numbers that have it.
LEMMA Counting ==
  ASSUME NEW P \in SUBSET Nat, 0 \in P, \A n \in P : n + 1 \in P
  PROVE  P = Nat
<1> DEFINE S == Nat \ P
<1> SUFFICES ASSUME S # {} PROVE FALSE
  OBVIOUS
<1>1. PICK least \in S : \A y \in S : least <= y
  BY LeastOf
<1>2. least # 0 /\ least - 1 \in Nat /\ least - 1 \notin S
  BY <1>1
<1>3. (least - 1) + 1 \in P
  BY <1>2
<1> QED
  BY <1>2, <1>3

\* The number of members of I up to x.
Rank(I, x) == Cardinality({j \in I : j <= x})

\* The least of a set of ids, as the code's scan for it finds it.
LEMMA LeastId ==
  ASSUME NEW S \in SUBSET Nat, S # {}
  PROVE  LET y == CHOOSE id \in S : \A other \in S : id <= other
         IN  y \in S /\ \A other \in S : y <= other
<1>1. \E id \in S : \A other \in S : id <= other
  BY LeastOf
<1> QED
  BY <1>1

\* The least member above x is the next by rank; when there is none, x has them all.
LEMMA NextByRank ==
  \A n \in Nat : \A I \in SUBSET (1 .. n) : \A x \in Nat : \A y :
    LET later == I \ (0 .. x)
    IN  (later # {} => y \in later /\ \A other \in later : y <= other)
          => /\ Rank(I, x) \in 0 .. Cardinality(I)
             /\ later = {} => Rank(I, x) = Cardinality(I)
             /\ later # {} => y \in I /\ y > x /\ Rank(I, y) = Rank(I, x) + 1
<1> SUFFICES ASSUME NEW n \in Nat, NEW I \in SUBSET (1 .. n), NEW x \in Nat, NEW y,
                    NEW later, later = I \ (0 .. x),
                    later # {} => y \in later /\ \A other \in later : y <= other
             PROVE  /\ Rank(I, x) \in 0 .. Cardinality(I)
                    /\ later = {} => Rank(I, x) = Cardinality(I)
                    /\ later # {} => y \in I /\ y > x /\ Rank(I, y) = Rank(I, x) + 1
  BY Zenon
<1> DEFINE Upto(z) == {j \in I : j <= z}
<1>1. IsFiniteSet(I) /\ Cardinality(I) \in Nat
  <2>1. IsFiniteSet(1 .. n)
    BY FS_Interval
  <2>2. IsFiniteSet(I)
    BY <2>1, FS_Subset
  <2> QED
    BY <2>2, FS_CardinalityType
<1>2. ASSUME NEW z \in Nat
      PROVE  IsFiniteSet(Upto(z)) /\ Cardinality(Upto(z)) \in 0 .. Cardinality(I)
  <2>1. Upto(z) \in SUBSET I
    OBVIOUS
  <2> HIDE DEF Upto
  <2>2. IsFiniteSet(Upto(z)) /\ Cardinality(Upto(z)) <= Cardinality(I)
    BY <1>1, <2>1, FS_Subset
  <2>3. Cardinality(Upto(z)) \in Nat
    BY <2>2, FS_CardinalityType
  <2> QED
    BY <1>1, <2>2, <2>3
<1>3. \A j \in I : j \in Nat
  OBVIOUS
<1>4. CASE later = {}
  <2>1. Upto(x) = I
    <3>1. ASSUME NEW j \in I PROVE j <= x
      BY <1>3, <1>4
    <3> QED
      BY <3>1
  <2> QED
    BY <1>2, <1>4, <2>1 DEF Rank
<1>5. CASE later # {}
  <2>2. y \in later /\ \A other \in later : y <= other
    BY <1>5
  <2>3. y \in I /\ y \in Nat /\ y > x
    <3>1. y \in later
      BY <2>2
    <3>2. y \in I /\ y \notin 0 .. x
      BY ONLY <3>1, later = I \ (0 .. x)
    <3>3. y \in Nat
      BY ONLY <1>3, <3>2
    <3> QED
      BY ONLY <3>2, <3>3, x \in Nat
  <2>4. ASSUME NEW j \in I PROVE j <= y <=> j <= x \/ j = y
    BY <1>3, <2>2, <2>3
  <2>5. Upto(y) = Upto(x) \cup {y} /\ y \notin Upto(x)
    <3>1. ~ (y <= x)
      BY <2>3
    <3> QED
      BY <2>3, <2>4, <3>1
  <2> HIDE DEF Upto
  <2>6. Cardinality(Upto(x) \cup {y}) = Cardinality(Upto(x)) + 1
    BY <1>2, <2>5, FS_AddElement
  <2>7. Rank(I, y) = Rank(I, x) + 1
    BY <2>5, <2>6 DEF Rank, Upto
  <2>8. Rank(I, x) \in 0 .. Cardinality(I)
    BY <1>2 DEF Rank, Upto
  <2> QED
    BY <1>5, <2>3, <2>7, <2>8
<1> QED
  BY <1>4, <1>5

\* A higher rank is a larger member.
LEMMA RankIsMonotone ==
  ASSUME NEW n \in Nat, NEW I \in SUBSET (1 .. n), NEW x \in I, NEW y \in I,
         Rank(I, x) < Rank(I, y)
  PROVE  x < y
<1> SUFFICES ASSUME y <= x PROVE FALSE
  OBVIOUS
<1> DEFINE U == {j \in I : j <= x}
           V == {j \in I : j <= y}
<1>1. \A j \in I : j \in Nat
  OBVIOUS
<1>2. V \in SUBSET U /\ U \in SUBSET I
  <2>1. ASSUME NEW j \in I, j <= y PROVE j <= x
    BY <1>1, <2>1
  <2> QED
    BY <2>1
<1>3. IsFiniteSet(I)
  <2>1. IsFiniteSet(1 .. n)
    BY FS_Interval
  <2> QED
    BY <2>1, FS_Subset
<1>4. Rank(I, x) = Cardinality(U) /\ Rank(I, y) = Cardinality(V)
  BY DEF Rank
<1> HIDE DEF U, V
<1>5. IsFiniteSet(U)
  BY <1>2, <1>3, FS_Subset
<1>6. Cardinality(V) <= Cardinality(U) /\ IsFiniteSet(V)
  BY <1>2, <1>5, FS_Subset
<1>7. Cardinality(V) \in Nat /\ Cardinality(U) \in Nat
  BY <1>5, <1>6, FS_CardinalityType
<1> QED
  BY <1>4, <1>6, <1>7

\* f lists the ids of p up to index n.
Lists(p, n, f) ==
  f = [index \in 0 .. n |->
         IF index = 0 THEN NextProcessId(p, 0) ELSE NextProcessId(p, f[index - 1])]

LEMMA ListingExists ==
  ASSUME NEW p PROVE \A n \in Nat : \E f : Lists(p, n, f)
<1> DEFINE P == {n \in Nat : \E f : Lists(p, n, f)}
<1>1. 0 \in P
  <2> DEFINE f == [index \in 0 .. 0 |-> NextProcessId(p, 0)]
  <2>1. Lists(p, 0, f)
    BY DEF Lists
  <2> HIDE DEF f
  <2> QED
    BY <2>1
<1>2. ASSUME NEW n \in P PROVE n + 1 \in P
  <2>1. PICK f : Lists(p, n, f)
    OBVIOUS
  <2> DEFINE last == NextProcessId(p, f[n])
             g == [index \in 0 .. n + 1 |-> IF index = n + 1 THEN last ELSE f[index]]
             h == [index \in 0 .. n + 1 |->
                     IF index = 0 THEN NextProcessId(p, 0) ELSE NextProcessId(p, g[index - 1])]
  <2>2. ASSUME NEW index \in 0 .. n + 1 PROVE g[index] = h[index]
    <3>1. n \in Nat
      OBVIOUS
    <3>2. CASE index = n + 1
      <4>1. g[index] = last /\ g[index - 1] = f[n] /\ index - 1 = n
        BY <3>1, <3>2
      <4> QED
        BY <3>1, <3>2, <4>1
    <3>3. CASE index = 0
      <4>1. g[index] = f[index] /\ index \in 0 .. n
        BY <3>1, <3>3
      <4>2. f[index] = NextProcessId(p, 0)
        BY <2>1, <3>3, <4>1 DEF Lists
      <4> QED
        BY <3>1, <3>3, <4>1, <4>2
    <3>4. CASE index \in 1 .. n
      <4>1. g[index] = f[index] /\ g[index - 1] = f[index - 1] /\ index \in 0 .. n
        BY <3>1, <3>4
      <4>2. f[index] = NextProcessId(p, f[index - 1])
        BY <2>1, <3>1, <3>4, <4>1 DEF Lists
      <4>3. h[index] = NextProcessId(p, g[index - 1])
        BY <3>1, <3>4
      <4> QED
        BY <4>1, <4>2, <4>3
    <3> QED
      BY <3>1, <3>2, <3>3, <3>4
  <2>3. g = h
    BY <2>2
  <2>4. Lists(p, n + 1, g)
    BY <2>3 DEF Lists
  <2> HIDE DEF g
  <2> QED
    BY <2>4
<1>3. P = Nat
  <2>1. P \in SUBSET Nat
    OBVIOUS
  <2> HIDE DEF P
  <2> QED
    BY <1>1, <1>2, <2>1, Counting
<1> QED
  BY <1>3

LEMMA SnapshotLists ==
  ASSUME NEW p, p.count \in Nat PROVE Lists(p, p.count, app_process_snapshot(p))
<1>1. \E f : Lists(p, p.count, f)
  BY ListingExists
<1>2. app_process_snapshot(p) = CHOOSE f : Lists(p, p.count, f)
  BY Zenon DEF app_process_snapshot, Lists
<1> QED
  BY <1>1, <1>2, Zenon
\* app_process_snapshot lists the ids in the table by their rank.
LEMMA SnapshotIsComplete ==
  ASSUME NEW p, Tabled(p), Counted(p)
  PROVE  LET listed == app_process_snapshot(p)
             shown == 0 .. p.count - 1
         IN  /\ {listed[i] : i \in shown} = {p.slots[i].process_id : i \in UsedSlots(p)}
             /\ \A i, j \in shown : i < j => listed[i] < listed[j]
             /\ listed[p.count] = 0
<1> DEFINE I == {p.slots[i].process_id : i \in UsedSlots(p)}
           N == p.count
           f == app_process_snapshot(p)
<1>1. /\ I \in SUBSET (1 .. ProcessIdMax) /\ ProcessIdMax \in Nat
      /\ \A x \in I : x \in Nat /\ x > 0
  BY ProcessTableAssumption DEF Tabled, UsedSlots, SlotsIn, Process
<1>2. N \in Nat /\ Cardinality(I) = N
  <2> DEFINE g == [i \in UsedSlots(p) |-> p.slots[i].process_id]
  <2>1. g \in Bijection(UsedSlots(p), I)
    BY DEF Tabled, Bijection, Injection, Surjection, IsInjective
  <2> HIDE DEF g, I
  <2>2. Cardinality(I) = Cardinality(UsedSlots(p))
    BY <2>1, UsedSlotsFinite, FS_Bijection DEF ExistsBijection
  <2> QED
    BY <2>2, UsedSlotsFinite DEF Counted
<1>3. /\ f[0] = NextProcessId(p, 0)
      /\ \A k \in 1 .. N : f[k] = NextProcessId(p, f[k - 1])
  <2>1. Lists(p, N, f)
    BY <1>2, SnapshotLists
  <2> HIDE DEF f, N
  <2> QED
    BY <1>2, <2>1 DEF Lists
<1>4. \A x : NextProcessId(p, x) =
               LET later == I \ (0 .. x)
               IN  IF later = {} THEN 0 ELSE CHOOSE id \in later : \A other \in later : id <= other
  BY DEF NextProcessId
<1> HIDE DEF I, N, f
\* What follows an id of rank r, or the beginning, of rank 0.
<1>5. ASSUME NEW x \in Nat
      PROVE  /\ Rank(I, x) = N => NextProcessId(p, x) = 0
             /\ Rank(I, x) # N => /\ NextProcessId(p, x) \in I
                                  /\ Rank(I, NextProcessId(p, x)) = Rank(I, x) + 1
  <2> DEFINE later == I \ (0 .. x)
             y == CHOOSE id \in later : \A other \in later : id <= other
  <2>1. /\ later = {} => Rank(I, x) = Cardinality(I)
        /\ later # {} => y \in I /\ Rank(I, y) = Rank(I, x) + 1
        /\ Rank(I, x) \in 0 .. Cardinality(I)
    <3>1. /\ later = I \ (0 .. x)
          /\ later # {} => y \in later /\ \A other \in later : y <= other
      BY <1>1, LeastId
    <3> HIDE DEF later, y
    <3>2. I \in SUBSET (1 .. ProcessIdMax) /\ ProcessIdMax \in Nat
      BY <1>1
    <3> QED
      BY <3>1, <3>2, NextByRank, Zenon
  <2>2. NextProcessId(p, x) = IF later = {} THEN 0 ELSE y
    BY <1>4
  <2> HIDE DEF later, y
  <2>3. later # {} => Rank(I, y) \in 0 .. Cardinality(I)
    <3> SUFFICES ASSUME later # {} PROVE Rank(I, y) \in 0 .. Cardinality(I)
      OBVIOUS
    <3> DEFINE above == I \ (0 .. y)
               z == CHOOSE id \in above : \A other \in above : id <= other
    <3>1. /\ y \in Nat /\ above = I \ (0 .. y)
          /\ above # {} => z \in above /\ \A other \in above : z <= other
      BY <1>1, <2>1, LeastId
    <3> HIDE DEF above, z
    <3> QED
      BY <1>1, <3>1, NextByRank, Zenon
  <2> QED
    BY <1>2, <2>1, <2>2, <2>3
<1>6. Rank(I, 0) = 0
  <2>1. ASSUME NEW j \in I PROVE ~ (j <= 0)
    BY <1>1
  <2>2. {j \in I : j <= 0} = {}
    BY <2>1
  <2> QED
    BY <2>2, FS_EmptySet DEF Rank
<1> DEFINE P == {k \in Nat : k < N => f[k] \in I /\ Rank(I, f[k]) = k + 1}
<1>7. 0 \in P
  <2> SUFFICES ASSUME 0 < N PROVE f[0] \in I /\ Rank(I, f[0]) = 0 + 1
    OBVIOUS
  <2> QED
    BY <1>2, <1>3, <1>5, <1>6
<1>8. ASSUME NEW k \in P PROVE k + 1 \in P
  <2> SUFFICES ASSUME k + 1 < N PROVE f[k + 1] \in I /\ Rank(I, f[k + 1]) = (k + 1) + 1
    OBVIOUS
  <2>1. k \in Nat /\ f[k] \in I /\ Rank(I, f[k]) = k + 1
    BY <1>2
  <2>2. k + 1 \in 1 .. N /\ (k + 1) - 1 = k /\ k + 1 # N
    BY <1>2, <2>1
  <2>3. f[k + 1] = NextProcessId(p, f[(k + 1) - 1])
    BY <1>3, <2>2
  <2>4. f[k] \in Nat /\ f[k + 1] = NextProcessId(p, f[k]) /\ Rank(I, f[k]) # N
    BY <1>1, <2>1, <2>2, <2>3
  <2> QED
    BY <2>1, <2>4, <1>5
<1>9. \A k \in 0 .. N - 1 : f[k] \in I /\ Rank(I, f[k]) = k + 1
  <2>1. P \in SUBSET Nat /\ \A k \in P : k < N => f[k] \in I /\ Rank(I, f[k]) = k + 1
    OBVIOUS
  <2> HIDE DEF P
  <2>2. P = Nat
    BY <1>7, <1>8, <2>1, Counting
  <2> QED
    BY <1>2, <2>1, <2>2
<1>10. f[N] = 0
  <2>1. CASE N = 0
    BY <2>1, <1>3, <1>5, <1>6
  <2>2. CASE N # 0
    <3>1. N - 1 \in 0 .. N - 1 /\ N \in 1 .. N
      BY <1>2, <2>2
    <3>2. f[N - 1] \in I /\ Rank(I, f[N - 1]) = N
      BY <1>2, <1>9, <3>1
    <3>3. f[N - 1] \in Nat /\ f[N] = NextProcessId(p, f[N - 1])
      BY <1>1, <1>3, <3>1, <3>2
    <3> QED
      BY <1>5, <3>2, <3>3
  <2> QED
    BY <2>1, <2>2
<1>11. ASSUME NEW i \in 0 .. N - 1, NEW j \in 0 .. N - 1, i < j PROVE f[i] < f[j]
  <2>1. Rank(I, f[i]) < Rank(I, f[j])
    BY <1>2, <1>9, <1>11
  <2> QED
    BY <1>1, <1>9, <2>1, RankIsMonotone
<1>12. {f[i] : i \in 0 .. N - 1} = I
  <2>1. ASSUME NEW x \in I PROVE \E i \in 0 .. N - 1 : f[i] = x
    <3>1. /\ Cardinality({j \in I : j <= x}) \in 1 .. Cardinality(I)
          /\ \A i, j \in I : i # j => Cardinality({m \in I : m <= i}) # Cardinality({m \in I : m <= j})
      BY <1>1, Ranks
    <3>2. Rank(I, x) \in 1 .. N /\ \A y \in I : y # x => Rank(I, y) # Rank(I, x)
      BY <1>2, <3>1 DEF Rank
    <3> DEFINE i == Rank(I, x) - 1
    <3>3. i \in 0 .. N - 1 /\ i + 1 = Rank(I, x)
      BY <1>2, <3>2
    <3>4. f[i] \in I /\ Rank(I, f[i]) = Rank(I, x)
      BY <1>9, <3>3
    <3> QED
      BY <3>2, <3>3, <3>4
  <2> QED
    BY <1>9, <2>1
<1> QED
  BY <1>10, <1>11, <1>12 DEF f, I, N

\* The process listing of app_process.c shows every process in the table exactly once
\* and in the order of the launches at all times, and a launch into a full table makes
\* it forget only the oldest process that has finished: for every capacity and range of
\* ids, whatever slots were given away and however g_process_count moved.
THEOREM HistoryIsAlwaysComplete == Spec => HistoryIsComplete
<1>1. Init => Counted(processes)
  BY CountedInit
<1>2. IInv /\ Counted(processes) /\ [Next]_vars => Counted(processes)'
  BY CountedStep DEF Counted
<1>3. IInv /\ Counted(processes) => ListingIsComplete
  BY SnapshotIsComplete DEF IInv, ListingIsComplete
<1>4. Spec => [][ForgetsOldestFinished]_vars
  BY OnlyTheOldestIsForgotten
<1> QED
  BY <1>1, <1>2, <1>3, <1>4, AlwaysSound, PTL DEF Spec, HistoryIsComplete
=============================================================================
