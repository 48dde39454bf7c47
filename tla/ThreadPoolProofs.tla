-------------------------- MODULE ThreadPoolProofs --------------------------
(***************************************************************************)
(* Theorems about ThreadPool, for any number of workers and any tasks.     *)
(***************************************************************************)
EXTENDS ThreadPool, FiniteSetTheorems, SequenceTheorems, TLAPS

-----------------------------------------------------------------------------
(* The queue *)

LEMMA QueueFacts ==
  ASSUME TypeOK
  PROVE  /\ Len(tasks) \in Nat
         /\ DOMAIN tasks = 1 .. Len(tasks)
         /\ \A k \in 1 .. Len(tasks) : tasks[k] \in Task
         /\ tasks = <<>> <=> Len(tasks) = 0
BY LenProperties, ElementOfSeq, EmptySeq DEF TypeOK

LEMMA HeadAndTail ==
  ASSUME TypeOK, tasks # <<>>
  PROVE  /\ Head(tasks) = tasks[1] /\ Head(tasks) \in Task
         /\ Tail(tasks) \in Seq(Task)
         /\ Len(Tail(tasks)) = Len(tasks) - 1
         /\ \A k \in 1 .. Len(tasks) - 1 : Tail(tasks)[k] = tasks[k + 1]
BY HeadTailProperties, QueueFacts DEF TypeOK

LEMMA AppendFacts ==
  ASSUME TypeOK, NEW t \in Task
  PROVE  /\ Append(tasks, t) \in Seq(Task)
         /\ Len(Append(tasks, t)) = Len(tasks) + 1
         /\ Append(tasks, t)[Len(tasks) + 1] = t
         /\ \A k \in 1 .. Len(tasks) : Append(tasks, t)[k] = tasks[k]
BY AppendProperties, QueueFacts DEF TypeOK

-----------------------------------------------------------------------------
(* Types *)

LEMMA NilAndOwner == Nil \notin Task /\ Owner \notin Worker
BY PoolAssumption

LEMMA TypeStep ==
  ASSUME TypeOK, [Next]_vars
  PROVE  TypeOK'
<1> USE DEF WorkerPlace, OwnerPlace, Goto
<1>1. ASSUME NEW w \in Worker, Sleep(w) \/ WakeSpuriously(w) \/ Leave(w)
      PROVE  TypeOK'
  BY <1>1, NilAndOwner DEF TypeOK, Sleep, WakeSpuriously, Leave
<1>2. ASSUME NEW w \in Worker, Take(w) PROVE TypeOK'
  <2>1. /\ Head(tasks) \in Task /\ Tail(tasks) \in Seq(Task)
    BY <1>2, HeadAndTail DEF Take
  <2> QED
    BY <1>2, <2>1, NilAndOwner DEF TypeOK, Take
<1>3. ASSUME NEW w \in Worker, Finish(w) PROVE TypeOK'
  BY <1>3, NilAndOwner DEF TypeOK, Finish
<1>4. ASSUME NEW p \in Worker \cup {Owner}, NEW t \in Task, Enqueue(p, t)
      PROVE  TypeOK'
  <2>1. Append(tasks, t) \in Seq(Task)
    BY AppendFacts
  <2> QED
    BY <1>4, <2>1, NilAndOwner DEF TypeOK, Enqueue
<1>5. ASSUME NEW p \in Worker \cup {Owner}, NEW t \in Task, Refuse(p, t)
      PROVE  TypeOK'
  BY <1>5 DEF TypeOK, Refuse
<1>6. ASSUME NEW p \in Worker \cup {Owner}, NotifyOne(p) PROVE TypeOK'
  BY <1>6, NilAndOwner DEF TypeOK, NotifyOne, Back
<1>7. CASE Destroy
  BY <1>7, NilAndOwner DEF TypeOK, Destroy, Stop, NotifyAll, Join
<1>8. CASE UNCHANGED vars
  BY <1>8 DEF TypeOK, vars
<1> QED
  BY <1>1, <1>2, <1>3, <1>4, <1>5, <1>6, <1>7, <1>8 DEF Next, Loop, Call

\* Every variable keeps its type.
THEOREM TypeCorrect == Spec => []TypeOK
<1>1. Init => TypeOK
  <2> SUFFICES ASSUME Init PROVE TypeOK
    OBVIOUS
  <2>1. /\ tasks \in Seq(Task) /\ stop \in BOOLEAN
        /\ task \in [Worker -> Task \cup {Nil}]
        /\ future \in [Task -> {"none", "queued", "running", "ready",
                                "refused"}]
    <3>1. tasks \in Seq(Task)
      BY EmptySeq DEF Init
    <3>2. stop \in BOOLEAN
      BY DEF Init
    <3>3. task \in [Worker -> Task \cup {Nil}]
      BY DEF Init
    <3>4. future \in [Task -> {"none", "queued", "running", "ready",
                              "refused"}]
      BY DEF Init
    <3> QED
      BY <3>1, <3>2, <3>3, <3>4
  <2>2. pc = [p \in Worker \cup {Owner} |->
                IF p = Owner THEN "using" ELSE "enter"]
    BY DEF Init
  <2>3. pc \in [Worker \cup {Owner} -> WorkerPlace \cup OwnerPlace]
    BY <2>2 DEF WorkerPlace, OwnerPlace
  <2>4. /\ \A w \in Worker : pc[w] \in WorkerPlace
        /\ pc[Owner] \in OwnerPlace
    BY <2>2, NilAndOwner DEF WorkerPlace, OwnerPlace
  <2> QED
    BY <2>1, <2>3, <2>4 DEF TypeOK
<1>2. TypeOK /\ [Next]_vars => TypeOK'
  BY TypeStep
<1> QED
  BY <1>1, <1>2, PTL DEF Spec

-----------------------------------------------------------------------------
(* Where the tasks are *)

\* A worker has a task exactly while it runs one.
BusyWithTask ==
  \A w \in Worker : task[w] # Nil <=> pc[w] \in {"running", "notify"}

PlacesInv == BusyWithTask /\ TasksInOnePlace

\* A step that moves no task.
LEMMA NoTaskMoves ==
  ASSUME PlacesInv, UNCHANGED <<tasks, task, future>>,
         \A w \in Worker : pc'[w] \in {"running", "notify"}
                             <=> pc[w] \in {"running", "notify"}
  PROVE  PlacesInv'
BY DEF PlacesInv, BusyWithTask, TasksInOnePlace

LEMMA TakePlaces ==
  ASSUME TypeOK, TypeOK', PlacesInv, NEW w \in Worker, Take(w)
  PROVE  PlacesInv'
<1> DEFINE t == Head(tasks)
<1>1. /\ pc[w] = "enter" /\ tasks # <<>>
      /\ task' = [task EXCEPT ![w] = t]
      /\ tasks' = Tail(tasks)
      /\ future' = [future EXCEPT ![t] = "running"]
      /\ pc' = [pc EXCEPT ![w] = "running"]
  BY DEF Take, Goto
<1>2. /\ t = tasks[1] /\ t \in Task /\ t # Nil
      /\ Len(tasks') = Len(tasks) - 1
      /\ \A k \in 1 .. Len(tasks) - 1 : tasks'[k] = tasks[k + 1]
  BY <1>1, HeadAndTail, NilAndOwner
<1> HIDE DEF t
<1>3. /\ Len(tasks) \in Nat \ {0} /\ DOMAIN tasks = 1 .. Len(tasks)
      /\ DOMAIN tasks' = 1 .. Len(tasks) - 1
  <2>1. /\ Len(tasks) \in Nat /\ DOMAIN tasks = 1 .. Len(tasks)
        /\ tasks = <<>> <=> Len(tasks) = 0
    BY QueueFacts
  <2>2. tasks' \in Seq(Task)
    BY DEF TypeOK
  <2> QED
    BY <1>1, <1>2, <2>1, <2>2, LenProperties
<1>4. \A i, j \in 1 .. Len(tasks) : tasks[i] = tasks[j] => i = j
  BY <1>3 DEF PlacesInv, TasksInOnePlace
<1>5. /\ task[w] = Nil
      /\ task'[w] = t /\ \A v \in Worker \ {w} : task'[v] = task[v]
      /\ future'[t] = "running"
      /\ \A u \in Task \ {t} : future'[u] = future[u]
  BY <1>1, <1>2 DEF TypeOK, PlacesInv, BusyWithTask
<1>6. \A v \in Worker : task[v] # t
  <2>1. future[t] = "queued"
    BY <1>2, <1>3 DEF PlacesInv, TasksInOnePlace
  <2> QED
    BY <1>2, <2>1 DEF PlacesInv, TasksInOnePlace
<1>7. BusyWithTask'
  BY <1>1, <1>2, <1>5 DEF TypeOK, PlacesInv, BusyWithTask
<1>8. \A i, j \in DOMAIN tasks' : tasks'[i] = tasks'[j] => i = j
  BY <1>2, <1>3, <1>4
<1>9. ASSUME NEW u \in Task
      PROVE  /\ future'[u] = "queued" <=> \E i \in DOMAIN tasks' : tasks'[i] = u
             /\ future'[u] = "running" <=> \E v \in Worker : task'[v] = u
  <2>1. CASE u = t
    <3>1. \A i \in DOMAIN tasks' : tasks'[i] # t
      BY <1>2, <1>3, <1>4
    <3> QED
      BY <1>5, <2>1, <3>1
  <2>2. CASE u # t
    <3>1. (\E i \in DOMAIN tasks' : tasks'[i] = u)
            <=> \E i \in DOMAIN tasks : tasks[i] = u
      <4>1. ASSUME NEW i \in DOMAIN tasks, tasks[i] = u
            PROVE  \E k \in DOMAIN tasks' : tasks'[k] = u
        <5>1. i # 1
          BY <1>2, <2>2, <4>1
        <5>2. i - 1 \in DOMAIN tasks' /\ tasks'[i - 1] = u
          BY <1>2, <1>3, <4>1, <5>1
        <5> QED
          BY <5>2
      <4>2. ASSUME NEW i \in DOMAIN tasks', tasks'[i] = u
            PROVE  \E k \in DOMAIN tasks : tasks[k] = u
        <5>1. i + 1 \in DOMAIN tasks /\ tasks[i + 1] = u
          BY <1>2, <1>3, <4>2
        <5> QED
          BY <5>1
      <4> QED
        BY <4>1, <4>2
    <3>2. (\E v \in Worker : task'[v] = u) <=> \E v \in Worker : task[v] = u
      BY <1>5, <2>2, NilAndOwner
    <3> QED
      BY <1>5, <2>2, <3>1, <3>2 DEF PlacesInv, TasksInOnePlace
  <2> QED
    BY <2>1, <2>2
<1>10. \A v, x \in Worker : task'[v] = task'[x] /\ task'[v] # Nil => v = x
  BY <1>5, <1>6 DEF PlacesInv, TasksInOnePlace
<1> QED
  BY <1>7, <1>8, <1>9, <1>10 DEF PlacesInv, TasksInOnePlace

LEMMA FinishPlaces ==
  ASSUME TypeOK, TypeOK', PlacesInv, NEW w \in Worker, Finish(w)
  PROVE  PlacesInv'
<1> DEFINE t == task[w]
<1>1. /\ pc[w] = "running"
      /\ future' = [future EXCEPT ![t] = "ready"]
      /\ task' = [task EXCEPT ![w] = Nil]
      /\ pc' = [pc EXCEPT ![w] = "enter"]
      /\ UNCHANGED tasks
  BY DEF Finish, Goto
<1>2. t \in Task
  BY <1>1 DEF TypeOK, PlacesInv, BusyWithTask
<1> HIDE DEF t
<1>3. /\ task'[w] = Nil /\ \A v \in Worker \ {w} : task'[v] = task[v]
      /\ future'[t] = "ready"
      /\ \A u \in Task \ {t} : future'[u] = future[u]
  BY <1>1, <1>2 DEF TypeOK
<1>4. /\ \A v \in Worker \ {w} : task[v] # t
      /\ future[t] = "running"
  BY <1>2, NilAndOwner DEF t, PlacesInv, TasksInOnePlace
<1>5. BusyWithTask'
  BY <1>1, <1>3 DEF TypeOK, PlacesInv, BusyWithTask
<1>6. \A i \in DOMAIN tasks : tasks[i] # t
  BY <1>2, <1>4 DEF PlacesInv, TasksInOnePlace
<1>7. ASSUME NEW u \in Task
      PROVE  /\ future'[u] = "queued" <=> \E i \in DOMAIN tasks' : tasks'[i] = u
             /\ future'[u] = "running" <=> \E v \in Worker : task'[v] = u
  <2>1. CASE u = t
    BY <1>1, <1>2, <1>3, <1>4, <1>6, <2>1, NilAndOwner
  <2>2. CASE u # t
    <3>1. (\E v \in Worker : task'[v] = u) <=> \E v \in Worker : task[v] = u
      BY <1>3, <2>2, NilAndOwner DEF t
    <3> QED
      BY <1>1, <1>3, <2>2, <3>1 DEF PlacesInv, TasksInOnePlace
  <2> QED
    BY <2>1, <2>2
<1>8. \A v, x \in Worker : task'[v] = task'[x] /\ task'[v] # Nil => v = x
  BY <1>3 DEF PlacesInv, TasksInOnePlace
<1>9. \A i, j \in DOMAIN tasks' : tasks'[i] = tasks'[j] => i = j
  BY <1>1 DEF PlacesInv, TasksInOnePlace
<1> QED
  BY <1>5, <1>7, <1>8, <1>9 DEF PlacesInv, TasksInOnePlace

LEMMA EnqueuePlaces ==
  ASSUME TypeOK, TypeOK', PlacesInv, NEW p \in Worker \cup {Owner},
         NEW t \in Task, Enqueue(p, t)
  PROVE  PlacesInv'
<1>1. /\ MayEnqueue(p) /\ future[t] = "none"
      /\ tasks' = Append(tasks, t)
      /\ future' = [future EXCEPT ![t] = "queued"]
      /\ pc' = [pc EXCEPT ![p] = "notify"]
      /\ UNCHANGED task
  BY DEF Enqueue, Goto
<1> DEFINE n == Len(tasks)
<1>2. /\ n \in Nat /\ DOMAIN tasks = 1 .. n
      /\ DOMAIN tasks' = 1 .. n + 1
      /\ tasks'[n + 1] = t
      /\ \A k \in 1 .. n : tasks'[k] = tasks[k]
  <2>1. n \in Nat /\ DOMAIN tasks = 1 .. n
    BY QueueFacts
  <2>2. /\ tasks' \in Seq(Task) /\ Len(tasks') = n + 1
        /\ tasks'[n + 1] = t
        /\ \A k \in 1 .. n : tasks'[k] = tasks[k]
    BY <1>1, AppendFacts
  <2> QED
    BY <2>1, <2>2, LenProperties
<1> HIDE DEF n
<1>3. /\ \A i \in 1 .. n : tasks[i] # t
      /\ \A v \in Worker : task[v] # t
  BY <1>1, <1>2 DEF PlacesInv, TasksInOnePlace
<1>4. /\ future'[t] = "queued"
      /\ \A u \in Task \ {t} : future'[u] = future[u]
  BY <1>1 DEF TypeOK
<1>5. BusyWithTask'
  BY <1>1, NilAndOwner DEF TypeOK, PlacesInv, BusyWithTask, MayEnqueue
<1>6. \A i, j \in DOMAIN tasks' : tasks'[i] = tasks'[j] => i = j
  <2>1. \A i, j \in 1 .. n : tasks[i] = tasks[j] => i = j
    BY <1>2 DEF PlacesInv, TasksInOnePlace
  <2> QED
    BY <1>2, <1>3, <2>1
<1>7. ASSUME NEW u \in Task
      PROVE  /\ future'[u] = "queued" <=> \E i \in DOMAIN tasks' : tasks'[i] = u
             /\ future'[u] = "running" <=> \E v \in Worker : task'[v] = u
  <2>1. CASE u = t
    <3>1. n + 1 \in DOMAIN tasks'
      BY <1>2
    <3> QED
      BY <1>1, <1>2, <1>3, <1>4, <2>1, <3>1
  <2>2. CASE u # t
    <3>1. (\E i \in DOMAIN tasks' : tasks'[i] = u)
            <=> \E i \in DOMAIN tasks : tasks[i] = u
      BY <1>2, <2>2
    <3> QED
      BY <1>1, <1>4, <2>2, <3>1 DEF PlacesInv, TasksInOnePlace
  <2> QED
    BY <2>1, <2>2
<1>8. \A v, x \in Worker : task'[v] = task'[x] /\ task'[v] # Nil => v = x
  BY <1>1 DEF PlacesInv, TasksInOnePlace
<1> QED
  BY <1>5, <1>6, <1>7, <1>8 DEF PlacesInv, TasksInOnePlace

LEMMA RefusePlaces ==
  ASSUME TypeOK, PlacesInv, NEW p \in Worker \cup {Owner}, NEW t \in Task,
         Refuse(p, t)
  PROVE  PlacesInv'
<1>1. /\ future[t] = "none" /\ UNCHANGED <<tasks, task, pc>>
      /\ future'[t] = "refused"
      /\ \A u \in Task \ {t} : future'[u] = future[u]
  BY DEF Refuse, TypeOK
<1> QED
  BY <1>1 DEF PlacesInv, BusyWithTask, TasksInOnePlace

LEMMA PlacesStep ==
  ASSUME TypeOK, TypeOK', PlacesInv, [Next]_vars
  PROVE  PlacesInv'
<1>1. ASSUME NEW w \in Worker, Sleep(w) \/ WakeSpuriously(w) \/ Leave(w)
      PROVE  PlacesInv'
  BY <1>1, NoTaskMoves DEF TypeOK, Sleep, WakeSpuriously, Leave, Goto
<1>2. ASSUME NEW p \in Worker \cup {Owner}, NotifyOne(p) PROVE PlacesInv'
  <2>1. UNCHANGED <<tasks, task, future>>
    BY <1>2 DEF NotifyOne
  <2>2. \A w \in Worker : pc'[w] \in {"running", "notify"}
                            <=> pc[w] \in {"running", "notify"}
    BY <1>2, NilAndOwner DEF TypeOK, NotifyOne, Goto, Back
  <2> QED
    BY <2>1, <2>2, NoTaskMoves
<1>3. CASE Destroy
  BY <1>3, NoTaskMoves, NilAndOwner
     DEF TypeOK, Destroy, Stop, NotifyAll, Join, Goto
<1>4. CASE UNCHANGED vars
  BY <1>4, NoTaskMoves DEF vars
<1> QED
  BY <1>1, <1>2, <1>3, <1>4, TakePlaces, FinishPlaces, EnqueuePlaces,
     RefusePlaces DEF Next, Loop, Call

\* No task is lost, run twice, or run while it is still queued, whatever the
\* number of workers that race for the queue.
THEOREM OnePlacePerTask == Spec => []TasksInOnePlace
<1>1. Init => PlacesInv
  BY EmptySeq, NilAndOwner
     DEF Init, PlacesInv, BusyWithTask, TasksInOnePlace
<1>2. TypeOK /\ TypeOK' /\ PlacesInv /\ [Next]_vars => PlacesInv'
  BY PlacesStep
<1>3. PlacesInv => TasksInOnePlace
  BY DEF PlacesInv
<1> QED
  BY <1>1, <1>2, <1>3, TypeCorrect, PTL DEF Spec

-----------------------------------------------------------------------------
(* The drain *)

\* The destructor has begun when _stop is set, and no worker leaves before the
\* queue is empty for good: enqueue refuses what comes later.
DrainInv ==
  /\ stop <=> pc[Owner] \in {"stopping", "joining", "gone"}
  /\ \A w \in Worker : pc[w] = "done" => stop /\ tasks = <<>>
  /\ pc[Owner] = "gone" => \A w \in Worker : pc[w] = "done"

LEMMA DrainStep ==
  ASSUME TypeOK, TypeOK', DrainInv, [Next]_vars
  PROVE  DrainInv'
<1> USE NilAndOwner DEF Goto
<1>1. ASSUME NEW w \in Worker, Sleep(w) \/ WakeSpuriously(w) \/ Finish(w)
      PROVE  DrainInv'
  BY <1>1 DEF TypeOK, DrainInv, Sleep, WakeSpuriously, Finish
<1>2. ASSUME NEW w \in Worker, Leave(w) PROVE DrainInv'
  BY <1>2 DEF TypeOK, DrainInv, Leave
<1>3. ASSUME NEW w \in Worker, Take(w) PROVE DrainInv'
  BY <1>3 DEF TypeOK, DrainInv, Take
<1>4. ASSUME NEW p \in Worker \cup {Owner}, NEW t \in Task,
             Enqueue(p, t) \/ Refuse(p, t)
      PROVE  DrainInv'
  BY <1>4 DEF TypeOK, DrainInv, Enqueue, Refuse, MayEnqueue
<1>5. ASSUME NEW p \in Worker \cup {Owner}, NotifyOne(p) PROVE DrainInv'
  BY <1>5 DEF TypeOK, DrainInv, NotifyOne, Back
<1>6. CASE Destroy
  BY <1>6 DEF TypeOK, DrainInv, Destroy, Stop, NotifyAll, Join
<1>7. CASE UNCHANGED vars
  BY <1>7 DEF DrainInv, vars
<1> QED
  BY <1>1, <1>2, <1>3, <1>4, <1>5, <1>6, <1>7 DEF Next, Loop, Call

\* The destructor returns only after every accepted task has run, those that
\* tasks enqueued before the pool stopped included.
THEOREM DestructorDrains == Spec => []NoneAbandoned
<1>1. Init => DrainInv
  BY NilAndOwner DEF Init, DrainInv
<1>2. TypeOK /\ TypeOK' /\ DrainInv /\ [Next]_vars => DrainInv'
  BY DrainStep
<1>3. Init => PlacesInv
  BY EmptySeq, NilAndOwner
     DEF Init, PlacesInv, BusyWithTask, TasksInOnePlace
<1>4. TypeOK /\ TypeOK' /\ PlacesInv /\ [Next]_vars => PlacesInv'
  BY PlacesStep
<1>5. DrainInv /\ PlacesInv => NoneAbandoned
  <2> SUFFICES ASSUME DrainInv, PlacesInv, pc[Owner] = "gone"
               PROVE  /\ tasks = <<>>
                      /\ \A t \in Task : future[t] \notin {"queued", "running"}
    BY DEF NoneAbandoned
  <2>1. \A w \in Worker : pc[w] = "done" /\ tasks = <<>>
    BY DEF DrainInv
  <2>2. tasks = <<>>
    BY <2>1, PoolAssumption
  <2>3. \A t \in Task : future[t] # "queued"
    BY <2>2 DEF PlacesInv, TasksInOnePlace
  <2>4. \A w \in Worker : task[w] = Nil
    BY <2>1 DEF PlacesInv, BusyWithTask
  <2>5. \A t \in Task : future[t] # "running"
    BY <2>4, NilAndOwner DEF PlacesInv, TasksInOnePlace
  <2> QED
    BY <2>2, <2>3, <2>5
<1> QED
  BY <1>1, <1>2, <1>3, <1>4, <1>5, TypeCorrect, PTL DEF Spec

-----------------------------------------------------------------------------
(* Sleeping workers *)

Entering == {w \in Worker : pc[w] = "enter"}
Notifying == {p \in Worker \cup {Owner} : pc[p] = "notify"}

LEMMA PlacesFinite ==
  /\ IsFiniteSet(Entering) /\ Cardinality(Entering) \in Nat
  /\ IsFiniteSet(Notifying) /\ Cardinality(Notifying) \in Nat
<1>1. IsFiniteSet(Worker) /\ IsFiniteSet(Worker \cup {Owner})
  BY PoolAssumption, FS_AddElement
<1>2. Entering \subseteq Worker /\ Notifying \subseteq Worker \cup {Owner}
  BY DEF Entering, Notifying
<1> QED
  BY <1>1, <1>2, FS_Subset, FS_CardinalityType

LEMMA PlacesFinitePrimed ==
  /\ IsFiniteSet(Entering') /\ Cardinality(Entering') \in Nat
  /\ IsFiniteSet(Notifying') /\ Cardinality(Notifying') \in Nat
<1>1. IsFiniteSet(Worker) /\ IsFiniteSet(Worker \cup {Owner})
  BY PoolAssumption, FS_AddElement
<1>2. Entering' \subseteq Worker /\ Notifying' \subseteq Worker \cup {Owner}
  BY DEF Entering, Notifying
<1> QED
  BY <1>1, <1>2, FS_Subset, FS_CardinalityType

Wanted ==
  (\E w \in Worker : pc[w] = "waiting") =>
     Len(tasks) <= Cardinality(Entering) + Cardinality(Notifying)

\* More threads on their way than before, and no more tasks.
LEMMA WantedMore ==
  ASSUME TypeOK, Wanted, UNCHANGED tasks,
         Entering \subseteq Entering', Notifying \subseteq Notifying',
         \A w \in Worker : pc'[w] = "waiting" => pc[w] = "waiting"
  PROVE  Wanted'
<1>1. /\ Cardinality(Entering) <= Cardinality(Entering')
      /\ Cardinality(Notifying) <= Cardinality(Notifying')
  BY PlacesFinitePrimed, FS_Subset
<1>2. Len(tasks) \in Nat
  BY QueueFacts
<1> QED
  BY <1>1, <1>2, PlacesFinite, PlacesFinitePrimed DEF Wanted

LEMMA WantedStep ==
  ASSUME TypeOK, TypeOK', Wanted, [Next]_vars
  PROVE  Wanted'
<1> USE NilAndOwner DEF Goto
<1>1. ASSUME NEW w \in Worker, Sleep(w) \/ Leave(w) PROVE Wanted'
  <2>1. Len(tasks') = 0
    BY <1>1, EmptySeq DEF Sleep, Leave
  <2> QED
    BY <2>1, PlacesFinitePrimed DEF Wanted
<1>2. ASSUME NEW w \in Worker, WakeSpuriously(w) \/ Finish(w) PROVE Wanted'
  <2>1. /\ UNCHANGED tasks
        /\ Entering \subseteq Entering' /\ Notifying \subseteq Notifying'
        /\ \A v \in Worker : pc'[v] = "waiting" => pc[v] = "waiting"
    BY <1>2 DEF TypeOK, WakeSpuriously, Finish, Entering, Notifying
  <2> QED
    BY <2>1, WantedMore
<1>3. ASSUME NEW w \in Worker, Take(w) PROVE Wanted'
  <2>1. Len(tasks') = Len(tasks) - 1 /\ Len(tasks) \in Nat
    BY <1>3, HeadAndTail, QueueFacts DEF Take
  <2>2. Entering' = Entering \ {w} /\ w \in Entering
    BY <1>3 DEF TypeOK, Take, Entering
  <2>3. Notifying' = Notifying
    BY <1>3 DEF TypeOK, Take, Notifying
  <2>4. Cardinality(Entering') = Cardinality(Entering) - 1
    BY <2>2, PlacesFinite, FS_RemoveElement
  <2>5. \A v \in Worker : pc'[v] = "waiting" => pc[v] = "waiting"
    BY <1>3 DEF TypeOK, Take
  <2> QED
    BY <2>1, <2>3, <2>4, <2>5, PlacesFinite DEF Wanted
<1>4. ASSUME NEW p \in Worker \cup {Owner}, NEW t \in Task, Enqueue(p, t)
      PROVE  Wanted'
  <2>1. Len(tasks') = Len(tasks) + 1 /\ Len(tasks) \in Nat
    BY <1>4, AppendFacts, QueueFacts DEF Enqueue
  <2>2. Notifying' = Notifying \cup {p} /\ p \notin Notifying
    BY <1>4 DEF TypeOK, Enqueue, MayEnqueue, Notifying
  <2>3. Entering' = Entering
    BY <1>4 DEF TypeOK, Enqueue, MayEnqueue, Entering
  <2>4. Cardinality(Notifying') = Cardinality(Notifying) + 1
    BY <2>2, PlacesFinite, FS_AddElement
  <2>5. \A v \in Worker : pc'[v] = "waiting" => pc[v] = "waiting"
    BY <1>4 DEF TypeOK, Enqueue
  <2> QED
    BY <2>1, <2>3, <2>4, <2>5, PlacesFinite DEF Wanted
<1>5. ASSUME NEW p \in Worker \cup {Owner}, NotifyOne(p) PROVE Wanted'
  <2>1. pc[p] = "notify" /\ UNCHANGED tasks /\ Len(tasks) \in Nat
    BY <1>5, QueueFacts DEF NotifyOne
  <2>2. CASE \A w \in Worker : pc[w] # "waiting"
    <3>1. \A w \in Worker : pc'[w] # "waiting"
      BY <1>5, <2>2 DEF TypeOK, NotifyOne, Back
    <3> QED
      BY <3>1 DEF Wanted
  <2>3. CASE \E w \in Worker : pc[w] = "waiting"
    <3>1. PICK w \in Worker :
            pc[w] = "waiting" /\ pc' = [pc EXCEPT ![p] = Back(p), ![w] = "enter"]
      BY <1>5, <2>3 DEF NotifyOne
    <3>2. Notifying' = Notifying \ {p} /\ p \in Notifying
      BY <2>1, <3>1 DEF TypeOK, Notifying, Back
    <3>3. Entering' = Entering \cup {w} /\ w \notin Entering
      BY <2>1, <3>1 DEF TypeOK, Entering, Back
    <3>4. /\ Cardinality(Notifying') = Cardinality(Notifying) - 1
          /\ Cardinality(Entering') = Cardinality(Entering) + 1
      BY <3>2, <3>3, PlacesFinite, FS_AddElement, FS_RemoveElement
    <3> QED
      BY <2>1, <2>3, <3>4, PlacesFinite DEF Wanted
  <2> QED
    BY <2>2, <2>3
<1>6. ASSUME NEW p \in Worker \cup {Owner}, NEW t \in Task, Refuse(p, t)
      PROVE  Wanted'
  <2>1. UNCHANGED <<tasks, pc>>
    BY <1>6 DEF Refuse
  <2> QED
    BY <2>1 DEF Wanted, Entering, Notifying
<1>7. CASE Stop \/ Join
  <2>1. /\ UNCHANGED tasks
        /\ Entering \subseteq Entering' /\ Notifying \subseteq Notifying'
        /\ \A v \in Worker : pc'[v] = "waiting" => pc[v] = "waiting"
    BY <1>7 DEF TypeOK, Stop, Join, Entering, Notifying
  <2> QED
    BY <2>1, WantedMore
<1>8. CASE NotifyAll
  <2>1. \A w \in Worker : pc'[w] # "waiting"
    BY <1>8 DEF TypeOK, NotifyAll
  <2> QED
    BY <2>1 DEF Wanted
<1>9. CASE UNCHANGED vars
  BY <1>9 DEF Wanted, Entering, Notifying, vars
<1> QED
  BY <1>1, <1>2, <1>3, <1>4, <1>5, <1>6, <1>7, <1>8, <1>9
     DEF Next, Loop, Call, Destroy

\* No wake-up is lost: a worker that sleeps while tasks are queued is not
\* needed, for every queued task already has a thread on its way.
THEOREM NoLostWakeUp == Spec => []WorkIsWanted
<1>1. Init => Wanted
  BY NilAndOwner DEF Init, Wanted
<1>2. TypeOK /\ TypeOK' /\ Wanted /\ [Next]_vars => Wanted'
  BY WantedStep
<1>3. Wanted => WorkIsWanted
  BY DEF Wanted, WorkIsWanted, Entering, Notifying
<1> QED
  BY <1>1, <1>2, <1>3, TypeCorrect, PTL DEF Spec
=============================================================================
