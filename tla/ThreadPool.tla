----------------------------- MODULE ThreadPool -----------------------------
(***************************************************************************)
(* The thread pool of ThreadPool.cpp: the loop of the workers, enqueue as  *)
(* called by the owner of the pool or from inside a task, and the          *)
(* destructor, which drains the queue and joins the workers.               *)
(*                                                                         *)
(* A step is what a thread does while it holds _mutex, or one call made    *)
(* without it: notify_one, notify_all, a task, join.  A wait on _cv may    *)
(* end without a notification.                                             *)
(***************************************************************************)
EXTENDS Integers, Sequences, FiniteSets

CONSTANTS
  Worker,   \* the threads of the pool
  Owner,    \* the thread that constructs, uses and destroys it
  Task,     \* bound: the calls of enqueue that are ever made
  Nil       \* no task

ASSUME PoolAssumption ==
  /\ IsFiniteSet(Worker) /\ Worker # {}
  /\ Owner \notin Worker
  /\ Nil \notin Task

VARIABLES
  tasks,    \* _tasks
  stop,     \* _stop
  pc,       \* where each thread is
  task,     \* the task a worker runs
  future    \* per task: what has become of it

vars == <<tasks, stop, pc, task, future>>

\* "enter": about to lock _mutex and test the condition of the wait.
\* "notify": in enqueue, with the mutex released.
WorkerPlace == {"enter", "waiting", "running", "notify", "done"}
OwnerPlace == {"using", "notify", "stopping", "joining", "gone"}

Init ==
  /\ tasks = <<>>
  /\ stop = FALSE
  /\ pc = [p \in Worker \cup {Owner} |->
             IF p = Owner THEN "using" ELSE "enter"]
  /\ task = [w \in Worker |-> Nil]
  /\ future = [t \in Task |-> "none"]

Goto(p, place) == pc' = [pc EXCEPT ![p] = place]

-----------------------------------------------------------------------------
(* A worker *)

Sleep(w) ==
  /\ pc[w] = "enter"
  /\ ~stop /\ tasks = <<>>
  /\ Goto(w, "waiting")
  /\ UNCHANGED <<tasks, stop, task, future>>

WakeSpuriously(w) ==
  /\ pc[w] = "waiting"
  /\ Goto(w, "enter")
  /\ UNCHANGED <<tasks, stop, task, future>>

LeaveAtOnce(w) ==                                \* mutant of Leave
  /\ pc[w] = "enter"
  /\ stop
  /\ Goto(w, "done")
  /\ UNCHANGED <<tasks, stop, task, future>>

Leave(w) ==
  /\ pc[w] = "enter"
  /\ stop /\ tasks = <<>>
  /\ Goto(w, "done")
  /\ UNCHANGED <<tasks, stop, task, future>>

TakeWithoutPop(w) ==                             \* mutant of Take
  /\ pc[w] = "enter"
  /\ tasks # <<>>
  /\ task' = [task EXCEPT ![w] = Head(tasks)]
  /\ future' = [future EXCEPT ![Head(tasks)] = "running"]
  /\ Goto(w, "running")
  /\ UNCHANGED <<tasks, stop>>

Take(w) ==
  /\ pc[w] = "enter"
  /\ tasks # <<>>
  /\ task' = [task EXCEPT ![w] = Head(tasks)]
  /\ tasks' = Tail(tasks)
  /\ future' = [future EXCEPT ![Head(tasks)] = "running"]
  /\ Goto(w, "running")
  /\ UNCHANGED stop

\* The task returns or throws: either way its future is ready.
Finish(w) ==
  /\ pc[w] = "running"
  /\ future' = [future EXCEPT ![task[w]] = "ready"]
  /\ task' = [task EXCEPT ![w] = Nil]
  /\ Goto(w, "enter")
  /\ UNCHANGED <<tasks, stop>>

-----------------------------------------------------------------------------
(* enqueue *)

MayEnqueue(p) == pc[p] = IF p = Owner THEN "using" ELSE "running"

Enqueue(p, t) ==
  /\ MayEnqueue(p)
  /\ future[t] = "none"
  /\ ~stop
  /\ tasks' = Append(tasks, t)
  /\ future' = [future EXCEPT ![t] = "queued"]
  /\ Goto(p, "notify")
  /\ UNCHANGED <<stop, task>>

\* The caller gets the exception; the task will never run.
Refuse(p, t) ==
  /\ MayEnqueue(p)
  /\ future[t] = "none"
  /\ stop
  /\ future' = [future EXCEPT ![t] = "refused"]
  /\ UNCHANGED <<tasks, stop, pc, task>>

Back(p) == IF p = Owner THEN "using" ELSE "running"

NotifyNobody(p) ==                               \* mutant of NotifyOne
  /\ pc[p] = "notify"
  /\ Goto(p, Back(p))
  /\ UNCHANGED <<tasks, stop, task, future>>

NotifyOne(p) ==
  /\ pc[p] = "notify"
  /\ \/ /\ \A w \in Worker : pc[w] # "waiting"
        /\ Goto(p, Back(p))
     \/ \E w \in Worker :
          /\ pc[w] = "waiting"
          /\ pc' = [pc EXCEPT ![p] = Back(p), ![w] = "enter"]
  /\ UNCHANGED <<tasks, stop, task, future>>

-----------------------------------------------------------------------------
(* The destructor *)

Stop ==
  /\ pc[Owner] = "using"
  /\ stop' = TRUE
  /\ Goto(Owner, "stopping")
  /\ UNCHANGED <<tasks, task, future>>

NotifyTheFirst ==                                \* mutant of NotifyAll
  /\ pc[Owner] = "stopping"
  /\ \E w \in Worker :
       pc' = [pc EXCEPT ![Owner] = "joining",
                        ![w] = IF @ = "waiting" THEN "enter" ELSE @]
  /\ UNCHANGED <<tasks, stop, task, future>>

NotifyAll ==
  /\ pc[Owner] = "stopping"
  /\ pc' = [p \in Worker \cup {Owner} |->
              IF p = Owner THEN "joining"
              ELSE IF pc[p] = "waiting" THEN "enter" ELSE pc[p]]
  /\ UNCHANGED <<tasks, stop, task, future>>

\* The last of the joins returns.
Join ==
  /\ pc[Owner] = "joining"
  /\ \A w \in Worker : pc[w] = "done"
  /\ Goto(Owner, "gone")
  /\ UNCHANGED <<tasks, stop, task, future>>

-----------------------------------------------------------------------------

Loop(w) == Sleep(w) \/ Leave(w) \/ Take(w) \/ Finish(w)

Call(p) == NotifyOne(p) \/ \E t \in Task : Enqueue(p, t) \/ Refuse(p, t)

Destroy == Stop \/ NotifyAll \/ Join

Next ==
  \/ \E w \in Worker : Loop(w) \/ WakeSpuriously(w)
  \/ \E p \in Worker \cup {Owner} : Call(p)
  \/ Destroy

Spec == Init /\ [][Next]_vars

\* Every thread goes on, and every task comes to an end.  Nobody has to call
\* enqueue or to destroy the pool, and a wait need not end spuriously.
Fairness ==
  /\ \A w \in Worker : WF_vars(Loop(w))
  /\ \A p \in Worker \cup {Owner} : WF_vars(NotifyOne(p))
  /\ WF_vars(NotifyAll) /\ WF_vars(Join)

FairSpec == Spec /\ Fairness

-----------------------------------------------------------------------------
(* Properties *)

TypeOK ==
  /\ tasks \in Seq(Task)
  /\ stop \in BOOLEAN
  /\ pc \in [Worker \cup {Owner} -> WorkerPlace \cup OwnerPlace]
  /\ \A w \in Worker : pc[w] \in WorkerPlace
  /\ pc[Owner] \in OwnerPlace
  /\ task \in [Worker -> Task \cup {Nil}]
  /\ future \in [Task -> {"none", "queued", "running", "ready", "refused"}]

\* Every accepted task is in one place: once in the queue, or with exactly one
\* worker, whatever the workers race for (the move and the pop are one step).
TasksInOnePlace ==
  /\ \A i, j \in DOMAIN tasks : tasks[i] = tasks[j] => i = j
  /\ \A t \in Task :
       /\ future[t] = "queued" <=> \E i \in DOMAIN tasks : tasks[i] = t
       /\ future[t] = "running" <=> \E w \in Worker : task[w] = t
  /\ \A v, w \in Worker : task[v] = task[w] /\ task[v] # Nil => v = w

\* When the destructor returns, every task that was ever accepted has run: no
\* future is left broken, even if tasks enqueued tasks while the pool stopped.
NoneAbandoned ==
  pc[Owner] = "gone" =>
    /\ tasks = <<>>
    /\ \A t \in Task : future[t] \notin {"queued", "running"}

\* No worker sleeps over work: while one waits, there is for every queued task
\* a worker on its way to the queue or a notification still to come.
WorkIsWanted ==
  (\E w \in Worker : pc[w] = "waiting") =>
     Len(tasks) <= Cardinality({w \in Worker : pc[w] = "enter"})
                     + Cardinality({p \in Worker \cup {Owner} :
                                      pc[p] = "notify"})

\* Every accepted task is run, whether or not the pool is destroyed.
EveryTaskRuns ==
  \A t \in Task : future[t] = "queued" ~> future[t] = "ready"

\* The destructor returns.
DestructorReturns == stop ~> pc[Owner] = "gone"
=============================================================================
