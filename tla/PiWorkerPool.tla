---------------------------- MODULE PiWorkerPool ----------------------------
(***************************************************************************)
(* Class PiWorkerPool of pjproject-ext/pj-ext.cpp: the threads that run    *)
(* the encoding tasks of all recorders, a FIFO of tasks, one mutex and one *)
(* condition variable.                                                     *)
(*                                                                         *)
(* A section that _queueMutex protects is one step.  What happens between  *)
(* two such sections is kept apart: enqueue() notifies after it has        *)
(* unlocked the mutex, the destructor sets _stop, notifies and joins in    *)
(* three steps, and a task runs while its worker holds no lock.            *)
(***************************************************************************)
EXTENDS Integers, Sequences, FiniteSets, SequencesExt

CONSTANTS Worker,      \* the threads the pool can create
          Client,      \* the threads that call enqueue()
          Task,        \* the tasks, each one queued at most once at a time
          NoTask       \* what an idle worker holds

ASSUME PoolAssumption ==
    /\ IsFiniteSet(Worker) /\ Worker # {}
    /\ IsFiniteSet(Client)
    /\ NoTask \notin Task

VARIABLES _tasks,      \* the queue
          _stop,
          state,       \* of each worker thread
          task,        \* the task each running worker holds
          client,      \* "notify" between enqueue()'s unlock and its notify_one
          owner        \* progress of the destructor

vars == << _tasks, _stop, state, task, client, owner >>

\* "new": not started; "ready": about to lock _queueMutex and to test the wait
\* predicate; "waiting": blocked in _condition.wait; "running": inside task();
\* "exited": returned from the thread function.
WorkerState == {"new", "ready", "waiting", "running", "exited"}

\* The constructor adds one worker.
Init ==
    /\ _tasks = << >>
    /\ _stop = FALSE
    /\ \E w \in Worker : state = [v \in Worker |-> IF v = w THEN "ready" ELSE "new"]
    /\ task = [w \in Worker |-> NoTask]
    /\ client = [c \in Client |-> "out"]
    /\ owner = "alive"

InState(s) == {w \in Worker : state[w] = s}

Notifying == {c \in Client : client[c] = "notify"}
-----------------------------------------------------------------------------
(* The condition variable.                                                 *)

\* notify_one(): one of the blocked threads, if there is one, goes back to test
\* its predicate.
NotifyOne ==
    IF InState("waiting") = {}
    THEN UNCHANGED state
    ELSE \E w \in InState("waiting") : state' = [state EXCEPT ![w] = "ready"]

NotifyAll ==
    state' = [w \in Worker |-> IF state[w] = "waiting" THEN "ready" ELSE state[w]]

\* A wait may also end without any notification.
SpuriousWakeup(w) ==
    /\ state[w] = "waiting"
    /\ state' = [state EXCEPT ![w] = "ready"]
    /\ UNCHANGED << _tasks, _stop, task, client, owner >>
-----------------------------------------------------------------------------
(* addWorkers(count): it does not look at _stop.                           *)

AddWorkers(W) ==
    /\ owner = "alive"
    /\ W # {} /\ W \subseteq InState("new")
    /\ state' = [w \in Worker |-> IF w \in W THEN "ready" ELSE state[w]]
    /\ UNCHANGED << _tasks, _stop, task, client, owner >>
-----------------------------------------------------------------------------
(* The loop of a worker thread.                                            *)

\* Mutant: the wait predicate does not look at _stop.
WorkerWait_IgnoresStop(w) ==
    /\ state[w] = "ready"
    /\ _tasks = << >>
    /\ state' = [state EXCEPT ![w] = "waiting"]
    /\ UNCHANGED << _tasks, _stop, task, client, owner >>

\* The wait predicate is false: the thread blocks and releases the mutex.
WorkerWait(w) ==
    /\ state[w] = "ready"
    /\ ~_stop /\ _tasks = << >>
    /\ state' = [state EXCEPT ![w] = "waiting"]
    /\ UNCHANGED << _tasks, _stop, task, client, owner >>

\* The oldest task is moved out of the queue and run without the mutex.
WorkerTake(w) ==
    /\ state[w] = "ready"
    /\ _tasks # << >>
    /\ task' = [task EXCEPT ![w] = Head(_tasks)]
    /\ _tasks' = Tail(_tasks)
    /\ state' = [state EXCEPT ![w] = "running"]
    /\ UNCHANGED << _stop, client, owner >>

\* Mutant: the worker keeps the finished task.
WorkerDone_KeepsTask(w) ==
    /\ state[w] = "running"
    /\ state' = [state EXCEPT ![w] = "ready"]
    /\ UNCHANGED << _tasks, _stop, task, client, owner >>

\* task() has returned; an exception it threw is kept by the packaged_task.
WorkerDone(w) ==
    /\ state[w] = "running"
    /\ task' = [task EXCEPT ![w] = NoTask]
    /\ state' = [state EXCEPT ![w] = "ready"]
    /\ UNCHANGED << _tasks, _stop, client, owner >>

\* Mutant: a stopped worker leaves without looking at the queue.
MayExit_NotDrained == _stop

MayExit == _stop /\ _tasks = << >>

WorkerExit(w) ==
    /\ state[w] = "ready"
    /\ MayExit
    /\ state' = [state EXCEPT ![w] = "exited"]
    /\ UNCHANGED << _tasks, _stop, task, client, owner >>
-----------------------------------------------------------------------------
(* enqueue(): the locked section, which throws on a stopped pool, and the  *)
(* notification that follows it.                                           *)

\* Mutant: only the task that ends the queue's emptiness is announced.
EnqueueAccept_NotifyIfEmpty(c, t) ==
    /\ client[c] = "out"
    /\ ~_stop
    /\ _tasks' = Append(_tasks, t)
    /\ client' = [client EXCEPT ![c] = IF _tasks = << >> THEN "notify" ELSE "out"]
    /\ UNCHANGED << _stop, state, task, owner >>

EnqueueAccept(c, t) ==
    /\ client[c] = "out"
    /\ ~_stop
    /\ _tasks' = Append(_tasks, t)
    /\ client' = [client EXCEPT ![c] = "notify"]
    /\ UNCHANGED << _stop, state, task, owner >>

\* Mutant: the notification is forgotten.
EnqueueNotify_Silent(c) ==
    /\ client[c] = "notify"
    /\ client' = [client EXCEPT ![c] = "out"]
    /\ UNCHANGED << _tasks, _stop, state, task, owner >>

EnqueueNotify(c) ==
    /\ client[c] = "notify"
    /\ NotifyOne
    /\ client' = [client EXCEPT ![c] = "out"]
    /\ UNCHANGED << _tasks, _stop, task, owner >>

\* "enqueue on stopped TaskPool": the caller gets an exception.
EnqueueThrow(c) ==
    /\ client[c] = "out"
    /\ _stop /\ owner # "joined"
    /\ client' = [client EXCEPT ![c] = "threw"]
    /\ UNCHANGED << _tasks, _stop, state, task, owner >>
-----------------------------------------------------------------------------
(* stop(), which notifies with the mutex held, and the destructor.         *)

Stop ==
    /\ owner = "alive"
    /\ _stop' = TRUE
    /\ NotifyAll
    /\ UNCHANGED << _tasks, task, client, owner >>

DestructorStop ==
    /\ owner = "alive"
    /\ _stop' = TRUE
    /\ owner' = "stopping"
    /\ UNCHANGED << _tasks, state, task, client >>

\* Mutant: only one of the blocked workers is told.
DestructorNotify_One ==
    /\ owner = "stopping"
    /\ NotifyOne
    /\ owner' = "joining"
    /\ UNCHANGED << _tasks, _stop, task, client >>

DestructorNotify ==
    /\ owner = "stopping"
    /\ NotifyAll
    /\ owner' = "joining"
    /\ UNCHANGED << _tasks, _stop, task, client >>

DestructorJoined ==
    /\ owner = "joining"
    /\ \A w \in Worker : state[w] \in {"new", "exited"}
    /\ owner' = "joined"
    /\ UNCHANGED << _tasks, _stop, state, task, client >>
-----------------------------------------------------------------------------
\* A client hands in a task again only after it has run.
Idle(t) == ~Contains(_tasks, t) /\ \A w \in Worker : task[w] # t

\* The pool is gone: nothing is left to do.
Terminated == owner = "joined" /\ UNCHANGED vars

WorkerStep(w) ==
    WorkerWait(w) \/ WorkerTake(w) \/ WorkerDone(w) \/ WorkerExit(w)

Next ==
    \/ \E w \in Worker : WorkerStep(w) \/ SpuriousWakeup(w)
    \/ \E W \in SUBSET Worker : AddWorkers(W)
    \/ \E c \in Client, t \in Task : Idle(t) /\ EnqueueAccept(c, t)
    \/ \E c \in Client : EnqueueNotify(c) \/ EnqueueThrow(c)
    \/ Stop \/ DestructorStop \/ DestructorNotify \/ DestructorJoined
    \/ Terminated

\* The scheduler runs every thread that can run: a worker that is not blocked,
\* a client between its unlock and its notification, a destructor that began.
\* Nothing forces a client to call, and no spurious wakeup is relied upon.
Fairness ==
    /\ \A w \in Worker : WF_vars(WorkerStep(w))
    /\ \A c \in Client : WF_vars(EnqueueNotify(c))
    /\ WF_vars(DestructorNotify) /\ WF_vars(DestructorJoined)

Spec == Init /\ [][Next]_vars /\ Fairness
-----------------------------------------------------------------------------
(* Properties.                                                             *)

\* The types; a worker holds a task exactly while it runs one.
TypeOK ==
    /\ _tasks \in Seq(Task)
    /\ _stop \in BOOLEAN
    /\ state \in [Worker -> WorkerState]
    /\ task \in [Worker -> Task \union {NoTask}]
    /\ \A w \in Worker : state[w] = "running" <=> task[w] # NoTask
    /\ client \in [Client -> {"out", "notify", "threw"}]
    /\ owner \in {"alive", "stopping", "joining", "joined"}

\* While a worker sleeps, every queued task has a wakeup of its own on the way:
\* a worker that is about to test its predicate, or a caller of enqueue() that
\* is about to notify.  This is why notifying outside the mutex loses nothing,
\* however the callers, the busy workers and the sleeping ones interleave.
WakeupsCover ==
    InState("waiting") # {} =>
        Len(_tasks) <= Cardinality(InState("ready")) + Cardinality(Notifying)

\* No worker sleeps through the end: once the destructor has notified (or
\* stop() has), nobody is left in _condition.wait, so that join() returns.
NoneSleepsAfterStop ==
    _stop /\ owner \in {"alive", "joining", "joined"} => InState("waiting") = {}

\* The destructor drops no accepted task: when the last worker has been joined
\* the queue is empty and no task is half done.
DrainedWhenJoined ==
    owner = "joined" => _tasks = << >> /\ \A w \in Worker : task[w] = NoTask

\* Every task that enqueue() accepted is run, also when the pool is stopped
\* right after it was queued.
AcceptedTaskRuns ==
    \A t \in Task : Contains(_tasks, t) ~> (\E w \in Worker : task[w] = t)

\* The destructor returns.
DestructorReturns == (owner = "stopping") ~> (owner = "joined")
=============================================================================
