------------------------ MODULE PiWorkerPool_proofs ------------------------
(***************************************************************************)
(* Safety of PiWorkerPool for any finite set of workers, any finite set of *)
(* callers and any tasks.                                                  *)
(*                                                                         *)
(* WakeupsCover and NoneSleepsAfterStop are preserved with the help of the *)
(* types.  DrainedWhenJoined needs more: the queue is empty from the first *)
(* exit of a worker on, because the pool is then stopped and enqueue()     *)
(* throws, and the join has an exited worker to rely on because the        *)
(* constructor has started one.                                            *)
(***************************************************************************)
EXTENDS PiWorkerPool, FiniteSetTheorems, TLAPS

\* A worker leaves only a stopped pool whose queue is empty, and the queue of a
\* stopped pool does not grow again.
ExitedDrained == (\E w \in Worker : state[w] = "exited") => _stop /\ _tasks = << >>

\* What the destructor has done so far.
OwnerProgress ==
    /\ owner # "alive" => _stop
    /\ owner = "joined" => \A w \in Worker : state[w] \in {"new", "exited"}

\* The constructor's worker.
SomeStarted == \E w \in Worker : state[w] # "new"

IndInv ==
    /\ TypeOK
    /\ WakeupsCover
    /\ NoneSleepsAfterStop
    /\ ExitedDrained
    /\ OwnerProgress
    /\ SomeStarted
-----------------------------------------------------------------------------
(* The sets that WakeupsCover counts.                                      *)

\* The sets of workers and of callers are finite, and so are the parts that
\* the condition variable's bookkeeping distinguishes.
LEMMA CountsAreNat ==
    /\ \A s : IsFiniteSet(InState(s)) /\ Cardinality(InState(s)) \in Nat
    /\ IsFiniteSet(Notifying) /\ Cardinality(Notifying) \in Nat
<1>1. \A s : InState(s) \subseteq Worker
  BY DEF InState
<1>2. Notifying \subseteq Client
  BY DEF Notifying
<1>3. \A s : IsFiniteSet(InState(s))
  BY <1>1, PoolAssumption, FS_Subset
<1>4. IsFiniteSet(Notifying)
  BY <1>2, PoolAssumption, FS_Subset
<1> QED
  BY <1>3, <1>4, FS_CardinalityType

\* A worker that becomes ready is one more wakeup.
LEMMA OneMoreReady ==
    ASSUME NEW w \in Worker, state \in [Worker -> WorkerState],
           state[w] # "ready", state' = [state EXCEPT ![w] = "ready"]
    PROVE  Cardinality(InState("ready")') = Cardinality(InState("ready")) + 1
<1>1. InState("ready")' = InState("ready") \union {w}
  BY DEF InState
<1>2. w \notin InState("ready")
  BY DEF InState
<1> QED
  BY <1>1, <1>2, CountsAreNat, FS_AddElement

\* A ready worker that does something else is one wakeup less.
LEMMA OneLessReady ==
    ASSUME NEW w \in Worker, NEW s \in WorkerState, s # "ready",
           state \in [Worker -> WorkerState],
           state[w] = "ready", state' = [state EXCEPT ![w] = s]
    PROVE  Cardinality(InState("ready")') = Cardinality(InState("ready")) - 1
<1>1. InState("ready")' = InState("ready") \ {w}
  BY DEF InState
<1>2. w \in InState("ready")
  BY DEF InState
<1> QED
  BY <1>1, <1>2, CountsAreNat, FS_RemoveElement
-----------------------------------------------------------------------------
(* The inductive invariant.                                                *)

\* The constructor establishes the invariant.
LEMMA InitIndInv == Init => IndInv
<1> SUFFICES ASSUME Init PROVE IndInv
  OBVIOUS
<1> USE PoolAssumption
<1>1. TypeOK
  <2>1. PICK w \in Worker : state = [v \in Worker |-> IF v = w THEN "ready" ELSE "new"]
    BY DEF Init
  <2>2. state \in [Worker -> WorkerState] /\ \A v \in Worker : state[v] # "running"
    BY <2>1 DEF WorkerState
  <2>3. _tasks \in Seq(Task)
    BY DEF Init
  <2>4. \A v \in Worker : state[v] = "running" <=> task[v] # NoTask
    BY <2>2 DEF Init
  <2>5. /\ _stop \in BOOLEAN
        /\ task \in [Worker -> Task \union {NoTask}]
        /\ client \in [Client -> {"out", "notify", "threw"}]
        /\ owner \in {"alive", "stopping", "joining", "joined"}
    BY DEF Init
  <2> QED
    BY <2>2, <2>3, <2>4, <2>5 DEF TypeOK
<1>2. InState("waiting") = {}
  BY DEF Init, InState
<1>3. ExitedDrained /\ OwnerProgress /\ SomeStarted
  BY DEF Init, ExitedDrained, OwnerProgress, SomeStarted
<1> QED
  BY <1>1, <1>2, <1>3 DEF IndInv, WakeupsCover, NoneSleepsAfterStop

\* Every step keeps the types, and a worker's task with its state.
LEMMA NextTypeOK == TypeOK /\ [Next]_vars => TypeOK'
<1> SUFFICES ASSUME TypeOK, [Next]_vars PROVE TypeOK'
  OBVIOUS
<1> USE PoolAssumption DEF TypeOK, WorkerState
<1>1. ASSUME NEW w \in Worker, WorkerStep(w) PROVE TypeOK'
  <2>1. CASE WorkerWait(w)
    BY <2>1 DEF WorkerWait
  <2>2. CASE WorkerTake(w)
    <3>1. Head(_tasks) \in Task /\ Tail(_tasks) \in Seq(Task)
      BY <2>2 DEF WorkerTake
    <3> QED
      BY <2>2, <3>1 DEF WorkerTake
  <2>3. CASE WorkerDone(w)
    BY <2>3 DEF WorkerDone
  <2>4. CASE WorkerExit(w)
    BY <2>4 DEF WorkerExit
  <2> QED
    BY <1>1, <2>1, <2>2, <2>3, <2>4 DEF WorkerStep
<1>2. ASSUME NEW w \in Worker, SpuriousWakeup(w) PROVE TypeOK'
  BY <1>2 DEF SpuriousWakeup
<1>3. ASSUME NEW W \in SUBSET Worker, AddWorkers(W) PROVE TypeOK'
  BY <1>3 DEF AddWorkers, InState
<1>4. ASSUME NEW c \in Client, NEW t \in Task, EnqueueAccept(c, t) PROVE TypeOK'
  BY <1>4 DEF EnqueueAccept
<1>5. ASSUME NEW c \in Client, EnqueueNotify(c) PROVE TypeOK'
  BY <1>5 DEF EnqueueNotify, NotifyOne, InState
<1>6. ASSUME NEW c \in Client, EnqueueThrow(c) PROVE TypeOK'
  BY <1>6 DEF EnqueueThrow
<1>7. CASE Stop
  BY <1>7 DEF Stop, NotifyAll
<1>8. CASE DestructorStop
  BY <1>8 DEF DestructorStop
<1>9. CASE DestructorNotify
  BY <1>9 DEF DestructorNotify, NotifyAll
<1>10. CASE DestructorJoined
  BY <1>10 DEF DestructorJoined
<1>11. CASE UNCHANGED vars
  BY <1>11 DEF vars
<1> QED
  BY <1>1, <1>2, <1>3, <1>4, <1>5, <1>6, <1>7, <1>8, <1>9, <1>10, <1>11
     DEF Next, Terminated

\* Every step keeps a wakeup for every queued task while a worker sleeps.
LEMMA NextWakeupsCover == TypeOK /\ WakeupsCover /\ [Next]_vars => WakeupsCover'
<1> SUFFICES ASSUME TypeOK, WakeupsCover, [Next]_vars, InState("waiting")' # {}
             PROVE  Len(_tasks)' <= Cardinality(InState("ready")') + Cardinality(Notifying')
  BY DEF WakeupsCover
<1> DEFINE R == Cardinality(InState("ready"))
           N == Cardinality(Notifying)
<1>a. R \in Nat /\ N \in Nat /\ IsFiniteSet(InState("ready")) /\ IsFiniteSet(Notifying)
  BY CountsAreNat
<1>b. _tasks \in Seq(Task) /\ Len(_tasks) \in Nat /\ state \in [Worker -> WorkerState]
  BY DEF TypeOK
<1>c. ASSUME UNCHANGED state PROVE InState("ready")' = InState("ready") /\ InState("waiting")' = InState("waiting")
  BY <1>c DEF InState
<1>d. ASSUME UNCHANGED client PROVE Notifying' = Notifying
  BY <1>d DEF Notifying
<1>1. ASSUME NEW w \in Worker, WorkerWait(w)
      PROVE  Len(_tasks)' <= Cardinality(InState("ready")') + Cardinality(Notifying')
  <2>1. Cardinality(InState("ready")') \in Nat
    <3>1. InState("ready")' = InState("ready") \ {w}
      BY <1>1, <1>b DEF WorkerWait, InState
    <3> QED
      BY <3>1, <1>a, FS_Subset, FS_CardinalityType
  <2>2. Len(_tasks)' = 0 /\ Notifying' = Notifying
    BY <1>1, <1>d DEF WorkerWait
  <2> QED
    BY <2>1, <2>2, <1>a
<1>2. ASSUME NEW w \in Worker, WorkerTake(w)
      PROVE  Len(_tasks)' <= Cardinality(InState("ready")') + Cardinality(Notifying')
  <2>1. Cardinality(InState("ready")') = R - 1
    BY <1>2, <1>b, OneLessReady DEF WorkerTake, WorkerState
  <2>2. Len(_tasks)' = Len(_tasks) - 1
    BY <1>2, <1>b DEF WorkerTake
  <2>3. InState("waiting")' = InState("waiting") /\ Notifying' = Notifying
    BY <1>2, <1>b, <1>d DEF WorkerTake, InState
  <2> QED
    BY <2>1, <2>2, <2>3, <1>a, <1>b DEF WakeupsCover
<1>3. ASSUME NEW w \in Worker, WorkerDone(w)
      PROVE  Len(_tasks)' <= Cardinality(InState("ready")') + Cardinality(Notifying')
  <2>1. Cardinality(InState("ready")') = R + 1
    BY <1>3, <1>b, OneMoreReady DEF WorkerDone
  <2>2. Len(_tasks)' = Len(_tasks)
    BY <1>3 DEF WorkerDone
  <2>3. InState("waiting")' = InState("waiting") /\ Notifying' = Notifying
    BY <1>3, <1>b, <1>d DEF WorkerDone, InState
  <2> QED
    BY <2>1, <2>2, <2>3, <1>a, <1>b DEF WakeupsCover
<1>4. ASSUME NEW w \in Worker, WorkerExit(w)
      PROVE  Len(_tasks)' <= Cardinality(InState("ready")') + Cardinality(Notifying')
  <2>1. Cardinality(InState("ready")') \in Nat
    <3>1. InState("ready")' = InState("ready") \ {w}
      BY <1>4, <1>b DEF WorkerExit, InState
    <3> QED
      BY <3>1, <1>a, FS_Subset, FS_CardinalityType
  <2>2. Len(_tasks)' = 0 /\ Notifying' = Notifying
    BY <1>4, <1>d DEF WorkerExit, MayExit
  <2> QED
    BY <2>1, <2>2, <1>a
<1>5. ASSUME NEW w \in Worker, SpuriousWakeup(w)
      PROVE  Len(_tasks)' <= Cardinality(InState("ready")') + Cardinality(Notifying')
  <2>1. Cardinality(InState("ready")') = R + 1
    BY <1>5, <1>b, OneMoreReady DEF SpuriousWakeup
  <2>2. Len(_tasks)' = Len(_tasks) /\ Notifying' = Notifying
    BY <1>5, <1>d DEF SpuriousWakeup
  <2>3. InState("waiting") # {}
    BY <1>5 DEF SpuriousWakeup, InState
  <2> QED
    BY <2>1, <2>2, <2>3, <1>a, <1>b DEF WakeupsCover
<1>6. ASSUME NEW W \in SUBSET Worker, AddWorkers(W)
      PROVE  Len(_tasks)' <= Cardinality(InState("ready")') + Cardinality(Notifying')
  <2>1. InState("ready")' = InState("ready") \union W /\ InState("waiting")' = InState("waiting")
    BY <1>6, <1>b DEF AddWorkers, InState
  <2>2. IsFiniteSet(InState("ready") \union W)
    BY <1>a, PoolAssumption, FS_Subset, FS_Union
  <2>3. R <= Cardinality(InState("ready") \union W) /\ Cardinality(InState("ready") \union W) \in Nat
    <3>1. InState("ready") \subseteq InState("ready") \union W
      OBVIOUS
    <3> QED
      BY <2>2, <3>1, FS_Subset, FS_CardinalityType
  <2>4. Len(_tasks)' = Len(_tasks) /\ Notifying' = Notifying
    BY <1>6, <1>d DEF AddWorkers
  <2>5. R <= Cardinality(InState("ready")') /\ Cardinality(InState("ready")') \in Nat
    BY <2>1, <2>3
  <2>6. Len(_tasks) <= R + N
    BY <2>1 DEF WakeupsCover
  <2> HIDE DEF R, N
  <2> QED
    BY <2>4, <2>5, <2>6, <1>a, <1>b DEF N
<1>7. ASSUME NEW c \in Client, NEW t \in Task, EnqueueAccept(c, t)
      PROVE  Len(_tasks)' <= Cardinality(InState("ready")') + Cardinality(Notifying')
  <2>1. Notifying' = Notifying \union {c} /\ c \notin Notifying
    BY <1>7 DEF EnqueueAccept, Notifying, TypeOK
  <2>2. Cardinality(Notifying') = N + 1
    BY <2>1, <1>a, FS_AddElement
  <2>3. Len(_tasks)' = Len(_tasks) + 1
    BY <1>7, <1>b DEF EnqueueAccept
  <2>4. InState("ready")' = InState("ready") /\ InState("waiting")' = InState("waiting")
    BY <1>7, <1>c DEF EnqueueAccept
  <2> QED
    BY <2>2, <2>3, <2>4, <1>a, <1>b DEF WakeupsCover
<1>8. ASSUME NEW c \in Client, EnqueueNotify(c)
      PROVE  Len(_tasks)' <= Cardinality(InState("ready")') + Cardinality(Notifying')
  <2>1. Notifying' = Notifying \ {c} /\ c \in Notifying
    BY <1>8 DEF EnqueueNotify, Notifying, TypeOK
  <2>2. Cardinality(Notifying') = N - 1
    BY <2>1, <1>a, FS_RemoveElement
  <2>3. InState("waiting") # {}
    BY <1>8, <1>c DEF EnqueueNotify, NotifyOne
  <2>4. PICK w \in InState("waiting") : state' = [state EXCEPT ![w] = "ready"]
    BY <1>8, <2>3 DEF EnqueueNotify, NotifyOne
  <2>5. Cardinality(InState("ready")') = R + 1
    BY <2>4, <1>b, OneMoreReady DEF InState
  <2>6. Len(_tasks)' = Len(_tasks)
    BY <1>8 DEF EnqueueNotify
  <2> QED
    BY <2>2, <2>3, <2>5, <2>6, <1>a, <1>b DEF WakeupsCover
<1>9. ASSUME NEW c \in Client, EnqueueThrow(c)
      PROVE  Len(_tasks)' <= Cardinality(InState("ready")') + Cardinality(Notifying')
  <2>1. Notifying' = Notifying
    BY <1>9 DEF EnqueueThrow, Notifying, TypeOK
  <2> QED
    BY <1>9, <2>1, <1>c DEF EnqueueThrow, WakeupsCover
<1>10. CASE Stop \/ DestructorNotify
  <2>1. InState("waiting")' = {}
    BY <1>10, <1>b DEF Stop, DestructorNotify, NotifyAll, InState
  <2> QED
    BY <2>1
<1>11. CASE DestructorStop \/ DestructorJoined \/ UNCHANGED vars
  BY <1>11, <1>c, <1>d DEF DestructorStop, DestructorJoined, vars, WakeupsCover
<1> QED
  BY <1>1, <1>2, <1>3, <1>4, <1>5, <1>6, <1>7, <1>8, <1>9, <1>10, <1>11
     DEF Next, WorkerStep, Terminated

\* Every step keeps the rest of the invariant: who may sleep, who may have left
\* and what the destructor relies on.
LEMMA NextEndInv ==
    IndInv /\ [Next]_vars => (NoneSleepsAfterStop /\ ExitedDrained /\ OwnerProgress /\ SomeStarted)'
<1> SUFFICES ASSUME IndInv, [Next]_vars
             PROVE  (NoneSleepsAfterStop /\ ExitedDrained /\ OwnerProgress /\ SomeStarted)'
  OBVIOUS
<1> USE DEF IndInv, TypeOK, WorkerState, NoneSleepsAfterStop, ExitedDrained,
            OwnerProgress, SomeStarted, InState
<1>1. ASSUME NEW w \in Worker, WorkerStep(w)
      PROVE  (NoneSleepsAfterStop /\ ExitedDrained /\ OwnerProgress /\ SomeStarted)'
  <2>1. CASE WorkerWait(w)
    BY <2>1 DEF WorkerWait
  <2>2. CASE WorkerTake(w)
    BY <2>2 DEF WorkerTake
  <2>3. CASE WorkerDone(w)
    BY <2>3 DEF WorkerDone
  <2>4. CASE WorkerExit(w)
    BY <2>4 DEF WorkerExit, MayExit
  <2> QED
    BY <1>1, <2>1, <2>2, <2>3, <2>4 DEF WorkerStep
<1>2. ASSUME NEW w \in Worker, SpuriousWakeup(w)
      PROVE  (NoneSleepsAfterStop /\ ExitedDrained /\ OwnerProgress /\ SomeStarted)'
  BY <1>2 DEF SpuriousWakeup
<1>3. ASSUME NEW W \in SUBSET Worker, AddWorkers(W)
      PROVE  (NoneSleepsAfterStop /\ ExitedDrained /\ OwnerProgress /\ SomeStarted)'
  BY <1>3 DEF AddWorkers
<1>4. ASSUME NEW c \in Client, NEW t \in Task, EnqueueAccept(c, t)
      PROVE  (NoneSleepsAfterStop /\ ExitedDrained /\ OwnerProgress /\ SomeStarted)'
  BY <1>4 DEF EnqueueAccept
<1>5. ASSUME NEW c \in Client, EnqueueNotify(c)
      PROVE  (NoneSleepsAfterStop /\ ExitedDrained /\ OwnerProgress /\ SomeStarted)'
  <2>1. CASE UNCHANGED state
    BY <1>5, <2>1 DEF EnqueueNotify
  <2>2. ASSUME NEW w \in Worker, state[w] = "waiting", state' = [state EXCEPT ![w] = "ready"]
        PROVE  (NoneSleepsAfterStop /\ ExitedDrained /\ OwnerProgress /\ SomeStarted)'
    BY <1>5, <2>2 DEF EnqueueNotify
  <2> QED
    BY <1>5, <2>1, <2>2 DEF EnqueueNotify, NotifyOne
<1>6. ASSUME NEW c \in Client, EnqueueThrow(c)
      PROVE  (NoneSleepsAfterStop /\ ExitedDrained /\ OwnerProgress /\ SomeStarted)'
  BY <1>6 DEF EnqueueThrow
<1>7. CASE Stop
  BY <1>7 DEF Stop, NotifyAll
<1>8. CASE DestructorStop
  BY <1>8 DEF DestructorStop
<1>9. CASE DestructorNotify
  BY <1>9 DEF DestructorNotify, NotifyAll
<1>10. CASE DestructorJoined
  BY <1>10 DEF DestructorJoined
<1>11. CASE UNCHANGED vars
  BY <1>11 DEF vars
<1> QED
  BY <1>1, <1>2, <1>3, <1>4, <1>5, <1>6, <1>7, <1>8, <1>9, <1>10, <1>11
     DEF Next, Terminated
-----------------------------------------------------------------------------
(* The theorems.                                                           *)

\* The invariant holds in every reachable state.
THEOREM IndInvariance == Spec => []IndInv
<1>1. IndInv /\ [Next]_vars => IndInv'
  BY NextTypeOK, NextWakeupsCover, NextEndInv DEF IndInv
<1> QED
  BY <1>1, InitIndInv, PTL DEF Spec

\* However the threads interleave, a worker holds a task exactly while it runs
\* one: none is left in its hands when it waits for the next or exits.
THEOREM TypeInvariance == Spec => []TypeOK
<1>1. IndInv => TypeOK
  BY DEF IndInv
<1> QED
  BY <1>1, IndInvariance, PTL

\* No wakeup is lost, however many workers and callers there are, although
\* enqueue() notifies after it has released the mutex.
THEOREM WakeupsCoverInvariance == Spec => []WakeupsCover
<1>1. IndInv => WakeupsCover
  BY DEF IndInv
<1> QED
  BY <1>1, IndInvariance, PTL

\* Nobody sleeps once the destructor or stop() has notified.
THEOREM NoneSleepsInvariance == Spec => []NoneSleepsAfterStop
<1>1. IndInv => NoneSleepsAfterStop
  BY DEF IndInv
<1> QED
  BY <1>1, IndInvariance, PTL

\* The destructor returns with every accepted task done.
THEOREM DrainedInvariance == Spec => []DrainedWhenJoined
<1>1. IndInv => DrainedWhenJoined
  <2> SUFFICES ASSUME IndInv, owner = "joined"
               PROVE  _tasks = << >> /\ \A w \in Worker : task[w] = NoTask
    BY DEF DrainedWhenJoined
  <2>1. \A w \in Worker : state[w] \in {"new", "exited"}
    BY DEF IndInv, OwnerProgress
  <2>2. \E w \in Worker : state[w] = "exited"
    BY <2>1 DEF IndInv, SomeStarted
  <2> QED
    BY <2>1, <2>2 DEF IndInv, ExitedDrained, TypeOK
<1> QED
  BY <1>1, IndInvariance, PTL
=============================================================================
