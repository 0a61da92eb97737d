-------------------------- MODULE PiRecorder_proofs --------------------------
(***************************************************************************)
(* Safety of PiRecorder for any sets of recorders and workers, any ring    *)
(* and any bounds.                                                         *)
(*                                                                         *)
(* The argument: is_encoding_ is a lock on the recorder's one task.  While *)
(* a task is queued or in a worker's hands before its locked section, the  *)
(* flag is set, so the clock thread pushes no other frame and reset()      *)
(* clears nothing; the newest frame of the ring, its number and its cycle  *)
(* are therefore still those of the task when the worker looks at them.    *)
(* That the clock thread meets no incomplete recorder rests on the nesting *)
(* of the two mutexes during create() and the destructor.                  *)
(***************************************************************************)
EXTENDS PiRecorder, FiniteSetTheorems, TLAPS

\* A frame as the ring and onFrame() see it.
FrameRecord == [cycle : Nat, frame_num : Nat, pcm : Nat]

\* The types that TypeOK leaves open.
MoreTypes ==
    /\ clock \in [pc : {"idle", "ports", "waiting", "woken", "notify"},
                  rec : Recorder \union {None}, todo : SUBSET Recorder]
    /\ api \in [pc : {"idle", "register", "ring", "waiting", "woken", "unregister",
                      "free"},
                rec : Recorder \union {None}]
    /\ window \in [Recorder -> Seq(FrameRecord)]
    /\ delivered \in [Recorder -> Seq(FrameRecord)]
    /\ cycle_ \in [Recorder -> Nat]
    /\ frameCount \in [Recorder -> Nat]
    /\ taken \in [Recorder -> Nat]

Queued(r) == \E i \in DOMAIN _tasks : _tasks[i] = r

InHand(r) == \E w \in Worker : Pending(w, r)

Busy(r) == Queued(r) \/ InHand(r)

\* At most one task is outstanding for r, and only under is_encoding_.
OneTask(r) ==
    /\ \A i, j \in DOMAIN _tasks : _tasks[i] = r /\ _tasks[j] = r => i = j
    /\ \A v, w \in Worker : Pending(v, r) /\ Pending(w, r) => v = w
    /\ ~(Queued(r) /\ InHand(r))
    /\ Busy(r) => is_encoding_[r]

Newest(r) == window[r][Len(window[r])]

\* The newest frame is the outstanding task's, and nobody has touched the
\* counters since it was pushed.
FrameReady(r) ==
    Busy(r) /\ life[r] # "destroyed" =>
        /\ window[r] # << >>
        /\ Newest(r).pcm = taken[r]
        /\ Newest(r).cycle = cycle_[r]
        /\ Newest(r).frame_num = frameCount[r]

\* Every frame taken is delivered or outstanding.
Counted(r) ==
    taken[r] = IF Busy(r) THEN Len(delivered[r]) + 1 ELSE Len(delivered[r])

\* How frame i of the sequence d follows frame i - 1.
Follows(d, i) ==
    IF i > 1 /\ d[i - 1].cycle = d[i].cycle
    THEN d[i].frame_num = d[i - 1].frame_num + 1
    ELSE d[i].frame_num = 0 /\ (i > 1 => d[i].cycle > d[i - 1].cycle)

\* What was delivered is in order, and frameCount continues it.
InOrder(r) ==
    /\ \A i \in DOMAIN delivered[r] :
          delivered[r][i].pcm = i /\ Follows(delivered[r], i)
    /\ LET n == Len(delivered[r]) IN
       IF n > 0 /\ delivered[r][n].cycle = cycle_[r]
       THEN frameCount[r] = delivered[r][n].frame_num + 1
       ELSE frameCount[r] = 0 /\ (n > 0 => delivered[r][n].cycle < cycle_[r])

\* The application thread is in create() or in the destructor, with mutex_.
ApiLocked == {"register", "ring", "unregister", "free"}

\* Who holds which mutex, and which recorders the bridge may call.
Locks ==
    /\ conf = Clock <=> clock.pc # "idle"
    /\ clock.pc # "idle" => clock.todo \subseteq ports
    /\ clock.pc \in {"waiting", "woken", "notify"} => clock.rec \in clock.todo
    /\ clock.pc = "notify" => mutex[clock.rec] = Clock
    /\ api.pc # "idle" => api.rec \in Recorder
    /\ api.pc \in ApiLocked => mutex[api.rec] = Api
    /\ api.pc \in {"register", "ring"} => life[api.rec] = "new"
    /\ api.pc \in {"unregister", "free"} => life[api.rec] = "created"
    /\ api.pc = "ring" => api.rec \in ports
    /\ api.pc = "free" => api.rec \notin ports
    /\ \A r \in ports : life[r] = "created" \/ (api.pc = "ring" /\ api.rec = r)
    /\ \A r \in Recorder :
          life[r] = "created" => r \in ports \/ (api.pc = "free" /\ api.rec = r)

Core == TypeOK /\ MoreTypes /\ Locks /\ \A r \in Recorder : OneTask(r)

Frames == \A r \in Recorder : FrameReady(r) /\ Counted(r) /\ InOrder(r)
-----------------------------------------------------------------------------
(* The types.                                                              *)

\* What push() leaves in the ring: at most Capacity frames, the new one last.
LEMMA LatestProperties ==
    ASSUME NEW S, NEW s \in Seq(S), NEW e \in S, NEW n \in Nat \ {0}
    PROVE  LET t == Ring!Latest(Append(s, e), n)
           IN  t \in Seq(S) /\ Len(t) <= n /\ t # << >> /\ t[Len(t)] = e
<1> DEFINE a == Append(s, e)
           t == Ring!Latest(a, n)
<1> SUFFICES t \in Seq(S) /\ Len(t) <= n /\ t # << >> /\ t[Len(t)] = e
  OBVIOUS
<1>1. a \in Seq(S) /\ Len(a) = Len(s) + 1 /\ a[Len(a)] = e /\ Len(a) \in Nat
  OBVIOUS
<1>2. CASE Len(a) <= n
  <2>1. t = a
    BY <1>2 DEF Ring!Latest
  <2> QED
    BY <1>1, <1>2, <2>1
<1>3. CASE ~(Len(a) <= n)
  <2> HIDE DEF a
  <2> DEFINE m == Len(a) - n + 1
  <2>1. t = SubSeq(a, m, Len(a))
    BY <1>3 DEF Ring!Latest
  <2>2. m \in 1 .. Len(a) /\ m \in Nat /\ Len(a) - m + 1 = n
    BY <1>1, <1>3
  <2> HIDE DEF m
  <2>3. t \in Seq(S) /\ Len(t) = n /\ \A i \in 1 .. n : t[i] = a[m + i - 1]
    BY <1>1, <2>1, <2>2
  <2>4. t[n] = a[Len(a)]
    BY <1>1, <2>2, <2>3
  <2> QED
    BY <1>1, <2>3, <2>4
<1> HIDE DEF t
<1> QED
  BY <1>2, <1>3

\* The detector's results and configurations stay within their types.
LEMMA FvadTypes ==
    /\ fvad_reset \in FvadConfig
    /\ \A v \in FvadConfig, m \in Int : fvad_set_mode(v, m) \in FvadConfig
    /\ \A v \in FvadConfig, k \in Int : fvad_set_sample_rate(v, k) \in FvadConfig
    /\ \A v \in FvadConfig, n \in Nat : fvad_process(v, n) \subseteq {-1, 0, 1}
BY DEF FvadConfig, fvad_reset, fvad_set_mode, fvad_set_sample_rate, fvad_process,
       valid_modes, valid_rates

\* The constructors and a bridge without recorders establish the invariant.
LEMMA InitCore == Init => Core
<1> SUFFICES ASSUME Init PROVE Core
  OBVIOUS
<1>0. << >> \in Seq(Recorder)
  OBVIOUS
<1> USE RecorderAssumption DEF Init, Pool!Init
<1>1. TypeOK
  <2>1. Pool!TypeOK
    <3>1. PICK w \in Worker : state = [v \in Worker |-> IF v = w THEN "ready" ELSE "new"]
      OBVIOUS
    <3>2. state \in [Worker -> Pool!WorkerState] /\ \A v \in Worker : state[v] # "running"
      BY <3>1 DEF Pool!WorkerState
    <3>3. \A v \in Worker : state[v] = "running" <=> task[v] # None
      BY <3>2
    <3>4. _tasks \in Seq(Recorder) /\ _stop \in BOOLEAN
      BY <1>0
    <3>5. task \in [Worker -> Recorder \union {None}]
      OBVIOUS
    <3>6. client \in [{Clock} -> {"out", "notify", "threw"}]
      OBVIOUS
    <3>7. owner \in {"alive", "stopping", "joining", "joined"}
      OBVIOUS
    <3> QED
      BY <3>2, <3>3, <3>4, <3>5, <3>6, <3>7 DEF Pool!TypeOK
  <2>2. vad \in [Recorder -> FvadConfig]
    BY FvadTypes
  <2> QED
    BY <2>1, <2>2 DEF TypeOK
<1>2. MoreTypes
  BY DEF MoreTypes
<1>3. Locks
  BY DEF Locks, ApiLocked
<1>4. \A r \in Recorder : OneTask(r)
  BY DEF OneTask, Busy, Queued, InHand, Pending
<1> QED
  BY <1>1, <1>2, <1>3, <1>4 DEF Core

\* The pool's types are kept by the steps of the pool.
LEMMA NextPoolTypes ==
    ASSUME Pool!TypeOK, [Next]_vars
    PROVE  Pool!TypeOK'
<1> USE RecorderAssumption DEF Pool!TypeOK, Pool!WorkerState, poolVars
<1>1. ASSUME NEW r \in Recorder, Pool!EnqueueAccept(Clock, r) PROVE Pool!TypeOK'
  BY <1>1 DEF Pool!EnqueueAccept
<1>2. ASSUME Pool!EnqueueNotify(Clock) PROVE Pool!TypeOK'
  BY <1>2 DEF Pool!EnqueueNotify, Pool!NotifyOne, Pool!InState
<1>3. ASSUME NEW w \in Worker, Pool!WorkerWait(w) PROVE Pool!TypeOK'
  BY <1>3 DEF Pool!WorkerWait
<1>4. ASSUME NEW w \in Worker, Pool!WorkerTake(w) PROVE Pool!TypeOK'
  <2>1. Head(_tasks) \in Recorder /\ Tail(_tasks) \in Seq(Recorder)
    BY <1>4 DEF Pool!WorkerTake
  <2> QED
    BY <1>4, <2>1 DEF Pool!WorkerTake
<1>5. ASSUME NEW w \in Worker, Pool!WorkerDone(w) PROVE Pool!TypeOK'
  BY <1>5 DEF Pool!WorkerDone
<1>6. ASSUME NEW W \in SUBSET Worker, Pool!AddWorkers(W) PROVE Pool!TypeOK'
  BY <1>6 DEF Pool!AddWorkers, Pool!InState
<1>7. CASE UNCHANGED poolVars
  BY <1>7
<1> HIDE DEF Pool!TypeOK, poolVars
<1>8. \/ UNCHANGED poolVars
      \/ \E r \in Recorder : Pool!EnqueueAccept(Clock, r)
      \/ Pool!EnqueueNotify(Clock)
      \/ \E w \in Worker : \/ Pool!WorkerWait(w) \/ Pool!WorkerTake(w)
                           \/ Pool!WorkerDone(w)
      \/ \E W \in SUBSET Worker : Pool!AddWorkers(W)
  <2>1. CASE UNCHANGED vars
    BY <2>1 DEF vars
  <2>2. CASE ClockStep
    BY <2>2 DEF ClockStep, TickBegin, TickEnd, Heartbeat, PutWait, PutNotify,
                PutFrame, PutError
  <2>3. CASE ApiContinue
    BY <2>3 DEF ApiContinue, CreateRegister, CreateThrow, CreateRing, ResetWait,
                Reset, DestroyUnregister, DestroyFree
  <2>4. CASE ApiCall
    BY <2>4 DEF ApiCall, AddEncoderThreads, CreateBegin, Transmit, DestroyBegin,
                setVadMode, ResetWait, Reset
  <2>5. CASE SpuriousWakeup
    BY <2>5 DEF SpuriousWakeup
  <2>6. ASSUME NEW w \in Worker, WorkerStep(w)
        PROVE  \/ UNCHANGED poolVars
               \/ \/ Pool!WorkerWait(w) \/ Pool!WorkerTake(w)
                  \/ Pool!WorkerDone(w)
    BY <2>6 DEF WorkerStep, WorkerLoop, WorkerNotify, WorkerRun
  <2> QED
    BY <2>1, <2>2, <2>3, <2>4, <2>5, <2>6 DEF Next
<1> QED
  BY <1>1, <1>2, <1>3, <1>4, <1>5, <1>6, <1>7, <1>8

\* The types of everything else.
LEMMA NextTypes ==
    ASSUME TypeOK, MoreTypes, Locks, [Next]_vars
    PROVE  TypeOK' /\ MoreTypes'
<1> DEFINE RestTypes ==
             /\ conf \in {None, Clock} /\ ports \subseteq Recorder
             /\ sending \subseteq ports
             /\ unlocked \subseteq Worker /\ \A w \in unlocked : state[w] = "running"
             /\ life \in [Recorder -> {"new", "created", "destroyed"}]
             /\ mutex \in [Recorder -> {None, Clock, Api}]
             /\ is_encoding_ \in [Recorder -> BOOLEAN]
             /\ \A r \in Recorder : Len(window[r]) <= Capacity
             /\ vad \in [Recorder -> FvadConfig]
             /\ encoder_ \in [Recorder -> {"none", "dtx", "plain"}]
             /\ vad_state_ \in [Recorder -> {-1, 0, 1}]
<1> USE RecorderAssumption
<1>1. Pool!TypeOK'
  BY NextPoolTypes DEF TypeOK
<1>2. RestTypes
  BY DEF TypeOK, Pool!InState
<1>3. SUFFICES RestTypes' /\ MoreTypes'
  BY <1>1 DEF TypeOK, MoreTypes, Pool!InState
<1> HIDE DEF RestTypes
<1> USE DEF MoreTypes, poolVars, confVars, codecVars, countVars
<1>4. CASE UNCHANGED vars
  BY <1>2, <1>4 DEF vars, RestTypes
<1>5. CASE TickBegin
  BY <1>2, <1>5 DEF TickBegin, RestTypes
<1>6. CASE TickEnd
  BY <1>2, <1>6 DEF TickEnd, RestTypes
<1>7. ASSUME NEW r \in Recorder, Heartbeat(r) PROVE RestTypes' /\ MoreTypes'
  BY <1>2, <1>7 DEF Heartbeat, PortDone, RestTypes
<1>8. ASSUME NEW r \in Recorder, PutWait(r) PROVE RestTypes' /\ MoreTypes'
  BY <1>2, <1>8 DEF PutWait, RestTypes
<1>9. ASSUME NEW r \in Recorder, PutNotify(r) PROVE RestTypes' /\ MoreTypes'
  <2>1. \A w \in unlocked : state'[w] = "running"
    BY <1>2, <1>9 DEF PutNotify, RestTypes, Pool!EnqueueNotify, Pool!NotifyOne,
                      Pool!InState, TypeOK, Pool!TypeOK
  <2> QED
    BY <1>2, <1>9, <2>1 DEF PutNotify, PortDone, RestTypes
<1>10. ASSUME NEW r \in Recorder, NEW size \in FrameSizes, PutFrame(r, size)
       PROVE  RestTypes' /\ MoreTypes'
  <2>1. NewFrame(r) \in FrameRecord
    BY DEF NewFrame, FrameRecord
  <2>2. AfterPush(r, size) \in Seq(FrameRecord) /\ Len(AfterPush(r, size)) <= Capacity
    <3>1. window[r] \in Seq(FrameRecord) /\ Len(window[r]) <= Capacity
      BY <1>2 DEF RestTypes
    <3>2. LET t == Ring!Latest(Append(window[r], NewFrame(r)), Capacity)
          IN  t \in Seq(FrameRecord) /\ Len(t) <= Capacity
      BY <2>1, <3>1, LatestProperties
    <3> QED
      BY <3>1, <3>2 DEF AfterPush
  <2> HIDE DEF FrameRecord
  <2>3. RestTypes'
    <3>1. \A q \in Recorder : Len(window'[q]) <= Capacity
      BY <1>2, <1>10, <2>2 DEF PutFrame, RestTypes
    <3>2. state' = state
      BY <1>10 DEF PutFrame, Pool!EnqueueAccept
    <3> QED
      BY <1>2, <1>10, <3>1, <3>2 DEF PutFrame, RestTypes
  <2>4. MoreTypes'
    <3>1. window' \in [Recorder -> Seq(FrameRecord)]
      BY <1>10, <2>2 DEF PutFrame
    <3>2. taken' \in [Recorder -> Nat]
      <4>1. taken' = [taken EXCEPT ![r] = taken[r] + 1] /\ taken[r] + 1 \in Nat
        BY <1>10 DEF PutFrame
      <4> QED
        BY <4>1
    <3> QED
      BY <1>10, <3>1, <3>2 DEF PutFrame
  <2> QED
    BY <2>3, <2>4
<1>11. ASSUME NEW r \in Recorder, NEW size \in FrameSizes, PutError(r, size)
       PROVE  RestTypes' /\ MoreTypes'
  BY <1>2, <1>11 DEF PutError, PortDone, RestTypes
<1>12. ASSUME NEW r \in Recorder, CreateRegister(r) PROVE RestTypes' /\ MoreTypes'
  BY <1>2, <1>12 DEF CreateRegister, LockWhileRegistered, RestTypes
<1>13. ASSUME NEW r \in Recorder, CreateThrow(r) PROVE RestTypes' /\ MoreTypes'
  BY <1>2, <1>13 DEF CreateThrow, RestTypes
<1>14. ASSUME NEW r \in Recorder, CreateRing(r) PROVE RestTypes' /\ MoreTypes'
  BY <1>2, <1>14 DEF CreateRing, RestTypes
<1>15. ASSUME NEW r \in Recorder, ResetWait(r) PROVE RestTypes' /\ MoreTypes'
  BY <1>2, <1>15 DEF ResetWait, RestTypes
<1>16. ASSUME NEW r \in Recorder, Reset(r) PROVE RestTypes' /\ MoreTypes'
  <2>1. << >> \in Seq(FrameRecord) /\ Len(<< >>) <= Capacity
    OBVIOUS
  <2>2. RestTypes'
    BY <1>2, <1>16, <2>1, FvadTypes DEF Reset, RestTypes
  <2>3. MoreTypes'
    BY <1>16, <2>1 DEF Reset, CountAfterReset
  <2> QED
    BY <2>2, <2>3
<1>17. ASSUME NEW r \in Recorder, DestroyUnregister(r) PROVE RestTypes' /\ MoreTypes'
  BY <1>2, <1>17 DEF DestroyUnregister, RestTypes
<1>18. ASSUME NEW r \in Recorder, DestroyFree(r) PROVE RestTypes' /\ MoreTypes'
  BY <1>2, <1>18 DEF DestroyFree, RestTypes
<1>19. CASE AddEncoderThreads
  BY <1>2, <1>19 DEF AddEncoderThreads, Pool!AddWorkers, Pool!InState, RestTypes
<1>20. ASSUME NEW r \in Recorder, CreateBegin(r) PROVE RestTypes' /\ MoreTypes'
  <2>1. fvad_set_mode(fvad_set_sample_rate(fvad_reset, ClockRate), 0) \in FvadConfig
    BY FvadTypes DEF valid_rates
  <2> QED
    BY <1>2, <1>20, <2>1 DEF CreateBegin, RestTypes
<1>21. ASSUME NEW r \in Recorder, Transmit(r) PROVE RestTypes' /\ MoreTypes'
  <2>1. r \in ports
    BY <1>21 DEF Transmit, Locks, At
  <2> QED
    BY <1>2, <1>21, <2>1 DEF Transmit, RestTypes
<1>22. ASSUME NEW r \in Recorder, DestroyBegin(r) PROVE RestTypes' /\ MoreTypes'
  BY <1>2, <1>22 DEF DestroyBegin, RestTypes
<1>23. ASSUME NEW r \in Recorder, NEW mode \in {0, 3}, setVadMode(r, mode)
       PROVE  RestTypes' /\ MoreTypes'
  <2>1. fvad_set_mode(vad[r], mode) \in FvadConfig
    BY <1>2, FvadTypes DEF RestTypes
  <2> QED
    BY <1>2, <1>23, <2>1 DEF setVadMode, RestTypes
<1>24. CASE SpuriousWakeup
  <2>1. PICK T : Wake(T)
    BY <1>24 DEF SpuriousWakeup
  <2>2. MoreTypes'
    BY <1>24, <2>1 DEF SpuriousWakeup, Wake
  <2>3. RestTypes'
    BY <1>2, <1>24 DEF SpuriousWakeup, RestTypes
  <2> QED
    BY <2>2, <2>3
<1>25. ASSUME NEW w \in Worker, WorkerLoop(w) PROVE RestTypes' /\ MoreTypes'
  <2>1. \A v \in unlocked : state'[v] = "running"
    BY <1>2, <1>25 DEF WorkerLoop, Pool!WorkerWait, Pool!WorkerTake, RestTypes,
                       TypeOK, Pool!TypeOK
  <2> QED
    BY <1>2, <1>25, <2>1 DEF WorkerLoop, RestTypes
<1>26. ASSUME NEW w \in Worker, WorkerNotify(w) PROVE RestTypes' /\ MoreTypes'
  <2>1. \A v \in unlocked' : v \in Worker /\ state'[v] = "running"
    BY <1>2, <1>26 DEF WorkerNotify, Pool!WorkerDone, RestTypes, TypeOK, Pool!TypeOK
  <2>2. UNCHANGED << clock, api >> \/ \E T : Wake(T)
    BY <1>26 DEF WorkerNotify, NotifyOne
  <2>3. MoreTypes'
    BY <1>26, <2>2 DEF WorkerNotify, Wake
  <2>4. RestTypes'
    BY <1>2, <1>26, <2>1 DEF WorkerNotify, RestTypes
  <2> QED
    BY <2>3, <2>4
<1>27. ASSUME NEW w \in Worker, NEW r \in Recorder, WorkerRun(w, r)
       PROVE  RestTypes' /\ MoreTypes'
  <2>1. fvad_process(vad[r], Samples) \subseteq {-1, 0, 1}
    BY <1>2, FvadTypes DEF RestTypes
  <2>2. window[r][Len(window[r])] \in FrameRecord
    BY <1>27 DEF WorkerRun
  <2>3. state[w] = "running"
    BY <1>27 DEF WorkerRun, Pending, TypeOK, Pool!TypeOK
  <2> HIDE DEF FrameRecord
  <2>4. RestTypes'
    <3>1. PICK v \in fvad_process(vad[r], Samples) :
                 vad_state_' = [vad_state_ EXCEPT ![r] = v]
      BY <1>27 DEF WorkerRun
    <3>2. vad_state_' \in [Recorder -> {-1, 0, 1}]
      BY <1>2, <2>1, <3>1 DEF RestTypes
    <3> QED
      BY <1>2, <1>27, <2>3, <3>2 DEF WorkerRun, RestTypes
  <2>5. MoreTypes'
    <3>1. delivered' \in [Recorder -> Seq(FrameRecord)]
      <4> DEFINE e == window[r][Len(window[r])]
      <4>1. delivered' = [delivered EXCEPT ![r] = Append(delivered[r], e)]
        BY <1>27 DEF WorkerRun
      <4>2. e \in FrameRecord
        BY <2>2
      <4> HIDE DEF e
      <4>3. Append(delivered[r], e) \in Seq(FrameRecord)
        BY <4>2
      <4> QED
        BY <4>1, <4>3
    <3>2. frameCount' \in [Recorder -> Nat]
      <4>1. /\ frameCount' = [frameCount EXCEPT ![r] = frameCount[r] + 1]
            /\ frameCount[r] + 1 \in Nat
        BY <1>27 DEF WorkerRun
      <4> QED
        BY <4>1
    <3> QED
      BY <1>27, <3>1, <3>2 DEF WorkerRun
  <2> QED
    BY <2>4, <2>5
<1> QED
  BY <1>4, <1>5, <1>6, <1>7, <1>8, <1>9, <1>10, <1>11, <1>12, <1>13, <1>14, <1>15,
     <1>16, <1>17, <1>18, <1>19, <1>20, <1>21, <1>22, <1>23, <1>24, <1>25, <1>26,
     <1>27
     DEF Next, ClockStep, WorkerStep, ApiContinue, ApiCall
-----------------------------------------------------------------------------
(* The mutexes.                                                            *)

\* A waiting thread that is woken keeps its recorder and its ports.
LEMMA WakeKeeps ==
    ASSUME MoreTypes, NEW r \in Recorder, NEW t \in Waiting(r), Wake({t})
    PROVE  /\ clock' = clock \/ (clock.pc = "waiting" /\ clock'.pc = "woken"
                                  /\ clock'.rec = clock.rec /\ clock'.todo = clock.todo)
           /\ api' = api \/ (api.pc = "waiting" /\ api'.pc = "woken"
                              /\ api'.rec = api.rec)
BY RecorderAssumption DEF MoreTypes, Waiting, Wake, At

\* Every step keeps the order in which the two mutexes are taken.
LEMMA NextLocks ==
    ASSUME TypeOK, MoreTypes, Locks, [Next]_vars
    PROVE  Locks'
<1> DEFINE LockTypes ==
             /\ conf \in {None, Clock} /\ ports \subseteq Recorder
             /\ life \in [Recorder -> {"new", "created", "destroyed"}]
             /\ mutex \in [Recorder -> {None, Clock, Api}]
             /\ clock \in [pc : {"idle", "ports", "waiting", "woken", "notify"},
                           rec : Recorder \union {None}, todo : SUBSET Recorder]
             /\ api \in [pc : {"idle", "register", "ring", "waiting", "woken",
                               "unregister", "free"},
                         rec : Recorder \union {None}]
<1>0. LockTypes
  BY DEF TypeOK, MoreTypes
<1> USE RecorderAssumption
<1> USE DEF At, Free, confVars, ApiLocked
<1>1. CASE UNCHANGED << conf, ports, clock, api, life, mutex >>
  BY <1>1 DEF Locks
<1>2. CASE TickBegin
  BY <1>0, <1>2 DEF TickBegin, Locks
<1>3. CASE TickEnd
  BY <1>0, <1>3 DEF TickEnd, Locks
<1>4. ASSUME NEW r \in Recorder, Heartbeat(r) PROVE Locks'
  BY <1>0, <1>4 DEF Heartbeat, PortDone, Locks
<1>5. ASSUME NEW r \in Recorder, PutWait(r) PROVE Locks'
  BY <1>0, <1>5 DEF PutWait, InPutFrame, Locks
<1>6. ASSUME NEW r \in Recorder, PutNotify(r) PROVE Locks'
  BY <1>0, <1>6 DEF PutNotify, PortDone, Locks
<1>7. ASSUME NEW r \in Recorder, NEW size \in FrameSizes, PutFrame(r, size)
      PROVE  Locks'
  BY <1>0, <1>7 DEF PutFrame, MayPut, InPutFrame, Locks
<1>8. ASSUME NEW r \in Recorder, NEW size \in FrameSizes, PutError(r, size)
      PROVE  Locks'
  BY <1>0, <1>8 DEF PutError, InPutFrame, PortDone, Locks
<1>9. ASSUME NEW r \in Recorder, CreateRegister(r) PROVE Locks'
  BY <1>0, <1>9 DEF CreateRegister, LockWhileRegistered, Locks
<1>10. ASSUME NEW r \in Recorder, CreateThrow(r) PROVE Locks'
  BY <1>0, <1>10 DEF CreateThrow, Locks
<1>11. ASSUME NEW r \in Recorder, CreateRing(r) PROVE Locks'
  BY <1>0, <1>11 DEF CreateRing, Locks
<1>12. ASSUME NEW r \in Recorder, ResetWait(r), At(api, "woken") \/ At(api, "idle")
       PROVE  Locks'
  BY <1>0, <1>12 DEF ResetWait, Locks
<1>13. ASSUME NEW r \in Recorder, Reset(r), At(api, "woken") \/ At(api, "idle")
       PROVE  Locks'
  BY <1>0, <1>13 DEF Reset, Locks
<1>14. ASSUME NEW r \in Recorder, DestroyUnregister(r) PROVE Locks'
  BY <1>0, <1>14 DEF DestroyUnregister, BridgeFree, Locks
<1>15. ASSUME NEW r \in Recorder, DestroyFree(r) PROVE Locks'
  BY <1>0, <1>15 DEF DestroyFree, Locks
<1>16. ASSUME NEW r \in Recorder, CreateBegin(r) PROVE Locks'
  BY <1>0, <1>16 DEF CreateBegin, Locks
<1>17. ASSUME NEW r \in Recorder, DestroyBegin(r) PROVE Locks'
  BY <1>0, <1>17 DEF DestroyBegin, Locks
<1>18. ASSUME NEW r \in Recorder, NEW t \in Waiting(r), Wake({t}),
              UNCHANGED << conf, ports, life, mutex >>
       PROVE  Locks'
  BY <1>18, WakeKeeps DEF Locks
<1>19. CASE SpuriousWakeup
  BY <1>18, <1>19 DEF SpuriousWakeup
<1>20. ASSUME NEW w \in Worker, WorkerNotify(w) PROVE Locks'
  <2>1. task[w] \in Recorder
    BY <1>20 DEF WorkerNotify, Pool!WorkerDone, TypeOK, Pool!TypeOK
  <2> QED
    BY <1>1, <1>18, <1>20, <2>1 DEF WorkerNotify, NotifyOne
<1>21. ASSUME NEW w \in Worker, WorkerLoop(w) \/ \E r \in Recorder : WorkerRun(w, r)
       PROVE  Locks'
  <2>1. CASE WorkerLoop(w)
    BY <1>1, <2>1 DEF WorkerLoop
  <2>2. ASSUME NEW r \in Recorder, WorkerRun(w, r) PROVE Locks'
    <3>1. UNCHANGED << conf, ports, clock, api, life, mutex >>
      BY <2>2 DEF WorkerRun
    <3> QED
      BY <1>1, <3>1
  <2> QED
    BY <1>21, <2>1, <2>2
<1>22. CASE AddEncoderThreads
  BY <1>1, <1>22 DEF AddEncoderThreads
<1>23. ASSUME NEW r \in Recorder, Transmit(r) \/ \E mode \in {0, 3} : setVadMode(r, mode)
       PROVE  Locks'
  BY <1>1, <1>23 DEF Transmit, setVadMode
<1>24. CASE UNCHANGED vars
  BY <1>1, <1>24 DEF vars
<1> HIDE DEF At, Free, confVars, ApiLocked
<1> QED
  BY <1>2, <1>3, <1>4, <1>5, <1>6, <1>7, <1>8, <1>9, <1>10, <1>11, <1>12, <1>13,
     <1>14, <1>15, <1>16, <1>17, <1>19, <1>20, <1>21, <1>22, <1>23, <1>24
     DEF Next, ClockStep, WorkerStep, ApiContinue, ApiCall
-----------------------------------------------------------------------------
(* One task.                                                               *)

\* Steps that concern neither tasks nor frames.
Quiet ==
    /\ UNCHANGED << _tasks, task, unlocked, is_encoding_, window, cycle_,
                    frameCount, taken, delivered >>
    /\ \A r \in Recorder : life'[r] = "destroyed" <=> life[r] = "destroyed"

\* A worker takes the oldest task.
Takes(w) ==
    /\ Pool!WorkerTake(w)
    /\ UNCHANGED << unlocked, is_encoding_, window, cycle_, frameCount, taken,
                    delivered, life >>

\* The few steps that concern tasks or frames.
LEMMA Steps ==
    ASSUME TypeOK, Locks, [Next]_vars
    PROVE  \/ Quiet
           \/ \E r \in Recorder, size \in FrameSizes :
                 PutFrame(r, size) \/ PutError(r, size)
           \/ \E r \in Recorder : Reset(r) \/ DestroyFree(r)
           \/ \E w \in Worker : Takes(w) \/ WorkerNotify(w)
           \/ \E w \in Worker, r \in Recorder : WorkerRun(w, r)
<1> USE DEF poolVars, countVars
<1>1. CASE UNCHANGED vars
  BY <1>1 DEF vars, Quiet
<1>2. CASE TickBegin \/ TickEnd
  BY <1>2 DEF TickBegin, TickEnd, Quiet
<1>3. ASSUME NEW r \in Recorder, Heartbeat(r) \/ PutWait(r) PROVE Quiet
  BY <1>3 DEF Heartbeat, PutWait, Quiet
<1>4. ASSUME NEW r \in Recorder, PutNotify(r) PROVE Quiet
  BY <1>4 DEF PutNotify, Pool!EnqueueNotify, Quiet
<1>5. ASSUME NEW r \in Recorder, CreateRegister(r) \/ CreateThrow(r) PROVE Quiet
  BY <1>5 DEF CreateRegister, CreateThrow, Quiet
<1>6. ASSUME NEW r \in Recorder, CreateRing(r) PROVE Quiet
  BY <1>6, RecorderAssumption DEF CreateRing, Quiet, TypeOK, Locks, At
<1>7. ASSUME NEW r \in Recorder, ResetWait(r) PROVE Quiet
  BY <1>7 DEF ResetWait, Quiet
<1>8. ASSUME NEW r \in Recorder, DestroyUnregister(r) PROVE Quiet
  BY <1>8 DEF DestroyUnregister, Quiet
<1>9. CASE AddEncoderThreads
  BY <1>9 DEF AddEncoderThreads, Pool!AddWorkers, Quiet
<1>10. ASSUME NEW r \in Recorder, CreateBegin(r) \/ Transmit(r) \/ DestroyBegin(r)
       PROVE  Quiet
  BY <1>10 DEF CreateBegin, Transmit, DestroyBegin, Quiet
<1>11. ASSUME NEW r \in Recorder, NEW mode \in {0, 3}, setVadMode(r, mode) PROVE Quiet
  BY <1>11 DEF setVadMode, Quiet
<1>12. CASE SpuriousWakeup
  BY <1>12 DEF SpuriousWakeup, Quiet
<1>13. ASSUME NEW w \in Worker, WorkerLoop(w) PROVE Quiet \/ Takes(w)
  BY <1>13 DEF WorkerLoop, Pool!WorkerWait, Takes, Quiet
<1> HIDE DEF poolVars, countVars
<1> QED
  BY <1>1, <1>2, <1>3, <1>4, <1>5, <1>6, <1>7, <1>8, <1>9, <1>10, <1>11, <1>12,
     <1>13
     DEF Next, ClockStep, WorkerStep, ApiContinue, ApiCall

\* is_encoding_ admits no second task.
LEMMA NextOneTask ==
    ASSUME TypeOK, Locks, \A r \in Recorder : OneTask(r), [Next]_vars
    PROVE  \A r \in Recorder : OneTask(r)'
<1> USE RecorderAssumption
<1>0. /\ _tasks \in Seq(Recorder)
      /\ task \in [Worker -> Recorder \union {None}]
      /\ is_encoding_ \in [Recorder -> BOOLEAN]
      /\ \A w \in unlocked : state[w] = "running"
      /\ \A w \in Worker : state[w] = "running" <=> task[w] # None
  BY DEF TypeOK, Pool!TypeOK, Pool!InState
<1> SUFFICES ASSUME NEW r \in Recorder PROVE OneTask(r)'
  OBVIOUS
<1>1. OneTask(r)
  OBVIOUS
<1> USE DEF OneTask, Busy, Queued, InHand, Pending
<1>2. CASE Quiet
  BY <1>1, <1>2 DEF Quiet
<1>3. ASSUME NEW q \in Recorder, NEW size \in FrameSizes, PutFrame(q, size)
      PROVE  OneTask(r)'
  <2>1. /\ _tasks' = Append(_tasks, q) /\ task' = task /\ unlocked' = unlocked
        /\ is_encoding_' = [is_encoding_ EXCEPT ![q] = TRUE]
        /\ ~is_encoding_[q]
    BY <1>3 DEF PutFrame, MayPut, Pool!EnqueueAccept
  <2>2. ~Busy(q)
    BY <2>1
  <2>3. /\ DOMAIN _tasks' = DOMAIN _tasks \union {Len(_tasks) + 1}
        /\ \A i \in DOMAIN _tasks : _tasks'[i] = _tasks[i]
        /\ _tasks'[Len(_tasks) + 1] = q
    BY <1>0, <2>1
  <2> QED
    BY <1>0, <1>1, <2>1, <2>2, <2>3
<1>4. ASSUME NEW q \in Recorder, NEW size \in FrameSizes, PutError(q, size)
      PROVE  OneTask(r)'
  BY <1>0, <1>1, <1>4 DEF PutError, poolVars
<1>5. ASSUME NEW q \in Recorder, Reset(q) \/ DestroyFree(q) PROVE OneTask(r)'
  BY <1>1, <1>5 DEF Reset, DestroyFree, poolVars
<1>6. ASSUME NEW w \in Worker, Takes(w) PROVE OneTask(r)'
  <2>1. /\ _tasks # << >> /\ _tasks' = Tail(_tasks)
        /\ task' = [task EXCEPT ![w] = Head(_tasks)]
        /\ unlocked' = unlocked /\ is_encoding_' = is_encoding_
        /\ w \notin unlocked /\ task[w] = None
    BY <1>0, <1>6 DEF Takes, Pool!WorkerTake
  <2>2. /\ 1 \in DOMAIN _tasks /\ Head(_tasks) = _tasks[1]
        /\ \A i \in DOMAIN _tasks' :
              i \in Nat \ {0} /\ i + 1 \in DOMAIN _tasks /\ _tasks'[i] = _tasks[i + 1]
    BY <1>0, <2>1
  <2>3. \A v \in Worker : Pending(v, r)' <=> Pending(v, r) \/ (v = w /\ _tasks[1] = r)
    BY <1>0, <2>1, <2>2
  <2>4. Queued(r)' => Queued(r) /\ _tasks[1] # r
    BY <1>1, <2>2
  <2>5. \A i, j \in DOMAIN _tasks' : _tasks'[i] = r /\ _tasks'[j] = r => i = j
    BY <1>1, <2>2
  <2>6. _tasks[1] = r => Queued(r)
    BY <2>2
  <2> QED
    BY <1>1, <2>1, <2>3, <2>4, <2>5, <2>6
<1>7. ASSUME NEW w \in Worker, WorkerNotify(w) PROVE OneTask(r)'
  <2>1. /\ _tasks' = _tasks /\ task' = [task EXCEPT ![w] = None] /\ w \in unlocked
        /\ unlocked' = unlocked \ {w} /\ is_encoding_' = is_encoding_
    BY <1>7 DEF WorkerNotify, Pool!WorkerDone
  <2>2. \A v \in Worker : Pending(v, r)' <=> Pending(v, r)
    BY <1>0, <2>1
  <2> QED
    BY <1>1, <2>1, <2>2
<1>8. ASSUME NEW w \in Worker, NEW q \in Recorder, WorkerRun(w, q) PROVE OneTask(r)'
  <2>1. /\ _tasks' = _tasks /\ task' = task /\ unlocked' = unlocked \union {w}
        /\ is_encoding_' = [is_encoding_ EXCEPT ![q] = FALSE]
        /\ Pending(w, q)
    BY <1>8 DEF WorkerRun, poolVars
  <2>2. \A v \in Worker : Pending(v, r)' <=> Pending(v, r) /\ v # w
    BY <2>1
  <2>3. r = q => ~Queued(r)' /\ ~InHand(r)'
    BY <1>1, <2>1, <2>2
  <2>4. r # q => is_encoding_'[r] = is_encoding_[r]
    BY <1>0, <2>1
  <2> QED
    BY <1>1, <2>1, <2>2, <2>3, <2>4
<1> HIDE DEF OneTask
<1> QED
  BY <1>2, <1>3, <1>4, <1>5, <1>6, <1>7, <1>8, Steps
-----------------------------------------------------------------------------
(* The frames.                                                             *)

\* Which steps begin and end the time in which r has a task.
LEMMA BusyAfter ==
    ASSUME TypeOK, NEW r \in Recorder, OneTask(r)
    PROVE  /\ Quiet => (Busy(r)' <=> Busy(r))
           /\ \A q \in Recorder, size \in FrameSizes :
                 PutFrame(q, size) => (Busy(r)' <=> Busy(r) \/ r = q) /\ (r = q => ~Busy(r))
           /\ \A q \in Recorder, size \in FrameSizes :
                 PutError(q, size) => (Busy(r)' <=> Busy(r))
           /\ \A q \in Recorder :
                 Reset(q) => (Busy(r)' <=> Busy(r)) /\ (r = q => ~Busy(r))
           /\ \A q \in Recorder : DestroyFree(q) => (Busy(r)' <=> Busy(r))
           /\ \A w \in Worker : Takes(w) \/ WorkerNotify(w) => (Busy(r)' <=> Busy(r))
           /\ \A w \in Worker, q \in Recorder :
                 WorkerRun(w, q) => (Busy(r)' <=> Busy(r) /\ r # q) /\ (r = q => Busy(r))
<1> USE RecorderAssumption
<1>0. /\ _tasks \in Seq(Recorder)
      /\ task \in [Worker -> Recorder \union {None}]
      /\ \A w \in unlocked : state[w] = "running"
      /\ \A w \in Worker : state[w] = "running" <=> task[w] # None
  BY DEF TypeOK, Pool!TypeOK, Pool!InState
<1> USE DEF Busy, Queued, InHand, Pending
<1>1. ASSUME UNCHANGED << _tasks, task, unlocked >> PROVE Busy(r)' <=> Busy(r)
  BY <1>1
<1>2. ASSUME NEW q \in Recorder, NEW size \in FrameSizes, PutFrame(q, size)
      PROVE  (Busy(r)' <=> Busy(r) \/ r = q) /\ (r = q => ~Busy(r))
  <2>1. /\ _tasks' = Append(_tasks, q) /\ task' = task /\ unlocked' = unlocked
        /\ ~is_encoding_[q]
    BY <1>2 DEF PutFrame, MayPut, Pool!EnqueueAccept
  <2>2. /\ DOMAIN _tasks' = DOMAIN _tasks \union {Len(_tasks) + 1}
        /\ \A i \in DOMAIN _tasks : _tasks'[i] = _tasks[i]
        /\ _tasks'[Len(_tasks) + 1] = q
    BY <1>0, <2>1
  <2> QED
    BY <2>1, <2>2 DEF OneTask
<1>3. ASSUME NEW w \in Worker, Takes(w) PROVE Busy(r)' <=> Busy(r)
  <2>1. /\ _tasks # << >> /\ _tasks' = Tail(_tasks)
        /\ task' = [task EXCEPT ![w] = Head(_tasks)]
        /\ unlocked' = unlocked
        /\ w \notin unlocked /\ task[w] = None
    BY <1>0, <1>3 DEF Takes, Pool!WorkerTake
  <2>2. /\ 1 \in DOMAIN _tasks /\ Head(_tasks) = _tasks[1]
        /\ \A i \in DOMAIN _tasks' :
              i + 1 \in DOMAIN _tasks /\ _tasks'[i] = _tasks[i + 1]
        /\ \A i \in DOMAIN _tasks :
              i # 1 => i - 1 \in DOMAIN _tasks' /\ _tasks'[i - 1] = _tasks[i]
    BY <1>0, <2>1
  <2>3. \A v \in Worker : Pending(v, r)' <=> Pending(v, r) \/ (v = w /\ _tasks[1] = r)
    BY <1>0, <2>1, <2>2
  <2>4. Queued(r) <=> Queued(r)' \/ _tasks[1] = r
    BY <2>2
  <2> QED
    BY <2>3, <2>4
<1>4. ASSUME NEW w \in Worker, WorkerNotify(w) PROVE Busy(r)' <=> Busy(r)
  <2>1. /\ _tasks' = _tasks /\ task' = [task EXCEPT ![w] = None] /\ w \in unlocked
        /\ unlocked' = unlocked \ {w}
    BY <1>4 DEF WorkerNotify, Pool!WorkerDone
  <2>2. \A v \in Worker : Pending(v, r)' <=> Pending(v, r)
    BY <1>0, <2>1
  <2> QED
    BY <2>1, <2>2
<1>5. ASSUME NEW w \in Worker, NEW q \in Recorder, WorkerRun(w, q)
      PROVE  (Busy(r)' <=> Busy(r) /\ r # q) /\ (r = q => Busy(r))
  <2>1. /\ _tasks' = _tasks /\ task' = task /\ unlocked' = unlocked \union {w}
        /\ Pending(w, q)
    BY <1>5 DEF WorkerRun, poolVars
  <2>2. \A v \in Worker : Pending(v, r)' <=> Pending(v, r) /\ v # w
    BY <2>1
  <2>3. r = q => ~Queued(r)' /\ ~InHand(r)' /\ InHand(r)
    BY <2>1, <2>2 DEF OneTask
  <2>4. r # q => ~Pending(w, r)
    BY <2>1
  <2> QED
    BY <2>1, <2>2, <2>3, <2>4
<1>6. ASSUME NEW q \in Recorder, Reset(q)
      PROVE  (Busy(r)' <=> Busy(r)) /\ (r = q => ~Busy(r))
  BY <1>6 DEF Reset, MayReset, OneTask, poolVars
<1> HIDE DEF Busy
<1>7. /\ Quiet => (Busy(r)' <=> Busy(r))
      /\ \A q \in Recorder, size \in FrameSizes :
            PutError(q, size) => (Busy(r)' <=> Busy(r))
      /\ \A q \in Recorder : DestroyFree(q) => (Busy(r)' <=> Busy(r))
  BY <1>1 DEF Quiet, PutError, DestroyFree, poolVars
<1> QED
  BY <1>2, <1>3, <1>4, <1>5, <1>6, <1>7

\* A frame that fits becomes the newest of the ring.
LEMMA PushedNewest ==
    ASSUME NEW r \in Recorder, window[r] \in Seq(FrameRecord),
           NewFrame(r) \in FrameRecord, NEW size \in Nat, ~(size > MaxPcmBytes)
    PROVE  /\ AfterPush(r, size) # << >>
           /\ AfterPush(r, size)[Len(AfterPush(r, size))] = NewFrame(r)
<1> DEFINE s == window[r]
           e == NewFrame(r)
           t == Ring!Latest(Append(s, e), Capacity)
<1>1. AfterPush(r, size) = t
  BY DEF AfterPush
<1>2. s \in Seq(FrameRecord) /\ e \in FrameRecord /\ Capacity \in Nat \ {0}
  BY RecorderAssumption
<1> HIDE DEF s, e
<1>3. t # << >> /\ t[Len(t)] = e
  BY <1>2, LatestProperties
<1> HIDE DEF t
<1>4. AfterPush(r, size)[Len(AfterPush(r, size))] = t[Len(t)]
  BY <1>1
<1> QED
  BY <1>1, <1>3, <1>4 DEF e

\* The cycle of the last of a sequence of frames.
LEMMA LastCycle ==
    ASSUME NEW d \in Seq(FrameRecord), Len(d) > 0
    PROVE  d[Len(d)].cycle \in Nat
<1>1. d[Len(d)] \in FrameRecord
  OBVIOUS
<1>2. \A e \in FrameRecord : e.cycle \in Nat
  BY DEF FrameRecord
<1> QED
  BY <1>1, <1>2

\* While the ring takes the frames of the bridge, every step keeps the frames in
\* order.
LEMMA NextFrames ==
    ASSUME bufferSize <= MaxPcmBytes, Core, Frames, [Next]_vars
    PROVE  Frames'
<1> USE RecorderAssumption
<1>0. /\ TypeOK /\ MoreTypes /\ Locks
      /\ life \in [Recorder -> {"new", "created", "destroyed"}]
      /\ window \in [Recorder -> Seq(FrameRecord)]
      /\ delivered \in [Recorder -> Seq(FrameRecord)]
      /\ cycle_ \in [Recorder -> Nat]
      /\ frameCount \in [Recorder -> Nat]
      /\ taken \in [Recorder -> Nat]
  BY DEF Core, TypeOK, MoreTypes
<1> SUFFICES ASSUME NEW r \in Recorder
             PROVE  (FrameReady(r) /\ Counted(r) /\ InOrder(r))'
  BY DEF Frames
<1>1. FrameReady(r) /\ Counted(r) /\ InOrder(r) /\ OneTask(r)
  BY DEF Frames, Core
<1> DEFINE Same(q) ==
             /\ window'[q] = window[q] /\ cycle_'[q] = cycle_[q]
             /\ frameCount'[q] = frameCount[q] /\ taken'[q] = taken[q]
             /\ delivered'[q] = delivered[q]
             /\ life'[q] = "destroyed" <=> life[q] = "destroyed"
<1>2. ASSUME Same(r), Busy(r)' <=> Busy(r)
      PROVE  (FrameReady(r) /\ Counted(r) /\ InOrder(r))'
  BY <1>1, <1>2 DEF FrameReady, Newest, Counted, InOrder
<1>3. CASE Quiet
  BY <1>0, <1>1, <1>2, <1>3, BusyAfter DEF Quiet
<1>4. ASSUME NEW q \in Recorder, NEW size \in FrameSizes, PutError(q, size)
      PROVE  (FrameReady(r) /\ Counted(r) /\ InOrder(r))'
  <2>1. Same(r)
    BY <1>4 DEF PutError, countVars
  <2> QED
    BY <1>0, <1>1, <1>2, <1>4, <2>1, BusyAfter
<1>5. ASSUME NEW w \in Worker, Takes(w) \/ WorkerNotify(w)
      PROVE  (FrameReady(r) /\ Counted(r) /\ InOrder(r))'
  <2>1. Same(r)
    BY <1>5 DEF Takes, WorkerNotify, countVars
  <2> QED
    BY <1>0, <1>1, <1>2, <1>5, <2>1, BusyAfter
<1>6. ASSUME NEW q \in Recorder, DestroyFree(q)
      PROVE  (FrameReady(r) /\ Counted(r) /\ InOrder(r))'
  <2>1. Busy(r)' <=> Busy(r)
    BY <1>0, <1>1, <1>6, BusyAfter
  <2>2. CASE r # q
    <3>1. Same(r)
      BY <1>0, <1>6, <2>2 DEF DestroyFree, countVars
    <3> QED
      BY <1>2, <2>1, <3>1
  <2>3. CASE r = q
    <3>1. life'[r] = "destroyed" /\ UNCHANGED countVars
      BY <1>0, <1>6, <2>3 DEF DestroyFree
    <3> QED
      BY <1>1, <2>1, <3>1 DEF FrameReady, Counted, InOrder, countVars
  <2> QED
    BY <2>2, <2>3
<1>7. ASSUME NEW q \in Recorder, Reset(q)
      PROVE  (FrameReady(r) /\ Counted(r) /\ InOrder(r))'
  <2>1. (Busy(r)' <=> Busy(r)) /\ (r = q => ~Busy(r))
    BY <1>0, <1>1, <1>7, BusyAfter
  <2>2. CASE r # q
    <3>1. Same(r)
      BY <1>0, <1>7, <2>2 DEF Reset
    <3> QED
      BY <1>2, <2>1, <3>1
  <2>3. CASE r = q
    <3>1. /\ delivered' = delivered /\ taken' = taken /\ ~Busy(r)'
          /\ cycle_'[r] = cycle_[r] + 1 /\ frameCount'[r] = 0
      BY <1>0, <1>7, <2>1, <2>3 DEF Reset, CountAfterReset
    <3>2. FrameReady(r)' /\ Counted(r)'
      BY <1>1, <2>1, <3>1 DEF FrameReady, Counted
    <3>3. InOrder(r)'
      <4> DEFINE n == Len(delivered[r])
      <4>1. n > 0 => delivered[r][n].cycle \in Nat
        BY <1>0, LastCycle
      <4>2. n > 0 => delivered[r][n].cycle < cycle_[r] + 1
        <5>1. n > 0 => \/ delivered[r][n].cycle = cycle_[r]
                       \/ delivered[r][n].cycle < cycle_[r]
          BY <1>1 DEF InOrder
        <5>2. cycle_[r] \in Nat
          BY <1>0
        <5> QED
          BY <4>1, <5>1, <5>2
      <4>3. n > 0 => delivered[r][n].cycle # cycle_[r] + 1
        BY <1>0, <4>1, <4>2
      <4> QED
        BY <1>1, <3>1, <4>2, <4>3 DEF InOrder
    <3> QED
      BY <3>2, <3>3
  <2> QED
    BY <2>2, <2>3
<1>8. ASSUME NEW q \in Recorder, NEW size \in FrameSizes, PutFrame(q, size)
      PROVE  (FrameReady(r) /\ Counted(r) /\ InOrder(r))'
  <2>1. (Busy(r)' <=> Busy(r) \/ r = q) /\ (r = q => ~Busy(r))
    BY <1>0, <1>1, <1>8, BusyAfter
  <2>2. CASE r # q
    <3>1. Same(r)
      BY <1>0, <1>8, <2>2 DEF PutFrame
    <3> QED
      BY <1>2, <2>1, <2>2, <3>1
  <2>3. CASE r = q
    <3>1. /\ delivered' = delivered /\ cycle_' = cycle_ /\ frameCount' = frameCount
          /\ taken'[r] = taken[r] + 1 /\ Busy(r)' /\ ~Busy(r)
          /\ window'[r] = AfterPush(r, size) /\ size = bufferSize
      BY <1>0, <1>8, <2>1, <2>3 DEF PutFrame
    <3>2. NewFrame(r) \in FrameRecord
      BY <1>0 DEF NewFrame, FrameRecord
    <3>3. /\ window'[r] # << >>
          /\ window'[r][Len(window'[r])] = NewFrame(r)
      <4>1. window[r] \in Seq(FrameRecord) /\ size \in Nat /\ ~(size > MaxPcmBytes)
        BY <1>0, <3>1 DEF bufferSize
      <4> QED
        BY <3>1, <3>2, <4>1, PushedNewest
    <3>4. FrameReady(r)'
      BY <3>1, <3>3 DEF FrameReady, Newest, NewFrame
    <3>5. Counted(r)'
      BY <1>1, <3>1 DEF Counted
    <3>6. InOrder(r)'
      BY <1>1, <3>1 DEF InOrder
    <3> QED
      BY <3>4, <3>5, <3>6
  <2> QED
    BY <2>2, <2>3
<1>9. ASSUME NEW w \in Worker, NEW q \in Recorder, WorkerRun(w, q)
      PROVE  (FrameReady(r) /\ Counted(r) /\ InOrder(r))'
  <2>1. (Busy(r)' <=> Busy(r) /\ r # q) /\ (r = q => Busy(r))
    BY <1>0, <1>1, <1>9, BusyAfter
  <2>2. CASE r # q
    <3>1. Same(r)
      BY <1>0, <1>9, <2>2 DEF WorkerRun
    <3> QED
      BY <1>2, <2>1, <2>2, <3>1
  <2>3. CASE r = q
    <3> DEFINE d == delivered[r]
               e == window[r][Len(window[r])]
               n == Len(d)
    <3>1. /\ delivered'[r] = Append(d, e) /\ cycle_' = cycle_
          /\ frameCount'[r] = frameCount[r] + 1
          /\ taken' = taken /\ Busy(r) /\ ~Busy(r)'
          /\ life[r] # "destroyed"
      BY <1>0, <1>9, <2>1, <2>3 DEF WorkerRun
    <3>2. /\ e \in FrameRecord /\ e.pcm = taken[r]
          /\ e.cycle = cycle_[r] /\ e.frame_num = frameCount[r]
      <4>1. window[r] # << >>
        BY <1>9, <2>3 DEF WorkerRun
      <4>2. e \in FrameRecord
        BY <1>0, <4>1
      <4> QED
        BY <1>1, <3>1, <4>2 DEF FrameReady, Newest
    <3>3. taken[r] = n + 1 /\ n \in Nat /\ d \in Seq(FrameRecord)
      BY <1>0, <1>1, <3>1 DEF Counted
    <3>4. /\ \A i \in DOMAIN d : d[i].pcm = i /\ Follows(d, i)
          /\ IF n > 0 /\ d[n].cycle = cycle_[r]
             THEN frameCount[r] = d[n].frame_num + 1
             ELSE frameCount[r] = 0 /\ (n > 0 => d[n].cycle < cycle_[r])
      BY <1>1 DEF InOrder
    <3> HIDE DEF e, d, n
    <3> DEFINE f == Append(d, e)
    <3>5. /\ Len(f) = n + 1 /\ f[n + 1] = e /\ DOMAIN f = 1 .. n + 1
          /\ DOMAIN d = 1 .. n /\ \A i \in 1 .. n : f[i] = d[i]
      BY <3>2, <3>3 DEF n
    <3> HIDE DEF f
    <3>6. \A i \in 1 .. n : Follows(f, i) <=> Follows(d, i)
      BY <3>3, <3>5 DEF Follows
    <3>7. Follows(f, n + 1)
      <4>1. CASE n = 0
        BY <3>2, <3>3, <3>4, <3>5, <4>1 DEF Follows
      <4>2. CASE n > 0
        <5>1. f[n] = d[n] /\ n + 1 > 1 /\ (n + 1) - 1 = n
          BY <3>3, <3>5, <4>2
        <5>2. d[n].cycle \in Nat /\ cycle_[r] \in Nat
          BY <1>0, <3>3, <4>2, LastCycle DEF n
        <5> QED
          BY <5>2, <3>2, <3>4, <3>5, <4>2, <5>1 DEF Follows
      <4> QED
        BY <3>3, <4>1, <4>2
    <3>8. \A i \in 1 .. n + 1 : f[i].pcm = i /\ Follows(f, i)
      BY <3>2, <3>3, <3>4, <3>5, <3>6, <3>7
    <3>9. InOrder(r)'
      <4>1. delivered'[r] = f
        BY <3>1 DEF f
      <4> QED
        BY <3>1, <3>2, <3>3, <3>5, <3>8, <4>1 DEF InOrder
    <3>10. FrameReady(r)' /\ Counted(r)'
      <4>1. delivered'[r] = f
        BY <3>1 DEF f
      <4> QED
        BY <3>1, <3>3, <3>5, <4>1 DEF FrameReady, Counted
    <3> QED
      BY <3>9, <3>10
  <2> QED
    BY <2>2, <2>3
<1> QED
  BY <1>0, <1>3, <1>4, <1>5, <1>6, <1>7, <1>8, <1>9, Steps
-----------------------------------------------------------------------------
(* The theorems.                                                           *)

\* The constructors and a bridge without recorders establish the invariants.
LEMMA InitFrames == Init => Frames
<1> SUFFICES ASSUME Init, NEW r \in Recorder
             PROVE  FrameReady(r) /\ Counted(r) /\ InOrder(r)
  BY DEF Frames
<1>1. /\ delivered[r] = << >> /\ taken[r] = 0 /\ cycle_[r] = 0 /\ frameCount[r] = 0
      /\ _tasks = << >> /\ task = [w \in Worker |-> None]
  BY DEF Init, Pool!Init
<1>2. ~Busy(r)
  BY <1>1, RecorderAssumption DEF Busy, Queued, InHand, Pending
<1> QED
  BY <1>1, <1>2 DEF FrameReady, Counted, InOrder

\* The inductive invariant.
LEMMA CoreInvariance == Spec => []Core
<1>1. Core /\ [Next]_vars => Core'
  BY NextTypes, NextLocks, NextOneTask DEF Core
<1> QED
  BY InitCore, <1>1, PTL DEF Spec

\* And what follows for the frames.
LEMMA FramesInvariance ==
    ASSUME bufferSize <= MaxPcmBytes
    PROVE  Spec => []Frames
<1>1. Core /\ Frames /\ [Next]_vars => Frames'
  BY NextFrames
<1> QED
  BY InitFrames, CoreInvariance, <1>1, PTL DEF Spec

\* PiRecorder keeps the types of all its state, with any number of recorders and
\* workers.
THEOREM TypeInvariance == Spec => []TypeOK
<1>1. Core => TypeOK
  BY DEF Core
<1> QED
  BY CoreInvariance, <1>1, PTL

\* The size of a set whose elements are all the same.
LEMMA AtMostOne ==
    ASSUME NEW S, \A a, b \in S : a = b
    PROVE  Cardinality(S) = IF S = {} THEN 0 ELSE 1
<1>1. CASE S = {}
  BY <1>1, FS_EmptySet
<1>2. CASE S # {}
  <2>1. PICK a \in S : S = {a}
    BY <1>2
  <2> QED
    BY <1>2, <2>1, FS_Singleton
<1> QED
  BY <1>1, <1>2

\* How many tasks there are, from who has them.
LEMMA OutstandingCount ==
    ASSUME TypeOK, NEW r \in Recorder, OneTask(r)
    PROVE  Outstanding(r) = IF Busy(r) THEN 1 ELSE 0
<1> DEFINE Q == {i \in DOMAIN _tasks : _tasks[i] = r}
           H == {w \in Worker : Pending(w, r)}
<1>1. Outstanding(r) = Cardinality(Q) + Cardinality(H)
  BY DEF Outstanding
<1>2. (\A a, b \in Q : a = b) /\ (\A a, b \in H : a = b)
  BY DEF OneTask
<1>3. (Q # {} <=> Queued(r)) /\ (H # {} <=> InHand(r))
  BY DEF Queued, InHand
<1> HIDE DEF Q, H
<1>4. Cardinality(Q) = IF Queued(r) THEN 1 ELSE 0
  BY <1>2, <1>3, AtMostOne
<1>5. Cardinality(H) = IF InHand(r) THEN 1 ELSE 0
  BY <1>2, <1>3, AtMostOne
<1>6. ~(Queued(r) /\ InHand(r))
  BY DEF OneTask
<1> QED
  BY <1>1, <1>4, <1>5, <1>6 DEF Busy

\* is_encoding_ works as a lock: however the threads interleave, no recorder has
\* two tasks outstanding, nor one without the flag.
THEOREM OneTaskEachInvariance == Spec => []OneTaskEach
<1>1. Core => OneTaskEach
  <2> SUFFICES ASSUME Core, NEW r \in Recorder
               PROVE  Outstanding(r) <= IF is_encoding_[r] THEN 1 ELSE 0
    BY DEF OneTaskEach
  <2>1. TypeOK /\ OneTask(r)
    BY DEF Core
  <2>2. Outstanding(r) = IF Busy(r) THEN 1 ELSE 0
    BY <2>1, OutstandingCount
  <2>3. Busy(r) => is_encoding_[r]
    BY <2>1 DEF OneTask
  <2> QED
    BY <2>2, <2>3
<1> QED
  BY CoreInvariance, <1>1, PTL

\* The order of the two mutexes in create() and the destructor keeps the clock
\* thread away from a recorder whose ring does not exist.
THEOREM ClockFindsRingInvariance == Spec => []ClockFindsRing
<1>1. Core => ClockFindsRing
  BY RecorderAssumption
     DEF Core, Locks, ClockFindsRing, At, Free, ApiLocked, TypeOK
<1> QED
  BY CoreInvariance, <1>1, PTL

\* If the ring takes a frame of the bridge at all, tail() never meets an empty
\* ring and the task encodes the frame it was queued for.
THEOREM TaskFindsItsFrameInvariance ==
    ASSUME bufferSize <= MaxPcmBytes
    PROVE  Spec => []TaskFindsItsFrame
<1>1. Core /\ Frames => TaskFindsItsFrame
  <2> SUFFICES ASSUME Core, Frames, NEW r \in Recorder,
                      Outstanding(r) > 0, life[r] # "destroyed"
               PROVE  window[r] # << >> /\ window[r][Len(window[r])].pcm = taken[r]
    BY DEF TaskFindsItsFrame
  <2>1. TypeOK /\ OneTask(r) /\ FrameReady(r)
    BY DEF Core, Frames
  <2>2. Outstanding(r) = IF Busy(r) THEN 1 ELSE 0
    BY <2>1, OutstandingCount
  <2>3. Busy(r)
    BY <2>2
  <2> QED
    BY <2>1, <2>3 DEF FrameReady, Newest
<1> QED
  BY CoreInvariance, FramesInvariance, <1>1, PTL

\* If the ring takes a frame of the bridge at all, onFrame() gets every frame
\* once and in order, numbered from 0 in every cycle.
THEOREM DeliveredInOrderInvariance ==
    ASSUME bufferSize <= MaxPcmBytes
    PROVE  Spec => []DeliveredInOrder
<1>1. Core /\ Frames => DeliveredInOrder
  <2> SUFFICES ASSUME Core, Frames, NEW r \in Recorder
               PROVE  /\ taken[r] - Len(delivered[r]) \in {0, 1}
                      /\ \A i \in DOMAIN delivered[r] :
                            delivered[r][i].pcm = i /\ Follows(delivered[r], i)
    BY DEF DeliveredInOrder, Follows
  <2>1. Counted(r) /\ InOrder(r) /\ delivered[r] \in Seq(FrameRecord)
    BY DEF Core, Frames, MoreTypes
  <2> QED
    BY <2>1 DEF Counted, InOrder
<1> QED
  BY CoreInvariance, FramesInvariance, <1>1, PTL
==============================================================================
