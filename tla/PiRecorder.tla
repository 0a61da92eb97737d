----------------------------- MODULE PiRecorder -----------------------------
(***************************************************************************)
(* Class PiRecorder of pjproject-ext/pj-ext.cpp with the threads it meets: *)
(*                                                                         *)
(*  - the clock thread, which runs the conference bridge's get_frame() and *)
(*    calls put_frame of every port with the bridge's mutex held;          *)
(*  - the workers of PiWorkerPool, which run workerRun();                  *)
(*  - one application thread, which calls create(), reset(), setVadMode(), *)
(*    the destructor, startTransmit(), stopTransmit().                     *)
(*                                                                         *)
(* A section under mutex_ that neither waits nor takes the bridge's mutex  *)
(* is one step.  The PCM ring is the sliding window it implements (see     *)
(* PiAudioFrameBuffer).  Objects are zero initialised, as by               *)
(* make_unique<Pi2Port>() in main.cpp.                                     *)
(***************************************************************************)
EXTENDS Integers, Sequences, FiniteSets, Fvad

CONSTANTS Recorder, Worker,
          Clock, Api,    \* the clock thread and the application thread
          None,          \* no thread, no recorder, no task
          Ops,           \* the operations the application uses
          ResetWhileSending, \* may reset() be called while audio flows in?
          FrameSizes,    \* sizes in bytes of the frames the bridge delivers
          Samples,       \* master_info_.samples_per_frame
          ClockRate,     \* master_info_.clock_rate, in kHz
          MaxPcmBytes,   \* PI_AUDIO_FRAME_MAX_PCM_BYTES
          Capacity,      \* frames the ring keeps
          MaxFrames,     \* bound: frames the bridge delivers to a recorder
          MaxCycles      \* bound: resets of a recorder

ASSUME RecorderAssumption ==
    /\ IsFiniteSet(Recorder) /\ None \notin Recorder
    /\ Clock # Api /\ None \notin {Clock, Api}
    /\ Ops \subseteq {"reset", "vad_mode", "stop_transmit", "add_workers", "destroy"}
    /\ ResetWhileSending \in BOOLEAN
    /\ FrameSizes \subseteq Nat /\ Samples \in Nat
    /\ ClockRate \in valid_rates
    /\ MaxPcmBytes \in Nat /\ Capacity \in Nat \ {0}
    /\ MaxFrames \in Nat /\ MaxCycles \in Nat

VARIABLES
    \* The pool.
    _tasks, _stop, state, task, client, owner,
    \* The bridge: holder of its mutex, registered ports, ports with a source.
    conf, ports, sending,
    \* The threads: [pc, rec, todo] and [pc, rec]; the workers that are between
    \* the unlock and the notify_one of workerRun().
    clock, api, unlocked,
    \* The recorders.
    life,          \* "new", "created" (frames_ exists) or "destroyed"
    mutex,         \* holder of mutex_ across steps
    is_encoding_,
    window,        \* frames_
    vad, encoder_, vad_state_,
    cycle_, frameCount,
    \* History: frames taken from the bridge, frames passed to onFrame().
    taken, delivered

poolVars == << _tasks, _stop, state, task, client, owner >>
confVars == << conf, ports, sending >>
codecVars == << vad, encoder_, vad_state_ >>
countVars == << cycle_, frameCount, taken, delivered >>
vars == << poolVars, confVars, clock, api, unlocked, life, mutex, is_encoding_,
           window, codecVars, countVars >>

Pool == INSTANCE PiWorkerPool
          WITH Client <- {Clock}, Task <- Recorder, NoTask <- None

\* The ring, reduced to what it implements.
Ring == INSTANCE FrameWindow WITH Frames <- {}, window <- << >>

Init ==
    /\ Pool!Init
    /\ conf = None /\ ports = {} /\ sending = {}
    /\ clock = [pc |-> "idle", rec |-> None, todo |-> {}]
    /\ api = [pc |-> "idle", rec |-> None]
    /\ unlocked = {}
    /\ life = [r \in Recorder |-> "new"]
    /\ mutex = [r \in Recorder |-> None]
    /\ is_encoding_ = [r \in Recorder |-> FALSE]
    /\ window = [r \in Recorder |-> << >>]
    /\ vad = [r \in Recorder |-> fvad_reset]
    /\ encoder_ = [r \in Recorder |-> "none"]
    /\ vad_state_ = [r \in Recorder |-> 0]
    /\ cycle_ = [r \in Recorder |-> 0]
    /\ frameCount = [r \in Recorder |-> 0]
    /\ taken = [r \in Recorder |-> 0]
    /\ delivered = [r \in Recorder |-> << >>]

At(thread, pc) == thread.pc = pc

Free(r) == mutex[r] = None
-----------------------------------------------------------------------------
(* condition_: its waiters are the clock thread in doPutFrame() and the    *)
(* application thread in reset().                                          *)

Waiting(r) ==
    {t \in {Clock, Api} :
        \/ t = Clock /\ At(clock, "waiting") /\ clock.rec = r
        \/ t = Api /\ At(api, "waiting") /\ api.rec = r}

Wake(T) ==
    /\ clock' = IF Clock \in T THEN [clock EXCEPT !.pc = "woken"] ELSE clock
    /\ api' = IF Api \in T THEN [api EXCEPT !.pc = "woken"] ELSE api

NotifyOne(r) ==
    IF Waiting(r) = {} THEN UNCHANGED << clock, api >>
    ELSE \E t \in Waiting(r) : Wake({t})

\* A wait may end without a notification.
SpuriousWakeup ==
    /\ \E r \in Recorder : \E t \in Waiting(r) : Wake({t})
    /\ UNCHANGED << poolVars, confVars, unlocked, life, mutex, is_encoding_,
                    window, codecVars, countVars >>
-----------------------------------------------------------------------------
(* The clock thread: one call of the bridge's get_frame().                 *)

TickBegin ==
    /\ At(clock, "idle") /\ conf = None
    /\ conf' = Clock
    /\ clock' = [pc |-> "ports", rec |-> None, todo |-> ports]
    /\ UNCHANGED << poolVars, ports, sending, api, unlocked, life, mutex,
                    is_encoding_, window, codecVars, countVars >>

TickEnd ==
    /\ At(clock, "ports") /\ clock.todo = {}
    /\ conf' = None
    /\ clock' = [clock EXCEPT !.pc = "idle"]
    /\ UNCHANGED << poolVars, ports, sending, api, unlocked, life, mutex,
                    is_encoding_, window, codecVars, countVars >>

PortDone(r) == [pc |-> "ports", rec |-> None, todo |-> clock.todo \ {r}]

\* A port without a source gets a frame of type NONE, a heartbeat.  The test
\* of the bound ends the flow of audio as the end of the source would.
Heartbeat(r) ==
    /\ At(clock, "ports") /\ r \in clock.todo
    /\ r \notin sending \/ taken[r] = MaxFrames
    /\ Free(r)
    /\ clock' = PortDone(r)
    /\ UNCHANGED << poolVars, confVars, api, unlocked, life, mutex, is_encoding_,
                    window, codecVars, countVars >>

\* The clock thread holds, or has just got, mutex_ of r in doPutFrame().
InPutFrame(r) ==
    /\ Free(r)
    /\ \/ /\ At(clock, "ports") /\ r \in clock.todo
          /\ r \in sending /\ taken[r] < MaxFrames
       \/ At(clock, "woken") /\ clock.rec = r

\* condition_.wait(lock, !is_encoding_)
PutWait(r) ==
    /\ InPutFrame(r)
    /\ is_encoding_[r]
    /\ clock' = [clock EXCEPT !.pc = "waiting", !.rec = r]
    /\ UNCHANGED << poolVars, confVars, api, unlocked, life, mutex, is_encoding_,
                    window, codecVars, countVars >>

bufferSize == 2 * Samples

\* A frame of another size is reported to onError(); is_encoding_ stays set.
PutError(r, size) ==
    /\ InPutFrame(r) /\ ~is_encoding_[r]
    /\ size # bufferSize
    /\ is_encoding_' = [is_encoding_ EXCEPT ![r] = TRUE]
    /\ clock' = PortDone(r)
    /\ UNCHANGED << poolVars, confVars, api, unlocked, life, mutex, window,
                    codecVars, countVars >>

NewFrame(r) == [cycle |-> cycle_[r], frame_num |-> frameCount[r], pcm |-> taken[r] + 1]

\* Mutant: old frames are never dropped.
AfterPush_Unbounded(r, size) ==
    IF size > MaxPcmBytes THEN window[r] ELSE Append(window[r], NewFrame(r))

\* frames_->push(), whose -1 for a frame that is too large is not looked at.
AfterPush(r, size) ==
    IF size > MaxPcmBytes THEN window[r]
    ELSE Ring!Latest(Append(window[r], NewFrame(r)), Capacity)

\* Mutant: the next frame does not wait for the previous one to be encoded.
MayPut_NotWaiting(r) == InPutFrame(r)

MayPut(r) == InPutFrame(r) /\ ~is_encoding_[r]

\* The frame is pushed and the task queued; mutex_ is held until enqueue() has
\* notified.
PutFrame(r, size) ==
    /\ MayPut(r)
    /\ size = bufferSize
    /\ is_encoding_' = [is_encoding_ EXCEPT ![r] = TRUE]
    /\ window' = [window EXCEPT ![r] = AfterPush(r, size)]
    /\ taken' = [taken EXCEPT ![r] = @ + 1]
    /\ Pool!EnqueueAccept(Clock, r)
    /\ mutex' = [mutex EXCEPT ![r] = Clock]
    /\ clock' = [clock EXCEPT !.pc = "notify", !.rec = r]
    /\ UNCHANGED << confVars, api, unlocked, life, codecVars, cycle_, frameCount,
                    delivered >>

\* Mutant: enqueue() does not notify a worker.
PutNotify_Silent(r) ==
    /\ At(clock, "notify") /\ clock.rec = r
    /\ client' = [client EXCEPT ![Clock] = "out"]
    /\ mutex' = [mutex EXCEPT ![r] = None]
    /\ clock' = PortDone(r)
    /\ UNCHANGED << _tasks, _stop, state, task, owner, confVars, api, unlocked,
                    life, is_encoding_, window, codecVars, countVars >>

PutNotify(r) ==
    /\ At(clock, "notify") /\ clock.rec = r
    /\ Pool!EnqueueNotify(Clock)
    /\ mutex' = [mutex EXCEPT ![r] = None]
    /\ clock' = PortDone(r)
    /\ UNCHANGED << confVars, api, unlocked, life, is_encoding_, window,
                    codecVars, countVars >>
-----------------------------------------------------------------------------
(* The workers.                                                            *)

WorkerLoop(w) ==
    /\ Pool!WorkerWait(w) \/ Pool!WorkerTake(w)
    /\ UNCHANGED << confVars, clock, api, unlocked, life, mutex, is_encoding_,
                    window, codecVars, countVars >>

\* w is in workerRun(), before it has locked mutex_ of r.
Pending(w, r) == task[w] = r /\ w \notin unlocked

\* workerRun() up to its unlock: the newest frame of the ring goes through the
\* detector and the encoder to onFrame().
WorkerRun(w, r) ==
    /\ Pending(w, r) /\ Free(r)
    /\ window[r] # << >> /\ life[r] = "created"
    /\ \E v \in fvad_process(vad[r], Samples) :
          vad_state_' = [vad_state_ EXCEPT ![r] = v]
    /\ delivered' = [delivered EXCEPT ![r] = Append(@, window[r][Len(window[r])])]
    /\ frameCount' = [frameCount EXCEPT ![r] = @ + 1]
    /\ is_encoding_' = [is_encoding_ EXCEPT ![r] = FALSE]
    /\ unlocked' = unlocked \union {w}
    /\ UNCHANGED << poolVars, confVars, clock, api, life, mutex, window, vad,
                    encoder_, cycle_, taken >>

\* Mutant: workerRun() forgets to notify.
WorkerNotify_Silent(w) ==
    /\ w \in unlocked
    /\ Pool!WorkerDone(w)
    /\ unlocked' = unlocked \ {w}
    /\ UNCHANGED << confVars, clock, api, life, mutex, is_encoding_, window,
                    codecVars, countVars >>

WorkerNotify(w) ==
    /\ w \in unlocked
    /\ NotifyOne(task[w])
    /\ Pool!WorkerDone(w)
    /\ unlocked' = unlocked \ {w}
    /\ UNCHANGED << confVars, life, mutex, is_encoding_, window, codecVars,
                    countVars >>
-----------------------------------------------------------------------------
(* The application thread.                                                 *)

\* create() holds mutex_ from its check of id to its end.
CreateBegin(r) ==
    /\ At(api, "idle")
    /\ life[r] = "new" /\ Free(r)
    /\ mutex' = [mutex EXCEPT ![r] = Api]
    /\ vad' = [vad EXCEPT ![r] =
                 fvad_set_mode(fvad_set_sample_rate(fvad_reset, ClockRate), 0)]
    /\ encoder_' = [encoder_ EXCEPT ![r] = "dtx"]
    /\ api' = [pc |-> "register", rec |-> r]
    /\ UNCHANGED << poolVars, confVars, clock, unlocked, life, is_encoding_,
                    window, vad_state_, countVars >>

\* Mutant: mutex_ is released before the ring exists.
LockWhileRegistered_Early == None

LockWhileRegistered == Api

\* registerMediaPort() takes the bridge's mutex.
CreateRegister(r) ==
    /\ At(api, "register") /\ api.rec = r
    /\ conf = None
    /\ ports' = ports \union {r}
    /\ api' = [api EXCEPT !.pc = "ring"]
    /\ mutex' = [mutex EXCEPT ![r] = LockWhileRegistered]
    /\ UNCHANGED << poolVars, conf, sending, clock, unlocked, life, is_encoding_,
                    window, codecVars, countVars >>

\* The bridge has no free slot: the Error leaves create().
CreateThrow(r) ==
    /\ At(api, "register") /\ api.rec = r
    /\ conf = None
    /\ mutex' = [mutex EXCEPT ![r] = None]
    /\ api' = [pc |-> "idle", rec |-> None]
    /\ UNCHANGED << poolVars, confVars, clock, unlocked, life, is_encoding_,
                    window, codecVars, countVars >>

CreateRing(r) ==
    /\ At(api, "ring") /\ api.rec = r
    /\ life' = [life EXCEPT ![r] = "created"]
    /\ mutex' = [mutex EXCEPT ![r] = None]
    /\ api' = [pc |-> "idle", rec |-> None]
    /\ UNCHANGED << poolVars, confVars, clock, unlocked, is_encoding_, window,
                    codecVars, countVars >>

\* startTransmit() and stopTransmit() of a source to r, under the bridge's mutex.
Transmit(r) ==
    /\ At(api, "idle") /\ life[r] = "created" /\ conf = None
    /\ r \in sending => "stop_transmit" \in Ops
    /\ sending' = IF r \in sending THEN sending \ {r} ELSE sending \union {r}
    /\ UNCHANGED << poolVars, conf, ports, clock, api, unlocked, life, mutex,
                    is_encoding_, window, codecVars, countVars >>

setVadMode(r, mode) ==
    /\ "vad_mode" \in Ops
    /\ At(api, "idle") /\ life[r] = "created" /\ Free(r)
    /\ vad' = [vad EXCEPT ![r] = fvad_set_mode(@, mode)]
    /\ UNCHANGED << poolVars, confVars, clock, api, unlocked, life, mutex,
                    is_encoding_, window, encoder_, vad_state_, countVars >>

\* The application thread holds, or has just got, mutex_ of r in reset().
InReset(r) ==
    /\ Free(r)
    /\ \/ /\ At(api, "idle") /\ "reset" \in Ops
          /\ life[r] = "created" /\ cycle_[r] < MaxCycles
          /\ ResetWhileSending \/ r \notin sending
       \/ At(api, "woken") /\ api.rec = r

ResetWait(r) ==
    /\ InReset(r)
    /\ is_encoding_[r]
    /\ api' = [pc |-> "waiting", rec |-> r]
    /\ UNCHANGED << poolVars, confVars, clock, unlocked, life, mutex,
                    is_encoding_, window, codecVars, countVars >>

\* Mutant: reset() does not wait for the frame that is being encoded.
MayReset_NotWaiting(r) == InReset(r)

MayReset(r) == InReset(r) /\ ~is_encoding_[r]

\* Mutant: the statistics survive reset().
CountAfterReset_Kept(r) == frameCount[r]

CountAfterReset(r) == 0

\* opus_encoder_init() and fvad_reset() also drop what create() configured.
Reset(r) ==
    /\ MayReset(r)
    /\ frameCount' = [frameCount EXCEPT ![r] = CountAfterReset(r)]
    /\ encoder_' = [encoder_ EXCEPT ![r] = "plain"]
    /\ vad' = [vad EXCEPT ![r] = fvad_reset]
    /\ vad_state_' = [vad_state_ EXCEPT ![r] = 0]
    /\ window' = [window EXCEPT ![r] = << >>]
    /\ cycle_' = [cycle_ EXCEPT ![r] = @ + 1]
    /\ api' = [pc |-> "idle", rec |-> None]
    /\ UNCHANGED << poolVars, confVars, clock, unlocked, life, mutex,
                    is_encoding_, taken, delivered >>

AddEncoderThreads ==
    /\ "add_workers" \in Ops
    /\ \E W \in SUBSET Worker : Pool!AddWorkers(W)
    /\ UNCHANGED << confVars, clock, api, unlocked, life, mutex, is_encoding_,
                    window, codecVars, countVars >>

\* ~PiRecorder(): it locks mutex_ and then needs the bridge's mutex.
DestroyBegin(r) ==
    /\ "destroy" \in Ops
    /\ At(api, "idle") /\ life[r] = "created" /\ Free(r)
    /\ mutex' = [mutex EXCEPT ![r] = Api]
    /\ api' = [pc |-> "unregister", rec |-> r]
    /\ UNCHANGED << poolVars, confVars, clock, unlocked, life, is_encoding_,
                    window, codecVars, countVars >>

\* Mutant: the port is removed without the bridge's mutex.
BridgeFree_Unlocked == TRUE

BridgeFree == conf = None

DestroyUnregister(r) ==
    /\ At(api, "unregister") /\ api.rec = r
    /\ BridgeFree
    /\ ports' = ports \ {r} /\ sending' = sending \ {r}
    /\ api' = [api EXCEPT !.pc = "free"]
    /\ UNCHANGED << poolVars, conf, clock, unlocked, life, mutex, is_encoding_,
                    window, codecVars, countVars >>

DestroyFree(r) ==
    /\ At(api, "free") /\ api.rec = r
    /\ encoder_' = [encoder_ EXCEPT ![r] = "none"]
    /\ window' = [window EXCEPT ![r] = << >>]
    /\ life' = [life EXCEPT ![r] = "destroyed"]
    /\ mutex' = [mutex EXCEPT ![r] = None]
    /\ api' = [pc |-> "idle", rec |-> None]
    /\ UNCHANGED << poolVars, confVars, clock, unlocked, is_encoding_, vad,
                    vad_state_, countVars >>
-----------------------------------------------------------------------------
ClockStep ==
    \/ TickBegin \/ TickEnd
    \/ \E r \in Recorder :
          \/ Heartbeat(r) \/ PutWait(r) \/ PutNotify(r)
          \/ \E size \in FrameSizes : PutFrame(r, size) \/ PutError(r, size)

WorkerStep(w) ==
    WorkerLoop(w) \/ WorkerNotify(w) \/ \E r \in Recorder : WorkerRun(w, r)

\* What the application thread has begun, it continues.
ApiContinue ==
    \E r \in Recorder :
       \/ CreateRegister(r) \/ CreateThrow(r) \/ CreateRing(r)
       \/ At(api, "woken") /\ (ResetWait(r) \/ Reset(r))
       \/ DestroyUnregister(r) \/ DestroyFree(r)

ApiCall ==
    \/ AddEncoderThreads
    \/ \E r \in Recorder :
          \/ CreateBegin(r) \/ Transmit(r) \/ DestroyBegin(r)
          \/ \E mode \in {0, 3} : setVadMode(r, mode)
          \/ At(api, "idle") /\ (ResetWait(r) \/ Reset(r))

Next ==
    \/ ClockStep \/ ApiContinue \/ ApiCall \/ SpuriousWakeup
    \/ \E w \in Worker : WorkerStep(w)

\* The null device's thread ticks for ever, workers and started calls run on.
\* The application thread gets a lock that is free again and again: the clock
\* thread sleeps between two ticks with the bridge's mutex released.
Fairness ==
    /\ WF_vars(ClockStep) /\ SF_vars(ApiContinue)
    /\ \A w \in Worker : WF_vars(WorkerStep(w))

Spec == Init /\ [][Next]_vars /\ Fairness
-----------------------------------------------------------------------------
(* Properties.                                                             *)

\* The types.
TypeOK ==
    /\ Pool!TypeOK
    /\ conf \in {None, Clock} /\ ports \subseteq Recorder /\ sending \subseteq ports
    /\ clock.pc \in {"idle", "ports", "waiting", "woken", "notify"}
    /\ api.pc \in {"idle", "register", "ring", "waiting", "woken", "unregister", "free"}
    /\ unlocked \subseteq Pool!InState("running")
    /\ life \in [Recorder -> {"new", "created", "destroyed"}]
    /\ mutex \in [Recorder -> {None, Clock, Api}]
    /\ is_encoding_ \in [Recorder -> BOOLEAN]
    /\ \A r \in Recorder : Len(window[r]) <= Capacity
    /\ vad \in [Recorder -> FvadConfig]
    /\ encoder_ \in [Recorder -> {"none", "dtx", "plain"}]
    /\ vad_state_ \in [Recorder -> {-1, 0, 1}]

\* The tasks queued or taken for r that have not yet encoded their frame.
Outstanding(r) ==
    Cardinality({i \in DOMAIN _tasks : _tasks[i] = r})
      + Cardinality({w \in Worker : Pending(w, r)})

\* One frame at a time: however the clock thread, reset() and the workers
\* interleave, a recorder has at most one task outstanding, and only while
\* is_encoding_ is set.  Two tasks would encode out of order on two workers.
OneTaskEach ==
    \A r \in Recorder : Outstanding(r) <= IF is_encoding_[r] THEN 1 ELSE 0

\* workerRun() dereferences tail(): a task never meets an empty ring, and the
\* newest frame in it is the one the task was queued for, also when reset()
\* clears the ring.  (The destructor does not wait for tasks.)
TaskFindsItsFrame ==
    \A r \in Recorder :
        Outstanding(r) > 0 /\ life[r] # "destroyed" =>
            window[r] # << >> /\ window[r][Len(window[r])].pcm = taken[r]

\* onFrame() sees every frame the bridge delivered exactly once, in order; the
\* frame numbers count up from 0 in every cycle (main.cpp compares them with
\* next_frame_) and the cycles never go back.
DeliveredInOrder ==
    \A r \in Recorder :
        LET d == delivered[r] IN
        /\ taken[r] - Len(d) \in {0, 1}
        /\ \A i \in DOMAIN d : d[i].pcm = i
        /\ \A i \in DOMAIN d :
              IF i > 1 /\ d[i - 1].cycle = d[i].cycle
              THEN d[i].frame_num = d[i - 1].frame_num + 1
              ELSE d[i].frame_num = 0 /\ (i > 1 => d[i].cycle > d[i - 1].cycle)

\* create() registers the port before it makes the ring: the clock thread may
\* already call put_frame, but it never gets past mutex_ while frames_ is null,
\* nor does it reach a recorder that was destroyed.
ClockFindsRing ==
    \A r \in Recorder :
        (\/ At(clock, "ports") /\ r \in clock.todo /\ Free(r)
         \/ At(clock, "woken") /\ clock.rec = r /\ Free(r)) => life[r] = "created"

\* A bridge tick that has begun ends: no recorder blocks the clock thread, and
\* with it all the audio of the process, for ever.
TickCompletes == (conf = Clock) ~> (conf = None)

\* Every frame taken from the bridge is passed to onFrame().
EveryFrameDelivered ==
    \A r \in Recorder : (taken[r] > Len(delivered[r])) ~> (taken[r] = Len(delivered[r]))

\* reset() returns.
ResetReturns == At(api, "waiting") ~> At(api, "idle")
-----------------------------------------------------------------------------
(* What the repository's text says and the code does not do.               *)

\* workerRun() notifies "the waiting thread" of the end of the encoding: a
\* thread that waits for it does not stay asleep when nothing is encoded.
WaiterIsWoken ==
    \A r \in Recorder :
        (Clock \in Waiting(r) /\ ~is_encoding_[r]) ~> (Clock \notin Waiting(r))

\* unregisterMediaPort() removes the port from the bridge: the destructor that
\* calls it gets to its end.
DestructorReturns == At(api, "unregister") ~> At(api, "idle")
=============================================================================
