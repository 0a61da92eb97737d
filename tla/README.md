# Verification of pjproject-go-native

TLA+ specifications of the recording extension of pjproject-go-native
(`pjproject-ext`), of the part of PJMEDIA that drives it, and of the parts of the
bundled PJSIP stack that carry a call: the timer heap, the SIP transaction, the SDP
negotiator and the invite session. With TLC configurations and TLAPS proofs.

The repository bundles PJSIP 2.10, OpenSSL, Opus, bcg729, OpenCore AMR, soxr and
libfvad. Its own code is `pjproject-ext/pj-ext.cpp` and `pj-ext.h`: `PiRecorder`, a
port of the conference bridge that encodes what it is sent on a pool of worker
threads, and `PiPort`, which forwards frames. The specifications start there and
grow outwards: first into the bundled PJMEDIA code on which the recorder's
correctness rests, then into the signalling that brings the recorder its audio.

## The system

### Parts, state, operations

| part | source | state | operations |
|---|---|---|---|
| `PiAudioFrameBuffer` | pj-ext.cpp 36-120 | `_ring`, `count_`, `head_`, `tail_`, `size_` | `push`, `clear`, `head`, `tail`, `get`, `back` |
| `PiWorkerPool` | pj-ext.cpp 284-397 | `_tasks`, `_stop`, the threads, mutex and condition variable | `addWorkers`, `enqueue`, `stop`, destructor, the worker loop |
| `PiRecorder` | pj-ext.cpp 404-740 | `mutex_`, `condition_`, `is_encoding_`, `frames_`, `encoder_`, `vad_`, `cycle_`, `stats_` | `create`, `put_frame`, `workerRun`, `reset`, `setVadMode`, destructor |
| `Fvad` | fvad/src/fvad.c | sample rate, mode | `fvad_reset`, `fvad_set_*`, `fvad_process` |
| conference bridge | pjmedia/src/pjmedia/conference.c | table of ports, listener arrays, levels, settings, mix buffers, three counters | add, remove, configure, connect, disconnect, adjust level, `get_frame` |
| AudioMedia glue | pjsua2/media.cpp, pjsua_aud.c | the slot number | register, unregister, start and stop transmit |
| timer heap | pjlib/src/pj/timer.c | `heap`, `timer_ids`, `timer_dups`, free list, `cur_size`, `max_size` | create, schedule, cancel, poll |
| SIP transaction | pjsip/src/pjsip/sip_transaction.c | state, two timers, transport, flags of pending sends, group lock count | send, receive, timer and transport callbacks, terminate, stop retransmission, set timeout |
| SDP negotiator | pjmedia/src/pjmedia/sdp_neg.c, sdp.c | `pjmedia_sdp_neg`: state and six descriptions | create, modify, send, set remote and local, negotiate, cancel |
| invite session | pjsip/src/pjsip-ua/sip_inv.c, sip_timer.c | the negotiator, two pools, `invite_tsx` | create and send re-INVITE and UPDATE, answer, ACK, handlers of requests and responses |
| `PiPort`, logging, demo | pj-ext.cpp 743-854, main.cpp | none of their own | not modelled |
| the rest of PJSIP | pjlib, pjlib-util, pjnath, pjsip, pjmedia streams and transports | | see the plan |
| codecs, OpenSSL | bundled libraries | | not modelled |

### How they interact

One *clock thread* (the null sound device, or a real one) calls the bridge's
`get_frame()` for every tick. With the bridge's mutex held it reads every port,
mixes, and calls `put_frame` of every port. A recorder's `put_frame` locks `mutex_`,
waits on `condition_` until the previous frame is encoded, pushes the frame into the
ring, sets `is_encoding_` and queues a task on the pool. A *worker* runs
`workerRun()`: under `mutex_` it takes the newest frame of the ring through the
voice detector and the encoder to the virtual `onFrame()`, clears `is_encoding_`,
unlocks, and notifies `condition_`. *Application threads* call `create()`,
`reset()`, `startTransmit()` and so on; these take `mutex_`, the bridge's mutex, or
both.

Below the calls, *poller threads* take expired entries from the timer heap and run
their callbacks with the lock of the heap released. A transaction schedules two
entries there; its handlers run under its group lock, whose reference count keeps it
alive while a timer is scheduled, a callback runs or a send is under way. The
transport, the resolver and the network call it at any time. An invite session gets
the requests and responses of its dialog, with the dialog locked, and hands the
descriptions in them to its negotiator, which it gives memory from a provisional pool.

### What is hard

- Wakeups: two condition variables, both notified after the mutex was released, one
  of them with two kinds of waiters.
- Three mutexes (bridge, recorder, pool), nested in two different orders.
- A task finds its frame by looking at the ring when it runs.
- Life time: ports are registered before they are complete, destroyed while tasks
  and ticks are under way.
- The bridge keeps each connection in up to five places (array entry, level entry,
  and three counters), reuses slots, lets a port listen to itself, and calls user
  code in the middle of its loops under a recursive mutex.
- The timer heap stores its free list and its positions in one array, and grows in
  the middle of an insertion; an entry can be cancelled while a poller that has
  already taken it is on its way into the callback.
- A transaction's sends complete late, after it went on or ended; its timers expire
  while it is being ended by others, and with several pollers in two threads at once;
  transports refuse and disconnect.
- Offers of both ends of a call cross, fail and are retried; the memory of an exchange
  is reset when the exchange ends, and the descriptions in use must not be in it. A
  request is created by one call and sent by another, with the dialog unlocked between.
- Limits: a ring one frame smaller than its array, unsigned indices that wrap,
  a fixed maximal frame size, arrays of `max_ports` entries.

`PROJECT.json` lists these as hazards, each at its line, with the properties that
cover it.

## Modules

### `PiAudioFrameBuffer`, refining `FrameWindow`

The ring has no lock of its own (the recorder calls it under `mutex_`), so an
operation is one action: `Push`, `PushRefused` (the frame is too large) and
`Clear`. The accessors are operators; an index is a `size_t`, so `Back` computes
modulo `WordSize`. `FrameWindow` says what the ring promises: the sequence of the
newest `Capacity` frames pushed since the last `clear()`. The refinement mapping
reads the slots from `head_` on.

### `PiWorkerPool`

A section under `_queueMutex` is one action. What happens outside it is a step of
its own: the `notify_one` of `enqueue()` (`EnqueueNotify`), the `notify_all` and the
joins of the destructor (`DestructorNotify`, `DestructorJoined`), and the task
(`WorkerDone` ends it). `stop()` notifies with the mutex held and is one action.
`NotifyOne` wakes an arbitrary waiter, and waiters may wake up spuriously. A task is
an identity: the same one is handed in again only after it has run.

### `PiRecorder`, composing `PiWorkerPool`, `FrameWindow`, `Fvad`

Instantiates the pool with the clock thread as its caller and a recorder as the
task. The ring is replaced by the window it was shown to implement, and the bridge
is reduced to what a recorder sees of it: a mutex, the registered ports, the ports
with a source, and a tick that visits every registered port. A section under
`mutex_` that neither waits nor takes the bridge's mutex is one action; `create()`
and the destructor, which take it, are three actions each, with `mutex_` held in
between. `Ops` and `ResetWhileSending` select what the application does, so that a
run can ask about one usage. `taken` and `delivered` are history variables.
`MCRecorder` adds the symmetry set of the safety run: recorders and workers are model
values that no definition tells apart.

Fields are zero initially, as for the `make_unique<Pi2Port>()` of main.cpp (the
constructor itself initialises nothing).

### `Fvad`

The configuration of a detector as pure operators: which frame lengths it accepts
for its rate, and what `fvad_reset` forgets.

### `Conference`, refining `ConnectionMatrix`

Every API call holds the bridge's mutex from its first test to its end and is one
action; a call that is refused changes nothing and is a stuttering step. `get_frame()`
is split at the places where it calls a port: `GetFrame` (first loop), `SkipEmpty`,
`SkipRead`, `ReadPort`, `ReadNothing`, `ReadAudio`, `ReadDone` (second loop),
`WritePort`, `WriteReturn`, `GetFrameReturn` (third loop). While a port is being called
its callback may use the operations in `InCallback`, because the mutex is recursive. A
mix buffer is the set of the slots whose signal it holds, or `Stale` for samples of an
earlier tick. To a port with `tx_setting` `DISABLE` or `MUTE` `write_port()` passes no
audio. `kept`, `served`, `got` and `asked` are history variables: the ports registered
since the running loop began, those it has visited, the connections over which audio
came in this tick, and the level last asked for. `DisconnectAsserts` is what
`pjmedia_conf_disconnect_port()` asserts of the counts. `MCConference` adds a variable
that remembers which of three statements of the repository a behaviour has contradicted.
`ConnectionMatrix` says what the API promises: a set of occupied slots and a set of
connections.

### `TimerHeap`, refining `TimerQueue`

An operation holds the lock of the heap from its first step to its last: `Schedule` or
`Cancel` or `PollBegin`, then one `ReheapUp` or `ReheapDown` for each iteration of the
loop in `reheap_up()` or `reheap_down()`, then `InsertDone`, `CancelDone` or
`PollUnlock`. The steps let TLC compare the arrays with the specification after the
whole operation, as other threads see them. A poller runs the callback with the lock
released (`CallbackReturns`) and locks again (`PollAgain`, `PollReturns`). `grow_heap()`
is part of the insertion that needs it. A copy of an entry is named by its timer id, a
pointer into the heap by the id, and the history variable `free` is the free list as a
sequence. `OwnerReleases` is the owner of an entry that drops its own reference to the
group lock; it has cancelled its timer or has not. `Cancel` and `CancelNothing` are the
two outcomes of a cancel: for an entry that is not scheduled the code reads the group
lock in front of `timer_dups`, which may be anything (`GrpLockRead`), and uses it only
if the entry is found. An entry in `Rewritable` may be written to by its owner while it
is scheduled: the poll then finds `valid == FALSE` and skips the callback and the
release of the reference (`PollSkips`); `leaked` counts such references. `TimerQueue`
says what a heap promises: a deadline for every scheduled entry, the earliest fired
first, once, and never early. `MCTimerHeap` adds the symmetry of the entries without
group lock.

### `SipTransaction`

One transaction, client or server, INVITE or not; `is_reliable` and the transport are
state, because a send can find another transport. What a thread does with the group lock
held is one step, written as operators on the record `tsx` named for the C functions
(`tsx_send_msg`, `tsx_retransmit`, `tsx_shutdown`, ...); where the outcome is not
determined they return the set of the possible records. A timer callback is split at the
places where it has no group lock: `Expire`, `CallbackBegin`, the dispatch into the
state machine, `TellUser`, and the end of `tsx_set_state()` after the notification. Any
number of threads poll: the comment at sip_transaction.c 1152-1156 names the environment
with multiple worker threads. The network is the most general one: any message the peer
can send may arrive at any time, repeated and in any order. Sends may complete at once,
later, or fail; a send that will call back is an element of `sends`. `null_tx` records
that `tsx_send_msg()` was called without a message, which its assertion refuses. Assumed
of the surroundings: the transaction user does not call the functions of a transaction
that has ended, except `pjsip_tsx_set_timeout()`, and makes no call from within its own
callbacks; callbacks of one transport come one at a time; the transaction layer is
stopped after the pollers; `handle_200resp` is 1, its default.

`pjsip_endpt_send_request_stateless()` and `pjsip_endpt_send_response()` can refuse at
once, without a callback (`NotStarted`): `TSX_HAS_PENDING_TRANSPORT` then stays set, and
after a response a reference is kept as well. The second case does not happen, as the
proof of `RefsExact` shows: it needs a `res_addr.transport`, which is cleared when the
transport of the transaction is, before every send that takes this path.

### `SdpNegotiator` and `InviteSession`

`SdpNegotiator` has no variables: its operators take the structure `pjmedia_sdp_neg`
to what the functions leave in it, and translate the matching of media lines (`match_offer`,
`create_answer`, `process_m_answer`, `process_answer`) down to formats, clock rates of
telephone-events, directions and zero ports. A stored description carries the pool it
was allocated from.

`InviteSession` composes two negotiators into the two ends of one confirmed call, which
the callee entered with a description given when its session was created or with its
answer (the two cases of `pjmedia_sdp_neg_create_w_remote_offer()`). A handler, which
runs with the dialog locked, is one action: it receives a message, changes negotiator
and pools, and sends its response. Messages arrive in any order. A request takes several
actions. `Reinvite`, `ReinviteOfferless` and `Update` create it and open the offer;
`CheckRequest` is the test of `invite_tsx` in `pjsip_inv_send_msg()`, `RefuseRequest`
the refusal when a re-INVITE of the peer came since; `SendInvite` and `SendUpdate` are
`pjsip_dlg_send_request()`, before which the dialog is unlocked once more. The session timer
unlocks the dialog between creating and sending its refresh; PJSUA holds it all the
time, and its behaviours are among those of the model. `unsent` holds the ends whose
offer stayed open after a refusal, and `stopped` says that the assertion at
sip_inv.c:5131 failed (`AssertFails`). The applications choose their descriptions,
refuse an offer, or answer a re-INVITE later (`DeferInvite`, then `AnswerLater` or
`RejectLater`). They wait for their own request and for the exchange to end before they
begin another one, and answer an offer in a 2xx as the documentation of the callback
demands. `Ops` selects what they do; `"early"` allows an UPDATE between a 2xx and its
ACK. `MCInviteSession` gives each end two or three descriptions: hold, another codec,
another order of the lines, a line turned off.

### Proofs

`PiAudioFrameBuffer_proofs`, `PiWorkerPool_proofs`, `PiRecorder_proofs`,
`Conference_proofs`, `TimerHeap_proofs`, `SipTransaction_proofs` and
`InviteSession_proofs`, one for each component that is proved about, and
`SipTransactionEnd_proofs` on top of the proofs about the transaction.

## Runs

| run | checks | shows |
|---|---|---|
| `frame_buffer` | `Aligned`, `AccessorsAgree`, `ImplementsFrameWindow` | the ring of 4 slots is a window of 3 frames after any mixture of push and clear |
| `worker_pool` | `WakeupsCover`, `NoneSleepsAfterStop`, `DrainedWhenJoined`, `AcceptedTaskRuns`, `DestructorReturns` | no lost wakeup, no dropped task, the destructor returns |
| `recorder` | `OneTaskEach`, `TaskFindsItsFrame`, `DeliveredInOrder`, `ClockFindsRing` | frames are encoded once, in order, across resets during a transmission, frames of a wrong size, and the creation and destruction of recorders at any time |
| `recorder_progress` | `TickCompletes`, `EveryFrameDelivered`, `ResetReturns` | two recorders neither block the clock thread nor lose a frame; `reset()` after `stopTransmit()` returns |
| `conference` | `ListenersValid`, `CountersExact`, `MixIsComplete`, `FewPassedOver`, `ImplementsMatrix` | three slots, one of them muted and unmuted, every order of the operations between ticks, and callbacks that add and remove ports under the running loops |
| `timer_heap` | `HeapOrdered`, `HeapHoldsScheduled`, `FreeListChained`, `RefsExact`, `ImplementsQueue` | insertions, removals in the middle and growth keep the heap a heap, lose no id, count every user of a group lock, and fire entries in the order of their deadlines |
| `transaction` | `RefsExact`, `CanSendAgain`, `StopsRetransmitting`, `ToldBeforeFreed`, `EndIsFinal`, `EventuallyReleased` | all kinds of transactions with two pollers under loss, repetition, late completions and lost transports: references exact, the user told before the transaction is freed, nothing that has ended revived, and every transaction released |
| `invite_session` | `FieldsAlive`, `Agreement`, `NegotiationEnds` | crossing, refused, deferred and offerless exchanges, and requests that are dropped before they are sent, leave no description in a reset pool and both ends with the same media; every exchange ends unless its re-INVITE was dropped or the assertion failed |

`frame_buffer`, `worker_pool`, `recorder` and `conference` also check `TypeOK`. Runs
that are expected to fail state what a comment, an assertion or a document of the
repository says and show a behaviour of the code that contradicts it:

| run | property | what the trace shows |
|---|---|---|
| `recorder_wakeup` | `WaiterIsWoken` | the one `notify_one` wakes `reset()`; the clock thread sleeps on with the bridge's mutex held |
| `recorder_destructor` | `DestructorReturns` | destructor and clock thread wait for each other's mutex |
| `conference_claims` | `AStatementHolds` | one behaviour that contradicts three statements: removing a listener shifts the levels of the ones behind it (`LevelStays`); a full row of connections, the port itself among them, fails the assertions at conference.c 1075-1078 when one is broken (`DisconnectAssertion`); a port removed by a callback ends a loop of `get_frame()` before its last port (`AllPortsServed`) |
| `transaction_assertions` | `AnAssertionHolds` | one behaviour that contradicts two assertions: `send_msg_callback()` sends a deferred message that the final response has dropped (sip_transaction.c:2109, `SendsAMessage`), and a step takes the transaction from DESTROYED back to TERMINATED (1213-1214, `StateForward`) |

The last two runs each ask for a single behaviour that contradicts all of their
statements, so that one trace shows them all; each statement is also violated alone.

In the transaction two paths lead back from DESTROYED to TERMINATED, both with two
pollers: `tsx_timer_callback()` reads the state before it takes the group lock, and the
other poller destroys the transaction in between; and the refusal of a
deferred message terminates a transaction that the other poller has destroyed. The
comment at sip_transaction.c 1257-1264 takes it that no other processing takes place in
this gap; a callback of the other poller does. With one poller, as PJSUA polls by
default, TLC finds no way back. What does hold for any number of pollers is checked and
proved: `ToldBeforeFreed` and `EndIsFinal`.

More observations came out of the models. Those that take more than one thread or a
long sequence of calls to meet are recorded with the hazards:

- A re-INVITE whose `pjsip_inv_send_msg()` is refused leaves its offer open. The
  session answers 491 to all offers of the peer until its own user tries again, and the
  session timer, which postpones its refresh while an offer is open, does not. A
  re-INVITE of the peer that arrives between the test and `pjsip_dlg_send_request()`
  fails the assertion at sip_inv.c:5131. `NegotiationEnds` names both as its exceptions.
- A worker may notify the condition variable of a recorder that was destroyed between
  its unlock and its notification.
- After `reset()` the voice detector is at 8 kHz and refuses every 16 kHz frame, and the
  encoder has lost what `create()` set; a recorder that was never created is destroyed
  through a null `frames_`; the constructor initialises no field. These are sequential and
  need no model checker.
- A frame above 640 bytes (20 ms at 48 kHz) is refused by `push()` and its task finds
  no frame.
- A connection made by a callback sends samples of an earlier tick.
- A response that was deferred because an earlier one was pending is not sent by
  `transport_callback()`; it waits for the next retransmission of the request.
- An UPDATE sent between a 2xx and its ACK has its offer cancelled by that ACK, and the
  two ends disagree: with `"early"` in `Ops` TLC violates `Agreement`.
- An offer in a 2xx that the application does not answer blocks all later offers.
- `schedule_entry()` loses the id it popped when `grow_heap()` cannot allocate.

### Bounds

- `frame_buffer`: `MaxCount` = 7 frames pass a ring of 4 slots almost twice; sizes
  below, at and above the limit of 640 bytes.
- `worker_pool`: three workers, two callers and three tasks are enough for a caller
  between unlock and notification while another queues, with one worker busy, one
  ready and one asleep. No bound on the length of a behaviour.
- `PiRecorder` runs: `MaxFrames` (1 to 3) frames for each recorder and `MaxCycles`
  (1 or 2) resets. Safety is checked with two recorders and two workers, liveness
  with two recorders that share one worker. A recorder has at most one task outstanding, so two frames give
  every overlap of a frame with its successor. `Capacity` 1 makes every push replace
  the previous frame. The end of the frames looks like the end of the source: the
  bridge then sends heartbeats.
- `Conference` runs: `MaxPorts` = 3, so that a port can have a listener before and
  behind the one that is removed, a slot can be reused, and a loop can lose its last
  port. No bound on the number of operations. Callbacks add and remove ports; a callback
  that connects is outside `MixIsComplete` (below), and one that disconnects is left to
  the theorems, where `InCallback` is any set. The settings of one slot are changed between
  `ENABLE` and `MUTE`; the theorems have no such bound. In `conference_claims` only port 1
  transmits, which is enough for each of the three contradictions.
- `timer_heap`: six entries in a heap created with `Size` 0, so that it grows from two
  slots and reaches a third level, where a removal in the middle can send the last node
  up or down. `MaxCalls` = 7 calls of schedule, cancel and poll: six insertions and a
  removal are the shortest way to that case. Delays 0 and 1 and one step of the clock make
  entries that are due, not due, and equal. One poller takes up to two entries in a
  poll; one entry has an owner with a group lock, and may be written to while it is
  scheduled.
- `transaction`: two pollers, one in each of the two timers or both after each other in
  the same one, both roles and methods; no bound on the length of a behaviour.
- `invite_session`: `MaxCSeq` = 2 requests of each end, so that an exchange can cross,
  fail and be retried, and a dropped request be tried again; three formats (two codecs
  of different clock rates and a telephone-event) and at most two media lines. 461,931
  states.

`CHECK_DEADLOCK FALSE` is used where the system may stop. `PiRecorder`: after a frame
of a wrong size (`PutError`) `is_encoding_` stays set and the clock thread waits for
ever, and the destructor can deadlock with it: both are behaviours of the code, and the
run `recorder_destructor` is about the second. `timer_heap` ends at its bounds, a
transaction when it was released, and a call is quiet when no end has a request left,
or over when an assertion failed.

### Fairness

`PiWorkerPool`: weak fairness of each worker's steps, of a caller that is about to
notify and of a destructor that has begun. The operating system runs every thread
that is not blocked. Calls are never forced, and no spurious wakeup is relied upon.

`PiRecorder`: weak fairness of the clock thread and of every worker, and strong
fairness of a call that the application has begun. Strong, because the call needs
mutexes that others take again and again: the clock thread sleeps between two ticks
with the bridge's mutex released, for nearly the whole period of the tick, so a
thread that waits for the mutex gets it. `mutex_` is likewise free between frames.

`SipTransaction`: weak fairness of a callback that a poller has begun and of the
completion of a send, which every transport and the resolver report; strong fairness of
the expiry of each timer, because a timer that is rescheduled again and again still
expires as long as a poller polls. No message is forced to arrive.

`InviteSession`: every message arrives and is handled (`Handle` is enabled whenever one
waits, so its weak fairness is written with `Waiting`): the transaction layer
retransmits, and a request that stays without answer ends the call. Who has created a
request goes on to send it (weak fairness of `Dispatch`): the two calls follow each
other in every caller. An application that deferred an answer gives one in the end. No
request is forced, nor a second try of one that was dropped.

`TimerHeap` and `Conference` have no fairness: their properties are safety properties.

## Proofs

The theorems hold for every value of the constants that satisfies the `ASSUME`s.

**`PiAudioFrameBuffer_proofs`** (any ring of at least two slots, any frames).
`IndInv` adds to `Aligned` that every slot of the run was written (`Written`):
`Aligned` alone says nothing about the contents that the accessors return. From it
follow `TypeInvariance`, `AlignedInvariance`, `AccessorsAgreeInvariance` and
`RingImplementsWindow`.
The arithmetic that carries the proofs is that positions less than the ring's size
apart fall into different slots, so a push cannot overwrite a slot of the window.

**`PiWorkerPool_proofs`** (any finite sets of workers and callers, any tasks).
`IndInv` joins `WakeupsCover` with what the stop protocol needs: a worker exits only
when the pool is stopped and drained (`ExitedDrained`), a destructor that has begun
has set `_stop` (`OwnerProgress`), and at least one worker was started
(`SomeStarted`), without which an empty set of threads could be joined with tasks
still queued. A worker that takes a task, or falls asleep, lowers both sides of
`WakeupsCover` or makes it void; a caller that queues raises both.

**`PiRecorder_proofs`** (any finite set of recorders, any workers, usage and bounds).
`Core` joins the types, `Locks` and `OneTask`. `OneTask` says that a recorder has at
most one task, queued or in the hands of one worker but not both, and only under
`is_encoding_`; it gives `OneTaskEachInvariance`. `Locks` says who holds which mutex
in which step of a call and which recorders the bridge may visit; it gives
`ClockFindsRingInvariance`. On top of it `Frames` follows a frame: while the recorder
is busy the newest frame of the ring is the one taken last and carries the present
cycle and frame number (`FrameReady`), what was taken is delivered or outstanding
(`Counted`), and `frameCount` continues the numbers already delivered (`InOrder`).
It is inductive because a push and a `reset()` need `is_encoding_` to be clear, so
neither happens while a task is outstanding. `TaskFindsItsFrameInvariance` and
`DeliveredInOrderInvariance` follow; both assume that a frame fits into the ring
(`bufferSize <= MaxPcmBytes`), and are false without it: `push()` then refuses the
frame and the task is queued all the same.

**`Conference_proofs`** (any number of slots, any callbacks). The inductive
invariant joins the types, `ListenersValid` and `CountersExact`; a count is compared
with the cardinality of the set of transmitters, and each operation changes that
set by one element or, for a removal, by every port the removed one transmitted to.
`BridgeImplementsMatrix` maps the occupied slots and the pairs in the arrays to
the abstract matrix. `MixIsCompleteInvariance` holds for callbacks that add, disconnect
and remove ports, and rests on `MixInv`, which follows the mix buffers through the
loops: the buffer of a port that would be sent audio holds the signals of all its
transmitters whose audio came in this tick, and of no port whose audio did not. It is
false when a callback connects ports: the new listener is sent samples of an earlier tick,
so `"connect"` is excluded by hypothesis.
`FewPassedOverInvariance` has no hypothesis on callbacks. A loop ends when it
has counted `port_cnt` ports, and `ServeInv` says what it has counted: the ports it
served, among them all that are still registered in the slots it has passed. When it ends
with a port to go, `port_cnt` fell below what it counted, and so at least as many ports
that it served are gone.

**`TimerHeap_proofs`** (any entries, any finite set of pollers, any initial size, any
delays and bounds). The properties speak of the moments when the lock of the heap is
free; the invariant must hold between the iterations of a reheap loop, when one node is
in `op` and its slot is a hole. `Order` therefore splits in three: `Sorted` when no loop
runs, and `Rising` or `Sinking` while one does: the others are in order, also across the
hole, and the node that is moved fits above the children of the hole or below its
parent. `Around`, the part about the hole's parent and its children, is what a removal
in the middle needs, where the last node may go either way. `Structure` says that `heap`
and `timer_ids` are inverse outside the hole (`Located`, `Found`), that every id is used
or on the free list, once (`Linked`, `Distinct`, `Unused`), and that there are as many
free ids as the array has room (`Room`): with it an insertion finds an id, and
`grow_heap()` can link its new ids behind the end of the list. `Rest` counts references
while an entry is being inserted or cancelled and its reference is not yet taken or not
yet given back. Then `HeapOrderedInvariance`, `HoldsScheduledInvariance`,
`FreeListInvariance` and `RefsInvariance` follow at once. `Refinement` needs one more
fact, that nothing in a heap is less than its root (`RootIsLeast`): the least slot that
is less than the root would have a parent that is less too. The invariant was checked by
TLC with two pollers and five entries before it was proved.

**`SipTransaction_proofs`** (any kinds, any outcomes of sending, any finite set of
pollers). `IndInv` follows one record through the operators: `Counted` says that the
references are those of the registration, the two timers, the sends and the pollers in a
callback; `OneSend` that at most one of the resolver and the transport is working for
the transaction; `Going` that a transaction which has not ended knows of its send, has a
transport unless one is being found, and does not retransmit after the ACK; `HasMessage`
that there is something to send. Each operator has a lemma that it preserves these, with
the number of pollers in callbacks as a parameter, so that the lemmas compose the way
the functions call each other; the steps of a poller change that number and are counted
with the theorems about cardinalities. The callbacks that have ended the transaction
need the last part: a poller past `Over` finds the state at least `Terminated`.
`RefsExact`, `CanSendAgain` and `StopsRetransmitting` follow for any number of pollers.

**`SipTransactionEnd_proofs`** (any kinds and outcomes, any finite set of pollers).
`UserToldBeforeFreed` and `EndStaysFinal`. `EndInv` relates the transaction to the places
of the pollers: between the setting of the state and the rest of `tsx_set_state()` a
poller has left the group lock to tell the user, and only while some poller is at such a
place (`TellsTimeout`, `TellsError`) is a transaction `Terminated` and its user not told.
Such a poller holds a reference, so with the last reference the user has been told. Each
function is `Still` (changes no state), `Led` (may end the transaction, and then
completely) or `Ahead` (may also move it on); the only way back that any of them has is
from `Destroyed` to `Terminated`, which is what `Final` allows.

**`InviteSession_proofs`** (any formats, any descriptions, any number of requests, sent,
dropped or stopped by the assertion).
`PoolDiscipline`. Between two exchanges (`Resting`) all descriptions of a session are in
the pool of the session or in the active pool; during one (`Offering`, `Invited`) those
of the exchange are in the provisional pool and what a failure returns to is
outside it. Hence the reset of the provisional pool after a failure and of the formerly
active one after a success frees nothing that is kept: after a success `initial_sdp`
and the active pair are all of the new pool. The matching of the media is not
expanded: the argument holds whatever the outcome of the negotiation.

`AnswerMirrors` is about the matching: from the answer of `create_answer()`,
`process_answer()` brings the offerer to the same lines, with the same formats and
opposite directions. `FirstUnused` and `AnswerIndex` are recursive functions over the
lines; that `FirstUnused` is defined (`TakenExists`, over initial segments) and what
both compute is derived from a least counterexample (`Least`), which needs no induction
scheme. `At` and `Among` name the elements of a sequence by the rank of their
positions, because the provers know nothing of `SelectSeq`. An active line of a
description must name a codec (`Usable`): `match_offer()` accepts a line that has only
telephone-events, may answer it with an active line without any format, and the offerer
then turns its own line off.

`AgreementInvariance` adds `CallInv`, which follows the open exchange through both ends
and the messages between them. Each end has at most one request or response to it on its
way, of its present transaction (`OpenOnce`, `OpenFor`); a request carries the sender's
present offer; a 2xx carries what the other end already uses as its answer to that
offer, or an offer for which it waits for the ACK; an ACK with a description answers
that offer (`AckFor`); a deferred re-INVITE is the present one of its sender
(`DeferredFor`); an end that has created a request, or could not send it, has nothing
else open, and the request carries the offer that its negotiator holds (`Held`). At most
one answer is under way in the whole call (`AnswerOnce`), and only while one is do the
two ends use different media (`Matched`): with the last message `Matched` is
`Agreement`. All parts are needed at once: a crossing request is refused because of the
one, a late ACK is told from the present one by its number because of another. Each kind
of step has a lemma on the two ends (`StartStep` to `AckStep`) and one that a handler
takes such a step (`OfferCall` to `RejectLaterCall`). `Proviso` states the two
hypotheses: active lines name a codec, and `"early"` is not in `Ops`, with which TLC
violates the property. `ConfirmedAssumption` says that the first exchange of the call
succeeded, which is what confirmed it, and `NullAssumption` that `NULL` is no
description and no transaction. `CallInv` was checked by TLC on the instance of
`invite_session` before it was proved.

Only model-checked: the liveness properties (`AcceptedTaskRuns`, `DestructorReturns`,
`TickCompletes`, `EveryFrameDelivered`, `ResetReturns`, `EventuallyReleased`,
`NegotiationEnds`), which are out of reach of the proof system, and the findings.

## Not modelled

- The numbers in a frame: CPU times, statistics other than the frame count, sample
  values, levels of a signal, clipping.
- In the bridge: resampling and the buffers for ports with another rate or frame
  length (`rx_buf`, `tx_buf`, the heartbeat counter), rx and tx level adjustment, the
  master port's `put_frame` and its delay buffer, destruction of the bridge, the
  deprecated passive ports (not compiled). Port 0 is never removed.
- In the recorder: `workerEncodeDTX` and `workerDTX`, which are never called; the
  destructor of a recorder that was not created; a second recorder call from another
  application thread at the same time (there is one application thread).
- In the timer heap: failing allocations, the debug dump, and the linked list that
  `PJ_TIMER_USE_LINKED_LIST` would select. Of the memory of an entry that its owner
  writes to while it is scheduled, only that the poll notices (`Rewritable`). Of the
  group lock (`lock.c`) only the reference count.
- In the transaction layer: transaction keys and the hash table, apart from the
  registration; calls of the transaction user from within its callbacks; several
  transactions at once (they share nothing but the table, the heap and transports).
- In the negotiator: payload numbers, origin versions, custom format matching,
  `PJMEDIA_SDP_NEG_ALLOW_MEDIA_CHANGE`.
- In the invite session: the states before CONFIRMED, descriptions in provisional
  responses, PRACK, CANCEL, BYE, redirection, authentication; of the session timer its
  deadlines and the end of the session.
- `PiPort`, logging, the demo program, all other PJSIP libraries, codecs, OpenSSL.

## Plan

Done: the ring, the pool, the recorder, the detector's configuration and the bridge,
with their proofs; the timer heap with the proofs of its order, ids, references and
refinement; the transaction, the negotiator and the invite session, with the proofs of
references, transports, the end of a transaction, pools, and the agreement of the two
ends. Every safety property that a passing run checks is proved. Next, in this order:

1. `DelayBuffer` and `JitterBuffer`: `pjmedia/src/pjmedia/delaybuf.c`, `jbuf.c`, and the
   bridge's `put_frame` on top of the first.
2. `StunTransaction`: `pjnath/src/pjnath/stun_transaction.c`, timeout against a late
   response and destruction.
3. `InviteSession`: the early states, with descriptions in provisional responses and
   PRACK, and CANCEL against a late 2xx.
