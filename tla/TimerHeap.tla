------------------------------ MODULE TimerHeap ------------------------------
(***************************************************************************)
(* The timer heap of PJLIB (pjlib/src/pj/timer.c), in the configuration of *)
(* the build: copies of the entries (PJ_TIMER_USE_COPY) in a binary heap   *)
(* (no PJ_TIMER_USE_LINKED_LIST).                                          *)
(*                                                                         *)
(* heap[] holds pointers to copies; since the copy of the entry with timer *)
(* id i is timer_dups[i], a pointer is written here as the id, and 0, an   *)
(* id that is never handed out, is the null pointer.  timer_ids[i] is the  *)
(* slot of id i in the heap or, negated, the next free id.                 *)
(*                                                                         *)
(* An operation holds the lock of the heap from its first step to its      *)
(* last; each iteration of reheap_up() and reheap_down() is a step of its  *)
(* own.  What an operation still has to do is in `op`; "unlocked" means    *)
(* that nobody holds the lock.                                             *)
(***************************************************************************)
EXTENDS Integers, Sequences, FiniteSets

CONSTANTS
    Entry,      \* timer entries
    Grouped,    \* those scheduled with the group lock of their owner
    Rewritable, \* those that may be written to while they are scheduled
    Poller,     \* threads that call pj_timer_heap_poll()
    Size,       \* argument of pj_timer_heap_create()
    Delay,      \* delays that are asked for
    MaxTime,    \* bound on the clock
    MaxPerPoll, \* max_entries_per_poll
    MaxCalls,   \* bound on the calls that schedule, cancel, poll and release
    None,       \* no entry
    Idle        \* no deadline

ASSUME HeapAssumption ==
    /\ Grouped \subseteq Entry /\ Rewritable \subseteq Entry
    /\ None \notin Entry
    /\ IsFiniteSet(Poller)
    /\ Poller \cap {"none", "schedule", "cancel"} = {}
    /\ Size \in Nat /\ MaxTime \in Nat /\ MaxPerPoll \in Nat /\ MaxCalls \in Nat
    /\ Delay \subseteq Nat
    /\ Idle \notin Nat

VARIABLES
    now,        \* the tick count
    max_size, cur_size, heap, timer_ids,
    freelist,   \* timer_ids_freelist
    free,       \* history: the ids on the free list, first to last
    dups,       \* timer_dups: entry and _timer_value of each copy
    timer_id,   \* timer_id[e]: the field _timer_id of entry e
    op,         \* the operation that holds the lock
    poll,       \* poll[p]: where poller p is, with its locals
    owned,      \* owned[e]: the owner still holds its own reference
    refs,       \* refs[e]: reference count of the group lock of e's owner
    leaked,     \* history: leaked[e] references that a poll did not give back
    calls       \* how many such calls were made

array == <<max_size, cur_size, heap, timer_ids, freelist, free, dups, timer_id>>
vars == <<now, array, op, poll, owned, refs, leaked, calls>>

HEAP_PARENT(x) == IF x = 0 THEN 0 ELSE (x - 1) \div 2
HEAP_LEFT(x) == x + x + 1

NoDup == [entry |-> None, _timer_value |-> 0]
Value(id) == dups[id]._timer_value
NoOp == [pc |-> "unlocked", node |-> 0, slot |-> 0, entry |-> None, by |-> "none"]
NotPolling == [pc |-> "idle", entry |-> None, now |-> 0, count |-> 0]

pj_timer_entry_running(e) == timer_id[e] >= 1
Unlocked == op.pc = "unlocked"

Init ==
    /\ now = 0
    /\ max_size = Size + 2
    /\ cur_size = 0
    /\ heap = [i \in 0..Size + 1 |-> 0]
    /\ timer_ids = [i \in 0..Size + 1 |-> -(i + 1)]
    /\ freelist = 1
    /\ free = [i \in 1..Size + 1 |-> i]
    /\ dups = [i \in 0..Size + 1 |-> NoDup]
    /\ timer_id = [e \in Entry |-> -1]
    /\ op = NoOp
    /\ poll = [p \in Poller |-> NotPolling]
    /\ owned = [e \in Entry |-> TRUE]
    /\ refs = [e \in Entry |-> 1]
    /\ leaked = [e \in Entry |-> 0]
    /\ calls = 0

(* The tick count is read without the lock or right after it was acquired.  *)
Tick ==
    /\ Unlocked
    /\ now < MaxTime
    /\ now' = now + 1
    /\ UNCHANGED <<array, op, poll, owned, refs, leaked, calls>>

-----------------------------------------------------------------------------
(* Group locks: an owner whose last reference is dropped is destroyed.      *)

pj_grp_lock_add_ref(e) ==
    refs' = IF e \in Grouped THEN [refs EXCEPT ![e] = @ + 1] ELSE refs

pj_grp_lock_dec_ref(e) ==
    refs' = IF e \in Grouped THEN [refs EXCEPT ![e] = @ - 1] ELSE refs

OwnerReleases(e) ==
    /\ e \in Grouped /\ owned[e]
    /\ calls < MaxCalls /\ calls' = calls + 1
    /\ owned' = [owned EXCEPT ![e] = FALSE]
    /\ pj_grp_lock_dec_ref(e)
    /\ UNCHANGED <<now, array, op, poll, leaked>>

-----------------------------------------------------------------------------
(* Insertion.  pop_freelist() comes first; the arrays are doubled when less *)
(* than three slots are left, and the new ids are linked behind the last    *)
(* old one, to which the end of the free list has always pointed.           *)

\* Mutant: the heap grows only when it is full.
MustGrow_AtTheEnd == cur_size + 1 >= max_size

MustGrow == cur_size + 2 >= max_size

NewSize == IF MustGrow THEN 2 * max_size ELSE max_size

Grown(f, new(_)) ==
    [i \in 0..NewSize - 1 |-> IF i < max_size THEN f[i] ELSE new(i)]

grow_heap ==
    /\ max_size' = NewSize
    /\ heap' = Grown(heap, LAMBDA i : 0)
    /\ timer_ids' = Grown(timer_ids, LAMBDA i : -(i + 1))

pop_freelist(e) ==
    /\ timer_id' = [timer_id EXCEPT ![e] = freelist]
    /\ freelist' = -timer_ids[freelist]
    /\ free' = Tail(free) \o [i \in 1..NewSize - max_size |-> max_size + i - 1]

\* Mutant: an entry that is already scheduled is accepted.
NotScheduled_Unchecked(e) == TRUE

NotScheduled(e) == ~ pj_timer_entry_running(e)

(* schedule_w_grp_lock(), schedule_entry() and insert_node() up to its      *)
(* reheap_up().  `called` is when the caller read the tick count, before it *)
(* had the lock.  The caller owns the entry, or is in its callback.         *)
Schedule(e) ==
    /\ Unlocked
    /\ refs[e] > 0
    /\ calls < MaxCalls /\ calls' = calls + 1
    /\ NotScheduled(e)
    /\ pop_freelist(e)
    /\ grow_heap
    /\ \E called \in 0..now, delay \in Delay :
          /\ called + delay <= MaxTime
          /\ dups' = [Grown(dups, LAMBDA i : NoDup) EXCEPT ![freelist] =
                         [entry |-> e, _timer_value |-> called + delay]]
    /\ op' = [pc |-> "up", node |-> freelist, slot |-> cur_size,
              entry |-> e, by |-> "schedule"]
    /\ UNCHANGED <<now, cur_size, poll, owned, refs, leaked>>

-----------------------------------------------------------------------------
(* Reheaping.                                                               *)

copy_node(slot, node) ==
    /\ heap' = [heap EXCEPT ![slot] = node]
    /\ timer_ids' = [timer_ids EXCEPT ![node] = slot]

(* Move the hole to `to`, filling it with the node that is there.           *)
Shift(to) ==
    /\ copy_node(op.slot, heap[to])
    /\ op' = [op EXCEPT !.slot = to]
    /\ UNCHANGED <<now, max_size, cur_size, freelist, free, dups, timer_id,
                   poll, owned, refs, leaked, calls>>

MovesUp ==
    /\ op.pc = "up"
    /\ op.slot > 0
    /\ Value(op.node) < Value(heap[HEAP_PARENT(op.slot)])

ReheapUp == MovesUp /\ Shift(HEAP_PARENT(op.slot))

\* Mutant: the two children are not compared.
Child_Left == HEAP_LEFT(op.slot)

Child ==
    LET left == HEAP_LEFT(op.slot)
    IN  IF left + 1 < cur_size /\ Value(heap[left + 1]) < Value(heap[left])
        THEN left + 1 ELSE left

MovesDown ==
    /\ op.pc = "down"
    /\ HEAP_LEFT(op.slot) < cur_size
    /\ Value(heap[Child]) < Value(op.node)

ReheapDown == MovesDown /\ Shift(Child)

(* The loop ends: the node is put into the hole and the operation goes on.  *)
Reheaped ==
    /\ op.pc \in {"up", "down"} /\ ~ MovesUp /\ ~ MovesDown
    /\ copy_node(op.slot, op.node)
    /\ op' = [op EXCEPT !.pc = "finish"]
    /\ UNCHANGED <<now, max_size, cur_size, freelist, free, dups, timer_id,
                   poll, owned, refs, leaked, calls>>

InsertDone ==
    /\ op.pc = "finish" /\ op.by = "schedule"
    /\ cur_size' = cur_size + 1
    /\ pj_grp_lock_add_ref(op.entry)
    /\ op' = NoOp
    /\ UNCHANGED <<now, max_size, heap, timer_ids, freelist, free, dups,
                   timer_id, poll, owned, leaked, calls>>

-----------------------------------------------------------------------------
(* Removal.  The last node takes the place of the removed one and is moved  *)
(* down or up from there.  The removed copy and the vacated last slot are   *)
(* not read again before they are overwritten; they are emptied here.       *)

\* Mutant: the node moved into the gap is only ever moved down.
GoesDown_Always(moved, slot) == TRUE

GoesDown(moved, slot) ==
    slot = 0 \/ Value(moved) >= Value(heap[HEAP_PARENT(slot)])

push_freelist(id) ==
    /\ freelist' = id
    /\ free' = <<id>> \o free

remove_node(slot, by, entry) ==
    LET id == heap[slot]
        last == cur_size - 1
        moved == heap[last]
        pushed == [timer_ids EXCEPT ![id] = -freelist]
    IN  /\ push_freelist(id)
        /\ cur_size' = last
        /\ timer_id' = [timer_id EXCEPT ![dups[id].entry] = -1]
        /\ dups' = [dups EXCEPT ![id] = NoDup]
        /\ heap' = [[heap EXCEPT ![slot] = moved] EXCEPT ![last] = 0]
        /\ timer_ids' =
              IF slot < last THEN [pushed EXCEPT ![moved] = slot] ELSE pushed
        /\ op' = [pc |-> IF slot = last THEN "finish"
                         ELSE IF GoesDown(moved, slot) THEN "down" ELSE "up",
                  node |-> IF slot < last THEN moved ELSE 0, slot |-> slot,
                  entry |-> entry, by |-> by]
        /\ UNCHANGED max_size

(* cancel() takes an id for one of its own up to max_size, which is no      *)
(* index of the arrays, and goes by what it finds there.                    *)
OutOfRange(e) == timer_id[e] < 0 \/ timer_id[e] > max_size

Cancellable(e) ==
    /\ ~ OutOfRange(e)
    /\ timer_ids[timer_id[e]] >= 0
    /\ dups[heap[timer_ids[timer_id[e]]]].entry = e

(* The group lock that cancel_timer() reads before it knows whether there   *)
(* is a copy: the one in front of timer_dups, which may be anything, for an *)
(* entry that is not scheduled.                                             *)
GrpLockRead(e) ==
    IF timer_id[e] \in DOMAIN dups THEN {dups[timer_id[e]].entry}
    ELSE Entry \cup {None}

(* cancel_timer(), with and without F_SET_ID and F_DONT_ASSERT.             *)
Cancel(e) ==
    /\ Unlocked
    /\ refs[e] > 0
    /\ calls < MaxCalls /\ calls' = calls + 1
    /\ \E grp_lock \in GrpLockRead(e) :
          /\ Cancellable(e)
          /\ remove_node(timer_ids[timer_id[e]], "cancel", grp_lock)
    /\ UNCHANGED <<now, poll, owned, refs, leaked>>

(* For any other entry cancel() returns 0, whether the entry was never      *)
(* scheduled or its callback is about to run, and no group lock is used.    *)
CancelNothing(e) ==
    /\ Unlocked
    /\ refs[e] > 0
    /\ ~ Cancellable(e)
    /\ timer_id' = [timer_id EXCEPT ![e] = -1]
    /\ UNCHANGED <<now, max_size, cur_size, heap, timer_ids, freelist, free, dups,
                   op, poll, owned, refs, leaked, calls>>

\* Mutant: a cancelled entry keeps its reference.
CancelDone_KeepsRef ==
    /\ op.pc = "finish" /\ op.by = "cancel"
    /\ op' = NoOp
    /\ UNCHANGED <<now, array, poll, owned, refs, leaked, calls>>

CancelDone ==
    /\ op.pc = "finish" /\ op.by = "cancel"
    /\ pj_grp_lock_dec_ref(op.entry)
    /\ op' = NoOp
    /\ UNCHANGED <<now, array, poll, owned, leaked, calls>>

-----------------------------------------------------------------------------
(* pj_timer_heap_poll(): the due entries are removed one by one; the lock   *)
(* is released while a callback runs.  `time` is the tick count read when   *)
(* the poll began, `count` the entries it has handled.                      *)

Due(time, count) ==
    /\ cur_size > 0
    /\ Value(heap[0]) <= time
    /\ count < MaxPerPoll

PollTake(p, time, count) ==
    /\ Unlocked
    /\ Due(time, count)
    /\ remove_node(0, p, dups[heap[0]].entry)
    /\ poll' = [poll EXCEPT ![p] = [pc |-> "removing", entry |-> dups[heap[0]].entry,
                                    now |-> time, count |-> count + 1]]
    /\ UNCHANGED <<now, owned, refs, leaked>>

PollBegin(p) ==
    /\ poll[p].pc = "idle"
    /\ calls < MaxCalls /\ calls' = calls + 1
    /\ PollTake(p, now, 0)

(* From here on the callback is about to run, or runs.                      *)
PollUnlock(p) ==
    /\ op.pc = "finish" /\ op.by = p
    /\ op' = NoOp
    /\ poll' = [poll EXCEPT ![p].pc = "callback"]
    /\ UNCHANGED <<now, array, owned, refs, leaked, calls>>

(* "Bug! Polling entry has been deallocated without being cancelled": the   *)
(* application wrote another callback or other user data into the entry     *)
(* between schedule and poll.  It is not called, and the reference of its   *)
(* group lock is not given back.                                            *)
PollSkips(p) ==
    /\ op.pc = "finish" /\ op.by = p
    /\ poll[p].entry \in Rewritable
    /\ op' = NoOp
    /\ leaked' = [leaked EXCEPT ![poll[p].entry] = @ + 1]
    /\ poll' = [poll EXCEPT ![p].pc = "relock", ![p].entry = None]
    /\ UNCHANGED <<now, array, owned, refs, calls>>

CallbackReturns(p) ==
    /\ poll[p].pc = "callback"
    /\ poll' = [poll EXCEPT ![p].pc = "relock", ![p].entry = None]
    /\ pj_grp_lock_dec_ref(poll[p].entry)
    /\ UNCHANGED <<now, array, op, owned, leaked, calls>>

PollAgain(p) ==
    /\ poll[p].pc = "relock"
    /\ PollTake(p, poll[p].now, poll[p].count)
    /\ UNCHANGED calls

PollReturns(p) ==
    /\ Unlocked
    /\ poll[p].pc = "relock"
    /\ ~ Due(poll[p].now, poll[p].count)
    /\ poll' = [poll EXCEPT ![p] = NotPolling]
    /\ UNCHANGED <<now, array, op, owned, refs, leaked, calls>>

Next ==
    \/ Tick
    \/ ReheapUp \/ ReheapDown \/ Reheaped \/ InsertDone \/ CancelDone
    \/ \E e \in Entry :
          OwnerReleases(e) \/ Schedule(e) \/ Cancel(e) \/ CancelNothing(e)
    \/ \E p \in Poller :
          \/ PollBegin(p) \/ PollUnlock(p) \/ PollSkips(p) \/ CallbackReturns(p)
          \/ PollAgain(p) \/ PollReturns(p)

Spec == Init /\ [][Next]_vars

-----------------------------------------------------------------------------
(* Properties.                                                              *)

Ids == 1..max_size - 1
Scheduled == {e \in Entry : timer_id[e] # -1}

(* Every variable has its type; in particular every index stays inside the  *)
(* arrays, which are allocated by pj_timer_heap_create() and grow_heap().   *)
TypeOK ==
    /\ now \in Nat /\ max_size \in Nat \ {0, 1} /\ cur_size \in 0..max_size - 1
    /\ heap \in [0..max_size - 1 -> 0..max_size - 1]
    /\ timer_ids \in [0..max_size - 1 -> Int]
    /\ freelist \in 1..max_size
    /\ free \in Seq(Ids)
    /\ dups \in [0..max_size - 1 -> [entry : Entry \cup {None}, _timer_value : Nat]]
    /\ timer_id \in [Entry -> Ids \cup {-1}]
    /\ op \in [pc : {"unlocked", "up", "down", "finish"}, node : 0..max_size - 1,
               slot : 0..max_size - 1, entry : Entry \cup {None},
               by : {"none", "schedule", "cancel"} \cup Poller]
    /\ poll \in [Poller -> [pc : {"idle", "removing", "callback", "relock"},
                            entry : Entry \cup {None}, now : Nat, count : Nat]]
    /\ owned \in [Entry -> BOOLEAN] /\ refs \in [Entry -> Nat] /\ calls \in Nat
    /\ leaked \in [Entry -> Nat]

(* Whenever the lock is free, no node of the heap expires before its parent *)
(* and every node is where timer_ids[] says: reheap_up() and reheap_down()  *)
(* restore both after an insertion and after a removal in the middle.       *)
HeapOrdered ==
    Unlocked =>
        \A i \in 0..cur_size - 1 :
            /\ Value(heap[HEAP_PARENT(i)]) <= Value(heap[i])
            /\ timer_ids[heap[i]] = i

(* Whenever the lock is free, the nodes of the heap are the copies of the   *)
(* scheduled entries, one each: an entry that is running is found by        *)
(* cancel(), and no id is used twice.                                       *)
HeapHoldsScheduled ==
    Unlocked =>
        /\ Cardinality(Scheduled) = cur_size
        /\ \A e \in Scheduled :
              /\ timer_ids[timer_id[e]] \in 0..cur_size - 1
              /\ heap[timer_ids[timer_id[e]]] = timer_id[e]
              /\ dups[timer_id[e]].entry = e

(* The links in timer_ids[] chain exactly the unused ids, each once, and    *)
(* the last one points just behind the array, where grow_heap() puts the    *)
(* next ids; there is an unused id whenever an operation may pop one.       *)
FreeListChained ==
    /\ freelist = IF free = <<>> THEN max_size ELSE free[1]
    /\ \A k \in 1..Len(free) :
          timer_ids[free[k]] = -(IF k = Len(free) THEN max_size ELSE free[k + 1])
    /\ \A j, k \in 1..Len(free) : free[j] = free[k] => j = k
    /\ \A id \in Ids : (\E k \in 1..Len(free) : free[k] = id) <=>
                          (\A e \in Entry : timer_id[e] # id)
    /\ Unlocked => free # <<>>

(* The group lock of an owner counts the owner, the scheduled entry, every  *)
(* poller that has removed the entry and not finished its callback and, for *)
(* ever, every poll that found the entry rewritten: no callback runs for a  *)
(* destroyed owner, although cancel() returns 0 and the owner lets go while *)
(* the poller is on its way to the callback.                                *)
Users(e) == {p \in Poller : poll[p].entry = e}
RefsExact ==
    Unlocked =>
        \A e \in Grouped :
            refs[e] = (IF owned[e] THEN 1 ELSE 0)
                      + (IF e \in Scheduled THEN 1 ELSE 0) + Cardinality(Users(e))
                      + leaked[e]

(* The heap implements the queue of deadlines: entries expire in the order  *)
(* of their deadlines, never early, at most once per schedule and not after *)
(* a cancel() that returned 1.                                              *)
Queue == INSTANCE TimerQueue WITH
    deadline <- [e \in Entry |-> IF timer_id[e] = -1 THEN Idle
                                 ELSE Value(timer_id[e])],
    firing <- [p \in Poller |-> poll[p].entry]
ImplementsQueue == Queue!Spec
=============================================================================
