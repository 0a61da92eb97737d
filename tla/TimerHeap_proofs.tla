-------------------------- MODULE TimerHeap_proofs --------------------------
(***************************************************************************)
(* Proofs about TimerHeap, for any entries, any finite set of pollers, any *)
(* initial size and any bounds.                                            *)
(***************************************************************************)
EXTENDS TimerHeap, SequenceTheorems, FiniteSetTheorems, WellFoundedInduction, TLAPS

-----------------------------------------------------------------------------
(* The order of a binary heap, given the values V of its n slots.           *)

Sorted(V, n) == \A i \in 1..n - 1 : V[HEAP_PARENT(i)] <= V[i]

(* The slot s is a hole: the others are in order, also across it.           *)
Around(V, n, s) ==
    \A i \in 1..n - 1 :
        /\ i # s /\ HEAP_PARENT(i) # s => V[HEAP_PARENT(i)] <= V[i]
        /\ HEAP_PARENT(i) = s /\ s # 0 => V[HEAP_PARENT(s)] <= V[i]

(* A node of value x that is on its way up fits above the children of the   *)
(* hole; one on its way down fits below the parent.                         *)
Rising(V, n, s, x) ==
    /\ Around(V, n, s)
    /\ \A i \in 1..n - 1 : HEAP_PARENT(i) = s => x <= V[i]

Sinking(V, n, s, x) ==
    /\ Around(V, n, s)
    /\ s # 0 => V[HEAP_PARENT(s)] <= x

(* The parent of a slot, and the two slots that have it as parent.          *)
LEMMA Parent ==
    ASSUME NEW i \in Nat \ {0}
    PROVE  /\ HEAP_PARENT(i) \in Nat /\ HEAP_PARENT(i) < i
           /\ \A s \in Nat : HEAP_PARENT(i) = s <=> i = s + s + 1 \/ i = s + s + 2
BY DEF HEAP_PARENT

(* A nonempty set of naturals has a least element.                          *)
LEMMA Least ==
    ASSUME NEW T, T \subseteq Nat, T # {}
    PROVE  \E x \in T : \A y \in T : x <= y
<1>1. PICK x \in T : \A y \in T : ~ (<<y, x>> \in OpToRel(<, Nat))
  BY WFMin, NatLessThanWellFounded, Zenon
<1>2. \A y \in T : ~ (y < x)
  BY <1>1 DEF OpToRel
<1> QED BY <1>2

(* Nothing in a heap is less than its root.                                 *)
LEMMA RootIsLeast ==
    ASSUME NEW m \in Nat, NEW V \in [0..m - 1 -> Nat], NEW n \in 0..m, Sorted(V, n),
           NEW j \in 0..n - 1
    PROVE  V[0] <= V[j]
<1> DEFINE T == {i \in 0..n - 1 : V[i] < V[0]}
<1>0. V[0] \in Nat /\ V[j] \in Nat
  OBVIOUS
<1> SUFFICES ASSUME ~ (V[0] <= V[j]) PROVE FALSE
  OBVIOUS
<1>b. j \in T
  BY <1>0
<1>a. T # {} /\ T \subseteq Nat
  <2>1. T \subseteq Nat
    OBVIOUS
  <2> HIDE DEF T
  <2> QED BY <1>b, <2>1
<1>1. PICK i \in T : \A k \in T : i <= k
  BY <1>a, Least
<1>2. i \in 1..n - 1
  BY <1>1
<1>3. HEAP_PARENT(i) \in 0..n - 1 /\ HEAP_PARENT(i) < i
  BY <1>2, Parent
<1>4. V[HEAP_PARENT(i)] <= V[i]
  BY <1>2 DEF Sorted
<1>5. HEAP_PARENT(i) \in T
  BY <1>1, <1>2, <1>3, <1>4
<1> QED BY <1>1, <1>3, <1>5

-----------------------------------------------------------------------------
(* One iteration of a loop, its end, and the removal and insertion of a     *)
(* slot keep the order.                                                     *)

(* reheap_up(): the parent moves down into the hole.                        *)
LEMMA RisesOn ==
    ASSUME NEW m \in Nat, NEW V \in [0..m - 1 -> Nat], NEW n \in 0..m,
           NEW s \in 1..n - 1, NEW x \in Nat,
           Rising(V, n, s, x), x < V[HEAP_PARENT(s)]
    PROVE  Rising([V EXCEPT ![s] = V[HEAP_PARENT(s)]], n, HEAP_PARENT(s), x)
<1> DEFINE r == HEAP_PARENT(s)
           W == [V EXCEPT ![s] = V[r]]
<1>1. r \in 0..n - 1 /\ r < s
  BY Parent
<1>2. SUFFICES ASSUME NEW i \in 1..n - 1
               PROVE  /\ i # r /\ HEAP_PARENT(i) # r => W[HEAP_PARENT(i)] <= W[i]
                      /\ HEAP_PARENT(i) = r /\ r # 0 => W[HEAP_PARENT(r)] <= W[i]
                      /\ HEAP_PARENT(i) = r => x <= W[i]
  BY DEF Rising, Around
<1> DEFINE q == HEAP_PARENT(i)
<1>3. q \in 0..n - 1 /\ q < i
  BY Parent
<1>a. V[q] \in Nat /\ V[i] \in Nat /\ V[r] \in Nat
  BY <1>1, <1>3
<1>4. /\ i # s /\ q # s => V[q] <= V[i]
      /\ q = s => V[r] <= V[i]
      /\ i = s => q = r
  BY DEF Rising, Around
<1>5. i # r /\ q # r => W[q] <= W[i]
  BY <1>1, <1>3, <1>a, <1>4
<1>6. W[i] = V[i] \/ W[i] = V[r]
  BY <1>1
<1>7. q = r /\ i # s => V[r] <= V[i]
  BY <1>1, <1>3, <1>4
<1>8. q = r => V[r] <= W[i]
  BY <1>a, <1>6, <1>7
<1>9. ASSUME r # 0 PROVE W[HEAP_PARENT(r)] <= V[r] /\ W[HEAP_PARENT(r)] \in Nat
  <2>0. r \in Nat \ {0} /\ r \in 1..n - 1 /\ r # s
    BY <1>1, <1>9
  <2> HIDE DEF r
  <2>a. HEAP_PARENT(r) \in Nat /\ HEAP_PARENT(r) < r
    BY <2>0, Parent
  <2>1. /\ HEAP_PARENT(r) \in 0..n - 1 /\ HEAP_PARENT(r) < r /\ r \in 1..n - 1
        /\ HEAP_PARENT(r) # s
    BY <1>1, <2>0, <2>a
  <2>2. V[HEAP_PARENT(r)] <= V[r]
    BY <2>0, <2>1 DEF Rising, Around
  <2>3. W[HEAP_PARENT(r)] = V[HEAP_PARENT(r)]
    BY <1>1, <2>1
  <2> QED BY <2>1, <2>2, <2>3
<1>10. q = r /\ r # 0 => W[HEAP_PARENT(r)] <= W[i]
  BY <1>a, <1>6, <1>8, <1>9
<1>11. q = r => x <= W[i]
  BY <1>a, <1>6, <1>8
<1> QED BY <1>5, <1>10, <1>11

(* reheap_up() ends at the root or below a parent that is not greater.      *)
LEMMA RisesEnd ==
    ASSUME NEW m \in Nat, NEW V \in [0..m - 1 -> Nat], NEW n \in 0..m,
           NEW s \in 0..n - 1, NEW x \in Nat,
           Rising(V, n, s, x), s = 0 \/ V[HEAP_PARENT(s)] <= x
    PROVE  Sorted([V EXCEPT ![s] = x], n)
<1> DEFINE W == [V EXCEPT ![s] = x]
<1> SUFFICES ASSUME NEW i \in 1..n - 1 PROVE W[HEAP_PARENT(i)] <= W[i]
  BY DEF Sorted
<1> DEFINE q == HEAP_PARENT(i)
<1>1. q \in 0..n - 1 /\ q < i
  BY Parent
<1>2. /\ i # s /\ q # s => V[q] <= V[i]
      /\ q = s => x <= V[i]
      /\ i = s => V[q] <= x
  BY DEF Rising, Around
<1> QED BY <1>1, <1>2

(* reheap_down(): the lesser child moves up into the hole.                  *)
LEMMA SinksOn ==
    ASSUME NEW m \in Nat, NEW V \in [0..m - 1 -> Nat], NEW n \in 0..m,
           NEW s \in 0..n - 1, NEW x \in Nat, NEW c \in 1..n - 1,
           Sinking(V, n, s, x), HEAP_PARENT(c) = s, V[c] < x,
           \A i \in 1..n - 1 : HEAP_PARENT(i) = s => V[c] <= V[i]
    PROVE  Sinking([V EXCEPT ![s] = V[c]], n, c, x)
<1> DEFINE W == [V EXCEPT ![s] = V[c]]
<1>1. s < c
  BY Parent
<1>2. W[s] <= x /\ c # 0
  BY <1>1
<1>3. SUFFICES ASSUME NEW i \in 1..n - 1
               PROVE  /\ i # c /\ HEAP_PARENT(i) # c => W[HEAP_PARENT(i)] <= W[i]
                      /\ HEAP_PARENT(i) = c => W[s] <= W[i]
  BY <1>2 DEF Sinking, Around
<1> DEFINE q == HEAP_PARENT(i)
<1>4. q \in 0..n - 1 /\ q < i /\ V[q] \in Nat /\ V[i] \in Nat /\ V[c] \in Nat
  BY Parent
<1>5. /\ i # s /\ q # s => V[q] <= V[i]
      /\ q = s => V[c] <= V[i]
  BY DEF Sinking, Around
<1>6. i = s => V[q] <= V[c]
  BY DEF Sinking, Around
<1>7. i # c /\ q # c => W[q] <= W[i]
  BY <1>1, <1>4, <1>5, <1>6
<1>8. q = c => W[s] <= W[i]
  BY <1>1, <1>4, <1>5
<1> QED BY <1>7, <1>8

(* reheap_down() ends above children that are not less.                     *)
LEMMA SinksEnd ==
    ASSUME NEW m \in Nat, NEW V \in [0..m - 1 -> Nat], NEW n \in 0..m,
           NEW s \in 0..n - 1, NEW x \in Nat, Sinking(V, n, s, x),
           \A i \in 1..n - 1 : HEAP_PARENT(i) = s => x <= V[i]
    PROVE  Sorted([V EXCEPT ![s] = x], n)
<1> DEFINE W == [V EXCEPT ![s] = x]
<1> SUFFICES ASSUME NEW i \in 1..n - 1 PROVE W[HEAP_PARENT(i)] <= W[i]
  BY DEF Sorted
<1> DEFINE q == HEAP_PARENT(i)
<1>1. q \in 0..n - 1 /\ q < i
  BY Parent
<1>2. /\ i # s /\ q # s => V[q] <= V[i]
      /\ q = s => x <= V[i]
      /\ i = s => V[q] <= x
  BY DEF Sinking, Around
<1> QED BY <1>1, <1>2

(* A new slot at the end.                                                   *)
LEMMA InsertRises ==
    ASSUME NEW m \in Nat, NEW V \in [0..m - 1 -> Nat], NEW n \in 0..m, Sorted(V, n),
           NEW W, \A i \in 0..n - 1 : W[i] = V[i], NEW x
    PROVE  Rising(W, n + 1, n, x)
<1> SUFFICES ASSUME NEW i \in 1..n
             PROVE  /\ i # n /\ HEAP_PARENT(i) # n => W[HEAP_PARENT(i)] <= W[i]
                    /\ HEAP_PARENT(i) # n
  BY DEF Rising, Around
<1>1. HEAP_PARENT(i) \in 0..n - 1
  BY Parent
<1>2. i # n => V[HEAP_PARENT(i)] <= V[i]
  BY DEF Sorted
<1> QED BY <1>1, <1>2

(* The last node takes the place of the one removed from slot s.            *)
LEMMA RemoveAround ==
    ASSUME NEW m \in Nat, NEW V \in [0..m - 1 -> Nat], NEW n \in 1..m, Sorted(V, n),
           NEW s \in 0..n - 2,
           NEW W, \A i \in 0..n - 2 : i # s => W[i] = V[i], NEW x \in Nat
    PROVE  /\ s # 0 => W[HEAP_PARENT(s)] = V[HEAP_PARENT(s)]
           /\ s = 0 \/ V[HEAP_PARENT(s)] <= x => Sinking(W, n - 1, s, x)
           /\ s # 0 /\ x <= V[HEAP_PARENT(s)] => Rising(W, n - 1, s, x)
<1>1. s # 0 => /\ HEAP_PARENT(s) \in 0..n - 2 /\ HEAP_PARENT(s) # s
               /\ W[HEAP_PARENT(s)] = V[HEAP_PARENT(s)]
               /\ V[HEAP_PARENT(s)] <= V[s] /\ V[HEAP_PARENT(s)] \in Nat
  BY Parent DEF Sorted
<1>2. ASSUME NEW i \in 1..n - 2
      PROVE  /\ i # s /\ HEAP_PARENT(i) # s => W[HEAP_PARENT(i)] <= W[i]
             /\ HEAP_PARENT(i) = s => V[s] <= W[i] /\ W[i] \in Nat
  <2>1. HEAP_PARENT(i) \in 0..n - 2 /\ HEAP_PARENT(i) # i
    BY Parent
  <2>2. V[HEAP_PARENT(i)] <= V[i]
    BY DEF Sorted
  <2>3. i # s => W[i] = V[i]
    OBVIOUS
  <2>4. HEAP_PARENT(i) # s => W[HEAP_PARENT(i)] = V[HEAP_PARENT(i)]
    BY <2>1
  <2> QED BY <2>1, <2>2, <2>3, <2>4
<1>3. V[s] \in Nat
  OBVIOUS
<1>4. Around(W, n - 1, s)
  <2> SUFFICES ASSUME NEW i \in 1..n - 2
               PROVE  /\ i # s /\ HEAP_PARENT(i) # s => W[HEAP_PARENT(i)] <= W[i]
                      /\ HEAP_PARENT(i) = s /\ s # 0 => W[HEAP_PARENT(s)] <= W[i]
    BY DEF Around
  <2> QED BY <1>1, <1>2, <1>3
<1>5. s = 0 \/ V[HEAP_PARENT(s)] <= x => Sinking(W, n - 1, s, x)
  BY <1>1, <1>4 DEF Sinking
<1>6. s # 0 /\ x <= V[HEAP_PARENT(s)] => Rising(W, n - 1, s, x)
  <2> SUFFICES ASSUME s # 0, x <= V[HEAP_PARENT(s)], NEW i \in 1..n - 2,
                      HEAP_PARENT(i) = s
               PROVE  x <= W[i]
    BY <1>4 DEF Rising
  <2> QED BY <1>1, <1>2, <1>3
<1> QED BY <1>1, <1>5, <1>6

(* Without its last slot a heap is still one.                               *)
LEMMA RemoveLast ==
    ASSUME NEW m \in Nat, NEW V, NEW n \in 1..m, Sorted(V, n),
           NEW W, \A i \in 0..n - 2 : W[i] = V[i]
    PROVE  Sorted(W, n - 1)
<1> SUFFICES ASSUME NEW i \in 1..n - 2 PROVE W[HEAP_PARENT(i)] <= W[i]
  BY DEF Sorted
<1>1. HEAP_PARENT(i) \in 0..n - 2
  BY Parent
<1>2. V[HEAP_PARENT(i)] <= V[i]
  BY DEF Sorted
<1> QED BY <1>1, <1>2

-----------------------------------------------------------------------------
(* The inductive invariant.                                                 *)

(* The nodes of the heap, one that is being inserted included.              *)
Count == IF op.by = "schedule" THEN cur_size + 1 ELSE cur_size

(* A reheap loop has taken op.node out and left a hole at op.slot.          *)
Hole == op.pc \in {"up", "down"}
Placed == {i \in 0..Count - 1 : ~ (Hole /\ i = op.slot)}

ArrayType ==
    /\ max_size \in Nat \ {0, 1} /\ cur_size \in Nat
    /\ heap \in [0..max_size - 1 -> 0..max_size - 1]
    /\ timer_ids \in [0..max_size - 1 -> Int]
    /\ freelist \in 1..max_size
    /\ free \in Seq(Ids)
    /\ dups \in [0..max_size - 1 -> [entry : Entry \cup {None}, _timer_value : Nat]]
    /\ timer_id \in [Entry -> Ids \cup {-1}]

OpType ==
    /\ op \in [pc : {"unlocked", "up", "down", "finish"}, node : 0..max_size - 1,
               slot : 0..max_size - 1, entry : Entry \cup {None},
               by : {"none", "schedule", "cancel"} \cup Poller]
    /\ op.pc = "unlocked" <=> op.by = "none"
    /\ op.pc = "down" => op.by # "schedule"

(* The id belongs to the entry in its copy.                                 *)
OwnId(id) == id \in Ids /\ dups[id].entry \in Entry /\ timer_id[dups[id].entry] = id

Lifted == Hole => OwnId(op.node) /\ op.slot \in 0..Count - 1

Located ==
    \A i \in Placed :
        OwnId(heap[i]) /\ timer_ids[heap[i]] = i /\ (Hole => heap[i] # op.node)

Found ==
    \A e \in Scheduled :
        /\ dups[timer_id[e]].entry = e
        /\ \/ Hole /\ timer_id[e] = op.node
           \/ /\ timer_ids[timer_id[e]] \in Placed
              /\ heap[timer_ids[timer_id[e]]] = timer_id[e]

(* The free list, with as many ids as are not used.                         *)
Linked ==
    /\ freelist = IF free = <<>> THEN max_size ELSE free[1]
    /\ \A k \in 1..Len(free) :
          timer_ids[free[k]] = -(IF k = Len(free) THEN max_size ELSE free[k + 1])
Distinct == \A j, k \in 1..Len(free) : free[j] = free[k] => j = k
Unused ==
    \A id \in Ids : (\E k \in 1..Len(free) : free[k] = id) <=>
                        (\A e \in Entry : timer_id[e] # id)
Room == Len(free) = max_size - 1 - Count /\ Count + 2 <= max_size

Values == [i \in 0..max_size - 1 |-> Value(heap[i])]
Order ==
    /\ op.pc = "up" => Rising(Values, Count, op.slot, Value(op.node))
    /\ op.pc = "down" => Sinking(Values, Count, op.slot, Value(op.node))
    /\ ~ Hole => Sorted(Values, Count)

Counted == IsFiniteSet(Scheduled) /\ Cardinality(Scheduled) = Count

Places == Lifted /\ Located /\ Found
FreeIds == Linked /\ Distinct /\ Unused /\ Room
Structure == ArrayType /\ OpType /\ Places /\ FreeIds /\ Counted

(* The heap holds a reference of the group lock of e's owner.               *)
InHeap(e) ==
    \/ e \in Scheduled /\ ~ (op.by = "schedule" /\ op.entry = e)
    \/ op.by = "cancel" /\ op.entry = e
RefsHeld ==
    \A e \in Grouped :
        refs[e] = (IF owned[e] THEN 1 ELSE 0) + (IF InHeap(e) THEN 1 ELSE 0)
                  + Cardinality(Users(e)) + leaked[e]

Threads ==
    /\ op.by = "schedule" => op.entry \in Scheduled
    /\ op.by = "cancel" => op.entry \in Entry \ Scheduled
    /\ \A p \in Poller :
          /\ op.by = p <=> poll[p].pc = "removing"
          /\ poll[p].entry = None <=> poll[p].pc \in {"idle", "relock"}
          /\ poll[p].now <= now

OtherType ==
    /\ now \in Nat
    /\ poll \in [Poller -> [pc : {"idle", "removing", "callback", "relock"},
                            entry : Entry \cup {None}, now : Nat, count : Nat]]
    /\ owned \in [Entry -> BOOLEAN] /\ refs \in [Entry -> Int] /\ calls \in Nat
    /\ \A e \in Entry \ Grouped : refs[e] \in Nat
    /\ leaked \in [Entry -> Nat]

Rest == RefsHeld /\ Threads /\ OtherType
IndInv == Structure /\ Order /\ Rest

-----------------------------------------------------------------------------
(* An iteration of a reheap loop moves the hole from op.slot to the slot    *)
(* `to` and the node there the other way.                                   *)

(* What most steps need of the arrays.                                      *)
LEMMA Basics ==
    ASSUME Structure
    PROVE  /\ Count \in Nat /\ max_size \in Nat /\ Count + 2 <= max_size
           /\ heap \in [0..max_size - 1 -> 0..max_size - 1]
           /\ timer_ids \in [0..max_size - 1 -> Int]
           /\ Ids = 1..max_size - 1
           /\ \A e \in Scheduled : e \in Entry /\ timer_id[e] \in Ids
           /\ \A j \in 1..Len(free) : free[j] \in Ids
           /\ \A id : OwnId(id) => id \in Ids
<1>1. Count \in Nat /\ max_size \in Nat /\ Count + 2 <= max_size
  <2>1. max_size \in Nat /\ cur_size \in Nat /\ Room
    BY DEF Structure, FreeIds, ArrayType
  <2> QED BY <2>1 DEF Room, Count
<1>2. /\ heap \in [0..max_size - 1 -> 0..max_size - 1]
      /\ timer_ids \in [0..max_size - 1 -> Int] /\ Ids = 1..max_size - 1
  BY DEF Structure, ArrayType, Ids
<1>3. \A e \in Scheduled : e \in Entry /\ timer_id[e] \in Ids
  BY DEF Structure, ArrayType, Scheduled
<1>4. \A j \in 1..Len(free) : free[j] \in Ids
  BY DEF Structure, ArrayType
<1>5. \A id : OwnId(id) => id \in Ids
  BY DEF OwnId
<1> QED BY <1>1, <1>2, <1>3, <1>4, <1>5

(* Moving one node keeps the arrays and the free list consistent.           *)
LEMMA Shifted ==
    ASSUME Structure, Hole, NEW to \in Placed, Shift(to)
    PROVE  /\ Structure' /\ op'.slot = to /\ op'.pc = op.pc /\ op'.node = op.node
           /\ Count' = Count /\ Values' = [Values EXCEPT ![op.slot] = Values[to]]
<1> DEFINE k == heap[to]
           s == op.slot
<1>0. /\ Count \in Nat /\ max_size \in Nat /\ Count + 2 <= max_size
      /\ heap \in [0..max_size - 1 -> 0..max_size - 1]
      /\ timer_ids \in [0..max_size - 1 -> Int] /\ Ids = 1..max_size - 1
  BY Basics
<1>1. /\ to \in 0..Count - 1 /\ to # s /\ OwnId(k) /\ timer_ids[k] = to /\ k # op.node
      /\ OwnId(op.node) /\ s \in 0..Count - 1
  BY DEF Structure, Placed, Places, Located, Lifted
<1>2. /\ heap' = [heap EXCEPT ![s] = k] /\ timer_ids' = [timer_ids EXCEPT ![k] = s]
      /\ max_size' = max_size /\ cur_size' = cur_size /\ freelist' = freelist
      /\ free' = free /\ dups' = dups /\ timer_id' = timer_id
  BY DEF Shift, copy_node
<1>3. /\ op'.pc = op.pc /\ op'.node = op.node /\ op'.slot = to
      /\ op'.by = op.by /\ op'.entry = op.entry
  BY DEF Shift, Structure, OpType
<1>b. k = heap[to] /\ s = op.slot
  OBVIOUS
<1> HIDE DEF k, s
<1>4. Count' = Count /\ Hole'
  BY <1>2, <1>3 DEF Count, Hole
<1>5. \A i : i \in Placed' <=> i \in 0..Count - 1 /\ i # to
  BY <1>3, <1>4 DEF Placed
<1>6. Ids' = Ids /\ Scheduled' = Scheduled /\ \A id : OwnId(id)' <=> OwnId(id)
  BY <1>2 DEF Ids, Scheduled, OwnId
<1>7. /\ k \in Ids /\ s \in 0..max_size - 1 /\ to \in 0..max_size - 1
      /\ k \in 0..max_size - 1
  BY <1>0, <1>1 DEF OwnId
<1>a. /\ heap' \in [0..max_size - 1 -> 0..max_size - 1]
      /\ timer_ids' \in [0..max_size - 1 -> Int]
      /\ heap'[s] = k /\ \A i \in 0..max_size - 1 : i # s => heap'[i] = heap[i]
      /\ timer_ids'[k] = s
      /\ \A id \in 0..max_size - 1 : id # k => timer_ids'[id] = timer_ids[id]
  <2>1. s \in Int
    BY <1>7
  <2>2. heap' \in [0..max_size - 1 -> 0..max_size - 1]
    BY <1>0, <1>2, <1>7
  <2>3. timer_ids' \in [0..max_size - 1 -> Int]
    BY <1>0, <1>2, <1>7, <2>1
  <2>4. heap'[s] = k /\ \A i \in 0..max_size - 1 : i # s => heap'[i] = heap[i]
    BY <1>0, <1>2, <1>7
  <2>5. /\ timer_ids'[k] = s
        /\ \A id \in 0..max_size - 1 : id # k => timer_ids'[id] = timer_ids[id]
    BY <1>0, <1>2, <1>7
  <2> QED BY <2>2, <2>3, <2>4, <2>5
<1>8. ArrayType'
  BY <1>a, <1>2, <1>6 DEF Structure, ArrayType
<1>9. OpType'
  <2>1. op' = [op EXCEPT !.slot = to]
    BY DEF Shift
  <2> QED BY <2>1, <1>2, <1>3, <1>7 DEF Structure, OpType
<1>10. Lifted'
  BY <1>1, <1>3, <1>4, <1>6 DEF Lifted
<1>11. Located'
  <2> SUFFICES ASSUME NEW i \in Placed'
               PROVE  OwnId(heap'[i]) /\ timer_ids'[heap'[i]] = i /\ heap'[i] # op.node
    BY <1>3, <1>6 DEF Located
  <2>1. CASE i = s
    BY <1>1, <1>a, <2>1
  <2>2. CASE i # s
    <3>1. i \in Placed
      BY <1>5, <1>b, <2>2 DEF Placed
    <3>2. OwnId(heap[i]) /\ timer_ids[heap[i]] = i /\ heap[i] # op.node
      BY <3>1 DEF Structure, Places, Located
    <3>3. i \in 0..max_size - 1 /\ i # to
      BY <1>0, <1>5
    <3>5. heap'[i] = heap[i]
      BY <1>a, <2>2, <3>3
    <3>4. heap[i] # k /\ heap[i] \in 0..max_size - 1
      BY <1>0, <1>1, <3>2, <3>3 DEF OwnId
    <3> QED BY <1>a, <3>2, <3>4, <3>5
  <2> QED BY <2>1, <2>2
<1>12. Found'
  <2> SUFFICES ASSUME NEW e \in Scheduled
               PROVE  /\ dups[timer_id[e]].entry = e
                      /\ \/ timer_id[e] = op.node
                         \/ /\ timer_ids'[timer_id[e]] \in Placed'
                            /\ heap'[timer_ids'[timer_id[e]]] = timer_id[e]
    BY <1>2, <1>3, <1>4, <1>6 DEF Found
  <2> DEFINE id == timer_id[e]
             i == timer_ids[id]
  <2>0. id \in Ids
    BY Basics
  <2>1. /\ dups[id].entry = e
        /\ id = op.node \/ (i \in Placed /\ heap[i] = id)
    <3>1. Found
      BY DEF Structure, Places
    <3> QED BY <3>1 DEF Found
  <2> HIDE DEF id, i
  <2>b. id = timer_id[e] /\ i = timer_ids[id]
    BY DEF id, i
  <2>2. CASE id = op.node
    BY <2>1, <2>2, <2>b
  <2>3. CASE id = k
    BY <1>1, <1>5, <1>a, <2>1, <2>3, <2>b
  <2>4. CASE id # op.node /\ id # k
    <3>1. i \in 0..Count - 1 /\ i # s /\ heap[i] = id
      BY <1>b, <2>1, <2>4 DEF Placed, Hole
    <3>2. i # to
      BY <1>b, <2>4, <3>1
    <3>3. timer_ids'[id] = i /\ heap'[i] = id
      <4>1. id \in 0..max_size - 1 /\ i \in 0..max_size - 1
        BY <1>0, <2>0, <3>1
      <4>2. timer_ids'[id] = timer_ids[id] /\ heap'[i] = heap[i]
        BY <1>a, <2>4, <3>1, <4>1
      <4> QED BY <3>1, <4>2, <2>b
    <3> QED BY <1>5, <2>1, <2>b, <3>1, <3>2, <3>3
  <2> QED BY <2>2, <2>3, <2>4
<1>13. FreeIds'
  <2>1. Distinct' /\ Unused' /\ Room'
    BY <1>2, <1>4, <1>6 DEF Structure, FreeIds, Distinct, Unused, Room
  <2>2. \A j \in 1..Len(free) : free[j] \in Ids /\ free[j] # k
    <3> SUFFICES ASSUME NEW j \in 1..Len(free) PROVE free[j] \in Ids /\ free[j] # k
      OBVIOUS
    <3>1. free[j] \in Ids
      BY Basics
    <3>2. \A e \in Entry : timer_id[e] # free[j]
      BY <3>1 DEF Structure, FreeIds, Unused
    <3> QED BY <1>1, <3>1, <3>2 DEF OwnId
  <2>3. \A j \in 1..Len(free) : timer_ids'[free[j]] = timer_ids[free[j]]
    <3>1. \A j \in 1..Len(free) : free[j] \in 0..max_size - 1
      BY <1>0, <2>2
    <3> QED BY <1>a, <2>2, <3>1
  <2>4. Linked'
    BY <1>2, <2>3 DEF Structure, FreeIds, Linked
  <2> QED BY <2>1, <2>4 DEF FreeIds
<1>14. Counted'
  BY <1>4, <1>6 DEF Structure, Counted
<1>15. Values' = [Values EXCEPT ![s] = Values[to]]
  <2>1. \A i \in 0..max_size - 1 :
           Value(heap[i])' = IF i = s THEN Value(k) ELSE Value(heap[i])
    BY <1>a, <1>2 DEF Value
  <2>2. Values' = [i \in 0..max_size - 1 |-> IF i = s THEN Value(k) ELSE Value(heap[i])]
    BY <1>2, <2>1 DEF Values
  <2> QED BY <1>7, <1>b, <2>2 DEF Values
<1> QED BY <1>3, <1>4, <1>8, <1>9, <1>10, <1>11, <1>12, <1>13, <1>14, <1>15, <1>b
          DEF Structure, Places

(* The values of the slots are times.                                       *)
LEMMA ValuesType ==
    ASSUME Structure
    PROVE  /\ Values \in [0..max_size - 1 -> Nat]
           /\ \A id \in 0..max_size - 1 : Value(id) \in Nat
           /\ \A i \in 0..max_size - 1 : Values[i] = Value(heap[i])
           /\ op.node \in 0..max_size - 1
<1>1. /\ heap \in [0..max_size - 1 -> 0..max_size - 1]
      /\ dups \in [0..max_size - 1 -> [entry : Entry \cup {None}, _timer_value : Nat]]
      /\ op.node \in 0..max_size - 1
  BY DEF Structure, ArrayType, OpType
<1>2. \A id \in 0..max_size - 1 : Value(id) \in Nat
  BY <1>1 DEF Value
<1>3. \A i \in 0..max_size - 1 : Value(heap[i]) \in Nat
  BY <1>1, <1>2
<1> QED BY <1>1, <1>2, <1>3 DEF Values

(* An iteration of reheap_up() keeps the order apart from the hole.         *)
LEMMA UpStep ==
    ASSUME Structure, Order, ReheapUp
    PROVE  Structure' /\ Order'
<1> DEFINE s == op.slot
           x == Value(op.node)
           r == HEAP_PARENT(s)
<1>0. /\ Count \in Nat /\ max_size \in Nat /\ Count + 2 <= max_size
  BY Basics
<1>1. op.pc = "up" /\ Hole /\ s \in 1..Count - 1
  BY <1>0 DEF ReheapUp, MovesUp, Hole, Structure, Places, Lifted
<1>2. r \in 0..Count - 1 /\ r < s /\ r \in 0..max_size - 1
  BY <1>0, <1>1, Parent
<1>3. r \in Placed
  BY <1>0, <1>1, <1>2 DEF Placed
<1>4. /\ Structure' /\ op'.slot = r /\ op'.pc = op.pc /\ op'.node = op.node
      /\ Count' = Count /\ Values' = [Values EXCEPT ![s] = Values[r]]
  BY <1>1, <1>3, Shifted DEF ReheapUp
<1>5. /\ Values \in [0..max_size - 1 -> Nat] /\ x \in Nat /\ x < Values[r]
  BY <1>2, ValuesType DEF ReheapUp, MovesUp
<1>6. Value(op.node)' = x
  BY <1>4 DEF ReheapUp, Shift, Value
<1>7. Rising(Values, Count, s, x)
  BY <1>1 DEF Order
<1> HIDE DEF s, x
<1>8. Rising([Values EXCEPT ![s] = Values[r]], Count, r, x)
  <2>1. Count \in 0..max_size
    BY <1>0
  <2> QED BY <1>0, <1>1, <1>5, <1>7, <2>1, RisesOn
<1>9. Rising(Values, Count, op.slot, Value(op.node))'
  BY <1>4, <1>6, <1>8
<1> QED BY <1>1, <1>4, <1>9 DEF Order, Hole

(* An iteration of reheap_down() does.                                      *)
LEMMA DownStep ==
    ASSUME Structure, Order, ReheapDown
    PROVE  Structure' /\ Order'
<1> DEFINE s == op.slot
           x == Value(op.node)
           c == Child
<1>1. op.pc = "down" /\ Hole
  BY DEF ReheapDown, MovesDown, Hole
<1>0. Count \in Nat /\ max_size \in Nat /\ Count + 2 <= max_size /\ cur_size = Count
  BY <1>1, Basics DEF Count, Structure, OpType
<1>2. s \in 0..Count - 1
  BY <1>1 DEF Structure, Places, Lifted
<1>3. s + s + 1 < Count /\ Value(heap[c]) < x
  BY <1>0 DEF ReheapDown, MovesDown, HEAP_LEFT
<1>4. c = IF s + s + 2 < Count /\ Value(heap[s + s + 2]) < Value(heap[s + s + 1])
          THEN s + s + 2 ELSE s + s + 1
  <2>1. s + s + 1 + 1 = s + s + 2
    BY <1>0, <1>2
  <2> QED BY <1>0, <2>1 DEF Child, HEAP_LEFT
<1>5. x \in Nat /\ Values \in [0..max_size - 1 -> Nat]
  BY ValuesType
<1>6. Sinking(Values, Count, s, x)
  BY <1>1 DEF Order
<1>x. s = op.slot /\ x = Value(op.node) /\ c = Child
  OBVIOUS
<1> HIDE DEF s, x, c
<1>7. c \in 1..Count - 1 /\ HEAP_PARENT(c) = s
  <2>1. c \in 1..Count - 1 /\ (c = s + s + 1 \/ c = s + s + 2)
    BY <1>0, <1>2, <1>3, <1>4
  <2>2. s \in Nat /\ c \in Nat \ {0}
    BY <1>2, <2>1
  <2> QED BY <2>1, <2>2, Parent
<1>8. \A i \in 1..Count - 1 : HEAP_PARENT(i) = s => Values[c] <= Values[i]
  <2> SUFFICES ASSUME NEW i \in 1..Count - 1, HEAP_PARENT(i) = s
               PROVE  Values[c] <= Values[i]
    OBVIOUS
  <2>1. i = s + s + 1 \/ i = s + s + 2
    BY <1>0, <1>2, Parent
  <2>2. \A j \in 0..Count - 1 : Values[j] = Value(heap[j]) /\ Values[j] \in Nat
    BY <1>0, ValuesType
  <2>3. s + s + 1 \in 0..Count - 1
    BY <1>0, <1>2, <1>3
  <2>4. CASE i = s + s + 1
    BY <1>0, <1>2, <1>4, <2>2, <2>3, <2>4
  <2>5. CASE i = s + s + 2
    BY <1>0, <1>2, <1>4, <2>2, <2>3, <2>5
  <2> QED BY <2>1, <2>4, <2>5
<1>9. c # s /\ c \in Placed /\ Values[c] = Value(heap[c])
  <2>1. s < c
    BY <1>2, <1>7, Parent
  <2>2. c # s
    BY <1>2, <1>7, <2>1
  <2> QED BY <1>0, <1>7, <2>2, <1>x, ValuesType DEF Placed
<1>10. /\ Structure' /\ op'.slot = c /\ op'.pc = op.pc /\ op'.node = op.node
       /\ Count' = Count /\ Values' = [Values EXCEPT ![s] = Values[c]]
  BY <1>1, <1>9, <1>x, Shifted DEF ReheapDown
<1>11. Value(op.node)' = x
  BY <1>10, <1>x DEF ReheapDown, Shift, Value
<1>12. Sinking([Values EXCEPT ![s] = Values[c]], Count, c, x)
  <2>1. Count \in 0..max_size
    BY <1>0
  <2> QED BY <1>0, <1>2, <1>3, <1>5, <1>6, <1>7, <1>8, <1>9, <2>1, SinksOn
<1>13. Sinking(Values, Count, op.slot, Value(op.node))'
  BY <1>10, <1>11, <1>12
<1> QED BY <1>1, <1>10, <1>13 DEF Order, Hole

(* The loop ends and the node is put into the hole.                         *)
LEMMA PutBack ==
    ASSUME Structure, Reheaped
    PROVE  /\ Structure' /\ op'.pc = "finish" /\ Count' = Count
           /\ Values' = [Values EXCEPT ![op.slot] = Value(op.node)]
<1> DEFINE k == op.node
           s == op.slot
<1>0. /\ Count \in Nat /\ max_size \in Nat /\ Count + 2 <= max_size
      /\ heap \in [0..max_size - 1 -> 0..max_size - 1]
      /\ timer_ids \in [0..max_size - 1 -> Int] /\ Ids = 1..max_size - 1
  BY Basics
<1>1. Hole /\ OwnId(k) /\ s \in 0..Count - 1
  BY DEF Reheaped, Hole, Structure, Places, Lifted
<1>2. /\ heap' = [heap EXCEPT ![s] = k] /\ timer_ids' = [timer_ids EXCEPT ![k] = s]
      /\ max_size' = max_size /\ cur_size' = cur_size /\ freelist' = freelist
      /\ free' = free /\ dups' = dups /\ timer_id' = timer_id
  BY DEF Reheaped, copy_node
<1>3. /\ op'.pc = "finish" /\ op'.node = op.node /\ op'.slot = op.slot
      /\ op'.by = op.by /\ op'.entry = op.entry /\ op.pc # "unlocked"
  BY DEF Reheaped, Structure, OpType
<1>b. k = op.node /\ s = op.slot
  OBVIOUS
<1> HIDE DEF k, s
<1>4. Count' = Count /\ ~ Hole'
  BY <1>2, <1>3 DEF Count, Hole
<1>5. \A i : i \in Placed' <=> i \in 0..Count - 1
  BY <1>3, <1>4 DEF Placed
<1>6. Ids' = Ids /\ Scheduled' = Scheduled /\ \A id : OwnId(id)' <=> OwnId(id)
  BY <1>2 DEF Ids, Scheduled, OwnId
<1>7. /\ k \in Ids /\ s \in 0..max_size - 1 /\ k \in 0..max_size - 1 /\ s \in Int
  BY <1>0, <1>1 DEF OwnId
<1>a. /\ heap' \in [0..max_size - 1 -> 0..max_size - 1]
      /\ timer_ids' \in [0..max_size - 1 -> Int]
      /\ heap'[s] = k /\ \A i \in 0..max_size - 1 : i # s => heap'[i] = heap[i]
      /\ timer_ids'[k] = s
      /\ \A id \in 0..max_size - 1 : id # k => timer_ids'[id] = timer_ids[id]
  <2>2. heap' \in [0..max_size - 1 -> 0..max_size - 1]
    BY <1>0, <1>2, <1>7
  <2>3. timer_ids' \in [0..max_size - 1 -> Int]
    BY <1>0, <1>2, <1>7
  <2>4. heap'[s] = k /\ \A i \in 0..max_size - 1 : i # s => heap'[i] = heap[i]
    BY <1>0, <1>2, <1>7
  <2>5. /\ timer_ids'[k] = s
        /\ \A id \in 0..max_size - 1 : id # k => timer_ids'[id] = timer_ids[id]
    BY <1>0, <1>2, <1>7
  <2> QED BY <2>2, <2>3, <2>4, <2>5
<1>8. ArrayType'
  BY <1>a, <1>2, <1>6 DEF Structure, ArrayType
<1>9. OpType'
  <2>1. op' = [op EXCEPT !.pc = "finish"]
    BY DEF Reheaped
  <2> QED BY <2>1, <1>2, <1>3 DEF Structure, OpType
<1>10. Lifted'
  BY <1>4 DEF Lifted
<1>11. Located'
  <2> SUFFICES ASSUME NEW i \in Placed'
               PROVE  OwnId(heap'[i]) /\ timer_ids'[heap'[i]] = i
    BY <1>4, <1>6 DEF Located
  <2>1. CASE i = s
    BY <1>1, <1>a, <2>1
  <2>2. CASE i # s
    <3>1. i \in Placed
      BY <1>5, <1>b, <2>2 DEF Placed
    <3>2. OwnId(heap[i]) /\ timer_ids[heap[i]] = i /\ heap[i] # k
      BY <1>1, <1>b, <3>1 DEF Structure, Places, Located
    <3>3. i \in 0..max_size - 1
      BY <1>0, <1>5
    <3>4. heap'[i] = heap[i]
      BY <1>a, <2>2, <3>3
    <3>5. heap[i] \in 0..max_size - 1
      BY <1>0, <3>3
    <3> QED BY <1>a, <3>2, <3>4, <3>5
  <2> QED BY <2>1, <2>2
<1>12. Found'
  <2> SUFFICES ASSUME NEW e \in Scheduled
               PROVE  /\ dups[timer_id[e]].entry = e
                      /\ timer_ids'[timer_id[e]] \in Placed'
                      /\ heap'[timer_ids'[timer_id[e]]] = timer_id[e]
    BY <1>2, <1>3, <1>4, <1>6 DEF Found
  <2> DEFINE id == timer_id[e]
             i == timer_ids[id]
  <2>0. id \in Ids
    BY Basics
  <2>1. /\ dups[id].entry = e
        /\ id = op.node \/ (i \in Placed /\ heap[i] = id)
    <3>1. Found
      BY DEF Structure, Places
    <3> QED BY <3>1 DEF Found
  <2> HIDE DEF id, i
  <2>b. id = timer_id[e] /\ i = timer_ids[id]
    BY DEF id, i
  <2>2. CASE id = k
    BY <1>1, <1>5, <1>a, <2>1, <2>2, <2>b
  <2>3. CASE id # k
    <3>1. i \in 0..Count - 1 /\ i # s /\ heap[i] = id
      BY <1>1, <1>b, <2>1, <2>3 DEF Placed, Hole
    <3>2. id \in 0..max_size - 1 /\ i \in 0..max_size - 1
      BY <1>0, <2>0, <3>1
    <3>3. timer_ids'[id] = timer_ids[id] /\ heap'[i] = heap[i]
      BY <1>a, <2>3, <3>1, <3>2
    <3> QED BY <1>5, <2>1, <2>b, <3>1, <3>3
  <2> QED BY <2>2, <2>3
<1>13. FreeIds'
  <2>1. Distinct' /\ Unused' /\ Room'
    BY <1>2, <1>4, <1>6 DEF Structure, FreeIds, Distinct, Unused, Room
  <2>2. \A j \in 1..Len(free) : free[j] \in Ids /\ free[j] # k
    <3> SUFFICES ASSUME NEW j \in 1..Len(free) PROVE free[j] \in Ids /\ free[j] # k
      OBVIOUS
    <3>1. free[j] \in Ids
      BY Basics
    <3>2. \A e \in Entry : timer_id[e] # free[j]
      BY <3>1 DEF Structure, FreeIds, Unused
    <3> QED BY <1>1, <3>1, <3>2 DEF OwnId
  <2>3. \A j \in 1..Len(free) : timer_ids'[free[j]] = timer_ids[free[j]]
    <3>1. \A j \in 1..Len(free) : free[j] \in 0..max_size - 1
      BY <1>0, <2>2
    <3> QED BY <1>a, <2>2, <3>1
  <2>4. Linked'
    BY <1>2, <2>3 DEF Structure, FreeIds, Linked
  <2> QED BY <2>1, <2>4 DEF FreeIds
<1>14. Counted'
  BY <1>4, <1>6 DEF Structure, Counted
<1>15. Values' = [Values EXCEPT ![s] = Value(k)]
  <2>1. \A i \in 0..max_size - 1 :
           Value(heap[i])' = IF i = s THEN Value(k) ELSE Value(heap[i])
    BY <1>a, <1>2 DEF Value
  <2>2. Values' = [i \in 0..max_size - 1 |-> IF i = s THEN Value(k) ELSE Value(heap[i])]
    BY <1>2, <2>1 DEF Values
  <2> QED BY <1>7, <2>2 DEF Values
<1> QED BY <1>3, <1>4, <1>8, <1>9, <1>10, <1>11, <1>12, <1>13, <1>14, <1>15, <1>b
          DEF Structure, Places

(* Storing the node in the hole ends the loop with the heap in order.       *)
LEMMA LastStep ==
    ASSUME Structure, Order, Reheaped
    PROVE  Structure' /\ Order'
<1> DEFINE s == op.slot
           x == Value(op.node)
<1>0. Count \in Nat /\ max_size \in Nat /\ Count + 2 <= max_size /\ Count \in 0..max_size
  BY Basics
<1>1. op.pc \in {"up", "down"} /\ Hole /\ s \in 0..Count - 1
  BY DEF Reheaped, Hole, Structure, Places, Lifted
<1>2. /\ Structure' /\ op'.pc = "finish" /\ Count' = Count
      /\ Values' = [Values EXCEPT ![s] = x]
  BY PutBack
<1>3. Values \in [0..max_size - 1 -> Nat] /\ x \in Nat
  BY ValuesType
<1>x. s = op.slot /\ x = Value(op.node)
  OBVIOUS
<1> HIDE DEF s, x
<1>4. SUFFICES Sorted([Values EXCEPT ![s] = x], Count)
  BY <1>2 DEF Order, Hole
<1>5. CASE op.pc = "up"
  <2>1. Rising(Values, Count, s, x)
    BY <1>5, <1>x DEF Order
  <2>2. s = 0 \/ Values[HEAP_PARENT(s)] <= x
    <3>1. SUFFICES ASSUME s # 0 PROVE Values[HEAP_PARENT(s)] <= x
      OBVIOUS
    <3>2. s > 0 /\ HEAP_PARENT(s) \in 0..max_size - 1
      BY <1>0, <1>1, <3>1, Parent
    <3>3. ~ (x < Value(heap[HEAP_PARENT(s)]))
      BY <1>5, <1>x, <3>2 DEF Reheaped, MovesUp
    <3>4. Values[HEAP_PARENT(s)] = Value(heap[HEAP_PARENT(s)]) /\ Values[HEAP_PARENT(s)] \in Nat
      BY <1>3, <3>2, ValuesType
    <3> QED BY <1>3, <3>3, <3>4
  <2> QED BY <1>0, <1>1, <1>3, <2>1, <2>2, RisesEnd
<1>6. CASE op.pc = "down"
  <2>1. Sinking(Values, Count, s, x)
    BY <1>6, <1>x DEF Order
  <2>2. \A i \in 1..Count - 1 : HEAP_PARENT(i) = s => x <= Values[i]
    <3> SUFFICES ASSUME NEW i \in 1..Count - 1, HEAP_PARENT(i) = s PROVE x <= Values[i]
      OBVIOUS
    <3>1. i = s + s + 1 \/ i = s + s + 2
      BY <1>0, <1>1, Parent
    <3>2. \A j \in 0..Count - 1 : Values[j] = Value(heap[j]) /\ Values[j] \in Nat
      BY <1>0, ValuesType
    <3>3. s + s + 1 \in 0..Count - 1
      BY <1>0, <1>1, <3>1
    <3>4. cur_size = Count
      BY <1>6 DEF Count, Structure, OpType
    <3>5. s + s + 1 + 1 = s + s + 2
      BY <1>1
    <3>6. Child = IF s + s + 2 < Count /\ Value(heap[s + s + 2]) < Value(heap[s + s + 1])
                  THEN s + s + 2 ELSE s + s + 1
      BY <1>x, <3>4, <3>5 DEF Child, HEAP_LEFT
    <3>7. ~ (Value(heap[Child]) < x)
      BY <1>0, <1>1, <1>6, <1>x, <3>3, <3>4 DEF Reheaped, MovesDown, HEAP_LEFT
    <3>8. CASE i = s + s + 1
      BY <1>0, <1>1, <1>3, <3>2, <3>3, <3>6, <3>7, <3>8
    <3>9. CASE i = s + s + 2
      BY <1>0, <1>1, <1>3, <3>2, <3>3, <3>6, <3>7, <3>9
    <3> QED BY <3>1, <3>8, <3>9
  <2> QED BY <1>0, <1>1, <1>3, <2>1, <2>2, SinksEnd
<1> QED BY <1>1, <1>5, <1>6

-----------------------------------------------------------------------------
(* The other steps.                                                         *)

(* Steps that leave the arrays alone.                                       *)
LEMMA ArraySame ==
    ASSUME Structure, Order, UNCHANGED <<array, op>>
    PROVE  Structure' /\ Order'
<1>1. /\ max_size' = max_size /\ cur_size' = cur_size /\ heap' = heap
      /\ timer_ids' = timer_ids /\ freelist' = freelist /\ free' = free /\ dups' = dups
      /\ timer_id' = timer_id /\ op' = op
  BY DEF array
<1>2. Count' = Count /\ Hole' = Hole /\ Ids' = Ids /\ Scheduled' = Scheduled
  BY <1>1 DEF Count, Hole, Ids, Scheduled
<1>3. Placed' = Placed /\ Values' = Values
  BY <1>1, <1>2 DEF Placed, Values, Value
<1>4. ArrayType' /\ OpType'
  BY <1>1, <1>2 DEF Structure, ArrayType, OpType
<1>5. Places'
  BY <1>1, <1>2, <1>3 DEF Structure, Places, Lifted, Located, Found, OwnId
<1>6. FreeIds' /\ Counted'
  BY <1>1, <1>2 DEF Structure, FreeIds, Linked, Distinct, Unused, Room, Counted
<1>7. Order'
  BY <1>1, <1>2, <1>3 DEF Order, Value
<1> QED BY <1>4, <1>5, <1>6, <1>7 DEF Structure

(* An operation ends; only now does an insertion count in cur_size.         *)
LEMMA OpEnds ==
    ASSUME Structure, Order, op.pc = "finish", op' = NoOp, cur_size' = Count,
           UNCHANGED <<max_size, heap, timer_ids, freelist, free, dups, timer_id>>
    PROVE  Structure' /\ Order'
<1>1. /\ max_size' = max_size /\ heap' = heap
      /\ timer_ids' = timer_ids /\ freelist' = freelist /\ free' = free /\ dups' = dups
      /\ timer_id' = timer_id
  OBVIOUS
<1>2. /\ op'.pc = "unlocked" /\ op'.by = "none" /\ op'.node = 0 /\ op'.slot = 0
      /\ op'.entry = None
  BY DEF NoOp
<1>3. Count' = Count /\ ~ Hole /\ ~ Hole' /\ Ids' = Ids /\ Scheduled' = Scheduled
  BY <1>1, <1>2 DEF Count, Hole, Ids, Scheduled
<1>4. Placed' = Placed /\ Values' = Values
  BY <1>1, <1>3 DEF Placed, Values, Value
<1>5. Count \in Nat /\ max_size \in Nat /\ 0 \in 0..max_size - 1
  BY Basics
<1>6. ArrayType'
  BY <1>1, <1>3, <1>5 DEF Structure, ArrayType
<1>7. OpType'
  <2>1. NoOp \in [pc : {"unlocked", "up", "down", "finish"}, node : 0..max_size - 1,
                  slot : 0..max_size - 1, entry : Entry \cup {None},
                  by : {"none", "schedule", "cancel"} \cup Poller]
    BY <1>5 DEF NoOp
  <2> QED BY <1>1, <1>2, <2>1 DEF OpType
<1>8. Places'
  BY <1>1, <1>3, <1>4 DEF Structure, Places, Lifted, Located, Found, OwnId
<1>9. FreeIds' /\ Counted'
  BY <1>1, <1>3 DEF Structure, FreeIds, Linked, Distinct, Unused, Room, Counted
<1>10. Order'
  BY <1>1, <1>2, <1>3, <1>4 DEF Order, Hole
<1> QED BY <1>6, <1>7, <1>8, <1>9, <1>10 DEF Structure

(* Unlocking leaves arrays and order as they are.                           *)
LEMMA EndStep ==
    ASSUME Structure, Order, InsertDone \/ CancelDone
                             \/ \E p \in Poller : PollUnlock(p) \/ PollSkips(p)
    PROVE  Structure' /\ Order'
<1>1. ASSUME InsertDone PROVE Structure' /\ Order'
  BY <1>1, OpEnds DEF InsertDone, Count
<1>2. ASSUME CancelDone PROVE Structure' /\ Order'
  BY <1>2, OpEnds DEF CancelDone, Count, array
<1>3. ASSUME NEW p \in Poller, PollUnlock(p) \/ PollSkips(p) PROVE Structure' /\ Order'
  <2>1. op.by # "schedule"
    BY <1>3, HeapAssumption DEF PollUnlock, PollSkips
  <2> QED BY <1>3, <2>1, OpEnds DEF PollUnlock, PollSkips, Count, array
<1> QED BY <1>1, <1>2, <1>3

-----------------------------------------------------------------------------
(* Insertion.                                                               *)

(* The free list after pop_freelist() and grow_heap(): the first id is gone *)
(* and the new ones follow.                                                 *)
LEMMA PoppedList ==
    ASSUME Structure, Unlocked, NEW e \in Entry, pop_freelist(e), grow_heap
    PROVE  LET n == Len(free) - 1
           IN  /\ n \in Nat /\ free[1] = freelist /\ Count = cur_size
               /\ max_size' = NewSize /\ NewSize \in Nat
               /\ n = 0 => NewSize = 2 * max_size /\ Count + 2 = max_size
               /\ n # 0 => NewSize = max_size /\ Count + 3 <= max_size
               /\ free' \in Seq(1..NewSize - 1)
               /\ Len(free') = n + (NewSize - max_size) /\ Len(free') >= 1
               /\ \A j \in 1..Len(free') :
                     free'[j] = IF j <= n THEN free[j + 1] ELSE max_size + j - n - 1
<1> DEFINE n == Len(free) - 1
           new == [i \in 1..NewSize - max_size |-> max_size + i - 1]
<1>1. Count = cur_size
  BY DEF Structure, OpType, Unlocked, Count
<1>2. /\ max_size \in Nat \ {0, 1} /\ Count \in Nat /\ Len(free) = max_size - 1 - Count
      /\ Count + 2 <= max_size /\ free \in Seq(1..max_size - 1)
  BY Basics DEF Structure, FreeIds, Room, ArrayType
<1>3. n \in Nat /\ Len(free) >= 1 /\ free # <<>>
  BY <1>2
<1>4. free[1] = freelist
  BY <1>3 DEF Structure, FreeIds, Linked
<1>5. /\ NewSize \in Nat /\ NewSize >= max_size
      /\ n = 0 => NewSize = 2 * max_size /\ Count + 2 = max_size
      /\ n # 0 => NewSize = max_size /\ Count + 3 <= max_size
  BY <1>1, <1>2 DEF NewSize, MustGrow
<1>6. new \in Seq(1..NewSize - 1) /\ Len(new) = NewSize - max_size
  <2>1. NewSize - max_size \in Nat
    BY <1>2, <1>5
  <2>2. new \in [1..NewSize - max_size -> 1..NewSize - 1]
    BY <1>2, <1>5
  <2>3. DOMAIN new = 1..NewSize - max_size
    OBVIOUS
  <2> HIDE DEF new
  <2>4. new \in Seq(1..NewSize - 1)
    BY <2>1, <2>2, SeqDef
  <2>5. Len(new) \in Nat /\ 1..Len(new) = 1..NewSize - max_size
    BY <2>3, <2>4, LenProperties
  <2>6. \A a, b \in Nat : 1..a = 1..b => a = b
    <3> SUFFICES ASSUME NEW a \in Nat, NEW b \in Nat, 1..a = 1..b PROVE a = b
      OBVIOUS
    <3>1. \A i \in Nat \ {0} : i <= a <=> i <= b
      <4> SUFFICES ASSUME NEW i \in Nat \ {0} PROVE i \in 1..a <=> i \in 1..b
        OBVIOUS
      <4> QED OBVIOUS
    <3> QED BY <3>1
  <2> QED BY <2>1, <2>4, <2>5, <2>6
<1>7. Tail(free) \in Seq(1..NewSize - 1) /\ Len(Tail(free)) = n
  <2>1. Tail(free) \in Seq(1..max_size - 1) /\ Len(Tail(free)) = n
    BY <1>2, <1>3
  <2> QED BY <1>2, <1>5, <2>1
<1>8. \A j \in 1..n : Tail(free)[j] = free[j + 1]
  BY <1>2, <1>3
<1>9. free' = Tail(free) \o new /\ max_size' = NewSize
  BY DEF pop_freelist, grow_heap
<1>10. \A j \in 1..NewSize - max_size : new[j] = max_size + j - 1
  OBVIOUS
<1>n. n \in Nat
  BY <1>3
<1> HIDE DEF new, n
<1>11. /\ free' \in Seq(1..NewSize - 1) /\ Len(free') = n + (NewSize - max_size)
       /\ \A j \in 1..Len(free') :
             free'[j] = IF j <= n THEN Tail(free)[j] ELSE new[j - n]
  <2>1. /\ Tail(free) \o new \in Seq(1..NewSize - 1)
        /\ Len(Tail(free) \o new) = n + (NewSize - max_size)
        /\ \A j \in 1..n + (NewSize - max_size) :
             (Tail(free) \o new)[j] = IF j <= n THEN Tail(free)[j] ELSE new[j - n]
    <3> DEFINE S == 1..NewSize - 1
               T == Tail(free)
    <3>1. T \in Seq(S) /\ new \in Seq(S) /\ Len(T) = n /\ Len(new) = NewSize - max_size
      BY <1>6, <1>7
    <3> HIDE DEF S, T
    <3>2. /\ T \o new \in Seq(S)
          /\ Len(T \o new) = Len(T) + Len(new)
          /\ \A j \in 1..Len(T) + Len(new) :
                (T \o new)[j] = IF j <= Len(T) THEN T[j] ELSE new[j - Len(T)]
      BY <3>1, ConcatProperties
    <3> QED BY <3>1, <3>2 DEF S, T
  <2> QED BY <1>9, <2>1
<1>12. ASSUME NEW j \in 1..Len(free')
       PROVE  free'[j] = IF j <= n THEN free[j + 1] ELSE max_size + j - n - 1
  <2>1. CASE j <= n
    <3>1. j \in 1..n
      BY <1>n, <1>11, <2>1
    <3> QED BY <1>8, <1>11, <2>1, <3>1
  <2>2. CASE ~ (j <= n)
    <3>1. j - n \in 1..NewSize - max_size
      <4>1. j \in Nat /\ j <= n + (NewSize - max_size) /\ ~ (j <= n)
        BY <1>2, <1>n, <1>5, <1>11, <2>2
      <4> QED BY <1>2, <1>n, <1>5, <4>1
    <3>2. j - n \in Int /\ max_size + (j - n) - 1 = max_size + j - n - 1
      BY <1>2, <1>n
    <3> QED BY <1>10, <1>11, <2>2, <3>1, <3>2
  <2> QED BY <2>1, <2>2
<1>13. Len(free') >= 1
  BY <1>2, <1>n, <1>5, <1>11
<1> QED BY <1>1, <1>3, <1>4, <1>5, <1>9, <1>11, <1>12, <1>13 DEF n

(* schedule_entry() and insert_node(), with grow_heap() if need be: e is    *)
(* the one that is added.                                                   *)
LEMMA ScheduleStep ==
    ASSUME Structure, Order, NEW e \in Entry, Schedule(e)
    PROVE  /\ Structure' /\ Order' /\ Scheduled' = Scheduled \cup {e} /\ e \notin Scheduled
           /\ Value(timer_id[e])' \in Nat
           /\ \A f \in Scheduled : Value(timer_id[f])' = Value(timer_id[f])
<1>x. PICK m, M, n, l, id0 :
         /\ m = max_size /\ M = NewSize /\ n = Count /\ l = Len(free) - 1
         /\ id0 = freelist
  OBVIOUS
<1>1. /\ Unlocked /\ pop_freelist(e) /\ grow_heap
  BY DEF Schedule
<1>2. /\ l \in Nat /\ free[1] = id0 /\ n = cur_size /\ max_size' = M /\ M \in Nat
      /\ l = 0 => M = 2 * m /\ n + 2 = m
      /\ l # 0 => M = m /\ n + 3 <= m
      /\ free' \in Seq(1..M - 1) /\ Len(free') = l + (M - m) /\ Len(free') >= 1
      /\ \A j \in 1..Len(free') : free'[j] = IF j <= l THEN free[j + 1] ELSE m + j - l - 1
  BY <1>x, <1>1, PoppedList
<1>3. /\ n \in Nat /\ m \in Nat \ {0, 1} /\ n + 2 <= m /\ Len(free) = m - 1 - n /\ Ids = 1..m - 1
      /\ \A j \in 1..Len(free) : free[j] \in Ids
  BY <1>x, Basics DEF Structure, ArrayType, FreeIds, Room
<1>4. /\ Ids' = 1..M - 1 /\ m <= M /\ M \in Nat \ {0, 1}
      /\ 0..m - 1 \subseteq 0..M - 1 /\ 1..m - 1 \subseteq 1..M - 1
  <2>1. m <= M
    BY <1>2, <1>3
  <2>2. Ids' = 1..M - 1
    BY <1>2 DEF Ids
  <2> QED BY <1>2, <1>3, <2>1, <2>2
<1>5. ~ Hole /\ \A i : i \in Placed <=> i \in 0..n - 1
  BY <1>x, <1>1 DEF Unlocked, Hole, Placed
<1>6. /\ heap \in [0..m - 1 -> 0..m - 1] /\ timer_ids \in [0..m - 1 -> Int]
      /\ dups \in [0..m - 1 -> [entry : Entry \cup {None}, _timer_value : Nat]]
      /\ timer_id \in [Entry -> Ids \cup {-1}] /\ cur_size \in Nat
  BY <1>x DEF Structure, ArrayType
<1>7. timer_id[e] = -1
  BY <1>3, <1>6 DEF Schedule, NotScheduled, pj_timer_entry_running
<1>8. id0 \in 1..m - 1 /\ \A f \in Entry : timer_id[f] # id0
  <2>1. 1 \in 1..Len(free) /\ id0 = free[1]
    BY <1>2, <1>x
  <2>2. id0 \in Ids
    BY <1>3, <2>1
  <2> QED BY <1>x, <1>3, <2>1, <2>2 DEF Structure, FreeIds, Unused
<1>9. PICK v \in Nat :
         dups' = [Grown(dups, LAMBDA i : NoDup) EXCEPT ![id0] = [entry |-> e, _timer_value |-> v]]
  <2>1. PICK called \in 0..now, delay \in Delay :
           dups' = [Grown(dups, LAMBDA i : NoDup) EXCEPT ![freelist] =
                         [entry |-> e, _timer_value |-> called + delay]]
    BY DEF Schedule
  <2>2. called + delay \in Nat
    BY HeapAssumption
  <2> QED BY <1>x, <2>1, <2>2
<1>10. /\ heap' = [i \in 0..M - 1 |-> IF i < m THEN heap[i] ELSE 0]
       /\ timer_ids' = [i \in 0..M - 1 |-> IF i < m THEN timer_ids[i] ELSE -(i + 1)]
  BY <1>x, <1>1 DEF grow_heap, Grown
<1>11. dups' = [[i \in 0..M - 1 |-> IF i < m THEN dups[i] ELSE NoDup]
                  EXCEPT ![id0] = [entry |-> e, _timer_value |-> v]]
  BY <1>x, <1>9 DEF Grown
<1>12. /\ timer_id' = [timer_id EXCEPT ![e] = id0] /\ freelist' = -timer_ids[id0]
       /\ cur_size' = cur_size
       /\ op' = [pc |-> "up", node |-> id0, slot |-> n, entry |-> e, by |-> "schedule"]
  BY <1>x, <1>1, <1>2 DEF Schedule, pop_freelist
<1>13. /\ \A i \in 0..m - 1 : i \in 0..M - 1 /\ heap'[i] = heap[i] /\ timer_ids'[i] = timer_ids[i]
       /\ \A i \in 0..M - 1 : ~ (i \in 0..m - 1) => timer_ids'[i] = -(i + 1)
  <2>1. \A i \in 0..M - 1 : ~ (i \in 0..m - 1) => ~ (i < m)
    BY <1>3
  <2>2. \A i \in 0..m - 1 : i \in 0..M - 1 /\ i < m
    BY <1>2, <1>3, <1>4
  <2> QED BY <1>10, <2>1, <2>2
<1>14. /\ dups'[id0] = [entry |-> e, _timer_value |-> v]
       /\ \A i \in 0..m - 1 : i # id0 => dups'[i] = dups[i]
  <2>1. \A i \in 0..m - 1 : i \in 0..M - 1 /\ i < m
    BY <1>2, <1>3, <1>4
  <2>2. id0 \in 0..M - 1
    BY <1>8, <2>1
  <2> QED BY <1>11, <2>1, <2>2
<1>15. /\ timer_id'[e] = id0
       /\ \A f \in Entry : f # e => timer_id'[f] = timer_id[f]
  BY <1>6, <1>12
<1>16. Scheduled' = Scheduled \cup {e} /\ e \notin Scheduled
  <2>1. id0 # -1
    BY <1>8
  <2>2. Scheduled' = {f \in Entry : timer_id'[f] # -1}
    BY DEF Scheduled
  <2> QED BY <1>7, <1>15, <2>1, <2>2 DEF Scheduled
<1>17. /\ op'.pc = "up" /\ op'.node = id0 /\ op'.slot = n /\ op'.entry = e
       /\ op'.by = "schedule"
  BY <1>12
<1>18. Count' = n + 1 /\ Hole' /\ \A i : i \in Placed' <=> i \in 0..n - 1
  <2>1. Count' = n + 1 /\ Hole'
    BY <1>2, <1>12, <1>17 DEF Count, Hole
  <2> QED BY <1>3, <1>17, <2>1 DEF Placed
<1>19. ArrayType'
  <2>1. M \in Nat \ {0, 1} /\ cur_size' \in Nat /\ 0 \in 0..M - 1 /\ 0..m - 1 \subseteq 0..M - 1
    BY <1>4, <1>6, <1>12
  <2>2. heap' \in [0..M - 1 -> 0..M - 1]
    <3>1. \A i \in 0..M - 1 : i < m => i \in 0..m - 1
      BY <1>3
    <3>2. \A i \in 0..M - 1 : i < m => heap[i] \in 0..M - 1
      BY <1>6, <2>1, <3>1
    <3> QED BY <1>10, <2>1, <3>2
  <2>3. timer_ids' \in [0..M - 1 -> Int]
    <3>1. \A i \in 0..M - 1 : i < m => timer_ids[i] \in Int
      BY <1>3, <1>6
    <3> QED BY <1>10, <3>1
  <2>4. freelist' \in 1..M
    <3>1. timer_ids[free[1]] = -(IF 1 = Len(free) THEN max_size ELSE free[2])
      <4>1. 1 \in 1..Len(free)
        BY <1>2, <1>x
      <4>2. \A k \in 1..Len(free) :
               timer_ids[free[k]] = -(IF k = Len(free) THEN max_size ELSE free[k + 1])
        BY DEF Structure, FreeIds, Linked
      <4>3. timer_ids[free[1]] = -(IF 1 = Len(free) THEN max_size ELSE free[1 + 1])
        BY <4>1, <4>2, Zenon
      <4>4. 1 + 1 = 2
        OBVIOUS
      <4> QED BY <4>3, <4>4, Zenon
    <3>2. 1 # Len(free) => free[2] \in Ids
      BY <1>2, <1>3, <1>x
    <3>4. freelist' = -timer_ids[free[1]]
      BY <1>2, <1>12
    <3>5. \A a \in Int : -(-a) = a
      OBVIOUS
    <3>6. (IF 1 = Len(free) THEN max_size ELSE free[2]) \in Int
      BY <1>3, <1>x, <3>2
    <3>3. freelist' = IF 1 = Len(free) THEN m ELSE free[2]
      BY <1>x, <3>1, <3>4, <3>5, <3>6
    <3> QED BY <1>3, <1>4, <3>2, <3>3
  <2>5. dups' \in [0..M - 1 -> [entry : Entry \cup {None}, _timer_value : Nat]]
    <3> DEFINE D == [entry : Entry \cup {None}, _timer_value : Nat]
               g == [i \in 0..M - 1 |-> IF i < m THEN dups[i] ELSE NoDup]
    <3>1. \A i \in 0..M - 1 : i < m => dups[i] \in D
      BY <1>3, <1>6
    <3>2. NoDup \in D /\ [entry |-> e, _timer_value |-> v] \in D
      BY DEF NoDup
    <3> HIDE DEF D
    <3>3. g \in [0..M - 1 -> D]
      BY <3>1, <3>2
    <3> HIDE DEF g
    <3> QED BY <1>11, <3>2, <3>3 DEF D, g
  <2>6. timer_id' \in [Entry -> Ids' \cup {-1}]
    <3>1. id0 \in Ids' /\ Ids \subseteq Ids'
      BY <1>3, <1>4, <1>8, <1>2
    <3> QED BY <1>6, <1>12, <3>1
  <2>7. free' \in Seq(Ids')
    BY <1>2, <1>4
  <2> QED BY <1>2, <2>1, <2>2, <2>3, <2>4, <2>5, <2>6, <2>7 DEF ArrayType
<1>20. OpType'
  <2>1. id0 \in 0..M - 1 /\ n \in 0..M - 1
    BY <1>2, <1>3, <1>4, <1>8
  <2> QED BY <1>2, <1>12, <1>17, <2>1 DEF OpType
<1>21. OwnId(id0)'
  BY <1>4, <1>8, <1>14, <1>15 DEF OwnId
<1>22. ASSUME NEW id, OwnId(id) PROVE OwnId(id)' /\ id # id0 /\ id \in 0..m - 1
  <2>1. id \in Ids /\ dups[id].entry \in Entry /\ timer_id[dups[id].entry] = id
    BY <1>22 DEF OwnId
  <2>2. id # id0 /\ id \in 0..m - 1 /\ id \in Ids' /\ dups[id].entry # e
    <3>1. id \in 1..m - 1 /\ id # -1
      BY <1>3, <2>1
    <3> QED BY <1>4, <1>7, <1>8, <2>1, <3>1
  <2>3. dups'[id] = dups[id]
    BY <1>14, <2>2
  <2> QED BY <1>15, <2>1, <2>2, <2>3 DEF OwnId
<1>23. Lifted'
  <2>1. n \in 0..Count' - 1
    BY <1>3, <1>18
  <2>2. OwnId(op.node)'
    BY <1>17, <1>21 DEF OwnId
  <2> QED BY <1>17, <2>1, <2>2 DEF Lifted
<1>24. Located'
  <2> SUFFICES ASSUME NEW i \in Placed'
               PROVE  OwnId(heap[i])' /\ timer_ids'[heap'[i]] = i /\ heap'[i] # id0
    BY <1>17 DEF Located
  <2>1. i \in 0..n - 1 /\ i \in 0..m - 1
    BY <1>3, <1>18
  <2>2. OwnId(heap[i]) /\ timer_ids[heap[i]] = i
    BY <1>5, <2>1 DEF Structure, Places, Located
  <2>3. heap'[i] = heap[i]
    BY <1>13, <2>1
  <2>4. \A id : id = heap[i] => OwnId(id)' /\ id # id0 /\ id \in 0..m - 1
    BY <1>22, <2>2
  <2>5. \A id : id = heap'[i] => OwnId(id)'
    BY <2>3, <2>4
  <2> QED BY <1>13, <2>2, <2>3, <2>4, <2>5 DEF OwnId
<1>25. Found'
  <2> SUFFICES ASSUME NEW f \in Scheduled'
               PROVE  /\ dups'[timer_id'[f]].entry = f
                      /\ \/ timer_id'[f] = id0
                         \/ /\ timer_ids'[timer_id'[f]] \in Placed'
                            /\ heap'[timer_ids'[timer_id'[f]]] = timer_id'[f]
    BY <1>17, <1>18 DEF Found
  <2>1. CASE f = e
    BY <1>14, <1>15, <2>1
  <2>2. CASE f # e
    <3> DEFINE id == timer_id[f]
               i == timer_ids[id]
    <3>1. f \in Scheduled /\ f \in Entry /\ id \in Ids /\ timer_id'[f] = id
      BY <1>15, <1>16, <2>2, Basics
    <3>2. dups[id].entry = f /\ i \in Placed /\ heap[i] = id
      <4>1. Found
        BY DEF Structure, Places
      <4> QED BY <1>5, <3>1, <4>1 DEF Found
    <3>3. id \in 0..m - 1 /\ id # id0
      BY <1>3, <1>8, <3>1
    <3>4. i \in 0..n - 1 /\ i \in 0..m - 1
      BY <1>3, <1>5, <3>2
    <3>x. i = timer_ids[id]
      OBVIOUS
    <3> HIDE DEF id, i
    <3>5. dups'[id] = dups[id] /\ timer_ids'[id] = i /\ heap'[i] = heap[i]
      BY <1>13, <1>14, <3>3, <3>4, <3>x
    <3> QED BY <1>18, <3>1, <3>2, <3>4, <3>5
  <2> QED BY <2>1, <2>2
<1>l. l = m - 2 - n /\ Len(free) = l + 1 /\ Len(free') = l + (M - m)
  <2>1. l = (m - 1 - n) - 1 /\ Len(free) = (m - 1 - n)
    BY <1>x, <1>3
  <2> QED BY <1>2, <1>3, <2>1
<1>26. Room'
  <2>1. Len(free') = M - 1 - (n + 1) /\ n + 1 + 2 <= M
    <3>1. l \in Nat /\ M \in Nat /\ (l = 0 => M = 2 * m) /\ (l # 0 => M = m)
      BY <1>2
    <3> QED BY <1>3, <1>l, <3>1
  <2> QED BY <1>2, <1>18, <2>1 DEF Room
<1>f. /\ \A j \in 1..l : free'[j] = free[j + 1] /\ j \in 1..Len(free') /\ j + 1 \in 1..Len(free)
      /\ \A j \in 1..Len(free') : ~ (j \in 1..l) => free'[j] = m + j - l - 1
      /\ Len(free) = l + 1 /\ Len(free') \in Nat
  <2>1. Len(free) = l + 1 /\ Len(free') \in Nat /\ l <= Len(free')
    <3>1. l \in Nat /\ M \in Nat /\ m \in Nat /\ m <= M
      BY <1>2, <1>3, <1>4
    <3> QED BY <1>l, <3>1
  <2>2. \A j \in 1..l : j \in 1..Len(free') /\ j <= l /\ j + 1 \in 1..Len(free)
    BY <1>2, <2>1
  <2>3. \A j \in 1..Len(free') : ~ (j \in 1..l) => ~ (j <= l)
    BY <1>2
  <2> QED BY <1>2, <2>1, <2>2, <2>3
<1>27. Linked'
  <2>1. free' # <<>> /\ 1 \in 1..Len(free')
    BY <1>2, <1>f
  <2>2. freelist' = free'[1]
    <3>1. timer_ids[free[1]] = -(IF 1 = Len(free) THEN max_size ELSE free[1 + 1])
      BY <1>2, <1>f DEF Structure, FreeIds, Linked
    <3>2. CASE l = 0
      <4>1. freelist' = m
        BY <1>2, <1>3, <1>12, <1>f, <1>x, <3>1, <3>2
      <4>2. free'[1] = m + 1 - l - 1
        BY <1>f, <2>1, <3>2
      <4> QED BY <1>3, <3>2, <4>1, <4>2
    <3>3. CASE l # 0
      <4>1. 1 \in 1..l /\ Len(free) # 1
        BY <1>2, <1>f, <3>3
      <4>2. free'[1] = free[1 + 1] /\ free[1 + 1] \in 1..m - 1
        BY <1>3, <1>f, <4>1
      <4>3. freelist' = -timer_ids[free[1]] /\ timer_ids[free[1]] = -free[1 + 1]
        BY <1>2, <1>12, <3>1, <4>1
      <4> QED BY <4>2, <4>3
    <3> QED BY <3>2, <3>3
  <2>3. ASSUME NEW j \in 1..Len(free')
        PROVE  timer_ids'[free'[j]] = -(IF j = Len(free') THEN M ELSE free'[j + 1])
    <3>1. CASE j \in 1..l
      <4>1. free'[j] = free[j + 1] /\ j + 1 \in 1..Len(free) /\ free[j + 1] \in 0..m - 1
        BY <1>3, <1>f, <3>1
      <4>2. timer_ids'[free'[j]] = timer_ids[free[j + 1]]
        BY <1>13, <4>1
      <4>3. timer_ids[free[j + 1]] = -(IF j + 1 = Len(free) THEN m ELSE free[j + 1 + 1])
        BY <1>x, <4>1 DEF Structure, FreeIds, Linked
      <4>4. CASE j < l
        <5>1. j + 1 \in 1..l /\ j + 1 # Len(free) /\ j # Len(free')
          BY <1>2, <1>f, <4>4
        <5> QED BY <1>f, <4>2, <4>3, <5>1
      <4>5. CASE j = l
        <5>1. j + 1 = Len(free)
          BY <1>2, <1>f, <4>5
        <5>2. j = Len(free') => M = m
          BY <1>2, <1>3, <4>5
        <5>3. j # Len(free') => free'[j + 1] = m
          <6>1. SUFFICES ASSUME j # Len(free') PROVE free'[j + 1] = m
            OBVIOUS
          <6>2. j + 1 \in 1..Len(free') /\ ~ (j + 1 \in 1..l) /\ m + (j + 1) - l - 1 = m
            BY <1>2, <1>3, <1>f, <4>5, <6>1
          <6> QED BY <1>f, <6>2
        <5> QED BY <4>2, <4>3, <5>1, <5>2, <5>3
      <4> QED BY <1>2, <3>1, <4>4, <4>5
    <3>2. CASE ~ (j \in 1..l)
      <4>1. /\ free'[j] = m + j - l - 1
            /\ m + j - l - 1 \in 0..M - 1 /\ ~ (m + j - l - 1 \in 0..m - 1)
        BY <1>2, <1>3, <1>f, <3>2
      <4>2. timer_ids'[free'[j]] = -(m + j - l - 1 + 1)
        BY <1>13, <4>1
      <4>3. j = Len(free') => m + j - l - 1 + 1 = M
        BY <1>2, <1>3
      <4>4. ASSUME j # Len(free') PROVE free'[j + 1] = m + j - l - 1 + 1
        <5>1. j + 1 \in 1..Len(free') /\ ~ (j + 1 \in 1..l)
          BY <1>2, <1>f, <3>2, <4>4
        <5>2. m + (j + 1) - l - 1 = m + j - l - 1 + 1
          BY <1>2, <1>3
        <5> QED BY <1>f, <5>1, <5>2
      <4> QED BY <4>2, <4>3, <4>4
    <3> QED BY <3>1, <3>2
  <2> QED BY <1>2, <2>1, <2>2, <2>3 DEF Linked
<1>28. Distinct'
  <2> SUFFICES ASSUME NEW j \in 1..Len(free'), NEW k \in 1..Len(free'), free'[j] = free'[k]
               PROVE  j = k
    BY DEF Distinct
  <2>1. ASSUME NEW i \in 1..l PROVE free'[i] = free[i + 1] /\ free'[i] \in 1..m - 1
    BY <1>3, <1>f
  <2>2. ASSUME NEW i \in 1..Len(free'), ~ (i \in 1..l)
        PROVE  free'[i] = m + i - l - 1 /\ ~ (free'[i] \in 1..m - 1)
    <3>1. free'[i] = m + i - l - 1
      BY <1>f, <2>2
    <3>2. i > l
      BY <1>2, <2>2
    <3> QED BY <1>2, <1>3, <3>1, <3>2
  <2>3. CASE j \in 1..l /\ k \in 1..l
    <3>1. free[j + 1] = free[k + 1] /\ j + 1 \in 1..Len(free) /\ k + 1 \in 1..Len(free)
      BY <1>f, <2>1, <2>3
    <3>2. j + 1 = k + 1
      BY <3>1 DEF Structure, FreeIds, Distinct
    <3> QED BY <3>2
  <2>4. CASE ~ (j \in 1..l) /\ ~ (k \in 1..l)
    <3>1. m + j - l - 1 = m + k - l - 1
      BY <2>2, <2>4
    <3> QED BY <1>2, <1>3, <3>1
  <2>5. j \in 1..l <=> k \in 1..l
    BY <2>1, <2>2
  <2> QED BY <2>3, <2>4, <2>5
<1>29. Unused'
  <2> SUFFICES ASSUME NEW id \in 1..M - 1
               PROVE  (\E k \in 1..Len(free') : free'[k] = id)
                         <=> (\A f \in Entry : timer_id'[f] # id)
    BY <1>4 DEF Unused
  <2>1. CASE id \in 1..m - 1
    <3>1. (\E k \in 1..Len(free) : free[k] = id) <=> (\A f \in Entry : timer_id[f] # id)
      BY <1>3, <2>1 DEF Structure, FreeIds, Unused
    <3>2. ASSUME NEW k \in 1..Len(free'), free'[k] = id
          PROVE  \A f \in Entry : timer_id'[f] # id
      <4>1. k \in 1..l
        <5>1. SUFFICES ASSUME ~ (k \in 1..l) PROVE FALSE
          OBVIOUS
        <5>2. free'[k] = m + k - l - 1 /\ k > l
          BY <1>2, <1>f, <5>1
        <5> QED BY <1>2, <1>3, <2>1, <3>2, <5>2
      <4>2. k + 1 \in 1..Len(free) /\ free[k + 1] = id
        BY <1>f, <3>2, <4>1
      <4>3. id # id0
        <5>1. 1 \in 1..Len(free) /\ k + 1 # 1
          BY <1>2, <1>f, <4>1
        <5>2. free[1] # free[k + 1]
          BY <4>2, <5>1 DEF Structure, FreeIds, Distinct
        <5> QED BY <1>2, <4>2, <5>2
      <4> QED BY <1>15, <3>1, <4>2, <4>3
    <3>3. ASSUME \A f \in Entry : timer_id'[f] # id
          PROVE  \E k \in 1..Len(free') : free'[k] = id
      <4>1. \A f \in Entry : timer_id[f] # id
        BY <1>7, <1>15, <2>1, <3>3
      <4>2. PICK k \in 1..Len(free) : free[k] = id
        BY <3>1, <4>1
      <4>3. k # 1
        BY <1>2, <1>15, <3>3, <4>2
      <4>4. k - 1 \in 1..l /\ k - 1 + 1 = k
        BY <1>2, <1>f, <4>3
      <4>5. free'[k - 1] = id /\ k - 1 \in 1..Len(free')
        BY <1>f, <4>2, <4>4
      <4> QED BY <4>5
    <3> QED BY <3>2, <3>3
  <2>2. CASE ~ (id \in 1..m - 1)
    <3>1. \A f \in Entry : timer_id'[f] \in 1..m - 1 \/ timer_id'[f] = -1
      BY <1>3, <1>6, <1>8, <1>15
    <3>2. \A f \in Entry : timer_id'[f] # id
      BY <2>2, <3>1
    <3> DEFINE k == id - m + l + 1
    <3>3. id >= m /\ id <= M - 1 /\ id \in Nat
      BY <1>3, <1>4, <2>2
    <3>4. k \in 1..Len(free') /\ ~ (k \in 1..l) /\ m + k - l - 1 = id
      BY <1>2, <1>3, <1>l, <3>3
    <3>5. free'[k] = id
      BY <1>f, <3>4
    <3> QED BY <3>2, <3>4, <3>5
  <2> QED BY <2>1, <2>2
<1>30. Counted'
  <2>1. IsFiniteSet(Scheduled) /\ Cardinality(Scheduled) = n
    BY <1>x DEF Structure, Counted
  <2>2. IsFiniteSet(Scheduled \cup {e}) /\ Cardinality(Scheduled \cup {e}) = n + 1
    BY <1>16, <2>1, FS_AddElement
  <2> QED BY <1>16, <1>18, <2>2 DEF Counted
<1>31. Structure'
  BY <1>19, <1>20, <1>23, <1>24, <1>25, <1>26, <1>27, <1>28, <1>29, <1>30
     DEF Structure, Places, FreeIds
<1>32. \A f \in Scheduled : Value(timer_id[f])' = Value(timer_id[f])
  <2> SUFFICES ASSUME NEW f \in Scheduled
               PROVE  Value(timer_id[f])' = Value(timer_id[f])
    OBVIOUS
  <2>1. f # e /\ f \in Entry /\ timer_id[f] \in 1..m - 1
    BY <1>3, <1>16, Basics
  <2>2. timer_id'[f] = timer_id[f] /\ timer_id[f] \in 0..m - 1 /\ timer_id[f] # id0
    BY <1>8, <1>15, <2>1
  <2>3. dups'[timer_id[f]] = dups[timer_id[f]]
    BY <1>14, <2>2
  <2> QED BY <2>2, <2>3 DEF Value
<1>33. \A i \in 0..n - 1 : Values'[i] = Values[i]
  <2> SUFFICES ASSUME NEW i \in 0..n - 1 PROVE Values'[i] = Values[i]
    OBVIOUS
  <2>1. i \in 0..m - 1 /\ i \in 0..M - 1
    BY <1>3, <1>4
  <2>2. OwnId(heap[i])
    BY <1>5 DEF Structure, Places, Located
  <2>3. heap[i] # id0 /\ heap[i] \in 0..m - 1
    BY <1>22, <2>2
  <2>4. heap'[i] = heap[i] /\ dups'[heap[i]] = dups[heap[i]]
    BY <1>13, <1>14, <2>1, <2>3
  <2>5. Values'[i] = dups'[heap'[i]]._timer_value
    BY <1>2, <2>1 DEF Values, Value
  <2> QED BY <1>x, <2>1, <2>4, <2>5 DEF Values, Value
<1>34. Order'
  <2>1. Sorted(Values, n) /\ Values \in [0..m - 1 -> Nat] /\ n \in 0..m /\ m \in Nat
    BY <1>3, <1>5, <1>x, ValuesType DEF Order
  <2>2. \A V, x : (\A i \in 0..n - 1 : V[i] = Values[i]) => Rising(V, n + 1, n, x)
    BY <2>1, InsertRises
  <2>3. \A x : Rising(Values', n + 1, n, x)
    BY <1>33, <2>2
  <2> QED BY <1>17, <1>18, <2>3 DEF Order
<1>35. Value(timer_id[e])' \in Nat
  BY <1>14, <1>15 DEF Value
<1> QED BY <1>16, <1>31, <1>32, <1>34, <1>35

-----------------------------------------------------------------------------
(* Removal.                                                                 *)

(* The free list after push_freelist().                                     *)
LEMMA PushedList ==
    ASSUME Structure, NEW id \in Ids, free' = <<id>> \o free
    PROVE  /\ free' \in Seq(Ids) /\ Len(free') = Len(free) + 1 /\ Len(free) \in Nat
           /\ free'[1] = id
           /\ \A j \in 1..Len(free) : free'[j + 1] = free[j]
<1>1. free \in Seq(Ids) /\ <<id>> \in Seq(Ids) /\ Len(<<id>>) = 1 /\ <<id>>[1] = id
  BY DEF Structure, ArrayType
<1> DEFINE one == <<id>>
<1> HIDE DEF one
<1>2. one \in Seq(Ids) /\ Len(one) = 1 /\ one[1] = id /\ free' = one \o free
  BY <1>1 DEF one
<1>3. /\ free' \in Seq(Ids) /\ Len(free') = 1 + Len(free)
      /\ \A j \in 1..1 + Len(free) : free'[j] = IF j <= 1 THEN one[j] ELSE free[j - 1]
  BY <1>1, <1>2, ConcatProperties
<1>4. Len(free) \in Nat
  BY <1>1
<1>5. free'[1] = id
  BY <1>2, <1>3, <1>4
<1>6. ASSUME NEW j \in 1..Len(free) PROVE free'[j + 1] = free[j]
  <2>1. j + 1 \in 1..1 + Len(free) /\ ~ (j + 1 <= 1) /\ j + 1 - 1 = j
    BY <1>4
  <2> QED BY <1>3, <2>1
<1> QED BY <1>3, <1>4, <1>5, <1>6

(* remove_node(), from any slot: its entry is the one that goes.            *)
LEMMA RemoveStep ==
    ASSUME Structure, Order, Unlocked, NEW slot \in 0..cur_size - 1,
           NEW by \in {"cancel"} \cup Poller, NEW entry,
           entry = dups[heap[slot]].entry, remove_node(slot, by, entry)
    PROVE  LET e == dups[heap[slot]].entry
           IN  /\ Structure' /\ Order' /\ e \in Scheduled /\ Scheduled' = Scheduled \ {e}
               /\ timer_id[e] = heap[slot]
               /\ op'.entry = e /\ op'.by = by
               /\ \A f \in Scheduled \ {e} : Value(timer_id[f])' = Value(timer_id[f])
<1>x. PICK m, n, last, id, moved, e, F :
         /\ m = max_size /\ n = Count /\ last = n - 1 /\ id = heap[slot]
         /\ moved = heap[last] /\ e = dups[id].entry /\ F = freelist
  OBVIOUS
<1>1. n = cur_size /\ ~ Hole
  BY <1>x DEF Structure, OpType, Unlocked, Count, Hole
<1>2. /\ n \in Nat /\ m \in Nat \ {0, 1} /\ n + 2 <= m /\ Len(free) = m - 1 - n /\ Ids = 1..m - 1
      /\ \A j \in 1..Len(free) : free[j] \in Ids
  BY <1>x, Basics DEF Structure, ArrayType, FreeIds, Room
<1>3. /\ slot \in 0..n - 1 /\ last \in 0..n - 1 /\ last \in Nat /\ n = last + 1
      /\ 0..n - 1 \subseteq 0..m - 1
  BY <1>1, <1>2, <1>x
<1>4. \A i : i \in Placed <=> i \in 0..n - 1
  BY <1>1, <1>x DEF Placed
<1>5. /\ heap \in [0..m - 1 -> 0..m - 1] /\ timer_ids \in [0..m - 1 -> Int]
      /\ dups \in [0..m - 1 -> [entry : Entry \cup {None}, _timer_value : Nat]]
      /\ timer_id \in [Entry -> Ids \cup {-1}] /\ F \in 1..m
  BY <1>x DEF Structure, ArrayType
<1>6. \A i \in 0..n - 1 : OwnId(heap[i]) /\ timer_ids[heap[i]] = i
  BY <1>4 DEF Structure, Places, Located
<1>7. /\ OwnId(id) /\ OwnId(moved) /\ timer_ids[id] = slot /\ timer_ids[moved] = last
      /\ id \in 1..m - 1 /\ moved \in 1..m - 1 /\ e \in Entry /\ timer_id[e] = id
  BY <1>2, <1>3, <1>6, <1>x DEF OwnId
<1>8. slot < last \/ (slot = last /\ moved = id)
  BY <1>3, <1>x
<1>9. slot < last => moved # id
  BY <1>3, <1>7
<1>10. /\ freelist' = id /\ free' = <<id>> \o free /\ cur_size' = last /\ max_size' = m
       /\ timer_id' = [timer_id EXCEPT ![e] = -1]
       /\ dups' = [dups EXCEPT ![id] = NoDup]
       /\ heap' = [[heap EXCEPT ![slot] = moved] EXCEPT ![last] = 0]
  BY <1>1, <1>x DEF remove_node, push_freelist
<1>11. timer_ids' = IF slot < last THEN [[timer_ids EXCEPT ![id] = -F] EXCEPT ![moved] = slot]
                    ELSE [timer_ids EXCEPT ![id] = -F]
  BY <1>1, <1>x DEF remove_node
<1>12. op' = [pc |-> IF slot = last THEN "finish"
                     ELSE IF GoesDown(moved, slot) THEN "down" ELSE "up",
              node |-> IF slot < last THEN moved ELSE 0, slot |-> slot,
              entry |-> e, by |-> by]
  BY <1>1, <1>x DEF remove_node
<1>13. /\ op'.pc = (IF slot = last THEN "finish"
                    ELSE IF GoesDown(moved, slot) THEN "down" ELSE "up")
       /\ op'.node = (IF slot < last THEN moved ELSE 0) /\ op'.slot = slot
       /\ op'.entry = e /\ op'.by = by
  BY <1>12
<1>14. by # "schedule" /\ by # "none"
  BY HeapAssumption
<1>15. /\ Count' = last /\ (Hole' <=> slot < last)
       /\ \A i : i \in Placed' <=> i \in 0..last - 1 /\ i # slot
  <2>1. Count' = last
    BY <1>10, <1>13, <1>14 DEF Count
  <2>2. Hole' <=> slot < last
    BY <1>3, <1>8, <1>13 DEF Hole
  <2> QED BY <1>3, <1>8, <1>13, <2>1, <2>2 DEF Placed
<1>16. /\ timer_id'[e] = -1 /\ \A f \in Entry : f # e => timer_id'[f] = timer_id[f]
  BY <1>5, <1>7, <1>10
<1>17. /\ dups'[id] = NoDup /\ \A i \in 0..m - 1 : i # id => dups'[i] = dups[i]
  <2>1. id \in 0..m - 1
    BY <1>2, <1>7
  <2> QED BY <1>5, <1>10, <2>1
<1>18. /\ heap' \in [0..m - 1 -> 0..m - 1]
       /\ \A i \in 0..m - 1 : i # slot /\ i # last => heap'[i] = heap[i]
  <2>1. slot \in 0..m - 1 /\ last \in 0..m - 1 /\ 0 \in 0..m - 1 /\ moved \in 0..m - 1
    BY <1>2, <1>3, <1>7
  <2> DEFINE h == [heap EXCEPT ![slot] = moved]
  <2>2. h \in [0..m - 1 -> 0..m - 1] /\ \A i \in 0..m - 1 : i # slot => h[i] = heap[i]
    BY <1>5, <2>1
  <2>3. heap' = [h EXCEPT ![last] = 0]
    BY <1>10
  <2> HIDE DEF h
  <2> QED BY <2>1, <2>2, <2>3
<1>19. /\ timer_ids' \in [0..m - 1 -> Int] /\ timer_ids'[id] = -F
       /\ slot < last => timer_ids'[moved] = slot
       /\ \A i \in 0..m - 1 : i # id /\ i # moved => timer_ids'[i] = timer_ids[i]
  <2>1. id \in 0..m - 1 /\ moved \in 0..m - 1 /\ -F \in Int /\ slot \in Int
    BY <1>2, <1>3, <1>5, <1>7
  <2> DEFINE t == [timer_ids EXCEPT ![id] = -F]
  <2>2. /\ t \in [0..m - 1 -> Int] /\ t[id] = -F
        /\ \A i \in 0..m - 1 : i # id => t[i] = timer_ids[i]
    BY <1>5, <2>1
  <2>3. timer_ids' = IF slot < last THEN [t EXCEPT ![moved] = slot] ELSE t
    BY <1>11
  <2> HIDE DEF t
  <2> QED BY <1>9, <2>1, <2>2, <2>3
<1>p. /\ free' \in Seq(Ids) /\ Len(free') = Len(free) + 1 /\ Len(free) \in Nat
      /\ free'[1] = id /\ \A j \in 1..Len(free) : free'[j + 1] = free[j]
  BY <1>2, <1>7, <1>10, PushedList
<1>q. Ids' = Ids
  BY <1>2, <1>10 DEF Ids
<1>20. Scheduled' = Scheduled \ {e} /\ e \in Scheduled
  <2>1. id # -1
    BY <1>7
  <2>2. Scheduled' = {f \in Entry : timer_id'[f] # -1}
    BY DEF Scheduled
  <2> QED BY <1>7, <1>16, <2>1, <2>2 DEF Scheduled
<1>21. ArrayType'
  <2>1. dups' \in [0..m - 1 -> [entry : Entry \cup {None}, _timer_value : Nat]]
    <3> DEFINE D == [entry : Entry \cup {None}, _timer_value : Nat]
    <3>1. NoDup \in D
      BY DEF NoDup
    <3> HIDE DEF D
    <3> QED BY <1>5, <1>10, <3>1 DEF D
  <2>2. timer_id' \in [Entry -> Ids \cup {-1}]
    BY <1>5, <1>10
  <2>3. id \in 1..m
    BY <1>2, <1>7
  <2> QED BY <1>2, <1>3, <1>10, <1>18, <1>19, <1>p, <1>q, <2>1, <2>2, <2>3 DEF ArrayType
<1>22. OpType'
  <2>1. /\ slot \in 0..m - 1 /\ (IF slot < last THEN moved ELSE 0) \in 0..m - 1
    BY <1>2, <1>3, <1>7
  <2>2. op' \in [pc : {"unlocked", "up", "down", "finish"}, node : 0..m - 1,
                 slot : 0..m - 1, entry : Entry \cup {None},
                 by : {"none", "schedule", "cancel"} \cup Poller]
    BY <1>7, <1>12, <2>1
  <2>3. op'.pc # "unlocked" /\ op'.by # "none" /\ op'.by # "schedule"
    BY <1>13, <1>14
  <2> QED BY <1>10, <2>2, <2>3 DEF OpType
<1>23. ASSUME NEW x, OwnId(x), x # id PROVE OwnId(x)' /\ x \in 0..m - 1 /\ dups'[x] = dups[x]
  <2>1. x \in Ids /\ dups[x].entry \in Entry /\ timer_id[dups[x].entry] = x
    BY <1>23 DEF OwnId
  <2>2. x \in 0..m - 1
    BY <1>2, <2>1
  <2>3. dups'[x] = dups[x] /\ dups[x].entry # e
    BY <1>7, <1>17, <1>23, <2>1, <2>2
  <2> QED BY <1>16, <1>q, <2>1, <2>2, <2>3 DEF OwnId
<1>24. Lifted'
  <2> SUFFICES ASSUME slot < last PROVE OwnId(op.node)' /\ slot \in 0..last - 1
    BY <1>13, <1>15 DEF Lifted
  <2>1. OwnId(moved)' /\ op'.node = moved
    BY <1>7, <1>9, <1>13, <1>23
  <2> QED BY <1>3, <2>1 DEF OwnId
<1>k. ASSUME NEW i \in 0..last - 1, i # slot
      PROVE  /\ i \in 0..n - 1 /\ i \in 0..m - 1 /\ heap'[i] = heap[i] /\ OwnId(heap[i])
             /\ timer_ids[heap[i]] = i /\ heap[i] # id /\ heap[i] # moved
  <2>1. i \in 0..n - 1 /\ i \in 0..m - 1 /\ i # last
    BY <1>2, <1>3
  <2>2. heap'[i] = heap[i]
    BY <1>18, <1>k, <2>1
  <2>3. OwnId(heap[i]) /\ timer_ids[heap[i]] = i
    BY <1>6, <2>1
  <2> QED BY <1>7, <1>k, <2>1, <2>2, <2>3
<1>25. Located'
  <2> SUFFICES ASSUME NEW i \in Placed'
               PROVE  OwnId(heap[i])' /\ timer_ids'[heap'[i]] = i /\ heap'[i] # moved
    BY <1>13, <1>15 DEF Located
  <2>1. i \in 0..last - 1 /\ i # slot
    BY <1>15
  <2>2. /\ heap'[i] = heap[i] /\ OwnId(heap[i])
        /\ timer_ids[heap[i]] = i /\ heap[i] # id /\ heap[i] # moved
    BY <1>k, <2>1
  <2>3. PICK y : y = heap[i]
    OBVIOUS
  <2>4. OwnId(y)' /\ y \in 0..m - 1
    BY <1>23, <2>2, <2>3
  <2>5. timer_ids'[y] = timer_ids[y]
    BY <1>19, <2>2, <2>3, <2>4
  <2>6. OwnId(heap[i])'
    BY <2>2, <2>3, <2>4 DEF OwnId
  <2> QED BY <2>2, <2>3, <2>5, <2>6
<1>26. ASSUME NEW f \in Scheduled \ {e}
       PROVE  /\ f \in Entry /\ timer_id'[f] = timer_id[f] /\ OwnId(timer_id[f])
              /\ timer_id[f] # id /\ dups[timer_id[f]].entry = f
              /\ timer_ids[timer_id[f]] \in 0..n - 1
              /\ heap[timer_ids[timer_id[f]]] = timer_id[f]
  <2>1. f \in Entry /\ timer_id[f] \in Ids
    BY Basics
  <2>2. /\ dups[timer_id[f]].entry = f /\ timer_ids[timer_id[f]] \in Placed
        /\ heap[timer_ids[timer_id[f]]] = timer_id[f]
    <3>1. Found
      BY DEF Structure, Places
    <3> QED BY <1>1, <3>1 DEF Found
  <2>3. timer_id[f] # id
    BY <1>x, <2>2
  <2>4. OwnId(timer_id[f])
    BY <2>1, <2>2 DEF OwnId
  <2> QED BY <1>4, <1>16, <2>1, <2>2, <2>3, <2>4
<1>27. Found'
  <2> SUFFICES ASSUME NEW f \in Scheduled \ {e}
               PROVE  /\ dups'[timer_id'[f]].entry = f
                      /\ \/ slot < last /\ timer_id'[f] = moved
                         \/ /\ timer_ids'[timer_id'[f]] \in Placed'
                            /\ heap'[timer_ids'[timer_id'[f]]] = timer_id'[f]
    BY <1>13, <1>15, <1>20 DEF Found
  <2>x. PICK y, i : y = timer_id[f] /\ i = timer_ids[y]
    OBVIOUS
  <2>1. /\ timer_id'[f] = y /\ OwnId(y) /\ y # id /\ dups[y].entry = f
        /\ i \in 0..n - 1 /\ heap[i] = y
    BY <1>26, <2>x
  <2>2. y \in 0..m - 1 /\ dups'[y] = dups[y]
    BY <1>23, <2>1
  <2>3. CASE y = moved
    BY <1>8, <2>1, <2>2, <2>3
  <2>4. CASE y # moved
    <3>1. i # slot /\ i # last
      BY <1>x, <2>1, <2>4
    <3>2. i \in 0..last - 1
      BY <1>3, <2>1, <3>1
    <3>3. heap'[i] = y /\ timer_ids'[y] = i
      BY <1>19, <1>k, <2>1, <2>2, <2>4, <2>x, <3>1, <3>2
    <3> QED BY <1>15, <2>1, <2>2, <3>1, <3>2, <3>3
  <2> QED BY <2>3, <2>4
<1>28. Room' /\ Counted'
  <2>0. /\ Len(free') = Len(free) + 1 /\ Len(free) = m - 1 - n /\ n + 2 <= m
        /\ n = last + 1 /\ last \in Nat /\ m \in Nat
    BY <1>2, <1>3, <1>p
  <2>1. Len(free') = m - 1 - last /\ last + 2 <= m
    BY <2>0
  <2>2. IsFiniteSet(Scheduled) /\ Cardinality(Scheduled) = n
    BY <1>x DEF Structure, Counted
  <2>3. IsFiniteSet(Scheduled \ {e}) /\ Cardinality(Scheduled \ {e}) = n - 1
    BY <1>20, <2>2, FS_RemoveElement
  <2> QED BY <1>10, <1>15, <1>20, <1>x, <2>1, <2>3 DEF Room, Counted
<1>u. \A j \in 1..Len(free) : /\ free[j] \in 0..m - 1 /\ free[j] # id /\ free[j] # moved
                              /\ \A f \in Entry : timer_id[f] # free[j]
  <2> SUFFICES ASSUME NEW j \in 1..Len(free)
               PROVE  /\ free[j] \in 0..m - 1 /\ free[j] # id /\ free[j] # moved
                      /\ \A f \in Entry : timer_id[f] # free[j]
    OBVIOUS
  <2>1. free[j] \in Ids /\ free[j] \in 0..m - 1
    BY <1>2
  <2>2. \A f \in Entry : timer_id[f] # free[j]
    BY <2>1 DEF Structure, FreeIds, Unused
  <2> QED BY <1>7, <2>1, <2>2 DEF OwnId
<1>v. ASSUME NEW j \in 1..Len(free')
      PROVE  j = 1 \/ (j - 1 \in 1..Len(free) /\ free'[j] = free[j - 1])
  <2>1. SUFFICES ASSUME j # 1 PROVE j - 1 \in 1..Len(free) /\ free'[j] = free[j - 1]
    OBVIOUS
  <2>2. j - 1 \in 1..Len(free) /\ j - 1 + 1 = j
    BY <1>p, <2>1
  <2> QED BY <1>p, <2>2
<1>29. Linked'
  <2>1. free' # <<>> /\ freelist' = free'[1]
    BY <1>10, <1>p
  <2>2. ASSUME NEW j \in 1..Len(free')
        PROVE  timer_ids'[free'[j]] = -(IF j = Len(free') THEN m ELSE free'[j + 1])
    <3>1. CASE j = 1
      <4>1. timer_ids'[free'[j]] = -F
        BY <1>19, <1>p, <3>1
      <4>2. F = IF free = <<>> THEN m ELSE free[1]
        BY <1>x DEF Structure, FreeIds, Linked
      <4>3. CASE Len(free) = 0
        BY <1>p, <1>2, <3>1, <4>1, <4>2, <4>3
      <4>4. CASE Len(free) # 0
        <5>1. free # <<>> /\ 1 \in 1..Len(free) /\ j # Len(free')
          BY <1>p, <3>1, <4>4
        <5>2. free'[j + 1] = free[1]
          BY <1>p, <3>1, <5>1
        <5> QED BY <4>1, <4>2, <5>1, <5>2
      <4> QED BY <4>3, <4>4
    <3>2. CASE j # 1
      <4>1. j - 1 \in 1..Len(free) /\ free'[j] = free[j - 1]
        BY <1>v, <3>2
      <4>2. timer_ids'[free'[j]] = timer_ids[free[j - 1]]
        BY <1>19, <1>u, <4>1
      <4>3. \A k \in 1..Len(free) :
               timer_ids[free[k]] = -(IF k = Len(free) THEN m ELSE free[k + 1])
        BY <1>x DEF Structure, FreeIds, Linked
      <4>4. j - 1 + 1 = j /\ (j - 1 = Len(free) <=> j = Len(free'))
        BY <1>p
      <4>5. timer_ids[free[j - 1]] = -(IF j = Len(free') THEN m ELSE free[j])
        BY <4>1, <4>3, <4>4
      <4>6. j # Len(free') => free'[j + 1] = free[j]
        BY <1>p, <3>2
      <4> QED BY <4>2, <4>5, <4>6
    <3> QED BY <3>1, <3>2
  <2> QED BY <1>10, <2>1, <2>2 DEF Linked
<1>30. Distinct'
  <2> SUFFICES ASSUME NEW j \in 1..Len(free'), NEW k \in 1..Len(free'), free'[j] = free'[k]
               PROVE  j = k
    BY DEF Distinct
  <2>1. j = 1 <=> k = 1
    BY <1>p, <1>u, <1>v
  <2>2. CASE j # 1 /\ k # 1
    <3>1. j - 1 \in 1..Len(free) /\ k - 1 \in 1..Len(free) /\ free[j - 1] = free[k - 1]
      BY <1>v, <2>2
    <3>2. j - 1 = k - 1
      BY <3>1 DEF Structure, FreeIds, Distinct
    <3> QED BY <3>2
  <2> QED BY <2>1, <2>2
<1>31. Unused'
  <2> SUFFICES ASSUME NEW y \in Ids
               PROVE  (\E k \in 1..Len(free') : free'[k] = y)
                         <=> (\A f \in Entry : timer_id'[f] # y)
    BY <1>q DEF Unused
  <2>1. (\E k \in 1..Len(free) : free[k] = y) <=> (\A f \in Entry : timer_id[f] # y)
    BY DEF Structure, FreeIds, Unused
  <2>y. y # -1
    BY <1>2
  <2>2. CASE y = id
    <3>1. 1 \in 1..Len(free') /\ free'[1] = y
      BY <1>p, <2>2
    <3>2. ASSUME NEW f \in Entry, timer_id'[f] = y PROVE FALSE
      <4>1. f # e /\ timer_id[f] = id
        BY <1>16, <2>2, <2>y, <3>2
      <4>2. f \in Scheduled \ {e}
        BY <2>y, <2>2, <4>1 DEF Scheduled
      <4> QED BY <1>26, <4>1, <4>2
    <3> QED BY <3>1, <3>2
  <2>3. CASE y # id
    <3>1. (\A f \in Entry : timer_id'[f] # y) <=> (\A f \in Entry : timer_id[f] # y)
      BY <1>7, <1>16, <2>3, <2>y
    <3>2. ASSUME NEW k \in 1..Len(free'), free'[k] = y
          PROVE  \E j \in 1..Len(free) : free[j] = y
      BY <1>p, <1>v, <2>3, <3>2
    <3>3. ASSUME NEW k \in 1..Len(free), free[k] = y
          PROVE  \E j \in 1..Len(free') : free'[j] = y
      <4>1. k + 1 \in 1..Len(free') /\ free'[k + 1] = y
        BY <1>p, <3>3
      <4> QED BY <4>1
    <3> QED BY <2>1, <3>1, <3>2, <3>3
  <2> QED BY <2>2, <2>3
<1>32. Structure'
  BY <1>21, <1>22, <1>24, <1>25, <1>27, <1>28, <1>29, <1>30, <1>31
     DEF Structure, Places, FreeIds
<1>33. \A f \in Scheduled \ {e} : Value(timer_id[f])' = Value(timer_id[f])
  BY <1>23, <1>26 DEF Value
<1>34. \A i \in 0..last - 1 : i # slot => Values'[i] = Values[i]
  <2> SUFFICES ASSUME NEW i \in 0..last - 1, i # slot PROVE Values'[i] = Values[i]
    OBVIOUS
  <2>1. /\ i \in 0..m - 1 /\ heap'[i] = heap[i] /\ OwnId(heap[i]) /\ heap[i] # id
    BY <1>k
  <2>2. dups'[heap[i]] = dups[heap[i]]
    BY <1>23, <2>1
  <2>3. Values'[i] = dups'[heap'[i]]._timer_value
    BY <1>10, <2>1 DEF Values, Value
  <2> QED BY <1>x, <2>1, <2>2, <2>3 DEF Values, Value
<1>35. Order'
  <2>1. /\ Sorted(Values, n) /\ Values \in [0..m - 1 -> Nat] /\ n \in 1..m /\ m \in Nat
    <3>1. n \in 1..m /\ m \in Nat
      BY <1>2, <1>3
    <3>2. Sorted(Values, n)
      BY <1>1, <1>x DEF Order
    <3>3. Values \in [0..m - 1 -> Nat]
      BY <1>x, ValuesType
    <3> QED BY <3>1, <3>2, <3>3
  <2>2. n - 2 = last - 1 /\ n - 1 = last
    BY <1>3
  <2>3. CASE slot = last
    <3>1. \A i \in 0..n - 2 : Values'[i] = Values[i]
      BY <1>3, <1>34, <2>2, <2>3
    <3>2. Sorted(Values', n - 1)
      BY <2>1, <3>1, RemoveLast
    <3> QED BY <1>13, <1>15, <2>2, <2>3, <3>2 DEF Order, Hole
  <2>4. CASE slot < last
    <3> DEFINE x == Value(moved)
               W == Values'
    <3>1. slot \in 0..n - 2 /\ \A i \in 0..n - 2 : i # slot => W[i] = Values[i]
      BY <1>3, <1>34, <2>2, <2>4
    <3>2. moved \in 0..m - 1 /\ x \in Nat
      <4>1. moved \in 0..m - 1
        BY <1>2, <1>7
      <4>2. \A y \in 0..m - 1 : Value(y) \in Nat
        BY <1>x, ValuesType
      <4> QED BY <4>1, <4>2
    <3>3. dups'[moved] = dups[moved] /\ op'.node = moved
      BY <1>7, <1>9, <1>13, <1>23, <2>4
    <3>4. Value(op.node)' = x
      BY <3>3 DEF Value
    <3>5. slot # 0 => Values[HEAP_PARENT(slot)] = Value(heap[HEAP_PARENT(slot)])
                      /\ Values[HEAP_PARENT(slot)] \in Nat
      <4>1. SUFFICES ASSUME slot # 0
                     PROVE  Values[HEAP_PARENT(slot)] = Value(heap[HEAP_PARENT(slot)])
                            /\ Values[HEAP_PARENT(slot)] \in Nat
        OBVIOUS
      <4>2. HEAP_PARENT(slot) \in 0..m - 1
        BY <1>2, <1>3, <4>1, Parent
      <4> QED BY <1>x, <2>1, <4>2, ValuesType
    <3>x. x = Value(moved) /\ W = Values'
      OBVIOUS
    <3> HIDE DEF x, W
    <3>6. /\ slot = 0 \/ Values[HEAP_PARENT(slot)] <= x => Sinking(W, n - 1, slot, x)
          /\ slot # 0 /\ x <= Values[HEAP_PARENT(slot)] => Rising(W, n - 1, slot, x)
      BY <2>1, <3>1, <3>2, RemoveAround
    <3>7. CASE GoesDown(moved, slot)
      <4>1. slot = 0 \/ Values[HEAP_PARENT(slot)] <= x
        BY <3>2, <3>5, <3>7, <3>x DEF GoesDown
      <4>2. op'.pc = "down"
        BY <1>3, <1>13, <2>4, <3>7
      <4> QED BY <1>13, <1>15, <2>2, <3>4, <3>6, <3>x, <4>1, <4>2 DEF Order, Hole
    <3>8. CASE ~ GoesDown(moved, slot)
      <4>1. slot # 0 /\ x <= Values[HEAP_PARENT(slot)]
        BY <3>2, <3>5, <3>8, <3>x DEF GoesDown
      <4>2. op'.pc = "up"
        BY <1>3, <1>13, <2>4, <3>8
      <4> QED BY <1>13, <1>15, <2>2, <3>4, <3>6, <3>x, <4>1, <4>2 DEF Order, Hole
    <3> QED BY <3>7, <3>8
  <2> QED BY <1>8, <2>3, <2>4
<1> QED BY <1>7, <1>13, <1>20, <1>32, <1>33, <1>35, <1>x

-----------------------------------------------------------------------------
(* References and threads.                                                  *)

(* The pollers that use an entry can be counted.                            *)
LEMMA UsersFinite ==
    ASSUME NEW e
    PROVE  IsFiniteSet(Users(e)) /\ Cardinality(Users(e)) \in Nat
<1>1. Users(e) \subseteq Poller
  BY DEF Users
<1>2. IsFiniteSet(Users(e))
  BY <1>1, FS_Subset, HeapAssumption
<1> QED BY <1>2, FS_CardinalityType

(* Steps that neither schedule, remove, finish nor poll.                    *)
LEMMA RestKept ==
    ASSUME Rest, timer_id' = timer_id, op'.by = op.by, op'.entry = op.entry,
           UNCHANGED <<poll, owned, refs, leaked, calls>>,
           now' \in Nat, now <= now'
    PROVE  Rest'
<1>1. Scheduled' = Scheduled
  BY DEF Scheduled
<1>2. \A e : (InHeap(e)' <=> InHeap(e)) /\ Users(e)' = Users(e)
  BY <1>1 DEF InHeap, Users
<1>3. RefsHeld'
  BY <1>2 DEF Rest, RefsHeld
<1>4. OtherType'
  BY DEF Rest, OtherType
<1>5. \A p \in Poller : poll'[p].now <= now'
  BY DEF Rest, Threads, OtherType
<1>6. Threads'
  BY <1>1, <1>5 DEF Rest, Threads
<1> QED BY <1>3, <1>4, <1>6 DEF Rest

(* The owner drops its reference.                                           *)
LEMMA RestRelease ==
    ASSUME Rest, NEW e \in Entry, OwnerReleases(e)
    PROVE  Rest'
<1>1. /\ timer_id' = timer_id /\ op' = op /\ poll' = poll /\ calls' = calls + 1 /\ now' = now
      /\ e \in Grouped /\ owned[e] /\ owned' = [owned EXCEPT ![e] = FALSE]
      /\ refs' = [refs EXCEPT ![e] = @ - 1] /\ leaked' = leaked
  BY DEF OwnerReleases, array, pj_grp_lock_dec_ref
<1>2. Scheduled' = Scheduled
  BY <1>1 DEF Scheduled
<1>3. \A f : (InHeap(f)' <=> InHeap(f)) /\ Users(f)' = Users(f)
  BY <1>1, <1>2 DEF InHeap, Users
<1>4. owned \in [Entry -> BOOLEAN] /\ refs \in [Entry -> Int] /\ Grouped \subseteq Entry
  BY HeapAssumption DEF Rest, OtherType
<1>5. /\ owned' \in [Entry -> BOOLEAN] /\ refs' \in [Entry -> Int]
      /\ \A f \in Entry \ Grouped : refs'[f] = refs[f]
  BY <1>1, <1>4
<1>6. OtherType'
  BY <1>1, <1>5 DEF Rest, OtherType
<1>7. Threads'
  BY <1>1, <1>2 DEF Rest, Threads
<1>8. ASSUME NEW f \in Grouped
      PROVE  refs'[f] = (IF owned'[f] THEN 1 ELSE 0) + (IF InHeap(f) THEN 1 ELSE 0)
                        + Cardinality(Users(f)) + leaked[f]
  <2>1. refs[f] = (IF owned[f] THEN 1 ELSE 0) + (IF InHeap(f) THEN 1 ELSE 0)
                   + Cardinality(Users(f)) + leaked[f]
    BY DEF Rest, RefsHeld
  <2>2. Cardinality(Users(f)) \in Nat /\ leaked[f] \in Nat
    BY UsersFinite, HeapAssumption DEF Rest, OtherType
  <2>3. CASE f = e
    BY <1>1, <1>4, <2>1, <2>2, <2>3
  <2>4. CASE f # e
    BY <1>1, <1>4, <2>1, <2>2, <2>4
  <2> QED BY <2>3, <2>4
<1>9. RefsHeld'
  BY <1>1, <1>3, <1>8 DEF RefsHeld
<1> QED BY <1>6, <1>7, <1>9 DEF Rest

(* An entry that is being inserted has no reference yet.                    *)
LEMMA RestSchedule ==
    ASSUME Structure, Rest, NEW e \in Entry, Schedule(e),
           e \notin Scheduled, Scheduled' = Scheduled \cup {e}
    PROVE  Rest'
<1>1. /\ op'.by = "schedule" /\ op'.entry = e /\ calls' = calls + 1 /\ now' = now
      /\ poll' = poll /\ owned' = owned /\ refs' = refs /\ leaked' = leaked
  BY DEF Schedule
<1>2. op.by = "none"
  BY DEF Schedule, Unlocked, Structure, OpType
<1>3. \A f : (InHeap(f)' <=> InHeap(f)) /\ Users(f)' = Users(f)
  BY <1>1, <1>2 DEF InHeap, Users
<1>4. RefsHeld'
  BY <1>1, <1>3 DEF Rest, RefsHeld
<1>5. OtherType'
  BY <1>1 DEF Rest, OtherType
<1>6. Threads'
  BY <1>1, <1>2, HeapAssumption DEF Rest, Threads
<1> QED BY <1>4, <1>5, <1>6 DEF Rest

(* pj_timer_heap_schedule() takes the reference of the heap.                *)
LEMMA RestInsertDone ==
    ASSUME Structure, Rest, InsertDone
    PROVE  Rest'
<1>x. PICK e : e = op.entry
  OBVIOUS
<1>1. /\ timer_id' = timer_id /\ op' = NoOp /\ poll' = poll /\ calls' = calls /\ now' = now
      /\ owned' = owned /\ op.by = "schedule" /\ op'.by = "none"
      /\ refs' = (IF e \in Grouped THEN [refs EXCEPT ![e] = @ + 1] ELSE refs)
      /\ leaked' = leaked
  BY <1>x DEF InsertDone, pj_grp_lock_add_ref, NoOp
<1>2. Scheduled' = Scheduled /\ e \in Scheduled
  BY <1>1, <1>x DEF Scheduled, Rest, Threads
<1>3. \A f : /\ InHeap(f)' <=> f \in Scheduled
             /\ InHeap(f) <=> f \in Scheduled /\ f # e
             /\ Users(f)' = Users(f)
  BY <1>1, <1>2, <1>x DEF InHeap, Users
<1>4. owned \in [Entry -> BOOLEAN] /\ refs \in [Entry -> Int] /\ Grouped \subseteq Entry
  BY HeapAssumption DEF Rest, OtherType
<1>5. /\ refs' \in [Entry -> Int] /\ \A f \in Entry \ Grouped : refs'[f] = refs[f]
  BY <1>1, <1>4
<1>6. OtherType'
  BY <1>1, <1>5 DEF Rest, OtherType
<1>7. Threads'
  BY <1>1, <1>2, HeapAssumption DEF Rest, Threads
<1>8. ASSUME NEW f \in Grouped
      PROVE  refs'[f] = (IF owned[f] THEN 1 ELSE 0) + (IF f \in Scheduled THEN 1 ELSE 0)
                        + Cardinality(Users(f)) + leaked[f]
  <2>1. refs[f] = (IF owned[f] THEN 1 ELSE 0) + (IF f \in Scheduled /\ f # e THEN 1 ELSE 0)
                   + Cardinality(Users(f)) + leaked[f]
    BY <1>3 DEF Rest, RefsHeld
  <2>2. Cardinality(Users(f)) \in Nat /\ leaked[f] \in Nat
    BY UsersFinite, HeapAssumption DEF Rest, OtherType
  <2>3. CASE f = e
    BY <1>1, <1>2, <1>4, <2>1, <2>2, <2>3
  <2>4. CASE f # e
    BY <1>1, <1>4, <2>1, <2>2, <2>4
  <2> QED BY <2>3, <2>4
<1>9. RefsHeld'
  BY <1>1, <1>3, <1>8 DEF RefsHeld
<1> QED BY <1>6, <1>7, <1>9 DEF Rest

(* An entry that is being cancelled still has its reference.                *)
LEMMA RestCancel ==
    ASSUME Structure, Rest, NEW e \in Scheduled, Unlocked, Scheduled' = Scheduled \ {e},
           op'.by = "cancel", op'.entry = e, calls' = calls + 1,
           UNCHANGED <<now, poll, owned, refs, leaked>>
    PROVE  Rest'
<1>1. op.by = "none" /\ e \in Entry
  BY DEF Unlocked, Structure, OpType, Scheduled
<1>2. \A f : (InHeap(f)' <=> InHeap(f)) /\ Users(f)' = Users(f)
  BY <1>1 DEF InHeap, Users
<1>3. RefsHeld'
  BY <1>2 DEF Rest, RefsHeld
<1>4. OtherType'
  BY DEF Rest, OtherType
<1>5. Threads'
  BY <1>1, HeapAssumption DEF Rest, Threads
<1> QED BY <1>3, <1>4, <1>5 DEF Rest

(* cancel() gives the reference of the heap back.                           *)
LEMMA RestCancelDone ==
    ASSUME Structure, Rest, CancelDone
    PROVE  Rest'
<1>x. PICK e : e = op.entry
  OBVIOUS
<1>1. /\ timer_id' = timer_id /\ op' = NoOp /\ poll' = poll /\ calls' = calls /\ now' = now
      /\ owned' = owned /\ op.by = "cancel" /\ op'.by = "none"
      /\ refs' = (IF e \in Grouped THEN [refs EXCEPT ![e] = @ - 1] ELSE refs)
      /\ leaked' = leaked
  BY <1>x DEF CancelDone, pj_grp_lock_dec_ref, NoOp, array
<1>2. Scheduled' = Scheduled /\ e \in Entry \ Scheduled
  BY <1>1, <1>x DEF Scheduled, Rest, Threads
<1>3. \A f : /\ InHeap(f)' <=> f \in Scheduled
             /\ InHeap(f) <=> f \in Scheduled \/ f = e
             /\ Users(f)' = Users(f)
  BY <1>1, <1>2, <1>x DEF InHeap, Users
<1>4. owned \in [Entry -> BOOLEAN] /\ refs \in [Entry -> Int] /\ Grouped \subseteq Entry
  BY HeapAssumption DEF Rest, OtherType
<1>5. /\ refs' \in [Entry -> Int] /\ \A f \in Entry \ Grouped : refs'[f] = refs[f]
  BY <1>1, <1>4
<1>6. OtherType'
  BY <1>1, <1>5 DEF Rest, OtherType
<1>7. Threads'
  BY <1>1, <1>2, HeapAssumption DEF Rest, Threads
<1>8. ASSUME NEW f \in Grouped
      PROVE  refs'[f] = (IF owned[f] THEN 1 ELSE 0) + (IF f \in Scheduled THEN 1 ELSE 0)
                        + Cardinality(Users(f)) + leaked[f]
  <2>1. refs[f] = (IF owned[f] THEN 1 ELSE 0) + (IF f \in Scheduled \/ f = e THEN 1 ELSE 0)
                   + Cardinality(Users(f)) + leaked[f]
    BY <1>3 DEF Rest, RefsHeld
  <2>2. Cardinality(Users(f)) \in Nat /\ leaked[f] \in Nat
    BY UsersFinite, HeapAssumption DEF Rest, OtherType
  <2>3. CASE f = e
    BY <1>1, <1>2, <1>4, <2>1, <2>2, <2>3
  <2>4. CASE f # e
    BY <1>1, <1>4, <2>1, <2>2, <2>4
  <2> QED BY <2>3, <2>4
<1>9. RefsHeld'
  BY <1>1, <1>3, <1>8 DEF RefsHeld
<1> QED BY <1>6, <1>7, <1>9 DEF Rest

(* The poller p takes e out of the heap, and the heap's reference with it.  *)
LEMMA RestTake ==
    ASSUME Structure, Rest, NEW e \in Scheduled, Unlocked, Scheduled' = Scheduled \ {e},
           NEW p \in Poller, op'.by = p, op'.entry = e, calls' \in Nat,
           poll[p].pc \in {"idle", "relock"}, NEW time \in Nat, NEW count \in Nat, time <= now,
           poll' = [poll EXCEPT ![p] = [pc |-> "removing", entry |-> e,
                                        now |-> time, count |-> count + 1]],
           UNCHANGED <<now, owned, refs, leaked>>
    PROVE  Rest'
<1>1. op.by = "none" /\ e \in Entry
  BY DEF Unlocked, Structure, OpType, Scheduled
<1>2. /\ poll \in [Poller -> [pc : {"idle", "removing", "callback", "relock"},
                              entry : Entry \cup {None}, now : Nat, count : Nat]]
      /\ None \notin Entry /\ Grouped \subseteq Entry
  BY HeapAssumption DEF Rest, OtherType
<1>3. poll[p].entry = None
  BY DEF Rest, Threads
<1> DEFINE new == [pc |-> "removing", entry |-> e, now |-> time, count |-> count + 1]
<1>4. /\ new \in [pc : {"idle", "removing", "callback", "relock"},
                  entry : Entry \cup {None}, now : Nat, count : Nat]
      /\ new.pc = "removing" /\ new.entry = e /\ new.now = time
  BY <1>1
<1>5. poll' = [poll EXCEPT ![p] = new]
  OBVIOUS
<1> HIDE DEF new
<1>6. /\ poll' \in [Poller -> [pc : {"idle", "removing", "callback", "relock"},
                               entry : Entry \cup {None}, now : Nat, count : Nat]]
      /\ poll'[p] = new /\ \A q \in Poller : q # p => poll'[q] = poll[q]
  BY <1>2, <1>4, <1>5
<1>7. Users(e)' = Users(e) \cup {p} /\ p \notin Users(e)
  BY <1>1, <1>2, <1>3, <1>4, <1>6 DEF Users
<1>8. \A f : f # e /\ f # None => Users(f)' = Users(f)
  BY <1>3, <1>4, <1>6 DEF Users
<1>9. \A f : /\ InHeap(f) <=> f \in Scheduled
             /\ InHeap(f)' <=> f \in Scheduled /\ f # e
  BY <1>1, HeapAssumption DEF InHeap
<1>10. OtherType'
  BY <1>6 DEF Rest, OtherType
<1>11. Threads'
  <2>1. op'.by # "schedule" /\ op'.by # "cancel"
    BY HeapAssumption
  <2>2. ASSUME NEW q \in Poller
        PROVE  /\ op'.by = q <=> poll'[q].pc = "removing"
               /\ poll'[q].entry = None <=> poll'[q].pc \in {"idle", "relock"}
               /\ poll'[q].now <= now'
    <3>1. /\ op.by = q <=> poll[q].pc = "removing"
          /\ poll[q].entry = None <=> poll[q].pc \in {"idle", "relock"}
          /\ poll[q].now <= now
      BY DEF Rest, Threads
    <3>2. op.by # q
      BY <1>1, HeapAssumption
    <3>3. CASE q = p
      BY <1>1, <1>2, <1>4, <1>6, <3>3
    <3>4. CASE q # p
      BY <1>6, <3>1, <3>2, <3>4
    <3> QED BY <3>3, <3>4
  <2> QED BY <2>1, <2>2 DEF Threads
<1>12. ASSUME NEW f \in Grouped
       PROVE  refs[f] = (IF owned[f] THEN 1 ELSE 0) + (IF f \in Scheduled /\ f # e THEN 1 ELSE 0)
                        + Cardinality(Users(f)') + leaked[f]
  <2>1. refs[f] = (IF owned[f] THEN 1 ELSE 0) + (IF f \in Scheduled THEN 1 ELSE 0)
                   + Cardinality(Users(f)) + leaked[f]
    BY <1>9 DEF Rest, RefsHeld
  <2>2. Cardinality(Users(f)) \in Nat /\ IsFiniteSet(Users(f)) /\ leaked[f] \in Nat
    BY UsersFinite, HeapAssumption DEF Rest, OtherType
  <2>3. CASE f = e
    <3>1. Cardinality(Users(e)') = Cardinality(Users(e)) + 1
      <4>1. Cardinality(Users(e) \cup {p}) = Cardinality(Users(e)) + 1
        BY <1>7, <2>2, <2>3, FS_AddElement
      <4> QED BY <1>7, <4>1
    <3> QED BY <2>1, <2>2, <2>3, <3>1
  <2>4. CASE f # e
    BY <1>2, <1>8, <2>1, <2>4
  <2> QED BY <2>3, <2>4
<1>13. RefsHeld'
  BY <1>9, <1>12 DEF RefsHeld
<1> QED BY <1>10, <1>11, <1>13 DEF Rest

(* The reference of the heap passes to the poller.                          *)
LEMMA RestUnlock ==
    ASSUME Structure, Rest, NEW p \in Poller, PollUnlock(p)
    PROVE  Rest'
<1>1. /\ timer_id' = timer_id /\ op' = NoOp /\ calls' = calls /\ now' = now
      /\ leaked' = leaked
      /\ owned' = owned /\ refs' = refs /\ op.by = p /\ op'.by = "none"
      /\ poll' = [poll EXCEPT ![p].pc = "callback"]
  BY DEF PollUnlock, NoOp, array
<1>2. poll \in [Poller -> [pc : {"idle", "removing", "callback", "relock"},
                           entry : Entry \cup {None}, now : Nat, count : Nat]]
  BY DEF Rest, OtherType
<1>3. /\ poll' \in [Poller -> [pc : {"idle", "removing", "callback", "relock"},
                               entry : Entry \cup {None}, now : Nat, count : Nat]]
      /\ \A q \in Poller : poll'[q].entry = poll[q].entry /\ poll'[q].now = poll[q].now
      /\ poll'[p].pc = "callback" /\ \A q \in Poller : q # p => poll'[q].pc = poll[q].pc
  BY <1>1, <1>2
<1>4. Scheduled' = Scheduled
  BY <1>1 DEF Scheduled
<1>5. \A f : (InHeap(f)' <=> InHeap(f)) /\ Users(f)' = Users(f)
  BY <1>1, <1>3, <1>4, HeapAssumption DEF InHeap, Users
<1>6. RefsHeld'
  BY <1>1, <1>5 DEF Rest, RefsHeld
<1>7. OtherType'
  BY <1>1, <1>3 DEF Rest, OtherType
<1>8. Threads'
  <2>1. ASSUME NEW q \in Poller
        PROVE  /\ op'.by = q <=> poll'[q].pc = "removing"
               /\ poll'[q].entry = None <=> poll'[q].pc \in {"idle", "relock"}
               /\ poll'[q].now <= now'
    <3>1. /\ op.by = q <=> poll[q].pc = "removing"
          /\ poll[q].entry = None <=> poll[q].pc \in {"idle", "relock"}
          /\ poll[q].now <= now /\ poll[p].pc = "removing"
      BY <1>1 DEF Rest, Threads
    <3>2. op'.by # q
      BY <1>1, HeapAssumption
    <3>3. CASE q = p
      BY <1>1, <1>3, <3>1, <3>2, <3>3
    <3>4. CASE q # p
      BY <1>1, <1>3, <3>1, <3>2, <3>4
    <3> QED BY <3>3, <3>4
  <2> QED BY <1>1, <2>1 DEF Threads
<1> QED BY <1>6, <1>7, <1>8 DEF Rest

(* The poller gives the reference back after the callback.                  *)
LEMMA RestReturns ==
    ASSUME Structure, Rest, NEW p \in Poller, CallbackReturns(p)
    PROVE  Rest' /\ poll[p].entry # None
           /\ \A q \in Poller : poll'[q].entry = IF q = p THEN None ELSE poll[q].entry
<1>x. PICK e : e = poll[p].entry
  OBVIOUS
<1>1. /\ timer_id' = timer_id /\ op' = op /\ calls' = calls /\ now' = now
      /\ owned' = owned /\ poll[p].pc = "callback"
      /\ poll' = [poll EXCEPT ![p].pc = "relock", ![p].entry = None]
      /\ refs' = (IF e \in Grouped THEN [refs EXCEPT ![e] = @ - 1] ELSE refs)
      /\ leaked' = leaked
  BY <1>x DEF CallbackReturns, pj_grp_lock_dec_ref, array
<1>2. /\ poll \in [Poller -> [pc : {"idle", "removing", "callback", "relock"},
                              entry : Entry \cup {None}, now : Nat, count : Nat]]
      /\ None \notin Entry /\ Grouped \subseteq Entry
      /\ owned \in [Entry -> BOOLEAN] /\ refs \in [Entry -> Int]
  BY HeapAssumption DEF Rest, OtherType
<1>3. e # None /\ e \in Entry /\ op.by # p
  <2>1. /\ op.by = p <=> poll[p].pc = "removing"
        /\ poll[p].entry = None <=> poll[p].pc \in {"idle", "relock"}
    BY DEF Rest, Threads
  <2> QED BY <1>1, <1>2, <1>x, <2>1
<1>4. /\ poll' \in [Poller -> [pc : {"idle", "removing", "callback", "relock"},
                               entry : Entry \cup {None}, now : Nat, count : Nat]]
      /\ \A q \in Poller : poll'[q].now = poll[q].now
      /\ poll'[p].pc = "relock" /\ poll'[p].entry = None
      /\ \A q \in Poller : q # p => poll'[q] = poll[q]
  BY <1>1, <1>2
<1>5. Scheduled' = Scheduled
  BY <1>1 DEF Scheduled
<1>6. \A f : InHeap(f)' <=> InHeap(f)
  BY <1>1, <1>5 DEF InHeap
<1>7. Users(e)' = Users(e) \ {p} /\ p \in Users(e)
  BY <1>3, <1>4, <1>x DEF Users
<1>8. \A f : f # e /\ f # None => Users(f)' = Users(f)
  BY <1>4, <1>x DEF Users
<1>9. OtherType'
  <2>1. /\ refs' \in [Entry -> Int] /\ \A f \in Entry \ Grouped : refs'[f] = refs[f]
    BY <1>1, <1>2
  <2> QED BY <1>1, <1>4, <2>1 DEF Rest, OtherType
<1>10. Threads'
  <2>1. ASSUME NEW q \in Poller
        PROVE  /\ op'.by = q <=> poll'[q].pc = "removing"
               /\ poll'[q].entry = None <=> poll'[q].pc \in {"idle", "relock"}
               /\ poll'[q].now <= now'
    <3>1. /\ op.by = q <=> poll[q].pc = "removing"
          /\ poll[q].entry = None <=> poll[q].pc \in {"idle", "relock"}
          /\ poll[q].now <= now
      BY DEF Rest, Threads
    <3>2. CASE q = p
      BY <1>1, <1>3, <1>4, <3>1, <3>2
    <3>3. CASE q # p
      BY <1>1, <1>4, <3>1, <3>3
    <3> QED BY <3>2, <3>3
  <2> QED BY <1>1, <1>5, <2>1 DEF Rest, Threads
<1>11. ASSUME NEW f \in Grouped
       PROVE  refs'[f] = (IF owned[f] THEN 1 ELSE 0) + (IF InHeap(f) THEN 1 ELSE 0)
                         + Cardinality(Users(f)') + leaked[f]
  <2>1. refs[f] = (IF owned[f] THEN 1 ELSE 0) + (IF InHeap(f) THEN 1 ELSE 0)
                   + Cardinality(Users(f)) + leaked[f]
    BY DEF Rest, RefsHeld
  <2>2. Cardinality(Users(f)) \in Nat /\ IsFiniteSet(Users(f)) /\ leaked[f] \in Nat
    BY UsersFinite, HeapAssumption DEF Rest, OtherType
  <2>3. CASE f = e
    <3>1. Cardinality(Users(e)') = Cardinality(Users(e)) - 1
      <4>1. Cardinality(Users(e) \ {p}) = Cardinality(Users(e)) - 1
        BY <1>7, <2>2, <2>3, FS_RemoveElement
      <4> QED BY <1>7, <4>1
    <3>2. refs'[f] = refs[f] - 1
      BY <1>1, <1>2, <2>3
    <3> QED BY <2>1, <2>2, <2>3, <3>1, <3>2
  <2>4. CASE f # e
    <3>1. refs'[f] = refs[f]
      BY <1>1, <1>2, <2>4
    <3> QED BY <1>2, <1>8, <2>1, <2>4, <3>1
  <2> QED BY <2>3, <2>4
<1>12. RefsHeld'
  BY <1>1, <1>6, <1>11 DEF RefsHeld
<1> QED BY <1>3, <1>4, <1>9, <1>10, <1>12, <1>x DEF Rest

(* The reference stays for ever when the entry was rewritten.               *)
LEMMA RestSkips ==
    ASSUME Structure, Rest, NEW p \in Poller, PollSkips(p)
    PROVE  Rest' /\ poll[p].entry # None
           /\ \A q \in Poller : poll'[q].entry = IF q = p THEN None ELSE poll[q].entry
<1>x. PICK e : e = poll[p].entry
  OBVIOUS
<1>1. /\ timer_id' = timer_id /\ op' = NoOp /\ op'.by = "none" /\ calls' = calls /\ now' = now
      /\ owned' = owned /\ refs' = refs /\ op.by = p
      /\ poll' = [poll EXCEPT ![p].pc = "relock", ![p].entry = None]
      /\ leaked' = [leaked EXCEPT ![e] = @ + 1]
  BY <1>x DEF PollSkips, NoOp, array
<1>2. /\ poll \in [Poller -> [pc : {"idle", "removing", "callback", "relock"},
                              entry : Entry \cup {None}, now : Nat, count : Nat]]
      /\ None \notin Entry /\ Grouped \subseteq Entry
      /\ owned \in [Entry -> BOOLEAN] /\ refs \in [Entry -> Int] /\ leaked \in [Entry -> Nat]
  BY HeapAssumption DEF Rest, OtherType
<1>3. e # None /\ e \in Entry
  <2>1. /\ op.by = p <=> poll[p].pc = "removing"
        /\ poll[p].entry = None <=> poll[p].pc \in {"idle", "relock"}
    BY DEF Rest, Threads
  <2> QED BY <1>1, <1>2, <1>x, <2>1
<1>4. /\ poll' \in [Poller -> [pc : {"idle", "removing", "callback", "relock"},
                               entry : Entry \cup {None}, now : Nat, count : Nat]]
      /\ \A q \in Poller : poll'[q].now = poll[q].now
      /\ poll'[p].pc = "relock" /\ poll'[p].entry = None
      /\ \A q \in Poller : q # p => poll'[q] = poll[q]
  <2>1. poll' = [poll EXCEPT ![p].pc = "relock", ![p].entry = None]
    BY <1>1
  <2>x. PICK old, new : old = poll[p] /\ new = [[old EXCEPT !.pc = "relock"] EXCEPT !.entry = None]
    OBVIOUS
  <2>2. old \in [pc : {"idle", "removing", "callback", "relock"},
                 entry : Entry \cup {None}, now : Nat, count : Nat]
    BY <1>2, <2>x
  <2>3. /\ new.pc = "relock" /\ new.entry = None /\ new.now = old.now
        /\ new \in [pc : {"idle", "removing", "callback", "relock"},
                    entry : Entry \cup {None}, now : Nat, count : Nat]
    BY <2>2, <2>x
  <2>4. poll' = [poll EXCEPT ![p] = new]
    BY <1>2, <2>1, <2>x
  <2>5. poll'[p] = new /\ \A q \in Poller : q # p => poll'[q] = poll[q]
    BY <1>2, <2>4
  <2>6. poll' \in [Poller -> [pc : {"idle", "removing", "callback", "relock"},
                              entry : Entry \cup {None}, now : Nat, count : Nat]]
    BY <1>2, <2>3, <2>4
  <2> QED BY <2>3, <2>5, <2>6, <2>x
<1>5. Scheduled' = Scheduled
  BY <1>1 DEF Scheduled
<1>6. \A f : InHeap(f)' <=> InHeap(f)
  BY <1>1, <1>5, HeapAssumption DEF InHeap
<1>7. Users(e)' = Users(e) \ {p} /\ p \in Users(e)
  BY <1>3, <1>4, <1>x DEF Users
<1>8. \A f : f # e /\ f # None => Users(f)' = Users(f)
  BY <1>4, <1>x DEF Users
<1>9. OtherType'
  <2>1. leaked' \in [Entry -> Nat]
    <3>1. leaked' = [leaked EXCEPT ![e] = @ + 1]
      BY <1>1
    <3> QED BY <1>2, <1>3, <3>1
  <2> QED BY <1>1, <1>4, <2>1 DEF Rest, OtherType
<1>10. Threads'
  <2>1. ASSUME NEW q \in Poller
        PROVE  /\ op'.by = q <=> poll'[q].pc = "removing"
               /\ poll'[q].entry = None <=> poll'[q].pc \in {"idle", "relock"}
               /\ poll'[q].now <= now'
    <3>1. /\ op.by = q <=> poll[q].pc = "removing"
          /\ poll[q].entry = None <=> poll[q].pc \in {"idle", "relock"}
          /\ poll[q].now <= now
      BY DEF Rest, Threads
    <3>a. op'.by # q
      BY <1>1, HeapAssumption
    <3>2. CASE q = p
      BY <1>1, <1>3, <1>4, <3>1, <3>2, <3>a
    <3>3. CASE q # p
      BY <1>1, <1>4, <3>1, <3>3, <3>a
    <3> QED BY <3>2, <3>3
  <2> QED BY <1>1, <2>1 DEF Threads
<1>11. ASSUME NEW f \in Grouped
       PROVE  refs[f] = (IF owned[f] THEN 1 ELSE 0) + (IF InHeap(f) THEN 1 ELSE 0)
                        + Cardinality(Users(f)') + leaked'[f]
  <2>1. refs[f] = (IF owned[f] THEN 1 ELSE 0) + (IF InHeap(f) THEN 1 ELSE 0)
                   + Cardinality(Users(f)) + leaked[f]
    BY DEF Rest, RefsHeld
  <2>2. Cardinality(Users(f)) \in Nat /\ IsFiniteSet(Users(f)) /\ leaked[f] \in Nat
    BY UsersFinite, HeapAssumption DEF Rest, OtherType
  <2>3. CASE f = e
    <3>1. Cardinality(Users(e)') = Cardinality(Users(e)) - 1
      <4>1. Cardinality(Users(e) \ {p}) = Cardinality(Users(e)) - 1
        BY <1>7, <2>2, <2>3, FS_RemoveElement
      <4> QED BY <1>7, <4>1
    <3>2. leaked'[f] = leaked[f] + 1
      BY <1>1, <1>2, <2>3
    <3> QED BY <2>1, <2>2, <2>3, <3>1, <3>2
  <2>4. CASE f # e
    <3>1. leaked'[f] = leaked[f]
      BY <1>1, <1>2, <2>4
    <3> QED BY <1>2, <1>8, <2>1, <2>4, <3>1
  <2> QED BY <2>3, <2>4
<1>12. RefsHeld'
  BY <1>1, <1>6, <1>11 DEF RefsHeld
<1> QED BY <1>3, <1>4, <1>9, <1>10, <1>12, <1>x DEF Rest

(* A poll that returns holds no reference.                                  *)
LEMMA RestPollReturns ==
    ASSUME Structure, Rest, NEW p \in Poller, PollReturns(p)
    PROVE  Rest' /\ \A q \in Poller : poll'[q].entry = poll[q].entry
<1>1. /\ timer_id' = timer_id /\ op' = op /\ calls' = calls /\ now' = now
      /\ leaked' = leaked
      /\ owned' = owned /\ refs' = refs /\ poll[p].pc = "relock"
      /\ poll' = [poll EXCEPT ![p] = NotPolling]
  BY DEF PollReturns, array
<1>2. /\ poll \in [Poller -> [pc : {"idle", "removing", "callback", "relock"},
                              entry : Entry \cup {None}, now : Nat, count : Nat]]
      /\ NotPolling \in [pc : {"idle", "removing", "callback", "relock"},
                         entry : Entry \cup {None}, now : Nat, count : Nat]
      /\ NotPolling.pc = "idle" /\ NotPolling.entry = None /\ NotPolling.now = 0
      /\ now \in Nat
  BY DEF Rest, OtherType, NotPolling
<1>3. poll[p].entry = None /\ op.by # p
  BY <1>1 DEF Rest, Threads
<1>4. /\ poll' \in [Poller -> [pc : {"idle", "removing", "callback", "relock"},
                               entry : Entry \cup {None}, now : Nat, count : Nat]]
      /\ poll'[p] = NotPolling /\ \A q \in Poller : q # p => poll'[q] = poll[q]
  BY <1>1, <1>2
<1>5. \A q \in Poller : poll'[q].entry = poll[q].entry
  BY <1>2, <1>3, <1>4
<1>6. Scheduled' = Scheduled
  BY <1>1 DEF Scheduled
<1>7. \A f : (InHeap(f)' <=> InHeap(f)) /\ Users(f)' = Users(f)
  BY <1>1, <1>5, <1>6 DEF InHeap, Users
<1>8. RefsHeld'
  BY <1>1, <1>7 DEF Rest, RefsHeld
<1>9. OtherType'
  BY <1>1, <1>4 DEF Rest, OtherType
<1>10. Threads'
  <2>1. ASSUME NEW q \in Poller
        PROVE  /\ op'.by = q <=> poll'[q].pc = "removing"
               /\ poll'[q].entry = None <=> poll'[q].pc \in {"idle", "relock"}
               /\ poll'[q].now <= now'
    <3>1. /\ op.by = q <=> poll[q].pc = "removing"
          /\ poll[q].entry = None <=> poll[q].pc \in {"idle", "relock"}
          /\ poll[q].now <= now
      BY DEF Rest, Threads
    <3>2. CASE q = p
      BY <1>1, <1>2, <1>3, <1>4, <3>2
    <3>3. CASE q # p
      BY <1>1, <1>4, <3>1, <3>3
    <3> QED BY <3>2, <3>3
  <2> QED BY <1>1, <1>6, <2>1 DEF Rest, Threads
<1> QED BY <1>5, <1>8, <1>9, <1>10 DEF Rest

-----------------------------------------------------------------------------
(* A removal, by cancel() and by a poll.                                    *)

(* cancel() of a scheduled entry takes that entry out.                      *)
LEMMA CancelStep ==
    ASSUME IndInv, NEW e \in Entry, Cancel(e)
    PROVE  /\ IndInv' /\ e \in Scheduled /\ Scheduled' = Scheduled \ {e} /\ poll' = poll
           /\ now' = now
           /\ \A f \in Scheduled \ {e} : Value(timer_id[f])' = Value(timer_id[f])
<1> DEFINE slot == timer_ids[timer_id[e]]
<1>0. timer_id[e] \in Ids \cup {-1} /\ max_size \in Nat
  BY DEF IndInv, Structure, ArrayType
<1>1. PICK grp_lock \in GrpLockRead(e) :
         /\ Unlocked /\ ~ (timer_id[e] < 0) /\ dups[heap[slot]].entry = e
         /\ remove_node(slot, "cancel", grp_lock)
         /\ UNCHANGED <<now, poll, owned, refs, leaked>> /\ calls' = calls + 1
  BY DEF Cancel, Cancellable, OutOfRange
<1>2. e \in Scheduled /\ timer_id[e] \in 0..max_size - 1
  BY <1>0, <1>1 DEF Scheduled, Ids
<1>a. grp_lock = e
  <2>1. Found /\ DOMAIN dups = 0..max_size - 1
    BY DEF IndInv, Structure, Places, ArrayType
  <2> QED BY <1>1, <1>2, <2>1 DEF Found, GrpLockRead
<1>3. Count = cur_size /\ ~ Hole
  BY <1>1 DEF IndInv, Structure, OpType, Unlocked, Count, Hole
<1>4. slot \in 0..cur_size - 1
  <2>1. Found
    BY DEF IndInv, Structure, Places
  <2>2. slot \in Placed
    BY <1>2, <1>3, <2>1 DEF Found
  <2> QED BY <1>3, <2>2 DEF Placed
<1> HIDE DEF slot
<1>5. /\ Structure' /\ Order' /\ Scheduled' = Scheduled \ {e}
      /\ op'.entry = e /\ op'.by = "cancel"
      /\ \A f \in Scheduled \ {e} : Value(timer_id[f])' = Value(timer_id[f])
  BY <1>1, <1>4, <1>a, RemoveStep DEF IndInv
<1>6. Rest'
  BY <1>1, <1>2, <1>5, RestCancel DEF IndInv
<1> QED BY <1>1, <1>2, <1>5, <1>6 DEF IndInv

(* An entry that cancel() does not find has the id -1 already.              *)
LEMMA NothingToCancel ==
    ASSUME IndInv, NEW e \in Entry, CancelNothing(e)
    PROVE  timer_id' = timer_id
<1>1. /\ Unlocked /\ ~ Cancellable(e) /\ timer_id' = [timer_id EXCEPT ![e] = -1]
  BY DEF CancelNothing
<1>2. /\ timer_id \in [Entry -> Ids \cup {-1}] /\ Found /\ ~ Hole /\ Count \in Nat
      /\ max_size \in Nat
  BY <1>1, Basics DEF IndInv, Structure, ArrayType, OpType, Places, Unlocked, Hole
<1>3. e \notin Scheduled
  <2> SUFFICES ASSUME e \in Scheduled PROVE FALSE
    OBVIOUS
  <2>1. /\ timer_ids[timer_id[e]] \in Placed /\ heap[timer_ids[timer_id[e]]] = timer_id[e]
        /\ dups[timer_id[e]].entry = e
    BY <1>2 DEF Found
  <2>2. timer_ids[timer_id[e]] >= 0
    BY <1>2, <2>1 DEF Placed
  <2>3. ~ OutOfRange(e)
    BY <1>2 DEF OutOfRange, Scheduled, Ids
  <2> QED BY <1>1, <2>1, <2>2, <2>3 DEF Cancellable
<1>4. timer_id[e] = -1
  BY <1>3 DEF Scheduled
<1> QED BY <1>1, <1>2, <1>4

(* What a poller takes is due and has the earliest deadline.                *)
LEMMA TakeStep ==
    ASSUME IndInv, NEW p \in Poller, poll[p].pc \in {"idle", "relock"},
           NEW time \in Nat, NEW count \in Nat, time <= now, PollTake(p, time, count),
           calls' \in Nat
    PROVE  \E e \in Scheduled :
              /\ IndInv' /\ Scheduled' = Scheduled \ {e} /\ now' = now /\ poll[p].entry = None
              /\ Value(timer_id[e]) <= now
              /\ \A f \in Scheduled : Value(timer_id[e]) <= Value(timer_id[f])
              /\ \A q \in Poller : poll'[q].entry = IF q = p THEN e ELSE poll[q].entry
              /\ \A f \in Scheduled \ {e} : Value(timer_id[f])' = Value(timer_id[f])
<1>x. PICK e : e = dups[heap[0]].entry
  OBVIOUS
<1>1. /\ Unlocked /\ cur_size > 0 /\ Value(heap[0]) <= time /\ remove_node(0, p, e)
      /\ poll' = [poll EXCEPT ![p] = [pc |-> "removing", entry |-> e,
                                      now |-> time, count |-> count + 1]]
      /\ UNCHANGED <<now, owned, refs, leaked>>
  BY <1>x DEF PollTake, Due
<1>2. Count = cur_size /\ ~ Hole /\ Count \in Nat /\ max_size \in Nat /\ Count + 2 <= max_size
  BY <1>1, Basics DEF IndInv, Structure, OpType, Unlocked, Count, Hole
<1>3. 0 \in 0..cur_size - 1 /\ 0 \in 0..max_size - 1
  BY <1>1, <1>2
<1>4. /\ Structure' /\ Order' /\ e \in Scheduled /\ Scheduled' = Scheduled \ {e}
      /\ timer_id[e] = heap[0] /\ op'.entry = e /\ op'.by = p
      /\ \A f \in Scheduled \ {e} : Value(timer_id[f])' = Value(timer_id[f])
  BY <1>1, <1>3, <1>x, RemoveStep DEF IndInv
<1>5. Rest'
  BY <1>1, <1>4, RestTake DEF IndInv
<1>6. poll[p].entry = None
  BY DEF IndInv, Rest, Threads
<1>7. now \in Nat /\ poll \in [Poller -> [pc : {"idle", "removing", "callback", "relock"},
                            entry : Entry \cup {None}, now : Nat, count : Nat]]
  BY DEF IndInv, Rest, OtherType
<1>8. \A q \in Poller : poll'[q].entry = IF q = p THEN e ELSE poll[q].entry
  BY <1>1, <1>7
<1>9. Values[0] = Value(heap[0]) /\ Values[0] \in Nat
  BY <1>3, ValuesType DEF IndInv
<1>10. Value(timer_id[e]) <= now
  BY <1>1, <1>4, <1>7, <1>9
<1>11. ASSUME NEW f \in Scheduled PROVE Value(timer_id[e]) <= Value(timer_id[f])
  <2>x. PICK i : i = timer_ids[timer_id[f]]
    OBVIOUS
  <2>1. Found
    BY DEF IndInv, Structure, Places
  <2>2. i \in Placed /\ heap[i] = timer_id[f]
    BY <1>2, <2>1, <2>x DEF Found
  <2>3. i \in 0..Count - 1 /\ i \in 0..max_size - 1
    BY <1>2, <2>2 DEF Placed
  <2>4. Sorted(Values, Count) /\ Values \in [0..max_size - 1 -> Nat] /\ Count \in 0..max_size
    BY <1>2, ValuesType DEF IndInv, Order
  <2>5. Values[0] <= Values[i]
    BY <1>2, <2>3, <2>4, RootIsLeast
  <2>6. Values[i] = Value(heap[i])
    BY <2>3, ValuesType DEF IndInv
  <2> QED BY <1>4, <1>9, <2>2, <2>5, <2>6
<1> QED BY <1>1, <1>4, <1>5, <1>6, <1>8, <1>10, <1>11 DEF IndInv

-----------------------------------------------------------------------------
(* The queue of deadlines.                                                  *)

Deadline == [e \in Entry |-> IF timer_id[e] = -1 THEN Idle ELSE Value(timer_id[e])]
Firing == [p \in Poller |-> poll[p].entry]

(* The refinement mapping, before and after a step.                         *)
LEMMA DeadlineIs ==
    /\ \A e \in Entry : Deadline[e] = IF e \in Scheduled THEN Value(timer_id[e]) ELSE Idle
    /\ \A e \in Entry : Deadline'[e] = IF e \in Scheduled' THEN Value(timer_id[e])' ELSE Idle
    /\ Deadline = [e \in Entry |-> Deadline[e]] /\ Deadline' = [e \in Entry |-> Deadline'[e]]
    /\ \A p \in Poller : Firing[p] = poll[p].entry /\ Firing'[p] = poll'[p].entry
    /\ Firing = [p \in Poller |-> Firing[p]] /\ Firing' = [p \in Poller |-> Firing'[p]]
<1>1. \A e \in Entry : Deadline[e] = IF e \in Scheduled THEN Value(timer_id[e]) ELSE Idle
  BY DEF Deadline, Scheduled
<1>2. \A e \in Entry : Deadline'[e] = IF e \in Scheduled' THEN Value(timer_id[e])' ELSE Idle
  BY DEF Deadline, Scheduled
<1>3. Deadline = [e \in Entry |-> Deadline[e]] /\ Deadline' = [e \in Entry |-> Deadline'[e]]
  BY DEF Deadline
<1>4. /\ \A p \in Poller : Firing[p] = poll[p].entry /\ Firing'[p] = poll'[p].entry
      /\ Firing = [p \in Poller |-> Firing[p]] /\ Firing' = [p \in Poller |-> Firing'[p]]
  BY DEF Firing
<1> QED BY <1>1, <1>2, <1>3, <1>4

(* Deadlines depend on ids and copies only.                                 *)
LEMMA QueueSame ==
    ASSUME timer_id' = timer_id, dups' = dups
    PROVE  Deadline' = Deadline
BY DEF Deadline, Value

(* What is firing depends on the pollers' entries only.                     *)
LEMMA FiringSame ==
    ASSUME \A q \in Poller : poll'[q].entry = poll[q].entry
    PROVE  Firing' = Firing
BY DEF Firing

(* Steps of the heap that are none of the queue.                            *)
LEMMA QueueStutters ==
    ASSUME now' = now, Deadline' = Deadline, Firing' = Firing
    PROVE  UNCHANGED Queue!vars
BY DEF Queue!vars, Deadline, Firing

(* The clock of the heap is that of the queue.                              *)
LEMMA QueueTicks ==
    ASSUME now' = now + 1, Deadline' = Deadline, Firing' = Firing
    PROVE  Queue!Next
<1>1. Queue!Tick
  BY DEF Queue!Tick, Deadline, Firing
<1> QED BY <1>1 DEF Queue!Next

(* A new deadline is a Schedule of the queue.                               *)
LEMMA QueueSchedules ==
    ASSUME NEW e \in Entry, Deadline[e] = Idle, Deadline'[e] \in Nat,
           Deadline' = [Deadline EXCEPT ![e] = Deadline'[e]], now' = now, Firing' = Firing
    PROVE  Queue!Next
<1>1. Queue!Schedule(e)
  BY DEF Queue!Schedule, Deadline, Firing
<1> QED BY <1>1 DEF Queue!Next

(* A deadline that is taken back is a Cancel of the queue.                  *)
LEMMA QueueCancels ==
    ASSUME NEW e \in Entry, Deadline[e] # Idle,
           Deadline' = [Deadline EXCEPT ![e] = Idle], now' = now, Firing' = Firing
    PROVE  Queue!Next
<1>1. Queue!Cancel(e)
  BY DEF Queue!Cancel, Deadline, Firing
<1> QED BY <1>1 DEF Queue!Next

(* An entry that is due and not later than the others fires.                *)
LEMMA QueueFires ==
    ASSUME NEW p \in Poller, NEW e \in Entry, Firing[p] = None, Deadline[e] # Idle,
           \A f \in Entry : Deadline[f] # Idle => Deadline[e] <= Deadline[f],
           Deadline[e] <= now, Deadline' = [Deadline EXCEPT ![e] = Idle],
           Firing' = [Firing EXCEPT ![p] = e], now' = now
    PROVE  Queue!Next
<1>1. Queue!Fire(p, e)
  BY DEF Queue!Fire, Queue!Earliest, Deadline, Firing
<1> QED BY <1>1 DEF Queue!Next

(* The end of a callback is that of the firing.                             *)
LEMMA QueueFinishes ==
    ASSUME NEW p \in Poller, Firing[p] # None,
           Firing' = [Firing EXCEPT ![p] = None], now' = now, Deadline' = Deadline
    PROVE  Queue!Next
<1>1. Queue!Finish(p)
  BY DEF Queue!Finish, Deadline, Firing
<1> QED BY <1>1 DEF Queue!Next

(* Every scheduled entry has a deadline.                                    *)
LEMMA DeadlineNat ==
    ASSUME Structure, NEW e \in Scheduled
    PROVE  Deadline[e] = Value(timer_id[e]) /\ Deadline[e] \in Nat /\ Deadline[e] # Idle
<1>1. e \in Entry /\ timer_id[e] \in Ids /\ Ids = 1..max_size - 1 /\ max_size \in Nat
  BY Basics
<1>2. timer_id[e] \in 0..max_size - 1
  BY <1>1
<1>3. Value(timer_id[e]) \in Nat
  BY <1>2, ValuesType
<1>4. Deadline[e] = Value(timer_id[e])
  BY <1>1, DeadlineIs
<1> QED BY <1>3, <1>4, HeapAssumption

(* Removing a node takes one deadline away and leaves the others.           *)
LEMMA DeadlineRemoved ==
    ASSUME Structure, NEW e \in Scheduled, Scheduled' = Scheduled \ {e},
           \A f \in Scheduled \ {e} : Value(timer_id[f])' = Value(timer_id[f])
    PROVE  Deadline' = [Deadline EXCEPT ![e] = Idle]
<1>1. Scheduled \subseteq Entry
  BY DEF Scheduled
<1>2. \A f \in Entry : Deadline'[f] = IF f = e THEN Idle ELSE Deadline[f]
  BY DeadlineIs
<1> QED BY <1>1, <1>2, DeadlineIs

-----------------------------------------------------------------------------
(* The invariant holds initially, and every step keeps it and is a step of  *)
(* the queue.                                                               *)

(* pj_timer_heap_create() establishes the invariant.                        *)
LEMMA InitInd ==
    ASSUME Init
    PROVE  IndInv
<1> USE DEF Init
<1>1. /\ Size \in Nat /\ max_size = Size + 2 /\ Ids = 1..Size + 1 /\ max_size - 1 = Size + 1
      /\ op = NoOp /\ op.pc = "unlocked" /\ op.by = "none"
  BY HeapAssumption DEF Ids, NoOp
<1>2. Count = 0 /\ ~ Hole /\ Placed = {} /\ Scheduled = {}
  BY <1>1 DEF Count, Hole, Placed, Scheduled
<1>3. free \in Seq(Ids) /\ Len(free) = Size + 1 /\ \A k \in 1..Size + 1 : free[k] = k
  <2>1. free \in [1..Size + 1 -> Ids] /\ Size + 1 \in Nat
    BY <1>1
  <2> HIDE DEF Init
  <2>2. free \in Seq(Ids)
    BY <2>1, SeqDef
  <2>3. Len(free) \in Nat /\ 1..Len(free) = 1..Size + 1
    <3>1. DOMAIN free = 1..Size + 1
      BY <2>1
    <3> QED BY <2>2, <3>1, LenProperties
  <2>4. Len(free) = Size + 1
    <3>1. \A i \in Nat \ {0} : i \in 1..Len(free) <=> i \in 1..Size + 1
      BY <2>3
    <3> QED BY <1>1, <2>3, <3>1
  <2> QED BY <2>2, <2>4 DEF Init
<1>4. ArrayType
  <2>1. max_size \in Nat \ {0, 1} /\ cur_size \in Nat /\ freelist \in 1..max_size
    BY <1>1
  <2>2. heap \in [0..max_size - 1 -> 0..max_size - 1]
    BY <1>1
  <2>3. timer_ids \in [0..max_size - 1 -> Int]
    BY <1>1
  <2>4. NoDup \in [entry : Entry \cup {None}, _timer_value : Nat]
    BY DEF NoDup
  <2>5. dups \in [0..max_size - 1 -> [entry : Entry \cup {None}, _timer_value : Nat]]
    BY <1>1, <2>4
  <2>6. timer_id \in [Entry -> Ids \cup {-1}]
    OBVIOUS
  <2> QED BY <1>3, <2>1, <2>2, <2>3, <2>5, <2>6 DEF ArrayType
<1>5. OpType
  <2>1. 0 \in 0..max_size - 1
    BY <1>1
  <2> QED BY <1>1, <2>1 DEF OpType, NoOp
<1>6. Places
  BY <1>2 DEF Places, Lifted, Located, Found
<1>7. FreeIds
  <2>1. Linked
    <3>1. free[1] = freelist /\ Len(free) # 0
      BY <1>1, <1>3
    <3>0. free # <<>>
      BY <1>3, <3>1, EmptySeq
    <3>2. ASSUME NEW k \in 1..Size + 1
          PROVE  timer_ids[free[k]] = -(IF k = Size + 1 THEN max_size ELSE free[k + 1])
      <4>1. free[k] = k /\ timer_ids[k] = -(k + 1)
        BY <1>1, <1>3
      <4>2. k # Size + 1 => free[k + 1] = k + 1
        BY <1>1, <1>3
      <4> QED BY <1>1, <4>1, <4>2
    <3> HIDE DEF Init
    <3> QED BY <1>3, <3>0, <3>1, <3>2 DEF Linked
  <2>2. Distinct
    BY <1>3 DEF Distinct
  <2>3. Unused
    <3>1. \A id \in Ids : id # -1
      BY <1>1
    <3> QED BY <1>1, <1>3, <3>1 DEF Unused
  <2>4. Room
    BY <1>1, <1>2, <1>3 DEF Room
  <2> QED BY <2>1, <2>2, <2>3, <2>4 DEF FreeIds
<1>8. Counted
  BY <1>2, FS_EmptySet DEF Counted
<1>9. Order
  BY <1>1, <1>2 DEF Order, Sorted, Hole
<1>10. \A p \in Poller : /\ poll[p].pc = "idle" /\ poll[p].entry = None /\ poll[p].now = 0
                         /\ op.by # p
  BY <1>1, HeapAssumption DEF NotPolling
<1>11. Threads
  BY <1>1, <1>10 DEF Threads
<1>12. OtherType
  <2>1. NotPolling \in [pc : {"idle", "removing", "callback", "relock"},
                        entry : Entry \cup {None}, now : Nat, count : Nat]
    BY DEF NotPolling
  <2> QED BY <2>1 DEF OtherType
<1>13. RefsHeld
  <2> SUFFICES ASSUME NEW e \in Grouped
               PROVE  refs[e] = (IF owned[e] THEN 1 ELSE 0) + (IF InHeap(e) THEN 1 ELSE 0)
                                + Cardinality(Users(e)) + leaked[e]
    BY DEF RefsHeld
  <2>1. e \in Entry /\ e # None
    BY HeapAssumption
  <2>2. Users(e) = {} /\ ~ InHeap(e)
    BY <1>1, <1>2, <1>10, <2>1 DEF Users, InHeap
  <2>3. Cardinality(Users(e)) = 0
    BY <2>2, FS_EmptySet
  <2> QED BY <2>1, <2>2, <2>3
<1> QED BY <1>4, <1>5, <1>6, <1>7, <1>8, <1>9, <1>11, <1>12, <1>13
          DEF IndInv, Structure, Rest

(* Every step keeps the invariant and is a step of the queue or none.       *)
LEMMA StepInd ==
    ASSUME IndInv, [Next]_vars
    PROVE  IndInv' /\ [Queue!Next]_(Queue!vars)
<1>a. /\ Structure /\ Order /\ Rest /\ now \in Nat /\ calls \in Nat
  BY DEF IndInv, Rest, OtherType
<1>b. ASSUME UNCHANGED <<array, op, poll, owned, refs, leaked, calls>>,
             now' = now \/ now' = now + 1
      PROVE  IndInv' /\ Deadline' = Deadline /\ Firing' = Firing
  <2>1. timer_id' = timer_id /\ dups' = dups /\ op' = op
    BY <1>b DEF array
  <2>2. Structure' /\ Order'
    BY <1>a, <1>b, ArraySame
  <2>3. now' \in Nat /\ now <= now'
    BY <1>a, <1>b
  <2>4. Rest'
    BY <1>a, <1>b, <2>1, <2>3, RestKept
  <2> QED BY <1>b, <2>1, <2>2, <2>4, QueueSame, FiringSame DEF IndInv
<1>1. CASE Tick
  <2>1. UNCHANGED <<array, op, poll, owned, refs, leaked, calls>> /\ now' = now + 1
    BY <1>1, <1>a DEF Tick, Rest, OtherType
  <2> QED BY <1>b, <2>1, QueueTicks
<1>2. CASE UNCHANGED vars
  <2>1. UNCHANGED <<array, op, poll, owned, refs, leaked, calls>> /\ now' = now
    BY <1>2, <1>a DEF vars, Rest, OtherType
  <2> QED BY <1>b, <2>1, QueueStutters
<1>3. CASE ReheapUp \/ ReheapDown \/ Reheaped
  <2>1. Structure' /\ Order'
    BY <1>3, <1>a, UpStep, DownStep, LastStep
  <2>2. /\ UNCHANGED <<now, dups, timer_id, poll, owned, refs, leaked, calls>>
        /\ op'.by = op.by /\ op'.entry = op.entry
    BY <1>3, <1>a DEF ReheapUp, ReheapDown, Reheaped, Shift, Structure, OpType, Rest, OtherType
  <2>3. Rest'
    BY <1>a, <2>2, RestKept
  <2> QED BY <2>1, <2>2, <2>3, QueueSame, FiringSame, QueueStutters DEF IndInv
<1>4. CASE InsertDone \/ CancelDone
  <2>1. Structure' /\ Order'
    BY <1>4, <1>a, EndStep
  <2>2. Rest'
    BY <1>4, <1>a, RestInsertDone, RestCancelDone
  <2>3. UNCHANGED <<now, dups, timer_id, poll>>
    BY <1>4 DEF InsertDone, CancelDone, array
  <2> QED BY <2>1, <2>2, <2>3, QueueSame, FiringSame, QueueStutters DEF IndInv
<1>5. ASSUME NEW e \in Entry, OwnerReleases(e)
      PROVE  IndInv' /\ [Queue!Next]_(Queue!vars)
  <2>1. UNCHANGED <<now, array, op, poll>>
    BY <1>5 DEF OwnerReleases
  <2>2. Structure' /\ Order'
    BY <1>a, <2>1, ArraySame
  <2>3. Rest'
    BY <1>5, <1>a, RestRelease
  <2>4. timer_id' = timer_id /\ dups' = dups
    BY <2>1 DEF array
  <2> QED BY <2>1, <2>2, <2>3, <2>4, QueueSame, FiringSame, QueueStutters DEF IndInv
<1>6. ASSUME NEW e \in Entry, Schedule(e)
      PROVE  IndInv' /\ [Queue!Next]_(Queue!vars)
  <2>1. /\ Structure' /\ Order' /\ Scheduled' = Scheduled \cup {e} /\ e \notin Scheduled
        /\ Value(timer_id[e])' \in Nat
        /\ \A f \in Scheduled : Value(timer_id[f])' = Value(timer_id[f])
    BY <1>6, <1>a, ScheduleStep
  <2>2. Rest'
    BY <1>6, <1>a, <2>1, RestSchedule
  <2>3. now' = now /\ poll' = poll
    BY <1>6 DEF Schedule
  <2>4. Deadline[e] = Idle
    BY <2>1, DeadlineIs
  <2>5. \A f \in Entry : f # e => Deadline'[f] = Deadline[f]
    BY <2>1, DeadlineIs
  <2>6. Deadline' = [Deadline EXCEPT ![e] = Deadline'[e]]
    BY <2>5, DeadlineIs
  <2>7. Deadline'[e] \in Nat
    BY <2>1, DeadlineIs
  <2> QED BY <2>1, <2>2, <2>3, <2>4, <2>6, <2>7, FiringSame, QueueSchedules DEF IndInv
<1>7. ASSUME NEW e \in Entry, Cancel(e)
      PROVE  IndInv' /\ [Queue!Next]_(Queue!vars)
  <2>1. /\ IndInv' /\ e \in Scheduled /\ Scheduled' = Scheduled \ {e} /\ poll' = poll
        /\ now' = now
        /\ \A f \in Scheduled \ {e} : Value(timer_id[f])' = Value(timer_id[f])
    BY <1>7, CancelStep
  <2>2. Deadline' = [Deadline EXCEPT ![e] = Idle] /\ Deadline[e] # Idle
    BY <1>a, <2>1, DeadlineRemoved, DeadlineNat
  <2> QED BY <2>1, <2>2, FiringSame, QueueCancels
<1>8. ASSUME NEW p \in Poller, poll[p].pc \in {"idle", "relock"},
             NEW time \in Nat, NEW count \in Nat, time <= now, PollTake(p, time, count),
             calls' \in Nat
      PROVE  IndInv' /\ [Queue!Next]_(Queue!vars)
  <2>1. PICK e \in Scheduled :
              /\ IndInv' /\ Scheduled' = Scheduled \ {e} /\ now' = now /\ poll[p].entry = None
              /\ Value(timer_id[e]) <= now
              /\ \A f \in Scheduled : Value(timer_id[e]) <= Value(timer_id[f])
              /\ \A q \in Poller : poll'[q].entry = IF q = p THEN e ELSE poll[q].entry
              /\ \A f \in Scheduled \ {e} : Value(timer_id[f])' = Value(timer_id[f])
    BY <1>8, TakeStep
  <2>2. Deadline' = [Deadline EXCEPT ![e] = Idle] /\ Deadline[e] # Idle
        /\ Deadline[e] = Value(timer_id[e])
    BY <1>a, <2>1, DeadlineRemoved, DeadlineNat
  <2>3. \A f \in Entry : Deadline[f] # Idle => Deadline[e] <= Deadline[f]
    <3>1. \A f \in Entry : Deadline[f] # Idle => f \in Scheduled /\ Deadline[f] = Value(timer_id[f])
      BY DeadlineIs
    <3> QED BY <2>1, <2>2, <3>1
  <2>4. Firing' = [Firing EXCEPT ![p] = e] /\ Firing[p] = None
    BY <2>1, DeadlineIs
  <2>5. e \in Entry
    BY DEF Scheduled
  <2> QED BY <2>1, <2>2, <2>3, <2>4, <2>5, QueueFires
<1>9. ASSUME NEW p \in Poller, PollBegin(p)
      PROVE  IndInv' /\ [Queue!Next]_(Queue!vars)
  <2>1. poll[p].pc \in {"idle", "relock"} /\ now <= now /\ 0 \in Nat /\ calls' \in Nat
        /\ PollTake(p, now, 0)
    BY <1>9, <1>a DEF PollBegin
  <2> QED BY <1>8, <1>a, <2>1
<1>10. ASSUME NEW p \in Poller, PollAgain(p)
       PROVE  IndInv' /\ [Queue!Next]_(Queue!vars)
  <2>1. /\ poll[p].pc \in {"idle", "relock"} /\ poll[p].now \in Nat /\ poll[p].count \in Nat
        /\ poll[p].now <= now /\ calls' \in Nat /\ PollTake(p, poll[p].now, poll[p].count)
    BY <1>10, <1>a DEF PollAgain, IndInv, Rest, Threads, OtherType
  <2> QED BY <1>8, <2>1
<1>11. ASSUME NEW p \in Poller, PollUnlock(p)
       PROVE  IndInv' /\ [Queue!Next]_(Queue!vars)
  <2>1. Structure' /\ Order'
    BY <1>11, <1>a, EndStep
  <2>2. Rest'
    BY <1>11, <1>a, RestUnlock
  <2>3. now' = now /\ timer_id' = timer_id /\ dups' = dups
    BY <1>11 DEF PollUnlock, array
  <2>4. \A q \in Poller : poll'[q].entry = poll[q].entry
    BY <1>11 DEF PollUnlock, IndInv, Rest, OtherType
  <2> QED BY <2>1, <2>2, <2>3, <2>4, QueueSame, FiringSame, QueueStutters DEF IndInv
<1>12. ASSUME NEW p \in Poller, CallbackReturns(p)
       PROVE  IndInv' /\ [Queue!Next]_(Queue!vars)
  <2>1. UNCHANGED <<now, array, op>>
    BY <1>12 DEF CallbackReturns
  <2>2. Structure' /\ Order'
    BY <1>a, <2>1, ArraySame
  <2>3. /\ Rest' /\ poll[p].entry # None
        /\ \A q \in Poller : poll'[q].entry = IF q = p THEN None ELSE poll[q].entry
    BY <1>12, <1>a, RestReturns
  <2>4. timer_id' = timer_id /\ dups' = dups
    BY <2>1 DEF array
  <2>5. Firing' = [Firing EXCEPT ![p] = None] /\ Firing[p] # None
    BY <2>3, DeadlineIs
  <2> QED BY <2>1, <2>2, <2>3, <2>4, <2>5, QueueSame, QueueFinishes DEF IndInv
<1>13. ASSUME NEW p \in Poller, PollReturns(p)
       PROVE  IndInv' /\ [Queue!Next]_(Queue!vars)
  <2>1. UNCHANGED <<now, array, op>>
    BY <1>13 DEF PollReturns
  <2>2. Structure' /\ Order'
    BY <1>a, <2>1, ArraySame
  <2>3. Rest' /\ \A q \in Poller : poll'[q].entry = poll[q].entry
    BY <1>13, <1>a, RestPollReturns
  <2>4. timer_id' = timer_id /\ dups' = dups
    BY <2>1 DEF array
  <2> QED BY <2>1, <2>2, <2>3, <2>4, QueueSame, FiringSame, QueueStutters DEF IndInv
<1>14. ASSUME NEW p \in Poller, PollSkips(p)
       PROVE  IndInv' /\ [Queue!Next]_(Queue!vars)
  <2>1. Structure' /\ Order'
    BY <1>14, <1>a, EndStep
  <2>2. /\ Rest' /\ poll[p].entry # None
        /\ \A q \in Poller : poll'[q].entry = IF q = p THEN None ELSE poll[q].entry
    BY <1>14, <1>a, RestSkips
  <2>3. now' = now /\ timer_id' = timer_id /\ dups' = dups
    BY <1>14 DEF PollSkips, array
  <2>4. Firing' = [Firing EXCEPT ![p] = None] /\ Firing[p] # None
    BY <2>2, DeadlineIs
  <2> QED BY <2>1, <2>2, <2>3, <2>4, QueueSame, QueueFinishes DEF IndInv
<1>15. ASSUME NEW e \in Entry, CancelNothing(e)
       PROVE  IndInv' /\ [Queue!Next]_(Queue!vars)
  <2>1. UNCHANGED <<array, op, poll, owned, refs, leaked, calls>> /\ now' = now
    BY <1>15, <1>a, NothingToCancel DEF CancelNothing, array, Rest, OtherType
  <2> QED BY <1>b, <2>1, QueueStutters
<1> QED
  BY <1>1, <1>2, <1>3, <1>4, <1>5, <1>6, <1>7, <1>9, <1>10, <1>11, <1>12, <1>13, <1>14,
     <1>15 DEF Next

-----------------------------------------------------------------------------
(* Results.                                                                 *)

(* The inductive invariant holds in every reachable state.                  *)
THEOREM Inductive == Spec => []IndInv
<1>1. Init => IndInv
  BY InitInd
<1>2. IndInv /\ [Next]_vars => IndInv'
  BY StepInd
<1> QED BY <1>1, <1>2, PTL DEF Spec

(* Every variable keeps its type: no slot or id leaves the arrays.          *)
THEOREM TypeInvariance == Spec => []TypeOK
<1>1. IndInv => TypeOK
  <2> SUFFICES ASSUME IndInv PROVE TypeOK
    OBVIOUS
  <2>1. ArrayType /\ OpType /\ OtherType /\ Room /\ RefsHeld
    BY DEF IndInv, Structure, FreeIds, Rest
  <2>2. cur_size \in 0..max_size - 1
    BY <2>1 DEF ArrayType, Room, Count
  <2>3. \A e \in Entry : refs[e] \in Nat
    <3> SUFFICES ASSUME NEW e \in Entry PROVE refs[e] \in Nat
      OBVIOUS
    <3>1. CASE e \in Grouped
      <4>1. Cardinality(Users(e)) \in Nat /\ leaked[e] \in Nat
        BY <2>1, UsersFinite DEF OtherType
      <4>2. refs[e] = (IF owned[e] THEN 1 ELSE 0) + (IF InHeap(e) THEN 1 ELSE 0)
                      + Cardinality(Users(e)) + leaked[e]
        BY <2>1, <3>1 DEF RefsHeld
      <4> QED BY <4>1, <4>2
    <3>2. CASE e \notin Grouped
      BY <2>1, <3>2 DEF OtherType
    <3> QED BY <3>1, <3>2
  <2>4. refs \in [Entry -> Nat]
    BY <2>1, <2>3 DEF OtherType
  <2> QED BY <2>1, <2>2, <2>4 DEF TypeOK, ArrayType, OpType, OtherType
<1> QED BY <1>1, Inductive, PTL

(* reheap_up() and reheap_down() restore the order of the heap and the      *)
(* slots in timer_ids[] before the lock is released, for any number of      *)
(* entries.                                                                 *)
THEOREM HeapOrderedInvariance == Spec => []HeapOrdered
<1>1. IndInv => HeapOrdered
  <2> SUFFICES ASSUME IndInv, Unlocked, NEW i \in 0..cur_size - 1
               PROVE  /\ Value(heap[HEAP_PARENT(i)]) <= Value(heap[i])
                      /\ timer_ids[heap[i]] = i
    BY DEF HeapOrdered
  <2>0. Structure /\ Order
    BY DEF IndInv
  <2>1. Count = cur_size /\ ~ Hole
    BY <2>0 DEF Structure, OpType, Unlocked, Count, Hole
  <2>2. Count \in Nat /\ max_size \in Nat /\ Count + 2 <= max_size
    BY <2>0, Basics
  <2>3. timer_ids[heap[i]] = i
    BY <2>0, <2>1 DEF Structure, Places, Located, Placed
  <2>4. \A j \in 0..max_size - 1 : Values[j] = Value(heap[j]) /\ Values[j] \in Nat
    BY <2>0, ValuesType
  <2>5. i \in 0..max_size - 1
    BY <2>1, <2>2
  <2>6. CASE i = 0
    BY <2>3, <2>4, <2>5, <2>6 DEF HEAP_PARENT
  <2>7. CASE i # 0
    <3>1. i \in 1..Count - 1 /\ HEAP_PARENT(i) \in 0..max_size - 1
      BY <2>1, <2>2, <2>7, Parent
    <3>2. Values[HEAP_PARENT(i)] <= Values[i]
      BY <2>0, <2>1, <3>1 DEF Order, Sorted
    <3> QED BY <2>3, <2>4, <2>5, <3>1, <3>2
  <2> QED BY <2>6, <2>7
<1> QED BY <1>1, Inductive, PTL

(* The heap holds exactly the scheduled entries, so that cancel() finds     *)
(* every one of them.                                                       *)
THEOREM HoldsScheduledInvariance == Spec => []HeapHoldsScheduled
<1>1. IndInv => HeapHoldsScheduled
  <2> SUFFICES ASSUME IndInv, Unlocked
               PROVE  /\ Cardinality(Scheduled) = cur_size
                      /\ \A e \in Scheduled :
                            /\ timer_ids[timer_id[e]] \in 0..cur_size - 1
                            /\ heap[timer_ids[timer_id[e]]] = timer_id[e]
                            /\ dups[timer_id[e]].entry = e
    BY DEF HeapHoldsScheduled
  <2>1. Count = cur_size /\ ~ Hole
    BY DEF IndInv, Structure, OpType, Unlocked, Count, Hole
  <2>2. Counted /\ Found
    BY DEF IndInv, Structure, Places
  <2>3. \A i : i \in Placed => i \in 0..cur_size - 1
    BY <2>1 DEF Placed
  <2> QED BY <2>1, <2>2, <2>3 DEF Counted, Found
<1> QED BY <1>1, Inductive, PTL

(* pop_freelist(), push_freelist() and grow_heap() keep the unused ids on   *)
(* the free list, each once, and leave one for the next insertion.          *)
THEOREM FreeListInvariance == Spec => []FreeListChained
<1>1. IndInv => FreeListChained
  <2> SUFFICES ASSUME IndInv PROVE FreeListChained
    OBVIOUS
  <2>1. Linked /\ Distinct /\ Unused /\ Room /\ Count \in Nat /\ max_size \in Nat
    BY Basics DEF IndInv, Structure, FreeIds
  <2>2. free # <<>>
    <3>1. Len(free) # 0
      BY <2>1 DEF Room
    <3> QED BY <3>1, EmptySeq
  <2> QED BY <2>1, <2>2 DEF FreeListChained, Linked, Distinct, Unused
<1> QED BY <1>1, Inductive, PTL

(* The reference count of an owner's group lock is exact whenever the lock  *)
(* of the heap is free, for any number of polling threads.                  *)
THEOREM RefsInvariance == Spec => []RefsExact
<1>1. IndInv => RefsExact
  <2> SUFFICES ASSUME IndInv, Unlocked, NEW e \in Grouped
               PROVE  refs[e] = (IF owned[e] THEN 1 ELSE 0)
                                + (IF e \in Scheduled THEN 1 ELSE 0) + Cardinality(Users(e)) + leaked[e]
    BY DEF RefsExact
  <2>1. op.by = "none"
    BY DEF IndInv, Structure, OpType, Unlocked
  <2>2. InHeap(e) <=> e \in Scheduled
    BY <2>1 DEF InHeap
  <2> QED BY <2>2 DEF IndInv, Rest, RefsHeld
<1> QED BY <1>1, Inductive, PTL

(* The heap implements the queue of deadlines.                              *)
THEOREM Refinement == Spec => ImplementsQueue
<1>1. Init => Queue!Init
  <2> SUFFICES ASSUME Init PROVE Queue!Init
    OBVIOUS
  <2>1. now = 0
    BY DEF Init
  <2>2. [e \in Entry |-> IF timer_id[e] = -1 THEN Idle ELSE Value(timer_id[e])]
           = [e \in Entry |-> Idle]
    BY DEF Init
  <2>3. [p \in Poller |-> poll[p].entry] = [p \in Poller |-> None]
    BY DEF Init, NotPolling
  <2> QED BY <2>1, <2>2, <2>3 DEF Queue!Init
<1>2. IndInv /\ [Next]_vars => [Queue!Next]_(Queue!vars)
  BY StepInd
<1> QED BY <1>1, <1>2, Inductive, PTL DEF Spec, ImplementsQueue, Queue!Spec
=============================================================================
