---------------------- MODULE PiAudioFrameBuffer_proofs ----------------------
(***************************************************************************)
(* Proofs about the PCM ring of PiRecorder, for every size of the ring.    *)
(***************************************************************************)
EXTENDS PiAudioFrameBuffer, TLAPS

\* Two positions less than a whole ring apart never share a slot: the fact
\* behind push() not overwriting a frame that is still in the window.
LEMMA SlotsDiffer ==
    ASSUME NEW a \in Nat, NEW b \in Nat, a < b, b - a < RingSize
    PROVE  Slot(a) # Slot(b)
<1> DEFINE qa == a \div RingSize
           qb == b \div RingSize
<1>0. RingSize \in Nat /\ RingSize > 0
  BY RingAssumption
<1>1. /\ qa \in Int /\ qb \in Int
      /\ a = RingSize * qa + (a % RingSize)
      /\ b = RingSize * qb + (b % RingSize)
  BY <1>0
<1>2. SUFFICES ASSUME a % RingSize = b % RingSize PROVE FALSE
  BY DEF Slot
<1> HIDE DEF qa, qb
<1>3. b - a = RingSize * (qb - qa)
  BY <1>0, <1>1, <1>2
<1>4. CASE qb - qa >= 1
  <2>1. RingSize * (qb - qa) >= RingSize
    BY <1>0, <1>1, <1>4
  <2> QED BY <2>1, <1>3, <1>0
<1>5. CASE qb - qa <= 0
  <2>1. RingSize * (qb - qa) <= 0
    BY <1>0, <1>1, <1>5
  <2> QED BY <2>1, <1>3
<1> QED BY <1>1, <1>4, <1>5

\* A position always names a slot of the ring.
LEMMA SlotInRange ==
    ASSUME NEW a \in Nat
    PROVE  Slot(a) \in 0 .. RingSize - 1
BY RingAssumption DEF Slot

\* The constructor establishes the invariant.
LEMMA InitIndInv == Init => IndInv
BY RingAssumption DEF Init, IndInv, TypeOK, Aligned, Written

\* push() preserves the inductive invariant.
LEMMA PushIndInv ==
    ASSUME IndInv, NEW f \in Frame, Push(f)
    PROVE  IndInv'
<1> USE RingAssumption, NullAssumption
<1>1. /\ count_ \in Nat /\ head_ \in Nat /\ size_ \in Nat
      /\ size_ <= RingSize - 1
      /\ Slot(count_) \in 0 .. RingSize - 1
  BY SlotInRange DEF IndInv, TypeOK
<1>2. /\ head_' + size_' = count_'
      /\ size_' \in 1 .. RingSize - 1
      /\ head_' \in 0 .. MaxCount
      /\ count_' = count_ + 1
  BY <1>1 DEF IndInv, TypeOK, Aligned, Push, HeadAfterPush, SizeAfterPush,
              WindowFull
<1>3. TypeOK'
  BY <1>1, <1>2 DEF IndInv, TypeOK, Push
<1>4. Aligned'
  BY <1>1, <1>2 DEF Aligned, Push
<1>5. Written'
  <2>1. PICK h, n : h = head_' /\ n = size_'
    OBVIOUS
  <2>2. /\ h \in Nat /\ n \in 1 .. RingSize - 1 /\ h + n = count_ + 1
        /\ size_ = 0 => n = 1
        /\ size_ > 0 => h >= head_ /\ head_ + size_ = count_
    BY <1>1, <1>2, <2>1 DEF Push, HeadAfterPush, SizeAfterPush, WindowFull,
                            IndInv, Aligned
  <2> SUFFICES ASSUME NEW j \in 0 .. n - 1 PROVE ring'[Slot(h + j)] # Null
    BY <2>1 DEF Written, Slot
  <2>3. h + j \in Nat /\ Slot(h + j) \in 0 .. RingSize - 1
    BY <2>2, SlotInRange
  <2>4. CASE h + j = count_
    BY <2>3, <2>4, <1>1 DEF IndInv, TypeOK, Push
  <2>5. CASE h + j # count_
    <3>1. h + j < count_ /\ count_ - (h + j) < RingSize /\ size_ > 0
      BY <1>1, <2>2, <2>5
    <3>2. ring'[Slot(h + j)] = ring[Slot(h + j)]
      BY <3>1, <1>1, <2>3, SlotsDiffer DEF Push, IndInv, TypeOK
    <3>3. (h + j) - head_ \in 0 .. size_ - 1 /\ head_ + ((h + j) - head_) = h + j
      BY <1>1, <2>2, <3>1
    <3> QED BY <3>2, <3>3 DEF IndInv, Written
  <2> QED BY <2>4, <2>5
<1> QED BY <1>3, <1>4, <1>5 DEF IndInv

\* Every operation keeps the invariant.
LEMMA NextIndInv == IndInv /\ [Next]_vars => IndInv'
<1> SUFFICES ASSUME IndInv, [Next]_vars PROVE IndInv'
  OBVIOUS
<1>1. CASE Clear
  BY <1>1, RingAssumption DEF Clear, IndInv, TypeOK, Aligned, Written
<1>2. ASSUME NEW f \in Frame, Push(f) PROVE IndInv'
  BY <1>2, PushIndInv
<1>3. ASSUME NEW f \in Frame, PushRefused(f) PROVE IndInv'
  BY <1>3 DEF PushRefused, IndInv, TypeOK, Aligned, Written, Slot
<1>4. CASE UNCHANGED vars
  BY <1>4 DEF vars, IndInv, TypeOK, Aligned, Written, Slot
<1> QED BY <1>1, <1>2, <1>3, <1>4 DEF Next

\* For every ring size, head_, tail_, count_ and size_ of the buffer always
\* describe one contiguous run of written slots.
THEOREM IndInvariance == Spec => []IndInv
BY InitIndInv, NextIndInv, PTL DEF Spec

\* push() and clear() keep every position within its bounds: size_ never
\* reaches RingSize, and no position outruns the number of frames pushed.
THEOREM TypeInvariance == Spec => []TypeOK
<1>1. IndInv => TypeOK
  BY DEF IndInv
<1> QED
  BY <1>1, IndInvariance, PTL

\* For every ring size, the positions stay aligned after any mixture of
\* push() and clear() (the invariant Aligned of the run frame_buffer).
THEOREM AlignedInvariance == Spec => []Aligned
<1>1. IndInv => Aligned
  BY DEF IndInv
<1> QED BY <1>1, IndInvariance, PTL

\* For every ring size, back(), head() and tail() agree and no index that
\* wraps below zero reaches a slot.
THEOREM AccessorsAgreeInvariance == Spec => []AccessorsAgree
<1>1. IndInv => AccessorsAgree
  <2> SUFFICES ASSUME IndInv PROVE AccessorsAgree
    OBVIOUS
  <2> USE RingAssumption
  <2>1. size_ \in 0 .. RingSize - 1 /\ head_ \in Nat /\ tail_ \in Nat /\ count_ \in Nat
    BY DEF IndInv, TypeOK
  <2>2. ASSUME NEW k \in 0 .. RingSize, k < size_
        PROVE  Back(k) = ring[Slot(head_ + (size_ - k - 1))]
    <3>1. (WordSize + size_ - k - 1) % WordSize = size_ - k - 1
      BY <2>1, <2>2
    <3> QED BY <3>1, <2>1, <2>2 DEF Back, Get
  <2>3. ASSUME NEW k \in 0 .. RingSize, k >= size_
        PROVE  Back(k) = Null
    <3>1. (WordSize + size_ - k - 1) % WordSize = WordSize + size_ - k - 1
      BY <2>1, <2>3
    <3> QED BY <3>1, <2>1, <2>3 DEF Back, Get
  <2>4. ASSUME size_ > 0
        PROVE  /\ Back(0) = Tail_ /\ Tail_ # Null
               /\ Back(size_ - 1) = Head_ /\ Head_ # Null
    <3>1. head_ + (size_ - 0 - 1) = tail_ /\ size_ - (size_ - 1) - 1 = 0
      BY <2>1, <2>4 DEF IndInv, Aligned
    <3>2. Back(0) = ring[Slot(tail_)] /\ Back(size_ - 1) = ring[Slot(head_)]
      BY <2>1, <2>2, <2>4, <3>1
    <3>3. ring[Slot(head_ + 0)] # Null /\ ring[Slot(head_ + (size_ - 1))] # Null
      BY <2>1, <2>4 DEF IndInv, Written
    <3> QED BY <2>1, <2>4, <3>1, <3>2, <3>3 DEF Tail_, Head_
  <2> QED BY <2>3, <2>4 DEF AccessorsAgree
<1> QED BY <1>1, IndInvariance, PTL
-----------------------------------------------------------------------------
(* The ring implements the sliding window.                                 *)

\* The window of slots is a sequence of size_ frames.
LEMMA WindowIsSeq ==
    ASSUME IndInv
    PROVE  Window \in Seq(Frame) /\ Len(Window) = size_
<1> USE RingAssumption
<1>1. size_ \in Nat /\ head_ \in Nat
  BY DEF IndInv, TypeOK
<1>2. ASSUME NEW i \in 1 .. size_ PROVE ring[Slot(head_ + i - 1)] \in Frame
  <2>1. /\ i - 1 \in 0 .. size_ - 1 /\ head_ + (i - 1) \in Nat
        /\ head_ + i - 1 = head_ + (i - 1)
    BY <1>1
  <2>2. Slot(head_ + (i - 1)) \in 0 .. RingSize - 1
    BY <2>1, SlotInRange
  <2>3. ring[Slot(head_ + (i - 1))] # Null
    BY <2>1 DEF IndInv, Written
  <2>4. ring[Slot(head_ + (i - 1))] \in Frame
    BY <2>2, <2>3 DEF IndInv, TypeOK
  <2>5. Slot(head_ + i - 1) = Slot(head_ + (i - 1))
    BY <2>1 DEF Slot
  <2> QED BY <2>4, <2>5
<1>3. Window \in [1 .. size_ -> Frame]
  BY <1>2 DEF Window
<1> QED BY <1>1, <1>3 DEF Window

\* push() slides the window: the frame is appended and, when the window is
\* full, the oldest frame and only that one leaves it.
LEMMA PushSlides ==
    ASSUME IndInv, NEW f \in Frame, Push(f)
    PROVE  Window' = Abstract!Latest(Append(Window, f), RingSize - 1)
<1> USE RingAssumption
<1> DEFINE W == Append(Window, f)
<1>1. /\ count_ \in Nat /\ head_ \in Nat /\ size_ \in Nat
      /\ size_ <= RingSize - 1
      /\ Slot(count_) \in 0 .. RingSize - 1
  BY SlotInRange DEF IndInv, TypeOK
<1>2. Window \in Seq(Frame) /\ Len(Window) = size_
  BY WindowIsSeq
<1>3. W \in Seq(Frame) /\ Len(W) = size_ + 1
  BY <1>1, <1>2
<1>4. PICK h, n : h = head_' /\ n = size_'
  OBVIOUS
<1>5. /\ h \in Nat /\ n \in 1 .. RingSize - 1 /\ h + n = count_ + 1
      /\ size_ > 0 => head_ + size_ = count_
      /\ n = IF size_ + 1 <= RingSize - 1 THEN size_ + 1 ELSE RingSize - 1
  BY <1>1, <1>4 DEF Push, HeadAfterPush, SizeAfterPush, WindowFull, IndInv, Aligned
<1>6. ASSUME NEW i \in 1 .. n
      PROVE  ring'[Slot(h + i - 1)] = W[size_ + 1 - n + i]
  <2>1. h + i - 1 \in Nat /\ Slot(h + i - 1) \in 0 .. RingSize - 1
    <3>1. h + i - 1 \in Nat
      BY <1>5
    <3> QED BY <3>1, SlotInRange
  <2>2. CASE i = n
    <3>1. h + i - 1 = count_ /\ size_ + 1 - n + i = size_ + 1
      BY <1>1, <1>5, <2>2
    <3>2. ring'[Slot(count_)] = f
      BY <1>1 DEF Push, IndInv, TypeOK
    <3>3. W[size_ + 1] = f
      BY <1>1, <1>2
    <3> QED BY <3>1, <3>2, <3>3
  <2>3. CASE i # n
    <3> DEFINE k == size_ + 1 - n + i
    <3>1. /\ h + i - 1 < count_ /\ count_ - (h + i - 1) < RingSize
          /\ k \in 1 .. size_ /\ size_ > 0
      BY <1>1, <1>5, <2>3
    <3>2. h + i - 1 = head_ + k - 1
      BY <1>1, <1>5, <3>1
    <3>3. ring'[Slot(h + i - 1)] = ring[Slot(h + i - 1)]
      BY <3>1, <1>1, <2>1, SlotsDiffer DEF Push, IndInv, TypeOK
    <3>4. W[k] = Window[k]
      BY <3>1, <1>1, <1>2
    <3>5. Window[k] = ring[Slot(head_ + k - 1)]
      BY <3>1 DEF Window
    <3> QED BY <3>2, <3>3, <3>4, <3>5
  <2> QED BY <2>2, <2>3
<1>7. Window' = [i \in 1 .. n |-> W[size_ + 1 - n + i]]
  <2>1. Window' = [i \in 1 .. n |-> ring'[Slot(h + i - 1)]]
    BY <1>4 DEF Window, Slot
  <2> QED BY <2>1, <1>6
<1> HIDE DEF W
<1>8. CASE size_ + 1 <= RingSize - 1
  <2>1. n = Len(W) /\ Abstract!Latest(W, RingSize - 1) = W
    BY <1>1, <1>3, <1>5, <1>8 DEF Abstract!Latest
  <2>2. W = [i \in 1 .. Len(W) |-> W[i]]
    BY <1>3
  <2>3. \A i \in 1 .. n : size_ + 1 - n + i = i
    BY <1>1, <1>3, <1>5, <2>1
  <2>4. [i \in 1 .. n |-> W[size_ + 1 - n + i]] = [i \in 1 .. n |-> W[i]]
    BY <2>3
  <2> QED BY <1>7, <2>1, <2>2, <2>4 DEF W
<1>9. CASE ~(size_ + 1 <= RingSize - 1)
  <2>1. size_ = RingSize - 1 /\ n = RingSize - 1 /\ Len(W) = RingSize
    BY <1>1, <1>3, <1>5, <1>9
  <2>2. Abstract!Latest(W, RingSize - 1) = SubSeq(W, 2, RingSize)
    BY <2>1 DEF Abstract!Latest
  <2>3. SubSeq(W, 2, RingSize) = [i \in 1 .. RingSize - 1 |-> W[i + 1]]
    BY <1>3, <2>1
  <2>4. \A i \in 1 .. n : size_ + 1 - n + i = i + 1
    BY <2>1
  <2>5. [i \in 1 .. n |-> W[size_ + 1 - n + i]] = [i \in 1 .. n |-> W[i + 1]]
    BY <2>4
  <2> QED BY <1>7, <2>1, <2>2, <2>3, <2>5 DEF W
<1> QED BY <1>8, <1>9

\* For every ring size, whatever the order of push() and clear(), the buffer
\* implements the sliding window of its RingSize - 1 latest frames.
THEOREM RingImplementsWindow == Spec => ImplementsFrameWindow
<1>1. Init => Abstract!Init
  BY DEF Init, Abstract!Init, Window
<1>2. IndInv /\ [Next]_vars => [Abstract!Next]_Window
  <2> SUFFICES ASSUME IndInv, [Next]_vars PROVE [Abstract!Next]_Window
    OBVIOUS
  <2>1. CASE Clear
    BY <2>1 DEF Clear, Window, Abstract!Next, Abstract!Clear
  <2>2. ASSUME NEW f \in Frame, Push(f) PROVE Abstract!Next
    BY <2>2, PushSlides DEF Abstract!Next, Abstract!Push
  <2>3. ASSUME NEW f \in Frame, PushRefused(f) PROVE UNCHANGED Window
    BY <2>3 DEF PushRefused, Window, Slot
  <2>4. CASE UNCHANGED vars
    BY <2>4 DEF vars, Window, Slot
  <2> QED BY <2>1, <2>2, <2>3, <2>4 DEF Next
<1> QED BY <1>1, <1>2, IndInvariance, PTL
       DEF Spec, ImplementsFrameWindow, Abstract!Spec
=============================================================================
