------------------------- MODULE PiAudioFrameBuffer -------------------------
(***************************************************************************)
(* The PCM history of a PiRecorder: class PiAudioFrameBuffer of            *)
(* pjproject-ext/pj-ext.cpp, a ring of RingSize slots addressed by the     *)
(* ever growing positions head_, tail_ and count_ modulo the ring's size.  *)
(* The buffer has no lock of its own: the recorder calls every operation   *)
(* under its mutex_, so each operation is one action.                      *)
(***************************************************************************)
EXTENDS Integers, Sequences

CONSTANTS RingSize,    \* slots of _ring (historyFrames = 10 in create())
          Pcm,         \* the sample data a frame can carry
          FrameSizes,  \* the sizes in bytes of the frames that are offered
          MaxPcmBytes, \* PI_AUDIO_FRAME_MAX_PCM_BYTES
          WordSize,    \* number of values of size_t, the type of an index
          MaxCount,    \* bound: frames accepted in one behaviour
          Null         \* nullptr

ASSUME RingAssumption ==
    /\ RingSize \in Nat /\ RingSize >= 2
    /\ MaxPcmBytes \in Nat
    /\ FrameSizes \subseteq Nat
    /\ WordSize \in Nat /\ WordSize > RingSize
    /\ MaxCount \in Nat

\* What push() copies out of a pjmedia_frame.
Frame == [pcm : Pcm, pcm_bytes : FrameSizes]

ASSUME NullAssumption == Null \notin Frame

VARIABLES ring,    \* _ring: the slots, Null while never written
          count_,  \* position of the next push
          head_,   \* position of the oldest frame
          tail_,   \* position of the newest frame
          size_,   \* number of frames held
          rc       \* what the last push() returned

vars == << ring, count_, head_, tail_, size_, rc >>

Slot(pos) == pos % RingSize

Init ==
    /\ ring = [i \in 0 .. RingSize - 1 |-> Null]
    /\ count_ = 0
    /\ head_ = 0
    /\ tail_ = 0
    /\ size_ = 0
    /\ rc = 0
-----------------------------------------------------------------------------
(* Readers. An index is a size_t: one that is out of range, or that wrapped *)
(* below zero, is answered with nullptr.                                    *)

Get(index) ==
    IF size_ = 0 \/ index >= size_ THEN Null ELSE ring[Slot(head_ + index)]

Head_ == IF size_ = 0 THEN Null ELSE ring[Slot(head_)]

Tail_ == IF size_ = 0 THEN Null ELSE ring[Slot(tail_)]

\* Mutant: back(0) addresses the slot after the newest frame.
Back_OffByOne(count) == Get((WordSize + size_ - count) % WordSize)

\* size_ - count - 1 in size_t arithmetic.
Back(count) == Get((WordSize + size_ - count - 1) % WordSize)
-----------------------------------------------------------------------------
(* push(): a frame that is too large is refused and changes nothing; a full *)
(* window (RingSize - 1 frames) gives up its oldest frame.                  *)

\* Mutant: the window grows into the slot that the next push overwrites.
WindowFull_OffByOne == size_ > 0 /\ size_ = RingSize

WindowFull == size_ > 0 /\ size_ = RingSize - 1

\* Mutant: the head keeps its old position when the first frame after a
\* clear() is pushed.
HeadAfterPush_NotReset == IF WindowFull THEN head_ + 1 ELSE head_

HeadAfterPush ==
    IF size_ = 0 THEN count_ ELSE IF WindowFull THEN head_ + 1 ELSE head_

SizeAfterPush == IF WindowFull THEN size_ ELSE size_ + 1

\* Mutant: clear() leaves the oldest frame in the window.
Clear_KeepsOne ==
    /\ size_' = IF size_ = 0 THEN 0 ELSE 1
    /\ UNCHANGED << ring, count_, head_, tail_, rc >>

PushRefused(f) ==
    /\ f.pcm_bytes > MaxPcmBytes
    /\ rc' = -1
    /\ UNCHANGED << ring, count_, head_, tail_, size_ >>

Push(f) ==
    /\ f.pcm_bytes <= MaxPcmBytes
    /\ count_ < MaxCount
    /\ head_' = HeadAfterPush
    /\ size_' = SizeAfterPush
    /\ ring' = [ring EXCEPT ![Slot(count_)] = f]
    /\ tail_' = count_
    /\ count_' = count_ + 1
    /\ rc' = 0

\* clear() forgets the frames by resetting size_ alone.
Clear ==
    /\ size_' = 0
    /\ UNCHANGED << ring, count_, head_, tail_, rc >>

Next ==
    \/ Clear
    \/ \E f \in Frame : Push(f) \/ PushRefused(f)

Spec == Init /\ [][Next]_vars
-----------------------------------------------------------------------------
(* Properties.                                                             *)

TypeOK ==
    /\ ring \in [0 .. RingSize - 1 -> Frame \union {Null}]
    /\ count_ \in 0 .. MaxCount
    /\ head_ \in 0 .. MaxCount
    /\ tail_ \in 0 .. MaxCount
    /\ size_ \in 0 .. RingSize - 1
    /\ rc \in {-1, 0}

\* The three positions describe one contiguous run of slots that ends at the
\* newest frame, after any mixture of push() and clear(): head_, tail_, count_
\* and size_ are updated by different operations (clear() moves only size_).
Aligned ==
    size_ > 0 => /\ tail_ = count_ - 1
                 /\ head_ + size_ = count_

\* Every slot of that run was written.
Written == \A j \in 0 .. size_ - 1 : ring[Slot(head_ + j)] # Null

\* The inductive invariant.
IndInv == TypeOK /\ Aligned /\ Written

\* The accessors agree with each other and no index, not even one that wraps
\* around below zero in back(), reaches a slot outside the window: back(0) is
\* the frame tail() returns, back(size() - 1) the one head() returns, and
\* back(k) for k >= size() is nullptr.
AccessorsAgree ==
    /\ size_ > 0 => /\ Back(0) = Tail_ /\ Tail_ # Null
                    /\ Back(size_ - 1) = Head_ /\ Head_ # Null
    /\ \A k \in 0 .. RingSize : k >= size_ => Back(k) = Null

\* The frames in the window, oldest first.
Window == [i \in 1 .. size_ |-> ring[Slot(head_ + i - 1)]]

Abstract == INSTANCE FrameWindow
              WITH Frames <- Frame, Capacity <- RingSize - 1, window <- Window

\* The ring implements the sliding window: whatever the order of push() and
\* clear(), the slots between head_ and tail_ hold exactly the latest frames
\* pushed since the last clear(), in order, none of them overwritten.
ImplementsFrameWindow == Abstract!Spec
=============================================================================
