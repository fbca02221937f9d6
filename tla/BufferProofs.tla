---------------------------- MODULE BufferProofs ----------------------------
(***************************************************************************)
(* Proofs about the circular buffer, for every length and every set of     *)
(* packets: its invariant, and that it implements DropOldestQueue.         *)
(***************************************************************************)
EXTENDS BufferCalls, RingLemmas

USE BufferAssumption

-----------------------------------------------------------------------------
(* Every step of BufferCalls changes the slots in one of these ways.       *)

(* Each action is a call, of which the ring sees its effect on the slots. *)
LEMMA Steps ==
  ASSUME [Next]_vars
  PROVE  \/ \E p \in Packets : Store(p)
         \/ ~Empty /\ Take
         \/ UNCHANGED slots
<1>1. ASSUME NEW p \in Packets, Push(p)
      PROVE  Store(p) \/ UNCHANGED slots
  BY <1>1, PushCall DEF Push
<1>2. CASE Pull
  BY <1>2, PullCall DEF Pull
<1>3. CASE Measure
  BY <1>3, LengthCall DEF Measure
<1>4. CASE UNCHANGED vars
  BY <1>4 DEF vars, slots
<1> QED
  BY <1>1, <1>2, <1>3, <1>4 DEF Next

(* Every field keeps its type, and every call reports one of the results   *)
(* its signature allows, however the calls fail and whatever malloc        *)
(* returned.                                                               *)
THEOREM TypeCorrect == Spec => []TypeOK
<1>1. Init => TypeOK
  BY CreateTyped DEF Init, TypeOK, CallOK
<1>2. TypeOK /\ [Next]_vars => TypeOK'
  <2> SUFFICES ASSUME TypeOK, [Next]_vars
               PROVE  TypeOK'
    OBVIOUS
  <2>1. BufferTypeOK
    BY DEF TypeOK
  <2>2. BufferTypeOK'
    BY <2>1, CallTyped DEF Next, Push, Pull, Measure, vars, cb
  <2>3. CallOK'
    BY DEF TypeOK, CallOK, Next, Push, Pull, Measure, vars
  <2> QED
    BY <2>2, <2>3 DEF TypeOK
<1> QED
  BY <1>1, <1>2, PTL DEF Spec

-----------------------------------------------------------------------------
(* The invariant, for memory that malloc hands out cleared.                *)

(* A call keeps the ring consistent. *)
LEMMA StepRing ==
  ASSUME RingInv, [Next]_vars
  PROVE  RingInv'
  BY Steps, TakePreserves, StorePreserves, KeepPreserves

(* The buffer's indices, flag and slots always agree: the flag is set      *)
(* exactly while there is something to pull, entries occupy the slots      *)
(* between the indices, and no other slot holds a pointer.                 *)
THEOREM RingInvariant ==
  ASSUME Uninitialised = {NULL}
  PROVE  Spec => []RingConsistent
<1>1. Init => RingInv
  BY InitRing DEF Init
<1>2. RingInv /\ [Next]_vars => RingInv'
  BY StepRing
<1>3. RingInv => RingConsistent
  BY DEF RingInv, Ring, RingConsistent
<1> QED
  BY <1>1, <1>2, <1>3, PTL DEF Spec

-----------------------------------------------------------------------------
(* The queue that the ring implements.                                     *)

(* A call that reaches the ring ends with its result, or stops the queue. *)
LEMMA CallEnds ==
  ASSUME NEW result, NEW error, Locked,
         \/ Unlock /\ call' = result
         \/ UnlockFails /\ call' = error
  PROVE  Queue!Ends(result, error)
<1>1. /\ ~(cb_mutex = "stuck")
      /\ \/ call' = result /\ cb_mutex' = cb_mutex
         \/ "unlock" \in Faults /\ call' = error /\ cb_mutex' = "stuck"
  BY DEF Locked, Unlock, UnlockFails
<1> QED
  BY <1>1 DEF Queue!Ends

(* A call that does not get to the ring changes nothing. *)
LEMMA CallFails ==
  ASSUME LockFails
  PROVE  Contents' = Contents /\ cb_mutex' = cb_mutex
  BY SameContents DEF LockFails, cb, slots

(* A push is one of the abstract queue, full or not, or fails as one. *)
LEMMA PushRefines ==
  ASSUME RingInv, NEW p \in Packets, Push(p)
  PROVE  Queue!Push(p) \/ Queue!PushFull(p) \/ Queue!PushFails(p)
<1>1. PICK released \in Packets \cup {NULL, Garbage}, status \in {0, -1} :
        /\ cb_push(p, released, status)
        /\ call' = Queue!Pushed(p, released, status)
  BY DEF Push
<1>2. CASE LockFails /\ released = NULL /\ status = -1
  BY <1>1, <1>2, CallFails DEF Queue!PushFails
<1>3. CASE /\ Locked /\ Store(p) /\ released = data[push_index]
           /\ \/ Unlock /\ status = 0
              \/ UnlockFails /\ status = -1
  <2>1. Queue!Ends(Queue!Pushed(p, released, 0), Queue!Pushed(p, released, -1))
    BY <1>1, <1>3, CallEnds
  <2>2. CASE Overflow
    BY <1>3, <2>1, <2>2, StoreFullContents DEF Queue!PushFull
  <2>3. CASE ~Overflow
    BY <1>3, <2>1, <2>3, StoreContents DEF Queue!Push
  <2> QED BY <2>2, <2>3
<1> QED
  BY <1>1, <1>2, <1>3 DEF cb_push

(* A pull is one of the abstract queue, empty or not, or fails as one. *)
LEMMA PullRefines ==
  ASSUME RingInv, Pull
  PROVE  Queue!Next
<1>1. PICK p \in Packets \cup {NULL, Garbage} :
        cb_pull(p) /\ call' = Queue!Pulled(p)
  BY DEF Pull
<1>2. CASE LockFails /\ p = NULL
  BY <1>1, <1>2, CallFails DEF Queue!Next, Queue!Fails
<1>3. CASE /\ Locked /\ Empty /\ UNCHANGED slots /\ p = NULL
           /\ Unlock \/ UnlockFails
  <2>1. Contents' = Contents /\ Contents = << >>
    BY <1>3, SameContents, ContentsIsSeq, RingGeometry DEF RingInv
  <2>2. Queue!Ends(Queue!Pulled(NULL), Queue!Pulled(NULL))
    BY <1>1, <1>3, CallEnds
  <2> QED BY <2>1, <2>2 DEF Queue!Next, Queue!PullEmpty
<1>4. CASE /\ Locked /\ ~Empty /\ Take
           /\ \/ Unlock /\ p = data[pull_index]
              \/ UnlockFails /\ p = NULL
  <2>1. Queue!Ends(Queue!Pulled(data[pull_index]), Queue!Pulled(NULL))
    BY <1>1, <1>4, CallEnds
  <2> QED BY <1>4, <2>1, TakeContents DEF Queue!Next, Queue!Pull
<1> QED
  BY <1>1, <1>2, <1>3, <1>4 DEF cb_pull

(* Asking for the length is a measurement of the abstract queue. *)
LEMMA MeasureRefines ==
  ASSUME RingInv, Measure
  PROVE  Queue!Next
<1>1. PICK n \in (0 .. Length) \cup {UINT_MAX} :
        cb_current_length(n) /\ call' = Queue!Measured(n)
  BY DEF Measure
<1>2. CASE LockFails /\ n = UINT_MAX
  BY <1>1, <1>2, CallFails DEF Queue!Next, Queue!Fails
<1>3. CASE /\ Locked /\ UNCHANGED slots
           /\ \/ Unlock /\ n = CurrentLength
              \/ UnlockFails /\ n = UINT_MAX
  <2>1. Contents' = Contents
    BY <1>3, SameContents
  <2>2. Queue!Ends(Queue!Measured(CurrentLength), Queue!Measured(UINT_MAX))
    BY <1>1, <1>3, CallEnds
  <2>3. /\ CurrentLength \in 0 .. Length
        /\ CurrentLength <= Len(Contents)
        /\ CurrentLength = 0 <=> Len(Contents) = 0
    BY RingGeometry, ContentsIsSeq DEF RingInv
  <2>4. Len(Contents) = 0 <=> Contents = << >>
    BY ContentsIsSeq, EmptySeq
  <2> QED BY <2>1, <2>2, <2>3, <2>4 DEF Queue!Next, Queue!Measure
<1> QED
  BY <1>1, <1>2, <1>3 DEF cb_current_length

(* The ring behaves as the drop-oldest queue, whatever its length: pushes  *)
(* never fail for want of room, what they free is the oldest packet, pulls *)
(* return the packets in order, and a call that reports an error did       *)
(* nothing, or could not unlock the mutex and is the last that did         *)
(* anything.                                                               *)
THEOREM ImplementsDropOldest ==
  ASSUME Uninitialised = {NULL}
  PROVE  Spec => ImplementsQueue
<1>1. Init => RingInv
  BY InitRing DEF Init
<1>2. RingInv /\ [Next]_vars => RingInv'
  BY StepRing
<1>3. Init => Queue!Init
  <2> SUFFICES ASSUME Init PROVE Queue!Init
    OBVIOUS
  <2>1. Count = 0
    BY DEF Init, cb_create, Count
  <2>2. Contents = << >>
    BY <2>1, <1>1, ContentsIsSeq, EmptySeq
  <2>3. ~(cb_mutex = "stuck")
    BY DEF Init, cb_create
  <2> QED BY <2>2, <2>3 DEF Init, Queue!Init
<1>4. RingInv /\ [Next]_vars => [Queue!Next]_Queue!qvars
  <2> SUFFICES ASSUME RingInv, [Next]_vars
               PROVE  [Queue!Next]_Queue!qvars
    OBVIOUS
  <2>1. ASSUME NEW p \in Packets, Push(p)
        PROVE  Queue!Next
    BY <2>1, PushRefines DEF Queue!Next
  <2>2. CASE Pull
    BY <2>2, PullRefines
  <2>3. CASE Measure
    BY <2>3, MeasureRefines
  <2>4. CASE UNCHANGED vars
    <3>1. Contents' = Contents
      BY <2>4, SameContents DEF vars, slots
    <3> QED BY <3>1, <2>4 DEF vars, Queue!qvars
  <2> QED BY <2>1, <2>2, <2>3, <2>4 DEF Next
<1> QED
  BY <1>1, <1>2, <1>3, <1>4, PTL DEF Spec, ImplementsQueue, Queue!Spec
=============================================================================
