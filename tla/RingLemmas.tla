----------------------------- MODULE RingLemmas -----------------------------
(***************************************************************************)
(* Lemmas about the circular buffer, for every length and every set of     *)
(* packets: which slots its entries are in, what a push and a pull do to   *)
(* them, and that both keep the ring consistent.                           *)
(***************************************************************************)
EXTENDS CircularBuffer, SequenceTheorems, TLAPS

USE BufferAssumption

-----------------------------------------------------------------------------
(* The calls: what each does to the slots, whatever it reports.            *)

(* A push stores its packet, or fails to lock and does nothing. *)
LEMMA PushCall ==
  ASSUME NEW packet, NEW released, NEW status,
         cb_push(packet, released, status)
  PROVE  \/ Store(packet) /\ released = data[push_index]
         \/ UNCHANGED slots /\ released = NULL /\ status = -1
  BY DEF cb_push, LockFails, cb, slots

(* A pull takes a packet or leaves the slots alone. *)
LEMMA PullCall ==
  ASSUME NEW packet, cb_pull(packet)
  PROVE  \/ ~Empty /\ Take /\ packet \in {data[pull_index], NULL}
         \/ UNCHANGED slots /\ packet = NULL
  BY DEF cb_pull, LockFails, cb, slots

(* Asking for the length leaves the slots alone. *)
LEMMA LengthCall ==
  ASSUME NEW n, cb_current_length(n)
  PROVE  /\ UNCHANGED slots
         /\ n \in {CurrentLength, UINT_MAX}
  BY DEF cb_current_length, LockFails, cb, slots

-----------------------------------------------------------------------------
(* The types, whatever malloc left in the slots.                           *)

SlotsTyped ==
  /\ data \in [Index -> Packets \cup {NULL, Garbage}]
  /\ push_index \in Index
  /\ pull_index \in Index
  /\ is_dirty \in BOOLEAN

(* Storing and taking keep the types. *)
LEMMA StepTyped ==
  ASSUME SlotsTyped,
         \/ \E p \in Packets : Store(p)
         \/ Take
         \/ UNCHANGED slots
  PROVE  SlotsTyped'
<1>1. \A i \in Index : Wrap(i) \in Index
  BY DEF Index, Wrap
<1>2. /\ data' \in [Index -> Packets \cup {NULL, Garbage}]
      /\ push_index' \in Index
      /\ pull_index' \in Index
  BY <1>1 DEF SlotsTyped, Store, Take, slots
<1>3. is_dirty' \in BOOLEAN
  BY DEF SlotsTyped, Store, Take, slots
<1> QED
  BY <1>2, <1>3 DEF SlotsTyped, Index

(* A new ring has its types. *)
LEMMA CreateTyped ==
  ASSUME cb_create
  PROVE  BufferTypeOK
<1>1. 0 \in Index
  BY DEF Index
<1>2. data \in [Index -> Packets \cup {NULL, Garbage}]
  BY DEF cb_create
<1>3. /\ push_index = 0 /\ pull_index = 0 /\ is_dirty = FALSE
      /\ cb_mutex = "free"
  BY DEF cb_create
<1>4. is_dirty \in BOOLEAN
  BY <1>3
<1> QED
  BY <1>1, <1>2, <1>3, <1>4 DEF BufferTypeOK

(* Every call keeps the types. *)
LEMMA CallTyped ==
  ASSUME BufferTypeOK,
         \/ \E p \in Packets :
              \E released, status : cb_push(p, released, status)
         \/ \E p : cb_pull(p)
         \/ \E n : cb_current_length(n)
         \/ UNCHANGED cb
  PROVE  BufferTypeOK'
<1>1. SlotsTyped /\ cb_mutex \in {"free", "stuck"}
  BY DEF BufferTypeOK, SlotsTyped
<1>2. \/ \E p \in Packets : Store(p)
      \/ Take
      \/ UNCHANGED slots
  BY PushCall, PullCall, LengthCall DEF cb, slots
<1>3. SlotsTyped'
  BY <1>1, <1>2, StepTyped
<1>4. cb_mutex' \in {"free", "stuck"}
  BY <1>1 DEF cb_push, cb_pull, cb_current_length, LockFails, Unlock,
              UnlockFails, cb
<1> QED
  BY <1>3, <1>4 DEF BufferTypeOK, SlotsTyped, Index

-----------------------------------------------------------------------------
(* The part of the invariant that the arithmetic of the ring needs. *)
Ring ==
  /\ data \in [Index -> Packets \cup {NULL, Garbage}]
  /\ push_index \in Index
  /\ pull_index \in Index
  /\ is_dirty \in BOOLEAN
  /\ CleanIsEmpty

-----------------------------------------------------------------------------
(* The ring: which slots the entries are in.                               *)

(* Where the entries are: their slots differ, the first is at pull_index,  *)
(* and the one behind the last at push_index.                              *)
LEMMA RingGeometry ==
  ASSUME Ring
  PROVE  /\ Count \in 0 .. Length
         /\ Empty <=> Count = 0
         /\ Overflow <=> Count = Length
         /\ \A k \in 1 .. Length : Slot(k) \in Index
         /\ \A j, k \in 1 .. Length : Slot(j) = Slot(k) => j = k
         /\ Count < Length => Slot(Count + 1) = push_index
         /\ Count = Length => Slot(1) = push_index
         /\ Slot(1) = pull_index
         /\ CurrentLength <= Count
         /\ CurrentLength \in 0 .. Length
         /\ CurrentLength = 0 <=> Count = 0
<1>1. /\ Length \in Nat \ {0}
      /\ push_index \in 0 .. Length - 1
      /\ pull_index \in 0 .. Length - 1
      /\ is_dirty \in BOOLEAN
      /\ ~is_dirty => push_index = pull_index
  BY DEF Ring, CleanIsEmpty, Index
<1> HIDE BufferAssumption
<1>2. Count \in 0 .. Length
  BY <1>1 DEF Count
<1>3. Empty <=> Count = 0
  BY <1>1 DEF Count, Empty
<1>4. Overflow <=> Count = Length
  BY <1>1 DEF Count, Overflow
<1>5. \A k \in 1 .. Length : Slot(k) \in Index
  BY <1>1 DEF Slot, Index
<1>6. \A j, k \in 1 .. Length : Slot(j) = Slot(k) => j = k
  BY <1>1 DEF Slot
<1>7. Count < Length => Slot(Count + 1) = push_index
  BY <1>1 DEF Slot, Count
<1>8. Slot(1) = pull_index /\ (Count = Length => Slot(1) = push_index)
  BY <1>1 DEF Slot, Count
<1>9. /\ CurrentLength <= Count
      /\ CurrentLength \in 0 .. Length
      /\ CurrentLength = 0 <=> Count = 0
  BY <1>1 DEF CurrentLength, Count
<1> QED
  BY <1>2, <1>3, <1>4, <1>5, <1>6, <1>7, <1>8, <1>9

(* What a state of the ring says about its indices alone. *)
LEMMA Indices ==
  ASSUME Ring
  PROVE  /\ push_index \in 0 .. Length - 1
         /\ pull_index \in 0 .. Length - 1
         /\ is_dirty \in BOOLEAN
         /\ ~is_dirty => push_index = pull_index
         /\ data \in [0 .. Length - 1 -> Packets \cup {NULL, Garbage}]
  BY DEF Ring, CleanIsEmpty, Index

(* A pull removes the first slot and keeps the others in order. *)
LEMMA TakeGeometry ==
  ASSUME Ring, ~Empty, Take
  PROVE  /\ Ring'
         /\ Count' = Count - 1
         /\ \A k \in 1 .. Length - 1 : Slot(k)' = Slot(k + 1)
         /\ Slot(Length)' = Slot(1)
         /\ data' = [data EXCEPT ![Slot(1)] = NULL]
<1>1. /\ pull_index' = IF pull_index + 1 = Length THEN 0 ELSE pull_index + 1
      /\ push_index' = push_index
      /\ data' = [data EXCEPT ![pull_index] = NULL]
      /\ Length \in Nat \ {0}
  BY DEF Take, Wrap
<1>2. is_dirty
  BY Indices DEF Empty
<1>3. is_dirty' \in BOOLEAN /\ (is_dirty' <=> push_index # pull_index')
  BY <1>2 DEF Take
<1> HIDE BufferAssumption
<1>4. /\ pull_index' \in 0 .. Length - 1
      /\ push_index' \in 0 .. Length - 1
  BY <1>1, Indices
<1>5. data' \in [0 .. Length - 1 -> Packets \cup {NULL, Garbage}]
  BY <1>1, Indices
<1>6. Ring'
  BY <1>1, <1>3, <1>4, <1>5 DEF Ring, CleanIsEmpty, Index
<1>7. Count' = Count - 1
  <2>1. Count = IF push_index = pull_index THEN Length
                ELSE IF push_index > pull_index
                  THEN push_index - pull_index
                  ELSE Length - (pull_index - push_index)
    BY <1>2 DEF Count
  <2>2. Count' = IF push_index' = pull_index' THEN 0
                 ELSE IF push_index' > pull_index'
                   THEN push_index' - pull_index'
                   ELSE Length - (pull_index' - push_index')
    BY <1>1, <1>3 DEF Count
  <2>3. CASE pull_index + 1 = Length
    BY <2>1, <2>2, <2>3, <1>1, Indices
  <2>4. CASE pull_index + 1 # Length
    BY <2>1, <2>2, <2>4, <1>1, Indices
  <2> QED
    BY <2>3, <2>4
<1>8. \A k \in 1 .. Length - 1 : Slot(k)' = Slot(k + 1)
  BY <1>1, Indices DEF Slot
<1>9. Slot(Length)' = Slot(1)
  BY <1>1, Indices DEF Slot
<1>10. data' = [data EXCEPT ![Slot(1)] = NULL]
  BY <1>1, RingGeometry
<1> QED
  BY <1>6, <1>7, <1>8, <1>9, <1>10

(* A push on a ring with room adds a slot at the end. *)
LEMMA StoreGeometry ==
  ASSUME Ring, NEW p \in Packets, ~Overflow, Store(p)
  PROVE  /\ Ring'
         /\ Count' = Count + 1
         /\ \A k \in 1 .. Length : Slot(k)' = Slot(k)
         /\ data' = [data EXCEPT ![Slot(Count + 1)] = p]
<1>1. /\ pull_index' = pull_index
      /\ push_index' = IF push_index + 1 = Length THEN 0 ELSE push_index + 1
      /\ is_dirty' = TRUE
      /\ data' = [data EXCEPT ![push_index] = p]
      /\ Length \in Nat \ {0}
  BY DEF Store, Wrap
<1>2. is_dirty => push_index # pull_index
  BY DEF Overflow
<1>3. Count # Length /\ Count \in 0 .. Length
  BY RingGeometry
<1> HIDE BufferAssumption
<1>4. /\ pull_index' \in 0 .. Length - 1
      /\ push_index' \in 0 .. Length - 1
  BY <1>1, Indices
<1>5. data' \in [0 .. Length - 1 -> Packets \cup {NULL, Garbage}]
  BY <1>1, Indices
<1>6. Ring'
  BY <1>1, <1>4, <1>5 DEF Ring, CleanIsEmpty, Index
<1>7. Count' = Count + 1
  <2>1. Count = IF push_index = pull_index THEN 0
                ELSE IF push_index > pull_index
                  THEN push_index - pull_index
                  ELSE Length - (pull_index - push_index)
    BY <1>2, Indices DEF Count
  <2>2. Count' = IF push_index' = pull_index' THEN Length
                 ELSE IF push_index' > pull_index'
                   THEN push_index' - pull_index'
                   ELSE Length - (pull_index' - push_index')
    BY <1>1 DEF Count
  <2>3. CASE push_index + 1 = Length
    BY <2>1, <2>2, <2>3, <1>1, Indices
  <2>4. CASE push_index + 1 # Length
    <3>1. push_index' = push_index + 1
      BY <1>1, <2>4
    <3> QED
      BY <2>1, <2>2, <3>1, <1>1, Indices
  <2> QED
    BY <2>3, <2>4
<1>8. \A k \in 1 .. Length : Slot(k)' = Slot(k)
  BY <1>1 DEF Slot
<1>9. data' = [data EXCEPT ![Slot(Count + 1)] = p]
  <2>1. Count < Length
    BY <1>1, <1>3
  <2> QED
    BY <1>1, <2>1, RingGeometry
<1> QED
  BY <1>6, <1>7, <1>8, <1>9

(* A push on a full ring moves every entry one slot forward. *)
LEMMA StoreFullGeometry ==
  ASSUME Ring, NEW p \in Packets, Overflow, Store(p)
  PROVE  /\ Ring'
         /\ Count' = Length
         /\ \A k \in 1 .. Length - 1 : Slot(k)' = Slot(k + 1)
         /\ Slot(Length)' = Slot(1)
         /\ data' = [data EXCEPT ![Slot(1)] = p]
<1>1. /\ pull_index' = IF pull_index + 1 = Length THEN 0 ELSE pull_index + 1
      /\ push_index' = IF push_index + 1 = Length THEN 0 ELSE push_index + 1
      /\ push_index = pull_index
      /\ is_dirty' = TRUE
      /\ data' = [data EXCEPT ![push_index] = p]
      /\ Length \in Nat \ {0}
  BY DEF Store, Wrap, Overflow
<1> HIDE BufferAssumption
<1>2. /\ pull_index' \in 0 .. Length - 1
      /\ push_index' = pull_index'
  BY <1>1, Indices
<1>3. data' \in [0 .. Length - 1 -> Packets \cup {NULL, Garbage}]
  BY <1>1, Indices
<1>4. Ring'
  BY <1>1, <1>2, <1>3 DEF Ring, CleanIsEmpty, Index
<1>5. Count' = Length
  BY <1>1, <1>2 DEF Count
<1>6. \A k \in 1 .. Length - 1 : Slot(k)' = Slot(k + 1)
  BY <1>1, Indices DEF Slot
<1>7. Slot(Length)' = Slot(1)
  BY <1>1, Indices DEF Slot
<1>8. data' = [data EXCEPT ![Slot(1)] = p]
  BY <1>1, RingGeometry
<1> QED
  BY <1>4, <1>5, <1>6, <1>7, <1>8

(* A call that reads or fails keeps everything where it is. *)
LEMMA KeepGeometry ==
  ASSUME Ring, UNCHANGED slots
  PROVE  /\ Ring'
         /\ Count' = Count
         /\ \A k \in 1 .. Length : Slot(k)' = Slot(k)
<1>1. Ring'
  BY DEF Ring, CleanIsEmpty, slots, Index
<1> QED
  BY <1>1 DEF slots, Count, Slot

(* Every slot is the slot of some entry. *)
LEMMA SlotsCover ==
  ASSUME Ring, NEW i \in Index
  PROVE  \E k \in 1 .. Length : Slot(k) = i
<1>1. /\ Length \in Nat \ {0}
      /\ i \in 0 .. Length - 1
      /\ pull_index \in 0 .. Length - 1
  BY Indices DEF Index
<1> HIDE BufferAssumption
<1>2. CASE i >= pull_index
  <2>1. i - pull_index + 1 \in 1 .. Length /\ Slot(i - pull_index + 1) = i
    BY <1>1, <1>2 DEF Slot
  <2> QED BY <2>1
<1>3. CASE i < pull_index
  <2> DEFINE k == i - pull_index + 1 + Length
  <2>1. k \in 1 .. Length /\ Slot(k) = i
    BY <1>1, <1>3 DEF Slot
  <2> QED BY <2>1
<1> QED
  BY <1>1, <1>2, <1>3

(* The invariant without the history variable: the fields of the ring and  *)
(* what its slots hold.                                                    *)
RingInv == Ring /\ SlotsMatchIndices

(* A pull keeps the slots in line with the indices. *)
LEMMA TakePreserves ==
  ASSUME RingInv, ~Empty, Take
  PROVE  RingInv'
<1>1. Ring /\ Ring'
  BY TakeGeometry DEF RingInv
<1>2. SlotsMatchIndices'
  <2> SUFFICES ASSUME NEW k \in 1 .. Length
               PROVE  IF k <= Count' THEN data'[Slot(k)'] \in Packets
                                     ELSE data'[Slot(k)'] = NULL
    BY DEF SlotsMatchIndices
  <2>1. /\ Count' = Count - 1 /\ Count \in 0 .. Length
        /\ Slot(1) \in Index
        /\ data' = [data EXCEPT ![Slot(1)] = NULL]
        /\ data \in [Index -> Packets \cup {NULL, Garbage}]
    BY <1>1, TakeGeometry, RingGeometry DEF Ring
  <2>2. CASE k = Length
    <3>1. data'[Slot(k)'] = NULL
      BY <2>1, <2>2, <1>1, TakeGeometry
    <3> QED BY <3>1, <2>1, <2>2
  <2>3. CASE k # Length
    <3>1. k + 1 \in 1 .. Length /\ 1 \in 1 .. Length /\ k + 1 # 1
      BY <2>3
    <3>2. Slot(k)' = Slot(k + 1)
      BY <2>3, <1>1, TakeGeometry
    <3>3. Slot(k + 1) # Slot(1) /\ Slot(k + 1) \in Index
      BY <3>1, <1>1, RingGeometry
    <3>4. data'[Slot(k)'] = data[Slot(k + 1)]
      BY <2>1, <3>2, <3>3
    <3>5. IF k + 1 <= Count THEN data[Slot(k + 1)] \in Packets
                             ELSE data[Slot(k + 1)] = NULL
      BY <3>1 DEF RingInv, SlotsMatchIndices
    <3> QED BY <3>4, <3>5, <2>1
  <2> QED BY <2>2, <2>3
<1> QED
  BY <1>1, <1>2 DEF RingInv

(* So does a push. *)
LEMMA StorePreserves ==
  ASSUME RingInv, NEW p \in Packets, Store(p)
  PROVE  RingInv'
<1>1. Ring /\ Ring'
  BY StoreGeometry, StoreFullGeometry DEF RingInv
<1>2. /\ Count \in 0 .. Length
      /\ data \in [Index -> Packets \cup {NULL, Garbage}]
      /\ \A k \in 1 .. Length : Slot(k) \in Index
      /\ \A j, k \in 1 .. Length : Slot(j) = Slot(k) => j = k
  BY <1>1, RingGeometry DEF Ring
<1>3. ASSUME NEW k \in 1 .. Length
      PROVE  IF k <= Count' THEN data'[Slot(k)'] \in Packets
                            ELSE data'[Slot(k)'] = NULL
  <2>1. CASE Overflow
    <3>1. /\ Count' = Length
          /\ data' = [data EXCEPT ![Slot(1)] = p]
          /\ Count = Length
          /\ 1 \in 1 .. Length
      BY <2>1, <1>1, StoreFullGeometry, RingGeometry
    <3>2. CASE k = Length
      <4>1. Slot(k)' = Slot(1)
        BY <2>1, <3>2, <1>1, StoreFullGeometry
      <4> QED BY <4>1, <3>1, <1>2
    <3>3. CASE k # Length
      <4>1. Slot(k)' = Slot(k + 1) /\ k + 1 \in 1 .. Length
        BY <2>1, <3>3, <1>1, StoreFullGeometry
      <4>2. data'[Slot(k)'] = IF Slot(k + 1) = Slot(1) THEN p
                                                       ELSE data[Slot(k + 1)]
        BY <4>1, <3>1, <1>2
      <4>3. data[Slot(k + 1)] \in Packets
        BY <4>1, <3>1 DEF RingInv, SlotsMatchIndices
      <4> QED BY <4>2, <4>3, <3>1
    <3> QED BY <3>2, <3>3
  <2>2. CASE ~Overflow
    <3>1. /\ Count' = Count + 1
          /\ Slot(k)' = Slot(k)
          /\ data' = [data EXCEPT ![Slot(Count + 1)] = p]
          /\ Count # Length
      BY <2>2, <1>1, StoreGeometry, RingGeometry
    <3>2. Count + 1 \in 1 .. Length
      BY <3>1, <1>2
    <3>3. data'[Slot(k)] = IF k = Count + 1 THEN p ELSE data[Slot(k)]
      BY <3>1, <3>2, <1>2
    <3>4. IF k <= Count THEN data[Slot(k)] \in Packets ELSE data[Slot(k)] = NULL
      BY DEF RingInv, SlotsMatchIndices
    <3> QED BY <3>1, <3>3, <3>4, <1>2
  <2> QED BY <2>1, <2>2
<1> QED
  BY <1>1, <1>3 DEF RingInv, SlotsMatchIndices

(* So does a call that leaves the slots alone. *)
LEMMA KeepPreserves ==
  ASSUME RingInv, UNCHANGED slots
  PROVE  RingInv'
  BY KeepGeometry DEF RingInv, SlotsMatchIndices, slots

-----------------------------------------------------------------------------
(* The ring that cb_create makes, and when malloc cleared its memory.      *)

(* A new ring is empty. *)
LEMMA CreateRing ==
  ASSUME cb_create
  PROVE  Ring /\ Count = 0
<1>1. push_index = 0 /\ pull_index = 0
  BY DEF cb_create
<1>2. BufferTypeOK
  BY CreateTyped
<1>3. Count = 0
  BY <1>1 DEF cb_create, Count
<1> QED
  BY <1>1, <1>2, <1>3 DEF BufferTypeOK, Ring, CleanIsEmpty

(* A new ring in cleared memory is consistent. *)
LEMMA InitRing ==
  ASSUME Uninitialised = {NULL}, cb_create
  PROVE  RingInv
<1>1. Ring /\ Count = 0 /\ data \in [Index -> {NULL}]
  BY CreateRing DEF cb_create
<1>2. \A k \in 1 .. Length : ~(k <= 0) /\ data[Slot(k)] = NULL
  BY <1>1, RingGeometry
<1> QED
  BY <1>1, <1>2 DEF RingInv, SlotsMatchIndices

-----------------------------------------------------------------------------
(* The ring as a sequence.                                                 *)

(* Append, element by element. *)
LEMMA AppendAsFunction ==
  ASSUME NEW S, NEW s \in Seq(S), NEW e \in S
  PROVE  Append(s, e) =
           [k \in 1 .. Len(s) + 1 |-> IF k = Len(s) + 1 THEN e ELSE s[k]]
<1>1. /\ Append(s, e) \in Seq(S)
      /\ Len(Append(s, e)) = Len(s) + 1
      /\ \A k \in 1 .. Len(s) : Append(s, e)[k] = s[k]
      /\ Append(s, e)[Len(s) + 1] = e
  BY AppendProperties
<1>2. Append(s, e) \in [1 .. Len(s) + 1 -> S] /\ Len(s) \in Nat
  BY <1>1, LenProperties
<1>3. \A k \in 1 .. Len(s) + 1 : k # Len(s) + 1 => k \in 1 .. Len(s)
  BY <1>2
<1> QED
  BY <1>1, <1>2, <1>3

(* Tail, element by element. *)
LEMMA TailAsFunction ==
  ASSUME NEW S, NEW s \in Seq(S), s # << >>
  PROVE  Tail(s) = [k \in 1 .. Len(s) - 1 |-> s[k + 1]]
<1>1. /\ Tail(s) \in Seq(S)
      /\ Len(Tail(s)) = Len(s) - 1
      /\ \A k \in 1 .. Len(Tail(s)) : Tail(s)[k] = s[k + 1]
  BY HeadTailProperties
<1>2. Tail(s) \in [1 .. Len(s) - 1 -> S]
  BY <1>1, LenProperties
<1> QED
  BY <1>1, <1>2

(* The contents of a consistent ring are a sequence of packets. *)
LEMMA ContentsIsSeq ==
  ASSUME RingInv
  PROVE  /\ Contents \in Seq(Packets)
         /\ Len(Contents) = Count
         /\ Count \in 0 .. Length
         /\ \A k \in 1 .. Count : Contents[k] = data[Slot(k)]
<1>1. Count \in 0 .. Length
  BY RingGeometry DEF RingInv
<1>2. \A k \in 1 .. Count : data[Slot(k)] \in Packets
  BY <1>1 DEF RingInv, SlotsMatchIndices
<1>3. Contents \in [1 .. Count -> Packets]
  BY <1>2 DEF Contents
<1> QED
  BY <1>1, <1>3 DEF Contents

(* They stay what they are while the slots do. *)
LEMMA SameContents ==
  ASSUME UNCHANGED slots
  PROVE  Contents' = Contents
<1>1. Count' = Count
  BY DEF slots, Count
<1>2. \A k \in 1 .. Count : data'[Slot(k)'] = data[Slot(k)]
  BY DEF slots, Slot
<1> QED
  BY <1>1, <1>2 DEF Contents

(* A pull takes the head of the contents. *)
LEMMA TakeContents ==
  ASSUME RingInv, ~Empty, Take
  PROVE  /\ Contents # << >>
         /\ Head(Contents) = data[pull_index]
         /\ Contents' = Tail(Contents)
<1>1. Ring /\ RingInv'
  BY TakePreserves DEF RingInv
<1>2. /\ Count \in 1 .. Length
      /\ Count' = Count - 1
      /\ Slot(1) = pull_index
      /\ data' = [data EXCEPT ![Slot(1)] = NULL]
      /\ data \in [Index -> Packets \cup {NULL, Garbage}]
  BY <1>1, TakeGeometry, RingGeometry DEF Ring
<1>3. /\ Contents \in Seq(Packets) /\ Len(Contents) = Count
      /\ \A k \in 1 .. Count : Contents[k] = data[Slot(k)]
  BY ContentsIsSeq
<1>4. Contents # << >> /\ Head(Contents) = data[pull_index]
  BY <1>2, <1>3
<1>5. \A k \in 1 .. Count - 1 : data'[Slot(k)'] = data[Slot(k + 1)]
  <2> SUFFICES ASSUME NEW k \in 1 .. Count - 1
               PROVE  data'[Slot(k)'] = data[Slot(k + 1)]
    OBVIOUS
  <2>1. k \in 1 .. Length - 1 /\ k + 1 \in 1 .. Length /\ 1 \in 1 .. Length
    BY <1>2
  <2>2. Slot(k)' = Slot(k + 1)
    BY <2>1, <1>1, TakeGeometry
  <2>3. Slot(k + 1) # Slot(1) /\ Slot(k + 1) \in Index
    BY <2>1, <1>1, RingGeometry
  <2> QED BY <2>2, <2>3, <1>2
<1>6. Contents' = [k \in 1 .. Count - 1 |-> data[Slot(k + 1)]]
  BY <1>2, <1>5 DEF Contents
<1>7. Tail(Contents) = [k \in 1 .. Count - 1 |-> data[Slot(k + 1)]]
  <2>1. Tail(Contents) = [k \in 1 .. Count - 1 |-> Contents[k + 1]]
    BY <1>3, <1>4, TailAsFunction
  <2>2. \A k \in 1 .. Count - 1 : k + 1 \in 1 .. Count
    BY <1>2
  <2> QED BY <2>1, <2>2, <1>3
<1> QED
  BY <1>4, <1>6, <1>7

(* A push on a ring with room appends to the contents. *)
LEMMA StoreContents ==
  ASSUME RingInv, NEW p \in Packets, ~Overflow, Store(p)
  PROVE  /\ Len(Contents) < Length
         /\ data[push_index] = NULL
         /\ Contents' = Append(Contents, p)
<1>1. Ring
  BY DEF RingInv
<1>2. /\ Count \in 0 .. Length - 1
      /\ Count' = Count + 1
      /\ data' = [data EXCEPT ![Slot(Count + 1)] = p]
      /\ data \in [Index -> Packets \cup {NULL, Garbage}]
  BY <1>1, StoreGeometry, RingGeometry DEF Ring
<1>3. /\ Contents \in Seq(Packets) /\ Len(Contents) = Count
      /\ \A k \in 1 .. Count : Contents[k] = data[Slot(k)]
  BY ContentsIsSeq
<1>4. data[push_index] = NULL
  <2>1. Count + 1 \in 1 .. Length /\ ~(Count + 1 <= Count)
    BY <1>2
  <2>2. data[Slot(Count + 1)] = NULL
    BY <2>1 DEF RingInv, SlotsMatchIndices
  <2> QED BY <2>2, <1>2, <1>1, RingGeometry
<1>5. \A k \in 1 .. Count + 1 :
        data'[Slot(k)'] = IF k = Count + 1 THEN p ELSE data[Slot(k)]
  <2> SUFFICES ASSUME NEW k \in 1 .. Count + 1
               PROVE  data'[Slot(k)'] = IF k = Count + 1 THEN p ELSE data[Slot(k)]
    OBVIOUS
  <2>1. k \in 1 .. Length /\ Count + 1 \in 1 .. Length
    BY <1>2
  <2>2. Slot(k)' = Slot(k)
    BY <2>1, <1>1, StoreGeometry
  <2>3. /\ Slot(k) \in Index
        /\ Slot(k) = Slot(Count + 1) <=> k = Count + 1
    BY <2>1, <1>1, RingGeometry
  <2> QED BY <2>2, <2>3, <1>2
<1>6. Contents' = [k \in 1 .. Count + 1 |->
                     IF k = Count + 1 THEN p ELSE data[Slot(k)]]
  BY <1>2, <1>5 DEF Contents
<1>7. Append(Contents, p) = [k \in 1 .. Count + 1 |->
                               IF k = Count + 1 THEN p ELSE data[Slot(k)]]
  <2>1. Append(Contents, p) =
          [k \in 1 .. Count + 1 |-> IF k = Count + 1 THEN p ELSE Contents[k]]
    BY <1>3, AppendAsFunction
  <2>2. \A k \in 1 .. Count + 1 : k # Count + 1 => k \in 1 .. Count
    BY <1>2
  <2> QED BY <2>1, <2>2, <1>3
<1> QED
  BY <1>2, <1>3, <1>4, <1>6, <1>7

(* A push on a full ring drops the head and appends. *)
LEMMA StoreFullContents ==
  ASSUME RingInv, NEW p \in Packets, Overflow, Store(p)
  PROVE  /\ Len(Contents) = Length
         /\ data[push_index] = Head(Contents)
         /\ Contents' = Append(Tail(Contents), p)
<1>1. Ring
  BY DEF RingInv
<1>2. /\ Count = Length /\ Count' = Length
      /\ push_index = Slot(1)
      /\ data' = [data EXCEPT ![Slot(1)] = p]
      /\ data \in [Index -> Packets \cup {NULL, Garbage}]
  BY <1>1, StoreFullGeometry, RingGeometry DEF Ring
<1>3. /\ Contents \in Seq(Packets) /\ Len(Contents) = Length
      /\ \A k \in 1 .. Length : Contents[k] = data[Slot(k)]
  BY <1>2, ContentsIsSeq
<1>4. data[push_index] = Head(Contents)
  BY <1>2, <1>3
<1>5. \A k \in 1 .. Length :
        data'[Slot(k)'] = IF k = Length THEN p ELSE data[Slot(k + 1)]
  <2> SUFFICES ASSUME NEW k \in 1 .. Length
               PROVE  data'[Slot(k)'] = IF k = Length THEN p ELSE data[Slot(k + 1)]
    OBVIOUS
  <2>1. CASE k = Length
    <3>1. Slot(k)' = Slot(1) /\ Slot(1) \in Index
      BY <2>1, <1>1, StoreFullGeometry, RingGeometry
    <3> QED BY <3>1, <2>1, <1>2
  <2>2. CASE k # Length
    <3>1. k \in 1 .. Length - 1 /\ k + 1 \in 1 .. Length /\ 1 \in 1 .. Length
      BY <2>2
    <3>2. Slot(k)' = Slot(k + 1)
      BY <3>1, <1>1, StoreFullGeometry
    <3>3. Slot(k + 1) # Slot(1) /\ Slot(k + 1) \in Index
      BY <3>1, <1>1, RingGeometry
    <3> QED BY <3>2, <3>3, <2>2, <1>2
  <2> QED BY <2>1, <2>2
<1>6. Contents' = [k \in 1 .. Length |->
                     IF k = Length THEN p ELSE data[Slot(k + 1)]]
  BY <1>2, <1>5 DEF Contents
<1>7. Append(Tail(Contents), p) = [k \in 1 .. Length |->
                                     IF k = Length THEN p ELSE data[Slot(k + 1)]]
  <2>1. /\ Tail(Contents) \in Seq(Packets)
        /\ Len(Tail(Contents)) = Length - 1
        /\ \A k \in 1 .. Length - 1 : Tail(Contents)[k] = data[Slot(k + 1)]
    BY <1>3
  <2> DEFINE t == Tail(Contents)
  <2>2. Append(t, p) =
          [k \in 1 .. Len(t) + 1 |-> IF k = Len(t) + 1 THEN p ELSE t[k]]
    <3> HIDE DEF t
    <3>1. t \in Seq(Packets)
      BY <2>1 DEF t
    <3> QED BY <3>1, AppendAsFunction
  <2>3. /\ Len(t) + 1 = Length
        /\ \A k \in 1 .. Length :
             k # Length => k \in 1 .. Length - 1 /\ t[k] = data[Slot(k + 1)]
    BY <2>1
  <2> HIDE DEF t
  <2>4. Append(t, p) = [k \in 1 .. Length |->
                          IF k = Length THEN p ELSE data[Slot(k + 1)]]
    BY <2>2, <2>3
  <2> QED BY <2>4 DEF t
<1> QED
  BY <1>3, <1>4, <1>6, <1>7
=============================================================================
