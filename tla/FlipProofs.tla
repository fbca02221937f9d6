----------------------------- MODULE FlipProofs -----------------------------
(***************************************************************************)
(* Proofs about helper_flip_bytes, for buffers of every length.            *)
(***************************************************************************)
EXTENDS FlipBytes, TLAPS

(* The indices are symmetric around the middle; the bytes outside them are *)
(* in their final places and the bytes between them in their first.        *)
FlipInv ==
  /\ length \in Lengths
  /\ length \in Nat
  /\ buffer \in [Positions -> Byte]
  /\ original \in [Positions -> Byte]
  /\ pc \in {"loop", "done"}
  /\ left_index \in Nat /\ right_index \in Nat
  /\ length > 0 => left_index + right_index = length - 1
  /\ length > 0 => left_index <= right_index + 2
  /\ length = 0 => left_index = 0
  /\ \A k \in Positions :
       buffer[k] = IF left_index <= k /\ k <= right_index
                     THEN original[k] ELSE original[length - 1 - k]
  /\ pc = "done" => left_index >= length \/ Meet

(* The invariant holds before the loop. *)
LEMMA InitFlip == ASSUME Init PROVE FlipInv
<1>1. length \in Nat /\ length \in 0 .. UINT_MAX /\ UINT_MAX \in Nat
  BY FlipAssumption DEF Init
<1>2. /\ left_index = 0
      /\ right_index \in Nat
      /\ length > 0 => right_index = length - 1
  BY <1>1 DEF Init, LastIndex, Less1
<1>3. \A k \in Positions : left_index <= k /\ k <= right_index
  BY <1>1, <1>2 DEF Positions
<1> QED
  BY <1>1, <1>2, <1>3 DEF Init, FlipInv

(* An iteration of the loop keeps it. *)
LEMMA IterateFlip == ASSUME FlipInv, Iterate PROVE FlipInv'
<1>1. /\ length > 0
      /\ left_index \in Nat /\ right_index \in Nat /\ length \in Nat
      /\ left_index < right_index /\ right_index < length
      /\ left_index + right_index = length - 1
  BY DEF FlipInv, Iterate, Meet
<1>2. /\ left_index' = left_index + 1
      /\ right_index' = right_index - 1
      /\ length' = length /\ pc' = "loop" /\ original' = original
  BY <1>1 DEF Iterate, Less1
<1>3. Positions' = Positions /\ left_index \in Positions /\ right_index \in Positions
  BY <1>1, <1>2 DEF Positions
<1>4. /\ buffer' \in [Positions -> Byte]
      /\ \A k \in Positions :
           buffer'[k] = IF k = left_index THEN buffer[right_index]
                        ELSE IF k = right_index THEN buffer[left_index]
                        ELSE buffer[k]
  <2>1. buffer \in [Positions -> Byte]
    BY DEF FlipInv
  <2> QED BY <1>1, <1>3, <2>1 DEF Iterate, Swap
<1>5. ASSUME NEW k \in Positions
      PROVE  buffer'[k] = IF left_index' <= k /\ k <= right_index'
                            THEN original[k] ELSE original[length - 1 - k]
  <2>1. k \in Nat /\ k < length
    BY <1>1 DEF Positions
  <2>2. \A n \in Positions :
          buffer[n] = IF left_index <= n /\ n <= right_index
                        THEN original[n] ELSE original[length - 1 - n]
    BY DEF FlipInv
  <2>3. CASE k = left_index
    <3>1. buffer'[k] = original[right_index]
      BY <1>1, <1>3, <1>4, <2>2, <2>3
    <3> QED BY <3>1, <1>1, <1>2, <2>3
  <2>4. CASE k = right_index
    <3>1. buffer'[k] = original[left_index]
      BY <1>1, <1>3, <1>4, <2>2, <2>4
    <3>2. left_index = length - 1 - k
      BY <1>1, <2>4
    <3> QED BY <3>1, <3>2, <1>1, <1>2, <2>4
  <2>5. CASE k # left_index /\ k # right_index
    <3>1. buffer'[k] = buffer[k]
      BY <1>4, <2>5
    <3>2. left_index' <= k /\ k <= right_index' <=>
            left_index <= k /\ k <= right_index
      BY <1>1, <1>2, <2>1, <2>5
    <3> QED BY <3>1, <3>2, <2>2
  <2> QED BY <2>3, <2>4, <2>5
<1>6. length' \in Lengths /\ original' \in [Positions -> Byte]
  BY <1>2 DEF FlipInv
<1> QED
  BY <1>1, <1>2, <1>3, <1>4, <1>5, <1>6 DEF FlipInv

(* So does leaving the loop. *)
LEMMA StopFlip == ASSUME FlipInv, Stop PROVE FlipInv'
BY DEF FlipInv, Stop, Positions, Meet

(* The invariant holds in every state of the loop. *)
LEMMA FlipInvariant == Spec => []FlipInv
<1>1. FlipInv /\ UNCHANGED vars => FlipInv'
  BY DEF FlipInv, vars, Positions, Meet
<1>2. FlipInv /\ [Next]_vars => FlipInv'
  BY <1>1, IterateFlip, StopFlip DEF Next
<1> QED
  BY <1>2, InitFlip, PTL DEF Spec

(* The loop reverses a buffer of any length. *)
THEOREM ReversesAlways == Spec => []Reverses
<1>1. FlipInv => Reverses
  <2> SUFFICES ASSUME FlipInv, pc = "done"
               PROVE  buffer = Reversed(original)
    BY DEF Reverses
  <2>1. ASSUME NEW k \in Positions
        PROVE  buffer[k] = original[length - 1 - k]
    <3>1. /\ k \in Nat /\ k < length /\ length \in Nat
          /\ left_index \in Nat /\ right_index \in Nat
          /\ left_index + right_index = length - 1
          /\ left_index >= length \/ left_index >= right_index
      BY DEF FlipInv, Positions, Meet
    <3>2. left_index <= k /\ k <= right_index => k = length - 1 - k
      BY <3>1
    <3> QED BY <3>2 DEF FlipInv
  <2>2. buffer \in [Positions -> Byte]
    BY DEF FlipInv
  <2> QED BY <2>1, <2>2 DEF Reversed
<1> QED
  BY <1>1, FlipInvariant, PTL

(* It never reads or writes a byte outside the buffer. *)
THEOREM StaysInsideAlways == Spec => []StaysInside
<1>1. FlipInv => StaysInside
  BY DEF FlipInv, StaysInside, Meet, Positions
<1> QED
  BY <1>1, FlipInvariant, PTL
=============================================================================
