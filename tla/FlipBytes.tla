----------------------------- MODULE FlipBytes -----------------------------
(***************************************************************************)
(* helper_flip_bytes (src/common/helper/helper.c): two unsigned indices    *)
(* move towards each other and exchange the bytes they meet.  A step is an *)
(* iteration of the loop.                                                  *)
(***************************************************************************)
EXTENDS Integers

CONSTANTS
  Byte,
  UINT_MAX,     \* the largest unsigned int
  Lengths       \* the lengths it is called with

ASSUME FlipAssumption ==
  /\ UINT_MAX \in Nat
  /\ Lengths \subseteq 0 .. UINT_MAX

VARIABLES
  length, buffer,             \* the arguments
  left_index, right_index,    \* the loop's variables
  pc,                         \* "loop" or "done"
  original                    \* what the buffer held at the call

vars == <<length, buffer, left_index, right_index, pc, original>>

Positions == 0 .. length - 1

(* Unsigned arithmetic: 0 - 1 is the largest number. *)
Less1(n) == IF n = 0 THEN UINT_MAX ELSE n - 1

LastIndexPast == length                            \* slip: one past the end

LastIndex == Less1(length)

Init ==
  /\ length \in Lengths
  /\ buffer \in [Positions -> Byte]
  /\ left_index = 0
  /\ right_index = LastIndex
  /\ pc = "loop"
  /\ original = buffer

MeetOnlyEqual == left_index = right_index          \* slip: they may cross

Meet == left_index = right_index \/ left_index > right_index

Swap ==
  buffer' = [buffer EXCEPT ![left_index] = buffer[right_index],
                           ![right_index] = buffer[left_index]]

Iterate ==
  /\ pc = "loop" /\ left_index < length /\ ~Meet
  /\ Swap
  /\ left_index' = left_index + 1
  /\ right_index' = Less1(right_index)
  /\ UNCHANGED <<length, pc, original>>

Stop ==
  /\ pc = "loop" /\ (left_index >= length \/ Meet)
  /\ pc' = "done"
  /\ UNCHANGED <<length, buffer, left_index, right_index, original>>

Next == Iterate \/ Stop

Spec == Init /\ [][Next]_vars

-----------------------------------------------------------------------------

Reversed(b) == [k \in Positions |-> b[length - 1 - k]]

(* The loop reverses the buffer, whatever its length: none, one, even or   *)
(* odd.                                                                    *)
Reverses == pc = "done" => buffer = Reversed(original)

(* The loop never touches a byte outside the buffer, although its right    *)
(* index starts at UINT_MAX for a length of 0.                             *)
StaysInside ==
  pc = "loop" /\ left_index < length /\ ~Meet =>
    left_index \in Positions /\ right_index \in Positions
=============================================================================
