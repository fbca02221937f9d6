--------------------------- MODULE CircularBuffer ---------------------------
(***************************************************************************)
(* The ring of packets between the server's receiving thread and its       *)
(* worker (src/server/circular_buffer.c): the fields of struct             *)
(* circular_buffer and one operation per cb_ function.  The operations are *)
(* relations between the state, the arguments and the value returned, so   *)
(* that a module with threads can put them in its own actions.             *)
(*                                                                         *)
(* An operation is one step: cb->mutex is taken on entry and released on   *)
(* exit.  What is kept of that mutex is how its two calls fail: a failed   *)
(* lock returns early with nothing done, a failed unlock returns an error  *)
(* after the work is done and leaves the mutex locked.                     *)
(***************************************************************************)
EXTENDS Integers

CONSTANTS
  Length,        \* cb->length; the server passes PACKETS_BUFFER_SIZE = 16
  Packets,       \* the struct packet_with_validation objects, by address
  NULL,          \* the null pointer
  Garbage,       \* a pointer read from memory that nobody wrote
  Uninitialised, \* what the malloc of cb->data may leave in a slot
  Faults,        \* the calls that may fail: "lock", "unlock" (and others)
  UINT_MAX       \* (unsigned) -1, what cb_current_length returns on error

ASSUME BufferAssumption ==
  /\ Length \in Nat \ {0}         \* cb_create returns NULL for length 0
  /\ NULL \notin Packets
  /\ Garbage \notin Packets \cup {NULL}
  /\ Uninitialised \subseteq {NULL, Garbage}
  /\ UINT_MAX \in Nat /\ UINT_MAX > Length

VARIABLES
  data,          \* the slots
  push_index,    \* the slot the next push writes
  pull_index,    \* the slot the next pull reads
  is_dirty,      \* set by a push, cleared by the pull that drains the ring
  cb_mutex       \* "free", or "stuck" after an unlock failed

slots == <<data, push_index, pull_index, is_dirty>>
cb    == <<data, push_index, pull_index, is_dirty, cb_mutex>>

Index == 0 .. Length - 1

-----------------------------------------------------------------------------
(* cb_create: the slots come from malloc and are never cleared. *)

cb_create ==
  /\ data \in [Index -> Uninitialised]
  /\ push_index = 0
  /\ pull_index = 0
  /\ is_dirty = FALSE
  /\ cb_mutex = "free"

-----------------------------------------------------------------------------
(* The three places that advance an index wrap it the same way. *)

WrapLate(i) == IF i = Length THEN 0 ELSE i + 1     \* slip: tested too early

Wrap(i) == IF i + 1 = Length THEN 0 ELSE i + 1

(* Equal indices mean empty or full; is_dirty tells which. *)

Empty == ~is_dirty /\ push_index = pull_index

OverflowNever == FALSE                             \* slip: no overflow test

Overflow == is_dirty /\ push_index = pull_index

(* The mutex of the buffer: a call that fails on entry, and the two exits. *)

LockFails   == "lock" \in Faults /\ UNCHANGED cb
Locked      == cb_mutex = "free"
Unlock      == UNCHANGED cb_mutex
UnlockFails == "unlock" \in Faults /\ cb_mutex' = "stuck"

-----------------------------------------------------------------------------
(* cb_pull(packet): packet is the pointer returned. *)

TakeKeepDirty ==                                   \* slip: is_dirty not reset
  /\ data' = [data EXCEPT ![pull_index] = NULL]
  /\ pull_index' = Wrap(pull_index)
  /\ UNCHANGED <<push_index, is_dirty>>

TakeKeepSlot ==                                    \* slip: slot not cleared
  /\ pull_index' = Wrap(pull_index)
  /\ is_dirty' = (is_dirty /\ push_index # pull_index')
  /\ UNCHANGED <<data, push_index>>

Take ==
  /\ data' = [data EXCEPT ![pull_index] = NULL]
  /\ pull_index' = Wrap(pull_index)
  /\ is_dirty' = (is_dirty /\ push_index # pull_index')
  /\ UNCHANGED push_index

cb_pull(packet) ==
  \/ LockFails /\ packet = NULL
  \/ /\ Locked /\ Empty /\ UNCHANGED slots
     /\ packet = NULL
     /\ Unlock \/ UnlockFails
  \/ /\ Locked /\ ~Empty /\ Take
     /\ \/ Unlock /\ packet = data[pull_index]
        \/ UnlockFails /\ packet = NULL

-----------------------------------------------------------------------------
(* cb_push(packet, released, status): a full ring first gives up its       *)
(* oldest entry; whatever pointer the written slot still holds is freed    *)
(* (released), and status is the value returned.                           *)

StoreAhead(packet) ==                              \* slip: ++push_index
  /\ pull_index' = IF Overflow THEN Wrap(pull_index) ELSE pull_index
  /\ data' = [data EXCEPT ![Wrap(push_index)] = packet]
  /\ push_index' = Wrap(push_index)
  /\ is_dirty' = TRUE

Store(packet) ==
  /\ pull_index' = IF Overflow THEN Wrap(pull_index) ELSE pull_index
  /\ data' = [data EXCEPT ![push_index] = packet]
  /\ push_index' = Wrap(push_index)
  /\ is_dirty' = TRUE

cb_pushLeaking(packet, released, status) ==        \* slip: nothing freed
  \/ LockFails /\ released = NULL /\ status = -1
  \/ /\ Locked /\ Store(packet)
     /\ released = NULL
     /\ \/ Unlock /\ status = 0
        \/ UnlockFails /\ status = -1

cb_push(packet, released, status) ==
  \/ LockFails /\ released = NULL /\ status = -1
  \/ /\ Locked /\ Store(packet)
     /\ released = data[push_index]
     /\ \/ Unlock /\ status = 0
        \/ UnlockFails /\ status = -1

-----------------------------------------------------------------------------
(* cb_current_length(n): n is the value returned. *)

CurrentLengthIgnoringDirty ==                      \* slip: full reads as empty
  IF push_index >= pull_index
    THEN push_index - pull_index
    ELSE Length - (pull_index - push_index)

CurrentLength ==
  IF push_index = pull_index THEN IF is_dirty THEN 1 ELSE 0
  ELSE IF push_index > pull_index
    THEN push_index - pull_index
    ELSE Length - (pull_index - push_index)

cb_current_length(n) ==
  \/ LockFails /\ n = UINT_MAX
  \/ /\ Locked /\ UNCHANGED slots
     /\ \/ Unlock /\ n = CurrentLength
        \/ UnlockFails /\ n = UINT_MAX

-----------------------------------------------------------------------------
(* What the fields stand for: the entries from the oldest to the newest. *)

Count ==        \* how many there are
  IF push_index = pull_index THEN IF is_dirty THEN Length ELSE 0
  ELSE IF push_index > pull_index
    THEN push_index - pull_index
    ELSE Length - (pull_index - push_index)

Slot(k) ==      \* the slot of the k-th entry
  IF pull_index + k - 1 < Length THEN pull_index + k - 1
                                 ELSE pull_index + k - 1 - Length

Contents == [k \in 1 .. Count |-> data[Slot(k)]]

BufferTypeOK ==
  /\ data \in [Index -> Packets \cup {NULL, Garbage}]
  /\ push_index \in Index
  /\ pull_index \in Index
  /\ is_dirty \in BOOLEAN
  /\ cb_mutex \in {"free", "stuck"}

(* Part of RingConsistent: is_dirty is cleared only by the pull that read  *)
(* all data (the comment in cb_pull), so a clean ring has its indices      *)
(* together.                                                               *)
CleanIsEmpty == ~is_dirty => push_index = pull_index

(* Part of RingConsistent: counting from pull_index and wrapping at the    *)
(* end, the first Count slots hold packets and the others hold nothing.    *)
SlotsMatchIndices ==
  \A k \in 1 .. Length : IF k <= Count THEN data[Slot(k)] \in Packets
                                      ELSE data[Slot(k)] = NULL

(* The indices, the flag and the slots agree: a push never frees a packet  *)
(* that is still queued behind it, and a pull never returns NULL while     *)
(* packets are waiting.                                                    *)
RingConsistent == CleanIsEmpty /\ SlotsMatchIndices
=============================================================================
