---------------------------- MODULE BufferCalls ----------------------------
(***************************************************************************)
(* The circular buffer under any sequence of calls, with the last call and *)
(* its results recorded, and what the buffer is for: to implement          *)
(* DropOldestQueue.                                                        *)
(***************************************************************************)
EXTENDS CircularBuffer, Sequences

VARIABLE call   \* the last call and its results, the queue's interface

vars == <<data, push_index, pull_index, is_dirty, cb_mutex, call>>

Queue == INSTANCE DropOldestQueue WITH
  Capacity <- Length,
  MayStop  <- "unlock" \in Faults,
  queue    <- Contents,
  stopped  <- cb_mutex = "stuck"

Init == cb_create /\ call = Queue!Created

Push(p) ==
  \E released \in Packets \cup {NULL, Garbage}, status \in {0, -1} :
    /\ cb_push(p, released, status)
    /\ call' = Queue!Pushed(p, released, status)

Pull ==
  \E p \in Packets \cup {NULL, Garbage} :
    /\ cb_pull(p)
    /\ call' = Queue!Pulled(p)

Measure ==
  \E n \in (0 .. Length) \cup {UINT_MAX} :
    /\ cb_current_length(n)
    /\ call' = Queue!Measured(n)

Next ==
  \/ \E p \in Packets : Push(p)
  \/ Pull
  \/ Measure

Spec == Init /\ [][Next]_vars

-----------------------------------------------------------------------------

CallOK ==
  \/ call = Queue!Created
  \/ \E p \in Packets, r \in Packets \cup {NULL, Garbage}, s \in {0, -1} :
       call = Queue!Pushed(p, r, s)
  \/ \E p \in Packets \cup {NULL, Garbage} : call = Queue!Pulled(p)
  \/ \E n \in (0 .. Length) \cup {UINT_MAX} : call = Queue!Measured(n)

(* The types of the fields, and of the results a call reports. *)
TypeOK == BufferTypeOK /\ CallOK

(* The buffer is a drop-oldest first-in first-out queue, which a mutex that *)
(* cannot be unlocked stops.                                               *)
ImplementsQueue == Queue!Spec

(* What cb_push frees is a packet pushed earlier ("freeing", line 76).     *)
FreesOnlyPackets == call.op = "push" => call.released \in Packets \cup {NULL}

(* cb_current_length returns the number of entries, the one state that     *)
(* line 67 calls overflow included.                                        *)
LengthIsCount == call.op = "length" => call.length = Count
=============================================================================
