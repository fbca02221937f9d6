-------------------------- MODULE DropOldestQueue --------------------------
(***************************************************************************)
(* What the circular buffer promises its callers: a first-in first-out     *)
(* queue of at most Capacity packets.  A push on a full queue drops the    *)
(* oldest packet and gives it back to be released; a pull takes the oldest *)
(* packet, or NULL when there is none; a length is zero exactly when there *)
(* is nothing to pull, and never more than what is there; and a call that  *)
(* reports an error had no effect.                                         *)
(*                                                                         *)
(* Where it MayStop, a call may report an error although it had its        *)
(* effect; it is the last one that has any.                                *)
(***************************************************************************)
EXTENDS Integers, Sequences

CONSTANTS Capacity, Packets, NULL, UINT_MAX, MayStop

VARIABLES
  queue,     \* the packets, the oldest first
  call,      \* the last call, with its argument and its results
  stopped    \* whether every further call fails

qvars == <<queue, call, stopped>>

Created                     == [op |-> "create"]
Pushed(p, released, status) ==
  [op |-> "push", packet |-> p, released |-> released, status |-> status]
Pulled(p)                   == [op |-> "pull", packet |-> p]
Measured(n)                 == [op |-> "length", length |-> n]

Init ==
  /\ queue = << >>
  /\ call = Created
  /\ stopped = FALSE

(* How a call ends that has its effect: with its result, or an error. *)
Ends(result, error) ==
  /\ ~stopped
  /\ \/ call' = result /\ UNCHANGED stopped
     \/ MayStop /\ call' = error /\ stopped' = TRUE

Push(p) ==
  /\ Len(queue) < Capacity
  /\ queue' = Append(queue, p)
  /\ Ends(Pushed(p, NULL, 0), Pushed(p, NULL, -1))

PushFull(p) ==
  /\ Len(queue) = Capacity
  /\ queue' = Append(Tail(queue), p)
  /\ Ends(Pushed(p, Head(queue), 0), Pushed(p, Head(queue), -1))

Pull ==
  /\ queue # << >>
  /\ queue' = Tail(queue)
  /\ Ends(Pulled(Head(queue)), Pulled(NULL))

PullEmpty ==
  /\ queue = << >>
  /\ Ends(Pulled(NULL), Pulled(NULL))
  /\ UNCHANGED queue

Measure(n) ==
  /\ n <= Len(queue)
  /\ n = 0 <=> queue = << >>
  /\ Ends(Measured(n), Measured(UINT_MAX))
  /\ UNCHANGED queue

PushFails(p) ==
  /\ call' = Pushed(p, NULL, -1)
  /\ UNCHANGED <<queue, stopped>>

Fails ==
  /\ call' \in {Pulled(NULL), Measured(UINT_MAX)}
  /\ UNCHANGED <<queue, stopped>>

Next ==
  \/ \E p \in Packets : Push(p) \/ PushFull(p) \/ PushFails(p)
  \/ Pull
  \/ PullEmpty
  \/ Fails
  \/ \E n \in 0 .. Capacity : Measure(n)

Spec == Init /\ [][Next]_qvars
=============================================================================
