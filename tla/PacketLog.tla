----------------------------- MODULE PacketLog -----------------------------
(***************************************************************************)
(* What the server promises the peers that send it packets: it takes each  *)
(* peer's packets in the order in which they were sent, as they were sent  *)
(* and once, keeps the newest Capacity of them, and reports what it kept   *)
(* in the order in which it was taken.  The k-th packet of peer p is       *)
(* <<p, k>>.                                                               *)
(*                                                                         *)
(* Where it MayStop, it may do so at any time and for good: it may lose    *)
(* the oldest packet that it kept, and takes and reports nothing more.     *)
(***************************************************************************)
EXTENDS Integers, Sequences

CONSTANTS Peers, Capacity, MayStop

VARIABLES
  complete,   \* how many whole packets each peer has sent
  taken,      \* how many of them the server has taken
  queue,      \* the packets taken and not reported yet
  log,        \* the packets reported
  stopped     \* whether the server has stopped

lvars == <<complete, taken, queue, log, stopped>>

Init ==
  /\ complete = [p \in Peers |-> 0]
  /\ taken = [p \in Peers |-> 0]
  /\ queue = << >>
  /\ log = << >>
  /\ stopped = FALSE

Stop == MayStop /\ stopped' = TRUE

Send(p) ==
  /\ complete'[p] > complete[p]
  /\ complete' = [complete EXCEPT ![p] = complete'[p]]
  /\ UNCHANGED <<taken, queue, log, stopped>>

Take(p) ==
  /\ ~stopped
  /\ taken[p] < complete[p]
  /\ taken' = [taken EXCEPT ![p] = @ + 1]
  /\ queue' = Append(IF Len(queue) = Capacity THEN Tail(queue) ELSE queue,
                     <<p, taken'[p]>>)
  /\ UNCHANGED stopped \/ Stop
  /\ UNCHANGED <<complete, log>>

Report ==
  /\ ~stopped
  /\ queue # << >>
  /\ log' = Append(log, Head(queue))
  /\ queue' = Tail(queue)
  /\ UNCHANGED <<complete, taken, stopped>>

Lose ==
  /\ ~stopped /\ Stop
  /\ UNCHANGED queue \/ (queue # << >> /\ queue' = Tail(queue))
  /\ UNCHANGED <<complete, taken, log>>

Next == (\E p \in Peers : Send(p) \/ Take(p)) \/ Report \/ Lose

Spec == Init /\ [][Next]_lvars
=============================================================================
