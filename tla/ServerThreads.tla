--------------------------- MODULE ServerThreads ---------------------------
(***************************************************************************)
(* The two threads of the server (src/server/main.c) from the moment a     *)
(* whole packet has been read from a connection: the main thread decodes   *)
(* it, checks its MD5, pushes it on the ring and signals; the worker waits *)
(* for a non-empty ring, pulls and prints every packet, and frees them.    *)
(* Each pthread call, each call on the ring and each printf is a step, so  *)
(* that the threads interleave wherever the program lets them.             *)
(*                                                                         *)
(* Packets are numbered in the order in which the main thread reads them.  *)
(* One heap entry stands for the two blocks of a packet, which the program *)
(* always frees together.                                                  *)
(***************************************************************************)
EXTENDS CircularBuffer, Sequences

CONSTANTS
  MaxPackets,     \* bound: how many packets are ever read
  Intact          \* the packets whose MD5 matches their data

ASSUME ThreadsAssumption ==
  /\ MaxPackets \in Nat /\ Packets = 1 .. MaxPackets
  /\ Intact \subseteq Packets
  /\ Faults \subseteq {"start", "create", "malloc", "md5", "lock", "unlock"}

VARIABLES
  mutex,       \* "free", or the thread that holds it
  main_pc,     \* where the main thread is
  arrived,     \* packets read so far; the last one is the main thread's
  worker_pc,   \* where the worker is; "waiting" is inside pthread_cond_wait
  packet,      \* the worker's local variable
  heap,        \* what malloc, main and free have made of each packet's memory
  received,    \* the "Received:" lines printed by main
  processed    \* the "Processed:" lines printed by the worker

main   == <<main_pc, arrived, received>>
worker == <<packet, processed>>
vars   == <<data, push_index, pull_index, is_dirty, cb_mutex, mutex, main_pc,
            arrived, worker_pc, packet, heap, received, processed>>

Init ==
  /\ cb_create
  /\ mutex = "free"
  /\ main_pc = "start"
  /\ arrived = 0
  /\ worker_pc = "absent"
  /\ packet = NULL
  /\ heap = [p \in Packets |-> "unallocated"]
  /\ received = << >>
  /\ processed = << >>

-----------------------------------------------------------------------------
(* get_validation_message_by_validation_status of the packet's is_valid. *)
Status(p) == IF p \in Intact THEN "PASS" ELSE "FAIL"

Allocated(p) == heap[p] \in {"PASS", "FAIL"}

(* The lines a printf of packet p may print: memory that was freed may     *)
(* still hold the packet, or anything else.                                *)
Lines(p) ==
  IF Allocated(p) THEN {<<p, heap[p]>>} ELSE {<<p, Status(p)>>, <<Garbage>>}

Free(p) == heap' = IF p = NULL THEN heap ELSE [heap EXCEPT ![p] = "freed"]

Running == main_pc # "exited"

-----------------------------------------------------------------------------
(* The main thread.                                                        *)

(* The listening socket is set up, which may end the program, and then the *)
(* worker is created, which may fail without anybody noticing.             *)
MainStart ==
  /\ main_pc = "start"
  /\ \/ /\ main_pc' = "select"
        /\ \/ worker_pc' = "lock"
           \/ "create" \in Faults /\ worker_pc' = "done"
     \/ "start" \in Faults /\ main_pc' = "exited" /\ UNCHANGED worker_pc
  /\ UNCHANGED <<cb, mutex, arrived, worker, heap, received>>

(* A packet has been read: it is decoded into a new block and its MD5 is   *)
(* compared.  mbedtls_md5_ret may report an error, which ends the program, *)
(* and so does decoding into the NULL of a malloc that failed.             *)
MainReceive ==
  /\ main_pc = "select" /\ arrived < MaxPackets
  /\ arrived' = arrived + 1
  /\ \/ /\ heap' = [heap EXCEPT ![arrived'] = Status(arrived')]
        /\ \/ main_pc' = "lock"
           \/ "md5" \in Faults /\ main_pc' = "returning"
     \/ "malloc" \in Faults /\ main_pc' = "exited" /\ UNCHANGED heap
  /\ UNCHANGED <<cb, mutex, worker_pc, worker, received>>

MainLockless ==                                    \* slip: push without lock
  /\ main_pc = "lock" /\ main_pc' = "push"
  /\ UNCHANGED <<cb, mutex, arrived, worker_pc, worker, heap, received>>

MainLock ==
  /\ main_pc = "lock"
  /\ \/ mutex = "free" /\ mutex' = "main" /\ main_pc' = "push"
     \/ "lock" \in Faults /\ main_pc' = "returning" /\ UNCHANGED mutex
  /\ UNCHANGED <<cb, arrived, worker_pc, worker, heap, received>>

(* Freeing a pointer that was never allocated ends the process. *)
MainPush ==
  /\ main_pc = "push"
  /\ \E released \in Packets \cup {NULL, Garbage}, status \in {0, -1} :
       /\ cb_push(arrived, released, status)
       /\ IF released = Garbage
            THEN main_pc' = "exited" /\ UNCHANGED heap
            ELSE /\ Free(released)
                 /\ main_pc' = IF status = 0 THEN "signal" ELSE "returning"
  /\ UNCHANGED <<mutex, arrived, worker_pc, worker, received>>

MainSignalNobody ==                                \* slip: no signal
  /\ main_pc = "signal" /\ main_pc' = "unlock"
  /\ UNCHANGED <<cb, mutex, arrived, worker_pc, worker, heap, received>>

MainSignal ==
  /\ main_pc = "signal" /\ main_pc' = "unlock"
  /\ worker_pc' = IF worker_pc = "waiting" THEN "wake" ELSE worker_pc
  /\ UNCHANGED <<cb, mutex, arrived, worker, heap, received>>

MainUnlock ==
  /\ main_pc = "unlock"
  /\ \/ mutex' = "free" /\ main_pc' = "print"
     \/ "unlock" \in Faults /\ main_pc' = "returning" /\ UNCHANGED mutex
  /\ UNCHANGED <<cb, arrived, worker_pc, worker, heap, received>>

(* The packet is read again after the mutex has been released. *)
MainPrint ==
  /\ main_pc = "print" /\ main_pc' = "select"
  /\ \E line \in Lines(arrived) : received' = Append(received, line)
  /\ UNCHANGED <<cb, mutex, arrived, worker_pc, worker, heap>>

(* return 1: the worker still runs until the process is gone. *)
MainExit ==
  /\ main_pc = "returning" /\ main_pc' = "exited"
  /\ UNCHANGED <<cb, mutex, arrived, worker_pc, worker, heap, received>>

-----------------------------------------------------------------------------
(* The worker.                                                             *)

WorkerLock ==
  /\ worker_pc = "lock" /\ Running
  /\ \/ mutex = "free" /\ mutex' = "worker" /\ worker_pc' = "check"
     \/ "lock" \in Faults /\ worker_pc' = "done" /\ UNCHANGED mutex
  /\ UNCHANGED <<cb, main, worker, heap>>

WorkerCheck ==
  /\ worker_pc = "check" /\ Running
  /\ \E n \in (0 .. Length) \cup {UINT_MAX} :
       /\ cb_current_length(n)
       /\ worker_pc' = IF n <= 0 THEN "wait" ELSE "pull"
  /\ UNCHANGED <<mutex, main, worker, heap>>

(* pthread_cond_wait: releases the mutex and waits, in one step; returns   *)
(* after a signal, or spuriously, once it has the mutex again.             *)
WorkerWaitHolding ==                               \* slip: mutex kept
  /\ worker_pc = "wait" /\ Running /\ worker_pc' = "waiting"
  /\ UNCHANGED <<cb, mutex, main, worker, heap>>

WorkerWait ==
  /\ worker_pc = "wait" /\ Running /\ worker_pc' = "waiting"
  /\ mutex' = "free"
  /\ UNCHANGED <<cb, main, worker, heap>>

WorkerSpurious ==
  /\ worker_pc = "waiting" /\ Running /\ worker_pc' = "wake"
  /\ UNCHANGED <<cb, mutex, main, worker, heap>>

WorkerWake ==
  /\ worker_pc = "wake" /\ Running /\ worker_pc' = "check"
  /\ mutex = "free" /\ mutex' = "worker"
  /\ UNCHANGED <<cb, main, worker, heap>>

WorkerPull ==
  /\ worker_pc = "pull" /\ Running
  /\ \E p \in Packets \cup {NULL} :
       /\ cb_pull(p)
       /\ packet' = p
       /\ worker_pc' = IF p = NULL THEN "unlock" ELSE "print"
  /\ UNCHANGED <<mutex, main, heap, processed>>

WorkerPrint ==
  /\ worker_pc = "print" /\ Running /\ worker_pc' = "free"
  /\ \E line \in Lines(packet) : processed' = Append(processed, line)
  /\ UNCHANGED <<cb, mutex, main, packet, heap>>

WorkerFree ==
  /\ worker_pc = "free" /\ Running /\ worker_pc' = "pull"
  /\ Free(packet)
  /\ UNCHANGED <<cb, mutex, main, worker>>

WorkerUnlock ==
  /\ worker_pc = "unlock" /\ Running
  /\ \/ mutex' = "free" /\ worker_pc' = "lock"
     \/ "unlock" \in Faults /\ worker_pc' = "done" /\ UNCHANGED mutex
  /\ UNCHANGED <<cb, main, worker, heap>>

-----------------------------------------------------------------------------

Main ==
  \/ MainStart \/ MainLock \/ MainPush \/ MainSignal \/ MainUnlock \/ MainPrint
  \/ MainExit

Worker ==
  \/ WorkerLock \/ WorkerCheck \/ WorkerWait \/ WorkerWake
  \/ WorkerPull \/ WorkerPrint \/ WorkerFree \/ WorkerUnlock

Next == MainReceive \/ Main \/ Worker \/ WorkerSpurious

Spec == Init /\ [][Next]_vars

(* The worker is told that an empty ring is not, or finds nothing on one   *)
(* that is not empty, because the ring's mutex could not be locked.        *)
RingLockFails ==
  \/ worker_pc = "check" /\ worker_pc' = "pull" /\ Count = 0
  \/ worker_pc = "pull" /\ worker_pc' = "unlock" /\ Count # 0

(* Both threads are scheduled; a lock of a mutex that is held need not     *)
(* return.  Packets need not arrive, a waiting thread need not wake up by  *)
(* itself, and it does not do so for ever; nor does the ring's mutex       *)
(* refuse the worker for ever.                                             *)
FairSpec ==
  /\ Spec
  /\ WF_vars(Main /\ (main_pc = "lock" => mutex = "free"))
  /\ WF_vars(Worker /\ (worker_pc = "lock" => mutex = "free"))
  /\ <>[][~WorkerSpurious /\ ~RingLockFails]_vars

-----------------------------------------------------------------------------

TypeOK ==
  /\ BufferTypeOK
  /\ mutex \in {"free", "main", "worker"}
  /\ main_pc \in {"start", "select", "lock", "push", "signal", "unlock",
                  "print", "returning", "exited"}
  /\ arrived \in 0 .. MaxPackets
  /\ worker_pc \in {"absent", "lock", "check", "wait", "waiting", "wake", "pull",
                    "print", "free", "unlock", "done"}
  /\ packet \in Packets \cup {NULL}
  /\ heap \in [Packets -> {"unallocated", "PASS", "FAIL", "freed"}]

InSlots     == {data[i] : i \in Index} \ {NULL}
MainHolds   == IF main_pc \in {"lock", "push"} THEN {arrived} ELSE {}
WorkerHolds == IF worker_pc \in {"print", "free"} THEN {packet} ELSE {}
Live        == {p \in Packets : Allocated(p)}

(* Every pointer that somebody will still free, or read under the mutex,   *)
(* points to allocated memory, and nobody else will free it: the main      *)
(* thread before its push, the slots (a push frees whatever pointer it     *)
(* overwrites) and the worker after its pull never share a packet.  So no  *)
(* packet is freed twice, by main.c:44 and by circular_buffer.c:78.        *)
OneOwner ==
  /\ InSlots \cup MainHolds \cup WorkerHolds \subseteq Live
  /\ InSlots \cap MainHolds = {}
  /\ InSlots \cap WorkerHolds = {}
  /\ MainHolds \cap WorkerHolds = {}
  /\ \A i, j \in Index : data[i] = data[j] /\ data[i] # NULL => i = j

(* A packet that nobody holds has been freed: packets leak only after an   *)
(* unlock of the ring failed (the todo of cb_pull) or on the way out.      *)
NoLeak ==
  cb_mutex = "free" /\ main_pc \notin {"returning", "exited"} =>
    Live \subseteq InSlots \cup MainHolds \cup WorkerHolds

(* The worker does not sleep through a push: when it waits and the ring is *)
(* not empty, the main thread is about to signal (or about to exit).       *)
NoLostWakeup ==
  worker_pc = "waiting" /\ Count # 0 =>
    main_pc \in {"signal", "returning", "exited"}

(* The ring and the threads keep the order of arrival: the worker prints   *)
(* each packet at most once, in that order, as it was when it was read.    *)
ProcessedInOrder ==
  \A j \in 1 .. Len(processed) :
    \E p \in Packets :
      /\ processed[j] = <<p, Status(p)>>
      /\ \A k \in 1 .. j - 1 : processed[k][1] < p

(* The two printed logs drift apart by at most one packet: the worker may  *)
(* report a packet before the main thread does, but only the one that the  *)
(* main thread has unlocked and is about to report.                        *)
ReportsDriftByOne ==
  \A j \in 1 .. Len(processed) :
    \/ processed[j][1] <= Len(received)
    \/ processed[j][1] = arrived /\ main_pc \in {"print", "exited"}

(* A packet that the worker does not get is given up only by the push of   *)
(* the Length-th packet after it, on a ring full of younger packets.       *)
DropsOnlyWhenFull ==
  [][\A p \in Packets :
       Allocated(p) /\ heap'[p] = "freed" =>
         \/ worker_pc = "free" /\ p = packet
         \/ main_pc = "push" /\ Count = Length /\ p = arrived - Length]_vars

(* A call has failed in a way that ends a thread or blocks the ring. *)
Failed ==
  \/ main_pc \in {"returning", "exited"}
  \/ worker_pc = "done"
  \/ cb_mutex # "free"

(* Every packet that was read is eventually processed or overwritten, and  *)
(* its memory released, unless a call fails.                               *)
EveryPacketReleased ==
  \A p \in Packets : Allocated(p) ~> heap[p] = "freed" \/ Failed

(* The worker never keeps the receiving thread from going back to select,  *)
(* although it drains the whole ring and prints without releasing the      *)
(* mutex.                                                                  *)
MainReturnsToSelect == main_pc = "lock" ~> main_pc = "select" \/ Failed

(* The "Received:" lines report the packets that were received, one line   *)
(* per packet, in order.                                                   *)
ReceivedReportsPackets ==
  \A j \in 1 .. Len(received) : received[j] = <<j, Status(j)>>
=============================================================================
