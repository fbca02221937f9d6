---------------------------- MODULE ThreadProofs ----------------------------
(***************************************************************************)
(* Proofs about the server's two threads, for every number of packets,     *)
(* every length of the ring and every combination of failing calls.        *)
(*                                                                         *)
(* The argument goes in layers, each of which uses those before it: the    *)
(* types; the indices of the ring; who has the mutex, from which it        *)
(* follows that no wakeup is lost; the order of the packets, from the      *)
(* oldest that was printed to the one that is being pushed; and from that  *)
(* order who owns which packet, and what is printed when.  From the order  *)
(* on, the slots of the ring have to be clear at first: the theorems that  *)
(* need it say Uninitialised = {NULL}.                                     *)
(***************************************************************************)
EXTENDS ServerThreads, RingLemmas

USE BufferAssumption, ThreadsAssumption

-----------------------------------------------------------------------------
(* The types.                                                              *)

(* The main thread has a packet from its arrival until it has reported it. *)
Handling  == main_pc \in {"lock", "push", "signal", "unlock", "print"}
HasPacket == Handling => arrived \in Packets

(* The threads call the ring with packets, so its fields keep their types. *)
LEMMA RingTyped ==
  ASSUME TypeOK, HasPacket, [Next]_vars
  PROVE  BufferTypeOK'
<1>1. BufferTypeOK
  BY DEF TypeOK
<1>2. CASE MainPush
  BY <1>1, <1>2, CallTyped DEF MainPush, HasPacket, Handling
<1>3. CASE WorkerCheck
  BY <1>1, <1>3, CallTyped DEF WorkerCheck
<1>4. CASE WorkerPull
  BY <1>1, <1>4, CallTyped DEF WorkerPull
<1>5. CASE UNCHANGED cb
  BY <1>1, <1>5, CallTyped
<1> QED
  BY <1>2, <1>3, <1>4, <1>5
     DEF Next, Main, Worker, MainStart, MainReceive, MainLock, MainSignal,
         MainUnlock, MainPrint, MainExit, WorkerLock, WorkerWait,
         WorkerSpurious, WorkerWake, WorkerPrint, WorkerFree, WorkerUnlock,
         vars, cb

(* Every variable of the threads keeps its type: the ring is called with   *)
(* packets and gives packets back, and no step leaves the two programs.    *)
THEOREM ThreadsTyped == Spec => [](TypeOK /\ HasPacket)
<1>1. Init => TypeOK /\ HasPacket
  BY CreateTyped DEF Init, TypeOK, HasPacket, Handling
<1>2. TypeOK /\ HasPacket /\ [Next]_vars => TypeOK' /\ HasPacket'
  <2> SUFFICES ASSUME TypeOK, HasPacket, [Next]_vars
               PROVE  TypeOK' /\ HasPacket'
    OBVIOUS
  <2> USE DEF TypeOK, HasPacket, Handling
  <2>1. BufferTypeOK'
    BY RingTyped
  <2>2. CASE MainStart
    BY <2>1, <2>2 DEF MainStart, worker
  <2>3. CASE MainReceive
    BY <2>1, <2>3 DEF MainReceive, worker, Status
  <2>4. CASE MainLock
    BY <2>1, <2>4 DEF MainLock, worker
  <2>5. CASE MainPush
    BY <2>1, <2>5 DEF MainPush, worker, Free
  <2>6. CASE MainSignal
    BY <2>1, <2>6 DEF MainSignal, worker
  <2>7. CASE MainUnlock
    BY <2>1, <2>7 DEF MainUnlock, worker
  <2>8. CASE MainPrint
    BY <2>1, <2>8 DEF MainPrint, worker
  <2>9. CASE MainExit
    BY <2>1, <2>9 DEF MainExit, worker
  <2>10. CASE WorkerLock
    BY <2>1, <2>10 DEF WorkerLock, main, worker
  <2>11. CASE WorkerCheck
    BY <2>1, <2>11 DEF WorkerCheck, main, worker
  <2>12. CASE WorkerWait
    BY <2>1, <2>12 DEF WorkerWait, main, worker
  <2>13. CASE WorkerSpurious
    BY <2>1, <2>13 DEF WorkerSpurious, main, worker
  <2>14. CASE WorkerWake
    BY <2>1, <2>14 DEF WorkerWake, main, worker
  <2>15. CASE WorkerPull
    BY <2>1, <2>15 DEF WorkerPull, main
  <2>16. CASE WorkerPrint
    BY <2>1, <2>16 DEF WorkerPrint, main
  <2>17. CASE WorkerFree
    BY <2>1, <2>17 DEF WorkerFree, main, worker, Free
  <2>18. CASE WorkerUnlock
    BY <2>1, <2>18 DEF WorkerUnlock, main, worker
  <2>19. CASE UNCHANGED vars
    BY <2>1, <2>19 DEF vars
  <2> QED
    BY <2>2, <2>3, <2>4, <2>5, <2>6, <2>7, <2>8, <2>9, <2>10, <2>11, <2>12,
       <2>13, <2>14, <2>15, <2>16, <2>17, <2>18, <2>19 DEF Next, Main, Worker
<1> QED
  BY <1>1, <1>2, PTL DEF Spec

-----------------------------------------------------------------------------
(* The ring between the threads: only a push and a pull change its slots.  *)

(* Of all steps, only a push and a pull touch the slots. *)
LEMMA SlotSteps ==
  ASSUME [Next]_vars
  PROVE  \/ MainPush /\ Store(arrived)
         \/ WorkerPull /\ ~Empty /\ Take
         \/ UNCHANGED slots
<1>1. CASE MainPush
  BY <1>1, PushCall DEF MainPush
<1>2. CASE WorkerPull
  BY <1>2, PullCall DEF WorkerPull
<1>3. CASE WorkerCheck
  BY <1>3, LengthCall DEF WorkerCheck
<1>4. CASE UNCHANGED cb
  BY <1>4 DEF cb, slots
<1> QED
  BY <1>1, <1>2, <1>3, <1>4
     DEF Next, Main, Worker, MainStart, MainReceive, MainLock, MainSignal,
         MainUnlock, MainPrint, MainExit, WorkerLock, WorkerWait,
         WorkerSpurious, WorkerWake, WorkerPrint, WorkerFree, WorkerUnlock,
         vars, cb

(* How a step changes the number of packets on the ring. *)
LEMMA CountSteps ==
  ASSUME TypeOK, HasPacket, Ring, [Next]_vars
  PROVE  /\ Ring'
         /\ Count \in 0 .. Length /\ Count' \in 0 .. Length
         /\ \/ /\ MainPush
               /\ Count' = IF Count = Length THEN Length ELSE Count + 1
            \/ WorkerPull /\ Count > 0 /\ Count' = Count - 1
            \/ Count' = Count
<1>1. CASE MainPush /\ Store(arrived)
  <2>1. arrived \in Packets
    BY <1>1 DEF HasPacket, Handling, MainPush
  <2> QED
    BY <1>1, <2>1, StoreGeometry, StoreFullGeometry, RingGeometry
<1>2. CASE WorkerPull /\ ~Empty /\ Take
  BY <1>2, TakeGeometry, RingGeometry
<1>3. CASE UNCHANGED slots
  BY <1>3, KeepGeometry, RingGeometry
<1> QED
  BY <1>1, <1>2, <1>3, SlotSteps

(* The indices and the flag agree, whatever malloc left in the slots. *)
LEMMA RingKept == Spec => []Ring
<1>1. Init => Ring
  BY CreateRing DEF Init
<1>2. TypeOK /\ HasPacket /\ Ring /\ [Next]_vars => Ring'
  BY CountSteps
<1> QED
  BY <1>1, <1>2, ThreadsTyped, PTL DEF Spec

-----------------------------------------------------------------------------
(* The mutex and the condition variable.                                   *)

(* Each thread has the mutex where the program expects it to.              *)
MutexHeld ==
  /\ main_pc \in {"push", "signal", "unlock"} => mutex = "main"
  /\ worker_pc \in {"check", "wait", "pull", "print", "free", "unlock"} =>
       mutex = "worker"

(* The two threads are never both between a lock and an unlock.            *)
LEMMA MutualExclusion == Spec => []MutexHeld
<1>1. Init => MutexHeld
  BY DEF Init, MutexHeld
<1>2. TypeOK /\ MutexHeld /\ [Next]_vars => MutexHeld'
  <2> SUFFICES ASSUME TypeOK, MutexHeld, [Next]_vars
               PROVE  MutexHeld'
    OBVIOUS
  <2> USE DEF TypeOK, MutexHeld
  <2>1. CASE MainStart \/ MainReceive \/ MainPrint \/ MainExit
    BY <2>1 DEF MainStart, MainReceive, MainPrint, MainExit
  <2>2. CASE MainLock
    BY <2>2 DEF MainLock
  <2>3. CASE MainPush
    BY <2>3 DEF MainPush
  <2>4. CASE MainSignal
    BY <2>4 DEF MainSignal
  <2>5. CASE MainUnlock
    BY <2>5 DEF MainUnlock
  <2>6. CASE WorkerLock
    BY <2>6 DEF WorkerLock, main
  <2>7. CASE WorkerCheck
    BY <2>7 DEF WorkerCheck, main
  <2>8. CASE WorkerWait \/ WorkerSpurious
    BY <2>8 DEF WorkerWait, WorkerSpurious, main
  <2>9. CASE WorkerWake
    BY <2>9 DEF WorkerWake, main
  <2>10. CASE WorkerPull
    BY <2>10 DEF WorkerPull, main
  <2>11. CASE WorkerPrint \/ WorkerFree
    BY <2>11 DEF WorkerPrint, WorkerFree, main
  <2>12. CASE WorkerUnlock
    BY <2>12 DEF WorkerUnlock, main
  <2>13. CASE UNCHANGED vars
    BY <2>13 DEF vars
  <2> QED
    BY <2>1, <2>2, <2>3, <2>4, <2>5, <2>6, <2>7, <2>8, <2>9, <2>10, <2>11,
       <2>12, <2>13 DEF Next, Main, Worker
<1> QED
  BY <1>1, <1>2, ThreadsTyped, PTL DEF Spec

(* The ring is empty when the worker decides to wait, and as the worker    *)
(* has the mutex then, it still is when the wait begins.                   *)
WaitsOnEmpty == worker_pc = "wait" => Count = 0

(* No signal is lost, whatever the length of the ring and whichever calls  *)
(* fail: whenever the worker waits and the ring is not empty, the main     *)
(* thread has its signal still to send, or is leaving the program.         *)
THEOREM WakeupKept == Spec => []NoLostWakeup
<1>1. Init => WaitsOnEmpty /\ NoLostWakeup
  BY DEF Init, WaitsOnEmpty, NoLostWakeup
<1>2. /\ TypeOK /\ HasPacket /\ Ring /\ MutexHeld
      /\ WaitsOnEmpty /\ NoLostWakeup /\ [Next]_vars
      => WaitsOnEmpty' /\ NoLostWakeup'
  <2> SUFFICES ASSUME TypeOK, HasPacket, Ring, MutexHeld,
                      WaitsOnEmpty, NoLostWakeup, [Next]_vars
               PROVE  WaitsOnEmpty' /\ NoLostWakeup'
    OBVIOUS
  <2>1. CASE MainPush
    <3>1. mutex = "main" /\ worker_pc \notin {"wait", "check"}
      BY <2>1 DEF MutexHeld, MainPush
    <3> QED
      BY <2>1, <3>1 DEF MainPush, WaitsOnEmpty, NoLostWakeup
  <2>2. CASE WorkerPull
    BY <2>2 DEF WorkerPull, WaitsOnEmpty, NoLostWakeup
  <2>3. CASE WorkerCheck
    <3>1. PICK n \in (0 .. Length) \cup {UINT_MAX} :
            /\ cb_current_length(n)
            /\ worker_pc' = IF n <= 0 THEN "wait" ELSE "pull"
      BY <2>3 DEF WorkerCheck
    <3>2. UNCHANGED slots /\ n \in {CurrentLength, UINT_MAX}
      BY <3>1, LengthCall
    <3>3. Count' = Count
      BY <3>2, KeepGeometry
    <3>4. n <= 0 => Count = 0
      BY <3>2, RingGeometry
    <3> QED
      BY <3>1, <3>3, <3>4 DEF WaitsOnEmpty, NoLostWakeup
  <2>4. CASE MainSignal
    <3>1. Count' = Count
      BY <2>4, KeepGeometry DEF MainSignal, cb, slots
    <3>2. worker_pc # "wait"
      BY <2>4 DEF MainSignal, MutexHeld
    <3> QED
      BY <2>4, <3>1, <3>2 DEF MainSignal, WaitsOnEmpty, NoLostWakeup
  <2>5. CASE \/ MainStart \/ MainReceive \/ MainLock \/ MainUnlock
             \/ MainPrint \/ MainExit
    <3>1. Count' = Count
      BY <2>5, KeepGeometry
         DEF MainStart, MainReceive, MainLock, MainUnlock, MainPrint, MainExit,
             cb, slots
    <3> QED
      BY <2>5, <3>1
         DEF MainStart, MainReceive, MainLock, MainUnlock, MainPrint, MainExit,
             WaitsOnEmpty, NoLostWakeup, MutexHeld
  <2>6. CASE \/ WorkerLock \/ WorkerWait \/ WorkerSpurious \/ WorkerWake
             \/ WorkerPrint \/ WorkerFree \/ WorkerUnlock
    <3>1. Count' = Count
      BY <2>6, KeepGeometry
         DEF WorkerLock, WorkerWait, WorkerSpurious, WorkerWake, WorkerPrint,
             WorkerFree, WorkerUnlock, cb, slots
    <3> QED
      BY <2>6, <3>1
         DEF WorkerLock, WorkerWait, WorkerSpurious, WorkerWake, WorkerPrint,
             WorkerFree, WorkerUnlock, main, WaitsOnEmpty, NoLostWakeup
  <2>7. CASE UNCHANGED vars
    <3>1. Count' = Count
      BY <2>7, KeepGeometry DEF vars, slots
    <3> QED
      BY <2>7, <3>1 DEF vars, WaitsOnEmpty, NoLostWakeup
  <2> QED
    BY <2>1, <2>2, <2>3, <2>4, <2>5, <2>6, <2>7 DEF Next, Main, Worker
<1> QED
  BY <1>1, <1>2, ThreadsTyped, RingKept, MutualExclusion, PTL DEF Spec

-----------------------------------------------------------------------------
(* The order of arrival.                                                   *)

(* The ring holds the packets up to n, without a gap. *)
Consecutive(n) ==
  /\ Count <= n
  /\ \A k \in 1 .. Count : Contents[k] = n - Count + k

(* The n-th packet is the last one that was pushed.  Where the main thread *)
(* is tells whether that is its own packet or the one before; if it leaves *)
(* with its packet pushed but not reported, it keeps the mutex.            *)
LastPushed(n) ==
  /\ n \in {arrived - 1, arrived}
  /\ main_pc \in {"start", "select", "signal", "unlock", "print"} =>
       n = arrived
  /\ main_pc \in {"lock", "push"} => n = arrived - 1
  /\ main_pc = "returning" =>
       n = arrived - 1 \/ (mutex = "main" /\ Count > 0)
  /\ main_pc \in {"signal", "unlock"} => Count > 0

(* What the worker holds is older than what is on the ring. *)
HoldsOlder(n) == worker_pc \in {"print", "free"} => packet \in 1 .. n - Count

Order(n) == Consecutive(n) /\ LastPushed(n) /\ HoldsOlder(n)

(* A push of the next packet leaves no gap, and what was older than the    *)
(* ring stays older.                                                       *)
LEMMA PushKeepsOrder ==
  ASSUME RingInv, NEW n \in Int, Consecutive(n), NEW p \in Packets, p = n + 1,
         Store(p)
  PROVE  /\ Consecutive(p)'
         /\ n - Count <= p - Count'
         /\ Count' > 0
<1>1. Ring /\ Length \in Nat \ {0}
  BY DEF RingInv
<1>2. /\ Contents \in Seq(Packets) /\ Len(Contents) = Count
      /\ Count \in 0 .. Length
  BY ContentsIsSeq
<1>3. CASE Overflow
  <2>1. Count = Length /\ Count' = Length
    BY <1>1, <1>3, StoreFullGeometry, RingGeometry
  <2>2. Contents' = Append(Tail(Contents), p)
    BY <1>1, <1>3, StoreFullContents
  <2>3. \A k \in 1 .. Length :
          Contents'[k] = IF k = Length THEN p ELSE Contents[k + 1]
    BY <1>1, <1>2, <2>1, <2>2
  <2>4. \A k \in 1 .. Length - 1 :
          k + 1 \in 1 .. Count /\ Contents[k + 1] = p - Length + k
    BY <1>1, <2>1 DEF Consecutive
  <2>5. \A k \in 1 .. Length : Contents'[k] = p - Length + k
    BY <1>1, <2>3, <2>4
  <2>6. Count <= p
    BY <1>2 DEF Consecutive
  <2> QED
    BY <2>1, <2>5, <2>6 DEF Consecutive
<1>4. CASE ~Overflow
  <2>1. Count' = Count + 1
    BY <1>1, <1>4, StoreGeometry
  <2>2. Contents' = Append(Contents, p)
    BY <1>1, <1>4, StoreContents
  <2>3. \A k \in 1 .. Count + 1 :
          Contents'[k] = IF k = Count + 1 THEN p ELSE Contents[k]
    BY <1>1, <1>2, <2>2
  <2> QED
    BY <2>1, <2>3, <1>2 DEF Consecutive
<1> QED
  BY <1>3, <1>4

(* A pull takes the oldest packet and leaves no gap. *)
LEMMA PullKeepsOrder ==
  ASSUME RingInv, NEW n \in Int, Consecutive(n), ~Empty, Take
  PROVE  /\ Consecutive(n)'
         /\ Count' = Count - 1
         /\ data[pull_index] = n - Count'
         /\ n - Count' \in 1 .. n
<1>1. /\ Contents \in Seq(Packets) /\ Len(Contents) = Count
      /\ Count \in 0 .. Length
  BY ContentsIsSeq
<1>2. Count' = Count - 1
  BY TakeGeometry DEF RingInv
<1>3. /\ Contents # << >>
      /\ Head(Contents) = data[pull_index]
      /\ Contents' = Tail(Contents)
  BY TakeContents
<1>4. Count > 0 /\ data[pull_index] = Contents[1]
  BY <1>1, <1>3
<1>5. \A k \in 1 .. Count - 1 : Contents'[k] = Contents[k + 1]
  BY <1>1, <1>3
<1> QED
  BY <1>1, <1>2, <1>4, <1>5 DEF Consecutive

(* A step that leaves the slots alone keeps the order. *)
LEMMA KeepKeepsOrder ==
  ASSUME RingInv, NEW n \in Int, Consecutive(n), UNCHANGED slots
  PROVE  Consecutive(n)' /\ Count' = Count
  BY SameContents, KeepGeometry DEF Consecutive, RingInv

(* What MainPush does, in terms of the slots and the heap. *)
LEMMA PushSteps ==
  ASSUME HasPacket, MainPush
  PROVE  /\ main_pc = "push" /\ arrived \in Packets
         /\ UNCHANGED <<mutex, arrived, worker_pc, packet, processed,
                        received>>
         /\ \/ /\ Store(arrived)
               /\ IF data[push_index] = Garbage
                    THEN main_pc' = "exited" /\ UNCHANGED heap
                    ELSE /\ main_pc' \in {"signal", "returning"}
                         /\ Free(data[push_index])
            \/ UNCHANGED <<slots, heap>> /\ main_pc' = "returning"
<1>1. /\ main_pc = "push" /\ arrived \in Packets
      /\ UNCHANGED <<mutex, arrived, worker_pc, packet, processed, received>>
  BY DEF MainPush, HasPacket, Handling, worker
<1>2. PICK released \in Packets \cup {NULL, Garbage}, status \in {0, -1} :
        /\ cb_push(arrived, released, status)
        /\ IF released = Garbage
             THEN main_pc' = "exited" /\ UNCHANGED heap
             ELSE /\ Free(released)
                  /\ main_pc' = IF status = 0 THEN "signal" ELSE "returning"
  BY DEF MainPush
<1>3. CASE Store(arrived) /\ released = data[push_index]
  BY <1>1, <1>2, <1>3
<1>4. CASE UNCHANGED slots /\ released = NULL /\ status = -1
  BY <1>1, <1>2, <1>4 DEF Free
<1> QED
  BY <1>2, <1>3, <1>4, PushCall

(* What WorkerPull does, in terms of the slots. *)
LEMMA PullSteps ==
  ASSUME WorkerPull
  PROVE  /\ worker_pc = "pull"
         /\ UNCHANGED <<mutex, main_pc, arrived, heap, processed, received>>
         /\ \/ /\ ~Empty /\ Take
               /\ packet' \in {data[pull_index], NULL}
               /\ cb_mutex' = "free" => packet' = data[pull_index]
            \/ UNCHANGED slots /\ packet' = NULL
         /\ packet' \in Packets \cup {NULL}
         /\ worker_pc' = IF packet' = NULL THEN "unlock" ELSE "print"
  BY DEF WorkerPull, main, cb_pull, LockFails, UnlockFails, slots, cb

(* A step keeps the order, and what was older than the ring stays so. *)
LEMMA OrderSteps ==
  ASSUME TypeOK, HasPacket, MutexHeld, RingInv, NEW n \in Int, Order(n),
         [Next]_vars
  PROVE  \E m \in Int : Order(m)' /\ n - Count <= m - Count'
<1> USE DEF Order
<1>1. Count \in 0 .. Length
  BY RingGeometry DEF RingInv
<1>2. CASE MainPush
  <2>1. /\ n = arrived - 1
        /\ mutex = "main" /\ worker_pc \notin {"print", "free"}
    BY <1>2, PushSteps DEF LastPushed, MutexHeld
  <2>2. CASE Store(arrived) /\ main_pc' \in {"signal", "returning", "exited"}
    <3>1. PICK m \in Packets : m = n + 1 /\ Store(m)
      BY <1>2, <2>1, <2>2, PushSteps DEF TypeOK
    <3>2. /\ Consecutive(m)'
          /\ n - Count <= m - Count'
          /\ Count' > 0
      BY <3>1, PushKeepsOrder
    <3>3. LastPushed(m)' /\ HoldsOlder(m)'
      BY <1>2, <2>1, <2>2, <3>1, <3>2, PushSteps
         DEF LastPushed, HoldsOlder, TypeOK
    <3> QED
      BY <3>1, <3>2, <3>3
  <2>3. CASE UNCHANGED slots /\ main_pc' = "returning"
    <3>1. Consecutive(n)' /\ Count' = Count
      BY <2>3, KeepKeepsOrder
    <3>2. Order(n)'
      BY <1>2, <2>1, <2>3, <3>1, PushSteps DEF LastPushed, HoldsOlder
    <3> QED
      BY <1>1, <3>1, <3>2
  <2> QED
    BY <1>2, <2>2, <2>3, PushSteps
<1>3. CASE WorkerPull
  <2>1. /\ mutex = "worker" /\ main_pc \notin {"signal", "unlock"}
        /\ UNCHANGED <<mutex, main_pc, arrived>>
    BY <1>3, PullSteps DEF MutexHeld
  <2>2. CASE ~Empty /\ Take /\ packet' \in {data[pull_index], NULL}
    <3>1. /\ Consecutive(n)'
          /\ Count' = Count - 1
          /\ data[pull_index] = n - Count'
          /\ n - Count' \in 1 .. n
      BY <2>2, PullKeepsOrder
    <3>2. packet' # NULL => packet' \in 1 .. n - Count'
      BY <2>2, <3>1, <1>1
    <3>3. LastPushed(n)'
      BY <2>1, <3>1 DEF LastPushed
    <3>4. HoldsOlder(n)'
      BY <1>3, <3>2, PullSteps DEF HoldsOlder
    <3> QED
      BY <1>1, <3>1, <3>3, <3>4
  <2>3. CASE UNCHANGED slots /\ packet' = NULL
    <3>1. Consecutive(n)' /\ Count' = Count
      BY <2>3, KeepKeepsOrder
    <3>2. Order(n)'
      BY <1>3, <2>1, <2>3, <3>1, PullSteps DEF LastPushed, HoldsOlder
    <3> QED
      BY <1>1, <3>1, <3>2
  <2> QED
    BY <1>3, <2>2, <2>3, PullSteps
<1>4. CASE UNCHANGED slots /\ ~MainPush /\ ~WorkerPull
  <2>1. Consecutive(n)' /\ Count' = Count
    BY <1>4, KeepKeepsOrder
  <2> SUFFICES LastPushed(n)' /\ HoldsOlder(n)'
    BY <1>1, <2>1
  <2> USE <2>1 DEF LastPushed, HoldsOlder, TypeOK
  <2>2. CASE MainStart
    BY <2>2 DEF MainStart, worker
  <2>3. CASE MainReceive
    BY <2>3 DEF MainReceive, worker
  <2>4. CASE MainLock
    BY <2>4 DEF MainLock, worker
  <2>5. CASE MainSignal
    BY <2>5 DEF MainSignal, worker
  <2>6. CASE MainUnlock
    BY <2>6 DEF MainUnlock, MutexHeld, worker
  <2>7. CASE MainPrint \/ MainExit
    BY <2>7 DEF MainPrint, MainExit, worker
  <2>8. CASE WorkerLock \/ WorkerWake
    BY <2>8 DEF WorkerLock, WorkerWake, main, worker
  <2>9. CASE WorkerWait \/ WorkerUnlock
    BY <2>9 DEF WorkerWait, WorkerUnlock, MutexHeld, main, worker
  <2>10. CASE WorkerCheck \/ WorkerSpurious
    BY <2>10 DEF WorkerCheck, WorkerSpurious, main, worker
  <2>11. CASE WorkerPrint \/ WorkerFree
    BY <2>11 DEF WorkerPrint, WorkerFree, main, worker
  <2>12. CASE UNCHANGED vars
    BY <2>12 DEF vars
  <2> QED
    BY <1>4, <2>2, <2>3, <2>4, <2>5, <2>6, <2>7, <2>8, <2>9, <2>10, <2>11,
       <2>12 DEF Next, Main, Worker
<1> QED
  BY <1>2, <1>3, <1>4, SlotSteps

(* The ring under the two threads, made of memory that malloc hands out    *)
(* cleared: it is consistent and holds the packets in order of arrival.    *)
InOrder == \E n \in Int : Order(n)

(* In every state the packets on the ring are consecutive. *)
LEMMA ArrivalOrder ==
  ASSUME Uninitialised = {NULL}
  PROVE  Spec => [](RingInv /\ InOrder)
<1>1. Init => RingInv /\ InOrder
  <2> SUFFICES ASSUME Init PROVE RingInv /\ InOrder
    OBVIOUS
  <2>1. RingInv /\ Count = 0
    BY InitRing, CreateRing DEF Init
  <2>2. Order(0)
    BY <2>1 DEF Init, Order, Consecutive, LastPushed, HoldsOlder
  <2> QED
    BY <2>1, <2>2 DEF InOrder
<1>2. /\ TypeOK /\ HasPacket /\ MutexHeld /\ RingInv /\ InOrder /\ [Next]_vars
      => RingInv' /\ InOrder'
  <2> SUFFICES ASSUME TypeOK, HasPacket, MutexHeld, RingInv, InOrder,
                      [Next]_vars
               PROVE  RingInv' /\ InOrder'
    OBVIOUS
  <2>1. RingInv'
    BY SlotSteps, PushSteps, StorePreserves, TakePreserves, KeepPreserves
  <2>2. InOrder'
    BY OrderSteps DEF InOrder
  <2> QED
    BY <2>1, <2>2
<1> QED
  BY <1>1, <1>2, ThreadsTyped, MutualExclusion, PTL DEF Spec

-----------------------------------------------------------------------------
(* Who owns which packet.                                                  *)

(* No two slots, and no two owners, share a packet. *)
LEMMA SlotsDistinct ==
  ASSUME RingInv, NEW n \in Int, Consecutive(n)
  PROVE  /\ InSlots = n - Count + 1 .. n
         /\ \A i, j \in Index : data[i] = data[j] /\ data[i] # NULL => i = j
<1>1. /\ Count \in 0 .. Length
      /\ \A k \in 1 .. Length : Slot(k) \in Index
      /\ \A i \in Index : \E k \in 1 .. Length : Slot(k) = i
  BY RingGeometry, SlotsCover DEF RingInv
<1>2. \A k \in 1 .. Length :
        data[Slot(k)] = IF k <= Count THEN n - Count + k ELSE NULL
  BY <1>1, ContentsIsSeq DEF RingInv, SlotsMatchIndices, Consecutive
<1>3. \A k \in 1 .. Count : data[Slot(k)] # NULL
  BY <1>1 DEF RingInv, SlotsMatchIndices
<1>4. InSlots = n - Count + 1 .. n
  <2>1. ASSUME NEW p \in InSlots
        PROVE  p \in n - Count + 1 .. n
    <3>1. PICK i \in Index : p = data[i] /\ p # NULL
      BY DEF InSlots
    <3>2. PICK k \in 1 .. Length : Slot(k) = i
      BY <1>1
    <3> QED
      BY <3>1, <3>2, <1>1, <1>2
  <2>2. ASSUME NEW p \in n - Count + 1 .. n
        PROVE  p \in InSlots
    <3>1. p - n + Count \in 1 .. Count
      BY <1>1
    <3>2. data[Slot(p - n + Count)] = p
      BY <3>1, <1>1, <1>2
    <3> QED
      BY <3>1, <3>2, <1>1, <1>3 DEF InSlots
  <2> QED
    BY <2>1, <2>2
<1>5. ASSUME NEW i \in Index, NEW j \in Index,
             data[i] = data[j], data[i] # NULL
      PROVE  i = j
  <2>1. PICK k \in 1 .. Length, l \in 1 .. Length : Slot(k) = i /\ Slot(l) = j
    BY <1>1
  <2>2. k <= Count /\ l <= Count
    BY <1>1, <1>2, <1>5, <2>1
  <2>3. n - Count + k = n - Count + l
    BY <1>2, <1>5, <2>1, <2>2
  <2> QED
    BY <1>1, <2>1, <2>3
<1> QED
  BY <1>4, <1>5

(* The order keeps the three owners apart. *)
LEMMA OwnersApart ==
  ASSUME TypeOK, RingInv, NEW n \in Int, Order(n)
  PROVE  /\ InSlots \cap MainHolds = {}
         /\ InSlots \cap WorkerHolds = {}
         /\ MainHolds \cap WorkerHolds = {}
         /\ \A i, j \in Index : data[i] = data[j] /\ data[i] # NULL => i = j
<1>1. Count \in 0 .. Length
  BY RingGeometry DEF RingInv
<1>2. InSlots = n - Count + 1 .. n
  BY SlotsDistinct DEF Order
<1>3. MainHolds \subseteq {n + 1} /\ n + 1 \notin 1 .. n
  BY DEF MainHolds, Order, LastPushed, TypeOK
<1>4. WorkerHolds \subseteq 1 .. n - Count
  BY DEF WorkerHolds, Order, HoldsOlder
<1> QED
  BY <1>1, <1>2, <1>3, <1>4, SlotsDistinct DEF Order

(* How packets move between the owners. *)
LEMMA StoreMoves ==
  ASSUME RingInv, NEW p \in Packets, Store(p),
         \A i, j \in Index : data[i] = data[j] /\ data[i] # NULL => i = j
  PROVE  /\ data[push_index] \in InSlots \cup {NULL}
         /\ InSlots' = (InSlots \ {data[push_index]}) \cup {p}
<1>1. /\ push_index \in Index
      /\ data \in [Index -> Packets \cup {NULL, Garbage}]
      /\ data' = [data EXCEPT ![push_index] = p]
  BY DEF RingInv, Ring, Store
<1>2. Index' = Index
  BY DEF Index
<1> QED
  BY <1>1, <1>2 DEF InSlots

(* A pull removes the packet it returns from the slots. *)
LEMMA TakeMoves ==
  ASSUME RingInv, ~Empty, Take,
         \A i, j \in Index : data[i] = data[j] /\ data[i] # NULL => i = j
  PROVE  /\ data[pull_index] \in InSlots
         /\ InSlots' = InSlots \ {data[pull_index]}
<1>1. /\ pull_index \in Index
      /\ data \in [Index -> Packets \cup {NULL, Garbage}]
      /\ data' = [data EXCEPT ![pull_index] = NULL]
  BY DEF RingInv, Ring, Take
<1>2. data[pull_index] \in Packets
  <2>1. Count \in 1 .. Length /\ Slot(1) = pull_index
    BY RingGeometry DEF RingInv
  <2> QED
    BY <2>1 DEF RingInv, SlotsMatchIndices
<1>3. Index' = Index
  BY DEF Index
<1> QED
  BY <1>1, <1>2, <1>3 DEF InSlots

(* A step that leaves the slots alone keeps the packets in them. *)
LEMMA KeepMoves ==
  ASSUME UNCHANGED slots
  PROVE  InSlots' = InSlots
  BY DEF InSlots, slots, Index

(* Freeing a packet removes it from what is allocated. *)
LEMMA FreeMoves ==
  ASSUME TypeOK, NEW p \in Packets \cup {NULL}, Free(p)
  PROVE  /\ Live' = Live \ {p}
         /\ \A q \in Packets : heap'[q] = IF q = p THEN "freed" ELSE heap[q]
  BY DEF Free, Live, Allocated, TypeOK

(* The worker starts after the main thread. *)
NoWorkerYet == main_pc = "start" => worker_pc = "absent"

(* Nothing but MainStart creates the worker. *)
LEMMA WorkerStartsLater == Spec => []NoWorkerYet
<1>1. Init => NoWorkerYet
  BY DEF Init, NoWorkerYet
<1>2. NoWorkerYet /\ [Next]_vars => NoWorkerYet'
  BY DEF NoWorkerYet, Next, Main, Worker, MainStart, MainReceive, MainLock,
         MainPush, MainSignal, MainUnlock, MainPrint, MainExit, WorkerLock,
         WorkerCheck, WorkerWait, WorkerSpurious, WorkerWake, WorkerPull,
         WorkerPrint, WorkerFree, WorkerUnlock, main, vars
<1> QED
  BY <1>1, <1>2, PTL DEF Spec

(* What is held is allocated, and says whether its packet is intact.       *)
HeldIsLive == InSlots \cup MainHolds \cup WorkerHolds \subseteq Live
HeapHonest == \A p \in Packets : Allocated(p) => heap[p] = Status(p)
HeapInv    == HeldIsLive /\ HeapHonest /\ NoLeak

(* A step keeps the heap in line with the owners. *)
LEMMA HeapSteps ==
  ASSUME TypeOK, HasPacket, MutexHeld, RingInv, NEW n \in Int, Order(n),
         HeapInv, NoWorkerYet, [Next]_vars
  PROVE  HeapInv'
<1>1. /\ InSlots \cap MainHolds = {}
      /\ InSlots \cap WorkerHolds = {}
      /\ MainHolds \cap WorkerHolds = {}
      /\ \A i, j \in Index : data[i] = data[j] /\ data[i] # NULL => i = j
  BY OwnersApart
<1>2. cb_mutex' = "free" => cb_mutex = "free"
  BY DEF Next, Main, Worker, MainStart, MainReceive, MainLock, MainPush,
         MainSignal, MainUnlock, MainPrint, MainExit, WorkerLock, WorkerCheck,
         WorkerWait, WorkerSpurious, WorkerWake, WorkerPull, WorkerPrint,
         WorkerFree, WorkerUnlock, cb_push, cb_pull, cb_current_length,
         LockFails, Locked, vars, cb
<1>3. CASE MainPush
  <2>1. /\ main_pc = "push" /\ arrived \in Packets
        /\ worker_pc \notin {"print", "free"} /\ worker_pc' = worker_pc
        /\ MainHolds = {arrived} /\ WorkerHolds = {} /\ WorkerHolds' = {}
    BY <1>3, PushSteps DEF MutexHeld, MainHolds, WorkerHolds
  <2>2. CASE /\ Store(arrived)
             /\ main_pc' \in {"signal", "returning"}
             /\ Free(data[push_index])
    <3> DEFINE r == data[push_index]
    <3>1. /\ r \in InSlots \cup {NULL}
          /\ InSlots' = (InSlots \ {r}) \cup {arrived}
      BY <1>1, <2>1, <2>2, StoreMoves
    <3>2. InSlots \subseteq Packets
      BY DEF HeapInv, HeldIsLive, Live
    <3>3. /\ Live' = Live \ {r}
          /\ \A q \in Packets : heap'[q] = IF q = r THEN "freed" ELSE heap[q]
      BY <2>2, <3>1, <3>2, FreeMoves
    <3>4. MainHolds' = {} /\ r # arrived
      BY <1>1, <2>1, <2>2, <3>1 DEF MainHolds
    <3> HIDE DEF r
    <3>5. HeldIsLive'
      BY <2>1, <3>1, <3>3, <3>4 DEF HeapInv, HeldIsLive
    <3>6. HeapHonest'
      BY <3>3 DEF HeapInv, HeapHonest, Allocated, Status
    <3>7. NoLeak'
      BY <1>2, <2>1, <3>1, <3>3, <3>4 DEF HeapInv, NoLeak
    <3> QED
      BY <3>5, <3>6, <3>7 DEF HeapInv
  <2>3. CASE UNCHANGED <<slots, heap>> /\ main_pc' = "returning"
    <3>1. InSlots' = InSlots /\ Live' = Live /\ MainHolds' = {}
      BY <2>3, KeepMoves DEF Live, Allocated, MainHolds
    <3> QED
      BY <2>1, <2>3, <3>1
         DEF HeapInv, HeldIsLive, HeapHonest, NoLeak, Allocated, Status
  <2>4. CASE data[push_index] = Garbage /\ Store(arrived)
    <3>1. data[push_index] \in InSlots \cup {NULL}
      BY <1>1, <2>1, <2>4, StoreMoves
    <3> QED
      BY <2>4, <3>1 DEF HeapInv, HeldIsLive, Live
  <2> QED
    BY <1>3, <2>2, <2>3, <2>4, PushSteps
<1>4. CASE WorkerPull
  <2>1. /\ worker_pc = "pull" /\ UNCHANGED <<main_pc, arrived, heap>>
        /\ WorkerHolds = {} /\ Live' = Live /\ MainHolds' = MainHolds
    BY <1>4, PullSteps DEF WorkerHolds, MainHolds, Live, Allocated
  <2>2. HeapHonest'
    BY <2>1 DEF HeapInv, HeapHonest, Allocated, Status
  <2>3. WorkerHolds' = IF packet' = NULL THEN {} ELSE {packet'}
    BY <1>4, PullSteps DEF WorkerHolds
  <2>4. CASE /\ ~Empty /\ Take /\ packet' \in {data[pull_index], NULL}
             /\ cb_mutex' = "free" => packet' = data[pull_index]
    <3> DEFINE q == data[pull_index]
    <3>1. q \in InSlots /\ InSlots' = InSlots \ {q} /\ q # NULL
      BY <1>1, <2>4, TakeMoves DEF InSlots
    <3>2. WorkerHolds' \subseteq {q}
      BY <2>3, <2>4
    <3>3. cb_mutex' = "free" => WorkerHolds' = {q}
      BY <2>3, <2>4, <3>1
    <3> HIDE DEF q
    <3>4. HeldIsLive'
      BY <2>1, <3>1, <3>2 DEF HeapInv, HeldIsLive
    <3>5. NoLeak'
      BY <1>2, <2>1, <3>1, <3>3 DEF HeapInv, NoLeak
    <3> QED
      BY <2>2, <3>4, <3>5 DEF HeapInv
  <2>5. CASE UNCHANGED slots /\ packet' = NULL
    <3>1. InSlots' = InSlots
      BY <2>5, KeepMoves
    <3> QED
      BY <1>2, <2>1, <2>2, <2>3, <2>5, <3>1 DEF HeapInv, HeldIsLive, NoLeak
  <2> QED
    BY <1>4, <2>4, <2>5, PullSteps
<1>5. CASE WorkerFree
  <2>1. /\ worker_pc = "free" /\ worker_pc' = "pull" /\ Free(packet)
        /\ UNCHANGED <<slots, main_pc, arrived>>
    BY <1>5 DEF WorkerFree, main, cb, slots
  <2>2. /\ WorkerHolds = {packet} /\ WorkerHolds' = {}
        /\ MainHolds' = MainHolds /\ InSlots' = InSlots
    BY <2>1, KeepMoves DEF WorkerHolds, MainHolds
  <2>3. /\ Live' = Live \ {packet}
        /\ \A q \in Packets :
             heap'[q] = IF q = packet THEN "freed" ELSE heap[q]
    BY <2>1, FreeMoves DEF TypeOK
  <2>4. HeldIsLive'
    BY <1>1, <2>2, <2>3 DEF HeapInv, HeldIsLive
  <2>5. HeapHonest'
    BY <2>3 DEF HeapInv, HeapHonest, Allocated, Status
  <2>6. NoLeak'
    BY <1>2, <2>1, <2>2, <2>3 DEF HeapInv, NoLeak
  <2> QED
    BY <2>4, <2>5, <2>6 DEF HeapInv
<1>6. CASE MainReceive
  <2>1. /\ worker_pc' = worker_pc /\ packet' = packet /\ MainHolds = {}
        /\ UNCHANGED slots
    BY <1>6 DEF MainReceive, worker, cb, slots, MainHolds
  <2>2. InSlots' = InSlots /\ WorkerHolds' = WorkerHolds
    BY <2>1, KeepMoves DEF WorkerHolds
  <2>3. CASE main_pc' = "exited" /\ UNCHANGED heap
    BY <2>1, <2>2, <2>3
       DEF HeapInv, HeldIsLive, HeapHonest, NoLeak, Live, Allocated, Status,
           MainHolds
  <2>4. CASE /\ heap' = [heap EXCEPT ![arrived'] = Status(arrived')]
             /\ main_pc' \in {"lock", "returning"}
    <3>1. arrived' \in Packets
      BY <1>6 DEF MainReceive, TypeOK
    <3> DEFINE a == arrived'
    <3>2. \A q \in Packets : heap'[q] = IF q = a THEN Status(a) ELSE heap[q]
      BY <2>4 DEF TypeOK
    <3>3. MainHolds' = IF main_pc' = "lock" THEN {a} ELSE {}
      BY <2>4 DEF MainHolds
    <3> HIDE DEF a
    <3>4. a \in Packets
      BY <3>1 DEF a
    <3>5. Live' = Live \cup {a}
      BY <3>2, <3>4 DEF Live, Allocated, Status
    <3>6. HeldIsLive'
      BY <2>2, <3>3, <3>5 DEF HeapInv, HeldIsLive
    <3>7. HeapHonest'
      BY <3>2 DEF HeapInv, HeapHonest, Allocated, Status
    <3>8. NoLeak'
      BY <1>2, <1>6, <2>1, <2>2, <2>4, <3>3, <3>5
         DEF HeapInv, NoLeak, MainReceive
    <3> QED
      BY <3>6, <3>7, <3>8 DEF HeapInv
  <2> QED
    BY <1>6, <2>3, <2>4 DEF MainReceive
<1>7. CASE /\ UNCHANGED <<slots, heap>>
           /\ ~MainPush /\ ~MainReceive /\ ~WorkerPull
  <2>1. InSlots' = InSlots /\ Live' = Live
    BY <1>7, KeepMoves DEF Live, Allocated
  <2>2. HeapHonest'
    BY <1>7 DEF HeapInv, HeapHonest, Allocated, Status
  <2> SUFFICES HeldIsLive' /\ NoLeak'
    BY <2>2 DEF HeapInv
  <2>3. HeldIsLive /\ NoLeak
    BY DEF HeapInv
  <2> USE <1>2, <2>1, <2>3 DEF HeldIsLive, NoLeak, MainHolds, WorkerHolds
  <2>4. CASE MainStart
    BY <2>4 DEF MainStart, worker, NoWorkerYet
  <2>5. CASE MainLock
    BY <2>5 DEF MainLock, worker
  <2>6. CASE MainSignal
    BY <2>6 DEF MainSignal, worker
  <2>7. CASE MainUnlock
    BY <2>7 DEF MainUnlock, worker
  <2>8. CASE MainPrint \/ MainExit
    BY <2>8 DEF MainPrint, MainExit, worker
  <2>9. CASE WorkerLock \/ WorkerWait
    BY <2>9 DEF WorkerLock, WorkerWait, main, worker
  <2>10. CASE WorkerCheck
    BY <2>10 DEF WorkerCheck, main, worker
  <2>11. CASE WorkerSpurious \/ WorkerWake
    BY <2>11 DEF WorkerSpurious, WorkerWake, main, worker
  <2>12. CASE WorkerPrint
    BY <2>12 DEF WorkerPrint, main
  <2>13. CASE WorkerUnlock
    BY <2>13 DEF WorkerUnlock, main, worker
  <2>14. CASE UNCHANGED vars
    BY <2>14 DEF vars
  <2> QED
    BY <1>5, <1>7, <2>4, <2>5, <2>6, <2>7, <2>8, <2>9, <2>10, <2>11, <2>12,
       <2>13, <2>14 DEF Next, Main, Worker, HeapInv
<1>8. \/ UNCHANGED <<slots, heap>>
      \/ MainPush \/ MainReceive \/ WorkerPull \/ WorkerFree
  <2>1. CASE UNCHANGED heap
    BY <2>1, SlotSteps
  <2>2. CASE heap' # heap
    BY <2>2
       DEF Next, Main, Worker, MainStart, MainLock, MainSignal, MainUnlock,
           MainPrint, MainExit, WorkerLock, WorkerCheck, WorkerWait,
           WorkerSpurious, WorkerWake, WorkerPrint, WorkerUnlock, vars
  <2> QED
    BY <2>1, <2>2
<1> QED
  BY <1>3, <1>4, <1>5, <1>6, <1>7, <1>8

(* Every packet that a thread or a slot still refers to is allocated and   *)
(* referred to once, so that it is neither used after it was freed nor     *)
(* freed twice; and none is lost while no call fails.  Any number of       *)
(* packets, any length of the ring, any calls failing.                     *)
THEOREM PacketsOwned ==
  ASSUME Uninitialised = {NULL}
  PROVE  Spec => [](OneOwner /\ NoLeak /\ HeapHonest)
<1>1. Init => HeapInv
  <2> SUFFICES ASSUME Init PROVE HeapInv
    OBVIOUS
  <2>1. InSlots = {}
    BY DEF Init, cb_create, InSlots
  <2>2. MainHolds = {} /\ WorkerHolds = {}
    BY DEF Init, MainHolds, WorkerHolds
  <2>3. \A p \in Packets : ~Allocated(p)
    BY DEF Init, Allocated
  <2> QED
    BY <2>1, <2>2, <2>3 DEF HeapInv, HeldIsLive, HeapHonest, NoLeak, Live
<1>2. /\ TypeOK /\ HasPacket /\ MutexHeld /\ RingInv /\ InOrder /\ NoWorkerYet
      /\ HeapInv /\ [Next]_vars
      => HeapInv'
  BY HeapSteps DEF InOrder
<1>3. TypeOK /\ RingInv /\ InOrder /\ HeapInv
      => OneOwner /\ NoLeak /\ HeapHonest
  BY OwnersApart DEF InOrder, HeapInv, HeldIsLive, OneOwner
<1> QED
  BY <1>1, <1>2, <1>3, ThreadsTyped, MutualExclusion, ArrivalOrder,
     WorkerStartsLater, PTL DEF Spec

(* What a push drops is the oldest packet of a full ring, whose length     *)
(* separates it from the packet pushed.                                    *)
THEOREM DropsOldestOnly ==
  ASSUME Uninitialised = {NULL}
  PROVE  Spec => DropsOnlyWhenFull
<1> DEFINE Drop(p) ==
      Allocated(p) /\ heap'[p] = "freed" =>
        \/ worker_pc = "free" /\ p = packet
        \/ main_pc = "push" /\ Count = Length /\ p = arrived - Length
<1>1. TypeOK /\ HasPacket /\ RingInv /\ InOrder /\ [Next]_vars
      => [\A p \in Packets : Drop(p)]_vars
  <2> SUFFICES ASSUME TypeOK, HasPacket, RingInv, InOrder, [Next]_vars,
                      NEW p \in Packets, Allocated(p), heap'[p] = "freed"
               PROVE  \/ worker_pc = "free" /\ p = packet
                      \/ /\ main_pc = "push" /\ Count = Length
                         /\ p = arrived - Length
    OBVIOUS
  <2>1. CASE MainPush
    <3>1. PICK n \in Int : Order(n)
      BY DEF InOrder
    <3>2. main_pc = "push" /\ arrived \in Packets /\ n = arrived - 1
      BY <2>1, <3>1, PushSteps DEF Order, LastPushed
    <3>3. /\ Store(arrived) /\ Free(data[push_index])
          /\ data[push_index] # Garbage
      BY <2>1, PushSteps DEF Allocated
    <3>4. data[push_index] \in Packets \cup {NULL}
      BY <3>3 DEF RingInv, Ring
    <3>5. p = data[push_index]
      BY <3>3, <3>4, FreeMoves DEF Allocated
    <3>6. CASE Overflow
      <4>1. Count = Length /\ Head(Contents) = data[push_index]
        BY <3>2, <3>3, <3>6, StoreFullContents, ContentsIsSeq
      <4>2. Contents[1] = n - Length + 1 /\ Head(Contents) = Contents[1]
        BY <3>1, <4>1, ContentsIsSeq DEF Order, Consecutive
      <4> QED
        BY <3>2, <3>5, <4>1, <4>2
    <3>7. CASE ~Overflow
      BY <3>2, <3>3, <3>5, <3>7, StoreContents
    <3> QED
      BY <3>6, <3>7
  <2>2. CASE WorkerFree
    BY <2>2, FreeMoves DEF WorkerFree, TypeOK, Allocated
  <2>3. CASE MainReceive
    BY <2>3 DEF MainReceive, TypeOK, Status, Allocated
  <2>4. CASE UNCHANGED heap
    BY <2>4 DEF Allocated
  <2> QED
    BY <2>1, <2>2, <2>3, <2>4
       DEF Next, Main, Worker, MainStart, MainLock, MainSignal, MainUnlock,
           MainPrint, MainExit, WorkerLock, WorkerCheck, WorkerWait,
           WorkerSpurious, WorkerWake, WorkerPull, WorkerPrint, WorkerUnlock,
           vars
<1> QED
  BY <1>1, ThreadsTyped, ArrivalOrder, PTL DEF Spec, DropsOnlyWhenFull

-----------------------------------------------------------------------------
(* The two logs.                                                           *)

Processed == {<<p, Status(p)>> : p \in Packets}
Received  ==
  {<<p, s>> : p \in Packets, s \in {"PASS", "FAIL"}} \cup {<<Garbage>>}

(* What was printed is older than what the worker holds, and that is older *)
(* than what is on the ring.                                               *)
PrintedOlder(n) == \A j \in 1 .. Len(processed) : processed[j][1] <= n - Count

PrintedInv ==
  /\ processed \in Seq(Processed)
  /\ \A j, k \in 1 .. Len(processed) :
       k < j => processed[k][1] < processed[j][1]
  /\ worker_pc = "print" =>
       \A j \in 1 .. Len(processed) : processed[j][1] < packet
  /\ \E n \in Int : Order(n) /\ PrintedOlder(n)

(* A step keeps the log of the worker in order. *)
LEMMA PrintedSteps ==
  ASSUME TypeOK, HasPacket, MutexHeld, RingInv, OneOwner, HeapHonest,
         PrintedInv, [Next]_vars
  PROVE  PrintedInv'
<1>1. PICK n \in Int : Order(n) /\ PrintedOlder(n)
  BY DEF PrintedInv
<1>2. PICK m \in Int : Order(m)' /\ n - Count <= m - Count'
  BY <1>1, OrderSteps
<1>3. /\ \A i \in Int : i <= n - Count => i <= m - Count'
      /\ Count' = Count - 1 => \A i \in Int : i <= n - Count => i < n - Count'
  <2>1. Count \in 0 .. Length /\ Count' \in 0 .. Length
    BY CountSteps DEF RingInv
  <2>2. PICK c \in Int, d \in Int : c = Count /\ d = Count'
    BY <2>1
  <2>3. n - c <= m - d
    BY <1>2, <2>2
  <2>4. /\ \A i \in Int : i <= n - c => i <= m - d
        /\ d = c - 1 => \A i \in Int : i <= n - c => i < n - d
    BY <2>3
  <2> QED
    BY <2>2, <2>4
<1>4. \A j \in 1 .. Len(processed) :
        processed[j] \in Processed /\ processed[j][1] \in Packets
  BY DEF PrintedInv, Processed
<1> DEFINE len == Len(processed)
<1>5. \A j \in 1 .. len :
        processed[j][1] <= n - Count /\ processed[j][1] <= m - Count'
  <2>1. \A j \in 1 .. len :
          processed[j][1] \in Int /\ processed[j][1] <= n - Count
    BY <1>1, <1>4 DEF PrintedOlder
  <2> HIDE DEF len
  <2> QED
    BY <1>3, <2>1
<1>6. CASE WorkerPrint
  <2>1. /\ worker_pc = "print" /\ worker_pc' = "free"
        /\ UNCHANGED <<packet, slots>>
    BY <1>6 DEF WorkerPrint, cb, slots
  <2>2. packet \in Packets /\ packet <= n - Count
    BY <1>1, <2>1 DEF Order, HoldsOlder, OneOwner, WorkerHolds, Live
  <2>3. Lines(packet) = {<<packet, Status(packet)>>}
    BY <2>1, <2>2 DEF Lines, OneOwner, WorkerHolds, Live, HeapHonest
  <2>4. processed' = Append(processed, <<packet, Status(packet)>>)
    BY <1>6, <2>3 DEF WorkerPrint
  <2> DEFINE line == <<packet, Status(packet)>>
  <2>5. line \in Processed /\ line[1] = packet
    BY <2>2 DEF Processed
  <2> HIDE DEF line
  <2>6. /\ processed' \in Seq(Processed) /\ len \in Nat
        /\ Len(processed') = len + 1
        /\ \A j \in 1 .. len : processed'[j] = processed[j]
        /\ processed'[len + 1] = line
    BY <2>4, <2>5 DEF PrintedInv, line
  <2> HIDE DEF len
  <2>7. \A j \in 1 .. len : processed[j][1] < packet /\ processed[j][1] \in Int
    BY <1>4, <2>1 DEF PrintedInv, len
  <2>8. \A j, k \in 1 .. len : k < j => processed[k][1] < processed[j][1]
    BY DEF PrintedInv, len
  <2>9. \A j, k \in 1 .. Len(processed') :
          k < j => processed'[k][1] < processed'[j][1]
    BY <2>5, <2>6, <2>7, <2>8
  <2>10. \A j \in 1 .. Len(processed') : processed'[j][1] <= m - Count'
    <3>1. packet <= m - Count'
      BY <1>3, <2>2
    <3> QED
      BY <1>5, <2>5, <2>6, <3>1
  <2>11. Order(m)' /\ PrintedOlder(m)'
    BY <1>2, <2>10 DEF PrintedOlder
  <2> QED
    BY <2>1, <2>6, <2>9, <2>11 DEF PrintedInv
<1>7. CASE WorkerPull
  <2>1. /\ processed' = processed /\ packet' \in Packets \cup {NULL}
        /\ worker_pc' = IF packet' = NULL THEN "unlock" ELSE "print"
    BY <1>7, PullSteps
  <2>2. CASE packet' = NULL
    BY <1>5, <1>2, <2>1, <2>2 DEF PrintedInv, PrintedOlder
  <2>3. CASE packet' # NULL
    <3>1. ~Empty /\ Take /\ packet' = data[pull_index]
      BY <1>7, <2>3, PullSteps
    <3>2. packet' = n - Count' /\ Count' = Count - 1
      BY <1>1, <3>1, PullKeepsOrder DEF Order
    <3>3. \A j \in 1 .. Len(processed') :
            processed'[j][1] < packet' /\ processed'[j][1] <= m - Count'
      BY <1>5, <1>3, <1>4, <2>1, <3>2
    <3> QED
      BY <1>2, <2>1, <3>3 DEF PrintedInv, PrintedOlder
  <2> QED
    BY <2>2, <2>3
<1>8. CASE /\ UNCHANGED processed
           /\ worker_pc' = "print" => worker_pc = "print" /\ packet' = packet
  BY <1>5, <1>2, <1>8 DEF PrintedInv, PrintedOlder
<1> QED
  BY <1>6, <1>7, <1>8
     DEF Next, Main, Worker, MainStart, MainReceive, MainLock, MainPush,
         MainSignal, MainUnlock, MainPrint, MainExit, WorkerLock, WorkerCheck,
         WorkerWait, WorkerSpurious, WorkerWake, WorkerFree, WorkerUnlock,
         worker, vars

(* The log of the worker is in order in every state. *)
LEMMA PrintedInOrder ==
  ASSUME Uninitialised = {NULL}
  PROVE  Spec => []PrintedInv
<1>1. Init /\ InOrder => PrintedInv
  BY DEF Init, InOrder, PrintedInv, PrintedOlder
<1>2. /\ TypeOK /\ HasPacket /\ MutexHeld /\ RingInv /\ OneOwner /\ HeapHonest
      /\ PrintedInv /\ [Next]_vars
      => PrintedInv'
  BY PrintedSteps
<1> QED
  BY <1>1, <1>2, ThreadsTyped, MutualExclusion, ArrivalOrder, PacketsOwned, PTL
     DEF Spec

(* The worker prints each packet at most once, in the order of arrival and *)
(* with the verdict it had when it was read.                               *)
THEOREM PrintsInOrder ==
  ASSUME Uninitialised = {NULL}
  PROVE  Spec => []ProcessedInOrder
<1>1. PrintedInv => ProcessedInOrder
  <2> SUFFICES ASSUME PrintedInv, NEW j \in 1 .. Len(processed)
               PROVE  \E p \in Packets :
                        /\ processed[j] = <<p, Status(p)>>
                        /\ \A k \in 1 .. j - 1 : processed[k][1] < p
    BY DEF ProcessedInOrder
  <2>1. PICK p \in Packets : processed[j] = <<p, Status(p)>>
    BY DEF PrintedInv, Processed
  <2>2. \A k \in 1 .. j - 1 : k \in 1 .. Len(processed) /\ k < j
    BY DEF PrintedInv
  <2> QED
    BY <2>1, <2>2 DEF PrintedInv
<1> QED
  BY <1>1, PrintedInOrder, PTL

(* The main thread reports every packet that it does not leave with.       *)
ReportCount ==
  /\ received \in Seq(Received)
  /\ Len(received) \in {arrived - 1, arrived}
  /\ main_pc \in {"start", "select"} => Len(received) = arrived
  /\ Handling => Len(received) = arrived - 1

(* The main thread has reported each packet that it is done with. *)
LEMMA ReportsCounted == Spec => []ReportCount
<1>1. Init => ReportCount
  BY DEF Init, ReportCount, Handling
<1>2. TypeOK /\ HasPacket /\ ReportCount /\ [Next]_vars => ReportCount'
  <2> SUFFICES ASSUME TypeOK, HasPacket, ReportCount, [Next]_vars
               PROVE  ReportCount'
    OBVIOUS
  <2> USE DEF ReportCount, Handling
  <2>1. CASE MainPrint
    <3>1. PICK line \in Lines(arrived) : received' = Append(received, line)
      BY <2>1 DEF MainPrint
    <3>2. line \in Received
      BY <2>1, <3>1
         DEF MainPrint, Lines, Received, Status, Allocated, HasPacket
    <3>3. received' \in Seq(Received) /\ Len(received') = Len(received) + 1
      BY <3>1, <3>2
    <3> QED
      BY <2>1, <3>3 DEF MainPrint, TypeOK
  <2>2. CASE MainReceive
    BY <2>2 DEF MainReceive, TypeOK
  <2>3. CASE UNCHANGED <<arrived, received>> /\ ~MainPrint
    BY <2>3
       DEF Next, Main, Worker, MainStart, MainReceive, MainLock, MainPush,
           MainSignal, MainUnlock, MainExit, WorkerLock, WorkerCheck,
           WorkerWait, WorkerSpurious, WorkerWake, WorkerPull, WorkerPrint,
           WorkerFree, WorkerUnlock, main, vars
  <2> QED
    BY <2>1, <2>2, <2>3
       DEF Next, Main, Worker, MainStart, MainLock, MainPush, MainSignal,
           MainUnlock, MainExit, WorkerLock, WorkerCheck, WorkerWait,
           WorkerSpurious, WorkerWake, WorkerPull, WorkerPrint, WorkerFree,
           WorkerUnlock, main, vars
<1> QED
  BY <1>1, <1>2, ThreadsTyped, PTL DEF Spec

(* The worker is never ahead of the main thread's report by more than the  *)
(* packet that the main thread has unlocked and is about to report.        *)
THEOREM ReportsTogether ==
  ASSUME Uninitialised = {NULL}
  PROVE  Spec => []ReportsDriftByOne
<1>1. TypeOK /\ RingInv /\ PrintedInv /\ ReportCount => ReportsDriftByOne
  <2> SUFFICES ASSUME TypeOK, RingInv, PrintedInv, ReportCount,
                      NEW j \in 1 .. Len(processed)
               PROVE  \/ processed[j][1] <= Len(received)
                      \/ /\ processed[j][1] = arrived
                         /\ main_pc \in {"print", "exited"}
    BY DEF ReportsDriftByOne
  <2>1. PICK n \in Int : Order(n) /\ PrintedOlder(n)
    BY DEF PrintedInv
  <2>2. processed[j][1] \in Int /\ processed[j][1] <= n - Count
    BY <2>1 DEF PrintedInv, PrintedOlder, Processed
  <2>3. Count \in 0 .. Length
    BY RingGeometry DEF RingInv
  <2>4. CASE n = arrived - 1
    BY <2>2, <2>3, <2>4 DEF ReportCount, TypeOK
  <2>5. CASE n = arrived /\ Count > 0
    BY <2>2, <2>3, <2>5 DEF ReportCount, TypeOK
  <2>6. CASE main_pc \in {"print", "exited"}
    BY <2>1, <2>2, <2>3, <2>6 DEF Order, LastPushed, ReportCount, TypeOK
  <2>7. CASE main_pc \in {"start", "select"}
    BY <2>1, <2>2, <2>3, <2>7 DEF Order, LastPushed, ReportCount, TypeOK
  <2> QED
    BY <2>1, <2>4, <2>5, <2>6, <2>7 DEF Order, LastPushed, TypeOK
<1> QED
  BY <1>1, ThreadsTyped, ArrivalOrder, PrintedInOrder, ReportsCounted, PTL
=============================================================================
