------------------------------- MODULE Server -------------------------------
(***************************************************************************)
(* The whole server: the receiving loop (SelectLoop) and what becomes of a *)
(* packet (ServerThreads), joined in the main thread.  Where the loop has  *)
(* a whole packet in its buffer, the main thread takes the steps of        *)
(* ServerThreads from MainReceive to MainPrint, with which the loop's      *)
(* Deliver ends.  The failures of select and accept are left to SelectLoop *)
(* alone: they end the program with nothing of a packet in hand.           *)
(***************************************************************************)
EXTENDS ServerThreads, FiniteSetsExt

CONSTANTS
  Peers, Nobody, PacketSize, READ_CHUNK_SIZE, FD_SETSIZE, MaxFiles,
  MaxBacklog, MaxBytes                                        \* SelectLoop

VARIABLES
  loop_pc, active_fd_set, read_fd_set, maxfd, connectionfd, buffer,
  total_read_bytes, delivered, files, backlog, peer, sent,
  consumed,                                                   \* SelectLoop
  decoded       \* the bytes from which each packet was decoded

Loop == INSTANCE SelectLoop WITH
  main_pc <- loop_pc, Faults <- {"start", "handle"}

(* The sizes and limits are those of SelectLoop. *)
ASSUME ServerAssumption == Loop!LoopAssumption

loop_vars == <<loop_pc, active_fd_set, read_fd_set, maxfd, connectionfd,
               buffer, total_read_bytes, delivered, files, backlog, peer,
               sent, consumed>>
all_vars  == <<vars, loop_vars, decoded>>

ServerInit ==
  /\ Init /\ Loop!Init
  /\ decoded = << >>

(* Bound: the peers send MaxPackets packets between them. *)
Environment ==
  /\ Loop!Environment
  /\ MapThenSumSet(LAMBDA p : sent'[p], Peers) <= MaxPackets * PacketSize
  /\ UNCHANGED <<vars, decoded>>

Start ==
  /\ MainStart /\ Loop!Start
  /\ main_pc' = "select" <=> loop_pc' = "select"
  /\ UNCHANGED decoded

Receive ==
  /\ \/ Loop!Select \/ Loop!ScanDone \/ Loop!Accept
     \/ \E fd \in Loop!Sockets : Loop!StartRead(fd)
     \/ \E p \in Peers : Loop!Read(p) \/ Loop!ReadFails(p)
  /\ UNCHANGED <<vars, decoded>>

Decode ==
  /\ loop_pc = "deliver"
  /\ MainReceive
  /\ decoded' = Append(decoded, buffer)
  /\ UNCHANGED loop_vars

Handle ==
  /\ MainLock \/ MainPush \/ MainSignal \/ MainUnlock
  /\ UNCHANGED <<loop_vars, decoded>>

Handled ==
  /\ \/ MainPrint /\ loop_pc' = "scan"
     \/ MainExit /\ loop_pc' = "exited"
  /\ \E p \in Peers : Loop!Deliver(p)
  /\ UNCHANGED decoded

MainThread   == Start \/ Receive \/ Decode \/ Handle \/ Handled
WorkerThread == Worker /\ UNCHANGED <<loop_vars, decoded>>
Spurious     == WorkerSpurious /\ UNCHANGED <<loop_vars, decoded>>

ServerNext == Environment \/ MainThread \/ WorkerThread \/ Spurious

(* Both threads are scheduled; peers may stop anywhere, and spurious       *)
(* wakeups stop at some time.                                              *)
ServerSpec ==
  /\ ServerInit /\ [][ServerNext]_all_vars
  /\ WF_all_vars(MainThread)
  /\ WF_all_vars(WorkerThread)
  /\ <>[][~Spurious]_all_vars

-----------------------------------------------------------------------------
(* The packet of a peer that the n-th packet is, byte by byte. *)
IsPacket(n, p, k) ==
  decoded[n] = [b \in 1 .. PacketSize |-> <<p, PacketSize * (k - 1) + b>>]

Origin(n) ==
  LET p == decoded[n][1][1]
      k == decoded[n][PacketSize][2] \div PacketSize
  IN  IF n \in DOMAIN decoded /\ IsPacket(n, p, k) THEN <<p, k>> ELSE Garbage

(* The main thread's packet was pushed: from then on until the loop counts *)
(* it, and for ever if an unlock fails, which leaves it on the ring.       *)
OnRing == \E k \in 1 .. Len(Contents) : Contents[k] = arrived

Pushed(p) ==
  /\ \/ main_pc \in {"signal", "unlock", "print"}
     \/ main_pc \in {"returning", "exited"} /\ OnRing
  /\ p = files[connectionfd]

Printing == IF worker_pc = "print" THEN <<packet>> ELSE << >>

Waiting == Printing \o Contents

Log == INSTANCE PacketLog WITH
  Capacity <- Length,
  MayStop  <- "unlock" \in Faults,
  complete <- [p \in Peers |-> sent[p] \div PacketSize],
  taken    <- [p \in Peers |-> delivered[p] + IF Pushed(p) THEN 1 ELSE 0],
  queue    <- [k \in 1 .. Len(Waiting) |-> Origin(Waiting[k])],
  log      <- [j \in 1 .. Len(processed) |-> Origin(processed[j][1])],
  stopped  <- cb_mutex = "stuck"

(* From the bytes a peer sends to the line the worker prints: each packet  *)
(* is processed whole, in its peer's order and at most once, and one that  *)
(* is not was overwritten by the Length packets after it, unless the ring  *)
(* cannot be unlocked, which stops the server.                             *)
ImplementsPacketLog == Log!Spec

(* The k-th packet of p is on its way: not read, on the ring or printed. *)
Pending(p, k) ==
  \/ delivered[p] < k
  \/ \E q \in 1 .. Len(Waiting) : Origin(Waiting[q]) = <<p, k>>

(* The server catches up with its peers, again and again: every packet     *)
(* that was sent in full over a connection that is not reset is processed, *)
(* or overwritten, in the end, unless a call fails.  Sent means arrived    *)
(* before the loop's read gave up; printf is assumed to return.            *)
EveryPacketHandled ==
  []<>\/ Failed
      \/ \A p \in Peers :
           \/ peer[p] = "reset"
           \/ \A k \in 1 .. sent[p] \div PacketSize : ~Pending(p, k)
=============================================================================
