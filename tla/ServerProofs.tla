---------------------------- MODULE ServerProofs ----------------------------
(***************************************************************************)
(* Proof that the whole server implements PacketLog, for any number of     *)
(* peers and packets, any sizes and any limits: what the worker prints are *)
(* the packets of the peers, whole, in each peer's order and at most once, *)
(* and what it does not print was overwritten on a full ring.              *)
(*                                                                         *)
(* Every behaviour of the server is one of the loop and one of the two     *)
(* threads, so that what is proved in SelectProofs and ThreadProofs holds  *)
(* of it.  JointInv says how the two hang together: the bytes from which   *)
(* the main thread's packet was decoded are those of the connection that   *)
(* the loop has stopped at.                                                *)
(***************************************************************************)
EXTENDS Server, ThreadProofs

LP == INSTANCE SelectProofs WITH
  main_pc <- loop_pc, Faults <- {"start", "handle"}

USE ServerAssumption

-----------------------------------------------------------------------------
(* The server's behaviours are behaviours of its parts.                    *)

(* What both threads do to a packet is what ServerThreads says. *)
LEMMA ThreadsRun == ServerSpec => Spec
<1>1. ServerInit => Init
  BY DEF ServerInit
<1>2. [ServerNext]_all_vars => [Next]_vars
  BY DEF ServerNext, all_vars, Environment, MainThread, WorkerThread,
         Spurious, Start, Receive, Decode, Handle, Handled, Next, Main
<1> QED
  BY <1>1, <1>2, PTL DEF ServerSpec, Spec

(* What happens to bytes and connections is what SelectLoop says. *)
LEMMA LoopRuns == ServerSpec => LP!Spec
<1> USE DEF LP!loop, Loop!loop, LP!kernel, Loop!kernel, LP!vars, loop_vars,
            LP!Zero, Loop!Zero, LP!socketfd, Loop!socketfd,
            LP!Sockets, Loop!Sockets, LP!Open, Loop!Open
<1>1. ServerInit => LP!Init
  BY DEF ServerInit, Loop!Init, LP!Init
<1>2. Loop!Environment => LP!Environment
  BY DEF Loop!Environment, LP!Environment, Loop!Connect, LP!Connect,
         Loop!Send, LP!Send, Loop!Finish, LP!Finish, Loop!Reset, LP!Reset
<1>3. Loop!Start => LP!Start
  BY DEF Loop!Start, LP!Start, Loop!Exit, LP!Exit
<1>4. Loop!Select => LP!Select
  BY DEF Loop!Select, LP!Select, Loop!Exit, LP!Exit, Loop!Readable,
         LP!Readable, Loop!Unread, LP!Unread
<1>5. Loop!ScanDone => LP!ScanDone
  BY DEF Loop!ScanDone, LP!ScanDone, Loop!Reported, LP!Reported
<1>6. Loop!Accept => LP!Accept
  BY DEF Loop!Accept, LP!Accept, Loop!Scanning, LP!Scanning, Loop!Reported,
         LP!Reported, Loop!NewSocket, LP!NewSocket, Loop!Refuse, LP!Refuse,
         Loop!Watch, LP!Watch, Loop!Exit, LP!Exit, LP!Min, Loop!Min
<1>7. ASSUME NEW fd \in Loop!Sockets, Loop!StartRead(fd)
      PROVE  LP!StartRead(fd)
  BY <1>7 DEF Loop!StartRead, LP!StartRead, Loop!Scanning, LP!Scanning,
              Loop!Reported, LP!Reported, LP!Min, Loop!Min
<1>8. ASSUME NEW p \in Peers, Loop!Read(p)
      PROVE  LP!Read(p)
  BY <1>8 DEF Loop!Read, LP!Read, Loop!Reading, LP!Reading, Loop!Unread,
              LP!Unread, Loop!Chunk, LP!Chunk, LP!Min, Loop!Min
<1>9. ASSUME NEW p \in Peers, Loop!ReadFails(p) \/ Loop!Deliver(p)
      PROVE  LP!ReadFails(p) \/ LP!Deliver(p)
  BY <1>9 DEF Loop!ReadFails, LP!ReadFails, Loop!Reading, LP!Reading,
              Loop!Unread, LP!Unread, Loop!Drop, LP!Drop,
              Loop!CloseConnection, LP!CloseConnection, Loop!Deliver,
              LP!Deliver, Loop!Exit, LP!Exit
<1>10. [ServerNext]_all_vars => [LP!Next]_(LP!vars)
  <2>1. Environment => LP!Environment
    BY <1>2, Zenon DEF Environment
  <2>2. MainThread => LP!Server \/ UNCHANGED LP!vars
    BY <1>3, <1>4, <1>5, <1>6, <1>7, <1>8, <1>9
       DEF MainThread, Start, Receive, Decode, Handle, Handled, LP!Server
  <2> QED
    BY <2>1, <2>2
       DEF ServerNext, WorkerThread, Spurious, all_vars, LP!Next
<1> QED
  BY <1>1, <1>10, PTL DEF ServerSpec, LP!Spec

(* So everything that LoopInv says holds of the server's loop. *)
LEMMA LoopKept == ServerSpec => []LP!LoopInv
  BY LoopRuns, LP!LoopInvariant, PTL DEF Loop!LoopAssumption, LP!LoopAssumption

(* While the worker prints what it pulled, the ring is not stuck: the main *)
(* thread cannot push before the worker gives the mutex back.              *)
PrintsUnlocked == worker_pc = "print" => cb_mutex = "free"

(* PrintsUnlocked holds in every state of the threads. *)
LEMMA RingFreeToPrint == Spec => []PrintsUnlocked
<1>1. Init => PrintsUnlocked
  BY DEF Init, PrintsUnlocked
<1>2. MutexHeld /\ PrintsUnlocked /\ [Next]_vars => PrintsUnlocked'
  <2> SUFFICES ASSUME MutexHeld, PrintsUnlocked, [Next]_vars
               PROVE  PrintsUnlocked'
    OBVIOUS
  <2>1. CASE MainPush
    BY <2>1 DEF MainPush, MutexHeld, PrintsUnlocked
  <2>2. CASE WorkerPull
    BY <2>2, BufferAssumption
       DEF WorkerPull, cb_pull, LockFails, Locked, Unlock, PrintsUnlocked
  <2>3. CASE WorkerCheck
    BY <2>3 DEF WorkerCheck, PrintsUnlocked
  <2>4. CASE \/ MainStart \/ MainReceive \/ MainLock \/ MainSignal
             \/ MainUnlock \/ MainPrint \/ MainExit
    BY <2>4 DEF MainStart, MainReceive, MainLock, MainSignal, MainUnlock,
                MainPrint, MainExit, cb, PrintsUnlocked
  <2>5. CASE \/ WorkerLock \/ WorkerWait \/ WorkerSpurious \/ WorkerWake
             \/ WorkerPrint \/ WorkerFree \/ WorkerUnlock
    BY <2>5 DEF WorkerLock, WorkerWait, WorkerSpurious, WorkerWake,
                WorkerPrint, WorkerFree, WorkerUnlock, cb, PrintsUnlocked
  <2>6. CASE UNCHANGED vars
    BY <2>6 DEF vars, PrintsUnlocked
  <2> QED
    BY <2>1, <2>2, <2>3, <2>4, <2>5, <2>6 DEF Next, Main, Worker
<1> QED
  BY <1>1, <1>2, MutualExclusion, PTL DEF Spec

(* What is known of the two threads, as far as it is used here. *)
ThreadInv ==
  /\ TypeOK /\ HasPacket /\ MutexHeld /\ PrintsUnlocked
  /\ RingInv /\ OneOwner /\ HeapHonest /\ PrintedInv /\ NoWorkerYet

(* All of it holds of the server. *)
LEMMA ThreadsKept ==
  ASSUME Uninitialised = {NULL}
  PROVE  ServerSpec => []ThreadInv
  BY ThreadsRun, ThreadsTyped, MutualExclusion, ArrivalOrder, PacketsOwned,
     PrintedInOrder, WorkerStartsLater, RingFreeToPrint, PTL DEF ThreadInv

-----------------------------------------------------------------------------
(* How the loop and the threads hang together.                             *)

Buffers == [1 .. PacketSize -> (Peers \X (1 .. MaxBytes)) \cup {Loop!Zero}]

(* While the main thread handles a packet, the loop stays where it handed  *)
(* it over, and the bytes decoded are the next packet of that connection.  *)
(* Nothing arrives before the start, and nothing is read after the exit.   *)
JointInv ==
  /\ decoded \in Seq(Buffers) /\ Len(decoded) = arrived
  /\ main_pc = "start" => arrived = 0
  /\ Handling \/ main_pc = "returning" => loop_pc = "deliver"
  /\ main_pc = "exited" => loop_pc \in {"deliver", "exited"}
  /\ Handling =>
       IsPacket(arrived, files[connectionfd],
                delivered[files[connectionfd]] + 1)

(* Decoding puts the peer's next packet at the end of decoded. *)
LEMMA DecodeTakesNext ==
  ASSUME TypeOK, LP!LoopInv, JointInv, Decode
  PROVE  /\ arrived' = arrived + 1
         /\ decoded' \in Seq(Buffers) /\ Len(decoded') = arrived'
         /\ \A n \in 1 .. arrived : decoded'[n] = decoded[n]
         /\ IsPacket(arrived, files[connectionfd],
                     delivered[files[connectionfd]] + 1)'
<1>1. /\ arrived \in Nat /\ arrived' = arrived + 1
      /\ loop_pc = "deliver" /\ decoded' = Append(decoded, buffer)
      /\ UNCHANGED loop_vars
  BY DEF Decode, MainReceive, TypeOK
<1>2. /\ delivered[files[connectionfd]] \in Nat
      /\ buffer = [k \in 1 .. PacketSize |->
                     <<files[connectionfd],
                       PacketSize * delivered[files[connectionfd]] + k>>]
  BY <1>1, LP!NextPacketWhole DEF Loop!LoopAssumption, LP!LoopAssumption
<1>3. buffer \in Buffers
  BY DEF LP!LoopInv, LP!TypeOK, Buffers, LP!Zero, Loop!Zero
<1>4. /\ decoded' \in Seq(Buffers) /\ Len(decoded') = arrived + 1
      /\ decoded'[arrived + 1] = buffer
      /\ \A n \in 1 .. arrived : decoded'[n] = decoded[n]
  BY <1>1, <1>3, AppendProperties DEF JointInv
<1>5. /\ files' = files /\ connectionfd' = connectionfd
      /\ delivered' = delivered
  BY <1>1 DEF loop_vars
<1>6. PICK d \in Nat : d = delivered[files[connectionfd]]
  BY <1>2
<1>7. (d + 1) - 1 = d
  OBVIOUS
<1>8. decoded'[arrived'] =
        [k \in 1 .. PacketSize |->
           <<files[connectionfd], PacketSize * ((d + 1) - 1) + k>>]
  BY <1>1, <1>2, <1>4, <1>6, <1>7
<1>9. IsPacket(arrived, files[connectionfd],
               delivered[files[connectionfd]] + 1)'
  BY <1>5, <1>6, <1>8 DEF IsPacket
<1> QED
  BY <1>1, <1>4, <1>9

(* JointInv holds in every state of the server. *)
LEMMA JointKept == ServerSpec => []JointInv
<1>1. ServerInit => JointInv
  BY DEF ServerInit, Init, JointInv, Handling
<1>2. /\ TypeOK /\ LP!LoopInv /\ JointInv /\ [ServerNext]_all_vars
      => JointInv'
  <2> SUFFICES ASSUME TypeOK, LP!LoopInv, JointInv, [ServerNext]_all_vars
               PROVE  JointInv'
    OBVIOUS
  <2>1. CASE Environment
    <3>1. UNCHANGED <<loop_pc, files, connectionfd, delivered>>
      BY <2>1, Zenon
         DEF Environment, Loop!Environment, Loop!Connect, Loop!Send,
             Loop!Finish, Loop!Reset, Loop!loop
    <3>2. UNCHANGED <<vars, decoded>>
      BY <2>1, Zenon DEF Environment
    <3> QED
      BY <3>1, <3>2 DEF JointInv, Handling, IsPacket, vars
  <2>2. CASE Start
    <3>1. /\ main_pc' \in {"select", "exited"}
          /\ main_pc' = "exited" => loop_pc' = "exited"
          /\ UNCHANGED <<arrived, decoded>>
      BY <2>2 DEF Start, MainStart, Loop!Start, Loop!Exit
    <3> QED
      BY <3>1 DEF JointInv, Handling
  <2>3. CASE Receive
    <3>1. loop_pc \notin {"deliver", "exited"} /\ UNCHANGED <<vars, decoded>>
      BY <2>3
         DEF Receive, Loop!Select, Loop!ScanDone, Loop!Accept, Loop!StartRead,
             Loop!Scanning, Loop!Read, Loop!ReadFails, Loop!Reading
    <3> QED
      BY <3>1 DEF JointInv, Handling, vars
  <2>4. CASE Decode
    <3>1. loop_pc' = "deliver" /\ main_pc' # "start"
      BY <2>4 DEF Decode, MainReceive, loop_vars
    <3> QED
      BY <2>4, <3>1, DecodeTakesNext DEF JointInv
  <2>5. CASE Handle
    <3>1. /\ Handling /\ main_pc' # "start"
          /\ UNCHANGED <<arrived, decoded, loop_vars>>
      BY <2>5
         DEF Handle, MainLock, MainPush, MainSignal, MainUnlock, Handling
    <3> QED
      BY <3>1 DEF JointInv, IsPacket, loop_vars
  <2>6. CASE Handled
    <3>1. /\ main_pc' \in {"select", "exited"}
          /\ main_pc' = "exited" => loop_pc' = "exited"
          /\ UNCHANGED <<arrived, decoded>>
      BY <2>6 DEF Handled, MainPrint, MainExit
    <3> QED
      BY <3>1 DEF JointInv, Handling
  <2>7. CASE WorkerThread \/ Spurious
    <3>1. UNCHANGED <<main_pc, arrived, loop_vars, decoded>>
      BY <2>7
         DEF WorkerThread, Spurious, Worker, WorkerLock, WorkerCheck,
             WorkerWait, WorkerSpurious, WorkerWake, WorkerPull, WorkerPrint,
             WorkerFree, WorkerUnlock, main
    <3> QED
      BY <3>1 DEF JointInv, Handling, IsPacket, loop_vars
  <2>8. CASE UNCHANGED all_vars
    BY <2>8 DEF all_vars, vars, loop_vars, JointInv, Handling, IsPacket
  <2> QED
    BY <2>1, <2>2, <2>3, <2>4, <2>5, <2>6, <2>7, <2>8
       DEF ServerNext, MainThread
<1> QED
  BY <1>1, <1>2, LoopKept, ThreadsRun, ThreadsTyped, PTL DEF ServerSpec

-----------------------------------------------------------------------------
(* From the numbers of packets to the peers' packets.                      *)

(* A multiple of a number, divided by the number. *)
LEMMA Multiples ==
  ASSUME NEW a \in Nat \ {0}, NEW k \in Nat
  PROVE  (a * k) \div a = k
<1>1. PICK n \in Nat : n = a * k
  OBVIOUS
<1>2. PICK q \in Int, r \in Int :
        q = n \div a /\ r = n % a /\ n = a * q + r /\ 0 <= r /\ r < a
  OBVIOUS
<1>3. PICK e \in Int : e = k - q
  OBVIOUS
<1>4. a * e = r
  <2>1. a * e = a * k - a * q
    BY <1>3
  <2>2. PICK x \in Int : x = a * q
    OBVIOUS
  <2> QED
    BY <1>1, <1>2, <2>1, <2>2
<1>5. CASE e <= -1
  <2>1. a * e <= -a
    BY <1>5
  <2> QED
    BY <1>2, <1>4, <2>1
<1>6. CASE e >= 1
  <2>1. a * e >= a
    BY <1>6
  <2> QED
    BY <1>2, <1>4, <2>1
<1>7. CASE e = 0
  BY <1>1, <1>2, <1>3, <1>7
<1> QED
  BY <1>5, <1>6, <1>7

(* More bytes do not make fewer whole packets. *)
LEMMA DivisionGrows ==
  ASSUME NEW a \in Nat \ {0}, NEW m \in Nat, NEW n \in Nat, m < n
  PROVE  m \div a \in Int /\ n \div a \in Int /\ m \div a <= n \div a
<1>1. PICK q \in Int, r \in Int :
        q = m \div a /\ m = a * q + r /\ 0 <= r /\ r < a
  <2>1. m = a * (m \div a) + (m % a) /\ m % a \in 0 .. a - 1
        /\ m \div a \in Int
    OBVIOUS
  <2> QED
    BY <2>1
<1>2. PICK s \in Int, t \in Int :
        s = n \div a /\ n = a * s + t /\ 0 <= t /\ t < a
  <2>1. n = a * (n \div a) + (n % a) /\ n % a \in 0 .. a - 1
        /\ n \div a \in Int
    OBVIOUS
  <2> QED
    BY <2>1
<1>3. PICK e \in Int : e = s - q
  OBVIOUS
<1>4. a * e = a * s - a * q
  BY <1>3
<1>5. CASE e <= -1
  <2>1. a * e <= -a
    BY <1>5
  <2>2. PICK x \in Int, y \in Int : x = a * s /\ y = a * q
    OBVIOUS
  <2> QED
    BY <1>1, <1>2, <1>4, <2>1, <2>2
<1>6. CASE e >= 0
  BY <1>1, <1>2, <1>3, <1>6
<1> QED
  BY <1>5, <1>6

(* When one more packet fits, it is among the whole ones. *)
LEMMA WholeCounted ==
  ASSUME NEW a \in Nat \ {0}, NEW d \in Nat, NEW m \in Nat, a * d + a <= m
  PROVE  d < m \div a
<1>1. a * (d + 1) = a * d + a
  OBVIOUS
<1>2. (a * (d + 1)) \div a = d + 1
  BY Multiples
<1>3. PICK e \in Nat : e = a * (d + 1)
  OBVIOUS
<1>4. PICK x \in Nat : x = a * d
  OBVIOUS
<1>5. e <= m
  BY <1>1, <1>3, <1>4
<1>6. CASE e = m
  BY <1>2, <1>3, <1>6
<1>7. CASE e < m
  BY <1>2, <1>3, <1>7, DivisionGrows
<1> QED
  BY <1>5, <1>6, <1>7

(* The bytes of a whole packet tell whose it is and which one. *)
LEMMA OriginIs ==
  ASSUME NEW n, n \in DOMAIN decoded, NEW p, NEW d \in Nat,
         IsPacket(n, p, d + 1)
  PROVE  Origin(n) = <<p, d + 1>>
<1>1. PacketSize \in Nat \ {0}
  BY DEF Loop!LoopAssumption
<1>2. (d + 1) - 1 = d
  OBVIOUS
<1>3. decoded[n] = [b \in 1 .. PacketSize |-> <<p, PacketSize * d + b>>]
  BY <1>2 DEF IsPacket
<1>4. decoded[n][1][1] = p
  BY <1>1, <1>3
<1>5. decoded[n][PacketSize][2] = PacketSize * d + PacketSize
  BY <1>1, <1>3
<1>6. (PacketSize * d + PacketSize) \div PacketSize = d + 1
  <2>1. PacketSize * (d + 1) = PacketSize * d + PacketSize
    BY <1>1
  <2> QED
    BY <1>1, <2>1, Multiples
<1> QED
  BY <1>4, <1>5, <1>6 DEF Origin

(* The packets that a sequence of numbers stands for. *)
Origins(s) == [k \in 1 .. Len(s) |-> Origin(s[k])]

(* Origins of a sequence that grows at its end. *)
LEMMA OriginsAppend ==
  ASSUME NEW s \in Seq(Packets), NEW n \in Packets
  PROVE  Origins(Append(s, n)) = Append(Origins(s), Origin(n))
<1> DEFINE O == {Origin(m) : m \in Packets}
<1>1. Origins(s) \in Seq(O) /\ Len(Origins(s)) = Len(s) /\ Len(s) \in Nat
  BY DEF Origins
<1>2. /\ Append(s, n) \in Seq(Packets) /\ Len(Append(s, n)) = Len(s) + 1
      /\ Append(s, n)[Len(s) + 1] = n
      /\ \A k \in 1 .. Len(s) : Append(s, n)[k] = s[k]
  BY AppendProperties
<1>3. Append(Origins(s), Origin(n)) =
        [k \in 1 .. Len(s) + 1 |->
           IF k = Len(s) + 1 THEN Origin(n) ELSE Origins(s)[k]]
  BY <1>1, AppendAsFunction
<1>4. \A k \in 1 .. Len(s) + 1 :
        Origin(Append(s, n)[k]) =
          IF k = Len(s) + 1 THEN Origin(n) ELSE Origins(s)[k]
  BY <1>1, <1>2 DEF Origins
<1>5. Origins(Append(s, n)) =
        [k \in 1 .. Len(s) + 1 |-> Origin(Append(s, n)[k])]
  BY <1>2 DEF Origins
<1> QED
  BY <1>3, <1>4, <1>5

(* Origins of a sequence that loses its head. *)
LEMMA OriginsTail ==
  ASSUME NEW s \in Seq(Packets), s # << >>
  PROVE  /\ Origins(s) # << >>
         /\ Head(Origins(s)) = Origin(Head(s))
         /\ Origins(Tail(s)) = Tail(Origins(s))
<1> DEFINE O == {Origin(m) : m \in Packets}
<1>1. /\ Origins(s) \in Seq(O) /\ Len(Origins(s)) = Len(s)
      /\ Len(s) \in Nat \ {0}
  BY DEF Origins
<1>2. Origins(s) # << >> /\ Head(Origins(s)) = Origin(Head(s))
  BY <1>1 DEF Origins
<1>3. Tail(Origins(s)) = [k \in 1 .. Len(s) - 1 |-> Origins(s)[k + 1]]
  BY <1>1, <1>2, TailAsFunction
<1>4. /\ Len(Tail(s)) = Len(s) - 1
      /\ \A k \in 1 .. Len(s) - 1 : Tail(s)[k] = s[k + 1]
  BY HeadTailProperties
<1>5. Origins(Tail(s)) = [k \in 1 .. Len(s) - 1 |-> Origin(s[k + 1])]
  BY <1>4 DEF Origins
<1>6. \A k \in 1 .. Len(s) - 1 : Origins(s)[k + 1] = Origin(s[k + 1])
  BY <1>1 DEF Origins
<1> QED
  BY <1>2, <1>3, <1>5, <1>6

-----------------------------------------------------------------------------
(* The state of PacketLog, part by part.                                   *)

Complete == [p \in Peers |-> sent[p] \div PacketSize]
Taken    == [p \in Peers |-> delivered[p] + IF Pushed(p) THEN 1 ELSE 0]
Queue    == Origins(Waiting)
Reports  == [j \in 1 .. Len(processed) |-> Origin(processed[j][1])]

SameLog == UNCHANGED <<Complete, Taken, Queue, Reports, cb_mutex>>

(* A sequence with an element in front. *)
LEMMA FrontAndRest ==
  ASSUME NEW S, NEW e \in S, NEW s \in Seq(S)
  PROVE  LET c == <<e>> \o s
         IN  /\ c \in Seq(S) /\ c # << >>
             /\ Head(c) = e /\ Tail(c) = s
             /\ Len(c) = Len(s) + 1 /\ c[1] = e
             /\ \A k \in 1 .. Len(s) : c[k + 1] = s[k]
<1> DEFINE c == <<e>> \o s
<1>1. <<e>> \in Seq(S) /\ Len(<<e>>) = 1 /\ <<e>>[1] = e /\ Len(s) \in Nat
  OBVIOUS
<1>2. /\ c \in Seq(S) /\ Len(c) = 1 + Len(s)
      /\ \A i \in 1 .. 1 + Len(s) :
           c[i] = IF i <= 1 THEN <<e>>[i] ELSE s[i - 1]
  BY <1>1, ConcatProperties
<1> HIDE DEF c
<1>3. c[1] = e /\ \A k \in 1 .. Len(s) : c[k + 1] = s[k]
  BY <1>1, <1>2
<1>4. c # << >>
  BY <1>1, <1>2
<1>5. Tail(c) = [k \in 1 .. Len(c) - 1 |-> c[k + 1]]
  BY <1>2, <1>4, TailAsFunction
<1>6. s = [k \in 1 .. Len(s) |-> s[k]]
  OBVIOUS
<1>7. Tail(c) = s
  BY <1>1, <1>2, <1>3, <1>5, <1>6
<1>8. Head(c) = e
  BY <1>2, <1>3, <1>4, HeadTailProperties
<1> QED
  BY <1>1, <1>2, <1>3, <1>4, <1>7, <1>8 DEF c

(* A sequence is its head in front of its tail. *)
LEMMA HeadAndTail ==
  ASSUME NEW S, NEW s \in Seq(S), s # << >>
  PROVE  <<Head(s)>> \o Tail(s) = s
<1>1. /\ Head(s) \in S /\ Tail(s) \in Seq(S) /\ Len(s) \in Nat \ {0}
      /\ Len(Tail(s)) = Len(s) - 1 /\ Head(s) = s[1]
      /\ \A k \in 1 .. Len(s) - 1 : Tail(s)[k] = s[k + 1]
  BY HeadTailProperties
<1> DEFINE c == <<Head(s)>> \o Tail(s)
<1>2. /\ c \in Seq(S) /\ Len(c) = Len(Tail(s)) + 1 /\ c[1] = Head(s)
      /\ \A k \in 1 .. Len(Tail(s)) : c[k + 1] = Tail(s)[k]
  BY <1>1, FrontAndRest
<1> HIDE DEF c
<1>3. \A k \in 1 .. Len(s) - 1 : c[k + 1] = s[k + 1]
  BY <1>1, <1>2
<1>4. ASSUME NEW i \in 1 .. Len(s)
      PROVE  c[i] = s[i]
  <2>1. CASE i = 1
    BY <1>1, <1>2, <2>1
  <2>2. CASE i # 1
    <3>1. PICK k \in 1 .. Len(s) - 1 : i = k + 1
      BY <1>1, <2>2, i - 1 \in 1 .. Len(s) - 1, i = (i - 1) + 1
    <3> QED
      BY <1>3, <3>1
  <2> QED
    BY <2>1, <2>2
<1>5. Len(c) = Len(s)
  BY <1>1, <1>2
<1>6. c = s
  BY <1>2, <1>4, <1>5, SeqEqual
<1> QED
  BY <1>6 DEF c

(* What is waiting: the ring, behind the packet about to be printed. *)
LEMMA WaitingIs ==
  ASSUME ThreadInv
  PROVE  /\ Contents \in Seq(Packets)
         /\ worker_pc # "print" => Waiting = Contents
         /\ worker_pc = "print" =>
              /\ packet \in Packets
              /\ Waiting = <<packet>> \o Contents
         /\ Waiting \in Seq(Packets)
<1>1. Contents \in Seq(Packets)
  BY ContentsIsSeq DEF ThreadInv
<1>2. worker_pc = "print" => packet \in Packets
  BY DEF ThreadInv, OneOwner, WorkerHolds, Live
<1>3. CASE worker_pc = "print"
  BY <1>1, <1>2, <1>3, FrontAndRest DEF Waiting, Printing
<1>4. CASE worker_pc # "print"
  BY <1>1, <1>4, ConcatEmptySeq DEF Waiting, Printing
<1> QED
  BY <1>1, <1>2, <1>3, <1>4

(* Every packet that waits or was printed has arrived. *)
LEMMA NumbersArrived ==
  ASSUME ThreadInv
  PROVE  /\ \A k \in 1 .. Len(Waiting) : Waiting[k] \in 1 .. arrived
         /\ \A j \in 1 .. Len(processed) : processed[j][1] \in 1 .. arrived
<1>1. PICK n \in Int : Order(n) /\ PrintedOlder(n)
  BY DEF ThreadInv, PrintedInv
<1>2. /\ n <= arrived /\ arrived \in Nat
      /\ Count \in 0 .. Length
  BY <1>1, ContentsIsSeq DEF Order, LastPushed, ThreadInv, TypeOK
<1>3. PICK c \in Nat : c = Count
  BY <1>2
<1>4. \A p \in Packets : p \in Nat \ {0}
  BY ThreadsAssumption
<1>5. /\ Contents \in Seq(Packets) /\ Len(Contents) = c
      /\ \A k \in 1 .. c : Contents[k] = n - c + k
  BY <1>1, <1>3, ContentsIsSeq DEF Order, Consecutive, ThreadInv
<1>6. \A k \in 1 .. Len(Contents) : Contents[k] \in 1 .. arrived
  <2> SUFFICES ASSUME NEW k \in 1 .. c
               PROVE  Contents[k] \in 1 .. arrived
    BY <1>5
  <2>1. Contents[k] \in Packets /\ Contents[k] = n - c + k
    BY <1>5
  <2> QED
    BY <1>2, <1>3, <1>4, <2>1
<1>7. worker_pc = "print" => packet \in 1 .. arrived
  BY <1>1, <1>2, <1>3 DEF Order, HoldsOlder
<1>8. \A k \in 1 .. Len(Waiting) : Waiting[k] \in 1 .. arrived
  <2>1. CASE worker_pc = "print"
    <3>1. /\ Len(Waiting) = c + 1 /\ Waiting[1] = packet
          /\ \A k \in 1 .. c : Waiting[k + 1] = Contents[k]
      BY <2>1, <1>5, WaitingIs, FrontAndRest
    <3>2. SUFFICES ASSUME NEW k \in 1 .. c + 1
                   PROVE  Waiting[k] \in 1 .. arrived
      BY <3>1
    <3>3. CASE k = 1
      BY <3>1, <3>3, <1>7, <2>1
    <3>4. CASE k # 1
      <4>1. PICK i \in 1 .. c : k = i + 1
        BY <1>3, <3>4, k - 1 \in 1 .. c, k = (k - 1) + 1
      <4> QED
        BY <4>1, <3>1, <1>5, <1>6
    <3> QED
      BY <3>3, <3>4
  <2>2. CASE worker_pc # "print"
    BY <2>2, <1>6, WaitingIs
  <2> QED
    BY <2>1, <2>2
<1>9. \A j \in 1 .. Len(processed) : processed[j][1] \in 1 .. arrived
  <2> SUFFICES ASSUME NEW j \in 1 .. Len(processed)
               PROVE  processed[j][1] \in 1 .. arrived
    OBVIOUS
  <2>1. processed[j][1] \in Packets
    BY DEF ThreadInv, PrintedInv, Processed
  <2>2. processed[j][1] <= n - c
    BY <1>1, <1>3 DEF PrintedOlder
  <2> QED
    BY <1>2, <1>3, <1>4, <2>1, <2>2
<1> QED
  BY <1>8, <1>9

(* Where the main thread is tells whether its packet is on the ring; when  *)
(* it returns and leaves it there, it keeps the mutex.                     *)
LEMMA OnRingTells ==
  ASSUME ThreadInv
  PROVE  /\ main_pc \in {"lock", "push"} => ~OnRing
         /\ main_pc = "unlock" => OnRing
         /\ main_pc = "returning" /\ OnRing => mutex = "main"
         /\ \A k \in 1 .. Len(Contents) :
              Contents[k] \in Packets /\ Contents[k] <= arrived
<1>1. PICK n \in Int : Order(n)
  BY DEF ThreadInv, PrintedInv
<1>2. PICK c \in Nat : c = Count
  BY ContentsIsSeq DEF ThreadInv
<1>3. arrived \in Nat /\ n \in {arrived - 1, arrived}
  BY <1>1 DEF Order, LastPushed, ThreadInv, TypeOK
<1>4. /\ Contents \in Seq(Packets) /\ Len(Contents) = c
      /\ \A k \in 1 .. c : Contents[k] = n - c + k
  BY <1>1, <1>2, ContentsIsSeq DEF Order, Consecutive, ThreadInv
<1>5. \A k \in 1 .. c : n - c + k <= n
  BY <1>2
<1>6. main_pc \in {"lock", "push"} => ~OnRing
  <2>1. n = arrived - 1 => ~OnRing
    BY <1>3, <1>4, <1>5 DEF OnRing
  <2> QED
    BY <1>1, <2>1 DEF Order, LastPushed
<1>7. main_pc = "unlock" => OnRing
  <2>1. n = arrived /\ c > 0 => c \in 1 .. c /\ Contents[c] = arrived
    BY <1>3, <1>4
  <2> QED
    BY <1>1, <1>2, <1>4, <2>1 DEF Order, LastPushed, OnRing
<1>8. main_pc = "returning" /\ OnRing => mutex = "main"
  <2>1. n = arrived - 1 => ~OnRing
    BY <1>3, <1>4, <1>5 DEF OnRing
  <2> QED
    BY <1>1, <2>1 DEF Order, LastPushed
<1>9. \A k \in 1 .. Len(Contents) :
        Contents[k] \in Packets /\ Contents[k] <= arrived
  BY <1>3, <1>4, <1>5
<1> QED
  BY <1>6, <1>7, <1>8, <1>9

(* Nothing gets on or off the ring while its slots stay the same. *)
LEMMA SameOnRing ==
  ASSUME UNCHANGED slots, arrived' = arrived
  PROVE  OnRing' <=> OnRing
  BY SameContents DEF OnRing

-----------------------------------------------------------------------------
(* What each step of the server is to PacketLog.                           *)

(* While the ring and the worker's hands stay the same, so do the queue    *)
(* and the log.                                                            *)
LEMMA SameQueue ==
  ASSUME UNCHANGED <<slots, packet, processed, decoded>>,
         worker_pc' = "print" <=> worker_pc = "print"
  PROVE  Queue' = Queue /\ Reports' = Reports
<1>1. Waiting' = Waiting
  BY SameContents DEF Waiting, Printing
<1>2. \A n : Origin(n)' = Origin(n)
  BY DEF Origin, IsPacket
<1> QED
  BY <1>1, <1>2 DEF Queue, Origins, Reports

(* A peer that sends more completes packets, or none. *)
LEMMA SendSteps ==
  ASSUME LP!LoopInv, Environment
  PROVE  SameLog \/ \E p \in Peers : Log!Send(p)
<1>1. Loop!Environment /\ UNCHANGED <<vars, decoded>>
  BY Zenon DEF Environment
<1>2. UNCHANGED <<files, connectionfd, delivered>>
  BY <1>1 DEF Loop!Environment, Loop!Connect, Loop!Send, Loop!Finish,
              Loop!Reset, Loop!loop
<1>3. Queue' = Queue /\ Reports' = Reports
  BY <1>1, SameQueue DEF vars, slots
<1>4. Taken' = Taken /\ cb_mutex' = cb_mutex
  BY <1>1, <1>2, SameOnRing DEF Taken, Pushed, vars, slots
<1>5. CASE sent' = sent
  BY <1>3, <1>4, <1>5 DEF SameLog, Complete
<1>6. CASE \E p \in Peers : Loop!Send(p)
  <2>0. sent \in [Peers -> 0 .. MaxBytes] /\ MaxBytes \in Nat
    BY DEF Loop!LoopAssumption, LP!LoopInv, LP!TypeOK
  <2>1. PICK p \in Peers, n \in Nat :
          sent' = [sent EXCEPT ![p] = n] /\ sent[p] \in Nat /\ sent[p] < n
    <3>1. PICK p \in Peers :
            \E n \in sent[p] + 1 .. MaxBytes : sent' = [sent EXCEPT ![p] = n]
      BY <1>6 DEF Loop!Send
    <3>2. PICK n \in sent[p] + 1 .. MaxBytes : sent' = [sent EXCEPT ![p] = n]
      BY <3>1
    <3>3. sent[p] \in Nat
      BY <2>0
    <3>4. n \in Nat /\ sent[p] < n
      BY <3>2, <3>3, <2>0
    <3> QED
      BY <3>2, <3>3, <3>4
  <2>2. /\ PacketSize \in Nat \ {0}
        /\ sent \in [Peers -> 0 .. MaxBytes]
    BY DEF Loop!LoopAssumption, LP!LoopInv, LP!TypeOK
  <2>3. PICK c \in Int, d \in Int :
          /\ c = sent[p] \div PacketSize /\ d = n \div PacketSize
          /\ c <= d
    BY <2>1, <2>2, DivisionGrows
  <2>4. /\ Complete[p] = c
        /\ Complete' = [Complete EXCEPT ![p] = d]
    BY <2>1, <2>2, <2>3 DEF Complete
  <2>5. CASE c = d
    <3>1. Complete' = Complete
      BY <2>4, <2>5 DEF Complete
    <3> QED
      BY <1>3, <1>4, <3>1 DEF SameLog
  <2>6. CASE c < d
    <3>1. Complete'[p] > Complete[p]
      BY <2>3, <2>4, <2>6 DEF Complete
    <3>2. Complete' = [Complete EXCEPT ![p] = Complete'[p]]
      BY <2>4 DEF Complete
    <3>3. Log!Send(p)
      BY <1>3, <1>4, <3>1, <3>2
         DEF Log!Send, Complete, Taken, Queue, Origins, Reports
    <3> QED
      BY <3>3
  <2> QED
    BY <2>3, <2>5, <2>6
<1> QED
  BY <1>1, <1>5, <1>6
     DEF Loop!Environment, Loop!Connect, Loop!Finish, Loop!Reset

(* Neither the start nor reading changes what was taken or printed. *)
LEMMA ReadingSteps ==
  ASSUME ThreadInv, JointInv, Start \/ Receive
  PROVE  SameLog
<1>1. CASE Start
  <2>1. /\ UNCHANGED <<slots, packet, processed, decoded, sent, delivered>>
        /\ UNCHANGED <<cb_mutex, arrived>>
        /\ worker_pc # "print" /\ worker_pc' # "print"
        /\ main_pc = "start" /\ main_pc' \in {"select", "exited"}
    BY <1>1 DEF Start, MainStart, ThreadInv, NoWorkerYet, cb, slots, worker,
                Loop!Start, Loop!kernel
  <2>2. ~OnRing
    <3>1. arrived = 0 /\ 0 \notin Packets
      BY <2>1, ThreadsAssumption DEF JointInv
    <3> QED
      BY <3>1, OnRingTells DEF OnRing
  <2>3. Taken' = Taken
    BY <2>1, <2>2, SameOnRing DEF Taken, Pushed
  <2> QED
    BY <2>1, <2>3, SameQueue DEF SameLog, Complete
<1>2. CASE Receive
  <2>1. UNCHANGED <<vars, decoded>> /\ loop_pc \notin {"deliver", "exited"}
    BY <1>2 DEF Receive, Loop!Select, Loop!ScanDone, Loop!Accept,
                Loop!StartRead, Loop!Scanning, Loop!Read, Loop!ReadFails,
                Loop!Reading
  <2>2. UNCHANGED <<sent, delivered>>
    BY <1>2 DEF Receive, Loop!Select, Loop!ScanDone, Loop!Accept,
                Loop!StartRead, Loop!Read, Loop!ReadFails, Loop!loop,
                Loop!kernel
  <2>3. \A p \in Peers : ~Pushed(p) /\ ~Pushed(p)'
    BY <2>1 DEF JointInv, Handling, Pushed, vars
  <2> QED
    BY <2>1, <2>2, <2>3, SameQueue DEF SameLog, Complete, Taken, vars, slots
<1> QED
  BY <1>1, <1>2

(* Decoding adds to decoded what nobody has pushed yet. *)
LEMMA DecodeSteps ==
  ASSUME ThreadInv, LP!LoopInv, JointInv, Decode
  PROVE  SameLog
<1>1. /\ UNCHANGED <<slots, worker_pc, packet, processed, sent, delivered>>
      /\ UNCHANGED cb_mutex
      /\ main_pc = "select" /\ main_pc' \in {"lock", "returning", "exited"}
  BY DEF Decode, MainReceive, cb, slots, worker, loop_vars
<1>2. /\ Len(decoded) = arrived /\ Len(decoded') = arrived + 1
      /\ decoded \in Seq(Buffers) /\ decoded' \in Seq(Buffers)
      /\ arrived \in Nat
      /\ \A n \in 1 .. arrived : decoded'[n] = decoded[n]
  BY DecodeTakesNext DEF JointInv, ThreadInv, TypeOK
<1>3. \A n \in 1 .. arrived : n \in DOMAIN decoded /\ n \in DOMAIN decoded'
  BY <1>2
<1>4. \A n \in 1 .. arrived : Origin(n)' = Origin(n)
  BY <1>2, <1>3 DEF Origin, IsPacket
<1>5. Waiting' = Waiting
  BY <1>1, SameContents DEF Waiting, Printing
<1>6. Queue' = Queue /\ Reports' = Reports
  BY <1>1, <1>4, <1>5, NumbersArrived DEF Queue, Origins, Reports
<1>7. ~OnRing'
  <2>1. arrived' = arrived + 1 /\ Contents' = Contents
    BY <1>1, DecodeTakesNext, SameContents DEF ThreadInv
  <2>2. \A k \in 1 .. Len(Contents) : Contents[k] # arrived + 1
    <3>1. \A p \in Packets : p \in Int
      BY ThreadsAssumption
    <3> QED
      BY <1>2, <3>1, OnRingTells
  <2> QED
    BY <2>1, <2>2 DEF OnRing
<1>8. Complete' = Complete /\ Taken' = Taken
  BY <1>1, <1>7 DEF Complete, Taken, Pushed
<1> QED
  BY <1>1, <1>6, <1>8 DEF SameLog

(* A packet is taken when it is pushed, even if the ring cannot be         *)
(* unlocked after that; it had been sent completely.                       *)
LEMMA PushTakes ==
  ASSUME ThreadInv, LP!LoopInv, JointInv, MainPush,
         UNCHANGED <<loop_vars, decoded>>
  PROVE  SameLog \/ \E p \in Peers : Log!Take(p)
<1>1. /\ main_pc = "push" /\ Handling /\ arrived \in Packets
      /\ loop_pc = "deliver"
      /\ UNCHANGED <<mutex, arrived, worker_pc, packet, processed>>
      /\ UNCHANGED <<files, connectionfd, delivered, sent, decoded>>
  BY PushSteps
     DEF ThreadInv, MainPush, Handling, HasPacket, JointInv, loop_vars
<1>2. worker_pc # "print" /\ worker_pc' # "print"
  BY <1>1 DEF ThreadInv, MutexHeld
<1>3. Complete' = Complete /\ Reports' = Reports
  BY <1>1 DEF Complete, Reports, Origin, IsPacket
<1>4. CASE UNCHANGED <<slots, cb_mutex>> /\ main_pc' = "returning"
  <2>1. Queue' = Queue
    BY <1>1, <1>4, SameQueue
  <2>2. ~OnRing'
    BY <1>1, <1>4, OnRingTells, SameOnRing
  <2>3. Taken' = Taken
    BY <1>1, <1>4, <2>2 DEF Taken, Pushed
  <2> QED
    BY <1>3, <1>4, <2>1, <2>3 DEF SameLog
<1>5. CASE /\ cb_mutex = "free" /\ Store(arrived)
           /\ \/ UNCHANGED cb_mutex /\ main_pc' = "signal"
              \/ UnlockFails /\ main_pc' = "returning"
  <2>1. PICK p : p = files[connectionfd]
    OBVIOUS
  <2>2. /\ p \in Peers /\ delivered[p] \in Nat /\ sent[p] \in Nat
        /\ PacketSize * delivered[p] + PacketSize <= sent[p]
    BY <1>1, <2>1, LP!NextPacketWhole
       DEF Loop!LoopAssumption, LP!LoopAssumption
  <2>3. Origin(arrived) = <<p, delivered[p] + 1>>
    <3>1. IsPacket(arrived, p, delivered[p] + 1)
      BY <1>1, <2>1 DEF JointInv
    <3>2. arrived \in DOMAIN decoded
      BY <1>1, ThreadsAssumption DEF JointInv
    <3> QED
      BY <2>2, <3>1, <3>2, OriginIs
  <2>4. /\ Waiting = Contents /\ Contents \in Seq(Packets)
        /\ RingInv
    BY <1>2, WaitingIs DEF ThreadInv
  <2>5. PICK kept \in Seq(Packets) :
          /\ Contents' = Append(kept, arrived)
          /\ \/ Len(Contents) = Length /\ Contents # << >>
                /\ kept = Tail(Contents)
             \/ Len(Contents) # Length /\ kept = Contents
    <3>1. CASE Overflow
      <4>1. /\ Len(Contents) = Length
            /\ Contents' = Append(Tail(Contents), arrived)
        BY <1>1, <1>5, <2>4, <3>1, StoreFullContents
      <4>2. Contents # << >> /\ Tail(Contents) \in Seq(Packets)
        BY <2>4, <4>1, BufferAssumption
      <4> QED
        BY <4>1, <4>2
    <3>2. CASE ~Overflow
      <4>1. /\ Len(Contents) < Length /\ Len(Contents) \in Nat
            /\ Contents' = Append(Contents, arrived)
        BY <1>1, <1>5, <2>4, <3>2, StoreContents
      <4> QED
        BY <2>4, <4>1, BufferAssumption
    <3> QED
      BY <3>1, <3>2
  <2>6. /\ Contents' \in Seq(Packets) /\ OnRing'
        /\ Waiting' = Contents'
    <3>1. /\ Contents' \in Seq(Packets) /\ Len(Contents') = Len(kept) + 1
          /\ Contents'[Len(kept) + 1] = arrived /\ Len(kept) \in Nat
      BY <1>1, <2>5, AppendProperties
    <3>2. OnRing'
      BY <1>1, <3>1 DEF OnRing
    <3> QED
      BY <1>2, <3>1, <3>2, ConcatEmptySeq DEF Waiting, Printing
  <2>7. Queue' = Append(IF Len(Queue) = Length THEN Tail(Queue) ELSE Queue,
                        <<p, delivered[p] + 1>>)
    <3>1. Len(Queue) = Len(Contents) /\ Queue = Origins(Contents)
      BY <2>4 DEF Queue, Origins
    <3>2. Queue' = Origins(Contents')
      BY <1>1, <2>6 DEF Queue, Origins, Origin, IsPacket
    <3>3. Queue' = Append(Origins(kept), Origin(arrived))
      BY <1>1, <2>5, <3>2, OriginsAppend
    <3>4. CASE Len(Contents) = Length
      <4>1. Origins(kept) = Tail(Queue)
        BY <2>4, <2>5, <3>1, <3>4, OriginsTail
      <4> QED
        BY <2>3, <3>1, <3>3, <3>4, <4>1
    <3>5. CASE Len(Contents) # Length
      BY <2>3, <2>5, <3>1, <3>3, <3>5
    <3> QED
      BY <3>4, <3>5
  <2>8. \A q \in Peers : ~Pushed(q) /\ (Pushed(q)' <=> q = p)
    BY <1>1, <1>5, <2>1, <2>6 DEF Pushed
  <2>9. /\ Taken[p] = delivered[p]
        /\ Taken' = [Taken EXCEPT ![p] = delivered[p] + 1]
    <3>1. delivered \in [Peers -> 0 .. MaxBytes] /\ delivered' = delivered
      BY <1>1 DEF LP!LoopInv, LP!TypeOK
    <3>2. Taken = delivered
      BY <2>8, <3>1 DEF Taken
    <3>3. Taken' = [q \in Peers |-> delivered[q] + IF q = p THEN 1 ELSE 0]
      BY <2>8, <3>1 DEF Taken
    <3>4. \A q \in Peers :
            delivered[q] + (IF q = p THEN 1 ELSE 0) =
              IF q = p THEN delivered[p] + 1 ELSE delivered[q]
      <4>1. \A q \in Peers : delivered[q] \in Int
        BY <3>1 DEF Loop!LoopAssumption
      <4> QED
        BY <4>1
    <3>5. Taken' = [q \in Peers |-> IF q = p THEN delivered[p] + 1
                                           ELSE delivered[q]]
      BY <3>3, <3>4
    <3>6. Taken' = [delivered EXCEPT ![p] = delivered[p] + 1]
      BY <3>1, <3>5
    <3> QED
      BY <3>2, <3>6
  <2>10. Taken[p] < Complete[p]
    <3>1. PICK d \in Nat, m \in Nat :
            /\ d = delivered[p] /\ m = sent[p]
            /\ PacketSize * d + PacketSize <= m
      BY <2>2
    <3>2. d < m \div PacketSize
      BY <3>1, WholeCounted DEF Loop!LoopAssumption
    <3> QED
      BY <2>2, <2>9, <3>1, <3>2 DEF Complete
  <2>11. Log!Take(p)
    <3>1. Taken'[p] = delivered[p] + 1
      BY <2>2, <2>9 DEF Taken
    <3>2. Taken' = [Taken EXCEPT ![p] = @ + 1]
      BY <2>9
    <3>3. /\ ~(cb_mutex = "stuck")
          /\ \/ cb_mutex' = cb_mutex
             \/ "unlock" \in Faults /\ cb_mutex' = "stuck"
      BY <1>5 DEF UnlockFails
    <3> QED
      BY <1>3, <2>7, <2>10, <3>1, <3>2, <3>3
         DEF Log!Take, Log!Stop, Complete, Taken, Queue, Origins, Reports
  <2> QED
    BY <2>2, <2>11
<1>6. data[push_index] # Garbage
  <2>1. RingInv /\ Ring /\ Contents \in Seq(Packets)
    BY ContentsIsSeq DEF ThreadInv, RingInv
  <2>2. data[push_index] \in Packets \cup {NULL}
    <3>1. /\ Count \in 0 .. Length
          /\ Count < Length => push_index = Slot(Count + 1)
          /\ Count = Length => push_index = Slot(1)
      BY <2>1, RingGeometry
    <3>2. \A k \in 1 .. Length : data[Slot(k)] \in Packets \cup {NULL}
      BY <2>1 DEF RingInv, SlotsMatchIndices
    <3> QED
      BY <3>1, <3>2, BufferAssumption
  <2> QED
    BY <2>2, BufferAssumption
<1>7. \/ UNCHANGED <<slots, cb_mutex>> /\ main_pc' = "returning"
      \/ /\ cb_mutex = "free" /\ Store(arrived)
         /\ \/ UNCHANGED cb_mutex /\ main_pc' = "signal"
            \/ UnlockFails /\ main_pc' = "returning"
  BY <1>6, BufferAssumption
     DEF MainPush, cb_push, LockFails, Locked, Unlock, cb, slots
<1> QED
  BY <1>4, <1>5, <1>7

(* The other steps of handling a packet change nothing: when the loop      *)
(* counts the packet, the main thread stops standing for it.               *)
LEMMA HandlingSteps ==
  ASSUME ThreadInv, LP!LoopInv,
         \/ /\ MainLock \/ MainSignal \/ MainUnlock
            /\ UNCHANGED <<loop_vars, decoded>>
         \/ Handled
  PROVE  SameLog
<1>1. CASE /\ MainLock \/ MainSignal \/ MainUnlock
           /\ UNCHANGED <<loop_vars, decoded>>
  <2>1. /\ UNCHANGED <<slots, packet, processed, decoded, sent, delivered,
                       files, connectionfd, cb_mutex, arrived>>
        /\ worker_pc' = "print" <=> worker_pc = "print"
    BY <1>1 DEF MainLock, MainSignal, MainUnlock, cb, slots, worker,
                loop_vars
  <2>2. \A p : Pushed(p)' <=> Pushed(p)
    BY <1>1, <2>1, OnRingTells, SameOnRing
       DEF MainLock, MainSignal, MainUnlock, Pushed
  <2> QED
    BY <2>1, <2>2, SameQueue DEF SameLog, Complete, Taken
<1>2. CASE Handled
  <2>1. /\ UNCHANGED <<slots, worker_pc, packet, processed, decoded, sent>>
        /\ UNCHANGED <<cb_mutex, arrived>>
    BY <1>2 DEF Handled, MainPrint, MainExit, cb, slots, worker,
                Loop!Deliver, Loop!kernel
  <2>2. Complete' = Complete /\ Queue' = Queue /\ Reports' = Reports
    BY <2>1, SameQueue DEF Complete
  <2>3. PICK p \in Peers : Loop!Deliver(p)
    BY <1>2 DEF Handled
  <2>4. CASE MainPrint /\ loop_pc' = "scan"
    <3>1. /\ delivered' = [delivered EXCEPT ![p] = @ + 1]
          /\ p = files[connectionfd]
      BY <2>3, <2>4 DEF Loop!Deliver, Loop!Exit
    <3>2. \A q \in Peers : (Pushed(q) <=> q = p) /\ ~Pushed(q)'
      BY <2>4, <3>1 DEF MainPrint, Pushed
    <3>3. delivered \in [Peers -> 0 .. MaxBytes]
      BY DEF LP!LoopInv, LP!TypeOK
    <3>4. Taken' = Taken
      BY <3>1, <3>2, <3>3 DEF Taken
    <3> QED
      BY <2>1, <2>2, <3>4 DEF SameLog
  <2>5. CASE MainExit /\ loop_pc' = "exited"
    <3>1. UNCHANGED <<delivered, files, connectionfd>>
      BY <2>3, <2>5 DEF Loop!Deliver, Loop!kernel
    <3>2. \A q \in Peers : Pushed(q)' <=> Pushed(q)
      BY <2>1, <2>5, <3>1, SameOnRing DEF MainExit, Pushed
    <3>3. Taken' = Taken
      BY <3>1, <3>2 DEF Taken
    <3> QED
      BY <2>1, <2>2, <3>3 DEF SameLog
  <2> QED
    BY <1>2, <2>4, <2>5 DEF Handled
<1> QED
  BY <1>1, <1>2

(* An unlock of the ring that fails in the worker stops the server. *)
LEMMA UnlockStops ==
  ASSUME cb_mutex = "free", UnlockFails,
         Complete' = Complete, Taken' = Taken, Reports' = Reports,
         Queue' = Queue \/ (Queue # << >> /\ Queue' = Tail(Queue))
  PROVE  Log!Lose
<1>1. ~(cb_mutex = "stuck") /\ "unlock" \in Faults /\ cb_mutex' = "stuck"
  BY DEF UnlockFails
<1> QED
  BY <1>1 DEF Log!Lose, Log!Stop, Complete, Taken, Queue, Origins, Reports

(* A packet is reported when it is printed; a pull only moves it from the  *)
(* ring into the worker's hands, or loses it when the unlock fails.        *)
LEMMA WorkerSteps ==
  ASSUME ThreadInv, WorkerThread \/ Spurious
  PROVE  SameLog \/ Log!Report \/ Log!Lose
<1>1. UNCHANGED <<main_pc, arrived, sent, delivered, files, connectionfd,
                  decoded>>
  BY DEF WorkerThread, Spurious, Worker, WorkerLock, WorkerCheck, WorkerWait,
         WorkerSpurious, WorkerWake, WorkerPull, WorkerPrint, WorkerFree,
         WorkerUnlock, main, loop_vars
<1>2. /\ Complete' = Complete
      /\ (OnRing' <=> OnRing) => Taken' = Taken
      /\ UNCHANGED slots => Taken' = Taken
  BY <1>1, SameOnRing DEF Complete, Taken, Pushed
<1>3. \A n : Origin(n)' = Origin(n)
  BY <1>1 DEF Origin, IsPacket
<1>4. CASE WorkerPrint
  <2>1. /\ worker_pc = "print" /\ worker_pc' = "free"
        /\ UNCHANGED slots /\ UNCHANGED cb_mutex /\ ~(cb_mutex = "stuck")
    BY <1>4 DEF WorkerPrint, cb, slots, ThreadInv, PrintsUnlocked
  <2>2. /\ Waiting = <<packet>> \o Contents /\ packet \in Packets
        /\ Contents \in Seq(Packets)
    BY <2>1, WaitingIs
  <2>3. Waiting' = Contents
    BY <2>1, <2>2, SameContents, ConcatEmptySeq DEF Waiting, Printing
  <2>4. /\ Waiting \in Seq(Packets) /\ Waiting # << >>
        /\ Head(Waiting) = packet /\ Tail(Waiting) = Contents
    BY <2>2, FrontAndRest
  <2>5. /\ Queue # << >> /\ Head(Queue) = Origin(packet)
        /\ Queue' = Tail(Queue)
    BY <1>3, <2>3, <2>4, OriginsTail DEF Queue, Origins
  <2>6. PICK status : processed' = Append(processed, <<packet, status>>)
    <3>1. Allocated(packet)
      BY <2>1 DEF ThreadInv, OneOwner, WorkerHolds, Live
    <3> QED
      BY <1>4, <3>1 DEF WorkerPrint, Lines
  <2>7. Reports' = Append(Reports, Origin(packet))
    <3> DEFINE S == {processed[j] : j \in 1 .. Len(processed)}
                      \cup {<<packet, status>>}
               O == {Origin(m) : m \in Packets}
    <3>1. processed \in Seq(S) /\ Len(processed) \in Nat
      BY DEF ThreadInv, PrintedInv
    <3>2. processed' =
            [j \in 1 .. Len(processed) + 1 |->
               IF j = Len(processed) + 1 THEN <<packet, status>>
                                         ELSE processed[j]]
      BY <2>6, <3>1, AppendAsFunction
    <3>3. Len(processed') = Len(processed) + 1
      BY <3>1, <3>2
    <3>4. Reports' = [j \in 1 .. Len(processed) + 1 |->
                        IF j = Len(processed) + 1 THEN Origin(packet)
                                                  ELSE Reports[j]]
      BY <1>3, <3>1, <3>2, <3>3 DEF Reports
    <3>5. \A j \in 1 .. Len(processed) : processed[j][1] \in Packets
      BY DEF ThreadInv, PrintedInv, Processed
    <3>6. Reports \in Seq(O) /\ Len(Reports) = Len(processed)
      BY <3>1, <3>5 DEF Reports
    <3>7. Origin(packet) \in O
      BY <2>2
    <3> HIDE DEF S, O
    <3>8. Append(Reports, Origin(packet)) =
            [j \in 1 .. Len(Reports) + 1 |->
               IF j = Len(Reports) + 1 THEN Origin(packet) ELSE Reports[j]]
      BY <3>6, <3>7, AppendAsFunction
    <3> QED
      BY <3>4, <3>6, <3>8
  <2>8. Log!Report
    BY <1>2, <2>1, <2>5, <2>7
       DEF Log!Report, Complete, Taken, Queue, Origins, Reports
  <2> QED
    BY <2>8
<1>5. CASE WorkerPull
  <2>1. /\ worker_pc = "pull" /\ main_pc # "exited" /\ processed' = processed
        /\ packet' \in Packets \cup {NULL}
        /\ worker_pc' = IF packet' = NULL THEN "unlock" ELSE "print"
        /\ \/ /\ ~Empty /\ Take
              /\ \/ UNCHANGED cb_mutex /\ packet' = data[pull_index]
                 \/ /\ cb_mutex = "free" /\ UnlockFails
                    /\ packet' = NULL
           \/ /\ UNCHANGED slots /\ packet' = NULL
              /\ UNCHANGED cb_mutex \/ (cb_mutex = "free" /\ UnlockFails)
    BY <1>5 DEF WorkerPull, cb_pull, Running, Locked, Unlock, LockFails, cb,
                slots
  <2>2. Waiting = Contents /\ Contents \in Seq(Packets) /\ RingInv
    BY <2>1, WaitingIs DEF ThreadInv
  <2>3. Reports' = Reports
    BY <1>3, <2>1 DEF Reports
  <2>4. CASE ~Empty /\ Take
    <3>1. /\ Contents # << >> /\ Head(Contents) = data[pull_index]
          /\ Contents' = Tail(Contents)
      BY <2>2, <2>4, TakeContents
    <3>2. /\ Head(Contents) \in Packets
          /\ Len(Contents) \in Nat \ {0}
          /\ Len(Tail(Contents)) = Len(Contents) - 1
          /\ \A k \in 1 .. Len(Contents) - 1 :
               Tail(Contents)[k] = Contents[k + 1]
      BY <2>2, <3>1, HeadTailProperties
    <3>3. OnRing' => OnRing
      <4>1. \A k \in 1 .. Len(Contents) - 1 : k + 1 \in 1 .. Len(Contents)
        BY <3>2
      <4> QED
        BY <1>1, <3>1, <3>2, <4>1 DEF OnRing
    <3>4. main_pc = "returning" => ~OnRing
      BY <2>1, OnRingTells DEF ThreadInv, MutexHeld
    <3>5. Taken' = Taken
      BY <1>1, <2>1, <3>3, <3>4 DEF Taken, Pushed
    <3>6. CASE UNCHANGED cb_mutex /\ packet' = data[pull_index]
      <4>1. packet' \in Packets /\ packet' # NULL
        BY <3>1, <3>2, <3>6, BufferAssumption
      <4>2. Waiting' = <<packet'>> \o Tail(Contents)
        BY <2>1, <3>1, <4>1 DEF Waiting, Printing
      <4>3. <<Head(Contents)>> \o Tail(Contents) = Contents
        BY <2>2, <3>1, HeadAndTail
      <4>4. Waiting' = Waiting
        BY <2>2, <3>1, <3>6, <4>2, <4>3
      <4>5. Queue' = Queue
        BY <1>3, <4>4 DEF Queue, Origins
      <4> QED
        BY <1>2, <2>3, <3>5, <3>6, <4>5 DEF SameLog
    <3>7. CASE cb_mutex = "free" /\ UnlockFails /\ packet' = NULL
      <4>1. Waiting' = Tail(Contents)
        <5>1. Tail(Contents) \in Seq(Packets)
          BY <2>2, <3>1
        <5> QED
          BY <2>1, <3>1, <3>7, <5>1, ConcatEmptySeq DEF Waiting, Printing
      <4>2. Queue # << >> /\ Queue' = Tail(Queue)
        BY <1>3, <2>2, <3>1, <4>1, OriginsTail DEF Queue, Origins
      <4> QED
        BY <1>2, <2>3, <3>5, <3>7, <4>2, UnlockStops
    <3>8. ~UNCHANGED slots
      <4> SUFFICES ASSUME UNCHANGED slots
                   PROVE  FALSE
        OBVIOUS
      <4>1. Tail(Contents) = Contents
        BY <3>1, SameContents
      <4>2. Len(Contents) = Len(Contents) - 1
        BY <3>2, <4>1
      <4> QED
        BY <3>2, <4>2
    <3> QED
      BY <2>1, <3>6, <3>7, <3>8
  <2>5. CASE /\ UNCHANGED slots /\ packet' = NULL
             /\ UNCHANGED cb_mutex \/ (cb_mutex = "free" /\ UnlockFails)
    <3>1. Waiting' = Waiting
      BY <2>1, <2>2, <2>5, SameContents, ConcatEmptySeq
         DEF Waiting, Printing
    <3>2. Queue' = Queue
      BY <1>3, <3>1 DEF Queue, Origins
    <3> QED
      BY <1>2, <2>3, <2>5, <3>2, UnlockStops DEF SameLog
  <2> QED
    BY <2>1, <2>4, <2>5
<1>6. CASE WorkerCheck
  <2>1. /\ UNCHANGED <<packet, processed>>
        /\ worker_pc # "print" /\ worker_pc' # "print"
        /\ \E n \in (0 .. Length) \cup {UINT_MAX} : cb_current_length(n)
    BY <1>6 DEF WorkerCheck, worker
  <2>2. /\ UNCHANGED slots
        /\ UNCHANGED cb_mutex \/ (cb_mutex = "free" /\ UnlockFails)
    BY <2>1 DEF cb_current_length, LockFails, Locked, Unlock, cb, slots
  <2>3. Queue' = Queue /\ Reports' = Reports
    BY <1>1, <2>1, <2>2, SameQueue
  <2> QED
    BY <1>2, <2>2, <2>3, UnlockStops DEF SameLog
<1>7. CASE \/ WorkerLock \/ WorkerWait \/ WorkerSpurious \/ WorkerWake
           \/ WorkerFree \/ WorkerUnlock
  <2>1. /\ UNCHANGED slots /\ UNCHANGED <<cb_mutex, packet, processed>>
        /\ worker_pc # "print" /\ worker_pc' # "print"
    BY <1>7 DEF WorkerLock, WorkerWait, WorkerSpurious, WorkerWake,
                WorkerFree, WorkerUnlock, cb, slots, worker
  <2> QED
    BY <1>1, <1>2, <2>1, SameQueue DEF SameLog
<1> QED
  BY <1>4, <1>5, <1>6, <1>7 DEF WorkerThread, Spurious, Worker

-----------------------------------------------------------------------------
(* The theorem.                                                            *)

(* Every step of the server is a step of PacketLog, or none. *)
LEMMA StepRefines ==
  ASSUME ThreadInv, LP!LoopInv, JointInv, [ServerNext]_all_vars
  PROVE  SameLog \/ Log!Next
<1>1. CASE Environment
  BY <1>1, SendSteps DEF Log!Next
<1>2. CASE Start \/ Receive
  BY <1>2, ReadingSteps
<1>3. CASE Decode
  BY <1>3, DecodeSteps
<1>4. CASE Handle
  BY <1>4, PushTakes, HandlingSteps DEF Handle, Log!Next
<1>5. CASE Handled
  BY <1>5, HandlingSteps
<1>6. CASE WorkerThread \/ Spurious
  BY <1>6, WorkerSteps DEF Log!Next
<1>7. CASE UNCHANGED all_vars
  <2>1. /\ UNCHANGED <<slots, worker_pc, packet, processed, decoded, sent,
                       delivered, main_pc, files, connectionfd>>
        /\ UNCHANGED <<cb_mutex, arrived>>
    BY <1>7 DEF all_vars, vars, loop_vars, slots
  <2> QED
    BY <2>1, SameQueue, SameOnRing DEF SameLog, Complete, Taken, Pushed
<1> QED
  BY <1>1, <1>2, <1>3, <1>4, <1>5, <1>6, <1>7 DEF ServerNext, MainThread

(* The server starts where PacketLog does. *)
LEMMA StartRefines ==
  ASSUME Uninitialised = {NULL}, ServerInit
  PROVE  Log!Init
<1>1. /\ sent = [p \in Peers |-> 0] /\ delivered = [p \in Peers |-> 0]
      /\ main_pc = "start" /\ worker_pc = "absent" /\ processed = << >>
      /\ cb_create /\ PacketSize \in Nat \ {0}
  BY DEF ServerInit, Init, Loop!Init, Loop!LoopAssumption
<1>2. Complete = [p \in Peers |-> 0]
  <2>1. 0 \div PacketSize = 0
    BY <1>1, Multiples, PacketSize * 0 = 0
  <2> QED
    BY <1>1, <2>1 DEF Complete
<1>3. Taken = [p \in Peers |-> 0]
  BY <1>1 DEF Taken, Pushed
<1>4. Queue = << >>
  <2>1. RingInv /\ Count = 0
    BY <1>1, InitRing, CreateRing
  <2>2. Contents \in Seq(Packets) /\ Len(Contents) = 0
    BY <2>1, ContentsIsSeq
  <2>3. Contents = << >>
    BY <2>2, EmptySeq
  <2>4. Waiting = << >> \o << >>
    BY <1>1, <2>3 DEF Waiting, Printing
  <2>5. Waiting = << >>
    BY <2>2, <2>3, <2>4, ConcatEmptySeq
  <2> QED
    BY <2>5 DEF Queue, Origins
<1>5. Reports = << >>
  BY <1>1 DEF Reports
<1>6. ~(cb_mutex = "stuck")
  BY <1>1 DEF cb_create
<1> QED
  BY <1>2, <1>3, <1>4, <1>5, <1>6
     DEF Log!Init, Complete, Taken, Queue, Origins, Reports

(* From the bytes that peers send to the lines that the worker prints, the *)
(* server implements PacketLog, for every number of peers and packets, all *)
(* sizes and limits and whichever of the start, malloc, MD5 and the        *)
(* pthread calls fail, if the ring starts cleared.                         *)
THEOREM ServerImplementsLog ==
  ASSUME Uninitialised = {NULL}
  PROVE  ServerSpec => ImplementsPacketLog
<1>1. ServerInit => Log!Init
  BY StartRefines
<1>2. /\ ThreadInv /\ LP!LoopInv /\ JointInv /\ [ServerNext]_all_vars
      => [Log!Next]_(Log!lvars)
  <2>1. SameLog => UNCHANGED Log!lvars
    BY DEF SameLog, Log!lvars, Complete, Taken, Queue, Origins, Reports
  <2> QED
    BY <2>1, StepRefines
<1> QED
  BY <1>1, <1>2, ThreadsKept, LoopKept, JointKept, PTL
     DEF ServerSpec, ImplementsPacketLog, Log!Spec
=============================================================================
