---------------------------- MODULE SelectProofs ----------------------------
(***************************************************************************)
(* Proofs that the loop of SelectLoop keeps its properties, whatever the   *)
(* peers, the sizes and the limits are.                                    *)
(*                                                                         *)
(* None of the properties is inductive: that a packet is handed over whole *)
(* rests on every stream standing at the beginning of a packet when its    *)
(* socket is reported, which rests on one connection per peer and one peer *)
(* per connection, which rests on select watching the open sockets only.   *)
(* LoopInv joins these facts; a lemma for each part shows that a step of   *)
(* the loop keeps it.                                                      *)
(***************************************************************************)
EXTENDS SelectLoop, SequenceTheorems, WellFoundedInduction,
        TLAPS

InPacket == main_pc \in {"read", "deliver"}

Waiting == 1 .. Len(backlog)

(* No packet is counted before its bytes are read, and no byte is read     *)
(* before it is sent.                                                      *)
ReadInOrder ==
  \A p \in Peers :
    PacketSize * delivered[p] <= consumed[p] /\ consumed[p] <= sent[p]

(* A peer waits at most once, or has one connection, or is away. *)
OnePlace ==
  /\ \A fd, gd \in Open : files[fd] = files[gd] => fd = gd
  /\ \A i, j \in Waiting : backlog[i] = backlog[j] => i = j
  /\ \A fd \in Open, i \in Waiting : files[fd] # backlog[i]
  /\ \A fd \in Open : peer[files[fd]] # "away"
  /\ \A i \in Waiting : peer[backlog[i]] # "away"

(* Nothing is read from a peer before its connection is accepted. *)
NothingRead ==
  /\ \A p \in Peers : peer[p] = "away" => consumed[p] = 0 /\ delivered[p] = 0
  /\ \A i \in Waiting :
       consumed[backlog[i]] = 0 /\ delivered[backlog[i]] = 0

(* The stream of an open connection stands where a packet begins, except   *)
(* while its packet is being read.                                         *)
InFrame ==
  main_pc # "exited" =>
    \A fd \in Open :
      consumed[files[fd]] =
        PacketSize * delivered[files[fd]]
          + (IF InPacket /\ fd = connectionfd THEN total_read_bytes ELSE 0)

(* At first nothing is watched.  The sockets still to be scanned are       *)
(* watched and readable; the one being read is open, was readable when its *)
(* packet began, and will not be scanned again.                            *)
Scans ==
  /\ main_pc = "start" => active_fd_set = {}
  /\ main_pc = "scan" \/ InPacket =>
       /\ read_fd_set \subseteq active_fd_set
       /\ \A fd \in read_fd_set : Readable(fd)
  /\ InPacket => connectionfd \in Open \ read_fd_set
  /\ main_pc = "read" =>
       /\ total_read_bytes < PacketSize
       /\ total_read_bytes = 0 => Readable(connectionfd)
  /\ main_pc = "deliver" => total_read_bytes = PacketSize

(* What was read of a packet is in the buffer, in order. *)
Filled ==
  InPacket =>
    LET p == files[connectionfd]
    IN  \A k \in 1 .. total_read_bytes :
          buffer[k] = <<p, PacketSize * delivered[p] + k>>

LoopInv ==
  /\ TypeOK
  /\ FdSetsMatch
  /\ ReadInOrder
  /\ OnePlace
  /\ NothingRead
  /\ InFrame
  /\ Scans
  /\ Filled

USE LoopAssumption

-----------------------------------------------------------------------------
(* What the steps do to the state.                                         *)

(* The lowest number of a set of file numbers is one of them. *)
LEMMA LowestIn ==
  ASSUME NEW S \in SUBSET Nat, S # {}
  PROVE  Min(S) \in S /\ \A n \in S : Min(S) <= n
<1>1. PICK m \in S : \A n \in S : <<n, m>> \notin OpToRel(<, Nat)
  BY WFMin, NatLessThanWellFounded, Zenon
<1>2. \A n \in S : ~(n < m)
  BY <1>1, Zenon DEF OpToRel
<1>3. \A n \in S : m =< n
  BY <1>2
<1> QED
  BY <1>3 DEF Min

(* A positive multiple of a number is no less than the number. *)
LEMMA AtLeastOnce ==
  ASSUME NEW a \in Nat \ {0}, NEW d \in Nat
  PROVE  d <= a * d
<1>1. PICK b \in Nat : a = b + 1
  BY a - 1 \in Nat
<1>2. a * d = b * d + d
  BY <1>1
<1>3. b * d \in Nat
  OBVIOUS
<1> QED
  BY <1>2, <1>3

(* File numbers are naturals, from the one after the listening socket on. *)
LEMMA SocketNumbers ==
  /\ Sockets \subseteq Nat
  /\ \A fd \in Sockets : fd > socketfd /\ fd < MaxFiles
  /\ socketfd \in Nat /\ socketfd \notin Sockets
  /\ \A fd \in Nat : fd > socketfd /\ fd < MaxFiles => fd \in Sockets
  BY DEF Sockets, socketfd

(* The socket that the scan takes is one that select reported. *)
LEMMA ScannedReported ==
  ASSUME TypeOK, NEW fd, Scanning(fd)
  PROVE  fd \in read_fd_set
<1>1. Reported \in SUBSET Nat /\ Reported # {}
  BY SocketNumbers DEF TypeOK, Scanning, Reported
<1>2. fd \in Reported
  BY <1>1, LowestIn DEF Scanning
<1> QED
  BY <1>2 DEF Reported

(* accept opens a free file number that an fd_set can hold, or closes the  *)
(* connection at once, or ends the program.                                *)
LEMMA AcceptCases ==
  ASSUME TypeOK, Accept
  PROVE  /\ backlog # << >> /\ socketfd \in read_fd_set /\ main_pc = "scan"
         /\ \/ /\ backlog' = Tail(backlog) /\ main_pc' = main_pc
               /\ \/ Refuse(Head(backlog))
                  \/ /\ NewSocket \in Sockets \ Open
                     /\ NewSocket < FD_SETSIZE
                     /\ Watch(Head(backlog))
            \/ /\ main_pc' = "exited"
               /\ UNCHANGED <<active_fd_set, maxfd, files, backlog, peer>>
<1>1. socketfd \in read_fd_set
  BY ScannedReported DEF Accept
<1>2. ASSUME Sockets \ Open # {}
      PROVE  NewSocket \in Sockets \ Open
  <2>1. Sockets \ Open \in SUBSET Nat
    BY SocketNumbers
  <2> QED
    BY <1>2, <2>1, LowestIn DEF NewSocket
<1>3. NewSocket \in Sockets \ Open => NewSocket \in Nat
  BY SocketNumbers
<1> QED
  BY <1>1, <1>2, <1>3 DEF Accept, Scanning, Exit

(* One read takes at least one byte, no more than the packet lacks and no  *)
(* more than was sent.                                                     *)
LEMMA ReadCases ==
  ASSUME LoopInv, NEW p \in Peers, Read(p)
  PROVE  \E n \in 1 .. PacketSize :
           /\ total_read_bytes + n <= PacketSize
           /\ consumed[p] + n <= sent[p]
           /\ buffer' = [k \in 1 .. PacketSize |->
                           IF k - total_read_bytes \in 1 .. n
                             THEN <<p, consumed[p] + k - total_read_bytes>>
                             ELSE buffer[k]]
           /\ consumed' = [consumed EXCEPT ![p] = @ + n]
           /\ total_read_bytes' = total_read_bytes + n
           /\ main_pc' = IF total_read_bytes + n # PacketSize
                           THEN "read" ELSE "deliver"
<1> DEFINE n == Min({Chunk, Unread(p)})
<1>1. Unread(p) \in Nat \ {0} /\ consumed[p] \in Nat /\ sent[p] \in Nat
  BY DEF Read, Unread, LoopInv, TypeOK
<1>2. /\ total_read_bytes \in Nat /\ total_read_bytes < PacketSize
      /\ Chunk \in Nat \ {0} /\ total_read_bytes + Chunk <= PacketSize
  BY DEF Read, Reading, LoopInv, TypeOK, Scans, Chunk
<1>3. n \in {Chunk, Unread(p)} /\ n <= Chunk /\ n <= Unread(p)
  BY <1>1, <1>2, LowestIn
<1>4. /\ buffer' = [k \in 1 .. PacketSize |->
                      IF k - total_read_bytes \in 1 .. n
                        THEN <<p, consumed[p] + k - total_read_bytes>>
                        ELSE buffer[k]]
      /\ consumed' = [consumed EXCEPT ![p] = @ + n]
      /\ total_read_bytes' = total_read_bytes + n
      /\ main_pc' = IF PacketSize - total_read_bytes' # 0
                      THEN "read" ELSE "deliver"
  BY DEF Read
<1>5. PICK m \in Nat : m = n
  BY <1>1, <1>2, <1>3
<1> HIDE DEF n
<1>6. m \in 1 .. PacketSize /\ total_read_bytes + m <= PacketSize
  BY <1>2, <1>3, <1>1, <1>5
<1>7. consumed[p] + m <= sent[p]
  BY <1>1, <1>3, <1>5 DEF Unread
<1>8. main_pc' = IF total_read_bytes + m # PacketSize
                   THEN "read" ELSE "deliver"
  BY <1>4, <1>5, <1>2
<1> QED
  BY <1>4, <1>5, <1>6, <1>7, <1>8

-----------------------------------------------------------------------------
(* Each part of the invariant after a step.                                *)

(* A read stays within the buffer, and only whole packets are counted. *)
LEMMA TypesKept ==
  ASSUME LoopInv, [Next]_vars
  PROVE  TypeOK'
<1> USE DEF LoopInv, TypeOK, loop, kernel
<1>1. CASE Start
  BY <1>1 DEF Start, Exit
<1>2. CASE Select
  BY <1>2 DEF Select, Exit
<1>3. CASE ScanDone
  BY <1>3 DEF ScanDone
<1>4. CASE Accept
  <2>1. Head(backlog) \in Peers /\ Tail(backlog) \in Seq(Peers)
    BY <1>4 DEF Accept
  <2>2. /\ read_fd_set' = read_fd_set \ {socketfd}
        /\ UNCHANGED <<connectionfd, buffer, total_read_bytes, delivered,
                       sent, consumed>>
    BY <1>4 DEF Accept
  <2>3. CASE Refuse(Head(backlog)) /\ backlog' = Tail(backlog)
               /\ UNCHANGED main_pc
    BY <2>1, <2>2, <2>3 DEF Refuse
  <2>4. CASE /\ NewSocket \in Sockets
             /\ Watch(Head(backlog)) /\ backlog' = Tail(backlog)
             /\ UNCHANGED main_pc
    <3>1. maxfd' \in Sockets \cup {socketfd}
      BY <2>4 DEF Watch
    <3> QED
      BY <2>1, <2>2, <2>4, <3>1 DEF Watch
  <2>5. CASE /\ main_pc' = "exited"
             /\ UNCHANGED <<active_fd_set, maxfd, files, backlog, peer>>
    BY <2>2, <2>5
  <2> QED
    BY <1>4, <2>3, <2>4, <2>5, AcceptCases
<1>5. ASSUME NEW fd \in Sockets, StartRead(fd)
      PROVE  TypeOK'
  BY <1>5 DEF StartRead
<1>6. ASSUME NEW p \in Peers, Read(p)
      PROVE  TypeOK'
  <2>1. PICK n \in 1 .. PacketSize :
           /\ total_read_bytes + n <= PacketSize
           /\ consumed[p] + n <= sent[p]
           /\ buffer' = [k \in 1 .. PacketSize |->
                           IF k - total_read_bytes \in 1 .. n
                             THEN <<p, consumed[p] + k - total_read_bytes>>
                             ELSE buffer[k]]
           /\ consumed' = [consumed EXCEPT ![p] = @ + n]
           /\ total_read_bytes' = total_read_bytes + n
           /\ main_pc' = IF total_read_bytes + n # PacketSize
                           THEN "read" ELSE "deliver"
    BY <1>6, ReadCases
  <2>2. /\ consumed[p] \in Nat /\ consumed[p] + n <= MaxBytes
        /\ total_read_bytes \in Nat
    BY <2>1
  <2>3. \A k \in 1 .. PacketSize :
          k - total_read_bytes \in 1 .. n =>
            consumed[p] + k - total_read_bytes \in 1 .. MaxBytes
    BY <2>2
  <2>4. buffer' \in [1 .. PacketSize ->
                       (Peers \X (1 .. MaxBytes)) \cup {Zero}]
    BY <2>1, <2>3
  <2>5. consumed' \in [Peers -> 0 .. MaxBytes]
    BY <2>1, <2>2
  <2>6. /\ main_pc' \in {"read", "deliver"}
        /\ total_read_bytes' \in 0 .. PacketSize
    BY <2>1, <2>2
  <2>7. UNCHANGED <<active_fd_set, read_fd_set, maxfd, connectionfd,
                    delivered, files, backlog, peer, sent>>
    BY <1>6 DEF Read
  <2> QED
    BY <2>4, <2>5, <2>6, <2>7
<1>7. ASSUME NEW p \in Peers, ReadFails(p)
      PROVE  TypeOK'
  BY <1>7 DEF ReadFails, Drop, CloseConnection, Reading
<1>8. ASSUME NEW p \in Peers, Deliver(p)
      PROVE  TypeOK'
  <2>1. ASSUME delivered' = [delivered EXCEPT ![p] = @ + 1]
        PROVE  delivered' \in [Peers -> 0 .. MaxBytes]
    <3>1. /\ connectionfd \in Open /\ files[connectionfd] = p
          /\ total_read_bytes = PacketSize /\ main_pc = "deliver"
      BY <1>8 DEF Deliver, Scans, InPacket
    <3>2. consumed[p] = PacketSize * delivered[p] + PacketSize
      BY <3>1 DEF InFrame, InPacket
    <3>3. PacketSize * delivered[p] + PacketSize <= MaxBytes
      BY <3>2
    <3>4. delivered[p] + 1 <= MaxBytes
      <4>1. PICK d \in Nat : d = delivered[p]
        OBVIOUS
      <4>2. PacketSize * d + PacketSize <= MaxBytes
        BY <3>3, <4>1
      <4>3. d <= PacketSize * d
        BY AtLeastOnce
      <4> QED
        BY <4>1, <4>2, <4>3
    <3> QED
      BY <2>1, <3>4
  <2> QED
    BY <1>8, <2>1 DEF Deliver, Exit
<1>9. ASSUME NEW p \in Peers, Connect(p)
      PROVE  TypeOK'
  <2>1. backlog' \in Seq(Peers)
    BY <1>9 DEF Connect
  <2>2. peer' = [peer EXCEPT ![p] = "open"]
    BY <1>9 DEF Connect
  <2> QED
    BY <1>9, <2>1, <2>2 DEF Connect
<1>10. ASSUME NEW p \in Peers, Send(p)
       PROVE  TypeOK'
  <2>1. PICK n \in sent[p] + 1 .. MaxBytes : sent' = [sent EXCEPT ![p] = n]
    BY <1>10 DEF Send
  <2>2. n \in 0 .. MaxBytes
    <3>1. sent[p] \in 0 .. MaxBytes
      OBVIOUS
    <3> QED
      BY <3>1
  <2>3. sent' \in [Peers -> 0 .. MaxBytes]
    BY <2>1, <2>2
  <2> QED
    BY <1>10, <2>3 DEF Send
<1>11. ASSUME NEW p \in Peers, Finish(p) \/ Reset(p)
       PROVE  TypeOK'
  BY <1>11 DEF Finish, Reset
<1>12. CASE UNCHANGED vars
  BY <1>12 DEF vars
<1> QED
  BY <1>1, <1>2, <1>3, <1>4, <1>5, <1>6, <1>7, <1>8, <1>9, <1>10, <1>11,
     <1>12 DEF Next, Environment, Server

(* Only an open socket below maxfd and FD_SETSIZE is watched after a step. *)
LEMMA FdSetsKept ==
  ASSUME LoopInv, [Next]_vars
  PROVE  FdSetsMatch'
<1> USE DEF FdSetsMatch
<1>0. FdSetsMatch /\ TypeOK /\ active_fd_set \in SUBSET Nat
  BY SocketNumbers DEF LoopInv, TypeOK
<1>1. CASE Start
  <2>1. active_fd_set = {} /\ Open' = Open
    BY <1>1 DEF Start, LoopInv, Scans, Open, kernel
  <2>2. /\ maxfd' \in Nat /\ socketfd <= maxfd' /\ socketfd < FD_SETSIZE
        /\ socketfd \in Nat
    BY <1>0, <1>1 DEF Start, TypeOK, Sockets, socketfd
  <2>3. CASE main_pc' = "select" /\ active_fd_set' = {socketfd}
    BY <1>0, <2>1, <2>2, <2>3
  <2>4. CASE main_pc' = "exited" /\ UNCHANGED active_fd_set
    BY <1>0, <2>1, <2>4
  <2> QED
    BY <1>1, <2>3, <2>4 DEF Start, Exit
<1>2. CASE Select
  <2>1. \/ main_pc' = "scan" /\ read_fd_set' \subseteq active_fd_set
        \/ main_pc' = "exited"
    BY <1>2 DEF Select, Exit
  <2>2. main_pc = "select" /\ UNCHANGED <<active_fd_set, maxfd, files>>
    BY <1>2 DEF Select, loop, kernel
  <2> QED
    BY <1>0, <2>1, <2>2 DEF Open
<1>3. CASE ScanDone
  BY <1>0, <1>3 DEF ScanDone, loop, kernel, Open
<1>4. CASE Accept
  <2>1. CASE /\ main_pc' = main_pc /\ main_pc = "scan"
             /\ NewSocket \in Sockets \ Open
             /\ NewSocket < FD_SETSIZE
             /\ Watch(Head(backlog))
    <3>1. Head(backlog) \in Peers
      BY <1>0, <1>4 DEF Accept, TypeOK
    <3>2. Open' = Open \cup {NewSocket}
      BY <1>0, <2>1, <3>1 DEF Watch, Open, TypeOK
    <3>3. NewSocket \in Nat /\ NewSocket # socketfd /\ maxfd \in Nat
      BY <1>0, <2>1, SocketNumbers DEF TypeOK
    <3>4. active_fd_set' = active_fd_set \cup {NewSocket}
      BY <2>1 DEF Watch
    <3>5. \A fd \in active_fd_set' : fd <= maxfd' /\ fd < FD_SETSIZE
      <4>1. PICK new \in Nat : new = NewSocket
        BY <3>3
      <4>2. maxfd' = IF new > maxfd THEN new ELSE maxfd
        BY <2>1, <4>1 DEF Watch
      <4>3. maxfd <= maxfd' /\ new <= maxfd' /\ maxfd' \in Nat
        BY <4>2, <3>3
      <4> QED
        BY <1>0, <3>3, <3>4, <4>1, <4>3, <2>1
    <3>6. read_fd_set' \subseteq active_fd_set'
      BY <1>0, <1>4, <2>1, <3>4 DEF Accept
    <3> QED
      BY <1>0, <2>1, <3>2, <3>3, <3>4, <3>5, <3>6
  <2>2. CASE \/ main_pc' = main_pc /\ Refuse(Head(backlog))
             \/ /\ main_pc' = "exited"
                /\ UNCHANGED <<active_fd_set, maxfd, files, backlog, peer>>
    BY <1>0, <1>4, <2>2 DEF Accept, Refuse, Open
  <2> QED
    BY <1>0, <1>4, <2>1, <2>2, AcceptCases
<1>5. ASSUME NEW fd \in Sockets, StartRead(fd)
      PROVE  FdSetsMatch'
  BY <1>0, <1>5 DEF StartRead, Scanning, kernel, Open
<1>6. ASSUME NEW p \in Peers, Read(p) \/ Deliver(p)
      PROVE  FdSetsMatch'
  BY <1>0, <1>6
     DEF Read, Reading, Deliver, Exit, kernel, Open, LoopInv, Scans, InPacket
<1>7. ASSUME NEW p \in Peers, ReadFails(p)
      PROVE  FdSetsMatch'
  <2>1. connectionfd \in Open \ read_fd_set /\ main_pc = "read"
    BY <1>7 DEF LoopInv, Scans, InPacket, ReadFails, Reading
  <2>2. Open' = Open \ {connectionfd}
    BY <1>0, <1>7, <2>1
       DEF ReadFails, Drop, CloseConnection, Open, TypeOK
  <2>3. read_fd_set \subseteq active_fd_set
    BY <2>1 DEF LoopInv, Scans, InPacket
  <2>4. active_fd_set' = active_fd_set \ {connectionfd}
    BY <1>7 DEF ReadFails, Drop
  <2>5. main_pc' = "scan" /\ UNCHANGED <<read_fd_set, maxfd>>
    BY <1>7 DEF ReadFails
  <2>6. connectionfd # socketfd
    BY <2>1, SocketNumbers DEF Open
  <2> QED
    BY <1>0, <2>1, <2>2, <2>3, <2>4, <2>5, <2>6
<1>8. ASSUME NEW p \in Peers,
             Connect(p) \/ Send(p) \/ Finish(p) \/ Reset(p)
      PROVE  FdSetsMatch'
  BY <1>0, <1>8 DEF Connect, Send, Finish, Reset, loop, Open
<1>9. CASE UNCHANGED vars
  BY <1>0, <1>9 DEF vars, Open
<1> QED
  BY <1>1, <1>2, <1>3, <1>4, <1>5, <1>6, <1>7, <1>8, <1>9
     DEF Next, Environment, Server

(* Bytes are read after they are sent, and counted after they are read. *)
LEMMA ReadInOrderKept ==
  ASSUME LoopInv, [Next]_vars
  PROVE  ReadInOrder'
<1> USE DEF ReadInOrder
<1>0. /\ ReadInOrder /\ PacketSize \in Nat \ {0}
      /\ delivered \in [Peers -> Nat] /\ sent \in [Peers -> Nat]
      /\ consumed \in [Peers -> Nat]
  BY DEF LoopInv, TypeOK
<1>1. ASSUME NEW p \in Peers, Read(p)
      PROVE  ReadInOrder'
  <2>1. PICK n \in 1 .. PacketSize :
          /\ consumed[p] + n <= sent[p]
          /\ consumed' = [consumed EXCEPT ![p] = @ + n]
    BY <1>1, ReadCases
  <2>2. UNCHANGED <<delivered, sent>>
    BY <1>1 DEF Read
  <2>3. SUFFICES ASSUME NEW q \in Peers
                 PROVE  /\ PacketSize * delivered[q] <= consumed'[q]
                        /\ consumed'[q] <= sent[q]
    BY <2>2
  <2>4. PICK d \in Int : d = PacketSize * delivered[q]
    BY <1>0
  <2>5. d <= consumed[q] /\ consumed[q] <= sent[q]
    BY <1>0, <2>4
  <2>6. d <= consumed'[q] /\ consumed'[q] <= sent[q]
    BY <1>0, <2>1, <2>5
  <2> QED
    BY <2>4, <2>6
<1>2. ASSUME NEW p \in Peers, Deliver(p)
      PROVE  ReadInOrder'
  <2>1. /\ connectionfd \in Open /\ files[connectionfd] = p
        /\ total_read_bytes = PacketSize /\ main_pc = "deliver"
    BY <1>2 DEF Deliver, LoopInv, Scans, InPacket
  <2>2. consumed[p] = PacketSize * delivered[p] + PacketSize
    BY <2>1 DEF LoopInv, InFrame, InPacket
  <2>3. PacketSize * (delivered[p] + 1)
          = PacketSize * delivered[p] + PacketSize
    BY <1>0
  <2>4. CASE delivered' = [delivered EXCEPT ![p] = @ + 1]
    <3> SUFFICES ASSUME NEW q \in Peers
                 PROVE  PacketSize * delivered'[q] <= consumed[q]
      BY <1>0, <1>2 DEF Deliver, kernel
    <3>1. CASE q = p
      <4>1. delivered'[q] = delivered[p] + 1
        BY <1>0, <2>4, <3>1
      <4> QED
        BY <1>0, <2>2, <2>3, <3>1, <4>1
    <3>2. CASE q # p
      BY <1>0, <2>4, <3>2
    <3> QED
      BY <3>1, <3>2
  <2> QED
    BY <1>0, <1>2, <2>4 DEF Deliver, kernel
<1>3. ASSUME NEW p \in Peers, Send(p)
      PROVE  ReadInOrder'
  <2>1. /\ \A q \in Peers : sent[q] <= sent'[q] /\ sent'[q] \in Nat
        /\ UNCHANGED <<consumed, delivered>>
    BY <1>0, <1>3 DEF Send, loop
  <2> QED
    BY <1>0, <2>1
<1>4. CASE UNCHANGED <<consumed, delivered, sent>>
  BY <1>0, <1>4
<1> QED
  BY <1>1, <1>2, <1>3, <1>4
     DEF Next, Environment, Server, Start, Select, ScanDone, Accept,
         StartRead, ReadFails, Connect, Finish, Reset, loop, kernel, vars

(* Accepting moves the first peer that waits to a connection of its own,   *)
(* and a peer that connects begins to wait: nobody is in two places.       *)
LEMMA OnePlaceKept ==
  ASSUME LoopInv, [Next]_vars
  PROVE  OnePlace'
<1> USE DEF OnePlace, Waiting
<1>0. /\ OnePlace /\ backlog \in Seq(Peers)
      /\ files \in [Sockets -> Peers \cup {Nobody}]
      /\ peer \in [Peers -> {"away", "open", "finished", "reset", "dropped"}]
  BY DEF LoopInv, TypeOK
<1>1. CASE Accept
  <2>1. /\ Len(backlog) \in Nat \ {0} /\ Head(backlog) = backlog[1]
        /\ Tail(backlog) \in Seq(Peers)
        /\ Len(Tail(backlog)) = Len(backlog) - 1
        /\ \A i \in 1 .. Len(backlog) - 1 : Tail(backlog)[i] = backlog[i + 1]
        /\ Head(backlog) \in Peers
    BY <1>0, <1>1 DEF Accept
  <2>2. ASSUME backlog' = Tail(backlog)
        PROVE  /\ \A i \in Waiting' : i + 1 \in Waiting
                                      /\ backlog'[i] = backlog[i + 1]
               /\ \A i \in Waiting' : backlog'[i] # Head(backlog)
               /\ \A i, j \in Waiting' : backlog'[i] = backlog'[j] => i = j
    <3>1. \A i \in Waiting' : i \in Nat \ {0} /\ i + 1 \in Waiting
                              /\ backlog'[i] = backlog[i + 1]
      BY <2>1, <2>2
    <3>2. \A i \in Waiting' : 1 \in Waiting /\ i + 1 # 1
      BY <2>1, <3>1
    <3>3. \A i \in Waiting' : backlog'[i] # Head(backlog)
      BY <1>0, <2>1, <3>1, <3>2
    <3>4. \A i, j \in Waiting' : backlog'[i] = backlog'[j] => i + 1 = j + 1
      BY <1>0, <3>1
    <3> QED
      BY <3>1, <3>3, <3>4
  <2>3. CASE Refuse(Head(backlog)) /\ backlog' = Tail(backlog)
    <3>1. /\ UNCHANGED files /\ Open' = Open
          /\ \A p \in Peers : peer[p] # "away" => peer'[p] # "away"
      BY <1>0, <2>3 DEF Refuse, Open
    <3>2. \A fd \in Open : files[fd] \in Peers
      BY <1>0 DEF Open
    <3> QED
      BY <1>0, <2>1, <2>2, <2>3, <3>1, <3>2
  <2>4. CASE /\ NewSocket \in Sockets \ Open /\ backlog' = Tail(backlog)
             /\ Watch(Head(backlog))
    <3>1. /\ Open' = Open \cup {NewSocket} /\ UNCHANGED peer
          /\ files'[NewSocket] = backlog[1]
          /\ \A fd \in Open : files'[fd] = files[fd] /\ fd # NewSocket
      BY <1>0, <2>1, <2>4 DEF Watch, Open
    <3>2. 1 \in Waiting
      BY <2>1
    <3> QED
      BY <1>0, <2>1, <2>2, <2>4, <3>1, <3>2
  <2>5. CASE UNCHANGED <<files, backlog, peer>>
    BY <1>0, <2>5 DEF Open
  <2> QED
    BY <1>1, <2>3, <2>4, <2>5, AcceptCases DEF LoopInv
<1>2. ASSUME NEW p \in Peers, Connect(p)
      PROVE  OnePlace'
  <2>1. /\ backlog' = Append(backlog, p) /\ peer[p] = "away"
        /\ peer' = [peer EXCEPT ![p] = "open"] /\ UNCHANGED files
    BY <1>2 DEF Connect
  <2>2. /\ Len(backlog) \in Nat /\ Len(backlog') = Len(backlog) + 1
        /\ backlog'[Len(backlog) + 1] = p
        /\ \A i \in Waiting : backlog'[i] = backlog[i] /\ backlog[i] \in Peers
    BY <1>0, <2>1
  <2>3. Waiting' = Waiting \cup {Len(backlog) + 1}
    BY <2>2
  <2>4. \A i \in Waiting : backlog[i] # p
    BY <1>0, <2>1
  <2>5. \A fd \in Open : files[fd] # p /\ files[fd] \in Peers
    BY <1>0, <2>1 DEF Open
  <2>6. Open' = Open
    BY <2>1 DEF Open
  <2>7. \A i, j \in Waiting' : backlog'[i] = backlog'[j] => i = j
    BY <1>0, <2>2, <2>3, <2>4
  <2>8. \A fd \in Open, i \in Waiting' : files[fd] # backlog'[i]
    BY <1>0, <2>2, <2>3, <2>5
  <2>9. \A q \in Peers : peer[q] # "away" \/ q = p => peer'[q] # "away"
    BY <1>0, <2>1
  <2> QED
    BY <1>0, <2>1, <2>2, <2>3, <2>5, <2>6, <2>7, <2>8, <2>9
<1>3. ASSUME NEW p \in Peers, ReadFails(p)
      PROVE  OnePlace'
  <2>1. /\ connectionfd \in Open
        /\ files' = [files EXCEPT ![connectionfd] = Nobody]
        /\ UNCHANGED backlog
    BY <1>3 DEF ReadFails, Reading, Drop, CloseConnection, LoopInv, Scans,
                InPacket
  <2>2. \A q \in Peers : peer[q] # "away" => peer'[q] # "away"
    BY <1>0, <1>3 DEF ReadFails, Drop, CloseConnection
  <2>3. \A fd \in Open' : fd \in Open /\ files'[fd] = files[fd]
                          /\ files[fd] \in Peers
    BY <1>0, <2>1 DEF Open
  <2> QED
    BY <1>0, <2>1, <2>2, <2>3
<1>4. ASSUME NEW p \in Peers, Finish(p) \/ Reset(p)
      PROVE  OnePlace'
  <2>1. /\ UNCHANGED <<files, backlog>>
        /\ \A q \in Peers : peer[q] # "away" => peer'[q] # "away"
    BY <1>0, <1>4 DEF Finish, Reset
  <2>2. \A fd \in Open : files[fd] \in Peers
    BY <1>0 DEF Open
  <2> QED
    BY <1>0, <2>1, <2>2 DEF Open
<1>5. CASE UNCHANGED <<files, backlog, peer>>
  BY <1>0, <1>5 DEF Open
<1> QED
  BY <1>1, <1>2, <1>3, <1>4, <1>5
     DEF Next, Environment, Server, Start, Select, ScanDone, StartRead, Read,
         Deliver, Send, kernel, vars

(* Only the peer of the connection that is being read loses bytes or gains *)
(* packets, and that peer is neither away nor waiting.                     *)
LEMMA NothingReadKept ==
  ASSUME LoopInv, [Next]_vars
  PROVE  NothingRead'
<1> USE DEF NothingRead, Waiting
<1>0. /\ NothingRead /\ backlog \in Seq(Peers)
      /\ peer \in [Peers -> {"away", "open", "finished", "reset", "dropped"}]
      /\ delivered \in [Peers -> 0 .. MaxBytes]
      /\ consumed \in [Peers -> 0 .. MaxBytes]
  BY DEF LoopInv, TypeOK
<1>1. CASE Accept
  <2>1. UNCHANGED <<consumed, delivered>>
    BY <1>1 DEF Accept
  <2>2. \A p \in Peers : peer'[p] = "away" => peer[p] = "away"
    BY <1>0, <1>1, AcceptCases DEF LoopInv, Watch, Refuse
  <2>3. CASE backlog' = Tail(backlog)
    <3>1. \A i \in Waiting' : i + 1 \in Waiting /\ backlog'[i] = backlog[i + 1]
      BY <1>0, <1>1, <2>3 DEF Accept
    <3>2. \A i \in Waiting' : /\ consumed'[backlog'[i]] = 0
                              /\ delivered'[backlog'[i]] = 0
      BY <1>0, <2>1, <3>1
    <3> QED
      BY <1>0, <2>1, <2>2, <3>2
  <2>4. CASE UNCHANGED backlog
    BY <1>0, <2>1, <2>2, <2>4
  <2> QED
    BY <1>1, <2>3, <2>4, AcceptCases DEF LoopInv
<1>2. ASSUME NEW p \in Peers, Connect(p)
      PROVE  NothingRead'
  <2>1. /\ backlog' = Append(backlog, p) /\ peer[p] = "away"
        /\ peer' = [peer EXCEPT ![p] = "open"]
        /\ UNCHANGED <<consumed, delivered>>
    BY <1>2 DEF Connect, loop
  <2>2. \A i \in Waiting' :
          \/ backlog'[i] = p
          \/ i \in Waiting /\ backlog'[i] = backlog[i]
    BY <1>0, <2>1
  <2>3. \A q \in Peers : peer'[q] = "away" => peer[q] = "away"
    BY <1>0, <2>1
  <2> QED
    BY <1>0, <2>1, <2>2, <2>3
<1>3. ASSUME NEW p \in Peers, Read(p) \/ Deliver(p)
      PROVE  NothingRead'
  <2>1. connectionfd \in Open /\ p = files[connectionfd]
    BY <1>3 DEF Read, Reading, Deliver, LoopInv, Scans, InPacket
  <2>2. /\ peer[p] # "away"
        /\ \A i \in Waiting : backlog[i] # p /\ backlog[i] \in Peers
    BY <1>0, <2>1 DEF LoopInv, OnePlace
  <2>3. \A q \in Peers : q # p => /\ consumed'[q] = consumed[q]
                                  /\ delivered'[q] = delivered[q]
    <3>1. CASE Read(p)
      BY <1>0, <3>1 DEF Read
    <3>2. CASE Deliver(p)
      BY <1>0, <3>2 DEF Deliver, kernel
    <3> QED
      BY <1>3, <3>1, <3>2
  <2>4. UNCHANGED <<backlog, peer>>
    BY <1>3 DEF Read, Deliver, kernel
  <2> QED
    BY <1>0, <2>2, <2>3, <2>4
<1>4. ASSUME NEW p \in Peers, ReadFails(p) \/ Finish(p) \/ Reset(p)
      PROVE  NothingRead'
  <2>1. UNCHANGED <<backlog, consumed, delivered>>
    BY <1>4 DEF ReadFails, Finish, Reset, loop
  <2>2. \A q \in Peers : peer'[q] = "away" => peer[q] = "away"
    BY <1>0, <1>4 DEF ReadFails, Drop, CloseConnection, Finish, Reset
  <2> QED
    BY <1>0, <2>1, <2>2
<1>5. CASE UNCHANGED <<backlog, peer, consumed, delivered>>
  BY <1>0, <1>5
<1> QED
  BY <1>1, <1>2, <1>3, <1>4, <1>5
     DEF Next, Environment, Server, Start, Select, ScanDone, StartRead, Send,
         loop, kernel, vars

(* A packet begins where the one before it ends: a connection starts at    *)
(* the beginning of a packet, and only a whole packet is counted.          *)
LEMMA InFrameKept ==
  ASSUME LoopInv, [Next]_vars, main_pc' # "exited"
  PROVE  InFrame'
<1> USE DEF InFrame, InPacket
<1>0. /\ PacketSize \in Nat \ {0} /\ total_read_bytes \in Nat
      /\ files \in [Sockets -> Peers \cup {Nobody}]
      /\ delivered \in [Peers -> Nat] /\ consumed \in [Peers -> Nat]
      /\ \A fd \in Open : files[fd] \in Peers
  BY DEF LoopInv, TypeOK, Open
<1>1. main_pc # "exited"
  BY DEF Next, Environment, Server, Start, Select, ScanDone, Accept, StartRead,
         Scanning, Read, ReadFails, Reading, Deliver, Connect, Send, Finish,
         Reset, vars
<1>2. InFrame
  BY DEF LoopInv
<1>3. CASE Accept
  <2>1. /\ main_pc = "scan" /\ main_pc' = "scan"
        /\ UNCHANGED <<consumed, delivered>>
    BY <1>3, AcceptCases DEF Accept, LoopInv
  <2>2. CASE UNCHANGED files
    BY <1>1, <1>2, <2>1, <2>2 DEF Open
  <2>3. CASE NewSocket \in Sockets \ Open /\ Watch(Head(backlog))
    <3>1. /\ Head(backlog) = backlog[1] /\ 1 \in Waiting
          /\ backlog[1] \in Peers
      BY <1>3 DEF Accept, LoopInv, TypeOK, Waiting
    <3>2. consumed[backlog[1]] = 0 /\ delivered[backlog[1]] = 0
      BY <3>1 DEF LoopInv, NothingRead
    <3>3. \A fd \in Open' : \/ files'[fd] = backlog[1]
                            \/ fd \in Open /\ files'[fd] = files[fd]
      BY <1>0, <2>3, <3>1 DEF Watch, Open
    <3>4. 0 = PacketSize * 0 + 0
      OBVIOUS
    <3> QED
      BY <1>1, <1>2, <2>1, <3>2, <3>3, <3>4
  <2> QED
    BY <1>3, <2>2, <2>3, AcceptCases DEF LoopInv, Refuse
<1>4. ASSUME NEW fd \in Sockets, StartRead(fd)
      PROVE  InFrame'
  <2>1. /\ main_pc = "scan" /\ total_read_bytes' = 0
        /\ UNCHANGED <<files, consumed, delivered>>
    BY <1>4 DEF StartRead, Scanning, kernel
  <2> QED
    BY <1>0, <1>1, <1>2, <2>1 DEF Open
<1>5. ASSUME NEW p \in Peers, Read(p)
      PROVE  InFrame'
  <2>1. PICK n \in 1 .. PacketSize :
          /\ consumed' = [consumed EXCEPT ![p] = @ + n]
          /\ total_read_bytes' = total_read_bytes + n
          /\ main_pc' \in {"read", "deliver"}
    BY <1>5, ReadCases
  <2>2. /\ main_pc = "read" /\ connectionfd \in Open
        /\ p = files[connectionfd]
        /\ UNCHANGED <<files, delivered, connectionfd>>
    BY <1>5 DEF Read, Reading, LoopInv, Scans
  <2>3. SUFFICES ASSUME NEW fd \in Open
                 PROVE  consumed'[files[fd]] =
                          PacketSize * delivered[files[fd]]
                            + (IF fd = connectionfd
                                 THEN total_read_bytes + n ELSE 0)
    BY <2>1, <2>2 DEF Open
  <2>4. PICK d \in Int : d = PacketSize * delivered[files[fd]]
    BY <1>0
  <2>5. consumed[files[fd]] =
          d + (IF fd = connectionfd THEN total_read_bytes ELSE 0)
    BY <1>1, <1>2, <2>2, <2>4
  <2>6. CASE fd = connectionfd
    BY <1>0, <2>1, <2>2, <2>4, <2>5, <2>6
  <2>7. CASE fd # connectionfd
    <3>1. files[fd] # p
      BY <2>2, <2>7 DEF LoopInv, OnePlace
    <3> QED
      BY <1>0, <2>1, <2>4, <2>5, <2>7, <3>1
  <2> QED
    BY <2>6, <2>7
<1>6. ASSUME NEW p \in Peers, ReadFails(p)
      PROVE  InFrame'
  <2>1. /\ main_pc' = "scan" /\ connectionfd \in Open
        /\ files' = [files EXCEPT ![connectionfd] = Nobody]
        /\ UNCHANGED <<consumed, delivered>>
    BY <1>6 DEF ReadFails, Reading, Drop, CloseConnection, LoopInv, Scans
  <2>2. \A fd \in Open' : /\ fd \in Open /\ fd # connectionfd
                          /\ files'[fd] = files[fd]
    BY <1>0, <2>1 DEF Open
  <2> QED
    BY <1>1, <1>2, <2>1, <2>2
<1>7. ASSUME NEW p \in Peers, Deliver(p)
      PROVE  InFrame'
  <2>1. /\ main_pc = "deliver" /\ main_pc' = "scan"
        /\ connectionfd \in Open /\ p = files[connectionfd]
        /\ total_read_bytes = PacketSize
        /\ delivered' = [delivered EXCEPT ![p] = @ + 1]
        /\ UNCHANGED <<files, consumed>>
    BY <1>7 DEF Deliver, Exit, LoopInv, Scans, kernel
  <2>2. SUFFICES ASSUME NEW fd \in Open
                 PROVE  consumed[files[fd]] =
                          PacketSize * delivered'[files[fd]] + 0
    BY <2>1 DEF Open
  <2>3. consumed[files[fd]] =
          PacketSize * delivered[files[fd]]
            + (IF fd = connectionfd THEN PacketSize ELSE 0)
    BY <1>1, <1>2, <2>1
  <2>4. CASE fd = connectionfd
    <3>1. delivered'[p] = delivered[p] + 1
      BY <1>0, <2>1
    <3>2. PacketSize * (delivered[p] + 1)
            = PacketSize * delivered[p] + PacketSize
      BY <1>0
    <3> QED
      BY <1>0, <2>1, <2>3, <2>4, <3>1, <3>2
  <2>5. CASE fd # connectionfd
    <3>1. files[fd] # p
      BY <2>1, <2>5 DEF LoopInv, OnePlace
    <3> QED
      BY <1>0, <2>1, <2>3, <2>5, <3>1
  <2> QED
    BY <2>4, <2>5
<1>8. CASE /\ UNCHANGED <<files, consumed, delivered, connectionfd,
                          total_read_bytes>>
           /\ (main_pc \in {"read", "deliver"}) =
                (main_pc' \in {"read", "deliver"})
  BY <1>1, <1>2, <1>8 DEF Open
<1> QED
  BY <1>3, <1>4, <1>5, <1>6, <1>7, <1>8
     DEF Next, Environment, Server, Start, Select, Exit, ScanDone, Connect,
         Send, Finish, Reset, loop, kernel, vars

(* A socket stays readable until it is accepted from, read or closed:      *)
(* what was sent, a closed end and a peer that waits do not go away.       *)
LEMMA ReadableStays ==
  ASSUME LoopInv, [Next]_vars, NEW fd \in Open \cup {socketfd}, Readable(fd),
         Accept => fd # socketfd,
         \A p \in Peers : Read(p) \/ ReadFails(p) => fd # connectionfd
  PROVE  Readable(fd)'
<1> USE DEF Readable, Unread
<1>0. /\ files \in [Sockets -> Peers \cup {Nobody}]
      /\ sent \in [Peers -> Nat] /\ consumed \in [Peers -> Nat]
      /\ backlog \in Seq(Peers)
      /\ peer \in [Peers -> {"away", "open", "finished", "reset", "dropped"}]
  BY DEF LoopInv, TypeOK
<1>1. CASE fd = socketfd
  <2>1. ASSUME NEW p \in Peers
        PROVE  Append(backlog, p) # << >>
    BY <1>0, AppendProperties
  <2>2. ~Accept /\ backlog # << >>
    BY <1>1
  <2> QED
    BY <1>1, <2>1, <2>2
       DEF Next, Environment, Server, Start, Select, ScanDone, StartRead,
           Read, ReadFails, Deliver, Connect, Send, Finish, Reset, kernel,
           vars
<1>2. CASE fd \in Open
  <2>1. /\ fd # socketfd /\ fd \in Sockets /\ files[fd] \in Peers
        /\ peer[files[fd]] # "away"
    BY <1>0, <1>2, SocketNumbers DEF Open, LoopInv, OnePlace
  <2>2. SUFFICES /\ files'[fd] = files[fd]
                 /\ sent[files[fd]] <= sent'[files[fd]]
                 /\ consumed'[files[fd]] = consumed[files[fd]]
                 /\ sent'[files[fd]] \in Nat
                 /\ peer[files[fd]] # "open" => peer'[files[fd]] # "open"
    BY <1>0, <2>1
  <2>3. CASE Accept
    BY <1>0, <1>2, <2>1, <2>3, AcceptCases
       DEF Accept, LoopInv, Watch, Refuse
  <2>4. ASSUME NEW p \in Peers, Read(p)
        PROVE  /\ UNCHANGED <<files, sent, peer>>
               /\ consumed'[files[fd]] = consumed[files[fd]]
    <3>1. PICK n \in 1 .. PacketSize :
            consumed' = [consumed EXCEPT ![p] = @ + n]
      BY <2>4, ReadCases
    <3>2. connectionfd \in Open /\ p = files[connectionfd]
      BY <2>4 DEF Read, Reading, LoopInv, Scans, InPacket
    <3>3. files[fd] # p
      BY <1>2, <2>4, <3>2 DEF LoopInv, OnePlace
    <3> QED
      BY <1>0, <2>1, <2>4, <3>1, <3>3 DEF Read
  <2>5. ASSUME NEW p \in Peers, ReadFails(p)
        PROVE  /\ UNCHANGED <<sent, consumed>>
               /\ files'[fd] = files[fd]
               /\ peer'[files[fd]] = peer[files[fd]]
    <3>1. connectionfd \in Open
      BY <2>5 DEF ReadFails, Reading, LoopInv, Scans, InPacket
    <3>2. fd # connectionfd /\ files[fd] # files[connectionfd]
      BY <1>2, <2>5, <3>1 DEF LoopInv, OnePlace
    <3> QED
      BY <1>0, <2>1, <2>5, <3>1, <3>2
         DEF ReadFails, Drop, CloseConnection, Open
  <2>6. ASSUME NEW p \in Peers, Connect(p)
        PROVE  /\ UNCHANGED <<files, sent, consumed>>
               /\ peer'[files[fd]] = peer[files[fd]]
    BY <1>0, <2>1, <2>6 DEF Connect
  <2>7. ASSUME NEW p \in Peers, Send(p)
        PROVE  /\ UNCHANGED <<files, consumed, peer>>
               /\ sent[files[fd]] <= sent'[files[fd]]
               /\ sent'[files[fd]] \in Nat
    BY <1>0, <2>1, <2>7 DEF Send, LoopInv, TypeOK
  <2>8. ASSUME NEW p \in Peers, Finish(p) \/ Reset(p)
        PROVE  /\ UNCHANGED <<files, sent, consumed>>
               /\ peer[files[fd]] # "open" => peer'[files[fd]] # "open"
    BY <1>0, <2>1, <2>8 DEF Finish, Reset
  <2>9. CASE UNCHANGED <<files, sent, consumed, peer>>
    BY <1>0, <2>1, <2>9
  <2> QED
    BY <1>0, <2>1, <2>3, <2>4, <2>5, <2>6, <2>7, <2>8, <2>9
       DEF Next, Environment, Server, Start, Select, ScanDone, StartRead,
           Deliver, kernel, vars
<1> QED
  BY <1>1, <1>2

(* What select reported stays true until the scan comes to it. *)
LEMMA ScansKept ==
  ASSUME LoopInv, [Next]_vars
  PROVE  Scans'
<1> USE DEF Scans, InPacket
<1>0. /\ Scans /\ total_read_bytes \in Nat
      /\ active_fd_set \ {socketfd} = Open
      /\ active_fd_set \subseteq Open \cup {socketfd}
      /\ read_fd_set \subseteq Sockets \cup {socketfd}
  BY DEF LoopInv, TypeOK, FdSetsMatch
<1>1. ASSUME main_pc = "scan" \/ InPacket, NEW fd \in read_fd_set,
             Accept => fd # socketfd
      PROVE  Readable(fd)'
  <2>1. \A p \in Peers : Read(p) \/ ReadFails(p) => fd # connectionfd
    BY <1>0, <1>1 DEF Read, ReadFails, Reading
  <2> QED
    BY <1>0, <1>1, <2>1, ReadableStays
<1>2. CASE Start \/ ScanDone
  BY <1>2 DEF Start, ScanDone, Exit
<1>3. CASE Select
  <2>1. /\ UNCHANGED <<active_fd_set, files, backlog, peer, sent, consumed>>
        /\ \/ main_pc' = "exited"
           \/ /\ main_pc' = "scan" /\ read_fd_set' \subseteq active_fd_set
              /\ \A fd \in read_fd_set' : Readable(fd)
    BY <1>3 DEF Select, Exit, loop, kernel
  <2>2. \A fd \in read_fd_set' : Readable(fd) => Readable(fd)'
    BY <2>1 DEF Readable, Unread
  <2> QED
    BY <2>1, <2>2
<1>4. CASE Accept
  <2>1. /\ main_pc = "scan" /\ read_fd_set' = read_fd_set \ {socketfd}
        /\ \/ main_pc' = "exited"
           \/ main_pc' = "scan" /\ active_fd_set \subseteq active_fd_set'
    BY <1>4, AcceptCases DEF Accept, Watch, Refuse, LoopInv
  <2>2. \A fd \in read_fd_set' : Readable(fd)'
    BY <1>1, <2>1
  <2> QED
    BY <1>0, <2>1, <2>2
<1>5. ASSUME NEW fd \in Sockets, StartRead(fd)
      PROVE  Scans'
  <2>1. fd \in read_fd_set
    BY <1>5, ScannedReported DEF StartRead, LoopInv
  <2>2. /\ main_pc = "scan" /\ main_pc' = "read" /\ fd # socketfd
        /\ read_fd_set' = read_fd_set \ {fd} /\ connectionfd' = fd
        /\ total_read_bytes' = 0
        /\ UNCHANGED <<active_fd_set, files>>
    BY <1>5 DEF StartRead, Scanning, kernel
  <2>3. fd \in Open /\ Open' = Open
    BY <1>0, <2>1, <2>2 DEF Open
  <2>4. ~Accept
    BY <2>2, AcceptCases DEF LoopInv
  <2>5. Readable(connectionfd)'
    <3>1. Readable(fd)'
      BY <1>1, <2>1, <2>2, <2>4
    <3> QED
      BY <2>2, <3>1 DEF Readable, Unread
  <2>6. \A gd \in read_fd_set' : Readable(gd)'
    BY <1>1, <2>2, <2>4
  <2>7. 0 < PacketSize
    OBVIOUS
  <2> QED
    BY <1>0, <2>2, <2>3, <2>5, <2>6, <2>7
<1>6. ASSUME NEW p \in Peers, Read(p)
      PROVE  Scans'
  <2>1. PICK n \in 1 .. PacketSize :
          /\ total_read_bytes + n <= PacketSize
          /\ total_read_bytes' = total_read_bytes + n
          /\ main_pc' = IF total_read_bytes + n # PacketSize
                          THEN "read" ELSE "deliver"
    BY <1>6, ReadCases
  <2>2. /\ main_pc = "read" /\ ~Accept
        /\ UNCHANGED <<active_fd_set, read_fd_set, connectionfd, files>>
    BY <1>6 DEF Read, Reading, Accept, Scanning
  <2>3. \A fd \in read_fd_set' : Readable(fd)'
    BY <1>1, <2>2
  <2>4. /\ total_read_bytes' # 0
        /\ main_pc' = "read" => total_read_bytes' < PacketSize
        /\ main_pc' = "deliver" => total_read_bytes' = PacketSize
        /\ main_pc' \in {"read", "deliver"}
    BY <1>0, <2>1
  <2>5. Open' = Open
    BY <2>2 DEF Open
  <2> QED
    BY <1>0, <2>2, <2>3, <2>4, <2>5
<1>7. ASSUME NEW p \in Peers, ReadFails(p) \/ Deliver(p)
      PROVE  Scans'
  <2>1. /\ InPacket /\ ~Accept
        /\ main_pc' \in {"scan", "exited"} /\ UNCHANGED read_fd_set
        /\ active_fd_set \ {connectionfd} \subseteq active_fd_set'
    BY <1>7 DEF ReadFails, Reading, Drop, Deliver, Exit, Accept, Scanning
  <2>2. \A fd \in read_fd_set' : Readable(fd)'
    BY <1>1, <2>1
  <2> QED
    BY <1>0, <2>1, <2>2
<1>8. ASSUME /\ UNCHANGED <<main_pc, active_fd_set, read_fd_set,
                            connectionfd, total_read_bytes, files>>
             /\ ~Accept
             /\ \A p \in Peers : ~Read(p) /\ ~ReadFails(p)
      PROVE  Scans'
  <2>1. main_pc = "scan" \/ InPacket => \A fd \in read_fd_set : Readable(fd)'
    BY <1>1, <1>8
  <2>2. main_pc = "read" /\ total_read_bytes = 0 => Readable(connectionfd)'
    <3>1. SUFFICES ASSUME main_pc = "read", total_read_bytes = 0
                   PROVE  Readable(connectionfd)'
      OBVIOUS
    <3>2. connectionfd \in Open /\ Readable(connectionfd)
      BY <1>0, <3>1
    <3>3. PICK fd \in Open : fd = connectionfd
      BY <3>2
    <3>4. fd # socketfd
      BY SocketNumbers DEF Open
    <3>5. Readable(fd)'
      BY <1>8, <3>2, <3>3, <3>4, ReadableStays
    <3> QED
      BY <1>8, <3>3, <3>5 DEF Readable, Unread
  <2>3. Open' = Open
    BY <1>8 DEF Open
  <2> QED
    BY <1>0, <1>8, <2>1, <2>2, <2>3
<1>9. ASSUME \/ \E p \in Peers :
                  Connect(p) \/ Send(p) \/ Finish(p) \/ Reset(p)
             \/ UNCHANGED vars,
             ~Accept, \A p \in Peers : ~Read(p) /\ ~ReadFails(p)
      PROVE  Scans'
  BY <1>8, <1>9 DEF Connect, Send, Finish, Reset, loop, vars
<1> QED
  BY <1>2, <1>3, <1>4, <1>5, <1>6, <1>7, <1>9 DEF Next, Environment, Server

(* A read appends the stream's next bytes to those of its packet. *)
LEMMA FilledKept ==
  ASSUME LoopInv, [Next]_vars
  PROVE  Filled'
<1> USE DEF Filled, InPacket
<1>0. /\ Filled /\ PacketSize \in Nat \ {0} /\ total_read_bytes \in Nat
      /\ buffer \in [1 .. PacketSize ->
                       (Peers \X (1 .. MaxBytes)) \cup {Zero}]
      /\ delivered \in [Peers -> Nat] /\ consumed \in [Peers -> Nat]
  BY DEF LoopInv, TypeOK
<1>1. ASSUME NEW p \in Peers, Read(p)
      PROVE  Filled'
  <2>1. PICK n \in 1 .. PacketSize :
          /\ total_read_bytes + n <= PacketSize
          /\ buffer' = [k \in 1 .. PacketSize |->
                          IF k - total_read_bytes \in 1 .. n
                            THEN <<p, consumed[p] + k - total_read_bytes>>
                            ELSE buffer[k]]
          /\ total_read_bytes' = total_read_bytes + n
    BY <1>1, ReadCases
  <2>2. /\ main_pc = "read" /\ p = files[connectionfd]
        /\ connectionfd \in Open
        /\ UNCHANGED <<files, delivered, connectionfd>>
    BY <1>1 DEF Read, Reading, LoopInv, Scans
  <2>3. PICK d \in Int : d = PacketSize * delivered[p]
    BY <1>0
  <2>4. consumed[p] = d + total_read_bytes
    BY <2>2, <2>3 DEF LoopInv, InFrame
  <2>5. \A k \in 1 .. total_read_bytes : buffer[k] = <<p, d + k>>
    BY <1>0, <2>2, <2>3
  <2>6. ASSUME NEW k \in 1 .. total_read_bytes + n
        PROVE  buffer'[k] = <<p, d + k>>
    <3>1. k \in 1 .. PacketSize
      BY <1>0, <2>1
    <3>2. CASE k - total_read_bytes \in 1 .. n
      <4>1. consumed[p] + k - total_read_bytes = d + k
        BY <1>0, <2>4, <3>1
      <4> QED
        BY <2>1, <3>1, <3>2, <4>1
    <3>3. CASE k - total_read_bytes \notin 1 .. n
      <4>1. k \in 1 .. total_read_bytes
        BY <1>0, <3>1, <3>3
      <4> QED
        BY <2>1, <2>5, <3>1, <3>3, <4>1
    <3> QED
      BY <3>2, <3>3
  <2> QED
    BY <2>1, <2>2, <2>3, <2>6
<1>2. ASSUME NEW fd \in Sockets, StartRead(fd)
      PROVE  Filled'
  BY <1>2 DEF StartRead
<1>3. CASE main_pc' \notin {"read", "deliver"}
  BY <1>3
<1>4. CASE UNCHANGED <<main_pc, files, connectionfd, buffer, delivered,
                       total_read_bytes>>
  BY <1>0, <1>4
<1> QED
  BY <1>1, <1>2, <1>3, <1>4
     DEF Next, Environment, Server, Start, Select, Exit, ScanDone, Accept,
         Scanning, ReadFails, Deliver, Connect, Send, Finish, Reset, loop,
         vars

-----------------------------------------------------------------------------
(* The theorems.                                                           *)

(* At first nobody is connected. *)
LEMMA LoopInit == Init => LoopInv
<1> SUFFICES ASSUME Init
             PROVE  LoopInv
  OBVIOUS
<1> USE DEF Init
<1>1. Open = {} /\ backlog = << >> /\ Waiting = {}
  BY DEF Open, Waiting
<1>2. TypeOK
  BY DEF TypeOK
<1>3. FdSetsMatch
  BY <1>1 DEF FdSetsMatch
<1>4. ReadInOrder
  BY DEF ReadInOrder
<1>5. OnePlace /\ NothingRead
  BY <1>1 DEF OnePlace, NothingRead
<1>6. InFrame /\ Scans /\ Filled
  BY <1>1 DEF InFrame, Scans, Filled, InPacket
<1> QED
  BY <1>2, <1>3, <1>4, <1>5, <1>6 DEF LoopInv

(* A step of a peer or of the loop keeps every part. *)
LEMMA LoopInvKept == LoopInv /\ [Next]_vars => LoopInv'
<1> SUFFICES ASSUME LoopInv, [Next]_vars
             PROVE  LoopInv'
  OBVIOUS
<1>1. InFrame'
  BY InFrameKept DEF InFrame
<1> QED
  BY <1>1, TypesKept, FdSetsKept, ReadInOrderKept, OnePlaceKept,
     NothingReadKept, ScansKept, FilledKept DEF LoopInv

(* What every state of the loop satisfies. *)
THEOREM LoopInvariant == Spec => []LoopInv
  BY LoopInit, LoopInvKept, PTL DEF Spec

(* Every variable of the loop and of the kernel keeps its type: no read    *)
(* goes past the end of the buffer, none takes more than was sent, and no  *)
(* file number leaves the process's limit.                                 *)
THEOREM LoopTyped == Spec => []TypeOK
<1>1. LoopInv => TypeOK
  BY DEF LoopInv
<1> QED
  BY <1>1, LoopInvariant, PTL

(* The set that select watches, maxfd and the table of open files agree at *)
(* every accept, refusal and close (main.c:112-140, 199-205).              *)
THEOREM WatchesOpenSockets == Spec => []FdSetsMatch
<1>1. LoopInv => FdSetsMatch
  BY DEF LoopInv
<1> QED
  BY <1>1, LoopInvariant, PTL

(* When a packet is handed over it is the next one of an open connection,  *)
(* all of it has been sent, and the buffer holds it and nothing else.      *)
LEMMA NextPacketWhole ==
  ASSUME LoopInv, main_pc = "deliver"
  PROVE  LET p == files[connectionfd]
         IN  /\ p \in Peers /\ delivered[p] \in Nat /\ sent[p] \in Nat
             /\ PacketSize * delivered[p] + PacketSize <= sent[p]
             /\ buffer = [k \in 1 .. PacketSize |->
                            <<p, PacketSize * delivered[p] + k>>]
<1>1. /\ connectionfd \in Open /\ total_read_bytes = PacketSize
      /\ PacketSize \in Nat
      /\ buffer \in [1 .. PacketSize ->
                       (Peers \X (1 .. MaxBytes)) \cup {Zero}]
  BY DEF LoopInv, TypeOK, Scans, InPacket
<1>2. files[connectionfd] \in Peers
  BY <1>1 DEF LoopInv, TypeOK, Open
<1>3. \A k \in 1 .. PacketSize :
        buffer[k] = <<files[connectionfd],
                      PacketSize * delivered[files[connectionfd]] + k>>
  BY <1>1 DEF LoopInv, Filled, InPacket
<1>4. consumed[files[connectionfd]] =
        PacketSize * delivered[files[connectionfd]] + PacketSize
  BY <1>1 DEF LoopInv, InFrame, InPacket
<1>5. consumed[files[connectionfd]] <= sent[files[connectionfd]]
  BY <1>2 DEF LoopInv, ReadInOrder
<1>6. /\ delivered[files[connectionfd]] \in Nat
      /\ sent[files[connectionfd]] \in Nat
  BY <1>2 DEF LoopInv, TypeOK
<1>7. buffer = [k \in 1 .. PacketSize |->
                  <<files[connectionfd],
                    PacketSize * delivered[files[connectionfd]] + k>>]
  BY <1>1, <1>3
<1> QED
  BY <1>2, <1>4, <1>5, <1>6, <1>7

(* However the bytes of the peers arrive, what is handed over is one whole *)
(* packet of one peer, its next one.                                       *)
THEOREM WholePacketsOnly == Spec => []FramesAligned
<1>1. LoopInv => FramesAligned
  BY NextPacketWhole DEF FramesAligned
<1> QED
  BY <1>1, LoopInvariant, PTL

(* With more file numbers than an fd_set holds, the number FD_SETSIZE is   *)
(* never in use: there is always one left for the next accept.             *)
THEOREM AlwaysAccepts == Spec => []StaysInService
<1>1. LoopInv => StaysInService
  <2> SUFFICES ASSUME LoopInv, FD_SETSIZE < MaxFiles
               PROVE  Sockets \ Open # {}
    BY DEF StaysInService
  <2>1. FD_SETSIZE \in Sockets
    BY SocketNumbers DEF socketfd
  <2>2. FD_SETSIZE \notin Open
    BY DEF LoopInv, FdSetsMatch
  <2> QED
    BY <2>1, <2>2
<1> QED
  BY <1>1, LoopInvariant, PTL

(* A number strictly between two multiples of a is no multiple of a. *)
LEMMA PartOfPacket ==
  ASSUME NEW a \in Nat \ {0}, NEW d \in Nat, NEW t \in Nat, 0 < t, t < a
  PROVE  (a * d + t) % a # 0
<1>1. PICK n \in Nat : n = a * d + t
  OBVIOUS
<1>2. SUFFICES ASSUME n % a = 0
               PROVE  FALSE
  BY <1>1
<1>3. PICK q \in Int : n = a * q
  <2>1. n = a * (n \div a) + (n % a) /\ n \div a \in Int
    OBVIOUS
  <2> QED
    BY <1>2, <2>1
<1>4. PICK k \in Int : k = q - d
  OBVIOUS
<1>5. a * k = a * q - a * d
  BY <1>4
<1>6. a * k = t
  <2>1. PICK x \in Int : x = a * d
    OBVIOUS
  <2> QED
    BY <1>1, <1>3, <1>5, <2>1
<1>7. CASE k <= 0
  <2>1. a * k <= 0
    BY <1>7
  <2> QED
    BY <1>6, <2>1
<1>8. CASE k >= 1
  <2>1. k - 1 \in Nat /\ a * (k - 1) >= 0
    BY <1>8
  <2>2. a * k = a * (k - 1) + a
    BY <2>1
  <2> QED
    BY <1>6, <2>1, <2>2
<1> QED
  BY <1>7, <1>8

(* A peer whose end is open is dropped only when a part of a packet was    *)
(* read and nothing is left: a reported socket has something to read.      *)
THEOREM DropsStalledOnly == Spec => OnlyStalledPeersDropped
<1> DEFINE Stalled(fd) ==
             files[fd] # Nobody /\ files'[fd] = Nobody =>
               \/ peer[files[fd]] # "open"
               \/ /\ Unread(files[fd]) = 0
                  /\ consumed[files[fd]] % PacketSize # 0
<1>1. LoopInv /\ [Next]_vars => [\A fd \in Sockets : Stalled(fd)]_vars
  <2> SUFFICES ASSUME LoopInv, [Next]_vars, NEW fd \in Sockets,
                      files[fd] # Nobody, files'[fd] = Nobody,
                      peer[files[fd]] = "open"
               PROVE  /\ Unread(files[fd]) = 0
                      /\ consumed[files[fd]] % PacketSize # 0
    OBVIOUS
  <2>0. /\ files \in [Sockets -> Peers \cup {Nobody}]
        /\ sent \in [Peers -> Nat] /\ consumed \in [Peers -> Nat]
        /\ delivered \in [Peers -> Nat] /\ total_read_bytes \in Nat
    BY DEF LoopInv, TypeOK
  <2>1. ~Accept
    <3> SUFFICES ASSUME Accept
                 PROVE  FALSE
      OBVIOUS
    <3>1. Head(backlog) \in Peers
      BY DEF Accept, LoopInv, TypeOK
    <3> QED
      BY <2>0, <3>1, AcceptCases DEF LoopInv, Refuse, Watch
  <2>2. PICK p \in Peers : ReadFails(p)
    BY <2>0, <2>1
       DEF Next, Environment, Server, Start, Select, ScanDone, StartRead,
           Read, Deliver, Connect, Send, Finish, Reset, kernel, vars
  <2>3. /\ main_pc = "read" /\ p = files[connectionfd]
        /\ Unread(p) = 0 \/ peer[p] = "reset"
        /\ files' = [files EXCEPT ![connectionfd] = Nobody]
    BY <2>2 DEF ReadFails, Reading, Drop, CloseConnection
  <2>4. fd = connectionfd /\ files[fd] = p /\ fd \in Open
    BY <2>0, <2>3 DEF Open
  <2>5. Unread(p) = 0
    BY <2>3, <2>4
  <2>6. total_read_bytes # 0 /\ total_read_bytes < PacketSize
    <3>1. ~Readable(connectionfd)
      BY <2>4, <2>5, SocketNumbers DEF Readable
    <3> QED
      BY <2>3, <3>1 DEF LoopInv, Scans
  <2>7. consumed[p] = PacketSize * delivered[p] + total_read_bytes
    BY <2>3, <2>4 DEF LoopInv, InFrame, InPacket
  <2>8. (PacketSize * delivered[p] + total_read_bytes) % PacketSize # 0
    BY <2>0, <2>6, PartOfPacket
  <2> QED
    BY <2>4, <2>5, <2>7, <2>8
<1> QED
  BY <1>1, LoopInvariant, PTL DEF Spec, OnlyStalledPeersDropped

=============================================================================
