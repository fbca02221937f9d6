----------------------------- MODULE SelectLoop -----------------------------
(***************************************************************************)
(* The receiving loop of the server's main thread (src/server/main.c):     *)
(* select on the listening socket and the connections, accept, and read    *)
(* one whole packet from each connection that is ready.  The kernel's file *)
(* table and the peers at the other end of the connections are modelled    *)
(* from how the loop uses them.                                            *)
(*                                                                         *)
(* A peer sends bytes 1, 2, 3...: byte b is byte ((b - 1) % PacketSize) + 1 *)
(* of its packet ((b - 1) \div PacketSize) + 1.  A whole packet is handed  *)
(* over in one step; ServerThreads says what becomes of it.                *)
(***************************************************************************)
EXTENDS Integers, Sequences, FiniteSetsExt

CONSTANTS
  Peers,
  Nobody,           \* no peer: a file number that is not in use
  PacketSize,       \* NETWORK_PACKET_TOTAL_SIZE, in bytes
  READ_CHUNK_SIZE,  \* the most that one read asks for
  FD_SETSIZE,       \* what an fd_set can hold
  MaxFiles,         \* the limit on open files of the process
  MaxBacklog,       \* LISTEN_BACKLOG_SIZE
  MaxBytes,         \* bound: how many bytes a peer sends
  Faults            \* what may fail: "start", "select", "accept", "handle"

ASSUME LoopAssumption ==
  /\ Nobody \notin Peers
  /\ PacketSize \in Nat \ {0} /\ READ_CHUNK_SIZE \in Nat \ {0}
  /\ FD_SETSIZE \in Nat /\ MaxFiles \in Nat
  /\ 3 < FD_SETSIZE /\ 3 < MaxFiles
  /\ MaxBacklog \in Nat \ {0} /\ MaxBytes \in Nat
  /\ Faults \subseteq {"start", "select", "accept", "handle"}

VARIABLES
  main_pc,          \* "start", "select", "scan", "read", "deliver" or "exited"
  active_fd_set,    \* the sockets to watch
  read_fd_set,      \* those that the last select reported, not yet scanned
  maxfd,
  connectionfd,     \* the socket being read (the loop's i)
  buffer,           \* the bytes of main's buffer: <<peer, byte>>, or zero
  total_read_bytes,
  delivered,        \* how many packets of each peer were handed over
  files,            \* the kernel's file table: the peer behind each socket
  backlog,          \* the peers waiting to be accepted
  peer,             \* the state of each peer's end of the connection
  sent,             \* how many bytes each peer sent
  consumed          \* how many of them were read

loop   == <<active_fd_set, maxfd, connectionfd, buffer, total_read_bytes,
            delivered>>
kernel == <<files, backlog, peer, sent, consumed>>
vars   == <<main_pc, active_fd_set, read_fd_set, maxfd, connectionfd, buffer,
            total_read_bytes, delivered, files, backlog, peer, sent, consumed>>

Zero      == <<Nobody, 0>>           \* main clears its buffer once
socketfd  == 3                       \* after the three standard streams
Sockets   == socketfd + 1 .. MaxFiles - 1
Open      == {fd \in Sockets : files[fd] # Nobody}

Init ==
  /\ main_pc = "start"
  /\ active_fd_set = {}
  /\ read_fd_set = {}
  /\ maxfd = socketfd
  /\ connectionfd = socketfd
  /\ buffer = [k \in 1 .. PacketSize |-> Zero]
  /\ total_read_bytes = 0
  /\ delivered = [p \in Peers |-> 0]
  /\ files = [fd \in Sockets |-> Nobody]
  /\ backlog = << >>
  /\ peer = [p \in Peers |-> "away"]
  /\ sent = [p \in Peers |-> 0]
  /\ consumed = [p \in Peers |-> 0]

-----------------------------------------------------------------------------
(* The peers and the network.                                              *)

(* Until the server listens, and when the backlog is full, nobody gets in. *)
Connect(p) ==
  /\ peer[p] = "away" /\ Len(backlog) < MaxBacklog
  /\ active_fd_set # {}
  /\ peer' = [peer EXCEPT ![p] = "open"]
  /\ backlog' = Append(backlog, p)
  /\ UNCHANGED <<main_pc, loop, read_fd_set, files, sent, consumed>>

Send(p) ==
  /\ peer[p] = "open" /\ sent[p] < MaxBytes
  /\ \E n \in sent[p] + 1 .. MaxBytes : sent' = [sent EXCEPT ![p] = n]
  /\ UNCHANGED <<main_pc, loop, read_fd_set, files, backlog, peer, consumed>>

(* The peer closes: in order, or by a reset.  A reset may discard what has *)
(* not been read.                                                          *)
Finish(p) ==
  /\ peer[p] = "open"
  /\ peer' = [peer EXCEPT ![p] = "finished"]
  /\ UNCHANGED <<main_pc, loop, read_fd_set, files, backlog, sent, consumed>>

Reset(p) ==
  /\ peer[p] \in {"open", "finished"}
  /\ peer' = [peer EXCEPT ![p] = "reset"]
  /\ UNCHANGED <<main_pc, loop, read_fd_set, files, backlog, sent, consumed>>

-----------------------------------------------------------------------------
(* What the kernel knows of a socket.                                      *)

Unread(p) == sent[p] - consumed[p]

Readable(fd) ==
  IF fd = socketfd THEN backlog # << >>
                   ELSE Unread(files[fd]) > 0 \/ peer[files[fd]] # "open"

Exit == main_pc' = "exited"

-----------------------------------------------------------------------------
(* The listening socket is set up: any of the calls may end the program. *)
Start ==
  /\ main_pc = "start"
  /\ \/ main_pc' = "select" /\ active_fd_set' = {socketfd}
     \/ "start" \in Faults /\ Exit /\ UNCHANGED active_fd_set
  /\ UNCHANGED <<read_fd_set, maxfd, connectionfd, buffer, total_read_bytes,
                 delivered, kernel>>

-----------------------------------------------------------------------------
(* select: blocks until a socket is readable; a closed one is an error. *)

SelectBelowMaxfd ==                                \* slip: maxfd, not maxfd + 1
  /\ main_pc = "select"
  /\ LET watched == {fd \in active_fd_set : fd < maxfd}
     IN  /\ \E fd \in watched : Readable(fd)
         /\ read_fd_set' = {fd \in watched : Readable(fd)}
  /\ main_pc' = "scan"
  /\ UNCHANGED <<loop, kernel>>

SelectReportsAll ==                                \* slip: active set scanned
  /\ main_pc = "select"
  /\ \E fd \in active_fd_set : Readable(fd)
  /\ read_fd_set' = active_fd_set
  /\ main_pc' = "scan"
  /\ UNCHANGED <<loop, kernel>>

Select ==
  /\ main_pc = "select"
  /\ LET watched == {fd \in active_fd_set : fd <= maxfd}
     IN  \/ /\ watched \subseteq Open \cup {socketfd}
            /\ \E fd \in watched : Readable(fd)
            /\ read_fd_set' = {fd \in watched : Readable(fd)}
            /\ main_pc' = "scan"
         \/ /\ "select" \in Faults \/ ~(watched \subseteq Open \cup {socketfd})
            /\ Exit
            /\ UNCHANGED read_fd_set
  /\ UNCHANGED <<loop, kernel>>

(* The scan goes through the reported sockets from the lowest to maxfd. *)

Reported == {fd \in read_fd_set : fd <= maxfd}

Scanning(fd) == main_pc = "scan" /\ Reported # {} /\ fd = Min(Reported)

ScanDone ==
  /\ main_pc = "scan" /\ Reported = {}
  /\ main_pc' = "select"
  /\ UNCHANGED <<loop, read_fd_set, kernel>>

-----------------------------------------------------------------------------
(* accept: the new socket gets the lowest free number. *)

NewSocket == Min(Sockets \ Open)

WatchWithoutMaxfd(p) ==                            \* slip: maxfd not raised
  /\ files' = [files EXCEPT ![NewSocket] = p]
  /\ active_fd_set' = active_fd_set \cup {NewSocket}
  /\ UNCHANGED <<maxfd, peer>>

Watch(p) ==
  /\ files' = [files EXCEPT ![NewSocket] = p]
  /\ maxfd' = IF NewSocket > maxfd THEN NewSocket ELSE maxfd
  /\ active_fd_set' = active_fd_set \cup {NewSocket}
  /\ UNCHANGED peer

RefuseWithoutClose(p) ==                           \* slip: no close
  /\ files' = [files EXCEPT ![NewSocket] = p]
  /\ UNCHANGED <<active_fd_set, maxfd, peer>>

RefuseNever(p) == Watch(p)                         \* slip: no FD_SETSIZE test

Refuse(p) ==
  /\ peer' = [peer EXCEPT ![p] = "dropped"]
  /\ UNCHANGED <<active_fd_set, maxfd, files>>

Accept ==
  /\ Scanning(socketfd) /\ backlog # << >>
  /\ read_fd_set' = read_fd_set \ {socketfd}
  /\ \/ /\ Sockets \ Open # {}
        /\ IF NewSocket >= FD_SETSIZE THEN Refuse(Head(backlog))
                                      ELSE Watch(Head(backlog))
        /\ backlog' = Tail(backlog)
        /\ UNCHANGED main_pc
     \/ /\ "accept" \in Faults \/ Sockets \ Open = {}
        /\ Exit
        /\ UNCHANGED <<active_fd_set, maxfd, files, backlog, peer>>
  /\ UNCHANGED <<connectionfd, buffer, total_read_bytes, delivered, sent,
                 consumed>>

-----------------------------------------------------------------------------
(* read_not_less_than: reads until a whole packet is there, or drops the   *)
(* connection at the end of the stream, a reset, or 50 ms without a byte.  *)

StartRead(fd) ==
  /\ Scanning(fd) /\ fd # socketfd
  /\ read_fd_set' = read_fd_set \ {fd}
  /\ connectionfd' = fd
  /\ total_read_bytes' = 0
  /\ main_pc' = "read"
  /\ UNCHANGED <<active_fd_set, maxfd, buffer, delivered, kernel>>

Reading(p) == main_pc = "read" /\ p = files[connectionfd]

ChunkWhole ==                                    \* slip: size, not what is left
  IF PacketSize < READ_CHUNK_SIZE THEN PacketSize ELSE READ_CHUNK_SIZE

Chunk ==
  LET size_left == PacketSize - total_read_bytes
  IN  IF size_left < READ_CHUNK_SIZE THEN size_left ELSE READ_CHUNK_SIZE

Read(p) ==
  /\ Reading(p) /\ Unread(p) > 0
  /\ LET n == Min({Chunk, Unread(p)})
     IN  /\ buffer' = [k \in 1 .. PacketSize |->
                         IF k - total_read_bytes \in 1 .. n
                           THEN <<p, consumed[p] + k - total_read_bytes>>
                           ELSE buffer[k]]
         /\ consumed' = [consumed EXCEPT ![p] = @ + n]
         /\ total_read_bytes' = total_read_bytes + n
         /\ main_pc' = IF PacketSize - total_read_bytes' # 0
                         THEN "read" ELSE "deliver"
  /\ UNCHANGED <<active_fd_set, read_fd_set, maxfd, connectionfd, delivered,
                 files, backlog, peer, sent>>

CloseConnection ==
  /\ files' = [files EXCEPT ![connectionfd] = Nobody]
  /\ peer' = [peer EXCEPT ![files[connectionfd]] =
                IF @ = "reset" THEN @ ELSE "dropped"]

DropNothing ==                                     \* slip: connection kept
  UNCHANGED <<files, peer, active_fd_set>>

Drop ==
  /\ CloseConnection
  /\ active_fd_set' = active_fd_set \ {connectionfd}

(* The read that fails and the close after it are one step: what arrives   *)
(* between the two is lost, and counts as never sent.                      *)
ReadFails(p) ==
  /\ Reading(p)
  /\ Unread(p) = 0 \/ peer[p] = "reset"
  /\ Drop
  /\ main_pc' = "scan"
  /\ UNCHANGED <<read_fd_set, maxfd, connectionfd, buffer, total_read_bytes,
                 delivered, backlog, sent, consumed>>

(* The rest of the loop's body. *)
Deliver(p) ==
  /\ main_pc = "deliver" /\ p = files[connectionfd]
  /\ \/ /\ delivered' = [delivered EXCEPT ![p] = @ + 1]
        /\ main_pc' = "scan"
     \/ /\ "handle" \in Faults
        /\ Exit
        /\ UNCHANGED delivered
  /\ UNCHANGED <<active_fd_set, read_fd_set, maxfd, connectionfd, buffer,
                 total_read_bytes, kernel>>

-----------------------------------------------------------------------------

Environment ==
  \E p \in Peers : Connect(p) \/ Send(p) \/ Finish(p) \/ Reset(p)

Server ==
  \/ Start \/ Select \/ ScanDone \/ Accept
  \/ \E fd \in Sockets : StartRead(fd)
  \/ \E p \in Peers : Read(p) \/ ReadFails(p) \/ Deliver(p)

Next == Environment \/ Server

Spec == Init /\ [][Next]_vars

(* The main thread is scheduled, and a read that gets nothing ends after   *)
(* the receive timeout.  Peers may stop at any point.                      *)
FairSpec == Spec /\ WF_vars(Server)

-----------------------------------------------------------------------------

TypeOK ==
  /\ main_pc \in {"start", "select", "scan", "read", "deliver", "exited"}
  /\ active_fd_set \subseteq Sockets \cup {socketfd}
  /\ read_fd_set \subseteq Sockets \cup {socketfd}
  /\ maxfd \in Sockets \cup {socketfd}
  /\ connectionfd \in Sockets \cup {socketfd}
  /\ buffer \in [1 .. PacketSize -> (Peers \X (1 .. MaxBytes)) \cup {Zero}]
  /\ total_read_bytes \in 0 .. PacketSize
  /\ delivered \in [Peers -> 0 .. MaxBytes]
  /\ files \in [Sockets -> Peers \cup {Nobody}]
  /\ backlog \in Seq(Peers)
  /\ peer \in [Peers -> {"away", "open", "finished", "reset", "dropped"}]
  /\ sent \in [Peers -> 0 .. MaxBytes]
  /\ consumed \in [Peers -> 0 .. MaxBytes]

(* The sets, maxfd and the kernel's file table agree: select watches every *)
(* open connection and nothing else, below maxfd and within FD_SETSIZE     *)
(* (main.c:126), and a socket that is still to be scanned is still open,   *)
(* although others were closed and accepted since select reported it.      *)
FdSetsMatch ==
  /\ active_fd_set \ {socketfd} = Open
  /\ main_pc \notin {"start", "exited"} => socketfd \in active_fd_set
  /\ \A fd \in active_fd_set : fd <= maxfd /\ fd < FD_SETSIZE
  /\ main_pc = "scan" => read_fd_set \subseteq active_fd_set

(* The stream of each connection is cut where its packets begin: what is   *)
(* handed over is the peer's next packet, whole, with no byte of an        *)
(* earlier packet, of another peer or of a connection that was dropped.    *)
FramesAligned ==
  main_pc = "deliver" =>
    LET p == files[connectionfd]
    IN  buffer = [k \in 1 .. PacketSize |-> <<p, PacketSize * delivered[p] + k>>]

(* A live peer is given up only in the middle of a packet, when it has     *)
(* nothing more to read: a peer that sends nothing is never timed out, and *)
(* one that sends whole packets is never dropped.  That is about accepted  *)
(* connections, at the moment when read fails: main.c:126 refuses others   *)
(* that an fd_set cannot hold, live or not.                                *)
OnlyStalledPeersDropped ==
  [][\A fd \in Sockets :
       files[fd] # Nobody /\ files'[fd] = Nobody =>
         \/ peer[files[fd]] # "open"
         \/ /\ Unread(files[fd]) = 0
            /\ consumed[files[fd]] % PacketSize # 0]_vars

(* The server outlives any number of connections when the limit on open    *)
(* files is above FD_SETSIZE: those that an fd_set cannot hold are closed  *)
(* at once, so that accept always has a file number left for the next one. *)
(* With a lower limit, which is common, accept fails when the numbers are  *)
(* used up, and ends the program (main.c:121).                             *)
StaysInService == FD_SETSIZE < MaxFiles => Sockets \ Open # {}

(* A peer whose packet was sent in full gets it read, whatever the other   *)
(* peers do, unless its connection is reset.  A packet that is completed   *)
(* after the read of its first part has failed was not sent in full.       *)
EveryPacketRead ==
  \A p \in Peers, n \in 1 .. MaxBytes \div PacketSize :
    sent[p] >= n * PacketSize ~> delivered[p] >= n \/ peer[p] = "reset"
=============================================================================
