------------------------------- MODULE Client -------------------------------
(***************************************************************************)
(* The client (src/client/main.c): it connects and sends two batches of    *)
(* packets, each numbered, filled from the csv file (CsvReader), hashed    *)
(* (Md5), encoded, written to the server and reported.                     *)
(*                                                                         *)
(* NetworkCodec shows that encoding exchanges the bytes of the words       *)
(* behind the buffer.  What main keeps there is up to the compiler: its    *)
(* packet, its local variables, or neither.  Those bytes are exchanged     *)
(* after the number, the microtime and the data were copied, and stop      *)
(* before the packet's MD5, so the packet on the wire is not affected.     *)
(***************************************************************************)
EXTENDS Md5

CONSTANTS
  BATCH_LOOPS, BATCH_SIZE,
  Words,       \* the numbers in a packet
  Contents,    \* the lists of numbers that the csv file may hold
  MAX_ASCII_CHARS,
  Layouts,     \* what a build may put behind the buffer
  Faults       \* what may fail: "start", "csv", "md5", "write", and "drop",
               \* where the server drops the connection

ASSUME ClientAssumption ==
  /\ BATCH_LOOPS \in Nat \ {0} /\ BATCH_SIZE \in Nat \ {0}
  /\ Words \in Nat \ {0} /\ MAX_ASCII_CHARS \in Nat
  /\ Layouts \subseteq {"packet", "locals", "other"} /\ Layouts # {}
  /\ Faults \subseteq {"start", "csv", "md5", "write", "drop"}
  /\ 2 * Words < WORD                \* md5.c counts the bytes of a packet

VARIABLES
  layout,               \* what is behind the buffer in this build
  main_pc,
  i, j,                 \* the loop counters
  number, data, md5,    \* the fields of network_packet
  result_packet_buffer, \* the encoded packet
  socketfd,             \* "none", "connected", or "garbled"
  numbers, file, position, ascii_int16, buffer, reader_pc,   \* CsvReader
  sent,                 \* the packets written, the last one perhaps torn
  exit_code

reader == <<numbers, file, position, ascii_int16, buffer, reader_pc>>
vars   == <<layout, main_pc, i, j, number, data, md5, result_packet_buffer,
            socketfd, numbers, file, position, ascii_int16, buffer, reader_pc,
            sent, exit_code>>

Reader == INSTANCE CsvReader WITH Elements <- Words, pc <- reader_pc

(* The file holds values of type int16_t.  On longer numbers the reader    *)
(* writes past its array, which no run reaches.                            *)
ASSUME FileAssumption ==
  Contents \subseteq Seq(Reader!INT16_MIN .. Reader!INT16_MAX)

(* Data is a sequence of numbers, in the host's byte order or with its     *)
(* bytes exchanged.                                                        *)
Data(words)      == [words |-> words, swapped |-> FALSE]
Nothing          == Data(<< >>)
Packet(n, d, m)  == [number |-> n, data |-> d, md5 |-> m]
Torn             == Packet(-1, Nothing, << >>)

Uint16(n) == n % 65536
Swap16(n) == (n % 256) * 256 + n \div 256

Bytes(words) ==
  [k \in 1 .. 2 * Len(words) |->
     IF k % 2 = 1 THEN words[(k + 1) \div 2] % 256
                  ELSE Uint16(words[k \div 2]) \div 256]

Init ==
  /\ layout \in Layouts
  /\ main_pc = "start"
  /\ i = 0 /\ j = 0
  /\ number = 0 /\ data = Nothing /\ md5 = << >>
  /\ result_packet_buffer = Torn
  /\ socketfd = "none"
  /\ Reader!Opened
  /\ sent = << >>
  /\ exit_code = 0

Return1 == main_pc' = "returned" /\ exit_code' = 1
Goto(p) == main_pc' = p /\ UNCHANGED exit_code

-----------------------------------------------------------------------------

(* The file, the socket, the two arguments and connect: all of it or none. *)
Start ==
  /\ main_pc = "start"
  /\ \/ socketfd' = "connected" /\ Goto("number")
     \/ "start" \in Faults /\ Return1 /\ UNCHANGED socketfd
  /\ UNCHANGED <<layout, i, j, number, data, md5, result_packet_buffer,
                 reader, sent>>

NumberByIncrement ==                               \* slip: number++
  /\ main_pc = "number" /\ Goto("fill")
  /\ number' = Uint16(number + 1)
  /\ Reader!Call
  /\ UNCHANGED <<layout, i, j, data, md5, result_packet_buffer, socketfd, sent>>

(* The packet gets its number, and the reader is called for its data. *)
NumberPacket ==
  /\ main_pc = "number" /\ Goto("fill")
  /\ number' = Uint16(i * BATCH_SIZE + j + 1)
  /\ Reader!Call
  /\ UNCHANGED <<layout, i, j, data, md5, result_packet_buffer, socketfd, sent>>

Fill ==
  /\ main_pc = "fill"
  /\ \/ /\ Reader!Reading
        /\ data' = IF reader_pc' = "done" THEN Data(buffer') ELSE data
        /\ Goto(IF reader_pc' = "done" THEN "hash" ELSE "fill")
     \/ /\ "csv" \in Faults /\ Reader!Fail
        /\ Return1
        /\ UNCHANGED data
  /\ UNCHANGED <<layout, i, j, number, md5, result_packet_buffer, socketfd, sent>>

Hash ==
  /\ main_pc = "hash"
  /\ \/ md5' = mbedtls_md5_ret(Bytes(data.words)) /\ Goto("encode")
     \/ "md5" \in Faults /\ Return1 /\ UNCHANGED md5
  /\ UNCHANGED <<layout, i, j, number, data, result_packet_buffer, socketfd,
                 reader, sent>>

Encode ==
  /\ main_pc = "encode" /\ Goto("write")
  /\ result_packet_buffer' = Packet(number, data, md5)
  /\ \/ /\ layout = "packet"
        /\ number' = Swap16(number)
        /\ data' = [data EXCEPT !.swapped = TRUE]
        /\ UNCHANGED socketfd
     \/ /\ layout = "locals"
        /\ socketfd' = "garbled"
        /\ UNCHANGED <<number, data>>
     \/ layout = "other" /\ UNCHANGED <<number, data, socketfd>>
  /\ UNCHANGED <<layout, i, j, md5, reader, sent>>

(* A write sends the packet, or a part of it, or nothing.  On a connection *)
(* that the server has dropped it raises SIGPIPE, for which there is no    *)
(* handler.                                                                *)
Write ==
  /\ main_pc = "write"
  /\ \/ /\ socketfd = "connected"
        /\ sent' = Append(sent, result_packet_buffer)
        /\ Goto("report")
     \/ /\ socketfd = "connected" /\ "write" \in Faults
        /\ sent' \in {sent, Append(sent, Torn)}
        /\ Return1
     \/ /\ socketfd = "connected" /\ "drop" \in Faults
        /\ Goto("killed")
        /\ UNCHANGED sent
     \/ /\ socketfd = "garbled"
        /\ Return1
        /\ UNCHANGED sent
  /\ UNCHANGED <<layout, i, j, number, data, md5, result_packet_buffer,
                 socketfd, reader>>

LastInBatchLate == j = BATCH_SIZE                  \* slip: j <= BATCH_SIZE

LastInBatch == j + 1 = BATCH_SIZE

(* The "Sent:" line, and the steps of the two loops. *)
Report ==
  /\ main_pc = "report"
  /\ IF LastInBatch THEN i' = i + 1 /\ j' = 0 ELSE j' = j + 1 /\ UNCHANGED i
  /\ Goto(IF i' < BATCH_LOOPS THEN "number" ELSE "returned")
  /\ UNCHANGED <<layout, number, data, md5, result_packet_buffer, socketfd,
                 reader, sent>>

Next == Start \/ NumberPacket \/ Fill \/ Hash \/ Encode \/ Write \/ Report

Spec == Init /\ [][Next]_vars

(* The client runs, and the server keeps reading. *)
FairSpec == Spec /\ WF_vars(Next)

-----------------------------------------------------------------------------

Ended == main_pc \in {"returned", "killed"}

(* The w-th number of the k-th packet: the file is read round and round. *)
FileNumber(k, w) == numbers[(((k - 1) * Words + w - 1) % Len(numbers)) + 1]

Terminated(n) == Len(Reader!Text(n)) < MAX_ASCII_CHARS

(* The k-th packet on the wire carries the k-th run of numbers of the      *)
(* file, none of them split, merged, skipped or changed.  A number whose   *)
(* text leaves no room for its terminator (helper.c:27) spoils no other    *)
(* than itself.                                                            *)
WireCarriesFile ==
  \A k \in 1 .. Len(sent) :
    sent[k] # Torn =>
      /\ numbers # << >>
      /\ \A w \in 1 .. Words :
           Terminated(FileNumber(k, w)) =>
             sent[k].data.words[w] = FileNumber(k, w)

(* The k-th packet on the wire has the number k, is full, and has the MD5  *)
(* of what it carries, although encoding may garble the packet in which    *)
(* the next one is built.  Only the last packet can be torn, and then the  *)
(* client has ended.                                                       *)
PacketsSealed ==
  \A k \in 1 .. Len(sent) :
    \/ sent[k] = Torn /\ k = Len(sent) /\ Ended
    \/ LET words == sent[k].data.words
       IN  /\ sent[k] = Packet(Uint16(k), Data(words), MD5(Bytes(words)))
           /\ Len(words) = Words

(* The client returns 0 when it has written every packet of every batch in *)
(* full, and only then; otherwise it returns 1 or is killed, on the way.   *)
ExitMeansSent ==
  Ended =>
    (main_pc = "returned" /\ exit_code = 0
       <=> /\ Len(sent) = BATCH_LOOPS * BATCH_SIZE
           /\ sent[Len(sent)] # Torn)

(* Whatever the length of a message and wherever it is cut, in pieces that *)
(* a word can count, what md5.c compresses is the message padded as MD5    *)
(* demands: through the carry into the upper word, and on both sides of    *)
(* the length from which the padding takes one block more, where the       *)
(* program's own packets are.                                              *)
DigestIsMd5 ==
  main_pc = "start" =>
    \A n \in 0 .. WORD + BLOCK_SIZE :
      LET message == [k \in 1 .. n |-> k]
      IN  \A cut \in 0 .. n :
            cut < WORD /\ n - cut < WORD => InTwo(message, cut) = MD5(message)

(* The client comes to an end: no file with a number in it keeps the       *)
(* reader, which goes back to the start of the file, from filling a packet.*)
Returns == numbers # << >> => <>Ended
=============================================================================
