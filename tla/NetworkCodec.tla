---------------------------- MODULE NetworkCodec ----------------------------
(***************************************************************************)
(* The wire format (src/common/network/network.c): a packet is encoded in  *)
(* the memory of a host of one byte order, and decoded in that of another. *)
(* Both functions are maps on bytes; a field is the bytes it occupies in   *)
(* its host's memory, the first one at 0.                                  *)
(***************************************************************************)
EXTENDS Integers

CONSTANTS
  Byte,
  Words,            \* NETWORK_PACKET_DATA_INT16_WORDS_COUNT
  MICROTIME_SIZE,
  MD5_SIZE

ASSUME CodecAssumption ==
  Words \in Nat /\ MICROTIME_SIZE \in Nat /\ MD5_SIZE \in Nat

NUMBER_SIZE  == 2
DATA_SIZE    == 2 * Words
MICROTIME_AT == NUMBER_SIZE
DATA_AT      == MICROTIME_AT + MICROTIME_SIZE
MD5_AT       == DATA_AT + DATA_SIZE
TOTAL_SIZE   == MD5_AT + MD5_SIZE

Field(size) == [0 .. size - 1 -> Byte]

Packets == [number : Field(NUMBER_SIZE), microtime : Field(MICROTIME_SIZE),
            data : Field(DATA_SIZE), md5 : Field(MD5_SIZE)]

VARIABLES
  packet,             \* the sender's packet
  memory,             \* the sender's buffer and what is behind it
  received,           \* the receiver's packet
  sender, receiver,   \* the hosts' byte orders
  phase

vars == <<packet, memory, received, sender, receiver, phase>>

(* The memory that the encoder may touch: the data loop may go further     *)
(* than the packet.                                                        *)
Reach  == IF 2 * DATA_SIZE > DATA_SIZE + MD5_SIZE THEN DATA_AT + 2 * DATA_SIZE
                                                 ELSE TOTAL_SIZE
Memory == 0 .. Reach - 1

-----------------------------------------------------------------------------
(* What a host does to the fields on their way to and from the wire: a     *)
(* little endian one exchanges the bytes of a 16-bit word (htons, ntohs)   *)
(* and turns the microtime and the MD5 around (helper_flip_bytes).         *)

Twin(k) == IF k % 2 = 0 THEN k + 1 ELSE k - 1

SwapWords(bytes, count, order) ==    \* the first count words
  [k \in DOMAIN bytes |-> IF order = "little" /\ k < 2 * count
                            THEN bytes[Twin(k)] ELSE bytes[k]]

Flip(bytes, size, order) ==
  [k \in 0 .. size - 1 |-> IF order = "little" THEN bytes[size - 1 - k]
                                               ELSE bytes[k]]

Put(m, at, size, bytes) ==           \* memcpy
  [a \in DOMAIN m |-> IF at <= a /\ a < at + size THEN bytes[a - at] ELSE m[a]]

Get(m, at, size) == [k \in 0 .. size - 1 |-> m[at + k]]

-----------------------------------------------------------------------------
(* network_encode_packet: the memory m after the packet p was encoded at   *)
(* its start.  The data loop counts words up to a number of bytes.         *)

DataLoopEnd == DATA_SIZE

EncodeHeader(m, p, order) ==
  Put(Put(m, 0, NUMBER_SIZE, SwapWords(p.number, 1, order)),
      MICROTIME_AT, MICROTIME_SIZE, Flip(p.microtime, MICROTIME_SIZE, order))

EncodeData(m, p, order) ==
  LET copied == Put(m, DATA_AT, DATA_SIZE, p.data)
      behind == Get(copied, DATA_AT, Reach - DATA_AT)
  IN  Put(copied, DATA_AT, Reach - DATA_AT, SwapWords(behind, DataLoopEnd, order))

EncodeMd5(m, p, order) ==
  Put(m, MD5_AT, MD5_SIZE, Flip(p.md5, MD5_SIZE, order))

encodeMd5First(m, p, order) ==       \* slip: the loop after the MD5
  EncodeData(EncodeMd5(EncodeHeader(m, p, order), p, order), p, order)

network_encode_packet(m, p, order) ==
  EncodeMd5(EncodeData(EncodeHeader(m, p, order), p, order), p, order)

(* network_decode_packet: the packet decoded from the start of m. *)

decodeUnflipped(m, order) ==         \* slip: microtime not turned around
  [number    |-> SwapWords(Get(m, 0, NUMBER_SIZE), 1, order),
   microtime |-> Get(m, MICROTIME_AT, MICROTIME_SIZE),
   data      |-> SwapWords(Get(m, DATA_AT, DATA_SIZE), Words, order),
   md5       |-> Flip(Get(m, MD5_AT, MD5_SIZE), MD5_SIZE, order)]

network_decode_packet(m, order) ==
  [number    |-> SwapWords(Get(m, 0, NUMBER_SIZE), 1, order),
   microtime |-> Flip(Get(m, MICROTIME_AT, MICROTIME_SIZE), MICROTIME_SIZE, order),
   data      |-> SwapWords(Get(m, DATA_AT, DATA_SIZE), Words, order),
   md5       |-> Flip(Get(m, MD5_AT, MD5_SIZE), MD5_SIZE, order)]

-----------------------------------------------------------------------------
(* One packet from one host to another.  The memory starts with one word   *)
(* repeated (a bound), which is enough to see its bytes exchanged.         *)

Init ==
  /\ packet \in Packets
  /\ \E even, odd \in Byte :
       memory = [a \in Memory |-> IF a % 2 = 0 THEN even ELSE odd]
  /\ received = packet                       \* irrelevant until decoded
  /\ sender \in {"little", "big"}
  /\ receiver \in {"little", "big"}
  /\ phase = "filled"

Encode ==
  /\ phase = "filled" /\ phase' = "encoded"
  /\ memory' = network_encode_packet(memory, packet, sender)
  /\ UNCHANGED <<packet, received, sender, receiver>>

Decode ==
  /\ phase = "encoded" /\ phase' = "decoded"
  /\ received' = network_decode_packet(memory, receiver)
  /\ UNCHANGED <<packet, memory, sender, receiver>>

Next == Encode \/ Decode

Spec == Init /\ [][Next]_vars

-----------------------------------------------------------------------------

(* Between hosts of one byte order a packet arrives as it was sent, its    *)
(* MD5 included, so that its verification gives the sender's result.       *)
RoundTrip == phase = "decoded" /\ sender = receiver => received = packet

(* A field as a number: its bytes, the most significant first. *)
Number(bytes, size, order) == Flip(bytes, size, order)

WordsOf(bytes, order) == [w \in 0 .. Words - 1 |->
                            Number(Get(bytes, 2 * w, 2), 2, order)]

(* Between hosts of different byte orders the numbers survive: the packet  *)
(* number, the microtime and each of the words.                            *)
NumbersSurvive ==
  phase = "decoded" =>
    /\ Number(received.number, NUMBER_SIZE, receiver) =
         Number(packet.number, NUMBER_SIZE, sender)
    /\ Number(received.microtime, MICROTIME_SIZE, receiver) =
         Number(packet.microtime, MICROTIME_SIZE, sender)
    /\ WordsOf(received.data, receiver) = WordsOf(packet.data, sender)

(* Encoding writes the bytes of the packet and none behind them. *)
EncodeStaysInside ==
  [][\A a \in Memory : a >= TOTAL_SIZE => memory'[a] = memory[a]]_vars
=============================================================================
