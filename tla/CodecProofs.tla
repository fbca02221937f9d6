---------------------------- MODULE CodecProofs ----------------------------
(***************************************************************************)
(* Proofs about the codec, for every number of words, every size of the    *)
(* other fields and every kind of byte.                                    *)
(***************************************************************************)
EXTENDS NetworkCodec, TLAPS

USE CodecAssumption

Orders == {"little", "big"}

(* What an encoded packet looks like on the wire. *)
Encoded(m, p, order) ==
  /\ \A k \in 0 .. NUMBER_SIZE - 1 :
       m[k] = SwapWords(p.number, 1, order)[k]
  /\ \A k \in 0 .. MICROTIME_SIZE - 1 :
       m[MICROTIME_AT + k] = Flip(p.microtime, MICROTIME_SIZE, order)[k]
  /\ \A k \in 0 .. DATA_SIZE - 1 :
       m[DATA_AT + k] = SwapWords(p.data, Words, order)[k]
  /\ \A k \in 0 .. MD5_SIZE - 1 :
       m[MD5_AT + k] = Flip(p.md5, MD5_SIZE, order)[k]

(* The sizes and places of the fields, as numbers. *)
LEMMA Sizes ==
  /\ Words \in Nat /\ MICROTIME_SIZE \in Nat /\ MD5_SIZE \in Nat
  /\ NUMBER_SIZE = 2 /\ MICROTIME_AT = 2 /\ DATA_SIZE = 2 * Words
  /\ DATA_AT = 2 + MICROTIME_SIZE
  /\ MD5_AT = DATA_AT + DATA_SIZE
  /\ Reach \in Nat
  /\ Reach >= MD5_AT + MD5_SIZE
  /\ Reach >= DATA_AT + 2 * DATA_SIZE
BY DEF NUMBER_SIZE, MICROTIME_AT, DATA_SIZE, DATA_AT, MD5_AT, TOTAL_SIZE, Reach

(* The two bytes of a word are each other's neighbours. *)
LEMMA Twins ==
  /\ \A k, n \in Nat : k < 2 * n => Twin(k) \in 0 .. 2 * n - 1
  /\ \A k \in Nat : Twin(Twin(k)) = k
BY DEF Twin

(* Swapping the bytes of the words twice changes nothing. *)
LEMMA SwapTwice ==
  ASSUME NEW n \in Nat, NEW f \in Field(2 * n), NEW g, NEW order \in Orders,
         g = [k \in 0 .. 2 * n - 1 |-> SwapWords(f, n, order)[k]]
  PROVE  SwapWords(g, n, order) = f
<1>1. DOMAIN f = 0 .. 2 * n - 1 /\ DOMAIN g = 0 .. 2 * n - 1
  BY DEF Field
<1>2. ASSUME NEW k \in 0 .. 2 * n - 1
      PROVE  SwapWords(g, n, order)[k] = f[k]
  <2>1. k \in Nat /\ k < 2 * n /\ Twin(k) \in 0 .. 2 * n - 1
    BY Twins
  <2>2. Twin(k) < 2 * n /\ Twin(Twin(k)) = k
    BY <2>1, Twins
  <2> QED BY <1>1, <2>1, <2>2 DEF SwapWords, Orders
<1>3. SwapWords(g, n, order) =
        [k \in 0 .. 2 * n - 1 |-> SwapWords(g, n, order)[k]]
  BY <1>1 DEF SwapWords
<1>4. f = [k \in 0 .. 2 * n - 1 |-> f[k]]
  BY DEF Field
<1> QED
  BY <1>2, <1>3, <1>4

(* Turning a field around twice changes nothing. *)
LEMMA FlipTwice ==
  ASSUME NEW n \in Nat, NEW f \in Field(n), NEW g, NEW order \in Orders,
         g = [k \in 0 .. n - 1 |-> Flip(f, n, order)[k]]
  PROVE  Flip(g, n, order) = f
<1>1. ASSUME NEW k \in 0 .. n - 1
      PROVE  Flip(g, n, order)[k] = f[k]
  <2>1. n - 1 - k \in 0 .. n - 1 /\ n - 1 - (n - 1 - k) = k
    OBVIOUS
  <2> QED BY <2>1 DEF Flip, Orders
<1>2. f = [k \in 0 .. n - 1 |-> f[k]]
  BY DEF Field
<1>3. Flip(g, n, order) = [k \in 0 .. n - 1 |-> Flip(g, n, order)[k]]
  BY DEF Flip
<1> QED
  BY <1>1, <1>2, <1>3

(* The decoder takes apart what is laid out as Encoded says. *)
LEMMA DecodeEncoded ==
  ASSUME NEW p \in Packets, NEW m, NEW order \in Orders, Encoded(m, p, order)
  PROVE  network_decode_packet(m, order) = p
<1>1. /\ p.number \in Field(2 * 1)
      /\ p.microtime \in Field(MICROTIME_SIZE)
      /\ p.data \in Field(2 * Words)
      /\ p.md5 \in Field(MD5_SIZE)
      /\ p = [number |-> p.number, microtime |-> p.microtime,
              data |-> p.data, md5 |-> p.md5]
  BY DEF Packets, NUMBER_SIZE, DATA_SIZE
<1>2. Get(m, 0, NUMBER_SIZE) =
        [k \in 0 .. 2 * 1 - 1 |-> SwapWords(p.number, 1, order)[k]]
  BY DEF Get, Encoded, NUMBER_SIZE
<1>3. Get(m, MICROTIME_AT, MICROTIME_SIZE) =
        [k \in 0 .. MICROTIME_SIZE - 1 |->
           Flip(p.microtime, MICROTIME_SIZE, order)[k]]
  BY DEF Get, Encoded
<1>4. Get(m, DATA_AT, DATA_SIZE) =
        [k \in 0 .. 2 * Words - 1 |-> SwapWords(p.data, Words, order)[k]]
  BY DEF Get, Encoded, DATA_SIZE
<1>5. Get(m, MD5_AT, MD5_SIZE) =
        [k \in 0 .. MD5_SIZE - 1 |-> Flip(p.md5, MD5_SIZE, order)[k]]
  BY DEF Get, Encoded
<1>6. SwapWords(Get(m, 0, NUMBER_SIZE), 1, order) = p.number
  <2> DEFINE n == 1
             g == Get(m, 0, NUMBER_SIZE)
  <2>1. n \in Nat /\ p.number \in Field(2 * n)
    BY <1>1
  <2>2. g = [k \in 0 .. 2 * n - 1 |-> SwapWords(p.number, n, order)[k]]
    BY <1>2
  <2>3. SwapWords(g, n, order) = p.number
    <3> HIDE DEF n, g
    <3> QED BY <2>1, <2>2, SwapTwice
  <2> QED BY <2>3
<1>7. Flip(Get(m, MICROTIME_AT, MICROTIME_SIZE), MICROTIME_SIZE, order) =
        p.microtime
  BY <1>1, <1>3, FlipTwice
<1>8. SwapWords(Get(m, DATA_AT, DATA_SIZE), Words, order) = p.data
  BY <1>1, <1>4, SwapTwice
<1>9. Flip(Get(m, MD5_AT, MD5_SIZE), MD5_SIZE, order) = p.md5
  BY <1>1, <1>5, FlipTwice
<1> QED
  BY <1>1, <1>6, <1>7, <1>8, <1>9 DEF network_decode_packet

(* What a write of a field leaves in each byte of memory. *)
LEMMA PutPointwise ==
  ASSUME NEW m, NEW at, NEW size, NEW bytes
  PROVE  /\ DOMAIN Put(m, at, size, bytes) = DOMAIN m
         /\ \A a \in DOMAIN m :
              Put(m, at, size, bytes)[a] =
                IF at <= a /\ a < at + size THEN bytes[a - at] ELSE m[a]
BY DEF Put

(* The encoder lays a packet out as Encoded says. *)
LEMMA EncodeEncodes ==
  ASSUME NEW p \in Packets, NEW m, DOMAIN m = Memory, NEW order \in Orders
  PROVE  Encoded(network_encode_packet(m, p, order), p, order)
<1> DEFINE h == EncodeHeader(m, p, order)
           n == Put(m, 0, NUMBER_SIZE, SwapWords(p.number, 1, order))
           copied == Put(h, DATA_AT, DATA_SIZE, p.data)
           behind == Get(copied, DATA_AT, Reach - DATA_AT)
           d == EncodeData(h, p, order)
           e == network_encode_packet(m, p, order)
<1>1. /\ DOMAIN n = Memory /\ DOMAIN h = Memory
      /\ DOMAIN copied = Memory /\ DOMAIN d = Memory
  BY PutPointwise DEF EncodeHeader, EncodeData
<1>2. \A a \in Memory : n[a] = IF 0 <= a /\ a < 0 + NUMBER_SIZE
                                 THEN SwapWords(p.number, 1, order)[a - 0] ELSE m[a]
  BY PutPointwise
<1>3. \A a \in Memory :
        h[a] = IF MICROTIME_AT <= a /\ a < MICROTIME_AT + MICROTIME_SIZE
                 THEN Flip(p.microtime, MICROTIME_SIZE, order)[a - MICROTIME_AT]
                 ELSE n[a]
  BY <1>1, PutPointwise DEF EncodeHeader
<1>4. \A a \in Memory :
        copied[a] = IF DATA_AT <= a /\ a < DATA_AT + DATA_SIZE
                      THEN p.data[a - DATA_AT] ELSE h[a]
  BY <1>1, PutPointwise
<1>5. \A a \in Memory :
        d[a] = IF DATA_AT <= a /\ a < DATA_AT + (Reach - DATA_AT)
                 THEN SwapWords(behind, DataLoopEnd, order)[a - DATA_AT]
                 ELSE copied[a]
  BY <1>1, PutPointwise DEF EncodeData
<1>6. \A a \in Memory :
        e[a] = IF MD5_AT <= a /\ a < MD5_AT + MD5_SIZE
                 THEN Flip(p.md5, MD5_SIZE, order)[a - MD5_AT] ELSE d[a]
  BY <1>1, PutPointwise DEF network_encode_packet, EncodeMd5
<1> HIDE DEF h, n, copied, d, e
<1>7. ASSUME NEW k \in 0 .. NUMBER_SIZE - 1
      PROVE  e[k] = SwapWords(p.number, 1, order)[k]
  <2>1. /\ k \in Memory /\ k - 0 = k /\ 0 <= k /\ k < 0 + NUMBER_SIZE
        /\ ~(MD5_AT <= k) /\ ~(DATA_AT <= k) /\ ~(MICROTIME_AT <= k)
    BY Sizes DEF Memory
  <2> QED BY <2>1, <1>2, <1>3, <1>4, <1>5, <1>6
<1>8. ASSUME NEW k \in 0 .. MICROTIME_SIZE - 1
      PROVE  e[MICROTIME_AT + k] = Flip(p.microtime, MICROTIME_SIZE, order)[k]
  <2> DEFINE a == MICROTIME_AT + k
  <2>1. /\ a \in Memory /\ a - MICROTIME_AT = k
        /\ MICROTIME_AT <= a /\ a < MICROTIME_AT + MICROTIME_SIZE
        /\ ~(MD5_AT <= a) /\ ~(DATA_AT <= a)
    BY Sizes DEF Memory
  <2>2. e[a] = Flip(p.microtime, MICROTIME_SIZE, order)[k]
    <3> HIDE DEF a
    <3> QED BY <2>1, <1>3, <1>4, <1>5, <1>6
  <2> QED BY <2>2
<1>9. ASSUME NEW k \in 0 .. DATA_SIZE - 1
      PROVE  e[DATA_AT + k] = SwapWords(p.data, Words, order)[k]
  <2> DEFINE a == DATA_AT + k
  <2>1. /\ a \in Memory /\ a - DATA_AT = k
        /\ DATA_AT <= a /\ a < DATA_AT + (Reach - DATA_AT)
        /\ ~(MD5_AT <= a)
    BY Sizes DEF Memory
  <2>2. e[a] = SwapWords(behind, DataLoopEnd, order)[k]
    <3> HIDE DEF a, behind
    <3> QED BY <2>1, <1>5, <1>6
  <2>3. \A j \in 0 .. DATA_SIZE - 1 : behind[j] = p.data[j]
    <3> SUFFICES ASSUME NEW j \in 0 .. DATA_SIZE - 1
                 PROVE  behind[j] = p.data[j]
      OBVIOUS
    <3> DEFINE b == DATA_AT + j
    <3>1. /\ b \in Memory /\ b - DATA_AT = j
          /\ DATA_AT <= b /\ b < DATA_AT + DATA_SIZE
          /\ j \in 0 .. Reach - DATA_AT - 1
      BY Sizes DEF Memory
    <3>2. behind[j] = copied[b]
      BY <3>1 DEF Get
    <3>3. copied[b] = p.data[j]
      <4> HIDE DEF b
      <4> QED BY <3>1, <1>4
    <3> QED BY <3>2, <3>3
  <2>4. /\ DOMAIN behind = 0 .. Reach - DATA_AT - 1
        /\ DOMAIN p.data = 0 .. DATA_SIZE - 1
    BY DEF Get, Packets, Field
  <2>5. /\ k \in 0 .. Reach - DATA_AT - 1
        /\ k < 2 * DataLoopEnd /\ k < 2 * Words
        /\ Twin(k) \in 0 .. DATA_SIZE - 1
    BY Sizes, Twins DEF DataLoopEnd
  <2> HIDE DEF behind
  <2>6. SwapWords(behind, DataLoopEnd, order)[k] =
          IF order = "little" THEN behind[Twin(k)] ELSE behind[k]
    BY <2>4, <2>5 DEF SwapWords
  <2>7. SwapWords(p.data, Words, order)[k] =
          IF order = "little" THEN p.data[Twin(k)] ELSE p.data[k]
    BY <2>4, <2>5 DEF SwapWords
  <2> QED BY <2>2, <2>3, <2>5, <2>6, <2>7
<1>10. ASSUME NEW k \in 0 .. MD5_SIZE - 1
       PROVE  e[MD5_AT + k] = Flip(p.md5, MD5_SIZE, order)[k]
  <2> DEFINE a == MD5_AT + k
  <2>1. /\ a \in Memory /\ a - MD5_AT = k
        /\ MD5_AT <= a /\ a < MD5_AT + MD5_SIZE
    BY Sizes DEF Memory
  <2>2. e[a] = Flip(p.md5, MD5_SIZE, order)[k]
    <3> HIDE DEF a
    <3> QED BY <2>1, <1>6
  <2> QED BY <2>2
<1> QED
  BY <1>7, <1>8, <1>9, <1>10 DEF Encoded, e

-----------------------------------------------------------------------------
(* What the receiver makes of the wire, whatever its byte order.           *)

(* Turning a field around twice gives it back. *)
LEMMA FlipBack ==
  ASSUME NEW n \in Nat, NEW f, NEW order \in Orders
  PROVE  Flip(Flip(f, n, order), n, order) = [k \in 0 .. n - 1 |-> f[k]]
<1>1. ASSUME NEW k \in 0 .. n - 1
      PROVE  Flip(Flip(f, n, order), n, order)[k] = f[k]
  <2>1. n - 1 - k \in 0 .. n - 1 /\ n - 1 - (n - 1 - k) = k
    OBVIOUS
  <2> QED BY <2>1 DEF Flip, Orders
<1> QED
  BY <1>1 DEF Flip

(* Exchanging the bytes of every word turns each word around. *)
LEMMA WordTurned ==
  ASSUME NEW n \in Nat, NEW f, DOMAIN f = 0 .. 2 * n - 1,
         NEW w \in 0 .. n - 1, NEW order \in Orders
  PROVE  Get(SwapWords(f, n, order), 2 * w, 2)
           = Number(Get(f, 2 * w, 2), 2, order)
<1>1. \A k \in 0 .. 1 : /\ 2 * w + k \in 0 .. 2 * n - 1
                        /\ 2 * w + k < 2 * n
                        /\ Twin(2 * w + k) = 2 * w + (1 - k)
                        /\ 1 - k \in 0 .. 1 /\ 2 - 1 - k = 1 - k
  BY DEF Twin
<1>2. ASSUME NEW k \in 0 .. 1
      PROVE  SwapWords(f, n, order)[2 * w + k]
               = IF order = "little" THEN f[2 * w + (1 - k)] ELSE f[2 * w + k]
  BY <1>1 DEF SwapWords
<1>3. ASSUME NEW k \in 0 .. 1
      PROVE  Number(Get(f, 2 * w, 2), 2, order)[k]
               = IF order = "little" THEN f[2 * w + (1 - k)] ELSE f[2 * w + k]
  BY <1>1 DEF Number, Flip, Get
<1>4. \A k \in 0 .. 1 : SwapWords(f, n, order)[2 * w + k]
                          = Number(Get(f, 2 * w, 2), 2, order)[k]
  BY <1>2, <1>3
<1> QED
  BY <1>4 DEF Get, Number, Flip

(* A field of one word is turned around as a whole. *)
LEMMA OneWordTurned ==
  ASSUME NEW f, DOMAIN f = 0 .. NUMBER_SIZE - 1, NEW order \in Orders
  PROVE  SwapWords(f, 1, order) = Number(f, NUMBER_SIZE, order)
<1>1. 0 .. NUMBER_SIZE - 1 = {0, 1} /\ NUMBER_SIZE - 1 = 1
  BY DEF NUMBER_SIZE
<1>2. Twin(0) = 1 /\ Twin(1) = 0 /\ 1 - 0 = 1 /\ 1 - 1 = 0
  BY DEF Twin
<1> QED
  BY <1>1, <1>2 DEF SwapWords, Number, Flip

(* The wire holds every number with its most significant byte first. *)
LEMMA WireBytes ==
  ASSUME NEW p \in Packets, NEW m, NEW order \in Orders, Encoded(m, p, order)
  PROVE  /\ Get(m, 0, NUMBER_SIZE) = Number(p.number, NUMBER_SIZE, order)
         /\ Get(m, MICROTIME_AT, MICROTIME_SIZE)
              = Number(p.microtime, MICROTIME_SIZE, order)
         /\ Get(m, DATA_AT, DATA_SIZE) = SwapWords(p.data, Words, order)
<1>1. /\ DOMAIN p.number = 0 .. NUMBER_SIZE - 1
      /\ DOMAIN p.data = 0 .. DATA_SIZE - 1
  BY DEF Packets, Field
<1>2. Get(m, 0, NUMBER_SIZE) = SwapWords(p.number, 1, order)
  BY <1>1 DEF Encoded, Get, SwapWords, NUMBER_SIZE
<1>3. Get(m, DATA_AT, DATA_SIZE) = SwapWords(p.data, Words, order)
  BY <1>1 DEF Encoded, Get, SwapWords
<1>4. Get(m, MICROTIME_AT, MICROTIME_SIZE)
        = Number(p.microtime, MICROTIME_SIZE, order)
  BY DEF Encoded, Get, Number, Flip
<1> QED
  BY <1>1, <1>2, <1>3, <1>4, OneWordTurned

(* The receiver reads the numbers that the sender had. *)
LEMMA DecodedNumbers ==
  ASSUME NEW p \in Packets, NEW m, NEW s \in Orders, NEW r \in Orders,
         Encoded(m, p, s), NEW q, q = network_decode_packet(m, r)
  PROVE  /\ Number(q.number, NUMBER_SIZE, r) = Number(p.number, NUMBER_SIZE, s)
         /\ Number(q.microtime, MICROTIME_SIZE, r)
              = Number(p.microtime, MICROTIME_SIZE, s)
         /\ WordsOf(q.data, r) = WordsOf(p.data, s)
<1> DEFINE wire == Get(m, DATA_AT, DATA_SIZE)
           head == Get(m, 0, NUMBER_SIZE)
           time == Get(m, MICROTIME_AT, MICROTIME_SIZE)
<1>1. /\ head = Number(p.number, NUMBER_SIZE, s)
      /\ time = Number(p.microtime, MICROTIME_SIZE, s)
      /\ wire = SwapWords(p.data, Words, s)
  BY WireBytes
<1>2. /\ q.number = SwapWords(head, 1, r)
      /\ q.microtime = Number(time, MICROTIME_SIZE, r)
      /\ q.data = SwapWords(wire, Words, r)
  BY DEF network_decode_packet, Number
<1>3. /\ DOMAIN head = 0 .. NUMBER_SIZE - 1
      /\ DOMAIN wire = 0 .. 2 * Words - 1
      /\ DOMAIN p.data = 0 .. 2 * Words - 1
      /\ head = [k \in 0 .. NUMBER_SIZE - 1 |-> head[k]]
      /\ time = [k \in 0 .. MICROTIME_SIZE - 1 |-> time[k]]
  BY DEF Get, DATA_SIZE, Packets, Field
<1>4. NUMBER_SIZE \in Nat
  BY DEF NUMBER_SIZE
<1> HIDE DEF wire, head, time
<1>5. Number(q.number, NUMBER_SIZE, r) = head
  BY <1>2, <1>3, <1>4, OneWordTurned, FlipBack DEF Number
<1>6. Number(q.microtime, MICROTIME_SIZE, r) = time
  BY <1>2, <1>3, FlipBack DEF Number
<1>7. ASSUME NEW w \in 0 .. Words - 1
      PROVE  Number(Get(q.data, 2 * w, 2), 2, r)
               = Number(Get(p.data, 2 * w, 2), 2, s)
  <2>1. Get(q.data, 2 * w, 2) = Number(Get(wire, 2 * w, 2), 2, r)
    BY <1>2, <1>3, WordTurned
  <2>2. Number(Get(q.data, 2 * w, 2), 2, r)
          = [k \in 0 .. 2 - 1 |-> Get(wire, 2 * w, 2)[k]]
    <3> DEFINE f == Get(wire, 2 * w, 2)
    <3> HIDE DEF f
    <3>1. Number(Number(f, 2, r), 2, r) = [k \in 0 .. 2 - 1 |-> f[k]]
      BY FlipBack, 2 \in Nat, Zenon DEF Number
    <3> QED BY <2>1, <3>1 DEF f
  <2>3. Get(wire, 2 * w, 2) = [k \in 0 .. 2 - 1 |-> Get(wire, 2 * w, 2)[k]]
    BY DEF Get
  <2>4. Get(wire, 2 * w, 2) = Number(Get(p.data, 2 * w, 2), 2, s)
    BY <1>1, <1>3, WordTurned
  <2> QED BY <2>2, <2>3, <2>4
<1>8. WordsOf(q.data, r) = WordsOf(p.data, s)
  BY <1>7 DEF WordsOf
<1> QED
  BY <1>1, <1>5, <1>6, <1>8

-----------------------------------------------------------------------------
(* The theorems.                                                           *)

CodecInv ==
  /\ packet \in Packets /\ sender \in Orders /\ receiver \in Orders
  /\ phase \in {"filled", "encoded", "decoded"}
  /\ phase = "filled" => DOMAIN memory = Memory
  /\ phase = "encoded" => Encoded(memory, packet, sender)
  /\ RoundTrip
  /\ NumbersSurvive

(* An encoded packet stays on the wire until it is decoded. *)
LEMMA CodecInvariant == Spec => []CodecInv
<1>1. Init => CodecInv
  BY DEF Init, CodecInv, Orders, RoundTrip, NumbersSurvive
<1>2. CodecInv /\ [Next]_vars => CodecInv'
  <2> SUFFICES ASSUME CodecInv, [Next]_vars PROVE CodecInv'
    OBVIOUS
  <2> USE DEF CodecInv
  <2>1. CASE Encode
    <3>1. Encoded(memory', packet, sender)
      BY <2>1, EncodeEncodes DEF Encode
    <3> QED BY <3>1, <2>1 DEF Encode, RoundTrip, NumbersSurvive, Encoded
  <2>2. CASE Decode
    <3>1. sender = receiver => received' = packet
      BY <2>2, DecodeEncoded DEF Decode
    <3>2. NumbersSurvive'
      BY <2>2, DecodedNumbers DEF Decode, NumbersSurvive
    <3> QED BY <3>1, <3>2, <2>2 DEF Decode, RoundTrip
  <2>3. CASE UNCHANGED vars
    <3>1. RoundTrip' /\ NumbersSurvive'
      BY <2>3 DEF vars, RoundTrip, NumbersSurvive
    <3> QED BY <2>3, <3>1 DEF vars, Encoded
  <2> QED BY <2>1, <2>2, <2>3 DEF Next
<1> QED
  BY <1>1, <1>2, PTL DEF Spec

(* Whatever its sizes, a packet that is decoded on a host of the byte      *)
(* order on which it was encoded is the packet that was encoded, and the   *)
(* data loop that runs too far does not reach the wire.                    *)
THEOREM RoundTripAlways == Spec => []RoundTrip
<1>1. CodecInv => RoundTrip
  BY DEF CodecInv
<1> QED
  BY <1>1, CodecInvariant, PTL

(* On any two hosts, of the same byte order or not, the receiver reads the *)
(* packet number, the microtime and each word of data as the sender had    *)
(* them: htons, ntohs and helper_flip_bytes are applied where they must.   *)
THEOREM NumbersSurviveAlways == Spec => []NumbersSurvive
<1>1. CodecInv => NumbersSurvive
  BY DEF CodecInv
<1> QED
  BY <1>1, CodecInvariant, PTL
=============================================================================
