---------------------------- MODULE ClientProofs ----------------------------
(***************************************************************************)
(* Proofs about the client and the MD5 it computes, for every number and   *)
(* size of the batches, every file, every layout of main's variables and   *)
(* every failing call.                                                     *)
(*                                                                         *)
(* First that mbedtls_md5_ret is MD5: a context stands for the text that   *)
(* was hashed so far, its blocks in the state and its rest in the buffer.  *)
(* Then the reader: a number's text reads back as the number, and the file *)
(* has the texts one behind the other, by inductions over the numbers.     *)
(* Then the client.  That its exit code tells whether everything was sent  *)
(* rests on the loop counters standing for the packets written, none of    *)
(* which is torn while the client runs; that the packets are numbered and  *)
(* hashed rests on what each step of the loop finds of the one before; and *)
(* that they carry the file, on where the reader then is in it.            *)
(***************************************************************************)
EXTENDS Client, SequenceTheorems, WellFoundedInduction, TLAPS

(* n is q times d, and r more. *)
Splits(n, d, q, r) ==
  /\ d \in Nat \ {0} /\ n \in Nat /\ q \in Nat /\ r \in Nat
  /\ r < d /\ n = d * q + r

(* There is one quotient and one remainder. *)
LEMMA Quotient ==
  ASSUME NEW n, NEW d, NEW q, NEW r, Splits(n, d, q, r)
  PROVE  n \div d = q /\ n % d = r
<1> USE DEF Splits
<1>1. PICK p \in Int, s \in Int :
        p = n \div d /\ s = n % d /\ n = d * p + s /\ 0 <= s /\ s < d
  OBVIOUS
<1>2. PICK e \in Int : e = p - q
  OBVIOUS
<1>3. d * e = r - s
  <2>1. d * e = d * p - d * q
    BY <1>2
  <2>2. PICK x \in Int, y \in Int : x = d * p /\ y = d * q
    OBVIOUS
  <2> QED
    BY <1>1, <2>1, <2>2
<1>4. CASE e <= -1
  <2>1. d * e <= -d
    BY <1>4
  <2> QED
    BY <1>1, <1>3, <2>1
<1>5. CASE e >= 1
  <2>1. d * e >= d
    BY <1>5
  <2> QED
    BY <1>1, <1>3, <2>1
<1>6. CASE e = 0
  BY <1>1, <1>2, <1>3, <1>6
<1> QED
  BY <1>4, <1>5, <1>6

(* Whatever is divided has them. *)
LEMMA Divided ==
  ASSUME NEW d \in Nat \ {0}, NEW n \in Nat
  PROVE  Splits(n, d, n \div d, n % d)
<1>1. PICK q \in Int, r \in Int :
        q = n \div d /\ r = n % d /\ n = d * q + r /\ 0 <= r /\ r < d
  OBVIOUS
<1>2. q >= 0
  <2>1. CASE q <= -1
    <3>1. d * q <= -d
      BY <2>1
    <3> QED
      BY <1>1, <3>1
  <2> QED
    BY <2>1
<1>3. Splits(n, d, q, r)
  BY <1>1, <1>2 DEF Splits
<1> QED
  BY <1>1, <1>3

(* A divisor of a divisor sees through the remainder. *)
LEMMA RemainderTwice ==
  ASSUME NEW d \in Nat \ {0}, NEW e \in Nat \ {0}, NEW n \in Nat, e % d = 0
  PROVE  (n % e) % d = n % d
<1>1. PICK q \in Nat, r \in Nat : r = n % e /\ n = e * q + r
  <2>1. Splits(n, e, n \div e, n % e)
    BY Divided
  <2> QED
    BY <2>1 DEF Splits
<1>2. PICK k \in Nat : e = d * k
  <2>1. Splits(e, d, e \div d, e % d)
    BY Divided
  <2>2. e \div d \in Nat /\ e = d * (e \div d)
    BY <2>1 DEF Splits
  <2> QED
    BY <2>2
<1>3. PICK p \in Nat, s \in Nat : s = r % d /\ r = d * p + s /\ s < d
  BY Divided DEF Splits
<1>4. PICK x \in Nat : x = k * q + p
  OBVIOUS
<1>5. PICK a \in Nat, b \in Nat : a = d * (k * q) /\ b = d * p
  OBVIOUS
<1>6. e * q = a /\ d * x = a + b
  <2>1. e * q = d * (k * q)
    BY <1>2
  <2>2. d * x = d * (k * q) + d * p
    BY <1>4
  <2> QED
    BY <1>5, <2>1, <2>2
<1>7. Splits(n, d, x, s)
  <2>1. n = a + r /\ r = b + s
    BY <1>1, <1>3, <1>5, <1>6
  <2>2. n = d * x + s
    BY <1>6, <2>1
  <2> QED
    BY <1>3, <2>2 DEF Splits
<1> QED
  BY <1>1, <1>3, <1>7, Quotient

(* A word and a carry: what the two words of a length count together. *)
LEMMA AddCarries ==
  ASSUME NEW n \in Nat, NEW l \in Nat, l < WORD
  PROVE  Add(<<n % WORD, (n \div WORD) % WORD>>, l)
           = <<(n + l) % WORD, ((n + l) \div WORD) % WORD>>
<1>0. WORD \in Nat \ {0}
  BY Md5Assumption
<1>1. PICK q \in Nat, r \in Nat :
        q = n \div WORD /\ r = n % WORD /\ n = WORD * q + r /\ r < WORD
  BY <1>0, Divided DEF Splits
<1>2. PICK p \in Nat, t \in Nat :
        t = q % WORD /\ q = WORD * p + t /\ t < WORD
  BY <1>0, Divided DEF Splits
<1>3. l % WORD = l
  BY <1>0, Quotient, Splits(l, WORD, 0, l) DEF Splits
<1>4. CASE r + l < WORD
  <2>1. Splits(n + l, WORD, q, r + l) /\ Splits(r + l, WORD, 0, r + l)
    BY <1>0, <1>1, <1>4 DEF Splits
  <2>2. (n + l) \div WORD = q /\ (n + l) % WORD = r + l
        /\ (r + l) % WORD = r + l
    BY <2>1, Quotient
  <2>3. ~(r + l < l)
    OBVIOUS
  <2> QED
    BY <1>1, <1>3, <2>2, <2>3 DEF Add
<1>5. CASE r + l >= WORD
  <2>0. PICK x \in Nat : x = WORD * q /\ WORD * (q + 1) = x + WORD
    BY <1>0
  <2>1. /\ Splits(n + l, WORD, q + 1, r + l - WORD)
        /\ Splits(r + l, WORD, 1, r + l - WORD)
    BY <1>0, <1>1, <1>5, <2>0 DEF Splits
  <2>2. /\ (n + l) \div WORD = q + 1 /\ (n + l) % WORD = r + l - WORD
        /\ (r + l) % WORD = r + l - WORD
    BY <2>1, Quotient
  <2>3. (t + 1) % WORD = (q + 1) % WORD
    <3>1. PICK s \in Nat, u \in Nat :
            u = (t + 1) % WORD /\ t + 1 = WORD * s + u /\ u < WORD
      <4>1. Splits(t + 1, WORD, (t + 1) \div WORD, (t + 1) % WORD)
        BY <1>0, Divided
      <4> QED
        BY <4>1 DEF Splits
    <3>2. PICK y \in Nat, z \in Nat :
            y = WORD * p /\ z = WORD * s /\ WORD * (p + s) = y + z
      BY <1>0
    <3>3. Splits(q + 1, WORD, p + s, u)
      BY <1>0, <1>2, <3>1, <3>2 DEF Splits
    <3> QED
      BY <3>1, <3>3, Quotient
  <2>4. r + l - WORD < l
    BY <1>0, <1>1
  <2> QED
    BY <1>1, <1>2, <1>3, <2>2, <2>3, <2>4 DEF Add
<1> QED
  BY <1>0, <1>1, <1>4, <1>5

(* The length in bits, from the two words of the length in bytes. *)
LEMMA BitsOfWords ==
  ASSUME NEW n \in Nat
  PROVE  LET low  == n % WORD
             high == (n \div WORD) % WORD
         IN  /\ (8 * low) % WORD = (8 * n) % WORD
             /\ (low \div (WORD \div 8)) + ((8 * high) % WORD)
                  = ((8 * n) \div WORD) % WORD
<1>0. PICK w \in Nat \ {0} : WORD = 8 * w /\ WORD \in Nat \ {0}
  <2>1. WORD = 8 * (WORD \div 8) /\ WORD \div 8 \in Nat \ {0}
    BY Md5Assumption
  <2> QED
    BY <2>1, Md5Assumption
<1>1. PICK q \in Nat, r \in Nat :
        q = n \div WORD /\ r = n % WORD /\ n = WORD * q + r /\ r < WORD
  BY <1>0, Divided DEF Splits
<1>2. PICK p \in Nat, t \in Nat :
        t = q % WORD /\ q = WORD * p + t /\ t < WORD
  BY <1>0, Divided DEF Splits
<1>3. PICK e \in Nat, f \in Nat :
        e = r \div w /\ r = w * e + f /\ f < w
  BY <1>0, Divided DEF Splits
<1>4. WORD \div 8 = w
  BY <1>0
<1>5. PICK z \in Nat : z = w * e /\ 8 * z = WORD * e
  BY <1>0
<1>6. e <= 7
  <2>1. CASE e >= 8
    <3>1. w * e >= w * 8
      BY <1>0, <2>1
    <3> QED
      BY <1>0, <1>1, <1>3, <1>5, <3>1
  <2> QED
    BY <2>1
<1>7. PICK x \in Nat : x = WORD * q /\ WORD * (8 * q + e) = 8 * x + 8 * z
  <2>1. WORD * (8 * q + e) = 8 * (WORD * q) + WORD * e
    BY <1>0
  <2> QED
    BY <1>0, <1>5, <2>1
<1>8. /\ Splits(8 * r, WORD, e, 8 * f)
      /\ Splits(8 * n, WORD, 8 * q + e, 8 * f)
  <2>1. 8 * f < WORD /\ r = z + f /\ n = x + r
    <3>1. 8 * f < WORD
      BY <1>0, <1>3
    <3>2. r = z + f
      BY <1>3, <1>5
    <3>3. n = x + r
      BY <1>1, <1>7
    <3> QED
      BY <3>1, <3>2, <3>3
  <2>2. 8 * r = WORD * e + 8 * f
    BY <1>5, <2>1
  <2>3. 8 * n = WORD * (8 * q + e) + 8 * f
    BY <1>7, <2>1
  <2> QED
    BY <1>0, <2>1, <2>2, <2>3 DEF Splits
<1>9. /\ (8 * r) % WORD = 8 * f
      /\ (8 * n) % WORD = 8 * f /\ (8 * n) \div WORD = 8 * q + e
  BY <1>8, Quotient
<1>10. PICK u \in Nat, v \in Nat : t = w * u + v /\ v < w
  BY <1>0, Divided DEF Splits
<1>11. PICK a \in Nat : a = w * u /\ 8 * a = WORD * u
  BY <1>0
<1>12. Splits(8 * t, WORD, u, 8 * v)
  BY <1>0, <1>10, <1>11 DEF Splits
<1>13. Splits(8 * q + e, WORD, 8 * p + u, 8 * v + e)
  <2>1. PICK b \in Nat : b = WORD * p /\ WORD * (8 * p + u) = 8 * b + 8 * a
    <3>1. WORD * (8 * p + u) = 8 * (WORD * p) + WORD * u
      BY <1>0
    <3> QED
      BY <1>0, <1>11, <3>1
  <2> QED
    BY <1>0, <1>2, <1>6, <1>10, <1>11, <2>1 DEF Splits
<1>14. (8 * t) % WORD = 8 * v /\ (8 * q + e) % WORD = 8 * v + e
  BY <1>12, <1>13, Quotient
<1> SUFFICES /\ (8 * r) % WORD = (8 * n) % WORD
             /\ (r \div w) + ((8 * t) % WORD) = ((8 * n) \div WORD) % WORD
  BY <1>1, <1>2, <1>4
<1>15. e + 8 * v = 8 * v + e
  OBVIOUS
<1> QED
  BY <1>3, <1>9, <1>14, <1>15

(* What a function on 1 .. n is, as a sequence. *)
LEMMA Tabulated ==
  ASSUME NEW S, NEW n \in Nat, NEW f \in [1 .. n -> S]
  PROVE  f \in Seq(S) /\ Len(f) = n
  BY SeqDef

(* A copy keeps the length and replaces what it covers. *)
LEMMA CopyIs ==
  ASSUME NEW S, NEW b \in Seq(S), NEW at \in Nat, NEW x \in Seq(S)
  PROVE  /\ Copy(b, at, x) \in Seq(S) /\ Len(Copy(b, at, x)) = Len(b)
         /\ \A k \in 1 .. Len(b) :
              Copy(b, at, x)[k] =
                IF at < k /\ k <= at + Len(x) THEN x[k - at] ELSE b[k]
<1>1. Len(b) \in Nat /\ Len(x) \in Nat
  OBVIOUS
<1>2. ASSUME NEW k \in 1 .. Len(b)
      PROVE  /\ (IF k - at \in 1 .. Len(x) THEN x[k - at] ELSE b[k]) \in S
             /\ k - at \in 1 .. Len(x) <=> at < k /\ k <= at + Len(x)
  <2>1. b[k] \in S
    OBVIOUS
  <2>2. k - at \in 1 .. Len(x) => x[k - at] \in S
    OBVIOUS
  <2>3. k - at \in 1 .. Len(x) <=> at < k /\ k <= at + Len(x)
    BY <1>1
  <2> QED
    BY <2>1, <2>2, <2>3
<1>3. Copy(b, at, x) \in [1 .. Len(b) -> S]
  BY <1>2 DEF Copy
<1>4. Copy(b, at, x) \in Seq(S) /\ Len(Copy(b, at, x)) = Len(b)
  BY <1>1, <1>3, Tabulated
<1> QED
  BY <1>2, <1>4 DEF Copy

(* Zeros are a text of zeros. *)
LEMMA ZerosAre ==
  ASSUME NEW S, Int \subseteq S, NEW n \in Nat
  PROVE  /\ Zeros(n) \in Seq(S) /\ Len(Zeros(n)) = n
         /\ \A k \in 1 .. n : Zeros(n)[k] = 0
<1>1. Zeros(n) \in [1 .. n -> S]
  BY DEF Zeros
<1>2. Zeros(n) \in Seq(S) /\ Len(Zeros(n)) = n
  BY <1>1, Tabulated
<1> QED
  BY <1>2 DEF Zeros

(* The block of a text behind its first o places. *)
BlockBehind(m, o) == [k \in 1 .. BLOCK_SIZE |-> m[o + k]]

(* The blocks of a text, place by place. *)
LEMMA BlocksAre ==
  ASSUME NEW S, NEW m \in Seq(S)
  PROVE  LET c == Len(m) \div BLOCK_SIZE
         IN  /\ Blocks(m) \in Seq(Seq(S)) /\ Len(Blocks(m)) = c /\ c \in Nat
             /\ \A n \in 1 .. c :
                  Blocks(m)[n] = BlockBehind(m, BLOCK_SIZE * (n - 1))
<1>0. BLOCK_SIZE \in Nat \ {0} /\ Len(m) \in Nat
  BY Md5Assumption
<1>1. PICK c \in Nat, r \in Nat :
        c = Len(m) \div BLOCK_SIZE /\ Len(m) = BLOCK_SIZE * c + r
  <2>1. Splits(Len(m), BLOCK_SIZE, Len(m) \div BLOCK_SIZE, Len(m) % BLOCK_SIZE)
    BY <1>0, Divided
  <2> QED
    BY <2>1 DEF Splits
<1>2. ASSUME NEW n \in 1 .. c
      PROVE  LET s == SubSeq(m, (n - 1) * BLOCK_SIZE + 1, n * BLOCK_SIZE)
             IN  s \in Seq(S) /\ s = BlockBehind(m, BLOCK_SIZE * (n - 1))
  <2>1. PICK o \in Nat, d \in Nat :
          /\ o = BLOCK_SIZE * (n - 1) /\ (n - 1) * BLOCK_SIZE = o
          /\ n * BLOCK_SIZE = o + BLOCK_SIZE
          /\ d = BLOCK_SIZE * (c - n)
          /\ BLOCK_SIZE * c = o + BLOCK_SIZE + d
    BY <1>0
  <2> DEFINE s == SubSeq(m, o + 1, o + BLOCK_SIZE)
  <2>2. \A k \in o + 1 .. o + BLOCK_SIZE : m[k] \in S
    <3>1. \A k \in o + 1 .. o + BLOCK_SIZE : k \in 1 .. Len(m)
      BY <1>0, <1>1, <2>1
    <3> QED
      BY <3>1
  <2>3. /\ s \in Seq(S) /\ Len(s) = BLOCK_SIZE
        /\ \A k \in 1 .. BLOCK_SIZE : s[k] = m[o + k]
    <3>1. /\ s \in Seq(S)
          /\ Len(s) = IF o + 1 <= o + BLOCK_SIZE
                        THEN o + BLOCK_SIZE - (o + 1) + 1 ELSE 0
          /\ \A k \in 1 .. o + BLOCK_SIZE - (o + 1) + 1 :
               s[k] = m[o + 1 + k - 1]
      BY <1>0, <2>2, SubSeqProperties
    <3>2. o + BLOCK_SIZE - (o + 1) + 1 = BLOCK_SIZE /\ o + 1 <= o + BLOCK_SIZE
      BY <1>0
    <3>3. \A k \in 1 .. BLOCK_SIZE : o + 1 + k - 1 = o + k
      BY <1>0
    <3> HIDE DEF s
    <3> QED
      BY <3>1, <3>2, <3>3
  <2> HIDE DEF s
  <2>4. s = [k \in 1 .. BLOCK_SIZE |-> s[k]]
    BY <2>3, LenProperties
  <2>5. s = BlockBehind(m, o)
    BY <2>3, <2>4 DEF BlockBehind
  <2> QED
    BY <2>1, <2>3, <2>5 DEF s
<1>3. Blocks(m) = [n \in 1 .. c |-> BlockBehind(m, BLOCK_SIZE * (n - 1))]
  BY <1>1, <1>2 DEF Blocks
<1>4. Blocks(m) \in [1 .. c -> Seq(S)]
  BY <1>2, <1>3
<1>5. Blocks(m) \in Seq(Seq(S)) /\ Len(Blocks(m)) = c
  BY <1>4, Tabulated
<1> QED
  BY <1>1, <1>3, <1>5

(* Whole blocks in front of a text are blocks of their own. *)
LEMMA BlocksBehindBlocks ==
  ASSUME NEW S, NEW m \in Seq(S), NEW x \in Seq(S), Len(m) % BLOCK_SIZE = 0
  PROVE  Blocks(m \o x) = Blocks(m) \o Blocks(x)
<1>0. /\ BLOCK_SIZE \in Nat \ {0} /\ Len(m) \in Nat /\ Len(x) \in Nat
      /\ m \o x \in Seq(S)
      /\ Len(m \o x) = Len(m) + Len(x)
      /\ \A h \in 1 .. Len(m) + Len(x) :
           (m \o x)[h] = IF h <= Len(m) THEN m[h] ELSE x[h - Len(m)]
  BY Md5Assumption, ConcatProperties
<1>1. PICK q \in Nat : q = Len(m) \div BLOCK_SIZE /\ Len(m) = BLOCK_SIZE * q
  <2>1. Splits(Len(m), BLOCK_SIZE, Len(m) \div BLOCK_SIZE, Len(m) % BLOCK_SIZE)
    BY <1>0, Divided
  <2>2. /\ Len(m) \div BLOCK_SIZE \in Nat
        /\ Len(m) = BLOCK_SIZE * (Len(m) \div BLOCK_SIZE)
    BY <1>0, <2>1 DEF Splits
  <2> QED
    BY <2>2
<1>2. PICK p \in Nat, s \in Nat : p = Len(x) \div BLOCK_SIZE
        /\ Len(x) = BLOCK_SIZE * p + s /\ s < BLOCK_SIZE
  <2>1. Splits(Len(x), BLOCK_SIZE, Len(x) \div BLOCK_SIZE, Len(x) % BLOCK_SIZE)
    BY <1>0, Divided
  <2> QED
    BY <1>0, <2>1 DEF Splits
<1> DEFINE c == m \o x
<1>3. Len(c) \div BLOCK_SIZE = q + p
  <2>1. PICK y \in Nat, z \in Nat : y = BLOCK_SIZE * q /\ z = BLOCK_SIZE * p
                                    /\ BLOCK_SIZE * (q + p) = y + z
    BY <1>0
  <2>2. Len(c) = BLOCK_SIZE * (q + p) + s
    <3>1. Len(m) = y /\ Len(x) = z + s
      BY <1>1, <1>2, <2>1
    <3> QED
      BY <1>0, <2>1, <3>1
  <2>3. Splits(Len(c), BLOCK_SIZE, q + p, s)
    BY <1>0, <1>2, <2>2 DEF Splits
  <2> QED
    BY <2>3, Quotient
<1> HIDE DEF c
<1>4. /\ Blocks(c) \in Seq(Seq(S)) /\ Len(Blocks(c)) = q + p
      /\ \A n \in 1 .. q + p :
           Blocks(c)[n] = BlockBehind(c, BLOCK_SIZE * (n - 1))
  BY <1>0, <1>3, BlocksAre DEF c
<1>5. /\ Blocks(m) \in Seq(Seq(S)) /\ Len(Blocks(m)) = q
      /\ \A n \in 1 .. q :
           Blocks(m)[n] = BlockBehind(m, BLOCK_SIZE * (n - 1))
  BY <1>1, BlocksAre
<1>6. /\ Blocks(x) \in Seq(Seq(S)) /\ Len(Blocks(x)) = p
      /\ \A n \in 1 .. p :
           Blocks(x)[n] = BlockBehind(x, BLOCK_SIZE * (n - 1))
  BY <1>2, BlocksAre
<1>7. LET d == Blocks(m) \o Blocks(x)
      IN  /\ d \in Seq(Seq(S)) /\ Len(d) = q + p
          /\ \A n \in 1 .. q + p :
               d[n] = IF n <= q THEN Blocks(m)[n] ELSE Blocks(x)[n - q]
  BY <1>5, <1>6, ConcatProperties
<1>8. ASSUME NEW n \in 1 .. q
      PROVE  BlockBehind(c, BLOCK_SIZE * (n - 1))
               = BlockBehind(m, BLOCK_SIZE * (n - 1))
  <2>1. PICK o \in Nat, d \in Nat :
          o = BLOCK_SIZE * (n - 1) /\ Len(m) = o + BLOCK_SIZE + d
    <3>1. BLOCK_SIZE * q
            = BLOCK_SIZE * (n - 1) + BLOCK_SIZE + BLOCK_SIZE * (q - n)
      BY <1>0
    <3>2. BLOCK_SIZE * (n - 1) \in Nat /\ BLOCK_SIZE * (q - n) \in Nat
      BY <1>0
    <3> QED
      BY <1>1, <3>1, <3>2
  <2>2. \A k \in 1 .. BLOCK_SIZE :
          o + k \in 1 .. Len(m) + Len(x) /\ o + k <= Len(m)
    BY <1>0, <2>1
  <2>3. \A k \in 1 .. BLOCK_SIZE : c[o + k] = m[o + k]
    BY <1>0, <2>2 DEF c
  <2> QED
    BY <2>1, <2>3 DEF BlockBehind
<1>9. ASSUME NEW n \in 1 .. q + p, n > q
      PROVE  BlockBehind(c, BLOCK_SIZE * (n - 1))
               = BlockBehind(x, BLOCK_SIZE * (n - q - 1))
  <2>1. PICK o \in Nat, y \in Nat, d \in Nat :
          /\ o = BLOCK_SIZE * (n - q - 1) /\ y = Len(m)
          /\ BLOCK_SIZE * (n - 1) = y + o
          /\ Len(x) = o + BLOCK_SIZE + d
    <3>1. n - q - 1 \in Nat /\ q + p - n \in Nat
      BY <1>9
    <3>2. BLOCK_SIZE * (n - 1) = BLOCK_SIZE * q + BLOCK_SIZE * (n - q - 1)
      BY <1>0
    <3>3. BLOCK_SIZE * p = BLOCK_SIZE * (n - q - 1) + BLOCK_SIZE
                             + BLOCK_SIZE * (q + p - n)
      BY <1>0
    <3>4. /\ BLOCK_SIZE * (n - q - 1) \in Nat /\ BLOCK_SIZE * q \in Nat
          /\ BLOCK_SIZE * (q + p - n) \in Nat
      BY <1>0, <3>1
    <3>5. Len(x) = BLOCK_SIZE * (n - q - 1) + BLOCK_SIZE
                     + (BLOCK_SIZE * (q + p - n) + s)
      BY <1>0, <1>2, <3>3, <3>4
    <3>6. BLOCK_SIZE * (n - 1) = Len(m) + BLOCK_SIZE * (n - q - 1)
      BY <1>1, <3>2
    <3>7. PICK o \in Nat, e \in Nat :
            o = BLOCK_SIZE * (n - q - 1) /\ e = BLOCK_SIZE * (q + p - n)
      BY <3>4
    <3>8. Len(x) = o + BLOCK_SIZE + (e + s) /\ e + s \in Nat
      BY <3>5, <3>7
    <3>9. BLOCK_SIZE * (n - 1) = Len(m) + o
      BY <3>6, <3>7
    <3> QED
      BY <1>0, <3>7, <3>8, <3>9
  <2>2. \A k \in 1 .. BLOCK_SIZE :
          /\ y + o + k \in 1 .. Len(m) + Len(x)
          /\ ~(y + o + k <= Len(m)) /\ y + o + k - Len(m) = o + k
    BY <1>0, <2>1
  <2>3. \A k \in 1 .. BLOCK_SIZE : c[y + o + k] = x[o + k]
    <3>1. \A h \in 1 .. Len(m) + Len(x) :
            ~(h <= Len(m)) => c[h] = x[h - Len(m)]
      BY <1>0 DEF c
    <3> QED
      BY <2>2, <3>1
  <2> QED
    BY <2>1, <2>3 DEF BlockBehind
<1>10. ASSUME NEW n \in 1 .. Len(Blocks(c))
       PROVE  Blocks(c)[n] = (Blocks(m) \o Blocks(x))[n]
  <2>1. n \in 1 .. q + p
    BY <1>4, <1>10
  <2>2. CASE n <= q
    <3>1. n \in 1 .. q
      BY <2>1, <2>2
    <3> QED
      BY <1>4, <1>5, <1>7, <1>8, <2>1, <2>2, <3>1
  <2>3. CASE n > q
    <3>1. n - q \in 1 .. p /\ ~(n <= q)
      BY <2>1, <2>3
    <3>2. Blocks(c)[n] = BlockBehind(x, BLOCK_SIZE * (n - q - 1))
      BY <1>4, <1>9, <2>1, <2>3
    <3>3. Blocks(x)[n - q] = BlockBehind(x, BLOCK_SIZE * (n - q - 1))
      BY <1>6, <3>1
    <3>4. (Blocks(m) \o Blocks(x))[n] = Blocks(x)[n - q]
      BY <1>7, <2>1, <3>1
    <3> QED
      BY <3>2, <3>3, <3>4
  <2>4. n <= q \/ n > q
    BY <2>1
  <2> QED
    BY <2>2, <2>3, <2>4
<1> QED
  BY <1>4, <1>7, <1>10, SeqEqual DEF c

(* Less than a block is none. *)
LEMMA NoBlock ==
  ASSUME NEW S, NEW x \in Seq(S), Len(x) < BLOCK_SIZE
  PROVE  Blocks(x) = << >>
<1>1. BLOCK_SIZE \in Nat \ {0} /\ Len(x) \in Nat
  BY Md5Assumption
<1>2. Splits(Len(x), BLOCK_SIZE, 0, Len(x))
  BY <1>1 DEF Splits
<1>3. Len(x) \div BLOCK_SIZE = 0
  BY <1>2, Quotient
<1> QED
  BY <1>3, BlocksAre, EmptySeq

(* The end of a text that makes no whole block. *)
RestOf(m) == SubSeq(m, Len(m) - (Len(m) % BLOCK_SIZE) + 1, Len(m))

(* A buffer of one block begins with a text. *)
Holds(S, b, v) ==
  b \in Seq(S) /\ Len(b) = BLOCK_SIZE /\ \A k \in 1 .. Len(v) : b[k] = v[k]

(* The rest of a text is what update leaves to wait, and shorter than a   *)
(* block.                                                                  *)
LEMMA RestIs ==
  ASSUME NEW S, NEW m \in Seq(S)
  PROVE  /\ RestOf(m) \in Seq(S)
         /\ Len(RestOf(m)) = Len(m) % BLOCK_SIZE
         /\ Len(m) % BLOCK_SIZE \in 0 .. BLOCK_SIZE - 1
         /\ \A k \in 1 .. Len(m) % BLOCK_SIZE :
              RestOf(m)[k] = m[Len(m) - (Len(m) % BLOCK_SIZE) + k]
         /\ RestOf(m) = SubSeq(m, Len(Blocks(m)) * BLOCK_SIZE + 1, Len(m))
<1>0. BLOCK_SIZE \in Nat \ {0} /\ Len(m) \in Nat
  BY Md5Assumption
<1>1. PICK q \in Nat, r \in Nat :
        /\ q = Len(m) \div BLOCK_SIZE /\ r = Len(m) % BLOCK_SIZE
        /\ Len(m) = BLOCK_SIZE * q + r /\ r < BLOCK_SIZE
  <2>1. Splits(Len(m), BLOCK_SIZE, Len(m) \div BLOCK_SIZE, Len(m) % BLOCK_SIZE)
    BY <1>0, Divided
  <2> QED
    BY <2>1 DEF Splits
<1>2. PICK o \in Nat : o = BLOCK_SIZE * q /\ Len(m) = o + r
  BY <1>0, <1>1
<1>3. RestOf(m) = SubSeq(m, o + 1, o + r)
  <2>1. Len(m) - r + 1 = o + 1
    BY <1>2
  <2> QED
    BY <1>1, <1>2, <2>1 DEF RestOf
<1>4. \A k \in o + 1 .. o + r : m[k] \in S
  <2>1. \A k \in o + 1 .. o + r : k \in 1 .. Len(m)
    BY <1>2
  <2> QED
    BY <2>1
<1> DEFINE s == SubSeq(m, o + 1, o + r)
<1>5. /\ s \in Seq(S)
      /\ Len(s) = IF o + 1 <= o + r THEN o + r - (o + 1) + 1 ELSE 0
      /\ \A k \in 1 .. o + r - (o + 1) + 1 : s[k] = m[o + 1 + k - 1]
  BY <1>4, SubSeqProperties
<1> HIDE DEF s
<1>6. s \in Seq(S) /\ Len(s) = r /\ \A k \in 1 .. r : s[k] = m[o + k]
  <2>1. Len(s) = r
    BY <1>5
  <2>2. ASSUME NEW k \in 1 .. r
        PROVE  s[k] = m[o + k]
    <3>1. k \in 1 .. o + r - (o + 1) + 1 /\ o + 1 + k - 1 = o + k
      OBVIOUS
    <3> QED
      BY <1>5, <3>1
  <2> QED
    BY <1>5, <2>1, <2>2
<1>7. Len(m) - r = o
  BY <1>2
<1>8. Len(Blocks(m)) * BLOCK_SIZE = o
  <2>1. Len(Blocks(m)) = q
    BY <1>1, BlocksAre
  <2> QED
    BY <1>0, <1>2, <2>1
<1>9. RestOf(m) = SubSeq(m, Len(Blocks(m)) * BLOCK_SIZE + 1, Len(m))
  BY <1>2, <1>3, <1>8
<1>10. r \in 0 .. BLOCK_SIZE - 1
  BY <1>0, <1>1
<1> QED
  BY <1>1, <1>3, <1>6, <1>7, <1>9, <1>10 DEF s

(* Behind whole blocks, only what follows has a rest. *)
LEMMA RestBehindBlocks ==
  ASSUME NEW S, NEW m \in Seq(S), NEW x \in Seq(S), Len(m) % BLOCK_SIZE = 0
  PROVE  /\ RestOf(m \o x) = RestOf(x)
         /\ Len(m \o x) % BLOCK_SIZE = Len(x) % BLOCK_SIZE
<1>0. /\ BLOCK_SIZE \in Nat \ {0} /\ Len(m) \in Nat /\ Len(x) \in Nat
      /\ m \o x \in Seq(S)
      /\ Len(m \o x) = Len(m) + Len(x)
      /\ \A h \in 1 .. Len(m) + Len(x) :
           (m \o x)[h] = IF h <= Len(m) THEN m[h] ELSE x[h - Len(m)]
  BY Md5Assumption, ConcatProperties
<1> DEFINE c == m \o x
<1> HIDE DEF c
<1>1. PICK q \in Nat : Len(m) = BLOCK_SIZE * q
  <2>1. Splits(Len(m), BLOCK_SIZE, Len(m) \div BLOCK_SIZE, Len(m) % BLOCK_SIZE)
    BY <1>0, Divided
  <2>2. /\ Len(m) \div BLOCK_SIZE \in Nat
        /\ Len(m) = BLOCK_SIZE * (Len(m) \div BLOCK_SIZE)
    BY <1>0, <2>1 DEF Splits
  <2> QED
    BY <2>2
<1>2. PICK p \in Nat, r \in Nat : r = Len(x) % BLOCK_SIZE
        /\ Len(x) = BLOCK_SIZE * p + r /\ r < BLOCK_SIZE
  <2>1. Splits(Len(x), BLOCK_SIZE, Len(x) \div BLOCK_SIZE, Len(x) % BLOCK_SIZE)
    BY <1>0, Divided
  <2> QED
    BY <1>0, <2>1 DEF Splits
<1>3. Len(c) % BLOCK_SIZE = r
  <2>1. PICK y \in Nat, z \in Nat : y = BLOCK_SIZE * q /\ z = BLOCK_SIZE * p
                                    /\ BLOCK_SIZE * (q + p) = y + z
    BY <1>0
  <2>2. Len(c) = BLOCK_SIZE * (q + p) + r
    <3>1. Len(m) = y /\ Len(x) = z + r
      BY <1>1, <1>2, <2>1
    <3> QED
      BY <1>0, <2>1, <3>1 DEF c
  <2>3. Splits(Len(c), BLOCK_SIZE, q + p, r)
    <3>1. Len(c) \in Nat /\ q + p \in Nat
      BY <1>0 DEF c
    <3> QED
      BY <1>0, <1>2, <2>2, <3>1 DEF Splits
  <2> QED
    BY <2>3, Quotient
<1>4. r <= Len(x)
  <2>1. BLOCK_SIZE * p \in Nat
    BY <1>0
  <2> QED
    BY <1>0, <1>2, <2>1
<1>5. /\ RestOf(c) \in Seq(S) /\ Len(RestOf(c)) = r
      /\ \A k \in 1 .. r : RestOf(c)[k] = c[Len(c) - r + k]
  BY <1>0, <1>3, RestIs DEF c
<1>6. /\ RestOf(x) \in Seq(S) /\ Len(RestOf(x)) = r
      /\ \A k \in 1 .. r : RestOf(x)[k] = x[Len(x) - r + k]
  BY <1>2, RestIs
<1>7. ASSUME NEW k \in 1 .. r
      PROVE  c[Len(c) - r + k] = x[Len(x) - r + k]
  <2>1. PICK h \in 1 .. Len(m) + Len(x) :
          /\ h = Len(c) - r + k /\ ~(h <= Len(m))
          /\ h - Len(m) = Len(x) - r + k
    <3>1. Len(c) = Len(m) + Len(x)
      BY <1>0 DEF c
    <3>2. PICK h \in Int : h = Len(c) - r + k
      <4>1. Len(c) - r + k \in Int
        BY <1>0, <3>1
      <4> QED
        BY <4>1
    <3>3. /\ h \in 1 .. Len(m) + Len(x) /\ ~(h <= Len(m))
          /\ h - Len(m) = Len(x) - r + k
      BY <1>0, <1>4, <3>1, <3>2
    <3> QED
      BY <3>2, <3>3
  <2>2. c[h] = x[h - Len(m)]
    BY <1>0, <2>1 DEF c
  <2> QED
    BY <2>1, <2>2
<1>8. RestOf(c) = RestOf(x)
  <2>1. \A k \in 1 .. Len(RestOf(c)) : RestOf(c)[k] = RestOf(x)[k]
    BY <1>5, <1>6, <1>7
  <2> QED
    BY <1>5, <1>6, <2>1, SeqEqual
<1> QED
  BY <1>2, <1>3, <1>8 DEF c

(* A text is its whole blocks and its rest, and goes on from the rest. *)
LEMMA GoesOn ==
  ASSUME NEW S, NEW m \in Seq(S), NEW x \in Seq(S)
  PROVE  /\ Blocks(m \o x) = Blocks(m) \o Blocks(RestOf(m) \o x)
         /\ RestOf(m \o x) = RestOf(RestOf(m) \o x)
         /\ Len(m \o x) % BLOCK_SIZE = Len(RestOf(m) \o x) % BLOCK_SIZE
<1> DEFINE v == RestOf(m)
           w == SubSeq(m, 1, Len(m) - (Len(m) % BLOCK_SIZE))
<1>0. BLOCK_SIZE \in Nat \ {0} /\ Len(m) \in Nat
  BY Md5Assumption
<1>1. PICK q \in Nat, r \in Nat :
        /\ r = Len(m) % BLOCK_SIZE
        /\ Len(m) = BLOCK_SIZE * q + r /\ r < BLOCK_SIZE
  <2>1. Splits(Len(m), BLOCK_SIZE, Len(m) \div BLOCK_SIZE, Len(m) % BLOCK_SIZE)
    BY <1>0, Divided
  <2> QED
    BY <2>1 DEF Splits
<1>2. PICK o \in Nat : o = BLOCK_SIZE * q /\ Len(m) = o + r
  BY <1>0, <1>1
<1>3. v \in Seq(S) /\ Len(v) = r /\ \A k \in 1 .. r : v[k] = m[o + k]
  <2>1. Len(m) - r = o
    BY <1>2
  <2> QED
    BY <1>1, <2>1, RestIs
<1>4. w \in Seq(S) /\ Len(w) = o /\ \A k \in 1 .. o : w[k] = m[k]
  <2>1. w = SubSeq(m, 1, o)
    BY <1>1, <1>2
  <2>2. \A k \in 1 .. o : m[k] \in S
    <3>1. \A k \in 1 .. o : k \in 1 .. Len(m)
      BY <1>2
    <3> QED
      BY <3>1
  <2> DEFINE s == SubSeq(m, 1, o)
  <2>3. /\ s \in Seq(S)
        /\ Len(s) = IF 1 <= o THEN o - 1 + 1 ELSE 0
        /\ \A k \in 1 .. o - 1 + 1 : s[k] = m[1 + k - 1]
    BY <2>2, SubSeqProperties
  <2> HIDE DEF s
  <2>4. Len(s) = o /\ \A k \in 1 .. o : s[k] = m[k]
    BY <2>3
  <2> QED
    BY <2>1, <2>3, <2>4 DEF s
<1> HIDE DEF v, w
<1>5. Len(w) % BLOCK_SIZE = 0
  <2>1. Splits(o, BLOCK_SIZE, q, 0)
    BY <1>0, <1>2 DEF Splits
  <2> QED
    BY <1>4, <2>1, Quotient
<1>6. m = w \o v
  <2>1. /\ w \o v \in Seq(S) /\ Len(w \o v) = o + r
        /\ \A h \in 1 .. o + r :
             (w \o v)[h] = IF h <= o THEN w[h] ELSE v[h - o]
    BY <1>3, <1>4, ConcatProperties
  <2>2. ASSUME NEW h \in 1 .. Len(m)
        PROVE  m[h] = (w \o v)[h]
    <3>1. h \in 1 .. o + r
      BY <1>2
    <3>2. CASE h <= o
      BY <1>4, <2>1, <3>1, <3>2
    <3>3. CASE ~(h <= o)
      <4>1. h - o \in 1 .. r /\ o + (h - o) = h
        BY <3>1, <3>3
      <4> QED
        BY <1>3, <2>1, <3>1, <3>3, <4>1
    <3> QED
      BY <3>2, <3>3
  <2> QED
    BY <1>2, <2>1, <2>2, SeqEqual
<1>7. m \o x = w \o (v \o x) /\ v \o x \in Seq(S)
  <2>1. (w \o v) \o x = w \o (v \o x)
    BY <1>3, <1>4, ConcatAssociative
  <2>2. v \o x \in Seq(S)
    BY <1>3, ConcatProperties
  <2> QED
    BY <1>6, <2>1, <2>2
<1>8. Blocks(m) = Blocks(w)
  <2>1. Blocks(m) = Blocks(w) \o Blocks(v)
    BY <1>3, <1>4, <1>5, <1>6, BlocksBehindBlocks
  <2>2. Blocks(v) = << >>
    BY <1>1, <1>3, NoBlock
  <2>3. Blocks(w) \in Seq(Seq(S))
    BY <1>4, BlocksAre
  <2> QED
    BY <2>1, <2>2, <2>3, ConcatEmptySeq
<1>9. Blocks(m \o x) = Blocks(m) \o Blocks(v \o x)
  BY <1>4, <1>5, <1>7, <1>8, BlocksBehindBlocks
<1>10. /\ RestOf(m \o x) = RestOf(v \o x)
       /\ Len(m \o x) % BLOCK_SIZE = Len(v \o x) % BLOCK_SIZE
  <2> DEFINE y == v \o x
  <2>1. w \in Seq(S) /\ y \in Seq(S)
    BY <1>4, <1>7
  <2> HIDE DEF y
  <2>2. /\ RestOf(w \o y) = RestOf(y)
        /\ Len(w \o y) % BLOCK_SIZE = Len(y) % BLOCK_SIZE
    BY <1>5, <2>1, RestBehindBlocks
  <2> QED
    BY <1>7, <2>2 DEF y
<1> QED
  BY <1>9, <1>10 DEF v

(* Exactly a block is one, and leaves no rest. *)
LEMMA OneBlock ==
  ASSUME NEW S, NEW x \in Seq(S), Len(x) = BLOCK_SIZE
  PROVE  /\ Blocks(x) = <<x>> /\ RestOf(x) = << >>
         /\ Len(x) % BLOCK_SIZE = 0
<1>0. BLOCK_SIZE \in Nat \ {0}
  BY Md5Assumption
<1>1. Splits(BLOCK_SIZE, BLOCK_SIZE, 1, 0)
  BY <1>0 DEF Splits
<1>2. Len(x) \div BLOCK_SIZE = 1 /\ Len(x) % BLOCK_SIZE = 0
  BY <1>1, Quotient
<1>3. /\ Blocks(x) \in Seq(Seq(S)) /\ Len(Blocks(x)) = 1
      /\ Blocks(x)[1] = BlockBehind(x, BLOCK_SIZE * (1 - 1))
  <2>1. /\ Blocks(x) \in Seq(Seq(S)) /\ Len(Blocks(x)) = 1
        /\ \A n \in 1 .. 1 :
             Blocks(x)[n] = BlockBehind(x, BLOCK_SIZE * (n - 1))
    BY <1>2, BlocksAre
  <2> QED
    BY <2>1, 1 \in 1 .. 1
<1>4. BlockBehind(x, BLOCK_SIZE * (1 - 1)) = x
  <2>1. BLOCK_SIZE * (1 - 1) = 0
    BY <1>0
  <2>2. x = [k \in 1 .. BLOCK_SIZE |-> x[k]]
    BY LenProperties
  <2>3. \A k \in 1 .. BLOCK_SIZE : 0 + k = k
    OBVIOUS
  <2> QED
    BY <2>1, <2>2, <2>3 DEF BlockBehind
<1>5. Blocks(x) = <<x>>
  <2>1. <<x>> \in Seq(Seq(S)) /\ Len(<<x>>) = 1 /\ <<x>>[1] = x
    OBVIOUS
  <2>2. \A h \in 1 .. 1 : Blocks(x)[h] = <<x>>[h]
    BY <1>3, <1>4, <2>1
  <2> QED
    BY <1>3, <2>1, <2>2, SeqEqual
<1>6. RestOf(x) = << >>
  BY <1>2, RestIs, EmptySeq
<1> QED
  BY <1>2, <1>5, <1>6

(* Less than a block is all rest. *)
LEMMA AllRest ==
  ASSUME NEW S, NEW x \in Seq(S), Len(x) < BLOCK_SIZE
  PROVE  RestOf(x) = x /\ Len(x) % BLOCK_SIZE = Len(x)
<1>0. BLOCK_SIZE \in Nat \ {0} /\ Len(x) \in Nat
  BY Md5Assumption
<1>1. Splits(Len(x), BLOCK_SIZE, 0, Len(x))
  BY <1>0 DEF Splits
<1>2. Len(x) % BLOCK_SIZE = Len(x)
  BY <1>1, Quotient
<1>3. RestOf(x) = SubSeq(x, 1, Len(x))
  <2>1. Len(x) - Len(x) + 1 = 1
    BY <1>0
  <2> QED
    BY <1>2, <2>1 DEF RestOf
<1> QED
  BY <1>2, <1>3, SubSeqFull

(* What is copied behind what a buffer holds, it holds behind it. *)
LEMMA CopyHolds ==
  ASSUME NEW S, NEW b, NEW v \in Seq(S), NEW x \in Seq(S),
         Holds(S, b, v), Len(v) + Len(x) <= BLOCK_SIZE
  PROVE  Holds(S, Copy(b, Len(v), x), v \o x)
<1>0. b \in Seq(S) /\ Len(b) = BLOCK_SIZE /\ BLOCK_SIZE \in Nat
      /\ Len(v) \in Nat /\ Len(x) \in Nat
      /\ \A k \in 1 .. Len(v) : b[k] = v[k]
  BY Md5Assumption DEF Holds
<1> DEFINE c == Copy(b, Len(v), x)
<1>1. /\ c \in Seq(S) /\ Len(c) = BLOCK_SIZE
      /\ \A k \in 1 .. BLOCK_SIZE :
           c[k] = IF Len(v) < k /\ k <= Len(v) + Len(x)
                    THEN x[k - Len(v)] ELSE b[k]
  <2>1. /\ c \in Seq(S) /\ Len(c) = Len(b)
        /\ \A k \in 1 .. Len(b) :
             c[k] = IF Len(v) < k /\ k <= Len(v) + Len(x)
                      THEN x[k - Len(v)] ELSE b[k]
    <3>1. b \in Seq(S) /\ Len(v) \in Nat
      BY <1>0
    <3> QED
      BY <3>1, CopyIs
  <2> HIDE DEF c
  <2> QED
    BY <1>0, <2>1
<1>2. /\ Len(v \o x) = Len(v) + Len(x)
      /\ \A h \in 1 .. Len(v) + Len(x) :
           (v \o x)[h] = IF h <= Len(v) THEN v[h] ELSE x[h - Len(v)]
  BY ConcatProperties
<1> HIDE DEF c
<1>3. ASSUME NEW k \in 1 .. Len(v \o x)
      PROVE  c[k] = (v \o x)[k]
  <2>1. k \in 1 .. Len(v) + Len(x) /\ k \in 1 .. BLOCK_SIZE
    BY <1>0, <1>2
  <2>2. CASE k <= Len(v)
    <3>1. k \in 1 .. Len(v) /\ ~(Len(v) < k)
      BY <1>0, <2>1, <2>2
    <3> QED
      BY <1>0, <1>1, <1>2, <2>1, <2>2, <3>1
  <2>3. CASE ~(k <= Len(v))
    <3>1. Len(v) < k /\ k <= Len(v) + Len(x)
      BY <1>0, <2>1, <2>3
    <3> QED
      BY <1>1, <1>2, <2>1, <2>3, <3>1
  <2> QED
    BY <2>2, <2>3
<1> QED
  BY <1>1, <1>3 DEF Holds, c

(* A buffer that holds as much as fits is nothing else. *)
LEMMA HoldsAll ==
  ASSUME NEW S, NEW b, NEW v \in Seq(S), Holds(S, b, v), Len(v) = BLOCK_SIZE
  PROVE  b = v
  BY SeqEqual DEF Holds

(* What a context is when m has been hashed so far. *)
Hashed(S, ctx, m) ==
  /\ ctx.total = <<Len(m) % WORD, (Len(m) \div WORD) % WORD>>
  /\ ctx.state = Blocks(m)
  /\ Holds(S, ctx.buffer, RestOf(m))

(* At first, nothing has been hashed. *)
LEMMA StartsEmpty ==
  ASSUME NEW S, Int \subseteq S
  PROVE  Hashed(S, mbedtls_md5_starts_ret, << >>) /\ << >> \in Seq(S)
<1>0. BLOCK_SIZE \in Nat \ {0} /\ WORD \in Nat \ {0}
  BY Md5Assumption
<1>1. << >> \in Seq(S) /\ Len(<< >>) = 0 /\ Len(<< >>) < BLOCK_SIZE
  BY <1>0, EmptySeq
<1>2. Blocks(<< >>) = << >> /\ RestOf(<< >>) = << >>
  BY <1>1, NoBlock, AllRest
<1>3. Splits(0, WORD, 0, 0)
  BY <1>0 DEF Splits
<1>4. 0 % WORD = 0 /\ 0 \div WORD = 0
  BY <1>3, Quotient
<1>5. Holds(S, Zeros(BLOCK_SIZE), << >>)
  BY <1>0, <1>1, ZerosAre DEF Holds
<1> QED
  BY <1>1, <1>2, <1>4, <1>5 DEF Hashed, mbedtls_md5_starts_ret

(* A whole block, cut in two, where the first part waits already. *)
LEMMA FillsBlock ==
  ASSUME NEW S, NEW m \in Seq(S), NEW x \in Seq(S), NEW b,
         Holds(S, b, RestOf(m)), Len(RestOf(m)) + Len(x) = BLOCK_SIZE
  PROVE  LET full == Copy(b, Len(RestOf(m)), x)
         IN  /\ full = RestOf(m) \o x
             /\ full \in Seq(S) /\ Len(full) = BLOCK_SIZE
             /\ Blocks(m \o x) = Blocks(m) \o <<full>>
             /\ Len(m \o x) % BLOCK_SIZE = 0
             /\ m \o x \in Seq(S)
<1> DEFINE v == RestOf(m)
           full == Copy(b, Len(v), x)
<1>1. v \in Seq(S) /\ Len(v) \in Nat /\ BLOCK_SIZE \in Nat
  BY RestIs, Md5Assumption
<1>2. v \o x \in Seq(S) /\ Len(v \o x) = BLOCK_SIZE /\ m \o x \in Seq(S)
  BY <1>1, ConcatProperties
<1>3. Holds(S, full, v \o x)
  BY <1>1, CopyHolds
<1>4. full = v \o x
  BY <1>2, <1>3, HoldsAll
<1>5. Blocks(m \o x) = Blocks(m) \o Blocks(v \o x)
      /\ Len(m \o x) % BLOCK_SIZE = Len(v \o x) % BLOCK_SIZE
  BY GoesOn
<1>6. Blocks(v \o x) = <<v \o x>> /\ Len(v \o x) % BLOCK_SIZE = 0
  BY <1>2, OneBlock
<1> QED
  BY <1>2, <1>4, <1>5, <1>6

(* A text that is cut in two is its two pieces. *)
LEMMA CutInTwo ==
  ASSUME NEW S, NEW x \in Seq(S), NEW n \in 0 .. Len(x)
  PROVE  LET head == SubSeq(x, 1, n)
             rest == SubSeq(x, n + 1, Len(x))
         IN  /\ head \in Seq(S) /\ Len(head) = n
             /\ rest \in Seq(S) /\ Len(rest) = Len(x) - n
             /\ x = head \o rest
<1> DEFINE head == SubSeq(x, 1, n)
           rest == SubSeq(x, n + 1, Len(x))
<1>0. Len(x) \in Nat /\ \A k \in 1 .. Len(x) : x[k] \in S
  OBVIOUS
<1>1. head \in Seq(S) /\ Len(head) = n /\ \A k \in 1 .. n : head[k] = x[k]
  <2>1. \A k \in 1 .. n : x[k] \in S
    BY <1>0
  <2>2. /\ head \in Seq(S)
        /\ Len(head) = IF 1 <= n THEN n - 1 + 1 ELSE 0
        /\ \A k \in 1 .. n - 1 + 1 : head[k] = x[1 + k - 1]
    BY <2>1, SubSeqProperties
  <2> HIDE DEF head
  <2> QED
    BY <2>2
<1>2. /\ rest \in Seq(S) /\ Len(rest) = Len(x) - n
      /\ \A k \in 1 .. Len(x) - n : rest[k] = x[n + k]
  <2>1. \A k \in n + 1 .. Len(x) : x[k] \in S
    BY <1>0
  <2>2. /\ rest \in Seq(S)
        /\ Len(rest) = IF n + 1 <= Len(x) THEN Len(x) - (n + 1) + 1 ELSE 0
        /\ \A k \in 1 .. Len(x) - (n + 1) + 1 : rest[k] = x[n + 1 + k - 1]
    BY <1>0, <2>1, SubSeqProperties
  <2>3. /\ Len(x) - (n + 1) + 1 = Len(x) - n
        /\ \A k \in 1 .. Len(x) - n : n + 1 + k - 1 = n + k
    BY <1>0
  <2> HIDE DEF rest
  <2>4. Len(rest) = Len(x) - n
    BY <1>0, <2>2
  <2> QED
    BY <2>2, <2>3, <2>4
<1> HIDE DEF head, rest
<1>3. /\ head \o rest \in Seq(S) /\ Len(head \o rest) = Len(x)
      /\ \A h \in 1 .. Len(x) :
           (head \o rest)[h] = IF h <= n THEN head[h] ELSE rest[h - n]
  <2>1. /\ head \o rest \in Seq(S)
        /\ Len(head \o rest) = Len(head) + Len(rest)
        /\ \A h \in 1 .. Len(head) + Len(rest) :
             (head \o rest)[h]
               = IF h <= Len(head) THEN head[h] ELSE rest[h - Len(head)]
    BY <1>1, <1>2, ConcatProperties
  <2>2. Len(head) + Len(rest) = Len(x)
    BY <1>0, <1>1, <1>2
  <2> QED
    BY <1>1, <2>1, <2>2
<1>4. ASSUME NEW h \in 1 .. Len(x)
      PROVE  x[h] = (head \o rest)[h]
  <2>1. CASE h <= n
    BY <1>1, <1>3, <2>1
  <2>2. CASE ~(h <= n)
    <3>1. h - n \in 1 .. Len(x) - n /\ n + (h - n) = h
      BY <1>0, <2>2
    <3> QED
      BY <1>2, <1>3, <2>2, <3>1
  <2> QED
    BY <2>1, <2>2
<1>5. x = head \o rest
  BY <1>3, <1>4, SeqEqual
<1> QED
  BY <1>1, <1>2, <1>5 DEF head, rest

(* An update hashes its input behind what was hashed, whether it fills the *)
(* block that waits or not.                                                *)
LEMMA UpdateHashes ==
  ASSUME NEW S, NEW m \in Seq(S), NEW ctx, Hashed(S, ctx, m),
         NEW input \in Seq(S), Len(input) < WORD
  PROVE  Hashed(S, mbedtls_md5_update_ret(ctx, input), m \o input)
<1> DEFINE left  == ctx.total[1] % BLOCK_SIZE
           fill  == BLOCK_SIZE - left
           first == IF left # 0 /\ Len(input) >= fill THEN fill ELSE 0
           head  == SubSeq(input, 1, first)
           full  == Copy(ctx.buffer, left, head)
           rest  == SubSeq(input, first + 1, Len(input))
           tail  == SubSeq(rest, Len(Blocks(rest)) * BLOCK_SIZE + 1, Len(rest))
           at    == IF first = 0 THEN left ELSE 0
           new   == IF first = 0 THEN << >> ELSE <<full>>
           after == mbedtls_md5_update_ret(ctx, input)
           v     == RestOf(m)
<1>0. /\ BLOCK_SIZE \in Nat \ {0} /\ WORD \in Nat \ {0}
      /\ WORD % BLOCK_SIZE = 0
      /\ Len(m) \in Nat /\ Len(input) \in Nat
  BY Md5Assumption
<1>1. after = [total  |-> Add(ctx.total, Len(input)),
               state  |-> ctx.state \o new \o Blocks(rest),
               buffer |-> Copy(full, at, tail)]
  BY DEF mbedtls_md5_update_ret
<1>2. m \o input \in Seq(S) /\ Len(m \o input) = Len(m) + Len(input)
  BY ConcatProperties
<1>3. Add(ctx.total, Len(input))
        = <<Len(m \o input) % WORD, (Len(m \o input) \div WORD) % WORD>>
  BY <1>0, <1>2, AddCarries DEF Hashed
<1>4. /\ v \in Seq(S) /\ Len(v) = left /\ left \in 0 .. BLOCK_SIZE - 1
      /\ left = Len(m) % BLOCK_SIZE /\ Holds(S, ctx.buffer, v)
  <2>1. ctx.total[1] = Len(m) % WORD
    BY DEF Hashed
  <2>2. left = Len(m) % BLOCK_SIZE
    <3>1. (Len(m) % WORD) % BLOCK_SIZE = Len(m) % BLOCK_SIZE
      BY <1>0, RemainderTwice
    <3> QED
      BY <2>1, <3>1
  <2> QED
    BY <2>2, RestIs DEF Hashed
<1>5. first \in 0 .. Len(input)
  BY <1>0, <1>4
<1>6. /\ head \in Seq(S) /\ Len(head) = first
      /\ rest \in Seq(S) /\ Len(rest) = Len(input) - first
      /\ input = head \o rest
  BY <1>5, CutInTwo
<1>7. tail = RestOf(rest) /\ tail \in Seq(S)
  <2>1. rest \in Seq(S)
    BY <1>6
  <2> HIDE DEF rest
  <2> QED
    BY <2>1, RestIs
<1>8. Blocks(m) \in Seq(Seq(S)) /\ Blocks(rest) \in Seq(Seq(S))
      /\ ctx.state = Blocks(m)
  BY <1>6, BlocksAre DEF Hashed
<1> HIDE DEF left, first, head, full, rest, tail, at, new, after, v
<1>9. ASSUME NEW w \in Seq(S), Len(w) % BLOCK_SIZE = 0, m \o input = w \o rest,
             Blocks(w) = ctx.state \o new, at = 0,
             full \in Seq(S), Len(full) = BLOCK_SIZE
      PROVE  Hashed(S, after, m \o input)
  <2>1. Blocks(m \o input) = ctx.state \o new \o Blocks(rest)
    BY <1>6, <1>9, BlocksBehindBlocks
  <2>2. RestOf(m \o input) = tail
    BY <1>6, <1>7, <1>9, RestBehindBlocks
  <2>3. Holds(S, Copy(full, 0, tail), tail)
    <3>1. << >> \in Seq(S) /\ Len(<< >>) = 0 /\ << >> \o tail = tail
      BY <1>7, EmptySeq, ConcatEmptySeq
    <3>2. Holds(S, full, << >>)
      BY <1>9, <3>1 DEF Holds
    <3>3. Len(tail) <= BLOCK_SIZE /\ Len(tail) \in Nat
      <4>1. /\ Len(RestOf(rest)) = Len(rest) % BLOCK_SIZE
            /\ Len(rest) % BLOCK_SIZE \in 0 .. BLOCK_SIZE - 1
        BY <1>6, RestIs
      <4>2. PICK r \in 0 .. BLOCK_SIZE - 1 : Len(tail) = r
        BY <1>7, <4>1
      <4> QED
        BY <1>0, <4>2
    <3>4. Holds(S, Copy(full, Len(<< >>), tail), << >> \o tail)
      <4>1. Len(<< >>) + Len(tail) <= BLOCK_SIZE
        BY <3>1, <3>3
      <4> QED
        BY <1>7, <3>1, <3>2, <4>1, CopyHolds
    <3> QED
      BY <3>1, <3>4
  <2> QED
    BY <1>1, <1>3, <1>9, <2>1, <2>2, <2>3 DEF Hashed
<1>10. CASE first = 0
  <2>1. head = << >> /\ rest = input /\ new = << >> /\ at = left
    <3>1. head = << >>
      BY <1>6, <1>10, EmptySeq
    <3>2. rest = input
      BY <1>6, <3>1, ConcatEmptySeq
    <3> QED
      BY <1>10, <3>1, <3>2 DEF new, at
  <2>2. ctx.state \o new = Blocks(m)
    BY <1>8, <2>1, ConcatEmptySeq
  <2>3. Holds(S, full, v)
    <3>1. Len(v) + Len(head) <= BLOCK_SIZE
      BY <1>0, <1>4, <1>6, <1>10
    <3>2. v \o head = v
      BY <1>4, <2>1, ConcatEmptySeq
    <3> QED
      BY <1>4, <1>6, <3>1, <3>2, CopyHolds DEF full
  <2>4. CASE left = 0
    <3>1. Len(m) % BLOCK_SIZE = 0
      BY <1>4, <2>4
    <3>2. full \in Seq(S) /\ Len(full) = BLOCK_SIZE
      BY <2>3 DEF Holds
    <3> QED
      BY <1>9, <2>1, <2>2, <2>4, <3>1, <3>2 DEF after
  <2>5. CASE left # 0
    <3>1. Len(v) + Len(input) < BLOCK_SIZE
      BY <1>0, <1>4, <1>10, <2>5 DEF first
    <3>2. /\ v \o input \in Seq(S)
          /\ Len(v \o input) = Len(v) + Len(input)
      BY <1>4, ConcatProperties
    <3>3. Len(input) < BLOCK_SIZE
      BY <1>0, <1>4, <3>1
    <3>4. Blocks(v \o input) = << >> /\ RestOf(v \o input) = v \o input
      BY <3>1, <3>2, NoBlock, AllRest
    <3>5. Blocks(rest) = << >> /\ tail = input
      BY <1>7, <2>1, <3>3, NoBlock, AllRest
    <3>6. Blocks(m \o input) = ctx.state \o new \o Blocks(rest)
      <4>1. Blocks(m \o input) = Blocks(m) \o << >>
        BY <3>4, GoesOn DEF v
      <4> QED
        BY <2>2, <3>5, <4>1
    <3>7. RestOf(m \o input) = v \o input
      BY <3>4, GoesOn DEF v
    <3>8. Holds(S, Copy(full, at, tail), v \o input)
      BY <1>0, <1>4, <2>1, <2>3, <3>1, <3>5, CopyHolds
    <3> QED
      BY <1>1, <1>3, <3>6, <3>7, <3>8 DEF Hashed, after
  <2> QED
    BY <2>4, <2>5
<1>11. CASE first # 0
  <2>1. first = fill /\ new = <<full>> /\ at = 0
    BY <1>11 DEF first, new, at
  <2>2. Len(v) + Len(head) = BLOCK_SIZE
    BY <1>0, <1>4, <1>6, <2>1
  <2>3. /\ full \in Seq(S) /\ Len(full) = BLOCK_SIZE
        /\ Blocks(m \o head) = Blocks(m) \o <<full>>
        /\ Len(m \o head) % BLOCK_SIZE = 0 /\ m \o head \in Seq(S)
    <3>1. LET f == Copy(ctx.buffer, Len(RestOf(m)), head)
          IN  /\ f \in Seq(S) /\ Len(f) = BLOCK_SIZE
              /\ Blocks(m \o head) = Blocks(m) \o <<f>>
              /\ Len(m \o head) % BLOCK_SIZE = 0 /\ m \o head \in Seq(S)
      <4>1. /\ Holds(S, ctx.buffer, RestOf(m)) /\ head \in Seq(S)
            /\ Len(RestOf(m)) + Len(head) = BLOCK_SIZE
        BY <1>4, <1>6, <2>2 DEF v
      <4> QED
        BY <4>1, FillsBlock
    <3>2. full = Copy(ctx.buffer, Len(RestOf(m)), head)
      BY <1>4 DEF v, full
    <3> QED
      BY <3>1, <3>2
  <2>4. m \o input = (m \o head) \o rest
    <3>1. (m \o head) \o rest = m \o (head \o rest)
      <4>1. m \in Seq(S) /\ head \in Seq(S) /\ rest \in Seq(S)
        BY <1>6
      <4> QED
        BY <4>1, ConcatAssociative
    <3> QED
      BY <1>6, <3>1
  <2> QED
    BY <1>8, <1>9, <2>1, <2>3, <2>4 DEF after
<1> QED
  BY <1>10, <1>11 DEF after

(* Texts joined are a text. *)
LEMMA TextsJoin ==
  ASSUME NEW S, NEW x \in Seq(S), NEW y \in Seq(S)
  PROVE  /\ x \o y \in Seq(S) /\ Len(x \o y) = Len(x) + Len(y)
         /\ Len(x) \in Nat /\ Len(y) \in Nat
<1>1. x \o y \in Seq(S) /\ Len(x \o y) = Len(x) + Len(y)
  BY ConcatProperties
<1>2. Len(x) \in Nat /\ Len(y) \in Nat
  OBVIOUS
<1> QED
  BY <1>1, <1>2

(* Three texts joined are the same, whichever two are joined first. *)
LEMMA JoinsThree ==
  ASSUME NEW S, NEW x \in Seq(S), NEW y \in Seq(S), NEW z \in Seq(S)
  PROVE  (x \o y) \o z = x \o (y \o z)
  BY ConcatAssociative

(* Zeros behind zeros. *)
LEMMA MoreZeros ==
  ASSUME NEW a \in Nat, NEW b \in Nat
  PROVE  Zeros(a + b) = Zeros(a) \o Zeros(b)
<1>1. /\ Zeros(a) \in Seq(Int) /\ Len(Zeros(a)) = a
      /\ \A k \in 1 .. a : Zeros(a)[k] = 0
  BY ZerosAre
<1>2. /\ Zeros(b) \in Seq(Int) /\ Len(Zeros(b)) = b
      /\ \A k \in 1 .. b : Zeros(b)[k] = 0
  BY ZerosAre
<1>3. /\ Zeros(a + b) \in Seq(Int) /\ Len(Zeros(a + b)) = a + b
      /\ \A k \in 1 .. a + b : Zeros(a + b)[k] = 0
  BY a + b \in Nat, ZerosAre
<1> DEFINE c == Zeros(a) \o Zeros(b)
<1>4. /\ c \in Seq(Int) /\ Len(c) = a + b
      /\ \A h \in 1 .. a + b :
           c[h] = IF h <= a THEN Zeros(a)[h] ELSE Zeros(b)[h - a]
  BY <1>1, <1>2, ConcatProperties
<1> HIDE DEF c
<1>5. ASSUME NEW h \in 1 .. a + b
      PROVE  c[h] = 0
  <2>1. CASE h <= a
    BY <1>1, <1>4, <2>1
  <2>2. CASE ~(h <= a)
    <3>1. h - a \in 1 .. b
      BY <2>2
    <3> QED
      BY <1>2, <1>4, <2>2, <3>1
  <2> QED
    BY <2>1, <2>2
<1>6. Zeros(a + b) = c
  BY <1>3, <1>4, <1>5, SeqEqual
<1> QED
  BY <1>6 DEF c

(* What finish appends is the padding by MD5's definition, in one block or *)
(* in two.                                                                 *)
LEMMA FinishPads ==
  ASSUME NEW S, Int \subseteq S, NEW m \in Seq(S), NEW ctx, Hashed(S, ctx, m)
  PROVE  mbedtls_md5_finish_ret(ctx) = MD5(m)
<1> DEFINE used == ctx.total[1] % BLOCK_SIZE
           end  == IF Fits(used) THEN LENGTH_AT ELSE BLOCK_SIZE
           p    == <<128>> \o Zeros(end - used - 1)
           pad  == Copy(ctx.buffer, used, p)
           high == (ctx.total[1] \div (WORD \div 8))
                     + ((8 * ctx.total[2]) % WORD)
           low  == (8 * ctx.total[1]) % WORD
           blank == IF Fits(used) THEN pad ELSE Copy(pad, 0, Zeros(LENGTH_AT))
           lens == <<low, high>>
           last == Copy(blank, LENGTH_AT, lens)
           more == IF Fits(used) THEN << >> ELSE <<pad>>
           bits == 8 * Len(m)
           zeros == (2 * BLOCK_SIZE - 3 - (Len(m) % BLOCK_SIZE)) % BLOCK_SIZE
           v    == RestOf(m)
<1>0. /\ BLOCK_SIZE \in Nat \ {0} /\ BLOCK_SIZE > 2 /\ WORD \in Nat \ {0}
      /\ WORD % BLOCK_SIZE = 0 /\ Len(m) \in Nat
      /\ LENGTH_AT = BLOCK_SIZE - 2
  BY Md5Assumption DEF LENGTH_AT
<1>1. /\ mbedtls_md5_finish_ret(ctx) = ctx.state \o more \o <<last>>
      /\ MD5(m) = Blocks(m \o <<128>> \o Zeros(zeros)
                           \o <<bits % WORD, (bits \div WORD) % WORD>>)
  BY DEF mbedtls_md5_finish_ret, MD5
<1>2. lens = <<bits % WORD, (bits \div WORD) % WORD>>
  <2>1. /\ ctx.total[1] = Len(m) % WORD
        /\ ctx.total[2] = (Len(m) \div WORD) % WORD
    BY DEF Hashed
  <2>2. low = bits % WORD /\ high = (bits \div WORD) % WORD
    BY <1>0, <2>1, BitsOfWords
  <2> QED
    BY <2>2
<1>3. /\ v \in Seq(S) /\ Len(v) = used /\ used \in 0 .. BLOCK_SIZE - 1
      /\ used = Len(m) % BLOCK_SIZE /\ Holds(S, ctx.buffer, v)
  <2>1. ctx.total[1] = Len(m) % WORD
    BY DEF Hashed
  <2>2. used = Len(m) % BLOCK_SIZE
    <3>1. (Len(m) % WORD) % BLOCK_SIZE = Len(m) % BLOCK_SIZE
      BY <1>0, RemainderTwice
    <3> QED
      BY <2>1, <3>1
  <2> QED
    BY <2>2, RestIs DEF Hashed
<1>4. lens \in Seq(S) /\ Len(lens) = 2
  <2>1. bits \in Nat
    BY <1>0
  <2>2. bits % WORD \in Int /\ (bits \div WORD) % WORD \in Int
    BY <1>0, <2>1
  <2> QED
    BY <1>2, <2>2
<1>5. Blocks(m) \in Seq(Seq(S)) /\ ctx.state = Blocks(m)
  BY BlocksAre DEF Hashed
<1>6. Fits(used) <=> used + 1 <= BLOCK_SIZE - 2
  BY <1>0 DEF Fits
<1>7. /\ p \in Seq(S) /\ Len(p) = end - used /\ end - used - 1 \in Nat
  <2>1. end - used - 1 \in Nat
    BY <1>0, <1>3, <1>6
  <2>2. <<128>> \in Seq(S) /\ Len(<<128>>) = 1
    OBVIOUS
  <2>3. p \in Seq(S) /\ Len(p) = 1 + (end - used - 1)
    BY <2>1, <2>2, ZerosAre, ConcatProperties
  <2>4. 1 + (end - used - 1) = end - used
    BY <1>0, <1>3, <1>6
  <2> QED
    BY <2>1, <2>3, <2>4
<1> HIDE DEF lens, v, used, p
<1>8. Len(v) + Len(p) = end /\ end \in Nat /\ end <= BLOCK_SIZE
  BY <1>0, <1>3, <1>7
<1>9. Holds(S, pad, v \o p)
  BY <1>3, <1>7, <1>8, CopyHolds
<1>10. /\ v \o p \in Seq(S) /\ Len(v \o p) = end /\ m \o p \in Seq(S)
  BY <1>3, <1>7, <1>8, ConcatProperties
<1>11. Zeros(LENGTH_AT) \in Seq(S) /\ Len(Zeros(LENGTH_AT)) = LENGTH_AT
  BY <1>0, ZerosAre
<1>12. CASE Fits(used)
  <2>1. /\ end = LENGTH_AT /\ blank = pad /\ more = << >>
    BY <1>12
  <2>2. Holds(S, last, (v \o p) \o lens)
    <3>1. Len(v \o p) + Len(lens) <= BLOCK_SIZE /\ Len(v \o p) = LENGTH_AT
      BY <1>0, <1>4, <1>10, <2>1
    <3> QED
      BY <1>4, <1>9, <1>10, <2>1, <3>1, CopyHolds
  <2>3. /\ (v \o p) \o lens \in Seq(S)
        /\ Len((v \o p) \o lens) = BLOCK_SIZE
    <3>1. /\ (v \o p) \o lens \in Seq(S)
          /\ Len((v \o p) \o lens) = Len(v \o p) + Len(lens)
      BY <1>4, <1>10, TextsJoin
    <3> QED
      BY <1>0, <1>4, <1>10, <2>1, <3>1
  <2>4. last = (v \o p) \o lens
    BY <2>2, <2>3, HoldsAll
  <2>5. zeros = end - used - 1
    <3>1. Splits(2 * BLOCK_SIZE - 3 - used, BLOCK_SIZE, 1,
                 BLOCK_SIZE - 3 - used)
      BY <1>0, <1>3, <1>6, <1>12 DEF Splits
    <3>2. zeros = BLOCK_SIZE - 3 - used
      BY <1>3, <3>1, Quotient
    <3> QED
      BY <1>0, <1>3, <2>1, <3>2
  <2>6. MD5(m) = Blocks(m \o (p \o lens))
    <3>1. MD5(m) = Blocks(((m \o <<128>>) \o Zeros(end - used - 1)) \o lens)
      BY <1>1, <1>2, <2>5
    <3>2. (m \o <<128>>) \o Zeros(end - used - 1) = m \o p
      <4>1. <<128>> \in Seq(S) /\ Zeros(end - used - 1) \in Seq(S)
        BY <1>7, ZerosAre
      <4> QED
        BY <4>1, JoinsThree DEF p
    <3>3. (m \o p) \o lens = m \o (p \o lens)
      BY <1>4, <1>7, JoinsThree
    <3> QED
      BY <3>1, <3>2, <3>3
  <2>7. p \o lens \in Seq(S)
    BY <1>4, <1>7, TextsJoin
  <2>8. v \o (p \o lens) = (v \o p) \o lens
    <3>1. v \in Seq(S) /\ p \in Seq(S) /\ lens \in Seq(S)
      BY <1>3, <1>4, <1>7
    <3> QED
      BY <3>1, JoinsThree
  <2>9. Blocks(m \o (p \o lens)) = Blocks(m) \o Blocks(v \o (p \o lens))
    BY <2>7, GoesOn DEF v
  <2>10. Blocks(v \o (p \o lens)) = <<last>>
    BY <2>3, <2>4, <2>8, OneBlock
  <2>11. ctx.state \o more = Blocks(m)
    BY <1>5, <2>1, ConcatEmptySeq
  <2> QED
    BY <1>1, <2>6, <2>9, <2>10, <2>11
<1>13. CASE ~Fits(used)
  <2>1. /\ end = BLOCK_SIZE /\ more = <<pad>>
        /\ blank = Copy(pad, 0, Zeros(LENGTH_AT))
    BY <1>13
  <2>2. pad = v \o p
    BY <1>9, <1>10, <2>1, HoldsAll
  <2>3. Holds(S, blank, Zeros(LENGTH_AT))
    <3>1. << >> \in Seq(S) /\ Len(<< >>) = 0
          /\ << >> \o Zeros(LENGTH_AT) = Zeros(LENGTH_AT)
      BY <1>11, EmptySeq, ConcatEmptySeq
    <3>2. Holds(S, pad, << >>)
      BY <1>9, <3>1 DEF Holds
    <3>3. Holds(S, Copy(pad, Len(<< >>), Zeros(LENGTH_AT)),
                << >> \o Zeros(LENGTH_AT))
      <4>1. Len(<< >>) + Len(Zeros(LENGTH_AT)) <= BLOCK_SIZE
        BY <1>0, <1>11, <3>1
      <4> QED
        BY <1>11, <3>1, <3>2, <4>1, CopyHolds
    <3> QED
      BY <2>1, <3>1, <3>3
  <2>4. Holds(S, last, Zeros(LENGTH_AT) \o lens)
    <3>1. Len(Zeros(LENGTH_AT)) + Len(lens) <= BLOCK_SIZE
      BY <1>0, <1>4, <1>11
    <3>2. last = Copy(blank, Len(Zeros(LENGTH_AT)), lens)
      BY <1>11
    <3> HIDE DEF last, blank
    <3> QED
      BY <1>4, <1>11, <2>3, <3>1, <3>2, CopyHolds
  <2>5. /\ Zeros(LENGTH_AT) \o lens \in Seq(S)
        /\ Len(Zeros(LENGTH_AT) \o lens) = BLOCK_SIZE
    <3>1. /\ Zeros(LENGTH_AT) \o lens \in Seq(S)
          /\ Len(Zeros(LENGTH_AT) \o lens) = Len(Zeros(LENGTH_AT)) + Len(lens)
      BY <1>4, <1>11, TextsJoin
    <3> QED
      BY <1>0, <1>4, <1>11, <3>1
  <2>6. last = Zeros(LENGTH_AT) \o lens
    BY <2>4, <2>5, HoldsAll
  <2>7. zeros = (end - used - 1) + LENGTH_AT
    <3>1. Splits(2 * BLOCK_SIZE - 3 - used, BLOCK_SIZE, 0,
                 2 * BLOCK_SIZE - 3 - used)
      BY <1>0, <1>3, <1>6, <1>13 DEF Splits
    <3>2. zeros = 2 * BLOCK_SIZE - 3 - used
      BY <1>3, <3>1, Quotient
    <3> QED
      BY <1>0, <1>3, <2>1, <3>2
  <2>8. MD5(m) = Blocks((m \o p) \o (Zeros(LENGTH_AT) \o lens))
    <3> DEFINE z == Zeros(end - used - 1)
               y == Zeros(LENGTH_AT)
    <3>1. MD5(m) = Blocks(((m \o <<128>>) \o Zeros(zeros)) \o lens)
      BY <1>1, <1>2
    <3>2. Zeros(zeros) = z \o y
      <4>1. Zeros((end - used - 1) + LENGTH_AT) = z \o y
        BY <1>0, <1>7, LENGTH_AT \in Nat, MoreZeros
      <4> HIDE DEF zeros
      <4> QED
        BY <2>7, <4>1
    <3>3. /\ z \in Seq(S) /\ y \in Seq(S) /\ <<128>> \in Seq(S)
          /\ m \o <<128>> \in Seq(S)
      <4>1. <<128>> \in Seq(S)
        OBVIOUS
      <4> QED
        BY <1>7, <1>11, <4>1, ZerosAre, TextsJoin
    <3>4. p = <<128>> \o z
      BY DEF p
    <3> HIDE DEF z, y, zeros
    <3>5. (m \o <<128>>) \o (z \o y) = ((m \o <<128>>) \o z) \o y
      BY <3>3, JoinsThree
    <3>6. (m \o <<128>>) \o z = m \o p
      BY <3>3, <3>4, JoinsThree
    <3>7. ((m \o p) \o y) \o lens = (m \o p) \o (y \o lens)
      <4>1. m \o p \in Seq(S) /\ y \in Seq(S) /\ lens \in Seq(S)
        BY <1>4, <1>10, <3>3
      <4> QED
        BY <4>1, JoinsThree
    <3> QED
      BY <3>1, <3>2, <3>5, <3>6, <3>7 DEF y
  <2>9. /\ Blocks(m \o p) = Blocks(m) \o <<pad>>
        /\ Len(m \o p) % BLOCK_SIZE = 0
    <3>1. /\ Blocks(m \o p) = Blocks(m) \o Blocks(v \o p)
          /\ Len(m \o p) % BLOCK_SIZE = Len(v \o p) % BLOCK_SIZE
      BY <1>7, GoesOn DEF v
    <3>2. Blocks(v \o p) = <<v \o p>> /\ Len(v \o p) % BLOCK_SIZE = 0
      BY <1>10, <2>1, OneBlock
    <3> QED
      BY <2>2, <3>1, <3>2
  <2>10. Blocks((m \o p) \o (Zeros(LENGTH_AT) \o lens))
           = Blocks(m \o p) \o <<last>>
    <3> DEFINE y == Zeros(LENGTH_AT) \o lens
    <3>1. y \in Seq(S) /\ Len(y) = BLOCK_SIZE /\ last = y
      BY <2>5, <2>6
    <3> HIDE DEF y, last
    <3>2. Blocks(y) = <<last>>
      BY <3>1, OneBlock
    <3>3. Blocks((m \o p) \o y) = Blocks(m \o p) \o Blocks(y)
      BY <1>10, <2>9, <3>1, BlocksBehindBlocks
    <3> QED
      BY <3>2, <3>3 DEF y
  <2> QED
    BY <1>1, <1>5, <2>1, <2>8, <2>9, <2>10
<1> QED
  BY <1>12, <1>13

(* A message that a word can count is hashed to its MD5. *)
LEMMA HashesWhole ==
  ASSUME NEW S, Int \subseteq S, NEW m \in Seq(S), Len(m) < WORD
  PROVE  mbedtls_md5_ret(m) = MD5(m)
<1> DEFINE ctx == mbedtls_md5_update_ret(mbedtls_md5_starts_ret, m)
<1>1. Hashed(S, mbedtls_md5_starts_ret, << >>) /\ << >> \in Seq(S)
  BY StartsEmpty
<1>2. Hashed(S, ctx, << >> \o m)
  BY <1>1, UpdateHashes
<1>3. << >> \o m = m
  BY ConcatEmptySeq
<1> HIDE DEF ctx
<1>4. mbedtls_md5_finish_ret(ctx) = MD5(m)
  BY <1>2, <1>3, FinishPads
<1> QED
  BY <1>4 DEF mbedtls_md5_ret, ctx

(* So is one in two pieces that a word can count. *)
LEMMA HashesInTwo ==
  ASSUME NEW S, Int \subseteq S, NEW m \in Seq(S), NEW cut \in 0 .. Len(m),
         cut < WORD, Len(m) - cut < WORD
  PROVE  InTwo(m, cut) = MD5(m)
<1> DEFINE x   == SubSeq(m, 1, cut)
           y   == SubSeq(m, cut + 1, Len(m))
           one == mbedtls_md5_update_ret(mbedtls_md5_starts_ret, x)
           two == mbedtls_md5_update_ret(one, y)
<1>1. /\ x \in Seq(S) /\ Len(x) < WORD
      /\ y \in Seq(S) /\ Len(y) < WORD /\ m = x \o y
  BY CutInTwo
<1> HIDE DEF x, y
<1>2. Hashed(S, mbedtls_md5_starts_ret, << >>) /\ << >> \in Seq(S)
  BY StartsEmpty
<1>3. Hashed(S, one, x)
  <2>1. Hashed(S, one, << >> \o x)
    BY <1>1, <1>2, UpdateHashes
  <2>2. << >> \o x = x
    BY <1>1, ConcatEmptySeq
  <2> QED
    BY <2>1, <2>2
<1> HIDE DEF one
<1>4. Hashed(S, two, x \o y)
  BY <1>1, <1>3, UpdateHashes
<1> HIDE DEF two
<1>5. mbedtls_md5_finish_ret(two) = MD5(m)
  <2>1. Hashed(S, two, m)
    BY <1>1, <1>4
  <2> QED
    BY <2>1, FinishPads
<1> QED
  BY <1>5 DEF InTwo, one, two, x, y

(* What md5.c compresses is the message padded as MD5 demands, for every   *)
(* message in one or two pieces that a word can count, every size of a     *)
(* block and every width of a word.                                        *)
THEOREM DigestAlways == Spec => []DigestIsMd5
<1>1. ASSUME NEW n \in Nat, NEW cut \in 0 .. n, cut < WORD, n - cut < WORD
      PROVE  LET message == [k \in 1 .. n |-> k]
             IN  InTwo(message, cut) = MD5(message)
  <2> DEFINE message == [k \in 1 .. n |-> k]
  <2>1. message \in [1 .. n -> Int]
    OBVIOUS
  <2>2. message \in Seq(Int) /\ Len(message) = n
    BY <2>1, Tabulated
  <2> HIDE DEF message
  <2>3. InTwo(message, cut) = MD5(message)
    <3>1. Int \subseteq Int /\ cut \in 0 .. Len(message)
      BY <2>2
    <3>2. Len(message) - cut < WORD
      BY <1>1, <2>2
    <3> QED
      BY <1>1, <2>2, <3>1, <3>2, HashesInTwo
  <2> QED
    BY <2>3 DEF message
<1>2. DigestIsMd5
  <2>1. \A n \in 0 .. WORD + BLOCK_SIZE : n \in Nat
    BY Md5Assumption
  <2> QED
    BY <1>1, <2>1 DEF DigestIsMd5
<1> QED
  BY <1>2, PTL

-----------------------------------------------------------------------------

(* Induction, over a set of numbers. *)
LEMMA Smallest ==
  ASSUME NEW S, S \subseteq Nat, S # {}
  PROVE  \E n \in S : \A m \in S : n <= m
<1> DEFINE Less == {p \in Nat \X Nat : p[1] < p[2]}
<1>1. IsWellFoundedOn(Less, Nat)
  BY NatLessThanWellFounded DEF OpToRel
<1>2. PICK n \in S : \A m \in S : ~(<<m, n>> \in Less)
  <2> HIDE DEF Less
  <2> QED
    BY <1>1, WFMin
<1>3. ASSUME NEW m \in S
      PROVE  n <= m
  <2>1. m \in Nat /\ n \in Nat /\ <<m, n>> \in Nat \X Nat
    OBVIOUS
  <2>2. ~(m < n)
    BY <1>2, <2>1
  <2> QED
    BY <2>1, <2>2
<1> QED
  BY <1>3

(* What holds of 0, and of the next number of each, holds of all numbers. *)
LEMMA Induction ==
  ASSUME NEW S, 0 \in S, \A n \in Nat : n \in S => n + 1 \in S
  PROVE  Nat \subseteq S
<1>1. SUFFICES ASSUME Nat \ S # {}
               PROVE  FALSE
  OBVIOUS
<1>2. PICK n \in Nat \ S : \A m \in Nat \ S : n <= m
  BY <1>1, Smallest
<1> QED
  BY <1>2, n - 1 \in Nat

(* What holds of a number whenever it holds of all smaller ones holds of   *)
(* all.                                                                    *)
LEMMA GeneralInduction ==
  ASSUME NEW S, \A n \in Nat : (\A m \in 0 .. n - 1 : m \in S) => n \in S
  PROVE  Nat \subseteq S
<1>1. SUFFICES ASSUME Nat \ S # {}
               PROVE  FALSE
  OBVIOUS
<1>2. PICK n \in Nat \ S : \A m \in Nat \ S : n <= m
  BY <1>1, Smallest
<1>3. \A m \in 0 .. n - 1 : m \in S
  BY <1>2
<1> QED
  BY <1>3

(* f starts with a, and G takes it from each number to the next. *)
Follows(f, a, G, n) ==
  f[0] = a /\ \A k \in 1 .. n : f[k] = G[<<f[k - 1], k>>]

(* There is a function that follows a given step, up to any number. *)
LEMMA Recursion ==
  ASSUME NEW A, NEW a \in A, NEW G \in [A \X Nat -> A], NEW n \in Nat
  PROVE  \E f \in [0 .. n -> A] : Follows(f, a, G, n)
<1> DEFINE S == {k \in Nat : \E f \in [0 .. k -> A] : Follows(f, a, G, k)}
<1>1. 0 \in S
  <2> DEFINE f == [l \in 0 .. 0 |-> a]
  <2> f \in [0 .. 0 -> A] /\ Follows(f, a, G, 0)
    BY DEF Follows
  <2> QED
    OBVIOUS
<1>2. ASSUME NEW k \in Nat, k \in S
      PROVE  k + 1 \in S
  <2>1. PICK f \in [0 .. k -> A] : Follows(f, a, G, k)
    BY <1>2
  <2> DEFINE h == [l \in 0 .. k + 1 |->
                     IF l = k + 1 THEN G[<<f[k], k + 1>>] ELSE f[l]]
  <2>2. h \in [0 .. k + 1 -> A]
    OBVIOUS
  <2>3. ASSUME NEW l \in 1 .. k + 1
        PROVE  h[l] = G[<<h[l - 1], l>>]
    <3>1. CASE l = k + 1
      <4>1. h[k + 1] = G[<<f[k], k + 1>>] /\ h[k] = f[k]
        OBVIOUS
      <4>2. l - 1 = k
        BY <3>1
      <4> HIDE DEF h
      <4> QED
        BY <3>1, <4>1, <4>2
    <3>2. CASE l \in 1 .. k
      <4>1. f[l] = G[<<f[l - 1], l>>]
        BY <2>1, <3>2 DEF Follows
      <4>2. h[l] = f[l] /\ h[l - 1] = f[l - 1]
        BY <3>2
      <4> QED
        BY <4>1, <4>2
    <3> QED
      BY <3>1, <3>2
  <2>4. h[0] = a
    BY <2>1 DEF Follows
  <2> HIDE DEF h
  <2>5. Follows(h, a, G, k + 1)
    BY <2>3, <2>4 DEF Follows
  <2> QED
    BY <2>2, <2>5
<1>3. Nat \subseteq S
  <2> HIDE DEF S
  <2> QED
    BY <1>1, <1>2, Induction
<1> QED
  BY <1>3

(* strtoul goes through the digits, one after the other. *)
Accumulates(f, digits) ==
  f = [k \in 0 .. Len(digits) |->
         IF k = 0 THEN 0 ELSE 10 * f[k - 1] + digits[k]]

(* Two texts that begin with the same digits have the same sums so far. *)
LEMMA OneSum ==
  ASSUME NEW s \in Seq(0 .. 9), NEW t \in Seq(0 .. 9), Len(s) <= Len(t),
         \A k \in 1 .. Len(s) : s[k] = t[k],
         NEW f, Accumulates(f, s), NEW g, Accumulates(g, t)
  PROVE  \A k \in 0 .. Len(s) : f[k] = g[k]
<1>0. Len(s) \in Nat /\ Len(t) \in Nat
  OBVIOUS
<1> DEFINE S == {k \in Nat : k <= Len(s) => f[k] = g[k]}
<1>1. 0 \in S
  BY <1>0 DEF Accumulates
<1>2. ASSUME NEW k \in Nat, k \in S
      PROVE  k + 1 \in S
  <2>1. CASE k + 1 <= Len(s)
    <3>1. /\ k + 1 \in 0 .. Len(s) /\ k + 1 \in 0 .. Len(t)
          /\ k + 1 \in 1 .. Len(s)
          /\ k + 1 # 0 /\ (k + 1) - 1 = k
      BY <1>0, <2>1
    <3>2. f[k + 1] = 10 * f[k] + s[k + 1] /\ g[k + 1] = 10 * g[k] + t[k + 1]
      BY <3>1 DEF Accumulates
    <3>3. f[k] = g[k]
      BY <1>0, <1>2, <2>1
    <3> QED
      BY <3>1, <3>2, <3>3
  <2>2. CASE ~(k + 1 <= Len(s))
    BY <2>2
  <2> QED
    BY <2>1, <2>2
<1>3. Nat \subseteq S
  <2> HIDE DEF S
  <2> QED
    BY <1>1, <1>2, Induction
<1> QED
  BY <1>0, <1>3

(* strtoul's result is the last of the sums. *)
LEMMA NumberIs ==
  ASSUME NEW digits \in Seq(0 .. 9)
  PROVE  \E f \in [0 .. Len(digits) -> Nat] :
           Accumulates(f, digits) /\ Reader!Number(digits) = f[Len(digits)]
<1> DEFINE G == [p \in Nat \X Nat |->
                   IF p[2] \in 1 .. Len(digits) THEN 10 * p[1] + digits[p[2]]
                                                ELSE 0]
<1>0. Len(digits) \in Nat /\ \A k \in 1 .. Len(digits) : digits[k] \in 0 .. 9
  OBVIOUS
<1>1. G \in [Nat \X Nat -> Nat]
  BY <1>0
<1>2. PICK f \in [0 .. Len(digits) -> Nat] : Follows(f, 0, G, Len(digits))
  <2> HIDE DEF G
  <2> QED
    BY <1>0, <1>1, Recursion
<1>3. \A k \in 0 .. Len(digits) :
        f[k] = IF k = 0 THEN 0 ELSE 10 * f[k - 1] + digits[k]
  <2> SUFFICES ASSUME NEW k \in 1 .. Len(digits)
               PROVE  f[k] = 10 * f[k - 1] + digits[k]
    BY <1>0, <1>2 DEF Follows
  <2>1. k - 1 \in 0 .. Len(digits) /\ k \in Nat
    BY <1>0
  <2>2. f[k - 1] \in Nat
    BY <2>1
  <2>3. G[<<f[k - 1], k>>] = 10 * f[k - 1] + digits[k]
    BY <2>1, <2>2
  <2> HIDE DEF G
  <2> QED
    BY <1>2, <2>3 DEF Follows
<1>4. Accumulates(f, digits)
  BY <1>3 DEF Accumulates
<1> DEFINE chosen == CHOOSE g : Accumulates(g, digits)
<1>5. Accumulates(chosen, digits)
  BY <1>4
<1>6. Reader!Number(digits) = chosen[Len(digits)]
  BY DEF Reader!Number, Accumulates
<1> HIDE DEF chosen
<1>7. \A k \in 0 .. Len(digits) : chosen[k] = f[k]
  BY <1>0, <1>4, <1>5, OneSum
<1>8. chosen[Len(digits)] = f[Len(digits)]
  BY <1>0, <1>7
<1> QED
  BY <1>4, <1>6, <1>8

(* One digit more makes ten times the number, and the digit. *)
LEMMA NumberAppends ==
  ASSUME NEW s \in Seq(0 .. 9), NEW d \in 0 .. 9
  PROVE  /\ Reader!Number(s) \in Nat
         /\ Reader!Number(Append(s, d)) = 10 * Reader!Number(s) + d
<1> DEFINE t == Append(s, d)
<1>1. /\ t \in Seq(0 .. 9) /\ Len(t) = Len(s) + 1 /\ t[Len(s) + 1] = d
      /\ Len(s) \in Nat /\ \A k \in 1 .. Len(s) : s[k] = t[k]
  OBVIOUS
<1> HIDE DEF t
<1>2. PICK f \in [0 .. Len(s) -> Nat] :
        Accumulates(f, s) /\ Reader!Number(s) = f[Len(s)]
  BY NumberIs
<1>3. PICK g \in [0 .. Len(t) -> Nat] :
        Accumulates(g, t) /\ Reader!Number(t) = g[Len(t)]
  BY <1>1, NumberIs
<1>4. f[Len(s)] = g[Len(s)]
  <2>1. \A k \in 0 .. Len(s) : f[k] = g[k]
    BY <1>1, <1>2, <1>3, OneSum
  <2> QED
    BY <1>1, <2>1
<1>5. g[Len(t)] = 10 * g[Len(s)] + d
  <2>1. Len(t) \in 0 .. Len(t) /\ Len(t) # 0 /\ Len(t) - 1 = Len(s)
    BY <1>1
  <2> QED
    BY <1>1, <1>3, <2>1 DEF Accumulates
<1>6. f[Len(s)] \in Nat
  BY <1>1, <1>2
<1> QED
  BY <1>2, <1>3, <1>4, <1>5, <1>6 DEF t

(* No digits are 0. *)
LEMMA NoDigits == Reader!Number(<< >>) = 0
<1>1. << >> \in Seq(0 .. 9) /\ Len(<< >>) = 0
  OBVIOUS
<1>2. PICK f \in [0 .. 0 -> Nat] :
        Accumulates(f, << >>) /\ Reader!Number(<< >>) = f[0]
  BY <1>1, NumberIs
<1> QED
  BY <1>1, <1>2 DEF Accumulates

(* The digits of a number: the last one is its remainder, and those before *)
(* it are the digits of its tenth.                                         *)
Tenfold(f, n) ==
  \A m \in 0 .. n :
    f[m] = IF m < 10 THEN <<m>> ELSE Append(f[m \div 10], m % 10)

(* There is a function that gives the digits of all numbers up to n. *)
LEMMA DigitsExist ==
  ASSUME NEW n \in Nat
  PROVE  \E f \in [0 .. n -> Seq(0 .. 9)] : Tenfold(f, n)
<1> DEFINE S == {k \in Nat : \E f \in [0 .. k -> Seq(0 .. 9)] : Tenfold(f, k)}
<1>1. 0 \in S
  <2> DEFINE f == [m \in 0 .. 0 |-> <<0>>]
  <2>1. f \in [0 .. 0 -> Seq(0 .. 9)] /\ Tenfold(f, 0)
    BY DEF Tenfold
  <2> QED
    BY <2>1
<1>2. ASSUME NEW k \in Nat, k \in S
      PROVE  k + 1 \in S
  <2>1. PICK f \in [0 .. k -> Seq(0 .. 9)] : Tenfold(f, k)
    BY <1>2
  <2> DEFINE last == IF k + 1 < 10 THEN <<k + 1>>
                                   ELSE Append(f[(k + 1) \div 10], (k + 1) % 10)
             h    == [m \in 0 .. k + 1 |-> IF m = k + 1 THEN last ELSE f[m]]
  <2>2. last \in Seq(0 .. 9)
    <3>1. CASE k + 1 < 10
      BY <3>1
    <3>2. CASE ~(k + 1 < 10)
      <4>1. (k + 1) \div 10 \in 0 .. k /\ (k + 1) % 10 \in 0 .. 9
        BY <3>2
      <4>2. f[(k + 1) \div 10] \in Seq(0 .. 9)
        BY <4>1
      <4> QED
        BY <3>2, <4>1, <4>2
    <3> QED
      BY <3>1, <3>2
  <2> HIDE DEF last
  <2>3. h \in [0 .. k + 1 -> Seq(0 .. 9)]
    BY <2>2
  <2>4. h[k + 1] = last /\ \A m \in 0 .. k : h[m] = f[m]
    OBVIOUS
  <2> HIDE DEF h
  <2>5. ASSUME NEW m \in 0 .. k + 1
        PROVE  h[m] = IF m < 10 THEN <<m>> ELSE Append(h[m \div 10], m % 10)
    <3>1. m < 10 \/ m \div 10 \in 0 .. k
      OBVIOUS
    <3>2. m < 10 \/ h[m \div 10] = f[m \div 10]
      BY <2>4, <3>1
    <3>3. CASE m = k + 1
      BY <2>4, <3>2, <3>3 DEF last
    <3>4. CASE m \in 0 .. k
      BY <2>1, <2>4, <3>2, <3>4 DEF Tenfold
    <3> QED
      BY <3>3, <3>4
  <2>6. Tenfold(h, k + 1)
    BY <2>5 DEF Tenfold
  <2> QED
    BY <2>3, <2>6
<1>3. Nat \subseteq S
  <2> HIDE DEF S
  <2> QED
    BY <1>1, <1>2, Induction
<1> QED
  BY <1>3

(* What matters of the bounds of int16_t: the lower one is the larger, and *)
(* they are less than 2^16 apart.                                          *)
LEMMA Bounds ==
  /\ Reader!INT16_MIN \in Int /\ Reader!INT16_MAX \in Nat
  /\ Reader!INT16_MAX < -Reader!INT16_MIN
  /\ Reader!INT16_MAX - Reader!INT16_MIN < 65536
  /\ -Reader!INT16_MIN \in Nat
<1> USE DEF Reader!INT16_MIN, Reader!INT16_MAX
<1>1. Reader!INT16_MIN \in Int
  OBVIOUS
<1>2. Reader!INT16_MAX \in Nat
  OBVIOUS
<1>3. Reader!INT16_MAX < -Reader!INT16_MIN
  OBVIOUS
<1>5. Reader!INT16_MAX - Reader!INT16_MIN < 65536
  OBVIOUS
<1>4. -Reader!INT16_MIN \in Nat
  OBVIOUS
<1> QED
  BY ONLY <1>1, <1>2, <1>3, <1>4, <1>5

(* Digits is such a function, for the magnitudes of int16_t. *)
LEMMA DigitsAre == Tenfold(Reader!Digits, -Reader!INT16_MIN)
<1> DEFINE Is(f) ==
      f = [m \in 0 .. -Reader!INT16_MIN |->
             IF m < 10 THEN <<m>> ELSE Append(f[m \div 10], m % 10)]
<1>0. -Reader!INT16_MIN \in Nat
  BY Bounds
<1>1. PICK f \in [0 .. -Reader!INT16_MIN -> Seq(0 .. 9)] :
        Tenfold(f, -Reader!INT16_MIN)
  BY <1>0, DigitsExist
<1>2. Is(f)
  BY <1>1 DEF Tenfold
<1>3. Reader!Digits = CHOOSE g : Is(g)
  BY DEF Reader!Digits
<1>4. Is(Reader!Digits)
  <2> HIDE DEF Is
  <2> QED
    BY <1>2, <1>3
<1> QED
  <2>1. \A m \in 0 .. -Reader!INT16_MIN : Reader!Digits[m] =
          IF m < 10 THEN <<m>> ELSE Append(Reader!Digits[m \div 10], m % 10)
    BY ONLY <1>4
  <2> QED
    BY <2>1 DEF Tenfold

(* They are digits, and read back as the number. *)
LEMMA DigitsReadBack ==
  ASSUME NEW n \in 0 .. -Reader!INT16_MIN
  PROVE  /\ Reader!Digits[n] \in Seq(0 .. 9) /\ Len(Reader!Digits[n]) > 0
         /\ Reader!Number(Reader!Digits[n]) = n
<1> DEFINE Back(m) == /\ Reader!Digits[m] \in Seq(0 .. 9)
                      /\ Len(Reader!Digits[m]) > 0
                      /\ Reader!Number(Reader!Digits[m]) = m
           S == {m \in Nat : m <= -Reader!INT16_MIN => Back(m)}
<1>0. -Reader!INT16_MIN \in Nat
  BY Bounds
<1>1. ASSUME NEW m \in Nat, \A k \in 0 .. m - 1 : k \in S
      PROVE  m \in S
  <2> SUFFICES ASSUME m <= -Reader!INT16_MIN
               PROVE  Back(m)
    OBVIOUS
  <2>1. Reader!Digits[m] =
          IF m < 10 THEN <<m>> ELSE Append(Reader!Digits[m \div 10], m % 10)
    BY DigitsAre DEF Tenfold
  <2>2. CASE m < 10
    <3>1. << >> \in Seq(0 .. 9) /\ <<m>> = Append(<< >>, m) /\ m \in 0 .. 9
      BY <2>2
    <3>2. Reader!Number(<<m>>) = 10 * 0 + m
      BY <3>1, NumberAppends, NoDigits
    <3> QED
      BY <2>1, <2>2, <3>2
  <2>3. CASE m >= 10
    <3>1. /\ m \div 10 \in 0 .. m - 1 /\ m % 10 \in 0 .. 9
          /\ m = 10 * (m \div 10) + (m % 10)
      <4>1. m \div 10 \in 0 .. m - 1
        BY <2>3
      <4>2. m % 10 \in 0 .. 9
        OBVIOUS
      <4>3. m = 10 * (m \div 10) + (m % 10)
        OBVIOUS
      <4> QED
        BY <4>1, <4>2, <4>3
    <3>2. Back(m \div 10)
      <4>1. m \div 10 \in Nat /\ m \div 10 <= -Reader!INT16_MIN
        BY <1>0, <3>1
      <4> QED
        BY <1>1, <3>1, <4>1
    <3>3. Reader!Digits[m] = Append(Reader!Digits[m \div 10], m % 10)
      BY <2>1, <2>3
    <3>4. Reader!Number(Reader!Digits[m]) = m
      <4>1. Reader!Number(Append(Reader!Digits[m \div 10], m % 10))
              = 10 * (m \div 10) + (m % 10)
        <5>1. Reader!Digits[m \div 10] \in Seq(0 .. 9)
          BY <3>2
        <5>2. Reader!Number(Append(Reader!Digits[m \div 10], m % 10))
                = 10 * Reader!Number(Reader!Digits[m \div 10]) + (m % 10)
          BY <3>1, <5>1, NumberAppends
        <5> QED
          BY <3>2, <5>2
      <4> QED
        BY <3>1, <3>3, <4>1
    <3> QED
      BY <3>1, <3>2, <3>3, <3>4
  <2> QED
    BY <2>2, <2>3
<1>2. Nat \subseteq S
  <2> HIDE DEF S
  <2> QED
    BY <1>1, GeneralInduction
<1> QED
  BY <1>2

(* The values of int16_t, and the characters of a file. *)
Int16s     == Reader!INT16_MIN .. Reader!INT16_MAX
Characters == 0 .. Reader!Separator

(* A number's text is its digits, perhaps after a minus, and is read back  *)
(* as the number.                                                          *)
LEMMA TextIs ==
  ASSUME NEW n \in Int16s
  PROVE  /\ Reader!Text(n) \in Seq(0 .. 10) /\ Len(Reader!Text(n)) > 0
         /\ \A m \in 2 .. Len(Reader!Text(n)) : Reader!Text(n)[m] \in 0 .. 9
         /\ Reader!Value(Reader!Text(n)) = n
<1> DEFINE d == Reader!Digits[Reader!Magnitude(n)]
           t == Reader!Text(n)
<1>0. n \in Int /\ Reader!INT16_MIN <= n /\ n <= Reader!INT16_MAX
  BY Bounds DEF Int16s
<1>1. Reader!Magnitude(n) \in 0 .. -Reader!INT16_MIN
  BY <1>0, Bounds DEF Reader!Magnitude
<1>2. d \in Seq(0 .. 9) /\ Len(d) > 0 /\ Reader!Number(d) = Reader!Magnitude(n)
  BY <1>1, DigitsReadBack
<1> HIDE DEF d
<1>3. Reader!Int16(n) = n
  <2>1. PICK x \in Int : x = n - Reader!INT16_MIN /\ 0 <= x /\ x < 65536
    BY <1>0, Bounds
  <2>2. x % 65536 = x
    BY <2>1
  <2>3. Reader!Int16(n) = x + Reader!INT16_MIN
    BY <2>1, <2>2 DEF Reader!Int16
  <2> QED
    BY <1>0, <2>1, <2>3, Bounds
<1>4. CASE n < 0
  <2>1. t = <<10>> \o d
    BY <1>4 DEF t, d, Reader!Text, Reader!Minus
  <2>2. /\ t \in Seq(0 .. 10) /\ Len(t) = Len(d) + 1 /\ t[1] = 10
        /\ \A m \in 2 .. Len(t) : t[m] = d[m - 1]
    BY <1>2, <2>1
  <2>3. Tail(t) = d
    BY <1>2, <2>1
  <2>4. Reader!Value(t) = Reader!Int16(-Reader!Number(d))
    BY <2>2, <2>3 DEF Reader!Value, Reader!Minus
  <2>5. -Reader!Number(d) = n
    BY <1>0, <1>2, <1>4 DEF Reader!Magnitude
  <2>6. \A m \in 2 .. Len(t) : t[m] \in 0 .. 9
    BY <1>2, <2>2
  <2> QED
    BY <1>2, <1>3, <2>2, <2>4, <2>5, <2>6
<1>5. CASE ~(n < 0)
  <2>1. t = d
    BY <1>2, <1>5 DEF t, d, Reader!Text
  <2>2. d[1] \in 0 .. 9 /\ \A m \in 2 .. Len(d) : d[m] \in 0 .. 9
    BY <1>2
  <2>3. Reader!Value(t) = Reader!Int16(Reader!Number(d))
    BY <2>1, <2>2 DEF Reader!Value, Reader!Minus
  <2>4. Reader!Number(d) = n
    BY <1>0, <1>2, <1>5 DEF Reader!Magnitude
  <2>5. d \in Seq(0 .. 10)
    BY <1>2
  <2> QED
    BY <1>2, <1>3, <2>1, <2>2, <2>3, <2>4, <2>5
<1> QED
  BY <1>0, <1>4, <1>5

-----------------------------------------------------------------------------
(* f gives the prefixes of a file that end with each of its numbers. *)
Joins(f, ns) ==
  f = [k \in 0 .. Len(ns) |->
         IF k = 0 THEN << >>
         ELSE (IF k = 1 THEN << >> ELSE Append(f[k - 1], Reader!Separator))
                \o Reader!Text(ns[k])]

(* The prefixes of a file are texts, each made from the one before it. *)
LEMMA UpToIs ==
  ASSUME NEW ns \in Seq(Int16s)
  PROVE  /\ Reader!UpTo(ns) \in [0 .. Len(ns) -> Seq(Characters)]
         /\ Joins(Reader!UpTo(ns), ns)
<1> DEFINE Next1(text, k) ==
             (IF k = 1 THEN << >> ELSE Append(text, Reader!Separator))
               \o Reader!Text(ns[k])
           G == [p \in Seq(Characters) \X Nat |->
                   IF p[2] \in 1 .. Len(ns) THEN Next1(p[1], p[2]) ELSE << >>]
<1>0. /\ Len(ns) \in Nat /\ << >> \in Seq(Characters)
      /\ 0 .. 10 \subseteq Characters /\ Reader!Separator \in Characters
  BY DEF Characters, Reader!Separator
<1>1. ASSUME NEW text \in Seq(Characters), NEW k \in 1 .. Len(ns)
      PROVE  Next1(text, k) \in Seq(Characters)
  <2>1. ns[k] \in Int16s
    OBVIOUS
  <2>2. Reader!Text(ns[k]) \in Seq(Characters)
    <3>1. Reader!Text(ns[k]) \in Seq(0 .. 10)
      BY <2>1, TextIs
    <3> QED
      BY <1>0, <3>1, SeqMonotonic
  <2>3. (IF k = 1 THEN << >> ELSE Append(text, Reader!Separator))
          \in Seq(Characters)
    BY <1>0
  <2> QED
    BY <2>2, <2>3
<1> HIDE DEF Next1
<1>2. G \in [Seq(Characters) \X Nat -> Seq(Characters)]
  BY <1>0, <1>1
<1>3. PICK f \in [0 .. Len(ns) -> Seq(Characters)] :
        Follows(f, << >>, G, Len(ns))
  <2> HIDE DEF G
  <2> QED
    BY <1>0, <1>2, Recursion
<1>4. ASSUME NEW k \in 1 .. Len(ns)
      PROVE  f[k] = Next1(f[k - 1], k)
  <2>1. k - 1 \in 0 .. Len(ns) /\ k \in Nat
    BY <1>0
  <2>2. f[k - 1] \in Seq(Characters)
    BY <2>1
  <2>3. G[<<f[k - 1], k>>] = Next1(f[k - 1], k)
    BY <2>1, <2>2
  <2> HIDE DEF G
  <2> QED
    BY <1>3, <2>3 DEF Follows
<1>5. Joins(f, ns)
  <2>1. \A k \in 0 .. Len(ns) : k = 0 \/ k \in 1 .. Len(ns)
    BY <1>0
  <2>2. f[0] = << >>
    BY <1>3 DEF Follows
  <2> QED
    BY <1>4, <2>1, <2>2 DEF Joins, Next1
<1> DEFINE upto == CHOOSE g : Joins(g, ns)
<1>6. Joins(upto, ns)
  BY <1>5
<1>7. Reader!UpTo(ns) = upto
  BY DEF Reader!UpTo, Joins
<1> HIDE DEF upto
<1> DEFINE S == {k \in Nat : k <= Len(ns) => upto[k] = f[k]}
<1>8. Nat \subseteq S
  <2>1. 0 \in S
    BY <1>0, <1>5, <1>6 DEF Joins
  <2>2. ASSUME NEW k \in Nat, k \in S
        PROVE  k + 1 \in S
    <3> SUFFICES ASSUME k + 1 <= Len(ns)
                 PROVE  upto[k + 1] = f[k + 1]
      OBVIOUS
    <3>1. k + 1 \in 0 .. Len(ns) /\ k + 1 # 0 /\ (k + 1) - 1 = k
      BY <1>0
    <3>2. upto[k] = f[k]
      BY <1>0, <2>2
    <3>3. upto[k + 1] = Next1(upto[k], k + 1)
      BY <1>6, <3>1 DEF Joins, Next1
    <3>4. f[k + 1] = Next1(f[k], k + 1)
      BY <1>5, <3>1 DEF Joins, Next1
    <3> QED
      BY <3>2, <3>3, <3>4
  <2> HIDE DEF S
  <2> QED
    BY <2>1, <2>2, Induction
<1>9. upto = f
  <2>1. \A k \in 0 .. Len(ns) : upto[k] = f[k]
    BY <1>0, <1>8
  <2>2. upto = [k \in 0 .. Len(ns) |-> upto[k]]
    BY <1>6 DEF Joins
  <2> HIDE DEF S
  <2> QED
    BY <2>1, <2>2
<1> QED
  BY <1>5, <1>7, <1>9

(* t is s, a gap of at most one separator, and the text d. *)
Extends(t, s, gap, d) ==
  /\ s \in Seq(Characters) /\ t \in Seq(Characters)
  /\ gap \in {0, 1} /\ Len(d) \in Nat
  /\ Len(t) = Len(s) + gap + Len(d)
  /\ \A m \in 1 .. Len(s) : t[m] = s[m]
  /\ gap = 1 => t[Len(s) + 1] = Reader!Separator
  /\ \A m \in 1 .. Len(d) : t[Len(s) + gap + m] = d[m]

(* A file begins with nothing. *)
LEMMA NothingFirst ==
  ASSUME NEW ns \in Seq(Int16s)
  PROVE  Reader!UpTo(ns)[0] = << >>
<1>1. 0 \in 0 .. Len(ns)
  OBVIOUS
<1> QED
  BY <1>1, UpToIs DEF Joins

(* A separator and a number's text behind a text extend it. *)
LEMMA JoinIs ==
  ASSUME NEW s \in Seq(Characters), NEW n \in Int16s
  PROVE  Extends(Append(s, Reader!Separator) \o Reader!Text(n),
                 s, 1, Reader!Text(n))
<1> DEFINE a == Append(s, Reader!Separator)
           d == Reader!Text(n)
           t == a \o d
<1>1. Reader!Separator \in Characters /\ 0 .. 10 \subseteq Characters
  BY DEF Characters, Reader!Separator
<1>2. d \in Seq(Characters)
  <2>1. d \in Seq(0 .. 10)
    BY TextIs
  <2> HIDE DEF d
  <2> QED
    BY <1>1, <2>1, SeqMonotonic
<1>3. /\ a \in Seq(Characters) /\ Len(a) = Len(s) + 1 /\ Len(s) \in Nat
      /\ a[Len(s) + 1] = Reader!Separator
      /\ \A m \in 1 .. Len(s) : a[m] = s[m]
  BY <1>1
<1> HIDE DEF a, d
<1>4. Len(d) \in Nat
  BY <1>2
<1>5. Len(t) = Len(a) + Len(d) /\ t \in Seq(Characters)
  BY <1>2, <1>3, ConcatProperties
<1>6. \A m \in 1 .. Len(a) : t[m] = a[m]
  BY <1>2, <1>3
<1>7. \A m \in 1 .. Len(d) : t[Len(a) + m] = d[m]
  BY <1>2, <1>3
<1> HIDE DEF t
<1>8. Extends(t, s, 1, d)
  BY <1>3, <1>4, <1>5, <1>6, <1>7 DEF Extends
<1> QED
  BY <1>8 DEF a, d, t

(* A number's text, behind a separator unless it is the first. *)
Gap(k) == IF k = 1 THEN 0 ELSE 1

(* Each number's text extends what is before it in the file. *)
LEMMA UpToStep ==
  ASSUME NEW ns \in Seq(Int16s), NEW k \in 1 .. Len(ns)
  PROVE  /\ Extends(Reader!UpTo(ns)[k], Reader!UpTo(ns)[k - 1], Gap(k),
                    Reader!Text(ns[k]))
         /\ k = 1 => Len(Reader!UpTo(ns)[k - 1]) = 0
<1> DEFINE d == Reader!Text(ns[k])
           s == Reader!UpTo(ns)[k - 1]
           t == Reader!UpTo(ns)[k]
<1>0. /\ k \in Nat /\ k # 0 /\ k - 1 \in 0 .. Len(ns) /\ k \in 0 .. Len(ns)
      /\ ns[k] \in Int16s
  OBVIOUS
<1>1. s \in Seq(Characters) /\ t \in Seq(Characters)
  BY <1>0, UpToIs
<1>2. t = (IF k = 1 THEN << >> ELSE Append(s, Reader!Separator)) \o d
  BY <1>0, UpToIs DEF Joins
<1>3. d \in Seq(0 .. 10) /\ Len(d) \in Nat
  BY <1>0, TextIs
<1>4. CASE k = 1
  <2>1. s = << >>
    <3>1. k - 1 = 0
      BY <1>4
    <3> QED
      BY <3>1, NothingFirst
  <2>2. t = d
    BY <1>2, <1>3, <1>4
  <2> HIDE DEF d, s, t
  <2>3. Len(s) = 0
    BY <2>1
  <2>4. Extends(t, s, Gap(k), d)
    BY <1>1, <1>3, <1>4, <2>2, <2>3 DEF Gap, Extends
  <2> QED
    BY <2>3, <2>4 DEF d, s, t
<1>5. CASE k # 1
  <2>1. t = Append(s, Reader!Separator) \o d
    BY <1>2, <1>5
  <2>2. Extends(Append(s, Reader!Separator) \o d, s, 1, d)
    <3> HIDE DEF s
    <3> QED
      BY <1>0, <1>1, JoinIs
  <2>3. Gap(k) = 1
    BY <1>5 DEF Gap
  <2> HIDE DEF d, s, t
  <2>4. Extends(t, s, Gap(k), d)
    BY <2>1, <2>2, <2>3
  <2> QED
    BY <1>5, <2>4 DEF d, s, t
<1> QED
  BY <1>4, <1>5

(* What comes first stays. *)
Begins(s, t) ==
  /\ Len(s) \in Nat /\ Len(t) \in Nat /\ Len(s) <= Len(t)
  /\ \A m \in 1 .. Len(s) : t[m] = s[m]

(* A longer prefix of the file begins with a shorter one. *)
LEMMA UpToGrows ==
  ASSUME NEW ns \in Seq(Int16s), NEW k \in 0 .. Len(ns), NEW l \in k .. Len(ns)
  PROVE  Begins(Reader!UpTo(ns)[k], Reader!UpTo(ns)[l])
<1> DEFINE f == Reader!UpTo(ns)
           Within(n) == /\ Len(f[k]) <= Len(f[n])
                        /\ \A m \in 1 .. Len(f[k]) : f[n][m] = f[k][m]
           S == {n \in Nat : k <= n /\ n <= Len(ns) => Within(n)}
<1>0. f \in [0 .. Len(ns) -> Seq(Characters)] /\ Joins(f, ns) /\ Len(ns) \in Nat
  BY UpToIs
<1> HIDE DEF f
<1>1. 0 \in S
  <2>1. CASE k = 0
    <3>1. f[k] \in Seq(Characters)
      BY <1>0
    <3> QED
      BY <2>1, <3>1
  <2>2. CASE k # 0
    BY <2>2
  <2> QED
    BY <2>1, <2>2
<1>2. ASSUME NEW n \in Nat, n \in S
      PROVE  n + 1 \in S
  <2> SUFFICES ASSUME k <= n + 1, n + 1 <= Len(ns)
               PROVE  Within(n + 1)
    OBVIOUS
  <2>0. f[k] \in Seq(Characters) /\ Len(f[k]) \in Nat
    BY <1>0
  <2>1. CASE k = n + 1
    BY <2>0, <2>1
  <2>2. CASE k <= n
    <3>1. Within(n)
      BY <1>0, <1>2, <2>2
    <3>2. PICK p \in 1 .. Len(ns) : p = n + 1 /\ p - 1 = n
      BY <1>0
    <3>3. Extends(f[p], f[n], Gap(p), Reader!Text(ns[p]))
      BY <3>2, UpToStep DEF f
    <3>4. /\ Len(f[p]) = Len(f[n]) + Gap(p) + Len(Reader!Text(ns[p]))
          /\ \A m \in 1 .. Len(f[n]) : f[p][m] = f[n][m]
          /\ Len(f[n]) \in Nat /\ Len(Reader!Text(ns[p])) \in Nat
          /\ Gap(p) \in Nat
      BY <3>3 DEF Extends
    <3>5. /\ Len(f[k]) <= Len(f[n])
          /\ \A m \in 1 .. Len(f[k]) : f[n][m] = f[k][m]
      BY <3>1
    <3> HIDE DEF S, Within
    <3>6. Len(f[k]) <= Len(f[p])
      BY <2>0, <3>4, <3>5
    <3>7. \A m \in 1 .. Len(f[k]) : f[p][m] = f[k][m]
      BY <2>0, <3>4, <3>5
    <3> QED
      BY <3>2, <3>6, <3>7 DEF Within
  <2> QED
    BY <2>1, <2>2
<1>3. Nat \subseteq S
  <2> HIDE DEF S
  <2> QED
    BY <1>1, <1>2, Induction
<1>4. Within(l)
  BY <1>0, <1>3
<1>5. Len(f[k]) \in Nat /\ Len(f[l]) \in Nat
  <2>1. l \in 0 .. Len(ns)
    BY <1>0
  <2> QED
    BY <1>0, <2>1
<1> QED
  BY <1>4, <1>5 DEF f, Begins

(* Where the k-th number's text is in the file, and how long it is. *)
Offset(k) == Len(Reader!UpTo(numbers)[k - 1]) + Gap(k)
Length(k) == Len(Reader!Text(numbers[k]))

(* The file is the csv of its numbers, perhaps with a separator at the end. *)
FileHeld ==
  /\ numbers \in Seq(Int16s)
  /\ file \in {Reader!Csv(numbers),
               Append(Reader!Csv(numbers), Reader!Separator)}

(* The file is its last prefix, and a separator perhaps. *)
LEMMA FileIsCsv ==
  ASSUME FileHeld, NEW csv, csv = Reader!UpTo(numbers)[Len(numbers)]
  PROVE  /\ csv \in Seq(Characters) /\ Len(file) \in Nat
         /\ \A m \in 1 .. Len(csv) : file[m] = csv[m]
         /\ \/ Len(file) = Len(csv)
            \/ Len(file) = Len(csv) + 1 /\ file[Len(csv) + 1] = Reader!Separator
<1>1. csv \in Seq(Characters) /\ Reader!Csv(numbers) = csv
  <2>1. numbers \in Seq(Int16s) /\ Len(numbers) \in 0 .. Len(numbers)
    BY DEF FileHeld
  <2> QED
    BY <2>1, UpToIs DEF Reader!Csv
<1>2. CASE file = csv
  BY <1>1, <1>2
<1>3. CASE file = Append(csv, Reader!Separator)
  <2>1. Reader!Separator \in Characters
    BY DEF Characters, Reader!Separator
  <2> QED
    BY <1>1, <1>3, <2>1, AppendProperties
<1> QED
  BY <1>1, <1>2, <1>3 DEF FileHeld

(* The k-th number's text is in the file from its offset on, with one      *)
(* separator between it and the next text; behind the last there may be    *)
(* one.                                                                    *)
LEMMA TextInFile ==
  ASSUME FileHeld, NEW k \in 1 .. Len(numbers)
  PROVE  /\ Offset(k) \in Nat /\ Length(k) \in Nat \ {0} /\ Len(file) \in Nat
         /\ k = 1 => Offset(k) = 0
         /\ Offset(k) + Length(k) <= Len(file)
         /\ \A m \in 1 .. Length(k) :
              file[Offset(k) + m] = Reader!Text(numbers[k])[m]
         /\ k < Len(numbers) =>
              /\ Offset(k + 1) = Offset(k) + Length(k) + 1
              /\ Offset(k + 1) <= Len(file)
              /\ file[Offset(k + 1)] = Reader!Separator
         /\ k = Len(numbers) =>
              \/ Len(file) = Offset(k) + Length(k)
              \/ /\ Len(file) = Offset(k) + Length(k) + 1
                 /\ file[Len(file)] = Reader!Separator
<1> DEFINE f == Reader!UpTo(numbers)
           n == Len(numbers)
           d == Reader!Text(numbers[k])
<1>0. /\ numbers \in Seq(Int16s) /\ n \in Nat /\ numbers[k] \in Int16s
      /\ k \in 0 .. n
  BY DEF FileHeld
<1>1. Extends(f[k], f[k - 1], Gap(k), d) /\ (k = 1 => Len(f[k - 1]) = 0)
  BY <1>0, UpToStep
<1>2. PICK csv : csv = f[n]
  OBVIOUS
<1>3. /\ csv \in Seq(Characters) /\ Len(file) \in Nat /\ Len(csv) \in Nat
      /\ \A m \in 1 .. Len(csv) : file[m] = csv[m]
      /\ \/ Len(file) = Len(csv)
         \/ Len(file) = Len(csv) + 1 /\ file[Len(csv) + 1] = Reader!Separator
  BY <1>2, FileIsCsv
<1>4. Len(f[k]) <= Len(csv) /\ \A m \in 1 .. Len(f[k]) : csv[m] = f[k][m]
  <2>1. n \in k .. n
    BY <1>0
  <2>2. Begins(f[k], f[n])
    BY <1>0, <2>1, UpToGrows
  <2> HIDE DEF f
  <2> QED
    BY <1>2, <2>2 DEF Begins
<1>5. Length(k) = Len(d) /\ Len(d) > 0
  BY <1>0, TextIs DEF Length
<1>11. Offset(k) = Len(f[k - 1]) + Gap(k)
  BY DEF Offset
<1>12. \A l : l - 1 = k => Offset(l) = Len(f[k]) + Gap(l)
  BY DEF Offset
<1>13. ASSUME NEW l \in 1 .. n
       PROVE  /\ Extends(f[l], f[l - 1], Gap(l), Reader!Text(numbers[l]))
              /\ Begins(f[l], f[n])
  <2>1. n \in l .. n /\ l \in 0 .. n
    BY <1>0
  <2> QED
    BY <1>0, <2>1, UpToStep, UpToGrows
<1> HIDE DEF f, d
<1>6. /\ Len(f[k - 1]) \in Nat /\ Len(f[k]) \in Nat /\ Len(d) \in Nat
      /\ Gap(k) \in {0, 1} /\ (k = 1 => Gap(k) = 0)
      /\ Len(f[k]) = Offset(k) + Length(k)
      /\ \A m \in 1 .. Len(d) : f[k][Offset(k) + m] = d[m]
  <2>1. /\ f[k - 1] \in Seq(Characters) /\ f[k] \in Seq(Characters)
        /\ Gap(k) \in {0, 1} /\ Len(d) \in Nat
        /\ Len(f[k]) = Len(f[k - 1]) + Gap(k) + Len(d)
        /\ \A m \in 1 .. Len(d) : f[k][Len(f[k - 1]) + Gap(k) + m] = d[m]
    BY <1>1 DEF Extends
  <2>2. k = 1 => Gap(k) = 0
    BY DEF Gap
  <2>3. Len(f[k - 1]) \in Nat /\ Len(f[k]) \in Nat
    BY <2>1
  <2> QED
    BY <1>5, <1>11, <2>1, <2>2, <2>3
<1>7. Offset(k) \in Nat /\ (k = 1 => Offset(k) = 0)
  BY <1>1, <1>6, <1>11
<1>8. ASSUME NEW m \in 1 .. Length(k)
      PROVE  file[Offset(k) + m] = d[m]
  <2>1. Offset(k) + m \in 1 .. Len(f[k]) /\ Offset(k) + m \in 1 .. Len(csv)
    BY <1>3, <1>4, <1>5, <1>6, <1>7
  <2> QED
    BY <1>3, <1>4, <1>5, <1>6, <2>1
<1>9. ASSUME k < n
      PROVE  /\ Offset(k + 1) = Offset(k) + Length(k) + 1
             /\ Offset(k + 1) <= Len(file)
             /\ file[Offset(k + 1)] = Reader!Separator
  <2>1. PICK l \in 1 .. n : l = k + 1 /\ l - 1 = k /\ l # 1 /\ l \in 0 .. n
    BY <1>0, <1>9
  <2>2. Extends(f[l], f[k], 1, Reader!Text(numbers[l]))
    <3>1. Extends(f[l], f[l - 1], Gap(l), Reader!Text(numbers[l]))
      BY <1>13, <2>1
    <3> QED
      BY <2>1, <3>1 DEF Gap
  <2>3. Offset(l) = Len(f[k]) + 1
    BY <1>12, <2>1 DEF Gap
  <2>4. Len(f[l]) <= Len(csv) /\ \A m \in 1 .. Len(f[l]) : csv[m] = f[l][m]
    BY <1>2, <1>13, <2>1 DEF Begins
  <2>5. /\ f[l][Len(f[k]) + 1] = Reader!Separator /\ Len(f[l]) \in Nat
        /\ Len(f[k]) + 1 <= Len(f[l])
    <3>1. /\ f[l] \in Seq(Characters) /\ Len(Reader!Text(numbers[l])) \in Nat
          /\ Len(f[l]) = Len(f[k]) + 1 + Len(Reader!Text(numbers[l]))
          /\ f[l][Len(f[k]) + 1] = Reader!Separator
      BY <2>2 DEF Extends
    <3>2. Len(f[l]) \in Nat
      <4>1. f[l] \in Seq(Characters)
        BY <2>2 DEF Extends
      <4> QED
        BY <4>1
    <3> QED
      BY <1>6, <3>1, <3>2
  <2>6. Len(f[k]) + 1 \in 1 .. Len(f[l]) /\ Len(f[k]) + 1 \in 1 .. Len(csv)
    BY <1>3, <1>6, <2>4, <2>5
  <2>7. file[Len(f[k]) + 1] = Reader!Separator
    BY <1>3, <2>4, <2>5, <2>6
  <2> QED
    BY <1>3, <1>6, <2>1, <2>3, <2>6, <2>7
<1>10. k = n => \/ Len(file) = Offset(k) + Length(k)
                \/ /\ Len(file) = Offset(k) + Length(k) + 1
                   /\ file[Len(file)] = Reader!Separator
  BY <1>2, <1>3, <1>6
<1> QED
  BY <1>3, <1>4, <1>5, <1>6, <1>7, <1>8, <1>9, <1>10 DEF d

(* A file without a number. *)
LEMMA NoNumberInFile ==
  ASSUME FileHeld, numbers = << >>
  PROVE  /\ Len(file) \in Nat
         /\ \A m \in 1 .. Len(file) : file[m] = Reader!Separator
<1>1. PICK csv : csv = Reader!UpTo(numbers)[Len(numbers)]
  OBVIOUS
<1>2. csv = << >>
  <2>1. Len(numbers) = 0 /\ 0 \in 0 .. Len(numbers) /\ numbers \in Seq(Int16s)
    BY DEF FileHeld
  <2> QED
    <3>1. Reader!UpTo(numbers)[0] = << >>
      BY <2>1, NothingFirst
    <3> QED
      BY <1>1, <2>1, <3>1
<1>3. Len(csv) = 0
  BY <1>2
<1> QED
  BY <1>1, <1>3, FileIsCsv

-----------------------------------------------------------------------------
(* The reader is on its way to the k-th number, or in its text; it has     *)
(* kept what it has read of that.                                          *)
At(k) ==
  /\ ascii_int16 \in Seq(0 .. 10)
  /\ \/ /\ position = Offset(k) + Len(ascii_int16)
        /\ Len(ascii_int16) <= Length(k)
        /\ \A m \in 1 .. Len(ascii_int16) :
             ascii_int16[m] = Reader!Text(numbers[k])[m]
     \/ k = 1 /\ ascii_int16 = << >> /\ position = Len(file)

(* While there is more of the number, the reader takes it. *)
LEMMA MoreOfNumber ==
  ASSUME FileHeld, NEW k \in 1 .. Len(numbers), At(k),
         position = Offset(k) + Len(ascii_int16), Len(ascii_int16) < Length(k)
  PROVE  /\ position < Len(file) /\ Reader!Part(Reader!Next1)
         /\ Reader!Next1 = Reader!Text(numbers[k])[Len(ascii_int16) + 1]
         /\ Reader!Next1 \in 0 .. 10
<1> DEFINE a == Len(ascii_int16)
           d == Reader!Text(numbers[k])
<1>0. a \in Nat /\ (a = 0 => ascii_int16 = << >>)
  BY DEF At
<1>1. /\ Offset(k) \in Nat /\ Length(k) \in Nat /\ Len(file) \in Nat
      /\ Offset(k) + Length(k) <= Len(file)
      /\ \A m \in 1 .. Length(k) : file[Offset(k) + m] = d[m]
  BY TextInFile
<1>2. /\ d \in Seq(0 .. 10) /\ Len(d) = Length(k)
      /\ \A m \in 2 .. Len(d) : d[m] \in 0 .. 9
  <2>1. numbers[k] \in Int16s
    BY DEF FileHeld
  <2> QED
    BY <2>1, TextIs DEF Length
<1> HIDE DEF d
<1>3. /\ a + 1 \in 1 .. Length(k) /\ position < Len(file)
      /\ position + 1 = Offset(k) + (a + 1)
  BY <1>0, <1>1
<1>4. Reader!Next1 = d[a + 1]
  BY <1>1, <1>3 DEF Reader!Next1
<1>5. d[a + 1] \in 0 .. 10 /\ (a # 0 => d[a + 1] \in 0 .. 9)
  BY <1>0, <1>2, <1>3
<1>6. Reader!Part(d[a + 1])
  BY <1>0, <1>5 DEF Reader!Part, Reader!Digit, Reader!Minus
<1> QED
  BY <1>3, <1>4, <1>5, <1>6 DEF d

(* Behind it there is a separator or the end of the file. *)
LEMMA GapIs ==
  ASSUME FileHeld, NEW k \in 1 .. Len(numbers)
  PROVE  /\ Offset(k) + Length(k) \in Nat /\ Len(file) \in Nat
         /\ \/ Offset(k) + Length(k) >= Len(file)
            \/ file[Offset(k) + Length(k) + 1] = Reader!Separator
<1>0. /\ Offset(k) \in Nat /\ Length(k) \in Nat /\ Len(file) \in Nat
      /\ Len(numbers) \in Nat
  BY TextInFile DEF FileHeld
<1>1. CASE k < Len(numbers)
  BY <1>0, <1>1, TextInFile
<1>2. CASE k = Len(numbers)
  <2>1. \/ Len(file) = Offset(k) + Length(k)
        \/ /\ Len(file) = Offset(k) + Length(k) + 1
           /\ file[Len(file)] = Reader!Separator
    BY <1>2, TextInFile
  <2> QED
    BY <1>0, <2>1
<1> QED
  BY <1>0, <1>1, <1>2

(* What is behind a number is not part of it. *)
LEMMA NotInGap ==
  ASSUME FileHeld, NEW k \in 1 .. Len(numbers), position = Offset(k) + Length(k)
  PROVE  ~Reader!Part(Reader!Next1)
<1>1. Reader!Next1 = Reader!Separator \/ Reader!Next1 = Reader!EOF
  BY GapIs DEF Reader!Next1
<1> QED
  BY <1>1 DEF Reader!Part, Reader!Digit, Reader!Minus, Reader!Separator,
     Reader!EOF

(* Behind that is the next number: the first one again after the last. *)
After(k) == IF k = Len(numbers) THEN 1 ELSE k + 1

(* At the end of its number the reader moves on to the next. *)
LEMMA EndOfNumber ==
  ASSUME FileHeld, NEW k \in 1 .. Len(numbers), Reader!Advance,
         UNCHANGED <<numbers, file>>, ascii_int16' = << >>,
         position = Offset(k) + Length(k)
  PROVE  At(After(k))'
<1>0. /\ Offset(k) \in Nat /\ Length(k) \in Nat /\ Len(file) \in Nat
      /\ Len(numbers) \in Nat /\ position \in Nat
  BY TextInFile DEF FileHeld
<1>1. << >> \in Seq(0 .. 10) /\ Len(<< >>) = 0
  OBVIOUS
<1>2. position' = IF position < Len(file) THEN position + 1 ELSE 0
  BY DEF Reader!Advance
<1>3. \A l : Offset(l)' = Offset(l) /\ Length(l)' = Length(l)
  BY DEF Offset, Length
<1>4. After(k)' = After(k) /\ After(k) \in 1 .. Len(numbers)
  BY <1>0 DEF After
<1>5. Offset(After(k)) \in Nat /\ Length(After(k)) \in Nat
  BY <1>4, TextInFile
<1>6. SUFFICES \/ position' = Offset(After(k))
               \/ After(k) = 1 /\ position' = Len(file)
  BY <1>1, <1>3, <1>4, <1>5 DEF At
<1>7. CASE k < Len(numbers)
  <2>1. /\ Offset(k + 1) = position + 1 /\ position + 1 <= Len(file)
        /\ After(k) = k + 1
    BY <1>0, <1>7, TextInFile DEF After
  <2> QED
    BY <1>0, <1>2, <2>1
<1>8. CASE k = Len(numbers)
  <2>1. After(k) = 1 /\ Offset(1) = 0
    <3>1. 1 \in 1 .. Len(numbers)
      BY <1>0
    <3> QED
      BY <1>8, <3>1, TextInFile DEF After
  <2>2. Len(file) = position \/ Len(file) = position + 1
    BY <1>8, TextInFile
  <2> QED
    BY <1>0, <1>2, <2>1, <2>2
<1> QED
  BY <1>0, <1>7, <1>8

(* A character of a number is kept, or has no room. *)
LEMMA StoreKeeps ==
  ASSUME FileHeld, NEW k \in 1 .. Len(numbers), At(k), Reader!Store
  PROVE  /\ UNCHANGED <<numbers, file, buffer>>
         /\ reader_pc' = "overrun" \/ (reader_pc' = "read" /\ At(k)')
<1> DEFINE d == Reader!Text(numbers[k])
<1>0. /\ reader_pc = "read" /\ Reader!Part(Reader!Next1) /\ Reader!Advance
      /\ UNCHANGED <<numbers, file, buffer>>
      /\ \/ /\ ascii_int16' = Append(ascii_int16, Reader!Next1)
            /\ UNCHANGED reader_pc
         \/ reader_pc' = "overrun"
  BY DEF Reader!Store
<1>1. CASE reader_pc' = "overrun"
  BY <1>0, <1>1
<1>2. CASE /\ ascii_int16' = Append(ascii_int16, Reader!Next1)
           /\ UNCHANGED reader_pc
  <2>1. position = Offset(k) + Len(ascii_int16) /\ Len(ascii_int16) < Length(k)
    <3>1. Reader!Part(Reader!Next1)
      BY <1>0
    <3>2. position # Len(file)
      BY <3>1 DEF Reader!Part, Reader!Next1, Reader!Digit, Reader!Minus,
         Reader!EOF
    <3>3. /\ position = Offset(k) + Len(ascii_int16)
          /\ Len(ascii_int16) <= Length(k)
      BY <3>2 DEF At
    <3>4. Len(ascii_int16) # Length(k)
      <4>1. CASE position = Offset(k) + Length(k)
        BY <3>1, <4>1, NotInGap
      <4> QED
        BY <3>3, <4>1
    <3>5. Len(ascii_int16) \in Nat /\ Length(k) \in Nat
      BY TextInFile DEF At
    <3> QED
      BY <3>3, <3>4, <3>5
  <2>2. /\ position < Len(file) /\ Reader!Next1 = d[Len(ascii_int16) + 1]
        /\ Reader!Next1 \in 0 .. 10
    BY <2>1, MoreOfNumber
  <2>3. PICK c \in 0 .. 10 : c = Reader!Next1
    BY <2>2
  <2>4. /\ ascii_int16 \in Seq(0 .. 10) /\ Len(ascii_int16) \in Nat
        /\ \A m \in 1 .. Len(ascii_int16) : ascii_int16[m] = d[m]
    <3>1. Len(ascii_int16) = 0 =>
            \A m \in 1 .. Len(ascii_int16) : ascii_int16[m] = d[m]
      OBVIOUS
    <3>2. ascii_int16 \in Seq(0 .. 10) /\ Len(ascii_int16) \in Nat
      BY DEF At
    <3>3. ascii_int16 = << >> => Len(ascii_int16) = 0
      OBVIOUS
    <3> QED
      BY <3>1, <3>2, <3>3 DEF At
  <2>5. /\ ascii_int16' \in Seq(0 .. 10)
        /\ Len(ascii_int16') = Len(ascii_int16) + 1
        /\ ascii_int16'[Len(ascii_int16) + 1] = c
        /\ \A m \in 1 .. Len(ascii_int16) : ascii_int16'[m] = ascii_int16[m]
    BY <1>2, <2>3, <2>4, AppendProperties
  <2>6. position' = position + 1
    BY <1>0, <2>2 DEF Reader!Advance
  <2>7. \A m \in 1 .. Len(ascii_int16') : ascii_int16'[m] = d[m]
    <3>1. \A m \in 1 .. Len(ascii_int16') :
            m \in 1 .. Len(ascii_int16) \/ m = Len(ascii_int16) + 1
      BY <2>4, <2>5
    <3> HIDE DEF d
    <3> QED
      BY <2>2, <2>3, <2>4, <2>5, <3>1
  <2>8. Offset(k)' = Offset(k) /\ Length(k)' = Length(k) /\ d' = d
    BY <1>0 DEF Offset, Length
  <2>9. /\ position' = Offset(k) + Len(ascii_int16')
        /\ Len(ascii_int16') <= Length(k)
    <3>1. Offset(k) \in Nat /\ Length(k) \in Nat
      BY TextInFile
    <3> QED
      BY <2>1, <2>4, <2>5, <2>6, <3>1
  <2>10. At(k)'
    BY <2>5, <2>7, <2>8, <2>9 DEF At
  <2> QED
    BY <1>0, <1>2, <2>10
<1> QED
  BY <1>0, <1>1, <1>2

(* Between two numbers the reader goes on. *)
LEMMA SkipKeeps ==
  ASSUME FileHeld, NEW k \in 1 .. Len(numbers), At(k), Reader!Skip
  PROVE  At(k)'
<1>0. /\ ~Reader!Part(Reader!Next1) /\ ascii_int16 = << >> /\ Reader!Advance
      /\ UNCHANGED <<numbers, file, ascii_int16>>
  BY DEF Reader!Skip
<1>1. Len(ascii_int16) = 0 /\ Length(k) \in Nat \ {0} /\ Offset(k) \in Nat
      /\ Len(file) \in Nat /\ (k = 1 => Offset(k) = 0)
  BY <1>0, TextInFile
<1>2. k = 1 /\ position = Len(file)
  <2>1. CASE position = Offset(k) + Len(ascii_int16)
    BY <1>0, <1>1, <2>1, MoreOfNumber
  <2> QED
    BY <2>1 DEF At
<1>3. position' = 0
  BY <1>0, <1>1, <1>2 DEF Reader!Advance
<1>4. Offset(k)' = Offset(k) /\ Length(k)' = Length(k)
  BY <1>0 DEF Offset, Length
<1>5. ascii_int16' \in Seq(0 .. 10) /\ Len(ascii_int16') = 0
  BY <1>0, <1>1 DEF At
<1> QED
  BY <1>1, <1>2, <1>3, <1>4, <1>5 DEF At

(* What is converted is the number, if its text was terminated. *)
LEMMA ConvertMoves ==
  ASSUME FileHeld, NEW k \in 1 .. Len(numbers), At(k), Reader!Convert
  PROVE  /\ At(After(k))' /\ UNCHANGED <<numbers, file>>
         /\ reader_pc' = IF Len(buffer') < Words THEN "read" ELSE "done"
         /\ \E v : /\ buffer' = Append(buffer, v)
                   /\ Terminated(numbers[k]) => v = numbers[k]
<1> DEFINE d == Reader!Text(numbers[k])
<1>0. /\ ~Reader!Part(Reader!Next1) /\ ascii_int16 # << >> /\ Reader!Advance
      /\ ascii_int16' = << >> /\ UNCHANGED <<numbers, file>>
      /\ reader_pc' = IF Len(buffer') < Words THEN "read" ELSE "done"
  BY DEF Reader!Convert
<1>1. PICK text \in Reader!Readings :
        buffer' = Append(buffer, Reader!Value(text))
  BY DEF Reader!Convert
<1>2. /\ ascii_int16 \in Seq(0 .. 10) /\ position = Offset(k) + Len(ascii_int16)
      /\ Len(ascii_int16) <= Length(k)
      /\ \A m \in 1 .. Len(ascii_int16) : ascii_int16[m] = d[m]
  BY <1>0 DEF At
<1>3. Len(ascii_int16) = Length(k)
  <2>1. Len(ascii_int16) \in Nat /\ Length(k) \in Nat
    BY <1>2, TextInFile
  <2>2. CASE Len(ascii_int16) < Length(k)
    BY <1>0, <1>2, <2>2, MoreOfNumber
  <2> QED
    BY <1>2, <2>1, <2>2
<1>4. At(After(k))'
  BY <1>0, <1>2, <1>3, EndOfNumber
<1>5. d \in Seq(0 .. 10) /\ Len(d) = Length(k) /\ Reader!Value(d) = numbers[k]
  <2>1. numbers[k] \in Int16s
    BY DEF FileHeld
  <2> QED
    BY <2>1, TextIs DEF Length
<1>6. ascii_int16 = d
  <2> HIDE DEF d
  <2> QED
    BY <1>2, <1>3, <1>5, SeqEqual
<1>7. Terminated(numbers[k]) => Reader!Value(text) = numbers[k]
  <2> SUFFICES ASSUME Terminated(numbers[k])
               PROVE  text = d
    BY <1>5
  <2> QED
    BY <1>1, <1>6 DEF Terminated, Reader!Readings
<1> QED
  BY <1>0, <1>1, <1>4, <1>7

(* In a file without a number there is nothing to take. *)
LEMMA NothingToTake ==
  ASSUME FileHeld, numbers = << >>, position \in Nat
  PROVE  ~Reader!Part(Reader!Next1)
<1>1. Len(file) \in Nat /\ \A m \in 1 .. Len(file) : file[m] = Reader!Separator
  BY NoNumberInFile
<1>2. Reader!Next1 = Reader!Separator \/ Reader!Next1 = Reader!EOF
  BY <1>1 DEF Reader!Next1
<1> QED
  BY <1>2 DEF Reader!Part, Reader!Digit, Reader!Minus, Reader!Separator,
     Reader!EOF

-----------------------------------------------------------------------------

USE ClientAssumption

(* The loops' counters stay within the batches, and the packet that is     *)
(* about to be written is not a torn one.                                  *)
CountersOK ==
  /\ main_pc \in {"start", "number", "fill", "hash", "encode", "write",
                  "report", "returned", "killed"}
  /\ i \in Nat /\ j \in Nat /\ number \in Nat
  /\ ~Ended => i < BATCH_LOOPS /\ j < BATCH_SIZE
  /\ main_pc = "start" => i = 0 /\ j = 0
  /\ main_pc = "write" => result_packet_buffer # Torn

IsSomeSeq(s) == \E S : s \in Seq(S)

(* While the client runs, what was written is what the counters stand for, *)
(* in full.  When it has ended, that is so with 0 for an exit code; with   *)
(* another, or none, something is missing or torn.                         *)
SentCounted ==
  LET whole == \A k \in 1 .. Len(sent) : sent[k] # Torn
  IN  /\ IsSomeSeq(sent) /\ exit_code \in {0, 1}
      /\ ~Ended =>
           /\ Len(sent) =
                i * BATCH_SIZE + j + (IF main_pc = "report" THEN 1 ELSE 0)
           /\ exit_code = 0 /\ whole
      /\ main_pc = "returned" /\ exit_code = 0 =>
           Len(sent) = BATCH_LOOPS * BATCH_SIZE /\ whole
      /\ Ended /\ ~(main_pc = "returned" /\ exit_code = 0) =>
           \/ Len(sent) < BATCH_LOOPS * BATCH_SIZE
           \/ sent[Len(sent)] = Torn

ClientInv == CountersOK /\ SentCounted

-----------------------------------------------------------------------------

(* A 16-bit value is a natural number, in either order of its bytes. *)
LEMMA Words16 ==
  ASSUME NEW n \in Nat
  PROVE  Uint16(n) \in Nat /\ Swap16(n) \in Nat
  BY DEF Uint16, Swap16

(* What is encoded is not torn. *)
LEMMA EncodedWhole ==
  ASSUME NEW n \in Nat, NEW d, NEW m
  PROVE  Packet(n, d, m) # Torn
<1>1. Packet(n, d, m).number = n /\ Torn.number = -1
  BY DEF Packet, Torn
<1> QED
  BY <1>1

(* Before the last batch is through, something is left to write. *)
LEMMA NotAllYet ==
  ASSUME NEW b \in Nat, NEW n \in Nat, b < BATCH_LOOPS, n < BATCH_SIZE
  PROVE  b * BATCH_SIZE + n < BATCH_LOOPS * BATCH_SIZE
<1>1. PICK c \in Nat : BATCH_LOOPS = b + 1 + c
  BY BATCH_LOOPS - b - 1 \in Nat
<1>2. BATCH_LOOPS * BATCH_SIZE
        = b * BATCH_SIZE + BATCH_SIZE + c * BATCH_SIZE
  BY <1>1
<1>3. c * BATCH_SIZE \in Nat /\ b * BATCH_SIZE \in Nat
  BY <1>1
<1> QED
  BY <1>2, <1>3

(* Each step keeps the counters within the batches. *)
LEMMA CountersKept ==
  ASSUME CountersOK, [Next]_vars
  PROVE  CountersOK'
<1> USE DEF CountersOK, Ended, Goto, Return1
<1>1. CASE Start
  BY <1>1 DEF Start
<1>2. CASE NumberPacket
  <2>1. number' \in Nat
    BY <1>2, Words16, i * BATCH_SIZE + j + 1 \in Nat DEF NumberPacket
  <2> QED
    BY <1>2, <2>1 DEF NumberPacket
<1>3. CASE Fill
  BY <1>3 DEF Fill
<1>4. CASE Hash
  BY <1>4 DEF Hash
<1>5. CASE Encode
  <2>1. number' \in Nat
    BY <1>5, Words16 DEF Encode
  <2>2. result_packet_buffer' # Torn
    BY <1>5, EncodedWhole DEF Encode
  <2> QED
    BY <1>5, <2>1, <2>2 DEF Encode
<1>6. CASE Write
  BY <1>6 DEF Write
<1>7. CASE Report
  BY <1>7 DEF Report, LastInBatch
<1>8. CASE UNCHANGED vars
  BY <1>8 DEF vars
<1> QED
  BY <1>1, <1>2, <1>3, <1>4, <1>5, <1>6, <1>7, <1>8 DEF Next

(* The steps of the two loops count one packet. *)
LEMMA ReportCounts ==
  ASSUME CountersOK, Report
  PROVE  i' * BATCH_SIZE + j' = i * BATCH_SIZE + j + 1 /\ i' \in Nat
<1>1. i \in Nat /\ j \in Nat
  BY DEF CountersOK
<1>2. CASE LastInBatch
  <2>1. (i + 1) * BATCH_SIZE = i * BATCH_SIZE + BATCH_SIZE
    BY <1>1
  <2>2. j + 1 = BATCH_SIZE /\ i' = i + 1 /\ j' = 0
    BY <1>2 DEF Report, LastInBatch
  <2> QED
    BY <1>1, <2>1, <2>2
<1>3. CASE ~LastInBatch
  BY <1>1, <1>3 DEF Report
<1> QED
  BY <1>2, <1>3

(* A write adds one packet, or half of one and ends; a report counts it. *)
LEMMA SentKept ==
  ASSUME ClientInv, [Next]_vars
  PROVE  SentCounted'
<1> USE DEF SentCounted, Ended, Goto, Return1
<1>0. /\ SentCounted /\ CountersOK /\ CountersOK' /\ Len(sent) \in Nat
  <2>1. PICK S : sent \in Seq(S)
    BY DEF ClientInv, IsSomeSeq
  <2> QED
    BY <2>1, CountersKept DEF ClientInv
<1>1. ~Ended => i * BATCH_SIZE + j < BATCH_LOOPS * BATCH_SIZE
  BY <1>0, NotAllYet DEF CountersOK
<1>2. CASE Write
  <2> DEFINE r == result_packet_buffer
  <2>1. PICK S : sent \in Seq(S) /\ r \in S /\ Torn \in S
    <3>1. PICK T : sent \in Seq(T)
      BY <1>0 DEF IsSomeSeq
    <3>2. sent \in Seq(T \cup {r, Torn})
      BY <3>1
    <3> QED
      BY <3>2
  <2>2. ASSUME NEW x \in S
        PROVE  /\ Append(sent, x) \in Seq(S)
               /\ Len(Append(sent, x)) = Len(sent) + 1
               /\ Append(sent, x)[Len(sent) + 1] = x
               /\ \A k \in 1 .. Len(sent) : Append(sent, x)[k] = sent[k]
    BY <2>1, AppendProperties
  <2>3. /\ main_pc = "write" /\ r # Torn /\ UNCHANGED <<i, j>>
        /\ Len(sent) = i * BATCH_SIZE + j /\ exit_code = 0
        /\ \A k \in 1 .. Len(sent) : sent[k] # Torn
    BY <1>0, <1>2 DEF Write, CountersOK
  <2>4. CASE sent' = Append(sent, r) /\ main_pc' = "report"
             /\ UNCHANGED exit_code
    <3>1. \A k \in 1 .. Len(sent') : k \in 1 .. Len(sent) \/ k = Len(sent) + 1
      BY <1>0, <2>1, <2>2, <2>4
    <3>2. \A k \in 1 .. Len(sent') : sent'[k] # Torn
      BY <2>1, <2>2, <2>3, <2>4, <3>1
    <3>3. Len(sent') = i * BATCH_SIZE + j + 1
      BY <2>1, <2>2, <2>3, <2>4
    <3>4. IsSomeSeq(sent')
      BY <2>1, <2>2, <2>4 DEF IsSomeSeq
    <3> QED
      BY <2>3, <2>4, <3>2, <3>3, <3>4
  <2>5. CASE sent' = Append(sent, Torn) /\ main_pc' = "returned"
             /\ exit_code' = 1
    BY <2>1, <2>2, <2>5 DEF IsSomeSeq
  <2>6. CASE sent' = sent /\ main_pc' \in {"returned", "killed"}
             /\ (main_pc' = "returned" => exit_code' = 1)
             /\ exit_code' \in {0, 1}
    BY <1>0, <1>1, <2>3, <2>6
  <2> QED
    BY <1>2, <2>3, <2>4, <2>5, <2>6 DEF Write
<1>3. CASE Report
  <2>1. /\ main_pc = "report" /\ UNCHANGED <<sent, exit_code>>
        /\ Len(sent) = i * BATCH_SIZE + j + 1 /\ exit_code = 0
        /\ \A k \in 1 .. Len(sent) : sent[k] # Torn
        /\ i \in Nat /\ j \in Nat /\ i < BATCH_LOOPS
    BY <1>0, <1>3 DEF Report, CountersOK
  <2>2. i' * BATCH_SIZE + j' = i * BATCH_SIZE + j + 1 /\ i' \in Nat
    BY <1>0, <1>3, ReportCounts
  <2>3. CASE i' < BATCH_LOOPS
    <3>1. main_pc' = "number"
      BY <1>3, <2>3 DEF Report
    <3> QED
      BY <1>0, <2>1, <2>2, <3>1
  <2>4. CASE ~(i' < BATCH_LOOPS)
    <3>1. main_pc' = "returned"
      BY <1>3, <2>4 DEF Report
    <3>2. i' = BATCH_LOOPS /\ j' = 0
      BY <1>3, <2>1, <2>4 DEF Report
    <3>3. Len(sent) = BATCH_LOOPS * BATCH_SIZE
      BY <2>1, <2>2, <3>2
    <3> QED
      BY <1>0, <2>1, <3>1, <3>3
  <2> QED
    BY <2>3, <2>4
<1>4. ASSUME UNCHANGED <<i, j, sent>>, ~Ended, main_pc \notin {"report"},
             \/ ~Ended' /\ main_pc' # "report" /\ exit_code' = exit_code
             \/ main_pc' = "returned" /\ exit_code' = 1
      PROVE  SentCounted'
  <2>1. /\ Len(sent) = i * BATCH_SIZE + j /\ exit_code = 0
        /\ \A k \in 1 .. Len(sent) : sent[k] # Torn
        /\ IsSomeSeq(sent)
    BY <1>0, <1>4 DEF CountersOK
  <2>2. CASE ~Ended' /\ main_pc' # "report" /\ exit_code' = exit_code
    BY <1>4, <2>1, <2>2
  <2>3. CASE main_pc' = "returned" /\ exit_code' = 1
    BY <1>1, <1>4, <2>1, <2>3
  <2> QED
    BY <1>4, <2>2, <2>3
<1>5. CASE Start \/ NumberPacket \/ Fill \/ Hash \/ Encode
  <2>1. /\ UNCHANGED <<i, j, sent>> /\ ~Ended /\ main_pc # "report"
        /\ \/ ~Ended' /\ main_pc' # "report" /\ exit_code' = exit_code
           \/ main_pc' = "returned" /\ exit_code' = 1
    BY <1>5 DEF Start, NumberPacket, Fill, Hash, Encode
  <2> QED
    BY <1>4, <2>1
<1>6. CASE UNCHANGED vars
  BY <1>0, <1>6 DEF vars
<1> QED
  BY <1>2, <1>3, <1>5, <1>6 DEF Next

(* The client reports success with its exit code exactly when every packet *)
(* of every batch was written in full (main.c's returns), whatever the     *)
(* encoder did to main's variables and whichever call failed.              *)
THEOREM ExitCodeHonest == Spec => []ExitMeansSent
<1>1. Init => ClientInv
  BY DEF Init, ClientInv, CountersOK, SentCounted, IsSomeSeq, Ended
<1>2. ClientInv /\ [Next]_vars => ClientInv'
  BY CountersKept, SentKept DEF ClientInv
<1>3. ClientInv => ExitMeansSent
  <2> SUFFICES ASSUME ClientInv, Ended
               PROVE  main_pc = "returned" /\ exit_code = 0
                        <=> /\ Len(sent) = BATCH_LOOPS * BATCH_SIZE
                            /\ sent[Len(sent)] # Torn
    BY DEF ExitMeansSent
  <2>1. BATCH_LOOPS * BATCH_SIZE >= 1 /\ BATCH_LOOPS * BATCH_SIZE \in Nat
    BY NotAllYet, 0 * BATCH_SIZE + 0 = 0
  <2>2. PICK n \in Nat : n = Len(sent)
    <3>1. PICK S : sent \in Seq(S)
      BY DEF ClientInv, SentCounted, IsSomeSeq
    <3> QED
      BY <3>1
  <2> QED
    BY <2>1, <2>2 DEF ClientInv, SentCounted
<1> QED
  BY <1>1, <1>2, <1>3, PTL DEF Spec

-----------------------------------------------------------------------------

(* Full(d): the data of a packet that has been filled, in the host's order. *)
Full(d) ==
  d = Data(d.words) /\ IsSomeSeq(d.words) /\ Len(d.words) = Words

(* The place in the order of all packets of the one that is being built. *)
Place == i * BATCH_SIZE + j + 1

(* A packet that is sealed as the k-th. *)
SealedAs(packet, k) ==
  /\ Full(packet.data)
  /\ packet = Packet(Uint16(k), packet.data, MD5(Bytes(packet.data.words)))

(* What is known of the packet at each place of the loop's body. *)
BuildInv ==
  /\ reader_pc = "read" => IsSomeSeq(buffer) /\ Len(buffer) < Words
  /\ main_pc \in {"fill", "hash", "encode"} => number = Uint16(Place)
  /\ main_pc \in {"hash", "encode"} => Full(data)
  /\ main_pc = "encode" => md5 = MD5(Bytes(data.words))
  /\ main_pc = "write" => SealedAs(result_packet_buffer, Place)

SealInv == ClientInv /\ BuildInv /\ PacketsSealed

(* The bytes of a packet's numbers are hashed to their MD5. *)
LEMMA PacketsHashed ==
  ASSUME NEW d, Full(d)
  PROVE  mbedtls_md5_ret(Bytes(d.words)) = MD5(Bytes(d.words))
<1> DEFINE b == Bytes(d.words)
           S == Int \cup {b[k] : k \in 1 .. 2 * Words}
<1>1. b = [k \in 1 .. 2 * Words |-> b[k]] /\ 2 * Words \in Nat
  BY DEF Full, Bytes
<1>2. b \in [1 .. 2 * Words -> S]
  <2> HIDE DEF b
  <2> QED
    BY <1>1
<1>3. b \in Seq(S) /\ Len(b) = 2 * Words
  BY <1>1, <1>2, Tabulated
<1>4. Len(b) < WORD /\ Int \subseteq S
  BY <1>3
<1> HIDE DEF b, S
<1>5. mbedtls_md5_ret(b) = MD5(b)
  BY <1>3, <1>4, HashesWhole
<1> QED
  BY <1>5 DEF b

(* The reader returns with as many numbers as a packet takes. *)
LEMMA ReaderFills ==
  ASSUME BuildInv, Reader!Reading
  PROVE  /\ reader_pc' = "read" => IsSomeSeq(buffer') /\ Len(buffer') < Words
         /\ reader_pc' = "done" => IsSomeSeq(buffer') /\ Len(buffer') = Words
<1>1. reader_pc = "read"
  BY DEF Reader!Reading, Reader!Store, Reader!Skip, Reader!Convert
<1>2. PICK S : buffer \in Seq(S) /\ Len(buffer) < Words
  BY <1>1 DEF BuildInv, IsSomeSeq
<1>3. CASE Reader!Store \/ Reader!Skip
  <2>1. buffer' = buffer /\ reader_pc' # "done"
    BY <1>1, <1>3 DEF Reader!Store, Reader!Skip
  <2> QED
    BY <1>2, <2>1 DEF IsSomeSeq
<1>4. CASE Reader!Convert
  <2>1. PICK x : buffer' = Append(buffer, x)
    BY <1>4 DEF Reader!Convert
  <2>2. buffer \in Seq(S \cup {x})
    BY <1>2
  <2>3. /\ buffer' \in Seq(S \cup {x}) /\ Len(buffer') = Len(buffer) + 1
        /\ Len(buffer) \in Nat
    BY <2>1, <2>2, AppendProperties
  <2>4. reader_pc' = IF Len(buffer') < Words THEN "read" ELSE "done"
    BY <1>4 DEF Reader!Convert
  <2> QED
    BY <1>2, <2>3, <2>4 DEF IsSomeSeq
<1> QED
  BY <1>3, <1>4 DEF Reader!Reading

(* Each step of the loop's body finds what the one before it left. *)
LEMMA BuildKept ==
  ASSUME ClientInv, BuildInv, [Next]_vars
  PROVE  BuildInv'
<1> USE DEF Goto, Return1
<1>1. CASE Start
  BY <1>1 DEF Start, BuildInv, reader
<1>2. CASE NumberPacket
  <2>1. /\ main_pc' = "fill" /\ number' = Uint16(Place) /\ UNCHANGED <<i, j>>
        /\ buffer' = << >>
    BY <1>2 DEF NumberPacket, Reader!Call, Place
  <2>2. IsSomeSeq(<< >>) /\ Len(<< >>) < Words
    <3>1. << >> \in Seq({}) /\ Len(<< >>) = 0
      BY EmptySeq
    <3> QED
      BY <3>1 DEF IsSomeSeq
  <2>3. number' = Uint16(Place')
    BY <2>1 DEF Place
  <2> QED
    BY <2>1, <2>2, <2>3 DEF BuildInv
<1>3. CASE Fill
  <2>1. main_pc = "fill" /\ UNCHANGED <<i, j, number>>
        /\ number' = Uint16(Place')
    BY <1>3 DEF Fill, BuildInv, Place
  <2>2. CASE /\ Reader!Reading
             /\ data' = IF reader_pc' = "done" THEN Data(buffer') ELSE data
             /\ main_pc' = IF reader_pc' = "done" THEN "hash" ELSE "fill"
    <3>1. reader_pc' = "done" => Full(data')
      BY <2>2, ReaderFills DEF Full, Data
    <3> QED
      BY <2>1, <2>2, <3>1, ReaderFills DEF BuildInv
  <2>3. CASE Reader!Fail /\ main_pc' = "returned"
    BY <2>1, <2>3 DEF BuildInv, Reader!Fail
  <2> QED
    BY <1>3, <2>2, <2>3 DEF Fill
<1>4. CASE Hash
  <2>1. /\ main_pc = "hash" /\ UNCHANGED <<i, j, number, data, reader>>
        /\ \/ /\ main_pc' = "encode"
              /\ md5' = mbedtls_md5_ret(Bytes(data.words))
           \/ main_pc' = "returned"
    BY <1>4 DEF Hash
  <2>2. Full(data) /\ number = Uint16(Place)
    BY <2>1 DEF BuildInv
  <2>3. mbedtls_md5_ret(Bytes(data.words)) = MD5(Bytes(data.words))
    BY <2>2, PacketsHashed
  <2>4. Full(data') /\ number' = Uint16(Place')
    BY <2>1, <2>2 DEF Place
  <2> QED
    BY <2>1, <2>3, <2>4 DEF BuildInv, reader
<1>5. CASE Encode
  <2>1. /\ main_pc = "encode" /\ main_pc' = "write"
        /\ UNCHANGED <<i, j, reader>>
        /\ result_packet_buffer' = Packet(number, data, md5)
    BY <1>5 DEF Encode
  <2>2. /\ number = Uint16(Place) /\ Full(data)
        /\ md5 = MD5(Bytes(data.words))
    BY <2>1 DEF BuildInv
  <2>3. SealedAs(result_packet_buffer', Place)
    BY <2>1, <2>2 DEF SealedAs, Packet
  <2>4. Place' = Place
    BY <2>1 DEF Place
  <2> QED
    BY <2>1, <2>3, <2>4 DEF BuildInv, reader
<1>6. CASE Write
  BY <1>6 DEF Write, BuildInv, reader
<1>7. CASE Report
  BY <1>7 DEF Report, BuildInv, reader
<1>8. CASE UNCHANGED vars
  BY <1>8 DEF vars, BuildInv, SealedAs, Place, Full
<1> QED
  BY <1>1, <1>2, <1>3, <1>4, <1>5, <1>6, <1>7, <1>8 DEF Next

(* A write adds the packet that was built, at its place, or half of it. *)
LEMMA WriteAdds ==
  ASSUME ClientInv, Write, sent' # sent
  PROVE  /\ Len(sent) \in Nat /\ Len(sent') = Len(sent) + 1
         /\ \A k \in 1 .. Len(sent) : sent'[k] = sent[k]
         /\ Place = Len(sent) + 1
         /\ \/ sent'[Place] = result_packet_buffer
            \/ sent'[Place] = Torn /\ Ended'
<1>1. PICK x : /\ sent' = Append(sent, x)
               /\ x = result_packet_buffer \/ (x = Torn /\ Ended')
  BY DEF Write, Return1, Ended
<1>2. PICK S : sent \in Seq(S) /\ x \in S
  <2>1. PICK T : sent \in Seq(T)
    BY DEF ClientInv, SentCounted, IsSomeSeq
  <2>2. sent \in Seq(T \cup {x})
    BY <2>1
  <2> QED
    BY <2>2
<1>3. /\ Len(sent) \in Nat /\ Len(sent') = Len(sent) + 1
      /\ sent'[Len(sent) + 1] = x
      /\ \A k \in 1 .. Len(sent) : sent'[k] = sent[k]
  BY <1>1, <1>2, AppendProperties
<1>4. Place = Len(sent) + 1
  <2>1. Len(sent) = i * BATCH_SIZE + j
    BY DEF Write, Ended, ClientInv, SentCounted, CountersOK
  <2> QED
    BY <1>3, <2>1 DEF Place
<1> QED
  BY <1>1, <1>3, <1>4

(* What is written is sealed as the packet of its place. *)
LEMMA SealKept ==
  ASSUME SealInv, [Next]_vars
  PROVE  PacketsSealed'
<1>0. SealInv /\ ClientInv
  BY DEF SealInv
<1> DEFINE Sound(s, k) ==
      LET words == s[k].data.words
      IN  /\ s[k] = Packet(Uint16(k), Data(words), MD5(Bytes(words)))
          /\ Len(words) = Words
<1>1. CASE UNCHANGED sent /\ (Ended => Ended')
  BY <1>0, <1>1 DEF SealInv, PacketsSealed
<1>2. CASE Write /\ sent' # sent
  <2>1. /\ main_pc = "write" /\ ~Ended
        /\ Len(sent) \in Nat /\ Len(sent') = Len(sent) + 1
        /\ \A k \in 1 .. Len(sent) : sent'[k] = sent[k]
        /\ Place = Len(sent) + 1
        /\ \/ sent'[Place] = result_packet_buffer
           \/ sent'[Place] = Torn /\ Ended'
    BY <1>0, <1>2, WriteAdds DEF Write, Ended
  <2>2. ASSUME NEW k \in 1 .. Len(sent)
        PROVE  Sound(sent', k)
    <3>1. sent[k] # Torn
      BY <1>0, <2>1 DEF ClientInv, SentCounted
    <3>2. Sound(sent, k)
      BY <1>0, <3>1 DEF SealInv, PacketsSealed
    <3> QED
      BY <2>1, <3>2
  <2>3. \A k \in 1 .. Len(sent') : k \in 1 .. Len(sent) \/ k = Place
    BY <2>1
  <2>4. CASE sent'[Place] = result_packet_buffer
    <3>1. SealedAs(sent'[Place], Place)
      BY <1>0, <2>1, <2>4 DEF SealInv, BuildInv
    <3>2. Sound(sent', Place)
      BY <3>1 DEF SealedAs, Full
    <3> QED
      BY <2>2, <2>3, <3>2 DEF PacketsSealed
  <2>5. CASE sent'[Place] = Torn /\ Ended'
    BY <2>1, <2>2, <2>3, <2>5 DEF PacketsSealed
  <2> QED
    BY <2>1, <2>4, <2>5
<1>3. CASE Write /\ UNCHANGED sent
  BY <1>1, <1>3 DEF Write, Ended
<1>4. CASE Start \/ NumberPacket \/ Fill \/ Hash \/ Encode \/ Report
  <2>1. UNCHANGED sent /\ ~Ended
    BY <1>4 DEF Start, NumberPacket, Fill, Hash, Encode, Report, Ended
  <2> QED
    BY <1>1, <2>1
<1>5. CASE UNCHANGED vars
  BY <1>1, <1>5 DEF vars, Ended
<1> QED
  BY <1>2, <1>3, <1>4, <1>5 DEF Next

(* The client begins with nothing built and nothing sent. *)
LEMMA SealedFirst ==
  ASSUME Init
  PROVE  SealInv
<1>1. ClientInv
  BY DEF Init, ClientInv, CountersOK, SentCounted, IsSomeSeq, Ended
<1>2. BuildInv
  BY DEF Init, BuildInv, Reader!Opened
<1>3. PacketsSealed
  BY DEF Init, PacketsSealed
<1> QED
  BY <1>1, <1>2, <1>3 DEF SealInv

(* Each step keeps all of SealInv. *)
LEMMA SealInvKept ==
  ASSUME SealInv, [Next]_vars
  PROVE  SealInv'
  BY CountersKept, SentKept, BuildKept, SealKept DEF SealInv, ClientInv

(* Each packet that main writes has the number of its place, is full, and  *)
(* has the MD5 of its data, whatever network_encode_packet exchanged       *)
(* behind its buffer on the way; only the last can be torn.                *)
THEOREM PacketsSealedAlways == Spec => []PacketsSealed
<1>1. SealInv => PacketsSealed
  BY DEF SealInv
<1> QED
  BY <1>1, SealedFirst, SealInvKept, PTL DEF Spec

-----------------------------------------------------------------------------

(* Words that are numbers of the file, from the k-th packet's first on, as *)
(* far as their texts were terminated.                                     *)
Carries(words, k) ==
  \A w \in 1 .. Len(words) :
    Terminated(FileNumber(k, w)) => words[w] = FileNumber(k, w)

(* How many numbers of the file have been read. *)
Read ==
  (Place - 1) * Words
    + (IF main_pc \in {"start", "number"} THEN 0
       ELSE IF main_pc = "fill" THEN Len(buffer) ELSE Words)

(* The reader is at the number that comes next. *)
AtNext ==
  \E k \in 1 .. Len(numbers) : k = (Read % Len(numbers)) + 1 /\ At(k)

(* Where the reader is, and that it needs a number to fill a packet. *)
ReaderInv ==
  /\ FileHeld
  /\ main_pc = "fill" => reader_pc \in {"read", "overrun"}
  /\ reader_pc = "overrun" => main_pc = "fill"
  /\ ~Ended /\ main_pc # "fill" => ascii_int16 = << >>
  /\ numbers = << >> /\ ~Ended =>
       /\ main_pc \in {"start", "number", "fill"}
       /\ ascii_int16 = << >> /\ position \in Nat
  /\ numbers # << >> /\ ~Ended /\ reader_pc # "overrun" => AtNext

(* What the packet that is being built has of the file. *)
CarryInv ==
  /\ main_pc = "fill" => Carries(buffer, Place)
  /\ main_pc \in {"hash", "encode"} => Carries(data.words, Place)
  /\ main_pc = "write" => Carries(result_packet_buffer.data.words, Place)

SourceInv == SealInv /\ ReaderInv /\ CarryInv /\ WireCarriesFile

(* Behind the c-th number in the round of the file comes the next. *)
LEMMA RoundAndRound ==
  ASSUME FileHeld, numbers # << >>, NEW c \in Nat
  PROVE  /\ (c % Len(numbers)) + 1 \in 1 .. Len(numbers)
         /\ ((c + 1) % Len(numbers)) + 1 = After((c % Len(numbers)) + 1)
<1>1. PICK n \in Nat \ {0} : n = Len(numbers)
  <2>1. Len(numbers) \in Nat /\ Len(numbers) # 0
    BY DEF FileHeld
  <2> QED
    BY <2>1
<1>2. PICK q, r : Splits(c, n, q, r) /\ r = c % n
  BY Divided
<1>3. q \in Nat /\ r \in 0 .. n - 1 /\ c = n * q + r
  BY <1>2 DEF Splits
<1>4. (c + 1) % n = IF r + 1 = n THEN 0 ELSE r + 1
  <2>1. CASE r + 1 = n
    <3>1. n * (q + 1) = n * q + n
      BY <1>3
    <3>2. Splits(c + 1, n, q + 1, 0)
      BY <1>3, <2>1, <3>1 DEF Splits
    <3> QED
      BY <2>1, <3>2, Quotient
  <2>2. CASE r + 1 # n
    <3>1. Splits(c + 1, n, q, r + 1)
      BY <1>3, <2>2 DEF Splits
    <3> QED
      BY <2>2, <3>1, Quotient
  <2> QED
    BY <2>1, <2>2
<1>5. /\ c % Len(numbers) = r
      /\ (c + 1) % Len(numbers) = IF r + 1 = Len(numbers) THEN 0 ELSE r + 1
  BY <1>1, <1>2, <1>4
<1>6. After(r + 1) = (IF r + 1 = Len(numbers) THEN 0 ELSE r + 1) + 1
  BY <1>3 DEF After
<1>7. r + 1 \in 1 .. Len(numbers)
  BY <1>1, <1>3
<1> QED
  BY ONLY <1>5, <1>6, <1>7

(* A step of the reader towards its k-th number. *)
LEMMA ReadingMoves ==
  ASSUME ReaderInv, main_pc = "fill", Reader!Reading
  PROVE  /\ UNCHANGED <<numbers, file>>
         /\ \/ UNCHANGED buffer /\ reader_pc' = "overrun" /\ numbers # << >>
            \/ /\ UNCHANGED buffer /\ reader_pc' = "read"
               /\ numbers = << >> => ascii_int16' = << >> /\ position' \in Nat
               /\ \A k \in 1 .. Len(numbers) : At(k) => At(k)'
            \/ /\ numbers # << >> /\ ascii_int16' = << >>
               /\ reader_pc' = IF Len(buffer') < Words THEN "read" ELSE "done"
               /\ \A k \in 1 .. Len(numbers) :
                    At(k) =>
                      /\ At(After(k))'
                      /\ \E v : /\ buffer' = Append(buffer, v)
                                /\ Terminated(numbers[k]) => v = numbers[k]
<1>0. /\ FileHeld /\ reader_pc = "read" /\ UNCHANGED <<numbers, file>>
      /\ ~Ended
      /\ numbers = << >> => ascii_int16 = << >> /\ position \in Nat
  BY DEF ReaderInv, Reader!Reading, Reader!Store, Reader!Skip, Reader!Convert,
     Ended
<1>1. numbers = << >> => ~Reader!Part(Reader!Next1)
  BY <1>0, NothingToTake
<1>2. CASE Reader!Store
  <2>1. /\ numbers # << >> /\ UNCHANGED buffer
        /\ reader_pc' \in {"read", "overrun"}
    BY <1>0, <1>1, <1>2 DEF Reader!Store
  <2>2. \A k \in 1 .. Len(numbers) :
          At(k) => reader_pc' = "overrun" \/ At(k)'
    BY <1>0, <1>2, StoreKeeps
  <2> QED
    BY <1>0, <2>1, <2>2
<1>3. CASE Reader!Skip
  <2>1. UNCHANGED <<buffer, ascii_int16, reader_pc>> /\ Reader!Advance
    BY <1>3 DEF Reader!Skip
  <2>2. \A k \in 1 .. Len(numbers) : At(k) => At(k)'
    BY <1>0, <1>3, SkipKeeps
  <2>3. numbers = << >> => position' \in Nat
    BY <1>0, <2>1 DEF Reader!Advance
  <2> QED
    BY <1>0, <2>1, <2>2, <2>3
<1>4. CASE Reader!Convert
  <2>1. ascii_int16 # << >> /\ ascii_int16' = << >>
        /\ reader_pc' = IF Len(buffer') < Words THEN "read" ELSE "done"
    BY <1>4 DEF Reader!Convert
  <2>2. numbers # << >>
    BY <1>0, <2>1
  <2>3. ASSUME NEW k \in 1 .. Len(numbers), At(k)
        PROVE  /\ At(After(k))'
               /\ \E v : /\ buffer' = Append(buffer, v)
                         /\ Terminated(numbers[k]) => v = numbers[k]
    BY <1>0, <1>4, <2>3, ConvertMoves
  <2> QED
    BY <1>0, <2>1, <2>2, <2>3
<1> QED
  BY <1>2, <1>3, <1>4 DEF Reader!Reading

(* The counters of a packet that is being filled. *)
LEMMA ReadIs ==
  ASSUME ClientInv
  PROVE  /\ Place \in Nat \ {0} /\ (Place - 1) * Words \in Nat
         /\ Words \in Nat \ {0}
<1>1. i \in Nat /\ j \in Nat
  BY DEF ClientInv, CountersOK
<1>2. i * BATCH_SIZE \in Nat
  BY <1>1
<1>3. Place - 1 \in Nat
  BY <1>1, <1>2 DEF Place
<1> QED
  BY <1>1, <1>2, <1>3 DEF Place

(* Each number goes to its place. *)
LEMMA FillKept ==
  ASSUME SealInv, ReaderInv, CarryInv, main_pc = "fill", Reader!Reading,
         UNCHANGED <<i, j>>,
         data' = IF reader_pc' = "done" THEN Data(buffer') ELSE data,
         main_pc' = IF reader_pc' = "done" THEN "hash" ELSE "fill"
  PROVE  ReaderInv' /\ CarryInv'
<1>0. /\ FileHeld /\ reader_pc = "read" /\ ~Ended /\ ~Ended'
      /\ (numbers = << >> \/ AtNext) /\ Carries(buffer, Place) /\ Place' = Place
  BY DEF ReaderInv, CarryInv, Ended, Place, Reader!Reading, Reader!Store,
     Reader!Skip, Reader!Convert
<1>1. PICK S : buffer \in Seq(S) /\ Len(buffer) < Words /\ Len(buffer) \in Nat
  BY <1>0 DEF SealInv, BuildInv, IsSomeSeq
<1>2. PICK base \in Nat : base = (Place - 1) * Words /\ Words \in Nat \ {0}
  BY ReadIs DEF SealInv
<1>3. UNCHANGED <<numbers, file>> /\ FileHeld'
  BY <1>0, ReadingMoves DEF FileHeld
<1>4. /\ Read = base + Len(buffer)
      /\ base = (Place' - 1) * Words
  BY <1>0, <1>2 DEF Read
<1>5. CASE UNCHANGED buffer /\ reader_pc' = "overrun" /\ numbers # << >>
  <2>1. main_pc' = "fill"
    BY <1>5
  <2> QED
    BY <1>0, <1>3, <1>5, <2>1 DEF ReaderInv, CarryInv, Carries, FileNumber,
       Terminated
<1>6. CASE /\ UNCHANGED buffer /\ reader_pc' = "read"
           /\ numbers = << >> => ascii_int16' = << >> /\ position' \in Nat
           /\ \A k \in 1 .. Len(numbers) : At(k) => At(k)'
  <2>1. main_pc' = "fill" /\ Read' = Read
    BY <1>0, <1>6 DEF Read
  <2>2. numbers # << >> => AtNext'
    BY <1>0, <1>3, <1>6, <2>1 DEF AtNext
  <2> QED
    BY <1>0, <1>3, <1>6, <2>1, <2>2
       DEF ReaderInv, CarryInv, Carries, FileNumber, Terminated
<1>7. CASE /\ numbers # << >> /\ ascii_int16' = << >>
           /\ reader_pc' = IF Len(buffer') < Words THEN "read" ELSE "done"
           /\ \A k \in 1 .. Len(numbers) :
                At(k) =>
                  /\ At(After(k))'
                  /\ \E v : /\ buffer' = Append(buffer, v)
                            /\ Terminated(numbers[k]) => v = numbers[k]
  <2>1. PICK k \in 1 .. Len(numbers) : k = (Read % Len(numbers)) + 1 /\ At(k)
    BY <1>0, <1>7 DEF AtNext
  <2>2. PICK v : /\ buffer' = Append(buffer, v)
                 /\ Terminated(numbers[k]) => v = numbers[k]
    BY <1>7, <2>1
  <2>3. /\ Len(buffer') = Len(buffer) + 1 /\ buffer'[Len(buffer) + 1] = v
        /\ \A w \in 1 .. Len(buffer) : buffer'[w] = buffer[w]
    <3>1. buffer \in Seq(S \cup {v}) /\ v \in S \cup {v}
      BY <1>1, SeqMonotonic
    <3> QED
      BY <2>2, <3>1, AppendProperties
  <2>4. FileNumber(Place, Len(buffer) + 1) = numbers[k]
    <3>1. (Place - 1) * Words + (Len(buffer) + 1) - 1 = Read
      BY <1>1, <1>2, <1>4
    <3> QED
      BY <2>1, <3>1 DEF FileNumber
  <2>5. Carries(buffer, Place)'
    <3>1. ASSUME NEW w \in 1 .. Len(buffer'), Terminated(FileNumber(Place, w))
          PROVE  buffer'[w] = FileNumber(Place, w)
      <4>1. CASE w \in 1 .. Len(buffer)
        BY <1>0, <2>3, <3>1, <4>1 DEF Carries
      <4>2. CASE w = Len(buffer) + 1
        BY <2>2, <2>3, <2>4, <3>1, <4>2
      <4> QED
        BY <1>1, <2>3, <4>1, <4>2
    <3>2. \A w : FileNumber(Place, w)' = FileNumber(Place, w)
      BY <1>0, <1>3 DEF FileNumber
    <3>3. \A n : Terminated(n)' = Terminated(n)
      BY DEF Terminated
    <3> QED
      BY <3>1, <3>2, <3>3 DEF Carries
  <2>6. Read' = Read + 1
    <3>1. CASE reader_pc' = "done"
      <4>1. Len(buffer') = Words /\ main_pc' = "hash"
        BY <1>1, <1>2, <1>7, <2>3, <3>1
      <4> QED
        BY <1>0, <1>1, <1>2, <1>4, <2>3, <4>1 DEF Read
    <3>2. CASE reader_pc' # "done"
      <4>1. main_pc' = "fill"
        BY <3>2
      <4> QED
        BY <1>0, <1>1, <1>2, <1>4, <2>3, <4>1 DEF Read
    <3> QED
      BY <3>1, <3>2
  <2>7. AtNext'
    <3>1. Read \in Nat
      BY <1>1, <1>2, <1>4
    <3>2. /\ After(k) = ((Read + 1) % Len(numbers)) + 1
          /\ After(k) \in 1 .. Len(numbers)
      <4>1. Read + 1 \in Nat
        BY <3>1
      <4> QED
        BY <1>0, <1>7, <2>1, <3>1, <4>1, RoundAndRound
    <3>3. At(After(k))' /\ After(k)' = After(k)
      BY <1>3, <1>7, <2>1 DEF After
    <3>4. PICK l \in 1 .. Len(numbers) : l = After(k) /\ At(l)'
      BY <3>2, <3>3 DEF At, Offset, Length
    <3> QED
      BY <1>3, <2>6, <3>2, <3>4 DEF AtNext
  <2>8. main_pc' = "hash" => Carries(data.words, Place)'
    BY <2>5 DEF Data, Carries
  <2>9. CarryInv'
    BY <2>5, <2>8 DEF CarryInv
  <2> QED
    BY <1>0, <1>3, <1>7, <2>7, <2>9 DEF ReaderInv
<1> QED
  BY <1>5, <1>6, <1>7, ReadingMoves

(* The counter of the packets steps with the loops. *)
LEMMA SourceKept ==
  ASSUME SealInv, ReaderInv, CarryInv, [Next]_vars
  PROVE  ReaderInv' /\ CarryInv' /\ UNCHANGED numbers
<1> USE DEF Goto, Return1, Ended
<1>0. FileHeld /\ CountersOK /\ ClientInv
  BY DEF SealInv, ReaderInv, ClientInv
<1>1. ASSUME UNCHANGED <<numbers, file>>, main_pc' \in {"returned", "killed"},
             reader_pc' # "overrun"
      PROVE  ReaderInv' /\ CarryInv'
  BY <1>0, <1>1 DEF ReaderInv, CarryInv, FileHeld
<1>2. ASSUME UNCHANGED reader, UNCHANGED <<i, j>>, main_pc # "fill",
             main_pc' \notin {"fill", "returned", "killed"},
             main_pc \notin {"returned", "killed"},
             main_pc \in {"start", "number"}
               <=> main_pc' \in {"start", "number"}
      PROVE  ReaderInv'
  <2>1. /\ Read' = Read
        /\ UNCHANGED <<numbers, file, position, ascii_int16, reader_pc>>
    BY <1>2 DEF Read, Place, reader
  <2>2. AtNext => AtNext'
    BY <2>1 DEF AtNext, At, Offset, Length
  <2> QED
    BY <1>2, <2>1, <2>2 DEF ReaderInv, FileHeld
<1>3. \A w, k : UNCHANGED numbers => Carries(w, k)' = Carries(w, k)
  BY DEF Carries, FileNumber, Terminated
<1>4. CASE Start
  <2>1. main_pc = "start" /\ UNCHANGED reader /\ UNCHANGED <<i, j>>
        /\ main_pc' \in {"number", "returned"}
    BY <1>4 DEF Start
  <2>2. reader_pc # "overrun" /\ UNCHANGED <<numbers, file, reader_pc>>
    BY <2>1 DEF ReaderInv, reader
  <2>3. CASE main_pc' = "number"
    BY <1>2, <2>1, <2>2, <2>3 DEF CarryInv
  <2> QED
    BY <1>1, <2>1, <2>2, <2>3
<1>5. CASE NumberPacket
  <2>1. /\ main_pc = "number" /\ main_pc' = "fill" /\ UNCHANGED <<i, j>>
        /\ UNCHANGED <<numbers, file, position>> /\ reader_pc' = "read"
        /\ buffer' = << >> /\ ascii_int16' = << >>
    BY <1>5 DEF NumberPacket, Reader!Call
  <2>2. ascii_int16 = << >> /\ reader_pc # "overrun"
    BY <2>1 DEF ReaderInv
  <2>3. Read' = Read
    <3>1. Len(<< >>) = 0
      OBVIOUS
    <3> QED
      BY <2>1, <3>1 DEF Read, Place
  <2>4. AtNext => AtNext'
    BY <2>1, <2>2, <2>3 DEF AtNext, At, Offset, Length
  <2>5. ReaderInv'
    BY <2>1, <2>2, <2>4 DEF ReaderInv, FileHeld
  <2>6. CarryInv'
    <3>1. Carries(<< >>, Place')'
      BY DEF Carries
    <3> QED
      BY <2>1, <3>1 DEF CarryInv, Carries
  <2> QED
    BY <2>1, <2>5, <2>6
<1>6. CASE Fill
  <2>1. main_pc = "fill" /\ UNCHANGED <<i, j>>
    BY <1>6 DEF Fill
  <2>2. CASE /\ Reader!Reading
             /\ data' = IF reader_pc' = "done" THEN Data(buffer') ELSE data
             /\ main_pc' = IF reader_pc' = "done" THEN "hash" ELSE "fill"
    BY <2>1, <2>2, FillKept, ReadingMoves
  <2>3. CASE Reader!Fail /\ main_pc' = "returned"
    BY <1>1, <2>3 DEF Reader!Fail
  <2> QED
    BY <1>6, <2>2, <2>3 DEF Fill
<1>7. CASE Hash
  <2>1. main_pc = "hash" /\ UNCHANGED reader /\ UNCHANGED <<i, j, data>>
        /\ main_pc' \in {"encode", "returned"}
    BY <1>7 DEF Hash
  <2>2. /\ reader_pc # "overrun" /\ UNCHANGED <<numbers, file, reader_pc>>
        /\ Place' = Place
    BY <2>1 DEF ReaderInv, reader, Place
  <2>3. CASE main_pc' = "encode"
    <3>1. Carries(data.words, Place)'
      BY <2>1, <2>2 DEF CarryInv, Carries, FileNumber, Terminated
    <3> QED
      BY <1>2, <2>1, <2>2, <2>3, <3>1 DEF CarryInv
  <2> QED
    BY <1>1, <2>1, <2>2, <2>3
<1>8. CASE Encode
  <2>1. main_pc = "encode" /\ main_pc' = "write" /\ UNCHANGED reader
        /\ UNCHANGED <<i, j>>
        /\ result_packet_buffer' = Packet(number, data, md5)
    BY <1>8 DEF Encode
  <2>2. UNCHANGED numbers /\ Place' = Place
    BY <2>1 DEF reader, Place
  <2>3. Carries(result_packet_buffer.data.words, Place)'
    <3>1. Packet(number, data, md5).data = data
      BY DEF Packet
    <3> QED
      BY <2>1, <2>2, <3>1 DEF CarryInv, Carries, FileNumber, Terminated
  <2> QED
    BY <1>2, <2>1, <2>2, <2>3 DEF CarryInv
<1>9. CASE Write
  <2>1. main_pc = "write" /\ UNCHANGED reader /\ UNCHANGED <<i, j>>
        /\ main_pc' \in {"report", "returned", "killed"}
    BY <1>9 DEF Write
  <2>2. reader_pc # "overrun" /\ UNCHANGED <<numbers, file, reader_pc>>
    BY <2>1 DEF ReaderInv, reader
  <2>3. CASE main_pc' = "report"
    BY <1>2, <2>1, <2>2, <2>3 DEF CarryInv
  <2> QED
    BY <1>1, <2>1, <2>2, <2>3
<1>10. CASE Report
  <2>1. /\ main_pc = "report" /\ UNCHANGED reader
        /\ main_pc' \in {"number", "returned"}
    BY <1>10 DEF Report
  <2>2. /\ reader_pc # "overrun" /\ numbers # << >> /\ ascii_int16 = << >>
        /\ UNCHANGED <<numbers, file, position, ascii_int16, reader_pc>>
    BY <2>1 DEF ReaderInv, reader
  <2>3. CASE main_pc' = "number"
    <3>1. Place' = Place + 1
      BY <1>0, <1>10, ReportCounts DEF Place
    <3>2. Read' = Read
      <4>1. (Place' - 1) * Words = (Place - 1) * Words + Words
        BY <1>0, <3>1, ReadIs
      <4>2. (Place - 1) * Words \in Nat /\ Words \in Nat
        BY <1>0, ReadIs
      <4> QED
        BY <2>1, <2>3, <4>1, <4>2 DEF Read
    <3>3. AtNext'
      BY <2>1, <2>2, <3>2 DEF ReaderInv, AtNext, At, Offset, Length
    <3> QED
      BY <1>0, <2>2, <2>3, <3>3 DEF ReaderInv, CarryInv, FileHeld
  <2> QED
    BY <1>1, <2>1, <2>2, <2>3
<1>11. CASE UNCHANGED vars
  <2>1. ReaderInv'
    BY <1>11 DEF vars, ReaderInv, FileHeld, AtNext, At, Offset, Length, Read,
       Place
  <2>2. CarryInv'
    BY <1>11 DEF vars, CarryInv, Carries, FileNumber, Terminated, Place
  <2> QED
    BY <1>11, <2>1, <2>2 DEF vars
<1> QED
  BY <1>4, <1>5, <1>6, <1>7, <1>8, <1>9, <1>10, <1>11 DEF Next, Start, Hash,
     Encode, Write, Report, reader

(* A write adds what the packet has of the file. *)
LEMMA WireKept ==
  ASSUME SourceInv, [Next]_vars
  PROVE  WireCarriesFile'
<1>0. /\ SealInv /\ ReaderInv /\ CarryInv /\ ClientInv /\ WireCarriesFile
      /\ UNCHANGED numbers
  BY SourceKept DEF SourceInv, SealInv
<1> DEFINE Good(p, k) ==
      p # Torn =>
        /\ numbers # << >>
        /\ \A w \in 1 .. Words :
             Terminated(FileNumber(k, w)) => p.data.words[w] = FileNumber(k, w)
<1>1. \A k \in 1 .. Len(sent) : Good(sent[k], k)
  BY <1>0 DEF WireCarriesFile
<1>2. SUFFICES \A k \in 1 .. Len(sent') : Good(sent'[k], k)
  BY <1>0 DEF WireCarriesFile, FileNumber, Terminated
<1> HIDE DEF Good
<1>3. CASE UNCHANGED sent
  BY <1>1, <1>3
<1>4. CASE Write /\ sent' # sent
  <2>1. /\ main_pc = "write" /\ Len(sent) \in Nat /\ Len(sent') = Len(sent) + 1
        /\ \A k \in 1 .. Len(sent) : sent'[k] = sent[k]
        /\ Place = Len(sent) + 1
        /\ sent'[Place] \in {result_packet_buffer, Torn}
    BY <1>0, <1>4, WriteAdds DEF Write
  <2>2. Good(Torn, Place)
    BY DEF Good
  <2>3. Good(result_packet_buffer, Place)
    <3>1. /\ numbers # << >> /\ Carries(result_packet_buffer.data.words, Place)
          /\ SealedAs(result_packet_buffer, Place)
      BY <1>0, <2>1 DEF ReaderInv, CarryInv, SealInv, BuildInv, Ended
    <3>2. Len(result_packet_buffer.data.words) = Words
      BY <3>1 DEF SealedAs, Full
    <3> QED
      BY <3>1, <3>2 DEF Good, Carries
  <2>4. \A k \in 1 .. Len(sent') : k \in 1 .. Len(sent) \/ k = Place
    BY <2>1
  <2> QED
    BY <1>1, <2>1, <2>2, <2>3, <2>4
<1>5. Write \/ UNCHANGED sent
  BY DEF Next, Start, NumberPacket, Fill, Hash, Encode, Report, vars
<1> QED
  BY <1>3, <1>4, <1>5

(* The k-th packet on the wire carries the k-th run of the file's numbers: *)
(* helper_read_int16_from_csv_file splits, merges, skips and changes none  *)
(* of them, whatever the file, and however often it is read from the start *)
(* again; a text without room for its terminator spoils only itself.       *)
THEOREM WireCarriesFileAlways == Spec => []WireCarriesFile
<1>1. Init => SourceInv
  <2> SUFFICES ASSUME Init
               PROVE  SourceInv
    OBVIOUS
  <2>1. SealInv
    BY SealedFirst
  <2>2. ReaderInv
    <3>1. FileHeld /\ main_pc = "start" /\ i = 0 /\ j = 0 /\ position = 0
          /\ ascii_int16 = << >> /\ reader_pc = "idle"
      BY FileAssumption DEF Init, Reader!Opened, FileHeld, Int16s
    <3>2. numbers # << >> => AtNext
      <4> SUFFICES ASSUME numbers # << >>
                   PROVE  AtNext
        OBVIOUS
      <4>1. Read = 0
        <5>1. Place - 1 = 0 /\ Words \in Nat
          BY <3>1 DEF Place
        <5> QED
          BY <3>1, <5>1 DEF Read
      <4>2. PICK n \in Nat \ {0} : n = Len(numbers)
        <5>1. Len(numbers) \in Nat /\ Len(numbers) # 0
          BY <3>1 DEF FileHeld
        <5> QED
          BY <5>1
      <4>3. 0 % n = 0
        <5>1. Splits(0, n, 0, 0)
          BY DEF Splits
        <5> QED
          BY <5>1, Quotient
      <4>4. At(1)
        <5>1. Offset(1) = 0 /\ Length(1) \in Nat
          BY <3>1, <4>2, TextInFile, 1 \in 1 .. Len(numbers)
        <5>2. << >> \in Seq(0 .. 10) /\ Len(<< >>) = 0
          OBVIOUS
        <5> QED
          BY <3>1, <5>1, <5>2 DEF At
      <4> QED
        BY <4>1, <4>2, <4>3, <4>4 DEF AtNext
    <3> QED
      BY <3>1, <3>2 DEF ReaderInv
  <2>3. CarryInv /\ WireCarriesFile
    BY DEF Init, CarryInv, WireCarriesFile
  <2> QED
    BY <2>1, <2>2, <2>3 DEF SourceInv
<1>2. SourceInv /\ [Next]_vars => SourceInv'
  BY SealInvKept, SourceKept, WireKept DEF SourceInv
<1>3. SourceInv => WireCarriesFile
  BY DEF SourceInv
<1> QED
  BY <1>1, <1>2, <1>3, PTL DEF Spec
=============================================================================
