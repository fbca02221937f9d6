-------------------------------- MODULE Md5 --------------------------------
(***************************************************************************)
(* The one function of mbedtls that the program calls, mbedtls_md5_ret     *)
(* (library/md5.c), as far as MD5's block structure: which blocks the      *)
(* message is cut into, how it is padded, and what is counted on the way.  *)
(* The compression of a block is left uninterpreted: a state is the        *)
(* sequence of the blocks that went into it, and the digest is the final   *)
(* state.                                                                  *)
(*                                                                         *)
(* The program hashes 1400 bytes, which is 56 modulo 64: the shortest      *)
(* message whose padding does not fit in the block it ends in.             *)
(***************************************************************************)
EXTENDS Integers, SequencesExt

CONSTANTS
  BLOCK_SIZE,   \* 64: the bytes of a block
  WORD          \* 2^32: the values of a word, each in one place of a block

ASSUME Md5Assumption ==
  /\ BLOCK_SIZE \in Nat /\ BLOCK_SIZE > 2
  /\ WORD \in Nat \ {0} /\ WORD % BLOCK_SIZE = 0 /\ WORD % 8 = 0

LENGTH_AT == BLOCK_SIZE - 2     \* 56: where the length is stored

Zeros(n) == [k \in 1 .. n |-> 0]

(* memcpy(buffer + at, bytes, Len(bytes)) *)
Copy(buffer, at, bytes) ==
  [k \in 1 .. Len(buffer) |->
     IF k - at \in 1 .. Len(bytes) THEN bytes[k - at] ELSE buffer[k]]

Blocks(bytes) ==
  [n \in 1 .. Len(bytes) \div BLOCK_SIZE |->
     SubSeq(bytes, (n - 1) * BLOCK_SIZE + 1, n * BLOCK_SIZE)]

-----------------------------------------------------------------------------
(* A context is [total, state, buffer]: the length so far in two words,    *)
(* the lower first, the state, and the bytes that wait for a whole block,  *)
(* with what earlier blocks left behind them.                              *)

mbedtls_md5_starts_ret ==
  [total |-> <<0, 0>>, state |-> << >>, buffer |-> Zeros(BLOCK_SIZE)]

AddWithoutCarry(total, ilen) ==                    \* slip: no carry
  <<(total[1] + ilen) % WORD, total[2]>>

Add(total, ilen) ==
  LET low == (total[1] + ilen) % WORD
  IN  <<low, IF low < ilen % WORD THEN (total[2] + 1) % WORD ELSE total[2]>>

mbedtls_md5_update_ret(ctx, input) ==
  LET left  == ctx.total[1] % BLOCK_SIZE
      fill  == BLOCK_SIZE - left
      first == IF left # 0 /\ Len(input) >= fill THEN fill ELSE 0
      full  == Copy(ctx.buffer, left, SubSeq(input, 1, first))
      rest  == SubSeq(input, first + 1, Len(input))
      tail  == SubSeq(rest, Len(Blocks(rest)) * BLOCK_SIZE + 1, Len(rest))
  IN  [total  |-> Add(ctx.total, Len(input)),
       state  |-> ctx.state \o (IF first = 0 THEN << >> ELSE <<full>>)
                            \o Blocks(rest),
       buffer |-> Copy(full, IF first = 0 THEN left ELSE 0, tail)]

FitsOneMore(used) == used <= LENGTH_AT             \* slip: 0x80 not counted

Fits(used) == used + 1 <= LENGTH_AT

mbedtls_md5_finish_ret(ctx) ==
  LET used == ctx.total[1] % BLOCK_SIZE
      end  == IF Fits(used) THEN LENGTH_AT ELSE BLOCK_SIZE
      pad  == Copy(ctx.buffer, used, <<128>> \o Zeros(end - used - 1))
      high == (ctx.total[1] \div (WORD \div 8)) + ((8 * ctx.total[2]) % WORD)
      low  == (8 * ctx.total[1]) % WORD
      last == Copy(IF Fits(used) THEN pad ELSE Copy(pad, 0, Zeros(LENGTH_AT)),
                   LENGTH_AT, <<low, high>>)
  IN  ctx.state \o (IF Fits(used) THEN << >> ELSE <<pad>>) \o <<last>>

mbedtls_md5_ret(input) ==
  mbedtls_md5_finish_ret(mbedtls_md5_update_ret(mbedtls_md5_starts_ret, input))

-----------------------------------------------------------------------------
(* MD5 by its definition: the message, 0x80, as few zeros as make whole    *)
(* blocks, and the length in bits, cut into blocks.                        *)
MD5(message) ==
  LET bits  == 8 * Len(message)
      zeros == (2 * BLOCK_SIZE - 3 - (Len(message) % BLOCK_SIZE)) % BLOCK_SIZE
  IN  Blocks(message \o <<128>> \o Zeros(zeros)
               \o <<bits % WORD, (bits \div WORD) % WORD>>)

(* The digest of a message that is hashed in two pieces. *)
InTwo(message, cut) ==
  mbedtls_md5_finish_ret(
    mbedtls_md5_update_ret(
      mbedtls_md5_update_ret(mbedtls_md5_starts_ret, SubSeq(message, 1, cut)),
      SubSeq(message, cut + 1, Len(message))))
=============================================================================
