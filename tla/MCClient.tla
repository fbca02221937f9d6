------------------------------ MODULE MCClient ------------------------------
(* Files of up to three numbers: one is the longest that the reader's array *)
(* holds with its terminator, one fills the array.                          *)
EXTENDS Client

Numbers       == {0, -5, -600, 32767}
SmallContents == UNION {[1 .. n -> Numbers] : n \in 0 .. 2} \cup {<<40, -5, 399>>, <<8, -32768>>}
=============================================================================
