----------------------------- MODULE CsvReader -----------------------------
(***************************************************************************)
(* The client's source of numbers (src/common/helper/helper.c):            *)
(* helper_cycle_read_from_csv_file calls helper_read_int16_from_csv_file   *)
(* for one number after the other, which goes back to the start of the     *)
(* file at its end.  A step is a character read.  The module has no        *)
(* next-state relation of its own: Client puts its steps into main.        *)
(*                                                                         *)
(* A digit is itself; the other characters are numbered after the digits.  *)
(***************************************************************************)
EXTENDS Integers, Sequences

CONSTANTS
  MAX_ASCII_CHARS,  \* MAX_ASCII_CHARS_COUNT_IN_INT32_VALUE
  Contents,         \* the lists of numbers that the file may hold
  Elements          \* how many numbers are read: the size in int16_t

VARIABLES
  numbers,        \* the numbers in the file
  file,           \* its characters
  position,       \* how many characters have been read
  ascii_int16,    \* the characters of the number being read
  buffer,         \* the numbers read
  pc              \* "idle", "read", "done", "failed", or "overrun" after a
                  \* write past the array

Digit     == 0 .. 9
Minus     == 10
Separator == 11    \* a comma or the end of a line
EOF       == -1

INT16_MIN == -32768
INT16_MAX == 32767

-----------------------------------------------------------------------------
(* A csv file: the decimal texts of the numbers, with a separator between  *)
(* any two and perhaps one at the end.                                     *)

Magnitude(n) == IF n < 0 THEN -n ELSE n

Digits[m \in 0 .. -INT16_MIN] ==
  IF m < 10 THEN <<m>> ELSE Append(Digits[m \div 10], m % 10)

Text(n) == (IF n < 0 THEN <<Minus>> ELSE << >>) \o Digits[Magnitude(n)]

(* What the file holds up to its k-th number. *)
UpTo(ns) ==
  LET upto[k \in 0 .. Len(ns)] ==
        IF k = 0 THEN << >>
                 ELSE (IF k = 1 THEN << >> ELSE Append(upto[k - 1], Separator))
                        \o Text(ns[k])
  IN  upto

Csv(ns) == UpTo(ns)[Len(ns)]

(* The file has been opened, and nothing read. *)
Opened ==
  /\ numbers \in Contents
  /\ file \in {Csv(numbers), Append(Csv(numbers), Separator)}
  /\ position = 0
  /\ ascii_int16 = << >>
  /\ buffer = << >>
  /\ pc = "idle"

-----------------------------------------------------------------------------
(* (int16_t) strtoul: the digits up to the first other character, negated  *)
(* after a minus, cut to 16 bits.                                          *)

Int16(v) == ((v - INT16_MIN) % 65536) + INT16_MIN

Number(digits) ==
  LET number[k \in 0 .. Len(digits)] ==
        IF k = 0 THEN 0 ELSE 10 * number[k - 1] + digits[k]
  IN  number[Len(digits)]

Value(text) ==
  Int16(IF text[1] = Minus THEN -Number(Tail(text)) ELSE Number(text))

(* A text that fills the array has no terminator, and strtoul reads on: a  *)
(* digit behind the array would count (a bound: one digit, a 7).           *)
Readings ==
  IF Len(ascii_int16) < MAX_ASCII_CHARS THEN {ascii_int16}
                                        ELSE {ascii_int16, Append(ascii_int16, 7)}

(* fgetc, and fseek when it returns EOF. *)
Next1 == IF position < Len(file) THEN file[position + 1] ELSE EOF

AdvanceOnly == position' = IF position < Len(file) THEN position + 1
                                                   ELSE position
                                                   \* slip: no fseek

Advance == position' = IF position < Len(file) THEN position + 1 ELSE 0

PartUnsigned(c) == c \in Digit                     \* slip: the sign skipped

Part(c) == c \in Digit \/ (c = Minus /\ ascii_int16 = << >>)

(* helper_cycle_read_from_csv_file is called for a new buffer. *)
Call ==
  /\ pc # "read"
  /\ buffer' = << >> /\ ascii_int16' = << >>
  /\ pc' = "read"
  /\ UNCHANGED <<numbers, file, position>>

Store ==
  /\ pc = "read" /\ Part(Next1)
  /\ Advance
  /\ IF Len(ascii_int16) < MAX_ASCII_CHARS
       THEN ascii_int16' = Append(ascii_int16, Next1) /\ UNCHANGED pc
       ELSE pc' = "overrun" /\ UNCHANGED ascii_int16
  /\ UNCHANGED <<numbers, file, buffer>>

Skip ==
  /\ pc = "read" /\ ~Part(Next1) /\ ascii_int16 = << >>
  /\ Advance
  /\ UNCHANGED <<numbers, file, ascii_int16, buffer, pc>>

(* A number has been read, the last one perhaps. *)
Convert ==
  /\ pc = "read" /\ ~Part(Next1) /\ ascii_int16 # << >>
  /\ Advance
  /\ \E text \in Readings : buffer' = Append(buffer, Value(text))
  /\ ascii_int16' = << >>                         \* the next call clears it
  /\ pc' = IF Len(buffer') < Elements THEN "read" ELSE "done"
  /\ UNCHANGED <<numbers, file>>

(* strtoul, or a call before it, has left an error in errno. *)
Fail ==
  /\ pc = "read" /\ ~Part(Next1) /\ ascii_int16 # << >>
  /\ Advance
  /\ pc' = "failed"
  /\ UNCHANGED <<numbers, file, ascii_int16, buffer>>

Reading == Store \/ Skip \/ Convert
=============================================================================
