-------------------------------- MODULE OneCall --------------------------------
(***************************************************************************)
(* The frame for the code that keeps no state: one function is called,     *)
(* once, on any input of the instance, and what came of it is kept.        *)
(***************************************************************************)
EXTENDS Integers, SequencesExt

CONSTANT NULL

VARIABLES
  signal,  \* the object whose method is called, NULL for a free function
  result   \* what was called, with what, and what came of it; NULL before

Upto(n) == 0 .. (n - 1)
Count(from, to) == [j \in 1 .. (to - from + 1) |-> from + j - 1]
Abs(x) == IF x < 0 THEN -x ELSE x

Returns(op, args, value) == /\ result = NULL
                            /\ result' = [op |-> op, args |-> args, value |-> value]
                            /\ UNCHANGED signal

Of(op) == result # NULL /\ result.op = op
=============================================================================
