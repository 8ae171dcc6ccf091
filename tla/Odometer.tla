------------------------------- MODULE Odometer -------------------------------
(***************************************************************************)
(* What ParseConfiguration promises: the possible permutations of the      *)
(* parameters, each once, depth first.  That is the way an odometer        *)
(* counts: digit k runs over 0 .. radix[k]-1 and the last digit is the     *)
(* fastest.                                                                *)
(***************************************************************************)
EXTENDS Integers, Sequences, FiniteSetsExt

VARIABLES radix,  \* a sequence of positive numbers, fixed
          out     \* the readings shown so far

Digits == DOMAIN radix
Zeros == [k \in Digits |-> 0]

\* The digits that can still go up.
Advancing(v) == {k \in Digits : v[k] + 1 < radix[k]}

\* The last of them goes up, and those behind it start again.
Successor(v) ==
  LET j == Max(Advancing(v))
  IN  [k \in Digits |-> IF k < j THEN v[k] ELSE IF k = j THEN v[k] + 1 ELSE 0]

Shown == out[Len(out)]

First == out = <<>> /\ out' = <<Zeros>> /\ UNCHANGED radix

Tick == /\ out # <<>>
        /\ Advancing(Shown) # {}
        /\ out' = Append(out, Successor(Shown))
        /\ UNCHANGED radix

Init == out = <<>>
Next == First \/ Tick
Spec == Init /\ [][Next]_<<radix, out>> /\ WF_<<radix, out>>(Next)

\* All permutations, as a set.
Readings == {v \in [Digits -> UNION {0 .. (radix[k] - 1) : k \in Digits}] :
               \A k \in Digits : v[k] < radix[k]}

Complete == /\ Len(out) = Cardinality(Readings)
            /\ {out[n] : n \in DOMAIN out} = Readings
=============================================================================
