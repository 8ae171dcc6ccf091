------------------------------ MODULE Conversion ------------------------------
(***************************************************************************)
(* What af_converter promises: it reads one file and leaves its conversion *)
(* at another path, or says that it has not.  While it works, and when it  *)
(* fails, the target may be spoilt; no other file is ever touched.         *)
(***************************************************************************)
CONSTANTS Paths, Spoilt, Nothing, Converted(_, _)

VARIABLES
  source, target,  \* the two paths, fixed
  files,           \* the whole file at each path, or Spoilt, or none
  taken,           \* what was read of the source, or Nothing
  phase            \* "begun", "taken", "delivered", "succeeded", "failed"

cvars == <<source, target, files, taken, phase>>

Put(f) == files' = [files EXCEPT ![target] = f]

Take == /\ phase = "begun"
        /\ taken' = files[source]
        /\ phase' = "taken"
        /\ UNCHANGED <<source, target, files>>

Spoil == /\ phase = "taken"
         /\ Put(Spoilt)
         /\ UNCHANGED <<source, target, taken, phase>>

Deliver == /\ phase = "taken"
           /\ Put(Converted(taken, target))
           /\ phase' = "delivered"
           /\ UNCHANGED <<source, target, taken>>

Succeed == /\ phase = "delivered"
           /\ phase' = "succeeded"
           /\ taken' = Nothing
           /\ UNCHANGED <<source, target, files>>

Fail == /\ phase \in {"begun", "taken"}
        /\ phase' = "failed"
        /\ taken' = Nothing
        /\ UNCHANGED <<source, target, files>>

Init == phase = "begun" /\ taken = Nothing

Next == Take \/ Spoil \/ Deliver \/ Succeed \/ Fail

\* It comes to an end.
Ends == Deliver \/ Succeed \/ Fail

Spec == Init /\ [][Next]_cvars /\ WF_cvars(Take \/ Ends)
=============================================================================
