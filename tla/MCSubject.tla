------------------------------ MODULE MCSubject ------------------------------
EXTENDS Subject, TLC

Swaps == Permutations(Observers)
=============================================================================
