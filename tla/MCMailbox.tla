----------------------------- MODULE MCMailbox -----------------------------
(* Two calls for a case whose mailbox holds one task, so that the second   *)
(* may find it full, and one for another case.                             *)
EXTENDS Mailbox, TLC

CONSTANTS c1, c2, c3, k1, k2

AllCalls == {c1, c2, c3}
TwoCases == [c \in AllCalls |-> IF c = c3 THEN k2 ELSE k1]

Interchangeable == Permutations(AllCalls)
=============================================================================
