----------------------------- MODULE MCSubmission -----------------------------
(* Small instances of Submission. Each payload opens a symbol/right of its    *)
(* own, so that two keys meet in one slot (same payload) or only through the  *)
(* global unknown block (different payloads).                                 *)
EXTENDS Submission, TLC

SlotOfDef == [p \in Payloads |-> p]

Symmetry == Permutations(Keys) \cup Permutations(Payloads)
=============================================================================
