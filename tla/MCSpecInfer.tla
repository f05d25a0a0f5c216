----------------------------- MODULE MCSpecInfer -----------------------------
(* Instances of SpecInfer for TLC. *)
EXTENDS SpecInfer

\* numbers of reference summary queries
OneOrThree == {1, 3}
NoSummary == {0}

Unforced == {FALSE}
ForcedOrNot == BOOLEAN
=============================================================================
