------------------------------- MODULE Verdict -------------------------------
(***************************************************************************)
(* What one phase of the oracle inference promises to whoever reads its    *)
(* cache directory, whatever happens to the runs that write it: a verdict  *)
(* appears at once, complete; it is never replaced by another one unless a *)
(* run was started with --force, and such a run withdraws it before it     *)
(* gives a new one; a crash can make the file unreadable, and then only a  *)
(* forced run makes it readable again.                                     *)
(***************************************************************************)
VARIABLES verdict, forced

Verdicts == {"BUG", "NORMAL", "failed"}

TypeOK == verdict \in Verdicts \cup {"none", "unreadable"} /\ forced \in BOOLEAN

Init == verdict = "none" /\ forced = FALSE

Begin == forced' \in BOOLEAN /\ UNCHANGED verdict

Decide == verdict = "none" /\ verdict' \in Verdicts /\ UNCHANGED forced

Withdraw == forced /\ verdict' = "none" /\ UNCHANGED forced

Tear == verdict' = "unreadable" /\ UNCHANGED forced

Next == Begin \/ Decide \/ Withdraw \/ Tear

Spec == Init /\ [][Next]_<<verdict, forced>>
=============================================================================
