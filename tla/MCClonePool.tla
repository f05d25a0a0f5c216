---------------------------- MODULE MCClonePool ----------------------------
(* Instances of ClonePool for TLC. *)
EXTENDS ClonePool, TLC

\* commits are only compared with each other
CommitSymmetry == Permutations(Commits)

\* a project whose main branch is "dev" (marshmallow), or "main"
DevOnly == {"dev"}
MainOnly == {"main"}
=============================================================================
