------------------------------- MODULE Analysis -------------------------------
(***************************************************************************)
(* A whole analysis, analyze of patchguru/SpecInfer.py: phase 1 (spec_infer)*)
(* and then, when it found the pull request normal, phase 2                *)
(* (spec_generalization), each with a cache directory of its own.  A phase *)
(* is taken at the level of module Verdict, of which module SpecInfer      *)
(* shows what it promises; here it matters which specification a saved     *)
(* result goes back to, over several runs with and without --force.        *)
(***************************************************************************)
EXTENDS Naturals

CONSTANT MaxRuns    \* bound: how many runs are started

ASSUME RunsAssumption == MaxRuns \in Nat

Phases == {1, 2}
Verdicts == {"BUG", "NORMAL", "failed"}
Results == {"absent", "partial", "unreadable"} \cup Verdicts

VARIABLES
    pc,         \* "down", "Open": a phase is entered, "Work": it is under way
    phase,      \* the phase the run is in
    force,      \* the run was given --force
    result,     \* what results.json of each phase says
    source,     \* the run whose first stage result[1], or the original of result[2], is from
    run,        \* how many runs were started
    returned,   \* the last run came to its end
    everForced  \* history: some run was given --force

vars == <<pc, phase, force, result, source, run, returned, everForced>>

Init ==
    /\ pc = "down" /\ phase = 1 /\ force = FALSE
    /\ result = [p \in Phases |-> "absent"]
    /\ source = [p \in Phases |-> 0]
    /\ run = 0
    /\ returned = TRUE
    /\ everForced = FALSE

Start(f) ==
    /\ pc = "down"
    /\ run < MaxRuns
    /\ run' = run + 1
    /\ pc' = "Open" /\ phase' = 1
    /\ force' = f
    /\ everForced' = (everForced \/ f)
    /\ returned' = FALSE
    /\ UNCHANGED <<result, source>>

Return ==
    /\ pc' = "down"
    /\ returned' = TRUE
    /\ UNCHANGED <<phase, force, run, everForced>>

(* Phase 1 has given the verdict v: only NORMAL is generalised.  After     *)
(* phase 2 the run is over.                                                *)
Continue_SkipsBugOnly(v) ==
    IF phase = 1 /\ v # "BUG"
      THEN /\ pc' = "Open" /\ phase' = 2
           /\ UNCHANGED <<force, run, returned, everForced>>
      ELSE Return

Continue(v) ==
    IF phase = 1 /\ v = "NORMAL"
      THEN /\ pc' = "Open" /\ phase' = 2
           /\ UNCHANGED <<force, run, returned, everForced>>
      ELSE Return

Forced_Phase1Only == force /\ phase = 1

\* the argument force of the phase
Forced == force

(* A saved verdict is taken over, unless the run was forced.               *)
Loaded ==
    /\ pc = "Open"
    /\ ~Forced
    /\ result[phase] \in Verdicts
    /\ Continue(result[phase])
    /\ UNCHANGED <<result, source>>

Resumed ==
    /\ pc = "Open"
    /\ ~Forced
    /\ result[phase] = "partial"
    /\ pc' = "Work"
    /\ UNCHANGED <<phase, force, result, source, run, returned, everForced>>

\* the run, or the specification of phase 1, a phase begins with
Origin == IF phase = 1 THEN run ELSE source[1]

Begin_IgnoresCache ==
    /\ pc = "Open"
    /\ result' = [result EXCEPT ![phase] = "partial"]
    /\ source' = [source EXCEPT ![phase] = Origin]
    /\ pc' = "Work"
    /\ UNCHANGED <<phase, force, run, returned, everForced>>

(* The first stage is run, and its result saved over what was there.       *)
Begin ==
    /\ pc = "Open"
    /\ Forced \/ result[phase] = "absent"
    /\ result' = [result EXCEPT ![phase] = "partial"]
    /\ source' = [source EXCEPT ![phase] = Origin]
    /\ pc' = "Work"
    /\ UNCHANGED <<phase, force, run, returned, everForced>>

Decide ==
    /\ pc = "Work"
    /\ \E v \in Verdicts :
         /\ result' = [result EXCEPT ![phase] = v]
         /\ Continue(v)
    /\ UNCHANGED source

(* The run ends by itself: the pull request was not retrieved, it modifies *)
(* more than one function, results.json cannot be read or be resumed.  Or  *)
(* it dies, perhaps in a save, the first one of the phase or a later one.  *)
Dies ==
    /\ pc # "down"
    /\ pc' = "down"
    /\ \/ UNCHANGED <<result, source>>
       \/ /\ pc = "Open" /\ (Forced \/ result[phase] = "absent")
          /\ result' = [result EXCEPT ![phase] = "unreadable"]
          /\ source' = [source EXCEPT ![phase] = Origin]
       \/ /\ pc = "Work"
          /\ result' = [result EXCEPT ![phase] = "unreadable"]
          /\ UNCHANGED source
    /\ UNCHANGED <<phase, force, run, returned, everForced>>

Next ==
    \/ \E f \in BOOLEAN : Start(f)
    \/ Loaded \/ Resumed \/ Begin \/ Decide
    \/ Dies

Spec == Init /\ [][Next]_vars
-----------------------------------------------------------------------------
(***************************************************************************)
(* Properties.                                                             *)
(***************************************************************************)
TypeOK ==
    /\ pc \in {"down", "Open", "Work"} /\ phase \in Phases
    /\ force \in BOOLEAN /\ returned \in BOOLEAN /\ everForced \in BOOLEAN
    /\ result \in [Phases -> Results]
    /\ source \in [Phases -> 0 .. run]
    /\ run \in 0 .. MaxRuns

verdictOf(p) == IF result[p] \in {"absent", "partial"} THEN "none" ELSE result[p]

P1 == INSTANCE Verdict WITH verdict <- verdictOf(1), forced <- force
P2 == INSTANCE Verdict WITH verdict <- verdictOf(2), forced <- force

(* Run after run, each of the two directories keeps what module Verdict    *)
(* promises of a single phase.                                             *)
PhasesKeepPromise == P1!Spec /\ P2!Spec

(* As long as no run was forced, whatever died and was resumed: there is a *)
(* result of phase 2 only beside a NORMAL one of phase 1, and it goes back *)
(* to that very specification.                                             *)
PhasesAgree ==
    ~everForced /\ result[2] # "absent" => result[1] = "NORMAL" /\ source[2] = source[1]

(* A forced run that found the pull request normal and came to its end has *)
(* replaced the results of both phases.                                    *)
ForcedRunGoesThrough ==
    returned /\ force /\ result[1] = "NORMAL" =>
        source[1] = run /\ source[2] = run /\ result[2] \in Verdicts
=============================================================================
