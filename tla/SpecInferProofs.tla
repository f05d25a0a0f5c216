-------------------------- MODULE SpecInferProofs --------------------------
(***************************************************************************)
(* Theorems about SpecInfer, for every set of specifications, all attempt  *)
(* limits and budgets, any number of crashes and any mix of forced and     *)
(* unforced runs.                                                          *)
(***************************************************************************)
EXTENDS SpecInfer, TLAPS

USE DEF Labels

-----------------------------------------------------------------------------
(* The constant states are states.                                         *)
LEMMA FreshType == /\ Fresh \in StatesWith(Stages)
                   /\ Absent \in StatesWith(Stages \cup {"absent", "torn"})
                   /\ Torn \in StatesWith(Stages \cup {"absent", "torn"})
  BY DEF Fresh, Absent, Torn, StatesWith, Stages, Flags, Executions, NoExecution

(* A saved dictionary is a dictionary on the disk, and one that can be     *)
(* read is a dictionary again.                                             *)
LEMMA SavedType ==
    /\ \A s \in StatesWith(Stages) : s \in StatesWith(Stages \cup {"absent", "torn"})
    /\ \A s \in StatesWith(Stages \cup {"absent", "torn"}) :
         Readable(s) => s \in StatesWith(Stages)
  BY DEF StatesWith, Readable

(* The process ends in the same way whatever ends it.                      *)
LEMMA EndType ==
    ASSUME TypeOK, NEW f \in {"none", "JSONDecodeError", "KeyError", "AssertionError"},
           End(f), UNCHANGED disk
    PROVE  TypeOK'
  BY FreshType DEF TypeOK, End, disk

(***************************************************************************)
(* Type correctness, one step per action.                                  *)
(***************************************************************************)
LEMMA TypeStep == TypeOK /\ [Next]_vars => TypeOK'
<1> SUFFICES ASSUME TypeOK, [Next]_vars PROVE TypeOK'
  OBVIOUS
<1> DEFINE StepOK == /\ st' \in StatesWith(Stages)
                     /\ tries' \in Nat
                     /\ pc' \in {"SaveResults", "Stage1", "Review"}
                     /\ ret' \in Labels
<1>0. /\ st \in StatesWith(Stages)
      /\ st.llm_queries \in Int
      /\ st.execution_status \in Executions
      /\ st.execution_status.repair_attempts \in Nat
      /\ st.specification \in Specs \cup {NoSpec}
  BY DEF TypeOK, StatesWith, Executions
<1>1. ASSUME NEW force \in ForceChoices, NEW n \in SummaryChoices, StartFresh(force, n)
      PROVE  TypeOK'
  BY <1>1, FreshType, ChoicesAssumption DEF TypeOK, StartFresh, disk
<1>2. ASSUME NEW n \in SummaryChoices, StartCached(n) PROVE TypeOK'
  <2>1. n \in Nat /\ asked' \in Nat
    BY <1>2, ChoicesAssumption DEF TypeOK, StartCached
  <2> QED
    BY <1>2, <2>1 DEF TypeOK, StartCached, disk
<1>3. CASE LoadTorn
  BY <1>3, EndType DEF LoadTorn
<1>4. CASE LoadDecided
  <2>1. CASE End("AssertionError") /\ UNCHANGED disk
    BY <2>1, EndType
  <2>2. CASE ~End("AssertionError")
    <3>1. st' \in StatesWith(Stages)
      BY <1>4, <2>2, SavedType DEF TypeOK, LoadDecided, Decided, Readable
    <3> QED
      BY <1>4, <2>2, <3>1 DEF TypeOK, LoadDecided, disk
  <2> QED
    BY <1>4, <2>1, <2>2 DEF LoadDecided
<1>5. CASE LoadPartial
  <2>1. CASE End("KeyError") /\ UNCHANGED disk
    BY <2>1, EndType
  <2>2. CASE ~End("KeyError")
    <3>1. st' \in StatesWith(Stages)
      BY <1>5, <2>2, SavedType DEF TypeOK, LoadPartial
    <3> QED
      BY <1>5, <2>2, <3>1 DEF TypeOK, LoadPartial, disk
  <2> QED
    BY <1>5, <2>1, <2>2 DEF LoadPartial
<1>6. CASE Stage1Query
  <2>1. asked' \in Nat /\ tries + 1 \in Nat /\ tries + 1 \in Int /\ FailureCharge \in Int
    BY <1>6, AttemptsAssumption DEF TypeOK, Stage1Query
  <2>2. ASSUME Stage1Fails PROVE StepOK
    BY <2>1, <2>2, <1>0 DEF Stage1Fails, Save, StatesWith, Stages, Flags
  <2>3. ASSUME NEW spec \in Specs, Stage1Succeeds(spec) PROVE StepOK
    <3> DEFINE queries == tries + 1
    <3>1. queries \in Int /\ st' = [st EXCEPT !.stage = Stage1, !.stage1 = "yes",
                                     !.specification = spec, !.llm_queries = queries]
      BY <2>1, <2>3 DEF Stage1Succeeds, Save
    <3> HIDE DEF queries
    <3>2. st' \in StatesWith(Stages)
      BY <3>1, <1>0 DEF StatesWith, Stages, Flags
    <3> QED
      BY <2>3, <3>2 DEF Stage1Succeeds, Save
  <2>4. ASSUME AskAgain(Stage1Attempts) PROVE StepOK
    BY <2>1, <2>4, <1>6 DEF TypeOK, Stage1Query, AskAgain
  <2>5. StepOK
    BY <1>6, <2>2, <2>3, <2>4 DEF Stage1Query
  <2> QED
    BY <1>6, <2>1, <2>5 DEF TypeOK, Stage1Query, disk
<1>7. CASE AfterStage1
  <2> DEFINE queries == st.llm_queries + summary
             counted == [st EXCEPT !.llm_queries = queries]
  <2>1. queries \in Int
    BY <1>0 DEF TypeOK
  <2>2. counted \in StatesWith(Stages) /\ [counted EXCEPT !.stage = "failed"] \in StatesWith(Stages)
    <3> HIDE DEF queries
    <3> QED
      BY <1>0, <2>1 DEF StatesWith, Stages
  <2>3. \/ st' = counted /\ pc' = "Loop" /\ UNCHANGED ret
        \/ st' = [counted EXCEPT !.stage = "failed"] /\ pc' = "SaveResults" /\ ret' = "Exit"
    BY <1>7 DEF AfterStage1, Save
  <2> HIDE DEF counted
  <2> QED
    BY <1>7, <2>2, <2>3 DEF TypeOK, AfterStage1, disk
<1>8. CASE Loop
  BY <1>8 DEF TypeOK, Loop, local, disk
<1>9. CASE RepairNoSpec
  BY <1>9, EndType DEF RepairNoSpec
<1>10. CASE RepairFresh
  <2>1. PICK outcome \in Outcomes :
          Save([st EXCEPT !.stage = "error_repair",
                          !.execution_status = [outcome |-> outcome, of |-> st.specification,
                                                repair_attempts |-> 0]],
               "RepairLoop")
    BY <1>10 DEF RepairFresh
  <2> DEFINE execution == [outcome |-> outcome, of |-> st.specification, repair_attempts |-> 0]
  <2>2. execution \in Executions
    BY <1>0 DEF Executions
  <2>3. st' = [st EXCEPT !.stage = "error_repair", !.execution_status = execution]
    BY <2>1 DEF Save
  <2> HIDE DEF execution
  <2>4. st' \in StatesWith(Stages)
    BY <1>0, <2>2, <2>3 DEF StatesWith, Stages
  <2> QED
    BY <1>10, <2>1, <2>4 DEF TypeOK, RepairFresh, Save, disk
<1>11. CASE RepairResumed
  <2> DEFINE queries == st.llm_queries - st.execution_status.repair_attempts
  <2>1. queries \in Int /\ st' = [st EXCEPT !.llm_queries = queries]
    BY <1>0, <1>11 DEF RepairResumed
  <2> HIDE DEF queries
  <2>2. st' \in StatesWith(Stages)
    BY <1>0, <2>1 DEF StatesWith
  <2> QED
    BY <1>0, <1>11, <2>2 DEF TypeOK, RepairResumed, disk
<1>12. CASE RepairQuery
  <2>0. attempts' = attempts + 1 /\ asked' = asked + 1
    BY <1>12 DEF RepairQuery
  <2>1. attempts' \in Nat /\ asked' \in Nat
    BY <2>0 DEF TypeOK
  <2>2. ASSUME NEW spec \in Specs, NEW outcome \in Outcomes,
               Save([st EXCEPT !.specification = spec,
                               !.execution_status = [outcome |-> outcome, of |-> spec,
                                                     repair_attempts |-> attempts + 1]],
                    "RepairLoop")
        PROVE  st' \in StatesWith(Stages) /\ pc' = "SaveResults" /\ ret' = "RepairLoop"
    <3> DEFINE execution == [outcome |-> outcome, of |-> spec, repair_attempts |-> attempts + 1]
    <3>1. attempts + 1 \in Nat
      BY DEF TypeOK
    <3>2. execution \in Executions
      BY <3>1 DEF Executions
    <3>3. st' = [st EXCEPT !.specification = spec, !.execution_status = execution]
      BY <2>2 DEF Save
    <3> HIDE DEF execution
    <3>4. st' \in StatesWith(Stages)
      BY <1>0, <3>2, <3>3 DEF StatesWith
    <3> QED
      BY <1>12, <2>2, <3>4 DEF RepairQuery, Save
  <2>3. /\ st' \in StatesWith(Stages)
        /\ pc' \in {"RepairLoop", "SaveResults"}
        /\ ret' \in Labels
    BY <1>0, <1>12, <2>2 DEF TypeOK, RepairQuery, Save
  <2> QED
    BY <1>12, <2>1, <2>3 DEF TypeOK, RepairQuery, disk
<1>13. CASE RepairEnds
  <2> DEFINE queries == st.llm_queries + attempts
             flag == IF RepairStops THEN "yes" ELSE "no"
  <2>1. queries \in Int /\ flag \in Flags
    BY <1>0 DEF TypeOK, Flags
  <2>2. st' = [st EXCEPT !.llm_queries = queries, !.error_repair = flag]
    BY <1>13 DEF RepairEnds, Save
  <2> HIDE DEF queries, flag
  <2>3. st' \in StatesWith(Stages)
    BY <1>0, <2>1, <2>2 DEF StatesWith
  <2> QED
    BY <1>13, <2>3 DEF TypeOK, RepairEnds, Save, disk
<1>14. CASE AfterRepair
  <2>1. st' \in StatesWith(Stages)
    BY <1>14 DEF TypeOK, AfterRepair, StatesWith, Stages
  <2> QED
    BY <1>14, <2>1 DEF TypeOK, AfterRepair, disk
<1>15. CASE ReviewSkipped
  <2>1. st' \in StatesWith(Stages)
    BY <1>15 DEF TypeOK, ReviewSkipped, Save, StatesWith, Stages, Flags
  <2> QED
    BY <1>15, <2>1 DEF TypeOK, ReviewSkipped, Save, disk
<1>16. CASE ReviewAssert
  BY <1>16, EndType DEF ReviewAssert
<1>17. CASE ReviewQuery
  <2>1. /\ asked' \in Nat /\ tries + 1 \in Nat
        /\ st.llm_queries + ReviewAttempts \in Int /\ st.llm_queries + tries + 1 \in Int
    BY <1>0, <1>17, AttemptsAssumption DEF TypeOK, ReviewQuery
  <2>2. ASSUME ReviewFails PROVE StepOK
    <3> DEFINE queries == st.llm_queries + ReviewAttempts
    <3>1. st' = [st EXCEPT !.stage = "assert_review", !.assert_review = "no",
                           !.llm_queries = queries]
      BY <2>2 DEF ReviewFails, Save
    <3>2. queries \in Int
      BY <2>1
    <3> HIDE DEF queries
    <3>3. st' \in StatesWith(Stages)
      BY <1>0, <3>1, <3>2 DEF StatesWith, Stages, Flags
    <3> QED
      BY <2>2, <3>3 DEF ReviewFails, Save
  <2> DEFINE queries == st.llm_queries + tries + 1
  <2>3. queries \in Int
    BY <2>1
  <2>4. ASSUME NEW spec \in Specs, ReviewMismatch(spec) PROVE StepOK
    <3>1. st' = [st EXCEPT !.stage = "assert_review", !.assert_review = "yes",
                           !.review_conclusion = "MISMATCH", !.specification = spec,
                           !.llm_queries = queries]
      BY <2>4 DEF ReviewMismatch, Save
    <3> HIDE DEF queries
    <3>2. st' \in StatesWith(Stages)
      BY <1>0, <2>3, <3>1 DEF StatesWith, Stages, Flags
    <3> QED
      BY <2>4, <3>2 DEF ReviewMismatch, Save
  <2>5. ASSUME ReviewBug PROVE StepOK
    <3>1. st' = [st EXCEPT !.stage = "completed", !.assert_review = "yes",
                           !.review_conclusion = "BUG", !.llm_queries = queries]
      BY <2>5 DEF ReviewBug, Save
    <3> HIDE DEF queries
    <3>2. st' \in StatesWith(Stages)
      BY <1>0, <2>3, <3>1 DEF StatesWith, Stages, Flags
    <3> QED
      BY <2>5, <3>2 DEF ReviewBug, Save
  <2>6. ASSUME AskAgain(ReviewAttempts) PROVE StepOK
    BY <2>1, <2>6, <1>17 DEF TypeOK, ReviewQuery, AskAgain
  <2>7. StepOK
    BY <1>17, <2>2, <2>4, <2>5, <2>6 DEF ReviewQuery
  <2> QED
    BY <1>17, <2>1, <2>7 DEF TypeOK, ReviewQuery, disk
<1>18. CASE AfterReview
  <2>1. st' \in StatesWith(Stages)
    BY <1>18 DEF TypeOK, AfterReview, StatesWith, Stages
  <2> QED
    BY <1>18, <2>1 DEF TypeOK, AfterReview, disk
<1>19. CASE Finish
  <2>1. st' \in StatesWith(Stages)
    BY <1>19 DEF TypeOK, Finish, Save, StatesWith, Stages
  <2> QED
    BY <1>19, <2>1 DEF TypeOK, Finish, Save, disk
<1>20. CASE Return
  BY <1>20, EndType DEF Return
<1>21. CASE SaveResults
  BY <1>21, SavedType DEF TypeOK, SaveResults, local
<1>22. CASE SaveSpec
  <2>1. specFile' \in Specs \cup {NoSpec, "absent", "torn"}
    BY <1>22 DEF TypeOK, SaveSpec, StatesWith
  <2> QED
    BY <1>22, <2>1 DEF TypeOK, SaveSpec, local
<1>23. CASE Crash
  <2>1. results' \in StatesWith(Stages \cup {"absent", "torn"})
    BY <1>23, FreshType DEF TypeOK, Crash
  <2> QED
    BY <1>23, <2>1, FreshType DEF TypeOK, Crash
<1>24. CASE UNCHANGED vars
  BY <1>24 DEF TypeOK, vars
<1> QED
  BY <1>1, <1>2, <1>3, <1>4, <1>5, <1>6, <1>7, <1>8, <1>9, <1>10, <1>11, <1>12, <1>13,
     <1>14, <1>15, <1>16, <1>17, <1>18, <1>19, <1>20, <1>21, <1>22, <1>23, <1>24
  DEF Next, Run, Review

(* In every state of every history of runs and crashes the variables have  *)
(* their types; in particular what is on the disk is always something the  *)
(* code wrote, nothing, or a torn file.                                    *)
THEOREM Typing == Spec => []TypeOK
<1>1. ASSUME Init PROVE TypeOK
  <2>1. st \in StatesWith(Stages) /\ results \in StatesWith(Stages \cup {"absent", "torn"})
    BY <1>1, FreshType DEF Init
  <2>2. /\ attempts \in Nat /\ tries \in Nat /\ summary \in Nat
        /\ asked \in Nat /\ crashes \in Nat
    BY <1>1 DEF Init
  <2> QED
    BY <1>1, <2>1, <2>2 DEF Init, TypeOK
<1> QED
  BY <1>1, TypeStep, PTL DEF Spec
-----------------------------------------------------------------------------
(***************************************************************************)
(* The inductive invariant behind the verdicts.  VerdictMatchesExecution   *)
(* speaks of the disk in a completed analysis only; it is inductive when   *)
(* it is said of the dictionary in memory too, and of the interrupted      *)
(* repair that a later run takes up: in stage "error_repair" the last      *)
(* execution is one of the current specification.                          *)
(***************************************************************************)
Consistent(s) ==
    /\ Justified(s)
    /\ s.stage = "error_repair" => /\ s.specification # NoSpec
                                   /\ s.execution_status.of = s.specification

\* the run is at label l, or saving on its way to it
Towards(l) == pc = l \/ (pc \in {"SaveResults", "SaveSpec"} /\ ret = l)

\* the last execution needs no more repairs
Settled == st.execution_status.outcome \in {"ok", "post_assert"}

IInv ==
    /\ Consistent(results)
    /\ Consistent(st)
    /\ Towards("RepairLoop") => st.stage = "error_repair"
    /\ Towards("AfterRepair") =>
         st.stage = "error_repair" /\ (st.error_repair = "no" \/ Settled)
    /\ pc = "Review" => st.stage = "error_repair" /\ Settled
    /\ AssertionsHold

LEMMA FreshConsistent == Consistent(Fresh) /\ Consistent(Absent) /\ Consistent(Torn)
  BY DEF Consistent, Justified, Fresh, Absent, Torn, NoExecution

(* The process ends without breaking one of the code's assertions.         *)
LEMMA EndStep ==
    ASSUME IInv, NEW f, f # "AssertionError", End(f), UNCHANGED disk
    PROVE  IInv'
  BY FreshConsistent DEF IInv, End, disk, Towards, AssertionsHold

(* A step that saves `states`, and one that only goes on to label l, keep  *)
(* the invariant when the new dictionary has what the label asks for.      *)
Suits(s, l) ==
    /\ Consistent(s)
    /\ l = "RepairLoop" => s.stage = "error_repair"
    /\ l = "AfterRepair" =>
         /\ s.stage = "error_repair"
         /\ s.error_repair = "no" \/ s.execution_status.outcome \in {"ok", "post_assert"}

LEMMA SaveStep ==
    ASSUME IInv, NEW s, NEW l \in Labels, Save(s, l), Suits(s, l), UNCHANGED <<results, fault>>
    PROVE  IInv'
  BY DEF IInv, Save, Suits, Towards, Settled, AssertionsHold

LEMMA GoStep ==
    ASSUME IInv, NEW l, pc' = l,
           l \in {"down", "Load", "Stage1", "Loop", "Repair", "Finish", "Exit", "RepairLoop", "AfterRepair"},
           Suits(st', l), UNCHANGED results, fault' # "AssertionError"
    PROVE  IInv'
  BY DEF IInv, Suits, Towards, Settled, AssertionsHold

(* The invariant is kept, one step per action.                             *)
LEMMA IInvStep == TypeOK /\ IInv /\ [Next]_vars => IInv'
<1> SUFFICES ASSUME TypeOK, IInv, [Next]_vars PROVE IInv'
  OBVIOUS
<1>0. /\ Consistent(st) /\ Consistent(results) /\ fault # "AssertionError"
      /\ st \in StatesWith(Stages)
  BY DEF IInv, AssertionsHold, TypeOK
<1>a. Stage1 \notin {"init", "error_repair", "assert_review", "completed", "failed"}
  BY Stage1Assumption
<1>1. ASSUME NEW force \in ForceChoices, NEW n \in SummaryChoices, StartFresh(force, n)
      PROVE  IInv'
  BY <1>1, FreshConsistent, GoStep DEF StartFresh, Suits, disk
<1>2. ASSUME NEW n \in SummaryChoices, StartCached(n) PROVE IInv'
  BY <1>2, <1>0, GoStep DEF StartCached, Suits, disk
<1>3. CASE LoadTorn
  BY <1>3, EndStep DEF LoadTorn
<1>4. CASE LoadDecided
  <2>1. results.stage = "completed" => CompletedWellFormed(results)
    BY <1>0 DEF Consistent, Justified, CompletedWellFormed, NoExecution
  <2> QED
    BY <1>0, <1>4, <2>1, GoStep DEF LoadDecided, Suits, disk
<1>5. CASE LoadPartial
  <2>1. CASE results.stage \notin NamedStages
    BY <1>5, <2>1, EndStep DEF LoadPartial
  <2>2. CASE results.stage \in NamedStages
    BY <1>0, <1>5, <2>2, GoStep DEF LoadPartial, Suits, disk
  <2> QED
    BY <2>1, <2>2
<1>6. CASE Stage1Query
  <2>1. CASE Stage1Fails
    <3> DEFINE s == [st EXCEPT !.stage = Stage1, !.stage1 = "no", !.llm_queries = FailureCharge]
    <3>1. s.stage = Stage1
      BY <1>0 DEF StatesWith
    <3>2. Save(s, "AfterStage1")
      BY <2>1 DEF Stage1Fails
    <3> HIDE DEF s
    <3>3. Suits(s, "AfterStage1")
      BY <1>a, <3>1 DEF Suits, Consistent, Justified
    <3> QED
      BY <1>6, <3>2, <3>3, SaveStep DEF Stage1Query, disk
  <2>2. ASSUME NEW spec \in Specs, Stage1Succeeds(spec) PROVE IInv'
    <3> DEFINE s == [st EXCEPT !.stage = Stage1, !.stage1 = "yes", !.specification = spec,
                               !.llm_queries = tries + 1]
    <3>1. s.stage = Stage1
      BY <1>0 DEF StatesWith
    <3>2. Save(s, "AfterStage1")
      BY <2>2 DEF Stage1Succeeds
    <3> HIDE DEF s
    <3>3. Suits(s, "AfterStage1")
      BY <1>a, <3>1 DEF Suits, Consistent, Justified
    <3> QED
      BY <1>6, <3>2, <3>3, SaveStep DEF Stage1Query, disk
  <2>3. CASE AskAgain(Stage1Attempts)
    BY <1>0, <1>6, <2>3, GoStep DEF Stage1Query, AskAgain, Suits, disk
  <2> QED
    BY <1>6, <2>1, <2>2, <2>3 DEF Stage1Query
<1>7. CASE AfterStage1
  <2> DEFINE counted == [st EXCEPT !.llm_queries = st.llm_queries + summary]
             s == [counted EXCEPT !.stage = "failed"]
  <2>1. /\ counted.stage = st.stage /\ counted.specification = st.specification
        /\ counted.execution_status = st.execution_status
        /\ counted.review_conclusion = st.review_conclusion
        /\ s.stage = "failed"
    BY <1>0 DEF StatesWith
  <2>2. \/ Save(s, "Exit")
        \/ st' = counted /\ pc' = "Loop"
    BY <1>7 DEF AfterStage1
  <2> HIDE DEF counted, s
  <2>3. Suits(s, "Exit") /\ Suits(counted, "Loop")
    BY <1>0, <2>1 DEF Suits, Consistent, Justified
  <2>4. UNCHANGED <<results, fault>>
    BY <1>7 DEF AfterStage1, disk
  <2> QED
    BY <1>0, <2>2, <2>3, <2>4, SaveStep, GoStep
<1>8. CASE Loop
  BY <1>0, <1>8, GoStep DEF Loop, Suits, local, disk
<1>9. CASE RepairNoSpec
  BY <1>9, EndStep DEF RepairNoSpec
<1>10. CASE RepairFresh
  <2>1. PICK outcome \in Outcomes :
          Save([st EXCEPT !.stage = "error_repair",
                          !.execution_status = [outcome |-> outcome, of |-> st.specification,
                                                repair_attempts |-> 0]],
               "RepairLoop")
    BY <1>10 DEF RepairFresh
  <2> DEFINE s == [st EXCEPT !.stage = "error_repair",
                             !.execution_status = [outcome |-> outcome, of |-> st.specification,
                                                   repair_attempts |-> 0]]
  <2>2. s.stage = "error_repair" /\ s.execution_status.of = s.specification
        /\ s.specification = st.specification
    BY <1>0 DEF StatesWith
  <2>3. Save(s, "RepairLoop")
    BY <2>1
  <2> HIDE DEF s
  <2>4. Suits(s, "RepairLoop")
    BY <1>10, <2>2 DEF RepairFresh, Suits, Consistent, Justified
  <2> QED
    BY <1>10, <2>3, <2>4, SaveStep DEF RepairFresh, disk
<1>11. CASE RepairResumed
  <2>1. /\ st'.stage = st.stage /\ st'.specification = st.specification
        /\ st'.execution_status = st.execution_status
        /\ st'.review_conclusion = st.review_conclusion
    BY <1>0, <1>11 DEF RepairResumed, StatesWith
  <2>2. Suits(st', "RepairLoop")
    BY <1>0, <1>11, <2>1 DEF RepairResumed, Suits, Consistent, Justified
  <2> QED
    BY <1>0, <1>11, <2>2, GoStep DEF RepairResumed, disk
<1>12. CASE RepairQuery
  <2>0. st.stage = "error_repair"
    BY <1>12 DEF IInv, Towards, RepairQuery
  <2>1. CASE UNCHANGED <<pc, ret, st>>
    BY <1>0, <1>12, <2>0, <2>1, GoStep DEF RepairQuery, Suits, disk
  <2>2. ASSUME NEW spec \in Specs, NEW outcome \in Outcomes,
               Save([st EXCEPT !.specification = spec,
                               !.execution_status = [outcome |-> outcome, of |-> spec,
                                                     repair_attempts |-> attempts + 1]],
                    "RepairLoop")
        PROVE  IInv'
    <3> DEFINE s == [st EXCEPT !.specification = spec,
                               !.execution_status = [outcome |-> outcome, of |-> spec,
                                                     repair_attempts |-> attempts + 1]]
    <3>1. s.stage = "error_repair" /\ s.specification = spec /\ s.execution_status.of = spec
      BY <1>0, <2>0 DEF StatesWith
    <3>2. Save(s, "RepairLoop")
      BY <2>2
    <3> HIDE DEF s
    <3>3. Suits(s, "RepairLoop")
      BY <3>1, SpecsAssumption DEF Suits, Consistent, Justified
    <3> QED
      BY <1>12, <3>2, <3>3, SaveStep DEF RepairQuery, disk
  <2> QED
    BY <1>12, <2>1, <2>2 DEF RepairQuery
<1>13. CASE RepairEnds
  <2>0. st.stage = "error_repair"
    BY <1>13 DEF IInv, Towards, RepairEnds
  <2> DEFINE flag == IF RepairStops THEN "yes" ELSE "no"
             s == [st EXCEPT !.llm_queries = st.llm_queries + attempts, !.error_repair = flag]
  <2>1. /\ s.stage = "error_repair" /\ s.specification = st.specification
        /\ s.execution_status = st.execution_status /\ s.error_repair = flag
    BY <1>0, <2>0 DEF StatesWith
  <2>2. Save(s, "AfterRepair")
    BY <1>13 DEF RepairEnds
  <2>3. flag = "no" \/ Settled
    BY DEF RepairStops, Settled
  <2> HIDE DEF s, flag
  <2>4. Suits(s, "AfterRepair")
    BY <1>0, <2>0, <2>1, <2>3 DEF Suits, Consistent, Justified, Settled
  <2> QED
    BY <1>13, <2>2, <2>4, SaveStep DEF RepairEnds, disk
<1>14. CASE AfterRepair
  <2>0. st.stage = "error_repair" /\ (st.error_repair = "no" \/ Settled)
    BY <1>14 DEF IInv, Towards, AfterRepair
  <2>1. CASE st.error_repair = "no"
    <3>1. st'.stage = "failed"
      BY <1>0, <1>14, <2>1 DEF AfterRepair, StatesWith
    <3> QED
      BY <1>0, <1>14, <2>1, <3>1, GoStep DEF AfterRepair, Suits, Consistent, Justified, disk
  <2>2. CASE st.error_repair # "no"
    BY <1>0, <1>14, <2>0, <2>2 DEF AfterRepair, IInv, Towards, Settled, AssertionsHold, disk
  <2> QED
    BY <2>1, <2>2
<1>15. CASE ReviewSkipped
  <2>0. st.stage = "error_repair"
    BY <1>15 DEF IInv, ReviewSkipped
  <2> DEFINE s == [st EXCEPT !.review_conclusion = "NORMAL", !.stage = "completed",
                             !.assert_review = "yes"]
  <2>1. /\ s.stage = "completed" /\ s.specification = st.specification
        /\ s.execution_status = st.execution_status /\ s.review_conclusion = "NORMAL"
    BY <1>0 DEF StatesWith
  <2>2. Save(s, "AfterReview")
    BY <1>15 DEF ReviewSkipped
  <2> HIDE DEF s
  <2>3. Suits(s, "AfterReview")
    BY <1>0, <1>15, <2>0, <2>1 DEF ReviewSkipped, Suits, Consistent, Justified
  <2> QED
    BY <1>15, <2>2, <2>3, SaveStep DEF ReviewSkipped, disk
<1>16. CASE ReviewAssert
  BY <1>16 DEF ReviewAssert, IInv, Settled
<1>17. CASE ReviewQuery
  <2>0. st.stage = "error_repair" /\ st.execution_status.outcome = "post_assert"
    BY <1>17 DEF IInv, ReviewQuery, Settled
  <2>1. CASE ReviewFails
    <3> DEFINE s == [st EXCEPT !.stage = "assert_review", !.assert_review = "no",
                               !.llm_queries = st.llm_queries + ReviewAttempts]
    <3>1. s.stage = "assert_review"
      BY <1>0 DEF StatesWith
    <3>2. Save(s, "AfterReview")
      BY <2>1 DEF ReviewFails
    <3> HIDE DEF s
    <3>3. Suits(s, "AfterReview")
      BY <3>1 DEF Suits, Consistent, Justified
    <3> QED
      BY <1>17, <3>2, <3>3, SaveStep DEF ReviewQuery, disk
  <2>2. ASSUME NEW spec \in Specs, ReviewMismatch(spec) PROVE IInv'
    <3> DEFINE s == [st EXCEPT !.stage = "assert_review", !.assert_review = "yes",
                               !.review_conclusion = "MISMATCH", !.specification = spec,
                               !.llm_queries = st.llm_queries + tries + 1]
    <3>1. s.stage = "assert_review"
      BY <1>0 DEF StatesWith
    <3>2. Save(s, "AfterReview")
      BY <2>2 DEF ReviewMismatch
    <3> HIDE DEF s
    <3>3. Suits(s, "AfterReview")
      BY <3>1 DEF Suits, Consistent, Justified
    <3> QED
      BY <1>17, <3>2, <3>3, SaveStep DEF ReviewQuery, disk
  <2>3. CASE ReviewBug
    <3> DEFINE s == [st EXCEPT !.stage = "completed", !.assert_review = "yes",
                               !.review_conclusion = "BUG",
                               !.llm_queries = st.llm_queries + tries + 1]
    <3>1. /\ s.stage = "completed" /\ s.specification = st.specification
          /\ s.execution_status = st.execution_status /\ s.review_conclusion = "BUG"
      BY <1>0 DEF StatesWith
    <3>2. Save(s, "AfterReview")
      BY <2>3 DEF ReviewBug
    <3> HIDE DEF s
    <3>3. Suits(s, "AfterReview")
      BY <1>0, <2>0, <3>1 DEF Suits, Consistent, Justified
    <3> QED
      BY <1>17, <3>2, <3>3, SaveStep DEF ReviewQuery, disk
  <2>4. CASE AskAgain(ReviewAttempts)
    BY <1>17, <2>0, <2>4 DEF ReviewQuery, AskAgain, IInv, Towards, Settled, AssertionsHold, disk
  <2> QED
    BY <1>17, <2>1, <2>2, <2>3, <2>4 DEF ReviewQuery
<1>18. CASE AfterReview
  <2>1. CASE st.assert_review = "no"
    <3>1. st'.stage = "failed" /\ pc' = "Finish"
      BY <1>0, <1>18, <2>1 DEF AfterReview, StatesWith
    <3> QED
      BY <1>0, <1>18, <3>1, GoStep DEF AfterReview, Suits, Consistent, Justified, disk
  <2>2. CASE st.assert_review # "no"
    BY <1>0, <1>18, <2>2, GoStep DEF AfterReview, Suits, disk
  <2> QED
    BY <2>1, <2>2
<1>19. CASE Finish
  <2> DEFINE s == [st EXCEPT !.stage = IF st.stage = "completed" THEN st.stage ELSE "failed"]
  <2>1. /\ s.stage = (IF st.stage = "completed" THEN st.stage ELSE "failed")
        /\ s.specification = st.specification
        /\ s.execution_status = st.execution_status
        /\ s.review_conclusion = st.review_conclusion
    BY <1>0 DEF StatesWith
  <2>2. Save(s, "Exit")
    BY <1>19 DEF Finish
  <2> HIDE DEF s
  <2>3. Suits(s, "Exit")
    BY <1>0, <2>1 DEF Suits, Consistent, Justified
  <2> QED
    BY <1>19, <2>2, <2>3, SaveStep DEF Finish, disk
<1>20. CASE Return
  BY <1>20, EndStep DEF Return
<1>21. CASE SaveResults
  BY <1>21 DEF SaveResults, IInv, Towards, Settled, AssertionsHold, local
<1>22. CASE SaveSpec
  BY <1>22 DEF SaveSpec, IInv, Towards, Settled, AssertionsHold, local, TypeOK
<1>23. CASE Crash
  BY <1>23, FreshConsistent DEF Crash, IInv, Towards, AssertionsHold
<1>24. CASE UNCHANGED vars
  BY <1>24 DEF vars, IInv, Towards, Settled, AssertionsHold
<1> QED
  BY <1>1, <1>2, <1>3, <1>4, <1>5, <1>6, <1>7, <1>8, <1>9, <1>10, <1>11, <1>12, <1>13,
     <1>14, <1>15, <1>16, <1>17, <1>18, <1>19, <1>20, <1>21, <1>22, <1>23, <1>24
  DEF Next, Run, Review

LEMMA Invariance == Spec => []IInv
<1>1. Init => IInv
  BY FreshConsistent DEF Init, IInv, Towards, AssertionsHold
<1> QED
  BY <1>1, IInvStep, Typing, PTL DEF Spec

(* However often runs are killed and resumed, a verdict that is saved is   *)
(* one about the saved specification: NORMAL after it exited with 0, BUG   *)
(* after it ended in a post-PR assertion.                                  *)
THEOREM Verdicts == Spec => []VerdictMatchesExecution
<1>1. IInv => VerdictMatchesExecution
  BY DEF IInv, Consistent, VerdictMatchesExecution
<1> QED
  BY <1>1, Invariance, PTL

(* No run ends in one of the assertions that load_from_cache and           *)
(* assertion_errors_review make about what earlier steps left behind.      *)
THEOREM Assertions == Spec => []AssertionsHold
<1>1. IInv => AssertionsHold
  BY DEF IInv
<1> QED
  BY <1>1, Invariance, PTL
-----------------------------------------------------------------------------
(***************************************************************************)
(* What an interrupted analysis can miss.  A run ends in a KeyError only   *)
(* where a dictionary without a specification is loaded: the invariant     *)
(* follows the specification from the first save to each later stage.      *)
(***************************************************************************)
HasSpecification(s) == s.specification # NoSpec
Kept(s) == s.stage \in {"error_repair", "assert_review"} => HasSpecification(s)

KInv ==
    /\ Kept(st) /\ Kept(results)
    /\ pc = "Repair" => ~Decided(st)
    /\ (pc \in {"Loop", "Repair"} /\ ~Decided(st) /\ ~HasSpecification(st)) =>
            results.stage = Stage1
    /\ Towards("AfterStage1") =>
            st.stage = Stage1 /\ (st.stage1 = "no" \/ HasSpecification(st))
    /\ Towards("AfterReview") => st.stage \in {"assert_review", "completed"}
    /\ fault = "KeyError" => pc = "down" /\ results.stage = Stage1

LEMMA FreshKept == Kept(Fresh) /\ Kept(Absent) /\ Kept(Torn)
  BY DEF Kept, Fresh, Absent, Torn

\* what a dictionary needs at the label that a step goes to
Carries(s, l) ==
    /\ Kept(s)
    /\ l = "AfterStage1" => s.stage = Stage1 /\ (s.stage1 = "no" \/ HasSpecification(s))
    /\ l = "AfterReview" => s.stage \in {"assert_review", "completed"}
    /\ l = "Repair" => ~Decided(s)
    /\ (l \in {"Loop", "Repair"} /\ ~Decided(s) /\ ~HasSpecification(s)) =>
            results.stage = Stage1

LEMMA KeptBySave ==
    ASSUME KInv, pc # "down", NEW s, NEW l \in Labels, Save(s, l), Carries(s, l),
           UNCHANGED <<results, fault>>
    PROVE  KInv'
  BY DEF KInv, Save, Carries, Towards, Kept, HasSpecification

LEMMA KeptByGo ==
    ASSUME KInv, NEW l, pc' = l,
           l \in {"Load", "Stage1", "Loop", "Repair", "Review", "Finish", "Exit", "RepairLoop"},
           Carries(st', l), UNCHANGED results, fault' # "KeyError"
    PROVE  KInv'
  BY DEF KInv, Carries, Towards, Kept, HasSpecification

LEMMA KeptByEnd ==
    ASSUME KInv, NEW f, f = "KeyError" => results.stage = Stage1, End(f), UNCHANGED disk
    PROVE  KInv'
  BY FreshKept DEF KInv, End, disk, Towards, HasSpecification, Kept, Decided

(* The invariant is kept, one step per action.                             *)
LEMMA KInvStep == TypeOK /\ IInv /\ KInv /\ [Next]_vars => KInv'
<1> SUFFICES ASSUME TypeOK, IInv, KInv, [Next]_vars PROVE KInv'
  OBVIOUS
<1>0. /\ Kept(st) /\ Kept(results) /\ st \in StatesWith(Stages)
      /\ pc # "down" => fault # "KeyError"
  BY DEF KInv, TypeOK
<1>a. Stage1 \notin {"init", "error_repair", "assert_review", "completed", "failed"}
  BY Stage1Assumption
<1>1. ASSUME NEW force \in ForceChoices, NEW n \in SummaryChoices, StartFresh(force, n)
      PROVE  KInv'
  BY <1>1, FreshKept, KeptByGo DEF StartFresh, Carries, disk
<1>2. ASSUME NEW n \in SummaryChoices, StartCached(n) PROVE KInv'
  BY <1>2, <1>0, KeptByGo DEF StartCached, Carries, disk
<1>3. CASE LoadTorn
  BY <1>3, KeptByEnd DEF LoadTorn
<1>4. CASE LoadDecided
  <2>1. CASE End("AssertionError") /\ UNCHANGED disk
    BY <2>1, KeptByEnd
  <2>2. CASE st' = results /\ pc' = "Exit" /\ UNCHANGED fault
    BY <1>0, <1>4, <2>2, KeptByGo DEF LoadDecided, Carries, disk
  <2> QED
    BY <1>4, <2>1, <2>2 DEF LoadDecided
<1>5. CASE LoadPartial
  <2>0. results.stage \in Stages /\ ~Decided(results)
    BY <1>5 DEF TypeOK, LoadPartial, StatesWith, Readable
  <2>1. CASE results.stage \notin NamedStages
    <3>1. results.stage = Stage1
      BY <2>0, <2>1 DEF Stages, NamedStages, Decided
    <3> QED
      BY <1>5, <2>1, <3>1, KeptByEnd DEF LoadPartial
  <2>2. CASE results.stage \in NamedStages
    <3> DEFINE l == IF results.stage = "init" THEN "Stage1" ELSE "Loop"
    <3>1. Carries(results, l)
      BY <1>0, <2>0 DEF Carries, Kept, Stages, Decided
    <3>2. st' = results /\ pc' = l /\ UNCHANGED fault /\ UNCHANGED results
      BY <1>5, <2>2 DEF LoadPartial, disk
    <3>3. l \in {"Stage1", "Loop"} /\ pc # "down"
      BY <1>5 DEF LoadPartial
    <3> HIDE DEF l
    <3> QED
      BY <1>0, <3>1, <3>2, <3>3, KeptByGo
  <2> QED
    BY <2>1, <2>2
<1>6. CASE Stage1Query
  <2>1. CASE Stage1Fails
    <3> DEFINE s == [st EXCEPT !.stage = Stage1, !.stage1 = "no", !.llm_queries = FailureCharge]
    <3>1. s.stage = Stage1 /\ s.stage1 = "no"
      BY <1>0 DEF StatesWith
    <3>2. Save(s, "AfterStage1")
      BY <2>1 DEF Stage1Fails
    <3> HIDE DEF s
    <3>3. Carries(s, "AfterStage1")
      BY <1>a, <3>1 DEF Carries, Kept
    <3> QED
      BY <1>6, <3>2, <3>3, KeptBySave DEF Stage1Query, disk, Labels
  <2>2. ASSUME NEW spec \in Specs, Stage1Succeeds(spec) PROVE KInv'
    <3> DEFINE s == [st EXCEPT !.stage = Stage1, !.stage1 = "yes", !.specification = spec,
                               !.llm_queries = tries + 1]
    <3>1. s.stage = Stage1 /\ s.specification = spec
      BY <1>0 DEF StatesWith
    <3>2. Save(s, "AfterStage1")
      BY <2>2 DEF Stage1Succeeds
    <3> HIDE DEF s
    <3>3. Carries(s, "AfterStage1")
      BY <1>a, <3>1, SpecsAssumption DEF Carries, Kept, HasSpecification
    <3> QED
      BY <1>6, <3>2, <3>3, KeptBySave DEF Stage1Query, disk, Labels
  <2>3. CASE AskAgain(Stage1Attempts)
    BY <1>0, <1>6, <2>3, KeptByGo DEF Stage1Query, AskAgain, Carries, disk
  <2> QED
    BY <1>6, <2>1, <2>2, <2>3 DEF Stage1Query
<1>7. CASE AfterStage1
  <2> DEFINE counted == [st EXCEPT !.llm_queries = st.llm_queries + summary]
             s == [counted EXCEPT !.stage = "failed"]
  <2>0. st.stage = Stage1 /\ (st.stage1 = "no" \/ HasSpecification(st))
    BY <1>7 DEF AfterStage1, KInv, Towards
  <2>1. counted.stage = st.stage /\ counted.specification = st.specification /\ s.stage = "failed"
    BY <1>0 DEF StatesWith
  <2>2. \/ st.stage1 = "no" /\ Save(s, "Exit")
        \/ st.stage1 # "no" /\ st' = counted /\ pc' = "Loop"
    BY <1>7 DEF AfterStage1
  <2> HIDE DEF counted, s
  <2>3. /\ Carries(s, "Exit")
        /\ st.stage1 # "no" => Carries(counted, "Loop")
    BY <1>0, <2>0, <2>1 DEF Carries, Kept, HasSpecification
  <2>4. UNCHANGED <<results, fault>> /\ pc # "down"
    BY <1>7 DEF AfterStage1, disk
  <2> QED
    BY <1>0, <2>2, <2>3, <2>4, KeptBySave, KeptByGo DEF Labels
<1>8. CASE Loop
  <2> DEFINE l == IF ~Decided(st) /\ st.llm_queries < MaxLLMQueries THEN "Repair" ELSE "Finish"
  <2>1. /\ pc = "Loop" /\ pc' = l /\ l \in {"Repair", "Finish"} /\ (l = "Repair" => ~Decided(st))
        /\ UNCHANGED <<st, results, fault>>
    BY <1>8 DEF Loop, local, disk
  <2> HIDE DEF l
  <2>2. Carries(st, l)
    BY <1>0, <2>1 DEF Carries, KInv
  <2> QED
    BY <1>0, <2>1, <2>2, KeptByGo
<1>9. CASE RepairNoSpec
  <2>1. results.stage = Stage1
    BY <1>9 DEF RepairNoSpec, KInv, HasSpecification
  <2> QED
    BY <1>9, <2>1, KeptByEnd DEF RepairNoSpec
<1>10. CASE RepairFresh
  <2>1. PICK outcome \in Outcomes :
          Save([st EXCEPT !.stage = "error_repair",
                          !.execution_status = [outcome |-> outcome, of |-> st.specification,
                                                repair_attempts |-> 0]],
               "RepairLoop")
    BY <1>10 DEF RepairFresh
  <2> DEFINE s == [st EXCEPT !.stage = "error_repair",
                             !.execution_status = [outcome |-> outcome, of |-> st.specification,
                                                   repair_attempts |-> 0]]
  <2>2. s.specification = st.specification
    BY <1>0 DEF StatesWith
  <2>3. Save(s, "RepairLoop")
    BY <2>1
  <2> HIDE DEF s
  <2>4. Carries(s, "RepairLoop")
    BY <1>10, <2>2 DEF RepairFresh, Carries, Kept, HasSpecification
  <2> QED
    BY <1>10, <2>3, <2>4, KeptBySave DEF RepairFresh, disk, Labels
<1>11. CASE RepairResumed
  <2>1. st'.stage = st.stage /\ st'.specification = st.specification
    BY <1>0, <1>11 DEF RepairResumed, StatesWith
  <2>2. Carries(st', "RepairLoop")
    BY <1>0, <2>1 DEF Carries, Kept, HasSpecification
  <2> QED
    BY <1>0, <1>11, <2>2, KeptByGo DEF RepairResumed, disk
<1>12. CASE RepairQuery
  <2>1. CASE UNCHANGED <<pc, ret, st>>
    <3>1. Carries(st', "RepairLoop")
      BY <1>0, <2>1 DEF Carries
    <3> QED
      BY <1>0, <1>12, <2>1, <3>1, KeptByGo DEF RepairQuery, disk
  <2>2. ASSUME NEW spec \in Specs, NEW outcome \in Outcomes,
               Save([st EXCEPT !.specification = spec,
                               !.execution_status = [outcome |-> outcome, of |-> spec,
                                                     repair_attempts |-> attempts + 1]],
                    "RepairLoop")
        PROVE  KInv'
    <3> DEFINE s == [st EXCEPT !.specification = spec,
                               !.execution_status = [outcome |-> outcome, of |-> spec,
                                                     repair_attempts |-> attempts + 1]]
    <3>1. s.specification = spec
      BY <1>0 DEF StatesWith
    <3>2. Save(s, "RepairLoop")
      BY <2>2
    <3> HIDE DEF s
    <3>3. Carries(s, "RepairLoop")
      BY <3>1, SpecsAssumption DEF Carries, Kept, HasSpecification
    <3> QED
      BY <1>12, <3>2, <3>3, KeptBySave DEF RepairQuery, disk, Labels
  <2> QED
    BY <1>12, <2>1, <2>2 DEF RepairQuery
<1>13. CASE RepairEnds
  <2> DEFINE flag == IF RepairStops THEN "yes" ELSE "no"
             s == [st EXCEPT !.llm_queries = st.llm_queries + attempts, !.error_repair = flag]
  <2>1. s.stage = st.stage /\ s.specification = st.specification
    BY <1>0 DEF StatesWith
  <2>2. Save(s, "AfterRepair")
    BY <1>13 DEF RepairEnds
  <2> HIDE DEF s, flag
  <2>3. Carries(s, "AfterRepair")
    BY <1>0, <2>1 DEF Carries, Kept, HasSpecification
  <2> QED
    BY <1>13, <2>2, <2>3, KeptBySave DEF RepairEnds, disk, Labels
<1>14. CASE AfterRepair
  <2>1. CASE st.error_repair = "no"
    <3>1. st'.stage = "failed"
      BY <1>0, <1>14, <2>1 DEF AfterRepair, StatesWith
    <3>2. Carries(st', "Finish")
      BY <3>1 DEF Carries, Kept
    <3> QED
      BY <1>0, <1>14, <2>1, <3>2, KeptByGo DEF AfterRepair, disk
  <2>2. CASE st.error_repair # "no"
    <3>1. Carries(st', "Review")
      BY <1>0, <1>14, <2>2 DEF AfterRepair, Carries
    <3> QED
      BY <1>0, <1>14, <2>2, <3>1, KeptByGo DEF AfterRepair, disk
  <2> QED
    BY <2>1, <2>2
<1>15. CASE ReviewSkipped
  <2> DEFINE s == [st EXCEPT !.review_conclusion = "NORMAL", !.stage = "completed",
                             !.assert_review = "yes"]
  <2>1. s.stage = "completed"
    BY <1>0 DEF StatesWith
  <2>2. Save(s, "AfterReview")
    BY <1>15 DEF ReviewSkipped
  <2> HIDE DEF s
  <2>3. Carries(s, "AfterReview")
    BY <2>1 DEF Carries, Kept
  <2> QED
    BY <1>15, <2>2, <2>3, KeptBySave DEF ReviewSkipped, disk, Labels
<1>16. CASE ReviewAssert
  BY <1>16, KeptByEnd DEF ReviewAssert
<1>17. CASE ReviewQuery
  <2>0. HasSpecification(st)
    BY <1>0, <1>17 DEF IInv, ReviewQuery, Kept
  <2>1. CASE ReviewFails
    <3> DEFINE s == [st EXCEPT !.stage = "assert_review", !.assert_review = "no",
                               !.llm_queries = st.llm_queries + ReviewAttempts]
    <3>1. s.stage = "assert_review" /\ s.specification = st.specification
      BY <1>0 DEF StatesWith
    <3>2. Save(s, "AfterReview")
      BY <2>1 DEF ReviewFails
    <3> HIDE DEF s
    <3>3. Carries(s, "AfterReview")
      BY <2>0, <3>1 DEF Carries, Kept, HasSpecification
    <3> QED
      BY <1>17, <3>2, <3>3, KeptBySave DEF ReviewQuery, disk, Labels
  <2>2. ASSUME NEW spec \in Specs, ReviewMismatch(spec) PROVE KInv'
    <3> DEFINE s == [st EXCEPT !.stage = "assert_review", !.assert_review = "yes",
                               !.review_conclusion = "MISMATCH", !.specification = spec,
                               !.llm_queries = st.llm_queries + tries + 1]
    <3>1. s.stage = "assert_review" /\ s.specification = spec
      BY <1>0 DEF StatesWith
    <3>2. Save(s, "AfterReview")
      BY <2>2 DEF ReviewMismatch
    <3> HIDE DEF s
    <3>3. Carries(s, "AfterReview")
      BY <3>1, SpecsAssumption DEF Carries, Kept, HasSpecification
    <3> QED
      BY <1>17, <3>2, <3>3, KeptBySave DEF ReviewQuery, disk, Labels
  <2>3. CASE ReviewBug
    <3> DEFINE s == [st EXCEPT !.stage = "completed", !.assert_review = "yes",
                               !.review_conclusion = "BUG",
                               !.llm_queries = st.llm_queries + tries + 1]
    <3>1. s.stage = "completed"
      BY <1>0 DEF StatesWith
    <3>2. Save(s, "AfterReview")
      BY <2>3 DEF ReviewBug
    <3> HIDE DEF s
    <3>3. Carries(s, "AfterReview")
      BY <3>1 DEF Carries, Kept
    <3> QED
      BY <1>17, <3>2, <3>3, KeptBySave DEF ReviewQuery, disk, Labels
  <2>4. CASE AskAgain(ReviewAttempts)
    <3>1. Carries(st', "Review")
      BY <1>0, <2>4 DEF Carries, AskAgain
    <3> QED
      BY <1>0, <1>17, <2>4, <3>1, KeptByGo DEF ReviewQuery, AskAgain, disk
  <2> QED
    BY <1>17, <2>1, <2>2, <2>3, <2>4 DEF ReviewQuery
<1>18. CASE AfterReview
  <2>1. CASE st.assert_review = "no"
    <3>1. st'.stage = "failed" /\ pc' = "Finish"
      BY <1>0, <1>18, <2>1 DEF AfterReview, StatesWith
    <3>2. Carries(st', "Finish")
      BY <3>1 DEF Carries, Kept
    <3> QED
      BY <1>0, <1>18, <3>1, <3>2, KeptByGo DEF AfterReview, disk
  <2>2. CASE st.assert_review # "no"
    <3>1. st.stage \in {"assert_review", "completed"}
      BY <1>18 DEF AfterReview, KInv, Towards
    <3>2. Carries(st, "Loop")
      BY <1>0, <3>1 DEF Carries, Kept, Decided
    <3> QED
      BY <1>0, <1>18, <2>2, <3>2, KeptByGo DEF AfterReview, disk
  <2> QED
    BY <2>1, <2>2
<1>19. CASE Finish
  <2> DEFINE s == [st EXCEPT !.stage = IF st.stage = "completed" THEN st.stage ELSE "failed"]
  <2>1. s.stage \in {"completed", "failed"}
    BY <1>0 DEF StatesWith
  <2>2. Save(s, "Exit")
    BY <1>19 DEF Finish
  <2> HIDE DEF s
  <2>3. Carries(s, "Exit")
    BY <2>1 DEF Carries, Kept
  <2> QED
    BY <1>19, <2>2, <2>3, KeptBySave DEF Finish, disk, Labels
<1>20. CASE Return
  BY <1>20, KeptByEnd DEF Return
<1>21. CASE SaveResults
  BY <1>0, <1>21 DEF SaveResults, KInv, Towards, local
<1>22. CASE SaveSpec
  BY <1>0, <1>22 DEF SaveSpec, KInv, Towards, local, TypeOK
<1>23. CASE Crash
  BY <1>0, <1>23, FreshKept DEF Crash, KInv, Towards
<1>24. CASE UNCHANGED vars
  BY <1>24 DEF vars, KInv, Towards, Kept, Decided, HasSpecification
<1> QED
  BY <1>1, <1>2, <1>3, <1>4, <1>5, <1>6, <1>7, <1>8, <1>9, <1>10, <1>11, <1>12, <1>13,
     <1>14, <1>15, <1>16, <1>17, <1>18, <1>19, <1>20, <1>21, <1>22, <1>23, <1>24
  DEF Next, Run, Review

(* What an interrupted run leaves can be taken up by the next: no          *)
(* assertion of the program fails, and a key is missing only in what       *)
(* stage 1 itself has saved (load_from_cache, error_repair).               *)
THEOREM Resumption == Spec => []ResumeIsSound
<1>1. Init => KInv
  BY FreshKept DEF Init, KInv, Towards
<1>2. IInv /\ KInv => ResumeIsSound
  BY DEF IInv, KInv, ResumeIsSound, ResumableAfterStage1
<1> QED
  BY <1>1, <1>2, KInvStep, Typing, Invariance, PTL DEF Spec
-----------------------------------------------------------------------------
(***************************************************************************)
(* What a reader of the cache directory may rely on, for every value of    *)
(* the constants of SpecInfer: specification.py is the specification of a  *)
(* completed results.json, a saved failure is deserved, and every step of  *)
(* the phase is a step of the promise of module Verdict, or invisible.     *)
(***************************************************************************)
\* a cause of failure that is saved with it
Reason(s) ==
    \/ "no" \in {s.stage1, s.error_repair, s.assert_review}
    \/ s.llm_queries >= MaxLLMQueries

\* the last execution exited with 0, and no verdict was drawn from it yet
Open(s) == s.execution_status.outcome = "ok" /\ s.stage # "completed"

(***************************************************************************)
(* The inductive invariant.  The two files are written one after the       *)
(* other; a verdict is safe because it is only saved for a specification   *)
(* that the file already holds (FilesAgree).  A failure is reported with   *)
(* its reason, and an execution that exited with 0 is left open only       *)
(* inside error_repair and on the way to the review (Deserved); without a  *)
(* crash no run ends before it has decided (Ended).  A run that is not     *)
(* forced finds no verdict on the disk, and a forced one withdraws it with *)
(* its first save (Withdrawn).                                             *)
(***************************************************************************)
FilesAgree ==
    /\ NoStaleSpecFile
    /\ pc \in {"SaveSpec", "Exit"} => results = st
    /\ pc \in {"AfterRepair", "Review"} => specFile = st.specification
    /\ st.stage = "completed" /\ pc \in {"SaveResults", "SaveSpec", "AfterReview", "Loop", "Finish"}
            => specFile = st.specification

Deserved ==
    /\ results.stage = "failed" => Reason(results)
    /\ st.stage = "failed" \/ (pc = "Finish" /\ st.stage # "completed") => Reason(st)
    /\ pc = "Stage1" => st.stage = "init"
    /\ crashes = 0 =>
        /\ ~ (results.stage = "failed" /\ Open(results))
        /\ pc \in {"Stage1", "Loop", "Repair", "Finish"} => ~ Open(st)
        /\ \A l \in {"AfterStage1", "AfterReview", "Exit"} : Towards(l) => ~ Open(st)
        /\ Towards("AfterRepair") /\ st.error_repair = "no" => ~ Open(st)

Ended ==
    /\ pc \in {"SaveResults", "SaveSpec"} => ret # "down"
    /\ Towards("Exit") => Decided(st)
    /\ crashes = 0 =>
        /\ pc \in {"down", "Load"} => results.stage \in {"absent", "completed", "failed"}
        /\ pc \in {"Loop", "Repair"} /\ ~Decided(st) => HasSpecification(st)

Withdrawn ==
    /\ Towards("AfterReview") /\ st.stage = "completed" => st.assert_review = "yes"
    /\ pc \notin {"down", "Load", "Exit"} =>
        \/ verdict = "none"
        \/ forced /\ (pc = "Stage1" \/ (pc = "SaveResults" /\ ret = "AfterStage1"))
        \/ /\ st.stage = "completed" /\ verdict = st.review_conclusion
           /\ pc \in {"SaveResults", "SaveSpec", "AfterReview", "Loop", "Finish"}
        \/ st.stage = "failed" /\ verdict = "failed" /\ pc = "SaveSpec"

DInv == FilesAgree /\ Deserved /\ Ended /\ Withdrawn
-----------------------------------------------------------------------------
LEMMA FreshFits ==
    /\ Fresh.stage = "init" /\ ~Open(Fresh)
    /\ Absent.stage = "absent" /\ Torn.stage = "torn"
  BY DEF Fresh, Absent, Torn, Open, NoExecution

\* the verdict is a matter of results.json alone
LEMMA SameVerdict == ASSUME UNCHANGED results PROVE verdict' = verdict
  BY DEF verdict

(* What a dictionary needs to be saved on the way to label l, and to be    *)
(* taken along to label l.                                                 *)
SaveFits(s, l) ==
    /\ s.stage = "failed" => Reason(s)
    /\ s.stage = "completed" => specFile = s.specification
    /\ crashes = 0 =>
        /\ l \in {"AfterStage1", "AfterReview", "Exit"} => ~Open(s)
        /\ l = "AfterRepair" /\ s.error_repair = "no" => ~Open(s)
    /\ l = "Exit" => Decided(s)
    /\ l = "AfterReview" /\ s.stage = "completed" => s.assert_review = "yes"
    /\ \/ verdict = "none"
       \/ forced /\ l = "AfterStage1"
       \/ s.stage = "completed" /\ verdict = s.review_conclusion

GoFits(s, l) ==
    /\ s.stage = "failed" \/ (l = "Finish" /\ s.stage # "completed") => Reason(s)
    /\ l = "Stage1" => s.stage = "init"
    /\ l = "Exit" => results = s /\ Decided(s)
    /\ l = "Review" => specFile = s.specification
    /\ s.stage = "completed" /\ l \in {"Loop", "Finish"} => specFile = s.specification
    /\ crashes = 0 =>
        /\ l \in {"Stage1", "Loop", "Repair", "Finish", "Exit"} => ~Open(s)
        /\ l \in {"Loop", "Repair"} /\ ~Decided(s) => HasSpecification(s)
    /\ \/ l = "Exit"
       \/ verdict = "none"
       \/ forced' /\ l = "Stage1"
       \/ s.stage = "completed" /\ verdict = s.review_conclusion /\ l \in {"Loop", "Finish"}

LEMMA FitsBySave ==
    ASSUME DInv, NEW s, NEW l \in Labels \ {"down"}, Save(s, l), SaveFits(s, l),
           UNCHANGED <<results, specFile, forced, crashes>>
    PROVE  DInv'
<1>1. FilesAgree'
  BY DEF DInv, FilesAgree, NoStaleSpecFile, Save, SaveFits
<1>2. Deserved'
  BY DEF DInv, Deserved, Save, SaveFits, Towards, Open, Reason
<1>3. Ended'
  BY DEF DInv, Ended, Save, SaveFits, Towards, Decided
<1>4. Withdrawn'
  BY SameVerdict DEF DInv, Withdrawn, Save, SaveFits, Towards
<1> QED
  BY <1>1, <1>2, <1>3, <1>4 DEF DInv

LEMMA FitsByGo ==
    ASSUME DInv, NEW l, pc' = l,
           l \in {"Stage1", "Loop", "Repair", "Review", "Finish", "Exit", "RepairLoop"},
           GoFits(st', l), UNCHANGED <<results, specFile, crashes>>
    PROVE  DInv'
<1>1. FilesAgree'
  BY DEF DInv, FilesAgree, NoStaleSpecFile, GoFits
<1>2. Deserved'
  BY DEF DInv, Deserved, GoFits, Towards, Open, Reason
<1>3. Ended'
  BY DEF DInv, Ended, GoFits, Towards, Decided, HasSpecification
<1>4. Withdrawn'
  BY SameVerdict DEF DInv, Withdrawn, GoFits, Towards
<1> QED
  BY <1>1, <1>2, <1>3, <1>4 DEF DInv

LEMMA FitsByEnd ==
    ASSUME DInv, NEW f, End(f), UNCHANGED disk,
           crashes = 0 => results.stage \in {"absent", "completed", "failed"}
    PROVE  DInv'
<1>1. FilesAgree'
  BY FreshFits DEF DInv, FilesAgree, NoStaleSpecFile, End, disk
<1>2. Deserved'
  BY FreshFits DEF DInv, Deserved, End, disk, Towards, Open, Reason
<1>3. Ended'
  BY DEF DInv, Ended, End, disk, Towards
<1>4. Withdrawn'
  BY DEF DInv, Withdrawn, End, disk, Towards
<1> QED
  BY <1>1, <1>2, <1>3, <1>4 DEF DInv
(* The invariant is kept, one step per action.                             *)
LEMMA DInvStep == TypeOK /\ IInv /\ KInv /\ DInv /\ [Next]_vars => DInv'
<1> SUFFICES ASSUME TypeOK, IInv, KInv, DInv, [Next]_vars PROVE DInv'
  OBVIOUS
<1>0. /\ st \in StatesWith(Stages) /\ st.llm_queries \in Int
      /\ results \in StatesWith(Stages \cup {"absent", "torn"})
  BY DEF TypeOK, StatesWith
<1>a. Stage1 \notin {"init", "error_repair", "assert_review", "completed", "failed"}
  BY Stage1Assumption
\* between the saves of a repair and of a review no verdict is on the disk
<1>b. ASSUME st.stage \notin {"completed", "failed"},
             pc \in {"Loop", "Repair", "RepairLoop", "AfterRepair", "Review", "AfterReview"}
      PROVE  verdict = "none"
  BY <1>b DEF DInv, Withdrawn
<1>1. ASSUME NEW force \in ForceChoices, NEW n \in SummaryChoices, StartFresh(force, n)
      PROVE  DInv'
  <2>1. verdict = "none" \/ force
    BY <1>1 DEF StartFresh, verdict
  <2>2. GoFits(st', "Stage1")
    BY <1>1, <2>1, FreshFits DEF StartFresh, GoFits
  <2> QED
    BY <1>1, <2>2, FitsByGo DEF StartFresh, disk
<1>2. ASSUME NEW n \in SummaryChoices, StartCached(n) PROVE DInv'
  <2>1. FilesAgree'
    BY <1>2 DEF DInv, FilesAgree, NoStaleSpecFile, StartCached, disk
  <2>2. Deserved'
    BY <1>2 DEF DInv, Deserved, StartCached, disk, Towards, Open, Reason
  <2>3. Ended' /\ Withdrawn'
    BY <1>2 DEF DInv, Ended, Withdrawn, StartCached, disk, Towards
  <2> QED
    BY <2>1, <2>2, <2>3 DEF DInv
<1>3. CASE LoadTorn
  BY <1>3, FitsByEnd DEF LoadTorn, DInv, Ended
<1>4. CASE LoadDecided
  <2>1. CASE End("AssertionError")
    BY <1>4, <2>1, FitsByEnd DEF LoadDecided, DInv, Ended
  <2>2. CASE st' = results /\ pc' = "Exit" /\ UNCHANGED crashes
    <3>1. GoFits(st', "Exit")
      BY <1>4, <2>2 DEF LoadDecided, GoFits, DInv, Deserved, Decided, Open
    <3> QED
      BY <1>4, <2>2, <3>1, FitsByGo DEF LoadDecided, disk
  <2> QED
    BY <1>4, <2>1, <2>2 DEF LoadDecided
<1>5. CASE LoadPartial
  <2>1. ~Decided(results) /\ results.stage # "absent" /\ verdict = "none"
    BY <1>5 DEF LoadPartial, Readable, Decided, verdict
  <2>2. crashes # 0
    BY <1>5, <2>1 DEF LoadPartial, DInv, Ended, Decided
  <2>3. CASE End("KeyError")
    BY <1>5, <2>2, <2>3, FitsByEnd DEF LoadPartial
  <2>4. CASE /\ st' = results
             /\ pc' = IF results.stage = "init" THEN "Stage1" ELSE "Loop"
             /\ UNCHANGED crashes
    <3>1. GoFits(st', pc')
      BY <2>1, <2>2, <2>4 DEF GoFits, Decided
    <3>2. UNCHANGED <<results, specFile, crashes>> /\ pc' \in {"Stage1", "Loop"}
      BY <1>5, <2>4 DEF LoadPartial, disk
    <3> QED
      BY <3>1, <3>2, FitsByGo
  <2> QED
    BY <1>5, <2>3, <2>4 DEF LoadPartial
<1>6. CASE Stage1Query
  <2>0. /\ UNCHANGED <<results, specFile, forced, crashes>>
        /\ crashes = 0 => ~Open(st)
        /\ verdict = "none" \/ forced
    BY <1>6 DEF Stage1Query, disk, DInv, Deserved, Withdrawn
  <2>1. CASE Stage1Fails
    <3> DEFINE s == [st EXCEPT !.stage = Stage1, !.stage1 = "no", !.llm_queries = FailureCharge]
    <3>1. s.stage = Stage1 /\ s.execution_status = st.execution_status
      BY <1>0 DEF StatesWith
    <3>2. Save(s, "AfterStage1")
      BY <2>1 DEF Stage1Fails
    <3> HIDE DEF s
    <3>3. ~Open(st) => ~Open(s)
      BY <1>a, <1>6, <3>1 DEF Open, Stage1Query, DInv, Deserved
    <3> QED
      BY <2>0, <3>1, <3>2, <3>3, <1>a, FitsBySave DEF SaveFits
  <2>2. ASSUME NEW spec \in Specs, Stage1Succeeds(spec) PROVE DInv'
    <3> DEFINE s == [st EXCEPT !.stage = Stage1, !.stage1 = "yes", !.specification = spec,
                               !.llm_queries = tries + 1]
    <3>1. s.stage = Stage1 /\ s.execution_status = st.execution_status
      BY <1>0 DEF StatesWith
    <3>2. Save(s, "AfterStage1")
      BY <2>2 DEF Stage1Succeeds
    <3> HIDE DEF s
    <3>3. ~Open(st) => ~Open(s)
      BY <1>a, <1>6, <3>1 DEF Open, Stage1Query, DInv, Deserved
    <3> QED
      BY <2>0, <3>1, <3>2, <3>3, <1>a, FitsBySave DEF SaveFits
  <2>3. CASE AskAgain(Stage1Attempts)
    <3>1. GoFits(st', "Stage1")
      BY <1>6, <2>0, <2>3 DEF AskAgain, Stage1Query, GoFits, DInv, Deserved
    <3> QED
      BY <1>6, <2>0, <2>3, <3>1, FitsByGo DEF AskAgain, Stage1Query
  <2> QED
    BY <1>6, <2>1, <2>2, <2>3 DEF Stage1Query
<1>7. CASE AfterStage1
  <2> DEFINE counted == [st EXCEPT !.llm_queries = st.llm_queries + summary]
             s == [counted EXCEPT !.stage = "failed"]
  <2>0. /\ UNCHANGED <<results, specFile, forced, crashes>>
        /\ st.stage = Stage1 /\ (st.stage1 = "no" \/ HasSpecification(st))
        /\ crashes = 0 => ~Open(st)
        /\ verdict = "none"
    BY <1>7, <1>a DEF AfterStage1, disk, KInv, Towards, DInv, Deserved, Withdrawn
  <2>1. /\ counted.stage = st.stage /\ s.stage = "failed"
        /\ s.execution_status = st.execution_status
        /\ counted.execution_status = st.execution_status
        /\ s.stage1 = st.stage1
        /\ counted.specification = st.specification
    BY <1>0 DEF StatesWith
  <2>2. \/ st.stage1 = "no" /\ Save(s, "Exit")
        \/ st.stage1 # "no" /\ st' = counted /\ pc' = "Loop"
    BY <1>7 DEF AfterStage1
  <2> HIDE DEF counted, s
  <2>3. CASE st.stage1 = "no" /\ Save(s, "Exit")
    <3>1. SaveFits(s, "Exit")
      BY <2>0, <2>1, <2>3, <1>a DEF SaveFits, Reason, Open, Decided
    <3> QED
      BY <2>0, <2>3, <3>1, FitsBySave
  <2>4. CASE st.stage1 # "no" /\ st' = counted /\ pc' = "Loop"
    <3>1. GoFits(counted, "Loop")
      BY <2>0, <2>1, <2>4, <1>a DEF GoFits, Open, Decided, HasSpecification
    <3> QED
      BY <2>0, <2>4, <3>1, FitsByGo
  <2> QED
    BY <2>2, <2>3, <2>4
<1>8. CASE Loop
  <2> DEFINE l == IF ~Decided(st) /\ st.llm_queries < MaxLLMQueries THEN "Repair" ELSE "Finish"
  <2>1. /\ pc = "Loop" /\ pc' = l /\ l \in {"Repair", "Finish"} /\ (l = "Repair" => ~Decided(st))
        /\ UNCHANGED <<st, results, specFile, forced, crashes>>
        /\ l = "Finish" => Decided(st) \/ st.llm_queries >= MaxLLMQueries
    BY <1>0, <1>8, AttemptsAssumption DEF Loop, local, disk
  <2> HIDE DEF l
  <2>2. GoFits(st, l)
    BY <2>1 DEF GoFits, DInv, FilesAgree, Deserved, Ended, Withdrawn, Decided, Reason
  <2> QED
    BY <2>1, <2>2, FitsByGo
<1>9. CASE RepairNoSpec
  <2>1. crashes # 0
    BY <1>9 DEF RepairNoSpec, DInv, Ended, KInv, HasSpecification
  <2> QED
    BY <1>9, <2>1, FitsByEnd DEF RepairNoSpec
<1>10. CASE RepairFresh
  <2>1. PICK outcome \in Outcomes :
          Save([st EXCEPT !.stage = "error_repair",
                          !.execution_status = [outcome |-> outcome, of |-> st.specification,
                                                repair_attempts |-> 0]],
               "RepairLoop")
    BY <1>10 DEF RepairFresh
  <2> DEFINE s == [st EXCEPT !.stage = "error_repair",
                             !.execution_status = [outcome |-> outcome, of |-> st.specification,
                                                   repair_attempts |-> 0]]
  <2>2. s.stage = "error_repair"
    BY <1>0 DEF StatesWith
  <2>3. Save(s, "RepairLoop")
    BY <2>1
  <2> HIDE DEF s
  <2>4. verdict = "none"
    BY <1>10, <1>b DEF RepairFresh, KInv, Decided
  <2>5. SaveFits(s, "RepairLoop")
    BY <2>2, <2>4 DEF SaveFits
  <2> QED
    BY <1>10, <2>3, <2>5, FitsBySave DEF RepairFresh, disk
<1>11. CASE RepairResumed
  <2>1. st'.stage = "error_repair" /\ verdict = "none"
    BY <1>0, <1>b, <1>11 DEF RepairResumed, StatesWith
  <2>2. GoFits(st', "RepairLoop")
    BY <2>1 DEF GoFits
  <2> QED
    BY <1>11, <2>2, FitsByGo DEF RepairResumed, disk
<1>12. CASE RepairQuery
  <2>0. st.stage = "error_repair" /\ verdict = "none"
    BY <1>b, <1>12 DEF RepairQuery, IInv, Towards
  <2>1. CASE UNCHANGED <<pc, ret, st>>
    <3>1. GoFits(st', "RepairLoop")
      BY <2>0, <2>1 DEF GoFits
    <3> QED
      BY <1>12, <2>1, <3>1, FitsByGo DEF RepairQuery, disk
  <2>2. ASSUME NEW spec \in Specs, NEW outcome \in Outcomes,
               Save([st EXCEPT !.specification = spec,
                               !.execution_status = [outcome |-> outcome, of |-> spec,
                                                     repair_attempts |-> attempts + 1]],
                    "RepairLoop")
        PROVE  DInv'
    <3> DEFINE s == [st EXCEPT !.specification = spec,
                               !.execution_status = [outcome |-> outcome, of |-> spec,
                                                     repair_attempts |-> attempts + 1]]
    <3>1. s.stage = "error_repair"
      BY <1>0, <2>0 DEF StatesWith
    <3>2. Save(s, "RepairLoop")
      BY <2>2
    <3> HIDE DEF s
    <3>3. SaveFits(s, "RepairLoop")
      BY <2>0, <3>1 DEF SaveFits
    <3> QED
      BY <1>12, <3>2, <3>3, FitsBySave DEF RepairQuery, disk
  <2> QED
    BY <1>12, <2>1, <2>2 DEF RepairQuery
<1>13. CASE RepairEnds
  <2> DEFINE flag == IF RepairStops THEN "yes" ELSE "no"
             s == [st EXCEPT !.llm_queries = st.llm_queries + attempts, !.error_repair = flag]
  <2>0. st.stage = "error_repair" /\ verdict = "none"
    BY <1>b, <1>13 DEF RepairEnds, IInv, Towards
  <2>1. /\ s.stage = st.stage /\ s.execution_status = st.execution_status
        /\ s.error_repair = "no" => ~RepairStops
    BY <1>0 DEF StatesWith
  <2>2. Save(s, "AfterRepair")
    BY <1>13 DEF RepairEnds
  <2> HIDE DEF s, flag
  <2>3. SaveFits(s, "AfterRepair")
    BY <2>0, <2>1 DEF SaveFits, RepairStops, Open
  <2> QED
    BY <1>13, <2>2, <2>3, FitsBySave DEF RepairEnds, disk
<1>14. CASE AfterRepair
  <2>0. /\ st.stage = "error_repair" /\ verdict = "none"
        /\ specFile = st.specification
        /\ st.error_repair = "no" /\ crashes = 0 => st.execution_status.outcome # "ok"
    BY <1>b, <1>14 DEF AfterRepair, IInv, Towards, DInv, FilesAgree, Deserved, Open
  <2>1. CASE st.error_repair = "no"
    <3>1. /\ st'.stage = "failed" /\ st'.error_repair = "no"
          /\ st'.execution_status = st.execution_status
      BY <1>0, <1>14, <2>1 DEF AfterRepair, StatesWith
    <3>2. GoFits(st', "Finish")
      BY <2>0, <2>1, <3>1 DEF GoFits, Reason, Open
    <3> QED
      BY <1>14, <2>1, <3>2, FitsByGo DEF AfterRepair, disk
  <2>2. CASE st.error_repair # "no"
    <3>1. GoFits(st', "Review")
      BY <1>14, <2>0, <2>2 DEF AfterRepair, GoFits
    <3> QED
      BY <1>14, <2>2, <3>1, FitsByGo DEF AfterRepair, disk
  <2> QED
    BY <2>1, <2>2
<1>15. CASE ReviewSkipped
  <2> DEFINE s == [st EXCEPT !.review_conclusion = "NORMAL", !.stage = "completed",
                             !.assert_review = "yes"]
  <2>0. st.stage = "error_repair" /\ verdict = "none" /\ specFile = st.specification
    BY <1>b, <1>15 DEF ReviewSkipped, IInv, DInv, FilesAgree
  <2>1. s.stage = "completed" /\ s.assert_review = "yes" /\ s.specification = st.specification
    BY <1>0 DEF StatesWith
  <2>2. Save(s, "AfterReview")
    BY <1>15 DEF ReviewSkipped
  <2> HIDE DEF s
  <2>3. SaveFits(s, "AfterReview")
    BY <2>0, <2>1 DEF SaveFits, Open
  <2> QED
    BY <1>15, <2>2, <2>3, FitsBySave DEF ReviewSkipped, disk
<1>16. CASE ReviewAssert
  BY <1>16 DEF ReviewAssert, IInv, Settled
<1>17. CASE ReviewQuery
  <2>0. /\ st.stage = "error_repair" /\ verdict = "none" /\ specFile = st.specification
        /\ st.execution_status.outcome # "ok"
        /\ UNCHANGED <<results, specFile, forced, crashes>>
    BY <1>b, <1>17 DEF ReviewQuery, IInv, DInv, FilesAgree, disk
  <2>1. CASE ReviewFails
    <3> DEFINE s == [st EXCEPT !.stage = "assert_review", !.assert_review = "no",
                               !.llm_queries = st.llm_queries + ReviewAttempts]
    <3>1. s.stage = "assert_review" /\ s.execution_status = st.execution_status
      BY <1>0 DEF StatesWith
    <3>2. Save(s, "AfterReview")
      BY <2>1 DEF ReviewFails
    <3> HIDE DEF s
    <3> QED
      BY <2>0, <3>1, <3>2, FitsBySave DEF SaveFits, Open
  <2>2. ASSUME NEW spec \in Specs, ReviewMismatch(spec) PROVE DInv'
    <3> DEFINE s == [st EXCEPT !.stage = "assert_review", !.assert_review = "yes",
                               !.review_conclusion = "MISMATCH", !.specification = spec,
                               !.llm_queries = st.llm_queries + tries + 1]
    <3>1. s.stage = "assert_review" /\ s.execution_status = st.execution_status
      BY <1>0 DEF StatesWith
    <3>2. Save(s, "AfterReview")
      BY <2>2 DEF ReviewMismatch
    <3> HIDE DEF s
    <3> QED
      BY <2>0, <3>1, <3>2, FitsBySave DEF SaveFits, Open
  <2>3. CASE ReviewBug
    <3> DEFINE s == [st EXCEPT !.stage = "completed", !.assert_review = "yes",
                               !.review_conclusion = "BUG",
                               !.llm_queries = st.llm_queries + tries + 1]
    <3>1. s.stage = "completed" /\ s.assert_review = "yes" /\ s.specification = st.specification
      BY <1>0 DEF StatesWith
    <3>2. Save(s, "AfterReview")
      BY <2>3 DEF ReviewBug
    <3> HIDE DEF s
    <3> QED
      BY <2>0, <3>1, <3>2, FitsBySave DEF SaveFits, Open
  <2>4. CASE AskAgain(ReviewAttempts)
    <3>1. GoFits(st', "Review")
      BY <2>0, <2>4 DEF AskAgain, GoFits
    <3> QED
      BY <1>17, <2>0, <2>4, <3>1, FitsByGo DEF ReviewQuery, AskAgain
  <2> QED
    BY <1>17, <2>1, <2>2, <2>3, <2>4 DEF ReviewQuery
<1>18. CASE AfterReview
  <2>0. /\ st.stage \in {"assert_review", "completed"}
        /\ crashes = 0 => ~Open(st)
        /\ verdict = "none" \/ (st.stage = "completed" /\ verdict = st.review_conclusion)
        /\ st.stage = "completed" => st.assert_review = "yes" /\ specFile = st.specification
    BY <1>18 DEF AfterReview, KInv, Towards, DInv, Deserved, Withdrawn, FilesAgree
  <2>1. CASE st.assert_review = "no"
    <3>1. /\ st'.stage = "failed" /\ st'.assert_review = "no" /\ pc' = "Finish"
          /\ st'.execution_status = st.execution_status
      BY <1>0, <1>18, <2>1 DEF AfterReview, StatesWith
    <3>2. GoFits(st', "Finish")
      BY <2>0, <2>1, <3>1 DEF GoFits, Reason, Open
    <3> QED
      BY <1>18, <3>1, <3>2, FitsByGo DEF AfterReview, disk
  <2>2. CASE st.assert_review # "no"
    <3>1. ~Decided(st) => HasSpecification(st)
      BY <2>0 DEF KInv, Kept, Decided
    <3>2. GoFits(st, "Loop")
      BY <2>0, <3>1 DEF GoFits, Open
    <3> QED
      BY <1>18, <2>2, <3>2, FitsByGo DEF AfterReview, disk
  <2> QED
    BY <2>1, <2>2
<1>19. CASE Finish
  <2> DEFINE s == [st EXCEPT !.stage = IF st.stage = "completed" THEN st.stage ELSE "failed"]
  <2>1. /\ s.stage = (IF st.stage = "completed" THEN st.stage ELSE "failed")
        /\ s.specification = st.specification
        /\ s.execution_status = st.execution_status
        /\ s.review_conclusion = st.review_conclusion
        /\ s.llm_queries = st.llm_queries
        /\ s.stage1 = st.stage1 /\ s.error_repair = st.error_repair
        /\ s.assert_review = st.assert_review
    BY <1>0 DEF StatesWith
  <2>2. Save(s, "Exit")
    BY <1>19 DEF Finish
  <2> HIDE DEF s
  <2>3. SaveFits(s, "Exit")
    BY <1>19, <2>1
    DEF Finish, SaveFits, DInv, FilesAgree, Deserved, Withdrawn, Open, Decided, Reason
  <2> QED
    BY <1>19, <2>2, <2>3, FitsBySave DEF Finish, disk
<1>20. CASE Return
  BY <1>20, FitsByEnd DEF Return, DInv, FilesAgree, Ended, Decided, Towards
<1>21. CASE SaveResults
  <2>0. /\ pc = "SaveResults" /\ pc' = "SaveSpec" /\ results' = st
        /\ UNCHANGED <<st, ret, specFile, forced, crashes>>
        /\ ret \in Labels \ {"down"}
        /\ st.stage \notin {"absent", "torn"}
    BY <1>21, Stage1Assumption DEF SaveResults, local, TypeOK, DInv, Ended, StatesWith, Stages
  <2>a. st.stage = "failed" => ret = "Exit"
    BY <2>0, <1>a DEF KInv, IInv, Towards
  <2>1. FilesAgree'
    BY <2>0 DEF DInv, FilesAgree, NoStaleSpecFile
  <2>2. Deserved'
    BY <2>0, <2>a DEF DInv, Deserved, Towards, Open, Reason
  <2>3. Ended'
    BY <2>0 DEF DInv, Ended, Towards, Decided
  <2>4. Withdrawn'
    BY <2>0, <1>a DEF DInv, Withdrawn, Towards, verdict, KInv
  <2> QED
    BY <2>1, <2>2, <2>3, <2>4 DEF DInv
<1>22. CASE SaveSpec
  <2>0. /\ pc = "SaveSpec" /\ pc' = ret /\ ret \in Labels \ {"down"} /\ specFile' = st.specification
        /\ UNCHANGED <<st, ret, results, forced, crashes>>
    BY <1>22 DEF SaveSpec, local, TypeOK, DInv, Ended
  <2>1. FilesAgree'
    BY <2>0 DEF DInv, FilesAgree, NoStaleSpecFile
  <2>2. Deserved'
    BY <2>0 DEF DInv, Deserved, Towards, Open, Reason
  <2>3. Ended'
    BY <2>0 DEF DInv, Ended, Towards, Decided
  <2>4. Withdrawn'
    BY <2>0, <1>a, SameVerdict DEF DInv, Withdrawn, Towards, KInv, IInv
  <2> QED
    BY <2>1, <2>2, <2>3, <2>4 DEF DInv
<1>23. CASE Crash
  <2>1. crashes' # 0
    BY <1>23 DEF Crash, TypeOK
  <2>2. FilesAgree'
    BY <1>23, FreshFits DEF Crash, DInv, FilesAgree, NoStaleSpecFile
  <2>3. Deserved'
    BY <1>23, <2>1, FreshFits DEF Crash, DInv, Deserved, Towards, Reason
  <2>4. Ended' /\ Withdrawn'
    BY <1>23, <2>1, FreshFits DEF Crash, Ended, Withdrawn, Towards
  <2> QED
    BY <2>2, <2>3, <2>4 DEF DInv
<1>24. CASE UNCHANGED vars
  BY <1>24 DEF vars, DInv, FilesAgree, NoStaleSpecFile, Deserved, Ended, Withdrawn, Towards,
               Open, Reason, Decided, HasSpecification, verdict
<1> QED
  BY <1>1, <1>2, <1>3, <1>4, <1>5, <1>6, <1>7, <1>8, <1>9, <1>10, <1>11, <1>12, <1>13,
     <1>14, <1>15, <1>16, <1>17, <1>18, <1>19, <1>20, <1>21, <1>22, <1>23, <1>24
  DEF Next, Run, Review

LEMMA KInvariance == Spec => []KInv
<1>1. Init => KInv
  BY FreshKept DEF Init, KInv, Towards
<1> QED
  BY <1>1, KInvStep, Typing, Invariance, PTL DEF Spec

LEMMA DInvariance == Spec => []DInv
<1>1. Init => DInv
  BY FreshFits DEF Init, DInv, FilesAgree, NoStaleSpecFile, Deserved, Ended, Withdrawn, Towards
<1> QED
  BY <1>1, DInvStep, Typing, Invariance, KInvariance, PTL DEF Spec

(* specification.py, which do_mutation takes, is never the text of an      *)
(* earlier specification beside a completed results.json, wherever between *)
(* the two writes of save_results_to_cache the runs died.                  *)
THEOREM Files == Spec => []NoStaleSpecFile
<1>1. DInv => NoStaleSpecFile
  BY DEF DInv, FilesAgree
<1> QED
  BY <1>1, DInvariance, PTL

(* A saved failure carries its cause, and as long as no run was killed a   *)
(* specification that was executed and exited with 0 is not reported as a  *)
(* failed analysis (spec_infer, spec_generalization).                      *)
THEOREM Failures == Spec => []FailureIsDeserved
<1>1. DInv => FailureIsDeserved
  BY DEF DInv, Deserved, Reason, Open, FailureIsDeserved, FailureHasReason, OkIsNormal
<1> QED
  BY <1>1, DInvariance, PTL

(***************************************************************************)
(* The refinement of module Verdict.  A verdict appears when results.json  *)
(* is written; starting a run is Begin, dying inside the write is Tear,    *)
(* and every other step is invisible.                                      *)
(***************************************************************************)
LEMMA PromiseStep ==
    ASSUME TypeOK, IInv, KInv, DInv, [Next]_vars PROVE [V!Next]_<<verdict, forced>>
<1>1. ASSUME NEW force \in ForceChoices, NEW n \in SummaryChoices, StartFresh(force, n)
      PROVE  V!Begin
  BY <1>1, ChoicesAssumption, SameVerdict DEF StartFresh, disk, V!Begin
<1>2. ASSUME NEW n \in SummaryChoices, StartCached(n) PROVE V!Begin
  BY <1>2, SameVerdict DEF StartCached, disk, V!Begin
<1>3. CASE SaveResults
  <2>0. /\ pc = "SaveResults" /\ results' = st /\ UNCHANGED forced
        /\ st.stage \notin {"absent", "torn"}
    BY <1>3, Stage1Assumption DEF SaveResults, TypeOK, StatesWith, Stages
  <2>1. verdict' = IF st.stage = "completed" THEN st.review_conclusion
                   ELSE IF st.stage = "failed" THEN "failed" ELSE "none"
    BY <2>0 DEF verdict
  <2>2. st.stage = "completed" => st.review_conclusion \in {"BUG", "NORMAL"}
    BY DEF IInv, Consistent, Justified
  <2>3. \/ verdict = "none"
        \/ forced /\ ret = "AfterStage1"
        \/ st.stage = "completed" /\ verdict = st.review_conclusion
    BY <2>0 DEF DInv, Withdrawn
  <2>4. ret = "AfterStage1" => st.stage \notin {"completed", "failed"}
    BY <2>0, Stage1Assumption DEF KInv, Towards
  <2> QED
    BY <2>0, <2>1, <2>2, <2>3, <2>4 DEF V!Next, V!Decide, V!Withdraw, V!Verdicts
<1>4. CASE Crash
  <2>1. CASE results' = results
    BY <1>4, <2>1, SameVerdict DEF Crash
  <2>2. CASE results' = Torn
    BY <1>4, <2>2, FreshFits DEF Crash, verdict, V!Next, V!Tear
  <2> QED
    BY <1>4, <2>1, <2>2 DEF Crash
<1>5. ASSUME Run \/ UNCHANGED vars, ~SaveResults
      PROVE  UNCHANGED <<results, forced>>
  BY <1>5 DEF Run, vars, LoadTorn, LoadDecided, LoadPartial, Stage1Query, AfterStage1, Loop,
     RepairNoSpec, RepairFresh, RepairResumed, RepairQuery, RepairEnds, AfterRepair,
     ReviewSkipped, Review, ReviewAssert, ReviewQuery, AfterReview, Finish, Return, SaveSpec,
     End, disk, local
<1> QED
  BY <1>1, <1>2, <1>3, <1>4, <1>5, SameVerdict DEF Next, V!Next

(* Every behaviour of a phase, with its kills and its resumed and forced   *)
(* runs, is one that Verdict allows: a verdict is never replaced by        *)
(* another one without having been withdrawn by a forced run.              *)
THEOREM PromiseIsKept == Spec => Promise
<1>1. Init => V!Init
  BY DEF Init, V!Init, verdict, Absent, Fresh
<1> QED
  BY <1>1, PromiseStep, Typing, Invariance, KInvariance, DInvariance, PTL DEF Spec, Promise, V!Spec
-----------------------------------------------------------------------------
(***************************************************************************)
(* The budget.  Debt is what the crashes may have cost.  The queries asked *)
(* never exceed those in the dictionary in memory, the ones of the current *)
(* repair or review and the debt (InMemory); and, for the sake of the next *)
(* crash, they exceed those of a results.json that can be resumed by one   *)
(* round at most (OnDisk).                                                 *)
(***************************************************************************)
Debt == crashes * CrashCost

Partial(s) == Readable(s) /\ ~Decided(s)

LocalCounts ==
    /\ attempts <= RepairAttempts
    /\ st.execution_status.repair_attempts <= RepairAttempts
    /\ results.execution_status.repair_attempts <= RepairAttempts
    /\ pc \notin {"Stage1", "Review"} => tries = 0
    /\ pc = "Stage1" => tries < Stage1Attempts
    /\ pc = "Review" => tries < ReviewAttempts
    /\ pc = "Review" /\ st.execution_status.outcome = "ok" => tries = 0

Saved ==
    /\ results.stage # "init"
    /\ pc \in {"AfterStage1", "AfterRepair", "Review", "AfterReview"} => results = st

Rounds ==
    /\ pc = "Repair" \/ Towards("RepairLoop") => st.llm_queries <= MaxLLMQueries - 1
    /\ Towards("AfterRepair") \/ pc = "Review" =>
            st.llm_queries <= MaxLLMQueries - 1 + RepairAttempts

InMemory ==
    /\ pc = "Stage1" => asked <= tries
    /\ Towards("AfterStage1") =>
            /\ asked <= Stage1Attempts /\ 0 <= st.llm_queries
            /\ st.stage1 # "no" => asked <= st.llm_queries
    /\ pc \in {"Loop", "Repair"} \/ Towards("AfterRepair") \/ Towards("AfterReview") =>
            asked <= st.llm_queries + Debt
    /\ Towards("RepairLoop") => asked <= st.llm_queries + attempts + Debt
    /\ pc = "Review" => asked <= st.llm_queries + tries + Debt

OnDisk ==
    Partial(results) =>
        /\ pc = "Stage1" \/ Towards("AfterStage1") => 0 <= results.llm_queries + Debt
        /\ pc \in {"down", "Load", "Loop", "Repair"} => asked <= results.llm_queries + Debt
        /\ Towards("RepairLoop") => asked <= results.llm_queries + attempts + Debt
        /\ pc = "Finish" \/ Towards("AfterRepair") \/ Towards("AfterReview") \/ Towards("Exit") =>
             asked <= results.llm_queries + CrashCost + Debt

QInv == LocalCounts /\ Saved /\ Rounds /\ InMemory /\ OnDisk /\ QueriesBounded

(* What a crash may cost covers a round of each kind.                      *)
LEMMA Costs ==
    /\ CrashCost \in Nat /\ RoundCost = RepairAttempts + ReviewAttempts
    /\ RepairAttempts <= CrashCost /\ ReviewAttempts <= CrashCost /\ Stage1Attempts <= CrashCost
    /\ LargerOf(MaxLLMQueries - 1 + RoundCost, Stage1Attempts) \in Int
    /\ MaxLLMQueries - 1 + RoundCost <= LargerOf(MaxLLMQueries - 1 + RoundCost, Stage1Attempts)
    /\ Stage1Attempts <= LargerOf(MaxLLMQueries - 1 + RoundCost, Stage1Attempts)
  BY AttemptsAssumption DEF CrashCost, RoundCost, LargerOf

(* A crash adds its cost to the debt, and nothing else changes it.         *)
LEMMA Debts ==
    ASSUME crashes \in Nat
    PROVE  /\ Debt \in Nat
           /\ crashes' = crashes => Debt' = Debt
           /\ crashes' = crashes + 1 => Debt' = Debt + CrashCost
<1>1. \A c \in Nat : \A k \in Nat : c * k \in Nat /\ (c + 1) * k = c * k + k
  BY SMT
<1> QED
  BY <1>1, Costs DEF Debt

LEMMA Larger ==
    ASSUME QueriesBounded, UNCHANGED <<asked, crashes>> PROVE QueriesBounded'
  BY DEF QueriesBounded

(* The invariant is kept, one step per action.                             *)
LEMMA QInvStep == TypeOK /\ IInv /\ KInv /\ DInv /\ QInv /\ [Next]_vars => QInv'
<1> SUFFICES ASSUME TypeOK, IInv, KInv, DInv, QInv, [Next]_vars PROVE QInv'
  OBVIOUS
<1> DEFINE limit == LargerOf(MaxLLMQueries - 1 + RoundCost, Stage1Attempts)
           Counts == LocalCounts /\ Saved /\ Rounds /\ InMemory /\ OnDisk
<1>0. /\ st \in StatesWith(Stages) /\ st.llm_queries \in Int
      /\ results \in StatesWith(Stages \cup {"absent", "torn"}) /\ results.llm_queries \in Int
      /\ st.execution_status.repair_attempts \in Nat
      /\ attempts \in Nat /\ tries \in Nat /\ summary \in Nat /\ asked \in Nat /\ crashes \in Nat
  BY DEF TypeOK, StatesWith, Executions
<1>a. Stage1 \notin {"init", "error_repair", "assert_review", "completed", "failed"}
  BY Stage1Assumption
<1>b. Debt \in Nat /\ (crashes' = crashes => Debt' = Debt)
  BY <1>0, Debts
<1>c. ASSUME Counts', UNCHANGED <<asked, crashes>> PROVE QInv'
  BY <1>c, Larger DEF QInv
<1>d. ASSUME Counts', asked' <= limit + Debt, UNCHANGED crashes PROVE QInv'
  BY <1>d DEF QInv, QueriesBounded, Debt
<1>e. /\ limit \in Int /\ Stage1Attempts <= limit
      /\ MaxLLMQueries - 1 + RepairAttempts + ReviewAttempts <= limit
  BY Costs, AttemptsAssumption
<1> HIDE DEF limit
<1> USE AttemptsAssumption, Costs
<1> USE DEF LocalCounts, Saved, Rounds, InMemory, OnDisk, Towards
<1>1. ASSUME NEW force \in ForceChoices, NEW n \in SummaryChoices, StartFresh(force, n)
      PROVE  QInv'
  <2>1. /\ pc = "down" /\ pc' = "Stage1" /\ st' = Fresh /\ asked' = 0
        /\ UNCHANGED <<ret, attempts, tries, results, crashes>>
    BY <1>1 DEF StartFresh, disk
  <2>2. Fresh.execution_status.repair_attempts = 0
    BY DEF Fresh, NoExecution
  <2>3. Counts'
    BY <1>0, <1>b, <2>1, <2>2 DEF QInv
  <2>4. asked' <= limit + Debt
    BY <1>b, <1>e, <2>1
  <2> QED
    BY <1>d, <2>1, <2>3, <2>4
<1>2. ASSUME NEW n \in SummaryChoices, StartCached(n) PROVE QInv'
  <2>1. /\ pc = "down" /\ pc' = "Load"
        /\ UNCHANGED <<ret, st, attempts, tries, results, asked, crashes>>
    BY <1>2 DEF StartCached, disk
  <2>2. Counts'
    BY <1>0, <1>b, <2>1 DEF QInv
  <2> QED
    BY <1>c, <2>1, <2>2
\* a run that ends where results.json counts all but the debt
<1>f. ASSUME NEW f, End(f), UNCHANGED disk,
             Partial(results) => asked <= results.llm_queries + Debt
      PROVE  QInv'
  <2>1. /\ pc' = "down" /\ ret' = "down" /\ st' = Fresh /\ attempts' = 0 /\ tries' = 0
        /\ UNCHANGED <<results, asked, crashes>>
    BY <1>f DEF End, disk
  <2>2. Fresh.execution_status.repair_attempts = 0
    BY DEF Fresh, NoExecution
  <2>3. Counts'
    BY <1>0, <1>b, <1>f, <2>1, <2>2 DEF QInv
  <2> QED
    BY <1>c, <2>1, <2>3
<1>3. CASE LoadTorn
  BY <1>3, <1>f DEF LoadTorn, QInv
<1>4. CASE LoadDecided
  <2>1. CASE End("AssertionError")
    BY <1>4, <1>f, <2>1 DEF LoadDecided, QInv
  <2>2. CASE /\ st' = results /\ pc' = "Exit"
             /\ UNCHANGED <<ret, attempts, tries, summary, forced, fault, asked, crashes>>
    <3>1. pc = "Load" /\ ~Partial(results) /\ UNCHANGED results
      BY <1>4 DEF LoadDecided, Partial, disk
    <3>2. Counts'
      BY <1>0, <1>b, <2>2, <3>1 DEF QInv
    <3> QED
      BY <1>c, <2>2, <3>2
  <2> QED
    BY <1>4, <2>1, <2>2 DEF LoadDecided
<1>5. CASE LoadPartial
  <2>1. CASE End("KeyError")
    BY <1>5, <1>f, <2>1 DEF LoadPartial, QInv
  <2>2. CASE /\ st' = results
             /\ pc' = IF results.stage = "init" THEN "Stage1" ELSE "Loop"
             /\ UNCHANGED <<ret, attempts, tries, summary, forced, fault, asked, crashes>>
    <3>1. pc = "Load" /\ Partial(results) /\ UNCHANGED results
      BY <1>5 DEF LoadPartial, Partial, disk
    <3>2. pc' = "Loop"
      BY <2>2 DEF QInv
    <3>3. Counts'
      BY <1>0, <1>b, <2>2, <3>1, <3>2 DEF QInv
    <3> QED
      BY <1>c, <2>2, <3>3
  <2> QED
    BY <1>5, <2>1, <2>2 DEF LoadPartial
<1>6. CASE Stage1Query
  <2>0. /\ pc = "Stage1" /\ asked' = asked + 1 /\ asked <= tries /\ tries < Stage1Attempts
        /\ UNCHANGED <<attempts, results, crashes>>
        /\ asked' <= Stage1Attempts
    BY <1>0, <1>6 DEF Stage1Query, disk, QInv
  <2>1. asked' <= limit + Debt
    BY <1>0, <1>b, <1>e, <2>0
  <2>2. CASE Stage1Fails
    <3> DEFINE s == [st EXCEPT !.stage = Stage1, !.stage1 = "no", !.llm_queries = FailureCharge]
    <3>1. /\ s.stage = Stage1 /\ s.execution_status = st.execution_status /\ s.stage1 = "no"
          /\ s.llm_queries = FailureCharge
      BY <1>0 DEF StatesWith
    <3>2. st' = s /\ pc' = "SaveResults" /\ ret' = "AfterStage1" /\ tries' = 0
      BY <2>2 DEF Stage1Fails, Save
    <3> HIDE DEF s
    <3>3. Counts'
      BY <1>0, <1>a, <1>b, <2>0, <3>1, <3>2 DEF QInv
    <3> QED
      BY <1>d, <2>0, <2>1, <3>3
  <2>3. ASSUME NEW spec \in Specs, Stage1Succeeds(spec) PROVE QInv'
    <3> DEFINE s == [st EXCEPT !.stage = Stage1, !.stage1 = "yes", !.specification = spec,
                               !.llm_queries = tries + 1]
    <3>1. /\ s.stage = Stage1 /\ s.execution_status = st.execution_status
          /\ s.llm_queries = tries + 1
      BY <1>0 DEF StatesWith
    <3>2. st' = s /\ pc' = "SaveResults" /\ ret' = "AfterStage1" /\ tries' = 0
      BY <2>3 DEF Stage1Succeeds, Save
    <3> HIDE DEF s
    <3>3. Counts'
      BY <1>0, <1>a, <1>b, <2>0, <3>1, <3>2 DEF QInv
    <3> QED
      BY <1>d, <2>0, <2>1, <3>3
  <2>4. CASE AskAgain(Stage1Attempts)
    <3>1. /\ tries + 1 < Stage1Attempts /\ tries' = tries + 1 /\ UNCHANGED <<pc, ret, st>>
      BY <2>4 DEF AskAgain
    <3>2. Counts'
      BY <1>0, <1>b, <2>0, <3>1 DEF QInv
    <3> QED
      BY <1>d, <2>0, <2>1, <3>2
  <2> QED
    BY <1>6, <2>2, <2>3, <2>4 DEF Stage1Query
<1>7. CASE AfterStage1
  <2> DEFINE counted == [st EXCEPT !.llm_queries = st.llm_queries + summary]
             s == [counted EXCEPT !.stage = "failed"]
  <2>0. pc = "AfterStage1" /\ UNCHANGED <<attempts, tries, results, asked, crashes>>
    BY <1>7 DEF AfterStage1, disk
  <2>1. /\ counted.llm_queries = st.llm_queries + summary
        /\ s.execution_status = st.execution_status
        /\ counted.execution_status = st.execution_status
    BY <1>0 DEF StatesWith
  <2>2. \/ st' = s /\ pc' = "SaveResults" /\ ret' = "Exit"
        \/ st.stage1 # "no" /\ st' = counted /\ pc' = "Loop" /\ UNCHANGED ret
    BY <1>7 DEF AfterStage1, Save
  <2> HIDE DEF counted, s
  <2>3. Counts'
    BY <1>0, <1>b, <2>0, <2>1, <2>2 DEF QInv
  <2> QED
    BY <1>c, <2>0, <2>3
<1>8. CASE Loop
  <2>1. /\ pc = "Loop" /\ pc' \in {"Repair", "Finish"}
        /\ pc' = "Repair" => st.llm_queries < MaxLLMQueries
        /\ UNCHANGED <<ret, st, attempts, tries, results, asked, crashes>>
    BY <1>8 DEF Loop, local, disk
  <2>2. Counts'
    BY <1>0, <1>b, <2>1 DEF QInv
  <2> QED
    BY <1>c, <2>1, <2>2
<1>9. CASE RepairNoSpec
  BY <1>9, <1>f DEF RepairNoSpec, QInv
<1>10. CASE RepairFresh
  <2>1. PICK outcome \in Outcomes :
          Save([st EXCEPT !.stage = "error_repair",
                          !.execution_status = [outcome |-> outcome, of |-> st.specification,
                                                repair_attempts |-> 0]],
               "RepairLoop")
    BY <1>10 DEF RepairFresh
  <2> DEFINE s == [st EXCEPT !.stage = "error_repair",
                             !.execution_status = [outcome |-> outcome, of |-> st.specification,
                                                   repair_attempts |-> 0]]
  <2>2. /\ s.stage = "error_repair" /\ s.llm_queries = st.llm_queries
        /\ s.execution_status.repair_attempts = 0
    BY <1>0 DEF StatesWith
  <2>3. /\ st' = s /\ pc' = "SaveResults" /\ ret' = "RepairLoop" /\ pc = "Repair"
        /\ attempts' = 0 /\ UNCHANGED <<tries, results, asked, crashes>>
    BY <1>10, <2>1 DEF Save, RepairFresh, disk
  <2> HIDE DEF s
  <2>4. Counts'
    BY <1>0, <1>b, <2>2, <2>3 DEF QInv
  <2> QED
    BY <1>c, <2>3, <2>4
<1>11. CASE RepairResumed
  <2> DEFINE resumed == st.execution_status.repair_attempts
  <2>1. /\ st'.llm_queries = st.llm_queries - resumed
        /\ st'.execution_status = st.execution_status
    BY <1>0, <1>11 DEF RepairResumed, StatesWith
  <2>2. /\ pc = "Repair" /\ pc' = "RepairLoop" /\ attempts' = resumed
        /\ UNCHANGED <<ret, tries, results, asked, crashes>>
    BY <1>11 DEF RepairResumed, disk
  <2>3. resumed \in Nat /\ resumed <= RepairAttempts
    BY <1>0 DEF QInv
  <2> HIDE DEF resumed
  <2>4. st'.execution_status.repair_attempts = resumed
    BY <2>1 DEF resumed
  <2>5. Counts'
    BY <1>0, <1>b, <2>1, <2>2, <2>3, <2>4 DEF QInv
  <2> QED
    BY <1>c, <2>2, <2>5
<1>12. CASE RepairQuery
  <2>0. /\ pc = "RepairLoop" /\ asked' = asked + 1 /\ attempts' = attempts + 1
        /\ attempts < RepairAttempts
        /\ UNCHANGED <<tries, results, crashes>>
    BY <1>12 DEF RepairQuery, Repairable, disk
  <2>1. asked' <= limit + Debt
    BY <1>0, <1>b, <1>e, <2>0 DEF QInv
  <2>2. CASE UNCHANGED <<pc, ret, st>>
    <3>1. Counts'
      BY <1>0, <1>b, <2>0, <2>2 DEF QInv
    <3> QED
      BY <1>d, <2>0, <2>1, <3>1
  <2>3. ASSUME NEW spec \in Specs, NEW outcome \in Outcomes,
               Save([st EXCEPT !.specification = spec,
                               !.execution_status = [outcome |-> outcome, of |-> spec,
                                                     repair_attempts |-> attempts + 1]],
                    "RepairLoop")
        PROVE  QInv'
    <3> DEFINE s == [st EXCEPT !.specification = spec,
                               !.execution_status = [outcome |-> outcome, of |-> spec,
                                                     repair_attempts |-> attempts + 1]]
    <3>1. /\ s.llm_queries = st.llm_queries
          /\ s.execution_status.repair_attempts = attempts + 1
      BY <1>0 DEF StatesWith
    <3>2. st' = s /\ pc' = "SaveResults" /\ ret' = "RepairLoop"
      BY <2>3 DEF Save
    <3> HIDE DEF s
    <3>3. Counts'
      BY <1>0, <1>b, <2>0, <3>1, <3>2 DEF QInv
    <3> QED
      BY <1>d, <2>0, <2>1, <3>3
  <2> QED
    BY <1>12, <2>2, <2>3 DEF RepairQuery
<1>13. CASE RepairEnds
  <2> DEFINE flag == IF RepairStops THEN "yes" ELSE "no"
             s == [st EXCEPT !.llm_queries = st.llm_queries + attempts, !.error_repair = flag]
  <2>1. s.llm_queries = st.llm_queries + attempts /\ s.execution_status = st.execution_status
    BY <1>0 DEF StatesWith
  <2>2. /\ st' = s /\ pc = "RepairLoop" /\ pc' = "SaveResults" /\ ret' = "AfterRepair"
        /\ UNCHANGED <<attempts, tries, results, asked, crashes>>
    BY <1>13 DEF RepairEnds, Save, disk
  <2> HIDE DEF s, flag
  <2>3. Counts'
    BY <1>0, <1>b, <2>1, <2>2 DEF QInv
  <2> QED
    BY <1>c, <2>2, <2>3
<1>14. CASE AfterRepair
  <2>1. /\ pc = "AfterRepair" /\ UNCHANGED <<ret, attempts, tries, results, asked, crashes>>
        /\ \/ pc' = "Finish"
           \/ pc' = "Review" /\ UNCHANGED st
        /\ st'.llm_queries = st.llm_queries /\ st'.execution_status = st.execution_status
    BY <1>0, <1>14 DEF AfterRepair, StatesWith, disk
  <2>2. Counts'
    BY <1>0, <1>b, <2>1 DEF QInv
  <2> QED
    BY <1>c, <2>1, <2>2
<1>15. CASE ReviewSkipped
  <2> DEFINE s == [st EXCEPT !.review_conclusion = "NORMAL", !.stage = "completed",
                             !.assert_review = "yes"]
  <2>1. s.llm_queries = st.llm_queries /\ s.execution_status = st.execution_status
    BY <1>0 DEF StatesWith
  <2>2. /\ st' = s /\ pc = "Review" /\ pc' = "SaveResults" /\ ret' = "AfterReview"
        /\ UNCHANGED <<attempts, tries, results, asked, crashes>>
    BY <1>15 DEF ReviewSkipped, Save, disk
  <2> HIDE DEF s
  <2>3. tries = 0
    BY <1>15 DEF ReviewSkipped, QInv
  <2>4. Counts'
    BY <1>0, <1>b, <2>1, <2>2, <2>3 DEF QInv
  <2> QED
    BY <1>c, <2>2, <2>4
<1>16. CASE ReviewAssert
  BY <1>16 DEF ReviewAssert, IInv, Settled
<1>17. CASE ReviewQuery
  <2>0. /\ pc = "Review" /\ asked' = asked + 1 /\ tries < ReviewAttempts
        /\ st.execution_status.outcome # "ok"
        /\ UNCHANGED <<attempts, results, crashes>>
    BY <1>17 DEF ReviewQuery, disk, QInv
  <2>1. asked' <= limit + Debt
    BY <1>0, <1>b, <1>e, <2>0 DEF QInv
  <2>2. CASE ReviewFails
    <3> DEFINE s == [st EXCEPT !.stage = "assert_review", !.assert_review = "no",
                               !.llm_queries = st.llm_queries + ReviewAttempts]
    <3>1. /\ s.execution_status = st.execution_status
          /\ s.llm_queries = st.llm_queries + ReviewAttempts
      BY <1>0 DEF StatesWith
    <3>2. st' = s /\ pc' = "SaveResults" /\ ret' = "AfterReview" /\ tries' = 0
      BY <2>2 DEF ReviewFails, Save
    <3> HIDE DEF s
    <3>3. Counts'
      BY <1>0, <1>b, <2>0, <3>1, <3>2 DEF QInv
    <3> QED
      BY <1>d, <2>0, <2>1, <3>3
  <2>3. ASSUME NEW spec \in Specs, ReviewMismatch(spec) PROVE QInv'
    <3> DEFINE s == [st EXCEPT !.stage = "assert_review", !.assert_review = "yes",
                               !.review_conclusion = "MISMATCH", !.specification = spec,
                               !.llm_queries = st.llm_queries + tries + 1]
    <3>1. /\ s.execution_status = st.execution_status
          /\ s.llm_queries = st.llm_queries + tries + 1
      BY <1>0 DEF StatesWith
    <3>2. st' = s /\ pc' = "SaveResults" /\ ret' = "AfterReview" /\ tries' = 0
      BY <2>3 DEF ReviewMismatch, Save
    <3> HIDE DEF s
    <3>3. Counts'
      BY <1>0, <1>b, <2>0, <3>1, <3>2 DEF QInv
    <3> QED
      BY <1>d, <2>0, <2>1, <3>3
  <2>4. CASE ReviewBug
    <3> DEFINE s == [st EXCEPT !.stage = "completed", !.assert_review = "yes",
                               !.review_conclusion = "BUG",
                               !.llm_queries = st.llm_queries + tries + 1]
    <3>1. /\ s.execution_status = st.execution_status
          /\ s.llm_queries = st.llm_queries + tries + 1
      BY <1>0 DEF StatesWith
    <3>2. st' = s /\ pc' = "SaveResults" /\ ret' = "AfterReview" /\ tries' = 0
      BY <2>4 DEF ReviewBug, Save
    <3> HIDE DEF s
    <3>3. Counts'
      BY <1>0, <1>b, <2>0, <3>1, <3>2 DEF QInv
    <3> QED
      BY <1>d, <2>0, <2>1, <3>3
  <2>5. CASE AskAgain(ReviewAttempts)
    <3>1. /\ tries + 1 < ReviewAttempts /\ tries' = tries + 1 /\ UNCHANGED <<pc, ret, st>>
      BY <2>5 DEF AskAgain
    <3>2. Counts'
      BY <1>0, <1>b, <2>0, <3>1 DEF QInv
    <3> QED
      BY <1>d, <2>0, <2>1, <3>2
  <2> QED
    BY <1>17, <2>2, <2>3, <2>4, <2>5 DEF ReviewQuery
<1>18. CASE AfterReview
  <2>1. /\ pc = "AfterReview" /\ UNCHANGED <<ret, attempts, tries, results, asked, crashes>>
        /\ pc' \in {"Finish", "Loop"}
        /\ st'.llm_queries = st.llm_queries /\ st'.execution_status = st.execution_status
    BY <1>0, <1>18 DEF AfterReview, StatesWith, disk
  <2>2. Counts'
    BY <1>0, <1>b, <2>1 DEF QInv
  <2> QED
    BY <1>c, <2>1, <2>2
<1>19. CASE Finish
  <2> DEFINE s == [st EXCEPT !.stage = IF st.stage = "completed" THEN st.stage ELSE "failed"]
  <2>1. s.execution_status = st.execution_status
    BY <1>0 DEF StatesWith
  <2>2. /\ st' = s /\ pc = "Finish" /\ pc' = "SaveResults" /\ ret' = "Exit"
        /\ UNCHANGED <<attempts, tries, results, asked, crashes>>
    BY <1>19 DEF Finish, Save, disk
  <2> HIDE DEF s
  <2>3. Counts'
    BY <1>0, <1>b, <2>1, <2>2 DEF QInv
  <2> QED
    BY <1>c, <2>2, <2>3
<1>20. CASE Return
  <2>1. ~Partial(results)
    BY <1>20 DEF Return, DInv, FilesAgree, Ended, Partial
  <2> QED
    BY <1>20, <1>f, <2>1 DEF Return
<1>21. CASE SaveResults
  <2>0. /\ pc = "SaveResults" /\ pc' = "SaveSpec" /\ results' = st
        /\ UNCHANGED <<st, ret, attempts, tries, asked, crashes>>
        /\ ret \in Labels \ {"down"}
    BY <1>21 DEF SaveResults, local, TypeOK, DInv, Ended
  <2>1. st.stage # "init" /\ (ret = "Exit" => ~Partial(st))
    BY <2>0, <1>a DEF KInv, IInv, DInv, Ended, Partial, Decided
  <2>2. Counts'
    BY <1>0, <1>b, <2>0, <2>1 DEF QInv
  <2> QED
    BY <1>c, <2>0, <2>2
<1>22. CASE SaveSpec
  <2>0. /\ pc = "SaveSpec" /\ pc' = ret /\ results = st
        /\ UNCHANGED <<st, ret, results, attempts, tries, asked, crashes>>
        /\ ret \in Labels \ {"down"}
    BY <1>22 DEF SaveSpec, local, TypeOK, DInv, FilesAgree, Ended
  <2>1. Counts'
    BY <1>0, <1>b, <2>0 DEF QInv
  <2> QED
    BY <1>c, <2>0, <2>1
<1>23. CASE Crash
  <2>0. /\ crashes' = crashes + 1 /\ pc # "down" /\ pc' = "down" /\ ret' = "down"
        /\ st' = Fresh /\ attempts' = 0 /\ tries' = 0 /\ asked' = asked
        /\ results' \in {results, Torn}
    BY <1>23 DEF Crash
  <2>1. Debt' = Debt + CrashCost
    BY <1>0, <2>0, Debts
  <2>2. /\ Fresh.execution_status.repair_attempts = 0 /\ Torn.execution_status.repair_attempts = 0
        /\ Torn.stage = "torn" /\ ~Partial(Torn)
    BY DEF Fresh, Torn, NoExecution, Partial, Readable
  <2>3. /\ pc \in Labels \cup {"Load", "Stage1", "Loop", "Repair", "Review", "Finish",
                               "SaveResults", "SaveSpec"}
        /\ pc \in {"SaveResults", "SaveSpec"} => ret \in Labels \ {"down"}
    BY DEF TypeOK, DInv, Ended
  <2>4. Partial(results) => asked <= results.llm_queries + CrashCost + Debt
    <3>1. CASE pc = "Review"
      BY <1>0, <1>b, <3>1 DEF QInv
    <3>2. CASE pc = "Stage1" \/ Towards("AfterStage1")
      BY <1>0, <1>b, <3>2 DEF QInv
    <3>3. CASE Towards("RepairLoop")
      BY <1>0, <1>b, <3>3 DEF QInv
    <3>4. CASE pc \in {"Load", "Loop", "Repair", "Finish"} \/ Towards("AfterRepair")
                 \/ Towards("AfterReview") \/ Towards("Exit")
      BY <1>0, <1>b, <3>4 DEF QInv
    <3> QED
      BY <2>0, <2>3, <3>1, <3>2, <3>3, <3>4
  <2>5. Counts'
    BY <1>0, <1>b, <2>0, <2>1, <2>2, <2>4 DEF QInv
  <2>6. asked <= limit + Debt
    BY DEF QInv, QueriesBounded, Debt, limit
  <2>7. asked' <= limit + Debt'
    BY <1>0, <1>b, <1>e, <2>0, <2>1, <2>6
  <2> QED
    BY <2>5, <2>7 DEF QInv, QueriesBounded, Debt, limit
<1>24. CASE UNCHANGED vars
  <2>1. UNCHANGED <<pc, ret, st, attempts, tries, results, asked, crashes>>
    BY <1>24 DEF vars
  <2>2. Counts'
    BY <1>b, <2>1 DEF QInv
  <2> QED
    BY <1>c, <2>1, <2>2
<1> QED
  BY <1>1, <1>2, <1>3, <1>4, <1>5, <1>6, <1>7, <1>8, <1>9, <1>10, <1>11, <1>12, <1>13,
     <1>14, <1>15, <1>16, <1>17, <1>18, <1>19, <1>20, <1>21, <1>22, <1>23, <1>24
  DEF Next, Run, Review

(***************************************************************************)
(* What is recorded.  As long as nothing was killed, a forced run knows    *)
(* the number of its queries exactly; only a stage that gives up charges   *)
(* more than it asked.                                                     *)
(***************************************************************************)
Known ==
    crashes = 0 /\ forced =>
        /\ pc # "Load"
        /\ pc = "Stage1" => asked = tries
        /\ Towards("AfterStage1") =>
             /\ asked <= st.llm_queries
             /\ st.stage1 # "no" => asked = st.llm_queries
        /\ pc \in {"Loop", "Repair"} =>
             /\ st.stage # "error_repair"
             /\ asked + summary = st.llm_queries
        /\ Towards("RepairLoop") => asked + summary = st.llm_queries + attempts
        /\ Towards("AfterRepair") => asked + summary = st.llm_queries
        /\ pc = "Review" => asked + summary = st.llm_queries + tries
        /\ pc = "Finish" \/ Towards("AfterReview") \/ Towards("Exit") =>
             asked + summary <= st.llm_queries
        /\ Towards("AfterReview") /\ st.assert_review # "no" => asked + summary = st.llm_queries
        /\ (pc = "Finish" \/ Towards("Exit")) /\ st.stage = "completed" =>
             asked + summary = st.llm_queries

LEMMA KnownStep ==
    ASSUME Stage1Attempts <= FailureCharge,
           TypeOK, IInv, KInv, DInv, QInv, Known, [Next]_vars
    PROVE  Known'
<1>0. /\ st \in StatesWith(Stages) /\ st.llm_queries \in Int
      /\ attempts \in Nat /\ tries \in Nat /\ summary \in Nat /\ asked \in Nat
  BY DEF TypeOK, StatesWith
<1>a. Stage1 \notin {"init", "error_repair", "assert_review", "completed", "failed"}
  BY Stage1Assumption
<1> USE AttemptsAssumption DEF Known, Towards
<1>1. ASSUME NEW force \in ForceChoices, NEW n \in SummaryChoices, StartFresh(force, n)
      PROVE  Known'
  <2>1. tries = 0
    BY <1>1 DEF StartFresh, QInv, LocalCounts
  <2> QED
    BY <1>1, <2>1 DEF StartFresh
<1>2. ASSUME NEW n \in SummaryChoices, StartCached(n) PROVE Known'
  BY <1>2 DEF StartCached
<1>b. ASSUME NEW f, End(f) PROVE Known'
  BY <1>b DEF End
<1>3. CASE LoadTorn
  BY <1>3, <1>b DEF LoadTorn
<1>4. CASE LoadDecided
  BY <1>4, <1>b DEF LoadDecided
<1>5. CASE LoadPartial
  BY <1>5, <1>b DEF LoadPartial
<1>6. CASE Stage1Query
  <2>0. /\ pc = "Stage1" /\ asked' = asked + 1 /\ tries < Stage1Attempts
        /\ UNCHANGED <<forced, crashes>>
    BY <1>6 DEF Stage1Query, QInv, LocalCounts
  <2>1. CASE Stage1Fails
    <3>1. st'.llm_queries = FailureCharge /\ st'.stage1 = "no"
      BY <1>0, <2>1 DEF Stage1Fails, Save, StatesWith
    <3>2. pc' = "SaveResults" /\ ret' = "AfterStage1"
      BY <2>1 DEF Stage1Fails, Save
    <3> QED
      BY <1>0, <2>0, <3>1, <3>2
  <2>2. ASSUME NEW spec \in Specs, Stage1Succeeds(spec) PROVE Known'
    <3>1. st'.llm_queries = tries + 1
      BY <1>0, <2>2 DEF Stage1Succeeds, Save, StatesWith
    <3>2. pc' = "SaveResults" /\ ret' = "AfterStage1"
      BY <2>2 DEF Stage1Succeeds, Save
    <3> QED
      BY <1>0, <2>0, <3>1, <3>2
  <2>3. CASE AskAgain(Stage1Attempts)
    BY <1>0, <2>0, <2>3 DEF AskAgain
  <2> QED
    BY <1>6, <2>1, <2>2, <2>3 DEF Stage1Query
<1>7. CASE AfterStage1
  <2> DEFINE counted == [st EXCEPT !.llm_queries = st.llm_queries + summary]
             s == [counted EXCEPT !.stage = "failed"]
  <2>0. pc = "AfterStage1" /\ UNCHANGED <<summary, forced, asked, crashes>>
    BY <1>7 DEF AfterStage1
  <2>1. /\ counted.llm_queries = st.llm_queries + summary /\ counted.stage = Stage1
        /\ s.llm_queries = st.llm_queries + summary /\ s.stage = "failed"
    BY <1>0, <2>0 DEF StatesWith, KInv
  <2>2. \/ st' = s /\ pc' = "SaveResults" /\ ret' = "Exit"
        \/ st.stage1 # "no" /\ st' = counted /\ pc' = "Loop"
    BY <1>7 DEF AfterStage1, Save
  <2> HIDE DEF counted, s
  <2> QED
    BY <1>0, <1>a, <2>0, <2>1, <2>2
<1>8. CASE Loop
  <2>1. /\ pc = "Loop" /\ pc' \in {"Repair", "Finish"}
        /\ UNCHANGED <<st, summary, forced, asked, crashes>>
    BY <1>8 DEF Loop, local
  <2> QED
    BY <1>0, <2>1
<1>9. CASE RepairNoSpec
  BY <1>9, <1>b DEF RepairNoSpec
<1>10. CASE RepairFresh
  <2>1. PICK outcome \in Outcomes :
          Save([st EXCEPT !.stage = "error_repair",
                          !.execution_status = [outcome |-> outcome, of |-> st.specification,
                                                repair_attempts |-> 0]],
               "RepairLoop")
    BY <1>10 DEF RepairFresh
  <2>2. st'.llm_queries = st.llm_queries
    BY <1>0, <2>1 DEF Save, StatesWith
  <2>3. /\ pc' = "SaveResults" /\ ret' = "RepairLoop" /\ pc = "Repair"
        /\ attempts' = 0 /\ UNCHANGED <<summary, forced, asked, crashes>>
    BY <1>10, <2>1 DEF Save, RepairFresh
  <2> QED
    BY <1>0, <2>2, <2>3
<1>11. CASE RepairResumed
  BY <1>11 DEF RepairResumed
<1>12. CASE RepairQuery
  <2>0. /\ pc = "RepairLoop" /\ asked' = asked + 1 /\ attempts' = attempts + 1
        /\ UNCHANGED <<summary, forced, crashes>>
    BY <1>12 DEF RepairQuery
  <2>1. CASE UNCHANGED <<pc, ret, st>>
    BY <1>0, <2>0, <2>1
  <2>2. ASSUME NEW spec \in Specs, NEW outcome \in Outcomes,
               Save([st EXCEPT !.specification = spec,
                               !.execution_status = [outcome |-> outcome, of |-> spec,
                                                     repair_attempts |-> attempts + 1]],
                    "RepairLoop")
        PROVE  Known'
    <3>1. st'.llm_queries = st.llm_queries
      BY <1>0, <2>2 DEF Save, StatesWith
    <3>2. pc' = "SaveResults" /\ ret' = "RepairLoop"
      BY <2>2 DEF Save
    <3> QED
      BY <1>0, <2>0, <3>1, <3>2
  <2> QED
    BY <1>12, <2>1, <2>2 DEF RepairQuery
<1>13. CASE RepairEnds
  <2>1. st'.llm_queries = st.llm_queries + attempts
    BY <1>0, <1>13 DEF RepairEnds, Save, StatesWith
  <2>2. /\ pc = "RepairLoop" /\ pc' = "SaveResults" /\ ret' = "AfterRepair"
        /\ UNCHANGED <<summary, forced, asked, crashes>>
    BY <1>13 DEF RepairEnds, Save
  <2> QED
    BY <1>0, <2>1, <2>2
<1>14. CASE AfterRepair
  <2>1. /\ pc = "AfterRepair" /\ UNCHANGED <<tries, summary, forced, asked, crashes>>
        /\ \/ pc' = "Finish" /\ st'.stage = "failed"
           \/ pc' = "Review" /\ UNCHANGED st
        /\ st'.llm_queries = st.llm_queries
        /\ tries = 0
    BY <1>0, <1>14 DEF AfterRepair, StatesWith, QInv, LocalCounts
  <2> QED
    BY <1>0, <2>1
<1>15. CASE ReviewSkipped
  <2>1. st'.llm_queries = st.llm_queries
    BY <1>0, <1>15 DEF ReviewSkipped, Save, StatesWith
  <2>2. /\ pc = "Review" /\ pc' = "SaveResults" /\ ret' = "AfterReview" /\ tries = 0
        /\ UNCHANGED <<summary, forced, asked, crashes>>
    BY <1>15 DEF ReviewSkipped, Save, QInv, LocalCounts
  <2> QED
    BY <1>0, <2>1, <2>2
<1>16. CASE ReviewAssert
  BY <1>16, <1>b DEF ReviewAssert
<1>17. CASE ReviewQuery
  <2>0. /\ pc = "Review" /\ asked' = asked + 1 /\ tries < ReviewAttempts
        /\ UNCHANGED <<summary, forced, crashes>>
    BY <1>17 DEF ReviewQuery, QInv, LocalCounts
  <2>1. CASE ReviewFails
    <3>1. st'.llm_queries = st.llm_queries + ReviewAttempts /\ st'.assert_review = "no"
      BY <1>0, <2>1 DEF ReviewFails, Save, StatesWith
    <3>2. pc' = "SaveResults" /\ ret' = "AfterReview"
      BY <2>1 DEF ReviewFails, Save
    <3> QED
      BY <1>0, <2>0, <3>1, <3>2
  <2>2. ASSUME NEW spec \in Specs, ReviewMismatch(spec) PROVE Known'
    <3>1. st'.llm_queries = st.llm_queries + tries + 1
      BY <1>0, <2>2 DEF ReviewMismatch, Save, StatesWith
    <3>2. pc' = "SaveResults" /\ ret' = "AfterReview"
      BY <2>2 DEF ReviewMismatch, Save
    <3> QED
      BY <1>0, <2>0, <3>1, <3>2
  <2>3. CASE ReviewBug
    <3>1. st'.llm_queries = st.llm_queries + tries + 1
      BY <1>0, <2>3 DEF ReviewBug, Save, StatesWith
    <3>2. pc' = "SaveResults" /\ ret' = "AfterReview"
      BY <2>3 DEF ReviewBug, Save
    <3> QED
      BY <1>0, <2>0, <3>1, <3>2
  <2>4. CASE AskAgain(ReviewAttempts)
    BY <1>0, <2>0, <2>4 DEF AskAgain
  <2> QED
    BY <1>17, <2>1, <2>2, <2>3, <2>4 DEF ReviewQuery
<1>18. CASE AfterReview
  <2>1. /\ pc = "AfterReview" /\ UNCHANGED <<summary, forced, asked, crashes>>
        /\ \/ pc' = "Finish" /\ st'.stage = "failed"
           \/ pc' = "Loop" /\ st.assert_review # "no" /\ UNCHANGED st
        /\ st'.llm_queries = st.llm_queries
        /\ st.stage # "error_repair"
    BY <1>0, <1>18 DEF AfterReview, StatesWith, KInv
  <2> QED
    BY <1>0, <2>1
<1>19. CASE Finish
  <2>1. /\ st'.llm_queries = st.llm_queries
        /\ st'.stage = "completed" => st.stage = "completed"
    BY <1>0, <1>19 DEF Finish, Save, StatesWith
  <2>2. /\ pc = "Finish" /\ pc' = "SaveResults" /\ ret' = "Exit"
        /\ UNCHANGED <<summary, forced, asked, crashes>>
    BY <1>19 DEF Finish, Save
  <2> QED
    BY <1>0, <2>1, <2>2
<1>20. CASE Return
  BY <1>20, <1>b DEF Return
<1>21. CASE SaveResults
  BY <1>21 DEF SaveResults, local
<1>22. CASE SaveSpec
  <2>1. /\ pc = "SaveSpec" /\ pc' = ret /\ ret \in Labels
        /\ UNCHANGED <<st, ret, attempts, tries, summary, forced, asked, crashes>>
    BY <1>22 DEF SaveSpec, local, TypeOK
  <2> QED
    BY <1>0, <2>1
<1>23. CASE Crash
  BY <1>23 DEF Crash, TypeOK
<1>24. CASE UNCHANGED vars
  BY <1>24 DEF vars
<1> QED
  BY <1>1, <1>2, <1>3, <1>4, <1>5, <1>6, <1>7, <1>8, <1>9, <1>10, <1>11, <1>12, <1>13,
     <1>14, <1>15, <1>16, <1>17, <1>18, <1>19, <1>20, <1>21, <1>22, <1>23, <1>24
  DEF Next, Run, Review

LEMMA QInvariance == Spec => []QInv
<1>1. Init => QInv
  <2> SUFFICES ASSUME Init PROVE QInv
    OBVIOUS
  <2>1. /\ Fresh.execution_status.repair_attempts = 0
        /\ Absent.execution_status.repair_attempts = 0
        /\ Absent.stage = "absent" /\ ~Partial(Absent)
    BY DEF Fresh, Absent, NoExecution, Partial, Readable
  <2>2. Debt \in Nat
    BY Debts DEF Init
  <2>3. 0 <= LargerOf(MaxLLMQueries - 1 + RoundCost, Stage1Attempts) + Debt
    BY <2>2, AttemptsAssumption, Costs
  <2>4. QueriesBounded
    BY <2>3 DEF QueriesBounded, Init, Debt
  <2> QED
    BY <2>1, <2>4, AttemptsAssumption
    DEF Init, QInv, LocalCounts, Saved, Rounds, InMemory, OnDisk, Towards
<1> QED
  BY <1>1, QInvStep, Typing, Invariance, KInvariance, DInvariance, PTL DEF Spec

(* However often runs are killed, resumed and forced, an analysis asks at  *)
(* most one round more than MAX_LLM_QUERIES, and one more for each crash.  *)
THEOREM Budget == Spec => []QueriesBounded
<1>1. QInv => QueriesBounded
  BY DEF QInv
<1> QED
  BY <1>1, QInvariance, PTL

(* When giving up stage 1 is charged with at least the attempts it had (in *)
(* both phases it is charged with ANALYSIS_ATTEMPTS, 5, for ANALYSIS_      *)
(* ATTEMPTS and GENERALIZED_ATTEMPTS, 3), no query is missing from the     *)
(* result of a forced run that nobody kills.                               *)
THEOREM Accounts ==
    ASSUME Stage1Attempts <= FailureCharge PROVE Spec => []QueriesAreCounted
<1>1. Init => Known
  BY DEF Init, Known
<1>2. TypeOK /\ IInv /\ KInv /\ DInv /\ QInv /\ Known /\ [Next]_vars => Known'
  BY KnownStep
<1>3. DInv /\ QInv /\ Known => QueriesAreCounted
  BY DEF DInv, FilesAgree, QInv, Known, Towards, QueriesAreCounted, NeverUnderReports
<1> QED
  BY <1>1, <1>2, <1>3, Typing, Invariance, KInvariance, DInvariance, QInvariance, PTL DEF Spec
=============================================================================
