------------------------------ MODULE SpecInfer ------------------------------
(***************************************************************************)
(* One phase of the oracle inference of patchguru/SpecInfer.py: spec_infer *)
(* (phase 1) and spec_generalization (phase 2) run the same loop over      *)
(*                                                                         *)
(*    stage 1  ->  ( error_repair  ->  assertion_errors_review )*          *)
(*                                                                         *)
(* on a dictionary `states` that is saved to results.json (and its         *)
(* specification to specification.py) at the end of each step, so that a   *)
(* run that is killed can be resumed by a later one.  The process may die  *)
(* in any step: a kill, or an exception raised by an LLM query, by git or  *)
(* by docker, all of which unwind the program.                             *)
(***************************************************************************)
EXTENDS Integers

CONSTANTS
    Specs,              \* the specifications (test drivers) the LLM may answer
    NoSpec,             \* there is no key "specification" in states
    Stage1,             \* "intent_analysis" or "bug_trigger_generation"
    Stage1Attempts,     \* ANALYSIS_ATTEMPTS, or GENERALIZED_ATTEMPTS in phase 2
    FailureCharge,      \* llm_queries recorded when stage 1 fails
    RepairAttempts,     \* Config.REPAIR_ATTEMPTS
    ReviewAttempts,     \* Config.REVIEW_ATTEMPTS
    MaxLLMQueries,      \* Config.MAX_LLM_QUERIES
    SummaryChoices,     \* how many queries summarised the references
    ForceChoices,       \* with --force, without it, or both
    MaxCrashes          \* bound: how often a run dies

ASSUME SpecsAssumption == NoSpec \notin Specs
ASSUME Stage1Assumption == Stage1 \in {"intent_analysis", "bug_trigger_generation"}
ASSUME AttemptsAssumption ==
    /\ Stage1Attempts \in Nat \ {0}
    /\ FailureCharge \in Nat
    /\ RepairAttempts \in Nat
    /\ ReviewAttempts \in Nat \ {0}
    /\ MaxLLMQueries \in Nat
    /\ MaxCrashes \in Nat
ASSUME ChoicesAssumption == SummaryChoices \subseteq Nat /\ ForceChoices \subseteq BOOLEAN

VARIABLES
    pc,         \* where the run is; "down" when no process runs
    ret,        \* where save_results_to_cache returns to
    st,         \* the dictionary `states` of the running process
    attempts,   \* error_repair's local repair_attempts
    tries,      \* queries asked by the current analyze_intent or review_test_driver
    summary,    \* summary_queries of the running process
    forced,     \* the running (or last) process was given --force
    results,    \* results.json
    specFile,   \* specification.py
    fault,      \* the exception that ended the last run by itself, or "none"
    asked,      \* history: LLM queries really asked by the stages of this analysis
    crashes     \* history: how many runs died

local == <<ret, st, attempts, tries, summary>>
disk  == <<results, specFile>>
vars  == <<pc, ret, st, attempts, tries, summary, forced, results, specFile, fault, asked, crashes>>
-----------------------------------------------------------------------------
(***************************************************************************)
(* Data.  Of execution_status only the last entry is ever read; `of` adds  *)
(* to it which specification was executed.  The traces, the reasoning and  *)
(* the messages are written and never read, and are left out.              *)
(***************************************************************************)
Outcomes == {"ok",            \* exit code 0
             "post_assert",   \* AssertionError not put down to pre-PR code alone
             "pre_assert",    \* AssertionError of pre-PR code alone
             "error"}         \* any other failure, the timeout included

Executions == [outcome: Outcomes \cup {"none"}, of: Specs \cup {NoSpec}, repair_attempts: Nat]
NoExecution == [outcome |-> "none", of |-> NoSpec, repair_attempts |-> 0]

Stages == {"init", Stage1, "error_repair", "assert_review", "completed", "failed"}
Flags  == {"unset", "yes", "no"}

StatesWith(stages) ==
    [stage: stages,
     llm_queries: Int,
     specification: Specs \cup {NoSpec},
     execution_status: Executions,
     review_conclusion: {"unset", "MISMATCH", "BUG", "NORMAL"},
     stage1: Flags, error_repair: Flags, assert_review: Flags]

Fresh == [stage |-> "init", llm_queries |-> 0, specification |-> NoSpec,
          execution_status |-> NoExecution, review_conclusion |-> "unset",
          stage1 |-> "unset", error_repair |-> "unset", assert_review |-> "unset"]

Absent == [Fresh EXCEPT !.stage = "absent"]     \* results.json does not exist
Torn   == [Fresh EXCEPT !.stage = "torn"]       \* ... or is not JSON

NamedStages_NoReview == {"init", "intent_analysis", "error_repair"}

\* load_from_cache can name these stages in its message, and no other
NamedStages == {"init", "intent_analysis", "error_repair", "assert_review"}

Decided(s) == s.stage \in {"completed", "failed"}
Readable(f) == f.stage \notin {"absent", "torn"}

Init ==
    /\ pc = "down" /\ ret = "down"
    /\ st = Fresh
    /\ attempts = 0 /\ tries = 0 /\ summary = 0
    /\ forced = FALSE
    /\ results = Absent
    /\ specFile = "absent"
    /\ fault = "none"
    /\ asked = 0
    /\ crashes = 0
-----------------------------------------------------------------------------
(* The process ends, by an exception of kind f or by returning ("none").   *)
End(f) ==
    /\ pc' = "down" /\ ret' = "down"
    /\ st' = Fresh
    /\ attempts' = 0 /\ tries' = 0 /\ summary' = 0
    /\ fault' = f
    /\ UNCHANGED <<forced, asked, crashes>>

(* save_results_to_cache(states) is called and will return to label.       *)
Save(states, label) ==
    /\ st' = states
    /\ pc' = "SaveResults"
    /\ ret' = label

SaveResults ==
    /\ pc = "SaveResults"
    /\ results' = st
    /\ pc' = "SaveSpec"
    /\ UNCHANGED <<local, forced, specFile, fault, asked, crashes>>

SaveSpec ==
    /\ pc = "SaveSpec"
    /\ specFile' = st.specification
    /\ pc' = ret
    /\ UNCHANGED <<local, forced, results, fault, asked, crashes>>
-----------------------------------------------------------------------------
(* A run is started; the references have been summarised with n queries.   *)
StartFresh_IgnoresCache(force, n) ==
    /\ pc = "down"
    /\ pc' = "Stage1"
    /\ st' = Fresh
    /\ forced' = force
    /\ summary' = n
    /\ asked' = 0
    /\ fault' = "none"
    /\ UNCHANGED <<ret, attempts, tries, disk, crashes>>

StartFresh(force, n) ==
    /\ pc = "down"
    /\ force \/ results.stage = "absent"
    /\ pc' = "Stage1"
    /\ st' = Fresh
    /\ forced' = force
    /\ summary' = n
    /\ asked' = 0
    /\ fault' = "none"
    /\ UNCHANGED <<ret, attempts, tries, disk, crashes>>

(* ... and finds results.json; the summary is asked for all the same.      *)
StartCached(n) ==
    /\ pc = "down"
    /\ results.stage # "absent"
    /\ forced' = FALSE
    /\ summary' = n
    /\ fault' = "none"
    /\ pc' = "Load"
    /\ UNCHANGED <<ret, st, attempts, tries, disk, asked, crashes>>

LoadTorn ==
    /\ pc = "Load"
    /\ results.stage = "torn"
    /\ End("JSONDecodeError")
    /\ UNCHANGED disk

CompletedWellFormed(s) ==
    /\ s.review_conclusion # "unset"
    /\ \/ s.review_conclusion = "BUG" /\ s.execution_status # NoExecution
       \/ s.review_conclusion = "NORMAL"

LoadDecided ==
    /\ pc = "Load"
    /\ Decided(results)
    /\ IF results.stage = "completed" /\ ~CompletedWellFormed(results)
         THEN End("AssertionError")
         ELSE /\ st' = results
              /\ pc' = "Exit"
              /\ UNCHANGED <<ret, attempts, tries, summary, forced, fault, asked, crashes>>
    /\ UNCHANGED disk

LoadPartial ==
    /\ pc = "Load"
    /\ Readable(results) /\ ~Decided(results)
    /\ IF results.stage \notin NamedStages
         THEN End("KeyError")
         ELSE /\ st' = results
              /\ pc' = IF results.stage = "init" THEN "Stage1" ELSE "Loop"
              /\ UNCHANGED <<ret, attempts, tries, summary, forced, fault, asked, crashes>>
    /\ UNCHANGED disk
-----------------------------------------------------------------------------
(***************************************************************************)
(* Stage 1: analyze_intent or generalize_spec, one query per step.  An     *)
(* answer that cannot be parsed, or code that cannot be inserted, gives up *)
(* at once; an invalid one is asked for again, up to Stage1Attempts.       *)
(***************************************************************************)
Stage1Fails ==
    /\ Save([st EXCEPT !.stage = Stage1, !.stage1 = "no", !.llm_queries = FailureCharge],
            "AfterStage1")
    /\ tries' = 0

Stage1Succeeds(spec) ==
    /\ Save([st EXCEPT !.stage = Stage1, !.stage1 = "yes", !.specification = spec,
                       !.llm_queries = tries + 1],
            "AfterStage1")
    /\ tries' = 0

AskAgain(limit) ==
    /\ tries + 1 < limit
    /\ tries' = tries + 1
    /\ UNCHANGED <<pc, ret, st>>

Stage1Query ==
    /\ pc = "Stage1"
    /\ asked' = asked + 1
    /\ \/ Stage1Fails
       \/ \E spec \in Specs : Stage1Succeeds(spec)
       \/ AskAgain(Stage1Attempts)
    /\ UNCHANGED <<attempts, summary, forced, disk, fault, crashes>>

(* The queries of the reference summary are added after the save.          *)
AfterStage1 ==
    /\ pc = "AfterStage1"
    /\ LET counted == [st EXCEPT !.llm_queries = @ + summary]
       IN  IF st.stage1 = "no"
             THEN Save([counted EXCEPT !.stage = "failed"], "Exit")
             ELSE st' = counted /\ pc' = "Loop" /\ UNCHANGED ret
    /\ UNCHANGED <<attempts, tries, summary, forced, disk, fault, asked, crashes>>
-----------------------------------------------------------------------------
(* while stage not in [completed, failed] and llm_queries < MAX_LLM_QUERIES *)
Loop ==
    /\ pc = "Loop"
    /\ pc' = IF ~Decided(st) /\ st.llm_queries < MaxLLMQueries THEN "Repair" ELSE "Finish"
    /\ UNCHANGED <<local, forced, disk, fault, asked, crashes>>

(***************************************************************************)
(* error_repair: execute the specification, or take up the last execution  *)
(* of a repair that was interrupted, then repair it until it runs, until a *)
(* post-PR assertion fails, or until the attempts are used up.             *)
(***************************************************************************)
RepairNoSpec ==
    /\ pc = "Repair"
    /\ st.specification = NoSpec
    /\ End("KeyError")
    /\ UNCHANGED disk

RepairFresh ==
    /\ pc = "Repair"
    /\ st.specification # NoSpec
    /\ st.stage # "error_repair"
    /\ attempts' = 0
    /\ \E outcome \in Outcomes :
         Save([st EXCEPT !.stage = "error_repair",
                         !.execution_status = [outcome |-> outcome, of |-> st.specification,
                                               repair_attempts |-> 0]],
              "RepairLoop")
    /\ UNCHANGED <<tries, summary, forced, disk, fault, asked, crashes>>

RepairResumed ==
    /\ pc = "Repair"
    /\ st.specification # NoSpec
    /\ st.stage = "error_repair"
    /\ attempts' = st.execution_status.repair_attempts
    /\ st' = [st EXCEPT !.llm_queries = @ - st.execution_status.repair_attempts]
    /\ pc' = "RepairLoop"
    /\ UNCHANGED <<ret, tries, summary, forced, disk, fault, asked, crashes>>

\* the loop of error_repair goes round again
Repairable ==
    /\ st.execution_status.outcome \notin {"ok", "post_assert"}
    /\ attempts < RepairAttempts

\* it stops with exit code 0 or with an assertion to review
RepairStops_NotAtLast ==
    st.execution_status.outcome \in {"ok", "post_assert"} /\ attempts < RepairAttempts

RepairStops ==
    \/ st.execution_status.outcome = "ok"
    \/ st.execution_status.outcome = "post_assert" /\ attempts < RepairAttempts

RepairQuery ==
    /\ pc = "RepairLoop"
    /\ Repairable
    /\ asked' = asked + 1
    /\ attempts' = attempts + 1
    /\ \/ UNCHANGED <<pc, ret, st>>                    \* repair() returned None
       \/ \E spec \in Specs, outcome \in Outcomes :
            Save([st EXCEPT !.specification = spec,
                            !.execution_status = [outcome |-> outcome, of |-> spec,
                                                  repair_attempts |-> attempts + 1]],
                 "RepairLoop")
    /\ UNCHANGED <<tries, summary, forced, disk, fault, crashes>>

RepairEnds_NoSave ==
    /\ pc = "RepairLoop"
    /\ ~Repairable
    /\ st' = [st EXCEPT !.llm_queries = @ + attempts,
                        !.error_repair = IF RepairStops THEN "yes" ELSE "no"]
    /\ pc' = "AfterRepair"
    /\ UNCHANGED <<ret, attempts, tries, summary, forced, disk, fault, asked, crashes>>

RepairEnds ==
    /\ pc = "RepairLoop"
    /\ ~Repairable
    /\ Save([st EXCEPT !.llm_queries = @ + attempts,
                       !.error_repair = IF RepairStops THEN "yes" ELSE "no"],
            "AfterRepair")
    /\ UNCHANGED <<attempts, tries, summary, forced, disk, fault, asked, crashes>>

AfterRepair ==
    /\ pc = "AfterRepair"
    /\ IF st.error_repair = "no"
         THEN st' = [st EXCEPT !.stage = "failed"] /\ pc' = "Finish"
         ELSE pc' = "Review" /\ UNCHANGED st
    /\ UNCHANGED <<ret, attempts, tries, summary, forced, disk, fault, asked, crashes>>
-----------------------------------------------------------------------------
(***************************************************************************)
(* assertion_errors_review, on the last execution.                         *)
(***************************************************************************)
ReviewSkipped_NotCompleted ==
    /\ pc = "Review"
    /\ st.execution_status.outcome = "ok"
    /\ Save([st EXCEPT !.review_conclusion = "NORMAL", !.assert_review = "yes"], "AfterReview")
    /\ UNCHANGED <<attempts, tries, summary, forced, disk, fault, asked, crashes>>

ReviewSkipped ==
    /\ pc = "Review"
    /\ st.execution_status.outcome = "ok"
    /\ Save([st EXCEPT !.review_conclusion = "NORMAL", !.stage = "completed",
                       !.assert_review = "yes"],
            "AfterReview")
    /\ UNCHANGED <<attempts, tries, summary, forced, disk, fault, asked, crashes>>

(* assert "AssertionError" in error_message                                *)
ReviewAssert ==
    /\ pc = "Review"
    /\ st.execution_status.outcome = "error"
    /\ End("AssertionError")
    /\ UNCHANGED disk

ReviewFails ==
    /\ Save([st EXCEPT !.stage = "assert_review", !.assert_review = "no",
                       !.llm_queries = @ + ReviewAttempts],
            "AfterReview")
    /\ tries' = 0

ReviewMismatch_KeepsStage(spec) ==
    /\ Save([st EXCEPT !.assert_review = "yes",
                       !.review_conclusion = "MISMATCH", !.specification = spec,
                       !.llm_queries = @ + tries + 1],
            "AfterReview")
    /\ tries' = 0

ReviewMismatch_Free(spec) ==
    /\ Save([st EXCEPT !.stage = "assert_review", !.assert_review = "yes",
                       !.review_conclusion = "MISMATCH", !.specification = spec],
            "AfterReview")
    /\ tries' = 0

ReviewMismatch(spec) ==
    /\ Save([st EXCEPT !.stage = "assert_review", !.assert_review = "yes",
                       !.review_conclusion = "MISMATCH", !.specification = spec,
                       !.llm_queries = @ + tries + 1],
            "AfterReview")
    /\ tries' = 0

ReviewBug ==
    /\ Save([st EXCEPT !.stage = "completed", !.assert_review = "yes",
                       !.review_conclusion = "BUG", !.llm_queries = @ + tries + 1],
            "AfterReview")
    /\ tries' = 0

ReviewQuery ==
    /\ pc = "Review"
    /\ st.execution_status.outcome \in {"post_assert", "pre_assert"}
    /\ asked' = asked + 1
    /\ \/ ReviewFails
       \/ \E spec \in Specs : ReviewMismatch(spec)
       \/ ReviewBug
       \/ AskAgain(ReviewAttempts)
    /\ UNCHANGED <<attempts, summary, forced, disk, fault, crashes>>

Review == IF st.execution_status.outcome = "error" THEN ReviewAssert ELSE ReviewQuery

AfterReview ==
    /\ pc = "AfterReview"
    /\ IF st.assert_review = "no"
         THEN st' = [st EXCEPT !.stage = "failed"] /\ pc' = "Finish"
         ELSE pc' = "Loop" /\ UNCHANGED st
    /\ UNCHANGED <<ret, attempts, tries, summary, forced, disk, fault, asked, crashes>>
-----------------------------------------------------------------------------
(* Out of the loop.  What did not complete has failed.                     *)
Finish ==
    /\ pc = "Finish"
    /\ Save([st EXCEPT !.stage = IF @ = "completed" THEN @ ELSE "failed"], "Exit")
    /\ UNCHANGED <<attempts, tries, summary, forced, disk, fault, asked, crashes>>

Return ==
    /\ pc = "Exit"
    /\ End("none")
    /\ UNCHANGED disk

(* The process dies.  open(.., "w") has truncated the file being written.  *)
Crash ==
    /\ pc # "down"
    /\ crashes < MaxCrashes
    /\ crashes' = crashes + 1
    /\ pc' = "down" /\ ret' = "down"
    /\ st' = Fresh
    /\ attempts' = 0 /\ tries' = 0 /\ summary' = 0
    /\ results' \in IF pc = "SaveResults" THEN {results, Torn} ELSE {results}
    /\ specFile' \in IF pc = "SaveSpec" THEN {specFile, "torn"} ELSE {specFile}
    /\ UNCHANGED <<forced, fault, asked>>
-----------------------------------------------------------------------------
Run ==
    \/ LoadTorn \/ LoadDecided \/ LoadPartial
    \/ Stage1Query \/ AfterStage1
    \/ Loop
    \/ RepairNoSpec \/ RepairFresh \/ RepairResumed \/ RepairQuery \/ RepairEnds \/ AfterRepair
    \/ ReviewSkipped \/ Review \/ AfterReview
    \/ Finish \/ Return
    \/ SaveResults \/ SaveSpec

Next ==
    \/ \E force \in ForceChoices, n \in SummaryChoices : StartFresh(force, n)
    \/ FALSE \in ForceChoices /\ \E n \in SummaryChoices : StartCached(n)
    \/ Run
    \/ Crash

Spec == Init /\ [][Next]_vars

(* The program is sequential and each call it waits for comes back: an LLM *)
(* query answers or raises, an execution is cut off by `timeout`.          *)
FairSpec == Spec /\ WF_vars(Run)
-----------------------------------------------------------------------------
(***************************************************************************)
(* Properties.                                                             *)
(***************************************************************************)
Labels == {"down", "AfterStage1", "RepairLoop", "AfterRepair", "AfterReview", "Exit"}

(* Every variable keeps the shape the code gives it; what is saved is      *)
(* `states` as some step of the code left it, or no file, or a torn one.   *)
TypeOK ==
    /\ pc \in Labels \cup {"Load", "Stage1", "Loop", "Repair", "Review", "Finish",
                           "SaveResults", "SaveSpec"}
    /\ ret \in Labels
    /\ st \in StatesWith(Stages)
    /\ attempts \in Nat /\ tries \in Nat /\ summary \in Nat
    /\ forced \in BOOLEAN
    /\ results \in StatesWith(Stages \cup {"absent", "torn"})
    /\ specFile \in Specs \cup {NoSpec, "absent", "torn"}
    /\ fault \in {"none", "JSONDecodeError", "KeyError", "AssertionError"}
    /\ asked \in Nat /\ crashes \in Nat

(* A verdict is about the specification it is saved with: a completed      *)
(* results.json is NORMAL only if that very specification was executed     *)
(* last and exited with 0, and BUG only if it ended in a post-PR assertion *)
(* (error_repair and assertion_errors_review, however often resumed).      *)
Justified(s) ==
    s.stage = "completed" =>
        /\ s.specification # NoSpec
        /\ s.execution_status.of = s.specification
        /\ \/ s.review_conclusion = "NORMAL" /\ s.execution_status.outcome = "ok"
           \/ s.review_conclusion = "BUG" /\ s.execution_status.outcome = "post_assert"

VerdictMatchesExecution == Justified(results)

(* Beside a completed results.json, specification.py is never the text of  *)
(* an earlier specification, although the two files are written one after  *)
(* the other and a run may die in between: do_mutation takes that file.    *)
NoStaleSpecFile ==
    results.stage = "completed" => specFile \in {results.specification, "torn"}

(* A saved failure has a cause that is saved with it: a stage that gave    *)
(* up, or a budget that is used up; a crash alone never becomes a failure. *)
FailureHasReason ==
    results.stage = "failed" =>
        \/ "no" \in {results.stage1, results.error_repair, results.assert_review}
        \/ results.llm_queries >= MaxLLMQueries

(* The assertions of load_from_cache and of assertion_errors_review ("Only *)
(* AssertionError should reach the review stage.") hold, on every state    *)
(* that an interrupted run can leave behind.                               *)
AssertionsHold == fault # "AssertionError"

(* MAX_LLM_QUERIES is only looked at between the rounds of the loop, so an *)
(* analysis asks at most one round more than it; when it is resumed, each  *)
(* crash costs at most one more round of repairs or one more review, or    *)
(* the stage 1 of a forced run, after which older results are taken up.    *)
LargerOf(a, b) == IF a >= b THEN a ELSE b
RoundCost == RepairAttempts + ReviewAttempts
CrashCost == LargerOf(Stage1Attempts, LargerOf(RepairAttempts, ReviewAttempts))
QueriesBounded ==
    asked <= LargerOf(MaxLLMQueries - 1 + RoundCost, Stage1Attempts) + crashes * CrashCost

(* A forced run that nobody kills records at least the queries it asked,   *)
(* those of the reference summary included, and when it is completed       *)
(* exactly those, as the evaluation asserts (RQ1_3.py); a failure is       *)
(* charged more.                                                           *)
NeverUnderReports ==
    crashes = 0 /\ forced /\ pc = "Exit" =>
        /\ asked + summary <= results.llm_queries
        /\ results.stage = "completed" => asked + summary = results.llm_queries

(* Queries are bounded, also by what crashes may cost, and none that was   *)
(* asked is missing from the result (spec_infer, against RQ1_3.py).        *)
QueriesAreCounted == QueriesBounded /\ NeverUnderReports

(* As long as no run was killed, a specification that was executed and     *)
(* exited with 0 is not reported as a failed analysis.                     *)
OkIsNormal ==
    crashes = 0 /\ results.stage = "failed" =>
        ~ /\ results.specification # NoSpec
          /\ results.execution_status.of = results.specification
          /\ results.execution_status.outcome = "ok"

(* A saved failure is deserved: its cause is saved with it, and a          *)
(* specification that ran is no failure.                                   *)
FailureIsDeserved == FailureHasReason /\ OkIsNormal

(* Every run comes to an end, although no counter bounds the rounds of the *)
(* loop: every MISMATCH of a review costs a query, and as long as no run   *)
(* was killed each leaves a verdict or a failure behind.                   *)
RunDecides == pc # "down" ~> (crashes > 0 \/ (pc = "down" /\ Decided(results)))

(* Once stage 1 has been left, a run that is resumed never runs into a     *)
(* missing key, whichever step of whichever round it was killed in.        *)
ResumableAfterStage1 == fault = "KeyError" => results.stage = Stage1

(* What an interrupted run leaves behind can be taken up: no assertion of  *)
(* the program fails on it, and no key is missing once stage 1 has been    *)
(* left.                                                                   *)
ResumeIsSound == AssertionsHold /\ ResumableAfterStage1

(* load_from_cache's message: "Analysis is complete up to stage ...        *)
(* Continuing from stage ...": the run is continued.                       *)
ResumeContinues == fault # "KeyError"

(* What a reader of the cache directory sees (module Verdict).             *)
verdict ==
    CASE results.stage = "completed" -> results.review_conclusion
      [] results.stage = "failed"    -> "failed"
      [] results.stage = "torn"      -> "unreadable"
      [] OTHER                       -> "none"

V == INSTANCE Verdict
Promise == V!Spec
=============================================================================
