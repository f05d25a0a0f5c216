---------------------------- MODULE AnalysisProofs ----------------------------
(***************************************************************************)
(* Theorems about Analysis, for any number of runs, and about Evaluation,  *)
(* which extends it with the logs of the runs and the scripts that read    *)
(* them.                                                                   *)
(***************************************************************************)
EXTENDS Evaluation, TLAPS

(***************************************************************************)
(* Type correctness, one step per action.                                  *)
(***************************************************************************)
LEMMA ContinueType ==
    ASSUME TypeOK, NEW v \in Verdicts, Continue(v)
    PROVE  /\ pc' \in {"down", "Open", "Work"} /\ phase' \in Phases
           /\ force' \in BOOLEAN /\ returned' \in BOOLEAN /\ everForced' \in BOOLEAN
           /\ run' = run
  BY DEF TypeOK, Continue, Return, Phases

LEMMA OriginType == TypeOK => Origin \in 0 .. run
  BY RunsAssumption DEF TypeOK, Origin, Phases

LEMMA TypeStep == TypeOK /\ [Next]_vars => TypeOK'
<1> SUFFICES ASSUME TypeOK, [Next]_vars PROVE TypeOK'
  OBVIOUS
<1>1. ASSUME NEW f \in BOOLEAN, Start(f) PROVE TypeOK'
  <2>1. run' \in 0 .. MaxRuns /\ 0 .. run \subseteq 0 .. run'
    BY <1>1, RunsAssumption DEF TypeOK, Start
  <2> QED
    BY <1>1, <2>1 DEF TypeOK, Start, Phases
<1>2. CASE Loaded
  BY <1>2, ContinueType DEF TypeOK, Loaded
<1>3. CASE Resumed
  BY <1>3 DEF TypeOK, Resumed
<1>4. CASE Begin
  BY <1>4, OriginType DEF TypeOK, Begin, Results
<1>5. CASE Decide
  BY <1>5, ContinueType DEF TypeOK, Decide, Results
<1>6. CASE Dies
  BY <1>6, OriginType DEF TypeOK, Dies, Results
<1>7. CASE UNCHANGED vars
  BY <1>7 DEF TypeOK, vars
<1> QED
  BY <1>1, <1>2, <1>3, <1>4, <1>5, <1>6, <1>7 DEF Next

(* Every variable keeps its shape, and no result goes back to a run that   *)
(* was not started.                                                        *)
THEOREM Typing == Spec => []TypeOK
<1>1. ASSUME Init PROVE TypeOK
  <2>1. result \in [Phases -> Results] /\ source \in [Phases -> 0 .. run]
    BY <1>1 DEF Init, Results
  <2>2. run \in 0 .. MaxRuns
    BY <1>1, RunsAssumption DEF Init
  <2> QED
    BY <1>1, <2>1, <2>2 DEF Init, TypeOK, Phases
<1> QED
  BY <1>1, TypeStep, PTL DEF Spec

(***************************************************************************)
(* The inductive invariant: where a run is tells what it has found and     *)
(* written so far.                                                         *)
(***************************************************************************)
InPhase(p) == pc # "down" /\ phase = p
AtWork(p) == pc = "Work" /\ phase = p

\* a phase that is under way has saved its first stage, and only phase 2 has a phase 1
Underway ==
    /\ pc = "Work" => result[phase] = "partial"
    /\ InPhase(2) => result[1] = "NORMAL"
    /\ pc # "down" => ~returned

\* what a forced run has replaced
Replaced ==
    /\ force /\ (AtWork(1) \/ InPhase(2)) => source[1] = run
    /\ force /\ AtWork(2) => source[2] = run

IInv ==
    /\ ~everForced => ~force
    /\ Underway
    /\ Replaced
    /\ PhasesAgree
    /\ ForcedRunGoesThrough

LEMMA IInvStep == TypeOK /\ IInv /\ [Next]_vars => IInv'
<1> SUFFICES ASSUME TypeOK, IInv, [Next]_vars PROVE IInv'
  OBVIOUS
<1> USE DEF InPhase, AtWork, Phases
<1>1. ASSUME NEW f \in BOOLEAN, Start(f) PROVE IInv'
  BY <1>1 DEF TypeOK, IInv, Underway, Replaced, PhasesAgree, ForcedRunGoesThrough, Start
<1>2. CASE Loaded
  BY <1>2 DEF TypeOK, IInv, Underway, Replaced, PhasesAgree, ForcedRunGoesThrough, Loaded,
     Continue, Return, Forced, Verdicts
<1>3. CASE Resumed
  BY <1>3 DEF TypeOK, IInv, Underway, Replaced, PhasesAgree, ForcedRunGoesThrough, Resumed, Forced
<1>4. CASE Begin
  BY <1>4 DEF TypeOK, IInv, Underway, Replaced, PhasesAgree, ForcedRunGoesThrough, Begin,
     Forced, Origin
<1>5. ASSUME NEW v \in Verdicts, pc = "Work", result' = [result EXCEPT ![phase] = v],
             Continue(v), UNCHANGED source
      PROVE  IInv'
  BY <1>5 DEF TypeOK, IInv, Underway, Replaced, PhasesAgree, ForcedRunGoesThrough, Continue,
     Return, Verdicts
<1>6. CASE Dies
  BY <1>6 DEF TypeOK, IInv, Underway, Replaced, PhasesAgree, ForcedRunGoesThrough, Dies,
     Forced, Origin
<1>7. CASE UNCHANGED vars
  BY <1>7 DEF vars, IInv, Underway, Replaced, PhasesAgree, ForcedRunGoesThrough
<1> QED
  BY <1>1, <1>2, <1>3, <1>4, <1>5, <1>6, <1>7 DEF Next, Decide

LEMMA Invariance == Spec => []IInv
<1>1. Init => IInv
  BY DEF Init, IInv, Underway, Replaced, PhasesAgree, ForcedRunGoesThrough, InPhase, AtWork,
     Phases
<1> QED
  BY <1>1, IInvStep, Typing, PTL DEF Spec

(* Over any number of runs that die, resume and load each other's results, *)
(* none of them forced, a result of phase 2 stands only beside the NORMAL  *)
(* result of phase 1 it was made from.                                     *)
THEOREM Agreement == Spec => []PhasesAgree
<1>1. IInv => PhasesAgree
  BY DEF IInv
<1> QED
  BY <1>1, Invariance, PTL

(* --force reaches phase 2: a forced run that found the pull request       *)
(* normal has replaced both results when it comes to its end.              *)
THEOREM ForceGoesThrough == Spec => []ForcedRunGoesThrough
<1>1. IInv => ForcedRunGoesThrough
  BY DEF IInv
<1> QED
  BY <1>1, Invariance, PTL

(***************************************************************************)
(* Each phase implements module Verdict: a run takes over, begins, decides *)
(* or tears what the directory of the phase says, and nothing else.        *)
(***************************************************************************)
\* what a step may do to the results of a phase, in the terms of Analysis
PromiseStep(p) ==
    \/ verdictOf(p)' = verdictOf(p)
    \/ verdictOf(p) = "none" /\ verdictOf(p)' \in Verdicts /\ force' = force
    \/ force /\ verdictOf(p)' = "none" /\ force' = force
    \/ verdictOf(p)' = "unreadable" /\ force' = force

LEMMA PromiseKept ==
    ASSUME TypeOK, IInv, [Next]_vars, NEW p \in Phases
    PROVE  PromiseStep(p)
<1> USE DEF PromiseStep, verdictOf
<1>1. ASSUME NEW f \in BOOLEAN, Start(f) PROVE PromiseStep(p)
  BY <1>1 DEF Start
<1>2. CASE Loaded
  BY <1>2 DEF Loaded
<1>3. CASE Resumed
  BY <1>3 DEF Resumed
<1>4. CASE Begin
  BY <1>4 DEF TypeOK, Begin, Forced
<1>5. ASSUME NEW v \in Verdicts, pc = "Work", result' = [result EXCEPT ![phase] = v],
             Continue(v), UNCHANGED source
      PROVE  PromiseStep(p)
  <2>1. force' = force
    BY <1>5 DEF Continue, Return
  <2>2. result[phase] = "partial"
    BY <1>5 DEF IInv, Underway
  <2> QED
    BY <1>5, <2>1, <2>2 DEF TypeOK, Verdicts
<1>6. CASE Dies
  BY <1>6 DEF TypeOK, Dies
<1>7. CASE UNCHANGED vars
  BY <1>7 DEF vars
<1> QED
  BY <1>1, <1>2, <1>3, <1>4, <1>5, <1>6, <1>7 DEF Next, Decide

(* Run after run, forced or not, each of the two cache directories keeps   *)
(* the promise of module Verdict, which SpecInfer makes for a single one.  *)
THEOREM Refinement == Spec => PhasesKeepPromise
<1>1. Init => P1!Init /\ P2!Init
  BY DEF Init, P1!Init, P2!Init, verdictOf, Phases
<1>2. ASSUME TypeOK, IInv, [Next]_vars
      PROVE  [P1!Next]_<<verdictOf(1), force>> /\ [P2!Next]_<<verdictOf(2), force>>
  <2>1. /\ PromiseStep(1) /\ PromiseStep(2)
        /\ force' \in BOOLEAN
    BY <1>2, PromiseKept, TypeStep DEF Phases, TypeOK
  <2>2. [P1!Next]_<<verdictOf(1), force>>
    BY <2>1 DEF PromiseStep, P1!Next, P1!Begin, P1!Decide, P1!Withdraw, P1!Tear, P1!Verdicts,
       Verdicts
  <2>3. [P2!Next]_<<verdictOf(2), force>>
    BY <2>1 DEF PromiseStep, P2!Next, P2!Begin, P2!Decide, P2!Withdraw, P2!Tear, P2!Verdicts,
       Verdicts
  <2> QED
    BY <2>2, <2>3
<1> QED
  BY <1>1, <1>2, Typing, Invariance, PTL DEF Spec, PhasesKeepPromise, P1!Spec, P2!Spec

-----------------------------------------------------------------------------
(***************************************************************************)
(* Evaluation.  Every step is one of Analysis, so that what was proved of  *)
(* the directories holds here too.  What the logs add is an account: in a  *)
(* run that started from nothing, the queries of its log are those saved,  *)
(* but for the summary that phase 1 has yet to add.                        *)
(***************************************************************************)
LogRecord == [usage : Nat, review : Conclusions \cup {"none"}, ill : BOOLEAN, stored : BOOLEAN]

LogTypes ==
    /\ logs \in Seq(LogRecord) /\ Len(logs) = run
    /\ pc # "down" => run > 0
    /\ saved \in [Phases -> Nat]
    /\ summary \in Nat

Fresh == force \/ run = 1

\* the directories of the very first run
FirstRun ==
    /\ run = 0 => result[1] = "absent" /\ result[2] = "absent"
    /\ run = 1 => /\ pc = "Open" => result[phase] = "absent"
                  /\ InPhase(1) => result[2] = "absent"

Account ==
    run > 0 /\ Fresh =>
        LET log == logs[run]
        IN /\ pc = "Open" /\ phase = 1 => log.usage = summary
           /\ AtWork(1) => log.usage = saved[1] + summary
           /\ pc = "Open" /\ phase = 2 => log.usage = saved[1]
           /\ AtWork(2) => log.usage = saved[1] + saved[2]
           /\ returned =>
                 /\ result[1] \in Verdicts
                 /\ result[1] = "BUG" => log.usage = saved[1] /\ log.review \in Conclusions
                 /\ result[1] = "NORMAL" =>
                       /\ result[2] \in Verdicts
                       /\ result[2] # "failed" => log.usage = saved[1] + saved[2]
                       /\ result[2] = "BUG" => log.review \in Conclusions

EInv == LogTypes /\ FirstRun /\ Account

(* A log record with other contents: the body of Log.                      *)
Logged(x, usage, review, ill, exits) ==
    [x EXCEPT !.usage = usage, !.review = review, !.ill = ill, !.stored = exits]

LEMMA LoggedType ==
    ASSUME NEW x \in LogRecord, NEW k \in Nat, NEW review \in Conclusions \cup {"none"},
           NEW ill \in BOOLEAN, NEW exits \in BOOLEAN
    PROVE  /\ Logged(x, k, review, ill, exits) \in LogRecord
           /\ Logged(x, k, review, ill, exits).usage = k
           /\ Logged(x, k, review, ill, exits).review = review
  BY DEF LogRecord, Logged

LEMMA LogStep ==
    ASSUME LogTypes, run > 0, NEW k \in Nat, NEW review \in Conclusions \cup {"none"},
           NEW ill \in BOOLEAN, NEW exits \in BOOLEAN, Log(k, review, ill, exits)
    PROVE  /\ logs' \in Seq(LogRecord) /\ Len(logs') = run
           /\ logs[run].usage \in Nat
           /\ logs'[run].usage = logs[run].usage + k
           /\ review # "none" => logs'[run].review \in Conclusions
<1> DEFINE x == logs[run]
           r == IF x.review = "none" THEN review ELSE x.review
           n == x.usage + k
           y == Logged(x, n, r, ill, exits)
<1>1. run \in DOMAIN logs /\ x \in LogRecord
  BY RunsAssumption DEF LogTypes
<1>2. logs' = [logs EXCEPT ![run] = y]
  BY DEF Log, Logged
<1> HIDE DEF x
<1>3. /\ x.usage \in Nat /\ n \in Nat /\ r \in Conclusions \cup {"none"}
      /\ review # "none" => r \in Conclusions
  BY <1>1 DEF LogRecord, Conclusions
<1> HIDE DEF n, r
<1>4. y \in LogRecord /\ y.usage = n /\ y.review = r
  BY <1>1, <1>3, LoggedType
<1> HIDE DEF y
<1>5. logs' \in Seq(LogRecord) /\ Len(logs') = Len(logs) /\ logs'[run] = y
  BY <1>1, <1>2, <1>4 DEF LogTypes
<1> QED
  BY <1>3, <1>4, <1>5 DEF LogTypes, n, x

LEMMA EvaluationSteps ==
    ASSUME ENext PROVE Next
  BY DEF ENext, EStart, ELoaded, EResumed, EBegin, EDecide, EDies, Next

LEMMA EvaluationImplements == ESpec => Spec
<1>1. EInit => Init
  BY DEF EInit
<1>2. [ENext]_<<vars, evars>> => [Next]_vars
  BY EvaluationSteps
<1> QED
  BY <1>1, <1>2, PTL DEF ESpec, Spec

LEMMA EInvStep ==
    ASSUME TypeOK, IInv, EInv, [ENext]_<<vars, evars>>
    PROVE  EInv'
<1> USE DEF InPhase, AtWork, Phases, Fresh
<1>a. run \in Nat /\ run = Len(logs) /\ phase \in {1, 2} /\ force \in BOOLEAN
  BY RunsAssumption DEF TypeOK, EInv, LogTypes
<1>b. (pc # "down" => ~returned) /\ (pc = "Work" => result[phase] = "partial")
      /\ (pc # "down" /\ phase = 2 => result[1] = "NORMAL")
  BY DEF IInv, Underway
<1>c. pc # "down" => run > 0
  BY DEF EInv, LogTypes
<1>d. /\ saved[1] \in Nat /\ saved[2] \in Nat /\ summary \in Nat
      /\ result \in [Phases -> Results] /\ saved \in [Phases -> Nat]
  BY DEF EInv, LogTypes, TypeOK
<1>1. ASSUME NEW f \in BOOLEAN, EStart(f) PROVE EInv'
  <2> DEFINE x == [usage |-> summary', review |-> "none", ill |-> FALSE, stored |-> FALSE]
  <2>1. summary' \in Nat /\ x \in LogRecord /\ x.usage = summary'
    BY <1>1 DEF EStart, LogRecord
  <2>2. logs' = Append(logs, x)
    BY <1>1 DEF EStart
  <2> HIDE DEF x
  <2>3. /\ logs' \in Seq(LogRecord) /\ Len(logs') = run + 1 /\ logs'[run + 1] = x
    BY <1>a, <2>1, <2>2 DEF EInv, LogTypes
  <2>4. /\ run' = run + 1 /\ pc' = "Open" /\ phase' = 1 /\ returned' = FALSE
        /\ UNCHANGED <<result, source, saved>> /\ pc = "down" /\ force' = f
    BY <1>1 DEF EStart, Start
  <2>5. LogTypes'
    BY <1>a, <1>d, <2>1, <2>3, <2>4 DEF LogTypes
  <2>6. FirstRun'
    <3>1. run = 0 => result[1] = "absent" /\ result[2] = "absent"
      BY DEF EInv, FirstRun
    <3> QED
      BY <1>a, <2>4, <3>1 DEF FirstRun
  <2>7. Account'
    BY <1>a, <2>1, <2>3, <2>4 DEF Account
  <2> QED
    BY <2>5, <2>6, <2>7 DEF EInv
<1>2. CASE ELoaded
  <2>1. /\ pc = "Open" /\ ~force /\ result[phase] \in Verdicts /\ Continue(result[phase])
        /\ UNCHANGED <<result, source, saved, summary>>
    BY <1>2 DEF ELoaded, Loaded, Forced
  <2>2. run # 1
    BY <2>1 DEF EInv, FirstRun, Verdicts
  <2>3. run' = run /\ force' = force /\ run' > 0
    BY <1>c, <2>1 DEF Continue, Return
  <2>4. logs' \in Seq(LogRecord) /\ Len(logs') = run
    BY <1>a, <1>c, <1>2, <2>1, LogStep DEF ELoaded, LogMore, EInv
  <2>5. LogTypes' /\ FirstRun' /\ Account'
    BY <1>d, <2>1, <2>2, <2>3, <2>4 DEF LogTypes, FirstRun, Account
  <2> QED
    BY <2>5 DEF EInv
<1>3. CASE EResumed
  <2>1. /\ pc = "Open" /\ ~force /\ result[phase] = "partial" /\ pc' = "Work"
        /\ UNCHANGED <<phase, force, result, source, run, returned, logs, saved>> /\ summary' = 0
    BY <1>3 DEF EResumed, Resumed, Forced
  <2>2. run # 1
    BY <2>1 DEF EInv, FirstRun
  <2>3. LogTypes' /\ FirstRun' /\ Account'
    BY <1>c, <1>d, <2>1, <2>2 DEF EInv, LogTypes, FirstRun, Account
  <2> QED
    BY <2>3 DEF EInv
<1>4. CASE EBegin
  <2>1. PICK k \in 1..MaxAsked : LogMore(k) /\ saved' = [saved EXCEPT ![phase] = k]
    BY <1>4 DEF EBegin
  <2>2. /\ pc = "Open" /\ pc' = "Work" /\ result' = [result EXCEPT ![phase] = "partial"]
        /\ UNCHANGED <<phase, force, run, returned, everForced, summary>>
    BY <1>4 DEF EBegin, Begin
  <2>3. k \in Nat
    BY AskedAssumption
  <2>4. /\ logs' \in Seq(LogRecord) /\ Len(logs') = run
        /\ logs'[run].usage = logs[run].usage + k /\ logs[run].usage \in Nat
    BY <1>c, <2>1, <2>2, <2>3, LogStep DEF LogMore, EInv
  <2>5. LogTypes'
    <3>1. saved' \in [Phases -> Nat] /\ summary' \in Nat
      BY <1>a, <1>d, <2>1, <2>2, <2>3 DEF LogTypes
    <3>2. run' = run /\ run > 0
      BY <1>c, <2>2
    <3> QED
      BY <1>a, <2>4, <3>1, <3>2 DEF LogTypes
  <2>6. FirstRun'
    <3>1. run' # 0 /\ (phase = 1 => result'[2] = result[2])
      BY <1>a, <1>c, <1>d, <2>2
    <3> QED
      BY <2>2, <3>1 DEF EInv, FirstRun
  <2>7. Account'
    BY <1>a, <1>b, <1>d, <2>1, <2>2, <2>3, <2>4 DEF EInv, Account
  <2> QED
    BY <2>5, <2>6, <2>7 DEF EInv
<1>5. CASE EDecide
  <2>1. PICK k \in 0..MaxAsked, charge \in 0..1, review \in Conclusions \cup {"none"}, ill \in BOOLEAN :
          /\ Asked(result'[phase], k, review)
          /\ result'[phase] = "failed" \/ (charge = 0 /\ ~ill)
          /\ Log(k, review, ill, pc' = "down")
          /\ saved' = [saved EXCEPT ![phase] = @ + Pending + k + charge]
    BY <1>5 DEF EDecide
  <2>2. PICK v \in Verdicts : result' = [result EXCEPT ![phase] = v] /\ Continue(v)
    BY <1>5 DEF EDecide, Decide
  <2>3. pc = "Work" /\ summary' = 0 /\ result[phase] = "partial"
    BY <1>5, <1>b DEF EDecide, Decide
  <2>4. /\ k \in Nat /\ charge \in Nat /\ (v # "failed" => charge = 0)
        /\ (v = "BUG" => review # "none") /\ result'[phase] = v
    BY <1>a, <1>d, <2>1, <2>2, AskedAssumption DEF Asked
  <2>5. (pc' = "down") \in BOOLEAN
    OBVIOUS
  <2>6. /\ logs' \in Seq(LogRecord) /\ Len(logs') = run
        /\ logs'[run].usage = logs[run].usage + k /\ logs[run].usage \in Nat
        /\ (v = "BUG" => logs'[run].review \in Conclusions)
    BY <1>c, <2>1, <2>3, <2>4, <2>5, LogStep DEF EInv
  <2>7. run' = run /\ force' = force
    BY <2>2 DEF Continue, Return
  <2>8. CASE phase = 1
    <3>1. /\ saved'[1] = saved[1] + summary + k + charge /\ saved'[2] = saved[2]
          /\ saved' \in [Phases -> Nat] /\ result'[1] = v /\ result'[2] = result[2]
      BY <1>d, <2>1, <2>2, <2>4, <2>8 DEF Pending
    <3>2. Fresh => logs'[run].usage = saved[1] + summary + k
      BY <1>c, <1>d, <2>3, <2>6, <2>8 DEF EInv, Account
    <3>3. run = 1 => result[2] = "absent"
      BY <2>3, <2>8 DEF EInv, FirstRun
    <3>4. CASE v = "NORMAL"
      <4>1. pc' = "Open" /\ phase' = 2 /\ returned' = returned
        BY <2>2, <2>8, <3>4 DEF Continue
      <4>2. LogTypes'
        BY <1>a, <1>c, <2>3, <2>6, <2>7, <3>1 DEF LogTypes
      <4>3. FirstRun'
        BY <1>c, <2>3, <2>7, <3>1, <3>3, <4>1 DEF FirstRun
      <4>4. Account'
        BY <1>b, <1>d, <2>3, <2>4, <2>6, <2>7, <3>1, <3>2, <3>4, <4>1 DEF Account
      <4> QED
        BY <4>2, <4>3, <4>4 DEF EInv
    <3>5. CASE v # "NORMAL"
      <4>1. pc' = "down"
        BY <2>2, <3>5 DEF Continue, Return
      <4>2. LogTypes'
        BY <1>a, <1>c, <2>3, <2>6, <2>7, <3>1, <4>1 DEF LogTypes
      <4>3. FirstRun'
        BY <1>c, <2>3, <2>7, <4>1 DEF FirstRun
      <4>4. Account'
        BY <1>d, <2>4, <2>6, <2>7, <3>1, <3>2, <3>5, <4>1 DEF Account, Verdicts
      <4> QED
        BY <4>2, <4>3, <4>4 DEF EInv
    <3> QED
      BY <3>4, <3>5
  <2>9. CASE phase = 2
    <3>1. /\ saved'[2] = saved[2] + k + charge /\ saved'[1] = saved[1]
          /\ saved' \in [Phases -> Nat] /\ result'[2] = v /\ result'[1] = "NORMAL"
      BY <1>b, <1>d, <2>1, <2>2, <2>3, <2>4, <2>9 DEF Pending
    <3>2. Fresh => logs'[run].usage = saved[1] + saved[2] + k
      BY <1>c, <1>d, <2>3, <2>6, <2>9 DEF EInv, Account
    <3>3. pc' = "down"
      BY <2>2, <2>9 DEF Continue, Return
    <3>4. LogTypes'
      BY <1>a, <1>c, <2>3, <2>6, <2>7, <3>1, <3>3 DEF LogTypes
    <3>5. FirstRun'
      BY <1>c, <2>3, <2>7, <3>3 DEF FirstRun
    <3>6. Account'
      BY <1>d, <2>4, <2>6, <2>7, <3>1, <3>2, <3>3 DEF Account, Verdicts
    <3> QED
      BY <3>4, <3>5, <3>6 DEF EInv
  <2> QED
    BY <1>a, <2>8, <2>9
<1>6. CASE EDies
  <2>1. PICK k \in 0..1, keep \in BOOLEAN, exits \in BOOLEAN :
          /\ Log(k, "none", FALSE, exits)
          /\ saved' = [saved EXCEPT ![phase] = IF keep /\ pc = "Work" THEN @ + k ELSE @]
    BY <1>6 DEF EDies
  <2>2. /\ pc # "down" /\ pc' = "down" /\ summary' = 0
        /\ UNCHANGED <<phase, force, run, returned, everForced>>
    BY <1>6 DEF EDies, Dies
  <2>3. k \in Nat /\ saved' \in [Phases -> Nat]
    BY <1>a, <1>d, <2>1
  <2>4. logs' \in Seq(LogRecord) /\ Len(logs') = run
    BY <1>c, <2>1, <2>2, <2>3, LogStep DEF EInv
  <2>5. LogTypes' /\ FirstRun' /\ Account'
    BY <1>a, <1>b, <1>c, <2>2, <2>3, <2>4 DEF LogTypes, FirstRun, Account
  <2> QED
    BY <2>5 DEF EInv
<1>7. CASE UNCHANGED <<vars, evars>>
  BY <1>7 DEF vars, evars, EInv, LogTypes, FirstRun, Account
<1> QED
  BY <1>1, <1>2, <1>3, <1>4, <1>5, <1>6, <1>7, Zenon DEF ENext

LEMMA Accounting == ESpec => [](TypeOK /\ IInv /\ EInv)
<1>1. EInit => EInv
  <2> SUFFICES ASSUME EInit PROVE EInv
    OBVIOUS
  <2>1. logs \in Seq(LogRecord) /\ Len(logs) = 0 /\ run = 0 /\ pc = "down"
    BY DEF EInit, Init
  <2>2. LogTypes
    BY <2>1 DEF EInit, LogTypes, Phases
  <2>3. FirstRun
    BY <2>1 DEF EInit, Init, FirstRun, Phases
  <2> QED
    BY <2>1, <2>2, <2>3 DEF EInv, Account
<1>2. ESpec => [](TypeOK /\ IInv)
  BY EvaluationImplements, Typing, Invariance, PTL
<1>3. TypeOK /\ IInv /\ EInv /\ [ENext]_<<vars, evars>> => EInv'
  BY EInvStep
<1> QED
  BY <1>1, <1>2, <1>3, PTL DEF ESpec

(* An analysis that started from nothing and came to its end without a     *)
(* killed process is evaluated by RQ1_3: both phases are found and their   *)
(* queries are those of the log; and what RQ1_3 counts as a warning RQ4    *)
(* finds reviewed.  For any number of runs and of queries.                 *)
THEOREM Scripts == ESpec => []ScriptsAgree
<1>1. TypeOK /\ IInv /\ EInv => ScriptsAgree
  <2> SUFFICES ASSUME TypeOK, IInv, EInv PROVE ScriptsAgree
    OBVIOUS
  <2>1. ASSUME NEW l \in DOMAIN logs, Evaluable(l)
        PROVE  /\ analyze(l) = "warning" => CountedByRQ4(l) \in Conclusions
               /\ ~logs[l].ill => analyze(l) \in {"warning", "normal", "failure"}
    <3>1. /\ l = run /\ run > 0 /\ Fresh /\ returned /\ parse_logs_Passes
      BY <2>1, RunsAssumption DEF Evaluable, EInv, LogTypes, Fresh, TypeOK
    <3>2. /\ result[1] \in Verdicts
          /\ result[1] = "BUG" => logs[l].usage = saved[1] /\ logs[l].review \in Conclusions
          /\ result[1] = "NORMAL" =>
                 /\ result[2] \in Verdicts
                 /\ result[2] # "failed" => logs[l].usage = saved[1] + saved[2]
                 /\ result[2] = "BUG" => logs[l].review \in Conclusions
      BY <3>1 DEF EInv, Account
    <3>3. CASE result[1] = "failed"
      <4>1. analyze(l) = Explained(l)
        BY <3>1, <3>3 DEF analyze
      <4> QED
        BY <4>1 DEF Explained
    <3>4. CASE result[1] = "BUG"
      <4>1. analyze(l) = "warning"
        BY <3>1, <3>2, <3>4 DEF analyze, Counted
      <4> QED
        BY <3>2, <3>4, <4>1 DEF CountedByRQ4
    <3>5. CASE result[1] = "NORMAL"
      <4>1. analyze(l) = AnalyzePhase2(l)
        BY <3>1, <3>5 DEF analyze
      <4>2. CASE result[2] = "failed"
        BY <4>1, <4>2 DEF AnalyzePhase2, Explained
      <4>3. CASE result[2] = "BUG"
        BY <3>2, <3>5, <4>1, <4>3 DEF AnalyzePhase2, Counted, CountedByRQ4
      <4>4. CASE result[2] = "NORMAL"
        BY <3>2, <3>5, <4>1, <4>4 DEF AnalyzePhase2, Counted
      <4> QED
        BY <3>2, <3>5, <4>2, <4>3, <4>4 DEF Verdicts
    <3> QED
      BY <3>2, <3>3, <3>4, <3>5 DEF Verdicts
  <2> QED
    BY <2>1 DEF ScriptsAgree, FreshAnalysisIsEvaluated, WarningsWereReviewed
<1> QED
  BY <1>1, Accounting, PTL
=============================================================================
