------------------------------ MODULE Evaluation ------------------------------
(***************************************************************************)
(* What the evaluation reads of analyses: the results of both phases, and  *)
(* the log directory that every process of the analysis makes for itself   *)
(* (utils/Tracker.py).  The scripts RQ1_3.py and RQ4.py compare the two.   *)
(* Every step of module Analysis is taken together with what it logs and   *)
(* how many queries it records.                                            *)
(***************************************************************************)
EXTENDS Analysis, Sequences

CONSTANT MaxAsked   \* bound: queries of a stage

ASSUME AskedAssumption == MaxAsked \in Nat \ {0}

VARIABLES
    logs,       \* of each run: events.jsonl and llm_usage.json, as far as they are read
    saved,      \* "llm_queries" in results.json of each phase
    summary     \* queries of the reference summary that phase 1 has yet to add

evars == <<logs, saved, summary>>
Conclusions == {"BUG", "MISMATCH"}

EInit ==
    /\ Init
    /\ logs = <<>>
    /\ saved = [p \in Phases |-> 0]
    /\ summary = 0

(***************************************************************************)
(* append_event during a step: k queries, and the conclusion of a first    *)
(* review; ill says that the last event without a number is that of a      *)
(* review without a valid answer.  The usage is stored when the            *)
(* interpreter exits.                                                      *)
(***************************************************************************)
Log(k, review, ill, exits) ==
    logs' = [logs EXCEPT ![run].usage = @ + k,
                         ![run].review = IF @ = "none" THEN review ELSE @,
                         ![run].ill = ill,
                         ![run].stored = exits]
LogMore(k) == Log(k, "none", FALSE, pc' = "down")

EStart(f) ==
    /\ Start(f)
    /\ summary' \in 0 .. 1
    /\ logs' = Append(logs, [usage |-> summary', review |-> "none", ill |-> FALSE, stored |-> FALSE])
    /\ UNCHANGED saved

ELoaded == Loaded /\ LogMore(0) /\ UNCHANGED <<saved, summary>>

\* the first stage is not run, and the summary added by nobody
EResumed == Resumed /\ summary' = 0 /\ UNCHANGED <<logs, saved>>

EBegin ==
    /\ Begin
    /\ \E k \in 1 .. MaxAsked :
          LogMore(k) /\ saved' = [saved EXCEPT ![phase] = k]
    /\ UNCHANGED summary

(* The rest of a phase asks k queries; a review that concludes is among    *)
(* them, and there is one before a BUG.  A failure is charged more.        *)
Asked(v, k, review) ==
    /\ review = "none" => v /= "BUG"
    /\ review /= "none" => k > 0
Pending == IF phase = 1 THEN summary ELSE 0

EDecide_NoSummary ==
    /\ Decide
    /\ \E k \in 0 .. MaxAsked, charge \in 0 .. 1, review \in Conclusions \cup {"none"}, ill \in BOOLEAN :
          /\ Asked(result'[phase], k, review)
          /\ result'[phase] = "failed" \/ (charge = 0 /\ ~ill)
          /\ Log(k, review, ill, pc' = "down")
          /\ saved' = [saved EXCEPT ![phase] = @ + k + charge]
    /\ summary' = 0

EDecide ==
    /\ Decide
    /\ \E k \in 0 .. MaxAsked, charge \in 0 .. 1, review \in Conclusions \cup {"none"}, ill \in BOOLEAN :
          /\ Asked(result'[phase], k, review)
          /\ result'[phase] = "failed" \/ (charge = 0 /\ ~ill)
          /\ Log(k, review, ill, pc' = "down")
          /\ saved' = [saved EXCEPT ![phase] = @ + Pending + k + charge]
    /\ summary' = 0

(* An exception still stores the usage, a signal does not; one that hits a *)
(* save leaves it torn.  Queries may have been asked, and saved.           *)
EDies ==
    /\ Dies
    /\ \E k \in 0 .. 1, keep \in BOOLEAN, exits \in BOOLEAN :
          /\ exits => result' = result
          /\ Log(k, "none", FALSE, exits)
          /\ saved' = [saved EXCEPT ![phase] = IF keep /\ pc = "Work" THEN @ + k ELSE @]
    /\ summary' = 0

ENext ==
    \/ \E f \in BOOLEAN : EStart(f)
    \/ ELoaded \/ EResumed \/ EBegin \/ EDecide
    \/ EDies

ESpec == EInit /\ [][ENext]_<<vars, evars>>

-----------------------------------------------------------------------------
(***************************************************************************)
(* RQ1_3.py.  The number of a pull request is looked up as an integer in a *)
(* table with strings for keys, so of several logs of it the one that is   *)
(* listed last stays: l.                                                   *)
(***************************************************************************)
parse_logs_Passes == \A r \in DOMAIN logs : logs[r].stored

\* how a failed phase is explained, from the log of the run in which it failed
Explained(l) == IF logs[l].ill THEN "exits" ELSE "failure"
\* the assertion that the queries of the log are those of the result
Counted(l, queries, kind) == IF logs[l].usage = queries THEN kind ELSE "exits"

AnalyzePhase2(l) ==
    CASE result[2] \in {"absent", "unreadable"} -> "exits"
      [] result[2] = "partial" -> "failure"
      [] result[2] = "failed" -> Explained(l)
      [] result[2] = "BUG" -> Counted(l, saved[1] + saved[2], "warning")
      [] result[2] = "NORMAL" -> Counted(l, saved[1] + saved[2], "normal")
analyze(l) ==
    CASE ~parse_logs_Passes \/ result[1] = "unreadable" -> "exits"
      [] OTHER ->
         CASE result[1] = "absent" -> "incomplete"
           [] result[1] = "partial" -> "failure"
           [] result[1] = "failed" -> Explained(l)
           [] result[1] = "BUG" -> Counted(l, saved[1], "warning")
           [] result[1] = "NORMAL" -> AnalyzePhase2(l)

\* RQ4.py counts the first conclusion of a review in the log
CountedByRQ4(l) == logs[l].review

-----------------------------------------------------------------------------
(* When an analysis that started from nothing has come to its end, and no  *)
(* process of the pull request was killed, the evaluation finds both       *)
(* phases and as many queries in its log as in the results; only a review  *)
(* without a valid answer makes it exit (the assertions of RQ1_3.py).      *)
Evaluable(l) == returned /\ (force \/ run = 1) /\ l = run /\ parse_logs_Passes
FreshAnalysisIsEvaluated ==
    \A l \in DOMAIN logs :
        Evaluable(l) /\ ~logs[l].ill => analyze(l) \in {"warning", "normal", "failure"}

(* Of such an analysis RQ4 counts a reviewed warning wherever RQ1 counts   *)
(* one, also when the bug was found in phase 2.                            *)
WarningsWereReviewed ==
    \A l \in DOMAIN logs :
        Evaluable(l) /\ analyze(l) = "warning" => CountedByRQ4(l) \in Conclusions

(* RQ1_3.py and RQ4.py agree with each other and with the analysis on what *)
(* it left in its directories and its logs.                                *)
ScriptsAgree == FreshAnalysisIsEvaluated /\ WarningsWereReviewed
=============================================================================
