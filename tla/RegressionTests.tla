---------------------------- MODULE RegressionTests ----------------------------
(***************************************************************************)
(* The regression tests of a pull request run on its mutants: test_pr of   *)
(* patchguru/experiments/RegressionTestsCoverage.py, for several pull      *)
(* requests whose commits are checked out in one clone.  The function the  *)
(* pull request changed is replaced in the working tree by an instrumented *)
(* version and then by each mutant, and the file is put back from a backup *)
(* beside it.  What was learnt is kept in files that later processes load. *)
(* A process may die anywhere; the next one cleans the clone before it     *)
(* starts, which removes the backups because no project ignores them.      *)
(*                                                                         *)
(* A file is the version of a commit with some body of the function; of a  *)
(* file of results only what it was obtained from is kept.  How the output *)
(* of the tests is read is module TestLogs.                                *)
(***************************************************************************)
EXTENDS TestLogs, FiniteSets

CONSTANTS
    PRs,        \* the pull requests, which stand for their merge commits too
    Files,
    File,       \* File[p]: the file that p changed
    Version,    \* Version[f][p]: the version of f in the commit of p
    Mutants,    \* the mutants of each pull request
    Longer,     \* the mutants that have other line numbers than the original
    Covered,    \* the pull requests whose function some test calls
    Loud,       \* those whose tests may print what confuses the parser
    Sessions,   \* what the tests may do when they are run
    MaxDeaths   \* bound: how often a process dies

ASSUME FilesAssumption == File \in [PRs -> Files] /\ DOMAIN Version = Files
ASSUME SubsetsAssumption == Longer \subseteq Mutants /\ Covered \subseteq PRs /\ Loud \subseteq PRs
ASSUME MutantsAssumption == IsFiniteSet(Mutants) /\ Mutants \cap {"original", "print", "spliced", "torn"} = {}
ASSUME DeathsAssumption == MaxDeaths \in Nat

Versions == UNION {{Version[f][p] : p \in PRs} : f \in Files}
Bodies == {"original", "print", "spliced", "torn"} \cup Mutants
Contents == [version: Versions, body: Bodies]
Verdicts == {"killed", "survived"}

\* what a file of results says; a file is a set of at most one of these
Outputs == [of: [Files -> Contents], whole: BOOLEAN]
Found == {"all", "part", "none"}
\* the sessions on the instrumented version: with -s, and to the end
FullSessions == {s \in Sessions : s.ends /\ \A i \in DOMAIN s.tests : ~s.tests[i].progress}
Covers(s) == \E i \in DOMAIN s.tests : Passed(s.tests[i]) /\ Calls(s.tests[i])
\* what may be found where some test calls the function, and where none does
FoundBy(s) == IF extract_output_logs_single(PyTest(s)) = {} THEN "none" ELSE "all"
FoundOf == [covered \in BOOLEAN |-> [loud \in BOOLEAN |-> {found \in Found : \E s \in FullSessions :
    Covers(s) = covered /\ (Confusing(s) => loud) /\ found = FoundBy(s)}]]
\* what the tests may say of a mutant
ShownBy(s) == IF check_output_logs_single(PyTest(s)) THEN "killed" ELSE "survived"
Shown == {verdict \in Verdicts : \E s \in Sessions : verdict = ShownBy(s)}
Summaries == [killed: Nat, survived: Nat, whole: BOOLEAN]

VARIABLES
    pc,         \* the step of test_pr, "idle" between two pull requests, "down"
    pr,         \* the pull request under test
    body,       \* what the function is replaced by: "print" or a mutant
    updated,    \* updated_code
    todo,       \* the mutants that are not tested yet
    killed, survived,   \* n_killed_mutants and n_survived_mutants
    commit,     \* what is checked out in the clone
    file,       \* the working tree
    backup,     \* the .backup of each file
    output,     \* full_test_output.txt
    relevant,   \* relevant_test_cases.txt
    results,    \* the _result_ files: the mutant, the verdict, what was tested
    summary,    \* mutation_summary.json
    deaths,     \* how often a process died
    cut         \* history: the kinds of saved file that a death has cut short

clone == <<commit, file, backup>>
saved == <<output, relevant, results, summary>>
local == <<pr, body, updated, todo, killed, survived>>
history == <<deaths, cut>>
vars == <<pc, local, clone, saved, history>>

Original(f, p) == [version |-> Version[f][p], body |-> "original"]
Tree(p) == [f \in Files |-> Original(f, p)]
TreeWith(p, new) == [Tree(p) EXCEPT ![File[p]].body = new]
Target == File[pr]

Init ==
    /\ pc = "idle"
    /\ pr \in PRs /\ commit = pr
    /\ body = "print" /\ todo = {} /\ killed = 0 /\ survived = 0
    /\ updated = Original(Target, pr)
    /\ file = Tree(commit)
    /\ backup = [f \in Files |-> {}]
    /\ output = [p \in PRs |-> {}]
    /\ relevant = [p \in PRs |-> {}]
    /\ results = [p \in PRs |-> {}]
    /\ summary = [p \in PRs |-> {}]
    /\ deaths = 0 /\ cut = {}
-----------------------------------------------------------------------------
(***************************************************************************)
(* A new process, after the end of the last one or its death: the clones   *)
(* are reset to what is checked out and what is not tracked is removed.    *)
(***************************************************************************)
NewProcess_KeepsUntracked ==
    /\ pc \in {"idle", "down"}
    /\ file' = Tree(commit)
    /\ pc' = "idle"
    /\ UNCHANGED <<local, commit, backup, saved, history>>

NewProcess_KeepsFiles ==
    /\ pc \in {"idle", "down"}
    /\ pc' = "idle"
    /\ UNCHANGED <<local, clone, saved, history>>

NewProcess ==
    /\ pc \in {"idle", "down"}
    /\ file' = Tree(commit)
    /\ backup' = [f \in Files |-> {}]
    /\ pc' = "idle"
    /\ UNCHANGED <<local, commit, saved, history>>

(***************************************************************************)
(* get_cloned_repo for the merge commit.  git refuses to check out over a  *)
(* modified file that differs between the commits; then everything is      *)
(* reset and what is not tracked removed.  Other modifications are carried *)
(* over.  Nothing happens when the commit is checked out already.          *)
(***************************************************************************)
Modified(f) == file[f] # Original(f, commit)
Refused(p) == \E f \in Files : Modified(f) /\ Version[f][commit] # Version[f][p]

GetClonedRepo(p) ==
    /\ commit' = p
    /\ IF Refused(p)
         THEN /\ file' = Tree(p)
              /\ backup' = [f \in Files |-> {}]
         ELSE /\ file' = [f \in Files |-> IF Modified(f) THEN file[f] ELSE Original(f, p)]
              /\ UNCHANGED backup

Start(p) ==
    /\ pc = "idle"
    /\ pr' = p
    /\ GetClonedRepo(p)
    /\ body' = "print"
    /\ pc' = IF relevant[p] = {} THEN "Splice" ELSE "Filtered"
    /\ UNCHANGED <<updated, todo, killed, survived, saved, history>>
-----------------------------------------------------------------------------
(***************************************************************************)
(* The function is replaced between the line numbers it has in the commit, *)
(* whatever stands there now.                                              *)
(***************************************************************************)
ReplaceCode(content, new) ==
    [content EXCEPT !.body =
        IF @ \in {"original"} \cup (Mutants \ Longer) THEN new ELSE "spliced"]

Splice ==
    /\ pc = "Splice"
    /\ updated' = ReplaceCode(file[Target], body)
    /\ backup' = [backup EXCEPT ![Target] = IF @ = {} THEN {file[Target]} ELSE @]
    /\ pc' = "Write"
    /\ UNCHANGED <<pr, body, todo, killed, survived, commit, file, saved, history>>

Write ==
    /\ pc = "Write"
    /\ file' = [file EXCEPT ![Target] = updated]
    /\ pc' = IF body = "print" THEN "RunAll" ELSE "RunTests"
    /\ UNCHANGED <<local, commit, backup, saved, history>>

Restore_KeepsBackup ==
    /\ pc = "Restore"
    /\ file' = [file EXCEPT ![Target] = CHOOSE c \in backup[Target] : TRUE]
    /\ pc' = IF body = "print" THEN "Filtered" ELSE "Loop"
    /\ UNCHANGED <<local, commit, backup, saved, history>>

Restore ==
    /\ pc = "Restore"
    /\ file' = [file EXCEPT ![Target] = CHOOSE c \in backup[Target] : TRUE]
    /\ backup' = [backup EXCEPT ![Target] = {}]
    /\ pc' = IF body = "print" THEN "Filtered" ELSE "Loop"
    /\ UNCHANGED <<local, commit, saved, history>>
-----------------------------------------------------------------------------
(***************************************************************************)
(* Which tests call the function: all tests are run on the instrumented    *)
(* version, or their saved output is read.                                 *)
(***************************************************************************)
RunAll ==
    /\ pc = "RunAll"
    /\ output' = [output EXCEPT ![pr] =
                    IF @ = {} THEN {[of |-> file, whole |-> TRUE]} ELSE @]
    /\ pc' = "SaveRelevant"
    /\ UNCHANGED <<local, clone, relevant, results, summary, history>>

SaveRelevant ==
    /\ pc = "SaveRelevant"
    /\ \E found \in Found :
         /\ [of |-> TreeWith(pr, "print"), whole |-> TRUE] \in output[pr] =>
                found \in FoundOf[(pr \in Covered)][(pr \in Loud)]
         /\ relevant' = [relevant EXCEPT ![pr] = {found}]
    /\ pc' = "Restore"
    /\ UNCHANGED <<local, clone, output, results, summary, history>>
-----------------------------------------------------------------------------
(***************************************************************************)
(* The mutants.                                                            *)
(***************************************************************************)
Filtered ==
    /\ pc = "Filtered"
    /\ IF summary[pr] # {}
         THEN pc' = "idle" /\ UNCHANGED summary
         ELSE IF relevant[pr] = {"none"}
         THEN /\ summary' = [summary EXCEPT ![pr] =
                   {[killed |-> 0, survived |-> Cardinality(Mutants), whole |-> TRUE]}]
              /\ pc' = "idle"
         ELSE pc' = "Loop" /\ UNCHANGED summary
    /\ todo' = Mutants /\ killed' = 0 /\ survived' = 0
    /\ UNCHANGED <<pr, body, updated, clone, output, relevant, results, history>>

NextMutant ==
    /\ pc = "Loop"
    /\ \E m \in todo :
         /\ body' = m
         /\ todo' = todo \ {m}
    /\ pc' = "Splice"
    /\ UNCHANGED <<pr, updated, killed, survived, clone, saved, history>>

(* The tests decide on what the file contains; the result is saved under   *)
(* the name of the mutant and its verdict.                                 *)
RunTests ==
    /\ pc = "RunTests"
    /\ \E v \in Shown :
         /\ killed' = IF v = "killed" THEN killed + 1 ELSE killed
         /\ survived' = IF v = "survived" THEN survived + 1 ELSE survived
         /\ results' = [results EXCEPT ![pr] =
              {r \in @ : <<r.mutant, r.verdict>> # <<body, v>>}
                  \cup {[mutant |-> body, verdict |-> v, of |-> file]}]
    /\ pc' = "Restore"
    /\ UNCHANGED <<pr, body, updated, todo, clone, output, relevant, summary, history>>

Summarise ==
    /\ pc = "Loop"
    /\ todo = {}
    /\ summary' = [summary EXCEPT ![pr] =
                     {[killed |-> killed, survived |-> survived, whole |-> TRUE]}]
    /\ pc' = "idle"
    /\ UNCHANGED <<local, clone, output, relevant, results, history>>
-----------------------------------------------------------------------------
(***************************************************************************)
(* The process dies, perhaps in the middle of the file it writes: the copy,*)
(* the source file, the output, the list of tests or the summary.          *)
(***************************************************************************)
CutShort(kind) == cut' = cut \cup {kind}

Die ==
    /\ pc \notin {"idle", "down"}
    /\ deaths < MaxDeaths
    /\ deaths' = deaths + 1
    /\ pc' = "down"
    /\ \/ UNCHANGED <<file, backup, saved, cut>>
       \/ /\ pc = "Splice" /\ backup[Target] = {}
          /\ backup' = [backup EXCEPT ![Target] = {[file[Target] EXCEPT !.body = "torn"]}]
          /\ UNCHANGED <<file, saved, cut>>
       \/ /\ pc = "Write"
          /\ file' = [file EXCEPT ![Target].body = "torn"]
          /\ UNCHANGED <<backup, saved, cut>>
       \/ /\ pc = "RunAll" /\ output[pr] = {}
          /\ output' = [output EXCEPT ![pr] = {[of |-> file, whole |-> FALSE]}]
          /\ CutShort("output")
          /\ UNCHANGED <<file, backup, relevant, results, summary>>
       \/ /\ pc = "SaveRelevant"
          /\ \E found \in {"part", "none"} : relevant' = [relevant EXCEPT ![pr] = {found}]
          /\ CutShort("relevant")
          /\ UNCHANGED <<file, backup, output, results, summary>>
       \/ /\ pc = "Loop" /\ todo = {}
          /\ summary' = [summary EXCEPT ![pr] =
                           {[killed |-> killed, survived |-> survived, whole |-> FALSE]}]
          /\ CutShort("summary")
          /\ UNCHANGED <<file, backup, output, relevant, results>>
    /\ UNCHANGED <<local, commit>>

Next ==
    \/ NewProcess
    \/ \E p \in PRs : Start(p)
    \/ Splice \/ Write \/ RunAll \/ SaveRelevant \/ Restore
    \/ Filtered \/ NextMutant \/ RunTests \/ Summarise
    \/ Die

Spec == Init /\ [][Next]_vars
-----------------------------------------------------------------------------
(***************************************************************************)
(* Properties.                                                             *)
(***************************************************************************)
TypeOK ==
    /\ pc \in {"down", "idle", "Splice", "Write", "RunAll", "SaveRelevant", "Restore", "Filtered",
              "Loop", "RunTests"}
    /\ pr \in PRs /\ commit \in PRs
    /\ body \in Bodies
    /\ updated \in Contents
    /\ todo \subseteq Mutants
    /\ killed \in 0 .. Cardinality(Mutants) /\ survived \in 0 .. Cardinality(Mutants)
    /\ file \in [Files -> Contents]
    /\ backup \in [Files -> SUBSET Contents]
    /\ \A p \in PRs :
         /\ output[p] \subseteq Outputs /\ relevant[p] \subseteq Found
         /\ results[p] \subseteq [mutant: Mutants, verdict: Verdicts, of: [Files -> Contents]]
         /\ summary[p] \subseteq Summaries
         /\ Cardinality(output[p]) < 2 /\ Cardinality(relevant[p]) < 2
         /\ Cardinality(summary[p]) < 2
    /\ deaths \in 0 .. MaxDeaths

(* Every saved result is that of the commit with this mutant and no other  *)
(* change anywhere in the clone, and every saved output that of the        *)
(* instrumented function: whatever was tested there before and wherever a  *)
(* process has died with a mutant in the file and the original beside it.  *)
ResultsAreOfMutants ==
    \A p \in PRs :
        /\ \A x \in results[p] : x.of = TreeWith(p, x.mutant)
        /\ \A x \in output[p] : x.of = TreeWith(p, "print")

(* "Restore original code": until a process dies, a file that differs from *)
(* what is checked out is the one under test, and its original is beside   *)
(* it; and a backup is of the commit that is checked out.                  *)
OriginalIsKept ==
    pc # "down" => \A f \in Files :
        /\ Modified(f) => f = Target /\ commit = pr /\ backup[f] # {}
        /\ backup[f] \subseteq {Original(f, commit)}

(* The saved list of tests says that no test calls the function exactly    *)
(* when that is so, as long as no death has cut short the list or the      *)
(* output it was read from, and nothing the tests print confuses the       *)
(* parser.                                                                 *)
ListIsRight ==
    cut \cap {"output", "relevant"} = {} =>
        \A p \in PRs \ Loud : relevant[p] # {} => (relevant[p] = {"none"} <=> p \notin Covered)

(* Every verdict that a summary counts is in a file, and every mutant is   *)
(* counted once, also when processes have died and the tests were repeated.*)
SummaryIsBacked ==
    \A p \in PRs : \A s \in summary[p] : s.whole /\ relevant[p] # {"none"} =>
        /\ s.killed + s.survived = Cardinality(Mutants)
        /\ \A v \in Verdicts : s[v] <= Cardinality({x \in results[p] : x.verdict = v})

(* A result is of the mutant it is saved under, and a summary counts each  *)
(* mutant once and only such results (test_pr).                            *)
ResultsAreBacked == TypeOK /\ ResultsAreOfMutants /\ SummaryIsBacked

Untouched == pc = "idle" /\ deaths = 0 /\ \A p \in PRs : output[p] = {}

(* The command for the mutants runs every test that called the function    *)
(* and passed, also when its id was cut at a space or has to be cut at its *)
(* bracket for keras, and no test function that has no such test; compared *)
(* with the tests themselves before anything runs, for every session in    *)
(* which no test prints a line that looks like one of pytest's or, calling *)
(* and passing, text that touches its outcome                              *)
(* (extract_output_logs_single and the repair of incomplete ids).          *)
RelevantTestsAreRun ==
    Untouched => \A s \in {s \in FullSessions : ~Confusing(s)}, keras \in BOOLEAN :
        LET command == fixed_relevant_test_cases(extract_output_logs_single(PyTest(s)), keras)
            Relevant == {i \in DOMAIN s.tests : Passed(s.tests[i]) /\ Calls(s.tests[i])}
            Id(i) == Head(s.tests[i].id)
        IN  /\ \A i \in Relevant : {Id(i), Base[Id(i)]} \cap command /= {}
            /\ command \cap Unclosed = {}
            /\ \A c \in command : \E i \in Relevant : c \in {Id(i), Base[Id(i)]}

(* In sessions in which no test prints a line that looks like one of       *)
(* pytest's, a mutant is killed only when a test failed, or printed FAILED *)
(* or ERROR and a bracket before anything else; and whenever one failed    *)
(* that prints nothing and has no space in its id, if pytest came to its   *)
(* end, wherever in the output it is and with or without progress          *)
(* (check_output_logs_single, which is all that is looked at: not the exit *)
(* code).                                                                  *)
FailuresAreSeen ==
    Untouched => \A s \in {s \in Sessions : \A i \in DOMAIN s.tests : ~Interrupts(s.tests[i])} :
        LET killed_by_log == check_output_logs_single(PyTest(s))
            Fails(i) == Failed(s.tests[i])
        IN  /\ killed_by_log => \E i \in DOMAIN s.tests : Fails(i) \/ PrintsFailure(s.tests[i])
            /\ s.ends /\ (\E i \in DOMAIN s.tests : Fails(i) /\ Plain(s.tests[i])) => killed_by_log

(* The two readings of the output of pytest find the tests of the function *)
(* and their failures where nothing that is printed confuses them          *)
(* (extract_output_logs_single, check_output_logs_single).                 *)
LogsAreRead == RelevantTestsAreRun /\ FailuresAreSeen
=============================================================================
