------------------------------ MODULE MutmutRun ------------------------------
(***************************************************************************)
(* The command `mutmut run` (src/mutmut/mutmut/__main__.py): it generates   *)
(* the mutants of every source file, learns which tests reach which         *)
(* function, checks the unmutated suite, then forks one test process per    *)
(* mutant, never more than max_children at a time, with a thread that ends  *)
(* the ones that take too long.  What the runs share is on disk: one .meta  *)
(* file per source file and mutmut-stats.json.  A person edits the test     *)
(* suite between runs, presses Ctrl-C, or the machine kills a process.      *)
(*                                                                         *)
(* Mutants are numbered in the order in which the files are walked.  Time   *)
(* is counted in units of 15 seconds, the factor of the wall-clock limit.   *)
(***************************************************************************)
EXTENDS Integers, Sequences, FiniteSets, FiniteSetsExt

CONSTANTS Mutants,      \* 1..n
          FileOf,       \* mutant -> source file
          FunctionOf,   \* mutant -> the mangled name of its function
          Tests,        \* the tests a person may write
          Covers,       \* function -> the tests whose run reaches it
          PhaseTimes,   \* test -> the times of its setup, call and teardown
          ExitCodes,    \* how a test process may end by itself
          Requests,     \* the sets of mutants a person asks for by name
          MaxChildren,
          MaxRuns, MaxEdits, MaxAge   \* bounds of the model

ASSUME MutmutAssumption ==
    /\ IsFiniteSet(Mutants) /\ Mutants = 1..Cardinality(Mutants)
    /\ Requests \subseteq SUBSET Mutants
    /\ MaxChildren \in Nat \ {0}
    /\ IsFiniteSet(Tests)
    /\ \A m \in Mutants : Covers[FunctionOf[m]] \subseteq Tests
    /\ \A t \in Tests : PhaseTimes[t] \in Seq(Nat) /\ Len(PhaseTimes[t]) = 3

Files == {FileOf[m] : m \in Mutants}
FunctionNames == {FunctionOf[m] : m \in Mutants}
MutantsOf(f) == {m \in Mutants : FileOf[m] = f}

(* None in exit_code_by_key, the code of a function no test reaches, and    *)
(* the codes of a process that a signal ended.                              *)
NotChecked == 1000
NoTests == 33

\* what a process can exit with is a byte, or the negated number of a signal
ASSUME ExitCodesAssumption == ExitCodes \subseteq (-64)..255

SIGXCPU == -24
SIGTERM == -15

(* The statuses by exit code.  -24 is listed twice: the last entry counts.  *)
StatusCodes ==
    [killed |-> {1, 3}, survived |-> {0}, no_tests |-> {5, NoTests},
     interrupted |-> {2}, not_checked |-> {NotChecked}, skipped |-> {34},
     suspicious |-> {35}, timeout |-> {36, SIGXCPU, 24, 152, 255},
     segfault |-> {-11}]

(* The statistics count statuses: a code that has none is a KeyError.       *)
Listed(codes) ==
    \A m \in DOMAIN codes : \E s \in DOMAIN StatusCodes : codes[m] \in StatusCodes[s]

VARIABLES
    meta,       \* disk: source file -> its .meta file
    statsFile,  \* disk: mutmut-stats.json
    suite,      \* disk: the tests that exist now
    removed,    \* history: the tests that were once removed
    pc,         \* where the main thread is
    last,       \* how the last run ended
    names,      \* the mutants the arguments match; all when none was given
    generated,  \* the files whose mutants were generated in this run
    stats,      \* tests_by_mangled_function_name and duration_by_test
    todo,       \* the mutants still to start, in order
    code,       \* exit_code_by_key of all files, in memory
    keyByPid,   \* the registered children: pid -> mutant
    proc,       \* the processes of this run: pid is the index
    stray,      \* whether the clean run of the tests has left a process behind
    reaped,     \* what os.wait has just returned; pid 0 when there is nothing
    aim,        \* the pids the timeout thread is about to signal
    ended,      \* history: mutant -> the exit code of its process
    runs, edits

disk == <<meta, statsFile, suite, removed>>
vars == <<meta, statsFile, suite, removed, pc, last, names, generated, stats, todo,
          code, keyByPid, proc, stray, reaped, aim, ended, runs, edits>>

NoChild == [pid |-> 0, exit |-> 0]
NoStats == [tests |-> [f \in FunctionNames |-> {}], timed |-> {}]
Fresh(ms) == [m \in ms |-> NotChecked]
Meta(codes) == [torn |-> FALSE, code |-> codes]
Torn == [torn |-> TRUE, code |-> << >>]
LoopPcs == {"loop", "register", "full", "record", "drain"}
Chosen == names.match

Init ==
    /\ meta = [f \in Files |-> Meta(Fresh({}))]
    /\ statsFile = [state |-> "absent", stats |-> NoStats]
    /\ suite \in SUBSET Tests \ {{}}
    /\ removed = {}
    /\ pc = "idle" /\ last = "none"
    /\ names = [given |-> FALSE, match |-> Mutants]
    /\ generated = {} /\ stats = NoStats /\ todo = << >> /\ code = Fresh(Mutants)
    /\ keyByPid = << >> /\ stray = FALSE /\ reaped = NoChild /\ aim = {}
    /\ ended = Fresh(Mutants) /\ proc = << >>
    /\ runs = 0 /\ edits = 0

memory == <<generated, stats, todo, code, keyByPid, stray, reaped, aim, ended>>
mainVars == <<pc, last, names, generated, stats, todo, code, keyByPid, reaped, ended, runs>>

(***************************************************************************)
(* Estimates.  Every test is reported once per phase and each report        *)
(* overwrites the last, so that the duration which is kept is that of its   *)
(* teardown; a surviving mutant needs the time of all phases.               *)
(***************************************************************************)
Duration(t) == PhaseTimes[t][3]
TestsFor(m) == stats.tests[FunctionOf[m]]
EstimatedTime(m) == MapThenSumSet(Duration, TestsFor(m))
TrueTime(m) ==
    MapThenSumSet(LAMBDA t : PhaseTimes[t][1] + PhaseTimes[t][2] + PhaseTimes[t][3],
                  TestsFor(m))
WallLimit(m) == EstimatedTime(m) + 1
CpuLimit(m) == 2 * (EstimatedTime(m) + 1)

(* The run is over and its memory gone; the children that are left go on    *)
(* without a parent.                                                        *)
End(how) ==
    /\ pc' = "idle" /\ last' = how
    /\ generated' = {} /\ stats' = NoStats /\ todo' = << >> /\ code' = Fresh(Mutants)
    /\ keyByPid' = << >> /\ stray' = FALSE /\ reaped' = NoChild /\ aim' = {}
    /\ ended' = Fresh(Mutants)
    /\ UNCHANGED <<names, runs, edits>>

(***************************************************************************)
(* The arguments, then the generation of the mutants of each file by a pool *)
(* of workers.  Generating a file forgets every result of the last run; a   *)
(* file whose mutants are not valid python stops the run with the old       *)
(* results still in its .meta.                                              *)
(***************************************************************************)
Start(given, match) ==
    /\ pc = "idle" /\ runs < MaxRuns
    /\ names' = [given |-> given, match |-> match]
    /\ pc' = "generate" /\ runs' = runs + 1 /\ last' = "none"
    /\ proc' = << >>
    /\ UNCHANGED <<disk, memory, edits>>

CreateMutantsForFile(f) ==
    /\ pc = "generate" /\ f \notin generated
    /\ meta' = [meta EXCEPT ![f] = Meta(Fresh(MutantsOf(f)))]
    /\ generated' = generated \cup {f}
    /\ pc' = IF generated' = Files THEN "stats" ELSE pc
    /\ UNCHANGED <<statsFile, suite, removed, last, names, stats, todo, code,
                   keyByPid, proc, stray, reaped, aim, ended, runs, edits>>

InvalidSyntax(f) ==
    /\ pc = "generate" /\ f \notin generated
    /\ End("failed")
    /\ UNCHANGED <<disk, proc>>

(***************************************************************************)
(* Which tests reach which function.  Without a readable file every test    *)
(* runs; with one, the tests that are gone are cleared out (in memory: the  *)
(* comparison that would save them compares lengths of names, which never   *)
(* differ) and only tests without a duration run.  A failing test ends the  *)
(* run before anything is saved.                                            *)
(***************************************************************************)
RunStats(old, tests) ==
    [tests |-> [f \in FunctionNames |-> old.tests[f] \cup (tests \cap Covers[f])],
     timed |-> old.timed \cup tests]

ClearOutObsolete(old) ==
    [old EXCEPT !.tests = [f \in FunctionNames |-> old.tests[f] \cap suite]]

NewTests(loaded) == suite \ loaded.timed

CollectStats ==
    /\ pc = "stats" /\ statsFile.state # "ok"
    /\ stats' = RunStats(NoStats, suite)
    /\ statsFile' = [state |-> "ok", stats |-> stats']
    /\ pc' = "clean"
    /\ UNCHANGED <<meta, suite, removed, last, names, generated, todo, code, keyByPid,
                   proc, stray, reaped, aim, ended, runs, edits>>

LoadStats ==
    /\ pc = "stats" /\ statsFile.state = "ok"
    /\ LET kept == ClearOutObsolete(statsFile.stats)
           new == NewTests(kept)
       IN IF new = {}
          THEN stats' = kept /\ UNCHANGED statsFile
          ELSE /\ stats' = RunStats(kept, new)
               /\ statsFile' = [state |-> "ok", stats |-> stats']
    /\ pc' = "clean"
    /\ UNCHANGED <<meta, suite, removed, last, names, generated, todo, code, keyByPid,
                   proc, stray, reaped, aim, ended, runs, edits>>

StatsFail ==
    /\ pc = "stats" /\ End("failed")
    /\ UNCHANGED <<disk, proc>>

(***************************************************************************)
(* The .meta files are loaded and filtered by the arguments, the clean and  *)
(* the forced-fail runs must go as expected (the clean one may leave a      *)
(* process behind), and the mutants are sorted by their estimate.           *)
(***************************************************************************)
LoadedCodes == [m \in Mutants |-> meta[FileOf[m]].code[m]]

Before(a, b) ==
    \/ EstimatedTime(a) < EstimatedTime(b)
    \/ EstimatedTime(a) = EstimatedTime(b) /\ a < b

\* the one arrangement of ms that sorted() can return
SortedByEstimate(ms) ==
    {s \in [1..Cardinality(ms) -> ms] :
        \A i, j \in 1..Cardinality(ms) : i < j => Before(s[i], s[j])}

CleanTests ==
    /\ pc = "clean" /\ Chosen # {}
    /\ code' = LoadedCodes
    /\ todo' \in SortedByEstimate(Chosen)
    /\ stray' \in BOOLEAN
    /\ pc' = "loop"
    /\ UNCHANGED <<disk, last, names, generated, stats, keyByPid, proc, reaped, aim,
                   ended, runs, edits>>

CleanTestsFail ==
    /\ pc = "clean" /\ End("failed")
    /\ UNCHANGED <<disk, proc>>

(***************************************************************************)
(* The loop over the mutants.  Its head prints the statistics, which raises *)
(* when a code has no status.                                               *)
(***************************************************************************)
Unreaped == {p \in DOMAIN proc : proc[p].st # "gone"}
Registered == {p \in DOMAIN proc : proc[p].known}

Saved(f, codes) ==
    [meta EXCEPT ![f] = Meta([m \in MutantsOf(f) |-> codes[m]])]

PrintStatsRaises ==
    /\ \/ pc = "loop" /\ todo # << >>
       \/ pc = "drain" /\ Unreaped = {}
    /\ ~Listed(code)
    /\ End("raised")
    /\ UNCHANGED <<disk, proc>>

(* `if not mutant_names and result is not None: continue`: the loop passes  *)
(* over the mutants it need not test, to the first that is left.            *)
ToTest(m) == names.given \/ code[m] = NotChecked
Pending == {i \in DOMAIN todo : ToTest(todo[i])}
Current == todo[Min(Pending)]
Rest == SubSeq(todo, Min(Pending) + 1, Len(todo))

NoTestsForMutant ==
    /\ pc = "loop" /\ Pending # {} /\ Listed(code) /\ TestsFor(Current) = {}
    /\ code' = [code EXCEPT ![Current] = NoTests]
    /\ meta' = Saved(FileOf[Current], code')
    /\ todo' = Rest
    /\ UNCHANGED <<statsFile, suite, removed, pc, last, names, generated, stats, keyByPid,
                   proc, stray, reaped, aim, ended, runs, edits>>

Fork ==
    /\ pc = "loop" /\ Pending # {} /\ Listed(code) /\ TestsFor(Current) # {}
    /\ proc' = Append(proc, [mutant |-> Current, st |-> "running", exit |-> 0,
                             age |-> 0, known |-> FALSE])
    /\ pc' = "register"
    /\ UNCHANGED <<disk, last, names, generated, stats, todo, code, keyByPid, stray, reaped,
                   aim, ended, runs, edits>>

Full == Cardinality(Unreaped) >= MaxChildren

(* key_by_pid and start_time_by_pid; then the loop waits when it is full.   *)
RegisterPid ==
    /\ pc = "register"
    /\ keyByPid' = [p \in DOMAIN keyByPid \cup {Len(proc)} |->
                        IF p = Len(proc) THEN Current ELSE keyByPid[p]]
    /\ proc' = [proc EXCEPT ![Len(proc)].known = TRUE]
    /\ todo' = Rest
    /\ pc' = IF Full THEN "full" ELSE "loop"
    /\ UNCHANGED <<disk, last, names, generated, stats, code, stray, reaped, aim, ended,
                   runs, edits>>

LoopEnds ==
    /\ pc = "loop" /\ Pending = {} /\ pc' = "drain"
    /\ UNCHANGED <<disk, last, names, generated, stats, todo, code, keyByPid, proc, stray,
                   reaped, aim, ended, runs, edits>>

(* os.wait blocks until some child has ended.                               *)
Wait(p) ==
    /\ pc \in {"full", "drain"} /\ p \in DOMAIN proc /\ proc[p].st = "zombie"
    /\ proc' = [proc EXCEPT ![p] = [@ EXCEPT !.st = "gone", !.exit = 0, !.age = 0]]
    /\ reaped' = [pid |-> p, exit |-> proc[p].exit]
    /\ pc' = "record"
    /\ UNCHANGED <<disk, last, names, generated, stats, todo, code, keyByPid, stray, aim,
                   ended, runs, edits>>

(* A child that is none of the mutants' is not in the table: KeyError.      *)
(* When it ends, if ever, is its own affair.                                *)
WaitReturnsStray ==
    /\ pc \in {"full", "drain"} /\ Unreaped # {} /\ stray
    /\ End("raised")
    /\ UNCHANGED <<disk, proc>>

ReapedMutant_Oldest == keyByPid[Min(DOMAIN keyByPid)]
ReapedMutant == keyByPid[reaped.pid]

RegisterResult ==
    /\ pc = "record"
    /\ code' = [code EXCEPT ![ReapedMutant] = reaped.exit]
    /\ meta' = Saved(FileOf[ReapedMutant], code')
    /\ keyByPid' = [p \in DOMAIN keyByPid \ {reaped.pid} |-> keyByPid[p]]
    /\ reaped' = NoChild
    /\ pc' = "loop"
    /\ UNCHANGED <<statsFile, suite, removed, last, names, generated, stats, todo, proc,
                   stray, aim, ended, runs, edits>>

Finish_WithoutDrain == pc = "drain" /\ Listed(code) /\ End("finished") /\ UNCHANGED <<disk, proc>>
Finish ==
    /\ pc = "drain" /\ Unreaped = {} /\ Listed(code)
    /\ End("finished")
    /\ UNCHANGED <<disk, proc>>

(***************************************************************************)
(* Ctrl-C: SIGTERM for every registered child.  A child that was reaped but *)
(* not yet recorded is still registered: os.kill raises ProcessLookupError  *)
(* out of the handler, with any part of the others signalled.               *)
(***************************************************************************)
Terminated_LastOnly(ps) ==
    [p \in DOMAIN proc |-> IF p \in ps /\ p = Len(proc) /\ proc[p].st = "running"
                           THEN [proc[p] EXCEPT !.st = "zombie", !.exit = SIGTERM]
                           ELSE proc[p]]
Terminated(ps) ==
    [p \in DOMAIN proc |-> IF p \in ps /\ proc[p].st = "running"
                           THEN [proc[p] EXCEPT !.st = "zombie", !.exit = SIGTERM]
                           ELSE proc[p]]

Interrupt ==
    /\ pc \in LoopPcs
    /\ LET lost == \E p \in DOMAIN keyByPid : proc[p].st = "gone"
       IN /\ \E ps \in IF lost THEN SUBSET DOMAIN keyByPid ELSE {DOMAIN keyByPid} :
                proc' = Terminated(ps)
          /\ End(IF lost \/ ~Listed(code) THEN "raised" ELSE "interrupted")
    /\ UNCHANGED disk

(* The process dies; a file it was writing is left truncated.               *)
Killed ==
    /\ pc # "idle" /\ End("killed")
    /\ \/ UNCHANGED <<meta, statsFile>>
       \/ /\ pc = "record"
          /\ meta' = [meta EXCEPT ![FileOf[ReapedMutant]] = Torn]
          /\ UNCHANGED statsFile
       \/ /\ pc = "stats"
          /\ statsFile' = [state |-> "torn", stats |-> NoStats]
          /\ UNCHANGED meta
    /\ UNCHANGED <<suite, removed, proc>>

(***************************************************************************)
(* The timeout thread.  It compares the running time of every child of a    *)
(* file with the limit of EACH mutant of that file it was given; the copy   *)
(* of the start times is taken under the lock and used after it.            *)
(***************************************************************************)
StartTimes_NotKept(f) == {}
StartTimes(f) == {p \in DOMAIN keyByPid : FileOf[keyByPid[p]] = f /\ proc[p].known}

Overdue(p, m) == proc[p].age > WallLimit(m)

TimeoutLook(m) ==
    /\ pc \in LoopPcs /\ m \in Chosen /\ aim = {}
    /\ aim' = {p \in StartTimes(FileOf[m]) : Overdue(p, m)}
    /\ aim' # {}
    /\ UNCHANGED <<disk, mainVars, proc, stray, edits>>

(* A pid that is gone by now is a ProcessLookupError, which is ignored.     *)
TimeoutKill(p) ==
    /\ pc \in LoopPcs /\ p \in aim
    /\ aim' = aim \ {p}
    /\ proc' = IF proc[p].st = "running"
               THEN [proc EXCEPT ![p].st = "zombie", ![p].exit = SIGXCPU]
               ELSE proc
    /\ ended' = IF proc[p].st = "running"
                THEN [ended EXCEPT ![proc[p].mutant] = SIGXCPU] ELSE ended
    /\ UNCHANGED <<disk, pc, last, names, generated, stats, todo, code, keyByPid, stray,
                   reaped, runs, edits>>

(***************************************************************************)
(* The children: the tests of the mutant pass only after the time they      *)
(* really take; they may fail, crash or be killed at any time, or hang      *)
(* until a limit.  RLIMIT_CPU ends a busy one.                              *)
(***************************************************************************)
Exit(p, c) ==
    /\ pc \in LoopPcs /\ proc[p].st = "running"
    /\ c = 0 => proc[p].age >= TrueTime(proc[p].mutant)
    /\ c = SIGXCPU => proc[p].age >= CpuLimit(proc[p].mutant)
    /\ proc' = [proc EXCEPT ![p].st = "zombie", ![p].exit = c]
    /\ ended' = [ended EXCEPT ![proc[p].mutant] = c]
    /\ UNCHANGED <<disk, pc, last, names, generated, stats, todo, code, keyByPid, stray,
                   reaped, aim, runs, edits>>

Tick ==
    /\ pc \in LoopPcs
    /\ \E p \in DOMAIN proc : proc[p].st = "running" /\ proc[p].age < MaxAge
    /\ proc' = [p \in DOMAIN proc |->
                    IF proc[p].st = "running" /\ proc[p].age < MaxAge
                    THEN [proc[p] EXCEPT !.age = @ + 1] ELSE proc[p]]
    /\ UNCHANGED <<disk, mainVars, stray, aim, edits>>

(* A person adds and removes tests between two runs.                        *)
EditTests(s) ==
    /\ pc = "idle" /\ edits < MaxEdits /\ s # suite /\ s # {}
    /\ suite' = s /\ removed' = removed \cup (suite \ s)
    /\ edits' = edits + 1
    /\ UNCHANGED <<meta, statsFile, mainVars, proc, stray, aim>>

Done ==
    pc = "idle" /\ runs = MaxRuns /\ edits = MaxEdits /\ UNCHANGED vars

Main ==
    \/ \E f \in Files : CreateMutantsForFile(f) \/ InvalidSyntax(f)
    \/ CollectStats \/ LoadStats \/ StatsFail
    \/ CleanTests \/ CleanTestsFail
    \/ PrintStatsRaises \/ NoTestsForMutant \/ Fork \/ RegisterPid \/ LoopEnds
    \/ \E p \in DOMAIN proc : Wait(p)
    \/ RegisterResult \/ Finish

TimeoutThread ==
    \/ \E m \in Mutants : TimeoutLook(m)
    \/ \E p \in aim : TimeoutKill(p)

Environment ==
    \/ Start(FALSE, Mutants)
    \/ \E match \in Requests : Start(TRUE, match)
    \/ Interrupt \/ Killed
    \/ \E p \in DOMAIN proc, c \in ExitCodes : Exit(p, c)
    \/ WaitReturnsStray
    \/ \E s \in SUBSET Tests : EditTests(s)
    \/ Done

Next == Main \/ TimeoutThread \/ Tick \/ Environment

(* The main thread and the timeout thread are scheduled, and time passes.   *)
(* Nothing is assumed of the test processes: they may hang.                 *)
Spec == Init /\ [][Next]_vars /\ WF_vars(Main) /\ WF_vars(TimeoutThread) /\ WF_vars(Tick)

-----------------------------------------------------------------------------
MetaOK(f) ==
    /\ meta[f].torn \in BOOLEAN
    /\ DOMAIN meta[f].code \subseteq MutantsOf(f)

TypeOK ==
    /\ \A f \in Files : MetaOK(f)
    /\ statsFile.state \in {"absent", "torn", "ok"}
    /\ suite \subseteq Tests /\ removed \subseteq Tests
    /\ pc \in {"idle", "generate", "stats", "clean"} \cup LoopPcs
    /\ DOMAIN code = Mutants
    /\ DOMAIN keyByPid \subseteq DOMAIN proc
    /\ reaped.pid \in {0} \cup DOMAIN proc
    /\ aim \subseteq DOMAIN proc

(* A recorded result is the end of a process that ran this very mutant in   *)
(* this run, or "no tests" for a mutant that was never started, whatever    *)
(* the order in which the children end and are reaped.                      *)
ResultsAttributed ==
    pc \in LoopPcs =>
        \A m \in Mutants : code[m] # NotChecked =>
            code[m] = IF ended[m] # NotChecked THEN ended[m] ELSE NoTests

(* What the loop knows is on disk whenever it is at its head: a crash there *)
(* loses no result.                                                         *)
SavedAtOnce ==
    pc \in LoopPcs => \A m \in Mutants : meta[FileOf[m]] = Meta([n \in MutantsOf(FileOf[m]) |-> code[n]])

(* No more than max_children test processes are alive or unreaped, and the  *)
(* main thread waits only when one of them can still answer.                *)
ChildrenBounded ==
    /\ Cardinality(Unreaped) <= MaxChildren
    /\ pc = "full" => Cardinality(Unreaped) = MaxChildren

(* A run that ends normally has a saved result for every mutant it was      *)
(* asked about and leaves no test process behind.                           *)
AllDecided ==
    last = "finished" =>
        /\ \A m \in Chosen : ~meta[FileOf[m]].torn => meta[FileOf[m]].code[m] # NotChecked
        /\ Unreaped = {}

(* While mutants are tested the statistics name only tests that exist, and  *)
(* name every test that reaches a function, unless that test was once       *)
(* removed: its duration is kept and makes it look known when it returns.   *)
StatsKnowTests ==
    pc \in LoopPcs => \A f \in FunctionNames :
        /\ stats.tests[f] \subseteq suite
        /\ (suite \cap Covers[f]) \ removed \subseteq stats.tests[f]

(* What a run finds out is not forgotten: results are on disk at once and  *)
(* complete at its end, and the statistics know every test there is.       *)
NothingIsForgotten ==
    /\ TypeOK
    /\ SavedAtOnce
    /\ AllDecided
    /\ StatsKnowTests

(* A mutant that is counted as a timeout has run longer than the wall-clock *)
(* limit of some mutant of its file (not always its own) or has used up its *)
(* own limit of processor time.                                             *)
TimeoutsExplained ==
    pc \in LoopPcs => \A p \in DOMAIN proc :
        proc[p].st = "zombie" /\ proc[p].exit = SIGXCPU =>
            \/ proc[p].age >= CpuLimit(proc[p].mutant)
            \/ \E m \in Chosen : /\ FileOf[m] = FileOf[proc[p].mutant]
                                 /\ proc[p].age > WallLimit(m)

(* Every result is explained by a process of its own mutant, a timeout by  *)
(* a limit that process has passed.                                        *)
ResultsExplained == ResultsAttributed /\ TimeoutsExplained

(* After Ctrl-C no registered child goes on running; the one that was       *)
(* forked and not yet registered may.                                       *)
InterruptStopsAll ==
    last = "interrupted" => \A p \in Registered : proc[p].st # "running"

(* The main thread keeps hold of its children: never more than it may      *)
(* have, none that goes on running after Ctrl-C.                           *)
ChildrenAreKept == ChildrenBounded /\ InterruptStopsAll

(* A run ends, also when test processes hang.                               *)
RunEnds == pc # "idle" ~> pc = "idle"

=============================================================================
