# PatchGuru in TLA+

PatchGuru infers, with a language model, a test driver ("specification", "oracle") for the
function a pull request changes, executes it on both sides of the pull request, repairs it,
reviews what it reports, and keeps everything in a cache directory so that an analysis that
died can be taken up by a later run. Around that core lie the data of pull requests, a pool of
clones, a client of language servers, experiments with mutants, and a copy of mutmut. The
modules here model the parts that keep state or that decide something from text and syntax:
what is on the disk after a run died anywhere, which commit lies in which clone, what the two
phases of an analysis say of each other, the concurrency of the language server client and of
mutmut, what becomes of an answer of the model, of a patch, of a mutated file. TLC checks them
on small instances; theorems about twelve of them (`SpecInfer`, `Analysis`, `Evaluation`,
`ClonePool`, `LspHandler`, `LspSession`, `RegressionTests`, `MutmutRun`, `PythonCodeUtil`,
`PullRequest`, `PullRequestDetails`, `MutationAnalysis`) are proved with TLAPS for every value of
the constants.

Paths below are relative to the repository; `SpecInfer.py` alone is `patchguru/SpecInfer.py`.
`PROJECT.json` maps every definition to the lines it models, and lists the runs, the mutants
that show that each property can fail, the hazards, the findings and the theorems.

    tlc -workers 2 -config SpecInfer.cfg MCSpecInfer     # a run
    tlapm ClonePoolProofs.tla                            # proofs

## 1. The system

| component | state it keeps | operations | hard about it | what makes it correct |
|---|---|---|---|---|
| Oracle inference, one phase (`SpecInfer.py`, `analysis/*.py`) | the dictionary `states`; `results.json`, `specification.py` | stage 1, `error_repair`, `assertion_errors_review`, save, load | death between and inside any two writes; resuming redoes a part of the book-keeping; an LLM budget with no other bound on the loop | a saved verdict is about the specification and the execution saved with it; a failure has a cause; the budget holds up to a known excess; an interrupted phase can be continued |
| Analysis, both phases (`SpecInfer.py: analyze`) | one cache directory for each phase | phase 1, phase 2, `--force` | two directories written by different runs | phase 2 belongs to the phase 1 beside it |
| Logs and their evaluation (`utils/Tracker.py`, `experiments/RQ1_3.py`, `RQ4.py`) | a log directory for each process, its usage | append events, store at exit; pair results with logs | logs of repeated, cached and killed runs | a fresh analysis is evaluated, and what it warned of was reviewed |
| Clone pool (`utils/ClonedRepoManager.py`, `analysis/PRRetriever.py`) | the commit recorded for each clone, the order of use, the state file; the working trees | `get_cloned_repo`, `_safe_checkout`, `get_repo` | record and clones are changed in two steps; git refuses; the record outlives the process | a clone that is handed out has its commit and keeps it while it is in use |
| Protocol handler (`multilspy/lsp_protocol_handler/server.py`) | registered requests, their condition variables, tasks | `send_request`, `run_forever`, handlers, `shutdown`, `stop` | coroutines, answers in any order, a server that dies or does not exit | no wakeup is lost, an answer reaches its request once, a shutdown ends |
| Sessions and documents (`multilspy/language_server.py`, `language_servers/*`, `utils/PythonLanguageServer.py`) | open files with counts, text buffers, readiness events, downloads | `start_server`, `open_file`, edits, requests | counts and flags that an exception leaves behind; several tasks, which open files while the server starts; buffers that outlive a server; two ways to count columns; half a download | what the server has open is what the buffers hold; a count is that of contexts; a start ends |
| Regression tests on mutants (`experiments/RegressionTestsCoverage.py`) | a source file in the clone, its backup, four kinds of result files | instrument, run, restore; replace, run, restore; read logs; summarise | a death leaves a mutant in the tree and files cut short; the output of tests is free text | a result is that of the mutant it is saved under; the original can be put back; a list of tests is that of the function |
| mutmut runner (`mutmut/mutmut/__main__.py`) | `.meta` files, statistics, test processes, start times | generate, fork, register, reap, time out, interrupt | processes, a timeout thread, Ctrl-C, deaths between saves | a result is of its mutant and has a cause; what is decided is saved; children end |
| Mutation generation (`mutmut/mutmut/file_mutation.py`, `node_mutation.py`, `trampoline_templates.py`, `utils/CodeMutation.py`) | the mutated file | visit, arrange, import, dispatch, apply | exclusions, nesting, names met twice | the original is unharmed, a mutant is one change at most, a call runs the body it should |
| Pull request data (`utils/PullRequest.py`, `utils/PythonCodeUtil.py`) | a pickle for each pull request | load, compute, save | line arithmetic over patches; torn or partial pickles | the data is that of the pull request; the function that changed is found |
| What the prompts are told (`SpecInfer.py: prepare_information`) | none | discussion, references, versions, signature | cuts at a number of characters, refused requests | nothing is shown twice or out of order, versions stay apart |
| Collector and mutation analysis (`experiments/PRCollector.py`, `MutationAnalysis.py`, `RQ2.py`) | list of pull requests, results, a file for each mutant | collect, `do_mutation`, combine | repeated and interrupted runs | counters, lists and files agree; lines that were added are tested |
| Prompts (`prompts/*.py`) | the text of a driver | `parse_answer`, `check_valid`, `insert_code` | strings split at headings that the code itself may contain | the versions that run are those of the pull request; nothing is cut; a checked driver calls both |
| Code execution (`execution/DockerExecutor.py`) | files in a container | copy, execute with `timeout` | a container shared by processes | the code executed is the code given |

How they interact: `analyze` asks `get_repo` for the project, which makes a clone pool and pulls
the clone of "main"; `PullRequest` asks the pool for the commits before and after the change
and reads files of both side by side; it may run a language server over them. `analyze` then
calls phase 1 and, when that says NORMAL, phase 2; each executes specifications in the container
that belongs to a clone. `RegressionTestsCoverage` and `MutationAnalysis` run later over what is
in the cache directories and use the same pools; the RQ scripts read those directories and the
logs. Only the language server client and the mutmut runner have concurrency within a process.
Everything else is one sequential process after another that share files, and the hard part is
the state one of them leaves.

## 2. Modules

| module | models | state and actions |
|---|---|---|
| `Verdict` | what a phase promises to a reader of its directory | `verdict`, `forced`; a verdict appears at once, is withdrawn only by a forced run, and a file may be torn |
| `SpecInfer` | one phase: `spec_infer`, and `spec_generalization` with `Stage1 = "bug_trigger_generation"` | `st` is `states`, `results` and `specFile` are the two files, `pc` the place in the program; each query, execution and write is a step, and `Crash` may come between any two, or inside a write (`Torn`) |
| `Analysis` | `analyze` over several runs | `result[p]`, `source[p]`: what the directory of phase p says and the run it goes back to |
| `Evaluation` | extends `Analysis` with the logs of its processes and the scripts that read them | every step of `Analysis` together with the events and queries it logs; exit stores the usage, a kill does not |
| `ClonePool` | `ClonedRepoManager`, `get_repo` | `recorded`/`stateFile` is the record in memory and on disk, `head` what git has checked out, `usage` is `usage_order`; checkout, record, write and hand-out are separate steps |
| `LspHandler` | a session of `LanguageServerHandler` | `call[r]`, `task[r]`, `lock`, `handlers`, `reply`: where every coroutine is; one action for what a coroutine does between two awaits |
| `LspSession` | a `LanguageServer` object of each of four languages | what is installed, the session, `server_started` and the events, the process (`process`), `open_file` contexts, buffers, the server's documents; several tasks of one event loop, `start_server` left by return or exception, the server may die |
| `TestLogs` | how the output of pytest is read | a line is a sequence of words, an output a sequence of lines; pure operators |
| `RegressionTests` | `test_pr` for several pull requests in one clone | `file`, `backup` are the working tree; the saved files carry what they were obtained from; `Die` in any step and inside any write |
| `MutmutRun` | the command `mutmut run`, twice | the files on disk, the main loop, the test processes and their ages, the timeout thread, Ctrl-C and kills |
| `NodeMutation`, `FileMutation` | mutation operators; visitor, arrangement of the file, import, calls, `mutmut apply`, `CodeMutation` | a syntax tree is nested records; the file is arranged statement by statement, then imported and called under every mutant |
| `PythonCodeUtil` | functions of ranges of lines, imports, names, signatures, renaming | pure operators |
| `PullRequest` | `PullRequest.__init__` over edits of files, and the pickle | load, compute, fail, save, with deaths |
| `PullRequestDetails` | what the prompts are told | pure operators over items with lengths and mentions |
| `MutationAnalysis` | collector, mutation analysis, RQ2's combination | one process at a time over shared pickles and result files, with deaths |
| `TestDriver` | the text of a driver through six prompts, to the split of `do_mutation` | a text is a sequence of headings, fences, tags and words; infer, execute, repair, review, generalise, mutate |

`MCSpecInfer`, `MCClonePool`, `MCRegressionTests`, `MCMutmutRun`, `MCFileMutation`,
`MCMutationAnalysis`, `MCTestDriver` and `MCLspSession` give the constants values that a
configuration file cannot express, and the symmetries. `Evaluation` and `LspHandler` need none.
`SpecInferProofs`, `AnalysisProofs` (also of `Evaluation`),
`ClonePoolProofs`, `LspHandlerProofs`, `LspSessionProofs`, `RegressionTestsProofs`,
`MutmutRunProofs` and `MutationAnalysisProofs` (also of the modules it extends) hold the theorems.

How the modules fit together: `SpecInfer` is shown to implement `Verdict` (property `Promise`,
proved).
`Analysis` describes its phases in those terms, and the two directories of `Analysis` are shown
to keep the same promise over all runs (`PhasesKeepPromise`, proved). `Evaluation` composes
`Analysis` with logs and scripts. `RegressionTests` takes over from `ClonePool` what
`_safe_checkout` does to a modified tree, and reads its logs with `TestLogs`. `LspSession` takes
a message for delivered when it is written, which `LspHandler` justifies. `MutationAnalysis` is
`PullRequest` used by two programs; the mutants it is given are of the kind `FileMutation`
generates, the drivers it executes of the kind `TestDriver` makes.

A property of a run is often a conjunction of named parts, each with its own comment in the
module; the parts are named below where they say different things.

### Abstractions

* `SpecInfer`: a specification is a model value. What the LLM answers, whether the answer can be
  parsed, and the outcome of an execution are nondeterministic. Of `execution_status` only the
  last entry is read by the code, and only it is kept, with the specification it was of (`of`,
  which the program does not store and the properties need). An output is reduced to `ok`,
  `post_assert`, `pre_assert`, `error`: the tests of the code on the text (lines 425-432, 516)
  distinguish no more. A write truncates first (`open(.., "w")`), so a death inside it leaves a
  torn file; a death of the machine that reorders writes is not modelled.
* `Analysis`: the stages of a phase are one step, `partial` stands for all their saves. `Dies`
  covers the exceptions that end a run as well as a kill. `Evaluation` keeps of a log which
  queries and review conclusions it has; averages, tables and plots are left out.
* `ClonePool`: what a checkout does to files is left out, `head` is the commit or branch. A
  checkout of what exists may fail at any time; the fallback over "main", "master", "dev" and
  the forced checkout are as in the code. A submodule update that fails after the checkout and
  a death of the process are faults, of which there are at most `MaxFaults`.
* `LspHandler`: a message is its kind and id. `lock` is the condition variable that
  `send_request` holds from before the request is sent until `wait()`. Headers and JSON are left
  out. The server answers every request at most once, and up to `MaxStray` times sends a
  response nobody waits for.
* `LspSession`: a language is what its constructor downloads and checks, what its session awaits
  and which message sets which event; command lines and configuration records are data no
  decision reads. `server_started` is set before there is a process and reset after it has gone,
  and it is all that `open_file`, edits and requests ask for: tasks do them in every step of a
  start and a shutdown. A notification reaches a server that is initialized and has not been asked
  to shut down; what others are sent is dropped, and a request then waits for ever. Of a
  text the line ends matter and the characters that are two units of UTF-16 (`Wide`): the code
  counts a column in characters, the server in units (`initialize_params.json:384` of Jedi). `apart`
  is history: the buffers that the server need not have alike, because they were opened when it
  could not take notice, or were there before it, or were edited behind a wide character.
* `RegressionTests`: there is one clone, and a pull request stands for its merge commit. A file
  is the version of a commit with a body of the function: the original, the instrumented
  version, a mutant, `spliced` (text inserted between line numbers that no longer fit) or
  `torn`. `NewProcess` is the cleaning of the clones when a manager is created; it removes the
  backups, as `git clean` without `-x` does unless the `.gitignore` of the project names them,
  which is assumed not to be so. `cut` (which saved files a death has truncated) is history.
  Pull requests in `Loud` have tests whose output confuses the parser; for them any list of tests
  may be saved.
* `TestLogs`: an outcome is a word of its own or touches what the test printed; a test may print
  what looks like a line of pytest's (a rule, an id, the start marker) or like an outcome.
* `MutmutRun`: mutants are numbered in the order of the walk; time is counted in units of the 15
  seconds of the wall-clock limit. A test process ends with any code of a small set, or never.
* `FileMutation`: the tree is the part of libcst's that the visitor looks at; the text of a
  string is its case, the number of times XX was put around it, and whether it has a prefix.
* `PullRequest`: a file is its functions with the lines they span, its imports and whether it
  parses; edits are more than six lines apart, so that each is a hunk.
* `TestDriver`: how often a stage asks is the subject of `SpecInfer`; here a stage that may ask
  again does so, or gives up.

## 3. What the runs check

Constants are small but chosen so that every branch is taken: every action of every module
fires in a passing run.

**spec_infer** (285,911 states): two specifications, two attempts in stage 1 and in a review,
three repairs, a budget of four queries, reference summaries of 1 or 3 queries, runs with and
without `--force`, and two deaths anywhere. Two deaths are the least that lets a resumed run die
again after it has changed the counters it inherited; the budget is smaller than one round of
repairs and a review, so that it is used up at every place. `VerdictMatchesExecution` and
`NoStaleSpecFile` tie the verdict to the execution and to the second file; `FailureIsDeserved`
says that a crash alone never becomes a failure, and that without one a specification that ran
is not reported as failed; `ResumeIsSound` that the program's own assertions are not hit on what
interrupted runs leave, and that only a directory saved by stage 1 may be impossible to resume;
`QueriesAreCounted` gives the excess over `MAX_LLM_QUERIES` that the code really allows (it looks
at the budget between rounds only): one round, and for each death
the longest series of questions a resumed run repeats (stage 1, repairs or a review), and that an uninterrupted run counts every query; `Promise` that the phase implements
`Verdict`; `RunDecides` (liveness) that a run which is not killed ends in a verdict.

**analysis** (2,710,627 states): three runs of both phases, forced or not, each of which may die
anywhere, with their logs: two to set up both directories, and one that disturbs them.
`PhasesAgree`, `ForcedRunGoesThrough`, `PhasesKeepPromise`; `ScriptsAgree`: an analysis
that started from nothing and came to its end without a killed process is evaluated by RQ1_3,
and RQ4 finds the review of what RQ1_3 counts as a warning.

**clone_pool** (72,326 states): three clones as in the repository's setup, three commits and
"main", a project whose main branch is the last fallback ("dev"), one fault. With four things to
ask for and three clones every request can evict. `RecentAreCached`, `OthersUndisturbed` (a
checkout never happens in a clone that one of the last requests still relies on),
`HandsOutCommit`, `CallReturns` (liveness).

**lsp_handler** (117,687 states): two concurrent requests, the shutdown request, a request of
the server, one stray response, a server that may die. Two requests are enough for answers to
overtake each other; the handler treats ids independently. `WakeupsAreKept`, `AnsweredOnce`, and
`NobodyWaitsForever` (liveness: every request returns while the server lives, a shutdown ends).

**lsp_session** (735,877 states): all four languages, two sessions, two tasks that open, edit,
ask about and close one file at any time `server_started` is set, insertions of a wide character
and of a line end, downloads, starts and requests that fail, the death of the server. Two tasks
are needed for a count above one, two sessions for buffers that outlive a server.
`BuffersAreRight`: an initialized server has open nothing that the object has not, and has what
the object has open in the same text and version, except for the buffers in `apart` (section 2);
a count is the number of contexts that have the file open or that an exception left; a position is
found again from its line and column. Without the exception TLC finds each of the three ways to
part, which section 6 lists. `StartReturns` (liveness): `start_server` yields or raises while its
server lives, unless a process that an exception left is still read. That a later session yields
before its own server is ready is not excluded, because the code does that (section 6).

**regression_tests** (109,565 states): three pull requests, two of which changed the same file
(and a third that shares its version with one of them), one of those two with confusing tests, two
mutants each, one of them with other line numbers than the original, one death, 662 outputs of pytest.
`ResultsAreBacked` and `OriginalIsKept` hold whatever dies where, because a new process cleans the
clones before it uses them and because a file is put back before the next commit is checked out;
without either, `git checkout` would carry a mutant over. `ListIsRight` has the conditions that no
death cut the list short and that the tests are not confusing. `LogsAreRead` says two things. Of
the 243 complete sessions with `-s`, in the 123 that are not confusing the command for the mutants
has every test that calls the function and passes, and no other; confusing is a test that prints a
line beginning with `===` or an id or having the start marker, or one that calls, passes and
prints text that touches its outcome. And in the 362 sessions without such lines a mutant is killed
only if a test failed, or printed FAILED or ERROR and a bracket before anything else; and it is
killed if a test failed that prints nothing and has no space in its id and pytest came to its end.
What the code does with the other sessions is in section 6.

**mutmut_run** (296,362 states): three mutants in two files, two tests, two processes at a time,
two runs with an edit of the tests between, exit codes 0, 1, -9 and SIGXCPU, ages up to 3.
`ResultsExplained` (a result is the end of a process that ran this mutant; one that timed out
has passed its own limit of processor time or the wall-clock limit of a mutant of its file),
`NothingIsForgotten` (what is reaped is saved at once, a finished run has decided every mutant it
was asked about, the statistics know every test that was never removed), `ChildrenAreKept` (never
more than `max_children`, and no registered one goes on after Ctrl-C), `RunEnds` (liveness,
although tests may hang).

**file_mutation** (11,596 states): four files with functions, methods, nested definitions,
statements of every kind, strings with prefixes and defaults of every kind, arranged into a file
and generated one by one. `MutatedFileIsSound` (nothing of the file is lost; a mutant is one change,
or none where it comes of a string with a prefix or of the function's own name; what runs at
definition is not mutated but for defaults taken to be simple),
`CallsAreDispatched` (a call runs the original or the mutant under test, with the right
receiver), `ApplyChangesItsFunction`.

**mutation_analysis** (89,619 states): three pull requests, one beyond the cutoff date, three
process starts, one death; 312 changes of a function, three items of discussion. `DataIsUsable`,
`ChangeIsRead` (every single change outside the margins section 6 names is found in its
function; a signature keeps the order of its parameters; of a discussion a marked beginning is
shown that fits, and every reference once; a version that calls itself does so under its own
name), `AddedLinesAreTested`, `ResultsAgree` (counters, lists, files and RQ2's combination).

**test_driver** (3,688 states): three pairs of functions (plain, with a fenced docstring, with a
heading in a comment), answers in and out of the format, some with versions of their own.
`DriverIsRight`: of an answer in the format nothing is cut, neither imports nor checks, with the
given imports before it after inference and generalisation, and without them after a repair or a
review, which leave them to the answer; the versions that are defined last are those of the pull
request, unless the checks of the answer define versions; and what passed `check_valid` speaks of
both. `EchoIsStable`: a driver that the model gives back unchanged stays what it was, but for the
given imports, which the generalisation puts before it once more. `MutantIsTested`: the driver of a
mutant has the old version, the mutant in place of the new one, and every check after them.

Two runs are expected to end in a violation, **resume_phase2** and **empty_imports** (section 6).

### Fairness

* `SpecInfer`: weak fairness of `Run`, all steps of the running program. The program is
  sequential; a query of the language model returns or raises, and executions are cut off by
  `timeout`. Nothing says that runs are started, or that a killed one is repeated.
* `ClonePool`: weak fairness of `Call`, the steps within a call, for the same reason. Faults,
  requests and new processes have none.
* `LspHandler`: weak fairness of each coroutine that is ready (the event loop of asyncio runs
  ready tasks in turn), of `Timeout` (a clock), and of the server's answer to each request it
  has received while it lives. Requests of a server that dies are excepted, because then the
  code does not return (section 6).
* `LspSession`: weak fairness of the steps of `start_server`, and of each announcement a living
  server owes. Nothing is assumed of the callers.
* `MutmutRun`: weak fairness of the main process, of the timeout thread and of the clock. Nothing
  is assumed of test processes.

`Evaluation`, `RegressionTests`, `FileMutation`, `MutationAnalysis` and `TestDriver` assume none.

`CHECK_DEADLOCK FALSE` is given where the system may stop: after the bounded runs of `Analysis`
and `MutationAnalysis`, after a session of `LspHandler` or `LspSession`, after the file or the
driver of `FileMutation` and `TestDriver` has been dealt with. In `SpecInfer`, `ClonePool`,
`RegressionTests` and `MutmutRun` something can always be done.

## 4. What is proved

For all values of the constants that satisfy the named assumptions (`ASSUME`, evaluated by TLC
in the runs):

* `SpecInferProofs`: `Typing`, `Verdicts` (`VerdictMatchesExecution`), `Resumption`
  (`ResumeIsSound`). The first property speaks of a completed `results.json` only and is not
  inductive. The invariant `IInv` says it of the dictionary in memory too (`Consistent`), adds
  that in stage "error_repair" the last execution is one of the current specification (this is
  what lets a later run take up an interrupted repair), and says for each place in the program,
  also while a save on the way to it is going on (`Towards`), which stage and outcome it finds.
  A lemma about `Save` then serves every action that saves. `Resumption` needs `KInv` on top: the
  specification is kept from the first save on, and a key can be missing only where stage 1 made
  the last save.
* `SpecInferProofs` goes on to what a reader of the directory relies on. `Files`
  (`NoStaleSpecFile`), `Failures` (`FailureIsDeserved`) and `PromiseIsKept` (`Promise`, the
  refinement of `Verdict`) rest on `DInv`: the two files of a save are written one after the
  other, and a verdict is safe because it is saved only for a specification the second file
  already holds; a failure is saved with its cause; a run that nobody kills ends decided; a
  forced run withdraws the old verdict with its first save. `Budget` (`QueriesBounded`) and
  `Accounts` (`QueriesAreCounted`) count. `QInv` gives for each place how far the number asked
  is ahead of the one in memory and of the one on the disk, with a debt of `CrashCost` for each
  death. The attempt to prove it showed that a debt of one batch of repairs or one review, which
  the instance does not refute, is too small where stage 1 may ask more often than they do (TLC
  finds the counterexample with ten attempts); `CrashCost` is the largest of the three.
  `Accounts` has the hypothesis that giving up stage 1 is charged with at least the attempts it
  had, as in the code (`SpecInfer.py` charges 5, stage 1 has 5 attempts, or 3 in phase 2).
* `AnalysisProofs`: `Typing`, `Agreement` (`PhasesAgree`), `ForceGoesThrough`
  (`ForcedRunGoesThrough`) and `Refinement` (`PhasesKeepPromise`). The invariant adds what a
  run that is under way has found and written so far: a phase at work has a partial result,
  phase 2 is entered only beside NORMAL, and what a forced run has replaced by the time it is
  at work in each phase. `Scripts` (`ScriptsAgree`) is about `Evaluation`, which is first shown to
  implement `Analysis` (`EvaluationImplements`), so that what was proved of the directories holds
  of it too. `Account` then says for each place in a run that started from nothing how the
  queries of its log are divided between what is saved and the summary phase 1 has yet to add.
* `ClonePoolProofs`: `Typing`, `Unambiguity` (`OneClonePerCommit`), `Caching`
  (`RecentAreCached`), `Undisturbed` (`OthersUndisturbed`) and `Delivery` (`HandsOutCommit`),
  for any number of clones and commits. The core is `Cached`: the i-th of the last commits asked
  for lies in the i-th of the last clones used. It holds because `MovedToEnd` (a clone in the
  order of use) and `MovedToFront` (a commit in the history) move the same distance; the lemmas
  `HitCached` and `MissCached` show that for the two ways of a call. That the order stays an
  order of all clones (`MovedInjective`, `MovedComplete`) and that the record names no commit
  twice are needed on the way. `Delivery` has an invariant of its own (`TrueRecord`): without a
  fault, what the record says of a clone is checked out there, except between the checkout and
  the update of the record.
* `LspHandlerProofs`: `Wakeups` (`WakeupsAreKept`) and `Outcomes` (`AnsweredOnce`), for any set of
  concurrent requests. The invariant says that a request's lock is held exactly while it is being
  sent (so that its response, whose task needs the lock, cannot come between the send and the
  wait), and that a request is registered only from its call to its first answer (so that a
  second response with its id finds nobody).
* `LspSessionProofs`: `Buffers` (`BuffersAreRight`), for any number of tasks and sessions and all
  texts. The first lemmas are about texts: an index has one line start before it (`LineStartOf`);
  its line and column lie inside the text for the server too, which finds the same index unless a
  wide character lies before it in its line (`ServerFindsIndex`, whose hypothesis is what puts a
  buffer into `apart`); and the position returned after an insertion is that of the end of what was
  inserted (`PositionAfterInsertion`, by following each line end through the splice). The
  invariant counts: a buffer's `ref` is the number of tasks inside a context of the file plus the
  contexts that exceptions left, so that the last one to leave is the one that closes the document;
  and a process that is not initialized has no documents and no buffer it will be compared with
  (`Mirrored`).
* `RegressionTestsProofs`: `Typing`, `Restoration` (`OriginalIsKept`), `Backing`
  (`ResultsAreBacked`) and `Listing` (`ListIsRight`), for any number of pull requests, mutants
  and deaths. The invariant says of each place what the working tree and the backups hold
  (`TreeInv`), and that the mutants still to do and those saved as killed or survived account
  for every mutant without counting one twice, also after a repeated run (`Counting`). `Listing`
  has as its hypothesis that a complete output that is not confusing is read as naming a test
  exactly when one calls the function; that is about `TestLogs`, and is what `LogsAreRead` checks
  over the outputs. It speaks of the pull requests whose tests are not confusing.
* `MutmutRunProofs`: `Attribution` (`ResultsExplained`), `Memory` (`NothingIsForgotten`) and
  `Custody` (`ChildrenAreKept`), for any set of mutants, files, tests and exit codes. The
  invariant says where each mutant is: in the queue, under test in a child that runs, has ended
  or was reaped, or decided, in memory as on the disk (`Queue`, `Table`, `Ends`, `Results`). A
  timed-out child is past a limit because the sum of the times of its tests is a number
  (`SumType`, by induction on the set of tests) and the thread compares ages with it. Assumed of
  the constants: mutants are numbered, sets are finite, times are natural numbers,
  an exit code is a byte or a negated signal.
* `MutationAnalysisProofs`: `Usable` (`DataIsUsable`), `AddedLines` (`AddedLinesAreTested`),
  `Agreement` (`ResultsAgree`) and `Reading` (`ChangeIsRead`), for any number of pull requests, mutants, processes and deaths and
  whatever a pull request contains. `DInv` says that what is pickled as data, or about to be, was
  computed from the content of its pull request; that an order of the pull requests exists in
  which the collector can go through them (`Orders`); and that a loop at work holds the object
  it constructed. `IInv` adds what an analysis at work has tested so far: what it remembers are
  results of the mutants before the one it is at, or of an earlier run that was complete, and then
  the rest is already known (`TestedBefore`, `Progress`); a counter is the number of recorded
  codes with its outcome (`CountsAddUp`); and, unless a process died at work on that
  specification, the files correspond to the recorded codes one to one (`FilesAreCodes`), so
  that the two can be compared by counting. `Reading` (`ChangeIsRead`) is about pure functions,
  so it holds in every state: whatever the file and the edit, a function that holds the edit and
  comes first in the source is the one in which the middle of the hunk lies (`SearchFinds`); the
  kinds of parameters, looked up one after the other, are in the order of the signature
  (`KindsInOrder`); what is shown of a discussion is the longest beginning that fits. Trying to
  prove the first showed that an edit which removes the first line of a function has to be left
  out: where that line would be in the new version means nothing, and the instance, which had such
  edits, was too small to tell. Assumed of the constants: pull requests have positive
  numbers and are finitely many, a mutant is of a line of its function, an execution passes,
  fails an assertion or fails otherwise, the names `pre_f` and `post_f` are new, and, for `Reading`,
  functions of a file are behind or inside each other and parameters in the order of the grammar.

The theorems are about `Spec` (for `Evaluation`, `ESpec`); the runs take the same specification
with its fairness. Every inductive invariant was checked by TLC on the instance of its run
before it was proved.

Induction over numbers and finite sets is stated of a set and used through well-foundedness
(`LeastOf`, `SetInduction`). `RECURSIVE` operators are out of the prover's reach, and so are
ENABLED and liveness. Only model-checked therefore:

* liveness: `RunDecides`, `CallReturns`, `NobodyWaitsForever`, `StartReturns`, `RunEnds`;
* `FileMutation`, which walks trees with recursive operators (`DeepReplace`, `Find`, `Differences`,
  `Restored`);
* `LogsAreRead`, whose outputs are the ones the instance enumerates, and `TestDriver`, whose
  properties depend on the texts of its instance in the same way.

## 5. Plan

All components with state of their own are modelled. What is left is proving, of `TestDriver`: what
`insert_code` and the split of `do_mutation` return for any driver whose sections are in order,
then `EchoIsStable`. `NothingIsCut` and `MutantIsTested` do not hold of every text (a driver that
repeats a heading is cut) and would need the texts of the answers described first.

## 6. Findings

Each is the counterexample of a run that checks what a comment, a message or an assertion says.

* **resume_phase2**: `load_from_cache` announces "Analysis is complete up to stage ...
  Continuing from stage" (`SpecInfer.py:312`), but its table of names (248-253) lacks
  "bug_trigger_generation", the first stage of phase 2. A phase 2 that dies after its first
  save raises KeyError in every later run.
* **empty_imports**: `get_changed_function_info` enters the module of a changed file with an empty
  set (`utils/PullRequest.py:304`); when the file defines nothing but the changed function it
  stays empty, and `utils/PythonCodeUtil.py:602` asserts "Module ... has no imports". The pull
  request fails whenever it is constructed.

Seen while modelling, without a run of their own. The models contain this behaviour; where a
property would fail because of it, the property has a condition that names it.

`SpecInfer` and `Analysis`:

* A run that dies after the last save of `error_repair` with the budget used up is resumed as a
  failure (727), although its specification exited with 0.
* A post-PR assertion in the execution of the last repair ends the loop by its condition (422)
  and is never reviewed, against the comment in 424.
* A forced run whose phase 1 no longer says NORMAL returns (936-957) and leaves the results of an
  earlier phase 2, which `MutationAnalysis.py:157` takes too.
* A first stage that failed and whose run died before its second save is resumed without a
  specification (KeyError in `error_repair`).
* Summary queries of a run that loads or resumes are not recorded; a summary is asked for even
  when there are no references; `extract_references` looks at comments only (81).
* `error_repair` looks for the name of the post-PR function, in its original case, in an output
  it has lower-cased (425). `Config.BUG_TRIGGER_PROMPT` is "v2" while the loader knows "v1" only,
  so that phase 2 stops on a missing template as shipped; the model takes a prompt that loads.

`ClonePool`:

* After a death between a checkout and the write of the state file, the clone recorded as "main"
  can be on a detached commit, on which `git pull` (`PRRetriever.py:41`) raises in every later run.
* The state file is truncated before it is written (59); a torn one makes every later manager
  raise. A submodule update that fails on a branch makes `_safe_checkout` go on to another branch
  in the clone it has already moved (82-89). A clone that was checked out just now gets the
  dictionary of all language servers in place of one (125).

`RegressionTests`:

* A death while `full_test_output.txt` or `relevant_test_cases.txt` is written leaves a file that
  the next process takes for complete (266, 291); with an empty list it saves that every mutant
  survived (313, 321).
* The exit code of the tests is not used. A failing test that prints, or whose id has a space, or a
  session without a closing rule, is not seen as failed.
* A printed line that begins with "===" ends the reading (29), so that every later test is lost; one
  that begins with an id, or has the start marker, breaks off the test that prints it. Text that
  touches the outcome ("textPASSED", as `-s` writes it) hides a test that calls the function (32). A
  test that prints FAILED or ERROR and a bracket first is a failure that none was (75-76).

Language servers:

* `start_server` has no `try` around its `yield` (`language_server.py:164-169`), so that an
  exception leaks the server and leaves the started flag; the loop that reads a leaked process
  takes `self.process` anew and reads from the process of the next session. Events and buffers are
  not reset between sessions, so that a second session is handed out before its server is ready,
  against the docstring in 159 ("has been initialized and ready to serve requests").
  `request_completions` repeats for ever on a null answer.
* `server_started` is set before the process exists (167) and reset after it has gone (169). A
  file that another task opens in between has a buffer that the server never hears of, edits of it
  change nothing there, and a request waits for an answer that nobody sends.
* Columns are counted in code points (`multilspy_utils.py:44-55`) and understood as UTF-16 units: an
  edit behind a character beyond the Basic Multilingual Plane is made at another place in the server.
* When the server dies, `run_forever` just ends and nobody tells the requests that wait
  (`server.py:371`); a request sent after `stop` would wait for ever (391); a shutdown answered
  with an error leaves the process running (248).
* rust-analyzer, OmniSharp and gradle count as installed when their directory exists, the Java server
  when a few listed paths do (`eclipse_jdtls.py:185-194`, 215-221): an unpacking that was cut short
  after them is never repeated.

mutmut:

* `create_mutants_for_file` (269) resets the results in each run, against README.rst:20 "Remembers
  work that has been done".
* `duration_by_test` keeps the time of the teardown only (1022); the timeout thread compares every
  process of a file with the estimate of each of its mutants. A process killed by -9 has no status
  (584) and ends the run with a KeyError, as does a stray child.
* A receiver that is false is left out of a dispatched call (`trampoline_templates.py:67`); f-string
  defaults are mutated although they are evaluated (`file_mutation.py:145`); for a string with a
  prefix `operator_string` compares a new value with its prefix to one without (`node_mutation.py:37`,
  52-53), so that unmodified copies become mutants; a function defined twice, or a name met in two classes, is found by its
  bare name in `apply`; mutations at module level make `generate_mutants` raise.

Pull requests and mutation analysis:

* The function before the change is searched with line numbers of the new file; functions are keyed
  without their class; changes in the first two lines of a function, the deletion of its last line
  and long insertions near its end are missed.
* `files_with_non_comment_changes` is not in the pickle, so that `get_filtered_diff` raises after a
  cache hit. A torn pickle, or a torn `mutation_results.json`, stops every later run; the list of a
  collector that died is returned as complete; a pull request with other than one function ends
  the whole analysis.
* A signature loses positional-only markers and a bare star; a line that names the function never
  counts as relevant for a mutant, because of the prefix.
* `BugReplay.replay` reads `args.repo` in place of its parameter (33), which the parser (54-58) does
  not define: every replay ends in an AttributeError before it executes anything, so nothing is
  modelled of it.

Prompts and evaluation:

* A second "# Specification" heading, or a fence inside the checks, silently cuts off the rest;
  sections in another order put checks on both sides of the code; an answer may define the versions
  again among its checks, and those are compared; a repair or a review drops the given imports that
  its answer does not repeat (`AssertionErrorRepairPromptV1.py:111`), and the generalisation doubles
  them; a repaired driver is not checked by `check_valid`; a function with a heading
  in a comment breaks the split of `do_mutation`.
* RQ1_3 looks up an int among string keys, so that of two logs of one pull request the last one
  listed stays; a killed process has no usage file, on which the whole evaluation stops; a run that
  only loaded its cache makes the assertion on queries fail.

## 7. Not modelled

* **DockerExecutor**: an execution is one step. Its calls follow each other without a decision;
  the sharing of a container between processes is left out, as the repository starts one process
  for a project at a time.
* **OpenAI client, Logger, Tracker's text**: a query answers or raises; of the log only events and
  usage are read by anyone.
* **Wording of prompts, enclosing classes, patches, data-synthesis prompts (unused)**: text that no
  decision reads. The rendering half of `PythonCodeUtil` is left out for the same reason.
* **Averages, tables and plots of the RQ scripts; PRs' selection by hand**: one pass over files.
* **BugInjection**: it imports names that `CodeMutation.py` does not define, and does not start.
* **mutmut's `results`, `show` and browser**: they read what `MutmutRun` writes.
* **Protocol types, typed request wrappers, configuration records of servers, documentation,
  sample projects**: generated, data, or not part of the program.
