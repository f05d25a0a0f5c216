--------------------------- MODULE MutationAnalysis ---------------------------
(***************************************************************************)
(* Two programs that work on pull requests, one process at a time.         *)
(* PRCollector.py looks for pull requests that change a single function    *)
(* and keeps their numbers in a file.  MutationAnalysis.py takes those of  *)
(* a list, makes mutants of the changed function and runs the              *)
(* specification that was inferred on each mutant that touches a line of   *)
(* the change; it keeps a file for every such mutant and, when it is done  *)
(* with a specification, a file of results that a later process continues  *)
(* from.  Both construct PullRequest objects, which share their pickles.   *)
(* A process may die anywhere.                                             *)
(*                                                                         *)
(* A mutant is the line of the function it changes and an identity of its  *)
(* code, which stands for the hash; two mutants may have the same code.    *)
(***************************************************************************)
EXTENDS PullRequestDetails

CONSTANTS
    Specifications, \* the stage of each phase of a pull request: "none" if it has
                    \* no specification, "completed", or any other
    Code,           \* the lines of the changed function, new version
    Added,          \* the lines that the pull request added to it
    Mutants,        \* the mutants of the new version, in order
    Outputs,        \* what running a specification may show
    Probes,         \* changes of one edit on which the search for functions is compared
    CutOff,         \* pull requests from this number on are left out
    MaxPRs,         \* n_prs: how many pull requests to collect
    MaxStarts,      \* bound: how many processes are started
    MaxDeaths       \* bound: how often a process dies

ASSUME OutputsAssumption == Outputs \subseteq {"pass", "assert", "fail"}
ASSUME CodeAssumption ==
    \A p \in PRs : /\ Code[p] \in Seq([text: STRING, names: SUBSET STRING, def: BOOLEAN])
                   /\ Added[p] \subseteq DOMAIN Code[p]
                   /\ Mutants[p] \in Seq([line: DOMAIN Code[p], code: STRING])
\* the names that the versions are shown under are new
ASSUME PrefixAssumption ==
    \A p \in PRs : \A i \in DOMAIN Code[p] : Code[p][i].names \cap {"pre_f", "post_f"} = {}
\* the functions of a file in the order of the source, each behind or inside the one before
\* it, their parameters in the order of the grammar; one edit that removes no first line
ASSUME ProbesAssumption ==
    \A change \in Probes :
        LET Defs == [name : STRING, start : Nat, end : Nat, class : STRING, top : BOOLEAN,
                          params : Seq([name : STRING, kind : DOMAIN GrammarOrder])]
            fs == change.old.functions
        IN  /\ change.old \in [parses : BOOLEAN, functions : Seq(Defs),
                               classes : Seq([name : STRING, start : Nat, end : Nat]),
                               imports : Seq([dots : Nat, path : Seq(STRING), names : SUBSET STRING])]
            /\ \A i, j \in DOMAIN fs :
                  i < j => /\ fs[i].start < fs[j].start
                           /\ fs[i].end < fs[j].start \/ fs[j].end <= fs[i].end
            /\ \A f \in DOMAIN fs : \A i, j \in DOMAIN fs[f].params :
                  i < j => GrammarOrder[fs[f].params[i].kind] <= GrammarOrder[fs[f].params[j].kind]
            /\ change.lines \in Nat
            /\ change.edits \in Seq([at : Nat, del : Nat, ins : Nat]) /\ Len(change.edits) = 1
            /\ \A i \in DOMAIN fs :
                  fs[i].start \notin change.edits[1].at .. change.edits[1].at + change.edits[1].del - 1
ASSUME BoundsAssumption == CutOff \in Nat /\ MaxPRs \in Nat /\ MaxStarts \in Nat /\ MaxDeaths \in Nat

VARIABLES
    program,    \* the process: "down", "collector" or "mutation"
    pc,
    todo,       \* the pull requests, or the <<pr, phase>>, still to look at
    dataset,    \* the numbers the collector has found, in its memory
    file,       \* the file of the collector; whole is history: it has finished
    memory,     \* execution_results and the counters of do_mutation
    at,         \* the index of the next mutant
    results,    \* mutation_results.json of each <<pr, phase>>
    mutantFiles,\* the mutant_<i>_<output>.py of each
    starts, deaths,
    interrupted \* history: the <<pr, phase>> whose analysis has died or crashed

colvars == <<dataset, file>>
mutvars == <<memory, at, results, mutantFiles>>
hist == <<starts, deaths, interrupted>>
vars == <<prvars, program, pc, todo, colvars, mutvars, hist>>

Phases == {1, 2}
Jobs == PRs \X Phases
Fresh == [done |-> Empty, relevant |-> 0, n_mutant_pass |-> 0, n_mutant_fail_assert |-> 0,
          n_mutant_fail_other |-> 0]
NoResults == [what |-> "none", is |-> Fresh]

Init ==
    /\ PRInit
    /\ program = "down" /\ pc = "done" /\ todo = <<>>
    /\ dataset = {} /\ file = [exists |-> FALSE, prs |-> {}, whole |-> FALSE]
    /\ memory = Fresh /\ at = 0
    /\ results = [j \in Jobs |-> NoResults]
    /\ mutantFiles = [j \in Jobs |-> {}]
    /\ starts = 0 /\ deaths = 0 /\ interrupted = {}

Ascending == CHOOSE s \in [1..Cardinality(PRs) -> PRs] : \A i, j \in DOMAIN s : i < j => s[i] < s[j]
Descending == CHOOSE s \in [1..Cardinality(PRs) -> PRs] : \A i, j \in DOMAIN s : i < j => s[i] > s[j]

----------------------------------------------------------------------------
(* PRCollector.py *)

\* a file that exists is returned as it is
StartCollector ==
    /\ program = "down" /\ starts < MaxStarts /\ starts' = starts + 1
    /\ IF file.exists THEN pc' = "done" /\ todo' = <<>> /\ program' = "down"
       ELSE pc' = "next" /\ todo' = Descending /\ program' = "collector"
    /\ dataset' = IF file.exists THEN file.prs ELSE {}
    /\ UNCHANGED <<prvars, file, mutvars, deaths, interrupted>>

CollectNext ==
    /\ program = "collector" /\ pc = "next"
    /\ IF todo = <<>> \/ Cardinality(dataset) >= MaxPRs
       THEN pc' = "write last" /\ UNCHANGED <<prvars, todo>>
       ELSE pc' = "retrieve" /\ ConstructStep(Head(todo)) /\ todo' = Tail(todo)
    /\ UNCHANGED <<program, colvars, mutvars, hist>>

\* a pull request that cannot be retrieved is passed over
Select(d) ==
    Cardinality(d.changed_functions) = 1 /\ d.added_functions = {} /\ d.removed_functions = {}
Retrieved ==
    /\ program = "collector" /\ pc = "retrieve" /\ prpc \in {"ready", "raised"}
    /\ IF prpc = "ready" /\ Select(data)
       THEN dataset' = dataset \cup {number} /\ pc' = "write"
       ELSE pc' = "next" /\ UNCHANGED dataset
    /\ Release
    /\ UNCHANGED <<program, todo, file, mutvars, hist>>

\* open(dataset_path, "w") empties the file, then the numbers are written
OpenDataset ==
    /\ program = "collector" /\ pc \in {"write", "write last"}
    /\ file' = [file EXCEPT !.exists = TRUE, !.prs = {}]
    /\ pc' = IF pc = "write" THEN "fill" ELSE "fill last"
    /\ UNCHANGED <<prvars, program, todo, dataset, mutvars, hist>>
FillDataset ==
    /\ program = "collector" /\ pc \in {"fill", "fill last"}
    /\ file' = [file EXCEPT !.prs = dataset, !.whole = pc = "fill last"]
    /\ pc' = IF pc = "fill" THEN "next" ELSE "done"
    /\ program' = IF pc = "fill" THEN "collector" ELSE "down"
    /\ UNCHANGED <<prvars, todo, dataset, mutvars, hist>>

Collector == StartCollector \/ CollectNext \/ Retrieved \/ OpenDataset \/ FillDataset

----------------------------------------------------------------------------
(* MutationAnalysis.py *)

\* a phase that is not completed ends the analysis of its pull request
JobsOf(p) ==
    LET spec == Specifications[p]
        Phase2 == IF spec[2] = "completed" THEN <<<<p, 2>>>> ELSE <<>>
    IN  CASE p >= CutOff -> <<>>
          [] p < CutOff /\ spec[1] = "none" -> Phase2
          [] p < CutOff /\ spec[1] = "completed" -> <<<<p, 1>>>> \o Phase2
          [] OTHER -> <<>>

StartMutation ==
    /\ program = "down" /\ starts < MaxStarts /\ starts' = starts + 1
    /\ program' = "mutation" /\ pc' = "next"
    /\ todo' = FlattenSeq([i \in DOMAIN Ascending |-> JobsOf(Ascending[i])])
    /\ UNCHANGED <<prvars, colvars, mutvars, deaths, interrupted>>

job == Head(todo)
MutationNext ==
    /\ program = "mutation" /\ pc = "next"
    /\ IF todo = <<>> THEN program' = "down" /\ pc' = "done" /\ UNCHANGED prvars
       ELSE ConstructStep(job[1]) /\ pc' = "constructed" /\ UNCHANGED program
    /\ UNCHANGED <<todo, colvars, mutvars, hist>>

\* extract_fut_code of both versions
SingleFunction(d) == Cardinality(DOMAIN d.post_fut_info) = 1 /\ Cardinality(DOMAIN d.prev_fut_info) = 1

Constructed ==
    /\ program = "mutation" /\ pc = "constructed" /\ prpc = "ready" /\ SingleFunction(data)
    /\ Release /\ pc' = "load"
    /\ UNCHANGED <<program, todo, colvars, mutvars, hist>>

\* an error that nothing catches ends the process: a pull request that cannot be
\* constructed, one that does not change a single function, a torn file of results
Crashes ==
    /\ program = "mutation"
    /\ \/ pc = "constructed" /\ (prpc = "raised" \/ (prpc = "ready" /\ ~SingleFunction(data)))
       \/ pc = "load" /\ results[job].what = "torn"
    /\ program' = "down" /\ pc' = "done" /\ todo' = <<>> /\ Release
    /\ interrupted' = interrupted \cup {job}
    /\ UNCHANGED <<colvars, mutvars, starts, deaths>>

\* the results of an earlier process are continued from, the count of relevant mutants is not
LoadResults_Counters ==
    /\ program = "mutation" /\ pc = "load" /\ results[job].what /= "torn"
    /\ memory' = [Fresh EXCEPT !.done = results[job].is.done]
    /\ at' = 1 /\ pc' = "test"
    /\ UNCHANGED <<prvars, program, todo, colvars, results, mutantFiles, hist>>
LoadResults ==
    /\ program = "mutation" /\ pc = "load" /\ results[job].what /= "torn"
    /\ memory' = [results[job].is EXCEPT !.relevant = 0]
    /\ at' = 1 /\ pc' = "test"
    /\ UNCHANGED <<prvars, program, todo, colvars, results, mutantFiles, hist>>

\* the code as it is tested has the prefix post_ before the name of the function,
\* the lines that were added are taken from the code without it
post_fut_code(p) == update_function_name(Code[p], "f", "post_f")
added_lines(p) == {Code[p][i] : i \in Added[p]}

is_relevant(p, mutant) == post_fut_code(p)[mutant.line] \in added_lines(p)

SkipMutant ==
    /\ program = "mutation" /\ pc = "test" /\ at <= Len(Mutants[job[1]])
    /\ LET mutant == Mutants[job[1]][at]
       IN  ~is_relevant(job[1], mutant) \/ mutant.code \in DOMAIN memory.done
    /\ at' = at + 1
    /\ UNCHANGED <<prvars, program, pc, todo, colvars, memory, results, mutantFiles, hist>>

Counted(m, output) ==
    CASE output = "pass" -> [m EXCEPT !.n_mutant_pass = @ + 1]
      [] output = "assert" -> [m EXCEPT !.n_mutant_fail_assert = @ + 1]
      [] output = "fail" -> [m EXCEPT !.n_mutant_fail_other = @ + 1]
\* execution_results[hash_id] = output
WithResult(done, code, output) ==
    [c \in DOMAIN done \cup {code} |-> IF c = code THEN output ELSE done[c]]
MutantFile(output) == <<at, output>>
TestMutant ==
    /\ program = "mutation" /\ pc = "test" /\ at <= Len(Mutants[job[1]])
    /\ LET mutant == Mutants[job[1]][at]
       IN  /\ is_relevant(job[1], mutant) /\ mutant.code \notin DOMAIN memory.done
           /\ \E output \in Outputs :
                 /\ memory' = [Counted(memory, output) EXCEPT
                                  !.relevant = @ + 1, !.done = WithResult(@, mutant.code, output)]
                 /\ mutantFiles' = [mutantFiles EXCEPT ![job] = @ \cup {MutantFile(output)}]
    /\ at' = at + 1
    /\ UNCHANGED <<prvars, program, pc, todo, colvars, results, hist>>

\* the results are written after the last mutant
OpenResults_Early ==
    /\ program = "mutation" /\ pc = "test" /\ at >= Len(Mutants[job[1]])
    /\ results' = [results EXCEPT ![job] = [what |-> "torn", is |-> Fresh]]
    /\ pc' = "save"
    /\ UNCHANGED <<prvars, program, todo, colvars, memory, at, mutantFiles, hist>>
OpenResults ==
    /\ program = "mutation" /\ pc = "test" /\ at > Len(Mutants[job[1]])
    /\ results' = [results EXCEPT ![job] = [what |-> "torn", is |-> Fresh]]
    /\ pc' = "save"
    /\ UNCHANGED <<prvars, program, todo, colvars, memory, at, mutantFiles, hist>>
DumpResults ==
    /\ program = "mutation" /\ pc = "save"
    /\ results' = [results EXCEPT ![job] = [what |-> "saved", is |-> memory]]
    /\ memory' = Fresh /\ at' = 0
    /\ pc' = "next" /\ todo' = Tail(todo)
    /\ UNCHANGED <<prvars, program, colvars, mutantFiles, hist>>

Mutation ==
    \/ StartMutation \/ MutationNext \/ Constructed \/ Crashes \/ LoadResults
    \/ SkipMutant \/ TestMutant \/ OpenResults \/ DumpResults

----------------------------------------------------------------------------
\* the process that constructs a PullRequest goes on with it
Construct ==
    /\ PRStep
    /\ UNCHANGED <<program, pc, todo, colvars, mutvars, hist>>

Die ==
    /\ program /= "down" /\ deaths < MaxDeaths
    /\ deaths' = deaths + 1
    /\ interrupted' = IF program = "mutation" /\ todo /= <<>> THEN interrupted \cup {job} ELSE interrupted
    /\ program' = "down" /\ pc' = "done" /\ todo' = <<>> /\ Release
    /\ dataset' = {} /\ memory' = Fresh /\ at' = 0
    /\ UNCHANGED <<file, results, mutantFiles, starts>>

(***************************************************************************)
(* RQ2.py puts the files of mutants beside those of the regression tests,  *)
(* which run every mutant that has a file: who killed is what their names  *)
(* say, and a mutant is killed if either did.  The regression tests killed *)
(* those with the numbers in regression, perhaps none.                     *)
(***************************************************************************)
Killed(output) == output /= "pass"
Numbers(j) == {f[1] : f \in mutantFiles[j]}
combined_killed(j, regression) ==
    Cardinality({f \in mutantFiles[j] : Killed(f[2]) \/ f[1] \in regression})
patchguru_killed(r) == r.n_mutant_fail_assert + r.n_mutant_fail_other
n_total(r) == r.n_mutant_pass + patchguru_killed(r)

Next == Collector \/ Mutation \/ Construct \/ Die
Spec == Init /\ [][Next]_vars

----------------------------------------------------------------------------
(* Every variable has a value of its type.                                 *)
TypeOK ==
    /\ \A p \in PRs : content[p] \in Contents[p] /\ cache[p].what \in {"none", "torn", "error", "data"}
    /\ prpc \in {"idle", "compute", "save", "save error", "dump", "dump error", "ready", "raised"}
    /\ number \in PRs \cup {0} /\ (prpc = "idle" <=> number = 0)
    /\ program \in {"down", "collector", "mutation"}
    /\ dataset \subseteq PRs /\ file.prs \subseteq PRs /\ (file.prs /= {} => file.exists)
    /\ \A j \in Jobs : /\ results[j].what \in {"none", "torn", "saved"}
                       /\ mutantFiles[j] \subseteq (1..Len(Mutants[j[1]])) \X Outputs
    /\ starts \in 0..MaxStarts /\ deaths \in 0..MaxDeaths /\ interrupted \subseteq Jobs

(* An object that is given out has the data of its pull request, whether   *)
(* they were computed or loaded, after failures and deaths in any step;    *)
(* a pickle with an error is never taken for data (PullRequest.__init__).  *)
DataIsRight ==
    /\ prpc = "ready" => data = ComputedFor[content[number]]
    /\ \A p \in PRs : cache[p].what = "data" => cache[p].data = ComputedFor[content[p]]

(* What the collector selects the analysis accepts: the one changed        *)
(* function is there before and after (extract_fut_code asserts it).       *)
SelectedIsAnalysable == \A p \in dataset \cup file.prs : SingleFunction(ComputedFor[content[p]])

(* The data of a pull request are its own, and fit for the analysis when   *)
(* the collector has selected it (PullRequest.__init__, PRCollector.py).   *)
DataIsUsable == DataIsRight /\ SelectedIsAnalysable

Count(done, output) == Cardinality({c \in DOMAIN done : done[c] = output})
(* The counters agree with the results they are saved with, however many   *)
(* processes it took (do_mutation).                                        *)
CountersAgree ==
    \A r \in {memory} \cup {results[j].is : j \in Jobs} :
        /\ r.n_mutant_pass = Count(r.done, "pass")
        /\ r.n_mutant_fail_assert = Count(r.done, "assert")
        /\ r.n_mutant_fail_other = Count(r.done, "fail")

(* When the results are saved every mutant of an added line was tested,    *)
(* but for the lines that name the function, and nothing else than mutants *)
(* of lines that read like an added one.                                   *)
AddedLinesAreTested ==
    \A j \in Jobs : results[j].what = "saved" =>
        \A i \in DOMAIN Mutants[j[1]] :
            LET mutant == Mutants[j[1]][i]
                tested == mutant.code \in DOMAIN results[j].is.done
            IN  /\ mutant.line \in Added[j[1]] /\ "f" \notin Code[j[1]][mutant.line].names => tested
                /\ tested => \E k \in DOMAIN Mutants[j[1]] :
                                /\ Mutants[j[1]][k].code = mutant.code
                                /\ Code[j[1]][Mutants[j[1]][k].line] \in added_lines(j[1])

(* The files of mutants agree with the results that are saved, one file    *)
(* for a tested code and named for its output, unless the analysis was     *)
(* interrupted: it then runs again and may show something else.            *)
FilesAgree ==
    \A j \in Jobs : (results[j].what = "saved" /\ j \notin interrupted) =>
        /\ \A f \in mutantFiles[j] :
              LET code == Mutants[j[1]][f[1]].code
              IN  code \in DOMAIN results[j].is.done /\ results[j].is.done[code] = f[2]
        /\ Cardinality(mutantFiles[j]) = Cardinality(DOMAIN results[j].is.done)

(* Whatever the regression tests kill, the two methods together kill at    *)
(* least what either does and no more than there are, and both have the    *)
(* same mutants, as RQ2.py asserts: the rates of its table are rates.      *)
(* Analyses that were interrupted are the exception.                       *)
CombinedIsBetween ==
    \A j \in Jobs : (results[j].what = "saved" /\ j \notin interrupted) =>
        LET r == results[j].is
        IN  /\ Cardinality(mutantFiles[j]) = n_total(r)
            /\ \A regression \in SUBSET Numbers(j) :
                  LET combined == combined_killed(j, regression)
                  IN  /\ patchguru_killed(r) <= combined /\ Cardinality(regression) <= combined
                      /\ combined <= n_total(r)

(* Counters, lists and files of mutants agree with each other and with     *)
(* what RQ2.py makes of them.                                              *)
ResultsAgree ==
    /\ TypeOK
    /\ CountersAgree
    /\ FilesAgree
    /\ CombinedIsBetween

(* The search by a hunk's middle finds the function a change is in (of     *)
(* nested ones the outermost): after the change, if at least one line is   *)
(* added below the first line of the body and with all its context; before *)
(* it, if the lines added end where the function did.  Compared with the   *)
(* lines themselves for every single edit of a file; it holds or not       *)
(* before anything runs (extract_target_function_by_range).                *)
Outermost(version, from, to) ==
    LET i == SelectInSeq(version.functions, LAMBDA f : f.start < from /\ to <= f.end)
    IN  IF i = 0 THEN NoFunction ELSE version.functions[i]
ChangedFunctionIsFound ==
    starts = 0 =>
        \A change \in Probes :
            LET edit == change.edits[1]
                hunk == Hunk(change, edit)
                Search(version) == extract_target_function_by_range(
                                    version, hunk.target_start, hunk.target_start + hunk.target_length)
                before == Outermost(change.old, edit.at, edit.at + edit.del - 1)
                after == Outermost(NewVersion(change), edit.at, edit.at + edit.ins - 1)
            IN  (/\ edit.ins > 0 /\ edit.at > Context /\ edit.at + edit.del + Context <= change.lines + 1
                 /\ after /= NoFunction /\ edit.at > after.start + 1)
                => /\ Search(NewVersion(change)) = after
                   /\ (before.name = after.name /\ edit.at + edit.ins <= before.end)
                      => Search(change.old) = before

(* The signature that is shown for a function has its parameters in their  *)
(* order and with the stars of *args and **kwargs, if none of them is      *)
(* positional-only (get_function_signature).                               *)
SignatureKeepsOrder ==
    starts = 0 =>
        \A change \in Probes : \A f \in Range(change.old.functions) :
            (\A i \in DOMAIN f.params : f.params[i].kind /= "positional-only") =>
                LET named == OfKind(f.params, DOMAIN GrammarOrder \ {"bare star"})
                IN  get_function_signature(f).params =
                        [i \in DOMAIN named |-> [name |-> named[i].name, stars |-> Stars(named[i])]]

(* Of the discussion of a pull request, and of each that it mentions, a    *)
(* beginning is shown that fits, and marked if it is not all of it; the    *)
(* references are those of the comments that are shown, each once, even if *)
(* GitHub refuses some of their parts (extract_pr_details).                *)
DiscussionIsShown ==
    LET IsCut(part, all, limit) ==
            /\ IsPrefix(part.shown, all) /\ (part.truncated <=> part.shown /= all)
            /\ TotalLength(part.shown) <= limit \/ part.shown = <<Head(all)>>
        PartsAreCut(parts, item, limit) ==
            /\ IsCut(parts.comments, <<item.body>> \o item.comments, limit)
            /\ "reviews" \in DOMAIN parts => /\ IsCut(parts.reviews, item.reviews, limit)
                                             /\ IsCut(parts.commits, item.commits, limit)
    IN  starts = 0 =>
            \A n \in DOMAIN Items : \A refused \in SUBSET DOMAIN Items, lost \in SUBSET DOMAIN Items :
                LET details == extract_pr_details(n, refused, lost)
                    mentioned == Mentioned(details.parts.comments.shown)
                IN  /\ PartsAreCut(details.parts, Items[n], Limit)
                    /\ {r.number : r \in details.references} = (mentioned \cap DOMAIN Items) \ lost
                    /\ \A r, s \in details.references : r.number = s.number => r = s
                    /\ \A r \in details.references : PartsAreCut(r.parts, Items[r.number], ReferenceLimit)

(* The two versions are shown under names of their own: wherever one of    *)
(* them calls itself it calls itself, and no line is lost                  *)
(* (prepare_information, update_function_name).                            *)
VersionsAreToldApart ==
    starts = 0 => \A p \in PRs :
        LET info == prepare_information(Code[p], Code[p], "f", "pre_f", "post_f")
            Names(code) == UNION {line.names : line \in Range(code)}
        IN  /\ "f" \notin Names(info.prev_fut_code) \cup Names(info.post_fut_code)
            /\ \A i \in DOMAIN Code[p] :
                  LET calls == "f" \in Code[p][i].names
                  IN  /\ calls <=> "pre_f" \in info.prev_fut_code[i].names
                      /\ calls <=> "post_f" \in info.post_fut_code[i].names

(* What the prompts are told of a change is so: its function and signature *)
(* (extract_target_function_by_range, get_function_signature), the two     *)
(* versions and the discussion.                                            *)
ChangeIsRead ==
    /\ ChangedFunctionIsFound
    /\ SignatureKeepsOrder
    /\ DiscussionIsShown
    /\ VersionsAreToldApart

(* What convert_import_dict_to_string asserts of the imports it is given:  *)
(* "Module ... has no imports" cannot happen.                              *)
ModulesHaveImports ==
    prpc = "compute" => LET changes == content[number]
                        IN  Parses(changes) => ImportsAssertionHolds(required_imports(changes))
=============================================================================
