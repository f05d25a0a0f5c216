------------------------------ MODULE PullRequest ------------------------------
(***************************************************************************)
(* The data of a pull request: patchguru/utils/PullRequest.py.  It is      *)
(* computed from the patch and the two versions of every changed file and  *)
(* kept in a pickle, which the next process loads instead; a computation   *)
(* that fails leaves a pickle with only an error in it, which the next     *)
(* process does not accept.  A process may die while it writes either.     *)
(*                                                                         *)
(* A pull request is a sequence of changed files.  A change has the old    *)
(* version of the file with its number of lines, edits [at, del, ins] in   *)
(* lines of the old version (del lines from line at on replaced by ins     *)
(* lines), more than six lines apart so that each is a hunk of its own,    *)
(* and whether only comments and docstrings are edited.                    *)
(***************************************************************************)
EXTENDS PythonCodeUtil

CONSTANTS
    PRs,        \* the numbers of the pull requests
    Contents    \* Contents[p]: what pull request p may be

ASSUME PRsAssumption == PRs \subseteq Nat \ {0} /\ IsFiniteSet(PRs)

Context == 3    \* the lines of context in a patch

VARIABLES
    content,    \* the changed files of each pull request
    cache,      \* the pickle of each: "none", "torn", "error" or the data
    prpc,       \* where the construction of a PullRequest is, "idle" if nowhere
    number,     \* the pull request under construction, or the last one
    data        \* the attributes of the object

prvars == <<content, cache, prpc, number, data>>

----------------------------------------------------------------------------
\* how much longer the edits before a line make a file
Growth(change, line) ==
    LET edits == change.edits
        growth[i \in 0 .. Len(edits)] ==
            IF i = 0 THEN 0
            ELSE growth[i - 1] + (IF edits[i].at < line THEN edits[i].ins - edits[i].del ELSE 0)
    IN  growth[Len(edits)]

\* where a line of the old version that is not removed is in the new one
NewLine(change, line) == line + Growth(change, line + 1)
NewVersion(change) ==
    LET Moved(s) == [i \in DOMAIN s |-> [s[i] EXCEPT !.start = NewLine(change, @), !.end = NewLine(change, @)]]
    IN  [change.old EXCEPT !.functions = Moved(@), !.classes = Moved(@)]

\* the part of the patch around an edit: hunk.target_start and target_length
SmallerOf(a, b) == IF a < b THEN a ELSE b
Hunk(change, edit) ==
    LET first == IF edit.at <= Context THEN 1 ELSE edit.at - Context
        last == SmallerOf(change.lines, edit.at + edit.del + Context - 1)
    IN  [target_start |-> first + Growth(change, edit.at),
         target_length |-> last - first + 1 + edit.ins - edit.del]

\* _compute_non_test_modified_files
non_test_modified_python_files(changes) == SelectSeq(changes, LAMBDA c : ~c.test)
\* count_non_comment_change
files_with_non_comment_changes(changes) ==
    SelectSeq(non_test_modified_python_files(changes), LAMBDA c : ~equal_modulo_docstrings(c))

(***************************************************************************)
(* get_changed_function_info.  Either version of a file is looked up with  *)
(* the lines that the hunks have in the new version.  What is found is     *)
(* kept under the module and the name of the function, without its class,  *)
(* so that a later hunk may overwrite what an earlier one has found.  A    *)
(* file that does not parse makes extract_target_function_by_range return  *)
(* a single None, which cannot be unpacked.                                *)
(***************************************************************************)
Found(change, file) ==
    LET Of(edit) ==
            LET hunk == Hunk(change, edit)
            IN  extract_target_function_by_range(file, hunk.target_start,
                                                 hunk.target_start + hunk.target_length)
    IN  SelectSeq([i \in DOMAIN change.edits |-> Of(change.edits[i])], LAMBDA f : f /= NoFunction)

Info(change, file, function) ==
    [file_path |-> change.module, start_line |-> function.start, end_line |-> function.end,
     context_class |-> ContextClass(file, function)]

FileInfo(change, file) ==
    LET found == Found(change, file)
        Names == {f.name : f \in Range(found)}
        LastOf(name) == found[SelectLastInSeq(found, LAMBDA f : f.name = name)]
    IN  [key \in {<<change.module, name>> : name \in Names} |-> Info(change, file, LastOf(key[2]))]

\* the package that a relative import with this number of dots starts from
Resolved(module, imported) ==
    IF imported[1] = 0 THEN imported[2]
    ELSE SubSeq(module, 1, IF imported[1] < Len(module) THEN Len(module) - imported[1] ELSE 0)
         \o imported[2]

\* the imports of a changed file, and everything it defines but what was changed;
\* of two ways to write a module the later one replaces the other
FileImports(change, file) ==
    LET written == extract_imported_modules(file)
        modules == {Resolved(change.module, m) : m \in DOMAIN written}
        changed == {f.name : f \in Range(Found(change, file))}
        First(w) == SelectInSeq(file.imports, LAMBDA i : <<i.dots, i.path>> = w)
        Forms(m) == {w \in DOMAIN written : Resolved(change.module, w) = m}
        From(m) == written[CHOOSE w \in Forms(m) : \A v \in Forms(m) : First(v) <= First(w)]
    IN  (change.module :> (TopLevelNames(file) \ changed)) @@ [m \in modules |-> From(m)]

Merge(a, b) ==
    [m \in DOMAIN a \cup DOMAIN b |->
        (IF m \in DOMAIN a THEN a[m] ELSE {}) \cup (IF m \in DOMAIN b THEN b[m] ELSE {})]

Empty == [x \in {} |-> {}]
Version(change, side) == IF side = "old" THEN change.old ELSE NewVersion(change)
InfoOf(changes, side) ==
    FoldLeft(LAMBDA info, c : FileInfo(c, Version(c, side)) @@ info, Empty,
             files_with_non_comment_changes(changes))
ImportsOf(changes, side) ==
    FoldLeft(LAMBDA all, c :
                LET new == FileImports(c, Version(c, side))
                IN  (c.module :> new[c.module]) @@ Merge(all, new),
             Empty, files_with_non_comment_changes(changes))

prev_fut_info(changes) == InfoOf(changes, "old")
post_fut_info(changes) == InfoOf(changes, "new")
required_imports(changes) == Merge(ImportsOf(changes, "old"), ImportsOf(changes, "new"))

Parses(changes) == \A c \in Range(files_with_non_comment_changes(changes)) : c.old.parses
Raises(changes) == ~Parses(changes) \/ ~ImportsAssertionHolds(required_imports(changes))

NoData == [prev_fut_info |-> Empty, post_fut_info |-> Empty, changed_functions |-> {},
           added_functions |-> {}, removed_functions |-> {}, required_imports |-> Empty]
Computed(changes) ==
    LET prev == prev_fut_info(changes)
        post == post_fut_info(changes)
    IN  [prev_fut_info |-> prev, post_fut_info |-> post,
         changed_functions |-> DOMAIN prev \cup DOMAIN post,
         added_functions |-> DOMAIN post \ DOMAIN prev,
         removed_functions |-> DOMAIN prev \ DOMAIN post,
         required_imports |-> required_imports(changes)]

\* what each pull request that may be there has, and whether it has it
Possible == UNION {Contents[p] : p \in PRs}
RaisesFor == [changes \in Possible |-> Raises(changes)]
ComputedFor == [changes \in Possible |-> IF Raises(changes) THEN NoData ELSE Computed(changes)]

----------------------------------------------------------------------------
NoPickle == [what |-> "none", data |-> NoData]
PRInit ==
    /\ content \in {c \in [PRs -> Possible] : \A p \in PRs : c[p] \in Contents[p]}
    /\ cache = [p \in PRs |-> NoPickle]
    /\ prpc = "idle" /\ number = 0 /\ data = NoData

\* PullRequest(p): a pickle is loaded before the part that catches errors
ConstructStep_TakesErrors(p) ==
    /\ prpc = "idle"
    /\ number' = p
    /\ prpc' = CASE cache[p].what = "none" -> "compute"
                 [] cache[p].what = "torn" -> "raised"
                 [] OTHER -> "ready"
    /\ data' = cache[p].data
    /\ UNCHANGED <<content, cache>>
ConstructStep(p) ==
    /\ prpc = "idle"
    /\ number' = p
    /\ prpc' = CASE cache[p].what \in {"none", "error"} -> "compute"
                 [] cache[p].what = "torn" -> "raised"
                 [] cache[p].what = "data" -> "ready"
    /\ data' = cache[p].data
    /\ UNCHANGED <<content, cache>>

\* the attributes are computed, unless a download or a clone fails or the code raises
Compute ==
    /\ prpc = "compute"
    /\ \/ /\ ~RaisesFor[content[number]]
          /\ data' = ComputedFor[content[number]] /\ prpc' = "save"
       \/ data' = NoData /\ prpc' = "save error"
    /\ UNCHANGED <<content, cache, number>>

\* open(cache_file, "wb") empties the file, pickle.dump fills it
Open ==
    /\ prpc \in {"save", "save error"}
    /\ cache' = [cache EXCEPT ![number] = [what |-> "torn", data |-> NoData]]
    /\ prpc' = IF prpc = "save" THEN "dump" ELSE "dump error"
    /\ UNCHANGED <<content, number, data>>
Dump ==
    /\ prpc \in {"dump", "dump error"}
    /\ cache' = [cache EXCEPT ![number] =
                    [what |-> IF prpc = "dump" THEN "data" ELSE "error", data |-> data]]
    /\ prpc' = IF prpc = "dump" THEN "ready" ELSE "raised"
    /\ UNCHANGED <<content, number, data>>

\* the object is not used any more
Release ==
    /\ prpc' = "idle" /\ number' = 0 /\ data' = NoData
    /\ UNCHANGED <<content, cache>>

PRStep == Compute \/ Open \/ Dump
=============================================================================
