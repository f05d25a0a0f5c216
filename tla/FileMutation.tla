----------------------------- MODULE FileMutation -----------------------------
(***************************************************************************)
(* The mutants of one source file: mutmut/mutmut/file_mutation.py and the  *)
(* trampolines of mutmut/mutmut/trampoline_templates.py.  A visitor walks  *)
(* the tree of the file and collects mutations.  They are arranged into    *)
(* one file that holds the original and all mutants of every function and  *)
(* a trampoline that picks one of them when it is called; or, for the      *)
(* mutation analysis of PatchGuru, each becomes the code of a function of  *)
(* its own (patchguru/utils/CodeMutation.py).  The file is then imported   *)
(* and its functions are called, with any mutant under test, and a mutant  *)
(* may be applied to the original (mutmut apply).                          *)
(*                                                                         *)
(* Shape of the tree: the children of a Module are its statements; of a    *)
(* FunctionDef its name, parameters, decorators, annotation and body; of a *)
(* ClassDef, whose name is v, its bases, decorators and body; the body of  *)
(* either is its last child, an IndentedBlock or a SimpleStatementSuite.   *)
(* The identity of a node is its number id; the Module has number 1, the   *)
(* nodes that a mutation makes have none (0).                              *)
(***************************************************************************)
EXTENDS NodeMutation

CONSTANTS
    Sources,    \* the files: the tree and the lines with "# pragma: no mutate"
    Purposes    \* what is done with a file: "arrange" (mutmut), "generate"

ASSUME PurposesAssumption == Purposes \subseteq {"arrange", "generate"}

NoNode == Node(0, "None", 0, "", 0, <<>>)

VARIABLES
    pc,         \* "visit", "arrange" or "generate", "written", "generated"
    purpose,
    source,     \* the file
    todo,       \* the nodes the visitor has still to visit, with their context
    mutations,  \* MutationVisitor.mutations
    remaining,  \* remaining_statements
    result,     \* the statements of the mutated file
    names,      \* mutation_names
    codes,      \* the mutants that generate_mutants returns, or that it raises
    active,     \* MUTANT_UNDER_TEST of the process that has imported the file
    call,       \* the last call of a function of the file and what it ran
    hits,       \* the functions that a process with "stats" has recorded
    applied     \* the source file after mutmut apply, and the mutant that was applied

vars == <<pc, purpose, source, todo, mutations, remaining, result, names, codes, active,
          call, hits, applied>>
written == <<remaining, result, names, codes>>
tested == <<active, call, hits, applied>>

----------------------------------------------------------------------------
NEVER_MUTATE_FUNCTION_NAMES == {"__getattribute__", "__setattr__", "__new__"}
NEVER_MUTATE_FUNCTION_CALLS == {"len", "isinstance"}

FunctionName(function) == function.sub[1].v
Body(node) == Last(node.sub)
Indented(class) == Body(class).kind = "IndentedBlock"
Decorated(node) == \E i \in DOMAIN node.sub : node.sub[i].kind = "Decorator"

\* a parameter has its name as the first child, then the annotation, the default
Default(param) ==
    IF Len(param.sub) > 1 /\ Last(param.sub).kind /= "Annotation" THEN Last(param.sub) ELSE NoNode
ComplexDefault(param) ==
    /\ Default(param) /= NoNode
    /\ ~Is(Default(param), {"Name"} \cup Numbers \cup Strings)

_skip_node_and_children(node) ==
    \/ node.kind = "Call" /\ node.sub[1].kind = "Name"
       /\ node.sub[1].v \in NEVER_MUTATE_FUNCTION_CALLS
    \/ node.kind = "FunctionDef" /\ FunctionName(node) \in NEVER_MUTATE_FUNCTION_NAMES
    \/ node.kind = "Annotation"
    \/ node.kind = "Param" /\ ComplexDefault(node)
    \/ node.kind \in {"FunctionDef", "ClassDef"} /\ Decorated(node)

_should_mutate_node(node) == node.line \notin source.ignored

(***************************************************************************)
(* An entry of the visitor's work list: a node, where it is (at "top" of   *)
(* the file, a part of a "class" there, a "member" of its indented body,   *)
(* or further "in") and its top-level function or method, which            *)
(* OuterFunctionProvider has linked to it: any statement of a class body   *)
(* counts as a method there.                                               *)
(***************************************************************************)
Entry(node, at, outer) == [node |-> node, at |-> at, outer |-> outer]
Child(entry, child) ==
    CASE entry.node.kind = "Module" ->
            Entry(child, "top", IF child.kind = "FunctionDef" THEN child.id ELSE 0)
      [] entry.at = "top" /\ entry.node.kind = "ClassDef" -> Entry(child, "class", 0)
      [] entry.at = "class" /\ entry.node.kind = "IndentedBlock" -> Entry(child, "member", child.id)
      [] OTHER -> Entry(child, "in", entry.outer)
Children(entry) == [i \in DOMAIN entry.node.sub |-> Child(entry, entry.node.sub[i])]

Mutation(entry, new) == [old |-> entry.node.id, new |-> new, outer |-> entry.outer]

Init ==
    /\ source \in Sources
    /\ purpose \in Purposes
    /\ pc = "visit"
    /\ todo = <<Entry(source.tree, "in", 0)>>
    /\ mutations = <<>> /\ remaining = <<>> /\ result = <<>> /\ names = <<>>
    /\ codes = [made |-> <<>>, raised |-> FALSE]
    /\ active = [what |-> "none", name |-> <<>>]
    /\ call = [of |-> <<>>, receiver |-> "none", ran |-> NoNode, outcome |-> "none"]
    /\ hits = {}
    /\ applied = [of |-> <<>>, tree |-> NoNode]

\* MutationVisitor.on_visit: a node that is skipped with everything below it
SkipNode ==
    /\ pc = "visit" /\ todo /= <<>>
    /\ _skip_node_and_children(Head(todo).node)
    /\ todo' = Tail(todo)
    /\ UNCHANGED <<pc, purpose, source, mutations, written, tested>>

\* MutationVisitor.on_visit: the mutations of a node, then its children
VisitNode ==
    /\ pc = "visit" /\ todo /= <<>>
    /\ LET entry == Head(todo)
           new == MutatedNodes(entry.node)
       IN  /\ ~_skip_node_and_children(entry.node)
           /\ mutations' = IF ~_should_mutate_node(entry.node) THEN mutations
                           ELSE mutations \o [i \in DOMAIN new |-> Mutation(entry, new[i])]
           /\ todo' = Children(entry) \o Tail(todo)
    /\ UNCHANGED <<pc, purpose, source, written, tested>>

----------------------------------------------------------------------------
RECURSIVE DeepReplace(_, _, _), Find(_, _)
\* the tree with the node that has this number replaced
DeepReplace(tree, old, new) ==
    IF tree.id = old THEN new
    ELSE [tree EXCEPT !.sub = [i \in DOMAIN tree.sub |-> DeepReplace(tree.sub[i], old, new)]]

\* the nodes of a tree that have this number: one or none
Find(tree, id) ==
    IF tree.id = id THEN {tree} ELSE UNION {Find(tree.sub[i], id) : i \in DOMAIN tree.sub}
NodeOf(id) == CHOOSE node \in Find(source.tree, id) : TRUE

\* generate_mutants: a mutation outside of every function has no function to replace in
GenerateMutants ==
    /\ pc = "visit" /\ todo = <<>> /\ purpose = "generate"
    /\ LET inside == \A i \in DOMAIN mutations : mutations[i].outer /= 0
           Code(m) == DeepReplace(NodeOf(m.outer), m.old, m.new)
       IN  codes' = [made |-> IF inside THEN [i \in DOMAIN mutations |-> Code(mutations[i])] ELSE <<>>,
                     raised |-> ~inside]
    /\ pc' = "generated"
    /\ UNCHANGED <<purpose, source, todo, mutations, remaining, result, names, tested>>

(***************************************************************************)
(* The mutated file is a sequence of items: a statement of the original    *)
(* that is kept, the implementation of the trampolines, a class with its   *)
(* items, and, for a function with mutants, the original, every mutant and *)
(* the trampoline.  A name is <<class, function, i>>, the mangled name     *)
(* with i the number of the mutant or 0 for the original; the class of a   *)
(* top-level function is "".                                               *)
(***************************************************************************)
Item(what, name, node, items) == [what |-> what, name |-> name, node |-> node, items |-> items]
Kept(node) == Item("kept", <<>>, node, <<>>)
trampoline_impl == Item("trampoline_impl", <<>>, NoNode, <<>>)

\* function.with_changes(name = ...)
Renamed(function, v) == WithSub(function, 1, Name(v))

function_trampoline_arrangement(function, mutants, class) ==
    LET mangled(i) == <<class, FunctionName(function), i>>
        mutant(i) == DeepReplace(Renamed(function, "mutant"), mutants[i].old, mutants[i].new)
    IN  <<Item("orig", mangled(0), Renamed(function, "orig"), <<>>)>>
        \o [i \in DOMAIN mutants |-> Item("mutant", mangled(i), mutant(i), <<>>)]
        \o <<Item("trampoline", mangled(0), NoNode, [i \in DOMAIN mutants |-> mangled(i)])>>

\* group_by_top_level_node
MutationsWithin(id) == SelectSeq(mutations, LAMBDA m : m.outer = id)

IsFunctionOrClass(node) == node.kind \in {"FunctionDef", "ClassDef"}
HasMutants(node) == node.kind = "FunctionDef" /\ MutationsWithin(node.id) /= <<>>
MutantNames(items) == FlattenSeq([i \in DOMAIN items |-> IF items[i].what = "trampoline"
                                                         THEN items[i].items ELSE <<>>])

\* get_statements_until_func_or_class: the number of them
Preamble(statements) ==
    SelectInSeq(statements \o <<Node(0, "ClassDef", 0, "", 0, <<>>)>>, IsFunctionOrClass) - 1

CombineStarts ==
    /\ pc = "visit" /\ todo = <<>> /\ purpose = "arrange"
    /\ LET statements == source.tree.sub
           n == Preamble(statements)
       IN  /\ result' = [i \in 1..n |-> Kept(statements[i])] \o <<trampoline_impl>>
           /\ remaining' = SubSeq(statements, n + 1, Len(statements))
    /\ pc' = "arrange"
    /\ UNCHANGED <<purpose, source, todo, mutations, names, codes, tested>>

\* the next statement is replaced by these items
Emit(items, new) ==
    /\ result' = result \o items
    /\ names' = names \o new
    /\ remaining' = Tail(remaining)
    /\ UNCHANGED <<pc, purpose, source, todo, mutations, codes, tested>>

ArrangeFunction ==
    /\ pc = "arrange" /\ remaining /= <<>>
    /\ LET function == Head(remaining)
           items == function_trampoline_arrangement(function, MutationsWithin(function.id), "")
       IN  HasMutants(function) /\ Emit(items, MutantNames(items))

ClassItems(class) ==
    LET Member(i) ==
            LET member == Body(class).sub[i]
            IN  IF HasMutants(member)
                THEN function_trampoline_arrangement(member, MutationsWithin(member.id), class.v)
                ELSE <<Kept(member)>>
    IN  Concat(Member, 1, Len(Body(class).sub))

ArrangeClass ==
    /\ pc = "arrange" /\ remaining /= <<>>
    /\ LET class == Head(remaining)
           items == ClassItems(class)
       IN  /\ class.kind = "ClassDef" /\ Indented(class)
           /\ Emit(<<Item("class", <<class.v>>, class, items)>>, MutantNames(items))

\* a function without mutants, a class in one line, any other statement
KeepStatement ==
    /\ pc = "arrange" /\ remaining /= <<>>
    /\ LET statement == Head(remaining)
       IN  /\ ~HasMutants(statement)
           /\ ~(statement.kind = "ClassDef" /\ Indented(statement))
           /\ Emit(<<Kept(statement)>>, <<>>)

CombineEnds ==
    /\ pc = "arrange" /\ remaining = <<>>
    /\ pc' = "written"
    /\ UNCHANGED <<purpose, source, todo, mutations, written, tested>>

Combine == CombineStarts \/ ArrangeFunction \/ ArrangeClass \/ KeepStatement \/ CombineEnds

----------------------------------------------------------------------------
\* what importing the mutated file binds: the last definition of a name counts
ItemsOf(class) ==
    IF class = "" THEN result
    ELSE result[SelectLastInSeq(result, LAMBDA i : i.what = "class" /\ i.name = <<class>>)].items
Defines(item, function) ==
    \/ item.what = "trampoline" /\ item.name[2] = function
    \/ item.what = "kept" /\ item.node.kind = "FunctionDef" /\ FunctionName(item.node) = function
Binding(class, function) ==
    LET items == ItemsOf(class)
    IN  items[SelectLastInSeq(items, LAMBDA i : Defines(i, function))]
BodyNamed(name) ==
    LET items == ItemsOf(name[1])
    IN  items[SelectLastInSeq(items, LAMBDA i : i.what \in {"orig", "mutant"} /\ i.name = name)].node

FunctionsOf(class) ==
    LET items == ItemsOf(class)
        Names(i) == CASE items[i].what = "trampoline" -> {items[i].name[2]}
                      [] items[i].what = "kept" /\ items[i].node.kind = "FunctionDef" ->
                            {FunctionName(items[i].node)}
                      [] OTHER -> {}
    IN  UNION {Names(i) : i \in DOMAIN items}
Classes == {""} \cup {result[i].name[1] : i \in {i \in DOMAIN result : result[i].what = "class"}}
Functions == UNION {{<<class, f>> : f \in FunctionsOf(class)} : class \in Classes}

(***************************************************************************)
(* _mutmut_trampoline, called for class and function on a receiver that is *)
(* "none" (a top-level function), true or false in a condition.  `if       *)
(* self_arg` looks at the truth value of the receiver.                     *)
(***************************************************************************)
Outcome(node, outcome) == [ran |-> node, outcome |-> outcome]
Trampoline_IgnoresClass(item, receiver) ==
    LET orig == BodyNamed(item.name)
        mine == Len(active.name) = 3 /\ active.name[2] = item.name[2]
    IN  CASE active.what = "fail" -> Outcome(NoNode, "MutmutProgrammaticFailException")
          [] ~mine -> Outcome(orig, "called")
          [] mine /\ ~Contains(item.items, active.name) -> Outcome(NoNode, "KeyError")
          [] OTHER -> Outcome(BodyNamed(active.name), "called")
Trampoline(item, receiver) ==
    LET orig == BodyNamed(item.name)
        mine == Len(active.name) = 3 /\ <<active.name[1], active.name[2]>> = <<item.name[1], item.name[2]>>
    IN  CASE active.what = "fail" -> Outcome(NoNode, "MutmutProgrammaticFailException")
          [] ~mine -> Outcome(orig, "called")
          [] mine /\ ~Contains(item.items, active.name) -> Outcome(NoNode, "KeyError")
          [] mine /\ Contains(item.items, active.name) /\ receiver = "false" ->
                Outcome(BodyNamed(active.name), "called without self")
          [] OTHER -> Outcome(BodyNamed(active.name), "called")

\* record_trampoline_hit, with the default max_stack_depth, which is no limit
Recorded(class, function) == IF active.what = "stats" THEN {<<class, function>>} ELSE {}

\* a test process imports the file, with some mutant under test
Import ==
    /\ pc = "written" /\ active.what = "none"
    /\ \/ \E what \in {"clean", "fail", "stats"} : active' = [what |-> what, name |-> <<>>]
       \/ \E name \in Range(names) : active' = [what |-> "mutant", name |-> name]
    /\ UNCHANGED <<pc, purpose, source, todo, mutations, written, call, hits, applied>>

\* a test calls a function of the file
Call(class, function, receiver) ==
    /\ pc = "written" /\ active.what /= "none"
    /\ (class = "") <=> (receiver = "none")
    /\ LET item == Binding(class, function)
       IN  IF item.what = "trampoline"
           THEN /\ call' = [of |-> <<class, function>>, receiver |-> receiver] @@ Trampoline(item, receiver)
                /\ hits' = hits \cup Recorded(class, function)
           ELSE /\ call' = [of |-> <<class, function>>, receiver |-> receiver] @@ Outcome(item.node, "called")
                /\ UNCHANGED hits
    /\ UNCHANGED <<pc, purpose, source, todo, mutations, written, active, applied>>

\* find_top_level_function_or_method: by the name alone, the first one counts
FirstNamed(function) ==
    LET Methods(class) == SelectSeq(Body(class).sub, LAMBDA s : s.kind = "FunctionDef")
        Candidates(i) ==
            LET s == source.tree.sub[i]
            IN  CASE s.kind = "FunctionDef" -> <<s>>
                  [] s.kind = "ClassDef" /\ Indented(s) -> Methods(s)
                  [] OTHER -> <<>>
        all == Concat(Candidates, 1, Len(source.tree.sub))
    IN  all[SelectInSeq(all, LAMBDA f : FunctionName(f) = function)]

\* the original and the mutant as functions of the source file, and what show prints
read_original_function(name) == Renamed(BodyNamed(<<name[1], name[2], 0>>), name[2])
read_mutant_function(name) == Renamed(BodyNamed(name), name[2])
get_diff_for_mutant(name) ==
    [orig_code |-> read_original_function(name), mutant_code |-> read_mutant_function(name)]

Apply_KeepsName(name) ==
    /\ pc = "written" /\ applied.of = <<>> /\ active.what = "none"
    /\ applied' = [of |-> name, tree |-> DeepReplace(source.tree, FirstNamed(name[2]).id, BodyNamed(name))]
    /\ UNCHANGED <<pc, purpose, source, todo, mutations, written, active, call, hits>>
\* apply_mutant
Apply(name) ==
    /\ pc = "written" /\ applied.of = <<>> /\ active.what = "none"
    /\ applied' = [of |-> name, tree |-> DeepReplace(source.tree, FirstNamed(name[2]).id,
                                                    read_mutant_function(name))]
    /\ UNCHANGED <<pc, purpose, source, todo, mutations, written, active, call, hits>>

CallSome ==
    \E f \in Functions, receiver \in {"none", "true", "false"} : Call(f[1], f[2], receiver)
ApplySome == \E name \in Range(names) : Apply(name)

Next == SkipNode \/ VisitNode \/ GenerateMutants \/ Combine \/ Import \/ CallSome \/ ApplySome
Spec == Init /\ [][Next]_vars

----------------------------------------------------------------------------
(* Every variable has a value of its type.                                 *)
Whats == {"none", "clean", "fail", "stats", "mutant"}
Outcomes == {"none", "called", "called without self", "KeyError",
             "MutmutProgrammaticFailException"}
TypeOK ==
    /\ pc \in {"visit", "arrange", "written", "generated"}
    /\ purpose \in Purposes /\ source \in Sources
    /\ \A m \in Range(mutations) : m.old \in Nat \ {0} /\ m.outer \in Nat
    /\ \A n \in Range(names) : Len(n) = 3 /\ n[3] > 0
    /\ active.what \in Whats /\ call.outcome \in Outcomes
    /\ hits \subseteq {<<n[1], n[2]>> : n \in Range(names)}
    /\ Range(codes.made) /= {} => ~codes.raised

\* a tree is the other one up to the numbers of names
RECURSIVE Differences(_, _)
\* how many nodes of two trees differ, those below a differing one not counted
Differences(a, b) ==
    IF \/ a.kind /= b.kind \/ a.v /= b.v \/ a.n /= b.n \/ Len(a.sub) /= Len(b.sub)
       \/ a.id /= b.id /\ a.kind /= "Name"
    THEN 1
    ELSE FoldFunction(+, 0, [i \in DOMAIN a.sub |-> Differences(a.sub[i], b.sub[i])])

RECURSIVE Restored(_)
\* the statements of a mutated file without what the mutants need
Restored(items) ==
    LET Original(i) ==
            CASE items[i].what = "kept" -> <<items[i].node>>
              [] items[i].what = "orig" -> <<Renamed(items[i].node, items[i].name[2])>>
              [] items[i].what = "class" ->
                    <<WithSub(items[i].node, Len(items[i].node.sub),
                              [Body(items[i].node) EXCEPT !.sub = Restored(items[i].items)])>>
              [] OTHER -> <<>>
    IN  Concat(Original, 1, Len(items))

(* Nothing of the file is lost, doubled or moved when its mutants are put  *)
(* in: without the mutants and the trampolines, and with the copies of the *)
(* original functions under their own names, the mutated file is the       *)
(* original, __future__ imports first (combine_mutations_to_source).       *)
NothingIsLost ==
    pc = "written" => Differences([source.tree EXCEPT !.sub = Restored(result)], source.tree) = 0

AllItems == result \o FlattenSeq([i \in DOMAIN result |-> result[i].items])
ItemLists == {result} \cup {result[i].items : i \in {i \in DOMAIN result : result[i].what = "class"}}

\* the numbers of the functions, or methods of the class, that have this name
Members(class) ==
    IF class = "" THEN source.tree.sub
    ELSE LET s == source.tree.sub
         IN  Body(s[SelectLastInSeq(s, LAMBDA c : c.kind = "ClassDef" /\ c.v = class)]).sub
FunctionIds(class, function) ==
    {f.id : f \in {f \in Range(Members(class)) : f.kind = "FunctionDef" /\ FunctionName(f) = function}}
\* the mutations that a mutant's name can stand for
MutationsNamed(name) ==
    UNION {{MutationsWithin(f)[i] : i \in DOMAIN MutationsWithin(f) \cap {name[3]}}
              : f \in FunctionIds(name[1], name[2])}

\* a string with a prefix may be replaced by a copy of itself, and the name
\* of a function that is itself called deepcopy has been replaced before
Void(m) == NodeOf(m.old).kind = "PrefixedString" \/ m.old = NodeOf(m.outer).sub[1].id

(* Every mutant differs from its original in exactly one place, whether it *)
(* stands in the mutated file or is a function of its own; it is no        *)
(* different only if it comes of a string with a prefix, or of the name of *)
(* the function in the mutated file (operator_string, deep_replace).       *)
OneChange ==
    /\ \A items \in ItemLists : \A i \in DOMAIN items :
          items[i].what = "mutant" =>
              LET orig == items[SelectLastInSubSeq(items, 1, i, LAMBDA x : x.what = "orig")]
                  changes == Differences(orig.node, Renamed(items[i].node, "orig"))
              IN  changes = 1 \/ (changes = 0 /\ \E m \in MutationsNamed(items[i].name) : Void(m))
    /\ \A i \in DOMAIN codes.made :
          LET changes == Differences(NodeOf(mutations[i].outer), codes.made[i])
          IN  changes = 1 \/ (changes = 0 /\ NodeOf(mutations[i].old).kind = "PrefixedString")

(* What runs when a function is defined, before any mutant is under test,  *)
(* is not mutated: its decorators, its annotations and its defaults, other *)
(* than names, numbers and strings.  The expressions of an f-string count  *)
(* as a string although they are evaluated (_skip_node_and_children).      *)
RunsWhenDefined(function) ==
    LET Simple(param) == Default(param).kind \in {"Name"} \cup Strings \cup Numbers
        Part(i) == IF function.sub[i].kind = "Param" /\ Simple(function.sub[i])
                   THEN WithSub(function.sub[i], Len(function.sub[i].sub), None)
                   ELSE function.sub[i]
    IN  [i \in 2..(Len(function.sub) - 1) |-> Part(i)]
DefinitionsAreSafe ==
    \A items \in ItemLists : \A i \in DOMAIN items :
        items[i].what = "mutant" =>
            LET orig == items[SelectLastInSubSeq(items, 1, i, LAMBDA x : x.what = "orig")]
            IN  RunsWhenDefined(items[i].node) = RunsWhenDefined(orig.node)

(* The mutated file is the original and its mutants: nothing is lost, each *)
(* mutant is one change at most, and none changes what runs when it is     *)
(* defined but for defaults that are taken to be simple.                   *)
MutatedFileIsSound ==
    /\ TypeOK
    /\ NothingIsLost
    /\ OneChange
    /\ DefinitionsAreSafe

Prefix(name) == <<name[1], name[2]>>
DefinedOnce(class, function) ==
    LET items == ItemsOf(class)
    IN  Cardinality({i \in DOMAIN items : Defines(items[i], function)}) = 1

(* The right body runs, across the names of mutants, the dictionaries, the *)
(* trampolines and MUTANT_UNDER_TEST: with a mutant under test its own     *)
(* function runs just that mutant and every other function its original;   *)
(* without one all run their originals, or raise if the tests are to fail. *)
(* A function that is defined twice and a receiver that is false are left  *)
(* aside: see the README.                                                  *)
RightBodyRuns ==
    (call.of /= <<>> /\ DefinedOnce(call.of[1], call.of[2]) /\ call.receiver /= "false") =>
        LET mutated == \E n \in Range(names) : Prefix(n) = call.of
        IN  IF mutated /\ active.what = "fail" THEN call.outcome = "MutmutProgrammaticFailException"
            ELSE /\ call.outcome = "called"
                 /\ IF mutated /\ active.what = "mutant" /\ Prefix(active.name) = call.of
                    THEN \E m \in MutationsNamed(active.name) :
                            call.ran = DeepReplace(Renamed(NodeOf(m.outer), "mutant"), m.old, m.new)
                    ELSE \E f \in FunctionIds(call.of[1], call.of[2]) :
                            Renamed(NodeOf(f), "") = Renamed(call.ran, "")

(* What the run with "stats" records of a call is what the keys of the     *)
(* function's mutants are looked up by, so no mutant is taken for one      *)
(* without tests (record_trampoline_hit, mangled_name_from_mutant_name).   *)
CallsAreFound ==
    (active.what = "stats" /\ \E n \in Range(names) : Prefix(n) = call.of) => call.of \in hits

(* A call through a trampoline runs the body that MUTANT_UNDER_TEST asks   *)
(* for, and is recorded under the name its mutants have.                   *)
CallsAreDispatched == RightBodyRuns /\ CallsAreFound

(* mutmut apply makes the change that show prints, in the function that    *)
(* the mutant is of and nowhere else, if no other function or method of    *)
(* the file has its name (apply_mutant, get_diff_for_mutant).              *)
ApplyChangesItsFunction ==
    (applied.of /= <<>> /\ (\A c \in Classes : applied.of[2] \in FunctionsOf(c) => c = applied.of[1])
                        /\ DefinedOnce(applied.of[1], applied.of[2])) =>
        /\ \E m \in MutationsNamed(applied.of) :
            \/ Differences(DeepReplace(source.tree, m.old, m.new), applied.tree) = 0
            \/ m.old = NodeOf(m.outer).sub[1].id
        /\ LET diff == get_diff_for_mutant(applied.of)
           IN  /\ Differences(diff.orig_code, diff.mutant_code) <= 1
               /\ diff.mutant_code \in Find(applied.tree, diff.mutant_code.id)
=============================================================================
