---------------------------- MODULE PythonCodeUtil ----------------------------
(***************************************************************************)
(* What patchguru/utils/PythonCodeUtil.py reads from, and does to, Python  *)
(* source.  A file is whether it parses, its functions and classes in the  *)
(* order of the source with the lines they span, and its imports.  A       *)
(* function has a name, a first and a last line, the class it is a method  *)
(* of ("" if of none), whether it is at the top of the file, and its       *)
(* parameters with their kinds.  The code of a function is its lines; of a *)
(* line are kept its text, the names it defines or calls by themselves,    *)
(* and whether it is a def.                                                *)
(***************************************************************************)
EXTENDS Naturals, Sequences, SequencesExt

NoFunction == [name |-> "", start |-> 0, end |-> 0, class |-> "", top |-> FALSE, params |-> <<>>]

\* int((first + last) / 2) - 1 for a patch range
TargetLine(first, last) == ((first + last) \div 2) - 1

(***************************************************************************)
(* extract_target_function_by_range: the first function whose span holds   *)
(* the target line strictly inside.  The search breaks at the first one,   *)
(* so the case of several functions never comes up.                        *)
(***************************************************************************)
extract_target_function_by_range_Inclusive(file, first, last) ==
    LET target == TargetLine(first, last) + 1
        i == SelectInSeq(file.functions, LAMBDA f : f.start < target /\ target < f.end)
    IN  IF i = 0 THEN NoFunction ELSE file.functions[i]
extract_target_function_by_range(file, first, last) ==
    LET target == TargetLine(first, last)
        i == SelectInSeq(file.functions, LAMBDA f : f.start < target /\ target < f.end)
    IN  IF i = 0 THEN NoFunction ELSE file.functions[i]

\* get_top_level_function_and_class: the names; a file that does not parse has none
TopLevelNames(file) ==
    IF ~file.parses THEN {}
    ELSE {f.name : f \in {f \in Range(file.functions) : f.top}} \cup {c.name : c \in Range(file.classes)}

\* the last top-level class that holds the lines of a function, "" if none does
ContextClass(file, function) ==
    LET i == SelectLastInSeq(file.classes,
                LAMBDA c : /\ c.start <= function.start /\ function.start <= c.end
                           /\ c.start <= function.end /\ function.end <= c.end)
    IN  IF i = 0 THEN "" ELSE file.classes[i].name

\* extract_imported_modules: the names, with their aliases, per module as written;
\* a module is its number of leading dots and its path
extract_imported_modules(file) ==
    LET modules == {<<i.dots, i.path>> : i \in Range(file.imports)}
    IN  [m \in modules |-> UNION {i.names : i \in {i \in Range(file.imports) : <<i.dots, i.path>> = m}}]

\* convert_import_dict_to_string asserts that every module has imports
ImportsAssertionHolds(imports) == \A m \in DOMAIN imports : imports[m] /= {}

\* equal_modulo_docstrings: files that do not parse are compared as strings
equal_modulo_docstrings(change) ==
    IF change.old.parses THEN change.comment \/ change.edits = <<>> ELSE change.edits = <<>>

(***************************************************************************)
(* update_function_name renames every def of that name and every call of   *)
(* the bare name, not the calls of a method.                               *)
(***************************************************************************)
update_function_name(code, target_name, new_name) ==
    [i \in DOMAIN code |->
        IF target_name \in code[i].names
        THEN [code[i] EXCEPT !.names = (@ \ {target_name}) \cup {new_name}]
        ELSE code[i]]

(***************************************************************************)
(* The parameters that FunctionExtractor finds: those of kind "regular",   *)
(* *args if there is one that has a name, the keyword-only ones and        *)
(* **kwargs.  Positional-only ones and a bare star are not looked at.      *)
(* get_function_signature puts the star back on *args and **kwargs only.   *)
(***************************************************************************)
\* the order that the grammar of Python prescribes
GrammarOrder == [kind \in {"positional-only", "regular", "*args", "bare star", "keyword-only", "**kwargs"} |->
    CASE kind = "positional-only" -> 1
      [] kind = "regular" -> 2
      [] kind \in {"*args", "bare star"} -> 3
      [] kind = "keyword-only" -> 4
      [] kind = "**kwargs" -> 5]

OfKind(params, kinds) ==
    FlattenSeq([i \in DOMAIN params |-> IF params[i].kind \in kinds THEN <<params[i]>> ELSE <<>>])
_extract_parameters(params) ==
    OfKind(params, {"regular"}) \o OfKind(params, {"*args"}) \o OfKind(params, {"keyword-only"})
    \o OfKind(params, {"**kwargs"})

Stars(param) == CASE param.kind = "*args" -> 1 [] param.kind = "**kwargs" -> 2 [] OTHER -> 0
get_function_signature(function) ==
    LET params == _extract_parameters(function.params)
    IN  [name |-> function.name,
         params |-> [i \in DOMAIN params |-> [name |-> params[i].name, stars |-> Stars(params[i])]]]

=============================================================================
