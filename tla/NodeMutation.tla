----------------------------- MODULE NodeMutation -----------------------------
(***************************************************************************)
(* The mutations of one node: mutmut/mutmut/node_mutation.py.  A node of   *)
(* the concrete syntax tree is a record: what it is, the line it starts    *)
(* in, a name or other text v, a number n and its children sub.  An        *)
(* operator node (Add, IsNot, ...) is a child of its expression, as in     *)
(* libcst.  The text of a string is abstracted to the case of its letters, *)
(* the number of times XX was put around it is n; a string with a prefix   *)
(* (b"", r"", u"") is of kind PrefixedString.                              *)
(***************************************************************************)
EXTENDS Naturals, Sequences, SequencesExt

Node(id, kind, line, v, n, sub) ==
    [id |-> id, kind |-> kind, line |-> line, v |-> v, n |-> n, sub |-> sub]

Name(v) == Node(0, "Name", 0, v, 0, <<>>)
None == Name("None")
EmptyString == Node(0, "SimpleString", 0, "none", 0, <<>>)
Number(n) == Node(0, "Integer", 0, "", n, <<>>)

Is(node, kinds) == node.kind \in kinds
IsName(node, v) == node.kind = "Name" /\ node.v = v
WithSub(node, i, child) == [node EXCEPT !.sub[i] = child]
WithoutSub(node, i) == [node EXCEPT !.sub = RemoveAt(node.sub, i)]
OneIf(b, node) == IF b THEN <<node>> ELSE <<>>
Concat(F(_), from, to) == FlattenSeq([i \in 1..(to - from + 1) |-> F(from + i - 1)])

Numbers == {"Integer", "Float", "Imaginary"}
Strings == {"SimpleString", "PrefixedString", "FormattedString", "ConcatenatedString"}

operator_number(node) == <<[node EXCEPT !.n = node.n + 1]>>

Lower(node) == IF node.v \in {"mixed", "upper"} THEN [node EXCEPT !.v = "lower"] ELSE node
Upper(node) == IF node.v \in {"mixed", "lower"} THEN [node EXCEPT !.v = "upper"] ELSE node

Quoted(node) == node.kind \in {"SimpleString", "PrefixedString"} /\ node.v /= "triple quoted"
StringMutations(node) == <<[node EXCEPT !.n = node.n + 1], Lower(node), Upper(node)>>
operator_string_Unfiltered(node) == IF Quoted(node) THEN StringMutations(node) ELSE <<>>
\* a copy is passed over, unless there is a prefix: it is compared without it
operator_string(node) ==
    IF ~Quoted(node) THEN <<>>
    ELSE SelectSeq(StringMutations(node),
                   LAMBDA new : node.kind = "PrefixedString" \/ new /= node)

operator_lambda(node) ==
    LET body == Len(node.sub)
    IN  <<WithSub(node, body, IF IsName(node.sub[body], "None") THEN Number(0) ELSE None)>>

\* A call has the function as its first child and then the arguments; an
\* argument has n stars, and its keyword, if any, before its value.
Args(node) == 2..Len(node.sub)
HasKeyword(arg) == Len(arg.sub) = 2

operator_dict_arguments(node) ==
    LET Leading == {i \in Args(node) : \A j \in 2..i : HasKeyword(node.sub[j])}
        Renamed(i) == <<WithSub(node, i, [node.sub[i] EXCEPT !.sub[1].n = @ + 1])>>
    IN  IF IsName(node.sub[1], "dict") THEN Concat(Renamed, 2, 1 + Cardinality(Leading)) ELSE <<>>

operator_arg_removal(node) ==
    LET Nulled(i) ==
            LET arg == node.sub[i]
                value == Len(arg.sub)
            IN  OneIf(arg.n = 0 /\ ~IsName(arg.sub[value], "None"),
                      WithSub(node, i, WithSub(arg, value, None)))
        Removed(i) == <<WithoutSub(node, i)>>
    IN  Concat(Nulled, 2, Len(node.sub))
        \o (IF Cardinality(Args(node)) > 1 THEN Concat(Removed, 2, Len(node.sub)) ELSE <<>>)

SymmetricSwap ==
    LET Pairs == {<<"lower", "upper">>, <<"lstrip", "rstrip">>, <<"find", "rfind">>,
                  <<"ljust", "rjust">>, <<"index", "rindex">>,
                  <<"removeprefix", "removesuffix">>, <<"partition", "rpartition">>}
    IN  Pairs \cup {<<p[2], p[1]>> : p \in Pairs}
UnsymmetricalSwap == {<<"split", "rsplit">>, <<"rsplit", "split">>}

\* the method that a call names, "" if it does not call a method
Method(node) == IF node.sub[1].kind = "Attribute" THEN node.sub[1].sub[2].v ELSE ""
WithMethod(node, v) == [node EXCEPT !.sub[1].sub[2].v = v]
Swapped(node, swap) ==
    SetToSeq({WithMethod(node, p[2]) : p \in {p \in swap : p[1] = Method(node)}})

operator_symmetric_string_methods_swap(node) == Swapped(node, SymmetricSwap)

operator_unsymmetrical_string_methods_swap(node) ==
    IF \/ Cardinality(Args(node)) = 2
       \/ \E i \in Args(node) : HasKeyword(node.sub[i]) /\ node.sub[i].sub[1].v = "maxsplit"
    THEN Swapped(node, UnsymmetricalSwap)
    ELSE <<>>

operator_remove_unary_ops(node) ==
    OneIf(Is(node.sub[1], {"Not", "BitInvert"}), node.sub[2])

Both(a, b) == (a :> b) @@ (b :> a)
KeywordMapping ==
    Both("Is", "IsNot") @@ Both("In", "NotIn") @@ ("Break" :> "Return") @@ ("Continue" :> "Break")
OperatorMapping ==
    Both("Plus", "Minus") @@ Both("Add", "Subtract") @@ Both("Multiply", "Divide")
    @@ Both("LeftShift", "RightShift") @@ Both("BitAnd", "BitOr")
    @@ ("FloorDivide" :> "Divide") @@ ("Modulo" :> "Divide") @@ ("BitXor" :> "BitAnd")
    @@ ("Power" :> "Multiply")
    @@ Both("AddAssign", "SubtractAssign") @@ Both("MultiplyAssign", "DivideAssign")
    @@ Both("LeftShiftAssign", "RightShiftAssign") @@ Both("BitAndAssign", "BitOrAssign")
    @@ ("FloorDivideAssign" :> "DivideAssign") @@ ("ModuloAssign" :> "DivideAssign")
    @@ ("BitXorAssign" :> "BitAndAssign") @@ ("PowerAssign" :> "MultiplyAssign")
    @@ Both("LessThan", "LessThanEqual") @@ Both("GreaterThan", "GreaterThanEqual")
    @@ Both("Equal", "NotEqual") @@ Both("And", "Or")

\* the node class that a class is mapped to, a fresh node without anything
Mapped(node, mapping) ==
    IF node.kind \in DOMAIN mapping THEN <<Node(0, mapping[node.kind], 0, "", 0, <<>>)>> ELSE <<>>

operator_keywords(node) == Mapped(node, KeywordMapping)

NameMapping == Both("True", "False") @@ ("deepcopy" :> "copy")
operator_name(node) ==
    IF node.v \in DOMAIN NameMapping THEN <<[node EXCEPT !.v = NameMapping[node.v]]>> ELSE <<>>

\* the child of each kind of expression that is its operator
OperatorAt ==
    ("BinaryOperation" :> 2) @@ ("BooleanOperation" :> 2) @@ ("AugAssign" :> 2)
    @@ ("UnaryOperation" :> 1) @@ ("ComparisonTarget" :> 1)

operator_swap_op(node) ==
    IF node.kind \notin DOMAIN OperatorAt THEN <<>>
    ELSE LET at == OperatorAt[node.kind]
             new == Mapped(node.sub[at], OperatorMapping)
         IN  [i \in DOMAIN new |-> WithSub(node, at, new[i])]

operator_augmented_assignment(node) ==
    <<Node(0, "Assign", 0, "", 0, <<node.sub[1], node.sub[3]>>)>>

\* the value is the last child; an annotated assignment may have none
operator_assignment(node) ==
    LET value == Len(node.sub)
    IN  IF node.kind = "AnnAssign" /\ value = 2 THEN <<>>
        ELSE <<WithSub(node, value, IF IsName(node.sub[value], "None") THEN EmptyString ELSE None)>>

\* a match statement has its subject as the first child and then the cases
operator_match(node) ==
    LET Dropped(i) == <<WithoutSub(node, i)>>
    IN  IF Len(node.sub) > 2 THEN Concat(Dropped, 2, Len(node.sub)) ELSE <<>>

\* all mutated nodes of a node, in the order of the table of operators
MutatedNodes(node) ==
    (CASE node.kind \in Numbers -> operator_number(node)
       [] node.kind \in Strings -> operator_string(node)
       [] node.kind = "Name" -> operator_name(node)
       [] node.kind \in {"Assign", "AnnAssign"} -> operator_assignment(node)
       [] node.kind = "AugAssign" -> operator_augmented_assignment(node)
       [] node.kind = "UnaryOperation" -> operator_remove_unary_ops(node)
       [] node.kind = "Call" -> operator_dict_arguments(node) \o operator_arg_removal(node)
                                 \o operator_symmetric_string_methods_swap(node)
                                 \o operator_unsymmetrical_string_methods_swap(node)
       [] node.kind = "Lambda" -> operator_lambda(node)
       [] OTHER -> <<>>)
    \o operator_keywords(node) \o operator_swap_op(node)
    \o (IF node.kind = "Match" THEN operator_match(node) ELSE <<>>)

=============================================================================
