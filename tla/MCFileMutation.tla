---------------------------- MODULE MCFileMutation ----------------------------
(* Four files: functions, methods and statements of every kind, the nodes   *)
(* that every operator mutates, names that are defined twice.               *)
EXTENDS FileMutation

\* nodes without numbers; RECURSIVE numbering in preorder
N(kind, v, sub) == Node(0, kind, 1, v, 0, sub)
Nm(v) == N("Name", v, <<>>)
Num(n) == [N("Integer", "", <<>>) EXCEPT !.n = n]
Str(v) == N("SimpleString", v, <<>>)
Prefixed(v) == N("PrefixedString", v, <<>>)
Arg(value) == N("Arg", "", <<value>>)
Kw(k, value) == N("Arg", "", <<Nm(k), value>>)
CallOf(f, args) == N("Call", "", <<f>> \o args)
Meth(f, args) == CallOf(N("Attribute", "", <<Nm("x"), Nm(f)>>), args)
Bin(op) == N("BinaryOperation", "", <<Nm("x"), N(op, "", <<>>), Num(1)>>)
Block(stmts) == N("IndentedBlock", "", stmts)
Def(name, parts, stmts) == N("FunctionDef", "", <<Nm(name)>> \o parts \o <<Block(stmts)>>)
Param(v, rest) == N("Param", "", <<Nm(v)>> \o rest)
Decorator == N("Decorator", "", <<CallOf(Nm("app"), <<Arg(Str("lower"))>>)>>)
Annotation == N("Annotation", "", <<Str("mixed")>>)
Assign(value) == N("Assign", "", <<Nm("y"), value>>)
At(line, node) == [node EXCEPT !.line = line]

RECURSIVE Size(_), Numbered(_, _)
Size(tree) == 1 + FoldFunction(+, 0, [i \in DOMAIN tree.sub |-> Size(tree.sub[i])])
Numbered(tree, id) ==
    LET Before(i) == FoldFunction(+, 0, [j \in 1..(i - 1) |-> Size(tree.sub[j])])
    IN  [tree EXCEPT !.id = id,
                     !.sub = [i \in DOMAIN tree.sub |-> Numbered(tree.sub[i], id + 1 + Before(i))]]
File(statements, ignored) ==
    [tree |-> Numbered(N("Module", "", statements), 1), ignored |-> ignored]

Layout == File(
    << N("ImportFrom", "__future__", <<>>),
       Assign(Num(1)),
       Def("f", <<Param("x", <<Annotation, Num(1)>>), Param("y", <<CallOf(Nm("abs"), <<Arg(Num(1))>>)>>),
               Param("z", <<N("FormattedString", "", <<Bin("Add")>>)>>)>>,
           <<N("Return", "", <<Bin("Add")>>)>>),
       Assign(Str("mixed")),
       N("ClassDef", "C", <<Arg(Nm("Base")), Block(
          << Assign(Num(2)),
             Def("f", <<Param("self", <<>>)>>, <<N("Return", "", <<Str("mixed")>>)>>),
             Def("g", <<Decorator, Param("self", <<>>)>>, <<Assign(Num(3))>>),
             Def("__new__", <<Param("cls", <<>>)>>, <<Assign(Num(3))>>) >>)>>),
       N("ClassDef", "D", <<Arg(Nm("Base")), N("SimpleStatementSuite", "", <<Assign(Num(1))>>)>>),
       Def("h", <<>>, <<N("Pass", "", <<>>)>>),
       CallOf(Nm("main"), <<Arg(Nm("True"))>>) >>, {})

Operators == File(
    << Def("f", <<Param("x", <<>>)>>,
           << Assign(CallOf(Nm("dict"), <<Kw("a", Nm("x")), Kw("b", None), Arg(Num(1))>>)),
              Meth("split", <<Arg(Str("none")), Kw("maxsplit", Num(1))>>),
              Meth("lower", <<>>),
              Meth("rsplit", <<[Arg(Nm("z")) EXCEPT !.n = 1]>>),
              N("AugAssign", "", <<Nm("x"), N("AddAssign", "", <<>>), N("Float", "", <<>>)>>),
              N("AnnAssign", "", <<Nm("x"), Annotation>>),
              N("AnnAssign", "", <<Nm("x"), Annotation, None>>),
              N("UnaryOperation", "", <<N("Not", "", <<>>), Nm("x")>>),
              N("UnaryOperation", "", <<N("Minus", "", <<>>), Num(1)>>),
              N("Comparison", "", <<Nm("x"), N("ComparisonTarget", "", <<N("IsNot", "", <<>>), None>>)>>),
              N("Comparison", "", <<Nm("x"), N("ComparisonTarget", "", <<N("Equal", "", <<>>), None>>)>>) >>),
       Def("g", <<Annotation>>,
           << Assign(N("Lambda", "", <<Param("x", <<Num(1)>>), None>>)),
              Assign(N("Lambda", "", <<CallOf(Nm("len"), <<Arg(Nm("True"))>>)>>)),
              N("Match", "", <<Nm("x"), N("MatchCase", "", <<Num(1)>>), N("MatchCase", "", <<Num(2)>>)>>),
              N("While", "", <<N("BooleanOperation", "", <<Nm("x"), N("And", "", <<>>), Nm("y")>>),
                               N("Break", "", <<>>), N("Continue", "", <<>>)>>),
              Str("triple quoted"), Str("upper"), Prefixed("lower"), Prefixed("triple quoted"),
              N("FormattedString", "", <<Bin("Power")>>),
              At(2, Assign(At(2, Nm("True")))) >>) >>, {2})

Twice == File(
    << Def("deepcopy", <<>>, <<N("Return", "", <<Bin("Modulo")>>)>>),
       Def("f", <<>>, <<N("Return", "", <<Bin("FloorDivide")>>)>>),
       Def("f", <<>>, <<N("Return", "", <<Nm("False")>>)>>),
       N("ClassDef", "C", <<Block(<<Def("m", <<Param("self", <<>>)>>, <<Assign(Nm("x"))>>)>>)>>),
       N("ClassDef", "D", <<Block(<<Def("m", <<Param("self", <<>>)>>, <<Assign(Num(0))>>),
                                    Def("k", <<Param("self", <<>>)>>, <<Assign(None)>>)>>)>>),
       N("ClassDef", "E", <<Decorator, Block(<<Def("m", <<Param("self", <<>>)>>, <<Assign(Nm("x"))>>)>>)>>) >>,
    {})

Single == File(<<Def("post_f", <<Param("x", <<Str("lower")>>)>>,
                     <<Def("inner", <<Decorator>>, <<Assign(Num(1))>>),
                       N("Return", "", <<CallOf(Nm("post_f"), <<Arg(Nm("x")), Arg(Nm("x"))>>)>>)>>)>>, {})

MCSources == {Layout, Operators, Twice, Single}
MCPurposes == {"arrange", "generate"}
=============================================================================
