-------------------------- MODULE MCMutationAnalysis --------------------------
(* Two pull requests that the analysis takes and one beyond the cut-off;    *)
(* the second is any of several kinds of change.                            *)
EXTENDS MutationAnalysis

Fn(name, start, end, class, top, params) ==
    [name |-> name, start |-> start, end |-> end, class |-> class, top |-> top, params |-> params]
P(name, kind) == [name |-> name, kind |-> kind]
Import(dots, path, names) == [dots |-> dots, path |-> path, names |-> names]
Edit(line, del, ins) == [at |-> line, del |-> del, ins |-> ins]

\* a function, a class with two methods, a function with one inside
Usual == [parses |-> TRUE,
    functions |-> <<Fn("f", 2, 6, "", TRUE, <<P("a", "regular"), P("k", "keyword-only"), P("kw", "**kwargs")>>),
                    Fn("f", 9, 13, "C", FALSE, <<P("self", "regular"), P("args", "*args"), P("k", "keyword-only")>>),
                    Fn("g", 15, 20, "C", FALSE, <<P("self", "positional-only"), P("*", "bare star"), P("k", "keyword-only")>>),
                    Fn("h", 22, 29, "", TRUE, <<P("x", "regular")>>),
                    Fn("inner", 24, 28, "", FALSE, <<>>)>>,
    classes |-> <<[name |-> "C", start |-> 8, end |-> 20]>>,
    imports |-> <<Import(0, <<"pkg", "util">>, {"u"}), Import(1, <<"util">>, {"v"}), Import(2, <<>>, {"w"})>>]
Lonely == [Usual EXCEPT !.functions = <<Fn("f", 2, 9, "", TRUE, <<>>)>>, !.classes = <<>>]
Broken == [Usual EXCEPT !.parses = FALSE]

Change(old, edits) ==
    [module |-> <<"pkg", "mod">>, test |-> FALSE, old |-> old, lines |-> 33, edits |-> edits, comment |-> FALSE]
One(old, edits) == <<Change(old, edits)>>

Plain == One(Usual, <<Edit(25, 1, 2)>>)
SameName == One(Usual, <<Edit(4, 1, 1), Edit(12, 1, 1)>>)
AtTheEnd == One(Usual, <<Edit(20, 0, 4)>>)
WithTest == <<Plain[1], [Change(Usual, <<Edit(4, 1, 1)>>) EXCEPT !.test = TRUE],
              [Change(Lonely, <<Edit(5, 1, 1)>>) EXCEPT !.comment = TRUE, !.module = <<"pkg", "other">>]>>

MCPRs == {1, 2, 3}
MCContents == <<{Plain}, {SameName, AtTheEnd, One(Broken, <<Edit(4, 1, 1)>>), WithTest}, {Plain}>>
\* a change to the only thing a file defines
OnlyLonely == <<{One(Lonely, <<Edit(5, 1, 1)>>)}>>
MCSpecifications == <<<<"completed", "started">>, <<"none", "completed">>, <<"started", "completed">>>>
Line(text, names, def) == [text |-> text, names |-> names, def |-> def]
\* the third line repeats the second, the fourth calls the function
Function == <<Line("def", {"f"}, TRUE), Line("x = 1", {}, FALSE), Line("x = 1", {}, FALSE),
              Line("f(x)", {"f"}, FALSE), Line("return x", {}, FALSE)>>
MCCode == [p \in MCPRs |-> Function]
MCAdded == <<{2, 4}, {5}, {5}>>
Mutant(line, code) == [line |-> line, code |-> code]
MCMutants == <<<<Mutant(4, "b"), Mutant(3, "c"), Mutant(3, "c")>>, <<Mutant(2, "a"), Mutant(5, "c")>>, <<>>>>

\* a discussion that is cut off in the middle of its comments, one that is too long from
\* the start, and an issue; 9 does not exist
Entry(length, mentions) == [length |-> length, mentions |-> mentions]
MCItems == <<
    [kind |-> "pull", body |-> Entry(1, {2}), comments |-> <<Entry(2, {3, 9}), Entry(2, {1}), Entry(1, {})>>,
     reviews |-> <<Entry(5, {3})>>, commits |-> <<Entry(2, {}), Entry(2, {})>>],
    [kind |-> "pull", body |-> Entry(5, {1, 2}), comments |-> <<Entry(0, {3})>>,
     reviews |-> <<>>, commits |-> <<Entry(1, {})>>],
    [kind |-> "issue", body |-> Entry(1, {}), comments |-> <<Entry(1, {1}), Entry(1, {2})>>,
     reviews |-> <<>>, commits |-> <<>>]>>
Starts == {f.start : f \in Range(Usual.functions)}
MCProbes ==
    {Change(Usual, <<Edit(e[1], e[2], e[3])>>) :
        e \in {e \in (1..33) \X (0..3) \X {0, 1, 4} : Starts \cap (e[1] .. e[1] + e[2] - 1) = {}}}
=============================================================================
