----------------------------- MODULE MCTestDriver -----------------------------
(* Answers in the format that was asked for, and answers that are not: with *)
(* versions of their own, with other fences, without a section or a tag,    *)
(* with sections in another order or twice.                                 *)
EXTENDS TestDriver

Plain == [pre |-> <<"old">>, post |-> <<"new">>]
\* a docstring with an example, a comment like a heading
Docstring == [pre |-> <<"old", "fence python", "example", "fence">>, post |-> <<"new", "fence", "example", "fence">>]
Comment == [pre |-> <<"old">>, post |-> <<"new", Specification, "more">>]
MCCodes == {Plain, Docstring, Comment}

MCAvailable == <<"given">>
MCModules == {"numpy"}
MCSaid == MCModules \cup {"check", "case"}
MCDefinitions ==
    ("old" :> "pre_f") @@ ("invented old" :> "pre_f")
    @@ ("new" :> "post_f") @@ ("invented new" :> "post_f") @@ ("mutant" :> "post_f")

Imports == <<NeccessaryImports, "numpy">>
Holes == <<Before, "pre_f", "hole", After, "post_f", "hole">>
Checks == <<"check", "pre_f", "post_f", "main()">>
Driver(source, checks) == Imports \o <<Source>> \o source \o <<Specification>> \o checks

Usual == Driver(Holes, Checks)
Bodies == {
    Usual,
    <<"fence python">> \o Usual \o <<"fence">>,
    <<"fence">> \o Usual \o <<"fence">>,
    Driver(<<Before, "pre_f", "invented old", After, "post_f", "invented new">>, Checks),
    <<"invented new">> \o Usual,
    Driver(Holes, <<"invented new">> \o Checks),
    Driver(Holes, <<"check", "main()">>),
    Driver(Holes, Checks \o <<Specification, "case">>),
    Imports \o <<Specification>> \o Checks \o <<Source>> \o Holes,
    Imports \o <<"fence python", Source>> \o Holes \o <<Specification>> \o Checks \o <<"fence">>,
    Imports \o <<Specification>> \o Checks}

\* what was shown, with one case more, at most MaxCases of them
MaxCases == 2
More(shown) ==
    IF Len(SelectSeq(shown, LAMBDA t : t = "case")) < MaxCases THEN shown \o <<"case">> ELSE shown

Wrap(open, body, close) == <<open>> \o body \o <<close>>
Wraps(open, bodies, close) ==
    {Wrap(open, b, close) : b \in bodies} \cup {<<open>> \o Usual, Wrap(close, Usual, open)}
MCAnswers(prompt, shown) ==
    CASE prompt = "intent" -> Wraps("<test_driver>", Bodies, "</test_driver>")
      [] prompt = "trigger" -> Wraps("<test_driver>", {More(shown), Usual}, "</test_driver>")
      [] prompt = "repair" -> Wraps("<fixed_code>", Bodies \cup {shown, More(shown)}, "</fixed_code>")
      [] prompt = "review" ->
            {<<"<conclusion>">> \o c \o <<"</conclusion>">> \o answer :
                c \in {<<"BUG">>, <<"MISMATCH">>, <<"BUG", "MISMATCH">>},
                answer \in Wraps("<test_driver>", {Usual, shown, <<>>, Driver(Holes, <<"check", "main()">>)},
                                 "</test_driver>")}
=============================================================================
