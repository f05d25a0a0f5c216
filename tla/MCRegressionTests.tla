--------------------------- MODULE MCRegressionTests ---------------------------
(* Three pull requests, two of them on one file; sessions of at most two    *)
(* tests, some with a space in their id, some that print, also what looks   *)
(* like a line or an outcome of pytest.                                     *)
EXTENDS RegressionTests, TLC

CONSTANTS p, q, r, a, b, m1, m2

MCFile == p :> a @@ q :> a @@ r :> b
MCVersion == a :> (p :> 1 @@ q :> 2 @@ r :> 2) @@ b :> (p :> 3 @@ q :> 3 @@ r :> 4)

MCIds == {"t", "u", "u[1]", "u[x"}
MCUnclosed == {"u[x"}
MCBase == "t" :> "t" @@ "u" :> "u" @@ "u[1]" :> "u" @@ "u[x" :> "u"

Test(id, printed, outcome, progress) ==
    [id |-> id, printed |-> printed, outcome |-> outcome, glued |-> FALSE, progress |-> progress]
Quiet == {<<<<>>>>, <<<<PRINT_STRING>>>>, <<<<"text", PRINT_STRING, "text">>, <<>>>>, <<<<"text">>, <<"text">>>>}
Odd == {<<<<PRINT_STRING>>, <<Rule, "text">>>>, <<<<PRINT_STRING>>, <<START_MARKER>>>>,
        <<<<START_MARKER>>, <<PRINT_STRING>>, <<>>>>, <<<<PRINT_STRING>>, <<"u", "text">>>>,
        <<<<"text">>, <<"t", "FAILED">>, <<"[text">>>>, <<<<"FAILED", "[text">>, <<>>>>, <<<<"[text", "ERROR">>>>}
Printing == Quiet \cup Odd
First == {Test(<<"t">>, <<<<PRINT_STRING>>>>, "PASSED", FALSE), Test(<<"t">>, <<<<>>>>, "FAILED", FALSE),
          Test(<<"t">>, <<<<>>>>, "PASSED", TRUE)}
Second == {Test(id, printed, outcome, progress) :
            id \in {<<"u[1]">>, <<"u[x", "y]">>}, printed \in Printing, outcome \in {"PASSED", "FAILED"}, progress \in BOOLEAN}
Pairs == {x \in First \X Second : x[1].progress = x[2].progress}
Single == {<<Test(<<"t">>, printed, outcome, FALSE)>> : printed \in Printing, outcome \in {"PASSED", "ERROR", "SKIPPED"}}
Glue(test) == [test EXCEPT !.glued = TRUE]
Touching == {<<Glue(x[1])>> : x \in Single} \cup {<<x[1], Glue(x[2])>> : x \in Pairs}
MCSessions == [tests: {<<>>} \cup Single \cup Pairs \cup Touching, ends: BOOLEAN]
=============================================================================
