------------------------------- MODULE TestLogs -------------------------------
(***************************************************************************)
(* What patchguru/experiments/RegressionTestsCoverage.py reads from the    *)
(* output of pytest: which tests call the instrumented function, and       *)
(* whether a mutant made one fail.                                         *)
(*                                                                         *)
(* An output is a sequence of lines, a line a sequence of words.  A test   *)
(* begins a line with its id; then come the words it prints, on this line  *)
(* and on others, and its outcome.  An id that has a space is two words,   *)
(* the first with a bracket that is not closed.                            *)
(***************************************************************************)
EXTENDS Naturals, Sequences, SequencesExt

CONSTANTS
    Ids,        \* the words that start with the folder of the tests
    Unclosed,   \* those of them with more opening brackets than closing ones
    Base        \* Base[id]: the id up to its first bracket

ASSUME IdsAssumption == Unclosed \subseteq Ids /\ Base \in [Ids -> Ids]

PRINT_STRING == "PatchGuru: Function called !!!"
START_MARKER == "test session starts"
Rule == "==="           \* begins the lines between two parts of the output
Progress == "[ 33%]"
Brackets == {Progress, "[text"}     \* the words that begin with a bracket
Failures == {"FAILED", "ERROR"}

StartsWith(line, words) == line /= <<>> /\ Head(line) \in words

-----------------------------------------------------------------------------
(***************************************************************************)
(* The loop that both functions have: the lines are collected test by      *)
(* test, from the start of the session to the next rule.  Without one the  *)
(* last test is not looked at.                                             *)
(***************************************************************************)
Start0 == [is_start |-> FALSE, over |-> FALSE, current |-> <<>>, tests |-> <<>>]
Closed(reading) == [reading EXCEPT !.tests = @ \o reading.current, !.current = <<>>]

Read(reading, line) ==
    CASE reading.over -> reading
      [] ~reading.over /\ Contains(line, START_MARKER) -> [reading EXCEPT !.is_start = TRUE]
      [] ~reading.over /\ ~Contains(line, START_MARKER) ->
           IF StartsWith(line, {Rule}) THEN [Closed(reading) EXCEPT !.over = TRUE]
           ELSE IF ~reading.is_start THEN reading
           ELSE IF StartsWith(line, Ids)
           THEN [Closed(reading) EXCEPT !.current = <<[id |-> Head(line), log |-> Tail(line)]>>]
           ELSE [reading EXCEPT !.current = [i \in DOMAIN @ |-> [@[i] EXCEPT !.log = @ \o line]]]

TestsIn(output) == ToSet(FoldLeft(Read, Start0, output).tests)

\* status by the last word of the log
extract_output_logs_single(output) ==
    {t.id : t \in {t \in TestsIn(output) :
        Contains(t.log, PRINT_STRING) /\ Last(t.log) = "PASSED"}}

\* status by what is before the first bracket
BeforeBracket(log) ==
    LET i == SelectInSeq(log, LAMBDA w : w \in Brackets)
    IN  IF i = 0 THEN log ELSE SubSeq(log, 1, i - 1)
check_output_logs_single_LastWord(output) ==
    \E t \in TestsIn(output) : t.log /= <<>> /\ Last(t.log) \in Failures
check_output_logs_single(output) ==
    \E t \in TestsIn(output) : \E status \in Failures : BeforeBracket(t.log) = <<status>>

\* what is put on the command line for the tests of the mutants
fixed_relevant_test_cases(tests, keras) ==
    {IF t \in Unclosed \/ keras THEN Base[t] ELSE t : t \in tests}

-----------------------------------------------------------------------------
(***************************************************************************)
(* pytest -s: a session is its tests and whether it comes to its end.  A   *)
(* test is the words of its id, the lines it prints, the last of which its *)
(* outcome is put on, the outcome, whether text without a space is before  *)
(* or, from a teardown, after it, and whether the progress is shown.       *)
(***************************************************************************)
Glued == "textPASSED"
LinesOf(test) ==
    LET n == Len(test.printed)
        outcome == <<IF test.glued THEN Glued ELSE test.outcome>> \o (IF test.progress THEN <<Progress>> ELSE <<>>)
        Printed(i) == test.printed[i] \o (IF i = n THEN outcome ELSE <<>>)
    IN  [i \in 1..n |-> IF i = 1 THEN test.id \o Printed(i) ELSE Printed(i)]

PyTest(session) ==
    <<<<"building">>, <<Rule, START_MARKER>>, <<"collected">>>>
    \o FoldLeft(LAMBDA lines, test : lines \o LinesOf(test), <<>>, session.tests)
    \o (IF session.ends THEN <<<<Rule, "short test summary">>>> ELSE <<>>)

Passed(test) == test.outcome = "PASSED"
Calls(test) == \E i \in DOMAIN test.printed : Contains(test.printed[i], PRINT_STRING)
Failed(test) == test.outcome \in Failures
\* nothing is printed and the id is a single word
Plain(test) == test.printed = <<<<>>>> /\ Len(test.id) = 1 /\ ~test.glued

\* what a test prints that is taken for a line of pytest's own
Interrupts(test) ==
    \/ \E i \in DOMAIN test.printed : Contains(test.printed[i], START_MARKER)
    \/ \E i \in DOMAIN test.printed \ {1} : StartsWith(test.printed[i], {Rule} \cup Ids)
\* what a test prints that is taken for its outcome
PrintsFailure(test) ==
    LET log == Tail(test.id) \o FlattenSeq(test.printed)
    IN  Len(log) > 1 /\ log[1] \in Failures /\ log[2] \in Brackets
\* a session in which a test that calls and passes may be missed
Confusing(session) ==
    \E i \in DOMAIN session.tests :
        LET test == session.tests[i]
        IN  Interrupts(test) \/ (test.glued /\ Passed(test) /\ Calls(test))
=============================================================================
