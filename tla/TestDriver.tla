------------------------------ MODULE TestDriver ------------------------------
(***************************************************************************)
(* The text of a specification, a test driver, on its way through the      *)
(* prompts: patchguru/prompts, with analysis/TestDriverRepair.py and the   *)
(* executor.  The model answers with a driver that leaves out the code of  *)
(* the two versions; parse_answer takes it out of the answer, check_valid  *)
(* looks at it, insert_code puts the code in, and what is executed is      *)
(* shown to the model again when it is to be repaired, reviewed or         *)
(* generalised.  All of this splits strings at the headings of sections,   *)
(* so what matters is where an answer has which heading.                   *)
(*                                                                         *)
(* A text is a sequence of tokens: headings, fences, tags, and whatever    *)
(* else is told apart.  How often a stage asks is module SpecInfer's; here *)
(* a stage that may ask again does so, or gives up.                        *)
(***************************************************************************)
EXTENDS Naturals, Sequences, SequencesExt

CONSTANTS
    Codes,              \* what the versions of the function may be: [pre, post]
    available_import,   \* the imports that a driver is given
    Answers(_, _),      \* what the model may answer to a prompt that shows a driver
    Said,               \* the tokens of imports and checks that only answers have
    Modules,            \* those of them that are imports
    Definitions         \* token -> which of pre_f and post_f it defines

ASSUME ModulesAssumption == Modules \subseteq Said /\ Said \cap DOMAIN Definitions = {}
ASSUME DefinitionsAssumption ==
    \A c \in Codes : \A t \in DOMAIN Definitions :
        /\ t \in Range(c.pre) => Definitions[t] = "pre_f"
        /\ t \in Range(c.post) => Definitions[t] = "post_f"

VARIABLES
    code,       \* the versions, named pre_f and post_f
    stage,      \* what is done next, or "completed" or "failed"
    phase,
    driver,     \* states["specification"]
    accepted,   \* history: the stage that accepted the last answer, and what its tags enclosed
    output      \* what the last execution showed

vars == <<code, stage, phase, driver, accepted, output>>

None == <<"None">>
Source == "# Source Code of target function(s)"
Specification == "# Specification"
Before == "## Before Pull Request"
After == "## After Pull Request"
NeccessaryImports == "# Neccessary Imports"
Fences == {"fence python", "fence"}

(***************************************************************************)
(* str.index and str.split, as far as they are used.                       *)
(***************************************************************************)
Index(text, marks) == SelectInSeq(text, LAMBDA t : t \in marks)
Has(text, mark) == Index(text, {mark}) > 0
\* text.split(mark)[0]
UpTo(text, marks) ==
    IF Index(text, marks) = 0 THEN text ELSE SubSeq(text, 1, Index(text, marks) - 1)
From(text, marks) == SubSeq(text, Index(text, marks) + 1, Len(text))
\* text.split(mark)[1], where there is a mark
Piece(text, marks) == UpTo(From(text, marks), marks)

----------------------------------------------------------------------------
(* parse_answer: between the first opening and the first closing tag; of a *)
(* text with fences what is between two of them, from a fence with python if there *)
(* is one.                                                                 *)
Between(answer, open, close) == SubSeq(answer, Index(answer, {open}) + 1, Index(answer, {close}) - 1)

Unfenced(text) ==
    IF Index(text, Fences) = 0 THEN text
    ELSE IF Has(text, "fence python") THEN UpTo(From(text, {"fence python"}), Fences)
    ELSE Piece(text, {"fence"})

Tagged(answer, open, close) ==
    IF Has(answer, open) /\ Has(answer, close) THEN Unfenced(Between(answer, open, close)) ELSE None

IntentAnalysisPrompt_parse_answer(answer) == Tagged(answer, "<test_driver>", "</test_driver>")
BugTriggerPrompt_parse_answer(answer) == Tagged(answer, "<test_driver>", "</test_driver>")
AssertionErrorRepairPrompt_parse_answer(answer) == Tagged(answer, "<fixed_code>", "</fixed_code>")
RuntimeErrorRepairPrompt_parse_answer(answer) == Tagged(answer, "<fixed_code>", "</fixed_code>")
SyntaxErrorRepairPrompt_parse_answer(answer) == Tagged(answer, "<fixed_code>", "</fixed_code>")
SelfReviewPrompt_parse_answer(answer) ==
    IF Has(answer, "<conclusion>") /\ Has(answer, "</conclusion>")
    THEN Tagged(answer, "<test_driver>", "</test_driver>") ELSE None
Conclusion(answer) == Between(answer, "<conclusion>", "</conclusion>")

----------------------------------------------------------------------------
(* check_valid: the sections are there and the driver speaks of both       *)
(* versions.  A BUG needs no driver.                                       *)
HasSections(specification) == Has(specification, Source) /\ Has(specification, Specification)
CallsBoth(specification) ==
    LET test_driver == Piece(specification, {Specification})
    IN  Has(test_driver, "pre_f") /\ Has(test_driver, "post_f")

IntentAnalysisPrompt_check_valid(specification) == HasSections(specification) /\ CallsBoth(specification)
BugTriggerPrompt_check_valid(specification) == HasSections(specification) /\ CallsBoth(specification)
SelfReviewPrompt_check_valid(conclusion, specification) ==
    \/ conclusion = <<"BUG">>
    \/ conclusion = <<"MISMATCH">> /\ HasSections(specification) /\ CallsBoth(specification)

----------------------------------------------------------------------------
(* insert_code: everything between the two headings of the answer is       *)
(* replaced by the code of the pull request.                               *)
ImportPart(specification) == UpTo(specification, {Source})
Inserted(c, imports, specification) ==
    imports \o <<Source, Before>> \o c.pre \o <<After>> \o c.post
    \o <<Specification>> \o Piece(specification, {Specification})

\* the heading of the imports is written anew, before the imports that are given
WithAvailable_Replaces(specification) == <<NeccessaryImports>> \o available_import
WithAvailable(specification) ==
    <<NeccessaryImports>> \o available_import
    \o SelectSeq(ImportPart(specification), LAMBDA t : t /= NeccessaryImports)

IntentAnalysisPrompt_insert_code(c, specification) ==
    IF HasSections(specification) THEN Inserted(c, WithAvailable(specification), specification) ELSE None
BugTriggerPrompt_insert_code(c, specification) ==
    IF HasSections(specification) THEN Inserted(c, WithAvailable(specification), specification) ELSE None
AssertionErrorRepairPrompt_insert_code(c, specification) ==
    IF HasSections(specification) THEN Inserted(c, ImportPart(specification), specification) ELSE None
RuntimeErrorRepairPrompt_insert_code(c, specification) ==
    IF HasSections(specification) THEN Inserted(c, ImportPart(specification), specification) ELSE None
SyntaxErrorRepairPrompt_insert_code(c, specification) ==
    IF HasSections(specification) THEN Inserted(c, ImportPart(specification), specification) ELSE None
SelfReviewPrompt_insert_code_Twice(c, specification) ==
    IF HasSections(specification)
    THEN Inserted(c, WithAvailable(specification), specification) ELSE None
SelfReviewPrompt_insert_code(c, specification) ==
    IF HasSections(specification) THEN Inserted(c, ImportPart(specification), specification) ELSE None

----------------------------------------------------------------------------
(* TestDriverRepair.py: the error says which prompt is used, an            *)
(* AssertionError before a SyntaxError.                                    *)
repair_assertion_error(c, answer) ==
    AssertionErrorRepairPrompt_insert_code(c, AssertionErrorRepairPrompt_parse_answer(answer))
repair_syntax_error(c, answer) ==
    SyntaxErrorRepairPrompt_insert_code(c, SyntaxErrorRepairPrompt_parse_answer(answer))
repair_runtime_error(c, answer) ==
    RuntimeErrorRepairPrompt_insert_code(c, RuntimeErrorRepairPrompt_parse_answer(answer))
repair(c, error, answer) ==
    CASE error = "AssertionError of pre_f" -> repair_assertion_error(c, answer)
      [] error = "SyntaxError" -> repair_syntax_error(c, answer)
      [] OTHER -> repair_runtime_error(c, answer)

----------------------------------------------------------------------------
Init ==
    /\ code \in Codes
    /\ stage = "infer" /\ phase = 1
    /\ driver = None /\ accepted = [by |-> stage, text |-> None] /\ output = "none"

\* the stage asks again, or has no attempt left
AskAgain(same) == stage' \in {same, "failed"} /\ UNCHANGED <<code, phase, driver, accepted, output>>
GiveUp == stage' = "failed" /\ UNCHANGED <<code, phase, driver, accepted, output>>
Accept(text, enclosed) ==
    /\ driver' = text /\ accepted' = [by |-> stage, text |-> enclosed]
    /\ stage' = "execute"
    /\ UNCHANGED <<code, phase, output>>

\* analyze_intent: an answer without the tags ends it
Infer ==
    /\ stage = "infer"
    /\ \E answer \in Answers("intent", driver) :
          LET specification == IntentAnalysisPrompt_parse_answer(answer)
          IN  \/ specification = None /\ GiveUp
              \/ /\ specification /= None /\ ~IntentAnalysisPrompt_check_valid(specification)
                 /\ AskAgain("infer")
              \/ /\ specification /= None /\ IntentAnalysisPrompt_check_valid(specification)
                 /\ Accept(IntentAnalysisPrompt_insert_code(code, specification),
                           Between(answer, "<test_driver>", "</test_driver>"))

(***************************************************************************)
(* What an execution shows is up to the code.  A driver whose main function*)
(* is called before the versions are defined cannot show anything but an   *)
(* error; timeout(1) ends one that runs too long with another exit code.   *)
(***************************************************************************)
CallsTooEarly(text) == Index(text, {"main()"}) < Index(text, {Source})
MayShow(text) ==
    IF Has(text, "main()") /\ CallsTooEarly(text) THEN {"NameError"}
    ELSE {"ok", "AssertionError of pre_f", "AssertionError of post_f", "SyntaxError", "timeout"}

Execute ==
    /\ stage = "execute"
    /\ output' \in MayShow(driver)
    /\ stage' = CASE output' = "ok" -> "completed"
                  [] output' = "AssertionError of post_f" -> "review"
                  [] OTHER -> "repair"
    /\ UNCHANGED <<code, phase, driver, accepted>>

Repair ==
    /\ stage = "repair"
    /\ \E answer \in Answers("repair", driver) :
          LET fixed == repair(code, output, answer)
          IN  \/ fixed = None /\ AskAgain("repair")
              \/ fixed /= None /\ Accept(fixed, Between(answer, "<fixed_code>", "</fixed_code>"))

Review ==
    /\ stage = "review"
    /\ \E answer \in Answers("review", driver) :
          LET specification == SelfReviewPrompt_parse_answer(answer)
              Valid == SelfReviewPrompt_check_valid(Conclusion(answer), specification)
          IN  \/ specification = None /\ GiveUp
              \/ specification /= None /\ ~Valid /\ AskAgain("review")
              \/ /\ specification /= None /\ Valid /\ Conclusion(answer) = <<"BUG">>
                 /\ stage' = "completed" /\ UNCHANGED <<code, phase, driver, accepted, output>>
              \/ /\ specification /= None /\ Valid /\ Conclusion(answer) = <<"MISMATCH">>
                 /\ Accept(SelfReviewPrompt_insert_code(code, specification),
                           Between(answer, "<test_driver>", "</test_driver>"))

\* phase 2 starts from the driver of a phase 1 that found nothing
StartPhase2 ==
    /\ stage = "completed" /\ phase = 1 /\ output = "ok"
    /\ stage' = "generalize" /\ phase' = 2
    /\ UNCHANGED <<code, driver, accepted, output>>

Generalize ==
    /\ stage = "generalize"
    /\ \E answer \in Answers("trigger", driver) :
          LET specification == BugTriggerPrompt_parse_answer(answer)
          IN  \/ specification = None /\ GiveUp
              \/ /\ specification /= None /\ ~BugTriggerPrompt_check_valid(specification)
                 /\ AskAgain("generalize")
              \/ /\ specification /= None /\ BugTriggerPrompt_check_valid(specification)
                 /\ Accept(BugTriggerPrompt_insert_code(code, specification),
                           Between(answer, "<test_driver>", "</test_driver>"))

Next == Infer \/ Execute \/ Repair \/ Review \/ StartPhase2 \/ Generalize
Spec == Init /\ [][Next]_vars

----------------------------------------------------------------------------
(***************************************************************************)
(* do_mutation: the driver is taken apart once more, the new version is    *)
(* replaced by a mutant, and the heading of the last section is renamed.   *)
(***************************************************************************)
MutantDriver_SplitsAtAfter(c, text, mutant) ==
    UpTo(text, {After}) \o <<After>> \o mutant \o <<"# Formal Specification">> \o Piece(text, {After})
MutantDriver(c, text, mutant) ==
    UpTo(text, {Before}) \o <<Before>> \o c.pre \o <<After>> \o mutant
    \o <<"# Formal Specification">> \o Piece(text, {Specification})

----------------------------------------------------------------------------
HasDriver == stage \in {"execute", "repair", "review", "generalize", "completed"}

(* Every variable has a value of its type; None never gets executed.       *)
TypeOK ==
    /\ code \in Codes /\ phase \in {1, 2}
    /\ stage \in {"infer", "execute", "repair", "review", "generalize", "completed", "failed"}
    /\ HasDriver => driver /= None /\ HasSections(driver)

\* the format that the prompts ask for: both sections, in order, perhaps in one fence
InOrder(text) ==
    /\ \A mark \in {Source, Specification} : Len(SelectSeq(text, LAMBDA t : t = mark)) = 1
    /\ Index(text, {Source}) < Index(text, {Specification})
WellFormed(text) ==
    LET inner == IF Len(text) > 1 /\ text[1] \in Fences /\ Last(text) = "fence"
                 THEN SubSeq(text, 2, Len(text) - 1) ELSE text
    IN  Index(inner, Fences) = 0 /\ InOrder(inner)
\* the imports that insert_code adds to those of the answer
Added == IF accepted.by \in {"infer", "generalize"} THEN available_import ELSE <<>>
Kept(text) == SelectSeq(text, LAMBDA t : t \in Said \cup Range(available_import))
(* Of an answer in the format that was asked for nothing is lost on the    *)
(* way into the driver, neither imports nor checks, and the order is kept. *)
(* Inference and generalisation put the given imports first; repairs and   *)
(* the review leave it to the answer to repeat them.                       *)
NothingIsCut ==
    HasDriver /\ WellFormed(accepted.text) => Kept(driver) = Added \o Kept(accepted.text)

\* a later definition replaces an earlier one when a driver is executed
LastDefinition(text, version) ==
    Last(SelectSeq(text, LAMBDA t : t \in DOMAIN Definitions /\ Definitions[t] = version))
DefinesInChecks(text) == Range(Piece(text, {Specification})) \cap DOMAIN Definitions /= {}
(* What the checks compare are the versions of the pull request, before    *)
(* and after, also when the answer has versions of its own among the       *)
(* imports or in the section of the source, as when it gives back changed  *)
(* what it was shown.  Versions among the checks are the exception:        *)
(* nothing takes them out (insert_code of every prompt).                   *)
PRsCodeIsCompared ==
    HasDriver /\ WellFormed(accepted.text) /\ ~DefinesInChecks(accepted.text) =>
        /\ LastDefinition(driver, "pre_f") \in Range(code.pre)
        /\ LastDefinition(driver, "post_f") \in Range(code.post)

\* what is executed after the two versions
Versions == <<Before>> \o code.pre \o <<After>> \o code.post \o <<Specification>>
ChecksOf(text) == LET rest == From(text, {Source}) IN SubSeq(rest, Len(Versions) + 1, Len(rest))
(* A driver that was inferred, generalised or rewritten by the review is   *)
(* one whose checks speak of both versions, also when a function or the    *)
(* answer has a heading in an unexpected place: what check_valid has seen  *)
(* is what insert_code keeps.  Repairs are not checked.                    *)
CheckedCallsBoth ==
    HasDriver /\ accepted.by /= "repair" => {"pre_f", "post_f"} \subseteq Range(ChecksOf(driver))

(* A driver that is executed compares the two versions of the pull         *)
(* request, with all the checks of the answer it was made from, if that is *)
(* in the format (insert_code and check_valid of the prompts).             *)
DriverIsRight ==
    /\ TypeOK
    /\ PRsCodeIsCompared
    /\ NothingIsCut
    /\ CheckedCallsBoth

NoHeading(text) == Index(text, {Source, Specification, Before, After}) = 0
Harmless(c) == NoHeading(c.pre) /\ NoHeading(c.post)
WithoutGiven(text) ==
    SelectSeq(text, LAMBDA t : t /= NeccessaryImports /\ t \notin Range(available_import))
(* A model that gives back the driver it was shown, with or without a      *)
(* fence around it, changes nothing or is not understood: over any number  *)
(* of repairs and reviews nothing is doubled or shortened; and in phase 2  *)
(* only the given imports are, which are put before it once more.  Drivers *)
(* that have a heading twice, in a function or because an answer had, are  *)
(* the exception.                                                          *)
EchoIsStable ==
    HasDriver /\ InOrder(driver) =>
        \A echo \in {driver, <<"fence python">> \o driver \o <<"fence">>} :
            LET text == Unfenced(echo)
                general == BugTriggerPrompt_insert_code(code, text)
            IN  /\ general = None
                   \/ /\ WithoutGiven(general) = WithoutGiven(driver)
                      /\ Kept(general) = available_import \o Kept(driver)
                /\ {AssertionErrorRepairPrompt_insert_code(code, text), SyntaxErrorRepairPrompt_insert_code(code, text),
                    RuntimeErrorRepairPrompt_insert_code(code, text), SelfReviewPrompt_insert_code(code, text)}
                       \subseteq {driver, None}

(* The driver of a mutant that the mutation analysis makes from a finished *)
(* one compares the old version with the mutant, unless its checks have    *)
(* versions of their own, and has every check once, after them.            *)
MutantIsTested ==
    stage = "completed" /\ Harmless(code) =>
        LET text == MutantDriver(code, driver, <<"mutant">>)
            checks == SelectSeq(text, LAMBDA t : t \in Said \ Modules)
        IN  /\ checks = SelectSeq(From(driver, {Source}), LAMBDA t : t \in Said \ Modules)
            /\ Index(text, {"mutant"}) < Index(text, Said \ Modules) \/ checks = <<>>
            /\ ~\E t \in Range(code.post) : t \notin Range(code.pre) /\ Has(text, t)
            /\ ~DefinesInChecks(driver) =>
                   /\ LastDefinition(text, "pre_f") \in Range(code.pre)
                   /\ LastDefinition(text, "post_f") = "mutant"
=============================================================================
