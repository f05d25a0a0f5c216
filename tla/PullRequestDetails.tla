-------------------------- MODULE PullRequestDetails --------------------------
(***************************************************************************)
(* What the prompts are told of a pull request: the first functions of     *)
(* patchguru/SpecInfer.py.  Its discussion is cut off at a number of       *)
(* characters; the pull requests and issues that are mentioned in what is  *)
(* left of the comments are looked up, and cut off in the same way; the    *)
(* two versions of the changed function are renamed.                       *)
(*                                                                         *)
(* A comment, a review comment or a commit message is its length and the   *)
(* numbers it mentions.  An item, a pull request or an issue, is its kind, *)
(* its body and the three sequences of those.                              *)
(***************************************************************************)
EXTENDS PullRequest

CONSTANTS
    Items,          \* the items of the repository on GitHub, by their numbers
    Limit,          \* 2000: what is shown of each part of a pull request
    ReferenceLimit  \* 1000: what is shown of each part of a reference

ASSUME LimitsAssumption == Limit \in Nat /\ ReferenceLimit \in Nat
ASSUME ItemsAssumption ==
    LET Entries == [length : Nat, mentions : SUBSET Nat]
    IN  \A n \in DOMAIN Items :
            /\ Items[n].body \in Entries
            /\ {Items[n].comments, Items[n].reviews, Items[n].commits} \subseteq Seq(Entries)

TotalLength(entries) == FoldLeft(LAMBDA n, e : n + e.length, 0, entries)
Mentioned(entries) == UNION {e.mentions : e \in Range(entries)}

\* entries are added to a text until one makes it too long, which ends it with a mark
Section(text, entries, limit) ==
    LET Fits(k) == \A n \in 1 .. k : TotalLength(text \o SubSeq(entries, 1, n)) <= limit
        k == Max({n \in 0 .. Len(entries) : Fits(n)})
    IN  [shown |-> text \o SubSeq(entries, 1, k), truncated |-> k < Len(entries)]

Parts(item, limit) ==
    [comments |-> Section(<<item.body>>, item.comments, limit),
     reviews |-> Section(<<>>, item.reviews, limit),
     commits |-> Section(<<>>, item.commits, limit)]

extract_pr_reference(n) ==
    [number |-> n, kind |-> "pull", parts |-> Parts(Items[n], ReferenceLimit)]
extract_issue_reference(n) ==
    [number |-> n, kind |-> "issue",
     parts |-> [comments |-> Section(<<Items[n].body>>, Items[n].comments, ReferenceLimit)]]

\* every pull request is an issue too, as which it is shown when GitHub refuses a part of it;
\* what is refused as both, or does not exist, is left out
extract_references(comments, refused, lost) ==
    LET found == (Mentioned(comments) \cap DOMAIN Items) \ lost
        AsPull(n) == Items[n].kind = "pull" /\ n \notin refused
    IN  {IF AsPull(n) THEN extract_pr_reference(n) ELSE extract_issue_reference(n) : n \in found}

extract_pr_details(n, refused, lost) ==
    LET parts == Parts(Items[n], Limit)
    IN  [parts |-> parts, references |-> extract_references(parts.comments.shown, refused, lost)]

\* the code of a function as it is shown, under the name its version has there
extract_fut_code(code, name, prefixed) == update_function_name(code, name, prefixed)

\* pre_fut_code and post_fut_code
prepare_information(prev, post, name, pre_name, post_name) ==
    [prev_fut_code |-> extract_fut_code(prev, name, pre_name),
     post_fut_code |-> extract_fut_code(post, name, post_name)]
=============================================================================
