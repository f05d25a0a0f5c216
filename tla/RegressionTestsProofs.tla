------------------------- MODULE RegressionTestsProofs -------------------------
(***************************************************************************)
(* Theorems about RegressionTests, for any number of pull requests, files  *)
(* and mutants, and deaths in any step and inside any write.               *)
(***************************************************************************)
EXTENDS RegressionTests, FiniteSetTheorems, TLAPS

Working ==
    {"Splice", "Write", "RunAll", "SaveRelevant", "Restore", "Filtered", "Loop", "RunTests"}
Results == [mutant: Mutants, verdict: Verdicts, of: [Files -> Contents]]
AtMostOne(S) == \A x, y \in S : x = y

(***************************************************************************)
(* The type invariant without its numbers, which only Counting bounds.     *)
(***************************************************************************)
Shape ==
    /\ pc \in Working \cup {"idle", "down"}
    /\ pr \in PRs /\ commit \in PRs
    /\ body \in {"print"} \cup Mutants
    /\ updated \in Contents
    /\ todo \subseteq Mutants
    /\ killed \in Nat /\ survived \in Nat
    /\ file \in [Files -> Contents]
    /\ backup \in [Files -> SUBSET Contents]
    /\ output \in [PRs -> SUBSET Outputs]
    /\ relevant \in [PRs -> SUBSET Found]
    /\ results \in [PRs -> SUBSET Results]
    /\ summary \in [PRs -> SUBSET Summaries]
    /\ deaths \in 0 .. MaxDeaths
Singular ==
    \A p \in PRs :
        /\ AtMostOne(output[p]) /\ AtMostOne(relevant[p]) /\ AtMostOne(summary[p])
        /\ IsFiniteSet(results[p])

(***************************************************************************)
(* What the working tree and the backups are at each place: one function   *)
(* differs, in the file whose original is beside it, and only between the  *)
(* write and the restoration.                                              *)
(***************************************************************************)
NoBackups == [f \in Files |-> {}]
OneBackup == [f \in Files |-> IF f = Target THEN {Original(f, pr)} ELSE {}]
TreeInv ==
    /\ pc \in Working => commit = pr
    /\ pc \in {"idle", "Filtered", "Loop", "Splice"} => file = Tree(commit) /\ backup = NoBackups
    /\ pc = "Write" => /\ file = Tree(commit)
                       /\ updated = [Original(Target, pr) EXCEPT !.body = body]
    /\ pc \in {"RunAll", "SaveRelevant", "RunTests", "Restore"} => file = TreeWith(pr, body)
    /\ pc \in {"Write", "RunAll", "SaveRelevant", "RunTests", "Restore"} => backup = OneBackup
    /\ pc \in {"RunAll", "SaveRelevant"} => body = "print"
    /\ pc = "RunTests" => body \in Mutants

(***************************************************************************)
(* The tests of a function are looked for once, before its mutants.        *)
(***************************************************************************)
Looking == pc \in {"RunAll", "SaveRelevant"} \/ (pc \in {"Splice", "Write"} /\ body = "print")
Testing == pc \in {"Loop", "RunTests"} \/ (pc \in {"Splice", "Write", "Restore"} /\ body \in Mutants)
ListInv ==
    /\ Looking => relevant[pr] = {}
    /\ pc \in Working /\ ~Looking => relevant[pr] # {}
    /\ Testing => relevant[pr] # {"none"}
    /\ \A p \in PRs : summary[p] # {} => relevant[p] # {}

(***************************************************************************)
(* The counters are compared with the mutants that a file says were killed *)
(* or survived, of which an earlier process may have saved some.  A mutant *)
(* is pending until its result is saved; the pending ones do not count.    *)
(***************************************************************************)
Current == IF pc \in {"Splice", "Write", "RunTests"} THEN {body} ELSE {}
Pending == todo \cup Current
SavedAs(p, v) == {m \in Mutants : \E x \in results[p] : x.mutant = m /\ x.verdict = v}
Counters ==
    /\ killed + survived <= Cardinality(Mutants)
    /\ Testing =>
         /\ Current \cap todo = {}
         /\ killed + survived + Cardinality(Pending) = Cardinality(Mutants)
         /\ killed <= Cardinality(SavedAs(pr, "killed") \ Pending)
         /\ survived <= Cardinality(SavedAs(pr, "survived") \ Pending)
CountedOnce ==
    \A p \in PRs : \A s \in summary[p] : s.whole /\ relevant[p] # {"none"} =>
        /\ s.killed + s.survived = Cardinality(Mutants)
        /\ \A v \in Verdicts : s[v] <= Cardinality(SavedAs(p, v))
Counting == Counters /\ CountedOnce

IInv == Shape /\ Singular /\ TreeInv /\ ListInv /\ ResultsAreOfMutants /\ Counting
-----------------------------------------------------------------------------
(* A file of the working tree with another body of one function is a file. *)
LEMMA TreeTypes ==
    ASSUME NEW p \in PRs, NEW new \in Bodies
    PROVE  /\ Tree(p) \in [Files -> Contents]
           /\ TreeWith(p, new) \in [Files -> Contents]
           /\ \A f \in Files : Original(f, p) \in Contents
           /\ File[p] \in Files
           /\ TreeWith(p, new) = [f \in Files |-> IF f = File[p] THEN [Original(f, p) EXCEPT !.body = new]
                                                                 ELSE Original(f, p)]
<1>1. \A f \in Files : Original(f, p) \in Contents
  BY DEF Original, Contents, Versions, Bodies
<1>2. Tree(p) \in [Files -> Contents]
  BY <1>1 DEF Tree
<1>3. File[p] \in Files
  BY FilesAssumption
<1>4. [Original(File[p], p) EXCEPT !.body = new] \in Contents
  BY <1>1, <1>3 DEF Contents
<1>5. TreeWith(p, new) = [f \in Files |-> IF f = File[p] THEN [Original(f, p) EXCEPT !.body = new]
                                                          ELSE Original(f, p)]
  BY <1>3 DEF TreeWith, Tree
<1> QED
  BY <1>1, <1>2, <1>3, <1>4, <1>5

(* The tests of a mutant say one of two things.                            *)
LEMMA ShownTypes == Shown \subseteq Verdicts
  BY DEF Shown, Verdicts

(* What the code puts between the lines of the function.                   *)
LEMMA ReplaceTypes ==
    ASSUME NEW c \in Contents, NEW new \in Bodies
    PROVE  ReplaceCode(c, new) \in Contents
  BY DEF ReplaceCode, Contents, Bodies

LEMMA ShapeInit == Init => Shape
<1> SUFFICES ASSUME Init PROVE Shape
  OBVIOUS
<1>1. "original" \in Bodies
  BY DEF Bodies
<1>2. pr \in PRs /\ commit = pr /\ Target \in Files
  BY FilesAssumption DEF Init, Target
<1> QED
  BY <1>1, <1>2, TreeTypes, DeathsAssumption DEF Init, Shape

LEMMA ShapeStep == Shape /\ TreeInv /\ [Next]_vars => Shape'
<1> SUFFICES ASSUME Shape, TreeInv, [Next]_vars PROVE Shape'
  OBVIOUS
<1> USE DEF Shape
<1>a. Target \in Files /\ {"print", "torn"} \cup Mutants \subseteq Bodies
  BY FilesAssumption DEF Target, Bodies
<1>b. \A c \in Contents, new \in Bodies : [c EXCEPT !.body = new] \in Contents
  BY DEF Contents
<1>c. \A p \in PRs : Tree(p) \in [Files -> Contents] /\ \A f \in Files : Original(f, p) \in Contents
  BY <1>a, TreeTypes
<1>1. CASE NewProcess
  BY <1>1, <1>c DEF NewProcess, saved, local, history
<1>2. ASSUME NEW p \in PRs, Start(p) PROVE Shape'
  <2>1. CASE Refused(p)
    BY <1>2, <1>c, <2>1 DEF Start, GetClonedRepo, saved, history, Working
  <2>2. CASE ~Refused(p)
    <3>1. file' = [f \in Files |-> IF Modified(f) THEN file[f] ELSE Original(f, p)] /\ UNCHANGED backup
      BY <1>2, <2>2 DEF Start, GetClonedRepo
    <3>2. file' \in [Files -> Contents]
      BY <3>1, <1>c
    <3> QED
      BY <1>2, <3>1, <3>2 DEF Start, GetClonedRepo, saved, history, Working
  <2> QED
    BY <2>1, <2>2
<1>3. CASE Splice
  <2>1. file[Target] \in Contents
    BY <1>a
  <2>2. updated' \in Contents
    BY <1>3, <1>a, <2>1, ReplaceTypes DEF Splice
  <2>3. backup' \in [Files -> SUBSET Contents]
    BY <1>3, <1>a, <2>1 DEF Splice
  <2> QED
    BY <1>3, <2>2, <2>3 DEF Splice, saved, history, Working
<1>4. CASE Write
  <2>1. file' \in [Files -> Contents]
    BY <1>4, <1>a DEF Write
  <2> QED
    BY <1>4, <2>1 DEF Write, local, saved, history, Working
<1>5. CASE RunAll
  <2>1. [of |-> file, whole |-> TRUE] \in Outputs
    BY DEF Outputs
  <2>2. output' \in [PRs -> SUBSET Outputs]
    BY <1>5, <2>1 DEF RunAll
  <2> QED
    BY <1>5, <2>2 DEF RunAll, local, clone, history, Working
<1>6. CASE SaveRelevant
  <2>1. relevant' \in [PRs -> SUBSET Found]
    BY <1>6 DEF SaveRelevant
  <2> QED
    BY <1>6, <2>1 DEF SaveRelevant, local, clone, history, Working
<1>7. CASE Restore
  <2>1. backup[Target] = {Original(Target, pr)}
    BY <1>7, <1>a DEF TreeInv, OneBackup, Restore
  <2>2. (CHOOSE c \in backup[Target] : TRUE) \in Contents
    BY <2>1, <1>a
  <2>3. file' \in [Files -> Contents]
    BY <1>7, <1>a, <2>2 DEF Restore
  <2>4. backup' \in [Files -> SUBSET Contents]
    BY <1>7, <1>a DEF Restore
  <2> QED
    BY <1>7, <2>3, <2>4 DEF Restore, local, saved, history, Working
<1>8. CASE Filtered
  <2>1. [killed |-> 0, survived |-> Cardinality(Mutants), whole |-> TRUE] \in Summaries
    BY FS_CardinalityType, MutantsAssumption DEF Summaries
  <2>2. CASE UNCHANGED summary
    BY <1>8, <2>2 DEF Filtered, clone, history, Working
  <2>3. CASE summary' = [summary EXCEPT ![pr] =
                   {[killed |-> 0, survived |-> Cardinality(Mutants), whole |-> TRUE]}]
    <3>1. summary' \in [PRs -> SUBSET Summaries]
      BY <2>1, <2>3
    <3> QED
      BY <1>8, <3>1 DEF Filtered, clone, history, Working
  <2> QED
    BY <1>8, <2>2, <2>3 DEF Filtered
<1>9. CASE NextMutant
  BY <1>9 DEF NextMutant, clone, saved, history, Working
<1>10. CASE RunTests
  <2>1. PICK v \in Shown : results' = [results EXCEPT ![pr] =
              {r \in @ : <<r.mutant, r.verdict>> # <<body, v>>}
                  \cup {[mutant |-> body, verdict |-> v, of |-> file]}]
    BY <1>10 DEF RunTests
  <2>2. body \in Mutants
    BY <1>10 DEF TreeInv, RunTests
  <2>3. [mutant |-> body, verdict |-> v, of |-> file] \in Results
    BY <2>2, ShownTypes DEF Results
  <2>4. results' \in [PRs -> SUBSET Results]
    BY <2>1, <2>3
  <2>5. killed' \in Nat /\ survived' \in Nat
    BY <1>10 DEF RunTests
  <2> QED
    BY <1>10, <2>4, <2>5 DEF RunTests, clone, history, Working
<1>11. CASE Summarise
  <2>1. [killed |-> killed, survived |-> survived, whole |-> TRUE] \in Summaries
    BY DEF Summaries
  <2>2. summary' \in [PRs -> SUBSET Summaries]
    BY <1>11, <2>1 DEF Summarise
  <2> QED
    BY <1>11, <2>2 DEF Summarise, local, clone, history, Working
<1>12. CASE Die
  <2>1. deaths' \in 0 .. MaxDeaths /\ pc' \in Working \cup {"idle", "down"} /\ UNCHANGED <<local, commit>>
    BY <1>12, DeathsAssumption DEF Die
  <2>2. file' \in [Files -> Contents]
    <3>1. [file EXCEPT ![Target].body = "torn"] \in [Files -> Contents]
      BY <1>a, <1>b
    <3>2. UNCHANGED file \/ file' = [file EXCEPT ![Target].body = "torn"]
      BY <1>12 DEF Die
    <3> QED
      BY <3>1, <3>2
  <2>3. backup' \in [Files -> SUBSET Contents]
    <3>1. [file[Target] EXCEPT !.body = "torn"] \in Contents
      BY <1>a, <1>b
    <3> QED
      BY <1>12, <1>a, <3>1 DEF Die, saved
  <2>4. output' \in [PRs -> SUBSET Outputs]
    <3>1. [of |-> file, whole |-> FALSE] \in Outputs
      BY DEF Outputs
    <3>2. UNCHANGED output \/ output' = [output EXCEPT ![pr] = {[of |-> file, whole |-> FALSE]}]
      BY <1>12 DEF Die, saved
    <3> QED
      BY <3>1, <3>2
  <2>5. relevant' \in [PRs -> SUBSET Found] /\ UNCHANGED results
    BY <1>12 DEF Die, saved, Found
  <2>6. summary' \in [PRs -> SUBSET Summaries]
    <3>1. [killed |-> killed, survived |-> survived, whole |-> FALSE] \in Summaries
      BY DEF Summaries
    <3> QED
      BY <1>12, <3>1 DEF Die, saved
  <2> QED
    BY <2>1, <2>2, <2>3, <2>4, <2>5, <2>6 DEF local
<1>13. CASE UNCHANGED vars
  BY <1>13 DEF vars, local, clone, saved, history
<1> QED
  BY <1>1, <1>2, <1>3, <1>4, <1>5, <1>6, <1>7, <1>8, <1>9, <1>10, <1>11, <1>12, <1>13 DEF Next

-----------------------------------------------------------------------------
(* In a clean tree nothing is modified, so that no checkout is refused.    *)
LEMMA CleanTree ==
    ASSUME commit \in PRs, file = Tree(commit)
    PROVE  /\ \A f \in Files : ~Modified(f)
           /\ \A p \in PRs : ~Refused(p)
  BY DEF Modified, Refused, Tree

LEMMA TreeStep == Shape /\ TreeInv /\ [Next]_vars => TreeInv'
<1> SUFFICES ASSUME Shape, TreeInv, [Next]_vars PROVE TreeInv'
  OBVIOUS
<1>a. /\ pr \in PRs /\ commit \in PRs /\ Target \in Files /\ body \in {"print"} \cup Mutants
      /\ body \in Bodies /\ body # "original" /\ pc \in Working \cup {"idle", "down"}
  BY FilesAssumption, MutantsAssumption DEF Shape, Target, Bodies
<1> USE DEF Working
<1>1. CASE NewProcess
  BY <1>1 DEF NewProcess, TreeInv, NoBackups
<1>2. ASSUME NEW p \in PRs, Start(p) PROVE TreeInv'
  <2>1. file = Tree(commit) /\ backup = NoBackups
    BY <1>2 DEF Start, TreeInv
  <2>2. file' = Tree(p) /\ backup' = NoBackups /\ commit' = p /\ pr' = p
    BY <1>2, <1>a, <2>1, CleanTree DEF Start, GetClonedRepo, Tree
  <2>3. pc' \in {"Splice", "Filtered"} /\ body' = "print"
    BY <1>2 DEF Start
  <2> QED
    BY <2>2, <2>3 DEF TreeInv, NoBackups
<1>3. CASE Splice
  <2>1. file = Tree(pr) /\ commit = pr /\ backup = NoBackups /\ pc' = "Write"
    BY <1>3 DEF Splice, TreeInv
  <2>2. file[Target] = Original(Target, pr)
    BY <1>a, <2>1 DEF Tree
  <2>3. updated' = [Original(Target, pr) EXCEPT !.body = body]
    <3>1. Original(Target, pr).body = "original"
      BY DEF Original
    <3> QED
      BY <1>3, <2>2, <3>1 DEF Splice, ReplaceCode
  <2>4. backup' = OneBackup
    BY <1>3, <1>a, <2>1, <2>2 DEF Splice, NoBackups, OneBackup
  <2>5. UNCHANGED <<pr, body, commit, file>>
    BY <1>3 DEF Splice
  <2>6. OneBackup' = OneBackup /\ Target' = Target
    BY <2>5 DEF OneBackup, Target
  <2> QED
    BY <2>1, <2>3, <2>4, <2>5, <2>6 DEF TreeInv
<1>4. CASE Write
  <2>1. /\ file = Tree(pr) /\ commit = pr /\ backup = OneBackup
        /\ updated = [Original(Target, pr) EXCEPT !.body = body]
    BY <1>4 DEF Write, TreeInv
  <2>2. UNCHANGED <<pr, body, commit, backup>>
    BY <1>4 DEF Write, local
  <2>3. TreeWith(pr, body) = [f \in Files |-> IF f = Target THEN updated ELSE Original(f, pr)]
    BY <1>a, <2>1, TreeTypes DEF Target
  <2>4. file' = TreeWith(pr, body)
    BY <1>4, <1>a, <2>1, <2>3 DEF Write, Tree
  <2>5. pc' = IF body = "print" THEN "RunAll" ELSE "RunTests"
    BY <1>4 DEF Write
  <2>6. OneBackup' = OneBackup
    BY <2>2 DEF OneBackup, Target
  <2> QED
    BY <1>a, <2>1, <2>2, <2>4, <2>5, <2>6 DEF TreeInv
<1>5. CASE RunAll \/ SaveRelevant \/ RunTests
  <2>1. /\ pc' \in {"SaveRelevant", "Restore"} /\ UNCHANGED <<pr, body, commit, file, backup>>
        /\ pc' = "SaveRelevant" => pc = "RunAll"
    BY <1>5 DEF RunAll, SaveRelevant, RunTests, local, clone
  <2>2. file = TreeWith(pr, body) /\ backup = OneBackup /\ commit = pr
    BY <1>5 DEF RunAll, SaveRelevant, RunTests, TreeInv
  <2>3. OneBackup' = OneBackup
    BY <2>1 DEF OneBackup, Target
  <2> QED
    BY <2>1, <2>2, <2>3 DEF TreeInv
<1>6. CASE Restore
  <2>1. file = TreeWith(pr, body) /\ backup = OneBackup /\ commit = pr
    BY <1>6 DEF Restore, TreeInv
  <2>2. (CHOOSE c \in backup[Target] : TRUE) = Original(Target, pr)
    BY <1>a, <2>1 DEF OneBackup
  <2>3. file' = Tree(pr)
    <3>1. file' = [file EXCEPT ![Target] = Original(Target, pr)]
      BY <1>6, <2>2 DEF Restore
    <3>2. file = [f \in Files |-> IF f = Target THEN [Original(f, pr) EXCEPT !.body = body]
                                                ELSE Original(f, pr)]
      BY <1>a, <2>1, TreeTypes DEF Target
    <3> QED
      BY <1>a, <3>1, <3>2, Zenon DEF Tree
  <2>4. backup' = NoBackups
    BY <1>6, <1>a, <2>1 DEF Restore, OneBackup, NoBackups
  <2>5. UNCHANGED <<pr, commit>> /\ pc' \in {"Filtered", "Loop"}
    BY <1>6 DEF Restore, local
  <2> QED
    BY <2>1, <2>3, <2>4, <2>5 DEF TreeInv, NoBackups
<1>7. CASE Filtered \/ Summarise \/ NextMutant
  <2>1. pc' \in {"idle", "Loop", "Splice"} /\ pc \in {"Filtered", "Loop"} /\ UNCHANGED <<pr, commit, file, backup>>
    BY <1>7 DEF Filtered, Summarise, NextMutant, clone, local
  <2> QED
    BY <2>1 DEF TreeInv, NoBackups
<1>8. CASE Die
  BY <1>8 DEF Die, TreeInv
<1>9. CASE UNCHANGED vars
  BY <1>9 DEF vars, local, clone, TreeInv, OneBackup, NoBackups, Target
<1> QED
  BY <1>1, <1>2, <1>3, <1>4, <1>5, <1>6, <1>7, <1>8, <1>9 DEF Next

-----------------------------------------------------------------------------
LEMMA ListStep == Shape /\ ListInv /\ TreeInv /\ [Next]_vars => ListInv'
<1> SUFFICES ASSUME Shape, ListInv, TreeInv, [Next]_vars PROVE ListInv'
  OBVIOUS
<1>a. /\ pr \in PRs /\ body \in {"print"} \cup Mutants /\ "print" \notin Mutants
      /\ relevant \in [PRs -> SUBSET Found] /\ summary \in [PRs -> SUBSET Summaries]
      /\ pc \in Working \cup {"idle", "down"}
  BY MutantsAssumption DEF Shape
<1> USE DEF Working, Looking, Testing
<1>1. CASE NewProcess
  BY <1>1 DEF NewProcess, saved, ListInv
<1>2. ASSUME NEW p \in PRs, Start(p) PROVE ListInv'
  BY <1>2, <1>a DEF Start, saved, ListInv
<1>3. CASE Splice \/ Write
  BY <1>3, <1>a DEF Splice, Write, saved, local, ListInv
<1>4. CASE RunAll
  BY <1>4, <1>a DEF RunAll, local, ListInv
<1>5. CASE SaveRelevant
  <2>1. PICK found \in Found : relevant' = [relevant EXCEPT ![pr] = {found}]
    BY <1>5 DEF SaveRelevant
  <2>2. pc' = "Restore" /\ UNCHANGED <<pr, body, summary>> /\ body = "print"
    BY <1>5 DEF SaveRelevant, local, TreeInv
  <2> QED
    BY <1>a, <2>1, <2>2 DEF ListInv
<1>6. CASE Restore
  <2>1. UNCHANGED <<relevant, summary, pr, body>> /\ pc' = IF body = "print" THEN "Filtered" ELSE "Loop"
    BY <1>6 DEF Restore, local, saved
  <2> QED
    BY <1>6, <1>a, <2>1 DEF Restore, ListInv
<1>12. CASE RunTests
  <2>1. UNCHANGED <<relevant, summary, pr, body>> /\ pc' = "Restore" /\ body \in Mutants
    BY <1>12 DEF RunTests, TreeInv
  <2> QED
    BY <1>12, <1>a, <2>1 DEF RunTests, ListInv
<1>7. CASE Filtered
  <2>1. relevant[pr] # {} /\ UNCHANGED <<relevant, pr>>
    BY <1>7, <1>a DEF Filtered, ListInv
  <2>2. pc' = "idle" \/ (pc' = "Loop" /\ relevant[pr] # {"none"})
    BY <1>7 DEF Filtered
  <2>3. \A p \in PRs : summary'[p] # {} => summary[p] # {} \/ p = pr
    BY <1>7, <1>a DEF Filtered
  <2> QED
    BY <2>1, <2>2, <2>3 DEF ListInv
<1>8. CASE NextMutant
  <2>1. body' \in Mutants /\ UNCHANGED <<relevant, summary, pr>> /\ pc' = "Splice"
    BY <1>8 DEF NextMutant, saved, Shape
  <2> QED
    BY <1>8, <1>a, <2>1 DEF NextMutant, ListInv
<1>9. CASE Summarise
  <2>1. relevant[pr] # {} /\ UNCHANGED relevant /\ pc' = "idle"
    BY <1>9, <1>a DEF Summarise, ListInv
  <2>2. \A p \in PRs : summary'[p] # {} => summary[p] # {} \/ p = pr
    BY <1>9, <1>a DEF Summarise
  <2> QED
    BY <2>1, <2>2 DEF ListInv
<1>10. CASE Die
  <2>1. pc' = "down" /\ pc \in Working
    BY <1>10, <1>a DEF Die
  <2>2. \A p \in PRs : relevant[p] # {} => relevant'[p] # {}
    BY <1>10, <1>a DEF Die, saved
  <2>3. \A p \in PRs : summary'[p] # {} => summary[p] # {} \/ (p = pr /\ pc = "Loop")
    BY <1>10, <1>a DEF Die, saved
  <2> QED
    BY <2>1, <2>2, <2>3 DEF ListInv
<1>11. CASE UNCHANGED vars
  BY <1>11 DEF vars, local, saved, ListInv
<1> QED
  BY <1>1, <1>2, <1>3, <1>4, <1>5, <1>6, <1>7, <1>8, <1>9, <1>10, <1>11, <1>12 DEF Next

-----------------------------------------------------------------------------
LEMMA SingularStep == Shape /\ Singular /\ [Next]_vars => Singular'
<1> SUFFICES ASSUME Shape, Singular, [Next]_vars, NEW p \in PRs
             PROVE  /\ AtMostOne(output'[p]) /\ AtMostOne(relevant'[p]) /\ AtMostOne(summary'[p])
                    /\ IsFiniteSet(results'[p])
  BY DEF Singular, AtMostOne
<1>a. /\ output \in [PRs -> SUBSET Outputs] /\ relevant \in [PRs -> SUBSET Found]
      /\ results \in [PRs -> SUBSET Results] /\ summary \in [PRs -> SUBSET Summaries]
      /\ pr \in PRs
  BY DEF Shape
<1>b. AtMostOne(output[p]) /\ AtMostOne(relevant[p]) /\ AtMostOne(summary[p]) /\ IsFiniteSet(results[p])
  BY DEF Singular
<1>1. output'[p] = output[p] \/ \E x : output'[p] = {x}
  BY <1>a DEF Next, NewProcess, Start, Splice, Write, RunAll, SaveRelevant, Restore, Filtered, NextMutant,
              RunTests, Summarise, Die, vars, saved
<1>2. relevant'[p] = relevant[p] \/ \E x : relevant'[p] = {x}
  BY <1>a DEF Next, NewProcess, Start, Splice, Write, RunAll, SaveRelevant, Restore, Filtered, NextMutant,
              RunTests, Summarise, Die, vars, saved
<1>3. summary'[p] = summary[p] \/ \E x : summary'[p] = {x}
  BY <1>a DEF Next, NewProcess, Start, Splice, Write, RunAll, SaveRelevant, Restore, Filtered, NextMutant,
              RunTests, Summarise, Die, vars, saved
<1>4. IsFiniteSet(results'[p])
  <2>1. CASE UNCHANGED results
    BY <1>b, <2>1
  <2>2. CASE RunTests
    <3>1. PICK v \in Shown : results' = [results EXCEPT ![pr] =
                {r \in @ : <<r.mutant, r.verdict>> # <<body, v>>}
                    \cup {[mutant |-> body, verdict |-> v, of |-> file]}]
      BY <2>2 DEF RunTests
    <3> DEFINE Kept == {r \in results[p] : <<r.mutant, r.verdict>> # <<body, v>>}
    <3>2. IsFiniteSet(Kept)
      BY <1>b, FS_Subset
    <3>3. IsFiniteSet(Kept \cup {[mutant |-> body, verdict |-> v, of |-> file]})
      BY <3>2, FS_AddElement
    <3> QED
      BY <1>a, <1>b, <3>1, <3>3
  <2> QED
    BY <2>1, <2>2 DEF Next, NewProcess, Start, Splice, Write, RunAll, SaveRelevant, Restore, Filtered,
                      NextMutant, Summarise, Die, vars, saved
<1> QED
  BY <1>b, <1>1, <1>2, <1>3, <1>4 DEF AtMostOne

(* The tree that is tested is that of the commit with the mutant, or the   *)
(* instrumented version, that the result is saved for.                     *)
LEMMA ResultsStep == Shape /\ TreeInv /\ ResultsAreOfMutants /\ [Next]_vars => ResultsAreOfMutants'
<1> SUFFICES ASSUME Shape, TreeInv, ResultsAreOfMutants, [Next]_vars, NEW p \in PRs
             PROVE  /\ \A x \in results'[p] : x.of = TreeWith(p, x.mutant)
                    /\ \A x \in output'[p] : x.of = TreeWith(p, "print")
  BY DEF ResultsAreOfMutants
<1>a. /\ output \in [PRs -> SUBSET Outputs] /\ results \in [PRs -> SUBSET Results] /\ pr \in PRs
  BY DEF Shape
<1>b. /\ \A x \in results[p] : x.of = TreeWith(p, x.mutant)
      /\ \A x \in output[p] : x.of = TreeWith(p, "print")
  BY DEF ResultsAreOfMutants
<1>1. \A x \in output'[p] : x \in output[p] \/ (x.of = file /\ p = pr /\ pc = "RunAll")
  BY <1>a DEF Next, NewProcess, Start, Splice, Write, RunAll, SaveRelevant, Restore, Filtered, NextMutant,
              RunTests, Summarise, Die, vars, saved
<1>2. pc = "RunAll" => file = TreeWith(pr, "print")
  BY DEF TreeInv
<1>3. \A x \in results'[p] : x \in results[p] \/ (x.of = file /\ x.mutant = body /\ p = pr /\ pc = "RunTests")
  <2>1. CASE RunTests
    BY <1>a, <2>1 DEF RunTests
  <2> QED
    BY <2>1 DEF Next, NewProcess, Start, Splice, Write, RunAll, SaveRelevant, Restore, Filtered,
                NextMutant, Summarise, Die, vars, saved
<1>4. pc = "RunTests" => file = TreeWith(pr, body)
  BY DEF TreeInv
<1> QED
  BY <1>b, <1>1, <1>2, <1>3, <1>4

-----------------------------------------------------------------------------
LEMMA PendingFinite ==
    ASSUME Shape
    PROVE  /\ IsFiniteSet(Mutants) /\ Cardinality(Mutants) \in Nat
           /\ IsFiniteSet(todo) /\ Cardinality(todo) \in Nat
           /\ IsFiniteSet(Pending) /\ Cardinality(Pending) \in Nat
           /\ \A p, v, T : /\ IsFiniteSet(SavedAs(p, v) \ T)
                           /\ Cardinality(SavedAs(p, v) \ T) \in Nat
<1>1. IsFiniteSet(Mutants) /\ IsFiniteSet(todo)
  BY MutantsAssumption, FS_Subset DEF Shape
<1>2. IsFiniteSet(Pending)
  BY <1>1, FS_AddElement DEF Pending, Current
<1>3. \A p, v, T : SavedAs(p, v) \ T \in SUBSET Mutants
  BY DEF SavedAs
<1>4. \A p, v, T : IsFiniteSet(SavedAs(p, v) \ T)
  BY <1>1, <1>3, FS_Subset
<1> QED
  BY <1>1, <1>2, <1>4, FS_CardinalityType

(* A file of one verdict is replaced by one of the same verdict only, and  *)
(* the test of a mutant leaves one.                                        *)
LEMMA SavedGrows ==
    ASSUME Shape, [Next]_vars, NEW p \in PRs, NEW v
    PROVE  SavedAs(p, v) \subseteq SavedAs(p, v)'
<1>1. CASE RunTests
  <2>1. PICK w \in Shown : results' = [results EXCEPT ![pr] =
              {r \in @ : <<r.mutant, r.verdict>> # <<body, w>>}
                  \cup {[mutant |-> body, verdict |-> w, of |-> file]}]
    BY <1>1 DEF RunTests
  <2> SUFFICES ASSUME NEW x \in results[p], x.verdict = v
               PROVE  \E y \in results'[p] : y.mutant = x.mutant /\ y.verdict = v
    BY DEF SavedAs
  <2>2. CASE p = pr /\ x.mutant = body /\ v = w
    <3> DEFINE y == [mutant |-> body, verdict |-> w, of |-> file]
    <3>1. y \in results'[p]
      BY <2>1, <2>2 DEF Shape
    <3>2. y.mutant = x.mutant /\ y.verdict = v
      BY <2>2
    <3> QED
      BY <3>1, <3>2
  <2>3. CASE ~(p = pr /\ x.mutant = body /\ v = w)
    BY <2>1, <2>3 DEF Shape
  <2> QED
    BY <2>2, <2>3
<1>2. CASE UNCHANGED results
  BY <1>2 DEF SavedAs
<1> QED
  BY <1>1, <1>2 DEF Next, NewProcess, Start, Splice, Write, RunAll, SaveRelevant, Restore, Filtered,
                    NextMutant, Summarise, Die, vars, saved

(* What is counted stays counted while more is saved.                      *)
LEMMA StaysCounted ==
    ASSUME Shape, Shape', [Next]_vars, NEW p \in PRs, NEW v, NEW n \in Nat, NEW T,
           n <= Cardinality(SavedAs(p, v) \ T)
    PROVE  n <= Cardinality(SavedAs(p, v)' \ T)
<1>1. SavedAs(p, v) \ T \in SUBSET (SavedAs(p, v)' \ T)
  BY SavedGrows
<1>2. SavedAs(p, v)' \in SUBSET Mutants
  BY DEF SavedAs
<1>3. IsFiniteSet(SavedAs(p, v)' \ T)
  BY <1>2, MutantsAssumption, FS_Subset, SavedAs(p, v)' \ T \in SUBSET Mutants
<1>4. Cardinality(SavedAs(p, v) \ T) <= Cardinality(SavedAs(p, v)' \ T)
  BY <1>1, <1>3, FS_Subset
<1>5. Cardinality(SavedAs(p, v) \ T) \in Nat /\ Cardinality(SavedAs(p, v)' \ T) \in Nat
  BY <1>3, FS_CardinalityType, PendingFinite
<1> QED
  BY <1>4, <1>5

(* The mutant that was pending until its test ended is counted once.       *)
LEMMA RunTestsCounts ==
    ASSUME Shape, Shape', TreeInv, Counting, [Next]_vars, RunTests
    PROVE  /\ killed' + survived' + Cardinality(todo') = Cardinality(Mutants)
           /\ killed' <= Cardinality(SavedAs(pr, "killed")' \ todo')
           /\ survived' <= Cardinality(SavedAs(pr, "survived")' \ todo')
<1>1. PICK v \in Shown :
         /\ killed' = IF v = "killed" THEN killed + 1 ELSE killed
         /\ survived' = IF v = "survived" THEN survived + 1 ELSE survived
         /\ results' = [results EXCEPT ![pr] =
              {r \in @ : <<r.mutant, r.verdict>> # <<body, v>>}
                  \cup {[mutant |-> body, verdict |-> v, of |-> file]}]
  BY DEF RunTests
<1>2. v = "killed" \/ v = "survived"
  BY ShownTypes DEF Verdicts
<1>3. pr' = pr /\ todo' = todo /\ pr \in PRs /\ body \in Mutants
  BY DEF RunTests, Shape, TreeInv
<1>4. Pending = todo \cup {body} /\ body \notin todo
  BY DEF Pending, Current, RunTests, Counting, Counters, Testing
<1>5. Cardinality(Pending) = Cardinality(todo) + 1
  BY <1>4, PendingFinite, FS_AddElement
<1>6. /\ killed + survived + Cardinality(Pending) = Cardinality(Mutants)
      /\ killed <= Cardinality(SavedAs(pr, "killed") \ Pending)
      /\ survived <= Cardinality(SavedAs(pr, "survived") \ Pending)
      /\ killed \in Nat /\ survived \in Nat
  BY DEF Counting, Counters, Testing, RunTests, Shape
<1>7. body \in SavedAs(pr, v)'
  <2> DEFINE y == [mutant |-> body, verdict |-> v, of |-> file]
  <2>1. y \in results'[pr] /\ y.mutant = body /\ y.verdict = v
    BY <1>1, <1>3 DEF Shape
  <2> HIDE DEF y
  <2> QED
    BY <1>3, <2>1 DEF SavedAs
<1>8. ASSUME NEW w
      PROVE  LET old == SavedAs(pr, w) \ Pending
                 new == SavedAs(pr, w)' \ todo
             IN  Cardinality(old) + (IF w = v THEN 1 ELSE 0) <= Cardinality(new)
  <2> DEFINE old == SavedAs(pr, w) \ Pending
             new == SavedAs(pr, w)' \ todo
             add == IF w = v THEN old \cup {body} ELSE old
  <2>1. add \in SUBSET new
    BY <1>3, <1>4, <1>7, SavedGrows
  <2>2. IsFiniteSet(new)
    <3>1. new \in SUBSET Mutants
      BY DEF SavedAs
    <3> QED
      BY <3>1, MutantsAssumption, FS_Subset
  <2>3. Cardinality(add) <= Cardinality(new)
    BY <2>1, <2>2, FS_Subset
  <2>4. IsFiniteSet(old) /\ Cardinality(old) \in Nat
    BY PendingFinite
  <2>5. body \notin old
    BY <1>4
  <2>6. Cardinality(add) = Cardinality(old) + (IF w = v THEN 1 ELSE 0)
    <3>1. Cardinality(old \cup {body}) = Cardinality(old) + 1
      BY <2>4, <2>5, FS_AddElement
    <3> QED
      BY <2>4, <3>1
  <2> QED
    BY <2>3, <2>6
<1>9. /\ Cardinality(SavedAs(pr, "killed") \ Pending) \in Nat
      /\ Cardinality(SavedAs(pr, "survived") \ Pending) \in Nat
      /\ Cardinality(SavedAs(pr, "killed")' \ todo) \in Nat
      /\ Cardinality(SavedAs(pr, "survived")' \ todo) \in Nat
      /\ Cardinality(todo) \in Nat /\ Cardinality(Mutants) \in Nat
  <2>1. \A w : SavedAs(pr, w)' \ todo \in SUBSET Mutants
    BY DEF SavedAs
  <2>2. \A w : Cardinality(SavedAs(pr, w)' \ todo) \in Nat
    BY <2>1, MutantsAssumption, FS_Subset, FS_CardinalityType
  <2> QED
    BY <2>2, PendingFinite
<1>10. /\ Cardinality(SavedAs(pr, "killed") \ Pending) + (IF v = "killed" THEN 1 ELSE 0)
            <= Cardinality(SavedAs(pr, "killed")' \ todo)
       /\ Cardinality(SavedAs(pr, "survived") \ Pending) + (IF v = "survived" THEN 1 ELSE 0)
            <= Cardinality(SavedAs(pr, "survived")' \ todo)
  BY <1>8
<1> QED
  BY <1>1, <1>2, <1>3, <1>5, <1>6, <1>9, <1>10

LEMMA CountingStep ==
    Shape /\ Shape' /\ TreeInv /\ ListInv /\ Counting /\ [Next]_vars => Counting'
<1> SUFFICES ASSUME Shape, Shape', TreeInv, ListInv, Counting, [Next]_vars PROVE Counting'
  OBVIOUS
<1>a. /\ pr \in PRs /\ killed \in Nat /\ survived \in Nat /\ todo \subseteq Mutants
      /\ relevant \in [PRs -> SUBSET Found] /\ summary \in [PRs -> SUBSET Summaries]
      /\ pc \in Working \cup {"idle", "down"} /\ body \in {"print"} \cup Mutants
      /\ "print" \notin Mutants
  BY MutantsAssumption DEF Shape
<1>b. /\ Cardinality(Mutants) \in Nat /\ Cardinality(todo) \in Nat /\ Cardinality(Pending) \in Nat
  BY PendingFinite
<1>c. killed + survived <= Cardinality(Mutants)
  BY DEF Counting, Counters
<1>1. Counters'
  <2>1. CASE NextMutant \/ (Testing /\ (Splice \/ Write \/ (Restore /\ body \in Mutants)))
    <3>1. Testing /\ UNCHANGED <<killed, survived, pr>>
      BY <2>1 DEF NextMutant, Splice, Write, Restore, local, Testing
    <3>2. Pending' = Pending /\ Current' \cap todo' = {}
      <4>1. CASE NextMutant
        BY <4>1 DEF NextMutant, Pending, Current
      <4>2. CASE Testing /\ (Splice \/ Write \/ (Restore /\ body \in Mutants))
        BY <1>a, <4>2 DEF Splice, Write, Restore, local, Pending, Current, Testing, Counting, Counters
      <4> QED
        BY <2>1, <4>1, <4>2
    <3>3. /\ killed <= Cardinality(SavedAs(pr, "killed")' \ Pending)
          /\ survived <= Cardinality(SavedAs(pr, "survived")' \ Pending)
      <4>1. /\ killed <= Cardinality(SavedAs(pr, "killed") \ Pending)
            /\ survived <= Cardinality(SavedAs(pr, "survived") \ Pending)
        BY <3>1 DEF Counting, Counters
      <4> QED
        BY <1>a, <3>1, <4>1, StaysCounted
    <3>4. killed + survived + Cardinality(Pending) = Cardinality(Mutants)
      BY <3>1 DEF Counting, Counters
    <3> QED
      BY <1>c, <3>1, <3>2, <3>3, <3>4 DEF Counters
  <2>2. CASE Filtered
    <3>1. killed' = 0 /\ survived' = 0 /\ pr' = pr
      BY <2>2 DEF Filtered
    <3>2. pc' = "Loop" => Current' = {} /\ Pending' = Mutants
      BY <2>2 DEF Filtered, Current, Pending
    <3>3. \A v, T : Cardinality(SavedAs(pr, v)' \ T) \in Nat
      BY PendingFinite, \A v, T : SavedAs(pr, v)' \ T \in SUBSET Mutants, MutantsAssumption, FS_Subset,
         FS_CardinalityType DEF SavedAs
    <3>4. pc' \in {"idle", "Loop"}
      BY <2>2 DEF Filtered
    <3>5. /\ Cardinality(SavedAs(pr, "killed")' \ Pending') \in Nat
          /\ Cardinality(SavedAs(pr, "survived")' \ Pending') \in Nat
      BY <3>3
    <3> QED
      BY <1>b, <3>1, <3>2, <3>4, <3>5 DEF Testing, Counters
  <2>3. CASE RunTests
    <3>1. pr' = pr /\ pc' = "Restore"
      BY <2>3 DEF RunTests
    <3>2. Current' = {} /\ Pending' = todo'
      BY <3>1 DEF Current, Pending
    <3>3. /\ killed' + survived' + Cardinality(todo') = Cardinality(Mutants)
          /\ killed' <= Cardinality(SavedAs(pr, "killed")' \ todo')
          /\ survived' <= Cardinality(SavedAs(pr, "survived")' \ todo')
      BY <2>3, RunTestsCounts
    <3>4. Cardinality(todo') \in Nat /\ killed' \in Nat /\ survived' \in Nat
      BY <2>3, <1>b DEF RunTests, Shape
    <3> QED
      BY <1>b, <3>1, <3>2, <3>3, <3>4 DEF Counters
  <2>4. CASE ~Testing' /\ UNCHANGED <<killed, survived>>
    BY <1>c, <2>4 DEF Counters
  <2>5. CASE UNCHANGED vars
    BY <2>5 DEF vars, local, saved, Testing, Current, Pending, SavedAs, Counting, Counters
  <2>6. ASSUME ~Filtered, ~NextMutant, ~RunTests, ~UNCHANGED vars,
               ~(Testing /\ (Splice \/ Write \/ (Restore /\ body \in Mutants)))
        PROVE  ~Testing' /\ UNCHANGED <<killed, survived>>
    <3>1. CASE NewProcess \/ Summarise \/ Die \/ (\E p \in PRs : Start(p)) \/ RunAll \/ SaveRelevant
      <4>1. UNCHANGED <<killed, survived>> /\ pc' \in {"idle", "down", "Splice", "Filtered", "SaveRelevant", "Restore"}
        BY <3>1 DEF NewProcess, Summarise, Die, Start, RunAll, SaveRelevant, local
      <4>2. pc' = "Splice" => body' = "print"
        BY <3>1 DEF NewProcess, Summarise, Die, Start, RunAll, SaveRelevant
      <4>3. pc' = "Restore" => body' = "print"
        BY <3>1 DEF NewProcess, Summarise, Die, Start, RunAll, SaveRelevant, local, TreeInv
      <4> QED
        BY <1>a, <4>1, <4>2, <4>3 DEF Testing
    <3>2. CASE Splice \/ Write \/ Restore
      <4>1. body = "print" /\ body' = body /\ UNCHANGED <<killed, survived>>
        BY <1>a, <2>6, <3>2 DEF Splice, Write, Restore, local, Testing
      <4>2. pc' \in {"Write", "RunAll", "Filtered"}
        BY <3>2, <4>1 DEF Splice, Write, Restore
      <4> QED
        BY <1>a, <4>1, <4>2 DEF Testing
    <3> QED
      BY <2>6, <3>1, <3>2 DEF Next
  <2> QED
    BY <2>1, <2>2, <2>3, <2>4, <2>5, <2>6
<1>2. ASSUME NEW p \in PRs, NEW s \in summary'[p], s.whole, relevant'[p] # {"none"}
      PROVE  /\ s.killed + s.survived = Cardinality(Mutants)
             /\ \A v \in Verdicts : s[v] <= Cardinality(SavedAs(p, v)')
  <2>1. CASE s \in summary[p]
    <3>1. relevant[p] # {"none"}
      <4>1. relevant[p] # {}
        BY <2>1 DEF ListInv
      <4>2. relevant'[p] = relevant[p] \/ (p = pr /\ pc = "SaveRelevant")
        BY <1>a DEF Next, NewProcess, Start, Splice, Write, RunAll, SaveRelevant, Restore, Filtered,
                    NextMutant, RunTests, Summarise, Die, vars, saved
      <4>3. ~(p = pr /\ pc = "SaveRelevant")
        BY <4>1 DEF ListInv, Looking
      <4> QED
        BY <1>2, <4>2, <4>3
    <3>2. s \in Summaries
      BY <1>a, <2>1
    <3>3. /\ s.killed + s.survived = Cardinality(Mutants)
          /\ \A v \in Verdicts : s[v] <= Cardinality(SavedAs(p, v))
      BY <1>2, <2>1, <3>1 DEF Counting, CountedOnce
    <3>4. ASSUME NEW v \in Verdicts PROVE s[v] <= Cardinality(SavedAs(p, v)')
      <4>1. s[v] \in Nat
        BY <3>2 DEF Verdicts, Summaries
      <4>2. SavedAs(p, v) \ {} = SavedAs(p, v) /\ SavedAs(p, v)' \ {} = SavedAs(p, v)'
        OBVIOUS
      <4> QED
        BY <3>3, <4>1, <4>2, StaysCounted
    <3> QED
      BY <3>3, <3>4
  <2>2. CASE s \notin summary[p]
    <3>1. /\ p = pr /\ pc = "Loop" /\ todo = {} /\ UNCHANGED <<relevant, results>>
          /\ s = [killed |-> killed, survived |-> survived, whole |-> TRUE]
      <4>1. CASE Summarise
        BY <1>a, <1>2, <2>2, <4>1 DEF Summarise
      <4>2. CASE Filtered
        <5>1. p = pr /\ relevant[p] = {"none"} /\ UNCHANGED relevant
          BY <1>a, <2>2, <1>2, <4>2 DEF Filtered
        <5> QED
          BY <1>2, <5>1
      <4>3. CASE Die
        BY <1>a, <1>2, <2>2, <4>3 DEF Die, saved
      <4> QED
        BY <1>2, <2>2, <4>1, <4>2, <4>3
           DEF Next, NewProcess, Start, Splice, Write, RunAll, SaveRelevant, Restore,
               NextMutant, RunTests, vars, saved
    <3>2. Pending = {} /\ Testing
      BY <3>1 DEF Pending, Current, Testing
    <3>3. Cardinality(Pending) = 0
      BY <3>2, FS_EmptySet
    <3>4. /\ killed + survived = Cardinality(Mutants)
          /\ killed <= Cardinality(SavedAs(pr, "killed"))
          /\ survived <= Cardinality(SavedAs(pr, "survived"))
      <4>1. \A v : SavedAs(pr, v) \ Pending = SavedAs(pr, v)
        BY <3>2
      <4> QED
        BY <1>a, <3>2, <3>3, <4>1 DEF Counting, Counters
    <3>5. \A v : SavedAs(p, v)' = SavedAs(pr, v)
      BY <3>1 DEF SavedAs
    <3>6. s.killed = killed /\ s.survived = survived /\ s["killed"] = killed /\ s["survived"] = survived
      BY <3>1
    <3> QED
      BY <3>4, <3>5, <3>6 DEF Verdicts
  <2> QED
    BY <2>1, <2>2
<1>3. CountedOnce'
  BY <1>2 DEF CountedOnce
<1> QED
  BY <1>1, <1>3 DEF Counting

-----------------------------------------------------------------------------
LEMMA IInvInit == Init => IInv
<1> SUFFICES ASSUME Init PROVE IInv
  OBVIOUS
<1> USE DEF Init
<1>1. Shape
  BY ShapeInit
<1>2. Singular
  BY FS_EmptySet DEF Singular, AtMostOne
<1>3. TreeInv
  BY DEF TreeInv, NoBackups, Working
<1>4. ListInv
  BY DEF ListInv, Looking, Testing, Working
<1>5. ResultsAreOfMutants
  BY DEF ResultsAreOfMutants
<1>6. Counting
  <2>1. 0 + 0 <= Cardinality(Mutants)
    BY MutantsAssumption, FS_CardinalityType
  <2> QED
    BY <2>1 DEF Counting, Counters, CountedOnce, Testing
<1> QED
  BY <1>1, <1>2, <1>3, <1>4, <1>5, <1>6 DEF IInv

LEMMA Invariance == Spec => []IInv
<1>1. IInv /\ [Next]_vars => IInv'
  BY ShapeStep, SingularStep, TreeStep, ListStep, ResultsStep, CountingStep DEF IInv
<1> QED
  BY IInvInit, <1>1, PTL DEF Spec

LEMMA FewerThanTwo ==
    ASSUME NEW S, AtMostOne(S)
    PROVE  Cardinality(S) < 2
<1>1. CASE S = {}
  BY <1>1, FS_EmptySet
<1>2. ASSUME NEW x \in S PROVE S = {x}
  BY <1>2 DEF AtMostOne
<1> QED
  BY <1>1, <1>2, FS_Singleton

LEMMA IInvTypes == IInv => TypeOK
<1> SUFFICES ASSUME IInv PROVE TypeOK
  OBVIOUS
<1>1. Shape /\ Singular
  BY DEF IInv
<1>2. body \in Bodies
  BY <1>1 DEF Shape, Bodies
<1>3. killed \in 0 .. Cardinality(Mutants) /\ survived \in 0 .. Cardinality(Mutants)
  BY PendingFinite DEF IInv, Shape, Counting, Counters
<1>4. \A p \in PRs : /\ output[p] \subseteq Outputs /\ relevant[p] \subseteq Found
                     /\ results[p] \subseteq Results /\ summary[p] \subseteq Summaries
  BY <1>1 DEF Shape
<1>5. \A p \in PRs : Cardinality(output[p]) < 2 /\ Cardinality(relevant[p]) < 2 /\ Cardinality(summary[p]) < 2
  BY <1>1, FewerThanTwo DEF Singular
<1> QED
  BY <1>1, <1>2, <1>3, <1>4, <1>5 DEF TypeOK, Shape, Working, Results

(* There are at least as many result files of a verdict as mutants with    *)
(* such a file.                                                            *)
LEMMA FilesOfMutants ==
    ASSUME IInv, NEW p \in PRs, NEW v
    PROVE  Cardinality(SavedAs(p, v)) <= Cardinality({x \in results[p] : x.verdict = v})
<1> DEFINE F == {x \in results[p] : x.verdict = v}
           f == [x \in F |-> x.mutant]
<1>1. IsFiniteSet(F)
  BY FS_Subset DEF IInv, Singular
<1>2. \A x \in F : x.mutant \in SavedAs(p, v)
  BY DEF SavedAs, IInv, Shape, Results
<1>3. f \in Surjection(F, SavedAs(p, v))
  BY <1>2 DEF Surjection, SavedAs
<1> HIDE DEF F, f
<1>4. Cardinality(SavedAs(p, v)) <= Cardinality(F)
  BY <1>1, <1>3, FS_Surjection
<1> QED
  BY <1>4 DEF F

(* Every state has the types of the code, the counters included, whatever  *)
(* dies where: a repeated run counts a mutant once (test_pr).              *)
THEOREM Typing == Spec => []TypeOK
  BY Invariance, IInvTypes, PTL

(* Until a process dies the file under test is the only one that differs   *)
(* from its commit, and its original is in the backup beside it, so that   *)
(* "Restore original code" restores the original (test_pr).                *)
THEOREM Restoration == Spec => []OriginalIsKept
<1>1. IInv => OriginalIsKept
  <2> SUFFICES ASSUME IInv, pc # "down", NEW f \in Files
               PROVE  /\ Modified(f) => f = Target /\ commit = pr /\ backup[f] # {}
                      /\ backup[f] \subseteq {Original(f, commit)}
    BY DEF OriginalIsKept
  <2>a. Shape /\ TreeInv
    BY DEF IInv
  <2>1. CASE pc \in {"idle", "Filtered", "Loop", "Splice"}
    <3>1. file = Tree(commit) /\ backup = NoBackups
      BY <2>a, <2>1 DEF TreeInv
    <3> QED
      BY <3>1 DEF Modified, Tree, NoBackups
  <2>2. CASE pc \in {"Write", "RunAll", "SaveRelevant", "RunTests", "Restore"}
    <3>1. commit = pr /\ backup = OneBackup
      BY <2>a, <2>2 DEF TreeInv, Working
    <3>2. file = Tree(pr) \/ file = TreeWith(pr, body)
      BY <2>a, <2>2, <3>1 DEF TreeInv
    <3>3. file[f] = Original(f, pr) \/ f = Target
      BY <2>a, <3>2, TreeTypes DEF Tree, Target, Shape, Bodies
    <3> QED
      BY <3>1, <3>3 DEF Modified, OneBackup
  <2> QED
    BY <2>a, <2>1, <2>2 DEF Shape, Working
<1> QED
  BY <1>1, Invariance, PTL

(* A saved result is of the merge commit with the mutant it is saved       *)
(* under, and every summary is backed by as many result files as it        *)
(* counts, with each mutant counted once (test_pr).                        *)
THEOREM Backing == Spec => []ResultsAreBacked
<1>1. IInv => SummaryIsBacked
  <2> SUFFICES ASSUME IInv, NEW p \in PRs, NEW s \in summary[p], s.whole, relevant[p] # {"none"}
               PROVE  /\ s.killed + s.survived = Cardinality(Mutants)
                      /\ \A v \in Verdicts : s[v] <= Cardinality({x \in results[p] : x.verdict = v})
    BY DEF SummaryIsBacked
  <2>1. /\ s.killed + s.survived = Cardinality(Mutants)
        /\ \A v \in Verdicts : s[v] <= Cardinality(SavedAs(p, v))
    BY DEF IInv, Counting, CountedOnce
  <2>2. s \in Summaries
    BY DEF IInv, Shape
  <2>3. ASSUME NEW v \in Verdicts
        PROVE  s[v] <= Cardinality({x \in results[p] : x.verdict = v})
    <3>1. s[v] \in Nat
      BY <2>2 DEF Verdicts, Summaries
    <3>2. IsFiniteSet({x \in results[p] : x.verdict = v})
      BY FS_Subset DEF IInv, Singular
    <3>3. SavedAs(p, v) \ {} = SavedAs(p, v)
      OBVIOUS
    <3>4. Cardinality(SavedAs(p, v)) \in Nat /\ Cardinality({x \in results[p] : x.verdict = v}) \in Nat
      BY <3>2, <3>3, FS_CardinalityType, PendingFinite DEF IInv
    <3> QED
      BY <2>1, <3>1, <3>4, FilesOfMutants
  <2> QED
    BY <2>1, <2>3
<1>2. IInv => ResultsAreOfMutants
  BY DEF IInv
<1>3. TypeOK /\ ResultsAreOfMutants /\ SummaryIsBacked => ResultsAreBacked
  BY DEF ResultsAreBacked
<1> QED
  BY <1>1, <1>2, <1>3, Invariance, IInvTypes, PTL

-----------------------------------------------------------------------------
(***************************************************************************)
(* What the list says of a function is what the reading of the output says *)
(* of the tests; the invariant carries it through the saved files.         *)
(***************************************************************************)
WholeInv ==
    /\ pc = "SaveRelevant" => output[pr] # {}
    /\ "output" \notin cut => \A p \in PRs : \A x \in output[p] : x.whole

LEMMA WholeStep == Shape /\ WholeInv /\ [Next]_vars => WholeInv'
<1> SUFFICES ASSUME Shape, WholeInv, [Next]_vars PROVE WholeInv'
  OBVIOUS
<1>a. pr \in PRs /\ output \in [PRs -> SUBSET Outputs]
  BY DEF Shape
<1>1. CASE RunAll
  <2>1. /\ output' = [output EXCEPT ![pr] = IF @ = {} THEN {[of |-> file, whole |-> TRUE]} ELSE @]
        /\ pr' = pr /\ cut' = cut
    BY <1>1 DEF RunAll, local, history
  <2>2. output'[pr] # {}
    BY <1>a, <2>1
  <2>3. ASSUME NEW p \in PRs, NEW x \in output'[p], "output" \notin cut PROVE x.whole
    BY <1>a, <2>1, <2>3 DEF WholeInv
  <2> QED
    BY <2>1, <2>2, <2>3 DEF WholeInv
<1>2. CASE Die
  <2>1. pc' = "down" /\ cut \subseteq cut'
    BY <1>2 DEF Die, CutShort
  <2>2. "output" \notin cut' => output' = output
    BY <1>2 DEF Die, CutShort, saved
  <2> QED
    BY <2>1, <2>2 DEF WholeInv
<1>3. CASE ~RunAll /\ ~Die
  <2>1. UNCHANGED <<output, cut>> /\ (pc' = "SaveRelevant" => UNCHANGED <<pc, pr>>)
    BY <1>3 DEF Next, NewProcess, Start, Splice, Write, SaveRelevant, Restore, Filtered, NextMutant,
                RunTests, Summarise, vars, local, saved, history
  <2> QED
    BY <2>1 DEF WholeInv
<1> QED
  BY <1>1, <1>2, <1>3

(* If the reading of a complete output that does not confuse the parser    *)
(* finds a test exactly when one called the function, which module         *)
(* TestLogs is checked for, the saved list is empty exactly for a function *)
(* that no test calls, unless a death cut a file short or the tests print  *)
(* what confuses it: whatever was in the clone before (test_pr).           *)
THEOREM Listing ==
    ASSUME \A s \in FullSessions : ~Confusing(s) =>
               (extract_output_logs_single(PyTest(s)) = {} <=> ~Covers(s))
    PROVE  Spec => []ListIsRight
<1>1. FoundOf[TRUE][FALSE] \subseteq {"all"} /\ FoundOf[FALSE][FALSE] \subseteq {"none"}
  BY DEF FoundOf, FoundBy
<1>2. Init => WholeInv /\ ListIsRight
  BY DEF Init, WholeInv, ListIsRight
<1>3. IInv /\ WholeInv /\ ListIsRight /\ [Next]_vars => ListIsRight'
  <2> SUFFICES ASSUME IInv, WholeInv, ListIsRight, [Next]_vars,
                      cut' \cap {"output", "relevant"} = {},
                      NEW p \in PRs \ Loud, relevant'[p] # {}
               PROVE  relevant'[p] = {"none"} <=> p \notin Covered
    BY DEF ListIsRight
  <2>a. pr \in PRs /\ relevant \in [PRs -> SUBSET Found] /\ output \in [PRs -> SUBSET Outputs]
    BY DEF IInv, Shape
  <2>b. cut \subseteq cut'
    BY DEF Next, NewProcess, Start, Splice, Write, RunAll, SaveRelevant, Restore, Filtered, NextMutant,
           RunTests, Summarise, Die, CutShort, vars, history
  <2>1. CASE relevant'[p] = relevant[p]
    BY <2>b, <2>1 DEF ListIsRight
  <2>2. CASE SaveRelevant /\ p = pr
    <3>1. PICK x \in output[pr] : TRUE
      BY <2>2 DEF SaveRelevant, WholeInv
    <3>2. x.of = TreeWith(pr, "print") /\ x.whole /\ x \in Outputs
      BY <2>a, <2>b, <3>1 DEF IInv, ResultsAreOfMutants, WholeInv
    <3>3. [of |-> TreeWith(pr, "print"), whole |-> TRUE] = x
      BY <3>2 DEF Outputs
    <3>4. PICK found \in Found : /\ found \in FoundOf[(pr \in Covered)][FALSE]
                                 /\ relevant' = [relevant EXCEPT ![pr] = {found}]
      <4>1. (pr \in Loud) = FALSE
        BY <2>2
      <4>2. PICK found \in Found : /\ found \in FoundOf[(pr \in Covered)][(pr \in Loud)]
                                   /\ relevant' = [relevant EXCEPT ![pr] = {found}]
        BY <2>2, <3>1, <3>3 DEF SaveRelevant
      <4> QED
        BY <4>1, <4>2
    <3>5. relevant'[p] = {found}
      BY <2>2, <2>a, <3>4
    <3>6. found = "none" <=> pr \notin Covered
      <4>1. CASE pr \in Covered
        BY <1>1, <3>4, <4>1
      <4>2. CASE pr \notin Covered
        <5>1. (pr \in Covered) = FALSE
          BY <4>2
        <5>2. found \in FoundOf[FALSE][FALSE]
          BY <3>4, <5>1, Zenon
        <5> QED
          BY <1>1, <4>2, <5>2
      <4> QED
        BY <4>1, <4>2
    <3> QED
      BY <2>2, <3>5, <3>6
  <2>3. relevant'[p] = relevant[p] \/ (SaveRelevant /\ p = pr)
    <3>1. "relevant" \notin cut'
      OBVIOUS
    <3>2. CASE Die
      BY <3>1, <3>2 DEF Die, CutShort, saved
    <3>3. CASE SaveRelevant
      BY <2>a, <3>3 DEF SaveRelevant
    <3> QED
      BY <3>2, <3>3 DEF Next, NewProcess, Start, Splice, Write, RunAll, Restore, Filtered, NextMutant,
                        RunTests, Summarise, vars, saved
  <2> QED
    BY <2>1, <2>2, <2>3
<1>4. IInv /\ WholeInv /\ [Next]_vars => WholeInv'
  BY WholeStep DEF IInv
<1> QED
  BY <1>2, <1>3, <1>4, Invariance, PTL DEF Spec
=============================================================================
