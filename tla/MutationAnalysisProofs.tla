------------------------ MODULE MutationAnalysisProofs ------------------------
(***************************************************************************)
(* Theorems about the collector, the mutation analysis and the pickles     *)
(* they share, for any number of pull requests, mutants, processes and     *)
(* deaths, and whatever a pull request contains.                           *)
(***************************************************************************)
EXTENDS MutationAnalysis, FiniteSetTheorems, SequenceTheorems, NaturalsInduction, WellFoundedInduction, TLAPS

Pickled == {NoData} \cup {ComputedFor[c] : c \in Possible}
Pickles == [what : {"none", "torn", "error", "data"}, data : Pickled]
Constructing == {"compute", "save", "save error", "dump", "dump error", "ready", "raised"}

PRTypes ==
    /\ content \in [PRs -> Possible] /\ \A p \in PRs : content[p] \in Contents[p]
    /\ cache \in [PRs -> Pickles]
    /\ prpc \in Constructing \cup {"idle"}
    /\ number \in PRs \cup {0} /\ (prpc = "idle" <=> number = 0)
    /\ data \in Pickled

(* What is about to be pickled as data, or is, has been computed from the  *)
(* pull request.                                                           *)
DataInv ==
    /\ prpc \in {"save", "dump", "ready"} => data = ComputedFor[content[number]]
    /\ \A p \in PRs : cache[p].what = "data" => cache[p].data = ComputedFor[content[p]]

(* Where each program is, and who has a PullRequest under construction.    *)
Places ==
    /\ program \in {"down", "collector", "mutation"}
    /\ program = "down" => pc = "done" /\ prpc = "idle"
    /\ program = "collector" =>
          /\ pc \in {"next", "retrieve", "write", "write last", "fill", "fill last"}
          /\ todo \in Seq(PRs)
          /\ prpc = "idle" <=> pc # "retrieve"
          /\ pc \in {"fill", "fill last"} => file.exists
    /\ program = "mutation" =>
          /\ pc \in {"next", "constructed", "load", "test", "save"}
          /\ todo \in Seq(Jobs) /\ (pc # "next" => todo # << >>)
          /\ prpc = "idle" <=> pc # "constructed"

Collection ==
    /\ dataset \subseteq PRs
    /\ file \in [exists : BOOLEAN, prs : SUBSET PRs, whole : BOOLEAN]
    /\ file.prs # {} => file.exists
    /\ SelectedIsAnalysable

DInv == PRTypes /\ DataInv /\ Places /\ Collection

-----------------------------------------------------------------------------
(***************************************************************************)
(* What an analysis has to show.  A code is that of a mutant; a record of  *)
(* results has the output of some codes and counters that agree with it.   *)
(***************************************************************************)
CodeOf(p, i) == Mutants[p][i].code
Codes(p) == {CodeOf(p, i) : i \in DOMAIN Mutants[p]}
Dones(p) == UNION {[C -> Outputs] : C \in SUBSET Codes(p)}
Records(p) ==
    [done : Dones(p), relevant : Nat, n_mutant_pass : Nat, n_mutant_fail_assert : Nat,
     n_mutant_fail_other : Nat]
Agrees(r) ==
    /\ r.n_mutant_pass = Count(r.done, "pass")
    /\ r.n_mutant_fail_assert = Count(r.done, "assert")
    /\ r.n_mutant_fail_other = Count(r.done, "fail")

(* The mutants before the n-th that are relevant have been tested, and no  *)
(* code that no relevant mutant has.                                       *)
Relevant(p, i) == is_relevant(p, Mutants[p][i])
TestedBefore(p, done, n) ==
    /\ \A i \in DOMAIN Mutants[p] : (i < n /\ Relevant(p, i)) => CodeOf(p, i) \in DOMAIN done
    /\ \A c \in DOMAIN done : \E i \in DOMAIN Mutants[p] : Relevant(p, i) /\ CodeOf(p, i) = c
End(p) == Len(Mutants[p]) + 1

(* One file for each code that was tested, named for what it has shown.    *)
Matches(p, files, done) ==
    /\ \A f \in files : CodeOf(p, f[1]) \in DOMAIN done /\ done[CodeOf(p, f[1])] = f[2]
    /\ \A f, g \in files : CodeOf(p, f[1]) = CodeOf(p, g[1]) => f = g
    /\ \A c \in DOMAIN done : \E f \in files : CodeOf(p, f[1]) = c

Working == program = "mutation" /\ pc \in {"test", "save"}
WorkingOn(j) == Working /\ j = job

(* The process that tests mutants: what it remembers (m) at the n-th of    *)
(* them, beside the results on disk (r).  If the results it has loaded     *)
(* were complete it finds nothing to test, and has what is saved.          *)
Progress(p, m, n, place, r) ==
    /\ m \in Records(p) /\ Agrees(m)
    /\ n \in 1..End(p) /\ TestedBefore(p, m.done, n)
    /\ place = "save" => n = End(p) /\ r.what = "torn"
    /\ r.what = "saved" => m.done = r.is.done
WorkInv ==
    /\ ~Working => memory = Fresh
    /\ Working => Progress(job[1], memory, at, pc, results[job])

Saved == UNION {Records(p) : p \in PRs}
SavedInv ==
    /\ results \in [Jobs -> [what : {"none", "torn", "saved"}, is : Saved]]
    /\ \A j \in Jobs :
          LET r == results[j]
          IN  /\ r.is \in Records(j[1]) /\ Agrees(r.is)
              /\ r.what # "saved" => r.is = Fresh
              /\ r.what = "saved" => TestedBefore(j[1], r.is.done, End(j[1]))

DoneIn(j) == IF WorkingOn(j) THEN memory.done ELSE results[j].is.done
FilesInv ==
    /\ mutantFiles \in [Jobs -> SUBSET (Nat \X Outputs)]
    /\ \A j \in Jobs : mutantFiles[j] \subseteq (1..Len(Mutants[j[1]])) \X Outputs
    /\ \A j \in Jobs \ interrupted :
          /\ Matches(j[1], mutantFiles[j], DoneIn(j))
          /\ results[j].what = "torn" => WorkingOn(j)

HistInv == starts \in 0..MaxStarts /\ deaths \in 0..MaxDeaths /\ interrupted \subseteq Jobs

IInv == DInv /\ WorkInv /\ SavedInv /\ FilesInv /\ HistInv

-----------------------------------------------------------------------------
(***************************************************************************)
(* The order in which the pull requests are taken.                         *)
(***************************************************************************)
Upto(S, x) == {y \in S : y <= x}

(* The elements of a finite set of numbers, in ascending order.            *)
LEMMA Enumeration ==
    ASSUME NEW S \in SUBSET Nat, IsFiniteSet(S)
    PROVE  \E s \in [1..Cardinality(S) -> S] :
              \A i, j \in 1..Cardinality(S) : i < j => s[i] < s[j]
<1> DEFINE n == Cardinality(S)
           Rank == [x \in S |-> Cardinality(Upto(S, x))]
<1>1. n \in Nat
  BY FS_CardinalityType
<1>2. ASSUME NEW x \in S
      PROVE  IsFiniteSet(Upto(S, x)) /\ Rank[x] \in 1..n
  <2>1. Upto(S, x) \in SUBSET S /\ x \in Upto(S, x)
    BY DEF Upto
  <2>2. IsFiniteSet(Upto(S, x)) /\ Cardinality(Upto(S, x)) <= n
    BY <2>1, FS_Subset
  <2>3. Cardinality(Upto(S, x)) \in Nat /\ Cardinality(Upto(S, x)) # 0
    BY <2>1, <2>2, FS_CardinalityType, FS_EmptySet
  <2>4. Rank[x] = Cardinality(Upto(S, x))
    OBVIOUS
  <2> HIDE DEF Rank, n
  <2> QED
    BY <1>1, <2>2, <2>3, <2>4
<1>3. ASSUME NEW x \in S, NEW y \in S, x < y
      PROVE  Rank[x] < Rank[y]
  <2>1. Upto(S, x) \in SUBSET Upto(S, y) /\ y \in Upto(S, y) /\ y \notin Upto(S, x)
    <3>1. x \in Nat /\ y \in Nat /\ x <= y /\ ~(y <= x) /\ y <= y
      BY <1>3
    <3>2. \A z \in S : z \in Nat /\ (z <= x => z <= y)
      BY <3>1
    <3> QED
      BY <3>1, <3>2 DEF Upto
  <2>2. /\ Cardinality(Upto(S, x)) <= Cardinality(Upto(S, y))
        /\ Cardinality(Upto(S, x)) # Cardinality(Upto(S, y))
    BY <1>2, <2>1, FS_Subset
  <2> QED
    BY <1>2, <2>2
<1> HIDE DEF n
<1>4. Rank \in [S -> 1..n]
  BY <1>2
<1> HIDE DEF Rank
<1>5. \A x, y \in S : Rank[x] = Rank[y] => x = y
  <2> SUFFICES ASSUME NEW x \in S, NEW y \in S, x # y PROVE Rank[x] # Rank[y]
    OBVIOUS
  <2>1. x \in Nat /\ y \in Nat /\ (x < y \/ y < x)
    BY SMT
  <2>2. Rank[x] \in Nat /\ Rank[y] \in Nat
    BY <1>1, <1>4
  <2> QED
    BY <1>3, <2>1, <2>2
<1>6. Rank \in Injection(S, 1..n)
  BY <1>4, <1>5 DEF Injection, IsInjective
<1>7. IsFiniteSet(1..n) /\ Cardinality(1..n) = n
  BY <1>1, FS_Interval
<1>8. Rank \in Surjection(S, 1..n)
  BY <1>6, <1>7, FS_Injection DEF n
<1>9. \A i \in 1..n : \E x \in S : Rank[x] = i
  BY <1>8 DEF Surjection
<1> DEFINE s == [i \in 1..n |-> CHOOSE x \in S : Rank[x] = i]
<1>10. \A i \in 1..n : s[i] \in S /\ Rank[s[i]] = i
  BY <1>9
<1>11. s \in [1..n -> S]
  BY <1>10
<1> HIDE DEF s
<1>12. ASSUME NEW i \in 1..n, NEW j \in 1..n, i < j PROVE s[i] < s[j]
  <2>1. s[i] \in Nat /\ s[j] \in Nat /\ s[i] \in S /\ s[j] \in S
    BY <1>10
  <2>2. s[j] # s[i]
    BY <1>10, <1>12, <1>1
  <2>3. ~(s[j] < s[i])
    <3> SUFFICES ASSUME s[j] < s[i] PROVE FALSE
      OBVIOUS
    <3>1. Rank[s[j]] < Rank[s[i]]
      BY <1>3, <2>1
    <3> QED
      BY <3>1, <1>10, <1>12, <1>1
  <2> QED
    BY <2>1, <2>2, <2>3
<1> QED
  BY <1>11, <1>12 DEF n

LEMMA Orders == Ascending \in Seq(PRs) /\ Descending \in Seq(PRs)
<1> DEFINE n == Cardinality(PRs)
<1>1. n \in Nat /\ PRs \in SUBSET Nat
  BY PRsAssumption, FS_CardinalityType
<1>2. PICK s \in [1..n -> PRs] : \A i, j \in 1..n : i < j => s[i] < s[j]
  BY <1>1, PRsAssumption, Enumeration
<1> HIDE DEF n
<1>3. Ascending \in [1..n -> PRs]
  <2>1. \E t \in [1..n -> PRs] : \A i, j \in DOMAIN t : i < j => t[i] < t[j]
    BY <1>2
  <2> QED
    BY <2>1 DEF Ascending, n
<1>4. Descending \in [1..n -> PRs]
  <2> DEFINE t == [i \in 1..n |-> s[n + 1 - i]]
  <2>1. \A i \in 1..n : n + 1 - i \in 1..n
    BY <1>1
  <2>2. t \in [1..n -> PRs]
    BY <1>2, <2>1
  <2>3. ASSUME NEW i \in 1..n, NEW j \in 1..n, i < j PROVE t[i] > t[j]
    <3> DEFINE a == n + 1 - j
               b == n + 1 - i
    <3>1. a \in 1..n /\ b \in 1..n /\ a < b
      BY <1>1, <2>3
    <3>2. t[i] = s[b] /\ t[j] = s[a]
      OBVIOUS
    <3> HIDE DEF a, b, t
    <3>3. s[a] < s[b]
      BY <1>2, <3>1
    <3>4. s[a] \in Nat /\ s[b] \in Nat
      BY <1>1, <1>2, <3>1
    <3> QED
      BY <3>2, <3>3, <3>4
  <2> HIDE DEF t
  <2>4. \A i, j \in DOMAIN t : i < j => t[i] > t[j]
    BY <2>2, <2>3
  <2>5. \E u \in [1..n -> PRs] : \A i, j \in DOMAIN u : i < j => u[i] > u[j]
    BY <2>2, <2>4
  <2> QED
    BY <2>5 DEF Descending, n
<1> QED
  BY <1>1, <1>3, <1>4

(* A set of numbers has a least one, and a greatest one if it is bounded.  *)
LEMMA LeastOf ==
    ASSUME NEW S \in SUBSET Nat, S # {}
    PROVE  \E m \in S : \A k \in S : m <= k
<1> DEFINE R == OpToRel(<, Nat)
<1>1. IsWellFoundedOn(R, Nat)
  BY NatLessThanWellFounded
<1>2. \A x, y \in Nat : y < x => <<y, x>> \in R
  BY DEF OpToRel
<1> HIDE DEF R
<1>3. PICK x \in S : \A y \in S : ~ (<<y, x>> \in R)
  <2>1. S \subseteq Nat
    OBVIOUS
  <2> QED
    BY <1>1, <2>1, WFMin
<1>4. \A k \in S : k \in Nat /\ x \in Nat
  OBVIOUS
<1>5. \A k \in S : ~(k < x)
  BY <1>2, <1>3, <1>4
<1>6. \A k \in S : x <= k
  BY <1>4, <1>5
<1> QED
  BY <1>6

LEMMA GreatestOf ==
    ASSUME NEW S \in SUBSET Nat, S # {}, NEW n \in Nat, \A k \in S : k <= n
    PROVE  \E m \in S : \A k \in S : k <= m
<1> DEFINE T == {n - k : k \in S}
<1>1. T \in SUBSET Nat /\ T # {}
  <2>1. \A k \in S : n - k \in Nat
    OBVIOUS
  <2>2. \A t \in T : t \in Nat
    BY <2>1
  <2> QED
    BY <2>2
<1>2. PICK t \in T : \A u \in T : t <= u
  BY <1>1, LeastOf
<1>3. PICK m \in S : t = n - m
  BY <1>2
<1>4. \A k \in S : n - m <= n - k
  BY <1>2, <1>3
<1> QED
  BY <1>4

(* Induction over the numbers, stated of a set.                            *)
LEMMA Induction ==
    ASSUME NEW S, 0 \in S, \A n \in Nat : n \in S => n + 1 \in S
    PROVE  Nat \subseteq S
<1> SUFFICES ASSUME Nat \ S # {} PROVE FALSE
  OBVIOUS
<1> DEFINE R == OpToRel(<, Nat)
<1>1. IsWellFoundedOn(R, Nat)
  BY NatLessThanWellFounded
<1>2. \A x, y \in Nat : y < x => <<y, x>> \in R
  BY DEF OpToRel
<1> HIDE DEF R
<1>3. PICK x \in Nat \ S : \A y \in Nat \ S : ~ (<<y, x>> \in R)
  <2>1. Nat \ S \subseteq Nat
    OBVIOUS
  <2> QED
    BY <1>1, <2>1, WFMin
<1>4. x # 0 /\ x - 1 \in Nat /\ x - 1 < x
  OBVIOUS
<1>5. x - 1 \in S
  BY <1>2, <1>3, <1>4
<1>6. (x - 1) + 1 \in S
  BY <1>4, <1>5
<1> QED
  BY <1>3, <1>6

(* The equation of the recursive function behind FlattenSeq.               *)
Flattening(f, parts) ==
    f = [i \in 1..Len(parts) |-> IF i = 1 THEN parts[i] ELSE f[i - 1] \o parts[i]]

(* FlattenSeq puts sequences together from left to right.                  *)
LEMMA FlattenSteps ==
    ASSUME NEW S, NEW parts \in Seq(Seq(S))
    PROVE  \E g \in [0..Len(parts) -> Seq(S)] :
              /\ g[0] = << >> /\ FlattenSeq(parts) = g[Len(parts)]
              /\ \A i \in 1..Len(parts) : g[i] = g[i - 1] \o parts[i]
<1> DEFINE n == Len(parts)
           Partly(g, k) == \A i \in 1..k : g[i] = IF i = 1 THEN parts[i] ELSE g[i - 1] \o parts[i]
           Exists(k) == \E g \in [1..k -> Seq(S)] : Partly(g, k)
           N == {k \in Nat : k <= n => Exists(k)}
<1>1. n \in Nat /\ \A i \in 1..n : parts[i] \in Seq(S)
  OBVIOUS
<1> HIDE DEF n
<1>2. 0 \in N
  <2>1. 1..0 = {}
    OBVIOUS
  <2>2. [i \in 1..0 |-> << >>] \in [1..0 -> Seq(S)] /\ Partly([i \in 1..0 |-> << >>], 0)
    BY <2>1
  <2> QED
    BY <2>2
<1>3. ASSUME NEW k \in Nat, k \in N
      PROVE  k + 1 \in N
  <2> SUFFICES ASSUME k + 1 <= n
               PROVE  Exists(k + 1)
    <3> HIDE DEF Exists
    <3> QED
      OBVIOUS
  <2>1. k <= n /\ k + 1 \in 1..n
    BY <1>1
  <2>2. PICK g \in [1..k -> Seq(S)] : Partly(g, k)
    BY <1>3, <2>1
  <2> DEFINE last == IF k = 0 THEN parts[1] ELSE g[k] \o parts[k + 1]
             h == [i \in 1..(k + 1) |-> IF i = k + 1 THEN last ELSE g[i]]
  <2>3. last \in Seq(S)
    <3>1. CASE k = 0
      BY <1>1, <2>1, <3>1
    <3>2. CASE k # 0
      <4>1. k \in 1..k /\ g[k] \in Seq(S) /\ parts[k + 1] \in Seq(S)
        BY <1>1, <2>1, <2>2, <3>2
      <4> QED
        BY <3>2, <4>1
    <3> QED
      BY <3>1, <3>2
  <2>4. h[k + 1] = IF k + 1 = 1 THEN parts[k + 1] ELSE g[k] \o parts[k + 1]
    OBVIOUS
  <2>5. \A i \in 1..k : h[i] = g[i]
    <3>1. \A i \in 1..k : i \in 1..(k + 1) /\ i # k + 1
      OBVIOUS
    <3> QED
      BY <3>1
  <2> HIDE DEF last
  <2>6. h \in [1..(k + 1) -> Seq(S)]
    BY <2>2, <2>3
  <2> HIDE DEF h
  <2>7. ASSUME NEW i \in 1..(k + 1)
        PROVE  h[i] = IF i = 1 THEN parts[i] ELSE h[i - 1] \o parts[i]
    <3>1. CASE i = k + 1
      <4>1. k # 0 => k \in 1..k /\ (k + 1) - 1 = k
        OBVIOUS
      <4> QED
        BY <2>4, <2>5, <3>1, <4>1
    <3>2. CASE i # k + 1
      <4>1. i \in 1..k /\ (i # 1 => i - 1 \in 1..k)
        BY <3>2
      <4> QED
        BY <2>2, <2>5, <4>1
    <3> QED
      BY <3>1, <3>2
  <2> QED
    BY <2>6, <2>7
<1>4. n \in N
  <2> HIDE DEF N
  <2> QED
    BY <1>1, <1>2, <1>3, Induction
<1>5. PICK g \in [1..n -> Seq(S)] : Partly(g, n)
  <2> HIDE DEF Exists
  <2>1. Exists(n)
    BY <1>1, <1>4
  <2> QED
    BY <2>1 DEF Exists
<1> DEFINE f == CHOOSE F : Flattening(F, parts)
<1>6. Flattening(f, parts)
  <2>1. Flattening(g, parts)
    BY <1>5 DEF Flattening, n
  <2> QED
    BY <2>1
<1> HIDE DEF f
<1>7. n = 0 => FlattenSeq(parts) = parts
  BY DEF FlattenSeq, n
<1>8. n # 0 => FlattenSeq(parts) = f[n]
  BY DEF FlattenSeq, Flattening, f, n
<1> DEFINE M == {k \in Nat : k \in 1..n => f[k] \in Seq(S)}
<1>9. 0..n \subseteq M
  <2>1. \A i \in 1..n : f[i] = IF i = 1 THEN parts[i] ELSE f[i - 1] \o parts[i]
    BY <1>6 DEF Flattening, n
  <2>2. 0 \in M
    OBVIOUS
  <2>3. ASSUME NEW k \in Nat, k \in M PROVE k + 1 \in M
    <3> SUFFICES ASSUME k + 1 \in 1..n PROVE f[k + 1] \in Seq(S)
      OBVIOUS
    <3>1. f[k + 1] = IF k + 1 = 1 THEN parts[k + 1] ELSE f[(k + 1) - 1] \o parts[k + 1]
      BY <2>1
    <3>2. (k + 1) - 1 = k /\ (k + 1 = 1 \/ k \in 1..n) /\ parts[k + 1] \in Seq(S)
      BY <1>1
    <3> HIDE DEF f
    <3>3. k \in 1..n => f[k] \in Seq(S)
      BY <2>3
    <3> QED
      BY <3>1, <3>2, <3>3
  <2> HIDE DEF M
  <2>4. \A k \in Nat : k \in M => k + 1 \in M
    BY <2>3
  <2>5. Nat \subseteq M
    BY <2>2, <2>4, Induction
  <2>6. 0..n \subseteq Nat
    OBVIOUS
  <2> QED
    BY <2>5, <2>6
<1>10. \A i \in 1..n : f[i] \in Seq(S) /\ f[i] = IF i = 1 THEN parts[i] ELSE f[i - 1] \o parts[i]
  <2>1. \A i \in 1..n : i \in 0..n
    OBVIOUS
  <2>2. \A i \in 1..n : f[i] = IF i = 1 THEN parts[i] ELSE f[i - 1] \o parts[i]
    BY <1>6 DEF Flattening, n
  <2>3. ASSUME NEW i \in 1..n PROVE f[i] \in Seq(S)
    <3>1. i \in M
      BY <1>9, <2>1
    <3> QED
      BY <3>1
  <2> QED
    BY <2>2, <2>3
<1> HIDE DEF M
<1> DEFINE h == [i \in 0..n |-> IF i = 0 THEN << >> ELSE f[i]]
<1>11. h \in [0..n -> Seq(S)] /\ h[0] = << >> /\ \A i \in 1..n : h[i] = f[i]
  <2>1. \A i \in 0..n : i # 0 => i \in 1..n
    OBVIOUS
  <2>2. \A i \in 1..n : i \in 0..n /\ i # 0
    OBVIOUS
  <2>3. 0 \in 0..n /\ << >> \in Seq(S)
    BY <1>1
  <2> HIDE DEF f
  <2> QED
    BY <1>10, <2>1, <2>2, <2>3
<1> HIDE DEF h
<1>12. FlattenSeq(parts) = h[n]
  <2>1. n = 0 => parts = << >>
    BY DEF n
  <2>2. n # 0 => n \in 1..n
    BY <1>1
  <2> QED
    BY <1>7, <1>8, <1>11, <2>1, <2>2
<1>13. ASSUME NEW i \in 1..n PROVE h[i] = h[i - 1] \o parts[i]
  <2>1. CASE i = 1
    <3>1. parts[1] \in Seq(S)
      BY <1>1, <2>1
    <3>2. << >> \o parts[1] = parts[1]
      BY <3>1
    <3>3. h[1] = parts[1] /\ h[0] = << >> /\ i - 1 = 0
      BY <1>10, <1>11, <2>1
    <3> QED
      BY <2>1, <3>2, <3>3
  <2>2. CASE i # 1
    <3>1. i - 1 \in 1..n
      BY <1>1, <2>2
    <3> QED
      BY <1>10, <1>11, <2>2, <3>1
  <2> QED
    BY <2>1, <2>2
<1> QED
  BY <1>11, <1>12, <1>13 DEF n

(* Sequences of elements of S, one after the other, are such a sequence.   *)
LEMMA FlattenType ==
    ASSUME NEW S, NEW parts \in Seq(Seq(S))
    PROVE  FlattenSeq(parts) \in Seq(S)
<1>1. PICK g \in [0..Len(parts) -> Seq(S)] : FlattenSeq(parts) = g[Len(parts)]
  BY FlattenSteps
<1>2. Len(parts) \in 0..Len(parts)
  OBVIOUS
<1> QED
  BY <1>1, <1>2

LEMMA JobsType ==
    ASSUME NEW p \in PRs
    PROVE  JobsOf(p) \in Seq(Jobs)
<1>1. <<p, 1>> \in Jobs /\ <<p, 2>> \in Jobs
  BY DEF Jobs, Phases
<1>2. << >> \in Seq(Jobs) /\ <<<<p, 2>>>> \in Seq(Jobs) /\ <<<<p, 1>>>> \in Seq(Jobs)
  BY <1>1
<1> HIDE DEF Jobs
<1>3. <<<<p, 1>>>> \o <<<<p, 2>>>> \in Seq(Jobs) /\ <<<<p, 1>>>> \o << >> \in Seq(Jobs)
  BY <1>2
<1> QED
  BY <1>2, <1>3 DEF JobsOf

LEMMA TodoType ==
    FlattenSeq([i \in DOMAIN Ascending |-> JobsOf(Ascending[i])]) \in Seq(Jobs)
<1>1. Ascending \in Seq(PRs)
  BY Orders
<1>2. DOMAIN Ascending = 1..Len(Ascending) /\ Len(Ascending) \in Nat
      /\ \A i \in 1..Len(Ascending) : Ascending[i] \in PRs
  BY <1>1
<1>3. [i \in DOMAIN Ascending |-> JobsOf(Ascending[i])] \in Seq(Seq(Jobs))
  BY <1>2, JobsType
<1> QED
  BY <1>3, FlattenType

-----------------------------------------------------------------------------
(***************************************************************************)
(* The construction of a PullRequest.                                      *)
(***************************************************************************)
(* What a step of the system does to it.                                   *)
PRMove == (\E p \in PRs : ConstructStep(p)) \/ PRStep \/ Release \/ UNCHANGED prvars

LEMMA ContentPossible ==
    ASSUME PRTypes, prpc # "idle"
    PROVE  number \in PRs /\ content[number] \in Possible /\ ComputedFor[content[number]] \in Pickled
<1>1. number \in PRs
  BY DEF PRTypes
<1>2. content[number] \in Possible
  BY <1>1 DEF PRTypes
<1> QED
  BY <1>1, <1>2 DEF Pickled

LEMMA MovesOnce ==
    ASSUME Places, [Next]_vars
    PROVE  PRMove
<1> USE DEF PRMove
<1>1. CASE StartCollector
  BY <1>1 DEF StartCollector
<1>2. CASE CollectNext
  <2>1. CASE todo = << >> \/ Cardinality(dataset) >= MaxPRs
    BY <1>2, <2>1 DEF CollectNext
  <2>2. CASE ~(todo = << >> \/ Cardinality(dataset) >= MaxPRs)
    <3>1. ConstructStep(Head(todo))
      BY <1>2, <2>2 DEF CollectNext
    <3>2. Head(todo) \in PRs
      BY <1>2, <2>2 DEF CollectNext, Places
    <3> QED
      BY <3>1, <3>2
  <2> QED
    BY <2>1, <2>2
<1>3. CASE Retrieved
  BY <1>3 DEF Retrieved
<1>4. CASE OpenDataset
  BY <1>4 DEF OpenDataset
<1>5. CASE FillDataset
  BY <1>5 DEF FillDataset
<1>6. CASE StartMutation
  BY <1>6 DEF StartMutation
<1>7. CASE MutationNext
  <2>1. CASE todo = << >>
    BY <1>7, <2>1 DEF MutationNext
  <2>2. CASE todo # << >>
    <3>1. ConstructStep(job[1])
      BY <1>7, <2>2 DEF MutationNext
    <3>2. job \in Jobs
      BY <1>7, <2>2 DEF MutationNext, Places, job
    <3>3. job[1] \in PRs
      BY <3>2 DEF Jobs
    <3> QED
      BY <3>1, <3>3
  <2> QED
    BY <2>1, <2>2
<1>8. CASE Constructed
  BY <1>8 DEF Constructed
<1>9. CASE Crashes
  BY <1>9 DEF Crashes
<1>10. CASE LoadResults
  BY <1>10 DEF LoadResults
<1>11. CASE SkipMutant
  BY <1>11 DEF SkipMutant
<1>12. CASE TestMutant
  BY <1>12 DEF TestMutant
<1>13. CASE OpenResults
  BY <1>13 DEF OpenResults
<1>14. CASE DumpResults
  BY <1>14 DEF DumpResults
<1>15. CASE Construct
  BY <1>15 DEF Construct
<1>16. CASE Die
  BY <1>16 DEF Die
<1>17. CASE UNCHANGED vars
  BY <1>17 DEF vars
<1> QED
  BY <1>1, <1>2, <1>3, <1>4, <1>5, <1>6, <1>7, <1>8, <1>9, <1>10, <1>11, <1>12, <1>13, <1>14,
     <1>15, <1>16, <1>17 DEF Next, Collector, Mutation

LEMMA ConstructStarts ==
    ASSUME PRTypes, NEW p \in PRs, ConstructStep(p)
    PROVE  prpc' # "idle"
<1>1. cache[p].what \in {"none", "torn", "error", "data"}
  BY DEF PRTypes, Pickles
<1>2. prpc' = CASE cache[p].what \in {"none", "error"} -> "compute"
                [] cache[p].what = "torn" -> "raised"
                [] cache[p].what = "data" -> "ready"
  BY DEF ConstructStep
<1> QED
  BY <1>1, <1>2

LEMMA DataStep ==
    ASSUME PRTypes, DataInv, PRMove
    PROVE  PRTypes' /\ DataInv' /\ content' = content
<1> USE DEF PRTypes, DataInv
<1>a. NoData \in Pickled
  BY DEF Pickled
<1>b. \A p \in PRs : cache[p].data \in Pickled /\ cache[p].what \in {"none", "torn", "error", "data"}
  BY DEF Pickles
<1>c. \A p \in PRs : p # 0
  BY PRsAssumption
<1>1. ASSUME NEW p \in PRs, ConstructStep(p)
      PROVE  PRTypes' /\ DataInv' /\ content' = content
  <2>1. /\ number' = p /\ content' = content /\ cache' = cache /\ data' = cache[p].data
        /\ prpc' = CASE cache[p].what \in {"none", "error"} -> "compute"
                     [] cache[p].what = "torn" -> "raised"
                     [] cache[p].what = "data" -> "ready"
    BY <1>1 DEF ConstructStep
  <2>2. prpc' \in {"compute", "raised", "ready"} /\ (prpc' = "ready" => cache[p].what = "data")
    BY <1>b, <2>1
  <2>3. PRTypes'
    BY <1>b, <1>c, <2>1, <2>2 DEF Constructing
  <2>4. DataInv'
    BY <2>1, <2>2
  <2> QED
    BY <2>1, <2>3, <2>4
<1>2. CASE Compute
  <2>1. number \in PRs /\ ComputedFor[content[number]] \in Pickled
    BY <1>2, ContentPossible DEF Compute
  <2>2. /\ content' = content /\ cache' = cache /\ number' = number
        /\ \/ data' = ComputedFor[content[number]] /\ prpc' = "save"
           \/ data' = NoData /\ prpc' = "save error"
    BY <1>2 DEF Compute
  <2>3. PRTypes'
    BY <1>a, <1>c, <2>1, <2>2 DEF Constructing
  <2>4. DataInv'
    BY <2>2
  <2> QED
    BY <2>2, <2>3, <2>4
<1>3. CASE Open
  <2>1. number \in PRs
    BY <1>3, ContentPossible DEF Open
  <2>2. /\ content' = content /\ number' = number /\ data' = data
        /\ cache' = [cache EXCEPT ![number] = [what |-> "torn", data |-> NoData]]
        /\ prpc' = IF prpc = "save" THEN "dump" ELSE "dump error"
        /\ prpc \in {"save", "save error"}
    BY <1>3 DEF Open
  <2>3. [what |-> "torn", data |-> NoData] \in Pickles
    BY <1>a DEF Pickles
  <2>4. PRTypes'
    BY <1>c, <2>1, <2>2, <2>3 DEF Constructing
  <2>5. DataInv'
    <3>1. prpc' \in {"save", "dump", "ready"} => data' = ComputedFor[content'[number']]
      BY <2>2
    <3>2. \A p \in PRs : cache'[p] = IF p = number THEN [what |-> "torn", data |-> NoData] ELSE cache[p]
      BY <2>1, <2>2
    <3>3. \A p \in PRs : cache'[p].what = "data" => cache'[p].data = ComputedFor[content'[p]]
      BY <2>2, <3>2
    <3> QED
      BY <3>1, <3>3
  <2> QED
    BY <2>2, <2>4, <2>5
<1>4. CASE Dump
  <2>1. number \in PRs
    BY <1>4, ContentPossible DEF Dump
  <2> DEFINE new == [what |-> IF prpc = "dump" THEN "data" ELSE "error", data |-> data]
  <2>2. /\ content' = content /\ number' = number /\ data' = data
        /\ cache' = [cache EXCEPT ![number] = new]
        /\ prpc' = IF prpc = "dump" THEN "ready" ELSE "raised"
        /\ prpc \in {"dump", "dump error"}
    BY <1>4 DEF Dump
  <2>3. new \in Pickles /\ new.data = data /\ (new.what = "data" => prpc = "dump")
    BY DEF Pickles
  <2> HIDE DEF new
  <2>4. PRTypes'
    BY <1>c, <2>1, <2>2, <2>3 DEF Constructing
  <2>5. DataInv'
    <3>1. prpc' \in {"save", "dump", "ready"} => data' = ComputedFor[content'[number']]
      BY <2>2
    <3>2. \A p \in PRs : cache'[p] = IF p = number THEN new ELSE cache[p]
      BY <2>1, <2>2
    <3>3. \A p \in PRs : cache'[p].what = "data" => cache'[p].data = ComputedFor[content'[p]]
      BY <2>2, <2>3, <3>2
    <3> QED
      BY <3>1, <3>3
  <2> QED
    BY <2>2, <2>4, <2>5
<1>5. CASE Release
  BY <1>5, <1>a, <1>c DEF Release
<1>6. CASE UNCHANGED prvars
  BY <1>6 DEF prvars
<1> QED
  BY <1>1, <1>2, <1>3, <1>4, <1>5, <1>6 DEF PRMove, PRStep

(***************************************************************************)
(* Where the programs are.                                                 *)
(***************************************************************************)
LEMMA HeadTail ==
    ASSUME NEW S, NEW s \in Seq(S), s # << >>
    PROVE  Head(s) \in S /\ Tail(s) \in Seq(S)
OBVIOUS

LEMMA PlacesStep ==
    ASSUME Places, PRTypes, Collection, [Next]_vars
    PROVE  Places'
<1> USE DEF Places
<1>0. prpc \in Constructing \cup {"idle"}
  BY DEF PRTypes
<1>1. CASE StartCollector
  <2>1. Descending \in Seq(PRs)
    BY Orders
  <2> QED
    BY <1>1, <2>1 DEF StartCollector, prvars
<1>2. CASE CollectNext
  <2>1. CASE todo = << >> \/ Cardinality(dataset) >= MaxPRs
    BY <1>2, <2>1 DEF CollectNext, prvars, colvars
  <2>2. CASE ~(todo = << >> \/ Cardinality(dataset) >= MaxPRs)
    <3>1. ConstructStep(Head(todo)) /\ todo' = Tail(todo) /\ pc' = "retrieve"
          /\ program' = program /\ program = "collector" /\ file' = file
      BY <1>2, <2>2 DEF CollectNext, colvars
    <3>2. Head(todo) \in PRs /\ Tail(todo) \in Seq(PRs)
      <4>1. todo \in Seq(PRs) /\ todo # << >>
        BY <2>2, <3>1
      <4> QED
        BY <4>1, HeadTail
    <3>3. prpc' # "idle"
      BY <3>1, <3>2, ConstructStarts
    <3> QED
      BY <3>1, <3>2, <3>3
  <2> QED
    BY <2>1, <2>2
<1>3. CASE Retrieved
  BY <1>3 DEF Retrieved, Release
<1>4. CASE OpenDataset
  <2>1. /\ program' = program /\ program = "collector" /\ prpc' = prpc /\ todo' = todo
        /\ pc \in {"write", "write last"} /\ pc' \in {"fill", "fill last"}
    BY <1>4 DEF OpenDataset, prvars
  <2>2. file'.exists
    BY <1>4 DEF OpenDataset, Collection
  <2> QED
    BY <2>1, <2>2
<1>5. CASE FillDataset
  BY <1>5 DEF FillDataset, prvars
<1>6. CASE StartMutation
  BY <1>6, TodoType DEF StartMutation, prvars
<1>7. CASE MutationNext
  <2>1. CASE todo = << >>
    BY <1>7, <2>1 DEF MutationNext, prvars
  <2>2. CASE todo # << >>
    <3>1. ConstructStep(job[1]) /\ todo' = todo /\ pc' = "constructed"
          /\ program' = program /\ program = "mutation"
      BY <1>7, <2>2 DEF MutationNext
    <3>2. job \in Jobs
      BY <2>2, <3>1 DEF job
    <3>3. job[1] \in PRs
      BY <3>2 DEF Jobs
    <3>4. prpc' # "idle"
      BY <3>1, <3>3, ConstructStarts
    <3> QED
      BY <2>2, <3>1, <3>4
  <2> QED
    BY <2>1, <2>2
<1>8. CASE Constructed
  BY <1>8 DEF Constructed, Release
<1>9. CASE Crashes
  BY <1>9 DEF Crashes, Release
<1>10. CASE LoadResults
  BY <1>10 DEF LoadResults, prvars
<1>11. CASE SkipMutant
  BY <1>11 DEF SkipMutant, prvars
<1>12. CASE TestMutant
  BY <1>12 DEF TestMutant, prvars
<1>13. CASE OpenResults
  BY <1>13 DEF OpenResults, prvars
<1>14. CASE DumpResults
  BY <1>14 DEF DumpResults, prvars
<1>15. CASE Construct
  BY <1>15 DEF Construct, PRStep, Compute, Open, Dump, colvars
<1>16. CASE Die
  BY <1>16 DEF Die, Release
<1>17. CASE UNCHANGED vars
  BY <1>17 DEF vars, prvars, colvars
<1> QED
  BY <1>1, <1>2, <1>3, <1>4, <1>5, <1>6, <1>7, <1>8, <1>9, <1>10, <1>11, <1>12, <1>13, <1>14,
     <1>15, <1>16, <1>17 DEF Next, Collector, Mutation

(***************************************************************************)
(* The pull requests that the collector has found.                         *)
(***************************************************************************)
(* One function is changed, none is added or removed: both versions have   *)
(* it, and no other.                                                       *)
LEMMA SelectedHasOne ==
    ASSUME NEW c \in Possible, Select(ComputedFor[c])
    PROVE  SingleFunction(ComputedFor[c])
<1> DEFINE d == ComputedFor[c]
<1>1. CASE d = NoData
  <2>1. d.changed_functions = {}
    BY <1>1 DEF NoData
  <2> HIDE DEF d
  <2>2. Cardinality({}) = 0
    BY FS_EmptySet
  <2> QED
    BY <2>1, <2>2 DEF Select, d
<1>2. CASE d = Computed(c)
  <2> DEFINE prev == prev_fut_info(c)
             post == post_fut_info(c)
  <2>1. /\ d.prev_fut_info = prev /\ d.post_fut_info = post
        /\ d.changed_functions = DOMAIN prev \cup DOMAIN post
        /\ d.added_functions = DOMAIN post \ DOMAIN prev
        /\ d.removed_functions = DOMAIN prev \ DOMAIN post
    BY <1>2 DEF Computed
  <2>2. Select(d)
    OBVIOUS
  <2> HIDE DEF d, prev, post
  <2>3. DOMAIN prev = DOMAIN prev \cup DOMAIN post /\ DOMAIN post = DOMAIN prev \cup DOMAIN post
    BY <2>1, <2>2 DEF Select
  <2>4. SingleFunction(d)
    BY <2>1, <2>2, <2>3 DEF Select, SingleFunction
  <2> QED
    BY <2>4 DEF d
<1>3. d = NoData \/ d = Computed(c)
  BY DEF ComputedFor
<1> QED
  BY <1>1, <1>2, <1>3

LEMMA CollectionStep ==
    ASSUME Collection, Places, PRTypes, DataInv, content' = content, [Next]_vars
    PROVE  Collection'
<1> DEFINE Usable(S) == \A p \in S : SingleFunction(ComputedFor[content[p]])
           Files == [exists : BOOLEAN, prs : SUBSET PRs, whole : BOOLEAN]
<1>a. /\ dataset \subseteq PRs /\ file \in Files /\ (file.prs # {} => file.exists)
      /\ Usable(dataset) /\ Usable(file.prs)
  BY DEF Collection, SelectedIsAnalysable
<1>b. SUFFICES /\ dataset' \subseteq PRs /\ file' \in Files /\ (file'.prs # {} => file'.exists)
               /\ Usable(dataset') /\ Usable(file'.prs)
  <2> SUFFICES ASSUME dataset' \subseteq PRs, file' \in Files, file'.prs # {} => file'.exists,
                      Usable(dataset'), Usable(file'.prs)
               PROVE  Collection'
    OBVIOUS
  <2>1. \A p \in dataset' \cup file'.prs : SingleFunction(ComputedFor[content'[p]])
    OBVIOUS
  <2> QED
    BY <2>1 DEF Collection, SelectedIsAnalysable
<1> HIDE DEF Usable
<1>c. Usable({}) /\ \A S, T : Usable(S) /\ Usable(T) => Usable(S \cup T)
  BY DEF Usable
<1>1. CASE UNCHANGED colvars
  BY <1>1, <1>a DEF colvars
<1>2. CASE StartCollector
  BY <1>2, <1>a, <1>c DEF StartCollector
<1>3. CASE Retrieved
  <2>1. file' = file
    BY <1>3 DEF Retrieved
  <2>2. CASE prpc = "ready" /\ Select(data)
    <3>1. dataset' = dataset \cup {number}
      BY <1>3, <2>2 DEF Retrieved
    <3>2. number \in PRs /\ content[number] \in Possible
      BY <2>2, ContentPossible
    <3>3. SingleFunction(ComputedFor[content[number]])
      BY <2>2, <3>2, SelectedHasOne DEF DataInv
    <3>4. Usable({number})
      BY <3>3 DEF Usable
    <3> QED
      BY <1>a, <1>c, <2>1, <3>1, <3>2, <3>4
  <2>3. CASE ~(prpc = "ready" /\ Select(data))
    <3>1. dataset' = dataset
      BY <1>3, <2>3 DEF Retrieved
    <3> QED
      BY <1>a, <2>1, <3>1
  <2> QED
    BY <2>2, <2>3
<1>4. CASE OpenDataset
  BY <1>4, <1>a, <1>c DEF OpenDataset
<1>5. CASE FillDataset
  <2>1. dataset' = dataset /\ file' = [file EXCEPT !.prs = dataset, !.whole = pc = "fill last"]
    BY <1>5 DEF FillDataset
  <2>2. file' \in Files /\ file'.prs = dataset /\ file'.exists = file.exists
    BY <1>a, <2>1
  <2>3. file.exists
    BY <1>5 DEF FillDataset, Places
  <2> QED
    BY <1>a, <2>1, <2>2, <2>3
<1>6. CASE Die
  BY <1>6, <1>a, <1>c DEF Die
<1>7. CASE CollectNext \/ Mutation \/ Construct \/ UNCHANGED vars
  <2>1. UNCHANGED colvars
    BY <1>7 DEF CollectNext, Mutation, StartMutation, MutationNext, Constructed, Crashes, LoadResults,
                SkipMutant, TestMutant, OpenResults, DumpResults, Construct, vars
  <2> QED
    BY <1>1, <2>1
<1> QED
  BY <1>1, <1>2, <1>3, <1>4, <1>5, <1>6, <1>7 DEF Next, Collector

LEMMA DInit == Init => DInv
<1> SUFFICES ASSUME Init PROVE DInv
  OBVIOUS
<1>1. PRTypes
  <2>1. /\ content \in [PRs -> Possible] /\ \A p \in PRs : content[p] \in Contents[p]
        /\ cache = [p \in PRs |-> NoPickle] /\ prpc = "idle" /\ number = 0 /\ data = NoData
    BY DEF Init, PRInit
  <2>2. NoPickle \in Pickles /\ NoData \in Pickled
    BY DEF NoPickle, Pickles, Pickled
  <2> QED
    BY <2>1, <2>2 DEF PRTypes
<1>2. DataInv
  <2>1. cache = [p \in PRs |-> NoPickle] /\ prpc = "idle"
    BY DEF Init, PRInit
  <2>2. NoPickle.what = "none"
    BY DEF NoPickle
  <2> QED
    BY <2>1, <2>2 DEF DataInv
<1>3. Places
  BY DEF Init, PRInit, Places
<1>4. Collection
  BY DEF Init, Collection, SelectedIsAnalysable
<1> QED
  BY <1>1, <1>2, <1>3, <1>4 DEF DInv

LEMMA DStep == DInv /\ [Next]_vars => DInv'
<1> SUFFICES ASSUME DInv, [Next]_vars PROVE DInv'
  OBVIOUS
<1>1. PRTypes /\ DataInv /\ Places /\ Collection
  BY DEF DInv
<1>2. PRTypes' /\ DataInv' /\ content' = content
  BY <1>1, MovesOnce, DataStep
<1>3. Places'
  BY <1>1, PlacesStep
<1>4. Collection'
  BY <1>1, <1>2, CollectionStep
<1> QED
  BY <1>2, <1>3, <1>4 DEF DInv

(* The data of a pull request are its own, whether they were computed or   *)
(* loaded, after failures and deaths in any step, and the analysis accepts *)
(* what the collector selects: for any number of pull requests and         *)
(* whatever they change (PullRequest.__init__, PRCollector.py).            *)
THEOREM Usable == Spec => []DataIsUsable
<1>1. DInv => DataIsUsable
  BY DEF DInv, DataInv, Collection, DataIsUsable, DataIsRight
<1> QED
  BY DInit, DStep, <1>1, PTL DEF Spec

-----------------------------------------------------------------------------
(***************************************************************************)
(* Results: what is recorded of codes, and how it is counted.              *)
(***************************************************************************)
LEMMA MutantsType ==
    ASSUME NEW p \in PRs
    PROVE  /\ Len(Mutants[p]) \in Nat /\ DOMAIN Mutants[p] = 1..Len(Mutants[p])
           /\ End(p) \in Nat
           /\ \A i \in DOMAIN Mutants[p] : Mutants[p][i].line \in DOMAIN Code[p]
<1>1. Mutants[p] \in Seq([line : DOMAIN Code[p], code : STRING])
  BY CodeAssumption
<1>2. Len(Mutants[p]) \in Nat /\ DOMAIN Mutants[p] = 1..Len(Mutants[p])
  BY <1>1
<1>3. \A i \in DOMAIN Mutants[p] : Mutants[p][i].line \in DOMAIN Code[p]
  <2> DEFINE S == [line : DOMAIN Code[p], code : STRING]
             s == Mutants[p]
  <2>1. \A x \in S : x.line \in DOMAIN Code[p]
    OBVIOUS
  <2>2. s \in Seq(S)
    BY <1>1
  <2> HIDE DEF s, S
  <2>3. \A i \in DOMAIN s : s[i] \in S
    BY <2>2
  <2> QED
    BY <2>1, <2>3 DEF s
<1> QED
  BY <1>2, <1>3 DEF End

LEMMA DoneType ==
    ASSUME NEW p \in PRs, NEW done \in Dones(p)
    PROVE  /\ DOMAIN done \in SUBSET Codes(p) /\ IsFiniteSet(DOMAIN done)
           /\ done \in [DOMAIN done -> Outputs]
<1>1. PICK C \in SUBSET Codes(p) : done \in [C -> Outputs]
  BY DEF Dones
<1>2. DOMAIN done = C
  BY <1>1
<1>3. IsFiniteSet(1..Len(Mutants[p]))
  BY MutantsType, FS_Interval
<1> DEFINE D == DOMAIN Mutants[p]
           f == [i \in D |-> CodeOf(p, i)]
<1>4. IsFiniteSet(D)
  BY <1>3, MutantsType
<1>5. f \in Surjection(D, Codes(p))
  BY DEF Codes, Surjection
<1>6. IsFiniteSet(Codes(p))
  <2> HIDE DEF f, D
  <2> QED
    BY <1>4, <1>5, FS_Surjection
<1>7. IsFiniteSet(C)
  BY <1>6, FS_Subset
<1> QED
  BY <1>1, <1>2, <1>7

LEMMA FreshIsEmpty ==
    ASSUME NEW p \in PRs
    PROVE  /\ Fresh \in Records(p) /\ Agrees(Fresh)
           /\ Fresh.done = Empty /\ DOMAIN Empty = {}
           /\ TestedBefore(p, Empty, 1) /\ Matches(p, {}, Empty)
<1>1. DOMAIN Empty = {} /\ Empty \in [{} -> Outputs]
  BY DEF Empty
<1>2. Empty \in Dones(p)
  BY <1>1 DEF Dones
<1>3. Fresh = [done |-> Empty, relevant |-> 0, n_mutant_pass |-> 0, n_mutant_fail_assert |-> 0,
               n_mutant_fail_other |-> 0]
  BY DEF Fresh
<1>4. Fresh \in Records(p) /\ Fresh.done = Empty
  BY <1>2, <1>3 DEF Records
<1>5. \A o : Count(Empty, o) = 0
  <2> SUFFICES ASSUME NEW o PROVE Count(Empty, o) = 0
    OBVIOUS
  <2>1. {c \in DOMAIN Empty : Empty[c] = o} = {}
    BY <1>1
  <2> QED
    BY <2>1, FS_EmptySet DEF Count
<1>6. Agrees(Fresh)
  BY <1>3, <1>5 DEF Agrees
<1>7. TestedBefore(p, Empty, 1)
  <2>1. \A i \in DOMAIN Mutants[p] : ~(i < 1)
    BY MutantsType
  <2> QED
    BY <1>1, <2>1 DEF TestedBefore
<1>8. Matches(p, {}, Empty)
  BY <1>1 DEF Matches
<1> QED
  BY <1>1, <1>4, <1>6, <1>7, <1>8

(* The output of a code that has none yet is one more of its kind.         *)
LEMMA WithResultDomain ==
    ASSUME NEW done, NEW c, NEW o
    PROVE  DOMAIN WithResult(done, c, o) = DOMAIN done \cup {c}
BY DEF WithResult

LEMMA WithResultNew ==
    ASSUME NEW done, NEW c, NEW o
    PROVE  WithResult(done, c, o)[c] = o
BY DEF WithResult

LEMMA WithResultOld ==
    ASSUME NEW done, NEW c, NEW o, NEW d \in DOMAIN done, d # c
    PROVE  WithResult(done, c, o)[d] = done[d]
BY DEF WithResult

LEMMA WithResultType ==
    ASSUME NEW p \in PRs, NEW done \in Dones(p), NEW c \in Codes(p) \ DOMAIN done, NEW o \in Outputs
    PROVE  WithResult(done, c, o) \in Dones(p)
<1> DEFINE new == WithResult(done, c, o)
<1>1. DOMAIN done \in SUBSET Codes(p) /\ done \in [DOMAIN done -> Outputs]
  BY DoneType
<1>2. new \in [DOMAIN done \cup {c} -> Outputs]
  BY <1>1 DEF WithResult
<1>3. DOMAIN done \cup {c} \in SUBSET Codes(p)
  BY <1>1
<1> HIDE DEF new
<1>4. new \in Dones(p)
  BY <1>2, <1>3 DEF Dones
<1> QED
  BY <1>4 DEF new

LEMMA CountGrows ==
    ASSUME NEW done, IsFiniteSet(DOMAIN done), NEW c, c \notin DOMAIN done, NEW o, NEW x
    PROVE  Count(WithResult(done, c, o), x) = IF x = o THEN Count(done, x) + 1 ELSE Count(done, x)
<1> DEFINE new == WithResult(done, c, o)
           Of(f, y) == {d \in DOMAIN f : f[d] = y}
<1>1. DOMAIN new = DOMAIN done \cup {c} /\ new[c] = o /\ \A d \in DOMAIN done : new[d] = done[d]
  <2>1. DOMAIN new = DOMAIN done \cup {c}
    BY WithResultDomain
  <2>2. new[c] = o
    BY WithResultNew
  <2>3. \A d \in DOMAIN done : new[d] = done[d]
    BY WithResultOld
  <2> HIDE DEF new
  <2> QED
    BY <2>1, <2>2, <2>3
<1> HIDE DEF new
<1>2. CASE x = o
  <2>1. Of(new, x) = Of(done, x) \cup {c} /\ c \notin Of(done, x)
    BY <1>1, <1>2
  <2>2. IsFiniteSet(Of(done, x))
    BY FS_Subset
  <2> HIDE DEF Of
  <2>3. Cardinality(Of(done, x) \cup {c}) = Cardinality(Of(done, x)) + 1
    BY <2>1, <2>2, FS_AddElement
  <2> QED
    BY <1>2, <2>1, <2>3 DEF Count, Of, new
<1>3. CASE x # o
  <2>1. Of(new, x) = Of(done, x)
    BY <1>1, <1>3
  <2> QED
    BY <1>3, <2>1 DEF Count, new
<1> QED
  BY <1>2, <1>3

(* The record after one more mutant has been tested.                       *)
Tested(m, c, o) == [m EXCEPT !.relevant = @ + 1, !.done = WithResult(@, c, o)]
After(r, c, o) == Tested(Counted(r, o), c, o)

Recorded(done, n, a, b, e) ==
    [done |-> done, relevant |-> n, n_mutant_pass |-> a, n_mutant_fail_assert |-> b,
     n_mutant_fail_other |-> e]

LEMMA Replaced ==
    ASSUME NEW done, NEW n, NEW a, NEW b, NEW e, NEW c, NEW o
    PROVE  Tested(Recorded(done, n, a, b, e), c, o) =
           Recorded(WithResult(done, c, o), n + 1, a, b, e)
<1> DEFINE m == Recorded(done, n, a, b, e)
           d == WithResult(done, c, o)
           k == n + 1
<1>1. m.done = done /\ m.relevant = n
  BY DEF Recorded
<1>2. Tested(m, c, o) = [m EXCEPT !.relevant = k, !.done = d]
  BY <1>1 DEF Tested
<1> HIDE DEF d, k
<1>3. [m EXCEPT !.relevant = k, !.done = d] = [[m EXCEPT !.relevant = k] EXCEPT !.done = d]
  BY DEF Recorded
<1>4. [m EXCEPT !.relevant = k] = Recorded(done, k, a, b, e)
  BY DEF Recorded
<1>5. [Recorded(done, k, a, b, e) EXCEPT !.done = d] = Recorded(d, k, a, b, e)
  BY DEF Recorded
<1> HIDE DEF m
<1> QED
  BY <1>2, <1>3, <1>4, <1>5 DEF d, k, m

LEMMA AfterType ==
    ASSUME NEW p \in PRs, NEW r \in Records(p), Agrees(r),
           NEW c \in Codes(p) \ DOMAIN r.done, NEW o \in Outputs
    PROVE  /\ After(r, c, o) \in Records(p) /\ Agrees(After(r, c, o))
           /\ After(r, c, o).done = WithResult(r.done, c, o)
<1> DEFINE d == WithResult(r.done, c, o)
           One(x) == IF x = o THEN 1 ELSE 0
<1>1. r.done \in Dones(p) /\ r.relevant \in Nat /\ r.n_mutant_pass \in Nat
      /\ r.n_mutant_fail_assert \in Nat /\ r.n_mutant_fail_other \in Nat
  BY DEF Records
<1>2. d \in Dones(p) /\ \A x : Count(d, x) = IF x = o THEN Count(r.done, x) + 1 ELSE Count(r.done, x)
  <2>1. IsFiniteSet(DOMAIN r.done)
    BY <1>1, DoneType
  <2> QED
    BY <1>1, <2>1, WithResultType, CountGrows
<1>3. o \in {"pass", "assert", "fail"}
  BY OutputsAssumption
<1>4. After(r, c, o) = [done |-> d, relevant |-> r.relevant + 1,
                        n_mutant_pass |-> r.n_mutant_pass + One("pass"),
                        n_mutant_fail_assert |-> r.n_mutant_fail_assert + One("assert"),
                        n_mutant_fail_other |-> r.n_mutant_fail_other + One("fail")]
  <2> HIDE DEF d
  <2>1. r = [done |-> r.done, relevant |-> r.relevant, n_mutant_pass |-> r.n_mutant_pass,
             n_mutant_fail_assert |-> r.n_mutant_fail_assert,
             n_mutant_fail_other |-> r.n_mutant_fail_other]
    BY DEF Records
  <2>2. CASE o = "pass"
    <3>1. Counted(r, o) = [r EXCEPT !.n_mutant_pass = @ + 1]
      BY <2>2 DEF Counted
    <3>2. Counted(r, o) =
             Recorded(r.done, r.relevant, r.n_mutant_pass + 1, r.n_mutant_fail_assert, r.n_mutant_fail_other)
      BY <2>1, <3>1 DEF Recorded
    <3>3. After(r, c, o) =
             Recorded(d, r.relevant + 1, r.n_mutant_pass + 1, r.n_mutant_fail_assert, r.n_mutant_fail_other)
      BY <3>2, Replaced DEF After, d
    <3>4. /\ r.n_mutant_pass + One("pass") = r.n_mutant_pass + 1
          /\ r.n_mutant_fail_assert + One("assert") = r.n_mutant_fail_assert
          /\ r.n_mutant_fail_other + One("fail") = r.n_mutant_fail_other
      BY <1>1, <2>2
    <3> QED
      BY <3>3, <3>4 DEF Recorded
  <2>3. CASE o = "assert"
    <3>1. Counted(r, o) = [r EXCEPT !.n_mutant_fail_assert = @ + 1]
      BY <2>3 DEF Counted
    <3>2. Counted(r, o) =
             Recorded(r.done, r.relevant, r.n_mutant_pass, r.n_mutant_fail_assert + 1, r.n_mutant_fail_other)
      BY <2>1, <3>1 DEF Recorded
    <3>3. After(r, c, o) =
             Recorded(d, r.relevant + 1, r.n_mutant_pass, r.n_mutant_fail_assert + 1, r.n_mutant_fail_other)
      BY <3>2, Replaced DEF After, d
    <3>4. /\ r.n_mutant_pass + One("pass") = r.n_mutant_pass
          /\ r.n_mutant_fail_assert + One("assert") = r.n_mutant_fail_assert + 1
          /\ r.n_mutant_fail_other + One("fail") = r.n_mutant_fail_other
      BY <1>1, <2>3
    <3> QED
      BY <3>3, <3>4 DEF Recorded
  <2>4. CASE o = "fail"
    <3>1. Counted(r, o) = [r EXCEPT !.n_mutant_fail_other = @ + 1]
      BY <2>4 DEF Counted
    <3>2. Counted(r, o) =
             Recorded(r.done, r.relevant, r.n_mutant_pass, r.n_mutant_fail_assert, r.n_mutant_fail_other + 1)
      BY <2>1, <3>1 DEF Recorded
    <3>3. After(r, c, o) =
             Recorded(d, r.relevant + 1, r.n_mutant_pass, r.n_mutant_fail_assert, r.n_mutant_fail_other + 1)
      BY <3>2, Replaced DEF After, d
    <3>4. /\ r.n_mutant_pass + One("pass") = r.n_mutant_pass
          /\ r.n_mutant_fail_assert + One("assert") = r.n_mutant_fail_assert
          /\ r.n_mutant_fail_other + One("fail") = r.n_mutant_fail_other + 1
      BY <1>1, <2>4
    <3> QED
      BY <3>3, <3>4 DEF Recorded
  <2> QED
    BY <1>3, <2>2, <2>3, <2>4
<1> HIDE DEF d
<1>5. After(r, c, o).done = d
  BY <1>4
<1>6. After(r, c, o) \in Records(p)
  BY <1>1, <1>2, <1>4 DEF Records
<1>7. Agrees(After(r, c, o))
  <2>1. /\ After(r, c, o).n_mutant_pass = r.n_mutant_pass + One("pass")
        /\ After(r, c, o).n_mutant_fail_assert = r.n_mutant_fail_assert + One("assert")
        /\ After(r, c, o).n_mutant_fail_other = r.n_mutant_fail_other + One("fail")
    BY <1>4
  <2>2. /\ r.n_mutant_pass = Count(r.done, "pass")
        /\ r.n_mutant_fail_assert = Count(r.done, "assert")
        /\ r.n_mutant_fail_other = Count(r.done, "fail")
    BY DEF Agrees
  <2> QED
    BY <1>1, <1>2, <1>5, <2>1, <2>2 DEF Agrees
<1> QED
  BY <1>5, <1>6, <1>7 DEF d

LEMMA ResetType ==
    ASSUME NEW p \in PRs, NEW r \in Records(p), Agrees(r)
    PROVE  /\ [r EXCEPT !.relevant = 0] \in Records(p) /\ Agrees([r EXCEPT !.relevant = 0])
           /\ [r EXCEPT !.relevant = 0].done = r.done
BY DEF Records, Agrees

(* One more mutant has been looked at.                                     *)
LEMMA Skipped ==
    ASSUME NEW p \in PRs, NEW done, NEW n \in DOMAIN Mutants[p], TestedBefore(p, done, n),
           ~Relevant(p, n) \/ CodeOf(p, n) \in DOMAIN done
    PROVE  TestedBefore(p, done, n + 1)
<1>1. \A i \in DOMAIN Mutants[p] : i < n + 1 => (i < n \/ i = n)
  BY MutantsType
<1> QED
  BY <1>1 DEF TestedBefore

LEMMA TestedOne ==
    ASSUME NEW p \in PRs, NEW done, NEW n \in DOMAIN Mutants[p], TestedBefore(p, done, n),
           Relevant(p, n), NEW o
    PROVE  TestedBefore(p, WithResult(done, CodeOf(p, n), o), n + 1)
<1>1. \A i \in DOMAIN Mutants[p] : i < n + 1 => (i < n \/ i = n)
  BY MutantsType
<1>2. DOMAIN WithResult(done, CodeOf(p, n), o) = DOMAIN done \cup {CodeOf(p, n)}
  BY WithResultDomain
<1> QED
  BY <1>1, <1>2 DEF TestedBefore

(* The file of a mutant whose code is new.                                 *)
LEMMA FileAdded ==
    ASSUME NEW p \in PRs, NEW files, NEW done, NEW n \in DOMAIN Mutants[p], Matches(p, files, done),
           CodeOf(p, n) \notin DOMAIN done, NEW o
    PROVE  Matches(p, files \cup {<<n, o>>}, WithResult(done, CodeOf(p, n), o))
<1> DEFINE c == CodeOf(p, n)
           new == WithResult(done, c, o)
           more == files \cup {<<n, o>>}
           Code1(f) == CodeOf(p, f[1])
<1>1. DOMAIN new = DOMAIN done \cup {c}
  BY WithResultDomain
<1>2. new[c] = o
  BY WithResultNew
<1>3. \A d \in DOMAIN done : new[d] = done[d]
  BY WithResultOld
<1>4. Code1(<<n, o>>) = c /\ (<<n, o>>)[2] = o
  OBVIOUS
<1>5. /\ \A f \in files : Code1(f) \in DOMAIN done /\ done[Code1(f)] = f[2]
      /\ \A f, g \in files : Code1(f) = Code1(g) => f = g
      /\ \A d \in DOMAIN done : \E f \in files : Code1(f) = d
  BY DEF Matches
<1>6. c \notin DOMAIN done
  OBVIOUS
<1> HIDE DEF c, new, Code1
<1>7. \A f \in more : Code1(f) \in DOMAIN new /\ new[Code1(f)] = f[2]
  BY <1>1, <1>2, <1>3, <1>4, <1>5
<1>8. \A f, g \in more : Code1(f) = Code1(g) => f = g
  BY <1>4, <1>5, <1>6
<1>9. \A d \in DOMAIN new : \E f \in more : Code1(f) = d
  BY <1>1, <1>4, <1>5
<1>10. Matches(p, more, new)
  BY <1>7, <1>8, <1>9 DEF Matches, Code1
<1> QED
  BY <1>10 DEF new, c

-----------------------------------------------------------------------------
(***************************************************************************)
(* The steps of the analysis.                                              *)
(***************************************************************************)
LEMMA JobType ==
    ASSUME Places, program = "mutation", pc # "next"
    PROVE  job \in Jobs /\ job[1] \in PRs
<1>1. todo \in Seq(Jobs) /\ todo # << >>
  BY DEF Places
<1>2. job \in Jobs
  BY <1>1, HeadTail DEF job
<1> QED
  BY <1>2 DEF Jobs

(* A step that leaves the analysis alone, or ends it.                      *)
LEMMA LeftAlone ==
    ASSUME WorkInv, SavedInv, FilesInv, ~Working, ~Working', UNCHANGED mutvars,
           interrupted \subseteq interrupted'
    PROVE  WorkInv' /\ SavedInv' /\ FilesInv'
<1>1. /\ memory' = memory /\ results' = results /\ mutantFiles' = mutantFiles
  BY DEF mutvars
<1>2. WorkInv'
  BY <1>1 DEF WorkInv
<1>3. SavedInv'
  BY <1>1 DEF SavedInv
<1>4. \A j \in Jobs : ~WorkingOn(j) /\ ~WorkingOn(j)'
  BY DEF WorkingOn
<1>5. \A j \in Jobs : DoneIn(j)' = DoneIn(j)
  BY <1>1, <1>4 DEF DoneIn
<1>6. FilesInv'
  BY <1>1, <1>4, <1>5 DEF FilesInv
<1> QED
  BY <1>2, <1>3, <1>6

LEMMA DeathStep ==
    ASSUME WorkInv, SavedInv, FilesInv, Places, Die
    PROVE  WorkInv' /\ SavedInv' /\ FilesInv'
<1>1. /\ memory' = Fresh /\ results' = results /\ mutantFiles' = mutantFiles /\ program' = "down"
      /\ interrupted' = IF program = "mutation" /\ todo # << >> THEN interrupted \cup {job}
                        ELSE interrupted
  BY DEF Die
<1>2. ~Working'
  BY <1>1 DEF Working
<1>3. WorkInv'
  BY <1>1, <1>2 DEF WorkInv
<1>4. SavedInv'
  BY <1>1 DEF SavedInv
<1>5. \A j \in Jobs \ interrupted' : ~WorkingOn(j) /\ j \notin interrupted
  <2>1. Working => program = "mutation" /\ todo # << >>
    BY DEF Working, Places
  <2> QED
    BY <1>1, <2>1 DEF WorkingOn
<1>6. \A j \in Jobs : DoneIn(j)' = results[j].is.done
  BY <1>1, <1>2 DEF DoneIn, WorkingOn
<1>7. \A j \in Jobs \ interrupted' : DoneIn(j) = results[j].is.done
  BY <1>5 DEF DoneIn
<1>8. FilesInv'
  BY <1>1, <1>2, <1>5, <1>6, <1>7 DEF FilesInv
<1> QED
  BY <1>3, <1>4, <1>8

LEMMA LoadStep ==
    ASSUME WorkInv, SavedInv, FilesInv, Places, LoadResults
    PROVE  WorkInv' /\ SavedInv' /\ FilesInv'
<1> DEFINE r == results[job]
<1>1. /\ program = "mutation" /\ pc = "load" /\ r.what # "torn"
      /\ memory' = [r.is EXCEPT !.relevant = 0] /\ at' = 1 /\ pc' = "test"
      /\ program' = program /\ todo' = todo /\ results' = results
      /\ mutantFiles' = mutantFiles /\ interrupted' = interrupted
  BY DEF LoadResults, hist
<1>2. job \in Jobs /\ job[1] \in PRs
  BY <1>1, JobType
<1>3. job' = job /\ ~Working /\ Working'
  BY <1>1 DEF job, Working
<1>4. /\ r.is \in Records(job[1]) /\ Agrees(r.is)
      /\ r.what # "saved" => r.is = Fresh
      /\ r.what = "saved" => TestedBefore(job[1], r.is.done, End(job[1]))
  BY <1>2 DEF SavedInv
<1> HIDE DEF r
<1>5. memory' \in Records(job[1]) /\ Agrees(memory') /\ memory'.done = r.is.done
  BY <1>1, <1>2, <1>4, ResetType
<1>6. TestedBefore(job[1], r.is.done, 1)
  <2>1. CASE r.what = "saved"
    <3>1. \A i \in DOMAIN Mutants[job[1]] : ~(i < 1)
      BY <1>2, MutantsType
    <3> QED
      BY <1>4, <2>1, <3>1 DEF TestedBefore
  <2>2. CASE r.what # "saved"
    BY <1>2, <1>4, <2>2, FreshIsEmpty
  <2> QED
    BY <2>1, <2>2
<1>7. 1 \in 1..End(job[1])
  BY <1>2, MutantsType DEF End
<1>8. Progress(job[1], memory', at', pc', r)
  BY <1>1, <1>5, <1>6, <1>7 DEF Progress
<1>9. WorkInv'
  <2>1. Progress(job'[1], memory', at', pc', results'[job'])
    BY <1>1, <1>3, <1>8 DEF r
  <2> QED
    BY <1>3, <2>1 DEF WorkInv
<1>10. SavedInv'
  BY <1>1 DEF SavedInv
<1>11. \A j \in Jobs : DoneIn(j)' = DoneIn(j) /\ ~WorkingOn(j)
  <2>1. \A j \in Jobs : DoneIn(j) = results[j].is.done /\ ~WorkingOn(j)
    BY <1>3 DEF DoneIn, WorkingOn
  <2>2. \A j \in Jobs : DoneIn(j)' = IF j = job THEN memory'.done ELSE results[j].is.done
    BY <1>1, <1>3 DEF DoneIn, WorkingOn
  <2> QED
    BY <1>5, <2>1, <2>2 DEF r
<1>12. FilesInv'
  BY <1>1, <1>11 DEF FilesInv
<1> QED
  BY <1>9, <1>10, <1>12

(* What is known while mutants are tested.                                 *)
LEMMA AtWork ==
    ASSUME WorkInv, SavedInv, Places, program = "mutation", pc \in {"test", "save"}
    PROVE  /\ job \in Jobs /\ job[1] \in PRs /\ Working
           /\ memory \in Records(job[1]) /\ Agrees(memory) /\ memory.done \in Dones(job[1])
           /\ at \in 1..End(job[1]) /\ TestedBefore(job[1], memory.done, at)
           /\ pc = "save" => at = End(job[1]) /\ results[job].what = "torn"
           /\ results[job].what = "saved" => memory.done = results[job].is.done
<1>1. job \in Jobs /\ job[1] \in PRs
  BY JobType
<1>2. Working
  BY DEF Working
<1>3. Progress(job[1], memory, at, pc, results[job])
  BY <1>2 DEF WorkInv
<1>4. memory \in Records(job[1]) => memory.done \in Dones(job[1])
  BY DEF Records
<1> QED
  BY <1>1, <1>2, <1>3, <1>4 DEF Progress

LEMMA SkipStep ==
    ASSUME WorkInv, SavedInv, FilesInv, Places, SkipMutant
    PROVE  WorkInv' /\ SavedInv' /\ FilesInv'
<1>1. /\ program = "mutation" /\ pc = "test" /\ at <= Len(Mutants[job[1]])
      /\ at' = at + 1 /\ program' = program /\ pc' = pc /\ todo' = todo
      /\ memory' = memory /\ results' = results /\ mutantFiles' = mutantFiles
      /\ interrupted' = interrupted
      /\ ~Relevant(job[1], at) \/ CodeOf(job[1], at) \in DOMAIN memory.done
  BY DEF SkipMutant, hist, Relevant, CodeOf
<1>2. /\ job \in Jobs /\ job[1] \in PRs /\ Working
      /\ memory \in Records(job[1]) /\ Agrees(memory)
      /\ at \in 1..End(job[1]) /\ TestedBefore(job[1], memory.done, at)
      /\ results[job].what = "saved" => memory.done = results[job].is.done
  BY <1>1, AtWork
<1>3. job' = job /\ Working'
  BY <1>1 DEF job, Working
<1>4. at \in DOMAIN Mutants[job[1]] /\ at + 1 \in 1..End(job[1])
  BY <1>1, <1>2, MutantsType DEF End
<1>5. TestedBefore(job[1], memory.done, at + 1)
  BY <1>1, <1>2, <1>4, Skipped
<1>6. Progress(job'[1], memory', at', pc', results'[job'])
  BY <1>1, <1>2, <1>3, <1>4, <1>5 DEF Progress
<1>7. WorkInv'
  BY <1>3, <1>6 DEF WorkInv
<1>8. SavedInv'
  BY <1>1 DEF SavedInv
<1>9. \A j \in Jobs : DoneIn(j)' = DoneIn(j) /\ (WorkingOn(j)' <=> WorkingOn(j))
  BY <1>1, <1>2, <1>3 DEF DoneIn, WorkingOn
<1>10. FilesInv'
  BY <1>1, <1>9 DEF FilesInv
<1> QED
  BY <1>7, <1>8, <1>10

LEMMA TestStep ==
    ASSUME WorkInv, SavedInv, FilesInv, Places, TestMutant
    PROVE  WorkInv' /\ SavedInv' /\ FilesInv'
<1> DEFINE p == job[1]
           c == CodeOf(p, at)
<1>1. /\ program = "mutation" /\ pc = "test" /\ at <= Len(Mutants[p])
      /\ at' = at + 1 /\ program' = program /\ pc' = pc /\ todo' = todo
      /\ results' = results /\ interrupted' = interrupted
      /\ Relevant(p, at) /\ c \notin DOMAIN memory.done
  BY DEF TestMutant, hist, Relevant, CodeOf
<1>2. PICK o \in Outputs : /\ memory' = After(memory, c, o)
                           /\ mutantFiles' = [mutantFiles EXCEPT ![job] = @ \cup {<<at, o>>}]
  BY DEF TestMutant, After, Tested, MutantFile, CodeOf
<1>3. /\ job \in Jobs /\ p \in PRs /\ Working
      /\ memory \in Records(p) /\ Agrees(memory) /\ memory.done \in Dones(p)
      /\ at \in 1..End(p) /\ TestedBefore(p, memory.done, at)
      /\ results[job].what = "saved" => memory.done = results[job].is.done
  BY <1>1, AtWork
<1>4. job' = job /\ Working'
  BY <1>1 DEF job, Working
<1> HIDE DEF p
<1>5. at \in DOMAIN Mutants[p] /\ at + 1 \in 1..End(p) /\ at \in 1..Len(Mutants[p]) /\ at \in Nat
  BY <1>1, <1>3, MutantsType DEF End
<1>6. c \in Codes(p) \ DOMAIN memory.done
  BY <1>1, <1>5 DEF Codes
<1> DEFINE new == WithResult(memory.done, c, o)
<1> HIDE DEF c
<1>7. memory' \in Records(p) /\ Agrees(memory') /\ memory'.done = new
  BY <1>2, <1>3, <1>6, AfterType
<1>8. TestedBefore(p, new, at + 1)
  BY <1>1, <1>3, <1>5, TestedOne DEF c
<1>9. results[job].what # "saved"
  <2> SUFFICES ASSUME results[job].what = "saved" PROVE FALSE
    OBVIOUS
  <2>1. TestedBefore(p, results[job].is.done, End(p))
    BY <1>3 DEF SavedInv, p
  <2>2. at < End(p)
    BY <1>3, <1>5, MutantsType DEF End
  <2>3. c \in DOMAIN results[job].is.done
    BY <1>1, <1>5, <2>1, <2>2 DEF TestedBefore, c
  <2> QED
    BY <1>1, <1>3, <2>3
<1> HIDE DEF new
<1>10. Progress(p, memory', at', pc', results[job])
  BY <1>1, <1>5, <1>7, <1>8, <1>9 DEF Progress
<1>11. WorkInv'
  <2>1. Progress(job'[1], memory', at', pc', results'[job'])
    BY <1>1, <1>4, <1>10 DEF p
  <2> QED
    BY <1>4, <2>1 DEF WorkInv
<1>12. SavedInv'
  BY <1>1 DEF SavedInv
<1>13. /\ \A j \in Jobs : WorkingOn(j) <=> j = job
       /\ \A j \in Jobs : WorkingOn(j)' <=> j = job
  BY <1>3, <1>4 DEF WorkingOn
<1>14. FilesInv'
  <2>1. /\ mutantFiles \in [Jobs -> SUBSET (Nat \X Outputs)]
        /\ \A j \in Jobs : mutantFiles[j] \subseteq (1..Len(Mutants[j[1]])) \X Outputs
        /\ \A j \in Jobs \ interrupted :
              /\ Matches(j[1], mutantFiles[j], DoneIn(j))
              /\ results[j].what = "torn" => WorkingOn(j)
    BY DEF FilesInv
  <2>2. <<at, o>> \in (1..Len(Mutants[p])) \X Outputs /\ <<at, o>> \in Nat \X Outputs
    BY <1>5
  <2>3. \A j \in Jobs : mutantFiles'[j] = IF j = job THEN mutantFiles[job] \cup {<<at, o>>}
                                          ELSE mutantFiles[j]
    BY <1>2, <1>3, <2>1
  <2>4. mutantFiles' \in [Jobs -> SUBSET (Nat \X Outputs)]
    <3>1. mutantFiles[job] \cup {<<at, o>>} \in SUBSET (Nat \X Outputs)
      BY <1>3, <2>1, <2>2
    <3> QED
      BY <1>2, <2>1, <3>1
  <2>5. \A j \in Jobs : mutantFiles'[j] \subseteq (1..Len(Mutants[j[1]])) \X Outputs
    BY <2>1, <2>2, <2>3 DEF p
  <2>6. \A j \in Jobs : DoneIn(j)' = IF j = job THEN new ELSE DoneIn(j)
    BY <1>1, <1>7, <1>13 DEF DoneIn
  <2>7. DoneIn(job) = memory.done
    BY <1>3, <1>13 DEF DoneIn
  <2>8. ASSUME NEW j \in Jobs \ interrupted
        PROVE  /\ Matches(j[1], mutantFiles'[j], DoneIn(j)')
               /\ results'[j].what = "torn" => WorkingOn(j)'
    <3>1. CASE j = job
      <4>1. Matches(p, mutantFiles[job], memory.done)
        BY <2>1, <2>7, <3>1 DEF p
      <4>2. Matches(p, mutantFiles[job] \cup {<<at, o>>}, new)
        BY <1>3, <1>5, <1>6, <4>1, FileAdded DEF new, c
      <4> QED
        BY <1>13, <2>3, <2>6, <3>1, <4>2 DEF p
    <3>2. CASE j # job
      BY <1>1, <1>13, <2>1, <2>3, <2>6, <3>2
    <3> QED
      BY <3>1, <3>2
  <2> QED
    BY <1>1, <2>4, <2>5, <2>8 DEF FilesInv
<1> QED
  BY <1>11, <1>12, <1>14

(* The file of results is emptied when all mutants have been tested.       *)
LEMMA OpenStep ==
    ASSUME WorkInv, SavedInv, FilesInv, Places, OpenResults
    PROVE  WorkInv' /\ SavedInv' /\ FilesInv'
<1> DEFINE p == job[1]
           torn == [what |-> "torn", is |-> Fresh]
<1>1. /\ program = "mutation" /\ pc = "test" /\ at > Len(Mutants[p])
      /\ at' = at /\ program' = program /\ pc' = "save" /\ todo' = todo
      /\ memory' = memory /\ mutantFiles' = mutantFiles /\ interrupted' = interrupted
      /\ results' = [results EXCEPT ![job] = torn]
  BY DEF OpenResults, hist
<1>2. /\ job \in Jobs /\ p \in PRs /\ Working
      /\ memory \in Records(p) /\ Agrees(memory)
      /\ at \in 1..End(p) /\ TestedBefore(p, memory.done, at)
  BY <1>1, AtWork
<1>3. job' = job /\ Working'
  BY <1>1 DEF job, Working
<1>4. at = End(p)
  BY <1>1, <1>2, MutantsType DEF End
<1>5. torn.what = "torn" /\ torn.is = Fresh
  OBVIOUS
<1>6. torn \in [what : {"none", "torn", "saved"}, is : Saved] /\ Fresh \in Records(p) /\ Agrees(Fresh)
  <2>1. Fresh \in Records(p) /\ Agrees(Fresh)
    BY <1>2, FreshIsEmpty
  <2>2. Fresh \in Saved
    BY <1>2, <2>1 DEF Saved
  <2> QED
    BY <2>1, <2>2
<1> HIDE DEF torn, p
<1>7. results \in [Jobs -> [what : {"none", "torn", "saved"}, is : Saved]]
  BY DEF SavedInv
<1>8. \A j \in Jobs : results'[j] = IF j = job THEN torn ELSE results[j]
  BY <1>1, <1>2, <1>7
<1>9. WorkInv'
  <2>1. Progress(p, memory', at', pc', results'[job])
    BY <1>1, <1>2, <1>4, <1>5, <1>8 DEF Progress
  <2>2. Progress(job'[1], memory', at', pc', results'[job'])
    BY <1>3, <2>1 DEF p
  <2> QED
    BY <1>3, <2>2 DEF WorkInv
<1>10. SavedInv'
  <2>1. results' \in [Jobs -> [what : {"none", "torn", "saved"}, is : Saved]]
    BY <1>1, <1>6, <1>7
  <2>2. ASSUME NEW j \in Jobs
        PROVE  /\ results'[j].is \in Records(j[1]) /\ Agrees(results'[j].is)
               /\ results'[j].what # "saved" => results'[j].is = Fresh
               /\ results'[j].what = "saved" => TestedBefore(j[1], results'[j].is.done, End(j[1]))
    <3>1. CASE j = job
      BY <1>5, <1>6, <1>8, <3>1 DEF p
    <3>2. CASE j # job
      BY <1>8, <3>2 DEF SavedInv
    <3> QED
      BY <3>1, <3>2
  <2> QED
    BY <2>1, <2>2 DEF SavedInv
<1>11. \A j \in Jobs : (WorkingOn(j) <=> j = job) /\ (WorkingOn(j)' <=> j = job)
  BY <1>2, <1>3 DEF WorkingOn
<1>12. \A j \in Jobs : DoneIn(j)' = DoneIn(j)
  BY <1>1, <1>8, <1>11 DEF DoneIn
<1>13. FilesInv'
  <2>1. \A j \in Jobs : results'[j].what = "torn" => (results[j].what = "torn" \/ j = job)
    BY <1>8
  <2> QED
    BY <1>1, <1>11, <1>12, <2>1 DEF FilesInv
<1> QED
  BY <1>9, <1>10, <1>13

(* What has been tested is saved.                                          *)
LEMMA DumpStep ==
    ASSUME WorkInv, SavedInv, FilesInv, Places, DumpResults
    PROVE  WorkInv' /\ SavedInv' /\ FilesInv'
<1> DEFINE p == job[1]
           saved == [what |-> "saved", is |-> memory]
<1>1. /\ program = "mutation" /\ pc = "save" /\ pc' = "next" /\ memory' = Fresh
      /\ mutantFiles' = mutantFiles /\ interrupted' = interrupted
      /\ results' = [results EXCEPT ![job] = saved]
  BY DEF DumpResults, hist
<1>2. /\ job \in Jobs /\ p \in PRs /\ Working
      /\ memory \in Records(p) /\ Agrees(memory)
      /\ TestedBefore(p, memory.done, at) /\ at = End(p)
  BY <1>1, AtWork
<1>3. ~Working'
  BY <1>1 DEF Working
<1>4. saved.what = "saved" /\ saved.is = memory
  OBVIOUS
<1>5. saved \in [what : {"none", "torn", "saved"}, is : Saved]
  BY <1>2 DEF Saved
<1> HIDE DEF saved, p
<1>6. results \in [Jobs -> [what : {"none", "torn", "saved"}, is : Saved]]
  BY DEF SavedInv
<1>7. \A j \in Jobs : results'[j] = IF j = job THEN saved ELSE results[j]
  BY <1>1, <1>2, <1>6
<1>8. WorkInv'
  BY <1>1, <1>3 DEF WorkInv
<1>9. SavedInv'
  <2>1. results' \in [Jobs -> [what : {"none", "torn", "saved"}, is : Saved]]
    BY <1>1, <1>5, <1>6
  <2>2. ASSUME NEW j \in Jobs
        PROVE  /\ results'[j].is \in Records(j[1]) /\ Agrees(results'[j].is)
               /\ results'[j].what # "saved" => results'[j].is = Fresh
               /\ results'[j].what = "saved" => TestedBefore(j[1], results'[j].is.done, End(j[1]))
    <3>1. CASE j = job
      BY <1>2, <1>4, <1>7, <3>1 DEF p
    <3>2. CASE j # job
      BY <1>7, <3>2 DEF SavedInv
    <3> QED
      BY <3>1, <3>2
  <2> QED
    BY <2>1, <2>2 DEF SavedInv
<1>10. \A j \in Jobs : (WorkingOn(j) <=> j = job) /\ ~WorkingOn(j)'
  BY <1>2, <1>3 DEF WorkingOn
<1>11. \A j \in Jobs : DoneIn(j)' = DoneIn(j)
  <2>1. \A j \in Jobs : DoneIn(j)' = results'[j].is.done
    BY <1>10 DEF DoneIn
  <2>2. \A j \in Jobs : DoneIn(j) = IF j = job THEN memory.done ELSE results[j].is.done
    BY <1>10 DEF DoneIn
  <2> QED
    BY <1>4, <1>7, <2>1, <2>2
<1>12. FilesInv'
  <2>1. \A j \in Jobs \ interrupted : results'[j].what # "torn"
    BY <1>4, <1>7, <1>10 DEF FilesInv
  <2> QED
    BY <1>1, <1>11, <2>1 DEF FilesInv
<1> QED
  BY <1>8, <1>9, <1>12

LEMMA HistStep ==
    ASSUME HistInv, Places, [Next]_vars
    PROVE  HistInv' /\ interrupted \subseteq interrupted'
<1> USE DEF HistInv
<1>a. starts \in 0..MaxStarts /\ deaths \in 0..MaxDeaths /\ interrupted \subseteq Jobs
      /\ MaxStarts \in Nat /\ MaxDeaths \in Nat
  BY BoundsAssumption
<1>1. CASE StartCollector \/ StartMutation
  <2>1. /\ starts' = starts + 1 /\ starts < MaxStarts
        /\ deaths' = deaths /\ interrupted' = interrupted
    BY <1>1 DEF StartCollector, StartMutation
  <2> QED
    BY <1>a, <2>1
<1>2. CASE Crashes
  <2>1. /\ program = "mutation" /\ pc # "next" /\ interrupted' = interrupted \cup {job}
        /\ starts' = starts /\ deaths' = deaths
    BY <1>2 DEF Crashes
  <2>2. job \in Jobs
    BY <2>1, JobType
  <2> QED
    BY <1>a, <2>1, <2>2
<1>3. CASE Die
  <2>1. /\ deaths' = deaths + 1 /\ deaths < MaxDeaths /\ starts' = starts
        /\ interrupted' = IF program = "mutation" /\ todo # << >> THEN interrupted \cup {job}
                          ELSE interrupted
    BY <1>3 DEF Die
  <2>2. program = "mutation" /\ todo # << >> => job \in Jobs
    <3> SUFFICES ASSUME program = "mutation", todo # << >> PROVE job \in Jobs
      OBVIOUS
    <3>1. todo \in Seq(Jobs)
      BY DEF Places
    <3> QED
      BY <3>1, HeadTail DEF job
  <2> QED
    BY <1>a, <2>1, <2>2
<1>4. CASE UNCHANGED hist
  BY <1>4, <1>a DEF hist
<1>5. CASE \/ CollectNext \/ Retrieved \/ OpenDataset \/ FillDataset \/ MutationNext \/ Constructed
           \/ LoadResults \/ SkipMutant \/ TestMutant \/ OpenResults \/ DumpResults \/ Construct
           \/ UNCHANGED vars
  <2>1. UNCHANGED hist
    BY <1>5 DEF CollectNext, Retrieved, OpenDataset, FillDataset, MutationNext, Constructed,
                LoadResults, SkipMutant, TestMutant, OpenResults, DumpResults, Construct, vars, hist
  <2> QED
    BY <1>4, <2>1
<1> QED
  BY <1>1, <1>2, <1>3, <1>5 DEF Next, Collector, Mutation

LEMMA AnalysisStep ==
    ASSUME WorkInv, SavedInv, FilesInv, Places, interrupted \subseteq interrupted', [Next]_vars
    PROVE  WorkInv' /\ SavedInv' /\ FilesInv'
<1>1. CASE Collector
  <2>1. UNCHANGED mutvars
    BY <1>1 DEF Collector, StartCollector, CollectNext, Retrieved, OpenDataset, FillDataset
  <2>2. program # "mutation" /\ program' # "mutation"
    BY <1>1 DEF Collector, StartCollector, CollectNext, Retrieved, OpenDataset, FillDataset
  <2>3. ~Working /\ ~Working'
    BY <2>2 DEF Working
  <2> QED
    BY <2>1, <2>3, LeftAlone
<1>2. CASE StartMutation \/ MutationNext \/ Constructed \/ Crashes
  <2>1. UNCHANGED mutvars
    BY <1>2 DEF StartMutation, MutationNext, Constructed, Crashes
  <2>2. ~Working
    BY <1>2 DEF Working, StartMutation, MutationNext, Constructed, Crashes
  <2>3. ~Working'
    BY <1>2 DEF Working, StartMutation, MutationNext, Constructed, Crashes
  <2> QED
    BY <2>1, <2>2, <2>3, LeftAlone
<1>3. CASE LoadResults
  BY <1>3, LoadStep
<1>4. CASE SkipMutant
  BY <1>4, SkipStep
<1>5. CASE TestMutant
  BY <1>5, TestStep
<1>6. CASE OpenResults
  BY <1>6, OpenStep
<1>7. CASE DumpResults
  BY <1>7, DumpStep
<1>8. CASE Construct
  <2>1. UNCHANGED mutvars /\ program' = program /\ pc' = pc
    BY <1>8 DEF Construct
  <2>2. prpc # "idle"
    BY <1>8 DEF Construct, PRStep, Compute, Open, Dump
  <2>3. ~Working
    BY <2>2 DEF Working, Places
  <2>4. ~Working'
    BY <2>1, <2>3 DEF Working
  <2> QED
    BY <2>1, <2>3, <2>4, LeftAlone
<1>9. CASE Die
  BY <1>9, DeathStep
<1>10. CASE UNCHANGED vars
  <2>1. /\ memory' = memory /\ results' = results /\ mutantFiles' = mutantFiles /\ at' = at
        /\ program' = program /\ pc' = pc /\ todo' = todo /\ interrupted' = interrupted
    BY <1>10 DEF vars, mutvars, hist
  <2> QED
    BY <2>1 DEF WorkInv, SavedInv, FilesInv, Working, WorkingOn, DoneIn, job
<1> QED
  BY <1>1, <1>2, <1>3, <1>4, <1>5, <1>6, <1>7, <1>8, <1>9, <1>10 DEF Next, Mutation

LEMMA IInit == Init => IInv
<1> SUFFICES ASSUME Init PROVE IInv
  OBVIOUS
<1>1. /\ program = "down" /\ memory = Fresh /\ results = [j \in Jobs |-> NoResults]
      /\ mutantFiles = [j \in Jobs |-> {}] /\ starts = 0 /\ deaths = 0 /\ interrupted = {}
  BY DEF Init
<1>2. \A j \in Jobs : j[1] \in PRs
  BY DEF Jobs
<1>3. ~Working
  BY <1>1 DEF Working
<1>4. WorkInv
  BY <1>1, <1>3 DEF WorkInv
<1>5. NoResults.what = "none" /\ NoResults.is = Fresh
  BY DEF NoResults
<1>6. ASSUME NEW j \in Jobs
      PROVE  /\ NoResults \in [what : {"none", "torn", "saved"}, is : Saved]
             /\ Fresh \in Records(j[1]) /\ Agrees(Fresh) /\ Matches(j[1], {}, Fresh.done)
  <2>1. Fresh \in Records(j[1]) /\ Agrees(Fresh) /\ Matches(j[1], {}, Fresh.done)
    BY <1>2, FreshIsEmpty
  <2>2. Fresh \in Saved
    BY <1>2, <2>1 DEF Saved
  <2> QED
    BY <2>1, <2>2 DEF NoResults
<1> HIDE DEF NoResults
<1>7. SavedInv
  BY <1>1, <1>5, <1>6 DEF SavedInv
<1>8. \A j \in Jobs : DoneIn(j) = Fresh.done
  BY <1>1, <1>3, <1>5 DEF DoneIn, WorkingOn
<1>9. FilesInv
  BY <1>1, <1>5, <1>6, <1>8 DEF FilesInv
<1>10. HistInv
  BY <1>1, BoundsAssumption DEF HistInv
<1> QED
  BY <1>4, <1>7, <1>9, <1>10, DInit DEF IInv

LEMMA IStep == IInv /\ [Next]_vars => IInv'
<1> SUFFICES ASSUME IInv, [Next]_vars PROVE IInv'
  OBVIOUS
<1>1. DInv /\ WorkInv /\ SavedInv /\ FilesInv /\ HistInv /\ Places
  BY DEF IInv, DInv
<1>2. DInv'
  BY <1>1, DStep
<1>3. HistInv' /\ interrupted \subseteq interrupted'
  BY <1>1, HistStep
<1>4. WorkInv' /\ SavedInv' /\ FilesInv'
  BY <1>1, <1>3, AnalysisStep
<1> QED
  BY <1>2, <1>3, <1>4 DEF IInv

-----------------------------------------------------------------------------
(***************************************************************************)
(* What the results say of the mutants of the change.                      *)
(***************************************************************************)
(* A line that does not name the function is tested as it is written; one  *)
(* that does names the prefixed function instead, which no line of the     *)
(* code does, so that it never reads like an added line.                   *)
LEMMA RelevantLines ==
    ASSUME NEW p \in PRs, NEW i \in DOMAIN Mutants[p]
    PROVE  LET line == Mutants[p][i].line
           IN  /\ line \in Added[p] /\ "f" \notin Code[p][line].names => Relevant(p, i)
               /\ Relevant(p, i) => Code[p][line] \in added_lines(p)
<1> DEFINE code == Code[p]
           line == Mutants[p][i].line
           post == update_function_name(code, "f", "post_f")
<1>1. line \in DOMAIN code
  BY MutantsType
<1>2. code \in Seq([text : STRING, names : SUBSET STRING, def : BOOLEAN]) /\ Added[p] \subseteq DOMAIN code
  BY CodeAssumption
<1>3. \A k \in DOMAIN code : "post_f" \notin code[k].names
  BY PrefixAssumption
<1>4. Relevant(p, i) <=> post[line] \in added_lines(p)
  BY DEF Relevant, is_relevant, post_fut_code
<1>5. \A x : x \in added_lines(p) <=> \E k \in Added[p] : x = code[k]
  BY DEF added_lines
<1> HIDE DEF line
<1>6. CASE "f" \notin code[line].names
  <2>1. post[line] = code[line]
    BY <1>1, <1>6 DEF update_function_name
  <2> HIDE DEF code, post
  <2> QED
    BY <1>1, <1>4, <1>5, <2>1 DEF line, code
<1>7. CASE "f" \in code[line].names
  <2>1. post[line] = [code[line] EXCEPT !.names = (@ \ {"f"}) \cup {"post_f"}]
    BY <1>1, <1>7 DEF update_function_name
  <2>2. code[line] \in [text : STRING, names : SUBSET STRING, def : BOOLEAN]
    <3> DEFINE S == [text : STRING, names : SUBSET STRING, def : BOOLEAN]
    <3>1. code \in Seq(S)
      BY <1>2
    <3> HIDE DEF S, code
    <3>2. \A k \in DOMAIN code : code[k] \in S
      BY <3>1
    <3>3. code[line] \in S
      BY <1>1, <3>2
    <3> QED
      BY <3>3 DEF S
  <2>3. "post_f" \in post[line].names
    BY <2>1, <2>2
  <2> HIDE DEF post
  <2>4. post[line] \notin added_lines(p)
    BY <1>2, <1>3, <1>5, <2>3
  <2> HIDE DEF code
  <2> QED
    BY <1>4, <1>7, <2>4 DEF line, code
<1> QED
  BY <1>6, <1>7

(* When the results of a specification are saved every mutant of an added  *)
(* line was tested, and none that touches no such line, however many       *)
(* processes it took and wherever they died (do_mutation).                 *)
THEOREM AddedLines == Spec => []AddedLinesAreTested
<1>1. IInv => AddedLinesAreTested
  <2> SUFFICES ASSUME IInv, NEW j \in Jobs, results[j].what = "saved",
                      NEW i \in DOMAIN Mutants[j[1]]
               PROVE  LET mutant == Mutants[j[1]][i]
                          tested == mutant.code \in DOMAIN results[j].is.done
                      IN  /\ mutant.line \in Added[j[1]] /\ "f" \notin Code[j[1]][mutant.line].names
                             => tested
                          /\ tested => \E k \in DOMAIN Mutants[j[1]] :
                                /\ Mutants[j[1]][k].code = mutant.code
                                /\ Code[j[1]][Mutants[j[1]][k].line] \in added_lines(j[1])
    BY DEF AddedLinesAreTested
  <2> DEFINE p == j[1]
             done == results[j].is.done
  <2>1. p \in PRs
    BY DEF Jobs
  <2>2. TestedBefore(p, done, End(p))
    BY DEF IInv, SavedInv
  <2>3. i < End(p)
    BY <2>1, MutantsType DEF End
  <2>4. Relevant(p, i) => CodeOf(p, i) \in DOMAIN done
    BY <2>2, <2>3 DEF TestedBefore
  <2>5. CodeOf(p, i) \in DOMAIN done =>
           \E k \in DOMAIN Mutants[p] : Relevant(p, k) /\ CodeOf(p, k) = CodeOf(p, i)
    BY <2>2 DEF TestedBefore
  <2> HIDE DEF p, done
  <2>6. \A k \in DOMAIN Mutants[p] :
           /\ (Mutants[p][k].line \in Added[p] /\ "f" \notin Code[p][Mutants[p][k].line].names)
              => Relevant(p, k)
           /\ Relevant(p, k) => Code[p][Mutants[p][k].line] \in added_lines(p)
    BY <2>1, RelevantLines
  <2> QED
    BY <2>4, <2>5, <2>6 DEF p, done, CodeOf
<1> QED
  BY IInit, IStep, <1>1, PTL DEF Spec

-----------------------------------------------------------------------------
(***************************************************************************)
(* Counting files and codes.                                               *)
(***************************************************************************)
FilesWith(files, W) == {f \in files : f[2] \in W}
CodesWith(done, W) == {c \in DOMAIN done : done[c] \in W}
KilledIn(files) == {f \in files : Killed(f[2])}
CombinedIn(files, regression) == {f \in files : Killed(f[2]) \/ f[1] \in regression}
NumbersOf(files) == {f[1] : f \in files}

(* Files that match what was done are as many as the codes, the files of   *)
(* one output as many as the codes with that output; W is any of them.     *)
LEMMA FilesAreCodes ==
    ASSUME NEW p, NEW files, NEW done, Matches(p, files, done), IsFiniteSet(DOMAIN done),
           NEW W
    PROVE  /\ IsFiniteSet(files)
           /\ Cardinality(FilesWith(files, W)) = Cardinality(CodesWith(done, W))
<1> DEFINE Code1(f) == CodeOf(p, f[1])
           F == {f \in files : f[2] \in W}
           C == {c \in DOMAIN done : done[c] \in W}
<1>1. /\ \A f \in files : Code1(f) \in DOMAIN done /\ done[Code1(f)] = f[2]
      /\ \A f, g \in files : Code1(f) = Code1(g) => f = g
      /\ \A c \in DOMAIN done : \E f \in files : Code1(f) = c
  BY DEF Matches
<1> HIDE DEF Code1
<1> DEFINE file1 == [c \in DOMAIN done |-> CHOOSE f \in files : Code1(f) = c]
<1>2. \A c \in DOMAIN done : file1[c] \in files /\ Code1(file1[c]) = c
  BY <1>1
<1>3. \A f \in files : file1[Code1(f)] = f
  BY <1>1, <1>2
<1>4. DOMAIN file1 = DOMAIN done
  OBVIOUS
<1> HIDE DEF file1
<1>5. IsFiniteSet(files)
  <2> DEFINE s == [c \in DOMAIN done |-> file1[c]]
  <2>1. s \in Surjection(DOMAIN done, files)
    <3>1. s \in [DOMAIN done -> files]
      BY <1>2
    <3>2. \A f \in files : \E c \in DOMAIN done : s[c] = f
      BY <1>1, <1>3
    <3> HIDE DEF s
    <3> QED
      BY <3>1, <3>2 DEF Surjection
  <2> HIDE DEF s
  <2> QED
    BY <2>1, FS_Surjection
<1>6. Cardinality(F) = Cardinality(C)
  <2> DEFINE b == [c \in C |-> file1[c]]
  <2>1. IsFiniteSet(C)
    BY FS_Subset
  <2>2. b \in [C -> F]
    BY <1>1, <1>2
  <2>3. \A c, d \in C : b[c] = b[d] => c = d
    BY <1>2
  <2>4. \A f \in F : \E c \in C : b[c] = f
    <3> SUFFICES ASSUME NEW f \in F PROVE Code1(f) \in C /\ b[Code1(f)] = f
      OBVIOUS
    <3>1. Code1(f) \in C
      BY <1>1
    <3> QED
      BY <1>3, <3>1
  <2> HIDE DEF b, C, F
  <2>5. b \in Bijection(C, F)
    BY <2>2, <2>3, <2>4 DEF Bijection, Injection, Surjection, IsInjective
  <2>6. ExistsBijection(C, F)
    BY <2>5 DEF ExistsBijection
  <2> QED
    BY <2>1, <2>6, FS_Bijection
<1> QED
  BY <1>5, <1>6 DEF F, C, FilesWith, CodesWith

LEMMA TwoParts ==
    ASSUME NEW S, IsFiniteSet(S), NEW T, IsFiniteSet(T), S \cap T = {}
    PROVE  Cardinality(S \cup T) = Cardinality(S) + Cardinality(T)
<1>1. Cardinality(S \cup T) = Cardinality(S) + Cardinality(T) - Cardinality(S \cap T)
  BY FS_Union
<1>2. Cardinality(S \cap T) = 0
  BY FS_EmptySet
<1>3. Cardinality(S) \in Nat /\ Cardinality(T) \in Nat
  BY FS_CardinalityType
<1> QED
  BY <1>1, <1>2, <1>3

(* Every code has one of the three outputs.                                *)
LEMMA CountsAddUp ==
    ASSUME NEW p \in PRs, NEW done \in Dones(p)
    PROVE  /\ Count(done, "pass") \in Nat /\ Count(done, "assert") \in Nat
           /\ Count(done, "fail") \in Nat
           /\ Cardinality({c \in DOMAIN done : done[c] \in {"assert", "fail"}}) =
                 Count(done, "assert") + Count(done, "fail")
           /\ Cardinality(DOMAIN done) =
                 Count(done, "pass") + (Count(done, "assert") + Count(done, "fail"))
<1> DEFINE D == DOMAIN done
           P == {c \in D : done[c] = "pass"}
           A == {c \in D : done[c] = "assert"}
           O == {c \in D : done[c] = "fail"}
           K == {c \in D : done[c] \in {"assert", "fail"}}
<1>1. IsFiniteSet(D) /\ \A c \in D : done[c] \in {"pass", "assert", "fail"}
  BY DoneType, OutputsAssumption
<1>2. /\ IsFiniteSet(P) /\ IsFiniteSet(A) /\ IsFiniteSet(O) /\ IsFiniteSet(K)
  BY <1>1, FS_Subset
<1>3. K = A \cup O /\ A \cap O = {} /\ D = P \cup K /\ P \cap K = {}
  BY <1>1
<1>4. Count(done, "pass") = Cardinality(P) /\ Count(done, "assert") = Cardinality(A)
      /\ Count(done, "fail") = Cardinality(O)
  BY DEF Count
<1> HIDE DEF D, P, A, O, K
<1>6. Cardinality(P) \in Nat /\ Cardinality(A) \in Nat /\ Cardinality(O) \in Nat
      /\ Cardinality(K) \in Nat
  BY <1>2, FS_CardinalityType
<1>7. Cardinality(K) = Cardinality(A) + Cardinality(O)
  BY <1>2, <1>3, TwoParts
<1>8. Cardinality(D) = Cardinality(P) + Cardinality(K)
  BY <1>2, <1>3, TwoParts
<1> QED
  BY <1>4, <1>6, <1>7, <1>8 DEF D, K

(* What is killed by either method is at least what each kills, and at     *)
(* most all there is.                                                      *)
LEMMA KilledBetween ==
    ASSUME NEW files, IsFiniteSet(files), NEW regression \in SUBSET NumbersOf(files)
    PROVE  /\ Cardinality(KilledIn(files)) <= Cardinality(CombinedIn(files, regression))
           /\ Cardinality(regression) <= Cardinality(CombinedIn(files, regression))
           /\ Cardinality(CombinedIn(files, regression)) <= Cardinality(files)
<1> DEFINE combined == CombinedIn(files, regression)
           killed == KilledIn(files)
           run == {f \in files : f[1] \in regression}
           first == [f \in run |-> f[1]]
<1>1. combined \in SUBSET files /\ killed \in SUBSET combined /\ run \in SUBSET combined
  BY DEF CombinedIn, KilledIn
<1>2. first \in [run -> regression]
  OBVIOUS
<1>3. \A n \in regression : \E f \in run : first[f] = n
  BY DEF NumbersOf
<1> HIDE DEF combined, killed, run, first
<1>4. IsFiniteSet(combined) /\ Cardinality(combined) <= Cardinality(files)
  BY <1>1, FS_Subset
<1>5. Cardinality(killed) <= Cardinality(combined)
      /\ IsFiniteSet(run) /\ Cardinality(run) <= Cardinality(combined)
  BY <1>1, <1>4, FS_Subset
<1>6. first \in Surjection(run, regression)
  BY <1>2, <1>3 DEF Surjection
<1>7. IsFiniteSet(regression) /\ Cardinality(regression) <= Cardinality(run)
  BY <1>5, <1>6, FS_Surjection
<1>8. Cardinality(regression) \in Nat /\ Cardinality(run) \in Nat /\ Cardinality(combined) \in Nat
  BY <1>4, <1>5, <1>7, FS_CardinalityType
<1>9. Cardinality(regression) <= Cardinality(combined)
  BY <1>5, <1>7, <1>8
<1> QED
  BY <1>4, <1>5, <1>9 DEF combined, killed

(* What is saved of an analysis that was never interrupted is what its     *)
(* files say.                                                              *)
LEMMA SavedMatches ==
    ASSUME IInv, NEW j \in Jobs \ interrupted, results[j].what = "saved"
    PROVE  /\ j[1] \in PRs /\ Matches(j[1], mutantFiles[j], results[j].is.done)
           /\ Agrees(results[j].is) /\ results[j].is.done \in Dones(j[1])
<1>1. j[1] \in PRs
  BY DEF Jobs
<1>2. results[j].is \in Records(j[1]) /\ Agrees(results[j].is)
  BY DEF IInv, SavedInv
<1>3. results[j].is.done \in Dones(j[1])
  <2> DEFINE r == results[j].is
  <2>1. r \in Records(j[1])
    BY <1>2
  <2> HIDE DEF r
  <2>2. r.done \in Dones(j[1])
    BY <2>1 DEF Records
  <2> QED
    BY <2>2 DEF r
<1>4. WorkingOn(j) => memory.done = results[j].is.done
  <2> SUFFICES ASSUME WorkingOn(j) PROVE memory.done = results[j].is.done
    OBVIOUS
  <2>1. j = job /\ Working
    BY DEF WorkingOn
  <2>2. Progress(job[1], memory, at, pc, results[job])
    BY <2>1 DEF IInv, WorkInv
  <2> QED
    BY <2>1, <2>2 DEF Progress
<1>5. DoneIn(j) = results[j].is.done
  BY <1>4 DEF DoneIn
<1>6. Matches(j[1], mutantFiles[j], results[j].is.done)
  BY <1>5 DEF IInv, FilesInv
<1> QED
  BY <1>1, <1>2, <1>3, <1>6

LEMMA OneFilePerCode ==
    ASSUME NEW p \in PRs, NEW files, NEW done \in Dones(p), Matches(p, files, done)
    PROVE  /\ IsFiniteSet(files) /\ Cardinality(files) = Cardinality(DOMAIN done)
           /\ Cardinality(KilledIn(files)) = Count(done, "assert") + Count(done, "fail")
<1> DEFINE K == {"assert", "fail"}
<1>1. IsFiniteSet(DOMAIN done) /\ \A c \in DOMAIN done : done[c] \in Outputs
  BY DoneType
<1>2. \A f \in files : f[2] \in Outputs /\ (Killed(f[2]) <=> f[2] \in K)
  <2>1. \A f \in files : f[2] \in Outputs
    BY <1>1 DEF Matches
  <2> QED
    BY <2>1, OutputsAssumption DEF Killed
<1>3. FilesWith(files, Outputs) = files /\ KilledIn(files) = FilesWith(files, K)
  BY <1>2 DEF FilesWith, KilledIn
<1>4. CodesWith(done, Outputs) = DOMAIN done
  BY <1>1 DEF CodesWith
<1> HIDE DEF K
<1>5. IsFiniteSet(files) /\ Cardinality(FilesWith(files, Outputs)) = Cardinality(CodesWith(done, Outputs))
  BY <1>1, FilesAreCodes
<1>6. Cardinality(FilesWith(files, K)) = Cardinality(CodesWith(done, K))
  BY <1>1, FilesAreCodes
<1>7. Cardinality(CodesWith(done, K)) = Count(done, "assert") + Count(done, "fail")
  BY CountsAddUp DEF CodesWith, K
<1> QED
  BY <1>3, <1>4, <1>5, <1>6, <1>7

LEMMA TypesHold == IInv => TypeOK
<1> SUFFICES ASSUME IInv PROVE TypeOK
  OBVIOUS
<1>1. PRTypes /\ Places /\ Collection /\ SavedInv /\ FilesInv /\ HistInv
  BY DEF IInv, DInv
<1>2. \A p \in PRs : content[p] \in Contents[p] /\ cache[p].what \in {"none", "torn", "error", "data"}
  BY <1>1 DEF PRTypes, Pickles
<1>3. /\ prpc \in {"idle", "compute", "save", "save error", "dump", "dump error", "ready", "raised"}
      /\ number \in PRs \cup {0} /\ (prpc = "idle" <=> number = 0)
  BY <1>1 DEF PRTypes, Constructing
<1>4. program \in {"down", "collector", "mutation"}
  BY <1>1 DEF Places
<1>5. dataset \subseteq PRs /\ file.prs \subseteq PRs /\ (file.prs # {} => file.exists)
  BY <1>1 DEF Collection
<1>6. \A j \in Jobs : results[j].what \in {"none", "torn", "saved"}
  BY <1>1 DEF SavedInv
<1>7. \A j \in Jobs : mutantFiles[j] \subseteq (1..Len(Mutants[j[1]])) \X Outputs
  BY <1>1 DEF FilesInv
<1> QED
  BY <1>1, <1>2, <1>3, <1>4, <1>5, <1>6, <1>7 DEF TypeOK, HistInv

LEMMA CountersHold == IInv => CountersAgree
<1> SUFFICES ASSUME IInv PROVE CountersAgree
  OBVIOUS
<1>1. \A j \in Jobs : Agrees(results[j].is)
  BY DEF IInv, SavedInv
<1>2. Agrees(memory)
  <2>1. CASE Working
    BY <2>1 DEF IInv, WorkInv, Progress
  <2>2. CASE ~Working
    <3>1. memory = Fresh
      BY <2>2 DEF IInv, WorkInv
    <3>2. \A o : Count(Empty, o) = 0
      <4> SUFFICES ASSUME NEW o PROVE Count(Empty, o) = 0
        OBVIOUS
      <4>1. {c \in DOMAIN Empty : Empty[c] = o} = {}
        BY DEF Empty
      <4> QED
        BY <4>1, FS_EmptySet DEF Count
    <3> QED
      BY <3>1, <3>2 DEF Agrees, Fresh
  <2> QED
    BY <2>1, <2>2
<1> QED
  BY <1>1, <1>2 DEF CountersAgree, Agrees

LEMMA FilesHold == IInv => FilesAgree
<1> SUFFICES ASSUME IInv, NEW j \in Jobs, results[j].what = "saved", j \notin interrupted
             PROVE  /\ \A f \in mutantFiles[j] :
                          LET code == Mutants[j[1]][f[1]].code
                          IN  code \in DOMAIN results[j].is.done /\ results[j].is.done[code] = f[2]
                    /\ Cardinality(mutantFiles[j]) = Cardinality(DOMAIN results[j].is.done)
  BY DEF FilesAgree
<1>1. j[1] \in PRs /\ Matches(j[1], mutantFiles[j], results[j].is.done)
      /\ results[j].is.done \in Dones(j[1])
  BY SavedMatches
<1>2. Cardinality(mutantFiles[j]) = Cardinality(DOMAIN results[j].is.done)
  BY <1>1, OneFilePerCode
<1> QED
  BY <1>1, <1>2 DEF Matches, CodeOf

LEMMA CombinedHolds == IInv => CombinedIsBetween
<1> SUFFICES ASSUME IInv, NEW j \in Jobs, results[j].what = "saved", j \notin interrupted
             PROVE  LET r == results[j].is
                    IN  /\ Cardinality(mutantFiles[j]) = n_total(r)
                        /\ \A regression \in SUBSET Numbers(j) :
                              LET combined == combined_killed(j, regression)
                              IN  /\ patchguru_killed(r) <= combined
                                  /\ Cardinality(regression) <= combined
                                  /\ combined <= n_total(r)
  BY DEF CombinedIsBetween
<1> DEFINE r == results[j].is
           files == mutantFiles[j]
<1>1. j[1] \in PRs /\ Matches(j[1], files, r.done) /\ Agrees(r) /\ r.done \in Dones(j[1])
  BY SavedMatches
<1> HIDE DEF r
<1>2. /\ r.n_mutant_pass = Count(r.done, "pass")
      /\ r.n_mutant_fail_assert = Count(r.done, "assert")
      /\ r.n_mutant_fail_other = Count(r.done, "fail")
  BY <1>1 DEF Agrees
<1>3. /\ IsFiniteSet(files) /\ Cardinality(files) = Cardinality(DOMAIN r.done)
      /\ Cardinality(KilledIn(files)) = Count(r.done, "assert") + Count(r.done, "fail")
  BY <1>1, OneFilePerCode
<1>4. Cardinality(DOMAIN r.done) =
         Count(r.done, "pass") + (Count(r.done, "assert") + Count(r.done, "fail"))
  BY <1>1, CountsAddUp
<1>5. patchguru_killed(r) = Count(r.done, "assert") + Count(r.done, "fail")
      /\ n_total(r) = Count(r.done, "pass") + (Count(r.done, "assert") + Count(r.done, "fail"))
  BY <1>2 DEF patchguru_killed, n_total
<1>6. Cardinality(files) = n_total(r) /\ Cardinality(KilledIn(files)) = patchguru_killed(r)
  BY <1>3, <1>4, <1>5
<1>7. ASSUME NEW regression \in SUBSET Numbers(j)
      PROVE  /\ patchguru_killed(r) <= combined_killed(j, regression)
             /\ Cardinality(regression) <= combined_killed(j, regression)
             /\ combined_killed(j, regression) <= n_total(r)
  <2>1. Numbers(j) = NumbersOf(files)
        /\ combined_killed(j, regression) = Cardinality(CombinedIn(files, regression))
    BY DEF Numbers, combined_killed, NumbersOf, CombinedIn
  <2> HIDE DEF files
  <2>2. /\ Cardinality(KilledIn(files)) <= combined_killed(j, regression)
        /\ Cardinality(regression) <= combined_killed(j, regression)
        /\ combined_killed(j, regression) <= Cardinality(files)
    BY <1>3, <2>1, KilledBetween
  <2> QED
    BY <1>6, <2>2
<1> QED
  BY <1>6, <1>7 DEF r

(* The counters agree with what is recorded, the files with both, and the  *)
(* rates that RQ2.py makes of them are rates, whatever the regression      *)
(* tests kill: for any number of mutants, processes and deaths, unless the *)
(* analysis of that specification was interrupted (do_mutation).           *)
THEOREM Agreement == Spec => []ResultsAgree
<1>1. IInv => ResultsAgree
  BY TypesHold, CountersHold, FilesHold, CombinedHolds DEF ResultsAgree
<1> QED
  BY IInit, IStep, <1>1, PTL DEF Spec

-----------------------------------------------------------------------------
(***************************************************************************)
(* What is told of a change.  An edit moves the lines behind it.           *)
(***************************************************************************)
Edits == [at : Nat, del : Nat, ins : Nat]

(* One edit makes the file longer by what it inserts and does not delete.  *)
LEMMA GrowthOfOne ==
    ASSUME NEW change, NEW line, NEW edit \in Edits, change.edits = <<edit>>
    PROVE  Growth(change, line) = IF edit.at < line THEN edit.ins - edit.del ELSE 0
<1> DEFINE d == IF change.edits[1].at < line THEN change.edits[1].ins - change.edits[1].del ELSE 0
           Longer(h) == h = [i \in 0..1 |->
                IF i = 0 THEN 0
                ELSE h[i - 1] + (IF change.edits[i].at < line
                                 THEN change.edits[i].ins - change.edits[i].del ELSE 0)]
           g == [i \in 0..1 |-> IF i = 0 THEN 0 ELSE d]
           h == CHOOSE h : Longer(h)
<1>1. d \in Int /\ d = IF edit.at < line THEN edit.ins - edit.del ELSE 0
  BY DEF Edits
<1>2. Len(change.edits) = 1
  OBVIOUS
<1>3. Growth(change, line) = h[1]
  BY <1>2 DEF Growth
<1>4. \A i \in 0..1 : i = 0 \/ i = 1
  OBVIOUS
<1>5. \E f : Longer(f)
  <2> HIDE DEF d
  <2>1. g[0] = 0 /\ g[1] = d
    OBVIOUS
  <2>2. 0 + d = d
    BY <1>1
  <2>3. [i \in 0..1 |-> IF i = 0 THEN 0
                        ELSE g[i - 1] + (IF change.edits[i].at < line
                                         THEN change.edits[i].ins - change.edits[i].del ELSE 0)] = g
    BY <1>4, <2>1, <2>2 DEF d
  <2> QED
    BY <2>3
<1>6. Longer(h)
  <2> HIDE DEF Longer
  <2> QED
    BY <1>5
<1>7. h[0] = 0 /\ h[1] = h[0] + d
  <2>1. 0 \in 0..1 /\ 1 \in 0..1 /\ 1 - 1 = 0 /\ 1 # 0
    OBVIOUS
  <2> HIDE DEF h
  <2> QED
    BY <1>6, <2>1
<1> HIDE DEF h, d
<1> QED
  BY <1>1, <1>3, <1>7

(* The middle of its hunk lies before the middle of what an edit inserts.  *)
LEMMA SearchTarget ==
    ASSUME NEW change, NEW edit \in Edits, change.edits = <<edit>>, change.lines \in Nat,
           edit.at > Context, edit.at + edit.del + Context <= change.lines + 1
    PROVE  TargetLine(Hunk(change, edit).target_start,
                      Hunk(change, edit).target_start + Hunk(change, edit).target_length)
             = (edit.at + (edit.ins \div 2)) - 1
<1> DEFINE a == edit.at
           d == edit.del
           n == edit.ins
           hunk == Hunk(change, edit)
<1>1. a \in Nat /\ d \in Nat /\ n \in Nat /\ change.lines \in Nat
  BY DEF Edits
<1>2. Growth(change, a) = 0
  <2>1. Growth(change, a) = IF a < a THEN edit.ins - edit.del ELSE 0
    BY GrowthOfOne
  <2> QED
    BY <1>1, <2>1
<1>3. ~(a <= Context) /\ SmallerOf(change.lines, a + d + Context - 1) = a + d + 2
  BY <1>1 DEF SmallerOf, Context
<1>4. hunk = [target_start |-> (a - 3) + 0, target_length |-> (a + d + 2) - (a - 3) + 1 + n - d]
  BY <1>2, <1>3 DEF Hunk, Context
<1>5. hunk.target_start = a - 3 /\ hunk.target_length = 6 + n
  <2>1. hunk.target_start = (a - 3) + 0 /\ hunk.target_length = (a + d + 2) - (a - 3) + 1 + n - d
    BY <1>4
  <2> HIDE DEF hunk, a, d, n
  <2> QED
    BY <1>1, <2>1
<1> HIDE DEF hunk
<1>6. TargetLine(hunk.target_start, hunk.target_start + hunk.target_length)
        = (((a - 3) + ((a - 3) + (6 + n))) \div 2) - 1
  BY <1>5 DEF TargetLine
<1>7. (((a - 3) + ((a - 3) + (6 + n))) \div 2) = a + (n \div 2)
  <2> HIDE DEF a, n
  <2> QED
    BY <1>1
<1>8. TargetLine(hunk.target_start, hunk.target_start + hunk.target_length) = (a + (n \div 2)) - 1
  <2> HIDE DEF a, n
  <2> QED
    BY <1>6, <1>7
<1> QED
  BY <1>8 DEF hunk

(* The functions that hold the lines between two; the outermost is the     *)
(* first of them, and what the search finds is such a one.                 *)
Holding(functions, from, to) ==
    {i \in 1..Len(functions) : functions[i].start < from /\ to <= functions[i].end}

LEMMA OutermostIsFirst ==
    ASSUME NEW version, NEW from, NEW to, NEW i \in Holding(version.functions, from, to),
           Len(version.functions) \in Nat,
           \A k \in Holding(version.functions, from, to) : i <= k
    PROVE  Outermost(version, from, to) = version.functions[i]
<1> DEFINE I == Holding(version.functions, from, to)
<1>1. I \in SUBSET Nat /\ i \in I
  BY DEF Holding
<1>2. Outermost(version, from, to) = IF Min(I) = 0 THEN NoFunction ELSE version.functions[Min(I)]
  BY <1>1 DEF Outermost, SelectInSeq, Holding
<1>3. Min(I) \in I /\ \A k \in I : Min(I) <= k
  <2>1. \E m \in I : \A k \in I : m <= k
    BY <1>1
  <2> QED
    BY <2>1 DEF Min
<1>4. Min(I) = i
  BY <1>1, <1>3
<1>5. i # 0
  BY DEF Holding
<1> QED
  BY <1>2, <1>4, <1>5

LEMMA OutermostFound ==
    ASSUME NEW version, NEW from, NEW to, Len(version.functions) \in Nat,
           Outermost(version, from, to) # NoFunction
    PROVE  \E i \in Holding(version.functions, from, to) :
              /\ Outermost(version, from, to) = version.functions[i]
              /\ \A k \in Holding(version.functions, from, to) : i <= k
<1> DEFINE I == Holding(version.functions, from, to)
<1>1. I # {}
  BY DEF Outermost, SelectInSeq, Holding
<1>2. I \in SUBSET Nat
  BY DEF Holding
<1>3. \E m \in I : \A k \in I : m <= k
  BY <1>1, <1>2, LeastOf
<1> QED
  BY <1>3, OutermostIsFirst

LEMMA SearchIsOutermost ==
    ASSUME NEW version, NEW first, NEW last, TargetLine(first, last) \in Nat,
           Len(version.functions) \in Nat, \A i \in 1..Len(version.functions) : version.functions[i].end \in Int
    PROVE  extract_target_function_by_range(version, first, last)
             = Outermost(version, TargetLine(first, last), TargetLine(first, last) + 1)
<1> DEFINE t == TargetLine(first, last)
           I == {i \in 1..Len(version.functions) : version.functions[i].start < t /\ t < version.functions[i].end}
<1>1. I = Holding(version.functions, t, t + 1)
  <2> HIDE DEF t
  <2> QED
    BY DEF t, Holding
<1>2. extract_target_function_by_range(version, first, last)
        = LET i == IF I # {} THEN Min(I) ELSE 0 IN IF i = 0 THEN NoFunction ELSE version.functions[i]
  BY DEF extract_target_function_by_range, SelectInSeq
<1>3. Outermost(version, t, t + 1)
        = LET J == Holding(version.functions, t, t + 1)
              i == IF J # {} THEN Min(J) ELSE 0
          IN IF i = 0 THEN NoFunction ELSE version.functions[i]
  BY DEF Outermost, SelectInSeq, Holding
<1> HIDE DEF I, t
<1> QED
  BY <1>1, <1>2, <1>3 DEF t

(***************************************************************************)
(* The search for the function of a change.                                *)
(***************************************************************************)
Defs ==
    [name : STRING, start : Nat, end : Nat, class : STRING, top : BOOLEAN,
     params : Seq([name : STRING, kind : DOMAIN GrammarOrder])]
Files ==
    [parses : BOOLEAN, functions : Seq(Defs),
     classes : Seq([name : STRING, start : Nat, end : Nat]),
     imports : Seq([dots : Nat, path : Seq(STRING), names : SUBSET STRING])]

LEMMA ProbeType ==
    ASSUME NEW change \in Probes
    PROVE  /\ change.old \in Files /\ change.lines \in Nat
           /\ \E edit \in Edits : change.edits = <<edit>>
<1>1. change.old \in Files /\ change.lines \in Nat
  BY ProbesAssumption DEF Files, Defs
<1>2. change.edits \in Seq(Edits) /\ Len(change.edits) = 1
  BY ProbesAssumption DEF Edits
<1> HIDE DEF Edits
<1>3. change.edits = <<change.edits[1]>> /\ change.edits[1] \in Edits
  BY <1>2
<1> QED
  BY <1>1, <1>3

LEMMA ProbeFunctions ==
    ASSUME NEW change \in Probes
    PROVE  /\ change.old.functions \in Seq(Defs)
           /\ \A i \in DOMAIN change.old.functions :
                 change.old.functions[i].start \in Nat /\ change.old.functions[i].end \in Nat
           /\ \A i, j \in DOMAIN change.old.functions :
                 i < j => /\ change.old.functions[i].start < change.old.functions[j].start
                          /\ \/ change.old.functions[i].end < change.old.functions[j].start
                             \/ change.old.functions[j].end <= change.old.functions[i].end
<1>1. change.old.functions \in Seq(Defs)
  BY ProbeType DEF Files
<1>2. \A i \in DOMAIN change.old.functions : change.old.functions[i] \in Defs
  <2> HIDE DEF Defs
  <2> DEFINE fs == change.old.functions
  <2> HIDE DEF fs
  <2>1. fs \in Seq(Defs)
    BY <1>1 DEF fs
  <2> QED
    BY <2>1 DEF fs
<1>3. \A i \in DOMAIN change.old.functions :
         change.old.functions[i].start \in Nat /\ change.old.functions[i].end \in Nat
  BY <1>2 DEF Defs
<1> QED
  BY <1>1, <1>3, ProbesAssumption

LEMMA FirstLinesKept ==
    ASSUME NEW change \in Probes, NEW i \in DOMAIN change.old.functions,
           NEW edit, edit = change.edits[1]
    PROVE  change.old.functions[i].start \notin edit.at .. edit.at + edit.del - 1
  BY ProbesAssumption

(* A line moves by what is inserted and deleted before it.                 *)
LEMMA Moved ==
    ASSUME NEW change \in Probes, NEW edit \in Edits, change.edits = <<edit>>
    PROVE  LET fs == change.old.functions
               gs == NewVersion(change).functions
               New(x) == IF edit.at <= x THEN x + edit.ins - edit.del ELSE x
           IN  /\ Len(gs) = Len(fs)
               /\ \A i \in 1..Len(fs) : gs[i].start = New(fs[i].start) /\ gs[i].end = New(fs[i].end)
<1> DEFINE fs == change.old.functions
           gs == NewVersion(change).functions
           New(x) == IF edit.at <= x THEN x + edit.ins - edit.del ELSE x
           Mv(s) == [i \in DOMAIN s |-> [s[i] EXCEPT !.start = NewLine(change, @), !.end = NewLine(change, @)]]
<1>1. \A x \in Nat : NewLine(change, x) = New(x)
  <2> TAKE x \in Nat
  <2>1. Growth(change, x + 1) = IF edit.at < x + 1 THEN edit.ins - edit.del ELSE 0
    BY GrowthOfOne
  <2> QED
    BY <2>1 DEF NewLine, Edits
<1>2. gs = Mv(fs)
  <2>1. change.old \in Files
    BY ProbeType
  <2>2. NewVersion(change) = [change.old EXCEPT !.functions = Mv(@), !.classes = Mv(@)]
    BY DEF NewVersion
  <2> HIDE DEF Mv
  <2> QED
    BY <2>1, <2>2 DEF Files
<1>3. fs \in Seq(Defs)
  BY ProbeFunctions
<1>4. DOMAIN fs = 1..Len(fs) /\ Len(fs) \in Nat
  <2> HIDE DEF fs, Defs
  <2> QED
    BY <1>3
<1>5. ASSUME NEW i \in 1..Len(fs)
      PROVE  gs[i].start = New(fs[i].start) /\ gs[i].end = New(fs[i].end)
  <2>1. fs[i].start \in Nat /\ fs[i].end \in Nat
    BY <1>4, ProbeFunctions
  <2>2. gs[i] = [fs[i] EXCEPT !.start = NewLine(change, @), !.end = NewLine(change, @)]
    BY <1>2, <1>4
  <2>3. fs[i] \in Defs
    <3> HIDE DEF fs, Defs
    <3> QED
      BY <1>3
  <2>4. gs[i].start = NewLine(change, fs[i].start) /\ gs[i].end = NewLine(change, fs[i].end)
    <3> HIDE DEF gs
    <3> QED
      BY <2>2, <2>3 DEF Defs
  <2> QED
    BY <1>1, <2>1, <2>4
<1>6. Len(gs) = Len(fs)
  <2>1. gs = [i \in 1..Len(fs) |-> Mv(fs)[i]]
    BY <1>2, <1>4
  <2> HIDE DEF gs, Mv, fs
  <2> QED
    BY <1>4, <2>1
<1> QED
  BY <1>5, <1>6

LEMMA SearchFinds ==
    ASSUME NEW change \in Probes, NEW edit, edit = change.edits[1],
           edit.ins > 0, edit.at > Context, edit.at + edit.del + Context <= change.lines + 1,
           Outermost(NewVersion(change), edit.at, edit.at + edit.ins - 1) # NoFunction,
           edit.at > Outermost(NewVersion(change), edit.at, edit.at + edit.ins - 1).start + 1,
           NEW t, t = (edit.at + (edit.ins \div 2)) - 1
    PROVE  /\ Outermost(NewVersion(change), t, t + 1)
                = Outermost(NewVersion(change), edit.at, edit.at + edit.ins - 1)
           /\ edit.at + edit.ins <= Outermost(change.old, edit.at, edit.at + edit.del - 1).end
                => Outermost(change.old, t, t + 1)
                     = Outermost(change.old, edit.at, edit.at + edit.del - 1)
<1> DEFINE fs == change.old.functions
           gs == NewVersion(change).functions
           a == edit.at
           d == edit.del
           n == edit.ins
           New(x) == IF a <= x THEN x + n - d ELSE x
           after == Outermost(NewVersion(change), a, a + n - 1)
           before == Outermost(change.old, a, a + d - 1)
<1>1. edit \in Edits /\ change.edits = <<edit>>
  BY ProbeType
<1>2. a \in Nat /\ d \in Nat /\ n \in Nat /\ n > 0 /\ a > 3
  BY <1>1 DEF Edits, Context
<1>3. DOMAIN fs = 1..Len(fs) /\ Len(fs) \in Nat
  <2>1. fs \in Seq(Defs)
    BY ProbeFunctions
  <2> HIDE DEF fs, Defs
  <2> QED
    BY <2>1
<1>4. \A i \in 1..Len(fs) : fs[i].start \in Nat /\ fs[i].end \in Nat
  BY <1>3, ProbeFunctions
<1>5. \A i, j \in 1..Len(fs) :
         i < j => fs[i].start < fs[j].start /\ (fs[i].end < fs[j].start \/ fs[j].end <= fs[i].end)
  BY <1>3, ProbeFunctions
<1>6. Len(gs) = Len(fs) /\ \A i \in 1..Len(fs) : gs[i].start = New(fs[i].start) /\ gs[i].end = New(fs[i].end)
  BY <1>1, Moved
<1>7. PICK j \in Holding(gs, a, a + n - 1) :
         after = gs[j] /\ \A k \in Holding(gs, a, a + n - 1) : j <= k
  BY <1>3, <1>6, OutermostFound
<1>7a. \A i \in 1..Len(fs) : fs[i].start \notin a .. a + d - 1
  BY <1>3, FirstLinesKept
<1>8. t \in Nat /\ a - 1 <= t /\ t < a + n - 1 /\ t + 1 \in Nat
  <2> HIDE DEF a, n
  <2>1. t = (a + (n \div 2)) - 1
    BY DEF a, n
  <2> QED
    BY <1>2, <2>1
<1> HIDE DEF fs, gs, a, d, n, after, before
<1>9. j \in 1..Len(fs) /\ gs[j].start < a /\ a + n - 1 <= gs[j].end /\ a > gs[j].start + 1
  BY <1>6, <1>7 DEF Holding, a, n, after
<1>10. fs[j].start < a - 1 /\ gs[j].start = fs[j].start /\ a <= fs[j].end /\ a + d - 1 <= fs[j].end
  <2> DEFINE s == fs[j].start
             e == fs[j].end
  <2>1. s \in Nat /\ e \in Nat /\ gs[j].start = New(s) /\ gs[j].end = New(e) /\ ~(a <= s /\ s <= a + d - 1)
    BY <1>2, <1>4, <1>6, <1>9, <1>7a
  <2> HIDE DEF s, e
  <2>2. ~(a <= s)
    BY <1>2, <1>9, <2>1
  <2>3. gs[j].start = s /\ s < a - 1
    BY <1>2, <1>9, <2>1, <2>2
  <2>4. a <= e
    BY <1>2, <1>9, <2>1
  <2>5. a + d - 1 <= e
    BY <1>2, <1>9, <2>1, <2>4
  <2> QED
    BY <2>3, <2>4, <2>5 DEF s, e
(* A function before it that ends behind the first line of the edit holds  *)
(* the edit.                                                               *)
<1>11. ASSUME NEW k \in 1..Len(fs), k < j, a <= fs[k].end
       PROVE  a + d - 1 <= fs[k].end /\ fs[k].start < a - 1
  <2> DEFINE s == fs[k].start
             e == fs[k].end
             sj == fs[j].start
             ej == fs[j].end
  <2>1. s \in Nat /\ e \in Nat /\ sj \in Nat /\ ej \in Nat
    BY <1>4, <1>9
  <2>2. s < sj /\ (e < sj \/ ej <= e)
    BY <1>5, <1>9, <1>11
  <2>3. sj < a - 1 /\ a + d - 1 <= ej /\ a <= e
    BY <1>10, <1>11
  <2> HIDE DEF s, e, sj, ej
  <2>4. a + d - 1 <= e /\ s < a - 1
    BY <1>2, <2>1, <2>2, <2>3
  <2> QED
    BY <2>4 DEF s, e
<1>12. ASSUME NEW k \in 1..Len(fs), k < j PROVE fs[k].end < a
  <2> SUFFICES ASSUME a <= fs[k].end PROVE FALSE
    BY <1>2, <1>4
  <2>1. a + d - 1 <= fs[k].end /\ fs[k].start < a - 1
    BY <1>11, <1>12
  <2>2. gs[k].start < a /\ a + n - 1 <= gs[k].end
    <3> DEFINE s == fs[k].start
               e == fs[k].end
    <3>1. s \in Nat /\ e \in Nat /\ a <= e /\ a + d - 1 <= e /\ s < a - 1
      BY <1>4, <2>1
    <3>2. gs[k].start = New(s) /\ gs[k].end = New(e)
      BY <1>6
    <3> HIDE DEF s, e
    <3>3. gs[k].start = s /\ s < a
      BY <1>2, <3>1, <3>2
    <3>4. gs[k].end = e + n - d
      BY <1>2, <3>1, <3>2
    <3>5. a + n - 1 <= e + n - d
      BY <1>2, <3>1
    <3> QED
      BY <3>3, <3>4, <3>5
  <2>3. k \in Holding(gs, a, a + n - 1)
    BY <1>6, <2>2 DEF Holding
  <2> QED
    BY <1>7, <1>9, <1>12, <2>3
<1>13. Outermost(NewVersion(change), t, t + 1) = after
  <2>1. j \in Holding(gs, t, t + 1)
    <3> DEFINE s == gs[j].start
               e == gs[j].end
    <3>1. s \in Nat /\ s < a - 1 /\ a + n - 1 <= e
      BY <1>4, <1>9, <1>10
    <3>2. e \in Int
      <4>1. fs[j].end \in Nat /\ gs[j].end = New(fs[j].end)
        BY <1>4, <1>6, <1>9
      <4> QED
        BY <1>2, <4>1
    <3> HIDE DEF s, e
    <3>3. s < t /\ t + 1 <= e
      BY <1>2, <1>8, <3>1, <3>2
    <3> QED
      BY <1>6, <1>9, <3>3 DEF Holding, s, e
  <2>2. ASSUME NEW k \in Holding(gs, t, t + 1) PROVE j <= k
    <3>1. k \in 1..Len(fs) /\ t + 1 <= gs[k].end
      BY <1>6 DEF Holding
    <3>2. ~(k < j)
      BY <1>2, <1>4, <1>6, <1>8, <1>12, <3>1
    <3> QED
      BY <1>3, <1>9, <3>1, <3>2
  <2> QED
    <3>1. Len(NewVersion(change).functions) \in Nat /\ j \in Holding(NewVersion(change).functions, t, t + 1)
          /\ \A k \in Holding(NewVersion(change).functions, t, t + 1) : j <= k
      BY <1>3, <1>6, <2>1, <2>2 DEF gs
    <3>2. Outermost(NewVersion(change), t, t + 1) = NewVersion(change).functions[j]
      <4> DEFINE u == t + 1
                 version == NewVersion(change)
      <4>1. Len(version.functions) \in Nat /\ j \in Holding(version.functions, t, u)
            /\ \A k \in Holding(version.functions, t, u) : j <= k
        BY <3>1
      <4> HIDE DEF u, version
      <4>2. Outermost(version, t, u) = version.functions[j]
        BY <4>1, OutermostIsFirst
      <4> QED
        BY <4>2 DEF u, version
    <3> QED
      BY <1>7, <3>2 DEF gs
<1>14. ASSUME a + n <= before.end
       PROVE  Outermost(change.old, t, t + 1) = before
  <2>1. before = fs[j]
    <3>1. j \in Holding(fs, a, a + d - 1)
      BY <1>2, <1>4, <1>9, <1>10 DEF Holding
    <3>2. before # NoFunction
      <4>1. NoFunction.end = 0
        BY DEF NoFunction
      <4>2. ~(a + n <= 0)
        BY <1>2
      <4> QED
        BY <1>14, <4>1, <4>2
    <3>3. PICK k \in Holding(fs, a, a + d - 1) :
             before = fs[k] /\ \A m \in Holding(fs, a, a + d - 1) : k <= m
      BY <1>3, <3>2, OutermostFound DEF before, fs
    <3>4. k \in 1..Len(fs) /\ k <= j /\ a + n <= fs[k].end
      BY <1>14, <3>1, <3>3 DEF Holding
    <3>5. ~(k < j)
      BY <1>2, <1>4, <1>12, <3>4
    <3> QED
      BY <1>3, <1>9, <3>3, <3>4, <3>5
  <2>2. j \in Holding(fs, t, t + 1)
    <3> DEFINE s == fs[j].start
               e == fs[j].end
    <3>1. s \in Nat /\ e \in Nat /\ s < a - 1 /\ a + n <= e
      BY <1>4, <1>9, <1>10, <1>14, <2>1
    <3> HIDE DEF s, e
    <3>2. s < t /\ t + 1 <= e
      BY <1>2, <1>8, <3>1
    <3> QED
      BY <1>9, <3>2 DEF Holding, s, e
  <2>3. ASSUME NEW k \in Holding(fs, t, t + 1) PROVE j <= k
    <3>1. k \in 1..Len(fs) /\ t + 1 <= fs[k].end
      BY DEF Holding
    <3>2. ~(k < j)
      <4> SUFFICES ASSUME k < j PROVE FALSE
        OBVIOUS
      <4>1. fs[k].end < a
        BY <1>12, <3>1
      <4> DEFINE e == fs[k].end
      <4>2. e \in Nat /\ e < a /\ t + 1 <= e
        BY <1>4, <3>1, <4>1
      <4> HIDE DEF e
      <4> QED
        BY <1>2, <1>8, <4>2
    <3> QED
      BY <1>3, <1>9, <3>1, <3>2
  <2> QED
    <3>1. Len(change.old.functions) \in Nat /\ j \in Holding(change.old.functions, t, t + 1)
          /\ \A k \in Holding(change.old.functions, t, t + 1) : j <= k
      BY <1>3, <2>2, <2>3 DEF fs
    <3>2. Outermost(change.old, t, t + 1) = change.old.functions[j]
      <4> DEFINE u == t + 1
                 version == change.old
      <4>1. Len(version.functions) \in Nat /\ j \in Holding(version.functions, t, u)
            /\ \A k \in Holding(version.functions, t, u) : j <= k
        BY <3>1
      <4> HIDE DEF u, version
      <4>2. Outermost(version, t, u) = version.functions[j]
        BY <4>1, OutermostIsFirst
      <4> QED
        BY <4>2 DEF u, version
    <3> QED
      BY <2>1, <3>2 DEF fs
<1> QED
  BY <1>13, <1>14 DEF after, before, a, d, n

(* The function of a change is found.                                      *)
LEMMA Finding == ChangedFunctionIsFound
<1> SUFFICES ASSUME NEW change \in Probes
             PROVE  LET edit == change.edits[1]
                        hunk == Hunk(change, edit)
                        Search(version) == extract_target_function_by_range(
                                version, hunk.target_start, hunk.target_start + hunk.target_length)
                        before == Outermost(change.old, edit.at, edit.at + edit.del - 1)
                        after == Outermost(NewVersion(change), edit.at, edit.at + edit.ins - 1)
                    IN  (/\ edit.ins > 0 /\ edit.at > Context
                         /\ edit.at + edit.del + Context <= change.lines + 1
                         /\ after /= NoFunction /\ edit.at > after.start + 1)
                        => /\ Search(NewVersion(change)) = after
                           /\ (before.name = after.name /\ edit.at + edit.ins <= before.end)
                              => Search(change.old) = before
  BY DEF ChangedFunctionIsFound
<1> DEFINE edit == change.edits[1]
           hunk == Hunk(change, edit)
           Search(version) == extract_target_function_by_range(
                    version, hunk.target_start, hunk.target_start + hunk.target_length)
           before == Outermost(change.old, edit.at, edit.at + edit.del - 1)
           after == Outermost(NewVersion(change), edit.at, edit.at + edit.ins - 1)
           t == (edit.at + (edit.ins \div 2)) - 1
<1>1. edit \in Edits /\ change.edits = <<edit>> /\ change.lines \in Nat
  BY ProbeType
<1> HIDE DEF edit
<1> SUFFICES ASSUME edit.ins > 0, edit.at > Context, edit.at + edit.del + Context <= change.lines + 1,
                    after # NoFunction, edit.at > after.start + 1
             PROVE  /\ Search(NewVersion(change)) = after
                    /\ edit.at + edit.ins <= before.end => Search(change.old) = before
  BY DEF edit
<1>2. TargetLine(hunk.target_start, hunk.target_start + hunk.target_length) = t
  BY <1>1, SearchTarget
<1>3. t \in Nat
  BY <1>1 DEF Edits, Context
<1> HIDE DEF t
<1>4. Len(change.old.functions) \in Nat /\ \A i \in 1..Len(change.old.functions) :
         change.old.functions[i].start \in Nat /\ change.old.functions[i].end \in Nat
  <2>1. change.old.functions \in Seq(Defs)
    BY ProbeFunctions
  <2>2. Len(change.old.functions) \in Nat /\ DOMAIN change.old.functions = 1..Len(change.old.functions)
    <3> HIDE DEF Defs
    <3> QED
      BY <2>1
  <2> QED
    BY <2>2, ProbeFunctions
<1>5. /\ Len(NewVersion(change).functions) \in Nat
      /\ \A i \in 1..Len(NewVersion(change).functions) : NewVersion(change).functions[i].end \in Int
  <2> DEFINE fs == change.old.functions
             gs == NewVersion(change).functions
             New(x) == IF edit.at <= x THEN x + edit.ins - edit.del ELSE x
  <2>1. Len(gs) = Len(fs) /\ \A i \in 1..Len(fs) : gs[i].end = New(fs[i].end)
    BY <1>1, Moved
  <2>2. \A x \in Nat : New(x) \in Int
    BY <1>1 DEF Edits
  <2> HIDE DEF fs, gs, New
  <2> QED
    BY <1>4, <2>1, <2>2 DEF fs, gs
<1>6. Search(NewVersion(change)) = Outermost(NewVersion(change), t, t + 1)
  <2> HIDE DEF hunk
  <2> QED
    BY <1>2, <1>3, <1>5, SearchIsOutermost
<1>7. Search(change.old) = Outermost(change.old, t, t + 1)
  <2> HIDE DEF hunk
  <2> QED
    BY <1>2, <1>3, <1>4, SearchIsOutermost
<1>8. /\ Outermost(NewVersion(change), t, t + 1) = after
      /\ edit.at + edit.ins <= before.end => Outermost(change.old, t, t + 1) = before
  BY <1>1, SearchFinds DEF edit, t
<1> QED
  BY <1>6, <1>7, <1>8

(* A function is renamed wherever it is meant, and the new name is nowhere *)
(* else.                                                                   *)
LEMMA Renamed ==
    ASSUME NEW p \in PRs, NEW new \in {"pre_f", "post_f"}, NEW i \in DOMAIN Code[p],
           NEW r, r = update_function_name(Code[p], "f", new)
    PROVE  DOMAIN r = DOMAIN Code[p] /\ "f" \notin r[i].names /\ (new \in r[i].names <=> "f" \in Code[p][i].names)
<1> DEFINE code == Code[p]
           Lines == [text : STRING, names : SUBSET STRING, def : BOOLEAN]
<1>1. code[i] \in Lines
  <2>1. code \in Seq(Lines)
    BY CodeAssumption
  <2> HIDE DEF code, Lines
  <2>2. \A k \in DOMAIN code : code[k] \in Lines
    BY <2>1
  <2> QED
    BY <2>2 DEF code
<1>2. new \notin code[i].names /\ new # "f"
  BY PrefixAssumption
<1>3. r[i] = IF "f" \in code[i].names THEN [code[i] EXCEPT !.names = (@ \ {"f"}) \cup {new}] ELSE code[i]
  BY DEF update_function_name
<1>4. DOMAIN r = DOMAIN code
  BY DEF update_function_name
<1> HIDE DEF code
<1> QED
  BY <1>1, <1>2, <1>3, <1>4 DEF code

LEMMA ToldApart == VersionsAreToldApart
<1> SUFFICES ASSUME NEW p \in PRs
             PROVE  LET info == prepare_information(Code[p], Code[p], "f", "pre_f", "post_f")
                        Names(code) == UNION {line.names : line \in Range(code)}
                    IN  /\ "f" \notin Names(info.prev_fut_code) \cup Names(info.post_fut_code)
                        /\ \A i \in DOMAIN Code[p] :
                              LET calls == "f" \in Code[p][i].names
                              IN  /\ calls <=> "pre_f" \in info.prev_fut_code[i].names
                                  /\ calls <=> "post_f" \in info.post_fut_code[i].names
  BY DEF VersionsAreToldApart
<1> DEFINE info == prepare_information(Code[p], Code[p], "f", "pre_f", "post_f")
           pre == update_function_name(Code[p], "f", "pre_f")
           post == update_function_name(Code[p], "f", "post_f")
           Names(code) == UNION {line.names : line \in Range(code)}
<1>1. info.prev_fut_code = pre /\ info.post_fut_code = post
  BY DEF prepare_information, extract_fut_code
<1>2. \A i \in DOMAIN Code[p] :
         /\ "f" \notin pre[i].names /\ ("pre_f" \in pre[i].names <=> "f" \in Code[p][i].names)
         /\ "f" \notin post[i].names /\ ("post_f" \in post[i].names <=> "f" \in Code[p][i].names)
  BY Renamed
<1>3. DOMAIN pre = DOMAIN Code[p] /\ DOMAIN post = DOMAIN Code[p]
  BY DEF update_function_name
<1> HIDE DEF pre, post, info
<1>4. "f" \notin Names(pre) /\ "f" \notin Names(post)
  BY <1>2, <1>3 DEF Range
<1>5. "f" \notin Names(info.prev_fut_code) \cup Names(info.post_fut_code)
  <2> HIDE DEF Names
  <2> QED
    BY <1>1, <1>4
<1>6. \A i \in DOMAIN Code[p] :
         /\ "f" \in Code[p][i].names <=> "pre_f" \in info.prev_fut_code[i].names
         /\ "f" \in Code[p][i].names <=> "post_f" \in info.post_fut_code[i].names
  BY <1>1, <1>2
<1> QED
  BY <1>5, <1>6 DEF info

(***************************************************************************)
(* The discussion.                                                         *)
(***************************************************************************)
Entries == [length : Nat, mentions : SUBSET Nat]

LEMMA TotalOfNone == TotalLength(<< >>) = 0
<1> DEFINE Iter(g) == g = [s \in SUBSET (DOMAIN << >>) |->
                IF s = {} THEN 0 ELSE g[s \ {Max(s)}] + << >>[Max(s)].length]
<1>1. DOMAIN << >> = {}
  OBVIOUS
<1>2. SUBSET (DOMAIN << >>) = {{}}
  BY <1>1
<1>3. \E g : Iter(g)
  <2>1. Iter([s \in SUBSET (DOMAIN << >>) |-> 0])
    BY <1>2
  <2> QED
    BY <2>1
<1>4. (CHOOSE g : Iter(g))[DOMAIN << >>] = 0
  <2> DEFINE h == CHOOSE g : Iter(g)
  <2>1. Iter(h)
    <3> HIDE DEF Iter
    <3> QED
      BY <1>3
  <2> HIDE DEF h
  <2>2. h[{}] = 0
    BY <1>2, <2>1
  <2> QED
    BY <1>1, <2>2 DEF h
<1> QED
  BY <1>4 DEF TotalLength, FoldLeft, MapThenFoldSet

(* What is shown is a beginning of the entries.                            *)
LEMMA SectionShows ==
    ASSUME NEW text, NEW entries, NEW limit, Len(entries) \in Nat
    PROVE  \E k \in 0..Len(entries) :
              /\ Section(text, entries, limit)
                   = [shown |-> text \o SubSeq(entries, 1, k), truncated |-> k < Len(entries)]
              /\ k = 0 \/ TotalLength(text \o SubSeq(entries, 1, k)) <= limit
<1> DEFINE Fits(k) == \A n \in 1..k : TotalLength(text \o SubSeq(entries, 1, n)) <= limit
           K == {n \in 0..Len(entries) : Fits(n)}
<1>1. 0 \in K
  OBVIOUS
<1>2. K \in SUBSET Nat /\ \A n \in K : n <= Len(entries)
  OBVIOUS
<1>3. PICK m \in K : \A n \in K : n <= m
  <2> HIDE DEF K
  <2> QED
    BY <1>1, <1>2, GreatestOf
<1>4. Max(K) \in K
  <2>1. \A n \in K : m >= n
    BY <1>2, <1>3
  <2> HIDE DEF K
  <2> QED
    BY <2>1 DEF Max
<1>5. Section(text, entries, limit)
        = [shown |-> text \o SubSeq(entries, 1, Max(K)), truncated |-> Max(K) < Len(entries)]
  BY DEF Section
<1>6. Max(K) \in 0..Len(entries) /\ Fits(Max(K))
  BY <1>4
<1>7. Max(K) = 0 \/ TotalLength(text \o SubSeq(entries, 1, Max(K))) <= limit
  <2> DEFINE k == Max(K)
  <2>1. k \in 0..Len(entries) /\ Fits(k)
    BY <1>6
  <2> HIDE DEF k
  <2>2. k = 0 \/ k \in 1..k
    BY <2>1
  <2> QED
    BY <2>1, <2>2 DEF k
<1> QED
  BY <1>5, <1>6, <1>7

IsCut(part, all, limit) ==
    /\ IsPrefix(part.shown, all) /\ (part.truncated <=> part.shown /= all)
    /\ TotalLength(part.shown) <= limit \/ part.shown = <<Head(all)>>

LEMMA Beginning ==
    ASSUME NEW S, NEW text \in Seq(S), NEW entries \in Seq(S), NEW k \in 0..Len(entries),
           NEW shown, shown = text \o SubSeq(entries, 1, k)
    PROVE  IsPrefix(shown, text \o entries) /\ (k < Len(entries) <=> shown # text \o entries)
<1> DEFINE all == text \o entries
           part == SubSeq(entries, 1, k)
<1>1. part \in Seq(S) /\ Len(part) = k /\ \A i \in 1..k : part[i] = entries[i]
  OBVIOUS
<1>2. all \in Seq(S) /\ Len(all) = Len(text) + Len(entries) /\ Len(text) \in Nat /\ Len(entries) \in Nat
  OBVIOUS
<1> HIDE DEF part
<1>3. shown \in Seq(S) /\ Len(shown) = Len(text) + k
  BY <1>1 DEF part
<1>4. \A i \in 1..Len(shown) : shown[i] = all[i]
  <2> TAKE i \in 1..Len(shown)
  <2>1. shown[i] = IF i <= Len(text) THEN text[i] ELSE part[i - Len(text)]
    BY <1>1, <1>2, <1>3 DEF part
  <2>2. all[i] = IF i <= Len(text) THEN text[i] ELSE entries[i - Len(text)]
    BY <1>2, <1>3
  <2>3. i <= Len(text) \/ i - Len(text) \in 1..k
    BY <1>2, <1>3
  <2> QED
    BY <1>1, <2>1, <2>2, <2>3
<1> HIDE DEF all
<1>5. IsPrefix(shown, all)
  <2>1. Len(shown) <= Len(all)
    BY <1>2, <1>3
  <2>2. SubSeq(shown, 1, Len(shown)) = SubSeq(all, 1, Len(shown))
    BY <1>2, <1>3, <1>4, <2>1
  <2> QED
    BY <2>1, <2>2 DEF IsPrefix
<1>6. k = Len(entries) => shown = all
  <2>1. SubSeq(entries, 1, Len(entries)) = entries
    OBVIOUS
  <2> QED
    BY <2>1 DEF all
<1>7. k < Len(entries) => shown # all
  BY <1>2, <1>3
<1>8. k < Len(entries) \/ (k = Len(entries) /\ ~(k < Len(entries)))
  BY <1>2
<1> QED
  BY <1>5, <1>6, <1>7, <1>8 DEF all

LEMMA SectionIsCut ==
    ASSUME NEW entries \in Seq(Entries), NEW limit \in Nat
    PROVE  /\ IsCut(Section(<< >>, entries, limit), entries, limit)
           /\ \A body \in Entries :
                 IsCut(Section(<<body>>, entries, limit), <<body>> \o entries, limit)
<1> HIDE DEF Entries
<1>1. Len(entries) \in Nat
  OBVIOUS
<1>2. ASSUME NEW text \in Seq(Entries),
             TotalLength(text) <= limit \/ (text # << >> /\ text = <<Head(text \o entries)>>)
      PROVE  IsCut(Section(text, entries, limit), text \o entries, limit)
  <2>1. PICK k \in 0..Len(entries) :
              /\ Section(text, entries, limit)
                   = [shown |-> text \o SubSeq(entries, 1, k), truncated |-> k < Len(entries)]
              /\ k = 0 \/ TotalLength(text \o SubSeq(entries, 1, k)) <= limit
    BY <1>1, SectionShows
  <2> DEFINE shown == text \o SubSeq(entries, 1, k)
             all == text \o entries
             part == Section(text, entries, limit)
  <2>2. part.shown = shown /\ part.truncated = (k < Len(entries))
    BY <2>1
  <2>3. IsPrefix(shown, all) /\ (k < Len(entries) <=> shown # all)
    BY Beginning
  <2>4. k = 0 => shown = text
    OBVIOUS
  <2>5. TotalLength(shown) <= limit \/ shown = <<Head(all)>>
    BY <1>2, <2>1, <2>4
  <2> HIDE DEF shown, all, part
  <2> QED
    BY <2>2, <2>3, <2>5 DEF IsCut, part, all
<1>3. << >> \in Seq(Entries) /\ TotalLength(<< >>) <= limit /\ << >> \o entries = entries
  BY TotalOfNone
<1>4. IsCut(Section(<< >>, entries, limit), entries, limit)
  BY <1>2, <1>3
<1>5. ASSUME NEW body \in Entries
      PROVE  IsCut(Section(<<body>>, entries, limit), <<body>> \o entries, limit)
  <2>1. <<body>> \in Seq(Entries) /\ <<body>> # << >> /\ Head(<<body>> \o entries) = body
    OBVIOUS
  <2> QED
    BY <1>2, <2>1
<1> QED
  BY <1>4, <1>5

ArePartsCut(parts, item, limit) ==
    /\ IsCut(parts.comments, <<item.body>> \o item.comments, limit)
    /\ "reviews" \in DOMAIN parts => /\ IsCut(parts.reviews, item.reviews, limit)
                                     /\ IsCut(parts.commits, item.commits, limit)

LEMMA ItemType ==
    ASSUME NEW n \in DOMAIN Items
    PROVE  /\ Items[n].body \in Entries /\ Items[n].comments \in Seq(Entries)
           /\ Items[n].reviews \in Seq(Entries) /\ Items[n].commits \in Seq(Entries)
  BY ItemsAssumption DEF Entries

LEMMA PartsCut ==
    ASSUME NEW n \in DOMAIN Items, NEW limit \in Nat
    PROVE  ArePartsCut(Parts(Items[n], limit), Items[n], limit)
<1> DEFINE item == Items[n]
           parts == Parts(item, limit)
<1>1. /\ item.body \in Entries /\ item.comments \in Seq(Entries)
      /\ item.reviews \in Seq(Entries) /\ item.commits \in Seq(Entries)
  BY ItemType
<1> HIDE DEF item
<1>2. /\ parts.comments = Section(<<item.body>>, item.comments, limit)
      /\ parts.reviews = Section(<< >>, item.reviews, limit)
      /\ parts.commits = Section(<< >>, item.commits, limit)
  BY DEF Parts
<1> HIDE DEF parts
<1>3. /\ IsCut(parts.comments, <<item.body>> \o item.comments, limit)
      /\ IsCut(parts.reviews, item.reviews, limit)
      /\ IsCut(parts.commits, item.commits, limit)
  BY <1>1, <1>2, SectionIsCut
<1> QED
  BY <1>3 DEF ArePartsCut, item, parts

LEMMA IssueCut ==
    ASSUME NEW n \in DOMAIN Items
    PROVE  ArePartsCut(extract_issue_reference(n).parts, Items[n], ReferenceLimit)
<1> DEFINE item == Items[n]
           parts == [comments |-> Section(<<item.body>>, item.comments, ReferenceLimit)]
<1>1. extract_issue_reference(n).parts = parts
  BY DEF extract_issue_reference
<1>2. IsCut(parts.comments, <<item.body>> \o item.comments, ReferenceLimit)
  BY ItemType, SectionIsCut, LimitsAssumption
<1>3. "reviews" \notin DOMAIN parts
  OBVIOUS
<1> QED
  BY <1>1, <1>2, <1>3 DEF ArePartsCut

LEMMA Discussion == DiscussionIsShown
<1> SUFFICES ASSUME NEW n \in DOMAIN Items, NEW refused \in SUBSET DOMAIN Items,
                    NEW lost \in SUBSET DOMAIN Items
             PROVE  LET details == extract_pr_details(n, refused, lost)
                        mentioned == Mentioned(details.parts.comments.shown)
                    IN  /\ ArePartsCut(details.parts, Items[n], Limit)
                        /\ {r.number : r \in details.references} = (mentioned \cap DOMAIN Items) \ lost
                        /\ \A r, s \in details.references : r.number = s.number => r = s
                        /\ \A r \in details.references :
                              ArePartsCut(r.parts, Items[r.number], ReferenceLimit)
  BY DEF DiscussionIsShown, ArePartsCut, IsCut
<1> DEFINE details == extract_pr_details(n, refused, lost)
           found == (Mentioned(details.parts.comments.shown) \cap DOMAIN Items) \ lost
           AsPull(m) == Items[m].kind = "pull" /\ m \notin refused
           Reference(m) == IF AsPull(m) THEN extract_pr_reference(m) ELSE extract_issue_reference(m)
<1>1. details.parts = Parts(Items[n], Limit)
  BY DEF extract_pr_details
<1>2. details.references = {Reference(m) : m \in found}
  BY <1>1 DEF extract_pr_details, extract_references
<1>3. \A m : Reference(m).number = m
  BY DEF extract_pr_reference, extract_issue_reference
<1>4. \A m \in DOMAIN Items : ArePartsCut(Reference(m).parts, Items[m], ReferenceLimit)
  BY PartsCut, IssueCut, LimitsAssumption DEF extract_pr_reference
<1>5. ArePartsCut(details.parts, Items[n], Limit)
  BY <1>1, PartsCut, LimitsAssumption
<1>6. found \subseteq DOMAIN Items
  OBVIOUS
<1> HIDE DEF details, found, Reference
<1>7. {r.number : r \in details.references} = found
  BY <1>2, <1>3
<1>8. \A r, s \in details.references : r.number = s.number => r = s
  BY <1>2, <1>3
<1>9. \A r \in details.references : ArePartsCut(r.parts, Items[r.number], ReferenceLimit)
  BY <1>2, <1>3, <1>4, <1>6
<1> QED
  BY <1>5, <1>7, <1>8, <1>9 DEF details, found

(***************************************************************************)
(* The signature.                                                          *)
(***************************************************************************)
OfKinds(params, kinds, i) == IF params[i].kind \in kinds THEN <<params[i]>> ELSE << >>
(* What OfKind has after k of the parameters.                              *)
Selecting(S, params, kinds, g) ==
    /\ g \in [0..Len(params) -> Seq(S)] /\ g[0] = << >> /\ OfKind(params, kinds) = g[Len(params)]
    /\ \A i \in 1..Len(params) : g[i] = g[i - 1] \o OfKinds(params, kinds, i)

LEMMA Selection ==
    ASSUME NEW S, NEW params \in Seq(S), NEW kinds
    PROVE  \E g : Selecting(S, params, kinds, g)
<1> DEFINE parts == [i \in DOMAIN params |-> IF params[i].kind \in kinds THEN <<params[i]>> ELSE << >>]
<1>1. DOMAIN params = 1..Len(params) /\ Len(params) \in Nat /\ \A i \in 1..Len(params) : params[i] \in S
  OBVIOUS
<1>2. parts \in Seq(Seq(S)) /\ Len(parts) = Len(params)
  <2>1. \A i \in 1..Len(params) : (IF params[i].kind \in kinds THEN <<params[i]>> ELSE << >>) \in Seq(S)
    BY <1>1
  <2> QED
    BY <1>1, <2>1
<1>3. \A i \in 1..Len(params) : parts[i] = OfKinds(params, kinds, i)
  BY <1>1 DEF OfKinds
<1>4. OfKind(params, kinds) = FlattenSeq(parts)
  BY DEF OfKind
<1> HIDE DEF parts
<1>5. PICK g \in [0..Len(parts) -> Seq(S)] :
              /\ g[0] = << >> /\ FlattenSeq(parts) = g[Len(parts)]
              /\ \A i \in 1..Len(parts) : g[i] = g[i - 1] \o parts[i]
  BY <1>2, FlattenSteps
<1>6. Selecting(S, params, kinds, g)
  BY <1>2, <1>3, <1>4, <1>5 DEF Selecting
<1> QED
  BY <1>6

LEMMA Associative ==
    ASSUME NEW S, NEW x \in Seq(S), NEW y \in Seq(S), NEW z \in Seq(S)
    PROVE  (x \o y) \o z = x \o (y \o z)
  BY ConcatAssociative

(* If no parameter of the second kinds comes before one of the first, those*)
(* of the second come after those of the first.                            *)
LEMMA KindsInOrder ==
    ASSUME NEW S, NEW params \in Seq(S), NEW first, NEW second, NEW both,
           first \cap second = {}, both = first \cup second,
           \A i, j \in 1..Len(params) : i < j => ~(params[i].kind \in second /\ params[j].kind \in first)
    PROVE  OfKind(params, both) = OfKind(params, first) \o OfKind(params, second)
<1> DEFINE n == Len(params)
<1>1. n \in Nat /\ \A i \in 1..n : params[i] \in S
  OBVIOUS
<1>2. PICK f : Selecting(S, params, first, f)
  BY Selection
<1>3. PICK s : Selecting(S, params, second, s)
  BY Selection
<1>4. PICK b : Selecting(S, params, both, b)
  BY Selection
<1> HIDE DEF n
<1>5. /\ \A k \in 0..n : f[k] \in Seq(S) /\ s[k] \in Seq(S) /\ b[k] \in Seq(S)
      /\ f[0] = << >> /\ s[0] = << >> /\ b[0] = << >>
  BY <1>1, <1>2, <1>3, <1>4 DEF Selecting, n
<1>6. \A i \in 1..n : /\ f[i] = f[i - 1] \o OfKinds(params, first, i)
                      /\ s[i] = s[i - 1] \o OfKinds(params, second, i)
                      /\ b[i] = b[i - 1] \o OfKinds(params, both, i)
  BY <1>2, <1>3, <1>4 DEF Selecting, n
<1> DEFINE Good(k) == /\ b[k] = f[k] \o s[k]
                      /\ (\A i \in 1..k : params[i].kind \notin second) => s[k] = << >>
           N == {k \in Nat : k <= n => Good(k)}
<1>7. 0 \in N
  <2>1. << >> \o << >> = << >>
    OBVIOUS
  <2>2. Good(0)
    BY <1>5, <2>1
  <2> HIDE DEF Good
  <2> QED
    BY <2>2
<1>8. ASSUME NEW k \in Nat, k \in N PROVE k + 1 \in N
  <2> SUFFICES ASSUME k + 1 <= n PROVE Good(k + 1)
    <3> HIDE DEF Good
    <3> QED
      OBVIOUS
  <2>1. k + 1 \in 1..n /\ k \in 0..n /\ (k + 1) - 1 = k /\ k <= n
    BY <1>1
  <2>2. Good(k)
    BY <1>8, <2>1
  <2> DEFINE e == <<params[k + 1]>>
  <2>3. f[k] \in Seq(S) /\ s[k] \in Seq(S) /\ e \in Seq(S)
    BY <1>1, <1>5, <2>1
  <2>4. /\ f[k + 1] = f[k] \o OfKinds(params, first, k + 1)
        /\ s[k + 1] = s[k] \o OfKinds(params, second, k + 1)
        /\ b[k + 1] = b[k] \o OfKinds(params, both, k + 1)
    BY <1>6, <2>1
  <2>5. (\A i \in 1..(k + 1) : params[i].kind \notin second) => s[k + 1] = << >>
    <3> SUFFICES ASSUME \A i \in 1..(k + 1) : params[i].kind \notin second PROVE s[k + 1] = << >>
      OBVIOUS
    <3>1. \A i \in 1..k : i \in 1..(k + 1)
      OBVIOUS
    <3>2. s[k] = << >> /\ OfKinds(params, second, k + 1) = << >>
      BY <2>1, <2>2, <3>1 DEF OfKinds
    <3> QED
      BY <2>4, <3>2
  <2>6. b[k + 1] = f[k + 1] \o s[k + 1]
    <3>1. CASE params[k + 1].kind \in first
      <4>1. \A i \in 1..k : i \in 1..n /\ i < k + 1
        BY <2>1, <1>1
      <4>2. \A i \in 1..k : params[i].kind \notin second
        BY <2>1, <3>1, <4>1 DEF n
      <4>3. s[k] = << >>
        BY <2>2, <4>2
      <4>4. /\ OfKinds(params, first, k + 1) = e /\ OfKinds(params, second, k + 1) = << >>
            /\ OfKinds(params, both, k + 1) = e
        BY <3>1 DEF OfKinds
      <4> HIDE DEF e
      <4>5. f[k] \o << >> = f[k] /\ (f[k] \o e) \o << >> = f[k] \o e /\ << >> \o << >> = << >>
        BY <2>3
      <4> QED
        BY <2>2, <2>4, <4>3, <4>4, <4>5
    <3>2. CASE params[k + 1].kind \in second
      <4>1. /\ OfKinds(params, first, k + 1) = << >> /\ OfKinds(params, second, k + 1) = e
            /\ OfKinds(params, both, k + 1) = e
        BY <3>2 DEF OfKinds
      <4> HIDE DEF e
      <4>2. (f[k] \o s[k]) \o e = f[k] \o (s[k] \o e)
        <5> DEFINE x == f[k]
                   y == s[k]
        <5>1. x \in Seq(S) /\ y \in Seq(S)
          BY <2>3
        <5>3. e \in Seq(S)
          BY <2>3
        <5> HIDE DEF x, y
        <5>2. (x \o y) \o e = x \o (y \o e)
          BY <5>1, <5>3, Associative
        <5> QED
          BY <5>2 DEF x, y
      <4>3. f[k] \o << >> = f[k]
        BY <2>3
      <4> QED
        BY <2>2, <2>4, <4>1, <4>2, <4>3
    <3>3. CASE params[k + 1].kind \notin first \cup second
      <4>1. /\ OfKinds(params, first, k + 1) = << >> /\ OfKinds(params, second, k + 1) = << >>
            /\ OfKinds(params, both, k + 1) = << >>
        BY <3>3 DEF OfKinds
      <4>2. b[k] \in Seq(S)
        BY <1>5, <2>1
      <4>3. f[k] \o << >> = f[k] /\ s[k] \o << >> = s[k] /\ b[k] \o << >> = b[k]
        BY <2>3, <4>2
      <4> QED
        BY <2>2, <2>4, <4>1, <4>3
    <3> QED
      BY <3>1, <3>2, <3>3
  <2> QED
    BY <2>5, <2>6
<1>9. n \in N
  <2> HIDE DEF N
  <2> QED
    BY <1>1, <1>7, <1>8, Induction
<1>10. b[n] = f[n] \o s[n]
  <2> HIDE DEF Good
  <2>1. Good(n)
    BY <1>1, <1>9
  <2> QED
    BY <2>1 DEF Good
<1>11. OfKind(params, first) = f[n] /\ OfKind(params, second) = s[n]
  BY <1>2, <1>3 DEF Selecting, n
<1>12. OfKind(params, both) = b[n]
  BY <1>4 DEF Selecting, n
<1> QED
  BY <1>10, <1>11, <1>12

LEMMA Absent ==
    ASSUME NEW params, NEW kinds, NEW some, some \subseteq kinds,
           \A i \in DOMAIN params : params[i].kind \notin kinds \ some
    PROVE  OfKind(params, kinds) = OfKind(params, some)
<1>1. [i \in DOMAIN params |-> IF params[i].kind \in kinds THEN <<params[i]>> ELSE << >>]
        = [i \in DOMAIN params |-> IF params[i].kind \in some THEN <<params[i]>> ELSE << >>]
  OBVIOUS
<1> QED
  BY <1>1 DEF OfKind

Params == [name : STRING, kind : DOMAIN GrammarOrder]

LEMMA ProbeParams ==
    ASSUME NEW change \in Probes, NEW f \in Range(change.old.functions)
    PROVE  /\ f.params \in Seq(Params)
           /\ \A i, j \in 1..Len(f.params) :
                 i < j => GrammarOrder[f.params[i].kind] <= GrammarOrder[f.params[j].kind]
<1>1. PICK k \in DOMAIN change.old.functions : f = change.old.functions[k]
  BY DEF Range
<1>2. f \in Defs
  <2> DEFINE fs == change.old.functions
  <2>1. fs \in Seq(Defs) /\ k \in DOMAIN fs /\ f = fs[k]
    BY <1>1, ProbeFunctions
  <2> HIDE DEF fs, Defs
  <2> QED
    BY <2>1
<1>3. f.params \in Seq(Params)
  BY <1>2 DEF Defs, Params
<1>4. DOMAIN f.params = 1..Len(f.params)
  <2> HIDE DEF Params
  <2> QED
    BY <1>3
<1>5. \A i, j \in DOMAIN f.params :
         i < j => GrammarOrder[f.params[i].kind] <= GrammarOrder[f.params[j].kind]
  BY <1>1, ProbesAssumption
<1> QED
  BY <1>3, <1>4, <1>5

LEMMA InGrammarOrder ==
    ASSUME NEW change \in Probes, NEW f \in Range(change.old.functions),
           \A i \in DOMAIN f.params : f.params[i].kind # "positional-only"
    PROVE  _extract_parameters(f.params) = OfKind(f.params, DOMAIN GrammarOrder \ {"bare star"})
<1> DEFINE ps == f.params
           A == {"regular"}
           AB == {"regular", "*args"}
           ABC == {"regular", "*args", "keyword-only"}
           ABCD == {"regular", "*args", "keyword-only", "**kwargs"}
           named == DOMAIN GrammarOrder \ {"bare star"}
<1>1. ps \in Seq(Params) /\ \A i, j \in 1..Len(ps) : i < j => GrammarOrder[ps[i].kind] <= GrammarOrder[ps[j].kind]
  BY ProbeParams
<1> DEFINE Order(first, second) ==
              \A i, j \in 1..Len(ps) : i < j => ~(ps[i].kind \in second /\ ps[j].kind \in first)
<1>2. Order(A, {"*args"}) /\ Order(AB, {"keyword-only"}) /\ Order(ABC, {"**kwargs"})
  <2> HIDE DEF ps
  <2>1. /\ GrammarOrder["regular"] = 2 /\ GrammarOrder["*args"] = 3
        /\ GrammarOrder["keyword-only"] = 4 /\ GrammarOrder["**kwargs"] = 5
    BY DEF GrammarOrder
  <2>2. ~(5 <= 2) /\ ~(5 <= 3) /\ ~(5 <= 4) /\ ~(4 <= 2) /\ ~(4 <= 3) /\ ~(3 <= 2)
    OBVIOUS
  <2> QED
    BY <1>1, <2>1, <2>2
<1> HIDE DEF ps, Order
<1>3. OfKind(ps, AB) = OfKind(ps, A) \o OfKind(ps, {"*args"})
  <2>1. A \cap {"*args"} = {} /\ AB = A \cup {"*args"}
    OBVIOUS
  <2> HIDE DEF A, AB
  <2> QED
    BY <1>1, <1>2, <2>1, KindsInOrder DEF Order
<1>4. OfKind(ps, ABC) = OfKind(ps, AB) \o OfKind(ps, {"keyword-only"})
  <2>1. AB \cap {"keyword-only"} = {} /\ ABC = AB \cup {"keyword-only"}
    OBVIOUS
  <2> HIDE DEF AB, ABC
  <2> QED
    BY <1>1, <1>2, <2>1, KindsInOrder DEF Order
<1>5. OfKind(ps, ABCD) = OfKind(ps, ABC) \o OfKind(ps, {"**kwargs"})
  <2>1. ABC \cap {"**kwargs"} = {} /\ ABCD = ABC \cup {"**kwargs"}
    OBVIOUS
  <2> HIDE DEF ABC, ABCD
  <2> QED
    BY <1>1, <1>2, <2>1, KindsInOrder DEF Order
<1>6. OfKind(ps, named) = OfKind(ps, ABCD)
  <2>1. ABCD \subseteq named /\ named \ ABCD = {"positional-only"}
    BY DEF GrammarOrder
  <2> HIDE DEF ABCD, named
  <2> QED
    BY <2>1, Absent DEF ps
<1>7. _extract_parameters(ps) = OfKind(ps, ABCD)
  BY <1>3, <1>4, <1>5 DEF _extract_parameters
<1> QED
  BY <1>6, <1>7 DEF ps

LEMMA Signatures == SignatureKeepsOrder
  BY InGrammarOrder DEF SignatureKeepsOrder, get_function_signature

(* What the prompts are told of a change is so, for every file that is     *)
(* nested as Python files are, every edit of it, and every discussion.     *)
THEOREM Reading == Spec => []ChangeIsRead
<1>1. ChangeIsRead
  BY Finding, Signatures, Discussion, ToldApart DEF ChangeIsRead
<1> QED
  BY <1>1, PTL
=============================================================================
