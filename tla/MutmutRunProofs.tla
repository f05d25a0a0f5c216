--------------------------- MODULE MutmutRunProofs ---------------------------
(***************************************************************************)
(* The safety properties of `mutmut run` for every set of mutants, files,   *)
(* tests and exit codes, any number of children, runs and edits.  The       *)
(* invariant says for each mutant where it is in the loop: waiting in todo, *)
(* under test in a child that may have ended and may have been reaped, or   *)
(* decided, with its result in memory and on disk.                          *)
(***************************************************************************)
EXTENDS MutmutRun, SequenceTheorems, WellFoundedInduction, FiniteSetTheorems, TLAPS

Process == [mutant : Mutants, st : {"running", "zombie", "gone"}, exit : Int,
            age : Nat, known : BOOLEAN]
Statistics == [tests : [FunctionNames -> SUBSET Tests], timed : SUBSET Tests]

(* Outside the loop no result is in memory and no child is registered.     *)
Blank ==
    /\ todo = << >> /\ code = Fresh(Mutants) /\ keyByPid = << >>
    /\ reaped = NoChild /\ aim = {} /\ ended = Fresh(Mutants)

Types ==
    /\ TypeOK
    /\ names \in [given : BOOLEAN, match : SUBSET Mutants]
    /\ DOMAIN meta = Files
    /\ statsFile \in [state : {"absent", "torn", "ok"}, stats : Statistics]
    /\ stats \in Statistics
    /\ todo \in Seq(Mutants)
    /\ code \in [Mutants -> Int] /\ ended \in [Mutants -> Int]
    /\ proc \in Seq(Process)
    /\ reaped \in [pid : Nat, exit : Int]
    /\ pc \notin LoopPcs => Blank
    /\ pc \in {"generate", "stats", "clean"} => proc = << >>

Reset(f) == meta[f] = Meta(Fresh(MutantsOf(f)))

(* Generation has reset the results of every file before the loop; in the  *)
(* loop they are those in memory.                                          *)
OnDisk ==
    /\ pc = "idle" => generated = {}
    /\ pc = "generate" => \A f \in Files : f \in generated => Reset(f)
    /\ pc \in {"stats", "clean"} => \A f \in Files : Reset(f)
    /\ SavedAtOnce

Queued(m) == \E i \in DOMAIN todo : todo[i] = m
HasProcess(m) == \E p \in DOMAIN proc : proc[p].mutant = m

(* The mutants that wait: none twice, none with a result, and none with a  *)
(* child but the one whose child is being registered.                      *)
Queue ==
    /\ \A i \in DOMAIN todo : todo[i] \in Chosen /\ code[todo[i]] = NotChecked
    /\ \A i, j \in DOMAIN todo : i # j => todo[i] # todo[j]
    /\ \A i \in DOMAIN todo, p \in DOMAIN proc :
          proc[p].mutant = todo[i] => pc = "register" /\ p = Len(proc) /\ i = 1
    /\ pc = "register" => /\ todo # << >> /\ proc # << >>
                          /\ proc[Len(proc)].mutant = todo[1]
                          /\ proc[Len(proc)].st # "gone"
    /\ pc = "drain" => todo = << >>

(* key_by_pid holds the registered children whose result is not recorded.  *)
Table ==
    /\ \A p \in DOMAIN proc : proc[p].known <=> ~(pc = "register" /\ p = Len(proc))
    /\ \A p \in DOMAIN proc :
          p \in DOMAIN keyByPid <=> proc[p].known /\ (proc[p].st # "gone" \/ p = reaped.pid)
    /\ \A p \in DOMAIN keyByPid : keyByPid[p] = proc[p].mutant
    /\ pc = "record" => /\ reaped.pid \in DOMAIN proc
                        /\ proc[reaped.pid].st = "gone"
                        /\ reaped.exit = ended[proc[reaped.pid].mutant]
    /\ pc # "record" => reaped = NoChild

(* One child for a mutant, which ends once.                                *)
Ends ==
    /\ \A p, q \in DOMAIN proc : p # q => proc[p].mutant # proc[q].mutant
    /\ \A p \in DOMAIN proc :
          /\ proc[p].st = "running" <=> ended[proc[p].mutant] = NotChecked
          /\ proc[p].st = "zombie" => proc[p].exit = ended[proc[p].mutant]
    /\ \A m \in Mutants : ~HasProcess(m) => ended[m] = NotChecked

(* A result is recorded when its child is, or at once when no test reaches *)
(* the mutant.                                                             *)
Results ==
    /\ \A p \in DOMAIN proc :
          code[proc[p].mutant] = IF proc[p].st = "gone" /\ p # reaped.pid
                                 THEN ended[proc[p].mutant] ELSE NotChecked
    /\ \A m \in Mutants : ~HasProcess(m) =>
          code[m] = IF m \in Chosen /\ ~Queued(m) THEN NoTests ELSE NotChecked

InLoop == Queue /\ Table /\ Ends /\ Results
Loop == pc \in LoopPcs => InLoop

PastLimit(p) ==
    \E m \in Chosen : FileOf[m] = FileOf[proc[p].mutant] /\ proc[p].age > WallLimit(m)

(* A child that was timed out, or that the timeout thread is about to      *)
(* signal, has run for too long.                                           *)
Explained(p) ==
    /\ p \in aim /\ proc[p].st = "running" => PastLimit(p)
    /\ proc[p].st = "zombie" /\ proc[p].exit = SIGXCPU =>
          proc[p].age >= CpuLimit(proc[p].mutant) \/ PastLimit(p)

Timed == pc \in LoopPcs => \A p \in DOMAIN proc : Explained(p)

Counted ==
    /\ ChildrenBounded
    /\ pc \in {"loop", "record", "drain"} => Cardinality(Unreaped) < MaxChildren

(* What a saved statistics file knows: every test with a duration that was *)
(* never removed is listed for the functions it reaches.                   *)
FileKnows ==
    LET s == statsFile.stats
    IN statsFile.state = "ok" =>
          /\ s.timed \subseteq suite \cup removed
          /\ \A f \in FunctionNames : (s.timed \cap Covers[f]) \ removed \subseteq s.tests[f]

Knows ==
    pc \in {"clean"} \cup LoopPcs => \A f \in FunctionNames :
        /\ stats.tests[f] \subseteq suite
        /\ (suite \cap Covers[f]) \ removed \subseteq stats.tests[f]

Outcome ==
    /\ pc # "idle" => last = "none"
    /\ AllDecided
    /\ InterruptStopsAll

Informed == FileKnows /\ Knows

IInv == Types /\ OnDisk /\ Loop /\ Timed /\ Counted /\ Informed /\ Outcome

-----------------------------------------------------------------------------
(***************************************************************************)
(* Facts about numbers, sequences and sums.                                 *)
(***************************************************************************)

(* Induction over the numbers, stated of a set.                            *)
LEMMA SetInduction ==
    ASSUME NEW S, 0 \in S, \A n \in Nat : n \in S => n + 1 \in S
    PROVE  Nat \subseteq S
<1> SUFFICES ASSUME Nat \ S # {} PROVE FALSE
  OBVIOUS
<1> DEFINE R == OpToRel(<, Nat)
<1>1. IsWellFoundedOn(R, Nat)
  BY NatLessThanWellFounded
<1>2. \A x, y \in Nat : y < x => <<y, x>> \in R
  BY DEF OpToRel
<1> HIDE DEF R
<1>3. PICK x \in Nat \ S : \A y \in Nat \ S : ~ (<<y, x>> \in R)
  <2>1. Nat \ S \subseteq Nat
    OBVIOUS
  <2> QED
    BY <1>1, <2>1, WFMin
<1>4. x # 0 /\ x - 1 \in Nat /\ x - 1 < x
  OBVIOUS
<1>5. x - 1 \in S
  BY <1>2, <1>3, <1>4
<1>6. (x - 1) + 1 \in S
  BY <1>4, <1>5
<1> QED
  BY <1>3, <1>6

(* The equation of the recursive function behind MapThenSumSet.            *)
Summing(F, D) ==
    F = [s \in D |-> IF s = {} THEN 0
                     ELSE Duration(CHOOSE t \in s : TRUE) + F[s \ {CHOOSE t \in s : TRUE}]]

Small(S, n) == {s \in SUBSET S : Cardinality(s) <= n}

(* The durations of a set of tests have a sum: the recursive function      *)
(* exists for the sets of at most n tests, for every n.                    *)
LEMMA SumExists ==
    ASSUME NEW S \in SUBSET Tests, IsFiniteSet(S)
    PROVE  \E F \in [SUBSET S -> Nat] : Summing(F, SUBSET S)
<1> DEFINE N == {n \in Nat : \E F \in [Small(S, n) -> Nat] : Summing(F, Small(S, n))}
<1>a. \A t \in Tests : Duration(t) \in Nat
  BY MutmutAssumption DEF Duration
<1>b. \A s \in SUBSET S : IsFiniteSet(s) /\ Cardinality(s) \in Nat
                          /\ (Cardinality(s) = 0 <=> s = {})
  BY FS_Subset, FS_CardinalityType, FS_EmptySet
<1>c. \A s \in SUBSET S : s # {} =>
          LET c == CHOOSE t \in s : TRUE
          IN c \in s /\ s \ {c} \in SUBSET S /\ Cardinality(s \ {c}) = Cardinality(s) - 1
  <2> SUFFICES ASSUME NEW s \in SUBSET S, s # {}
               PROVE  LET c == CHOOSE t \in s : TRUE
                      IN c \in s /\ s \ {c} \in SUBSET S /\ Cardinality(s \ {c}) = Cardinality(s) - 1
    OBVIOUS
  <2>1. (CHOOSE t \in s : TRUE) \in s
    OBVIOUS
  <2> QED
    BY <2>1, <1>b, FS_RemoveElement
<1>1. 0 \in N
  <2> DEFINE F == [s \in Small(S, 0) |-> 0]
  <2>1. \A s \in Small(S, 0) : s = {}
    BY <1>b DEF Small
  <2>2. F \in [Small(S, 0) -> Nat]
    OBVIOUS
  <2>3. Summing(F, Small(S, 0))
    BY <2>1 DEF Summing
  <2> QED
    BY <2>2, <2>3
<1>2. ASSUME NEW n \in Nat, n \in N PROVE n + 1 \in N
  <2>1. PICK G \in [Small(S, n) -> Nat] : Summing(G, Small(S, n))
    BY <1>2
  <2> DEFINE c(s) == CHOOSE t \in s : TRUE
             F == [s \in Small(S, n + 1) |-> IF s = {} THEN 0
                                             ELSE Duration(c(s)) + G[s \ {c(s)}]]
  <2>2. \A s \in Small(S, n + 1) : s # {} => c(s) \in S /\ s \ {c(s)} \in Small(S, n)
    BY <1>b, <1>c DEF Small
  <2>3. F \in [Small(S, n + 1) -> Nat]
    <3>1. \A s \in Small(S, n + 1) : s # {} => Duration(c(s)) + G[s \ {c(s)}] \in Nat
      BY <2>2, <1>a
    <3> QED
      BY <3>1
  <2>4. \A s \in Small(S, n) : F[s] = G[s]
    <3>1. \A s \in Small(S, n) : s \in Small(S, n + 1)
      BY <1>b DEF Small
    <3> QED
      BY <3>1, <2>1 DEF Summing
  <2>5. Summing(F, Small(S, n + 1))
    <3>1. \A s \in Small(S, n + 1) : s # {} => F[s \ {c(s)}] = G[s \ {c(s)}]
      BY <2>2, <2>4
    <3>2. F = [s \in Small(S, n + 1) |-> IF s = {} THEN 0
                                         ELSE Duration(c(s)) + F[s \ {c(s)}]]
      <4> DEFINE g(s) == Duration(c(s)) + G[s \ {c(s)}]
                 f(s) == Duration(c(s)) + F[s \ {c(s)}]
      <4>1. F = [s \in Small(S, n + 1) |-> IF s = {} THEN 0 ELSE g(s)]
        OBVIOUS
      <4>2. \A s \in Small(S, n + 1) : s # {} => f(s) = g(s)
        BY <3>1, Zenon
      <4> HIDE DEF F, f, g
      <4>3. F = [s \in Small(S, n + 1) |-> IF s = {} THEN 0 ELSE f(s)]
        BY <4>1, <4>2
      <4> QED
        BY <4>3, Zenon DEF f
    <3> HIDE DEF F
    <3> QED
      BY <3>2, Zenon DEF Summing
  <2> HIDE DEF F
  <2> QED
    BY <2>3, <2>5
<1>3. Cardinality(S) \in N
  BY <1>1, <1>2, <1>b, SetInduction
<1>4. Small(S, Cardinality(S)) = SUBSET S
  BY <1>b, FS_Subset DEF Small
<1> QED
  BY <1>3, <1>4

LEMMA SumType ==
    ASSUME NEW S \in SUBSET Tests
    PROVE  MapThenSumSet(Duration, S) \in Nat
<1>a. IsFiniteSet(S) /\ \A t \in Tests : Duration(t) \in Nat
  BY MutmutAssumption, FS_Subset DEF Duration
<1> DEFINE I == CHOOSE F : Summing(F, SUBSET S)
<1>1. Summing(I, SUBSET S)
  BY SumExists, <1>a
<1>2. MapThenSumSet(Duration, S) = I[S]
  BY DEF MapThenSumSet, MapThenFoldSet, Summing
<1> HIDE DEF I
<1> DEFINE N == {n \in Nat : \A s \in Small(S, n) : I[s] \in Nat}
<1>b. \A s \in SUBSET S : IsFiniteSet(s) /\ Cardinality(s) \in Nat
                          /\ (Cardinality(s) = 0 <=> s = {})
  BY <1>a, FS_Subset, FS_CardinalityType, FS_EmptySet
<1>c. I[{}] = 0
  BY <1>1 DEF Summing
<1>3. 0 \in N
  BY <1>b, <1>c DEF Small
<1>4. ASSUME NEW n \in Nat, n \in N PROVE n + 1 \in N
  <2> SUFFICES ASSUME NEW s \in Small(S, n + 1) PROVE I[s] \in Nat
    OBVIOUS
  <2> SUFFICES ASSUME s # {} PROVE I[s] \in Nat
    BY <1>c
  <2> DEFINE c == CHOOSE t \in s : TRUE
  <2>1. c \in s /\ s \in SUBSET S
    BY DEF Small
  <2>2. Cardinality(s \ {c}) = Cardinality(s) - 1
    BY <2>1, <1>b, FS_RemoveElement
  <2>3. I[s \ {c}] \in Nat /\ Duration(c) \in Nat
    BY <1>4, <2>1, <2>2, <1>a, <1>b DEF Small
  <2>4. I[s] = Duration(c) + I[s \ {c}]
    BY <1>1, <2>1 DEF Summing
  <2> QED
    BY <2>3, <2>4
<1>5. Cardinality(S) \in N
  BY <1>3, <1>4, <1>b, SetInduction
<1> QED
  BY <1>2, <1>5, <1>b DEF Small

LEMMA Limits ==
    ASSUME stats \in Statistics, NEW m \in Mutants
    PROVE  EstimatedTime(m) \in Nat /\ WallLimit(m) \in Nat /\ CpuLimit(m) \in Nat
<1>1. TestsFor(m) \in SUBSET Tests
  BY DEF TestsFor, Statistics, FunctionNames
<1>2. EstimatedTime(m) \in Nat
  BY <1>1, SumType DEF EstimatedTime
<1> QED
  BY <1>2 DEF WallLimit, CpuLimit

(* sorted() returns every mutant it was given, and each of them once.      *)
LEMMA Arrangement ==
    ASSUME stats \in Statistics, NEW ms \in SUBSET Mutants, NEW s \in SortedByEstimate(ms)
    PROVE  /\ s \in Seq(ms) /\ \A m \in ms : \E i \in DOMAIN s : s[i] = m
           /\ \A i, j \in DOMAIN s : i # j => s[i] # s[j]
<1> DEFINE n == Cardinality(ms)
<1>1. IsFiniteSet(ms) /\ n \in Nat
  BY MutmutAssumption, FS_Subset, FS_CardinalityType
<1>2. s \in [1..n -> ms] /\ \A i, j \in 1..n : i < j => Before(s[i], s[j])
  BY DEF SortedByEstimate
<1>3. \A m \in ms : ~Before(m, m)
  <2> SUFFICES ASSUME NEW m \in ms PROVE ~Before(m, m)
    OBVIOUS
  <2>1. m \in Nat /\ EstimatedTime(m) \in Nat
    BY Limits, MutmutAssumption, FS_CardinalityType
  <2> QED
    BY <2>1 DEF Before
<1> HIDE DEF n
<1>4. \A i, j \in 1..n : i # j => s[i] # s[j]
  BY <1>1, <1>2, <1>3
<1>5. s \in Injection(1..n, ms)
  BY <1>2, <1>4 DEF Injection, IsInjective
<1>6. IsFiniteSet(1..n) /\ Cardinality(1..n) = n
  BY <1>1, FS_Interval
<1>7. s \in Surjection(1..n, ms)
  BY <1>1, <1>5, <1>6, FS_Injection DEF n, Bijection
<1> QED
  BY <1>1, <1>2, <1>4, <1>7 DEF Surjection

LEMMA SameLength ==
    ASSUME NEW T, NEW s \in Seq(T), NEW f, DOMAIN f = DOMAIN s,
           \A i \in DOMAIN s : f[i] \in T, f = [i \in DOMAIN f |-> f[i]]
    PROVE  f \in Seq(T) /\ Len(f) = Len(s)
<1>1. DOMAIN s = 1..Len(s) /\ Len(s) \in Nat
  OBVIOUS
<1>2. f \in [1..Len(s) -> T]
  BY <1>1
<1> QED
  BY <1>1, <1>2, SeqDef

(* None that waits has a result, so that the loop takes the first.         *)
LEMMA TakesFirst ==
    ASSUME todo \in Seq(Mutants), \A i \in DOMAIN todo : code[todo[i]] = NotChecked
    PROVE  /\ Pending = DOMAIN todo
           /\ Pending # {} => /\ Len(todo) \in Nat \ {0} /\ Current = todo[1]
                               /\ Rest \in Seq(Mutants) /\ Len(Rest) = Len(todo) - 1
                               /\ \A i \in 1..Len(Rest) : Rest[i] = todo[i + 1]
<1>1. Pending = DOMAIN todo
  BY DEF Pending, ToTest
<1> SUFFICES ASSUME Pending # {}
             PROVE  /\ Len(todo) \in Nat \ {0} /\ Current = todo[1]
                    /\ Rest \in Seq(Mutants) /\ Len(Rest) = Len(todo) - 1
                    /\ \A i \in 1..Len(Rest) : Rest[i] = todo[i + 1]
  BY <1>1
<1>2. Len(todo) \in Nat \ {0} /\ Pending = 1..Len(todo)
  BY <1>1
<1>3. Min(Pending) = 1
  <2>1. 1 \in Pending /\ \A y \in Pending : 1 <= y
    BY <1>2
  <2>2. \A x \in Pending : (\A y \in Pending : x <= y) => x = 1
    BY <1>2, <2>1
  <2> QED
    BY <2>1, <2>2 DEF Min
<1>4. Rest = SubSeq(todo, 2, Len(todo))
  BY <1>3 DEF Rest
<1>5. \A i \in 2..Len(todo) : todo[i] \in Mutants
  BY <1>2
<1>6. /\ Rest \in Seq(Mutants)
      /\ Len(Rest) = IF 2 <= Len(todo) THEN Len(todo) - 2 + 1 ELSE 0
      /\ \A i \in 1..Len(todo) - 2 + 1 : Rest[i] = todo[2 + i - 1]
  BY <1>2, <1>4, <1>5, SubSeqProperties
<1>7. Len(Rest) = Len(todo) - 1
  <2> DEFINE n == Len(todo)
  <2>1. n \in Nat \ {0} /\ Len(Rest) = IF 2 <= n THEN n - 2 + 1 ELSE 0
    BY <1>2, <1>6
  <2> HIDE DEF n
  <2>2. Len(Rest) = n - 1
    BY <2>1
  <2> QED
    BY <2>2 DEF n
<1>8. \A i \in 1..Len(Rest) : Rest[i] = todo[i + 1]
  <2> SUFFICES ASSUME NEW i \in 1..Len(Rest) PROVE Rest[i] = todo[i + 1]
    OBVIOUS
  <2>1. i \in 1..Len(todo) - 2 + 1 /\ 2 + i - 1 = i + 1
    BY <1>2, <1>7
  <2> QED
    BY <1>6, <2>1
<1> QED
  BY <1>2, <1>3, <1>6, <1>7, <1>8 DEF Current

-----------------------------------------------------------------------------
(***************************************************************************)
(* What the steps that touch a child do to it.                              *)
(***************************************************************************)

SameChildren ==
    /\ proc' \in Seq(Process) /\ Len(proc') = Len(proc) /\ DOMAIN proc' = DOMAIN proc
    /\ \A q \in DOMAIN proc : proc'[q].mutant = proc[q].mutant

SameButOne(p) ==
    SameChildren /\ p \in DOMAIN proc /\ \A q \in DOMAIN proc \ {p} : proc'[q] = proc[q]

LEMMA OneChild ==
    ASSUME proc \in Seq(Process), NEW p \in DOMAIN proc, NEW r \in Process,
           r.mutant = proc[p].mutant, proc' = [proc EXCEPT ![p] = r]
    PROVE  SameButOne(p) /\ proc'[p] = r
<1>1. DOMAIN proc = 1..Len(proc)
  OBVIOUS
<1>2. /\ proc' \in Seq(Process) /\ Len(proc') = Len(proc)
      /\ \A q \in DOMAIN proc : proc'[q] = IF q = p THEN r ELSE proc[q]
  BY <1>1, ExceptSeq
<1> QED
  BY <1>1, <1>2 DEF SameButOne, SameChildren

(* A child with another status, exit code and age.                         *)
Changed(x, s, c, a) == [x EXCEPT !.st = s, !.exit = c, !.age = a]
Ended(x, c) == [x EXCEPT !.st = "zombie", !.exit = c]
Known(x, k) == [x EXCEPT !.known = k]
Aged(x, a) == [x EXCEPT !.age = a]

LEMMA ChangedType ==
    ASSUME NEW x \in Process, NEW s \in {"running", "zombie", "gone"}, NEW c \in Int,
           NEW a \in Nat
    PROVE  /\ Changed(x, s, c, a) \in Process
           /\ Changed(x, s, c, a).mutant = x.mutant /\ Changed(x, s, c, a).st = s
           /\ Changed(x, s, c, a).known = x.known
  BY DEF Process, Changed

LEMMA EndedType ==
    ASSUME NEW x \in Process, NEW c \in Int
    PROVE  /\ Ended(x, c) \in Process /\ Ended(x, c).mutant = x.mutant
           /\ Ended(x, c).st = "zombie" /\ Ended(x, c).exit = c
           /\ Ended(x, c).age = x.age /\ Ended(x, c).known = x.known
  BY DEF Process, Ended

LEMMA KnownType ==
    ASSUME NEW x \in Process, NEW k \in BOOLEAN
    PROVE  /\ Known(x, k) \in Process /\ Known(x, k).mutant = x.mutant
           /\ Known(x, k).st = x.st /\ Known(x, k).exit = x.exit
           /\ Known(x, k).age = x.age /\ Known(x, k).known = k
  BY DEF Process, Known

LEMMA AgedType ==
    ASSUME NEW x \in Process, NEW a \in Nat
    PROVE  /\ Aged(x, a) \in Process /\ Aged(x, a).mutant = x.mutant
           /\ Aged(x, a).st = x.st /\ Aged(x, a).exit = x.exit
           /\ Aged(x, a).age = a /\ Aged(x, a).known = x.known
  BY DEF Process, Aged

LEMMA EndedChild ==
    ASSUME proc \in Seq(Process), NEW p \in DOMAIN proc, NEW c \in Int,
           proc' = [proc EXCEPT ![p].st = "zombie", ![p].exit = c]
    PROVE  /\ SameButOne(p) /\ proc'[p].st = "zombie" /\ proc'[p].exit = c
           /\ proc'[p].known = proc[p].known /\ proc'[p].age = proc[p].age
<1>1. proc[p] \in Process
  OBVIOUS
<1>2. proc' = [proc EXCEPT ![p] = Ended(proc[p], c)]
  BY DEF Ended
<1> DEFINE r == Ended(proc[p], c)
<1>3. /\ r \in Process /\ r.mutant = proc[p].mutant /\ r.st = "zombie" /\ r.exit = c
      /\ r.age = proc[p].age /\ r.known = proc[p].known
  BY <1>1, EndedType
<1> HIDE DEF r
<1>4. SameButOne(p) /\ proc'[p] = r
  BY <1>2, <1>3, OneChild DEF r
<1> QED
  BY <1>3, <1>4

LEMMA ForkedChild ==
    ASSUME proc \in Seq(Process), todo \in Seq(Mutants), Queue, Fork
    PROVE  LET n == Len(proc) + 1
           IN /\ todo # << >>
              /\ proc' \in Seq(Process) /\ Len(proc') = n /\ DOMAIN proc' = DOMAIN proc \cup {n}
              /\ n \notin DOMAIN proc /\ \A q \in DOMAIN proc : proc'[q] = proc[q]
              /\ proc'[n] = [mutant |-> todo[1], st |-> "running", exit |-> 0, age |-> 0,
                             known |-> FALSE]
<1>1. Current = todo[1] /\ Len(todo) \in Nat \ {0}
  BY TakesFirst DEF Fork, Queue
<1> DEFINE r == [mutant |-> todo[1], st |-> "running", exit |-> 0, age |-> 0, known |-> FALSE]
<1>2. r \in Process
  BY <1>1 DEF Process
<1>3. proc' = Append(proc, r)
  BY <1>1 DEF Fork
<1> HIDE DEF r
<1>4. /\ proc' \in Seq(Process) /\ Len(proc') = Len(proc) + 1
      /\ \A q \in 1..Len(proc) : proc'[q] = proc[q]
      /\ proc'[Len(proc) + 1] = r
  BY <1>2, <1>3
<1>5. DOMAIN proc = 1..Len(proc) /\ DOMAIN proc' = 1..Len(proc') /\ Len(proc) \in Nat
  BY <1>4
<1> QED
  BY <1>1, <1>4, <1>5 DEF r

LEMMA RegisteredChild ==
    ASSUME proc \in Seq(Process), Queue, RegisterPid
    PROVE  LET n == Len(proc)
           IN /\ SameButOne(n) /\ proc'[n].known = TRUE /\ proc'[n].st = proc[n].st
              /\ proc'[n].exit = proc[n].exit /\ proc'[n].age = proc[n].age
<1> DEFINE n == Len(proc)
<1>1. n \in DOMAIN proc
  BY DEF RegisterPid, Queue
<1>2. proc' = [proc EXCEPT ![n] = Known(proc[n], TRUE)]
  BY DEF RegisterPid, Known
<1>3. proc[n] \in Process
  BY <1>1
<1> HIDE DEF n
<1>4. SameButOne(n) /\ proc'[n] = Known(proc[n], TRUE)
  BY <1>1, <1>2, <1>3, KnownType, OneChild
<1>5. /\ SameButOne(n) /\ proc'[n].known = TRUE /\ proc'[n].st = proc[n].st
      /\ proc'[n].exit = proc[n].exit /\ proc'[n].age = proc[n].age
  BY <1>3, <1>4, KnownType
<1> QED
  BY <1>5 DEF n

LEMMA ReapedChild ==
    ASSUME proc \in Seq(Process), NEW p \in DOMAIN proc, Wait(p)
    PROVE  SameButOne(p) /\ proc'[p].st = "gone" /\ proc'[p].known = proc[p].known
<1>1. proc[p] \in Process
  OBVIOUS
<1>2. proc' = [proc EXCEPT ![p] = Changed(proc[p], "gone", 0, 0)]
  BY DEF Wait, Changed
<1> DEFINE r == Changed(proc[p], "gone", 0, 0)
<1>3. /\ r \in Process /\ r.mutant = proc[p].mutant /\ r.st = "gone"
      /\ r.known = proc[p].known
  BY <1>1, ChangedType
<1> HIDE DEF r
<1>4. SameButOne(p) /\ proc'[p] = r
  BY <1>2, <1>3, OneChild DEF r
<1> QED
  BY <1>3, <1>4

LEMMA TerminatedChildren ==
    ASSUME proc \in Seq(Process), NEW ps, proc' = Terminated(ps)
    PROVE  /\ SameChildren
           /\ \A q \in DOMAIN proc :
                 /\ proc'[q].known = proc[q].known
                 /\ proc'[q].st = IF q \in ps /\ proc[q].st = "running"
                                  THEN "zombie" ELSE proc[q].st
<1>1. \A q \in DOMAIN proc : proc[q] \in Process
  OBVIOUS
<1>2. DOMAIN proc' = DOMAIN proc /\ proc' = [q \in DOMAIN proc' |-> proc'[q]]
  BY DEF Terminated
<1>3. \A q \in DOMAIN proc :
          proc'[q] = IF q \in ps /\ proc[q].st = "running"
                     THEN Ended(proc[q], SIGTERM) ELSE proc[q]
  BY DEF Terminated, Ended
<1>4. \A q \in DOMAIN proc :
          /\ proc'[q] \in Process /\ proc'[q].mutant = proc[q].mutant
          /\ proc'[q].known = proc[q].known
          /\ proc'[q].st = IF q \in ps /\ proc[q].st = "running" THEN "zombie" ELSE proc[q].st
  <2> TAKE q \in DOMAIN proc
  <2>1. proc[q] \in Process /\ SIGTERM \in Int
    BY <1>1 DEF SIGTERM
  <2>2. CASE q \in ps /\ proc[q].st = "running"
    <3>1. proc'[q] = Ended(proc[q], SIGTERM)
      BY <1>3, <2>2
    <3> QED
      BY <2>1, <2>2, <3>1, EndedType
  <2>3. CASE ~(q \in ps /\ proc[q].st = "running")
    <3>1. proc'[q] = proc[q]
      BY <1>3, <2>3
    <3> QED
      BY <2>1, <2>3, <3>1
  <2> QED
    BY <2>2, <2>3
<1>5. proc' \in Seq(Process) /\ Len(proc') = Len(proc)
  BY <1>2, <1>4, SameLength
<1> QED
  BY <1>2, <1>4, <1>5 DEF SameChildren

LEMMA AgedChildren ==
    ASSUME proc \in Seq(Process), Tick
    PROVE  /\ SameChildren
           /\ \A q \in DOMAIN proc :
                 /\ proc'[q].known = proc[q].known /\ proc'[q].st = proc[q].st
                 /\ proc'[q].exit = proc[q].exit
                 /\ proc[q].age \in Nat /\ proc'[q].age \in Nat /\ proc'[q].age >= proc[q].age
<1>1. \A q \in DOMAIN proc : proc[q] \in Process
  OBVIOUS
<1>2. DOMAIN proc' = DOMAIN proc /\ proc' = [q \in DOMAIN proc' |-> proc'[q]]
  BY DEF Tick
<1>3. \A q \in DOMAIN proc :
          proc'[q] = Aged(proc[q], proc[q].age + 1) \/ proc'[q] = proc[q]
  BY DEF Tick, Aged
<1>4. \A q \in DOMAIN proc :
          /\ proc'[q] \in Process /\ proc'[q].mutant = proc[q].mutant
          /\ proc'[q].known = proc[q].known /\ proc'[q].st = proc[q].st
          /\ proc'[q].exit = proc[q].exit
          /\ proc[q].age \in Nat /\ proc'[q].age \in Nat /\ proc'[q].age >= proc[q].age
  <2> SUFFICES ASSUME NEW q \in DOMAIN proc
               PROVE  /\ proc'[q] \in Process /\ proc'[q].mutant = proc[q].mutant
                      /\ proc'[q].known = proc[q].known /\ proc'[q].st = proc[q].st
                      /\ proc'[q].exit = proc[q].exit
                      /\ proc[q].age \in Nat /\ proc'[q].age \in Nat
                      /\ proc'[q].age >= proc[q].age
    OBVIOUS
  <2>1. proc[q] \in Process /\ proc[q].age \in Nat /\ proc[q].age + 1 \in Nat
    BY <1>1 DEF Process
  <2> DEFINE r == Aged(proc[q], proc[q].age + 1)
  <2>2. /\ r \in Process /\ r.mutant = proc[q].mutant /\ r.st = proc[q].st
        /\ r.exit = proc[q].exit /\ r.age = proc[q].age + 1 /\ r.known = proc[q].known
    BY <2>1, AgedType
  <2>3. proc'[q] = r \/ proc'[q] = proc[q]
    BY <1>3
  <2> HIDE DEF r
  <2> QED
    BY <2>1, <2>2, <2>3
<1>5. proc' \in Seq(Process) /\ Len(proc') = Len(proc)
  BY <1>2, <1>4, SameLength
<1> QED
  BY <1>2, <1>4, <1>5 DEF SameChildren

-----------------------------------------------------------------------------
(***************************************************************************)
(* Every state has the types of the code.                                   *)
(***************************************************************************)

LEMMA ConstantTypes ==
    /\ Fresh(Mutants) \in [Mutants -> Int] /\ NoStats \in Statistics
    /\ NoChild \in [pid : Nat, exit : Int]
    /\ \A f \in Files : MutantsOf(f) \subseteq Mutants
    /\ \A m \in Mutants : FileOf[m] \in Files /\ m \in MutantsOf(FileOf[m])
  BY DEF Fresh, NotChecked, NoStats, Statistics, NoChild, MutantsOf, Files

(* The results that are loaded before the loop: none.                      *)
LEMMA NothingLoaded ==
    ASSUME OnDisk, pc = "clean" PROVE LoadedCodes = Fresh(Mutants)
<1>1. ASSUME NEW m \in Mutants PROVE meta[FileOf[m]].code[m] = NotChecked
  <2>1. meta[FileOf[m]] = Meta(Fresh(MutantsOf(FileOf[m]))) /\ m \in MutantsOf(FileOf[m])
    BY ConstantTypes DEF OnDisk, Reset
  <2>2. meta[FileOf[m]].code = Fresh(MutantsOf(FileOf[m]))
    BY <2>1 DEF Meta
  <2> QED
    BY <2>1, <2>2 DEF Fresh
<1> QED
  BY <1>1 DEF LoadedCodes, Fresh

LEMMA EndTypes ==
    ASSUME Types, NEW how, End(how), suite' = suite, removed' = removed,
           proc' \in Seq(Process), DOMAIN meta' = Files, \A f \in Files : MetaOK(f)',
           statsFile' \in [state : {"absent", "torn", "ok"}, stats : Statistics]
    PROVE  Types'
<1>1. TypeOK'
  BY ConstantTypes DEF TypeOK, Types, End, LoopPcs, NoChild
<1>2. Blank'
  BY DEF End, Blank
<1> QED
  BY <1>1, <1>2, ConstantTypes DEF Types, End, LoopPcs

(* The same for the steps that leave the disk and the children alone.      *)
LEMMA QuietEndTypes ==
    ASSUME Types, NEW how, End(how), UNCHANGED <<disk, proc>>
    PROVE  Types'
<1>1. \A f \in Files : MetaOK(f)'
  BY DEF Types, TypeOK, MetaOK, disk
<1> QED
  BY <1>1, EndTypes DEF Types, TypeOK, disk

QuietEnd ==
    \/ \E f \in Files : InvalidSyntax(f)
    \/ StatsFail \/ CleanTestsFail \/ PrintStatsRaises \/ WaitReturnsStray \/ Finish

LEMMA QuietEndIsEnd ==
    QuietEnd => (\E how : End(how)) /\ UNCHANGED <<disk, proc>> /\ pc # "idle"
  BY DEF QuietEnd, InvalidSyntax, StatsFail, CleanTestsFail, PrintStatsRaises,
         WaitReturnsStray, Finish

LEMMA RunStatsType ==
    ASSUME NEW old \in Statistics, NEW ts \in SUBSET Tests
    PROVE  RunStats(old, ts) \in Statistics
  BY DEF RunStats, Statistics

LEMMA ClearedType ==
    ASSUME NEW old \in Statistics, suite \subseteq Tests
    PROVE  /\ ClearOutObsolete(old) \in Statistics
           /\ ClearOutObsolete(old).timed = old.timed
           /\ \A f \in FunctionNames : ClearOutObsolete(old).tests[f] = old.tests[f] \cap suite
  BY DEF ClearOutObsolete, Statistics

LEMMA SavedMeta ==
    ASSUME DOMAIN meta = Files, \A f \in Files : MetaOK(f), NEW g, NEW codes,
           meta' = Saved(g, codes)
    PROVE  DOMAIN meta' = Files /\ \A f \in Files : MetaOK(f)'
<1>1. /\ DOMAIN meta' = DOMAIN meta
      /\ \A f \in DOMAIN meta : meta'[f] = IF f = g THEN Meta([m \in MutantsOf(g) |-> codes[m]])
                                          ELSE meta[f]
  BY DEF Saved
<1> DEFINE new == [m \in MutantsOf(g) |-> codes[m]]
<1>2. Meta(new).torn \in BOOLEAN /\ DOMAIN Meta(new).code \subseteq MutantsOf(g)
  BY DEF Meta
<1>3. \A f \in Files : meta'[f] = IF f = g THEN Meta(new) ELSE meta[f]
  BY <1>1
<1> HIDE DEF new
<1> QED
  BY <1>1, <1>2, <1>3 DEF MetaOK

LEMMA TypesStep == Types /\ OnDisk /\ Loop /\ [Next]_vars => Types'
<1> SUFFICES ASSUME Types, OnDisk, Loop, [Next]_vars PROVE Types'
  OBVIOUS
<1>a. \A f \in Files : MetaOK(f)
  BY DEF Types, TypeOK
<1>b. UNCHANGED meta => \A f \in Files : MetaOK(f)'
  BY <1>a DEF MetaOK
<1>q. pc \in LoopPcs => Queue /\ Table /\ Ends /\ Results
  BY DEF Loop, InLoop
<1>1. ASSUME NEW given \in BOOLEAN, NEW match \in SUBSET Mutants, Start(given, match)
      PROVE Types'
  BY <1>1, <1>b DEF Start, Types, TypeOK, Blank, disk, memory, LoopPcs, NoChild
<1>2. ASSUME NEW f \in Files, CreateMutantsForFile(f) PROVE Types'
  <2>1. DOMAIN meta' = Files /\ \A g \in Files : MetaOK(g)'
    BY <1>2, <1>a DEF CreateMutantsForFile, Types, MetaOK, Meta, Fresh
  <2>2. pc = "generate" /\ pc' \in {"generate", "stats"}
    BY <1>2 DEF CreateMutantsForFile
  <2> QED
    BY <1>2, <2>1, <2>2 DEF CreateMutantsForFile, Types, TypeOK, Blank, LoopPcs
<1>3. CASE QuietEnd
  BY <1>3, QuietEndIsEnd, QuietEndTypes
<1>4. CASE Interrupt
  <2>1. PICK ps, how : proc' = Terminated(ps) /\ End(how) /\ UNCHANGED disk
    BY <1>4 DEF Interrupt
  <2>2. proc' \in Seq(Process)
    BY <2>1, TerminatedChildren DEF Types, SameChildren
  <2> QED
    BY <2>1, <2>2, <1>b, EndTypes DEF Types, TypeOK, disk
<1>5. CASE Killed
  <2>1. DOMAIN meta' = Files /\ \A f \in Files : MetaOK(f)'
    <3>1. CASE UNCHANGED meta
      BY <3>1, <1>b DEF Types
    <3>2. CASE meta' = [meta EXCEPT ![FileOf[ReapedMutant]] = Torn]
      <4>1. Torn.torn \in BOOLEAN /\ DOMAIN Torn.code = {}
        BY DEF Torn
      <4> QED
        BY <3>2, <4>1, <1>a DEF Types, MetaOK
    <3> QED
      BY <1>5, <3>1, <3>2 DEF Killed
  <2>2. statsFile' \in [state : {"absent", "torn", "ok"}, stats : Statistics]
    BY <1>5, ConstantTypes DEF Killed, Types
  <2> QED
    BY <1>5, <2>1, <2>2, EndTypes DEF Killed, Types
<1>6. CASE CollectStats
  <2>1. stats' \in Statistics /\ statsFile' = [state |-> "ok", stats |-> stats']
    BY <1>6, ConstantTypes, RunStatsType DEF CollectStats, Types, TypeOK
  <2> QED
    BY <1>6, <1>b, <2>1 DEF CollectStats, Types, TypeOK, Blank, LoopPcs
<1>7. CASE LoadStats
  <2> DEFINE kept == ClearOutObsolete(statsFile.stats)
             new == NewTests(kept)
  <2>1. kept \in Statistics /\ new \in SUBSET Tests
    BY ClearedType DEF Types, TypeOK, NewTests
  <2>2. RunStats(kept, new) \in Statistics
    BY <2>1, RunStatsType
  <2>3. \/ stats' = kept /\ UNCHANGED statsFile
        \/ stats' = RunStats(kept, new) /\ statsFile' = [state |-> "ok", stats |-> stats']
    BY <1>7 DEF LoadStats
  <2> HIDE DEF kept, new
  <2>4. stats' \in Statistics
        /\ statsFile' \in [state : {"absent", "torn", "ok"}, stats : Statistics]
    BY <2>1, <2>2, <2>3 DEF Types
  <2> QED
    BY <1>7, <1>b, <2>4 DEF LoadStats, Types, TypeOK, Blank, LoopPcs
<1>8. CASE CleanTests
  <2>1. code' \in [Mutants -> Int] /\ DOMAIN code' = Mutants
    BY <1>8, NothingLoaded, ConstantTypes DEF CleanTests
  <2>2. todo' \in Seq(Chosen) /\ Chosen \subseteq Mutants
    BY <1>8, Arrangement DEF CleanTests, Types, Chosen
  <2>3. todo' \in Seq(Mutants)
    BY <2>2
  <2> QED
    BY <1>8, <1>b, <2>1, <2>3 DEF CleanTests, Types, TypeOK, disk, LoopPcs
<1>9. CASE NoTestsForMutant
  <2>1. code' \in [Mutants -> Int]
    <3>1. NoTests \in Int
      BY DEF NoTests
    <3> QED
      BY <1>9, <3>1 DEF NoTestsForMutant, Types
  <2>2. todo' \in Seq(Mutants)
    BY <1>9, <1>q, TakesFirst DEF NoTestsForMutant, Types, Queue, LoopPcs
  <2>3. DOMAIN meta' = Files /\ \A f \in Files : MetaOK(f)'
    BY <1>9, <1>a, SavedMeta DEF NoTestsForMutant, Types
  <2> QED
    BY <1>9, <2>1, <2>2, <2>3 DEF NoTestsForMutant, Types, TypeOK, LoopPcs
<1>10. CASE Fork
  <2>1. proc' \in Seq(Process) /\ DOMAIN proc \subseteq DOMAIN proc'
    BY <1>10, <1>q, ForkedChild DEF Fork, Types, LoopPcs
  <2> QED
    BY <1>10, <1>b, <2>1 DEF Fork, Types, TypeOK, disk, LoopPcs
<1>11. CASE RegisterPid
  <2>1. proc' \in Seq(Process) /\ DOMAIN proc' = DOMAIN proc /\ Len(proc) \in DOMAIN proc
    BY <1>11, <1>q, RegisteredChild DEF RegisterPid, Types, LoopPcs, SameButOne, SameChildren
  <2>2. todo' \in Seq(Mutants)
    <3>1. Pending # {}
      BY <1>11, <1>q, TakesFirst DEF RegisterPid, Types, Queue, LoopPcs
    <3> QED
      BY <1>11, <1>q, <3>1, TakesFirst DEF RegisterPid, Types, Queue, LoopPcs
  <2>3. DOMAIN keyByPid' \subseteq DOMAIN proc'
    BY <1>11, <2>1 DEF RegisterPid, Types, TypeOK
  <2> QED
    BY <1>11, <1>b, <2>1, <2>2, <2>3 DEF RegisterPid, Types, TypeOK, disk, LoopPcs
<1>12. CASE LoopEnds
  BY <1>12, <1>b DEF LoopEnds, Types, TypeOK, disk, LoopPcs
<1>13. ASSUME NEW p \in DOMAIN proc, Wait(p) PROVE Types'
  <2>1. proc' \in Seq(Process) /\ DOMAIN proc' = DOMAIN proc
    BY <1>13, ReapedChild DEF Types, SameButOne, SameChildren
  <2>2. proc[p].exit \in Int /\ p \in Nat
    <3>1. proc[p] \in Process /\ p \in Nat
      BY DEF Types
    <3> QED
      BY <3>1 DEF Process
  <2> QED
    BY <1>13, <1>b, <2>1, <2>2 DEF Wait, Types, TypeOK, disk, LoopPcs
<1>14. CASE RegisterResult
  <2>1. code' \in [Mutants -> Int]
    BY <1>14 DEF RegisterResult, Types
  <2>2. DOMAIN meta' = Files /\ \A f \in Files : MetaOK(f)'
    BY <1>14, <1>a, SavedMeta DEF RegisterResult, Types
  <2>3. reaped' = NoChild
    BY <1>14 DEF RegisterResult
  <2>4. DOMAIN keyByPid' \subseteq DOMAIN proc'
    BY <1>14 DEF RegisterResult, Types, TypeOK
  <2> QED
    BY <1>14, <2>1, <2>2, <2>3, <2>4, ConstantTypes
    DEF RegisterResult, Types, TypeOK, LoopPcs, NoChild
<1>15. ASSUME NEW m \in Mutants, TimeoutLook(m) PROVE Types'
  <2>1. aim' \subseteq DOMAIN proc'
    BY <1>15 DEF TimeoutLook, StartTimes, Types, TypeOK
  <2> QED
    BY <1>15, <1>b, <2>1 DEF TimeoutLook, Types, TypeOK, disk, mainVars, LoopPcs
<1>16. ASSUME NEW p \in aim, TimeoutKill(p) PROVE Types'
  <2>1. p \in DOMAIN proc /\ SIGXCPU \in Int
    BY DEF Types, TypeOK, SIGXCPU
  <2>2. proc' \in Seq(Process) /\ DOMAIN proc' = DOMAIN proc
    BY <1>16, <2>1, EndedChild DEF TimeoutKill, Types, SameButOne, SameChildren
  <2>3. ended' \in [Mutants -> Int]
    BY <1>16, <2>1 DEF TimeoutKill, Types
  <2> QED
    BY <1>16, <1>b, <2>2, <2>3 DEF TimeoutKill, Types, TypeOK, disk, LoopPcs
<1>17. ASSUME NEW p \in DOMAIN proc, NEW c \in ExitCodes, Exit(p, c) PROVE Types'
  <2>1. c \in Int
    BY ExitCodesAssumption
  <2>2. proc' \in Seq(Process) /\ DOMAIN proc' = DOMAIN proc
    BY <1>17, <2>1, EndedChild DEF Exit, Types, SameButOne, SameChildren
  <2>3. ended' \in [Mutants -> Int]
    BY <1>17, <2>1 DEF Exit, Types
  <2> QED
    BY <1>17, <1>b, <2>2, <2>3 DEF Exit, Types, TypeOK, disk, LoopPcs
<1>18. CASE Tick
  <2>1. proc' \in Seq(Process) /\ DOMAIN proc' = DOMAIN proc
    BY <1>18, AgedChildren DEF Types, SameChildren
  <2> QED
    BY <1>18, <1>b, <2>1 DEF Tick, Types, TypeOK, disk, mainVars, LoopPcs
<1>19. ASSUME NEW s \in SUBSET Tests, EditTests(s) PROVE Types'
  BY <1>19, <1>b DEF EditTests, Types, TypeOK, Blank, mainVars, LoopPcs
<1>20. CASE UNCHANGED vars
  BY <1>20, <1>b DEF vars, Types, TypeOK, Blank
<1> QED
  BY <1>1, <1>2, <1>3, <1>4, <1>5, <1>6, <1>7, <1>8, <1>9, <1>10, <1>11, <1>12, <1>13, <1>14,
     <1>15, <1>16, <1>17, <1>18, <1>19, <1>20, MutmutAssumption
  DEF Next, Main, TimeoutThread, Environment, QuietEnd, Done

-----------------------------------------------------------------------------
(***************************************************************************)
(* Results are on disk as soon as they are known.                           *)
(***************************************************************************)

\* the steps of the loop that record no result, and end nothing
Recordless ==
    \/ Fork \/ RegisterPid \/ LoopEnds \/ \E p \in DOMAIN proc : Wait(p)
    \/ \E m \in Mutants : TimeoutLook(m)
    \/ \E p \in aim : TimeoutKill(p)
    \/ \E p \in DOMAIN proc, c \in ExitCodes : Exit(p, c)
    \/ Tick

LEMMA RecordlessKeeps ==
    Recordless => /\ UNCHANGED <<meta, code, names, stats, suite, removed, statsFile, last>>
                  /\ pc \in LoopPcs /\ pc' \in LoopPcs
  BY DEF Recordless, Fork, RegisterPid, LoopEnds, Wait, TimeoutLook, TimeoutKill, Exit, Tick,
         mainVars, disk, LoopPcs

\* the kinds of steps
Ending == \E how : End(how)

LEMMA Kinds ==
    [Next]_vars =>
        \/ \E given \in BOOLEAN, match \in SUBSET Mutants : Start(given, match)
        \/ \E f \in Files : CreateMutantsForFile(f)
        \/ QuietEnd \/ Interrupt \/ Killed
        \/ CollectStats \/ LoadStats \/ CleanTests \/ NoTestsForMutant \/ RegisterResult
        \/ Recordless
        \/ \E s \in SUBSET Tests : EditTests(s)
        \/ UNCHANGED vars
  BY MutmutAssumption
  DEF Next, Main, TimeoutThread, Environment, QuietEnd, Recordless, Done

LEMMA OnDiskSaves ==
    ASSUME Types, SavedAtOnce, pc \in LoopPcs, NEW x, NEW c,
           code' = [code EXCEPT ![x] = c], meta' = Saved(FileOf[x], code')
    PROVE  SavedAtOnce'
<1> SUFFICES ASSUME NEW m \in Mutants
             PROVE  meta'[FileOf[m]] = Meta([n \in MutantsOf(FileOf[m]) |-> code'[n]])
  BY DEF SavedAtOnce
<1> DEFINE f == FileOf[m]
<1>1. f \in DOMAIN meta
  BY ConstantTypes DEF Types
<1>2. CASE f = FileOf[x]
  BY <1>1, <1>2 DEF Saved
<1>3. CASE f # FileOf[x]
  <2>1. meta'[f] = Meta([n \in MutantsOf(f) |-> code[n]])
    BY <1>1, <1>3 DEF Saved, SavedAtOnce
  <2>2. \A n \in MutantsOf(f) : code'[n] = code[n]
    BY <1>3 DEF MutantsOf, Types
  <2>3. [n \in MutantsOf(f) |-> code[n]] = [n \in MutantsOf(f) |-> code'[n]]
    BY <2>2
  <2> QED
    BY <2>1, <2>3
<1> QED
  BY <1>2, <1>3

LEMMA OnDiskStep == Types /\ OnDisk /\ [Next]_vars => OnDisk'
<1> SUFFICES ASSUME Types, OnDisk, [Next]_vars PROVE OnDisk'
  OBVIOUS
<1>1. CASE Ending
  BY <1>1 DEF Ending, End, OnDisk, SavedAtOnce, LoopPcs
<1>2. ASSUME NEW given, NEW match, Start(given, match) PROVE OnDisk'
  BY <1>2 DEF Start, OnDisk, SavedAtOnce, LoopPcs, memory
<1>3. ASSUME NEW f \in Files, CreateMutantsForFile(f) PROVE OnDisk'
  <2>1. \A g \in Files : meta'[g] = IF g = f THEN Meta(Fresh(MutantsOf(f))) ELSE meta[g]
    BY <1>3 DEF CreateMutantsForFile, Types
  <2>2. \A g \in Files : g \in generated' => Reset(g)'
    BY <1>3, <2>1 DEF CreateMutantsForFile, Types, TypeOK, OnDisk, Reset
  <2>3. pc' = IF generated' = Files THEN "stats" ELSE "generate"
    BY <1>3 DEF CreateMutantsForFile
  <2> QED
    BY <2>2, <2>3 DEF OnDisk, SavedAtOnce, LoopPcs
<1>4. CASE CollectStats \/ LoadStats
  BY <1>4 DEF CollectStats, LoadStats, OnDisk, SavedAtOnce, LoopPcs, Reset
<1>5. CASE CleanTests
  <2>1. code' = Fresh(Mutants) /\ meta' = meta
    BY <1>5, NothingLoaded DEF CleanTests, disk
  <2>2. ASSUME NEW m \in Mutants
        PROVE  meta'[FileOf[m]] = Meta([n \in MutantsOf(FileOf[m]) |-> code'[n]])
    <3>1. meta[FileOf[m]] = Meta(Fresh(MutantsOf(FileOf[m])))
      BY <1>5, ConstantTypes DEF CleanTests, OnDisk, Reset
    <3>2. \A n \in MutantsOf(FileOf[m]) : code'[n] = NotChecked
      BY <2>1 DEF Fresh, MutantsOf
    <3>3. Fresh(MutantsOf(FileOf[m])) = [n \in MutantsOf(FileOf[m]) |-> code'[n]]
      BY <3>2 DEF Fresh
    <3> QED
      BY <2>1, <3>1, <3>3
  <2> QED
    BY <1>5, <2>2 DEF CleanTests, OnDisk, SavedAtOnce, LoopPcs
<1>6. CASE NoTestsForMutant \/ RegisterResult
  <2>1. PICK x, c : code' = [code EXCEPT ![x] = c] /\ meta' = Saved(FileOf[x], code')
    BY <1>6 DEF NoTestsForMutant, RegisterResult
  <2>2. pc \in LoopPcs /\ pc' \in LoopPcs
    BY <1>6 DEF NoTestsForMutant, RegisterResult, LoopPcs
  <2> QED
    BY <2>1, <2>2, OnDiskSaves DEF OnDisk, LoopPcs
<1>7. CASE Recordless
  BY <1>7, RecordlessKeeps DEF OnDisk, SavedAtOnce, LoopPcs
<1>8. ASSUME NEW s, EditTests(s) PROVE OnDisk'
  BY <1>8 DEF EditTests, OnDisk, SavedAtOnce, LoopPcs, mainVars
<1>9. CASE UNCHANGED vars
  BY <1>9 DEF vars, OnDisk, SavedAtOnce, Reset
<1> QED
  BY <1>1, <1>2, <1>3, <1>4, <1>5, <1>6, <1>7, <1>8, <1>9, Kinds, QuietEndIsEnd
  DEF Ending, Interrupt, Killed

-----------------------------------------------------------------------------
(***************************************************************************)
(* Where each mutant is in the loop.                                        *)
(***************************************************************************)

(* Taking the first mutant leaves the others as they were.                 *)
LEMMA Taken ==
    ASSUME Types, Queue, Pending # {}, todo' = Rest
    PROVE  /\ 1 \in DOMAIN todo /\ Current = todo[1] /\ todo[1] \in Mutants
           /\ \A i \in DOMAIN todo' : /\ i + 1 \in DOMAIN todo /\ todo'[i] = todo[i + 1]
                                      /\ todo'[i] # todo[1]
           /\ \A i, j \in DOMAIN todo' : i # j => todo'[i] # todo'[j]
           /\ \A m : Queued(m)' <=> Queued(m) /\ m # todo[1]
<1>1. /\ Len(todo) \in Nat \ {0} /\ Current = todo[1] /\ DOMAIN todo = 1..Len(todo)
      /\ Rest \in Seq(Mutants) /\ Len(Rest) = Len(todo) - 1
      /\ \A i \in 1..Len(Rest) : Rest[i] = todo[i + 1]
  BY TakesFirst DEF Types, Queue
<1>2. DOMAIN todo' = 1..Len(todo) - 1 /\ \A i \in DOMAIN todo' : todo'[i] = todo[i + 1]
  BY <1>1
<1>3. \A i \in DOMAIN todo' : i \in Nat /\ i # 0 /\ i + 1 \in DOMAIN todo
  BY <1>1, <1>2
<1>4. 1 \in DOMAIN todo /\ todo[1] \in Mutants
  BY <1>1 DEF Types
<1>5. \A i \in DOMAIN todo' : todo'[i] # todo[1]
  BY <1>2, <1>3, <1>4 DEF Queue
<1>6. \A i, j \in DOMAIN todo' : i # j => todo'[i] # todo'[j]
  <2> SUFFICES ASSUME NEW i \in DOMAIN todo', NEW j \in DOMAIN todo', i # j
               PROVE  todo'[i] # todo'[j]
    OBVIOUS
  <2>1. i + 1 # j + 1
    BY <1>3
  <2> QED
    BY <1>2, <1>3, <2>1 DEF Queue
<1>7. ASSUME NEW m PROVE Queued(m)' <=> Queued(m) /\ m # todo[1]
  <2>1. Queued(m)' => Queued(m) /\ m # todo[1]
    BY <1>2, <1>3, <1>5 DEF Queued
  <2>2. ASSUME Queued(m), m # todo[1] PROVE Queued(m)'
    <3>1. PICK i \in DOMAIN todo : todo[i] = m
      BY <2>2 DEF Queued
    <3>2. i - 1 \in DOMAIN todo' /\ (i - 1) + 1 = i
      BY <1>1, <1>2, <2>2, <3>1
    <3> QED
      BY <1>2, <3>1, <3>2 DEF Queued
  <2> QED
    BY <2>1, <2>2
<1> QED
  BY <1>1, <1>2, <1>3, <1>4, <1>5, <1>6, <1>7

LEMMA LoopStarts == Types /\ OnDisk /\ CleanTests => InLoop'
<1> SUFFICES ASSUME Types, OnDisk, CleanTests PROVE InLoop'
  OBVIOUS
<1>1. /\ proc' = << >> /\ keyByPid' = << >> /\ reaped' = NoChild
      /\ ended' = Fresh(Mutants) /\ code' = Fresh(Mutants) /\ names' = names /\ pc' = "loop"
  BY NothingLoaded DEF CleanTests, Types, Blank, LoopPcs
<1>2. /\ todo' \in Seq(Chosen) /\ \A m \in Chosen : \E i \in DOMAIN todo' : todo'[i] = m
      /\ \A i, j \in DOMAIN todo' : i # j => todo'[i] # todo'[j]
  BY Arrangement DEF CleanTests, Types, Chosen
<1>3. \A m \in Mutants : code'[m] = NotChecked /\ ended'[m] = NotChecked
  BY <1>1 DEF Fresh
<1>4. Chosen' = Chosen /\ Chosen \subseteq Mutants
  BY <1>1 DEF Chosen, Types
<1>5. DOMAIN proc' = {} /\ DOMAIN keyByPid' = {}
  BY <1>1
<1>6. \A i \in DOMAIN todo' : todo'[i] \in Chosen
  BY <1>2
<1>7. Queue'
  BY <1>1, <1>2, <1>3, <1>4, <1>5, <1>6 DEF Queue
<1>8. Table'
  BY <1>1, <1>5 DEF Table
<1>9. Ends'
  BY <1>3, <1>5 DEF Ends
<1>10. Results'
  <2>1. \A m \in Mutants : m \in Chosen => Queued(m)'
    BY <1>2 DEF Queued
  <2> QED
    BY <1>3, <1>4, <1>5, <2>1 DEF Results
<1> QED
  BY <1>7, <1>8, <1>9, <1>10 DEF InLoop

LEMMA LoopNoTests == Types /\ InLoop /\ NoTestsForMutant => InLoop'
<1> SUFFICES ASSUME Types, InLoop, NoTestsForMutant PROVE InLoop'
  OBVIOUS
<1>1. /\ 1 \in DOMAIN todo /\ Current = todo[1] /\ todo[1] \in Mutants
      /\ \A i \in DOMAIN todo' : /\ i + 1 \in DOMAIN todo /\ todo'[i] = todo[i + 1]
                                 /\ todo'[i] # todo[1]
      /\ \A i, j \in DOMAIN todo' : i # j => todo'[i] # todo'[j]
      /\ \A m : Queued(m)' <=> Queued(m) /\ m # todo[1]
  BY Taken DEF InLoop, NoTestsForMutant
<1>2. \A m \in Mutants : code'[m] = IF m = todo[1] THEN NoTests ELSE code[m]
  BY <1>1 DEF NoTestsForMutant, Types
<1>3. /\ UNCHANGED <<proc, keyByPid, reaped, ended, names, pc>> /\ pc = "loop"
      /\ Chosen' = Chosen /\ Chosen \subseteq Mutants
  BY DEF NoTestsForMutant, Chosen, Types
<1>4. \A p \in DOMAIN proc : proc[p].mutant # todo[1] /\ proc[p].mutant \in Mutants
  <2>1. \A p \in DOMAIN proc : proc[p] \in Process
    BY DEF Types
  <2> QED
    BY <1>1, <1>3, <2>1 DEF InLoop, Queue, Process
<1>5. Queue'
  <2>1. \A i \in DOMAIN todo' : todo'[i] \in Chosen /\ code'[todo'[i]] = NotChecked
    BY <1>1, <1>2, <1>3 DEF InLoop, Queue
  <2>2. \A i \in DOMAIN todo', p \in DOMAIN proc : proc[p].mutant # todo'[i]
    BY <1>1, <1>3 DEF InLoop, Queue
  <2> QED
    BY <1>1, <1>3, <2>1, <2>2 DEF Queue
<1>6. Table' /\ Ends'
  BY <1>3 DEF InLoop, Table, Ends, HasProcess
<1>7. Results'
  <2>1. \A p \in DOMAIN proc : code'[proc[p].mutant] = code[proc[p].mutant]
    BY <1>2, <1>4
  <2>2. \A m : HasProcess(m)' <=> HasProcess(m)
    BY <1>3 DEF HasProcess
  <2>3. todo[1] \in Chosen
    BY <1>1 DEF InLoop, Queue
  <2>4. ASSUME NEW m \in Mutants, ~HasProcess(m)
        PROVE  code'[m] = IF m \in Chosen /\ ~Queued(m)' THEN NoTests ELSE NotChecked
    BY <1>1, <1>2, <2>3, <2>4 DEF InLoop, Results
  <2> QED
    BY <1>3, <2>1, <2>2, <2>4 DEF InLoop, Results
<1> QED
  BY <1>5, <1>6, <1>7 DEF InLoop

LEMMA LoopForks == Types /\ InLoop /\ Fork => InLoop'
<1> SUFFICES ASSUME Types, InLoop, Fork PROVE InLoop'
  OBVIOUS
<1> DEFINE n == Len(proc) + 1
<1>1. /\ todo # << >>
      /\ proc' \in Seq(Process) /\ Len(proc') = n /\ DOMAIN proc' = DOMAIN proc \cup {n}
      /\ n \notin DOMAIN proc /\ \A q \in DOMAIN proc : proc'[q] = proc[q]
      /\ proc'[n].mutant = todo[1] /\ proc'[n].st = "running" /\ proc'[n].known = FALSE
  BY ForkedChild DEF Types, InLoop
<1>2. n \in Nat /\ n # 0 /\ \A p \in DOMAIN proc : p # n
  BY <1>1 DEF Types
<1> HIDE DEF n
<1>3. /\ UNCHANGED <<todo, code, keyByPid, reaped, ended, names>> /\ pc = "loop"
      /\ pc' = "register" /\ Chosen' = Chosen /\ reaped = NoChild
  BY DEF Fork, Chosen, InLoop, Table
<1>4. 1 \in DOMAIN todo /\ todo[1] \in Mutants
  BY <1>1 DEF Types
<1>5. \A p \in DOMAIN proc, i \in DOMAIN todo : proc[p].mutant # todo[i]
  BY <1>3 DEF InLoop, Queue
<1>6. \A m : HasProcess(m)' <=> HasProcess(m) \/ m = todo[1]
  BY <1>1 DEF HasProcess
<1>7. ended[todo[1]] = NotChecked /\ code[todo[1]] = NotChecked
  BY <1>4, <1>5 DEF InLoop, Ends, Queue, HasProcess
<1>8. Queue'
  <2>1. \A i \in DOMAIN todo, p \in DOMAIN proc' :
            proc'[p].mutant = todo[i] => p = n /\ i = 1
    BY <1>1, <1>4, <1>5 DEF InLoop, Queue
  <2> QED
    BY <1>1, <1>2, <1>3, <2>1 DEF InLoop, Queue
<1>9. Table'
  <2>1. \A p \in DOMAIN proc' : proc'[p].known <=> ~(p = n)
    BY <1>1, <1>2, <1>3 DEF InLoop, Table
  <2>2. n \notin DOMAIN keyByPid
    BY <1>1 DEF Types, TypeOK
  <2>3. ASSUME NEW p \in DOMAIN proc'
        PROVE  p \in DOMAIN keyByPid
                   <=> proc'[p].known /\ (proc'[p].st # "gone" \/ p = reaped.pid)
    BY <1>1, <1>3, <2>1, <2>2 DEF InLoop, Table
  <2>4. \A p \in DOMAIN keyByPid : keyByPid[p] = proc'[p].mutant
    BY <1>1 DEF InLoop, Table, Types, TypeOK
  <2> QED
    BY <1>1, <1>3, <2>1, <2>3, <2>4 DEF Table
<1>10. Ends'
  <2>1. \A p, q \in DOMAIN proc' : p # q => proc'[p].mutant # proc'[q].mutant
    BY <1>1, <1>4, <1>5 DEF InLoop, Ends
  <2>2. \A p \in DOMAIN proc' :
            /\ proc'[p].st = "running" <=> ended[proc'[p].mutant] = NotChecked
            /\ proc'[p].st = "zombie" => proc'[p].exit = ended[proc'[p].mutant]
    BY <1>1, <1>7 DEF InLoop, Ends
  <2>3. \A m \in Mutants : ~HasProcess(m)' => ended[m] = NotChecked
    BY <1>6 DEF InLoop, Ends
  <2> QED
    BY <1>3, <2>1, <2>2, <2>3 DEF Ends
<1>11. Results'
  <2>1. \A p \in DOMAIN proc' :
            code[proc'[p].mutant] = IF proc'[p].st = "gone" /\ p # reaped.pid
                                    THEN ended[proc'[p].mutant] ELSE NotChecked
    BY <1>1, <1>7 DEF InLoop, Results
  <2>2. \A m : Queued(m)' <=> Queued(m)
    BY <1>3 DEF Queued
  <2> QED
    BY <1>3, <1>6, <2>1, <2>2 DEF InLoop, Results
<1> QED
  BY <1>8, <1>9, <1>10, <1>11 DEF InLoop

LEMMA LoopRegisters == Types /\ InLoop /\ RegisterPid => InLoop'
<1> SUFFICES ASSUME Types, InLoop, RegisterPid PROVE InLoop'
  OBVIOUS
<1> DEFINE n == Len(proc)
<1>1. /\ SameChildren /\ n \in DOMAIN proc /\ \A q \in DOMAIN proc \ {n} : proc'[q] = proc[q]
      /\ proc'[n].known = TRUE /\ proc'[n].st = proc[n].st /\ proc'[n].exit = proc[n].exit
  BY RegisteredChild DEF Types, InLoop, SameButOne
<1>2. /\ pc = "register" /\ pc' \in {"full", "loop"}
      /\ UNCHANGED <<code, reaped, ended, names>> /\ Chosen' = Chosen /\ reaped = NoChild
  BY DEF RegisterPid, Chosen, InLoop, Table
<1>3. Pending # {}
  BY <1>2, TakesFirst DEF Types, InLoop, Queue
<1>4. /\ 1 \in DOMAIN todo /\ Current = todo[1] /\ todo[1] \in Mutants
      /\ \A i \in DOMAIN todo' : /\ i + 1 \in DOMAIN todo /\ todo'[i] = todo[i + 1]
                                 /\ todo'[i] # todo[1]
      /\ \A i, j \in DOMAIN todo' : i # j => todo'[i] # todo'[j]
      /\ \A m : Queued(m)' <=> Queued(m) /\ m # todo[1]
  BY <1>3, Taken DEF InLoop, RegisterPid
<1>5. /\ DOMAIN keyByPid' = DOMAIN keyByPid \cup {n}
      /\ \A p \in DOMAIN keyByPid' : keyByPid'[p] = IF p = n THEN todo[1] ELSE keyByPid[p]
  BY <1>4 DEF RegisterPid
<1>6. proc[n].mutant = todo[1] /\ proc[n].st # "gone"
  BY <1>2 DEF InLoop, Queue
<1> HIDE DEF n
<1>7. DOMAIN proc' = DOMAIN proc /\ \A q \in DOMAIN proc : /\ proc'[q].mutant = proc[q].mutant
                                                           /\ proc'[q].st = proc[q].st
                                                           /\ proc'[q].exit = proc[q].exit
  BY <1>1 DEF SameChildren
<1>8. \A m : HasProcess(m)' <=> HasProcess(m)
  BY <1>7 DEF HasProcess
<1>9. Queue'
  <2>1. \A i \in DOMAIN todo' : todo'[i] \in Chosen /\ code[todo'[i]] = NotChecked
    BY <1>4 DEF InLoop, Queue
  <2>2. \A i \in DOMAIN todo', p \in DOMAIN proc : proc[p].mutant # todo'[i]
    BY <1>4, <1>6 DEF InLoop, Queue, Ends
  <2> QED
    BY <1>2, <1>4, <1>7, <2>1, <2>2 DEF Queue
<1>10. Table'
  <2>1. \A p \in DOMAIN proc' : proc'[p].known = TRUE
    BY <1>1, <1>2, <1>7 DEF InLoop, Table, n
  <2>2. ASSUME NEW p \in DOMAIN proc
        PROVE  p \in DOMAIN keyByPid' <=> proc'[p].st # "gone" \/ p = reaped.pid
    <3>1. CASE p = n
      BY <3>1, <1>5, <1>6, <1>7
    <3>2. CASE p # n
      <4>1. proc[p].known
        BY <1>2, <3>2 DEF InLoop, Table, n
      <4> QED
        BY <3>2, <4>1, <1>5, <1>7 DEF InLoop, Table
    <3> QED
      BY <3>1, <3>2
  <2>3. \A p \in DOMAIN keyByPid' : keyByPid'[p] = proc'[p].mutant
    <3>1. \A p \in DOMAIN keyByPid : p \in DOMAIN proc /\ keyByPid[p] = proc[p].mutant
      BY DEF InLoop, Table, Types, TypeOK
    <3> QED
      BY <1>1, <1>5, <1>6, <1>7, <3>1
  <2> QED
    BY <1>2, <1>7, <2>1, <2>2, <2>3 DEF Table
<1>11. Ends'
  BY <1>2, <1>7, <1>8 DEF InLoop, Ends
<1>12. Results'
  <2>1. \A m \in Mutants : ~HasProcess(m) => m # todo[1]
    BY <1>1, <1>6 DEF HasProcess
  <2> QED
    BY <1>2, <1>4, <1>7, <1>8, <2>1 DEF InLoop, Results
<1> QED
  BY <1>9, <1>10, <1>11, <1>12 DEF InLoop

LEMMA LoopDrains == Types /\ InLoop /\ LoopEnds => InLoop'
<1> SUFFICES ASSUME Types, InLoop, LoopEnds PROVE InLoop'
  OBVIOUS
<1>1. todo = << >>
  <2>1. Pending = DOMAIN todo /\ Pending = {}
    BY TakesFirst DEF Types, InLoop, Queue, LoopEnds
  <2>2. todo # << >> => 1 \in DOMAIN todo
    BY DEF Types
  <2> QED
    BY <2>1, <2>2
<1> QED
  BY <1>1 DEF LoopEnds, InLoop, Queue, Table, Ends, Results, HasProcess, Queued, Chosen

LEMMA LoopWaits == ASSUME Types, InLoop, NEW p \in DOMAIN proc, Wait(p) PROVE InLoop'
<1>1. /\ SameChildren /\ \A q \in DOMAIN proc \ {p} : proc'[q] = proc[q]
      /\ proc'[p].st = "gone" /\ proc'[p].known = proc[p].known
  BY ReapedChild DEF Types, SameButOne
<1>2. /\ pc \in {"full", "drain"} /\ pc' = "record" /\ proc[p].st = "zombie" /\ reaped = NoChild
      /\ reaped'.pid = p /\ reaped'.exit = proc[p].exit
      /\ UNCHANGED <<todo, code, keyByPid, ended, names>> /\ Chosen' = Chosen
  BY DEF Wait, InLoop, Table, Chosen
<1>3. DOMAIN proc' = DOMAIN proc /\ \A q \in DOMAIN proc : /\ proc'[q].mutant = proc[q].mutant
                                                           /\ proc'[q].known = proc[q].known
  BY <1>1 DEF SameChildren
<1>4. \A q \in DOMAIN proc : q # 0
  BY DEF Types
<1>5. /\ \A m : HasProcess(m)' <=> HasProcess(m)
      /\ \A m : Queued(m)' <=> Queued(m)
  BY <1>2, <1>3 DEF HasProcess, Queued
<1>6. Queue'
  BY <1>2, <1>3 DEF InLoop, Queue
<1>7. Table'
  <2>1. \A q \in DOMAIN proc : proc'[q].known
    BY <1>2, <1>3 DEF InLoop, Table
  <2>2. ASSUME NEW q \in DOMAIN proc
        PROVE  q \in DOMAIN keyByPid <=> proc'[q].st # "gone" \/ q = p
    <3>1. CASE q = p
      BY <1>2, <1>3, <2>1, <3>1 DEF InLoop, Table
    <3>2. CASE q # p
      <4>1. proc[q].known /\ q # reaped.pid
        BY <1>2, <1>3, <1>4, <2>1 DEF NoChild
      <4> QED
        BY <1>1, <3>2, <4>1 DEF InLoop, Table
    <3> QED
      BY <3>1, <3>2
  <2>3. reaped'.exit = ended[proc[p].mutant]
    BY <1>2 DEF InLoop, Ends
  <2>4. \A q \in DOMAIN proc' :
            q \in DOMAIN keyByPid' <=> proc'[q].known /\ (proc'[q].st # "gone" \/ q = reaped'.pid)
    BY <1>2, <1>3, <2>1, <2>2
  <2>5. \A q \in DOMAIN keyByPid' : keyByPid'[q] = proc'[q].mutant
    <3>1. \A q \in DOMAIN keyByPid : q \in DOMAIN proc /\ keyByPid[q] = proc[q].mutant
      BY DEF InLoop, Table, Types, TypeOK
    <3> QED
      BY <1>2, <1>3, <3>1
  <2> QED
    BY <1>1, <1>2, <1>3, <2>1, <2>3, <2>4, <2>5 DEF Table
<1>8. Ends'
  <2>1. \A q \in DOMAIN proc :
            /\ proc'[q].st = "running" <=> ended[proc[q].mutant] = NotChecked
            /\ proc'[q].st = "zombie" => proc'[q].exit = ended[proc[q].mutant]
    BY <1>1, <1>2 DEF InLoop, Ends
  <2> QED
    BY <1>2, <1>3, <1>5, <2>1 DEF InLoop, Ends
<1>9. Results'
  <2>1. ASSUME NEW q \in DOMAIN proc
        PROVE  code[proc[q].mutant] = IF proc'[q].st = "gone" /\ q # p
                                      THEN ended[proc[q].mutant] ELSE NotChecked
    <3>1. CASE q = p
      BY <1>2, <3>1 DEF InLoop, Results
    <3>2. CASE q # p
      BY <1>1, <1>2, <1>4, <3>2 DEF InLoop, Results, NoChild
    <3> QED
      BY <3>1, <3>2
  <2> QED
    BY <1>2, <1>3, <1>5, <2>1 DEF InLoop, Results
<1> QED
  BY <1>6, <1>7, <1>8, <1>9 DEF InLoop

LEMMA LoopRecords == Types /\ InLoop /\ RegisterResult => InLoop'
<1> SUFFICES ASSUME Types, InLoop, RegisterResult PROVE InLoop'
  OBVIOUS
<1> DEFINE r == reaped.pid
           x == proc[r].mutant
<1>1. pc = "record" /\ pc' = "loop" /\ reaped' = NoChild
      /\ UNCHANGED <<todo, proc, ended, names>> /\ Chosen' = Chosen
  BY DEF RegisterResult, Chosen
<1>2. /\ r \in DOMAIN proc /\ proc[r].st = "gone" /\ reaped.exit = ended[x]
      /\ r \in DOMAIN keyByPid /\ keyByPid[r] = x
      /\ \A p \in DOMAIN proc : proc[p].known
  BY <1>1 DEF InLoop, Table
<1>3. x \in Mutants
  <2>1. proc[r] \in Process
    BY <1>2 DEF Types
  <2> QED
    BY <2>1 DEF Process
<1>4. \A m \in Mutants : code'[m] = IF m = x THEN ended[x] ELSE code[m]
  BY <1>2, <1>3 DEF RegisterResult, ReapedMutant, Types
<1>5. /\ DOMAIN keyByPid' = DOMAIN keyByPid \ {r}
      /\ \A p \in DOMAIN keyByPid' : keyByPid'[p] = keyByPid[p]
  BY DEF RegisterResult
<1>6. \A p \in DOMAIN proc : p # 0 /\ proc[p].mutant \in Mutants
  <2>1. \A p \in DOMAIN proc : p # 0 /\ proc[p] \in Process
    BY DEF Types
  <2> QED
    BY <2>1 DEF Process
<1>7. /\ \A m : HasProcess(m)' <=> HasProcess(m)
      /\ \A m : Queued(m)' <=> Queued(m)
  BY <1>1 DEF HasProcess, Queued
<1>8. HasProcess(x)
  BY <1>2 DEF HasProcess
<1> HIDE DEF r, x
<1>9. Queue'
  <2>1. \A i \in DOMAIN todo : todo[i] \in Mutants /\ ~HasProcess(todo[i])
    BY <1>1 DEF InLoop, Queue, Types, HasProcess
  <2>2. \A i \in DOMAIN todo : code'[todo[i]] = NotChecked
    BY <1>4, <1>8, <2>1 DEF InLoop, Queue
  <2> QED
    BY <1>1, <2>1, <2>2 DEF InLoop, Queue, HasProcess
<1>10. Table'
  <2>1. ASSUME NEW p \in DOMAIN proc
        PROVE  p \in DOMAIN keyByPid' <=> proc[p].st # "gone" \/ p = 0
    BY <1>2, <1>5, <1>6 DEF InLoop, Table, r
  <2>2. \A p \in DOMAIN keyByPid' : keyByPid'[p] = proc[p].mutant
    BY <1>5 DEF InLoop, Table
  <2> QED
    BY <1>1, <1>2, <2>1, <2>2 DEF InLoop, Table, NoChild
<1>11. Ends'
  BY <1>1, <1>7 DEF InLoop, Ends
<1>12. Results'
  <2>1. ASSUME NEW p \in DOMAIN proc
        PROVE  code'[proc[p].mutant] = IF proc[p].st = "gone" /\ p # 0
                                       THEN ended[proc[p].mutant] ELSE NotChecked
    <3>1. CASE p = r
      BY <1>2, <1>4, <1>6, <3>1 DEF x
    <3>2. CASE p # r
      <4>1. proc[p].mutant # x
        BY <1>2, <3>2 DEF InLoop, Ends, x
      <4> QED
        BY <1>4, <1>6, <3>2, <4>1 DEF InLoop, Results, r
    <3> QED
      BY <3>1, <3>2
  <2>2. \A m \in Mutants : ~HasProcess(m) => code'[m] = code[m]
    BY <1>4, <1>8
  <2> QED
    BY <1>1, <1>7, <2>1, <2>2 DEF InLoop, Results, NoChild
<1> QED
  BY <1>9, <1>10, <1>11, <1>12 DEF InLoop

(* A child ends, by itself or by a signal.                                 *)
LEMMA LoopChildEnds ==
    ASSUME Types, InLoop, NEW p \in DOMAIN proc, proc[p].st = "running",
           NEW c \in Int, c # NotChecked,
           proc' = [proc EXCEPT ![p].st = "zombie", ![p].exit = c],
           ended' = [ended EXCEPT ![proc[p].mutant] = c],
           UNCHANGED <<pc, names, todo, code, keyByPid, reaped>>
    PROVE  InLoop'
<1> DEFINE x == proc[p].mutant
<1>1. /\ SameChildren /\ \A q \in DOMAIN proc \ {p} : proc'[q] = proc[q]
      /\ proc'[p].st = "zombie" /\ proc'[p].exit = c /\ proc'[p].known = proc[p].known
  BY EndedChild DEF Types, SameButOne
<1>2. DOMAIN proc' = DOMAIN proc /\ Len(proc') = Len(proc)
      /\ \A q \in DOMAIN proc : /\ proc'[q].mutant = proc[q].mutant
                                /\ proc'[q].known = proc[q].known
  BY <1>1 DEF SameChildren
<1>3. \A q \in DOMAIN proc : proc[q].mutant \in Mutants
  <2>1. \A q \in DOMAIN proc : proc[q] \in Process
    BY DEF Types
  <2> QED
    BY <2>1 DEF Process
<1>4. \A m \in Mutants : ended'[m] = IF m = x THEN c ELSE ended[m]
  BY DEF Types
<1>5. /\ \A m : HasProcess(m)' <=> HasProcess(m)
      /\ \A m : Queued(m)' <=> Queued(m)
      /\ Chosen' = Chosen /\ HasProcess(x)
  BY <1>2 DEF HasProcess, Queued, Chosen
<1>6. \A q \in DOMAIN proc : q # p => proc[q].mutant # x
  BY DEF InLoop, Ends
<1> HIDE DEF x
<1>7. \A q \in DOMAIN proc : ended'[proc[q].mutant] = IF q = p THEN c ELSE ended[proc[q].mutant]
  BY <1>3, <1>4, <1>6 DEF x
<1>8. Queue'
  BY <1>1, <1>2, <1>5 DEF InLoop, Queue
<1>9. Table'
  <2>1. ASSUME NEW q \in DOMAIN proc
        PROVE  q \in DOMAIN keyByPid
                   <=> proc'[q].known /\ (proc'[q].st # "gone" \/ q = reaped.pid)
    BY <1>1, <1>2 DEF InLoop, Table
  <2>2. pc = "record" => reaped.pid # p
    BY DEF InLoop, Table
  <2>3. pc = "record" => /\ proc'[reaped.pid].st = "gone"
                         /\ reaped.exit = ended'[proc[reaped.pid].mutant]
    BY <1>1, <1>7, <2>2 DEF InLoop, Table
  <2>4. \A q \in DOMAIN keyByPid : keyByPid[q] = proc'[q].mutant
    <3>1. \A q \in DOMAIN keyByPid : q \in DOMAIN proc /\ keyByPid[q] = proc[q].mutant
      BY DEF InLoop, Table, Types, TypeOK
    <3> QED
      BY <1>2, <3>1
  <2>5. \A q \in DOMAIN proc : proc'[q].known <=> ~(pc = "register" /\ q = Len(proc))
    BY <1>2 DEF InLoop, Table
  <2>6. pc = "record" => reaped.pid \in DOMAIN proc
    BY DEF InLoop, Table
  <2>7. pc # "record" => reaped = NoChild
    BY DEF InLoop, Table
  <2>8. pc' = pc /\ keyByPid' = keyByPid /\ reaped' = reaped
    OBVIOUS
  <2>9. pc' = "record" => /\ reaped'.pid \in DOMAIN proc'
                          /\ proc'[reaped'.pid].st = "gone"
                          /\ reaped'.exit = ended'[proc'[reaped'.pid].mutant]
    BY <1>2, <2>3, <2>6, <2>8
  <2>10. \A q \in DOMAIN proc' :
             proc'[q].known <=> ~(pc' = "register" /\ q = Len(proc'))
    BY <1>2, <2>5, <2>8
  <2>11. \A q \in DOMAIN proc' :
             q \in DOMAIN keyByPid' <=> proc'[q].known /\ (proc'[q].st # "gone" \/ q = reaped'.pid)
    BY <1>2, <2>1, <2>8
  <2>12. \A q \in DOMAIN keyByPid' : keyByPid'[q] = proc'[q].mutant
    BY <2>4, <2>8
  <2>13. pc' # "record" => reaped' = NoChild
    BY <2>7, <2>8
  <2> QED
    BY <2>9, <2>10, <2>11, <2>12, <2>13, Zenon DEF Table
<1>10. Ends'
  <2>1. \A q \in DOMAIN proc :
            /\ proc'[q].st = "running" <=> ended'[proc[q].mutant] = NotChecked
            /\ proc'[q].st = "zombie" => proc'[q].exit = ended'[proc[q].mutant]
    BY <1>1, <1>7 DEF InLoop, Ends
  <2>2. \A m \in Mutants : ~HasProcess(m) => ended'[m] = NotChecked
    BY <1>4, <1>5 DEF InLoop, Ends
  <2> QED
    BY <1>2, <1>5, <2>1, <2>2 DEF InLoop, Ends
<1>11. Results'
  <2>1. ASSUME NEW q \in DOMAIN proc
        PROVE  code[proc[q].mutant] = IF proc'[q].st = "gone" /\ q # reaped.pid
                                      THEN ended'[proc[q].mutant] ELSE NotChecked
    <3>1. CASE q = p
      BY <1>1, <3>1 DEF InLoop, Results
    <3>2. CASE q # p
      BY <1>1, <1>7, <3>2 DEF InLoop, Results
    <3> QED
      BY <3>1, <3>2
  <2> QED
    BY <1>2, <1>5, <2>1 DEF InLoop, Results
<1> QED
  BY <1>8, <1>9, <1>10, <1>11 DEF InLoop

LEMMA LoopTicks == Types /\ InLoop /\ Tick => InLoop'
<1> SUFFICES ASSUME Types, InLoop, Tick PROVE InLoop'
  OBVIOUS
<1>1. /\ DOMAIN proc' = DOMAIN proc /\ Len(proc') = Len(proc)
      /\ \A q \in DOMAIN proc :
            /\ proc'[q].mutant = proc[q].mutant /\ proc'[q].known = proc[q].known
            /\ proc'[q].st = proc[q].st /\ proc'[q].exit = proc[q].exit
  BY AgedChildren DEF Types, SameChildren
<1>2. UNCHANGED <<pc, names, todo, code, keyByPid, reaped, ended>> /\ Chosen' = Chosen
  BY DEF Tick, mainVars, Chosen
<1>3. /\ \A m : HasProcess(m)' <=> HasProcess(m)
      /\ \A m : Queued(m)' <=> Queued(m)
  BY <1>1, <1>2 DEF HasProcess, Queued
<1>4. Queue'
  BY <1>1, <1>2 DEF InLoop, Queue
<1>5. Table'
  <2>1. \A q \in DOMAIN keyByPid : keyByPid[q] = proc'[q].mutant
    <3>1. \A q \in DOMAIN keyByPid : q \in DOMAIN proc /\ keyByPid[q] = proc[q].mutant
      BY DEF InLoop, Table, Types, TypeOK
    <3> QED
      BY <1>1, <3>1
  <2>2. \A q \in DOMAIN proc : proc'[q].known <=> ~(pc = "register" /\ q = Len(proc))
    BY <1>1 DEF InLoop, Table
  <2>3. \A q \in DOMAIN proc :
            q \in DOMAIN keyByPid <=> proc'[q].known /\ (proc'[q].st # "gone" \/ q = reaped.pid)
    BY <1>1 DEF InLoop, Table
  <2>4. pc = "record" => /\ reaped.pid \in DOMAIN proc
                         /\ proc'[reaped.pid].st = "gone"
                         /\ reaped.exit = ended[proc'[reaped.pid].mutant]
    BY <1>1 DEF InLoop, Table
  <2>5. pc # "record" => reaped = NoChild
    BY DEF InLoop, Table
  <2> QED
    BY <1>1, <1>2, <2>1, <2>2, <2>3, <2>4, <2>5 DEF Table
<1>6. Ends' /\ Results'
  BY <1>1, <1>2, <1>3 DEF InLoop, Ends, Results
<1> QED
  BY <1>4, <1>5, <1>6 DEF InLoop

LEMMA LoopStep == Types /\ OnDisk /\ Loop /\ [Next]_vars => Loop'
<1> SUFFICES ASSUME Types, OnDisk, Loop, [Next]_vars, pc' \in LoopPcs PROVE InLoop'
  BY DEF Loop, InLoop
<1>a. pc \in LoopPcs => InLoop
  BY DEF Loop
<1>1. CASE Ending
  BY <1>1 DEF Ending, End, LoopPcs
<1>2. ASSUME NEW given, NEW match, Start(given, match) PROVE FALSE
  BY <1>2 DEF Start, LoopPcs
<1>3. ASSUME NEW f, CreateMutantsForFile(f) PROVE FALSE
  BY <1>3 DEF CreateMutantsForFile, LoopPcs
<1>4. CASE CollectStats \/ LoadStats
  BY <1>4 DEF CollectStats, LoadStats, LoopPcs
<1>5. CASE CleanTests
  BY <1>5, LoopStarts
<1>6. CASE NoTestsForMutant
  BY <1>6, <1>a, LoopNoTests DEF NoTestsForMutant, LoopPcs
<1>7. CASE RegisterResult
  BY <1>7, <1>a, LoopRecords DEF RegisterResult, LoopPcs
<1>8. CASE Recordless
  <2>1. InLoop
    BY <1>8, <1>a, RecordlessKeeps
  <2>2. CASE Fork
    BY <2>1, <2>2, LoopForks
  <2>3. CASE RegisterPid
    BY <2>1, <2>3, LoopRegisters
  <2>4. CASE LoopEnds
    BY <2>1, <2>4, LoopDrains
  <2>5. ASSUME NEW p \in DOMAIN proc, Wait(p) PROVE InLoop'
    BY <2>1, <2>5, LoopWaits
  <2>6. ASSUME NEW m, TimeoutLook(m) PROVE InLoop'
    BY <2>1, <2>6 DEF TimeoutLook, mainVars, InLoop, Queue, Table, Ends, Results, HasProcess,
       Queued, Chosen
  <2>7. ASSUME NEW p \in aim, TimeoutKill(p) PROVE InLoop'
    <3>1. p \in DOMAIN proc /\ SIGXCPU \in Int /\ SIGXCPU # NotChecked
      BY DEF Types, TypeOK, SIGXCPU, NotChecked
    <3>2. CASE proc[p].st = "running"
      BY <2>1, <2>7, <3>1, <3>2, LoopChildEnds DEF TimeoutKill
    <3>3. CASE proc[p].st # "running"
      BY <2>1, <2>7, <3>3 DEF TimeoutKill, InLoop, Queue, Table, Ends, Results, HasProcess,
         Queued, Chosen
    <3> QED
      BY <3>2, <3>3
  <2>8. ASSUME NEW p \in DOMAIN proc, NEW c \in ExitCodes, Exit(p, c) PROVE InLoop'
    <3>1. c \in Int /\ c # NotChecked
      BY ExitCodesAssumption DEF NotChecked
    <3> QED
      BY <2>1, <2>8, <3>1, LoopChildEnds DEF Exit
  <2>9. CASE Tick
    BY <2>1, <2>9, LoopTicks
  <2> QED
    BY <1>8, <2>2, <2>3, <2>4, <2>5, <2>6, <2>7, <2>8, <2>9 DEF Recordless
<1>9. ASSUME NEW s, EditTests(s) PROVE FALSE
  BY <1>9 DEF EditTests, mainVars, LoopPcs
<1>10. CASE UNCHANGED vars
  BY <1>10, <1>a DEF vars, InLoop, Queue, Table, Ends, Results, HasProcess, Queued, Chosen
<1> QED
  BY <1>1, <1>2, <1>3, <1>4, <1>5, <1>6, <1>7, <1>8, <1>9, <1>10, Kinds, QuietEndIsEnd
  DEF Ending, Interrupt, Killed

-----------------------------------------------------------------------------
(***************************************************************************)
(* What the statistics know.                                                *)
(***************************************************************************)

LEMMA InformedStep == Types /\ Informed /\ [Next]_vars => Informed'
<1> SUFFICES ASSUME Types, Informed, [Next]_vars PROVE Informed'
  OBVIOUS
<1> USE DEF Informed
<1>1. CASE Ending /\ UNCHANGED disk
  BY <1>1 DEF Ending, End, FileKnows, Knows, disk, LoopPcs
<1>2. CASE Killed
  <2>1. UNCHANGED <<suite, removed>> /\ pc' = "idle"
    BY <1>2 DEF Killed, End
  <2>2. statsFile' = statsFile \/ statsFile'.state = "torn"
    BY <1>2 DEF Killed
  <2> QED
    BY <2>1, <2>2 DEF FileKnows, Knows, LoopPcs
<1>3. ASSUME NEW given, NEW match, Start(given, match) PROVE Informed'
  BY <1>3 DEF Start, disk, FileKnows, Knows, LoopPcs
<1>4. ASSUME NEW f, CreateMutantsForFile(f) PROVE Informed'
  BY <1>4 DEF CreateMutantsForFile, FileKnows, Knows, LoopPcs
<1>5. CASE CollectStats
  <2>1. \A f \in FunctionNames : stats'.tests[f] = suite \cap Covers[f]
    BY <1>5 DEF CollectStats, RunStats, NoStats
  <2>2. stats'.timed = suite /\ statsFile'.stats = stats' /\ UNCHANGED <<suite, removed>>
    BY <1>5 DEF CollectStats, RunStats, NoStats
  <2> QED
    BY <2>1, <2>2 DEF FileKnows, Knows
<1>6. CASE LoadStats
  <2> DEFINE old == statsFile.stats
             kept == ClearOutObsolete(old)
             new == NewTests(kept)
  <2>1. old \in Statistics /\ suite \subseteq Tests
    BY DEF Types, TypeOK
  <2>2. /\ kept.timed = old.timed
        /\ \A f \in FunctionNames : kept.tests[f] = old.tests[f] \cap suite
    BY <2>1, ClearedType
  <2>3. new = suite \ old.timed
    BY <2>2 DEF NewTests
  <2>4. /\ old.timed \subseteq suite \cup removed
        /\ \A f \in FunctionNames : (old.timed \cap Covers[f]) \ removed \subseteq old.tests[f]
    BY <1>6 DEF LoadStats, FileKnows
  <2>5. UNCHANGED <<suite, removed>>
    BY <1>6 DEF LoadStats
  <2>6. CASE new = {}
    <3>1. stats' = kept /\ statsFile' = statsFile
      BY <1>6, <2>6 DEF LoadStats
    <3> HIDE DEF old, kept, new
    <3>2. Knows'
      BY <2>2, <2>3, <2>4, <2>5, <2>6, <3>1 DEF Knows
    <3> QED
      BY <2>5, <3>1, <3>2 DEF FileKnows
  <2>7. CASE new # {}
    <3>1. stats' = RunStats(kept, new) /\ statsFile' = [state |-> "ok", stats |-> stats']
      BY <1>6, <2>7 DEF LoadStats
    <3> HIDE DEF old, kept, new
    <3>2. /\ stats'.timed = old.timed \cup new
          /\ \A f \in FunctionNames :
                 stats'.tests[f] = (old.tests[f] \cap suite) \cup (new \cap Covers[f])
      BY <2>2, <3>1 DEF RunStats
    <3>3. Knows'
      BY <2>3, <2>4, <2>5, <3>2 DEF Knows
    <3>4. statsFile'.stats = stats'
      BY <3>1
    <3>5. FileKnows'
      BY <2>3, <2>4, <2>5, <3>2, <3>4 DEF FileKnows
    <3> QED
      BY <3>3, <3>5
  <2> QED
    BY <2>6, <2>7
<1>7. CASE CleanTests
  BY <1>7 DEF CleanTests, disk, FileKnows, Knows
<1>8. CASE NoTestsForMutant \/ RegisterResult
  BY <1>8 DEF NoTestsForMutant, RegisterResult, FileKnows, Knows, LoopPcs
<1>9. CASE Recordless
  BY <1>9, RecordlessKeeps DEF FileKnows, Knows
<1>10. ASSUME NEW s, EditTests(s) PROVE Informed'
  BY <1>10 DEF EditTests, mainVars, FileKnows, Knows, LoopPcs
<1>11. CASE UNCHANGED vars
  BY <1>11 DEF vars, FileKnows, Knows
<1> QED
  BY <1>1, <1>2, <1>3, <1>4, <1>5, <1>6, <1>7, <1>8, <1>9, <1>10, <1>11, Kinds, QuietEndIsEnd
  DEF Ending, Interrupt, disk

-----------------------------------------------------------------------------
(***************************************************************************)
(* How many children there are.                                             *)
(***************************************************************************)

LEMMA UnreapedFinite ==
    ASSUME Types PROVE IsFiniteSet(Unreaped) /\ Cardinality(Unreaped) \in Nat
<1>1. Len(proc) \in Int /\ Unreaped \subseteq 1..Len(proc)
  BY DEF Types, Unreaped
<1>2. IsFiniteSet(1..Len(proc))
  BY <1>1, FS_Interval
<1> QED
  BY <1>1, <1>2, FS_Subset, FS_CardinalityType

LEMMA CountedStep == Types /\ Loop /\ Counted /\ [Next]_vars => Counted'
<1> SUFFICES ASSUME Types, Loop, Counted, [Next]_vars PROVE Counted'
  OBVIOUS
<1> USE DEF Counted, ChildrenBounded
<1>a. MaxChildren \in Nat \ {0} /\ IsFiniteSet(Unreaped) /\ Cardinality(Unreaped) \in Nat
  BY UnreapedFinite, MutmutAssumption
<1>b. proc' = proc => Unreaped' = Unreaped
  BY DEF Unreaped
<1>q. pc \in LoopPcs => Queue /\ Table
  BY DEF Loop, InLoop
<1>1. CASE Ending /\ UNCHANGED proc
  BY <1>1, <1>b DEF Ending, End
<1>2. CASE Interrupt
  <2>1. PICK ps : proc' = Terminated(ps)
    BY <1>2 DEF Interrupt
  <2>2. Unreaped' = Unreaped
    BY <2>1, TerminatedChildren DEF Types, SameChildren, Unreaped
  <2> QED
    BY <1>2, <2>2 DEF Interrupt, End
<1>3. ASSUME NEW given, NEW match, Start(given, match) PROVE Counted'
  <2>1. Unreaped' = {} /\ pc' = "generate"
    BY <1>3 DEF Start, Unreaped
  <2> QED
    BY <1>a, <2>1, FS_EmptySet
<1>4. ASSUME NEW f, CreateMutantsForFile(f) PROVE Counted'
  BY <1>4, <1>b DEF CreateMutantsForFile
<1>5. CASE CollectStats \/ LoadStats
  BY <1>5, <1>b DEF CollectStats, LoadStats
<1>6. CASE CleanTests
  <2>1. Unreaped' = {} /\ pc' = "loop"
    BY <1>6 DEF CleanTests, Types, Unreaped
  <2> QED
    BY <1>a, <2>1, FS_EmptySet
<1>7. CASE NoTestsForMutant \/ RegisterResult \/ LoopEnds
  <2>1. pc \in {"loop", "record"} /\ pc' \in {"loop", "drain"} /\ Unreaped' = Unreaped
    BY <1>7, <1>b DEF NoTestsForMutant, RegisterResult, LoopEnds
  <2> QED
    BY <2>1
<1>8. CASE Fork
  <2> DEFINE n == Len(proc) + 1
  <2>1. /\ DOMAIN proc' = DOMAIN proc \cup {n} /\ n \notin DOMAIN proc
        /\ \A q \in DOMAIN proc : proc'[q] = proc[q]
        /\ proc'[n].st = "running"
    BY <1>8, <1>q, ForkedChild DEF Types, Fork, LoopPcs
  <2> HIDE DEF n
  <2>2. Unreaped' = Unreaped \cup {n} /\ n \notin Unreaped
    BY <2>1 DEF Unreaped
  <2>3. Cardinality(Unreaped') = Cardinality(Unreaped) + 1
    BY <1>a, <2>2, FS_AddElement
  <2> QED
    BY <1>8, <1>a, <2>3 DEF Fork
<1>9. CASE RegisterPid
  <2>1. Unreaped' = Unreaped
    <3>1. /\ DOMAIN proc' = DOMAIN proc
          /\ \A q \in DOMAIN proc : proc'[q].st = proc[q].st
      BY <1>9, <1>q, RegisteredChild DEF Types, RegisterPid, LoopPcs, SameButOne, SameChildren
    <3> QED
      BY <3>1 DEF Unreaped
  <2>2. pc' = IF Cardinality(Unreaped) >= MaxChildren THEN "full" ELSE "loop"
    BY <1>9 DEF RegisterPid, Full
  <2> QED
    BY <1>a, <2>1, <2>2
<1>10. ASSUME NEW p \in DOMAIN proc, Wait(p) PROVE Counted'
  <2>1. /\ DOMAIN proc' = DOMAIN proc /\ proc'[p].st = "gone"
        /\ \A q \in DOMAIN proc \ {p} : proc'[q] = proc[q]
    BY <1>10, ReapedChild DEF Types, SameButOne, SameChildren
  <2>2. Unreaped' = Unreaped \ {p} /\ p \in Unreaped
    BY <1>10, <2>1 DEF Unreaped, Wait
  <2>3. Cardinality(Unreaped') = Cardinality(Unreaped) - 1
    BY <1>a, <2>2, FS_RemoveElement
  <2>4. pc' = "record"
    BY <1>10 DEF Wait
  <2> QED
    BY <1>a, <2>3, <2>4
<1>11. ASSUME NEW p \in DOMAIN proc, NEW c \in Int, proc[p].st = "running", pc' = pc,
              proc' = [proc EXCEPT ![p].st = "zombie", ![p].exit = c]
       PROVE  Counted'
  <2>1. /\ DOMAIN proc' = DOMAIN proc /\ proc'[p].st = "zombie"
        /\ \A q \in DOMAIN proc \ {p} : proc'[q] = proc[q]
    BY <1>11, EndedChild DEF Types, SameButOne, SameChildren
  <2>2. Unreaped' = Unreaped
    BY <1>11, <2>1 DEF Unreaped
  <2> QED
    BY <1>11, <2>2
<1>12. ASSUME NEW p \in aim, TimeoutKill(p) PROVE Counted'
  <2>1. p \in DOMAIN proc /\ SIGXCPU \in Int
    BY DEF Types, TypeOK, SIGXCPU
  <2>2. CASE proc[p].st = "running"
    BY <1>11, <1>12, <2>1, <2>2 DEF TimeoutKill
  <2>3. CASE proc[p].st # "running"
    BY <1>12, <1>b, <2>3 DEF TimeoutKill
  <2> QED
    BY <2>2, <2>3
<1>13. ASSUME NEW p \in DOMAIN proc, NEW c \in ExitCodes, Exit(p, c) PROVE Counted'
  <2>1. c \in Int
    BY ExitCodesAssumption
  <2> QED
    BY <1>11, <1>13, <2>1 DEF Exit
<1>14. CASE Tick
  <2>1. Unreaped' = Unreaped
    BY <1>14, AgedChildren DEF Types, SameChildren, Unreaped
  <2> QED
    BY <1>14, <2>1 DEF Tick, mainVars
<1>15. ASSUME NEW m, TimeoutLook(m) PROVE Counted'
  BY <1>15, <1>b DEF TimeoutLook, mainVars
<1>16. ASSUME NEW s, EditTests(s) PROVE Counted'
  BY <1>16, <1>b DEF EditTests, mainVars
<1>17. CASE UNCHANGED vars
  BY <1>17, <1>b DEF vars
<1> QED
  BY <1>1, <1>2, <1>3, <1>4, <1>5, <1>6, <1>7, <1>8, <1>9, <1>10, <1>12, <1>13, <1>14, <1>15,
     <1>16, <1>17, Kinds, QuietEndIsEnd
  DEF Ending, Killed, Recordless

-----------------------------------------------------------------------------
(***************************************************************************)
(* Who is timed out.                                                        *)
(***************************************************************************)

LEMMA TimedStep == Types /\ Loop /\ Timed /\ [Next]_vars => Timed'
<1> SUFFICES ASSUME Types, Loop, Timed, [Next]_vars, pc' \in LoopPcs,
                    NEW p \in DOMAIN proc'
             PROVE  Explained(p)'
  BY DEF Timed
<1>a. pc \in LoopPcs => Queue /\ Table
  BY DEF Loop, InLoop
<1>b. pc \in LoopPcs /\ p \in DOMAIN proc => Explained(p)
  BY DEF Timed
<1>c. UNCHANGED <<names, stats>> =>
        /\ Chosen' = Chosen
        /\ \A m : WallLimit(m)' = WallLimit(m) /\ CpuLimit(m)' = CpuLimit(m)
  BY DEF Chosen, WallLimit, CpuLimit, EstimatedTime, TestsFor
\* a child that is not touched
<1>d. ASSUME pc \in LoopPcs, p \in DOMAIN proc, UNCHANGED <<names, stats>>,
             proc'[p].mutant = proc[p].mutant, proc'[p].st = proc[p].st,
             proc'[p].exit = proc[p].exit, proc'[p].age = proc[p].age,
             p \in aim' => p \in aim
      PROVE  Explained(p)'
  BY <1>b, <1>c, <1>d DEF Explained, PastLimit
<1>1. CASE Ending
  BY <1>1 DEF Ending, End, LoopPcs
<1>2. ASSUME NEW given, NEW match, Start(given, match) PROVE FALSE
  BY <1>2 DEF Start, LoopPcs
<1>3. ASSUME NEW f, CreateMutantsForFile(f) PROVE FALSE
  BY <1>3 DEF CreateMutantsForFile, LoopPcs
<1>4. CASE CollectStats \/ LoadStats
  BY <1>4 DEF CollectStats, LoadStats, LoopPcs
<1>5. CASE CleanTests
  BY <1>5 DEF CleanTests, Types
<1>6. CASE NoTestsForMutant \/ RegisterResult \/ LoopEnds
  <2>1. pc \in LoopPcs /\ UNCHANGED <<names, stats, proc, aim>>
    BY <1>6 DEF NoTestsForMutant, RegisterResult, LoopEnds, LoopPcs
  <2> QED
    BY <1>d, <2>1
<1>7. CASE Fork
  <2>1. pc \in LoopPcs /\ UNCHANGED <<names, stats, aim>>
    BY <1>7 DEF Fork, LoopPcs
  <2>2. /\ DOMAIN proc' = DOMAIN proc \cup {Len(proc) + 1}
        /\ \A q \in DOMAIN proc : proc'[q] = proc[q]
        /\ Len(proc) + 1 \notin DOMAIN proc /\ proc'[Len(proc) + 1].st = "running"
    BY <1>7, <1>a, <2>1, ForkedChild DEF Types
  <2>3. CASE p \in DOMAIN proc
    BY <1>d, <2>1, <2>2, <2>3
  <2>4. CASE p \notin DOMAIN proc
    <3>1. p \notin aim /\ aim' = aim
      BY <2>1, <2>4 DEF Types, TypeOK
    <3>2. proc'[p].st = "running"
      BY <2>2, <2>4
    <3> QED
      BY <3>1, <3>2 DEF Explained
  <2> QED
    BY <2>3, <2>4
<1>8. CASE RegisterPid
  <2>1. pc \in LoopPcs /\ UNCHANGED <<names, stats, aim>>
    BY <1>8 DEF RegisterPid, LoopPcs
  <2>2. /\ SameButOne(Len(proc)) /\ proc'[Len(proc)].st = proc[Len(proc)].st
        /\ proc'[Len(proc)].exit = proc[Len(proc)].exit
        /\ proc'[Len(proc)].age = proc[Len(proc)].age
    BY <1>8, <1>a, <2>1, RegisteredChild DEF Types
  <2>3. /\ p \in DOMAIN proc /\ proc'[p].mutant = proc[p].mutant /\ proc'[p].st = proc[p].st
        /\ proc'[p].exit = proc[p].exit /\ proc'[p].age = proc[p].age
    BY <2>2 DEF SameButOne, SameChildren
  <2> QED
    BY <1>d, <2>1, <2>3
<1>9. ASSUME NEW r \in DOMAIN proc, Wait(r) PROVE Explained(p)'
  <2>1. pc \in LoopPcs /\ UNCHANGED <<names, stats, aim>>
    BY <1>9 DEF Wait, LoopPcs
  <2>2. SameButOne(r) /\ proc'[r].st = "gone"
    BY <1>9, ReapedChild DEF Types
  <2>3. CASE p = r
    BY <2>2, <2>3 DEF Explained
  <2>4. CASE p # r
    BY <1>d, <2>1, <2>2, <2>4 DEF SameButOne, SameChildren
  <2> QED
    BY <2>3, <2>4
<1>10. ASSUME NEW m \in Mutants, TimeoutLook(m) PROVE Explained(p)'
  <2>1. pc \in LoopPcs /\ UNCHANGED <<names, stats, proc>> /\ m \in Chosen
    BY <1>10 DEF TimeoutLook, mainVars, LoopPcs
  <2>2. p \in aim' => PastLimit(p)
    BY <1>10, <1>a, <2>1 DEF TimeoutLook, StartTimes, Overdue, Table, PastLimit
  <2> QED
    BY <1>b, <1>c, <2>1, <2>2 DEF Explained, PastLimit
<1>11. ASSUME NEW r \in aim, TimeoutKill(r) PROVE Explained(p)'
  <2>1. /\ pc \in LoopPcs /\ UNCHANGED <<names, stats>> /\ aim' \subseteq aim
        /\ r \in DOMAIN proc /\ SIGXCPU \in Int
    BY <1>11 DEF TimeoutKill, Types, TypeOK, SIGXCPU
  <2>2. CASE proc[r].st = "running"
    <3>1. SameButOne(r) /\ proc'[r].st = "zombie" /\ proc'[r].age = proc[r].age
      BY <1>11, <2>1, <2>2, EndedChild DEF TimeoutKill, Types
    <3>2. CASE p = r
      <4>1. PastLimit(r)
        BY <1>b, <2>1, <2>2, <3>2 DEF Explained
      <4>2. PastLimit(r)'
        BY <1>c, <2>1, <3>1, <4>1 DEF PastLimit, SameButOne, SameChildren
      <4> QED
        BY <3>1, <3>2, <4>2 DEF Explained
    <3>3. CASE p # r
      BY <1>d, <2>1, <3>1, <3>3 DEF SameButOne, SameChildren
    <3> QED
      BY <3>2, <3>3
  <2>3. CASE proc[r].st # "running"
    BY <1>11, <1>d, <2>1, <2>3 DEF TimeoutKill
  <2> QED
    BY <2>2, <2>3
<1>12. ASSUME NEW r \in DOMAIN proc, NEW c \in ExitCodes, Exit(r, c) PROVE Explained(p)'
  <2>1. pc \in LoopPcs /\ UNCHANGED <<names, stats, aim>> /\ c \in Int
    BY <1>12, ExitCodesAssumption DEF Exit
  <2>2. /\ SameButOne(r) /\ proc'[r].st = "zombie" /\ proc'[r].exit = c
        /\ proc'[r].age = proc[r].age
    BY <1>12, <2>1, EndedChild DEF Exit, Types
  <2>3. CASE p = r
    <3>1. c = SIGXCPU => proc[r].age >= CpuLimit(proc[r].mutant)
      BY <1>12 DEF Exit
    <3>2. proc'[r].mutant = proc[r].mutant
      BY <2>2 DEF SameButOne, SameChildren
    <3> QED
      BY <1>c, <2>1, <2>2, <2>3, <3>1, <3>2 DEF Explained
  <2>4. CASE p # r
    BY <1>d, <2>1, <2>2, <2>4 DEF SameButOne, SameChildren
  <2> QED
    BY <2>3, <2>4
<1>13. CASE Tick
  <2>1. pc \in LoopPcs /\ UNCHANGED <<names, stats, aim>>
    BY <1>13 DEF Tick, mainVars
  <2>2. /\ p \in DOMAIN proc /\ proc'[p].mutant = proc[p].mutant
        /\ proc'[p].st = proc[p].st /\ proc'[p].exit = proc[p].exit
        /\ proc[p].age \in Nat /\ proc'[p].age \in Nat /\ proc'[p].age >= proc[p].age
    BY <1>13, AgedChildren DEF Types, SameChildren
  <2>3. proc[p].mutant \in Mutants /\ \A m \in Chosen : m \in Mutants
    <3>1. proc[p] \in Process
      BY <2>2 DEF Types
    <3> QED
      BY <3>1 DEF Types, Chosen, Process
  <2>4. \A m \in Mutants : WallLimit(m) \in Nat /\ CpuLimit(m) \in Nat
    BY Limits DEF Types
  <2>5. PastLimit(p) => PastLimit(p)'
    <3>1. \A m \in Chosen : proc[p].age > WallLimit(m) => proc'[p].age > WallLimit(m)
      BY <2>2, <2>3, <2>4
    <3> QED
      BY <1>c, <2>1, <2>2, <3>1 DEF PastLimit
  <2>6. proc[p].age >= CpuLimit(proc[p].mutant) => proc'[p].age >= CpuLimit(proc[p].mutant)
    BY <2>2, <2>3, <2>4
  <2> QED
    BY <1>b, <1>c, <2>1, <2>2, <2>5, <2>6 DEF Explained
<1>14. ASSUME NEW s, EditTests(s) PROVE FALSE
  BY <1>14 DEF EditTests, mainVars, LoopPcs
<1>15. CASE UNCHANGED vars
  BY <1>15, <1>d DEF vars
<1> QED
  BY <1>1, <1>2, <1>3, <1>4, <1>5, <1>6, <1>7, <1>8, <1>9, <1>10, <1>11, <1>12, <1>13, <1>14,
     <1>15, Kinds, QuietEndIsEnd
  DEF Ending, Interrupt, Killed, Recordless

-----------------------------------------------------------------------------
(***************************************************************************)
(* How a run ends.                                                          *)
(***************************************************************************)

LEMMA EndsDecided ==
    ASSUME Types, OnDisk, Loop, Finish
    PROVE  /\ \A m \in Chosen : meta[FileOf[m]].code[m] # NotChecked
           /\ Unreaped = {}
<1>1. pc = "drain" /\ Unreaped = {} /\ pc \in LoopPcs
  BY DEF Finish, LoopPcs
<1>2. Queue /\ Table /\ Ends /\ Results
  BY <1>1 DEF Loop, InLoop
<1>3. reaped.pid = 0 /\ todo = << >>
  BY <1>1, <1>2 DEF Queue, Table, NoChild
<1>4. ASSUME NEW m \in Chosen PROVE code[m] # NotChecked
  <2>1. m \in Mutants
    BY DEF Chosen, Types
  <2>2. CASE HasProcess(m)
    <3>1. PICK p \in DOMAIN proc : proc[p].mutant = m
      BY <2>2 DEF HasProcess
    <3>2. p # 0
      BY DEF Types
    <3>3. proc[p].st = "gone"
      BY <1>1 DEF Unreaped
    <3>4. ended[m] # NotChecked
      BY <1>2, <3>1, <3>3 DEF Ends
    <3>5. code[m] = ended[m]
      BY <1>2, <1>3, <3>1, <3>2, <3>3 DEF Results
    <3> QED
      BY <3>4, <3>5
  <2>3. CASE ~HasProcess(m)
    <3>1. ~Queued(m)
      BY <1>3 DEF Queued
    <3>2. code[m] = NoTests
      BY <1>2, <2>1, <2>3, <3>1 DEF Results
    <3> QED
      BY <3>2 DEF NoTests, NotChecked
  <2> QED
    BY <2>2, <2>3
<1>5. ASSUME NEW m \in Chosen PROVE meta[FileOf[m]].code[m] = code[m]
  <2>1. m \in Mutants /\ m \in MutantsOf(FileOf[m])
    BY ConstantTypes DEF Chosen, Types
  <2>2. meta[FileOf[m]] = Meta([n \in MutantsOf(FileOf[m]) |-> code[n]])
    BY <1>1, <2>1 DEF OnDisk, SavedAtOnce
  <2>3. meta[FileOf[m]].code = [n \in MutantsOf(FileOf[m]) |-> code[n]]
    BY <2>2 DEF Meta
  <2> QED
    BY <2>1, <2>3
<1> QED
  BY <1>1, <1>4, <1>5

LEMMA OutcomeStep == Types /\ OnDisk /\ Loop /\ Outcome /\ [Next]_vars => Outcome'
<1> SUFFICES ASSUME Types, OnDisk, Loop, Outcome, [Next]_vars PROVE Outcome'
  OBVIOUS
<1> USE DEF Outcome, AllDecided, InterruptStopsAll
<1>1. CASE Finish
  <2>1. UNCHANGED <<names, meta, proc>> /\ last' = "finished" /\ pc' = "idle"
    BY <1>1 DEF Finish, End, disk
  <2>2. \A m \in Chosen : meta[FileOf[m]].code[m] # NotChecked
    BY <1>1, EndsDecided
  <2>3. Unreaped = {}
    BY <1>1, EndsDecided
  <2> QED
    BY <2>1, <2>2, <2>3 DEF Chosen, Unreaped
<1>2. CASE QuietEnd /\ ~Finish
  <2>1. last' \in {"failed", "raised"} /\ pc' = "idle"
    BY <1>2 DEF QuietEnd, InvalidSyntax, StatsFail, CleanTestsFail, PrintStatsRaises,
       WaitReturnsStray, End
  <2> QED
    BY <2>1
<1>3. CASE Interrupt
  <2>1. pc \in LoopPcs /\ pc' = "idle" /\ last' \in {"raised", "interrupted"}
    BY <1>3 DEF Interrupt, End
  <2>2. CASE \E p \in DOMAIN keyByPid : proc[p].st = "gone"
    <3>1. last' = "raised"
      BY <1>3, <2>2 DEF Interrupt, End
    <3> QED
      BY <2>1, <3>1
  <2>3. CASE ~\E p \in DOMAIN keyByPid : proc[p].st = "gone"
    <3>1. proc' = Terminated(DOMAIN keyByPid)
      BY <1>3, <2>3 DEF Interrupt
    <3>2. /\ DOMAIN proc' = DOMAIN proc
          /\ \A q \in DOMAIN proc :
                /\ proc'[q].known = proc[q].known
                /\ proc'[q].st = IF q \in DOMAIN keyByPid /\ proc[q].st = "running"
                                 THEN "zombie" ELSE proc[q].st
      BY <3>1, TerminatedChildren DEF Types, SameChildren
    <3>3. \A q \in DOMAIN proc : proc[q].known /\ proc[q].st = "running" => q \in DOMAIN keyByPid
      BY <2>1 DEF Loop, InLoop, Table
    <3>4. \A q \in Registered' : proc'[q].st # "running"
      BY <3>2, <3>3 DEF Registered
    <3> QED
      BY <2>1, <3>4
  <2> QED
    BY <2>2, <2>3
<1>4. CASE Killed
  BY <1>4 DEF Killed, End
<1>5. ASSUME NEW given, NEW match, Start(given, match) PROVE Outcome'
  BY <1>5 DEF Start
<1>6. ASSUME pc # "idle", last' = last PROVE Outcome'
  BY <1>6
<1>7. ASSUME NEW f, CreateMutantsForFile(f) PROVE Outcome'
  BY <1>6, <1>7 DEF CreateMutantsForFile
<1>8. CASE CollectStats \/ LoadStats \/ CleanTests \/ NoTestsForMutant \/ RegisterResult
  BY <1>6, <1>8 DEF CollectStats, LoadStats, CleanTests, NoTestsForMutant, RegisterResult
<1>9. CASE Recordless
  BY <1>6, <1>9, RecordlessKeeps DEF LoopPcs
<1>10. ASSUME NEW s, EditTests(s) PROVE Outcome'
  BY <1>10 DEF EditTests, mainVars, Chosen, Unreaped, Registered
<1>11. CASE UNCHANGED vars
  BY <1>11 DEF vars, Chosen, Unreaped, Registered
<1> QED
  BY <1>1, <1>2, <1>3, <1>4, <1>5, <1>7, <1>8, <1>9, <1>10, <1>11, Kinds

-----------------------------------------------------------------------------
(***************************************************************************)
(* The theorems.                                                            *)
(***************************************************************************)

LEMMA InitInv == Init => IInv
<1> SUFFICES ASSUME Init PROVE IInv
  OBVIOUS
<1>1. /\ pc = "idle" /\ last = "none" /\ proc = << >> /\ generated = {} /\ Blank
      /\ statsFile.state = "absent"
  BY DEF Init, Blank
<1>2. pc \notin LoopPcs
  BY <1>1 DEF LoopPcs
<1>3. Types
  <2>1. \A f \in Files : MetaOK(f)
    BY DEF Init, MetaOK, Meta, Fresh
  <2>2. statsFile \in [state : {"absent", "torn", "ok"}, stats : Statistics]
    BY ConstantTypes DEF Init
  <2>3. << >> \in Seq(Mutants) /\ << >> \in Seq(Process)
    OBVIOUS
  <2>4. TypeOK
    BY <1>1, <2>1, <2>2, ConstantTypes DEF Init, TypeOK, Blank, NoChild
  <2> QED
    BY <1>1, <2>2, <2>3, <2>4, ConstantTypes DEF Init, Types, Blank
<1>4. Unreaped = {} /\ Registered = {}
  BY <1>1 DEF Unreaped, Registered
<1>5. Counted
  BY <1>1, <1>4, FS_EmptySet, MutmutAssumption DEF Counted, ChildrenBounded
<1> QED
  BY <1>1, <1>2, <1>3, <1>5
  DEF IInv, OnDisk, SavedAtOnce, Loop, Timed, Informed, FileKnows, Knows, Outcome, AllDecided,
      InterruptStopsAll

LEMMA Invariance == Spec => []IInv
<1>1. IInv /\ [Next]_vars => IInv'
  BY TypesStep, OnDiskStep, LoopStep, TimedStep, CountedStep, InformedStep, OutcomeStep DEF IInv
<1> QED
  BY <1>1, InitInv, PTL DEF Spec

(* Whatever the order in which children end, are timed out and are reaped, *)
(* a recorded result is the end of a child that ran this very mutant, or   *)
(* "no tests"; and a child was timed out only past the wall-clock limit of *)
(* a mutant of its file or its own limit of processor time (_run,          *)
(* register_result, timeout_checker).                                      *)
THEOREM Attribution == Spec => []ResultsExplained
<1>1. IInv => ResultsAttributed
  <2> SUFFICES ASSUME IInv, pc \in LoopPcs, NEW m \in Mutants, code[m] # NotChecked
               PROVE  code[m] = IF ended[m] # NotChecked THEN ended[m] ELSE NoTests
    BY DEF ResultsAttributed
  <2>1. Ends /\ Results
    BY DEF IInv, Loop, InLoop
  <2>2. CASE HasProcess(m)
    <3>1. PICK p \in DOMAIN proc : proc[p].mutant = m
      BY <2>2 DEF HasProcess
    <3>2. code[m] = ended[m]
      BY <2>1, <3>1 DEF Results
    <3> QED
      BY <3>2
  <2>3. CASE ~HasProcess(m)
    BY <2>1, <2>3 DEF Ends, Results
  <2> QED
    BY <2>2, <2>3
<1>2. IInv => TimeoutsExplained
  BY DEF IInv, Timed, Explained, PastLimit, TimeoutsExplained
<1> QED
  BY <1>1, <1>2, Invariance, PTL DEF ResultsExplained

(* A result is on disk as soon as it is known, a run that ends normally    *)
(* has one for every mutant it was asked about and leaves no child behind, *)
(* and its statistics name every test that reaches a function and was      *)
(* never removed (save, _run, collect_or_load_stats).                      *)
THEOREM Memory == Spec => []NothingIsForgotten
<1>1. IInv => NothingIsForgotten
  BY DEF IInv, Types, OnDisk, Outcome, Informed, Knows, StatsKnowTests, NothingIsForgotten
<1> QED
  BY <1>1, Invariance, PTL

(* Never more than max_children children, the loop waits only when there   *)
(* are as many, and none that is registered goes on after Ctrl-C (_run,    *)
(* register_pid, stop_children).                                           *)
THEOREM Custody == Spec => []ChildrenAreKept
<1>1. IInv => ChildrenAreKept
  BY DEF IInv, Counted, Outcome, ChildrenAreKept
<1> QED
  BY <1>1, Invariance, PTL

=============================================================================
