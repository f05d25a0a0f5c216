--------------------------- MODULE ClonePoolProofs ---------------------------
(***************************************************************************)
(* Theorems about ClonePool, for any number of clones, any commits, any    *)
(* branches of the project and any number of faults.                       *)
(***************************************************************************)
EXTENDS ClonePool, TLAPS

LEMMA CloneNumbers ==
    /\ NbClones \in Nat /\ NbClones >= 1
    /\ 1 \in Clones /\ NbClones \in Clones
    /\ \A i \in Clones : i \in Nat /\ 1 <= i /\ i <= NbClones
  BY ClonesAssumption DEF Clones

LEMMA Names == /\ "unknown" \notin Requests
               /\ Requests \subseteq Contents
               /\ "main" \in Requests /\ "main" \in Branches
  BY CommitsAssumption DEF Requests, Contents, Branches

(***************************************************************************)
(* The order of use: moving a clone to the end keeps it an order of all    *)
(* the clones.                                                             *)
(***************************************************************************)
Complete(order) == \A c \in Clones : \E i \in Clones : order[i] = c

LEMMA MovedType ==
    ASSUME NEW order \in [Clones -> Clones], NEW c \in Clones
    PROVE  MovedToEnd(order, c) \in [Clones -> Clones]
  BY ClonesAssumption DEF MovedToEnd, Clones

LEMMA MovedInjective ==
    ASSUME NEW order \in [Clones -> Clones], NEW c \in Clones, IsInjective(order)
    PROVE  IsInjective(MovedToEnd(order, c))
<1> DEFINE m == MovedToEnd(order, c)
           Passed(i) == \E j \in 1 .. i : order[j] = c
<1>1. /\ DOMAIN order = Clones /\ DOMAIN m = Clones
      /\ \A a, b \in Clones : order[a] = order[b] => a = b
  BY DEF IsInjective, MovedToEnd
<1>2. \A i \in Clones : i < NbClones =>
        /\ Passed(i) => m[i] = order[i + 1] /\ i + 1 \in Clones
        /\ ~Passed(i) => m[i] = order[i]
        /\ m[i] # c
  <2> SUFFICES ASSUME NEW i \in Clones, i < NbClones
               PROVE  /\ Passed(i) => m[i] = order[i + 1] /\ i + 1 \in Clones
                      /\ ~Passed(i) => m[i] = order[i]
                      /\ m[i] # c
    OBVIOUS
  <2>1. i + 1 \in Clones /\ i \in 1 .. i /\ i # NbClones /\ i + 1 \notin 1 .. i
    BY CloneNumbers DEF Clones
  <2>2. Passed(i) => m[i] = order[i + 1]
    BY <2>1 DEF MovedToEnd
  <2>3. ~Passed(i) => m[i] = order[i]
    BY <2>1 DEF MovedToEnd
  <2>4. 1 .. i \subseteq Clones
    BY CloneNumbers DEF Clones
  <2>5. Passed(i) => order[i + 1] # c
    BY <1>1, <2>1, <2>4
  <2>6. ~Passed(i) => order[i] # c
    BY <2>1
  <2> QED
    BY <2>1, <2>2, <2>3, <2>5, <2>6
<1>3. m[NbClones] = c
  BY CloneNumbers DEF MovedToEnd
<1>4. ASSUME NEW a \in Clones, NEW b \in Clones, a < b, b < NbClones PROVE m[a] # m[b]
  <2>1. Passed(a) => Passed(b)
    BY <1>4, CloneNumbers
  <2>2. a < NbClones /\ a + 1 # b + 1 /\ a # b /\ a # b + 1
    BY <1>4, CloneNumbers
  <2> HIDE DEF Passed, m
  <2> QED
    BY <1>1, <1>2, <1>4, <2>1, <2>2
<1>5. ASSUME NEW a \in Clones, NEW b \in Clones, a < b PROVE m[a] # m[b]
  <2>1. CASE b < NbClones
    BY <1>4, <1>5, <2>1
  <2>2. CASE b = NbClones
    BY <1>2, <1>3, <1>5, <2>2
  <2> QED
    BY <2>1, <2>2, CloneNumbers
<1> HIDE DEF m
<1>6. \A a, b \in Clones : m[a] = m[b] => a = b
  BY <1>5, CloneNumbers
<1> QED
  BY <1>1, <1>6 DEF IsInjective, m

LEMMA MovedComplete ==
    ASSUME NEW order \in [Clones -> Clones], NEW c \in Clones, IsInjective(order),
           Complete(order)
    PROVE  Complete(MovedToEnd(order, c))
<1> SUFFICES ASSUME NEW d \in Clones
             PROVE  \E i \in Clones : MovedToEnd(order, c)[i] = d
  BY DEF Complete
<1>1. PICK p \in Clones : order[p] = c
  BY DEF Complete
<1>2. PICK q \in Clones : order[q] = d
  BY DEF Complete
<1>3. CASE q = p
  <2>1. MovedToEnd(order, c)[NbClones] = c
    BY CloneNumbers DEF MovedToEnd
  <2> QED
    BY <1>1, <1>2, <1>3, <2>1, CloneNumbers
<1>4. CASE q < p
  <2>1. q < NbClones /\ \A j \in 1 .. q : order[j] # c
    BY <1>1, <1>4, CloneNumbers DEF IsInjective, Clones
  <2> QED
    BY <1>2, <2>1, CloneNumbers DEF MovedToEnd
<1>5. CASE q > p
  <2>1. q - 1 \in Clones /\ q - 1 < NbClones /\ p \in 1 .. q - 1 /\ (q - 1) + 1 = q
    BY <1>1, <1>5, CloneNumbers DEF Clones
  <2> QED
    BY <1>1, <1>2, <2>1, CloneNumbers DEF MovedToEnd
<1> QED
  BY <1>3, <1>4, <1>5, CloneNumbers

LEMMA FrontType ==
    ASSUME NEW commits \in [Clones -> Requests \cup {"unknown"}], NEW commit \in Requests
    PROVE  MovedToFront(commits, commit) \in [Clones -> Requests \cup {"unknown"}]
  BY ClonesAssumption DEF MovedToFront, Clones

(***************************************************************************)
(* Type correctness, one step per action.                                  *)
(***************************************************************************)
LEMMA HandOutType ==
    ASSUME TypeOK, NEW c \in Clones, HandOut(c),
           UNCHANGED <<wanted, trying, clone, recorded, head, torn, faults>>,
           stateFile' \in {stateFile, recorded}
    PROVE  TypeOK'
<1>1. /\ usage' \in [Clones -> Clones] /\ IsInjective(usage')
      /\ recent' \in [Clones -> Requests \cup {"unknown"}]
  BY MovedType, MovedInjective, FrontType DEF TypeOK, HandOut, Return
<1>2. /\ handed' \in [commit: Requests \cup {"unknown"}, clone: Clones]
      /\ pc' \in Labels
  BY DEF TypeOK, HandOut, Return, Labels
<1> QED
  BY <1>1, <1>2 DEF TypeOK

LEMMA TypeStep == TypeOK /\ [Next]_vars => TypeOK'
<1> SUFFICES ASSUME TypeOK, [Next]_vars PROVE TypeOK'
  OBVIOUS
<1> USE DEF Labels
<1>0. /\ InOrder \in [Clones -> Clones] /\ IsInjective(InOrder)
      /\ Unknown \in [Clones -> Requests \cup {"unknown"}]
  BY DEF InOrder, Unknown, IsInjective
<1>1. CASE Start
  BY <1>0, <1>1, Names DEF TypeOK, Start
<1>2. CASE StartTorn
  BY <1>2 DEF TypeOK, StartTorn, vars
<1>3. CASE Stop
  BY <1>3 DEF TypeOK, Stop
<1>4. ASSUME NEW commit \in Commits \cup {"main"}, Request(commit) PROVE TypeOK'
  BY <1>4 DEF TypeOK, Request, Requests
<1>5. CASE Reuse
  BY <1>5, HandOutType DEF Reuse, Holding
<1>6. CASE Choose
  BY <1>6, CloneNumbers DEF TypeOK, Choose, Requests, Branches
<1>7. CASE Checkout
  BY <1>7 DEF TypeOK, Checkout, Contents
<1>8. CASE CheckoutFails
  BY <1>8 DEF TypeOK, CheckoutFails, NextBranch, Branches
<1>9. CASE SubmodulesFail
  <2>1. head' \in [Clones -> Contents] /\ faults' \in Nat
    BY <1>9 DEF TypeOK, SubmodulesFail, Contents
  <2> QED
    BY <1>9, <2>1 DEF TypeOK, SubmodulesFail, NextBranch, Branches
<1>10. CASE ForcedCheckout
  BY <1>10 DEF TypeOK, ForcedCheckout, Contents
<1>11. CASE ForcedFails
  BY <1>11 DEF TypeOK, ForcedFails
<1>12. CASE Record
  BY <1>12 DEF TypeOK, Record
<1>13. CASE Write
  BY <1>13, HandOutType DEF Write, TypeOK
<1>14. CASE Pull
  BY <1>14 DEF TypeOK, Pull
<1>15. CASE PullFails
  BY <1>15 DEF TypeOK, PullFails
<1>16. CASE Crash
  <2>1. torn' \in BOOLEAN
    BY <1>16 DEF TypeOK, Crash
  <2>2. faults' \in Nat
    BY <1>16 DEF TypeOK, Crash
  <2> QED
    BY <1>16, <2>1, <2>2 DEF TypeOK, Crash
<1>17. CASE UNCHANGED vars
  BY <1>17 DEF TypeOK, vars
<1> QED
  BY <1>1, <1>2, <1>3, <1>4, <1>5, <1>6, <1>7, <1>8, <1>9, <1>10, <1>11, <1>12, <1>13,
     <1>14, <1>15, <1>16, <1>17
  DEF Next, Call

(* Every variable keeps its shape; above all, usage_order stays an order   *)
(* in which no clone appears twice.                                        *)
THEOREM Typing == Spec => []TypeOK
<1>1. ASSUME Init PROVE TypeOK
  <2>1. head \in [Clones -> Contents]
    BY <1>1, ExistingAssumption DEF Init, Contents
  <2> QED
    BY <1>1, <2>1, Names, CloneNumbers
    DEF Init, TypeOK, Labels, None, Unknown, InOrder, IsInjective, Contents
<1> QED
  BY <1>1, TypeStep, PTL DEF Spec

(***************************************************************************)
(* The commits handed out last, and how they lie in the order of use.      *)
(***************************************************************************)
Distinct(commits) ==
    \A i, j \in Clones : commits[i] = commits[j] /\ i # j => commits[i] = "unknown"

\* the history has no gap: nothing was handed out before the beginning
NoGap(commits) ==
    \A i, j \in Clones : i < j /\ commits[i] = "unknown" => commits[j] = "unknown"

LEMMA FrontShape ==
    ASSUME NEW commits \in [Clones -> Requests \cup {"unknown"}], NEW commit \in Requests,
           Distinct(commits), NoGap(commits)
    PROVE  Distinct(MovedToFront(commits, commit)) /\ NoGap(MovedToFront(commits, commit))
<1> DEFINE m == MovedToFront(commits, commit)
           Shifted(i) == \A j \in 1 .. i - 1 : commits[j] # commit
<1>1. m[1] = commit /\ commit # "unknown"
  BY CloneNumbers, Names DEF MovedToFront
<1>2. \A i \in Clones : i > 1 =>
        /\ i - 1 \in Clones
        /\ Shifted(i) => m[i] = commits[i - 1]
        /\ ~Shifted(i) => m[i] = commits[i]
  <2> SUFFICES ASSUME NEW i \in Clones, i > 1
               PROVE  /\ i - 1 \in Clones
                      /\ Shifted(i) => m[i] = commits[i - 1]
                      /\ ~Shifted(i) => m[i] = commits[i]
    OBVIOUS
  <2>1. i - 1 \in Clones /\ i # 1
    BY CloneNumbers DEF Clones
  <2> QED
    BY <2>1 DEF MovedToFront
<1>3. \A i \in Clones : i > 1 /\ Shifted(i) => commits[i - 1] # commit
  BY CloneNumbers DEF Clones
<1>4. \A i \in Clones : i > 1 /\ ~Shifted(i) => commits[i] # commit
  <2> SUFFICES ASSUME NEW i \in Clones, i > 1, ~Shifted(i), commits[i] = commit
               PROVE  FALSE
    OBVIOUS
  <2>1. PICK j \in 1 .. i - 1 : commits[j] = commit
    OBVIOUS
  <2>2. j \in Clones /\ j # i
    BY CloneNumbers DEF Clones
  <2> QED
    BY <1>1, <2>1, <2>2 DEF Distinct
<1>5. \A i \in Clones : i > 1 => m[i] # commit
  BY <1>2, <1>3, <1>4
<1>6. \A i, j \in Clones : i <= j /\ Shifted(j) => Shifted(i)
  BY CloneNumbers
<1> HIDE DEF Shifted, m
<1>7. ASSUME NEW i \in Clones, NEW j \in Clones, i > 1, i < j, m[i] = m[j]
      PROVE  m[i] = "unknown"
  <2>1. j > 1 /\ i - 1 # j - 1 /\ i - 1 # j /\ i # j /\ (Shifted(j) => Shifted(i))
    BY <1>6, <1>7, CloneNumbers
  <2> QED
    BY <1>2, <1>7, <2>1 DEF Distinct
<1>8. ASSUME NEW i \in Clones, NEW j \in Clones, i < j, m[i] = m[j]
      PROVE  m[i] = "unknown"
  BY <1>1, <1>5, <1>7, <1>8, CloneNumbers
<1>9. Distinct(m)
  BY <1>8, CloneNumbers DEF Distinct
<1>10. ASSUME NEW i \in Clones, NEW j \in Clones, i < j, m[i] = "unknown"
       PROVE  m[j] = "unknown"
  <2>1. i > 1 /\ j > 1 /\ i - 1 < j - 1 /\ i - 1 < j /\ (Shifted(j) => Shifted(i))
    BY <1>1, <1>6, <1>10, CloneNumbers
  <2> QED
    BY <1>2, <1>10, <2>1 DEF NoGap
<1>11. NoGap(m)
  BY <1>10 DEF NoGap
<1> QED
  BY <1>9, <1>11 DEF m

\* the clone that was used last but i - 1
Used(i) == usage[NbClones + 1 - i]

(***************************************************************************)
(* The inductive invariant.  A call that has not found its commit works on *)
(* the clone used least recently; apart from what it has just recorded,    *)
(* the i-th of the last commits lies in the i-th of the last clones used.  *)
(***************************************************************************)
Searching == {"Checkout", "Forced", "Record"}

CallInv ==
    /\ pc \in Searching => Holding(wanted) = {}
    /\ pc \in Searching \cup {"Write"} => clone = usage[1]
    /\ pc = "Write" => recorded[clone] = wanted

Cached ==
    \A i \in Clones :
        recent[i] # "unknown" /\ (pc = "Write" => i < NbClones) => recorded[Used(i)] = recent[i]

IInv ==
    /\ CallInv
    /\ pc # "down" => Cached
    /\ Complete(usage)
    /\ Distinct(recent) /\ NoGap(recent)
    /\ OneClonePerCommit

LEMMA UsedType == TypeOK => \A i \in Clones : NbClones + 1 - i \in Clones /\ Used(i) \in Clones
  BY CloneNumbers DEF TypeOK, Used, Clones

(* A hit: clone c, recorded to hold wanted, was the p-th in the order.     *)
LEMMA HitCached ==
    ASSUME TypeOK, Cached, pc = "Get", Complete(usage), Distinct(recent), NoGap(recent),
           Unambiguous(recorded),
           NEW c \in Holding(wanted), HandOut(c), UNCHANGED recorded
    PROVE  Cached'
<1> DEFINE N == NbClones
<1>0. c \in Clones /\ recorded[c] = wanted /\ wanted # "unknown"
  BY Names DEF Holding, TypeOK
<1>1. PICK p \in Clones : usage[p] = c
  BY <1>0 DEF Complete
<1>2. /\ recent' = MovedToFront(recent, wanted) /\ usage' = MovedToEnd(usage, c)
      /\ pc' # "Write"
  BY DEF HandOut, Return
<1> SUFFICES ASSUME NEW i \in Clones, recent'[i] # "unknown"
             PROVE  recorded[usage'[N + 1 - i]] = recent'[i]
  BY DEF Cached, Used
<1>3. CASE i = 1
  <2>1. recent'[i] = wanted /\ usage'[N + 1 - i] = c
    BY <1>2, <1>3, CloneNumbers DEF MovedToFront, MovedToEnd
  <2> QED
    BY <1>0, <2>1
<1>4. CASE i > 1 /\ \A j \in 1 .. i - 1 : recent[j] # wanted
  <2>1. i - 1 \in Clones /\ recent'[i] = recent[i - 1] /\ i # 1
    BY <1>2, <1>4, CloneNumbers DEF MovedToFront, Clones
  <2>2. recorded[usage[N + 1 - (i - 1)]] = recent[i - 1]
    BY <2>1, CloneNumbers DEF Cached, Used
  <2>3. ASSUME p > N + 1 - i PROVE FALSE
    <3> DEFINE k == N + 1 - p
    <3>1. k \in Clones /\ k \in 1 .. i - 1 /\ k <= i - 1 /\ N + 1 - k = p
      BY <2>3, CloneNumbers DEF Clones
    <3>2. recent[k] # "unknown"
      BY <2>1, <3>1, CloneNumbers DEF NoGap
    <3>3. recorded[usage[N + 1 - k]] = recent[k]
      BY <3>1, <3>2 DEF Cached, Used
    <3> QED
      BY <1>0, <1>1, <1>4, <3>1, <3>3
  <2>4. N + 1 - i \in Clones /\ N + 1 - i < N /\ N + 1 - (i - 1) = (N + 1 - i) + 1
        /\ p \in 1 .. N + 1 - i
    BY <1>4, <2>3, CloneNumbers DEF Clones
  <2>5. usage'[N + 1 - i] = usage[(N + 1 - i) + 1]
    BY <1>1, <1>2, <2>4 DEF MovedToEnd
  <2> QED
    BY <2>1, <2>2, <2>4, <2>5
<1>5. CASE i > 1 /\ \E j \in 1 .. i - 1 : recent[j] = wanted
  <2>1. PICK j \in 1 .. i - 1 : recent[j] = wanted
    BY <1>5
  <2>2. j \in Clones /\ j < i /\ i # 1 /\ j \in Nat
    BY <1>5, CloneNumbers DEF Clones
  <2>3. recent'[i] = recent[i]
    BY <1>2, <1>5, <2>1, <2>2 DEF MovedToFront
  <2>4. recorded[usage[N + 1 - i]] = recent[i] /\ recorded[usage[N + 1 - j]] = wanted
    BY <1>0, <2>1, <2>2, <2>3 DEF Cached, Used
  <2>5. N + 1 - j \in Clones /\ usage[N + 1 - j] \in Clones /\ N + 1 - i \in Clones
    BY <2>2, UsedType DEF Used
  <2>6. usage[N + 1 - j] = c
    BY <1>0, <2>4, <2>5 DEF Unambiguous
  <2>7. p = N + 1 - j
    BY <1>1, <2>5, <2>6 DEF TypeOK, IsInjective
  <2> DEFINE k == N + 1 - i
  <2>8. k < N /\ k # N /\ p > k
    BY <2>2, <2>7, CloneNumbers
  <2>9. \A q \in 1 .. k : q \in Clones /\ q # p
    BY <2>5, <2>8, CloneNumbers DEF Clones
  <2>10. ~ \E q \in 1 .. k : usage[q] = c
    BY <1>1, <2>9 DEF TypeOK, IsInjective
  <2>11. k \in Clones
    BY <2>5
  <2> HIDE DEF k
  <2>12. usage'[k] = usage[k]
    BY <1>2, <2>8, <2>10, <2>11 DEF MovedToEnd
  <2> QED
    BY <2>3, <2>4, <2>12 DEF k
<1> QED
  BY <1>3, <1>4, <1>5, CloneNumbers

(* A miss: the least recently used clone now holds the commit.             *)
LEMMA MissCached ==
    ASSUME TypeOK, Cached, pc = "Write", clone = usage[1], recorded[clone] = wanted,
           Unambiguous(recorded), HandOut(clone), UNCHANGED recorded
    PROVE  Cached'
<1> DEFINE N == NbClones
<1>0. wanted # "unknown" /\ clone \in Clones
  BY Names DEF TypeOK
<1>1. /\ recent' = MovedToFront(recent, wanted) /\ usage' = MovedToEnd(usage, clone)
      /\ pc' # "Write"
  BY DEF HandOut, Return
<1>2. \A j \in Clones : j < N => recent[j] # wanted
  <2> SUFFICES ASSUME NEW j \in Clones, j < N, recent[j] = wanted PROVE FALSE
    OBVIOUS
  <2>1. recorded[usage[N + 1 - j]] = wanted
    BY <1>0 DEF Cached, Used
  <2>2. N + 1 - j \in Clones /\ usage[N + 1 - j] \in Clones /\ N + 1 - j # 1
    BY UsedType, CloneNumbers DEF Used
  <2>3. usage[N + 1 - j] = clone
    BY <1>0, <2>1, <2>2 DEF Unambiguous
  <2> QED
    BY <2>2, <2>3, CloneNumbers DEF TypeOK, IsInjective
<1> SUFFICES ASSUME NEW i \in Clones, recent'[i] # "unknown"
             PROVE  recorded[usage'[N + 1 - i]] = recent'[i]
  BY DEF Cached, Used
<1>3. CASE i = 1
  <2>1. recent'[i] = wanted /\ usage'[N + 1 - i] = clone
    BY <1>1, <1>3, CloneNumbers DEF MovedToFront, MovedToEnd
  <2> QED
    BY <2>1
<1>4. CASE i > 1
  <2>1. \A j \in 1 .. i - 1 : j \in Clones /\ j < N
    BY <1>4, CloneNumbers DEF Clones
  <2>2. i - 1 \in Clones /\ i - 1 < N /\ i # 1
    BY <1>4, CloneNumbers DEF Clones
  <2>3. recent'[i] = recent[i - 1]
    BY <1>1, <1>2, <1>4, <2>1, <2>2 DEF MovedToFront
  <2>4. recorded[usage[N + 1 - (i - 1)]] = recent[i - 1]
    BY <2>2, <2>3 DEF Cached, Used
  <2>5. N + 1 - i \in Clones /\ N + 1 - i < N /\ 1 \in 1 .. N + 1 - i
        /\ N + 1 - (i - 1) = (N + 1 - i) + 1
    BY <1>4, CloneNumbers DEF Clones
  <2>6. usage'[N + 1 - i] = usage[(N + 1 - i) + 1]
    BY <1>1, <2>5 DEF MovedToEnd
  <2> QED
    BY <2>3, <2>4, <2>5, <2>6
<1>5. i = 1 \/ i > 1
  BY CloneNumbers
<1> QED
  BY <1>3, <1>4, <1>5

LEMMA IInvStep == TypeOK /\ IInv /\ [Next]_vars => IInv'
<1> SUFFICES ASSUME TypeOK, IInv, [Next]_vars PROVE IInv'
  OBVIOUS
<1> USE DEF Searching
\* what a call does before it records anything
<1> DEFINE Same == UNCHANGED <<recorded, usage, stateFile, recent>>
<1>0. ASSUME Same, CallInv', pc' # "down" => pc # "down" /\ (pc = "Write" => pc' = "Write")
      PROVE  IInv'
  <2>1. Cached /\ (pc = "Write" => pc' = "Write") => Cached'
    BY <1>0 DEF Cached, Used
  <2> QED
    BY <1>0, <2>1 DEF IInv, Complete, Distinct, NoGap, OneClonePerCommit, Unambiguous
<1>1. CASE Start
  <2>1. Complete(InOrder)
    BY DEF Complete, InOrder
  <2>2. Distinct(Unknown) /\ NoGap(Unknown)
    BY DEF Distinct, NoGap, Unknown
  <2>3. Cached'
    BY <1>1 DEF Start, Cached, Unknown
  <2> QED
    BY <1>1, <2>1, <2>2, <2>3 DEF Start, IInv, CallInv, OneClonePerCommit
<1>2. CASE StartTorn
  BY <1>0, <1>2 DEF StartTorn, vars, IInv, CallInv, Holding
<1>3. CASE Stop
  BY <1>0, <1>3 DEF Stop, CallInv
<1>4. ASSUME NEW commit \in Commits \cup {"main"}, Request(commit) PROVE IInv'
  BY <1>0, <1>4 DEF Request, CallInv
<1>5. ASSUME pc = "Get", NEW c \in Holding(wanted), HandOut(c),
             UNCHANGED <<wanted, trying, clone, recorded, head, stateFile, torn, faults>>
      PROVE  IInv'
  <2>1. c \in Clones /\ pc' \in {"Pull", "Idle"}
    BY <1>5 DEF Holding, HandOut, Return
  <2>2. Cached'
    BY <1>5, HitCached DEF IInv, OneClonePerCommit
  <2>3. Complete(usage')
    BY <1>5, <2>1, MovedComplete DEF IInv, TypeOK, HandOut
  <2>4. Distinct(recent') /\ NoGap(recent')
    BY <1>5, FrontShape DEF IInv, TypeOK, HandOut, Return
  <2>5. OneClonePerCommit'
    BY <1>5 DEF IInv, OneClonePerCommit, Unambiguous
  <2> QED
    BY <2>1, <2>2, <2>3, <2>4, <2>5 DEF IInv, CallInv
<1>6. CASE Choose
  BY <1>0, <1>6 DEF Choose, CallInv, Holding
<1>7. CASE Checkout
  BY <1>0, <1>7 DEF Checkout, IInv, CallInv, Holding
<1>8. CASE CheckoutFails
  BY <1>0, <1>8 DEF CheckoutFails, NextBranch, IInv, CallInv, Holding
<1>9. CASE SubmodulesFail
  BY <1>0, <1>9 DEF SubmodulesFail, NextBranch, IInv, CallInv, Holding
<1>10. CASE ForcedCheckout
  BY <1>0, <1>10 DEF ForcedCheckout, IInv, CallInv, Holding
<1>11. CASE ForcedFails
  BY <1>0, <1>11 DEF ForcedFails, CallInv
<1>12. CASE Record
  <2>1. clone \in Clones /\ clone = usage[1] /\ pc' = "Write" /\ pc # "Write"
        /\ \A c \in Clones : recorded[c] # wanted
    BY <1>12 DEF TypeOK, IInv, CallInv, Record, Holding
  <2>2. recorded'[clone] = wanted /\ \A c \in Clones : c # clone => recorded'[c] = recorded[c]
    BY <1>12, <2>1 DEF TypeOK, Record
  <2>3. Unambiguous(recorded')
    BY <2>1, <2>2 DEF IInv, OneClonePerCommit, Unambiguous
  <2>4. ASSUME NEW i \in Clones, recent[i] # "unknown", i < NbClones
        PROVE  recorded'[Used(i)] = recent[i]
    <3>1. recorded[Used(i)] = recent[i]
      BY <1>12, <2>1, <2>4 DEF IInv, Cached, Record
    <3>2. NbClones + 1 - i \in Clones /\ Used(i) \in Clones /\ NbClones + 1 - i # 1
      BY <2>4, UsedType, CloneNumbers
    <3>3. Used(i) # clone
      BY <2>1, <3>2, CloneNumbers DEF Used, TypeOK, IsInjective
    <3> QED
      BY <2>2, <3>1, <3>2, <3>3
  <2>5. Cached'
    BY <1>12, <2>1, <2>4 DEF Cached, Used, Record
  <2> QED
    BY <1>12, <2>1, <2>2, <2>3, <2>5
    DEF Record, IInv, CallInv, Complete, Distinct, NoGap, OneClonePerCommit, Unambiguous
<1>13. CASE Write
  <2>1. clone \in Clones /\ clone = usage[1] /\ recorded[clone] = wanted
        /\ pc' \in {"Pull", "Idle"}
    BY <1>13 DEF Write, HandOut, Return, TypeOK, IInv, CallInv
  <2>2. Cached'
    BY <1>13, <2>1, MissCached DEF Write, IInv, OneClonePerCommit
  <2>3. Complete(usage')
    BY <1>13, <2>1, MovedComplete DEF Write, IInv, TypeOK, HandOut
  <2>4. Distinct(recent') /\ NoGap(recent')
    BY <1>13, FrontShape DEF Write, IInv, TypeOK, HandOut, Return
  <2>5. OneClonePerCommit'
    BY <1>13 DEF Write, IInv, OneClonePerCommit, Unambiguous
  <2> QED
    BY <2>1, <2>2, <2>3, <2>4, <2>5 DEF IInv, CallInv
<1>14. CASE Pull
  BY <1>0, <1>14 DEF Pull, CallInv
<1>15. CASE PullFails
  BY <1>0, <1>15 DEF PullFails, CallInv
<1>16. CASE Crash
  BY <1>0, <1>16 DEF Crash, CallInv
<1>17. CASE UNCHANGED vars
  BY <1>0, <1>17 DEF vars, IInv, CallInv, Holding
<1> QED
  BY <1>1, <1>2, <1>3, <1>4, <1>5, <1>6, <1>7, <1>8, <1>9, <1>10, <1>11, <1>12, <1>13,
     <1>14, <1>15, <1>16, <1>17
  DEF Next, Call, Reuse

LEMMA Invariance == Spec => []IInv
<1>1. ASSUME Init PROVE IInv
  <2>1. Complete(InOrder)
    BY DEF Complete, InOrder
  <2>2. Distinct(Unknown) /\ NoGap(Unknown) /\ Unambiguous(Unknown)
    BY DEF Distinct, NoGap, Unambiguous, Unknown
  <2> QED
    BY <1>1, <2>1, <2>2 DEF Init, IInv, CallInv, OneClonePerCommit, Searching
<1> QED
  BY <1>1, IInvStep, Typing, PTL DEF Spec

(* The record never names a commit for two clones, in memory or on the     *)
(* disk, whatever git refuses and wherever the process dies.               *)
THEOREM Unambiguity == Spec => []OneClonePerCommit
<1>1. IInv => OneClonePerCommit
  BY DEF IInv
<1> QED
  BY <1>1, Invariance, PTL

(* The last NbClones commits asked for lie in NbClones clones.             *)
THEOREM Caching == Spec => []RecentAreCached
<1>1. ASSUME TypeOK, IInv PROVE RecentAreCached
  <2> SUFFICES ASSUME pc = "Idle", NEW i \in Clones, recent[i] # "unknown"
               PROVE  Used(i) \in Holding(recent[i])
    BY DEF RecentAreCached
  <2> QED
    BY <1>1, UsedType DEF IInv, Cached, Holding
<1> QED
  BY <1>1, Invariance, Typing, PTL

(* No checkout disturbs the clone of one of the other last NbClones - 1    *)
(* commits.                                                                *)
THEOREM Undisturbed == Spec => OthersUndisturbed
<1> DEFINE Kept == \A c \in Clones : head'[c] # head[c] =>
                      \A i \in 1 .. NbClones - 1 :
                          recent[i] # "unknown" => recorded[c] # recent[i]
<1>1. ASSUME TypeOK, IInv, [Next]_vars PROVE [Kept]_vars
  <2> SUFFICES ASSUME NEW c \in Clones, head'[c] # head[c],
                      NEW i \in 1 .. NbClones - 1, recent[i] # "unknown",
                      recorded[c] = recent[i]
               PROVE  FALSE
    OBVIOUS
  <2>1. pc \in Searching /\ c = clone
    <3>1. head' # head
      OBVIOUS
    <3>2. Checkout \/ SubmodulesFail \/ ForcedCheckout
      BY <1>1, <3>1
      DEF Next, Call, vars, Start, StartTorn, Stop, Request, Reuse, Choose, CheckoutFails,
          ForcedFails, Record, Write, Pull, PullFails, Crash
    <3> QED
      BY <1>1, <3>2 DEF TypeOK, Checkout, SubmodulesFail, ForcedCheckout, Searching
  <2>2. i \in Clones /\ i < NbClones /\ NbClones + 1 - i # 1
    BY CloneNumbers DEF Clones
  <2>3. recorded[Used(i)] = recent[i] /\ clone = usage[1]
    BY <1>1, <2>1, <2>2 DEF IInv, Cached, CallInv, Searching
  <2>4. Used(i) \in Clones /\ NbClones + 1 - i \in Clones
    BY <1>1, <2>2, UsedType
  <2>5. Used(i) = c
    BY <1>1, <2>3, <2>4 DEF IInv, OneClonePerCommit, Unambiguous
  <2> QED
    BY <1>1, <2>1, <2>2, <2>3, <2>4, <2>5, CloneNumbers DEF TypeOK, Used, IsInjective
<1> QED
  BY <1>1, Invariance, Typing, PTL DEF Spec, OthersUndisturbed

(***************************************************************************)
(* Without a fault the record is true: what it says of a clone is checked  *)
(* out there, but for the clone whose checkout has just been done.         *)
(***************************************************************************)
Reached == trying = wanted \/ (wanted = "main" /\ trying \in Branches)

TrueRecord ==
    /\ \A c \in Clones :
          recorded[c] # "unknown" /\ ~(pc = "Record" /\ c = clone) => Holds(c, recorded[c])
    /\ pc # "Write" => stateFile = recorded
    /\ pc \in Searching => Reached
    /\ pc = "Record" => head[clone] = trying
    /\ pc = "Write" => recorded[clone] = wanted
    /\ pc \in {"Idle", "Pull"} => Holds(handed.clone, handed.commit)

RecordInv == faults = 0 => TrueRecord

LEMMA RecordStep == TypeOK /\ RecordInv /\ [Next]_vars => RecordInv'
<1> SUFFICES ASSUME TypeOK, RecordInv, [Next]_vars, faults' = 0 PROVE TrueRecord'
  BY DEF RecordInv
<1> USE DEF Searching
<1>0. CASE SubmodulesFail \/ Crash
  <2>1. faults' = faults + 1 /\ faults \in Nat
    BY <1>0 DEF SubmodulesFail, Crash, TypeOK
  <2> QED
    BY <2>1
<1> SUFFICES ASSUME ~(SubmodulesFail \/ Crash) PROVE TrueRecord'
  BY <1>0
<1>1. faults = 0 /\ TrueRecord
  <2>1. faults' = faults
    BY DEF Next, Call, vars, Start, StartTorn, Stop, Request, Reuse, Choose, Checkout,
       CheckoutFails, ForcedCheckout, ForcedFails, Record, Write, Pull, PullFails
  <2> QED
    BY <2>1 DEF RecordInv
<1> DEFINE Same == UNCHANGED <<recorded, stateFile, head>>
           Frame == Same /\ pc # "Record" /\ pc # "Write"
\* what neither checks out nor records anything
<1>2. ASSUME Frame, pc' \notin {"Record", "Write"}, pc' \in Searching => Reached',
             pc' \in {"Idle", "Pull"} => Holds(handed'.clone, handed'.commit)
      PROVE  TrueRecord'
  BY <1>1, <1>2 DEF TrueRecord, Holds
<1>3. ASSUME Start PROVE TrueRecord'
  <2>1. pc = "down" /\ pc' = "Get" /\ recorded' = stateFile
        /\ UNCHANGED <<head, stateFile>>
    BY <1>3 DEF Start
  <2>2. recorded' = recorded
    BY <1>1, <2>1 DEF TrueRecord
  <2> QED
    BY <1>1, <2>1, <2>2 DEF TrueRecord, Holds
<1>4. ASSUME StartTorn PROVE TrueRecord'
  BY <1>1, <1>4 DEF StartTorn, TrueRecord, Holds, vars, Reached
<1>5. ASSUME Stop PROVE TrueRecord'
  BY <1>2, <1>5 DEF Stop
<1>6. ASSUME NEW commit \in Commits \cup {"main"}, Request(commit) PROVE TrueRecord'
  BY <1>2, <1>6 DEF Request
<1>7. ASSUME Reuse PROVE TrueRecord'
  <2>1. PICK c \in Holding(wanted) : HandOut(c)
    BY <1>7 DEF Reuse
  <2>2. recorded[c] = wanted /\ c \in Clones /\ pc = "Get"
    BY <1>7, <2>1 DEF Reuse, Holding
  <2>3. Holds(c, wanted)
    BY <1>1, <2>2, Names DEF TrueRecord, TypeOK
  <2>4. handed'.clone = c /\ handed'.commit = wanted /\ pc' \in {"Pull", "Idle"}
    BY <2>1 DEF HandOut, Return
  <2>5. Same
    BY <1>7 DEF Reuse
  <2>6. Holds(handed'.clone, handed'.commit)
    BY <2>3, <2>4
  <2> QED
    BY <1>2, <2>2, <2>4, <2>5, <2>6
<1>8. ASSUME Choose PROVE TrueRecord'
  BY <1>2, <1>8 DEF Choose, Reached
<1>9. ASSUME Checkout \/ ForcedCheckout PROVE TrueRecord'
  <2>1. /\ head' = [head EXCEPT ![clone] = trying] /\ pc' = "Record"
        /\ pc \in {"Checkout", "Forced"}
        /\ UNCHANGED <<wanted, trying, clone, recorded, stateFile>>
    BY <1>9 DEF Checkout, ForcedCheckout
  <2>2. head'[clone] = trying /\ \A c \in Clones : c # clone => head'[c] = head[c]
    BY <2>1 DEF TypeOK
  <2>3. \A c \in Clones : c # clone /\ recorded'[c] # "unknown" => Holds(c, recorded[c])'
    BY <1>1, <2>1, <2>2 DEF TrueRecord, Holds
  <2>4. Reached' /\ stateFile' = recorded'
    BY <1>1, <2>1 DEF TrueRecord, Reached
  <2> QED
    BY <2>1, <2>2, <2>3, <2>4 DEF TrueRecord
<1>10. ASSUME CheckoutFails PROVE TrueRecord'
  <2>1. Reached'
    <3>1. Reached /\ wanted \notin {"master", "dev"}
      BY <1>1, <1>10, CommitsAssumption
      DEF CheckoutFails, TrueRecord, TypeOK, Requests, Branches
    <3> QED
      BY <1>10, <3>1 DEF CheckoutFails, NextBranch, Reached, Branches
  <2>2. pc = "Checkout" /\ Same
    BY <1>10 DEF CheckoutFails
  <2>3. pc' \in {"Checkout", "Forced"}
    BY <1>10 DEF CheckoutFails, NextBranch
  <2>4. Frame /\ pc' \notin {"Record", "Write", "Idle", "Pull"}
    BY <2>2, <2>3
  <2> HIDE DEF Frame
  <2> QED
    BY <1>2, <2>1, <2>4
<1>11. ASSUME ForcedFails PROVE TrueRecord'
  BY <1>2, <1>11 DEF ForcedFails
<1>12. ASSUME Record PROVE TrueRecord'
  <2>1. /\ pc = "Record" /\ pc' = "Write"
        /\ recorded' = [recorded EXCEPT ![clone] = wanted]
        /\ UNCHANGED <<wanted, trying, clone, head, stateFile>>
    BY <1>12 DEF Record
  <2>2. recorded'[clone] = wanted /\ \A c \in Clones : c # clone => recorded'[c] = recorded[c]
    BY <2>1 DEF TypeOK
  <2>3. Holds(clone, wanted)
    BY <1>1, <2>1 DEF TrueRecord, Holds, Reached
  <2> QED
    BY <1>1, <2>1, <2>2, <2>3 DEF TrueRecord, Holds
<1>13. ASSUME Write PROVE TrueRecord'
  <2>1. pc = "Write" /\ recorded[clone] = wanted /\ wanted # "unknown" /\ clone \in Clones
    BY <1>1, <1>13, Names DEF Write, TrueRecord, TypeOK
  <2>2. Holds(clone, wanted)
    BY <1>1, <2>1 DEF TrueRecord
  <2>3. handed'.clone = clone /\ handed'.commit = wanted /\ pc' \in {"Pull", "Idle"}
    BY <1>13 DEF Write, HandOut, Return
  <2>4. stateFile' = recorded' /\ UNCHANGED <<recorded, head>>
    BY <1>13 DEF Write
  <2>5. \A c \in Clones : recorded'[c] # "unknown" => Holds(c, recorded[c])'
    BY <1>1, <2>1, <2>4 DEF TrueRecord, Holds
  <2>6. Holds(handed.clone, handed.commit)'
    BY <2>2, <2>3, <2>4 DEF Holds
  <2> QED
    BY <2>3, <2>4, <2>5, <2>6 DEF TrueRecord
<1>14. ASSUME Pull PROVE TrueRecord'
  BY <1>1, <1>2, <1>14 DEF Pull, TrueRecord, Holds
<1>15. ASSUME PullFails PROVE TrueRecord'
  BY <1>2, <1>15 DEF PullFails
<1>16. ASSUME UNCHANGED vars PROVE TrueRecord'
  BY <1>1, <1>16 DEF vars, TrueRecord, Holds, Reached
<1> QED
  BY <1>3, <1>4, <1>5, <1>6, <1>7, <1>8, <1>9, <1>10, <1>11, <1>12, <1>13, <1>14, <1>15, <1>16
  DEF Next, Call

(* As long as no process died and no submodule update failed, the clone    *)
(* that is handed out has the commit checked out, however often git        *)
(* refused a checkout and whichever names the main branch was tried under. *)
THEOREM Delivery == Spec => []HandsOutCommit
<1>1. ASSUME Init PROVE RecordInv
  BY <1>1 DEF Init, RecordInv, TrueRecord, Unknown, Searching
<1>2. RecordInv => HandsOutCommit
  BY DEF RecordInv, TrueRecord, HandsOutCommit
<1> QED
  BY <1>1, <1>2, RecordStep, Typing, PTL DEF Spec
=============================================================================
