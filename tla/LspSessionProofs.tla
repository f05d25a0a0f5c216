--------------------------- MODULE LspSessionProofs ---------------------------
(***************************************************************************)
(* The safety properties of a LanguageServer object for every number of     *)
(* tasks and sessions, all files, texts and insertions.  The first part is  *)
(* about texts: that a position stands for one index on both sides.  The    *)
(* second counts the contexts of a file, and compares the documents of the  *)
(* server with the buffers.                                                 *)
(***************************************************************************)
EXTENDS LspSession, FiniteSetTheorems, SequenceTheorems, WellFoundedInduction, TLAPS

-----------------------------------------------------------------------------
(***************************************************************************)
(* Sets of numbers.                                                         *)
(***************************************************************************)
LEMMA LeastOf ==
    ASSUME NEW S \in SUBSET Nat, S # {}
    PROVE  \E m \in S : \A k \in S : m <= k
<1> DEFINE R == OpToRel(<, Nat)
<1>1. IsWellFoundedOn(R, Nat)
  BY NatLessThanWellFounded, Zenon
<1>2. \A x, y \in Nat : y < x => <<y, x>> \in R
  BY DEF OpToRel
<1> HIDE DEF R
<1>3. PICK x \in S : \A y \in S : ~ (<<y, x>> \in R)
  <2>1. S \subseteq Nat
    OBVIOUS
  <2> QED
    BY <1>1, <2>1, WFMin
<1>4. \A k \in S : k \in Nat /\ x \in Nat
  OBVIOUS
<1>5. \A k \in S : ~(k < x)
  BY <1>2, <1>3, <1>4
<1>6. \A k \in S : x <= k
  BY <1>4, <1>5
<1> QED
  BY <1>6

LEMMA GreatestOf ==
    ASSUME NEW S \in SUBSET Nat, S # {}, NEW n \in Nat, \A k \in S : k <= n
    PROVE  \E m \in S : \A k \in S : k <= m
<1> DEFINE T == {n - k : k \in S}
<1>1. T \in SUBSET Nat /\ T # {}
  <2>1. \A k \in S : n - k \in Nat
    OBVIOUS
  <2>2. \A t \in T : t \in Nat
    BY <2>1
  <2> QED
    BY <2>2
<1>2. PICK t \in T : \A u \in T : t <= u
  BY <1>1, LeastOf
<1>3. PICK m \in S : t = n - m
  BY <1>2
<1>4. \A k \in S : n - m <= n - k
  BY <1>2, <1>3
<1> QED
  BY <1>4

LEMMA Shifted ==
    ASSUME NEW S \in SUBSET Nat, IsFiniteSet(S), NEW i \in Nat
    PROVE  /\ IsFiniteSet({i + k : k \in S})
           /\ Cardinality({i + k : k \in S}) = Cardinality(S)
<1> DEFINE T == {i + k : k \in S}
           f == [k \in S |-> i + k]
<1>1. f \in [S -> T] /\ \A j, k \in S : f[j] = f[k] => j = k
  OBVIOUS
<1>2. \A t \in T : \E k \in S : f[k] = t
  OBVIOUS
<1> HIDE DEF f, T
<1>3. f \in Bijection(S, T)
  BY <1>1, <1>2 DEF Bijection, Injection, IsInjective, Surjection
<1>4. ExistsBijection(S, T)
  BY <1>3 DEF ExistsBijection
<1>5. IsFiniteSet(T) /\ Cardinality(T) = Cardinality(S)
  BY <1>4, FS_Bijection
<1> QED
  BY <1>5 DEF T

-----------------------------------------------------------------------------
(***************************************************************************)
(* Texts and positions.                                                     *)
(***************************************************************************)
Upto(text, i) == {e \in LineEnds(text) : e <= i}
LastOf(S) == CHOOSE e \in S : \A j \in S : j <= e

LEMMA EndsAreFinite ==
    ASSUME NEW text \in Texts, NEW i \in Nat
    PROVE  /\ Len(text) \in Nat
           /\ LineEnds(text) \in SUBSET Nat /\ LineEnds(text) \subseteq 1..Len(text)
           /\ IsFiniteSet(LineEnds(text)) /\ Cardinality(LineEnds(text)) \in Nat
           /\ Upto(text, i) \in SUBSET LineEnds(text) /\ Upto(text, i) \in SUBSET Nat
           /\ IsFiniteSet(Upto(text, i)) /\ Cardinality(Upto(text, i)) \in Nat
           /\ Cardinality(Upto(text, i)) <= Cardinality(LineEnds(text))
<1>1. Len(text) \in Nat /\ LineEnds(text) \subseteq 1..Len(text)
  BY DEF Texts, LineEnds
<1>2. IsFiniteSet(1..Len(text))
  BY <1>1, FS_Interval
<1>3. IsFiniteSet(LineEnds(text)) /\ Cardinality(LineEnds(text)) \in Nat
  BY <1>1, <1>2, FS_Subset, FS_CardinalityType
<1>4. Upto(text, i) \in SUBSET LineEnds(text)
  BY DEF Upto
<1>5. /\ IsFiniteSet(Upto(text, i)) /\ Cardinality(Upto(text, i)) \in Nat
      /\ Cardinality(Upto(text, i)) <= Cardinality(LineEnds(text))
  BY <1>3, <1>4, FS_Subset, FS_CardinalityType
<1> QED
  BY <1>1, <1>3, <1>4, <1>5

(* A line is found again by the number of line ends up to its start.       *)
LEMMA LineStartOf ==
    ASSUME NEW text \in Texts, NEW e \in LineEnds(text)
    PROVE  /\ Cardinality(Upto(text, e)) # 0
           /\ LineStart(text, Cardinality(Upto(text, e))) = e
<1>1. LineEnds(text) \in SUBSET Nat
  BY EndsAreFinite
<1>2. Upto(text, e) # {} /\ e \in Nat
  BY <1>1 DEF Upto
<1>3. Cardinality(Upto(text, e)) # 0
  BY <1>2, EndsAreFinite, FS_EmptySet
<1>4. \A c, d \in LineEnds(text) : c < d => Cardinality(Upto(text, c)) # Cardinality(Upto(text, d))
  <2> TAKE c, d \in LineEnds(text)
  <2> HAVE c < d
  <2>1. c \in Nat /\ d \in Nat
    BY <1>1
  <2>2. IsFiniteSet(Upto(text, d)) /\ IsFiniteSet(Upto(text, c))
    BY <2>1, EndsAreFinite
  <2>3. Upto(text, c) \in SUBSET Upto(text, d) /\ d \in Upto(text, d) /\ d \notin Upto(text, c)
    BY <2>1, <1>1 DEF Upto
  <2> QED
    BY <2>2, <2>3, FS_Subset
<1>5. \A d \in LineEnds(text) :
          Cardinality(Upto(text, d)) = Cardinality(Upto(text, e)) => d = e
  BY <1>1, <1>4
<1>6. (CHOOSE d \in LineEnds(text) :
          Cardinality(Upto(text, d)) = Cardinality(Upto(text, e))) = e
  BY <1>5
<1> QED
  BY <1>3, <1>6 DEF LineStart, Upto

(* The last line end up to an index.                                       *)
LEMMA LastEnd ==
    ASSUME NEW text \in Texts, NEW i \in Nat, Upto(text, i) # {}
    PROVE  LET m == LastOf(Upto(text, i))
           IN /\ m \in LineEnds(text) /\ m \in Nat /\ m <= i
              /\ \A j \in Upto(text, i) : j <= m
              /\ Upto(text, m) = Upto(text, i)
<1>1. Upto(text, i) \in SUBSET Nat /\ LineEnds(text) \in SUBSET Nat
  BY EndsAreFinite
<1>2. \A k \in Upto(text, i) : k <= i
  BY DEF Upto
<1>3. \E e \in Upto(text, i) : \A j \in Upto(text, i) : j <= e
  BY <1>1, <1>2, GreatestOf
<1> DEFINE m == LastOf(Upto(text, i))
<1>4. m \in Upto(text, i) /\ \A j \in Upto(text, i) : j <= m
  BY <1>3 DEF LastOf
<1> HIDE DEF m
<1>5. m \in LineEnds(text) /\ m \in Nat /\ m <= i
  BY <1>1, <1>4 DEF Upto
<1>6. Upto(text, m) = Upto(text, i)
  BY <1>1, <1>4, <1>5 DEF Upto
<1> QED
  BY <1>4, <1>5, <1>6 DEF m

LEMMA PositionOfIndex ==
    ASSUME NEW text \in Texts, NEW i \in 0..Len(text)
    PROVE  LET p == GetLineColFromIndex(text, i)
           IN /\ p.line = Cardinality(Upto(text, i)) /\ p.line \in Nat
              /\ p.col \in Nat /\ LineStart(text, p.line) \in Nat
              /\ LineStart(text, p.line) + p.col = i
              /\ p = [line |-> p.line, col |-> p.col]
<1> DEFINE m == LastOf(Upto(text, i))
           n == Cardinality(Upto(text, i))
           p == GetLineColFromIndex(text, i)
<1>1. i \in Nat
  BY DEF Texts
<1>2. n \in Nat /\ (Upto(text, i) = {} => n = 0)
  BY <1>1, EndsAreFinite, FS_EmptySet
<1>3. p = [line |-> n, col |-> IF Upto(text, i) = {} THEN i ELSE i - m]
  BY DEF GetLineColFromIndex, Upto, LastOf
<1>a. p.line = n /\ p = [line |-> p.line, col |-> p.col]
  BY <1>3
<1> HIDE DEF p
<1>4. CASE Upto(text, i) = {}
  <2>1. LineStart(text, n) = 0
    BY <1>2, <1>4 DEF LineStart
  <2>2. p.col = i
    BY <1>3, <1>4
  <2> HIDE DEF n
  <2>3. p.col \in Nat /\ LineStart(text, p.line) = 0 /\ p.line \in Nat
    BY <1>1, <1>2, <1>a, <2>1, <2>2
  <2> QED
    BY <1>1, <1>a, <2>2, <2>3 DEF n, p
<1>5. CASE Upto(text, i) # {}
  <2>1. m \in LineEnds(text) /\ m \in Nat /\ m <= i /\ Upto(text, m) = Upto(text, i)
    BY <1>1, <1>5, LastEnd
  <2> HIDE DEF m
  <2>2. LineStart(text, n) = m
    BY <2>1, LineStartOf
  <2>3. p.col = i - m
    BY <1>3, <1>5 DEF m
  <2> HIDE DEF n
  <2>4. p.col \in Nat /\ LineStart(text, p.line) = m /\ p.line \in Nat
        /\ LineStart(text, p.line) + p.col = i
    BY <1>1, <1>2, <1>a, <2>1, <2>2, <2>3
  <2> QED
    BY <1>a, <2>1, <2>4 DEF n, p
<1> QED
  BY <1>4, <1>5

(* The position of an index does not lie beyond the end of its line, so    *)
(* that the server finds the same index, unless a character that it counts *)
(* as two lies before it.                                                  *)
LEMMA ServerFindsIndex ==
    ASSUME NEW text \in Texts, NEW i \in 0..Len(text),
           ~BehindWide(text, GetLineColFromIndex(text, i))
    PROVE  ServerIndex(text, GetLineColFromIndex(text, i)) = i
<1> DEFINE p == GetLineColFromIndex(text, i)
           start == LineStart(text, p.line)
           C == CharactersUpTo(text, p)
           wide(n) == {k \in start+1 .. start+n : text[k] \in Wide}
<1>1. /\ p.line = Cardinality(Upto(text, i)) /\ p.line \in Nat
      /\ p.col \in Nat /\ start \in Nat /\ start + p.col = i
  BY PositionOfIndex
<1>2. i \in Nat /\ Len(text) \in Nat /\ i <= Len(text)
  BY DEF Texts
<1>3. /\ LineEnds(text) \in SUBSET Nat /\ Upto(text, i) \in SUBSET Nat
      /\ IsFiniteSet(Upto(text, i)) /\ Upto(text, i) \in SUBSET LineEnds(text)
  BY <1>2, EndsAreFinite
<1>w. wide(p.col) = {}
  BY DEF BehindWide
<1> HIDE DEF p
<1>4. p.col <= LineLength(text, p.line) /\ LineLength(text, p.line) \in Int
  <2>1. CASE p.line < Cardinality(LineEnds(text))
    <3> DEFINE L == LineEnds(text) \ Upto(text, i)
    <3>1. L \in SUBSET Nat /\ L # {}
      <4>1. Upto(text, i) # LineEnds(text)
        BY <1>1, <2>1
      <4> QED
        BY <1>3, <4>1
    <3>2. PICK e \in L : \A k \in L : e <= k
      BY <3>1, LeastOf
    <3>3. e \in LineEnds(text) /\ e \in Nat /\ e > i
      BY <1>2, <1>3, <3>2 DEF Upto
    <3>4. Upto(text, e) = Upto(text, i) \cup {e}
      BY <1>2, <1>3, <3>2, <3>3 DEF Upto
    <3>5. e \notin Upto(text, i)
      BY <3>2
    <3>6. Cardinality(Upto(text, e)) = p.line + 1
      <4>1. Cardinality(Upto(text, i) \cup {e}) = Cardinality(Upto(text, i)) + 1
        BY <1>3, <3>5, FS_AddElement
      <4> QED
        BY <1>1, <3>4, <4>1
    <3>7. LineStart(text, p.line + 1) = e
      BY <3>3, <3>6, LineStartOf
    <3>8. LineLength(text, p.line) = e - 1 - start
      BY <2>1, <3>7 DEF LineLength
    <3> HIDE DEF start, L
    <3> QED
      BY <1>1, <1>2, <3>3, <3>8
  <2>2. CASE ~(p.line < Cardinality(LineEnds(text)))
    <3>1. LineLength(text, p.line) = Len(text) - start
      BY <2>2 DEF LineLength
    <3> HIDE DEF start
    <3> QED
      BY <1>1, <1>2, <3>1
  <2> QED
    BY <2>1, <2>2
<1>5. \A n \in Nat : Units(text, start, n) \in Nat /\ Units(text, start, n) >= n
  <2> TAKE n \in Nat
  <2>1. IsFiniteSet(start+1 .. start+n)
    <3>1. start+1 \in Int /\ start+n \in Int
      BY <1>1
    <3> HIDE DEF start
    <3> QED
      BY <3>1, FS_Interval
  <2>a. wide(n) \in SUBSET (start+1 .. start+n)
    OBVIOUS
  <2>2. Cardinality(wide(n)) \in Nat
    <3> HIDE DEF wide, start
    <3> QED
      BY <2>1, <2>a, FS_Subset, FS_CardinalityType
  <2>3. Units(text, start, n) = n + Cardinality(wide(n))
    BY DEF Units
  <2> HIDE DEF wide, start
  <2> QED
    BY <2>2, <2>3
<1>6. Units(text, start, p.col) = p.col
  <2>1. Units(text, start, p.col) = p.col + Cardinality(wide(p.col))
    BY DEF Units
  <2>2. Cardinality(wide(p.col)) = 0
    BY <1>w, FS_EmptySet
  <2> HIDE DEF wide, start
  <2> QED
    BY <1>1, <2>1, <2>2
<1>7. C = {n \in 0 .. LineLength(text, p.line) : Units(text, start, n) <= p.col}
  BY DEF CharactersUpTo
<1>8. p.col \in C /\ \A n \in C : n \in Nat /\ n <= p.col
  <2> HIDE DEF C, start
  <2>1. p.col \in C
    BY <1>1, <1>4, <1>6, <1>7
  <2>2. ASSUME NEW n \in C PROVE n \in Nat /\ n <= p.col
    <3>1. n \in Nat /\ Units(text, start, n) <= p.col
      BY <1>4, <1>7
    <3> DEFINE u == Units(text, start, n)
    <3>2. u \in Nat /\ u >= n
      BY <1>5, <3>1, Zenon
    <3>3. n \in Nat /\ u <= p.col
      BY <3>1
    <3> HIDE DEF u
    <3> QED
      BY <1>1, <3>2, <3>3
  <2> QED
    BY <2>1, <2>2
<1>9. (CHOOSE n \in C : \A m \in C : m <= n) = p.col
  <2> HIDE DEF C
  <2>1. \A n \in C : (\A m \in C : m <= n) => n = p.col
    BY <1>1, <1>8
  <2>2. \A m \in C : m <= p.col
    BY <1>8
  <2> QED
    BY <1>8, <2>1, <2>2
<1>10. ServerIndex(text, p) = start + p.col
  BY <1>9 DEF ServerIndex
<1> QED
  BY <1>1, <1>10 DEF p

LEMMA SplicedType ==
    ASSUME NEW text \in Texts, NEW s \in Texts, NEW i \in 0..Len(text), NEW j \in 0..Len(text)
    PROVE  Spliced(text, i, j, s) \in Texts
<1>1. Len(text) \in Nat /\ text \in Seq(STRING) /\ s \in Seq(STRING)
  BY DEF Texts
<1> DEFINE a == SubSeq(text, 1, i)
           c == SubSeq(text, j + 1, Len(text))
<1>2. a \in Seq(STRING)
  <2>1. \A k \in 1..i : text[k] \in STRING
    BY <1>1
  <2> QED
    BY <1>1, <2>1, SubSeqProperties
<1>3. c \in Seq(STRING)
  <2>1. \A k \in (j + 1)..Len(text) : text[k] \in STRING
    BY <1>1
  <2> QED
    BY <1>1, <2>1, SubSeqProperties
<1>4. Spliced(text, i, j, s) = (a \o s) \o c
  BY DEF Spliced
<1> HIDE DEF a, c
<1>5. a \o s \in Seq(STRING)
  BY <1>1, <1>2, ConcatProperties
<1>6. (a \o s) \o c \in Seq(STRING)
  BY <1>3, <1>5, ConcatProperties
<1> QED
  BY <1>4, <1>6 DEF Texts

(* What lies before the insertion and what was inserted are where one      *)
(* expects them.                                                           *)
LEMMA SplicedAt ==
    ASSUME NEW text \in Texts, NEW s \in Texts, NEW i \in 0..Len(text)
    PROVE  LET new == Spliced(text, i, i, s)
           IN /\ Len(new) = Len(text) + Len(s)
              /\ \A k \in 1..i : new[k] = text[k]
              /\ \A k \in 1..Len(s) : new[i + k] = s[k]
<1>1. Len(text) \in Nat /\ Len(s) \in Nat /\ text \in Seq(STRING) /\ s \in Seq(STRING)
  BY DEF Texts
<1> DEFINE a == SubSeq(text, 1, i)
           c == SubSeq(text, i + 1, Len(text))
<1>2. a \in Seq(STRING) /\ Len(a) = i /\ \A k \in 1..i : a[k] = text[k]
  <2>1. i \in Nat /\ i <= Len(text) /\ \A k \in 1..i : text[k] \in STRING
    BY <1>1
  <2> QED
    BY <1>1, <2>1, SubSeqProperties
<1>3. c \in Seq(STRING) /\ Len(c) = Len(text) - i
  <2>1. i \in Nat /\ i <= Len(text) /\ \A k \in (i + 1)..Len(text) : text[k] \in STRING
    BY <1>1
  <2> QED
    BY <1>1, <2>1, SubSeqProperties
<1>4. Spliced(text, i, i, s) = (a \o s) \o c
  BY DEF Spliced
<1> HIDE DEF a, c
<1>5. /\ a \o s \in Seq(STRING) /\ Len(a \o s) = i + Len(s)
      /\ \A k \in 1..i : (a \o s)[k] = a[k]
      /\ \A k \in 1..Len(s) : (a \o s)[i + k] = s[k]
  <2>1. /\ a \o s \in Seq(STRING) /\ Len(a \o s) = Len(a) + Len(s)
        /\ \A k \in 1..(Len(a) + Len(s)) :
              (a \o s)[k] = IF k <= Len(a) THEN a[k] ELSE s[k - Len(a)]
    BY <1>1, <1>2, ConcatProperties
  <2>2. i \in Nat /\ Len(a) = i
    BY <1>1, <1>2
  <2>3. \A k \in 1..i : (a \o s)[k] = a[k]
    BY <1>1, <2>1, <2>2
  <2>4. ASSUME NEW k \in 1..Len(s) PROVE (a \o s)[i + k] = s[k]
    <3>1. i + k \in 1..(Len(a) + Len(s)) /\ ~(i + k <= Len(a)) /\ (i + k) - Len(a) = k
      BY <1>1, <2>2
    <3> QED
      BY <2>1, <3>1
  <2> QED
    BY <2>1, <2>2, <2>3, <2>4
<1> DEFINE b == a \o s
<1>6. b \in Seq(STRING) /\ Len(b) = i + Len(s)
  BY <1>5
<1> HIDE DEF b
<1>7. Len(b \o c) = Len(b) + Len(c) /\ \A k \in 1..Len(b) : (b \o c)[k] = b[k]
  <2> DEFINE e == b \o c
  <2>1. /\ Len(e) = Len(b) + Len(c)
        /\ \A k \in 1..(Len(b) + Len(c)) :
              e[k] = IF k <= Len(b) THEN b[k] ELSE c[k - Len(b)]
    BY <1>3, <1>6, ConcatProperties
  <2>2. Len(b) \in Nat /\ Len(c) \in Nat
    BY <1>3, <1>6
  <2> HIDE DEF e
  <2>3. \A k \in 1..Len(b) : e[k] = b[k]
    BY <2>1, <2>2
  <2> QED
    BY <2>1, <2>3 DEF e
<1>8. \A k \in 1..i : k \in 1..Len(b)
  BY <1>1, <1>6
<1>9. \A k \in 1..Len(s) : i + k \in 1..Len(b)
  BY <1>1, <1>6
<1> DEFINE new == b \o c
<1>10. Spliced(text, i, i, s) = new
  BY <1>4 DEF b
<1>11. /\ \A k \in 1..i : b[k] = text[k]
       /\ \A k \in 1..Len(s) : b[i + k] = s[k]
  BY <1>2, <1>5, Zenon DEF b
<1> HIDE DEF new
<1>12. Len(new) = Len(b) + Len(c) /\ \A k \in 1..Len(b) : new[k] = b[k]
  BY <1>7, Zenon DEF new
<1>13. Len(new) = Len(text) + Len(s)
  BY <1>1, <1>3, <1>6, <1>12
<1>14. \A k \in 1..i : new[k] = text[k]
  BY <1>8, <1>11, <1>12, Zenon
<1>15. \A k \in 1..Len(s) : new[i + k] = s[k]
  BY <1>9, <1>11, <1>12, Zenon
<1> QED
  BY <1>10, <1>13, <1>14, <1>15, Zenon

(* The line ends up to the end of what was inserted.                       *)
LEMMA EndsAfterInsertion ==
    ASSUME NEW text \in Texts, NEW s \in Texts, NEW i \in 0..Len(text)
    PROVE  Upto(Spliced(text, i, i, s), i + Len(s))
              = Upto(text, i) \cup {i + k : k \in LineEnds(s)}
<1> DEFINE new == Spliced(text, i, i, s)
<1>1. /\ Len(text) \in Nat /\ Len(s) \in Nat
      /\ LineEnds(s) \subseteq 1..Len(s) /\ LineEnds(text) \subseteq 1..Len(text)
  BY EndsAreFinite
<1>2. /\ Len(new) = Len(text) + Len(s)
      /\ \A k \in 1..i : new[k] = text[k]
      /\ \A k \in 1..Len(s) : new[i + k] = s[k]
  BY SplicedAt
<1> HIDE DEF new
<1>3. \A e \in 1..i : e \in LineEnds(new) <=> e \in LineEnds(text)
  BY <1>1, <1>2 DEF LineEnds
<1>4. \A k \in 1..Len(s) : i + k \in LineEnds(new) <=> k \in LineEnds(s)
  BY <1>1, <1>2 DEF LineEnds
<1>5. LineEnds(new) \subseteq 1..(Len(text) + Len(s))
  BY <1>2 DEF LineEnds
<1>6. ASSUME NEW e \in Upto(new, i + Len(s))
      PROVE  e \in Upto(text, i) \cup {i + k : k \in LineEnds(s)}
  <2>1. e \in LineEnds(new) /\ e <= i + Len(s) /\ e \in Nat /\ e >= 1
    BY <1>1, <1>5, <1>6 DEF Upto
  <2>2. CASE e <= i
    BY <1>1, <1>3, <2>1, <2>2 DEF Upto
  <2>3. CASE e > i
    <3>1. e - i \in 1..Len(s) /\ i + (e - i) = e
      BY <1>1, <2>1, <2>3
    <3>2. e - i \in LineEnds(s)
      BY <1>4, <2>1, <3>1
    <3> QED
      BY <3>1, <3>2
  <2> QED
    BY <1>1, <2>1, <2>2, <2>3
<1>7. ASSUME NEW e \in Upto(text, i) PROVE e \in Upto(new, i + Len(s))
  <2>1. e \in LineEnds(text) /\ e <= i /\ e \in 1..i
    BY <1>1, <1>7 DEF Upto
  <2> QED
    BY <1>1, <1>3, <2>1 DEF Upto
<1>8. ASSUME NEW k \in LineEnds(s) PROVE i + k \in Upto(new, i + Len(s))
  <2>1. k \in 1..Len(s)
    BY <1>1
  <2> QED
    BY <1>1, <1>4, <2>1 DEF Upto
<1> QED
  BY <1>6, <1>7, <1>8 DEF new

(* The position that an insertion returns is the end of what it inserted.  *)
LEMMA PositionAfterInsertion ==
    ASSUME NEW text \in Texts, NEW s \in Texts, NEW i \in 0..Len(text)
    PROVE  LET p == GetLineColFromIndex(text, i)
           IN UpdatedPosition(p.line, p.col, s)
                 = GetLineColFromIndex(Spliced(text, i, i, s), i + Len(s))
<1> DEFINE p == GetLineColFromIndex(text, i)
           new == Spliced(text, i, i, s)
           j == i + Len(s)
           q == GetLineColFromIndex(new, j)
           U == Upto(text, i)
           V == {i + k : k \in LineEnds(s)}
<1>1. /\ i \in Nat /\ Len(s) \in Nat /\ i <= Len(text) /\ Len(text) \in Nat
      /\ LineEnds(s) \in SUBSET Nat /\ LineEnds(s) \subseteq 1..Len(s)
      /\ IsFiniteSet(LineEnds(s)) /\ Cardinality(LineEnds(s)) \in Nat
  <2>1. i \in Nat /\ Len(text) \in Nat /\ i <= Len(text)
    BY DEF Texts
  <2> QED
    BY <2>1, EndsAreFinite
<1>2. new \in Texts /\ j \in 0..Len(new)
  <2>1. new \in Texts
    BY SplicedType
  <2>2. Len(new) = Len(text) + Len(s)
    BY SplicedAt
  <2> QED
    BY <1>1, <2>1, <2>2
<1>3. Upto(new, j) = U \cup V
  BY EndsAfterInsertion
<1>4. U \in SUBSET Nat /\ IsFiniteSet(U) /\ \A u \in U : u <= i
  BY <1>1, EndsAreFinite DEF Upto
<1>5. IsFiniteSet(V) /\ Cardinality(V) = Cardinality(LineEnds(s))
  BY <1>1, Shifted
<1>6. \A v \in V : v \in Nat /\ v > i
  BY <1>1
<1>7. Cardinality(U) \in Nat /\ Cardinality(V) \in Nat
      /\ Cardinality(U \cup V) = Cardinality(U) + Cardinality(V)
  <2>1. U \cap V = {}
    BY <1>1, <1>4, <1>6
  <2>2. Cardinality(U \cap V) = 0
    BY <2>1, FS_EmptySet
  <2>3. Cardinality(U) \in Nat /\ Cardinality(V) \in Nat
    BY <1>4, <1>5, FS_CardinalityType
  <2> HIDE DEF U, V
  <2>4. Cardinality(U \cup V) = Cardinality(U) + Cardinality(V) - Cardinality(U \cap V)
    BY <1>4, <1>5, FS_Union
  <2> QED
    BY <2>2, <2>3, <2>4
<1>8. /\ p.line = Cardinality(U) /\ p.col \in Nat
      /\ LineStart(text, p.line) + p.col = i /\ p = [line |-> p.line, col |-> p.col]
  BY PositionOfIndex
<1>9. /\ q.line = Cardinality(Upto(new, j)) /\ q.col \in Nat
      /\ LineStart(new, q.line) \in Nat
      /\ LineStart(new, q.line) + q.col = j /\ q = [line |-> q.line, col |-> q.col]
  BY <1>2, PositionOfIndex
<1>10. q.line = p.line + Cardinality(LineEnds(s))
  BY <1>3, <1>5, <1>7, <1>8, <1>9
<1>11. CASE LineEnds(s) = {}
  <2>1. Upto(new, j) = U /\ Cardinality(LineEnds(s)) = 0
    BY <1>3, <1>11, FS_EmptySet
  <2>2. p.col = IF U = {} THEN i ELSE i - LastOf(U)
    BY DEF GetLineColFromIndex, Upto, LastOf
  <2>3. q.col = IF U = {} THEN j ELSE j - LastOf(U)
    <3>1. q.col = IF Upto(new, j) = {} THEN j ELSE j - LastOf(Upto(new, j))
      <4> HIDE DEF new, j
      <4> QED
        BY DEF GetLineColFromIndex, Upto, LastOf
    <3> QED
      BY <2>1, <3>1
  <2>a. U # {} => LastOf(U) \in Nat
    BY <1>1, LastEnd
  <2>4. q.col = p.col + Len(s)
    <3> HIDE DEF p, q, U
    <3> QED
      BY <1>1, <2>2, <2>3, <2>a
  <2>5. UpdatedPosition(p.line, p.col, s) = [line |-> p.line, col |-> p.col + Len(s)]
    BY <1>11 DEF UpdatedPosition
  <2>6. q.line = p.line
    BY <1>7, <1>8, <1>10, <2>1
  <2> HIDE DEF p, q
  <2> QED
    BY <1>9, <2>4, <2>5, <2>6 DEF p, q
<1>12. CASE LineEnds(s) # {}
  <2>1. Upto(s, Len(s)) = LineEnds(s)
    BY <1>1 DEF Upto
  <2> DEFINE m == LastOf(Upto(s, Len(s)))
  <2>2. /\ m \in LineEnds(s) /\ m \in Nat /\ m <= Len(s)
        /\ \A k \in LineEnds(s) : k <= m
        /\ Upto(s, m) = LineEnds(s)
    <3>1. /\ m \in LineEnds(s) /\ m \in Nat /\ m <= Len(s)
          /\ \A k \in Upto(s, Len(s)) : k <= m
          /\ Upto(s, m) = Upto(s, Len(s))
      BY <1>1, <1>12, <2>1, LastEnd
    <3> HIDE DEF m
    <3> QED
      BY <2>1, <3>1
  <2> HIDE DEF m
  <2>3. LineStart(s, Cardinality(LineEnds(s))) = m
    BY <2>2, LineStartOf
  <2>4. UpdatedPosition(p.line, p.col, s)
           = [line |-> p.line + Cardinality(LineEnds(s)), col |-> Len(s) - m]
    BY <1>12, <2>3 DEF UpdatedPosition
  <2>5. i + m \in LineEnds(new) /\ Upto(new, i + m) = Upto(new, j)
    <3>1. i + m \in U \cup V
      BY <2>2
    <3>2. i + m \in LineEnds(new) /\ i + m <= j
      BY <1>3, <3>1 DEF Upto
    <3>3. \A e \in U \cup V : e <= i + m
      BY <1>1, <1>4, <2>2
    <3>4. \A e \in Upto(new, j) : e <= i + m
      BY <1>3, <3>3
    <3>5. LineEnds(new) \in SUBSET Nat
      BY <1>2, <1>1, EndsAreFinite
    <3> HIDE DEF new, U, V
    <3> QED
      BY <1>1, <2>2, <3>2, <3>4, <3>5 DEF Upto
  <2>6. LineStart(new, q.line) = i + m
    <3>1. LineStart(new, Cardinality(Upto(new, i + m))) = i + m
      BY <1>2, <2>5, LineStartOf
    <3> QED
      BY <1>9, <2>5, <3>1
  <2>7. q.col = Len(s) - m
    <3> HIDE DEF q, new
    <3> QED
      BY <1>1, <1>9, <2>2, <2>6
  <2> HIDE DEF p, q
  <2> QED
    BY <1>9, <1>10, <2>4, <2>7 DEF p, q
<1> QED
  BY <1>11, <1>12

(* PositionsAgree needs no more of a state than that buffers hold texts.    *)
LEMMA PositionsOfTexts ==
    ASSUME \A f \in DOMAIN buffers : buffers[f].text \in Texts
    PROVE  PositionsAgree
<1> SUFFICES ASSUME NEW f \in DOMAIN buffers, NEW i \in 0..Len(buffers[f].text)
             PROVE  LET text == buffers[f].text
                        p == GetLineColFromIndex(text, i)
                    IN /\ GetIndexFromLineCol(text, p.line, p.col) = i
                       /\ \A s \in Inserts :
                             UpdatedPosition(p.line, p.col, s) =
                                 GetLineColFromIndex(Spliced(text, i, i, s), i + Len(s))
  BY DEF PositionsAgree
<1> DEFINE text == buffers[f].text
<1>1. text \in Texts
  OBVIOUS
<1> HIDE DEF text
<1>2. LET p == GetLineColFromIndex(text, i)
      IN GetIndexFromLineCol(text, p.line, p.col) = i
  <2> DEFINE p == GetLineColFromIndex(text, i)
  <2>1. LineStart(text, p.line) + p.col = i
    BY <1>1, PositionOfIndex DEF text
  <2> HIDE DEF p
  <2>2. GetIndexFromLineCol(text, p.line, p.col) = i
    BY <2>1 DEF GetIndexFromLineCol
  <2> QED
    BY <2>2 DEF p
<1>3. ASSUME NEW s \in Inserts
      PROVE  LET p == GetLineColFromIndex(text, i)
             IN UpdatedPosition(p.line, p.col, s)
                   = GetLineColFromIndex(Spliced(text, i, i, s), i + Len(s))
  <2>1. s \in Texts
    BY SessionAssumption
  <2> QED
    BY <1>1, <2>1, PositionAfterInsertion DEF text
<1> QED
  BY <1>2, <1>3 DEF text

-----------------------------------------------------------------------------
(***************************************************************************)
(* Types.  tasks and buffers; a document is compared with its buffer.       *)
(***************************************************************************)
Buffer == [text : Texts, version : Nat, ref : Nat]
Busy == [st : {"open", "waiting", "asked", "hanging"}, file : Files, op : Operations \cup {"none"}]
Task == Busy \cup {Idle}

Phases == {"none", "made", "spawning", "starting", "enabling", "waiting", "on", "stopping", "off", "left"}

SessionTypes ==
    /\ kind \in Kinds
    /\ deps \in [DepNames -> {"absent", "partial", "usable"}]
    /\ phase \in Phases
    /\ started \in BOOLEAN /\ process \in {"none", "new", "ready", "leaving"}
    /\ process # "none" => started
    /\ phase \notin {"none", "made", "off"} => started

DocumentTypes ==
    /\ DOMAIN buffers \subseteq Files /\ \A f \in DOMAIN buffers : buffers[f] \in Buffer
    /\ tasks \in [Tasks -> Task]
    /\ lost \in [Files -> Nat]

(* A process that is not initialized has no documents, and none of the     *)
(* buffers there are will be compared with it.                             *)
Mirrored ==
    /\ ServerMirrorsBuffers
    /\ process = "new" => DOMAIN docs = {} /\ DOMAIN buffers \subseteq apart

DocumentsInv == DocumentTypes /\ Mirrored /\ CountsAreContexts
IInv == SessionTypes /\ DocumentsInv

Using(x, f) == x # Idle /\ x.file = f

LEMMA TaskKinds ==
    /\ Idle \notin Busy /\ Idle \in Task /\ Idle.st = "idle"
    /\ \A x \in Task : x # Idle => x \in Busy /\ x.st # "idle"
<1>1. Idle.st = "idle"
  BY DEF Idle
<1>2. \A y \in Busy : y.st \in {"open", "waiting", "asked", "hanging"}
  BY DEF Busy
<1> QED
  BY <1>1, <1>2 DEF Task

LEMMA Users ==
    ASSUME tasks \in [Tasks -> Task], NEW f \in Files
    PROVE  /\ UsersOf(f) = {t \in Tasks : Using(tasks[t], f)}
           /\ IsFiniteSet(UsersOf(f)) /\ Cardinality(UsersOf(f)) \in Nat
<1>1. UsersOf(f) = {t \in Tasks : Using(tasks[t], f)}
  BY DEF UsersOf, Inside, Using
<1>2. UsersOf(f) \in SUBSET Tasks
  BY DEF UsersOf
<1> QED
  BY <1>1, <1>2, SessionAssumption, FS_Subset, FS_CardinalityType

(* How the contexts of a file change when one task does.                   *)
LEMMA OneTask ==
    ASSUME tasks \in [Tasks -> Task], NEW t \in Tasks, NEW x \in Task,
           tasks' = [tasks EXCEPT ![t] = x]
    PROVE  /\ tasks' \in [Tasks -> Task]
           /\ \A f \in Files :
                 /\ Cardinality(UsersOf(f)) \in Nat
                 /\ Cardinality(UsersOf(f))' =
                       Cardinality(UsersOf(f))
                       + (IF Using(x, f) /\ ~Using(tasks[t], f) THEN 1
                          ELSE IF ~Using(x, f) /\ Using(tasks[t], f) THEN -1 ELSE 0)
<1>1. tasks' \in [Tasks -> Task]
  OBVIOUS
<1> SUFFICES ASSUME NEW f \in Files
             PROVE  /\ Cardinality(UsersOf(f)) \in Nat
                    /\ Cardinality(UsersOf(f))' =
                          Cardinality(UsersOf(f))
                          + (IF Using(x, f) /\ ~Using(tasks[t], f) THEN 1
                             ELSE IF ~Using(x, f) /\ Using(tasks[t], f) THEN -1 ELSE 0)
  BY <1>1
<1> DEFINE U == UsersOf(f)
           V == UsersOf(f)'
<1>2. U = {u \in Tasks : Using(tasks[u], f)} /\ IsFiniteSet(U) /\ Cardinality(U) \in Nat
  BY Users
<1>3. V = {u \in Tasks : Using(tasks'[u], f)}
  BY DEF UsersOf, Inside, Using
<1>4. \A u \in Tasks : tasks'[u] = IF u = t THEN x ELSE tasks[u]
  OBVIOUS
<1> HIDE DEF U, V
<1>5. CASE Using(x, f)
  <2>1. V = U \cup {t} /\ (t \in U <=> Using(tasks[t], f))
    BY <1>2, <1>3, <1>4, <1>5
  <2>2. Cardinality(U \cup {t}) = IF t \in U THEN Cardinality(U) ELSE Cardinality(U) + 1
    BY <1>2, FS_AddElement
  <2> QED
    BY <1>2, <1>5, <2>1, <2>2 DEF U, V
<1>6. CASE ~Using(x, f)
  <2>1. V = U \ {t} /\ (t \in U <=> Using(tasks[t], f))
    BY <1>2, <1>3, <1>4, <1>6
  <2>2. Cardinality(U \ {t}) = IF t \in U THEN Cardinality(U) - 1 ELSE Cardinality(U)
    BY <1>2, FS_RemoveElement
  <2> QED
    BY <1>2, <1>6, <2>1, <2>2 DEF U, V
<1> QED
  BY <1>5, <1>6

(* A task that has a file open is counted by the buffer of the file.       *)
LEMMA HasBuffer ==
    ASSUME DocumentTypes, CountsAreContexts, NEW t \in Tasks, tasks[t] \in Busy
    PROVE  /\ tasks[t].file \in Files /\ tasks[t].file \in DOMAIN buffers
           /\ buffers[tasks[t].file] \in Buffer /\ buffers[tasks[t].file].ref >= 1
<1> DEFINE f == tasks[t].file
<1>1. f \in Files /\ tasks[t] # Idle
  BY TaskKinds DEF Busy
<1> HIDE DEF f
<1>2. t \in UsersOf(f) /\ IsFiniteSet(UsersOf(f)) /\ Cardinality(UsersOf(f)) \in Nat
  BY <1>1, Users DEF DocumentTypes, Using, f
<1>3. Cardinality(UsersOf(f)) # 0 /\ lost[f] \in Nat
  BY <1>1, <1>2, FS_EmptySet DEF DocumentTypes
<1>4. f \in DOMAIN buffers /\ buffers[f].ref = Cardinality(UsersOf(f)) + lost[f]
  BY <1>1, <1>2, <1>3 DEF CountsAreContexts
<1> QED
  BY <1>1, <1>2, <1>3, <1>4 DEF DocumentTypes, f

-----------------------------------------------------------------------------
(***************************************************************************)
(* Records and functions that the actions change.                           *)
(***************************************************************************)
Referred(b, n) == [b EXCEPT !.ref = n]
Edited(b, text, v) == [b EXCEPT !.text = text, !.version = v]
InState(x, st) == [x EXCEPT !.st = st]

LEMMA ReferredType ==
    ASSUME NEW b \in Buffer, NEW n \in Nat
    PROVE  /\ Referred(b, n) \in Buffer /\ Referred(b, n).ref = n
           /\ Referred(b, n).text = b.text /\ Referred(b, n).version = b.version
  BY DEF Buffer, Referred

LEMMA EditedType ==
    ASSUME NEW b \in Buffer, NEW text \in Texts, NEW v \in Nat
    PROVE  /\ Edited(b, text, v) \in Buffer /\ Edited(b, text, v).ref = b.ref
           /\ Edited(b, text, v).text = text /\ Edited(b, text, v).version = v
  BY DEF Buffer, Edited

LEMMA InStateType ==
    ASSUME NEW x \in Busy, NEW st \in {"open", "waiting", "asked", "hanging"}
    PROVE  InState(x, st) \in Busy /\ InState(x, st).file = x.file
  BY DEF Busy, InState

LEMMA Replaced ==
    ASSUME NEW fn, NEW f \in DOMAIN fn, NEW v
    PROVE  /\ DOMAIN [fn EXCEPT ![f] = v] = DOMAIN fn
           /\ [fn EXCEPT ![f] = v][f] = v
           /\ \A g \in DOMAIN fn : g # f => [fn EXCEPT ![f] = v][g] = fn[g]
  OBVIOUS

-----------------------------------------------------------------------------
(***************************************************************************)
(* The steps, in groups: those that leave the documents alone, the start    *)
(* and the end of a process, a session that is left, and those of a task.   *)
(***************************************************************************)
Still == UNCHANGED <<documents, tasks, process>>
Ends == process' \notin {"new", "ready"} /\ UNCHANGED <<buffers, lost>>

TaskStep(t) ==
    \/ \E f \in Files : OpenFile(t, f) \/ \E op \in Operations : Request(t, f, op)
    \/ CloseFile(t) \/ InsertTextAtPosition(t) \/ DeleteTextBetweenPositions(t)
    \/ SendCompletion(t) \/ AskAgain(t) \/ Answer(t) \/ ContextRaises(t)

LEMMA Effects ==
    ASSUME Next
    PROVE  \/ Still \/ Spawned \/ Initialized
           \/ Ends /\ UNCHANGED tasks
           \/ Stop
           \/ \E S \in SUBSET Tasks : Leave(S)
           \/ \E t \in Tasks : TaskStep(t)
<1>1. SetupRuntimeDependencies => Still
  BY DEF SetupRuntimeDependencies, Still
<1>2. CASE \E d \in DepNames, o \in {"partial", "usable"} : DownloadAndExtract(d, o)
  BY <1>2 DEF DownloadAndExtract, Still, session
<1>3. StartServer => Still
  BY DEF StartServer, Still
<1>4. EnableIntellicode => Still
  BY DEF EnableIntellicode, Still
<1>5. Ready => Still
  BY DEF Ready, Still
<1>6. LeaveBody \/ ServerDies => Ends /\ UNCHANGED tasks
  BY DEF LeaveBody, ServerDies, Ends
<1>7. CASE \E m \in Messages : Announce(m)
  BY <1>7 DEF Announce, Still
<1>8. CASE \E S \in SUBSET Tasks : StartFails(S) \/ BodyRaises(S) \/ ShutdownFails(S)
  BY <1>8, Zenon DEF StartFails, BodyRaises, ShutdownFails
<1> QED
  BY <1>1, <1>2, <1>3, <1>4, <1>5, <1>6, <1>7, <1>8, Zenon DEF Next, Starting, TaskStep

LEMMA TaskStepsAreLocal ==
    ASSUME NEW t \in Tasks, TaskStep(t)
    PROVE  UNCHANGED <<setup, session>>
<1>1. CASE \E f \in Files : OpenFile(t, f) \/ \E op \in Operations : Request(t, f, op)
  BY <1>1, Zenon DEF OpenFile, Request, Begin
<1>2. CASE CloseFile(t) \/ Answer(t)
  BY <1>2, Zenon DEF CloseFile, Answer, End
<1>3. CASE InsertTextAtPosition(t) \/ DeleteTextBetweenPositions(t)
  <2>1. \E p, q \in Positions(t) : \E s : Edit(t, p, q, s)
    BY <1>3, Zenon DEF InsertTextAtPosition, DeleteTextBetweenPositions
  <2> QED
    BY <2>1, Zenon DEF Edit
<1>4. CASE SendCompletion(t) \/ AskAgain(t)
  BY <1>4, Zenon DEF SendCompletion, AskAgain, Send
<1>5. CASE ContextRaises(t)
  BY <1>5, Zenon DEF ContextRaises
<1> QED
  BY <1>1, <1>2, <1>3, <1>4, <1>5, Zenon DEF TaskStep

LEMMA SessionTypesKept ==
    ASSUME SessionTypes, [Next]_vars
    PROVE  SessionTypes'
<1>1. CASE UNCHANGED vars
  BY <1>1 DEF SessionTypes, vars, setup, session
<1>2. CASE Starting
  <2>1. CASE Spawned
    BY <2>1 DEF Spawned, SessionTypes, setup, Phases
  <2>2. CASE Initialized
    BY <2>2 DEF Initialized, SessionTypes, setup, Phases
  <2>3. CASE EnableIntellicode \/ Ready
    BY <2>3 DEF EnableIntellicode, Ready, SessionTypes, setup, Phases
  <2> QED
    BY <1>2, <2>1, <2>2, <2>3 DEF Starting
<1>3. CASE \E d \in DepNames, o \in {"partial", "usable"} : DownloadAndExtract(d, o)
  BY <1>3 DEF DownloadAndExtract, session, SessionTypes
<1>4. CASE SetupRuntimeDependencies \/ StartServer \/ LeaveBody \/ Stop \/ ServerDies
  <2>1. CASE SetupRuntimeDependencies
    BY <2>1 DEF SetupRuntimeDependencies, SessionTypes, setup, Phases
  <2>2. CASE StartServer
    BY <2>2 DEF StartServer, SessionTypes, setup, Phases
  <2>3. CASE LeaveBody
    BY <2>3 DEF LeaveBody, SessionTypes, setup, Phases
  <2>4. CASE Stop
    BY <2>4 DEF Stop, SessionTypes, setup, Phases
  <2>5. CASE ServerDies
    BY <2>5 DEF ServerDies, SessionTypes, setup
  <2> QED
    BY <1>4, <2>1, <2>2, <2>3, <2>4, <2>5
<1>5. CASE \E S \in SUBSET Tasks : StartFails(S) \/ BodyRaises(S) \/ ShutdownFails(S)
  <2>1. phase \notin {"none", "made", "off"} /\ \E S \in SUBSET Tasks : Leave(S)
    BY <1>5 DEF StartFails, BodyRaises, ShutdownFails
  <2> QED
    BY <2>1 DEF Leave, SessionTypes, setup, Phases
<1>6. CASE \E m \in Messages : Announce(m)
  BY <1>6 DEF Announce, SessionTypes, setup
<1>7. CASE \E t \in Tasks : TaskStep(t)
  <2>1. UNCHANGED <<setup, session>>
    BY <1>7, TaskStepsAreLocal
  <2> QED
    BY <2>1 DEF SessionTypes, setup, session
<1> QED
  BY <1>1, <1>2, <1>3, <1>4, <1>5, <1>6, <1>7, Zenon DEF Next, TaskStep

-----------------------------------------------------------------------------
(***************************************************************************)
(* The documents.                                                           *)
(***************************************************************************)
CountIs(f, n) == IF f \in DOMAIN buffers THEN buffers[f].ref = n ELSE n = 0

LEMMA Counts ==
    CountsAreContexts <=> \A f \in Files : CountIs(f, Cardinality(UsersOf(f)) + lost[f])
BY Zenon DEF CountsAreContexts, CountIs

(* A step that keeps the contexts and the buffers.                         *)
LEMMA KeepingStep ==
    ASSUME DocumentsInv, UNCHANGED <<buffers, lost>>, Mirrored',
           tasks' \in [Tasks -> Task],
           \A t \in Tasks, f \in Files : Using(tasks'[t], f) <=> Using(tasks[t], f)
    PROVE  DocumentsInv'
<1>1. DocumentTypes'
  BY DEF DocumentsInv, DocumentTypes
<1>2. \A f \in Files : UsersOf(f)' = UsersOf(f)
  BY DEF UsersOf, Inside, Using
<1>3. CountsAreContexts'
  BY <1>2 DEF DocumentsInv, CountsAreContexts
<1> QED
  BY <1>1, <1>3 DEF DocumentsInv

LEMMA QuietStep ==
    ASSUME DocumentsInv, Still
    PROVE  DocumentsInv'
<1>1. UNCHANGED <<buffers, docs, apart, lost, tasks, process>>
  BY DEF Still, documents
<1>2. Mirrored'
  BY <1>1, Zenon DEF DocumentsInv, Mirrored, ServerMirrorsBuffers
<1>3. tasks' \in [Tasks -> Task]
  BY <1>1 DEF DocumentsInv, DocumentTypes
<1> QED
  BY <1>1, <1>2, <1>3, KeepingStep

LEMMA ProcessStep ==
    ASSUME DocumentsInv, Spawned \/ Initialized \/ (Ends /\ UNCHANGED tasks)
    PROVE  DocumentsInv'
<1>1. UNCHANGED <<buffers, lost, tasks>>
  BY DEF Spawned, Initialized, Ends, documents
<1>2. Mirrored'
  <2>1. CASE Spawned
    <3>1. docs' = << >> /\ apart' = DOMAIN buffers /\ process' = "new"
      BY <2>1 DEF Spawned
    <3>2. DOMAIN docs' = {}
      BY <3>1
    <3> QED
      BY <1>1, <3>1, <3>2 DEF Mirrored, ServerMirrorsBuffers
  <2>2. CASE Initialized
    BY <1>1, <2>2 DEF Initialized, documents, DocumentsInv, Mirrored, ServerMirrorsBuffers
  <2>3. CASE Ends
    BY <2>3 DEF Ends, Mirrored, ServerMirrorsBuffers
  <2> QED
    BY <2>1, <2>2, <2>3
<1>3. tasks' \in [Tasks -> Task]
  BY <1>1 DEF DocumentsInv, DocumentTypes
<1> QED
  BY <1>1, <1>2, <1>3, KeepingStep

(* The requests that wait for an answer will not get one.                  *)
LEMMA StopStep ==
    ASSUME DocumentsInv, Stop
    PROVE  DocumentsInv'
<1>1. /\ UNCHANGED <<buffers, lost>> /\ process' = "none"
      /\ tasks' = [t \in Tasks |-> IF tasks[t].st = "asked" THEN InState(tasks[t], "hanging")
                                   ELSE tasks[t]]
  BY DEF Stop, documents, InState
<1>2. ASSUME NEW t \in Tasks
      PROVE  tasks'[t] \in Task /\ \A f \in Files : Using(tasks'[t], f) <=> Using(tasks[t], f)
  <2>1. tasks[t] \in Task
    BY DEF DocumentsInv, DocumentTypes
  <2>2. CASE tasks[t].st = "asked"
    <3>1. tasks[t] \in Busy /\ tasks[t] # Idle
      BY <2>1, <2>2, TaskKinds
    <3>2. tasks'[t] = InState(tasks[t], "hanging")
      BY <1>1, <2>2
    <3>3. tasks'[t] \in Busy /\ tasks'[t].file = tasks[t].file
      BY <3>1, <3>2, InStateType
    <3>4. tasks'[t] # Idle
      BY <3>3, TaskKinds
    <3> QED
      BY <3>1, <3>3, <3>4 DEF Task, Using
  <2>3. CASE tasks[t].st # "asked"
    BY <1>1, <2>1, <2>3
  <2> QED
    BY <2>2, <2>3
<1>3. tasks' \in [Tasks -> Task]
  BY <1>1, <1>2
<1>4. Mirrored'
  BY <1>1 DEF Mirrored, ServerMirrorsBuffers
<1> QED
  BY <1>1, <1>2, <1>3, <1>4, KeepingStep

(* What the exception leaves behind is counted.                            *)
LEMMA LeaveStep ==
    ASSUME DocumentsInv, NEW S \in SUBSET Tasks, Leave(S)
    PROVE  DocumentsInv'
<1>1. /\ UNCHANGED <<buffers, docs, process, apart>>
      /\ lost' = [f \in Files |-> lost[f] + Cardinality(UsersOf(f) \cap S)]
      /\ tasks' = [t \in Tasks |-> IF t \in S THEN Idle ELSE tasks[t]]
  BY DEF Leave
<1>2. ASSUME NEW f \in Files
      PROVE  /\ lost[f] \in Nat /\ Cardinality(UsersOf(f)) \in Nat
             /\ Cardinality(UsersOf(f) \cap S) \in Nat
             /\ Cardinality(UsersOf(f))' = Cardinality(UsersOf(f)) - Cardinality(UsersOf(f) \cap S)
  <2> DEFINE U == UsersOf(f)
             V == UsersOf(f)'
  <2>1. /\ U = {t \in Tasks : Using(tasks[t], f)} /\ IsFiniteSet(U) /\ Cardinality(U) \in Nat
        /\ lost[f] \in Nat
    BY Users DEF DocumentsInv, DocumentTypes
  <2>2. V = {t \in Tasks : Using(tasks'[t], f)}
    BY DEF UsersOf, Inside, Using
  <2>3. ~Using(Idle, f)
    BY DEF Using
  <2> HIDE DEF U, V
  <2>4. V = U \ S
    BY <1>1, <2>1, <2>2, <2>3
  <2>5. IsFiniteSet(U \cap S) /\ Cardinality(U \cap S) \in Nat
    BY <2>1, FS_Intersection, FS_CardinalityType
  <2>6. Cardinality(U \ S) = Cardinality(U) - Cardinality(U \cap S)
    BY <2>1, FS_Difference
  <2> QED
    BY <2>1, <2>4, <2>5, <2>6 DEF U, V
<1>3. DocumentTypes'
  <2>1. lost' \in [Files -> Nat]
    BY <1>1, <1>2
  <2>2. tasks' \in [Tasks -> Task]
    BY <1>1 DEF Task, DocumentsInv, DocumentTypes
  <2> QED
    BY <1>1, <2>1, <2>2, Zenon DEF DocumentsInv, DocumentTypes
<1>4. Mirrored'
  BY <1>1, Zenon DEF DocumentsInv, Mirrored, ServerMirrorsBuffers
<1>5. CountsAreContexts'
  <2>1. \A f \in Files : Cardinality(UsersOf(f))' + lost'[f] = Cardinality(UsersOf(f)) + lost[f]
    <3> TAKE f \in Files
    <3>1. lost'[f] = lost[f] + Cardinality(UsersOf(f) \cap S)
      BY <1>1
    <3> QED
      BY <1>2, <3>1
  <2>2. \A f \in Files : CountIs(f, Cardinality(UsersOf(f)) + lost[f])
    BY Counts DEF DocumentsInv
  <2>3. \A f \in Files : CountIs(f, Cardinality(UsersOf(f)) + lost[f])'
    BY <1>1, <2>1, <2>2 DEF CountIs
  <2> QED
    BY <2>3, Zenon DEF CountsAreContexts, CountIs
<1> QED
  BY <1>3, <1>4, <1>5 DEF DocumentsInv

(* The context of an exception is counted as lost.                         *)
LEMMA RaiseStep ==
    ASSUME DocumentsInv, NEW t \in Tasks, ContextRaises(t)
    PROVE  DocumentsInv'
<1> DEFINE f0 == tasks[t].file
<1>1. /\ UNCHANGED <<buffers, docs, process, apart>>
      /\ lost' = [lost EXCEPT ![f0] = lost[f0] + 1]
      /\ tasks' = [tasks EXCEPT ![t] = Idle]
  BY DEF ContextRaises, session
<1>2. f0 \in Files /\ Idle \in Task /\ tasks[t] # Idle
  <2>1. tasks[t] \in Busy /\ tasks[t] # Idle
    BY TaskKinds DEF DocumentsInv, DocumentTypes, ContextRaises
  <2> QED
    BY <2>1, TaskKinds, HasBuffer DEF DocumentsInv
<1>3. \A f \in Files : ~Using(Idle, f) /\ (Using(tasks[t], f) <=> f = f0)
  BY <1>2 DEF Using
<1> HIDE DEF f0
<1>4. /\ tasks' \in [Tasks -> Task]
      /\ \A f \in Files : Cardinality(UsersOf(f)) \in Nat
            /\ Cardinality(UsersOf(f))' = Cardinality(UsersOf(f)) + IF f = f0 THEN -1 ELSE 0
  <2>1. /\ tasks' \in [Tasks -> Task]
        /\ \A f \in Files :
              /\ Cardinality(UsersOf(f)) \in Nat
              /\ Cardinality(UsersOf(f))' =
                    Cardinality(UsersOf(f))
                    + (IF Using(Idle, f) /\ ~Using(tasks[t], f) THEN 1
                       ELSE IF ~Using(Idle, f) /\ Using(tasks[t], f) THEN -1 ELSE 0)
    BY <1>1, <1>2, OneTask DEF DocumentsInv, DocumentTypes
  <2> QED
    BY <1>3, <2>1
<1>5. /\ lost' \in [Files -> Nat]
      /\ \A f \in Files : lost[f] \in Nat /\ lost'[f] = lost[f] + IF f = f0 THEN 1 ELSE 0
  BY <1>1, <1>2 DEF DocumentsInv, DocumentTypes
<1>6. DocumentTypes'
  BY <1>1, <1>4, <1>5, Zenon DEF DocumentsInv, DocumentTypes
<1>7. Mirrored'
  BY <1>1, Zenon DEF DocumentsInv, Mirrored, ServerMirrorsBuffers
<1>8. CountsAreContexts'
  <2>1. \A f \in Files : CountIs(f, Cardinality(UsersOf(f)) + lost[f])
    BY Counts DEF DocumentsInv
  <2>2. \A f \in Files : Cardinality(UsersOf(f))' + lost'[f] = Cardinality(UsersOf(f)) + lost[f]
    BY <1>4, <1>5
  <2>3. \A f \in Files : CountIs(f, Cardinality(UsersOf(f)) + lost[f])'
    BY <1>1, <2>1, <2>2 DEF CountIs
  <2> QED
    BY <2>3, Zenon DEF CountsAreContexts, CountIs
<1> QED
  BY <1>6, <1>7, <1>8 DEF DocumentsInv

(* The first context of a file sends the text, to a server that takes it;  *)
(* the others are counted.                                                 *)
LEMMA BeginStep ==
    ASSUME DocumentsInv, NEW t \in Tasks, NEW f0 \in Files, NEW op \in Operations \cup {"none"},
           NEW st \in {"open", "waiting", "asked", "hanging"}, Begin(t, f0, op, st)
    PROVE  DocumentsInv'
<1> DEFINE x == [st |-> st, file |-> f0, op |-> op]
<1>1. /\ UNCHANGED <<lost, process>> /\ Open(f0)
      /\ tasks' = [tasks EXCEPT ![t] = x]
  BY DEF Begin, session
<1>2. x \in Task /\ \A f \in Files : Using(x, f) <=> f = f0
  <2>1. x \in Busy
    BY DEF Busy
  <2> QED
    BY <2>1, TaskKinds DEF Task, Using
<1>3. \A f \in Files : ~Using(tasks[t], f)
  BY DEF Begin, Using
<1> HIDE DEF x
<1>4. /\ tasks' \in [Tasks -> Task]
      /\ \A f \in Files : Cardinality(UsersOf(f)) \in Nat
            /\ Cardinality(UsersOf(f))' = Cardinality(UsersOf(f)) + IF f = f0 THEN 1 ELSE 0
  <2>1. /\ tasks' \in [Tasks -> Task]
        /\ \A f \in Files :
              /\ Cardinality(UsersOf(f)) \in Nat
              /\ Cardinality(UsersOf(f))' =
                    Cardinality(UsersOf(f))
                    + (IF Using(x, f) /\ ~Using(tasks[t], f) THEN 1
                       ELSE IF ~Using(x, f) /\ Using(tasks[t], f) THEN -1 ELSE 0)
    BY <1>1, <1>2, OneTask DEF DocumentsInv, DocumentTypes
  <2> QED
    BY <1>2, <1>3, <2>1
<1>5. \A f \in Files : lost[f] \in Nat /\ CountIs(f, Cardinality(UsersOf(f)) + lost[f])
  BY Counts DEF DocumentsInv, DocumentTypes
<1>6. CASE f0 \in DOMAIN buffers
  <2> DEFINE b == buffers[f0]
             c == Referred(b, b.ref + 1)
  <2>1. buffers' = [buffers EXCEPT ![f0] = c] /\ UNCHANGED <<docs, apart>>
    BY <1>1, <1>6 DEF Open, Referred
  <2>2. b \in Buffer /\ b.ref \in Nat
    BY <1>6 DEF DocumentsInv, DocumentTypes, Buffer
  <2> HIDE DEF b
  <2>3. c \in Buffer /\ c.ref = b.ref + 1 /\ c.text = b.text /\ c.version = b.version
    <3>1. b.ref + 1 \in Nat
      BY <2>2
    <3> QED
      BY <2>2, <3>1, ReferredType
  <2> HIDE DEF c
  <2>4. /\ DOMAIN buffers' = DOMAIN buffers /\ buffers'[f0] = c
        /\ \A g \in DOMAIN buffers : g # f0 => buffers'[g] = buffers[g]
    BY <1>6, <2>1, Replaced
  <2>5. DocumentTypes'
    BY <1>1, <1>4, <2>1, <2>3, <2>4 DEF DocumentsInv, DocumentTypes
  <2>6. Mirrored'
    BY <1>1, <2>1, <2>3, <2>4 DEF DocumentsInv, Mirrored, ServerMirrorsBuffers, b
  <2>7. CountsAreContexts'
    <3>1. \A f \in Files : CountIs(f, Cardinality(UsersOf(f)) + lost[f])'
      <4> TAKE f \in Files
      <4>1. CASE f = f0
        <5>1. b.ref = Cardinality(UsersOf(f0)) + lost[f0]
          BY <1>5, <1>6 DEF CountIs, b
        <5>2. c.ref = (Cardinality(UsersOf(f0)) + 1) + lost[f0]
          BY <1>4, <1>5, <2>3, <5>1
        <5> QED
          BY <1>1, <1>4, <1>6, <2>4, <4>1, <5>2 DEF CountIs
      <4>2. CASE f # f0
        <5>1. Cardinality(UsersOf(f))' = Cardinality(UsersOf(f))
          BY <1>4, <4>2
        <5> QED
          BY <1>1, <1>5, <2>4, <4>2, <5>1 DEF CountIs
      <4> QED
        BY <4>1, <4>2
    <3> QED
      BY <3>1, Zenon DEF CountsAreContexts, CountIs
  <2> QED
    BY <2>5, <2>6, <2>7 DEF DocumentsInv
<1>7. CASE f0 \notin DOMAIN buffers
  <2> DEFINE c == [text |-> Disk[f0], version |-> 0, ref |-> 1]
             d == [text |-> Disk[f0], version |-> 0]
  <2>1. /\ buffers' = Opened(buffers, f0, c)
        /\ process = "ready" => docs' = Opened(docs, f0, d) /\ UNCHANGED apart
        /\ process # "ready" => apart' = apart \cup {f0} /\ UNCHANGED docs
    BY <1>1, <1>7 DEF Open
  <2>2. /\ c \in Buffer /\ c.ref = 1
        /\ d.text = c.text /\ d.version = c.version
    BY SessionAssumption DEF Buffer
  <2> HIDE DEF c, d
  <2>3. /\ DOMAIN buffers' = DOMAIN buffers \cup {f0} /\ buffers'[f0] = c
        /\ \A g \in DOMAIN buffers : g # f0 => buffers'[g] = buffers[g]
    BY <2>1 DEF Opened
  <2>4. process = "ready" => /\ DOMAIN docs' = DOMAIN docs \cup {f0} /\ docs'[f0] = d
                             /\ \A g \in DOMAIN docs : g # f0 => docs'[g] = docs[g]
    BY <2>1 DEF Opened
  <2>7. DocumentTypes'
    <3>1. DOMAIN buffers' \subseteq Files /\ \A f \in DOMAIN buffers' : buffers'[f] \in Buffer
      BY <2>2, <2>3 DEF DocumentsInv, DocumentTypes
    <3> QED
      BY <1>1, <1>4, <3>1, Zenon DEF DocumentsInv, DocumentTypes
  <2>8. Mirrored'
    <3>1. CASE process = "ready"
      <4>1. DOMAIN docs' \subseteq DOMAIN buffers'
        BY <2>3, <2>4, <3>1 DEF DocumentsInv, Mirrored, ServerMirrorsBuffers
      <4>2. \A f \in DOMAIN buffers' \ apart' :
               /\ f \in DOMAIN docs'
               /\ docs'[f].text = buffers'[f].text /\ docs'[f].version = buffers'[f].version
        BY <2>1, <2>2, <2>3, <2>4, <3>1 DEF DocumentsInv, Mirrored, ServerMirrorsBuffers
      <4> QED
        BY <1>1, <3>1, <4>1, <4>2 DEF Mirrored, ServerMirrorsBuffers
    <3>2. CASE process # "ready"
      BY <1>1, <2>1, <2>3, <3>2 DEF DocumentsInv, Mirrored, ServerMirrorsBuffers
    <3> QED
      BY <3>1, <3>2
  <2>9. CountsAreContexts'
    <3>1. \A f \in Files : CountIs(f, Cardinality(UsersOf(f)) + lost[f])'
      <4> TAKE f \in Files
      <4>1. CASE f = f0
        <5>1. Cardinality(UsersOf(f0)) + lost[f0] = 0
          BY <1>5, <1>7 DEF CountIs
        <5>2. (Cardinality(UsersOf(f0)) + 1) + lost[f0] = 1
          BY <1>4, <1>5, <5>1
        <5> QED
          BY <1>1, <1>4, <2>2, <2>3, <4>1, <5>2 DEF CountIs
      <4>2. CASE f # f0
        <5>1. Cardinality(UsersOf(f))' = Cardinality(UsersOf(f))
          BY <1>4, <4>2
        <5> QED
          BY <1>1, <1>5, <2>3, <4>2, <5>1 DEF CountIs
      <4> QED
        BY <4>1, <4>2
    <3> QED
      BY <3>1, Zenon DEF CountsAreContexts, CountIs
  <2> QED
    BY <2>7, <2>8, <2>9 DEF DocumentsInv
<1> QED
  BY <1>6, <1>7

(* A context ends: only the last one closes the file on the server.        *)
LEMMA CloseStep ==
    ASSUME DocumentsInv, NEW t \in Tasks, tasks[t] \in Busy, End(t)
    PROVE  DocumentsInv'
<1> DEFINE f0 == tasks[t].file
           b == buffers[f0]
<1>1. /\ f0 \in Files /\ f0 \in DOMAIN buffers /\ b \in Buffer /\ b.ref \in Nat /\ b.ref >= 1
  BY HasBuffer DEF DocumentsInv, Buffer
<1>2. /\ IF b.ref = 1 THEN /\ buffers' = Without(buffers, f0) /\ docs' = Without(docs, f0)
                           /\ apart' = apart \ {f0}
         ELSE buffers' = [buffers EXCEPT ![f0] = Referred(b, b.ref - 1)] /\ UNCHANGED <<docs, apart>>
      /\ tasks' = [tasks EXCEPT ![t] = Idle] /\ UNCHANGED <<lost, process>>
  BY DEF End, Close, Referred, session
<1>3. /\ Idle \in Task
      /\ \A f \in Files : ~Using(Idle, f) /\ (Using(tasks[t], f) <=> f = f0)
  BY TaskKinds DEF Using
<1> HIDE DEF f0
<1>4. /\ tasks' \in [Tasks -> Task]
      /\ \A f \in Files : Cardinality(UsersOf(f)) \in Nat
            /\ Cardinality(UsersOf(f))' = Cardinality(UsersOf(f)) + IF f = f0 THEN -1 ELSE 0
  <2>1. /\ tasks' \in [Tasks -> Task]
        /\ \A f \in Files :
              /\ Cardinality(UsersOf(f)) \in Nat
              /\ Cardinality(UsersOf(f))' =
                    Cardinality(UsersOf(f))
                    + (IF Using(Idle, f) /\ ~Using(tasks[t], f) THEN 1
                       ELSE IF ~Using(Idle, f) /\ Using(tasks[t], f) THEN -1 ELSE 0)
    BY <1>2, <1>3, OneTask DEF DocumentsInv, DocumentTypes
  <2> QED
    BY <1>3, <2>1
<1>5. \A f \in Files : lost[f] \in Nat /\ CountIs(f, Cardinality(UsersOf(f)) + lost[f])
  BY Counts DEF DocumentsInv, DocumentTypes
<1>6. b.ref = Cardinality(UsersOf(f0)) + lost[f0]
  BY <1>1, <1>5 DEF CountIs
<1>7. CASE b.ref = 1
  <2>1. /\ DOMAIN buffers' = DOMAIN buffers \ {f0} /\ DOMAIN docs' = DOMAIN docs \ {f0}
        /\ \A g \in DOMAIN buffers : g # f0 => buffers'[g] = buffers[g]
        /\ \A g \in DOMAIN docs : g # f0 => docs'[g] = docs[g]
    BY <1>2, <1>7 DEF Without
  <2>2. DocumentTypes'
    <3>1. DOMAIN buffers' \subseteq Files /\ \A f \in DOMAIN buffers' : buffers'[f] \in Buffer
      BY <2>1 DEF DocumentsInv, DocumentTypes
    <3>2. lost' \in [Files -> Nat]
      BY <1>2 DEF DocumentsInv, DocumentTypes
    <3> QED
      BY <1>4, <3>1, <3>2 DEF DocumentTypes
  <2>3. Mirrored'
    BY <1>2, <1>7, <2>1 DEF DocumentsInv, Mirrored, ServerMirrorsBuffers
  <2>4. CountsAreContexts'
    <3>1. \A f \in Files : CountIs(f, Cardinality(UsersOf(f)) + lost[f])'
      <4> TAKE f \in Files
      <4>1. CASE f = f0
        <5>1. (Cardinality(UsersOf(f0)) - 1) + lost[f0] = 0
          BY <1>1, <1>4, <1>5, <1>6, <1>7
        <5>2. Cardinality(UsersOf(f))' + lost'[f] = 0
          BY <1>1, <1>2, <1>4, <4>1, <5>1
        <5> QED
          BY <2>1, <4>1, <5>2 DEF CountIs
      <4>2. CASE f # f0
        <5>1. Cardinality(UsersOf(f))' = Cardinality(UsersOf(f))
          BY <1>4, <4>2
        <5> QED
          BY <1>2, <1>5, <2>1, <4>2, <5>1 DEF CountIs
      <4> QED
        BY <4>1, <4>2
    <3> QED
      BY <3>1, Zenon DEF CountsAreContexts, CountIs
  <2> QED
    BY <2>2, <2>3, <2>4 DEF DocumentsInv
<1>8. CASE b.ref # 1
  <2> DEFINE c == Referred(b, b.ref - 1)
  <2>1. c \in Buffer /\ c.ref = b.ref - 1 /\ c.text = b.text /\ c.version = b.version
    <3>1. b.ref - 1 \in Nat
      BY <1>1
    <3> QED
      BY <1>1, <3>1, ReferredType
  <2>2. buffers' = [buffers EXCEPT ![f0] = c] /\ UNCHANGED <<docs, apart>>
    BY <1>2, <1>8
  <2> HIDE DEF c
  <2>3. /\ DOMAIN buffers' = DOMAIN buffers /\ buffers'[f0] = c
        /\ \A g \in DOMAIN buffers : g # f0 => buffers'[g] = buffers[g]
    BY <1>1, <2>2, Replaced
  <2>4. DocumentTypes'
    <3>1. DOMAIN buffers' \subseteq Files /\ \A f \in DOMAIN buffers' : buffers'[f] \in Buffer
      BY <2>1, <2>3 DEF DocumentsInv, DocumentTypes
    <3>2. lost' \in [Files -> Nat]
      BY <1>2 DEF DocumentsInv, DocumentTypes
    <3> QED
      BY <1>4, <3>1, <3>2 DEF DocumentTypes
  <2>5. Mirrored'
    BY <1>2, <2>1, <2>2, <2>3 DEF DocumentsInv, Mirrored, ServerMirrorsBuffers, b
  <2>6. CountsAreContexts'
    <3>1. \A f \in Files : CountIs(f, Cardinality(UsersOf(f)) + lost[f])'
      <4> TAKE f \in Files
      <4>1. CASE f = f0
        <5>1. c.ref = (Cardinality(UsersOf(f0)) - 1) + lost[f0]
          BY <1>1, <1>4, <1>5, <1>6, <2>1
        <5>2. c.ref = Cardinality(UsersOf(f))' + lost'[f]
          BY <1>1, <1>2, <1>4, <4>1, <5>1
        <5> QED
          BY <1>1, <2>3, <4>1, <5>2 DEF CountIs
      <4>2. CASE f # f0
        <5>1. Cardinality(UsersOf(f))' = Cardinality(UsersOf(f))
          BY <1>4, <4>2
        <5> QED
          BY <1>2, <1>5, <2>3, <4>2, <5>1 DEF CountIs
      <4> QED
        BY <4>1, <4>2
    <3> QED
      BY <3>1, Zenon DEF CountsAreContexts, CountIs
  <2> QED
    BY <2>4, <2>5, <2>6 DEF DocumentsInv
<1> QED
  BY <1>7, <1>8


(* An edit: unless the server counts otherwise, both sides cut the same    *)
(* text at the same index.                                                 *)
LEMMA EditStep ==
    ASSUME DocumentsInv, NEW t \in Tasks, tasks[t].st = "open",
           NEW p \in Positions(t), NEW q \in Positions(t), NEW s \in Texts, Edit(t, p, q, s)
    PROVE  DocumentsInv'
<1> DEFINE f0 == tasks[t].file
           b == buffers[f0]
           old == b.text
           new == Spliced(old, GetIndexFromLineCol(old, p.line, p.col),
                          GetIndexFromLineCol(old, q.line, q.col), s)
           v == b.version + 1
           c == Edited(b, new, v)
           d == ServerChange(docs[f0], v, p, q, s)
<1>1. /\ f0 \in Files /\ f0 \in DOMAIN buffers /\ b \in Buffer
      /\ old \in Texts /\ b.version \in Nat /\ v \in Nat
  <2>1. tasks[t] \in Busy
    BY TaskKinds DEF DocumentsInv, DocumentTypes
  <2>2. f0 \in Files /\ f0 \in DOMAIN buffers /\ b \in Buffer
    BY <2>1, HasBuffer DEF DocumentsInv
  <2> QED
    BY <2>2 DEF Buffer
<1>2. /\ buffers' = [buffers EXCEPT ![f0] = c]
      /\ docs' = IF f0 \in DOMAIN docs THEN [docs EXCEPT ![f0] = d] ELSE docs
      /\ UNCHANGED <<lost, tasks, process>>
      /\ apart' = IF BehindWide(old, p) \/ BehindWide(old, q) THEN apart \cup {f0} ELSE apart
  BY DEF Edit, session, Edited
<1>3. PICK i \in 0..Len(old) : p = GetLineColFromIndex(old, i)
  BY DEF Positions
<1>4. PICK j \in 0..Len(old) : q = GetLineColFromIndex(old, j)
  BY DEF Positions
<1> HIDE DEF f0, b, old
<1>5. GetIndexFromLineCol(old, p.line, p.col) = i /\ GetIndexFromLineCol(old, q.line, q.col) = j
  <2>1. LineStart(old, p.line) + p.col = i
    BY <1>1, <1>3, PositionOfIndex
  <2>2. LineStart(old, q.line) + q.col = j
    BY <1>1, <1>4, PositionOfIndex
  <2> QED
    BY <2>1, <2>2 DEF GetIndexFromLineCol
<1>6. new = Spliced(old, i, j, s) /\ new \in Texts
  BY <1>1, <1>5, SplicedType
<1> HIDE DEF new
<1>7. c \in Buffer /\ c.ref = b.ref /\ c.text = new /\ c.version = v
  <2>1. v \in Nat /\ b \in Buffer /\ new \in Texts
    BY <1>1, <1>6
  <2> HIDE DEF v, c
  <2>2. /\ Edited(b, new, v) \in Buffer /\ Edited(b, new, v).ref = b.ref
        /\ Edited(b, new, v).text = new /\ Edited(b, new, v).version = v
    BY <2>1, EditedType
  <2>3. c = Edited(b, new, v)
    BY DEF c
  <2> QED
    BY <2>2, <2>3
<1>8. process = "ready" /\ f0 \notin apart' => f0 \in DOMAIN docs /\ d = [text |-> new, version |-> v]
  <2> SUFFICES ASSUME process = "ready", f0 \notin apart'
               PROVE  f0 \in DOMAIN docs /\ d = [text |-> new, version |-> v]
    OBVIOUS
  <2>1. ~BehindWide(old, p) /\ ~BehindWide(old, q) /\ f0 \notin apart
    BY <1>2
  <2>2. f0 \in DOMAIN docs /\ docs[f0].text = old
    BY <1>1, <2>1 DEF DocumentsInv, Mirrored, ServerMirrorsBuffers, old, b
  <2>3. ServerIndex(old, p) = i /\ ServerIndex(old, q) = j
    BY <1>1, <1>3, <1>4, <2>1, ServerFindsIndex
  <2>4. d = [text |-> new, version |-> v]
    BY <1>6, <2>2, <2>3 DEF ServerChange
  <2> QED
    BY <2>2, <2>4
<1>a. apart \subseteq apart'
  BY <1>2
<1> HIDE DEF c, d, v
<1>9. /\ DOMAIN buffers' = DOMAIN buffers /\ buffers'[f0] = c
      /\ \A g \in DOMAIN buffers : g # f0 => buffers'[g] = buffers[g]
  BY <1>1, <1>2, Replaced
<1>10. /\ DOMAIN docs' = DOMAIN docs
       /\ f0 \in DOMAIN docs => docs'[f0] = d
       /\ \A g \in DOMAIN docs : g # f0 => docs'[g] = docs[g]
  BY <1>2
<1>11. DocumentTypes'
  <2>1. DOMAIN buffers' \subseteq Files /\ \A f \in DOMAIN buffers' : buffers'[f] \in Buffer
    BY <1>7, <1>9 DEF DocumentsInv, DocumentTypes
  <2>2. lost' \in [Files -> Nat] /\ tasks' \in [Tasks -> Task]
    BY <1>2 DEF DocumentsInv, DocumentTypes
  <2> QED
    BY <2>1, <2>2 DEF DocumentTypes
<1>12. Mirrored'
  <2>1. process' = process
    BY <1>2
  <2>2. process = "new" => DOMAIN docs' = {} /\ DOMAIN buffers' \subseteq apart'
    BY <1>9, <1>10, <1>a DEF DocumentsInv, Mirrored
  <2>3. ASSUME process = "ready"
        PROVE  /\ DOMAIN docs' \subseteq DOMAIN buffers'
               /\ \A f \in DOMAIN buffers' \ apart' :
                     /\ f \in DOMAIN docs'
                     /\ docs'[f].text = buffers'[f].text /\ docs'[f].version = buffers'[f].version
    <3>1. DOMAIN docs' \subseteq DOMAIN buffers'
      BY <1>9, <1>10, <2>3 DEF DocumentsInv, Mirrored, ServerMirrorsBuffers
    <3>2. ASSUME NEW f \in DOMAIN buffers' \ apart'
          PROVE  /\ f \in DOMAIN docs'
                 /\ docs'[f].text = buffers'[f].text /\ docs'[f].version = buffers'[f].version
      <4>1. CASE f = f0
        BY <1>7, <1>8, <1>9, <1>10, <2>3, <3>2, <4>1
      <4>2. CASE f # f0
        <5>1. f \in DOMAIN buffers \ apart
          BY <1>9, <1>a, <3>2
        <5>2. /\ f \in DOMAIN docs
              /\ docs[f].text = buffers[f].text /\ docs[f].version = buffers[f].version
          BY <2>3, <5>1 DEF DocumentsInv, Mirrored, ServerMirrorsBuffers
        <5> QED
          BY <1>9, <1>10, <4>2, <5>1, <5>2
      <4> QED
        BY <4>1, <4>2
    <3> QED
      BY <3>1, <3>2
  <2> QED
    BY <2>1, <2>2, <2>3 DEF Mirrored, ServerMirrorsBuffers
<1>13. CountsAreContexts'
  <2>1. \A f \in Files : CountIs(f, Cardinality(UsersOf(f)) + lost[f])
    BY Counts DEF DocumentsInv
  <2>2. \A f \in Files : UsersOf(f)' = UsersOf(f)
    BY <1>2 DEF UsersOf, Inside
  <2>3. \A f \in DOMAIN buffers : buffers'[f].ref = buffers[f].ref
    BY <1>7, <1>9 DEF b
  <2>4. \A f \in Files : CountIs(f, Cardinality(UsersOf(f)) + lost[f])'
    BY <1>2, <1>9, <2>1, <2>2, <2>3 DEF CountIs
  <2> QED
    BY <2>4, Zenon DEF CountsAreContexts, CountIs
<1> QED
  BY <1>11, <1>12, <1>13 DEF DocumentsInv

(* A request that is sent once more.                                       *)
LEMMA SendStep ==
    ASSUME DocumentsInv, NEW t \in Tasks, tasks[t] \in Busy, Send(t)
    PROVE  DocumentsInv'
<1> DEFINE x == InState(tasks[t], Sent)
<1>1. Sent \in {"open", "waiting", "asked", "hanging"}
  BY DEF Sent
<1>2. x \in Busy /\ x.file = tasks[t].file
  BY <1>1, InStateType
<1>3. tasks' = [tasks EXCEPT ![t] = x] /\ UNCHANGED <<buffers, docs, apart, lost, process>>
  BY DEF Send, InState, documents, session
<1>4. x \in Task /\ x # Idle /\ tasks[t] # Idle
  BY <1>2, TaskKinds DEF Task
<1> HIDE DEF x
<1>5. /\ tasks' \in [Tasks -> Task]
      /\ \A u \in Tasks, f \in Files : Using(tasks'[u], f) <=> Using(tasks[u], f)
  BY <1>2, <1>3, <1>4 DEF Using, DocumentsInv, DocumentTypes
<1>6. Mirrored'
  BY <1>3, Zenon DEF DocumentsInv, Mirrored, ServerMirrorsBuffers
<1> QED
  BY <1>3, <1>5, <1>6, KeepingStep

LEMMA OneTaskStep ==
    ASSUME DocumentsInv, NEW t \in Tasks, TaskStep(t)
    PROVE  DocumentsInv'
<1>2. tasks[t] \in Task /\ (tasks[t].st \in {"open", "waiting", "asked"} => tasks[t] \in Busy)
  BY TaskKinds DEF DocumentsInv, DocumentTypes
<1>3. CASE \E f \in Files : OpenFile(t, f)
  BY <1>3, BeginStep DEF OpenFile
<1>4. CASE \E f \in Files, op \in Operations : Request(t, f, op)
  <2>1. PICK f \in Files, op \in Operations : Request(t, f, op)
    BY <1>4
  <2> DEFINE st == IF op = "completions" /\ "completions" \notin events THEN "waiting" ELSE Sent
  <2>2. st \in {"open", "waiting", "asked", "hanging"}
    BY DEF Sent
  <2>3. Begin(t, f, op, st)
    BY <2>1 DEF Request
  <2> HIDE DEF st
  <2> QED
    BY <2>2, <2>3, BeginStep
<1>5. CASE CloseFile(t) \/ Answer(t)
  <2>1. tasks[t].st \in {"open", "asked"} /\ End(t)
    BY <1>5 DEF CloseFile, Answer, Does
  <2> QED
    BY <1>2, <2>1, CloseStep
<1>6. CASE InsertTextAtPosition(t)
  <2>1. PICK p \in Positions(t), s \in Inserts : Edit(t, p, p, s)
    BY <1>6, Zenon DEF InsertTextAtPosition
  <2>2. tasks[t].st = "open" /\ s \in Texts
    BY <1>6, SessionAssumption DEF InsertTextAtPosition, Does
  <2> QED
    BY <2>1, <2>2, EditStep
<1>7. CASE DeleteTextBetweenPositions(t)
  <2>1. PICK p \in Positions(t), q \in Positions(t) : Edit(t, p, q, << >>)
    BY <1>7, Zenon DEF DeleteTextBetweenPositions
  <2>2. tasks[t].st = "open" /\ << >> \in Texts
    BY <1>7 DEF DeleteTextBetweenPositions, Texts, Does
  <2> QED
    BY <2>1, <2>2, EditStep
<1>8. CASE SendCompletion(t) \/ AskAgain(t)
  <2>1. tasks[t].st \in {"waiting", "asked"} /\ Send(t)
    BY <1>8 DEF SendCompletion, AskAgain, Does
  <2> QED
    BY <1>2, <2>1, SendStep
<1>9. CASE ContextRaises(t)
  BY <1>9, RaiseStep
<1> QED
  BY <1>3, <1>4, <1>5, <1>6, <1>7, <1>8, <1>9, Zenon DEF TaskStep

LEMMA DocumentsInit ==
    ASSUME Init
    PROVE  IInv
<1>1. SessionTypes
  BY DEF Init, SessionTypes, Phases
<1>2. DocumentTypes
  BY DEF Init, DocumentTypes, Task
<1>3. Mirrored
  BY DEF Init, Mirrored, ServerMirrorsBuffers
<1>4. CountsAreContexts
  <2>1. \A f \in Files : UsersOf(f) = {} /\ lost[f] = 0 /\ f \notin DOMAIN buffers
    BY DEF Init, UsersOf, Inside
  <2> QED
    BY <2>1, FS_EmptySet DEF CountsAreContexts
<1> QED
  BY <1>1, <1>2, <1>3, <1>4 DEF IInv, DocumentsInv

LEMMA DocumentsKept ==
    ASSUME IInv, [Next]_vars
    PROVE  IInv'
<1>1. SessionTypes'
  BY SessionTypesKept DEF IInv
<1>2. CASE UNCHANGED vars
  <2>1. Still
    BY <1>2, Zenon DEF vars, session, Still
  <2> QED
    BY <1>1, <2>1, QuietStep DEF IInv
<1>3. CASE Next
  BY <1>1, <1>3, Effects, QuietStep, ProcessStep, StopStep, LeaveStep, OneTaskStep DEF IInv
<1> QED
  BY <1>2, <1>3

LEMMA DocumentsAreSound == Spec => []IInv
<1>1. Init => IInv
  BY DocumentsInit
<1>2. IInv /\ [Next]_vars => IInv'
  BY DocumentsKept
<1> QED
  BY <1>1, <1>2, PTL DEF Spec

(* An initialized server has open nothing that the object has not, and has *)
(* in the same text and version what the object opened while the server    *)
(* took notice and edited only where both count alike; the count of a      *)
(* buffer is the number of contexts that have the file open or were left by *)
(* an exception; every index of every text is found again from its line    *)
(* and column (open_file, insert_text_at_position,                         *)
(* delete_text_between_positions, TextUtils).                               *)
THEOREM Buffers == Spec => []BuffersAreRight
<1>1. IInv => BuffersAreRight
  <2> SUFFICES ASSUME IInv PROVE BuffersAreRight
    OBVIOUS
  <2>1. ASSUME NEW t \in Tasks, tasks[t] # Idle
        PROVE  /\ tasks[t].st \in {"open", "waiting", "asked", "hanging"}
               /\ tasks[t].file \in DOMAIN buffers
    <3>1. tasks[t] \in Busy
      BY <2>1, TaskKinds DEF IInv, DocumentsInv, DocumentTypes
    <3>2. tasks[t].file \in DOMAIN buffers
      BY <3>1, HasBuffer DEF IInv, DocumentsInv
    <3> QED
      BY <3>1, <3>2 DEF Busy
  <2>2. TypeOK
    <3>1. DOMAIN buffers \subseteq Files
      BY DEF IInv, DocumentsInv, DocumentTypes
    <3> QED
      BY <2>1, <3>1 DEF IInv, SessionTypes, Phases, TypeOK
  <2>3. PositionsAgree
    <3>1. \A f \in DOMAIN buffers : buffers[f].text \in Texts
      BY DEF IInv, DocumentsInv, DocumentTypes, Buffer
    <3> QED
      BY <3>1, PositionsOfTexts
  <2> QED
    BY <2>2, <2>3 DEF IInv, DocumentsInv, Mirrored, BuffersAreRight
<1> QED
  BY <1>1, DocumentsAreSound, PTL

=============================================================================
