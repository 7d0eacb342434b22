--------------------------- MODULE SourceFileProofs ---------------------------
(***************************************************************************)
(* Edits of a file of any length, in any text: an edit of lines changes    *)
(* the lines it names and no other, a line that is read and written back   *)
(* restores the file, and the count of matches that edit_file looks at is  *)
(* that of the places of the text.                                         *)
(*                                                                         *)
(* The lines of a file are told from the set of places where they end, so  *)
(* that putting text together moves a set of numbers (EndsOfBoth); the     *)
(* count of matches is a recursive function, and what it yields is shown   *)
(* for one place after the other from the end of the file (Downward).      *)
(***************************************************************************)
EXTENDS SourceFile, SequenceTheorems, FiniteSetTheorems, TLAPS

-----------------------------------------------------------------------------
(* Numbers: the least, the greatest, and induction without an operator.    *)

\* A set of numbers has a least one: the intervals below its members are finite
\* sets, which strict inclusion orders well.
LEMMA LeastNumber ==
    ASSUME NEW S \in SUBSET Nat, S # {}
    PROVE  \E m \in S : \A n \in S : m <= n
  <1> DEFINE F == {0..n : n \in S}
             R == StrictSubsetOrdering(Nat)
  <1>1. F \subseteq FiniteSubsetsOf(Nat) /\ F # {}
    <2>1. \A n \in S : 0..n \in SUBSET Nat /\ IsFiniteSet(0..n)
      BY FS_Interval
    <2> QED
      BY <2>1 DEF FiniteSubsetsOf
  <1>2. PICK T \in F : \A U \in F : ~(<<U, T>> \in R)
    <2> HIDE DEF F
    <2>1. IsWellFoundedOn(R, FiniteSubsetsOf(Nat))
      BY FS_StrictSubsetOrderingWellFounded
    <2> QED
      BY <1>1, <2>1, WFMin
  <1>3. PICK m \in S : T = 0..m
    BY <1>2
  <1>4. ASSUME NEW n \in S, n < m
        PROVE  FALSE
    <2>1. /\ 0..n \subseteq 0..m /\ 0..n # 0..m
          /\ 0..n \subseteq Nat /\ 0..m \subseteq Nat
      BY <1>4
    <2>2. <<0..n, 0..m>> \in R
      BY <2>1 DEF StrictSubsetOrdering
    <2> QED
      BY <1>2, <1>3, <2>2
  <1> QED
    BY <1>4

\* A bounded set of numbers has a greatest one.
LEMMA GreatestNumber ==
    ASSUME NEW S \in SUBSET Nat, S # {},
           NEW bound \in Nat, \A n \in S : n <= bound
    PROVE  \E m \in S : \A n \in S : n <= m
  <1> DEFINE D == {bound - n : n \in S}
  <1>1. D \in SUBSET Nat /\ D # {}
    <2>1. \A n \in S : bound - n \in Nat
      OBVIOUS
    <2> QED
      BY <2>1
  <1>2. PICK d \in D : \A e \in D : d <= e
    BY <1>1, LeastNumber
  <1>3. PICK m \in S : d = bound - m
    BY <1>2
  <1>4. \A n \in S : bound - n \in D
    OBVIOUS
  <1>5. \A n \in S : d <= bound - n
    BY <1>2, <1>4
  <1> QED
    BY <1>3, <1>5

\* Induction from n down to 0.
LEMMA Downward ==
    ASSUME NEW n \in Nat, NEW S, n \in S,
           \A i \in 0..(n - 1) : i + 1 \in S => i \in S
    PROVE  0..n \subseteq S
  <1> DEFINE D == (0..n) \ S
  <1>1. SUFFICES ASSUME D # {} PROVE FALSE
    OBVIOUS
  <1>2. PICK m \in D : \A k \in D : k <= m
    <2>1. D \in SUBSET Nat /\ \A k \in D : k <= n
      OBVIOUS
    <2> HIDE DEF D
    <2> QED
      BY <1>1, <2>1, GreatestNumber
  <1>3. m \in 0..(n - 1) /\ m + 1 \in S
    <2>1. m \in 0..n /\ m \notin S /\ m # n
      BY <1>2
    <2>2. m + 1 \notin D
      BY <1>2, <2>1
    <2> QED
      BY <2>1, <2>2
  <1> QED
    BY <1>2, <1>3

-----------------------------------------------------------------------------
(* The k-th number of a set.                                               *)

\* The number of line ends up to e.
Below(E, e) == {i \in E : i <= e}

\* The ranks of two members differ as the members do.
LEMMA BelowSmaller ==
    ASSUME NEW E \in SUBSET Nat, IsFiniteSet(E),
           NEW e \in E, NEW f \in E, e < f
    PROVE  Cardinality(Below(E, e)) < Cardinality(Below(E, f))
  <1>1. /\ Below(E, e) \in SUBSET Below(E, f) /\ Below(E, f) \in SUBSET E
        /\ f \in Below(E, f) /\ f \notin Below(E, e)
    <2>1. e \in Nat /\ f \in Nat /\ \A i \in E : i \in Nat
      OBVIOUS
    <2>2. \A i \in E : i <= e => i <= f
      BY <2>1
    <2>3. ~(f <= e) /\ f <= f
      BY <2>1
    <2> QED
      BY <2>2, <2>3 DEF Below
  <1>2. IsFiniteSet(Below(E, f)) /\ IsFiniteSet(Below(E, e))
    BY <1>1, FS_Subset
  <1>3. /\ Cardinality(Below(E, e)) <= Cardinality(Below(E, f))
        /\ Cardinality(Below(E, e)) # Cardinality(Below(E, f))
    BY <1>1, <1>2, FS_Subset
  <1> QED
    BY <1>2, <1>3, FS_CardinalityType

\* The k-th number of a finite set with a greatest one.
LEMMA KthNumber ==
    ASSUME NEW E \in SUBSET Nat, IsFiniteSet(E), NEW k \in 1..Cardinality(E),
           NEW top \in E, \A i \in E : i <= top
    PROVE  \E e \in E : Cardinality(Below(E, e)) = k
  <1>1. Cardinality(E) \in Nat
    BY FS_CardinalityType
  <1>2. \A e : IsFiniteSet(Below(E, e)) /\ Cardinality(Below(E, e)) \in Nat
    <2>1. \A e : Below(E, e) \in SUBSET E
      BY DEF Below
    <2> QED
      BY <2>1, FS_Subset, FS_CardinalityType
  <1> DEFINE X == {n \in E : Cardinality(Below(E, n)) >= k}
  <1>3. X \in SUBSET Nat /\ X # {}
    <2>1. Below(E, top) = E
      BY DEF Below
    <2>2. top \in X
      BY <1>1, <2>1
    <2> QED
      BY <2>2
  <1>4. PICK e \in X : \A n \in X : e <= n
    <2> HIDE DEF X
    <2> QED
      BY <1>3, LeastNumber
  <1>5. SUFFICES ASSUME Cardinality(Below(E, e)) # k
                 PROVE  FALSE
    BY <1>4
  <1> DEFINE B == Below(E, e) \ {e}
  <1>6. Cardinality(B) = Cardinality(Below(E, e)) - 1 /\ IsFiniteSet(B)
    <2>1. e \in Below(E, e)
      BY <1>4 DEF Below
    <2> QED
      BY <1>2, <2>1, FS_RemoveElement
  <1>7. Cardinality(B) >= k
    BY <1>2, <1>4, <1>5, <1>6
  <1>8. B \in SUBSET Nat /\ B # {} /\ \A i \in B : i <= top
    <2>1. B # {}
      BY <1>7, FS_EmptySet
    <2> QED
      BY <2>1 DEF Below
  <1>9. PICK p \in B : \A i \in B : i <= p
    <2> HIDE DEF B
    <2> QED
      BY <1>8, GreatestNumber
  <1>10. p \in E /\ p < e /\ Below(E, p) = B
    <2>1. p \in E /\ p <= e /\ p # e /\ e \in E
      BY <1>4, <1>9 DEF Below
    <2>2. p < e
      BY <2>1
    <2>3. \A i \in E : i <= p => i <= e /\ i # e
      BY <2>1, <2>2
    <2>4. \A i \in E : i <= e /\ i # e => i <= p
      BY <1>9 DEF Below
    <2> QED
      BY <2>1, <2>2, <2>3, <2>4 DEF Below
  <1>11. p \in X
    BY <1>7, <1>10
  <1> QED
    BY <1>4, <1>10, <1>11

-----------------------------------------------------------------------------
(* The ends of the lines.                                                  *)

Ranked(content, e) == Cardinality(Below(Ends(content), e))

\* The ends of the lines are finitely many, within the file.
LEMMA EndsFinite ==
    ASSUME NEW S, NEW c \in Seq(S)
    PROVE  /\ Ends(c) \in SUBSET (1..Len(c)) /\ Ends(c) \in SUBSET Nat
           /\ IsFiniteSet(Ends(c)) /\ LineCount(c) \in Nat
           /\ Len(c) \in Nat
           /\ c # <<>> => Len(c) \in Ends(c)
           /\ c = <<>> => LineCount(c) = 0
           /\ \A i \in Ends(c) : i <= Len(c)
  <1>1. Len(c) \in Nat
    OBVIOUS
  <1>2. Ends(c) \in SUBSET (1..Len(c))
    BY DEF Ends
  <1>3. IsFiniteSet(Ends(c))
    <2>1. IsFiniteSet(1..Len(c))
      BY <1>1, FS_Interval
    <2> QED
      BY <1>2, <2>1, FS_Subset
  <1>4. c # <<>> => Len(c) \in Ends(c)
    BY EmptySeq DEF Ends
  <1>5. c = <<>> => LineCount(c) = 0
    <2>1. c = <<>> => Ends(c) = {}
      BY <1>2
    <2> QED
      BY <2>1, FS_EmptySet DEF LineCount
  <1> QED
    BY <1>1, <1>2, <1>3, <1>4, <1>5, FS_CardinalityType DEF LineCount

\* Line k has one end, and it is there that the k-th line end is.
LEMMA EndOfLine ==
    ASSUME NEW S, NEW c \in Seq(S), NEW k \in 1..LineCount(c)
    PROVE  /\ EndOf(c, k) \in Ends(c) /\ Ranked(c, EndOf(c, k)) = k
           /\ \A e \in Ends(c) : Ranked(c, e) = k => e = EndOf(c, k)
  <1>1. c # <<>>
    BY EndsFinite
  <1>2. \E e \in Ends(c) : Ranked(c, e) = k
    BY <1>1, EndsFinite, KthNumber DEF LineCount, Ranked
  <1>3. EndOf(c, k) \in Ends(c) /\ Ranked(c, EndOf(c, k)) = k
    <2>1. k # 0
      OBVIOUS
    <2> QED
      BY <1>2, <2>1, Zenon DEF EndOf, Ranked, Below
  <1>5. ASSUME NEW e \in Ends(c), NEW f \in Ends(c),
               Ranked(c, e) = Ranked(c, f), e < f
        PROVE  FALSE
    <2>1. Ranked(c, e) < Ranked(c, f)
      BY <1>5, EndsFinite, BelowSmaller DEF Ranked
    <2>2. Ranked(c, e) \in Nat
      <3>1. Below(Ends(c), e) \in SUBSET Ends(c)
        BY DEF Below
      <3> QED
        BY <3>1, EndsFinite, FS_Subset, FS_CardinalityType DEF Ranked
    <2> QED
      BY <1>5, <2>1, <2>2
  <1>6. \A e \in Ends(c) : Ranked(c, e) = k => e = EndOf(c, k)
    <2>1. \A e, f \in Ends(c) : e < f \/ f < e \/ e = f
      BY EndsFinite
    <2> QED
      BY <1>3, <1>5, <2>1
  <1> QED
    BY <1>3, <1>6

\* The last line ends with the file, line 0 before it, and lines in order.
LEMMA EndsInOrder ==
    ASSUME NEW S, NEW c \in Seq(S)
    PROVE  /\ EndOf(c, 0) = 0 /\ EndOf(c, LineCount(c)) = Len(c)
           /\ \A k \in 0..LineCount(c) : EndOf(c, k) \in 0..Len(c)
           /\ \A k \in 1..LineCount(c) : EndOf(c, k - 1) < EndOf(c, k)
           /\ \A k \in 0..LineCount(c) : k < LineCount(c) => EndOf(c, k) < Len(c)
  <1>1. EndOf(c, 0) = 0
    BY DEF EndOf
  <1>2. EndOf(c, LineCount(c)) = Len(c)
    <2>1. CASE c = <<>>
      BY <1>1, <2>1, EndsFinite
    <2>2. CASE c # <<>>
      <3>1. Len(c) \in Ends(c) /\ Below(Ends(c), Len(c)) = Ends(c)
        BY <2>2, EndsFinite DEF Below
      <3>2. Ranked(c, Len(c)) = LineCount(c)
        BY <3>1 DEF Ranked, LineCount
      <3>3. LineCount(c) \in 1..LineCount(c)
        <4>1. LineCount(c) # 0
          BY <3>1, EndsFinite, FS_EmptySet DEF LineCount
        <4> QED
          BY <4>1, EndsFinite
      <3> QED
        BY <3>1, <3>2, <3>3, EndOfLine
    <2> QED
      BY <2>1, <2>2
  <1>3. \A k \in 0..LineCount(c) : EndOf(c, k) \in 0..Len(c)
    <2>1. \A k \in 1..LineCount(c) : EndOf(c, k) \in 1..Len(c)
      BY EndOfLine, EndsFinite
    <2> QED
      BY <1>1, <2>1, EndsFinite
  <1>4. ASSUME NEW j \in 1..LineCount(c), NEW k \in 1..LineCount(c), j < k
        PROVE  EndOf(c, j) < EndOf(c, k)
    <2>1. /\ EndOf(c, j) \in Ends(c) /\ Ranked(c, EndOf(c, j)) = j
          /\ EndOf(c, k) \in Ends(c) /\ Ranked(c, EndOf(c, k)) = k
      BY EndOfLine
    <2>2. EndOf(c, k) < EndOf(c, j) => k < j
      BY <2>1, EndsFinite, BelowSmaller DEF Ranked
    <2>3. EndOf(c, j) # EndOf(c, k)
      BY <1>4, <2>1
    <2>4. EndOf(c, j) \in Nat /\ EndOf(c, k) \in Nat
      BY <2>1, EndsFinite
    <2> QED
      BY <1>4, <2>2, <2>3, <2>4
  <1>5. \A k \in 1..LineCount(c) : EndOf(c, k - 1) < EndOf(c, k)
    <2>1. \A k \in 1..LineCount(c) : EndOf(c, k) \in 1..Len(c)
      BY EndOfLine, EndsFinite
    <2> QED
      BY <1>1, <1>4, <2>1, EndsFinite
  <1>6. \A k \in 0..LineCount(c) : k < LineCount(c) => EndOf(c, k) < Len(c)
    <2>1. LineCount(c) # 0 => Len(c) > 0
      BY EndsFinite
    <2> QED
      BY <1>1, <1>2, <1>4, <2>1, EndsFinite
  <1> QED
    BY <1>1, <1>2, <1>3, <1>5, <1>6

-----------------------------------------------------------------------------
(* Text behind text.                                                       *)

\* What is in a text and behind it.
LEMMA Joined ==
    ASSUME NEW S, NEW a \in Seq(S), NEW b \in Seq(S)
    PROVE  /\ a \o b \in Seq(S) /\ Len(a \o b) = Len(a) + Len(b)
           /\ Len(a) \in Nat /\ Len(b) \in Nat
           /\ \A i \in 1..Len(a) : (a \o b)[i] = a[i]
           /\ \A i \in 1..Len(b) : (a \o b)[Len(a) + i] = b[i]
  OBVIOUS

\* The numbers of a set, moved up by n.
Moved(E, n) == {n + e : e \in E}

\* Moving a set of numbers keeps its size.
LEMMA MovedSize ==
    ASSUME NEW E \in SUBSET Nat, IsFiniteSet(E), NEW n \in Nat
    PROVE  IsFiniteSet(Moved(E, n)) /\ Cardinality(Moved(E, n)) = Cardinality(E)
  <1> DEFINE f == [e \in E |-> n + e]
  <1>1. f \in Bijection(E, Moved(E, n))
    <2>1. f \in [E -> Moved(E, n)]
      BY DEF Moved
    <2>2. \A x, y \in E : f[x] = f[y] => x = y
      OBVIOUS
    <2>3. \A t \in Moved(E, n) : \E x \in E : f[x] = t
      BY DEF Moved
    <2> QED
      BY <2>1, <2>2, <2>3 DEF Bijection, Injection, Surjection, IsInjective
  <1> QED
    BY <1>1, FS_Bijection DEF ExistsBijection

\* The lines of a text that is behind a whole one.
LEMMA EndsOfBoth ==
    ASSUME NEW S, NEW a \in Seq(S), NEW b \in Seq(S), Whole(a) \/ b = <<>>
    PROVE  Ends(a \o b) = Ends(a) \cup Moved(Ends(b), Len(a))
  <1>1. /\ Len(a \o b) = Len(a) + Len(b) /\ Len(a) \in Nat /\ Len(b) \in Nat
        /\ \A i \in 1..Len(a) : (a \o b)[i] = a[i]
        /\ \A i \in 1..Len(b) : (a \o b)[Len(a) + i] = b[i]
    BY Joined
  <1>2. b = <<>> => Len(b) = 0
    OBVIOUS
  <1>3. b # <<>> /\ a # <<>> => a[Len(a)] = NL
    BY DEF Whole
  <1>4. ASSUME NEW i \in 1..Len(a)
        PROVE  i \in Ends(a \o b) <=> i \in Ends(a)
    <2>1. i \in 1..Len(a \o b) /\ a # <<>>
      BY <1>1, <1>4
    <2>2. i = Len(a \o b) => i = Len(a)
      BY <1>1
    <2>3. i = Len(a) => i = Len(a \o b) \/ a[i] = NL
      BY <1>1, <1>2, <1>3, <2>1
    <2> QED
      BY <1>1, <2>1, <2>2, <2>3 DEF Ends
  <1>5. ASSUME NEW i \in 1..Len(b)
        PROVE  Len(a) + i \in Ends(a \o b) <=> i \in Ends(b)
    BY <1>1 DEF Ends
  <1>6. \A i \in Ends(a \o b) : i \in 1..Len(a) \/ \E j \in 1..Len(b) : i = Len(a) + j
    <2>1. ASSUME NEW i \in 1..(Len(a) + Len(b)), i \notin 1..Len(a)
          PROVE  \E j \in 1..Len(b) : i = Len(a) + j
      <3>1. i - Len(a) \in 1..Len(b) /\ i = Len(a) + (i - Len(a))
        BY <1>1, <2>1
      <3> QED
        BY <3>1
    <2> QED
      BY <1>1, <2>1 DEF Ends
  <1>7. Ends(a) \subseteq 1..Len(a) /\ Ends(b) \subseteq 1..Len(b)
    BY DEF Ends
  <1> QED
    BY <1>4, <1>5, <1>6, <1>7 DEF Moved

\* As many lines as the two have.
LEMMA CountOfBoth ==
    ASSUME NEW S, NEW a \in Seq(S), NEW b \in Seq(S), Whole(a) \/ b = <<>>
    PROVE  LineCount(a \o b) = LineCount(a) + LineCount(b)
  <1> DEFINE M == Moved(Ends(b), Len(a))
  <1>1. IsFiniteSet(M) /\ Cardinality(M) = LineCount(b)
    BY EndsFinite, MovedSize DEF LineCount
  <1>2. Ends(a) \cap M = {}
    <2>1. \A i \in Ends(b) : i \in Nat \ {0}
      BY EndsFinite
    <2> QED
      BY <2>1, EndsFinite DEF Moved
  <1>3. IsFiniteSet(Ends(a)) /\ Cardinality(Ends(a)) = LineCount(a)
    BY EndsFinite DEF LineCount
  <1>4. Cardinality(Ends(a) \cup M) = LineCount(a) + LineCount(b) - Cardinality({})
    BY <1>1, <1>2, <1>3, FS_Union
  <1>5. LineCount(a \o b) = Cardinality(Ends(a) \cup M)
    BY EndsOfBoth DEF LineCount
  <1> QED
    BY <1>4, <1>5, FS_EmptySet, EndsFinite

\* The lines of the first end where they did, those of the second behind it.
LEMMA EndOfBoth ==
    ASSUME NEW S, NEW a \in Seq(S), NEW b \in Seq(S), Whole(a) \/ b = <<>>
    PROVE  /\ \A k \in 0..LineCount(a) : EndOf(a \o b, k) = EndOf(a, k)
           /\ \A k \in 0..LineCount(b) :
                 EndOf(a \o b, LineCount(a) + k) = Len(a) + EndOf(b, k)
  <1> DEFINE c == a \o b
             M == Moved(Ends(b), Len(a))
  <1>1. /\ c \in Seq(S) /\ Ends(c) = Ends(a) \cup M
        /\ LineCount(c) = LineCount(a) + LineCount(b)
        /\ LineCount(a) \in Nat /\ LineCount(b) \in Nat
        /\ Len(a) \in Nat /\ Ends(a) \subseteq 1..Len(a) /\ Ends(b) \subseteq Nat \ {0}
    BY Joined, EndsOfBoth, CountOfBoth, EndsFinite
  <1> HIDE DEF c
  <1>2. ASSUME NEW k \in 1..LineCount(a)
        PROVE  EndOf(c, k) = EndOf(a, k)
    <2>1. EndOf(a, k) \in Ends(a) /\ Ranked(a, EndOf(a, k)) = k
      BY EndOfLine
    <2>2. Below(Ends(c), EndOf(a, k)) = Below(Ends(a), EndOf(a, k))
      <3>1. \A i \in M : ~(i <= EndOf(a, k))
        BY <1>1, <2>1 DEF Moved
      <3> QED
        BY <1>1, <3>1 DEF Below
    <2>3. k \in 1..LineCount(c)
      BY <1>1
    <2> QED
      BY <1>1, <2>1, <2>2, <2>3, EndOfLine DEF Ranked
  <1>3. ASSUME NEW k \in 1..LineCount(b)
        PROVE  EndOf(c, LineCount(a) + k) = Len(a) + EndOf(b, k)
    <2> DEFINE e == EndOf(b, k)
    <2>1. e \in Ends(b) /\ Ranked(b, e) = k
      BY EndOfLine
    <2> HIDE DEF e
    <2>2. Below(Ends(c), Len(a) + e) = Ends(a) \cup Moved(Below(Ends(b), e), Len(a))
      <3>1. \A i \in Ends(a) : i <= Len(a) + e
        BY <1>1, <2>1
      <3>2. \A i \in Ends(b) : Len(a) + i <= Len(a) + e <=> i <= e
        BY <1>1, <2>1
      <3> QED
        BY <1>1, <3>1, <3>2 DEF Below, Moved
    <2>3. Cardinality(Below(Ends(c), Len(a) + e)) = LineCount(a) + k
      <3> DEFINE B == Below(Ends(b), e)
      <3>1. IsFiniteSet(B) /\ B \in SUBSET Nat /\ Cardinality(B) = k
        <4>1. B \in SUBSET Ends(b)
          BY DEF Below
        <4> QED
          BY <2>1, <4>1, EndsFinite, FS_Subset DEF Ranked
      <3>2. IsFiniteSet(Moved(B, Len(a))) /\ Cardinality(Moved(B, Len(a))) = k
        BY <1>1, <3>1, MovedSize
      <3>3. Ends(a) \cap Moved(B, Len(a)) = {}
        <4>1. \A i \in B : i \in Nat \ {0}
          BY <1>1 DEF Below
        <4> QED
          BY <1>1, <4>1 DEF Moved
      <3>4. IsFiniteSet(Ends(a)) /\ Cardinality(Ends(a)) = LineCount(a)
        BY EndsFinite DEF LineCount
      <3> HIDE DEF B
      <3>5. Cardinality(Ends(a) \cup Moved(B, Len(a))) = LineCount(a) + k - Cardinality({})
        BY <3>2, <3>3, <3>4, FS_Union
      <3>6. Below(Ends(c), Len(a) + e) = Ends(a) \cup Moved(B, Len(a))
        BY <2>2 DEF B
      <3>7. LineCount(a) \in Nat /\ k \in Nat /\ Cardinality({}) = 0
        BY <1>1, FS_EmptySet
      <3>8. LineCount(a) + k - Cardinality({}) = LineCount(a) + k
        BY <3>7
      <3> QED
        BY <3>5, <3>6, <3>8, Zenon
    <2>4. Len(a) + e \in Ends(c)
      BY <1>1, <2>1 DEF Moved
    <2>5. LineCount(a) + k \in 1..LineCount(c)
      BY <1>1
    <2> QED
      BY <1>1, <2>3, <2>4, <2>5, EndOfLine DEF Ranked, e
  <1>4. EndOf(c, 0) = 0 /\ EndOf(a, 0) = 0 /\ EndOf(b, 0) = 0
    BY DEF EndOf
  <1>5. EndOf(c, LineCount(a)) = Len(a)
    <2>1. CASE LineCount(a) = 0
      BY <1>4, <2>1, EndsInOrder
    <2>2. CASE LineCount(a) # 0
      <3>1. LineCount(a) \in 1..LineCount(a)
        BY <1>1, <2>2
      <3>2. EndOf(a, LineCount(a)) = Len(a)
        BY EndsInOrder
      <3> QED
        BY <1>2, <3>1, <3>2
    <2> QED
      BY <2>1, <2>2
  <1> QED
    BY <1>1, <1>2, <1>3, <1>4, <1>5 DEF c

-----------------------------------------------------------------------------
(* The lines of what is put together, and the parts of a text.             *)

\* The same places hold the same part.
LEMMA SameParts ==
    ASSUME NEW s, NEW t, NEW m \in Nat, NEW n \in Nat, NEW d \in Nat,
           \A i \in (m + 1)..n : s[d + i] = t[i]
    PROVE  SubSeq(s, d + m + 1, d + n) = SubSeq(t, m + 1, n)
  OBVIOUS

\* A line is what is between two ends, but for the line end.
LEMMA LineBetween ==
    ASSUME NEW c, NEW k, NEW e, NEW f, EndOf(c, k) = e, EndOf(c, k - 1) = f
    PROVE  Line(c, k) = SubSeq(c, f + 1, IF c[e] = NL THEN e - 1 ELSE e)
  BY Zenon DEF Line

\* The lines of the first are as they were, and those of the second follow.
LEMMA LinesOfBoth ==
    ASSUME NEW S, NEW a \in Seq(S), NEW b \in Seq(S), Whole(a) \/ b = <<>>
    PROVE  /\ LineCount(a) \in Nat /\ LineCount(b) \in Nat
           /\ LineCount(a \o b) = LineCount(a) + LineCount(b)
           /\ \A k \in 1..LineCount(a) : Line(a \o b, k) = Line(a, k)
           /\ \A k \in 1..LineCount(b) : Line(a \o b, LineCount(a) + k) = Line(b, k)
  <1> DEFINE c == a \o b
  <1>1. /\ LineCount(c) = LineCount(a) + LineCount(b)
        /\ LineCount(a) \in Nat /\ LineCount(b) \in Nat
        /\ Len(a) \in Nat /\ Len(b) \in Nat
        /\ \A i \in 1..Len(a) : c[i] = a[i]
        /\ \A i \in 1..Len(b) : c[Len(a) + i] = b[i]
    BY Joined, CountOfBoth, EndsFinite
  <1>2. /\ \A k \in 0..LineCount(a) : EndOf(c, k) = EndOf(a, k)
        /\ \A k \in 0..LineCount(b) : EndOf(c, LineCount(a) + k) = Len(a) + EndOf(b, k)
    BY EndOfBoth
  <1> HIDE DEF c
  <1>3. ASSUME NEW k \in 1..LineCount(a)
        PROVE  Line(c, k) = Line(a, k)
    <2> DEFINE e == EndOf(a, k)
               f == EndOf(a, k - 1)
               last == IF a[e] = NL THEN e - 1 ELSE e
    <2>1. e \in 1..Len(a) /\ f \in 0..Len(a)
      <3>1. k - 1 \in 0..LineCount(a)
        BY <1>1
      <3> QED
        BY <3>1, EndOfLine, EndsFinite, EndsInOrder
    <2>2. EndOf(c, k) = e /\ EndOf(c, k - 1) = f /\ c[e] = a[e]
      <3>1. k \in 0..LineCount(a) /\ k - 1 \in 0..LineCount(a)
        BY <1>1
      <3> QED
        BY <1>1, <1>2, <2>1, <3>1
    <2>3. Line(c, k) = SubSeq(c, f + 1, last) /\ Line(a, k) = SubSeq(a, f + 1, last)
      BY <2>2 DEF Line
    <2>4. last \in 0..Len(a)
      BY <2>1
    <2> HIDE DEF e, f, last
    <2>5. \A i \in (f + 1)..last : c[i] = a[i] /\ i \in 1..Len(a)
      BY <1>1, <2>1, <2>4
    <2> QED
      BY <2>1, <2>3, <2>4, <2>5, SameParts
  <1>4. ASSUME NEW k \in 1..LineCount(b)
        PROVE  Line(c, LineCount(a) + k) = Line(b, k)
    <2> DEFINE e == EndOf(b, k)
               f == EndOf(b, k - 1)
               last == IF b[e] = NL THEN e - 1 ELSE e
    <2>1. e \in 1..Len(b) /\ f \in 0..Len(b)
      <3>1. k - 1 \in 0..LineCount(b)
        BY <1>1
      <3> QED
        BY <3>1, EndOfLine, EndsFinite, EndsInOrder
    <2>2. /\ EndOf(c, LineCount(a) + k) = Len(a) + e
          /\ EndOf(c, LineCount(a) + k - 1) = Len(a) + f
          /\ c[Len(a) + e] = b[e]
      <3>1. k \in 0..LineCount(b) /\ k - 1 \in 0..LineCount(b)
            /\ LineCount(a) + (k - 1) = LineCount(a) + k - 1
        BY <1>1
      <3> QED
        BY <1>1, <1>2, <2>1, <3>1
    <2>3. /\ Line(c, LineCount(a) + k) = SubSeq(c, Len(a) + f + 1, Len(a) + last)
          /\ Line(b, k) = SubSeq(b, f + 1, last)
      <3> DEFINE g == Len(a) + e
                 there == IF c[g] = NL THEN g - 1 ELSE g
      <3>1. there = Len(a) + last
        BY <1>1, <2>1, <2>2
      <3>2. Line(c, LineCount(a) + k) = SubSeq(c, Len(a) + f + 1, there)
        <4> DEFINE n == LineCount(a) + k
        <4>1. EndOf(c, n) = g /\ EndOf(c, n - 1) = Len(a) + f
          <5>1. n - 1 = LineCount(a) + k - 1
            BY <1>1
          <5> QED
            BY <2>2, <5>1
        <4> HIDE DEF e, f, c, g, n
        <4>2. Line(c, n) = SubSeq(c, Len(a) + f + 1, IF c[g] = NL THEN g - 1 ELSE g)
          BY <4>1, LineBetween
        <4> QED
          BY <4>2 DEF n, g
      <3>3. Line(b, k) = SubSeq(b, f + 1, last)
        BY LineBetween, Zenon
      <3> HIDE DEF there, last, e, f
      <3> QED
        BY <3>1, <3>2, <3>3
    <2>4. last \in 0..Len(b) /\ f \in Nat /\ Len(a) \in Nat /\ last \in Nat
      BY <1>1, <2>1
    <2> HIDE DEF e, f, last
    <2>5. \A i \in (f + 1)..last : c[Len(a) + i] = b[i]
      BY <1>1, <2>1, <2>4
    <2>6. SubSeq(c, Len(a) + f + 1, Len(a) + last) = SubSeq(b, f + 1, last)
      BY <2>4, <2>5, SameParts
    <2> QED
      BY <2>3, <2>6
  <1> QED
    BY <1>1, <1>3, <1>4 DEF c

\* p has the first k lines of c, and r the rest.
Parted(c, k, p, r) ==
    /\ p = SubSeq(c, 1, EndOf(c, k))
    /\ r = SubSeq(c, EndOf(c, k) + 1, Len(c))
    /\ c = p \o r
    /\ LineCount(p) = k
    /\ LineCount(r) = LineCount(c) - k
    /\ Whole(p) \/ r = <<>>
    /\ k < LineCount(c) => Whole(p)

\* A text is parted after any of its lines.
LEMMA SplitAfter ==
    ASSUME NEW S, NEW c \in Seq(S), NEW k \in 0..LineCount(c)
    PROVE  \E p, r \in Seq(S) : Parted(c, k, p, r)
  <1>0. PICK e, p, r : /\ e = EndOf(c, k)
                     /\ p = SubSeq(c, 1, e)
                     /\ r = SubSeq(c, e + 1, Len(c))
    <2>1. \E e, p, r : /\ e = EndOf(c, k)
                      /\ p = SubSeq(c, 1, e)
                      /\ r = SubSeq(c, e + 1, Len(c))
      OBVIOUS
    <2> QED
      BY <2>1, Zenon
  <1>1. e \in 0..Len(c) /\ Len(c) \in Nat /\ LineCount(c) \in Nat
    BY <1>0, EndsFinite, EndsInOrder
  <1>2. k < LineCount(c) => e < Len(c)
    BY <1>0, EndsInOrder
  <1>3. k # 0 => e \in Ends(c) /\ Ranked(c, e) = k
    BY <1>0, EndOfLine
  <1>4. k = 0 => e = 0
    BY <1>0, EndsInOrder
  <1>5. /\ p \in Seq(S) /\ r \in Seq(S) /\ Len(p) = e
        /\ \A i \in 1..e : p[i] = c[i]
    BY <1>0, <1>1
  <1>6. r \in Seq(S)
    BY <1>0, <1>1
  <1>7. c = p \o r
    <2>1. /\ 1 \in 1..(Len(c) + 1) /\ e \in (1 - 1)..Len(c) /\ Len(c) \in e..Len(c)
      BY <1>0, <1>1
    <2>2. p \o r = SubSeq(c, 1, Len(c))
      BY <1>0, <2>1, ConcatAdjacentSubSeq
    <2> QED
      BY <1>0, <2>2, SubSeqFull
  <1>8. e = Len(c) => r = <<>>
    BY <1>0, <1>1
  <1>9. Whole(p) \/ e = Len(c)
    <2>1. CASE k = 0
      BY <1>4, <1>5, <2>1 DEF Whole
    <2>2. CASE k # 0
      <3>1. e \in 1..Len(c) /\ (c[e] = NL \/ e = Len(c))
        BY <1>3, <2>2 DEF Ends
      <3> QED
        BY <1>5, <3>1 DEF Whole
    <2> QED
      BY <2>1, <2>2
  <1>10. LineCount(p) = k
    <2>1. CASE k = 0
      <3>1. p = <<>>
        BY <1>4, <1>5, <2>1
      <3> QED
        BY <2>1, <3>1, <1>5, EndsFinite
    <2>2. CASE k # 0
      <3>1. e \in 1..Len(c) /\ (c[e] = NL \/ e = Len(c))
        BY <1>3, <2>2 DEF Ends
      <3>2. Ends(p) = Below(Ends(c), e)
        BY <1>1, <1>5, <3>1 DEF Ends, Below
      <3> QED
        BY <1>3, <2>2, <3>2 DEF LineCount, Ranked
    <2> QED
      BY <2>1, <2>2
  <1>11. LineCount(c) = LineCount(p) + LineCount(r) /\ LineCount(r) \in Nat
    BY <1>5, <1>7, <1>8, <1>9, CountOfBoth, EndsFinite
  <1>12. LineCount(r) = LineCount(c) - k
    BY <1>1, <1>10, <1>11
  <1>13. k < LineCount(c) => Whole(p)
    BY <1>1, <1>2, <1>9
  <1> QED
    BY <1>0, <1>5, <1>6, <1>7, <1>8, <1>9, <1>10, <1>12, <1>13 DEF Parted

-----------------------------------------------------------------------------
(* An edit of lines.                                                       *)

\* A line is text of the file.
LEMMA LineType ==
    ASSUME NEW S, NEW c \in Seq(S), NEW k \in 1..LineCount(c)
    PROVE  Line(c, k) \in Seq(S)
  <1> DEFINE e == EndOf(c, k)
             f == EndOf(c, k - 1)
             last == IF c[e] = NL THEN e - 1 ELSE e
  <1>1. e \in 1..Len(c) /\ f \in 0..Len(c)
    <2>1. k - 1 \in 0..LineCount(c)
      BY EndsFinite
    <2> QED
      BY <2>1, EndOfLine, EndsFinite, EndsInOrder
  <1>2. Line(c, k) = SubSeq(c, f + 1, last)
    BY LineBetween
  <1>3. last \in 0..Len(c)
    BY <1>1
  <1> HIDE DEF e, f, last
  <1> QED
    BY <1>1, <1>2, <1>3

\* The lines of a text are a sequence.
LEMMA LinesType ==
    ASSUME NEW S, NEW c \in Seq(S)
    PROVE  Lines(c) \in Seq(Seq(S)) /\ Len(Lines(c)) = LineCount(c)
  <1>1. LineCount(c) \in Nat /\ \A k \in 1..LineCount(c) : Line(c, k) \in Seq(S)
    BY LineType, EndsFinite
  <1>2. Lines(c) \in [1..LineCount(c) -> Seq(S)]
    BY <1>1 DEF Lines
  <1> QED
    BY <1>1, <1>2

\* A sequence is known by its parts.
LEMMA JoinedIs ==
    ASSUME NEW T, NEW x \in Seq(T), NEW y \in Seq(T), NEW z \in Seq(T),
           Len(z) = Len(x) + Len(y),
           \A k \in 1..Len(x) : z[k] = x[k],
           \A k \in 1..Len(y) : z[Len(x) + k] = y[k]
    PROVE  z = x \o y
  <1>1. /\ x \o y \in Seq(T) /\ Len(x \o y) = Len(x) + Len(y)
        /\ Len(x) \in Nat /\ Len(y) \in Nat
        /\ \A k \in 1..Len(x) : (x \o y)[k] = x[k]
        /\ \A k \in 1..Len(y) : (x \o y)[Len(x) + k] = y[k]
    BY Joined
  <1>2. ASSUME NEW k \in 1..Len(z)
        PROVE  z[k] = (x \o y)[k]
    <2>1. CASE k \in 1..Len(x)
      BY <1>1, <2>1
    <2>2. CASE k \notin 1..Len(x)
      <3> DEFINE j == k - Len(x)
      <3>1. j \in 1..Len(y) /\ k = Len(x) + j
        BY <1>1, <2>2
      <3> HIDE DEF j
      <3>2. z[Len(x) + j] = y[j] /\ (x \o y)[Len(x) + j] = y[j]
        BY <1>1, <3>1
      <3> QED
        BY <3>1, <3>2
    <2> QED
      BY <2>1, <2>2
  <1> QED
    BY <1>1, <1>2, SeqEqual

\* The lines of a whole text and of what is behind it.
LEMMA LinesTogether ==
    ASSUME NEW S, NEW a \in Seq(S), NEW b \in Seq(S), Whole(a) \/ b = <<>>
    PROVE  Lines(a \o b) = Lines(a) \o Lines(b)
  <1>1. /\ LineCount(a) \in Nat /\ LineCount(b) \in Nat
        /\ LineCount(a \o b) = LineCount(a) + LineCount(b)
        /\ \A k \in 1..LineCount(a) : Line(a \o b, k) = Line(a, k)
        /\ \A k \in 1..LineCount(b) : Line(a \o b, LineCount(a) + k) = Line(b, k)
    BY LinesOfBoth
  <1> DEFINE x == Lines(a)
             y == Lines(b)
             z == Lines(a \o b)
  <1>2. /\ x \in Seq(Seq(S)) /\ Len(x) = LineCount(a)
        /\ y \in Seq(Seq(S)) /\ Len(y) = LineCount(b)
        /\ z \in Seq(Seq(S)) /\ Len(z) = Len(x) + Len(y)
    BY <1>1, LinesType, Joined
  <1>3. \A k \in 1..Len(x) : z[k] = x[k]
    BY <1>1, <1>2 DEF Lines
  <1>4. \A k \in 1..Len(y) : z[Len(x) + k] = y[k]
    <2>1. \A k \in 1..Len(y) : z[Len(x) + k] = Line(a \o b, LineCount(a) + k)
      BY <1>1, <1>2 DEF Lines
    <2> QED
      BY <1>1, <1>2, <2>1 DEF Lines
  <1> HIDE DEF x, y, z
  <1> QED
    BY <1>2, <1>3, <1>4, JoinedIs DEF x, y, z

\* What is before and behind, in sequences put together.
LEMMA PartsOfBoth ==
    ASSUME NEW T, NEW x \in Seq(T), NEW y \in Seq(T)
    PROVE  /\ SubSeq(x \o y, 1, Len(x)) = x
           /\ SubSeq(x \o y, Len(x) + 1, Len(x) + Len(y)) = y
  BY SubSeqOfConcat1, SubSeqOfConcat2

\* apply_line_range_edit changes the lines of its range and no other, whatever
\* the file, the range and the replacement, if what is put in ends its last
\* line, and so does the file when lines are added behind it.
THEOREM LineEdit ==
    ASSUME NEW S, NEW c \in Seq(S), NEW new \in Seq(S),
           NEW start \in Nat, NEW end \in Nat,
           ~CannotEdit(c, start, end), Whole(new),
           start <= LineCount(c) \/ Whole(c)
    PROVE  Lines(EditLines(c, new, start, end)) =
              SubSeq(Lines(c), 1, start - 1) \o Lines(new)
                  \o SubSeq(Lines(c), end + 1, LineCount(c))
  <1>1. /\ LineCount(c) \in Nat /\ Len(c) \in Nat
        /\ start \in 1..(LineCount(c) + 1) /\ end >= start
        /\ end <= LineCount(c) \/ (start = LineCount(c) + 1 /\ end = start)
    BY EndsFinite DEF CannotEdit, BadRange
  <1>2. /\ Lines(c) \in Seq(Seq(S)) /\ Len(Lines(c)) = LineCount(c)
        /\ Lines(new) \in Seq(Seq(S))
    BY LinesType
  <1>3. CASE start = LineCount(c) + 1
    <2>1. end = start /\ Whole(c)
      BY <1>1, <1>3
    <2>2. EditLines(c, new, start, end) = c \o new \o SubSeq(c, Len(c) + 1, Len(c))
      <3>1. SubSeq(c, 1, Len(c)) = c
        BY SubSeqFull
      <3> QED
        BY <1>3, <3>1 DEF EditLines
    <2>3. EditLines(c, new, start, end) = c \o new
      <3>1. SubSeq(c, Len(c) + 1, Len(c)) = <<>>
        BY <1>1
      <3>2. (c \o new) \o <<>> = c \o new
        OBVIOUS
      <3> QED
        BY <2>2, <3>1, <3>2
    <2>4. SubSeq(Lines(c), 1, start - 1) = Lines(c)
      <3>1. start - 1 = Len(Lines(c))
        BY <1>1, <1>2, <1>3
      <3> QED
        BY <1>2, <3>1, SubSeqFull
    <2>5. SubSeq(Lines(c), end + 1, LineCount(c)) = <<>>
      <3> HIDE DEF Lines, LineCount
      <3> QED
        BY <1>1, <1>2, <1>3, <2>1
    <2>6. (Lines(c) \o Lines(new)) \o <<>> = Lines(c) \o Lines(new)
      BY <1>2
    <2> QED
      BY <2>1, <2>3, <2>4, <2>5, <2>6, LinesTogether
  <1>4. CASE start # LineCount(c) + 1
    <2>1. /\ start - 1 \in 0..LineCount(c) /\ start - 1 < LineCount(c)
          /\ end \in 0..LineCount(c)
      BY <1>1, <1>4
    <2>2. PICK p, q \in Seq(S) : Parted(c, start - 1, p, q)
      BY <2>1, SplitAfter
    <2>3. PICK u, t \in Seq(S) : Parted(c, end, u, t)
      BY <2>1, SplitAfter
    <2>4. EditLines(c, new, start, end) = p \o new \o t
      BY <1>4, <2>2, <2>3 DEF EditLines, Parted
    <2>5. SubSeq(Lines(c), 1, start - 1) = Lines(p)
      <3>1. Lines(c) = Lines(p) \o Lines(q)
        BY <2>1, <2>2, LinesTogether DEF Parted
      <3>2. /\ Lines(p) \in Seq(Seq(S)) /\ Lines(q) \in Seq(Seq(S))
            /\ Len(Lines(p)) = start - 1
        BY <2>1, <2>2, LinesType DEF Parted
      <3> QED
        BY <3>1, <3>2, PartsOfBoth
    <2>6. SubSeq(Lines(c), end + 1, LineCount(c)) = Lines(t)
      <3>1. Lines(c) = Lines(u) \o Lines(t)
        BY <2>3, LinesTogether DEF Parted
      <3>2. /\ Lines(u) \in Seq(Seq(S)) /\ Lines(t) \in Seq(Seq(S))
            /\ Len(Lines(u)) = end /\ Len(Lines(t)) = LineCount(c) - end
        BY <2>3, LinesType DEF Parted
      <3>3. Len(Lines(u)) + Len(Lines(t)) = LineCount(c)
        BY <1>1, <2>1, <3>2
      <3>4. SubSeq(Lines(u) \o Lines(t), Len(Lines(u)) + 1, Len(Lines(u)) + Len(Lines(t))) = Lines(t)
        BY <3>2, PartsOfBoth
      <3> QED
        BY <3>1, <3>2, <3>3, <3>4
    <2>7. p \o new \in Seq(S) /\ Whole(p \o new)
      <3>1. Whole(p)
        BY <2>1, <2>2 DEF Parted
      <3>2. CASE new = <<>>
        <4>1. p \o <<>> = p
          OBVIOUS
        <4> QED
          BY <3>1, <3>2, <4>1
      <3>3. CASE new # <<>>
        <4>1. Len(new) \in 1..Len(new) /\ new[Len(new)] = NL
          BY <3>3 DEF Whole
        <4>2. (p \o new)[Len(p) + Len(new)] = NL /\ Len(p \o new) = Len(p) + Len(new)
          BY <4>1, Joined
        <4> QED
          BY <4>2, Joined DEF Whole
      <3> QED
        BY <3>2, <3>3
    <2>8. Lines(p \o new) = Lines(p) \o Lines(new)
      BY <2>1, <2>2, LinesTogether DEF Parted
    <2>9. Lines((p \o new) \o t) = Lines(p \o new) \o Lines(t)
      BY <2>3, <2>7, LinesTogether DEF Parted
    <2> QED
      BY <2>4, <2>5, <2>6, <2>8, <2>9
  <1> QED
    BY <1>3, <1>4

-----------------------------------------------------------------------------
(* A line that is read and written back.                                   *)

\* Putting an adjacent part in again.
LEMMA Rejoined ==
    ASSUME NEW S, NEW c \in Seq(S), NEW f \in Nat, NEW e \in Nat, f <= e, e <= Len(c)
    PROVE  /\ SubSeq(c, 1, f) \o SubSeq(c, f + 1, e) = SubSeq(c, 1, e)
           /\ SubSeq(c, 1, e) \o SubSeq(c, e + 1, Len(c)) = c
           /\ SubSeq(c, 1, f) \in Seq(S) /\ SubSeq(c, f + 1, e) \in Seq(S)
           /\ SubSeq(c, e + 1, Len(c)) \in Seq(S)
  <1>1. /\ Len(c) \in Nat /\ 1 \in 1..(Len(c) + 1)
        /\ f \in (1 - 1)..Len(c) /\ e \in f..Len(c)
        /\ e \in (1 - 1)..Len(c) /\ Len(c) \in e..Len(c)
    OBVIOUS
  <1>2. SubSeq(c, 1, e) \o SubSeq(c, e + 1, Len(c)) = SubSeq(c, 1, Len(c))
    BY <1>1, ConcatAdjacentSubSeq
  <1>3. SubSeq(c, 1, f) \o SubSeq(c, f + 1, e) = SubSeq(c, 1, e)
    BY <1>1, ConcatAdjacentSubSeq
  <1>4. /\ SubSeq(c, 1, f) \in Seq(S) /\ SubSeq(c, f + 1, e) \in Seq(S)
        /\ SubSeq(c, e + 1, Len(c)) \in Seq(S)
    BY <1>1
  <1> QED
    BY <1>2, <1>3, <1>4, SubSeqFull

\* A line that read_file_range gives and that apply_line_range_edit puts back
\* restores the file, but for a missing end of the last line.
THEOREM LineBack ==
    ASSUME NEW S, NL \in S, NEW c \in Seq(S), NEW k \in 1..LineCount(c)
    PROVE  EditLines(c, Append(Line(c, k), NL), k, k) \in {c, Append(c, NL)}
  <1>1. PICK e, f : e = EndOf(c, k) /\ f = EndOf(c, k - 1)
    OBVIOUS
  <1>2. /\ LineCount(c) \in Nat /\ Len(c) \in Nat
        /\ e \in 1..Len(c) /\ f \in Nat /\ f < e /\ (c[e] = NL \/ e = Len(c))
    <2>1. k - 1 \in 0..LineCount(c) /\ k \in 1..LineCount(c)
      BY EndsFinite
    <2>2. e \in Ends(c) /\ f \in 0..Len(c) /\ f < e
      BY <1>1, <2>1, EndOfLine, EndsInOrder
    <2>3. LineCount(c) \in Nat /\ Len(c) \in Nat
      BY EndsFinite
    <2> QED
      BY <2>2, <2>3 DEF Ends
  <1> DEFINE p == SubSeq(c, 1, f)
             t == SubSeq(c, e + 1, Len(c))
             line == Line(c, k)
  <1>3. EditLines(c, Append(line, NL), k, k) = p \o Append(line, NL) \o t
    <2>1. k # LineCount(c) + 1
      BY <1>2
    <2> HIDE DEF line
    <2> QED
      BY <1>1, <2>1 DEF EditLines
  <1>4. line = SubSeq(c, f + 1, IF c[e] = NL THEN e - 1 ELSE e)
    BY <1>1, LineBetween
  <1> HIDE DEF line
  <1>5. CASE c[e] = NL
    <2>1. Append(line, NL) = SubSeq(c, f + 1, e)
      <3>1. line = SubSeq(c, f + 1, e - 1)
        BY <1>4, <1>5
      <3>2. SubSeq(c, f + 1, e) = SubSeq(c, f + 1, e - 1) \o <<c[e]>>
        <4>1. f + 1 \in 1..Len(c) /\ e \in (f + 1)..Len(c)
          BY <1>2
        <4> QED
          BY <4>1, SubSeqRecursiveSecond
      <3>3. line \in Seq(S)
        BY <1>2, <3>1
      <3> QED
        BY <1>5, <3>1, <3>2, <3>3, AppendIsConcat
    <2>2. p \o SubSeq(c, f + 1, e) = SubSeq(c, 1, e) /\ SubSeq(c, 1, e) \o t = c
      BY <1>2, Rejoined
    <2> QED
      BY <1>3, <2>1, <2>2 DEF line
  <1>6. CASE c[e] # NL
    <2>1. e = Len(c) /\ line = SubSeq(c, f + 1, Len(c))
      BY <1>2, <1>4, <1>6
    <2>2. t = <<>>
      BY <1>2, <2>1
    <2>3. p \in Seq(S) /\ line \in Seq(S) /\ p \o line = c
      <3>1. f \in Nat /\ f <= Len(c) /\ Len(c) \in Nat /\ Len(c) <= Len(c)
        BY <1>2, <2>1
      <3>2. SubSeq(c, 1, Len(c)) = c
        BY SubSeqFull
      <3>3. /\ p \o SubSeq(c, f + 1, Len(c)) = SubSeq(c, 1, Len(c))
            /\ p \in Seq(S) /\ SubSeq(c, f + 1, Len(c)) \in Seq(S)
        BY <3>1, Rejoined
      <3> QED
        BY <2>1, <3>2, <3>3
    <2> HIDE DEF p
    <2>4. p \o Append(line, NL) = Append(c, NL)
      <3>1. Append(line, NL) = line \o <<NL>> /\ Append(c, NL) = c \o <<NL>>
        BY <2>3, AppendIsConcat
      <3>2. <<NL>> \in Seq(S)
        OBVIOUS
      <3>3. (p \o line) \o <<NL>> = p \o (line \o <<NL>>)
        BY <2>3, <3>2, ConcatAssociative
      <3> QED
        BY <2>3, <3>1, <3>3
    <2>5. Append(c, NL) \o <<>> = Append(c, NL)
      BY AppendProperties, ConcatEmptySeq
    <2> QED
      BY <1>3, <2>2, <2>4, <2>5 DEF line
  <1> QED
    BY <1>5, <1>6

\* Reading one line.
LEMMA LineRead ==
    ASSUME NEW S, NEW c \in Seq(S), NEW k \in 1..LineCount(c)
    PROVE  ~CannotRead(c, k, k) /\ ReadLines(c, k, k)[1] = Line(c, k)
  <1>1. LineCount(c) \in Nat /\ k <= LineCount(c) /\ k \in Nat \ {0}
    BY EndsFinite
  <1>2. ~CannotRead(c, k, k)
    BY <1>1 DEF CannotRead, BadRange
  <1>3. ReadLines(c, k, k) = [j \in 1..(k - k + 1) |-> Line(c, k + j - 1)]
    <2>1. (IF k < LineCount(c) THEN k ELSE LineCount(c)) = k
      BY <1>1
    <2> QED
      BY <2>1, Zenon DEF ReadLines
  <1>4. 1 \in 1..(k - k + 1) /\ k + 1 - 1 = k
    BY <1>1
  <1> QED
    BY <1>2, <1>3, <1>4

-----------------------------------------------------------------------------
(* The matches of a text.                                                  *)

\* The count of matches from place i on, by the counts g behind it.
CountFrom(c, old, g, i) ==
    IF i >= Len(c) THEN 0
    ELSE IF OccursAt(c, old, i) THEN 1 + g[i + Len(old)]
    ELSE g[i + 1]

Counting(c, old, g) == g = [i \in 0..(Len(c) + 1) |-> CountFrom(c, old, g, i)]

\* The count depends on what is behind a place alone.
LEMMA CountBehind ==
    ASSUME NEW S, NEW c \in Seq(S), NEW old \in Seq(S), old # <<>>,
           NEW i \in 0..(Len(c) + 1), NEW g, NEW h,
           \A j \in (i + 1)..(Len(c) + 1) : g[j] \in Nat /\ h[j] = g[j]
    PROVE  /\ CountFrom(c, old, h, i) = CountFrom(c, old, g, i)
           /\ CountFrom(c, old, g, i) \in Nat
  <1>1. Len(c) \in Nat /\ Len(old) \in Nat /\ Len(old) # 0 /\ i \in Nat
    BY EmptySeq
  <1>2. CASE i >= Len(c)
    BY <1>2 DEF CountFrom
  <1>3. CASE i < Len(c) /\ OccursAt(c, old, i)
    <2>1. i + Len(old) \in (i + 1)..(Len(c) + 1)
      BY <1>1, <1>3 DEF OccursAt
    <2>2. ~(i >= Len(c))
      BY <1>1, <1>3
    <2> QED
      BY <1>3, <2>1, <2>2 DEF CountFrom
  <1>4. CASE i < Len(c) /\ ~OccursAt(c, old, i)
    <2>1. i + 1 \in (i + 1)..(Len(c) + 1) /\ ~(i >= Len(c))
      BY <1>1, <1>4
    <2> QED
      BY <1>4, <2>1 DEF CountFrom
  <1> QED
    BY <1>1, <1>2, <1>3, <1>4

\* The counts exist, so that Matches is the one from the start.
LEMMA CountsExist ==
    ASSUME NEW S, NEW c \in Seq(S), NEW old \in Seq(S), old # <<>>
    PROVE  \E g : Counting(c, old, g)
  <1> DEFINE n == Len(c) + 1
             Upto(k, g) == /\ g \in [k..n -> Nat]
                           /\ \A i \in k..n : g[i] = CountFrom(c, old, g, i)
             Known == {k \in 0..n : \E g \in [k..n -> Nat] : Upto(k, g)}
  <1>1. n \in Nat /\ Len(c) \in Nat
    OBVIOUS
  <1>2. n \in Known
    <2> DEFINE h == [i \in n..n |-> 0]
    <2>1. h \in [n..n -> Nat]
      OBVIOUS
    <2>2. \A i \in n..n : h[i] = CountFrom(c, old, h, i)
      BY <1>1 DEF CountFrom
    <2>3. n \in 0..n
      BY <1>1
    <2> HIDE DEF h, n
    <2> QED
      BY <2>1, <2>2, <2>3
  <1>3. ASSUME NEW k \in 0..(n - 1), k + 1 \in Known
        PROVE  k \in Known
    <2>1. PICK g \in [(k + 1)..n -> Nat] : Upto(k + 1, g)
      BY <1>3
    <2> DEFINE h == [i \in k..n |-> IF i = k THEN CountFrom(c, old, g, k) ELSE g[i]]
    <2>2. \A j \in (k + 1)..n : g[j] \in Nat /\ h[j] = g[j]
      BY <1>1
    <2>3. k \in 0..n /\ k \in k..n
      BY <1>1
    <2> HIDE DEF h
    <2>4. /\ CountFrom(c, old, h, k) = CountFrom(c, old, g, k)
          /\ CountFrom(c, old, g, k) \in Nat
      BY <2>2, <2>3, CountBehind
    <2>5. h[k] = CountFrom(c, old, h, k)
      BY <2>3, <2>4 DEF h
    <2>6. ASSUME NEW i \in (k + 1)..n
          PROVE  h[i] = CountFrom(c, old, h, i)
      <3>1. i \in 0..n /\ \A j \in (i + 1)..n : g[j] \in Nat /\ h[j] = g[j]
        BY <1>1, <2>2
      <3>2. CountFrom(c, old, h, i) = CountFrom(c, old, g, i)
        BY <3>1, CountBehind
      <3>3. h[i] = g[i] /\ g[i] = CountFrom(c, old, g, i)
        BY <2>1, <2>2
      <3> QED
        BY <3>2, <3>3
    <2>7. h \in [k..n -> Nat]
      BY <1>1, <2>4 DEF h
    <2>8. \A i \in k..n : h[i] = CountFrom(c, old, h, i)
      <3>1. \A i \in k..n : i = k \/ i \in (k + 1)..n
        BY <1>1
      <3> QED
        BY <2>5, <2>6, <3>1
    <2> QED
      BY <2>3, <2>7, <2>8
  <1>4. 0 \in Known
    <2> HIDE DEF Known, n
    <2>1. 0..n \subseteq Known
      BY <1>1, <1>2, <1>3, Downward
    <2> QED
      BY <1>1, <2>1
  <1>5. PICK g \in [0..n -> Nat] : Upto(0, g)
    BY <1>4
  <1>6. g = [i \in 0..n |-> CountFrom(c, old, g, i)]
    BY <1>5
  <1> QED
    BY <1>6 DEF Counting

\* Matches is such a count, from the start of the file.
LEMMA MatchesIsCount ==
    ASSUME NEW S, NEW c \in Seq(S), NEW old \in Seq(S), old # <<>>
    PROVE  \E g : Counting(c, old, g) /\ Matches(c, old) = g[0]
  <1>1. Matches(c, old) = (CHOOSE g : Counting(c, old, g))[0]
    BY Zenon DEF Matches, Counting, CountFrom
  <1> QED
    BY <1>1, CountsExist, Zenon

\* A text without a place has no matches.
LEMMA MatchHasPlace ==
    ASSUME NEW S, NEW c \in Seq(S), NEW old \in Seq(S), old # <<>>,
           Matches(c, old) = 1
    PROVE  Places(c, old) # {}
  <1> SUFFICES ASSUME Places(c, old) = {}
               PROVE  FALSE
    OBVIOUS
  <1> DEFINE n == Len(c) + 1
  <1>1. PICK g : Counting(c, old, g) /\ Matches(c, old) = g[0]
    BY MatchesIsCount
  <1>2. \A i \in 0..n : g[i] = CountFrom(c, old, g, i)
    BY <1>1 DEF Counting
  <1>3. n \in Nat /\ Len(c) \in Nat /\ Len(old) \in Nat
    OBVIOUS
  <1> DEFINE Zero == {i \in 0..n : g[i] = 0}
  <1>4. n \in Zero
    BY <1>2, <1>3 DEF CountFrom
  <1>5. ASSUME NEW i \in 0..(n - 1), i + 1 \in Zero
        PROVE  i \in Zero
    <2>1. i \in 0..n /\ i \in 0..Len(c)
      BY <1>3
    <2>2. ~OccursAt(c, old, i)
      BY <2>1 DEF Places
    <2> QED
      BY <1>2, <1>5, <2>1, <2>2 DEF CountFrom
  <1>6. 0..n \subseteq Zero
    <2> HIDE DEF Zero, n
    <2> QED
      BY <1>3, <1>4, <1>5, Downward
  <1> QED
    BY <1>1, <1>3, <1>6

\* Two places of a text that does not overlap itself are apart.
LEMMA PlacesApart ==
    ASSUME NEW S, NEW c \in Seq(S), NEW old \in Seq(S), ~Overlaps(old),
           NEW i \in Nat, NEW d \in 1..(Len(old) - 1),
           OccursAt(c, old, i), OccursAt(c, old, i + d)
    PROVE  FALSE
  <1>1. Len(c) \in Nat /\ Len(old) \in Nat /\ d \in Nat
    OBVIOUS
  <1>2. /\ i + d + Len(old) <= Len(c)
        /\ SubSeq(c, i + 1, i + Len(old)) = old
        /\ SubSeq(c, i + d + 1, i + d + Len(old)) = old
    BY <1>1 DEF OccursAt
  <1>3. ASSUME NEW m \in 1..Len(old)
        PROVE  old[m] = c[i + m] /\ old[m] = c[i + d + m]
    <2>1. /\ SubSeq(c, i + 1, i + Len(old))[m] = c[i + 1 + m - 1]
          /\ SubSeq(c, i + d + 1, i + d + Len(old))[m] = c[i + d + 1 + m - 1]
      BY <1>1, <1>2
    <2>2. i + 1 + m - 1 = i + m /\ i + d + 1 + m - 1 = i + d + m
      BY <1>1
    <2> QED
      BY <1>2, <2>1, <2>2
  <1>4. \A m \in 1..(Len(old) - d) : old[d + m] = old[m]
    <2>1. ASSUME NEW m \in 1..(Len(old) - d)
          PROVE  old[d + m] = old[m]
      <3>1. d + m \in 1..Len(old) /\ m \in 1..Len(old) /\ i + (d + m) = i + d + m
        BY <1>1
      <3>2. old[d + m] = c[i + (d + m)] /\ old[m] = c[i + d + m]
        BY <1>3, <3>1
      <3> QED
        BY <3>1, <3>2
    <2> QED
      BY <2>1
  <1>5. SubSeq(old, d + 1, Len(old)) = SubSeq(old, 1, Len(old) - d)
    <2> DEFINE x == SubSeq(old, d + 1, Len(old))
               y == SubSeq(old, 1, Len(old) - d)
    <2>1. /\ x \in Seq(S) /\ y \in Seq(S) /\ Len(x) = Len(old) - d /\ Len(y) = Len(old) - d
          /\ \A m \in 1..(Len(old) - d) : x[m] = old[d + m] /\ y[m] = old[m]
      BY <1>1
    <2> HIDE DEF x, y
    <2>2. x = y
      BY <1>4, <2>1, SeqEqual
    <2> QED
      BY <2>2 DEF x, y
  <1> QED
    BY <1>5 DEF Overlaps

\* The matches that edit_file counts are all the places of a text that does not
\* overlap itself, so that it refuses a text exactly unless it has one place.
\* (The count from place i on is that of the places from there on.)
THEOREM CountIsPlaces ==
    ASSUME NEW S, NEW c \in Seq(S), NEW old \in Seq(S), old # <<>>, ~Overlaps(old)
    PROVE  Matches(c, old) = Cardinality(Places(c, old))
  <1> DEFINE n == Len(c) + 1
             From(i) == {j \in Places(c, old) : j >= i}
  <1>1. PICK g : Counting(c, old, g) /\ Matches(c, old) = g[0]
    BY MatchesIsCount
  <1>2. \A i \in 0..n : g[i] = CountFrom(c, old, g, i)
    BY <1>1 DEF Counting
  <1>3. n \in Nat /\ Len(c) \in Nat /\ Len(old) \in Nat \ {0}
    BY EmptySeq
  <1>4. /\ \A j \in Places(c, old) : j \in Nat /\ j + Len(old) <= Len(c) /\ OccursAt(c, old, j)
        /\ \A j \in Nat : OccursAt(c, old, j) => j \in Places(c, old)
    BY <1>3 DEF Places, OccursAt
  <1>5. \A i : IsFiniteSet(From(i)) /\ Cardinality(From(i)) \in Nat
    <2>1. \A i : From(i) \in SUBSET (0..Len(c)) /\ IsFiniteSet(0..Len(c))
      BY <1>3, FS_Interval DEF Places
    <2> QED
      BY <2>1, FS_Subset, FS_CardinalityType
  <1> DEFINE Right == {i \in 0..n : \A j \in i..n : g[j] = Cardinality(From(j))}
  <1>6. ASSUME NEW i \in 0..n, i >= Len(c)
        PROVE  g[i] = Cardinality(From(i))
    <2>1. From(i) = {}
      BY <1>3, <1>4, <1>6
    <2> QED
      BY <1>2, <1>6, <2>1, FS_EmptySet DEF CountFrom
  <1>7. n \in Right
    <2>1. \A j \in n..n : j \in 0..n /\ j >= Len(c)
      BY <1>3
    <2>2. n \in 0..n
      BY <1>3
    <2> HIDE DEF n, From
    <2> QED
      BY <1>6, <2>1, <2>2
  <1>8. ASSUME NEW i \in 0..(n - 1), i + 1 \in Right
        PROVE  i \in Right
    <2>1. i \in 0..n /\ i \in Nat /\ \A j \in i..n : j = i \/ j \in (i + 1)..n
      BY <1>3
    <2>2. \A j \in (i + 1)..n : g[j] = Cardinality(From(j))
      BY <1>8
    <2> HIDE DEF n, From
    <2>3. SUFFICES g[i] = Cardinality(From(i))
      BY <2>1, <2>2
    <2>4. CASE i >= Len(c)
      BY <1>6, <2>1, <2>4
    <2>5. CASE i < Len(c) /\ OccursAt(c, old, i)
      <3> DEFINE next == i + Len(old)
      <3>1. next \in (i + 1)..n /\ ~(i >= Len(c))
        BY <1>3, <2>1, <2>5 DEF OccursAt, n
      <3>2. g[i] = 1 + Cardinality(From(next))
        BY <1>2, <2>1, <2>2, <2>5, <3>1 DEF CountFrom
      <3>3. From(i) = From(next) \cup {i} /\ i \notin From(next)
        <4>1. ASSUME NEW j \in Places(c, old), j > i, j < next
              PROVE  FALSE
          <5>1. j - i \in 1..(Len(old) - 1) /\ i + (j - i) = j
            BY <1>3, <1>4, <2>1, <4>1
          <5> QED
            BY <1>4, <2>1, <2>5, <5>1, PlacesApart
        <4> QED
          BY <1>3, <1>4, <2>1, <2>5, <4>1 DEF From
      <3>4. Cardinality(From(i)) = Cardinality(From(next)) + 1
        BY <1>5, <3>3, FS_AddElement
      <3> QED
        BY <1>5, <3>2, <3>4
    <2>6. CASE i < Len(c) /\ ~OccursAt(c, old, i)
      <3>1. i + 1 \in (i + 1)..n /\ ~(i >= Len(c))
        BY <1>3, <2>1, <2>6 DEF n
      <3>2. g[i] = Cardinality(From(i + 1))
        BY <1>2, <2>1, <2>2, <2>6, <3>1 DEF CountFrom
      <3>3. From(i) = From(i + 1)
        BY <1>4, <2>1, <2>6 DEF From
      <3> QED
        BY <3>2, <3>3
    <2> QED
      BY <1>3, <2>1, <2>4, <2>5, <2>6
  <1>9. 0 \in Right
    <2> HIDE DEF Right, n
    <2>1. 0..n \subseteq Right
      BY <1>3, <1>7, <1>8, Downward
    <2> QED
      BY <1>3, <2>1
  <1>10. From(0) = Places(c, old)
    BY <1>4
  <1>11. g[0] = Cardinality(From(0))
    BY <1>3, <1>9
  <1> QED
    BY <1>1, <1>10, <1>11

-----------------------------------------------------------------------------
(* What edits leave is text.                                               *)

\* What an edit of lines leaves is text, if what it is given is.
LEMMA EditLinesType ==
    ASSUME NEW S, NEW c \in Seq(S), NEW new \in Seq(S),
           NEW start \in Nat, NEW end \in Nat, ~CannotEdit(c, start, end)
    PROVE  EditLines(c, new, start, end) \in Seq(S)
  <1>1. /\ LineCount(c) \in Nat /\ Len(c) \in Nat
        /\ start \in 1..(LineCount(c) + 1) /\ end >= start
        /\ end <= LineCount(c) \/ start = LineCount(c) + 1
    BY EndsFinite DEF CannotEdit, BadRange
  <1> DEFINE append == start = LineCount(c) + 1
             from == IF append THEN Len(c) ELSE EndOf(c, start - 1)
             to == IF append THEN Len(c) ELSE EndOf(c, end)
  <1>2. from \in 0..Len(c) /\ to \in 0..Len(c)
    <2>1. CASE append
      BY <1>1, <2>1
    <2>2. CASE ~append
      <3>1. start - 1 \in 0..LineCount(c) /\ end \in 0..LineCount(c)
        BY <1>1, <2>2
      <3> QED
        BY <2>2, <3>1, EndsInOrder
    <2> QED
      BY <2>1, <2>2
  <1>3. EditLines(c, new, start, end) =
            SubSeq(c, 1, from) \o new \o SubSeq(c, to + 1, Len(c))
    BY DEF EditLines
  <1> HIDE DEF from, to
  <1>4. SubSeq(c, 1, from) \in Seq(S) /\ SubSeq(c, to + 1, Len(c)) \in Seq(S)
    BY <1>1, <1>2
  <1> QED
    BY <1>3, <1>4

\* So is what an edit by text leaves, since that has a place.
LEMMA ReplacedType ==
    ASSUME NEW S, NEW c \in Seq(S), NEW old \in Seq(S), old # <<>>,
           NEW new \in Seq(S), ~CannotReplace(c, old)
    PROVE  Replaced(c, old, new) \in Seq(S)
  <1> DEFINE P == Places(c, old)
             at == CHOOSE i \in P : \A j \in P : i <= j
  <1>1. P \in SUBSET Nat /\ P # {}
    BY MatchHasPlace DEF CannotReplace, Places
  <1>2. at \in P
    <2> HIDE DEF P
    <2>1. \E i \in P : \A j \in P : i <= j
      BY <1>1, LeastNumber
    <2> QED
      BY <2>1, Zenon
  <1>3. Replaced(c, old, new) =
            SubSeq(c, 1, at) \o new \o SubSeq(c, at + Len(old) + 1, Len(c))
    BY Zenon DEF Replaced
  <1>4. at \in 0..Len(c) /\ at + Len(old) <= Len(c) /\ Len(old) \in Nat /\ Len(c) \in Nat
    <2> HIDE DEF at
    <2> QED
      BY <1>2 DEF Places, OccursAt
  <1> HIDE DEF at
  <1>5. SubSeq(c, 1, at) \in Seq(S) /\ SubSeq(c, at + Len(old) + 1, Len(c)) \in Seq(S)
    BY <1>4
  <1> QED
    BY <1>3, <1>5

=============================================================================
