----------------------------- MODULE ShellProofs -----------------------------
(***************************************************************************)
(* Proofs about the shell's loop, for any lines, scripts and directories   *)
(* and any number of strings in split: programs get the words of the line, *)
(* scripts run line by line, and ls opens the directory that pwd names.    *)
(*                                                                         *)
(* Every call of split leaves one separator more behind the string it is   *)
(* given.  The invariant is an account of them: of the line, one for each  *)
(* word that was taken from it, and of the script, one for each line.      *)
(* Because they stand behind the last word (Padded), split finds the words *)
(* where they were, and then nothing.                                      *)
(***************************************************************************)
EXTENDS Shell, TLAPS, FiniteSetTheorems, WellFoundedInduction

\* Every non-empty set of naturals has a least member.
LEMMA LeastNat ==
  ASSUME NEW S \in SUBSET Nat, S # {}
  PROVE  \E x \in S : \A y \in S : x <= y
<1>1. PICK x \in S : \A y \in S : ~ (<<y, x>> \in OpToRel(<, Nat))
  BY NatLessThanWellFounded, WFMin
<1>2. ASSUME NEW y \in S PROVE x <= y
  <2>1. ~ (y < x) BY <1>1 DEF OpToRel
  <2> QED BY <2>1
<1> QED BY <1>2

\* Counting one kind of symbol.
LEMMA CountFinite ==
  ASSUME NEW s, NEW c, NEW k \in Nat
  PROVE  /\ IsFiniteSet({i \in 1 .. k : s[i] = c})
         /\ Cardinality({i \in 1 .. k : s[i] = c}) \in Nat
         /\ Cardinality({i \in 1 .. k : s[i] = c}) <= k
<1>1. IsFiniteSet(1 .. k) /\ Cardinality(1 .. k) = k BY FS_Interval
<1>2. {i \in 1 .. k : s[i] = c} \subseteq 1 .. k OBVIOUS
<1>3. /\ IsFiniteSet({i \in 1 .. k : s[i] = c}) /\ Cardinality({i \in 1 .. k : s[i] = c}) <= k
  BY <1>1, <1>2, FS_Subset
<1>4. Cardinality({i \in 1 .. k : s[i] = c}) \in Nat BY <1>3, FS_CardinalityType
<1> QED BY <1>3, <1>4

\* A count is a number, at most that of the symbols looked at.
LEMMA CountType ==
  ASSUME NEW s, NEW c, NEW k \in Nat
  PROVE  Count(s, c, k) \in Nat /\ Count(s, c, k) <= k
BY CountFinite DEF Count

\* Among no symbols there is none.
LEMMA CountZero ==
  ASSUME NEW s, NEW c
  PROVE  Count(s, c, 0) = 0
BY CountType

\* One symbol further the count is one more if that is the symbol counted.
LEMMA CountNext ==
  ASSUME NEW s, NEW c, NEW k \in Nat
  PROVE  Count(s, c, k + 1) = Count(s, c, k) + (IF s[k + 1] = c THEN 1 ELSE 0)
<1> DEFINE A == {i \in 1 .. k : s[i] = c}
           B == {i \in 1 .. k + 1 : s[i] = c}
<1>1. IsFiniteSet(A) /\ Cardinality(A) \in Nat BY CountFinite
<1>2. CASE s[k + 1] = c
  <2>1. B = A \cup {k + 1} /\ k + 1 \notin A BY <1>2
  <2>2. Cardinality(A \cup {k + 1}) = Cardinality(A) + 1 BY ONLY <1>1, <2>1, FS_AddElement
  <2> QED BY <2>1, <2>2, <1>2 DEF Count
<1>3. CASE s[k + 1] # c
  <2>1. B = A BY <1>3
  <2>2. Cardinality(B) = Cardinality(A) + 0 BY <2>1, <1>1
  <2> QED BY <2>2, <1>3 DEF Count
<1> QED BY <1>2, <1>3

\* Counts do not decrease.
LEMMA CountGrows ==
  ASSUME NEW s, NEW c, NEW k \in Nat, NEW l \in Nat, k <= l
  PROVE  /\ Count(s, c, k) <= Count(s, c, l)
         /\ k < l /\ s[l] = c => Count(s, c, k) < Count(s, c, l)
<1>1. ASSUME NEW i \in Nat, NEW g \in Nat, i <= g PROVE Count(s, c, i) <= Count(s, c, g)
  <2>1. {n \in 1 .. i : s[n] = c} \subseteq {n \in 1 .. g : s[n] = c} BY <1>1
  <2>2. IsFiniteSet({n \in 1 .. g : s[n] = c}) BY CountFinite
  <2> QED BY <2>1, <2>2, FS_Subset DEF Count
<1>2. ASSUME k < l, s[l] = c PROVE Count(s, c, k) < Count(s, c, l)
  <2>1. PICK n \in Nat : l = n + 1 /\ k <= n
    <3>1. l - 1 \in Nat /\ l = (l - 1) + 1 /\ k <= l - 1 BY <1>2
    <3> QED BY <3>1
  <2>2. Count(s, c, n + 1) = Count(s, c, n) + 1 BY <2>1, <1>2, CountNext
  <2>3. Count(s, c, k) <= Count(s, c, n) BY <2>1, <1>1
  <2>4. Count(s, c, k) \in Nat /\ Count(s, c, n) \in Nat BY <2>1, CountType
  <2> QED BY <2>1, <2>2, <2>3, <2>4
<1> QED BY <1>1, <1>2

\* Sequences that agree so far have the same counts.
LEMMA CountAgrees ==
  ASSUME NEW s, NEW t, NEW c, NEW k \in Nat, \A i \in 1 .. k : s[i] = t[i]
  PROVE  Count(s, c, k) = Count(t, c, k)
<1>1. {i \in 1 .. k : s[i] = c} = {i \in 1 .. k : t[i] = c} OBVIOUS
<1> QED BY <1>1 DEF Count

\* The n-th one is where it should be.
LEMMA PlaceIs ==
  ASSUME NEW S, NEW s \in Seq(S), NEW c, NEW k \in 1 .. Len(s), s[k] = c
  PROVE  Place(s, c, Count(s, c, k)) = k
<1> DEFINE n == Count(s, c, k)
           Fits(i) == i \in DOMAIN s /\ s[i] = c /\ Count(s, c, i) = n
<1>1. DOMAIN s = 1 .. Len(s) /\ Len(s) \in Nat OBVIOUS
<1>2. Fits(k) BY <1>1
<1>3. ASSUME NEW i, Fits(i) PROVE i = k
  <2>1. i \in Nat /\ k \in Nat BY <1>1, <1>3
  <2>2. Count(s, c, i) \in Nat /\ Count(s, c, k) \in Nat BY <2>1, CountType
  <2>3. ~ (i < k)
    <3>1. i < k => Count(s, c, i) < Count(s, c, k) BY <2>1, CountGrows
    <3> QED BY <3>1, <2>2, <1>3
  <2>4. ~ (k < i)
    <3>1. k < i => Count(s, c, k) < Count(s, c, i) BY <2>1, <1>3, CountGrows
    <3> QED BY <3>1, <2>2, <1>3
  <2> QED BY <2>1, <2>3, <2>4
<1> HIDE DEF n
<1>4. (CHOOSE i \in DOMAIN s : s[i] = c /\ Count(s, c, i) = n) = k BY <1>2, <1>3
<1> QED BY <1>4 DEF Place, n

\* For every number up to the count there is a place where it is reached.
LEMMA PlaceFacts ==
  ASSUME NEW S, NEW s \in Seq(S), NEW c, NEW n \in 1 .. Count(s, c, Len(s))
  PROVE  /\ Place(s, c, n) \in 1 .. Len(s) /\ s[Place(s, c, n)] = c
         /\ Count(s, c, Place(s, c, n)) = n
<1>1. Len(s) \in Nat /\ DOMAIN s = 1 .. Len(s) OBVIOUS
<1>2. Count(s, c, Len(s)) \in Nat BY <1>1, CountType
<1> DEFINE T == {i \in 0 .. Len(s) : Count(s, c, i) >= n}
<1>3. T \in SUBSET Nat /\ T # {} BY <1>1, <1>2
<1>4. PICK k \in T : \A i \in T : k <= i BY <1>3, LeastNat
<1>5. k \in 0 .. Len(s) /\ Count(s, c, k) >= n BY <1>4
<1>6. k # 0
  <2>1. Count(s, c, 0) = 0 BY CountZero
  <2> QED BY <2>1, <1>2, <1>5
<1>7. PICK g \in Nat : k = g + 1 /\ g \in 0 .. Len(s)
  <2>1. k - 1 \in Nat /\ k = (k - 1) + 1 /\ k - 1 \in 0 .. Len(s) BY <1>1, <1>5, <1>6
  <2> QED BY <2>1
<1>8. Count(s, c, g) < n
  <2>1. g \notin T BY <1>4, <1>7
  <2>2. Count(s, c, g) \in Nat BY <1>7, CountType
  <2> QED BY <2>1, <2>2, <1>2, <1>7
<1>9. Count(s, c, k) = n /\ s[k] = c
  <2>1. Count(s, c, k) = Count(s, c, g) + (IF s[k] = c THEN 1 ELSE 0) BY <1>7, CountNext
  <2>2. Count(s, c, g) \in Nat BY <1>7, CountType
  <2> QED BY <2>1, <2>2, <1>2, <1>5, <1>8
<1>10. k \in 1 .. Len(s) BY <1>1, <1>5, <1>6
<1>11. Place(s, c, n) = k BY <1>9, <1>10, PlaceIs
<1> QED BY <1>9, <1>10, <1>11
------------------------------------------------------------------------------
\* What split answers is a string, whatever it is given.
LEMMA BodyType ==
  ASSUME NEW S, NEW line \in Seq(S), NEW sep \in S
  PROVE  Body(line, sep) \in Seq(S) /\ Len(Body(line, sep)) <= Len(line) + 1
<1> DEFINE marked == Append(line, sep)
<1>1. marked \in Seq(S) /\ marked # <<>> /\ Len(marked) = Len(line) + 1 BY SMTT(30)
<1>2. Tail(marked) \in Seq(S) /\ Len(Tail(marked)) = Len(line) BY <1>1
<1>3. Body(line, sep) = IF Head(marked) = sep THEN Tail(marked) ELSE marked BY DEF Body, Marked
<1> HIDE DEF marked
<1> QED BY <1>1, <1>2, <1>3

\* So is a piece of a string.
LEMMA PieceType ==
  ASSUME NEW S, NEW s \in Seq(S), NEW lo \in Nat \ {0}, NEW hi \in 0 .. Len(s)
  PROVE  Piece(s, lo, hi) \in Seq(S)
<1>1. PICK l \in Nat : lo = l + 1
  <2>1. lo - 1 \in Nat /\ lo = (lo - 1) + 1 OBVIOUS
  <2> QED BY <2>1
<1>2. PICK x \in Nat : x = Count(s, Zero, l) /\ x <= l BY <1>1, CountType
<1>3. PICK y \in Nat : y = Count(s, Zero, hi) /\ y <= hi BY CountType
<1>4. Piece(s, lo, hi) = SubSeq(s, l - x + 1, hi - y)
  <2>1. lo - 1 = l BY <1>1
  <2> QED BY <2>1, <1>2, <1>3 DEF Piece
<1>5. l - x + 1 \in Nat \ {0} /\ hi - y \in 0 .. Len(s) BY <1>2, <1>3
<1>6. \A i \in l - x + 1 .. hi - y : s[i] \in S BY <1>5
<1>7. SubSeq(s, l - x + 1, hi - y) \in Seq(S) BY <1>5, <1>6
<1> QED BY <1>4, <1>7

\* So is what split returns.
LEMMA SplitType ==
  ASSUME NEW S, NEW line \in Seq(S), NEW sep \in S, NEW k \in Nat \ {0}
  PROVE  Split(k, line, sep) \in Seq(S) /\ Pieces(line, sep) \in Nat
<1>1. PICK s \in Seq(S) : s = Body(line, sep) BY BodyType
<1>l. Len(s) \in Nat OBVIOUS
<1>2. PICK n \in Nat : n = Count(s, sep, Len(s)) BY <1>l, CountType
<1>3. Pieces(line, sep) = n BY <1>1, <1>2 DEF Pieces
<1>4. CASE k >= (IF n = 1 THEN 2 ELSE n)
  <2>1. Split(k, line, sep) = <<>> BY <1>3, <1>4 DEF Split
  <2>2. <<>> \in Seq(S) OBVIOUS
  <2> QED BY <2>1, <2>2, <1>3
<1>5. CASE ~ (k >= (IF n = 1 THEN 2 ELSE n))
  <2>1. k \in 1 .. n BY <1>5
  <2>2. PICK hi \in 1 .. Len(s) : hi = Place(s, sep, k) BY <2>1, <1>2, PlaceFacts
  <2>3. PICK lo \in Nat \ {0} : lo = IF k = 1 THEN 1 ELSE Place(s, sep, k - 1) + 1
    <3>1. CASE k = 1 BY <3>1
    <3>2. CASE k # 1
      <4>1. k - 1 \in 1 .. Count(s, sep, Len(s)) BY <3>2, <2>1, <1>2
      <4>2. Place(s, sep, k - 1) \in 1 .. Len(s) BY <4>1, PlaceFacts
      <4>3. Place(s, sep, k - 1) + 1 \in Nat \ {0} BY <4>2
      <4> QED BY <4>3, <3>2
    <3> QED BY <3>1, <3>2
  <2>4. Split(k, line, sep) = Piece(s, lo, hi - 1)
    BY <2>2, <2>3, <1>1, <1>3, <1>5 DEF Split
  <2>5. hi - 1 \in 0 .. Len(s) BY <2>2
  <2> QED BY <2>4, <2>5, <1>3, PieceType
<1> QED BY <1>3, <1>4, <1>5
------------------------------------------------------------------------------
\* A line of words: no separator at its ends, none behind another, and no 0.
Tidy(line, sep) ==
  /\ line # <<>> /\ line[1] # sep /\ line[Len(line)] # sep
  /\ \A k \in 1 .. Len(line) : line[k] # Zero
  /\ \A k \in 1 .. Len(line) - 1 : line[k] = sep => line[k + 1] # sep

\* What the calls of split leave of a line: separators behind it.
Padded(input1, line, sep) ==
  /\ Len(input1) >= Len(line)
  /\ \A k \in 1 .. Len(line) : input1[k] = line[k]
  /\ \A k \in Len(line) + 1 .. Len(input1) : input1[k] = sep

\* How many words a line of words has.
Words(line, sep) == Count(line, sep, Len(line)) + 1

\* Where word k ends and word k + 1 begins.
Bound(line, sep, k) ==
  IF k = 0 THEN 0 ELSE IF k = Words(line, sep) THEN Len(line) + 1 ELSE Place(line, sep, k)

\* The k-th of them.
Word(line, sep, k) == SubSeq(line, Bound(line, sep, k - 1) + 1, Bound(line, sep, k) - 1)

\* The bounds of the words ascend, and what lies on them is a separator.
LEMMA BoundFacts ==
  ASSUME NEW S, NEW line \in Seq(S), NEW sep \in S, Tidy(line, sep)
  PROVE  /\ Words(line, sep) \in Nat \ {0} /\ Bound(line, sep, 0) = 0
         /\ Bound(line, sep, Words(line, sep)) = Len(line) + 1
         /\ \A k \in 1 .. Words(line, sep) :
              /\ Bound(line, sep, k) \in 1 .. Len(line) + 1
              /\ Bound(line, sep, k - 1) \in 0 .. Len(line)
              /\ Bound(line, sep, k - 1) + 1 < Bound(line, sep, k)
         /\ \A k \in 1 .. Words(line, sep) - 1 :
              /\ Bound(line, sep, k) \in 1 .. Len(line) /\ line[Bound(line, sep, k)] = sep
              /\ Count(line, sep, Bound(line, sep, k)) = k
<1>1. PICK L \in Nat : L = Len(line) /\ L > 0 BY DEF Tidy
<1>2. PICK n \in Nat : n = Count(line, sep, L) BY CountType
<1>3. Words(line, sep) = n + 1 BY <1>1, <1>2 DEF Words
<1>4. /\ line[1] # sep /\ line[L] # sep
      /\ \A k \in 1 .. L - 1 : line[k] = sep => line[k + 1] # sep
  BY <1>1 DEF Tidy
<1>5. Bound(line, sep, 0) = 0 BY DEF Bound
<1>6. Bound(line, sep, n + 1) = L + 1 BY <1>1, <1>3 DEF Bound
<1>7. ASSUME NEW k \in 1 .. n
      PROVE  /\ Bound(line, sep, k) \in 1 .. L /\ line[Bound(line, sep, k)] = sep
             /\ Count(line, sep, Bound(line, sep, k)) = k
  <2>1. Bound(line, sep, k) = Place(line, sep, k) BY <1>3 DEF Bound
  <2>2. k \in 1 .. Count(line, sep, Len(line)) BY <1>1, <1>2
  <2> QED BY <2>1, <2>2, <1>1, PlaceFacts
<1>8. ASSUME NEW k \in 1 .. n + 1
      PROVE  /\ Bound(line, sep, k) \in 1 .. L + 1 /\ Bound(line, sep, k - 1) \in 0 .. L
             /\ Bound(line, sep, k - 1) + 1 < Bound(line, sep, k)
  <2>1. PICK b \in 1 .. L + 1 : b = Bound(line, sep, k)
    <3>1. CASE k = n + 1 BY <3>1, <1>6
    <3>2. CASE k # n + 1
      <4>1. k \in 1 .. n BY <3>2
      <4>2. Bound(line, sep, k) \in 1 .. L BY <4>1, <1>7
      <4> QED BY <4>2
    <3> QED BY <3>1, <3>2
  <2>2. CASE k = 1
    <3>1. b # 1
      <4>1. CASE n = 0 BY <4>1, <2>1, <2>2, <1>1, <1>6
      <4>2. CASE n # 0
        <5>1. 1 \in 1 .. n BY <4>2
        <5>2. line[b] = sep BY <5>1, <2>1, <2>2, <1>7
        <5> QED BY <5>2, <1>4
      <4> QED BY <4>1, <4>2
    <3>2. k - 1 = 0 BY <2>2
    <3> QED BY <3>1, <3>2, <2>1, <1>1, <1>5
  <2>3. CASE k # 1
    <3>1. k - 1 \in 1 .. n BY <2>3
    <3>2. PICK d \in 1 .. L : d = Bound(line, sep, k - 1) /\ line[d] = sep /\ Count(line, sep, d) = k - 1
      BY <3>1, <1>7
    <3>3. d < L BY <3>2, <1>4
    <3>4. line[d + 1] # sep BY <3>2, <3>3, <1>4
    <3>5. d + 1 < b
      <4>1. CASE k = n + 1 BY <4>1, <3>3, <2>1, <1>6
      <4>2. CASE k # n + 1
        <5>1. k \in 1 .. n BY <4>2
        <5>2. b \in 1 .. L /\ line[b] = sep /\ Count(line, sep, b) = k BY <5>1, <2>1, <1>7
        <5>3. d < b
          <6>1. ASSUME b <= d PROVE FALSE
            <7>1. Count(line, sep, b) <= Count(line, sep, d) BY <6>1, <5>2, <3>2, CountGrows
            <7> QED BY <7>1, <5>2, <3>2
          <6> QED BY <6>1, <5>2, <3>2
        <5>4. b # d + 1 BY <5>2, <3>4
        <5> QED BY <5>2, <5>3, <5>4, <3>2
      <4> QED BY <4>1, <4>2
    <3> QED BY <3>2, <3>5, <2>1, <1>1
  <2> QED BY <2>2, <2>3
<1> QED BY <1>1, <1>2, <1>3, <1>5, <1>6, <1>7, <1>8

\* A word is not empty and is what lies between its bounds.
LEMMA WordFacts ==
  ASSUME NEW S, NEW line \in Seq(S), NEW sep \in S, Tidy(line, sep),
         NEW k \in 1 .. Words(line, sep)
  PROVE  /\ Word(line, sep, k) \in Seq(S) /\ Word(line, sep, k) # <<>>
         /\ Len(Word(line, sep, k)) = Bound(line, sep, k) - Bound(line, sep, k - 1) - 1
         /\ \A i \in 1 .. Len(Word(line, sep, k)) :
              Word(line, sep, k)[i] = line[Bound(line, sep, k - 1) + i]
<1>0. Len(line) \in Nat OBVIOUS
<1>1. PICK b \in 1 .. Len(line) + 1 : b = Bound(line, sep, k) BY BoundFacts
<1>2. PICK d \in 0 .. Len(line) : d = Bound(line, sep, k - 1) BY BoundFacts
<1>3. d + 1 < b BY <1>1, <1>2, BoundFacts
<1>4. Word(line, sep, k) = SubSeq(line, d + 1, b - 1) BY <1>1, <1>2 DEF Word
<1>5. d + 1 \in 1 .. Len(line) /\ b - 1 \in 1 .. Len(line) /\ d + 1 <= b - 1 BY <1>0, <1>1, <1>2, <1>3
<1>6. /\ SubSeq(line, d + 1, b - 1) \in Seq(S) /\ Len(SubSeq(line, d + 1, b - 1)) = b - d - 1
      /\ \A i \in 1 .. b - d - 1 : SubSeq(line, d + 1, b - 1)[i] = line[d + i]
  BY <1>5
<1>7. SubSeq(line, d + 1, b - 1) # <<>> BY <1>5, <1>6
<1> QED BY <1>1, <1>2, <1>4, <1>6, <1>7

\* The separators behind a line are counted one by one.
LEMMA PaddedCount ==
  ASSUME NEW S, NEW line \in Seq(S), NEW sep \in S, NEW t \in Seq(S), Padded(t, line, sep)
  PROVE  \A i \in 0 .. Len(t) - Len(line) :
           Count(t, sep, Len(line) + i) = Count(line, sep, Len(line)) + i
<1>0. Len(line) \in Nat /\ Len(t) \in Nat OBVIOUS
<1>1. PICK L \in Nat, M \in Nat : L = Len(line) /\ M = Len(t) BY <1>0
<1>2. /\ M >= L /\ \A k \in 1 .. L : t[k] = line[k]
      /\ \A k \in L + 1 .. M : t[k] = sep
  BY <1>1 DEF Padded
<1>3. PICK n \in Nat : n = Count(line, sep, L) BY CountType
<1>4. Count(t, sep, L) = n BY <1>2, <1>3, CountAgrees
<1> DEFINE Bad == {i \in 0 .. M - L : Count(t, sep, L + i) # n + i}
<1>5. ASSUME Bad # {} PROVE FALSE
  <2>1. Bad \in SUBSET Nat BY <1>1
  <2>2. PICK i \in Bad : \A g \in Bad : i <= g BY <2>1, <1>5, LeastNat
  <2>3. i \in 0 .. M - L /\ Count(t, sep, L + i) # n + i BY <2>2
  <2>4. i # 0 BY <2>3, <1>3, <1>4
  <2>5. PICK g \in Nat : i = g + 1
    <3>1. i - 1 \in Nat /\ i = (i - 1) + 1 BY <2>3, <2>4
    <3> QED BY <3>1
  <2>6. g \in 0 .. M - L /\ g < i BY <2>3, <2>5
  <2>7. g \notin Bad BY <2>2, <2>5, <2>6, SMTT(30)
  <2>8. Count(t, sep, L + g) = n + g BY <2>6, <2>7
  <2>9. PICK m \in Nat : m = L + g /\ m + 1 = L + i
    <3>1. L + g \in Nat /\ (L + g) + 1 = L + i BY <2>5, SMTT(30)
    <3> QED BY <3>1
  <2>a. t[m + 1] = sep BY <2>3, <2>5, <2>9, <1>2, SMTT(30)
  <2>b. Count(t, sep, m + 1) = Count(t, sep, m) + (IF t[m + 1] = sep THEN 1 ELSE 0) BY CountNext
  <2>c. Count(t, sep, L + i) = (n + g) + 1 BY <2>a, <2>b, <2>8, <2>9
  <2> QED BY <2>3, <2>5, <2>c
<1> HIDE DEF Bad
<1>6. \A i \in 0 .. M - L : i \notin Bad BY <1>5
<1> QED BY <1>1, <1>3, <1>6 DEF Bad

\* Without a 0 in it, a piece is what lies between its ends.
LEMMA PlainPiece ==
  ASSUME NEW s, NEW N \in Nat, \A i \in 1 .. N : s[i] # Zero,
         NEW lo \in 1 .. N + 1, NEW hi \in 0 .. N
  PROVE  Piece(s, lo, hi) = SubSeq(s, lo, hi)
<1>1. ASSUME NEW k \in 0 .. N PROVE Count(s, Zero, k) = 0
  <2>1. {i \in 1 .. k : s[i] = Zero} = {} BY <1>1
  <2>2. Cardinality({}) = 0 BY FS_EmptySet
  <2> QED BY <2>1, <2>2 DEF Count
<1>2. lo - 1 \in 0 .. N OBVIOUS
<1>3. Count(s, Zero, lo - 1) = 0 /\ Count(s, Zero, hi) = 0 BY <1>1, <1>2
<1>4. (lo - 1) - 0 + 1 = lo /\ hi - 0 = hi OBVIOUS
<1> QED BY <1>3, <1>4 DEF Piece

\* split on a line of words, with separators behind it from calls before: the
\* words one after the other, and then nothing.
LEMMA SplitTidy ==
  ASSUME NEW S, NEW line \in Seq(S), NEW sep \in S, sep # Zero, Tidy(line, sep),
         NEW t \in Seq(S), Padded(t, line, sep)
  PROVE  /\ Pieces(t, sep) = Words(line, sep) + (Len(t) - Len(line))
         /\ Split(Words(line, sep) + 1, t, sep) = <<>>
         /\ \A k \in 1 .. Words(line, sep) :
              k < Words(line, sep) \/ k = 1 \/ Len(t) > Len(line) =>
                Split(k, t, sep) = Word(line, sep, k)
<1>0. Len(line) \in Nat /\ Len(t) \in Nat OBVIOUS
<1>1. PICK L \in Nat, M \in Nat : L = Len(line) /\ M = Len(t) BY <1>0
<1>2. PICK w \in Nat : w = Words(line, sep) /\ w > 0 BY BoundFacts
<1>3. Count(line, sep, L) = w - 1
  <2>1. Count(line, sep, L) \in Nat BY CountType
  <2> QED BY <2>1, <1>1, <1>2 DEF Words
<1>a. Append(t, sep) \in Seq(S) OBVIOUS
<1>4. PICK s \in Seq(S) : s = Append(t, sep) BY <1>a
<1>5. Len(s) = M + 1 /\ s[M + 1] = sep /\ \A i \in 1 .. M : s[i] = t[i] BY <1>1, <1>4
<1>6. /\ M >= L /\ L > 0 /\ line[1] # sep /\ \A k \in 1 .. L : t[k] = line[k]
      /\ \A k \in L + 1 .. M : t[k] = sep
  BY <1>1 DEF Padded, Tidy
<1>7. Body(t, sep) = s
  <2>1. Head(s) # sep BY <1>5, <1>6
  <2> QED BY <2>1, <1>4 DEF Body, Marked
<1>8. Padded(s, line, sep)
  <2>1. ASSUME NEW k \in L + 1 .. M + 1 PROVE s[k] = sep BY <1>5, <1>6, SMTT(30)
  <2>2. \A k \in 1 .. L : s[k] = line[k] BY <1>5, <1>6
  <2> QED BY <2>1, <2>2, <1>1, <1>5, <1>6 DEF Padded
<1>9. ASSUME NEW i \in 0 .. M + 1 - L PROVE Count(s, sep, L + i) = w - 1 + i
  <2>1. i \in 0 .. Len(s) - Len(line) BY <1>1, <1>5
  <2>2. \A g \in 0 .. Len(s) - Len(line) :
          Count(s, sep, Len(line) + g) = Count(line, sep, Len(line)) + g
    BY <1>8, PaddedCount
  <2>3. Count(s, sep, Len(line) + i) = Count(line, sep, Len(line)) + i BY ONLY <2>1, <2>2
  <2> QED BY <2>3, <1>1, <1>3
<1>10. Pieces(t, sep) = w + (M - L)
  <2>1. M + 1 - L \in 0 .. M + 1 - L BY <1>6
  <2>2. L + (M + 1 - L) = M + 1 OBVIOUS
  <2>3. Count(s, sep, M + 1) = w - 1 + (M + 1 - L) BY <2>1, <2>2, <1>9
  <2> QED BY <2>3, <1>5, <1>7 DEF Pieces
<1>11. ASSUME NEW k \in 1 .. w PROVE Place(s, sep, k) = Bound(line, sep, k)
  <2>1. CASE k = w
    <3>1. 1 \in 0 .. M + 1 - L BY <1>6
    <3>2. Count(s, sep, L + 1) = w BY <3>1, <1>9
    <3>3. L + 1 \in 1 .. Len(s) /\ s[L + 1] = sep BY <1>5, <1>6
    <3>4. Place(s, sep, w) = L + 1 BY <3>2, <3>3, PlaceIs
    <3> QED BY <3>4, <2>1, <1>1, <1>2, BoundFacts
  <2>2. CASE k # w
    <3>1. k \in 1 .. w - 1 BY <2>2
    <3>2. PICK b \in 1 .. L : b = Bound(line, sep, k) /\ line[b] = sep /\ Count(line, sep, b) = k
      BY <3>1, <1>1, <1>2, BoundFacts
    <3>3. s[b] = sep /\ b \in 1 .. Len(s) BY <3>2, <1>5, <1>6, SMTT(30)
    <3>4. ASSUME NEW i \in 1 .. b PROVE s[i] = line[i]
      <4>1. i \in 1 .. L /\ i \in 1 .. M BY <3>2, <1>6
      <4> QED BY <4>1, <1>5, <1>6
    <3>5. Count(s, sep, b) = k BY <3>2, <3>4, CountAgrees
    <3> QED BY <3>2, <3>3, <3>5, PlaceIs
  <2> QED BY <2>1, <2>2
<1>12. \A i \in 1 .. M + 1 : s[i] # Zero
  <2>1. ASSUME NEW i \in 1 .. M + 1 PROVE s[i] # Zero
    <3>1. CASE i <= L
      <4>1. s[i] = line[i] BY <3>1, <1>5, <1>6
      <4> QED BY <4>1, <3>1, <1>1 DEF Tidy
    <3>2. CASE i > L BY <3>2, <1>5, <1>6, SMTT(30)
    <3> QED BY <3>1, <3>2
  <2> QED BY <2>1
<1>13. ASSUME NEW k \in 1 .. w, k < w \/ k = 1 \/ M > L
       PROVE  Split(k, t, sep) = Word(line, sep, k)
  <2>1. PICK b \in 1 .. L + 1 : b = Bound(line, sep, k) BY <1>1, <1>2, BoundFacts
  <2>2. PICK d \in 0 .. L : d = Bound(line, sep, k - 1) BY <1>1, <1>2, BoundFacts
  <2>3. d + 1 < b BY <2>1, <2>2, <1>2, BoundFacts
  <2>4. (IF k = 1 THEN 1 ELSE Place(s, sep, k - 1) + 1) = d + 1
    <3>1. CASE k = 1
      <4>1. k - 1 = 0 BY <3>1
      <4>2. d = 0 BY <4>1, <2>2, BoundFacts
      <4> QED BY <4>2, <3>1
    <3>2. CASE k # 1
      <4>1. k - 1 \in 1 .. w BY <3>2
      <4> QED BY <4>1, <3>2, <2>2, <1>11
    <3> QED BY <3>1, <3>2
  <2>5. Place(s, sep, k) - 1 = b - 1 BY <2>1, <1>11
  <2>6. ~ (k >= (IF Pieces(t, sep) = 1 THEN 2 ELSE Pieces(t, sep))) BY <1>6, <1>10, <1>13
  <2>7. Split(k, t, sep) = Piece(s, d + 1, b - 1) BY <2>4, <2>5, <2>6, <1>7 DEF Split
  <2>8. d + 1 \in 1 .. (M + 1) + 1 /\ b - 1 \in 0 .. M + 1 /\ M + 1 \in Nat BY <1>6
  <2>9. Piece(s, d + 1, b - 1) = SubSeq(s, d + 1, b - 1) BY <2>8, <1>12, PlainPiece
  <2>10. SubSeq(s, d + 1, b - 1) = SubSeq(line, d + 1, b - 1)
    <3>1. \A i \in d + 1 .. b - 1 : s[i] = line[i] BY <1>5, <1>6
    <3> QED BY <3>1
  <2>11. Word(line, sep, k) = SubSeq(line, d + 1, b - 1) BY <2>1, <2>2 DEF Word
  <2> QED BY <2>7, <2>9, <2>10, <2>11
<1>14. Split(w + 1, t, sep) = <<>>
  <2>1. CASE w + 1 >= (IF Pieces(t, sep) = 1 THEN 2 ELSE Pieces(t, sep))
    BY <2>1 DEF Split
  <2>2. CASE ~ (w + 1 >= (IF Pieces(t, sep) = 1 THEN 2 ELSE Pieces(t, sep)))
    <3>1. 2 \in 0 .. M + 1 - L /\ M > L BY <2>2, <1>6, <1>10
    <3>2. Count(s, sep, L + 2) = w + 1 BY <3>1, <1>9
    <3>3. L + 2 \in 1 .. Len(s) /\ s[L + 2] = sep BY <3>1, <1>5, <1>6
    <3>4. Place(s, sep, w + 1) = L + 2 BY <3>2, <3>3, PlaceIs
    <3>5. Place(s, sep, w) = L + 1
      <4>1. w \in 1 .. w BY <1>2
      <4> QED BY <4>1, <1>1, <1>2, <1>11, BoundFacts
    <3>6. w + 1 # 1 /\ (w + 1) - 1 = w BY <1>2
    <3>7. Split(w + 1, t, sep) = Piece(s, L + 1 + 1, L + 2 - 1)
      BY <2>2, <3>4, <3>5, <3>6, <1>7 DEF Split
    <3>8. L + 1 + 1 = L + 2 /\ L + 2 - 1 = L + 1 OBVIOUS
    <3>9. L + 2 \in 1 .. (M + 1) + 1 /\ L + 1 \in 0 .. M + 1 /\ M + 1 \in Nat BY <3>1
    <3>10. Piece(s, L + 2, L + 1) = SubSeq(s, L + 2, L + 1) BY <3>9, <1>12, PlainPiece
    <3>11. SubSeq(s, L + 2, L + 1) = <<>> OBVIOUS
    <3> QED BY <3>7, <3>8, <3>10, <3>11
  <2> QED BY <2>1, <2>2
<1> QED BY <1>1, <1>2, <1>10, <1>13, <1>14
------------------------------------------------------------------------------
\* Sequences put together piece by piece: a family of prefixes, each the one
\* before it and one more piece, ends in the whole.
LEMMA Flattened ==
  ASSUME NEW seqs, NEW n \in Nat \ {0}, Len(seqs) = n, NEW h,
         \A i \in 1 .. n : h[i] = IF i = 1 THEN seqs[i] ELSE h[i - 1] \o seqs[i]
  PROVE  FlattenSeq(seqs) = h[n]
<1> DEFINE flatten == CHOOSE f : f = [i \in 1 .. Len(seqs) |->
                                       IF i = 1 THEN seqs[i] ELSE f[i - 1] \o seqs[i]]
<1>1. FlattenSeq(seqs) = flatten[n] BY DEF FlattenSeq
<1>2. flatten = [i \in 1 .. Len(seqs) |-> IF i = 1 THEN seqs[i] ELSE flatten[i - 1] \o seqs[i]]
  <2> DEFINE g == [i \in 1 .. n |-> h[i]]
  <2>1. ASSUME NEW i \in 1 .. n PROVE g[i] = IF i = 1 THEN seqs[i] ELSE g[i - 1] \o seqs[i]
    <3>1. i = 1 \/ i - 1 \in 1 .. n OBVIOUS
    <3> QED BY <3>1
  <2>2. g = [i \in 1 .. Len(seqs) |-> IF i = 1 THEN seqs[i] ELSE g[i - 1] \o seqs[i]]
    BY <2>1
  <2> HIDE DEF g
  <2> QED BY <2>2
<1> HIDE DEF flatten
<1> DEFINE Bad == {i \in 1 .. n : flatten[i] # h[i]}
<1>3. ASSUME Bad # {} PROVE FALSE
  <2>1. Bad \in SUBSET Nat OBVIOUS
  <2>2. PICK i \in Bad : \A k \in Bad : i <= k BY <2>1, <1>3, LeastNat
  <2>3. i \in 1 .. n /\ flatten[i] # h[i] BY <2>2
  <2>4. CASE i = 1 BY <2>3, <2>4, <1>2
  <2>5. CASE i # 1
    <3>1. i - 1 \in 1 .. n /\ ~ (i <= i - 1) BY <2>3, <2>5
    <3>2. flatten[i - 1] = h[i - 1] BY <3>1, <2>2
    <3>3. flatten[i] = flatten[i - 1] \o seqs[i] BY <2>3, <2>5, <1>2
    <3>4. h[i] = h[i - 1] \o seqs[i] BY <2>3, <2>5
    <3> QED BY <3>2, <3>3, <3>4, <2>3
  <2> QED BY <2>4, <2>5
<1>4. n \in 1 .. n OBVIOUS
<1> QED BY <1>1, <1>3, <1>4

\* A prefix of a sequence and what stands behind it there.
LEMMA GlueSeq ==
  ASSUME NEW S
  PROVE  \A s, u \in Seq(S) : \A b \in 0 .. Len(s) : \A d \in 0 .. b :
           Len(u) = b - d /\ (\A k \in 1 .. b - d : u[k] = s[d + k]) =>
             SubSeq(s, 1, b) = SubSeq(s, 1, d) \o u
<1> SUFFICES ASSUME NEW s \in Seq(S), NEW u \in Seq(S), NEW b \in 0 .. Len(s), NEW d \in 0 .. b,
                    Len(u) = b - d, \A k \in 1 .. b - d : u[k] = s[d + k]
             PROVE  SubSeq(s, 1, b) = SubSeq(s, 1, d) \o u
  OBVIOUS
<1>0. PICK L \in Nat : L = Len(s) OBVIOUS
<1>1. PICK p \in Seq(S) : /\ p = SubSeq(s, 1, d) /\ Len(p) = d
                          /\ \A k \in 1 .. d : p[k] = s[k]
  <2>1. SubSeq(s, 1, d) \in Seq(S) /\ Len(SubSeq(s, 1, d)) = d
        /\ \A k \in 1 .. d : SubSeq(s, 1, d)[k] = s[k]
    BY <1>0
  <2> QED BY <2>1
<1>2. PICK y \in Seq(S) : /\ y = SubSeq(s, 1, b) /\ Len(y) = b
                          /\ \A k \in 1 .. b : y[k] = s[k]
  <2>1. SubSeq(s, 1, b) \in Seq(S) /\ Len(SubSeq(s, 1, b)) = b
        /\ \A k \in 1 .. b : SubSeq(s, 1, b)[k] = s[k]
    BY <1>0
  <2> QED BY <2>1
<1>3. b \in Nat /\ d \in Nat /\ d <= b BY <1>0
<1>4. p \o u \in Seq(S) /\ Len(p \o u) = b
  <2>1. p \o u \in Seq(S) /\ Len(p \o u) = Len(p) + Len(u) OBVIOUS
  <2> QED BY <2>1, <1>1, <1>3
<1>5. ASSUME NEW k \in 1 .. b PROVE (p \o u)[k] = s[k]
  <2>1. CASE k <= d
    <3>1. k \in 1 .. Len(p) BY <2>1, <1>1, <1>3
    <3>2. (p \o u)[k] = p[k] BY <3>1
    <3> QED BY <3>1, <3>2, <1>1
  <2>2. CASE k > d
    <3>1. PICK m \in 1 .. b - d : k = d + m
      <4>1. k - d \in 1 .. b - d /\ k = d + (k - d) BY <2>2, <1>3
      <4> QED BY <4>1
    <3>2. m \in 1 .. Len(u) /\ k = Len(p) + m BY <3>1, <1>1
    <3>3. (p \o u)[Len(p) + m] = u[m] BY <3>2
    <3>4. u[m] = s[d + m] OBVIOUS
    <3>5. (p \o u)[k] = (p \o u)[Len(p) + m] BY ONLY <3>2, Zenon
    <3>6. s[k] = s[d + m] BY ONLY <3>1, Zenon
    <3> QED BY ONLY <3>3, <3>4, <3>5, <3>6, Zenon
  <2>3. k <= d \/ k > d BY <1>3
  <2> QED BY <2>1, <2>2, <2>3
<1>6. PICK x \in Seq(S) : x = p \o u BY <1>4
<1>7. Len(x) = b /\ \A k \in 1 .. b : x[k] = y[k] BY <1>2, <1>4, <1>5, <1>6
<1>8. x = y BY <1>2, <1>7
<1> QED BY <1>1, <1>2, <1>6, <1>8

\* The words up to the n-th, each with a separator behind it, are what the line
\* with a separator behind it begins with.
LEMMA EndedWords ==
  ASSUME NEW S, NEW line \in Seq(S), NEW sep \in S, Tidy(line, sep),
         NEW n \in 1 .. Words(line, sep), NEW parts \in [1 .. n -> Seq(S)],
         \A k \in 1 .. n : parts[k] = Word(line, sep, k)
  PROVE  Ended(parts, sep) = SubSeq(Append(line, sep), 1, Bound(line, sep, n))
<1> DEFINE seqs == [k \in DOMAIN parts |-> Append(parts[k], sep)]
           B(i) == Bound(line, sep, i)
           h == [i \in 1 .. n |-> SubSeq(Append(line, sep), 1, B(i))]
<1>0. PICK L \in Nat : L = Len(line) OBVIOUS
<1>s. PICK s \in Seq(S) : /\ s = Append(line, sep) /\ Len(s) = L + 1 /\ s[L + 1] = sep
                          /\ \A i \in 1 .. L : s[i] = line[i]
  <2>1. Append(line, sep) \in Seq(S) /\ Len(Append(line, sep)) = L + 1
        /\ Append(line, sep)[L + 1] = sep
        /\ \A i \in 1 .. L : Append(line, sep)[i] = line[i]
    BY <1>0
  <2> QED BY <2>1
<1>w. PICK w \in Nat \ {0} : w = Words(line, sep) BY BoundFacts
<1>n. n \in Nat \ {0} /\ n <= w BY <1>w
<1>1. DOMAIN parts = 1 .. n /\ Len(seqs) = n BY <1>n
<1>2. ASSUME NEW i \in 1 .. n
      PROVE  h[i] = IF i = 1 THEN seqs[i] ELSE h[i - 1] \o seqs[i]
  <2>0. i \in 1 .. Words(line, sep) BY <1>w, <1>n
  <2>1. PICK b \in 1 .. L + 1 : b = B(i) BY <2>0, <1>0, BoundFacts
  <2>2. PICK d \in 0 .. L : d = B(i - 1) /\ d + 1 < b BY <2>0, <2>1, <1>0, BoundFacts
  <2>3. PICK v \in Seq(S) : v = Word(line, sep, i) BY <2>0, WordFacts
  <2>m. PICK m \in Nat : m = b - d - 1 BY <2>1, <2>2, SMTT(30)
  <2>4. Len(v) = m /\ \A k \in 1 .. m : v[k] = line[d + k]
    <3>1. Len(v) = B(i) - B(i - 1) - 1 /\ \A k \in 1 .. Len(v) : v[k] = line[B(i - 1) + k]
      BY <2>0, <2>3, WordFacts
    <3> QED BY <3>1, <2>1, <2>2, <2>m
  <2>6. s[b] = sep
    <3>1. CASE i = w
      <4>1. b = L + 1 BY <3>1, <2>1, <1>0, <1>w, BoundFacts
      <4> QED BY <4>1, <1>s
    <3>2. CASE i # w
      <4>1. i \in 1 .. Words(line, sep) - 1 BY <3>2, <1>w, <1>n
      <4>2. b \in 1 .. L /\ line[b] = sep BY <4>1, <2>1, <1>0, BoundFacts, SMTT(30)
      <4> QED BY <4>2, <1>s
    <3> QED BY <3>1, <3>2
  <2>7. seqs[i] = Append(v, sep) BY <2>3, <1>1
  <2>8. PICK u \in Seq(S) : /\ u = Append(v, sep) /\ Len(u) = b - d
                            /\ \A k \in 1 .. b - d : u[k] = s[d + k]
    <3>1. Append(v, sep) \in Seq(S) /\ Len(Append(v, sep)) = m + 1 /\ Append(v, sep)[m + 1] = sep
          /\ \A k \in 1 .. m : Append(v, sep)[k] = v[k]
      BY <2>4
    <3>2. m + 1 = b - d /\ d + (m + 1) = b BY <2>m
    <3>3. ASSUME NEW k \in 1 .. m + 1 PROVE Append(v, sep)[k] = s[d + k]
      <4>1. CASE k = m + 1 BY <4>1, <3>1, <3>2, <2>6
      <4>2. CASE k # m + 1
        <5>1. k \in 1 .. m /\ d + k \in 1 .. L BY <4>2, <2>m
        <5> QED BY <5>1, <3>1, <2>4, <1>s
      <4> QED BY <4>1, <4>2
    <3> QED BY <3>1, <3>2, <3>3
  <2>9. h[i] = SubSeq(s, 1, b) BY <2>1, <1>s
  <2>10. b \in 0 .. Len(s) /\ d \in 0 .. b BY <1>s, <2>2
  <2>14. Len(u) = b - d /\ \A k \in 1 .. b - d : u[k] = s[d + k] BY <2>8
  <2>13. SubSeq(s, 1, b) = SubSeq(s, 1, d) \o u
    <3>1. s \in Seq(S) /\ u \in Seq(S) OBVIOUS
    <3> QED BY ONLY <3>1, <2>14, <2>10, GlueSeq, Zenon
  <2>11. CASE i = 1
    <3>1. d = 0
      <4>1. i - 1 = 0 BY <2>11
      <4> QED BY <4>1, <2>2, BoundFacts
    <3>2. SubSeq(s, 1, 0) = <<>> OBVIOUS
    <3>3. <<>> \o u = u OBVIOUS
    <3> QED BY <3>1, <3>2, <3>3, <2>7, <2>8, <2>9, <2>11, <2>13
  <2>12. CASE i # 1
    <3>1. i - 1 \in 1 .. n BY <2>12
    <3>2. h[i - 1] = SubSeq(s, 1, d) BY <3>1, <2>2, <1>s
    <3> QED BY <3>2, <2>7, <2>8, <2>9, <2>12, <2>13
  <2> QED BY <2>11, <2>12
<1>3. \A i \in 1 .. n : h[i] = IF i = 1 THEN seqs[i] ELSE h[i - 1] \o seqs[i] BY <1>2
<1>4. Ended(parts, sep) = FlattenSeq(seqs) BY DEF Ended
<1>e. n \in 1 .. n BY <1>n
<1>5. h[n] = SubSeq(Append(line, sep), 1, B(n)) BY <1>e
<1> HIDE DEF seqs, h
<1>6. FlattenSeq(seqs) = h[n]
  <2>1. n \in Nat \ {0} BY <1>n
  <2>2. Len(seqs) = n BY <1>1
  <2> QED BY <2>1, <2>2, <1>3, Flattened, SMTT(30)
<1> QED BY <1>4, <1>5, <1>6
------------------------------------------------------------------------------
\* The strings of the shell.
Strings == Seq(Symbol)

\* What the variables hold.  cd asks split for a component, so j is not 0 there.
ShellType ==
  /\ typed \in Strings /\ input \in Strings /\ binary \in Strings /\ buf \in Strings
  /\ ans \in Seq(Strings) /\ done \in Seq(Strings)
  /\ i1 \in Nat /\ flag1 \in {0, 1} /\ j \in Nat
  /\ pwd \in Strings /\ path \in Strings /\ tempbuf \in Strings
  /\ script = NoScript \/ \E f \in DOMAIN File : script = <<f>>

\* pwd is the name of a directory; what cd works on is not empty, and as long as
\* components are appended or cut off it starts with a slash.
PwdInv ==
  /\ \E d \in Dirs : pwd = FullName(d)
  /\ pc \in {"cd", "chdir"} => tempbuf # <<>>
  /\ pc = "cd" => j # 0 /\ tempbuf[1] = Slash

\* A line, and n separators behind it.
Behind(t, line, sep, n) == Padded(t, line, sep) /\ Len(t) = Len(line) + n

\* Words that follow the first one, in their order.
Listed(words, line, sep) ==
  /\ Len(words) < Words(line, sep)
  /\ \A i \in 1 .. Len(words) : words[i] = Word(line, sep, i + 1)

\* What a program is given: one word, the directory, or all words.
Given(words) ==
  /\ words \in Seq(Strings)
  /\ \/ /\ binary = <<"sleep">> /\ typed # <<"ls">>
        /\ Len(words) <= 1 /\ Listed(words, typed, Blank)
     \/ typed = <<"ls">> /\ words = <<pwd>>
     \/ /\ typed # <<"ls">> /\ binary # <<"sleep">>
        /\ Listed(words, typed, Blank) /\ Len(words) + 1 = Words(typed, Blank)

\* Every word that was collected cost the line a blank.
WordsInv ==
  /\ pc = "start" => input = typed
  /\ pc = "script" => Branch(binary, input) = "script"
  /\ Tidy(typed, Blank) =>
       /\ pc \in {"words", "sleep", "path", "script"} => Behind(input, typed, Blank, Len(ans) + 1)
       /\ pc \in {"sleep", "path", "script"} => ans = <<>>
       /\ pc \in {"words", "sleep", "exec", "ran"} => binary = Word(typed, Blank, 1)
       /\ pc = "words" => /\ binary \in {<<"ls">>, <<"cat">>, <<"echo">>}
                          /\ Listed(ans, typed, Blank)
       /\ pc = "sleep" => binary = <<"sleep">>
       /\ pc = "exec" => \/ Given(ans)
                         \/ binary = <<"sleep">> /\ Words(typed, Blank) = 1 /\ ans = << <<>> >>
       /\ pc = "ran" => Given(argv)

\* The shell is carrying out a line.
Commanded == {"start", "words", "sleep", "exec", "ran", "path", "cd", "chdir"}

\* Which script is run, and since when.
FlagInv ==
  /\ pc \in {"shebang", "lines"} \/ flag1 = 1 => script # NoScript
  /\ pc \in Commanded \cup {"script"} /\ flag1 = 0 => script = NoScript /\ done = <<>>
  /\ pc = "prompt" => flag1 = 0

\* The lines of a script, without the last newline.
Inner(text) == SubSeq(text, 1, Len(text) - 1)

\* Every line that was carried out cost the script a newline, and so did the test
\* for the shebang; i1 counts the lines.
Carrying(text) ==
  LET l == Inner(text) IN
  /\ Listed(done, l, Newline)
  /\ pc = "shebang" => done = <<>> /\ buf = text
  /\ pc = "lines" => i1 = Len(done) + 1 /\ Behind(buf, l, Newline, Len(done) + 2)
  /\ pc \in Commanded \cup {"end"} /\ flag1 = 1 =>
       i1 = Len(done) /\ Behind(buf, l, Newline, Len(done) + 2)
  /\ pc \in {"prompt", "end"} /\ flag1 = 0 => Len(done) + 1 = Words(l, Newline)
  /\ pc \in Commanded => typed # <<>>
  /\ pc = "start" => \A k \in DOMAIN typed : typed[k] \notin DOMAIN File
  /\ pc # "script"
  /\ pc = "undefined" => ~ Plain(typed)

\* A plain script that was started at the prompt is carried out so.
ScriptInv ==
  script # NoScript /\ PlainScript(File[script[1]]) => Carrying(File[script[1]])

\* A plain line leads to nothing undefined but through a script.
UndefinedInv ==
  pc = "undefined" /\ typed # <<>> /\ Plain(typed) =>
    Branch(binary, input) = "script" \/ script # NoScript

\* The inductive invariant.
ShellInv == ShellType /\ PwdInv /\ WordsInv /\ FlagInv /\ ScriptInv /\ UndefinedInv
------------------------------------------------------------------------------
\* Two symbols make a string.
LEMMA PairSeq ==
  ASSUME NEW S, NEW a \in S, NEW b \in S
  PROVE  \E u \in Seq(S) : u = <<a, b>> /\ Len(u) = 2 /\ u[1] = a /\ u[2] = b
<1>1. <<a, b>> \in Seq(S) /\ Len(<<a, b>>) = 2 /\ <<a, b>>[1] = a /\ <<a, b>>[2] = b OBVIOUS
<1> QED BY <1>1

\* The names of directories: a name and a slash for each level.
LEMMA DirNameFacts ==
  ASSUME NEW d \in Dirs
  PROVE  /\ d \in Seq(Symbol \ {Zero, Slash}) /\ Len(d) \in Nat
         /\ DirName(d) \in Strings /\ Len(DirName(d)) = 2 * Len(d)
         /\ \A k \in 1 .. Len(d) : DirName(d)[2 * k - 1] = d[k] /\ DirName(d)[2 * k] = Slash
<1>1. d \in Seq(Symbol \ {Zero, Slash}) /\ Slash \in Symbol BY TreeAssumption
<1>2. PICK n \in Nat : n = Len(d) BY <1>1
<1>3. DOMAIN d = 1 .. n /\ \A k \in 1 .. n : d[k] \in Symbol BY <1>1, <1>2
<1> DEFINE seqs == [k \in DOMAIN d |-> <<d[k], Slash>>]
<1>4. Len(seqs) = n BY <1>3
<1>5. DirName(d) = FlattenSeq(seqs) BY DEF DirName
<1>6. CASE n = 0
  <2>1. seqs = <<>> BY <1>3, <1>6
  <2>2. DirName(d) = <<>> BY <2>1, <1>5 DEF FlattenSeq
  <2>3. <<>> \in Strings /\ Len(<<>>) = 0 BY DEF Strings
  <2> QED BY <2>2, <2>3, <1>1, <1>2, <1>6
<1>7. CASE n # 0
  <2> DEFINE D == [k \in 1 .. 2 * n |->
                     IF \E m \in 1 .. n : k = 2 * m THEN Slash
                                                   ELSE d[CHOOSE m \in 1 .. n : k = 2 * m - 1]]
  <2>1. ASSUME NEW m \in 1 .. n PROVE D[2 * m] = Slash /\ D[2 * m - 1] = d[m]
    <3>1. 2 * m \in 1 .. 2 * n /\ 2 * m - 1 \in 1 .. 2 * n OBVIOUS
    <3>2. ~ \E i \in 1 .. n : 2 * m - 1 = 2 * i OBVIOUS
    <3>3. (CHOOSE i \in 1 .. n : 2 * m - 1 = 2 * i - 1) = m OBVIOUS
    <3> QED BY <3>1, <3>2, <3>3
  <2>2. ASSUME NEW k \in 1 .. 2 * n PROVE D[k] \in Symbol
    <3>1. PICK m \in 1 .. n : k = 2 * m \/ k = 2 * m - 1
      <4>1. /\ (k + 1) \div 2 \in 1 .. n
            /\ k = 2 * ((k + 1) \div 2) \/ k = 2 * ((k + 1) \div 2) - 1
        OBVIOUS
      <4> QED BY <4>1
    <3> QED BY <3>1, <2>1, <1>1, <1>3
  <2>3. 2 * n \in Nat OBVIOUS
  <2>4. PICK s \in Strings : /\ s = D /\ Len(s) = 2 * n
                             /\ \A m \in 1 .. n : s[2 * m] = Slash /\ s[2 * m - 1] = d[m]
    <3>1. D \in [1 .. 2 * n -> Symbol] BY <2>2
    <3> HIDE DEF D
    <3>2. D \in Seq(Symbol) /\ Len(D) = 2 * n BY <3>1, <2>3
    <3> QED BY <3>2, <2>1 DEF Strings
  <2> HIDE DEF D
  <2> DEFINE h == [i \in 1 .. n |-> SubSeq(s, 1, 2 * i)]
  <2>5. ASSUME NEW i \in 1 .. n
        PROVE  h[i] = IF i = 1 THEN seqs[i] ELSE h[i - 1] \o seqs[i]
    <3>1. PICK u \in Seq(Symbol) : u = <<d[i], Slash>> /\ Len(u) = 2 /\ u[1] = d[i] /\ u[2] = Slash
      <4>1. d[i] \in Symbol /\ Slash \in Symbol BY <1>1, <1>3
      <4>2. PICK a \in Symbol : a = d[i] BY <4>1
      <4>3. \E u \in Seq(Symbol) : u = <<a, Slash>> /\ Len(u) = 2 /\ u[1] = a /\ u[2] = Slash
        BY <4>1, PairSeq
      <4> QED BY <4>2, <4>3
    <3>2. PICK b \in Nat, e \in Nat : b = 2 * i /\ e = 2 * (i - 1) /\ b - e = 2
      <4>1. 2 * i \in Nat /\ 2 * (i - 1) \in Nat /\ 2 * i - 2 * (i - 1) = 2 OBVIOUS
      <4> QED BY <4>1
    <3>3. b \in 0 .. Len(s) /\ e \in 0 .. b BY <3>2, <2>4
    <3>4. \A k \in 1 .. b - e : u[k] = s[e + k]
      <4>1. s[e + 1] = d[i] /\ s[e + 2] = Slash
        <5>1. e + 1 = 2 * i - 1 /\ e + 2 = 2 * i BY <3>2
        <5> QED BY <5>1, <2>4
      <4>2. \A k \in 1 .. b - e : k = 1 \/ k = 2 BY <3>2
      <4> QED BY <4>1, <4>2, <3>1
    <3>5. Len(u) = b - e BY <3>1, <3>2
    <3>6. s \in Seq(Symbol) BY DEF Strings
    <3>7. SubSeq(s, 1, b) = SubSeq(s, 1, e) \o u BY ONLY <3>3, <3>4, <3>5, <3>6, GlueSeq
    <3>8. h[i] = SubSeq(s, 1, b) /\ seqs[i] = u BY <3>1, <3>2, <1>3
    <3>9. CASE i = 1
      <4>1. e = 0 BY <3>9, <3>2
      <4>2. SubSeq(s, 1, 0) = <<>> /\ <<>> \o u = u BY <3>6
      <4> QED BY <4>1, <4>2, <3>7, <3>8, <3>9
    <3>10. CASE i # 1
      <4>1. i - 1 \in 1 .. n BY <3>10
      <4>2. h[i - 1] = SubSeq(s, 1, e) BY <4>1, <3>2
      <4> QED BY <4>2, <3>7, <3>8, <3>10
    <3> QED BY <3>9, <3>10
  <2>6. h[n] = s
    <3>1. n \in 1 .. n BY <1>7
    <3>2. h[n] = SubSeq(s, 1, Len(s)) BY <3>1, <2>4
    <3>3. SubSeq(s, 1, Len(s)) = s BY DEF Strings
    <3> QED BY <3>2, <3>3
  <2> HIDE DEF h, seqs
  <2>7. FlattenSeq(seqs) = h[n]
    <3>1. n \in Nat \ {0} BY <1>7
    <3>2. \A i \in 1 .. n : h[i] = IF i = 1 THEN seqs[i] ELSE h[i - 1] \o seqs[i] BY <2>5
    <3> QED BY ONLY <3>1, <3>2, <1>4, Flattened
  <2> QED BY <2>4, <2>6, <2>7, <1>1, <1>2, <1>5
<1> QED BY <1>6, <1>7

\* Directories of the same name are the same.
LEMMA DirNameInjective ==
  ASSUME NEW d \in Dirs, NEW e \in Dirs, DirName(d) = DirName(e)
  PROVE  d = e
<1>1. d \in Seq(Symbol \ {Zero, Slash}) /\ e \in Seq(Symbol \ {Zero, Slash}) BY DirNameFacts
<1>2. Len(d) = Len(e)
  <2>1. PICK n \in Nat, m \in Nat : n = Len(d) /\ m = Len(e) BY DirNameFacts
  <2>2. 2 * n = 2 * m BY <2>1, DirNameFacts
  <2> QED BY <2>1, <2>2
<1>3. ASSUME NEW k \in 1 .. Len(d) PROVE d[k] = e[k]
  <2>1. DirName(d)[2 * k - 1] = d[k] BY DirNameFacts
  <2>2. k \in 1 .. Len(e) BY <1>2
  <2>3. DirName(e)[2 * k - 1] = e[k] BY <2>2, DirNameFacts
  <2> QED BY <2>1, <2>3
<1> QED BY <1>1, <1>2, <1>3

\* pwd has at least the root, a slash before it and one at the end.
LEMMA FullNameFacts ==
  ASSUME NEW d \in Dirs
  PROVE  /\ FullName(d) \in Strings /\ Len(FullName(d)) = 3 + 2 * Len(d)
         /\ FullName(d)[1] = Slash /\ FullName(d)[2] = "rootfs" /\ FullName(d)[3] = Slash
         /\ \A k \in 1 .. 2 * Len(d) : FullName(d)[3 + k] = DirName(d)[k]
         /\ FullName(d)[3 + 2 * Len(d)] = Slash
         /\ FullName(d) = RootFs \o (<<Slash>> \o DirName(d))
<1>1. PICK n \in Nat : n = Len(d) BY DirNameFacts
<1>2. PICK x \in Seq(Symbol) : x = DirName(d) /\ Len(x) = 2 * n BY <1>1, DirNameFacts DEF Strings
<1>3. PICK y \in Seq(Symbol) : y = RootFs \o <<Slash>> /\ Len(y) = 3
                               /\ y[1] = Slash /\ y[2] = "rootfs" /\ y[3] = Slash
  <2>1. Slash \in Symbol /\ "rootfs" \in Symbol BY TreeAssumption
  <2>2. PICK r \in Seq(Symbol) : /\ r = RootFs /\ Len(r) = 2 /\ r[1] = Slash /\ r[2] = "rootfs"
    BY <2>1, PairSeq DEF RootFs
  <2>3. r \o <<Slash>> = Append(r, Slash) BY <2>1
  <2>5. /\ Append(r, Slash) \in Seq(Symbol) /\ Len(Append(r, Slash)) = Len(r) + 1
        /\ Append(r, Slash)[Len(r) + 1] = Slash
        /\ \A i \in 1 .. Len(r) : Append(r, Slash)[i] = r[i]
    BY <2>1
  <2>4. /\ Append(r, Slash) \in Seq(Symbol) /\ Len(Append(r, Slash)) = 3
        /\ Append(r, Slash)[1] = Slash /\ Append(r, Slash)[2] = "rootfs"
        /\ Append(r, Slash)[3] = Slash
    BY <2>2, <2>5
  <2> QED BY <2>2, <2>3, <2>4
<1>4. FullName(d) = y \o x BY <1>2, <1>3 DEF FullName
<1>5. y \o x \in Seq(Symbol) /\ Len(y \o x) = 3 + 2 * n
  <2>1. y \o x \in Seq(Symbol) /\ Len(y \o x) = Len(y) + Len(x) OBVIOUS
  <2> QED BY <2>1, <1>2, <1>3
<1>6. \A k \in 1 .. 3 : (y \o x)[k] = y[k] BY <1>3
<1>7. ASSUME NEW k \in 1 .. 2 * n PROVE (y \o x)[3 + k] = x[k]
  <2>1. 3 + k \in 1 .. Len(y) + Len(x) /\ 3 + k > Len(y) /\ 3 + k - Len(y) = k BY <1>2, <1>3
  <2> QED BY <2>1
<1>8. (y \o x)[3 + 2 * n] = Slash
  <2>1. CASE n = 0 BY <2>1, <1>3, <1>6
  <2>2. CASE n # 0
    <3>1. 2 * n \in 1 .. 2 * n /\ n \in 1 .. n BY <2>2
    <3>2. x[2 * n] = Slash BY <3>1, <1>1, <1>2, DirNameFacts
    <3> QED BY <3>1, <3>2, <1>7
  <2> QED BY <2>1, <2>2
<1>9. y \o x = RootFs \o (<<Slash>> \o x)
  <2>1. Slash \in Symbol /\ "rootfs" \in Symbol BY TreeAssumption
  <2>2. PICK r \in Seq(Symbol), q \in Seq(Symbol) : r = RootFs /\ q = <<Slash>>
    <3>1. <<Slash>> \in Seq(Symbol) BY <2>1
    <3>2. RootFs \in Seq(Symbol) BY <2>1, PairSeq DEF RootFs
    <3> QED BY <3>1, <3>2
  <2>3. (r \o q) \o x = r \o (q \o x) OBVIOUS
  <2> QED BY <2>2, <2>3, <1>3
<1>10. PICK z \in Seq(Symbol) : z = y \o x BY <1>5
<1>11. /\ Len(z) = 3 + 2 * n /\ \A k \in 1 .. 3 : z[k] = y[k]
       /\ \A k \in 1 .. 2 * n : z[3 + k] = x[k]
       /\ z[3 + 2 * n] = Slash /\ z = RootFs \o (<<Slash>> \o x)
  BY ONLY <1>5, <1>6, <1>7, <1>8, <1>9, <1>10
<1>12. z[1] = Slash /\ z[2] = "rootfs" /\ z[3] = Slash BY <1>3, <1>11
<1> QED BY <1>1, <1>2, <1>4, <1>10, <1>11, <1>12 DEF Strings
------------------------------------------------------------------------------
\* bin/ls, given the name of a directory, opens that one and no other.
LEMMA LsOpens ==
  ASSUME NEW d \in Dirs
  PROVE  Opened(LsPath(FullName(d))) = {d}
<1>1. PICK n \in Nat : n = Len(d) BY DirNameFacts
<1>2. PICK x \in Seq(Symbol) : x = DirName(d) /\ Len(x) = 2 * n BY <1>1, DirNameFacts DEF Strings
<1>3. PICK z \in Seq(Symbol) : /\ z = FullName(d) /\ Len(z) = 3 + 2 * n
                               /\ \A k \in 1 .. 2 * n : z[3 + k] = x[k]
  BY <1>1, <1>2, FullNameFacts DEF Strings
<1>s. Slash \in Symbol BY TreeAssumption
<1>4. PICK q \in Seq(Symbol) : /\ q = Append(z, Slash) /\ Len(q) = 4 + 2 * n
                               /\ \A k \in 1 .. 3 + 2 * n : q[k] = z[k]
  <2>1. /\ Append(z, Slash) \in Seq(Symbol) /\ Len(Append(z, Slash)) = Len(z) + 1
        /\ \A k \in 1 .. Len(z) : Append(z, Slash)[k] = z[k]
    BY <1>s
  <2>2. Len(Append(z, Slash)) = 4 + 2 * n BY <2>1, <1>3
  <2> QED BY <2>1, <2>2, <1>3
<1>5. SubSeq(q, 4, Len(q) - 1) = x
  <2>1. PICK M \in Nat : M = 3 + 2 * n /\ Len(q) - 1 = M /\ Len(x) = M - 3
    <3>1. 3 + 2 * n \in Nat /\ Len(q) - 1 = 3 + 2 * n /\ Len(x) = (3 + 2 * n) - 3 BY <1>2, <1>4
    <3> QED BY <3>1
  <2>2. PICK v \in Seq(Symbol) : /\ v = SubSeq(q, 4, M) /\ Len(v) = M - 3
                                 /\ \A k \in 1 .. M - 3 : v[k] = q[3 + k]
    <3>1. /\ SubSeq(q, 4, M) \in Seq(Symbol) /\ Len(SubSeq(q, 4, M)) = M - 3
          /\ \A k \in 1 .. M - 3 : SubSeq(q, 4, M)[k] = q[3 + k]
      BY <2>1
    <3> QED BY <3>1
  <2>3. ASSUME NEW k \in 1 .. M - 3 PROVE v[k] = x[k]
    <3>1. 3 + k \in 1 .. 3 + 2 * n /\ k \in 1 .. 2 * n BY <2>1
    <3>2. q[3 + k] = z[3 + k] BY <3>1, <1>4
    <3>3. z[3 + k] = x[k] BY <3>1, <1>3
    <3> QED BY <3>2, <3>3, <2>2
  <2>4. v = x BY <2>1, <2>2, <2>3
  <2> QED BY <2>1, <2>2, <2>4
<1>6. LsPath(FullName(d)) = IF x = <<>> THEN <<Slash>> ELSE x
  BY <1>3, <1>4, <1>5 DEF LsPath, Marked
<1>7. CASE n = 0
  <2>1. x = <<>> BY <1>2, <1>7
  <2>2. d = <<>>
    <3>1. d \in Seq(Symbol \ {Zero, Slash}) BY DirNameFacts
    <3>2. Len(d) = 0 BY <1>1, <1>7
    <3> QED BY ONLY <3>1, <3>2
  <2>3. Opened(<<Slash>>) = {<<>>} BY DEF Opened
  <2> QED BY <2>1, <2>2, <2>3, <1>6
<1>8. CASE n # 0
  <2>1. x # <<>> /\ x # <<Slash>> BY <1>2, <1>8
  <2>2. x[2 * n] = Slash
    <3>1. n \in 1 .. n BY <1>8
    <3> QED BY <3>1, <1>1, <1>2, DirNameFacts
  <2>3. Slashed(x) = x BY <2>1, <2>2, <1>2 DEF Slashed, Last
  <2>4. d # <<>> BY <1>1, <1>8
  <2>5. ASSUME NEW e \in Dirs \ {<<>>} PROVE DirName(e) = x <=> e = d
    BY <1>2, DirNameInjective
  <2>6. Opened(x) = {e \in Dirs \ {<<>>} : DirName(e) = x} BY <2>1, <2>3 DEF Opened
  <2>7. {e \in Dirs \ {<<>>} : DirName(e) = x} = {d} BY <2>4, <2>5
  <2> QED BY <2>1, <2>6, <2>7, <1>6
<1> QED BY <1>7, <1>8

\* Cutting off the last component leaves a path from the root.
LEMMA ParentFacts ==
  ASSUME NEW p \in Strings, p # <<>>, p[1] = Slash
  PROVE  Parent(p) \in Strings /\ Parent(p) # <<>> /\ Parent(p)[1] = Slash
<1>1. PICK L \in Nat : L = Len(p) /\ L > 0 /\ DOMAIN p = 1 .. L BY DEF Strings
<1>s. Slash \in Symbol BY TreeAssumption
<1> DEFINE IsLast(k) == p[k] = Slash /\ \A m \in k + 1 .. Len(p) : p[m] # Slash
           T == {i \in 0 .. L - 1 : p[L - i] = Slash}
<1>2. \E k \in DOMAIN p : IsLast(k)
  <2>1. T \in SUBSET Nat BY <1>1
  <2>2. L - 1 \in T
    <3>1. L - 1 \in 0 .. L - 1 /\ L - (L - 1) = 1 BY <1>1
    <3> QED BY <3>1
  <2>3. PICK i \in T : \A k \in T : i <= k BY <2>1, <2>2, LeastNat
  <2>4. PICK k \in 1 .. L : k = L - i /\ p[k] = Slash
    <3>1. L - i \in 1 .. L /\ p[L - i] = Slash BY <2>3, <1>1
    <3> QED BY <3>1
  <2>5. ASSUME NEW m \in k + 1 .. L, p[m] = Slash PROVE FALSE
    <3>1. L - m \in 0 .. L - 1 /\ L - (L - m) = m /\ ~ (i <= L - m) BY <2>3, <2>4
    <3>2. L - m \in T BY <3>1, <2>5
    <3> QED BY <3>1, <3>2, <2>3
  <2> QED BY <2>4, <2>5, <1>1
<1>3. PICK k \in 1 .. L : k = CHOOSE n \in DOMAIN p : IsLast(n)
  <2>1. (CHOOSE n \in DOMAIN p : IsLast(n)) \in DOMAIN p BY <1>2
  <2> QED BY <2>1, <1>1
<1>4. Parent(p) = IF k = 1 THEN <<Slash>> ELSE SubSeq(p, 1, k - 1) BY <1>3 DEF Parent
<1>5. CASE k = 1
  <2>1. <<Slash>> \in Seq(Symbol) /\ <<Slash>> # <<>> /\ <<Slash>>[1] = Slash BY <1>s
  <2> QED BY <2>1, <1>4, <1>5 DEF Strings
<1>6. CASE k # 1
  <2>1. PICK m \in 1 .. L : m = k - 1
    <3>1. k - 1 \in 1 .. L BY <1>6
    <3> QED BY <3>1
  <2>2. /\ SubSeq(p, 1, m) \in Seq(Symbol) /\ Len(SubSeq(p, 1, m)) = m
        /\ \A i \in 1 .. m : SubSeq(p, 1, m)[i] = p[i]
    BY <1>1 DEF Strings
  <2>3. SubSeq(p, 1, m) # <<>> /\ SubSeq(p, 1, m)[1] = Slash BY <2>2
  <2> QED BY <2>1, <2>2, <2>3, <1>4, <1>6 DEF Strings
<1> QED BY <1>5, <1>6

\* What sbush makes of a path starts with a slash.
LEMMA OneSlashFacts ==
  ASSUME NEW p \in Strings, p # <<>>
  PROVE  OneSlash(p) \in Strings /\ OneSlash(p) # <<>> /\ OneSlash(p)[1] = Slash
<1>s. Slash \in Symbol BY TreeAssumption
<1>p. p \in Seq(Symbol) BY DEF Strings
<1>1. PICK q \in Seq(Symbol) :
        /\ q = IF Len(p) > 1 /\ p[1] = Slash /\ p[2] = Slash THEN Tail(p) ELSE p
        /\ q # <<>>
  <2>1. CASE Len(p) > 1 /\ p[1] = Slash /\ p[2] = Slash
    <3>1. Tail(p) \in Seq(Symbol) /\ Len(Tail(p)) = Len(p) - 1 BY <1>p
    <3>2. PICK t \in Seq(Symbol) : t = Tail(p) /\ Len(t) = Len(p) - 1 BY <3>1
    <3>3. t # <<>>
      <4>1. Len(t) # 0 BY <3>2, <2>1, <1>p
      <4> QED BY <4>1
    <3> QED BY <3>2, <3>3, <2>1
  <2>2. CASE ~ (Len(p) > 1 /\ p[1] = Slash /\ p[2] = Slash) BY <2>2, <1>p
  <2> QED BY <2>1, <2>2
<1>2. OneSlash(p) = IF q[1] # Slash THEN <<Slash>> \o q ELSE q BY <1>1 DEF OneSlash
<1>3. <<Slash>> \o q \in Seq(Symbol) /\ <<Slash>> \o q # <<>> /\ (<<Slash>> \o q)[1] = Slash
  <2>1. PICK u \in Seq(Symbol) : u = <<Slash>> /\ Len(u) = 1 /\ u[1] = Slash
    <3>1. <<Slash>> \in Seq(Symbol) /\ Len(<<Slash>>) = 1 /\ <<Slash>>[1] = Slash BY <1>s
    <3> QED BY <3>1
  <2>2. /\ u \o q \in Seq(Symbol) /\ Len(u \o q) = Len(u) + Len(q)
        /\ \A i \in 1 .. Len(u) : (u \o q)[i] = u[i]
    OBVIOUS
  <2>3. u \o q # <<>> /\ (u \o q)[1] = Slash BY <2>1, <2>2
  <2> QED BY <2>1, <2>2, <2>3
<1> QED BY <1>1, <1>2, <1>3 DEF Strings

\* The first component, if it is one symbol, is the second symbol of the path,
\* and what follows is a slash, a 0 that split has passed over, or nothing.
LEMMA FirstComponent ==
  ASSUME NEW p \in Strings, p # <<>>, p[1] = Slash, NEW n, n # Zero, Split(1, p, Slash) = <<n>>
  PROVE  Len(p) > 2 => p[3] \in {Slash, Zero}
<1>s. Slash \in Symbol BY TreeAssumption
<1>0. p \in Seq(Symbol) BY DEF Strings
<1>1. PICK L \in Nat : L = Len(p) /\ L > 0 BY <1>0
<1>2. PICK s \in Seq(Symbol) : /\ s = Body(p, Slash) /\ Len(s) = L
                               /\ \A i \in 1 .. L - 1 : s[i] = p[i + 1]
  <2>1. PICK t \in Seq(Symbol) : /\ t = Append(p, Slash) /\ Len(t) = L + 1
                                 /\ \A i \in 1 .. L : t[i] = p[i]
    <3>1. /\ Append(p, Slash) \in Seq(Symbol) /\ Len(Append(p, Slash)) = L + 1
          /\ \A i \in 1 .. L : Append(p, Slash)[i] = p[i]
      BY <1>0, <1>1, <1>s
    <3> QED BY <3>1
  <2>2. t # <<>> /\ Head(t) = Slash BY <2>1, <1>1
  <2>3. Body(p, Slash) = Tail(t) BY <2>1, <2>2 DEF Body, Marked
  <2>4. /\ Tail(t) \in Seq(Symbol) /\ Len(Tail(t)) = L
        /\ \A i \in 1 .. L : Tail(t)[i] = t[i + 1]
    BY <2>1, <2>2
  <2>5. ASSUME NEW i \in 1 .. L - 1 PROVE Tail(t)[i] = p[i + 1]
    <3>1. i \in 1 .. L /\ i + 1 \in 1 .. L OBVIOUS
    <3> QED BY <3>1, <2>1, <2>4
  <2> QED BY <2>3, <2>4, <2>5
<1>3. PICK c \in Nat : c = Count(s, Slash, L) BY CountType
<1>4. c > 0 /\ Split(1, p, Slash) = Piece(s, 1, Place(s, Slash, 1) - 1)
  <2>1. Pieces(p, Slash) = c BY <1>2, <1>3 DEF Pieces
  <2>2. ~ (1 >= (IF c = 1 THEN 2 ELSE c)) BY <2>1, <1>2 DEF Split
  <2>3. c > 0 BY <2>2
  <2> QED BY <2>1, <2>2, <2>3, <1>2 DEF Split
<1>5. PICK b \in 1 .. L : b = Place(s, Slash, 1) /\ s[b] = Slash
  <2>1. 1 \in 1 .. Count(s, Slash, Len(s)) BY <1>2, <1>3, <1>4
  <2> QED BY <2>1, <1>2, PlaceFacts
<1>6. PICK hi \in Nat : hi = b - 1 BY <1>5
<1>7. PICK z \in Nat : z = Count(s, Zero, hi) /\ z <= hi BY CountType
<1>8. Piece(s, 1, hi) = SubSeq(s, 1, hi - z)
  <2>1. Count(s, Zero, 0) = 0 BY CountZero
  <2>2. 1 - 1 = 0 /\ 0 - 0 + 1 = 1 OBVIOUS
  <2> QED BY <2>1, <2>2, <1>7 DEF Piece
<1>9. PICK v \in Seq(Symbol) : /\ v = SubSeq(s, 1, hi - z) /\ Len(v) = hi - z
                               /\ hi - z > 0 => v[1] = s[1]
  <2>1. hi - z \in 0 .. Len(s) BY <1>2, <1>5, <1>6, <1>7
  <2>2. PICK m \in 0 .. Len(s) : m = hi - z BY <2>1
  <2>3. /\ SubSeq(s, 1, m) \in Seq(Symbol) /\ Len(SubSeq(s, 1, m)) = m
        /\ m > 0 => SubSeq(s, 1, m)[1] = s[1]
    BY <2>2
  <2> QED BY <2>2, <2>3
<1>10. v = <<n>> BY <1>4, <1>5, <1>6, <1>8, <1>9
<1>11. hi - z = 1 /\ s[1] = n
  <2>1. Len(v) = 1 /\ v[1] = n BY <1>10
  <2> QED BY <2>1, <1>9
<1>12. CASE hi = 1
  <2>1. b = 2 BY <1>6, <1>12
  <2>2. ASSUME L > 2 PROVE p[3] = Slash
    <3>1. 2 \in 1 .. L - 1 BY <2>2
    <3>2. s[2] = p[2 + 1] BY <3>1, <1>2
    <3> QED BY <3>2, <2>1, <1>5
  <2> QED BY <2>2, <1>1
<1>13. CASE hi # 1
  <2>1. hi > 1 BY <1>7, <1>11, <1>13
  <2>2. s[2] = Zero
    <3>1. ASSUME s[2] # Zero PROVE FALSE
      <4>1. {i \in 1 .. hi : s[i] = Zero} \subseteq 3 .. hi
        <5>1. \A i \in 1 .. hi : i = 1 \/ i = 2 \/ i \in 3 .. hi OBVIOUS
        <5> QED BY <5>1, <3>1, <1>11
      <4>2. IsFiniteSet(3 .. hi) /\ Cardinality(3 .. hi) = hi - 2
        <5>1. IsFiniteSet(3 .. hi) /\ Cardinality(3 .. hi) = IF 3 > hi THEN 0 ELSE hi - 3 + 1
          BY FS_Interval
        <5> QED BY <5>1, <2>1
      <4>3. Cardinality({i \in 1 .. hi : s[i] = Zero}) <= Cardinality(3 .. hi)
        BY <4>1, <4>2, FS_Subset
      <4>4. z <= hi - 2 BY <4>2, <4>3, <1>7 DEF Count
      <4> QED BY <4>4, <1>7, <1>11
    <3> QED BY <3>1
  <2>3. ASSUME L > 2 PROVE p[3] = Zero
    <3>1. 2 \in 1 .. L - 1 BY <2>3
    <3>2. s[2] = p[2 + 1] BY <3>1, <1>2
    <3>3. 2 + 1 = 3 OBVIOUS
    <3> QED BY ONLY <3>2, <3>3, <2>2
  <2> QED BY <2>3, <1>1
<1> QED BY <1>12, <1>13

\* What chdir is asked for starts with a slash, or is nothing, or starts with a 0,
\* with which no directory's name does.
LEMMA NewPwdFacts ==
  ASSUME tempbuf \in Strings, tempbuf # <<>>
  PROVE  NewPwd \in Strings /\ (NewPwd # <<>> => NewPwd[1] \in {Slash, Zero})
<1>1. PICK x \in Seq(Symbol) : x = OneSlash(tempbuf) /\ x # <<>> /\ x[1] = Slash
  BY OneSlashFacts DEF Strings
<1>2. CASE Split(1, x, Slash) \notin {<<n>> : n \in SixLetters}
  <2>1. NewPwd = x BY <1>1, <1>2 DEF NewPwd, WithoutRoot
  <2> QED BY <2>1, <1>1 DEF Strings
<1>3. CASE Split(1, x, Slash) \in {<<n>> : n \in SixLetters}
  <2>1. PICK n \in SixLetters : Split(1, x, Slash) = <<n>> BY <1>3
  <2>2. n # Zero BY TreeAssumption
  <2>3. Len(x) > 2 => x[3] \in {Slash, Zero}
    <3>1. x \in Strings BY DEF Strings
    <3> QED BY <3>1, <2>1, <2>2, <1>1, FirstComponent
  <2>4. NewPwd = SubSeq(x, 3, Len(x)) BY <1>1, <1>3 DEF NewPwd, WithoutRoot
  <2>5. PICK L \in Nat : L = Len(x) OBVIOUS
  <2>6. CASE L > 2
    <3>1. /\ SubSeq(x, 3, L) \in Seq(Symbol) /\ SubSeq(x, 3, L)[1] = x[3] BY <2>5, <2>6
    <3> QED BY <3>1, <2>3, <2>4, <2>5, <2>6 DEF Strings
  <2>7. CASE L <= 2
    <3>1. SubSeq(x, 3, L) = <<>> BY <2>5, <2>7
    <3>2. <<>> \in Seq(Symbol) OBVIOUS
    <3> QED BY <3>1, <3>2, <2>4, <2>5 DEF Strings
  <2> QED BY <2>5, <2>6, <2>7
<1> QED BY <1>2, <1>3

\* After chdir, pwd is again the name of a directory.
LEMMA ChdirNames ==
  ASSUME ShellType, PwdInv, Chdir
  PROVE  \E d \in Dirs : pwd' = FullName(d)
<1>1. NewPwd \in Strings /\ (NewPwd # <<>> => NewPwd[1] \in {Slash, Zero})
  BY NewPwdFacts DEF ShellType, PwdInv, Chdir, EndCd
<1>s. Slash \in Symbol /\ Slash # Zero BY TreeAssumption DEF Slash, Zero
<1>2. PICK x \in Seq(Symbol) : x = NewPwd /\ (x # <<>> => x[1] \in {Slash, Zero})
  BY <1>1 DEF Strings
<1>3. PICK y \in Seq(Symbol) : y = Slashed(x) /\ y # <<>> /\ (x # <<>> => y[1] = x[1])
                               /\ (x = <<>> => y = <<Slash>>)
  <2>1. PICK t \in Seq(Symbol) : t = Append(x, Slash) /\ Len(t) = Len(x) + 1
                                 /\ (x # <<>> => t[1] = x[1]) /\ (x = <<>> => t = <<Slash>>)
    <3>1. /\ Append(x, Slash) \in Seq(Symbol) /\ Len(Append(x, Slash)) = Len(x) + 1
          /\ x # <<>> => Append(x, Slash)[1] = x[1]
      BY <1>s
    <3>2. x = <<>> => Append(x, Slash) = <<Slash>> OBVIOUS
    <3> QED BY <3>1, <3>2
  <2>2. t # <<>> BY <2>1
  <2> QED BY <2>1, <2>2 DEF Slashed
<1>4. pwd' = IF x = <<Slash>> THEN RootFs \o x
             ELSE IF IsDir(IF x # <<>> /\ x[1] = Slash THEN Tail(y) ELSE y)
             THEN RootFs \o y ELSE pwd
  BY <1>2, <1>3 DEF Chdir
<1>5. CASE x = <<Slash>>
  <2>1. <<>> \in Dirs
    <3>1. <<"bin">> \in Dirs /\ <<"bin">> # <<>> BY TreeAssumption
    <3>2. Front(<<"bin">>) \in Dirs BY <3>1, TreeAssumption
    <3>3. Front(<<"bin">>) = <<>> BY DEF Front
    <3> QED BY <3>2, <3>3
  <2>2. DirName(<<>>) = <<>>
    <3>1. DirName(<<>>) \in Seq(Symbol) /\ Len(DirName(<<>>)) = 2 * Len(<<>>)
      BY <2>1, DirNameFacts DEF Strings
    <3>2. Len(<<>>) = 0 OBVIOUS
    <3>3. Len(DirName(<<>>)) = 0 BY <3>1, <3>2
    <3> QED BY <3>1, <3>3
  <2>3. <<Slash>> \o <<>> = <<Slash>> BY <1>s
  <2>4. FullName(<<>>) = RootFs \o <<Slash>> BY <2>1, <2>2, <2>3, FullNameFacts
  <2> QED BY <2>1, <2>4, <1>4, <1>5
<1>6. CASE x # <<Slash>> /\ x # <<>> /\ x[1] = Slash /\ IsDir(Tail(y))
  <2>1. PICK d \in Dirs : Tail(y) = DirName(d) BY <1>6 DEF IsDir
  <2>2. y = <<Slash>> \o Tail(y)
    <3>1. y[1] = Slash BY <1>3, <1>6
    <3>2. y = <<Head(y)>> \o Tail(y) BY <1>3
    <3>3. Head(y) = y[1] BY <1>3
    <3> QED BY <3>1, <3>2, <3>3
  <2>3. FullName(d) = RootFs \o y BY <2>1, <2>2, FullNameFacts
  <2> QED BY <2>3, <1>4, <1>6
<1>7. CASE ~ (x # <<>> /\ x[1] = Slash) /\ IsDir(y)
  <2>1. PICK d \in Dirs \ {<<>>} : y = DirName(d) BY <1>7 DEF IsDir
  <2>2. PICK n \in Nat : n = Len(d) /\ n > 0 BY <2>1, DirNameFacts
  <2>3. y[1] = d[1] /\ d[1] \notin {Zero, Slash}
    <3>1. 1 \in 1 .. Len(d) /\ 2 * 1 - 1 = 1 BY <2>2
    <3>2. DirName(d)[2 * 1 - 1] = d[1] BY <3>1, DirNameFacts
    <3>3. d \in Seq(Symbol \ {Zero, Slash}) BY DirNameFacts
    <3> QED BY <3>1, <3>2, <3>3, <2>1
  <2>4. y[1] \in {Slash, Zero}
    <3>1. CASE x = <<>>
      <4>1. y = <<Slash>> BY <3>1, <1>3
      <4> QED BY <4>1
    <3>2. CASE x # <<>> BY <3>2, <1>2, <1>3
    <3> QED BY <3>1, <3>2
  <2> QED BY <2>3, <2>4
<1>8. CASE x # <<Slash>> /\ ~ IsDir(IF x # <<>> /\ x[1] = Slash THEN Tail(y) ELSE y)
  BY <1>4, <1>8 DEF PwdInv
<1>9. x = <<>> => x # <<Slash>> OBVIOUS
<1> QED BY <1>5, <1>6, <1>7, <1>8, <1>9
------------------------------------------------------------------------------
\* Sequences of the same length and elements are equal.
LEMMA SameSeq ==
  ASSUME NEW S, NEW x \in Seq(S), NEW y \in Seq(S), Len(x) = Len(y),
         \A k \in 1 .. Len(x) : x[k] = y[k]
  PROVE  x = y
OBVIOUS

\* A plain line is tidy, and split has strings for twice its words.
LEMMA PlainFacts ==
  ASSUME NEW line \in Strings, line # <<>>, Plain(line)
  PROVE  Tidy(line, Blank) /\ 2 * Words(line, Blank) <= Entries
<1>1. line \in Seq(Symbol) BY DEF Strings
<1>2. PICK L \in Nat : L = Len(line) /\ DOMAIN line = 1 .. L BY <1>1
<1>3. Count(line, Blank, L) = Cardinality({k \in DOMAIN line : line[k] = Blank})
  BY <1>2 DEF Count
<1>4. Count(line, Blank, L) \in Nat BY CountType
<1>5. 2 * Words(line, Blank) <= Entries BY <1>2, <1>3, <1>4 DEF Words, Plain
<1>6. Tidy(line, Blank)
  <2>1. /\ line[1] # Blank /\ line[L] # Blank
        /\ \A k \in 1 .. L : line[k] # Zero /\ (line[k] = Blank => line[k + 1] # Blank)
    BY <1>2 DEF Plain
  <2>2. \A k \in 1 .. L - 1 : k \in 1 .. L OBVIOUS
  <2> QED BY <2>1, <2>2, <1>2 DEF Tidy
<1> QED BY <1>5, <1>6

\* A line of words with one separator more behind it.
LEMMA BehindMarked ==
  ASSUME NEW S, NEW line \in Seq(S), NEW sep \in S, NEW t \in Seq(S), NEW n \in Nat,
         Behind(t, line, sep, n)
  PROVE  /\ Marked(t, sep) \in Seq(S) /\ Behind(Marked(t, sep), line, sep, n + 1)
<1>0. Len(line) \in Nat /\ Len(t) \in Nat OBVIOUS
<1>1. PICK L \in Nat, M \in Nat : L = Len(line) /\ M = Len(t) BY <1>0
<1>2. /\ M = L + n /\ \A k \in 1 .. L : t[k] = line[k]
      /\ \A k \in L + 1 .. M : t[k] = sep
  BY <1>1 DEF Behind, Padded
<1>3. PICK s \in Seq(S) : /\ s = Append(t, sep) /\ Len(s) = M + 1 /\ s[M + 1] = sep
                          /\ \A i \in 1 .. M : s[i] = t[i]
  <2>1. /\ Append(t, sep) \in Seq(S) /\ Len(Append(t, sep)) = M + 1
        /\ Append(t, sep)[M + 1] = sep /\ \A i \in 1 .. M : Append(t, sep)[i] = t[i]
    BY <1>1
  <2> QED BY <2>1
<1>4. Marked(t, sep) = s BY <1>3 DEF Marked
<1>5. ASSUME NEW k \in 1 .. L PROVE s[k] = line[k] BY <1>2, <1>3
<1>6. ASSUME NEW k \in L + 1 .. M + 1 PROVE s[k] = sep BY <1>2, <1>3
<1>7. Len(s) = L + (n + 1) /\ Len(s) >= L BY <1>2, <1>3
<1> QED BY <1>1, <1>3, <1>4, <1>5, <1>6, <1>7 DEF Behind, Padded

\* A line, and nothing behind it.
LEMMA BehindItself ==
  ASSUME NEW S, NEW line \in Seq(S), NEW sep
  PROVE  Behind(line, line, sep, 0)
<1>1. PICK L \in Nat : L = Len(line) OBVIOUS
<1>2. L + 1 .. L = {} OBVIOUS
<1> QED BY <1>1, <1>2 DEF Behind, Padded

\* What split makes of a line of words and n separators behind it.
LEMMA SplitBehind ==
  ASSUME NEW S, NEW line \in Seq(S), NEW sep \in S, sep # Zero, Tidy(line, sep),
         NEW t \in Seq(S), NEW n \in Nat, Behind(t, line, sep, n)
  PROVE  /\ Words(line, sep) \in Nat \ {0}
         /\ Pieces(t, sep) = Words(line, sep) + n
         /\ Split(Words(line, sep) + 1, t, sep) = <<>>
         /\ \A k \in 1 .. Words(line, sep) :
              k < Words(line, sep) \/ k = 1 \/ n > 0 =>
                Split(k, t, sep) = Word(line, sep, k)
<1>1. Padded(t, line, sep) /\ Len(t) = Len(line) + n BY DEF Behind
<1>2. Len(t) \in Nat /\ Len(line) \in Nat OBVIOUS
<1>3. Len(t) - Len(line) = n /\ (Len(t) > Len(line) <=> n > 0) BY <1>1, <1>2
<1>4. /\ Pieces(t, sep) = Words(line, sep) + (Len(t) - Len(line))
      /\ Split(Words(line, sep) + 1, t, sep) = <<>>
      /\ \A k \in 1 .. Words(line, sep) :
           k < Words(line, sep) \/ k = 1 \/ Len(t) > Len(line) =>
             Split(k, t, sep) = Word(line, sep, k)
  BY <1>1, SplitTidy
<1>5. Words(line, sep) \in Nat \ {0} BY BoundFacts
<1> QED BY <1>3, <1>4, <1>5

\* A line of one word is that word.
LEMMA OneWord ==
  ASSUME NEW S, NEW line \in Seq(S), NEW sep \in S, Tidy(line, sep)
  PROVE  Words(line, sep) = 1 => Word(line, sep, 1) = line
<1>1. ASSUME Words(line, sep) = 1 PROVE Word(line, sep, 1) = line
  <2>1. Bound(line, sep, 0) = 0 /\ Bound(line, sep, 1) = Len(line) + 1 BY <1>1, BoundFacts
  <2>2. Word(line, sep, 1) = SubSeq(line, 0 + 1, (Len(line) + 1) - 1)
    <3>1. 1 - 1 = 0 OBVIOUS
    <3> QED BY <3>1, <2>1 DEF Word
  <2>3. 0 + 1 = 1 /\ (Len(line) + 1) - 1 = Len(line) OBVIOUS
  <2>4. SubSeq(line, 1, Len(line)) = line OBVIOUS
  <2> QED BY <2>2, <2>3, <2>4
<1> QED BY <1>1

\* A single symbol that is not the separator is one word.
LEMMA SingleWord ==
  ASSUME NEW S, NEW a \in S, NEW sep \in S, Tidy(<<a>>, sep)
  PROVE  Words(<<a>>, sep) = 1
<1>1. <<a>>[1] # sep /\ Len(<<a>>) = 1 BY DEF Tidy
<1>2. {i \in 1 .. 1 : <<a>>[i] = sep} = {} BY <1>1
<1>3. Cardinality({}) = 0 BY FS_EmptySet
<1>4. Count(<<a>>, sep, 1) = 0 BY <1>2, <1>3 DEF Count
<1> QED BY <1>1, <1>4 DEF Words

\* A plain script, its lines without the last newline, and what split makes of it.
LEMMA ScriptFacts ==
  ASSUME NEW text \in Strings, PlainScript(text)
  PROVE  /\ Inner(text) \in Strings /\ Tidy(Inner(text), Newline)
         /\ text = Append(Inner(text), Newline)
         /\ Behind(text, Inner(text), Newline, 1)
         /\ 2 * Words(Inner(text), Newline) < Entries
         /\ Word(Inner(text), Newline, 1) = <<Shebang>>
<1>0. text \in Seq(Symbol) /\ Newline \in Symbol BY ShellAssumption DEF Strings
<1>1. PICK M \in Nat : M = Len(text) /\ M > 1 /\ DOMAIN text = 1 .. M
  BY <1>0 DEF PlainScript
<1>2. PICK L \in Nat : L = M - 1 /\ L > 0 BY <1>1
<1>3. /\ text[1] = Shebang /\ text[2] = Newline /\ text[M] = Newline
      /\ \A k \in 1 .. M : text[k] # Zero /\ (text[k] = Newline /\ k < M => text[k + 1] # Newline)
      /\ 2 * Cardinality({k \in 1 .. M : text[k] = Newline}) < Entries
  BY <1>1 DEF PlainScript
<1>4. PICK l \in Seq(Symbol) : l = Inner(text) /\ Len(l) = L /\ \A k \in 1 .. L : l[k] = text[k]
  <2>1. Len(text) - 1 = L /\ L \in 1 .. Len(text) BY <1>1, <1>2
  <2>2. /\ SubSeq(text, 1, L) \in Seq(Symbol) /\ Len(SubSeq(text, 1, L)) = L
        /\ \A k \in 1 .. L : SubSeq(text, 1, L)[k] = text[k]
    BY <2>1, <1>0
  <2> QED BY <2>1, <2>2 DEF Inner
<1>5. Shebang # Newline BY DEF Shebang, Newline
<1>6. Tidy(l, Newline)
  <2>1. l # <<>> /\ l[1] # Newline BY <1>2, <1>3, <1>4, <1>5
  <2>2. l[L] # Newline
    <3>1. L \in 1 .. M /\ L < M /\ L + 1 = M /\ L \in 1 .. L BY <1>2
    <3>2. text[L] # Newline BY <3>1, <1>3
    <3> QED BY <3>1, <3>2, <1>4
  <2>3. \A k \in 1 .. L : l[k] # Zero BY <1>2, <1>3, <1>4
  <2>4. ASSUME NEW k \in 1 .. L - 1, l[k] = Newline PROVE l[k + 1] # Newline
    <3>1. k \in 1 .. M /\ k < M /\ k \in 1 .. L /\ k + 1 \in 1 .. L BY <1>2
    <3>2. text[k] = Newline BY <3>1, <2>4, <1>4
    <3>3. text[k + 1] # Newline BY <3>1, <3>2, <1>3
    <3> QED BY <3>1, <3>3, <1>4
  <2> QED BY <2>1, <2>2, <2>3, <2>4, <1>4 DEF Tidy
<1>7. text = Append(l, Newline)
  <2>1. PICK s \in Seq(Symbol) : /\ s = Append(l, Newline) /\ Len(s) = M /\ s[M] = Newline
                                 /\ \A i \in 1 .. L : s[i] = l[i]
    <3>1. /\ Append(l, Newline) \in Seq(Symbol) /\ Len(Append(l, Newline)) = L + 1
          /\ Append(l, Newline)[L + 1] = Newline /\ \A i \in 1 .. L : Append(l, Newline)[i] = l[i]
      BY <1>0, <1>4
    <3>2. L + 1 = M BY <1>2
    <3> QED BY <3>1, <3>2
  <2>2. ASSUME NEW k \in 1 .. M PROVE s[k] = text[k]
    <3>1. k = M \/ k \in 1 .. L BY <1>2
    <3> QED BY <3>1, <2>1, <1>3, <1>4
  <2>3. s = text BY <2>1, <2>2, <1>0, <1>1
  <2> QED BY <2>1, <2>3
<1>8. Behind(text, l, Newline, 1)
  <2>1. Behind(l, l, Newline, 0) BY BehindItself
  <2>2. Behind(Marked(l, Newline), l, Newline, 0 + 1) BY <2>1, <1>0, BehindMarked
  <2>3. 0 + 1 = 1 OBVIOUS
  <2> QED BY <2>2, <2>3, <1>7 DEF Marked
<1>9. PICK c \in Nat : c = Count(l, Newline, L) BY CountType
<1>10. 2 * Words(l, Newline) < Entries
  <2>1. Count(text, Newline, L) = c BY <1>4, <1>9, CountAgrees
  <2>2. Count(text, Newline, L + 1) = Count(text, Newline, L) + (IF text[L + 1] = Newline THEN 1 ELSE 0)
    BY CountNext
  <2>3. L + 1 = M BY <1>2
  <2>4. Count(text, Newline, M) = c + 1 BY <2>1, <2>2, <2>3, <1>3
  <2>5. 2 * (c + 1) < Entries BY <2>4, <1>3 DEF Count
  <2> QED BY <2>5, <1>4, <1>9 DEF Words
<1>11. Bound(l, Newline, 1) = 2
  <2>1. CASE L = 1
    <3>1. {i \in 1 .. 1 : l[i] = Newline} = {} BY <2>1, <1>3, <1>4, <1>5
    <3>2. Cardinality({}) = 0 BY FS_EmptySet
    <3>3. Count(l, Newline, L) = 0 BY <3>1, <3>2, <2>1 DEF Count
    <3>4. Words(l, Newline) = 1 BY <3>3, <1>4 DEF Words
    <3> QED BY <3>4, <2>1, <1>4 DEF Bound
  <2>2. CASE L # 1
    <3>1. 1 \in 1 .. L /\ 2 \in 1 .. L BY <2>2, <1>2
    <3>2. l[1] # Newline /\ l[2] = Newline BY <3>1, <1>3, <1>4, <1>5
    <3>3. Count(l, Newline, 2) = 1
      <4>1. Count(l, Newline, 0) = 0 BY CountZero
      <4>2. Count(l, Newline, 0 + 1) = Count(l, Newline, 0) + (IF l[0 + 1] = Newline THEN 1 ELSE 0)
        BY CountNext
      <4>3. Count(l, Newline, 1 + 1) = Count(l, Newline, 1) + (IF l[1 + 1] = Newline THEN 1 ELSE 0)
        BY CountNext
      <4>4. 0 + 1 = 1 /\ 1 + 1 = 2 OBVIOUS
      <4>5. Count(l, Newline, 1) = 0 BY <4>1, <4>2, <4>4, <3>2
      <4>6. Count(l, Newline, 2) = 0 + 1 BY <4>3, <4>4, <4>5, <3>2
      <4> QED BY <4>6
    <3>4. Place(l, Newline, 1) = 2 BY <3>1, <3>2, <3>3, <1>4, PlaceIs
    <3>5. Count(l, Newline, 2) <= c BY <3>1, <1>9, CountGrows
    <3>6. Words(l, Newline) = c + 1 /\ c >= 1 BY <3>3, <3>5, <1>4, <1>9 DEF Words
    <3>7. 1 # c + 1 /\ 1 # 0 BY <3>6
    <3> QED BY <3>4, <3>6, <3>7 DEF Bound
  <2> QED BY <2>1, <2>2
<1>12. Word(l, Newline, 1) = <<Shebang>>
  <2>1. Bound(l, Newline, 0) = 0 BY DEF Bound
  <2>2. 1 - 1 = 0 /\ 0 + 1 = 1 /\ 2 - 1 = 1 OBVIOUS
  <2>3. Word(l, Newline, 1) = SubSeq(l, 1, 1) BY <2>1, <2>2, <1>11 DEF Word
  <2>4. 1 \in 1 .. L BY <1>2
  <2>5. l[1] = Shebang BY <2>4, <1>3, <1>4
  <2>6. SubSeq(l, 1, 1) = <<l[1]>>
    <3>1. SubSeq(l, 1, 1) \in Seq(Symbol) /\ Len(SubSeq(l, 1, 1)) = 1 /\ SubSeq(l, 1, 1)[1] = l[1]
      BY <2>4, <1>4
    <3>2. PICK v \in Seq(Symbol) : v = SubSeq(l, 1, 1) /\ Len(v) = 1 /\ v[1] = l[1] BY <3>1
    <3>3. PICK a \in Symbol : a = l[1] BY <2>4, <1>4
    <3>4. <<a>> \in Seq(Symbol) /\ Len(<<a>>) = 1 /\ <<a>>[1] = a OBVIOUS
    <3>5. PICK t \in Seq(Symbol) : t = <<a>> /\ Len(t) = 1 /\ t[1] = a BY <3>4
    <3>6. \A k \in 1 .. 1 : v[k] = t[k] BY <3>2, <3>3, <3>5
    <3>7. Len(v) = Len(t) /\ \A k \in 1 .. Len(v) : v[k] = t[k] BY <3>2, <3>5, <3>6
    <3>8. v = t BY ONLY <3>7, SameSeq
    <3> QED BY <3>2, <3>3, <3>5, <3>8
  <2> QED BY <2>3, <2>5, <2>6
<1> QED BY <1>4, <1>6, <1>7, <1>8, <1>10, <1>12 DEF Strings
------------------------------------------------------------------------------
\* The separators are symbols, and differ.
LEMMA Symbols ==
  /\ Blank \in Symbol /\ Newline \in Symbol /\ Slash \in Symbol
  /\ Blank # Zero /\ Newline # Zero
BY TreeAssumption, ShellAssumption DEF Blank, Newline, Slash, Zero

\* Strings stay strings.
LEMMA StringOps ==
  ASSUME NEW line \in Strings, NEW sep \in Symbol, NEW k \in Nat \ {0}
  PROVE  Marked(line, sep) \in Strings /\ Split(k, line, sep) \in Strings
BY SplitType DEF Strings, Marked

\* cd keeps a path from the root, and pwd the name of a directory.
LEMMA CdKeeps ==
  ASSUME ShellType, PwdInv, CdNext
  PROVE  /\ pwd' \in Strings /\ path' \in Strings /\ tempbuf' \in Strings /\ j' \in Nat
         /\ PwdInv'
<1>0. /\ path \in Strings /\ tempbuf \in Strings /\ pwd \in Strings /\ j \in Nat
  BY DEF ShellType
<1>s. Slash \in Symbol BY Symbols
<1>m. Marked(path, Slash) \in Strings /\ Marked(Marked(path, Slash), Slash) \in Strings
  <2>1. 1 \in Nat \ {0} OBVIOUS
  <2>2. Marked(path, Slash) \in Strings BY <2>1, <1>0, <1>s, StringOps
  <2> QED BY <2>1, <2>2, <1>s, StringOps
<1>d. PICK d \in Dirs : pwd = FullName(d) BY DEF PwdInv
<1>1. CASE pc = "cd"
  <2>0. j \in Nat \ {0} /\ tempbuf # <<>> /\ tempbuf[1] = Slash BY <1>0, <1>1 DEF PwdInv
  <2>1. CASE CdUp
    <3>1. tempbuf' = Parent(tempbuf) /\ NextTurn(Marked(path, Slash), j) BY <2>1 DEF CdUp
    <3>2. tempbuf' \in Strings /\ tempbuf' # <<>> /\ tempbuf'[1] = Slash
      BY <3>1, <2>0, <1>0, ParentFacts
    <3>3. /\ path' \in Strings /\ j' \in Nat /\ pwd' = pwd
          /\ pc' \in {"cd", "chdir"} /\ (pc' = "cd" => j' # 0)
      BY <3>1, <1>0, <1>m DEF NextTurn
    <3> QED BY <3>2, <3>3, <1>0, <1>d DEF PwdInv
  <2>2. CASE CdAbsolute
    <3>1. PICK p \in Seq(Symbol) : p = Marked(path, Slash) /\ p # <<>>
      <4>1. path \in Seq(Symbol) BY <1>0 DEF Strings
      <4>2. PICK t \in Seq(Symbol) : t = path BY <4>1
      <4>3. Append(t, Slash) \in Seq(Symbol) /\ Len(Append(t, Slash)) = Len(t) + 1 BY <1>s
      <4>4. PICK x \in Seq(Symbol) : x = Append(t, Slash) /\ Len(x) = Len(t) + 1 BY <4>3
      <4>5. x # <<>>
        <5>1. PICK m \in Nat : m = Len(t) OBVIOUS
        <5>2. Len(x) # 0 BY <5>1, <4>4
        <5> QED BY <5>2
      <4> QED BY <4>2, <4>4, <4>5 DEF Marked
    <3>2. /\ tempbuf' = IF Len(p) = 1 THEN <<Slash>> ELSE Tail(p)
          /\ path' = p /\ pc' = "chdir" /\ j' = 0 /\ pwd' = pwd
      BY <3>1, <2>2 DEF CdAbsolute
    <3>3. tempbuf' \in Seq(Symbol) /\ tempbuf' # <<>>
      <4>1. <<Slash>> \in Seq(Symbol) /\ <<Slash>> # <<>> BY <1>s
      <4>2. PICK t \in Seq(Symbol) : t = Tail(p) /\ Len(t) = Len(p) - 1
        <5>1. Tail(p) \in Seq(Symbol) /\ Len(Tail(p)) = Len(p) - 1 BY <3>1
        <5> QED BY <5>1
      <4>3. Len(p) # 1 => t # <<>>
        <5>1. Len(p) # 1 => Len(t) # 0 BY <4>2
        <5> QED BY <5>1
      <4> QED BY <4>1, <4>2, <4>3, <3>2
    <3> QED BY <3>1, <3>2, <3>3, <1>0, <1>d DEF PwdInv, Strings
  <2>3. CASE CdDown
    <3>1. PICK p \in Strings : p = Marked(path, Slash) BY <1>m
    <3>2. PICK n \in Nat \ {0}, c \in Seq(Symbol), q \in Strings :
            tempbuf' = tempbuf \o <<Slash>> \o c /\ NextTurn(q, n)
      <4>1. CASE Token = <<".">>
        <5>1. j + 1 \in Nat \ {0} BY <2>0
        <5>2. Split(j + 1, p, Slash) \in Seq(Symbol) BY <5>1, <1>s, StringOps DEF Strings
        <5>3. /\ tempbuf' = tempbuf \o <<Slash>> \o Split(j + 1, p, Slash)
              /\ NextTurn(Marked(p, Slash), j + 1)
          BY <4>1, <3>1, <2>3 DEF CdDown
        <5> QED BY <5>1, <5>2, <5>3, <3>1, <1>m
      <4>2. CASE Token # <<".">>
        <5>1. Token \in Seq(Symbol) BY <2>0, <1>0, <1>s, StringOps DEF Token, Strings
        <5>2. tempbuf' = tempbuf \o <<Slash>> \o Token /\ NextTurn(p, j)
          BY <4>2, <3>1, <2>3 DEF CdDown
        <5> QED BY <5>1, <5>2, <2>0
      <4> QED BY <4>1, <4>2
    <3>3. tempbuf' \in Strings /\ tempbuf' # <<>> /\ tempbuf'[1] = Slash
      <4>1. PICK t \in Seq(Symbol), u \in Seq(Symbol) : t = tempbuf /\ u = <<Slash>>
        <5>1. tempbuf \in Seq(Symbol) /\ <<Slash>> \in Seq(Symbol) BY <1>0, <1>s DEF Strings
        <5> QED BY <5>1
      <4>2. PICK x \in Seq(Symbol) : x = t \o u /\ Len(x) > 0 /\ x[1] = Slash
        <5>1. t # <<>> /\ t[1] = Slash BY <4>1, <2>0
        <5>2. t \o u \in Seq(Symbol) /\ Len(t \o u) = Len(t) + Len(u) /\ (t \o u)[1] = t[1] BY <5>1
        <5>3. Len(t) + Len(u) > 0 BY <5>1
        <5>4. PICK y \in Seq(Symbol) : y = t \o u BY <5>2
        <5>5. Len(y) > 0 /\ y[1] = Slash BY <5>1, <5>2, <5>3, <5>4
        <5> QED BY <5>4, <5>5
      <4>3. x \o c \in Seq(Symbol) /\ Len(x \o c) = Len(x) + Len(c) /\ (x \o c)[1] = x[1] BY <4>2
      <4>4. PICK y \in Seq(Symbol) : y = x \o c /\ Len(y) > 0 /\ y[1] = Slash
        <5>1. Len(x) + Len(c) > 0 BY <4>2
        <5> QED BY <5>1, <4>2, <4>3
      <4>5. tempbuf' = y BY <4>1, <4>2, <4>4, <3>2
      <4> QED BY <4>4, <4>5 DEF Strings
    <3>4. /\ path' \in Strings /\ j' \in Nat /\ pwd' = pwd
          /\ pc' \in {"cd", "chdir"} /\ (pc' = "cd" => j' # 0)
      BY <3>2 DEF NextTurn
    <3> QED BY <3>3, <3>4, <1>0, <1>d DEF PwdInv
  <2> QED BY <2>1, <2>2, <2>3, <1>1 DEF CdNext, Chdir, EndCd
<1>2. CASE pc # "cd"
  <2>1. Chdir BY <1>2 DEF CdNext, CdUp, CdAbsolute, CdDown
  <2>2. PICK e \in Dirs : pwd' = FullName(e) BY <2>1, ChdirNames
  <2>3. path' = <<>> /\ tempbuf' = <<>> /\ j' = 0 /\ pc' = "end" BY <2>1 DEF Chdir, EndCd
  <2>4. <<>> \in Strings BY DEF Strings
  <2>5. pwd' \in Strings BY <2>2, FullNameFacts
  <2> QED BY <2>2, <2>3, <2>4, <2>5 DEF PwdInv
<1> QED BY <1>1, <1>2

\* The start of cd: pwd without its last slash.
LEMMA CdBegins ==
  ASSUME ShellType, PwdInv, NEW p \in Strings, BeginCd(p)
  PROVE  /\ pwd' \in Strings /\ path' \in Strings /\ tempbuf' \in Strings /\ j' \in Nat
         /\ PwdInv'
<1>1. PICK d \in Dirs : pwd = FullName(d) BY DEF PwdInv
<1>2. PICK n \in Nat : n = Len(d) BY DirNameFacts
<1>3. /\ pwd \in Seq(Symbol) /\ Len(pwd) = 3 + 2 * n /\ pwd[1] = Slash
  BY <1>1, <1>2, FullNameFacts DEF Strings
<1>4. PICK M \in Nat : M = Len(pwd) - 1 /\ M >= 2 BY <1>3
<1>5. PICK t \in Seq(Symbol) : t = SubSeq(pwd, 1, M) /\ Len(t) = M /\ t[1] = Slash
  <2>1. M \in 1 .. Len(pwd) /\ 1 \in 1 .. M BY <1>3, <1>4
  <2>2. /\ SubSeq(pwd, 1, M) \in Seq(Symbol) /\ Len(SubSeq(pwd, 1, M)) = M
        /\ \A k \in 1 .. M : SubSeq(pwd, 1, M)[k] = pwd[k]
    BY <2>1, <1>3
  <2> QED BY <2>1, <2>2, <1>3
<1>6. t # <<>> BY <1>4, <1>5
<1>7. tempbuf' = (IF Last(pwd) = Slash THEN t ELSE pwd) BY <1>4, <1>5 DEF BeginCd, Front
<1>8. pwd # <<>> BY <1>3, <1>4
<1> QED BY <1>1, <1>3, <1>5, <1>6, <1>7, <1>8 DEF BeginCd, PwdInv, Strings
------------------------------------------------------------------------------
\* The shell starts in the invariant.
LEMMA InvInit == Init => ShellInv
<1> SUFFICES ASSUME Init PROVE ShellInv OBVIOUS
<1>1. <<"bin">> \in Dirs BY TreeAssumption
<1>2. pwd = FullName(<<"bin">>) /\ pwd \in Strings BY <1>1, FullNameFacts DEF Init, DirInit
<1>3. <<>> \in Seq(Symbol) /\ <<>> \in Seq(Strings) OBVIOUS
<1>4. ShellType BY <1>2, <1>3 DEF Init, DirInit, ShellType, Strings
<1>5. PwdInv BY <1>1, <1>2 DEF Init, PwdInv
<1>6. WordsInv BY DEF Init, WordsInv
<1>7. FlagInv BY DEF Init, FlagInv, Commanded
<1>8. ScriptInv BY DEF Init, ScriptInv
<1>9. UndefinedInv BY DEF Init, UndefinedInv
<1> QED BY <1>4, <1>5, <1>6, <1>7, <1>8, <1>9 DEF ShellInv

\* Every step keeps the types, and pwd the name of a directory.
LEMMA TypeStep ==
  ASSUME ShellType, PwdInv, [Next]_vars
  PROVE  ShellType' /\ PwdInv'
<1> DEFINE D == pwd \in Strings /\ path \in Strings /\ tempbuf \in Strings /\ j \in Nat
           T == /\ typed \in Strings /\ input \in Strings /\ binary \in Strings /\ buf \in Strings
                /\ ans \in Seq(Strings) /\ done \in Seq(Strings)
                /\ i1 \in Nat /\ flag1 \in {0, 1}
                /\ script = NoScript \/ \E f \in DOMAIN File : script = <<f>>
<1>1. ShellType <=> D /\ T BY DEF ShellType
<1>2. ShellType' <=> D' /\ T' BY DEF ShellType
<1>3. D /\ T BY <1>1
<1>0. Blank \in Symbol /\ Newline \in Symbol BY Symbols
<1>e. <<>> \in Strings /\ <<>> \in Seq(Strings) BY DEF Strings
<1>n. 1 \in Nat \ {0} /\ 2 \in Nat \ {0} /\ Len(ans) + 2 \in Nat \ {0} /\ i1 + 1 \in Nat \ {0}
  BY <1>3
<1>i. Marked(input, Blank) \in Strings /\ Split(1, input, Blank) \in Strings
      /\ Split(2, input, Blank) \in Strings /\ Split(Len(ans) + 2, input, Blank) \in Strings
  BY <1>3, <1>0, <1>n, StringOps
<1>b. Marked(buf, Newline) \in Strings /\ Split(i1 + 1, buf, Newline) \in Strings
  BY <1>3, <1>0, <1>n, StringOps
<1>4. ASSUME UNCHANGED dirVars, pc' # "cd", pc' # "chdir" PROVE D' /\ PwdInv'
  BY <1>3, <1>4 DEF dirVars, cdVars, PwdInv
<1>5. ASSUME NEW w \in Strings PROVE Append(ans, w) \in Seq(Strings) /\ <<w>> \in Seq(Strings)
                                     /\ Append(done, w) \in Seq(Strings)
  BY <1>3
<1> HIDE DEF D
<1>6. CASE ReadLine
  <2>1. PICK line \in Lines : input' = line /\ typed' = line BY <1>6 DEF ReadLine
  <2>2. line \in Strings BY ShellAssumption DEF Strings
  <2>3. T' BY <2>1, <2>2, <1>3, <1>6, <1>e DEF ReadLine
  <2> QED BY <2>3, <1>2, <1>4, <1>6 DEF ReadLine
<1>7. CASE Start
  <2>1. T' BY <1>3, <1>7, <1>i, <1>e DEF Start
  <2>2. pc' # "cd" /\ pc' # "chdir" BY <1>7 DEF Start, Branch
  <2> QED BY <2>1, <2>2, <1>2, <1>4, <1>7 DEF Start
<1>8. CASE NextWord
  <2>1. ans' \in Seq(Strings)
    <3>1. <<pwd>> \in Seq(Strings) BY <1>3, <1>5 DEF D
    <3>2. Append(ans, Split(Len(ans) + 2, input, Blank)) \in Seq(Strings) BY <1>5, <1>i
    <3> QED BY <3>1, <3>2, <1>3, <1>8 DEF NextWord
  <2>2. T' BY <2>1, <1>3, <1>8, <1>i DEF NextWord
  <2>3. pc' # "cd" /\ pc' # "chdir" BY <1>8 DEF NextWord
  <2> QED BY <2>2, <2>3, <1>2, <1>4, <1>8 DEF NextWord
<1>9. CASE SleepWord
  <2>1. ans' \in Seq(Strings) BY <1>5, <1>9, <1>i DEF SleepWord
  <2>2. T' BY <2>1, <1>3, <1>9, <1>i DEF SleepWord
  <2> QED BY <2>2, <1>2, <1>4, <1>9 DEF SleepWord
<1>10. CASE Exec \/ ProgramEnds \/ Undefined
  <2>1. T' /\ UNCHANGED dirVars /\ pc' # "cd" /\ pc' # "chdir"
    BY <1>3, <1>10 DEF Exec, ProgramEnds, Undefined
  <2> QED BY <2>1, <1>2, <1>4
<1>11. CASE CdPath
  <2>1. T' BY <1>3, <1>11, <1>i DEF CdPath
  <2>2. D' /\ PwdInv'
    <3>1. BeginCd(Split(2, input, Blank)) BY <1>11 DEF CdPath
    <3> QED BY <3>1, <1>i, CdBegins DEF D
  <2> QED BY <2>1, <2>2, <1>2
<1>12. CASE Cd
  <2>1. T' BY <1>3, <1>12 DEF Cd
  <2>2. D' /\ PwdInv' BY <1>12, CdKeeps DEF Cd, D
  <2> QED BY <2>1, <2>2, <1>2
<1>13. CASE ReadScript
  <2>1. PICK f \in DOMAIN File : f = Split(2, input, Blank)[1] /\ Len(Split(2, input, Blank)) = 1
    BY <1>13 DEF ReadScript
  <2>2. Split(2, input, Blank) = <<f>>
    <3>1. PICK v \in Seq(Symbol) : v = Split(2, input, Blank) BY <1>i DEF Strings
    <3>2. f \in Symbol BY ShellAssumption
    <3>3. PICK u \in Seq(Symbol) : u = <<f>> /\ Len(u) = 1 /\ u[1] = f
      <4>1. <<f>> \in Seq(Symbol) /\ Len(<<f>>) = 1 /\ <<f>>[1] = f BY <3>2
      <4> QED BY <4>1
    <3>4. Len(v) = Len(u) /\ \A k \in 1 .. Len(v) : v[k] = u[k] BY <3>1, <3>3, <2>1
    <3>5. v = u BY ONLY <3>4, SameSeq
    <3> QED BY <3>1, <3>3, <3>5
  <2>3. File[f] \in Strings BY ShellAssumption DEF Strings
  <2>4. buf' = File[f] /\ script' = (IF flag1 = 0 THEN <<f>> ELSE script)
    BY <2>1, <2>2, <1>13 DEF ReadScript
  <2>6. script' = NoScript \/ \E g \in DOMAIN File : script' = <<g>> BY <2>4, <1>3
  <2>7. /\ input' = Marked(input, Blank)
        /\ UNCHANGED <<typed, binary, ans, i1, flag1, done>>
    BY <1>13 DEF ReadScript
  <2>8. /\ typed' \in Strings /\ input' \in Strings /\ binary' \in Strings /\ buf' \in Strings
        /\ ans' \in Seq(Strings) /\ done' \in Seq(Strings) /\ i1' \in Nat /\ flag1' \in {0, 1}
    BY <2>3, <2>4, <2>7, <1>3, <1>i
  <2>5. T' BY ONLY <2>6, <2>8, Zenon
  <2> QED BY <2>5, <1>2, <1>4, <1>13 DEF ReadScript
<1>14. CASE CheckShebang
  <2>1. T' BY <1>3, <1>14, <1>b DEF CheckShebang
  <2>2. pc' # "cd" /\ pc' # "chdir" BY <1>14 DEF CheckShebang
  <2> QED BY <2>1, <2>2, <1>2, <1>4, <1>14 DEF CheckShebang
<1>15. CASE NextLine
  <2>1. Append(done, Split(i1 + 1, buf, Newline)) \in Seq(Strings) BY <1>5, <1>b
  <2>2. T' BY <2>1, <1>3, <1>15, <1>b DEF NextLine
  <2>3. pc' # "cd" /\ pc' # "chdir" BY <1>15 DEF NextLine
  <2> QED BY <2>2, <2>3, <1>2, <1>4, <1>15 DEF NextLine
<1>16. CASE EndCommand
  <2>1. T'
    <3>3. UNCHANGED <<flag1, script, done>> BY <1>16 DEF EndCommand
    <3>4. CASE flag1 = 1
      <4>1. i1' = i1 + 1 /\ UNCHANGED <<typed, input, binary, ans, buf>>
        BY <3>4, <1>16 DEF EndCommand
      <4> QED BY <4>1, <3>3, <1>3
    <3>5. CASE flag1 # 1
      <4>1. ToPrompt BY <3>5, <1>16 DEF EndCommand
      <4>2. /\ typed' = <<>> /\ input' = <<>> /\ binary' = <<>> /\ ans' = <<>>
            /\ buf' = <<>> /\ i1' = 0
        BY <4>1 DEF ToPrompt
      <4> QED BY <4>2, <3>3, <1>3, <1>e
    <3> QED BY <3>4, <3>5
  <2>2. pc' # "cd" /\ pc' # "chdir" BY <1>16 DEF EndCommand, ToPrompt
  <2> QED BY <2>1, <2>2, <1>2, <1>4, <1>16 DEF EndCommand
<1>17. CASE UNCHANGED vars BY <1>17 DEF vars, dirVars, cdVars, ShellType, PwdInv
<1> QED BY <1>6, <1>7, <1>8, <1>9, <1>10, <1>11, <1>12, <1>13, <1>14, <1>15, <1>16, <1>17 DEF Next
------------------------------------------------------------------------------
\* Every step keeps what flag1 says about the script.
LEMMA FlagStep ==
  ASSUME ShellType, FlagInv, [Next]_vars
  PROVE  FlagInv'
<1>1. flag1 \in {0, 1} BY DEF ShellType
<1> USE DEF FlagInv, Commanded
<1>2. CASE ReadLine BY <1>1, <1>2 DEF ReadLine
<1>3. CASE Start
  <2>1. pc' \in {"words", "exec", "sleep", "path", "script", "end"} BY <1>3 DEF Start, Branch
  <2> QED BY <2>1, <1>3 DEF Start
<1>4. CASE NextWord BY <1>4 DEF NextWord
<1>5. CASE SleepWord \/ Exec \/ ProgramEnds \/ Undefined
  BY <1>5 DEF SleepWord, Exec, ProgramEnds, Undefined
<1>6. CASE CdPath BY <1>6 DEF CdPath, BeginCd
<1>7. CASE Cd
  <2>1. pc \in {"cd", "chdir"} /\ pc' \in {"cd", "chdir", "end"}
    BY <1>7 DEF Cd, CdNext, CdUp, CdAbsolute, CdDown, Chdir, EndCd, NextTurn
  <2> QED BY <2>1, <1>7 DEF Cd
<1>8. CASE ReadScript
  <2>1. Split(2, input, Blank) # NoScript
    <3>1. Len(Split(2, input, Blank)) = 1 BY <1>8 DEF ReadScript
    <3>2. Len(<<>>) = 0 OBVIOUS
    <3> QED BY <3>1, <3>2 DEF NoScript
  <2> QED BY <2>1, <1>1, <1>8 DEF ReadScript
<1>9. CASE CheckShebang BY <1>9 DEF CheckShebang
<1>10. CASE NextLine BY <1>10 DEF NextLine
<1>11. CASE EndCommand BY <1>11 DEF EndCommand, ToPrompt
<1>12. CASE UNCHANGED vars BY <1>12 DEF vars
<1> QED BY <1>2, <1>3, <1>4, <1>5, <1>6, <1>7, <1>8, <1>9, <1>10, <1>11, <1>12 DEF Next

\* The first word of a line, and which branch it leads to.
LEMMA StartWords ==
  ASSUME ShellType, WordsInv, Start, Tidy(typed, Blank)
  PROVE  /\ Behind(input', typed, Blank, 1) /\ binary' = Word(typed, Blank, 1)
         /\ Words(typed, Blank) \in Nat \ {0}
         /\ pc' = "exec" => typed = <<"ps">> /\ Words(typed, Blank) = 1 /\ binary' = <<"ps">>
<1>0. typed \in Seq(Symbol) /\ Blank \in Symbol /\ Blank # Zero BY Symbols DEF ShellType, Strings
<1>1. input = typed /\ input' = Marked(typed, Blank) /\ binary' = Split(1, typed, Blank)
  BY DEF Start, WordsInv
<1>2. Behind(typed, typed, Blank, 0) BY <1>0, BehindItself
<1>3. Behind(input', typed, Blank, 1)
  <2>1. Behind(Marked(typed, Blank), typed, Blank, 0 + 1) BY <1>0, <1>2, BehindMarked
  <2>2. 0 + 1 = 1 OBVIOUS
  <2> QED BY <2>1, <2>2, <1>1
<1>4. Words(typed, Blank) \in Nat \ {0} BY <1>0, BoundFacts
<1>5. binary' = Word(typed, Blank, 1)
  <2>1. 1 \in 1 .. Words(typed, Blank) BY <1>4
  <2> QED BY <2>1, <1>0, <1>1, <1>2, SplitBehind
<1>6. ASSUME pc' = "exec"
      PROVE  typed = <<"ps">> /\ Words(typed, Blank) = 1 /\ binary' = <<"ps">>
  <2>1. input' = <<"ps", Blank>> BY <1>6 DEF Start, Branch
  <2>2. PICK t \in Seq(Symbol) : t = typed BY <1>0
  <2>3. Append(t, Blank) = <<"ps", Blank>> BY <2>1, <2>2, <1>1 DEF Marked
  <2>4. Len(t) = 1
    <3>1. PICK m \in Nat : m = Len(t) OBVIOUS
    <3>2. Len(Append(t, Blank)) = m + 1 BY <3>1, <1>0
    <3>3. Len(<<"ps", Blank>>) = 2 OBVIOUS
    <3>4. m + 1 = 2 BY ONLY <3>2, <3>3, <2>3, Zenon
    <3> QED BY <3>1, <3>4
  <2>5. t[1] = "ps"
    <3>1. Append(t, Blank)[1] = t[1]
      <4>1. \A i \in 1 .. Len(t) : Append(t, Blank)[i] = t[i] BY <1>0
      <4> QED BY <4>1, <2>4
    <3>2. <<"ps", Blank>>[1] = "ps" OBVIOUS
    <3> QED BY ONLY <3>1, <3>2, <2>3, Zenon
  <2>6. t = <<"ps">>
    <3>1. PICK a \in Symbol : a = "ps" BY <2>4, <2>5
    <3>2. PICK u \in Seq(Symbol) : u = <<a>> /\ Len(u) = 1 /\ u[1] = a
      <4>1. <<a>> \in Seq(Symbol) /\ Len(<<a>>) = 1 /\ <<a>>[1] = a OBVIOUS
      <4> QED BY <4>1
    <3>3. Len(t) = Len(u) /\ \A k \in 1 .. Len(t) : t[k] = u[k] BY <3>1, <3>2, <2>4, <2>5
    <3>4. t = u BY ONLY <3>3, SameSeq
    <3> QED BY <3>1, <3>2, <3>4
  <2>7. Words(typed, Blank) = 1
    <3>1. PICK a \in Symbol : a = "ps" BY <2>4, <2>5
    <3> QED BY <3>1, <2>2, <2>6, <1>0, SingleWord
  <2> QED BY <2>2, <2>6, <2>7, <1>0, <1>5, OneWord
<1> QED BY <1>3, <1>4, <1>5, <1>6

\* ls alone is a line of one word.
LEMMA LsAlone ==
  ASSUME ShellType, Tidy(typed, Blank), typed = <<"ls">>
  PROVE  Words(typed, Blank) = 1 /\ Word(typed, Blank, 1) = <<"ls">>
<1>0. typed \in Seq(Symbol) /\ Blank \in Symbol BY Symbols DEF ShellType, Strings
<1>1. PICK a \in Symbol : a = "ls"
  <2>1. PICK t \in Seq(Symbol) : t = typed /\ Len(t) = 1 /\ t[1] = "ls" BY <1>0
  <2> QED BY <2>1
<1>2. Words(typed, Blank) = 1 BY <1>0, <1>1, SingleWord
<1> QED BY <1>0, <1>2, OneWord

\* The loop over the words: the next one, or the end of the line.
LEMMA NextWordWords ==
  ASSUME ShellType, WordsInv, NextWord, Tidy(typed, Blank)
  PROVE  /\ binary = Word(typed, Blank, 1)
         /\ binary \in {<<"ls">>, <<"cat">>, <<"echo">>}
         /\ pc' = "words" => /\ Behind(input', typed, Blank, Len(ans') + 1)
                             /\ Listed(ans', typed, Blank)
         /\ pc' = "exec" => \/ typed = <<"ls">> /\ ans' = <<pwd>>
                            \/ /\ typed # <<"ls">> /\ ans' = ans /\ Listed(ans, typed, Blank)
                               /\ Len(ans) + 1 = Words(typed, Blank)
         /\ pc' \in {"words", "exec"}
<1>0. /\ typed \in Seq(Symbol) /\ input \in Seq(Symbol) /\ ans \in Seq(Strings)
      /\ Blank \in Symbol /\ Blank # Zero
  BY Symbols DEF ShellType, Strings
<1>1. /\ Behind(input, typed, Blank, Len(ans) + 1) /\ Listed(ans, typed, Blank)
      /\ binary = Word(typed, Blank, 1) /\ binary \in {<<"ls">>, <<"cat">>, <<"echo">>}
  BY DEF NextWord, WordsInv
<1>2. PICK m \in Nat : m = Len(ans) BY <1>0
<1>3. PICK w \in Nat \ {0} : w = Words(typed, Blank) /\ m < w
  <2>1. Words(typed, Blank) \in Nat \ {0} BY <1>0, BoundFacts
  <2> QED BY <2>1, <1>1, <1>2 DEF Listed
<1>b. m + 1 \in Nat /\ Behind(input, typed, Blank, m + 1) BY <1>1, <1>2
<1>4. CASE m + 1 < w
  <2>1. m + 2 \in 1 .. w /\ m + 1 > 0 /\ Words(typed, Blank) = w BY <1>3, <1>4
  <2>2. Split(m + 2, input, Blank) = Word(typed, Blank, m + 2)
    BY <2>1, <1>0, <1>b, SplitBehind
  <2>3. PICK v \in Strings : v = Word(typed, Blank, m + 2) /\ v # <<>>
    BY <2>1, <1>0, WordFacts DEF Strings
  <2>4. ans' = Append(ans, v) /\ pc' = "words" /\ input' = Marked(input, Blank)
    BY <2>2, <2>3, <1>2 DEF NextWord
  <2>5. PICK x \in Seq(Strings) : /\ x = Append(ans, v) /\ Len(x) = m + 1 /\ x[m + 1] = v
                                  /\ \A i \in 1 .. m : x[i] = ans[i]
    <3>1. /\ Append(ans, v) \in Seq(Strings) /\ Len(Append(ans, v)) = m + 1
          /\ Append(ans, v)[m + 1] = v /\ \A i \in 1 .. m : Append(ans, v)[i] = ans[i]
      BY <1>0, <1>2
    <3> QED BY <3>1
  <2>6. Listed(x, typed, Blank)
    <3>1. ASSUME NEW i \in 1 .. m + 1 PROVE x[i] = Word(typed, Blank, i + 1)
      <4>1. CASE i = m + 1
        <5>1. i + 1 = m + 2 BY <4>1
        <5> QED BY <5>1, <4>1, <2>3, <2>5
      <4>2. CASE i # m + 1
        <5>1. i \in 1 .. m BY <4>2
        <5> QED BY <5>1, <2>5, <1>1, <1>2 DEF Listed
      <4> QED BY <4>1, <4>2
    <3> QED BY <3>1, <2>5, <1>3, <1>4 DEF Listed
  <2>7. Behind(input', typed, Blank, (m + 1) + 1) BY <2>4, <1>0, <1>b, BehindMarked
  <2> QED BY <2>4, <2>5, <2>6, <2>7, <1>1
<1>5. CASE ~ (m + 1 < w)
  <2>1. m + 1 = w /\ m + 2 = w + 1 BY <1>3, <1>5
  <2>2. Split(w + 1, input, Blank) = <<>> BY <1>0, <1>b, <1>3, SplitBehind
  <2>3. /\ ans' = (IF binary = <<"ls">> /\ ans = <<>> THEN <<pwd>> ELSE ans)
        /\ pc' = "exec"
    BY <2>1, <2>2, <1>2 DEF NextWord
  <2>4. CASE binary = <<"ls">> /\ ans = <<>>
    <3>1. m = 0 BY <2>4, <1>2
    <3>2. Words(typed, Blank) = 1 BY <3>1, <2>1, <1>3
    <3>3. typed = <<"ls">> BY <3>2, <2>4, <1>0, <1>1, OneWord
    <3> QED BY <3>3, <2>3, <2>4, <1>1
  <2>5. CASE ~ (binary = <<"ls">> /\ ans = <<>>)
    <3>1. typed # <<"ls">>
      <4>1. ASSUME typed = <<"ls">> PROVE FALSE
        <5>1. Words(typed, Blank) = 1 /\ binary = <<"ls">> BY <4>1, <1>1, LsAlone
        <5>2. Len(ans) = 0 BY <5>1, <2>1, <1>2, <1>3
        <5>3. ans = <<>> BY <5>2, <1>0
        <5> QED BY <5>1, <5>3, <2>5
      <4> QED BY <4>1
    <3> QED BY <3>1, <2>1, <2>3, <2>5, <1>1, <1>2, <1>3
  <2> QED BY <2>4, <2>5
<1> QED BY <1>4, <1>5

\* sleep gets the second word, or nothing.
LEMMA SleepWords ==
  ASSUME ShellType, WordsInv, SleepWord, Tidy(typed, Blank)
  PROVE  /\ binary = <<"sleep">> /\ binary = Word(typed, Blank, 1) /\ pc' = "exec"
         /\ \/ Words(typed, Blank) = 1 /\ ans' = << <<>> >>
            \/ typed # <<"ls">> /\ Len(ans') = 1 /\ Listed(ans', typed, Blank)
<1>0. /\ typed \in Seq(Symbol) /\ input \in Seq(Symbol)
      /\ Blank \in Symbol /\ Blank # Zero
  BY Symbols DEF ShellType, Strings
<1>1. /\ Behind(input, typed, Blank, Len(ans) + 1) /\ ans = <<>>
      /\ binary = <<"sleep">> /\ binary = Word(typed, Blank, 1)
      /\ ans' = <<Split(2, input, Blank)>> /\ pc' = "exec"
  BY DEF SleepWord, WordsInv
<1>2. Behind(input, typed, Blank, 1)
  <2>1. Len(ans) + 1 = 1 BY <1>1
  <2> QED BY <2>1, <1>1
<1>3. PICK w \in Nat \ {0} : w = Words(typed, Blank) BY <1>0, BoundFacts
<1>4. CASE w = 1
  <2>1. Split(w + 1, input, Blank) = <<>> BY <1>0, <1>2, <1>3, SplitBehind
  <2>2. w + 1 = 2 BY <1>4
  <2> QED BY <2>1, <2>2, <1>1, <1>3, <1>4
<1>5. CASE w # 1
  <2>1. 2 \in 1 .. Words(typed, Blank) /\ 1 > 0 BY <1>3, <1>5
  <2>2. Split(2, input, Blank) = Word(typed, Blank, 2) BY <2>1, <1>0, <1>2, SplitBehind
  <2>3. typed # <<"ls">> BY <1>3, <1>5, LsAlone
  <2>4. PICK v \in Strings : v = Word(typed, Blank, 2) BY <2>1, <1>0, WordFacts DEF Strings
  <2>5. ans' = <<v>> BY <2>2, <2>4, <1>1
  <2>6. Len(<<v>>) = 1 /\ <<v>>[1] = v OBVIOUS
  <2>7. Listed(<<v>>, typed, Blank)
    <3>1. \A i \in 1 .. 1 : i = 1 /\ i + 1 = 2 OBVIOUS
    <3>2. \A i \in 1 .. 1 : <<v>>[i] = Word(typed, Blank, i + 1)
      <4>1. ASSUME NEW i \in 1 .. 1 PROVE <<v>>[i] = Word(typed, Blank, i + 1)
        <5>1. i = 1 /\ i + 1 = 2 BY <3>1
        <5> QED BY <5>1, <2>4, <2>6
      <4> QED BY <4>1
    <3> QED BY <3>2, <2>1, <2>6, <1>3 DEF Listed
  <2> QED BY <2>3, <2>5, <2>6, <2>7, <1>1
<1> QED BY <1>4, <1>5

\* execve copies words that are none of them empty as they are.
LEMMA CopiedWords ==
  ASSUME NEW words \in Seq(Strings), \A i \in 1 .. Len(words) : words[i] # <<>>
  PROVE  Copied(words) = words
<1>1. DOMAIN words = 1 .. Len(words) OBVIOUS
<1> QED BY <1>1 DEF Copied

\* The empty word of sleep ends what execve copies.
LEMMA CopiedNone == Copied(<< <<>> >>) = <<>>
<1> DEFINE e == << <<>> >>
<1>1. DOMAIN e = {1} /\ e[1] = <<>> OBVIOUS
<1>2. (CHOOSE k \in DOMAIN e : e[k] = <<>> /\ \A i \in 1 .. k - 1 : e[i] # <<>>) = 1
  <2>1. 1 .. 1 - 1 = {} OBVIOUS
  <2> QED BY <2>1, <1>1
<1>3. Copied(e) = SubSeq(e, 1, 1 - 1) BY <1>1, <1>2 DEF Copied
<1>4. 1 - 1 = 0 /\ SubSeq(e, 1, 0) = <<>> OBVIOUS
<1> QED BY <1>3, <1>4

\* Words of a line are not empty.
LEMMA ListedFull ==
  ASSUME typed \in Strings, Tidy(typed, Blank), NEW words \in Seq(Strings),
         Listed(words, typed, Blank)
  PROVE  \A i \in 1 .. Len(words) : words[i] # <<>>
<1>0. typed \in Seq(Symbol) /\ Blank \in Symbol BY Symbols DEF Strings
<1>1. Words(typed, Blank) \in Nat /\ Len(words) \in Nat /\ Len(words) < Words(typed, Blank)
  BY <1>0, BoundFacts DEF Listed
<1>2. ASSUME NEW i \in 1 .. Len(words) PROVE words[i] # <<>>
  <2>1. PICK k \in 1 .. Words(typed, Blank) : k = i + 1
    <3>1. i + 1 \in 1 .. Words(typed, Blank) BY <1>1
    <3> QED BY <3>1
  <2>2. words[i] = Word(typed, Blank, k) BY <2>1 DEF Listed
  <2> QED BY <2>2, <1>0, WordFacts
<1> QED BY <1>2

\* What execve copies is what was collected.
LEMMA ExecWords ==
  ASSUME ShellType, PwdInv, WordsInv, Exec, Tidy(typed, Blank)
  PROVE  binary = Word(typed, Blank, 1) /\ Given(argv')
<1>0. /\ typed \in Strings /\ ans \in Seq(Strings) /\ Blank \in Symbol BY Symbols DEF ShellType
<1>1. /\ binary = Word(typed, Blank, 1) /\ argv' = Copied(ans)
      /\ \/ Given(ans)
         \/ binary = <<"sleep">> /\ Words(typed, Blank) = 1 /\ ans = << <<>> >>
  BY DEF Exec, WordsInv
<1>2. CASE binary = <<"sleep">> /\ Words(typed, Blank) = 1 /\ ans = << <<>> >>
  <2>1. argv' = <<>> BY <1>1, <1>2, CopiedNone
  <2>2. typed # <<"ls">> BY <1>0, <1>1, <1>2, OneWord DEF Strings
  <2>3. Listed(<<>>, typed, Blank)
    <3>1. Len(<<>>) = 0 /\ 1 .. 0 = {} OBVIOUS
    <3> QED BY <3>1, <1>2 DEF Listed
  <2>4. Len(<<>>) <= 1 /\ <<>> \in Seq(Strings) OBVIOUS
  <2> QED BY <2>1, <2>2, <2>3, <2>4, <1>1, <1>2 DEF Given
<1>3. CASE Given(ans)
  <2>1. \A i \in 1 .. Len(ans) : ans[i] # <<>>
    <3>1. CASE Listed(ans, typed, Blank) BY <3>1, <1>0, ListedFull
    <3>2. CASE ans = <<pwd>>
      <4>1. PICK d \in Dirs : pwd = FullName(d) BY DEF PwdInv
      <4>2. PICK n \in Nat : n = Len(d) BY DirNameFacts
      <4>3. Len(pwd) = 3 + 2 * n BY <4>1, <4>2, FullNameFacts
      <4>4. pwd # <<>>
        <5>1. Len(<<>>) = 0 /\ 3 + 2 * n # 0 OBVIOUS
        <5> QED BY <5>1, <4>3
      <4>5. Len(<<pwd>>) = 1 /\ <<pwd>>[1] = pwd /\ \A i \in 1 .. 1 : i = 1 OBVIOUS
      <4> QED BY <4>4, <4>5, <3>2
    <3> QED BY <3>1, <3>2, <1>3 DEF Given
  <2>2. argv' = ans BY <2>1, <1>0, <1>1, CopiedWords
  <2> QED BY <2>2, <1>1, <1>3
<1> QED BY <1>1, <1>2, <1>3

\* Every step keeps the account of words and blanks.
LEMMA WordsStep ==
  ASSUME ShellType, PwdInv, WordsInv, [Next]_vars, ShellType'
  PROVE  WordsInv'
<1>a. ans' \in Seq(Strings) BY DEF ShellType
<1>u. ASSUME pc' \notin {"start", "words", "sleep", "path", "script", "exec", "ran"} PROVE WordsInv'
  BY <1>u DEF WordsInv
<1>1. CASE ReadLine BY <1>1 DEF ReadLine, WordsInv
<1>2. CASE Start
  <2>1. typed' = typed /\ ans' = <<>> /\ pc' = Branch(binary', input') BY <1>2 DEF Start
  <2>2. /\ pc' \in {"words", "exec", "sleep", "path", "script", "end"}
        /\ pc' = "words" => binary' \in {<<"ls">>, <<"cat">>, <<"echo">>}
        /\ pc' = "sleep" => binary' = <<"sleep">>
    BY <2>1 DEF Branch
  <2>3. ASSUME Tidy(typed, Blank)
        PROVE  /\ Behind(input', typed, Blank, Len(ans') + 1) /\ binary' = Word(typed, Blank, 1)
               /\ Listed(ans', typed, Blank)
               /\ pc' = "exec" => Given(ans)'
    <3>1. /\ Behind(input', typed, Blank, 1) /\ binary' = Word(typed, Blank, 1)
          /\ Words(typed, Blank) \in Nat \ {0}
          /\ pc' = "exec" => typed = <<"ps">> /\ Words(typed, Blank) = 1 /\ binary' = <<"ps">>
      BY <2>3, <1>2, StartWords
    <3>2. Len(ans') = 0 /\ 0 + 1 = 1 /\ 1 .. 0 = {} BY <2>1
    <3>3. Listed(ans', typed, Blank) BY <3>1, <3>2 DEF Listed
    <3>4. pc' = "exec" => Given(ans)'
      <4>1. <<"ps">> # <<"ls">> /\ <<"ps">> # <<"sleep">> OBVIOUS
      <4> QED BY <4>1, <3>1, <3>2, <3>3, <2>1, <1>a DEF Given
    <3> QED BY <3>1, <3>2, <3>3, <3>4
  <2> QED BY <2>1, <2>2, <2>3 DEF WordsInv
<1>3. CASE NextWord
  <2>1. typed' = typed /\ binary' = binary /\ pwd' = pwd BY <1>3 DEF NextWord, dirVars
  <2>2. pc' \in {"words", "exec"} BY <1>3 DEF NextWord
  <2>3. ASSUME Tidy(typed, Blank)
        PROVE  /\ binary' = Word(typed, Blank, 1)
               /\ pc' = "words" => /\ Behind(input', typed, Blank, Len(ans') + 1)
                                   /\ binary' \in {<<"ls">>, <<"cat">>, <<"echo">>}
                                   /\ Listed(ans', typed, Blank)
               /\ pc' = "exec" => Given(ans)'
    <3>1. <<"sleep">> \notin {<<"ls">>, <<"cat">>, <<"echo">>} OBVIOUS
    <3> QED BY <3>1, <2>1, <2>3, <1>3, <1>a, NextWordWords DEF Given
  <2> QED BY <2>1, <2>2, <2>3 DEF WordsInv
<1>4. CASE SleepWord
  <2>1. typed' = typed /\ binary' = binary /\ pwd' = pwd /\ pc' = "exec"
    BY <1>4 DEF SleepWord, dirVars
  <2>2. ASSUME Tidy(typed, Blank)
        PROVE  /\ binary' = Word(typed, Blank, 1)
               /\ \/ Given(ans)'
                  \/ binary' = <<"sleep">> /\ Words(typed, Blank) = 1 /\ ans' = << <<>> >>
    <3>1. /\ binary = <<"sleep">> /\ binary = Word(typed, Blank, 1)
          /\ \/ Words(typed, Blank) = 1 /\ ans' = << <<>> >>
             \/ typed # <<"ls">> /\ Len(ans') = 1 /\ Listed(ans', typed, Blank)
      BY <2>2, <1>4, SleepWords
    <3>2. CASE Words(typed, Blank) = 1 /\ ans' = << <<>> >> BY <3>1, <3>2, <2>1
    <3>3. CASE typed # <<"ls">> /\ Len(ans') = 1 /\ Listed(ans', typed, Blank)
      <4>1. Len(ans') <= 1 BY <3>3
      <4> QED BY <4>1, <3>1, <3>3, <2>1, <1>a DEF Given
    <3> QED BY <3>1, <3>2, <3>3
  <2> QED BY <2>1, <2>2 DEF WordsInv
<1>5. CASE Exec
  <2>1. typed' = typed /\ binary' = binary /\ pwd' = pwd /\ pc' = "ran" BY <1>5 DEF Exec, dirVars
  <2>2. ASSUME Tidy(typed, Blank) PROVE binary' = Word(typed, Blank, 1) /\ Given(argv)'
    BY <2>1, <2>2, <1>5, ExecWords DEF Given
  <2> QED BY <2>1, <2>2 DEF WordsInv
<1>6. CASE ProgramEnds \/ Undefined BY <1>6, <1>u DEF ProgramEnds, Undefined
<1>7. CASE CdPath BY <1>7, <1>u DEF CdPath, BeginCd
<1>8. CASE Cd
  BY <1>8, <1>u DEF Cd, CdNext, CdUp, CdAbsolute, CdDown, Chdir, EndCd, NextTurn
<1>9. CASE ReadScript \/ CheckShebang BY <1>9, <1>u DEF ReadScript, CheckShebang
<1>10. CASE NextLine
  <2>1. CASE Split(i1 + 1, buf, Newline) = <<>> BY <2>1, <1>10, <1>u DEF NextLine
  <2>2. CASE Split(i1 + 1, buf, Newline) # <<>>
    <3>1. pc' = "start" /\ input' = typed' BY <2>2, <1>10 DEF NextLine
    <3> QED BY <3>1 DEF WordsInv
  <2> QED BY <2>1, <2>2
<1>11. CASE EndCommand BY <1>11, <1>u DEF EndCommand, ToPrompt
<1>12. CASE UNCHANGED vars
  BY <1>12 DEF vars, dirVars, WordsInv, Given
<1> QED BY <1>1, <1>2, <1>3, <1>4, <1>5, <1>6, <1>7, <1>8, <1>9, <1>10, <1>11, <1>12 DEF Next
------------------------------------------------------------------------------
\* While a tidy line is carried out, split is asked for at most as many pieces
\* as the line has words, twice.
LEMMA PiecesFit ==
  ASSUME ShellType, WordsInv, typed # <<>>, Plain(typed),
         pc \in {"start", "words", "sleep", "path"}
  PROVE  Pieces(input, Blank) <= Entries
<1>0. /\ typed \in Seq(Symbol) /\ input \in Seq(Symbol) /\ ans \in Seq(Strings)
      /\ typed \in Strings /\ Blank \in Symbol /\ Blank # Zero
  BY Symbols DEF ShellType, Strings
<1>1. Tidy(typed, Blank) /\ 2 * Words(typed, Blank) <= Entries BY <1>0, PlainFacts
<1>2. PICK w \in Nat \ {0} : w = Words(typed, Blank) BY <1>0, <1>1, BoundFacts
<1>e. Entries \in Nat BY ShellAssumption
<1>3. PICK n \in Nat : Behind(input, typed, Blank, n) /\ n <= w
  <2>1. CASE pc = "start"
    <3>1. Behind(typed, typed, Blank, 0) BY <1>0, BehindItself
    <3> QED BY <3>1, <2>1, <1>2 DEF WordsInv
  <2>2. CASE pc = "words"
    <3>1. Behind(input, typed, Blank, Len(ans) + 1) /\ Len(ans) < w
      BY <2>2, <1>1, <1>2 DEF WordsInv, Listed
    <3>2. Len(ans) + 1 \in Nat /\ Len(ans) + 1 <= w BY <3>1, <1>0
    <3> QED BY <3>1, <3>2
  <2>3. CASE pc \in {"sleep", "path"}
    <3>1. Behind(input, typed, Blank, Len(ans) + 1) /\ ans = <<>> BY <2>3, <1>1 DEF WordsInv
    <3>2. Len(ans) + 1 \in Nat /\ Len(ans) + 1 <= w BY <3>1, <1>2
    <3> QED BY <3>1, <3>2
  <2> QED BY <2>1, <2>2, <2>3
<1>4. Pieces(input, Blank) = w + n BY <1>0, <1>1, <1>2, <1>3, SplitBehind
<1> QED BY <1>1, <1>2, <1>3, <1>4, <1>e

\* The next line of a plain script, or its end.
LEMMA ScriptLine ==
  ASSUME ShellType, script # NoScript, PlainScript(File[script[1]]),
         Listed(done, Inner(File[script[1]]), Newline), i1 = Len(done) + 1,
         Behind(buf, Inner(File[script[1]]), Newline, Len(done) + 2)
  PROVE  LET l == Inner(File[script[1]]) IN
         /\ Pieces(buf, Newline) <= Entries
         /\ Behind(Marked(buf, Newline), l, Newline, (Len(done) + 1) + 2)
         /\ \/ /\ Split(i1 + 1, buf, Newline) = <<>> /\ Len(done) + 1 = Words(l, Newline)
            \/ /\ Split(i1 + 1, buf, Newline) # <<>>
               /\ \A k \in DOMAIN Split(i1 + 1, buf, Newline) :
                    Split(i1 + 1, buf, Newline)[k] \notin DOMAIN File
               /\ Listed(Append(done, Split(i1 + 1, buf, Newline)), l, Newline)
<1>f. PICK f \in DOMAIN File : script = <<f>> BY DEF ShellType
<1>t. PICK text \in Strings : text = File[script[1]] /\ PlainScript(text)
  <2>1. script[1] = f BY <1>f
  <2>2. File[f] \in Strings BY ShellAssumption DEF Strings
  <2> QED BY <2>1, <2>2
<1>l. PICK l \in Seq(Symbol) : /\ l = Inner(text) /\ Tidy(l, Newline)
                               /\ 2 * Words(l, Newline) < Entries
                               /\ text = Append(l, Newline)
  BY <1>t, ScriptFacts DEF Strings
<1>0. /\ buf \in Seq(Symbol) /\ done \in Seq(Strings) /\ Newline \in Symbol /\ Newline # Zero
  BY Symbols DEF ShellType, Strings
<1>e. Entries \in Nat BY ShellAssumption
<1>1. PICK m \in Nat : m = Len(done) BY <1>0
<1>2. PICK w \in Nat \ {0} : w = Words(l, Newline) /\ m < w
  <2>1. Words(l, Newline) \in Nat \ {0} BY <1>0, <1>l, BoundFacts
  <2> QED BY <2>1, <1>1, <1>t, <1>l DEF Listed
<1>3. m + 2 \in Nat /\ Behind(buf, l, Newline, m + 2) BY <1>1, <1>t, <1>l
<1>4. Pieces(buf, Newline) <= Entries
  <2>1. Pieces(buf, Newline) = w + (m + 2) BY <1>0, <1>l, <1>2, <1>3, SplitBehind, ZenonT(30)
  <2>2. 2 * w < Entries BY <1>l, <1>2
  <2> QED BY <2>1, <2>2, <1>2, <1>e
<1>5. Behind(Marked(buf, Newline), l, Newline, (m + 1) + 2)
  <2>1. Behind(Marked(buf, Newline), l, Newline, (m + 2) + 1) BY <1>0, <1>3, BehindMarked
  <2>2. (m + 2) + 1 = (m + 1) + 2 OBVIOUS
  <2> QED BY <2>1, <2>2
<1>6. i1 + 1 = m + 2 BY <1>1
<1>7. CASE m + 1 = w
  <2>1. Split(w + 1, buf, Newline) = <<>> BY <1>0, <1>l, <1>2, <1>3, SplitBehind, ZenonT(30)
  <2>2. w + 1 = i1 + 1 BY <1>6, <1>7
  <2> QED BY <2>1, <2>2, <1>1, <1>2, <1>4, <1>5, <1>7, <1>l, <1>t
<1>8. CASE m + 1 # w
  <2>1. m + 2 \in 1 .. w /\ m + 2 > 0 /\ m + 1 < w BY <1>2, <1>8
  <2>2. Split(m + 2, buf, Newline) = Word(l, Newline, m + 2)
    <3>1. \A n \in 1 .. Words(l, Newline) :
            n < Words(l, Newline) \/ n = 1 \/ m + 2 > 0 => Split(n, buf, Newline) = Word(l, Newline, n)
      BY <1>0, <1>l, <1>3, SplitBehind
    <3> QED BY <3>1, <2>1, <1>2
  <2>3. PICK k \in 1 .. w : k = m + 2 BY <2>1
  <2>4. PICK v \in Strings :
          /\ v = Word(l, Newline, k) /\ v # <<>>
          /\ \A i \in 1 .. Len(v) : v[i] = l[Bound(l, Newline, k - 1) + i]
          /\ Len(v) = Bound(l, Newline, k) - Bound(l, Newline, k - 1) - 1
    <3>1. k \in 1 .. Words(l, Newline) BY <2>3, <1>2
    <3>2. /\ Word(l, Newline, k) \in Seq(Symbol) /\ Word(l, Newline, k) # <<>>
          /\ Len(Word(l, Newline, k)) = Bound(l, Newline, k) - Bound(l, Newline, k - 1) - 1
          /\ \A i \in 1 .. Len(Word(l, Newline, k)) :
               Word(l, Newline, k)[i] = l[Bound(l, Newline, k - 1) + i]
      BY <3>1, <1>0, <1>l, WordFacts, SMTT(30)
    <3> QED BY <3>2 DEF Strings
  <2>5. ASSUME NEW i \in DOMAIN v PROVE v[i] \notin DOMAIN File
    <3>1. i \in 1 .. Len(v) BY DEF Strings
    <3>2. PICK L \in Nat : L = Len(l) OBVIOUS
    <3>3. PICK b \in 1 .. L + 1 : b = Bound(l, Newline, k) BY <3>2, <2>3, <1>0, <1>l, <1>2, BoundFacts
    <3>4. PICK d \in 0 .. L : d = Bound(l, Newline, k - 1) BY <3>2, <2>3, <1>0, <1>l, <1>2, BoundFacts
    <3>5. PICK q \in 1 .. L : q = d + i
      <4>1. i \in 1 .. b - d - 1 BY <3>1, <3>3, <3>4, <2>4
      <4>2. d + i \in 1 .. L BY <4>1, <3>3, <3>4
      <4> QED BY <4>2
    <3>6. v[i] = l[q] BY <3>1, <3>4, <3>5, <2>4
    <3>7. l[q] = text[q] /\ q \in DOMAIN text
      <4>1. /\ Append(l, Newline) \in Seq(Symbol) /\ Len(Append(l, Newline)) = L + 1
            /\ \A n \in 1 .. L : Append(l, Newline)[n] = l[n]
        BY <3>2, <1>0
      <4>2. text \in Seq(Symbol) /\ Len(text) = L + 1 /\ \A n \in 1 .. L : text[n] = l[n]
        BY <4>1, <1>l
      <4> QED BY <4>2, <3>5
    <3>8. text[q] \notin DOMAIN File BY <3>7, <1>t DEF PlainScript
    <3> QED BY <3>6, <3>7, <3>8
  <2>6. PICK x \in Seq(Strings) : /\ x = Append(done, v) /\ Len(x) = m + 1 /\ x[m + 1] = v
                                  /\ \A i \in 1 .. m : x[i] = done[i]
    <3>1. /\ Append(done, v) \in Seq(Strings) /\ Len(Append(done, v)) = m + 1
          /\ Append(done, v)[m + 1] = v /\ \A i \in 1 .. m : Append(done, v)[i] = done[i]
      BY <1>0, <1>1
    <3> QED BY <3>1
  <2>7. Listed(x, l, Newline)
    <3>1. ASSUME NEW i \in 1 .. m + 1 PROVE x[i] = Word(l, Newline, i + 1)
      <4>1. CASE i = m + 1
        <5>1. i + 1 = k BY <4>1, <2>3
        <5> QED BY <5>1, <4>1, <2>4, <2>6
      <4>2. CASE i # m + 1
        <5>1. i \in 1 .. m BY <4>2
        <5> QED BY <5>1, <2>6, <1>1, <1>l, <1>t DEF Listed
      <4> QED BY <4>1, <4>2
    <3> QED BY <3>1, <2>1, <2>6, <1>2 DEF Listed
  <2>8. Split(i1 + 1, buf, Newline) = v BY <2>2, <2>3, <2>4, <1>6
  <2> QED BY <2>4, <2>5, <2>6, <2>7, <2>8, <1>1, <1>4, <1>5, <1>l, <1>t
<1> QED BY <1>7, <1>8
\* Every step keeps the account of lines and newlines.
LEMMA ScriptStep ==
  ASSUME ShellType, WordsInv, FlagInv, ScriptInv, [Next]_vars
  PROVE  ScriptInv'
<1> SUFFICES ASSUME script' # NoScript, NEW text, text = File[script'[1]], PlainScript(text)
             PROVE  Carrying(text)'
  BY DEF ScriptInv
<1> DEFINE l == Inner(text)
<1>0. done \in Seq(Strings) /\ i1 \in Nat /\ flag1 \in {0, 1} BY DEF ShellType
<1>s. ASSUME script' = script PROVE Carrying(text) BY <1>s DEF ScriptInv
<1>1. CASE ReadLine BY <1>1 DEF ReadLine
<1>2. CASE Start
  <2>1. /\ script' = script /\ UNCHANGED <<typed, done, i1, buf, flag1>> /\ pc = "start"
        /\ input' = Marked(input, Blank) /\ pc' = Branch(binary', input')
    BY <1>2 DEF Start
  <2>2. Carrying(text) /\ input = typed BY <2>1, <1>s DEF WordsInv
  <2>3. flag1 = 1 BY <2>1, <1>0 DEF FlagInv, Commanded
  <2>4. pc' # "script"
    <3>1. PICK t \in Seq(Symbol) : t = typed BY DEF ShellType, Strings
    <3>2. \A k \in 1 .. Len(t) : t[k] \notin DOMAIN File BY <3>1, <2>1, <2>2 DEF Carrying
    <3>3. Blank \notin DOMAIN File BY ShellAssumption
    <3>4. PICK x \in Seq(Symbol) : /\ x = Append(t, Blank) /\ Len(x) = Len(t) + 1
                                   /\ x[Len(t) + 1] = Blank /\ \A k \in 1 .. Len(t) : x[k] = t[k]
      <4>1. Blank \in Symbol BY Symbols
      <4>2. /\ Append(t, Blank) \in Seq(Symbol) /\ Len(Append(t, Blank)) = Len(t) + 1
            /\ Append(t, Blank)[Len(t) + 1] = Blank
            /\ \A k \in 1 .. Len(t) : Append(t, Blank)[k] = t[k]
        BY <4>1
      <4> QED BY <4>2
    <3>5. input' = x BY <3>1, <3>4, <2>1, <2>2 DEF Marked
    <3>6. ASSUME NEW k \in DOMAIN x PROVE x[k] \notin DOMAIN File
      <4>1. k \in 1 .. Len(t) \/ k = Len(t) + 1 BY <3>4
      <4> QED BY <4>1, <3>2, <3>3, <3>4
    <3> QED BY <3>5, <3>6, <2>1 DEF Branch
  <2>5. pc' \in {"words", "exec", "sleep", "path", "end"} BY <2>1, <2>4 DEF Branch
  <2> QED BY <2>1, <2>2, <2>3, <2>5 DEF Carrying, Commanded
<1>3. CASE NextWord \/ SleepWord \/ Exec \/ ProgramEnds \/ CdPath \/ Cd
  <2>1. script' = script /\ UNCHANGED <<typed, done, i1, buf, flag1>>
    BY <1>3 DEF NextWord, SleepWord, Exec, ProgramEnds, CdPath, Cd
  <2>2. pc \in Commanded
    BY <1>3 DEF NextWord, SleepWord, Exec, ProgramEnds, CdPath, Cd, Commanded,
                CdNext, CdUp, CdAbsolute, CdDown, Chdir, EndCd
  <2>3. pc' \in {"words", "exec", "ran", "cd", "chdir", "end"}
    <3>1. CASE NextWord BY <3>1 DEF NextWord
    <3>2. CASE SleepWord \/ Exec \/ ProgramEnds BY <3>2 DEF SleepWord, Exec, ProgramEnds
    <3>3. CASE CdPath BY <3>3 DEF CdPath, BeginCd
    <3>4. CASE Cd BY <3>4 DEF Cd, CdNext, CdUp, CdAbsolute, CdDown, Chdir, EndCd, NextTurn
    <3> QED BY <3>1, <3>2, <3>3, <3>4, <1>3
  <2>4. flag1 = 1 BY <2>1, <2>2, <1>0 DEF FlagInv
  <2>5. Carrying(text) BY <2>1, <1>s
  <2> QED BY <2>1, <2>2, <2>3, <2>4, <2>5 DEF Carrying, Commanded
<1>4. CASE ReadScript
  <2>1. /\ pc = "script" /\ pc' = "shebang" /\ done' = done
        /\ script' = (IF flag1 = 0 THEN Split(2, input, Blank) ELSE script)
        /\ buf' = File[Split(2, input, Blank)[1]]
    BY <1>4 DEF ReadScript
  <2>2. flag1 = 0
    <3>1. ASSUME flag1 # 0 PROVE FALSE
      <4>1. script' = script BY <3>1, <2>1
      <4>2. Carrying(text) BY <4>1, <1>s
      <4> QED BY <4>2, <2>1 DEF Carrying
    <3> QED BY <3>1
  <2>3. done' = <<>> BY <2>1, <2>2 DEF FlagInv
  <2>4. buf' = text BY <2>1, <2>2
  <2>5. text \in Strings
    <3>1. Split(2, input, Blank)[1] \in DOMAIN File BY <1>4 DEF ReadScript
    <3> QED BY <3>1, <2>1, <2>2, ShellAssumption DEF Strings
  <2>6. Listed(<<>>, l, Newline)
    <3>1. l \in Seq(Symbol) /\ Tidy(l, Newline) BY <2>5, ScriptFacts DEF Strings
    <3>2. Words(l, Newline) \in Nat \ {0} BY <3>1, Symbols, BoundFacts
    <3>3. Len(<<>>) = 0 /\ 1 .. 0 = {} OBVIOUS
    <3> QED BY <3>2, <3>3 DEF Listed
  <2> QED BY <2>1, <2>3, <2>4, <2>6 DEF Carrying, Commanded
<1>5. CASE CheckShebang
  <2>1. /\ pc = "shebang" /\ script' = script /\ UNCHANGED <<typed, done, flag1>>
        /\ buf' = Marked(buf, Newline)
        /\ IF Split(1, buf, Newline) = <<Shebang>>
           THEN i1' = 1 /\ pc' = "lines" ELSE pc' = "end" /\ UNCHANGED i1
    BY <1>5 DEF CheckShebang
  <2>2. Carrying(text) /\ done = <<>> /\ buf = text /\ script # NoScript
    BY <2>1, <1>s DEF Carrying, FlagInv
  <2>3. text \in Strings BY <2>2 DEF ShellType
  <2>4. /\ l \in Seq(Symbol) /\ Tidy(l, Newline) /\ Behind(text, l, Newline, 1)
        /\ Word(l, Newline, 1) = <<Shebang>> /\ text \in Seq(Symbol)
    BY <2>3, ScriptFacts DEF Strings
  <2>5. Newline \in Symbol /\ Newline # Zero BY Symbols
  <2>6. Split(1, text, Newline) = <<Shebang>>
    <3>1. Words(l, Newline) \in Nat \ {0} BY <2>4, <2>5, BoundFacts
    <3>2. 1 \in 1 .. Words(l, Newline) BY <3>1
    <3> HIDE DEF l
    <3> QED BY <3>2, <2>4, <2>5, SplitBehind
  <2>7. Behind(buf', l, Newline, 2)
    <3>1. Behind(Marked(text, Newline), l, Newline, 1 + 1)
      <4> HIDE DEF l
      <4> QED BY <2>4, <2>5, BehindMarked
    <3>2. 1 + 1 = 2 OBVIOUS
    <3> QED BY <3>1, <3>2, <2>1, <2>2
  <2>8. i1' = 1 /\ pc' = "lines" BY <2>1, <2>2, <2>6
  <2>9. Len(<<>>) = 0 /\ 0 + 1 = 1 /\ 0 + 2 = 2 OBVIOUS
  <2> QED BY <2>1, <2>2, <2>7, <2>8, <2>9 DEF Carrying, Commanded
<1>6. CASE NextLine
  <2>1. /\ pc = "lines" /\ script' = script /\ i1' = i1 /\ buf' = Marked(buf, Newline)
        /\ IF Split(i1 + 1, buf, Newline) = <<>>
           THEN flag1' = 0 /\ pc' = "end" /\ UNCHANGED <<input, typed, done>>
           ELSE /\ flag1' = 1 /\ pc' = "start"
                /\ typed' = Split(i1 + 1, buf, Newline)
                /\ done' = Append(done, Split(i1 + 1, buf, Newline))
    BY <1>6 DEF NextLine
  <2>2. Carrying(text) BY <2>1, <1>s
  <2>3. /\ Listed(done, l, Newline) /\ i1 = Len(done) + 1
        /\ Behind(buf, l, Newline, Len(done) + 2)
    BY <2>1, <2>2 DEF Carrying
  <2>4. /\ Behind(Marked(buf, Newline), l, Newline, (Len(done) + 1) + 2)
        /\ \/ /\ Split(i1 + 1, buf, Newline) = <<>> /\ Len(done) + 1 = Words(l, Newline)
           \/ /\ Split(i1 + 1, buf, Newline) # <<>>
              /\ \A k \in DOMAIN Split(i1 + 1, buf, Newline) :
                   Split(i1 + 1, buf, Newline)[k] \notin DOMAIN File
              /\ Listed(Append(done, Split(i1 + 1, buf, Newline)), l, Newline)
    BY <2>1, <2>3, ScriptLine
  <2>5. CASE Split(i1 + 1, buf, Newline) = <<>>
    BY <2>1, <2>2, <2>4, <2>5 DEF Carrying, Commanded
  <2>6. CASE Split(i1 + 1, buf, Newline) # <<>>
    <3>1. PICK v \in Strings : v = Split(i1 + 1, buf, Newline)
      <4>1. i1 + 1 \in Nat \ {0} /\ buf \in Strings /\ Newline \in Symbol
        BY <1>0, Symbols DEF ShellType
      <4> QED BY <4>1, StringOps
    <3>2. done' = Append(done, v) /\ typed' = v /\ v # <<>> /\ pc' = "start" /\ flag1' = 1
      BY <3>1, <2>1, <2>6
    <3>3. Len(done') = Len(done) + 1 BY <3>2, <1>0
    <3>4. \A k \in DOMAIN v : v[k] \notin DOMAIN File BY <3>1, <2>4, <2>6
    <3>5. Listed(done', l, Newline) BY <3>1, <3>2, <2>4, <2>6
    <3>6. i1' = Len(done') /\ Behind(buf', l, Newline, Len(done') + 2)
      BY <3>3, <2>1, <2>3, <2>4
    <3> QED BY <3>2, <3>4, <3>5, <3>6 DEF Carrying, Commanded
  <2> QED BY <2>5, <2>6
<1>7. CASE EndCommand
  <2>1. pc = "end" /\ script' = script /\ UNCHANGED <<flag1, done>> BY <1>7 DEF EndCommand
  <2>2. Carrying(text) BY <2>1, <1>s
  <2>3. CASE flag1 = 1
    <3>1. pc' = "lines" /\ i1' = i1 + 1 /\ UNCHANGED <<typed, buf>> BY <2>3, <1>7 DEF EndCommand
    <3> QED BY <3>1, <2>1, <2>2, <2>3 DEF Carrying, Commanded
  <2>4. CASE flag1 # 1
    <3>1. pc' = "prompt" /\ flag1 = 0 BY <2>4, <1>0, <1>7 DEF EndCommand, ToPrompt
    <3> QED BY <3>1, <2>1, <2>2, <2>4 DEF Carrying, Commanded
  <2> QED BY <2>3, <2>4
<1>8. CASE Undefined
  <2>1. /\ pc' = "undefined" /\ script' = script /\ UNCHANGED <<typed, done>> BY <1>8 DEF Undefined
  <2>2. Carrying(text) /\ pc # "script" BY <2>1, <1>s DEF Carrying
  <2>3. ~ Plain(typed)
    <3>1. CASE pc \in {"start", "words", "sleep", "path"} /\ Pieces(input, Blank) > Entries
      <4>1. typed # <<>> BY <3>1, <2>2 DEF Carrying, Commanded
      <4>2. Pieces(input, Blank) \in Nat /\ Entries \in Nat
        <5>1. input \in Seq(Symbol) /\ Blank \in Symbol /\ 1 \in Nat \ {0}
          BY Symbols DEF ShellType, Strings
        <5> QED BY <5>1, SplitType, ShellAssumption
      <4>3. ~ (Pieces(input, Blank) <= Entries) BY <3>1, <4>2
      <4> QED BY <3>1, <4>1, <4>3, PiecesFit
    <3>2. CASE pc \in {"shebang", "lines"} /\ Pieces(buf, Newline) > Entries
      <4>0. /\ buf \in Seq(Symbol) /\ Newline \in Symbol /\ Newline # Zero /\ 1 \in Nat \ {0}
            /\ Entries \in Nat
        BY Symbols, ShellAssumption DEF ShellType, Strings
      <4>1. Pieces(buf, Newline) \in Nat BY <4>0, SplitType
      <4>2. Pieces(buf, Newline) <= Entries
        <5>1. CASE pc = "lines"
          <6>1. /\ Listed(done, l, Newline) /\ i1 = Len(done) + 1
                /\ Behind(buf, l, Newline, Len(done) + 2)
            BY <5>1, <2>2 DEF Carrying
          <6> QED BY <6>1, <2>1, ScriptLine
        <5>2. CASE pc = "shebang"
          <6>1. buf = text BY <5>2, <2>2 DEF Carrying
          <6>2. text \in Strings BY <6>1 DEF ShellType
          <6>3. /\ l \in Seq(Symbol) /\ Tidy(l, Newline) /\ Behind(text, l, Newline, 1)
                /\ 2 * Words(l, Newline) < Entries
            BY <6>2, ScriptFacts DEF Strings
          <6> HIDE DEF l
          <6>4. PICK w \in Nat \ {0} : w = Words(l, Newline) BY <6>3, <4>0, BoundFacts
          <6>5. Pieces(text, Newline) = w + 1
            <7>1. text \in Seq(Symbol) BY <6>2 DEF Strings
            <7> QED BY <7>1, <6>3, <6>4, <4>0, SplitBehind
          <6> QED BY <6>1, <6>3, <6>4, <6>5, <4>0
        <5> QED BY <5>1, <5>2, <3>2
      <4> QED BY <4>0, <4>1, <4>2, <3>2
    <3> QED BY <3>1, <3>2, <2>2, <1>8 DEF Undefined
  <2> QED BY <2>1, <2>2, <2>3 DEF Carrying, Commanded
<1>9. CASE UNCHANGED vars
  <2>1. script' = script /\ UNCHANGED <<pc, typed, done, i1, buf, flag1>> BY <1>9 DEF vars
  <2>2. Carrying(text) BY <2>1, <1>s
  <2> QED BY <2>1, <2>2 DEF Carrying
<1> QED BY <1>1, <1>2, <1>3, <1>4, <1>5, <1>6, <1>7, <1>8, <1>9 DEF Next

\* Every step keeps a plain line from an undefined outcome.
LEMMA UndefinedStep ==
  ASSUME ShellType, WordsInv, FlagInv, UndefinedInv, [Next]_vars
  PROVE  UndefinedInv'
<1>1. CASE Undefined
  <2>1. UNCHANGED <<typed, input, binary, script>> BY <1>1 DEF Undefined
  <2>2. ASSUME typed # <<>>, Plain(typed)
        PROVE  Branch(binary, input) = "script" \/ script # NoScript
    <3>1. CASE pc \in {"start", "words", "sleep", "path"} /\ Pieces(input, Blank) > Entries
      <4>1. Pieces(input, Blank) <= Entries BY <3>1, <2>2, PiecesFit
      <4>2. Pieces(input, Blank) \in Nat /\ Entries \in Nat
        <5>1. input \in Seq(Symbol) /\ Blank \in Symbol /\ 1 \in Nat \ {0}
          BY Symbols DEF ShellType, Strings
        <5> QED BY <5>1, SplitType, ShellAssumption
      <4> QED BY <4>1, <4>2, <3>1
    <3>2. CASE pc = "script" BY <3>2 DEF WordsInv
    <3>3. CASE pc \in {"shebang", "lines"} BY <3>3 DEF FlagInv
    <3> QED BY <3>1, <3>2, <3>3, <1>1 DEF Undefined
  <2> QED BY <2>1, <2>2 DEF UndefinedInv
<1>2. CASE ~ Undefined /\ Next
  <2>1. pc' # "undefined"
    <3>1. CASE ReadLine \/ SleepWord \/ Exec \/ ProgramEnds \/ ReadScript
      BY <3>1 DEF ReadLine, SleepWord, Exec, ProgramEnds, ReadScript
    <3>2. CASE Start BY <3>2 DEF Start, Branch
    <3>3. CASE NextWord BY <3>3 DEF NextWord
    <3>4. CASE CdPath BY <3>4 DEF CdPath, BeginCd
    <3>5. CASE Cd BY <3>5 DEF Cd, CdNext, CdUp, CdAbsolute, CdDown, Chdir, EndCd, NextTurn
    <3>6. CASE CheckShebang BY <3>6 DEF CheckShebang
    <3>7. CASE NextLine BY <3>7 DEF NextLine
    <3>8. CASE EndCommand BY <3>8 DEF EndCommand, ToPrompt
    <3> QED BY <3>1, <3>2, <3>3, <3>4, <3>5, <3>6, <3>7, <3>8, <1>2 DEF Next
  <2> QED BY <2>1 DEF UndefinedInv
<1>3. CASE UNCHANGED vars BY <1>3 DEF vars, UndefinedInv
<1> QED BY <1>1, <1>2, <1>3

\* The inductive invariant of the shell's loop, for every set of lines, files and
\* directories and any number of strings: what it is in the middle of, and how many
\* separators the calls of split have cost the line and the script so far.
THEOREM ShellInvariant == Spec => []ShellInv
<1>1. ShellInv /\ [Next]_vars => ShellInv'
  <2> SUFFICES ASSUME ShellInv, [Next]_vars PROVE ShellInv' OBVIOUS
  <2>0. ShellType /\ PwdInv /\ WordsInv /\ FlagInv /\ ScriptInv /\ UndefinedInv BY DEF ShellInv
  <2>1. ShellType' /\ PwdInv' BY <2>0, TypeStep
  <2>2. WordsInv' BY <2>0, <2>1, WordsStep
  <2>3. FlagInv' BY <2>0, FlagStep
  <2>4. ScriptInv' BY <2>0, ScriptStep
  <2>5. UndefinedInv' BY <2>0, UndefinedStep
  <2> QED BY <2>1, <2>2, <2>3, <2>4, <2>5 DEF ShellInv
<1> QED BY <1>1, InvInit, PTL DEF Spec

\* Words listed in their order, each with a separator behind it, are the beginning
\* of the line, and all of it when none is missing.
LEMMA EndedListed ==
  ASSUME NEW S, NEW line \in Seq(S), NEW sep \in S, Tidy(line, sep),
         NEW words \in Seq(Seq(S)), Listed(words, line, sep)
  PROVE  /\ IsPrefix(Ended(<<Word(line, sep, 1)>> \o words, sep), Append(line, sep))
         /\ Len(words) + 1 = Words(line, sep) =>
              Ended(<<Word(line, sep, 1)>> \o words, sep) = Append(line, sep)
<1>1. PICK m \in Nat : m = Len(words) OBVIOUS
<1>2. PICK w \in Nat \ {0} : w = Words(line, sep) /\ m < w
  <2>1. Words(line, sep) \in Nat \ {0} BY BoundFacts
  <2> QED BY <2>1, <1>1 DEF Listed
<1>3. PICK v \in Seq(S) : v = Word(line, sep, 1)
  <2>1. 1 \in 1 .. Words(line, sep) BY <1>2
  <2> QED BY <2>1, WordFacts
<1>4. PICK n \in 1 .. Words(line, sep) : n = m + 1
  <2>1. m + 1 \in 1 .. Words(line, sep) BY <1>2
  <2> QED BY <2>1
<1>n. n \in Nat /\ n > 0 BY <1>4
<1>5. PICK parts \in [1 .. n -> Seq(S)] :
        /\ parts = <<v>> \o words /\ parts[1] = v /\ \A k \in 2 .. n : parts[k] = words[k - 1]
  <2>1. PICK u \in Seq(Seq(S)) : u = <<v>> /\ Len(u) = 1 /\ u[1] = v
    <3>1. <<v>> \in Seq(Seq(S)) /\ Len(<<v>>) = 1 /\ <<v>>[1] = v OBVIOUS
    <3> QED BY <3>1
  <2>2. u \o words \in Seq(Seq(S)) /\ Len(u \o words) = n
    <3>1. u \o words \in Seq(Seq(S)) /\ Len(u \o words) = Len(u) + Len(words) OBVIOUS
    <3> QED BY <3>1, <2>1, <1>1, <1>4
  <2>3. (u \o words)[1] = v
    <3>1. 1 \in 1 .. Len(u) BY <2>1
    <3>2. (u \o words)[1] = u[1] BY <3>1
    <3> QED BY <3>2, <2>1
  <2>4. ASSUME NEW k \in 2 .. n PROVE (u \o words)[k] = words[k - 1]
    <3>1. PICK i \in 1 .. Len(words) : k = Len(u) + i /\ k - 1 = i
      <4>1. k - 1 \in 1 .. Len(words) /\ k = Len(u) + (k - 1) BY <2>1, <1>1, <1>4, <1>n
      <4> QED BY <4>1
    <3>2. (u \o words)[Len(u) + i] = words[i] BY SMTT(30)
    <3>3. (u \o words)[k] = (u \o words)[Len(u) + i] BY ONLY <3>1, Zenon
    <3>4. words[k - 1] = words[i] BY ONLY <3>1, Zenon
    <3> QED BY ONLY <3>2, <3>3, <3>4, Zenon
  <2>5. PICK x \in Seq(Seq(S)) : x = u \o words BY <2>2
  <2>6. x \in [1 .. n -> Seq(S)]
    <3>1. Len(x) = n BY <2>2, <2>5
    <3>2. x \in [1 .. Len(x) -> Seq(S)] OBVIOUS
    <3> QED BY <3>1, <3>2
  <2> QED BY <2>1, <2>3, <2>4, <2>5, <2>6
<1>6. ASSUME NEW k \in 1 .. n PROVE parts[k] = Word(line, sep, k)
  <2>1. CASE k = 1 BY <2>1, <1>3, <1>5
  <2>2. CASE k # 1
    <3>1. PICK i \in 1 .. m : k - 1 = i /\ k = i + 1 /\ k \in 2 .. n
      <4>1. k - 1 \in 1 .. m /\ k = (k - 1) + 1 /\ k \in 2 .. n BY <2>2, <1>4, <1>n
      <4> QED BY <4>1
    <3>2. parts[k] = words[i] BY <3>1, <1>5
    <3>3. words[i] = Word(line, sep, i + 1) BY <1>1 DEF Listed
    <3> QED BY <3>1, <3>2, <3>3
  <2> QED BY <2>1, <2>2
<1>7. Ended(parts, sep) = SubSeq(Append(line, sep), 1, Bound(line, sep, n))
  <2>1. \A k \in 1 .. n : parts[k] = Word(line, sep, k) BY <1>6
  <2>2. line \in Seq(S) /\ sep \in S /\ Tidy(line, sep) OBVIOUS
  <2>3. n \in 1 .. Words(line, sep) /\ parts \in [1 .. n -> Seq(S)] OBVIOUS
  <2>4. \A x \in [1 .. n -> Seq(S)] :
          (\A k \in 1 .. n : x[k] = Word(line, sep, k)) =>
            Ended(x, sep) = SubSeq(Append(line, sep), 1, Bound(line, sep, n))
    BY ONLY Tidy(line, sep), EndedWords, Zenon, SMTT(30)
  <2> QED BY ONLY <2>1, <2>3, <2>4, Zenon
<1>8. PICK s \in Seq(S) : s = Append(line, sep) /\ Len(s) = Len(line) + 1
  <2>1. Append(line, sep) \in Seq(S) /\ Len(Append(line, sep)) = Len(line) + 1 OBVIOUS
  <2> QED BY <2>1
<1>9. PICK b \in 1 .. Len(s) : b = Bound(line, sep, n)
  <2>1. Bound(line, sep, n) \in 1 .. Len(line) + 1 BY BoundFacts
  <2> QED BY <2>1, <1>8
<1>10. IsPrefix(SubSeq(s, 1, b), s)
  <2>1. PICK e \in Seq(S) : /\ e = SubSeq(s, 1, b) /\ Len(e) = b
    <3>1. SubSeq(s, 1, b) \in Seq(S) /\ Len(SubSeq(s, 1, b)) = b OBVIOUS
    <3> QED BY <3>1
  <2>2. SubSeq(e, 1, Len(e)) = e OBVIOUS
  <2>3. Len(e) <= Len(s) BY <2>1
  <2> QED BY <2>1, <2>2, <2>3 DEF IsPrefix
<1>11. n = w => SubSeq(s, 1, b) = s
  <2>1. ASSUME n = w PROVE SubSeq(s, 1, b) = s
    <3>1. b = Len(s) BY <2>1, <1>2, <1>8, <1>9, BoundFacts
    <3>2. SubSeq(s, 1, Len(s)) = s OBVIOUS
    <3> QED BY <3>1, <3>2
  <2> QED BY <2>1
<1>12. Ended(<<Word(line, sep, 1)>> \o words, sep) = SubSeq(s, 1, b)
  BY <1>3, <1>5, <1>7, <1>8, <1>9
<1> QED BY <1>1, <1>2, <1>4, <1>8, <1>10, <1>11, <1>12

\* A program is run with the words of the line: none is lost, cut or added by the
\* calls of split, although each of them changes the line.
THEOREM ArgumentsAreWords == Spec => []ArgvIsWords
<1>1. ShellInv => ArgvIsWords
  <2> SUFFICES ASSUME ShellInv, typed # <<>>, Plain(typed)
               PROVE  /\ pc = "undefined" => \/ Branch(binary, input) = "script"
                                             \/ script # NoScript
                      /\ pc = "ran" =>
                           LET args == IF typed = <<"ls">> THEN <<>> ELSE argv
                               line == Ended(<<binary>> \o args, Blank) IN
                           IF binary = <<"sleep">> THEN IsPrefix(line, Append(typed, Blank))
                                                   ELSE line = Append(typed, Blank)
    BY DEF ArgvIsWords
  <2>0. ShellType /\ WordsInv /\ UndefinedInv BY DEF ShellInv
  <2>1. /\ typed \in Strings /\ typed \in Seq(Symbol) /\ Blank \in Symbol /\ Strings = Seq(Symbol)
    BY <2>0, Symbols DEF ShellType, Strings
  <2>2. Tidy(typed, Blank) BY <2>1, PlainFacts
  <2>3. ASSUME pc = "ran"
        PROVE  LET args == IF typed = <<"ls">> THEN <<>> ELSE argv
                   line == Ended(<<binary>> \o args, Blank) IN
               IF binary = <<"sleep">> THEN IsPrefix(line, Append(typed, Blank))
                                       ELSE line = Append(typed, Blank)
    <3>1. Given(argv) /\ binary = Word(typed, Blank, 1) BY <2>0, <2>2, <2>3 DEF WordsInv
    <3>2. ASSUME NEW args \in Seq(Strings), Listed(args, typed, Blank)
          PROVE  /\ IsPrefix(Ended(<<binary>> \o args, Blank), Append(typed, Blank))
                 /\ Len(args) + 1 = Words(typed, Blank) =>
                      Ended(<<binary>> \o args, Blank) = Append(typed, Blank)
      <4>1. args \in Seq(Seq(Symbol)) BY <2>1
      <4>2. /\ IsPrefix(Ended(<<Word(typed, Blank, 1)>> \o args, Blank), Append(typed, Blank))
            /\ Len(args) + 1 = Words(typed, Blank) =>
                 Ended(<<Word(typed, Blank, 1)>> \o args, Blank) = Append(typed, Blank)
        BY <4>1, <3>2, <2>1, <2>2, EndedListed
      <4> QED BY <4>2, <3>1
    <3>3. CASE typed = <<"ls">>
      <4>1. Words(typed, Blank) = 1 /\ binary = <<"ls">> BY <3>1, <3>3, <2>0, <2>2, LsAlone
      <4>2. <<>> \in Seq(Strings) /\ Len(<<>>) = 0 /\ 1 .. 0 = {} OBVIOUS
      <4>3. Listed(<<>>, typed, Blank) BY <4>1, <4>2 DEF Listed
      <4>4. Len(<<>>) + 1 = Words(typed, Blank) BY <4>1, <4>2
      <4>5. Ended(<<binary>> \o <<>>, Blank) = Append(typed, Blank) BY <4>2, <4>3, <4>4, <3>2
      <4>6. binary # <<"sleep">> BY <4>1
      <4> QED BY <4>5, <4>6, <3>3
    <3>4. CASE typed # <<"ls">>
      <4>1. /\ argv \in Seq(Strings) /\ Listed(argv, typed, Blank)
            /\ binary # <<"sleep">> => Len(argv) + 1 = Words(typed, Blank)
        BY <3>1, <3>4 DEF Given
      <4>2. /\ IsPrefix(Ended(<<binary>> \o argv, Blank), Append(typed, Blank))
            /\ Len(argv) + 1 = Words(typed, Blank) =>
                 Ended(<<binary>> \o argv, Blank) = Append(typed, Blank)
        BY <4>1, <3>2
      <4> QED BY <4>1, <4>2, <3>4
    <3> QED BY <3>3, <3>4
  <2>4. ASSUME pc = "undefined" PROVE Branch(binary, input) = "script" \/ script # NoScript
    BY <2>0, <2>4 DEF UndefinedInv
  <2> QED BY <2>3, <2>4
<1> QED BY <1>1, ShellInvariant, PTL

\* After any sequence of cd commands, of whatever paths, ls without a word opens one
\* directory, the one pwd names.
THEOREM LsOpensOne == Spec => []LsOpensPwd
<1>1. ShellInv => LsOpensPwd
  <2> SUFFICES ASSUME ShellInv, pc = "ran", typed = <<"ls">>
               PROVE  \E d \in Dirs : pwd = FullName(d) /\ Opened(LsPath(argv[1])) = {d}
    BY DEF LsOpensPwd
  <2>0. ShellType /\ WordsInv /\ PwdInv BY DEF ShellInv
  <2>1. Tidy(typed, Blank)
    <3>1. Len(typed) = 1 /\ typed[1] = "ls" /\ typed # <<>> OBVIOUS
    <3>2. "ls" # Blank /\ "ls" # Zero BY DEF Blank, Zero
    <3>3. 1 .. 1 - 1 = {} /\ \A k \in 1 .. 1 : k = 1 OBVIOUS
    <3> QED BY <3>1, <3>2, <3>3 DEF Tidy
  <2>2. Given(argv) BY <2>0, <2>1 DEF WordsInv
  <2>3. argv[1] = pwd
    <3>1. argv = <<pwd>> BY <2>2 DEF Given
    <3> QED BY <3>1
  <2>4. PICK d \in Dirs : pwd = FullName(d) BY <2>0 DEF PwdInv
  <2>5. Opened(LsPath(FullName(d))) = {d} BY LsOpens
  <2> QED BY <2>3, <2>4, <2>5
<1> QED BY <1>1, ShellInvariant, PTL

\* A plain script is carried out line by line, each line once, to its end.
THEOREM ScriptsLineByLine == Spec => []ScriptLineByLine
<1>1. ShellInv => ScriptLineByLine
  <2> SUFFICES ASSUME ShellInv, script # NoScript,
                      NEW text, text = File[script[1]], PlainScript(text)
               PROVE  LET carried == Ended(<< <<Shebang>> >> \o done, Newline) IN
                      /\ IsPrefix(carried, text)
                      /\ pc = "prompt" => carried = text
                      /\ pc = "undefined" => ~ Plain(typed)
    BY DEF ScriptLineByLine
  <2>0. ShellType /\ ScriptInv /\ FlagInv BY DEF ShellInv
  <2>1. Carrying(text) BY <2>0 DEF ScriptInv
  <2>2. text \in Strings
    <3>1. PICK f \in DOMAIN File : script = <<f>> BY <2>0 DEF ShellType
    <3>2. script[1] = f BY <3>1
    <3> QED BY <3>2, ShellAssumption DEF Strings
  <2>3. PICK l \in Seq(Symbol) : /\ l = Inner(text) /\ Tidy(l, Newline)
                                 /\ text = Append(l, Newline) /\ Word(l, Newline, 1) = <<Shebang>>
    BY <2>2, ScriptFacts DEF Strings
  <2>4. /\ done \in Seq(Seq(Symbol)) /\ Newline \in Symbol BY <2>0, Symbols DEF ShellType, Strings
  <2>5. /\ Listed(done, l, Newline)
        /\ pc = "prompt" /\ flag1 = 0 => Len(done) + 1 = Words(l, Newline)
        /\ pc = "undefined" => ~ Plain(typed)
    BY <2>1, <2>3 DEF Carrying
  <2>6. pc = "prompt" => flag1 = 0 BY <2>0 DEF FlagInv
  <2>7. /\ IsPrefix(Ended(<<Word(l, Newline, 1)>> \o done, Newline), Append(l, Newline))
        /\ Len(done) + 1 = Words(l, Newline) =>
             Ended(<<Word(l, Newline, 1)>> \o done, Newline) = Append(l, Newline)
    BY <2>3, <2>4, <2>5, EndedListed
  <2> QED BY <2>3, <2>5, <2>6, <2>7
<1> QED BY <1>1, ShellInvariant, PTL
=============================================================================
