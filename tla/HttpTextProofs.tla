---------------------------- MODULE HttpTextProofs ----------------------------
(***************************************************************************)
(* Proofs about module HttpText: what the application reads is what the    *)
(* client meant, for every url, body, header line and reply, of any length *)
(* and in any number.                                                      *)
(***************************************************************************)
EXTENDS HttpText, SequenceTheorems, FiniteSetTheorems, WellFoundedInduction, TLAPS

Chars == 0 .. 255

LEMMA TextIsChars == \A s \in Seq(1 .. 127) : s \in Seq(Chars)
BY SeqMonotonic DEF Chars

-----------------------------------------------------------------------------
(* The first and the last of a set of places.                              *)

LEMMA Smallest ==
  ASSUME NEW I \in SUBSET Nat, I # {}
  PROVE  Min(I) \in I /\ \A i \in I : Min(I) <= i
<1>1. PICK m \in I : \A i \in I : ~ (<<i, m>> \in OpToRel(<, Nat))
  BY NatLessThanWellFounded, WFMin
<1>2. \A i \in I : m <= i
  <2>1. ASSUME NEW i \in I PROVE ~ (i < m)
    BY <1>1 DEF OpToRel
  <2> QED BY <2>1
<1>3. \E x \in I : \A y \in I : x <= y
  BY <1>2
<1> QED BY <1>3, Zenon DEF Min

LEMMA Largest ==
  ASSUME NEW n \in Nat, NEW I \in SUBSET (1 .. n), I # {}
  PROVE  \E m \in I : \A i \in I : i <= m
<1> DEFINE T == {n - i : i \in I}
<1>1. T \subseteq Nat /\ T # {}
  <2>1. \A i \in I : n - i \in Nat
    OBVIOUS
  <2>2. T \subseteq Nat
    BY <2>1, Zenon
  <2>3. T # {}
    BY Zenon
  <2> QED BY <2>2, <2>3
<1>2. Min(T) \in T /\ \A t \in T : Min(T) <= t
  BY <1>1, Smallest
<1>3. PICK m \in I : Min(T) = n - m
  BY <1>2
<1>4. ASSUME NEW i \in I PROVE i <= m
  <2>1. n - i \in T
    OBVIOUS
  <2>2. n - m <= n - i
    BY <1>2, <1>3, <2>1
  <2> QED BY <2>2
<1> QED BY <1>4

FirstOf(I) == IF I # {} THEN Min(I) ELSE 0

LEMMA FirstIs ==
  ASSUME NEW I \in SUBSET (Nat \ {0})
  PROVE  /\ FirstOf(I) \in Nat
         /\ FirstOf(I) = 0 <=> I = {}
         /\ FirstOf(I) # 0 => FirstOf(I) \in I
         /\ \A i \in I : FirstOf(I) # 0 /\ FirstOf(I) <= i
<1>1. CASE I = {}
  BY <1>1 DEF FirstOf
<1>2. CASE I # {}
  <2>1. I \in SUBSET Nat
    OBVIOUS
  <2>2. Min(I) \in I /\ \A i \in I : Min(I) <= i
    BY <1>2, <2>1, Smallest
  <2> QED BY <1>2, <2>2 DEF FirstOf
<1> QED BY <1>1, <1>2

(* strchr: the first place of a character, 0 if there is none.             *)
LEMMA StrchrIs ==
  ASSUME NEW S, NEW s \in Seq(S), NEW c
  PROVE  /\ strchr(s, c) \in 0 .. Len(s)
         /\ strchr(s, c) # 0 => s[strchr(s, c)] = c
         /\ \A i \in 1 .. Len(s) : s[i] = c => strchr(s, c) # 0 /\ strchr(s, c) <= i
<1> DEFINE I == {i \in 1 .. Len(s) : s[i] = c}
<1>1. Len(s) \in Nat /\ I \in SUBSET (Nat \ {0})
  OBVIOUS
<1>2. strchr(s, c) = FirstOf(I)
  BY DEF strchr, SelectInSeq, FirstOf
<1>3. /\ FirstOf(I) \in Nat
      /\ FirstOf(I) # 0 => FirstOf(I) \in I
      /\ \A i \in I : FirstOf(I) # 0 /\ FirstOf(I) <= i
  BY <1>1, FirstIs
<1> QED BY <1>1, <1>2, <1>3

(* Enough to know a first place by. *)
LEMMA StrchrAt ==
  ASSUME NEW S, NEW s \in Seq(S), NEW c, NEW n \in 1 .. Len(s),
         s[n] = c, \A i \in 1 .. n - 1 : s[i] # c
  PROVE  strchr(s, c) = n
<1>1. /\ strchr(s, c) \in 0 .. Len(s)
      /\ strchr(s, c) # 0 => s[strchr(s, c)] = c
      /\ \A i \in 1 .. Len(s) : s[i] = c => strchr(s, c) # 0 /\ strchr(s, c) <= i
  BY StrchrIs
<1>2. strchr(s, c) # 0 /\ strchr(s, c) <= n
  BY <1>1
<1> QED BY <1>1, <1>2

LEMMA StrchrNone ==
  ASSUME NEW S, NEW s \in Seq(S), NEW c, \A i \in 1 .. Len(s) : s[i] # c
  PROVE  strchr(s, c) = 0
BY StrchrIs

LEMMA SubSeqIs ==
  ASSUME NEW S, NEW s \in Seq(S), NEW m \in 1 .. Len(s) + 1, NEW n \in m - 1 .. Len(s)
  PROVE  /\ SubSeq(s, m, n) \in Seq(S)
         /\ Len(SubSeq(s, m, n)) = n - m + 1
         /\ \A i \in 1 .. n - m + 1 : SubSeq(s, m, n)[i] = s[m + i - 1]
<1>1. Len(s) \in Nat /\ m \in Int /\ n \in Int /\ \A i \in m .. n : s[i] \in S
  OBVIOUS
<1>2. /\ SubSeq(s, m, n) \in Seq(S)
      /\ Len(SubSeq(s, m, n)) = IF m <= n THEN n - m + 1 ELSE 0
      /\ \A i \in 1 .. n - m + 1 : SubSeq(s, m, n)[i] = s[m + i - 1]
  BY <1>1, SubSeqProperties
<1>3. ~(m <= n) => n - m + 1 = 0
  OBVIOUS
<1> QED BY <1>2, <1>3

(* What comes before the first character of a kind. *)
LEMMA UpToIs ==
  ASSUME NEW S, NEW s \in Seq(S), NEW c
  PROVE  /\ UpTo(s, c) \in Seq(S)
         /\ Len(UpTo(s, c)) = IF strchr(s, c) = 0 THEN Len(s) ELSE strchr(s, c) - 1
         /\ Len(UpTo(s, c)) \in 0 .. Len(s)
         /\ \A i \in 1 .. Len(UpTo(s, c)) : UpTo(s, c)[i] = s[i] /\ s[i] # c
         /\ strchr(s, c) # 0 => s[Len(UpTo(s, c)) + 1] = c
<1>1. /\ strchr(s, c) \in 0 .. Len(s)
      /\ strchr(s, c) # 0 => s[strchr(s, c)] = c
      /\ \A i \in 1 .. Len(s) : s[i] = c => strchr(s, c) # 0 /\ strchr(s, c) <= i
  BY StrchrIs
<1>2. CASE strchr(s, c) = 0
  BY <1>1, <1>2 DEF UpTo
<1>3. CASE strchr(s, c) # 0
  <2> DEFINE n == strchr(s, c) - 1
  <2>1. 1 \in 1 .. Len(s) + 1 /\ n \in 1 - 1 .. Len(s) /\ n - 1 + 1 = n
    BY <1>1, <1>3
  <2>2. UpTo(s, c) = SubSeq(s, 1, n)
    BY <1>3 DEF UpTo
  <2>3. /\ SubSeq(s, 1, n) \in Seq(S)
        /\ Len(SubSeq(s, 1, n)) = n - 1 + 1
        /\ \A i \in 1 .. n - 1 + 1 : SubSeq(s, 1, n)[i] = s[1 + i - 1]
    BY <2>1, SubSeqIs
  <2>4. Len(UpTo(s, c)) = n /\ n \in 0 .. Len(s) /\ n + 1 = strchr(s, c)
    BY <1>1, <1>3, <2>1, <2>2, <2>3
  <2>5. \A i \in 1 .. n : UpTo(s, c)[i] = s[i] /\ s[i] # c
    <3>1. \A i \in 1 .. n : i \in 1 .. n - 1 + 1 /\ 1 + i - 1 = i /\ ~ (n + 1 <= i) /\ i \in 1 .. Len(s)
      BY <2>4
    <3> QED BY <1>1, <2>2, <2>3, <2>4, <3>1
  <2> QED BY <1>1, <1>3, <2>2, <2>3, <2>4, <2>5
<1> QED BY <1>2, <1>3

-----------------------------------------------------------------------------
(* The elements of a set of places in ascending order.                     *)

Rank(S, i) == Cardinality({j \in S : j <= i})

LEMMA Places ==
  ASSUME NEW n \in Nat, NEW S \in SUBSET (1 .. n)
  PROVE  IsFiniteSet(S) /\ Cardinality(S) \in Nat
<1>1. IsFiniteSet(1 .. n)
  BY FS_Interval
<1>2. IsFiniteSet(S)
  BY <1>1, FS_Subset
<1> QED BY <1>2, FS_CardinalityType

LEMMA PlacesPart ==
  ASSUME NEW n \in Nat, NEW S \in SUBSET (1 .. n), NEW T \in SUBSET S
  PROVE  /\ IsFiniteSet(T) /\ Cardinality(T) \in Nat
         /\ Cardinality(T) <= Cardinality(S)
         /\ Cardinality(T) = Cardinality(S) => T = S
<1>1. IsFiniteSet(S)
  BY Places
<1>2. IsFiniteSet(T) /\ Cardinality(T) <= Cardinality(S) /\ (Cardinality(S) = Cardinality(T) => S = T)
  BY <1>1, FS_Subset
<1>3. Cardinality(T) \in Nat
  BY <1>2, FS_CardinalityType
<1> QED BY <1>2, <1>3

LEMMA RankGrows ==
  ASSUME NEW n \in Nat, NEW S \in SUBSET (1 .. n), NEW i \in S, NEW j \in S, i < j
  PROVE  Rank(S, i) < Rank(S, j)
<1> DEFINE I == {x \in S : x <= i}
           J == {x \in S : x <= j}
<1>1. J \in SUBSET (1 .. n) /\ j \in J /\ ~ (j \in I)
  <2>1. i \in Int /\ j \in Int /\ j <= j /\ ~ (j <= i)
    OBVIOUS
  <2> QED BY <2>1
<1>a. I \in SUBSET J
  <2>1. ASSUME NEW x \in I PROVE x \in J
    <3>1. x \in S /\ x <= i /\ x \in Int /\ i \in Int /\ j \in Int
      OBVIOUS
    <3> QED BY <3>1
  <2> QED BY <2>1
<1> HIDE DEF I, J
<1>2. Cardinality(I) \in Nat /\ Cardinality(J) \in Nat /\ Cardinality(I) <= Cardinality(J)
  BY <1>1, <1>a, Places, PlacesPart
<1>3. Cardinality(I) # Cardinality(J)
  <2>1. Cardinality(I) = Cardinality(J) => I = J
    BY <1>1, <1>a, PlacesPart
  <2> QED BY <1>1, <2>1
<1>4. Cardinality(I) < Cardinality(J)
  BY <1>2, <1>3
<1> QED BY <1>4 DEF Rank, I, J

LEMMA RankIsOne ==
  ASSUME NEW n \in Nat, NEW S \in SUBSET (1 .. n), NEW i \in S, NEW j \in S, Rank(S, i) = Rank(S, j)
  PROVE  i = j
<1>1. ASSUME NEW a \in S, NEW b \in S, a < b PROVE Rank(S, a) # Rank(S, b)
  <2>1. Rank(S, a) < Rank(S, b)
    BY <1>1, RankGrows
  <2>2. {x \in S : x <= a} \in SUBSET S /\ {x \in S : x <= b} \in SUBSET S
    OBVIOUS
  <2>3. Rank(S, a) \in Nat /\ Rank(S, b) \in Nat
    BY <2>2, PlacesPart DEF Rank
  <2> QED BY <2>1, <2>3
<1>2. ~ (i < j)
  BY <1>1
<1>3. ~ (j < i)
  BY <1>1
<1> QED BY <1>2, <1>3

LEMMA RankIsPlace ==
  ASSUME NEW n \in Nat, NEW S \in SUBSET (1 .. n), NEW i \in S
  PROVE  Rank(S, i) \in 1 .. Cardinality(S)
<1> DEFINE I == {x \in S : x <= i}
<1>1. I \in SUBSET S /\ i \in I
  OBVIOUS
<1> HIDE DEF I
<1>2. IsFiniteSet(I) /\ Cardinality(I) \in Nat /\ Cardinality(I) <= Cardinality(S) /\ Cardinality(S) \in Nat
  BY <1>1, Places, PlacesPart
<1>3. Cardinality(I) # 0
  BY <1>1, <1>2, FS_EmptySet
<1>4. Cardinality(I) \in 1 .. Cardinality(S)
  BY <1>2, <1>3
<1> QED BY <1>4 DEF Rank, I

LEMMA EveryRank ==
  ASSUME NEW n \in Nat, NEW S \in SUBSET (1 .. n), NEW k \in 1 .. Cardinality(S)
  PROVE  \E i \in S : Rank(S, i) = k
<1> DEFINE f == [i \in S |-> Rank(S, i)]
           T == 1 .. Cardinality(S)
<1>1. Cardinality(S) \in Nat /\ IsFiniteSet(S)
  BY Places
<1>2. IsFiniteSet(T) /\ Cardinality(T) = Cardinality(S)
  <2>1. 1 \in Int /\ Cardinality(S) \in Int
    BY <1>1
  <2>2. IsFiniteSet(T) /\ Cardinality(T) = IF 1 > Cardinality(S) THEN 0 ELSE Cardinality(S) - 1 + 1
    BY <2>1, FS_Interval
  <2> QED BY <1>1, <2>2
<1>3. f \in [S -> T]
  BY RankIsPlace
<1>4. \A i, j \in S : f[i] = f[j] => i = j
  BY RankIsOne
<1>5. f \in Injection(S, T)
  BY <1>3, <1>4 DEF Injection, IsInjective
<1>6. f \in Surjection(S, T)
  BY <1>1, <1>2, <1>5, FS_Injection
<1>7. \E i \in S : f[i] = k
  BY <1>6 DEF Surjection
<1> QED BY <1>7

LEMMA AscendingIs ==
  ASSUME NEW n \in Nat, NEW S \in SUBSET (1 .. n)
  PROVE  /\ Cardinality(S) \in Nat
         /\ DOMAIN Ascending(S) = 1 .. Cardinality(S)
         /\ \A k \in 1 .. Cardinality(S) : Ascending(S)[k] \in S /\ Rank(S, Ascending(S)[k]) = k
<1>1. Cardinality(S) \in Nat
  BY Places
<1>2. ASSUME NEW k \in 1 .. Cardinality(S)
      PROVE  Ascending(S)[k] \in S /\ Rank(S, Ascending(S)[k]) = k
  <2>1. \E i \in S : Rank(S, i) = k
    BY EveryRank
  <2>2. Ascending(S)[k] = CHOOSE i \in S : Rank(S, i) = k
    BY DEF Ascending, Rank
  <2> QED BY <2>1, <2>2, Zenon
<1> QED BY <1>1, <1>2 DEF Ascending

(* The place of an element is behind all smaller ones. *)
LEMMA PlaceOf ==
  ASSUME NEW n \in Nat, NEW S \in SUBSET (1 .. n), NEW i \in S
  PROVE  LET k == Cardinality({x \in S : x < i}) + 1
         IN  k \in 1 .. Cardinality(S) /\ Ascending(S)[k] = i
<1> DEFINE I == {x \in S : x < i}
<1>1. {x \in S : x <= i} = I \cup {i}
  <2>1. ASSUME NEW x \in S PROVE x <= i <=> x \in I \/ x = i
    <3>1. x \in Int /\ i \in Int
      OBVIOUS
    <3> QED BY <3>1
  <2> QED BY <2>1
<1>2. I \in SUBSET S /\ ~ (i \in I)
  <2>1. i \in Int /\ ~ (i < i)
    OBVIOUS
  <2> QED BY <2>1
<1>3. IsFiniteSet(I)
  BY <1>2, PlacesPart
<1>4. Cardinality(I \cup {i}) = Cardinality(I) + 1
  BY <1>2, <1>3, FS_AddElement
<1>5. Rank(S, i) = Cardinality(I) + 1
  BY <1>1, <1>4 DEF Rank
<1>6. Rank(S, i) \in 1 .. Cardinality(S)
  BY RankIsPlace
<1>7. Ascending(S)[Rank(S, i)] \in S /\ Rank(S, Ascending(S)[Rank(S, i)]) = Rank(S, i)
  BY <1>6, AscendingIs
<1>8. Ascending(S)[Rank(S, i)] = i
  BY <1>7, RankIsOne
<1> QED BY <1>5, <1>6, <1>8

-----------------------------------------------------------------------------
(* What a loop does: a set of numbers that has 0 and with every number the *)
(* next one has all of them, and a step that stays within a set of states  *)
(* can be taken any number of times.                                       *)

LEMMA UpTheNumbers ==
  ASSUME NEW N \in Nat, NEW J, 0 \in J, \A n \in 1 .. N : n - 1 \in J => n \in J
  PROVE  \A n \in 0 .. N : n \in J
<1> DEFINE I == {n \in 0 .. N : ~ (n \in J)}
<1>1. SUFFICES ASSUME I # {} PROVE FALSE
  OBVIOUS
<1>2. I \in SUBSET Nat
  OBVIOUS
<1>3. Min(I) \in I /\ \A i \in I : Min(I) <= i
  BY <1>1, <1>2, Smallest
<1>4. PICK m \in I : \A i \in I : m <= i
  BY <1>3
<1>5. m \in 0 .. N /\ ~ (m \in J) /\ m # 0
  BY <1>4
<1>6. m \in 1 .. N /\ m - 1 \in 0 .. N /\ ~ (m <= m - 1)
  BY <1>5
<1>7. ~ (m - 1 \in I)
  BY <1>4, <1>6
<1>8. m - 1 \in J
  BY <1>6, <1>7
<1> QED BY <1>5, <1>6, <1>8

Takes(f, X, a, G, N) ==
  f \in [0 .. N -> X] /\ f[0] = a /\ \A n \in 1 .. N : f[n] = G[f[n - 1]]

LEMMA Turns ==
  ASSUME NEW X, NEW a \in X, NEW G \in [X -> X], NEW N \in Nat
  PROVE  \E f : Takes(f, X, a, G, N)
<1> DEFINE Good(m) == \E f \in [0 .. m -> X] : f[0] = a /\ \A n \in 1 .. m : f[n] = G[f[n - 1]]
           J == {m \in 0 .. N : Good(m)}
<1>1. 0 \in J
  <2> DEFINE f == [n \in 0 .. 0 |-> a]
  <2>1. f \in [0 .. 0 -> X] /\ f[0] = a /\ \A n \in 1 .. 0 : f[n] = G[f[n - 1]]
    OBVIOUS
  <2> HIDE DEF f
  <2>2. Good(0)
    BY <2>1
  <2> QED BY <2>2
<1>2. ASSUME NEW m \in 1 .. N, m - 1 \in J PROVE m \in J
  <2>1. PICK f \in [0 .. m - 1 -> X] : f[0] = a /\ \A n \in 1 .. m - 1 : f[n] = G[f[n - 1]]
    BY <1>2
  <2> DEFINE g == [n \in 0 .. m |-> IF n = m THEN G[f[m - 1]] ELSE f[n]]
  <2>2. m - 1 \in 0 .. m - 1 /\ 0 \in 0 .. m - 1
    OBVIOUS
  <2>3. f[m - 1] \in X /\ G[f[m - 1]] \in X
    BY <2>2
  <2>4. ASSUME NEW n \in 0 .. m PROVE (IF n = m THEN G[f[m - 1]] ELSE f[n]) \in X
    <3>1. n # m => n \in 0 .. m - 1
      OBVIOUS
    <3> QED BY <2>3, <3>1
  <2>5. g \in [0 .. m -> X]
    BY <2>4
  <2>6. g[0] = a
    <3>1. 0 \in 0 .. m /\ 0 # m
      OBVIOUS
    <3> QED BY <2>1, <3>1
  <2>7. ASSUME NEW n \in 1 .. m PROVE g[n] = G[g[n - 1]]
    <3>1. n \in 0 .. m /\ n - 1 \in 0 .. m /\ n - 1 # m
      OBVIOUS
    <3>2. g[n - 1] = f[n - 1]
      BY <3>1
    <3>3. CASE n = m
      BY <3>1, <3>2, <3>3
    <3>4. CASE n # m
      <4>1. n \in 1 .. m - 1
        BY <3>4
      <4>2. g[n] = f[n]
        BY <3>1, <3>4
      <4> QED BY <2>1, <3>2, <4>1, <4>2
    <3> QED BY <3>3, <3>4
  <2> HIDE DEF g
  <2>8. Good(m)
    BY <2>5, <2>6, <2>7
  <2> QED BY <2>8
<1> HIDE DEF J
<1>3. \A n \in 0 .. N : n \in J
  BY <1>1, <1>2, UpTheNumbers
<1>4. N \in J
  BY <1>3
<1> QED BY <1>4 DEF J, Takes
-----------------------------------------------------------------------------
(* decode                                                                  *)

Escapes(src) == {i \in DOMAIN src : Escape(src, i)}
Kept(src) == {i \in DOMAIN src : ~ (i - 1 \in Escapes(src)) /\ ~ (i - 2 \in Escapes(src))}
Advance(src, i) == IF Escape(src, i) THEN 3 ELSE 1

LEMMA HexDigit ==
  ASSUME NEW c, isxdigit(c)
  PROVE  c # Percent /\ HEXTOI(c) \in 0 .. 15
<1>1. c \in Nat /\ ((48 <= c /\ c <= 57) \/ (65 <= c /\ c <= 70) \/ (97 <= c /\ c <= 102))
  BY DEF isxdigit
<1> QED BY <1>1 DEF HEXTOI, Percent

LEMMA EscapeIs ==
  ASSUME NEW src \in Seq(1 .. 127), NEW i \in 1 .. Len(src), Escape(src, i)
  PROVE  /\ i + 2 <= Len(src)
         /\ ~ Escape(src, i + 1) /\ ~ Escape(src, i + 2)
         /\ HEXTOI(src[i + 1]) \in 0 .. 15 /\ HEXTOI(src[i + 2]) \in 0 .. 15
<1>1. /\ i + 2 <= Len(src) /\ isxdigit(src[i + 1]) /\ isxdigit(src[i + 2])
  BY DEF Escape
<1>2. src[i + 1] # Percent /\ src[i + 2] # Percent
  BY <1>1, HexDigit
<1>3. HEXTOI(src[i + 1]) \in 0 .. 15 /\ HEXTOI(src[i + 2]) \in 0 .. 15
  BY <1>1, HexDigit
<1> QED BY <1>1, <1>2, <1>3 DEF Escape

LEMMA CharacterTyped ==
  ASSUME NEW src \in Seq(1 .. 127), NEW form \in BOOLEAN, NEW i \in 1 .. Len(src)
  PROVE  Character(src, i, form) \in Chars
<1>1. src[i] \in 1 .. 127
  BY ElementOfSeq
<1>2. CASE Escape(src, i)
  <2> DEFINE a == HEXTOI(src[i + 1])
             b == HEXTOI(src[i + 2])
  <2>1. a \in 0 .. 15 /\ b \in 0 .. 15
    BY <1>2, EscapeIs
  <2>2. Character(src, i, form) = 16 * a + b
    BY <1>2 DEF Character
  <2> HIDE DEF a, b
  <2> QED BY <2>1, <2>2 DEF Chars
<1>3. CASE ~ Escape(src, i)
  BY <1>1, <1>3 DEF Character, Chars, Space
<1> QED BY <1>2, <1>3

LEMMA KeptIs ==
  ASSUME NEW src \in Seq(1 .. 127)
  PROVE  /\ Len(src) \in Nat /\ DOMAIN src = 1 .. Len(src)
         /\ Kept(src) \in SUBSET (1 .. Len(src))
         /\ Len(src) > 0 => 1 \in Kept(src)
BY DEF Kept, Escapes

(* The next character that counts. *)
LEMMA NextKept ==
  ASSUME NEW src \in Seq(1 .. 127), NEW i \in Kept(src)
  PROVE  LET next == i + Advance(src, i)
         IN  /\ next \in i + 1 .. Len(src) + 1
             /\ next <= Len(src) => next \in Kept(src)
             /\ \A j \in Kept(src) : j <= i \/ next <= j
<1> DEFINE n == Len(src)
<1>1. n \in Nat /\ DOMAIN src = 1 .. n /\ i \in 1 .. n /\ Kept(src) \subseteq 1 .. n
  BY KeptIs
<1>2. CASE Escape(src, i)
  <2>1. ~ Escape(src, i + 1) /\ ~ Escape(src, i + 2) /\ i + 2 <= n /\ Advance(src, i) = 3
    BY <1>1, <1>2, EscapeIs DEF Advance
  <2>2. i + 3 <= n => i + 3 \in Kept(src)
    <3>1. i + 3 - 1 = i + 2 /\ i + 3 - 2 = i + 1
      BY <1>1
    <3> QED BY <1>1, <2>1, <3>1 DEF Kept, Escapes
  <2>3. i \in Escapes(src)
    BY <1>1, <1>2 DEF Escapes
  <2>4. ASSUME NEW j \in Kept(src) PROVE j <= i \/ i + 3 <= j
    <3>1. ~ (j - 1 = i) /\ ~ (j - 2 = i) /\ j \in 1 .. n
      BY <1>1, <2>3 DEF Kept
    <3> QED BY <1>1, <3>1
  <2> QED BY <1>1, <2>1, <2>2, <2>4
<1>3. CASE ~ Escape(src, i)
  <2>1. Advance(src, i) = 1
    BY <1>3 DEF Advance
  <2>2. i + 1 <= n => i + 1 \in Kept(src)
    <3>1. i + 1 - 1 = i /\ i + 1 - 2 = i - 1 /\ ~ (i - 1 \in Escapes(src)) /\ ~ (i \in Escapes(src))
      BY <1>1, <1>3 DEF Kept, Escapes
    <3> QED BY <1>1, <3>1 DEF Kept
  <2> QED BY <1>1, <2>1, <2>2
<1> QED BY <1>2, <1>3

LEMMA MeaningIs ==
  ASSUME NEW src \in Seq(1 .. 127), NEW form \in BOOLEAN
  PROVE  /\ Meaning(src, form) \in Seq(Chars)
         /\ Len(Meaning(src, form)) = Cardinality(Kept(src))
         /\ Len(Meaning(src, form)) \in 0 .. Len(src)
         /\ \A k \in 1 .. Cardinality(Kept(src)) :
              Meaning(src, form)[k] = Character(src, Ascending(Kept(src))[k], form)
<1> DEFINE S == Kept(src)
           A == Ascending(S)
           M == [k \in 1 .. Cardinality(S) |-> Character(src, A[k], form)]
<1>1. Len(src) \in Nat /\ DOMAIN src = 1 .. Len(src) /\ S \in SUBSET (1 .. Len(src))
  BY KeptIs
<1>2. /\ Cardinality(S) \in Nat /\ DOMAIN A = 1 .. Cardinality(S)
      /\ \A k \in 1 .. Cardinality(S) : A[k] \in S
  BY <1>1, AscendingIs
<1>3. Meaning(src, form) = M
  <2>1. \A k \in 1 .. Cardinality(S) :
          (IF A[k] \in Escapes(src) THEN 16 * HEXTOI(src[A[k] + 1]) + HEXTOI(src[A[k] + 2])
           ELSE IF form /\ src[A[k]] = Plus THEN Space ELSE src[A[k]]) = Character(src, A[k], form)
    BY <1>1, <1>2 DEF Character, Escapes
  <2>2. Meaning(src, form) =
          [k \in DOMAIN A |-> IF A[k] \in Escapes(src) THEN 16 * HEXTOI(src[A[k] + 1]) + HEXTOI(src[A[k] + 2])
                              ELSE IF form /\ src[A[k]] = Plus THEN Space ELSE src[A[k]]]
    BY Zenon DEF Meaning, Kept, Escapes
  <2> HIDE DEF S, A
  <2> QED BY <1>2, <2>1, <2>2
<1>4. \A k \in 1 .. Cardinality(S) : Character(src, A[k], form) \in Chars
  BY <1>1, <1>2, CharacterTyped
<1>5. Cardinality(S) <= Len(src)
  <2>1. IsFiniteSet(1 .. Len(src)) /\ Cardinality(1 .. Len(src)) = IF 1 > Len(src) THEN 0 ELSE Len(src) - 1 + 1
    BY <1>1, FS_Interval
  <2>2. Cardinality(S) <= Cardinality(1 .. Len(src))
    BY <1>1, <2>1, FS_Subset
  <2> QED BY <1>1, <2>1, <2>2
<1> HIDE DEF A
<1>6. M \in Seq(Chars) /\ Len(M) = Cardinality(S) /\ \A k \in 1 .. Cardinality(S) : M[k] = Character(src, A[k], form)
  BY <1>2, <1>4
<1> QED BY <1>1, <1>2, <1>3, <1>5, <1>6 DEF A

(* What the loop has done when it is at a place. *)
Before(src, i) == {k \in Kept(src) : k < i}
States(src) == [i : 1 .. Len(src) + 1, text : Seq(Chars)]
First == [i |-> 1, text |-> <<>>]
DecodedSoFar(src, form, l) ==
  /\ l \in States(src)
  /\ l.i <= Len(src) => l.i \in Kept(src)
  /\ Len(l.text) = Cardinality(Before(src, l.i))
  /\ \A k \in 1 .. Len(l.text) : l.text[k] = Character(src, Ascending(Kept(src))[k], form)

LEMMA DecodeStarts ==
  ASSUME NEW src \in Seq(1 .. 127), NEW form \in BOOLEAN
  PROVE  DecodedSoFar(src, form, First)
<1>1. Len(src) \in Nat /\ Kept(src) \in SUBSET (1 .. Len(src)) /\ (Len(src) > 0 => 1 \in Kept(src))
  BY KeptIs
<1>2. Before(src, 1) = {}
  BY <1>1 DEF Before
<1>3. First \in States(src) /\ First.i = 1 /\ First.text = <<>> /\ Len(<<>>) = 0
  BY <1>1 DEF First, States
<1> HIDE DEF First
<1>4. First.i <= Len(src) => First.i \in Kept(src)
  BY <1>1, <1>3
<1>5. Len(First.text) = Cardinality(Before(src, First.i))
  BY <1>2, <1>3, FS_EmptySet
<1>6. \A k \in 1 .. Len(First.text) : First.text[k] = Character(src, Ascending(Kept(src))[k], form)
  BY <1>3
<1> QED BY <1>3, <1>4, <1>5, <1>6 DEF DecodedSoFar

LEMMA DecodeGoesOn ==
  ASSUME NEW src \in Seq(1 .. 127), NEW form \in BOOLEAN, NEW l, DecodedSoFar(src, form, l)
  PROVE  /\ DecodedSoFar(src, form, DecodeOne(src, form, l))
         /\ l.i <= Len(src) => Len(DecodeOne(src, form, l).text) = Len(l.text) + 1
         /\ l.i > Len(src) => DecodeOne(src, form, l) = l
<1> DEFINE n == Len(src)
           i == l.i
           A == Ascending(Kept(src))
           m == DecodeOne(src, form, l)
<1>1. n \in Nat /\ Kept(src) \in SUBSET (1 .. n)
  BY KeptIs
<1>2. i \in 1 .. n + 1 /\ l.text \in Seq(Chars)
  BY DEF DecodedSoFar, States
<1>3. CASE i > n
  <2>1. m = l /\ ~ (i <= n)
    BY <1>1, <1>2, <1>3 DEF DecodeOne
  <2> QED BY <2>1
<1>4. CASE i <= n
  <2> DEFINE next == i + Advance(src, i)
             c == Character(src, i, form)
  <2>1. i \in Kept(src) /\ i \in 1 .. n
    BY <1>2, <1>4 DEF DecodedSoFar
  <2>2. m = [i |-> next, text |-> Append(l.text, c)]
    BY <1>1, <1>2, <1>4 DEF DecodeOne, Advance
  <2>3. /\ next \in i + 1 .. n + 1 /\ (next <= n => next \in Kept(src))
        /\ \A j \in Kept(src) : j <= i \/ next <= j
    BY <2>1, NextKept
  <2>4. c \in Chars
    BY <2>1, CharacterTyped
  <2>5. /\ Append(l.text, c) \in Seq(Chars) /\ Len(Append(l.text, c)) = Len(l.text) + 1
        /\ \A k \in 1 .. Len(l.text) : Append(l.text, c)[k] = l.text[k]
        /\ Append(l.text, c)[Len(l.text) + 1] = c
    BY <1>2, <2>4, AppendProperties
  <2>6. Before(src, next) = Before(src, i) \cup {i} /\ ~ (i \in Before(src, i))
    <3>1. ASSUME NEW k \in Kept(src) PROVE k < next <=> k < i \/ k = i
      <4>1. k \in 1 .. n /\ (k <= i \/ next <= k)
        BY <1>1, <2>3
      <4> QED BY <2>1, <2>3, <4>1
    <3>2. ~ (i < i)
      BY <2>1
    <3> HIDE DEF next, i
    <3> QED BY <2>1, <3>1, <3>2 DEF Before
  <2>7. Cardinality(Before(src, next)) = Cardinality(Before(src, i)) + 1
    <3>1. Before(src, i) \in SUBSET Kept(src)
      BY DEF Before
    <3>2. IsFiniteSet(Before(src, i))
      BY <1>1, <3>1, PlacesPart
    <3> QED BY <2>6, <3>2, FS_AddElement
  <2>8. A[Len(l.text) + 1] = i
    <3>1. A[Cardinality({x \in Kept(src) : x < i}) + 1] = i
      BY <1>1, <2>1, PlaceOf
    <3> QED BY <3>1 DEF DecodedSoFar, Before
  <2>9. \A k \in 1 .. Len(l.text) : l.text[k] = Character(src, A[k], form)
    BY DEF DecodedSoFar
  <2>10. \A k \in 1 .. Len(l.text) + 1 : Append(l.text, c)[k] = Character(src, A[k], form)
    <3>1. Len(l.text) \in Nat
      BY <1>2
    <3>2. ASSUME NEW k \in 1 .. Len(l.text) + 1 PROVE k \in 1 .. Len(l.text) \/ k = Len(l.text) + 1
      BY <3>1
    <3> HIDE DEF A
    <3> QED BY <2>5, <2>8, <2>9, <3>2
  <2>11. m.i = next /\ m.text = Append(l.text, c)
    BY <2>2
  <2>12. Len(l.text) = Cardinality(Before(src, i))
    BY DEF DecodedSoFar
  <2>13. m \in States(src)
    <3>1. next \in 1 .. n + 1
      BY <1>1, <2>1, <2>3
    <3> HIDE DEF next, c, m
    <3> QED BY <2>2, <2>5, <3>1 DEF States
  <2> HIDE DEF next, c, m
  <2>14. DecodedSoFar(src, form, m)
    <3>1. m.i <= Len(src) => m.i \in Kept(src)
      BY <2>3, <2>11
    <3>2. Len(m.text) = Cardinality(Before(src, m.i))
      BY <2>5, <2>7, <2>11, <2>12
    <3>3. \A k \in 1 .. Len(m.text) : m.text[k] = Character(src, A[k], form)
      BY <2>5, <2>10, <2>11
    <3> QED BY <2>13, <3>1, <3>2, <3>3 DEF DecodedSoFar
  <2>15. Len(m.text) = Len(l.text) + 1
    BY <2>5, <2>11
  <2>16. ~ (i > n)
    BY <1>1, <1>2, <1>4
  <2> QED BY <2>14, <2>15, <2>16 DEF m
<1>5. i > n \/ i <= n
  BY <1>1, <1>2
<1> QED BY <1>3, <1>4, <1>5

(* The loop takes its turns one after the other. *)
LEMMA DecodeLoop ==
  ASSUME NEW src \in Seq(1 .. 127), NEW form \in BOOLEAN, NEW N \in Nat
  PROVE  \E f : /\ f[0] = First
                /\ \A j \in 1 .. N : f[j] = DecodeOne(src, form, f[j - 1])
                /\ decode(src, N + 1, form) = [all |-> f[N].i > Len(src), text |-> f[N].text]
<1> DEFINE X == {l \in States(src) : DecodedSoFar(src, form, l)}
           G == [l \in X |-> DecodeOne(src, form, l)]
           Loop == CHOOSE f : f = [j \in 0 .. N + 1 - 1 |->
                     IF j = 0 THEN [i |-> 1, text |-> <<>>] ELSE DecodeOne(src, form, f[j - 1])]
<1>1. First \in X
  BY DecodeStarts DEF DecodedSoFar
<1>2. G \in [X -> X]
  BY DecodeGoesOn DEF DecodedSoFar
<1>3. PICK f \in [0 .. N -> X] : f[0] = First /\ \A j \in 1 .. N : f[j] = G[f[j - 1]]
  <2> HIDE DEF X, G
  <2>1. \E f : Takes(f, X, First, G, N)
    BY <1>1, <1>2, Turns
  <2> QED BY <2>1 DEF Takes
<1>4. ASSUME NEW j \in 1 .. N PROVE f[j] = DecodeOne(src, form, f[j - 1])
  <2>1. j - 1 \in 0 .. N
    OBVIOUS
  <2>2. f[j - 1] \in X
    BY <1>3, <2>1
  <2> HIDE DEF X
  <2> QED BY <1>3, <2>2
<1>5. f = [j \in 0 .. N + 1 - 1 |-> IF j = 0 THEN [i |-> 1, text |-> <<>>] ELSE DecodeOne(src, form, f[j - 1])]
  <2>1. N + 1 - 1 = N
    OBVIOUS
  <2>2. ASSUME NEW j \in 0 .. N
        PROVE  f[j] = IF j = 0 THEN [i |-> 1, text |-> <<>>] ELSE DecodeOne(src, form, f[j - 1])
    <3>1. j # 0 => j \in 1 .. N
      OBVIOUS
    <3> QED BY <1>3, <1>4, <3>1 DEF First
  <2> HIDE DEF X
  <2> QED BY <1>3, <2>1, <2>2
<1>6. Loop = [j \in 0 .. N + 1 - 1 |-> IF j = 0 THEN [i |-> 1, text |-> <<>>] ELSE DecodeOne(src, form, Loop[j - 1])]
  BY <1>5, Zenon
<1>7. decode(src, N + 1, form) = [all |-> Loop[N + 1 - 1].i > Len(src), text |-> Loop[N + 1 - 1].text]
  BY DEF decode
<1> HIDE DEF Loop
<1>8. Loop[0] = First
  BY <1>6 DEF First
<1>9. ASSUME NEW j \in 1 .. N PROVE Loop[j] = DecodeOne(src, form, Loop[j - 1])
  <2>1. j \in 0 .. N + 1 - 1 /\ j # 0
    OBVIOUS
  <2> QED BY <1>6, <2>1
<1>10. N + 1 - 1 = N
  OBVIOUS
<1> QED BY <1>7, <1>8, <1>9, <1>10

(* What a text is decoded to: all it means, or as much as there is room    *)
(* for.                                                                    *)
Decoded(src, n, form) ==
  LET full == Meaning(src, form)
  IN  [all |-> Len(full) < n,
       text |-> IF Len(full) < n THEN full ELSE SubSeq(full, 1, n - 1)]

LEMMA DecodeIs ==
  ASSUME NEW src \in Seq(1 .. 127), NEW form \in BOOLEAN, NEW n \in Nat \ {0}
  PROVE  decode(src, n, form) = Decoded(src, n, form)
<1> DEFINE N == n - 1
           S == Kept(src)
           full == Meaning(src, form)
<1>1. N \in Nat /\ N + 1 = n /\ Len(src) \in Nat /\ S \in SUBSET (1 .. Len(src))
  BY KeptIs
<1>2. PICK f : /\ f[0] = First
               /\ \A j \in 1 .. N : f[j] = DecodeOne(src, form, f[j - 1])
               /\ decode(src, N + 1, form) = [all |-> f[N].i > Len(src), text |-> f[N].text]
  BY <1>1, DecodeLoop
<1> DEFINE At(j) == /\ DecodedSoFar(src, form, f[j])
                    /\ Len(f[j].text) <= j
                    /\ f[j].i <= Len(src) => Len(f[j].text) = j
           J == {j \in 0 .. N : At(j)}
<1>3. \A j \in 0 .. N : j \in J
  <2>1. 0 \in J
    <3>1. f[0].text = <<>> /\ Len(<<>>) = 0 /\ DecodedSoFar(src, form, f[0])
      BY <1>2, DecodeStarts DEF First
    <3> QED BY <1>1, <3>1
  <2>2. ASSUME NEW j \in 1 .. N, j - 1 \in J PROVE j \in J
    <3> DEFINE l == f[j - 1]
    <3>1. j \in 0 .. N /\ j \in Int
      BY <1>1
    <3>2. f[j] = DecodeOne(src, form, l)
      BY <1>2
    <3>3. DecodedSoFar(src, form, l) /\ Len(l.text) <= j - 1 /\ (l.i <= Len(src) => Len(l.text) = j - 1)
      BY <2>2
    <3>4. l.i \in 1 .. Len(src) + 1 /\ l.text \in Seq(Chars) /\ Len(l.text) \in Nat
      BY <3>3 DEF DecodedSoFar, States
    <3>5. /\ DecodedSoFar(src, form, f[j])
          /\ l.i <= Len(src) => Len(f[j].text) = Len(l.text) + 1
          /\ l.i > Len(src) => f[j] = l
      BY <3>2, <3>3, DecodeGoesOn
    <3> HIDE DEF l
    <3>6. CASE l.i <= Len(src)
      <4>1. Len(f[j].text) = j
        BY <3>1, <3>3, <3>5, <3>6
      <4> QED BY <3>1, <3>5, <4>1
    <3>7. CASE l.i > Len(src)
      <4>1. f[j] = l /\ ~ (l.i <= Len(src)) /\ Len(l.text) <= j
        BY <1>1, <3>1, <3>3, <3>4, <3>5, <3>7
      <4> QED BY <3>1, <3>5, <4>1
    <3> QED BY <1>1, <3>4, <3>6, <3>7
  <2> HIDE DEF J
  <2> QED BY <1>1, <2>1, <2>2, UpTheNumbers
<1> DEFINE l == f[N]
<1>4. N \in J
  BY <1>1, <1>3
<1>5. DecodedSoFar(src, form, l) /\ Len(l.text) <= N /\ (l.i <= Len(src) => Len(l.text) = N)
  BY <1>4
<1> HIDE DEF J, l
<1>6. /\ full \in Seq(Chars) /\ Len(full) = Cardinality(S) /\ Len(full) \in Nat
      /\ \A k \in 1 .. Cardinality(S) : full[k] = Character(src, Ascending(S)[k], form)
  BY MeaningIs
<1>7. /\ l.i \in 1 .. Len(src) + 1 /\ l.text \in Seq(Chars) /\ Len(l.text) \in Nat
      /\ Len(l.text) = Cardinality(Before(src, l.i))
      /\ \A k \in 1 .. Len(l.text) : l.text[k] = Character(src, Ascending(S)[k], form)
  BY <1>5 DEF DecodedSoFar, States
<1>8. decode(src, n, form) = [all |-> l.i > Len(src), text |-> l.text]
  BY <1>1, <1>2 DEF l
<1> HIDE DEF full, S
<1>9. CASE l.i > Len(src)
  <2>1. Before(src, l.i) = S
    BY <1>1, <1>7, <1>9 DEF Before, S
  <2>2. Len(l.text) = Len(full)
    BY <1>6, <1>7, <2>1
  <2>3. \A k \in 1 .. Len(full) : l.text[k] = full[k]
    BY <1>6, <1>7, <2>2
  <2>4. l.text = full
    BY <1>6, <1>7, <2>2, <2>3, SeqEqual
  <2>5. Len(full) < n
    BY <1>1, <1>5, <1>6, <2>2
  <2> QED BY <1>8, <1>9, <2>4, <2>5 DEF Decoded, full
<1>10. CASE l.i <= Len(src)
  <2>1. Len(l.text) = N /\ ~ (l.i > Len(src))
    BY <1>1, <1>5, <1>7, <1>10
  <2>2. l.i \in S /\ ~ (l.i \in Before(src, l.i)) /\ Before(src, l.i) \in SUBSET S
    <3>1. l.i \in S
      BY <1>5, <1>10 DEF DecodedSoFar, S
    <3>2. ~ (l.i < l.i)
      BY <1>7
    <3> QED BY <3>1, <3>2 DEF Before, S
  <2>3. Cardinality(Before(src, l.i)) <= Cardinality(S) /\ Cardinality(Before(src, l.i)) # Cardinality(S)
    BY <1>1, <2>2, PlacesPart
  <2>4. N < Len(full)
    BY <1>1, <1>6, <1>7, <2>1, <2>3
  <2>5. ~ (Len(full) < n) /\ 1 \in 1 .. Len(full) + 1 /\ N \in 1 - 1 .. Len(full) /\ N - 1 + 1 = N
    BY <1>1, <1>6, <2>4
  <2>6. /\ SubSeq(full, 1, N) \in Seq(Chars)
        /\ Len(SubSeq(full, 1, N)) = N - 1 + 1
        /\ \A k \in 1 .. N - 1 + 1 : SubSeq(full, 1, N)[k] = full[1 + k - 1]
    BY <1>6, <2>5, SubSeqIs
  <2>7. \A k \in 1 .. N : l.text[k] = SubSeq(full, 1, N)[k]
    <3>1. ASSUME NEW k \in 1 .. N PROVE l.text[k] = SubSeq(full, 1, N)[k]
      <4>1. k \in 1 .. N - 1 + 1 /\ 1 + k - 1 = k /\ k \in 1 .. Len(l.text) /\ k \in 1 .. Cardinality(S)
        BY <1>1, <1>6, <2>1, <2>4
      <4> QED BY <1>6, <1>7, <2>6, <4>1
    <3> QED BY <3>1
  <2>8. l.text = SubSeq(full, 1, N)
    <3>1. Len(l.text) = Len(SubSeq(full, 1, N))
      BY <2>1, <2>5, <2>6
    <3>2. \A k \in 1 .. Len(l.text) : l.text[k] = SubSeq(full, 1, N)[k]
      BY <2>1, <2>7
    <3> HIDE DEF N
    <3> QED BY <1>7, <2>6, <3>1, <3>2, SeqEqual
  <2> QED BY <1>8, <2>1, <2>5, <2>8 DEF Decoded, full
<1> QED BY <1>1, <1>7, <1>9, <1>10

LEMMA DecodedTyped ==
  ASSUME NEW src \in Seq(1 .. 127), NEW form \in BOOLEAN, NEW n \in Nat \ {0}
  PROVE  /\ decode(src, n, form) \in [all : BOOLEAN, text : Seq(Chars)]
         /\ decode(src, n, form).all = (Len(Meaning(src, form)) < n)
         /\ decode(src, n, form).text = IF Len(Meaning(src, form)) < n THEN Meaning(src, form)
                                        ELSE SubSeq(Meaning(src, form), 1, n - 1)
<1> DEFINE full == Meaning(src, form)
           short == SubSeq(full, 1, n - 1)
<1>1. full \in Seq(Chars) /\ Len(full) \in Nat
  BY MeaningIs
<1> HIDE DEF full
<1>2. ASSUME ~ (Len(full) < n) PROVE short \in Seq(Chars)
  <2>1. 1 \in 1 .. Len(full) + 1 /\ n - 1 \in 1 - 1 .. Len(full)
    BY <1>1, <1>2
  <2> QED BY <1>1, <2>1, SubSeqIs
<1>3. decode(src, n, form) = [all |-> Len(full) < n, text |-> IF Len(full) < n THEN full ELSE short]
  BY DecodeIs DEF Decoded, full
<1> HIDE DEF short
<1>4. (Len(full) < n) \in BOOLEAN
  OBVIOUS
<1>5. (IF Len(full) < n THEN full ELSE short) \in Seq(Chars)
  BY <1>1, <1>2
<1>6. decode(src, n, form) \in [all : BOOLEAN, text : Seq(Chars)]
  BY <1>3, <1>4, <1>5
<1> QED BY <1>3, <1>6 DEF full, short

-----------------------------------------------------------------------------
(* getVariable                                                             *)

Names == Seq((1 .. 127) \ {Ampersand})

(* Where the loop finds the name, and the value it decodes then. *)
Found(text, name) ==
  {s \in 1 .. Len(text) : s + Len(name) <= Len(text) /\ Named(text, name, s)}
ValueOfPair(text, name, s) ==
  SubSeq(text, s + Len(name) + 1, ValueEnd(text, s + Len(name) + 1) - 1)

LEMMA NamedIs ==
  ASSUME NEW text \in Seq(1 .. 127), NEW name \in Names, NEW s \in 1 .. Len(text),
         s + Len(name) <= Len(text)
  PROVE  /\ Len(text) \in Nat /\ Len(name) \in Nat
         /\ Named(text, name, s) <=> /\ s = 1 \/ text[s - 1] = Ampersand
                                     /\ text[s + Len(name)] = Equals
                                     /\ \A i \in 1 .. Len(name) : text[s + i - 1] = name[i]
<1> DEFINE m == Len(name)
           part == SubSeq(text, s, s + m - 1)
<1>1. Len(text) \in Nat /\ m \in Nat
  BY DEF Names
<1>2. s \in 1 .. Len(text) + 1 /\ s + m - 1 \in s - 1 .. Len(text) /\ s + m - 1 - s + 1 = m
  BY <1>1
<1>3. part \in Seq(1 .. 127) /\ Len(part) = m /\ \A i \in 1 .. m : part[i] = text[s + i - 1]
  BY <1>2, SubSeqIs
<1>4. name \in Seq(1 .. 127)
  <2>1. (1 .. 127) \ {Ampersand} \subseteq 1 .. 127
    OBVIOUS
  <2> QED BY <2>1, SeqMonotonic DEF Names
<1> HIDE DEF part
<1>5. ASSUME \A i \in 1 .. m : text[s + i - 1] = name[i] PROVE part = name
  <2>1. \A i \in 1 .. m : part[i] = name[i]
    BY <1>3, <1>5
  <2> QED BY <1>3, <1>4, <2>1, SeqEqual
<1>6. part = name <=> \A i \in 1 .. m : text[s + i - 1] = name[i]
  BY <1>3, <1>5
<1>7. Named(text, name, s) <=> /\ s = 1 \/ text[s - 1] = Ampersand
                               /\ text[s + m] = Equals
                               /\ part = name
  BY DEF Named, part
<1> QED BY <1>1, <1>6, <1>7

LEMMA NameIs ==
  ASSUME NEW name \in Names
  PROVE  /\ Len(name) \in Nat /\ name \in Seq(1 .. 127)
         /\ \A i \in 1 .. Len(name) : name[i] # Ampersand
<1>1. (1 .. 127) \ {Ampersand} \subseteq 1 .. 127
  OBVIOUS
<1>2. name \in Seq(1 .. 127)
  BY <1>1, SeqMonotonic DEF Names
<1>3. ASSUME NEW i \in 1 .. Len(name) PROVE name[i] # Ampersand
  <2>1. name[i] \in (1 .. 127) \ {Ampersand}
    BY ElementOfSeq DEF Names
  <2> QED BY <2>1
<1> QED BY <1>2, <1>3

(* No pair begins inside a name, at its equals sign or right behind it. *)
LEMMA NothingSkipped ==
  ASSUME NEW text \in Seq(1 .. 127), NEW name \in Names,
         NEW s \in Found(text, name), NEW p \in Found(text, name), s < p
  PROVE  s + Len(name) + 2 <= p
<1> DEFINE m == Len(name)
<1>1. /\ m \in Nat /\ Len(text) \in Nat /\ \A i \in 1 .. m : name[i] # Ampersand
      /\ s \in 1 .. Len(text) /\ p \in 1 .. Len(text)
  BY NameIs DEF Found
<1>2. text[s + m] = Equals /\ \A i \in 1 .. m : text[s + i - 1] = name[i]
  BY NamedIs DEF Found
<1>3. text[p - 1] = Ampersand
  <2>1. p # 1
    BY <1>1
  <2> QED BY <2>1, NamedIs DEF Found
<1>4. Ampersand # Equals
  BY DEF Ampersand, Equals
<1>5. p - 1 # s + m
  BY <1>2, <1>3, <1>4
<1>6. ~ (p - 1 < s + m)
  <2>1. SUFFICES ASSUME p - 1 < s + m PROVE FALSE
    OBVIOUS
  <2>2. p - s \in 1 .. m /\ s + (p - s) - 1 = p - 1
    BY <1>1, <2>1
  <2>3. text[p - 1] = name[p - s]
    BY <1>2, <2>2
  <2> QED BY <1>1, <1>3, <2>2, <2>3
<1>7. m \in Int /\ s \in Int /\ p \in Int
  BY <1>1
<1> HIDE DEF m
<1>8. s + m + 2 <= p
  BY <1>5, <1>6, <1>7
<1> QED BY <1>8 DEF m

LEMMA ValueEndIs ==
  ASSUME NEW text \in Seq(1 .. 127), NEW v \in 1 .. Len(text) + 1
  PROVE  /\ ValueEnd(text, v) \in v .. Len(text) + 1
         /\ \A i \in v .. ValueEnd(text, v) - 1 : text[i] # Ampersand
         /\ ValueEnd(text, v) <= Len(text) => text[ValueEnd(text, v)] = Ampersand
<1> DEFINE I == {i \in v .. Len(text) : text[i] = Ampersand}
<1>1. Len(text) \in Nat /\ I \in SUBSET (Nat \ {0})
  OBVIOUS
<1>2. ValueEnd(text, v) = IF FirstOf(I) = 0 THEN Len(text) + 1 ELSE FirstOf(I)
  BY DEF ValueEnd, SelectInSubSeq, FirstOf
<1>3. /\ FirstOf(I) \in Nat
      /\ FirstOf(I) # 0 => FirstOf(I) \in I
      /\ \A i \in I : FirstOf(I) # 0 /\ FirstOf(I) <= i
  BY <1>1, FirstIs
<1>4. CASE FirstOf(I) = 0
  BY <1>1, <1>2, <1>3, <1>4
<1>5. CASE FirstOf(I) # 0
  <2>1. FirstOf(I) \in v .. Len(text) /\ text[FirstOf(I)] = Ampersand
    BY <1>3, <1>5
  <2>2. ASSUME NEW i \in v .. FirstOf(I) - 1 PROVE text[i] # Ampersand
    <3>1. i \in v .. Len(text) /\ ~ (FirstOf(I) <= i)
      BY <1>1, <2>1
    <3> QED BY <1>3, <3>1
  <2> QED BY <1>1, <1>2, <1>5, <2>1, <2>2
<1> QED BY <1>4, <1>5

LEMMA ValueTyped ==
  ASSUME NEW text \in Seq(1 .. 127), NEW name \in Names, NEW s \in Found(text, name)
  PROVE  /\ s + Len(name) + 1 \in 1 .. Len(text) + 1
         /\ ValueOfPair(text, name, s) \in Seq(1 .. 127)
<1> DEFINE v == s + Len(name) + 1
<1>1. v \in 1 .. Len(text) + 1 /\ Len(text) \in Nat
  BY NameIs DEF Found
<1>2. ValueEnd(text, v) \in v .. Len(text) + 1
  BY <1>1, ValueEndIs
<1>3. ValueEnd(text, v) - 1 \in v - 1 .. Len(text)
  BY <1>1, <1>2
<1>4. SubSeq(text, v, ValueEnd(text, v) - 1) \in Seq(1 .. 127)
  BY <1>1, <1>3, SubSeqIs
<1> QED BY <1>1, <1>4 DEF ValueOfPair

(* What the loop has got in front of a place: the value of the last pair   *)
(* with the name.                                                          *)
Silent == [all |-> FALSE, text |-> <<>>]
Outputs == [all : BOOLEAN, text : Seq(Chars)]
LastBefore(text, name, i, s) ==
  s \in Found(text, name) /\ s < i /\ \A p \in Found(text, name) : p < i => p <= s

ScannedSoFar(text, name, n, form, l) ==
  /\ l \in [start : 1 .. Len(text) + 2, got : Outputs]
  /\ \/ l.got = Silent /\ \A p \in Found(text, name) : l.start <= p
     \/ \E s \in Found(text, name) : /\ LastBefore(text, name, l.start, s)
                                     /\ l.got = decode(ValueOfPair(text, name, s), n, form)

LEMMA ScanStarts ==
  ASSUME NEW text \in Seq(1 .. 127), NEW name \in Names, NEW n \in Nat \ {0}, NEW form \in BOOLEAN
  PROVE  ScannedSoFar(text, name, n, form, [start |-> 1, got |-> Silent])
<1>1. Len(text) \in Nat /\ <<>> \in Seq(Chars)
  OBVIOUS
<1>2. Silent \in Outputs
  BY <1>1 DEF Silent, Outputs
<1>3. \A p \in Found(text, name) : 1 <= p
  BY <1>1 DEF Found
<1> QED BY <1>1, <1>2, <1>3 DEF ScannedSoFar

LEMMA ScanGoesOn ==
  ASSUME NEW text \in Seq(1 .. 127), NEW name \in Names, NEW n \in Nat \ {0}, NEW form \in BOOLEAN,
         NEW l, ScannedSoFar(text, name, n, form, l)
  PROVE  LET next == ScanOne(name, text, n, form, l)
         IN  /\ ScannedSoFar(text, name, n, form, next)
             /\ next.start >= l.start + 1 \/ (next = l /\ l.start + Len(name) > Len(text))
<1> DEFINE m == Len(name)
           next == ScanOne(name, text, n, form, l)
           i == l.start
           P == Found(text, name)
<1>1. m \in Nat /\ Len(text) \in Nat
  BY NameIs
<1>2. i \in 1 .. Len(text) + 2 /\ l.got \in Outputs
  BY DEF ScannedSoFar
<1>3. \A p \in P : p \in 1 .. Len(text) /\ p + m <= Len(text) /\ Named(text, name, p)
  BY DEF Found
<1>4. CASE i + m > Len(text)
  <2>1. next = l
    BY <1>4 DEF ScanOne
  <2> QED BY <1>4, <2>1
<1>5. CASE ~ (i + m > Len(text)) /\ ~ Named(text, name, i)
  <2>1. next = [l EXCEPT !.start = @ + 1]
    BY <1>5 DEF ScanOne
  <2>2. next = [start |-> i + 1, got |-> l.got]
    BY <2>1 DEF ScannedSoFar
  <2>3. next.start = i + 1 /\ next.got = l.got /\ i + 1 \in 1 .. Len(text) + 2
    BY <1>1, <1>2, <1>5, <2>2
  <2>4. \A p \in P : p # i
    BY <1>3, <1>5
  <2>5. \A p \in P : (p < i + 1 <=> p < i) /\ (i <= p => i + 1 <= p)
    BY <1>2, <1>3, <2>4
  <2>6. next \in [start : 1 .. Len(text) + 2, got : Outputs]
    BY <1>2, <2>2, <2>3
  <2>a. \/ l.got = Silent /\ \A p \in P : i <= p
        \/ \E s \in P : LastBefore(text, name, i, s) /\ l.got = decode(ValueOfPair(text, name, s), n, form)
    BY DEF ScannedSoFar
  <2> HIDE DEF next
  <2>7. ASSUME l.got = Silent, \A p \in P : i <= p PROVE ScannedSoFar(text, name, n, form, next)
    <3>1. \A p \in P : next.start <= p
      BY <2>3, <2>5, <2>7
    <3>2. next.got = Silent
      BY <2>3, <2>7
    <3> QED BY <2>6, <3>1, <3>2 DEF ScannedSoFar
  <2>8. ASSUME NEW s \in P, LastBefore(text, name, i, s), l.got = decode(ValueOfPair(text, name, s), n, form)
        PROVE  ScannedSoFar(text, name, n, form, next)
    <3>1. LastBefore(text, name, next.start, s)
      <4>1. \A p \in P : (p < next.start <=> p < i)
        BY <2>3, <2>5
      <4> QED BY <2>8, <4>1 DEF LastBefore
    <3>2. next.got = decode(ValueOfPair(text, name, s), n, form)
      BY <2>3, <2>8
    <3> QED BY <2>6, <3>1, <3>2 DEF ScannedSoFar
  <2>9. ScannedSoFar(text, name, n, form, next)
    BY <2>a, <2>7, <2>8
  <2> QED BY <1>2, <2>3, <2>9 DEF next
<1>6. CASE ~ (i + m > Len(text)) /\ Named(text, name, i)
  <2> DEFINE value == i + m + 1
             got == decode(ValueOfPair(text, name, i), n, form)
  <2>1. i \in P
    <3>1. i \in 1 .. Len(text) /\ i + m <= Len(text)
      BY <1>1, <1>2, <1>6
    <3> QED BY <1>6, <3>1 DEF Found
  <2>2. next = [start |-> value + 1, got |-> got]
    BY <1>6 DEF ScanOne, ValueOfPair
  <2>3. got \in Outputs
    <3>1. ValueOfPair(text, name, i) \in Seq(1 .. 127)
      BY <2>1, ValueTyped
    <3> QED BY <3>1, DecodedTyped DEF Outputs
  <2> HIDE DEF got
  <2>4. next.start = value + 1 /\ next.got = got /\ value + 1 \in 1 .. Len(text) + 2 /\ value + 1 >= i + 1
    BY <1>1, <1>2, <1>6, <2>2
  <2>5. next \in [start : 1 .. Len(text) + 2, got : Outputs]
    BY <2>2, <2>3, <2>4
  <2>6. LastBefore(text, name, value + 1, i)
    <3>1. ASSUME NEW p \in P, p < value + 1 PROVE p <= i
      <4>1. SUFFICES ASSUME ~ (p <= i) PROVE FALSE
        OBVIOUS
      <4>2. i < p
        BY <1>2, <1>3, <4>1
      <4>3. i + m + 2 <= p
        BY <2>1, <4>2, NothingSkipped
      <4> QED BY <1>1, <1>2, <1>3, <3>1, <4>3
    <3>2. i < value + 1
      BY <1>1, <1>2
    <3> QED BY <2>1, <3>1, <3>2 DEF LastBefore
  <2> HIDE DEF next, P
  <2>7. \E s \in P : LastBefore(text, name, next.start, s) /\ next.got = decode(ValueOfPair(text, name, s), n, form)
    BY <2>1, <2>4, <2>6 DEF got
  <2>8. ScannedSoFar(text, name, n, form, next)
    BY <2>5, <2>7 DEF ScannedSoFar, P
  <2> QED BY <2>4, <2>8 DEF next
<1> QED BY <1>4, <1>5, <1>6

LEMMA ScanLoop ==
  ASSUME NEW text \in Seq(1 .. 127), NEW name \in Names, NEW n \in Nat \ {0}, NEW form \in BOOLEAN
  PROVE  \E f : /\ f[0] = [start |-> 1, got |-> Silent]
                /\ \A j \in 1 .. Len(text) : f[j] = ScanOne(name, text, n, form, f[j - 1])
                /\ getVariable(name, text, n, form) =
                     [found |-> f[Len(text)].got.all, out |-> f[Len(text)].got.text]
<1> DEFINE N == Len(text)
           a == [start |-> 1, got |-> [all |-> FALSE, text |-> <<>>]]
           X == {l \in [start : 1 .. Len(text) + 2, got : Outputs] : ScannedSoFar(text, name, n, form, l)}
           G == [l \in X |-> ScanOne(name, text, n, form, l)]
           Loop == CHOOSE f : f = [turn \in 0 .. N |->
                     IF turn = 0 THEN a ELSE ScanOne(name, text, n, form, f[turn - 1])]
<1>1. a \in X
  BY ZenonT(30), ScanStarts DEF ScannedSoFar, Silent
<1>2. G \in [X -> X]
  BY ScanGoesOn DEF ScannedSoFar
<1>3. N \in Nat
  OBVIOUS
<1>4. PICK f \in [0 .. N -> X] : f[0] = a /\ \A j \in 1 .. N : f[j] = G[f[j - 1]]
  <2> HIDE DEF X, G, a, N
  <2>1. \E f : Takes(f, X, a, G, N)
    BY <1>1, <1>2, <1>3, Turns
  <2> QED BY <2>1 DEF Takes
<1>5. ASSUME NEW j \in 1 .. N PROVE f[j] = ScanOne(name, text, n, form, f[j - 1])
  <2>1. j - 1 \in 0 .. N
    OBVIOUS
  <2>2. f[j - 1] \in X
    BY <1>4, <2>1
  <2> HIDE DEF X
  <2> QED BY <1>4, <2>2
<1>6. f = [turn \in 0 .. N |-> IF turn = 0 THEN a ELSE ScanOne(name, text, n, form, f[turn - 1])]
  <2>1. ASSUME NEW j \in 0 .. N
        PROVE  f[j] = IF j = 0 THEN a ELSE ScanOne(name, text, n, form, f[j - 1])
    <3>1. j # 0 => j \in 1 .. N
      BY <1>3
    <3> HIDE DEF a, N
    <3> QED BY <1>4, <1>5, <3>1
  <2> HIDE DEF X, a, N
  <2> QED BY <1>4, <2>1
<1>7. Loop = [turn \in 0 .. N |-> IF turn = 0 THEN a ELSE ScanOne(name, text, n, form, Loop[turn - 1])]
  BY <1>6, Zenon
<1>8. getVariable(name, text, n, form) = [found |-> Loop[N].got.all, out |-> Loop[N].got.text]
  BY DEF getVariable
<1> HIDE DEF Loop
<1>9. Loop[0] = a
  BY <1>3, <1>7
<1>10. ASSUME NEW j \in 1 .. N PROVE Loop[j] = ScanOne(name, text, n, form, Loop[j - 1])
  <2>1. j \in 0 .. N /\ j # 0
    BY <1>3
  <2> HIDE DEF a, N
  <2> QED BY <1>7, <2>1
<1> QED BY <1>8, <1>9, <1>10 DEF Silent

(* The loop decodes the value of the last pair with the name. *)
LEMMA GetVariableIs ==
  ASSUME NEW text \in Seq(1 .. 127), NEW name \in Names, NEW n \in Nat \ {0}, NEW form \in BOOLEAN
  PROVE  \/ /\ Found(text, name) = {}
            /\ getVariable(name, text, n, form) = [found |-> FALSE, out |-> <<>>]
         \/ \E s \in Found(text, name) :
              /\ \A p \in Found(text, name) : p <= s
              /\ getVariable(name, text, n, form) =
                   [found |-> decode(ValueOfPair(text, name, s), n, form).all,
                    out |-> decode(ValueOfPair(text, name, s), n, form).text]
<1> DEFINE N == Len(text)
           m == Len(name)
<1>1. N \in Nat /\ m \in Nat
  BY NameIs
<1>2. PICK f : /\ f[0] = [start |-> 1, got |-> Silent]
               /\ \A j \in 1 .. N : f[j] = ScanOne(name, text, n, form, f[j - 1])
               /\ getVariable(name, text, n, form) = [found |-> f[N].got.all, out |-> f[N].got.text]
  BY ScanLoop
<1> DEFINE At(j) == /\ ScannedSoFar(text, name, n, form, f[j])
                    /\ f[j].start >= j + 1 \/ f[j].start + m > N
           J == {j \in 0 .. N : At(j)}
<1>3. \A j \in 0 .. N : j \in J
  <2>1. 0 \in J
    <3>1. f[0].start = 1 /\ ScannedSoFar(text, name, n, form, f[0])
      BY <1>2, ScanStarts
    <3> QED BY <1>1, <3>1
  <2>2. ASSUME NEW j \in 1 .. N, j - 1 \in J PROVE j \in J
    <3> DEFINE l == f[j - 1]
               next == ScanOne(name, text, n, form, l)
    <3>1. j \in 0 .. N /\ j \in Int
      BY <1>1
    <3>2. f[j] = next
      BY <1>2
    <3>3. ScannedSoFar(text, name, n, form, l) /\ (l.start >= j - 1 + 1 \/ l.start + m > N)
      BY <2>2
    <3>4. l.start \in Nat
      BY <1>1, <3>3 DEF ScannedSoFar
    <3>5. /\ ScannedSoFar(text, name, n, form, next)
          /\ next.start >= l.start + 1 \/ (next = l /\ l.start + m > N)
      BY <3>3, ScanGoesOn
    <3>6. next.start \in Nat
      BY <1>1, <3>5 DEF ScannedSoFar
    <3> HIDE DEF l, next, m, N
    <3>7. next.start >= j + 1 \/ next.start + m > N
      BY <1>1, <3>1, <3>3, <3>4, <3>5, <3>6
    <3> QED BY <3>1, <3>2, <3>5, <3>7
  <2> HIDE DEF J
  <2> QED BY <1>1, <2>1, <2>2, UpTheNumbers
<1> DEFINE l == f[N]
<1>4. N \in J
  BY <1>1, <1>3
<1>5. ScannedSoFar(text, name, n, form, l) /\ (l.start >= N + 1 \/ l.start + m > N)
  BY <1>4
<1> HIDE DEF J
<1>6. l.start \in Nat
  BY <1>1, <1>5 DEF ScannedSoFar
<1>7. ASSUME NEW p \in Found(text, name) PROVE p < l.start
  <2>1. p \in Nat /\ p + m <= N
    BY <1>1 DEF Found
  <2> HIDE DEF l, m, N
  <2> QED BY <1>1, <1>5, <1>6, <2>1
<1>8. \/ l.got = Silent /\ \A p \in Found(text, name) : l.start <= p
      \/ \E s \in Found(text, name) : /\ LastBefore(text, name, l.start, s)
                                      /\ l.got = decode(ValueOfPair(text, name, s), n, form)
  BY <1>5 DEF ScannedSoFar
<1>9. getVariable(name, text, n, form) = [found |-> l.got.all, out |-> l.got.text]
  BY <1>2
<1> HIDE DEF l
<1>10. CASE l.got = Silent /\ \A p \in Found(text, name) : l.start <= p
  <2>1. ASSUME NEW p \in Found(text, name) PROVE FALSE
    <3>1. p < l.start /\ l.start <= p /\ p \in Nat
      BY <1>7, <1>10 DEF Found
    <3> QED BY <1>6, <3>1
  <2>2. Found(text, name) = {}
    BY <2>1
  <2> QED BY <1>9, <1>10, <2>2 DEF Silent
<1>11. ASSUME NEW s \in Found(text, name), LastBefore(text, name, l.start, s),
              l.got = decode(ValueOfPair(text, name, s), n, form)
       PROVE  /\ \A p \in Found(text, name) : p <= s
              /\ getVariable(name, text, n, form) =
                   [found |-> decode(ValueOfPair(text, name, s), n, form).all,
                    out |-> decode(ValueOfPair(text, name, s), n, form).text]
  BY <1>7, <1>9, <1>11 DEF LastBefore
<1> QED BY <1>8, <1>10, <1>11

-----------------------------------------------------------------------------
(* The pairs of a text: what the loop finds is what is meant.              *)

LEMMA PrefixIs ==
  ASSUME NEW s \in Seq(1 .. 127), NEW t \in Seq(1 .. 127)
  PROVE  IsPrefix(s, t) <=> Len(s) <= Len(t) /\ \A i \in 1 .. Len(s) : t[i] = s[i]
<1>1. Len(s) \in Nat /\ Len(t) \in Nat
  OBVIOUS
<1>2. CASE Len(s) <= Len(t)
  <2> DEFINE n == Len(s)
             u == SubSeq(t, 1, n)
             w == SubSeq(s, 1, n)
  <2>1. 1 \in 1 .. Len(t) + 1 /\ n \in 1 - 1 .. Len(t) /\ 1 \in 1 .. Len(s) + 1 /\ n \in 1 - 1 .. Len(s)
    BY <1>1, <1>2
  <2>2. n - 1 + 1 = n /\ \A i \in 1 .. n : 1 + i - 1 = i
    BY <1>1
  <2> HIDE DEF n
  <2>3. u \in Seq(1 .. 127) /\ Len(u) = n /\ \A i \in 1 .. n : u[i] = t[i]
    <3>1. /\ SubSeq(t, 1, n) \in Seq(1 .. 127) /\ Len(SubSeq(t, 1, n)) = n - 1 + 1
          /\ \A i \in 1 .. n - 1 + 1 : SubSeq(t, 1, n)[i] = t[1 + i - 1]
      BY <2>1, SubSeqIs
    <3>2. n \in Nat /\ \A i \in 1 .. n : i \in 1 .. n - 1 + 1
      BY <1>1, <2>1
    <3> QED BY <2>2, <3>1, <3>2
  <2>4. w \in Seq(1 .. 127) /\ Len(w) = n /\ \A i \in 1 .. n : w[i] = s[i]
    <3>1. /\ SubSeq(s, 1, n) \in Seq(1 .. 127) /\ Len(SubSeq(s, 1, n)) = n - 1 + 1
          /\ \A i \in 1 .. n - 1 + 1 : SubSeq(s, 1, n)[i] = s[1 + i - 1]
      BY <2>1, SubSeqIs
    <3>2. n \in Nat /\ \A i \in 1 .. n : i \in 1 .. n - 1 + 1
      BY <1>1, <2>1
    <3> QED BY <2>2, <3>1, <3>2
  <2>5. IsPrefix(s, t) <=> w = u
    BY <1>2 DEF IsPrefix, n
  <2> HIDE DEF u, w
  <2>6. ASSUME \A i \in 1 .. n : t[i] = s[i] PROVE w = u
    <3>1. \A i \in 1 .. Len(w) : w[i] = u[i]
      BY <2>3, <2>4, <2>6
    <3> QED BY <2>3, <2>4, <3>1, SeqEqual
  <2>7. w = u => \A i \in 1 .. n : t[i] = s[i]
    BY <2>3, <2>4
  <2> QED BY <1>2, <2>5, <2>6, <2>7 DEF n
<1>3. CASE ~ (Len(s) <= Len(t))
  BY <1>3 DEF IsPrefix
<1> QED BY <1>2, <1>3

LEMMA UpToText ==
  ASSUME NEW s \in Seq(1 .. 127), NEW c
  PROVE  /\ UpTo(s, c) \in Seq(1 .. 127)
         /\ Len(UpTo(s, c)) = IF strchr(s, c) = 0 THEN Len(s) ELSE strchr(s, c) - 1
         /\ Len(UpTo(s, c)) \in 0 .. Len(s)
         /\ \A i \in 1 .. Len(UpTo(s, c)) : UpTo(s, c)[i] = s[i] /\ s[i] # c
         /\ strchr(s, c) # 0 => s[Len(UpTo(s, c)) + 1] = c
BY UpToIs

LEMMA PairIs ==
  ASSUME NEW text \in Seq(1 .. 127), NEW s \in 1 .. Len(text) + 1
  PROVE  /\ Pair(text, s) \in Seq(1 .. 127)
         /\ Len(Pair(text, s)) = ValueEnd(text, s) - s
         /\ \A i \in 1 .. ValueEnd(text, s) - s : Pair(text, s)[i] = text[s + i - 1]
<1> DEFINE N == Len(text)
           R == SubSeq(text, s, N)
           P == UpTo(R, Ampersand)
           e == ValueEnd(text, s)
<1>1. N \in Nat /\ N \in s - 1 .. N
  OBVIOUS
<1>2. R \in Seq(1 .. 127) /\ Len(R) = N - s + 1 /\ \A i \in 1 .. N - s + 1 : R[i] = text[s + i - 1]
  BY <1>1, SubSeqIs
<1> HIDE DEF R
<1>3. /\ P \in Seq(1 .. 127)
      /\ Len(P) = IF strchr(R, Ampersand) = 0 THEN Len(R) ELSE strchr(R, Ampersand) - 1
      /\ Len(P) \in 0 .. Len(R)
      /\ \A i \in 1 .. Len(P) : P[i] = R[i] /\ R[i] # Ampersand
      /\ strchr(R, Ampersand) # 0 => R[Len(P) + 1] = Ampersand
  BY <1>2, UpToText
<1> HIDE DEF P
<1>4. /\ e \in s .. N + 1
      /\ \A i \in s .. e - 1 : text[i] # Ampersand
      /\ e <= N => text[e] = Ampersand
  BY ValueEndIs
<1> HIDE DEF e, N
<1>5. Len(P) \in Nat /\ s \in Nat \ {0} /\ e \in Nat /\ Len(P) <= N - s + 1
  BY <1>1, <1>2, <1>3, <1>4 DEF N
<1>6. ~ (Len(P) < e - s)
  <2>1. SUFFICES ASSUME Len(P) < e - s PROVE FALSE
    OBVIOUS
  <2>2. s + Len(P) \in s .. e - 1 /\ Len(P) # Len(R) /\ Len(P) + 1 \in 1 .. N - s + 1 /\ s + (Len(P) + 1) - 1 = s + Len(P)
    BY <1>1, <1>2, <1>4, <1>5, <2>1
  <2>3. R[Len(P) + 1] = Ampersand
    BY <1>3, <2>2
  <2>4. R[Len(P) + 1] = text[s + Len(P)]
    BY <1>2, <2>2
  <2> QED BY <1>4, <2>2, <2>3, <2>4
<1>7. ~ (Len(P) > e - s)
  <2>1. SUFFICES ASSUME Len(P) > e - s PROVE FALSE
    OBVIOUS
  <2>2. e - s + 1 \in 1 .. Len(P) /\ e - s + 1 \in 1 .. N - s + 1 /\ s + (e - s + 1) - 1 = e /\ e <= N
    BY <1>1, <1>4, <1>5, <2>1
  <2>3. R[e - s + 1] # Ampersand
    BY <1>3, <2>2
  <2>4. R[e - s + 1] = text[e]
    BY <1>2, <2>2
  <2> QED BY <1>4, <2>2, <2>3, <2>4
<1>8. Len(P) = e - s
  BY <1>5, <1>6, <1>7
<1>9. ASSUME NEW i \in 1 .. e - s PROVE P[i] = text[s + i - 1]
  <2>1. i \in 1 .. Len(P) /\ i \in 1 .. N - s + 1
    BY <1>1, <1>5, <1>8
  <2> QED BY <1>2, <1>3, <2>1
<1>10. Pair(text, s) = P
  BY DEF Pair, P, R, N
<1> QED BY <1>3, <1>8, <1>9, <1>10 DEF e

LEMMA StartsAre ==
  ASSUME NEW text \in Seq(1 .. 127), NEW s
  PROVE  s \in Starts(text) <=> s \in 1 .. Len(text) + 1 /\ (s = 1 \/ text[s - 1] = Ampersand)
<1>1. DOMAIN text = 1 .. Len(text) /\ Len(text) \in Nat
  OBVIOUS
<1>2. ASSUME s \in Starts(text) PROVE s \in 1 .. Len(text) + 1 /\ (s = 1 \/ text[s - 1] = Ampersand)
  <2>1. CASE s = 1
    BY <1>1, <2>1
  <2>2. CASE s # 1
    <3>1. PICK j \in 1 .. Len(text) : text[j] = Ampersand /\ s = j + 1
      BY <1>1, <1>2, <2>2 DEF Starts
    <3>2. s \in 1 .. Len(text) + 1 /\ s - 1 = j
      BY <1>1, <3>1
    <3> QED BY <3>1, <3>2
  <2> QED BY <2>1, <2>2
<1>3. ASSUME s \in 1 .. Len(text) + 1, s = 1 \/ text[s - 1] = Ampersand PROVE s \in Starts(text)
  <2>1. CASE s = 1
    BY <2>1 DEF Starts
  <2>2. CASE s # 1
    <3>1. s - 1 \in 1 .. Len(text) /\ s = (s - 1) + 1 /\ text[s - 1] = Ampersand
      BY <1>1, <1>3, <2>2
    <3>2. s - 1 \in {j \in DOMAIN text : text[j] = Ampersand}
      BY <1>1, <3>1
    <3> QED BY <3>1, <3>2 DEF Starts
  <2> QED BY <2>1, <2>2
<1> QED BY <1>2, <1>3

LEMMA OfNameIs ==
  ASSUME NEW text \in Seq(1 .. 127), NEW name \in Names
  PROVE  OfName(text, name) = Found(text, name)
<1> DEFINE N == Len(text)
           m == Len(name)
           key == Append(name, Equals)
<1>1. /\ N \in Nat /\ m \in Nat /\ name \in Seq(1 .. 127) /\ \A i \in 1 .. m : name[i] # Ampersand
      /\ Equals \in 1 .. 127 /\ Equals # Ampersand
  BY NameIs DEF Equals, Ampersand
<1>2. /\ key \in Seq(1 .. 127) /\ Len(key) = m + 1
      /\ \A i \in 1 .. m : key[i] = name[i]
      /\ key[m + 1] = Equals
  BY <1>1, AppendProperties
<1> HIDE DEF key
<1>3. ASSUME NEW s \in 1 .. N + 1
      PROVE  IsPrefix(key, Pair(text, s)) <=>
               /\ s + m <= N /\ text[s + m] = Equals
               /\ \A i \in 1 .. m : text[s + i - 1] = name[i]
  <2> DEFINE P == Pair(text, s)
             e == ValueEnd(text, s)
  <2>1. P \in Seq(1 .. 127) /\ Len(P) = e - s /\ \A i \in 1 .. e - s : P[i] = text[s + i - 1]
    BY PairIs
  <2>2. /\ e \in s .. N + 1
        /\ \A i \in s .. e - 1 : text[i] # Ampersand
        /\ e <= N => text[e] = Ampersand
    BY ValueEndIs
  <2>3. IsPrefix(key, P) <=> Len(key) <= Len(P) /\ \A i \in 1 .. Len(key) : P[i] = key[i]
    BY <1>2, <2>1, PrefixIs
  <2> HIDE DEF P, e
  <2>4. ASSUME m + 1 <= e - s, \A i \in 1 .. m + 1 : P[i] = key[i]
        PROVE  /\ s + m <= N /\ text[s + m] = Equals
               /\ \A i \in 1 .. m : text[s + i - 1] = name[i]
    <3>1. s + m <= N /\ m + 1 \in 1 .. m + 1 /\ m + 1 \in 1 .. e - s /\ s + (m + 1) - 1 = s + m
      BY <1>1, <2>2, <2>4
    <3>2. text[s + m] = Equals
      BY <1>2, <2>1, <2>4, <3>1
    <3>3. ASSUME NEW i \in 1 .. m PROVE text[s + i - 1] = name[i]
      <4>1. i \in 1 .. m + 1 /\ i \in 1 .. e - s
        BY <1>1, <2>2, <2>4
      <4> QED BY <1>2, <2>1, <2>4, <4>1
    <3> QED BY <3>1, <3>2, <3>3
  <2>5. ASSUME s + m <= N, text[s + m] = Equals, \A i \in 1 .. m : text[s + i - 1] = name[i]
        PROVE  m + 1 <= e - s /\ \A i \in 1 .. m + 1 : P[i] = key[i]
    <3>1. ~ (e <= s + m)
      <4>1. SUFFICES ASSUME e <= s + m PROVE FALSE
        OBVIOUS
      <4>2. text[e] = Ampersand
        BY <1>1, <2>2, <2>5, <4>1
      <4>3. e # s + m
        BY <1>1, <2>5, <4>2
      <4>4. e - s + 1 \in 1 .. m /\ s + (e - s + 1) - 1 = e
        <5>1. s \in Nat /\ e \in Nat /\ s <= e
          BY <1>1, <2>2
        <5> HIDE DEF m
        <5> QED BY <1>1, <4>1, <4>3, <5>1
      <4>5. text[e] = name[e - s + 1]
        BY <2>5, <4>4
      <4> QED BY <1>1, <4>2, <4>4, <4>5
    <3>2. m + 1 <= e - s
      BY <1>1, <2>2, <3>1
    <3>3. ASSUME NEW i \in 1 .. m + 1 PROVE P[i] = key[i]
      <4>1. i \in 1 .. e - s /\ (i \in 1 .. m \/ i = m + 1) /\ s + (m + 1) - 1 = s + m
        BY <1>1, <2>2, <3>2
      <4>2. P[i] = text[s + i - 1]
        BY <2>1, <4>1
      <4>3. CASE i \in 1 .. m
        BY <1>2, <2>5, <4>2, <4>3
      <4>4. CASE i = m + 1
        BY <1>2, <2>5, <4>1, <4>2, <4>4
      <4> QED BY <4>1, <4>3, <4>4
    <3> QED BY <3>2, <3>3
  <2>6. IsPrefix(key, P) <=> m + 1 <= e - s /\ \A i \in 1 .. m + 1 : P[i] = key[i]
    BY <1>2, <2>1, <2>3
  <2> QED BY <2>4, <2>5, <2>6 DEF P
<1>4. ASSUME NEW s PROVE s \in OfName(text, name) <=> s \in Found(text, name)
  <2>1. s \in OfName(text, name) <=> s \in Starts(text) /\ IsPrefix(key, Pair(text, s))
    BY DEF OfName, key
  <2>2. s \in Starts(text) <=> s \in 1 .. N + 1 /\ (s = 1 \/ text[s - 1] = Ampersand)
    BY StartsAre
  <2>3. s \in 1 .. N + 1 /\ s + m <= N => s \in 1 .. N
    BY <1>1
  <2>4. s \in 1 .. N => s \in 1 .. N + 1
    BY <1>1
  <2>5. ASSUME s \in 1 .. N, s + m <= N
        PROVE  Named(text, name, s) <=> /\ s = 1 \/ text[s - 1] = Ampersand
                                        /\ text[s + m] = Equals
                                        /\ \A i \in 1 .. m : text[s + i - 1] = name[i]
    BY <2>5, NamedIs
  <2>6. s \in Found(text, name) <=> s \in 1 .. N /\ s + m <= N /\ Named(text, name, s)
    BY DEF Found
  <2> HIDE DEF N, m
  <2> QED BY <1>3, <2>1, <2>2, <2>3, <2>4, <2>5, <2>6
<1> QED BY <1>4

LEMMA PairValueIs ==
  ASSUME NEW text \in Seq(1 .. 127), NEW name \in Names, NEW s \in Found(text, name)
  PROVE  SubSeq(Pair(text, s), Len(name) + 2, Len(Pair(text, s))) = ValueOfPair(text, name, s)
<1> DEFINE N == Len(text)
           m == Len(name)
           v == s + m + 1
           e == ValueEnd(text, s)
           d == ValueEnd(text, v)
           P == Pair(text, s)
<1>1. N \in Nat /\ m \in Nat /\ s \in 1 .. N /\ s \in 1 .. N + 1 /\ v \in 1 .. N + 1
      /\ \A i \in 1 .. m : name[i] # Ampersand
  BY NameIs, ValueTyped DEF Found
<1>2. text[s + m] = Equals /\ \A i \in 1 .. m : text[s + i - 1] = name[i]
  BY NamedIs DEF Found
<1>3. P \in Seq(1 .. 127) /\ Len(P) = e - s /\ \A i \in 1 .. e - s : P[i] = text[s + i - 1]
  BY <1>1, PairIs
<1>4. /\ e \in s .. N + 1
      /\ \A i \in s .. e - 1 : text[i] # Ampersand
      /\ e <= N => text[e] = Ampersand
  BY <1>1, ValueEndIs
<1>5. /\ d \in v .. N + 1
      /\ \A i \in v .. d - 1 : text[i] # Ampersand
      /\ d <= N => text[d] = Ampersand
  BY <1>1, ValueEndIs
<1>6. ValueOfPair(text, name, s) = SubSeq(text, v, d - 1)
  BY DEF ValueOfPair
<1> HIDE DEF e, d, P
<1>7. ASSUME NEW i \in s .. v - 1 PROVE text[i] # Ampersand
  <2>1. i = s + m \/ (i - s + 1 \in 1 .. m /\ s + (i - s + 1) - 1 = i)
    BY <1>1
  <2>2. Equals # Ampersand
    BY DEF Equals, Ampersand
  <2> QED BY <1>1, <1>2, <2>1, <2>2
<1> HIDE DEF v, N, m
<1>8. v \in Nat /\ e \in Nat /\ d \in Nat /\ s \in Nat
  BY <1>1, <1>4, <1>5
<1>9. ~ (e < d)
  <2>1. SUFFICES ASSUME e < d PROVE FALSE
    OBVIOUS
  <2>2. text[e] = Ampersand /\ (e \in s .. v - 1 \/ e \in v .. d - 1)
    BY <1>1, <1>4, <1>5, <1>8, <2>1
  <2> QED BY <1>5, <1>7, <2>2
<1>10. ~ (d < e)
  <2>1. SUFFICES ASSUME d < e PROVE FALSE
    OBVIOUS
  <2>2. text[d] = Ampersand /\ d \in s .. e - 1
    BY <1>1, <1>4, <1>5, <1>8, <2>1 DEF v
  <2> QED BY <1>4, <2>2
<1>11. e = d
  BY <1>8, <1>9, <1>10
<1>12. m + 2 \in 1 .. Len(P) + 1 /\ Len(P) \in m + 2 - 1 .. Len(P) /\ Len(P) - (m + 2) + 1 = e - v
  BY <1>1, <1>3, <1>5, <1>8, <1>11 DEF v
<1>13. /\ SubSeq(P, m + 2, Len(P)) \in Seq(1 .. 127)
       /\ Len(SubSeq(P, m + 2, Len(P))) = e - v
       /\ \A i \in 1 .. e - v : SubSeq(P, m + 2, Len(P))[i] = P[m + 2 + i - 1]
  <2> DEFINE a == m + 2
             b == Len(P)
  <2>1. a \in 1 .. Len(P) + 1 /\ b \in a - 1 .. Len(P) /\ b - a + 1 = e - v
    BY <1>12
  <2> HIDE DEF a, b
  <2>2. /\ SubSeq(P, a, b) \in Seq(1 .. 127)
        /\ Len(SubSeq(P, a, b)) = b - a + 1
        /\ \A i \in 1 .. b - a + 1 : SubSeq(P, a, b)[i] = P[a + i - 1]
    BY ZenonT(30), <1>3, <2>1, SubSeqIs
  <2> QED BY <2>1, <2>2 DEF a, b
<1>14. /\ SubSeq(text, v, e - 1) \in Seq(1 .. 127)
       /\ Len(SubSeq(text, v, e - 1)) = e - v
       /\ \A i \in 1 .. e - v : SubSeq(text, v, e - 1)[i] = text[v + i - 1]
  <2>1. v \in 1 .. Len(text) + 1 /\ e - 1 \in v - 1 .. Len(text) /\ e - 1 - v + 1 = e - v
    BY <1>1, <1>5, <1>8, <1>11 DEF N
  <2> QED BY <2>1, SubSeqIs
<1>15. ASSUME NEW i \in 1 .. e - v PROVE SubSeq(P, m + 2, Len(P))[i] = SubSeq(text, v, e - 1)[i]
  <2>1. m + 2 + i - 1 \in 1 .. e - s /\ s + (m + 2 + i - 1) - 1 = v + i - 1
    BY <1>1, <1>8 DEF v
  <2> QED BY <1>3, <1>13, <1>14, <2>1
<1>16. SubSeq(P, m + 2, Len(P)) = SubSeq(text, v, e - 1)
  <2> DEFINE a == SubSeq(P, m + 2, Len(P))
             b == SubSeq(text, v, e - 1)
  <2>1. a \in Seq(1 .. 127) /\ b \in Seq(1 .. 127) /\ Len(a) = Len(b) /\ \A i \in 1 .. Len(a) : a[i] = b[i]
    BY <1>13, <1>14, <1>15
  <2> HIDE DEF a, b
  <2>2. a = b
    BY <2>1, SeqEqual
  <2> QED BY <2>2 DEF a, b
<1> QED BY <1>6, <1>11, <1>16 DEF P, m

(* What a variable is read as. *)
LEMMA VariableRead ==
  ASSUME NEW text \in Seq(1 .. 127), NEW name \in Names, NEW n \in Nat \ {0}, NEW form \in BOOLEAN
  PROVE  FoundIn(text, name, n, form, getVariable(name, text, n, form))
<1> DEFINE P == Found(text, name)
           got == getVariable(name, text, n, form)
<1>1. OfName(text, name) = P
  BY OfNameIs
<1>2. \/ P = {} /\ got = [found |-> FALSE, out |-> <<>>]
      \/ \E s \in P : /\ \A p \in P : p <= s
                      /\ got = [found |-> decode(ValueOfPair(text, name, s), n, form).all,
                                out |-> decode(ValueOfPair(text, name, s), n, form).text]
  BY GetVariableIs
<1> HIDE DEF got
<1>3. CASE P = {} /\ got = [found |-> FALSE, out |-> <<>>]
  BY <1>1, <1>3 DEF FoundIn, got
<1>4. ASSUME NEW s \in P, \A p \in P : p <= s,
             got = [found |-> decode(ValueOfPair(text, name, s), n, form).all,
                    out |-> decode(ValueOfPair(text, name, s), n, form).text]
      PROVE  FoundIn(text, name, n, form, got)
  <2> DEFINE last == CHOOSE i \in P : \A j \in P : j <= i
             value == ValueOfPair(text, name, s)
             full == Meaning(value, form)
  <2>1. \A p \in P : p \in Nat
    BY DEF Found
  <2> HIDE DEF P
  <2>2. last \in P /\ \A j \in P : j <= last
    BY <1>4, Zenon
  <2>3. last = s
    BY <1>4, <2>1, <2>2
  <2>4. value \in Seq(1 .. 127)
    BY ValueTyped DEF P
  <2>5. SubSeq(Pair(text, s), Len(name) + 2, Len(Pair(text, s))) = value
    BY PairValueIs DEF P
  <2> HIDE DEF value
  <2>6. /\ decode(value, n, form).all = (Len(full) < n)
        /\ decode(value, n, form).text = IF Len(full) < n THEN full ELSE SubSeq(full, 1, n - 1)
    BY <2>4, DecodedTyped
  <2>7. /\ got.found = (Len(full) < n)
        /\ got.out = IF Len(full) < n THEN full ELSE SubSeq(full, 1, n - 1)
    BY <1>4, <2>6 DEF value
  <2> HIDE DEF last
  <2>8. (CHOOSE i \in OfName(text, name) : \A j \in OfName(text, name) : j <= i) = s
    BY <1>1, <2>3 DEF last
  <2>9. OfName(text, name) # {}
    BY <1>1
  <2> QED BY <2>5, <2>7, <2>8, <2>9 DEF FoundIn
<1> QED BY <1>2, <1>3, <1>4 DEF got

-----------------------------------------------------------------------------
(* A string in a buffer: its characters, and the NUL behind them.          *)

Holds(buffer, p, text) ==
  /\ p \in Nat \ {0} /\ p + Len(text) <= Len(buffer)
  /\ \A i \in 1 .. Len(text) : buffer[p + i - 1] = text[i] /\ text[i] # Nul
  /\ buffer[p + Len(text)] = Nul

LEMMA StringIs ==
  ASSUME NEW buffer \in Seq(Chars), NEW text \in Seq(Chars), NEW p, Holds(buffer, p, text)
  PROVE  StringAt(buffer, p) = text
<1> DEFINE n == Len(text)
           I == {i \in p .. Len(buffer) : buffer[i] = Nul}
           end == p + n
<1>1. /\ p \in Nat \ {0} /\ n \in Nat /\ Len(buffer) \in Nat /\ end <= Len(buffer)
      /\ \A i \in 1 .. n : buffer[p + i - 1] = text[i] /\ text[i] # Nul
      /\ buffer[end] = Nul
  BY DEF Holds
<1>2. I \in SUBSET (Nat \ {0}) /\ end \in I
  BY <1>1
<1>3. FirstOf(I) = end
  <2>1. FirstOf(I) \in I /\ FirstOf(I) <= end
    BY <1>2, FirstIs
  <2>2. ~ (FirstOf(I) < end)
    <3>1. SUFFICES ASSUME FirstOf(I) < end PROVE FALSE
      OBVIOUS
    <3> DEFINE j == FirstOf(I) - p + 1
    <3>2. FirstOf(I) \in Nat /\ FirstOf(I) >= p /\ buffer[FirstOf(I)] = Nul
      BY <1>1, <2>1
    <3>3. j \in 1 .. n /\ p + j - 1 = FirstOf(I)
      BY <1>1, <3>1, <3>2
    <3> QED BY <1>1, <3>2, <3>3
  <2>3. FirstOf(I) \in Nat
    BY <1>2, <2>1
  <2> QED BY <1>1, <2>1, <2>2, <2>3
<1>4. StringAt(buffer, p) = SubSeq(buffer, p, end - 1)
  BY <1>3, Zenon DEF StringAt, SelectInSubSeq, FirstOf
<1> HIDE DEF end
<1>5. p \in 1 .. Len(buffer) + 1 /\ end - 1 \in p - 1 .. Len(buffer) /\ end - 1 - p + 1 = n
  BY <1>1 DEF end
<1>6. /\ SubSeq(buffer, p, end - 1) \in Seq(Chars) /\ Len(SubSeq(buffer, p, end - 1)) = n
      /\ \A i \in 1 .. n : SubSeq(buffer, p, end - 1)[i] = buffer[p + i - 1]
  BY <1>5, SubSeqIs
<1> DEFINE u == SubSeq(buffer, p, end - 1)
<1>7. u \in Seq(Chars) /\ Len(u) = n /\ \A i \in 1 .. n : u[i] = text[i]
  BY <1>1, <1>6
<1> HIDE DEF u
<1>8. u = text
  BY <1>7, SeqEqual
<1> QED BY <1>4, <1>8 DEF u

(* The same without the NUL. *)
LEMMA PartIs ==
  ASSUME NEW buffer \in Seq(Chars), NEW text \in Seq(Chars), NEW p, Holds(buffer, p, text)
  PROVE  SubSeq(buffer, p, p + Len(text) - 1) = text
<1> DEFINE n == Len(text)
           u == SubSeq(buffer, p, p + n - 1)
<1>1. /\ p \in Nat \ {0} /\ n \in Nat /\ Len(buffer) \in Nat /\ p + n <= Len(buffer)
      /\ \A i \in 1 .. n : buffer[p + i - 1] = text[i]
  BY DEF Holds
<1>2. p \in 1 .. Len(buffer) + 1 /\ p + n - 1 \in p - 1 .. Len(buffer) /\ p + n - 1 - p + 1 = n
  BY <1>1
<1>3. u \in Seq(Chars) /\ Len(u) = n /\ \A i \in 1 .. n : u[i] = buffer[p + i - 1]
  <2> DEFINE e == p + n - 1
  <2>1. e \in p - 1 .. Len(buffer) /\ e - p + 1 = n
    BY <1>2
  <2> HIDE DEF e
  <2>2. /\ SubSeq(buffer, p, e) \in Seq(Chars) /\ Len(SubSeq(buffer, p, e)) = e - p + 1
        /\ \A i \in 1 .. e - p + 1 : SubSeq(buffer, p, e)[i] = buffer[p + i - 1]
    BY <1>2, <2>1, SubSeqIs
  <2> QED BY <2>1, <2>2 DEF e
<1>4. \A i \in 1 .. n : u[i] = text[i]
  BY <1>1, <1>3
<1> HIDE DEF u
<1>5. u = text
  BY <1>3, <1>4, SeqEqual
<1> QED BY <1>5 DEF u

LEMMA ConcatIs ==
  ASSUME NEW s \in Seq(Chars), NEW t \in Seq(Chars)
  PROVE  /\ s \o t \in Seq(Chars) /\ Len(s \o t) = Len(s) + Len(t)
         /\ Len(s) \in Nat /\ Len(t) \in Nat
         /\ \A i \in 1 .. Len(s) : (s \o t)[i] = s[i]
         /\ \A i \in 1 .. Len(t) : (s \o t)[Len(s) + i] = t[i]
<1>1. Len(s) \in Nat /\ Len(t) \in Nat
  OBVIOUS
<1>2. /\ s \o t \in Seq(Chars) /\ Len(s \o t) = Len(s) + Len(t)
      /\ \A i \in 1 .. Len(s) + Len(t) : (s \o t)[i] = IF i <= Len(s) THEN s[i] ELSE t[i - Len(s)]
  BY ConcatProperties
<1>3. ASSUME NEW i \in 1 .. Len(s) PROVE (s \o t)[i] = s[i]
  <2>1. i \in 1 .. Len(s) + Len(t) /\ i <= Len(s)
    BY <1>1
  <2> QED BY <1>2, <2>1
<1>4. ASSUME NEW i \in 1 .. Len(t) PROVE (s \o t)[Len(s) + i] = t[i]
  <2>1. Len(s) + i \in 1 .. Len(s) + Len(t) /\ ~ (Len(s) + i <= Len(s)) /\ Len(s) + i - Len(s) = i
    BY <1>1
  <2> QED BY <1>2, <2>1
<1> QED BY <1>1, <1>2, <1>3, <1>4

(* What is put behind a string leaves it alone. *)
LEMMA HoldsOn ==
  ASSUME NEW buffer \in Seq(Chars), NEW more \in Seq(Chars), NEW text \in Seq(Chars), NEW p,
         Holds(buffer, p, text)
  PROVE  Holds(buffer \o more, p, text)
<1> DEFINE n == Len(text)
           new == buffer \o more
<1>1. /\ Len(new) = Len(buffer) + Len(more) /\ Len(buffer) \in Nat /\ Len(more) \in Nat
      /\ \A i \in 1 .. Len(buffer) : new[i] = buffer[i]
  BY ConcatIs
<1>2. /\ p \in Nat \ {0} /\ n \in Nat /\ p + n <= Len(buffer)
      /\ \A i \in 1 .. n : buffer[p + i - 1] = text[i] /\ text[i] # Nul
      /\ buffer[p + n] = Nul
  BY DEF Holds
<1> HIDE DEF new
<1>3. p + n <= Len(new) /\ p + n \in 1 .. Len(buffer)
  BY <1>1, <1>2
<1>4. \A i \in 1 .. n : p + i - 1 \in 1 .. Len(buffer)
  BY <1>1, <1>2
<1>5. new[p + n] = Nul /\ \A i \in 1 .. n : new[p + i - 1] = text[i] /\ text[i] # Nul
  BY <1>1, <1>2, <1>3, <1>4
<1> QED BY <1>2, <1>3, <1>5 DEF Holds, new

LEMMA OneNul == <<Nul>> \in Seq(Chars) /\ Len(<<Nul>>) = 1 /\ <<Nul>>[1] = Nul
BY DEF Nul, Chars

(* What is put there is held there. *)
LEMMA PutIs ==
  ASSUME NEW buffer \in Seq(Chars), NEW value \in Seq(1 .. 127)
  PROVE  /\ value \o <<Nul>> \in Seq(Chars)
         /\ http_server_put_in_conn_buffer(buffer, value) = buffer \o (value \o <<Nul>>)
         /\ http_server_put_in_conn_buffer(buffer, value) \in Seq(Chars)
         /\ Holds(http_server_put_in_conn_buffer(buffer, value), Len(buffer) + 1, value)
<1> DEFINE n == Len(value)
           s == value \o <<Nul>>
           new == buffer \o s
           p == Len(buffer) + 1
<1>1. value \in Seq(Chars) /\ \A i \in 1 .. n : value[i] # Nul
  <2>1. \A i \in 1 .. n : value[i] \in 1 .. 127
    BY ElementOfSeq
  <2>2. value \in Seq(Chars)
    BY TextIsChars
  <2>3. ASSUME NEW i \in 1 .. n PROVE value[i] # Nul
    <3>1. value[i] \in 1 .. 127
      BY <2>1
    <3>2. ~ (0 \in 1 .. 127)
      OBVIOUS
    <3> QED BY <3>1, <3>2, Zenon DEF Nul
  <2> QED BY <2>2, <2>3
<1>2. /\ s \in Seq(Chars) /\ Len(s) = n + 1 /\ n \in Nat
      /\ \A i \in 1 .. n : s[i] = value[i]
      /\ s[n + 1] = Nul
  <2>1. 1 \in 1 .. Len(<<Nul>>)
    OBVIOUS
  <2> QED BY <1>1, <2>1, OneNul, ConcatIs
<1>3. http_server_put_in_conn_buffer(buffer, value) = new
  BY <1>1, OneNul, ConcatAssociative DEF http_server_put_in_conn_buffer
<1> HIDE DEF s
<1>4. /\ new \in Seq(Chars) /\ Len(new) = Len(buffer) + Len(s) /\ Len(buffer) \in Nat
      /\ \A i \in 1 .. Len(s) : new[Len(buffer) + i] = s[i]
  BY <1>2, ConcatIs
<1> HIDE DEF new
<1>5. p \in Nat \ {0} /\ p + n <= Len(new) /\ n + 1 \in 1 .. Len(s) /\ Len(buffer) + (n + 1) = p + n
  BY <1>2, <1>4
<1>6. new[p + n] = Nul
  BY <1>2, <1>4, <1>5
<1>7. ASSUME NEW i \in 1 .. n PROVE new[p + i - 1] = value[i]
  <2>1. i \in 1 .. Len(s) /\ Len(buffer) + i = p + i - 1
    BY <1>2, <1>4
  <2> QED BY <1>2, <1>4, <2>1
<1>8. Holds(new, p, value)
  BY <1>1, <1>5, <1>6, <1>7 DEF Holds
<1> QED BY <1>2, <1>3, <1>4, <1>8 DEF s, new

-----------------------------------------------------------------------------
(* The url of a request                                                    *)

(* The first place of a character in a part of a text. *)
FirstFrom(text, from, char) == SelectInSubSeq(text, from, Len(text), LAMBDA c : c = char)

LEMMA FirstFromIs ==
  ASSUME NEW text \in Seq(1 .. 127), NEW from \in Nat \ {0}, NEW char
  PROVE  /\ FirstFrom(text, from, char) \in {0} \cup from .. Len(text)
         /\ FirstFrom(text, from, char) # 0 => text[FirstFrom(text, from, char)] = char
         /\ \A i \in from .. Len(text) :
              text[i] = char => FirstFrom(text, from, char) # 0 /\ FirstFrom(text, from, char) <= i
<1> DEFINE I == {i \in from .. Len(text) : text[i] = char}
<1>1. Len(text) \in Nat /\ I \in SUBSET (Nat \ {0})
  OBVIOUS
<1>2. FirstFrom(text, from, char) = FirstOf(I)
  BY DEF FirstFrom, SelectInSubSeq, FirstOf
<1>3. /\ FirstOf(I) # 0 => FirstOf(I) \in I
      /\ \A i \in I : FirstOf(I) # 0 /\ FirstOf(I) <= i
  BY <1>1, FirstIs
<1> QED BY <1>1, <1>2, <1>3

(* The two slashes of a full url are behind the colon. *)
LEMMA FullUrlIs ==
  ASSUME NEW url \in Seq(1 .. 127)
  PROVE  FullUrl(url) =>
           /\ Len(url) >= 7 /\ IsPrefix(Http, url) /\ url[1] # Slash
           /\ FirstFrom(url, 2, Slash) = 6 /\ FirstFrom(url, 7, Slash) = 7
<1> DEFINE head == <<104, 116, 116, 112, 58, 47, 47>>
<1>1. SUFFICES ASSUME FullUrl(url)
               PROVE  /\ Len(url) >= 7 /\ IsPrefix(Http, url) /\ url[1] # Slash
                      /\ FirstFrom(url, 2, Slash) = 6 /\ FirstFrom(url, 7, Slash) = 7
  OBVIOUS
<1>2. Http \o <<Colon, Slash, Slash>> = head
  <2> DEFINE tail == <<58, 47, 47>>
             start == <<104, 116, 116, 112>>
  <2>1. start \in Seq(Nat) /\ tail \in Seq(Nat) /\ head \in Seq(Nat) /\ Len(start) = 4 /\ Len(tail) = 3 /\ Len(head) = 7
    OBVIOUS
  <2>2. /\ start \o tail \in Seq(Nat) /\ Len(start \o tail) = Len(start) + Len(tail)
        /\ \A i \in 1 .. Len(start) + Len(tail) :
             (start \o tail)[i] = IF i <= Len(start) THEN start[i] ELSE tail[i - Len(start)]
    BY <2>1, ConcatProperties
  <2>3. \A i \in 1 .. 7 : (start \o tail)[i] = IF i <= 4 THEN start[i] ELSE tail[i - 4]
    BY <2>1, <2>2
  <2>4. \A i \in 1 .. 7 : head[i] = IF i <= 4 THEN start[i] ELSE tail[i - 4]
    OBVIOUS
  <2>5. Len(start \o tail) = 7
    BY <2>1, <2>2
  <2> HIDE DEF start, tail, head
  <2>6. start \o tail = head
    <3> DEFINE u == start \o tail
    <3>1. u \in Seq(Nat) /\ Len(u) = Len(head) /\ \A i \in 1 .. Len(u) : u[i] = head[i]
      BY <2>1, <2>2, <2>3, <2>4, <2>5
    <3> HIDE DEF u
    <3>2. u = head
      BY <2>1, <3>1, SeqEqual
    <3> QED BY <3>2 DEF u
  <2> QED BY <2>6 DEF Http, Colon, Slash, start, tail
<1>3. head \in Seq(1 .. 127) /\ Len(head) = 7 /\ Http \in Seq(1 .. 127) /\ Len(Http) = 4
  BY DEF Http
<1>4. IsPrefix(head, url)
  BY <1>1, <1>2 DEF FullUrl
<1>5. Len(url) >= 7 /\ \A i \in 1 .. 7 : url[i] = head[i]
  BY ZenonT(30), <1>3, <1>4, PrefixIs
<1>6. /\ url[1] = 104 /\ url[2] = 116 /\ url[3] = 116 /\ url[4] = 112
      /\ url[5] = 58 /\ url[6] = 47 /\ url[7] = 47
  BY <1>5
<1>7. \A i \in 1 .. 4 : url[i] = Http[i]
  <2>1. \A i \in 1 .. 4 : i \in 1 .. 7 /\ head[i] = Http[i]
    BY DEF Http
  <2> QED BY <1>5, <2>1
<1>8. IsPrefix(Http, url)
  <2>1. Len(url) \in Nat
    OBVIOUS
  <2>2. Len(Http) <= Len(url)
    BY <1>3, <1>5, <2>1
  <2> QED BY <1>3, <1>7, <2>2, PrefixIs
<1>9. FirstFrom(url, 2, Slash) = 6
  <2> DEFINE f == FirstFrom(url, 2, Slash)
  <2>1. f \in {0} \cup 2 .. Len(url) /\ (f # 0 => url[f] = Slash)
    BY FirstFromIs
  <2>2. Len(url) \in Nat /\ 6 \in 2 .. Len(url)
    BY <1>5
  <2>3. url[6] = Slash
    BY <1>6 DEF Slash
  <2>4. f # 0 /\ f <= 6
    BY <2>2, <2>3, FirstFromIs
  <2>5. f # 2 /\ f # 3 /\ f # 4 /\ f # 5
    BY <1>6, <2>1 DEF Slash
  <2> HIDE DEF f
  <2>6. f = 6
    BY <2>1, <2>2, <2>4, <2>5
  <2> QED BY <2>6 DEF f
<1>10. FirstFrom(url, 7, Slash) = 7
  <2> DEFINE f == FirstFrom(url, 7, Slash)
  <2>1. f \in {0} \cup 7 .. Len(url)
    BY FirstFromIs
  <2>2. Len(url) \in Nat /\ 7 \in 7 .. Len(url)
    BY <1>5
  <2>3. url[7] = Slash
    BY <1>6 DEF Slash
  <2>4. f # 0 /\ f <= 7
    BY <2>2, <2>3, FirstFromIs
  <2> HIDE DEF f
  <2>5. f = 7
    BY <2>1, <2>2, <2>4
  <2> QED BY <2>5 DEF f
<1> QED BY <1>5, <1>6, <1>8, <1>9, <1>10 DEF Slash

LEMMA ThirdSlashIs ==
  ASSUME NEW url \in Seq(1 .. 127)
  PROVE  /\ ThirdSlash(url) \in 0 .. Len(url)
         /\ FullUrl(url) => ThirdSlash(url) = FirstFrom(url, 8, Slash)
<1> DEFINE B(i) == IF i = 0 THEN 0 ELSE FirstFrom(url, i + 1, Slash)
<1>1. ThirdSlash(url) = B(B(B(1)))
  BY Zenon DEF ThirdSlash, FirstFrom
<1>2. ASSUME NEW i \in Nat PROVE B(i) \in 0 .. Len(url)
  <2>1. i + 1 \in Nat \ {0} /\ Len(url) \in Nat
    OBVIOUS
  <2>2. FirstFrom(url, i + 1, Slash) \in {0} \cup i + 1 .. Len(url)
    BY <2>1, FirstFromIs
  <2> QED BY <2>1, <2>2
<1>3. ASSUME FullUrl(url) PROVE B(B(B(1))) = FirstFrom(url, 8, Slash)
  <2>1. FirstFrom(url, 2, Slash) = 6 /\ FirstFrom(url, 7, Slash) = 7
    BY <1>3, FullUrlIs
  <2>2. B(1) = FirstFrom(url, 2, Slash) /\ B(6) = FirstFrom(url, 7, Slash) /\ B(7) = FirstFrom(url, 8, Slash)
    OBVIOUS
  <2> HIDE DEF B
  <2> QED BY <2>1, <2>2
<1> HIDE DEF B
<1>4. B(B(B(1))) \in 0 .. Len(url)
  <2>1. B(1) \in Nat
    BY <1>2
  <2>2. B(B(1)) \in Nat
    BY <1>2, <2>1
  <2> QED BY <1>2, <2>2
<1> QED BY <1>1, <1>3, <1>4

(* Where the path of a url begins. *)
LEMMA PathStartIs ==
  ASSUME NEW url \in Seq(1 .. 127)
  PROVE  /\ PathStart(url) \in 0 .. Len(url)
         /\ PathStart(url) = 0 => ~ HasPath(url)
         /\ PathStart(url) # 0 /\ HasPath(url) => SubSeq(url, PathStart(url), Len(url)) = LocalUrl(url)
<1>1. Len(url) \in Nat
  OBVIOUS
<1>2. PathStart(url) \in 0 .. Len(url)
  <2>1. url # <<>> => 1 \in 0 .. Len(url)
    BY <1>1
  <2> QED BY <1>1, <2>1, ThirdSlashIs DEF PathStart
<1>3. CASE url # <<>> /\ url[1] = Slash
  <2>1. PathStart(url) = 1 /\ ~ FullUrl(url)
    BY <1>3, FullUrlIs DEF PathStart
  <2>2. LocalUrl(url) = url
    BY <2>1 DEF LocalUrl
  <2>3. SubSeq(url, 1, Len(url)) = url
    BY SubSeqFull
  <2> QED BY <1>2, <2>1, <2>2, <2>3
<1>4. CASE ~ (url # <<>> /\ url[1] = Slash) /\ ~ FullUrl(url)
  <2>1. LocalUrl(url) = url
    BY <1>4 DEF LocalUrl
  <2>2. ~ HasPath(url)
    BY <1>4, <2>1 DEF HasPath
  <2> QED BY <1>2, <2>2
<1>5. CASE ~ (url # <<>> /\ url[1] = Slash) /\ FullUrl(url)
  <2> DEFINE rest == SubSeq(url, 8, Len(url))
             k == strchr(rest, Slash)
             f == FirstFrom(url, 8, Slash)
  <2>1. Len(url) >= 7 /\ IsPrefix(Http, url)
    BY <1>5, FullUrlIs
  <2>2. PathStart(url) = f
    BY <1>5, <2>1, ThirdSlashIs DEF PathStart
  <2>3. rest \in Seq(1 .. 127) /\ Len(rest) = Len(url) - 7 /\ \A i \in 1 .. Len(url) - 7 : rest[i] = url[i + 7]
    <3> DEFINE a == 8
               b == Len(url)
    <3>1. a \in 1 .. Len(url) + 1 /\ b \in a - 1 .. Len(url) /\ b - a + 1 = Len(url) - 7
          /\ \A i \in 1 .. Len(url) - 7 : a + i - 1 = i + 7
      BY <1>1, <2>1
    <3> HIDE DEF a, b
    <3>2. /\ SubSeq(url, a, b) \in Seq(1 .. 127) /\ Len(SubSeq(url, a, b)) = b - a + 1
          /\ \A i \in 1 .. b - a + 1 : SubSeq(url, a, b)[i] = url[a + i - 1]
      BY <3>1, SubSeqIs
    <3> QED BY <3>1, <3>2 DEF a, b
  <2> HIDE DEF rest
  <2>4. /\ k \in 0 .. Len(rest) /\ (k # 0 => rest[k] = Slash)
        /\ \A i \in 1 .. Len(rest) : rest[i] = Slash => k # 0 /\ k <= i
    BY <2>3, StrchrIs
  <2>5. /\ f \in {0} \cup 8 .. Len(url) /\ (f # 0 => url[f] = Slash)
        /\ \A i \in 8 .. Len(url) : url[i] = Slash => f # 0 /\ f <= i
    <3>1. 8 \in Nat \ {0}
      OBVIOUS
    <3> QED BY <3>1, FirstFromIs
  <2> HIDE DEF k, f
  <2>6. f = IF k = 0 THEN 0 ELSE k + 7
    <3>1. ASSUME k # 0 PROVE f # 0 /\ f <= k + 7
      <4>1. k \in 1 .. Len(url) - 7 /\ k + 7 \in 8 .. Len(url)
        BY <1>1, <2>3, <2>4, <3>1
      <4>2. url[k + 7] = Slash
        BY <2>3, <2>4, <3>1, <4>1
      <4> QED BY <2>5, <4>1, <4>2
    <3>2. ASSUME f # 0 PROVE k # 0 /\ k <= f - 7
      <4>1. f \in 8 .. Len(url) /\ f - 7 \in 1 .. Len(url) - 7 /\ f - 7 + 7 = f
        BY <1>1, <2>5, <3>2
      <4>2. rest[f - 7] = Slash
        BY <2>3, <2>5, <3>2, <4>1
      <4> QED BY <2>3, <2>4, <4>1, <4>2
    <3>3. k \in Nat /\ f \in Nat
      BY <1>1, <2>3, <2>4, <2>5
    <3> QED BY <3>1, <3>2, <3>3
  <2>7. LocalUrl(url) = IF k = 0 \/ strchr(rest, Question) \in 1 .. k THEN <<>>
                        ELSE SubSeq(url, k + 7, Len(url))
    BY <1>5 DEF LocalUrl, rest, k
  <2>8. HasPath(url) => k # 0 /\ LocalUrl(url) = SubSeq(url, k + 7, Len(url))
    BY <2>7 DEF HasPath
  <2>9. HasPath(url) => PathStart(url) = k + 7
    BY <2>2, <2>6, <2>8
  <2>10. PathStart(url) = 0 => ~ HasPath(url)
    <3>1. k \in Nat
      BY <1>1, <2>3, <2>4
    <3> QED BY <2>9, <3>1
  <2>11. HasPath(url) => SubSeq(url, PathStart(url), Len(url)) = LocalUrl(url)
    BY <2>8, <2>9
  <2> QED BY <1>2, <2>10, <2>11
<1> QED BY <1>3, <1>4, <1>5

(* The query is cut off, and what is before it is decoded where it lies.   *)
Decodes(local) == UpTo(Meaning(Path(local), FALSE), Nul)
Mark(local) == strchr(local, Question)

LEMMA TextIs ==
  ASSUME NEW s \in Seq(1 .. 127)
  PROVE  s \in Seq(Chars) /\ Len(s) \in Nat /\ \A i \in 1 .. Len(s) : s[i] # Nul
<1>1. s \in Seq(Chars)
  BY TextIsChars
<1>2. ASSUME NEW i \in 1 .. Len(s) PROVE s[i] # Nul
  <2>1. s[i] \in 1 .. 127
    BY ElementOfSeq
  <2>2. ~ (0 \in 1 .. 127)
    OBVIOUS
  <2> QED BY <2>1, <2>2, Zenon DEF Nul
<1> QED BY <1>1, <1>2

LEMMA QueryIs ==
  ASSUME NEW local \in Seq(1 .. 127)
  PROVE  /\ Query(local) \in Seq(1 .. 127)
         /\ Len(local) \in Nat /\ Mark(local) \in 0 .. Len(local)
         /\ Len(Path(local)) = IF Mark(local) = 0 THEN Len(local) ELSE Mark(local) - 1
         /\ Path(local) \in Seq(1 .. 127)
         /\ \A i \in 1 .. Len(Path(local)) : Path(local)[i] = local[i]
         /\ Mark(local) # 0 => /\ Len(Query(local)) = Len(local) - Mark(local)
                               /\ \A i \in 1 .. Len(local) - Mark(local) : Query(local)[i] = local[Mark(local) + i]
<1> DEFINE mark == Mark(local)
<1>1. Len(local) \in Nat /\ mark \in 0 .. Len(local)
  BY StrchrIs DEF Mark
<1>2. /\ Path(local) \in Seq(1 .. 127)
      /\ Len(Path(local)) = IF mark = 0 THEN Len(local) ELSE mark - 1
      /\ \A i \in 1 .. Len(Path(local)) : Path(local)[i] = local[i]
  BY UpToText DEF Path, Mark
<1>3. CASE mark = 0
  <2>1. Query(local) = <<>>
    BY <1>3 DEF Query, Mark
  <2> QED BY <1>1, <1>2, <1>3, <2>1
<1>4. CASE mark # 0
  <2> DEFINE a == mark + 1
             b == Len(local)
  <2>1. a \in 1 .. Len(local) + 1 /\ b \in a - 1 .. Len(local) /\ b - a + 1 = Len(local) - mark
        /\ \A i \in 1 .. Len(local) - mark : a + i - 1 = mark + i
    BY <1>1, <1>4
  <2>2. Query(local) = SubSeq(local, a, b)
    BY <1>4 DEF Query, Mark
  <2> HIDE DEF a, b
  <2>3. /\ SubSeq(local, a, b) \in Seq(1 .. 127) /\ Len(SubSeq(local, a, b)) = b - a + 1
        /\ \A i \in 1 .. b - a + 1 : SubSeq(local, a, b)[i] = local[a + i - 1]
    BY <2>1, SubSeqIs
  <2> QED BY <1>1, <1>2, <2>1, <2>2, <2>3
<1> QED BY <1>3, <1>4

LEMMA CutIs ==
  ASSUME NEW local \in Seq(1 .. 127), NEW buffer \in Seq(Chars),
         Len(buffer) = Len(local) + 1, Holds(buffer, 1, local)
  PROVE  LET cut == Cut(buffer, 1)
         IN  /\ cut.buffer \in Seq(Chars) /\ Len(cut.buffer) = Len(local) + 1
             /\ Holds(cut.buffer, 1, Path(local))
             /\ cut.queryString = IF Mark(local) = 0 THEN 0 ELSE 1 + Mark(local)
             /\ cut.queryStringSize = IF Mark(local) = 0 THEN 0 ELSE Len(local) - Mark(local)
             /\ Mark(local) # 0 => Holds(cut.buffer, 1 + Mark(local), Query(local))
             /\ cut = [buffer |-> cut.buffer, queryString |-> cut.queryString,
                       queryStringSize |-> cut.queryStringSize]
<1> DEFINE n == Len(local)
           mark == Mark(local)
           b == IF mark = 0 THEN buffer ELSE [buffer EXCEPT ![mark] = Nul]
<1>1. n \in Nat /\ Len(buffer) = n + 1 /\ local \in Seq(Chars) /\ \A i \in 1 .. n : local[i] # Nul
  BY TextIs
<1>2. StringAt(buffer, 1) = local
  BY <1>1, StringIs
<1>3. /\ mark \in 0 .. n
      /\ Len(Path(local)) = IF mark = 0 THEN n ELSE mark - 1
      /\ \A i \in 1 .. Len(Path(local)) : Path(local)[i] = local[i]
      /\ mark # 0 => /\ Len(Query(local)) = n - mark
                     /\ \A i \in 1 .. n - mark : Query(local)[i] = local[mark + i]
  BY QueryIs
<1>4. buffer[n + 1] = Nul /\ \A i \in 1 .. n : buffer[i] = local[i]
  <2>1. 1 + n = n + 1 /\ \A i \in 1 .. n : 1 + i - 1 = i
    BY <1>1
  <2> QED BY <2>1 DEF Holds
<1>5. Cut(buffer, 1) = [buffer |-> b, queryString |-> IF mark = 0 THEN 0 ELSE 1 + mark,
                        queryStringSize |-> IF mark = 0 THEN 0 ELSE n - mark]
  <2>1. 1 + mark - 1 = mark
    BY <1>1, <1>3
  <2> QED BY <1>2, <2>1, Zenon DEF Cut, Mark
<1>6. /\ b \in Seq(Chars) /\ Len(b) = n + 1 /\ b[n + 1] = Nul
      /\ \A i \in 1 .. n : b[i] = IF i = mark THEN Nul ELSE local[i]
  <2>1. CASE mark = 0
    BY <1>1, <1>4, <2>1
  <2>2. CASE mark # 0
    <3> DEFINE new == [buffer EXCEPT ![mark] = Nul]
    <3>1. mark \in 1 .. Len(buffer) /\ Nul \in Chars /\ n + 1 \in 1 .. Len(buffer) /\ n + 1 # mark
      BY <1>1, <1>3, <2>2 DEF Nul, Chars
    <3>2. /\ new \in Seq(Chars) /\ Len(new) = Len(buffer)
          /\ \A j \in 1 .. Len(buffer) : new[j] = IF j = mark THEN Nul ELSE buffer[j]
      BY <3>1, ExceptSeq
    <3>3. b = new
      BY <2>2
    <3> HIDE DEF new, b, mark
    <3>4. \A i \in 1 .. n : i \in 1 .. Len(buffer)
      BY <1>1
    <3> QED BY <1>1, <1>4, <3>1, <3>2, <3>3, <3>4
  <2> QED BY <2>1, <2>2
<1> HIDE DEF b
<1>7. Holds(b, 1, Path(local))
  <2> DEFINE m == Len(Path(local))
  <2>1. m \in 0 .. n /\ 1 + m <= Len(b) /\ (1 + m = n + 1 \/ (1 + m = mark /\ mark \in 1 .. n))
    BY <1>1, <1>3, <1>6
  <2>2. b[1 + m] = Nul
    BY <1>6, <2>1
  <2>3. ASSUME NEW i \in 1 .. m PROVE b[1 + i - 1] = Path(local)[i] /\ Path(local)[i] # Nul
    <3>1. 1 + i - 1 = i /\ i \in 1 .. n /\ i # mark
      BY <1>1, <1>3
    <3> QED BY <1>1, <1>3, <1>6, <3>1
  <2> QED BY <2>1, <2>2, <2>3 DEF Holds
<1>8. ASSUME mark # 0 PROVE Holds(b, 1 + mark, Query(local))
  <2>1. 1 + mark \in Nat \ {0} /\ 1 + mark + (n - mark) = n + 1
    BY <1>1, <1>3
  <2>2. ASSUME NEW i \in 1 .. n - mark PROVE b[1 + mark + i - 1] = Query(local)[i] /\ Query(local)[i] # Nul
    <3>1. 1 + mark + i - 1 = mark + i /\ mark + i \in 1 .. n /\ mark + i # mark
      BY <1>1, <1>3
    <3> QED BY <1>1, <1>3, <1>6, <1>8, <3>1
  <2>3. Len(Query(local)) = n - mark /\ 1 + mark + Len(Query(local)) = n + 1 /\ n + 1 <= Len(b)
    BY <1>1, <1>3, <1>6, <1>8, <2>1
  <2> QED BY <1>6, <2>1, <2>2, <2>3 DEF Holds
<1> DEFINE cut == Cut(buffer, 1)
<1>9. /\ cut.buffer = b /\ cut.queryString = IF mark = 0 THEN 0 ELSE 1 + mark
      /\ cut.queryStringSize = IF mark = 0 THEN 0 ELSE n - mark
      /\ cut = [buffer |-> cut.buffer, queryString |-> cut.queryString, queryStringSize |-> cut.queryStringSize]
  BY <1>5
<1> HIDE DEF cut
<1> QED BY <1>6, <1>7, <1>8, <1>9 DEF cut

LEMMA DecodedInPlaceIs ==
  ASSUME NEW path \in Seq(1 .. 127), NEW buffer \in Seq(Chars), Holds(buffer, 1, path)
  PROVE  LET new == DecodedInPlace(buffer, 1)
         IN  /\ new \in Seq(Chars) /\ Len(new) = Len(buffer)
             /\ Holds(new, 1, UpTo(Meaning(path, FALSE), Nul))
             /\ \A i \in Len(path) + 2 .. Len(buffer) : new[i] = buffer[i]
<1> DEFINE n == Len(path)
           full == Meaning(path, FALSE)
           text == UpTo(full, Nul)
           out == full \o <<Nul>>
           new == DecodedInPlace(buffer, 1)
<1>1. n \in Nat /\ path \in Seq(Chars)
  BY TextIs
<1>2. StringAt(buffer, 1) = path
  BY <1>1, StringIs
<1>3. full \in Seq(Chars) /\ Len(full) \in 0 .. n
  BY MeaningIs
<1>4. decode(path, n + 1, FALSE).text = full
  <2> HIDE DEF full
  <2>1. n + 1 \in Nat \ {0} /\ Len(full) < n + 1
    BY <1>1, <1>3
  <2>2. FALSE \in BOOLEAN
    OBVIOUS
  <2>3. decode(path, n + 1, FALSE).text = IF Len(full) < n + 1 THEN full ELSE SubSeq(full, 1, n + 1 - 1)
    BY <2>1, <2>2, DecodedTyped DEF full
  <2> QED BY <2>1, <2>3
<1> HIDE DEF full
<1>5. /\ out \in Seq(Chars) /\ Len(out) = Len(full) + 1 /\ Len(full) \in Nat
      /\ \A i \in 1 .. Len(full) : out[i] = full[i]
      /\ out[Len(full) + 1] = Nul
  <2>1. 1 \in 1 .. Len(<<Nul>>)
    OBVIOUS
  <2> QED BY <1>3, <2>1, OneNul, ConcatIs
<1>6. /\ text \in Seq(Chars) /\ Len(text) \in 0 .. Len(full)
      /\ Len(text) = IF strchr(full, Nul) = 0 THEN Len(full) ELSE strchr(full, Nul) - 1
      /\ \A i \in 1 .. Len(text) : text[i] = full[i] /\ full[i] # Nul
      /\ strchr(full, Nul) # 0 => full[Len(text) + 1] = Nul
      /\ strchr(full, Nul) \in 0 .. Len(full)
  BY <1>3, UpToIs, StrchrIs
<1> HIDE DEF text
<1>7. 1 + n <= Len(buffer) /\ Len(buffer) \in Nat
  BY DEF Holds
<1>8. new = [i \in DOMAIN buffer |-> IF i \in 1 .. 1 + Len(out) - 1 THEN out[i - 1 + 1] ELSE buffer[i]]
  BY <1>2, <1>4 DEF DecodedInPlace, full
<1> HIDE DEF out
<1>9. DOMAIN buffer = 1 .. Len(buffer) /\ \A i \in 1 .. Len(buffer) : buffer[i] \in Chars
  BY ElementOfSeq
<1>10. new = [i \in 1 .. Len(buffer) |-> IF i <= Len(out) THEN out[i] ELSE buffer[i]]
  <2>1. ASSUME NEW i \in 1 .. Len(buffer)
        PROVE  (IF i \in 1 .. 1 + Len(out) - 1 THEN out[i - 1 + 1] ELSE buffer[i])
                 = IF i <= Len(out) THEN out[i] ELSE buffer[i]
    <3>1. (i \in 1 .. 1 + Len(out) - 1 <=> i <= Len(out)) /\ i - 1 + 1 = i
      BY <1>5, <1>7
    <3> QED BY <3>1
  <2> HIDE DEF new
  <2> QED BY <1>8, <1>9, <2>1
<1>11. ASSUME NEW i \in 1 .. Len(buffer) PROVE (IF i <= Len(out) THEN out[i] ELSE buffer[i]) \in Chars
  <2>1. CASE i <= Len(out)
    <3>1. i \in 1 .. Len(out)
      BY <1>5, <1>7, <2>1
    <3>2. out[i] \in Chars
      BY <1>5, <3>1, ElementOfSeq
    <3> QED BY <2>1, <3>2
  <2> QED BY <1>9, <2>1
<1> HIDE DEF new
<1>12. /\ new \in Seq(Chars) /\ Len(new) = Len(buffer)
       /\ \A i \in 1 .. Len(buffer) : new[i] = IF i <= Len(out) THEN out[i] ELSE buffer[i]
  BY <1>7, <1>10, <1>11
<1>13. \A i \in n + 2 .. Len(buffer) : new[i] = buffer[i]
  <2>1. \A i \in n + 2 .. Len(buffer) : i \in 1 .. Len(buffer) /\ ~ (i <= Len(out))
    BY <1>1, <1>3, <1>5, <1>7
  <2> QED BY <1>12, <2>1
<1>14. Holds(new, 1, text)
  <2> DEFINE m == Len(text)
  <2>1. m \in Nat /\ m <= Len(full) /\ Len(full) <= n
    BY <1>3, <1>5, <1>6
  <2>2. 1 + m <= Len(new) /\ 1 + m \in 1 .. Len(buffer) /\ 1 + m <= Len(out) /\ 1 + m = m + 1
    BY <1>1, <1>5, <1>7, <1>12, <2>1
  <2>3. out[1 + m] = Nul
    <3>1. CASE strchr(full, Nul) = 0
      <4>1. 1 + m = Len(full) + 1
        BY <1>6, <2>1, <3>1
      <4> QED BY <1>5, <4>1
    <3>2. CASE strchr(full, Nul) # 0
      <4>1. 1 + m \in 1 .. Len(full) /\ full[1 + m] = Nul
        BY <1>5, <1>6, <2>1, <2>2, <3>2
      <4> QED BY <1>5, <4>1
    <3> QED BY <3>1, <3>2
  <2>4. new[1 + m] = Nul
    BY <1>12, <2>2, <2>3
  <2>5. ASSUME NEW i \in 1 .. m PROVE new[1 + i - 1] = text[i] /\ text[i] # Nul
    <3>1. 1 + i - 1 = i /\ i \in 1 .. Len(buffer) /\ i \in 1 .. Len(full) /\ i <= Len(out)
      BY <1>1, <1>5, <1>7, <2>1
    <3> QED BY <1>5, <1>6, <1>12, <3>1
  <2>6. 1 \in Nat \ {0}
    OBVIOUS
  <2> QED BY <2>2, <2>4, <2>5, <2>6 DEF Holds
<1> QED BY <1>12, <1>13, <1>14 DEF text, full, new

LEMMA ParsedIs ==
  ASSUME NEW local \in Seq(1 .. 127), NEW buffer \in Seq(Chars),
         Len(buffer) = Len(local) + 1, Holds(buffer, 1, local)
  PROVE  LET parsed == Parsed(buffer, 1)
         IN  /\ parsed.buffer \in Seq(Chars)
             /\ Holds(parsed.buffer, 1, Decodes(local))
             /\ parsed.queryString = IF Mark(local) = 0 THEN 0 ELSE 1 + Mark(local)
             /\ parsed.queryStringSize = IF Mark(local) = 0 THEN 0 ELSE Len(local) - Mark(local)
             /\ Mark(local) # 0 => Holds(parsed.buffer, 1 + Mark(local), Query(local))
<1> DEFINE cut == Cut(buffer, 1)
           mark == Mark(local)
           new == DecodedInPlace(cut.buffer, 1)
           parsed == Parsed(buffer, 1)
<1>1. /\ cut.buffer \in Seq(Chars) /\ Len(cut.buffer) = Len(local) + 1
      /\ Holds(cut.buffer, 1, Path(local))
      /\ cut.queryString = IF mark = 0 THEN 0 ELSE 1 + mark
      /\ cut.queryStringSize = IF mark = 0 THEN 0 ELSE Len(local) - mark
      /\ mark # 0 => Holds(cut.buffer, 1 + mark, Query(local))
      /\ cut = [buffer |-> cut.buffer, queryString |-> cut.queryString,
                queryStringSize |-> cut.queryStringSize]
  BY CutIs
<1> HIDE DEF cut
<1>2. parsed = [cut EXCEPT !.buffer = new]
  BY DEF Parsed, cut
<1>3. /\ Len(local) \in Nat /\ mark \in 0 .. Len(local)
      /\ Path(local) \in Seq(1 .. 127) /\ Len(Path(local)) = IF mark = 0 THEN Len(local) ELSE mark - 1
      /\ mark # 0 => Len(Query(local)) = Len(local) - mark
  BY QueryIs
<1>4. /\ new \in Seq(Chars) /\ Len(new) = Len(cut.buffer)
      /\ Holds(new, 1, Decodes(local))
      /\ \A i \in Len(Path(local)) + 2 .. Len(cut.buffer) : new[i] = cut.buffer[i]
  BY <1>1, <1>3, DecodedInPlaceIs DEF Decodes
<1> HIDE DEF new, parsed
<1>5. parsed = [buffer |-> new, queryString |-> cut.queryString, queryStringSize |-> cut.queryStringSize]
  <2>1. cut = [buffer |-> cut.buffer, queryString |-> cut.queryString, queryStringSize |-> cut.queryStringSize]
    BY <1>1
  <2> DEFINE a == cut.buffer
             b == cut.queryString
             c == cut.queryStringSize
  <2>2. cut = [buffer |-> a, queryString |-> b, queryStringSize |-> c]
    BY <2>1
  <2> HIDE DEF a, b, c
  <2>3. [cut EXCEPT !.buffer = new] = [buffer |-> new, queryString |-> b, queryStringSize |-> c]
    BY <2>2
  <2> QED BY <1>2, <2>3 DEF b, c
<1>6. parsed.buffer = new /\ parsed.queryString = cut.queryString /\ parsed.queryStringSize = cut.queryStringSize
  BY <1>5
<1>7. ASSUME mark # 0 PROVE Holds(new, 1 + mark, Query(local))
  <2> DEFINE q == Len(Query(local))
             p == 1 + mark
  <2>1. /\ p \in Nat \ {0} /\ p + q <= Len(cut.buffer)
        /\ \A i \in 1 .. q : cut.buffer[p + i - 1] = Query(local)[i] /\ Query(local)[i] # Nul
        /\ cut.buffer[p + q] = Nul
    BY <1>1, <1>7 DEF Holds
  <2>2. q = Len(local) - mark /\ Len(Path(local)) + 2 = p
    BY <1>3, <1>7
  <2>3. q \in Nat
    BY <1>3, <2>2
  <2> HIDE DEF p, q
  <2>4. p + q \in p .. Len(cut.buffer) /\ \A i \in 1 .. q : p + i - 1 \in p .. Len(cut.buffer)
    BY <1>1, <1>3, <2>1, <2>3
  <2>5. new[p + q] = Nul /\ \A i \in 1 .. q : new[p + i - 1] = Query(local)[i] /\ Query(local)[i] # Nul
    BY <1>4, <2>1, <2>2, <2>4
  <2>6. p + q <= Len(new)
    BY <1>4, <2>1
  <2> QED BY <2>1, <2>5, <2>6 DEF Holds, p, q
<1> QED BY <1>1, <1>4, <1>6, <1>7 DEF parsed

-----------------------------------------------------------------------------
(* The lines of the header                                                 *)

FirstHeader(hs, name) == SelectInSeq(hs, LAMBDA h : h.name = name)
FirstLine(lines, name) == SelectInSeq(lines, LAMBDA l : IsPrefix(Append(name, Colon), l))
ValueIn(line, name) ==
  LET rest == SubSeq(line, Len(name) + 2, Len(line))
  IN  IF rest # <<>> /\ rest[1] = Space THEN Tail(rest) ELSE rest

LEMMA FirstOfMore ==
  ASSUME NEW n \in Nat, NEW I \in SUBSET (1 .. n)
  PROVE  /\ FirstOf(I) \in 0 .. n
         /\ FirstOf(I) # 0 => FirstOf(I) \in I
         /\ FirstOf(I \cup {n + 1}) = IF FirstOf(I) = 0 THEN n + 1 ELSE FirstOf(I)
<1> DEFINE J == I \cup {n + 1}
<1>1. I \in SUBSET (Nat \ {0}) /\ J \in SUBSET (Nat \ {0}) /\ \A i \in I : i \in 1 .. n
  OBVIOUS
<1>2. /\ FirstOf(I) = 0 <=> I = {}
      /\ FirstOf(I) # 0 => FirstOf(I) \in I
      /\ \A i \in I : FirstOf(I) # 0 /\ FirstOf(I) <= i
  BY <1>1, FirstIs
<1>3. FirstOf(I) \in 0 .. n /\ (FirstOf(I) # 0 => FirstOf(I) <= n)
  <2> DEFINE f == FirstOf(I)
  <2>1. f = 0 \/ f \in 1 .. n
    BY <1>1, <1>2
  <2> HIDE DEF f
  <2>2. f \in 0 .. n /\ (f # 0 => f <= n)
    BY <2>1
  <2> QED BY <2>2 DEF f
<1>4. n + 1 \in J /\ \A i \in J : i \in I \/ i = n + 1
  OBVIOUS
<1>5. I \subseteq J
  OBVIOUS
<1> HIDE DEF J
<1>6. FirstOf(J) \in J /\ \A i \in J : FirstOf(J) <= i
  BY <1>1, <1>4, FirstIs
<1>7. CASE FirstOf(I) = 0
  <2>1. FirstOf(J) = n + 1
    BY <1>2, <1>4, <1>6, <1>7
  <2> QED BY <1>3, <1>7, <2>1 DEF J
<1>8. CASE FirstOf(I) # 0
  <2>1. FirstOf(I) \in I /\ FirstOf(J) <= FirstOf(I) /\ FirstOf(I) <= n
    <3>1. FirstOf(I) \in I
      BY <1>2, <1>8
    <3>2. FirstOf(J) <= FirstOf(I)
      BY <1>5, <1>6, <3>1
    <3> QED BY <1>3, <1>8, <3>1, <3>2
  <2>2. FirstOf(J) \in I
    <3>1. FirstOf(J) # n + 1
      BY <1>3, <2>1
    <3> QED BY <1>4, <1>6, <3>1
  <2>3. FirstOf(I) <= FirstOf(J) /\ FirstOf(J) \in 1 .. n
    BY <1>1, <1>2, <2>2
  <2>4. FirstOf(J) = FirstOf(I)
    BY <1>3, <2>1, <2>3
  <2> QED BY <1>3, <1>8, <2>1, <2>4 DEF J
<1> QED BY <1>7, <1>8

HeaderType == [name : Seq(1 .. 127), value : Nat]

LEMMA FirstHeaderIs ==
  ASSUME NEW hs \in Seq(HeaderType), NEW name, NEW h \in HeaderType
  PROVE  /\ FirstHeader(hs, name) \in 0 .. Len(hs) /\ Len(hs) \in Nat
         /\ FirstHeader(Append(hs, h), name) =
              IF FirstHeader(hs, name) # 0 THEN FirstHeader(hs, name)
              ELSE IF h.name = name THEN Len(hs) + 1 ELSE 0
<1> DEFINE n == Len(hs)
           new == Append(hs, h)
           I == {i \in 1 .. n : hs[i].name = name}
           J == {i \in 1 .. Len(new) : new[i].name = name}
<1>1. n \in Nat /\ Len(new) = n + 1 /\ new[n + 1] = h /\ \A i \in 1 .. n : new[i] = hs[i]
  BY AppendProperties
<1>2. FirstHeader(hs, name) = FirstOf(I)
  BY DEF FirstHeader, SelectInSeq, FirstOf
<1>3. FirstHeader(new, name) = FirstOf(J)
  BY DEF FirstHeader, SelectInSeq, FirstOf
<1>4. I \in SUBSET (1 .. n)
  OBVIOUS
<1> HIDE DEF new
<1>5. \A i \in 1 .. n + 1 : i \in 1 .. n \/ i = n + 1
  BY <1>1
<1>6. \A i \in 1 .. n : i \in 1 .. n + 1
  BY <1>1
<1>7. n + 1 \in 1 .. n + 1
  BY <1>1
<1>8. J = IF h.name = name THEN I \cup {n + 1} ELSE I
  <2> HIDE DEF n
  <2>1. ASSUME h.name = name, NEW i PROVE i \in J <=> i \in I \cup {n + 1}
    BY <1>1, <1>5, <1>6, <1>7, <2>1
  <2>2. ASSUME h.name # name, NEW i PROVE i \in J <=> i \in I
    BY <1>1, <1>5, <1>6, <2>2
  <2>3. h.name = name => J = I \cup {n + 1}
    BY <2>1
  <2>4. h.name # name => J = I
    BY <2>2
  <2> QED BY <2>3, <2>4
<1> HIDE DEF I, J
<1>9. FirstOf(I) \in 0 .. n /\ FirstOf(I \cup {n + 1}) = IF FirstOf(I) = 0 THEN n + 1 ELSE FirstOf(I)
  BY <1>1, <1>4, FirstOfMore
<1> QED BY <1>1, <1>2, <1>3, <1>8, <1>9 DEF new

LEMMA FirstLineIs ==
  ASSUME NEW lines \in Seq(Seq(1 .. 127)), NEW name, NEW line \in Seq(1 .. 127)
  PROVE  /\ FirstLine(lines, name) \in 0 .. Len(lines) /\ Len(lines) \in Nat
         /\ FirstLine(Append(lines, line), name) =
              IF FirstLine(lines, name) # 0 THEN FirstLine(lines, name)
              ELSE IF IsPrefix(Append(name, Colon), line) THEN Len(lines) + 1 ELSE 0
<1> DEFINE n == Len(lines)
           new == Append(lines, line)
           Fits(l) == IsPrefix(Append(name, Colon), l)
           I == {i \in 1 .. n : Fits(lines[i])}
           J == {i \in 1 .. Len(new) : Fits(new[i])}
<1>1. n \in Nat /\ Len(new) = n + 1 /\ new[n + 1] = line /\ \A i \in 1 .. n : new[i] = lines[i]
  BY AppendProperties
<1>2. FirstLine(lines, name) = FirstOf(I)
  BY DEF FirstLine, SelectInSeq, FirstOf
<1>3. FirstLine(new, name) = FirstOf(J)
  BY DEF FirstLine, SelectInSeq, FirstOf
<1>4. I \in SUBSET (1 .. n)
  OBVIOUS
<1> HIDE DEF new
<1>5. \A i \in 1 .. n + 1 : i \in 1 .. n \/ i = n + 1
  BY <1>1
<1>6. \A i \in 1 .. n : i \in 1 .. n + 1
  BY <1>1
<1>7. n + 1 \in 1 .. n + 1
  BY <1>1
<1>8. J = IF Fits(line) THEN I \cup {n + 1} ELSE I
  <2> HIDE DEF n, Fits
  <2>1. ASSUME Fits(line), NEW i PROVE i \in J <=> i \in I \cup {n + 1}
    BY <1>1, <1>5, <1>6, <1>7, <2>1
  <2>2. ASSUME ~ Fits(line), NEW i PROVE i \in J <=> i \in I
    BY <1>1, <1>5, <1>6, <2>2
  <2>3. Fits(line) => J = I \cup {n + 1}
    BY <2>1
  <2>4. ~ Fits(line) => J = I
    BY <2>2
  <2> QED BY <2>3, <2>4
<1> HIDE DEF I, J
<1>9. FirstOf(I) \in 0 .. n /\ FirstOf(I \cup {n + 1}) = IF FirstOf(I) = 0 THEN n + 1 ELSE FirstOf(I)
  BY <1>1, <1>4, FirstOfMore
<1> QED BY <1>1, <1>2, <1>3, <1>8, <1>9 DEF new

HeaderNames == Seq((1 .. 127) \ {Colon})

(* A line is named by what comes before its first colon. *)
LEMMA LineIs ==
  ASSUME NEW name \in HeaderNames, NEW line \in Seq(1 .. 127)
  PROVE  IsPrefix(Append(name, Colon), line) <=> strchr(line, Colon) # 0 /\ NameOf(line) = name
<1> DEFINE m == Len(name)
           key == Append(name, Colon)
           k == strchr(line, Colon)
<1>1. /\ m \in Nat /\ name \in Seq(1 .. 127) /\ Len(line) \in Nat
      /\ \A i \in 1 .. m : name[i] # Colon
  <2>1. (1 .. 127) \ {Colon} \subseteq 1 .. 127
    OBVIOUS
  <2>2. name \in Seq(1 .. 127)
    BY <2>1, SeqMonotonic DEF HeaderNames
  <2>3. ASSUME NEW i \in 1 .. m PROVE name[i] # Colon
    <3>1. name[i] \in (1 .. 127) \ {Colon}
      BY ElementOfSeq DEF HeaderNames
    <3> QED BY <3>1
  <2> QED BY <2>2, <2>3
<1>2. Colon \in 1 .. 127
  BY DEF Colon
<1>3. /\ key \in Seq(1 .. 127) /\ Len(key) = m + 1
      /\ \A i \in 1 .. m : key[i] = name[i]
      /\ key[m + 1] = Colon
  BY <1>1, <1>2, AppendProperties
<1> HIDE DEF key
<1>4. IsPrefix(key, line) <=> m + 1 <= Len(line) /\ \A i \in 1 .. m + 1 : line[i] = key[i]
  BY <1>3, PrefixIs
<1>5. /\ k \in 0 .. Len(line) /\ (k # 0 => line[k] = Colon)
      /\ \A i \in 1 .. Len(line) : line[i] = Colon => k # 0 /\ k <= i
  BY StrchrIs
<1>6. ASSUME k # 0
      PROVE  /\ NameOf(line) \in Seq(1 .. 127) /\ Len(NameOf(line)) = k - 1
             /\ \A i \in 1 .. k - 1 : NameOf(line)[i] = line[i]
  <2> DEFINE b == k - 1
  <2>1. 1 \in 1 .. Len(line) + 1 /\ b \in 1 - 1 .. Len(line) /\ b - 1 + 1 = b /\ \A i \in 1 .. b : 1 + i - 1 = i
    BY <1>1, <1>5, <1>6
  <2> HIDE DEF b
  <2>2. /\ SubSeq(line, 1, b) \in Seq(1 .. 127) /\ Len(SubSeq(line, 1, b)) = b - 1 + 1
        /\ \A i \in 1 .. b - 1 + 1 : SubSeq(line, 1, b)[i] = line[1 + i - 1]
    BY <2>1, SubSeqIs
  <2>3. NameOf(line) = SubSeq(line, 1, b)
    BY DEF NameOf, b
  <2>4. NameOf(line) \in Seq(1 .. 127) /\ Len(NameOf(line)) = b /\ \A i \in 1 .. b : NameOf(line)[i] = line[i]
    BY <2>1, <2>2, <2>3
  <2> QED BY <2>4 DEF b
<1> HIDE DEF k, m
<1>7. ASSUME m + 1 <= Len(line), \A i \in 1 .. m + 1 : line[i] = key[i] PROVE k # 0 /\ NameOf(line) = name
  <2>1. m + 1 \in 1 .. Len(line) /\ m + 1 \in 1 .. m + 1
    BY <1>1, <1>7
  <2>2. line[m + 1] = Colon
    BY <1>3, <1>7, <2>1
  <2>3. k # 0 /\ k <= m + 1
    BY <1>5, <2>1, <2>2
  <2>4. ~ (k <= m)
    <3>1. SUFFICES ASSUME k <= m PROVE FALSE
      OBVIOUS
    <3>2. k \in 1 .. m /\ k \in 1 .. m + 1
      BY <1>1, <1>5, <2>3, <3>1
    <3> QED BY <1>1, <1>3, <1>5, <1>7, <2>3, <3>2
  <2>5. k = m + 1 /\ k - 1 = m
    BY <1>1, <1>5, <2>3, <2>4
  <2>6. \A i \in 1 .. m : NameOf(line)[i] = name[i]
    <3>1. \A i \in 1 .. m : i \in 1 .. m + 1
      BY <1>1
    <3> QED BY <1>3, <1>6, <1>7, <2>3, <2>5, <3>1
  <2>7. NameOf(line) \in Seq(1 .. 127) /\ Len(NameOf(line)) = m
    BY <1>6, <2>3, <2>5
  <2>8. NameOf(line) = name
    BY <1>1, <2>6, <2>7, SeqEqual DEF m
  <2> QED BY <2>3, <2>8
<1>8. ASSUME k # 0, NameOf(line) = name PROVE m + 1 <= Len(line) /\ \A i \in 1 .. m + 1 : line[i] = key[i]
  <2>1. m = k - 1 /\ m + 1 = k /\ k <= Len(line) /\ line[m + 1] = Colon
    BY <1>1, <1>5, <1>6, <1>8 DEF m
  <2>2. \A i \in 1 .. m : line[i] = name[i]
    BY <1>6, <1>8, <2>1
  <2>3. \A i \in 1 .. m + 1 : i \in 1 .. m \/ i = m + 1
    BY <1>1
  <2> QED BY <1>3, <2>1, <2>2, <2>3
<1> QED BY <1>4, <1>7, <1>8 DEF k, key

LEMMA ValueInIs ==
  ASSUME NEW name \in HeaderNames, NEW line \in Seq(1 .. 127), strchr(line, Colon) # 0, NameOf(line) = name
  PROVE  ValueOf(line) = ValueIn(line, name) /\ ValueOf(line) \in Seq(1 .. 127)
<1> DEFINE k == strchr(line, Colon)
           N == Len(line)
           d == Len(name) + 2
           rest == SubSeq(line, d, N)
<1>1. N \in Nat /\ k \in 1 .. N
  BY StrchrIs
<1>2. Len(name) = k - 1
  <2> DEFINE b == k - 1
  <2>1. 1 \in 1 .. Len(line) + 1 /\ b \in 1 - 1 .. Len(line) /\ b - 1 + 1 = b
    BY <1>1
  <2>2. name = SubSeq(line, 1, b)
    BY DEF NameOf
  <2> HIDE DEF b
  <2>3. Len(SubSeq(line, 1, b)) = b - 1 + 1
    BY <2>1, SubSeqIs
  <2> QED BY <2>1, <2>2, <2>3 DEF b
<1>3. d = k + 1 /\ d \in 1 .. N + 1 /\ N \in d - 1 .. N
  BY <1>1, <1>2
<1> HIDE DEF d
<1>4. rest \in Seq(1 .. 127) /\ Len(rest) = N - d + 1 /\ \A i \in 1 .. N - d + 1 : rest[i] = line[d + i - 1]
  BY <1>3, SubSeqIs
<1>5. ValueOf(line) = SubSeq(line, IF d <= N /\ line[d] = Space THEN d + 1 ELSE d, N)
  BY <1>3 DEF ValueOf
<1>6. ValueIn(line, name) = IF rest # <<>> /\ rest[1] = Space THEN Tail(rest) ELSE rest
  BY DEF ValueIn, d
<1> HIDE DEF rest
<1>7. CASE d <= N
  <2>1. 1 \in 1 .. N - d + 1 /\ d + 1 - 1 = d /\ Len(rest) # 0
    BY <1>1, <1>3, <1>4, <1>7
  <2>2. rest # <<>> /\ rest[1] = line[d]
    BY <1>4, <2>1
  <2>3. CASE line[d] = Space
    <3> DEFINE v == SubSeq(line, d + 1, N)
    <3>1. ValueOf(line) = v /\ ValueIn(line, name) = Tail(rest)
      BY <1>5, <1>6, <1>7, <2>2, <2>3
    <3>2. d + 1 \in 1 .. N + 1 /\ N \in d + 1 - 1 .. N /\ N - (d + 1) + 1 = N - d
      BY <1>1, <1>3, <1>7
    <3>3. v \in Seq(1 .. 127) /\ Len(v) = N - d /\ \A i \in 1 .. N - d : v[i] = line[d + 1 + i - 1]
      <4> DEFINE a == d + 1
      <4>1. a \in 1 .. N + 1 /\ N \in a - 1 .. N /\ N - a + 1 = N - d
        BY <3>2
      <4> HIDE DEF a
      <4>2. /\ SubSeq(line, a, N) \in Seq(1 .. 127) /\ Len(SubSeq(line, a, N)) = N - a + 1
            /\ \A i \in 1 .. N - a + 1 : SubSeq(line, a, N)[i] = line[a + i - 1]
        BY <4>1, SubSeqIs
      <4> QED BY <4>1, <4>2 DEF a
    <3>4. /\ Tail(rest) \in Seq(1 .. 127) /\ Len(Tail(rest)) = N - d
          /\ \A i \in 1 .. N - d : Tail(rest)[i] = rest[i + 1]
      <4>1. /\ Tail(rest) \in Seq(1 .. 127) /\ Len(Tail(rest)) = Len(rest) - 1
            /\ \A i \in 1 .. Len(Tail(rest)) : Tail(rest)[i] = rest[i + 1]
        BY <1>4, <2>2, HeadTailProperties
      <4>2. Len(rest) - 1 = N - d
        BY <1>1, <1>3, <1>4
      <4> QED BY <4>1, <4>2
    <3>5. ASSUME NEW i \in 1 .. N - d PROVE v[i] = Tail(rest)[i]
      <4>1. i + 1 \in 1 .. N - d + 1 /\ d + (i + 1) - 1 = d + 1 + i - 1
        BY <1>1, <1>3
      <4> QED BY <1>4, <3>3, <3>4, <4>1
    <3> HIDE DEF v
    <3>6. v = Tail(rest)
      <4> DEFINE t == Tail(rest)
      <4>1. t \in Seq(1 .. 127) /\ Len(t) = Len(v) /\ \A i \in 1 .. Len(v) : v[i] = t[i]
        BY <3>3, <3>4, <3>5
      <4> HIDE DEF t
      <4>2. v = t
        BY <3>3, <4>1, SeqEqual
      <4> QED BY <4>2 DEF t
    <3> QED BY <3>1, <3>3, <3>6
  <2>4. CASE line[d] # Space
    BY <1>4, <1>5, <1>6, <1>7, <2>2, <2>4 DEF rest
  <2> QED BY <2>3, <2>4
<1>8. CASE ~ (d <= N)
  <2>1. Len(rest) = 0
    BY <1>1, <1>3, <1>4, <1>8
  <2>2. rest = <<>>
    BY <1>4, <2>1
  <2> QED BY <1>4, <1>5, <1>6, <1>8, <2>2 DEF rest
<1> QED BY <1>7, <1>8

-----------------------------------------------------------------------------
(* The inductive invariant: what connBuffer and responseBuffer hold, where. *)

ToldType ==
  [url : Seq(1 .. 127), lines : Seq(Seq(1 .. 127)), body : Seq(1 .. 127), pieces : Nat,
   added : Seq(Seq(1 .. 127)), response : Seq(1 .. 127), longest : Nat, overlong : BOOLEAN, writes : Nat]

AddedType == [pointer : Nat, value : Seq(1 .. 127)]

TextType ==
  /\ at \in {"url", "headers", "service", "refused"}
  /\ connBuffer \in Seq(Chars)
  /\ headers \in Seq(HeaderType)
  /\ resHeaders \in Seq(AddedType)
  /\ responseBuffer \in Seq(Chars) /\ Len(responseBuffer) = ResponseSize + 1
  /\ told \in ToldType

(* Only the url is decoded where it lies: nothing is behind it then. *)
NotBegun == at = "url" => connBuffer = <<>> /\ headers = <<>> /\ resHeaders = <<>>

UrlHolds ==
  /\ at = "refused" => ~ HasPath(told.url)
  /\ at \in {"headers", "service"} /\ HasPath(told.url) =>
       /\ Holds(connBuffer, resourceUrl, Decodes(LocalUrl(told.url)))
       /\ queryString = 0 <=> Mark(LocalUrl(told.url)) = 0
       /\ queryString # 0 => /\ Holds(connBuffer, queryString, Query(LocalUrl(told.url)))
                             /\ queryStringSize = Len(Query(LocalUrl(told.url)))

HeaderHeld(buffer, hs, lines, name) ==
  /\ FirstHeader(hs, name) = 0 <=> FirstLine(lines, name) = 0
  /\ FirstHeader(hs, name) # 0 =>
       /\ ValueIn(lines[FirstLine(lines, name)], name) \in Seq(1 .. 127)
       /\ Holds(buffer, hs[FirstHeader(hs, name)].value, ValueIn(lines[FirstLine(lines, name)], name))

HeadersHold == \A name \in ToSet(requestHeaderNames) : HeaderHeld(connBuffer, headers, told.lines, name)

BodyHolds ==
  /\ postData = IF told.body = <<>> THEN NoData ELSE told.body
  /\ at # "service" => told.body = <<>>

AddedHolds(buffer, entry, value) ==
  IF entry.pointer = 0 THEN value = entry.value ELSE Holds(buffer, entry.pointer, value)
AddedHold ==
  /\ Len(resHeaders) = IF Len(told.added) < MaxResponseHeaders THEN Len(told.added) ELSE MaxResponseHeaders
  /\ \A i \in 1 .. Len(resHeaders) : AddedHolds(connBuffer, resHeaders[i], told.added[i])

(* Behind the longest reply text so far there is nothing but NULs. *)
ResponseHolds ==
  /\ responseBuffIndex = Len(told.response)
  /\ Len(told.response) <= told.longest /\ told.longest <= ResponseSize
  /\ \A i \in 1 .. Len(told.response) : responseBuffer[i] = told.response[i]
  /\ \A i \in told.longest + 1 .. ResponseSize + 1 : responseBuffer[i] = Nul
  /\ ~ told.overlong => responseBuffer[Len(told.response) + 1] = Nul

TextInv ==
  TextType /\ NotBegun /\ UrlHolds /\ HeadersHold /\ BodyHolds /\ AddedHold /\ ResponseHolds

(* Every string that was held still is. *)
StillHeld(old, new) == \A p : \A text \in Seq(Chars) : Holds(old, p, text) => Holds(new, p, text)

LEMMA PutBehind ==
  ASSUME NEW buffer \in Seq(Chars), NEW value \in Seq(1 .. 127)
  PROVE  StillHeld(buffer, http_server_put_in_conn_buffer(buffer, value))
<1>1. /\ value \o <<Nul>> \in Seq(Chars)
      /\ http_server_put_in_conn_buffer(buffer, value) = buffer \o (value \o <<Nul>>)
  BY PutIs
<1> QED BY <1>1, HoldsOn DEF StillHeld

LEMMA LocalIs ==
  ASSUME NEW url \in Seq(1 .. 127), HasPath(url)
  PROVE  LocalUrl(url) \in Seq(1 .. 127) /\ Decodes(LocalUrl(url)) \in Seq(Chars)
         /\ Query(LocalUrl(url)) \in Seq(Chars)
<1>1. LocalUrl(url) \in Seq(1 .. 127)
  <2> DEFINE a == PathStart(url)
             b == Len(url)
  <2>1. a \in 1 .. Len(url) + 1 /\ b \in a - 1 .. Len(url) /\ LocalUrl(url) = SubSeq(url, a, b)
    <3>1. a \in 0 .. Len(url) /\ a # 0 /\ LocalUrl(url) = SubSeq(url, a, b) /\ Len(url) \in Nat
      BY PathStartIs
    <3> HIDE DEF a
    <3> QED BY <3>1
  <2> HIDE DEF a, b
  <2>2. SubSeq(url, a, b) \in Seq(1 .. 127)
    BY <2>1, SubSeqIs
  <2> QED BY <2>1, <2>2
<1> DEFINE local == LocalUrl(url)
<1> HIDE DEF local
<1>2. local \in Seq(1 .. 127)
  BY <1>1 DEF local
<1>3. Path(local) \in Seq(1 .. 127) /\ Query(local) \in Seq(1 .. 127)
  BY <1>2, QueryIs
<1>4. Query(local) \in Seq(Chars)
  BY <1>3, TextIs
<1>5. Meaning(Path(local), FALSE) \in Seq(Chars)
  BY <1>3, MeaningIs
<1>6. Decodes(local) \in Seq(Chars)
  BY <1>5, UpToIs DEF Decodes
<1> QED BY <1>1, <1>4, <1>6 DEF local

LEMMA HeaderNamesAre == \A name \in ToSet(requestHeaderNames) : name \in HeaderNames
<1> DEFINE b == IF Len(HandledNames) < MaxRequestHeaders THEN Len(HandledNames) ELSE MaxRequestHeaders
<1>1. HandledNames \in Seq(HeaderNames) /\ MaxRequestHeaders \in Nat
  BY NamesAssumption, HttpTextAssumption DEF HeaderNames
<1>2. Len(HandledNames) \in Nat
  BY <1>1
<1>3. 1 \in 1 .. Len(HandledNames) + 1 /\ b \in 1 - 1 .. Len(HandledNames)
  BY <1>1, <1>2
<1> HIDE DEF b
<1>4. SubSeq(HandledNames, 1, b) \in Seq(HeaderNames)
  BY <1>1, <1>3, SubSeqIs
<1>5. requestHeaderNames \in Seq(HeaderNames)
  BY <1>4 DEF requestHeaderNames, b
<1> QED BY <1>5, ElementOfSeq DEF ToSet

-----------------------------------------------------------------------------
(* What leaves the strings where they are keeps the parts of the invariant. *)

LEMMA UrlStays ==
  ASSUME TextType, UrlHolds, StillHeld(connBuffer, connBuffer'), told'.url = told.url,
         at \in {"headers", "service"}, at' \in {"headers", "service"},
         UNCHANGED <<resourceUrl, queryString, queryStringSize>>
  PROVE  UrlHolds'
<1>1. ASSUME HasPath(told.url)
      PROVE  /\ Holds(connBuffer', resourceUrl, Decodes(LocalUrl(told.url)))
             /\ queryString = 0 <=> Mark(LocalUrl(told.url)) = 0
             /\ queryString # 0 => /\ Holds(connBuffer', queryString, Query(LocalUrl(told.url)))
                                   /\ queryStringSize = Len(Query(LocalUrl(told.url)))
  <2> DEFINE local == LocalUrl(told.url)
  <2>1. told.url \in Seq(1 .. 127)
    BY DEF TextType, ToldType
  <2>2. Decodes(local) \in Seq(Chars) /\ Query(local) \in Seq(Chars)
    BY <1>1, <2>1, LocalIs
  <2>3. /\ Holds(connBuffer, resourceUrl, Decodes(local))
        /\ queryString = 0 <=> Mark(local) = 0
        /\ queryString # 0 => /\ Holds(connBuffer, queryString, Query(local))
                              /\ queryStringSize = Len(Query(local))
    BY <1>1 DEF UrlHolds
  <2> HIDE DEF local
  <2>4. /\ Holds(connBuffer', resourceUrl, Decodes(local))
        /\ queryString # 0 => Holds(connBuffer', queryString, Query(local))
    BY <2>2, <2>3, Zenon DEF StillHeld
  <2> QED BY <2>3, <2>4 DEF local
<1>2. at' # "refused"
  OBVIOUS
<1> QED BY <1>1, <1>2 DEF UrlHolds

LEMMA HeaderStays ==
  ASSUME NEW buffer, NEW new, NEW hs, NEW lines, NEW name, HeaderHeld(buffer, hs, lines, name),
         StillHeld(buffer, new)
  PROVE  HeaderHeld(new, hs, lines, name)
<1>1. ASSUME FirstHeader(hs, name) # 0
      PROVE  /\ ValueIn(lines[FirstLine(lines, name)], name) \in Seq(1 .. 127)
             /\ Holds(new, hs[FirstHeader(hs, name)].value, ValueIn(lines[FirstLine(lines, name)], name))
  <2> DEFINE v == ValueIn(lines[FirstLine(lines, name)], name)
             p == hs[FirstHeader(hs, name)].value
  <2>1. v \in Seq(1 .. 127) /\ Holds(buffer, p, v)
    BY <1>1 DEF HeaderHeld
  <2> HIDE DEF v, p
  <2>2. v \in Seq(Chars)
    BY <2>1, TextIs
  <2>3. Holds(new, p, v)
    BY <2>1, <2>2, Zenon DEF StillHeld
  <2> QED BY <2>1, <2>3 DEF v, p
<1> QED BY <1>1 DEF HeaderHeld

LEMMA OtherLine ==
  ASSUME NEW buffer, NEW hs, NEW lines \in Seq(Seq(1 .. 127)), NEW name, NEW line \in Seq(1 .. 127),
         HeaderHeld(buffer, hs, lines, name), ~ IsPrefix(Append(name, Colon), line)
  PROVE  HeaderHeld(buffer, hs, Append(lines, line), name)
<1> DEFINE f == FirstLine(lines, name)
<1>1. f \in 0 .. Len(lines) /\ Len(lines) \in Nat /\ FirstLine(Append(lines, line), name) = f
  BY FirstLineIs
<1>2. f # 0 => Append(lines, line)[f] = lines[f]
  <2>1. f # 0 => f \in 1 .. Len(lines)
    BY <1>1
  <2> HIDE DEF f
  <2> QED BY <2>1, AppendProperties
<1>3. (FirstHeader(hs, name) = 0 <=> f = 0) /\ (FirstHeader(hs, name) # 0 => f # 0)
  BY DEF HeaderHeld
<1> QED BY <1>1, <1>2, <1>3 DEF HeaderHeld

(* A further header, and the line it is from. *)
LEMMA FurtherLine ==
  ASSUME NEW buffer \in Seq(Chars), NEW hs \in Seq(HeaderType), NEW lines \in Seq(Seq(1 .. 127)),
         NEW name \in HeaderNames, NEW line \in Seq(1 .. 127), NEW h \in HeaderType,
         HeaderHeld(buffer, hs, lines, name), h.name = name <=> IsPrefix(Append(name, Colon), line),
         h.name = name => ValueIn(line, name) \in Seq(1 .. 127) /\ Holds(buffer, h.value, ValueIn(line, name))
  PROVE  HeaderHeld(buffer, Append(hs, h), Append(lines, line), name)
<1> DEFINE f == FirstLine(lines, name)
           g == FirstHeader(hs, name)
           ls == Append(lines, line)
           hh == Append(hs, h)
<1>1. f \in 0 .. Len(lines) /\ Len(lines) \in Nat /\ g \in 0 .. Len(hs) /\ Len(hs) \in Nat
  BY FirstLineIs, FirstHeaderIs
<1>2. FirstLine(ls, name) = IF f # 0 THEN f ELSE IF h.name = name THEN Len(lines) + 1 ELSE 0
  BY FirstLineIs
<1>3. FirstHeader(hh, name) = IF g # 0 THEN g ELSE IF h.name = name THEN Len(hs) + 1 ELSE 0
  BY FirstHeaderIs
<1>4. ls[Len(lines) + 1] = line /\ \A i \in 1 .. Len(lines) : ls[i] = lines[i]
  BY AppendProperties
<1>5. hh[Len(hs) + 1] = h /\ \A i \in 1 .. Len(hs) : hh[i] = hs[i]
  BY AppendProperties
<1>6. g = 0 <=> f = 0
  BY DEF HeaderHeld
<1>7. g # 0 => ValueIn(lines[f], name) \in Seq(1 .. 127) /\ Holds(buffer, hs[g].value, ValueIn(lines[f], name))
  BY DEF HeaderHeld
<1> HIDE DEF f, g, ls, hh
<1>8. CASE g # 0
  <2>1. FirstLine(ls, name) = f /\ FirstHeader(hh, name) = g /\ ls[f] = lines[f] /\ hh[g] = hs[g]
    <3>1. f \in 1 .. Len(lines) /\ g \in 1 .. Len(hs)
      BY <1>1, <1>6, <1>8
    <3> QED BY <1>2, <1>3, <1>4, <1>5, <1>6, <1>8, <3>1
  <2>2. HeaderHeld(buffer, hh, ls, name)
    BY <1>6, <1>7, <1>8, <2>1 DEF HeaderHeld
  <2> QED BY <2>2 DEF ls, hh
<1>9. CASE g = 0 /\ h.name = name
  <2>1. FirstLine(ls, name) = Len(lines) + 1 /\ FirstHeader(hh, name) = Len(hs) + 1
    BY <1>2, <1>3, <1>6, <1>9
  <2>2. Len(lines) + 1 # 0 /\ Len(hs) + 1 # 0
    BY <1>1
  <2>3. HeaderHeld(buffer, hh, ls, name)
    BY <1>4, <1>5, <1>9, <2>1, <2>2 DEF HeaderHeld
  <2> QED BY <2>3 DEF ls, hh
<1>10. CASE g = 0 /\ h.name # name
  <2>1. FirstLine(ls, name) = 0 /\ FirstHeader(hh, name) = 0
    BY <1>2, <1>3, <1>6, <1>10
  <2>2. HeaderHeld(buffer, hh, ls, name)
    BY <2>1 DEF HeaderHeld
  <2> QED BY <2>2 DEF ls, hh
<1> QED BY <1>8, <1>9, <1>10

-----------------------------------------------------------------------------
(* The invariant holds at the beginning and every step keeps it.           *)

LEMMA NothingFirst ==
  ASSUME NEW name
  PROVE  FirstHeader(<<>>, name) = 0 /\ FirstLine(<<>>, name) = 0
<1>1. 1 .. Len(<<>>) = {}
  OBVIOUS
<1> QED BY <1>1 DEF FirstHeader, FirstLine, SelectInSeq

LEMMA InvStarts == TextInit => TextInv
<1>1. SUFFICES ASSUME TextInit PROVE TextInv
  OBVIOUS
<1>2. ResponseSize \in Nat /\ MaxResponseHeaders \in Nat /\ Nul \in Chars
  BY HttpTextAssumption DEF Nul, Chars
<1>3. /\ at = "url" /\ connBuffer = <<>> /\ headers = <<>> /\ postData = NoData /\ resHeaders = <<>>
      /\ responseBuffIndex = 0
      /\ told.url = <<>> /\ told.lines = <<>> /\ told.body = <<>> /\ told.added = <<>>
      /\ told.response = <<>> /\ told.longest = 0
  BY <1>1 DEF TextInit
<1>4. told \in ToldType
  <2>1. FALSE \in BOOLEAN /\ <<>> \in Seq(1 .. 127) /\ <<>> \in Seq(Seq(1 .. 127)) /\ 0 \in Nat
    OBVIOUS
  <2> QED BY <1>1, <2>1 DEF TextInit, ToldType
<1>5. /\ responseBuffer \in Seq(Chars) /\ Len(responseBuffer) = ResponseSize + 1
      /\ \A i \in 1 .. ResponseSize + 1 : responseBuffer[i] = Nul
  <2>1. responseBuffer = [i \in 1 .. ResponseSize + 1 |-> Nul]
    BY <1>1 DEF TextInit
  <2>2. ResponseSize + 1 \in Nat
    BY <1>2
  <2> DEFINE m == ResponseSize + 1
  <2> HIDE DEF m
  <2>3. /\ responseBuffer \in Seq(Chars) /\ Len(responseBuffer) = m
        /\ \A i \in 1 .. m : responseBuffer[i] = Nul
    BY <1>2, <2>1, <2>2 DEF m
  <2> QED BY <2>3 DEF m
<1>6. TextType
  BY <1>3, <1>4, <1>5 DEF TextType
<1>7. NotBegun /\ UrlHolds /\ BodyHolds
  BY <1>3 DEF NotBegun, UrlHolds, BodyHolds
<1>8. HeadersHold
  BY <1>3, NothingFirst DEF HeadersHold, HeaderHeld
<1>9. AddedHold
  BY <1>2, <1>3 DEF AddedHold
<1>10. ResponseHolds
  <2>1. Len(<<>>) = 0 /\ 0 + 1 = 1 /\ 0 <= ResponseSize /\ 1 \in 1 .. ResponseSize + 1
    BY <1>2
  <2> QED BY <1>3, <1>5, <2>1 DEF ResponseHolds
<1> QED BY <1>6, <1>7, <1>8, <1>9, <1>10 DEF TextInv

(* What a client or an application gives is a text. *)
LEMMA Given ==
  ASSUME TextType
  PROVE  /\ \A n \in 0 .. Left : n \in Nat /\ Urls[n] \subseteq Seq(1 .. 127) /\ Bodies[n] \subseteq Seq(1 .. 127)
         /\ Lines \subseteq Seq(1 .. 127) /\ Values \subseteq Seq(1 .. 127)
<1>1. told.pieces \in Nat /\ told.writes \in Nat /\ Len(told.lines) \in Nat /\ Len(told.added) \in Nat
  BY DEF TextType, ToldType
<1>2. Spent \in Nat
  BY SMTT(30), <1>1 DEF Spent
<1>3. Budget \in Nat
  BY HttpTextAssumption
<1>4. \A n \in 0 .. Left : n \in 0 .. Budget /\ n \in Nat
  BY <1>2, <1>3 DEF Left
<1> QED BY <1>4, HttpTextAssumption

LEMMA RequestKeeps ==
  ASSUME TextInv, Request
  PROVE  TextInv'
<1>a. PICK n \in 0 .. Left : \E url \in Urls[n] : parseUrl(url) /\ told' = [told EXCEPT !.url = url, !.pieces = n]
  BY DEF Request
<1>1. PICK url \in Urls[n] : parseUrl(url) /\ told' = [told EXCEPT !.url = url, !.pieces = n]
  BY <1>a
<1>2. TextType /\ NotBegun /\ UrlHolds /\ HeadersHold /\ BodyHolds /\ AddedHold /\ ResponseHolds
  BY DEF TextInv
<1>3. n \in Nat /\ url \in Seq(1 .. 127)
  BY <1>2, Given
<1>4. /\ told' \in ToldType /\ told'.url = url /\ told'.lines = told.lines /\ told'.body = told.body
      /\ told'.added = told.added /\ told'.response = told.response /\ told'.longest = told.longest
      /\ told'.overlong = told.overlong
  <2>1. told \in ToldType
    BY <1>2 DEF TextType
  <2> QED BY ZenonT(30), <1>1, <1>3, <2>1 DEF ToldType
<1>5. /\ at = "url" /\ connBuffer = <<>> /\ headers = <<>> /\ resHeaders = <<>>
      /\ headers' = headers /\ postData' = postData /\ resHeaders' = resHeaders
      /\ responseBuffer' = responseBuffer /\ responseBuffIndex' = responseBuffIndex
  BY <1>1, <1>2 DEF parseUrl, NotBegun, reply
<1> DEFINE start == PathStart(url)
           local == SubSeq(url, start, Len(url))
           buffer == http_server_put_in_conn_buffer(connBuffer, local)
           parsed == Parsed(buffer, 1)
<1>6. /\ start \in 0 .. Len(url)
      /\ start = 0 => ~ HasPath(url)
      /\ start # 0 /\ HasPath(url) => local = LocalUrl(url)
  BY <1>3, PathStartIs
<1>7. ASSUME start # 0
      PROVE  /\ local \in Seq(1 .. 127)
             /\ parsed.buffer \in Seq(Chars)
             /\ Holds(parsed.buffer, 1, Decodes(local))
             /\ parsed.queryString = IF Mark(local) = 0 THEN 0 ELSE 1 + Mark(local)
             /\ parsed.queryStringSize = IF Mark(local) = 0 THEN 0 ELSE Len(local) - Mark(local)
             /\ Mark(local) # 0 => Holds(parsed.buffer, 1 + Mark(local), Query(local))
  <2>1. local \in Seq(1 .. 127)
    <3> DEFINE b == Len(url)
    <3>1. start \in 1 .. Len(url) + 1 /\ b \in start - 1 .. Len(url)
      <4>1. Len(url) \in Nat
        BY <1>3
      <4> HIDE DEF start
      <4> QED BY <1>6, <1>7, <4>1
    <3> HIDE DEF b, start
    <3>2. SubSeq(url, start, b) \in Seq(1 .. 127)
      BY <1>3, <3>1, SubSeqIs
    <3> QED BY <3>2 DEF b
  <2> HIDE DEF local
  <2>2. connBuffer \in Seq(Chars) /\ Len(connBuffer) = 0
    BY <1>5
  <2>3. /\ local \o <<Nul>> \in Seq(Chars)
        /\ buffer = connBuffer \o (local \o <<Nul>>)
        /\ buffer \in Seq(Chars)
        /\ Holds(buffer, Len(connBuffer) + 1, local)
    BY <2>1, <2>2, PutIs
  <2>4. Len(buffer) = Len(local) + 1
    <3>1. local \in Seq(Chars)
      BY <2>1, TextIs
    <3>2. Len(local \o <<Nul>>) = Len(local) + 1 /\ Len(local) \in Nat
      BY <3>1, OneNul, ConcatIs
    <3>3. Len(buffer) = Len(connBuffer) + Len(local \o <<Nul>>)
      BY <2>2, <2>3, ConcatIs
    <3> QED BY <2>2, <3>2, <3>3
  <2> HIDE DEF buffer
  <2>5. Holds(buffer, 1, local)
    BY <2>2, <2>3
  <2> QED BY <2>1, <2>3, <2>4, <2>5, ParsedIs
<1>8. CASE start = 0
  <2>1. at' = "refused" /\ connBuffer' = connBuffer
    BY <1>1, <1>8 DEF parseUrl
  <2>2. UrlHolds'
    BY <1>4, <1>6, <1>8, <2>1 DEF UrlHolds
  <2>3. TextType'
    BY <1>2, <1>4, <1>5, <2>1 DEF TextType
  <2>4. HeadersHold'
    BY <1>2, <1>4, <1>5, <2>1 DEF HeadersHold, requestHeaderNames
  <2>5. BodyHolds' /\ NotBegun'
    BY <1>2, <1>4, <1>5, <2>1 DEF BodyHolds, NotBegun
  <2>6. AddedHold'
    BY <1>2, <1>4, <1>5, <2>1 DEF AddedHold
  <2>7. ResponseHolds'
    BY <1>2, <1>4, <1>5 DEF ResponseHolds
  <2> QED BY <2>2, <2>3, <2>4, <2>5, <2>6, <2>7 DEF TextInv
<1>9. CASE start # 0
  <2>1. /\ at' = "headers" /\ resourceUrl' = 1 /\ connBuffer' = parsed.buffer
        /\ queryString' = parsed.queryString /\ queryStringSize' = parsed.queryStringSize
    <3>1. Len(connBuffer) + 1 = 1
      BY <1>5
    <3> QED BY <1>1, <1>9, <3>1 DEF parseUrl
  <2>2. /\ local \in Seq(1 .. 127) /\ connBuffer' \in Seq(Chars)
        /\ Holds(connBuffer', 1, Decodes(local))
        /\ queryString' = IF Mark(local) = 0 THEN 0 ELSE 1 + Mark(local)
        /\ queryStringSize' = IF Mark(local) = 0 THEN 0 ELSE Len(local) - Mark(local)
        /\ Mark(local) # 0 => Holds(connBuffer', 1 + Mark(local), Query(local))
    BY <1>7, <1>9, <2>1
  <2>3. TextType'
    BY <1>2, <1>4, <1>5, <2>1, <2>2 DEF TextType
  <2>4. HasPath(url) => local = LocalUrl(url)
    BY <1>6, <1>9
  <2> HIDE DEF local, start, parsed, buffer
  <2>5. UrlHolds'
    <3>1. /\ Mark(local) \in Nat
          /\ Mark(local) # 0 => Len(Query(local)) = Len(local) - Mark(local)
      BY <2>2, QueryIs
    <3>2. /\ queryString' = 0 <=> Mark(local) = 0
          /\ queryString' # 0 => Holds(connBuffer', queryString', Query(local)) /\ queryStringSize' = Len(Query(local))
      BY <2>2, <3>1
    <3> QED BY <1>4, <2>1, <2>2, <2>4, <3>2 DEF UrlHolds
  <2>6. HeadersHold'
    <3>1. ASSUME NEW name \in ToSet(requestHeaderNames) PROVE HeaderHeld(connBuffer', headers', told'.lines, name)
      <4>1. HeaderHeld(connBuffer, <<>>, told.lines, name)
        BY <1>2, <1>5 DEF HeadersHold
      <4>2. HeaderHeld(connBuffer', <<>>, told.lines, name)
        BY <4>1, NothingFirst DEF HeaderHeld
      <4> QED BY <1>4, <1>5, <4>2
    <3> QED BY <3>1 DEF HeadersHold, requestHeaderNames
  <2>7. BodyHolds' /\ NotBegun'
    BY <1>2, <1>4, <1>5, <2>1 DEF BodyHolds, NotBegun
  <2>8. AddedHold'
    <3>1. Len(resHeaders') = 0
      BY <1>5
    <3> QED BY <1>2, <1>4, <1>5, <3>1 DEF AddedHold
  <2>9. ResponseHolds'
    BY <1>2, <1>4, <1>5 DEF ResponseHolds
  <2> QED BY <2>3, <2>5, <2>6, <2>7, <2>8, <2>9 DEF TextInv
<1> QED BY <1>8, <1>9

(* Headers of the reply stay where the buffer does. *)
LEMMA AddedStay ==
  ASSUME TextType, AddedHold, StillHeld(connBuffer, connBuffer'), resHeaders' = resHeaders,
         told'.added = told.added
  PROVE  AddedHold'
<1>1. /\ Len(resHeaders) = IF Len(told.added) < MaxResponseHeaders THEN Len(told.added) ELSE MaxResponseHeaders
      /\ \A i \in 1 .. Len(resHeaders) : AddedHolds(connBuffer, resHeaders[i], told.added[i])
  BY DEF AddedHold
<1>2. MaxResponseHeaders \in Nat /\ told.added \in Seq(Seq(1 .. 127)) /\ Len(told.added) \in Nat
  BY HttpTextAssumption DEF TextType, ToldType
<1>3. ASSUME NEW i \in 1 .. Len(resHeaders) PROVE AddedHolds(connBuffer', resHeaders[i], told.added[i])
  <2>1. i \in 1 .. Len(told.added)
    BY <1>1, <1>2
  <2>2. told.added[i] \in Seq(1 .. 127)
    BY <1>2, <2>1, ElementOfSeq
  <2>3. told.added[i] \in Seq(Chars)
    BY <2>2, TextIs
  <2>4. AddedHolds(connBuffer, resHeaders[i], told.added[i])
    BY <1>1
  <2> QED BY <2>3, <2>4, Zenon DEF AddedHolds, StillHeld
<1> QED BY <1>1, <1>3 DEF AddedHold

LEMMA NothingMoved == \A buffer : StillHeld(buffer, buffer)
BY Zenon DEF StillHeld

LEMMA HeaderKeeps ==
  ASSUME TextInv, Header
  PROVE  TextInv'
<1>1. PICK line \in Lines : parseHeader(line)
  BY DEF Header
<1>2. TextType /\ NotBegun /\ UrlHolds /\ HeadersHold /\ BodyHolds /\ AddedHold /\ ResponseHolds
  BY DEF TextInv
<1>3. line \in Seq(1 .. 127)
  BY <1>2, Given
<1>4. /\ told' \in ToldType /\ told'.url = told.url /\ told'.lines = Append(told.lines, line)
      /\ told'.body = told.body /\ told'.added = told.added /\ told'.response = told.response
      /\ told'.longest = told.longest /\ told'.overlong = told.overlong
  <2>1. told \in ToldType /\ told' = [told EXCEPT !.lines = Append(@, line)]
    BY <1>1, <1>2 DEF TextType, parseHeader
  <2>2. Append(told.lines, line) \in Seq(Seq(1 .. 127))
    <3>1. told.lines \in Seq(Seq(1 .. 127))
      BY <2>1 DEF ToldType
    <3> QED BY <1>3, <3>1, AppendProperties
  <2> QED BY ZenonT(30), <2>1, <2>2 DEF ToldType
<1>5. /\ at = "headers" /\ at' = at /\ postData' = postData /\ resHeaders' = resHeaders
      /\ resourceUrl' = resourceUrl /\ queryString' = queryString /\ queryStringSize' = queryStringSize
      /\ responseBuffer' = responseBuffer /\ responseBuffIndex' = responseBuffIndex
  BY <1>1 DEF parseHeader, reply
<1>6. /\ told.lines \in Seq(Seq(1 .. 127)) /\ connBuffer \in Seq(Chars) /\ headers \in Seq(HeaderType)
  BY <1>2 DEF TextType, ToldType
<1>7. /\ StillHeld(connBuffer, connBuffer') /\ connBuffer' \in Seq(Chars) /\ headers' \in Seq(HeaderType)
      /\ HeadersHold'
  <2>1. CASE strchr(line, Colon) = 0 \/ ~ isRequestHeaderNeeded(NameOf(line))
    <3>1. connBuffer' = connBuffer /\ headers' = headers
      BY <1>1, <2>1 DEF parseHeader
    <3>2. ASSUME NEW name \in ToSet(requestHeaderNames)
          PROVE  HeaderHeld(connBuffer, headers, Append(told.lines, line), name)
      <4>1. name \in HeaderNames
        BY HeaderNamesAre
      <4>2. ~ IsPrefix(Append(name, Colon), line)
        BY <1>3, <2>1, <4>1, LineIs DEF isRequestHeaderNeeded
      <4>3. HeaderHeld(connBuffer, headers, told.lines, name)
        BY <1>2 DEF HeadersHold
      <4> QED BY <1>3, <1>6, <4>2, <4>3, OtherLine
    <3>3. HeadersHold'
      BY <1>4, <3>1, <3>2 DEF HeadersHold, requestHeaderNames
    <3> QED BY <1>6, <3>1, <3>3, NothingMoved
  <2>2. CASE strchr(line, Colon) # 0 /\ isRequestHeaderNeeded(NameOf(line))
    <3> DEFINE value == ValueOf(line)
               h == [name |-> NameOf(line), value |-> Len(connBuffer) + 1]
               new == http_server_put_in_conn_buffer(connBuffer, value)
    <3>1. headers' = Append(headers, h) /\ connBuffer' = new
      BY <1>1, <2>2 DEF parseHeader
    <3>2. NameOf(line) \in HeaderNames
      BY <2>2, HeaderNamesAre DEF isRequestHeaderNeeded
    <3>3. value = ValueIn(line, NameOf(line)) /\ value \in Seq(1 .. 127)
      BY <1>3, <2>2, <3>2, ValueInIs
    <3>4. new \in Seq(Chars) /\ Holds(new, Len(connBuffer) + 1, value) /\ StillHeld(connBuffer, new)
      BY <1>6, <3>3, PutIs, PutBehind
    <3>5. h \in HeaderType
      <4>1. NameOf(line) \in Seq(1 .. 127)
        <5>1. (1 .. 127) \ {Colon} \subseteq 1 .. 127
          OBVIOUS
        <5> QED BY <3>2, <5>1, SeqMonotonic DEF HeaderNames
      <4>2. Len(connBuffer) + 1 \in Nat
        BY <1>6
      <4> QED BY <4>1, <4>2 DEF HeaderType
    <3>6. Append(headers, h) \in Seq(HeaderType)
      BY <1>6, <3>5, AppendProperties
    <3>7. h.name = NameOf(line) /\ h.value = Len(connBuffer) + 1
      OBVIOUS
    <3> HIDE DEF h, value, new
    <3>8. ASSUME NEW name \in ToSet(requestHeaderNames)
          PROVE  HeaderHeld(new, Append(headers, h), Append(told.lines, line), name)
      <4>1. name \in HeaderNames
        BY HeaderNamesAre
      <4>2. h.name = name <=> IsPrefix(Append(name, Colon), line)
        BY <1>3, <2>2, <3>7, <4>1, LineIs
      <4>3. HeaderHeld(connBuffer, headers, told.lines, name)
        BY <1>2 DEF HeadersHold
      <4>4. HeaderHeld(new, headers, told.lines, name)
        BY <3>4, <4>3, HeaderStays
      <4>5. h.name = name => ValueIn(line, name) \in Seq(1 .. 127) /\ Holds(new, h.value, ValueIn(line, name))
        BY <3>3, <3>4, <3>7
      <4> QED BY <1>3, <1>6, <3>4, <3>5, <4>1, <4>2, <4>4, <4>5, FurtherLine
    <3>9. HeadersHold'
      BY <1>4, <3>1, <3>8 DEF HeadersHold, requestHeaderNames
    <3> QED BY <3>1, <3>4, <3>6, <3>9
  <2> QED BY <2>1, <2>2
<1>8. TextType'
  BY <1>2, <1>4, <1>5, <1>7 DEF TextType
<1>9. NotBegun' /\ BodyHolds'
  BY <1>2, <1>4, <1>5 DEF NotBegun, BodyHolds
<1>10. UrlHolds'
  BY <1>2, <1>4, <1>5, <1>7, UrlStays
<1>11. AddedHold'
  BY <1>2, <1>4, <1>5, <1>7, AddedStay
<1>12. ResponseHolds'
  BY <1>2, <1>4, <1>5 DEF ResponseHolds
<1> QED BY <1>7, <1>8, <1>9, <1>10, <1>11, <1>12 DEF TextInv

LEMMA HeadersStay ==
  ASSUME HeadersHold, StillHeld(connBuffer, connBuffer'), headers' = headers, told'.lines = told.lines
  PROVE  HeadersHold'
<1>1. ASSUME NEW name \in ToSet(requestHeaderNames) PROVE HeaderHeld(connBuffer', headers, told.lines, name)
  BY HeaderStays DEF HeadersHold
<1> QED BY <1>1 DEF HeadersHold, requestHeaderNames

LEMMA EmptyLineKeeps ==
  ASSUME TextInv, EmptyLine
  PROVE  TextInv'
<1>a. PICK n \in 0 .. Left :
        \E body \in Bodies[n] : EndOfHeaders(body) /\ told' = [told EXCEPT !.body = body, !.pieces = @ + n]
  BY DEF EmptyLine
<1>1. PICK body \in Bodies[n] : EndOfHeaders(body) /\ told' = [told EXCEPT !.body = body, !.pieces = @ + n]
  BY <1>a
<1>2. TextType /\ NotBegun /\ UrlHolds /\ HeadersHold /\ BodyHolds /\ AddedHold /\ ResponseHolds
  BY DEF TextInv
<1>3. n \in Nat /\ body \in Seq(1 .. 127)
  BY <1>2, Given
<1>4. /\ told' \in ToldType /\ told'.url = told.url /\ told'.lines = told.lines /\ told'.body = body
      /\ told'.added = told.added /\ told'.response = told.response /\ told'.longest = told.longest
      /\ told'.overlong = told.overlong
  <2>1. told \in ToldType /\ told' = [told EXCEPT !.body = body, !.pieces = told.pieces + n]
    BY <1>1, <1>2 DEF TextType
  <2>2. told.pieces + n \in Nat
    BY <1>3, <2>1 DEF ToldType
  <2> QED BY ZenonT(30), <1>3, <2>1, <2>2 DEF ToldType
<1>5. /\ at = "headers" /\ at' = "service" /\ headers' = headers /\ resHeaders' = resHeaders
      /\ postData' = IF body = <<>> THEN NoData ELSE body
      /\ resourceUrl' = resourceUrl /\ queryString' = queryString /\ queryStringSize' = queryStringSize
      /\ responseBuffer' = responseBuffer /\ responseBuffIndex' = responseBuffIndex
  BY <1>1 DEF EndOfHeaders, reply
<1>6. connBuffer \in Seq(Chars)
  BY <1>2 DEF TextType
<1>7. StillHeld(connBuffer, connBuffer') /\ connBuffer' \in Seq(Chars)
  <2>1. CASE body = <<>>
    <3>1. connBuffer' = connBuffer
      BY <1>1, <2>1 DEF EndOfHeaders
    <3> QED BY <1>6, <3>1, NothingMoved
  <2>2. CASE body # <<>>
    <3> DEFINE m == Len(body) + 1
               room == [i \in 1 .. m |-> Nul]
    <3>1. connBuffer' = connBuffer \o room
      BY <1>1, <2>2 DEF EndOfHeaders
    <3>2. m \in Nat /\ Nul \in Chars
      BY <1>3 DEF Nul, Chars
    <3> HIDE DEF m
    <3>3. room \in Seq(Chars)
      BY <3>2
    <3> HIDE DEF room
    <3>4. connBuffer \o room \in Seq(Chars)
      BY <1>6, <3>3, ConcatIs
    <3>5. StillHeld(connBuffer, connBuffer \o room)
      BY <1>6, <3>3, HoldsOn DEF StillHeld
    <3> QED BY <3>1, <3>4, <3>5
  <2> QED BY <2>1, <2>2
<1>8. TextType'
  BY <1>2, <1>4, <1>5, <1>7 DEF TextType
<1>9. NotBegun' /\ BodyHolds'
  BY <1>4, <1>5 DEF NotBegun, BodyHolds
<1>10. UrlHolds'
  BY <1>2, <1>4, <1>5, <1>7, UrlStays
<1>11. AddedHold'
  BY <1>2, <1>4, <1>5, <1>7, AddedStay
<1>12. HeadersHold'
  BY <1>2, <1>4, <1>5, <1>7, HeadersStay
<1>13. ResponseHolds'
  BY <1>2, <1>4, <1>5 DEF ResponseHolds
<1> QED BY <1>8, <1>9, <1>10, <1>11, <1>12, <1>13 DEF TextInv

LEMMA AddKeeps ==
  ASSUME TextInv, NEW value \in Values, NEW bCopyValue \in BOOLEAN, http_server_add_res_header(value, bCopyValue)
  PROVE  TextInv'
<1>2. TextType /\ NotBegun /\ UrlHolds /\ HeadersHold /\ BodyHolds /\ AddedHold /\ ResponseHolds
  BY DEF TextInv
<1>3. value \in Seq(1 .. 127) /\ MaxResponseHeaders \in Nat
  BY <1>2, Given, HttpTextAssumption
<1>4. /\ told' \in ToldType /\ told'.url = told.url /\ told'.lines = told.lines /\ told'.body = told.body
      /\ told'.added = Append(told.added, value) /\ told'.response = told.response
      /\ told'.longest = told.longest /\ told'.overlong = told.overlong
  <2>1. told \in ToldType /\ told' = [told EXCEPT !.added = Append(@, value)]
    BY <1>2 DEF TextType, http_server_add_res_header
  <2>2. Append(told.added, value) \in Seq(Seq(1 .. 127))
    <3>1. told.added \in Seq(Seq(1 .. 127))
      BY <2>1 DEF ToldType
    <3> QED BY <1>3, <3>1, AppendProperties
  <2> QED BY ZenonT(30), <2>1, <2>2 DEF ToldType
<1>5. /\ at = "service" /\ at' = "service" /\ headers' = headers /\ postData' = postData
      /\ resourceUrl' = resourceUrl /\ queryString' = queryString /\ queryStringSize' = queryStringSize
      /\ responseBuffer' = responseBuffer /\ responseBuffIndex' = responseBuffIndex
  BY DEF http_server_add_res_header, request
<1>6. /\ connBuffer \in Seq(Chars) /\ resHeaders \in Seq(AddedType) /\ told.added \in Seq(Seq(1 .. 127))
      /\ Len(connBuffer) \in Nat /\ Len(resHeaders) \in Nat /\ Len(told.added) \in Nat
  BY <1>2 DEF TextType, ToldType
<1> DEFINE n == Len(resHeaders)
           a == Len(told.added)
           added == Append(told.added, value)
<1>7. /\ n = IF a < MaxResponseHeaders THEN a ELSE MaxResponseHeaders
      /\ \A i \in 1 .. n : AddedHolds(connBuffer, resHeaders[i], told.added[i])
  BY <1>2 DEF AddedHold
<1>8. Len(added) = a + 1 /\ added[a + 1] = value /\ \A i \in 1 .. a : added[i] = told.added[i]
  BY <1>3, <1>6, AppendProperties
<1>9. \A i \in 1 .. n : i \in 1 .. a
  BY <1>3, <1>6, <1>7
<1> HIDE DEF added
<1>10. CASE n < MaxResponseHeaders
  <2> DEFINE entry == IF bCopyValue THEN [pointer |-> Len(connBuffer) + 1, value |-> <<>>]
                                    ELSE [pointer |-> 0, value |-> value]
             new == Append(resHeaders, entry)
  <2>1. /\ resHeaders' = new
        /\ connBuffer' = IF bCopyValue THEN http_server_put_in_conn_buffer(connBuffer, value) ELSE connBuffer
    BY <1>10 DEF http_server_add_res_header
  <2>2. entry \in AddedType
    <3>1. Len(connBuffer) + 1 \in Nat /\ <<>> \in Seq(1 .. 127) /\ 0 \in Nat
      BY <1>6
    <3> QED BY <1>3, <3>1 DEF AddedType
  <2>3. /\ StillHeld(connBuffer, connBuffer') /\ connBuffer' \in Seq(Chars)
        /\ AddedHolds(connBuffer', entry, value)
    <3>1. CASE bCopyValue
      <4>1. entry.pointer = Len(connBuffer) + 1 /\ Len(connBuffer) + 1 # 0
        BY <1>6, <3>1
      <4>2. connBuffer' = http_server_put_in_conn_buffer(connBuffer, value)
        BY <2>1, <3>1
      <4> HIDE DEF entry
      <4> QED BY <1>3, <1>6, <4>1, <4>2, PutIs, PutBehind DEF AddedHolds
    <3>2. CASE ~ bCopyValue
      <4>1. entry.pointer = 0 /\ entry.value = value
        BY <3>2
      <4>2. connBuffer' = connBuffer
        BY <2>1, <3>2
      <4> HIDE DEF entry
      <4> QED BY <1>6, <4>1, <4>2, NothingMoved DEF AddedHolds
    <3> QED BY <3>1, <3>2
  <2> HIDE DEF entry
  <2>4. /\ new \in Seq(AddedType) /\ Len(new) = n + 1 /\ new[n + 1] = entry
        /\ \A i \in 1 .. n : new[i] = resHeaders[i]
    BY <1>6, <2>2, AppendProperties
  <2> HIDE DEF new
  <2>5. n = a /\ n + 1 = IF a + 1 < MaxResponseHeaders THEN a + 1 ELSE MaxResponseHeaders
    BY <1>3, <1>6, <1>7, <1>10
  <2>6. ASSUME NEW i \in 1 .. n + 1 PROVE AddedHolds(connBuffer', new[i], added[i])
    <3>1. CASE i \in 1 .. n
      <4>1. new[i] = resHeaders[i] /\ added[i] = told.added[i] /\ AddedHolds(connBuffer, resHeaders[i], told.added[i])
        BY <1>7, <1>8, <1>9, <2>4, <3>1
      <4>2. told.added[i] \in Seq(1 .. 127)
        BY <1>6, <1>9, <3>1, ElementOfSeq
      <4>3. told.added[i] \in Seq(Chars)
        BY <4>2, TextIs
      <4> HIDE DEF n
      <4> QED BY <2>3, <4>1, <4>3, Zenon DEF AddedHolds, StillHeld
    <3>2. CASE i = n + 1
      BY <1>8, <2>3, <2>4, <2>5, <3>2
    <3> QED BY <1>6, <3>1, <3>2
  <2>7. AddedHold'
    BY <1>4, <1>8, <2>1, <2>4, <2>5, <2>6 DEF AddedHold, added
  <2>8. TextType'
    BY <1>2, <1>4, <1>5, <2>1, <2>3, <2>4 DEF TextType
  <2>9. NotBegun' /\ BodyHolds'
    BY <1>2, <1>4, <1>5 DEF NotBegun, BodyHolds
  <2>10. UrlHolds'
    BY <1>2, <1>4, <1>5, <2>3, UrlStays
  <2>11. HeadersHold'
    BY <1>2, <1>4, <1>5, <2>3, HeadersStay
  <2>12. ResponseHolds'
    BY <1>2, <1>4, <1>5 DEF ResponseHolds
  <2> QED BY <2>7, <2>8, <2>9, <2>10, <2>11, <2>12 DEF TextInv
<1>11. CASE ~ (n < MaxResponseHeaders)
  <2>1. resHeaders' = resHeaders /\ connBuffer' = connBuffer
    BY <1>11 DEF http_server_add_res_header
  <2>2. n = IF a + 1 < MaxResponseHeaders THEN a + 1 ELSE MaxResponseHeaders
    BY <1>3, <1>6, <1>7, <1>11
  <2>3. \A i \in 1 .. n : AddedHolds(connBuffer, resHeaders[i], added[i])
    BY <1>7, <1>8, <1>9
  <2>4. AddedHold'
    BY <1>4, <1>8, <2>1, <2>2, <2>3 DEF AddedHold, added
  <2>5. StillHeld(connBuffer, connBuffer')
    BY <2>1, NothingMoved
  <2>6. TextType'
    BY <1>2, <1>4, <1>5, <2>1 DEF TextType
  <2>7. NotBegun' /\ BodyHolds'
    BY <1>2, <1>4, <1>5 DEF NotBegun, BodyHolds
  <2>8. UrlHolds'
    BY <1>2, <1>4, <1>5, <2>5, UrlStays
  <2>9. HeadersHold'
    BY <1>2, <1>4, <1>5, <2>5, HeadersStay
  <2>10. ResponseHolds'
    BY <1>2, <1>4, <1>5 DEF ResponseHolds
  <2> QED BY <2>4, <2>6, <2>7, <2>8, <2>9, <2>10 DEF TextInv
<1> QED BY <1>10, <1>11

LEMMA ReplyStays ==
  ASSUME TextInv, UNCHANGED <<at, connBuffer, request, resHeaders>>, told' \in ToldType,
         told'.url = told.url, told'.lines = told.lines, told'.body = told.body, told'.added = told.added,
         responseBuffer' \in Seq(Chars), Len(responseBuffer') = ResponseSize + 1, ResponseHolds'
  PROVE  TextInv'
<1>1. TextType /\ NotBegun /\ UrlHolds /\ HeadersHold /\ BodyHolds /\ AddedHold
  BY DEF TextInv
<1>2. /\ at' = at /\ connBuffer' = connBuffer /\ headers' = headers /\ postData' = postData
      /\ resourceUrl' = resourceUrl /\ queryString' = queryString /\ queryStringSize' = queryStringSize
      /\ resHeaders' = resHeaders
  BY DEF request
<1>3. StillHeld(connBuffer, connBuffer')
  BY <1>2, NothingMoved
<1>4. TextType'
  BY <1>1, <1>2 DEF TextType
<1>5. NotBegun' /\ BodyHolds'
  BY <1>1, <1>2 DEF NotBegun, BodyHolds
<1>6. UrlHolds'
  BY <1>1, <1>2 DEF UrlHolds
<1>7. HeadersHold'
  BY <1>1, <1>2, <1>3, HeadersStay
<1>8. AddedHold'
  BY <1>1, <1>2, <1>3, AddedStay
<1> QED BY <1>4, <1>5, <1>6, <1>7, <1>8 DEF TextInv

LEMMA WrittenIs ==
  ASSUME TextType, NEW from \in Nat, NEW text \in Seq(Chars), from + Len(text) <= ResponseSize + 1
  PROVE  /\ Written(from, text) \in Seq(Chars) /\ Len(Written(from, text)) = ResponseSize + 1
         /\ \A i \in 1 .. Len(text) : Written(from, text)[from + i] = text[i]
         /\ \A i \in 1 .. ResponseSize + 1 :
              ~ (i \in from + 1 .. from + Len(text)) => Written(from, text)[i] = responseBuffer[i]
<1> DEFINE N == ResponseSize + 1
           m == Len(text)
           new == Written(from, text)
<1>1. N \in Nat /\ m \in Nat /\ responseBuffer \in Seq(Chars) /\ Len(responseBuffer) = N
  BY HttpTextAssumption DEF TextType
<1>2. DOMAIN responseBuffer = 1 .. N /\ \A i \in 1 .. N : responseBuffer[i] \in Chars
  BY <1>1, ElementOfSeq
<1> HIDE DEF N, m
<1>3. new = [i \in 1 .. N |-> IF i \in from + 1 .. from + m THEN text[i - from] ELSE responseBuffer[i]]
  BY <1>2 DEF Written, m
<1>4. ASSUME NEW i \in 1 .. N
      PROVE  (IF i \in from + 1 .. from + m THEN text[i - from] ELSE responseBuffer[i]) \in Chars
  <2>1. CASE i \in from + 1 .. from + m
    <3>1. i - from \in 1 .. Len(text)
      BY <1>1, <2>1 DEF m
    <3>2. text[i - from] \in Chars
      BY <3>1, ElementOfSeq
    <3> QED BY <2>1, <3>2
  <2> QED BY <1>2, <2>1
<1> HIDE DEF new
<1>5. /\ new \in Seq(Chars) /\ Len(new) = N
      /\ \A i \in 1 .. N : new[i] = IF i \in from + 1 .. from + m THEN text[i - from] ELSE responseBuffer[i]
  BY <1>1, <1>3, <1>4
<1>6. ASSUME NEW i \in 1 .. m PROVE new[from + i] = text[i]
  <2>1. from + i \in 1 .. N /\ from + i \in from + 1 .. from + m /\ from + i - from = i
    BY <1>1 DEF N, m
  <2> QED BY <1>5, <2>1
<1> QED BY <1>5, <1>6 DEF new, N, m

LEMMA CopyKeeps ==
  ASSUME TextInv, NEW text \in Values, http_server_copy_to_response(text)
  PROVE  TextInv'
<1>1. TextType /\ ResponseHolds /\ text \in Seq(1 .. 127) /\ ResponseSize \in Nat
  BY Given, HttpTextAssumption DEF TextInv
<1>2. text \in Seq(Chars) /\ Len(text) \in Nat /\ Len(text) <= ResponseSize
  BY <1>1, TextIs DEF http_server_copy_to_response
<1> DEFINE m == Len(text)
           longest == told.longest
           more == IF m > longest THEN m ELSE longest
<1>3. told \in ToldType /\ longest \in Nat /\ longest <= ResponseSize
  BY <1>1 DEF TextType, ToldType, ResponseHolds
<1>4. more \in Nat /\ m <= more /\ longest <= more /\ more <= ResponseSize
  BY <1>2, <1>3
<1>5. /\ told' \in ToldType /\ told'.url = told.url /\ told'.lines = told.lines /\ told'.body = told.body
      /\ told'.added = told.added /\ told'.response = text /\ told'.longest = more
      /\ told'.overlong = (longest > m)
  <2>1. told' = [told EXCEPT !.response = text, !.writes = @ + 1, !.longest = more, !.overlong = longest > m]
    BY DEF http_server_copy_to_response
  <2>2. told.writes + 1 \in Nat
    BY <1>3 DEF ToldType
  <2>3. (longest > m) \in BOOLEAN
    OBVIOUS
  <2> HIDE DEF more, longest, m
  <2> DEFINE over == longest > m
             wr == told.writes + 1
  <2>4. told' = [told EXCEPT !.response = text, !.writes = wr, !.longest = more, !.overlong = over]
    BY <2>1
  <2>5. over \in BOOLEAN /\ wr \in Nat
    BY <2>2, <2>3
  <2> HIDE DEF over, wr
  <2>6. /\ told' \in ToldType /\ told'.url = told.url /\ told'.lines = told.lines /\ told'.body = told.body
        /\ told'.added = told.added /\ told'.response = text /\ told'.longest = more /\ told'.overlong = over
    BY ZenonT(30), <1>1, <1>3, <1>4, <2>4, <2>5 DEF ToldType
  <2> QED BY <2>6 DEF over
<1>6. 0 \in Nat /\ 0 + m <= ResponseSize + 1 /\ 0 + 1 = 1 /\ 0 + m = m /\ \A i \in 1 .. m : 0 + i = i
  BY <1>1, <1>2
<1>7. /\ responseBuffer' \in Seq(Chars) /\ Len(responseBuffer') = ResponseSize + 1
      /\ \A i \in 1 .. m : responseBuffer'[i] = text[i]
      /\ \A i \in 1 .. ResponseSize + 1 : ~ (i \in 1 .. m) => responseBuffer'[i] = responseBuffer[i]
  <2>1. responseBuffer' = Written(0, text)
    BY DEF http_server_copy_to_response
  <2>2. /\ Written(0, text) \in Seq(Chars) /\ Len(Written(0, text)) = ResponseSize + 1
        /\ \A i \in 1 .. Len(text) : Written(0, text)[0 + i] = text[i]
        /\ \A i \in 1 .. ResponseSize + 1 :
             ~ (i \in 0 + 1 .. 0 + Len(text)) => Written(0, text)[i] = responseBuffer[i]
    BY <1>1, <1>2, <1>6, WrittenIs
  <2> QED BY <1>6, <2>1, <2>2
<1>8. \A i \in longest + 1 .. ResponseSize + 1 : responseBuffer[i] = Nul
  BY <1>1 DEF ResponseHolds
<1> HIDE DEF m, longest, more
<1>9. \A i \in more + 1 .. ResponseSize + 1 : responseBuffer'[i] = Nul
  <2>1. \A i \in more + 1 .. ResponseSize + 1 :
          i \in 1 .. ResponseSize + 1 /\ ~ (i \in 1 .. m) /\ i \in longest + 1 .. ResponseSize + 1
    BY <1>1, <1>2, <1>3, <1>4 DEF m
  <2> QED BY <1>7, <1>8, <2>1
<1>10. ~ (longest > m) => responseBuffer'[m + 1] = Nul
  <2>1. ASSUME ~ (longest > m)
        PROVE  m + 1 \in 1 .. ResponseSize + 1 /\ ~ (m + 1 \in 1 .. m) /\ m + 1 \in longest + 1 .. ResponseSize + 1
    BY <1>1, <1>2, <1>3, <2>1 DEF m
  <2> QED BY <1>7, <1>8, <2>1
<1>11. responseBuffIndex' = m /\ UNCHANGED <<at, connBuffer, request, resHeaders>>
  BY DEF http_server_copy_to_response, m
<1>12. ResponseHolds'
  BY <1>4, <1>5, <1>7, <1>9, <1>10, <1>11 DEF ResponseHolds, m
<1> QED BY <1>5, <1>7, <1>11, <1>12, ReplyStays

LEMMA ConcatenateKeeps ==
  ASSUME TextInv, NEW text \in Values, http_server_concatenate_str_to_response(text)
  PROVE  TextInv'
<1>1. TextType /\ ResponseHolds /\ text \in Seq(1 .. 127) /\ ResponseSize \in Nat
  BY Given, HttpTextAssumption DEF TextInv
<1>2. text \in Seq(Chars) /\ Len(text) \in Nat
  BY <1>1, TextIs
<1> DEFINE old == told.response
           k == Len(old)
           m == Len(text)
           out == text \o <<Nul>>
           whole == old \o text
           longest == told.longest
           more == IF k + m > longest THEN k + m ELSE longest
<1>3. /\ told \in ToldType /\ longest \in Nat /\ longest <= ResponseSize /\ k <= longest
      /\ old \in Seq(1 .. 127) /\ k \in Nat
      /\ responseBuffIndex = k /\ k + m <= ResponseSize /\ responseBuffIndex' = k + m
      /\ responseBuffer' = Written(k, out)
  BY <1>1 DEF TextType, ToldType, ResponseHolds, http_server_concatenate_str_to_response
<1>4. more \in Nat /\ k + m <= more /\ longest <= more /\ more <= ResponseSize
  BY <1>2, <1>3
<1>5. /\ out \in Seq(Chars) /\ Len(out) = m + 1
      /\ \A i \in 1 .. m : out[i] = text[i]
      /\ out[m + 1] = Nul
  <2>1. 1 \in 1 .. Len(<<Nul>>)
    OBVIOUS
  <2> QED BY <1>2, <2>1, OneNul, ConcatIs
<1>6. /\ whole \in Seq(1 .. 127) /\ Len(whole) = k + m
      /\ \A i \in 1 .. k + m : whole[i] = IF i <= k THEN old[i] ELSE text[i - k]
  BY <1>1, <1>3, ConcatProperties
<1>7. /\ told' \in ToldType /\ told'.url = told.url /\ told'.lines = told.lines /\ told'.body = told.body
      /\ told'.added = told.added /\ told'.response = whole /\ told'.longest = more
      /\ told'.overlong = FALSE
  <2>1. told' = [told EXCEPT !.response = whole, !.writes = @ + 1, !.overlong = FALSE, !.longest = more]
    BY <1>3 DEF http_server_concatenate_str_to_response
  <2> HIDE DEF more, longest, m, k, whole
  <2> DEFINE wr == told.writes + 1
  <2>2. told' = [told EXCEPT !.response = whole, !.writes = wr, !.overlong = FALSE, !.longest = more]
    BY <2>1
  <2>3. wr \in Nat /\ FALSE \in BOOLEAN
    BY <1>3 DEF ToldType
  <2> HIDE DEF wr
  <2> QED BY ZenonT(30), <1>3, <1>4, <1>6, <2>2, <2>3 DEF ToldType
<1>8. k + Len(out) <= ResponseSize + 1
  <2> HIDE DEF out, k
  <2> QED BY <1>1, <1>2, <1>3, <1>5
<1> HIDE DEF out
<1>9. /\ responseBuffer' \in Seq(Chars) /\ Len(responseBuffer') = ResponseSize + 1
      /\ \A i \in 1 .. m + 1 : responseBuffer'[k + i] = out[i]
      /\ \A i \in 1 .. ResponseSize + 1 : ~ (i \in k + 1 .. k + (m + 1)) => responseBuffer'[i] = responseBuffer[i]
  <2>1. /\ Written(k, out) \in Seq(Chars) /\ Len(Written(k, out)) = ResponseSize + 1
        /\ \A i \in 1 .. Len(out) : Written(k, out)[k + i] = out[i]
        /\ \A i \in 1 .. ResponseSize + 1 :
             ~ (i \in k + 1 .. k + Len(out)) => Written(k, out)[i] = responseBuffer[i]
    BY <1>1, <1>3, <1>5, <1>8, WrittenIs
  <2>2. responseBuffer' = Written(k, out) /\ Len(out) = m + 1
    BY <1>3, <1>5
  <2> HIDE DEF k, m
  <2> QED BY <2>1, <2>2
<1>10. /\ \A i \in 1 .. k : responseBuffer[i] = old[i]
       /\ \A i \in longest + 1 .. ResponseSize + 1 : responseBuffer[i] = Nul
  BY <1>1 DEF ResponseHolds
<1>a. m \in Nat /\ k \in Nat
  BY <1>2, <1>3
<1> HIDE DEF old, k, m, longest, more, whole
<1>11. responseBuffer'[k + m + 1] = Nul
  <2>1. m + 1 \in 1 .. m + 1 /\ k + (m + 1) = k + m + 1
    BY <1>a
  <2> QED BY <1>5, <1>9, <2>1
<1>12. ASSUME NEW i \in 1 .. k + m PROVE responseBuffer'[i] = whole[i]
  <2>1. CASE i <= k
    <3>1. i \in 1 .. k /\ i \in 1 .. ResponseSize + 1 /\ ~ (i \in k + 1 .. k + (m + 1))
      BY <1>a, <1>1, <1>3, <2>1
    <3> QED BY <1>6, <1>9, <1>10, <2>1, <3>1
  <2>2. CASE ~ (i <= k)
    <3>1. i - k \in 1 .. m /\ i - k \in 1 .. m + 1 /\ k + (i - k) = i
      BY <1>a, <2>2
    <3>2. responseBuffer'[i] = out[i - k]
      BY <1>9, <3>1
    <3> QED BY <1>5, <1>6, <2>2, <3>1, <3>2
  <2> QED BY <2>1, <2>2
<1>13. ASSUME NEW i \in more + 1 .. ResponseSize + 1 PROVE responseBuffer'[i] = Nul
  <2>1. CASE i = k + m + 1
    BY <1>11, <2>1
  <2>2. CASE i # k + m + 1
    <3>1. i \in 1 .. ResponseSize + 1 /\ ~ (i \in k + 1 .. k + (m + 1)) /\ i \in longest + 1 .. ResponseSize + 1
      BY <1>a, <1>1, <1>3, <1>4, <2>2
    <3> QED BY <1>9, <1>10, <3>1
  <2> QED BY <2>1, <2>2
<1>14. UNCHANGED <<at, connBuffer, request, resHeaders>>
  BY DEF http_server_concatenate_str_to_response
<1>15. ResponseHolds'
  BY <1>3, <1>4, <1>6, <1>7, <1>11, <1>12, <1>13 DEF ResponseHolds
<1> QED BY <1>7, <1>9, <1>14, <1>15, ReplyStays

LEMMA ServiceKeeps ==
  ASSUME TextInv, Service
  PROVE  TextInv'
<1>1. PICK value \in Values :
        \/ \E bCopyValue \in BOOLEAN : http_server_add_res_header(value, bCopyValue)
        \/ http_server_copy_to_response(value)
        \/ http_server_concatenate_str_to_response(value)
  BY DEF Service
<1>2. ASSUME NEW bCopyValue \in BOOLEAN, http_server_add_res_header(value, bCopyValue) PROVE TextInv'
  BY <1>2, AddKeeps
<1>3. CASE http_server_copy_to_response(value)
  BY <1>3, CopyKeeps
<1>4. CASE http_server_concatenate_str_to_response(value)
  BY <1>4, ConcatenateKeeps
<1> QED BY <1>1, <1>2, <1>3, <1>4

(* A step that changes nothing changes nothing of the invariant. *)
LEMMA StutterKeeps ==
  ASSUME TextInv, UNCHANGED textVars
  PROVE  TextInv'
<1>1. UNCHANGED <<at, connBuffer, request, resHeaders>> /\ told' = told
      /\ responseBuffer' = responseBuffer /\ responseBuffIndex' = responseBuffIndex
  BY DEF textVars, request
<1>2. told' \in ToldType /\ responseBuffer' \in Seq(Chars) /\ Len(responseBuffer') = ResponseSize + 1
  BY <1>1 DEF TextInv, TextType
<1>3. ResponseHolds'
  BY <1>1 DEF TextInv, ResponseHolds
<1> QED BY <1>1, <1>2, <1>3, ReplyStays

(* The invariant holds in every state. *)
THEOREM EverythingIsHeld == TextSpec => []TextInv
<1>1. TextInit => TextInv
  BY InvStarts
<1>2. TextInv /\ [TextNext]_textVars => TextInv'
  <2>1. SUFFICES ASSUME TextInv, [TextNext]_textVars PROVE TextInv'
    OBVIOUS
  <2>2. CASE Request
    BY <2>1, <2>2, RequestKeeps
  <2>3. CASE Header
    BY <2>1, <2>3, HeaderKeeps
  <2>4. CASE EmptyLine
    BY <2>1, <2>4, EmptyLineKeeps
  <2>5. CASE Service
    BY <2>1, <2>5, ServiceKeeps
  <2>6. CASE UNCHANGED textVars
    BY <2>1, <2>6, StutterKeeps
  <2> QED BY <2>1, <2>2, <2>3, <2>4, <2>5, <2>6 DEF TextNext
<1> QED BY <1>1, <1>2, PTL DEF TextSpec

-----------------------------------------------------------------------------
(* What follows from it.                                                   *)

(* TextsKept, for every url, every header line and every reply, in any     *)
(* number and of any length: what follows a string in connBuffer leaves it *)
(* alone (http_server_put_in_conn_buffer, parseUrl, parseHeader).          *)
THEOREM TextsAreKept == TextSpec => []TextsKept
<1>1. TextInv => TextsKept
  <2>1. SUFFICES ASSUME TextInv PROVE TextsKept
    OBVIOUS
  <2>2. TextType /\ UrlHolds /\ HeadersHold /\ AddedHold /\ ResponseHolds
    BY <2>1 DEF TextInv
  <2>3. /\ connBuffer \in Seq(Chars) /\ responseBuffer \in Seq(Chars) /\ told \in ToldType
        /\ resHeaders \in Seq(AddedType)
    BY <2>2 DEF TextType
  <2>4. UrlKept
    <3> DEFINE local == LocalUrl(told.url)
    <3>1. at = "refused" => ~ HasPath(told.url)
      BY <2>2 DEF UrlHolds
    <3>2. ASSUME at \in {"headers", "service"}, HasPath(told.url)
          PROVE  /\ StringAt(connBuffer, resourceUrl) = UpTo(Meaning(Path(local), FALSE), Nul)
                 /\ (queryString # 0) = (strchr(local, Question) # 0)
                 /\ queryString # 0 =>
                      StringAt(connBuffer, queryString) = Query(local) /\ queryStringSize = Len(Query(local))
      <4>1. told.url \in Seq(1 .. 127)
        BY <2>3 DEF ToldType
      <4>2. Decodes(local) \in Seq(Chars) /\ Query(local) \in Seq(Chars)
        BY <3>2, <4>1, LocalIs
      <4>3. /\ Holds(connBuffer, resourceUrl, Decodes(local))
            /\ queryString = 0 <=> Mark(local) = 0
            /\ queryString # 0 => Holds(connBuffer, queryString, Query(local)) /\ queryStringSize = Len(Query(local))
        BY <2>2, <3>2 DEF UrlHolds
      <4> HIDE DEF local
      <4>4. StringAt(connBuffer, resourceUrl) = Decodes(local)
        BY <2>3, <4>2, <4>3, StringIs
      <4>5. queryString # 0 => StringAt(connBuffer, queryString) = Query(local)
        BY <2>3, <4>2, <4>3, StringIs
      <4> QED BY <4>3, <4>4, <4>5 DEF Decodes, Mark
    <3> QED BY <3>1, <3>2 DEF UrlKept
  <2>5. HeadersKept
    <3>1. ASSUME NEW name \in ToSet(requestHeaderNames)
          PROVE  http_server_get_req_header_value(name) =
                   IF FirstLine(told.lines, name) = 0 THEN NoData
                   ELSE ValueIn(told.lines[FirstLine(told.lines, name)], name)
      <4> DEFINE f == FirstHeader(headers, name)
                 g == FirstLine(told.lines, name)
                 v == ValueIn(told.lines[g], name)
      <4>1. (f = 0 <=> g = 0) /\ (f # 0 => v \in Seq(1 .. 127) /\ Holds(connBuffer, headers[f].value, v))
        BY <2>2 DEF HeadersHold, HeaderHeld
      <4>2. http_server_get_req_header_value(name) = IF f = 0 THEN NoData ELSE StringAt(connBuffer, headers[f].value)
        BY DEF http_server_get_req_header_value, FirstHeader
      <4> HIDE DEF f, g, v
      <4>3. f # 0 => StringAt(connBuffer, headers[f].value) = v
        <5>1. f # 0 => v \in Seq(Chars)
          BY <4>1, TextIs
        <5> QED BY <2>3, <4>1, <5>1, StringIs
      <4>4. http_server_get_req_header_value(name) = IF g = 0 THEN NoData ELSE v
        BY <4>1, <4>2, <4>3
      <4> QED BY <4>4 DEF g, v
    <3> QED BY <3>1 DEF HeadersKept, FirstLine, ValueIn
  <2>6. ReplyKept
    <3>1. Len(resHeaders) = IF Len(told.added) < MaxResponseHeaders THEN Len(told.added) ELSE MaxResponseHeaders
      BY <2>2 DEF AddedHold
    <3>2. ASSUME NEW i \in DOMAIN resHeaders
          PROVE  told.added[i] = IF resHeaders[i].pointer = 0 THEN resHeaders[i].value
                                 ELSE StringAt(connBuffer, resHeaders[i].pointer)
      <4>1. told.added \in Seq(Seq(1 .. 127)) /\ MaxResponseHeaders \in Nat /\ Len(told.added) \in Nat
        BY <2>3, HttpTextAssumption DEF ToldType
      <4>2. i \in 1 .. Len(resHeaders) /\ Len(resHeaders) \in Nat
        BY <2>3
      <4>3. i \in 1 .. Len(told.added)
        BY <3>1, <4>1, <4>2
      <4>4. told.added[i] \in Seq(1 .. 127)
        BY <4>1, <4>3, ElementOfSeq
      <4>5. told.added[i] \in Seq(Chars)
        BY <4>4, TextIs
      <4>6. AddedHolds(connBuffer, resHeaders[i], told.added[i])
        BY <2>2, <4>2 DEF AddedHold
      <4>7. CASE resHeaders[i].pointer = 0
        BY <4>6, <4>7 DEF AddedHolds
      <4>8. CASE resHeaders[i].pointer # 0
        <5>1. Holds(connBuffer, resHeaders[i].pointer, told.added[i])
          BY <4>6, <4>8 DEF AddedHolds
        <5>2. StringAt(connBuffer, resHeaders[i].pointer) = told.added[i]
          BY <2>3, <4>5, <5>1, StringIs
        <5> QED BY <4>8, <5>2
      <4> QED BY <4>7, <4>8
    <3>3. ASSUME ~ told.overlong PROVE StringAt(responseBuffer, 1) = told.response
      <4> DEFINE text == told.response
                 n == Len(text)
      <4>1. text \in Seq(1 .. 127) /\ told.longest \in Nat /\ ResponseSize \in Nat
        BY <2>3, HttpTextAssumption DEF ToldType
      <4>2. /\ n <= told.longest /\ told.longest <= ResponseSize /\ Len(responseBuffer) = ResponseSize + 1
            /\ \A i \in 1 .. n : responseBuffer[i] = text[i]
            /\ responseBuffer[n + 1] = Nul
        BY <2>2, <3>3 DEF ResponseHolds, TextType
      <4>3. text \in Seq(Chars) /\ n \in Nat /\ \A i \in 1 .. n : text[i] # Nul
        BY <4>1, TextIs
      <4> HIDE DEF text
      <4>4. 1 + n <= Len(responseBuffer) /\ 1 + n = n + 1 /\ \A i \in 1 .. n : 1 + i - 1 = i
        BY <4>1, <4>2, <4>3
      <4>5. Holds(responseBuffer, 1, text)
        BY <4>2, <4>3, <4>4 DEF Holds
      <4>6. StringAt(responseBuffer, 1) = text
        BY <2>3, <4>3, <4>5, StringIs
      <4> QED BY <4>6 DEF text
    <3> QED BY <3>1, <3>2, <3>3 DEF ReplyKept
  <2> QED BY <2>4, <2>5, <2>6 DEF TextsKept
<1> QED BY <1>1, EverythingIsHeld, PTL

(* VariableIsFound, for every name without an ampersand, every size and    *)
(* every query and body: getVariable and decode read what the pairs of the *)
(* text mean, the last one of a name.                                      *)
THEOREM VariablesAreFound == TextSpec => []VariableIsFound
<1>1. TextInv => VariableIsFound
  <2>1. SUFFICES ASSUME TextInv, at = "service", NEW name \in Variables, NEW size \in Sizes
                 PROVE  /\ IF told.body = <<>> THEN http_server_get_post_variable(name, size) = Nothing
                           ELSE FoundIn(told.body, name, size, TRUE, http_server_get_post_variable(name, size))
                        /\ IF queryString = 0 THEN http_server_get_query_variable(name, size) = Nothing
                           ELSE HasPath(told.url) =>
                             FoundIn(Query(LocalUrl(told.url)), name, size, FALSE,
                                     http_server_get_query_variable(name, size))
    BY DEF VariableIsFound
  <2>2. TextType /\ UrlHolds /\ BodyHolds
    BY <2>1 DEF TextInv
  <2>3. name \in Names /\ size \in Nat \ {0}
    BY NamesAssumption, HttpTextAssumption DEF Names
  <2>4. connBuffer \in Seq(Chars) /\ told.url \in Seq(1 .. 127) /\ told.body \in Seq(1 .. 127)
    BY <2>2 DEF TextType, ToldType
  <2>5. ASSUME told.body = <<>> PROVE http_server_get_post_variable(name, size) = Nothing
    BY <2>2, <2>5 DEF BodyHolds, http_server_get_post_variable
  <2>6. ASSUME told.body # <<>>
        PROVE  FoundIn(told.body, name, size, TRUE, http_server_get_post_variable(name, size))
    <3>1. told.body # NoData
      <4>1. SUFFICES ASSUME told.body = <<Nul>> PROVE FALSE
        BY DEF NoData
      <4>2. 1 \in 1 .. Len(told.body) /\ told.body[1] = Nul
        BY <4>1
      <4> QED BY <2>4, <4>2, TextIs
    <3>2. http_server_get_post_variable(name, size) = getVariable(name, told.body, size, TRUE)
      BY <2>2, <2>6, <3>1 DEF BodyHolds, http_server_get_post_variable
    <3>3. TRUE \in BOOLEAN
      OBVIOUS
    <3>4. FoundIn(told.body, name, size, TRUE, getVariable(name, told.body, size, TRUE))
      BY <2>3, <2>4, <3>3, VariableRead
    <3> QED BY <3>2, <3>4
  <2>7. ASSUME queryString # 0, HasPath(told.url)
        PROVE  FoundIn(Query(LocalUrl(told.url)), name, size, FALSE, http_server_get_query_variable(name, size))
    <3> DEFINE local == LocalUrl(told.url)
               query == Query(local)
    <3>1. local \in Seq(1 .. 127) /\ query \in Seq(Chars)
      BY <2>4, <2>7, LocalIs
    <3>2. query \in Seq(1 .. 127)
      BY <3>1, QueryIs
    <3>3. Holds(connBuffer, queryString, query) /\ queryStringSize = Len(query)
      BY <2>1, <2>2, <2>7 DEF UrlHolds
    <3> HIDE DEF query
    <3>4. SubSeq(connBuffer, queryString, queryString + queryStringSize - 1) = query
      BY <2>4, <3>1, <3>3, PartIs
    <3>5. http_server_get_query_variable(name, size) = getVariable(name, query, size, FALSE)
      BY <2>7, <3>4 DEF http_server_get_query_variable
    <3>6. FALSE \in BOOLEAN
      OBVIOUS
    <3>7. FoundIn(query, name, size, FALSE, getVariable(name, query, size, FALSE))
      BY <2>3, <3>2, <3>6, VariableRead
    <3> QED BY <3>5, <3>7 DEF query
  <2>8. queryString = 0 => http_server_get_query_variable(name, size) = Nothing
    BY DEF http_server_get_query_variable
  <2> QED BY <2>5, <2>6, <2>7, <2>8
<1> QED BY <1>1, EverythingIsHeld, PTL
===============================================================================
