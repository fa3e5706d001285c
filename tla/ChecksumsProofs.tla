--------------------------- MODULE ChecksumsProofs ---------------------------
(***************************************************************************)
(* Proofs about Checksums: crc_hw.c makes the standard checksums of every  *)
(* message of bytes, for every size of the buffer and every transfer that  *)
(* may fail.                                                               *)
(*                                                                         *)
(* The DMA shifts a message through the whole register, the standard       *)
(* checksums add it to the register's first bits.  The two agree if the    *)
(* register, with as many zeros shifted in behind it as it is long, is the *)
(* reference's (Pads), and a bit keeps that (PadsFeed).  The seeds of the  *)
(* code are those that agree with ones at the start (StartPads16 and 32).  *)
(***************************************************************************)
EXTENDS Checksums, SequenceTheorems, WellFoundedInduction, TLAPS

-----------------------------------------------------------------------------
(* Induction over a set of numbers.                                        *)

LEMMA Smallest ==
  ASSUME NEW I \in SUBSET Nat, I # {}
  PROVE  Min(I) \in I /\ \A i \in I : Min(I) <= i
<1>1. PICK m \in I : \A i \in I : ~ (<<i, m>> \in OpToRel(<, Nat))
  BY NatLessThanWellFounded, WFMin
<1>2. \A i \in I : m <= i
  <2>1. ASSUME NEW i \in I PROVE ~ (i < m)
    BY <1>1 DEF OpToRel
  <2> QED BY <2>1
<1>3. \E x \in I : \A y \in I : x <= y
  BY <1>2
<1> QED BY <1>3, Zenon DEF Min

LEMMA UpTheNumbers ==
  ASSUME NEW N \in Nat, NEW J, 0 \in J, \A n \in 1 .. N : n - 1 \in J => n \in J
  PROVE  \A n \in 0 .. N : n \in J
<1> DEFINE I == {n \in 0 .. N : ~ (n \in J)}
<1>1. SUFFICES ASSUME I # {} PROVE FALSE
  OBVIOUS
<1>2. I \in SUBSET Nat
  OBVIOUS
<1>3. Min(I) \in I /\ \A i \in I : Min(I) <= i
  BY <1>1, <1>2, Smallest
<1>4. PICK m \in I : \A i \in I : m <= i
  BY <1>3
<1>5. m \in 0 .. N /\ ~ (m \in J) /\ m # 0
  BY <1>4
<1>6. m \in 1 .. N /\ m - 1 \in 0 .. N /\ ~ (m <= m - 1)
  BY <1>5
<1>7. ~ (m - 1 \in I)
  BY <1>4, <1>6
<1>8. m - 1 \in J
  BY <1>6, <1>7
<1> QED BY <1>5, <1>6, <1>8

-----------------------------------------------------------------------------
(* A loop whose turns differ: turn n makes G[n][x] of x.                   *)

Runs(f, X, a, G, N) ==
  f \in [0 .. N -> X] /\ f[0] = a /\ \A n \in 1 .. N : f[n] = G[n][f[n - 1]]

LEMMA Loops ==
  ASSUME NEW X, NEW a \in X, NEW N \in Nat, NEW G \in [1 .. N -> [X -> X]]
  PROVE  \E f : Runs(f, X, a, G, N)
<1> DEFINE Good(m) == \E f \in [0 .. m -> X] : f[0] = a /\ \A n \in 1 .. m : f[n] = G[n][f[n - 1]]
           J == {m \in 0 .. N : Good(m)}
<1>1. 0 \in J
  <2> DEFINE f == [n \in 0 .. 0 |-> a]
  <2>1. f \in [0 .. 0 -> X] /\ f[0] = a /\ \A n \in 1 .. 0 : f[n] = G[n][f[n - 1]]
    OBVIOUS
  <2> HIDE DEF f
  <2>2. Good(0)
    BY <2>1
  <2> QED BY <2>2
<1>2. ASSUME NEW m \in 1 .. N, m - 1 \in J PROVE m \in J
  <2>1. PICK f \in [0 .. m - 1 -> X] : f[0] = a /\ \A n \in 1 .. m - 1 : f[n] = G[n][f[n - 1]]
    BY <1>2
  <2> DEFINE g == [n \in 0 .. m |-> IF n = m THEN G[m][f[m - 1]] ELSE f[n]]
  <2>2. m - 1 \in 0 .. m - 1 /\ 0 \in 0 .. m - 1
    OBVIOUS
  <2>3. f[m - 1] \in X /\ G[m][f[m - 1]] \in X
    BY <2>2
  <2>4. ASSUME NEW n \in 0 .. m PROVE (IF n = m THEN G[m][f[m - 1]] ELSE f[n]) \in X
    <3>1. n # m => n \in 0 .. m - 1
      OBVIOUS
    <3> QED BY <2>3, <3>1
  <2>5. g \in [0 .. m -> X]
    BY <2>4
  <2>6. g[0] = a
    <3>1. 0 \in 0 .. m /\ 0 # m
      OBVIOUS
    <3> QED BY <2>1, <3>1
  <2>7. ASSUME NEW n \in 1 .. m PROVE g[n] = G[n][g[n - 1]]
    <3>1. n \in 0 .. m /\ n - 1 \in 0 .. m /\ n - 1 # m
      OBVIOUS
    <3>2. g[n - 1] = f[n - 1]
      BY <3>1
    <3>3. CASE n = m
      BY <3>1, <3>2, <3>3
    <3>4. CASE n # m
      <4>1. n \in 1 .. m - 1
        BY <3>4
      <4>2. g[n] = f[n]
        BY <3>1, <3>4
      <4> QED BY <2>1, <3>2, <4>1, <4>2
    <3> QED BY <3>3, <3>4
  <2> HIDE DEF g
  <2>8. Good(m)
    BY <2>5, <2>6, <2>7
  <2> HIDE DEF Good
  <2> QED BY <2>8
<1> HIDE DEF J
<1>3. \A n \in 0 .. N : n \in J
  BY <1>1, <1>2, UpTheNumbers
<1>4. N \in J
  BY <1>3
<1> QED BY <1>4 DEF J, Runs

-----------------------------------------------------------------------------
(* Words: what the register becomes when a bit is shifted in, and what it  *)
(* becomes when the bit is added to its first one and a zero shifted in.   *)

Bit == {0, 1}
Word(w) == [1 .. w -> Bit]
Flip(a, b) == IF a = b THEN 0 ELSE 1

Shift(w, p, r, b) == [i \in 1 .. w |-> Flip(IF i < w THEN r[i + 1] ELSE b, IF r[1] = 1 THEN p[i] ELSE 0)]
Feed(w, p, r, b) == [i \in 1 .. w |-> Flip(IF i < w THEN r[i + 1] ELSE 0, IF r[1] # b THEN p[i] ELSE 0)]

LEMMA Flips == \A a, b \in Bit : Flip(a, b) \in Bit /\ (a + b) % 2 = Flip(a, b)
BY DEF Bit, Flip

LEMMA WordIs ==
  ASSUME NEW w \in Nat, NEW S, NEW r \in [1 .. w -> S]
  PROVE  r \in Seq(S) /\ Len(r) = w
<1>1. r \in Seq(S)
  BY SeqDef
<1>2. Len(r) \in Nat /\ DOMAIN r = 1 .. Len(r) /\ DOMAIN r = 1 .. w
  BY <1>1, LenProperties
<1>3. \A n \in Nat : 1 .. n = 1 .. w => n = w
  <2>1. SUFFICES ASSUME NEW n \in Nat, 1 .. n = 1 .. w PROVE n = w
    OBVIOUS
  <2>2. ~ (n < w)
    <3>1. w \in 1 .. w => w \in 1 .. n
      BY <2>1
    <3> QED BY <3>1
  <2>3. ~ (w < n)
    <3>1. n \in 1 .. n => n \in 1 .. w
      BY <2>1
    <3> QED BY <3>1
  <2> QED BY <2>2, <2>3
<1> QED BY <1>1, <1>2, <1>3

LEMMA SeqIsWord ==
  ASSUME NEW S, NEW s \in Seq(S)
  PROVE  s \in [1 .. Len(s) -> S] /\ Len(s) \in Nat
BY LenProperties, ElementOfSeq

LEMMA XorIs ==
  ASSUME NEW w \in Nat, NEW a \in Word(w), NEW b \in Word(w)
  PROVE  Xor(a, b) \in Word(w) /\ \A i \in 1 .. w : Xor(a, b)[i] = Flip(a[i], b[i])
<1>1. Len(a) = w
  BY WordIs DEF Word
<1>2. \A i \in 1 .. w : a[i] \in Bit /\ b[i] \in Bit
  BY DEF Word
<1>3. \A i \in 1 .. w : (a[i] + b[i]) % 2 = Flip(a[i], b[i]) /\ Flip(a[i], b[i]) \in Bit
  BY <1>2, Flips
<1>4. Xor(a, b) = [i \in 1 .. w |-> (a[i] + b[i]) % 2]
  BY <1>1 DEF Xor
<1> QED BY <1>3, <1>4 DEF Word

LEMMA SameWords ==
  ASSUME NEW w \in Nat, NEW a \in Word(w), NEW b \in Word(w), \A i \in 1 .. w : a[i] = b[i]
  PROVE  a = b
BY DEF Word

LEMMA ShiftIs ==
  ASSUME NEW w \in Nat \ {0}, NEW p \in Word(w), NEW r \in Word(w), NEW b \in Bit
  PROVE  Shift(w, p, r, b) \in Word(w) /\ Feed(w, p, r, b) \in Word(w) /\ ShiftIn(r, b, p) = Shift(w, p, r, b)
<1>1. r \in Seq(Bit) /\ Len(r) = w /\ r # <<>>
  BY WordIs DEF Word
<1>2. 1 \in 1 .. w /\ r[1] \in Bit /\ \A i \in 1 .. w : p[i] \in Bit /\ (i < w => i + 1 \in 1 .. w /\ r[i + 1] \in Bit)
  BY DEF Word
<1>3. Tail(r) \in Seq(Bit) /\ Len(Tail(r)) = w - 1 /\ \A i \in 1 .. w - 1 : Tail(r)[i] = r[i + 1]
  BY <1>1, HeadTailProperties
<1> DEFINE shifted == Append(Tail(r), b)
<1>4. shifted \in Seq(Bit) /\ Len(shifted) = w /\ \A i \in 1 .. w : shifted[i] = IF i < w THEN r[i + 1] ELSE b
  BY <1>3, AppendProperties
<1>5. shifted \in Word(w)
  BY <1>4, SeqIsWord DEF Word
<1> HIDE DEF shifted
<1>6. \A x \in Bit : 0 \in Bit /\ Flip(x, 0) = x
  BY DEF Flip, Bit
<1>7. Shift(w, p, r, b) \in Word(w) /\ Feed(w, p, r, b) \in Word(w)
  BY <1>2, <1>6, Flips DEF Shift, Feed, Word
<1>8. ShiftIn(r, b, p) = IF r[1] = 1 THEN Xor(shifted, p) ELSE shifted
  BY DEF ShiftIn, shifted
<1>9. Xor(shifted, p) \in Word(w) /\ \A i \in 1 .. w : Xor(shifted, p)[i] = Flip(shifted[i], p[i])
  BY <1>5, XorIs
<1>10. ShiftIn(r, b, p) \in Word(w)
  BY <1>5, <1>8, <1>9
<1>11. \A i \in 1 .. w : Shift(w, p, r, b)[i] = Flip(IF i < w THEN r[i + 1] ELSE b, IF r[1] = 1 THEN p[i] ELSE 0)
  BY DEF Shift
<1>12. \A i \in 1 .. w : ShiftIn(r, b, p)[i] = Shift(w, p, r, b)[i]
  <2>1. CASE r[1] = 1
    BY <1>4, <1>8, <1>9, <1>11, <2>1
  <2>2. CASE r[1] # 1
    BY <1>2, <1>4, <1>6, <1>8, <1>11, <2>2
  <2> QED BY <2>1, <2>2
<1> QED BY <1>7, <1>10, <1>12, SameWords

(* The register behind as many zeros as it is long.                        *)
Empties(f, w, p, r) ==
  f \in [0 .. w -> Word(w)] /\ f[0] = r /\ \A n \in 1 .. w : f[n] = Shift(w, p, f[n - 1], 0)
Pads(w, p, r, x) == \E f : Empties(f, w, p, r) /\ f[w] = x

LEMMA PadsOnce ==
  ASSUME NEW w \in Nat \ {0}, NEW p \in Word(w), NEW r, NEW x, Pads(w, p, r, x), NEW f, Empties(f, w, p, r)
  PROVE  f[w] = x
<1>1. PICK g : Empties(g, w, p, r) /\ g[w] = x
  BY DEF Pads
<1> DEFINE J == {n \in 0 .. w : f[n] = g[n]}
<1>2. 0 \in J
  BY <1>1 DEF Empties
<1>3. ASSUME NEW n \in 1 .. w, n - 1 \in J PROVE n \in J
  BY <1>1, <1>3 DEF Empties
<1> HIDE DEF J
<1>4. \A n \in 0 .. w : n \in J
  BY <1>2, <1>3, UpTheNumbers
<1>5. w \in J
  BY <1>4
<1> QED BY <1>1, <1>5 DEF J

(* A bit shifted through the whole register is a bit added to its first.   *)
(* f are the registers behind r, g those behind r with the bit shifted in: *)
(* they differ in that bit, which moves to the front.                      *)
LEMMA PadsFeed ==
  ASSUME NEW w \in Nat \ {0}, NEW p \in Word(w), NEW r \in Word(w), NEW x, Pads(w, p, r, x), NEW b \in Bit
  PROVE  Pads(w, p, Shift(w, p, r, b), Feed(w, p, x, b))
<1>1. PICK f \in [0 .. w -> Word(w)] :
        f[0] = r /\ f[w] = x /\ \A n \in 1 .. w : f[n] = Shift(w, p, f[n - 1], 0)
  BY DEF Pads, Empties
<1> DEFINE Z(n) == Shift(w, p, f[n], 0)
           h(n) == [i \in 1 .. w |-> Flip(Z(n)[i], IF i = w - n THEN b ELSE 0)]
           g == [n \in 0 .. w |-> IF n = w THEN Feed(w, p, x, b) ELSE h(n)]
<1>2. 0 \in Bit /\ x \in Word(w) /\ 1 \in 1 .. w
  <2>1. w \in 0 .. w
    OBVIOUS
  <2> QED BY <1>1, <2>1 DEF Bit
<1>3. ASSUME NEW n \in 0 .. w
      PROVE  /\ f[n] \in Word(w) /\ Z(n) \in Word(w) /\ h(n) \in Word(w)
             /\ \A i \in 1 .. w : /\ Z(n)[i] = Flip(IF i < w THEN f[n][i + 1] ELSE 0, IF f[n][1] = 1 THEN p[i] ELSE 0)
                                  /\ h(n)[i] = Flip(Z(n)[i], IF i = w - n THEN b ELSE 0)
                                  /\ f[n][i] \in Bit /\ Z(n)[i] \in Bit /\ p[i] \in Bit
  <2>1. f[n] \in Word(w)
    OBVIOUS
  <2>2. Z(n) \in Word(w)
    BY <1>2, <2>1, ShiftIs
  <2>3. \A i \in 1 .. w : f[n][i] \in Bit /\ Z(n)[i] \in Bit /\ p[i] \in Bit
    BY <2>1, <2>2 DEF Word
  <2>4. \A i \in 1 .. w : Z(n)[i] = Flip(IF i < w THEN f[n][i + 1] ELSE 0, IF f[n][1] = 1 THEN p[i] ELSE 0)
    BY DEF Shift
  <2> HIDE DEF Z
  <2>5. h(n) \in Word(w)
    BY <1>2, <2>3, Flips DEF Word
  <2> QED BY <2>1, <2>2, <2>3, <2>4, <2>5
<1>4. Feed(w, p, x, b) \in Word(w)
  BY <1>2, ShiftIs
<1>5. g \in [0 .. w -> Word(w)]
  BY <1>3, <1>4
<1>6. g[0] = Shift(w, p, r, b)
  <2>1. g[0] = h(0) /\ f[0] = r /\ 0 \in 0 .. w /\ Shift(w, p, r, b) \in Word(w)
    BY <1>1, ShiftIs
  <2>2. ASSUME NEW i \in 1 .. w PROVE h(0)[i] = Shift(w, p, r, b)[i]
    <3> HIDE DEF h, g, Z
    <3>1. Shift(w, p, r, b)[i] = Flip(IF i < w THEN r[i + 1] ELSE b, IF r[1] = 1 THEN p[i] ELSE 0)
      BY DEF Shift
    <3>2. /\ Z(0)[i] = Flip(IF i < w THEN r[i + 1] ELSE 0, IF r[1] = 1 THEN p[i] ELSE 0)
          /\ h(0)[i] = Flip(Z(0)[i], IF i = w - 0 THEN b ELSE 0)
      BY <1>3, <2>1
    <3>3. p[i] \in Bit /\ (i < w => r[i + 1] \in Bit)
      BY DEF Word
    <3>4. i = w - 0 <=> ~ (i < w)
      OBVIOUS
    <3> QED BY <3>1, <3>2, <3>3, <3>4 DEF Flip, Bit
  <2> HIDE DEF h, g
  <2> QED BY <1>3, <2>1, <2>2, SameWords
<1>7. g[w] = Feed(w, p, x, b)
  OBVIOUS
<1>8. ASSUME NEW n \in 1 .. w PROVE g[n] = Shift(w, p, g[n - 1], 0)
  <2>1. /\ n - 1 \in 0 .. w /\ n \in 0 .. w /\ n - 1 # w
        /\ g[n - 1] = h(n - 1) /\ Z(n - 1) = f[n]
        /\ g[n] = IF n = w THEN Feed(w, p, x, b) ELSE h(n)
    <3>1. n - 1 \in 0 .. w /\ n \in 0 .. w /\ n - 1 # w
      OBVIOUS
    <3>2. Z(n - 1) = f[n]
      BY <1>1
    <3> HIDE DEF h, Z
    <3> QED BY <3>1, <3>2
  <2> HIDE DEF g, h, Z
  <2>2. h(n - 1) \in Word(w) /\ \A i \in 1 .. w : h(n - 1)[i] = Flip(f[n][i], IF i = w - (n - 1) THEN b ELSE 0)
    BY <1>3, <2>1
  <2>3. Shift(w, p, g[n - 1], 0) \in Word(w) /\ g[n] \in Word(w)
    BY <1>2, <1>3, <1>4, <2>1, <2>2, ShiftIs
  <2>4. ASSUME NEW i \in 1 .. w PROVE g[n][i] = Shift(w, p, g[n - 1], 0)[i]
    <3>1. /\ Shift(w, p, g[n - 1], 0)[i] =
               Flip(IF i < w THEN h(n - 1)[i + 1] ELSE 0, IF h(n - 1)[1] = 1 THEN p[i] ELSE 0)
      BY <2>1 DEF Shift
    <3>2. i < w => h(n - 1)[i + 1] = Flip(f[n][i + 1], IF i = w - n THEN b ELSE 0)
      <4>1. SUFFICES ASSUME i < w PROVE h(n - 1)[i + 1] = Flip(f[n][i + 1], IF i = w - n THEN b ELSE 0)
        OBVIOUS
      <4>2. i + 1 \in 1 .. w /\ (i + 1 = w - (n - 1) <=> i = w - n)
        BY <4>1
      <4> QED BY <2>2, <4>2
    <3>3. h(n - 1)[1] = Flip(f[n][1], IF n = w THEN b ELSE 0)
      <4>1. 1 = w - (n - 1) <=> n = w
        OBVIOUS
      <4> QED BY <1>2, <2>2, <4>1
    <3>4. f[n][1] \in Bit /\ p[i] \in Bit /\ f[n] \in Word(w) /\ (i < w => f[n][i + 1] \in Bit)
      <4>1. i < w => i + 1 \in 1 .. w
        OBVIOUS
      <4> QED BY <1>2, <1>3, <2>1, <4>1
    <3>5. CASE n = w
      <4>1. g[n][i] = Flip(IF i < w THEN x[i + 1] ELSE 0, IF x[1] # b THEN p[i] ELSE 0)
        BY <2>1, <3>5 DEF Feed
      <4>2. f[n] = x /\ i # w - n
        BY <1>1, <3>5
      <4> QED BY <3>1, <3>2, <3>3, <3>4, <3>5, <4>1, <4>2 DEF Flip, Bit
    <3>6. CASE n # w
      <4>1. /\ g[n][i] = Flip(Z(n)[i], IF i = w - n THEN b ELSE 0)
            /\ Z(n)[i] = Flip(IF i < w THEN f[n][i + 1] ELSE 0, IF f[n][1] = 1 THEN p[i] ELSE 0)
        BY <1>3, <2>1, <3>6
      <4>2. i = w - n => i < w
        OBVIOUS
      <4> QED BY <3>1, <3>2, <3>3, <3>4, <3>6, <4>1, <4>2 DEF Flip, Bit
    <3> QED BY <3>5, <3>6
  <2> QED BY <2>3, <2>4, SameWords
<1> HIDE DEF g
<1>9. Empties(g, w, p, Shift(w, p, r, b))
  BY <1>5, <1>6, <1>8 DEF Empties
<1> QED BY <1>7, <1>9 DEF Pads

(* The reference takes a byte at a time: adds it to the first bits and     *)
(* shifts eight zeros in.  That is to feed it bit by bit.                  *)
Divides(w, p, x, d, y) ==
  \E t \in [0 .. 8 -> Word(w)] :
    /\ \A i \in 1 .. w : t[0][i] = Flip(x[i], IF i <= 8 THEN d[i] ELSE 0)
    /\ \A j \in 1 .. 8 : t[j] = Shift(w, p, t[j - 1], 0)
    /\ t[8] = y

LEMMA DividesFeeds ==
  ASSUME NEW w \in Nat, w >= 8, NEW p \in Word(w), NEW x \in Word(w), NEW d \in Word(8), NEW y, Divides(w, p, x, d, y)
  PROVE  \E f \in [0 .. 8 -> Word(w)] : f[0] = x /\ f[8] = y /\ \A j \in 1 .. 8 : f[j] = Feed(w, p, f[j - 1], d[j])
<1>1. PICK t \in [0 .. 8 -> Word(w)] :
        /\ \A i \in 1 .. w : t[0][i] = Flip(x[i], IF i <= 8 THEN d[i] ELSE 0)
        /\ \A j \in 1 .. 8 : t[j] = Shift(w, p, t[j - 1], 0)
        /\ t[8] = y
  BY DEF Divides
<1>2. \A j \in 1 .. 8 : d[j] \in Bit
  BY DEF Word
<1> DEFINE X == Word(w)
           G == [j \in 1 .. 8 |-> [r \in X |-> Feed(w, p, r, d[j])]]
<1>3. G \in [1 .. 8 -> [X -> X]]
  <2>1. w \in Nat \ {0}
    OBVIOUS
  <2> QED BY <1>2, <2>1, ShiftIs
<1>4. PICK f \in [0 .. 8 -> X] : f[0] = x /\ \A j \in 1 .. 8 : f[j] = G[j][f[j - 1]]
  <2> HIDE DEF X, G
  <2>1. x \in X
    BY DEF X
  <2>2. \E f : Runs(f, X, x, G, 8)
    BY <1>3, <2>1, Loops
  <2> QED BY <2>2 DEF Runs
<1>5. ASSUME NEW j \in 1 .. 8 PROVE f[j] = Feed(w, p, f[j - 1], d[j]) /\ j - 1 \in 0 .. 8
  <2>1. j - 1 \in 0 .. 8
    OBVIOUS
  <2>2. f[j - 1] \in X
    BY <2>1
  <2> HIDE DEF X
  <2> QED BY <1>4, <2>1, <2>2
<1> DEFINE Rest(j, i) == IF i + j <= 8 THEN d[i + j] ELSE 0
           J == {j \in 0 .. 8 : \A i \in 1 .. w : t[j][i] = Flip(f[j][i], Rest(j, i))}
<1>6. 0 \in J
  BY <1>1, <1>4
<1>7. ASSUME NEW j \in 1 .. 8, j - 1 \in J PROVE j \in J
  <2>1. j - 1 \in 0 .. 8 /\ \A i \in 1 .. w : t[j - 1][i] = Flip(f[j - 1][i], Rest(j - 1, i))
    BY <1>7
  <2>2. \A i \in 1 .. w : f[j - 1][i] \in Bit /\ p[i] \in Bit /\ Rest(j - 1, i) \in Bit
    <3>1. f[j - 1] \in Word(w)
      BY <2>1
    <3>2. \A i \in 1 .. w : i + (j - 1) <= 8 => i + (j - 1) \in 1 .. 8
      OBVIOUS
    <3> QED BY <1>2, <3>1, <3>2 DEF Word, Bit
  <2>3. ASSUME NEW i \in 1 .. w PROVE t[j][i] = Flip(f[j][i], Rest(j, i))
    <3>1. t[j][i] = Flip(IF i < w THEN t[j - 1][i + 1] ELSE 0, IF t[j - 1][1] = 1 THEN p[i] ELSE 0)
      BY SMTT(30), <1>1 DEF Shift
    <3>2. f[j][i] = Flip(IF i < w THEN f[j - 1][i + 1] ELSE 0, IF f[j - 1][1] # d[j] THEN p[i] ELSE 0)
      BY <1>5 DEF Feed
    <3>3. t[j - 1][1] = Flip(f[j - 1][1], d[j]) /\ d[j] \in Bit /\ f[j - 1][1] \in Bit /\ p[i] \in Bit
      <4>1. 1 \in 1 .. w /\ 1 + (j - 1) = j /\ j <= 8
        OBVIOUS
      <4>2. Rest(j - 1, 1) = d[j]
        BY <4>1
      <4> QED BY <1>2, <2>1, <2>2, <4>1, <4>2
    <3>4. CASE i < w
      <4>1. i + 1 \in 1 .. w /\ i + 1 + (j - 1) = i + j
        BY <3>4
      <4>2. Rest(j - 1, i + 1) = Rest(j, i)
        BY <4>1
      <4>3. t[j - 1][i + 1] = Flip(f[j - 1][i + 1], Rest(j, i)) /\ f[j - 1][i + 1] \in Bit /\ Rest(j, i) \in Bit
        BY <2>1, <2>2, <4>1, <4>2
      <4> HIDE DEF Rest
      <4> QED BY <3>1, <3>2, <3>3, <3>4, <4>3 DEF Flip, Bit
    <3>5. CASE ~ (i < w)
      <4>1. ~ (i + j <= 8)
        BY <3>5
      <4>2. Rest(j, i) = 0
        BY <4>1
      <4> HIDE DEF Rest
      <4> QED BY <3>1, <3>2, <3>3, <3>5, <4>2 DEF Flip, Bit
    <3> QED BY <3>4, <3>5
  <2> QED BY <2>3
<1> HIDE DEF J
<1>8. \A j \in 0 .. 8 : j \in J
  BY <1>6, <1>7, UpTheNumbers
<1>9. 8 \in J
  BY <1>8
<1>10. t[8] \in Word(w) /\ f[8] \in Word(w) /\ \A i \in 1 .. w : t[8][i] = f[8][i]
  <2>1. 8 \in 0 .. 8 /\ \A i \in 1 .. w : t[8][i] = Flip(f[8][i], 0)
    BY <1>9 DEF J
  <2>2. f[8] \in Word(w) /\ t[8] \in Word(w)
    BY <2>1
  <2> QED BY <2>1, <2>2 DEF Word, Bit, Flip
<1>11. f[8] = y
  BY <1>1, <1>10, SameWords
<1> QED BY <1>4, <1>5, <1>11

(* A byte later the two agree again.                                       *)
LEMMA PadsByte ==
  ASSUME NEW w \in Nat, w >= 8, NEW p \in Word(w), NEW d \in Word(8), NEW x \in Word(w), NEW y, Divides(w, p, x, d, y),
         NEW s \in [0 .. 8 -> Word(w)], Pads(w, p, s[0], x), \A j \in 1 .. 8 : s[j] = Shift(w, p, s[j - 1], d[j])
  PROVE  Pads(w, p, s[8], y)
<1>1. PICK f \in [0 .. 8 -> Word(w)] : f[0] = x /\ f[8] = y /\ \A j \in 1 .. 8 : f[j] = Feed(w, p, f[j - 1], d[j])
  BY DividesFeeds
<1>2. w \in Nat \ {0} /\ \A j \in 1 .. 8 : d[j] \in Bit
  BY DEF Word
<1> DEFINE J == {j \in 0 .. 8 : Pads(w, p, s[j], f[j])}
<1>3. 0 \in J
  BY <1>1
<1>4. ASSUME NEW j \in 1 .. 8, j - 1 \in J PROVE j \in J
  <2>1. j - 1 \in 0 .. 8 /\ Pads(w, p, s[j - 1], f[j - 1])
    BY <1>4
  <2>2. s[j - 1] \in Word(w) /\ d[j] \in Bit
    BY <1>2, <2>1
  <2>3. Pads(w, p, Shift(w, p, s[j - 1], d[j]), Feed(w, p, f[j - 1], d[j]))
    BY <1>2, <2>1, <2>2, PadsFeed
  <2> QED BY <1>1, <2>3
<1> HIDE DEF J
<1>5. \A j \in 0 .. 8 : j \in J
  BY <1>3, <1>4, UpTheNumbers
<1>6. 8 \in J
  BY <1>5
<1> QED BY <1>1, <1>6 DEF J

LEMMA BitsOfByte ==
  ASSUME NEW bytes, NEW i \in Nat \ {0}, NEW j \in 1 .. 8
  PROVE  BitOf(bytes, 8 * (i - 1) + j) = bytes[i][j]
<1>1. ((8 * (i - 1) + j - 1) \div 8) + 1 = i /\ ((8 * (i - 1) + j - 1) % 8) + 1 = j
  OBVIOUS
<1> QED BY <1>1 DEF BitOf

LEMMA BitOfByte ==
  ASSUME NEW N \in Nat, NEW bytes \in [1 .. N -> Word(8)], NEW k \in 1 .. 8 * N
  PROVE  BitOf(bytes, k) \in Bit
<1>1. ((k - 1) \div 8) + 1 \in 1 .. N /\ ((k - 1) % 8) + 1 \in 1 .. 8
  OBVIOUS
<1> QED BY <1>1 DEF BitOf, Word

(* The registers f[0], f[1], ... that a message is shifted into.           *)
ShiftsIn(f, w, p, N, bytes, seed) ==
  /\ f \in [0 .. 8 * N -> Word(w)] /\ f[0] = seed
  /\ \A k \in 1 .. 8 * N : f[k] = Shift(w, p, f[k - 1], BitOf(bytes, k))

(* The register that takes the message, with zeros behind it, and the      *)
(* reference agree behind every byte if they do so at the start.           *)
LEMMA Agree ==
  ASSUME NEW w \in Nat, w >= 8, NEW p \in Word(w), NEW N \in Nat, NEW bytes \in [1 .. N -> Word(8)],
         NEW S, NEW seed, ShiftsIn(S, w, p, N, bytes, seed),
         NEW R \in [0 .. N -> Word(w)], \A i \in 1 .. N : Divides(w, p, R[i - 1], bytes[i], R[i]),
         Pads(w, p, seed, R[0])
  PROVE  Pads(w, p, S[8 * N], R[N])
<1>0. /\ S \in [0 .. 8 * N -> Word(w)] /\ S[0] = seed
      /\ \A k \in 1 .. 8 * N : S[k] = Shift(w, p, S[k - 1], BitOf(bytes, k))
  BY DEF ShiftsIn
<1> DEFINE J == {i \in 0 .. N : Pads(w, p, S[8 * i], R[i])}
<1>1. 0 \in J
  <2>1. 8 * 0 = 0 /\ 0 \in 0 .. N
    OBVIOUS
  <2> QED BY <1>0, <2>1
<1>2. ASSUME NEW i \in 1 .. N, i - 1 \in J PROVE i \in J
  <2> DEFINE s == [j \in 0 .. 8 |-> S[8 * (i - 1) + j]]
  <2>1. \A j \in 0 .. 8 : 8 * (i - 1) + j \in 0 .. 8 * N
    OBVIOUS
  <2>2. s \in [0 .. 8 -> Word(w)]
    BY <1>0, <2>1
  <2>3. ASSUME NEW j \in 1 .. 8 PROVE s[j] = Shift(w, p, s[j - 1], bytes[i][j])
    <3>1. /\ j - 1 \in 0 .. 8 /\ j \in 0 .. 8 /\ 8 * (i - 1) + j \in 1 .. 8 * N
          /\ 8 * (i - 1) + j - 1 = 8 * (i - 1) + (j - 1)
      OBVIOUS
    <3>2. BitOf(bytes, 8 * (i - 1) + j) = bytes[i][j]
      <4>1. i \in Nat \ {0}
        OBVIOUS
      <4> QED BY <4>1, BitsOfByte
    <3>3. S[8 * (i - 1) + j] = Shift(w, p, S[8 * (i - 1) + j - 1], BitOf(bytes, 8 * (i - 1) + j))
      BY <1>0, <3>1
    <3> QED BY <3>1, <3>2, <3>3
  <2>4. s[0] = S[8 * (i - 1)] /\ s[8] = S[8 * i]
    <3>1. 8 * (i - 1) + 0 = 8 * (i - 1) /\ 8 * (i - 1) + 8 = 8 * i
      OBVIOUS
    <3> QED BY <3>1
  <2>5. i - 1 \in 0 .. N /\ R[i - 1] \in Word(w) /\ Pads(w, p, S[8 * (i - 1)], R[i - 1])
    BY <1>2
  <2>6. bytes[i] \in Word(8) /\ Divides(w, p, R[i - 1], bytes[i], R[i])
    OBVIOUS
  <2> HIDE DEF s
  <2>7. Pads(w, p, s[8], R[i])
    BY <2>2, <2>3, <2>4, <2>5, <2>6, PadsByte
  <2> QED BY <2>4, <2>7
<1> HIDE DEF J
<1>3. \A i \in 0 .. N : i \in J
  BY <1>1, <1>2, UpTheNumbers
<1>4. N \in J
  BY <1>3
<1> QED BY <1>4 DEF J

-----------------------------------------------------------------------------
(* What a transfer of the DMA does to the register.                        *)

Takes(nth, w, p, N, bytes, seed) ==
  \E f : /\ ShiftsIn(f, w, p, N, bytes, seed)
         /\ DmaChnMemCrc(nth, bytes, p, seed) = [ok |-> nth # dma, crc |-> f[8 * N]]

LEMMA DmaIs ==
  ASSUME NEW w \in Nat \ {0}, NEW p \in Word(w), NEW N \in Nat, NEW bytes \in [1 .. N -> Word(8)],
         NEW seed \in Word(w), NEW nth
  PROVE  Takes(nth, w, p, N, bytes, seed)
<1> DEFINE M == 8 * N
           X == Word(w)
           G == [k \in 1 .. M |-> [r \in X |-> Shift(w, p, r, BitOf(bytes, k))]]
           Register == CHOOSE f : f = [k \in 0 .. 8 * Len(bytes) |->
                         IF k = 0 THEN seed ELSE ShiftIn(f[k - 1], BitOf(bytes, k), p)]
<1>1. Len(bytes) = N /\ M \in Nat /\ M = 8 * Len(bytes)
  BY WordIs
<1>2. \A k \in 1 .. M : BitOf(bytes, k) \in Bit
  BY BitOfByte
<1>3. G \in [1 .. M -> [X -> X]]
  BY <1>2, ShiftIs
<1>4. PICK f : Runs(f, X, seed, G, M)
  <2> HIDE DEF X, G, M
  <2>1. seed \in X
    BY DEF X
  <2> QED BY <1>1, <1>3, <2>1, Loops
<1>5. f \in [0 .. M -> X] /\ f[0] = seed /\ \A k \in 1 .. M : f[k] = G[k][f[k - 1]]
  BY <1>4 DEF Runs
<1>6. ASSUME NEW k \in 1 .. M
      PROVE  /\ f[k] = Shift(w, p, f[k - 1], BitOf(bytes, k))
             /\ f[k] = ShiftIn(f[k - 1], BitOf(bytes, k), p)
             /\ k \in 0 .. M /\ k - 1 \in 0 .. M /\ k # 0
  <2>1. k \in 0 .. M /\ k - 1 \in 0 .. M /\ k # 0
    BY <1>1
  <2>2. f[k - 1] \in X
    BY <1>5, <2>1
  <2>3. f[k] = Shift(w, p, f[k - 1], BitOf(bytes, k))
    BY <1>5, <2>2
  <2> HIDE DEF M
  <2> QED BY <1>2, <2>1, <2>2, <2>3, ShiftIs DEF X
<1> HIDE DEF M, X, G
<1>7. f = [k \in 0 .. M |-> IF k = 0 THEN seed ELSE ShiftIn(f[k - 1], BitOf(bytes, k), p)]
  <2>1. ASSUME NEW k \in 0 .. M PROVE f[k] = IF k = 0 THEN seed ELSE ShiftIn(f[k - 1], BitOf(bytes, k), p)
    <3>1. k # 0 => k \in 1 .. M
      BY <1>1
    <3> QED BY <1>5, <1>6, <3>1
  <2> QED BY <1>5, <2>1
<1>8. Register = [k \in 0 .. M |-> IF k = 0 THEN seed ELSE ShiftIn(Register[k - 1], BitOf(bytes, k), p)]
  BY <1>1, <1>7, Zenon
<1>9. DmaChnMemCrc(nth, bytes, p, seed) = [ok |-> nth # dma, crc |-> Register[8 * Len(bytes)]]
  BY DEF DmaChnMemCrc
<1> HIDE DEF Register
<1> DEFINE J == {k \in 0 .. M : Register[k] = f[k]}
<1>10. 0 \in J
  <2>1. 0 \in 0 .. M
    BY <1>1
  <2> QED BY <1>5, <1>8, <2>1
<1>11. ASSUME NEW k \in 1 .. M, k - 1 \in J PROVE k \in J
  BY <1>6, <1>8, <1>11
<1> HIDE DEF J
<1>12. \A k \in 0 .. M : k \in J
  BY <1>1, <1>10, <1>11, UpTheNumbers
<1>13. Register[M] = f[M]
  <2>1. M \in 0 .. M
    BY <1>1
  <2> QED BY <1>12, <2>1 DEF J
<1>14. ShiftsIn(f, w, p, N, bytes, seed)
  BY <1>5, <1>6 DEF M, X, ShiftsIn
<1> HIDE DEF G
<1> QED BY <1>1, <1>9, <1>13, <1>14 DEF M, Takes

(* A transfer of bytes a + 1 .. a + n of a message takes the register from *)
(* where it is behind a bytes to where it is behind a + n.                 *)
PartOf(part, a, n, bytes, N) ==
  /\ a \in Nat /\ n \in Nat /\ a + n <= N /\ bytes \in [1 .. N -> Word(8)]
  /\ part \in [1 .. n -> Word(8)] /\ \A i \in 1 .. n : part[i] = bytes[a + i]
GoesOn(nth, part, p, S, a, n) ==
  DmaChnMemCrc(nth, part, p, S[8 * a]) = [ok |-> nth # dma, crc |-> S[8 * (a + n)]]

LEMMA DmaGoesOn ==
  ASSUME NEW w \in Nat \ {0}, NEW p \in Word(w), NEW N \in Nat, NEW bytes, NEW S, NEW seed,
         ShiftsIn(S, w, p, N, bytes, seed), NEW a, NEW n, NEW part, PartOf(part, a, n, bytes, N), NEW nth
  PROVE  GoesOn(nth, part, p, S, a, n)
<1>0. /\ a \in Nat /\ n \in Nat /\ a + n <= N /\ bytes \in [1 .. N -> Word(8)]
      /\ part \in [1 .. n -> Word(8)] /\ \A i \in 1 .. n : part[i] = bytes[a + i]
  BY DEF PartOf
<1>1. /\ S \in [0 .. 8 * N -> Word(w)] /\ 8 * a \in 0 .. 8 * N /\ S[8 * a] \in Word(w)
      /\ \A k \in 1 .. 8 * N : S[k] = Shift(w, p, S[k - 1], BitOf(bytes, k))
  BY <1>0 DEF ShiftsIn
<1>2. PICK f : /\ ShiftsIn(f, w, p, n, part, S[8 * a])
               /\ DmaChnMemCrc(nth, part, p, S[8 * a]) = [ok |-> nth # dma, crc |-> f[8 * n]]
  <2>1. Takes(nth, w, p, n, part, S[8 * a])
    BY <1>0, <1>1, DmaIs
  <2> QED BY <2>1 DEF Takes
<1>3. ASSUME NEW k \in 1 .. 8 * n PROVE BitOf(part, k) = BitOf(bytes, 8 * a + k)
  <2> DEFINE q == ((k - 1) \div 8) + 1
             m == ((k - 1) % 8) + 1
  <2>1. q \in 1 .. n /\ ((8 * a + k - 1) \div 8) + 1 = a + q /\ ((8 * a + k - 1) % 8) + 1 = m
    BY <1>0
  <2>2. BitOf(part, k) = part[q][m]
    BY DEF BitOf
  <2>3. BitOf(bytes, 8 * a + k) = bytes[a + q][m]
    BY <1>0, <2>1 DEF BitOf
  <2> HIDE DEF q, m
  <2> QED BY <1>0, <2>1, <2>2, <2>3
<1> DEFINE J == {k \in 0 .. 8 * n : f[k] = S[8 * a + k]}
<1>4. 0 \in J
  BY <1>0, <1>1, <1>2 DEF ShiftsIn
<1>5. ASSUME NEW k \in 1 .. 8 * n, k - 1 \in J PROVE k \in J
  <2>1. k \in 0 .. 8 * n /\ 8 * a + k \in 1 .. 8 * N /\ 8 * a + k - 1 = 8 * a + (k - 1)
    BY <1>0
  <2>2. f[k - 1] = S[8 * a + (k - 1)]
    BY <1>5
  <2>3. S[8 * a + k] = Shift(w, p, S[8 * a + k - 1], BitOf(bytes, 8 * a + k))
    BY <1>1, <2>1
  <2>4. f[k] = Shift(w, p, f[k - 1], BitOf(part, k))
    BY <1>2 DEF ShiftsIn
  <2>5. f[k] = S[8 * a + k]
    BY <1>3, <2>1, <2>2, <2>3, <2>4
  <2> QED BY <2>1, <2>5
<1> HIDE DEF J
<1>6. 8 * n \in Nat
  BY <1>0
<1>7. \A k \in 0 .. 8 * n : k \in J
  BY <1>4, <1>5, <1>6, UpTheNumbers
<1>8. 8 * n \in J
  BY <1>6, <1>7
<1>9. f[8 * n] = S[8 * (a + n)]
  <2>1. 8 * a + 8 * n = 8 * (a + n)
    BY <1>0
  <2> QED BY <1>8, <2>1 DEF J
<1> QED BY <1>2, <1>9 DEF GoesOn

(* A transfer of as many zeros as the register is long.                    *)
LEMMA DmaPads ==
  ASSUME NEW w \in Nat \ {0}, NEW p \in Word(w), NEW n \in Nat, w = 8 * n,
         NEW bytes \in [1 .. n -> Word(8)], \A i \in 1 .. n, j \in 1 .. 8 : bytes[i][j] = 0,
         NEW r \in Word(w), NEW x, Pads(w, p, r, x), NEW nth
  PROVE  DmaChnMemCrc(nth, bytes, p, r) = [ok |-> nth # dma, crc |-> x]
<1>1. PICK f : /\ ShiftsIn(f, w, p, n, bytes, r)
               /\ DmaChnMemCrc(nth, bytes, p, r) = [ok |-> nth # dma, crc |-> f[8 * n]]
  <2>1. Takes(nth, w, p, n, bytes, r)
    BY DmaIs
  <2> QED BY <2>1 DEF Takes
<1>2. \A k \in 1 .. 8 * n : BitOf(bytes, k) = 0
  <2>1. \A k \in 1 .. 8 * n : ((k - 1) \div 8) + 1 \in 1 .. n /\ ((k - 1) % 8) + 1 \in 1 .. 8
    OBVIOUS
  <2> QED BY <2>1 DEF BitOf
<1>3. Empties(f, w, p, r)
  BY <1>1, <1>2 DEF ShiftsIn, Empties
<1>4. f[w] = x
  BY <1>3, PadsOnce
<1> QED BY <1>1, <1>4

-----------------------------------------------------------------------------
(* The words the checksums are made with, and a byte's bits.               *)

OnesAt(w, I) == [i \in 1 .. w |-> IF i \in I THEN 1 ELSE 0]

LEMMA OnesAtIs == ASSUME NEW w, NEW I PROVE OnesAt(w, I) \in Word(w)
BY DEF OnesAt, Word, Bit

Poly16 == {4, 11, 16}
Poly32 == {6, 9, 10, 16, 20, 21, 22, 24, 25, 27, 28, 30, 31, 32}
Seed16 == {1, 6, 9, 10, 13, 14, 15, 16}
Seed32 == {2, 6, 7, 9, 11, 13, 14, 15, 16, 18, 19, 22, 26, 29, 32}

LEMMA Word16 == crc16_polynomial = OnesAt(16, Poly16)
<1>1. crc16_polynomial \in [1 .. 16 -> Bit]
  BY DEF crc16_polynomial, Bit
<1>2. ASSUME NEW i \in 1 .. 16 PROVE crc16_polynomial[i] = OnesAt(16, Poly16)[i]
  BY DEF crc16_polynomial, OnesAt, Poly16
<1>3. OnesAt(16, Poly16) \in [1 .. 16 -> Bit]
  BY OnesAtIs DEF Word
<1> QED BY <1>1, <1>2, <1>3

LEMMA Start16 == crc16_converted_seed = OnesAt(16, Seed16)
<1>1. crc16_converted_seed \in [1 .. 16 -> Bit]
  BY DEF crc16_converted_seed, Bit
<1>2. ASSUME NEW i \in 1 .. 16 PROVE crc16_converted_seed[i] = OnesAt(16, Seed16)[i]
  BY DEF crc16_converted_seed, OnesAt, Seed16
<1>3. OnesAt(16, Seed16) \in [1 .. 16 -> Bit]
  BY OnesAtIs DEF Word
<1> QED BY <1>1, <1>2, <1>3

LEMMA Word32 == crc32_polynomial = OnesAt(32, Poly32)
<1>1. crc32_polynomial \in [1 .. 32 -> Bit]
  BY DEF crc32_polynomial, Bit
<1>2. ASSUME NEW i \in 1 .. 32 PROVE crc32_polynomial[i] = OnesAt(32, Poly32)[i]
  BY DEF crc32_polynomial, OnesAt, Poly32
<1>3. OnesAt(32, Poly32) \in [1 .. 32 -> Bit]
  BY OnesAtIs DEF Word
<1> QED BY <1>1, <1>2, <1>3

LEMMA Start32 == crc32_converted_seed = OnesAt(32, Seed32)
<1>1. crc32_converted_seed \in [1 .. 32 -> Bit]
  BY DEF crc32_converted_seed, Bit
<1>2. ASSUME NEW i \in 1 .. 32 PROVE crc32_converted_seed[i] = OnesAt(32, Seed32)[i]
  BY DEF crc32_converted_seed, OnesAt, Seed32
<1>3. OnesAt(32, Seed32) \in [1 .. 32 -> Bit]
  BY OnesAtIs DEF Word
<1> QED BY <1>1, <1>2, <1>3

(* 0xedb88320 is the polynomial turned round.                              *)
LEMMA Mirror32 == Edb88320 \in Word(32) /\ \A i \in 1 .. 32 : Edb88320[33 - i] = crc32_polynomial[i]
<1>1. Edb88320 \in [1 .. 32 -> Bit]
  BY DEF Edb88320, Bit
<1>2. ASSUME NEW i \in 1 .. 32 PROVE Edb88320[i] = IF 33 - i \in Poly32 THEN 1 ELSE 0
  BY DEF Edb88320, Poly32
<1>3. ASSUME NEW i \in 1 .. 32 PROVE Edb88320[33 - i] = crc32_polynomial[i]
  <2>1. 33 - i \in 1 .. 32 /\ 33 - (33 - i) = i
    OBVIOUS
  <2>2. Edb88320[33 - i] = IF i \in Poly32 THEN 1 ELSE 0
    BY <1>2, <2>1
  <2> QED BY <2>2, Word32 DEF OnesAt
<1> QED BY <1>1, <1>3 DEF Word

LEMMA TheWords ==
  /\ crc16_polynomial \in Word(16) /\ crc16_converted_seed \in Word(16)
  /\ crc32_polynomial \in Word(32) /\ crc32_converted_seed \in Word(32)
  /\ \A w \in Nat : Ones(w) \in Word(w) /\ Ones(w) = OnesAt(w, 1 .. w)
BY Word16, Start16, Word32, Start32, OnesAtIs DEF Ones, OnesAt, Word, Bit

LEMMA BitsAre ==
  ASSUME NEW n \in Nat, NEW w \in Nat
  PROVE  Bits(n, w) \in Word(w) /\ (n = 0 => \A i \in 1 .. w : Bits(n, w)[i] = 0)
<1> DEFINE H == CHOOSE f : f = [k \in 0 .. w |-> IF k = 0 THEN n ELSE f[k - 1] \div 2]
           G == [k \in 1 .. w |-> [x \in Nat |-> x \div 2]]
<1>1. G \in [1 .. w -> [Nat -> Nat]]
  OBVIOUS
<1>2. PICK f : Runs(f, Nat, n, G, w)
  <2> HIDE DEF G
  <2> QED BY <1>1, Loops
<1>3. f \in [0 .. w -> Nat] /\ f[0] = n /\ \A k \in 1 .. w : k - 1 \in 0 .. w /\ f[k] = f[k - 1] \div 2
  <2>1. \A k \in 1 .. w : k - 1 \in 0 .. w
    OBVIOUS
  <2>2. f \in [0 .. w -> Nat] /\ f[0] = n /\ \A k \in 1 .. w : f[k] = G[k][f[k - 1]]
    BY <1>2 DEF Runs
  <2>3. \A k \in 1 .. w : f[k - 1] \in Nat
    BY <2>1, <2>2
  <2> QED BY <2>1, <2>2, <2>3
<1>4. f = [k \in 0 .. w |-> IF k = 0 THEN n ELSE f[k - 1] \div 2]
  <2>1. ASSUME NEW k \in 0 .. w PROVE f[k] = IF k = 0 THEN n ELSE f[k - 1] \div 2
    <3>1. k # 0 => k \in 1 .. w
      OBVIOUS
    <3> QED BY <1>3, <3>1
  <2> QED BY <1>3, <2>1
<1>5. H = [k \in 0 .. w |-> IF k = 0 THEN n ELSE H[k - 1] \div 2]
  BY <1>4, Zenon
<1>6. Bits(n, w) = [i \in 1 .. w |-> H[w - i] % 2]
  BY DEF Bits
<1> HIDE DEF H
<1> DEFINE J == {k \in 0 .. w : H[k] \in Nat /\ (n = 0 => H[k] = 0)}
<1>7. 0 \in J
  BY <1>5
<1>8. ASSUME NEW k \in 1 .. w, k - 1 \in J PROVE k \in J
  <2>1. H[k] = H[k - 1] \div 2 /\ H[k - 1] \in Nat /\ (n = 0 => H[k - 1] = 0)
    BY <1>5, <1>8
  <2> QED BY <2>1
<1> HIDE DEF J
<1>9. \A k \in 0 .. w : k \in J
  BY <1>7, <1>8, UpTheNumbers
<1>10. ASSUME NEW i \in 1 .. w PROVE H[w - i] % 2 \in Bit /\ (n = 0 => H[w - i] % 2 = 0)
  <2>1. w - i \in 0 .. w
    OBVIOUS
  <2>2. H[w - i] \in Nat /\ (n = 0 => H[w - i] = 0)
    BY <1>9, <2>1 DEF J
  <2> QED BY <2>2 DEF Bit
<1> QED BY <1>6, <1>10 DEF Word

LEMMA ReverseIs ==
  ASSUME NEW w \in Nat, NEW S, NEW r \in [1 .. w -> S]
  PROVE  /\ Reverse(r) \in [1 .. w -> S]
         /\ \A i \in 1 .. w : Reverse(r)[i] = r[w + 1 - i] /\ w + 1 - i \in 1 .. w
         /\ Reverse(Reverse(r)) = r
<1>1. ASSUME NEW s \in [1 .. w -> S]
      PROVE  Reverse(s) \in [1 .. w -> S] /\ \A i \in 1 .. w : Reverse(s)[i] = s[w + 1 - i] /\ w + 1 - i \in 1 .. w
  <2>1. Len(s) = w
    BY WordIs
  <2>2. \A i \in 1 .. w : w + 1 - i \in 1 .. w /\ w - i + 1 = w + 1 - i
    OBVIOUS
  <2>3. Reverse(s) = [i \in 1 .. w |-> s[w - i + 1]]
    BY <2>1 DEF Reverse
  <2> QED BY <2>2, <2>3
<1>2. Reverse(r) \in [1 .. w -> S] /\ Reverse(Reverse(r)) \in [1 .. w -> S]
  BY <1>1
<1>3. ASSUME NEW i \in 1 .. w PROVE Reverse(Reverse(r))[i] = r[i]
  <2>1. w + 1 - i \in 1 .. w /\ w + 1 - (w + 1 - i) = i
    OBVIOUS
  <2>2. Reverse(Reverse(r))[i] = Reverse(r)[w + 1 - i]
    BY <1>1, <1>2
  <2>3. Reverse(r)[w + 1 - i] = r[w + 1 - (w + 1 - i)]
    BY <1>1, <2>1
  <2> QED BY <2>1, <2>2, <2>3
<1>4. Reverse(Reverse(r)) = r
  BY <1>2, <1>3
<1> QED BY <1>1, <1>4

-----------------------------------------------------------------------------
(* The converted seeds: with as many zeros behind them as the register is  *)
(* long they make the ones the usual checksums start with.                 *)

LEMMA EmptiesAre ==
  ASSUME NEW w \in Nat \ {0}, NEW p \in Word(w), NEW r \in Word(w)
  PROVE  \E f : Empties(f, w, p, r)
<1> DEFINE X == Word(w)
           G == [n \in 1 .. w |-> [x \in X |-> Shift(w, p, x, 0)]]
<1>1. G \in [1 .. w -> [X -> X]]
  <2>1. 0 \in Bit
    BY DEF Bit
  <2> QED BY <2>1, ShiftIs
<1>2. PICK f : Runs(f, X, r, G, w)
  <2> HIDE DEF X, G
  <2>1. r \in X
    BY DEF X
  <2> QED BY <1>1, <2>1, Loops
<1>3. f \in [0 .. w -> X] /\ f[0] = r /\ \A n \in 1 .. w : f[n] = G[n][f[n - 1]]
  BY <1>2 DEF Runs
<1>4. ASSUME NEW n \in 1 .. w PROVE f[n] = Shift(w, p, f[n - 1], 0)
  <2>1. n - 1 \in 0 .. w
    OBVIOUS
  <2>2. f[n - 1] \in X
    BY <1>3, <2>1
  <2> HIDE DEF X
  <2> QED BY <1>3, <2>2
<1>5. Empties(f, w, p, r)
  BY <1>3, <1>4 DEF Empties
<1> QED BY <1>5

LEMMA StartPads16 == Pads(16, crc16_polynomial, crc16_converted_seed, Ones(16))
<1> DEFINE W(I) == OnesAt(16, I)
<1>0. PICK f : Empties(f, 16, crc16_polynomial, crc16_converted_seed)
  BY TheWords, EmptiesAre
<1> DEFINE Next(n) == f[n + 1] = Shift(16, W(Poly16), f[n], 0)
<1>a. f[0] = W(Seed16)
  BY <1>0, Start16 DEF Empties
<1>b. \A n \in 0 .. 15 : Next(n)
  <2>1. \A n \in 0 .. 15 : n + 1 \in 1 .. 16 /\ n + 1 - 1 = n
    OBVIOUS
  <2> QED BY <1>0, <2>1, Word16 DEF Empties
<1>1. f[1] = W({4, 5, 8, 9, 11, 12, 13, 14, 15, 16})
  <2>1. Next(0)  BY <1>b
  <2> QED BY <1>a, <2>1 DEF Shift, OnesAt, Flip, Poly16, Seed16
<1>2. f[2] = W({3, 4, 7, 8, 10, 11, 12, 13, 14, 15})
  <2>1. Next(1)  BY <1>b
  <2> QED BY <1>1, <2>1 DEF Shift, OnesAt, Flip, Poly16
<1>3. f[3] = W({2, 3, 6, 7, 9, 10, 11, 12, 13, 14})
  <2>1. Next(2)  BY <1>b
  <2> QED BY <1>2, <2>1 DEF Shift, OnesAt, Flip, Poly16
<1>4. f[4] = W({1, 2, 5, 6, 8, 9, 10, 11, 12, 13})
  <2>1. Next(3)  BY <1>b
  <2> QED BY <1>3, <2>1 DEF Shift, OnesAt, Flip, Poly16
<1>5. f[5] = W({1, 5, 7, 8, 9, 10, 12, 16})
  <2>1. Next(4)  BY <1>b
  <2> QED BY <1>4, <2>1 DEF Shift, OnesAt, Flip, Poly16
<1>6. f[6] = W({6, 7, 8, 9, 15, 16})
  <2>1. Next(5)  BY <1>b
  <2> QED BY <1>5, <2>1 DEF Shift, OnesAt, Flip, Poly16
<1>7. f[7] = W({5, 6, 7, 8, 14, 15})
  <2>1. Next(6)  BY <1>b
  <2> QED BY <1>6, <2>1 DEF Shift, OnesAt, Flip, Poly16
<1>8. f[8] = W({4, 5, 6, 7, 13, 14})
  <2>1. Next(7)  BY <1>b
  <2> QED BY <1>7, <2>1 DEF Shift, OnesAt, Flip, Poly16
<1>9. f[9] = W({3, 4, 5, 6, 12, 13})
  <2>1. Next(8)  BY <1>b
  <2> QED BY <1>8, <2>1 DEF Shift, OnesAt, Flip, Poly16
<1>10. f[10] = W({2, 3, 4, 5, 11, 12})
  <2>1. Next(9)  BY <1>b
  <2> QED BY <1>9, <2>1 DEF Shift, OnesAt, Flip, Poly16
<1>11. f[11] = W({1, 2, 3, 4, 10, 11})
  <2>1. Next(10)  BY <1>b
  <2> QED BY <1>10, <2>1 DEF Shift, OnesAt, Flip, Poly16
<1>12. f[12] = W({1, 2, 3, 4, 9, 10, 11, 16})
  <2>1. Next(11)  BY <1>b
  <2> QED BY <1>11, <2>1 DEF Shift, OnesAt, Flip, Poly16
<1>13. f[13] = W({1, 2, 3, 4, 8, 9, 10, 11, 15, 16})
  <2>1. Next(12)  BY <1>b
  <2> QED BY <1>12, <2>1 DEF Shift, OnesAt, Flip, Poly16
<1>14. f[14] = W({1, 2, 3, 4, 7, 8, 9, 10, 11, 14, 15, 16})
  <2>1. Next(13)  BY <1>b
  <2> QED BY <1>13, <2>1 DEF Shift, OnesAt, Flip, Poly16
<1>15. f[15] = W({1, 2, 3, 4, 6, 7, 8, 9, 10, 11, 13, 14, 15, 16})
  <2>1. Next(14)  BY <1>b
  <2> QED BY <1>14, <2>1 DEF Shift, OnesAt, Flip, Poly16
<1>16. f[16] = W(1 .. 16)
  <2>1. Next(15)  BY <1>b
  <2> QED BY <1>15, <2>1 DEF Shift, OnesAt, Flip, Poly16
<1> QED BY <1>0, <1>16, TheWords DEF Pads

LEMMA StartPads32 == Pads(32, crc32_polynomial, crc32_converted_seed, Ones(32))
<1> DEFINE W(I) == OnesAt(32, I)
<1>0. PICK f : Empties(f, 32, crc32_polynomial, crc32_converted_seed)
  BY TheWords, EmptiesAre
<1> DEFINE Next(n) == f[n + 1] = Shift(32, W(Poly32), f[n], 0)
<1>a. f[0] = W(Seed32)
  BY <1>0, Start32 DEF Empties
<1>b. \A n \in 0 .. 31 : Next(n)
  <2>1. \A n \in 0 .. 31 : n + 1 \in 1 .. 32 /\ n + 1 - 1 = n
    OBVIOUS
  <2> QED BY <1>0, <2>1, Word32 DEF Empties
<1>1. f[1] = W({1, 5, 6, 8, 10, 12, 13, 14, 15, 17, 18, 21, 25, 28, 31})
  <2>1. Next(0)  BY <1>b
  <2> QED BY <1>a, <2>1 DEF Shift, OnesAt, Flip, Poly32, Seed32
<1>2. f[2] = W({4, 5, 6, 7, 10, 11, 12, 13, 14, 17, 21, 22, 25, 28, 31, 32})
  <2>1. Next(1)  BY <1>b
  <2> QED BY <1>1, <2>1 DEF Shift, OnesAt, Flip, Poly32
<1>3. f[3] = W({3, 4, 5, 6, 9, 10, 11, 12, 13, 16, 20, 21, 24, 27, 30, 31})
  <2>1. Next(2)  BY <1>b
  <2> QED BY <1>2, <2>1 DEF Shift, OnesAt, Flip, Poly32
<1>4. f[4] = W({2, 3, 4, 5, 8, 9, 10, 11, 12, 15, 19, 20, 23, 26, 29, 30})
  <2>1. Next(3)  BY <1>b
  <2> QED BY <1>3, <2>1 DEF Shift, OnesAt, Flip, Poly32
<1>5. f[5] = W({1, 2, 3, 4, 7, 8, 9, 10, 11, 14, 18, 19, 22, 25, 28, 29})
  <2>1. Next(4)  BY <1>b
  <2> QED BY <1>4, <2>1 DEF Shift, OnesAt, Flip, Poly32
<1>6. f[6] = W({1, 2, 3, 7, 8, 13, 16, 17, 18, 20, 22, 25, 30, 31, 32})
  <2>1. Next(5)  BY <1>b
  <2> QED BY <1>5, <2>1 DEF Shift, OnesAt, Flip, Poly32
<1>7. f[7] = W({1, 2, 7, 9, 10, 12, 15, 17, 19, 20, 22, 25, 27, 28, 29, 32})
  <2>1. Next(6)  BY <1>b
  <2> QED BY <1>6, <2>1 DEF Shift, OnesAt, Flip, Poly32
<1>8. f[8] = W({1, 8, 10, 11, 14, 18, 19, 20, 22, 25, 26, 30, 32})
  <2>1. Next(7)  BY <1>b
  <2> QED BY <1>7, <2>1 DEF Shift, OnesAt, Flip, Poly32
<1>9. f[9] = W({6, 7, 13, 16, 17, 18, 19, 20, 22, 27, 28, 29, 30, 32})
  <2>1. Next(8)  BY <1>b
  <2> QED BY <1>8, <2>1 DEF Shift, OnesAt, Flip, Poly32
<1>10. f[10] = W({5, 6, 12, 15, 16, 17, 18, 19, 21, 26, 27, 28, 29, 31})
  <2>1. Next(9)  BY <1>b
  <2> QED BY <1>9, <2>1 DEF Shift, OnesAt, Flip, Poly32
<1>11. f[11] = W({4, 5, 11, 14, 15, 16, 17, 18, 20, 25, 26, 27, 28, 30})
  <2>1. Next(10)  BY <1>b
  <2> QED BY <1>10, <2>1 DEF Shift, OnesAt, Flip, Poly32
<1>12. f[12] = W({3, 4, 10, 13, 14, 15, 16, 17, 19, 24, 25, 26, 27, 29})
  <2>1. Next(11)  BY <1>b
  <2> QED BY <1>11, <2>1 DEF Shift, OnesAt, Flip, Poly32
<1>13. f[13] = W({2, 3, 9, 12, 13, 14, 15, 16, 18, 23, 24, 25, 26, 28})
  <2>1. Next(12)  BY <1>b
  <2> QED BY <1>12, <2>1 DEF Shift, OnesAt, Flip, Poly32
<1>14. f[14] = W({1, 2, 8, 11, 12, 13, 14, 15, 17, 22, 23, 24, 25, 27})
  <2>1. Next(13)  BY <1>b
  <2> QED BY <1>13, <2>1 DEF Shift, OnesAt, Flip, Poly32
<1>15. f[15] = W({1, 6, 7, 9, 11, 12, 13, 14, 20, 23, 25, 26, 27, 28, 30, 31, 32})
  <2>1. Next(14)  BY <1>b
  <2> QED BY <1>14, <2>1 DEF Shift, OnesAt, Flip, Poly32
<1>16. f[16] = W({5, 8, 9, 11, 12, 13, 16, 19, 20, 21, 26, 28, 29, 32})
  <2>1. Next(15)  BY <1>b
  <2> QED BY <1>15, <2>1 DEF Shift, OnesAt, Flip, Poly32
<1>17. f[17] = W({4, 7, 8, 10, 11, 12, 15, 18, 19, 20, 25, 27, 28, 31})
  <2>1. Next(16)  BY <1>b
  <2> QED BY <1>16, <2>1 DEF Shift, OnesAt, Flip, Poly32
<1>18. f[18] = W({3, 6, 7, 9, 10, 11, 14, 17, 18, 19, 24, 26, 27, 30})
  <2>1. Next(17)  BY <1>b
  <2> QED BY <1>17, <2>1 DEF Shift, OnesAt, Flip, Poly32
<1>19. f[19] = W({2, 5, 6, 8, 9, 10, 13, 16, 17, 18, 23, 25, 26, 29})
  <2>1. Next(18)  BY <1>b
  <2> QED BY <1>18, <2>1 DEF Shift, OnesAt, Flip, Poly32
<1>20. f[20] = W({1, 4, 5, 7, 8, 9, 12, 15, 16, 17, 22, 24, 25, 28})
  <2>1. Next(19)  BY <1>b
  <2> QED BY <1>19, <2>1 DEF Shift, OnesAt, Flip, Poly32
<1>21. f[21] = W({3, 4, 7, 8, 9, 10, 11, 14, 15, 20, 22, 23, 25, 28, 30, 31, 32})
  <2>1. Next(20)  BY <1>b
  <2> QED BY <1>20, <2>1 DEF Shift, OnesAt, Flip, Poly32
<1>22. f[22] = W({2, 3, 6, 7, 8, 9, 10, 13, 14, 19, 21, 22, 24, 27, 29, 30, 31})
  <2>1. Next(21)  BY <1>b
  <2> QED BY <1>21, <2>1 DEF Shift, OnesAt, Flip, Poly32
<1>23. f[23] = W({1, 2, 5, 6, 7, 8, 9, 12, 13, 18, 20, 21, 23, 26, 28, 29, 30})
  <2>1. Next(22)  BY <1>b
  <2> QED BY <1>22, <2>1 DEF Shift, OnesAt, Flip, Poly32
<1>24. f[24] = W({1, 4, 5, 7, 8, 9, 10, 11, 12, 16, 17, 19, 21, 24, 29, 30, 31, 32})
  <2>1. Next(23)  BY <1>b
  <2> QED BY <1>23, <2>1 DEF Shift, OnesAt, Flip, Poly32
<1>25. f[25] = W({3, 4, 7, 8, 11, 15, 18, 21, 22, 23, 24, 25, 27, 29, 32})
  <2>1. Next(24)  BY <1>b
  <2> QED BY <1>24, <2>1 DEF Shift, OnesAt, Flip, Poly32
<1>26. f[26] = W({2, 3, 6, 7, 10, 14, 17, 20, 21, 22, 23, 24, 26, 28, 31})
  <2>1. Next(25)  BY <1>b
  <2> QED BY <1>25, <2>1 DEF Shift, OnesAt, Flip, Poly32
<1>27. f[27] = W({1, 2, 5, 6, 9, 13, 16, 19, 20, 21, 22, 23, 25, 27, 30})
  <2>1. Next(26)  BY <1>b
  <2> QED BY <1>26, <2>1 DEF Shift, OnesAt, Flip, Poly32
<1>28. f[28] = W({1, 4, 5, 6, 8, 9, 10, 12, 15, 16, 18, 19, 25, 26, 27, 28, 29, 30, 31, 32})
  <2>1. Next(27)  BY <1>b
  <2> QED BY <1>27, <2>1 DEF Shift, OnesAt, Flip, Poly32
<1>29. f[29] = W({3, 4, 5, 6, 7, 8, 10, 11, 14, 15, 16, 17, 18, 20, 21, 22, 26, 29, 32})
  <2>1. Next(28)  BY <1>b
  <2> QED BY <1>28, <2>1 DEF Shift, OnesAt, Flip, Poly32
<1>30. f[30] = W({2, 3, 4, 5, 6, 7, 9, 10, 13, 14, 15, 16, 17, 19, 20, 21, 25, 28, 31})
  <2>1. Next(29)  BY <1>b
  <2> QED BY <1>29, <2>1 DEF Shift, OnesAt, Flip, Poly32
<1>31. f[31] = W({1, 2, 3, 4, 5, 6, 8, 9, 12, 13, 14, 15, 16, 18, 19, 20, 24, 27, 30})
  <2>1. Next(30)  BY <1>b
  <2> QED BY <1>30, <2>1 DEF Shift, OnesAt, Flip, Poly32
<1>32. f[32] = W(1 .. 32)
  <2>1. Next(31)  BY <1>b
  <2> QED BY <1>31, <2>1 DEF Shift, OnesAt, Flip, Poly32
<1> QED BY <1>0, <1>32, TheWords DEF Pads

-----------------------------------------------------------------------------
(* The reference's byte: eight divisions.                                  *)

LEMMA PushedIs ==
  ASSUME NEW w \in Nat \ {0}, NEW r \in Word(w)
  PROVE  /\ <<0>> \o Front(r) \in Word(w)
         /\ \A i \in 1 .. w : (<<0>> \o Front(r))[i] = IF i = 1 THEN 0 ELSE r[i - 1]
<1>0. PICK n \in Nat : w = n + 1
  <2>1. w - 1 \in Nat /\ w = w - 1 + 1
    OBVIOUS
  <2> QED BY <2>1
<1>1. Len(r) = n + 1 /\ n + 1 \in Nat
  BY <1>0, WordIs DEF Word
<1>2. Front(r) = SubSeq(r, 1, n)
  BY <1>1 DEF Front
<1>3. \A i \in 1 .. n : r[i] \in Bit
  BY <1>0 DEF Word
<1>4. /\ SubSeq(r, 1, n) \in Seq(Bit)
      /\ Len(SubSeq(r, 1, n)) = IF 1 <= n THEN n - 1 + 1 ELSE 0
      /\ \A i \in 1 .. n - 1 + 1 : SubSeq(r, 1, n)[i] = r[1 + i - 1]
  BY <1>3, SubSeqProperties
<1>5. Front(r) \in Seq(Bit) /\ Len(Front(r)) = n /\ \A i \in 1 .. n : Front(r)[i] = r[i]
  BY <1>2, <1>4
<1>6. <<0>> \in Seq(Bit) /\ Len(<<0>>) = 1 /\ <<0>>[1] = 0
  BY DEF Bit
<1> DEFINE pushed == <<0>> \o Front(r)
<1>7. pushed \in Seq(Bit) /\ Len(pushed) = 1 + n
  BY <1>5, <1>6, ConcatProperties
<1>8. \A i \in 1 .. 1 + n : pushed[i] = IF i <= 1 THEN <<0>>[i] ELSE Front(r)[i - 1]
  BY <1>5, <1>6, ConcatProperties
<1> HIDE DEF pushed
<1>9. pushed \in Word(w)
  BY <1>0, <1>7, SeqIsWord DEF Word
<1>10. ASSUME NEW i \in 1 .. w PROVE pushed[i] = IF i = 1 THEN 0 ELSE r[i - 1]
  <2>1. i \in 1 .. 1 + n /\ (i <= 1 <=> i = 1) /\ (i # 1 => i - 1 \in 1 .. n)
    BY <1>0
  <2> QED BY <1>5, <1>6, <1>8, <2>1
<1> QED BY <1>9, <1>10 DEF pushed

LEMMA ZerosAre == ASSUME NEW w \in Nat PROVE Zeros(w) \in Word(w) /\ \A i \in 1 .. w : Zeros(w)[i] = 0
BY DEF Zeros, Word, Bit

LEMMA Divide16Is ==
  ASSUME NEW r \in Word(16)
  PROVE  Divide16(r) \in Word(16) /\ Divide16(r) = Shift(16, crc16_polynomial, r, 0)
<1>1. Ccitt = crc16_polynomial
  BY DEF Ccitt, crc16_polynomial
<1>2. Divide16(r) = ShiftIn(r, 0, crc16_polynomial)
  BY <1>1, Zenon DEF Divide16, ShiftIn
<1>3. 16 \in Nat \ {0} /\ 0 \in Bit
  BY DEF Bit
<1> QED BY <1>2, <1>3, ShiftIs, TheWords

LEMMA Divide32Is ==
  ASSUME NEW r \in Word(32)
  PROVE  Divide32(r) \in Word(32) /\ Reverse(Divide32(r)) = Shift(32, crc32_polynomial, Reverse(r), 0)
<1> DEFINE shifted == <<0>> \o Front(r)
<1>1. r \in Seq(Bit) /\ Len(r) = 32
  BY WordIs DEF Word
<1>2. 32 \in Nat \ {0}
  OBVIOUS
<1>4. shifted \in Word(32) /\ \A i \in 1 .. 32 : shifted[i] = IF i = 1 THEN 0 ELSE r[i - 1]
  BY <1>2, PushedIs
<1>5. Divide32(r) = IF r[32] = 1 THEN Xor(shifted, Edb88320) ELSE shifted
  BY <1>1 DEF Divide32, Last
<1> HIDE DEF shifted
<1>6. Xor(shifted, Edb88320) \in Word(32) /\ \A i \in 1 .. 32 : Xor(shifted, Edb88320)[i] = Flip(shifted[i], Edb88320[i])
  BY <1>4, Mirror32, XorIs
<1>7. Divide32(r) \in Word(32)
  BY <1>4, <1>5, <1>6
<1>99. Len(Divide32(r)) = 32
  BY <1>7, WordIs DEF Word
<1>8. ASSUME NEW i \in 1 .. 32 PROVE Divide32(r)[i] = Flip(shifted[i], IF r[32] = 1 THEN Edb88320[i] ELSE 0)
  <2>1. shifted[i] \in Bit
    BY <1>4 DEF Word
  <2>2. Flip(shifted[i], 0) = shifted[i]
    BY <2>1 DEF Flip, Bit
  <2> QED BY <1>5, <1>6, <2>2
<1>9. Reverse(r) \in Word(32) /\ Reverse(Divide32(r)) \in Word(32)
  BY <1>7, ReverseIs DEF Word
<1>10. /\ \A i \in 1 .. 32 : Reverse(r)[i] = r[33 - i]
       /\ \A i \in 1 .. 32 : Reverse(Divide32(r))[i] = Divide32(r)[33 - i]
  BY <1>1, <1>99 DEF Reverse
<1>11. ASSUME NEW i \in 1 .. 32
       PROVE  Reverse(Divide32(r))[i] = Shift(32, crc32_polynomial, Reverse(r), 0)[i]
  <2>1. Reverse(Divide32(r))[i] = Flip(shifted[33 - i], IF r[32] = 1 THEN crc32_polynomial[i] ELSE 0)
    <3>1. 33 - i \in 1 .. 32 /\ 32 + 1 - i = 33 - i
      OBVIOUS
    <3>2. Reverse(Divide32(r))[i] = Divide32(r)[33 - i]
      BY <1>10, <3>1
    <3>3. Divide32(r)[33 - i] = Flip(shifted[33 - i], IF r[32] = 1 THEN Edb88320[33 - i] ELSE 0)
      BY <1>8, <3>1
    <3> QED BY <3>2, <3>3, Mirror32
  <2>2. shifted[33 - i] = IF i < 32 THEN Reverse(r)[i + 1] ELSE 0
    <3>1. 33 - i \in 1 .. 32 /\ 33 - i - 1 = 32 - i /\ (i < 32 => i + 1 \in 1 .. 32 /\ 33 - (i + 1) = 32 - i)
      OBVIOUS
    <3>2. 33 - i = 1 <=> ~ (i < 32)
      OBVIOUS
    <3> QED BY <1>4, <1>10, <3>1, <3>2
  <2>3. Reverse(r)[1] = r[32]
    BY <1>10
  <2> QED BY <2>1, <2>2, <2>3 DEF Shift
<1>12. Shift(32, crc32_polynomial, Reverse(r), 0) \in Word(32)
  <2>1. 32 \in Nat \ {0} /\ 0 \in Bit
    BY DEF Bit
  <2> QED BY <1>9, <2>1, ShiftIs, TheWords
<1> QED BY <1>7, <1>9, <1>11, <1>12, SameWords

Divided16(start, x) ==
  \E t \in [0 .. 8 -> Word(16)] : t[0] = start /\ t[8] = x /\ \A j \in 1 .. 8 : t[j] = Divide16(t[j - 1])

LEMMA EightTimes16 == ASSUME NEW start \in Word(16) PROVE Divided16(start, Times(8, Divide16, start))
<1> DEFINE T == CHOOSE f : f = [i \in 0 .. 8 |-> IF i = 0 THEN start ELSE Divide16(f[i - 1])]
           X == Word(16)
           G == [i \in 1 .. 8 |-> [r \in X |-> Divide16(r)]]
<1>1. G \in [1 .. 8 -> [X -> X]]
  BY Divide16Is
<1>2. PICK f : Runs(f, X, start, G, 8)
  <2> HIDE DEF X, G
  <2>1. start \in X
    BY DEF X
  <2> QED BY <1>1, <2>1, Loops
<1>3. f \in [0 .. 8 -> X] /\ f[0] = start /\ \A i \in 1 .. 8 : f[i] = G[i][f[i - 1]]
  BY <1>2 DEF Runs
<1>4. ASSUME NEW i \in 1 .. 8 PROVE f[i] = Divide16(f[i - 1]) /\ i - 1 \in 0 .. 8
  <2>1. i - 1 \in 0 .. 8
    OBVIOUS
  <2>2. f[i - 1] \in X
    BY <1>3, <2>1
  <2> HIDE DEF X
  <2> QED BY <1>3, <2>1, <2>2
<1> HIDE DEF X, G
<1>5. f = [i \in 0 .. 8 |-> IF i = 0 THEN start ELSE Divide16(f[i - 1])]
  <2>1. ASSUME NEW i \in 0 .. 8 PROVE f[i] = IF i = 0 THEN start ELSE Divide16(f[i - 1])
    <3>1. i # 0 => i \in 1 .. 8
      OBVIOUS
    <3> QED BY <1>3, <1>4, <3>1
  <2> QED BY <1>3, <2>1
<1>6. T = [i \in 0 .. 8 |-> IF i = 0 THEN start ELSE Divide16(T[i - 1])]
  BY <1>5, Zenon
<1>7. Times(8, Divide16, start) = T[8]
  BY DEF Times
<1> HIDE DEF T
<1> DEFINE J == {i \in 0 .. 8 : T[i] \in X}
<1>8. 0 \in J
  BY <1>6 DEF X
<1>9. ASSUME NEW i \in 1 .. 8, i - 1 \in J PROVE i \in J
  <2>1. T[i] = Divide16(T[i - 1]) /\ T[i - 1] \in X
    BY <1>6, <1>9
  <2> QED BY <2>1, Divide16Is DEF X
<1> HIDE DEF J
<1>10. \A i \in 0 .. 8 : i \in J
  BY <1>8, <1>9, UpTheNumbers
<1>11. T \in [0 .. 8 -> Word(16)] /\ T[0] = start /\ \A i \in 1 .. 8 : T[i] = Divide16(T[i - 1])
  <2>1. \A i \in 0 .. 8 : T[i] \in Word(16)
    BY <1>10 DEF J, X
  <2> QED BY <1>6, <2>1
<1> QED BY <1>7, <1>11 DEF Divided16

(* A byte among zeros.                                                     *)
LEMMA ByteAhead ==
  ASSUME NEW n \in Nat, NEW w, w = 8 + n, NEW d \in Word(8)
  PROVE  d \o Zeros(n) \in Word(w) /\ \A i \in 1 .. w : (d \o Zeros(n))[i] = IF i <= 8 THEN d[i] ELSE 0
<1> DEFINE z == Zeros(n)
           joined == d \o z
<1>1. z \in Word(n) /\ \A i \in 1 .. n : z[i] = 0
  BY ZerosAre
<1> HIDE DEF z
<1>2. d \in Seq(Bit) /\ Len(d) = 8 /\ z \in Seq(Bit) /\ Len(z) = n
  <2>1. d \in Seq(Bit) /\ Len(d) = 8
    BY WordIs DEF Word
  <2>2. z \in Seq(Bit) /\ Len(z) = n
    BY <1>1, WordIs DEF Word
  <2> QED BY <2>1, <2>2
<1>3. joined \in Seq(Bit) /\ Len(joined) = 8 + n /\ \A i \in 1 .. 8 + n : joined[i] = IF i <= 8 THEN d[i] ELSE z[i - 8]
  <2>1. joined \in Seq(Bit) /\ Len(joined) = Len(d) + Len(z)
    BY <1>2, ConcatProperties
  <2>2. \A i \in 1 .. Len(d) + Len(z) : joined[i] = IF i <= Len(d) THEN d[i] ELSE z[i - Len(d)]
    BY <1>2, ConcatProperties
  <2> HIDE DEF joined
  <2> QED BY <1>2, <2>1, <2>2
<1> HIDE DEF joined
<1>4. joined \in Word(w)
  BY <1>3, SeqIsWord DEF Word
<1>5. ASSUME NEW i \in 1 .. w PROVE joined[i] = IF i <= 8 THEN d[i] ELSE 0
  BY <1>1, <1>3
<1> QED BY <1>4, <1>5 DEF joined, z

LEMMA ByteBehind ==
  ASSUME NEW n \in Nat, NEW w, w = n + 8, NEW d \in Word(8)
  PROVE  Zeros(n) \o d \in Word(w) /\ \A i \in 1 .. w : (Zeros(n) \o d)[i] = IF i <= n THEN 0 ELSE d[i - n]
<1> DEFINE z == Zeros(n)
           joined == z \o d
<1>1. z \in Word(n) /\ \A i \in 1 .. n : z[i] = 0
  BY ZerosAre
<1> HIDE DEF z
<1>2. d \in Seq(Bit) /\ Len(d) = 8 /\ z \in Seq(Bit) /\ Len(z) = n
  <2>1. d \in Seq(Bit) /\ Len(d) = 8
    BY WordIs DEF Word
  <2>2. z \in Seq(Bit) /\ Len(z) = n
    BY <1>1, WordIs DEF Word
  <2> QED BY <2>1, <2>2
<1>3. joined \in Seq(Bit) /\ Len(joined) = n + 8 /\ \A i \in 1 .. n + 8 : joined[i] = IF i <= n THEN z[i] ELSE d[i - n]
  <2>1. joined \in Seq(Bit) /\ Len(joined) = Len(z) + Len(d)
    BY <1>2, ConcatProperties
  <2>2. \A i \in 1 .. Len(z) + Len(d) : joined[i] = IF i <= Len(z) THEN z[i] ELSE d[i - Len(z)]
    BY <1>2, ConcatProperties
  <2> HIDE DEF joined
  <2> QED BY <1>2, <2>1, <2>2
<1> HIDE DEF joined
<1>4. joined \in Word(w)
  BY <1>3, SeqIsWord DEF Word
<1>5. ASSUME NEW i \in 1 .. w PROVE joined[i] = IF i <= n THEN 0 ELSE d[i - n]
  BY <1>1, <1>3
<1> QED BY <1>4, <1>5 DEF joined, z

CcittByte(r, b) == Times(8, Divide16, Xor(r, Bits(b, 8) \o Zeros(8)))

LEMMA CcittByteIs ==
  ASSUME NEW r \in Word(16), NEW b \in 0 .. 255
  PROVE  /\ CcittByte(r, b) \in Word(16)
         /\ Divides(16, crc16_polynomial, r, Bits(b, 8), CcittByte(r, b))
<1> DEFINE d == Bits(b, 8)
           added == d \o Zeros(8)
           start == Xor(r, added)
<1>1. d \in Word(8)
  BY BitsAre
<1> HIDE DEF d
<1>2. added \in Word(16) /\ \A i \in 1 .. 16 : added[i] = IF i <= 8 THEN d[i] ELSE 0
  <2>1. 8 \in Nat /\ 16 = 8 + 8
    OBVIOUS
  <2> QED BY <1>1, <2>1, ByteAhead, Zenon
<1> HIDE DEF added
<1>5. start \in Word(16) /\ \A i \in 1 .. 16 : start[i] = Flip(r[i], IF i <= 8 THEN d[i] ELSE 0)
  BY <1>2, XorIs
<1> HIDE DEF start
<1>6. Divided16(start, Times(8, Divide16, start))
  BY <1>5, EightTimes16
<1>7. Times(8, Divide16, start) = CcittByte(r, b)
  BY DEF CcittByte, start, added, d
<1>8. PICK t \in [0 .. 8 -> Word(16)] :
        t[0] = start /\ t[8] = CcittByte(r, b) /\ \A j \in 1 .. 8 : t[j] = Divide16(t[j - 1])
  BY <1>6, <1>7 DEF Divided16
<1>9. ASSUME NEW j \in 1 .. 8 PROVE t[j] = Shift(16, crc16_polynomial, t[j - 1], 0)
  <2>1. j - 1 \in 0 .. 8
    OBVIOUS
  <2>2. t[j - 1] \in Word(16)
    BY <2>1
  <2> QED BY <1>8, <2>2, Divide16Is
<1>10. Divides(16, crc16_polynomial, r, d, CcittByte(r, b))
  BY <1>5, <1>8, <1>9 DEF Divides
<1>11. t[8] \in Word(16)
  OBVIOUS
<1> QED BY <1>8, <1>10, <1>11 DEF d

CrcCcittRegisters(R, N, data) ==
  /\ R \in [0 .. N -> Word(16)] /\ R[0] = Ones(16) /\ \A i \in 1 .. N : R[i] = CcittByte(R[i - 1], data[i])
  /\ CrcCcitt(data) = R[N]

LEMMA CrcCcittIs ==
  ASSUME NEW N \in Nat, NEW data \in [1 .. N -> 0 .. 255]
  PROVE  \E R : CrcCcittRegisters(R, N, data)
<1> DEFINE R == CHOOSE f : f = [i \in 0 .. Len(data) |-> IF i = 0 THEN Ones(16) ELSE CcittByte(f[i - 1], data[i])]
           X == Word(16)
           G == [i \in 1 .. N |-> [r \in X |-> CcittByte(r, data[i])]]
<1>1. Len(data) = N
  BY WordIs
<1>2. ASSUME NEW i \in 1 .. N, NEW r \in X PROVE CcittByte(r, data[i]) \in X
  BY CcittByteIs
<1>3. G \in [1 .. N -> [X -> X]]
  BY <1>2
<1>4. PICK f : Runs(f, X, Ones(16), G, N)
  <2> HIDE DEF X, G
  <2>1. Ones(16) \in X
    BY TheWords DEF X
  <2> QED BY <1>3, <2>1, Loops
<1>5. f \in [0 .. N -> X] /\ f[0] = Ones(16) /\ \A i \in 1 .. N : f[i] = G[i][f[i - 1]]
  BY <1>4 DEF Runs
<1>6. ASSUME NEW i \in 1 .. N PROVE f[i] = CcittByte(f[i - 1], data[i]) /\ i - 1 \in 0 .. N
  <2>1. i - 1 \in 0 .. N
    OBVIOUS
  <2>2. f[i - 1] \in X
    BY <1>5, <2>1
  <2> HIDE DEF X
  <2> QED BY <1>5, <2>1, <2>2
<1> HIDE DEF G, X
<1>7. f = [i \in 0 .. N |-> IF i = 0 THEN Ones(16) ELSE CcittByte(f[i - 1], data[i])]
  <2>1. ASSUME NEW i \in 0 .. N PROVE f[i] = IF i = 0 THEN Ones(16) ELSE CcittByte(f[i - 1], data[i])
    <3>1. i # 0 => i \in 1 .. N
      OBVIOUS
    <3> QED BY <1>5, <1>6, <3>1
  <2> QED BY <1>5, <2>1
<1>8. R = [i \in 0 .. N |-> IF i = 0 THEN Ones(16) ELSE CcittByte(R[i - 1], data[i])]
  BY <1>1, <1>7, Zenon
<1>9. CrcCcitt(data) = R[N]
  BY <1>1 DEF CrcCcitt, CcittByte
<1> HIDE DEF R
<1> DEFINE J == {i \in 0 .. N : R[i] \in X}
<1>10. 0 \in J
  <2>1. 0 \in 0 .. N /\ R[0] = Ones(16)
    BY <1>8
  <2> QED BY <2>1, TheWords DEF X
<1>11. ASSUME NEW i \in 1 .. N, i - 1 \in J PROVE i \in J
  <2>1. R[i] = CcittByte(R[i - 1], data[i]) /\ R[i - 1] \in X
    BY <1>8, <1>11
  <2> QED BY <1>2, <2>1
<1> HIDE DEF J
<1>12. \A i \in 0 .. N : i \in J
  BY <1>10, <1>11, UpTheNumbers
<1>13. R \in [0 .. N -> Word(16)]
  BY <1>8, <1>12 DEF J, X
<1>14. R[0] = Ones(16) /\ \A i \in 1 .. N : R[i] = CcittByte(R[i - 1], data[i])
  BY <1>8
<1>15. CrcCcittRegisters(R, N, data)
  BY <1>9, <1>13, <1>14 DEF CrcCcittRegisters
<1> QED BY <1>15

Divided32(start, x) ==
  \E t \in [0 .. 8 -> Word(32)] : t[0] = start /\ t[8] = x /\ \A j \in 1 .. 8 : t[j] = Divide32(t[j - 1])

LEMMA EightTimes32 == ASSUME NEW start \in Word(32) PROVE Divided32(start, Times(8, Divide32, start))
<1> DEFINE T == CHOOSE f : f = [i \in 0 .. 8 |-> IF i = 0 THEN start ELSE Divide32(f[i - 1])]
           X == Word(32)
           G == [i \in 1 .. 8 |-> [r \in X |-> Divide32(r)]]
<1>1. G \in [1 .. 8 -> [X -> X]]
  BY Divide32Is
<1>2. PICK f : Runs(f, X, start, G, 8)
  <2> HIDE DEF X, G
  <2>1. start \in X
    BY DEF X
  <2> QED BY <1>1, <2>1, Loops
<1>3. f \in [0 .. 8 -> X] /\ f[0] = start /\ \A i \in 1 .. 8 : f[i] = G[i][f[i - 1]]
  BY <1>2 DEF Runs
<1>4. ASSUME NEW i \in 1 .. 8 PROVE f[i] = Divide32(f[i - 1]) /\ i - 1 \in 0 .. 8
  <2>1. i - 1 \in 0 .. 8
    OBVIOUS
  <2>2. f[i - 1] \in X
    BY <1>3, <2>1
  <2> HIDE DEF X
  <2> QED BY <1>3, <2>1, <2>2
<1> HIDE DEF X, G
<1>5. f = [i \in 0 .. 8 |-> IF i = 0 THEN start ELSE Divide32(f[i - 1])]
  <2>1. ASSUME NEW i \in 0 .. 8 PROVE f[i] = IF i = 0 THEN start ELSE Divide32(f[i - 1])
    <3>1. i # 0 => i \in 1 .. 8
      OBVIOUS
    <3> QED BY <1>3, <1>4, <3>1
  <2> QED BY <1>3, <2>1
<1>6. T = [i \in 0 .. 8 |-> IF i = 0 THEN start ELSE Divide32(T[i - 1])]
  BY <1>5, Zenon
<1>7. Times(8, Divide32, start) = T[8]
  BY DEF Times
<1> HIDE DEF T
<1> DEFINE J == {i \in 0 .. 8 : T[i] \in X}
<1>8. 0 \in J
  BY <1>6 DEF X
<1>9. ASSUME NEW i \in 1 .. 8, i - 1 \in J PROVE i \in J
  <2>1. T[i] = Divide32(T[i - 1]) /\ T[i - 1] \in X
    BY <1>6, <1>9
  <2> QED BY <2>1, Divide32Is DEF X
<1> HIDE DEF J
<1>10. \A i \in 0 .. 8 : i \in J
  BY <1>8, <1>9, UpTheNumbers
<1>11. T \in [0 .. 8 -> Word(32)] /\ T[0] = start /\ \A i \in 1 .. 8 : T[i] = Divide32(T[i - 1])
  <2>1. \A i \in 0 .. 8 : T[i] \in Word(32)
    BY <1>10 DEF J, X
  <2> QED BY <1>6, <2>1
<1> QED BY <1>7, <1>11 DEF Divided32

Crc32Byte(r, b) == Times(8, Divide32, Xor(r, Zeros(24) \o Bits(b, 8)))

LEMMA Crc32ByteIs ==
  ASSUME NEW r \in Word(32), NEW b \in 0 .. 255
  PROVE  /\ Crc32Byte(r, b) \in Word(32)
         /\ Divides(32, crc32_polynomial, Reverse(r), Reverse(Bits(b, 8)), Reverse(Crc32Byte(r, b)))
<1> DEFINE d == Bits(b, 8)
           added == Zeros(24) \o d
           start == Xor(r, added)
<1>1. d \in Word(8)
  BY BitsAre
<1> HIDE DEF d
<1>2. added \in Word(32) /\ \A i \in 1 .. 32 : added[i] = IF i <= 24 THEN 0 ELSE d[i - 24]
  <2>1. 24 \in Nat /\ 32 = 24 + 8
    OBVIOUS
  <2> QED BY <1>1, <2>1, ByteBehind, ZenonT(30)
<1> HIDE DEF added
<1>3. start \in Word(32) /\ \A i \in 1 .. 32 : start[i] = Flip(r[i], IF i <= 24 THEN 0 ELSE d[i - 24])
  BY <1>2, XorIs
<1> HIDE DEF start
<1>4. Divided32(start, Times(8, Divide32, start))
  BY <1>3, EightTimes32
<1>5. Times(8, Divide32, start) = Crc32Byte(r, b)
  BY DEF Crc32Byte, start, added, d
<1>6. PICK t \in [0 .. 8 -> Word(32)] :
        t[0] = start /\ t[8] = Crc32Byte(r, b) /\ \A j \in 1 .. 8 : t[j] = Divide32(t[j - 1])
  BY <1>4, <1>5 DEF Divided32
<1> DEFINE m == [j \in 0 .. 8 |-> Reverse(t[j])]
<1>7. ASSUME NEW x \in Word(32) PROVE Reverse(x) \in Word(32) /\ \A i \in 1 .. 32 : Reverse(x)[i] = x[33 - i]
  <2>1. Len(x) = 32
    BY WordIs DEF Word
  <2>2. Reverse(x) = [i \in 1 .. 32 |-> x[33 - i]]
    BY <2>1 DEF Reverse
  <2>3. \A i \in 1 .. 32 : 33 - i \in 1 .. 32
    OBVIOUS
  <2> QED BY <2>2, <2>3 DEF Word
<1>8. m \in [0 .. 8 -> Word(32)]
  BY <1>7
<1>9. m[0] = Reverse(start) /\ m[8] = Reverse(Crc32Byte(r, b))
  BY <1>6
<1>10. ASSUME NEW j \in 1 .. 8 PROVE m[j] = Shift(32, crc32_polynomial, m[j - 1], 0)
  <2>1. j - 1 \in 0 .. 8 /\ j \in 0 .. 8
    OBVIOUS
  <2>2. t[j - 1] \in Word(32) /\ m[j - 1] = Reverse(t[j - 1]) /\ m[j] = Reverse(Divide32(t[j - 1]))
    BY <1>6, <2>1
  <2> HIDE DEF m
  <2> QED BY <2>2, Divide32Is
<1>11. ASSUME NEW i \in 1 .. 32 PROVE m[0][i] = Flip(Reverse(r)[i], IF i <= 8 THEN Reverse(d)[i] ELSE 0)
  <2>1. 33 - i \in 1 .. 32 /\ (33 - i <= 24 <=> ~ (i <= 8)) /\ 33 - i - 24 = 9 - i
    OBVIOUS
  <2>2. m[0][i] = start[33 - i] /\ Reverse(r)[i] = r[33 - i]
    BY <1>3, <1>7, <1>9
  <2>3. start[33 - i] = Flip(r[33 - i], IF 33 - i <= 24 THEN 0 ELSE d[33 - i - 24])
    BY <1>3, <2>1
  <2>4. i <= 8 => Reverse(d)[i] = d[9 - i]
    <3>1. Len(d) = 8
      BY <1>1, WordIs DEF Word
    <3> QED BY <3>1 DEF Reverse
  <2> HIDE DEF m
  <2> QED BY <2>1, <2>2, <2>3, <2>4
<1> HIDE DEF m
<1>12. Divides(32, crc32_polynomial, Reverse(r), Reverse(d), Reverse(Crc32Byte(r, b)))
  BY <1>8, <1>9, <1>10, <1>11 DEF Divides
<1>13. t[8] \in Word(32)
  OBVIOUS
<1> QED BY <1>6, <1>12, <1>13 DEF d

Crc32Registers(R, N, data) ==
  /\ R \in [0 .. N -> Word(32)] /\ R[0] = Ones(32) /\ \A i \in 1 .. N : R[i] = Crc32Byte(R[i - 1], data[i])
  /\ Crc32(data) = Xor(R[N], Ones(32))

LEMMA Crc32Is ==
  ASSUME NEW N \in Nat, NEW data \in [1 .. N -> 0 .. 255]
  PROVE  \E R : Crc32Registers(R, N, data)
<1> DEFINE R == CHOOSE f : f = [i \in 0 .. Len(data) |-> IF i = 0 THEN Ones(32) ELSE Crc32Byte(f[i - 1], data[i])]
           X == Word(32)
           G == [i \in 1 .. N |-> [r \in X |-> Crc32Byte(r, data[i])]]
<1>1. Len(data) = N
  BY WordIs
<1>2. ASSUME NEW i \in 1 .. N, NEW r \in X PROVE Crc32Byte(r, data[i]) \in X
  BY Crc32ByteIs
<1>3. G \in [1 .. N -> [X -> X]]
  BY <1>2
<1>4. PICK f : Runs(f, X, Ones(32), G, N)
  <2> HIDE DEF X, G
  <2>1. Ones(32) \in X
    BY TheWords DEF X
  <2> QED BY <1>3, <2>1, Loops
<1>5. f \in [0 .. N -> X] /\ f[0] = Ones(32) /\ \A i \in 1 .. N : f[i] = G[i][f[i - 1]]
  BY <1>4 DEF Runs
<1>6. ASSUME NEW i \in 1 .. N PROVE f[i] = Crc32Byte(f[i - 1], data[i]) /\ i - 1 \in 0 .. N
  <2>1. i - 1 \in 0 .. N
    OBVIOUS
  <2>2. f[i - 1] \in X
    BY <1>5, <2>1
  <2> HIDE DEF X
  <2> QED BY <1>5, <2>1, <2>2
<1> HIDE DEF G, X
<1>7. f = [i \in 0 .. N |-> IF i = 0 THEN Ones(32) ELSE Crc32Byte(f[i - 1], data[i])]
  <2>1. ASSUME NEW i \in 0 .. N PROVE f[i] = IF i = 0 THEN Ones(32) ELSE Crc32Byte(f[i - 1], data[i])
    <3>1. i # 0 => i \in 1 .. N
      OBVIOUS
    <3> QED BY <1>5, <1>6, <3>1
  <2> QED BY <1>5, <2>1
<1>8. R = [i \in 0 .. N |-> IF i = 0 THEN Ones(32) ELSE Crc32Byte(R[i - 1], data[i])]
  BY <1>1, <1>7, Zenon
<1>9. Crc32(data) = Xor(R[N], Ones(32))
  BY <1>1 DEF Crc32, Crc32Byte
<1> HIDE DEF R
<1> DEFINE J == {i \in 0 .. N : R[i] \in X}
<1>10. 0 \in J
  <2>1. 0 \in 0 .. N /\ R[0] = Ones(32)
    BY <1>8
  <2> QED BY <2>1, TheWords DEF X
<1>11. ASSUME NEW i \in 1 .. N, i - 1 \in J PROVE i \in J
  <2>1. R[i] = Crc32Byte(R[i - 1], data[i]) /\ R[i - 1] \in X
    BY <1>8, <1>11
  <2> QED BY <1>2, <2>1
<1> HIDE DEF J
<1>12. \A i \in 0 .. N : i \in J
  BY <1>10, <1>11, UpTheNumbers
<1>13. R \in [0 .. N -> Word(32)]
  BY <1>8, <1>12 DEF J, X
<1>14. R[0] = Ones(32) /\ \A i \in 1 .. N : R[i] = Crc32Byte(R[i - 1], data[i])
  BY <1>8
<1>15. Crc32Registers(R, N, data)
  BY <1>9, <1>13, <1>14 DEF Crc32Registers
<1> QED BY <1>15

-----------------------------------------------------------------------------
(* crc_hw_16 and crc_hw_32.                                                *)

LEMMA MSbFirstIs ==
  ASSUME NEW N \in Nat, NEW data \in [1 .. N -> 0 .. 255]
  PROVE  MSbFirst(data) \in [1 .. N -> Word(8)] /\ \A i \in 1 .. N : MSbFirst(data)[i] = Bits(data[i], 8)
<1>1. \A i \in 1 .. N : Bits(data[i], 8) \in Word(8)
  <2>0. \A i \in 1 .. N : data[i] \in 0 .. 255
    OBVIOUS
  <2>1. \A x \in 0 .. 255 : x \in Nat
    OBVIOUS
  <2> QED BY <2>0, <2>1, BitsAre
<1>2. MSbFirst(data) = [i \in 1 .. N |-> Bits(data[i], 8)]
  BY DEF MSbFirst
<1> QED BY <1>1, <1>2

LEMMA LSbFirstIs ==
  ASSUME NEW N \in Nat, NEW data \in [1 .. N -> 0 .. 255]
  PROVE  LSbFirst(data) \in [1 .. N -> Word(8)] /\ \A i \in 1 .. N : LSbFirst(data)[i] = Reverse(Bits(data[i], 8))
<1>1. ASSUME NEW i \in 1 .. N PROVE Reverse(Bits(data[i], 8)) \in Word(8)
  <2>0. data[i] \in 0 .. 255
    OBVIOUS
  <2>1. \A x \in 0 .. 255 : x \in Nat
    OBVIOUS
  <2>2. Bits(data[i], 8) \in Word(8)
    BY <2>0, <2>1, BitsAre
  <2> QED BY <2>2, ReverseIs DEF Word
<1>2. LSbFirst(data) = [i \in 1 .. N |-> Reverse(Bits(data[i], 8))]
  BY DEF LSbFirst
<1> QED BY <1>1, <1>2

(* The zeros behind the message.                                           *)
LEMMA TwoZeros ==
  /\ MSbFirst(<<0, 0>>) \in [1 .. 2 -> Word(8)]
  /\ \A i \in 1 .. 2, j \in 1 .. 8 : MSbFirst(<<0, 0>>)[i][j] = 0
<1>1. Bits(0, 8) \in Word(8) /\ \A j \in 1 .. 8 : Bits(0, 8)[j] = 0
  BY BitsAre
<1>2. DOMAIN <<0, 0>> = 1 .. 2 /\ \A i \in 1 .. 2 : <<0, 0>>[i] = 0
  OBVIOUS
<1>3. MSbFirst(<<0, 0>>) = [i \in 1 .. 2 |-> Bits(0, 8)]
  BY <1>2 DEF MSbFirst
<1> QED BY <1>1, <1>3

LEMMA FourZeros ==
  /\ LSbFirst(<<0, 0, 0, 0>>) \in [1 .. 4 -> Word(8)]
  /\ \A i \in 1 .. 4, j \in 1 .. 8 : LSbFirst(<<0, 0, 0, 0>>)[i][j] = 0
<1>1. Bits(0, 8) \in Word(8) /\ \A j \in 1 .. 8 : Bits(0, 8)[j] = 0
  BY BitsAre
<1>2. Reverse(Bits(0, 8)) \in Word(8) /\ \A j \in 1 .. 8 : Reverse(Bits(0, 8))[j] = 0
  <2> DEFINE z == Bits(0, 8)
  <2>1. z \in [1 .. 8 -> Bit] /\ \A j \in 1 .. 8 : z[j] = 0
    BY <1>1 DEF Word
  <2> HIDE DEF z
  <2>2. Len(z) = 8
    BY <2>1, WordIs
  <2>3. Reverse(z) = [j \in 1 .. 8 |-> z[8 - j + 1]]
    BY <2>2 DEF Reverse
  <2>4. \A j \in 1 .. 8 : 8 - j + 1 \in 1 .. 8
    OBVIOUS
  <2>5. Reverse(z) \in Word(8) /\ \A j \in 1 .. 8 : Reverse(z)[j] = 0
    BY <2>1, <2>3, <2>4 DEF Word
  <2> QED BY <2>5 DEF z
<1>3. DOMAIN <<0, 0, 0, 0>> = 1 .. 4 /\ \A i \in 1 .. 4 : <<0, 0, 0, 0>>[i] = 0
  OBVIOUS
<1>4. LSbFirst(<<0, 0, 0, 0>>) = [i \in 1 .. 4 |-> Reverse(Bits(0, 8))]
  BY <1>3 DEF LSbFirst
<1> QED BY <1>2, <1>4

LEMMA Hw16 ==
  ASSUME NEW N \in Nat, NEW data \in [1 .. N -> 0 .. 255]
  PROVE  Gives(crc_hw_16(data), CrcCcitt(data))
<1> DEFINE B == MSbFirst(data)
           p == crc16_polynomial
           seed == crc16_converted_seed
<1>1. B \in [1 .. N -> Word(8)] /\ \A i \in 1 .. N : B[i] = Bits(data[i], 8)
  BY MSbFirstIs
<1>2. p \in Word(16) /\ seed \in Word(16) /\ 16 \in Nat \ {0} /\ 16 \in Nat /\ 16 >= 8
  BY TheWords
<1> HIDE DEF B
<1>3. Takes(1, 16, p, N, B, seed)
  BY <1>1, <1>2, DmaIs
<1>4. PICK S : /\ ShiftsIn(S, 16, p, N, B, seed)
               /\ DmaChnMemCrc(1, B, p, seed) = [ok |-> 1 # dma, crc |-> S[8 * N]]
  BY <1>3 DEF Takes
<1>5. PICK R : CrcCcittRegisters(R, N, data)
  BY CrcCcittIs
<1>6. R \in [0 .. N -> Word(16)] /\ R[0] = Ones(16) /\ CrcCcitt(data) = R[N]
  BY <1>5 DEF CrcCcittRegisters
<1>7. ASSUME NEW i \in 1 .. N PROVE Divides(16, p, R[i - 1], B[i], R[i])
  <2>1. R[i] = CcittByte(R[i - 1], data[i]) /\ B[i] = Bits(data[i], 8)
    BY <1>1, <1>5 DEF CrcCcittRegisters
  <2>2. i - 1 \in 0 .. N
    OBVIOUS
  <2>3. R[i - 1] \in Word(16) /\ data[i] \in 0 .. 255
    BY <1>6, <2>2
  <2>4. Divides(16, p, R[i - 1], Bits(data[i], 8), CcittByte(R[i - 1], data[i]))
    BY <2>3, CcittByteIs
  <2> QED BY <2>1, <2>4
<1>8. Pads(16, p, seed, R[0])
  BY <1>6, StartPads16
<1> HIDE DEF p, seed
<1>9. Pads(16, p, S[8 * N], R[N])
  BY <1>1, <1>2, <1>4, <1>6, <1>7, <1>8, Agree
<1>10. S[8 * N] \in Word(16)
  <2>1. 8 * N \in 0 .. 8 * N
    OBVIOUS
  <2> QED BY <1>4, <2>1 DEF ShiftsIn
<1>11. crc_hw_16_orig(2, <<0, 0>>, S[8 * N]) = [ok |-> 2 # dma, crc |-> R[N]]
  <2> DEFINE w == 16
             n == 2
             z == MSbFirst(<<0, 0>>)
             r == S[8 * N]
             x == R[N]
  <2>1. w \in Nat \ {0} /\ n \in Nat /\ w = 8 * n /\ p \in Word(w)
    BY <1>2
  <2>2. z \in [1 .. n -> Word(8)] /\ \A i \in 1 .. n, j \in 1 .. 8 : z[i][j] = 0
    BY TwoZeros
  <2>3. r \in Word(w) /\ Pads(w, p, r, x)
    BY <1>9, <1>10
  <2> HIDE DEF w, n, z, r, x
  <2>4. DmaChnMemCrc(2, z, p, r) = [ok |-> 2 # dma, crc |-> x]
    BY <2>1, <2>2, <2>3, DmaPads
  <2> QED BY <2>4 DEF crc_hw_16_orig, p, z, r, x
<1>12. crc_hw_16_orig(1, data, crc16_converted_seed) = [ok |-> 1 # dma, crc |-> S[8 * N]]
  BY <1>4 DEF crc_hw_16_orig, B, p, seed
<1>13. crc_hw_16(data) = IF 1 # dma THEN [ok |-> 2 # dma, crc |-> R[N]] ELSE [ok |-> 1 # dma, crc |-> S[8 * N]]
  <2> DEFINE first == crc_hw_16_orig(1, data, crc16_converted_seed)
  <2>1. first.ok = (1 # dma) /\ first.crc = S[8 * N]
    BY <1>12
  <2>2. crc_hw_16(data) = IF first.ok THEN crc_hw_16_orig(2, <<0, 0>>, first.crc) ELSE first
    BY DEF crc_hw_16
  <2> HIDE DEF first
  <2>3. first = [ok |-> 1 # dma, crc |-> S[8 * N]]
    BY <1>12 DEF first
  <2> QED BY <1>11, <2>1, <2>2, <2>3
<1>14. CASE dma = 1
  <2>1. crc_hw_16(data) = [ok |-> 1 # dma, crc |-> S[8 * N]]
    BY <1>13, <1>14
  <2>2. crc_hw_16(data).ok = (1 # dma)
    BY <2>1
  <2> QED BY <1>14, <2>2 DEF Gives
<1>15. CASE dma # 1
  <2>1. crc_hw_16(data) = [ok |-> 2 # dma, crc |-> R[N]]
    BY <1>13, <1>15
  <2>2. crc_hw_16(data).ok = (2 # dma)
    BY <2>1
  <2> QED BY <1>6, <1>15, <2>1, <2>2 DEF Gives
<1> QED BY <1>14, <1>15

-----------------------------------------------------------------------------
(* Words as bytes.                                                         *)

\* F is the four parts of s one behind the other, each m long.
FourOf(S, m, s, F) ==
  /\ F \in Seq(S) /\ Len(F) = 4 * m
  /\ \A j \in 1 .. m : /\ F[j] = s[1][j]
                       /\ F[m + j] = s[2][j]
                       /\ F[2 * m + j] = s[3][j]
                       /\ F[3 * m + j] = s[4][j]

LEMMA FourFlat ==
  ASSUME NEW S, NEW m \in Nat, NEW s \in [1 .. 4 -> [1 .. m -> S]]
  PROVE  FourOf(S, m, s, FlattenSeq(s))
<1> DEFINE two == s[1] \o s[2]
           three == two \o s[3]
           four == three \o s[4]
           F == CHOOSE f : f = [i \in 1 .. Len(s) |-> IF i = 1 THEN s[i] ELSE f[i - 1] \o s[i]]
           f == [i \in 1 .. 4 |-> IF i = 1 THEN s[1] ELSE IF i = 2 THEN two ELSE IF i = 3 THEN three ELSE four]
<1>1. Len(s) = 4
  BY WordIs
<1>2. f = [i \in 1 .. 4 |-> IF i = 1 THEN s[i] ELSE f[i - 1] \o s[i]]
  <2>1. f[1] = s[1] /\ f[2] = two /\ f[3] = three /\ f[4] = four
    OBVIOUS
  <2>2. f = [i \in 1 .. 4 |-> f[i]]
    OBVIOUS
  <2> HIDE DEF f
  <2>3. ASSUME NEW i \in 1 .. 4 PROVE f[i] = IF i = 1 THEN s[i] ELSE f[i - 1] \o s[i]
    <3>1. i = 1 \/ i = 2 \/ i = 3 \/ i = 4
      OBVIOUS
    <3>2. f[2] = f[1] \o s[2] /\ f[3] = f[2] \o s[3] /\ f[4] = f[3] \o s[4]
      BY <2>1
    <3>3. 2 - 1 = 1 /\ 3 - 1 = 2 /\ 4 - 1 = 3
      OBVIOUS
    <3> HIDE DEF two, three, four
    <3> QED BY <2>1, <3>1, <3>2, <3>3
  <2> QED BY <2>2, <2>3
<1>3. F = [i \in 1 .. 4 |-> IF i = 1 THEN s[i] ELSE F[i - 1] \o s[i]]
  <2> HIDE DEF f
  <2> QED BY <1>1, <1>2, Zenon
<1>4. FlattenSeq(s) = F[4]
  BY <1>1 DEF FlattenSeq
<1> HIDE DEF F, f
<1> DEFINE a == s[1]
           b == s[2]
           c == s[3]
           d == s[4]
<1>5. F[1] = a /\ F[2] = F[1] \o b /\ F[3] = F[2] \o c /\ F[4] = F[3] \o d
  <2>1. \A i \in 1 .. 4 : F[i] = IF i = 1 THEN s[i] ELSE F[i - 1] \o s[i]
    BY <1>3
  <2> HIDE DEF two, three, four
  <2>2. F[1] = s[1]
    BY <2>1
  <2>3. F[2] = F[1] \o s[2]
    BY <2>1
  <2>4. F[3] = F[2] \o s[3]
    BY <2>1
  <2>5. F[4] = F[3] \o s[4]
    BY <2>1
  <2> QED BY <2>2, <2>3, <2>4, <2>5
<1>6. FlattenSeq(s) = four
  BY <1>4, <1>5
<1>7. a \in Seq(S) /\ Len(a) = m /\ b \in Seq(S) /\ Len(b) = m /\ c \in Seq(S) /\ Len(c) = m /\ d \in Seq(S) /\ Len(d) = m
  <2>1. \A i \in 1 .. 4 : s[i] \in [1 .. m -> S]
    OBVIOUS
  <2>2. \A i \in 1 .. 4 : s[i] \in Seq(S) /\ Len(s[i]) = m
    BY <2>1, WordIs
  <2> QED BY <2>2
<1>8. two = a \o b /\ three = two \o c /\ four = three \o d
  OBVIOUS
<1> HIDE DEF a, b, c, d, two, three, four
<1>9. /\ two \in Seq(S) /\ Len(two) = m + m
      /\ \A i \in 1 .. m + m : two[i] = IF i <= m THEN a[i] ELSE b[i - (m)]
  <2>0. a \in Seq(S) /\ b \in Seq(S) /\ two = a \o b
    BY <1>7, <1>8
  <2>1. two \in Seq(S) /\ Len(two) = Len(a) + Len(b)
    BY <2>0, ConcatProperties
  <2>2. \A i \in 1 .. Len(a) + Len(b) : two[i] = IF i <= Len(a) THEN a[i] ELSE b[i - Len(a)]
    BY <2>0, ConcatProperties
  <2> QED BY <1>7, <1>8, <2>1, <2>2
<1>10. /\ three \in Seq(S) /\ Len(three) = m + m + m
      /\ \A i \in 1 .. m + m + m : three[i] = IF i <= m + m THEN two[i] ELSE c[i - (m + m)]
  <2>0. two \in Seq(S) /\ c \in Seq(S) /\ three = two \o c
    BY <1>7, <1>8, <1>9
  <2>1. three \in Seq(S) /\ Len(three) = Len(two) + Len(c)
    BY <2>0, ConcatProperties
  <2>2. \A i \in 1 .. Len(two) + Len(c) : three[i] = IF i <= Len(two) THEN two[i] ELSE c[i - Len(two)]
    BY <2>0, ConcatProperties
  <2> QED BY <1>7, <1>8, <1>9, <2>1, <2>2
<1>12. /\ four \in Seq(S) /\ Len(four) = m + m + m + m
      /\ \A i \in 1 .. m + m + m + m : four[i] = IF i <= m + m + m THEN three[i] ELSE d[i - (m + m + m)]
  <2>0. three \in Seq(S) /\ d \in Seq(S) /\ four = three \o d
    BY <1>7, <1>8, <1>10
  <2>1. four \in Seq(S) /\ Len(four) = Len(three) + Len(d)
    BY <2>0, ConcatProperties
  <2>2. \A i \in 1 .. Len(three) + Len(d) : four[i] = IF i <= Len(three) THEN three[i] ELSE d[i - Len(three)]
    BY <2>0, ConcatProperties
  <2> QED BY <1>7, <1>8, <1>10, <2>1, <2>2
<1>14. ASSUME NEW j \in 1 .. m
       PROVE  four[j] = a[j] /\ four[m + j] = b[j] /\ four[2 * m + j] = c[j] /\ four[3 * m + j] = d[j]
  <2>1. four[j] = a[j] /\ four[m + j] = b[j]
    <3>0. j \in 1 .. m + m + m /\ m + j \in 1 .. m + m + m
      OBVIOUS
    <3>1. \A i \in 1 .. m + m + m : four[i] = three[i]
      BY <1>12
    <3>2. three[j] = two[j] /\ three[m + j] = two[m + j]
      BY <1>10
    <3>3. two[j] = a[j] /\ two[m + j] = b[j]
      BY <1>9
    <3> QED BY <3>0, <3>1, <3>2, <3>3
  <2>2. four[2 * m + j] = c[j]
    <3>1. four[2 * m + j] = three[2 * m + j]
      BY <1>12
    <3> QED BY <1>10, <3>1
  <2>3. four[3 * m + j] = d[j]
    BY <1>12
  <2> QED BY <2>1, <2>2, <2>3
<1>13. m + m + m + m = 4 * m
  OBVIOUS
<1>15. FourOf(S, m, s, four)
  BY <1>12, <1>13, <1>14 DEF FourOf, a, b, c, d
<1> QED BY <1>6, <1>15

LEMMA BytesOfWord ==
  ASSUME NEW word \in Word(32)
  PROVE  /\ BytesOf(word) \in [1 .. 4 -> Word(8)]
         /\ \A i \in 1 .. 4, j \in 1 .. 8 : BytesOf(word)[i][j] = word[8 * i - 8 + j]
<1>1. Len(word) = 32
  BY WordIs DEF Word
<1>2. BytesOf(word) = [i \in 1 .. 4 |-> SubSeq(word, 8 * i - 7, 8 * i)]
  BY <1>1 DEF BytesOf
<1>3. ASSUME NEW i \in 1 .. 4
      PROVE  SubSeq(word, 8 * i - 7, 8 * i) \in Word(8) /\ \A j \in 1 .. 8 : SubSeq(word, 8 * i - 7, 8 * i)[j] = word[8 * i - 8 + j]
  <2>1. SubSeq(word, 8 * i - 7, 8 * i) = [j \in 1 .. 8 |-> word[8 * i - 8 + j]]
    <3>1. 8 * i - (8 * i - 7) + 1 = 8
      OBVIOUS
    <3>2. \A j \in 1 .. 8 : 8 * i - 7 + j - 1 = 8 * i - 8 + j
      OBVIOUS
    <3>3. SubSeq(word, 8 * i - 7, 8 * i) = [j \in 1 .. (1 + 8 * i) - (8 * i - 7) |-> word[j + (8 * i - 7) - 1]]
      BY DEF SubSeq
    <3>4. (1 + 8 * i) - (8 * i - 7) = 8 /\ \A j \in 1 .. 8 : j + (8 * i - 7) - 1 = 8 * i - 8 + j
      OBVIOUS
    <3> QED BY <3>3, <3>4
  <2>2. \A j \in 1 .. 8 : 8 * i - 8 + j \in 1 .. 32
    OBVIOUS
  <2> QED BY <2>1, <2>2 DEF Word
<1> QED BY <1>2, <1>3

LEMMA MirrorIs == ASSUME NEW word \in Word(32) PROVE mirror_uint32(word) = Reverse(word)
<1> DEFINE bytes == BytesOf(word)
           mirrored == mirror_bytes(bytes)
           s == swap_uint32(mirrored)
           X == Word(8)
<1>1. bytes \in [1 .. 4 -> X] /\ \A i \in 1 .. 4, j \in 1 .. 8 : bytes[i][j] = word[8 * i - 8 + j]
  BY BytesOfWord
<1> HIDE DEF bytes
<1>2. mirrored = [i \in 1 .. 4 |-> Reverse(bytes[i])]
  BY <1>1 DEF mirror_bytes
<1>3. ASSUME NEW b \in X PROVE Reverse(b) \in X /\ \A j \in 1 .. 8 : Reverse(b)[j] = b[9 - j]
  <2>1. Len(b) = 8
    BY WordIs DEF Word
  <2>2. Reverse(b) = [j \in 1 .. 8 |-> b[9 - j]]
    BY <2>1 DEF Reverse
  <2>3. \A j \in 1 .. 8 : 9 - j \in 1 .. 8
    OBVIOUS
  <2> QED BY <2>2, <2>3 DEF Word
<1> HIDE DEF mirrored, X
<1>4. mirrored \in [1 .. 4 -> X] /\ \A i \in 1 .. 4, j \in 1 .. 8 : mirrored[i][j] = bytes[i][9 - j]
  BY <1>1, <1>2, <1>3
<1>5. s \in [1 .. 4 -> X] /\ \A i \in 1 .. 4 : s[i] = mirrored[5 - i]
  <2>1. Len(mirrored) = 4
    BY <1>4, WordIs
  <2>2. s = [i \in 1 .. 4 |-> mirrored[5 - i]]
    BY <2>1 DEF swap_uint32, Reverse
  <2>3. \A i \in 1 .. 4 : 5 - i \in 1 .. 4
    OBVIOUS
  <2> QED BY <1>4, <2>2, <2>3
<1> HIDE DEF s
<1>6. ASSUME NEW i \in 1 .. 4, NEW j \in 1 .. 8 PROVE s[i][j] = word[41 - 8 * i - j]
  <2>1. 5 - i \in 1 .. 4 /\ 9 - j \in 1 .. 8 /\ 8 * (5 - i) - 8 + (9 - j) = 41 - 8 * i - j
    OBVIOUS
  <2> QED BY <1>1, <1>4, <1>5, <2>1
<1> DEFINE F == FlattenSeq(s)
           m == 8
<1>7. /\ F \in Seq(Bit) /\ Len(F) = 4 * m
      /\ \A j \in 1 .. m : F[j] = s[1][j] /\ F[m + j] = s[2][j] /\ F[2 * m + j] = s[3][j] /\ F[3 * m + j] = s[4][j]
  <2>1. m \in Nat /\ s \in [1 .. 4 -> [1 .. m -> Bit]]
    BY <1>5 DEF X, Word
  <2> HIDE DEF m, F
  <2>2. FourOf(Bit, m, s, FlattenSeq(s))
    BY <2>1, FourFlat
  <2> QED BY <2>2 DEF FourOf, F
<1>8. mirror_uint32(word) = F
  BY DEF mirror_uint32, s, mirrored, bytes
<1> HIDE DEF F
<1>9. ASSUME NEW k \in 1 .. 32 PROVE F[k] = word[33 - k]
  <2>1. \A j \in 1 .. 8 : F[j] = word[33 - j] /\ F[8 + j] = word[25 - j] /\ F[16 + j] = word[17 - j] /\ F[24 + j] = word[9 - j]
    <3>1. ASSUME NEW j \in 1 .. 8
          PROVE  F[j] = word[33 - j] /\ F[8 + j] = word[25 - j] /\ F[16 + j] = word[17 - j] /\ F[24 + j] = word[9 - j]
      <4>1. s[1][j] = word[33 - j]
        BY <1>6
      <4>2. s[2][j] = word[25 - j]
        BY <1>6
      <4>3. s[3][j] = word[17 - j]
        BY <1>6
      <4>4. s[4][j] = word[9 - j]
        BY <1>6
      <4>5. j \in 1 .. m /\ 2 * m = 16 /\ 3 * m = 24
        OBVIOUS
      <4>6. F[j] = s[1][j] /\ F[m + j] = s[2][j] /\ F[2 * m + j] = s[3][j] /\ F[3 * m + j] = s[4][j]
        BY <1>7, <4>5
      <4> QED BY <4>1, <4>2, <4>3, <4>4, <4>5, <4>6
    <3> QED BY <3>1
  <2>2. CASE k <= 8
    BY <2>1, <2>2
  <2>3. CASE 8 < k /\ k <= 16
    <3>1. k - 8 \in 1 .. 8 /\ 8 + (k - 8) = k /\ 25 - (k - 8) = 33 - k
      BY <2>3
    <3> QED BY <2>1, <3>1
  <2>4. CASE 16 < k /\ k <= 24
    <3>1. k - 16 \in 1 .. 8 /\ 16 + (k - 16) = k /\ 17 - (k - 16) = 33 - k
      BY <2>4
    <3> QED BY <2>1, <3>1
  <2>5. CASE 24 < k
    <3>1. k - 24 \in 1 .. 8 /\ 24 + (k - 24) = k /\ 9 - (k - 24) = 33 - k
      BY <2>5
    <3> QED BY <2>1, <3>1
  <2> QED BY <2>2, <2>3, <2>4, <2>5
<1>10. F \in Word(32)
  <2>1. Len(F) = 32 /\ F \in Seq(Bit)
    BY <1>7
  <2> QED BY <2>1, SeqIsWord DEF Word
<1>11. Reverse(word) \in Word(32) /\ \A k \in 1 .. 32 : Reverse(word)[k] = word[33 - k]
  <2>1. Len(word) = 32
    BY WordIs DEF Word
  <2>2. Reverse(word) = [k \in 1 .. 32 |-> word[33 - k]]
    BY <2>1 DEF Reverse
  <2>3. \A k \in 1 .. 32 : 33 - k \in 1 .. 32
    OBVIOUS
  <2> QED BY <2>2, <2>3 DEF Word
<1>12. F = Reverse(word)
  BY <1>9, <1>10, <1>11, SameWords
<1> QED BY <1>8, <1>12

LEMMA FinalIs ==
  ASSUME NEW crc \in Word(32), NEW x \in Word(32), Pads(32, crc32_polynomial, crc, Reverse(x)), NEW nth
  PROVE  crc_hw_32_final(nth, crc) = [ok |-> nth # dma, crc |-> Xor(x, Ones(32))]
<1> DEFINE w == 32
           n == 4
           z == LSbFirst(<<0, 0, 0, 0>>)
           p == crc32_polynomial
           y == Reverse(x)
<1>1. w \in Nat \ {0} /\ n \in Nat /\ w = 8 * n /\ p \in Word(w) /\ crc \in Word(w) /\ Pads(w, p, crc, y)
  BY TheWords
<1>2. z \in [1 .. n -> Word(8)] /\ \A i \in 1 .. n, j \in 1 .. 8 : z[i][j] = 0
  BY FourZeros
<1> HIDE DEF w, n, z, p, y
<1>3. DmaChnMemCrc(nth, z, p, crc) = [ok |-> nth # dma, crc |-> y]
  BY <1>1, <1>2, DmaPads
<1>4. y \in Word(32) /\ Reverse(y) = x
  BY ReverseIs DEF y, Word
<1>5. mirror_uint32(y) = x
  BY <1>4, MirrorIs
<1>6. crc_hw_32_add(nth, <<0, 0, 0, 0>>, crc) = [ok |-> nth # dma, crc |-> y]
  BY <1>3 DEF crc_hw_32_add, z, p
<1>7. crc_hw_32_final(nth, crc) = [[ok |-> nth # dma, crc |-> y] EXCEPT !.crc = Xor(mirror_uint32(@), crc32_seed)]
  BY <1>6 DEF crc_hw_32_final
<1> QED BY <1>5, <1>7 DEF crc32_seed

(* The register behind the message, and the sum it stands for.             *)
Sum32(S, x, N, data) ==
  /\ ShiftsIn(S, 32, crc32_polynomial, N, LSbFirst(data), crc32_converted_seed)
  /\ x \in Word(32) /\ Pads(32, crc32_polynomial, S[8 * N], Reverse(x)) /\ S[8 * N] \in Word(32)
  /\ crc_hw_32_add(1, data, crc32_converted_seed) = [ok |-> 1 # dma, crc |-> S[8 * N]]
  /\ Crc32(data) = Xor(x, Ones(32))

LEMMA Sum32Is ==
  ASSUME NEW N \in Nat, NEW data \in [1 .. N -> 0 .. 255]
  PROVE  \E S, x : Sum32(S, x, N, data)
<1> DEFINE B == LSbFirst(data)
           p == crc32_polynomial
           seed == crc32_converted_seed
<1>1. B \in [1 .. N -> Word(8)] /\ \A i \in 1 .. N : B[i] = Reverse(Bits(data[i], 8))
  BY LSbFirstIs
<1>2. p \in Word(32) /\ seed \in Word(32) /\ 32 \in Nat \ {0} /\ 32 \in Nat /\ 32 >= 8
  BY TheWords
<1> HIDE DEF B
<1>3. Takes(1, 32, p, N, B, seed)
  BY <1>1, <1>2, DmaIs
<1>4. PICK S : /\ ShiftsIn(S, 32, p, N, B, seed)
               /\ DmaChnMemCrc(1, B, p, seed) = [ok |-> 1 # dma, crc |-> S[8 * N]]
  BY <1>3 DEF Takes
<1>5. PICK R : Crc32Registers(R, N, data)
  BY Crc32Is
<1>6. R \in [0 .. N -> Word(32)] /\ R[0] = Ones(32) /\ Crc32(data) = Xor(R[N], Ones(32))
  BY <1>5 DEF Crc32Registers
<1> DEFINE M == [i \in 0 .. N |-> Reverse(R[i])]
<1>7. \A x \in Word(32) : Reverse(x) \in Word(32)
  BY ReverseIs DEF Word
<1>8. M \in [0 .. N -> Word(32)]
  BY <1>6, <1>7
<1>9. ASSUME NEW i \in 1 .. N PROVE Divides(32, p, M[i - 1], B[i], M[i])
  <2>1. R[i] = Crc32Byte(R[i - 1], data[i]) /\ B[i] = Reverse(Bits(data[i], 8))
    BY <1>1, <1>5 DEF Crc32Registers
  <2>2. i - 1 \in 0 .. N /\ i \in 0 .. N
    OBVIOUS
  <2>3. R[i - 1] \in Word(32) /\ data[i] \in 0 .. 255
    BY <1>6, <2>2
  <2>4. Divides(32, p, Reverse(R[i - 1]), Reverse(Bits(data[i], 8)), Reverse(Crc32Byte(R[i - 1], data[i])))
    BY <2>3, Crc32ByteIs
  <2>5. M[i - 1] = Reverse(R[i - 1]) /\ M[i] = Reverse(R[i])
    BY <2>2
  <2> HIDE DEF M
  <2> QED BY <2>1, <2>4, <2>5
<1>10. Pads(32, p, seed, M[0])
  <2>1. M[0] = Reverse(Ones(32))
    BY <1>6
  <2>2. Reverse(Ones(32)) = Ones(32)
    <3>1. Ones(32) \in [1 .. 32 -> Bit]
      BY TheWords DEF Word
    <3>2. Len(Ones(32)) = 32
      BY <3>1, WordIs
    <3> QED BY <3>2 DEF Reverse, Ones
  <2> QED BY <2>1, <2>2, StartPads32
<1>11. M[N] = Reverse(R[N]) /\ R[N] \in Word(32)
  <2>1. N \in 0 .. N
    OBVIOUS
  <2> QED BY <1>6, <2>1
<1> HIDE DEF p, seed, M
<1>12. Pads(32, p, S[8 * N], M[N])
  BY <1>1, <1>2, <1>4, <1>8, <1>9, <1>10, Agree
<1>13. S[8 * N] \in Word(32)
  <2>1. 8 * N \in 0 .. 8 * N
    OBVIOUS
  <2> QED BY <1>4, <2>1 DEF ShiftsIn
<1>14. Sum32(S, R[N], N, data)
  BY <1>4, <1>6, <1>11, <1>12, <1>13 DEF Sum32, crc_hw_32_add, p, seed, B
<1> QED BY <1>14

(* The message's bytes a + 1 .. a + n shifted in.                          *)
TakenFrom(part, a, n, data, N) ==
  a \in Nat /\ n \in Nat /\ a + n <= N /\ part = [i \in 1 .. n |-> data[a + i]]
Adds(nth, part, S, a, n) ==
  crc_hw_32_add(nth, part, S[8 * a]) = [ok |-> nth # dma, crc |-> S[8 * (a + n)]]

LEMMA AddIs ==
  ASSUME NEW N \in Nat, NEW data \in [1 .. N -> 0 .. 255], NEW S, NEW x, Sum32(S, x, N, data),
         NEW a, NEW n, NEW part, TakenFrom(part, a, n, data, N), NEW nth
  PROVE  Adds(nth, part, S, a, n)
<1>0. a \in Nat /\ n \in Nat /\ a + n <= N /\ part = [i \in 1 .. n |-> data[a + i]]
  BY DEF TakenFrom
<1> DEFINE w == 32
           B == LSbFirst(data)
           P == LSbFirst(part)
           p == crc32_polynomial
           seed == crc32_converted_seed
<1>1. \A i \in 1 .. n : a + i \in 1 .. N
  BY <1>0
<1>2. part \in [1 .. n -> 0 .. 255] /\ \A i \in 1 .. n : part[i] = data[a + i]
  BY <1>0, <1>1
<1>3. B \in [1 .. N -> Word(8)] /\ \A i \in 1 .. N : B[i] = Reverse(Bits(data[i], 8))
  BY LSbFirstIs
<1>4. P \in [1 .. n -> Word(8)] /\ \A i \in 1 .. n : P[i] = Reverse(Bits(part[i], 8))
  BY <1>0, <1>2, LSbFirstIs
<1>5. w \in Nat \ {0} /\ p \in Word(w) /\ ShiftsIn(S, w, p, N, B, seed)
  BY TheWords DEF Sum32
<1> HIDE DEF w, B, P, p, seed
<1>6. \A i \in 1 .. n : P[i] = B[a + i]
  BY <1>1, <1>2, <1>3, <1>4
<1>7. PartOf(P, a, n, B, N)
  BY <1>0, <1>3, <1>4, <1>6 DEF PartOf
<1>8. GoesOn(nth, P, p, S, a, n)
  BY <1>5, <1>7, DmaGoesOn
<1> QED BY <1>8 DEF crc_hw_32_add, P, p, GoesOn, Adds

LEMMA Hw32 ==
  ASSUME NEW N \in Nat, NEW data \in [1 .. N -> 0 .. 255]
  PROVE  Gives(crc_hw_32(data), Crc32(data))
<1>1. PICK S, x : Sum32(S, x, N, data)
  BY Sum32Is
<1> DEFINE last == S[8 * N]
<1>3. crc_hw_32_add(1, data, crc32_converted_seed) = [ok |-> 1 # dma, crc |-> last]
  BY <1>1 DEF Sum32
<1>4. /\ last \in Word(32) /\ x \in Word(32) /\ Pads(32, crc32_polynomial, last, Reverse(x))
      /\ Crc32(data) = Xor(x, Ones(32))
  BY <1>1 DEF Sum32
<1> HIDE DEF last
<1>5. crc_hw_32_final(2, last) = [ok |-> 2 # dma, crc |-> Crc32(data)]
  BY <1>4, FinalIs
<1>6. crc_hw_32(data) = IF 1 # dma THEN [ok |-> 2 # dma, crc |-> Crc32(data)] ELSE [ok |-> 1 # dma, crc |-> last]
  <2> DEFINE first == crc_hw_32_add(1, data, crc32_converted_seed)
  <2>1. first.ok = (1 # dma) /\ first.crc = last
    BY <1>3
  <2>2. crc_hw_32(data) = IF first.ok THEN crc_hw_32_final(2, first.crc) ELSE first
    BY DEF crc_hw_32
  <2> HIDE DEF first
  <2>3. first = [ok |-> 1 # dma, crc |-> last]
    BY <1>3 DEF first
  <2> QED BY <1>5, <2>1, <2>2, <2>3
<1>7. CASE dma = 1
  <2>1. crc_hw_32(data) = [ok |-> 1 # dma, crc |-> last]
    BY <1>6, <1>7
  <2>2. crc_hw_32(data).ok = (1 # dma)
    BY <2>1
  <2> QED BY <1>7, <2>2 DEF Gives
<1>8. CASE dma # 1
  <2>1. crc_hw_32(data) = [ok |-> 2 # dma, crc |-> Crc32(data)]
    BY <1>6, <1>8
  <2>2. crc_hw_32(data).ok = (2 # dma)
    BY <2>1
  <2> QED BY <1>8, <2>1, <2>2 DEF Gives
<1> QED BY <1>7, <1>8

-----------------------------------------------------------------------------
(* check_crc_32_on_flash: chunk n ends at Cut(n).                          *)

Chunks(N) == (N + BufSize - 1) \div BufSize
Cut(n, N) == IF n * BufSize <= N THEN n * BufSize ELSE N

LEMMA ChunksAre ==
  ASSUME NEW N \in Nat, BufSize \in Nat \ {0}
  PROVE  /\ Chunks(N) \in Nat /\ Cut(0, N) = 0 /\ Cut(Chunks(N), N) = N
         /\ \A n \in 1 .. Chunks(N) :
              LET at == (n - 1) * BufSize
              IN  /\ at \in Nat /\ ReadLen(at, N) \in Nat /\ at + ReadLen(at, N) <= N
                  /\ Cut(n - 1, N) = at /\ Cut(n, N) = at + ReadLen(at, N)
<1> DEFINE q == Chunks(N)
           B == BufSize
<1>1. q \in Nat /\ q * B <= N + B - 1 /\ N + B - 1 < q * B + B
  <2>1. N + B - 1 \in Nat /\ B \in Nat \ {0}
    OBVIOUS
  <2> QED BY <2>1 DEF Chunks
<1> HIDE DEF q
<1>2. q * B \in Nat /\ q * B >= N
  <2>1. q * B \in Int
    BY <1>1
  <2>2. q * B >= 0
    BY <1>1
  <2> QED BY <1>1, <2>1, <2>2
<1>3. ASSUME NEW n \in 1 .. q
      PROVE  (n - 1) * B \in Nat /\ (n - 1) * B < N /\ n * B = (n - 1) * B + B /\ n * B \in Nat
  <2>1. n - 1 \in Nat /\ n \in Nat /\ n - 1 <= q - 1
    BY <1>1
  <2>2. (n - 1) * B <= (q - 1) * B
    BY <1>1, <2>1
  <2>3. (q - 1) * B = q * B - B
    BY <1>1
  <2>4. (n - 1) * B \in Nat /\ n * B \in Nat /\ n * B = (n - 1) * B + B
    BY <2>1
  <2> QED BY <1>1, <1>2, <2>2, <2>3, <2>4
<1>4. ASSUME NEW n \in 1 .. q
      PROVE  LET at == (n - 1) * BufSize
             IN  /\ at \in Nat /\ ReadLen(at, N) \in Nat /\ at + ReadLen(at, N) <= N
                 /\ Cut(n - 1, N) = at /\ Cut(n, N) = at + ReadLen(at, N)
  <2> DEFINE at == (n - 1) * B
  <2>1. at \in Nat /\ at < N /\ n * B = at + B
    BY <1>3
  <2>2. Cut(n - 1, N) = IF at <= N THEN at ELSE N
    BY DEF Cut
  <2>3. Cut(n, N) = IF n * B <= N THEN n * B ELSE N
    BY DEF Cut
  <2> HIDE DEF at
  <2>4. ReadLen(at, N) = IF at + B > N THEN N - at ELSE B
    BY DEF ReadLen
  <2>5. at \in Nat /\ ReadLen(at, N) \in Nat /\ at + ReadLen(at, N) <= N
    BY <2>1, <2>4
  <2>6. Cut(n - 1, N) = at
    BY <2>1, <2>2
  <2>7. Cut(n, N) = at + ReadLen(at, N)
    BY <2>1, <2>3, <2>4
  <2> QED BY <2>5, <2>6, <2>7 DEF at
<1>5. Cut(0, N) = 0 /\ Cut(q, N) = N
  BY <1>2 DEF Cut
<1> QED BY <1>1, <1>4, <1>5 DEF q

LEMMA OnFlash ==
  ASSUME NEW N \in Nat, image \in Seq(0 .. 255), Len(image) = N, BufSize \in Nat \ {0}, dma \in Nat, NEW crc_compare
  PROVE  check_crc_32_on_flash(N, crc_compare) = (dma \notin 1 .. Chunks(N) + 1 /\ Crc32(image) = crc_compare)
<1> DEFINE chunks == Chunks(N)
<1>1. image \in [1 .. N -> 0 .. 255]
  BY SeqIsWord
<1>2. PICK S, x : Sum32(S, x, N, image)
  BY <1>1, Sum32Is
<1>3. S[8 * 0] = crc32_converted_seed
  BY <1>2 DEF Sum32, ShiftsIn
<1>4. /\ chunks \in Nat /\ Cut(0, N) = 0 /\ Cut(chunks, N) = N
      /\ \A n \in 1 .. chunks :
           LET at == (n - 1) * BufSize
           IN  /\ at \in Nat /\ ReadLen(at, N) \in Nat /\ at + ReadLen(at, N) <= N
               /\ Cut(n - 1, N) = at /\ Cut(n, N) = at + ReadLen(at, N)
  BY ChunksAre
<1> DEFINE Chunk(n) == readStringFromSST25((n - 1) * BufSize, ReadLen((n - 1) * BufSize, N))
           Acc == CHOOSE f : f = [n \in 0 .. chunks |->
                    IF n = 0 THEN [ok |-> TRUE, crc |-> crc32_converted_seed]
                    ELSE IF f[n - 1].ok THEN crc_hw_32_add(n, Chunk(n), f[n - 1].crc) ELSE f[n - 1]]
           At(n) == S[8 * Cut(n, N)]
           f == [n \in 0 .. chunks |-> IF dma \in 1 .. n THEN [ok |-> FALSE, crc |-> At(dma)]
                                       ELSE [ok |-> TRUE, crc |-> At(n)]]
<1>5. ASSUME NEW n \in 1 .. chunks PROVE crc_hw_32_add(n, Chunk(n), At(n - 1)) = [ok |-> n # dma, crc |-> At(n)]
  <2> DEFINE at == (n - 1) * BufSize
             len == ReadLen(at, N)
             part == Chunk(n)
  <2>1. at \in Nat /\ len \in Nat /\ at + len <= N /\ Cut(n - 1, N) = at /\ Cut(n, N) = at + len
    BY <1>4
  <2>2. part = [i \in 1 .. len |-> IF at + i <= Len(image) THEN image[at + i] ELSE 255]
    BY DEF readStringFromSST25
  <2> HIDE DEF at, len, part
  <2>3. part = [i \in 1 .. len |-> image[at + i]]
    BY <2>1, <2>2
  <2>4. TakenFrom(part, at, len, image, N)
    BY <2>1, <2>3 DEF TakenFrom
  <2>5. Adds(n, part, S, at, len)
    BY <1>1, <1>2, <2>4, AddIs
  <2>6. crc_hw_32_add(n, part, S[8 * at]) = [ok |-> n # dma, crc |-> S[8 * (at + len)]]
    BY <2>5 DEF Adds
  <2>7. At(n - 1) = S[8 * at] /\ At(n) = S[8 * (at + len)]
    BY <2>1
  <2> HIDE DEF At
  <2> QED BY <2>6, <2>7 DEF part
<1> HIDE DEF Chunk
<1>6. ASSUME NEW n \in 1 .. chunks PROVE f[n] = IF f[n - 1].ok THEN crc_hw_32_add(n, Chunk(n), f[n - 1].crc) ELSE f[n - 1]
  <2> HIDE DEF At, chunks
  <2>1. n - 1 \in 0 .. chunks /\ n \in 0 .. chunks /\ n \in Nat
    BY <1>4
  <2>2. CASE dma \in 1 .. n - 1
    <3>1. dma \in 1 .. n
      BY <2>1, <2>2
    <3>2. f[n - 1] = [ok |-> FALSE, crc |-> At(dma)] /\ f[n] = [ok |-> FALSE, crc |-> At(dma)]
      BY <2>1, <2>2, <3>1
    <3> HIDE DEF f
    <3>3. f[n - 1].ok = FALSE
      BY <3>2
    <3> QED BY <3>2, <3>3
  <2>3. CASE dma \notin 1 .. n - 1
    <3>1. f[n - 1] = [ok |-> TRUE, crc |-> At(n - 1)]
      BY <2>1, <2>3
    <3>2. dma \in 1 .. n <=> n = dma
      BY <2>1, <2>3
    <3>3. f[n] = [ok |-> n # dma, crc |-> At(n)]
      <4>1. CASE n = dma
        <5>1. f[n] = [ok |-> FALSE, crc |-> At(n)]
          BY <2>1, <3>2, <4>1
        <5> QED BY <4>1, <5>1
      <4>2. CASE n # dma
        <5>1. f[n] = [ok |-> TRUE, crc |-> At(n)]
          BY <2>1, <3>2, <4>2
        <5> QED BY <4>2, <5>1
      <4> QED BY <4>1, <4>2
    <3> HIDE DEF f
    <3>4. f[n - 1].ok = TRUE /\ f[n - 1].crc = At(n - 1)
      BY <3>1
    <3>5. crc_hw_32_add(n, Chunk(n), f[n - 1].crc) = [ok |-> n # dma, crc |-> At(n)]
      BY <1>5, <3>4
    <3> QED BY <3>3, <3>4, <3>5
  <2> QED BY <2>2, <2>3
<1>7. f[0] = [ok |-> TRUE, crc |-> crc32_converted_seed]
  <2>1. 0 \in 0 .. chunks /\ dma \notin 1 .. 0 /\ At(0) = crc32_converted_seed
    BY <1>3, <1>4
  <2> HIDE DEF At, chunks
  <2> QED BY <2>1
<1>8. f = [n \in 0 .. chunks |-> f[n]]
  OBVIOUS
<1>9. f[chunks] = IF dma \in 1 .. chunks THEN [ok |-> FALSE, crc |-> At(dma)] ELSE [ok |-> TRUE, crc |-> At(chunks)]
  <2> HIDE DEF At, chunks
  <2>1. chunks \in 0 .. chunks
    BY <1>4
  <2> QED BY <2>1
<1> HIDE DEF f, chunks, At
<1>10. f = [n \in 0 .. chunks |-> IF n = 0 THEN [ok |-> TRUE, crc |-> crc32_converted_seed]
                                  ELSE IF f[n - 1].ok THEN crc_hw_32_add(n, Chunk(n), f[n - 1].crc) ELSE f[n - 1]]
  <2>1. ASSUME NEW n \in 0 .. chunks
        PROVE  f[n] = IF n = 0 THEN [ok |-> TRUE, crc |-> crc32_converted_seed]
                      ELSE IF f[n - 1].ok THEN crc_hw_32_add(n, Chunk(n), f[n - 1].crc) ELSE f[n - 1]
    <3>1. n # 0 => n \in 1 .. chunks
      BY <1>4
    <3> QED BY <1>6, <1>7, <3>1
  <2> QED BY <1>8, <2>1
<1>11. Acc = [n \in 0 .. chunks |-> IF n = 0 THEN [ok |-> TRUE, crc |-> crc32_converted_seed]
                                    ELSE IF Acc[n - 1].ok THEN crc_hw_32_add(n, Chunk(n), Acc[n - 1].crc) ELSE Acc[n - 1]]
  BY <1>10, Zenon
<1> DEFINE last == IF Acc[chunks].ok THEN crc_hw_32_final(chunks + 1, Acc[chunks].crc) ELSE Acc[chunks]
<1>12. check_crc_32_on_flash(N, crc_compare) = (last.ok /\ last.crc = crc_compare)
  BY Zenon DEF check_crc_32_on_flash, chunks, Chunks, Chunk
<1> HIDE DEF Acc
<1> DEFINE J == {n \in 0 .. chunks : Acc[n] = f[n]}
<1>13. 0 \in J
  <2>1. 0 \in 0 .. chunks
    BY <1>4
  <2> QED BY <1>7, <1>11, <2>1
<1>14. ASSUME NEW n \in 1 .. chunks, n - 1 \in J PROVE n \in J
  <2>1. n \in 0 .. chunks /\ n # 0 /\ Acc[n - 1] = f[n - 1]
    BY <1>4, <1>14
  <2>2. Acc[n] = IF Acc[n - 1].ok THEN crc_hw_32_add(n, Chunk(n), Acc[n - 1].crc) ELSE Acc[n - 1]
    BY <1>11, <2>1
  <2>3. Acc[n] = f[n]
    BY <1>6, <2>1, <2>2
  <2> QED BY <2>1, <2>3
<1> HIDE DEF J
<1>15. \A n \in 0 .. chunks : n \in J
  BY <1>4, <1>13, <1>14, UpTheNumbers
<1>16. Acc[chunks] = f[chunks]
  <2>1. chunks \in 0 .. chunks
    BY <1>4
  <2> QED BY <1>15, <2>1 DEF J
<1>17. CASE dma \in 1 .. chunks
  <2>1. Acc[chunks] = [ok |-> FALSE, crc |-> At(dma)]
    BY <1>9, <1>16, <1>17
  <2>2. Acc[chunks].ok = FALSE
    BY <2>1
  <2>3. last.ok = FALSE
    BY <2>2
  <2>4. dma \in 1 .. chunks + 1
    BY <1>4, <1>17
  <2> QED BY <1>12, <2>3, <2>4 DEF chunks
<1>18. CASE dma \notin 1 .. chunks
  <2>1. Acc[chunks] = [ok |-> TRUE, crc |-> At(chunks)]
    BY <1>9, <1>16, <1>18
  <2>2. Acc[chunks].ok = TRUE /\ Acc[chunks].crc = At(chunks)
    BY <2>1
  <2>3. At(chunks) = S[8 * N]
    BY <1>4 DEF At
  <2>4. /\ S[8 * N] \in Word(32) /\ x \in Word(32) /\ Pads(32, crc32_polynomial, S[8 * N], Reverse(x))
        /\ Crc32(image) = Xor(x, Ones(32))
    BY <1>2 DEF Sum32
  <2>5. crc_hw_32_final(chunks + 1, At(chunks)) = [ok |-> chunks + 1 # dma, crc |-> Crc32(image)]
    BY <2>3, <2>4, FinalIs
  <2>6. last = [ok |-> chunks + 1 # dma, crc |-> Crc32(image)]
    BY <2>2, <2>5
  <2> HIDE DEF last
  <2>7. last.ok = (chunks + 1 # dma) /\ last.crc = Crc32(image)
    BY <2>6
  <2>8. dma \in 1 .. chunks + 1 <=> chunks + 1 = dma
    BY <1>4, <1>18
  <2> QED BY <1>12, <2>7, <2>8 DEF chunks
<1> QED BY <1>17, <1>18

-----------------------------------------------------------------------------
(* The digits of a word, turned to bytes in their place.                   *)

LEMMA NumberOfByte == ASSUME NEW bits \in Word(8) PROVE NumberOf(bits) \in 0 .. 255
<1> DEFINE F == CHOOSE f : f = [i \in 0 .. Len(bits) |-> IF i = 0 THEN 0 ELSE 2 * f[i - 1] + bits[i]]
           G == [i \in 1 .. 8 |-> [x \in Nat |-> 2 * x + bits[i]]]
<1>1. Len(bits) = 8 /\ \A i \in 1 .. 8 : bits[i] \in {0, 1}
  BY WordIs DEF Word, Bit
<1>2. G \in [1 .. 8 -> [Nat -> Nat]]
  BY <1>1
<1>3. PICK f : Runs(f, Nat, 0, G, 8)
  <2> HIDE DEF G
  <2> QED BY <1>2, Loops
<1>4. f \in [0 .. 8 -> Nat] /\ f[0] = 0 /\ \A i \in 1 .. 8 : f[i] = G[i][f[i - 1]]
  BY <1>3 DEF Runs
<1>5. ASSUME NEW i \in 1 .. 8 PROVE f[i] = 2 * f[i - 1] + bits[i]
  <2>1. i - 1 \in 0 .. 8
    OBVIOUS
  <2>2. f[i - 1] \in Nat
    BY <1>4, <2>1
  <2> QED BY <1>4, <2>2
<1> HIDE DEF G
<1>6. f = [i \in 0 .. 8 |-> IF i = 0 THEN 0 ELSE 2 * f[i - 1] + bits[i]]
  <2>1. ASSUME NEW i \in 0 .. 8 PROVE f[i] = IF i = 0 THEN 0 ELSE 2 * f[i - 1] + bits[i]
    <3>1. i # 0 => i \in 1 .. 8
      OBVIOUS
    <3> QED BY <1>4, <1>5, <3>1
  <2> QED BY <1>4, <2>1
<1>7. F = [i \in 0 .. 8 |-> IF i = 0 THEN 0 ELSE 2 * F[i - 1] + bits[i]]
  BY <1>1, <1>6, Zenon
<1>8. NumberOf(bits) = F[8]
  BY <1>1 DEF NumberOf
<1> HIDE DEF F
<1>9. F[0] = 0 /\ \A i \in 1 .. 8 : F[i] = 2 * F[i - 1] + bits[i]
  BY <1>7
<1>10. F[1] \in 0 .. 1
  BY <1>1, <1>9
<1>11. F[2] \in 0 .. 3
  BY <1>1, <1>9, <1>10
<1>12. F[3] \in 0 .. 7
  BY <1>1, <1>9, <1>11
<1>13. F[4] \in 0 .. 15
  BY <1>1, <1>9, <1>12
<1>14. F[5] \in 0 .. 31
  BY <1>1, <1>9, <1>13
<1>15. F[6] \in 0 .. 63
  BY <1>1, <1>9, <1>14
<1>16. F[7] \in 0 .. 127
  BY <1>1, <1>9, <1>15
<1>17. F[8] \in 0 .. 255
  BY SMTT(30), <1>1, <1>9, <1>16
<1> QED BY <1>8, <1>17

LEMMA HalvesOfByte ==
  ASSUME NEW x \in 0 .. 255
  PROVE  x \div 16 \in 0 .. 15 /\ x % 16 \in 0 .. 15 /\ 16 * (x \div 16) + (x % 16) = x
<1>1. x \div 16 \in 0 .. 15
  OBVIOUS
<1>2. x % 16 \in 0 .. 15
  OBVIOUS
<1>3. 16 * (x \div 16) + (x % 16) = x
  OBVIOUS
<1> QED BY <1>1, <1>2, <1>3

LEMMA DigitBack ==
  /\ \A x \in 0 .. 15 : Digit(x) \in Nat /\ asciihex2binChar(Digit(x)) = x
  /\ \A c \in Int : asciihex2binChar(c) \in 0 .. 15
BY DEF Digit, asciihex2binChar

LEMMA HexIs ==
  ASSUME NEW word \in Word(32)
  PROVE  /\ hex2str(word) \in [1 .. 8 -> Int]
         /\ \A i \in 1 .. 4 :
              /\ NumberOf(BytesOf(word)[i]) \in 0 .. 255
              /\ hex2str(word)[2 * i - 1] = Digit(NumberOf(BytesOf(word)[i]) \div 16)
              /\ hex2str(word)[2 * i] = Digit(NumberOf(BytesOf(word)[i]) % 16)
<1> DEFINE v == BytesOf(word)
           n(i) == NumberOf(v[i])
           s == [i \in DOMAIN v |-> binChar2AsciiHex(n(i))]
           F == FlattenSeq(s)
           m == 2
<1>1. v \in [1 .. 4 -> Word(8)]
  BY BytesOfWord
<1>2. hex2str(word) = F
  BY DEF hex2str
<1> HIDE DEF v
<1>3. \A i \in 1 .. 4 : n(i) \in 0 .. 255
  BY <1>1, NumberOfByte
<1> HIDE DEF n
<1>4. \A i \in 1 .. 4 : n(i) \div 16 \in 0 .. 15 /\ n(i) % 16 \in 0 .. 15
  BY <1>3
<1>5. s = [i \in 1 .. 4 |-> <<Digit(n(i) \div 16), Digit(n(i) % 16)>>]
  BY <1>1 DEF binChar2AsciiHex
<1>6. \A i \in 1 .. 4 : Digit(n(i) \div 16) \in Int /\ Digit(n(i) % 16) \in Int
  BY <1>4, DigitBack
<1> HIDE DEF s
<1>7. s \in [1 .. 4 -> [1 .. m -> Int]] /\ \A i \in 1 .. 4 : s[i][1] = Digit(n(i) \div 16) /\ s[i][2] = Digit(n(i) % 16)
  <2>1. \A i \in 1 .. 4 : <<Digit(n(i) \div 16), Digit(n(i) % 16)>> \in [1 .. 2 -> Int]
    BY <1>6
  <2> QED BY <1>5, <2>1
<1>8. /\ F \in Seq(Int) /\ Len(F) = 4 * m
      /\ \A j \in 1 .. m : F[j] = s[1][j] /\ F[m + j] = s[2][j] /\ F[2 * m + j] = s[3][j] /\ F[3 * m + j] = s[4][j]
  <2> DEFINE I == Int
  <2>1. m \in Nat /\ s \in [1 .. 4 -> [1 .. m -> I]]
    BY <1>7
  <2> HIDE DEF m, I, F
  <2>2. FourOf(I, m, s, FlattenSeq(s))
    BY <2>1, FourFlat
  <2> QED BY <2>2 DEF FourOf, F, I
<1> HIDE DEF F
<1>9. F \in [1 .. 8 -> Int]
  <2>1. Len(F) = 8
    BY <1>8
  <2> QED BY <1>8, <2>1, SeqIsWord
<1>10. /\ F[1] = s[1][1] /\ F[2] = s[1][2] /\ F[3] = s[2][1] /\ F[4] = s[2][2]
       /\ F[5] = s[3][1] /\ F[6] = s[3][2] /\ F[7] = s[4][1] /\ F[8] = s[4][2]
  <2>1. 1 \in 1 .. m /\ 2 \in 1 .. m
    OBVIOUS
  <2>2. F[1] = s[1][1] /\ F[m + 1] = s[2][1] /\ F[2 * m + 1] = s[3][1] /\ F[3 * m + 1] = s[4][1]
    BY <1>8, <2>1
  <2>3. F[2] = s[1][2] /\ F[m + 2] = s[2][2] /\ F[2 * m + 2] = s[3][2] /\ F[3 * m + 2] = s[4][2]
    BY <1>8, <2>1
  <2> QED BY <2>2, <2>3
<1>11. ASSUME NEW i \in 1 .. 4 PROVE F[2 * i - 1] = s[i][1] /\ F[2 * i] = s[i][2]
  <2>1. i = 1 \/ i = 2 \/ i = 3 \/ i = 4
    OBVIOUS
  <2>2. 2 * 1 - 1 = 1 /\ 2 * 2 - 1 = 3 /\ 2 * 3 - 1 = 5 /\ 2 * 4 - 1 = 7
        /\ 2 * 1 = 2 /\ 2 * 2 = 4 /\ 2 * 3 = 6 /\ 2 * 4 = 8
    OBVIOUS
  <2> QED BY <1>10, <2>1, <2>2
<1>12. \A i \in 1 .. 4 : F[2 * i - 1] = Digit(n(i) \div 16) /\ F[2 * i] = Digit(n(i) % 16)
  BY <1>7, <1>11
<1> QED BY <1>2, <1>3, <1>9, <1>12 DEF n, v

LEMMA BackFromHex ==
  ASSUME NEW word \in Word(32)
  PROVE  SubSeq(asciihexbytes_to_binary_buf(hex2str(word)), 1, 4) = [i \in 1 .. 4 |-> NumberOf(BytesOf(word)[i])]
<1> DEFINE h == hex2str(word)
           n(i) == NumberOf(BytesOf(word)[i])
           X == [1 .. 8 -> Int]
           Put(b, j) == [b EXCEPT ![j] = asciihexbytes_to_byte(b[2 * j - 1], b[2 * j])]
           After == CHOOSE f : f = [j \in 0 .. Len(h) \div 2 |-> IF j = 0 THEN h ELSE Put(f[j - 1], j)]
           G == [j \in 1 .. 4 |-> [b \in X |-> Put(b, j)]]
<1>1. /\ h \in X
      /\ \A i \in 1 .. 4 : n(i) \in 0 .. 255 /\ h[2 * i - 1] = Digit(n(i) \div 16) /\ h[2 * i] = Digit(n(i) % 16)
  BY HexIs
<1>2. asciihexbytes_to_binary_buf(h) = After[Len(h) \div 2]
  BY DEF asciihexbytes_to_binary_buf
<1> HIDE DEF h, n
<1>3. Len(h) \div 2 = 4
  <2>1. Len(h) = 8
    BY <1>1, WordIs
  <2> QED BY <2>1
<1>4. ASSUME NEW b \in X, NEW j \in 1 .. 4 PROVE Put(b, j) \in X
  <2>1. 2 * j - 1 \in 1 .. 8 /\ 2 * j \in 1 .. 8
    OBVIOUS
  <2>2. asciihexbytes_to_byte(b[2 * j - 1], b[2 * j]) \in Int
    <3>1. b[2 * j - 1] \in Int /\ b[2 * j] \in Int
      BY <2>1
    <3> QED BY <3>1, DigitBack DEF asciihexbytes_to_byte
  <2> QED BY <2>2
<1> HIDE DEF X
<1>5. G \in [1 .. 4 -> [X -> X]]
  BY <1>4
<1>6. PICK f : Runs(f, X, h, G, 4)
  <2> HIDE DEF G
  <2> QED BY <1>1, <1>5, Loops
<1>7. f \in [0 .. 4 -> X] /\ f[0] = h /\ \A j \in 1 .. 4 : f[j] = G[j][f[j - 1]]
  BY <1>6 DEF Runs
<1>8. ASSUME NEW j \in 1 .. 4 PROVE f[j] = Put(f[j - 1], j)
  <2>1. j - 1 \in 0 .. 4
    OBVIOUS
  <2>2. f[j - 1] \in X
    BY <1>7, <2>1
  <2> HIDE DEF Put
  <2> QED BY <1>7, <2>2
<1> HIDE DEF G, Put
<1>9. f = [j \in 0 .. 4 |-> IF j = 0 THEN h ELSE Put(f[j - 1], j)]
  <2>1. ASSUME NEW j \in 0 .. 4 PROVE f[j] = IF j = 0 THEN h ELSE Put(f[j - 1], j)
    <3>1. j # 0 => j \in 1 .. 4
      OBVIOUS
    <3> QED BY <1>7, <1>8, <3>1
  <2> QED BY <1>7, <2>1
<1>10. After = [j \in 0 .. 4 |-> IF j = 0 THEN h ELSE Put(After[j - 1], j)]
  BY <1>3, <1>9, Zenon
<1> HIDE DEF After
<1> DEFINE J == {j \in 0 .. 4 : /\ After[j] \in X
                                /\ \A i \in 1 .. j : After[j][i] = n(i)
                                /\ \A i \in j + 1 .. 8 : After[j][i] = h[i]}
<1>11. 0 \in J
  <2>1. After[0] = h
    BY <1>10
  <2> QED BY <1>1, <2>1
<1>12. ASSUME NEW j \in 1 .. 4, j - 1 \in J PROVE j \in J
  <2> DEFINE b == After[j - 1]
  <2>1. /\ b \in X
        /\ \A i \in 1 .. j - 1 : b[i] = n(i)
        /\ \A i \in j .. 8 : b[i] = h[i]
    <3>1. j - 1 + 1 = j
      OBVIOUS
    <3> QED BY <1>12, <3>1
  <2>2. After[j] = Put(b, j)
    BY <1>10
  <2> HIDE DEF b
  <2>3. 2 * j - 1 \in j .. 8 /\ 2 * j \in j .. 8 /\ j \in 1 .. 8
    OBVIOUS
  <2>4. b[2 * j - 1] = Digit(n(j) \div 16) /\ b[2 * j] = Digit(n(j) % 16)
    BY <1>1, <2>1, <2>3
  <2>5. asciihexbytes_to_byte(b[2 * j - 1], b[2 * j]) = n(j)
    <3> DEFINE high == n(j) \div 16
               low == n(j) % 16
    <3>0. n(j) \in 0 .. 255
      BY <1>1
    <3>1. high \in 0 .. 15 /\ low \in 0 .. 15 /\ 16 * high + low = n(j)
      BY <3>0, HalvesOfByte
    <3> HIDE DEF high, low
    <3>2. asciihex2binChar(b[2 * j - 1]) = high /\ asciihex2binChar(b[2 * j]) = low
      BY <2>4, <3>1, DigitBack DEF high, low
    <3>3. asciihexbytes_to_byte(b[2 * j - 1], b[2 * j]) = 16 * high + low
      BY <3>2 DEF asciihexbytes_to_byte
    <3> QED BY <3>1, <3>3
  <2>6. After[j] = [b EXCEPT ![j] = n(j)]
    BY <2>2, <2>5 DEF Put
  <2>7. After[j] \in X
    BY <1>4, <2>1, <2>2
  <2>8. \A i \in 1 .. 8 : After[j][i] = IF i = j THEN n(j) ELSE b[i]
    BY <2>1, <2>6 DEF X
  <2>9. \A i \in 1 .. j : After[j][i] = n(i)
    <3>1. \A i \in 1 .. j : i \in 1 .. 8 /\ (i # j => i \in 1 .. j - 1)
      OBVIOUS
    <3> QED BY <2>1, <2>8, <3>1
  <2>10. \A i \in j + 1 .. 8 : After[j][i] = h[i]
    <3>1. \A i \in j + 1 .. 8 : i \in 1 .. 8 /\ i # j /\ i \in j .. 8
      OBVIOUS
    <3> QED BY <2>1, <2>8, <3>1
  <2> QED BY <2>7, <2>9, <2>10
<1> HIDE DEF J
<1>13. \A j \in 0 .. 4 : j \in J
  BY <1>11, <1>12, UpTheNumbers
<1>14. \A i \in 1 .. 4 : After[4][i] = n(i)
  BY <1>13 DEF J
<1>15. SubSeq(After[4], 1, 4) = [i \in 1 .. 4 |-> After[4][i]]
  <2> DEFINE a == After[4]
  <2> HIDE DEF a
  <2>1. SubSeq(a, 1, 4) = [i \in 1 .. (1 + 4) - 1 |-> a[i + 1 - 1]]
    BY DEF SubSeq
  <2>2. (1 + 4) - 1 = 4 /\ \A i \in 1 .. 4 : i + 1 - 1 = i
    OBVIOUS
  <2>3. SubSeq(a, 1, 4) = [i \in 1 .. 4 |-> a[i]]
    BY <2>1, <2>2
  <2> QED BY <2>3 DEF a
<1>16. SubSeq(After[4], 1, 4) = [i \in 1 .. 4 |-> n(i)]
  BY <1>14, <1>15
<1> QED BY <1>2, <1>3, <1>16 DEF h, n

-----------------------------------------------------------------------------
(* The behaviours.                                                         *)

(* What the flash holds is bytes.                                          *)
SumInv ==
  /\ image = NoImage \/ image \in Seq(0 .. 255)
  /\ dma \in Nat

(* In every reachable state the image in the flash is a sequence of bytes  *)
(* and a transfer of the DMA is chosen that fails, or none.                *)
THEOREM MessageIsBytes == SumSpec => []SumInv
<1>1. SumInit => SumInv
  BY DEF SumInit, SumInv
<1>2. SumInv /\ [SumNext]_sumVars => SumInv'
  <2> SUFFICES ASSUME SumInv, [SumNext]_sumVars PROVE SumInv'
    OBVIOUS
  <2>1. ASSUME NEW message \in {<<>>} \cup Samples, NEW nth \in 0 .. Transfers, Choose(message, nth) PROVE SumInv'
    <3>1. message \in Seq(0 .. 255)
      <4>1. <<>> \in Seq(0 .. 255)
        OBVIOUS
      <4>2. Samples \subseteq Seq(0 .. 255)
        BY ChecksumAssumption
      <4> QED BY <4>1, <4>2, Zenon
    <3>2. nth \in Nat
      BY ChecksumAssumption
    <3> QED BY <2>1, <3>1, <3>2 DEF Choose, SumInv
  <2>2. ASSUME NEW b \in Bytes, Program(b) PROVE SumInv'
    <3>1. b \in 0 .. 255 /\ image \in Seq(0 .. 255)
      BY <2>2, ChecksumAssumption DEF Program, SumInv
    <3>2. Append(image, b) \in Seq(0 .. 255)
      BY <3>1, AppendProperties
    <3> QED BY <2>2, <3>2 DEF Program, SumInv
  <2>3. CASE UNCHANGED sumVars
    BY <2>3 DEF sumVars, SumInv
  <2> QED BY <2>1, <2>2, <2>3 DEF SumNext
<1> QED BY <1>1, <1>2, PTL DEF SumSpec

(* A sum with its last bit turned is not the sum.                          *)
LEMMA NotTheSum ==
  ASSUME NEW word \in Word(32)
  PROVE  Xor(word, Zeros(31) \o Ones(1)) # word
<1> DEFINE zeros == Zeros(31)
           ones == Ones(1)
           one == zeros \o ones
<1>1. zeros \in Seq(Bit) /\ Len(zeros) = 31
  <2>1. zeros \in [1 .. 31 -> Bit]
    BY ZerosAre DEF Word
  <2> HIDE DEF zeros
  <2> QED BY <2>1, WordIs
<1>2. ones \in Seq(Bit) /\ Len(ones) = 1 /\ ones[1] = 1
  <2>1. ones \in [1 .. 1 -> Bit]
    BY TheWords DEF Word
  <2>2. ones[1] = 1
    BY DEF Ones
  <2> HIDE DEF ones
  <2> QED BY <2>1, <2>2, WordIs
<1> HIDE DEF zeros, ones
<1>3. one[32] = 1
  <2>1. \A i \in 1 .. Len(zeros) + Len(ones) : one[i] = IF i <= Len(zeros) THEN zeros[i] ELSE ones[i - Len(zeros)]
    BY <1>1, <1>2, ConcatProperties
  <2> HIDE DEF one
  <2>2. 32 \in 1 .. Len(zeros) + Len(ones) /\ ~ (32 <= Len(zeros)) /\ 32 - Len(zeros) = 1
    BY <1>1, <1>2
  <2> QED BY <1>2, <2>1, <2>2
<1> HIDE DEF one
<1>4. Len(word) = 32 /\ word[32] \in {0, 1}
  BY WordIs DEF Word, Bit
<1>5. Xor(word, one)[32] = (word[32] + one[32]) % 2
  BY <1>4 DEF Xor
<1>6. Xor(word, one)[32] # word[32]
  BY <1>3, <1>4, <1>5
<1> QED BY <1>6 DEF one, zeros, ones

(* In every reachable state crc_hw_16 and crc_hw_32 give the standard      *)
(* checksums of the image or report the transfer that failed,              *)
(* check_crc_32_on_flash accepts that checksum and not the one that is     *)
(* nearest to it, whatever the size of its buffer, and the digits hex2str  *)
(* makes of it are turned back into its bytes.                             *)
THEOREM ChecksumsHold == SumSpec => []ChecksumsAreStandard
<1>1. SumInv => ChecksumsAreStandard
  <2> SUFFICES ASSUME SumInv, image # NoImage PROVE ChecksumsAreStandard
    BY DEF ChecksumsAreStandard
  <2> DEFINE n == Len(image)
             sum32 == Crc32(image)
             chunks == (n + BufSize - 1) \div BufSize
  <2>1. image \in Seq(0 .. 255) /\ n \in Nat /\ image \in [1 .. n -> 0 .. 255] /\ dma \in Nat
    BY SeqIsWord DEF SumInv
  <2>2. sum32 \in Word(32)
    <3>1. PICK S, x : Sum32(S, x, n, image)
      BY <2>1, Sum32Is
    <3>2. x \in Word(32) /\ sum32 = Xor(x, Ones(32)) /\ Ones(32) \in Word(32)
      BY <3>1, TheWords DEF Sum32
    <3> QED BY <3>2, XorIs
  <2>3. Gives(crc_hw_16(image), CrcCcitt(image))
    BY <2>1, Hw16
  <2>4. Gives(crc_hw_32(image), sum32)
    BY <2>1, Hw32
  <2>5. \A crc : check_crc_32_on_flash(n, crc) = (dma \notin 1 .. chunks + 1 /\ sum32 = crc)
    BY <2>1, ChecksumAssumption, OnFlash DEF Chunks
  <2>6. SubSeq(asciihexbytes_to_binary_buf(hex2str(sum32)), 1, 4) = [i \in 1 .. 4 |-> NumberOf(BytesOf(sum32)[i])]
    BY <2>2, BackFromHex
  <2>7. Xor(sum32, Zeros(31) \o Ones(1)) # sum32
    BY <2>2, NotTheSum
  <2>8. check_crc_32_on_flash(n, sum32) = (dma \notin 1 .. chunks + 1)
    BY <2>5
  <2>9. ~ check_crc_32_on_flash(n, Xor(sum32, Zeros(31) \o Ones(1)))
    BY <2>5, <2>7
  <2> QED BY <2>3, <2>4, <2>6, <2>8, <2>9 DEF ChecksumsAreStandard
<1> QED BY <1>1, MessageIsBytes, PTL

=============================================================================
