---------------------------- MODULE ParFileProofs ----------------------------
(***************************************************************************)
(* Proofs about the two downloads of parameters (ParFile, ParDownload),    *)
(* for every flash geometry, every set of responses, and any number of     *)
(* losses and downloads.                                                   *)
(***************************************************************************)
EXTENDS ParDownload, SequenceTheorems, WellFoundedInduction, TLAPS

-------------------------------------------------------------------------------
(* What the operators of the flash chip do.                                *)

LEMMA CSHighTyped ==
  ASSUME NEW ch \in Chip
  PROVE  CSHigh(ch) \in Chip
BY DEF Chip, CSHigh, Burnt, Program, Cell, EmptyLatch

LEMMA SectorEraseTyped ==
  ASSUME NEW ch \in Chip, NEW s
  PROVE  SectorErase(ch, s) \in Chip
BY DEF Chip, SectorErase, Cell, EmptyLatch

LEMMA PrepareWriteTyped ==
  ASSUME NEW ch \in Chip, NEW a \in Addr
  PROVE  PrepareWriteAtAddress(ch, a) \in Chip
BY DEF Chip, PrepareWriteAtAddress, EmptyLatch

LEMMA PowerUpTyped ==
  ASSUME NEW cells \in [Addr -> Cell]
  PROVE  PowerUp(cells) \in Chip
BY GeometryAssumption DEF Chip, PowerUp, EmptyLatch, Addr

\* An erase empties the sector and touches no other cell.
LEMMA SectorEraseErases ==
  ASSUME NEW ch \in Chip, NEW s
  PROVE  /\ SectorErase(ch, s).latch = EmptyLatch
         /\ \A a \in SectorFrom(s) : SectorErase(ch, s).cells[a] = Erased
         /\ \A a \in Addr \ SectorFrom(s) : SectorErase(ch, s).cells[a] = ch.cells[a]
BY DEF Chip, SectorErase, SectorFrom

-------------------------------------------------------------------------------
(* The last piece of a kind.                                               *)

\* A set of numbers up to n has a greatest one.
LEMMA Greatest ==
  ASSUME NEW n \in Nat, NEW I \in SUBSET (1 .. n), I # {}
  PROVE  Max(I) \in I /\ \A i \in I : Max(I) >= i
<1> DEFINE T == {n - i : i \in I}
<1>1. T \subseteq Nat /\ T # {}
  <2>1. \A i \in I : n - i \in Nat
    OBVIOUS
  <2>2. T \subseteq Nat
    BY <2>1, Zenon
  <2>3. T # {}
    BY Zenon
  <2> QED BY <2>2, <2>3
<1>2. PICK t \in T : \A u \in T : ~ (<<u, t>> \in OpToRel(<, Nat))
  BY <1>1, NatLessThanWellFounded, WFMin
<1>3. \A u \in T : ~ (u < t)
  BY <1>1, <1>2 DEF OpToRel
<1>4. PICK m \in I : t = n - m
  OBVIOUS
<1>5. \A i \in I : m >= i
  BY SMTT(30), <1>3, <1>4
<1>6. \E x \in I : \A y \in I : x >= y
  BY <1>5
<1> QED BY <1>6, Zenon DEF Max

LastDollar(V) == SelectLastInSeq(V, IsDollar)
LastColon(V) == SelectLastInSeq(V, HasColon)
LastRecord(V) == SelectLastInSeq(V, IsRecord)

LEMMA LastDollarIs ==
  ASSUME NEW V \in Seq(Pieces)
  PROVE  /\ LastDollar(V) \in 0 .. Len(V)
         /\ LastDollar(V) > 0 => V[LastDollar(V)].kind = "dollar"
         /\ \A j \in 1 .. Len(V) : j > LastDollar(V) => V[j].kind # "dollar"
<1> DEFINE I == {i \in 1 .. Len(V) : IsDollar(V[i])}
<1>1. LastDollar(V) = IF I # {} THEN Max(I) ELSE 0
  BY Zenon DEF LastDollar, SelectLastInSeq
<1>2. I # {} => Max(I) \in I /\ \A i \in I : Max(I) >= i
  BY Greatest, Len(V) \in Nat
<1> HIDE DEF I
<1>3. CASE I # {}
  <2>1. Max(I) \in 1 .. Len(V) /\ IsDollar(V[Max(I)])
    BY <1>2, <1>3 DEF I
  <2>2. \A j \in 1 .. Len(V) : IsDollar(V[j]) => j \in I
    BY DEF I
  <2> QED BY <1>1, <1>2, <1>3, <2>1, <2>2 DEF IsDollar
<1>4. CASE I = {}
  <2>1. \A j \in 1 .. Len(V) : ~ IsDollar(V[j])
    BY <1>4 DEF I
  <2> QED BY <1>1, <1>4, <2>1 DEF IsDollar
<1> QED BY <1>3, <1>4

LEMMA LastColonIs ==
  ASSUME NEW V \in Seq(Pieces)
  PROVE  /\ LastColon(V) \in 0 .. Len(V)
         /\ LastColon(V) > 0 => HasColon(V[LastColon(V)])
         /\ \A j \in 1 .. Len(V) : j > LastColon(V) => ~ HasColon(V[j])
<1> DEFINE I == {i \in 1 .. Len(V) : HasColon(V[i])}
<1>1. LastColon(V) = IF I # {} THEN Max(I) ELSE 0
  BY Zenon DEF LastColon, SelectLastInSeq
<1>2. I # {} => Max(I) \in I /\ \A i \in I : Max(I) >= i
  BY Greatest, Len(V) \in Nat
<1> HIDE DEF I
<1>3. CASE I # {}
  <2>1. Max(I) \in 1 .. Len(V) /\ HasColon(V[Max(I)])
    BY <1>2, <1>3 DEF I
  <2>2. \A j \in 1 .. Len(V) : HasColon(V[j]) => j \in I
    BY DEF I
  <2> QED BY <1>1, <1>2, <1>3, <2>1, <2>2
<1>4. CASE I = {}
  <2>1. \A j \in 1 .. Len(V) : ~ HasColon(V[j])
    BY <1>4 DEF I
  <2> QED BY <1>1, <1>4, <2>1
<1> QED BY <1>3, <1>4

LEMMA LastRecordIs ==
  ASSUME NEW V \in Seq(Pieces)
  PROVE  /\ LastRecord(V) \in 0 .. Len(V)
         /\ LastRecord(V) > 0 => V[LastRecord(V)].kind = "record"
         /\ \A j \in 1 .. Len(V) : j > LastRecord(V) => V[j].kind # "record"
<1> DEFINE I == {i \in 1 .. Len(V) : IsRecord(V[i])}
<1>1. LastRecord(V) = IF I # {} THEN Max(I) ELSE 0
  BY Zenon DEF LastRecord, SelectLastInSeq
<1>2. I # {} => Max(I) \in I /\ \A i \in I : Max(I) >= i
  BY Greatest, Len(V) \in Nat
<1> HIDE DEF I
<1>3. CASE I # {}
  <2>1. Max(I) \in 1 .. Len(V) /\ IsRecord(V[Max(I)])
    BY <1>2, <1>3 DEF I
  <2>2. \A j \in 1 .. Len(V) : IsRecord(V[j]) => j \in I
    BY DEF I
  <2> QED BY <1>1, <1>2, <1>3, <2>1, <2>2 DEF IsRecord
<1>4. CASE I = {}
  <2>1. \A j \in 1 .. Len(V) : ~ IsRecord(V[j])
    BY <1>4 DEF I
  <2> QED BY <1>1, <1>4, <2>1 DEF IsRecord
<1> QED BY <1>3, <1>4

USE GeometryAssumption, CellAssumption, RecordAssumption, FilesAssumption

\* Cutting a text behind what is looked for, and in front of what else holds the
\* same, changes nothing.
LEMMA CutKeepsColon ==
  ASSUME NEW V \in Seq(Pieces), NEW n \in 1 .. Len(V), LastColon(V) < n
  PROVE  /\ SubSeq(V, 1, n) \in Seq(Pieces) /\ Len(SubSeq(V, 1, n)) = n
         /\ \A j \in 1 .. n : SubSeq(V, 1, n)[j] = V[j]
         /\ LastColon(SubSeq(V, 1, n)) = LastColon(V)
<1> DEFINE W == SubSeq(V, 1, n)
<1>1. W \in Seq(Pieces) /\ Len(W) = n /\ \A j \in 1 .. n : W[j] = V[j]
  BY SubSeqProperties
<1> HIDE DEF W
<1>2. /\ LastColon(V) \in 0 .. Len(V)
      /\ LastColon(V) > 0 => HasColon(V[LastColon(V)])
      /\ \A j \in 1 .. Len(V) : j > LastColon(V) => ~ HasColon(V[j])
  BY LastColonIs
<1>3. /\ LastColon(W) \in 0 .. n
      /\ LastColon(W) > 0 => HasColon(W[LastColon(W)])
      /\ \A j \in 1 .. n : j > LastColon(W) => ~ HasColon(W[j])
  BY <1>1, LastColonIs
<1>4. LastColon(W) = LastColon(V)
  <2>1. ~ (LastColon(W) < LastColon(V))
    BY <1>1, <1>2, <1>3
  <2>2. ~ (LastColon(W) > LastColon(V))
    BY SMTT(30), <1>1, <1>2, <1>3
  <2> QED BY <1>2, <1>3, <2>1, <2>2
<1> QED BY <1>1, <1>4 DEF W
-------------------------------------------------------------------------------
(* What the operators of the two downloads return.                         *)

LEMMA MinTwo ==
  ASSUME NEW m \in Int, NEW n \in Int
  PROVE  Min({m, n}) = IF m <= n THEN m ELSE n
<1> DEFINE S == {m, n}
<1>1. \E x \in S : \A y \in S : x =< y
  OBVIOUS
<1>2. Min(S) \in S /\ \A y \in S : Min(S) =< y
  BY <1>1, Zenon DEF Min
<1> QED BY <1>2

\* Everything up to a length, and what the record is cut into.
LEMMA RecordParts ==
  ASSUME NEW b \in Seq(Byte)
  PROVE  /\ StringBytes(b) \in Seq(Byte) /\ Len(StringBytes(b)) <= RecordLength
         /\ MaskBytes(b) \in Seq(Byte) /\ Len(MaskBytes(b)) <= RecordLength
         /\ Len(b) >= RecordLength => Len(StringBytes(b)) = RecordLength
         /\ Len(b) < RecordLength => Len(StringBytes(b)) = Len(b)
         /\ Len(b) >= 2 * RecordLength =>
              /\ StringBytes(b) = SubSeq(b, 1, RecordLength)
              /\ MaskBytes(b) = SubSeq(b, RecordLength + 1, 2 * RecordLength)
              /\ Len(MaskBytes(b)) = RecordLength
<1> DEFINE s == Min({Len(b), RecordLength})
           t == Min({Len(b), 2 * RecordLength})
<1>1. Len(b) \in Nat /\ RecordLength \in Nat /\ RecordLength > 0
  OBVIOUS
<1>2. s = IF Len(b) <= RecordLength THEN Len(b) ELSE RecordLength
  BY <1>1, MinTwo
<1>3. t = IF Len(b) <= 2 * RecordLength THEN Len(b) ELSE 2 * RecordLength
  BY <1>1, MinTwo
<1>4. StringBytes(b) = SubSeq(b, 1, s) /\ MaskBytes(b) = SubSeq(b, RecordLength + 1, t)
  BY DEF StringBytes, MaskBytes
<1> HIDE DEF s, t
<1>5. s \in Nat /\ s <= Len(b) /\ t \in Nat /\ t <= Len(b)
  BY <1>1, <1>2, <1>3
<1>6. /\ SubSeq(b, 1, s) \in Seq(Byte) /\ Len(SubSeq(b, 1, s)) = s
  <2>1. Len(SubSeq(b, 1, s)) = IF 1 <= s THEN s - 1 + 1 ELSE 0
    BY <1>1, <1>5, SubSeqProperties
  <2>2. SubSeq(b, 1, s) \in Seq(Byte)
    BY <1>1, <1>5, SubSeqProperties
  <2> QED BY <1>5, <2>1, <2>2
<1>7. /\ SubSeq(b, RecordLength + 1, t) \in Seq(Byte)
      /\ Len(SubSeq(b, RecordLength + 1, t)) =
           IF RecordLength + 1 <= t THEN t - RecordLength ELSE 0
  <2>1. \A i \in RecordLength + 1 .. t : b[i] \in Byte
    BY <1>1, <1>5
  <2>2. SubSeq(b, RecordLength + 1, t) \in Seq(Byte)
    BY <1>1, <1>5, <2>1, SubSeqProperties
  <2>3. Len(SubSeq(b, RecordLength + 1, t)) =
          IF RecordLength + 1 <= t THEN t - (RecordLength + 1) + 1 ELSE 0
    BY <1>1, <1>5, <2>1, SubSeqProperties
  <2> QED BY <1>1, <1>5, <2>2, <2>3
<1>8. StringBytes(b) \in Seq(Byte) /\ Len(StringBytes(b)) = s
  BY <1>4, <1>6
<1>9. MaskBytes(b) \in Seq(Byte)
      /\ Len(MaskBytes(b)) = IF RecordLength + 1 <= t THEN t - RecordLength ELSE 0
  BY <1>4, <1>7
<1>10. Len(b) >= 2 * RecordLength => s = RecordLength /\ t = 2 * RecordLength
  BY <1>1, <1>2, <1>3
<1>11. s <= RecordLength /\ t <= 2 * RecordLength
  BY <1>1, <1>2, <1>3
<1>12. Len(MaskBytes(b)) <= RecordLength
  BY <1>1, <1>5, <1>9, <1>11
<1>13. Len(b) >= 2 * RecordLength =>
              /\ StringBytes(b) = SubSeq(b, 1, RecordLength)
              /\ MaskBytes(b) = SubSeq(b, RecordLength + 1, 2 * RecordLength)
              /\ Len(MaskBytes(b)) = RecordLength
  BY <1>1, <1>4, <1>9, <1>10
<1>14. /\ Len(b) >= RecordLength => Len(StringBytes(b)) = RecordLength
       /\ Len(b) < RecordLength => Len(StringBytes(b)) = Len(b)
       /\ Len(StringBytes(b)) <= RecordLength
  BY <1>1, <1>2, <1>8
<1> QED BY <1>8, <1>9, <1>12, <1>13, <1>14

Store1 == [1 .. RecordLength -> Byte]

LEMMA OverlayTyped ==
  ASSUME NEW old \in Store1, NEW new \in Seq(Byte), Len(new) <= RecordLength
  PROVE  /\ Overlay(old, new) \in Store1
         /\ Overlay(old, new) \in Seq(Byte) /\ Len(Overlay(old, new)) = RecordLength
         /\ Len(new) = RecordLength => Overlay(old, new) = new
<1> DEFINE rest == SubSeq(old, Len(new) + 1, RecordLength)
<1>1. old \in Seq(Byte) /\ Len(old) = RecordLength
  BY DEF Store1
<1>2. Len(new) \in Nat /\ RecordLength \in Nat
  OBVIOUS
<1>3. rest \in Seq(Byte)
  BY <1>1, <1>2, SubSeqProperties
<1>4. Len(rest) = RecordLength - Len(new)
  <2>1. Len(rest) = IF Len(new) + 1 <= RecordLength
                    THEN RecordLength - (Len(new) + 1) + 1 ELSE 0
    BY <1>1, <1>2, SubSeqProperties
  <2> QED BY <1>2, <2>1
<1> HIDE DEF rest
<1>5. new \o rest \in Seq(Byte) /\ Len(new \o rest) = RecordLength
  <2>1. new \o rest \in Seq(Byte) /\ Len(new \o rest) = Len(new) + Len(rest)
    BY <1>3, ConcatProperties
  <2> QED BY <1>2, <1>4, <2>1
<1>6. new \o rest \in Store1
  <2> DEFINE whole == new \o rest
  <2>1. whole \in Seq(Byte) /\ Len(whole) = RecordLength
    BY <1>5
  <2> HIDE DEF whole
  <2>2. whole \in [1 .. Len(whole) -> Byte]
    BY <2>1, LenProperties
  <2>3. whole \in Store1
    BY <2>1, <2>2 DEF Store1
  <2> QED BY <2>3 DEF whole
<1>7. ASSUME Len(new) = RecordLength PROVE new \o rest = new
  <2>1. rest = <<>>
    BY <1>3, <1>4, <1>7, EmptySeq
  <2> QED BY <2>1, ConcatEmptySeq
<1> QED BY <1>5, <1>6, <1>7 DEF Overlay, rest

LEMMA WriteStringTyped ==
  ASSUME NEW chip \in Chip, NEW a \in Int, NEW bytes \in Seq(Byte)
  PROVE  /\ WriteString(chip, a, bytes) \in Chip
         /\ \A x \in Addr : WriteString(chip, a, bytes).cells[x] =
              IF x >= a /\ x < a + Len(bytes)
              THEN Program(chip.cells[x], bytes[x - a + 1]) ELSE chip.cells[x]
<1> DEFINE c == [x \in Addr |-> IF x >= a /\ x < a + Len(bytes)
                                THEN Program(chip.cells[x], bytes[x - a + 1])
                                ELSE chip.cells[x]]
<1>1. c \in [Addr -> Cell]
  <2> SUFFICES ASSUME NEW x \in Addr PROVE c[x] \in Cell
    OBVIOUS
  <2>1. chip.cells[x] \in Cell
    BY DEF Chip
  <2>2. CASE x >= a /\ x < a + Len(bytes)
    <3>1. x - a + 1 \in 1 .. Len(bytes)
      BY <2>2 DEF Addr
    <3>2. bytes[x - a + 1] \in Byte
      BY <3>1
    <3>3. Program(chip.cells[x], bytes[x - a + 1]) \in Cell
      BY <3>2 DEF Program, Cell
    <3> QED BY <2>2, <3>3
  <2>3. CASE ~ (x >= a /\ x < a + Len(bytes))
    BY <2>1, <2>3
  <2> QED BY <2>2, <2>3
<1>2. WriteString(chip, a, bytes) = [chip EXCEPT !.cells = c]
  BY DEF WriteString
<1>3. \A x \in Addr : c[x] = IF x >= a /\ x < a + Len(bytes)
              THEN Program(chip.cells[x], bytes[x - a + 1]) ELSE chip.cells[x]
  OBVIOUS
<1> HIDE DEF c
<1>4. [chip EXCEPT !.cells = c] \in Chip
  BY <1>1 DEF Chip
<1>5. [chip EXCEPT !.cells = c].cells = c
  BY DEF Chip
<1> QED BY <1>2, <1>3, <1>4, <1>5

LEMMA EraseAtTyped ==
  ASSUME NEW chip \in Chip, NEW list, NEW a
  PROVE  EraseAt(chip, list, a) \in Chip
BY SectorEraseTyped DEF EraseAt

LEMMA SectorNumberTyped ==
  ASSUME NEW a \in Addr
  PROVE  SectorNumber(a) \in Nat
BY DEF SectorNumber, sectorSize, Addr

LEMMA AddSectorTyped ==
  ASSUME NEW list \in Seq(Nat), NEW a \in Addr
  PROVE  AddSector(list, a) \in Seq(Nat)
BY SectorNumberTyped DEF AddSector
-------------------------------------------------------------------------------
(* What the string functions see of the buffer.                            *)

Seen(buffer, n) == IF n = 0 THEN buffer ELSE SubSeq(buffer, 1, n)

LEMMA SeenIs ==
  ASSUME NEW buffer \in Seq(Pieces), NEW n \in 0 .. Len(buffer)
  PROVE  /\ Seen(buffer, n) \in Seq(Pieces)
         /\ Len(Seen(buffer, n)) = IF n = 0 THEN Len(buffer) ELSE n
         /\ \A j \in 1 .. Len(Seen(buffer, n)) : Seen(buffer, n)[j] = buffer[j]
<1>1. Len(buffer) \in Nat
  OBVIOUS
<1>2. CASE n = 0
  BY <1>2 DEF Seen
<1>3. CASE n # 0
  <2> DEFINE W == SubSeq(buffer, 1, n)
  <2>1. W \in Seq(Pieces)
    BY <1>1, SubSeqProperties
  <2>2. Len(W) = n
    <3>1. Len(W) = IF 1 <= n THEN n - 1 + 1 ELSE 0
      BY <1>1, SubSeqProperties
    <3> QED BY <1>3, <3>1
  <2>3. \A j \in 1 .. n : W[j] = buffer[j]
    <3>1. \A j \in 1 .. n - 1 + 1 : W[j] = buffer[1 + j - 1]
      BY <1>1, SubSeqProperties
    <3> QED BY <3>1
  <2> QED BY <1>3, <2>1, <2>2, <2>3 DEF Seen
<1> QED BY <1>2, <1>3

\* What comes behind the first NUL is never seen.
LEMMA SeenNoFurther ==
  ASSUME NEW buffer \in Seq(Pieces), NEW n \in 1 .. Len(buffer), NEW piece \in Pieces
  PROVE  Seen(Append(buffer, piece), n) = Seen(buffer, n)
<1> DEFINE longer == Append(buffer, piece)
<1>1. /\ longer \in Seq(Pieces) /\ Len(longer) = Len(buffer) + 1
      /\ \A j \in 1 .. Len(buffer) : longer[j] = buffer[j]
  OBVIOUS
<1> HIDE DEF longer
<1>2. /\ Seen(longer, n) \in Seq(Pieces) /\ Len(Seen(longer, n)) = n
      /\ \A j \in 1 .. n : Seen(longer, n)[j] = longer[j]
  <2>1. n \in 0 .. Len(longer) /\ n # 0
    BY <1>1
  <2>2. /\ Seen(longer, n) \in Seq(Pieces)
        /\ Len(Seen(longer, n)) = IF n = 0 THEN Len(longer) ELSE n
        /\ \A j \in 1 .. Len(Seen(longer, n)) : Seen(longer, n)[j] = longer[j]
    BY <1>1, <2>1, SeenIs
  <2>3. Len(Seen(longer, n)) = n
    BY <2>1, <2>2
  <2> QED BY <2>2, <2>3
<1>3. /\ Seen(buffer, n) \in Seq(Pieces) /\ Len(Seen(buffer, n)) = n
      /\ \A j \in 1 .. n : Seen(buffer, n)[j] = buffer[j]
  BY SeenIs
<1>4. Seen(longer, n) = Seen(buffer, n)
  BY <1>1, <1>2, <1>3, SeqEqual
<1> QED BY <1>4 DEF longer

\* A second cut in front of the first one.
LEMMA SeenCutAgain ==
  ASSUME NEW buffer \in Seq(Pieces), NEW n \in 0 .. Len(buffer),
         NEW c \in 1 .. Len(Seen(buffer, n))
  PROVE  c \in 1 .. Len(buffer) /\ Seen(buffer, c) = SubSeq(Seen(buffer, n), 1, c)
<1> DEFINE V == Seen(buffer, n)
<1>1. /\ V \in Seq(Pieces) /\ Len(V) = IF n = 0 THEN Len(buffer) ELSE n
      /\ \A j \in 1 .. Len(V) : V[j] = buffer[j]
  BY SeenIs
<1>2. c \in 1 .. Len(V) /\ c \in 1 .. Len(buffer)
  BY <1>1
<1> HIDE DEF V
<1>3. /\ Seen(V, c) \in Seq(Pieces) /\ Len(Seen(V, c)) = c
      /\ \A j \in 1 .. c : Seen(V, c)[j] = V[j]
  BY <1>1, <1>2, SeenIs
<1>4. /\ Seen(buffer, c) \in Seq(Pieces) /\ Len(Seen(buffer, c)) = c
      /\ \A j \in 1 .. c : Seen(buffer, c)[j] = buffer[j]
  BY <1>2, SeenIs
<1>5. Seen(buffer, c) = Seen(V, c)
  BY <1>1, <1>2, <1>3, <1>4, SeqEqual
<1>6. Seen(V, c) = SubSeq(V, 1, c)
  BY <1>2 DEF Seen
<1> QED BY <1>2, <1>5, <1>6 DEF V

LEMMA VisibleIsSeen ==
  /\ Visible = Seen(inputbuf, nul)
  /\ DollarAt = LastDollar(Visible)
  /\ PayloadStart = LastColon(Visible) + 1
  /\ CutLine = LastRecord(Visible)
BY DEF Visible, Seen, DollarAt, LastDollar, PayloadStart, LastColon, CutLine, LastRecord

-------------------------------------------------------------------------------
(* The inductive invariant of a transaction.                               *)

\* A payload is a file from its record to its '$'.
PartOf(p, file, l) ==
  /\ file[2].kind = "record" /\ file[l].kind = "dollar"
  /\ p = SubSeq(file, 2, l)

Whole ==
  payload # <<>> => \E file \in Files : \E l \in 2 .. Len(file) : PartOf(payload, file, l)

\* A text that cannot be taken for a response: no '$' with a checksum behind it
\* follows the last colon.
SpentText(V) == LastDollar(V) <= LastColon(V) \/ LastDollar(V) = Len(V)

\* A text that stays like this when the parser cuts it behind its last record.
CutText(V) ==
  /\ \E r \in LastColon(V) + 1 .. Len(V) : V[r].kind = "record"
  /\ \A j \in LastColon(V) + 1 .. Len(V) - 1 : V[j].kind # "dollar"

\* Where the download is.
Flow ==
  /\ pc = "idle" => wire = <<>>
  /\ pc # "idle" => downloads > 0
  /\ pc \in PC_Par => payload = <<>> /\ extended = <<>>
  /\ pc \in {"record", "lines"} => payload # <<>>

\* What was verified once is cut apart, and stays so.
Once ==
  /\ transactions \in {0, 1}
  /\ transactions = 1 => nul > 0
  /\ nul > 0 => SpentText(Seen(inputbuf, nul))
  /\ pc \in {"record", "lines"} => transactions = 1 /\ CutText(Seen(inputbuf, nul))
  /\ transactions = 0 \/ pc = "record" => sectors = <<>>

IInv == ParTypeOK /\ Flow /\ Whole /\ Once

LEMMA PartIs ==
  ASSUME FilesWellFormed, NEW file \in Files, NEW l \in 2 .. Len(file), NEW p,
         PartOf(p, file, l)
  PROVE  /\ p \in Seq(Pieces) /\ Len(p) = l - 1
         /\ \A j \in 1 .. l - 1 : p[j] = file[j + 1]
         /\ p[1].kind = "record" /\ p[l - 1].kind = "dollar"
         /\ \A j \in 1 .. l - 1 : /\ p[j].kind = "record" => j = 1
                                  /\ p[j].kind = "dollar" => j = l - 1
<1>1. file \in Seq(Pieces) /\ Len(file) \in Nat
  OBVIOUS
<1>2. \A i \in 2 .. l : file[i] \in Pieces
  BY <1>1
<1>3. p \in Seq(Pieces)
  BY <1>2, SubSeqProperties DEF PartOf
<1>4. Len(p) = l - 1
  <2>1. Len(p) = IF 2 <= l THEN l - 2 + 1 ELSE 0
    BY <1>2, SubSeqProperties DEF PartOf
  <2> QED BY <2>1
<1>5. \A j \in 1 .. l - 1 : p[j] = file[j + 1]
  <2>1. \A j \in 1 .. l - 2 + 1 : p[j] = file[2 + j - 1]
    BY <1>2, SubSeqProperties DEF PartOf
  <2> QED BY <2>1
<1>6. p[1].kind = "record" /\ p[l - 1].kind = "dollar"
  <2>1. p[1] = file[2] /\ p[l - 1] = file[l]
    BY <1>5
  <2> QED BY <2>1 DEF PartOf
<1>7. ASSUME NEW j \in 1 .. l - 1
      PROVE  /\ p[j].kind = "record" => j = 1
             /\ p[j].kind = "dollar" => j = l - 1
  <2>1. p[j] = file[j + 1] /\ j + 1 \in 1 .. Len(file)
    BY <1>1, <1>5
  <2>2. WellFormed(file) /\ l \in 1 .. Len(file) /\ file[l].kind = "dollar"
    BY <1>1 DEF FilesWellFormed, PartOf
  <2>3. file[j + 1].kind = "record" => j + 1 = 2
    BY <2>1, <2>2 DEF WellFormed
  <2>4. file[j + 1].kind = "dollar" => j + 1 = l
    BY <2>1, <2>2 DEF WellFormed, IsDollar
  <2> QED BY <2>1, <2>3, <2>4
<1> QED BY <1>3, <1>4, <1>5, <1>6, <1>7

\* What is verified is the part of a file that its checksum covers: the text from
\* the last colon to the last '$'.
LEMMA VerifiedIsPart ==
  ASSUME FilesWellFormed, inputbuf \in Seq(Pieces), nul \in 0 .. Len(inputbuf),
         ChecksumMatches
  PROVE  /\ HasChecksum
         /\ LastColon(Visible) + 1 <= LastDollar(Visible)
         /\ LastDollar(Visible) < Len(Visible)
         /\ Received # <<>>
         /\ \E file \in Files : \E l \in 2 .. Len(file) :
              PartOf(Received, file, l) /\ \E i \in 1 .. Len(file) :
                 file[i] = Visible[LastDollar(Visible) + 1]
<1> DEFINE V == Visible
           q == LastColon(Visible)
           d == LastDollar(Visible)
<1>1. V \in Seq(Pieces)
  BY VisibleIsSeen, SeenIs
<1>2. q \in 0 .. Len(V) /\ d \in 0 .. Len(V) /\ (d > 0 => V[d].kind = "dollar")
  BY <1>1, LastColonIs, LastDollarIs
<1>3. HasChecksum /\ ReadHex(V[d + 1]) = Received
  BY VisibleIsSeen DEF ChecksumMatches
<1>4. q + 1 <= d /\ d < Len(V) /\ V[d + 1].kind = "crc" /\ Received = SubSeq(V, q + 1, d)
  <2>1. q + 1 <= d
    BY <1>2, <1>3, VisibleIsSeen DEF HasChecksum
  <2>2. d < Len(V) /\ V[d + 1].kind = "crc"
    BY <1>3, VisibleIsSeen DEF HasChecksum
  <2> QED BY <2>1, <2>2, VisibleIsSeen DEF Received
<1> HIDE DEF V, q, d
<1>5. Len(V) \in Nat /\ q \in Nat /\ d \in Nat /\ d + 1 \in 1 .. Len(V)
  BY <1>1, <1>2, <1>4
<1>6. /\ Received \in Seq(Pieces) /\ Len(Received) = d - q
      /\ \A i \in 1 .. d - q : Received[i] = V[q + i]
  <2>1. \A i \in q + 1 .. d : V[i] \in Pieces
    BY <1>1, <1>4, <1>5
  <2>2. Received \in Seq(Pieces)
    BY <1>4, <1>5, <2>1, SubSeqProperties
  <2>3. Len(Received) = IF q + 1 <= d THEN d - (q + 1) + 1 ELSE 0
    BY <1>4, <1>5, <2>1, SubSeqProperties
  <2>4. \A i \in 1 .. d - (q + 1) + 1 : Received[i] = V[(q + 1) + i - 1]
    BY <1>4, <1>5, <2>1, SubSeqProperties
  <2> QED BY <1>4, <1>5, <2>2, <2>3, <2>4
<1>7. Received # <<>>
  <2>1. Len(Received) # 0
    BY <1>4, <1>5, <1>6
  <2> QED BY <2>1, EmptySeq
<1>8. Received = V[d + 1].of
  BY <1>3, <1>7 DEF ReadHex, LargestLong
<1>9. PICK file \in Files : \E i \in 1 .. Len(file) : file[i] = V[d + 1]
  <2>1. V[d + 1] \in Pieces
    BY <1>1, <1>5
  <2>2. PICK file \in Files : V[d + 1] \in Range(file)
    BY <2>1 DEF Pieces
  <2>3. file \in Seq(Pieces)
    OBVIOUS
  <2>4. \E i \in 1 .. Len(file) : file[i] = V[d + 1]
    BY SMTT(30), <2>2, <2>3 DEF Range
  <2> QED BY <2>4
<1>10. PICK i \in 1 .. Len(file) : file[i] = V[d + 1]
  BY <1>9
<1>11. WellFormed(file) /\ file \in Seq(Pieces)
  BY DEF FilesWellFormed
<1>12. file[2].kind = "record"
       /\ \E l \in 2 .. Len(file) : file[i].of = SubSeq(file, 2, l)
  BY <1>4, <1>10, <1>11 DEF WellFormed
<1>13. PICK l \in 2 .. Len(file) : Received = SubSeq(file, 2, l)
  BY <1>8, <1>10, <1>12
<1>14. file[l].kind = "dollar"
  <2>1. Len(file) \in Nat /\ \A k \in 2 .. l : file[k] \in Pieces
    BY <1>11
  <2>2. Len(Received) = IF 2 <= l THEN l - 2 + 1 ELSE 0
    BY <1>13, <2>1, SubSeqProperties
  <2>3. \A k \in 1 .. l - 2 + 1 : Received[k] = file[2 + k - 1]
    BY <1>13, <2>1, SubSeqProperties
  <2>4. l - 1 = d - q
    BY <1>6, <2>2
  <2>5. l - 1 \in 1 .. l - 2 + 1 /\ 2 + (l - 1) - 1 = l
    BY <2>1
  <2>6. Received[l - 1] = file[2 + (l - 1) - 1]
    BY <2>3, <2>5
  <2>7. d - q \in 1 .. d - q /\ q + (d - q) = d
    <3>1. d \in Nat /\ q \in Nat /\ q + 1 <= d
      BY <1>4, <1>5
    <3> QED BY <3>1
  <2>8. Received[d - q] = V[q + (d - q)]
    BY <1>6, <2>7
  <2>9. V[d] = file[l]
    BY <2>4, <2>5, <2>6, <2>7, <2>8
  <2> QED BY <1>2, <1>4, <1>5, <2>9
<1>15. PartOf(Received, file, l)
  BY <1>12, <1>13, <1>14 DEF PartOf
<1>16. \E f \in Files : \E m \in 2 .. Len(f) :
              PartOf(Received, f, m) /\ \E k \in 1 .. Len(f) : f[k] = V[d + 1]
  BY <1>9, <1>15
<1> QED BY <1>3, <1>4, <1>7, <1>16 DEF V, d, q
-------------------------------------------------------------------------------
(* Every step keeps the invariant.                                         *)

\* A cut behind the '$' that was read, with or without success.
LEMMA CutAtDollar ==
  ASSUME NEW V \in Seq(Pieces), LastColon(V) + 1 <= LastDollar(V)
  PROVE  /\ LastDollar(V) \in 1 .. Len(V)
         /\ LastDollar(SubSeq(V, 1, LastDollar(V))) = LastDollar(V)
         /\ Len(SubSeq(V, 1, LastDollar(V))) = LastDollar(V)
<1> DEFINE d == LastDollar(V)
           W == SubSeq(V, 1, d)
<1>1. /\ LastColon(V) \in 0 .. Len(V)
      /\ d \in 0 .. Len(V) /\ (d > 0 => V[d].kind = "dollar")
  BY LastColonIs, LastDollarIs
<1>2. d \in 1 .. Len(V) /\ LastColon(V) < d /\ V[d].kind = "dollar"
  BY <1>1
<1>3. W \in Seq(Pieces) /\ Len(W) = d /\ \A j \in 1 .. d : W[j] = V[j]
  BY <1>2, CutKeepsColon
<1> HIDE DEF W, d
<1>4. /\ LastDollar(W) \in 0 .. d
      /\ \A j \in 1 .. d : j > LastDollar(W) => W[j].kind # "dollar"
  BY <1>3, LastDollarIs
<1>5. LastDollar(W) = d
  BY <1>2, <1>3, <1>4
<1> QED BY <1>2, <1>3, <1>5 DEF d, W

\* The cut of the parser behind the last record.
LEMMA CutAtRecord ==
  ASSUME NEW V \in Seq(Pieces), CutText(V)
  PROVE  /\ LastRecord(V) \in 1 .. Len(V)
         /\ CutText(SubSeq(V, 1, LastRecord(V)))
<1> DEFINE c == LastRecord(V)
           W == SubSeq(V, 1, c)
<1>1. /\ LastColon(V) \in 0 .. Len(V)
      /\ c \in 0 .. Len(V) /\ (c > 0 => V[c].kind = "record")
      /\ \A j \in 1 .. Len(V) : j > c => V[j].kind # "record"
  BY LastColonIs, LastRecordIs
<1>2. PICK r \in LastColon(V) + 1 .. Len(V) : V[r].kind = "record"
  BY DEF CutText
<1>3. c \in 1 .. Len(V) /\ LastColon(V) < c /\ V[c].kind = "record"
  BY <1>1, <1>2
<1>4. /\ W \in Seq(Pieces) /\ Len(W) = c /\ \A j \in 1 .. c : W[j] = V[j]
      /\ LastColon(W) = LastColon(V)
  BY <1>3, CutKeepsColon
<1>5. \A j \in LastColon(V) + 1 .. Len(V) - 1 : V[j].kind # "dollar"
  BY DEF CutText
<1> HIDE DEF W, c
<1>6. CutText(W)
  <2>1. c \in LastColon(W) + 1 .. Len(W) /\ W[c].kind = "record"
    BY <1>1, <1>3, <1>4
  <2>2. \A j \in LastColon(W) + 1 .. Len(W) - 1 : W[j].kind # "dollar"
    BY <1>1, <1>3, <1>4, <1>5
  <2> QED BY <2>1, <2>2 DEF CutText
<1> QED BY <1>3, <1>6 DEF c, W

LEMMA CutIsSpent ==
  ASSUME NEW V \in Seq(Pieces), CutText(V)
  PROVE  SpentText(V)
<1>1. /\ LastColon(V) \in 0 .. Len(V) /\ LastDollar(V) \in 0 .. Len(V)
      /\ LastDollar(V) > 0 => V[LastDollar(V)].kind = "dollar"
  BY LastColonIs, LastDollarIs
<1>2. \A j \in LastColon(V) + 1 .. Len(V) - 1 : V[j].kind # "dollar"
  BY DEF CutText
<1> QED BY <1>1, <1>2 DEF SpentText

\* Nothing is verified twice.
LEMMA SpentHasNoChecksum ==
  ASSUME inputbuf \in Seq(Pieces), nul \in 0 .. Len(inputbuf),
         SpentText(Seen(inputbuf, nul))
  PROVE  ~ HasChecksum
<1>1. /\ LastColon(Visible) \in 0 .. Len(Visible)
      /\ LastDollar(Visible) \in 0 .. Len(Visible)
  BY VisibleIsSeen, SeenIs, LastColonIs, LastDollarIs
<1>2. DollarAt < PayloadStart \/ DollarAt = Len(Visible)
  BY <1>1, VisibleIsSeen DEF SpentText
<1>3. DollarAt \in Int /\ PayloadStart \in Int /\ Len(Visible) \in Int
  BY <1>1, VisibleIsSeen
<1> QED BY <1>2, <1>3 DEF HasChecksum

LEMMA InitIInv == ParInit => IInv
<1> SUFFICES ASSUME ParInit PROVE IInv
  OBVIOUS
<1>1. sst25 \in Chip
  <2>1. PICK old \in Byte : sst25 = PowerUp([a \in Addr |-> old])
    BY DEF ParInit, Init
  <2>2. [a \in Addr |-> old] \in [Addr -> Cell]
    BY DEF Cell
  <2> QED BY <2>1, <2>2, PowerUpTyped
<1>2. par_file_string \in Store1 /\ par_file_mask \in Store1
  BY DEF ParInit, Init, Store1
<1>3. ParTypeOK
  BY <1>1, <1>2 DEF ParInit, Init, ParTypeOK, TypeOK, PC, Store1
<1>4. Flow /\ Whole /\ Once
  BY DEF ParInit, Init, Flow, Whole, Once, PC_Par
<1> QED BY <1>3, <1>4 DEF IInv

\* Steps that leave the buffer and what was verified alone.
LEMMA WholeKept ==
  ASSUME Whole, payload' = payload \/ payload' = <<>>
  PROVE  Whole'
<1>1. CASE payload' = <<>>
  BY <1>1 DEF Whole
<1>2. CASE payload' = payload
  BY <1>2 DEF Whole, PartOf
<1> QED BY <1>1, <1>2

LEMMA OnceKept ==
  ASSUME Once, UNCHANGED <<buffered, transactions>>,
         pc' \in {"record", "lines"} => pc \in {"record", "lines"},
         transactions = 0 \/ pc' = "record" => sectors' = sectors /\ (transactions = 0 \/ pc = "record")
  PROVE  Once'
BY DEF Once, buffered

LEMMA InitConnectionKeeps ==
  ASSUME IInv, InitConnection, UNCHANGED taken,
         asked' = IF pc = "idle" THEN wire' ELSE asked
  PROVE  IInv'
<1> USE DEF InitConnection
<1>1. ParTypeOK'
  BY DEF IInv, ParTypeOK, TypeOK, Flow, PC, PC_Par
<1>2. Flow'
  BY DEF IInv, Flow, PC_Par
<1>3. Whole'
  BY WholeKept DEF IInv
<1>4. Once'
  BY DEF Once
<1> QED BY <1>1, <1>2, <1>3, <1>4 DEF IInv

LEMMA RequestKeeps ==
  ASSUME IInv, Request, UNCHANGED taken,
         asked' = IF pc = "idle" THEN wire' ELSE asked
  PROVE  IInv'
<1> USE DEF Request, stored, parsed, buffered
<1>0. wire' \in Files
  OBVIOUS
<1>1. ParTypeOK'
  BY <1>0 DEF IInv, ParTypeOK, TypeOK, Flow, PC, PC_Par
<1>2. Flow'
  BY DEF IInv, Flow, PC_Par, ParTypeOK, TypeOK
<1>3. Whole'
  BY WholeKept DEF IInv
<1>4. Once'
  BY OnceKept DEF IInv
<1> QED BY <1>1, <1>2, <1>3, <1>4 DEF IInv

LEMMA FaultsTyped ==
  ASSUME faults \in 0 .. MaxFaults, Quiet
  PROVE  faults' \in 0 .. MaxFaults
BY DEF Quiet

LEMMA SilenceKeeps ==
  ASSUME IInv, Silence, UNCHANGED taken,
         asked' = IF pc = "idle" THEN wire' ELSE asked
  PROVE  IInv'
<1> USE DEF Silence, stored, parsed, buffered
<1>0. faults' \in 0 .. MaxFaults
  BY FaultsTyped DEF IInv, ParTypeOK, TypeOK
<1>1. ParTypeOK'
  BY <1>0 DEF IInv, ParTypeOK, TypeOK, PC, PC_Par
<1>2. Flow'
  BY DEF IInv, Flow, PC_Par
<1>3. Whole'
  BY WholeKept DEF IInv
<1>4. Once'
  BY OnceKept DEF IInv
<1> QED BY <1>1, <1>2, <1>3, <1>4 DEF IInv

LEMMA IncompleteKeeps ==
  ASSUME IInv, Incomplete, UNCHANGED taken,
         asked' = IF pc = "idle" THEN wire' ELSE asked
  PROVE  IInv'
<1> USE DEF Incomplete, Return, stored, parsed, buffered
<1>0. faults' \in 0 .. MaxFaults
  BY FaultsTyped DEF IInv, ParTypeOK, TypeOK
<1>1. ParTypeOK'
  BY <1>0 DEF IInv, ParTypeOK, TypeOK, PC, PC_Par
<1>2. Flow'
  BY DEF IInv, Flow, PC_Par
<1>3. Whole'
  BY WholeKept DEF IInv
<1>4. Once'
  BY OnceKept DEF IInv
<1> QED BY <1>1, <1>2, <1>3, <1>4 DEF IInv

LEMMA LoseKeeps ==
  ASSUME IInv, Lose, UNCHANGED taken,
         asked' = IF pc = "idle" THEN wire' ELSE asked
  PROVE  IInv'
<1> USE DEF Lose, stored, parsed, buffered
<1>0. wire' \in Seq(Pieces) /\ pc # "idle"
  BY HeadTailProperties DEF IInv, ParTypeOK, TypeOK, Flow
<1>1. ParTypeOK'
  BY <1>0 DEF IInv, ParTypeOK, TypeOK, PC, PC_Par
<1>2. Flow'
  BY <1>0 DEF IInv, Flow, PC_Par
<1>3. Whole'
  BY WholeKept DEF IInv
<1>4. Once'
  BY OnceKept DEF IInv
<1> QED BY <1>1, <1>2, <1>3, <1>4 DEF IInv

LEMMA DoneKeeps ==
  ASSUME IInv, Done, UNCHANGED taken,
         asked' = IF pc = "idle" THEN wire' ELSE asked
  PROVE  IInv'
<1> USE DEF Done, Return, stored, parsed, buffered
<1>1. ParTypeOK'
  BY DEF IInv, ParTypeOK, TypeOK, PC, PC_Par
<1>2. Flow'
  BY DEF IInv, Flow, PC_Par
<1>3. Whole'
  BY WholeKept DEF IInv
<1>4. Once'
  BY OnceKept DEF IInv
<1> QED BY <1>1, <1>2, <1>3, <1>4 DEF IInv

LEMMA ReceiveKeeps ==
  ASSUME IInv, Receive, UNCHANGED taken,
         asked' = IF pc = "idle" THEN wire' ELSE asked
  PROVE  IInv'
<1> USE DEF Receive, stored, parsed
<1>0. wire \in Seq(Pieces) /\ inputbuf \in Seq(Pieces) /\ wire # <<>>
      /\ nul \in 0 .. Len(inputbuf)
  BY DEF IInv, ParTypeOK, TypeOK
<1>1. Head(wire) \in Pieces /\ wire' \in Seq(Pieces)
  BY <1>0, HeadTailProperties
<1>2. inputbuf' \in Seq(Pieces) /\ Len(inputbuf') = Len(inputbuf) + 1
  BY <1>0, <1>1, AppendProperties
<1>3. ParTypeOK'
  BY <1>0, <1>1, <1>2 DEF IInv, ParTypeOK, TypeOK, PC, PC_Par
<1>4. Flow'
  BY DEF IInv, Flow, PC_Par
<1>5. Whole'
  BY WholeKept DEF IInv
<1>6. nul > 0 => Seen(inputbuf', nul') = Seen(inputbuf, nul)
  BY <1>0, <1>1, SeenNoFurther
<1>7. Once'
  BY <1>6 DEF IInv, Once
<1> QED BY <1>3, <1>4, <1>5, <1>7 DEF IInv

LEMMA HandleKeeps ==
  ASSUME FilesWellFormed, IInv, Handle, UNCHANGED taken,
         asked' = IF pc = "idle" THEN wire' ELSE asked
  PROVE  IInv'
<1> USE DEF Handle, Verified, Refused, stored
<1> DEFINE V == Visible
<1>0. /\ inputbuf \in Seq(Pieces) /\ nul \in 0 .. Len(inputbuf)
      /\ V = Seen(inputbuf, nul) /\ V \in Seq(Pieces)
      /\ DollarAt = LastDollar(V) /\ PayloadStart = LastColon(V) + 1
      /\ Len(V) = IF nul = 0 THEN Len(inputbuf) ELSE nul
  BY VisibleIsSeen, SeenIs DEF IInv, ParTypeOK, TypeOK
<1> HIDE DEF V
<1>1. nul > 0 => ~ HasChecksum
  BY <1>0, SpentHasNoChecksum DEF IInv, Once
<1>2. CASE ~ HasChecksum
  <2>1. ~ ChecksumMatches /\ nul' = nul /\ inputbuf' = inputbuf
    BY <1>2 DEF ChecksumMatches, CutChecksum
  <2>2. pc' = "idle" /\ result' = 0 /\ wire' = <<>> /\ payload' = payload
        /\ transactions' = transactions /\ faults' = faults
    BY <1>2, <2>1 DEF Return
  <2>3. ParTypeOK'
    BY <2>1, <2>2 DEF IInv, ParTypeOK, TypeOK, PC, PC_Par
  <2>4. Flow'
    BY <2>2 DEF IInv, Flow, PC_Par
  <2>5. Whole'
    BY <2>2, WholeKept DEF IInv
  <2>6. Once'
    BY <2>1, <2>2, OnceKept DEF IInv, buffered
  <2> QED BY <2>3, <2>4, <2>5, <2>6 DEF IInv
<1>3. CASE HasChecksum
  <2> DEFINE d == LastDollar(V)
             W == SubSeq(V, 1, d)
  <2>1. nul = 0 /\ V = inputbuf /\ transactions = 0
    BY <1>0, <1>1, <1>3 DEF IInv, Once, ParTypeOK, TypeOK, Seen
  <2>2. LastColon(V) + 1 <= d
    <3>1. LastColon(V) \in 0 .. Len(V) /\ d \in 0 .. Len(V)
      BY <1>0, LastColonIs, LastDollarIs
    <3>2. d >= LastColon(V) + 1
      BY <1>0, <1>3 DEF HasChecksum
    <3> QED BY <3>1, <3>2
  <2>3. d \in 1 .. Len(V) /\ LastDollar(W) = d /\ Len(W) = d
    BY <1>0, <2>2, CutAtDollar
  <2>4. nul' = d /\ inputbuf' = inputbuf
    BY <1>0, <1>3 DEF CutChecksum
  <2>5. Seen(inputbuf', nul') = W
    BY <2>1, <2>3, <2>4 DEF Seen
  <2>6. SpentText(W)
    BY <2>3 DEF SpentText
  <2> HIDE DEF d, W
  <2>7. CASE Refused
    <3>2. pc' = "idle" /\ result' = 0 /\ wire' = <<>> /\ payload' = payload
          /\ transactions' = transactions /\ faults' \in 0 .. MaxFaults
      <4>1. faults \in 0 .. MaxFaults /\ MaxFaults \in Nat
        BY RecordAssumption DEF IInv, ParTypeOK, TypeOK
      <4>2. faults' = faults \/ (faults < MaxFaults /\ faults' = faults + 1)
        BY <2>7
      <4> QED BY <2>7, <4>1, <4>2 DEF Return
    <3>3. ParTypeOK'
      <4>1. nul' \in 0 .. Len(inputbuf')
        BY <2>1, <2>3, <2>4
      <4> QED BY <2>4, <3>2, <4>1 DEF IInv, ParTypeOK, TypeOK, PC, PC_Par
    <3>4. Flow'
      BY <3>2 DEF IInv, Flow, PC_Par
    <3>5. Whole'
      BY <3>2, WholeKept DEF IInv
    <3>6. Once'
      BY <2>1, <2>5, <2>6, <3>2 DEF IInv, Once
    <3> QED BY <3>3, <3>4, <3>5, <3>6 DEF IInv
  <2>8. CASE Verified
    <3>1. PICK file \in Files : \E l \in 2 .. Len(file) : PartOf(Received, file, l)
      BY <1>0, <2>8, VerifiedIsPart
    <3>2. PICK l \in 2 .. Len(file) : PartOf(Received, file, l)
      BY <3>1
    <3>3. /\ Received \in Seq(Pieces) /\ Len(Received) = l - 1 /\ Received # <<>>
          /\ Received[1].kind = "record"
          /\ \A j \in 1 .. l - 1 : Received[j].kind = "dollar" => j = l - 1
      BY <1>0, <2>8, <3>2, PartIs, VerifiedIsPart
    <3>4. pc' = "record" /\ payload' = Received /\ transactions' = 1 /\ wire' = wire
          /\ result' = result /\ faults' = faults
      BY <2>1, <2>8
    <3>5. ParTypeOK'
      <4>1. nul' \in 0 .. Len(inputbuf')
        BY <2>1, <2>3, <2>4
      <4>2. downloads > 0 /\ 1 \in 0 .. MaxDownloads
        BY DEF IInv, Flow, ParTypeOK, TypeOK
      <4> QED BY <2>4, <3>3, <3>4, <4>1, <4>2 DEF IInv, ParTypeOK, TypeOK, PC, PC_Par
    <3>6. Flow'
      BY <3>3, <3>4 DEF IInv, Flow, PC_Par
    <3>7. Whole'
      BY <3>2, <3>4 DEF Whole, PartOf
    <3>8. CutText(W)
      <4> DEFINE q == LastColon(V)
      <4>1. q \in 0 .. Len(V) /\ q < d /\ d \in 1 .. Len(V)
        BY <1>0, <2>2, <2>3, LastColonIs
      <4>2. /\ W \in Seq(Pieces) /\ Len(W) = d /\ LastColon(W) = q
            /\ \A j \in 1 .. d : W[j] = V[j]
        BY <1>0, <4>1, CutKeepsColon DEF W
      <4>3. Received = SubSeq(V, q + 1, d)
        BY <1>0 DEF Received, V, d
      <4> HIDE DEF q
      <4>4. \A j \in q + 1 .. d : V[j] \in Pieces
        BY <1>0, <4>1
      <4>5. Len(Received) = IF q + 1 <= d THEN d - (q + 1) + 1 ELSE 0
        BY <4>1, <4>3, <4>4, SubSeqProperties
      <4>6. \A j \in 1 .. d - (q + 1) + 1 : Received[j] = V[(q + 1) + j - 1]
        BY <4>1, <4>3, <4>4, SubSeqProperties
      <4>7. l - 1 = d - q
        BY <3>3, <4>1, <4>5
      <4>8. ASSUME NEW j \in q + 1 .. d - 1 PROVE W[j].kind # "dollar"
        <5>1. j - q \in 1 .. d - (q + 1) + 1 /\ (q + 1) + (j - q) - 1 = j /\ j \in 1 .. d
          BY <4>1
        <5>2. Received[j - q] = V[j]
          BY <4>6, <5>1
        <5>3. j - q \in 1 .. l - 1 /\ j - q # l - 1
          BY <4>1, <4>7
        <5>4. Received[j - q].kind # "dollar"
          BY <3>3, <5>3
        <5> QED BY <4>2, <5>1, <5>2, <5>4
      <4>9. W[q + 1].kind = "record" /\ q + 1 \in q + 1 .. d
        <5>1. 1 \in 1 .. d - (q + 1) + 1 /\ (q + 1) + 1 - 1 = q + 1 /\ q + 1 \in 1 .. d
          BY <4>1
        <5>2. Received[1] = V[q + 1]
          BY <4>6, <5>1
        <5> QED BY <3>3, <4>2, <5>1, <5>2
      <4> QED BY <4>2, <4>8, <4>9 DEF CutText
    <3>9. Once'
      <4>1. nul' > 0
        BY <2>3, <2>4
      <4> QED BY <2>1, <2>5, <2>6, <3>4, <3>8, <4>1 DEF IInv, Once
    <3> QED BY <3>5, <3>6, <3>7, <3>9 DEF IInv
  <2> QED BY <2>7, <2>8
<1> QED BY <1>2, <1>3

\* What is verified begins with a record.
LEMMA PayloadIs ==
  ASSUME FilesWellFormed, Whole, payload # <<>>
  PROVE  /\ payload \in Seq(Pieces) /\ Len(payload) >= 2
         /\ payload[1].kind = "record" /\ Head(payload) = payload[1]
         /\ RecordBytes \in Seq(Byte) /\ Tail(payload) \in Seq(Pieces)
         /\ Len(Tail(payload)) = Len(payload) - 1
         /\ \A j \in 2 .. Len(payload) : payload[j].kind # "record"
<1>1. PICK file \in Files : \E l \in 2 .. Len(file) : PartOf(payload, file, l)
  BY DEF Whole
<1>2. PICK l \in 2 .. Len(file) : PartOf(payload, file, l)
  BY <1>1
<1>3. /\ payload \in Seq(Pieces) /\ Len(payload) = l - 1
      /\ payload[1].kind = "record" /\ payload[l - 1].kind = "dollar"
      /\ \A j \in 1 .. l - 1 : payload[j].kind = "record" => j = 1
  BY <1>2, PartIs
<1>4. l - 1 >= 2
  BY <1>3
<1>5. Head(payload) = payload[1] /\ payload[1] \in Pieces
  BY <1>3, <1>4
<1>6. RecordBytes \in Seq(Byte)
  BY <1>3, <1>5 DEF RecordBytes
<1>7. Tail(payload) \in Seq(Pieces) /\ Len(Tail(payload)) = Len(payload) - 1
  BY <1>3, HeadTailProperties
<1> QED BY <1>3, <1>4, <1>5, <1>6, <1>7

\* The record that is written: as much of the string and of the mask as the
\* counter says, the mask behind the string.
Out(str, mask, n) == SubSeq(str, 1, n) \o SubSeq(mask, 1, n)

LEMMA RecordWritten ==
  ASSUME NEW b \in Seq(Byte), NEW str \in Store1, NEW mask \in Store1
  PROVE  /\ LengthOf(b) \in 0 .. RecordLength
         /\ Len(b) >= 2 * RecordLength => LengthOf(b) = RecordLength
         /\ Out(str, mask, LengthOf(b)) \in Seq(Byte)
         /\ Len(Out(str, mask, LengthOf(b))) = 2 * LengthOf(b)
         /\ \A k \in 1 .. LengthOf(b) :
              /\ Out(str, mask, LengthOf(b))[k] = str[k]
              /\ Out(str, mask, LengthOf(b))[LengthOf(b) + k] = mask[k]
<1> DEFINE n == LengthOf(b)
           s == SubSeq(str, 1, n)
           m == SubSeq(mask, 1, n)
<1>1. n \in 0 .. RecordLength /\ (Len(b) >= 2 * RecordLength => n = RecordLength)
  <2>1. Len(b) \in Nat /\ RecordLength \in Nat /\ RecordLength > 0
    OBVIOUS
  <2>2. Len(MaskBytes(b)) \in Nat /\ Len(MaskBytes(b)) <= RecordLength
        /\ (Len(b) >= 2 * RecordLength => Len(MaskBytes(b)) = RecordLength)
    <3>1. MaskBytes(b) \in Seq(Byte)
      BY RecordParts
    <3>2. Len(MaskBytes(b)) \in Nat
      BY <3>1
    <3> QED BY <3>2, RecordParts
  <2> QED BY <2>1, <2>2 DEF LengthOf
<1> HIDE DEF n
<1>2. str \in Seq(Byte) /\ mask \in Seq(Byte)
      /\ \A k \in 1 .. n : str[k] \in Byte /\ mask[k] \in Byte
  BY <1>1 DEF Store1
<1>3. s \in Seq(Byte) /\ m \in Seq(Byte)
  BY <1>1, <1>2, SubSeqProperties
<1>4. Len(s) = n /\ Len(m) = n
  <2>1. Len(s) = IF 1 <= n THEN n - 1 + 1 ELSE 0
    BY <1>1, <1>2, SubSeqProperties
  <2>2. Len(m) = IF 1 <= n THEN n - 1 + 1 ELSE 0
    BY <1>1, <1>2, SubSeqProperties
  <2> QED BY <1>1, <2>1, <2>2
<1>5. \A k \in 1 .. n : s[k] = str[k] /\ m[k] = mask[k]
  <2>1. \A k \in 1 .. n - 1 + 1 : s[k] = str[1 + k - 1]
    BY <1>1, <1>2, SubSeqProperties
  <2>2. \A k \in 1 .. n - 1 + 1 : m[k] = mask[1 + k - 1]
    BY <1>1, <1>2, SubSeqProperties
  <2> QED BY <1>1, <2>1, <2>2
<1> HIDE DEF s, m
<1>6. s \o m \in Seq(Byte) /\ Len(s \o m) = Len(s) + Len(m)
      /\ \A k \in 1 .. Len(s) + Len(m) :
           (s \o m)[k] = IF k <= Len(s) THEN s[k] ELSE m[k - Len(s)]
  BY <1>3, ConcatProperties
<1>7. \A k \in 1 .. n : (s \o m)[k] = str[k] /\ (s \o m)[n + k] = mask[k]
  <2> TAKE k \in 1 .. n
  <2>1. (s \o m)[k] = s[k]
    BY <1>1, <1>4, <1>6
  <2>2. (s \o m)[n + k] = m[k]
    <3>1. n + k \in 1 .. n + n /\ ~ (n + k <= n) /\ (n + k) - n = k
      BY <1>1
    <3> QED BY <1>4, <1>6, <3>1
  <2> QED BY <1>5, <2>1, <2>2
<1>8. Len(s \o m) = 2 * n
  BY <1>1, <1>4, <1>6
<1>9. Out(str, mask, n) = s \o m
  BY DEF Out, s, m
<1> QED BY <1>1, <1>6, <1>7, <1>8, <1>9 DEF n

LEMMA StoreTyped ==
  ASSUME sst25 \in Chip, sectors \in Seq(Nat), NEW a \in Addr, NEW bytes \in Seq(Byte),
         Store(a, bytes)
  PROVE  sst25' \in Chip /\ sectors' \in Seq(Nat)
<1>1. EraseAt(sst25, sectors, a) \in Chip
  BY EraseAtTyped
<1>2. sst25' \in Chip
  BY <1>1, WriteStringTyped DEF Store, Addr
<1>3. sectors' \in Seq(Nat)
  BY AddSectorTyped DEF Store
<1> QED BY <1>2, <1>3

LEMMA WriteRecordKeeps ==
  ASSUME FilesWellFormed, IInv, WriteRecord, UNCHANGED taken,
         asked' = IF pc = "idle" THEN wire' ELSE asked
  PROVE  IInv'
<1> USE DEF WriteRecord, buffered
<1> DEFINE b == RecordBytes
<1>1. payload # <<>> /\ pc = "record"
  BY DEF IInv, Flow
<1>2. b \in Seq(Byte) /\ Tail(payload) \in Seq(Pieces)
  BY <1>1, PayloadIs DEF IInv
<1> HIDE DEF b
<1>3. StringBytes(b) \in Seq(Byte) /\ Len(StringBytes(b)) <= RecordLength
      /\ MaskBytes(b) \in Seq(Byte) /\ Len(MaskBytes(b)) <= RecordLength
  BY <1>2, RecordParts
<1>4. par_file_string' = Overlay(par_file_string, StringBytes(b))
      /\ par_file_mask' = Overlay(par_file_mask, MaskBytes(b))
  BY DEF b
<1>5. par_file_string' \in Store1 /\ par_file_mask' \in Store1
  <2>1. par_file_string \in Store1 /\ par_file_mask \in Store1
    BY DEF IInv, ParTypeOK, TypeOK, Store1
  <2> QED BY <1>3, <1>4, <2>1, OverlayTyped
<1>6. Store(RecordStart, SubSeq(par_file_string', 1, LengthOf(b))
                                \o SubSeq(par_file_mask', 1, LengthOf(b)))
  BY DEF b
<1>7. SubSeq(par_file_string', 1, LengthOf(b)) \o SubSeq(par_file_mask', 1, LengthOf(b))
        \in Seq(Byte)
  BY <1>2, <1>5, RecordWritten DEF Out
<1>8. sst25' \in Chip /\ sectors' \in Seq(Nat)
  BY <1>6, <1>7, StoreTyped DEF IInv, ParTypeOK, TypeOK
<1>9. ParTypeOK'
  BY <1>2, <1>5, <1>8 DEF IInv, ParTypeOK, TypeOK, PC, PC_Par, Store1
<1>10. Flow'
  BY DEF IInv, Flow, PC_Par
<1>11. Whole'
  BY WholeKept DEF IInv
<1>12. Once'
  BY <1>1 DEF IInv, Once
<1> QED BY <1>9, <1>10, <1>11, <1>12 DEF IInv

LEMMA ParseLineKeeps ==
  ASSUME FilesWellFormed, IInv, ParseLine, UNCHANGED taken,
         asked' = IF pc = "idle" THEN wire' ELSE asked
  PROVE  IInv'
<1> USE DEF ParseLine
<1> DEFINE line == Head(extended)
           V == Visible
<1>1. pc = "lines" /\ extended # <<>> /\ transactions = 1 /\ nul > 0
      /\ CutText(Seen(inputbuf, nul))
  BY DEF IInv, Once
<1>2. line \in Pieces /\ Tail(extended) \in Seq(Pieces)
  BY <1>1, HeadTailProperties DEF IInv, ParTypeOK, TypeOK
<1>3. sst25' \in Chip /\ sectors' \in Seq(Nat)
  <2>1. CASE IsLine(line) /\ HasComment(line)
    <3>1. line.at \in Addr /\ line.bytes \in Seq(Byte)
      BY <1>2, <2>1 DEF IsLine
    <3>2. Store(line.at, line.bytes)
      BY <2>1
    <3> QED BY <3>1, <3>2, StoreTyped DEF IInv, ParTypeOK, TypeOK
  <2>2. CASE ~ (IsLine(line) /\ HasComment(line))
    BY <2>2 DEF IInv, ParTypeOK, TypeOK
  <2> QED BY <2>1, <2>2
<1>4. /\ inputbuf \in Seq(Pieces) /\ nul \in 0 .. Len(inputbuf)
      /\ V = Seen(inputbuf, nul) /\ V \in Seq(Pieces) /\ CutLine = LastRecord(V)
  BY VisibleIsSeen, SeenIs DEF IInv, ParTypeOK, TypeOK
<1> HIDE DEF V
<1>5. nul' \in 1 .. Len(inputbuf) /\ CutText(Seen(inputbuf, nul'))
  <2>1. CASE IsLine(line)
    <3>1. LastRecord(V) \in 1 .. Len(V) /\ CutText(SubSeq(V, 1, LastRecord(V)))
      BY <1>1, <1>4, CutAtRecord
    <3>2. LastRecord(V) \in 1 .. Len(inputbuf)
          /\ Seen(inputbuf, LastRecord(V)) = SubSeq(V, 1, LastRecord(V))
      BY <1>4, <3>1, SeenCutAgain
    <3>3. nul' = LastRecord(V)
      BY <1>4, <2>1
    <3> QED BY <3>1, <3>2, <3>3
  <2>2. CASE ~ IsLine(line)
    BY <1>1, <1>4, <2>2
  <2> QED BY <2>1, <2>2
<1>6. SpentText(Seen(inputbuf, nul'))
  BY <1>4, <1>5, SeenIs, CutIsSpent
<1>7. ParTypeOK'
  BY <1>2, <1>3, <1>5 DEF IInv, ParTypeOK, TypeOK, PC, PC_Par
<1>8. Flow'
  BY DEF IInv, Flow, PC_Par
<1>9. Whole'
  BY WholeKept DEF IInv
<1>10. Once'
  BY <1>1, <1>5, <1>6 DEF IInv, Once
<1> QED BY <1>7, <1>8, <1>9, <1>10 DEF IInv

LEMMA ParRequestKeeps == IInv /\ ParRequest => IInv'
<1> SUFFICES ASSUME IInv, ParRequest PROVE IInv'
  OBVIOUS
<1> USE DEF ParRequest, buffered
<1>1. sst25' \in Chip
  <2>1. CSHigh(sst25) \in Chip
    BY CSHighTyped DEF IInv, ParTypeOK, TypeOK
  <2>2. SectorErase(CSHigh(sst25), SectorOf(RecordStart)) \in Chip
    BY <2>1, SectorEraseTyped
  <2> QED BY <2>2, PrepareWriteTyped
<1>2. wire' \in Files /\ asked' = wire'
  OBVIOUS
<1>3. ParTypeOK'
  BY <1>1, <1>2 DEF IInv, ParTypeOK, TypeOK, PC, PC_Par
<1>4. Flow'
  BY DEF IInv, Flow, PC_Par, ParTypeOK, TypeOK
<1>5. Whole'
  BY WholeKept DEF IInv
<1>6. Once'
  BY OnceKept DEF IInv
<1> QED BY <1>3, <1>4, <1>5, <1>6 DEF IInv

LEMMA ParHeaderKeeps == IInv /\ ParHeader => IInv'
<1> SUFFICES ASSUME IInv, ParHeader PROVE IInv'
  OBVIOUS
<1> USE DEF ParReturn, Return, ParUnchanged, buffered, parsed
<1>0. /\ pc = "header" /\ wire # <<>> /\ UNCHANGED <<par_file_string, par_file_mask>>
      /\ UNCHANGED <<inputbuf, nul, sst25, sectors, extended, payload, transactions>>
      /\ UNCHANGED <<downloads, asked>>
  BY DEF ParHeader
<1>1. Tail(wire) \in Seq(Pieces)
  BY <1>0, HeadTailProperties DEF IInv, ParTypeOK, TypeOK
<1>2. pc' \in {"idle", "header", "body"} /\ wire' \in {<<>>, Tail(wire)}
      /\ result' \in {result, 0} /\ faults' = faults /\ taken' \in {taken, <<>>}
      /\ (pc' = "idle" => wire' = <<>>)
  BY DEF ParHeader
<1>3. ParTypeOK'
  <2>1. TypeOK /\ taken \in Seq(Byte) /\ Len(taken) < 2 * RecordLength
        /\ asked \in Files \cup {<<>>}
    BY DEF IInv, ParTypeOK
  <2>2. wire' \in Seq(Pieces) /\ result' \in {0, 1}
    <3>1. wire' = <<>> \/ wire' = Tail(wire)
      BY <1>2
    <3>2. result' = result \/ result' = 0
      BY <1>2
    <3>3. <<>> \in Seq(Pieces) /\ result \in {0, 1}
      BY <2>1, EmptySeq DEF TypeOK
    <3>4. wire' \in Seq(Pieces)
      BY <1>1, <3>1, <3>3, Zenon
    <3>5. result' \in {0, 1}
      BY <3>2, <3>3
    <3> QED BY <3>4, <3>5
  <2>3. TypeOK'
    BY <1>0, <1>2, <2>1, <2>2 DEF TypeOK
  <2>4. taken' \in Seq(Byte) /\ Len(taken') < 2 * RecordLength
    <3>1. taken' = <<>> \/ taken' = taken
      BY <1>2
    <3>2. <<>> \in Seq(Byte) /\ Len(<<>>) < 2 * RecordLength
      <4>1. Len(<<>>) = 0 /\ 0 < 2 * RecordLength
        OBVIOUS
      <4> QED BY <4>1, EmptySeq
    <3> QED BY <2>1, <3>1, <3>2, Zenon
  <2>5. pc' \in PC \cup PC_Par
    BY <1>2 DEF PC, PC_Par
  <2> QED BY <1>0, <2>1, <2>3, <2>4, <2>5 DEF ParTypeOK
<1>4. Flow'
  BY <1>0, <1>2 DEF IInv, Flow, PC_Par
<1>5. Whole'
  BY <1>0, WholeKept DEF IInv
<1>6. Once'
  BY <1>0, <1>2, OnceKept DEF IInv
<1> QED BY <1>3, <1>4, <1>5, <1>6 DEF IInv

LEMMA ParSilenceKeeps == IInv /\ ParSilence => IInv'
<1> SUFFICES ASSUME IInv, ParSilence PROVE IInv'
  OBVIOUS
<1> USE DEF ParSilence, ParReturn, Return, ParUnchanged, buffered, parsed
<1>1. faults' \in 0 .. MaxFaults
  BY FaultsTyped DEF IInv, ParTypeOK, TypeOK
<1>2. ParTypeOK'
  BY <1>1 DEF IInv, ParTypeOK, TypeOK, PC, PC_Par
<1>3. Flow'
  BY DEF IInv, Flow, PC_Par
<1>4. Whole'
  BY WholeKept DEF IInv
<1>5. Once'
  BY OnceKept DEF IInv
<1> QED BY <1>2, <1>3, <1>4, <1>5 DEF IInv

\* The digits of a piece are bytes.
LEMMA DigitsTyped ==
  ASSUME NEW piece \in Pieces, NEW digits \in Digits(piece)
  PROVE  digits \in Seq(Byte)
<1>1. CASE piece.kind = "record"
  BY <1>1 DEF Digits
<1>2. CASE piece.kind \in {"line", "crc"}
  <2>1. PICK n \in 0 .. 2 * RecordLength : digits \in [1 .. n -> Byte]
    BY <1>2 DEF Digits
  <2> QED BY <2>1
<1>3. CASE piece.kind \notin {"record", "line", "crc"}
  <2>1. Digits(piece) = {<<>>}
    BY <1>3 DEF Digits
  <2> QED BY <2>1
<1> QED BY <1>1, <1>2, <1>3

LEMMA ParBodyKeeps == IInv /\ ParBody => IInv'
<1> SUFFICES ASSUME IInv, ParBody PROVE IInv'
  OBVIOUS
<1> USE DEF ParReturn, Return, ParUnchanged, buffered, parsed
<1>0. pc = "body" /\ wire # <<>> /\ ParUnchanged
  BY DEF ParBody
<1>1. Head(wire) \in Pieces /\ Tail(wire) \in Seq(Pieces)
  BY <1>0, HeadTailProperties DEF IInv, ParTypeOK, TypeOK
<1>2. PICK digits \in Digits(Head(wire)), dot \in Dots(Head(wire)) :
        LET b == taken \o digits
        IN /\ par_file_string' = Overlay(par_file_string, StringBytes(b))
           /\ par_file_mask' = Overlay(par_file_mask, MaskBytes(b))
           /\ IF dot \/ Len(b) >= 2 * RecordLength
              THEN ParReturn(1) /\ UNCHANGED faults
              ELSE /\ taken' = b /\ wire' = Tail(wire)
                   /\ UNCHANGED <<pc, result, faults>>
  BY DEF ParBody
<1> DEFINE b == taken \o digits
<1>3. b \in Seq(Byte)
  BY <1>1, DigitsTyped, ConcatProperties DEF IInv, ParTypeOK
<1> HIDE DEF b
<1>4. par_file_string' \in Store1 /\ par_file_mask' \in Store1
  <2>1. par_file_string \in Store1 /\ par_file_mask \in Store1
    BY DEF IInv, ParTypeOK, TypeOK, Store1
  <2>2. StringBytes(b) \in Seq(Byte) /\ Len(StringBytes(b)) <= RecordLength
        /\ MaskBytes(b) \in Seq(Byte) /\ Len(MaskBytes(b)) <= RecordLength
    BY <1>3, RecordParts
  <2>3. par_file_string' = Overlay(par_file_string, StringBytes(b))
        /\ par_file_mask' = Overlay(par_file_mask, MaskBytes(b))
    BY <1>2 DEF b
  <2> QED BY <2>1, <2>2, <2>3, OverlayTyped
<1>5. CASE dot \/ Len(b) >= 2 * RecordLength
  <2>1. pc' = "idle" /\ result' = 1 /\ wire' = <<>> /\ taken' = <<>> /\ faults' = faults
    BY <1>2, <1>5 DEF b
  <2>2. ParTypeOK'
    BY <1>0, <1>4, <2>1 DEF IInv, ParTypeOK, TypeOK, PC, PC_Par, Store1
  <2>3. Flow'
    BY <1>0, <2>1 DEF IInv, Flow, PC_Par
  <2>4. Whole'
    BY <1>0, WholeKept DEF IInv
  <2>5. Once'
    BY <1>0, <2>1, OnceKept DEF IInv
  <2> QED BY <2>2, <2>3, <2>4, <2>5 DEF IInv
<1>6. CASE ~ (dot \/ Len(b) >= 2 * RecordLength)
  <2>1. pc' = pc /\ result' = result /\ wire' = Tail(wire) /\ taken' = b /\ faults' = faults
    BY <1>2, <1>6 DEF b
  <2>2. Len(b) < 2 * RecordLength
    BY <1>3, <1>6
  <2>3. ParTypeOK'
    BY <1>0, <1>1, <1>3, <1>4, <2>1, <2>2 DEF IInv, ParTypeOK, TypeOK, PC, PC_Par, Store1
  <2>4. Flow'
    BY <1>0, <2>1 DEF IInv, Flow, PC_Par
  <2>5. Whole'
    BY <1>0, WholeKept DEF IInv
  <2>6. Once'
    BY <1>0, <2>1, OnceKept DEF IInv
  <2> QED BY <2>3, <2>4, <2>5, <2>6 DEF IInv
<1> QED BY <1>5, <1>6

LEMMA NextIInv ==
  ASSUME FilesWellFormed
  PROVE  IInv /\ [ExtendedStep \/ ParStep]_parVars => IInv'
<1> SUFFICES ASSUME IInv, [ExtendedStep \/ ParStep]_parVars PROVE IInv'
  OBVIOUS
<1>1. CASE ExtendedStep
  <2>1. UNCHANGED taken /\ asked' = IF pc = "idle" THEN wire' ELSE asked
    BY <1>1 DEF ExtendedStep
  <2>2. CASE InitConnection
    BY <2>1, <2>2, InitConnectionKeeps
  <2>3. CASE Request
    BY <2>1, <2>3, RequestKeeps
  <2>4. CASE Silence
    BY <2>1, <2>4, SilenceKeeps
  <2>5. CASE Receive
    BY <2>1, <2>5, ReceiveKeeps
  <2>6. CASE Incomplete
    BY <2>1, <2>6, IncompleteKeeps
  <2>7. CASE Lose
    BY <2>1, <2>7, LoseKeeps
  <2>8. CASE Handle
    BY <2>1, <2>8, HandleKeeps
  <2>9. CASE WriteRecord
    BY <2>1, <2>9, WriteRecordKeeps
  <2>10. CASE ParseLine
    BY <2>1, <2>10, ParseLineKeeps
  <2>11. CASE Done
    BY <2>1, <2>11, DoneKeeps
  <2> QED BY <1>1, <2>2, <2>3, <2>4, <2>5, <2>6, <2>7, <2>8, <2>9, <2>10, <2>11
          DEF ExtendedStep, Next
<1>2. CASE ParStep
  BY <1>2, ParRequestKeeps, ParHeaderKeeps, ParBodyKeeps, ParSilenceKeeps DEF ParStep
<1>3. CASE UNCHANGED parVars
  <2>1. /\ pc' = pc /\ result' = result /\ wire' = wire /\ faults' = faults /\ downloads' = downloads
        /\ inputbuf' = inputbuf /\ nul' = nul /\ sst25' = sst25 /\ sectors' = sectors
        /\ par_file_string' = par_file_string /\ par_file_mask' = par_file_mask
        /\ extended' = extended /\ payload' = payload /\ transactions' = transactions
        /\ taken' = taken /\ asked' = asked
    BY <1>3 DEF parVars, vars, buffered, stored, parsed
  <2>2. ParTypeOK'
    BY <2>1 DEF IInv, ParTypeOK, TypeOK, PC, PC_Par
  <2>3. Flow'
    BY <2>1 DEF IInv, Flow, PC_Par
  <2>4. Whole'
    BY <2>1 DEF IInv, Whole, PartOf
  <2>5. Once'
    BY <2>1 DEF IInv, Once
  <2> QED BY <2>2, <2>3, <2>4, <2>5 DEF IInv
<1> QED BY <1>1, <1>2, <1>3

LEMMA Invariance ==
  ASSUME FilesWellFormed
  PROVE  ParSpec => []IInv
<1>1. ParInit => IInv
  BY InitIInv
<1>2. IInv /\ [ExtendedStep \/ ParStep]_parVars => IInv'
  BY NextIInv
<1> QED BY <1>1, <1>2, PTL DEF ParSpec

\* Every variable keeps its type, and the bytes of the body never fill more than
\* the string and the mask, whatever records of whatever length the server sends
\* and whatever is lost of them (http_parse_par_file_legacy and the digits of
\* gsmDownloadFileHttpGet_Par).
THEOREM ParTyped ==
  ASSUME FilesWellFormed
  PROVE  ParSpec => []ParTypeOK
<1>1. IInv => ParTypeOK
  BY DEF IInv
<1> QED BY <1>1, Invariance, PTL

\* One connection state never carries two transactions, however many downloads
\* append to its buffer: the parser has cut the first verified text apart, and
\* no later one can be seen behind the cut.  This is what the list of sectors
\* that add_and_erase_sector fills and nobody empties relies on.
THEOREM TransactionOnce ==
  ASSUME FilesWellFormed
  PROVE  ParSpec => []OneTransaction
<1>1. IInv => OneTransaction
  BY DEF IInv, Once, OneTransaction
<1> QED BY <1>1, Invariance, PTL

\* What http_parse_par_file parses and writes is a whole file of the server from
\* its record to its '$', whatever pieces were lost or late and whatever earlier
\* downloads left in the buffer.
THEOREM FileWhole ==
  ASSUME FilesWellFormed
  PROVE  ParSpec => []WholeFile
<1>1. IInv => WholeFile
  <2> SUFFICES ASSUME IInv, Writing
               PROVE  \E file \in Files : \E k \in 1 .. Len(file) - Len(payload) + 1 :
                        payload = SubSeq(file, k, k + Len(payload) - 1)
    BY DEF WholeFile
  <2>1. PICK file \in Files : \E l \in 2 .. Len(file) : PartOf(payload, file, l)
    BY DEF IInv, Whole, Writing
  <2>2. PICK l \in 2 .. Len(file) : PartOf(payload, file, l)
    BY <2>1
  <2>3. Len(payload) = l - 1 /\ payload = SubSeq(file, 2, l)
    BY <2>2, PartIs DEF PartOf
  <2>4. Len(file) \in Nat
    OBVIOUS
  <2>5. 2 \in 1 .. Len(file) - Len(payload) + 1 /\ 2 + Len(payload) - 1 = l
    BY <2>3, <2>4
  <2>6. payload = SubSeq(file, 2, 2 + Len(payload) - 1)
    BY <2>3, <2>5
  <2> QED BY <2>5, <2>6
<1> QED BY <1>1, Invariance, PTL
-------------------------------------------------------------------------------
(* The record of the file that was asked for.                              *)

\* The end of the buffer is what has arrived of the file, and the rest of the
\* file is on its way.
Behind(buffer, rest, file) ==
  LET n == Len(file) - Len(rest)
  IN /\ Len(rest) <= Len(file) /\ Len(buffer) >= n
     /\ \A i \in 1 .. Len(rest) : rest[i] = file[n + i]
     /\ \A i \in 1 .. n : buffer[Len(buffer) - n + i] = file[i]

InStore(b) ==
  Len(b) >= 2 * RecordLength =>
    /\ par_file_string = SubSeq(b, 1, RecordLength)
    /\ par_file_mask = SubSeq(b, RecordLength + 1, 2 * RecordLength)

Fetched ==
  /\ faults = 0 /\ pc \in {"wait", "receive", "handle"} =>
       asked \in Files /\ Behind(inputbuf, wire, asked)
  /\ faults = 0 /\ pc = "handle" => wire = <<>>
  /\ faults = 0 /\ pc \in {"record", "lines"} => payload[1] = asked[2]
  /\ pc = "lines" => InStore(payload[1].bytes)
  /\ faults = 0 /\ pc = "header" => asked \in Files /\ wire = asked /\ taken = <<>>
  /\ faults = 0 /\ pc = "body" =>
       asked \in Files /\ asked[1].ok /\ wire = Tail(asked) /\ taken = <<>>
  /\ RecordTaken

LEMMA ReceiveFetches ==
  ASSUME FilesWellFormed, IInv, Fetched, Receive, asked' = asked
  PROVE  Fetched'
<1> USE DEF Receive
<1>1. pc' \in {"receive", "handle"} /\ faults' = faults
  BY DEF stored, parsed
<1>2. ASSUME faults = 0 PROVE Behind(inputbuf', wire', asked) /\ asked \in Files
                              /\ (pc' = "handle" => wire' = <<>>)
  <2> DEFINE n == Len(asked) - Len(wire)
             m == Len(inputbuf)
  <2>1. /\ asked \in Files /\ Len(wire) <= Len(asked) /\ m >= n
        /\ \A i \in 1 .. Len(wire) : wire[i] = asked[n + i]
        /\ \A i \in 1 .. n : inputbuf[m - n + i] = asked[i]
    BY <1>2 DEF Fetched, Behind
  <2>2. wire \in Seq(Pieces) /\ inputbuf \in Seq(Pieces) /\ asked \in Seq(Pieces)
        /\ wire # <<>>
    BY <2>1 DEF IInv, ParTypeOK, TypeOK
  <2>3. Len(wire) \in Nat \ {0} /\ Len(asked) \in Nat /\ m \in Nat /\ n \in Nat
    BY <2>1, <2>2, EmptySeq
  <2>4. Head(wire) = asked[n + 1] /\ Head(wire) \in Pieces /\ wire' \in Seq(Pieces)
        /\ Len(wire') = Len(wire) - 1
        /\ \A i \in 1 .. Len(wire') : wire'[i] = wire[i + 1]
    <3>1. Head(wire) = wire[1] /\ 1 \in 1 .. Len(wire)
      BY <2>2, <2>3
    <3>2. wire[1] = asked[n + 1]
      BY <2>1, <3>1
    <3> QED BY <2>2, <3>1, <3>2, HeadTailProperties
  <2>5. Len(inputbuf') = m + 1 /\ inputbuf'[m + 1] = Head(wire)
        /\ \A i \in 1 .. m : inputbuf'[i] = inputbuf[i]
    BY <2>2, <2>4, AppendProperties
  <2>6. Len(asked) - Len(wire') = n + 1
    BY <2>3, <2>4
  <2> HIDE DEF n, m
  <2>7. \A i \in 1 .. Len(wire') : wire'[i] = asked[(n + 1) + i]
    <3> TAKE i \in 1 .. Len(wire')
    <3>1. i + 1 \in 1 .. Len(wire) /\ n + (i + 1) = (n + 1) + i
      BY <2>3, <2>4
    <3> QED BY <2>1, <2>4, <3>1
  <2>8. \A i \in 1 .. n + 1 : inputbuf'[(m + 1) - (n + 1) + i] = asked[i]
    <3> TAKE i \in 1 .. n + 1
    <3>1. CASE i = n + 1
      <4>1. (m + 1) - (n + 1) + i = m + 1
        BY <2>3, <3>1
      <4> QED BY <2>4, <2>5, <3>1, <4>1
    <3>2. CASE i # n + 1
      <4>1. i \in 1 .. n /\ (m + 1) - (n + 1) + i = m - n + i /\ m - n + i \in 1 .. m
        BY <2>1, <2>3, <3>2
      <4> QED BY <2>1, <2>5, <4>1
    <3> QED BY <3>1, <3>2
  <2>9. Behind(inputbuf', wire', asked)
    <3>1. Len(wire') <= Len(asked) /\ Len(inputbuf') >= n + 1
      BY <2>1, <2>3, <2>4, <2>5
    <3> DEFINE N == n + 1
               B == inputbuf'
               W == wire'
    <3>2. Len(asked) - Len(W) = N
      BY <2>6
    <3>3. \A i \in 1 .. Len(W) : W[i] = asked[N + i]
      BY <2>7
    <3>4. \A i \in 1 .. N : B[Len(B) - N + i] = asked[i]
      <4>1. Len(B) = m + 1
        BY <2>5
      <4> QED BY <2>8, <4>1
    <3>5. Len(W) <= Len(asked) /\ Len(B) >= N
      BY <3>1
    <3> HIDE DEF N, B, W
    <3>6. Behind(B, W, asked)
      BY <3>2, <3>3, <3>4, <3>5 DEF Behind
    <3> QED BY <3>6 DEF B, W
  <2>10. ASSUME pc' = "handle" PROVE wire' = <<>>
    <3>1. Head(wire).kind = "caret"
      BY <2>10
    <3>2. WellFormed(asked) /\ n + 1 \in 1 .. Len(asked)
      <4>1. n + 1 <= Len(asked)
        BY <2>3, <2>4, <2>6
      <4> QED BY <2>1, <2>3, <4>1 DEF FilesWellFormed
    <3>3. n + 1 = Len(asked)
      BY <2>4, <3>1, <3>2 DEF WellFormed
    <3>4. Len(wire') = 0
      <4>1. Len(wire') \in Nat
        BY <2>4
      <4>2. Len(asked) - Len(wire') = Len(asked) /\ Len(asked) \in Nat
        BY <2>3, <2>6, <3>3
      <4> HIDE DEF Receive
      <4> QED BY <4>1, <4>2
    <3> QED BY <2>4, <3>4, EmptySeq
  <2> QED BY <2>1, <2>9, <2>10
<1> QED BY <1>1, <1>2 DEF Fetched, RecordTaken

LEMMA SilenceFetches ==
  ASSUME IInv, Fetched, Silence, asked' = asked
  PROVE  Fetched'
<1> USE DEF Silence, buffered
<1>1. faults' = 0 => faults = 0 /\ wire = <<>>
  BY DEF Quiet, IInv, ParTypeOK, TypeOK
<1>2. pc' = "handle" /\ wire' = <<>> /\ inputbuf' = inputbuf
  OBVIOUS
<1>3. faults' = 0 => Behind(inputbuf', wire', asked) /\ asked \in Files
  BY <1>1, <1>2 DEF Fetched
<1> QED BY <1>2, <1>3 DEF Fetched, RecordTaken

\* What is verified when nothing was lost is this download's own file: the last
\* colon is not in front of its status line.
LEMMA HandleFetches ==
  ASSUME FilesWellFormed, IInv, Fetched, Handle, asked' = asked
  PROVE  Fetched'
<1> USE DEF Handle, Verified, Refused
<1>1. CASE Refused
  <2>1. pc' = "idle" /\ result' = 0
    BY <1>1 DEF Return
  <2> QED BY <2>1 DEF Fetched, RecordTaken
<1>2. CASE Verified
  <2>1. pc' = "record" /\ payload' = Received /\ faults' = faults
    BY <1>2
  <2>2. ASSUME faults = 0 PROVE payload'[1] = asked[2]
    <3> DEFINE V == Visible
               d == LastDollar(V)
               o == Len(V) - Len(asked)
    <3>1. inputbuf \in Seq(Pieces) /\ nul \in 0 .. Len(inputbuf)
      BY DEF IInv, ParTypeOK, TypeOK
    <3>2. HasChecksum /\ LastColon(V) + 1 <= d /\ d < Len(V) /\ Received # <<>>
      BY <1>2, <3>1, VerifiedIsPart
    <3>3. nul = 0
      BY <3>1, <3>2, SpentHasNoChecksum DEF IInv, Once
    <3>4. V = inputbuf
      BY <3>3 DEF Visible
    <3>5. asked \in Files /\ Behind(inputbuf, <<>>, asked)
      BY <2>2 DEF Fetched
    <3>6. ReadHex(V[d + 1]) = Received /\ V[d + 1].kind = "crc"
      <4>1. ReadHex(V[d + 1]) = Received
        BY <1>2, VisibleIsSeen DEF ChecksumMatches
      <4>2. V[d + 1].kind = "crc"
        BY <3>2, VisibleIsSeen DEF HasChecksum
      <4> QED BY <4>1, <4>2
    <3>7. Received = V[d + 1].of
      BY <3>2, <3>6 DEF ReadHex, LargestLong
    <3> HIDE DEF V
    <3>8. V \in Seq(Pieces) /\ asked \in Seq(Pieces) /\ WellFormed(asked)
      BY <3>1, <3>4, <3>5 DEF FilesWellFormed
    <3>9. /\ Len(V) \in Nat /\ Len(asked) \in Nat \ {0} /\ o \in Nat
          /\ \A i \in 1 .. Len(asked) : V[o + i] = asked[i]
      <4>1. Len(V) \in Nat /\ Len(asked) \in Nat \ {0}
        BY <3>8, EmptySeq DEF WellFormed
      <4>2. Len(asked) - Len(<<>>) = Len(asked)
        BY <4>1
      <4>3. Len(inputbuf) >= Len(asked)
            /\ \A i \in 1 .. Len(asked) : inputbuf[Len(inputbuf) - Len(asked) + i] = asked[i]
        BY <3>5, <4>2 DEF Behind
      <4>4. o \in Nat
        BY <3>4, <4>1, <4>3
      <4> QED BY <3>4, <4>1, <4>3, <4>4
    <3>10. LastColon(V) >= o + 1
      <4>1. V[o + 1] = asked[1] /\ asked[1].kind = "status" /\ o + 1 \in 1 .. Len(V)
        BY <3>8, <3>9 DEF WellFormed
      <4>2. HasColon(V[o + 1])
        BY <4>1 DEF HasColon
      <4>3. LastColon(V) \in Nat /\ \A j \in 1 .. Len(V) : j > LastColon(V) => ~ HasColon(V[j])
        BY <3>8, LastColonIs
      <4> QED BY <3>9, <4>1, <4>2, <4>3
    <3>11. d + 1 - o \in 1 .. Len(asked) /\ o + (d + 1 - o) = d + 1
      <4>1. d \in Nat /\ LastColon(V) \in Nat
        BY <3>8, LastDollarIs, LastColonIs
      <4>2. d + 1 <= Len(V) /\ d >= o + 2
        BY <3>2, <3>9, <3>10, <4>1 DEF V
      <4> HIDE DEF d
      <4> QED BY <3>9, <4>1, <4>2
    <3>12. V[d + 1] = asked[d + 1 - o]
      BY <3>9, <3>11
    <3> HIDE DEF d, o
    <3>13. asked[d + 1 - o].kind = "crc"
      BY <3>6, <3>12 DEF V
    <3>14. \E l \in 2 .. Len(asked) : asked[d + 1 - o].of = SubSeq(asked, 2, l)
      BY <3>8, <3>11, <3>13 DEF WellFormed
    <3>15. PICK l \in 2 .. Len(asked) : Received = SubSeq(asked, 2, l)
      BY <3>7, <3>12, <3>14 DEF V
    <3>16. SubSeq(asked, 2, l)[1] = asked[2]
      <4>1. \A i \in 2 .. l : asked[i] \in Pieces
        BY <3>8, <3>9
      <4>2. \A i \in 1 .. l - 2 + 1 : SubSeq(asked, 2, l)[i] = asked[2 + i - 1]
        BY <3>9, <4>1, SubSeqProperties
      <4> QED BY <3>9, <4>2
    <3> QED BY <2>1, <3>15, <3>16
  <2> QED BY <2>1, <2>2 DEF Fetched, RecordTaken
<1> QED BY <1>1, <1>2

LEMMA WriteRecordFetches ==
  ASSUME FilesWellFormed, IInv, Fetched, WriteRecord, asked' = asked
  PROVE  Fetched'
<1> USE DEF WriteRecord
<1>1. payload # <<>>
  BY DEF IInv, Flow
<1> DEFINE b == RecordBytes
<1>2. b \in Seq(Byte) /\ b = payload[1].bytes
  BY <1>1, PayloadIs DEF IInv, RecordBytes
<1>3. par_file_string' = Overlay(par_file_string, StringBytes(b))
      /\ par_file_mask' = Overlay(par_file_mask, MaskBytes(b))
      /\ par_file_string \in Store1 /\ par_file_mask \in Store1
  BY DEF IInv, ParTypeOK, TypeOK, Store1
<1> HIDE DEF b
<1>4. ASSUME Len(b) >= 2 * RecordLength
      PROVE  /\ par_file_string' = SubSeq(b, 1, RecordLength)
             /\ par_file_mask' = SubSeq(b, RecordLength + 1, 2 * RecordLength)
  <2>1. Len(b) >= RecordLength
    BY <1>2, <1>4
  <2>2. /\ StringBytes(b) \in Seq(Byte) /\ Len(StringBytes(b)) = RecordLength
        /\ MaskBytes(b) \in Seq(Byte) /\ Len(MaskBytes(b)) = RecordLength
        /\ StringBytes(b) = SubSeq(b, 1, RecordLength)
        /\ MaskBytes(b) = SubSeq(b, RecordLength + 1, 2 * RecordLength)
    BY <1>2, <1>4, <2>1, RecordParts
  <2>3. Len(StringBytes(b)) <= RecordLength /\ Len(MaskBytes(b)) <= RecordLength
    BY <2>2
  <2> QED BY <1>3, <2>2, <2>3, OverlayTyped
<1>5. pc' = "lines" /\ payload' = payload /\ faults' = faults /\ pc = "record"
  OBVIOUS
<1> QED BY <1>2, <1>4, <1>5 DEF Fetched, RecordTaken, InStore

\* The other steps of the extended download.
LEMMA RestFetches ==
  ASSUME IInv, Fetched, asked' = IF pc = "idle" THEN wire' ELSE asked,
         InitConnection \/ Request \/ Incomplete \/ Lose \/ ParseLine \/ Done,
         taken' = taken
  PROVE  Fetched'
<1>1. CASE InitConnection
  BY <1>1 DEF InitConnection, Fetched, RecordTaken
<1>2. CASE Request
  <2>1. /\ pc = "idle" /\ pc' = "wait" /\ wire' \in Files /\ asked' = wire'
        /\ inputbuf' = inputbuf
    BY <1>2 DEF Request, buffered
  <2>2. Behind(inputbuf', wire', wire')
    <3> DEFINE n == Len(wire') - Len(wire')
    <3>1. wire' \in Seq(Pieces) /\ inputbuf \in Seq(Pieces)
      BY <2>1 DEF IInv, ParTypeOK, TypeOK
    <3>2. Len(wire') \in Nat /\ Len(inputbuf) \in Nat
      BY <3>1
    <3>3. n = 0
      BY <3>2
    <3>4. /\ Len(wire') <= Len(wire') /\ Len(inputbuf') >= n
          /\ \A i \in 1 .. Len(wire') : wire'[i] = wire'[n + i]
          /\ \A i \in 1 .. n : inputbuf'[Len(inputbuf') - n + i] = wire'[i]
      <4> HIDE DEF n
      <4> QED BY <2>1, <3>2, <3>3
    <3> QED BY <3>4 DEF Behind
  <2> QED BY <2>1, <2>2 DEF Fetched, RecordTaken
<1>3. CASE Incomplete
  BY <1>3 DEF Incomplete, Return, Fetched, RecordTaken
<1>4. CASE Lose
  <2>1. faults' # 0 /\ pc' = pc /\ pc # "idle" /\ pc' # "idle"
        /\ UNCHANGED <<payload, par_file_string, par_file_mask>>
    BY <1>4 DEF Lose, IInv, Flow, ParTypeOK, TypeOK, parsed, stored
  <2> QED BY <2>1 DEF Fetched, RecordTaken, InStore
<1>5. CASE ParseLine
  <2>1. pc = "lines" /\ UNCHANGED <<pc, payload, faults, par_file_string, par_file_mask>>
        /\ asked' = asked
    BY <1>5 DEF ParseLine
  <2> QED BY <2>1 DEF Fetched, RecordTaken, InStore
<1>6. CASE Done
  <2>1. pc = "lines" /\ pc' = "idle" /\ asked' = asked
        /\ UNCHANGED <<faults, payload, par_file_string, par_file_mask>>
    BY <1>6 DEF Done, Return, parsed, stored
  <2>2. faults = 0 => payload[1] = asked[2]
    BY <2>1 DEF Fetched
  <2>3. InStore(payload[1].bytes)
    BY <2>1 DEF Fetched
  <2>4. RecordTaken'
    BY <2>1, <2>2, <2>3 DEF RecordTaken, InStore
  <2> QED BY <2>1, <2>4 DEF Fetched
<1> QED BY <1>1, <1>2, <1>3, <1>4, <1>5, <1>6

\* The earlier kind of download: the status line, and then the record with its '.'.
LEMMA ParFetches ==
  ASSUME FilesWellFormed, IInv, Fetched, ParStep
  PROVE  Fetched'
<1>1. CASE ParRequest
  <2>1. pc' = "header" /\ wire' \in Files /\ asked' = wire' /\ taken' = <<>>
    BY <1>1 DEF ParRequest
  <2> QED BY <2>1 DEF Fetched, RecordTaken
<1>2. CASE ParHeader
  <2>1. pc = "header" /\ wire # <<>> /\ asked' = asked
    BY <1>2 DEF ParHeader, ParUnchanged
  <2>2. CASE Head(wire).kind = "status" /\ ~ Head(wire).ok
    <3>1. pc' = "idle" /\ result' = 0
      BY <1>2, <2>2 DEF ParHeader, ParReturn, Return
    <3> QED BY <3>1 DEF Fetched, RecordTaken
  <2>3. CASE ~ (Head(wire).kind = "status" /\ ~ Head(wire).ok)
    <3>1. /\ pc' = IF Head(wire).kind = "status" THEN "body" ELSE "header"
          /\ wire' = Tail(wire) /\ faults' = faults /\ taken' = taken
      BY <1>2, <2>3 DEF ParHeader
    <3>2. ASSUME faults = 0
          PROVE  /\ asked \in Files /\ wire = asked /\ taken = <<>>
                 /\ Head(wire).kind = "status" /\ asked[1].ok
      <4>1. asked \in Files /\ wire = asked /\ taken = <<>>
        BY <2>1, <3>2 DEF Fetched
      <4>2. Head(wire) = asked[1] /\ asked[1].kind = "status" /\ asked[1] \in Pieces
        <5>1. asked \in Seq(Pieces) /\ asked # <<>> /\ asked[1].kind = "status"
          BY <4>1 DEF FilesWellFormed, WellFormed
        <5>2. 1 \in 1 .. Len(asked)
          BY <5>1, EmptySeq
        <5> QED BY <4>1, <5>1, <5>2
      <4> QED BY <2>3, <4>1, <4>2
    <3>3. pc' \in {"header", "body"} /\ (faults' = 0 => pc' = "body")
      BY <3>1, <3>2
    <3> QED BY <2>1, <3>1, <3>2, <3>3 DEF Fetched, RecordTaken
  <2> QED BY <2>2, <2>3
<1>3. CASE ParBody
  <2>1. pc = "body" /\ wire # <<>> /\ asked' = asked
    BY <1>3 DEF ParBody, ParUnchanged
  <2>2. PICK digits \in Digits(Head(wire)), dot \in Dots(Head(wire)) :
        LET b == taken \o digits
        IN /\ par_file_string' = Overlay(par_file_string, StringBytes(b))
           /\ par_file_mask' = Overlay(par_file_mask, MaskBytes(b))
           /\ IF dot \/ Len(b) >= 2 * RecordLength
              THEN ParReturn(1) /\ UNCHANGED faults
              ELSE /\ taken' = b /\ wire' = Tail(wire)
                   /\ UNCHANGED <<pc, result, faults>>
    BY <1>3 DEF ParBody
  <2>3. faults' = faults
    BY <2>2 DEF ParReturn, Return
  <2>4. CASE faults # 0
    <3>1. pc' = pc \/ pc' = "idle"
      BY <2>2 DEF ParReturn, Return
    <3> QED BY <2>1, <2>3, <2>4, <3>1 DEF Fetched, RecordTaken
  <2>5. CASE faults = 0
    <3>1. asked \in Files /\ asked[1].ok /\ wire = Tail(asked) /\ taken = <<>>
      BY <2>1, <2>5 DEF Fetched
    <3>2. asked \in Seq(Pieces) /\ asked # <<>> /\ Len(asked) > 1 /\ asked[2].kind = "record"
      BY <3>1 DEF FilesWellFormed, WellFormed
    <3>3. Head(wire) = asked[2] /\ asked[2] \in Pieces
      <4>1. wire \in Seq(Pieces) /\ Len(wire) = Len(asked) - 1
            /\ \A i \in 1 .. Len(wire) : wire[i] = asked[i + 1]
        BY <3>1, <3>2, HeadTailProperties
      <4>2. 1 \in 1 .. Len(wire) /\ 2 \in 1 .. Len(asked)
        BY <3>2, <4>1
      <4>3. Head(wire) = wire[1]
        BY <2>1, <4>1
      <4> QED BY <3>2, <4>1, <4>2, <4>3
    <3> DEFINE b == asked[2].bytes
    <3>4. digits = b /\ dot = TRUE /\ b \in Seq(Byte)
      <4>1. Digits(Head(wire)) = {b} /\ Dots(Head(wire)) = {TRUE}
        BY <3>2, <3>3 DEF Digits, Dots
      <4>2. b \in Seq(Byte)
        BY <3>2, <3>3
      <4> QED BY <4>1, <4>2
    <3>5. taken \o digits = b
      BY <3>1, <3>4, ConcatEmptySeq
    <3> HIDE DEF b
    <3>6. /\ pc' = "idle"
          /\ par_file_string' = Overlay(par_file_string, StringBytes(b))
          /\ par_file_mask' = Overlay(par_file_mask, MaskBytes(b))
      BY <2>2, <3>4, <3>5 DEF ParReturn, Return
    <3>7. ASSUME Len(b) >= 2 * RecordLength
          PROVE  /\ par_file_string' = SubSeq(b, 1, RecordLength)
                 /\ par_file_mask' = SubSeq(b, RecordLength + 1, 2 * RecordLength)
      <4>1. Len(b) >= RecordLength
        <5>1. Len(b) \in Nat
          BY <3>4
        <5> QED BY <3>7, <5>1
      <4>2. /\ StringBytes(b) \in Seq(Byte) /\ Len(StringBytes(b)) = RecordLength
            /\ MaskBytes(b) \in Seq(Byte) /\ Len(MaskBytes(b)) = RecordLength
            /\ StringBytes(b) = SubSeq(b, 1, RecordLength)
            /\ MaskBytes(b) = SubSeq(b, RecordLength + 1, 2 * RecordLength)
        BY <3>4, <3>7, <4>1, RecordParts
      <4>3. Len(StringBytes(b)) <= RecordLength /\ Len(MaskBytes(b)) <= RecordLength
        BY <4>2
      <4>4. par_file_string \in Store1 /\ par_file_mask \in Store1
        BY DEF IInv, ParTypeOK, TypeOK, Store1
      <4> QED BY <3>6, <4>2, <4>3, <4>4, OverlayTyped
    <3>8. RecordTaken'
      BY <2>1, <3>7 DEF RecordTaken, b
    <3> QED BY <3>6, <3>8 DEF Fetched
  <2> QED BY <2>4, <2>5
<1>4. CASE ParSilence
  BY <1>4 DEF ParSilence, ParReturn, Return, Fetched, RecordTaken
<1> QED BY <1>1, <1>2, <1>3, <1>4 DEF ParStep

LEMMA NextFetched ==
  ASSUME FilesWellFormed
  PROVE  IInv /\ Fetched /\ [ExtendedStep \/ ParStep]_parVars => Fetched'
<1> SUFFICES ASSUME IInv, Fetched, [ExtendedStep \/ ParStep]_parVars PROVE Fetched'
  OBVIOUS
<1>1. CASE ExtendedStep
  <2>1. taken' = taken /\ asked' = IF pc = "idle" THEN wire' ELSE asked
    BY <1>1 DEF ExtendedStep
  <2>2. CASE Silence
    BY <2>1, <2>2, SilenceFetches DEF Silence
  <2>3. CASE Receive
    BY <2>1, <2>3, ReceiveFetches DEF Receive
  <2>4. CASE Handle
    BY <2>1, <2>4, HandleFetches DEF Handle
  <2>5. CASE WriteRecord
    BY <2>1, <2>5, WriteRecordFetches DEF WriteRecord
  <2>6. CASE InitConnection \/ Request \/ Incomplete \/ Lose \/ ParseLine \/ Done
    BY <2>1, <2>6, RestFetches
  <2> QED BY <1>1, <2>2, <2>3, <2>4, <2>5, <2>6 DEF ExtendedStep, Next
<1>2. CASE ParStep
  BY <1>2, ParFetches
<1>3. CASE UNCHANGED parVars
  BY <1>3 DEF parVars, vars, buffered, stored, parsed, Fetched, Behind, InStore, RecordTaken
<1> QED BY <1>1, <1>2, <1>3

\* A download of either kind that returns 1 and lost nothing has left in the
\* connection state the record of the file it asked for, whatever earlier
\* downloads of either kind have left there or in the buffer.
THEOREM RecordIsTheOneAsked ==
  ASSUME FilesWellFormed
  PROVE  ParSpec => []RecordTaken
<1>1. ParInit => IInv /\ Fetched
  <2>1. ParInit => pc = "idle" /\ result = 0
    BY DEF ParInit, Init
  <2>2. pc = "idle" /\ result = 0 => Fetched
    BY DEF Fetched, RecordTaken
  <2> QED BY <2>1, <2>2, InitIInv
<1>2. (IInv /\ Fetched) /\ [ExtendedStep \/ ParStep]_parVars => (IInv /\ Fetched)'
  BY NextIInv, NextFetched
<1>3. IInv /\ Fetched => RecordTaken
  BY DEF Fetched
<1> QED BY <1>1, <1>2, <1>3, PTL DEF ParSpec
-------------------------------------------------------------------------------
(* What was written stays in the flash.                                    *)

\* The pieces among the first n that go to the flash.
Blocks(p, n) == {k \in 1 .. n : IsBlock(p[k])}

\* The list holds the numbers of the sectors they go to.
Listed(list, p, B) ==
  \A m \in Nat : Contains(list, m) <=> \E k \in B : SectorNumber(At(p[k])) = m

\* Their sectors are erased where none of them was written.
Clean(chip, p, B) ==
  \A k \in B : \A x \in SectorAt(p[k]) :
    (\A j \in B : x \notin Written(p[j])) => chip.cells[x] = Erased

\* A block is erased for or not, and written: it is then in the flash, what was
\* written before is still there, and the rest of the sectors is erased.
\* Another block, apart from those.
Apart(p, B, k) ==
  /\ k \notin B
  /\ \A i, j \in B \cup {k} :
       /\ Written(p[i]) \subseteq SectorAt(p[i])
       /\ i # j => Written(p[i]) \cap Written(p[j]) = {}
       /\ IF SectorNumber(At(p[i])) = SectorNumber(At(p[j]))
          THEN SectorAt(p[i]) = SectorAt(p[j])
          ELSE SectorAt(p[i]) \cap SectorAt(p[j]) = {}
  /\ \A i \in B \cup {k} : At(p[i]) \in Addr /\ Size(p[i]) \in Nat

\* What the flash holds when it is written, and that it still holds what it held.
Holding(chip, after, p, B, a, bytes) ==
  /\ \A i \in 1 .. Len(bytes) : after.cells[a + i - 1] = bytes[i]
  /\ \A j \in B : \A x \in Written(p[j]) : after.cells[x] = chip.cells[x]

Afterwards(chip, list, a, bytes) == WriteString(EraseAt(chip, list, a), a, bytes)

LEMMA BlockStored ==
  ASSUME NEW chip \in Chip, NEW list \in Seq(Nat), NEW bytes \in Seq(Byte),
         NEW p, NEW B, NEW k, Apart(p, B, k), Len(bytes) <= Size(p[k]),
         Listed(list, p, B), Clean(chip, p, B)
  PROVE  /\ Listed(AddSector(list, At(p[k])), p, B \cup {k})
         /\ Clean(Afterwards(chip, list, At(p[k]), bytes), p, B \cup {k})
         /\ Holding(chip, Afterwards(chip, list, At(p[k]), bytes), p, B, At(p[k]), bytes)
<1> USE DEF Apart
<1> DEFINE a == At(p[k])
           after == Afterwards(chip, list, a, bytes)
<1> DEFINE S == SectorAt(p[k])
           erased == EraseAt(chip, list, a)
<1>1. a \in Addr /\ a \in Int /\ SectorNumber(a) \in Nat
      /\ \A j \in B : At(p[j]) \in Addr /\ SectorNumber(At(p[j])) \in Nat
  <2>1. \A x \in Addr : SectorNumber(x) \in Nat /\ x \in Int
    BY SectorNumberTyped DEF Addr
  <2> QED BY <2>1
<1>2. S \subseteq Addr /\ S = SectorFrom(SectorOf(a))
      /\ \A j \in B : SectorAt(p[j]) \subseteq Addr
  BY DEF SectorAt, SectorFrom
<1>3. EraseNeeded(list, a) <=> \A j \in B : SectorNumber(At(p[j])) # SectorNumber(a)
  BY <1>1 DEF EraseNeeded, Listed
<1>4. Listed(AddSector(list, a), p, B \cup {k})
  <2> DEFINE more == AddSector(list, a)
  <2>1. ASSUME NEW m \in Nat
        PROVE  Contains(more, m) <=> (Contains(list, m) \/ m = SectorNumber(a))
    <3>1. CASE EraseNeeded(list, a)
      <4>1. more = Append(list, SectorNumber(a))
        BY <3>1 DEF AddSector
      <4>2. /\ more \in Seq(Nat) /\ Len(more) = Len(list) + 1
            /\ \A i \in 1 .. Len(list) : more[i] = list[i]
            /\ more[Len(list) + 1] = SectorNumber(a)
        BY <1>1, <4>1, AppendProperties
      <4> HIDE DEF more
      <4>3. Len(list) \in Nat
        OBVIOUS
      <4>4. Contains(list, m) => Contains(more, m)
        BY SMTT(30), <4>2, <4>3 DEF Contains
      <4>5. m = SectorNumber(a) => Contains(more, m)
        BY SMTT(30), <4>2, <4>3 DEF Contains
      <4>6. ASSUME Contains(more, m) PROVE Contains(list, m) \/ m = SectorNumber(a)
        <5>1. PICK i \in 1 .. Len(more) : more[i] = m
          BY <4>6 DEF Contains
        <5>2. CASE i = Len(list) + 1
          BY <4>2, <5>1, <5>2
        <5>3. CASE i # Len(list) + 1
          <6>1. i \in 1 .. Len(list)
            BY <4>2, <4>3, <5>3
          <6> QED BY <4>2, <5>1, <6>1 DEF Contains
        <5> QED BY <5>2, <5>3
      <4> QED BY <4>4, <4>5, <4>6
    <3>2. CASE ~ EraseNeeded(list, a)
      <4>1. more = list /\ Contains(list, SectorNumber(a))
        BY <3>2 DEF AddSector, EraseNeeded
      <4> QED BY <4>1
    <3> QED BY <3>1, <3>2
  <2> HIDE DEF more
  <2>2. ASSUME NEW m \in Nat
        PROVE  Contains(more, m) <=> \E j \in B \cup {k} : SectorNumber(At(p[j])) = m
    <3>1. Contains(list, m) <=> \E j \in B : SectorNumber(At(p[j])) = m
      BY DEF Listed
    <3> QED BY <2>1, <3>1
  <2> QED BY <2>2 DEF Listed, more
<1>5. erased \in Chip
  BY EraseAtTyped
<1>6. \A x \in S : (\A j \in B : x \notin Written(p[j])) => erased.cells[x] = Erased
  <2>1. CASE EraseNeeded(list, a)
    <3>1. erased = SectorErase(chip, SectorOf(a))
      BY <2>1 DEF EraseAt
    <3> QED BY <1>2, <3>1, SectorEraseErases
  <2>2. CASE ~ EraseNeeded(list, a)
    <3>1. erased = chip
      BY <2>2 DEF EraseAt
    <3>2. PICK j \in B : SectorNumber(At(p[j])) = SectorNumber(a)
      BY <1>3, <2>2
    <3>3. SectorAt(p[j]) = S
      BY <3>2
    <3> QED BY <3>1, <3>2, <3>3 DEF Clean
  <2> QED BY <2>1, <2>2
<1>7. ASSUME NEW j \in B, NEW x \in SectorAt(p[j])
      PROVE  erased.cells[x] = chip.cells[x]
  <2>1. CASE EraseNeeded(list, a)
    <3>1. erased = SectorErase(chip, SectorOf(a))
      BY <2>1 DEF EraseAt
    <3>2. SectorNumber(At(p[j])) # SectorNumber(a)
      BY <1>3, <2>1
    <3>3. SectorAt(p[j]) \cap S = {}
      BY <3>2
    <3>4. x \in Addr \ S
      BY <1>2, <3>3
    <3> QED BY <1>2, <3>1, <3>4, SectorEraseErases
  <2>2. CASE ~ EraseNeeded(list, a)
    BY <2>2 DEF EraseAt
  <2> QED BY <2>1, <2>2
<1>8. \A x \in Addr : after.cells[x] = IF x >= a /\ x < a + Len(bytes)
              THEN Program(erased.cells[x], bytes[x - a + 1]) ELSE erased.cells[x]
  BY <1>1, <1>5, WriteStringTyped DEF Afterwards
<1>9. ASSUME NEW x \in Int, x >= a, x < a + Len(bytes) PROVE x \in Written(p[k])
  <2>1. Len(bytes) \in Nat /\ Size(p[k]) \in Nat
    OBVIOUS
  <2>2. x \in a .. a + Size(p[k]) - 1
    BY <1>1, <1>9, <2>1
  <2> QED BY <2>2 DEF Written
<1>10. Written(p[k]) \subseteq S
       /\ \A j \in B : /\ Written(p[j]) \subseteq SectorAt(p[j])
                       /\ Written(p[k]) \cap Written(p[j]) = {}
  BY ZenonT(30)
<1> HIDE DEF erased, S, after, a
<1>11. ASSUME NEW x \in Addr, x \notin Written(p[k])
       PROVE  after.cells[x] = erased.cells[x]
  <2>1. x \in Int
    BY DEF Addr
  <2>2. ~ (x >= a /\ x < a + Len(bytes))
    BY <1>9, <1>11, <2>1
  <2> QED BY <1>8, <2>2
<1>12. ASSUME NEW i \in 1 .. Len(bytes) PROVE after.cells[a + i - 1] = bytes[i]
  <2> DEFINE x == a + i - 1
  <2>1. x \in Int /\ x >= a /\ x < a + Len(bytes) /\ x - a + 1 = i
    BY <1>1
  <2> HIDE DEF x
  <2>2. x \in Written(p[k]) /\ x \in S /\ x \in Addr
    BY <1>2, <1>9, <1>10, <2>1
  <2>3. \A j \in B : x \notin Written(p[j])
    BY <1>10, <2>2
  <2>4. erased.cells[x] = Erased
    BY <1>6, <2>2, <2>3
  <2>5. after.cells[x] = Program(Erased, bytes[i])
    BY <1>8, <2>1, <2>2, <2>4
  <2>6. Program(Erased, bytes[i]) = bytes[i]
    BY DEF Program
  <2> QED BY <2>5, <2>6 DEF x
<1>13. ASSUME NEW j \in B, NEW x \in Written(p[j]) PROVE after.cells[x] = chip.cells[x]
  <2>1. x \in SectorAt(p[j]) /\ x \in Addr /\ x \notin Written(p[k])
    BY <1>2, <1>10
  <2> QED BY <1>7, <1>11, <2>1
<1>14. Clean(after, p, B \cup {k})
  <2> SUFFICES ASSUME NEW i \in B \cup {k}, NEW x \in SectorAt(p[i]),
                      \A j \in B \cup {k} : x \notin Written(p[j])
               PROVE  after.cells[x] = Erased
    BY DEF Clean
  <2>1. x \notin Written(p[k]) /\ \A j \in B : x \notin Written(p[j])
    OBVIOUS
  <2>2. CASE i = k
    <3>1. x \in S /\ x \in Addr
      BY <1>2, <2>2 DEF S
    <3> QED BY <1>6, <1>11, <2>1, <3>1
  <2>3. CASE i \in B
    <3>1. x \in Addr
      BY <1>2, <2>3
    <3>2. chip.cells[x] = Erased
      BY <2>1, <2>3 DEF Clean
    <3> QED BY <1>7, <1>11, <2>1, <2>3, <3>1, <3>2
  <2> QED BY <2>2, <2>3
<1>15. Holding(chip, after, p, B, a, bytes)
  BY <1>12, <1>13 DEF Holding
<1> QED BY <1>4, <1>14, <1>15 DEF after, a

Count == Len(payload) - Len(extended)

\* How far the parser is, and what that means for the flash.
Progress ==
  pc = "lines" =>
    /\ Len(extended) < Len(payload)
    /\ \A i \in 1 .. Len(extended) : extended[i] = payload[Count + i]
    /\ Listed(sectors, payload, Blocks(payload, Count))
    /\ Clean(sst25, payload, Blocks(payload, Count))

Laid == Progress /\ ParStored

LEMMA PayloadPlaced ==
  ASSUME FilesWellFormed, FilesWellPlaced, Whole, payload # <<>>
  PROVE  /\ \A i, j \in 1 .. Len(payload) : IsBlock(payload[i]) /\ IsBlock(payload[j]) =>
              /\ Written(payload[i]) \subseteq SectorAt(payload[i])
              /\ i # j => Written(payload[i]) \cap Written(payload[j]) = {}
              /\ IF SectorNumber(At(payload[i])) = SectorNumber(At(payload[j]))
                 THEN SectorAt(payload[i]) = SectorAt(payload[j])
                 ELSE SectorAt(payload[i]) \cap SectorAt(payload[j]) = {}
         /\ \A i \in 1 .. Len(payload) : IsBlock(payload[i]) =>
              At(payload[i]) \in Addr /\ Size(payload[i]) \in Nat
<1>1. PICK file \in Files : \E l \in 2 .. Len(file) : PartOf(payload, file, l)
  BY DEF Whole
<1>2. PICK l \in 2 .. Len(file) : PartOf(payload, file, l)
  BY <1>1
<1>3. /\ payload \in Seq(Pieces) /\ Len(payload) = l - 1
      /\ \A j \in 1 .. l - 1 : payload[j] = file[j + 1]
  BY <1>2, PartIs
<1>4. Len(file) \in Nat /\ WellPlaced(file)
  BY DEF FilesWellPlaced
<1>5. ASSUME NEW i \in 1 .. Len(payload), NEW j \in 1 .. Len(payload),
             IsBlock(payload[i]), IsBlock(payload[j])
      PROVE  /\ Written(payload[i]) \subseteq SectorAt(payload[i])
             /\ i # j => Written(payload[i]) \cap Written(payload[j]) = {}
             /\ IF SectorNumber(At(payload[i])) = SectorNumber(At(payload[j]))
                THEN SectorAt(payload[i]) = SectorAt(payload[j])
                ELSE SectorAt(payload[i]) \cap SectorAt(payload[j]) = {}
  <2>1. /\ i + 1 \in 1 .. Len(file) /\ j + 1 \in 1 .. Len(file)
        /\ payload[i] = file[i + 1] /\ payload[j] = file[j + 1]
        /\ (i # j => i + 1 # j + 1)
    BY <1>3, <1>4
  <2>2. IsBlock(file[i + 1]) /\ IsBlock(file[j + 1])
    BY <1>5, <2>1
  <2>3. /\ Written(file[i + 1]) \subseteq SectorAt(file[i + 1])
        /\ i + 1 # j + 1 => Written(file[i + 1]) \cap Written(file[j + 1]) = {}
        /\ IF SectorNumber(At(file[i + 1])) = SectorNumber(At(file[j + 1]))
           THEN SectorAt(file[i + 1]) = SectorAt(file[j + 1])
           ELSE SectorAt(file[i + 1]) \cap SectorAt(file[j + 1]) = {}
    BY <1>4, <2>1, <2>2, Zenon DEF WellPlaced
  <2> QED BY <2>1, <2>3, Zenon
<1>6. ASSUME NEW i \in 1 .. Len(payload), IsBlock(payload[i])
      PROVE  At(payload[i]) \in Addr /\ Size(payload[i]) \in Nat
  <2>1. payload[i] \in Pieces
    BY <1>3
  <2>2. CASE IsRecord(payload[i])
    BY <2>2 DEF At, Size
  <2>3. CASE ~ IsRecord(payload[i])
    <3>1. payload[i].at \in Addr /\ payload[i].bytes \in Seq(Byte)
      BY <1>6, <2>1, <2>3 DEF IsBlock, IsLine
    <3> QED BY <2>3, <3>1 DEF At, Size
  <2> QED BY <2>2, <2>3
<1> QED BY <1>5, <1>6

LEMMA WriteRecordLays ==
  ASSUME FilesWellFormed, FilesWellPlaced, IInv, Laid, WriteRecord
  PROVE  Laid'
<1> USE DEF WriteRecord
<1> DEFINE p == payload
           b == RecordBytes
           n == LengthOf(b)
           bytes == SubSeq(par_file_string', 1, n) \o SubSeq(par_file_mask', 1, n)
<1>1. payload # <<>> /\ Whole /\ sectors = <<>> /\ sst25 \in Chip
      /\ par_file_string \in Store1 /\ par_file_mask \in Store1
  BY DEF IInv, Flow, Once, ParTypeOK, TypeOK, Store1
<1>2. /\ p \in Seq(Pieces) /\ Len(p) >= 2 /\ p[1].kind = "record" /\ b = p[1].bytes
      /\ b \in Seq(Byte) /\ Tail(p) \in Seq(Pieces) /\ Len(Tail(p)) = Len(p) - 1
  BY <1>1, PayloadIs DEF RecordBytes
<1>3. \A i \in 1 .. Len(Tail(p)) : Tail(p)[i] = p[1 + i]
  BY <1>1, <1>2, HeadTailProperties
<1>4. Store(RecordStart, bytes)
      /\ par_file_string' = Overlay(par_file_string, StringBytes(b))
      /\ par_file_mask' = Overlay(par_file_mask, MaskBytes(b))
  OBVIOUS
<1>5. payload' = p /\ extended' = Tail(p) /\ pc' = "lines"
  OBVIOUS
<1> HIDE DEF b, p, WriteRecord
<1>6. StringBytes(b) \in Seq(Byte) /\ Len(StringBytes(b)) <= RecordLength
      /\ MaskBytes(b) \in Seq(Byte) /\ Len(MaskBytes(b)) <= RecordLength
  BY <1>2, RecordParts
<1>7. par_file_string' \in Store1 /\ par_file_mask' \in Store1
  BY <1>1, <1>4, <1>6, OverlayTyped
<1>8. /\ n \in 0 .. RecordLength
      /\ Len(b) >= 2 * RecordLength => n = RecordLength
      /\ bytes \in Seq(Byte) /\ Len(bytes) = 2 * n
      /\ \A k \in 1 .. n : bytes[k] = par_file_string'[k] /\ bytes[n + k] = par_file_mask'[k]
  <2>1. b \in Seq(Byte)
    BY <1>2
  <2> DEFINE str == par_file_string'
             mask == par_file_mask'
  <2>2. str \in Store1 /\ mask \in Store1
    BY <1>7
  <2> HIDE DEF str, mask
  <2>3. /\ LengthOf(b) \in 0 .. RecordLength
        /\ Len(b) >= 2 * RecordLength => LengthOf(b) = RecordLength
        /\ Out(str, mask, LengthOf(b)) \in Seq(Byte)
        /\ Len(Out(str, mask, LengthOf(b))) = 2 * LengthOf(b)
        /\ \A k \in 1 .. LengthOf(b) :
             /\ Out(str, mask, LengthOf(b))[k] = str[k]
             /\ Out(str, mask, LengthOf(b))[LengthOf(b) + k] = mask[k]
    BY <2>1, <2>2, RecordWritten, ZenonT(30)
  <2>4. bytes = Out(str, mask, LengthOf(b))
    BY Zenon DEF Out, str, mask
  <2> HIDE DEF bytes
  <2>5. n = LengthOf(b)
    OBVIOUS
  <2> HIDE DEF n
  <2> QED BY <2>3, <2>4, <2>5, Zenon DEF str, mask
<1> HIDE DEF bytes, n
<1>9. IsRecord(p[1]) /\ IsBlock(p[1]) /\ At(p[1]) = RecordStart
      /\ Size(p[1]) = 2 * RecordLength /\ 1 \in 1 .. Len(p)
  BY <1>2 DEF IsRecord, IsBlock, At, Size
<1>11. /\ sst25' = WriteString(EraseAt(sst25, sectors, RecordStart), RecordStart, bytes)
       /\ sectors' = AddSector(sectors, RecordStart)
  BY <1>4 DEF Store
<1>10. /\ Listed(sectors', p, {} \cup {1}) /\ Clean(sst25', p, {} \cup {1})
       /\ \A i \in 1 .. Len(bytes) : sst25'.cells[RecordStart + i - 1] = bytes[i]
  <2> DEFINE B == {}
  <2>1. Apart(p, B, 1)
    <3>1. \A i, j \in B \cup {1} :
           /\ Written(p[i]) \subseteq SectorAt(p[i])
           /\ i # j => Written(p[i]) \cap Written(p[j]) = {}
           /\ IF SectorNumber(At(p[i])) = SectorNumber(At(p[j]))
              THEN SectorAt(p[i]) = SectorAt(p[j])
              ELSE SectorAt(p[i]) \cap SectorAt(p[j]) = {}
      BY <1>1, <1>9, PayloadPlaced DEF p
    <3>2. \A i \in B \cup {1} : At(p[i]) \in Addr /\ Size(p[i]) \in Nat
      BY <1>9
    <3> QED BY <3>1, <3>2 DEF Apart
  <2>3. Len(bytes) <= Size(p[1])
    BY <1>8, <1>9
  <2>4. Listed(sectors, p, B) /\ Clean(sst25, p, B) /\ sectors \in Seq(Nat)
    BY <1>1 DEF Listed, Clean, Contains
  <2>5. sst25' = Afterwards(sst25, sectors, At(p[1]), bytes)
    BY <1>9, <1>11 DEF Afterwards
  <2> HIDE DEF B
  <2>6. bytes \in Seq(Byte) /\ sst25 \in Chip
    BY <1>1, <1>8
  <2>7. /\ Listed(AddSector(sectors, At(p[1])), p, B \cup {1}) /\ Clean(sst25', p, B \cup {1})
        /\ Holding(sst25, sst25', p, B, At(p[1]), bytes)
    BY <2>1, <2>3, <2>4, <2>5, <2>6, BlockStored
  <2> QED BY <1>9, <1>11, <2>7 DEF B, Holding
<1>12. Count' = 1
  BY <1>2, <1>5 DEF Count
<1>13. Blocks(p, 1) = {} \cup {1}
  BY <1>9 DEF Blocks
<1>14. Progress'
  <2>1. Listed(sectors', p, Blocks(p, 1)) /\ Clean(sst25', p, Blocks(p, 1))
    BY <1>10, <1>11, <1>13
  <2>2. Len(extended') < Len(payload')
        /\ \A i \in 1 .. Len(extended') : extended'[i] = payload'[1 + i]
    BY <1>2, <1>3, <1>5
  <2> QED BY <1>5, <1>12, <2>1, <2>2 DEF Progress
<1>15. ASSUME Len(b) >= 2 * RecordLength
       PROVE  \A k \in 1 .. Len(SubSeq(b, 1, 2 * RecordLength)) :
                sst25'.cells[RecordStart + k - 1] = SubSeq(b, 1, 2 * RecordLength)[k]
  <2> DEFINE R == RecordLength
             whole == SubSeq(b, 1, 2 * R)
  <2>0. R \in Nat /\ R > 0 /\ Len(b) \in Nat
    BY <1>2
  <2>1. \A i \in 1 .. 2 * R : b[i] \in Byte
    BY <1>2, <1>15, <2>0
  <2>2. Len(whole) = 2 * R
    <3>1. Len(whole) = IF 1 <= 2 * R THEN 2 * R - 1 + 1 ELSE 0
      BY <2>0, <2>1, SubSeqProperties
    <3> QED BY <2>0, <3>1
  <2>3. \A k \in 1 .. 2 * R : whole[k] = b[k]
    <3>1. \A k \in 1 .. 2 * R - 1 + 1 : whole[k] = b[1 + k - 1]
      BY <2>0, <2>1, SubSeqProperties
    <3> QED BY <2>0, <3>1
  <2>4. n = R /\ Len(bytes) = 2 * R
    BY <1>8, <1>15
  <2>5. par_file_string' = SubSeq(b, 1, R) /\ par_file_mask' = SubSeq(b, R + 1, 2 * R)
    <3>1. Len(b) >= R
      BY <1>15, <2>0
    <3>2. /\ Len(StringBytes(b)) = R /\ Len(MaskBytes(b)) = R
          /\ StringBytes(b) = SubSeq(b, 1, R) /\ MaskBytes(b) = SubSeq(b, R + 1, 2 * R)
      BY <1>2, <1>15, <3>1, RecordParts
    <3> QED BY <1>1, <1>4, <1>6, <3>2, OverlayTyped
  <2>6. \A k \in 1 .. R : par_file_string'[k] = b[k] /\ par_file_mask'[k] = b[R + k]
    <3>1. \A k \in 1 .. R - 1 + 1 : SubSeq(b, 1, R)[k] = b[1 + k - 1]
      BY <2>0, <2>1, SubSeqProperties
    <3>2. \A k \in 1 .. 2 * R - (R + 1) + 1 : SubSeq(b, R + 1, 2 * R)[k] = b[(R + 1) + k - 1]
      BY <2>0, <2>1, SubSeqProperties
    <3>3. R - 1 + 1 = R /\ 2 * R - (R + 1) + 1 = R
      BY <2>0
    <3>4. \A k \in 1 .. R : 1 + k - 1 = k /\ (R + 1) + k - 1 = R + k
      BY <2>0
    <3> QED BY <2>5, <3>1, <3>2, <3>3, <3>4
  <2> HIDE DEF whole, R
  <2>7. ASSUME NEW k \in 1 .. 2 * R PROVE bytes[k] = b[k]
    <3>1. CASE k \in 1 .. R
      BY <1>8, <2>4, <2>6, <3>1
    <3>2. CASE k \notin 1 .. R
      <4>1. k - R \in 1 .. R /\ R + (k - R) = k
        BY <2>0, <3>2
      <4> QED BY SMTT(30), <1>8, <2>4, <2>6, <4>1
    <3> QED BY <3>1, <3>2
  <2>8. \A k \in 1 .. 2 * R : sst25'.cells[RecordStart + k - 1] = bytes[k]
    BY <1>10, <1>11, <2>4
  <2>9. \A k \in 1 .. Len(whole) : sst25'.cells[RecordStart + k - 1] = whole[k]
    BY <2>2, <2>3, <2>7, <2>8
  <2> QED BY <2>9 DEF whole, R
<1>16. ParStored'
  <2>1. RecordBytes' = b
    BY <1>5 DEF RecordBytes, b, p
  <2>2. 2 .. Len(payload') - Len(extended') = {}
    BY <1>12 DEF Count
  <2>3. FullRecord' => Len(b) >= 2 * RecordLength
    BY <2>1 DEF FullRecord
  <2> QED BY <1>15, <2>1, <2>2, <2>3 DEF ParStored, Holds
<1> QED BY <1>14, <1>16 DEF Laid

\* A byte of a block is written where the block is.
LEMMA InWritten ==
  ASSUME NEW piece, At(piece) \in Addr, Size(piece) \in Nat, NEW i \in 1 .. Size(piece)
  PROVE  At(piece) + i - 1 \in Written(piece)
<1>1. At(piece) \in Int
  BY DEF Addr
<1> QED BY <1>1 DEF Written

\* A line goes to the flash, or is none that does.
LEMMA ParseLineLays ==
  ASSUME FilesWellFormed, FilesWellPlaced, IInv, Laid, ParseLine
  PROVE  Laid'
<1> USE DEF ParseLine
<1> DEFINE p == payload
           k == Count + 1
           B == Blocks(p, Count)
           line == Head(extended)
<1>1. /\ payload # <<>> /\ Whole /\ sst25 \in Chip /\ sectors \in Seq(Nat)
      /\ extended \in Seq(Pieces) /\ extended # <<>> /\ pc = "lines"
  BY DEF IInv, Flow, ParTypeOK, TypeOK
<1>2. /\ p \in Seq(Pieces) /\ Len(p) >= 2 /\ p[1].kind = "record" /\ RecordBytes \in Seq(Byte)
      /\ RecordBytes = p[1].bytes /\ \A j \in 2 .. Len(p) : p[j].kind # "record"
  BY <1>1, PayloadIs DEF RecordBytes
<1>3. /\ Len(extended) < Len(p) /\ \A i \in 1 .. Len(extended) : extended[i] = p[Count + i]
      /\ Listed(sectors, p, B) /\ Clean(sst25, p, B)
  BY <1>1 DEF Laid, Progress
<1>4. /\ line = extended[1] /\ Tail(extended) \in Seq(Pieces)
      /\ Len(Tail(extended)) = Len(extended) - 1
      /\ \A i \in 1 .. Len(Tail(extended)) : Tail(extended)[i] = extended[i + 1]
  BY <1>1, HeadTailProperties
<1>5. Len(extended) \in Nat /\ Len(extended) >= 1 /\ Len(p) \in Nat
  BY <1>1, <1>2
<1>6. Count \in Nat /\ Count = Len(p) - Len(extended)
  BY <1>3, <1>5 DEF Count
<1>7. k \in 2 .. Len(p) /\ k \in 1 .. Len(p) /\ k \in Nat /\ k - 1 = Count /\ Count >= 1
  BY <1>3, <1>5, <1>6
<1>8. line = p[k] /\ line.kind # "record" /\ line \in Pieces
  <2>1. line = p[k]
    BY <1>3, <1>4, <1>5
  <2> QED BY <1>2, <1>7, <2>1
<1>9. payload' = p /\ extended' = Tail(extended) /\ pc' = "lines"
  OBVIOUS
<1>10. IF IsBlock(line)
       THEN Store(line.at, line.bytes) ELSE sst25' = sst25 /\ sectors' = sectors
  <2>1. IsBlock(line) <=> IsLine(line) /\ HasComment(line)
    BY <1>8 DEF IsBlock, IsRecord
  <2> QED BY <2>1
<1>11. ParStored
  BY DEF Laid
<1> HIDE DEF ParseLine, p, line, B
<1>12. Count' = k
  BY <1>4, <1>5, <1>6, <1>9 DEF Count, p
<1>13. \A i \in 1 .. Len(extended') : extended'[i] = p[k + i]
  <2> SUFFICES ASSUME NEW i \in 1 .. Len(Tail(extended)) PROVE Tail(extended)[i] = p[k + i]
    BY <1>9
  <2>1. i \in Nat /\ i + 1 \in 1 .. Len(extended) /\ Count + (i + 1) = k + i
    BY <1>4, <1>5, <1>6
  <2>2. Tail(extended)[i] = extended[i + 1]
    BY <1>4
  <2>3. extended[i + 1] = p[Count + (i + 1)]
    BY <1>3, <2>1
  <2> QED BY <2>1, <2>2, <2>3
<1>14. Len(extended') < Len(payload')
  BY <1>3, <1>4, <1>5, <1>9
<1>15. IsRecord(p[1]) /\ IsBlock(p[1]) /\ At(p[1]) = RecordStart
       /\ Size(p[1]) = 2 * RecordLength /\ RecordStart \in Addr /\ 1 \in B
  BY <1>2, <1>6, <1>7 DEF IsRecord, IsBlock, At, Size, B, Blocks
<1> HIDE DEF k
\* What the step leaves in the flash, whichever piece it was.
<1>16. /\ Listed(sectors', p, Blocks(p, k)) /\ Clean(sst25', p, Blocks(p, k))
       /\ \A j \in B : \A x \in Written(p[j]) : sst25'.cells[x] = sst25.cells[x]
       /\ IsBlock(line) => \A i \in 1 .. Len(line.bytes) :
                             sst25'.cells[line.at + i - 1] = line.bytes[i]
  <2>1. CASE IsBlock(line)
    <3>1. /\ IsLine(line) /\ At(line) = line.at /\ Size(line) = Len(line.bytes)
          /\ line.bytes \in Seq(Byte)
      BY <1>8, <2>1 DEF IsBlock, IsRecord, IsLine, At, Size
    <3>2. Blocks(p, k) = B \cup {k}
      <4>1. 1 .. k = (1 .. Count) \cup {k}
        BY <1>6, <1>7
      <4> QED BY <1>8, <2>1, <4>1 DEF Blocks, B
    <3>3. Apart(p, B, k)
      <4>1. \A i \in B \cup {k} : i \in 1 .. Len(p) /\ IsBlock(p[i])
        BY <1>5, <1>6, <1>7, <1>8, <2>1 DEF Blocks, B
      <4>2. k \notin B
        BY <1>6, <1>7 DEF Blocks, B
      <4>3. \A i, j \in B \cup {k} :
              /\ Written(p[i]) \subseteq SectorAt(p[i])
              /\ i # j => Written(p[i]) \cap Written(p[j]) = {}
              /\ IF SectorNumber(At(p[i])) = SectorNumber(At(p[j]))
                 THEN SectorAt(p[i]) = SectorAt(p[j])
                 ELSE SectorAt(p[i]) \cap SectorAt(p[j]) = {}
        BY <1>1, <4>1, PayloadPlaced DEF p
      <4>4. \A i \in B \cup {k} : At(p[i]) \in Addr /\ Size(p[i]) \in Nat
        BY <1>1, <4>1, PayloadPlaced DEF p
      <4> QED BY <4>2, <4>3, <4>4 DEF Apart
    <3>4. /\ sst25' = Afterwards(sst25, sectors, At(p[k]), line.bytes)
          /\ sectors' = AddSector(sectors, At(p[k]))
      BY <1>8, <1>10, <2>1, <3>1 DEF Store, Afterwards
    <3>5. Len(line.bytes) <= Size(p[k])
      BY <1>8, <3>1
    <3> DEFINE bytes == line.bytes
    <3>6. bytes \in Seq(Byte) /\ Len(bytes) <= Size(p[k])
      BY <3>1, <3>5
    <3> HIDE DEF bytes
    <3>7. /\ Listed(AddSector(sectors, At(p[k])), p, B \cup {k})
          /\ Clean(Afterwards(sst25, sectors, At(p[k]), bytes), p, B \cup {k})
          /\ Holding(sst25, Afterwards(sst25, sectors, At(p[k]), bytes), p, B, At(p[k]), bytes)
      BY <1>1, <1>3, <3>3, <3>6, BlockStored
    <3> QED BY <1>8, <3>1, <3>2, <3>4, <3>7 DEF Holding, bytes
  <2>2. CASE ~ IsBlock(line)
    <3>1. Blocks(p, k) = B
      <4>1. 1 .. k = (1 .. Count) \cup {k}
        BY <1>6, <1>7
      <4> QED BY <1>8, <2>2, <4>1 DEF Blocks, B
    <3> QED BY <1>3, <1>10, <2>2, <3>1
  <2> QED BY <2>1, <2>2
<1>17. Progress'
  BY <1>9, <1>12, <1>13, <1>14, <1>16 DEF Progress
<1>18. ASSUME NEW j \in B, NEW i \in 1 .. Size(p[j])
       PROVE  sst25'.cells[At(p[j]) + i - 1] = sst25.cells[At(p[j]) + i - 1]
  <2>1. j \in 1 .. Len(p) /\ IsBlock(p[j])
    BY <1>5, <1>6, <1>7 DEF B, Blocks
  <2>2. At(p[j]) \in Addr /\ Size(p[j]) \in Nat
    BY <1>1, <2>1, PayloadPlaced DEF p
  <2>3. At(p[j]) + i - 1 \in Written(p[j])
    BY <2>2, InWritten
  <2> QED BY <1>16, <2>3
<1>19. Writing /\ RecordBytes' = RecordBytes
  BY <1>1, <1>9 DEF Writing, RecordBytes, p
<1>20. ASSUME FullRecord
       PROVE  Holds(RecordStart, SubSeq(RecordBytes, 1, 2 * RecordLength))'
  <2> DEFINE whole == SubSeq(RecordBytes, 1, 2 * RecordLength)
  <2>1. Len(whole) = 2 * RecordLength
    <3>0. 2 * RecordLength \in Nat /\ 2 * RecordLength >= 1
          /\ Len(RecordBytes) >= 2 * RecordLength /\ Len(RecordBytes) \in Nat
      BY <1>2, <1>20 DEF FullRecord
    <3> DEFINE N == 2 * RecordLength
    <3> HIDE DEF N
    <3>1. N \in Nat /\ N >= 1 /\ Len(RecordBytes) >= N /\ Len(RecordBytes) \in Nat
      BY <3>0 DEF N
    <3>2. \A i \in 1 .. N : RecordBytes[i] \in Byte
      BY <1>2, <3>1
    <3>3. Len(SubSeq(RecordBytes, 1, N)) = IF 1 <= N THEN N - 1 + 1 ELSE 0
      BY <3>1, <3>2, SubSeqProperties
    <3> QED BY <3>1, <3>3 DEF N
  <2>2. \A i \in 1 .. Len(whole) : sst25.cells[RecordStart + i - 1] = whole[i]
    BY <1>11, <1>19, <1>20 DEF ParStored, Holds
  <2>3. whole' = whole
    BY <1>19
  <2> HIDE DEF whole
  <2>4. \A i \in 1 .. Len(whole) :
          sst25'.cells[RecordStart + i - 1] = sst25.cells[RecordStart + i - 1]
    BY <1>15, <1>18, <2>1
  <2>5. \A i \in 1 .. Len(whole) : sst25'.cells[RecordStart + i - 1] = whole[i]
    BY <2>2, <2>4
  <2> QED BY <2>3, <2>5 DEF Holds, whole
<1>21. ASSUME NEW j \in 2 .. k, IsLine(p[j]), HasComment(p[j])
       PROVE  \A i \in 1 .. Len(p[j].bytes) : sst25'.cells[p[j].at + i - 1] = p[j].bytes[i]
  <2>1. IsBlock(p[j]) /\ At(p[j]) = p[j].at /\ Size(p[j]) = Len(p[j].bytes)
    BY <1>21 DEF IsBlock, IsLine, IsRecord, At, Size
  <2>2. CASE j = k
    BY <1>8, <1>16, <2>1, <2>2
  <2>3. CASE j # k
    <3>1. j \in 2 .. Count /\ j \in 1 .. Count
      BY <1>6, <1>7, <2>3
    <3>2. j \in B
      BY <2>1, <3>1 DEF B, Blocks
    <3>3. j \in 2 .. Len(payload) - Len(extended)
      BY <3>1 DEF Count
    <3>4. \A i \in 1 .. Len(p[j].bytes) : sst25.cells[p[j].at + i - 1] = p[j].bytes[i]
      BY <1>11, <1>19, <1>21, <3>3 DEF ParStored, Holds, p
    <3>5. \A i \in 1 .. Size(p[j]) :
            sst25'.cells[At(p[j]) + i - 1] = sst25.cells[At(p[j]) + i - 1]
      BY <1>18, <3>2
    <3>6. \A i \in 1 .. Len(p[j].bytes) :
            sst25'.cells[p[j].at + i - 1] = sst25.cells[p[j].at + i - 1]
      BY <2>1, <3>5
    <3> QED BY <3>4, <3>6
  <2> QED BY <2>2, <2>3
<1>22. ParStored'
  <2>1. FullRecord' => FullRecord
    BY <1>19 DEF FullRecord
  <2>2. Len(payload') - Len(extended') = k
    BY <1>12 DEF Count
  <2>3. \A j \in 2 .. Len(payload') - Len(extended') :
          IsLine(payload'[j]) /\ HasComment(payload'[j])
            => \A i \in 1 .. Len(payload'[j].bytes) :
                 sst25'.cells[payload'[j].at + i - 1] = payload'[j].bytes[i]
    <3> DEFINE Stored(q, n) ==
                 \A j \in 2 .. n :
                   IsLine(q[j]) /\ HasComment(q[j])
                     => \A i \in 1 .. Len(q[j].bytes) :
                          sst25'.cells[q[j].at + i - 1] = q[j].bytes[i]
    <3>1. Stored(p, k)
      BY <1>21
    <3> HIDE DEF Stored
    <3>2. Stored(payload', Len(payload') - Len(extended'))
      BY <1>9, <2>2, <3>1
    <3> QED BY <3>2 DEF Stored
  <2> QED BY <1>20, <2>1, <2>3 DEF ParStored, Holds
<1> QED BY <1>17, <1>22 DEF Laid

\* The other steps write nothing, or are not in a transaction.
LEMMA RestLays ==
  ASSUME IInv, Laid,
         \/ InitConnection \/ Request \/ Silence \/ Receive \/ Incomplete \/ Handle
         \/ ParRequest \/ ParHeader \/ ParBody \/ ParSilence
  PROVE  Laid'
<1>1. pc' # "lines" /\ ~ Writing'
  <2>1. CASE InitConnection
    BY <2>1 DEF InitConnection, Writing
  <2>2. CASE Request
    BY <2>2 DEF Request, Writing
  <2>3. CASE Silence
    BY <2>3 DEF Silence, Writing
  <2>4. CASE Receive
    BY <2>4 DEF Receive, Writing
  <2>5. CASE Incomplete
    BY <2>5 DEF Incomplete, Return, Writing
  <2>6. CASE Handle
    BY <2>6 DEF Handle, Verified, Refused, Return, Writing
  <2>7. CASE ParRequest
    BY <2>7 DEF ParRequest, Writing
  <2>8. CASE ParHeader \/ ParBody \/ ParSilence
    <3>1. pc \in PC_Par /\ payload' = payload /\ (pc' = pc \/ pc' = "idle" \/ pc' = "body")
      BY <2>8 DEF ParHeader, ParBody, ParSilence, ParUnchanged, parsed, ParReturn, Return, PC_Par
    <3>2. payload' = <<>>
      BY <3>1 DEF IInv, Flow
    <3> QED BY <3>1, <3>2 DEF PC_Par, Writing
  <2> QED BY <2>1, <2>2, <2>3, <2>4, <2>5, <2>6, <2>7, <2>8
<1> QED BY <1>1 DEF Laid, Progress, ParStored

\* The end of the transaction, and what the line of the receiver loses meanwhile.
LEMMA QuietLays ==
  ASSUME Laid, (UNCHANGED <<stored, extended, payload, result>> /\ pc' = pc) \/ Done
  PROVE  Laid'
<1>1. UNCHANGED <<sst25, sectors, extended, payload>>
  BY DEF Done, stored, parsed
<1>2. CASE UNCHANGED <<stored, extended, payload, result>> /\ pc' = pc
  <2>1. Writing' = Writing /\ pc' = pc
    BY <1>1, <1>2 DEF Writing
  <2>2. Count' = Count
    BY <1>1 DEF Count
  <2>3. Progress'
    BY <1>1, <2>1, <2>2 DEF Laid, Progress
  <2>4. ParStored'
    BY <1>1, <2>1 DEF Laid, ParStored, FullRecord, RecordBytes, Holds
  <2> QED BY <2>3, <2>4 DEF Laid
<1>3. CASE Done
  <2>1. pc = "lines" /\ pc' = "idle"
    BY <1>3 DEF Done, Return
  <2>2. Writing' => Writing
    BY <1>1, <2>1 DEF Writing
  <2> QED BY <1>1, <2>1, <2>2 DEF Laid, Progress, ParStored, FullRecord, RecordBytes, Holds
<1> QED BY <1>2, <1>3

LEMMA NextLaid ==
  ASSUME FilesWellFormed, FilesWellPlaced
  PROVE  IInv /\ Laid /\ [ExtendedStep \/ ParStep]_parVars => Laid'
<1> SUFFICES ASSUME IInv, Laid, [ExtendedStep \/ ParStep]_parVars PROVE Laid'
  OBVIOUS
<1>1. CASE ExtendedStep
  <2>1. CASE \/ InitConnection \/ Request \/ Silence \/ Receive \/ Incomplete \/ Handle
    BY <2>1, RestLays
  <2>2. CASE Lose
    BY <2>2, QuietLays DEF Lose, parsed
  <2>3. CASE Done
    BY <2>3, QuietLays
  <2>4. CASE WriteRecord
    BY <2>4, WriteRecordLays
  <2>5. CASE ParseLine
    BY <2>5, ParseLineLays
  <2> QED BY <1>1, <2>1, <2>2, <2>3, <2>4, <2>5 DEF ExtendedStep, Next
<1>2. CASE ParStep
  BY <1>2, RestLays DEF ParStep
<1>3. CASE UNCHANGED parVars
  BY <1>3, QuietLays DEF parVars, vars, stored, parsed
<1> QED BY <1>1, <1>2, <1>3

\* What http_parse_par_file writes stays in the flash to the end of the download:
\* no later line erases the record or an earlier line, so a download that returns
\* 1 has stored its file.  This needs that the sectors of the file's blocks have
\* different numbers exactly when they are different, which add_and_erase_sector
\* does not see to.
THEOREM StoredSurvives ==
  ASSUME FilesWellFormed, FilesWellPlaced
  PROVE  ParSpec => []ParStored
<1>1. ParInit => Laid
  BY DEF ParInit, Init, Laid, Progress, ParStored, Writing
<1>2. IInv /\ Laid /\ [ExtendedStep \/ ParStep]_parVars => Laid'
  BY NextLaid
<1>3. Laid => ParStored
  BY DEF Laid
<1> QED BY <1>1, <1>2, <1>3, Invariance, PTL DEF ParSpec
===============================================================================
