-------------------------------- MODULE SST25 --------------------------------
(***************************************************************************)
(* The SST25VF064C serial flash, as the driver calls it.  The library that *)
(* drives it is not part of the repository: these operators say what the   *)
(* callers in gsm.c rely on.                                               *)
(*                                                                         *)
(* Programming can only clear bits, so a cell takes the byte written to it *)
(* when it is erased, and holds neither the old nor the new byte           *)
(* otherwise.  Bytes shifted in after a page-program command wait in the   *)
(* latch of the chip and are burnt when chip select goes high; the chip    *)
(* counts the address up inside the page and wraps at its end.  An erase   *)
(* or a burn leaves the chip busy for a while; SectorErase and             *)
(* PrepareWriteAtAddress wait for it (gsm.c issues them back to back       *)
(* without polling), CSHigh and SPIPut do not.                             *)
(***************************************************************************)
EXTENDS Integers

CONSTANTS
  MemSize,     \* number of cells of the modelled part of the chip
  SectorSize,  \* bytes erased together
  PageSize,    \* bytes programmed together
  Byte,        \* what the driver can write
  Erased,      \* content of an erased cell
  Mixed,       \* content of a cell programmed without an erase
  Unlatched       \* no byte is latched for a cell

ASSUME GeometryAssumption ==
  /\ MemSize \in Nat \ {0}
  /\ SectorSize \in Nat \ {0}
  /\ PageSize \in Nat \ {0}
  /\ MemSize % PageSize = 0

ASSUME CellAssumption ==
  /\ Erased # Mixed
  /\ Unlatched \notin Byte
  /\ Erased \notin Byte
  /\ Mixed \notin Byte

Addr == 0 .. MemSize - 1
Cell == Byte \cup {Erased, Mixed}

Chip == [cells : [Addr -> Cell], latch : [Addr -> Byte \cup {Unlatched}],
         ptr : Addr, selected : BOOLEAN, busy : BOOLEAN]

\* The masks "address & sectorSize" and "address & pageSize" of the callers.
IsSectorStart(a) == a % SectorSize = 0
IsPageStart(a) == a % PageSize = 0

ASSUME SectorsHoldWholePages ==
  \A a \in Addr : IsSectorStart(a) => IsPageStart(a)

EmptyLatch == [a \in Addr |-> Unlatched]

\* A chip after power up that holds the given cells.
PowerUp(cells) ==
  [cells |-> cells, latch |-> EmptyLatch, ptr |-> 0,
   selected |-> FALSE, busy |-> FALSE]

\* The sector that starts at address s.
SectorFrom(s) ==
  {a \in Addr : a >= s /\ \A t \in s + 1 .. a : ~ IsSectorStart(t)}

Program(old, new) == IF old \in {Erased, new} THEN new ELSE Mixed

Burnt(ch) ==
  [a \in Addr |-> IF ch.latch[a] = Unlatched
                  THEN ch.cells[a]
                  ELSE Program(ch.cells[a], ch.latch[a])]

CSHigh(ch) ==
  [cells |-> Burnt(ch), latch |-> EmptyLatch, ptr |-> ch.ptr,
   selected |-> FALSE, busy |-> ch.busy \/ ch.latch # EmptyLatch]

SectorErase(ch, s) ==
  [cells |-> [a \in Addr |-> IF a \in SectorFrom(s) THEN Erased
                                                    ELSE ch.cells[a]],
   latch |-> EmptyLatch, ptr |-> ch.ptr, selected |-> FALSE, busy |-> TRUE]

PrepareWriteAtAddress(ch, a) ==
  [cells |-> ch.cells, latch |-> EmptyLatch, ptr |-> a,
   selected |-> TRUE, busy |-> FALSE]

NextInPage(a) == IF IsPageStart(a + 1) THEN a + 1 - PageSize ELSE a + 1

SPIPut(ch, b) ==
  IF ch.selected
  THEN [ch EXCEPT !.latch[ch.ptr] = b, !.ptr = NextInPage(ch.ptr)]
  ELSE ch

\* The busy bit falls when the erase or the burn is over.
Ready(ch) == [ch EXCEPT !.busy = FALSE]
==============================================================================
