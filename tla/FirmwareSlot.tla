----------------------------- MODULE FirmwareSlot -----------------------------
(***************************************************************************)
(* What the bootloader may rely on.  The slot in the external flash is     *)
(* either free or holds one complete image together with the checksum it   *)
(* was announced with, and the two agree.  An image appears in one step,   *)
(* disappears in one step, and is never changed in place: to replace it    *)
(* the slot is emptied first.                                              *)
(***************************************************************************)
CONSTANTS
  NoImage,      \* the slot is free
  Crc(_)        \* checksum of an image

VARIABLE slot

Init == slot = NoImage

Install ==
  /\ slot = NoImage
  /\ slot' # NoImage
  /\ Crc(slot'.image) = slot'.crc

Remove ==
  /\ slot # NoImage
  /\ slot' = NoImage

Next == Install \/ Remove

Spec == Init /\ [][Next]_slot
===============================================================================
