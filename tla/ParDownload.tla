----------------------------- MODULE ParDownload -----------------------------
(***************************************************************************)
(* The parameter file the way it came before the extended one              *)
(* (gsmDownloadFileHttpGet_Par, gsm.c): the digits of the body fill the    *)
(* string and then the mask of the connection state while they arrive.     *)
(* Nothing is verified and nothing is written, but the sector of the       *)
(* address is erased first.  Both kinds of download share the connection   *)
(* state and the flash.                                                    *)
(***************************************************************************)
EXTENDS ParFile

VARIABLES
  taken,              \* the bytes read from the body so far
  asked               \* history: the file the server was asked for

parVars == <<vars, taken, asked>>

PC_Par == {"header", "body"}

\* The sector is erased and the write prepared, but no byte ever follows.
ParRequest ==
  /\ pc = "idle"
  /\ downloads < MaxDownloads
  /\ sst25' = PrepareWriteAtAddress(
                SectorErase(CSHigh(sst25), SectorOf(RecordStart)), RecordStart)
  /\ \E file \in Files : wire' = file /\ asked' = file
  /\ pc' = "header" /\ taken' = <<>>
  /\ faults' = 0 /\ downloads' = downloads + 1
  /\ result' = 0
  /\ extended' = <<>> /\ payload' = <<>>
  /\ UNCHANGED <<buffered, sectors, par_file_string, par_file_mask, transactions>>

ParReturn(r) == Return(r) /\ taken' = <<>>

ParUnchanged == UNCHANGED <<buffered, sst25, sectors, parsed, downloads, asked>>

\* The scan for the status line; then the header up to its blank line.
ParHeader ==
  /\ pc = "header" /\ wire # <<>>
  /\ LET piece == Head(wire)
     IN IF piece.kind = "status" /\ ~piece.ok
        THEN ParReturn(0) /\ UNCHANGED faults
        ELSE /\ pc' = IF piece.kind = "status" THEN "body" ELSE "header"
             /\ wire' = Tail(wire)
             /\ UNCHANGED <<result, faults, taken>>
  /\ UNCHANGED <<par_file_string, par_file_mask>>
  /\ ParUnchanged

\* What of a piece the loop takes for digits, and whether it holds a '.': those
\* of a line and of a checksum are not told apart.
Digits(piece) ==
  IF piece.kind = "record" THEN {piece.bytes}
  ELSE IF piece.kind \in {"line", "crc"}
       THEN UNION {[1 .. n -> Byte] : n \in 0 .. 2 * RecordLength}
       ELSE {<<>>}

Dots(piece) ==
  IF piece.kind = "record" THEN {TRUE}
  ELSE IF piece.kind = "line" THEN BOOLEAN ELSE {FALSE}

\* The end is a '.', or the character behind a full mask.
ParBody ==
  /\ pc = "body" /\ wire # <<>>
  /\ \E digits \in Digits(Head(wire)), dot \in Dots(Head(wire)) :
       LET b == taken \o digits
       IN /\ par_file_string' = Overlay(par_file_string, StringBytes(b))
          /\ par_file_mask' = Overlay(par_file_mask, MaskBytes(b))
          /\ IF dot \/ Len(b) >= 2 * RecordLength
             THEN ParReturn(1) /\ UNCHANGED faults
             ELSE /\ taken' = b /\ wire' = Tail(wire)
                  /\ UNCHANGED <<pc, result, faults>>
  /\ ParUnchanged

\* Fifty seconds without a character.  In the body the modem is switched off
\* and initialised (module GsmSession) before the download returns.
ParSilence ==
  /\ pc \in PC_Par
  /\ Quiet
  /\ ParReturn(0)
  /\ UNCHANGED <<par_file_string, par_file_mask>>
  /\ ParUnchanged

ParStep == ParRequest \/ ParHeader \/ ParBody \/ ParSilence

\* The extended download, and what the two have in common.
ExtendedStep ==
  /\ Next
  /\ UNCHANGED taken
  /\ asked' = IF pc = "idle" THEN wire' ELSE asked

ParInit == Init /\ taken = <<>> /\ asked = <<>>
ParSpec == ParInit /\ [][ExtendedStep \/ ParStep]_parVars
-------------------------------------------------------------------------------
(* Properties.                                                             *)

\* Types; the bytes of the body never fill more than the string and the mask.
ParTypeOK ==
  /\ TypeOK
  /\ pc \in PC \cup PC_Par
  /\ taken \in Seq(Byte) /\ Len(taken) < 2 * RecordLength
  /\ asked \in Files \cup {<<>>}

\* Whatever earlier downloads of either kind left in the connection state, one
\* that returns 1 and lost nothing leaves in it the record of its own file.
RecordTaken ==
  pc = "idle" /\ result = 1 /\ faults = 0 =>
    LET b == asked[2].bytes
    IN Len(b) >= 2 * RecordLength =>
         /\ par_file_string = SubSeq(b, 1, RecordLength)
         /\ par_file_mask = SubSeq(b, RecordLength + 1, 2 * RecordLength)

\* The first download with a connection state, of a file that is there and of
\* which nothing was lost, is a success.
GoodFileTaken ==
  pc = "idle" /\ downloads = 1 /\ faults = 0 /\ asked[1].ok => result = 1
===============================================================================
