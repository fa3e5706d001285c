------------------------------- MODULE ParFile -------------------------------
(***************************************************************************)
(* The extended parameter file (gsm_download_extended_par, gsm.c): the     *)
(* response is collected in inputbuf, its checksum is verified, and then   *)
(* the record and one line after the other are written to the SST25.       *)
(*                                                                         *)
(* A response is a sequence of pieces: the status line with the header     *)
(* fields, the record (string and mask, up to the '.'), the lines of the   *)
(* extended part, the '$', the checksum and the '^'.  The checksum of a    *)
(* payload is the payload itself (two payloads never collide) and whether  *)
(* the highest of its 32 bits is set.                                      *)
(***************************************************************************)
EXTENDS SST25, Sequences, SequencesExt

CONSTANTS
  Files,              \* the responses the server may send
  RecordStart,        \* RECORDVARIABLES_START
  RecordLength,       \* RECORD_LENGTH
  MaxFaults,          \* pieces lost or late, and DMA failures, in one download
  MaxDownloads        \* downloads with one connection state

ASSUME RecordAssumption ==
  /\ RecordLength \in Nat \ {0}
  /\ RecordStart \in Addr /\ RecordStart + 2 * RecordLength <= MemSize
  /\ SectorSize > 1
  /\ MaxFaults \in Nat /\ MaxDownloads \in Nat

Kinds == {"status", "record", "line", "dollar", "crc", "caret"}
Pieces == UNION {Range(file) : file \in Files}

\* What the pieces carry.
ASSUME FilesAssumption ==
  /\ \A file \in Files : file \in Seq(Pieces)
  /\ \A piece \in Pieces :
       /\ piece.kind \in Kinds
       /\ piece.kind = "status" => piece.ok \in BOOLEAN
       /\ piece.kind = "record" => piece.bytes \in Seq(Byte)
       /\ piece.kind = "line" =>
            /\ piece.at \in Addr /\ piece.bytes \in Seq(Byte)
            /\ piece.comment \in {"none", "plain", "colon"}

PC == {"idle", "wait", "receive", "handle", "record", "lines"}

VARIABLES
  pc,
  sst25,
  inputbuf,           \* conn_state->inputbuf, the pieces ever received
  nul,                \* pieces in front of the first NUL in inputbuf; 0: none
  sectors,            \* conn_state->sectors
  extended,           \* pieces behind the record that are not parsed yet
  payload,            \* the verified payload
  result,             \* return value of the last download
  wire,               \* pieces the server has yet to deliver
  faults,
  downloads,          \* downloads since the connection state was initialised
  par_file_string, par_file_mask,   \* conn_state->data_store
  transactions        \* history: downloads that reached the flash since then

buffered == <<inputbuf, nul>>
stored == <<sst25, sectors, par_file_string, par_file_mask>>
parsed == <<extended, payload, transactions>>
vars == <<pc, buffered, stored, parsed, result, wire, faults, downloads>>

\* sectorSize is the mask of the address bits inside a sector.
sectorSize == SectorSize - 1
SectorOf(a) == a - (a % SectorSize)

\* What the string functions see of inputbuf.
Visible == IF nul = 0 THEN inputbuf ELSE SubSeq(inputbuf, 1, nul)
-------------------------------------------------------------------------------
(* Writing to the flash.                                                   *)

SectorNumber(a) == a \div sectorSize

EraseNeededAlways(list, a) == TRUE
EraseNeeded(list, a) == ~ Contains(list, SectorNumber(a))

\* add_and_erase_sector; the chip ignores the address bits inside a sector.
AddSector(list, a) ==
  IF EraseNeeded(list, a) THEN Append(list, SectorNumber(a)) ELSE list
EraseAt(chip, list, a) ==
  IF EraseNeeded(list, a) THEN SectorErase(chip, SectorOf(a)) ELSE chip

\* writeStringToSST25 programs the bytes from address a on, page by page.
WriteString(chip, a, bytes) ==
  [chip EXCEPT !.cells =
     [x \in Addr |-> IF x >= a /\ x < a + Len(bytes)
                     THEN Program(chip.cells[x], bytes[x - a + 1])
                     ELSE chip.cells[x]]]

Store(a, bytes) ==
  /\ sst25' = WriteString(EraseAt(sst25, sectors, a), a, bytes)
  /\ sectors' = AddSector(sectors, a)
-------------------------------------------------------------------------------
(* Receiving.                                                              *)

\* server_comm_init_connection, which the callers run first.
InitConnection ==
  /\ pc = "idle"
  /\ downloads > 0
  /\ inputbuf' = <<>> /\ nul' = 0 /\ sectors' = <<>>
  /\ downloads' = 0 /\ transactions' = 0
  /\ result' = 0
  /\ extended' = <<>> /\ payload' = <<>>
  /\ UNCHANGED <<pc, sst25, par_file_string, par_file_mask, wire, faults>>

\* gsm_send_http_request: what is still in the receiver is thrown away.
Request ==
  /\ pc = "idle"
  /\ downloads < MaxDownloads
  /\ \E file \in Files : wire' = file
  /\ pc' = "wait"
  /\ faults' = 0
  /\ downloads' = downloads + 1
  /\ result' = 0
  /\ UNCHANGED <<buffered, stored, parsed>>

Return(r) ==
  /\ pc' = "idle"
  /\ result' = r
  /\ wire' = <<>>

\* The server is silent from here on, by itself or because it is cut off.
Quiet ==
  /\ wire = <<>> \/ faults < MaxFaults
  /\ faults' = IF wire = <<>> THEN faults ELSE faults + 1

\* Ten seconds without a byte: gsm_get_http_response returns 1, so the caller
\* goes on with what inputbuf holds.
Silence ==
  /\ pc = "wait"
  /\ Quiet
  /\ wire' = <<>>
  /\ pc' = "handle"
  /\ UNCHANGED <<buffered, stored, parsed, result, downloads>>

\* Every piece goes behind what is there; inputbuf_size is never reset.
Receive ==
  /\ pc \in {"wait", "receive"}
  /\ wire # <<>>
  /\ inputbuf' = Append(inputbuf, Head(wire))
  /\ wire' = Tail(wire)
  /\ pc' = IF Head(wire).kind = "caret" THEN "handle" ELSE "receive"
  /\ UNCHANGED <<nul, stored, parsed, result, faults, downloads>>

\* Five seconds without the '^': no or invalid response.
Incomplete ==
  /\ pc = "receive"
  /\ Quiet
  /\ Return(0)
  /\ UNCHANGED <<buffered, stored, parsed, downloads>>

\* A piece is lost on the way.
Lose ==
  /\ wire # <<>> /\ faults < MaxFaults
  /\ faults' = faults + 1
  /\ wire' = Tail(wire)
  /\ UNCHANGED <<pc, buffered, stored, parsed, result, downloads>>
-------------------------------------------------------------------------------
(* Verifying.                                                              *)

HasColon(piece) ==
  piece.kind = "status" \/ (piece.kind = "line" /\ piece.comment = "colon")

\* http_handle_response looks for the last ':' of all: the payload is what
\* follows its line.
PayloadStart ==
  SelectLastInSeq(Visible, HasColon) + 1

IsDollar(piece) == piece.kind = "dollar"
DollarAt == SelectLastInSeq(Visible, IsDollar)

Answered ==
  /\ Visible # <<>>
  /\ Visible[1].kind = "status" /\ Visible[1].ok

HasChecksum ==
  /\ Answered
  /\ DollarAt >= PayloadStart
  /\ DollarAt < Len(Visible)
  /\ Visible[DollarAt + 1].kind = "crc"

Received == SubSeq(Visible, PayloadStart, DollarAt)
ChecksumMatchesAlways == HasChecksum /\ Visible[PayloadStart].kind = "record"

\* read_hex: strtol gives the largest long for digits that are above it.
LargestLong == <<>>
ReadHex(crc) == IF crc.top THEN LargestLong ELSE crc.of
ChecksumMatches == HasChecksum /\ ReadHex(Visible[DollarAt + 1]) = Received

\* http_parse_par_file cuts the checksum off once it has read it.
CutChecksumNever == nul
CutChecksum == IF HasChecksum THEN DollarAt ELSE nul

\* A transfer of the DMA may fail while the checksum is computed.
Verified ==
  /\ ChecksumMatches
  /\ pc' = "record"
  /\ payload' = Received
  /\ transactions' = transactions + 1
  /\ UNCHANGED <<result, wire, faults>>

Refused ==
  /\ \/ ~ ChecksumMatches /\ UNCHANGED faults
     \/ HasChecksum /\ faults < MaxFaults /\ faults' = faults + 1
  /\ Return(0)
  /\ UNCHANGED <<payload, transactions>>

Handle ==
  /\ pc = "handle"
  /\ nul' = CutChecksum
  /\ Verified \/ Refused
  /\ UNCHANGED <<inputbuf, stored, extended, downloads>>
-------------------------------------------------------------------------------
(* Parsing and writing.                                                    *)

\* http_parse_par_file_legacy: the record ends at the '.' or once the mask is
\* complete.  Its bytes fill the string, then the mask; "length" counts within
\* the one that is being filled, and that many bytes of each are written.
RecordBytes == Head(payload).bytes
StringBytes(b) == SubSeq(b, 1, Min({Len(b), RecordLength}))
MaskBytesOneEarly(b) == SubSeq(b, RecordLength, Min({Len(b), 2 * RecordLength - 1}))
MaskBytes(b) == SubSeq(b, RecordLength + 1, Min({Len(b), 2 * RecordLength}))
OverlayBehind(old, new) == old \o new
Overlay(old, new) == new \o SubSeq(old, Len(new) + 1, RecordLength)
LengthOf(b) == IF Len(b) < RecordLength THEN Len(b) ELSE Len(MaskBytes(b))

WriteRecord ==
  /\ pc = "record"
  /\ LET b == RecordBytes
     IN /\ par_file_string' = Overlay(par_file_string, StringBytes(b))
        /\ par_file_mask' = Overlay(par_file_mask, MaskBytes(b))
        /\ Store(RecordStart, SubSeq(par_file_string', 1, LengthOf(b))
                                \o SubSeq(par_file_mask', 1, LengthOf(b)))
  /\ extended' = Tail(payload)
  /\ pc' = "lines"
  /\ UNCHANGED <<buffered, payload, transactions, result, wire, faults, downloads>>

\* http_parse_par_file_extended puts a NUL behind the line; a line without a
\* comment is ignored, and so is the '$', which no line end follows.
IsLine(piece) == piece.kind = "line"
HasComment(line) == line.comment # "none"
IsRecord(piece) == piece.kind = "record"
CutLine == SelectLastInSeq(Visible, IsRecord)

ParseLine ==
  /\ pc = "lines"
  /\ extended # <<>>
  /\ LET line == Head(extended)
     IN /\ nul' = IF IsLine(line) THEN CutLine ELSE nul
        /\ IF IsLine(line) /\ HasComment(line)
           THEN Store(line.at, line.bytes)
           ELSE UNCHANGED <<sst25, sectors>>
  /\ extended' = Tail(extended)
  /\ UNCHANGED <<pc, inputbuf, par_file_string, par_file_mask, payload, transactions,
                 result, wire, faults, downloads>>

Done ==
  /\ pc = "lines"
  /\ extended = <<>>
  /\ Return(1)
  /\ UNCHANGED <<buffered, stored, parsed, faults, downloads>>
-------------------------------------------------------------------------------
Init ==
  /\ pc = "idle"
  /\ \E old \in Byte : sst25 = PowerUp([a \in Addr |-> old])
  /\ inputbuf = <<>> /\ nul = 0
  /\ sectors = <<>> /\ extended = <<>> /\ payload = <<>>
  /\ \E old \in Byte :
       /\ par_file_string = [k \in 1 .. RecordLength |-> old]
       /\ par_file_mask = [k \in 1 .. RecordLength |-> old]
  /\ result = 0
  /\ wire = <<>> /\ faults = 0
  /\ downloads = 0 /\ transactions = 0

Next ==
  \/ InitConnection \/ Request
  \/ Silence \/ Receive \/ Incomplete \/ Lose
  \/ Handle \/ WriteRecord \/ ParseLine \/ Done

Spec == Init /\ [][Next]_vars
-------------------------------------------------------------------------------
(* Properties.                                                             *)

\* Every variable keeps its type; what string functions see lies in inputbuf.
TypeOK ==
  /\ sst25 \in Chip
  /\ inputbuf \in Seq(Pieces) /\ nul \in 0 .. Len(inputbuf)
  /\ sectors \in Seq(Nat)
  /\ extended \in Seq(Pieces) /\ payload \in Seq(Pieces)
  /\ par_file_string \in [1 .. RecordLength -> Byte]
  /\ par_file_mask \in [1 .. RecordLength -> Byte]
  /\ result \in {0, 1}
  /\ wire \in Seq(Pieces)
  /\ faults \in 0 .. MaxFaults
  /\ downloads \in 0 .. MaxDownloads
  /\ transactions \in 0 .. MaxDownloads

Holds(a, bytes) == \A k \in 1 .. Len(bytes) : sst25.cells[a + k - 1] = bytes[k]

Writing == payload # <<>> /\ (pc = "lines" \/ (pc = "idle" /\ result = 1))
FullRecord == Len(RecordBytes) >= 2 * RecordLength

\* What a transaction has written stays in the flash until its end: the record
\* with the mask behind the string, and every line, whatever sectors the later
\* lines make it erase.  So a download that returns 1 has stored its file.
ParStored ==
  Writing =>
    /\ FullRecord => Holds(RecordStart, SubSeq(RecordBytes, 1, 2 * RecordLength))
    /\ \A k \in 2 .. Len(payload) - Len(extended) :
         IsLine(payload[k]) /\ HasComment(payload[k])
           => Holds(payload[k].at, payload[k].bytes)

\* A connection state carries one transaction: what a second response would be
\* appended to has been cut apart by the parser, so the list of erased sectors,
\* which is never emptied, is never used for a second file.
OneTransaction == transactions <= 1

\* What is parsed is a whole file as the server sent it, whatever pieces are
\* lost, late or left over from an earlier download.
WholeFile ==
  Writing => \E file \in Files : \E k \in 1 .. Len(file) - Len(payload) + 1 :
               payload = SubSeq(file, k, k + Len(payload) - 1)
-------------------------------------------------------------------------------
(* What the theorems suppose of a response (module ParFileProofs).         *)

\* A server sends the status line, the record behind it if there is such a file,
\* one '$' and one '^', and a checksum that covers what it sends from the record
\* on: all the sender of the file can do right.
WellFormed(file) ==
  /\ file # <<>> /\ file[1].kind = "status"
  /\ file[1].ok => Len(file) > 1 /\ file[2].kind = "record"
  /\ \A i \in 1 .. Len(file) :
       /\ file[i].kind = "record" => i = 2
       /\ file[i].kind = "caret" => i = Len(file)
       /\ file[i].kind = "crc" =>
            /\ file[2].kind = "record"
            /\ \E l \in 2 .. Len(file) : file[i].of = SubSeq(file, 2, l)
  /\ \A i, j \in 1 .. Len(file) : IsDollar(file[i]) /\ IsDollar(file[j]) => i = j

\* Where a piece is written to, and the sector that is erased for it.
IsBlock(piece) == IsRecord(piece) \/ (IsLine(piece) /\ HasComment(piece))
At(piece) == IF IsRecord(piece) THEN RecordStart ELSE piece.at
Size(piece) == IF IsRecord(piece) THEN 2 * RecordLength ELSE Len(piece.bytes)
Written(piece) == At(piece) .. At(piece) + Size(piece) - 1
SectorAt(piece) == SectorFrom(SectorOf(At(piece)))

\* Every block lies in the sector erased for it, no two overlap, and the numbers
\* of the sectors are told apart exactly when the sectors are: sectorSize is one
\* less than the size, so this is not so for lines at the two ends of a sector.
WellPlaced(file) ==
  \A i, j \in 1 .. Len(file) : IsBlock(file[i]) /\ IsBlock(file[j]) =>
    /\ Written(file[i]) \subseteq SectorAt(file[i])
    /\ i # j => Written(file[i]) \cap Written(file[j]) = {}
    /\ IF SectorNumber(At(file[i])) = SectorNumber(At(file[j]))
       THEN SectorAt(file[i]) = SectorAt(file[j])
       ELSE SectorAt(file[i]) \cap SectorAt(file[j]) = {}

FilesWellFormed == \A file \in Files : WellFormed(file)
FilesWellPlaced == \A file \in Files : WellPlaced(file)
===============================================================================
