--------------------------- MODULE FirmwareDownload ---------------------------
(***************************************************************************)
(* gsm_download_file_http_get (gsm.c): a new firmware image is received    *)
(* over HTTP through the GSM module, buffered in a ring while the flash is *)
(* busy, programmed into the SST25, verified against the checksum that     *)
(* follows the '$', and handed to the bootloader by writing 0xA5 to flash  *)
(* address 0.                                                              *)
(*                                                                         *)
(* One pass of the download loop is two steps: the poll of the UART        *)
(* (pc = "poll") and the work on the flash (pc = "write").  Between any    *)
(* two steps the line, the flash and the power supply make theirs.         *)
(***************************************************************************)
EXTENDS SST25, Sequences, FiniteSets

CONSTANTS
  Data,          \* payload bytes and hex digits; a digit is its own value
  Dollar,        \* CHECKSUM_DELIMITER
  Dot,           \* END_OF_FILE
  Eol,           \* carriage return and line feed
  FlagA5,        \* 0xA5, the mark the bootloader looks for at address 0
  RingSize,      \* 1024: sizeof buffer
  Radix,         \* 16: a hex digit is shifted in by four bits
  CrcModulus,    \* 2^32: the width of downloaded_crc
  Crc(_),        \* check_crc_32_on_flash: CRC-32 of the bytes it reads back
  Org,           \* data_store.mem_addr, where the image goes
  IcpEnd,        \* ICPCODE_END
  Streams,       \* what a server may send after the header
  RxDepth,       \* bytes the UART holds while the loop is elsewhere
  MaxFaults,     \* bound on the faults of one download
  NoImage

ASSUME StreamAssumption ==
  /\ Data \subseteq Nat
  /\ Byte = Data \cup {Dot, Eol, FlagA5}
  /\ Dollar \notin Byte
  /\ Dot \notin Data
  /\ Eol \notin Data \cup {Dot}
  /\ FlagA5 \notin Data \cup {Dot, Eol}
  /\ Streams \subseteq Seq(Data \cup {Dollar, Dot, Eol})

ASSUME SizeAssumption ==
  /\ RingSize \in Nat /\ RingSize > 1
  /\ Radix \in Nat \ {0}
  /\ CrcModulus \in Nat \ {0}
  /\ RxDepth \in Nat \ {0}
  /\ MaxFaults \in Nat

\* The image lies in the sector of the bootloader's flag but after the flag,
\* as in the test of the download (mem_addr = 1).
ASSUME PlaceAssumption ==
  /\ Org \in Nat /\ 0 < Org /\ Org < SectorSize
  /\ IcpEnd \in Nat /\ Org <= IcpEnd /\ IcpEnd < MemSize

ASSUME NoImageAssumption ==
  NoImage \notin [image : Seq(Cell), crc : Nat]

Received == Data \cup {Dollar, Dot, Eol}
Stored == Received \ {Dollar}          \* what goes into the ring
semBufferMax == RingSize - 1
PC == {"idle", "request", "poll", "write", "verify", "flag", "dropped"}

VARIABLES
  pc,
  sst25,                 \* the flash chip
  buffer, i, j,          \* ring: characters not yet pushed to the flash
  semBuffer,             \* number of unused bytes in buffer
  semBurningInProgress,  \* the loop believes the flash is busy
  sectorEraseBegun,
  semReachedCrcInFile,
  end,                   \* END_OF_FILE was seen
  downloaded_crc,
  dataLength,            \* bytes pushed to the flash
  address,               \* next flash address
  result,                \* return value of the last download
  wire,                  \* bytes the peer has yet to deliver
  rx,                    \* bytes waiting in the UART
  faults,                \* faults of this download, counted from any number
  received,              \* history: every byte put into the ring
  accepted               \* history: image and checksum of the last success

ring == <<buffer, i, j, semBuffer>>
loop == <<semBurningInProgress, sectorEraseBegun, semReachedCrcInFile, end,
          downloaded_crc, dataLength, address>>
line == <<wire, rx, faults>>
history == <<received, accepted>>
vars == <<pc, sst25, ring, loop, result, line, history>>

Flag == sst25.cells[0]
MarkAddressInImage == Org
MarkAddress == 0
FirstSectorRoundedUp == Org + SectorSize - (Org % SectorSize)
FirstSector == Org - (Org % SectorSize)        \* address & ~sectorSize
Buffered == semBufferMax - semBuffer
MaskedNever(k) == k
Masked(k) == IF k = RingSize THEN 0 ELSE k     \* k & semBufferMax, k <= 1024
-------------------------------------------------------------------------------
(* The download.                                                           *)

FreshLocals ==
  /\ buffer' = [k \in 0 .. semBufferMax |-> Eol]
  /\ i' = 0 /\ j' = 0
  /\ semBuffer' = semBufferMax
  /\ semBurningInProgress' = FALSE
  /\ sectorEraseBegun' = FALSE
  /\ semReachedCrcInFile' = FALSE
  /\ end' = FALSE
  /\ downloaded_crc' = 0
  /\ dataLength' = 0
  /\ address' = Org

\* Deselect the chip, erase the sector the image starts in, open the first
\* page, send the request.
Begin ==
  /\ pc = "idle"
  /\ pc' = "request"
  /\ sst25' = PrepareWriteAtAddress(
                SectorErase(CSHigh(sst25), FirstSector), Org)
  /\ FreshLocals
  /\ result' = 0
  /\ wire' = <<>> /\ rx' = <<>> /\ faults' \in 0 .. MaxFaults
  /\ received' = <<>>
  /\ UNCHANGED accepted

Return(r) ==
  /\ pc' = "idle"
  /\ result' = r
  /\ wire' = <<>> /\ rx' = <<>>
  /\ UNCHANGED faults

\* No "HTTP/1.x 200", or no end of the header.
NoFile ==
  /\ pc = "request"
  /\ Return(0)
  /\ UNCHANGED <<sst25, ring, loop, history>>

Body(stream) ==
  /\ pc = "request"
  /\ pc' = "poll"
  /\ wire' = stream
  /\ UNCHANGED <<sst25, ring, loop, result, rx, faults, history>>

\* The timer starts again with every byte: fifty silent seconds, long after
\* the ring has drained.  The modem is restarted elsewhere (GsmPower).
Timeout ==
  /\ pc = "poll"
  /\ rx = <<>> /\ Buffered = 0 /\ ~ end
  /\ wire = <<>> \/ faults < MaxFaults
  /\ Return(0)
  /\ UNCHANGED <<sst25, ring, loop, history>>

\* A pass with nothing to do changes nothing and is left out.
NoCharacter ==
  /\ pc = "poll"
  /\ rx = <<>>
  /\ Buffered > 0 \/ end \/ semBurningInProgress
  /\ pc' = "write"
  /\ UNCHANGED <<sst25, ring, loop, result, line, history>>

RingHasRoomAlways == TRUE
RingHasRoom == semBuffer > 0
ShiftInUnshifted(crc, c) == (crc + c) % CrcModulus
ShiftIn(crc, c) == (crc * Radix + c) % CrcModulus

\* Every byte but the delimiters and line ends is shifted into the checksum,
\* every byte before the '$' goes into the ring.
Receive ==
  /\ pc = "poll"
  /\ rx # <<>>
  /\ RingHasRoom
  /\ LET c == Head(rx)
         reached == semReachedCrcInFile \/ c = Dollar
     IN /\ semReachedCrcInFile' = reached
        /\ downloaded_crc' = IF c \in Data
                             THEN ShiftIn(downloaded_crc, c)
                             ELSE downloaded_crc
        /\ end' = (end \/ c = Dot)
        /\ IF reached
           THEN UNCHANGED <<buffer, i, semBuffer, received>>
           ELSE /\ buffer' = [buffer EXCEPT ![i] = c]
                /\ i' = Masked(i + 1)
                /\ semBuffer' = semBuffer - 1
                /\ received' = Append(received, c)
  /\ rx' = Tail(rx)
  /\ pc' = "write"
  /\ UNCHANGED <<sst25, j, semBurningInProgress, sectorEraseBegun, dataLength,
                 address, result, wire, faults, accepted>>

\* A byte arrived and the ring is full.
RingFull ==
  /\ pc = "poll"
  /\ rx # <<>>
  /\ ~ RingHasRoom
  /\ pc' = "dropped"
  /\ UNCHANGED <<sst25, ring, loop, result, line, history>>

\* Let the rest of the file pass by and give up.
Dropped ==
  /\ pc = "dropped"
  /\ Return(0)
  /\ UNCHANGED <<sst25, ring, loop, history>>
-------------------------------------------------------------------------------
(* The work on the flash.                                                  *)

\* SST25IsWriteBusy is asked only while the loop believes a burn is going on.
StillBurningNeverPolled == semBurningInProgress
StillBurning == semBurningInProgress /\ sst25.busy

PageDueNever == FALSE
PageDue == IsPageStart(address)
EraseDueNever == FALSE
EraseDue == IsSectorStart(address) /\ ~ sectorEraseBegun

WaitForFlash ==
  /\ pc = "write"
  /\ StillBurning
  /\ pc' = "poll"
  /\ UNCHANGED <<sst25, ring, loop, result, line, history>>

NothingToWrite ==
  /\ pc = "write"
  /\ ~ StillBurning /\ Buffered = 0 /\ ~ end
  /\ semBurningInProgress' = FALSE
  /\ pc' = "poll"
  /\ UNCHANGED <<sst25, ring, sectorEraseBegun, semReachedCrcInFile, end,
                 downloaded_crc, dataLength, address, result, line, history>>

EraseSector ==
  /\ pc = "write"
  /\ ~ StillBurning /\ Buffered > 0
  /\ EraseDue
  /\ sst25' = SectorErase(sst25, address)
  /\ semBurningInProgress' = TRUE
  /\ sectorEraseBegun' = TRUE
  /\ pc' = "poll"
  /\ UNCHANGED <<ring, semReachedCrcInFile, end, downloaded_crc, dataLength,
                 address, result, line, history>>

\* Push one byte; at the end of a page start the burn; beyond the region
\* give up, with the page still open.
StoreByte ==
  /\ pc = "write"
  /\ ~ StillBurning /\ Buffered > 0
  /\ ~ EraseDue
  /\ sectorEraseBegun' = FALSE
  /\ LET open   == IF PageDue
                   THEN PrepareWriteAtAddress(sst25, address) ELSE sst25
         put    == SPIPut(open, buffer[j])
         beyond == address + 1 > IcpEnd
         full   == ~ beyond /\ IsPageStart(address + 1)
     IN /\ sst25' = IF full THEN CSHigh(put) ELSE put
        /\ semBurningInProgress' = full
        /\ IF beyond THEN Return(0)
                     ELSE pc' = "poll" /\ UNCHANGED <<result, line>>
  /\ j' = Masked(j + 1)
  /\ semBuffer' = semBuffer + 1
  /\ dataLength' = dataLength + 1
  /\ address' = address + 1
  /\ UNCHANGED <<buffer, i, semReachedCrcInFile, end, downloaded_crc, history>>

\* Burn the last page and let the result code of the modem pass by.
Finish ==
  /\ pc = "write"
  /\ ~ StillBurning /\ Buffered = 0 /\ end
  /\ sst25' = CSHigh(sst25)
  /\ semBurningInProgress' = FALSE
  /\ wire' = <<>> /\ rx' = <<>>
  /\ pc' = "verify"
  /\ UNCHANGED <<ring, sectorEraseBegun, semReachedCrcInFile, end,
                 downloaded_crc, dataLength, address, result, faults, history>>

ReadImage(n) == [k \in 1 .. n |-> sst25.cells[Org + k - 1]]

ImageMatchesUnchecked == dataLength >= 0
ImageMatches == Crc(ReadImage(dataLength)) = downloaded_crc

\* check_crc_32_on_flash once the chip is ready.
Verify ==
  /\ pc = "verify"
  /\ ~ sst25.busy
  /\ IF ImageMatches
     THEN pc' = "flag" /\ UNCHANGED <<result, line>>
     ELSE Return(0)
  /\ UNCHANGED <<sst25, ring, loop, history>>

\* Tell the bootloader.
WriteFlag ==
  /\ pc = "flag"
  /\ sst25' = CSHigh(SPIPut(PrepareWriteAtAddress(sst25, MarkAddress), FlagA5))
  /\ accepted' = [image |-> received, crc |-> downloaded_crc]
  /\ Return(1)
  /\ UNCHANGED <<ring, loop, received>>
-------------------------------------------------------------------------------
(* The line, the flash and the power supply.                               *)

Arrive ==
  /\ wire # <<>> /\ Len(rx) < RxDepth
  /\ rx' = Append(rx, Head(wire))
  /\ wire' = Tail(wire)
  /\ UNCHANGED <<pc, sst25, ring, loop, result, faults, history>>

\* The UART has no room: a byte is lost.
Overrun ==
  /\ wire # <<>> /\ Len(rx) = RxDepth
  /\ faults < MaxFaults
  /\ faults' = faults + 1
  /\ wire' = Tail(wire)
  /\ UNCHANGED <<pc, sst25, ring, loop, result, rx, history>>

FlashReady ==
  /\ sst25.busy
  /\ sst25' = Ready(sst25)
  /\ UNCHANGED <<pc, ring, loop, result, line, history>>

\* The node restarts; what the latch held is lost.
PowerLoss ==
  /\ pc # "idle"
  /\ faults < MaxFaults
  /\ sst25' = PowerUp(sst25.cells)
  /\ Return(0)
  /\ UNCHANGED <<ring, loop, history>>
-------------------------------------------------------------------------------
Init ==
  /\ pc = "idle"
  /\ \E old \in Data :
       sst25 = PowerUp([a \in Addr |-> IF a = 0 THEN Erased ELSE old])
  /\ buffer = [k \in 0 .. semBufferMax |-> Eol]
  /\ i = 0 /\ j = 0 /\ semBuffer = semBufferMax
  /\ semBurningInProgress = FALSE /\ sectorEraseBegun = FALSE
  /\ semReachedCrcInFile = FALSE /\ end = FALSE
  /\ downloaded_crc = 0 /\ dataLength = 0 /\ address = Org
  /\ result = 0
  /\ wire = <<>> /\ rx = <<>> /\ faults = 0
  /\ received = <<>>
  /\ accepted = [image |-> <<>>, crc |-> 0]

Poll == Timeout \/ NoCharacter \/ Receive \/ RingFull
Write == WaitForFlash \/ NothingToWrite \/ EraseSector \/ StoreByte \/ Finish
Open == Begin \/ NoFile \/ \E stream \in Streams : Body(stream)
Close == Dropped \/ Verify \/ WriteFlag
Environment == Arrive \/ Overrun \/ FlashReady \/ PowerLoss

Next == Open \/ Poll \/ Write \/ Close \/ Environment

\* The loop never blocks, bytes in flight arrive, the flash gets ready.
Fairness ==
  /\ WF_vars(NoFile \/ \E stream \in Streams : Body(stream))
  /\ WF_vars(Poll) /\ WF_vars(Write) /\ WF_vars(Close)
  /\ WF_vars(Arrive) /\ WF_vars(FlashReady)

Spec == Init /\ [][Next]_vars
FairSpec == Spec /\ Fairness
-------------------------------------------------------------------------------
(* Properties.                                                             *)

\* Every variable keeps its type: the indices stay in the ring, the free
\* count between empty and full, the address in the region.
TypeOK ==
  /\ pc \in PC
  /\ sst25 \in Chip
  /\ buffer \in [0 .. semBufferMax -> Stored]
  /\ i \in 0 .. semBufferMax /\ j \in 0 .. semBufferMax
  /\ semBuffer \in 0 .. semBufferMax
  /\ semBurningInProgress \in BOOLEAN /\ sectorEraseBegun \in BOOLEAN
  /\ semReachedCrcInFile \in BOOLEAN /\ end \in BOOLEAN
  /\ downloaded_crc \in Nat
  /\ dataLength \in Nat
  /\ address \in Org .. IcpEnd + 1 /\ (pc # "idle" => address <= IcpEnd)
  /\ result \in {0, 1}
  /\ wire \in Seq(Received) /\ rx \in Seq(Received)
  /\ faults \in 0 .. MaxFaults
  /\ received \in Seq(Stored)
  /\ accepted \in [image : Seq(Stored), crc : Nat]

\* The ring is a queue: read from j on, it holds exactly the bytes received
\* and not yet pushed to the flash, in order, whatever the wraps of i and j.
Slot(k) == IF j + k < RingSize THEN j + k ELSE j + k - RingSize

RingHoldsPending ==
  /\ Len(received) = dataLength + Buffered
  /\ i = Slot(Buffered)
  /\ \A k \in 0 .. Buffered - 1 :
       buffer[Slot(k)] = received[dataLength + k + 1]

\* Every byte pushed to the flash is in its erased-and-programmed cell or in
\* the latch over an erased cell: no page is left unopened, no sector unerased,
\* no byte written twice or out of place.
StoredAt(a, b) ==
  \/ sst25.latch[a] = Unlatched /\ sst25.cells[a] = b
  \/ sst25.latch[a] = b /\ sst25.cells[a] = Erased

ImageStored ==
  pc \in {"request", "poll", "write", "verify", "flag"} =>
    /\ address = Org + dataLength
    /\ \A k \in 1 .. dataLength : StoredAt(Org + k - 1, received[k])

\* Whenever the bootloader looks, also after a power loss in the middle of a
\* later download: with the flag set, the flash holds the whole image of the
\* last success and its checksum is the one that came with it.
FlagMeansVerifiedImage ==
  Flag = FlagA5 =>
    /\ Crc(accepted.image) = accepted.crc
    /\ \A k \in 1 .. Len(accepted.image) :
         sst25.cells[Org + k - 1] = accepted.image[k]

\* A download that reports success has left the mark for the bootloader, in
\* a cell that was erased for it long before.
SuccessIsMarked == pc = "idle" /\ result = 1 => Flag = FlagA5

\* The bootloader's view: images are installed and removed in one step each.
InstalledImage ==
  IF Flag = FlagA5
  THEN [image |-> [k \in 1 .. Len(accepted.image) |-> sst25.cells[Org + k - 1]],
        crc   |-> accepted.crc]
  ELSE NoImage

Bootloader == INSTANCE FirmwareSlot WITH slot <- InstalledImage

BootloaderSpec == Bootloader!Spec

\* A download always comes back, whatever the server sends or fails to send.
DownloadReturns == (pc # "idle") ~> (pc = "idle")
===============================================================================
