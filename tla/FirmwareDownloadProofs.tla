------------------------ MODULE FirmwareDownloadProofs ------------------------
(* Theorems about FirmwareDownload, for every ring, page and sector size,  *)
(* every checksum function and every byte a server may send.               *)
EXTENDS FirmwareDownload, SequenceTheorems, TLAPS

-----------------------------------------------------------------------------
(* What the operators of the flash chip do.                                *)

\* Counting an address up inside its page never leaves the chip.
LEMMA NextInPageTyped ==
  ASSUME NEW a \in Addr
  PROVE  NextInPage(a) \in Addr
<1> USE GeometryAssumption DEF Addr, NextInPage, IsPageStart
<1>1. CASE (a + 1) % PageSize = 0
  <2>1. a + 1 >= PageSize
    <3> SUFFICES ASSUME a + 1 < PageSize PROVE FALSE
      OBVIOUS
    <3>1. (a + 1) % PageSize = a + 1
      OBVIOUS
    <3> QED BY <3>1, <1>1
  <2> QED BY <2>1, <1>1
<1>2. CASE (a + 1) % PageSize # 0
  <2>1. a + 1 # MemSize
    BY <1>2
  <2> QED BY <2>1, <1>2
<1> QED BY <1>1, <1>2

LEMMA CSHighTyped ==
  ASSUME NEW ch \in Chip
  PROVE  CSHigh(ch) \in Chip
BY DEF Chip, CSHigh, Burnt, Program, Cell, EmptyLatch

LEMMA SectorEraseTyped ==
  ASSUME NEW ch \in Chip, NEW s
  PROVE  SectorErase(ch, s) \in Chip
BY DEF Chip, SectorErase, Cell, EmptyLatch

LEMMA PrepareWriteTyped ==
  ASSUME NEW ch \in Chip, NEW a \in Addr
  PROVE  PrepareWriteAtAddress(ch, a) \in Chip
BY DEF Chip, PrepareWriteAtAddress, EmptyLatch

LEMMA SPIPutTyped ==
  ASSUME NEW ch \in Chip, NEW b \in Byte
  PROVE  SPIPut(ch, b) \in Chip
BY NextInPageTyped DEF Chip, SPIPut

LEMMA PowerUpTyped ==
  ASSUME NEW cells \in [Addr -> Cell]
  PROVE  PowerUp(cells) \in Chip
BY GeometryAssumption DEF Chip, PowerUp, EmptyLatch, Addr

LEMMA ReadyTyped ==
  ASSUME NEW ch \in Chip
  PROVE  Ready(ch) \in Chip
BY DEF Chip, Ready

\* A burn puts the latched bytes into erased cells and leaves the others.
LEMMA CSHighBurns ==
  ASSUME NEW ch \in Chip
  PROVE  /\ CSHigh(ch).latch = EmptyLatch
         /\ \A a \in Addr :
              /\ ch.latch[a] = Unlatched => CSHigh(ch).cells[a] = ch.cells[a]
              /\ ch.latch[a] # Unlatched /\ ch.cells[a] = Erased
                 => CSHigh(ch).cells[a] = ch.latch[a]
BY DEF Chip, CSHigh, Burnt, Program

\* A byte put on an open page is latched at the pointer, nowhere else.
LEMMA SPIPutLatches ==
  ASSUME NEW ch \in Chip, NEW b \in Byte, ch.selected
  PROVE  /\ SPIPut(ch, b).cells = ch.cells
         /\ SPIPut(ch, b).latch[ch.ptr] = b
         /\ \A a \in Addr \ {ch.ptr} : SPIPut(ch, b).latch[a] = ch.latch[a]
         /\ SPIPut(ch, b).selected
         /\ ~ IsPageStart(ch.ptr + 1) => SPIPut(ch, b).ptr = ch.ptr + 1
<1> DEFINE l == [ch.latch EXCEPT ![ch.ptr] = b]
<1>1. SPIPut(ch, b) = [[ch EXCEPT !.latch = l] EXCEPT !.ptr = NextInPage(ch.ptr)]
  BY DEF SPIPut
<1>2. l[ch.ptr] = b /\ \A a \in Addr \ {ch.ptr} : l[a] = ch.latch[a]
  BY DEF Chip
<1> HIDE DEF l
<1> QED BY <1>1, <1>2 DEF Chip, NextInPage

\* An erase empties the sector and touches no other cell.
LEMMA SectorEraseErases ==
  ASSUME NEW ch \in Chip, NEW s
  PROVE  /\ SectorErase(ch, s).latch = EmptyLatch
         /\ \A a \in SectorFrom(s) : SectorErase(ch, s).cells[a] = Erased
         /\ \A a \in Addr \ SectorFrom(s) : SectorErase(ch, s).cells[a] = ch.cells[a]
BY DEF Chip, SectorErase, SectorFrom

LEMMA ReadyFields ==
  ASSUME NEW ch \in Chip
  PROVE  /\ Ready(ch).cells = ch.cells /\ Ready(ch).latch = ch.latch
         /\ Ready(ch).selected = ch.selected /\ Ready(ch).ptr = ch.ptr
BY DEF Chip, Ready

-----------------------------------------------------------------------------
(* The program.                                                            *)

USE DEF PC, semBufferMax, MarkAddress

LEMMA OrgInChip == Org \in Addr /\ 0 \in Addr
BY PlaceAssumption, GeometryAssumption DEF Addr

LEMMA Alphabet ==
  /\ Data \subseteq Received /\ Eol \in Stored /\ Stored \subseteq Byte
  /\ \A c \in Received : c # Dollar => c \in Stored
  /\ Streams \subseteq Seq(Received)
  /\ FlagA5 \in Byte
BY StreamAssumption DEF Received, Stored

LEMMA NothingYet == <<>> \in Seq(Received) /\ <<>> \in Seq(Stored)
BY EmptySeq

\* Every ring index, counter and flash address stays in its range, in every
\* reachable state of gsm_download_file_http_get.
THEOREM TypeCorrect == Spec => []TypeOK
<1>1. Init => TypeOK
  <2> SUFFICES ASSUME Init PROVE TypeOK
    OBVIOUS
  <2>1. sst25 \in Chip
    <3> PICK old \in Data :
          sst25 = PowerUp([a \in Addr |-> IF a = 0 THEN Erased ELSE old])
      BY DEF Init
    <3>1. [a \in Addr |-> IF a = 0 THEN Erased ELSE old] \in [Addr -> Cell]
      BY StreamAssumption DEF Cell
    <3> QED BY <3>1, PowerUpTyped
  <2>2. /\ buffer \in [0 .. semBufferMax -> Stored]
        /\ i \in 0 .. semBufferMax /\ j \in 0 .. semBufferMax
        /\ semBuffer \in 0 .. semBufferMax
    BY Alphabet, SizeAssumption DEF Init
  <2>3. accepted \in [image : Seq(Stored), crc : Nat]
    BY NothingYet DEF Init
  <2>4. wire \in Seq(Received) /\ rx \in Seq(Received) /\ received \in Seq(Stored)
    BY NothingYet DEF Init
  <2>5. pc \in PC /\ result \in {0, 1} /\ downloaded_crc \in Nat /\ dataLength \in Nat
    BY DEF Init
  <2>6. /\ semBurningInProgress \in BOOLEAN /\ sectorEraseBegun \in BOOLEAN
        /\ semReachedCrcInFile \in BOOLEAN /\ end \in BOOLEAN
    BY DEF Init
  <2>7. address \in Org .. IcpEnd + 1 /\ pc = "idle" /\ faults \in 0 .. MaxFaults
    BY SizeAssumption, PlaceAssumption DEF Init
  <2> QED
    BY <2>1, <2>2, <2>3, <2>4, <2>5, <2>6, <2>7 DEF TypeOK
<1>2. TypeOK /\ [Next]_vars => TypeOK'
  <2> SUFFICES ASSUME TypeOK, [Next]_vars PROVE TypeOK'
    OBVIOUS
  <2> USE SizeAssumption, PlaceAssumption, Alphabet, OrgInChip, NothingYet
      DEF TypeOK
  <2> USE DEF Return, ring, loop, line, history
  <2>1. CASE Begin
    <3>1. CSHigh(sst25) \in Chip
      BY CSHighTyped
    <3>2. SectorErase(CSHigh(sst25), FirstSector) \in Chip
      BY <3>1, SectorEraseTyped
    <3>3. sst25' \in Chip
      BY <3>2, PrepareWriteTyped, <2>1 DEF Begin
    <3>4. /\ buffer' \in [0 .. semBufferMax -> Stored]
          /\ i' \in 0 .. semBufferMax /\ j' \in 0 .. semBufferMax
          /\ semBuffer' \in 0 .. semBufferMax
      BY <2>1 DEF Begin, FreshLocals
    <3>5. /\ pc' = "request" /\ result' = 0 /\ faults' \in 0 .. MaxFaults /\ accepted' = accepted
          /\ wire' = <<>> /\ rx' = <<>> /\ received' = <<>>
      BY <2>1 DEF Begin
    <3>6. /\ semBurningInProgress' = FALSE /\ sectorEraseBegun' = FALSE
          /\ semReachedCrcInFile' = FALSE /\ end' = FALSE
          /\ downloaded_crc' = 0 /\ dataLength' = 0 /\ address' = Org
      BY <2>1 DEF Begin, FreshLocals
    <3>7. wire' \in Seq(Received) /\ rx' \in Seq(Received) /\ received' \in Seq(Stored)
      BY <3>5
    <3>8. address' \in Org .. IcpEnd + 1 /\ (pc' # "idle" => address' <= IcpEnd)
      BY <3>6
    <3>9. pc' \in PC /\ result' \in {0, 1} /\ faults' \in 0 .. MaxFaults
      BY <3>5
    <3> QED BY <3>3, <3>4, <3>5, <3>6, <3>7, <3>8, <3>9
  <2>2. CASE NoFile
    BY <2>2 DEF NoFile
  <2>3. ASSUME NEW stream \in Streams, Body(stream) PROVE TypeOK'
    BY <2>3 DEF Body
  <2>4. CASE Timeout
    BY <2>4 DEF Timeout
  <2>5. CASE NoCharacter
    BY <2>5 DEF NoCharacter
  <2>6. CASE Receive
    <3>1. Head(rx) \in Received /\ Tail(rx) \in Seq(Received)
      BY <2>6, HeadTailProperties DEF Receive
    <3> DEFINE c == Head(rx)
               reached == semReachedCrcInFile \/ c = Dollar
    <3>2. downloaded_crc' \in Nat
      <4>1. c \in Data => ShiftIn(downloaded_crc, c) \in Nat
        <5>1. ASSUME NEW x \in Nat PROVE x % CrcModulus \in Nat
          OBVIOUS
        <5>2. c \in Data => downloaded_crc * Radix + c \in Nat
          <6>1. downloaded_crc * Radix \in Nat
            <7>1. \A x, y \in Nat : x * y \in Nat
              OBVIOUS
            <7> QED BY <7>1
          <6>2. c \in Data => c \in Nat
            BY StreamAssumption
          <6> HIDE DEF c
          <6>3. \A x, y \in Nat : x + y \in Nat
            OBVIOUS
          <6> QED BY <6>1, <6>2, <6>3
        <5> HIDE DEF c
        <5> QED BY <5>1, <5>2 DEF ShiftIn
      <4>2. downloaded_crc' = IF c \in Data THEN ShiftIn(downloaded_crc, c)
                                            ELSE downloaded_crc
        BY <2>6 DEF Receive
      <4> QED BY <4>1, <4>2
    <3>3. /\ buffer' \in [0 .. semBufferMax -> Stored]
          /\ i' \in 0 .. semBufferMax
          /\ semBuffer' \in 0 .. semBufferMax
          /\ received' \in Seq(Stored)
      <4>1. CASE reached
        BY <4>1, <2>6 DEF Receive
      <4>2. CASE ~ reached
        <5>1. c \in Stored
          BY <4>2, <3>1
        <5>2. /\ buffer' = [buffer EXCEPT ![i] = c]
              /\ i' = Masked(i + 1)
              /\ semBuffer' = semBuffer - 1
              /\ received' = Append(received, c)
              /\ semBuffer > 0
          BY <4>2, <2>6 DEF Receive, RingHasRoom
        <5>3. received' \in Seq(Stored)
          BY <5>1, <5>2, AppendProperties
        <5> QED BY <5>1, <5>2, <5>3 DEF Masked
      <4> QED BY <4>1, <4>2
    <3>4. /\ semReachedCrcInFile' \in BOOLEAN /\ end' \in BOOLEAN
          /\ pc' = "write" /\ rx' = Tail(rx)
      BY <2>6 DEF Receive
    <3>5. /\ sst25' = sst25 /\ j' = j /\ dataLength' = dataLength
          /\ semBurningInProgress' = semBurningInProgress
          /\ sectorEraseBegun' = sectorEraseBegun /\ address' = address
          /\ result' = result /\ wire' = wire /\ faults' = faults
          /\ accepted' = accepted /\ address <= IcpEnd
      BY <2>6 DEF Receive
    <3> HIDE DEF c, reached
    <3> QED BY <3>1, <3>2, <3>3, <3>4, <3>5
  <2>7. CASE RingFull
    BY <2>7 DEF RingFull
  <2>8. CASE Dropped
    BY <2>8 DEF Dropped
  <2>9. CASE WaitForFlash
    BY <2>9 DEF WaitForFlash
  <2>10. CASE NothingToWrite
    BY <2>10 DEF NothingToWrite
  <2>11. CASE EraseSector
    BY <2>11, SectorEraseTyped DEF EraseSector
  <2>12. CASE StoreByte
    <3>1. /\ j' \in 0 .. semBufferMax
          /\ semBuffer' \in 0 .. semBufferMax
      BY <2>12 DEF StoreByte, Buffered, Masked
    <3>2. sst25' \in Chip
      <4> DEFINE open == IF PageDue THEN PrepareWriteAtAddress(sst25, address)
                                    ELSE sst25
                 put == SPIPut(open, buffer[j])
      <4>1. address \in Addr
        BY <2>12, GeometryAssumption DEF StoreByte, Addr
      <4>2. open \in Chip
        BY <4>1, PrepareWriteTyped
      <4>3. put \in Chip
        BY <4>2, SPIPutTyped
      <4>4. CSHigh(put) \in Chip
        BY <4>3, CSHighTyped
      <4> HIDE DEF put
      <4>5. sst25' = put \/ sst25' = CSHigh(put)
        BY <2>12 DEF StoreByte, put
      <4> QED BY <4>3, <4>4, <4>5
    <3>3. semBurningInProgress' \in BOOLEAN /\ sectorEraseBegun' \in BOOLEAN
      BY <2>12 DEF StoreByte
    <3>4. /\ result' \in {0, 1} /\ faults' \in 0 .. MaxFaults
          /\ wire' \in Seq(Received) /\ rx' \in Seq(Received)
      BY <2>12 DEF StoreByte
    <3>5. /\ address' = address + 1 /\ dataLength' = dataLength + 1
          /\ pc' \in PC /\ (pc' # "idle" => address' <= IcpEnd)
      BY <2>12 DEF StoreByte
    <3>6. /\ buffer' = buffer /\ i' = i /\ accepted' = accepted
          /\ received' = received /\ downloaded_crc' = downloaded_crc
          /\ semReachedCrcInFile' = semReachedCrcInFile /\ end' = end
          /\ address <= IcpEnd
      BY <2>12 DEF StoreByte
    <3> QED BY <3>1, <3>2, <3>3, <3>4, <3>5, <3>6
  <2>13. CASE Finish
    BY <2>13, CSHighTyped DEF Finish
  <2>14. CASE Verify
    BY <2>14 DEF Verify
  <2>15. CASE WriteFlag
    <3>1. PrepareWriteAtAddress(sst25, MarkAddress) \in Chip
      BY PrepareWriteTyped
    <3>2. SPIPut(PrepareWriteAtAddress(sst25, MarkAddress), FlagA5) \in Chip
      BY <3>1, SPIPutTyped
    <3>3. sst25' \in Chip
      BY <3>2, CSHighTyped, <2>15 DEF WriteFlag
    <3> QED BY <3>3, <2>15 DEF WriteFlag
  <2>16. CASE Arrive
    BY <2>16, HeadTailProperties DEF Arrive
  <2>17. CASE Overrun
    BY <2>17, HeadTailProperties DEF Overrun
  <2>18. CASE FlashReady
    BY <2>18, ReadyTyped DEF FlashReady
  <2>19. CASE PowerLoss
    BY <2>19, PowerUpTyped DEF PowerLoss, Chip
  <2>20. CASE UNCHANGED vars
    BY <2>20 DEF vars
  <2> QED
    BY <2>1, <2>2, <2>3, <2>4, <2>5, <2>6, <2>7, <2>8, <2>9, <2>10, <2>11,
       <2>12, <2>13, <2>14, <2>15, <2>16, <2>17, <2>18, <2>19, <2>20
    DEF Next, Open, Poll, Write, Close, Environment
<1> QED BY <1>1, <1>2, PTL DEF Spec
-------------------------------------------------------------------------------
(* The ring.                                                               *)

\* The bytes between j and i are the ones received and not yet written, in
\* order: the theorem behind RingHoldsPending.
THEOREM RingCorrect == Spec => []RingHoldsPending
<1>1. Init => RingHoldsPending
  BY EmptySeq, SizeAssumption DEF Init, RingHoldsPending, Buffered, Slot
<1>2. TypeOK /\ TypeOK' /\ RingHoldsPending /\ [Next]_vars => RingHoldsPending'
  <2> SUFFICES ASSUME TypeOK, TypeOK', RingHoldsPending, [Next]_vars
               PROVE  RingHoldsPending'
    OBVIOUS
  <2> USE SizeAssumption DEF ring
  <2>1. ASSUME ring' = ring, dataLength' = dataLength, received' = received
        PROVE  RingHoldsPending'
    BY <2>1 DEF RingHoldsPending, Buffered, Slot
  <2>2. CASE Begin
    BY <2>2, EmptySeq DEF Begin, FreshLocals, RingHoldsPending, Buffered, Slot
  <2>3. CASE Receive
    <3> DEFINE c == Head(rx)
               reached == semReachedCrcInFile \/ c = Dollar
    <3>1. CASE reached
      BY <2>1, <2>3, <3>1 DEF Receive
    <3>2. CASE ~ reached
      <4>1. /\ buffer' = [buffer EXCEPT ![i] = c]
            /\ i' = Masked(i + 1)
            /\ semBuffer' = semBuffer - 1 /\ semBuffer > 0
            /\ received' = Append(received, c)
            /\ j' = j /\ dataLength' = dataLength
        BY <3>2, <2>3 DEF Receive, RingHasRoom
      <4> HIDE DEF c
      <4>2. /\ Len(received') = Len(received) + 1
            /\ \A k \in 1 .. Len(received) : received'[k] = received[k]
            /\ received'[Len(received) + 1] = c
        <5>1. c \in Stored
          BY <3>2, <2>3, HeadTailProperties, Alphabet DEF Receive, TypeOK, c
        <5> QED BY <5>1, <4>1, AppendProperties DEF TypeOK
      <4>3. Buffered' = Buffered + 1 /\ Buffered \in 0 .. semBufferMax - 1
        BY <4>1 DEF Buffered, TypeOK
      <4>4. i' = Slot(Buffered)'
        BY SMTT(30), <4>1, <4>3 DEF RingHoldsPending, Slot, Masked, TypeOK
      <4>5. ASSUME NEW k \in 0 .. Buffered
            PROVE  buffer'[Slot(k)] = received'[dataLength + k + 1]
        <5>1. CASE k = Buffered
          BY <5>1, <4>1, <4>2 DEF RingHoldsPending, Slot, TypeOK
        <5>2. CASE k # Buffered
          <6>1. Slot(k) # i /\ Slot(k) \in 0 .. semBufferMax
            <7>1. j \in 0 .. semBufferMax /\ i = Slot(Buffered)
              BY DEF RingHoldsPending, TypeOK
            <7> QED BY <7>1, <5>2, <4>3 DEF Slot
          <6>2. buffer'[Slot(k)] = buffer[Slot(k)]
            BY <6>1, <4>1 DEF TypeOK
          <6>3. k \in 0 .. Buffered - 1
            BY <5>2, <4>3
          <6>4. /\ dataLength + k + 1 \in 1 .. Len(received)
                /\ buffer[Slot(k)] = received[dataLength + k + 1]
            <7>1. /\ buffer[Slot(k)] = received[dataLength + k + 1]
                  /\ Len(received) = dataLength + Buffered /\ dataLength \in Nat
              BY <6>3 DEF RingHoldsPending, TypeOK
            <7> QED BY <7>1, <6>3, <4>3
          <6> QED BY <6>2, <6>4, <4>2
        <5> QED BY <5>1, <5>2
      <4>6. \A k : Slot(k)' = Slot(k)
        BY <4>1 DEF Slot
      <4>7. Len(received') = dataLength' + Buffered'
        <5>1. Len(received) = dataLength + Buffered /\ dataLength \in Nat
          BY DEF RingHoldsPending, TypeOK
        <5> QED BY <5>1, <4>1, <4>2, <4>3
      <4>8. ASSUME NEW k \in 0 .. Buffered' - 1
            PROVE  buffer'[Slot(k)'] = received'[dataLength' + k + 1]
        <5>1. k \in 0 .. Buffered
          BY <4>3
        <5>2. buffer'[Slot(k)] = received'[dataLength + k + 1]
          BY <5>1, <4>5
        <5> QED BY <5>2, <4>1, <4>6
      <4> QED BY <4>4, <4>7, <4>8 DEF RingHoldsPending
    <3> QED BY <3>1, <3>2
  <2>4. CASE StoreByte
    <3>1. /\ j' = Masked(j + 1) /\ semBuffer' = semBuffer + 1
          /\ dataLength' = dataLength + 1 /\ buffer' = buffer /\ i' = i
          /\ received' = received /\ Buffered > 0
      BY <2>4 DEF StoreByte, history
    <3>2. Buffered' = Buffered - 1 /\ Buffered \in 1 .. semBufferMax
      BY <3>1 DEF Buffered, TypeOK
    <3>3. ASSUME NEW k \in 0 .. Buffered - 1
          PROVE  Slot(k)' = Slot(k + 1)
      BY SMTT(30), <3>1, <3>2 DEF Slot, Masked, TypeOK
    <3>4. i' = Slot(Buffered)'
      BY SMTT(30), <3>1, <3>2 DEF RingHoldsPending, Slot, Masked, TypeOK
    <3>5. ASSUME NEW k \in 0 .. Buffered' - 1
          PROVE  buffer[Slot(k)'] = received[dataLength' + k + 1]
      <4>1. k + 1 \in 0 .. Buffered - 1 /\ k \in 0 .. Buffered - 1
        BY <3>2
      <4>2. buffer[Slot(k + 1)] = received[dataLength + (k + 1) + 1]
        BY <4>1 DEF RingHoldsPending
      <4>3. dataLength + (k + 1) + 1 = dataLength' + k + 1
        BY <3>1 DEF TypeOK
      <4> QED BY <4>1, <4>2, <4>3, <3>3
    <3>6. Len(received) = dataLength' + Buffered'
      <4>1. Len(received) = dataLength + Buffered /\ dataLength \in Nat
        BY DEF RingHoldsPending, TypeOK
      <4> QED BY <4>1, <3>1, <3>2
    <3> QED BY <3>1, <3>4, <3>5, <3>6 DEF RingHoldsPending
  <2>5. CASE UNCHANGED vars
    BY <2>1, <2>5 DEF vars, loop, history
  <2>6. CASE NoFile \/ (\E stream \in Streams : Body(stream)) \/ Timeout
             \/ NoCharacter \/ RingFull \/ Dropped
    BY <2>1, <2>6
    DEF NoFile, Body, Timeout, NoCharacter, RingFull, Dropped, loop, history
  <2>7. CASE WaitForFlash \/ NothingToWrite \/ EraseSector \/ Finish
    BY <2>1, <2>7
    DEF WaitForFlash, NothingToWrite, EraseSector, Finish, loop, history
  <2>8. CASE Verify \/ WriteFlag
    BY <2>1, <2>8 DEF Verify, WriteFlag, loop, history
  <2>9. CASE Environment
    BY <2>1, <2>9
    DEF Environment, Arrive, Overrun, FlashReady, PowerLoss, loop, history
  <2> QED
    BY <2>2, <2>3, <2>4, <2>5, <2>6, <2>7, <2>8, <2>9
    DEF Next, Open, Poll, Write, Close
<1> QED BY <1>1, <1>2, TypeCorrect, PTL DEF Spec
-------------------------------------------------------------------------------
(* The flash.                                                              *)

\* From the next address to the end of its sector everything is erased,
\* unless the erase is still due.
AheadErased ==
  ~ EraseDue =>
    \A a \in Addr :
      a >= address /\ (\A t \in address + 1 .. a : ~ IsSectorStart(t))
      => sst25.cells[a] = Erased

\* The latch holds bytes of the image only.
LatchBehind ==
  \A a \in Addr : (a < Org \/ a >= address) => sst25.latch[a] = Unlatched

\* Inside a page the chip is selected and points at the next address.
PageOpen ==
  IF PageDue THEN sst25.latch = EmptyLatch
             ELSE sst25.selected /\ sst25.ptr = address

\* Why the flag can be trusted: it is gone as soon as a download begins, the
\* image is complete and out of the latch when the checksum is computed, and
\* nothing is left in the latch once the flag is set.
FlagInv ==
  /\ pc # "idle" => Flag # FlagA5
  /\ pc \in {"request", "poll", "write", "verify", "flag"} => Flag = Erased
  /\ pc \in {"verify", "flag"} => sst25.latch = EmptyLatch /\ Buffered = 0
  /\ pc = "flag" => Crc(received) = downloaded_crc
  /\ Flag = FlagA5 => sst25.latch = EmptyLatch
  /\ FlagMeansVerifiedImage
  /\ SuccessIsMarked

LoopInv ==
  pc \in {"request", "poll", "write"} => AheadErased /\ LatchBehind /\ PageOpen

IInv == TypeOK /\ RingHoldsPending /\ ImageStored /\ LoopInv /\ FlagInv

SameChip ==
  /\ sst25'.cells = sst25.cells /\ sst25'.latch = sst25.latch
  /\ sst25'.ptr = sst25.ptr /\ sst25'.selected = sst25.selected

\* A step that leaves the chip and the write position alone.
LEMMA FramePosition ==
  ASSUME ImageStored, LoopInv, SameChip,
         address' = address, dataLength' = dataLength,
         sectorEraseBegun' = sectorEraseBegun,
         \A k \in 1 .. dataLength : received'[k] = received[k],
         pc' \in {"request", "poll", "write"} => pc \in {"request", "poll", "write"},
         pc' \in {"verify", "flag"} => pc \in {"verify", "flag"}
  PROVE  ImageStored' /\ LoopInv'
<1>1. ImageStored'
  BY DEF ImageStored, StoredAt, SameChip
<1>2. LoopInv'
  BY DEF LoopInv, AheadErased, LatchBehind, PageOpen, EraseDue, PageDue, SameChip
<1> QED BY <1>1, <1>2

\* A step that neither writes nor completes anything keeps the flag's meaning.
LEMMA FrameFlag ==
  ASSUME FlagInv,
         sst25'.cells = sst25.cells,
         sst25'.latch = sst25.latch \/ sst25'.latch = EmptyLatch,
         accepted' = accepted,
         pc' # "idle" => pc # "idle",
         pc' \in {"request", "poll", "write"} => pc \in {"request", "poll", "write"},
         pc' \notin {"verify", "flag"},
         pc' = "idle" => result' = 0
  PROVE  FlagInv'
BY DEF FlagInv, FlagMeansVerifiedImage, SuccessIsMarked, Flag

LEMMA SmallModulo ==
  ASSUME NEW s \in Nat \ {0}, NEW x \in 0 .. s - 1
  PROVE  x % s = x
OBVIOUS

\* Begin empties the sector of the flag and opens the page of the image.
LEMMA BeginStep ==
  ASSUME TypeOK, TypeOK', Begin
  PROVE  ImageStored' /\ LoopInv' /\ FlagInv'
<1> DEFINE ch1 == CSHigh(sst25)
           ch2 == SectorErase(ch1, FirstSector)
<1>0. sst25 \in Chip
  BY DEF TypeOK
<1>1. ch1 \in Chip
  BY <1>0, CSHighTyped
<1>2. FirstSector = 0
  <2>1. Org % SectorSize = Org
    BY PlaceAssumption, GeometryAssumption, SmallModulo
  <2> QED BY <2>1, PlaceAssumption DEF FirstSector
<1>3. ASSUME NEW t \in 1 .. Org PROVE ~ IsSectorStart(t)
  <2>1. t \in 0 .. SectorSize - 1 /\ t # 0
    BY PlaceAssumption, GeometryAssumption
  <2>2. t % SectorSize = t
    BY <2>1, GeometryAssumption, SmallModulo
  <2> QED BY <2>1, <2>2 DEF IsSectorStart
<1>4. /\ ch2.latch = EmptyLatch
      /\ \A a \in SectorFrom(0) : ch2.cells[a] = Erased
  <2> HIDE DEF ch1
  <2>1. \A s : /\ SectorErase(ch1, s).latch = EmptyLatch
               /\ \A a \in SectorFrom(s) : SectorErase(ch1, s).cells[a] = Erased
    BY <1>1,  SectorEraseErases
  <2> QED BY <2>1, <1>2
<1> HIDE DEF ch1, ch2
<1>5. /\ sst25' = PrepareWriteAtAddress(ch2, Org)
      /\ address' = Org /\ dataLength' = 0 /\ pc' = "request"
      /\ sectorEraseBegun' = FALSE
  BY DEF Begin, FreshLocals, ch1, ch2
<1>6. /\ sst25'.cells = ch2.cells /\ sst25'.latch = EmptyLatch
      /\ sst25'.selected /\ sst25'.ptr = Org
  BY <1>5 DEF PrepareWriteAtAddress
<1>7. Flag' = Erased /\ Flag' # FlagA5
  <2>1. 0 \in SectorFrom(0)
    BY OrgInChip DEF SectorFrom
  <2>2. Flag' = Erased
    BY <2>1, <1>4, <1>6 DEF Flag
  <2> QED BY <2>2, CellAssumption, Alphabet
<1>8. FlagInv'
  BY <1>5, <1>7 DEF FlagInv, FlagMeansVerifiedImage, SuccessIsMarked
<1>9. ImageStored'
  BY <1>5, PlaceAssumption DEF ImageStored
<1>10. AheadErased'
  <2> SUFFICES ASSUME NEW a \in Addr, a >= Org,
                      \A t \in Org + 1 .. a : ~ IsSectorStart(t)
               PROVE  sst25'.cells[a] = Erased
    BY <1>5 DEF AheadErased
  <2>1. \A t \in 1 .. a : t \in 1 .. Org \/ t \in Org + 1 .. a
    BY PlaceAssumption DEF Addr
  <2>2. a \in SectorFrom(0)
    BY <2>1, <1>3 DEF SectorFrom, Addr
  <2> QED BY <2>2, <1>4, <1>6
<1>11. LatchBehind' /\ PageOpen'
  BY <1>5, <1>6 DEF LatchBehind, PageOpen, PageDue, EmptyLatch
<1> QED BY <1>8, <1>9, <1>10, <1>11 DEF LoopInv

\* The erase at a sector boundary touches nothing that was stored.
LEMMA EraseSectorStep ==
  ASSUME TypeOK, TypeOK', ImageStored, LoopInv, FlagInv, EraseSector
  PROVE  ImageStored' /\ LoopInv' /\ FlagInv'
<1>0. sst25 \in Chip /\ dataLength \in Nat /\ address \in Nat
  BY PlaceAssumption DEF TypeOK
<1>1. /\ sst25' = SectorErase(sst25, address) /\ pc = "write" /\ pc' = "poll"
      /\ address' = address /\ dataLength' = dataLength /\ received' = received
      /\ IsSectorStart(address) /\ sectorEraseBegun' = TRUE
  BY DEF EraseSector, EraseDue, history
<1>2. /\ sst25'.latch = EmptyLatch
      /\ \A a \in SectorFrom(address) : sst25'.cells[a] = Erased
      /\ \A a \in Addr \ SectorFrom(address) : sst25'.cells[a] = sst25.cells[a]
  BY <1>0, <1>1, SectorEraseErases
<1>3. address \in Addr
  BY <1>1, PlaceAssumption, GeometryAssumption DEF Addr, TypeOK
<1>4. sst25.latch = EmptyLatch
  BY <1>1, <1>3, SectorsHoldWholePages DEF LoopInv, PageOpen, PageDue
<1>5. \A a \in Addr : a < address => sst25'.cells[a] = sst25.cells[a]
  BY <1>0, <1>2 DEF SectorFrom, Addr
<1>6. Flag' = Flag
  BY <1>5, <1>1, OrgInChip, PlaceAssumption DEF Flag, TypeOK
<1>7. FlagInv'
  BY <1>1, <1>6 DEF FlagInv, FlagMeansVerifiedImage, SuccessIsMarked
<1>8. ImageStored'
  <2>1. address = Org + dataLength
    BY <1>1 DEF ImageStored
  <2>2. ASSUME NEW k \in 1 .. dataLength
        PROVE  StoredAt(Org + k - 1, received[k])'
    <3>1. Org + k - 1 \in Addr /\ Org + k - 1 < address
      BY <1>0, <1>3, <2>1, PlaceAssumption, GeometryAssumption DEF Addr
    <3>2. StoredAt(Org + k - 1, received[k])
      BY <1>1 DEF ImageStored
    <3> QED BY <3>1, <3>2, <1>1, <1>2, <1>4, <1>5 DEF StoredAt
  <2> QED BY <1>1, <2>1, <2>2 DEF ImageStored
<1>9. AheadErased'
  BY <1>1, <1>2 DEF AheadErased, SectorFrom
<1>10. LatchBehind' /\ PageOpen'
  BY <1>1, <1>2, <1>3, SectorsHoldWholePages
  DEF LatchBehind, PageOpen, PageDue, EmptyLatch
<1> QED BY <1>7, <1>8, <1>9, <1>10 DEF LoopInv

\* A byte goes from the head of the ring to the next cell, which is erased.
LEMMA StoreByteStep ==
  ASSUME TypeOK, TypeOK', RingHoldsPending,
         ImageStored, LoopInv, FlagInv, StoreByte
  PROVE  ImageStored' /\ LoopInv' /\ FlagInv'
<1> DEFINE b    == buffer[j]
           open == IF PageDue THEN PrepareWriteAtAddress(sst25, address)
                              ELSE sst25
           put  == SPIPut(open, b)
<1>1. /\ sst25 \in Chip /\ dataLength \in Nat /\ address \in Nat
      /\ j \in 0 .. semBufferMax /\ b \in Byte
  BY SMTT(30), PlaceAssumption, SizeAssumption, Alphabet DEF TypeOK
<1>2. /\ pc = "write" /\ Buffered > 0 /\ ~ EraseDue /\ pc' \in {"poll", "idle"}
      /\ sectorEraseBegun' = FALSE
      /\ dataLength' = dataLength + 1 /\ address' = address + 1
      /\ received' = received /\ accepted' = accepted
      /\ pc' = "idle" => result' = 0
  BY DEF StoreByte, Return, history
<1>3. \/ sst25' = put /\ (pc' = "idle" \/ ~ IsPageStart(address + 1))
      \/ sst25' = CSHigh(put) /\ IsPageStart(address + 1)
  BY DEF StoreByte, Return
<1>4. address \in Addr /\ address >= Org /\ address = Org + dataLength
  BY <1>2, PlaceAssumption, GeometryAssumption DEF Addr, TypeOK, ImageStored
<1>5. b = received[dataLength + 1]
  <2>1. Slot(0) = j
    BY <1>1, SizeAssumption DEF Slot
  <2>2. 0 \in 0 .. Buffered - 1
    BY <1>2, SizeAssumption DEF Buffered, TypeOK
  <2>3. buffer[Slot(0)] = received[dataLength + 0 + 1]
    BY <2>2 DEF RingHoldsPending
  <2> QED BY <1>1, <2>1, <2>3
<1> HIDE DEF b
<1>6. /\ open \in Chip /\ open.selected /\ open.ptr = address
      /\ open.cells = sst25.cells /\ open.latch = sst25.latch
  <2>1. CASE PageDue
    BY <1>1, <1>2, <1>4, <2>1, PrepareWriteTyped
    DEF LoopInv, PageOpen, PrepareWriteAtAddress
  <2>2. CASE ~ PageDue
    BY <1>1, <1>2, <2>2 DEF LoopInv, PageOpen
  <2> QED BY <2>1, <2>2
<1> HIDE DEF open
<1>7. /\ put \in Chip /\ put.cells = sst25.cells /\ put.latch[address] = b
      /\ \A a \in Addr \ {address} : put.latch[a] = sst25.latch[a]
      /\ put.selected
      /\ ~ IsPageStart(address + 1) => put.ptr = address + 1
  BY <1>1, <1>6, SPIPutTyped, SPIPutLatches
<1> HIDE DEF put
<1>8. sst25.cells[address] = Erased
  <2>1. \A t \in address + 1 .. address : ~ IsSectorStart(t)
    BY <1>1
  <2> QED BY <1>1, <1>2, <1>4, <2>1 DEF LoopInv, AheadErased
<1>9. b # Unlatched
  BY <1>1, CellAssumption
<1>10. /\ CSHigh(put).latch = EmptyLatch
       /\ \A a \in Addr : put.latch[a] = Unlatched
                          => CSHigh(put).cells[a] = sst25.cells[a]
       /\ \A a \in Addr : put.latch[a] # Unlatched /\ sst25.cells[a] = Erased
                          => CSHigh(put).cells[a] = put.latch[a]
  BY <1>7, CSHighBurns
<1>11. \A a \in Addr : a < Org \/ a > address =>
         put.latch[a] = Unlatched /\ sst25'.cells[a] = sst25.cells[a]
                                  /\ sst25'.latch[a] = Unlatched
  <2> SUFFICES ASSUME NEW a \in Addr, a < Org \/ a > address
               PROVE  /\ put.latch[a] = Unlatched
                      /\ sst25'.cells[a] = sst25.cells[a]
                      /\ sst25'.latch[a] = Unlatched
    OBVIOUS
  <2>1. a # address /\ (a < Org \/ a >= address)
    BY <1>1, <1>4, PlaceAssumption DEF Addr
  <2>2. put.latch[a] = Unlatched
    BY <1>2, <1>7, <2>1 DEF LoopInv, LatchBehind
  <2>3. CASE sst25' = put
    BY <1>7, <2>2, <2>3
  <2>4. CASE sst25' = CSHigh(put)
    BY <1>10, <2>2, <2>4 DEF EmptyLatch
  <2> QED BY <1>3, <2>2, <2>3, <2>4
<1>12. FlagInv'
  <2>1. Flag' = Flag
    BY <1>11, OrgInChip, PlaceAssumption DEF Flag
  <2> QED BY <1>2, <2>1 DEF FlagInv, FlagMeansVerifiedImage, SuccessIsMarked
<1>13. \A a \in Addr, c \in Byte :
         /\ put.latch[a] = Unlatched /\ put.cells[a] = c => StoredAt(a, c)'
         /\ put.latch[a] = c /\ put.cells[a] = Erased => StoredAt(a, c)'
  BY <1>3, <1>7, <1>10, CellAssumption DEF StoredAt, EmptyLatch
<1>14. ImageStored'
  <2>1. ASSUME NEW k \in 1 .. dataLength + 1
        PROVE  StoredAt(Org + k - 1, received[k])'
    <3>1. CASE k = dataLength + 1
      <4>1. Org + k - 1 = address
        BY <1>1, <1>4, <3>1, PlaceAssumption
      <4> QED BY <1>1, <1>4, <1>5, <1>7, <1>8, <1>13, <3>1, <4>1, <1>2
              DEF StoredAt
    <3>2. CASE k \in 1 .. dataLength
      <4>1. Org + k - 1 \in Addr /\ Org + k - 1 < address
        BY <1>1, <1>4, <3>2, PlaceAssumption, GeometryAssumption DEF Addr
      <4>2. StoredAt(Org + k - 1, received[k])
        BY <1>2, <3>2 DEF ImageStored
      <4>3. received[k] \in Byte
        <5>1. k \in 1 .. Len(received)
          <6>1. Len(received) = dataLength + Buffered /\ Buffered \in Nat
            BY <1>2, SizeAssumption DEF RingHoldsPending, Buffered, TypeOK
          <6> QED BY <1>1, <3>2, <6>1
        <5>2. received \in Seq(Stored) /\ Stored \subseteq Byte
          BY Alphabet DEF TypeOK
        <5> QED BY <5>1, <5>2, ElementOfSeq
      <4>4. /\ Org + k - 1 # address
            /\ put.latch[Org + k - 1] = sst25.latch[Org + k - 1]
            /\ put.cells[Org + k - 1] = sst25.cells[Org + k - 1]
        BY <1>1, <1>7, <4>1
      <4>5. \/ /\ put.latch[Org + k - 1] = Unlatched
               /\ put.cells[Org + k - 1] = received[k]
            \/ /\ put.latch[Org + k - 1] = received[k]
               /\ put.cells[Org + k - 1] = Erased
        BY <4>2, <4>4 DEF StoredAt
      <4>6. StoredAt(Org + k - 1, received[k])'
        BY <1>2, <1>13, <4>1, <4>3, <4>5 DEF StoredAt
      <4> QED BY <4>6
    <3> QED BY <1>1, <2>1, <3>1, <3>2
  <2> QED BY <1>1, <1>2, <1>4, <2>1, PlaceAssumption DEF ImageStored
<1>15. LoopInv'
  <2> SUFFICES ASSUME pc' = "poll"
               PROVE  AheadErased' /\ LatchBehind' /\ PageOpen'
    BY <1>2 DEF LoopInv
  <2>1. AheadErased'
    <3> SUFFICES ASSUME ~ IsSectorStart(address + 1),
                        NEW a \in Addr, a >= address + 1,
                        \A t \in (address + 1) + 1 .. a : ~ IsSectorStart(t)
                 PROVE  sst25'.cells[a] = Erased
      BY <1>2 DEF AheadErased, EraseDue
    <3>1. \A t \in address + 1 .. a : ~ IsSectorStart(t)
      <4>1. \A t \in address + 1 .. a : t = address + 1 \/ t \in (address + 1) + 1 .. a
        BY <1>1 DEF Addr
      <4> QED BY <4>1
    <3>2. sst25.cells[a] = Erased
      BY <1>1, <1>2, <3>1 DEF LoopInv, AheadErased, Addr
    <3>3. a > address
      BY <1>1 DEF Addr
    <3> QED BY <1>11, <3>2, <3>3
  <2>2. LatchBehind'
    BY <1>1, <1>2, <1>11 DEF LatchBehind, Addr
  <2>3. PageOpen'
    BY <1>2, <1>3, <1>7, <1>10 DEF PageOpen, PageDue, CSHigh
  <2> QED BY <2>1, <2>2, <2>3
<1> QED BY <1>12, <1>14, <1>15

\* Raising chip select moves the last bytes from the latch to their cells.
LEMMA FinishStep ==
  ASSUME TypeOK, TypeOK', RingHoldsPending,
         ImageStored, LoopInv, FlagInv, Finish
  PROVE  ImageStored' /\ LoopInv' /\ FlagInv'
<1>1. /\ sst25 \in Chip /\ dataLength \in Nat
  BY DEF TypeOK
<1>2. /\ pc = "write" /\ pc' = "verify" /\ sst25' = CSHigh(sst25)
      /\ Buffered = 0 /\ semBuffer' = semBuffer
      /\ address' = address /\ dataLength' = dataLength
      /\ received' = received /\ accepted' = accepted
  BY DEF Finish, ring, history
<1>3. /\ sst25'.latch = EmptyLatch
      /\ \A a \in Addr :
           /\ sst25.latch[a] = Unlatched => sst25'.cells[a] = sst25.cells[a]
           /\ sst25.latch[a] # Unlatched /\ sst25.cells[a] = Erased
              => sst25'.cells[a] = sst25.latch[a]
  BY <1>1, <1>2, CSHighBurns
<1>4. Flag' = Flag
  BY <1>2, <1>3, OrgInChip, PlaceAssumption DEF Flag, LoopInv, LatchBehind
<1>5. Buffered' = 0
  BY <1>2 DEF Buffered
<1>6. FlagInv'
  BY <1>2, <1>3, <1>4, <1>5 DEF FlagInv, FlagMeansVerifiedImage, SuccessIsMarked
<1>7. ASSUME NEW k \in 1 .. dataLength
      PROVE  StoredAt(Org + k - 1, received[k])'
  <2>1. StoredAt(Org + k - 1, received[k])
    BY <1>2 DEF ImageStored
  <2>2. Org + k - 1 \in Addr
    <3>1. address = Org + dataLength /\ address \in Org .. IcpEnd + 1
      BY <1>2 DEF ImageStored, TypeOK
    <3> QED BY <1>1, <3>1, PlaceAssumption, GeometryAssumption DEF Addr
  <2>3. received[k] # Unlatched
    <3>1. Len(received) = dataLength + Buffered
      BY DEF RingHoldsPending
    <3>2. received \in Seq(Stored)
      BY DEF TypeOK
    <3>3. k \in 1 .. Len(received)
      BY <1>1, <1>2, <3>1
    <3>4. received[k] \in Stored
      BY <3>2, <3>3, ElementOfSeq
    <3> QED BY <3>4, Alphabet, CellAssumption
  <2> QED BY <1>2, <1>3, <2>1, <2>2, <2>3 DEF StoredAt, EmptyLatch
<1>8. ImageStored'
  BY <1>2, <1>7 DEF ImageStored
<1>9. LoopInv'
  BY <1>2 DEF LoopInv
<1> QED BY <1>6, <1>8, <1>9

\* Once the latch is empty the flash reads back what was received.
LEMMA ReadsBack ==
  ASSUME TypeOK, RingHoldsPending, ImageStored, FlagInv,
         pc \in {"verify", "flag"}
  PROVE  /\ Len(received) = dataLength
         /\ ReadImage(dataLength) = received
         /\ \A k \in 1 .. Len(received) : sst25.cells[Org + k - 1] = received[k]
<1>1. Len(received) = dataLength /\ dataLength \in Nat /\ Org \in Nat
  BY PlaceAssumption DEF RingHoldsPending, FlagInv, TypeOK
<1>2. ASSUME NEW k \in 1 .. dataLength
      PROVE  sst25.cells[Org + k - 1] = received[k]
  <2>1. StoredAt(Org + k - 1, received[k]) /\ sst25.latch = EmptyLatch
    BY DEF ImageStored, FlagInv
  <2>2. Org + k - 1 \in Addr
    <3>1. address = Org + dataLength /\ address \in Org .. IcpEnd + 1
      BY DEF ImageStored, TypeOK
    <3> QED BY <1>1, <3>1, PlaceAssumption, GeometryAssumption DEF Addr
  <2>3. received[k] # Unlatched
    <3>1. received \in Seq(Stored)
      BY DEF TypeOK
    <3>2. received[k] \in Stored
      BY <1>1, <3>1, ElementOfSeq
    <3> QED BY <3>2, Alphabet, CellAssumption
  <2> QED BY <2>1, <2>2, <2>3 DEF StoredAt, EmptyLatch
<1>3. received = [k \in 1 .. dataLength |-> received[k]]
  <2>1. received \in [1 .. Len(received) -> Stored]
    BY LenProperties DEF TypeOK
  <2> QED BY <1>1, <2>1
<1>4. ReadImage(dataLength) = [k \in 1 .. dataLength |-> received[k]]
  BY <1>2 DEF ReadImage
<1> QED BY <1>1, <1>2, <1>3, <1>4

\* The flag is written last, over an image that was verified.
LEMMA WriteFlagStep ==
  ASSUME TypeOK, TypeOK', RingHoldsPending,
         ImageStored, LoopInv, FlagInv, WriteFlag
  PROVE  ImageStored' /\ LoopInv' /\ FlagInv'
<1> DEFINE open == PrepareWriteAtAddress(sst25, MarkAddress)
           put  == SPIPut(open, FlagA5)
<1>1. /\ sst25 \in Chip /\ pc = "flag" /\ pc' = "idle"
      /\ sst25' = CSHigh(put)
      /\ accepted' = [image |-> received, crc |-> downloaded_crc]
  BY DEF WriteFlag, Return, TypeOK
<1>2. /\ open \in Chip /\ open.selected /\ open.ptr = 0
      /\ open.cells = sst25.cells /\ open.latch = EmptyLatch
  BY <1>1, OrgInChip, PrepareWriteTyped DEF PrepareWriteAtAddress
<1> HIDE DEF open
<1>3. /\ put \in Chip /\ put.cells = sst25.cells
      /\ put.latch[0] = FlagA5
      /\ \A a \in Addr \ {0} : put.latch[a] = Unlatched
  BY <1>2, Alphabet, SPIPutTyped, SPIPutLatches DEF EmptyLatch
<1> HIDE DEF put
<1>4. /\ sst25'.latch = EmptyLatch
      /\ \A a \in Addr \ {0} : sst25'.cells[a] = sst25.cells[a]
      /\ Flag' = FlagA5
  <2>1. sst25.cells[0] = Erased /\ FlagA5 # Unlatched
    BY <1>1, Alphabet, CellAssumption DEF FlagInv, Flag
  <2> QED BY <1>1, <1>3, <2>1, OrgInChip, CSHighBurns DEF Flag
<1>5. /\ Len(received) = dataLength
      /\ \A k \in 1 .. Len(received) : sst25.cells[Org + k - 1] = received[k]
  BY <1>1, ReadsBack
<1>6. ASSUME NEW k \in 1 .. Len(received)
      PROVE  sst25'.cells[Org + k - 1] = received[k]
  <2>1. Org + k - 1 \in Addr \ {0}
    <3>1. /\ address = Org + dataLength /\ address \in Org .. IcpEnd + 1
          /\ dataLength \in Nat
      BY <1>1 DEF ImageStored, TypeOK
    <3> QED BY <1>5, <3>1, PlaceAssumption, GeometryAssumption DEF Addr
  <2> QED BY <1>4, <1>5, <2>1
<1>7. FlagMeansVerifiedImage'
  BY <1>1, <1>6 DEF FlagInv, FlagMeansVerifiedImage
<1> QED BY <1>1, <1>4, <1>7 DEF FlagInv, SuccessIsMarked, LoopInv, ImageStored

\* The strengthening holds in every reachable state.
THEOREM Invariance == Spec => [](ImageStored /\ LoopInv /\ FlagInv)
<1>1. Init => ImageStored /\ LoopInv /\ FlagInv
  <2> SUFFICES ASSUME Init PROVE ImageStored /\ LoopInv /\ FlagInv
    OBVIOUS
  <2>1. PICK old \in Data :
          sst25 = PowerUp([a \in Addr |-> IF a = 0 THEN Erased ELSE old])
    BY DEF Init
  <2>2. Flag = Erased
    BY <2>1, OrgInChip DEF PowerUp, Flag
  <2>3. Flag # FlagA5
    BY <2>2, Alphabet, CellAssumption
  <2> QED
    BY <2>3 DEF Init, ImageStored, LoopInv, FlagInv, FlagMeansVerifiedImage,
                SuccessIsMarked
<1>2. /\ TypeOK /\ TypeOK' /\ RingHoldsPending /\ RingHoldsPending'
      /\ ImageStored /\ LoopInv /\ FlagInv /\ [Next]_vars
      => ImageStored' /\ LoopInv' /\ FlagInv'
  <2> SUFFICES ASSUME TypeOK, TypeOK', RingHoldsPending, RingHoldsPending',
                      ImageStored, LoopInv, FlagInv, [Next]_vars
               PROVE  ImageStored' /\ LoopInv' /\ FlagInv'
    OBVIOUS
  <2>1. CASE Begin
    BY <2>1, BeginStep
  <2>2. CASE EraseSector
    BY <2>2, EraseSectorStep
  <2>3. CASE StoreByte
    BY <2>3, StoreByteStep
  <2>4. CASE Finish
    BY <2>4, FinishStep
  <2>5. CASE WriteFlag
    BY <2>5, WriteFlagStep
  <2>6. CASE Verify
    <3>1. /\ pc = "verify" /\ pc' \in {"flag", "idle"} /\ sst25' = sst25
          /\ pc' = "flag" => ImageMatches
          /\ pc' = "idle" => result' = 0
          /\ UNCHANGED <<ring, loop, history>>
      BY <2>6 DEF Verify, Return
    <3>2. ReadImage(dataLength) = received
      BY <3>1, ReadsBack
    <3>3. pc' = "flag" => Crc(received') = downloaded_crc'
      BY <3>1, <3>2 DEF ImageMatches, loop, history
    <3>4. FlagInv'
      BY <3>1, <3>3 DEF FlagInv, FlagMeansVerifiedImage, SuccessIsMarked, Flag,
                        Buffered, ring, history
    <3>5. ImageStored' /\ LoopInv'
      BY <3>1, FramePosition DEF SameChip, loop, history
    <3> QED BY <3>4, <3>5
  <2>7. CASE Receive
    <3>1. /\ pc = "poll" /\ pc' = "write" /\ sst25' = sst25
          /\ address' = address /\ dataLength' = dataLength
          /\ sectorEraseBegun' = sectorEraseBegun /\ accepted' = accepted
          /\ received' = received \/ received' = Append(received, Head(rx))
          /\ received' = received \/ Head(rx) # Dollar
          /\ rx # <<>>
      BY <2>7 DEF Receive
    <3>2. \A k \in 1 .. dataLength : received'[k] = received[k]
      <4>1. CASE received' = received
        BY <4>1
      <4>2. CASE received' = Append(received, Head(rx)) /\ Head(rx) # Dollar
        <5>1. Head(rx) \in Stored /\ received \in Seq(Stored)
          BY <3>1, <4>2, HeadTailProperties, Alphabet DEF TypeOK
        <5>2. \A k \in 1 .. Len(received) : received'[k] = received[k]
          BY <4>2, <5>1, AppendProperties
        <5>3. dataLength <= Len(received) /\ Len(received) \in Nat /\ dataLength \in Nat
          BY SizeAssumption DEF RingHoldsPending, Buffered, TypeOK
        <5> QED BY <5>2, <5>3
      <4> QED BY <3>1, <4>1, <4>2
    <3> QED BY <3>1, <3>2, FramePosition, FrameFlag DEF SameChip
  <2>8. CASE FlashReady
    <3>1. SameChip
      BY <2>8, ReadyFields DEF FlashReady, SameChip, TypeOK
    <3>2. UNCHANGED <<pc, ring, loop, result, history>>
      BY <2>8 DEF FlashReady
    <3>3. ImageStored' /\ LoopInv'
      BY <3>1, <3>2, FramePosition DEF loop, history
    <3>4. FlagInv'
      BY <3>1, <3>2 DEF FlagInv, FlagMeansVerifiedImage, SuccessIsMarked, Flag, SameChip, Buffered,
                        ring, loop, history
    <3> QED BY <3>3, <3>4
  <2>9. CASE PowerLoss
    <3>1. /\ sst25'.cells = sst25.cells /\ sst25'.latch = EmptyLatch
          /\ pc' = "idle" /\ pc # "idle" /\ accepted' = accepted /\ result' = 0
      BY <2>9 DEF PowerLoss, PowerUp, Return, history
    <3> QED BY <3>1, FrameFlag DEF ImageStored, LoopInv
  <2>10. ASSUME UNCHANGED <<pc, sst25, ring, loop, result, history>>
         PROVE  ImageStored' /\ LoopInv' /\ FlagInv'
    <3>1. ImageStored' /\ LoopInv'
      BY <2>10, FramePosition DEF SameChip, loop, history
    <3>2. FlagInv'
      BY <2>10 DEF FlagInv, FlagMeansVerifiedImage, SuccessIsMarked, Flag, Buffered, ring, loop, history
    <3> QED BY <3>1, <3>2
  <2>11. CASE UNCHANGED vars \/ Arrive \/ Overrun
    BY <2>10, <2>11 DEF vars, Arrive, Overrun
  <2>12. CASE NoFile \/ Timeout \/ RingFull \/ Dropped
    <3>1. /\ sst25' = sst25 /\ accepted' = accepted /\ pc # "idle"
          /\ pc' \in {"idle", "dropped"} /\ (pc' = "idle" => result' = 0)
      BY <2>12 DEF NoFile, Timeout, RingFull, Dropped, Return, history
    <3> QED BY <3>1, FrameFlag DEF ImageStored, LoopInv
  <2>13. CASE (\E stream \in Streams : Body(stream)) \/ NoCharacter
              \/ WaitForFlash \/ NothingToWrite
    <3>1. /\ sst25' = sst25 /\ accepted' = accepted /\ received' = received
          /\ address' = address /\ dataLength' = dataLength
          /\ sectorEraseBegun' = sectorEraseBegun
          /\ pc \in {"request", "poll", "write"} /\ pc' \in {"poll", "write"}
      BY <2>13 DEF Body, NoCharacter, WaitForFlash, NothingToWrite, loop, history
    <3> QED BY <3>1, FramePosition, FrameFlag DEF SameChip
  <2> QED
    BY <2>1, <2>2, <2>3, <2>4, <2>5, <2>6, <2>7, <2>8, <2>9, <2>11, <2>12, <2>13
    DEF Next, Open, Poll, Write, Close, Environment
<1> QED BY <1>1, <1>2, TypeCorrect, RingCorrect, PTL DEF Spec

\* Nothing the loop pushed is lost, doubled, misplaced or mixed with what the
\* flash held before.
THEOREM ImageCorrect == Spec => []ImageStored
BY Invariance, PTL

\* Power may fail anywhere, the line may lose bytes, a download may follow
\* another: if the bootloader finds its mark, the image is whole and verified.
THEOREM FlagCorrect == Spec => []FlagMeansVerifiedImage
<1>1. FlagInv => FlagMeansVerifiedImage
  BY DEF FlagInv
<1> QED BY <1>1, Invariance, PTL

\* Whoever is told of a success finds the mark: the cell was erased when the
\* download began and nothing else was ever programmed into it.
THEOREM SuccessCorrect == Spec => []SuccessIsMarked
<1>1. FlagInv => SuccessIsMarked
  BY DEF FlagInv
<1> QED BY <1>1, Invariance, PTL

\* The download implements the slot of the bootloader: an image appears and
\* disappears in one step and never changes in between.
THEOREM Refinement == Spec => BootloaderSpec
<1> DEFINE Inv == /\ TypeOK /\ RingHoldsPending
                  /\ ImageStored /\ LoopInv /\ FlagInv
<1>1. Init => Bootloader!Init
  <2> SUFFICES ASSUME Init PROVE Bootloader!Init
    OBVIOUS
  <2>1. PICK old \in Data :
          sst25 = PowerUp([a \in Addr |-> IF a = 0 THEN Erased ELSE old])
    BY DEF Init
  <2>2. Flag = Erased
    BY <2>1, OrgInChip DEF PowerUp, Flag
  <2>3. Flag # FlagA5
    BY <2>2, Alphabet, CellAssumption
  <2> QED BY <2>3 DEF Bootloader!Init, InstalledImage
<1>2. Inv /\ Inv' /\ [Next]_vars => [Bootloader!Next]_InstalledImage
  <2> SUFFICES ASSUME Inv, Inv', [Next]_vars
               PROVE  Bootloader!Next \/ UNCHANGED InstalledImage
    OBVIOUS
  <2>1. CASE Flag # FlagA5 /\ Flag' # FlagA5
    BY <2>1 DEF InstalledImage
  <2>2. CASE Flag # FlagA5 /\ Flag' = FlagA5
    <3>1. /\ InstalledImage = NoImage
          /\ InstalledImage' =
               [image |-> [k \in 1 .. Len(accepted'.image) |->
                             sst25'.cells[Org + k - 1]],
                crc |-> accepted'.crc]
      BY <2>2 DEF InstalledImage
    <3>2. /\ Crc(accepted'.image) = accepted'.crc
          /\ \A k \in 1 .. Len(accepted'.image) :
               sst25'.cells[Org + k - 1] = accepted'.image[k]
      BY <2>2 DEF FlagInv, FlagMeansVerifiedImage
    <3>3. accepted'.image \in Seq(Stored) /\ accepted'.crc \in Nat
      BY DEF TypeOK
    <3>4. InstalledImage'.image = accepted'.image
      <4>1. accepted'.image = [k \in 1 .. Len(accepted'.image) |-> accepted'.image[k]]
        BY <3>3, LenProperties
      <4> QED BY <3>1, <3>2, <4>1
    <3>5. InstalledImage' # NoImage
      <4>1. accepted'.image \in Seq(Cell)
        BY <3>3, SeqMonotonic, Alphabet DEF Cell
      <4>2. InstalledImage' = [image |-> accepted'.image, crc |-> accepted'.crc]
        BY <3>1, <3>4
      <4> QED BY <3>3, <4>1, <4>2, NoImageAssumption
    <3>6. InstalledImage'.crc = accepted'.crc
      BY <3>1
    <3> QED BY <3>1, <3>2, <3>4, <3>5, <3>6 DEF Bootloader!Next, Bootloader!Install
  <2>3. CASE Flag = FlagA5 /\ Flag' # FlagA5
    <3>1. InstalledImage' = NoImage
      BY <2>3 DEF InstalledImage
    <3> QED BY <3>1 DEF Bootloader!Next, Bootloader!Remove
  <2>4. CASE Flag = FlagA5 /\ Flag' = FlagA5
    <3>1. pc = "idle" /\ sst25.latch = EmptyLatch
      BY <2>4 DEF FlagInv
    <3>2. ~ Begin
      <4>1. Begin => pc' = "request"
        BY DEF Begin
      <4> QED BY <2>4, <4>1 DEF FlagInv
    <3>3. sst25'.cells = sst25.cells /\ accepted' = accepted
      <4>1. CASE Arrive \/ Overrun \/ UNCHANGED vars
        BY <4>1 DEF Arrive, Overrun, vars, history
      <4>2. CASE FlashReady
        BY <4>2, ReadyFields DEF FlashReady, TypeOK, history
      <4> QED
        BY <3>1, <3>2, <4>1, <4>2
        DEF Next, Open, NoFile, Body, Poll, Timeout, NoCharacter, Receive, RingFull,
            Write, WaitForFlash, NothingToWrite, EraseSector, StoreByte, Finish,
            Close, Dropped, Verify, WriteFlag, Environment, PowerLoss
    <3> QED BY <3>3 DEF InstalledImage, Flag
  <2> QED BY <2>1, <2>2, <2>3, <2>4
<1>3. Spec => []Inv
  BY TypeCorrect, RingCorrect, Invariance, PTL
<1> QED BY <1>1, <1>2, <1>3, PTL DEF Spec, BootloaderSpec, Bootloader!Spec
===============================================================================
