# EmbeddedDev in TLA+

This directory is a verification development of the program in `src/`: a PIC32 node that talks to a
Telit GSM modem over a UART, downloads firmware and parameters over HTTP into an SST25 serial flash,
and serves a small HTTP interface on top of Contiki. The TLA+ modules model the control of that code
(every state change, guard, early return and error path), TLC checks them on small instances, and
TLAPS proves the most important properties for every value of the constants.

## 1. Inventory

| Component | Source | State | Operations | Interacts with |
|---|---|---|---|---|
| Firmware download | `gsm.c` 4414-4860, `crc_hw.c` | ring buffer, indices, `semBuffer`, `semBurningInProgress`, `sectorEraseBegun`, `end`, `downloaded_crc`, `address` (all locals), the flash | `gsm_download_file_http_get` | UART (polled), SST25, bootloader (flag byte at address 0), modem power |
| Legacy firmware download | `gsm.c` 3945-4412 | the same with a 32-bit sum | `gsm_download_file_http_get_legacy` | the same |
| Parameter download | `gsm.c` 5830-6143 | `par_file_string`, `par_file_mask` of the connection state, the flash | `gsmDownloadFileHttpGet_Par` (no caller in the repository) | UART, SST25, shares the connection state and the flash with the extended file |
| Extended parameter file | `gsm.c` 6145-6550 | `sectors[]`, `inputbuf`, the flash | `gsm_get_http_response`, `http_handle_response`, `http_parse_*` | SST25, UART |
| AT command layer | `gsm.c` 843-950, 3847-3942, 4883-4938 | the matcher position, the UART | `waitForString`, `gsmWaitForOk`, `gsmCheckIfAnsweringOnATCommand`, `gsmSendAtCommand` | the modem: answers, echoes and unsolicited lines on one wire |
| Modem power | `gsm.c` 955-1575 | the pins PWRCTL, ON/OFF, RESET; the power monitor | `gsmTurnOn`, `gsmSoftTurnOff`, `gsmHardTurnOff`, `gsmSoftReset`, `gsmHardReset`, `gsmAnswerOnATCR` | the modem, each other (recursion) |
| Modem session | `gsm.c` 193-718, 3079-3648 | `*gsmStatus`, the modem's own GPRS context | `gsm_init`, `gsmConnectedToMobileNetwork`, `gsmInitGprs`, `gsmEstablishGPRS`, `gsmCheckGprsEstablished`, `gsmCloseGPRS`, `gsmConnectToServer_Multi` | AT layer, power |
| Sockets and clock | `gsm.c` | the modem's socket | `gsmSuspendSocket`, `gsmResumeSocketConnection`, `gsmCloseSocket`, `gsmSetClock`, `gsmGetClock` | AT layer, session |
| E-mail | `gsm.c` | the modem's mail settings and prompt | `gsmEmailString`, `gsmSetEmailConfig`, `gsmEmailStatus` | AT layer, GPRS context |
| Modem settings | `gsm.c` 1782-3077 | modem settings | `gsmSet*`, `gsmGet*`, `gsmStoreInProfile0` | AT layer |
| Incoming data | `gsm.c` 7060-7461 | the mailbox between the ISR and the main line: `_scGsmBuffer`, `_semGsmInputBuffer`, `_semGsmCommandReceived`, push and pop indices | `_GsmInputHandler` (ISR), `gsmExtractReceivedData`, `gsmSSEND` | UART interrupt |
| HTTP server | `http-server.c` | per connection: state, `connBuffer`, request, response, `postData`; statics shared by the connections | `handleConnection`, `handleRequest`, `parseUrl`, `parseHeader`, `handleResponse`, `sendData` | Contiki uIP and protosockets, application callbacks |
| Logger | `logger/` | one text buffer, its index | `logger_log`, flush process | serial or file back end |
| Conversions and checksums | `crc_hw.c`, `utils*.c` | none (the DMA channel and its CRC register) | `crc_hw_16`, `crc_hw_32`, `check_crc_32_on_flash`, `mirror_uint32`, hexadecimal digits | downloads |
| Radio firmware | `cc1101/` | PIC16 registers | transmit and receive a frame | CC1101 |

How they interact: there is no operating system below `gsm.c`. A caller blocks in a function of the
driver; the function writes AT commands to the UART, polls the receiver with `waitForString`, and uses
the core timer for its timeouts. What comes back shares the wire with echoes, unsolicited result codes
and, once a socket is open, the payload. The modem is restarted through pins when it stops answering.
The downloads share the SPI flash with the bootloader, which looks at address 0 after a reset. The
HTTP server runs as one Contiki protothread per connection beside it.

What is hard: bytes that arrive while the flash is busy; a flash that only clears bits and that erases
whole sectors; power that goes away in the middle; result codes that arrive inside or behind a payload;
a matcher that reads a stream with no framing; a modem that is silent, slow or dead; an interrupt
handler that shares buffers with the main line; protothreads that yield in the middle of a request.
Every hazard of this kind is listed at its line under `hazards` in `PROJECT.json` with the properties
that cover it.

For each component, what makes it correct:

- firmware download: whatever arrives and whenever power goes, the bootloader sees either no image or a
  complete, verified one; the ring loses nothing silently; every download comes back; a good file is
  installed;
- extended parameter file: what was written stays; only a whole file that belongs to this download counts;
- parameter download: the record in memory is that of the file asked for, whatever was there before;
- HTTP server: every client gets the answer to its own request and its own body; every connection ends; what
  the application reads of a request is what the client wrote, and what it adds to a reply is sent as it is;
- conversions: the checksum the hardware gives is the standard one the server computed;
- incoming data: no character of the peer is lost, repeated or mixed with the protocol; text goes out only
  into a prompt; no index leaves its buffer;
- modem power: what a call says is so; a modem that can be brought back is brought back; every call returns;
- modem session: "ready" means configured; a flag tells what was seen now, not what was seen last time; what
  a call for a socket, the context or a mail reports is so; the firewall is shut;
- AT layer: an `OK` that is reported belongs to the command that was sent.

## 2. Modules

| Module | Models | Uses |
|---|---|---|
| `SST25` | the flash chip: cells, page latch, busy flag | |
| `FirmwareSlot` | abstract: what the bootloader may rely on | |
| `FirmwareDownload` | `gsm_download_file_http_get`, one action per branch of the loop | `SST25`, implements `FirmwareSlot` |
| `ParFile` | `gsm_download_extended_par` | `SST25` |
| `ParDownload` | `gsmDownloadFileHttpGet_Par`, in any order with the extended one | `ParFile` |
| `HttpService` | abstract: what one client, and the application on its behalf, may take the server for | |
| `HttpServer` | `http-server.c`: connections, requests, replies, the statics they share | implements `HttpService` for each client |
| `HttpText` | `http-server.c`: what becomes of the texts of one request and its reply | |
| `Checksums` | `crc_hw.c`, `utils.c`, `utils_asciihex.c` | |
| `GsmReceive` | `_GsmInputHandler`, `gsmExtractReceivedData`, `gsmSSEND` | |
| `AtExchange` | abstract: what the callers take an AT command for | |
| `GsmAt` | `gsmSendAtCommand`, `gsmWaitForOk`, `waitForString` on a wire of characters | implements `AtExchange` |
| `GsmPower` | the four procedures that switch the modem | |
| `GsmModem` | what session, settings and network share: the modem, its flags, the table of each program's steps | `GsmPower` |
| `GsmSettings` | every `gsmSet...` procedure of `gsm_init`, firewall and mail settings with it | `GsmModem` |
| `GsmNetwork` | attaching, the GPRS context, sockets, mail | `GsmModem` |
| `GsmSession` | the caller and its calls in any order, the faults, the properties | `GsmSettings`, `GsmNetwork` |
| `FirmwareDownloadProofs`, `ParFileProofs`, `HttpServerProofs`, `GsmReceiveProofs`, `GsmAtProofs`, `GsmSessionProofs` (with `GsmPower`), `HttpTextProofs`, `ChecksumsProofs` | theorems and their lemmas | the module they are about, `TLAPS` |
| `MC...` | the small instances; `MCConversions` runs `HttpText` and `Checksums`, which share nothing | the modules they instantiate |

How state and actions correspond to the code:

**SST25.** The chip is an external library; it is modelled from the calls of `gsm.c`
(`SST25SectorErase`, `SST25WriteByte`-style pushes into a page latch, the busy poll). Programming only
clears bits: writing over a cell that is not erased yields `Mixed`. What is in the latch is lost without
power; cells are kept.

**FirmwareDownload.** The locals of the function are variables with their names (`i`, `j`, `semBuffer`,
`semBurningInProgress`, `sectorEraseBegun`, `semReachedCrcInFile`, `end`, `downloaded_crc`). `Open` is the
request up to the body, `Poll` one turn of the receive branch, `Write` one turn of the flash branch, `Close`
the checksum and the flag; `Environment` are the UART, the flash and the power. A checksum is `CrcModulus`
wide and its hexadecimal digits have `Radix` values, both constants.

**ParFile.** A response is a sequence of pieces (status, record, lines, `$`, checksum, `^`). `Receive`,
`Silence` and `Incomplete` are the ways out of `gsm_get_http_response`, `Handle` is the verification with
its cuts (`nul`) and its two ends (`Verified`; `Refused`, also when the DMA fails), `WriteRecord` and `ParseLine` the writes with `add_and_erase_sector`. `sectorSize` is the
mask, as in the code.

**ParDownload.** `ParRequest` erases the sector of the record and prepares a write that never gets a byte;
`ParHeader` and `ParBody` are the scan of the response, `ParSilence` the timeout. The digits of a line or a
checksum are not told apart from those of a record, so what they leave in the string and the mask is any
bytes. `ExtendedStep` is a step of `ParFile` on the same connection state and flash.

**HttpServer.** `handleRequest(c)` and `handleResponse(c)` are the protothread of connection `c` between two
waits; `Event` are uIP's events. The `static` locals `error`, `readBytes`, `p`, `nIndex` are variables that
all connections share. A request announces `size` bytes of body and its client sends `excess` more, which
`ReadBody` copies like the code, whatever they are; where that is too much for the block the slot is `spilt`, and
since what then lies in the heap is unknown, its thread takes no further step. `HeapBlocks` bounds malloc. `Service(c)` is `HttpService` with the slot of connection `c`
for its state: what is asked, what the application was given, what was decided on (the status, and the header the
server will add), and what has been acknowledged. `ServiceSpec` says that every slot behaves so.

**HttpText.** A text is the sequence of its ASCII codes. `connBuffer` is what has been copied into it, NULs
included, and `resourceUrl`, `queryString` and the headers are positions in it, as the code's pointers are:
`parseUrl` cuts the url by writing NULs where it lies. `told` is the history of what client and application
gave. The actions are the request line (`parseUrl`), a header line (`parseHeader`), the empty line with the
body, and what the application does with the reply. `Urls[n]` and `Bodies[n]` are the texts put together of `n`
pieces, so that `Budget` bounds a behaviour. The functions that only read (`getVariable`, `decode`,
`get_query_variable`, `http_server_get_req_header`) are operators with the code's names, and the invariants
call them for every name of `Variables` and every size of `Sizes`. A loop of the code is a function of the number
of turns: `DecodeOne` is one turn of the loop of `decode`, `ScanOne` one of `getVariable`'s. What they are
compared with, `Meaning` and `FoundIn`, has no loop: it speaks of all positions and all pairs of a text at once.

**Checksums.** TLC's integers have 32 bits with a sign, so a word is the sequence of its bits, the most
significant first. `DmaChnMemCrc` is the shift register of the DMA channel (external); `crc_hw_16`,
`crc_hw_32`, `check_crc_32_on_flash` are the code's compositions of transfers, and `dma` says which transfer
fails. The reference (`CrcCcitt`, `Crc32`) is the usual definition of the two, a byte at a time, from the high
and from the low end; that these are the checksums meant is what `KnownAnswers` in `MCConversions` says, an
assumption TLC evaluates, with the answers the unit test expects.

**GsmReceive.** The handler is one action per character. Any `#` opens a text for `_scGsmBuffer`, whoever sent it,
and is written there without a test of the end; `InCommandBuffer` says that this went well so far, and a behaviour
ends where it did not, since what lies behind the buffer is not part of the model. The program is cut where the handler can come
between: every assignment of a reset is an action (`ClearBuffer`, `ZeroReceived`, `ZeroPush`,
`ZeroCommandPush`). The modem's half (`GiveData`, `GivePrompt`, `TakeText`) is external.

**GsmPower.** A call is a frame of `stack`, so that the mutual recursion of `gsmTurnOn` and `gsmHardReset`
is the code's. The pulses on the pins act on `power`; `AnsweringOnAT` is the AT check with a second's wait.

**GsmAt.** One action per character read and per decision: `SendAt`, `ReadWindow`, `CloseWindow` are
`gsmWaitForOk` inside the two loops of `gsmSendAtCommand`, `SendCommand` clears the buffer and sends, `Hear`
and `NoAnswer` are `waitForString` with its two counters `wanted` and `error`. The modem's half (`Answer`,
`Ignore`, `Interrupt`) and the UART (`Arrive`) are external: an answer may come late, not at all, or behind
lines nobody asked for. `verdict` is the history of what the modem really did.

**GsmModem, GsmSettings, GsmNetwork, GsmSession.** Every program of the driver is a row of `Programs`: a
sequence of steps, with the procedure each calls, its tries and what its failure does (`gsm_init` is
`Contact \o Settings \o Network`). A procedure is an action per place in its loops (`AskFirst`, `SetIt`,
`AskAgain`, `ErrorLevel`, `SetByte`, ...), shared by the settings whose functions have the same control.
`GetNumber` may end in the wait of `gsm_get_imei` for a character that is not a line end, which has no limit of
time; `LateCharacter` ends it, and nothing makes it happen. `Establish` defines the context of each operator
(`SetContext`) before it activates it, so the context `gsm_init` asked for may be lost and found again.
`*gsmStatus` is the set `gsmStatus`; `configured`, `firewall`, `attached`, `gprs`, `suspended` are the modem's
side of it.

## 3. Runs

| Run | Question | Bounds |
|---|---|---|
| `firmware_download` | is every file, fault and power loss handled as the bootloader needs it? | 8 cells, sectors of 4, pages of 2, ring of 4, files of up to 8 bytes, one fault |
| `firmware_result_code` (violation) | does what follows the file matter? | the same, files with a result code behind them |
| `par_file_stored` | does what was written survive, is only a whole file written, is the record the file's? | 12 cells, sectors of 4, eight responses, two downloads of either kind, one fault |
| `par_file_one_sector` (violation) | two lines at both ends of a sector | one file |
| `par_file_top_bit` (violation) | is a file that arrived whole taken, whatever its checksum? | two files |
| `http_clients` | does each client get its own answer? | two connections, seven kinds of request, three heap blocks |
| `http_interleaved` (violation) | the same with any two requests together | eight blocks |
| `conversions` | are the checksums standard, and do the texts of a request and a reply arrive? | messages of up to 4 bytes of {0, 49, 200} and two of the unit test, a buffer of 2, any of the first four transfers fails; six pieces, lines and values, room for 0, 1 and 2 characters of a variable |
| `gsm_receive_turns` | is the conversation with peer and modem correct? | two messages, two texts, one hang-up |
| `gsm_receive_deaf` (violation) | does the handler drop only when it is full? | a buffer of 15 characters |
| `gsm_at` | does an OK belong to its command, does one fault make the driver give up, does it return? | two commands, two tries of two ATs, a window of 16, a UART of 4, two faults |
| `gsm_session` | do the driver's calls tell the truth, end, and configure? | two calls, two faults, three tries, two firewall rules of four tries |

Why the bounds are enough:

- *firmware_download*: the ring is as large as a sector and two pages, so files of up to eight bytes wrap it
  twice, cross pages and a sector end, and reach the end of the region (`IcpEnd`). `RxDepth = 1` makes every
  delay of the loop an overrun. One fault is one lost byte or one power loss at any step; the theorems hold
  for any number.
- *par_file_stored*: two sectors behind the record's, lines in one sector in both orders, a record that is
  too short and too long, a line without a comment, a checksum above the largest `long`, a DMA that
  fails while the checksum is computed, and a second download of either kind on a connection state and a flash that the first has used.
- *http_clients*: two connections are the least that can share the statics. `Together` names the requests
  that may be made while others are served; with every request together the server is wrong
  (`http_interleaved`), so this run claims the rest. One of the seven requests is a body of three
  bytes that was announced as two: `BodyFits` says that only such a client makes the server write behind a block,
  and `Served` claims nothing once it has. The statics are shared by at most two threads at a time
  in any case, since a third behaves towards each as the second does.
- *gsm_receive_turns*: `turns` is chosen at the start. With it, peer and program wait for one another and all
  properties are claimed; without it up to two messages come at any time and only what holds in every
  interleaving is claimed (`TypeOK`, `TextIntoPrompt`). Two messages hold a `#`. What follows it just fits the
  eight characters of `_scGsmBuffer` in one, and is written behind its end in the other; `Delivered`, `Taken`,
  `HangUpNoticed` and the index of `_scGsmBuffer` are claimed for a peer that has sent none (`Plain`). A buffer of 63 holds all of it (`Roomy`), so a
  character is never dropped; `gsm_receive_deaf` is about the buffer that is used up.
- *conversions*: with a buffer of two bytes a message of three or four takes two chunks, the last one full or
  half full, and one of nine takes five. Six pieces hold a path with a query of two variables, an escape at its
  end, an escape cut short, and one of the NUL (`%00`); values of one and three characters and a `ResponseSize`
  of 4 let a shorter text be copied over a longer one, and one more be added that fits exactly or not at all;
  `Sizes` has a variable that fits, one that is cut and room for the NUL alone; three lines are one more than
  the request has room for headers. The zero byte and one with its top bit set
  are the two a wrong bit order would show with.
- *gsm_at*: the commands are one like any other and one whose text ends like the OK. Two faults are one that
  spoils an AT and one that spoils the next; the UART of four characters loses characters when nobody reads;
  16 is the code's window.
- *gsm_session*: two faults are one more than every single-fault case, and a modem that hangs, is off or is
  still on a socket fails for free from then on, so every retry loop is run to its end. `TurnOnTries` is 10 in
  the code; 3 lets two faults exhaust it. A rule of the firewall has the code's four tries and cannot be lost to
  two faults; a second rule shows that the loop goes on behind a failed one. The initial states are those of a processor that starts while the
  modem keeps running. The three profiles after a factory reset are "nothing right", "only the level that
  `gsmSetErrorLevel` cannot set right" and "everything that is asked for".

`CHECK_DEADLOCK FALSE` stands where the bounds or the environment let the system stop: no more clients,
messages, calls or pieces of text.

Fairness:

- *FirmwareDownload*: the loop polls and never blocks (`Poll`, `Write`, `Close`), bytes in flight arrive, and
  the flash gets ready. Nothing is assumed of the server: it may stop at any byte, and the 50 s timeout is an
  action of `Poll`.
- *HttpServer*: a thread runs when its event comes (weak). A client that stays sends the rest of its request,
  acknowledges, and sees its connection closed (strong, because other connections interrupt it).
- *GsmReceive*: the interrupt is served, the modem answers, the program goes on; the caller calls
  `gsmExtractReceivedData` again and again, which is how it is documented to be used. Nobody has to send or
  hang up.
- *GsmAt*: the program goes on (its timers run out), what was sent arrives, and the modem answers what it does
  not ignore. How often it ignores, answers late or interrupts is bounded by the faults.
- *GsmSession*: the program goes on. Nothing is assumed of the modem, so nothing ends the wait of `gsm_get_imei`
  for the IMEI: `CallsReturn` says that every call returns unless it stays in that wait for ever, which
  takes one fault; without that exception TLC finds it violated.

## 4. What is proved

Every theorem holds for every value of the constants that the `ASSUME`s of its module allow, so for any number
of faults, tries, calls, connections or messages. TLC evaluates those assumptions in every run. Where a theorem
supposes more than that, it says so in its own `ASSUME`, and the hypothesis is named below with the reason.

| Module | Proved | Supposes |
|---|---|---|
| `FirmwareDownloadProofs` | `TypeOK`, `RingHoldsPending`, `ImageStored`, `FlagMeansVerifiedImage`, `SuccessIsMarked`, implements `FirmwareSlot` | |
| `ParFileProofs` | `ParTypeOK`, `OneTransaction`, `WholeFile`, `RecordTaken` | `FilesWellFormed` |
| | `ParStored` | `FilesWellFormed`, `FilesWellPlaced` |
| `HttpServerProofs` | `TypeOK`, `OwnReply`, `OwnBody`, `BodyFits`, `OwnStatus`, implements `HttpService` for each client | `Undisturbed` |
| `GsmReceiveProofs` | `TypeOK`, `TextIntoPrompt` | |
| | `Delivered` | `Roomy` |
| `GsmAtProofs` | `TypeOK`, implements `AtExchange` | |
| | `TellsWhatHappened` | `CommandsWithoutFour` |
| | `GivesUpLate` (and `GivesUpAfter(n)` for every n from 3 on: theorem `Patient`) | `MadeUpBy` |
| `GsmSessionProofs` | `TypeOK`, `PowerIsAsTold`, `TurnOnPersists`, `ReadyMeansConfigured`, `ConnectedIsFresh`, `LinkIsAsTold`, `FirewallShut` | |
| `HttpTextProofs` | `TextsKept`, `VariableIsFound` | |
| `ChecksumsProofs` | `ChecksumsAreStandard` | |

The argument is in each case one inductive invariant, called `IInv` (`TextInv` in `HttpTextProofs`), with a
lemma for each action; in `ChecksumsProofs` it is only that the image is bytes (`SumInv`), and the work is in the
lemmas about the functions. `OwnStatus` of `HttpServer` is proved and not given to TLC: what it says is part of what the run
checks with `ServiceSpec`.

**FirmwareDownload.** `IInv == TypeOK /\ RingHoldsPending /\ ImageStored /\ LoopInv /\ FlagInv`.
`RingHoldsPending` says that the ring is a queue: it gives the flash branch the byte that is due. `ImageStored`
alone is not inductive: that the next byte falls on an erased cell needs *AheadErased* (cells from the address
to the end of the sector that is open are erased), that the latch is programmed where it was filled needs
*LatchBehind*, and that no byte is pushed into a page that is not open needs *PageOpen*; these are the parts of
`LoopInv`. `FlagInv` says that the flag is erased during a download, that what was accepted is what was
received, and that the checksum was compared before the flag is written. The actions of the receive branch
leave the flash alone and those of the flash branch leave the line alone. The lemmas on the chip (erase, push,
program, power up) they cite stand in front of them.

**ParFile and ParDownload.** `IInv == ParTypeOK /\ Flow /\ Whole /\ Once`. The parser cuts the buffer by
writing NULs into it and never empties it, so what has to be shown is that a buffer that was parsed once can
never be parsed again, whatever the next responses append to it. *Once* says it: after a transaction the
visible text is one in which no `$` with a checksum behind it follows the last colon (`SpentText`), and the
first NUL hides all that is appended. It stays so under a second cut only because a text that was cut behind its
last record has no `$` left (`CutText`). *Whole* says that a payload is a file of the server from its record to its
`$`: the checksum covers what lies between and a file has one `$`. `RecordTaken` needs a second invariant,
`Fetched`: as long as nothing was lost, what has come of the response lies at the end of the buffer and what is
on the wire is the rest of the file asked for, so the record that is found last is that file's.
`ParStored` needs a third one, `Laid`: *Progress* (what is still to be written is the rest of the payload, every
sector written to so far is in the list, and what is left of it is erased), and that what was written is still
there. A step of the
parser writes one block into a sector that is erased first unless its number is in the list; the earlier blocks
stay because none overlaps and because a sector whose number is not in the list holds none of them. The last point is what
`FilesWellPlaced` supposes and what the code does not keep (section 5): the number of a sector is computed with the
mask, so it tells the sectors apart only for files whose lines avoid the last byte of a sector.
`FilesWellFormed` is what the sender can do right: a status line, a record behind it, one `$`, one `^`, a checksum
of what it sends. `MCParFile` has TLC check both for the files of `par_file_stored`.

**HttpServer.** `IInv == Typed /\ Runs /\ Shared /\ Heap /\ Slots`. *Slots* holds for each connection what it
has read (`Reading`), what was decided about it (`Answering`), and how much of its reply it has made
(`Streaming`). The statics are the hard part: `p` and `nIndex` belong to the one thread that has just been
resumed, and a thread that waits for an acknowledgement while others run must have nothing left to send
(`Yielded`), or it would go on with another's piece. That is so for requests without a body or a fault whose
reply fits the output buffer; `Undisturbed` supposes that only such requests are made while others are
served. The code keeps no such rule (`http_interleaved`), so the theorems say what the server guarantees to a
client that is alone or in plain company. `MCHttpServer` has TLC check the hypothesis for `http_clients`.
That each client is served as if it was alone (`ServesEachAlone`, `ServesAlone`) follows from the same invariant:
the step of another connection leaves the slot alone (`OthersStay`); a step of `handleRequest` reads on or ends
in what *Answering* knows to be decided, the callback's answer or a refusal the request deserves; a step of
`handleResponse` leaves what was decided and sent as it is (`ResponseMoves`); and an acknowledgement adds a piece
of the reply, since what was sent and what waits is its beginning (`GotSoFar`). It says more than `OwnReply` and
`OwnBody`: that the decision is made once and stands, and that the application is called once, for this client,
before anything goes out. `BodyFits` names the case the code does not guard: `readBytes` starts at zero for a body, and
what comes is counted, so only a client that sends more than it has announced gets behind its block.

**GsmReceive.** `IInv == Safe /\ Texts`, and `Safe == Typed /\ ModemTyped /\ Prompts` holds in every interleaving
whatever the peer sends; *Texts* holds as long as it has sent no `#` (`Plain`), so what is carried over the steps is
`Safe /\ (Plain => IInv)`. The handler does not check the end of `_scGsmBuffer`, and a `#` of the peer takes it behind it;
*Texts* says why the modem's own texts do not: a text that begins with `#` has five characters, the
last of them a line end, comes only between `AT#SRECV` and the delay in front of the reset, and each starts
with the position at 0, because the reset of the call before set it back. *Prompts* says that a `>` in the
buffer or on the line is the modem's prompt or data, and that the data is gone before the next call looks: it
needs the erasing of the buffer in the reset and the delay before it.
`Delivered` rests on a second invariant, `Conversation`: nine phases, from an indication on the line to the
last step of the reset behind the call, each with what is on the line, in the buffer, in the modem and in the
program's hands. What is on the line and what is in the buffer are the two halves of one text (`Half`), so
each step of the handler moves the border by one, and what `CopyData` takes is the data and nothing else.
The handler drops characters when the room is used up, and the room is never given back, so all of it holds only
while the conversation fits the buffer: `Roomy` counts 19 characters for each message, 5 for each text and 4 for
the hang-up, and the phases carry what is still needed. The turns run satisfies it (52 of 63); without it the
property is false, as `gsm_receive_deaf` shows.

**GsmAt.** `IInv == TypeOK /\ OwnQuestion /\ NoForeignZero`. *OwnQuestion*: while the answer is awaited, nothing
but this command is unanswered. *NoForeignZero*: until the modem has carried it out, no `0` is on the wire or
counted by the matcher, unless the command has one in its own text and the modem echoes. Neither is inductive
without the other: a zero comes only with an answer, and the answer is the command's only because the wire had
settled when it was sent. A step of the driver that returns 1 is then a `Tell` after `CarryOut`; every step
that changes neither `verdict` nor `told` is a stutter. `TellsWhatHappened`, that the caller is told exactly
what happened when nothing goes wrong, needs a third one, `Heard`: what is still to be read is the rest of the
echo and the answer, and the matcher has seen no code in what came before. The echo of a command with a `4` in its
text is taken for the error code by the matcher, so such commands are left out (`CommandsWithoutFour`).
`GivesUpLate` needs a fourth, `Patience`, which keeps accounts of what a fault can spoil. A window that is full has
read 16 characters, of which at most 9 answer its own AT, so a try that fails takes at least 7 of what was on
its way before; what is on its way, or will come with an answer that is due, costs 1 each; and a fault
(a line, or an answer that did not come in time) brings at most 7n. So 7 for each try so far, and what is on its
way, stay within 7n for each fault and 7n more, for what an earlier command left. The one exception is the window
that pays nothing because it cannot fail: one that began with nothing on its way and met no fault (`Pure`) reads
the answer of its own AT and ends with it. `MadeUpBy(n)` says what the 7n must cover: lines of at most 7n
characters and the answer of a command of at most 7n - 8. With n = 3 these are 21 and 13; the theorem is
proved for any n from 3 on, since with longer commands the driver still gives up late, but less so. With the
sixteen ATs of the code and n = 3 that is at least five faults. The bound is about a modem that echoes
or answers in numbers; in text without echo `gsmWaitForOk` recognises nothing.

**GsmPower and GsmSession.** `IInv` has three groups. *Counters* and `PowerTyped` bound the loops and the frames
of the stack. `StackInv` is about the recursion of `gsmTurnOn` and `gsmHardReset`: every try of every
`gsmTurnOn` on the stack but the last has cost the modem a fault (*Owed*), and unless the last has cost one too
the call in progress has made it answer; so a `gsmTurnOn` that gives up has been failed in all its tries but
one, at any depth. The rest is about the programs: the flags of the steps passed are there (*FlagsKept*), what a
step saw or set is in the modem (*Confirmed*), the network flag is of this call (*Fresh*), a socket needs a
context and a context the network (*Linked*), the modem is not on a socket while it is configured (*Awake*), and a
rule of the firewall that is missing has cost a fault in each of its tries (*RulesAdded*). Behind the settings only
the context changes any more, when `gsmEstablishGPRS` tries the operators' own (*KeepsSettings*), and it is none of
the settings that `ReadyMeansConfigured` speaks of (`Sure`).

**HttpText.** The theorems are about texts of any length, so they have two halves. The first is about the
pure functions. `UpTheNumbers` says that a set with 0 that has with every number the next one has all numbers up
to a bound (its proof takes the least one that is missing: the induction theorems of the library take an
operator, which no installed prover can instantiate, and a set does as well here), `Turns` that a loop which stays within a set
of states has a state after any number of turns. With them two loop invariants carry over the turns.
*DecodedSoFar*: what `decode` has written is the characters at those positions before `i` that lie inside no
escape, in their order, so that `decode` gives `Meaning`, or as much of it as fits (`DecodeIs`).
*ScannedSoFar*: `getVariable` has skipped no pair of its name, and its output is the value of the last one
before `start` (`GetVariableIs`): the loop jumps over a value and one character more, and one has to see that
no pair begins there. `OfNameIs` and `PairValueIs` bring the pairs of the reference to the places the code
looks at. The second half is the buffer: `TextInv == TextType /\ NotBegun /\ UrlHolds /\ HeadersHold /\ BodyHolds
/\ AddedHold /\ ResponseHolds`. `TextsKept` is not inductive: that a string reads the same after something was put
behind it needs that its own NUL lies inside the buffer, which reading it does not show. So the invariant says of each
pointer that the buffer *holds* its text there, with a NUL behind it and none inside (`Holds`), and
`PutBehind` that whatever is held stays held when a string is appended. Only `parseUrl` writes into the buffer
elsewhere: the url is the only string then, the query lies behind the NUL that cuts it off, and the decoded path
is no longer than the raw one (`ParsedIs`). For the text of the reply the invariant says besides that behind the longest
text so far there are only NULs (*ResponseHolds*), since nothing but the next text ends one. The parts of `TextInv` were
checked by TLC before they were proved. The attempt corrected the model's idea of two things: an escaped NUL
(`%00`) ends the path for the application, so the path is its meaning up to the first NUL; and whether a text copied
over a longer one is left without an end depends on the longest text so far, not on the one it replaces. The code has
no rule against either; both are in `TextsKept` as the code has them.

**Checksums.** The DMA takes a message by shifting its bits through the whole register; the standard checksums add
a byte to the first bits of the register and shift zeros in. The code makes one of the other with a seed of its own
and zeros behind the message, and why that is right for every message is what is proved. `Pads(w, p, r, f)` relates
a register `r` to the register `f` it becomes behind `w` zeros. `PadsFeed` is the heart of it: if `Pads` holds, then a bit
shifted into `r` does to `f` what the reference does with that bit: a bit that goes through the whole register is a
bit added to its first, since two registers that differ in one bit differ, a shift later, in the bit next to it and in
nothing else. `Agree` carries it over the bytes of a message (`UpTheNumbers`, as in `HttpTextProofs`), and `StartPads16` and
`StartPads32` are the start: 0x84cf and 0x46af6449 become all ones behind 16 and 32 zeros, which the provers compute
with the sets of ones of each register on the way. For the CRC-32 the reference runs the other way round, and
`Mirror32` says that 0xedb88320 is the polynomial turned round. The rest is the code around the transfers:
`mirror_uint32` reverses a word (`MirrorIs`), a sum taken in chunks of any size is the sum of the whole (`DmaGoesOn`,
`OnFlash`: the chunks cover the image without a gap, the last one included), and the digits written over themselves
are read before they are lost (`BackFromHex`: the byte at `j` needs the digits at `2j - 1` and `2j`, and what has been
overwritten lies before `j`). Recursion here is over bits and bytes of data of any length. The library's induction
theorems cannot be used for it, and were not needed: the loops are functions of the number of turns.

Assumptions, all of them named `ASSUME`s that TLC evaluates: the geometry (pages divide the memory,
every sector starts on a page), the image begins inside sector 0 behind the flag's byte and `IcpEnd` lies in the
memory, an erased or doubly programmed cell and an unlatched one are none of the data bytes, the record of
the parameter file fits the memory, files are sequences of pieces, the sizes are positive, the bytes of a message are bytes;
for `GsmAt`, commands and lines are text, and an unsolicited line holds no `0` (RING, CONNECT, NO CARRIER and
the errors of the numeric format are other digits); for `HttpText`, texts hold characters from 1 to 127, the
name of a header holds no colon and the name of a variable no ampersand (nothing with such a name can be sent), and
the application has room for the NUL of a variable (with a size of 0 `decode` would count down from the largest
`size_t`); for `GsmReceive`, a message has one to nine characters
without NUL, an answer's text fits `_scGsmBuffer` and a message the input buffer. Assumptions in the models:
the library's sector erase and
page preparation return when the chip is done, an erase or a page program is not cut in half by a power loss,
a power loss keeps the cells; the modem has answered the ATs by the time the wire has settled (`CaughtUp`
in `SendCommand`): an AT that is answered later would lend its OK to the command; and at most nine characters
wait in the modem (`MaxWaiting`, the bound of one digit).

Model-checked only:

- liveness (`DownloadReturns`, `GoodFileInstalled`, `Served`, `Taken`, `HangUpNoticed`, `Returns`, `CallsReturn`),
  which TLAPS does not handle under fairness;
- `KnownAnswers`, that the reference checksums of `Checksums` are the ones meant: two messages with the answers of
  the unit test;
- what a violation run is about, and what happens outside the named hypotheses.

## 5. Where the code and its comments disagree

Each is a run whose property states what the repository says, and that TLC finds violated:

| Run | What happens |
|---|---|
| `firmware_result_code` | result codes behind the file are shifted into the checksum, a good file is rejected |
| `par_file_one_sector` | the sector number divides by the mask instead of the size: a sector is erased twice |
| `par_file_top_bit` | `strtol` on a processor whose `long` has 32 bits: files with a checksum above 7fffffff are refused, half of all |
| `http_interleaved` | a shared `error` makes one client's long url another client's 414 |
| `gsm_receive_deaf` | the room of the input buffer is never given back |

What follows has no run of its own; it is in the models, and the passing properties name it as what they do not
claim:

- `gsm_get_imei` waits for a character that is not a line end without a limit of time (`gsm.c:3665`; its sibling
  `gsm_get_imsi` has one, `gsm.c:3717`), so a modem that falls silent behind a line end keeps `gsm_init` for ever.
  `CallsReturn` excepts this wait and no other, and is violated without the exception;
- the handler takes any `#` of the peer for the start of a text and writes it without a test of the end of
  `_scGsmBuffer` (`gsm.c:7118`-`7129`), and the behaviours of `gsm_receive_turns` get there. `TypeOK` of
  `GsmReceive` bounds that index while the peer has sent no `#`;
- a segment of a body is copied without a comparison with the block (`http-server.c:567`). `BodyFits` says that
  nobody but a client that sends more than it announced makes use of it;
- two bodies that wait for segments together share `readBytes` (`http-server.c:545`): the second sets it to zero
  and both count in it. `http_clients` takes bodies one at a time, so this is not claimed to be right; with two of
  them together TLC finds `OwnBody` violated.

## 6. What the models leave out, and what was seen on the way

- *ParFile, ParDownload*: the checksum is collision-free; the sizes of `inputbuf`, `sectors` and `temp` are not
  modelled (declared outside, or unchecked with a TODO). A line without a comment is ignored (`gsm.c:6180`).
  Ten seconds of silence are reported as a response of one byte (`gsm.c:6475`), so what an earlier response
  left may be parsed once more; `WholeFile` holds all the same. In the parameter download digits are read in whole
  bytes, a lost piece is a record, a line or a header; it has no checksum, so lost characters shift what follows
  unnoticed, and its erased sector stays empty.
- *HttpServer*: a client may send more body than it announced, never less without leaving; what an overrun of the
  block does to the heap is not modelled, the connection stops there. A piece of output is a whole string, and the
  buffer holds at least two; `PSOCK_READBUF` returns what has come. The body of a client that leaves before it
  is answered is never freed (`http-server.c:907`); nothing is claimed of the heap's balance.
- *HttpText*: a body comes as a whole (its segments are `HttpServer`'s). The size of `connBuffer` is checked
  nowhere in the code; the number of request headers is a bound here (both FIX_ME there). Only the line feed is
  taken off a header line, so values of lines that end in CR LF keep the CR. `getVariable` returns false for a
  value that does not fit, where `http-server.h:18` says "true if the variable found"; an absolute url without
  a path is refused with 400, one whose host holds a `?` is not claimed; `http_server_copy_to_response` does
  not end its string, so what a longer earlier copy left stays behind a shorter one. The texts of the status
  line are left out.
- *Checksums*: words of the sizes the code uses; the time the DMA takes is not modelled, only that a transfer
  may fail.
- *GsmReceive*: text the code never looks into is one character, so `SRING`'s count is at index 3 and not 11,
  and the prompt window is 4 and not 16; erasing a buffer is one step; writes succeed; the delays are long
  enough for what was sent and for the modem's answer; payloads have fewer than ten characters,
  and no more than nine wait in the modem, since a number has one digit here; the
  traffic of the turns run is smaller than the buffer; the line counter is read afresh on every turn (it is
  not `volatile` in the code); the transmit half of the handler, which nothing feeds, is left out. What lies behind
  `_scGsmBuffer` is not modelled, so a behaviour ends where the handler writes there. `gsmSSEND` compares the
  address of the answer with 3 (`gsm.c:7423`), so it reports success whatever the modem answered; modelled as it is.
- *GsmAt*: a UART that refuses to send, and `clrUARTRxBuffer` (external: it empties the receiver). The timer of
  `waitForString` starts again with every character, so a modem that talks for ever keeps it for ever: the
  faults bound how often lines come. The matcher does not notice that the character that breaks a match may
  begin one ("00" and the line end is missed). In text mode without echo `gsmWaitForOk` recognises no answer,
  and `GivesUpLate` does not claim that mode; a late answer can put its window out of step for up to three
  ATs. A command whose text ends in `0` is taken for answered by its echo (`OwnText`).
- *GsmPower*: time is left out except as order; a pulse acts at once or not at all. On an open socket the AT check
  gets no answer; data of the server that looks like an OK would be taken for one (`gsm.c:877`). `gsmTurnOn` and
  `gsmHardReset` call each other as long as the modem stays off: `CallsReturn` rests on a modem that fails
  finitely often, and one that is dead keeps `gsmTurnOn` from ever returning.
- *GsmSession*: an exchange is one step, echo is off, and its answer is read or lost, never late (that is
  `GsmAt`'s); settings are flags, the numbers themselves are left out; the module keeps its settings until it is
  reset (a module that restarts in the middle of `gsm_init` loses them unnoticed); a file transfer is one step.
  `gsmSetFirewallInit` returns 0 whatever happened and may insert a rule up to four times; `gsmSuspendSocket`
  may take data of the server that looks like an OK for its own; `gsmCheckGprsEstablished` sets
  `GSM_GPRS_INITIATED`, not `GSM_GPRS_ESTABLISHED`; `gsmGetClock` returns 1 although nothing was read.
- Not modelled at all: the legacy firmware download (the same loop, superseded, marked for removal), the
  logger (a debugging aid of which nothing says what it keeps; its room is kept in eight bits and its index
  advanced by what would have been written, `logger.c:33`), the radio programs, the tracer, tests and stubs;
  and of the driver `gsmEmailStatus` (the sequence of `gsmEmailString`), `gsmGetClock`, `gsmGetListeningStatus`
  and `gsmPendingIncomingConnection` (one question, no state), `gsmAnswerOnATCR` and `gsmSoftReset` (no
  caller). `PROJECT.json` gives the reason for each.

## 7. Plan

Done, in this order, because a wrong image on a node in the field cannot be undone: `SST25` and
`FirmwareDownload` with their proofs; `ParFile`; `HttpServer`; `GsmReceive`; `GsmPower` and `GsmSession`; the AT
layer with its abstract specification and proofs; settings, sockets, GPRS context, mail and firewall in the
session; the parameter download; the texts of the HTTP server and the checksums; the proofs of the safety
properties of `GsmPower`, `GsmSession`, `HttpServer`, `ParFile`, `ParDownload`, `GsmReceive`, `GsmAt`, `HttpText` and `Checksums`; the
refinement of `HttpService`.

Next:

1. an abstract specification of `ParFile` (a store of lines that never loses one), with refinement.
2. the legacy firmware download, if it is kept.
