------------------------------ MODULE GsmReceive ------------------------------
(***************************************************************************)
(* The interrupt driven half of gsm.c: the handler of the modem's UART     *)
(* (_GsmInputHandler) fills _gsmInputBuffer and counts lines, while the    *)
(* program reads a message of the peer (gsmExtractReceivedData) or sends   *)
(* one (gsmSSEND) on a suspended socket.  Both sides work on the same      *)
(* variables and nothing locks them: the handler may run between any two   *)
(* steps of the program.                                                   *)
(*                                                                         *)
(* A character is a record.  Text that the code never looks into, such as  *)
(* "SRING: 1,", is one character, so the position of the count is 3 here   *)
(* and 11 in the code, and the window searched for the prompt is 4 here    *)
(* and 16 there.  Erasing a buffer is one step.                            *)
(***************************************************************************)
EXTENDS Integers, Sequences, SequencesExt

CONSTANTS
    MaxLength,          \* maxLengthOfGsmInputBuffer
    CommandLength,      \* maxLengthOfGsmCommandBuffer
    Messages,           \* what the peer may send in one go
    MaxMessages,        \* bound: how often it sends
    MaxSends,           \* bound: how often the program sends
    MaxTogether         \* bound on both together where nobody takes turns

Char(k) == [kind |-> k, n |-> 0]
Digit(n) == [kind |-> "digit", n |-> n]
Nul == Char("nul")
Hash == Char("#")
CR == Char("cr")
EOL_GSM == Char("nl")

\* Bound: what waits in the modem is counted with one digit.
MaxWaiting == 9

\* What may be on the line; a number has one digit.
Characters ==
    (UNION {ToSet(m) : m \in Messages}) \cup {Digit(n) : n \in 0 .. 9}
        \cup {Nul, Hash, CR, EOL_GSM, Char(">"), Char("SRING: 1,"), Char("SRECV: 1,")}

\* The text of an answer fits _scGsmBuffer, and what is parsed _gsmInputBuffer.
ASSUME LengthsAssumption ==
    /\ MaxLength \in Nat /\ MaxLength >= 9 /\ CommandLength \in Nat /\ CommandLength >= 5
    /\ MaxMessages \in Nat /\ MaxSends \in Nat /\ MaxTogether \in Nat
    /\ \A m \in Messages :
        /\ m \in Seq(Characters) /\ Len(m) \in 1 .. MaxWaiting /\ Nul \notin ToSet(m)
    /\ \A c \in Characters : c.kind = "digit" => c.n \in 0 .. 9

VARIABLES
    line,               \* what the modem has sent and the handler has not seen
    inputBuffer,        \* _gsmInputBuffer
    room,               \* _semGsmInputBuffer
    push,               \* _semGsmPositionPushInputBuffer
    commandPush,        \* _semGsmPositionPushGsmCommandReceivedBuffer
    semGsmCommand,      \* static of the handler: inside a text that began with '#'
    commandReceived,    \* _semGsmCommandReceived
    pc, then,           \* where the program is, and what follows a reset
    count,              \* how many characters the indication announced
    receivedData,       \* received_data
    result,             \* what the last call returned
    modem,              \* what waits in the modem, what it is doing, is the peer there
    sent, extracted,    \* history: what the peer sent, what the program was given
    messages, sends,    \* how often peer and program have sent
    turns               \* do peer and program wait until the other is done?

received == <<inputBuffer, room, push, commandPush, semGsmCommand, commandReceived>>
calls == <<count, receivedData, result, extracted>>
bounds == <<messages, sends, turns>>
vars == <<line, received, pc, then, calls, modem, sent, bounds>>

Cleared == [i \in 0 .. MaxLength |-> Nul]

-----------------------------------------------------------------------------
(* _GsmInputHandler: one character of the line.                            *)

(* A text that begins with '#' goes to _scGsmBuffer, up to its line end,   *)
(* whoever says it and however long it is.                                 *)
InCommand(c) == semGsmCommand \/ c = Hash

TakeCommand(c) ==
    /\ semGsmCommand' = (c # EOL_GSM)
    /\ commandReceived' = commandReceived + (IF c = EOL_GSM THEN 1 ELSE 0)
    /\ commandPush' = commandPush + 1
    /\ UNCHANGED <<inputBuffer, room, push>>

(* Everything else goes to _gsmInputBuffer, while there is room. *)
TakeInput(c) ==
    /\ inputBuffer' = [inputBuffer EXCEPT ![push] = c]
    /\ commandReceived' = commandReceived + (IF c = EOL_GSM THEN 1 ELSE 0)
    /\ push' = (push + 1) % (MaxLength + 1)
    /\ room' = room - 1
    /\ UNCHANGED <<commandPush, semGsmCommand>>

(* Nothing was written behind _scGsmBuffer.  What lies there is not part   *)
(* of the model, so it stops where that happens.                           *)
InCommandBuffer == commandPush <= CommandLength + 1

GsmInputHandler ==
    /\ line # <<>>
    /\ line' = Tail(line)
    /\ LET c == Head(line) IN
        IF InCommand(c) THEN TakeCommand(c)
        ELSE IF room > 0 THEN TakeInput(c) ELSE UNCHANGED received
    /\ UNCHANGED <<pc, then, calls, modem, sent, bounds>>

-----------------------------------------------------------------------------
(* The steps the two calls are made of.                                    *)

Goto(p) == pc' = p /\ UNCHANGED then
Reset(next) == pc' = "clear" /\ then' = next
Elsewhere == UNCHANGED <<line, modem, sent, bounds>>

(* DelayMs: a second is enough for what the modem has sent, and for what   *)
(* it has to answer.                                                       *)
Delayed == line = <<>> /\ modem.at \in {"command", "prompting"}

(* The reset that all of them share.  It does not touch room. *)
ClearNoBuffer ==
    /\ pc = "clear"
    /\ Goto("zeroReceived")
    /\ UNCHANGED <<received, calls>> /\ Elsewhere

ClearBuffer ==
    /\ pc = "clear"
    /\ inputBuffer' = Cleared
    /\ Goto("zeroReceived")
    /\ UNCHANGED <<room, push, commandPush, semGsmCommand, commandReceived, calls>> /\ Elsewhere

ZeroReceived ==
    /\ pc = "zeroReceived"
    /\ commandReceived' = 0
    /\ Goto("zeroPush")
    /\ UNCHANGED <<inputBuffer, room, push, commandPush, semGsmCommand, calls>> /\ Elsewhere

KeepPush ==
    /\ pc = "zeroPush"
    /\ Goto("zeroCommandPush")
    /\ UNCHANGED <<received, calls>> /\ Elsewhere

ZeroPush ==
    /\ pc = "zeroPush"
    /\ push' = 0
    /\ Goto("zeroCommandPush")
    /\ UNCHANGED <<inputBuffer, room, commandPush, semGsmCommand, commandReceived, calls>> /\ Elsewhere

KeepCommandPush ==
    /\ pc = "zeroCommandPush"
    /\ Goto(then)
    /\ UNCHANGED <<received, calls>> /\ Elsewhere

ZeroCommandPush ==
    /\ pc = "zeroCommandPush"
    /\ commandPush' = 0
    /\ Goto(then)
    /\ UNCHANGED <<inputBuffer, room, push, semGsmCommand, commandReceived, calls>> /\ Elsewhere

-----------------------------------------------------------------------------
(* gsmExtractReceivedData                                                  *)

(* The caller has seen a line. *)
Extract ==
    /\ pc = "idle" /\ commandReceived > 0
    /\ receivedData' = <<>>
    /\ Goto("parse")
    /\ UNCHANGED <<received, count, result, extracted>> /\ Elsewhere

CountBefore(b) == IF b[2].kind = "digit" THEN b[2].n ELSE 0
CountIn(b) == IF b[3].kind = "digit" THEN b[3].n ELSE 0
NoCarrierBare(b) == b[0] = Digit(3) /\ b[1] = CR
NoCarrier(b) == b[0] = CR /\ b[1] = EOL_GSM /\ b[2] = Digit(3)

(* The count of the indication; without one the peer may have hung up, and *)
(* then the buffer is left as it is.                                       *)
Parse ==
    /\ pc = "parse" /\ Delayed
    /\ count' = CountIn(inputBuffer)
    /\ IF count' = 0 /\ NoCarrier(inputBuffer)
       THEN Goto("idle") /\ result' = [call |-> "extract", value |-> 0]
       ELSE Reset("ask") /\ UNCHANGED result
    /\ UNCHANGED <<received, receivedData, extracted>> /\ Elsewhere

(* AT#SRECV=1,count *)
AskForData ==
    /\ pc = "ask"
    /\ modem' = [modem EXCEPT !.at = "receive", !.count = count]
    /\ Goto("wait")
    /\ UNCHANGED <<received, calls, line, sent, bounds>>

Answered ==
    /\ pc = "wait" /\ commandReceived > 0
    /\ Goto("copy")
    /\ UNCHANGED <<received, calls>> /\ Elsewhere

CopyData ==
    /\ pc = "copy" /\ Delayed
    /\ receivedData' = [i \in 1 .. count |-> inputBuffer[i - 1]]
    /\ Goto("settle")
    /\ UNCHANGED <<received, count, result, extracted>> /\ Elsewhere

Settle ==
    /\ pc = "settle" /\ Delayed
    /\ Reset("return")
    /\ UNCHANGED <<received, calls>> /\ Elsewhere

(* strlen(received_data): the caller finds what comes before the first NUL. *)
UpToNul(s) ==
    IF Nul \in ToSet(s)
    THEN SubSeq(s, 1, (CHOOSE i \in DOMAIN s : s[i] = Nul /\ \A j \in 1 .. i - 1 : s[j] # Nul) - 1)
    ELSE s

Return ==
    /\ pc = "return"
    /\ extracted' = extracted \o UpToNul(receivedData)
    /\ result' = [call |-> "extract", value |-> Len(UpToNul(receivedData))]
    /\ Goto("idle")
    /\ UNCHANGED <<received, count, receivedData>> /\ Elsewhere

-----------------------------------------------------------------------------
(* gsmSSEND                                                                *)

(* Nobody has anything to say: nothing waits, nothing is under way. *)
Quiet == pc = "idle" /\ line = <<>> /\ commandReceived = 0 /\ modem.pending = <<>>

(* Whose turn it is: in a conversation everybody waits for quiet. *)
MaySpeak == IF turns THEN Quiet ELSE messages + sends < MaxTogether

Send ==
    /\ pc = "idle" /\ sends < MaxSends
    /\ MaySpeak
    /\ sends' = sends + 1
    /\ Reset("askPrompt")
    /\ UNCHANGED <<received, calls, line, modem, sent, messages, turns>>

(* AT#SSEND=1 *)
AskForPrompt ==
    /\ pc = "askPrompt"
    /\ modem' = [modem EXCEPT !.at = "send"]
    /\ Goto("prompt")
    /\ UNCHANGED <<received, calls, line, sent, bounds>>

HasPrompt(b) == \E i \in 0 .. 3 : b[i] = Char(">")

(* The text and Ctrl+Z, if the modem asks for them. *)
WriteText ==
    /\ pc = "prompt" /\ Delayed
    /\ IF HasPrompt(inputBuffer)
       THEN /\ modem' = [modem EXCEPT !.at = IF @ = "prompting" THEN "text" ELSE @]
            /\ Goto("sendWait")
            /\ UNCHANGED result
       ELSE /\ result' = [call |-> "send", value |-> 0]
            /\ Reset("idle")
            /\ UNCHANGED modem
    /\ UNCHANGED <<received, count, receivedData, extracted, line, sent, bounds>>

(* The line end of the prompt is enough to go on, and in numeric mode the  *)
(* address that strstr returns, or NULL, always compares less than 3.      *)
TextSent ==
    /\ pc = "sendWait" /\ commandReceived > 0 /\ Delayed
    /\ result' = [call |-> "send", value |-> 1]
    /\ Reset("idle")
    /\ UNCHANGED <<received, count, receivedData, extracted>> /\ Elsewhere

-----------------------------------------------------------------------------
(* The modem and the peer behind it: what the code takes them to do.       *)

Indication(n) == <<CR, EOL_GSM, Char("SRING: 1,"), Digit(n), CR, EOL_GSM>>
ResultCode(n) == <<CR, EOL_GSM, Digit(n), CR>>
Says(s) == line' = line \o s

(* Data arrives from the peer and is indicated. *)
PeerSends(m) ==
    /\ modem.peer /\ messages < MaxMessages
    /\ Len(modem.pending \o m) <= MaxWaiting
    /\ MaySpeak
    /\ messages' = messages + 1
    /\ sent' = sent \o m
    /\ modem' = [modem EXCEPT !.pending = @ \o m]
    /\ Says(Indication(Len(modem'.pending)))
    /\ UNCHANGED <<received, pc, then, calls, sends, turns>>

HangUp ==
    /\ modem.peer
    /\ turns => Quiet
    /\ modem' = [modem EXCEPT !.peer = FALSE]
    /\ Says(ResultCode(3))
    /\ UNCHANGED <<received, pc, then, calls, sent, bounds>>

(* #SRECV: 1,n and the data; an error when there is nothing to read. *)
GiveData ==
    /\ modem.at = "receive"
    /\ LET n == IF modem.count < Len(modem.pending) THEN modem.count ELSE Len(modem.pending) IN
        /\ modem' = [modem EXCEPT !.at = "command", !.pending = SubSeq(@, n + 1, Len(@))]
        /\ Says(IF n = 0 THEN <<Digit(4), CR>>
                ELSE <<Hash, Char("SRECV: 1,"), Digit(n), CR, EOL_GSM>>
                        \o SubSeq(modem.pending, 1, n) \o ResultCode(0))
    /\ UNCHANGED <<received, pc, then, calls, sent, bounds>>

(* "> ", or an error. *)
GivePrompt ==
    /\ modem.at = "send"
    /\ \/ modem.peer /\ modem' = [modem EXCEPT !.at = "prompting"] /\ Says(<<CR, EOL_GSM, Char(">")>>)
       \/ modem' = [modem EXCEPT !.at = "command"] /\ Says(<<Digit(4), CR>>)
    /\ UNCHANGED <<received, pc, then, calls, sent, bounds>>

TakeText ==
    /\ modem.at = "text"
    /\ modem' = [modem EXCEPT !.at = "command"]
    /\ \E code \in {0, 4} : Says(<<Digit(code), CR>>)
    /\ UNCHANGED <<received, pc, then, calls, sent, bounds>>

-----------------------------------------------------------------------------
Init ==
    /\ line = <<>>
    /\ inputBuffer = Cleared /\ room = MaxLength /\ push = 0
    /\ commandPush = 0 /\ semGsmCommand = FALSE /\ commandReceived = 0
    /\ pc = "idle" /\ then = "idle"
    /\ count = 0 /\ receivedData = <<>> /\ result = [call |-> "none", value |-> 0]
    /\ modem = [pending |-> <<>>, at |-> "command", count |-> 0, peer |-> TRUE]
    /\ sent = <<>> /\ extracted = <<>>
    /\ messages = 0 /\ sends = 0 /\ turns \in BOOLEAN

ResetSteps == ClearBuffer \/ ZeroReceived \/ ZeroPush \/ ZeroCommandPush
ExtractSteps == Parse \/ AskForData \/ Answered \/ CopyData \/ Settle \/ Return
SendSteps == AskForPrompt \/ WriteText \/ TextSent
Program == Extract \/ ResetSteps \/ ExtractSteps \/ SendSteps
Modem == GiveData \/ GivePrompt \/ TakeText
Peer == HangUp \/ \E m \in Messages : PeerSends(m)

Next == InCommandBuffer /\ (GsmInputHandler \/ Program \/ Send \/ Modem \/ Peer)

(* The handler is an interrupt, the modem answers, the caller looks for    *)
(* lines again and again; nobody has to send or to hang up.                *)
Spec ==
    /\ Init /\ [][Next]_vars
    /\ WF_vars(InCommandBuffer /\ GsmInputHandler)
    /\ WF_vars(InCommandBuffer /\ Modem)
    /\ WF_vars(InCommandBuffer /\ Program)

-----------------------------------------------------------------------------
(* The peer has sent no '#', the sign that a text for _scGsmBuffer begins. *)
Plain == Hash \notin ToSet(sent)

(* _gsmInputBuffer is written and read inside its bounds whatever arrives. *)
(* _scGsmBuffer has room for the next character as long as the peer sends  *)
(* no '#': the handler never looks at its end, and that each text starts   *)
(* at its beginning is up to resets that the handler may interrupt.        *)
TypeOK ==
    /\ room \in 0 .. MaxLength /\ push \in 0 .. MaxLength
    /\ commandPush \in Nat /\ (Plain => commandPush \in 0 .. CommandLength)
    /\ semGsmCommand \in BOOLEAN /\ commandReceived \in Nat
    /\ count \in 0 .. 9 /\ Len(receivedData) \in 0 .. 9
    /\ modem.at \in {"command", "receive", "send", "prompting", "text"}

(* gsmSSEND never writes its text at a modem that takes commands: what it  *)
(* finds in the buffer is the prompt of this call, whatever else arrives.  *)
TextIntoPrompt == [][pc = "prompt" /\ pc' = "sendWait" => modem.at = "prompting"]_vars

(* As long as peer and program take turns and the peer sends no '#', what  *)
(* gsmExtractReceivedData hands out is what the peer sent, in order and    *)
(* without a gap, a repetition or a character of the protocol; and when    *)
(* all is quiet it was all handed out.                                     *)
Delivered ==
    turns /\ Plain => /\ IsPrefix(extracted, sent)
                      /\ Quiet => extracted = sent

(* And what waits in the modem is handed out some time: the endless wait   *)
(* for the answer ends, and no reset loses an indication.                  *)
Taken == (turns /\ modem.pending # <<>>) ~> (extracted = sent \/ ~Plain)

(* The program learns that the peer has hung up. *)
HangUpNoticed ==
    (turns /\ Plain /\ ~modem.peer) ~> (result = [call |-> "extract", value |-> 0])

(* `If there still is room for another character': the handler drops a     *)
(* character only when the buffer is full of what nobody has read.         *)
DroppedOnlyWhenFull == room = 0 => \A i \in 0 .. MaxLength - 1 : inputBuffer[i] # Nul

-----------------------------------------------------------------------------
(* What a theorem supposes of the buffer (module GsmReceiveProofs).  The   *)
(* room is never given back, so all of the conversation has to fit it: 19  *)
(* characters for each message (its indication, the data and the OK), 5    *)
(* for each text, and the 4 of the hang-up.                                *)
Roomy == MaxLength >= 19 * MaxMessages + 5 * MaxSends + 4
=============================================================================
