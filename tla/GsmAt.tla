--------------------------------- MODULE GsmAt ---------------------------------
(***************************************************************************)
(* An AT command on the wire.  gsmSendAtCommand (gsm.c) first makes the    *)
(* modem answer an AT, which gsmWaitForOk reads for a second, lets the     *)
(* wire settle, sends the command, and its caller waits for the OK with    *)
(* waitForString.  Echoes, answers, late answers and unsolicited lines     *)
(* come on one wire; nothing says what a character belongs to.             *)
(***************************************************************************)
EXTENDS Integers, Sequences

CONSTANTS
    Commands,           \* texts of commands, behind the AT
    Unsolicited,        \* lines the modem sends unasked
    OuterTries,         \* of gsmSendAtCommand (4) ...
    InnerTries,         \* ... and the ATs in each (4)
    WindowLength,       \* characters gsmWaitForOk reads (16)
    RxDepth,            \* characters the UART holds
    MaxFaults,          \* bound: answers lost or late, unsolicited lines
    MaxCalls,           \* bound: commands
    Pending

Cr == "CR"
Lf == "LF"
Char == {"A", "T", "O", "K", "0", "2", "4", "x", Cr, Lf}

ASSUME TextAssumption ==
    /\ Commands \subseteq Seq(Char)
    /\ Unsolicited \subseteq Seq(Char \ {"0"})
    /\ Pending \notin {0, 1}

ASSUME SizeAssumption ==
    /\ OuterTries \in Nat \ {0} /\ InnerTries \in Nat \ {0}
    /\ WindowLength \in Nat \ {0} /\ RxDepth \in Nat \ {0}
    /\ MaxFaults \in Nat /\ MaxCalls \in Nat

VARIABLES
    pc,                 \* "idle", "at", "window", "settle" or "wait"
    i, j,               \* loop counters of gsmSendAtCommand
    tmp,                \* what gsmWaitForOk has read
    wanted, error,      \* how much of the string, of ERRORstring, has come
    told,               \* what the caller was told, Pending during a call
    text,               \* the command
    echo, numeric,      \* settings of the modem: E and V
    inbox,              \* what the modem has yet to answer: text, and of which call
    air, rx,            \* characters on their way, and in the UART
    verdict,            \* history: what the modem did with the command
    faults, calls,
    from                \* history: the faults before this call

loops == <<i, j, tmp>>
matcher == <<wanted, error>>
modem == <<echo, numeric>>
wire == <<inbox, air, rx>>
vars == <<pc, loops, matcher, told, text, modem, wire, verdict, faults, calls, from>>

Fails == faults < MaxFaults /\ faults' = faults + 1

(* Nothing that was sent to the modem is unanswered or on its way. *)
CaughtUp == inbox = <<>> /\ air = <<>>

(* A timer runs out: nothing is to come, or what is to come is late. *)
TimeIsUp == IF CaughtUp THEN UNCHANGED faults ELSE Fails
-------------------------------------------------------------------------------
(* gsmSendAtCommand.                                                       *)

Call ==
    /\ pc = "idle" /\ calls < MaxCalls
    /\ pc' = "at" /\ i' = 0 /\ j' = 0 /\ tmp' = <<>>
    /\ text' \in Commands
    /\ told' = Pending /\ verdict' = "none"
    /\ calls' = calls + 1 /\ from' = faults
    /\ UNCHANGED <<matcher, modem, wire, faults>>

AtEcho == <<"A", "T", Cr>>

(* Clear the buffer, send an AT. *)
SendAt ==
    /\ pc = "at"
    /\ pc' = "window"
    /\ tmp' = <<>>
    /\ inbox' = Append(inbox, [text |-> AtEcho, call |-> 0]) /\ rx' = <<>>
    /\ UNCHANGED <<i, j, matcher, told, text, modem, air, verdict, faults, calls, from>>

(* Without the bound of the buffer. *)
ReadBeyond ==
    /\ pc = "window"
    /\ rx # <<>>
    /\ tmp' = Append(tmp, Head(rx)) /\ rx' = Tail(rx)
    /\ UNCHANGED <<pc, i, j, matcher, told, text, modem, inbox, air, verdict, faults, calls, from>>

(* gsmWaitForOk *)
ReadWindow ==
    /\ pc = "window"
    /\ rx # <<>> /\ Len(tmp) < WindowLength
    /\ tmp' = Append(tmp, Head(rx)) /\ rx' = Tail(rx)
    /\ UNCHANGED <<pc, i, j, matcher, told, text, modem, inbox, air, verdict, faults, calls, from>>

StartsWith(s, t) == Len(t) <= Len(s) /\ SubSeq(s, 1, Len(t)) = t

OkNumeric == <<"0", Cr>>
OkText == <<"O", "K", Cr, Lf>>

(* Without the answers of a modem that echoes. *)
IsBareOk(s) == \E ok \in {OkNumeric, OkText} : StartsWith(s, ok)

(* Of the second only four characters are compared. *)
IsOk(s) ==
    \E ok \in {OkNumeric, AtEcho \o <<"0">>, OkText, AtEcho \o <<Cr, Lf>> \o OkText} :
        StartsWith(s, ok)

GiveUp(answer) ==
    /\ pc' = "idle" /\ told' = answer
    /\ UNCHANGED loops

(* With i never counted. *)
CloseForever ==
    /\ pc = "window"
    /\ \/ Len(tmp) = WindowLength /\ UNCHANGED faults
       \/ Len(tmp) < WindowLength /\ rx = <<>> /\ TimeIsUp
    /\ IF IsOk(tmp) THEN pc' = "settle" /\ UNCHANGED <<loops, told>>
       ELSE /\ pc' = "at" /\ j' = (j + 1) % InnerTries
            /\ UNCHANGED <<i, tmp, told>>
    /\ UNCHANGED <<matcher, text, modem, wire, verdict, calls, from>>

(* The second is over, or the buffer is full. *)
CloseWindow ==
    /\ pc = "window"
    /\ \/ Len(tmp) = WindowLength /\ UNCHANGED faults
       \/ Len(tmp) < WindowLength /\ rx = <<>> /\ TimeIsUp
    /\ IF IsOk(tmp) THEN pc' = "settle" /\ UNCHANGED <<loops, told>>
       ELSE IF j + 1 < InnerTries
           THEN pc' = "at" /\ j' = j + 1 /\ UNCHANGED <<i, tmp, told>>
       ELSE IF i + 1 < OuterTries
           THEN pc' = "at" /\ i' = i + 1 /\ j' = 0 /\ UNCHANGED <<tmp, told>>
       ELSE GiveUp(0)
    /\ UNCHANGED <<matcher, text, modem, wire, verdict, calls, from>>

(* Without the second clearing. *)
SendUncleared ==
    /\ pc = "settle"
    /\ CaughtUp
    /\ pc' = "wait"
    /\ wanted' = 0 /\ error' = 0
    /\ inbox' = Append(inbox, [text |-> <<"A", "T">> \o text, call |-> calls])
    /\ UNCHANGED <<loops, told, text, modem, air, rx, verdict, faults, calls, from>>

(* Wait 100 ms, clear the buffer, send the command.  Assumed of the modem: *)
(* by now it has answered the ATs.                                         *)
SendCommand ==
    /\ pc = "settle"
    /\ CaughtUp
    /\ pc' = "wait"
    /\ wanted' = 0 /\ error' = 0
    /\ inbox' = Append(inbox, [text |-> <<"A", "T">> \o text, call |-> calls]) /\ rx' = <<>>
    /\ UNCHANGED <<loops, told, text, modem, air, verdict, faults, calls, from>>
-------------------------------------------------------------------------------
(* waitForString(OkNumeric, delay).                                        *)

ERRORstring == <<"4", Cr>>

Match(c) == IF c = OkNumeric[wanted + 1] THEN wanted + 1 ELSE 0

(* The count for the error starts again when it is behind the other. *)
MatchError(c) ==
    LET n == IF c = ERRORstring[error + 1] THEN error + 1 ELSE 0
    IN IF n <= Match(c) THEN 0 ELSE n

(* Hear, returning the 1 that nError begins with. *)
HearAny ==
    /\ pc = "wait" /\ rx # <<>>
    /\ rx' = Tail(rx)
    /\ wanted' = Match(Head(rx)) /\ error' = MatchError(Head(rx))
    /\ IF wanted' = Len(OkNumeric) \/ error' = Len(ERRORstring)
           THEN GiveUp(1) ELSE UNCHANGED <<pc, loops, told>>
    /\ UNCHANGED <<text, modem, inbox, air, verdict, faults, calls, from>>

Hear ==
    /\ pc = "wait" /\ rx # <<>>
    /\ rx' = Tail(rx)
    /\ wanted' = Match(Head(rx)) /\ error' = MatchError(Head(rx))
    /\ IF wanted' = Len(OkNumeric) \/ error' = Len(ERRORstring)
           THEN GiveUp(IF error' = 0 THEN 1 ELSE 0)
           ELSE UNCHANGED <<pc, loops, told>>
    /\ UNCHANGED <<text, modem, inbox, air, verdict, faults, calls, from>>

NoAnswer ==
    /\ pc = "wait" /\ rx = <<>>
    /\ TimeIsUp
    /\ GiveUp(0)
    /\ UNCHANGED <<matcher, text, modem, wire, verdict, calls, from>>
-------------------------------------------------------------------------------
(* The modem and the UART.                                                 *)

Code(v) ==
    CASE v = "ok" -> IF numeric THEN OkNumeric ELSE <<Cr, Lf>> \o OkText
      [] v = "error" -> IF numeric THEN ERRORstring ELSE <<Cr, Lf, "x", Cr, Lf>>

Echo(s) == IF echo THEN s ELSE <<>>

(* The modem answers an AT, and carries out a command or refuses it; one   *)
(* of an earlier call may come to its turn late.                           *)
Answer ==
    /\ inbox # <<>>
    /\ inbox' = Tail(inbox)
    /\ LET question == Head(inbox)
       IN \E v \in (IF question.call = 0 THEN {"ok"} ELSE {"ok", "error"}) :
              /\ air' = air \o Echo(question.text) \o Code(v)
              /\ verdict' = IF question.call = calls THEN v ELSE verdict
    /\ UNCHANGED <<pc, loops, matcher, told, text, modem, rx, faults, calls, from>>

Ignore ==
    /\ inbox # <<>> /\ Fails
    /\ inbox' = Tail(inbox)
    /\ UNCHANGED <<pc, loops, matcher, told, text, modem, air, rx, verdict, calls, from>>

Interrupt ==
    /\ Fails
    /\ \E line \in Unsolicited : air' = air \o line
    /\ UNCHANGED <<pc, loops, matcher, told, text, modem, inbox, rx, verdict, calls, from>>

(* Where nobody reads, the UART keeps the first characters. *)
Arrive ==
    /\ air # <<>>
    /\ pc \in {"window", "wait"} => Len(rx) < RxDepth
    /\ air' = Tail(air)
    /\ rx' = IF Len(rx) < RxDepth THEN Append(rx, Head(air)) ELSE rx
    /\ UNCHANGED <<pc, loops, matcher, told, text, modem, inbox, verdict, faults, calls, from>>
-------------------------------------------------------------------------------
Init ==
    /\ pc = "idle" /\ i = 0 /\ j = 0 /\ tmp = <<>>
    /\ wanted = 0 /\ error = 0
    /\ told = 0 /\ text = <<>>
    /\ echo \in BOOLEAN /\ numeric \in BOOLEAN
    /\ inbox = <<>> /\ air = <<>> /\ rx = <<>>
    /\ verdict = "none" /\ faults = 0 /\ calls = 0 /\ from = 0

Program == SendAt \/ ReadWindow \/ CloseWindow \/ SendCommand \/ Hear \/ NoAnswer

Environment == Answer \/ Ignore \/ Interrupt \/ Arrive

Next == Call \/ Program \/ Environment

Spec == Init /\ [][Next]_vars

(* The program goes on; what the modem sends arrives, and it answers what  *)
(* it does not ignore.                                                     *)
FairSpec == Spec /\ WF_vars(Program) /\ WF_vars(Arrive) /\ WF_vars(Answer)
-------------------------------------------------------------------------------
(* Properties.                                                             *)

Text == Seq(Char)

(* Every variable keeps its type: gsmWaitForOk stays in its buffer, the    *)
(* matcher in its strings, the UART in its depth.                          *)
TypeOK ==
    /\ pc \in {"idle", "at", "window", "settle", "wait"}
    /\ i \in 0 .. OuterTries - 1 /\ j \in 0 .. InnerTries - 1
    /\ tmp \in Text /\ Len(tmp) <= WindowLength
    /\ wanted \in 0 .. 2 /\ error \in 0 .. 2
    /\ pc = "wait" => wanted < 2 /\ error < 2
    /\ told \in {Pending, 0, 1} /\ (told = Pending <=> pc # "idle")
    /\ text \in Text
    /\ echo \in BOOLEAN /\ numeric \in BOOLEAN
    /\ inbox \in Seq([text : Text, call : 0 .. MaxCalls])
    /\ air \in Text /\ rx \in Text /\ Len(rx) <= RxDepth
    /\ verdict \in {"none", "ok", "error"}
    /\ faults \in 0 .. MaxFaults /\ calls \in 0 .. MaxCalls /\ from \in 0 .. MaxFaults

(* An OK that is reported belongs to the command that was sent, though     *)
(* nothing on the wire says so: not to an AT, nor to an earlier command.   *)
OwnText == echo /\ \E k \in 1 .. Len(text) : text[k] = "0"

Exchange == INSTANCE AtExchange WITH answersItself <- OwnText

ExchangeSpec == Exchange!Spec

(* gsmSendAtCommand gives up only if something went wrong with every       *)
(* second AT at least; one that is spoilt by a line, or answered too late, *)
(* or by what an earlier command left behind, is made up for by the next.  *)
GivesUpAfter(n) ==
    pc = "window" /\ pc' = "idle" /\ (numeric \/ echo) =>
        n * (faults' + 1) >= OuterTries * InnerTries

GivesUpLate == [][GivesUpAfter(3)]_vars

(* What the theorem about it supposes (module GsmAtProofs).  A window that *)
(* is full has read 16 characters, of which 9 at most answer its own AT:   *)
(* so n windows make up for a line, or a command and its answer, of n      *)
(* times the difference.                                                   *)
MadeUpBy(n) ==
    /\ WindowLength >= 16
    /\ \A line \in Unsolicited : Len(line) <= 7 * n
    /\ \A t \in Commands : Len(t) + 8 <= 7 * n

(* If the modem answers in numbers and nothing goes wrong during the call, *)
(* the caller is told what the modem did.                                  *)
TellsWhatHappened ==
    [][pc # "idle" /\ pc' = "idle" /\ faults' = from /\ numeric /\ ~OwnText =>
           (told' = 1 <=> verdict = "ok")]_vars

(* A call returns, also when lines come in between.                        *)
Returns == pc # "idle" ~> pc = "idle"
===============================================================================
