------------------------------ MODULE GsmPower ------------------------------
(***************************************************************************)
(* How gsm.c switches the modem on and off: gsmTurnOn and gsmHardReset,    *)
(* which call each other, gsmSoftTurnOff and gsmHardTurnOff, against a     *)
(* modem that may ignore a signal, stay silent, hang, and take its time to *)
(* go down.  The calls are frames of a stack, the newest first.  The pulse *)
(* that switches on lasts 2 s and does nothing to a module that is on; the *)
(* one that switches off lasts 4 s.                                        *)
(***************************************************************************)
EXTENDS Integers, Sequences

CONSTANTS
    MaxFaults,          \* bound: how often the modem fails
    OffReads            \* how often gsmHardTurnOff waits for the power monitor

ASSUME BoundsAssumption == MaxFaults \in Nat /\ OffReads \in Nat

VARIABLES
    power,              \* of the modem: "off", "on" (and listening to commands),
                        \* "online" (on a socket), "hung" or "going" (down)
    stack,              \* the calls in progress: procedure, place, i, maxTries
    result,             \* what the last call returned
    faults              \* how often the modem has failed

powerVars == <<power, stack, result, faults>>

Fails == faults < MaxFaults /\ faults' = faults + 1

-----------------------------------------------------------------------------
(* The modem.                                                              *)

(* gsmReadPwrMon *)
PwrMon == power # "off"

(* gsmCheckIfAnsweringOnATCommand: on a socket, "AT" is sent to the peer. *)
AnsweringOnAT(b) ==
    IF power = "on"
        THEN IF b THEN UNCHANGED faults ELSE Fails
        ELSE ~b /\ UNCHANGED faults

TurnOnPulse ==
    \/ power' = (IF power = "off" THEN "on" ELSE power) /\ UNCHANGED faults
    \/ power = "off" /\ Fails /\ UNCHANGED power

TurnOffPulse ==
    \/ power' = (IF PwrMon THEN "going" ELSE "off") /\ UNCHANGED faults
    \/ PwrMon /\ Fails /\ UNCHANGED power

ResetPulse ==
    \/ power' \in (IF PwrMon THEN {"on", "off"} ELSE {"off"}) /\ UNCHANGED faults
    \/ PwrMon /\ Fails /\ UNCHANGED power

(* AT#SHDN *)
ShutDown ==
    \/ power' = (IF power = "on" THEN "going" ELSE power) /\ UNCHANGED faults
    \/ power = "on" /\ Fails /\ UNCHANGED power

Hang == power \in {"on", "online"} /\ Fails /\ power' = "hung" /\ UNCHANGED <<stack, result>>

GoDown == power = "going" /\ power' = "off" /\ UNCHANGED <<stack, result, faults>>

-----------------------------------------------------------------------------
(* Calls.  A frame keeps, for the properties, the faults before the call.  *)

Frame(proc, tries) == [proc |-> proc, at |-> "begin", i |-> 0, tries |-> tries, from |-> faults]

Me == stack[1]
At(proc, place) == stack # <<>> /\ Me.proc = proc /\ Me.at = place
Become(frame) == stack' = <<frame>> \o Tail(stack) /\ UNCHANGED result
Goto(place) == Become([Me EXCEPT !.at = place])
CallFrom(frame, callee) == stack' = <<callee, frame>> \o Tail(stack) /\ UNCHANGED result
Return(r) == stack' = Tail(stack) /\ result' = r

(* gsmTurnOn.  Whatever the reset between two tries achieves is ignored. *)
TurnOnBegin ==
    /\ At("gsmTurnOn", "begin")
    /\ \E b \in BOOLEAN : AnsweringOnAT(b) /\ IF b THEN Return(2) ELSE Goto("try")
    /\ UNCHANGED power

(* TurnOnLook, without a reset between two tries. *)
TurnOnNoReset ==
    /\ At("gsmTurnOn", "look")
    /\ \E b \in BOOLEAN :
           /\ AnsweringOnAT(b)
           /\ IF b THEN Return(1)
                   ELSE Become([Me EXCEPT !.at = "try", !.i = @ + 1])
    /\ UNCHANGED power

TurnOnTry ==
    /\ At("gsmTurnOn", "try")
    /\ IF Me.i < Me.tries
           THEN TurnOnPulse /\ Goto("look")
           ELSE Return(0) /\ UNCHANGED <<power, faults>>

TurnOnLook ==
    /\ At("gsmTurnOn", "look")
    /\ \E b \in BOOLEAN :
           /\ AnsweringOnAT(b)
           /\ IF b THEN Return(1)
                   ELSE CallFrom([Me EXCEPT !.at = "try", !.i = @ + 1], Frame("gsmHardReset", 0))
    /\ UNCHANGED power

(* gsmHardReset *)
HardReset == At("gsmHardReset", "begin") /\ ResetPulse /\ Goto("look")

HardResetLook ==
    /\ At("gsmHardReset", "look")
    /\ IF PwrMon
           THEN \E b \in BOOLEAN : AnsweringOnAT(b) /\ Return(IF b THEN 1 ELSE 0)
           ELSE /\ CallFrom([Me EXCEPT !.at = "end"], Frame("gsmTurnOn", 1))
                /\ UNCHANGED faults
    /\ UNCHANGED power

HardResetEnd ==
    /\ At("gsmHardReset", "end")
    /\ Return(IF result # 0 THEN 1 ELSE 0)
    /\ UNCHANGED <<power, faults>>

(* gsmSoftTurnOff *)
SoftTurnOffTry ==
    /\ At("gsmSoftTurnOff", "begin")
    /\ IF Me.i >= Me.tries THEN Return(0) /\ UNCHANGED faults
       ELSE IF ~PwrMon THEN Return(1) /\ UNCHANGED faults
       ELSE \E b \in BOOLEAN : AnsweringOnAT(b) /\ IF b THEN Goto("shutdown") ELSE Return(3)
    /\ UNCHANGED power

SoftTurnOffShutDown ==
    /\ At("gsmSoftTurnOff", "shutdown")
    /\ ShutDown
    /\ Become([Me EXCEPT !.at = "begin", !.i = @ + 1])

(* gsmHardTurnOff.  The loop that waits for the power monitor counts with  *)
(* the i of the loop around it.                                            *)
HardTurnOffBegin ==
    /\ At("gsmHardTurnOff", "begin")
    /\ IF PwrMon THEN Goto("try") ELSE Return(2)
    /\ UNCHANGED <<power, faults>>

HardTurnOffTry ==
    /\ At("gsmHardTurnOff", "try")
    /\ IF Me.i < Me.tries
           THEN \E b \in BOOLEAN : AnsweringOnAT(b) /\ IF b THEN Goto("pulse") ELSE Return(3)
           ELSE Goto("end") /\ UNCHANGED faults
    /\ UNCHANGED power

(* HardTurnOffLook, without reading the power monitor. *)
HardTurnOffBlind ==
    /\ At("gsmHardTurnOff", "look")
    /\ Return(1)
    /\ UNCHANGED <<power, faults>>

HardTurnOffPulse == At("gsmHardTurnOff", "pulse") /\ TurnOffPulse /\ Goto("look")

(* HardTurnOffWait, without a limit. *)
HardTurnOffForever ==
    /\ At("gsmHardTurnOff", "wait")
    /\ IF PwrMon THEN Become(Me) ELSE Goto("end")
    /\ UNCHANGED <<power, faults>>

HardTurnOffLook ==
    /\ At("gsmHardTurnOff", "look")
    /\ IF PwrMon THEN Become([Me EXCEPT !.at = "wait", !.i = 0]) ELSE Return(1)
    /\ UNCHANGED <<power, faults>>

HardTurnOffWait ==
    /\ At("gsmHardTurnOff", "wait")
    /\ IF ~PwrMon THEN Goto("end")
       ELSE IF Me.i < OffReads THEN Become([Me EXCEPT !.i = @ + 1])
       ELSE Become([Me EXCEPT !.at = "try", !.i = @ + 1])
    /\ UNCHANGED <<power, faults>>

HardTurnOffEnd ==
    /\ At("gsmHardTurnOff", "end")
    /\ Return(IF PwrMon THEN 0 ELSE 1)
    /\ UNCHANGED <<power, faults>>

PowerStep ==
    \/ TurnOnBegin \/ TurnOnTry \/ TurnOnLook
    \/ HardReset \/ HardResetLook \/ HardResetEnd
    \/ SoftTurnOffTry \/ SoftTurnOffShutDown
    \/ HardTurnOffBegin \/ HardTurnOffTry \/ HardTurnOffPulse
    \/ HardTurnOffLook \/ HardTurnOffWait \/ HardTurnOffEnd
=============================================================================
