--------------------------- MODULE GsmSessionProofs ---------------------------
(***************************************************************************)
(* Proofs about modules GsmPower and GsmSession: what the calls on the     *)
(* stack have cost the modem in faults, and what the calls of a session    *)
(* tell their caller, for every number of tries, rules, faults and calls   *)
(* and all settings after a factory reset.                                 *)
(***************************************************************************)
EXTENDS GsmSession, SequenceTheorems, TLAPS

-----------------------------------------------------------------------------
(* Power: the calls on the stack and the faults they have to pay for.      *)

USE BoundsAssumption DEF BoundsAssumption

PowerStates == {"off", "on", "online", "typing", "hung", "going"}
Calls == {"gsmTurnOn", "gsmHardReset", "gsmSoftTurnOff", "gsmHardTurnOff"}
Places == {"begin", "try", "look", "shutdown", "pulse", "wait", "end"}
Frames == [proc : Calls, at : Places, i : Nat, tries : Nat, from : Nat]

PowerTyped ==
    /\ power \in PowerStates
    /\ stack \in Seq(Frames)
    /\ result \in 0 .. 3
    /\ faults \in 0 .. MaxFaults

TurnsOn(f) == f.proc = "gsmTurnOn"
Resets(f) == f.proc = "gsmHardReset"

(* Every try of a gsmTurnOn but the last has cost the modem a fault.       *)
Owed == \A n \in 1 .. Len(stack) :
            TurnsOn(stack[n]) => /\ stack[n].from <= faults
                                 /\ faults - stack[n].from >= stack[n].i - 1

(* So has the last one. *)
Paid == \A n \in 1 .. Len(stack) :
            TurnsOn(stack[n]) => faults - stack[n].from >= stack[n].i

(* Who waits for whom. *)
Nested == \A n \in 2 .. Len(stack) :
              /\ TurnsOn(stack[n]) => /\ stack[n].at = "try" /\ stack[n].i >= 1
                                      /\ Resets(stack[n - 1])
              /\ Resets(stack[n]) => /\ stack[n].at = "end"
                                     /\ TurnsOn(stack[n - 1]) /\ stack[n - 1].tries = 1

(* Unless the modem has paid for the last try too, the call in progress    *)
(* has made it answer, or, in the middle of a reset, has it on or off.     *)
Settled == stack # <<>> /\ ((TurnsOn(Me) /\ Me.i >= 1) \/ (Resets(Me) /\ Me.at = "end"))
Between == stack # <<>> /\ Resets(Me) /\ Me.at = "look"

StackInv ==
    /\ Owed /\ Nested
    /\ Settled => Paid \/ power = "on"
    /\ Between => Paid \/ power \in {"on", "off"}
-----------------------------------------------------------------------------
(* What the ways of leaving a call do to the stack.                        *)

LEMMA MeTyped == ASSUME PowerTyped, stack # <<>>
                 PROVE  Me \in Frames /\ Len(stack) \in Nat \ {0}
BY DEF PowerTyped, Me

LEMMA BecomeShape ==
    ASSUME PowerTyped, stack # <<>>, NEW f \in Frames, Become(f)
    PROVE  /\ stack' \in Seq(Frames) /\ Len(stack') = Len(stack)
           /\ stack'[1] = f /\ \A n \in 2 .. Len(stack) : stack'[n] = stack[n]
           /\ result' = result
<1>1. Tail(stack) \in Seq(Frames) /\ Len(Tail(stack)) = Len(stack) - 1
      /\ \A n \in 1 .. Len(stack) - 1 : Tail(stack)[n] = stack[n + 1]
  BY HeadTailProperties DEF PowerTyped
<1>2. <<f>> \in Seq(Frames) /\ Len(<<f>>) = 1 /\ <<f>>[1] = f
  OBVIOUS
<1>3. stack' = <<f>> \o Tail(stack)
  BY DEF Become
<1>4. stack' \in Seq(Frames) /\ Len(stack') = Len(stack)
      /\ \A n \in 1 .. Len(stack') : stack'[n] = IF n <= 1 THEN <<f>>[n] ELSE Tail(stack)[n - 1]
  BY <1>1, <1>2, <1>3, ConcatProperties, MeTyped
<1> QED BY <1>1, <1>2, <1>4, MeTyped DEF Become

LEMMA CallShape ==
    ASSUME PowerTyped, stack # <<>>, NEW f \in Frames, NEW g \in Frames, CallFrom(f, g)
    PROVE  /\ stack' \in Seq(Frames) /\ Len(stack') = Len(stack) + 1
           /\ stack'[1] = g /\ stack'[2] = f
           /\ \A n \in 3 .. Len(stack) + 1 : stack'[n] = stack[n - 1]
           /\ result' = result
<1>1. Tail(stack) \in Seq(Frames) /\ Len(Tail(stack)) = Len(stack) - 1
      /\ \A n \in 1 .. Len(stack) - 1 : Tail(stack)[n] = stack[n + 1]
  BY HeadTailProperties DEF PowerTyped
<1>2. <<g, f>> \in Seq(Frames) /\ Len(<<g, f>>) = 2 /\ <<g, f>>[1] = g /\ <<g, f>>[2] = f
  OBVIOUS
<1>3. stack' = <<g, f>> \o Tail(stack)
  BY DEF CallFrom
<1>4. stack' \in Seq(Frames) /\ Len(stack') = Len(stack) + 1
      /\ \A n \in 1 .. Len(stack') :
             stack'[n] = IF n <= 2 THEN <<g, f>>[n] ELSE Tail(stack)[n - 2]
  BY <1>1, <1>2, <1>3, ConcatProperties, MeTyped
<1> QED BY <1>1, <1>2, <1>4, MeTyped DEF CallFrom

LEMMA ReturnShape ==
    ASSUME PowerTyped, stack # <<>>, NEW r \in 0 .. 3, Return(r)
    PROVE  /\ stack' \in Seq(Frames) /\ Len(stack') = Len(stack) - 1
           /\ \A n \in 1 .. Len(stack) - 1 : stack'[n] = stack[n + 1]
           /\ result' = r
BY HeadTailProperties DEF PowerTyped, Return

LEMMA FrameTyped ==
    ASSUME PowerTyped, NEW proc \in Calls, NEW tries \in Nat
    PROVE  Frame(proc, tries) \in Frames
BY DEF PowerTyped, Frame, Frames, Places

(* Faults are only ever added. *)
LEMMA FaultsGrow ==
    ASSUME PowerTyped, Fails \/ UNCHANGED faults
    PROVE  faults' \in 0 .. MaxFaults /\ faults' \in {faults, faults + 1}
BY DEF PowerTyped, Fails

(* The frames that the actions put on the stack. *)
LEMMA NextFrames ==
    ASSUME PowerTyped, stack # <<>>
    PROVE  /\ \A where \in Places : [Me EXCEPT !.at = where] \in Frames
           /\ \A where \in Places : [Me EXCEPT !.at = where, !.i = @ + 1] \in Frames
           /\ \A where \in Places : [Me EXCEPT !.at = where, !.i = 0] \in Frames
           /\ [Me EXCEPT !.i = @ + 1] \in Frames
<1>1. \A where \in Places, n \in Nat : [Me EXCEPT !.at = where, !.i = n] \in Frames
  BY MeTyped DEF Frames
<1>2. Me.i + 1 \in Nat
  BY MeTyped DEF Frames
<1>3. \A where \in Places : [Me EXCEPT !.at = where, !.i = @ + 1] \in Frames
  BY <1>1, <1>2
<1> QED BY MeTyped, <1>1, <1>3 DEF Frames

LEMMA GotoShape ==
    ASSUME PowerTyped, stack # <<>>, NEW where \in Places, Goto(where)
    PROVE  /\ stack' \in Seq(Frames) /\ Len(stack') = Len(stack)
           /\ stack'[1] = [Me EXCEPT !.at = where]
           /\ \A n \in 2 .. Len(stack) : stack'[n] = stack[n]
           /\ result' = result
BY NextFrames, BecomeShape DEF Goto

LEMMA PulsesTyped ==
    ASSUME PowerTyped
    PROVE  /\ TurnOnPulse => power' \in PowerStates /\ (Fails \/ UNCHANGED faults)
           /\ TurnOffPulse => power' \in PowerStates /\ (Fails \/ UNCHANGED faults)
           /\ ResetPulse => power' \in PowerStates /\ (Fails \/ UNCHANGED faults)
           /\ ShutDown => power' \in PowerStates /\ (Fails \/ UNCHANGED faults)
           /\ \A b \in BOOLEAN : AnsweringOnAT(b) => Fails \/ UNCHANGED faults
BY DEF PowerTyped, TurnOnPulse, TurnOffPulse, ResetPulse, ShutDown, AnsweringOnAT, PwrMon,
       PowerStates

LEMMA PowerStepTyped ==
    ASSUME PowerTyped, PowerStep
    PROVE  PowerTyped'
<1> SUFFICES /\ power' \in PowerStates /\ stack' \in Seq(Frames)
             /\ result' \in 0 .. 3 /\ faults' \in 0 .. MaxFaults
  BY DEF PowerTyped
<1> stack # <<>>
  BY DEF PowerStep, At, TurnOnBegin, TurnOnTry, TurnOnLook, HardReset, HardResetLook,
         HardResetEnd, SoftTurnOffTry, SoftTurnOffShutDown, HardTurnOffBegin, HardTurnOffTry,
         HardTurnOffPulse, HardTurnOffLook, HardTurnOffWait, HardTurnOffEnd
<1> power \in PowerStates /\ stack \in Seq(Frames) /\ result \in 0 .. 3 /\ faults \in 0 .. MaxFaults
  BY DEF PowerTyped
<1> USE PulsesTyped, FaultsGrow, GotoShape, ReturnShape, NextFrames, BecomeShape DEF Places
<1> Me.i \in Nat /\ Me.tries \in Nat
  BY MeTyped DEF Frames
<1>1. CASE TurnOnBegin
  BY <1>1 DEF TurnOnBegin
<1>2. CASE TurnOnTry
  BY <1>2 DEF TurnOnTry
<1>3. CASE TurnOnLook
  BY <1>3, CallShape, FrameTyped DEF TurnOnLook, Calls
<1>4. CASE HardReset
  BY <1>4 DEF HardReset
<1>5. CASE HardResetLook
  BY <1>5, CallShape, FrameTyped DEF HardResetLook, Calls
<1>6. CASE HardResetEnd
  BY <1>6 DEF HardResetEnd
<1>7. CASE SoftTurnOffTry
  BY <1>7 DEF SoftTurnOffTry
<1>8. CASE SoftTurnOffShutDown
  BY <1>8 DEF SoftTurnOffShutDown
<1>9. CASE HardTurnOffBegin
  BY <1>9 DEF HardTurnOffBegin
<1>10. CASE HardTurnOffTry
  BY <1>10 DEF HardTurnOffTry
<1>11. CASE HardTurnOffPulse
  BY <1>11 DEF HardTurnOffPulse
<1>12. CASE HardTurnOffLook
  BY <1>12 DEF HardTurnOffLook
<1>13. CASE HardTurnOffWait
  BY <1>13 DEF HardTurnOffWait
<1>14. CASE HardTurnOffEnd
  BY <1>14 DEF HardTurnOffEnd
<1> QED BY <1>1, <1>2, <1>3, <1>4, <1>5, <1>6, <1>7, <1>8, <1>9, <1>10, <1>11, <1>12, <1>13,
           <1>14 DEF PowerStep

-----------------------------------------------------------------------------
(* The invariant of the stack, one way of leaving a call after the other.  *)

LEMMA FramesTyped ==
    ASSUME PowerTyped
    PROVE  \A n \in 1 .. Len(stack) :
               /\ stack[n] \in Frames
               /\ stack[n].i \in Nat /\ stack[n].from \in Nat /\ stack[n].tries \in Nat
<1>1. \A n \in 1 .. Len(stack) : stack[n] \in Frames
  BY DEF PowerTyped
<1> QED BY <1>1 DEF Frames

(* The step has paid for the try in progress of every call. *)
PaidAfter == \A n \in 1 .. Len(stack) :
                 TurnsOn(stack[n]) => faults' - stack[n].from >= stack[n].i

LEMMA FaultPays ==
    ASSUME PowerTyped, Owed, faults' = faults + 1
    PROVE  PaidAfter
BY FramesTyped DEF PowerTyped, Owed, PaidAfter

LEMMA FaultsKeepOwed ==
    ASSUME PowerTyped, faults' \in {faults, faults + 1}
    PROVE  /\ Owed => \A n \in 1 .. Len(stack) :
                          TurnsOn(stack[n]) => /\ stack[n].from <= faults'
                                               /\ faults' - stack[n].from >= stack[n].i - 1
           /\ Paid => PaidAfter
BY SMTT(30), FramesTyped DEF PowerTyped, Owed, Paid, PaidAfter

(* The modem that is on and does not answer has failed. *)
LEMMA SilencePays ==
    ASSUME PowerTyped, Owed, Paid \/ power = "on", AnsweringOnAT(FALSE)
    PROVE  PaidAfter /\ faults' \in {faults, faults + 1}
<1>1. faults' \in {faults, faults + 1}
  BY FaultsGrow, PulsesTyped
<1>2. CASE power = "on"
  BY <1>2, FaultPays DEF AnsweringOnAT, Fails
<1> QED BY <1>1, <1>2, FaultsKeepOwed

(* The call in progress goes on. *)
LEMMA BecomeStack ==
    ASSUME PowerTyped, StackInv, stack # <<>>, NEW f \in Frames, Become(f),
           f.proc = Me.proc, f.from = Me.from, f.tries = Me.tries,
           faults' \in {faults, faults + 1},
           TurnsOn(f) => f.i = Me.i,
           (TurnsOn(f) /\ f.i >= 1) \/ (Resets(f) /\ f.at = "end") =>
               PaidAfter \/ power' = "on",
           Resets(f) /\ f.at = "look" => PaidAfter \/ power' \in {"on", "off"}
    PROVE  StackInv'
<1>1. /\ Len(stack') = Len(stack) /\ Len(stack) \in Nat \ {0}
      /\ stack'[1] = f /\ \A n \in 2 .. Len(stack) : stack'[n] = stack[n]
  BY BecomeShape, MeTyped
<1>2. Owed'
  BY <1>1, FaultsKeepOwed DEF Owed, StackInv, Me, TurnsOn
<1>3. Nested'
  BY <1>1 DEF Nested, StackInv, TurnsOn, Resets, Me
<1>7. PaidAfter => Paid'
  BY <1>1 DEF Paid, PaidAfter, Me, TurnsOn
<1>4. Me' = f
  BY <1>1 DEF Me
<1>5. (Settled => Paid \/ power = "on")'
  BY <1>4, <1>7 DEF Settled, TurnsOn, Resets
<1>6. (Between => Paid \/ power \in {"on", "off"})'
  BY <1>4, <1>7 DEF Between, Resets
<1> QED BY <1>2, <1>3, <1>5, <1>6 DEF StackInv

LEMMA GotoStack ==
    ASSUME PowerTyped, StackInv, stack # <<>>, NEW where \in Places, Goto(where),
           faults' \in {faults, faults + 1},
           TurnsOn(Me) /\ Me.i >= 1 => PaidAfter \/ power' = "on",
           Resets(Me) /\ where = "end" => PaidAfter \/ power' = "on",
           Resets(Me) /\ where = "look" => PaidAfter \/ power' \in {"on", "off"}
    PROVE  StackInv'
<1> DEFINE f == [Me EXCEPT !.at = where]
<1>1. /\ f \in Frames /\ f.proc = Me.proc /\ f.from = Me.from /\ f.tries = Me.tries
      /\ f.i = Me.i /\ f.at = where
  BY NextFrames, MeTyped DEF Frames
<1>2. Become(f)
  BY DEF Goto
<1> HIDE DEF f
<1> QED BY <1>1, <1>2, BecomeStack DEF TurnsOn, Resets

(* The call in progress returns; the one that waits for it goes on. *)
LEMMA ReturnStack ==
    ASSUME PowerTyped, StackInv, stack # <<>>, NEW r \in 0 .. 3, Return(r),
           faults' \in {faults, faults + 1},
           (TurnsOn(Me) /\ Me.tries >= 1) \/ Resets(Me) =>
               PaidAfter \/ power' = "on"
    PROVE  StackInv'
<1>1. /\ Len(stack') = Len(stack) - 1 /\ Len(stack) \in Nat \ {0}
      /\ \A n \in 1 .. Len(stack) - 1 : stack'[n] = stack[n + 1]
      /\ stack' \in Seq(Frames)
  BY ReturnShape, MeTyped
<1>2. Owed'
  BY <1>1, FaultsKeepOwed DEF Owed, StackInv
<1>3. Nested'
  <2> SUFFICES ASSUME NEW n \in 2 .. Len(stack')
               PROVE  /\ TurnsOn(stack'[n]) => /\ stack'[n].at = "try" /\ stack'[n].i >= 1
                                               /\ Resets(stack'[n - 1])
                      /\ Resets(stack'[n]) => /\ stack'[n].at = "end" /\ TurnsOn(stack'[n - 1])
                                              /\ stack'[n - 1].tries = 1
    BY DEF Nested, TurnsOn, Resets
  <2>1. n + 1 \in 2 .. Len(stack) /\ stack'[n] = stack[n + 1] /\ stack'[n - 1] = stack[(n + 1) - 1]
    BY <1>1
  <2> QED BY <2>1 DEF Nested, StackInv
<1>4. ASSUME stack' # <<>>
      PROVE  /\ Me' = stack[2] /\ 2 \in 2 .. Len(stack)
             /\ TurnsOn(Me') => Resets(Me)
             /\ Resets(Me') => Me'.at = "end" /\ TurnsOn(Me) /\ Me.tries = 1
  <2>1. Len(stack') >= 1
    BY <1>1, <1>4
  <2>2. Me' = stack[2] /\ 2 \in 2 .. Len(stack)
    BY <1>1, <2>1 DEF Me
  <2> QED BY <2>2 DEF Nested, StackInv, Me
<1>5. ASSUME stack' # <<>>, TurnsOn(Me') \/ Resets(Me')
      PROVE  Paid' \/ power' = "on"
  <2>1. (TurnsOn(Me) /\ Me.tries >= 1) \/ Resets(Me)
    BY <1>4, <1>5
  <2>2. CASE PaidAfter
    BY <1>1, <2>2 DEF Paid, PaidAfter, TurnsOn
  <2> QED BY <2>1, <2>2
<1>6. (Settled => Paid \/ power = "on")'
  BY <1>5 DEF Settled
<1>7. ~Between'
  BY <1>4 DEF Between
<1> QED BY <1>2, <1>3, <1>6, <1>7 DEF StackInv

(* The call in progress calls another. *)
LEMMA CallStack ==
    ASSUME PowerTyped, StackInv, stack # <<>>, NEW f \in Frames, NEW g \in Frames, CallFrom(f, g),
           f.proc = Me.proc, f.from = Me.from, f.tries = Me.tries,
           faults' \in {faults, faults + 1},
           TurnsOn(f) => f.from <= faults' /\ faults' - f.from >= f.i - 1 /\ f.at = "try" /\ f.i >= 1 /\ Resets(g),
           Resets(f) => f.at = "end" /\ TurnsOn(g) /\ g.tries = 1,
           g.at = "begin", g.i = 0, g.from = faults
    PROVE  StackInv'
<1>1. /\ Len(stack') = Len(stack) + 1 /\ Len(stack) \in Nat \ {0}
      /\ stack'[1] = g /\ stack'[2] = f
      /\ \A n \in 3 .. Len(stack) + 1 : stack'[n] = stack[n - 1]
      /\ stack' # <<>>
  BY CallShape, MeTyped
<1>2. faults \in Nat
  BY DEF PowerTyped
<1>3. Owed'
  <2> SUFFICES ASSUME NEW n \in 1 .. Len(stack'), TurnsOn(stack'[n])
               PROVE  /\ stack'[n].from <= faults'
                      /\ faults' - stack'[n].from >= stack'[n].i - 1
    BY DEF Owed, TurnsOn
  <2>1. CASE n = 1
    BY <1>1, <1>2, <2>1
  <2>2. CASE n = 2
    BY <1>1, <2>2
  <2>3. CASE n \in 3 .. Len(stack) + 1
    BY <1>1, <2>3, FaultsKeepOwed DEF StackInv
  <2> QED BY <1>1, <2>1, <2>2, <2>3
<1>4. Nested'
  <2> SUFFICES ASSUME NEW n \in 2 .. Len(stack')
               PROVE  /\ TurnsOn(stack'[n]) => /\ stack'[n].at = "try" /\ stack'[n].i >= 1
                                               /\ Resets(stack'[n - 1])
                      /\ Resets(stack'[n]) => /\ stack'[n].at = "end" /\ TurnsOn(stack'[n - 1])
                                              /\ stack'[n - 1].tries = 1
    BY DEF Nested, TurnsOn, Resets
  <2>1. CASE n = 2
    BY <1>1, <2>1
  <2>2. CASE n = 3
    <3>1. stack'[n] = stack[2] /\ stack'[n - 1] = f /\ 2 \in 2 .. Len(stack)
      BY <1>1, <2>2
    <3>2. /\ TurnsOn(stack[2]) => stack[2].at = "try" /\ stack[2].i >= 1 /\ Resets(Me)
          /\ Resets(stack[2]) => stack[2].at = "end" /\ TurnsOn(Me) /\ Me.tries = 1
      BY <3>1 DEF Nested, StackInv, Me
    <3> QED BY <3>1, <3>2 DEF TurnsOn, Resets
  <2>3. CASE n \in 4 .. Len(stack) + 1
    <3>1. /\ n - 1 \in 2 .. Len(stack) /\ stack'[n] = stack[n - 1]
          /\ stack'[n - 1] = stack[(n - 1) - 1]
      BY <1>1, <2>3
    <3> QED BY <3>1 DEF Nested, StackInv
  <2> QED BY <1>1, <2>1, <2>2, <2>3
<1>5. Me' = g
  BY <1>1 DEF Me
<1> QED BY <1>3, <1>4, <1>5 DEF StackInv, Settled, Between

(* A try that the modem does not answer costs it a fault, unless it was    *)
(* not on.                                                                 *)
LEMMA PowerStepStack ==
    ASSUME PowerTyped, StackInv, PowerStep
    PROVE  StackInv'
<1> stack # <<>>
  BY DEF PowerStep, At, TurnOnBegin, TurnOnTry, TurnOnLook, HardReset, HardResetLook,
         HardResetEnd, SoftTurnOffTry, SoftTurnOffShutDown, HardTurnOffBegin, HardTurnOffTry,
         HardTurnOffPulse, HardTurnOffLook, HardTurnOffWait, HardTurnOffEnd
<1> power \in PowerStates /\ stack \in Seq(Frames) /\ result \in 0 .. 3 /\ faults \in 0 .. MaxFaults
  BY DEF PowerTyped
<1> /\ Me \in Frames /\ Me.i \in Nat /\ Me.tries \in Nat /\ Me.from \in Nat
    /\ TurnsOn(Me) => Me.from <= faults /\ faults - Me.from >= Me.i - 1
    /\ (TurnsOn(Me) /\ Me.i >= 1) \/ (Resets(Me) /\ Me.at = "end") => Paid \/ power = "on"
    /\ Resets(Me) /\ Me.at = "look" => Paid \/ power \in {"on", "off"}
  BY MeTyped, FramesTyped DEF StackInv, Owed, Settled, Between, Me
<1>1. CASE TurnOnBegin
  <2>1. At("gsmTurnOn", "begin")
    BY <1>1 DEF TurnOnBegin
  <2>2. CASE AnsweringOnAT(TRUE) /\ Return(2)
    BY <1>1, <2>2, ReturnStack DEF TurnOnBegin, AnsweringOnAT
  <2>3. CASE AnsweringOnAT(FALSE) /\ Goto("try")
    <3>1. Me.i >= 1 => PaidAfter
      BY <2>1, <2>3, SilencePays DEF StackInv, At, TurnsOn
    <3>2. faults' \in {faults, faults + 1}
      BY <2>3, PulsesTyped, FaultsGrow
    <3> QED BY <2>3, <3>1, <3>2, GotoStack DEF Places
  <2> QED BY <1>1, <2>2, <2>3 DEF TurnOnBegin
<1>2. CASE TurnOnTry
  <2>1. At("gsmTurnOn", "try") /\ TurnsOn(Me) /\ ~Resets(Me)
    BY <1>2 DEF TurnOnTry, At, TurnsOn, Resets
  <2>2. CASE TurnOnPulse /\ Goto("look")
    <3>1. faults' \in {faults, faults + 1}
      BY <2>2, PulsesTyped, FaultsGrow
    <3>2. Me.i >= 1 => PaidAfter \/ power' = "on"
      BY <2>1, <2>2, <3>1, FaultsKeepOwed DEF TurnOnPulse
    <3> QED BY <2>1, <2>2, <3>1, <3>2, GotoStack DEF Places
  <2>3. CASE Me.i >= Me.tries /\ Return(0) /\ UNCHANGED <<power, faults>>
    <3>1. TurnsOn(Me) /\ Me.tries >= 1 => PaidAfter \/ power' = "on"
      BY <2>3, FaultsKeepOwed
    <3> QED BY <2>1, <2>3, <3>1, ReturnStack
  <2> QED BY <1>2, <2>2, <2>3 DEF TurnOnTry
<1>3. CASE TurnOnLook
  <2>1. At("gsmTurnOn", "look") /\ TurnsOn(Me) /\ ~Resets(Me)
    BY <1>3 DEF TurnOnLook, At, TurnsOn, Resets
  <2>2. CASE AnsweringOnAT(TRUE) /\ Return(1)
    BY <1>3, <2>2, ReturnStack DEF TurnOnLook, AnsweringOnAT
  <2> DEFINE f == [Me EXCEPT !.at = "try", !.i = @ + 1]
             g == Frame("gsmHardReset", 0)
  <2>3. CASE AnsweringOnAT(FALSE) /\ CallFrom(f, g)
    <3>1. /\ f \in Frames /\ f.proc = Me.proc /\ f.from = Me.from /\ f.tries = Me.tries
          /\ f.i = Me.i + 1 /\ f.at = "try"
      BY NextFrames DEF Frames, Places
    <3>2. /\ g \in Frames /\ Resets(g) /\ g.at = "begin" /\ g.i = 0 /\ g.from = faults
      BY FrameTyped DEF Calls, Frame, Resets
    <3>3. CallFrom(f, g) /\ faults' \in {faults, faults + 1}
      BY <2>3, PulsesTyped, FaultsGrow
    <3>4. faults' - Me.from >= Me.i
      <4>1. CASE Me.i = 0
        BY <4>1, <2>1, <3>3
      <4>2. CASE Me.i >= 1
        <5>1. PaidAfter
          BY <2>1, <2>3, <4>2, SilencePays DEF StackInv
        <5> QED BY <2>1, <5>1, MeTyped DEF PaidAfter, Me
      <4> QED BY <4>1, <4>2
    <3>5. ~Resets(f)
      BY <2>1, <3>1 DEF Resets
    <3> HIDE DEF f, g
    <3> QED BY <3>1, <3>2, <3>3, <3>4, <3>5, CallStack
  <2> QED BY <1>3, <2>2, <2>3 DEF TurnOnLook
<1>4. CASE HardReset
  <2>1. At("gsmHardReset", "begin") /\ ~TurnsOn(Me) /\ ResetPulse /\ Goto("look")
    BY <1>4 DEF HardReset, At, TurnsOn
  <2>2. faults' \in {faults, faults + 1}
    BY <2>1, PulsesTyped, FaultsGrow
  <2>3. PaidAfter \/ power' \in {"on", "off"}
    BY <2>1, FaultPays DEF ResetPulse, Fails, StackInv
  <2> QED BY <2>1, <2>2, <2>3, GotoStack DEF Places
<1>5. CASE HardResetLook
  <2>1. At("gsmHardReset", "look") /\ Resets(Me) /\ ~TurnsOn(Me) /\ Me.at = "look"
    BY <1>5 DEF HardResetLook, At, Resets, TurnsOn
  <2>2. ASSUME PwrMon, NEW b \in BOOLEAN, AnsweringOnAT(b), Return(IF b THEN 1 ELSE 0)
        PROVE  StackInv'
    <3>1. Paid \/ power = "on"
      BY <2>1, <2>2 DEF PwrMon
    <3>2. UNCHANGED power
      BY <1>5 DEF HardResetLook
    <3>3. faults' \in {faults, faults + 1}
      BY <2>2, PulsesTyped, FaultsGrow
    <3>4. CASE b
      BY <2>2, <3>2, <3>3, <3>4, ReturnStack DEF AnsweringOnAT
    <3>5. CASE ~b
      <4>1. AnsweringOnAT(FALSE) /\ Return(0)
        BY <2>2, <3>5
      <4> QED BY <3>1, <3>3, <4>1, SilencePays, ReturnStack DEF StackInv
    <3> QED BY <3>4, <3>5
  <2> DEFINE f == [Me EXCEPT !.at = "end"]
             g == Frame("gsmTurnOn", 1)
  <2>3. CASE CallFrom(f, g) /\ UNCHANGED faults
    <3>1. /\ f \in Frames /\ f.proc = Me.proc /\ f.from = Me.from /\ f.tries = Me.tries
          /\ f.at = "end"
      BY NextFrames DEF Frames, Places
    <3>2. /\ g \in Frames /\ TurnsOn(g) /\ g.tries = 1 /\ g.at = "begin" /\ g.i = 0
          /\ g.from = faults
      BY FrameTyped DEF Calls, Frame, TurnsOn
    <3>3. ~TurnsOn(f) /\ CallFrom(f, g) /\ faults' \in {faults, faults + 1}
      BY <2>1, <2>3, <3>1 DEF TurnsOn
    <3> HIDE DEF f, g
    <3> QED BY <3>1, <3>2, <3>3, CallStack
  <2> QED BY <1>5, <2>2, <2>3 DEF HardResetLook
<1>6. CASE HardResetEnd
  <2>1. At("gsmHardReset", "end") /\ Resets(Me) /\ Me.at = "end" /\ UNCHANGED <<power, faults>>
        /\ Return(IF result # 0 THEN 1 ELSE 0)
    BY <1>6 DEF HardResetEnd, At, Resets
  <2>2. PaidAfter \/ power' = "on"
    BY <2>1, FaultsKeepOwed
  <2> QED BY <2>1, <2>2, ReturnStack
<1>7. ASSUME ~TurnsOn(Me), ~Resets(Me) PROVE StackInv'
  <2> USE <1>7, PulsesTyped, FaultsGrow, GotoStack, ReturnStack DEF Places
  <2>1. CASE SoftTurnOffTry
    BY <2>1 DEF SoftTurnOffTry
  <2>2. CASE SoftTurnOffShutDown
    <3> DEFINE f == [Me EXCEPT !.at = "begin", !.i = @ + 1]
    <3>1. /\ f \in Frames /\ f.proc = Me.proc /\ f.from = Me.from /\ f.tries = Me.tries
          /\ Become(f) /\ faults' \in {faults, faults + 1}
      BY <2>2, NextFrames DEF Frames, SoftTurnOffShutDown
    <3> HIDE DEF f
    <3> QED BY <3>1, BecomeStack DEF TurnsOn, Resets
  <2>3. CASE HardTurnOffBegin
    BY <2>3 DEF HardTurnOffBegin
  <2>4. CASE HardTurnOffTry
    BY <2>4 DEF HardTurnOffTry
  <2>5. CASE HardTurnOffPulse
    BY <2>5 DEF HardTurnOffPulse
  <2>6. CASE HardTurnOffLook
    <3> DEFINE f == [Me EXCEPT !.at = "wait", !.i = 0]
    <3>1. /\ f \in Frames /\ f.proc = Me.proc /\ f.from = Me.from /\ f.tries = Me.tries
          /\ faults' = faults /\ (Become(f) \/ Return(1))
      BY <2>6, NextFrames DEF Frames, HardTurnOffLook
    <3> HIDE DEF f
    <3> QED BY <3>1, BecomeStack DEF TurnsOn, Resets
  <2>7. CASE HardTurnOffWait
    <3> DEFINE f == [Me EXCEPT !.i = @ + 1]
               g == [Me EXCEPT !.at = "try", !.i = @ + 1]
    <3>1. /\ f \in Frames /\ f.proc = Me.proc /\ f.from = Me.from /\ f.tries = Me.tries
          /\ g \in Frames /\ g.proc = Me.proc /\ g.from = Me.from /\ g.tries = Me.tries
          /\ faults' = faults /\ (Become(f) \/ Become(g) \/ Goto("end"))
      BY <2>7, NextFrames DEF Frames, HardTurnOffWait
    <3> HIDE DEF f, g
    <3> QED BY <3>1, BecomeStack DEF TurnsOn, Resets
  <2>8. CASE HardTurnOffEnd
    BY <2>8 DEF HardTurnOffEnd
  <2> QED BY <2>1, <2>2, <2>3, <2>4, <2>5, <2>6, <2>7, <2>8, <1>1, <1>2, <1>3, <1>4, <1>5, <1>6
          DEF PowerStep
<1> QED BY <1>1, <1>2, <1>3, <1>4, <1>5, <1>6, <1>7 DEF PowerStep, At, TurnsOn, Resets,
           SoftTurnOffTry, SoftTurnOffShutDown, HardTurnOffBegin, HardTurnOffTry,
           HardTurnOffPulse, HardTurnOffLook, HardTurnOffWait, HardTurnOffEnd

-----------------------------------------------------------------------------
(* What a call tells its caller.                                           *)

LEMMA TailIsShorter ==
    ASSUME PowerTyped, stack # <<>>
    PROVE  /\ stack # Tail(stack)
           /\ \A f \in Frames : Become(f) => stack' # Tail(stack)
           /\ \A f, g \in Frames : CallFrom(f, g) => stack' # Tail(stack)
           /\ \A where \in Places : Goto(where) => stack' # Tail(stack)
<1>1. Len(Tail(stack)) = Len(stack) - 1 /\ Len(stack) \in Nat \ {0}
  BY HeadTailProperties, MeTyped DEF PowerTyped
<1>2. \A f \in Frames : Become(f) => Len(stack') = Len(stack)
  BY BecomeShape
<1>3. \A f, g \in Frames : CallFrom(f, g) => Len(stack') = Len(stack) + 1
  BY CallShape
<1>4. \A where \in Places : Goto(where) => Len(stack') = Len(stack)
  BY GotoShape
<1>5. Len(stack) # Len(stack) - 1 /\ Len(stack) + 1 # Len(stack) - 1
  <2>1. Len(stack) \in Nat
    BY MeTyped
  <2> QED BY <2>1
<1>6. stack # Tail(stack)
  BY <1>1, <1>5, Zenon
<1>7. \A f \in Frames : Become(f) => stack' # Tail(stack)
  BY <1>1, <1>2, <1>5, Zenon
<1>8. \A f, g \in Frames : CallFrom(f, g) => stack' # Tail(stack)
  BY <1>1, <1>3, <1>5, Zenon
<1>9. \A where \in Places : Goto(where) => stack' # Tail(stack)
  BY <1>1, <1>4, <1>5, Zenon
<1> QED BY <1>6, <1>7, <1>8, <1>9, Zenon

LEMMA ReturnTells ==
    ASSUME PowerTyped, StackInv, PowerStep, stack' = Tail(stack)
    PROVE  /\ Me.proc = "gsmTurnOn" /\ result' > 0 => power' = "on"
           /\ Me.proc = "gsmTurnOn" /\ result' = 0 => faults' - Me.from >= Me.tries - 1
           /\ Me.proc = "gsmSoftTurnOff" /\ result' = 1 => power' = "off"
           /\ Me.proc = "gsmHardTurnOff" =>
                  (result' \in {1, 2} <=> power' = "off") \/ result' = 3
<1> stack # <<>>
  BY DEF PowerStep, At, TurnOnBegin, TurnOnTry, TurnOnLook, HardReset, HardResetLook,
         HardResetEnd, SoftTurnOffTry, SoftTurnOffShutDown, HardTurnOffBegin, HardTurnOffTry,
         HardTurnOffPulse, HardTurnOffLook, HardTurnOffWait, HardTurnOffEnd
<1> Me.i \in Nat /\ Me.tries \in Nat /\ Me.from \in Nat /\ faults \in Nat
  BY FramesTyped, MeTyped DEF Frames, PowerTyped
<1> USE TailIsShorter, NextFrames DEF Places, Return, At
<1>1. CASE TurnOnBegin
  BY <1>1 DEF TurnOnBegin, AnsweringOnAT
<1>2. CASE TurnOnTry
  <2>1. /\ Me.proc = "gsmTurnOn" /\ Me.i >= Me.tries /\ result' = 0 /\ faults' = faults
    BY <1>2 DEF TurnOnTry
  <2>2. faults - Me.from >= Me.i - 1
    BY SMTT(30), <2>1, MeTyped DEF StackInv, Owed, TurnsOn, Me
  <2> QED BY SMTT(30), <2>1, <2>2
<1>3. CASE TurnOnLook
  BY <1>3, FrameTyped DEF TurnOnLook, AnsweringOnAT, Calls
<1>4. CASE HardReset
  BY <1>4 DEF HardReset
<1>5. CASE HardResetLook
  BY <1>5 DEF HardResetLook
<1>6. CASE HardResetEnd
  BY <1>6 DEF HardResetEnd
<1>7. CASE SoftTurnOffTry
  BY <1>7 DEF SoftTurnOffTry, PwrMon
<1>8. CASE SoftTurnOffShutDown
  BY <1>8 DEF SoftTurnOffShutDown
<1>9. CASE HardTurnOffBegin
  BY <1>9 DEF HardTurnOffBegin, PwrMon
<1>10. CASE HardTurnOffTry
  BY <1>10 DEF HardTurnOffTry
<1>11. CASE HardTurnOffPulse
  BY <1>11 DEF HardTurnOffPulse
<1>12. CASE HardTurnOffLook
  BY <1>12 DEF HardTurnOffLook, PwrMon
<1>13. CASE HardTurnOffWait
  BY <1>13 DEF HardTurnOffWait
<1>14. CASE HardTurnOffEnd
  BY <1>14 DEF HardTurnOffEnd, PwrMon
<1> QED BY <1>1, <1>2, <1>3, <1>4, <1>5, <1>6, <1>7, <1>8, <1>9, <1>10, <1>11, <1>12, <1>13,
           <1>14 DEF PowerStep

(* A modem that is on stays on unless a call or a fault changes it.        *)
LEMMA EnvironmentStack ==
    ASSUME PowerTyped, StackInv, UNCHANGED <<stack, result>>, power' \in PowerStates,
           Fails \/ UNCHANGED faults,
           \/ Fails
           \/ power \in {"on", "off"} /\ power' = power
           \/ power \notin {"on", "off"}
    PROVE  PowerTyped' /\ StackInv'
<1>1. PowerTyped' /\ faults' \in {faults, faults + 1}
  BY FaultsGrow DEF PowerTyped
<1>2. Owed'
  BY <1>1, FaultsKeepOwed DEF StackInv, Owed, TurnsOn
<1>3. Nested'
  BY DEF StackInv, Nested, TurnsOn, Resets
<1>4. Me' = Me /\ (Settled' <=> Settled) /\ (Between' <=> Between)
  BY DEF Me, Settled, Between, TurnsOn, Resets
<1>5. PaidAfter => Paid'
  BY DEF PaidAfter, Paid, TurnsOn
<1>6. CASE Fails
  <2>1. faults' = faults + 1 /\ Owed
    BY <1>6 DEF Fails, StackInv
  <2>2. Paid'
    BY <1>5, <2>1, FaultPays
  <2> QED BY <1>1, <1>2, <1>3, <2>2 DEF StackInv
<1>7. CASE power' = power \/ power \notin {"on", "off"}
  BY <1>1, <1>2, <1>3, <1>4, <1>5, <1>7, FaultsKeepOwed DEF StackInv
<1> QED BY <1>6, <1>7

HIDE BoundsAssumption

-----------------------------------------------------------------------------
(* What the programs are made of.                                          *)

LEMMA InitLayout ==
    LET p == Programs["gsm_init"]
    IN    /\ Len(p) = 24
          /\ p[1] = TurnOnStep /\ p[2] = gsmResetModuleToFactoryDefault /\ p[3] = ResultFormat
          /\ p[4] = setCommandEchoMode /\ p[5] = gsmEnableResultCodeLevel /\ p[6] = gsmSetIPR
          /\ p[7] = gsmSetFlowControl /\ p[8] = gsmSetCommandLevel /\ p[9] = gsmSetErrorLevel
          /\ p[10] = gsmUpdateTimeFromGsmNetwork /\ p[11] = gsm_get_imei /\ p[12] = gsm_get_imsi
          /\ p[13] = gsmSetTeCharacterSet /\ p[14] = gsmSetTcpReassembly /\ p[15] = gsmSetUserId
          /\ p[16] = gsmSetUserPassword /\ p[17] = gsmSetIcmp /\ p[18] = gsmStoreInProfile0
          /\ p[19] = gsmSetFirewallInit /\ p[20] = gsmInitGprs /\ p[21] = gsmSetEmailConfig
          /\ p[22] = InitiatedCheck /\ p[23] = gsmConnectedToMobileNetwork(10, "note") /\ p[24] = gsmEstablishGPRS("note")
BY DEF Programs, Contact, Settings, Network

LEMMA ConnectLayout ==
    LET p == Programs["gsm_connect_and_download_firmware"]
    IN /\ Len(p) = 4
       /\ p[1] = gsmConnectedToMobileNetwork(1, "fatal") /\ p[2] = gsmEstablishGPRS("fatal")
       /\ p[3] = Do("CONNECTED_TO_SERVER", "dial", 2, "fatal")
       /\ p[4] = Do("GOT_HTTP", "download", 1, "fatal")
BY DEF Programs, Connect

OneStepPrograms ==
    {"gsmSuspendSocket", "gsmResumeSocketConnection", "gsmCloseSocket", "gsmCheckGprsEstablished",
     "gsmCloseGPRS", "gsmConnectToServer_Multi", "gsmSetClock", "gsmEmailString"}

LEMMA ProgramNames ==
    DOMAIN Programs =
        {"gsm_init", "gsm_connect_and_download_firmware"} \cup OneStepPrograms
BY DEF Programs, OneStepPrograms

LEMMA OneStepLayout ==
    /\ \A p \in OneStepPrograms : Len(Programs[p]) = 1
    /\ Programs["gsmSuspendSocket"][1] = Do("suspend", "suspend", 2, "result")
    /\ Programs["gsmResumeSocketConnection"][1] = Do("resume", "resume", 2, "result")
    /\ Programs["gsmCloseSocket"][1] = Do("close", "closeSocket", 2, "result")
    /\ Programs["gsmCheckGprsEstablished"][1] = Do("GPRS_INITIATED", "checkGprs", 10, "fatal")
    /\ Programs["gsmCloseGPRS"][1] = Do("close", "closeGprs", 10, "result")
    /\ Programs["gsmConnectToServer_Multi"][1] = Do("connect", "dial", 4, "result")
    /\ Programs["gsmSetClock"][1] = gsmSetClock
    /\ Programs["gsmEmailString"][1] = Do("mail", "mail", 10, "result")
BY DEF Programs, OneStepPrograms

(* The place of each procedure, and what is taken for granted of its step. *)
ShapeOf(p, n, s) ==
    /\ s.procedure # "power" => s.tries \in 1 .. 10
    /\ s.failure \in IF p = "gsm_init" THEN {"fatal", "note", "ignore"}
                    ELSE IF p \in {"gsm_connect_and_download_firmware", "gsmCheckGprsEstablished"}
                         THEN {"fatal"} ELSE {"result"}
    /\ s.procedure = "power" <=> p = "gsm_init" /\ n = 1
    /\ s.procedure = "factory" <=> p = "gsm_init" /\ n = 2
    /\ s.procedure = "firewall" <=> p = "gsm_init" /\ n = 19
    /\ s.procedure = "attach" <=> (p = "gsm_init" /\ n = 23) \/
                                  (p = "gsm_connect_and_download_firmware" /\ n = 1)
    /\ s.procedure = "establish" <=> (p = "gsm_init" /\ n = 24) \/
                                     (p = "gsm_connect_and_download_firmware" /\ n = 2)
    /\ s.procedure = "dial" <=> (p = "gsm_connect_and_download_firmware" /\ n = 3) \/
                                p = "gsmConnectToServer_Multi"
    /\ s.procedure = "download" => p = "gsm_connect_and_download_firmware" /\ n = 4
    /\ s.procedure = "suspend" <=> p = "gsmSuspendSocket"
    /\ s.procedure = "resume" <=> p = "gsmResumeSocketConnection"
    /\ s.procedure = "closeSocket" <=> p = "gsmCloseSocket"
    /\ s.procedure = "closeGprs" <=> p = "gsmCloseGPRS"
    /\ s.procedure = "checkGprs" <=> p = "gsmCheckGprsEstablished"
    /\ s.procedure = "mail" <=> p = "gsmEmailString"
    /\ s.procedure = "number" => p = "gsm_init"
    /\ s.procedure = "firewall" => s.tries = FirewallTries /\ s.failure = "note"
    /\ s.procedure = "establish" => s.tries = EstablishTries
    /\ s.procedure = "power" => s.failure = "fatal"
    /\ s.procedure = "factory" => s.failure = "ignore"
    /\ p = "gsm_init" /\ n \in {23, 24} => s.failure = "note"
    /\ s.procedure = "attach" /\ p # "gsm_init" => s.tries = 1
    /\ s.name = "CONNECTED_TO_MOBILE_NETWORK" <=> s.procedure = "attach"
    /\ s.name # "ATCIND_COMMAND_RUNNED"
    /\ s.procedure = "errorLevel" <=> s.name = "ERROR_LEVEL_SET"
    /\ s.procedure = "errorLevel" => s.failure = "fatal" /\ n > 1

LEMMA InitShape == \A n \in 1 .. 24 : ShapeOf("gsm_init", n, Programs["gsm_init"][n])
<1> SUFFICES ASSUME NEW n \in 1 .. 24
             PROVE  ShapeOf("gsm_init", n, Programs["gsm_init"][n])
  OBVIOUS
<1>1. n \in {1, 2, 3, 4, 5, 6, 7, 8, 9, 10, 11, 12,
              13, 14, 15, 16, 17, 18, 19, 20, 21, 22, 23, 24}
  OBVIOUS
<1> QED
  BY <1>1, InitLayout, ModemAssumption
    DEF Do, InitiatedCheck, ResultFormat, TurnOnStep, gsmConnectedToMobileNetwork,
        gsmEnableResultCodeLevel, gsmEstablishGPRS, gsmInitGprs,
        gsmResetModuleToFactoryDefault, gsmSetCommandLevel, gsmSetEmailConfig,
        gsmSetErrorLevel, gsmSetFirewallInit, gsmSetFlowControl, gsmSetIPR, gsmSetIcmp,
        gsmSetTcpReassembly, gsmSetTeCharacterSet, gsmSetUserId, gsmSetUserPassword,
        gsmStoreInProfile0, gsmUpdateTimeFromGsmNetwork, gsm_get_imei, gsm_get_imsi,
        setCommandEchoMode, EstablishTries, ShapeOf

LEMMA ConnectShape ==
    \A n \in 1 .. 4 : ShapeOf("gsm_connect_and_download_firmware", n,
                               Programs["gsm_connect_and_download_firmware"][n])
<1> SUFFICES ASSUME NEW n \in {1, 2, 3, 4}
             PROVE  ShapeOf("gsm_connect_and_download_firmware", n,
                            Programs["gsm_connect_and_download_firmware"][n])
  OBVIOUS
<1> QED BY ConnectLayout DEF gsmConnectedToMobileNetwork, gsmEstablishGPRS, Do, EstablishTries,
           ShapeOf

LEMMA OneStepShape == \A p \in OneStepPrograms : ShapeOf(p, 1, Programs[p][1])
BY OneStepLayout DEF OneStepPrograms, ShapeOf, Do, gsmSetClock

LEMMA Shape ==
    \A p \in DOMAIN Programs : \A n \in 1 .. Len(Programs[p]) :
        ShapeOf(p, n, Programs[p][n]) /\ Programs[p][n].name \in Names
<1> SUFFICES ASSUME NEW p \in DOMAIN Programs, NEW n \in 1 .. Len(Programs[p])
             PROVE  ShapeOf(p, n, Programs[p][n]) /\ Programs[p][n].name \in Names
  OBVIOUS
<1>1. ShapeOf(p, n, Programs[p][n])
  <2>1. CASE p = "gsm_init"
    BY <2>1, InitLayout, InitShape
  <2>2. CASE p = "gsm_connect_and_download_firmware"
    BY <2>2, ConnectLayout, ConnectShape
  <2>3. CASE p \in OneStepPrograms
    <3>1. n = 1
      <4>1. Len(Programs[p]) = 1
        BY <2>3, OneStepLayout, Zenon
      <4> QED BY <4>1
    <3> QED BY <2>3, <3>1, OneStepShape
  <2> QED BY <2>1, <2>2, <2>3, ProgramNames
<1>2. Programs[p][n].name \in Names
  BY DEF Names
<1> QED BY <1>1, <1>2

LEMMA Lengths ==
    ASSUME NEW p \in DOMAIN Programs
    PROVE  /\ Len(Programs[p]) \in 1 .. 24
           /\ p = "gsm_init" => Len(Programs[p]) = 24
           /\ p = "gsm_connect_and_download_firmware" => Len(Programs[p]) = 4
           /\ p \in OneStepPrograms => Len(Programs[p]) = 1
<1>1. p \in OneStepPrograms => Len(Programs[p]) = 1
  BY OneStepLayout, Zenon
<1>2. p = "gsm_init" => Len(Programs[p]) = 24
  BY InitLayout
<1>3. p = "gsm_connect_and_download_firmware" => Len(Programs[p]) = 4
  BY ConnectLayout
<1> QED BY <1>1, <1>2, <1>3, ProgramNames

(* No two steps of gsm_init have the same name. *)
LEMMA InitNames ==
    \A n \in 1 .. 24 : \A m \in 1 .. n - 1 :
        Programs["gsm_init"][m].name # Programs["gsm_init"][n].name
<1> DEFINE Name(n) == Programs["gsm_init"][n].name
<1> SUFFICES ASSUME NEW n \in 1 .. 24, NEW m \in 1 .. 24, m < n
             PROVE  Name(m) # Name(n)
  <2> HIDE DEF Name
  <2>1. \A n \in 1 .. 24 : \A m \in 1 .. n - 1 : m \in 1 .. 24 /\ m < n
    OBVIOUS
  <2>2. \A n \in 1 .. 24 : \A m \in 1 .. n - 1 : Name(m) # Name(n)
    BY <2>1
  <2> QED BY <2>2 DEF Name
<1>1. n \in {1, 2, 3, 4, 5, 6, 7, 8, 9, 10, 11, 12,
              13, 14, 15, 16, 17, 18, 19, 20, 21, 22, 23, 24}
  OBVIOUS
<1>2. m \in {1, 2, 3, 4, 5, 6, 7, 8, 9, 10, 11, 12,
              13, 14, 15, 16, 17, 18, 19, 20, 21, 22, 23, 24}
  OBVIOUS
<1> QED
  BY <1>1, <1>2, InitLayout
    DEF Do, InitiatedCheck, ResultFormat, TurnOnStep, gsmConnectedToMobileNetwork,
        gsmEnableResultCodeLevel, gsmEstablishGPRS, gsmInitGprs,
        gsmResetModuleToFactoryDefault, gsmSetCommandLevel, gsmSetEmailConfig,
        gsmSetErrorLevel, gsmSetFirewallInit, gsmSetFlowControl, gsmSetIPR, gsmSetIcmp,
        gsmSetTcpReassembly, gsmSetTeCharacterSet, gsmSetUserId, gsmSetUserPassword,
        gsmStoreInProfile0, gsmUpdateTimeFromGsmNetwork, gsm_get_imei, gsm_get_imsi,
        setCommandEchoMode

-----------------------------------------------------------------------------
(* The inductive invariant.                                                *)

(* How far the counter of a step goes. *)
StepBound(s) ==
    IF s.procedure = "power" THEN 1
    ELSE IF s.procedure = "email" THEN Len(EmailCommands)
    ELSE IF s.procedure = "mail" THEN EstablishTries
    ELSE s.tries

(* No procedure tries more often than it is told to.                       *)
Counters ==
    /\ step = 0 => i = 0 /\ j = 0 /\ k = 0
    /\ step > 0 => /\ i \in 0 .. StepBound(Step) - 1 /\ j \in 0 .. Step.tries - 1
                   /\ Step.procedure = "firewall" /\ phase # "begin" => k \in 1 .. RuleCount
    /\ stack # <<>> => step = 0 \/ (program = "gsm_init" /\ step = 1)

(* The flags of the steps a program cannot do without, once it has passed  *)
(* them.                                                                   *)
FlagsKept ==
    \A m \in 1 .. step - 1 :
        Programs[program][m].failure = "fatal" => Programs[program][m].name \in gsmStatus

(* The steps of gsm_init that see or set their setting.                    *)
Confirms(s) == s.failure = "fatal" /\ s.procedure \in {"verify", "set", "errorLevel"}

Confirmed ==
    /\ program = "gsm_init" =>
           \A m \in 1 .. step - 1 :
              LET s == Programs["gsm_init"][m]
              IN Confirms(s) => /\ s.name \in configured
                                /\ s.procedure = "set" => "format" \in configured
    /\ step > 0 /\ Step.procedure = "errorLevel" /\ phase = "ok" => Step.name \in configured

Fresh ==
    \/ program = "gsm_init" /\ step > 23
    \/ program = "gsm_connect_and_download_firmware" /\ step > 1
    => ("CONNECTED_TO_MOBILE_NETWORK" \in gsmStatus => sawAttached)

MailOnce == step > 0 /\ Step.procedure = "mail" => mailed = 0

(* No context without a network, no socket without a context.              *)
Linked == (gprs => attached) /\ (suspended => gprs)

(* While gsm_init configures it the modem is not on a socket: once it does *)
(* not listen any more it stays so.                                        *)
Awake == program = "gsm_init" /\ step > 1 => power \in {"on", "hung", "going", "off"}

(* A rule that is not there has cost a fault in every try.                 *)
RulesAdded ==
    program = "gsm_init" /\ power = "on" /\ faults < FirewallTries =>
        /\ step = 19 =>
             /\ phase = "begin" => faults >= i
             /\ phase \in {"rule", "look"} =>
                    /\ 1 .. k - 1 \subseteq firewall
                    /\ k \in firewall \/ faults >= (IF phase = "rule" THEN j ELSE j + 1)
             /\ phase = "list" => 1 .. RuleCount \subseteq firewall
        /\ step > 19 => 1 .. RuleCount \subseteq firewall

IInv ==
    /\ TypeOK /\ PowerTyped /\ Counters /\ StackInv
    /\ FlagsKept /\ Confirmed /\ Fresh
    /\ MailOnce /\ Linked /\ Awake /\ RulesAdded
-----------------------------------------------------------------------------
(* Where a program is, and where it goes.                                  *)

LEMMA StepBounds ==
    \A p \in DOMAIN Programs : \A n \in 1 .. Len(Programs[p]) :
        /\ StepBound(Programs[p][n]) \in 1 .. 10
        /\ Programs[p][n].tries \in Nat \ {0}
        /\ Programs[p][n].procedure # "power" => Programs[p][n].tries \in 1 .. 10
<1> SUFFICES ASSUME NEW p \in DOMAIN Programs, NEW n \in 1 .. Len(Programs[p])
             PROVE  /\ StepBound(Programs[p][n]) \in 1 .. 10
                    /\ Programs[p][n].tries \in Nat \ {0}
                    /\ Programs[p][n].procedure # "power" => Programs[p][n].tries \in 1 .. 10
  OBVIOUS
<1>1. Programs[p][n].procedure # "power" => Programs[p][n].tries \in 1 .. 10
  BY Shape DEF ShapeOf
<1>2. Programs[p][n].procedure = "power" => Programs[p][n].tries \in Nat \ {0}
  <2> SUFFICES ASSUME Programs[p][n].procedure = "power"
               PROVE  Programs[p][n].tries \in Nat \ {0}
    OBVIOUS
  <2>1. p = "gsm_init" /\ n = 1
    BY Shape DEF ShapeOf
  <2> QED BY <2>1, InitLayout, ModemAssumption DEF TurnOnStep, Do
<1> QED BY <1>1, <1>2 DEF StepBound, EmailCommands, EstablishTries

LEMMA Here ==
    ASSUME TypeOK, step # 0
    PROVE  /\ Step = Programs[program][step]
           /\ program \in DOMAIN Programs /\ step \in 1 .. Len(Programs[program])
           /\ Len(Programs[program]) \in 1 .. 24
           /\ ShapeOf(program, step, Step) /\ Step.name \in Names
           /\ StepBound(Step) \in 1 .. 10 /\ Step.tries \in Nat \ {0}
           /\ Step.procedure # "power" => Step.tries \in 1 .. 10
<1>1. program \in DOMAIN Programs /\ step \in 1 .. Len(Programs[program])
      /\ Len(Programs[program]) \in 1 .. 24
  BY Lengths DEF TypeOK
<1>2. Step = Programs[program][step]
  BY DEF Step
<1> QED BY <1>1, <1>2, StepBounds, Shape

LEMMA ProceedShape ==
    ASSUME TypeOK, step # 0, NEW ok \in BOOLEAN, Proceed(ok)
    PROVE  /\ program' = program /\ phase' = "begin" /\ i' = 0 /\ j' = 0 /\ k' = 0
           /\ result' \in 0 .. 3
           /\ \/ /\ step' = 0 /\ result' = 0 /\ ~ok
                 /\ Step.failure \in {"fatal", "result"}
              \/ /\ step' = 0 /\ result' = 1 /\ step = Len(Programs[program])
                 /\ ok \/ Step.failure \notin {"fatal", "result"}
              \/ /\ step' = step + 1 /\ step' \in 2 .. Len(Programs[program]) /\ result' = result
                 /\ ok \/ Step.failure \notin {"fatal", "result"}
BY Here DEF Proceed, ReturnFrom, NextStep, TypeOK

(* The place has its type again. *)
PlaceTyped ==
    /\ program \in DOMAIN Programs /\ step \in 0 .. Len(Programs[program])
    /\ i \in 0 .. 9 /\ j \in 0 .. 9 /\ k \in 0 .. RuleCount
    /\ step = 0 => i = 0 /\ j = 0 /\ k = 0
    /\ step > 0 => /\ i \in 0 .. StepBound(Step) - 1 /\ j \in 0 .. Step.tries - 1
                   /\ Step.procedure = "firewall" /\ phase # "begin" => k \in 1 .. RuleCount

LEMMA ProceedTyped ==
    ASSUME TypeOK, step # 0, NEW ok \in BOOLEAN, Proceed(ok)
    PROVE  PlaceTyped' /\ result' \in 0 .. 3
<1>1. /\ program' = program /\ i' = 0 /\ j' = 0 /\ k' = 0 /\ result' \in 0 .. 3
      /\ step' \in 0 .. Len(Programs[program]) /\ phase' = "begin"
  BY ProceedShape, Here
<1>2. step' > 0 => /\ Step' = Programs[program][step']
                   /\ step' \in 1 .. Len(Programs[program])
  BY <1>1, Here DEF Step
<1>3. step' > 0 => StepBound(Step)' \in 1 .. 10 /\ Step'.tries \in Nat \ {0}
  BY <1>2, StepBounds, Here DEF StepBound
<1> QED BY <1>1, <1>3, Here, ModemAssumption DEF PlaceTyped

LEMMA GoOnTyped ==
    ASSUME TypeOK, step # 0, program' = program, step' = step,
           i' \in 0 .. StepBound(Step) - 1, j' \in 0 .. Step.tries - 1, j' \in 0 .. 9,
           k' \in 0 .. RuleCount,
           Step.procedure = "firewall" /\ phase' # "begin" => k' \in 1 .. RuleCount
    PROVE  PlaceTyped'
<1>1. Step' = Step /\ StepBound(Step)' = StepBound(Step)
  BY DEF Step, StepBound
<1> QED BY SMTT(30), <1>1, Here DEF PlaceTyped

-----------------------------------------------------------------------------
(* What a command and a question come to.                                  *)

Charged == faults' \in 0 .. MaxFaults /\ faults <= faults'

LEMMA FaultsCharged == ASSUME TypeOK, Fails \/ UNCHANGED faults PROVE Charged
BY BoundsAssumption DEF TypeOK, Fails, Charged

LEMMA ExchangeShape ==
    ASSUME TypeOK, NEW o \in Outcomes, NEW right, NEW understood \in BOOLEAN,
           Exchange(o, right, understood)
    PROVE  /\ Charged
           /\ configured' = IF o \in {"ok", "lost"} THEN right ELSE configured
           /\ o = "ok" => power = "on" /\ understood
           /\ power = "on" /\ understood /\ o # "ok" => faults' = faults + 1
<1>1. CASE o = "ok"
  BY <1>1, FaultsCharged DEF Exchange, Listens
<1>2. CASE o = "lost"
  BY <1>2, FaultsCharged DEF Exchange, Listens, Fails
<1>3. CASE o \in {"silent", "unsent"}
  BY <1>3, FaultsCharged DEF Exchange, Listens, Fails
<1> QED BY <1>1, <1>2, <1>3 DEF Outcomes

LEMMA SetShape ==
    ASSUME TypeOK, NEW o \in Outcomes, NEW name \in Names, Set(o, name)
    PROVE  /\ Charged
           /\ configured' \in SUBSET Names /\ configured \subseteq configured'
           /\ o = "ok" => power = "on" /\ {name, "format"} \subseteq configured'
<1>1. ("format" \in configured \cup {name}) \in BOOLEAN
  OBVIOUS
<1>2. Exchange(o, configured \cup {name}, "format" \in configured \cup {name})
  BY DEF Set
<1> DEFINE right == configured \cup {name}
<1>3. /\ Charged
      /\ configured' = IF o \in {"ok", "lost"} THEN right ELSE configured
      /\ o = "ok" => power = "on" /\ "format" \in right
  BY <1>1, <1>2, ExchangeShape
<1> QED BY <1>3 DEF TypeOK

LEMMA QueryShape ==
    ASSUME TypeOK, NEW answer \in Answers, NEW right \in BOOLEAN, Query(answer, right)
    PROVE  /\ Charged
           /\ answer = "right" => power = "on" /\ right
           /\ answer = "wrong" => power = "on" /\ ~right
           /\ power = "on" /\ answer = "none" => faults' = faults + 1
BY FaultsCharged DEF Query, Read, Answers, Listens, Fails

LEMMA SentShape == ASSUME TypeOK PROVE /\ Sent => Charged /\ power = "on"
                                       /\ Unsent => Charged
                                       /\ Unsent /\ power = "on" => faults' = faults + 1
                                       /\ \A b \in BOOLEAN : AnsweringOnAT(b) => Charged
                                       /\ AnsweringOnAT(TRUE) => power = "on"
BY FaultsCharged DEF Sent, Unsent, Listens, Fails, AnsweringOnAT

LEMMA DoneShape ==
    ASSUME TypeOK, step # 0, NEW ok \in BOOLEAN, Done(ok)
    PROVE  /\ Proceed(ok)
           /\ gsmStatus' \in SUBSET (Names \cup {"ATCIND_COMMAND_RUNNED"})
           /\ gsmStatus \ gsmStatus' \subseteq {Step.name}
           /\ gsmStatus' \ gsmStatus \subseteq {Step.name}
           /\ ok /\ Step.failure \in {"fatal", "note"} => Step.name \in gsmStatus'
           /\ ~ok /\ Step.failure \in {"fatal", "note"} => Step.name \notin gsmStatus'
<1>1. gsmStatus' = Flagged(ok) /\ Proceed(ok)
  BY DEF Done
<1>2. gsmStatus' = IF Step.failure \in {"ignore", "result"} THEN gsmStatus
                   ELSE IF ok THEN gsmStatus \cup {Step.name} ELSE gsmStatus \ {Step.name}
  BY <1>1 DEF Flagged
<1> QED BY <1>1, <1>2, Here DEF TypeOK

-----------------------------------------------------------------------------
(* What every step of a procedure has in common.                           *)

Moves == /\ PlaceTyped' /\ result' \in 0 .. 3
         /\ \/ \E ok \in BOOLEAN : Done(ok)
            \/ UNCHANGED <<program, step, result, gsmStatus>>

LEMMA DoneMoves == ASSUME TypeOK, step # 0, NEW ok \in BOOLEAN, Done(ok) PROVE Moves
BY DoneShape, ProceedTyped DEF Moves

LEMMA GoOnMoves ==
    ASSUME TypeOK, step # 0, Step.procedure \notin {"power", "firewall"},
           NEW where, NEW ii \in 0 .. StepBound(Step) - 1, NEW jj \in 0 .. Step.tries - 1,
           GoOn(where, ii, jj)
    PROVE  Moves /\ phase' = where
<1>1. /\ program' = program /\ step' = step /\ i' = ii /\ j' = jj /\ k' = k
      /\ result' = result /\ gsmStatus' = gsmStatus /\ phase' = where
  BY DEF GoOn
<1>2. j' \in 0 .. 9 /\ k' \in 0 .. RuleCount
  <2>1. Step.tries \in 1 .. 10
    BY Here
  <2>2. k \in 0 .. RuleCount
    BY DEF TypeOK
  <2> QED BY <1>1, <2>1, <2>2
<1> QED BY <1>1, <1>2, GoOnTyped DEF Moves, TypeOK

(* Where a procedure is while it runs, and how far its counters may go.    *)
LEMMA InShape ==
    ASSUME TypeOK, Counters, NEW procedure, NEW where, In(procedure, where)
    PROVE  /\ stack = <<>> /\ step # 0 /\ step > 0 /\ Step.procedure = procedure /\ phase = where
           /\ i \in 0 .. StepBound(Step) - 1 /\ j \in 0 .. Step.tries - 1
           /\ 0 \in 0 .. StepBound(Step) - 1 /\ 0 \in 0 .. Step.tries - 1
           /\ procedure \notin {"power", "email", "mail"} => StepBound(Step) = Step.tries
           /\ StepBound(Step) = Step.tries /\ ~LastTry => i + 1 \in 0 .. StepBound(Step) - 1
           /\ i + 1 < StepBound(Step) => i + 1 \in 0 .. StepBound(Step) - 1
           /\ i + 2 < StepBound(Step) => i + 2 \in 0 .. StepBound(Step) - 1
           /\ j + 1 < Step.tries => j + 1 \in 0 .. Step.tries - 1
           /\ Step.name \in Names /\ Setting \in Names
<1>1. stack = <<>> /\ step # 0 /\ step > 0 /\ Step.procedure = procedure /\ phase = where
  BY DEF In
<1>2. StepBound(Step) \in 1 .. 10 /\ Step.tries \in Nat \ {0} /\ Step.name \in Names
  BY <1>1, Here
<1>3. i \in 0 .. StepBound(Step) - 1 /\ j \in 0 .. Step.tries - 1
  BY <1>1 DEF Counters
<1>4. procedure \notin {"power", "email", "mail"} => StepBound(Step) = Step.tries
  BY <1>1 DEF StepBound
<1> QED BY SMTT(30), <1>1, <1>2, <1>3, <1>4 DEF LastTry, Setting

LEMMA InMoves ==
    ASSUME TypeOK, Counters, NEW procedure, NEW where, In(procedure, where), procedure # "power"
    PROVE  /\ \A ok \in BOOLEAN : Done(ok) => Moves
           /\ procedure # "firewall" =>
                \A w : \A ii \in 0 .. StepBound(Step) - 1, jj \in 0 .. Step.tries - 1 :
                    GoOn(w, ii, jj) => Moves
BY InShape, DoneMoves, GoOnMoves

(* A step that configures the modem. *)
Configures ==
    /\ stack = <<>> /\ step > 0 /\ UNCHANGED <<power, stack, link, history, calls>>
    /\ Charged /\ Moves
    /\ configured' \in SUBSET Names /\ firewall' \in SUBSET (1 .. RuleCount)
    /\ Step.procedure # "factory" => configured \subseteq configured'
    /\ Step.procedure # "firewall" => firewall' = firewall

LEMMA SetUntilOkConfigures == ASSUME TypeOK, Counters, SetUntilOk PROVE Configures
<1> In("set", "begin") /\ Rest
  BY DEF SetUntilOk
<1> PICK o \in Outcomes :
        /\ Set(o, Setting)
        /\ IF o = "ok" \/ LastTry THEN Done(o = "ok") ELSE GoOn("begin", i + 1, 0)
  BY DEF SetUntilOk
<1>1. Charged /\ configured' \in SUBSET Names /\ configured \subseteq configured'
  BY InShape, SetShape
<1>2. Moves
  <2>1. CASE Done(o = "ok")
    <3>1. (o = "ok") \in BOOLEAN
      OBVIOUS
    <3> QED BY <2>1, <3>1, InMoves
  <2>2. CASE ~LastTry /\ GoOn("begin", i + 1, 0)
    BY <2>2, InShape, InMoves
  <2> QED BY <2>1, <2>2
<1> QED BY <1>1, <1>2, InShape DEF Configures, Rest, TypeOK

LEMMA TurnedOnConfigures == ASSUME TypeOK, Counters, TurnedOn PROVE Configures
<1> In("power", "begin") /\ Rest /\ UNCHANGED configured
  BY DEF TurnedOn
<1>1. Charged /\ \E b \in BOOLEAN : Done(b)
  BY SentShape, FaultsCharged DEF TurnedOn
<1>2. Moves
  BY <1>1, InShape, DoneMoves
<1> QED BY <1>1, <1>2, InShape DEF Configures, Rest, TypeOK

LEMMA FactoryDefaultConfigures == ASSUME TypeOK, Counters, FactoryDefault PROVE Configures
<1> In("factory", "begin") /\ Rest
  BY DEF FactoryDefault
<1> PICK o \in Outcomes, right \in Profiles :
        /\ Exchange(o, right, TRUE)
        /\ IF o = "ok" \/ LastTry THEN Done(o = "ok") ELSE GoOn("begin", i + 1, 0)
  BY DEF FactoryDefault
<1>1. Charged /\ configured' \in SUBSET Names
  <2>1. Charged /\ configured' \in {right, configured}
    BY ExchangeShape
  <2>2. right \in SUBSET Names
    BY ProfilesAssumption
  <2> QED BY <2>1, <2>2 DEF TypeOK
<1>2. Moves
  <2>1. CASE Done(o = "ok")
    <3>1. (o = "ok") \in BOOLEAN
      OBVIOUS
    <3> QED BY <2>1, <3>1, InMoves
  <2>2. CASE ~LastTry /\ GoOn("begin", i + 1, 0)
    BY <2>2, InShape, InMoves
  <2> QED BY <2>1, <2>2
<1> QED BY <1>1, <1>2, InShape DEF Configures, Rest, TypeOK

LEMMA AskFirstConfigures == ASSUME TypeOK, Counters, AskFirst PROVE Configures
<1> PICK procedure \in {"verify", "guess"} : In(procedure, "begin")
  BY DEF AskFirst
<1> Rest /\ UNCHANGED configured
  BY DEF AskFirst
<1> PICK answer \in Answers, lucky \in BOOLEAN :
        /\ Query(answer, Setting \in configured)
        /\ IF answer = "right" \/ lucky THEN Done(TRUE)
           ELSE IF answer = "none" /\ ~LastTry THEN GoOn("begin", i + 1, 0)
           ELSE GoOn("set", 0, 0)
  BY DEF AskFirst
<1>1. Charged
  <2>1. (Setting \in configured) \in BOOLEAN
    OBVIOUS
  <2> QED BY <2>1, QueryShape
<1>2. Moves
  BY InShape, InMoves
<1> QED BY <1>1, <1>2, InShape DEF Configures, Rest, TypeOK

LEMMA SetItConfigures == ASSUME TypeOK, Counters, SetIt PROVE Configures
<1> PICK procedure \in {"verify", "guess"} : In(procedure, "set")
  BY DEF SetIt
<1> Rest
  BY DEF SetIt
<1> PICK o \in Outcomes :
        /\ Set(o, Setting)
        /\ IF o = "ok" THEN GoOn("verify", i, 0)
           ELSE IF j + 1 < Step.tries THEN GoOn("set", i, j + 1)
           ELSE Done(FALSE)
  BY DEF SetIt
<1>1. Charged /\ configured' \in SUBSET Names /\ configured \subseteq configured'
  BY InShape, SetShape
<1>2. Moves
  BY InShape, InMoves
<1> QED BY <1>1, <1>2, InShape DEF Configures, Rest, TypeOK

LEMMA AskAgainConfigures == ASSUME TypeOK, Counters, AskAgain PROVE Configures
<1> PICK procedure \in {"verify", "guess"} : In(procedure, "verify")
  BY DEF AskAgain
<1> Rest /\ UNCHANGED configured
  BY DEF AskAgain
<1> PICK answer \in Answers :
        /\ Query(answer, Setting \in configured)
        /\ IF answer = "right" \/ LastTry THEN Done(answer = "right")
           ELSE GoOn("set", i + 1, 0)
  BY DEF AskAgain
<1>1. Charged
  <2>1. (Setting \in configured) \in BOOLEAN
    OBVIOUS
  <2> QED BY <2>1, QueryShape
<1>2. Moves
  <2>1. CASE Done(answer = "right")
    <3>1. (answer = "right") \in BOOLEAN
      OBVIOUS
    <3> QED BY <2>1, <3>1, InMoves
  <2>2. CASE ~LastTry /\ GoOn("set", i + 1, 0)
    BY <2>2, InShape, InMoves
  <2> QED BY <2>1, <2>2
<1> QED BY <1>1, <1>2, InShape DEF Configures, Rest, TypeOK

(* A question, with whatever truth. *)
LEMMA Asked ==
    ASSUME TypeOK, NEW answer \in Answers, NEW P \in BOOLEAN, Query(answer, P)
    PROVE  Charged
BY QueryShape

LEMMA ErrorLevelConfigures == ASSUME TypeOK, Counters, ErrorLevel PROVE Configures
<1> Rest
  BY DEF ErrorLevel
<1>1. ASSUME In("errorLevel", "begin"), UNCHANGED configured, NEW answer \in Answers,
             Query(answer, Setting \in configured),
             IF answer = "none" /\ ~LastTry THEN GoOn("begin", i + 1, 0)
                 ELSE GoOn(IF answer = "right" THEN "ok" ELSE "set", 0, 0)
      PROVE  Configures
  <2>1. Charged
    <3>1. (Setting \in configured) \in BOOLEAN
      OBVIOUS
    <3> QED BY <1>1, <3>1, QueryShape
  <2>2. Moves
    BY <1>1, InShape, InMoves
  <2> QED BY <1>1, <2>1, <2>2, InShape DEF Configures, Rest, TypeOK
<1>2. ASSUME In("errorLevel", "ok"), NEW o \in Outcomes,
             Exchange(o, configured, "format" \in configured), Done(o = "ok")
      PROVE  Configures
  <2>1. Charged /\ configured' = configured
    <3>1. ("format" \in configured) \in BOOLEAN
      OBVIOUS
    <3> QED BY <1>2, <3>1, ExchangeShape
  <2>2. Moves
    <3>1. (o = "ok") \in BOOLEAN
      OBVIOUS
    <3> QED BY <1>2, <3>1, InMoves
  <2> QED BY <1>2, <2>1, <2>2, InShape DEF Configures, Rest, TypeOK
<1>3. ASSUME In("errorLevel", "set"), NEW o \in Outcomes, Set(o, Setting),
             IF o = "ok" THEN GoOn("verify", i, 0)
                 ELSE IF i + 2 < Step.tries THEN GoOn("set", i + 2, 0)
                 ELSE Done(FALSE)
      PROVE  Configures
  <2>1. Charged /\ configured' \in SUBSET Names /\ configured \subseteq configured'
    BY <1>3, InShape, SetShape
  <2>2. Moves
    <3>1. StepBound(Step) = Step.tries
      BY <1>3, InShape
    <3>2. CASE GoOn("verify", i, 0)
      BY <1>3, <3>2, InShape, InMoves
    <3>4. CASE Done(FALSE)
      BY <1>3, <3>4, InMoves
    <3>3. CASE i + 2 < Step.tries /\ GoOn("set", i + 2, 0)
      BY <1>3, <3>1, <3>3, InShape, InMoves
    <3> QED BY <1>3, <3>2, <3>3, <3>4
  <2> QED BY <1>3, <2>1, <2>2, InShape DEF Configures, Rest, TypeOK
<1>4. ASSUME In("errorLevel", "verify"), UNCHANGED configured, NEW answer \in Answers,
             Query(answer, Setting \in configured),
             IF answer = "none" /\ ~LastTry THEN GoOn("set", i + 1, 0) ELSE Done(FALSE)
      PROVE  Configures
  <2>1. Charged
    <3>1. (Setting \in configured) \in BOOLEAN
      OBVIOUS
    <3> QED BY <1>4, <3>1, QueryShape
  <2>2. Moves
    <3>1. CASE ~LastTry /\ GoOn("set", i + 1, 0)
      BY <1>4, <3>1, InShape, InMoves
    <3>2. CASE Done(FALSE)
      BY <1>4, <3>2, InMoves
    <3> QED BY <1>4, <3>1, <3>2
  <2> QED BY <1>4, <2>1, <2>2, InShape DEF Configures, Rest, TypeOK
<1> QED BY <1>1, <1>2, <1>3, <1>4 DEF ErrorLevel

LEMMA SetByteConfigures == ASSUME TypeOK, Counters, SetByte PROVE Configures
<1> Rest
  BY DEF SetByte
<1>1. ASSUME In("byte", "begin"), UNCHANGED configured, NEW answer \in Answers,
             NEW lucky \in BOOLEAN, Query(answer, Setting \in configured),
             IF answer = "right" \/ lucky THEN Done(TRUE)
                 ELSE IF answer = "none" /\ ~LastTry THEN GoOn("begin", i + 1, 0)
                 ELSE GoOn("set", 0, 0)
      PROVE  Configures
  <2>1. Charged
    <3>1. (Setting \in configured) \in BOOLEAN
      OBVIOUS
    <3> QED BY <1>1, <3>1, QueryShape
  <2>2. Moves
    <3>1. CASE Done(TRUE)
      BY <1>1, <3>1, InMoves
    <3>2. CASE ~LastTry /\ GoOn("begin", i + 1, 0)
      BY <1>1, <3>2, InShape, InMoves
    <3>3. CASE GoOn("set", 0, 0)
      BY <1>1, <3>3, InShape, InMoves
    <3> QED BY <1>1, <3>1, <3>2, <3>3
  <2> QED BY <1>1, <2>1, <2>2, InShape DEF Configures, Rest, TypeOK
<1>2. ASSUME In("byte", "set"), NEW o \in Outcomes, Set(o, Setting),
             IF o \in {"ok", "unsent"} THEN GoOn("verify", i, 0)
                 ELSE IF i + 2 < Step.tries THEN GoOn("set", i + 2, 0)
                 ELSE Done(FALSE)
      PROVE  Configures
  <2>1. Charged /\ configured' \in SUBSET Names /\ configured \subseteq configured'
    BY <1>2, InShape, SetShape
  <2>2. Moves
    <3>1. StepBound(Step) = Step.tries
      BY <1>2, InShape
    <3>2. CASE GoOn("verify", i, 0)
      BY <1>2, <3>2, InShape, InMoves
    <3>4. CASE Done(FALSE)
      BY <1>2, <3>4, InMoves
    <3>3. CASE i + 2 < Step.tries /\ GoOn("set", i + 2, 0)
      BY <1>2, <3>1, <3>3, InShape, InMoves
    <3> QED BY <1>2, <3>2, <3>3, <3>4
  <2> QED BY <1>2, <2>1, <2>2, InShape DEF Configures, Rest, TypeOK
<1>3. ASSUME In("byte", "verify"), UNCHANGED configured, NEW answer \in Answers,
             Query(answer, Setting \in configured),
             IF answer = "right" \/ LastTry THEN Done(answer = "right")
                 ELSE GoOn("set", i + 1, 0)
      PROVE  Configures
  <2>1. Charged
    <3>1. (Setting \in configured) \in BOOLEAN
      OBVIOUS
    <3> QED BY <1>3, <3>1, QueryShape
  <2>2. Moves
    <3>1. CASE Done(answer = "right")
      <4>1. (answer = "right") \in BOOLEAN
        OBVIOUS
      <4> QED BY <1>3, <3>1, <4>1, InMoves
    <3>2. CASE ~LastTry /\ GoOn("set", i + 1, 0)
      BY <1>3, <3>2, InShape, InMoves
    <3> QED BY <1>3, <3>1, <3>2
  <2> QED BY <1>3, <2>1, <2>2, InShape DEF Configures, Rest, TypeOK
<1> QED BY <1>1, <1>2, <1>3 DEF SetByte

LEMMA GetNumberConfigures == ASSUME TypeOK, Counters, GetNumber PROVE Configures
<1> In("number", "begin") /\ Rest /\ UNCHANGED configured
  BY DEF GetNumber
<1> PICK answer \in Answers, there \in BOOLEAN, got \in BOOLEAN :
        /\ Query(answer, there)
        /\ Done(got) \/ GoOn("wait", 0, 0)
  BY DEF GetNumber
<1>1. Charged /\ Moves
  BY Asked, InShape, InMoves
<1> QED BY <1>1, InShape DEF Configures, Rest, TypeOK

LEMMA LateCharacterConfigures == ASSUME TypeOK, Counters, LateCharacter PROVE Configures
<1>1. /\ In("number", "wait") /\ Rest /\ UNCHANGED <<configured, faults>>
      /\ \E got \in BOOLEAN : Done(got)
  BY DEF LateCharacter
<1>2. Charged /\ Moves
  BY <1>1, FaultsCharged, InMoves
<1> QED BY <1>1, <1>2, InShape DEF Configures, Rest, TypeOK

LEMMA InitGprsConfigures == ASSUME TypeOK, Counters, InitGprs PROVE Configures
<1> Rest
  BY DEF InitGprs
<1>1. ASSUME In("initGprs", "begin"), NEW o \in Outcomes,
             Exchange(o, configured, "format" \in configured),
             IF o = "ok" \/ LastTry THEN GoOn("context", 0, 0) ELSE GoOn("begin", i + 1, 0)
      PROVE  Configures
  <2>1. Charged /\ configured' = configured
    <3>1. ("format" \in configured) \in BOOLEAN
      OBVIOUS
    <3> QED BY <1>1, <3>1, ExchangeShape
  <2>2. Moves
    BY <1>1, InShape, InMoves
  <2> QED BY <1>1, <2>1, <2>2, InShape DEF Configures, Rest, TypeOK
<1>2. ASSUME In("initGprs", "context"), NEW o \in Outcomes, Set(o, Setting),
             IF o = "ok" \/ LastTry THEN GoOn("look", 0, 0) ELSE GoOn("context", i + 1, 0)
      PROVE  Configures
  <2>1. Charged /\ configured' \in SUBSET Names /\ configured \subseteq configured'
    BY <1>2, InShape, SetShape
  <2>2. Moves
    BY <1>2, InShape, InMoves
  <2> QED BY <1>2, <2>1, <2>2, InShape DEF Configures, Rest, TypeOK
<1>3. ASSUME In("initGprs", "look"), UNCHANGED configured, NEW answer \in Answers,
             Query(answer, Setting \in configured),
             IF answer = "right" \/ LastTry THEN Done(answer = "right" /\ ~LastTry)
                 ELSE GoOn("look", i + 1, 0)
      PROVE  Configures
  <2>1. Charged
    <3>1. (Setting \in configured) \in BOOLEAN
      OBVIOUS
    <3> QED BY <1>3, <3>1, QueryShape
  <2>2. Moves
    <3>1. CASE Done(answer = "right" /\ ~LastTry)
      <4>1. (answer = "right" /\ ~LastTry) \in BOOLEAN
        OBVIOUS
      <4> QED BY <1>3, <3>1, <4>1, InMoves
    <3>2. CASE ~LastTry /\ GoOn("look", i + 1, 0)
      BY <1>3, <3>2, InShape, InMoves
    <3> QED BY <1>3, <3>1, <3>2
  <2> QED BY <1>3, <2>1, <2>2, InShape DEF Configures, Rest, TypeOK
<1> QED BY <1>1, <1>2, <1>3 DEF InitGprs

LEMMA CheckConfigures == ASSUME TypeOK, Counters, Check PROVE Configures
<1> In("anyFlag", "begin") /\ Rest /\ UNCHANGED <<configured, faults>>
    /\ Done(InitiatedFlags \cap gsmStatus # {})
  BY DEF Check
<1>1. (InitiatedFlags \cap gsmStatus # {}) \in BOOLEAN
  OBVIOUS
<1>2. Moves
  BY <1>1, InMoves
<1> QED BY <1>2, InShape, FaultsCharged DEF Configures, Rest, TypeOK

LEMMA FirewallMoves ==
    ASSUME TypeOK, Counters, NEW where, In("firewall", where)
    PROVE  \A w : \A ii \in 0 .. StepBound(Step) - 1, jj \in 0 .. Step.tries - 1, kk \in 0 .. RuleCount :
               (w # "begin" => kk # 0) /\ FirewallGo(w, ii, jj, kk) => Moves
<1> SUFFICES ASSUME NEW w, NEW ii \in 0 .. StepBound(Step) - 1, NEW jj \in 0 .. Step.tries - 1,
                    NEW kk \in 0 .. RuleCount, w # "begin" => kk # 0, FirewallGo(w, ii, jj, kk)
             PROVE  Moves
  OBVIOUS
<1>1. /\ program' = program /\ step' = step /\ i' = ii /\ j' = jj /\ k' = kk
      /\ result' = result /\ gsmStatus' = gsmStatus /\ phase' = w
      /\ w # "begin" => kk \in 1 .. RuleCount
  BY ModemAssumption DEF FirewallGo
<1>2. step # 0 /\ Step.procedure = "firewall"
  BY InShape
<1>3. j' \in 0 .. 9
  <2>1. Step.tries \in 1 .. 10
    BY <1>2, Here
  <2> QED BY <1>1, <2>1
<1> QED BY <1>1, <1>2, <1>3, GoOnTyped DEF Moves, TypeOK

LEMMA CommandShape ==
    ASSUME TypeOK, NEW o \in Outcomes, NEW rules, Command(o, rules)
    PROVE  /\ Charged /\ configured' = configured
           /\ firewall' = IF o \in {"ok", "lost"} THEN rules ELSE firewall
           /\ o = "ok" => power = "on"
           /\ power = "on" /\ "format" \in configured /\ o # "ok" => faults' = faults + 1
<1>1. ("format" \in configured) \in BOOLEAN
  OBVIOUS
<1>2. Exchange(o, configured, "format" \in configured)
  BY DEF Command
<1> HIDE DEF Outcomes
<1> QED BY <1>1, <1>2, ExchangeShape DEF Command

LEMMA NextRuleMoves ==
    ASSUME TypeOK, Counters, NEW where, In("firewall", where), where # "begin"
    PROVE  /\ NextRule => Moves
           /\ RepeatRule => Moves
           /\ k \in 1 .. RuleCount
<1>1. /\ i \in 0 .. StepBound(Step) - 1 /\ j \in 0 .. Step.tries - 1 /\ 0 \in 0 .. Step.tries - 1
      /\ step # 0 /\ Step.procedure = "firewall" /\ k \in 0 .. RuleCount /\ k \in 1 .. RuleCount
  BY InShape DEF TypeOK, Counters
<1>2. Step.tries = FirewallTries
  BY <1>1, Here DEF ShapeOf
<1>3. NextRule => Moves
  <2>1. CASE k < RuleCount /\ FirewallGo("rule", i, 0, k + 1)
    <3>1. k + 1 \in 0 .. RuleCount /\ k + 1 # 0
      BY <1>1, <2>1, ModemAssumption
    <3> QED BY <1>1, <2>1, <3>1, FirewallMoves
  <2>2. CASE FirewallGo("list", i, 0, k)
    BY <1>1, <2>2, FirewallMoves
  <2> QED BY <2>1, <2>2 DEF NextRule
<1>4. j + 1 < FirewallTries /\ FirewallGo("rule", i, j + 1, k) => Moves
  <2>1. j + 1 < FirewallTries => j + 1 \in 0 .. Step.tries - 1
    BY <1>1, <1>2, ModemAssumption
  <2> QED BY <1>1, <2>1, FirewallMoves
<1> QED BY <1>1, <1>3, <1>4 DEF RepeatRule

LEMMA FirewallConfigures == ASSUME TypeOK, Counters, Firewall PROVE Configures
<1>1. CASE ClearRules
  <2> In("firewall", "begin") /\ NotFirewall
    BY <1>1 DEF ClearRules
  <2> PICK o \in Outcomes :
          /\ Command(o, {})
          /\ IF o = "ok" THEN FirewallGo("rule", 0, 0, 1)
             ELSE IF LastTry THEN Done(FALSE)
             ELSE FirewallGo("begin", i + 1, 0, 0)
    BY <1>1 DEF ClearRules
  <2>1. Charged /\ configured' = configured /\ firewall' \in SUBSET (1 .. RuleCount)
    <3>1. Charged /\ configured' = configured /\ firewall' \in {{}, firewall}
      BY CommandShape
    <3> QED BY <3>1 DEF TypeOK
  <2>2. Moves
    <3>1. CASE FirewallGo("rule", 0, 0, 1)
      <4>1. 1 \in 0 .. RuleCount
        BY ModemAssumption
      <4> QED BY <3>1, <4>1, InShape, FirewallMoves
    <3>2. CASE Done(FALSE)
      BY <3>2, InMoves
    <3>3. CASE ~LastTry /\ FirewallGo("begin", i + 1, 0, 0)
      <4>1. 0 \in 0 .. RuleCount
        BY ModemAssumption
      <4> QED BY <3>3, <4>1, InShape, FirewallMoves
    <3> QED BY <3>1, <3>2, <3>3
  <2> QED BY <2>1, <2>2, InShape DEF Configures, NotFirewall, TypeOK
<1>2. CASE AddRule
  <2> In("firewall", "rule") /\ NotFirewall
    BY <1>2 DEF AddRule
  <2> PICK o \in Outcomes :
          /\ Command(o, firewall \cup {k})
          /\ IF o \in {"ok", "unsent"} THEN RepeatRule ELSE FirewallGo("look", i, j, k)
    BY <1>2 DEF AddRule
  <2>1. Charged /\ configured' = configured /\ firewall' \in SUBSET (1 .. RuleCount)
    <3>1. Charged /\ configured' = configured /\ firewall' \in {firewall \cup {k}, firewall}
      BY CommandShape
    <3>2. k \in 1 .. RuleCount
      BY NextRuleMoves
    <3> QED BY <3>1, <3>2 DEF TypeOK
  <2>2. Moves
    <3>1. CASE RepeatRule
      BY <3>1, NextRuleMoves
    <3>2. CASE FirewallGo("look", i, j, k)
      <4>1. k \in 0 .. RuleCount /\ k # 0
        BY NextRuleMoves, ModemAssumption
      <4> QED BY <3>2, <4>1, InShape, FirewallMoves
    <3> QED BY <3>1, <3>2
  <2> QED BY <2>1, <2>2, InShape DEF Configures, NotFirewall, TypeOK
<1>3. CASE LookForRule
  <2> In("firewall", "look") /\ NotFirewall /\ UNCHANGED <<configured, firewall>>
    BY <1>3 DEF LookForRule
  <2> PICK answer \in Answers :
          /\ Query(answer, k \in firewall)
          /\ IF answer = "right" THEN NextRule ELSE RepeatRule
    BY <1>3 DEF LookForRule
  <2>1. Charged
    <3>1. (k \in firewall) \in BOOLEAN
      OBVIOUS
    <3> QED BY <3>1, QueryShape
  <2>2. Moves
    BY NextRuleMoves
  <2> QED BY <2>1, <2>2, InShape DEF Configures, NotFirewall, TypeOK
<1>4. CASE ListRules
  <2> In("firewall", "list") /\ NotFirewall /\ UNCHANGED <<configured, firewall>>
    BY <1>4 DEF ListRules
  <2>1. Charged
    BY <1>4, SentShape DEF ListRules
  <2>2. Moves
    <3>1. CASE Done(FALSE)
      BY <3>1, InMoves
    <3>2. CASE ~LastTry /\ FirewallGo("rule", i + 1, 0, 1)
      <4>1. 1 \in 0 .. RuleCount
        BY ModemAssumption
      <4> QED BY <3>2, <4>1, InShape, FirewallMoves
    <3> QED BY <1>4, <3>1, <3>2 DEF ListRules
  <2> QED BY <2>1, <2>2, InShape DEF Configures, NotFirewall, TypeOK
<1> QED BY <1>1, <1>2, <1>3, <1>4 DEF Firewall

LEMMA EmailConfigConfigures == ASSUME TypeOK, Counters, EmailConfig PROVE Configures
<1> Rest
  BY DEF EmailConfig
<1> PICK o \in Outcomes : Exchange(o, configured, "format" \in configured)
  BY DEF EmailConfig
<1>1. Charged /\ configured' = configured
  <2>1. ("format" \in configured) \in BOOLEAN
    OBVIOUS
  <2> QED BY <2>1, ExchangeShape
<1> PICK procedure \in {"email", "mail"}, where \in {"begin", "config"} : In(procedure, where)
  BY DEF EmailConfig
<1>2. StepBound(Step) \in {5, 8}
  BY InShape DEF StepBound, EmailCommands, EstablishTries
<1>3. Moves
  <2>1. CASE i + 1 < Len(EmailCommands) /\ GoOn(phase, i + 1, j)
    <3>1. i + 1 \in 0 .. StepBound(Step) - 1
      BY <1>2, <2>1, InShape DEF EmailCommands
    <3> QED BY <2>1, <3>1, InShape, InMoves
  <2>2. CASE GoOn("command", 0, j)
    BY <2>2, InShape, InMoves
  <2>3. CASE Done(TRUE)
    BY <2>3, InMoves
  <2> QED BY <2>1, <2>2, <2>3 DEF EmailConfig
<1> QED BY <1>1, <1>3, InShape DEF Configures, Rest, TypeOK

LEMMA ConfigureShape == ASSUME TypeOK, Counters, Configure PROVE Configures
BY TurnedOnConfigures, FactoryDefaultConfigures, SetUntilOkConfigures, AskFirstConfigures,
   SetItConfigures, AskAgainConfigures, ErrorLevelConfigures, SetByteConfigures,
   GetNumberConfigures, InitGprsConfigures, CheckConfigures, FirewallConfigures,
   EmailConfigConfigures DEF Configure

-----------------------------------------------------------------------------
(* The steps that use the network.                                         *)

(* What every step of every procedure has in common: where it goes, which  *)
(* flags it may change, and that it says a step has succeeded only with    *)
(* its flag.                                                               *)
Runned == "ATCIND_COMMAND_RUNNED"

Flags ==
    /\ gsmStatus' \in SUBSET (Names \cup {Runned})
    /\ gsmStatus \ gsmStatus' \subseteq {Step.name, Runned}
    /\ gsmStatus' \ gsmStatus \subseteq {Step.name, Runned}

Goes ==
    /\ PlaceTyped' /\ result' \in 0 .. 3
    /\ \/ UNCHANGED <<program, step, result>>
       \/ \E ok \in BOOLEAN :
              /\ Proceed(ok)
              /\ ok /\ Step.failure = "fatal" => Step.name \in gsmStatus'
              /\ ~ok => Step.name \notin gsmStatus' \/ Step.procedure # "attach"

(* Only gsmInitGprs changes the settings, and only its own.                *)
KeepsSettings == configured' \in SUBSET Names /\ configured \ {gsmInitGprs.name} \subseteq configured'

Uses ==
    /\ stack = <<>> /\ step > 0 /\ UNCHANGED <<stack, attached, firewall, calls>>
    /\ KeepsSettings
    /\ Charged /\ Flags /\ Goes
    /\ Step.procedure \in {"attach", "establish"} => power' = power
    /\ power' \in PowerStates
    /\ gprs' \in BOOLEAN /\ suspended' \in BOOLEAN /\ sawAttached' \in BOOLEAN /\ mailed' \in 0 .. 1

LEMMA MovesGoes == ASSUME TypeOK, step > 0, Moves PROVE Flags /\ Goes
<1>1. CASE UNCHANGED <<program, step, result, gsmStatus>>
  BY <1>1 DEF Moves, Flags, Goes, TypeOK, Runned
<1>2. CASE \E ok \in BOOLEAN : Done(ok)
  <2> PICK ok \in BOOLEAN : Done(ok)
    BY <1>2
  <2>1. /\ Proceed(ok)
        /\ gsmStatus' \in SUBSET (Names \cup {Runned})
        /\ gsmStatus \ gsmStatus' \subseteq {Step.name}
        /\ gsmStatus' \ gsmStatus \subseteq {Step.name}
        /\ ok /\ Step.failure = "fatal" => Step.name \in gsmStatus'
        /\ ~ok /\ Step.failure \in {"fatal", "note"} => Step.name \notin gsmStatus'
    BY DoneShape DEF Runned
  <2>2. Step.procedure = "attach" => Step.failure \in {"fatal", "note"}
    BY Here DEF ShapeOf
  <2> QED BY <2>1, <2>2 DEF Moves, Flags, Goes
<1> QED BY <1>1, <1>2 DEF Moves

LEMMA DialUses == ASSUME TypeOK, Counters, Linked, Dial PROVE Uses /\ Linked'
<1> In("dial", "begin") /\ UNCHANGED <<stack, modem, history, calls>>
  BY DEF Dial
<1> PICK o \in Outcomes :
        /\ power' = IF o \in {"ok", "lost"} THEN "online" ELSE power
        /\ IF o = "lost" THEN Fails ELSE UNCHANGED faults
        /\ IF o = "ok" \/ LastTry THEN Done(o = "ok") ELSE GoOn("begin", i + 1, 0)
  BY DEF Dial
<1>1. Charged
  BY FaultsCharged
<1>2. Moves
  <2>1. CASE Done(o = "ok")
    <3>1. (o = "ok") \in BOOLEAN
      OBVIOUS
    <3> QED BY <2>1, <3>1, InMoves
  <2>2. CASE ~LastTry /\ GoOn("begin", i + 1, 0)
    BY <2>2, InShape, InMoves
  <2> QED BY <2>1, <2>2
<1>3. Flags /\ Goes
  BY <1>2, InShape, MovesGoes
<1> QED BY <1>1, <1>3, InShape DEF Uses, KeepsSettings, TypeOK, PowerStates, modem, link, history, Linked

LEMMA DownloadUses == ASSUME TypeOK, Counters, Linked, Download PROVE Uses /\ Linked'
<1> In("download", "begin") /\ UNCHANGED <<stack, faults, modem, history, calls>>
    /\ power' \in (IF power = "online" THEN {"online", "on"} ELSE {power})
  BY DEF Download
<1>1. Moves
  BY InMoves DEF Download
<1>2. Flags /\ Goes /\ Charged
  BY <1>1, InShape, MovesGoes, FaultsCharged
<1> QED BY <1>2, InShape DEF Uses, KeepsSettings, TypeOK, PowerStates, modem, link, history, Linked

LEMMA CheckGprsUses == ASSUME TypeOK, Counters, Linked, CheckGprs PROVE Uses /\ Linked'
<1> In("checkGprs", "begin") /\ UNCHANGED <<configured, firewall, link, power, stack, history, calls>>
  BY DEF CheckGprs, Unconfigured, OnlyLink
<1>1. Charged /\ Moves
  <2>1. CASE Unsent /\ IF LastTry THEN Done(FALSE) ELSE GoOn("begin", i + 1, 0)
    <3>1. CASE Done(FALSE)
      BY <2>1, <3>1, SentShape, InMoves
    <3>2. CASE ~LastTry /\ GoOn("begin", i + 1, 0)
      BY <2>1, <3>2, SentShape, InShape, InMoves
    <3> QED BY <2>1, <3>1, <3>2
  <2>2. ASSUME NEW answer \in Answers, Query(answer, gprs), Done(answer = "right")
        PROVE  Charged /\ Moves
    <3>1. (answer = "right") \in BOOLEAN /\ gprs \in BOOLEAN
      BY DEF TypeOK
    <3> QED BY <2>2, <3>1, QueryShape, InMoves
  <2>3. CASE Fails /\ Done(TRUE)
    BY <2>3, FaultsCharged, InMoves
  <2> QED BY <2>1, <2>2, <2>3 DEF CheckGprs
<1>2. Flags /\ Goes
  BY <1>1, InShape, MovesGoes
<1> QED BY <1>1, <1>2, InShape DEF Uses, KeepsSettings, TypeOK, PowerStates, link, history, Linked

LEMMA CloseGprsUses ==
    ASSUME TypeOK, Counters, Linked, CloseGprs
    PROVE  /\ Uses /\ Linked'
           /\ step' = 0 /\ result' = 1 => ~gprs' /\ ~suspended'
<1>0. gprs \in BOOLEAN /\ suspended \in BOOLEAN /\ attached \in BOOLEAN /\ (~gprs) \in BOOLEAN
  BY DEF TypeOK
<1>1. ASSUME In("closeGprs", "begin"), NEW answer \in Answers, Query(answer, ~gprs),
             IF answer = "right" THEN Done(TRUE)
                 ELSE IF LastTry THEN GoOn("close", 0, 0)
                 ELSE GoOn("begin", i + 1, 0),
             Unconfigured, UNCHANGED link, OnlyLink
      PROVE  /\ Uses /\ Linked'
             /\ step' = 0 /\ result' = 1 => ~gprs' /\ ~suspended'
  <2>1. Charged /\ (answer = "right" => ~gprs)
    BY <1>1, <1>0, QueryShape
  <2>2. Moves /\ (step' = 0 => answer = "right")
    <3>1. CASE Done(TRUE) /\ answer = "right"
      BY <1>1, <3>1, InMoves
    <3>2. CASE GoOn("close", 0, 0)
      BY <1>1, <3>2, InShape, InMoves DEF GoOn
    <3>3. CASE ~LastTry /\ GoOn("begin", i + 1, 0)
      BY <1>1, <3>3, InShape, InMoves DEF GoOn
    <3> QED BY <1>1, <3>1, <3>2, <3>3
  <2>3. Flags /\ Goes
    BY <1>1, <2>2, InShape, MovesGoes
  <2> QED BY <1>0, <1>1, <2>1, <2>2, <2>3, InShape
        DEF Uses, KeepsSettings, TypeOK, PowerStates, Unconfigured, OnlyLink, link, history, Linked
<1>2. ASSUME In("closeGprs", "close"), NEW o \in Outcomes,
             Exchange(o, configured, "format" \in configured),
             gprs' = (gprs /\ o \notin {"ok", "lost"}),
             suspended' = (suspended /\ gprs'),
             IF o # "unsent" THEN GoOn("verify", i, 0)
                 ELSE IF i + 2 >= Step.tries THEN Done(FALSE)
                 ELSE GoOn("close", i + 2, 0),
             UNCHANGED <<attached, firewall>>, OnlyLink
      PROVE  /\ Uses /\ Linked'
             /\ step' = 0 => result' = 0
  <2>1. Charged /\ configured' = configured
    <3>1. ("format" \in configured) \in BOOLEAN
      OBVIOUS
    <3> QED BY <1>2, <3>1, ExchangeShape
  <2>2. Moves /\ (step' = 0 => result' = 0)
    <3>1. CASE GoOn("verify", i, 0)
      BY <1>2, <3>1, InShape, InMoves DEF GoOn
    <3>2. CASE Done(FALSE)
      <4>1. Moves /\ Proceed(FALSE) /\ Step.failure = "result"
        BY <1>2, <3>2, InShape, InMoves, DoneShape, Here DEF ShapeOf
      <4> QED BY <4>1 DEF Proceed, ReturnFrom
    <3>3. CASE i + 2 < Step.tries /\ GoOn("close", i + 2, 0)
      BY <1>2, <3>3, InShape, InMoves DEF GoOn
    <3>4. i \in Nat /\ Step.tries \in Nat
      BY <1>2, InShape, Here DEF TypeOK
    <3>5. i + 2 >= Step.tries \/ i + 2 < Step.tries
      BY <3>4
    <3> QED BY <1>2, <3>1, <3>2, <3>3, <3>5, Zenon
  <2>3. Flags /\ Goes
    BY <1>2, <2>2, InShape, MovesGoes
  <2>4. gprs' \in BOOLEAN /\ suspended' \in BOOLEAN /\ Linked'
    BY <1>0, <1>2 DEF Linked
  <2> QED BY <1>2, <2>1, <2>2, <2>3, <2>4, InShape
        DEF Uses, KeepsSettings, TypeOK, PowerStates, OnlyLink, history
<1>3. ASSUME In("closeGprs", "verify"), NEW answer \in Answers, Query(answer, ~gprs),
             IF answer = "right" \/ LastTry THEN Done(answer = "right")
                 ELSE GoOn("close", i + 1, 0),
             Unconfigured, UNCHANGED link, OnlyLink
      PROVE  /\ Uses /\ Linked'
             /\ step' = 0 /\ result' = 1 => ~gprs' /\ ~suspended'
  <2>1. Charged /\ (answer = "right" => ~gprs)
    BY <1>3, <1>0, QueryShape
  <2>2. Moves /\ (step' = 0 /\ result' = 1 => answer = "right")
    <3>1. CASE Done(answer = "right")
      <4>1. (answer = "right") \in BOOLEAN
        OBVIOUS
      <4>2. Moves /\ Proceed(answer = "right") /\ Step.failure = "result"
        BY <1>3, <3>1, <4>1, InShape, InMoves, DoneShape, Here DEF ShapeOf
      <4> QED BY <4>2 DEF Proceed, ReturnFrom
    <3>2. CASE ~LastTry /\ GoOn("close", i + 1, 0)
      BY <1>3, <3>2, InShape, InMoves DEF GoOn
    <3> QED BY <1>3, <3>1, <3>2
  <2>3. Flags /\ Goes
    BY <1>3, <2>2, InShape, MovesGoes
  <2> QED BY <1>0, <1>3, <2>1, <2>2, <2>3, InShape
        DEF Uses, KeepsSettings, TypeOK, PowerStates, Unconfigured, OnlyLink, link, history, Linked
<1>4. OnlyLink
  BY DEF CloseGprs
<1>5. ~(step' = 0 /\ result' = 0 /\ result' = 1)
  OBVIOUS
<1> QED BY <1>1, <1>2, <1>3, <1>4, <1>5, Zenon DEF CloseGprs

(* A step that tells the caller how it went says 1 only if it succeeded.   *)
LEMMA DoneTells ==
    ASSUME TypeOK, step > 0, Step.failure = "result", NEW ok \in BOOLEAN, Done(ok)
    PROVE  result' = 1 /\ step' = 0 => ok
BY DEF Done, Proceed, ReturnFrom

LEMMA RetryMoves ==
    ASSUME TypeOK, Counters, NEW procedure \in {"suspend", "resume", "closeSocket", "dial"},
           In(procedure, "begin"), NEW ok \in BOOLEAN, Retry(ok)
    PROVE  /\ Moves /\ Flags /\ Goes
           /\ Step.failure = "result" /\ step' = 0 /\ result' = 1 => ok
<1>1. CASE ok /\ Done(ok)
  BY <1>1, InShape, InMoves, MovesGoes
<1>2. CASE ~ok /\ LastTry /\ Done(ok)
  BY <1>2, InShape, InMoves, MovesGoes, DoneTells
<1>3. CASE ~LastTry /\ GoOn("begin", i + 1, 0)
  BY <1>3, InShape, InMoves, MovesGoes DEF GoOn
<1> QED BY <1>1, <1>2, <1>3 DEF Retry

LEMMA DialTells ==
    ASSUME TypeOK, Counters, Dial, program = "gsmConnectToServer_Multi"
    PROVE  step' = 0 /\ result' = 1 => power' = "online"
<1> In("dial", "begin")
  BY DEF Dial
<1> PICK o \in Outcomes :
        /\ power' = IF o \in {"ok", "lost"} THEN "online" ELSE power
        /\ Retry(o = "ok")
  BY DEF Dial, Retry
<1>1. Step.failure = "result"
  BY InShape, Here DEF ShapeOf
<1>2. (o = "ok") \in BOOLEAN
  OBVIOUS
<1>3. step' = 0 /\ result' = 1 => o = "ok"
  BY <1>1, <1>2, RetryMoves
<1> QED BY <1>3

LEMMA SuspendSocketUses == ASSUME TypeOK, Counters, Linked, SuspendSocket PROVE Uses /\ Linked'
<1> In("suspend", "begin") /\ UNCHANGED <<configured, firewall, stack, attached, gprs, history, calls>>
  BY DEF SuspendSocket, Unconfigured
<1>1. /\ Fails \/ UNCHANGED faults
      /\ \E ok \in BOOLEAN : Retry(ok)
      /\ power' \in {power, "on"} /\ suspended' \in {suspended, gprs}
  BY DEF SuspendSocket
<1>2. Charged /\ Flags /\ Goes
  BY <1>1, FaultsCharged, RetryMoves
<1> QED BY <1>1, <1>2, InShape DEF Uses, KeepsSettings, TypeOK, PowerStates, history, Linked

LEMMA ResumeSocketUses == ASSUME TypeOK, Counters, Linked, ResumeSocket PROVE Uses /\ Linked'
<1> In("resume", "begin") /\ UNCHANGED <<configured, firewall, stack, attached, gprs, history, calls>>
  BY DEF ResumeSocket, Unconfigured
<1>1. /\ Sent \/ Unsent
      /\ \E ok \in BOOLEAN : Retry(ok)
      /\ power' \in {power, "online"} /\ (suspended' = suspended \/ suspended' = FALSE)
  BY DEF ResumeSocket
<1>2. Charged /\ Flags /\ Goes
  BY <1>1, SentShape, RetryMoves
<1>3. suspended' \in BOOLEAN /\ Linked'
  <2>1. gprs' = gprs /\ attached' = attached /\ suspended \in BOOLEAN
    BY DEF TypeOK
  <2>2. CASE suspended' = suspended
    BY <2>1, <2>2 DEF Linked
  <2>3. CASE suspended' = FALSE
    <3>1. suspended' \in BOOLEAN /\ ~suspended'
      BY <2>3
    <3>2. (gprs => attached) => (gprs' => attached')
      BY <2>1
    <3> QED BY <3>1, <3>2 DEF Linked
  <2> QED BY <1>1, <2>2, <2>3
<1>4. power' \in PowerStates
  BY <1>1 DEF PowerStates, TypeOK
<1> QED BY <1>2, <1>3, <1>4, InShape DEF Uses, KeepsSettings, TypeOK, history

LEMMA CloseSocketUses ==
    ASSUME TypeOK, Counters, Linked, CloseSocket
    PROVE  /\ Uses /\ Linked'
           /\ step' = 0 /\ result' = 1 => power' = "on" /\ ~suspended'
<1> In("closeSocket", "begin") /\ UNCHANGED <<attached, gprs, firewall, power, stack, history, calls>>
  BY DEF CloseSocket, OnlyLink
<1> PICK o \in Outcomes :
        /\ Exchange(o, configured, "format" \in configured)
        /\ suspended' = (suspended /\ o \notin {"ok", "lost"})
        /\ Retry(o = "ok")
  BY DEF CloseSocket
<1>1. Charged /\ configured' = configured /\ (o = "ok" => power = "on")
  <2>1. ("format" \in configured) \in BOOLEAN
    OBVIOUS
  <2> QED BY <2>1, ExchangeShape
<1>2. Flags /\ Goes /\ (step' = 0 /\ result' = 1 => o = "ok")
  <2>1. (o = "ok") \in BOOLEAN
    OBVIOUS
  <2>2. Step.failure = "result"
    BY InShape, Here DEF ShapeOf
  <2> QED BY <2>1, <2>2, RetryMoves
<1>3. suspended' \in BOOLEAN /\ Linked'
  BY DEF Linked, TypeOK
<1> QED BY <1>1, <1>2, <1>3, InShape DEF Uses, KeepsSettings, TypeOK, PowerStates, history

LEMMA MailNetworkUses == ASSUME TypeOK, Counters, Linked, MailNetwork PROVE Uses /\ Linked'
<1> In("mail", "begin") /\ UNCHANGED <<configured, firewall, link, power, stack, history, calls>>
  BY DEF MailNetwork, Unconfigured, OnlyLink
<1> PICK answer \in Answers :
        /\ Query(answer, attached)
        /\ IF answer = "right" THEN GoOn("establish", 0, j)
           ELSE IF j + 1 < Step.tries THEN GoOn("begin", 0, j + 1)
           ELSE Done(FALSE)
  BY DEF MailNetwork
<1>1. Charged
  BY QueryShape DEF TypeOK
<1>2. Moves
  <2>1. CASE GoOn("establish", 0, j)
    BY <2>1, InShape, InMoves
  <2>2. CASE j + 1 < Step.tries /\ GoOn("begin", 0, j + 1)
    BY <2>2, InShape, InMoves
  <2>3. CASE Done(FALSE)
    BY <2>3, InMoves
  <2> QED BY <2>1, <2>2, <2>3
<1>3. Flags /\ Goes
  BY <1>2, InShape, MovesGoes
<1> QED BY <1>1, <1>3, InShape DEF Uses, KeepsSettings, TypeOK, PowerStates, link, history, Linked

LEMMA MailCommandUses ==
    ASSUME TypeOK, Counters, Linked, MailCommand
    PROVE  Uses /\ Linked' /\ (step' = 0 => result' = 0)
<1> In("mail", "command") /\ UNCHANGED <<stack, modem, history, calls>>
  BY DEF MailCommand
<1>1. /\ Fails \/ UNCHANGED faults
      /\ Done(FALSE) \/ GoOn("text", 0, j)
      /\ power' \in {power, "typing"}
  BY DEF MailCommand, Sent, Unsent
<1>2. Charged
  BY <1>1, FaultsCharged
<1>3. Moves
  <2>1. CASE Done(FALSE)
    BY <2>1, InMoves
  <2>2. CASE GoOn("text", 0, j)
    BY <2>2, InShape, InMoves
  <2> QED BY <1>1, <2>1, <2>2
<1>4. step' = 0 => result' = 0
  <2>1. Step.failure = "result"
    BY InShape, Here DEF ShapeOf
  <2>2. CASE Done(FALSE)
    BY <2>1, <2>2 DEF Done, Proceed, ReturnFrom
  <2>3. CASE GoOn("text", 0, j)
    BY <2>3, InShape DEF GoOn
  <2> QED BY <1>1, <2>2, <2>3
<1>5. Flags /\ Goes
  BY <1>3, InShape, MovesGoes
<1> QED BY <1>1, <1>2, <1>4, <1>5, InShape DEF Uses, KeepsSettings, TypeOK, PowerStates, modem, link, history, Linked

LEMMA MailTextUses ==
    ASSUME TypeOK, Counters, Linked, MailOnce, MailText
    PROVE  /\ Uses /\ Linked' /\ step' = 0
           /\ result' = 1 => mailed' = 1
<1> In("mail", "text") /\ UNCHANGED <<stack, modem, sawAttached, calls>>
  BY DEF MailText
<1>1. mailed = 0 /\ Step.failure = "result" /\ step = Len(Programs[program])
  <2>1. Step.procedure = "mail" /\ step # 0
    BY InShape
  <2>2. program = "gsmEmailString"
    BY <2>1, Here DEF ShapeOf
  <2>3. program \in OneStepPrograms
    BY <2>2 DEF OneStepPrograms
  <2>4. Step.failure = "result" /\ step \in 1 .. Len(Programs[program])
    BY <2>1, <2>2, Here DEF ShapeOf
  <2>5. Len(Programs[program]) = 1
    BY <2>3, OneStepLayout, Zenon
  <2>6. mailed = 0
    BY <2>1, InShape DEF MailOnce
  <2> QED BY <2>4, <2>5, <2>6
<1>2. /\ Fails \/ UNCHANGED faults
      /\ power' \in {power, "on"} /\ mailed' \in {0, 1}
      /\ \E ok \in BOOLEAN : Done(ok) /\ (ok => mailed' = 1)
  <2>1. CASE power = "typing"
    <3> PICK taken \in BOOLEAN :
            /\ mailed' = IF taken THEN mailed + 1 ELSE mailed
            /\ \/ UNCHANGED faults /\ Done(taken /\ "format" \in configured)
               \/ taken /\ Fails /\ Done(FALSE)
      BY <2>1 DEF MailText
    <3>1. (taken /\ "format" \in configured) \in BOOLEAN
      OBVIOUS
    <3>2. mailed' \in {0, 1} /\ (taken => mailed' = 1)
      BY <1>1
    <3>3. power' \in {power, "on"}
      BY <2>1 DEF MailText
    <3>4. CASE UNCHANGED faults /\ Done(taken /\ "format" \in configured)
      BY <3>1, <3>2, <3>3, <3>4
    <3>5. CASE Fails /\ Done(FALSE)
      BY <3>2, <3>3, <3>5
    <3> QED BY <3>4, <3>5
  <2>2. CASE power # "typing"
    BY <1>1, <2>2 DEF MailText
  <2> QED BY <2>1, <2>2
<1>3. PICK ok \in BOOLEAN : Done(ok) /\ (ok => mailed' = 1)
  BY <1>2
<1>4. step' = 0 /\ (result' = 1 => mailed' = 1)
  BY <1>1, <1>3 DEF Done, Proceed, ReturnFrom, NextStep
<1>5. Charged /\ Flags /\ Goes
  BY <1>2, <1>3, FaultsCharged, InShape, InMoves, MovesGoes
<1> QED BY <1>2, <1>4, <1>5, InShape DEF Uses, KeepsSettings, TypeOK, PowerStates, modem, link, Linked

LEMMA EstablishedMoves ==
    ASSUME TypeOK, Counters, NEW procedure \in {"establish", "mail"}, NEW where, In(procedure, where),
           NEW ok \in BOOLEAN, Established(ok)
    PROVE  /\ Flags /\ Goes
           /\ procedure = "mail" /\ step' = 0 => result' = 0
<1>1. CASE procedure = "establish" /\ Done(ok)
  BY <1>1, InShape, InMoves, MovesGoes
<1>2. CASE GoOn("config", 0, j)
  BY <1>2, InShape, InMoves, MovesGoes DEF GoOn
<1>3. CASE j + 1 < Step.tries /\ GoOn("begin", 0, j + 1)
  BY <1>3, InShape, InMoves, MovesGoes DEF GoOn
<1>4. CASE procedure = "mail" /\ Done(FALSE)
  <2>1. Step.failure = "result"
    BY <1>4, InShape, Here DEF ShapeOf
  <2> QED BY <1>4, <2>1, InShape, InMoves, MovesGoes DEF Done, Proceed, ReturnFrom
<1> QED BY <1>1, <1>2, <1>3, <1>4, InShape DEF Established

LEMMA EstablishGoesOn ==
    ASSUME TypeOK, Counters, NEW procedure \in {"establish", "mail"}, NEW where, In(procedure, where),
           NEW w, NEW ii \in {0, i, i + 1}, ii = i + 1 => i + 1 # EstablishTries, GoOn(w, ii, j)
    PROVE  Flags /\ Goes /\ step' # 0
<1>1. StepBound(Step) = EstablishTries
  BY InShape, Here DEF StepBound, ShapeOf
<1>2. ii \in 0 .. StepBound(Step) - 1
  BY <1>1, InShape DEF EstablishTries, TypeOK
<1> QED BY <1>2, InShape, InMoves, MovesGoes DEF GoOn

(* gsmInitGprs with the contexts of the operators touches no other setting. *)
LEMMA SetContextShape == ASSUME TypeOK, SetContext(i) PROVE Charged /\ KeepsSettings
<1> PICK failed \in 0 .. 3 * gsmInitGprs.tries :
        /\ failed <= MaxFaults - faults /\ faults' = faults + failed
        /\ configured' \in {configured, OperatorsContext(i)}
  BY DEF SetContext
<1>1. failed \in Nat
  BY DEF gsmInitGprs, Do
<1>2. Charged
  BY <1>1, BoundsAssumption DEF Charged, TypeOK
<1>3. gsmInitGprs.name \in Names
  <2>1. gsmInitGprs = Programs["gsm_init"][20] /\ 20 \in 1 .. Len(Programs["gsm_init"])
        /\ "gsm_init" \in DOMAIN Programs
    BY InitLayout, ProgramNames
  <2> QED BY <2>1, Shape
<1>4. KeepsSettings
  BY <1>3 DEF KeepsSettings, OperatorsContext, TypeOK
<1> QED BY <1>2, <1>4

(* gsmEstablishGPRS takes its flag for granted only in gsm_init.           *)
LEMMA EstablishUses ==
    ASSUME TypeOK, Counters, Linked, FlagsKept, Establish
    PROVE  /\ Uses /\ Linked'
           /\ Step.procedure = "mail" /\ step' = 0 => result' = 0
<1>0. /\ gprs \in BOOLEAN /\ attached \in BOOLEAN /\ suspended \in BOOLEAN
      /\ UNCHANGED <<attached, suspended, firewall, power, stack, history, calls>>
  BY DEF TypeOK, Establish, OnlyLink
<1> UNCHANGED configured => KeepsSettings
  BY DEF KeepsSettings, TypeOK
<1> SUFFICES /\ stack = <<>> /\ step > 0 /\ Step.procedure \in {"establish", "mail"}
             /\ Charged /\ Flags /\ Goes /\ KeepsSettings
             /\ gprs' \in {gprs, attached}
             /\ Step.procedure = "mail" /\ step' = 0 => result' = 0
  <2>1. ASSUME gprs' \in {gprs, attached} PROVE gprs' \in BOOLEAN /\ Linked'
    <3>1. CASE gprs' = gprs
      BY <1>0, <3>1 DEF Linked
    <3>2. CASE gprs' = attached
      BY <1>0, <3>2 DEF Linked
    <3> QED BY <2>1, <3>1, <3>2
  <2> QED BY <1>0, <2>1 DEF Uses, KeepsSettings, TypeOK, PowerStates, history
<1>1. ASSUME NEW procedure \in {"establish", "mail"}, NEW where, In(procedure, where),
             UNCHANGED <<configured, gprs>>,
             NEW answer \in Answers, Query(answer, gprs),
             \/ \E ok \in BOOLEAN : Established(ok)
             \/ \E w : \E ii \in {0, i + 1} : (ii = i + 1 => i + 1 # EstablishTries) /\ GoOn(w, ii, j)
      PROVE  /\ stack = <<>> /\ step > 0 /\ Step.procedure \in {"establish", "mail"}
             /\ Charged /\ Flags /\ Goes /\ KeepsSettings
             /\ gprs' \in {gprs, attached}
             /\ Step.procedure = "mail" /\ step' = 0 => result' = 0
  <2>1. Charged
    BY <1>0, <1>1, QueryShape
  <2>2. Flags /\ Goes /\ (Step.procedure = "mail" /\ step' = 0 => result' = 0)
    BY <1>1, InShape, EstablishedMoves, EstablishGoesOn
  <2> QED BY <1>1, <2>1, <2>2, InShape
<1>2. ASSUME NEW procedure \in {"establish", "mail"}, NEW where, In(procedure, where),
             UNCHANGED <<configured, gprs>>, Fails,
             Established(TRUE) \/ GoOn("context", 0, j)
      PROVE  /\ stack = <<>> /\ step > 0 /\ Step.procedure \in {"establish", "mail"}
             /\ Charged /\ Flags /\ Goes /\ KeepsSettings
             /\ gprs' \in {gprs, attached}
             /\ Step.procedure = "mail" /\ step' = 0 => result' = 0
  <2>1. Charged
    BY <1>2, FaultsCharged
  <2>2. CASE Established(TRUE)
    BY <1>2, <2>1, <2>2, InShape, EstablishedMoves
  <2>3. CASE GoOn("context", 0, j)
    <3>1. 0 = i + 1 => i + 1 # EstablishTries
      BY DEF EstablishTries
    <3> QED BY <1>2, <2>1, <2>3, <3>1, InShape, EstablishGoesOn
  <2> QED BY <1>2, <2>2, <2>3
<1>3. CASE /\ In("establish", "begin") \/ In("mail", "establish")
           /\ In("establish", "begin") /\ "CONNECTED_TO_MOBILE_NETWORK" \notin gsmStatus
           /\ Proceed(TRUE) /\ UNCHANGED <<gsmStatus, faults>>
           /\ UNCHANGED <<configured, gprs>>
  <2>1. Step.procedure = "establish" /\ step > 0 /\ stack = <<>> /\ step # 0
    BY <1>3, InShape
  <2>2. Step.failure # "fatal"
    <3>1. CASE program = "gsm_init"
      BY <2>1, <3>1, Here DEF ShapeOf
    <3>2. CASE program = "gsm_connect_and_download_firmware"
      <4>1. step = 2
        BY <2>1, <3>2, Here DEF ShapeOf
      <4>2. LET s == Programs["gsm_connect_and_download_firmware"][1]
            IN  s.failure = "fatal" /\ s.name = "CONNECTED_TO_MOBILE_NETWORK"
        BY ConnectLayout DEF gsmConnectedToMobileNetwork, Do
      <4>3. "CONNECTED_TO_MOBILE_NETWORK" \in gsmStatus
        BY <3>2, <4>1, <4>2 DEF FlagsKept
      <4> QED BY <1>3, <4>3
    <3> QED BY <2>1, <3>1, <3>2, Here DEF ShapeOf
  <2>3. Goes
    BY <1>3, <2>1, <2>2, ProceedTyped DEF Goes
  <2>4. Flags /\ Charged
    BY <1>3, FaultsCharged DEF Flags, TypeOK, Runned
  <2> QED BY <1>3, <2>1, <2>3, <2>4
<1>4. ASSUME In("establish", "activate") \/ In("mail", "activate"),
             NEW o \in Outcomes, Exchange(o, configured, "format" \in configured),
             gprs' \in (IF o \in {"ok", "lost"} THEN {gprs, attached} ELSE {gprs}),
             GoOn("verify", i, j)
      PROVE  /\ stack = <<>> /\ step > 0 /\ Step.procedure \in {"establish", "mail"}
             /\ Charged /\ Flags /\ Goes /\ KeepsSettings
             /\ gprs' \in {gprs, attached}
             /\ Step.procedure = "mail" /\ step' = 0 => result' = 0
  <2>1. Charged /\ configured' = configured
    <3>1. ("format" \in configured) \in BOOLEAN
      OBVIOUS
    <3> QED BY <1>4, <3>1, ExchangeShape
  <2> PICK procedure \in {"establish", "mail"} : In(procedure, "activate")
    BY <1>4
  <2>2. Flags /\ Goes /\ step' # 0
    <3>1. i = i + 1 => i + 1 # EstablishTries
      BY DEF TypeOK
    <3> QED BY <1>4, <3>1, EstablishGoesOn
  <2> QED BY <1>4, <2>1, <2>2, InShape
<1>5. ASSUME In("establish", "context") \/ In("mail", "context"),
             SetContext(i), GoOn("activate", i, j), UNCHANGED gprs
      PROVE  /\ stack = <<>> /\ step > 0 /\ Step.procedure \in {"establish", "mail"}
             /\ Charged /\ Flags /\ Goes /\ KeepsSettings
             /\ gprs' \in {gprs, attached}
             /\ Step.procedure = "mail" /\ step' = 0 => result' = 0
  <2> PICK procedure \in {"establish", "mail"} : In(procedure, "context")
    BY <1>5
  <2>1. Charged /\ KeepsSettings
    BY <1>5, SetContextShape
  <2>2. Flags /\ Goes /\ step' # 0
    <3>1. i = i + 1 => i + 1 # EstablishTries
      BY DEF TypeOK
    <3> QED BY <1>5, <3>1, EstablishGoesOn
  <2> QED BY <1>5, <2>1, <2>2, InShape
<1> QED
  <2>1. CASE /\ In("establish", "begin") \/ In("mail", "establish")
             /\ IF In("establish", "begin") /\ "CONNECTED_TO_MOBILE_NETWORK" \notin gsmStatus
                    THEN Proceed(TRUE) /\ UNCHANGED <<gsmStatus, faults>>
                    ELSE \/ \E answer \in Answers :
                                /\ Query(answer, gprs)
                                /\ IF answer = "wrong" THEN GoOn("context", 0, j)
                                   ELSE Established(answer = "right")
                         \/ Listens /\ Fails /\ (Established(TRUE) \/ GoOn("context", 0, j))
             /\ UNCHANGED <<configured, gprs>>
    <3> PICK procedure \in {"establish", "mail"}, where \in {"begin", "establish"} :
            In(procedure, where)
      BY <2>1
    <3>1. ASSUME NEW answer \in Answers, Query(answer, gprs),
                 IF answer = "wrong" THEN GoOn("context", 0, j) ELSE Established(answer = "right")
          PROVE  \/ \E ok \in BOOLEAN : Established(ok)
                 \/ \E w : \E ii \in {0, i + 1} :
                        (ii = i + 1 => i + 1 # EstablishTries) /\ GoOn(w, ii, j)
      <4>1. CASE GoOn("context", 0, j)
        <5>1. 0 = i + 1 => i + 1 # EstablishTries
          BY DEF EstablishTries
        <5> QED BY <4>1, <5>1
      <4>2. CASE Established(answer = "right")
        <5>1. (answer = "right") \in BOOLEAN
          OBVIOUS
        <5> QED BY <4>2, <5>1
      <4> QED BY <3>1, <4>1, <4>2
    <3> QED BY <1>1, <1>2, <1>3, <2>1, <3>1
  <2>2. CASE /\ In("establish", "activate") \/ In("mail", "activate")
             /\ \E o \in Outcomes :
                    /\ Exchange(o, configured, "format" \in configured)
                    /\ gprs' \in (IF o \in {"ok", "lost"} THEN {gprs, attached} ELSE {gprs})
             /\ GoOn("verify", i, j)
    BY <1>4, <2>2
  <2>3. CASE /\ In("establish", "verify") \/ In("mail", "verify")
             /\ \E answer \in Answers :
                    /\ Query(answer, gprs)
                    /\ IF answer = "right" \/ i + 1 = EstablishTries THEN Established(answer = "right")
                       ELSE GoOn("context", i + 1, j)
             /\ UNCHANGED <<configured, gprs>>
    <3> PICK procedure \in {"establish", "mail"} : In(procedure, "verify")
      BY <2>3
    <3> PICK answer \in Answers :
            /\ Query(answer, gprs)
            /\ IF answer = "right" \/ i + 1 = EstablishTries THEN Established(answer = "right")
               ELSE GoOn("context", i + 1, j)
      BY <2>3
    <3>1. (answer = "right") \in BOOLEAN
      OBVIOUS
    <3>2. \/ \E ok \in BOOLEAN : Established(ok)
          \/ \E w : \E ii \in {0, i + 1} :
                 (ii = i + 1 => i + 1 # EstablishTries) /\ GoOn(w, ii, j)
      BY <3>1
    <3> QED BY <1>1, <2>3, <3>2
  <2>4. CASE /\ In("establish", "context") \/ In("mail", "context")
             /\ SetContext(i)
             /\ GoOn("activate", i, j)
             /\ UNCHANGED gprs
    BY <1>5, <2>4
  <2> QED BY <2>1, <2>2, <2>3, <2>4 DEF Establish

LEMMA AttachUses ==
    ASSUME TypeOK, Counters, Linked, Attach
    PROVE  /\ Uses /\ Linked'
           /\ sawAttached => sawAttached'
           /\ step' # step => (Step.name \in gsmStatus' => sawAttached')
<1>0. In("attach", "begin") /\ UNCHANGED <<power, stack, modem, mailed, calls>>
      /\ step > 0 /\ step # 0 /\ stack = <<>> /\ Step.procedure = "attach" /\ phase = "begin"
      /\ attached \in BOOLEAN /\ sawAttached \in BOOLEAN /\ Step.name # Runned /\ Step.name \in Names
  BY InShape, Here DEF Attach, TypeOK, ShapeOf, Runned
<1> DEFINE runned == IF program = "gsm_init" THEN {Runned} ELSE {}
<1>1. PICK answer \in Answers :
          /\ Query(answer, attached)
          /\ sawAttached' = (sawAttached \/ answer = "right")
          /\ gsmStatus' =
                 IF answer = "right" THEN gsmStatus \cup {Step.name} \cup runned
                 ELSE IF LastTry THEN gsmStatus \ ({Step.name} \cup runned)
                 ELSE IF answer = "wrong" THEN (gsmStatus \ {Step.name}) \cup runned
                 ELSE gsmStatus
          /\ IF answer = "right" \/ LastTry THEN Proceed(answer = "right")
             ELSE /\ i' = i + 1
                  /\ UNCHANGED <<program, step, phase, j, k, result>>
  BY DEF Attach, Runned
<1>2. Charged
  BY <1>0, <1>1, QueryShape
<1>3. runned \in SUBSET {Runned}
  OBVIOUS
<1> HIDE DEF runned
<1>4. Flags
  <2>1. gsmStatus \in SUBSET (Names \cup {Runned})
    BY DEF TypeOK, Runned
  <2>2. CASE answer = "right"
    BY <1>0, <1>1, <1>3, <2>1, <2>2 DEF Flags
  <2>3. CASE answer # "right" /\ LastTry
    BY <1>0, <1>1, <1>3, <2>1, <2>3 DEF Flags
  <2>4. CASE answer = "wrong" /\ ~LastTry
    BY <1>0, <1>1, <1>3, <2>1, <2>4 DEF Flags
  <2>5. CASE answer = "none" /\ ~LastTry
    BY <1>0, <1>1, <1>3, <2>1, <2>5 DEF Flags
  <2> QED BY <2>2, <2>3, <2>4, <2>5 DEF Answers
<1>5. Goes /\ (step' # step => (Step.name \in gsmStatus' => sawAttached'))
  <2>1. CASE answer = "right" /\ Proceed(TRUE)
    BY <1>0, <1>1, <2>1, ProceedTyped DEF Goes
  <2>2. CASE answer # "right" /\ LastTry /\ Proceed(FALSE)
    <3>1. gsmStatus' = gsmStatus \ ({Step.name} \cup runned)
      BY <1>1, <2>2
    <3> QED BY <1>0, <3>1, <2>2, ProceedTyped DEF Goes
  <2>3. CASE answer # "right" /\ ~LastTry
    <3>1. i' = i + 1 /\ UNCHANGED <<program, step, phase, j, k, result>>
      BY <1>1, <2>3
    <3>2. i' \in 0 .. StepBound(Step) - 1 /\ j' \in 0 .. Step.tries - 1
      BY <1>0, <2>3, <3>1, InShape
    <3>3. PlaceTyped'
      BY <1>0, <3>1, <3>2, GoOnTyped DEF TypeOK
    <3> QED BY <3>1, <3>3 DEF Goes, TypeOK
  <2>4. answer = "right" => (answer = "right") = TRUE
    OBVIOUS
  <2>5. answer # "right" => (answer = "right") = FALSE
    OBVIOUS
  <2> QED BY <1>1, <2>1, <2>2, <2>3, <2>4, <2>5
<1>6. sawAttached' \in BOOLEAN /\ (sawAttached => sawAttached')
  BY <1>0, <1>1
<1> QED BY <1>0, <1>2, <1>4, <1>5, <1>6 DEF Uses, KeepsSettings, TypeOK, PowerStates, Linked, modem, link

-----------------------------------------------------------------------------
(* What every step of a program has in common.                             *)

Works ==
    /\ stack = <<>> /\ step > 0 /\ UNCHANGED <<stack, attached, calls>>
    /\ Charged /\ Flags /\ Goes
    /\ power' \in PowerStates /\ (program = "gsm_init" => power' = power)
    /\ configured' \in SUBSET Names /\ firewall' \in SUBSET (1 .. RuleCount)
    /\ gprs' \in BOOLEAN /\ suspended' \in BOOLEAN /\ sawAttached' \in BOOLEAN /\ mailed' \in 0 .. 1
    /\ Linked'
    /\ sawAttached => sawAttached'
    /\ Step.procedure = "attach" /\ step' # step => (Step.name \in gsmStatus' => sawAttached')
    /\ Step.procedure = "mail" => mailed' = mailed \/ step' = 0

LEMMA ConfigureWorks ==
    ASSUME TypeOK, Counters, Linked, Configure
    PROVE  Works /\ Configures
<1>1. Configures
  BY ConfigureShape
<1>2. Flags /\ Goes
  BY <1>1, MovesGoes DEF Configures
<1>3. Step.procedure # "attach"
  BY DEF Configure, TurnedOn, FactoryDefault, SetUntilOk, AskFirst, SetIt, AskAgain,
         ErrorLevel, SetByte, GetNumber, InitGprs, Check, Firewall, ClearRules, AddRule,
         LookForRule, ListRules, EmailConfig, In
<1> QED BY <1>1, <1>2, <1>3 DEF Works, Configures, TypeOK, PowerStates, link, history, Linked

LEMMA UseWorks ==
    ASSUME TypeOK, Counters, Linked, FlagsKept, MailOnce, Use
    PROVE  Works /\ Uses
<1>1. Uses /\ Linked'
  BY AttachUses, EstablishUses, DialUses, DownloadUses, CheckGprsUses, CloseGprsUses,
     SuspendSocketUses, ResumeSocketUses, CloseSocketUses, MailNetworkUses, MailCommandUses,
     MailTextUses DEF Use
<1>2. /\ sawAttached => sawAttached'
      /\ Step.procedure = "attach" /\ step' # step => (Step.name \in gsmStatus' => sawAttached')
  <2>1. CASE Attach
    BY <2>1, AttachUses
  <2>2. CASE ~Attach
    <3>1. sawAttached' = sawAttached
      BY <2>2 DEF Use, Establish, Dial, Download, CheckGprs, CloseGprs, SuspendSocket, ResumeSocket,
                  CloseSocket, MailNetwork, MailCommand, MailText, OnlyLink, history
    <3>2. Step.procedure # "attach"
      BY <2>2 DEF Use, Establish, Dial, Download, CheckGprs, CloseGprs, SuspendSocket, ResumeSocket,
                  CloseSocket, MailNetwork, MailCommand, MailText, In
    <3> QED BY <3>1, <3>2
  <2> QED BY <2>1, <2>2
<1>3. Step.procedure = "mail" => mailed' = mailed \/ step' = 0
  <2>1. CASE MailText
    BY <2>1, MailTextUses
  <2>2. CASE ~MailText
    BY <2>2 DEF Use, Attach, Establish, Dial, Download, CheckGprs, CloseGprs, SuspendSocket,
                ResumeSocket, CloseSocket, MailNetwork, MailCommand, OnlyLink, history
  <2> QED BY <2>1, <2>2
<1>4. program = "gsm_init" => power' = power
  <2>1. Step.procedure \in {"attach", "establish", "dial", "download", "checkGprs", "closeGprs",
                            "suspend", "resume", "closeSocket", "mail"}
    BY DEF Use, Attach, Establish, Dial, Download, CheckGprs, CloseGprs, SuspendSocket,
           ResumeSocket, CloseSocket, MailNetwork, MailCommand, MailText, In
  <2>2. program = "gsm_init" => Step.procedure \in {"attach", "establish"}
    BY <1>1, <2>1, Here DEF ShapeOf, Uses
  <2> QED BY <1>1, <2>2 DEF Uses
<1>5. configured' \in SUBSET Names
  BY <1>1 DEF Uses, KeepsSettings
<1> QED BY <1>1, <1>2, <1>3, <1>4, <1>5 DEF Works, Uses, TypeOK

-----------------------------------------------------------------------------
(* What it keeps.                                                          *)

(* No two steps of a program have the same name. *)
LEMMA DistinctNames ==
    \A p \in DOMAIN Programs : \A n \in 1 .. Len(Programs[p]) : \A m \in 1 .. n - 1 :
        Programs[p][m].name # Programs[p][n].name
<1> SUFFICES ASSUME NEW p \in DOMAIN Programs, NEW n \in 1 .. Len(Programs[p]), NEW m \in 1 .. n - 1
             PROVE  Programs[p][m].name # Programs[p][n].name
  OBVIOUS
<1>1. CASE p = "gsm_init"
  BY <1>1, InitNames, InitLayout
<1>2. CASE p = "gsm_connect_and_download_firmware"
  <2>1. n \in {1, 2, 3, 4} /\ m \in {1, 2, 3, 4} /\ m < n
    BY <1>2, ConnectLayout
  <2> QED BY <1>2, <2>1, ConnectLayout DEF gsmConnectedToMobileNetwork, gsmEstablishGPRS, Do
<1>3. CASE p \in OneStepPrograms
  BY <1>3, Lengths
<1> QED BY <1>1, <1>2, <1>3, ProgramNames

LEMMA WorksTyped ==
    ASSUME TypeOK, PowerTyped, Counters, Works
    PROVE  TypeOK' /\ PowerTyped' /\ Counters' /\ StackInv'
<1>1. stack = <<>> /\ stack' = <<>>
  BY DEF Works
<1>2. StackInv'
  BY <1>1 DEF StackInv, Owed, Paid, Nested, Settled, Between
<1>3. Counters'
  BY <1>1 DEF Works, Goes, PlaceTyped, Counters
<1>4. PowerTyped'
  BY <1>1 DEF Works, Charged, Goes, PowerTyped
<1>5. TypeOK'
  BY <1>1 DEF Works, Goes, Flags, Charged, PlaceTyped, TypeOK, PowerStates, Runned
<1> QED BY <1>2, <1>3, <1>4, <1>5

(* Where a step of a program leads. *)
LEMMA WorksGoes ==
    ASSUME TypeOK, Works
    PROVE  /\ program' = program /\ step \in 1 .. Len(Programs[program])
           /\ \/ step' = step /\ result' = result
              \/ step' = 0 /\ result' = 0
              \/ /\ \/ step' = 0 /\ result' = 1 /\ step = Len(Programs[program])
                    \/ step' = step + 1 /\ step' \in 2 .. Len(Programs[program])
                 /\ Step.failure = "fatal" => Step.name \in gsmStatus'
<1>1. step # 0
  BY DEF Works
<1>2. CASE UNCHANGED <<program, step, result>>
  BY <1>1, <1>2, Here
<1>3. CASE \E ok \in BOOLEAN : /\ Proceed(ok)
                               /\ ok /\ Step.failure = "fatal" => Step.name \in gsmStatus'
  <2> PICK ok \in BOOLEAN : /\ Proceed(ok)
                            /\ ok /\ Step.failure = "fatal" => Step.name \in gsmStatus'
    BY <1>3
  <2> QED BY <1>1, ProceedShape, Here
<1> QED BY <1>2, <1>3 DEF Works, Goes

(* The flags of all steps so far, this one included. *)
FlagsSoFar ==
    \A m \in 1 .. step :
        Programs[program][m].failure = "fatal" => Programs[program][m].name \in gsmStatus'

LEMMA WorksFlags ==
    ASSUME TypeOK, FlagsKept, Works
    PROVE  /\ FlagsKept'
           /\ step' = 0 /\ result' = 1 => FlagsSoFar /\ step = Len(Programs[program])
<1>1. step # 0 /\ step > 0
  BY DEF Works
<1>2. \A m \in 1 .. step - 1 :
          Programs[program][m].failure = "fatal" => Programs[program][m].name \in gsmStatus'
  <2> SUFFICES ASSUME NEW m \in 1 .. step - 1, Programs[program][m].failure = "fatal"
               PROVE  Programs[program][m].name \in gsmStatus'
    OBVIOUS
  <2>1. Programs[program][m].name \in gsmStatus
    BY DEF FlagsKept
  <2>2. Programs[program][m].name # Step.name
    BY <1>1, Here, DistinctNames
  <2>3. Programs[program][m].name # Runned
    BY <1>1, Here, Shape DEF ShapeOf, Runned
  <2> QED BY <2>1, <2>2, <2>3 DEF Works, Flags
<1>3. CASE step' = step /\ program' = program
  BY <1>1, <1>2, <1>3 DEF FlagsKept
<1>4. CASE step' = 0 /\ result' = 0
  BY <1>4 DEF FlagsKept
<1>5. CASE /\ \/ step' = 0 /\ result' = 1 /\ step = Len(Programs[program])
              \/ step' = step + 1 /\ step' \in 2 .. Len(Programs[program])
           /\ Step.failure = "fatal" => Step.name \in gsmStatus'
           /\ program' = program
  <2>1. FlagsSoFar
    <3> SUFFICES ASSUME NEW m \in 1 .. step, Programs[program][m].failure = "fatal"
                 PROVE  Programs[program][m].name \in gsmStatus'
      BY DEF FlagsSoFar
    <3>1. CASE m = step
      BY <1>1, <1>5, <3>1, Here
    <3>2. CASE m # step
      <4>1. m \in 1 .. step - 1
        BY <3>2, <1>1, Here
      <4> QED BY <1>2, <4>1
    <3> QED BY <3>1, <3>2
  <2>2. step' = step + 1 => FlagsKept'
    <3> SUFFICES ASSUME step' = step + 1, NEW m \in 1 .. step' - 1,
                        Programs[program][m].failure = "fatal"
                 PROVE  Programs[program][m].name \in gsmStatus'
      BY <1>5 DEF FlagsKept
    <3>1. m \in 1 .. step
      BY <1>1, Here
    <3> QED BY <2>1, <3>1 DEF FlagsSoFar
  <2>3. step' = 0 => FlagsKept'
    BY DEF FlagsKept
  <2> QED BY <1>5, <2>1, <2>2, <2>3
<1>6. ~(step' = 0 /\ step' = step)
  BY <1>1
<1>7. ~(result' = 0 /\ result' = 1)
  OBVIOUS
<1> QED BY <1>3, <1>4, <1>5, <1>6, <1>7, WorksGoes

LEMMA WorksFresh ==
    ASSUME TypeOK, Fresh, Works
    PROVE  /\ Fresh'
           /\ /\ step' = 0
              /\ (program = "gsm_init" /\ result' = 1) \/ program = "gsm_connect_and_download_firmware"
              /\ "CONNECTED_TO_MOBILE_NETWORK" \in gsmStatus'
              => sawAttached'
<1>1. step # 0 /\ step > 0 /\ ShapeOf(program, step, Step) /\ step \in Nat /\ step' \in Nat
      /\ program \in DOMAIN Programs
  BY Here, WorksGoes DEF Works
<1>2. CASE Step.procedure = "attach"
  <2>1. Step.name = "CONNECTED_TO_MOBILE_NETWORK"
    BY <1>1, <1>2 DEF ShapeOf
  <2>2. step' # step => ("CONNECTED_TO_MOBILE_NETWORK" \in gsmStatus' => sawAttached')
    BY <1>2, <2>1 DEF Works
  <2>3. \/ program = "gsm_init" /\ step = 23
        \/ program = "gsm_connect_and_download_firmware" /\ step = 1
    BY <1>1, <1>2 DEF ShapeOf
  <2> QED BY <1>1, <2>2, <2>3, WorksGoes DEF Fresh
<1>3. CASE Step.procedure # "attach"
  <2>1. Step.name # "CONNECTED_TO_MOBILE_NETWORK"
    BY <1>1, <1>3 DEF ShapeOf
  <2>2. "CONNECTED_TO_MOBILE_NETWORK" \in gsmStatus' => "CONNECTED_TO_MOBILE_NETWORK" \in gsmStatus
    BY <2>1 DEF Works, Flags, Runned
  <2>3. /\ program = "gsm_init" => step # 23
        /\ program = "gsm_connect_and_download_firmware" => step # 1
    BY <1>1, <1>3 DEF ShapeOf
  <2>4. /\ program = "gsm_init" => Len(Programs[program]) = 24
        /\ program' = program
        /\ step' \in {0, step, step + 1}
        /\ step' = 0 /\ result' = 1 => step = Len(Programs[program])
    BY <1>1, WorksGoes, Lengths
  <2>5. sawAttached => sawAttached'
    BY DEF Works
  <2>6. CASE program = "gsm_init"
    <3>1. step' > 23 \/ (step' = 0 /\ result' = 1) => step > 23
      <4>1. step' = 0 /\ result' = 1 => step = 24
        BY <2>4, <2>6
      <4>2. step' \in {0, step, step + 1} /\ step # 23
        BY <2>3, <2>4, <2>6
      <4>3. step \in Nat
        BY <1>1
      <4> QED BY <4>1, <4>2, <4>3
    <3> QED BY <2>2, <2>4, <2>5, <2>6, <3>1 DEF Fresh
  <2>7. CASE program = "gsm_connect_and_download_firmware"
    <3>1. step > 1
      BY <1>1, <2>3, <2>7
    <3> QED BY <2>2, <2>4, <2>5, <2>7, <3>1 DEF Fresh
  <2>8. CASE program \notin {"gsm_init", "gsm_connect_and_download_firmware"}
    BY <2>4, <2>8 DEF Fresh
  <2> QED BY <2>6, <2>7, <2>8
<1> QED BY <1>2, <1>3

LEMMA WorksMail == ASSUME TypeOK, MailOnce, Works PROVE MailOnce'
<1> SUFFICES ASSUME step' > 0, Step'.procedure = "mail"
             PROVE  mailed' = 0
  BY DEF MailOnce
<1>1. step > 0 /\ step # 0
  BY DEF Works
<1>2. CASE step' = step
  <2>1. Step' = Step
    BY <1>2, WorksGoes DEF Step
  <2> QED BY <1>1, <1>2, <2>1 DEF Works, MailOnce
<1>3. CASE step' = step + 1 /\ step' \in 2 .. Len(Programs[program])
  <2>1. Step' = Programs[program][step'] /\ step' \in 1 .. Len(Programs[program])
    BY <1>3, WorksGoes DEF Step
  <2>2. program = "gsmEmailString"
    BY <1>1, <2>1, Here, Shape DEF ShapeOf
  <2>3. Len(Programs[program]) = 1
    BY <2>2, <1>1, Here, Lengths DEF OneStepPrograms
  <2> QED BY <1>3, <2>3
<1> QED BY <1>2, <1>3, WorksGoes

(* The program has left its step with success, or without looking. *)
Advanced == step' = step + 1 \/ (step' = 0 /\ result' = 1)

LEMMA AdvancedDone ==
    ASSUME TypeOK, step > 0
    PROVE  /\ \A ok \in BOOLEAN : Done(ok) /\ Advanced => ok \/ Step.failure \notin {"fatal", "result"}
           /\ \A w, ii, jj : GoOn(w, ii, jj) => ~Advanced /\ phase' = w /\ step' = step
           /\ \A ok \in BOOLEAN : Done(ok) => phase' = "begin"
<1>1. step \in Nat
  BY Here
<1> QED BY <1>1 DEF Advanced, Done, Proceed, ReturnFrom, NextStep, GoOn

(* What the steps of gsm_init that see or set their setting achieve. *)
Achieves ==
    /\ Confirms(Step) /\ Advanced =>
           Step.name \in configured' /\ (Step.procedure = "set" => "format" \in configured')
    /\ Step.procedure = "errorLevel" /\ phase' = "ok" => Step.name \in configured'

LEMMA SetUntilOkAchieves == ASSUME TypeOK, Counters, SetUntilOk PROVE Achieves
<1> In("set", "begin") /\ step > 0 /\ Step.procedure = "set" /\ Step.name \in Names
  BY InShape DEF SetUntilOk
<1> PICK o \in Outcomes :
        /\ Set(o, Setting)
        /\ IF o = "ok" \/ LastTry THEN Done(o = "ok") ELSE GoOn("begin", i + 1, 0)
  BY DEF SetUntilOk
<1>1. o = "ok" => {Step.name, "format"} \subseteq configured'
  BY SetShape DEF Setting
<1>2. CASE Done(o = "ok")
  <2>1. (o = "ok") \in BOOLEAN
    OBVIOUS
  <2> QED BY <1>1, <1>2, <2>1, AdvancedDone DEF Achieves, Confirms
<1>3. CASE GoOn("begin", i + 1, 0)
  BY <1>3, AdvancedDone DEF Achieves
<1> QED BY <1>2, <1>3

LEMMA AskFirstAchieves == ASSUME TypeOK, Counters, AskFirst PROVE Achieves
<1> PICK procedure \in {"verify", "guess"} : In(procedure, "begin")
  BY DEF AskFirst
<1> step > 0 /\ Step.procedure = procedure /\ UNCHANGED configured
  BY InShape DEF AskFirst
<1> PICK answer \in Answers, lucky \in BOOLEAN :
        /\ Query(answer, Setting \in configured)
        /\ lucky => Step.procedure = "guess"
        /\ IF answer = "right" \/ lucky THEN Done(TRUE)
           ELSE IF answer = "none" /\ ~LastTry THEN GoOn("begin", i + 1, 0)
           ELSE GoOn("set", 0, 0)
  BY DEF AskFirst
<1>1. answer = "right" => Step.name \in configured'
  <2>1. (Setting \in configured) \in BOOLEAN
    OBVIOUS
  <2> QED BY <2>1, QueryShape DEF Setting
<1>2. CASE Done(TRUE) /\ (answer = "right" \/ lucky)
  BY <1>1, <1>2 DEF Achieves, Confirms
<1>3. CASE GoOn("begin", i + 1, 0) \/ GoOn("set", 0, 0)
  BY <1>3, AdvancedDone DEF Achieves
<1> QED BY <1>2, <1>3

LEMMA SetItAchieves == ASSUME TypeOK, Counters, SetIt PROVE Achieves
<1> PICK procedure \in {"verify", "guess"} : In(procedure, "set")
  BY DEF SetIt
<1> step > 0 /\ Step.procedure = procedure
  BY InShape
<1>1. CASE Done(FALSE)
  BY <1>1, AdvancedDone DEF Achieves, Confirms
<1>2. CASE GoOn("verify", i, 0) \/ GoOn("set", i, j + 1)
  BY <1>2, AdvancedDone DEF Achieves
<1> QED BY <1>1, <1>2 DEF SetIt

LEMMA AskAgainAchieves == ASSUME TypeOK, Counters, AskAgain PROVE Achieves
<1> PICK procedure \in {"verify", "guess"} : In(procedure, "verify")
  BY DEF AskAgain
<1> step > 0 /\ Step.procedure = procedure /\ UNCHANGED configured
  BY InShape DEF AskAgain
<1> PICK answer \in Answers :
        /\ Query(answer, Setting \in configured)
        /\ IF answer = "right" \/ LastTry THEN Done(answer = "right")
           ELSE GoOn("set", i + 1, 0)
  BY DEF AskAgain
<1>1. answer = "right" => Step.name \in configured'
  <2>1. (Setting \in configured) \in BOOLEAN
    OBVIOUS
  <2> QED BY <2>1, QueryShape DEF Setting
<1>2. CASE Done(answer = "right")
  <2>1. (answer = "right") \in BOOLEAN
    OBVIOUS
  <2> QED BY <1>1, <1>2, <2>1, AdvancedDone DEF Achieves, Confirms
<1>3. CASE GoOn("set", i + 1, 0)
  BY <1>3, AdvancedDone DEF Achieves
<1> QED BY <1>2, <1>3

LEMMA ErrorLevelAchieves == ASSUME TypeOK, Counters, Confirmed, ErrorLevel PROVE Achieves
<1> PICK where \in {"begin", "ok", "set", "verify"} : In("errorLevel", where)
  BY DEF ErrorLevel
<1> step > 0 /\ Step.procedure = "errorLevel" /\ phase = where /\ Step.failure = "fatal"
    /\ Step.name \in Names
  BY InShape, Here DEF ShapeOf
<1>1. ASSUME NEW answer \in Answers, Query(answer, Setting \in configured),
             IF answer = "none" /\ ~LastTry THEN GoOn("begin", i + 1, 0)
                 ELSE GoOn(IF answer = "right" THEN "ok" ELSE "set", 0, 0),
             UNCHANGED configured
      PROVE  Achieves
  <2>1. answer = "right" => Step.name \in configured'
    <3>1. (Setting \in configured) \in BOOLEAN
      OBVIOUS
    <3> QED BY <1>1, <3>1, QueryShape DEF Setting
  <2>2. CASE answer = "none" /\ GoOn("begin", i + 1, 0)
    BY <2>2, AdvancedDone DEF Achieves
  <2>3. CASE answer = "right" /\ GoOn("ok", 0, 0)
    BY <2>1, <2>3, AdvancedDone DEF Achieves
  <2>4. CASE answer # "right" /\ GoOn("set", 0, 0)
    BY <2>4, AdvancedDone DEF Achieves
  <2> QED BY <1>1, <2>2, <2>3, <2>4
<1>2. ASSUME where = "ok", NEW o \in Outcomes,
             Exchange(o, configured, "format" \in configured), Done(o = "ok")
      PROVE  Achieves
  <2>1. configured' = configured
    <3>1. ("format" \in configured) \in BOOLEAN
      OBVIOUS
    <3> QED BY <1>2, <3>1, ExchangeShape
  <2>2. Step.name \in configured
    BY <1>2 DEF Confirmed
  <2> QED BY <2>1, <2>2 DEF Achieves
<1>3. CASE Done(FALSE)
  BY <1>3, AdvancedDone DEF Achieves, Confirms
<1>4. CASE GoOn("verify", i, 0)
  BY <1>4, AdvancedDone DEF Achieves
<1>5. CASE GoOn("set", i + 2, 0)
  BY <1>5, AdvancedDone DEF Achieves
<1>6. CASE GoOn("set", i + 1, 0)
  BY <1>6, AdvancedDone DEF Achieves
<1> QED
  <2>1. CASE \E answer \in Answers :
                 /\ Query(answer, Setting \in configured)
                 /\ IF answer = "none" /\ ~LastTry THEN GoOn("begin", i + 1, 0)
                    ELSE GoOn(IF answer = "right" THEN "ok" ELSE "set", 0, 0)
                 /\ UNCHANGED configured
    BY <1>1, <2>1
  <2>2. CASE In("errorLevel", "ok") /\ \E o \in Outcomes :
                 Exchange(o, configured, "format" \in configured) /\ Done(o = "ok")
    <3>1. where = "ok"
      BY <2>2 DEF In
    <3> QED BY <1>2, <2>2, <3>1
  <2>3. CASE \E o \in Outcomes :
                 /\ Set(o, Setting)
                 /\ IF o = "ok" THEN GoOn("verify", i, 0)
                    ELSE IF i + 2 < Step.tries THEN GoOn("set", i + 2, 0)
                    ELSE Done(FALSE)
    BY <1>3, <1>4, <1>5, <2>3
  <2>4. CASE \E answer \in Answers :
                 /\ Query(answer, Setting \in configured)
                 /\ IF answer = "none" /\ ~LastTry THEN GoOn("set", i + 1, 0) ELSE Done(FALSE)
    BY <1>3, <1>6, <2>4
  <2> QED BY <2>1, <2>2, <2>3, <2>4 DEF ErrorLevel

LEMMA OthersAchieve ==
    ASSUME TypeOK, step > 0, Step.procedure \notin {"verify", "set", "errorLevel"}
    PROVE  Achieves
BY DEF Achieves, Confirms

LEMMA ConfigureAchieves == ASSUME TypeOK, Counters, Confirmed, Configure PROVE Achieves
<1>1. CASE SetUntilOk \/ AskFirst \/ SetIt \/ AskAgain \/ ErrorLevel
  BY <1>1, SetUntilOkAchieves, AskFirstAchieves, SetItAchieves, AskAgainAchieves, ErrorLevelAchieves
<1>2. CASE TurnedOn \/ FactoryDefault \/ SetByte \/ GetNumber \/ InitGprs \/ Check \/ Firewall \/ EmailConfig
  <2>1. step > 0 /\ Step.procedure \notin {"verify", "set", "errorLevel"}
    BY <1>2 DEF TurnedOn, FactoryDefault, SetByte, GetNumber, InitGprs, Check, Firewall, ClearRules,
                AddRule, LookForRule, ListRules, EmailConfig, In
  <2> QED BY <2>1, OthersAchieve
<1> QED BY <1>1, <1>2 DEF Configure

LEMMA UseAchieves ==
    ASSUME TypeOK, Counters, Use
    PROVE  Achieves /\ step > 0 /\ Step.procedure \notin {"verify", "set", "errorLevel", "factory", "firewall"}
<1>1. step > 0 /\ Step.procedure \notin {"verify", "set", "errorLevel", "factory", "firewall"}
  BY DEF Use, Attach, Establish, Dial, Download, CheckGprs, CloseGprs, SuspendSocket,
         ResumeSocket, CloseSocket, MailNetwork, MailCommand, MailText, In
<1> QED BY <1>1, OthersAchieve

(* All settings that gsm_init has seen or set so far, this step included.  *)
ConfirmedSoFar ==
    \A m \in 1 .. step :
        LET s == Programs["gsm_init"][m]
        IN Confirms(s) => s.name \in configured' /\ (s.procedure = "set" => "format" \in configured')

(* gsmInitGprs is not one of them.                                         *)
LEMMA ConfirmedNames ==
    \A m \in 1 .. 24 :
        LET s == Programs["gsm_init"][m]
        IN Confirms(s) => s.name # gsmInitGprs.name
<1> SUFFICES ASSUME NEW m \in 1 .. 24, Confirms(Programs["gsm_init"][m])
             PROVE  Programs["gsm_init"][m].name # gsmInitGprs.name
  OBVIOUS
<1>1. /\ Programs["gsm_init"][20] = gsmInitGprs /\ Len(Programs["gsm_init"]) = 24
      /\ "gsm_init" \in DOMAIN Programs
  BY InitLayout, ProgramNames
<1>2. gsmInitGprs.procedure = "initGprs"
  BY DEF gsmInitGprs, Do
<1>3. m # 20
  BY <1>1, <1>2 DEF Confirms
<1>4. m \in 1 .. 20 - 1 \/ (20 \in 1 .. m - 1 /\ m \in 1 .. 24)
  BY <1>3
<1>5. 20 \in 1 .. 24
  OBVIOUS
<1> QED BY <1>1, <1>4, <1>5, InitNames

LEMMA WorksConfirmed ==
    ASSUME TypeOK, Confirmed, Works, Achieves, Step.procedure # "factory" => KeepsSettings
    PROVE  /\ Confirmed'
           /\ program = "gsm_init" /\ step' = 0 /\ result' = 1 => ConfirmedSoFar /\ step = 24
<1>1. step # 0 /\ step > 0 /\ step \in Nat /\ program \in DOMAIN Programs
      /\ ShapeOf(program, step, Step)
  BY Here DEF Works
<1>2. ASSUME program = "gsm_init", NEW m \in 1 .. step - 1, Confirms(Programs["gsm_init"][m])
      PROVE  LET s == Programs["gsm_init"][m]
             IN s.name \in configured' /\ (s.procedure = "set" => "format" \in configured')
  <2>1. CASE Step.procedure = "factory"
    <3>1. step = 2 /\ m = 1
      BY <1>1, <1>2, <2>1 DEF ShapeOf
    <3>2. Programs["gsm_init"][1].procedure = "power"
      BY InitLayout DEF TurnOnStep, Do
    <3> QED BY <1>2, <3>1, <3>2 DEF Confirms
  <2>2. CASE Step.procedure # "factory"
    <3>1. /\ Programs["gsm_init"][m].name \in configured
          /\ Programs["gsm_init"][m].procedure = "set" => "format" \in configured
      BY <1>2 DEF Confirmed
    <3>2. Programs["gsm_init"][m].name # gsmInitGprs.name
      <4>1. m \in 1 .. 24
        <5>1. step \in 1 .. 24
          <6>1. Len(Programs[program]) = 24
            BY <1>1, <1>2, Lengths
          <6> QED BY <1>1, <6>1, Here
        <5> QED BY <1>2, <5>1
      <4> QED BY <1>2, <4>1, ConfirmedNames
    <3>3. gsmInitGprs.name # "format"
      BY DEF gsmInitGprs, Do
    <3>4. configured \ {gsmInitGprs.name} \subseteq configured'
      BY <2>2 DEF KeepsSettings
    <3> QED BY <3>1, <3>2, <3>3, <3>4
  <2> QED BY <2>1, <2>2
<1>3. ASSUME program = "gsm_init", Advanced
      PROVE  ConfirmedSoFar
  <2> SUFFICES ASSUME NEW m \in 1 .. step, Confirms(Programs["gsm_init"][m])
               PROVE  LET s == Programs["gsm_init"][m]
                      IN s.name \in configured' /\ (s.procedure = "set" => "format" \in configured')
    BY DEF ConfirmedSoFar
  <2>1. CASE m = step
    <3>1. Step = Programs["gsm_init"][m]
      BY <1>3, <2>1 DEF Step
    <3> QED BY <1>3, <3>1 DEF Achieves
  <2>2. CASE m # step
    <3>1. m \in 1 .. step - 1
      BY <1>1, <2>2
    <3> QED BY <1>2, <1>3, <3>1
  <2> QED BY <2>1, <2>2
<1>4. program' = program /\ (step' \in {0, step} \/ step' = step + 1)
      /\ (step' = 0 /\ result' = 1 => step = Len(Programs[program]))
  BY <1>1, WorksGoes
<1>5. program = "gsm_init" =>
          \A m \in 1 .. step' - 1 :
              LET s == Programs["gsm_init"][m]
              IN Confirms(s) => s.name \in configured' /\ (s.procedure = "set" => "format" \in configured')
  <2> SUFFICES ASSUME program = "gsm_init", NEW m \in 1 .. step' - 1, Confirms(Programs["gsm_init"][m])
               PROVE  LET s == Programs["gsm_init"][m]
                      IN s.name \in configured' /\ (s.procedure = "set" => "format" \in configured')
    OBVIOUS
  <2>1. CASE step' = 0
    BY <2>1
  <2>2. CASE step' = step
    BY <1>2, <2>2
  <2>3. CASE step' = step + 1
    <3>1. m \in 1 .. step /\ Advanced
      BY <1>1, <2>3 DEF Advanced
    <3> QED BY <1>3, <3>1 DEF ConfirmedSoFar
  <2> QED BY <1>4, <2>1, <2>2, <2>3
<1>6. step' > 0 /\ Step'.procedure = "errorLevel" /\ phase' = "ok" => Step'.name \in configured'
  <2>1. CASE step' = step
    <3>1. Step' = Step
      BY <1>4, <2>1 DEF Step
    <3> QED BY <3>1 DEF Achieves
  <2>2. CASE step' # step /\ step' > 0
    <3>1. \E ok \in BOOLEAN : Proceed(ok)
      BY <2>2 DEF Works, Goes
    <3>2. phase' = "begin"
      BY <1>1, <3>1, ProceedShape
    <3> QED BY <3>2
  <2> QED BY <2>1, <2>2
<1>7. Confirmed'
  BY <1>4, <1>5, <1>6 DEF Confirmed
<1>8. program = "gsm_init" /\ step' = 0 /\ result' = 1 => ConfirmedSoFar /\ step = 24
  BY <1>1, <1>3, <1>4, Lengths DEF Advanced
<1> QED BY <1>7, <1>8

-----------------------------------------------------------------------------
(* The modem stays awake, and the rules of the firewall.                   *)

LEMMA TurnedOnAwake ==
    ASSUME TypeOK, Counters, Configure, Step.procedure = "power", Advanced
    PROVE  power = "on"
<1>1. TurnedOn
  BY DEF Configure, FactoryDefault, SetUntilOk, AskFirst, SetIt, AskAgain, ErrorLevel, SetByte,
         GetNumber, InitGprs, Check, Firewall, ClearRules, AddRule, LookForRule, ListRules,
         EmailConfig, In
<1>2. step > 0 /\ step # 0
  BY <1>1, InShape DEF TurnedOn
<1>3. Step.failure = "fatal"
  BY <1>2, Here DEF ShapeOf
<1>4. ~Done(FALSE)
  BY <1>2, <1>3, AdvancedDone
<1>5. PICK b \in BOOLEAN : AnsweringOnAT(b) /\ Done(b)
  BY <1>1, <1>4 DEF TurnedOn
<1> QED BY <1>4, <1>5, SentShape

LEMMA WorksAwake ==
    ASSUME TypeOK, Awake, Works, Step.procedure = "power" /\ Advanced => power = "on"
    PROVE  Awake'
<1> SUFFICES ASSUME program = "gsm_init", step' > 1
             PROVE  power' \in {"on", "hung", "going", "off"}
  BY WorksGoes DEF Awake
<1>1. step # 0 /\ step > 0 /\ step \in Nat /\ ShapeOf(program, step, Step) /\ power' = power
  BY Here DEF Works
<1>2. CASE step = 1
  <2>1. Step.procedure = "power" /\ Advanced
    BY <1>1, <1>2, WorksGoes DEF ShapeOf, Advanced
  <2> QED BY <1>1, <2>1
<1>3. CASE step > 1
  BY <1>1, <1>3 DEF Awake
<1> QED BY <1>1, <1>2, <1>3

(* What is so of the rules while the modem listens and has not failed in   *)
(* all tries of one.                                                       *)
RulesAt(at, where, ii, jj, kk, charge, rules) ==
    /\ at = 19 =>
         /\ where = "begin" => charge >= ii
         /\ where \in {"rule", "look"} =>
                /\ 1 .. kk - 1 \subseteq rules
                /\ kk \in rules \/ charge >= (IF where = "rule" THEN jj ELSE jj + 1)
         /\ where = "list" => 1 .. RuleCount \subseteq rules
    /\ at > 19 => 1 .. RuleCount \subseteq rules

LEMMA RulesAddedIs ==
    /\ RulesAdded <=> (program = "gsm_init" /\ power = "on" /\ faults < FirewallTries =>
                           RulesAt(step, phase, i, j, k, faults, firewall))
    /\ RulesAdded' <=> (program' = "gsm_init" /\ power' = "on" /\ faults' < FirewallTries =>
                            RulesAt(step', phase', i', j', k', faults', firewall'))
BY DEF RulesAdded, RulesAt

LEMMA FirewallRules ==
    ASSUME TypeOK, Counters, Confirmed, RulesAdded, Firewall
    PROVE  RulesAdded'
<1>1. PICK where \in {"begin", "rule", "look", "list"} : In("firewall", where)
  BY DEF Firewall, ClearRules, AddRule, LookForRule, ListRules
<1>2. /\ step > 0 /\ step # 0 /\ Step.procedure = "firewall" /\ phase = where
      /\ power' = power
  BY <1>1, InShape DEF Firewall, ClearRules, AddRule, LookForRule, ListRules, NotFirewall
<1>3. /\ program = "gsm_init" /\ step = 19 /\ Step.tries = FirewallTries
      /\ faults \in Nat /\ i \in Nat /\ j \in Nat /\ FirewallTries \in Nat
      /\ where # "begin" => k \in 1 .. RuleCount
  BY <1>1, <1>2, Here, InShape, ModemAssumption, BoundsAssumption DEF ShapeOf, TypeOK, Counters
<1>4. "format" \in configured
  <2>1. Programs["gsm_init"][7] = gsmSetFlowControl
    BY InitLayout
  <2>2. 7 \in 1 .. step - 1
    BY <1>3
  <2> QED BY <1>3, <2>1, <2>2 DEF Confirmed, Confirms, gsmSetFlowControl, Do
<1>5. Charged
  BY FirewallConfigures DEF Configures
<1> SUFFICES ASSUME power = "on", faults' < FirewallTries
             PROVE  RulesAt(step', phase', i', j', k', faults', firewall')
  BY <1>2, RulesAddedIs
<1>6. faults' \in Nat /\ faults <= faults' /\ faults < FirewallTries
  BY <1>3, <1>5 DEF Charged
<1>7. /\ where = "begin" => faults >= i
      /\ where \in {"rule", "look"} =>
             /\ 1 .. k - 1 \subseteq firewall
             /\ k \in firewall \/ faults >= (IF where = "rule" THEN j ELSE j + 1)
      /\ where = "list" => 1 .. RuleCount \subseteq firewall
  BY <1>2, <1>3, <1>6, RulesAddedIs DEF RulesAt
<1>8. \A w, ii, jj, kk : FirewallGo(w, ii, jj, kk) =>
          step' = 19 /\ phase' = w /\ i' = ii /\ j' = jj /\ k' = kk
  BY <1>3 DEF FirewallGo
(* The next try, or the next rule. *)
<1>9. ASSUME where \in {"rule", "look"}, 1 .. k - 1 \subseteq firewall', NextRule, k \in firewall'
      PROVE  RulesAt(step', phase', i', j', k', faults', firewall')
  <2>1. k \in 1 .. RuleCount
    BY <1>3, <1>9
  <2>2. 1 .. k \subseteq firewall'
    BY <1>9, <2>1
  <2>3. CASE k < RuleCount /\ FirewallGo("rule", i, 0, k + 1)
    <3>1. 1 .. (k + 1) - 1 \subseteq firewall' /\ faults' >= 0
      BY <1>6, <2>1, <2>2
    <3> QED BY <1>8, <2>3, <3>1 DEF RulesAt
  <2>4. CASE k = RuleCount /\ FirewallGo("list", i, 0, k)
    BY <1>8, <2>2, <2>4 DEF RulesAt
  <2>5. k < RuleCount \/ k = RuleCount
    BY <2>1, ModemAssumption
  <2> QED BY <1>9, <2>3, <2>4, <2>5 DEF NextRule
<1>10. ASSUME where \in {"rule", "look"}, 1 .. k - 1 \subseteq firewall', RepeatRule,
              k \in firewall' \/ faults' >= j + 1
       PROVE  RulesAt(step', phase', i', j', k', faults', firewall')
  <2>1. CASE FirewallGo("rule", i, j + 1, k)
    BY <1>8, <1>10, <2>1 DEF RulesAt
  <2>2. CASE ~(j + 1 < FirewallTries) /\ NextRule
    <3>1. k \in firewall'
      BY <1>3, <1>6, <1>10, <2>2
    <3> QED BY <1>9, <1>10, <2>2, <3>1
  <2> QED BY <1>10, <2>1, <2>2 DEF RepeatRule
<1>11. CASE ClearRules
  <2>1. PICK o \in Outcomes :
            /\ Command(o, {})
            /\ IF o = "ok" THEN FirewallGo("rule", 0, 0, 1)
               ELSE IF LastTry THEN Done(FALSE)
               ELSE FirewallGo("begin", i + 1, 0, 0)
    BY <1>11 DEF ClearRules
  <2>2. where = "begin"
    BY <1>2, <1>11 DEF ClearRules, In
  <2>3. o # "ok" => faults' >= i + 1
    BY <1>3, <1>4, <1>7, <2>1, <2>2, CommandShape
  <2>4. CASE FirewallGo("rule", 0, 0, 1)
    <3>1. 1 .. 1 - 1 \subseteq firewall' /\ faults' >= 0
      BY <1>6
    <3> QED BY <1>8, <2>4, <3>1 DEF RulesAt
  <2>5. CASE o # "ok" /\ LastTry
    BY <1>3, <1>6, <2>3, <2>5 DEF LastTry
  <2>6. CASE o # "ok" /\ FirewallGo("begin", i + 1, 0, 0)
    BY <1>8, <2>3, <2>6 DEF RulesAt
  <2> QED BY <2>1, <2>4, <2>5, <2>6
<1>12. CASE AddRule
  <2>1. PICK o \in Outcomes :
            /\ Command(o, firewall \cup {k})
            /\ IF o \in {"ok", "unsent"} THEN RepeatRule ELSE FirewallGo("look", i, j, k)
    BY <1>12 DEF AddRule
  <2>2. where = "rule"
    BY <1>2, <1>12 DEF AddRule, In
  <2>3. /\ firewall' = IF o \in {"ok", "lost"} THEN firewall \cup {k} ELSE firewall
        /\ o # "ok" => faults' = faults + 1
    BY <1>4, <2>1, CommandShape
  <2>4. 1 .. k - 1 \subseteq firewall' /\ (k \in firewall' \/ faults' >= j + 1)
    <3>1. CASE o = "ok"
      BY <1>7, <2>2, <2>3, <3>1
    <3>2. CASE o # "ok"
      BY <1>3, <1>7, <2>2, <2>3, <3>2
    <3> QED BY <3>1, <3>2
  <2>5. CASE FirewallGo("look", i, j, k)
    BY <1>8, <2>4, <2>5 DEF RulesAt
  <2> QED BY <1>10, <2>1, <2>2, <2>4, <2>5
<1>13. CASE LookForRule
  <2>1. PICK answer \in Answers :
            /\ Query(answer, k \in firewall)
            /\ IF answer = "right" THEN NextRule ELSE RepeatRule
    BY <1>13 DEF LookForRule
  <2>2. where = "look" /\ firewall' = firewall
    BY <1>2, <1>13 DEF LookForRule, In
  <2>3. /\ answer = "right" => k \in firewall
        /\ answer = "wrong" => k \notin firewall
        /\ answer = "none" => faults' = faults + 1
    <3>1. (k \in firewall) \in BOOLEAN
      OBVIOUS
    <3> QED BY <2>1, <3>1, QueryShape
  <2>4. k \in firewall' \/ faults' >= j + 1
    BY <1>3, <1>6, <1>7, <2>2, <2>3
  <2> QED BY <1>7, <1>9, <1>10, <2>1, <2>2, <2>3, <2>4
<1>14. CASE ListRules
  <2>1. where = "list" /\ firewall' = firewall
    BY <1>2, <1>14 DEF ListRules, In
  <2>2. 1 .. RuleCount \subseteq firewall'
    BY <1>7, <2>1
  <2>3. CASE FirewallGo("rule", i + 1, 0, 1)
    <3>1. 1 .. 1 - 1 \subseteq firewall' /\ faults' >= 0
      BY <1>6
    <3> QED BY <1>8, <2>3, <3>1 DEF RulesAt
  <2>4. CASE Done(FALSE)
    <3>1. Proceed(FALSE) /\ Step.failure = "note" /\ Len(Programs[program]) = 24
      BY <1>2, <1>3, <2>4, Here, Lengths DEF Done, ShapeOf
    <3>2. step' = 20
      BY <1>3, <3>1 DEF Proceed, NextStep
    <3> QED BY <2>2, <3>2 DEF RulesAt
  <2> QED BY <1>14, <2>3, <2>4 DEF ListRules
<1> QED BY <1>11, <1>12, <1>13, <1>14 DEF Firewall

LEMMA OtherRules ==
    ASSUME TypeOK, RulesAdded, Works, Step.procedure # "firewall", firewall' = firewall
    PROVE  RulesAdded'
<1> SUFFICES ASSUME program = "gsm_init", power' = "on", faults' < FirewallTries
             PROVE  RulesAt(step', phase', i', j', k', faults', firewall')
  BY WorksGoes, RulesAddedIs
<1>1. /\ step # 0 /\ step \in Nat /\ ShapeOf(program, step, Step)
      /\ power = "on" /\ faults \in Nat /\ faults' \in Nat /\ faults <= faults'
      /\ FirewallTries \in Nat
  BY Here, ModemAssumption, BoundsAssumption DEF Works, TypeOK, Charged
<1>2. step # 19
  BY <1>1 DEF ShapeOf
<1>3. step > 19 => 1 .. RuleCount \subseteq firewall'
  <2>1. faults < FirewallTries
    BY <1>1
  <2> QED BY <1>1, <2>1, RulesAddedIs DEF RulesAt
<1>4. CASE step' = step
  BY <1>2, <1>3, <1>4 DEF RulesAt
<1>5. CASE step' = 0
  BY <1>5 DEF RulesAt
<1>6. CASE step' = step + 1
  <2>1. \E ok \in BOOLEAN : Proceed(ok)
    BY <1>1, <1>6 DEF Works, Goes
  <2>2. phase' = "begin" /\ i' = 0
    BY <1>1, <2>1, ProceedShape
  <2>3. step' > 19 => step > 19
    BY <1>1, <1>2, <1>6
  <2> QED BY <1>1, <1>3, <2>2, <2>3 DEF RulesAt
<1> QED BY <1>4, <1>5, <1>6, WorksGoes

-----------------------------------------------------------------------------
(* The invariant is inductive.                                             *)

LEMMA StackProcs ==
    /\ PowerTyped => \A n \in 1 .. Len(stack) : stack[n].proc \in Procedures
    /\ PowerTyped' => \A n \in 1 .. Len(stack') : stack'[n].proc \in Procedures
<1>1. \A s \in Seq(Frames) : \A n \in 1 .. Len(s) : s[n].proc \in Procedures
  <2> SUFFICES ASSUME NEW s \in Seq(Frames), NEW n \in 1 .. Len(s) PROVE s[n].proc \in Procedures
    OBVIOUS
  <2>1. s[n] \in Frames
    OBVIOUS
  <2> QED BY <2>1 DEF Frames, Calls, Procedures
<1> QED BY <1>1 DEF PowerTyped

LEMMA InitHolds == Init => IInv
<1> SUFFICES ASSUME Init PROVE IInv
  OBVIOUS
<1> USE DEF Init
<1>1. PowerTyped /\ StackInv
  BY BoundsAssumption DEF PowerTyped, PowerStates, StackInv, Owed, Paid, Nested, Settled, Between
<1>2. program \in DOMAIN Programs /\ Len(Programs[program]) \in 1 .. 24
  BY ProgramNames, Lengths
<1>3. gprs \in BOOLEAN /\ attached \in BOOLEAN /\ (gprs => attached)
  <2>1. gprs \in BOOLEAN
    OBVIOUS
  <2>2. attached = TRUE \/ attached = gprs
    OBVIOUS
  <2> QED BY <2>1, <2>2
<1>4. TypeOK
  <2>1. step \in 0 .. Len(Programs[program])
    BY <1>2
  <2>2. i \in 0 .. 9 /\ j \in 0 .. 9 /\ k \in 0 .. RuleCount /\ calls \in 0 .. MaxCalls
        /\ faults \in 0 .. MaxFaults
    BY BoundsAssumption, ModemAssumption
  <2>3. configured \subseteq Names /\ firewall \subseteq 1 .. RuleCount
        /\ gsmStatus \subseteq Names \cup {"ATCIND_COMMAND_RUNNED"}
    BY ProfilesAssumption
  <2>4. suspended \in BOOLEAN /\ sawAttached \in BOOLEAN
    OBVIOUS
  <2>6. mailed \in 0 .. 1 /\ result \in 0 .. 3
    OBVIOUS
  <2>7. power \in {"off", "on", "online", "typing", "hung", "going"}
    OBVIOUS
  <2>5. \A n \in 1 .. Len(stack) : stack[n].proc \in Procedures
    BY <1>1, StackProcs
  <2> HIDE DEF Init
  <2> QED BY <1>2, <1>3, <2>1, <2>2, <2>3, <2>4, <2>5, <2>6, <2>7 DEF TypeOK
<1>5. Counters /\ FlagsKept /\ Confirmed /\ Fresh /\ MailOnce /\ Awake /\ RulesAdded
  BY DEF Counters, FlagsKept, Confirmed, Fresh, MailOnce, Awake, RulesAdded
<1>6. Linked
  BY <1>3 DEF Linked
<1> QED BY <1>1, <1>4, <1>5, <1>6 DEF IInv

(* A call.                                                                 *)
LEMMA NewFrame ==
    ASSUME PowerTyped, NEW proc \in {"gsmTurnOn", "gsmSoftTurnOff", "gsmHardTurnOff"}, NEW tries \in Nat,
           stack' = <<Frame(proc, tries)>>, UNCHANGED <<power, result, faults>>
    PROVE  PowerTyped' /\ StackInv'
<1>1. Frame(proc, tries) \in Frames
  BY FrameTyped DEF Calls
<1>2. Len(stack') = 1 /\ stack'[1] = Frame(proc, tries) /\ stack' \in Seq(Frames)
  BY <1>1
<1>3. PowerTyped'
  BY <1>2 DEF PowerTyped
<1>4. faults \in Nat
  BY BoundsAssumption DEF PowerTyped
<1>5. Frame(proc, tries).i = 0 /\ Frame(proc, tries).at = "begin" /\ Frame(proc, tries).from = faults
      /\ Frame(proc, tries).proc = proc
  BY DEF Frame
<1>6. Owed'
  BY <1>2, <1>4, <1>5 DEF Owed, TurnsOn
<1>7. Nested'
  BY <1>2 DEF Nested
<1>8. ~Settled' /\ ~Between'
  BY <1>2, <1>5 DEF Settled, Between, Me, TurnsOn, Resets
<1> QED BY <1>3, <1>6, <1>7, <1>8 DEF StackInv

LEMMA CallKeeps == ASSUME IInv, Call PROVE IInv'
<1> USE DEF IInv
<1>1. /\ stack = <<>> /\ step = 0 /\ UNCHANGED <<power, result, faults, modem, gsmStatus>>
      /\ sawAttached' = FALSE /\ mailed' = 0 /\ calls' = calls + 1 /\ calls < MaxCalls
  BY DEF Call, Idle
<1>2. CASE \E name \in DOMAIN Programs : Run(name)
  <2> PICK name \in DOMAIN Programs : Run(name)
    BY <1>2
  <2>1. /\ program' = name /\ step' = 1 /\ UNCHANGED <<phase, i, j, k>>
        /\ stack' = IF name = "gsm_init" THEN <<Frame("gsmTurnOn", TurnOnTries)>> ELSE <<>>
    BY DEF Run
  <2>2. /\ Step' = Programs[name][1] /\ 1 \in 1 .. Len(Programs[name])
        /\ StepBound(Step)' = StepBound(Programs[name][1])
        /\ StepBound(Step)' \in 1 .. 10 /\ Step'.tries \in Nat \ {0}
        /\ ShapeOf(name, 1, Step')
    <3>1. 1 \in 1 .. Len(Programs[name])
      <4> DEFINE n == Len(Programs[name])
      <4>1. n \in 1 .. 24
        BY Lengths
      <4> HIDE DEF n
      <4>2. 1 \in 1 .. n
        BY <4>1
      <4> QED BY <4>2 DEF n
    <3>2. Step' = Programs[name][1]
      BY <2>1 DEF Step
    <3> QED BY <3>1, <3>2, StepBounds, Shape DEF StepBound
  <2>3. PowerTyped' /\ StackInv'
    <3>1. CASE name = "gsm_init"
      BY <1>1, <2>1, <3>1, NewFrame, ModemAssumption
    <3>2. CASE name # "gsm_init"
      <4>1. stack' = <<>>
        BY <2>1, <3>2
      <4> QED BY <1>1, <4>1 DEF PowerTyped, StackInv, Owed, Paid, Nested, Settled, Between
    <3> QED BY <3>1, <3>2
  <2>4. i = 0 /\ j = 0 /\ k = 0
    BY <1>1 DEF Counters
  <2>5. Step'.procedure # "firewall"
    BY <2>2 DEF ShapeOf
  <2>6. Counters'
    BY <2>1, <2>2, <2>4, <2>5 DEF Counters
  <2>7. TypeOK'
    <3>1. program' \in DOMAIN Programs /\ step' \in 0 .. Len(Programs[program'])
      <4> DEFINE n == Len(Programs[name])
      <4>1. n \in 1 .. 24
        BY Lengths
      <4> HIDE DEF n
      <4>2. 1 \in 0 .. n
        BY <4>1
      <4> QED BY <2>1, <4>2 DEF n
    <3>2. calls' \in 0 .. MaxCalls
      BY <1>1, ModemAssumption DEF TypeOK
    <3>3. sawAttached' \in BOOLEAN
      BY <1>1
    <3>5. mailed' \in 0 .. 1
      BY <1>1
    <3>4. \A n \in 1 .. Len(stack') : stack'[n].proc \in Procedures
      BY <2>3, StackProcs
    <3> QED BY <1>1, <2>1, <3>1, <3>2, <3>3, <3>4, <3>5 DEF TypeOK, modem, link
  <2>8. FlagsKept' /\ Fresh' /\ MailOnce' /\ Awake'
    BY <1>1, <2>1 DEF FlagsKept, Fresh, MailOnce, Awake
  <2>9. Linked'
    BY <1>1 DEF Linked, modem, link
  <2>10. RulesAdded'
    BY <2>1 DEF RulesAdded
  <2>11. Confirmed'
    <3>1. Step'.procedure # "errorLevel"
      BY <2>2 DEF ShapeOf
    <3> QED BY <2>1, <3>1 DEF Confirmed
  <2> QED BY <2>3, <2>6, <2>7, <2>8, <2>9, <2>10, <2>11
<1>3. CASE \E name \in {"gsmTurnOn", "gsmSoftTurnOff", "gsmHardTurnOff"}, tries \in 1 .. 3 : Switch(name, tries)
  <2> PICK name \in {"gsmTurnOn", "gsmSoftTurnOff", "gsmHardTurnOff"}, tries \in 1 .. 3 : Switch(name, tries)
    BY <1>3
  <2>1. stack' = <<Frame(name, tries)>> /\ UNCHANGED <<program, step, phase, i, j, k>>
    BY DEF Switch, place
  <2>2. PowerTyped' /\ StackInv'
    BY <1>1, <2>1, NewFrame
  <2>3. TypeOK'
    <3>1. calls' \in 0 .. MaxCalls
      BY <1>1, ModemAssumption DEF TypeOK
    <3>2. sawAttached' \in BOOLEAN
      BY <1>1
    <3>4. mailed' \in 0 .. 1
      BY <1>1
    <3>3. \A n \in 1 .. Len(stack') : stack'[n].proc \in Procedures
      BY <2>2, StackProcs
    <3> QED BY <1>1, <2>1, <3>1, <3>2, <3>3, <3>4 DEF TypeOK, modem, link
  <2>4. Counters' /\ FlagsKept' /\ Confirmed' /\ Fresh' /\ MailOnce' /\ Awake' /\ RulesAdded'
    BY <1>1, <2>1 DEF Counters, FlagsKept, Confirmed, Fresh, MailOnce, Awake, RulesAdded
  <2>5. Linked'
    BY <1>1 DEF Linked, modem, link
  <2> QED BY <2>2, <2>3, <2>4, <2>5
<1> QED BY <1>2, <1>3 DEF Call

(* A call that switches the modem goes on.                                 *)
LEMMA PowerKeeps == ASSUME IInv, Power PROVE IInv'
<1> USE DEF IInv
<1>1. /\ PowerStep /\ UNCHANGED <<program, step, phase, i, j, k>>
      /\ UNCHANGED <<configured, firewall, attached, gsmStatus, sawAttached, mailed, calls>>
  BY DEF Power, place, history
<1>2. PowerTyped' /\ StackInv'
  BY <1>1, PowerStepTyped, PowerStepStack
<1>3. stack # <<>>
  BY <1>1 DEF PowerStep, At, TurnOnBegin, TurnOnTry, TurnOnLook, HardReset, HardResetLook,
         HardResetEnd, SoftTurnOffTry, SoftTurnOffShutDown, HardTurnOffBegin, HardTurnOffTry,
         HardTurnOffPulse, HardTurnOffLook, HardTurnOffWait, HardTurnOffEnd
<1>4. step = 0 \/ (program = "gsm_init" /\ step = 1)
  BY <1>3 DEF Counters
<1>5. gprs' \in BOOLEAN /\ suspended' \in BOOLEAN /\ Linked'
  <2> DEFINE undisturbed == power' = power /\ ~At("gsmHardReset", "begin")
  <2>1. gprs' = (gprs /\ undisturbed) /\ suspended' = (suspended /\ undisturbed)
    BY DEF Power
  <2>2. undisturbed \in BOOLEAN
    OBVIOUS
  <2> HIDE DEF undisturbed
  <2> QED BY <1>1, <2>1, <2>2 DEF Linked
<1>6. TypeOK'
  BY <1>1, <1>2, <1>5, StackProcs DEF TypeOK, PowerTyped, PowerStates
<1>7. Counters'
  BY <1>1, <1>4 DEF Counters, Step
<1>8. FlagsKept' /\ Confirmed' /\ Fresh' /\ MailOnce'
  BY <1>1 DEF FlagsKept, Confirmed, Fresh, MailOnce, Step
<1>9. Awake' /\ RulesAdded'
  BY <1>1, <1>4 DEF Awake, RulesAdded
<1> QED BY <1>2, <1>5, <1>6, <1>7, <1>8, <1>9

(* The modem by itself.                                                    *)
LEMMA EnvironmentKeeps == ASSUME IInv, Environment PROVE IInv'
<1> USE DEF IInv
<1>1. /\ UNCHANGED <<program, step, phase, i, j, k>> /\ UNCHANGED <<stack, result>>
      /\ UNCHANGED <<configured, firewall, gsmStatus, sawAttached, mailed, calls>>
  BY DEF Environment, place, history, Hang, GoDown, powerVars
<1>2. power \in PowerStates /\ gprs \in BOOLEAN /\ suspended \in BOOLEAN /\ attached \in BOOLEAN
  BY DEF PowerTyped, TypeOK
<1>3. /\ power' \in PowerStates /\ (Fails \/ UNCHANGED faults)
      /\ \/ Fails
         \/ power \in {"on", "off"} /\ power' = power
         \/ power \notin {"on", "off"}
      /\ power' = power \/ power' \in {"hung", "off"} \/ power = "online"
  BY <1>2 DEF Environment, Hang, GoDown, powerVars, PowerStates
<1>4. PowerTyped' /\ StackInv'
  BY <1>1, <1>3, EnvironmentStack
<1>5. gprs' \in BOOLEAN /\ suspended' \in BOOLEAN /\ attached' \in BOOLEAN /\ Linked'
  <2>1. CASE gprs' = FALSE /\ suspended' = FALSE /\ (attached' = attached \/ attached' = FALSE)
    <3>1. ~gprs' /\ ~suspended' /\ gprs' \in BOOLEAN /\ suspended' \in BOOLEAN /\ attached' \in BOOLEAN
      BY <1>2, <2>1
    <3> QED BY <3>1 DEF Linked
  <2>2. CASE gprs' = gprs /\ attached' = attached /\ suspended' = FALSE
    <3>1. ~suspended' /\ gprs' \in BOOLEAN /\ suspended' \in BOOLEAN /\ attached' \in BOOLEAN
      BY <1>2, <2>2
    <3>2. gprs' => attached'
      BY <2>2 DEF Linked
    <3> QED BY <3>1, <3>2 DEF Linked
  <2>3. CASE gprs' = gprs /\ attached' = TRUE /\ suspended' = suspended
    <3>1. attached' /\ gprs' \in BOOLEAN /\ suspended' \in BOOLEAN /\ attached' \in BOOLEAN
      BY <1>2, <2>3
    <3>2. suspended' => gprs'
      BY <2>3 DEF Linked
    <3> QED BY <3>1, <3>2 DEF Linked
  <2> QED BY <2>1, <2>2, <2>3 DEF Environment
<1>6. TypeOK'
  BY <1>1, <1>4, <1>5 DEF TypeOK, PowerTyped, PowerStates
<1>7. Counters' /\ FlagsKept' /\ Confirmed' /\ Fresh' /\ MailOnce'
  BY <1>1 DEF Counters, FlagsKept, Confirmed, Fresh, MailOnce, Step, StepBound
<1>8. Awake'
  BY <1>1, <1>3 DEF Awake
<1>9. RulesAdded'
  <2> SUFFICES ASSUME program' = "gsm_init", power' = "on", faults' < FirewallTries
               PROVE  RulesAt(step', phase', i', j', k', faults', firewall')
    BY RulesAddedIs
  <2>1. CASE step > 1
    <3>1. power = "on"
      BY <1>1, <1>3, <2>1 DEF Awake
    <3>2. faults \in Nat /\ faults' \in Nat /\ faults <= faults' /\ FirewallTries \in Nat
          /\ i \in Nat /\ j \in Nat
      BY <1>3, <1>4, BoundsAssumption, ModemAssumption DEF PowerTyped, Fails, TypeOK
    <3>3. faults < FirewallTries
      BY <3>2
    <3>4. RulesAt(step, phase, i, j, k, faults, firewall)
      BY <1>1, <3>1, <3>3, RulesAddedIs
    <3> QED BY <1>1, <3>2, <3>4 DEF RulesAt
  <2>2. CASE ~(step > 1)
    <3>1. step \in Nat
      BY Lengths DEF TypeOK
    <3> QED BY <1>1, <2>2, <3>1 DEF RulesAt
  <2> QED BY <2>1, <2>2
<1> QED BY <1>4, <1>5, <1>6, <1>7, <1>8, <1>9

LEMMA ConfigureKeeps == ASSUME IInv, Configure PROVE IInv' /\ Works /\ Achieves
<1> USE DEF IInv
<1>1. Works /\ Configures /\ Achieves
  BY ConfigureWorks, ConfigureAchieves
<1>2. TypeOK' /\ PowerTyped' /\ Counters' /\ StackInv' /\ FlagsKept' /\ Fresh' /\ MailOnce' /\ Linked'
  BY <1>1, WorksTyped, WorksFlags, WorksFresh, WorksMail DEF Works
<1>3. Confirmed'
  BY <1>1, WorksConfirmed DEF Configures, KeepsSettings
<1>4. Awake'
  BY <1>1, WorksAwake, TurnedOnAwake
<1>5. RulesAdded'
  <2>1. CASE Step.procedure = "firewall"
    <3>1. Firewall
      BY <2>1 DEF Configure, TurnedOn, FactoryDefault, SetUntilOk, AskFirst, SetIt, AskAgain,
             ErrorLevel, SetByte, GetNumber, InitGprs, Check, EmailConfig, In
    <3> QED BY <3>1, FirewallRules
  <2>2. CASE Step.procedure # "firewall"
    BY <1>1, <2>2, OtherRules DEF Configures
  <2> QED BY <2>1, <2>2
<1> QED BY <1>1, <1>2, <1>3, <1>4, <1>5

LEMMA LateCharacterKeeps ==
    ASSUME IInv, LateCharacter
    PROVE  IInv' /\ Works /\ Achieves /\ Configures /\ program = "gsm_init"
<1> USE DEF IInv
<1>1. step > 0 /\ step # 0 /\ Step.procedure = "number"
  BY InShape DEF LateCharacter
<1>2. program = "gsm_init"
  BY <1>1, Here DEF ShapeOf
<1>3. Works /\ Configures /\ Achieves
  <2>1. Configures
    BY LateCharacterConfigures
  <2>2. Flags /\ Goes
    BY <2>1, MovesGoes DEF Configures
  <2>3. Works
    BY <1>1, <2>1, <2>2 DEF Works, Configures, TypeOK, PowerStates, link, history, Linked
  <2> QED BY <1>1, <2>1, <2>3, OthersAchieve
<1>4. TypeOK' /\ PowerTyped' /\ Counters' /\ StackInv' /\ FlagsKept' /\ Fresh' /\ MailOnce' /\ Linked'
  BY <1>3, WorksTyped, WorksFlags, WorksFresh, WorksMail DEF Works
<1>5. Confirmed' /\ Awake' /\ RulesAdded'
  BY <1>1, <1>3, WorksConfirmed, WorksAwake, OtherRules DEF Configures, KeepsSettings
<1> QED BY <1>2, <1>3, <1>4, <1>5

LEMMA UseKeeps == ASSUME IInv, Use PROVE IInv' /\ Works /\ Achieves /\ Uses
<1> USE DEF IInv
<1>1. Works /\ Uses /\ Achieves
      /\ Step.procedure \notin {"verify", "set", "errorLevel", "factory", "firewall"}
  BY UseWorks, UseAchieves
<1>2. TypeOK' /\ PowerTyped' /\ Counters' /\ StackInv' /\ FlagsKept' /\ Fresh' /\ MailOnce' /\ Linked'
  BY <1>1, WorksTyped, WorksFlags, WorksFresh, WorksMail DEF Works
<1>3. KeepsSettings /\ firewall' = firewall
  BY <1>1 DEF Uses
<1>4. Confirmed' /\ RulesAdded'
  BY <1>1, <1>3, WorksConfirmed, OtherRules
<1>5. Awake'
  <2>1. Step.procedure # "power"
    BY DEF Use, Attach, Establish, Dial, Download, CheckGprs, CloseGprs, SuspendSocket,
           ResumeSocket, CloseSocket, MailNetwork, MailCommand, MailText, In
  <2> QED BY <1>1, <2>1, WorksAwake
<1> QED BY <1>1, <1>2, <1>4, <1>5

LEMMA Inductive == IInv /\ [Next]_vars => IInv'
<1> SUFFICES ASSUME IInv, [Next]_vars PROVE IInv'
  OBVIOUS
<1>1. CASE Call
  BY <1>1, CallKeeps
<1>2. CASE Power
  BY <1>2, PowerKeeps
<1>3. CASE Configure
  BY <1>3, ConfigureKeeps
<1>4. CASE Use
  BY <1>4, UseKeeps
<1>5. CASE Environment
  BY <1>5, EnvironmentKeeps
<1>7. CASE LateCharacter
  BY <1>7, LateCharacterKeeps
<1>6. CASE UNCHANGED vars
  <2>1. /\ UNCHANGED <<power, stack, result, faults>> /\ UNCHANGED <<program, step, phase, i, j, k>>
        /\ UNCHANGED <<configured, firewall, attached, gprs, suspended>>
        /\ UNCHANGED <<gsmStatus, sawAttached, mailed, calls>>
    BY <1>6 DEF vars, powerVars, place, modem, link, history
  <2>2. TypeOK' /\ PowerTyped' /\ FlagsKept' /\ Fresh' /\ Awake' /\ RulesAdded' /\ Linked'
    BY <2>1 DEF IInv, TypeOK, PowerTyped, FlagsKept, Fresh, Awake, RulesAdded, Linked
  <2>3. Counters' /\ Confirmed' /\ MailOnce'
    BY <2>1 DEF IInv, Counters, Confirmed, MailOnce, Step, StepBound
  <2>4. StackInv'
    BY <2>1 DEF IInv, StackInv, Owed, Paid, Nested, Settled, Between, Me
  <2> QED BY <2>2, <2>3, <2>4 DEF IInv
<1> QED BY <1>1, <1>2, <1>3, <1>4, <1>5, <1>6, <1>7 DEF Next, Program

LEMMA Invariant == Spec => []IInv
BY InitHolds, Inductive, PTL DEF Spec

-----------------------------------------------------------------------------
(* What the callers are told.                                              *)

(* Only a step of the call itself returns from a call that switches the    *)
(* modem, and only a step of a procedure ends a program.                   *)
LEMMA Returns ==
    ASSUME IInv, [Next]_vars, NEW name, Returned(name)
    PROVE  PowerStep /\ Me.proc = name /\ stack' = Tail(stack)
<1> stack # <<>> /\ Me.proc = name /\ stack' = Tail(stack)
  BY DEF Returned
<1>1. stack' # stack
  BY TailIsShorter DEF IInv
<1>2. ~UNCHANGED vars /\ ~Environment
  BY <1>1 DEF vars, powerVars, Environment, Hang, GoDown
<1>3. ~Call
  BY DEF Call, Idle
<1>4. ~Configure /\ ~Use /\ ~LateCharacter
  BY ConfigureKeeps, UseKeeps, LateCharacterKeeps DEF Works
<1> QED BY <1>2, <1>3, <1>4 DEF Next, Program, Power

LEMMA Ends ==
    ASSUME IInv, [Next]_vars, Ended
    PROVE  /\ Configure \/ Use \/ (LateCharacter /\ program = "gsm_init")
           /\ Works /\ Achieves /\ step # 0 /\ step > 0
<1> step # 0 /\ step' = 0
  BY DEF Ended
<1>1. ~UNCHANGED vars /\ ~Environment /\ ~Power
  BY DEF vars, Environment, Power, place
<1>2. ~Call
  BY DEF Call, Idle
<1>3. Configure \/ Use \/ LateCharacter
  BY <1>1, <1>2 DEF Next, Program
<1> QED BY <1>3, ConfigureKeeps, UseKeeps, LateCharacterKeeps DEF Works

(* Every variable has its type in every state, and a call that has         *)
(* returned leaves no frame: the tries of all loops, the rules of the      *)
(* firewall and the flags stay within their bounds.                        *)
THEOREM SessionTyped == Spec => []TypeOK
<1>1. IInv => TypeOK
  BY DEF IInv
<1> QED BY <1>1, Invariant, PTL

(* gsmTurnOn, gsmSoftTurnOff and gsmHardTurnOff tell the truth about the   *)
(* modem when they return, however deep the calls that gsmTurnOn and       *)
(* gsmHardReset make of each other.                                        *)
THEOREM PowerTold == Spec => PowerIsAsTold
<1>1. IInv /\ [Next]_vars =>
        [/\ Returned("gsmTurnOn") /\ result' > 0 => power' = "on"
         /\ Returned("gsmSoftTurnOff") /\ result' = 1 => power' = "off"
         /\ Returned("gsmHardTurnOff") => (result' \in {1, 2} <=> power' = "off") \/ result' = 3]_vars
  <2> SUFFICES ASSUME IInv, [Next]_vars
               PROVE  /\ Returned("gsmTurnOn") /\ result' > 0 => power' = "on"
                      /\ Returned("gsmSoftTurnOff") /\ result' = 1 => power' = "off"
                      /\ Returned("gsmHardTurnOff") =>
                             (result' \in {1, 2} <=> power' = "off") \/ result' = 3
    OBVIOUS
  <2>1. ASSUME NEW name, Returned(name)
        PROVE  /\ Me.proc = name
               /\ Me.proc = "gsmTurnOn" /\ result' > 0 => power' = "on"
               /\ Me.proc = "gsmSoftTurnOff" /\ result' = 1 => power' = "off"
               /\ Me.proc = "gsmHardTurnOff" => (result' \in {1, 2} <=> power' = "off") \/ result' = 3
    BY <2>1, Returns, ReturnTells DEF IInv
  <2> QED BY <2>1
<1> QED BY <1>1, Invariant, PTL DEF Spec, PowerIsAsTold

(* gsmTurnOn gives up only after the modem has failed in all tries but one. *)
THEOREM TurnOnGivesUpLate == Spec => TurnOnPersists
<1>1. IInv /\ [Next]_vars =>
        [Returned("gsmTurnOn") /\ result' = 0 => faults' - Me.from >= Me.tries - 1]_vars
  BY Returns, ReturnTells DEF IInv
<1> QED BY <1>1, Invariant, PTL DEF Spec, TurnOnPersists

(* A program that returns 1 has the flags it cannot do without, and after  *)
(* gsm_init every setting it relies on is in the modem.                    *)
THEOREM ReadyIsConfigured == Spec => ReadyMeansConfigured
<1>1. IInv /\ [Next]_vars =>
        [Ended /\ result' = 1 =>
           /\ \A n \in 1 .. Len(Programs[program]) :
                  Programs[program][n].failure = "fatal" => Programs[program][n].name \in gsmStatus'
           /\ program = "gsm_init" => Sure \subseteq configured']_vars
  <2> SUFFICES ASSUME IInv, [Next]_vars, Ended, result' = 1
               PROVE  /\ \A n \in 1 .. Len(Programs[program]) :
                             Programs[program][n].failure = "fatal" =>
                                 Programs[program][n].name \in gsmStatus'
                      /\ program = "gsm_init" => Sure \subseteq configured'
    OBVIOUS
  <2>1. Works /\ Achieves /\ step' = 0 /\ (Configure \/ Use \/ LateCharacter)
    BY Ends DEF Ended
  <2>2. FlagsSoFar /\ step = Len(Programs[program])
    BY <2>1, WorksFlags DEF IInv
  <2>3. Step.procedure # "factory" => KeepsSettings
    BY <2>1, ConfigureWorks, UseKeeps, LateCharacterKeeps DEF IInv, Configures, Uses, KeepsSettings
  <2>4. ASSUME program = "gsm_init" PROVE Sure \subseteq configured'
    <3>1. ConfirmedSoFar /\ step = 24
      BY <2>1, <2>3, <2>4, WorksConfirmed DEF IInv
    <3>2. \A m \in 1 .. 24 :
              LET s == Programs["gsm_init"][m]
              IN Confirms(s) => s.name \in configured' /\ (s.procedure = "set" => "format" \in configured')
      BY <3>1 DEF ConfirmedSoFar
    <3>3. \A m \in {6, 7, 9, 13, 15} : Confirms(Programs["gsm_init"][m])
      BY InitLayout DEF Confirms, gsmSetIPR, gsmSetFlowControl, gsmSetErrorLevel, gsmSetTeCharacterSet,
                        gsmSetUserId, Do
    <3>4. \A m \in {6, 7, 9, 13, 15} : Programs["gsm_init"][m].name \in configured'
      BY <3>2, <3>3
    <3>5. Programs["gsm_init"][7].procedure = "set" /\ 7 \in 1 .. 24
      BY InitLayout DEF gsmSetFlowControl, Do
    <3>6. "format" \in configured'
      BY <3>2, <3>3, <3>5
    <3>7. /\ Programs["gsm_init"][6].name = "IPR_SET"
          /\ Programs["gsm_init"][7].name = "FLOW_CONTROL_SET"
          /\ Programs["gsm_init"][9].name = "ERROR_LEVEL_SET"
          /\ Programs["gsm_init"][13].name = "TE_CHARACTER_SET"
          /\ Programs["gsm_init"][15].name = "USER_ID_SET"
      BY InitLayout DEF gsmSetIPR, gsmSetFlowControl, gsmSetErrorLevel, gsmSetTeCharacterSet,
                        gsmSetUserId, Do
    <3> QED BY <3>4, <3>6, <3>7 DEF Sure
  <2> QED BY <2>2, <2>4 DEF FlagsSoFar
<1> QED BY <1>1, Invariant, PTL DEF Spec, ReadyMeansConfigured

(* The flag that says the modem is on the network is never one of an       *)
(* earlier call.                                                           *)
THEOREM ConnectedFresh == Spec => ConnectedIsFresh
<1>1. IInv /\ [Next]_vars =>
        [/\ Ended
         /\ (program = "gsm_init" /\ result' = 1) \/ program = "gsm_connect_and_download_firmware"
         /\ "CONNECTED_TO_MOBILE_NETWORK" \in gsmStatus'
         => sawAttached']_vars
  BY Ends, WorksFresh DEF IInv, Ended
<1> QED BY <1>1, Invariant, PTL DEF Spec, ConnectedIsFresh

(* Which action a program of one step takes. *)
LEMMA OneStepAction ==
    ASSUME IInv, Configure \/ Use
    PROVE  /\ program = "gsmCloseGPRS" => CloseGprs
           /\ program = "gsmCloseSocket" => CloseSocket
           /\ program = "gsmConnectToServer_Multi" => Dial
           /\ program = "gsmEmailString" =>
                  MailText \/ MailCommand \/ MailNetwork \/ Establish \/ EmailConfig
<1>1. step # 0 /\ step > 0
  BY ConfigureKeeps, UseKeeps DEF Works
<1>2. /\ program = "gsmCloseGPRS" => Step.procedure = "closeGprs"
      /\ program = "gsmCloseSocket" => Step.procedure = "closeSocket"
      /\ program = "gsmConnectToServer_Multi" => Step.procedure = "dial"
      /\ program = "gsmEmailString" => Step.procedure = "mail"
  BY <1>1, Here DEF IInv, ShapeOf
<1> QED
  BY <1>2 DEF Configure, TurnedOn, FactoryDefault, SetUntilOk, AskFirst, SetIt, AskAgain,
         ErrorLevel, SetByte, GetNumber, InitGprs, Check, Firewall, ClearRules, AddRule,
         LookForRule, ListRules, EmailConfig, Use, Attach, Establish, Dial, Download, CheckGprs,
         CloseGprs, SuspendSocket, ResumeSocket, CloseSocket, MailNetwork, MailCommand, MailText, In

LEMMA MailTold ==
    ASSUME IInv, Configure \/ Use, program = "gsmEmailString", step' = 0, result' = 1
    PROVE  mailed' = 1
<1> TypeOK /\ Counters /\ Linked /\ MailOnce /\ FlagsKept
  BY DEF IInv
<1>1. step # 0 /\ Step.procedure = "mail" /\ Step.failure = "result"
  <2>1. step # 0
    BY ConfigureKeeps, UseKeeps DEF Works
  <2> QED BY <2>1, Here DEF ShapeOf
<1>2. CASE MailText
  BY <1>2, MailTextUses
<1>3. CASE MailCommand
  BY <1>3, MailCommandUses
<1>4. CASE Establish
  BY <1>1, <1>4, EstablishUses
<1>5. CASE MailNetwork
  <2>1. Done(FALSE)
    BY <1>1, <1>5 DEF MailNetwork, GoOn
  <2> QED BY <1>1, <2>1 DEF Done, Proceed, ReturnFrom
<1>6. CASE EmailConfig
  BY <1>1, <1>6 DEF EmailConfig, GoOn
<1> QED BY <1>2, <1>3, <1>4, <1>5, <1>6, OneStepAction

(* The calls for sockets, the context and mail tell their caller the truth. *)
THEOREM LinkTold == Spec => LinkIsAsTold
<1>1. IInv /\ [Next]_vars =>
        [Ended /\ result' = 1 =>
           CASE program = "gsmCloseGPRS" -> ~gprs' /\ ~suspended'
             [] program = "gsmCloseSocket" -> power' = "on" /\ ~suspended'
             [] program = "gsmConnectToServer_Multi" -> power' = "online"
             [] program = "gsmEmailString" -> mailed' = 1
             [] OTHER -> TRUE]_vars
  <2> SUFFICES ASSUME IInv, [Next]_vars, Ended, result' = 1
               PROVE  CASE program = "gsmCloseGPRS" -> ~gprs' /\ ~suspended'
                        [] program = "gsmCloseSocket" -> power' = "on" /\ ~suspended'
                        [] program = "gsmConnectToServer_Multi" -> power' = "online"
                        [] program = "gsmEmailString" -> mailed' = 1
                        [] OTHER -> TRUE
    OBVIOUS
  <2>1. /\ step' = 0 /\ TypeOK /\ Counters /\ Linked
        /\ program # "gsm_init" => Configure \/ Use
    BY Ends DEF Ended, IInv
  <2>2. program = "gsmCloseGPRS" => ~gprs' /\ ~suspended'
    BY <2>1, OneStepAction, CloseGprsUses
  <2>3. program = "gsmCloseSocket" => power' = "on" /\ ~suspended'
    BY <2>1, OneStepAction, CloseSocketUses
  <2>4. program = "gsmConnectToServer_Multi" => power' = "online"
    BY <2>1, OneStepAction, DialTells
  <2>5. program = "gsmEmailString" => mailed' = 1
    BY <2>1, MailTold
  <2> QED BY <2>2, <2>3, <2>4, <2>5
<1> QED BY <1>1, Invariant, PTL DEF Spec, LinkIsAsTold

(* After gsm_init every rule of the firewall is there, unless the modem    *)
(* failed often enough to lose one.                                        *)
THEOREM FirewallComplete == Spec => FirewallShut
<1>1. IInv /\ [Next]_vars =>
        [Ended /\ program = "gsm_init" /\ result' = 1 /\ power' = "on" /\ faults' < FirewallTries =>
           firewall' = 1 .. RuleCount]_vars
  <2> SUFFICES ASSUME IInv, [Next]_vars, Ended, program = "gsm_init", result' = 1, power' = "on",
                      faults' < FirewallTries
               PROVE  firewall' = 1 .. RuleCount
    OBVIOUS
  <2>1. Works /\ step' = 0 /\ (Configure \/ Use \/ LateCharacter) /\ TypeOK
    BY Ends DEF Ended, IInv
  <2>2. step = 24 /\ Step.procedure = "establish"
    <3>1. step = Len(Programs[program])
      BY <2>1, WorksFlags DEF IInv
    <3>2. step = 24
      BY <3>1, InitLayout
    <3> QED BY <3>2, <2>1, Here DEF ShapeOf
  <2>3. firewall' = firewall
    BY <2>1, <2>2, ConfigureWorks, UseKeeps, LateCharacterKeeps DEF IInv, Configures, Uses
  <2>4. power = "on" /\ faults < FirewallTries
    BY <2>1, ModemAssumption, BoundsAssumption DEF Works, Charged, TypeOK
  <2>5. 1 .. RuleCount \subseteq firewall
    BY <2>2, <2>4, RulesAddedIs DEF IInv, RulesAt
  <2> QED BY <2>3, <2>5 DEF IInv, TypeOK
<1> QED BY <1>1, Invariant, PTL DEF Spec, FirewallShut
===============================================================================
