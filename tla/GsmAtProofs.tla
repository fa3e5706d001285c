------------------------------ MODULE GsmAtProofs ------------------------------
(***************************************************************************)
(* Proofs about module GsmAt: its types, that it implements AtExchange,    *)
(* what the caller is told and when a call gives up, for all sizes.        *)
(***************************************************************************)
EXTENDS GsmAt, SequenceTheorems, TLAPS

USE TextAssumption, SizeAssumption

(* What is sent and answered is text. *)
LEMMA Texts ==
    /\ AtEcho \in Text /\ <<"A", "T">> \in Text
    /\ \A s, t \in Text : s \o t \in Text
    /\ \A s \in Text, c \in Char : Append(s, c) \in Text /\ Len(Append(s, c)) = Len(s) + 1
    /\ \A s \in Text : s # <<>> => /\ Head(s) \in Char /\ Tail(s) \in Text
                                   /\ Len(Tail(s)) = Len(s) - 1
    /\ Commands \subseteq Text /\ Unsolicited \subseteq Text
<1>1. AtEcho \in Text /\ <<"A", "T">> \in Text
  BY DEF AtEcho, Text, Char, Cr, Lf
<1>2. \A s, t \in Text : s \o t \in Text
  BY DEF Text
<1>3. \A s \in Text, c \in Char : Append(s, c) \in Text /\ Len(Append(s, c)) = Len(s) + 1
  BY DEF Text
<1>4. \A s \in Text : s # <<>> => /\ Head(s) \in Char /\ Tail(s) \in Text
                                  /\ Len(Tail(s)) = Len(s) - 1
  BY DEF Text
<1>5. Commands \subseteq Text /\ Unsolicited \subseteq Text
  BY DEF Text
<1> QED BY <1>1, <1>2, <1>3, <1>4, <1>5

LEMMA CodeText == \A v \in {"ok", "error"} : Code(v) \in Text
<1> USE DEF Text, Char, Cr, Lf
<1>1. OkNumeric \in Text /\ ERRORstring \in Text
  BY DEF OkNumeric, ERRORstring
<1>2. <<Cr, Lf>> \o OkText \in Text
  <2>1. <<Cr, Lf>> \in Seq(Char) /\ OkText \in Seq(Char)
    BY DEF OkText
  <2> QED BY <2>1
<1>3. <<Cr, Lf, "x", Cr, Lf>> \in Text
  OBVIOUS
<1> QED BY <1>1, <1>2, <1>3 DEF Code

LEMMA MatchType ==
    ASSUME wanted \in 0 .. 1, error \in 0 .. 1, NEW c \in Char
    PROVE  Match(c) \in 0 .. 2 /\ MatchError(c) \in 0 .. 2
<1>1. Match(c) \in 0 .. 2
  BY DEF Match
<1>2. (IF c = ERRORstring[error + 1] THEN error + 1 ELSE 0) \in 0 .. 2
  OBVIOUS
<1> QED BY <1>1, <1>2 DEF MatchError

Question == [text : Text, call : 0 .. MaxCalls]

LEMMA Questions ==
    /\ \A q \in Seq(Question), m \in Question : Append(q, m) \in Seq(Question)
    /\ \A q \in Seq(Question) : q # <<>> => Head(q) \in Question /\ Tail(q) \in Seq(Question)
OBVIOUS

LEMMA InitType == Init => TypeOK
BY DEF Init, TypeOK, Text, CaughtUp

LEMMA FailsType == ASSUME TypeOK, Fails PROVE faults' \in 0 .. MaxFaults
BY DEF TypeOK, Fails

LEMMA TimeIsUpType == ASSUME TypeOK, TimeIsUp PROVE faults' \in 0 .. MaxFaults
BY FailsType DEF TypeOK, TimeIsUp

LEMMA NextType == TypeOK /\ [Next]_vars => TypeOK'
<1> SUFFICES ASSUME TypeOK, [Next]_vars PROVE TypeOK'
  OBVIOUS
<1> USE Texts
<1>1. CASE Call
  <2>1. text' \in Text
    BY <1>1 DEF Call
  <2>2. tmp' \in Text /\ Len(tmp') <= WindowLength
    BY <1>1 DEF Call, Text
  <2> QED BY <1>1, <2>1, <2>2 DEF Call, TypeOK, matcher, modem, wire
<1>2. CASE SendAt
  <2>1. inbox' \in Seq(Question)
    BY <1>2, Questions DEF SendAt, TypeOK, Question
  <2>2. /\ tmp' \in Text /\ Len(tmp') <= WindowLength
        /\ rx' \in Text /\ Len(rx') <= RxDepth
    BY <1>2 DEF SendAt, Text
  <2> QED BY <1>2, <2>1, <2>2 DEF SendAt, TypeOK, matcher, modem, Question
<1>3. CASE ReadWindow
  <2>1. /\ tmp' \in Text /\ Len(tmp') <= WindowLength
        /\ rx' \in Text /\ Len(rx') <= RxDepth
    BY <1>3 DEF ReadWindow, TypeOK, Text
  <2> QED BY <1>3, <2>1 DEF ReadWindow, TypeOK, matcher, modem
<1>4. CASE CloseWindow
  <2>1. faults' \in 0 .. MaxFaults
    BY <1>4, TimeIsUpType DEF CloseWindow, TypeOK
  <2> QED BY SMTT(30), <1>4, <2>1 DEF CloseWindow, TypeOK, GiveUp, loops, matcher, modem, wire
<1>5. CASE SendCommand
  <2>1. inbox' \in Seq(Question)
    <3>1. [text |-> <<"A", "T">> \o text, call |-> calls] \in Question
      BY DEF TypeOK, Question
    <3> QED BY <1>5, <3>1, Questions DEF SendCommand, TypeOK, Question
  <2>2. rx' \in Text /\ Len(rx') <= RxDepth
    BY <1>5 DEF SendCommand, Text
  <2> QED BY <1>5, <2>1, <2>2 DEF SendCommand, TypeOK, loops, modem, Question
<1>6. CASE Hear
  <2>1. rx' \in Text /\ Len(rx') <= RxDepth
    BY <1>6 DEF Hear, TypeOK
  <2>2. wanted' \in 0 .. 2 /\ error' \in 0 .. 2
    BY <1>6, MatchType DEF Hear, TypeOK
  <2>3. pc' = "wait" => wanted' < 2 /\ error' < 2
    BY <1>6, <2>2 DEF Hear, GiveUp, OkNumeric, ERRORstring
  <2>4. /\ pc' \in {"idle", "wait"} /\ told' \in {Pending, 0, 1}
        /\ (told' = Pending <=> pc' # "idle")
        /\ UNCHANGED loops
    BY <1>6 DEF Hear, GiveUp, TypeOK, loops
  <2> QED BY <1>6, <2>1, <2>2, <2>3, <2>4 DEF Hear, TypeOK, loops, modem
<1>7. CASE NoAnswer
  <2>1. faults' \in 0 .. MaxFaults
    BY <1>7, TimeIsUpType DEF NoAnswer
  <2> QED BY <1>7, <2>1 DEF NoAnswer, TypeOK, GiveUp, loops, matcher, modem, wire
<1>8. CASE Answer
  <2>1. Head(inbox) \in Question /\ inbox' \in Seq(Question)
    BY <1>8, Questions DEF Answer, TypeOK, Question
  <2>2. PICK v \in {"ok", "error"} :
            /\ air' = air \o Echo(Head(inbox).text) \o Code(v)
            /\ verdict' = IF Head(inbox).call = calls THEN v ELSE verdict
    BY <1>8 DEF Answer
  <2>3. air' \in Text
    <3>1. Echo(Head(inbox).text) \in Text
      BY <2>1 DEF Echo, Question, Text
    <3>2. Code(v) \in Text
      BY CodeText
    <3> QED BY <2>2, <3>1, <3>2 DEF TypeOK
  <2>4. verdict' \in {"none", "ok", "error"}
    BY <2>2 DEF TypeOK
  <2> QED BY <1>8, <2>1, <2>3, <2>4 DEF Answer, TypeOK, loops, matcher, modem, Question
<1>9. CASE Ignore
  <2>1. inbox' \in Seq(Question)
    BY <1>9, Questions DEF Ignore, TypeOK, Question
  <2>2. faults' \in 0 .. MaxFaults
    BY <1>9, FailsType DEF Ignore
  <2> QED BY <1>9, <2>1, <2>2 DEF Ignore, TypeOK, loops, matcher, modem, Question
<1>10. CASE Interrupt
  <2>1. faults' \in 0 .. MaxFaults
    BY <1>10, FailsType DEF Interrupt
  <2>2. air' \in Text
    BY <1>10 DEF Interrupt, TypeOK
  <2> QED BY <1>10, <2>1, <2>2 DEF Interrupt, TypeOK, loops, matcher, modem
<1>11. CASE Arrive
  <2>1. air' \in Text /\ rx' \in Text /\ Len(rx') <= RxDepth
    BY <1>11 DEF Arrive, TypeOK
  <2> QED BY <1>11, <2>1 DEF Arrive, TypeOK, loops, matcher, modem
<1>12. CASE UNCHANGED vars
  BY <1>12 DEF vars, TypeOK, loops, matcher, modem, wire
<1> QED
  BY <1>1, <1>2, <1>3, <1>4, <1>5, <1>6, <1>7, <1>8, <1>9, <1>10, <1>11, <1>12
  DEF Next, Program, Environment

(* The buffer of gsmWaitForOk, the two counters of waitForString and the   *)
(* UART keep their bounds, whatever is sent and comes.                     *)
THEOREM Typed == Spec => []TypeOK
<1>1. Init => TypeOK
  BY InitType
<1>2. TypeOK /\ [Next]_vars => TypeOK'
  BY NextType
<1> QED BY <1>1, <1>2, PTL DEF Spec
-------------------------------------------------------------------------------
(* An OK is the command's.  While its OK is awaited nothing but the command *)
(* is unanswered; until it is carried out no zero is on the wire, unless it *)
(* is in its own text, and the matcher has seen none.                      *)

NoZero(s) == \A k \in 1 .. Len(s) : s[k] # "0"

Silent == verdict = "ok" \/ OwnText

OwnQuestion ==
    /\ pc # "idle" \/ inbox # <<>> => calls > 0
    /\ \A k \in 1 .. Len(inbox) : inbox[k].call <= calls
    /\ \A k \in 1 .. Len(inbox) : inbox[k].call = calls =>
           /\ verdict = "none"
           /\ \A l \in 1 .. Len(inbox) : inbox[l].call = calls => l = k
    /\ pc \in {"at", "window", "settle"} =>
           verdict = "none" /\ \A k \in 1 .. Len(inbox) : inbox[k].call # calls
    /\ pc = "wait" => \A k \in 1 .. Len(inbox) :
           inbox[k] = [text |-> <<"A", "T">> \o text, call |-> calls]

NoForeignZero ==
    pc = "wait" /\ ~Silent => wanted = 0 /\ NoZero(rx) /\ NoZero(air)

IInv == TypeOK /\ OwnQuestion /\ NoForeignZero

LEMMA NoZeros ==
    /\ \A s, t \in Text : NoZero(s) /\ NoZero(t) => NoZero(s \o t)
    /\ \A s \in Text, c \in Char : NoZero(s) /\ c # "0" => NoZero(Append(s, c))
    /\ \A s \in Text : s # <<>> /\ NoZero(s) => Head(s) # "0" /\ NoZero(Tail(s))
    /\ NoZero(<<>>) /\ NoZero(<<"A", "T">>) /\ NoZero(Code("error"))
    /\ \A line \in Unsolicited : NoZero(line)
<1> USE DEF Text, NoZero
<1>1. \A s, t \in Text : NoZero(s) /\ NoZero(t) => NoZero(s \o t)
  OBVIOUS
<1>2. \A s \in Text, c \in Char : NoZero(s) /\ c # "0" => NoZero(Append(s, c))
  OBVIOUS
<1>3. \A s \in Text : s # <<>> /\ NoZero(s) => Head(s) # "0" /\ NoZero(Tail(s))
  OBVIOUS
<1>4. NoZero(<<>>) /\ NoZero(<<"A", "T">>) /\ NoZero(Code("error"))
  BY DEF Code, ERRORstring, Cr, Lf
<1>5. \A line \in Unsolicited : NoZero(line)
  OBVIOUS
<1> QED BY <1>1, <1>2, <1>3, <1>4, <1>5

LEMMA InitInv == Init => IInv
BY InitType DEF Init, IInv, OwnQuestion, NoForeignZero

LEMMA SentOwn ==
    ASSUME NEW m, IInv
    PROVE  LET q == Append(inbox, m)
           IN Len(q) = Len(inbox) + 1 /\ \A k \in 1 .. Len(q) :
                  q[k] = IF k = Len(inbox) + 1 THEN m ELSE inbox[k]
BY DEF IInv, TypeOK

LEMMA Asked ==
    ASSUME TypeOK
    PROVE  /\ inbox \in Seq(Question) /\ Len(inbox) \in Nat
           /\ \A k \in 1 .. Len(inbox) : inbox[k] \in Question /\ inbox[k].call \in Int
<1>1. inbox \in Seq(Question) /\ Len(inbox) \in Nat
  BY DEF TypeOK, Question
<1>2. \A k \in 1 .. Len(inbox) : inbox[k] \in Question
  BY <1>1
<1>3. \A q \in Question : q.call \in Int
  BY DEF Question
<1> QED BY <1>1, <1>2, <1>3

LEMMA Taken ==
    ASSUME IInv, inbox # <<>>
    PROVE  LET q == Tail(inbox)
           IN /\ Head(inbox) = inbox[1] /\ Head(inbox) \in Question
              /\ Len(inbox) \in Nat /\ Len(q) = Len(inbox) - 1 /\ 1 \in 1 .. Len(inbox)
              /\ \A k \in 1 .. Len(q) : q[k] = inbox[k + 1] /\ k + 1 \in 2 .. Len(inbox)
<1>1. inbox \in Seq(Question) /\ inbox # <<>>
  BY Asked DEF IInv
<1>2. \A q \in Seq(Question) : q # <<>> => Len(q) \in Nat \ {0}
  OBVIOUS
<1>3. Len(inbox) \in Nat \ {0} /\ Head(inbox) = inbox[1] /\ Head(inbox) \in Question
  BY <1>1, <1>2
<1>4. Len(Tail(inbox)) = Len(inbox) - 1
  BY <1>1
<1>5. \A k \in 1 .. Len(Tail(inbox)) : Tail(inbox)[k] = inbox[k + 1]
  BY <1>1, <1>3, <1>4
<1> QED BY <1>3, <1>4, <1>5

LEMMA NextOwn == IInv /\ [Next]_vars => OwnQuestion'
<1> SUFFICES ASSUME IInv, [Next]_vars PROVE OwnQuestion'
  OBVIOUS
<1>t. TypeOK /\ OwnQuestion /\ TypeOK'
  BY NextType DEF IInv
<1>1. CASE Call
  <2>1. /\ inbox' = inbox /\ calls' = calls + 1 /\ calls \in Nat
        /\ pc' = "at" /\ verdict' = "none"
    BY <1>1, <1>t DEF Call, TypeOK, wire
  <2>2. \A k \in 1 .. Len(inbox) : inbox[k].call <= calls /\ inbox[k].call \in Int
    BY <1>t, Asked DEF OwnQuestion
  <2>3. \A k \in 1 .. Len(inbox) : inbox[k].call <= calls' /\ inbox[k].call # calls'
    BY <2>1, <2>2
  <2> QED BY <2>1, <2>3 DEF OwnQuestion
<1>2. CASE SendAt
  <2> DEFINE m == [text |-> AtEcho, call |-> 0]
  <2>1. /\ inbox' = Append(inbox, m) /\ pc = "at" /\ pc' = "window"
        /\ UNCHANGED <<verdict, calls>> /\ calls > 0 /\ calls \in Nat /\ verdict = "none"
    BY <1>2, <1>t DEF SendAt, OwnQuestion, TypeOK
  <2>2. \A k \in 1 .. Len(inbox') : inbox'[k] = IF k = Len(inbox) + 1 THEN m ELSE inbox[k]
    BY <2>1, SentOwn
  <2>3. Len(inbox') = Len(inbox) + 1 /\ Len(inbox) \in Nat
    BY <2>1, <1>t DEF TypeOK
  <2>4. \A k \in 1 .. Len(inbox') : inbox'[k].call <= calls /\ inbox'[k].call # calls
    BY <1>t, <2>1, <2>2, <2>3 DEF OwnQuestion
  <2> QED BY <2>1, <2>4 DEF OwnQuestion
<1>3. CASE SendCommand
  <2> DEFINE m == [text |-> <<"A", "T">> \o text, call |-> calls]
  <2>1. /\ inbox = <<>> /\ inbox' = Append(inbox, m) /\ pc = "settle" /\ pc' = "wait"
        /\ UNCHANGED <<verdict, calls, text>>
        /\ calls > 0 /\ calls \in Nat /\ verdict = "none"
    BY <1>3, <1>t DEF SendCommand, OwnQuestion, TypeOK, CaughtUp
  <2>2. inbox' = <<m>>
    BY <2>1
  <2>3. \A k \in 1 .. Len(inbox') : k = 1 /\ inbox'[k] = m
    BY <2>2
  <2>4. \A k \in 1 .. Len(inbox') : inbox'[k].call = calls'
    BY <2>1, <2>3
  <2>5. \A k \in 1 .. Len(inbox') :
            inbox'[k] = [text |-> <<"A", "T">> \o text', call |-> calls']
    BY <2>1, <2>3
  <2>6. \A k, l \in 1 .. Len(inbox') : k = l
    BY <2>3
  <2>7. \A k \in 1 .. Len(inbox') : inbox'[k].call <= calls'
    BY <2>1, <2>4
  <2>8. calls' > 0 /\ pc' = "wait" /\ verdict' = "none"
    BY <2>1
  <2> HIDE DEF m
  <2> QED BY <2>5, <2>6, <2>7, <2>8, Zenon DEF OwnQuestion
<1>4. CASE Answer
  <2>1. PICK v \in {"ok", "error"} :
            verdict' = IF Head(inbox).call = calls THEN v ELSE verdict
    BY <1>4 DEF Answer
  <2> DEFINE q == Tail(inbox)
  <2>2. /\ inbox' = q
        /\ \A k \in 1 .. Len(q) : q[k] = inbox[k + 1] /\ k + 1 \in 2 .. Len(inbox)
        /\ Head(inbox) = inbox[1] /\ 1 \in 1 .. Len(inbox) /\ inbox # <<>>
        /\ UNCHANGED <<pc, text, calls>>
    BY <1>4, Taken DEF Answer
  <2>3. \A k \in 1 .. Len(q) : q[k].call = calls =>
            verdict' = "none" /\ \A l \in 1 .. Len(q) : q[l].call = calls => l = k
    BY <1>t, <2>1, <2>2 DEF OwnQuestion
  <2>4. pc \in {"at", "window", "settle"} => verdict' = "none"
    BY <1>t, <2>1, <2>2 DEF OwnQuestion
  <2> QED BY SMTT(30), <1>t, <2>2, <2>3, <2>4 DEF OwnQuestion
<1>5. CASE Ignore
  <2> DEFINE q == Tail(inbox)
  <2>1. /\ inbox' = q
        /\ \A k \in 1 .. Len(q) : q[k] = inbox[k + 1] /\ k + 1 \in 2 .. Len(inbox)
        /\ inbox # <<>> /\ UNCHANGED <<pc, text, calls, verdict>>
    BY <1>5, Taken DEF Ignore
  <2> QED BY SMTT(30), <1>t, <2>1 DEF OwnQuestion
<1>6. CASE ReadWindow \/ CloseWindow \/ Hear \/ NoAnswer \/ Interrupt \/ Arrive \/ UNCHANGED vars
  <2>1. /\ UNCHANGED <<text, inbox, verdict, calls>>
        /\ \/ pc' = pc
           \/ pc' = "idle" /\ pc # "idle"
           \/ pc = "window" /\ pc' \in {"at", "settle"}
    BY <1>6, <1>t DEF ReadWindow, CloseWindow, Hear, NoAnswer, Interrupt, Arrive, vars, GiveUp, wire
  <2> QED BY <1>t, <2>1 DEF OwnQuestion
<1> QED BY <1>1, <1>2, <1>3, <1>4, <1>5, <1>6 DEF Next, Program, Environment

LEMMA NextForeign == IInv /\ [Next]_vars => NoForeignZero'
<1> SUFFICES ASSUME IInv, [Next]_vars, pc' = "wait", ~Silent' 
             PROVE  wanted' = 0 /\ NoZero(rx') /\ NoZero(air')
  BY DEF NoForeignZero
<1>t. TypeOK /\ OwnQuestion /\ NoForeignZero /\ TypeOK'
  BY NextType DEF IInv
<1>1. CASE SendCommand
  BY <1>1, NoZeros DEF SendCommand, CaughtUp
<1>2. CASE Hear
  <2>1. pc = "wait" /\ rx # <<>> /\ UNCHANGED <<air, verdict, echo, text>> /\ ~Silent
    BY <1>2 DEF Hear, Silent, OwnText, modem
  <2>2. wanted = 0 /\ NoZero(rx) /\ NoZero(air)
    BY <1>t, <2>1 DEF NoForeignZero
  <2>3. Head(rx) # "0" /\ NoZero(rx')
    BY <1>2, <1>t, <2>2, NoZeros DEF Hear, TypeOK
  <2> QED BY <1>2, <2>1, <2>2, <2>3 DEF Hear, Match, OkNumeric
<1>3. CASE Answer
  <2>1. PICK v \in {"ok", "error"} :
            /\ air' = air \o Echo(Head(inbox).text) \o Code(v)
            /\ verdict' = IF Head(inbox).call = calls THEN v ELSE verdict
    BY <1>3 DEF Answer
  <2>2. inbox # <<>> /\ pc = "wait" /\ UNCHANGED <<rx, wanted, text, echo>>
    BY <1>3 DEF Answer, matcher, modem
  <2>3. Head(inbox) = [text |-> <<"A", "T">> \o text, call |-> calls]
    BY <1>t, <2>2, Taken DEF IInv, OwnQuestion
  <2>4. v = "error" /\ verdict = "none"
    <3>1. verdict = "none"
      BY <1>t, <2>2, <2>3, Taken DEF OwnQuestion
    <3> QED BY <2>1, <2>3, <3>1 DEF Silent
  <2>5. ~Silent
    BY <2>2, <2>4 DEF Silent, OwnText
  <2>6. wanted = 0 /\ NoZero(rx) /\ NoZero(air)
    BY <1>t, <2>2, <2>5 DEF NoForeignZero
  <2>7. NoZero(Echo(Head(inbox).text)) /\ Echo(Head(inbox).text) \in Text
    <3>1. CASE echo
      <4>1. NoZero(text) /\ text \in Text
        BY <3>1, <2>5, <1>t DEF Silent, OwnText, NoZero, TypeOK
      <4>2. <<"A", "T">> \o text \in Text /\ NoZero(<<"A", "T">> \o text)
        BY <4>1, NoZeros, Texts
      <4>3. Echo(Head(inbox).text) = <<"A", "T">> \o text
        BY <3>1, <2>3 DEF Echo
      <4> QED BY <4>2, <4>3
    <3>2. CASE ~echo
      BY <3>2, NoZeros DEF Echo, Text
    <3> QED BY <3>1, <3>2
  <2>8. NoZero(air')
    BY <2>1, <2>4, <2>6, <2>7, <1>t, NoZeros, CodeText, Texts DEF TypeOK
  <2> QED BY <2>2, <2>6, <2>8
<1>4. CASE Ignore
  BY <1>4, <1>t DEF Ignore, NoForeignZero, Silent, OwnText, matcher, modem
<1>5. CASE Interrupt
  <2>1. pc = "wait" /\ ~Silent /\ UNCHANGED <<rx, wanted>>
    BY <1>5 DEF Interrupt, Silent, OwnText, matcher, modem
  <2>2. wanted = 0 /\ NoZero(rx) /\ NoZero(air)
    BY <1>t, <2>1 DEF NoForeignZero
  <2>3. NoZero(air')
    BY <1>5, <1>t, <2>2, NoZeros, Texts DEF Interrupt, TypeOK
  <2> QED BY <2>1, <2>2, <2>3
<1>6. CASE Arrive
  <2>1. pc = "wait" /\ ~Silent /\ UNCHANGED wanted
    BY <1>6 DEF Arrive, Silent, OwnText, matcher, modem
  <2>2. wanted = 0 /\ NoZero(rx) /\ NoZero(air)
    BY <1>t, <2>1 DEF NoForeignZero
  <2>3. Head(air) # "0" /\ Head(air) \in Char /\ NoZero(Tail(air))
    BY <1>6, <1>t, <2>2, NoZeros, Texts DEF Arrive, TypeOK
  <2> QED BY <1>6, <1>t, <2>1, <2>2, <2>3, NoZeros DEF Arrive, TypeOK
<1>7. CASE Call \/ SendAt \/ ReadWindow \/ CloseWindow \/ NoAnswer
  BY <1>7 DEF Call, SendAt, ReadWindow, CloseWindow, NoAnswer, GiveUp
<1>8. CASE UNCHANGED vars
  BY <1>8, <1>t DEF vars, NoForeignZero, Silent, OwnText, matcher, modem, wire
<1> QED
  BY <1>1, <1>2, <1>3, <1>4, <1>5, <1>6, <1>7, <1>8 DEF Next, Program, Environment

LEMMA Invariant == Spec => []IInv
<1>1. Init => IInv
  BY InitInv
<1>2. IInv /\ [Next]_vars => IInv'
  BY NextType, NextOwn, NextForeign DEF IInv
<1> QED BY <1>1, <1>2, PTL DEF Spec
-------------------------------------------------------------------------------
LEMMA Refines ==
    ASSUME IInv, [Next]_vars
    PROVE  [Exchange!Ask \/ Exchange!CarryOut \/ Exchange!Tell]_Exchange!exchange
<1> USE DEF Exchange!Ask, Exchange!CarryOut, Exchange!Tell, Exchange!exchange
<1>t. TypeOK /\ OwnQuestion /\ NoForeignZero
  BY DEF IInv
<1>1. CASE Call
  BY <1>1, <1>t DEF Call, TypeOK, OwnText
<1>2. CASE Answer
  <2>1. PICK v \in {"ok", "error"} :
            verdict' = IF Head(inbox).call = calls THEN v ELSE verdict
    BY <1>2 DEF Answer
  <2>2. inbox # <<>> /\ UNCHANGED <<told, OwnText>>
    BY <1>2 DEF Answer, OwnText, modem
  <2>3. Head(inbox).call = calls => verdict = "none"
    BY <1>t, <2>2, Taken DEF OwnQuestion
  <2> QED BY <2>1, <2>2, <2>3
<1>3. CASE Hear
  <2>1. pc = "wait" /\ UNCHANGED <<verdict, OwnText>> /\ told = Pending
    BY <1>3, <1>t DEF Hear, OwnText, modem, TypeOK
  <2>2. told' = told \/ told' = 0 \/ (told' = 1 /\ error' = 0)
    BY <1>3 DEF Hear, GiveUp
  <2>3. ASSUME told' = 1, ~Silent PROVE FALSE
    <3>1. told' # told /\ error' = 0
      BY <2>1, <2>2, <2>3
    <3>2. wanted' = 2
      BY <1>3, <3>1 DEF Hear, OkNumeric, ERRORstring
    <3>3. wanted' = Match(Head(rx)) /\ wanted = 0
      BY <1>3, <1>t, <2>1, <2>3 DEF Hear, NoForeignZero
    <3> QED BY <3>2, <3>3 DEF Match
  <2> QED BY <2>1, <2>2, <2>3 DEF Silent
<1>4. CASE CloseWindow \/ NoAnswer
  BY <1>4, <1>t DEF CloseWindow, NoAnswer, GiveUp, TypeOK, OwnText, modem
<1>5. CASE SendAt \/ ReadWindow \/ SendCommand \/ Ignore \/ Interrupt \/ Arrive \/ UNCHANGED vars
  BY <1>5 DEF SendAt, ReadWindow, SendCommand, Ignore, Interrupt, Arrive, vars, OwnText, modem
<1> QED BY <1>1, <1>2, <1>3, <1>4, <1>5 DEF Next, Program, Environment

(* gsmSendAtCommand and waitForString together are the exchange that their *)
(* callers take them for: an OK that is reported belongs to the command.   *)
THEOREM Implements == Spec => ExchangeSpec
<1>1. Init => Exchange!Idle
  BY DEF Init, Exchange!Idle, OwnText
<1>2. IInv /\ [Next]_vars => [Exchange!Ask \/ Exchange!CarryOut \/ Exchange!Tell]_Exchange!exchange
  BY Refines
<1> QED BY <1>1, <1>2, Invariant, PTL DEF Spec, ExchangeSpec, Exchange!Spec
-------------------------------------------------------------------------------
(* The caller is told what the modem did.  As long as nothing goes wrong   *)
(* during the call, what comes between the command and its OK is the echo, *)
(* and the echo of a command without a four is not taken for an error.     *)

NoFour(s) == \A k \in 1 .. Len(s) : s[k] # "4"
CommandsWithoutFour == \A t \in Commands : NoFour(t)

(* What is still to be read. *)
Stream == rx \o air

Undisturbed == pc = "wait" /\ faults = from /\ numeric /\ ~OwnText

Heard ==
    /\ from <= faults
    /\ text \in Commands \cup {<<>>}
    /\ Undisturbed /\ verdict = "none" => wanted = 0 /\ error = 0 /\ Stream = <<>>
    /\ Undisturbed /\ verdict = "ok" =>
           /\ error = 0 /\ inbox = <<>>
           /\ \/ wanted = 0 /\ \E s \in Text : NoZero(s) /\ NoFour(s) /\ Stream = s \o OkNumeric
              \/ wanted = 1 /\ Stream = <<Cr>>

LEMMA Streams ==
    ASSUME NEW s \in Text, NEW t \in Text
    PROVE  /\ s \o t \in Text /\ <<>> \o t = t /\ s \o <<>> = s
           /\ s \o t = <<>> => s = <<>> /\ t = <<>>
           /\ s # <<>> => /\ s \o t # <<>> /\ Head(s \o t) = Head(s) /\ Tail(s \o t) = Tail(s) \o t
           /\ t # <<>> => Append(s, Head(t)) \o Tail(t) = s \o t
<1> USE DEF Text
<1>1. s \o t \in Text /\ <<>> \o t = t /\ s \o <<>> = s
  OBVIOUS
<1>2. s \o t = <<>> => s = <<>> /\ t = <<>>
  OBVIOUS
<1>3. ASSUME s # <<>>
      PROVE  s \o t # <<>> /\ Head(s \o t) = Head(s) /\ Tail(s \o t) = Tail(s) \o t
  BY <1>3
<1>4. ASSUME t # <<>>
      PROVE  Append(s, Head(t)) \o Tail(t) = s \o t
  BY SMTT(30), <1>4
<1> QED BY <1>1, <1>2, <1>3, <1>4

LEMMA NoFours ==
    /\ NoFour(<<>>) /\ NoFour(<<"A", "T">>)
    /\ \A s, t \in Text : NoFour(s) /\ NoFour(t) => NoFour(s \o t)
    /\ \A s \in Text : s # <<>> /\ NoFour(s) => Head(s) # "4" /\ NoFour(Tail(s))
<1> USE DEF Text, NoFour
<1>1. NoFour(<<>>) /\ NoFour(<<"A", "T">>)
  OBVIOUS
<1>2. \A s, t \in Text : NoFour(s) /\ NoFour(t) => NoFour(s \o t)
  OBVIOUS
<1>3. \A s \in Text : s # <<>> /\ NoFour(s) => Head(s) # "4" /\ NoFour(Tail(s))
  OBVIOUS
<1> QED BY <1>1, <1>2, <1>3

LEMMA OkNumericText == OkNumeric \in Text /\ Head(OkNumeric) = "0" /\ Tail(OkNumeric) = <<Cr>>
BY DEF OkNumeric, Text, Char, Cr, Lf

LEMMA OneLeft == <<Cr>> \in Text /\ <<Cr>> # <<>> /\ Head(<<Cr>>) = Cr /\ Tail(<<Cr>>) = <<>>
BY DEF Text, Char, Cr

LEMMA InitHeard == Init => Heard
BY DEF Init, Heard, Undisturbed

(* The next character of a stream that ends with the OK.                   *)
LEMMA NextCharacter ==
    ASSUME IInv, Heard, Undisturbed, verdict = "ok", rx # <<>>
    PROVE  /\ MatchError(Head(rx)) = 0
           /\ \/ /\ wanted = 1 /\ Match(Head(rx)) = 2
              \/ /\ wanted = 0 /\ Match(Head(rx)) = 0
                 /\ \E s \in Text : NoZero(s) /\ NoFour(s) /\ Tail(rx) \o air = s \o OkNumeric
              \/ /\ wanted = 0 /\ Match(Head(rx)) = 1 /\ Tail(rx) \o air = <<Cr>>
<1>t. TypeOK /\ rx \in Text /\ air \in Text /\ error = 0
  BY DEF IInv, TypeOK, Heard
<1>1. Head(rx) = Head(Stream) /\ Tail(rx) \o air = Tail(Stream) /\ Head(rx) \in Char
  BY <1>t, Streams, Texts DEF Stream
<1>2. ASSUME Head(rx) # "4" PROVE MatchError(Head(rx)) = 0
  <2>1. Match(Head(rx)) >= 0
    BY <1>t DEF Match, TypeOK
  <2> QED BY <1>2, <1>t, <2>1 DEF MatchError, ERRORstring
<1>3. CASE wanted = 1 /\ Stream = <<Cr>>
  <2>1. Head(rx) = Cr
    BY <1>1, <1>3, OneLeft
  <2>2. Match(Head(rx)) = 2
    BY <1>3, <2>1 DEF Match, OkNumeric
  <2> QED BY <1>2, <1>3, <2>1, <2>2 DEF Cr
<1>4. CASE wanted = 0 /\ \E s \in Text : NoZero(s) /\ NoFour(s) /\ Stream = s \o OkNumeric
  <2>1. PICK s \in Text : NoZero(s) /\ NoFour(s) /\ Stream = s \o OkNumeric
    BY <1>4
  <2>2. CASE s = <<>>
    <3>1. Stream = OkNumeric
      BY <2>1, <2>2, Streams, OkNumericText
    <3>2. Head(rx) = "0" /\ Tail(rx) \o air = <<Cr>>
      BY <1>1, <3>1, OkNumericText
    <3>3. Match(Head(rx)) = 1
      BY <1>4, <3>2 DEF Match, OkNumeric
    <3> QED BY <1>2, <1>4, <3>2, <3>3
  <2>3. CASE s # <<>>
    <3>1. Head(Stream) = Head(s) /\ Tail(Stream) = Tail(s) \o OkNumeric
      BY <2>1, <2>3, Streams, OkNumericText
    <3>2. Head(s) # "0" /\ Head(s) # "4" /\ NoZero(Tail(s)) /\ NoFour(Tail(s)) /\ Tail(s) \in Text
      BY <2>1, <2>3, NoZeros, NoFours, Texts
    <3>3. Match(Head(rx)) = 0
      BY <1>1, <1>4, <3>1, <3>2 DEF Match, OkNumeric
    <3> QED BY <1>1, <1>2, <1>4, <3>1, <3>2, <3>3
  <2> QED BY <2>2, <2>3
<1> QED BY <1>3, <1>4 DEF Heard

LEMMA NextHeard ==
    ASSUME CommandsWithoutFour, IInv, Heard, [Next]_vars
    PROVE  Heard'
<1>t. TypeOK /\ OwnQuestion /\ TypeOK'
  BY NextType DEF IInv
<1>f. from \in Int /\ faults \in Int /\ from <= faults /\ text \in Commands \cup {<<>>}
  BY <1>t DEF TypeOK, Heard
<1>r. rx \in Text /\ air \in Text
  BY <1>t DEF TypeOK
<1>1. CASE Call
  BY <1>1, <1>f DEF Call, Heard, Undisturbed
<1>2. CASE SendAt \/ ReadWindow
  BY <1>2, <1>f DEF SendAt, ReadWindow, Heard, Undisturbed
<1>3. CASE CloseWindow
  <2>1. pc' # "wait" /\ faults' \in {faults, faults + 1} /\ UNCHANGED <<text, from>>
    BY <1>3 DEF CloseWindow, GiveUp, TimeIsUp, Fails
  <2> QED BY <1>f, <2>1 DEF Heard, Undisturbed
<1>4. CASE SendCommand
  <2>1. /\ wanted' = 0 /\ error' = 0 /\ rx' = <<>> /\ air' = <<>> /\ verdict' = "none"
        /\ UNCHANGED <<faults, from, text>>
    BY <1>4, <1>t DEF SendCommand, CaughtUp, OwnQuestion
  <2>2. Stream' = <<>>
    BY <2>1 DEF Stream
  <2> QED BY <1>f, <2>1, <2>2 DEF Heard
<1>5. CASE Hear
  <2>1. /\ pc = "wait" /\ rx # <<>> /\ rx' = Tail(rx)
        /\ wanted' = Match(Head(rx)) /\ error' = MatchError(Head(rx))
        /\ UNCHANGED <<text, echo, numeric, inbox, air, verdict, faults, from>>
        /\ wanted' = 2 => pc' = "idle"
    BY <1>5 DEF Hear, modem, GiveUp, OkNumeric
  <2>2. Undisturbed' => Undisturbed
    BY <2>1 DEF Undisturbed, OwnText
  <2>3. ASSUME Undisturbed', verdict' = "none" PROVE FALSE
    <3>1. Stream = <<>>
      BY <2>1, <2>2, <2>3 DEF Heard
    <3> QED BY <1>r, <2>1, <3>1, Streams DEF Stream
  <2>4. ASSUME Undisturbed', verdict' = "ok"
        PROVE  /\ error' = 0 /\ inbox' = <<>>
               /\ \/ wanted' = 0 /\ \E s \in Text : NoZero(s) /\ NoFour(s) /\ Stream' = s \o OkNumeric
                  \/ wanted' = 1 /\ Stream' = <<Cr>>
    <3>1. Undisturbed /\ verdict = "ok" /\ inbox = <<>>
      BY <2>1, <2>2, <2>4 DEF Heard
    <3>2. wanted' # 2
      BY <2>1, <2>4 DEF Undisturbed
    <3>3. Stream' = Tail(rx) \o air
      BY <2>1 DEF Stream
    <3> QED BY <2>1, <3>1, <3>2, <3>3, NextCharacter
  <2> QED BY <1>f, <2>1, <2>3, <2>4 DEF Heard
<1>6. CASE NoAnswer
  <2>1. pc' # "wait" /\ faults' \in {faults, faults + 1} /\ UNCHANGED <<text, from>>
    BY <1>6 DEF NoAnswer, GiveUp, TimeIsUp, Fails
  <2> QED BY <1>f, <2>1 DEF Heard, Undisturbed
<1>7. CASE Answer
  <2>1. PICK v \in {"ok", "error"} :
            /\ air' = air \o Echo(Head(inbox).text) \o Code(v)
            /\ verdict' = IF Head(inbox).call = calls THEN v ELSE verdict
    BY <1>7 DEF Answer
  <2>2. /\ inbox # <<>> /\ inbox' = Tail(inbox)
        /\ UNCHANGED <<pc, wanted, error, text, echo, numeric, rx, faults, from>>
    BY <1>7 DEF Answer, matcher, modem
  <2>3. Undisturbed' => Undisturbed /\ pc = "wait"
    BY <2>2 DEF Undisturbed, OwnText
  <2>4. pc = "wait" => /\ Head(inbox) = [text |-> <<"A", "T">> \o text, call |-> calls]
                       /\ verdict = "none"
    BY <1>t, <2>2, Taken DEF IInv, OwnQuestion
  <2>5. pc = "wait" => verdict' = v
    BY <2>1, <2>4
  <2>6. ASSUME Undisturbed', verdict' = "ok"
        PROVE  /\ error' = 0 /\ inbox' = <<>> /\ wanted' = 0
               /\ \E s \in Text : NoZero(s) /\ NoFour(s) /\ Stream' = s \o OkNumeric
    <3>1. /\ Undisturbed /\ pc = "wait" /\ verdict = "none" /\ v = "ok"
          /\ wanted = 0 /\ error = 0 /\ Stream = <<>> /\ numeric /\ ~OwnText
      BY <2>3, <2>4, <2>5, <2>6 DEF Heard, Undisturbed
    <3>2. rx = <<>> /\ air = <<>>
      BY <1>r, <3>1, Streams DEF Stream
    <3>3. inbox' = <<>>
      <4>1. \A k \in 1 .. Len(inbox) : inbox[k].call = calls
        BY <1>t, <3>1 DEF OwnQuestion
      <4>2. \A k \in 1 .. Len(inbox) : k = 1
        BY <1>t, <2>2, <4>1, Taken DEF OwnQuestion
      <4>3. Len(inbox) \in Nat /\ Len(Tail(inbox)) = Len(inbox) - 1 /\ 1 \in 1 .. Len(inbox)
        BY <2>2, Taken
      <4>4. Len(inbox) = 1
        <5> DEFINE l == Len(inbox)
        <5>1. l \in Nat /\ 1 \in 1 .. l /\ \A k \in 1 .. l : k = 1
          BY <4>2, <4>3
        <5> HIDE DEF l
        <5>2. l \in 1 .. l
          BY <5>1
        <5>3. l = 1
          BY <5>1, <5>2
        <5> QED BY <5>3 DEF l
      <4>5. Len(Tail(inbox)) = 0
        BY <4>3, <4>4
      <4>6. Tail(inbox) \in Seq(Question)
        BY <1>t, <2>2, Asked, Questions
      <4> QED BY <2>2, <4>5, <4>6
    <3> DEFINE s == Echo(<<"A", "T">> \o text)
    <3>4. s \in Text /\ NoZero(s) /\ NoFour(s)
      <4>1. text \in Text /\ <<>> \in Text
        BY <1>t DEF TypeOK, Text
      <4>2. NoFour(text)
        BY <1>f, NoFours DEF CommandsWithoutFour
      <4>3. <<"A", "T">> \o text \in Text /\ NoFour(<<"A", "T">> \o text)
        BY <4>1, <4>2, NoFours, Texts
      <4>4. CASE echo
        <5>1. NoZero(text)
          BY <3>1, <4>1, <4>4 DEF OwnText, NoZero
        <5>2. NoZero(<<"A", "T">> \o text)
          BY <4>1, <5>1, NoZeros, Texts
        <5> QED BY <4>3, <4>4, <5>2 DEF Echo
      <4>5. CASE ~echo
        BY <4>1, <4>5, NoZeros, NoFours DEF Echo
      <4> QED BY <4>4, <4>5
    <3>5. Code(v) = OkNumeric
      BY <3>1 DEF Code
    <3>6. Head(inbox).text = <<"A", "T">> \o text
      BY <2>4, <3>1
    <3> HIDE DEF s
    <3>7. Echo(Head(inbox).text) = s
      BY <3>6 DEF s
    <3>8. Stream' = s \o OkNumeric
      <4>1. air' = <<>> \o s \o OkNumeric
        BY <2>1, <3>2, <3>5, <3>7
      <4>2. <<>> \o s = s /\ s \o OkNumeric \in Text
        BY <3>4, Streams, OkNumericText
      <4>3. Stream' = <<>> \o (s \o OkNumeric)
        BY <2>2, <3>2, <4>1, <4>2 DEF Stream
      <4> QED BY <3>4, <4>2, <4>3, Streams
    <3> QED BY <2>2, <3>1, <3>3, <3>4, <3>8
  <2>7. Undisturbed' => verdict' # "none"
    BY <2>3, <2>5
  <2> QED BY <1>f, <2>2, <2>6, <2>7 DEF Heard
<1>8. CASE Ignore \/ Interrupt
  <2>1. faults' = faults + 1 /\ UNCHANGED <<text, from>>
    BY <1>8 DEF Ignore, Interrupt, Fails
  <2>2. ~Undisturbed'
    BY <1>f, <2>1 DEF Undisturbed
  <2> QED BY <1>f, <2>1, <2>2 DEF Heard
<1>9. CASE Arrive
  <2>1. /\ air # <<>> /\ air' = Tail(air)
        /\ pc = "wait" => rx' = Append(rx, Head(air))
        /\ UNCHANGED <<pc, wanted, error, text, echo, numeric, inbox, verdict, faults, from>>
    BY <1>9 DEF Arrive, matcher, modem
  <2>2. pc = "wait" => Stream' = Stream
    <3>1. Append(rx, Head(air)) \o Tail(air) = rx \o air
      BY <1>r, <2>1, Streams
    <3> QED BY <2>1, <3>1 DEF Stream
  <2>3. Undisturbed' <=> Undisturbed
    BY <2>1 DEF Undisturbed, OwnText
  <2> QED BY <2>1, <2>2, <2>3 DEF Heard, Undisturbed
<1>10. CASE UNCHANGED vars
  <2>1. UNCHANGED <<pc, wanted, error, text, echo, numeric, inbox, verdict, faults, from, rx, air>>
    BY <1>10 DEF vars, matcher, modem, wire
  <2>2. (Undisturbed' <=> Undisturbed) /\ Stream' = Stream
    BY <2>1 DEF Undisturbed, OwnText, Stream
  <2> QED BY <2>1, <2>2 DEF Heard
<1> QED
  BY <1>1, <1>2, <1>3, <1>4, <1>5, <1>6, <1>7, <1>8, <1>9, <1>10 DEF Next, Program, Environment

(* With nothing lost, late or unasked during the call, a modem that        *)
(* answers in numbers is understood: the caller is told 1 exactly if the   *)
(* command was carried out.  A command with a four in its text is left     *)
(* out: its echo may be taken for an error.                                *)
THEOREM Understood ==
    ASSUME CommandsWithoutFour
    PROVE  Spec => TellsWhatHappened
<1>1. Init => Heard
  BY InitHeard
<1>2. IInv /\ Heard /\ [Next]_vars => Heard'
  BY NextHeard
<1>3. IInv /\ Heard /\ [Next]_vars =>
          [pc # "idle" /\ pc' = "idle" /\ faults' = from /\ numeric /\ ~OwnText =>
               (told' = 1 <=> verdict = "ok")]_vars
  <2> SUFFICES ASSUME IInv, Heard, [Next]_vars, pc # "idle", pc' = "idle", faults' = from,
                      numeric, ~OwnText
               PROVE  told' = 1 <=> verdict = "ok"
    OBVIOUS
  <2>t. /\ TypeOK /\ OwnQuestion /\ from \in Int /\ faults \in Int /\ from <= faults
        /\ rx \in Text /\ air \in Text
    BY DEF IInv, TypeOK, Heard
  <2>1. CASE CloseWindow
    <3>1. told' = 0 /\ verdict = "none"
      BY <2>1, <2>t DEF CloseWindow, GiveUp, OwnQuestion
    <3> QED BY <3>1
  <2>2. CASE Hear
    <3>1. /\ pc = "wait" /\ rx # <<>> /\ faults = from
          /\ wanted' = Match(Head(rx)) /\ error' = MatchError(Head(rx))
          /\ told' = (IF error' = 0 THEN 1 ELSE 0)
      BY <2>2 DEF Hear, GiveUp
    <3>2. Undisturbed
      BY <3>1 DEF Undisturbed
    <3>3. verdict = "ok" => told' = 1
      BY <3>1, <3>2, NextCharacter
    <3>4. told' = 1 => verdict = "ok"
      <4>1. [Exchange!Ask \/ Exchange!CarryOut \/ Exchange!Tell]_Exchange!exchange
        BY Refines
      <4>2. told = Pending
        BY <2>t, <3>1 DEF TypeOK
      <4> QED BY <3>1, <4>1, <4>2 DEF Exchange!Ask, Exchange!CarryOut, Exchange!Tell, Exchange!exchange
    <3> QED BY <3>3, <3>4
  <2>3. CASE NoAnswer
    <3>1. pc = "wait" /\ rx = <<>> /\ told' = 0 /\ TimeIsUp
      BY <2>3 DEF NoAnswer, GiveUp
    <3>2. faults = from /\ air = <<>>
      BY <2>t, <3>1 DEF TimeIsUp, Fails, CaughtUp
    <3>3. Undisturbed
      BY <3>1, <3>2 DEF Undisturbed
    <3>4. Stream = <<>>
      BY <3>1, <3>2 DEF Stream
    <3>5. verdict # "ok"
      <4>1. \A s \in Text : s \o OkNumeric # <<>>
        BY Streams, OkNumericText DEF OkNumeric
      <4> QED BY <3>3, <3>4, <4>1, OneLeft DEF Heard
    <3> QED BY <3>1, <3>5
  <2>4. CASE Call \/ SendAt \/ ReadWindow \/ SendCommand \/ Answer \/ Ignore \/ Interrupt \/ Arrive
             \/ UNCHANGED vars
    BY <2>4 DEF Call, SendAt, ReadWindow, SendCommand, Answer, Ignore, Interrupt, Arrive, vars
  <2> QED BY <2>1, <2>2, <2>3, <2>4 DEF Next, Program, Environment
<1> QED BY <1>1, <1>2, <1>3, Invariant, PTL DEF Spec, TellsWhatHappened
-------------------------------------------------------------------------------
(* gsmSendAtCommand gives up late.  What is still to come is paid for: an   *)
(* AT that was tried costs 7, the room its window leaves beyond an answer,  *)
(* a character on its way costs 1, and every fault has brought 7 * n.  So a *)
(* window that begins with nothing on its way and meets no fault reads the  *)
(* answer of its own AT, and another that fails has used up what it found.  *)

AtQuestion == [text |-> AtEcho, call |-> 0]

(* What a modem that echoes or answers in numbers makes of an AT.          *)
Reply == Echo(AtEcho) \o Code("ok")

Tries == i * InnerTries + j
Budget(n) == 7 * (n * (faults + 1))

(* At most one command is unanswered, in front of all ATs.                 *)
Sent(n) ==
    \A k \in 1 .. Len(inbox) :
        IF inbox[k].call = 0 THEN inbox[k] = AtQuestion
        ELSE k = 1 /\ Len(inbox[k].text) + 6 <= 7 * n

CommandAhead == inbox # <<>> /\ inbox[1].call # 0

(* The characters that are on their way or that an answer may bring.       *)
Ahead(n) == Len(air) + 9 * Len(inbox) + IF CommandAhead THEN 7 * n - 9 ELSE 0

(* A window that reads the answer of its own AT and nothing else.          *)
Pure ==
    \/ inbox = <<AtQuestion>> /\ tmp = <<>> /\ Stream = <<>>
    \/ inbox = <<>> /\ tmp \o Stream = Reply

Spoilt(n) ==
    /\ 7 * (Tries + 1) <= Budget(n)
    /\ 7 * Tries + Len(tmp) + Len(rx) + Ahead(n) <= Budget(n) + 9

Patience(n) ==
    /\ text \in Commands \cup {<<>>}
    /\ Sent(n)
    /\ numeric \/ echo =>
           /\ pc = "at" => 7 * Tries + Ahead(n) <= Budget(n)
           /\ pc \in {"idle", "wait"} => Ahead(n) <= Budget(n)
           /\ pc = "window" => (Pure /\ 7 * Tries <= Budget(n)) \/ Spoilt(n)

LEMMA Joined ==
    ASSUME NEW s \in Text, NEW t \in Text
    PROVE  /\ s \o t \in Text /\ Len(s \o t) = Len(s) + Len(t)
           /\ \A k \in 1 .. Len(s) : (s \o t)[k] = s[k]
           /\ \A k \in 1 .. Len(t) : (s \o t)[Len(s) + k] = t[k]
BY DEF Text

LEMMA Starts ==
    ASSUME NEW s \in Text, NEW t \in Text, Len(t) <= Len(s),
           \A k \in 1 .. Len(t) : s[k] = t[k]
    PROVE  StartsWith(s, t)
<1>1. Len(t) \in Nat /\ Len(s) \in Nat /\ s \in Seq(Char) /\ t \in Seq(Char)
  BY DEF Text
<1>2. SubSeq(s, 1, Len(t)) = t
  <2>1. /\ SubSeq(s, 1, Len(t)) \in Seq(Char)
        /\ Len(SubSeq(s, 1, Len(t))) = Len(t)
        /\ \A k \in 1 .. Len(t) : SubSeq(s, 1, Len(t))[k] = s[k]
    BY <1>1
  <2> QED BY <1>1, <2>1, SeqEqual
<1> QED BY <1>2 DEF StartsWith

CrLf == <<Cr, Lf>>
Zero == <<"0">>

LEMMA Parts ==
    /\ OkNumeric \in Text /\ Len(OkNumeric) = 2 /\ OkNumeric[1] = "0"
    /\ ERRORstring \in Text /\ Len(ERRORstring) = 2
    /\ OkText \in Text /\ Len(OkText) = 4
    /\ CrLf \in Text /\ Len(CrLf) = 2
    /\ Zero \in Text /\ Len(Zero) = 1 /\ Zero[1] = "0"
    /\ AtEcho \in Text /\ Len(AtEcho) = 3
BY DEF OkNumeric, ERRORstring, OkText, CrLf, Zero, AtEcho, Text, Char, Cr, Lf

LEMMA CodeLength == \A v \in {"ok", "error"} : Len(Code(v)) <= 6
<1>1. Len(<<Cr, Lf, "x", Cr, Lf>>) = 5
  OBVIOUS
<1>2. Len(CrLf \o OkText) = 6
  <2>1. Len(CrLf \o OkText) = Len(CrLf) + Len(OkText)
    BY Parts, Joined, Zenon
  <2> QED BY <2>1, Parts
<1>3. \A v \in {"ok", "error"} :
          Code(v) \in {OkNumeric, ERRORstring, CrLf \o OkText, <<Cr, Lf, "x", Cr, Lf>>}
  BY DEF Code, CrLf
<1> QED BY SMTT(30), <1>1, <1>2, <1>3, Parts

LEMMA EchoType ==
    ASSUME NEW s \in Text
    PROVE  Echo(s) \in Text /\ Len(Echo(s)) <= Len(s)
<1>1. <<>> \in Text /\ Len(<<>>) = 0 /\ Len(s) \in Nat
  BY DEF Text
<1> QED BY <1>1 DEF Echo

(* An answer is no longer than Ahead counts for its question.              *)
LEMMA AnswerLength ==
    ASSUME NEW s \in Text, NEW v \in {"ok", "error"}, NEW a \in Text
    PROVE  LET b == a \o Echo(s) \o Code(v)
           IN  b \in Text /\ Len(b) \in Nat /\ Len(b) <= Len(a) + Len(s) + 6
<1>1. Echo(s) \in Text /\ Code(v) \in Text /\ Len(Echo(s)) <= Len(s) /\ Len(Code(v)) <= 6
  BY EchoType, CodeText, CodeLength
<1>2. a \o Echo(s) \in Text /\ Len(a \o Echo(s)) = Len(a) + Len(Echo(s))
  BY <1>1 DEF Text
<1>3. /\ (a \o Echo(s)) \o Code(v) \in Text
      /\ Len((a \o Echo(s)) \o Code(v)) = Len(a \o Echo(s)) + Len(Code(v))
  BY <1>1, <1>2 DEF Text
<1>4. /\ Len(a) \in Nat /\ Len(s) \in Nat /\ Len(Echo(s)) \in Nat /\ Len(Code(v)) \in Nat
      /\ Len((a \o Echo(s)) \o Code(v)) \in Nat
  BY <1>1, <1>3 DEF Text
<1> QED BY <1>1, <1>2, <1>3, <1>4

LEMMA ReplyIsOk ==
    /\ Reply \in Text /\ Len(Reply) > 0 /\ Len(Reply) <= 9
    /\ numeric \/ echo => IsOk(Reply)
<1>1. CASE numeric /\ ~echo
  <2>1. Reply = OkNumeric
    BY <1>1, Parts, Streams DEF Reply, Echo, Code
  <2>2. StartsWith(OkNumeric, OkNumeric)
    BY Parts, Starts
  <2> QED BY <2>1, <2>2, Parts DEF IsOk
<1>2. CASE numeric /\ echo
  <2> DEFINE head == AtEcho \o Zero
  <2>1. Reply = AtEcho \o OkNumeric
    BY <1>2 DEF Reply, Echo, Code
  <2>h. /\ head \in Text /\ Len(head) = Len(AtEcho) + Len(Zero)
        /\ \A k \in 1 .. Len(AtEcho) : head[k] = AtEcho[k]
        /\ \A k \in 1 .. Len(Zero) : head[Len(AtEcho) + k] = Zero[k]
    BY Parts, Joined, Zenon
  <2>r. /\ Reply \in Text /\ Len(Reply) = Len(AtEcho) + Len(OkNumeric)
        /\ \A k \in 1 .. Len(AtEcho) : Reply[k] = AtEcho[k]
        /\ \A k \in 1 .. Len(OkNumeric) : Reply[Len(AtEcho) + k] = OkNumeric[k]
    BY <2>1, Parts, Joined, Zenon
  <2>s. StartsWith(Reply, head) => IsOk(Reply)
    BY DEF IsOk, Zero
  <2> HIDE DEF head
  <2>2. Reply \in Text /\ Len(Reply) = 5 /\ head \in Text /\ Len(head) = 4
    BY <2>h, <2>r, Parts
  <2>3. ASSUME NEW k \in 1 .. 4 PROVE Reply[k] = head[k]
    <3>1. CASE k <= 3
      BY <2>h, <2>r, <3>1, Parts
    <3>2. CASE k = 4
      <4>1. Reply[3 + 1] = "0"
        BY <2>r, Parts
      <4>2. head[3 + 1] = "0"
        BY <2>h, Parts
      <4> QED BY <3>2, <4>1, <4>2
    <3> QED BY <3>1, <3>2
  <2>4. StartsWith(Reply, head)
    BY SMTT(30), <2>2, <2>3, Starts
  <2> QED BY <2>2, <2>4, <2>s
<1>3. CASE ~numeric
  <2> DEFINE c == CrLf \o OkText
  <2>1. c \in Text /\ Len(c) = 6
    <3>1. c \in Text /\ Len(c) = Len(CrLf) + Len(OkText)
      BY Parts, Joined, Zenon
    <3> QED BY <3>1, Parts
  <2>c. Code("ok") = c
    BY <1>3 DEF Code, CrLf
  <2>2. CASE ~echo
    <3>1. Reply = <<>> \o c
      BY <2>c, <2>2 DEF Reply, Echo
    <3> QED BY <1>3, <2>1, <2>2, <3>1, Streams, Parts
  <2>3. CASE echo
    <3>1. Reply = AtEcho \o c
      BY <2>c, <2>3 DEF Reply, Echo
    <3>2. AtEcho \o CrLf \o OkText = Reply
      <4>1. AtEcho \in Seq(Char) /\ CrLf \in Seq(Char) /\ OkText \in Seq(Char)
        BY Parts DEF Text
      <4> QED BY <3>1, <4>1, ConcatAssociative
    <3>3. Reply \in Text /\ Len(Reply) = 9
      <4>1. Reply \in Text /\ Len(Reply) = Len(AtEcho) + Len(c)
        BY <2>1, <3>1, Parts, Joined, Zenon
      <4> QED BY <2>1, <4>1, Parts
    <3>4. StartsWith(Reply, Reply)
      BY <3>3, Starts
    <3>5. IsOk(Reply)
      <4>1. StartsWith(Reply, AtEcho \o <<Cr, Lf>> \o OkText)
        BY <3>2, <3>4, Zenon DEF CrLf
      <4> QED BY <4>1, Zenon DEF IsOk
    <3> QED BY <3>3, <3>5
  <2> QED BY <2>2, <2>3
<1> QED BY <1>1, <1>2, <1>3

(* The sizes that are added up. *)
LEMMA Sizes ==
    ASSUME TypeOK, NEW n \in Nat, n >= 3
    PROVE  /\ air \in Text /\ rx \in Text /\ tmp \in Text /\ Stream \in Text
           /\ Len(air) \in Nat /\ Len(rx) \in Nat /\ Len(tmp) \in Nat /\ Len(inbox) \in Nat
           /\ Len(Stream) = Len(rx) + Len(air)
           /\ Tries \in Nat /\ Ahead(n) \in Nat
           /\ n * (faults + 1) \in Nat /\ Budget(n) \in Nat /\ Budget(n) >= 7 * n
<1>1. /\ air \in Text /\ rx \in Text /\ tmp \in Text
      /\ Len(air) \in Nat /\ Len(rx) \in Nat /\ Len(tmp) \in Nat /\ Len(inbox) \in Nat
  BY DEF TypeOK, Text
<1>2. Stream \in Text /\ Len(Stream) = Len(rx) + Len(air)
  BY <1>1, Joined, Zenon DEF Stream
<1>3. Tries \in Nat
  <2>1. i \in Nat /\ j \in Nat /\ InnerTries \in Nat
    BY DEF TypeOK
  <2> QED BY <2>1 DEF Tries
<1>4. Ahead(n) \in Nat
  <2>1. 7 * n - 9 \in Nat
    OBVIOUS
  <2> QED BY <1>1, <2>1 DEF Ahead
<1>5. n * (faults + 1) \in Nat /\ n * (faults + 1) >= n
  <2>1. faults \in Nat
    BY DEF TypeOK
  <2>2. n * (faults + 1) = n * faults + n /\ n * faults \in Nat
    BY <2>1
  <2> QED BY <2>2
<1>6. Budget(n) \in Nat /\ Budget(n) >= 7 * n
  BY <1>5 DEF Budget
<1> QED BY <1>1, <1>2, <1>3, <1>4, <1>5, <1>6

LEMMA Product == \A a, f \in Nat : a * (f + 1) \in Nat
OBVIOUS

LEMMA SizesNext ==
    ASSUME TypeOK', NEW n \in Nat, n >= 3
    PROVE  Ahead(n)' \in Nat /\ Budget(n)' \in Nat
<1>1. Len(air') \in Nat /\ Len(inbox') \in Nat /\ faults' \in Nat /\ 7 * n - 9 \in Nat
  BY DEF TypeOK, Text
<1>2. n * (faults' + 1) \in Nat
  BY <1>1, Product
<1>3. Ahead(n)' \in Nat
  BY <1>1 DEF Ahead
<1>4. Budget(n)' \in Nat
  BY <1>2 DEF Budget
<1> QED BY <1>3, <1>4

(* A fault brings 7 * n. *)
LEMMA BudgetGrows ==
    ASSUME TypeOK, NEW n \in Nat
    PROVE  /\ faults' = faults => Budget(n)' = Budget(n)
           /\ faults' = faults + 1 => Budget(n)' = Budget(n) + 7 * n
<1>1. faults \in Nat
  BY DEF TypeOK
<1>2. ASSUME faults' = faults + 1 PROVE Budget(n)' = Budget(n) + 7 * n
  <2>1. n * (faults + 1 + 1) = n * (faults + 1) + n /\ n * (faults + 1) \in Nat
    BY <1>1
  <2> QED BY <1>2, <2>1 DEF Budget
<1> QED BY <1>2 DEF Budget

LEMMA SentFront ==
    ASSUME IInv, NEW n \in Nat, Sent(n), inbox # <<>>
    PROVE  /\ Head(inbox) = inbox[1] /\ Head(inbox).text \in Text /\ Len(Head(inbox).text) \in Nat
           /\ ~CommandAhead => Head(inbox) = AtQuestion
           /\ CommandAhead => Len(Head(inbox).text) + 6 <= 7 * n
           /\ Len(Tail(inbox)) = Len(inbox) - 1
           /\ \A k \in 1 .. Len(Tail(inbox)) : Tail(inbox)[k] = AtQuestion
<1>1. /\ Head(inbox) = inbox[1] /\ Head(inbox) \in Question
      /\ Len(inbox) \in Nat /\ Len(Tail(inbox)) = Len(inbox) - 1 /\ 1 \in 1 .. Len(inbox)
      /\ \A k \in 1 .. Len(Tail(inbox)) : Tail(inbox)[k] = inbox[k + 1] /\ k + 1 \in 2 .. Len(inbox)
  BY Taken
<1>2. Head(inbox).text \in Text /\ Len(Head(inbox).text) \in Nat
  BY <1>1 DEF Question, Text
<1>3. \A k \in 1 .. Len(Tail(inbox)) : inbox[k + 1] = AtQuestion
  BY <1>1 DEF Sent
<1> QED BY <1>1, <1>2, <1>3 DEF Sent, CommandAhead

LEMMA NextSent ==
    ASSUME NEW n \in Nat, n >= 3, MadeUpBy(n), IInv, Sent(n), text \in Commands \cup {<<>>}, [Next]_vars
    PROVE  Sent(n)' /\ text' \in Commands \cup {<<>>}
<1>t. TypeOK /\ OwnQuestion
  BY DEF IInv
<1>1. CASE SendAt
  <2>1. inbox' = Append(inbox, AtQuestion) /\ text' = text
    BY <1>1 DEF SendAt, AtQuestion
  <2>2. /\ Len(inbox') = Len(inbox) + 1
        /\ \A k \in 1 .. Len(inbox') : inbox'[k] = IF k = Len(inbox) + 1 THEN AtQuestion ELSE inbox[k]
    BY <2>1, SentOwn
  <2>3. Len(inbox) \in Nat /\ AtQuestion.call = 0
    BY <1>t, Asked DEF AtQuestion
  <2> QED BY <2>1, <2>2, <2>3 DEF Sent
<1>2. CASE SendCommand
  <2> DEFINE m == [text |-> <<"A", "T">> \o text, call |-> calls]
  <2>1. inbox' = <<m>> /\ text' = text /\ m.call # 0
    BY <1>2, <1>t DEF SendCommand, CaughtUp, OwnQuestion
  <2>2. Len(m.text) + 6 <= 7 * n
    <3>1. /\ <<"A", "T">> \in Text /\ Len(<<"A", "T">>) = 2
          /\ text \in Text /\ Len(text) \in Nat /\ Len(text) + 8 <= 7 * n
      BY <1>t DEF TypeOK, Text, Char, MadeUpBy
    <3>2. Len(<<"A", "T">> \o text) = Len(<<"A", "T">>) + Len(text)
      BY <3>1, Joined, Zenon
    <3> QED BY <3>1, <3>2
  <2> HIDE DEF m
  <2> QED BY <2>1, <2>2 DEF Sent
<1>3. CASE Answer \/ Ignore
  <2>1. inbox # <<>> /\ inbox' = Tail(inbox) /\ text' = text
    BY <1>3 DEF Answer, Ignore
  <2>2. \A k \in 1 .. Len(inbox') : inbox'[k] = AtQuestion
    BY <2>1, SentFront
  <2> QED BY <2>1, <2>2 DEF Sent, AtQuestion
<1>4. CASE Call \/ ReadWindow \/ CloseWindow \/ Hear \/ NoAnswer \/ Interrupt \/ Arrive \/ UNCHANGED vars
  <2>1. inbox' = inbox /\ (text' = text \/ text' \in Commands)
    BY <1>4 DEF Call, ReadWindow, CloseWindow, Hear, NoAnswer, Interrupt, Arrive, vars, wire
  <2> QED BY <2>1 DEF Sent
<1> QED BY <1>1, <1>2, <1>3, <1>4 DEF Next, Program, Environment

(* What a step does to what is on its way. *)
LEMMA NextAhead ==
    ASSUME NEW n \in Nat, n >= 3, MadeUpBy(n), IInv, Sent(n), Sent(n)', [Next]_vars
    PROVE  /\ SendAt => Ahead(n)' = Ahead(n) + 9
           /\ SendCommand => Ahead(n)' <= 7 * n
           /\ Answer \/ Ignore => Ahead(n)' <= Ahead(n)
           /\ Interrupt => Ahead(n)' <= Ahead(n) + 7 * n
           /\ Arrive => Ahead(n)' = Ahead(n) - 1
           /\ UNCHANGED <<inbox, air>> => Ahead(n)' = Ahead(n)
<1>t. TypeOK /\ TypeOK' /\ Len(inbox) \in Nat /\ Len(air) \in Nat /\ air \in Text
  BY NextType, Sizes DEF IInv
<1>q. inbox \in Seq(Question) /\ inbox' \in Seq(Question)
  BY <1>t DEF TypeOK, Question
<1>e. \A q \in Seq(Question) : Len(q) \in Nat /\ (q # <<>> <=> Len(q) # 0)
  OBVIOUS
<1>1. ASSUME SendAt PROVE Ahead(n)' = Ahead(n) + 9
  <2>1. inbox' = Append(inbox, AtQuestion) /\ air' = air /\ AtQuestion.call = 0
    BY <1>1 DEF SendAt, AtQuestion
  <2>2. /\ Len(inbox') = Len(inbox) + 1
        /\ \A k \in 1 .. Len(inbox') : inbox'[k] = IF k = Len(inbox) + 1 THEN AtQuestion ELSE inbox[k]
    BY <2>1, SentOwn
  <2>3. inbox # <<>> <=> Len(inbox) # 0
    BY <1>q, <1>e
  <2>4. inbox' # <<>>
    BY <1>q, <1>e, <1>t, <2>2
  <2>5. CommandAhead' <=> CommandAhead
    BY <1>t, <2>1, <2>2, <2>3, <2>4 DEF CommandAhead
  <2> QED BY <1>t, <2>1, <2>2, <2>5 DEF Ahead
<1>2. ASSUME SendCommand PROVE Ahead(n)' <= 7 * n
  <2>1. Len(inbox') = 1 /\ Len(air') = 0
    BY <1>2 DEF SendCommand, CaughtUp
  <2> QED BY <2>1 DEF Ahead
<1>3. ASSUME Answer \/ Ignore PROVE Ahead(n)' <= Ahead(n)
  <2>1. inbox # <<>> /\ inbox' = Tail(inbox)
    BY <1>3 DEF Answer, Ignore
  <2>2. /\ Len(inbox') = Len(inbox) - 1 /\ Len(inbox') \in Nat
        /\ \A k \in 1 .. Len(inbox') : inbox'[k] = AtQuestion
    BY <1>q, <1>e, <2>1, SentFront
  <2>3. ~CommandAhead'
    <3>1. inbox' # <<>> => 1 \in 1 .. Len(inbox')
      BY <1>q, <1>e
    <3> QED BY <2>2, <3>1 DEF CommandAhead, AtQuestion
  <2>4. Len(air') \in Nat /\ Len(air') <= Len(air) + 9 + IF CommandAhead THEN 7 * n - 9 ELSE 0
    <3>1. CASE Ignore
      BY <1>t, <3>1 DEF Ignore
    <3>2. CASE Answer
      <4>1. PICK v \in {"ok", "error"} : air' = air \o Echo(Head(inbox).text) \o Code(v)
        BY <3>2 DEF Answer
      <4>2. Len(air') \in Nat /\ Len(air') <= Len(air) + Len(Head(inbox).text) + 6
        BY <1>t, <2>1, <4>1, SentFront, AnswerLength
      <4>3. Len(Head(inbox).text) \in Nat /\ (CommandAhead => Len(Head(inbox).text) + 6 <= 7 * n)
        BY <2>1, SentFront
      <4>4. ~CommandAhead => Len(Head(inbox).text) = 3
        BY <2>1, SentFront, Parts DEF AtQuestion
      <4> DEFINE l == Len(Head(inbox).text)
      <4> HIDE DEF l
      <4>5. CASE CommandAhead
        BY <1>t, <4>2, <4>3, <4>5 DEF l
      <4>6. CASE ~CommandAhead
        <5>1. l = 3
          BY <4>4, <4>6 DEF l
        <5>2. Len(air') \in Nat /\ Len(air') <= Len(air) + l + 6
          BY <4>2 DEF l
        <5>3. Len(air') <= Len(air) + 9
          BY <1>t, <5>1, <5>2
        <5> QED BY <1>t, <4>6, <5>2, <5>3
      <4> QED BY <4>5, <4>6
    <3> QED BY <1>3, <3>1, <3>2
  <2> QED BY <1>t, <2>2, <2>3, <2>4 DEF Ahead
<1>4. ASSUME Interrupt PROVE Ahead(n)' <= Ahead(n) + 7 * n
  <2>1. PICK line \in Unsolicited : air' = air \o line
    BY <1>4 DEF Interrupt
  <2>2. inbox' = inbox /\ line \in Text /\ Len(line) \in Nat /\ Len(line) <= 7 * n
    BY <1>4, Texts DEF Interrupt, MadeUpBy, Text
  <2>3. Len(air') = Len(air) + Len(line)
    BY <1>t, <2>1, <2>2, Joined, Zenon
  <2>4. CommandAhead' <=> CommandAhead
    BY <2>2 DEF CommandAhead
  <2> QED BY <1>t, <2>2, <2>3, <2>4 DEF Ahead
<1>5. ASSUME Arrive PROVE Ahead(n)' = Ahead(n) - 1
  <2>1. inbox' = inbox /\ Len(air') = Len(air) - 1
    BY <1>5, <1>t, Texts DEF Arrive
  <2>2. CommandAhead' <=> CommandAhead
    BY <2>1 DEF CommandAhead
  <2> QED BY <1>t, <2>1, <2>2 DEF Ahead
<1>6. ASSUME UNCHANGED <<inbox, air>> PROVE Ahead(n)' = Ahead(n)
  BY <1>6 DEF Ahead, CommandAhead
<1> QED BY <1>1, <1>2, <1>3, <1>4, <1>5, <1>6

(* What its own AT brings into a window is an answer. *)
LEMMA PureAhead ==
    ASSUME NEW n \in Nat, n >= 3, TypeOK, Pure
    PROVE  Len(tmp) + Len(rx) + Ahead(n) <= 9
<1>t. /\ tmp \in Text /\ Stream \in Text /\ Len(tmp) \in Nat /\ Len(rx) \in Nat /\ Len(air) \in Nat
      /\ Len(Stream) = Len(rx) + Len(air)
  BY Sizes
<1>1. CASE inbox = <<AtQuestion>> /\ tmp = <<>> /\ Stream = <<>>
  <2>1. Len(inbox) = 1 /\ ~CommandAhead /\ Len(tmp) = 0 /\ Len(Stream) = 0
    BY <1>1 DEF CommandAhead, AtQuestion
  <2>2. Ahead(n) = Len(air) + 9
    BY <1>t, <2>1 DEF Ahead
  <2>3. \A a, b \in Nat : a + b = 0 => a = 0 /\ b = 0
    OBVIOUS
  <2>4. Len(rx) = 0 /\ Len(air) = 0
    BY <1>t, <2>1, <2>3, Zenon
  <2> QED BY <2>1, <2>2, <2>4
<1>2. CASE inbox = <<>> /\ tmp \o Stream = Reply
  <2>1. Len(inbox) = 0 /\ ~CommandAhead
    BY <1>2 DEF CommandAhead
  <2>2. Len(Reply) = Len(tmp) + Len(Stream)
    BY <1>t, <1>2, Joined, Zenon
  <2> QED BY <1>t, <2>1, <2>2, ReplyIsOk DEF Ahead
<1> QED BY <1>1, <1>2 DEF Pure

(* A fault in a window: whatever it does, it brings more than it spoils. *)
LEMMA FaultSpoils ==
    ASSUME NEW n \in Nat, n >= 3, TypeOK, TypeOK', (Pure /\ 7 * Tries <= Budget(n)) \/ Spoilt(n),
           Budget(n)' = Budget(n) + 7 * n, Ahead(n)' <= Ahead(n) + 7 * n, UNCHANGED <<i, j, tmp, rx>>
    PROVE  Spoilt(n)'
<1>t. /\ Tries \in Nat /\ Budget(n) \in Nat /\ Ahead(n) \in Nat /\ Len(tmp) \in Nat /\ Len(rx) \in Nat
      /\ Ahead(n)' \in Nat /\ Budget(n)' \in Nat
  BY Sizes, SizesNext
<1>1. Tries' = Tries /\ Len(tmp') = Len(tmp) /\ Len(rx') = Len(rx)
  BY DEF Tries
<1>2. 7 * Tries <= Budget(n) /\ 7 * Tries + Len(tmp) + Len(rx) + Ahead(n) <= Budget(n) + 9
  BY SMTT(30), <1>t, PureAhead DEF Spoilt
<1>3. 7 * (Tries' + 1) <= Budget(n)'
  BY SMTT(30), <1>t, <1>1, <1>2
<1>4. 7 * Tries' + Len(tmp') + Len(rx') + Ahead(n)' <= Budget(n)' + 9
  BY SMTT(30), <1>t, <1>1, <1>2
<1> QED BY <1>3, <1>4 DEF Spoilt

(* An AT that fails is paid for. *)
LEMMA FailurePaid ==
    ASSUME NEW n \in Nat, n >= 3, MadeUpBy(n), TypeOK, TypeOK',
           numeric \/ echo, (Pure /\ 7 * Tries <= Budget(n)) \/ Spoilt(n),
           CloseWindow, ~IsOk(tmp)
    PROVE  7 * (Tries + 1) + Ahead(n) <= Budget(n)'
<1>t. /\ Tries \in Nat /\ Budget(n) \in Nat /\ Ahead(n) \in Nat /\ Len(tmp) \in Nat /\ Len(rx) \in Nat
      /\ Len(air) \in Nat /\ tmp \in Text /\ rx \in Text /\ air \in Text /\ Stream \in Text
      /\ Budget(n)' \in Nat
  BY Sizes, SizesNext
<1>w. WindowLength \in Nat /\ WindowLength >= 16
  BY DEF MadeUpBy
<1>1. \/ Len(tmp) = WindowLength /\ faults' = faults
      \/ rx = <<>> /\ CaughtUp /\ faults' = faults
      \/ faults' = faults + 1
  BY DEF CloseWindow, TimeIsUp, Fails
<1>2. CASE faults' = faults + 1
  <2>1. Budget(n)' = Budget(n) + 7 * n
    BY <1>2, BudgetGrows
  <2>2. 7 * Tries + Len(tmp) + Len(rx) + Ahead(n) <= Budget(n) + 9
    BY <1>t, PureAhead DEF Spoilt
  <2> QED BY <1>t, <2>1, <2>2
<1>3. CASE faults' = faults /\ Pure
  <2>1. CASE inbox = <<AtQuestion>> /\ tmp = <<>> /\ Stream = <<>>
    <3>1. Len(tmp) = 0 /\ ~CaughtUp
      BY <2>1 DEF CaughtUp
    <3>2. faults' # faults + 1
      BY <1>3 DEF TypeOK
    <3> QED BY <1>1, <1>w, <3>1, <3>2
  <2>2. CASE inbox = <<>> /\ tmp \o Stream = Reply
    <3>1. Len(tmp) + Len(Stream) <= 9 /\ Len(Stream) \in Nat
      <4>1. Len(Reply) = Len(tmp) + Len(Stream)
        BY <1>t, <2>2, Joined, Zenon
      <4>2. Len(Stream) \in Nat
        BY <1>t DEF Text
      <4> QED BY <4>1, <4>2, ReplyIsOk
    <3>2. Len(tmp) # WindowLength
      BY <1>t, <1>w, <3>1
    <3>3. faults' # faults + 1
      BY <1>3 DEF TypeOK
    <3>4. rx = <<>> /\ air = <<>>
      BY <1>1, <3>2, <3>3 DEF CaughtUp
    <3>5. Stream = <<>>
      BY <3>4 DEF Stream
    <3>6. tmp = Reply
      BY <1>t, <2>2, <3>5, Streams
    <3> QED BY <3>6, ReplyIsOk
  <2> QED BY <1>3, <2>1, <2>2 DEF Pure
<1>4. CASE faults' = faults /\ Spoilt(n)
  <2>1. Budget(n)' = Budget(n)
    BY <1>4, BudgetGrows
  <2>2. CASE Len(tmp) = WindowLength
    BY <1>t, <1>w, <1>4, <2>1, <2>2 DEF Spoilt
  <2>3. CASE CaughtUp
    <3>1. Ahead(n) = 0
      BY <2>3 DEF CaughtUp, Ahead, CommandAhead
    <3> QED BY <1>t, <1>4, <2>1, <3>1 DEF Spoilt
  <2>4. faults' # faults + 1
    BY <1>4 DEF TypeOK
  <2> QED BY <1>1, <2>2, <2>3, <2>4
<1> QED BY <1>1, <1>2, <1>3, <1>4

(* The loops of gsmSendAtCommand count the ATs. *)
LEMMA TriesCounted ==
    ASSUME TypeOK, CloseWindow, ~IsOk(tmp)
    PROVE  \/ pc' = "at" /\ Tries' = Tries + 1
           \/ pc' = "idle" /\ Tries + 1 = OuterTries * InnerTries
<1>t. /\ i \in Int /\ j \in Int /\ i <= OuterTries - 1 /\ j <= InnerTries - 1
      /\ OuterTries \in Int /\ InnerTries \in Int
  BY DEF TypeOK
<1>1. CASE j + 1 < InnerTries
  BY <1>1, <1>t DEF CloseWindow, Tries
<1>2. CASE ~(j + 1 < InnerTries) /\ i + 1 < OuterTries
  <2>1. pc' = "at" /\ i' = i + 1 /\ j' = 0 /\ j + 1 = InnerTries
    BY <1>2, <1>t DEF CloseWindow
  <2>2. (i + 1) * InnerTries + 0 = i * InnerTries + j + 1
    BY <1>t, <2>1
  <2> QED BY <2>1, <2>2 DEF Tries
<1>3. CASE ~(j + 1 < InnerTries) /\ ~(i + 1 < OuterTries)
  <2>1. pc' = "idle" /\ i + 1 = OuterTries /\ j + 1 = InnerTries
    BY <1>3, <1>t DEF CloseWindow, GiveUp
  <2>2. (i + 1) * InnerTries = i * InnerTries + j + 1
    BY <1>t, <2>1
  <2> QED BY <2>1, <2>2 DEF Tries
<1> QED BY <1>1, <1>2, <1>3

(* A step in a window that is no fault and does not end it. *)
LEMMA WindowStep ==
    ASSUME NEW n \in Nat, n >= 3, MadeUpBy(n), IInv, Sent(n), Sent(n)', [Next]_vars,
           pc = "window", (Pure /\ 7 * Tries <= Budget(n)) \/ Spoilt(n),
           ReadWindow \/ Answer \/ Arrive
    PROVE  ((Pure /\ 7 * Tries <= Budget(n)) \/ Spoilt(n))'
<1>t. /\ TypeOK /\ TypeOK'
      /\ tmp \in Text /\ Stream \in Text /\ rx \in Text /\ air \in Text
      /\ Len(tmp) \in Nat /\ Len(rx) \in Nat /\ Len(air) \in Nat
      /\ Tries \in Nat /\ Budget(n) \in Nat /\ Ahead(n) \in Nat /\ Ahead(n)' \in Nat
  <2>1. TypeOK /\ TypeOK'
    BY NextType DEF IInv
  <2> QED BY <2>1, Sizes, SizesNext
<1>c. Tries' = Tries /\ Budget(n)' = Budget(n) /\ UNCHANGED <<echo, numeric>>
  BY DEF ReadWindow, Answer, Arrive, Tries, Budget, loops, modem
<1>r. Reply' = Reply
  BY <1>c DEF Reply, Echo, Code
<1>f. 7 * Tries' <= Budget(n)'
  BY <1>t, <1>c DEF Spoilt
<1>s. Spoilt(n) /\ Len(tmp') + Len(rx') + Ahead(n)' <= Len(tmp) + Len(rx) + Ahead(n)
          /\ Len(tmp') \in Nat /\ Len(rx') \in Nat => Spoilt(n)'
  BY SMTT(30), <1>t, <1>c DEF Spoilt
<1>1. CASE ReadWindow
  <2>1. /\ rx # <<>> /\ rx' = Tail(rx) /\ tmp' = Append(tmp, Head(rx)) /\ UNCHANGED <<inbox, air>>
    BY <1>1 DEF ReadWindow
  <2>2. CASE Spoilt(n)
    <3>1. Len(rx') = Len(rx) - 1 /\ Len(tmp') = Len(tmp) + 1 /\ Len(rx') \in Nat
      BY <1>t, <2>1, Texts DEF Text
    <3>2. Ahead(n)' = Ahead(n)
      BY <2>1, NextAhead
    <3> QED BY <1>t, <1>s, <2>2, <3>1, <3>2
  <2>3. CASE Pure
    <3>1. Head(rx) = Head(Stream) /\ Tail(rx) \o air = Tail(Stream) /\ Stream # <<>>
      BY SMTT(30), <1>t, <2>1, Streams DEF Stream
    <3>2. Stream' = Tail(Stream)
      BY <2>1, <3>1 DEF Stream
    <3>3. tmp' \o Stream' = tmp \o Stream
      <4>1. Append(tmp, Head(Stream)) \o Tail(Stream) = tmp \o Stream
        <5>1. tmp \in Text /\ Stream \in Text /\ Stream # <<>>
          BY <1>t, <3>1
        <5> QED BY <5>1, Streams, ZenonT(30)
      <4> QED BY <2>1, <3>1, <3>2, <4>1, Zenon
    <3>4. inbox = <<>> /\ tmp \o Stream = Reply
      BY <2>3, <3>1, Zenon DEF Pure
    <3>5. Pure'
      BY <1>r, <2>1, <3>3, <3>4, Zenon DEF Pure
    <3> QED BY <1>f, <3>5
  <2> QED BY <2>2, <2>3
<1>2. CASE Arrive
  <2>1. /\ air # <<>> /\ air' = Tail(air) /\ rx' = Append(rx, Head(air)) /\ UNCHANGED <<inbox, tmp>>
    BY <1>2 DEF Arrive, loops
  <2>2. CASE Spoilt(n)
    <3>1. Len(rx') = Len(rx) + 1 /\ Len(rx') \in Nat
      BY <1>t, <2>1, Texts
    <3>2. Ahead(n)' = Ahead(n) - 1
      BY <1>2, NextAhead
    <3> QED BY <1>t, <1>s, <2>1, <2>2, <3>1, <3>2
  <2>3. CASE Pure
    <3>1. Append(rx, Head(air)) \o Tail(air) = rx \o air
      BY SMTT(30), <1>t, <2>1, Streams
    <3>2. Stream' = Stream
      BY <2>1, <3>1 DEF Stream
    <3>3. Pure'
      BY <1>r, <2>1, <2>3, <3>2, Zenon DEF Pure
    <3> QED BY <1>f, <3>3
  <2> QED BY <2>2, <2>3
<1>3. CASE Answer
  <2>1. PICK v \in (IF Head(inbox).call = 0 THEN {"ok"} ELSE {"ok", "error"}) :
            air' = air \o Echo(Head(inbox).text) \o Code(v)
    BY <1>3 DEF Answer
  <2>2. inbox # <<>> /\ inbox' = Tail(inbox) /\ UNCHANGED <<tmp, rx>>
    BY <1>3 DEF Answer, loops
  <2>3. CASE Spoilt(n)
    <3>1. Ahead(n)' <= Ahead(n)
      BY <1>3, NextAhead
    <3> QED BY <1>t, <1>s, <2>2, <2>3, <3>1
  <2>4. CASE Pure
    <3>1. inbox = <<AtQuestion>> /\ tmp = <<>> /\ rx = <<>> /\ air = <<>>
      BY <1>t, <2>2, <2>4, Streams DEF Pure, Stream
    <3>2. inbox' = <<>> /\ Head(inbox) = AtQuestion
      BY <2>2, <3>1
    <3>3. v = "ok" /\ Head(inbox).text = AtEcho
      BY <2>1, <3>2 DEF AtQuestion
    <3>4. <<>> \o Echo(AtEcho) = Echo(AtEcho)
      BY Parts, EchoType, Streams
    <3>5. air' = Reply
      BY <2>1, <3>1, <3>3, <3>4 DEF Reply
    <3>6. <<>> \o Reply = Reply
      BY ReplyIsOk, Streams
    <3>7. tmp' \o Stream' = Reply
      BY <2>2, <3>1, <3>5, <3>6 DEF Stream
    <3>8. Pure'
      BY <1>r, <3>2, <3>7, Zenon DEF Pure
    <3> QED BY <1>f, <3>8
  <2> QED BY <2>3, <2>4
<1> QED BY <1>1, <1>2, <1>3

LEMMA NextPatience ==
    ASSUME NEW n \in Nat, n >= 3, MadeUpBy(n), IInv, Patience(n), [Next]_vars
    PROVE  Patience(n)'
<1>s. Sent(n) /\ Sent(n)' /\ text' \in Commands \cup {<<>>}
  BY NextSent DEF Patience
<1>t. /\ TypeOK /\ TypeOK'
      /\ Tries \in Nat /\ Budget(n) \in Nat /\ Ahead(n) \in Nat /\ Ahead(n)' \in Nat
      /\ Budget(n)' \in Nat /\ Budget(n) >= 7 * n
  <2>1. TypeOK /\ TypeOK'
    BY NextType DEF IInv
  <2> QED BY <2>1, Sizes, SizesNext
<1>m. UNCHANGED <<echo, numeric>>
  BY DEF Next, Program, Environment, Call, SendAt, ReadWindow, CloseWindow, SendCommand, Hear,
         NoAnswer, Answer, Ignore, Interrupt, Arrive, vars, modem
<1>b. faults' \in {faults, faults + 1} /\ Budget(n)' >= Budget(n)
  <2>1. faults' \in {faults, faults + 1}
    BY DEF Next, Program, Environment, Call, SendAt, ReadWindow, CloseWindow, SendCommand, Hear,
           NoAnswer, Answer, Ignore, Interrupt, Arrive, vars, TimeIsUp, Fails
  <2> QED BY <1>t, <2>1, BudgetGrows
<1> SUFFICES ASSUME numeric \/ echo
             PROVE  /\ pc' = "at" => 7 * Tries' + Ahead(n)' <= Budget(n)'
                    /\ pc' \in {"idle", "wait"} => Ahead(n)' <= Budget(n)'
                    /\ pc' = "window" => ((Pure /\ 7 * Tries <= Budget(n)) \/ Spoilt(n))'
  BY <1>s, <1>m DEF Patience
<1>h. /\ pc = "at" => 7 * Tries + Ahead(n) <= Budget(n)
      /\ pc \in {"idle", "wait"} => Ahead(n) <= Budget(n)
      /\ pc = "window" => (Pure /\ 7 * Tries <= Budget(n)) \/ Spoilt(n)
  BY DEF Patience
<1>1. CASE Call
  <2>1. pc = "idle" /\ pc' = "at" /\ i' = 0 /\ j' = 0 /\ UNCHANGED <<inbox, air>>
    BY <1>1 DEF Call, wire
  <2>2. Tries' = 0
    BY <2>1 DEF Tries
  <2>3. Ahead(n)' = Ahead(n)
    BY <2>1, <1>s, NextAhead
  <2> QED BY <1>b, <1>h, <1>t, <2>1, <2>2, <2>3
<1>2. CASE SendAt
  <2>1. /\ pc = "at" /\ pc' = "window" /\ tmp' = <<>> /\ rx' = <<>> /\ air' = air
        /\ inbox' = Append(inbox, AtQuestion) /\ UNCHANGED <<i, j, faults>>
    BY <1>2 DEF SendAt, AtQuestion
  <2>2. Tries' = Tries /\ Budget(n)' = Budget(n) /\ Ahead(n)' = Ahead(n) + 9
    BY <1>2, <2>1, <1>s, NextAhead DEF Tries, Budget
  <2>3. CASE Ahead(n) = 0
    <3>1. Len(air) \in Nat /\ Len(inbox) \in Nat /\ air \in Text /\ inbox \in Seq(Question)
      BY <1>t, Sizes, Asked
    <3>2. Len(air) = 0 /\ Len(inbox) = 0
      <4>1. Len(air) + 9 * Len(inbox) <= Ahead(n)
        BY <3>1 DEF Ahead
      <4> QED BY <2>3, <3>1, <4>1
    <3>3. air = <<>> /\ inbox = <<>>
      BY <3>1, <3>2 DEF Text
    <3>4. inbox' = <<AtQuestion>> /\ Stream' = <<>>
      BY <2>1, <3>3 DEF Stream
    <3> QED BY <1>h, <1>t, <2>1, <2>2, <2>3, <3>4 DEF Pure
  <2>4. CASE Ahead(n) # 0
    <3>1. n * (faults + 1) \in Nat /\ 7 * Tries < 7 * (n * (faults + 1))
      <4>1. n * (faults + 1) \in Nat
        BY <1>t, Sizes
      <4>2. 7 * Tries < Budget(n)
        BY <1>h, <1>t, <2>1, <2>4
      <4> QED BY <4>1, <4>2 DEF Budget
    <3> DEFINE b == n * (faults + 1)
    <3>2. b \in Nat /\ 7 * Tries < 7 * b /\ Budget(n) = 7 * b
      BY <3>1 DEF Budget
    <3> HIDE DEF b
    <3>3. 7 * (Tries + 1) <= Budget(n)
      BY <1>t, <3>2
    <3>4. Len(tmp') = 0 /\ Len(rx') = 0
      BY <2>1
    <3>5. 7 * Tries' + Len(tmp') + Len(rx') + Ahead(n)' <= Budget(n)' + 9
      BY <1>h, <1>t, <2>1, <2>2, <3>4
    <3> QED BY <2>1, <2>2, <3>3, <3>5 DEF Spoilt
  <2> QED BY <2>3, <2>4
<1>3. CASE CloseWindow
  <2>1. pc = "window" /\ pc' \in {"settle", "at", "idle"} /\ UNCHANGED <<inbox, air>>
    BY <1>3 DEF CloseWindow, GiveUp, wire
  <2>2. Ahead(n)' = Ahead(n)
    BY <2>1, <1>s, NextAhead
  <2>3. CASE IsOk(tmp)
    BY <1>3, <2>3 DEF CloseWindow
  <2>4. CASE ~IsOk(tmp)
    <3>1. 7 * (Tries + 1) + Ahead(n) <= Budget(n)'
      BY <1>3, <1>h, <1>t, <2>1, <2>4, FailurePaid
    <3>2. pc' = "at" => Tries' = Tries + 1
      BY <1>3, <1>t, <2>4, TriesCounted
    <3> QED BY <1>t, <2>1, <2>2, <3>1, <3>2
  <2> QED BY <2>3, <2>4
<1>4. CASE SendCommand
  <2>1. pc' = "wait" /\ Ahead(n)' <= 7 * n
    BY <1>4, <1>s, NextAhead DEF SendCommand
  <2> QED BY <1>b, <1>t, <2>1
<1>5. CASE Hear \/ NoAnswer
  <2>1. pc = "wait" /\ pc' \in {"wait", "idle"} /\ UNCHANGED <<inbox, air>>
    BY <1>5 DEF Hear, NoAnswer, GiveUp, wire
  <2>2. Ahead(n)' = Ahead(n)
    BY <2>1, <1>s, NextAhead
  <2> QED BY <1>b, <1>h, <1>t, <2>1, <2>2
<1>6. CASE Answer \/ Arrive
  <2>1. pc' = pc /\ Tries' = Tries
    BY <1>6 DEF Answer, Arrive, loops, Tries
  <2>2. Ahead(n)' <= Ahead(n)
    BY <1>6, <1>s, <1>t, NextAhead
  <2>3. pc = "window" => ((Pure /\ 7 * Tries <= Budget(n)) \/ Spoilt(n))'
    BY <1>6, <1>h, <1>s, WindowStep
  <2> QED BY <1>b, <1>h, <1>t, <2>1, <2>2, <2>3
<1>7. CASE Ignore \/ Interrupt
  <2>1. pc' = pc /\ UNCHANGED <<i, j, tmp, rx>> /\ faults' = faults + 1
    BY <1>7 DEF Ignore, Interrupt, loops, Fails
  <2>2. Ahead(n)' <= Ahead(n) + 7 * n /\ Budget(n)' = Budget(n) + 7 * n /\ Tries' = Tries
    BY SMTT(30), <1>7, <1>s, <1>t, <2>1, NextAhead, BudgetGrows DEF Tries
  <2>3. pc = "window" => Spoilt(n)'
    BY <1>h, <1>t, <2>1, <2>2, FaultSpoils
  <2> QED BY <1>h, <1>t, <2>1, <2>2, <2>3
<1>8. CASE ReadWindow
  <2>1. pc = "window" /\ pc' = "window"
    BY <1>8 DEF ReadWindow
  <2> QED BY <1>8, <1>h, <1>s, <2>1, WindowStep
<1>9. CASE UNCHANGED vars
  <2>1. UNCHANGED <<pc, i, j, tmp, inbox, air, rx, faults, echo, numeric>>
    BY <1>9 DEF vars, loops, wire, modem
  <2>2. Tries' = Tries /\ Budget(n)' = Budget(n) /\ Ahead(n)' = Ahead(n)
    BY <2>1, <1>s, NextAhead DEF Tries, Budget
  <2>3. (Pure' <=> Pure) /\ (Spoilt(n)' <=> Spoilt(n))
    BY <2>1, <2>2 DEF Pure, Spoilt, Stream, Reply, Echo, Code
  <2> QED BY <1>h, <2>1, <2>2, <2>3
<1> QED
  BY <1>1, <1>2, <1>3, <1>4, <1>5, <1>6, <1>7, <1>8, <1>9 DEF Next, Program, Environment

LEMMA InitPatience ==
    ASSUME NEW n \in Nat, n >= 3, Init
    PROVE  Patience(n)
<1>1. Ahead(n) = 0
  BY DEF Init, Ahead, CommandAhead
<1>2. Budget(n) \in Nat
  BY InitType, Sizes
<1> QED BY <1>1, <1>2 DEF Patience, Init, Sent

LEMMA GivesUpStep ==
    ASSUME NEW n \in Nat, n >= 3, MadeUpBy(n), IInv, Patience(n), [Next]_vars
    PROVE  [GivesUpAfter(n)]_vars
<1> SUFFICES ASSUME [Next]_vars, pc = "window", pc' = "idle", numeric \/ echo
             PROVE  n * (faults' + 1) >= OuterTries * InnerTries
  BY DEF GivesUpAfter
<1>1. CloseWindow
  BY DEF Next, Program, Environment, Call, SendAt, ReadWindow, SendCommand, Hear,
         NoAnswer, Answer, Ignore, Interrupt, Arrive, vars
<1>2. ~IsOk(tmp)
  BY <1>1 DEF CloseWindow
<1>3. TypeOK /\ TypeOK'
  BY NextType DEF IInv
<1>4. 7 * (Tries + 1) + Ahead(n) <= Budget(n)'
  BY <1>1, <1>2, <1>3, FailurePaid DEF Patience
<1>5. Tries + 1 = OuterTries * InnerTries
  BY <1>1, <1>2, <1>3, TriesCounted
<1>6. Tries \in Nat /\ Ahead(n) \in Nat
  BY <1>3, Sizes
<1> DEFINE b == n * (faults' + 1)
<1>7. Budget(n)' = 7 * b /\ b \in Nat
  <2>1. faults' \in Nat
    BY <1>3 DEF TypeOK
  <2>2. b \in Nat
    BY <2>1, Product
  <2> QED BY <2>2 DEF Budget
<1> HIDE DEF b
<1>8. b >= Tries + 1
  BY <1>4, <1>6, <1>7
<1> QED BY <1>5, <1>8 DEF b

(* gsmSendAtCommand gives up late, however many tries it has, and whatever *)
(* comes when: if n windows make up for any line and any command, and n is *)
(* at least 3, a call that gave up had a fault for every n-th of its ATs,  *)
(* but for those that an earlier command had spoilt.                       *)
THEOREM Patient ==
    ASSUME NEW n \in Nat, n >= 3, MadeUpBy(n)
    PROVE  Spec => [][GivesUpAfter(n)]_vars
<1>1. Init => Patience(n)
  BY InitPatience
<1>2. IInv /\ Patience(n) /\ [Next]_vars => Patience(n)' /\ [GivesUpAfter(n)]_vars
  BY NextPatience, GivesUpStep
<1> QED BY <1>1, <1>2, Invariant, PTL DEF Spec

(* With lines of 21 characters and commands of 13 at most: every third AT. *)
THEOREM GivesUp ==
    ASSUME MadeUpBy(3)
    PROVE  Spec => GivesUpLate
<1> 3 \in Nat /\ 3 >= 3
  OBVIOUS
<1>1. Init => Patience(3)
  BY InitPatience
<1>2. IInv /\ Patience(3) /\ [Next]_vars => Patience(3)' /\ [GivesUpAfter(3)]_vars
  BY NextPatience, GivesUpStep
<1> QED BY <1>1, <1>2, Invariant, PTL DEF Spec, GivesUpLate
===============================================================================
