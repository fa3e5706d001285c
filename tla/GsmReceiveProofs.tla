--------------------------- MODULE GsmReceiveProofs ---------------------------
(***************************************************************************)
(* Proofs about GsmReceive: in every interleaving of the handler with the  *)
(* program text goes out only into a prompt, and the indices stay inside   *)
(* their buffers, that of _scGsmBuffer as long as the peer sends no '#';   *)
(* and as long as peer and program take turns, what the program is given   *)
(* is what the peer sent.                                                  *)
(***************************************************************************)
EXTENDS GsmReceive, SequenceTheorems, WellFoundedInduction, TLAPS

Resets == {"clear", "zeroReceived", "zeroPush", "zeroCommandPush"}
Reading == {"wait", "copy", "settle"}
Ats == {"command", "receive", "send", "prompting", "text"}

(* What is on the line, and where it comes from. *)
Typed ==
    /\ line \in Seq(Characters)
    /\ inputBuffer \in [0 .. MaxLength -> Characters]
    /\ room \in 0 .. MaxLength /\ push \in 0 .. MaxLength
    /\ commandPush \in Nat /\ semGsmCommand \in BOOLEAN /\ commandReceived \in Nat
    /\ pc \in Resets \cup Reading
        \cup {"idle", "parse", "ask", "return", "askPrompt", "prompt", "sendWait"}
    /\ then \in {"idle", "ask", "return", "askPrompt"}
    /\ count \in 0 .. 9
    /\ receivedData \in Seq(Characters) /\ Len(receivedData) <= 9
    /\ messages \in 0 .. MaxMessages /\ sends \in 0 .. MaxSends
    /\ sent \in Seq(Characters) /\ extracted \in Seq(Characters)
    /\ turns \in BOOLEAN

None(l, c) == \A i \in 1 .. Len(l) : l[i] # c

ModemTyped ==
    /\ modem \in [pending : Seq(Characters), at : Ats, count : 0 .. 9, peer : BOOLEAN]
    /\ Len(modem.pending) <= MaxWaiting
    /\ None(modem.pending, Nul)

(* The text of an answer, "#SRECV" and its count, goes to _scGsmBuffer: it *)
(* is still to come, or some of its five characters are there, or it is    *)
(* over.                                                                   *)
TextAhead ==
    /\ ~semGsmCommand /\ commandPush = 0
    /\ \E h \in 1 .. Len(line) :
        /\ h + 4 <= Len(line) /\ line[h + 4] = EOL_GSM
        /\ \A i \in 1 .. Len(line) : line[i] = Hash <=> i = h

TextInside ==
    /\ semGsmCommand /\ commandPush \in 1 .. 4
    /\ 5 - commandPush <= Len(line) /\ line[5 - commandPush] = EOL_GSM
    /\ None(line, Hash)

TextOver == ~semGsmCommand /\ commandPush \in 0 .. 5 /\ None(line, Hash)

(* Where the peer sends no '#', such a text comes only between AT#SRECV    *)
(* and the delay in front of the reset, and each starts at the beginning   *)
(* of the buffer.                                                          *)
Texts ==
    /\ None(modem.pending, Hash)
    /\ modem.at = "receive" => commandPush = 0 /\ TextOver
    /\ pc \in Reading => TextAhead \/ TextInside \/ TextOver
    /\ pc \notin Reading => TextOver
    /\ pc \notin Reading \cup Resets => commandPush = 0

(* What looks like a prompt comes from the modem that gives one, or is     *)
(* data; either way it is gone before the next call looks for one.         *)
NoPromptIn == \A i \in 0 .. MaxLength : inputBuffer[i] # Char(">")

Prompts ==
    /\ pc \notin Reading \cup {"prompt"} => None(line, Char(">"))
    /\ pc \in {"zeroReceived", "zeroPush", "zeroCommandPush", "askPrompt"} => NoPromptIn
    /\ pc = "prompt" /\ modem.at # "prompting" => None(line, Char(">")) /\ NoPromptIn
    /\ modem.at = "send" => pc = "prompt"
    /\ modem.at = "receive" => pc \in {"wait", "copy"}

(* What holds whatever the peer sends, and what holds without a '#'.       *)
Safe == Typed /\ ModemTyped /\ Prompts
IInv == Safe /\ Texts
-------------------------------------------------------------------------------
(* Characters and texts.                                                   *)

LEMMA Kinds ==
    /\ {Nul, Hash, CR, EOL_GSM, Char(">"), Char("SRING: 1,"), Char("SRECV: 1,")}
        \subseteq Characters
    /\ Hash # Nul /\ Hash # CR /\ Hash # EOL_GSM /\ Hash # Char(">")
    /\ Hash # Char("SRING: 1,") /\ Hash # Char("SRECV: 1,")
    /\ Nul # CR /\ Nul # EOL_GSM /\ Nul # Char(">")
    /\ Char(">") # CR /\ Char(">") # EOL_GSM
    /\ Char(">") # Char("SRING: 1,") /\ Char(">") # Char("SRECV: 1,")
    /\ CR # EOL_GSM /\ EOL_GSM # Char("SRECV: 1,")
    /\ CR.kind # "digit" /\ EOL_GSM.kind # "digit" /\ CR.n = 0
<1>1. {Nul, Hash, CR, EOL_GSM, Char(">"), Char("SRING: 1,"), Char("SRECV: 1,")}
        \subseteq Characters
    <2> DEFINE A == UNION {ToSet(m) : m \in Messages}
               B == {Digit(n) : n \in 0 .. 9}
               C == {Nul, Hash, CR, EOL_GSM, Char(">"), Char("SRING: 1,"), Char("SRECV: 1,")}
    <2>1. Characters = A \cup B \cup C
        BY DEF Characters
    <2> HIDE DEF A, B, C
    <2>2. C \subseteq Characters
        BY <2>1
    <2> QED BY <2>2 DEF C
<1>2. \A k : Char(k).kind = k
    BY DEF Char
<1> QED BY <1>1, <1>2 DEF Hash, Nul, CR, EOL_GSM, Char

LEMMA DigitIs ==
    ASSUME NEW n \in 0 .. 9
    PROVE  /\ Digit(n) \in Characters /\ Digit(n).kind = "digit" /\ Digit(n).n = n
           /\ Digit(n) # Hash /\ Digit(n) # EOL_GSM /\ Digit(n) # Char(">") /\ Digit(n) # Nul
<1>1. Digit(n) \in Characters
    <2> DEFINE A == UNION {ToSet(m) : m \in Messages}
               B == {Digit(d) : d \in 0 .. 9}
               C == {Nul, Hash, CR, EOL_GSM, Char(">"), Char("SRING: 1,"), Char("SRECV: 1,")}
    <2>1. Characters = A \cup B \cup C
        BY DEF Characters
    <2> HIDE DEF A, C
    <2>2. Digit(n) \in B
        BY DEF B
    <2> HIDE DEF B
    <2> QED BY <2>1, <2>2
<1>2. Digit(n).kind = "digit" /\ Digit(n).n = n
    BY DEF Digit
<1>3. Hash.kind # "digit" /\ EOL_GSM.kind # "digit" /\ Char(">").kind # "digit"
      /\ Nul.kind # "digit"
    BY DEF Hash, EOL_GSM, Nul, Char
<1> QED BY <1>1, <1>2, <1>3

(* The handler takes the first character. *)
LEMMA TailIs ==
    ASSUME NEW l \in Seq(Characters), l # <<>>
    PROVE  /\ Tail(l) \in Seq(Characters) /\ Len(Tail(l)) = Len(l) - 1
           /\ \A i \in 1 .. Len(Tail(l)) : Tail(l)[i] = l[i + 1]
           /\ Head(l) = l[1] /\ Head(l) \in Characters /\ Len(l) \in Nat /\ Len(l) >= 1
           /\ \A c : None(l, c) => None(Tail(l), c) /\ Head(l) # c
<1>1. /\ Tail(l) \in Seq(Characters) /\ Len(Tail(l)) = Len(l) - 1
      /\ \A i \in 1 .. Len(Tail(l)) : Tail(l)[i] = l[i + 1]
      /\ Head(l) = l[1] /\ Head(l) \in Characters /\ Len(l) \in Nat /\ Len(l) >= 1
    BY HeadTailProperties
<1>2. ASSUME NEW c, None(l, c) PROVE None(Tail(l), c) /\ Head(l) # c
    <2>1. \A i \in 1 .. Len(Tail(l)) : i + 1 \in 1 .. Len(l)
        BY <1>1
    <2>2. 1 \in 1 .. Len(l)
        BY <1>1
    <2> QED BY <1>1, <1>2, <2>1, <2>2 DEF None
<1> QED BY <1>1, <1>2

(* The modem says something behind what it has said. *)
LEMMA SaidIs ==
    ASSUME NEW l \in Seq(Characters), NEW s \in Seq(Characters)
    PROVE  /\ l \o s \in Seq(Characters) /\ Len(l \o s) = Len(l) + Len(s)
           /\ \A i \in 1 .. Len(l) : (l \o s)[i] = l[i]
           /\ \A i \in 1 .. Len(s) : (l \o s)[Len(l) + i] = s[i]
           /\ l = <<>> => l \o s = s
           /\ Len(l) \in Nat /\ Len(s) \in Nat
           /\ \A c : None(l, c) /\ None(s, c) => None(l \o s, c)
<1> DEFINE t == l \o s
<1>1. /\ t \in Seq(Characters) /\ Len(t) = Len(l) + Len(s)
      /\ Len(l) \in Nat /\ Len(s) \in Nat
      /\ \A i \in 1 .. Len(t) : t[i] = IF i <= Len(l) THEN l[i] ELSE s[i - Len(l)]
    BY ConcatProperties
<1>2. l = <<>> => t = s
    OBVIOUS
<1> HIDE DEF t
<1>3. \A i \in 1 .. Len(l) : t[i] = l[i]
    BY <1>1
<1>4. ASSUME NEW i \in 1 .. Len(s) PROVE t[Len(l) + i] = s[i]
    <2>1. Len(l) + i \in 1 .. Len(t) /\ ~(Len(l) + i <= Len(l)) /\ Len(l) + i - Len(l) = i
        BY <1>1
    <2> QED BY <1>1, <2>1
<1>5. ASSUME NEW c, None(l, c), None(s, c) PROVE None(t, c)
    <2> SUFFICES ASSUME NEW i \in 1 .. Len(t) PROVE t[i] # c
        BY DEF None
    <2>1. CASE i <= Len(l)
        <3>1. i \in 1 .. Len(l)
            BY <1>1, <2>1
        <3> QED BY <1>1, <1>5, <2>1, <3>1 DEF None
    <2>2. CASE ~(i <= Len(l))
        <3>1. i - Len(l) \in 1 .. Len(s)
            BY <1>1, <2>2
        <3> QED BY <1>1, <1>5, <2>2, <3>1 DEF None
    <2> QED BY <2>1, <2>2
<1> QED BY <1>1, <1>2, <1>3, <1>4, <1>5 DEF t

(* What the modem says by itself. *)
LEMMA IndicationIs ==
    ASSUME NEW n \in 0 .. 9
    PROVE  /\ Indication(n) \in Seq(Characters) /\ Len(Indication(n)) = 6
           /\ Indication(n)[4] = Digit(n)
           /\ None(Indication(n), Hash) /\ None(Indication(n), Char(">"))
<1> DEFINE d == Digit(n)
           w == Char("SRING: 1,")
<1>1. /\ d \in Characters /\ d # Hash /\ d # Char(">")
      /\ w \in Characters /\ w # Hash /\ w # Char(">")
      /\ CR \in Characters /\ EOL_GSM \in Characters
      /\ CR # Hash /\ EOL_GSM # Hash /\ CR # Char(">") /\ EOL_GSM # Char(">")
    BY DigitIs, Kinds
<1>2. Indication(n) = <<CR, EOL_GSM, w, d, CR, EOL_GSM>>
    BY DEF Indication
<1> HIDE DEF d, w
<1>3. Indication(n) \in Seq(Characters) /\ Len(Indication(n)) = 6 /\ Indication(n)[4] = d
    BY <1>1, <1>2
<1> QED BY <1>1, <1>2, <1>3 DEF None, d

LEMMA ResultCodeIs ==
    ASSUME NEW n \in 0 .. 9
    PROVE  /\ ResultCode(n) \in Seq(Characters) /\ Len(ResultCode(n)) = 4
           /\ ResultCode(n) = <<CR, EOL_GSM, Digit(n), CR>>
           /\ None(ResultCode(n), Hash) /\ None(ResultCode(n), Char(">"))
           /\ <<Digit(n), CR>> \in Seq(Characters) /\ Len(<<Digit(n), CR>>) = 2
           /\ None(<<Digit(n), CR>>, Hash) /\ None(<<Digit(n), CR>>, Char(">"))
<1> DEFINE d == Digit(n)
<1>1. /\ d \in Characters /\ d # Hash /\ d # Char(">")
      /\ CR \in Characters /\ EOL_GSM \in Characters
      /\ CR # Hash /\ EOL_GSM # Hash /\ CR # Char(">") /\ EOL_GSM # Char(">")
    BY DigitIs, Kinds
<1>2. ResultCode(n) = <<CR, EOL_GSM, d, CR>>
    BY DEF ResultCode
<1> HIDE DEF d
<1>3. ResultCode(n) \in Seq(Characters) /\ Len(ResultCode(n)) = 4
      /\ <<d, CR>> \in Seq(Characters) /\ Len(<<d, CR>>) = 2
    BY <1>1, <1>2
<1>4. None(ResultCode(n), Hash) /\ None(ResultCode(n), Char(">"))
    BY <1>1, <1>2 DEF None
<1>5. None(<<d, CR>>, Hash) /\ None(<<d, CR>>, Char(">"))
    BY <1>1 DEF None
<1> QED BY <1>2, <1>3, <1>4, <1>5 DEF d
-------------------------------------------------------------------------------
(* Each step keeps the invariant.                                          *)

LEMMA InitIInv == Init => IInv
<1> SUFFICES ASSUME Init PROVE IInv
    OBVIOUS
<1> USE DEF Init
<1>1. Typed
    <2>1. inputBuffer \in [0 .. MaxLength -> Characters]
        BY Kinds DEF Cleared
    <2>2. <<>> \in Seq(Characters) /\ Len(<<>>) <= 9
        OBVIOUS
    <2>3. line \in Seq(Characters) /\ receivedData \in Seq(Characters) /\ Len(receivedData) <= 9
          /\ sent \in Seq(Characters) /\ extracted \in Seq(Characters)
        BY <2>2
    <2>4. room \in 0 .. MaxLength /\ push \in 0 .. MaxLength
          /\ messages \in 0 .. MaxMessages /\ sends \in 0 .. MaxSends
        BY LengthsAssumption
    <2> QED BY <2>1, <2>3, <2>4 DEF Typed
<1>2. ModemTyped
    BY DEF ModemTyped, Ats, None, MaxWaiting
<1>3. Texts
    BY DEF Texts, TextOver, Reading, Resets, None
<1>4. Prompts
    BY DEF Prompts, Reading, None
<1> QED BY <1>1, <1>2, <1>3, <1>4 DEF IInv, Safe

LEMMA HandlerKeepsTexts ==
    ASSUME Typed, Texts, GsmInputHandler
    PROVE  Texts'
<1> DEFINE T == Tail(line)
           c == Head(line)
<1>1. /\ T \in Seq(Characters) /\ Len(T) = Len(line) - 1
      /\ \A i \in 1 .. Len(T) : T[i] = line[i + 1]
      /\ c = line[1] /\ Len(line) \in Nat /\ Len(line) >= 1
      /\ None(line, Hash) => None(T, Hash) /\ c # Hash
    BY TailIs DEF Typed, GsmInputHandler
<1>2. line' = T /\ pc' = pc /\ modem' = modem
      /\ IF InCommand(c) THEN TakeCommand(c)
         ELSE IF room > 0 THEN TakeInput(c) ELSE UNCHANGED received
    BY DEF GsmInputHandler
<1> HIDE DEF T, c
<1>3. /\ semGsmCommand \/ c = Hash =>
            /\ commandPush' = commandPush + 1
            /\ c = EOL_GSM => semGsmCommand' = FALSE
            /\ c # EOL_GSM => semGsmCommand' = TRUE
      /\ ~semGsmCommand /\ c # Hash =>
            semGsmCommand' = semGsmCommand /\ commandPush' = commandPush
    <2>1. CASE InCommand(c)
        BY <1>2, <2>1 DEF InCommand, TakeCommand
    <2>2. CASE ~InCommand(c)
        BY <1>2, <2>2 DEF InCommand, TakeInput, received
    <2> QED BY <2>1, <2>2
<1>4. TextOver => TextOver' /\ commandPush' = commandPush
    BY <1>1, <1>2, <1>3 DEF TextOver
<1>5. ASSUME TextInside PROVE TextInside' \/ TextOver'
    <2>1. /\ semGsmCommand /\ commandPush \in 1 .. 4 /\ None(line, Hash)
          /\ 5 - commandPush <= Len(line) /\ line[5 - commandPush] = EOL_GSM
        BY <1>5 DEF TextInside
    <2>2. /\ None(line', Hash) /\ commandPush' = commandPush + 1
          /\ c = EOL_GSM => semGsmCommand' = FALSE
          /\ c # EOL_GSM => semGsmCommand' = TRUE
        BY <1>1, <1>2, <1>3, <2>1
    <2>3. CASE c = EOL_GSM
        BY <2>1, <2>2, <2>3 DEF TextOver
    <2>4. CASE c # EOL_GSM
        <3>1. commandPush # 4
            BY <1>1, <2>1, <2>4
        <3>2. 5 - commandPush' \in 1 .. Len(T) /\ (5 - commandPush') + 1 = 5 - commandPush
            BY <1>1, <2>1, <2>2, <3>1
        <3>3. T[5 - commandPush'] = EOL_GSM
            BY <1>1, <2>1, <3>2
        <3> QED BY <1>2, <2>1, <2>2, <2>4, <3>1, <3>2, <3>3 DEF TextInside
    <2> QED BY <2>3, <2>4
<1>6. ASSUME TextAhead PROVE TextAhead' \/ TextInside'
    <2>1. PICK h \in 1 .. Len(line) :
            /\ h + 4 <= Len(line) /\ line[h + 4] = EOL_GSM
            /\ \A i \in 1 .. Len(line) : line[i] = Hash <=> i = h
        BY <1>6 DEF TextAhead
    <2>2. ~semGsmCommand /\ commandPush = 0
        BY <1>6 DEF TextAhead
    <2>3. \A i \in 1 .. Len(T) : i + 1 \in 1 .. Len(line) /\ T[i] = line[i + 1]
        BY <1>1
    <2>4. CASE h = 1
        <3>1. c = Hash
            BY <1>1, <2>1, <2>4
        <3>2. semGsmCommand' = TRUE /\ commandPush' = 1
            <4>1. c # EOL_GSM
                BY <3>1, Kinds
            <4> QED BY <1>3, <2>2, <3>1, <4>1
        <3>3. None(T, Hash)
            BY <1>1, <2>1, <2>3, <2>4 DEF None
        <3>4. 4 \in 1 .. Len(T) /\ T[4] = EOL_GSM
            BY <1>1, <2>1, <2>3, <2>4
        <3> QED BY <1>2, <3>2, <3>3, <3>4 DEF TextInside
    <2>5. CASE h # 1
        <3>1. c # Hash
            BY <1>1, <2>1, <2>5
        <3>2. ~semGsmCommand' /\ commandPush' = 0
            BY <1>3, <2>2, <3>1
        <3>3. h - 1 \in 1 .. Len(T) /\ (h - 1) + 4 \in 1 .. Len(T)
            BY <1>1, <2>1, <2>5
        <3>4. T[(h - 1) + 4] = EOL_GSM
            <4>1. ((h - 1) + 4) + 1 = h + 4
                OBVIOUS
            <4> QED BY <2>1, <2>3, <3>3, <4>1
        <3>5. ASSUME NEW i \in 1 .. Len(T) PROVE T[i] = Hash <=> i = h - 1
            <4>1. T[i] = Hash <=> i + 1 = h
                BY <2>1, <2>3
            <4> QED BY <4>1
        <3>6. (h - 1) + 4 <= Len(T)
            BY <3>3
        <3>7. \E g \in 1 .. Len(T) :
                /\ g + 4 <= Len(T) /\ T[g + 4] = EOL_GSM
                /\ \A i \in 1 .. Len(T) : T[i] = Hash <=> i = g
            BY <3>3, <3>4, <3>5, <3>6
        <3> QED BY <1>2, <3>2, <3>7 DEF TextAhead
    <2> QED BY <2>4, <2>5
<1> QED BY <1>2, <1>4, <1>5, <1>6 DEF Texts

LEMMA HandlerKeeps ==
    ASSUME Safe, GsmInputHandler
    PROVE  Safe' /\ (Texts => Texts')
<1> USE DEF Safe
<1> DEFINE T == Tail(line)
           c == Head(line)
<1>1. /\ T \in Seq(Characters) /\ c \in Characters
      /\ \A x : None(line, x) => None(T, x) /\ c # x
    BY TailIs DEF Typed, GsmInputHandler
<1>2. line' = T /\ UNCHANGED <<pc, then, calls, modem, sent, bounds>>
      /\ IF InCommand(c) THEN TakeCommand(c)
         ELSE IF room > 0 THEN TakeInput(c) ELSE UNCHANGED received
    BY DEF GsmInputHandler
<1> HIDE DEF T, c
<1>3. Texts => Texts'
    BY HandlerKeepsTexts
<1>4. /\ inputBuffer' \in [0 .. MaxLength -> Characters]
      /\ room' \in 0 .. MaxLength /\ push' \in 0 .. MaxLength /\ commandReceived' \in Nat
      /\ commandPush' \in Nat /\ semGsmCommand' \in BOOLEAN
      /\ \A i \in 0 .. MaxLength : inputBuffer'[i] = inputBuffer[i] \/ inputBuffer'[i] = c
    <2>1. CASE InCommand(c)
        BY <1>2, <2>1 DEF TakeCommand, Typed
    <2>2. CASE ~InCommand(c) /\ room > 0
        <3>1. TakeInput(c)
            BY <1>2, <2>2
        <3>2. (push + 1) % (MaxLength + 1) \in 0 .. MaxLength
            BY LengthsAssumption DEF Typed
        <3>3. room - 1 \in 0 .. MaxLength
            BY <2>2, LengthsAssumption DEF Typed
        <3>4. push' = (push + 1) % (MaxLength + 1) /\ room' = room - 1
              /\ inputBuffer' = [inputBuffer EXCEPT ![push] = c]
              /\ commandReceived' = commandReceived + (IF c = EOL_GSM THEN 1 ELSE 0)
              /\ commandPush' = commandPush /\ semGsmCommand' = semGsmCommand
            BY <3>1 DEF TakeInput
        <3>5. commandReceived' \in Nat /\ commandPush' \in Nat /\ semGsmCommand' \in BOOLEAN
            BY <3>4 DEF Typed
        <3>6. inputBuffer \in [0 .. MaxLength -> Characters] /\ push \in 0 .. MaxLength
            BY DEF Typed
        <3>7. inputBuffer' \in [0 .. MaxLength -> Characters]
              /\ \A i \in 0 .. MaxLength : inputBuffer'[i] = inputBuffer[i] \/ inputBuffer'[i] = c
            BY <1>1, <3>4, <3>6
        <3> QED BY <3>2, <3>3, <3>4, <3>5, <3>7
    <2>3. CASE ~InCommand(c) /\ ~(room > 0)
        BY <1>2, <2>3 DEF received, Typed
    <2> QED BY <2>1, <2>2, <2>3
<1>5. Typed'
    BY <1>1, <1>2, <1>4 DEF Typed, calls, bounds
<1>6. ModemTyped'
    BY <1>2 DEF ModemTyped
<1>7. Prompts'
    <2>1. None(line, Char(">")) => None(line', Char(">")) /\ c # Char(">")
        BY <1>1, <1>2
    <2>2. None(line, Char(">")) /\ NoPromptIn => NoPromptIn'
        BY <1>4, <2>1 DEF NoPromptIn
    <2>3. pc' = pc /\ modem' = modem
        BY <1>2
    <2>4. pc \in {"zeroReceived", "zeroPush", "zeroCommandPush", "askPrompt"}
            => pc \notin Reading \cup {"prompt"}
        BY DEF Reading
    <2> QED BY <2>1, <2>2, <2>3, <2>4 DEF Prompts
<1> QED BY <1>3, <1>5, <1>6, <1>7

(* A step of the program that gives the modem nothing to do, and is not the *)
(* one to look for a prompt. *)
LEMMA ResetKeeps ==
    ASSUME Safe, ClearBuffer \/ ZeroReceived \/ ZeroPush \/ ZeroCommandPush
    PROVE  Safe' /\ (Texts => Texts')
<1> USE DEF Safe
<1>1. /\ UNCHANGED <<line, modem, sent, bounds, room, semGsmCommand, calls, then>>
      /\ pc \in Resets
      /\ pc' \in {"zeroReceived", "zeroPush", "zeroCommandPush", then}
      /\ pc' = "zeroReceived" => inputBuffer' = Cleared
      /\ pc' # "zeroReceived" => inputBuffer' = inputBuffer
      /\ pc' = "zeroPush" => pc = "zeroReceived"
      /\ pc' = "zeroCommandPush" => pc = "zeroPush"
      /\ pc' \in {"zeroReceived", "zeroPush", "zeroCommandPush"} => commandPush' = commandPush
      /\ pc' = then => commandPush' = 0 /\ pc = "zeroCommandPush"
      /\ commandReceived' \in {commandReceived, 0} /\ push' \in {push, 0}
      /\ commandPush' \in {commandPush, 0}
    BY DEF ClearBuffer, ZeroReceived, ZeroPush, ZeroCommandPush, Goto, Elsewhere, calls,
           Resets, Typed
<1>2. pc' \in {"zeroReceived", "zeroPush", "zeroCommandPush"} \cup {"idle", "ask", "return", "askPrompt"}
    BY <1>1 DEF Typed
<1>3. Cleared \in [0 .. MaxLength -> Characters]
      /\ \A i \in 0 .. MaxLength : Cleared[i] # Char(">")
    BY Kinds DEF Cleared
<1>4. Typed'
    <2>1. inputBuffer' \in [0 .. MaxLength -> Characters] /\ push' \in 0 .. MaxLength
          /\ commandReceived' \in Nat /\ commandPush' \in Nat
        BY <1>1, <1>3, LengthsAssumption DEF Typed
    <2> QED BY <1>1, <1>2, <2>1 DEF Typed, calls, bounds, Resets
<1>5. ModemTyped'
    BY <1>1 DEF ModemTyped
<1>6. ASSUME Texts PROVE Texts'
    <2>1. TextOver /\ modem.at # "receive"
        BY <1>1, <1>6 DEF Texts, Prompts, Resets, Reading
    <2>2. TextOver' /\ modem'.at # "receive" /\ None(modem'.pending, Hash)
        BY <1>1, <1>2, <1>6, <2>1 DEF TextOver, Texts
    <2>3. pc' \notin Resets => commandPush' = 0
        BY <1>1, <1>2 DEF Resets
    <2> QED BY <1>2, <2>2, <2>3 DEF Texts, Reading, Resets
<1>7. Prompts'
    <2>1. None(line', Char(">"))
        BY <1>1 DEF Prompts, Resets, Reading
    <2>2. pc' \in {"zeroReceived", "zeroPush", "zeroCommandPush", "askPrompt"} => NoPromptIn'
        <3>1. CASE pc' = "zeroReceived"
            BY <1>1, <1>3, <3>1 DEF NoPromptIn
        <3>2. CASE pc' \in {"zeroPush", "zeroCommandPush", "askPrompt"}
            <4>1. pc \in {"zeroReceived", "zeroPush", "zeroCommandPush"}
                BY <1>1, <3>2
            <4> QED BY <1>1, <3>2, <4>1 DEF Prompts, NoPromptIn
        <3> QED BY <3>1, <3>2
    <2>3. modem'.at \notin {"send", "receive"}
        BY <1>1 DEF Prompts, Resets
    <2> QED BY <1>2, <2>1, <2>2, <2>3 DEF Prompts
<1> QED BY <1>4, <1>5, <1>6, <1>7

(* The count that is read is one digit. *)
LEMMA CountTyped ==
    ASSUME NEW b \in [0 .. MaxLength -> Characters]
    PROVE  CountIn(b) \in 0 .. 9
<1>1. b[3] \in Characters
    BY LengthsAssumption
<1>2. b[3].kind = "digit" => b[3].n \in 0 .. 9
    BY <1>1, LengthsAssumption
<1> QED BY <1>2 DEF CountIn

LEMMA ExtractKeeps ==
    ASSUME Safe, Extract \/ Parse \/ Answered \/ Settle
    PROVE  Safe' /\ (Texts => Texts')
<1> USE DEF Safe
<1>1. /\ UNCHANGED <<line, modem, sent, bounds, received, extracted>>
      /\ UNCHANGED <<inputBuffer, room, push, commandPush, semGsmCommand, commandReceived>>
      /\ count' \in 0 .. 9 /\ receivedData' \in {receivedData, <<>>}
      /\ then' \in {then, "ask", "return"}
    <2>1. CASE Extract
        BY <2>1 DEF Extract, Goto, Elsewhere, received, Typed
    <2>2. CASE Parse
        <3>1. count' = CountIn(inputBuffer)
            BY <2>2 DEF Parse
        <3>2. count' \in 0 .. 9
            BY <3>1, CountTyped DEF Typed
        <3> QED BY <2>2, <3>2 DEF Parse, Goto, Reset, Elsewhere, received
    <2>3. CASE Answered
        BY <2>3 DEF Answered, Goto, Elsewhere, received, calls, Typed
    <2>4. CASE Settle
        BY <2>4 DEF Settle, Reset, Elsewhere, received, calls, Typed
    <2> QED BY <2>1, <2>2, <2>3, <2>4
<1>2. \/ pc = "idle" /\ pc' = "parse"
      \/ pc = "parse" /\ pc' \in {"idle", "clear"} /\ Delayed
      \/ pc = "wait" /\ pc' = "copy"
      \/ pc = "settle" /\ pc' = "clear" /\ Delayed
    BY DEF Extract, Parse, Answered, Settle, Goto, Reset
<1>3. Typed'
    <2>1. receivedData' \in Seq(Characters) /\ Len(receivedData') <= 9
        <3>1. receivedData' = receivedData \/ receivedData' = <<>>
            BY <1>1
        <3>2. <<>> \in Seq(Characters) /\ Len(<<>>) <= 9
            OBVIOUS
        <3> QED BY <3>1, <3>2, Zenon DEF Typed
    <2>2. pc' \in Resets \cup Reading \cup {"idle", "parse"}
        BY <1>2 DEF Resets, Reading
    <2>3. then' \in {"idle", "ask", "return", "askPrompt"}
        BY <1>1 DEF Typed
    <2> QED BY <1>1, <2>1, <2>2, <2>3 DEF Typed, bounds
<1>4. ModemTyped'
    BY <1>1 DEF ModemTyped
<1>5. ASSUME Texts PROVE Texts'
    <2>1. TextOver' = TextOver /\ TextAhead' = TextAhead /\ TextInside' = TextInside
        BY <1>1 DEF TextOver, TextAhead, TextInside
    <2>2. Delayed => (TextAhead \/ TextInside \/ TextOver => TextOver)
        <3>1. CASE Delayed
            <4>1. Len(line) = 0
                BY <3>1 DEF Delayed
            <4> QED BY <4>1 DEF TextAhead, TextInside
        <3> QED BY <3>1
    <2>3. Delayed => modem.at # "receive"
        BY DEF Delayed
    <2> QED BY <1>1, <1>2, <1>5, <2>1, <2>2, <2>3 DEF Texts, Resets, Reading
<1>6. Prompts'
    <2>1. Delayed => None(line, Char(">"))
        BY DEF Delayed, None
    <2>2. None(line', Char(">")) = None(line, Char(">"))
        BY <1>1
    <2>3. modem'.at # "send" /\ (modem'.at = "receive" => pc' \in {"wait", "copy"})
        BY <1>1, <1>2 DEF Prompts, Delayed
    <2> QED BY <1>2, <2>1, <2>2, <2>3 DEF Prompts, Reading
<1> QED BY <1>3, <1>4, <1>5, <1>6

(* The program tells the modem what it wants. *)
LEMMA AskKeeps ==
    ASSUME Safe, AskForData \/ AskForPrompt
    PROVE  Safe' /\ (Texts => Texts')
<1> USE DEF Safe
<1>1. /\ UNCHANGED <<line, inputBuffer, room, push, commandPush, semGsmCommand, commandReceived>>
      /\ UNCHANGED <<then, count, receivedData, extracted, sent, bounds>>
    BY DEF AskForData, AskForPrompt, Goto, received, calls
<1>2. \/ /\ pc = "ask" /\ pc' = "wait"
         /\ modem' = [modem EXCEPT !.at = "receive", !.count = count]
      \/ /\ pc = "askPrompt" /\ pc' = "prompt"
         /\ modem' = [modem EXCEPT !.at = "send"]
    BY DEF AskForData, AskForPrompt, Goto
<1>3. Typed'
    BY <1>1, <1>2 DEF Typed, bounds, Reading
<1>4. ModemTyped'
    BY <1>2 DEF ModemTyped, Typed, Ats
<1>5. /\ modem'.pending = modem.pending
      /\ modem'.at = (IF pc = "ask" THEN "receive" ELSE "send")
    BY <1>2 DEF ModemTyped
<1>6. ASSUME Texts PROVE Texts'
    <2>1. TextOver /\ commandPush = 0
        BY <1>2, <1>6 DEF Texts, Reading, Resets
    <2>2. TextOver' /\ commandPush' = 0 /\ None(modem'.pending, Hash)
        BY <1>1, <1>5, <1>6, <2>1 DEF TextOver, Texts
    <2> QED BY <1>2, <1>5, <2>2 DEF Texts, Reading, Resets
<1>7. Prompts'
    BY <1>1, <1>2, <1>5 DEF Prompts, Reading, NoPromptIn
<1> QED BY <1>3, <1>4, <1>6, <1>7

LEMMA UpToNulTyped ==
    ASSUME NEW s \in Seq(Characters)
    PROVE  /\ UpToNul(s) \in Seq(Characters)
           /\ None(s, Nul) => UpToNul(s) = s
<1>1. CASE Nul \in ToSet(s)
    <2>1. PICK n \in 1 .. Len(s) : s[n] = Nul
        BY <1>1 DEF ToSet
    <2> DEFINE First(i) == s[i] = Nul /\ \A j \in 1 .. i - 1 : s[j] # Nul
    <2>2. \E i \in 1 .. Len(s) : First(i)
        <3> DEFINE S == {i \in 1 .. Len(s) : s[i] = Nul}
        <3>1. S # {} /\ S \in SUBSET Nat
            BY <2>1
        <3>2. PICK i \in S : \A j \in S : i <= j
            <4>1. PICK i \in S : \A j \in S : ~ (<<j, i>> \in OpToRel(<, Nat))
                BY <3>1, NatLessThanWellFounded, WFMin
            <4>2. \A j \in S : ~ (j < i)
                BY <3>1, <4>1 DEF OpToRel
            <4>3. \A j \in S : i <= j
                BY <3>1, <4>2
            <4> QED BY <4>3
        <3>3. i \in 1 .. Len(s) /\ s[i] = Nul
            BY <3>2
        <3>4. ASSUME NEW j \in 1 .. i - 1 PROVE s[j] # Nul
            <4>1. j \in 1 .. Len(s) /\ ~(i <= j)
                BY <3>3
            <4> QED BY <3>2, <4>1
        <3> QED BY <3>3, <3>4
    <2> DEFINE k == CHOOSE i \in DOMAIN s : First(i)
    <2>3. k \in 1 .. Len(s)
        <3>1. DOMAIN s = 1 .. Len(s)
            OBVIOUS
        <3>2. k \in DOMAIN s
            BY <2>2, <3>1, Zenon
        <3> QED BY <3>1, <3>2
    <2>4. UpToNul(s) = SubSeq(s, 1, k - 1)
        BY <1>1 DEF UpToNul
    <2> HIDE DEF k
    <2>5. \A i \in 1 .. k - 1 : s[i] \in Characters
        BY <2>3
    <2>6. SubSeq(s, 1, k - 1) \in Seq(Characters)
        BY <2>3, <2>5, SubSeqProperties
    <2>7. ~ None(s, Nul)
        BY <2>1 DEF None
    <2> QED BY <2>4, <2>6, <2>7
<1>2. CASE ~ (Nul \in ToSet(s))
    BY <1>2 DEF UpToNul
<1> QED BY <1>1, <1>2

LEMMA CopyKeeps ==
    ASSUME Safe, CopyData \/ Return
    PROVE  Safe' /\ (Texts => Texts')
<1> USE DEF Safe
<1>1. /\ UNCHANGED <<line, inputBuffer, room, push, commandPush, semGsmCommand, commandReceived>>
      /\ UNCHANGED <<then, count, modem, sent, bounds>>
      /\ (pc = "copy" /\ pc' = "settle") \/ (pc = "return" /\ pc' = "idle")
    BY DEF CopyData, Return, Goto, Elsewhere, received
<1>2. receivedData' \in Seq(Characters) /\ Len(receivedData') <= 9
    <2>1. CASE CopyData
        <3>1. receivedData' = [i \in 1 .. count |-> inputBuffer[i - 1]]
            BY <2>1 DEF CopyData
        <3>2. \A i \in 1 .. count : inputBuffer[i - 1] \in Characters
            <4>1. \A i \in 1 .. count : i - 1 \in 0 .. MaxLength
                BY LengthsAssumption DEF Typed
            <4> QED BY <4>1 DEF Typed
        <3>3. receivedData' \in [1 .. count -> Characters] /\ count \in Nat /\ count <= 9
            BY <3>1, <3>2 DEF Typed
        <3>4. receivedData' \in Seq(Characters) /\ Len(receivedData') = count
            BY <3>3
        <3> QED BY <3>3, <3>4
    <2>2. CASE Return
        BY <2>2 DEF Return, Typed
    <2> QED BY <2>1, <2>2
<1>3. extracted' \in Seq(Characters)
    <2>1. CASE CopyData
        BY <2>1 DEF CopyData, Typed
    <2>2. CASE Return
        <3>1. UpToNul(receivedData) \in Seq(Characters)
            BY UpToNulTyped DEF Typed
        <3>2. extracted' = extracted \o UpToNul(receivedData)
            BY <2>2 DEF Return
        <3> QED BY <3>1, <3>2, SaidIs DEF Typed
    <2> QED BY <2>1, <2>2
<1>4. Typed'
    <2>1. pc' \in Reading \cup {"idle"}
        BY <1>1 DEF Reading
    <2> QED BY <1>1, <1>2, <1>3, <2>1 DEF Typed, bounds
<1>5. ModemTyped'
    BY <1>1 DEF ModemTyped
<1>6. pc = "copy" => modem.at # "receive"
    BY DEF CopyData, Return, Delayed
<1>7. ASSUME Texts PROVE Texts'
    <2>1. TextOver' = TextOver /\ TextAhead' = TextAhead /\ TextInside' = TextInside
        BY <1>1 DEF TextOver, TextAhead, TextInside
    <2> QED BY <1>1, <1>6, <1>7, <2>1 DEF Texts, Resets, Reading
<1>8. Prompts'
    BY <1>1, <1>6 DEF Prompts, Reading
<1> QED BY <1>4, <1>5, <1>7, <1>8

(* gsmSSEND from its call to its return. *)
LEMMA SendKeeps ==
    ASSUME Safe, Send \/ WriteText \/ TextSent
    PROVE  Safe' /\ (Texts => Texts')
<1> USE DEF Safe
<1>1. /\ UNCHANGED <<line, inputBuffer, room, push, commandPush, semGsmCommand, commandReceived>>
      /\ UNCHANGED <<count, receivedData, extracted, sent, messages, turns>>
      /\ sends' \in 0 .. MaxSends
      /\ \/ pc = "idle" /\ pc' = "clear" /\ then' = "askPrompt" /\ modem' = modem
         \/ pc = "prompt" /\ pc' = "sendWait" /\ then' = then /\ line = <<>>
            /\ modem' = [modem EXCEPT !.at = IF @ = "prompting" THEN "text" ELSE @]
         \/ pc \in {"prompt", "sendWait"} /\ pc' = "clear" /\ then' = "idle" /\ modem' = modem
            /\ line = <<>>
    <2>1. CASE Send
        BY SMTT(30), <2>1, LengthsAssumption DEF Send, Reset, received, calls, Typed
    <2>2. CASE WriteText
        BY <2>2 DEF WriteText, Reset, Goto, Delayed, received, bounds, Typed
    <2>3. CASE TextSent
        BY <2>3 DEF TextSent, Reset, Delayed, Elsewhere, received, bounds, Typed
    <2> QED BY <2>1, <2>2, <2>3
<1>2. Typed'
    BY <1>1 DEF Typed, Resets
<1>3. ModemTyped' /\ modem'.at # "receive" /\ modem'.pending = modem.pending
    BY <1>1 DEF ModemTyped, Ats, Prompts
<1>4. ASSUME Texts PROVE Texts'
    <2>1. TextOver /\ commandPush = 0
        BY <1>1, <1>4 DEF Texts, Reading, Resets
    <2>2. TextOver' /\ commandPush' = 0 /\ None(modem'.pending, Hash)
        BY <1>1, <1>3, <1>4, <2>1 DEF TextOver, Texts
    <2> QED BY <1>1, <1>3, <2>1, <2>2 DEF Texts, Reading, Resets
<1>5. Prompts'
    <2>1. None(line', Char(">"))
        <3>1. CASE line = <<>>
            BY <1>1, <3>1 DEF None
        <3>2. CASE pc = "idle"
            BY <1>1, <3>2 DEF Prompts, Reading
        <3> QED BY <1>1, <3>1, <3>2
    <2>2. modem'.at = "send" => modem.at = "send" /\ pc = "prompt" /\ pc' = "clear"
                                /\ Delayed
        <3>1. modem.at = "send" => pc = "prompt"
            BY DEF Prompts
        <3>2. modem'.at = "send" => modem.at = "send"
            BY <1>1 DEF ModemTyped
        <3>3. pc = "prompt" => Delayed
            BY DEF Send, WriteText, TextSent
        <3>4. pc = "prompt" /\ modem'.at = "send" => pc' = "clear"
            BY <1>1, <3>2, <3>3 DEF Delayed
        <3> QED BY <3>1, <3>2, <3>3, <3>4
    <2>3. modem'.at # "send"
        BY <2>2 DEF Delayed
    <2> QED BY <1>1, <1>3, <2>1, <2>3 DEF Prompts
<1> QED BY <1>2, <1>3, <1>4, <1>5
-------------------------------------------------------------------------------
(* The modem and the peer.                                                 *)

(* The text that answers AT#SRECV, and the data behind it. *)
AnswerText(n) == <<Hash, Char("SRECV: 1,"), Digit(n), CR, EOL_GSM>>

LEMMA AnswerTextIs ==
    ASSUME NEW n \in 0 .. 9
    PROVE  /\ AnswerText(n) \in Seq(Characters) /\ Len(AnswerText(n)) = 5
           /\ AnswerText(n)[5] = EOL_GSM
           /\ \A i \in 1 .. 5 : /\ AnswerText(n)[i] = Hash <=> i = 1
                                /\ AnswerText(n)[i] = EOL_GSM <=> i = 5
<1> DEFINE d == Digit(n)
           w == Char("SRECV: 1,")
<1>1. /\ d \in Characters /\ d # Hash /\ d # EOL_GSM
      /\ w \in Characters /\ w # Hash /\ w # EOL_GSM
      /\ CR \in Characters /\ EOL_GSM \in Characters /\ Hash \in Characters
      /\ CR # Hash /\ EOL_GSM # Hash /\ CR # EOL_GSM
    BY DigitIs, Kinds
<1>2. AnswerText(n) = <<Hash, w, d, CR, EOL_GSM>>
    BY DEF AnswerText
<1> HIDE DEF d, w
<1>3. AnswerText(n) \in Seq(Characters) /\ Len(AnswerText(n)) = 5
    BY <1>1, <1>2
<1>4. /\ AnswerText(n)[1] = Hash /\ AnswerText(n)[2] = w /\ AnswerText(n)[3] = d
      /\ AnswerText(n)[4] = CR /\ AnswerText(n)[5] = EOL_GSM
    BY <1>2
<1>5. \A i \in 1 .. 5 : i = 1 \/ i = 2 \/ i = 3 \/ i = 4 \/ i = 5
    OBVIOUS
<1> QED BY <1>1, <1>3, <1>4, <1>5

(* All of the answer. *)
Answer(m) == AnswerText(Len(m)) \o m \o ResultCode(0)

LEMMA AnswerIs ==
    ASSUME NEW m \in Seq(Characters), Len(m) <= 9
    PROVE  /\ Answer(m) \in Seq(Characters) /\ Len(Answer(m)) = Len(m) + 9
           /\ Answer(m)[5] = EOL_GSM
           /\ None(m, Hash) => \A i \in 1 .. Len(Answer(m)) : Answer(m)[i] = Hash <=> i = 1
           /\ \A i \in 1 .. 5 : Answer(m)[i] = EOL_GSM <=> i = 5
           /\ \A i \in 1 .. Len(m) : Answer(m)[5 + i] = m[i]
<1>1. Len(m) \in 0 .. 9
    <2>1. Len(m) \in Nat
        OBVIOUS
    <2>2. \A k \in Nat : k <= 9 => k \in 0 .. 9
        OBVIOUS
    <2> QED BY <2>1, <2>2
<1> DEFINE t == AnswerText(Len(m))
           tm == t \o m
           r == ResultCode(0)
<1>2. /\ t \in Seq(Characters) /\ Len(t) = 5 /\ t[5] = EOL_GSM
      /\ \A i \in 1 .. 5 : (t[i] = Hash <=> i = 1) /\ (t[i] = EOL_GSM <=> i = 5)
    BY <1>1, AnswerTextIs
<1>3. r \in Seq(Characters) /\ Len(r) = 4 /\ None(r, Hash)
    BY ResultCodeIs
<1> HIDE DEF t, r
<1>4. /\ tm \in Seq(Characters) /\ Len(tm) = 5 + Len(m)
      /\ \A i \in 1 .. 5 : tm[i] = t[i]
      /\ \A i \in 1 .. Len(m) : tm[5 + i] = m[i]
    <2>1. /\ tm \in Seq(Characters) /\ Len(tm) = Len(t) + Len(m)
          /\ \A i \in 1 .. Len(t) : tm[i] = t[i]
          /\ \A i \in 1 .. Len(m) : tm[Len(t) + i] = m[i]
        BY ZenonT(30), <1>2, SaidIs
    <2> HIDE DEF tm
    <2> QED BY <1>2, <2>1
<1> HIDE DEF tm
<1> DEFINE a == tm \o r
<1>5. /\ a \in Seq(Characters) /\ Len(a) = Len(m) + 9
      /\ \A i \in 1 .. Len(tm) : a[i] = tm[i]
      /\ \A i \in 1 .. Len(r) : a[Len(tm) + i] = r[i]
    <2>1. /\ a \in Seq(Characters) /\ Len(a) = Len(tm) + Len(r)
          /\ \A i \in 1 .. Len(tm) : a[i] = tm[i]
          /\ \A i \in 1 .. Len(r) : a[Len(tm) + i] = r[i]
        BY ZenonT(30), <1>3, <1>4, SaidIs
    <2> HIDE DEF a
    <2>2. Len(tm) + Len(r) = Len(m) + 9
        BY <1>1, <1>3, <1>4
    <2> QED BY <2>1, <2>2
<1> HIDE DEF a
<1>6. \A i \in 1 .. 5 : a[i] = t[i]
    BY <1>1, <1>4, <1>5
<1>7. \A i \in 1 .. Len(m) : a[5 + i] = m[i]
    BY <1>1, <1>4, <1>5
<1>8. ASSUME None(m, Hash), NEW i \in 1 .. Len(a) PROVE a[i] = Hash <=> i = 1
    <2>1. CASE i <= 5
        BY <1>2, <1>6, <2>1
    <2>2. CASE i > 5 /\ i <= 5 + Len(m)
        <3>1. i - 5 \in 1 .. Len(m) /\ 5 + (i - 5) = i
            BY <1>1, <2>2
        <3>2. a[i] = m[i - 5]
            BY <1>7, <3>1
        <3> QED BY <1>8, <2>2, <3>1, <3>2 DEF None
    <2>3. CASE i > 5 + Len(m)
        <3> DEFINE j == i - Len(tm)
        <3>1. j \in 1 .. Len(r) /\ Len(tm) + j = i
            <4>1. i \in Nat /\ i <= Len(m) + 9 /\ Len(tm) = 5 + Len(m) /\ Len(r) = 4
                BY <1>3, <1>4, <1>5
            <4> QED BY <1>1, <2>3, <4>1
        <3> HIDE DEF j
        <3>2. a[i] = r[j] /\ r[j] # Hash
            BY <1>3, <1>5, <3>1 DEF None
        <3>3. i # 1
            BY <1>1, <2>3
        <3> QED BY <3>2, <3>3
    <2> QED BY <1>1, <1>5, <2>1, <2>2, <2>3
<1>9. Answer(m) = a
    BY DEF Answer, a, tm, t, r
<1> QED BY <1>2, <1>5, <1>6, <1>7, <1>8, <1>9

(* What a step of modem or peer leaves alone. *)
Listening ==
    /\ UNCHANGED <<inputBuffer, room, push, commandPush, semGsmCommand, commandReceived>>
    /\ UNCHANGED <<pc, then, count, receivedData, extracted, sends, turns>>

(* What is said without data holds no '#', and no '>' but in a prompt. *)
LEMMA SayingKeeps ==
    ASSUME Safe, Listening, NEW s \in Seq(Characters), line' = line \o s, None(s, Hash),
           None(s, Char(">")) \/ (pc = "prompt" /\ modem'.at = "prompting"),
           ModemTyped', messages' \in 0 .. MaxMessages, sent' \in Seq(Characters),
           modem'.at \in {"receive", "send"} => modem'.at = modem.at,
           modem'.at = modem.at \/ modem'.at = "prompting" \/ modem.at \in {"send", "text", "receive"}
    PROVE  Safe' /\ (Texts /\ None(modem'.pending, Hash) => Texts')
<1> USE DEF Safe
<1>1. /\ line' \in Seq(Characters) /\ Len(line') = Len(line) + Len(s)
      /\ \A i \in 1 .. Len(line) : line'[i] = line[i]
      /\ \A i \in 1 .. Len(s) : line'[Len(line) + i] = s[i]
      /\ Len(line) \in Nat /\ Len(s) \in Nat
      /\ \A c : None(line, c) /\ None(s, c) => None(line', c)
    BY SaidIs DEF Typed
<1>2. Typed'
    BY <1>1 DEF Typed, Listening
<1>3. UNCHANGED <<semGsmCommand, commandPush, pc, inputBuffer>>
    BY DEF Listening
<1>4. TextOver => TextOver'
    BY <1>1, <1>3 DEF TextOver
<1>5. TextInside => TextInside'
    <2> SUFFICES ASSUME TextInside PROVE TextInside'
        OBVIOUS
    <2>1. 5 - commandPush \in 1 .. Len(line) /\ line[5 - commandPush] = EOL_GSM
        BY <1>1 DEF TextInside
    <2>2. None(line', Hash)
        BY <1>1 DEF TextInside
    <2> QED BY <1>1, <1>3, <2>1, <2>2 DEF TextInside
<1>6. TextAhead => TextAhead'
    <2> SUFFICES ASSUME TextAhead PROVE TextAhead'
        OBVIOUS
    <2>1. PICK h \in 1 .. Len(line) :
            /\ h + 4 <= Len(line) /\ line[h + 4] = EOL_GSM
            /\ \A i \in 1 .. Len(line) : line[i] = Hash <=> i = h
        BY DEF TextAhead
    <2>2. h \in 1 .. Len(line') /\ h + 4 <= Len(line') /\ line'[h + 4] = EOL_GSM
        BY <1>1, <2>1
    <2>3. ASSUME NEW i \in 1 .. Len(line') PROVE line'[i] = Hash <=> i = h
        <3>1. CASE i <= Len(line)
            BY <1>1, <2>1, <3>1
        <3>2. CASE ~(i <= Len(line))
            <4> DEFINE j == i - Len(line)
            <4>1. j \in 1 .. Len(s) /\ Len(line) + j = i
                BY <1>1, <3>2
            <4> HIDE DEF j
            <4>2. line'[i] = s[j] /\ s[j] # Hash
                BY <1>1, <4>1 DEF None
            <4> QED BY <2>1, <3>2, <4>2
        <3> QED BY <3>1, <3>2
    <2> QED BY <1>3, <2>2, <2>3 DEF TextAhead
<1>7. Texts /\ None(modem'.pending, Hash) => Texts'
    BY <1>3, <1>4, <1>5, <1>6 DEF Texts
<1>8. Prompts'
    <2>1. pc \in {"zeroReceived", "zeroPush", "zeroCommandPush", "askPrompt"}
            => pc \notin Reading \cup {"prompt"}
        BY DEF Reading
    <2>2. CASE pc = "prompt" /\ modem'.at = "prompting"
        BY <1>3, <2>2 DEF Prompts
    <2>3. CASE None(s, Char(">")) /\ ~(pc = "prompt" /\ modem'.at = "prompting")
        <3>1. pc \notin Reading => None(line, Char(">")) \/ (pc = "prompt" /\ modem.at = "prompting")
            BY DEF Prompts
        <3>2. pc = "prompt" /\ modem.at = "prompting" => modem'.at = "prompting"
            OBVIOUS
        <3>3. NoPromptIn' = NoPromptIn
            BY <1>3 DEF NoPromptIn
        <3> QED BY <1>1, <1>3, <2>3, <3>1, <3>2, <3>3 DEF Prompts
    <2> QED BY <2>2, <2>3
<1> QED BY <1>2, <1>7, <1>8

(* A '#' that the peer sends is seen in all that it sent. *)
LEMMA PlainSaid ==
    ASSUME NEW l \in Seq(Characters), NEW m \in Seq(Characters), Hash \notin ToSet(l \o m)
    PROVE  Hash \notin ToSet(l) /\ None(m, Hash)
<1> DEFINE t == l \o m
<1>1. /\ t \in Seq(Characters) /\ Len(t) = Len(l) + Len(m)
      /\ \A i \in 1 .. Len(l) : t[i] = l[i]
      /\ \A i \in 1 .. Len(m) : t[Len(l) + i] = m[i]
      /\ Len(l) \in Nat /\ Len(m) \in Nat
    BY SaidIs
<1>2. Hash \notin ToSet(t)
    OBVIOUS
<1> HIDE DEF t
<1>3. \A i \in 1 .. Len(t) : t[i] # Hash
    BY <1>1, <1>2 DEF ToSet
<1>4. ASSUME NEW i \in 1 .. Len(l) PROVE l[i] # Hash
    BY <1>1, <1>3
<1>5. ASSUME NEW i \in 1 .. Len(m) PROVE m[i] # Hash
    <2>1. Len(l) + i \in 1 .. Len(t)
        BY <1>1
    <2> QED BY <1>1, <1>3, <2>1
<1> QED BY <1>4, <1>5 DEF ToSet, None

LEMMA PeerKeeps ==
    ASSUME Safe, HangUp \/ \E m \in Messages : PeerSends(m)
    PROVE  Safe' /\ (Texts /\ Plain' => Texts')
<1>1. CASE HangUp
    <2>1. Listening /\ sent' = sent /\ messages' = messages /\ line' = line \o ResultCode(3)
        BY <1>1 DEF HangUp, Says, Listening, received, calls, bounds
    <2>2. modem' = [modem EXCEPT !.peer = FALSE]
        BY <1>1 DEF HangUp
    <2>3. ModemTyped' /\ modem'.at = modem.at
        BY <2>2 DEF ModemTyped, Safe
    <2>4. messages' \in 0 .. MaxMessages /\ sent' \in Seq(Characters)
        BY <2>1 DEF Typed, Safe
    <2>5. ResultCode(3) \in Seq(Characters) /\ None(ResultCode(3), Hash)
          /\ None(ResultCode(3), Char(">"))
        BY ResultCodeIs
    <2>6. Safe' /\ (Texts /\ None(modem'.pending, Hash) => Texts')
        BY <2>1, <2>3, <2>4, <2>5, SayingKeeps
    <2>7. modem'.pending = modem.pending
        BY <2>2 DEF ModemTyped, Safe
    <2> QED BY <2>6, <2>7 DEF Texts
<1>2. ASSUME NEW m \in Messages, PeerSends(m)
      PROVE  Safe' /\ (Texts /\ Plain' => Texts')
    <2>1. /\ m \in Seq(Characters) /\ Len(m) \in 1 .. MaxWaiting
          /\ Nul \notin ToSet(m)
        BY LengthsAssumption
    <2>2. None(m, Nul)
        BY <2>1 DEF None, ToSet
    <2>3. /\ Listening /\ sent' = sent \o m /\ messages' = messages + 1 /\ messages < MaxMessages
          /\ modem' = [modem EXCEPT !.pending = modem.pending \o m]
          /\ line' = line \o Indication(Len(modem'.pending))
          /\ Len(modem.pending \o m) <= MaxWaiting
        BY <1>2 DEF PeerSends, Says, Listening, received, calls
    <2>4. /\ modem \in [pending : Seq(Characters), at : Ats, count : 0 .. 9, peer : BOOLEAN]
          /\ modem.pending \in Seq(Characters) /\ None(modem.pending, Nul)
        BY DEF ModemTyped, Safe
    <2> DEFINE w == modem.pending \o m
    <2>5. /\ w \in Seq(Characters) /\ None(w, Nul)
          /\ None(modem.pending, Hash) /\ None(m, Hash) => None(w, Hash)
        BY <2>1, <2>2, <2>4, SaidIs
    <2>6. modem' = [modem EXCEPT !.pending = w] /\ Len(w) <= MaxWaiting
        BY <2>3
    <2> HIDE DEF w
    <2>7. modem'.pending = w /\ modem'.at = modem.at /\ ModemTyped'
        BY <2>4, <2>5, <2>6 DEF ModemTyped
    <2>8. Len(w) \in 0 .. 9
        <3>1. Len(w) \in Nat
            BY <2>5
        <3>2. \A k \in Nat : k <= 9 => k \in 0 .. 9
            OBVIOUS
        <3> QED BY <2>6, <3>1, <3>2 DEF MaxWaiting
    <2>9. Indication(Len(w)) \in Seq(Characters) /\ None(Indication(Len(w)), Hash)
          /\ None(Indication(Len(w)), Char(">"))
        BY <2>8, IndicationIs
    <2>10. line' = line \o Indication(Len(w))
        BY <2>3, <2>7
    <2>11. messages' \in 0 .. MaxMessages
        <3>1. messages \in Nat /\ MaxMessages \in Nat
            BY LengthsAssumption DEF Typed, Safe
        <3> QED BY <2>3, <3>1
    <2>12. sent' \in Seq(Characters) /\ (Plain' => None(m, Hash))
        <3>1. sent \in Seq(Characters)
            BY DEF Typed, Safe
        <3>2. Plain' => None(m, Hash)
            <4> SUFFICES ASSUME Hash \notin ToSet(sent \o m) PROVE None(m, Hash)
                BY <2>3 DEF Plain
            <4> QED BY <2>1, <3>1, PlainSaid
        <3> QED BY <2>1, <2>3, <3>1, <3>2, SaidIs
    <2>13. Safe' /\ (Texts /\ None(modem'.pending, Hash) => Texts')
        BY <2>3, <2>7, <2>9, <2>10, <2>11, <2>12, SayingKeeps
    <2>14. Texts /\ Plain' => None(modem'.pending, Hash)
        BY <2>5, <2>7, <2>12 DEF Texts
    <2> QED BY <2>13, <2>14
<1> QED BY <1>1, <1>2

LEMMA PromptKeeps ==
    ASSUME Safe, GivePrompt \/ TakeText
    PROVE  Safe' /\ (Texts => Texts')
<1> SUFFICES Safe' /\ (Texts /\ None(modem'.pending, Hash) => Texts')
    <2>1. modem'.pending = modem.pending
        BY DEF GivePrompt, TakeText, Safe, ModemTyped
    <2> QED BY <2>1 DEF Texts
<1>1. /\ Listening /\ sent' = sent /\ messages' = messages
      /\ modem.at \in {"send", "text"}
    BY DEF GivePrompt, TakeText, Listening, received, calls, bounds
<1>2. messages' \in 0 .. MaxMessages /\ sent' \in Seq(Characters)
    BY <1>1 DEF Typed, Safe
<1>3. CASE modem' = [modem EXCEPT !.at = "command"]
           /\ \E code \in {0, 4} : line' = line \o <<Digit(code), CR>>
    <2>1. PICK code \in {0, 4} : line' = line \o <<Digit(code), CR>>
        BY <1>3
    <2>2. <<Digit(code), CR>> \in Seq(Characters) /\ None(<<Digit(code), CR>>, Hash)
          /\ None(<<Digit(code), CR>>, Char(">"))
        <3>1. code \in 0 .. 9
            OBVIOUS
        <3> QED BY <3>1, ResultCodeIs
    <2> DEFINE s == <<Digit(code), CR>>
    <2>3. s \in Seq(Characters) /\ None(s, Hash) /\ None(s, Char(">")) /\ line' = line \o s
        BY <2>1, <2>2
    <2> HIDE DEF s
    <2>4. ModemTyped' /\ modem'.at = "command"
        BY <1>3 DEF ModemTyped, Ats, Safe
    <2> QED BY <1>1, <1>2, <2>3, <2>4, SayingKeeps
<1>4. CASE modem.at = "send" /\ modem' = [modem EXCEPT !.at = "prompting"]
           /\ line' = line \o <<CR, EOL_GSM, Char(">")>>
    <2> DEFINE s == <<CR, EOL_GSM, Char(">")>>
               g == Char(">")
    <2>1. s \in Seq(Characters) /\ None(s, Hash)
        <3>1. /\ CR \in Characters /\ EOL_GSM \in Characters /\ g \in Characters
              /\ CR # Hash /\ EOL_GSM # Hash /\ g # Hash
            BY Kinds
        <3>2. s = <<CR, EOL_GSM, g>>
            OBVIOUS
        <3> HIDE DEF g, s
        <3> QED BY <3>1, <3>2 DEF None
    <2> HIDE DEF s
    <2>2. line' = line \o s
        BY <1>4 DEF s
    <2>3. ModemTyped' /\ modem'.at = "prompting"
        BY <1>4 DEF ModemTyped, Ats, Safe
    <2>4. pc = "prompt"
        BY <1>4 DEF Prompts, Safe
    <2> QED BY <1>1, <1>2, <1>4, <2>1, <2>2, <2>3, <2>4, SayingKeeps
<1>5. \/ modem' = [modem EXCEPT !.at = "command"]
            /\ \E code \in {0, 4} : line' = line \o <<Digit(code), CR>>
      \/ modem.at = "send" /\ modem' = [modem EXCEPT !.at = "prompting"]
            /\ line' = line \o <<CR, EOL_GSM, Char(">")>>
    <2>1. CASE GivePrompt
        <3>1. 4 \in {0, 4}
            OBVIOUS
        <3> QED BY <2>1, <3>1 DEF GivePrompt, Says
    <2>2. CASE TakeText
        BY <2>2 DEF TakeText, Says
    <2> QED BY <2>1, <2>2
<1> QED BY <1>3, <1>4, <1>5

(* The answer with the data: its text is ahead, behind all that is said. *)
LEMMA GiveKeeps ==
    ASSUME Safe, GiveData
    PROVE  Safe' /\ (Texts => Texts')
<1> USE DEF Safe
<1> DEFINE n == IF modem.count < Len(modem.pending) THEN modem.count ELSE Len(modem.pending)
           given == SubSeq(modem.pending, 1, n)
           kept == SubSeq(modem.pending, n + 1, Len(modem.pending))
<1>1. /\ modem \in [pending : Seq(Characters), at : Ats, count : 0 .. 9, peer : BOOLEAN]
      /\ modem.pending \in Seq(Characters) /\ modem.count \in 0 .. 9
      /\ Len(modem.pending) <= 9 /\ Len(modem.pending) \in Nat
      /\ None(modem.pending, Nul)
    BY DEF ModemTyped, MaxWaiting
<1>2. n \in 0 .. 9 /\ n <= Len(modem.pending)
    <2>1. \A k, z \in Nat : k <= 9 /\ z <= 9 =>
            /\ (IF k < z THEN k ELSE z) \in 0 .. 9
            /\ (IF k < z THEN k ELSE z) <= z
        OBVIOUS
    <2>2. modem.count \in Nat /\ modem.count <= 9
        BY <1>1
    <2> QED BY <1>1, <2>1, <2>2
<1>3. /\ modem.at = "receive" /\ Listening /\ sent' = sent /\ messages' = messages
      /\ modem' = [modem EXCEPT !.at = "command", !.pending = kept]
      /\ line' = line \o (IF n = 0 THEN <<Digit(4), CR>>
                          ELSE AnswerText(n) \o given \o ResultCode(0))
    BY DEF GiveData, Says, Listening, received, calls, bounds, AnswerText
<1> HIDE DEF n
<1>4. /\ given \in Seq(Characters) /\ Len(given) = n
      /\ None(modem.pending, Hash) => None(given, Hash)
    <2>1. \A i \in 1 .. n : modem.pending[i] \in Characters
        BY <1>1, <1>2
    <2>2. /\ given \in Seq(Characters)
          /\ Len(given) = IF 1 <= n THEN n - 1 + 1 ELSE 0
          /\ \A i \in 1 .. n - 1 + 1 : given[i] = modem.pending[1 + i - 1]
        BY <1>1, <1>2, <2>1, SubSeqProperties
    <2> HIDE DEF given
    <2>3. Len(given) = n
        BY <1>2, <2>2
    <2>4. \A i \in 1 .. n : given[i] = modem.pending[i]
        BY <1>2, <2>2
    <2> QED BY <1>1, <1>2, <2>2, <2>3, <2>4 DEF None
<1>5. /\ kept \in Seq(Characters) /\ Len(kept) <= 9 /\ None(kept, Nul)
      /\ None(modem.pending, Hash) => None(kept, Hash)
    <2> DEFINE z == Len(modem.pending)
    <2>1. \A i \in n + 1 .. z : modem.pending[i] \in Characters
        BY <1>1, <1>2
    <2>2. /\ kept \in Seq(Characters)
          /\ Len(kept) = IF n + 1 <= z THEN z - (n + 1) + 1 ELSE 0
          /\ \A i \in 1 .. z - (n + 1) + 1 : kept[i] = modem.pending[n + 1 + i - 1]
        BY <1>1, <1>2, <2>1, SubSeqProperties
    <2>3. z \in Nat /\ z <= 9 /\ n \in Nat /\ n <= z
        BY <1>1, <1>2
    <2> HIDE DEF kept, z
    <2>4. Len(kept) = z - n
        BY <2>2, <2>3
    <2>5. \A i \in 1 .. z - n : kept[i] = modem.pending[n + i] /\ n + i \in 1 .. z
        <3>1. \A i \in 1 .. z - n : i \in 1 .. z - (n + 1) + 1 /\ n + 1 + i - 1 = n + i
              /\ n + i \in 1 .. z
            BY <2>3
        <3> QED BY <2>2, <3>1
    <2>6. Len(kept) <= 9
        BY <2>3, <2>4
    <2>7. ASSUME NEW i \in 1 .. Len(kept)
          PROVE  kept[i] # Nul /\ (None(modem.pending, Hash) => kept[i] # Hash)
        <3>1. kept[i] = modem.pending[n + i] /\ n + i \in 1 .. Len(modem.pending)
            BY <2>4, <2>5 DEF z
        <3> QED BY <1>1, <3>1 DEF None
    <2> QED BY <2>2, <2>6, <2>7 DEF None
<1> HIDE DEF given, kept
<1>6. ModemTyped' /\ modem'.at = "command" /\ modem'.pending = kept
    BY <1>1, <1>3, <1>5 DEF ModemTyped, Ats, MaxWaiting
<1>7. messages' \in 0 .. MaxMessages /\ sent' \in Seq(Characters)
    BY <1>3 DEF Typed
<1>8. CASE n = 0
    <2> DEFINE s == <<Digit(4), CR>>
    <2>1. s \in Seq(Characters) /\ None(s, Hash) /\ None(s, Char(">")) /\ line' = line \o s
        BY <1>3, <1>8, ResultCodeIs
    <2> HIDE DEF s
    <2>2. Safe' /\ (Texts /\ None(modem'.pending, Hash) => Texts')
        BY <1>3, <1>6, <1>7, <2>1, SayingKeeps
    <2> QED BY <1>5, <1>6, <2>2 DEF Texts
<1>9. CASE n # 0
    <2> DEFINE a == Answer(given)
    <2>1. line' = line \o a
        BY <1>3, <1>4, <1>9 DEF Answer
    <2>2. /\ a \in Seq(Characters) /\ Len(a) = n + 9 /\ a[5] = EOL_GSM
          /\ None(given, Hash) => \A i \in 1 .. Len(a) : a[i] = Hash <=> i = 1
        BY <1>2, <1>4, AnswerIs
    <2> HIDE DEF a
    <2>3. line \in Seq(Characters)
        BY DEF Typed
    <2>4. /\ line' \in Seq(Characters) /\ Len(line') = Len(line) + (n + 9)
          /\ \A i \in 1 .. Len(line) : line'[i] = line[i]
          /\ \A i \in 1 .. n + 9 : line'[Len(line) + i] = a[i]
        <3>1. /\ line' \in Seq(Characters) /\ Len(line') = Len(line) + Len(a)
              /\ \A i \in 1 .. Len(line) : line'[i] = line[i]
              /\ \A i \in 1 .. Len(a) : line'[Len(line) + i] = a[i]
            BY <2>1, <2>2, <2>3, SaidIs
        <3> QED BY <2>2, <3>1
    <2>5. /\ pc \in {"wait", "copy"}
          /\ Texts => TextOver /\ commandPush = 0 /\ None(given, Hash) /\ None(kept, Hash)
        BY <1>3, <1>4, <1>5 DEF Texts, Prompts
    <2>6. UNCHANGED <<semGsmCommand, commandPush, pc, inputBuffer>>
        BY <1>3 DEF Listening
    <2>7. ASSUME Texts PROVE TextAhead'
        <3> DEFINE h == Len(line) + 1
        <3>1. Len(line) \in Nat /\ n \in Nat
            BY <1>2, <2>3
        <3>2. h \in 1 .. Len(line') /\ h + 4 <= Len(line') /\ line'[h + 4] = EOL_GSM
            <4>1. 5 \in 1 .. n + 9 /\ Len(line) + 5 = h + 4
                BY <3>1
            <4> QED BY <2>2, <2>4, <3>1, <4>1
        <3>3. ASSUME NEW i \in 1 .. Len(line') PROVE line'[i] = Hash <=> i = h
            <4>1. CASE i <= Len(line)
                <5>1. line'[i] = line[i] /\ line[i] # Hash
                    BY <2>4, <2>5, <2>7, <3>1, <4>1 DEF TextOver, None
                <5> QED BY <3>1, <4>1, <5>1
            <4>2. CASE ~(i <= Len(line))
                <5> DEFINE j == i - Len(line)
                <5>1. j \in 1 .. n + 9 /\ Len(line) + j = i /\ (j = 1 <=> i = h)
                    BY <2>4, <3>1, <4>2
                <5> HIDE DEF j, h
                <5> QED BY <2>2, <2>4, <2>5, <2>7, <5>1
            <4> QED BY <4>1, <4>2
        <3> HIDE DEF h
        <3> QED BY <2>5, <2>6, <2>7, <3>2, <3>3 DEF TextAhead, TextOver
    <2>8. Typed'
        BY <1>3, <1>7, <2>4 DEF Typed, Listening
    <2>9. Texts => Texts'
        BY <1>6, <2>5, <2>6, <2>7 DEF Texts, Reading
    <2>10. Prompts'
        BY <1>6, <2>5, <2>6 DEF Prompts, Reading
    <2> QED BY <1>6, <2>8, <2>9, <2>10
<1> QED BY <1>8, <1>9

(* One step: what holds whatever the peer sends, and what a '#' undoes.    *)
LEMMA NextKeeps ==
    ASSUME Safe, [Next]_vars
    PROVE  Safe' /\ (Texts /\ Plain' => Texts')
<1>1. CASE GsmInputHandler
    BY <1>1, HandlerKeeps
<1>2. CASE Program
    BY <1>2, ExtractKeeps, ResetKeeps, AskKeeps, CopyKeeps, SendKeeps
       DEF Program, ResetSteps, ExtractSteps, SendSteps
<1>3. CASE Send
    BY <1>3, SendKeeps
<1>4. CASE Modem
    BY <1>4, GiveKeeps, PromptKeeps DEF Modem
<1>5. CASE Peer
    BY <1>5, PeerKeeps DEF Peer
<1>6. CASE UNCHANGED vars
    BY <1>6 DEF vars, received, calls, bounds, Safe, Typed, ModemTyped, Texts, Prompts,
                TextOver, TextAhead, TextInside, NoPromptIn
<1> QED BY <1>1, <1>2, <1>3, <1>4, <1>5, <1>6 DEF Next

(* What was sent stays sent. *)
LEMMA PlainBefore == Safe /\ [Next]_vars /\ Plain' => Plain
<1> SUFFICES ASSUME Safe, [Next]_vars, Plain' PROVE Plain
    OBVIOUS
<1>1. CASE \E m \in Messages : PeerSends(m)
    <2>1. PICK m \in Messages : PeerSends(m)
        BY <1>1
    <2>2. sent' = sent \o m /\ m \in Seq(Characters) /\ sent \in Seq(Characters)
        BY <2>1, LengthsAssumption DEF PeerSends, Safe, Typed
    <2>3. Hash \notin ToSet(sent)
        <3>1. Hash \notin ToSet(sent \o m)
            BY <2>2 DEF Plain
        <3> QED BY <2>2, <3>1, PlainSaid
    <2> QED BY <2>3 DEF Plain
<1>2. CASE ~ \E m \in Messages : PeerSends(m)
    <2>1. sent' = sent
        BY <1>2 DEF Next, Program, Modem, Peer, GsmInputHandler, Extract, ResetSteps,
               ExtractSteps, SendSteps, ClearBuffer, ZeroReceived, ZeroPush, ZeroCommandPush,
               Parse, AskForData, Answered, CopyData, Settle, Return, Send, AskForPrompt,
               WriteText, TextSent, GiveData, GivePrompt, TakeText, HangUp, Elsewhere, vars
    <2> QED BY <2>1 DEF Plain
<1> QED BY <1>1, <1>2

LEMMA Invariance == Spec => [](Safe /\ (Plain => IInv))
<1>1. Init => Safe /\ (Plain => IInv)
    BY InitIInv DEF IInv
<1>2. Safe /\ (Plain => IInv) /\ [Next]_vars => (Safe /\ (Plain => IInv))'
    BY NextKeeps, PlainBefore DEF IInv
<1> QED BY <1>1, <1>2, PTL DEF Spec

(* The index of _gsmInputBuffer stays inside it, whenever the handler      *)
(* interrupts the program and whatever arrives.  That of _scGsmBuffer does *)
(* as long as the peer sends no '#': the handler (_GsmInputHandler) checks *)
(* neither its end nor that the program is just resetting, and a '#' of    *)
(* the peer begins a text as long as the peer likes.                       *)
THEOREM ReceiveTyped == Spec => []TypeOK
<1>1. Safe /\ (Plain => IInv) => TypeOK
    <2> SUFFICES ASSUME Safe, Plain => IInv PROVE TypeOK
        OBVIOUS
    <2>1. Plain => commandPush \in 0 .. CommandLength
        <3> SUFFICES ASSUME Texts PROVE commandPush \in 0 .. CommandLength
            BY DEF IInv
        <3>1. TextOver \/ TextAhead \/ TextInside
            BY DEF Texts
        <3>2. commandPush \in 0 .. 5
            BY <3>1 DEF TextOver, TextAhead, TextInside
        <3> QED BY <3>2, LengthsAssumption
    <2>2. Len(receivedData) \in 0 .. 9
        <3>1. Len(receivedData) \in Nat /\ Len(receivedData) <= 9
            BY DEF Safe, Typed
        <3>2. \A k \in Nat : k <= 9 => k \in 0 .. 9
            OBVIOUS
        <3> QED BY <3>1, <3>2
    <2> QED BY <2>1, <2>2 DEF Safe, Typed, ModemTyped, Ats, TypeOK
<1> QED BY <1>1, Invariance, PTL

(* gsmSSEND never writes its text at a modem that takes commands, whatever *)
(* else arrives while it waits and whatever earlier calls left behind.     *)
THEOREM PromptIsItsOwn == Spec => TextIntoPrompt
<1>1. Safe /\ [Next]_vars => [pc = "prompt" /\ pc' = "sendWait" => modem.at = "prompting"]_vars
    <2> SUFFICES ASSUME Safe, Next, pc = "prompt", pc' = "sendWait"
                 PROVE  modem.at = "prompting"
        OBVIOUS
    <2>1. WriteText
        BY DEF Next, Program, Modem, Peer, GsmInputHandler, Extract, ResetSteps, ExtractSteps,
               SendSteps, ClearBuffer, ZeroReceived, ZeroPush, ZeroCommandPush, Parse,
               AskForData, Answered, CopyData, Settle, Return, Send, AskForPrompt, TextSent,
               GiveData, GivePrompt, TakeText, HangUp, PeerSends
    <2>2. HasPrompt(inputBuffer)
        BY <2>1 DEF WriteText, Reset
    <2>3. ~ NoPromptIn
        <3>1. \A i \in 0 .. 3 : i \in 0 .. MaxLength
            BY LengthsAssumption
        <3> QED BY <2>2, <3>1 DEF HasPrompt, NoPromptIn
    <2> QED BY <2>3 DEF Safe, Prompts
<1> QED BY <1>1, Invariance, PTL DEF Spec, TextIntoPrompt
-------------------------------------------------------------------------------
(* Taking turns.                                                           *)

(* What the rest of the conversation needs of the room. *)
Spare == 19 * (MaxMessages - messages) + 5 * (MaxSends - sends) + (IF modem.peer THEN 4 ELSE 0)
Enough(n) == room >= n + Spare

(* The room is used up faster than the position advances. *)
Fits == room + push <= MaxLength

(* The modem has nothing to do.                                            *)
Still == modem.at \in {"command", "prompting"}

(* What the peer has sent: the program has it, or it waits in the modem.   *)
Settled == modem.pending = <<>> /\ sent = extracted
Owed == modem.pending # <<>> /\ sent = extracted \o modem.pending

(* The rest of a text is on the line, and what is in front of it, from the *)
(* o-th character on, is at the beginning of the buffer.                   *)
Half(text, o) ==
    \E k \in o .. Len(text) :
        /\ Len(line) = Len(text) - k /\ \A i \in 1 .. Len(line) : line[i] = text[k + i]
        /\ push = k - o /\ \A i \in 1 .. k - o : inputBuffer[i - 1] = text[o + i]

(* Some of the first five characters of a text are in _scGsmBuffer.        *)
Beginning(text) ==
    \E k \in 0 .. 4 :
        /\ Len(line) = Len(text) - k /\ \A i \in 1 .. Len(line) : line[i] = text[k + i]
        /\ push = 0 /\ (semGsmCommand <=> k > 0)

(* A reset, up to the step that follows it.                                *)
Resetting(next) ==
    /\ pc = next \/ (pc \in Resets /\ then = next)
    /\ line = <<>> /\ ~semGsmCommand /\ Still
    /\ pc \in {"zeroPush", "zeroCommandPush", next} => commandReceived = 0
    /\ pc \in {"zeroCommandPush", next} => push = 0

(* Where the conversation is. *)
Silent == Resetting("idle") /\ Settled /\ Enough(0)

Indicated ==
    /\ pc \in {"idle", "parse"} /\ Still /\ Owed
    /\ Half(Indication(Len(modem.pending)), 0) /\ Enough(Len(line) + 13)

Asking == Resetting("ask") /\ Owed /\ count = Len(modem.pending) /\ Enough(13)

Asked ==
    /\ pc = "wait" /\ modem.at = "receive" /\ Owed
    /\ count = Len(modem.pending) /\ modem.count = count
    /\ line = <<>> /\ commandReceived = 0 /\ push = 0 /\ Enough(13)

Given ==
    /\ pc \in {"wait", "copy"} /\ modem.at = "command" /\ modem.pending = <<>>
    /\ \E m \in Seq(Characters) :
        /\ Len(m) = count /\ None(m, Hash) /\ None(m, Nul) /\ sent = extracted \o m
        /\ \/ Beginning(Answer(m)) /\ Enough(count + 4)
           \/ ~semGsmCommand /\ Half(Answer(m), 5) /\ Enough(Len(line))

Copied ==
    /\ modem.pending = <<>> /\ sent = extracted \o receivedData /\ None(receivedData, Nul)
    /\ Enough(0)
    /\ \/ pc = "settle" /\ line = <<>> /\ ~semGsmCommand /\ Still
       \/ Resetting("return")

Sending == Resetting("askPrompt") /\ Settled /\ Enough(5)

ToSay == IF modem.at = "send" THEN 5 ELSE IF modem.at \in {"prompting", "text"} THEN 2 ELSE 0
Prompted == pc \in {"prompt", "sendWait"} /\ Settled /\ Enough(Len(line) + ToSay)

HungUp ==
    /\ pc \in {"idle", "parse"} /\ Still /\ Settled /\ ~modem.peer
    /\ Half(ResultCode(3), 0) /\ Enough(Len(line))
    /\ Len(line) <= 2 => commandReceived > 0

Phase ==
    \/ Silent \/ Indicated \/ Asking \/ Asked \/ Given \/ Copied
    \/ Sending \/ Prompted \/ HungUp

Conversation == Fits /\ (turns => Phase)

LEMMA SpareIs == IInv => Spare \in Nat /\ (modem.peer => Spare >= 4)
<1> SUFFICES ASSUME IInv PROVE Spare \in Nat /\ (modem.peer => Spare >= 4)
    OBVIOUS
<1> DEFINE a == MaxMessages - messages
           b == MaxSends - sends
<1>1. a \in Nat /\ b \in Nat
    BY LengthsAssumption DEF IInv, Safe, Typed
<1> HIDE DEF a, b
<1>2. 19 * a + 5 * b \in Nat
    BY <1>1
<1> QED BY <1>1, <1>2 DEF Spare, a, b

(* What the handler does with a character of either kind. *)
LEMMA HandlerInput ==
    ASSUME IInv, Fits, GsmInputHandler, ~semGsmCommand, Head(line) # Hash, room > 0
    PROVE  /\ ~semGsmCommand' /\ push' = push + 1 /\ push < MaxLength /\ room' = room - 1
           /\ inputBuffer' = [inputBuffer EXCEPT ![push] = Head(line)]
           /\ commandReceived > 0 \/ Head(line) = EOL_GSM => commandReceived' > 0
<1> USE DEF IInv, Safe
<1>1. TakeInput(Head(line))
    BY DEF GsmInputHandler, InCommand
<1>2. push \in Nat /\ push < MaxLength /\ MaxLength \in Nat /\ room \in Nat
      /\ commandReceived \in Nat
    BY LengthsAssumption DEF Fits, Typed
<1>3. (push + 1) % (MaxLength + 1) = push + 1
    BY <1>2
<1> QED BY <1>1, <1>2, <1>3 DEF TakeInput

LEMMA HandlerText ==
    ASSUME IInv, GsmInputHandler, semGsmCommand \/ Head(line) = Hash
    PROVE  /\ Head(line) = EOL_GSM => semGsmCommand' = FALSE
           /\ Head(line) # EOL_GSM => semGsmCommand' = TRUE
           /\ UNCHANGED <<inputBuffer, push, room>>
<1>1. TakeCommand(Head(line))
    BY DEF GsmInputHandler, InCommand
<1> QED BY <1>1 DEF TakeCommand

(* One more character of the text is in the buffer. *)
LEMMA HalfStep ==
    ASSUME IInv, Fits, GsmInputHandler, ~semGsmCommand, Head(line) # Hash, room > 0,
           NEW text \in Seq(Characters), NEW o \in Nat, Half(text, o)
    PROVE  Half(text, o)'
<1>1. /\ ~semGsmCommand' /\ push' = push + 1 /\ push < MaxLength /\ room' = room - 1
      /\ inputBuffer' = [inputBuffer EXCEPT ![push] = Head(line)]
    BY HandlerInput
<1>2. PICK k \in o .. Len(text) :
        /\ Len(line) = Len(text) - k /\ \A i \in 1 .. Len(line) : line[i] = text[k + i]
        /\ push = k - o /\ \A i \in 1 .. k - o : inputBuffer[i - 1] = text[o + i]
    BY DEF Half
<1> DEFINE T == Tail(line)
<1>3. /\ T \in Seq(Characters) /\ Len(T) = Len(line) - 1
      /\ \A i \in 1 .. Len(T) : T[i] = line[i + 1]
      /\ Head(line) = line[1] /\ Len(line) \in Nat /\ Len(line) >= 1
      /\ line' = T
    BY TailIs DEF GsmInputHandler, IInv, Safe, Typed
<1> HIDE DEF T
<1>4. k \in Nat /\ Len(text) \in Nat /\ k + 1 \in o .. Len(text)
    BY <1>2, <1>3
<1>5. Len(line') = Len(text) - (k + 1)
    <2>1. Len(line') = Len(line) - 1 /\ Len(line) = Len(text) - k
        BY <1>2, <1>3
    <2> QED BY <1>4, <2>1
<1>6. ASSUME NEW i \in 1 .. Len(line') PROVE line'[i] = text[(k + 1) + i]
    <2>1. i + 1 \in 1 .. Len(line) /\ k + (i + 1) = (k + 1) + i
        BY <1>3, <1>4
    <2>2. line'[i] = line[i + 1]
        BY <1>3
    <2>3. line[i + 1] = text[k + (i + 1)]
        BY <1>2, <2>1
    <2> QED BY <2>1, <2>2, <2>3
<1>7. push' = (k + 1) - o
    BY <1>1, <1>2, <1>4
<1>8. ASSUME NEW i \in 1 .. (k + 1) - o PROVE inputBuffer'[i - 1] = text[o + i]
    <2>1. inputBuffer \in [0 .. MaxLength -> Characters] /\ push \in 0 .. MaxLength
        BY DEF IInv, Safe, Typed
    <2>2. CASE i = (k + 1) - o
        <3>1. i - 1 = push /\ o + i = k + 1
            BY <1>2, <1>4, <2>2
        <3>2. inputBuffer'[push] = line[1]
            BY <1>1, <1>3, <2>1
        <3>3. 1 \in 1 .. Len(line)
            BY <1>3
        <3>4. line[1] = text[k + 1]
            BY <1>2, <3>3
        <3> QED BY <3>1, <3>2, <3>4
    <2>3. CASE i # (k + 1) - o
        <3>1. i \in 1 .. k - o /\ i - 1 # push /\ i - 1 \in 0 .. MaxLength
            BY SMTT(30), <1>1, <1>2, <1>4, <2>1, <2>3, LengthsAssumption
        <3>2. inputBuffer'[i - 1] = inputBuffer[i - 1]
            BY <1>1, <2>1, <3>1
        <3> QED BY <1>2, <3>1, <3>2
    <2> QED BY <2>2, <2>3
<1> QED BY <1>4, <1>5, <1>6, <1>7, <1>8 DEF Half

(* A text is said on an idle line. *)
LEMMA HalfStart ==
    ASSUME NEW text \in Seq(Characters), line' = text, push' = 0
    PROVE  Half(text, 0)'
<1>1. 0 \in 0 .. Len(text) /\ Len(text) \in Nat
    OBVIOUS
<1>2. Len(line') = Len(text) - 0 /\ push' = 0 - 0
    BY <1>1
<1>3. \A i \in 1 .. Len(line') : line'[i] = text[0 + i]
    BY <1>1
<1>4. \A i \in 1 .. 0 - 0 : inputBuffer'[i - 1] = text[0 + i]
    OBVIOUS
<1> QED BY <1>1, <1>2, <1>3, <1>4 DEF Half

(* All of it is in the buffer. *)
LEMMA HalfEnd ==
    ASSUME NEW text \in Seq(Characters), NEW o \in Nat, Half(text, o), line = <<>>
    PROVE  \A i \in 1 .. Len(text) - o : inputBuffer[i - 1] = text[o + i]
<1>1. PICK k \in o .. Len(text) :
        /\ Len(line) = Len(text) - k
        /\ \A i \in 1 .. k - o : inputBuffer[i - 1] = text[o + i]
    BY DEF Half
<1>2. k = Len(text)
    <2>1. Len(line) = 0 /\ Len(text) \in Nat
        OBVIOUS
    <2> QED BY <1>1, <2>1
<1> QED BY <1>1, <1>2

LEMMA SpareKept ==
    ASSUME UNCHANGED <<messages, sends>>, modem'.peer = modem.peer
    PROVE  Spare' = Spare
<1> QED BY DEF Spare

(* The handler, where the text on the line is one for _gsmInputBuffer. *)
LEMMA InputTurns ==
    ASSUME IInv, Fits, GsmInputHandler, Indicated \/ HungUp \/ Prompted
    PROVE  Indicated' \/ HungUp' \/ Prompted'
<1> USE DEF IInv, Safe
<1>1. /\ line # <<>> /\ line' = Tail(line)
      /\ UNCHANGED <<pc, then, modem, sent, extracted, count, messages, sends, turns>>
    BY DEF GsmInputHandler, calls, bounds
<1>2. /\ Len(line') = Len(line) - 1 /\ Head(line) = line[1]
      /\ Len(line) \in Nat /\ Len(line) >= 1
      /\ None(line, Hash) => Head(line) # Hash
    BY <1>1, TailIs DEF Typed
<1>3. ~semGsmCommand /\ Head(line) # Hash
    <2>1. pc \notin Reading
        BY DEF Indicated, HungUp, Prompted, Reading
    <2> QED BY <1>2, <2>1 DEF Texts, TextOver
<1>4. Spare \in Nat /\ Spare' = Spare /\ room \in Nat
    BY <1>1, SpareIs, SpareKept, LengthsAssumption DEF Typed
<1>5. ToSay \in Nat /\ ToSay' = ToSay
    BY <1>1 DEF ToSay
<1>6. CASE Indicated
    <2>1. room >= Len(line) + 13 + Spare
        BY <1>6 DEF Indicated, Enough
    <2>2. room > 0
        BY <1>2, <1>4, <2>1
    <2>3. room' = room - 1
        BY <1>3, <2>2, HandlerInput
    <2>4. Enough(Len(line) + 13)'
        <3>1. room' >= Len(line') + 13 + Spare'
            BY <1>2, <1>4, <2>1, <2>3
        <3> QED BY <3>1 DEF Enough
    <2>5. PICK n \in 0 .. 9 : n = Len(modem.pending)
        <3>1. Len(modem.pending) \in Nat /\ Len(modem.pending) <= 9
            BY DEF ModemTyped, MaxWaiting
        <3>2. \A k \in Nat : k <= 9 => k \in 0 .. 9
            OBVIOUS
        <3> QED BY <3>1, <3>2
    <2>6. Half(Indication(n), 0)
        BY <1>6, <2>5 DEF Indicated
    <2>7. Indication(n) \in Seq(Characters) /\ 0 \in Nat
        BY <2>5, IndicationIs
    <2>8. Half(Indication(n), 0)'
        BY <1>3, <2>2, <2>6, <2>7, HalfStep
    <2>9. n = Len(modem'.pending)
        BY <1>1, <2>5
    <2>10. Half(Indication(Len(modem.pending)), 0)'
        BY <2>8, <2>9
    <2> QED BY <1>1, <1>6, <2>4, <2>10 DEF Indicated, Still, Owed
<1>7. CASE HungUp
    <2>1. room >= Len(line) + Spare
        BY <1>7 DEF HungUp, Enough
    <2>2. room > 0
        BY <1>2, <1>4, <2>1
    <2>3. /\ room' = room - 1
          /\ commandReceived > 0 \/ Head(line) = EOL_GSM => commandReceived' > 0
        BY <1>3, <2>2, HandlerInput
    <2>4. Enough(Len(line))'
        <3>1. room' >= Len(line') + Spare'
            BY <1>2, <1>4, <2>1, <2>3
        <3> QED BY <3>1 DEF Enough
    <2>5. ResultCode(3) \in Seq(Characters) /\ Len(ResultCode(3)) = 4
          /\ ResultCode(3)[2] = EOL_GSM
        <3> DEFINE d == Digit(3)
        <3>1. ResultCode(3) \in Seq(Characters) /\ Len(ResultCode(3)) = 4
              /\ ResultCode(3) = <<CR, EOL_GSM, d, CR>>
            BY ResultCodeIs
        <3> HIDE DEF d
        <3> QED BY <3>1
    <2>6. Half(ResultCode(3), 0)
        BY <1>7 DEF HungUp
    <2>7. Half(ResultCode(3), 0)'
        BY <1>3, <2>2, <2>5, <2>6, HalfStep
    <2>8. ASSUME Len(line') <= 2 PROVE commandReceived' > 0
        <3>1. CASE Len(line) <= 2
            BY <1>7, <2>3, <3>1 DEF HungUp
        <3>2. CASE Len(line) = 3
            <4>1. PICK k \in 0 .. Len(ResultCode(3)) :
                    /\ Len(line) = Len(ResultCode(3)) - k
                    /\ \A i \in 1 .. Len(line) : line[i] = ResultCode(3)[k + i]
                BY <2>6 DEF Half
            <4>2. k = 1 /\ 1 \in 1 .. Len(line)
                <5>1. k \in 0 .. 4
                    BY <2>5
                <5>2. 3 = 4 - k
                    <6>1. Len(line) = Len(ResultCode(3)) - k
                        BY <4>1
                    <6> QED BY <2>5, <3>2, <6>1
                <5>3. k = 1
                    BY <5>1, <5>2
                <5> QED BY <3>2, <5>3
            <4>3. line[1] = ResultCode(3)[2]
                BY <4>1, <4>2
            <4> QED BY <1>2, <2>3, <2>5, <4>3
        <3> QED BY <1>2, <2>8, <3>1, <3>2
    <2> QED BY <1>1, <1>7, <2>4, <2>7, <2>8 DEF HungUp, Still, Settled
<1>8. CASE Prompted
    <2>1. room >= Len(line) + ToSay + Spare
        BY <1>8 DEF Prompted, Enough
    <2>2. room > 0
        BY <1>2, <1>4, <1>5, <2>1
    <2>3. room' = room - 1
        BY <1>3, <2>2, HandlerInput
    <2>4. room' >= Len(line') + ToSay' + Spare'
        BY <1>2, <1>4, <1>5, <2>1, <2>3
    <2>5. Enough(Len(line) + ToSay)'
        BY <2>4 DEF Enough
    <2> QED BY <1>1, <1>8, <2>5 DEF Prompted, Settled
<1> QED BY <1>6, <1>7, <1>8

(* The handler, where the answer with the data is on the line. *)
LEMMA AnswerTurns ==
    ASSUME IInv, Fits, GsmInputHandler, Given
    PROVE  Given'
<1> USE DEF IInv, Safe
<1>1. /\ line # <<>> /\ line' = Tail(line)
      /\ UNCHANGED <<pc, then, modem, sent, extracted, count, messages, sends, turns>>
    BY DEF GsmInputHandler, calls, bounds
<1>2. /\ Len(line') = Len(line) - 1 /\ Head(line) = line[1]
      /\ Len(line) \in Nat /\ Len(line) >= 1
      /\ \A i \in 1 .. Len(line') : line'[i] = line[i + 1]
    BY <1>1, TailIs DEF Typed
<1>3. Spare \in Nat /\ Spare' = Spare /\ room \in Nat /\ count \in Nat /\ semGsmCommand \in BOOLEAN
    BY <1>1, SpareIs, SpareKept, LengthsAssumption DEF Typed
<1>4. PICK m \in Seq(Characters) :
        /\ Len(m) = count /\ None(m, Hash) /\ None(m, Nul) /\ sent = extracted \o m
        /\ \/ Beginning(Answer(m)) /\ Enough(count + 4)
           \/ ~semGsmCommand /\ Half(Answer(m), 5) /\ Enough(Len(line))
    BY DEF Given
<1> DEFINE text == Answer(m)
<1>5. /\ text \in Seq(Characters) /\ Len(text) = count + 9
      /\ \A i \in 1 .. Len(text) : text[i] = Hash <=> i = 1
      /\ \A i \in 1 .. 5 : text[i] = EOL_GSM <=> i = 5
    <2>1. Len(m) <= 9
        BY <1>4 DEF Typed
    <2> QED BY <1>4, <2>1, AnswerIs
<1> HIDE DEF text
<1>7. ASSUME Beginning(text), Enough(count + 4)
      PROVE  \/ Beginning(text)' /\ Enough(count + 4)'
             \/ ~semGsmCommand' /\ Half(text, 5)' /\ Enough(Len(line))'
    <2>1. PICK k \in 0 .. 4 :
            /\ Len(line) = Len(text) - k /\ \A i \in 1 .. Len(line) : line[i] = text[k + i]
            /\ push = 0 /\ (semGsmCommand <=> k > 0)
        BY <1>7 DEF Beginning
    <2>2. Head(line) = text[k + 1] /\ k + 1 \in 1 .. 5 /\ k + 1 \in 1 .. Len(text)
        <3>1. 1 \in 1 .. Len(line)
            BY <1>2
        <3>2. line[1] = text[k + 1]
            BY <2>1, <3>1
        <3> QED BY <1>2, <1>3, <1>5, <3>2
    <2>3. semGsmCommand \/ Head(line) = Hash
        <3>1. k = 0 => Head(line) = Hash
            BY <1>5, <2>2
        <3> QED BY <2>1, <3>1
    <2>4. /\ Head(line) = EOL_GSM => semGsmCommand' = FALSE
          /\ Head(line) # EOL_GSM => semGsmCommand' = TRUE
          /\ UNCHANGED <<inputBuffer, push, room>>
        BY <2>3, HandlerText
    <2>5. Len(line') = Len(text) - (k + 1)
        BY <1>2, <1>3, <1>5, <2>1
    <2>6. ASSUME NEW i \in 1 .. Len(line') PROVE line'[i] = text[(k + 1) + i]
        <3>1. i + 1 \in 1 .. Len(line) /\ k + (i + 1) = (k + 1) + i
            BY <1>2, <2>1
        <3>2. line'[i] = line[i + 1] /\ line[i + 1] = text[k + (i + 1)]
            BY <1>2, <2>1, <3>1
        <3> QED BY <3>1, <3>2
    <2>7. Enough(count + 4)'
        <3>1. room >= count + 4 + Spare
            BY <1>7 DEF Enough
        <3>2. room' >= count' + 4 + Spare'
            BY <1>1, <1>3, <2>4, <3>1
        <3> QED BY <3>2 DEF Enough
    <2>8. CASE k = 4
        <3>1. ~semGsmCommand'
            BY <1>5, <2>2, <2>4, <2>8
        <3>2. Len(line') = Len(text) - 5 /\ Len(line') = count + 4
            BY <1>3, <1>5, <2>5, <2>8
        <3>3. \A i \in 1 .. Len(line') : line'[i] = text[5 + i]
            BY <2>6, <2>8
        <3>4. push' = 5 - 5 /\ 5 \in 5 .. Len(text)
            BY <1>3, <1>5, <2>1, <2>4
        <3>5. \A i \in 1 .. 5 - 5 : inputBuffer'[i - 1] = text[5 + i]
            OBVIOUS
        <3>6. Half(text, 5)'
            BY <3>2, <3>3, <3>4, <3>5 DEF Half
        <3>7. Enough(Len(line))'
            BY <1>1, <2>7, <3>2 DEF Enough
        <3> QED BY <3>1, <3>6, <3>7
    <2>9. CASE k # 4
        <3>1. k + 1 \in 0 .. 4 /\ k + 1 > 0 /\ k + 1 # 5
            BY <2>9
        <3>2. semGsmCommand' = TRUE /\ push' = 0
            BY <1>5, <2>1, <2>2, <2>4, <3>1
        <3>3. Beginning(text)'
            BY <2>5, <2>6, <3>1, <3>2 DEF Beginning
        <3> QED BY <2>7, <3>3
    <2> QED BY <2>8, <2>9
<1>8. ASSUME ~semGsmCommand, Half(text, 5), Enough(Len(line))
      PROVE  ~semGsmCommand' /\ Half(text, 5)' /\ Enough(Len(line))'
    <2>1. room >= Len(line) + Spare
        BY <1>8 DEF Enough
    <2>2. room > 0
        BY <1>2, <1>3, <2>1
    <2>3. Head(line) # Hash
        <3>1. PICK k \in 5 .. Len(text) :
                /\ Len(line) = Len(text) - k /\ \A i \in 1 .. Len(line) : line[i] = text[k + i]
            BY <1>8 DEF Half
        <3>2. 1 \in 1 .. Len(line) /\ k + 1 \in 1 .. Len(text) /\ k + 1 # 1
            BY <1>2, <1>3, <1>5, <3>1
        <3>3. line[1] = text[k + 1]
            BY <3>1, <3>2
        <3> QED BY <1>2, <1>5, <3>2, <3>3
    <2>4. ~semGsmCommand' /\ room' = room - 1
        BY <1>8, <2>2, <2>3, HandlerInput
    <2>5. Half(text, 5)'
        BY <1>5, <1>8, <2>2, <2>3, HalfStep
    <2>6. Enough(Len(line))'
        <3>1. room' >= Len(line') + Spare'
            BY <1>2, <1>3, <2>1, <2>4
        <3> QED BY <3>1 DEF Enough
    <2> QED BY <2>4, <2>5, <2>6
<1>9. \/ Beginning(text)' /\ Enough(count + 4)'
      \/ ~semGsmCommand' /\ Half(text, 5)' /\ Enough(Len(line))'
    BY <1>4, <1>7, <1>8 DEF text
<1>10. \E x \in Seq(Characters) :
        /\ Len(x) = count' /\ None(x, Hash) /\ None(x, Nul) /\ sent' = extracted' \o x
        /\ \/ (Beginning(Answer(x)) /\ Enough(count + 4))'
           \/ (~semGsmCommand /\ Half(Answer(x), 5) /\ Enough(Len(line)))'
    <2>1. \/ (Beginning(Answer(m)) /\ Enough(count + 4))'
          \/ (~semGsmCommand /\ Half(Answer(m), 5) /\ Enough(Len(line)))'
        BY <1>9 DEF text
    <2>2. Len(m) = count' /\ sent' = extracted' \o m
        BY <1>1, <1>4
    <2> QED BY <1>4, <2>1, <2>2
<1>11. pc' \in {"wait", "copy"} /\ modem'.at = "command" /\ modem'.pending = <<>>
    BY <1>1 DEF Given
<1> QED BY <1>10, <1>11 DEF Given

LEMMA HandlerTurns == IInv /\ Fits /\ Phase /\ GsmInputHandler => Phase'
<1> SUFFICES ASSUME IInv, Fits, Phase, GsmInputHandler PROVE Phase'
    OBVIOUS
<1>1. line # <<>>
    BY DEF GsmInputHandler
<1>2. Indicated \/ Given \/ Prompted \/ HungUp
    BY <1>1 DEF Phase, Silent, Asking, Asked, Copied, Sending, Resetting
<1>3. CASE Given
    BY <1>3, AnswerTurns DEF Phase
<1>4. CASE Indicated \/ HungUp \/ Prompted
    <2>1. Indicated' \/ HungUp' \/ Prompted'
        BY <1>4, InputTurns
    <2> QED BY <2>1 DEF Phase
<1> QED BY <1>2, <1>3, <1>4

(* What a step of the reset leaves alone, and where it leads. *)
LEMMA ResettingKept ==
    ASSUME IInv, ResetSteps, NEW next \in {"idle", "ask", "return", "askPrompt"}, Resetting(next)
    PROVE  Resetting(next)'
<1> USE DEF IInv, Safe
<1>1. /\ pc \in Resets /\ then = next /\ line = <<>> /\ ~semGsmCommand /\ Still
      /\ pc \in {"zeroPush", "zeroCommandPush"} => commandReceived = 0
      /\ pc = "zeroCommandPush" => push = 0
    BY DEF ResetSteps, ClearBuffer, ZeroReceived, ZeroPush, ZeroCommandPush, Resetting, Resets
<1>2. UNCHANGED <<line, semGsmCommand, modem, then>>
    BY DEF ResetSteps, ClearBuffer, ZeroReceived, ZeroPush, ZeroCommandPush, Goto, Elsewhere
<1>3. line' = <<>> /\ ~semGsmCommand' /\ Still' /\ then' = next
    BY <1>1, <1>2 DEF Still
<1>4. CASE ClearBuffer
    <2>1. pc' = "zeroReceived"
        BY <1>4 DEF ClearBuffer, Goto
    <2> QED BY <1>3, <2>1 DEF Resetting, Resets
<1>5. CASE ZeroReceived
    <2>1. pc' = "zeroPush" /\ commandReceived' = 0
        BY <1>5 DEF ZeroReceived, Goto
    <2> QED BY <1>3, <2>1 DEF Resetting, Resets
<1>6. CASE ZeroPush
    <2>1. pc' = "zeroCommandPush" /\ push' = 0 /\ commandReceived' = 0
        BY <1>1, <1>6 DEF ZeroPush, Goto
    <2> QED BY <1>3, <2>1 DEF Resetting, Resets
<1>7. CASE ZeroCommandPush
    <2>1. pc' = next /\ push' = 0 /\ commandReceived' = 0
        BY <1>1, <1>7 DEF ZeroCommandPush, Goto
    <2> QED BY <1>3, <2>1 DEF Resetting
<1> QED BY <1>4, <1>5, <1>6, <1>7 DEF ResetSteps

LEMMA ResetTurns == IInv /\ Phase /\ ResetSteps => Phase'
<1> SUFFICES ASSUME IInv, Phase, ResetSteps PROVE Phase'
    OBVIOUS
<1>1. pc \in Resets
    BY DEF ResetSteps, ClearBuffer, ZeroReceived, ZeroPush, ZeroCommandPush, Resets
<1>2. UNCHANGED <<modem, sent, extracted, count, receivedData, room, messages, sends>>
    BY DEF ResetSteps, ClearBuffer, ZeroReceived, ZeroPush, ZeroCommandPush, Elsewhere, calls, bounds
<1>3. Spare' = Spare
    BY <1>2, SpareKept
<1>4. (Settled <=> Settled') /\ (Owed <=> Owed')
    BY <1>2 DEF Settled, Owed
<1>5. (Enough(0) <=> Enough(0)') /\ (Enough(5) <=> Enough(5)') /\ (Enough(13) <=> Enough(13)')
    BY <1>2, <1>3 DEF Enough
<1>6. CASE Silent
    <2>1. Resetting("idle")'
        BY <1>6, ResettingKept DEF Silent
    <2> QED BY <1>4, <1>5, <1>6, <2>1 DEF Silent, Phase
<1>7. CASE Asking
    <2>1. Resetting("ask")'
        BY <1>7, ResettingKept DEF Asking
    <2> QED BY <1>2, <1>4, <1>5, <1>7, <2>1 DEF Asking, Phase
<1>8. CASE Copied
    <2>1. Resetting("return")
        BY <1>1, <1>8 DEF Copied, Resets
    <2>2. Resetting("return")'
        BY <2>1, ResettingKept
    <2> QED BY <1>2, <1>5, <1>8, <2>2 DEF Copied, Phase
<1>9. CASE Sending
    <2>1. Resetting("askPrompt")'
        BY <1>9, ResettingKept DEF Sending
    <2> QED BY <1>4, <1>5, <1>9, <2>1 DEF Sending, Phase
<1>10. Silent \/ Asking \/ Copied \/ Sending
    BY <1>1 DEF Phase, Indicated, Asked, Given, Prompted, HungUp, Resets
<1> QED BY <1>6, <1>7, <1>8, <1>9, <1>10

(* A reset begins. *)
LEMMA ResetBegins ==
    ASSUME NEW next, next \notin Resets, Reset(next), line' = <<>>, ~semGsmCommand', Still'
    PROVE  Resetting(next)'
<1>1. pc' = "clear" /\ then' = next
    BY DEF Reset
<1>2. pc' \notin {"zeroPush", "zeroCommandPush", next}
    BY <1>1 DEF Resets
<1> QED BY <1>1, <1>2 DEF Resetting, Resets

(* gsmExtractReceivedData begins: the line it has seen is an indication or *)
(* the end of the connection.                                              *)
LEMMA ExtractTurns == IInv /\ Phase /\ Extract => Phase'
<1> SUFFICES ASSUME IInv, Phase, Extract PROVE Phase'
    OBVIOUS
<1>1. pc = "idle" /\ commandReceived > 0 /\ pc' = "parse"
    BY DEF Extract, Goto
<1>2. UNCHANGED <<line, inputBuffer, push, commandReceived, room, modem, sent, extracted,
                  messages, sends>>
    BY DEF Extract, Elsewhere, received, bounds
<1>3. Spare' = Spare
    BY <1>2, SpareKept
<1>4. Indicated \/ HungUp
    BY <1>1 DEF Phase, Silent, Asking, Asked, Given, Copied, Sending, Prompted, Resetting, Resets,
                IInv, Typed
<1>5. CASE Indicated
    <2>1. Half(Indication(Len(modem.pending)), 0)'
        BY <1>2, <1>5 DEF Indicated, Half
    <2>2. Enough(Len(line) + 13)'
        BY <1>2, <1>3, <1>5 DEF Indicated, Enough
    <2> QED BY <1>1, <1>2, <1>5, <2>1, <2>2 DEF Indicated, Still, Owed, Phase
<1>6. CASE HungUp
    <2>1. Half(ResultCode(3), 0)'
        BY <1>2, <1>6 DEF HungUp, Half
    <2>2. Enough(Len(line))'
        BY <1>2, <1>3, <1>6 DEF HungUp, Enough
    <2> QED BY <1>1, <1>2, <1>6, <2>1, <2>2 DEF HungUp, Still, Settled, Phase
<1> QED BY <1>4, <1>5, <1>6

LEMMA ParseTurns == IInv /\ Phase /\ Parse => Phase'
<1> SUFFICES ASSUME IInv, Phase, Parse PROVE Phase'
    OBVIOUS
<1> USE DEF IInv, Safe
<1>1. pc = "parse" /\ line = <<>> /\ Still /\ count' = CountIn(inputBuffer)
    BY DEF Parse, Delayed, Still
<1>2. UNCHANGED <<line, inputBuffer, push, commandReceived, semGsmCommand, room, modem, sent,
                  extracted, messages, sends>>
    BY DEF Parse, Elsewhere, received, bounds
<1>3. Spare' = Spare
    BY <1>2, SpareKept
<1>4. ~semGsmCommand
    <2>1. pc \notin Reading
        BY <1>1 DEF Reading
    <2> QED BY <2>1 DEF Texts, TextOver
<1>5. Len(line) = 0
    BY <1>1
<1>6. Indicated \/ HungUp
    BY <1>1 DEF Phase, Silent, Asking, Asked, Given, Copied, Sending, Prompted, Resetting, Resets
<1>7. CASE Indicated
    <2>1. PICK n \in 0 .. 9 : n = Len(modem.pending)
        <3>1. Len(modem.pending) \in Nat /\ Len(modem.pending) <= 9
            BY DEF ModemTyped, MaxWaiting
        <3>2. \A k \in Nat : k <= 9 => k \in 0 .. 9
            OBVIOUS
        <3> QED BY <3>1, <3>2
    <2>2. n # 0
        BY <1>7, <2>1 DEF Indicated, Owed, ModemTyped
    <2>3. /\ Indication(n) \in Seq(Characters) /\ Len(Indication(n)) = 6
          /\ Indication(n)[4] = Digit(n) /\ 0 \in Nat
        BY <2>1, IndicationIs
    <2>4. Half(Indication(n), 0)
        BY <1>7, <2>1 DEF Indicated
    <2>5. \A i \in 1 .. Len(Indication(n)) - 0 : inputBuffer[i - 1] = Indication(n)[0 + i]
        BY <1>1, <2>3, <2>4, HalfEnd
    <2>6. inputBuffer[3] = Digit(n)
        <3>1. 4 \in 1 .. Len(Indication(n)) - 0 /\ 4 - 1 = 3 /\ 0 + 4 = 4
            BY <2>3
        <3>2. inputBuffer[4 - 1] = Indication(n)[0 + 4]
            BY <2>5, <3>1
        <3> QED BY <2>3, <3>1, <3>2
    <2>7. count' = n
        BY <1>1, <2>6, DigitIs DEF CountIn
    <2>8. Reset("ask")
        BY <2>2, <2>7 DEF Parse
    <2>9. Resetting("ask")'
        <3>1. line' = <<>> /\ ~semGsmCommand' /\ Still'
            BY <1>1, <1>2, <1>4 DEF Still
        <3>2. "ask" \notin Resets
            BY DEF Resets
        <3> QED BY <2>8, <3>1, <3>2, ResetBegins
    <2>10. Enough(13)'
        <3>1. room >= Len(line) + 13 + Spare
            BY <1>7 DEF Indicated, Enough
        <3> QED BY <1>2, <1>3, <1>5, <3>1 DEF Enough
    <2>11. Owed' /\ count' = Len(modem'.pending)
        BY <1>2, <1>7, <2>1, <2>7 DEF Indicated, Owed
    <2> QED BY <2>9, <2>10, <2>11 DEF Asking, Phase
<1>8. CASE HungUp
    <2> DEFINE d == Digit(3)
    <2>1. /\ ResultCode(3) \in Seq(Characters) /\ Len(ResultCode(3)) = 4
          /\ ResultCode(3) = <<CR, EOL_GSM, d, CR>> /\ 0 \in Nat
        BY ResultCodeIs
    <2> HIDE DEF d
    <2>2. Half(ResultCode(3), 0)
        BY <1>8 DEF HungUp
    <2>3. \A i \in 1 .. Len(ResultCode(3)) - 0 : inputBuffer[i - 1] = ResultCode(3)[0 + i]
        BY <1>1, <2>1, <2>2, HalfEnd
    <2>4. \A i \in 1 .. 4 : inputBuffer[i - 1] = ResultCode(3)[i]
        BY <2>1, <2>3
    <2>5. /\ inputBuffer[0] = CR /\ inputBuffer[1] = EOL_GSM /\ inputBuffer[2] = d
          /\ inputBuffer[3] = CR
        <3>1. /\ inputBuffer[1 - 1] = ResultCode(3)[1] /\ inputBuffer[2 - 1] = ResultCode(3)[2]
              /\ inputBuffer[3 - 1] = ResultCode(3)[3] /\ inputBuffer[4 - 1] = ResultCode(3)[4]
            BY <2>4
        <3> QED BY <2>1, <3>1
    <2>6. count' = 0
        BY <1>1, <2>5, Kinds DEF CountIn
    <2>7. NoCarrier(inputBuffer)
        BY <2>5 DEF NoCarrier, d
    <2>8. pc' = "idle"
        BY <2>6, <2>7 DEF Parse, Goto
    <2>9. Half(ResultCode(3), 0)'
        BY <1>2, <2>2 DEF Half
    <2>10. Enough(Len(line))'
        BY <1>2, <1>3, <1>8 DEF HungUp, Enough
    <2> QED BY <1>2, <1>8, <2>8, <2>9, <2>10 DEF HungUp, Still, Settled, Phase
<1> QED BY <1>6, <1>7, <1>8

LEMMA AskTurns == IInv /\ Phase /\ (AskForData \/ AskForPrompt) => Phase'
<1> SUFFICES ASSUME IInv, Phase, AskForData \/ AskForPrompt PROVE Phase'
    OBVIOUS
<1> USE DEF IInv, Safe
<1>1. UNCHANGED <<line, push, commandReceived, room, sent, extracted, count, messages, sends>>
    BY DEF AskForData, AskForPrompt, received, calls, bounds
<1>2. modem'.peer = modem.peer /\ modem'.pending = modem.pending
    BY DEF AskForData, AskForPrompt, ModemTyped
<1>3. Spare' = Spare
    BY <1>1, <1>2, SpareKept
<1>4. CASE AskForData
    <2>1. pc = "ask" /\ pc' = "wait"
        BY <1>4 DEF AskForData, Goto
    <2>2. Asking
        BY <2>1 DEF Phase, Silent, Indicated, Asked, Given, Copied, Sending, Prompted, HungUp,
                    Resetting, Resets
    <2>3. line = <<>> /\ commandReceived = 0 /\ push = 0 /\ Owed
          /\ count = Len(modem.pending) /\ Enough(13)
        BY <2>1, <2>2 DEF Asking, Resetting
    <2>4. modem'.at = "receive" /\ modem'.count = count
        BY <1>4 DEF AskForData, ModemTyped
    <2>5. Enough(13)'
        BY <1>1, <1>3, <2>3 DEF Enough
    <2> QED BY <1>1, <1>2, <2>1, <2>3, <2>4, <2>5 DEF Asked, Owed, Phase
<1>5. CASE AskForPrompt
    <2>1. pc = "askPrompt" /\ pc' = "prompt"
        BY <1>5 DEF AskForPrompt, Goto
    <2>2. Sending
        BY <2>1 DEF Phase, Silent, Indicated, Asking, Asked, Given, Copied, Prompted, HungUp,
                    Resetting, Resets
    <2>3. line = <<>> /\ Settled /\ room >= 5 + Spare
        BY <2>2 DEF Sending, Resetting, Enough
    <2>4. modem'.at = "send"
        BY <1>5 DEF AskForPrompt, ModemTyped
    <2>5. ToSay' = 5 /\ Len(line') = 0
        BY <1>1, <2>3, <2>4 DEF ToSay
    <2>6. room' >= Len(line') + ToSay' + Spare'
        BY <1>1, <1>3, <2>3, <2>5
    <2>7. Enough(Len(line) + ToSay)'
        BY <2>6 DEF Enough
    <2> QED BY <1>1, <1>2, <2>1, <2>3, <2>7 DEF Prompted, Settled, Phase
<1> QED BY <1>4, <1>5

LEMMA AnsweredTurns == IInv /\ Phase /\ Answered => Phase'
<1> SUFFICES ASSUME IInv, Phase, Answered PROVE Phase'
    OBVIOUS
<1>1. pc = "wait" /\ commandReceived > 0 /\ pc' = "copy"
    BY DEF Answered, Goto
<1>2. UNCHANGED <<line, inputBuffer, push, semGsmCommand, room, modem, sent, extracted, count,
                  messages, sends>>
    BY DEF Answered, Elsewhere, received, calls, bounds
<1>3. Given
    BY <1>1 DEF Phase, Silent, Indicated, Asking, Asked, Copied, Sending, Prompted, HungUp,
                Resetting, Resets, IInv, Typed
<1>4. Spare' = Spare
    BY <1>2, SpareKept
<1>5. PICK m \in Seq(Characters) :
        /\ Len(m) = count /\ None(m, Hash) /\ None(m, Nul) /\ sent = extracted \o m
        /\ \/ Beginning(Answer(m)) /\ Enough(count + 4)
           \/ ~semGsmCommand /\ Half(Answer(m), 5) /\ Enough(Len(line))
    BY <1>3 DEF Given
<1> DEFINE text == Answer(m)
<1>6. \/ Beginning(text) /\ Enough(count + 4)
      \/ ~semGsmCommand /\ Half(text, 5) /\ Enough(Len(line))
    BY <1>5
<1> HIDE DEF text
<1>7. (Beginning(text) => Beginning(text)') /\ (Half(text, 5) => Half(text, 5)')
    BY <1>2 DEF Beginning, Half
<1>8. (Enough(count + 4) => Enough(count + 4)') /\ (Enough(Len(line)) => Enough(Len(line))')
    BY <1>2, <1>4 DEF Enough
<1>9. \E x \in Seq(Characters) :
        /\ Len(x) = count' /\ None(x, Hash) /\ None(x, Nul) /\ sent' = extracted' \o x
        /\ \/ (Beginning(Answer(x)) /\ Enough(count + 4))'
           \/ (~semGsmCommand /\ Half(Answer(x), 5) /\ Enough(Len(line)))'
    <2>1. \/ (Beginning(text) /\ Enough(count + 4))'
          \/ (~semGsmCommand /\ Half(text, 5) /\ Enough(Len(line)))'
        BY <1>2, <1>6, <1>7, <1>8
    <2>2. \/ (Beginning(Answer(m)) /\ Enough(count + 4))'
          \/ (~semGsmCommand /\ Half(Answer(m), 5) /\ Enough(Len(line)))'
        BY <2>1 DEF text
    <2>3. Len(m) = count' /\ sent' = extracted' \o m
        BY <1>2, <1>5
    <2> QED BY <1>5, <2>2, <2>3
<1>10. pc' \in {"wait", "copy"} /\ modem'.at = "command" /\ modem'.pending = <<>>
    BY <1>1, <1>2, <1>3 DEF Given
<1> QED BY <1>9, <1>10 DEF Given, Phase

(* The data of the answer is in the buffer, and nothing else of it. *)
LEMMA CopyTurns == IInv /\ Phase /\ CopyData => Phase'
<1> SUFFICES ASSUME IInv, Phase, CopyData PROVE Phase'
    OBVIOUS
<1> USE DEF IInv, Safe
<1>1. /\ pc = "copy" /\ line = <<>> /\ Still /\ pc' = "settle"
      /\ receivedData' = [i \in 1 .. count |-> inputBuffer[i - 1]]
    BY DEF CopyData, Delayed, Still, Goto
<1>2. UNCHANGED <<line, semGsmCommand, room, modem, sent, extracted, messages, sends>>
    BY DEF CopyData, Elsewhere, received, bounds
<1>3. Given
    BY <1>1 DEF Phase, Silent, Indicated, Asking, Asked, Copied, Sending, Prompted, HungUp,
                Resetting, Resets
<1>4. Spare' = Spare
    BY <1>2, SpareKept
<1>5. PICK m \in Seq(Characters) :
        /\ Len(m) = count /\ None(m, Hash) /\ None(m, Nul) /\ sent = extracted \o m
        /\ \/ Beginning(Answer(m)) /\ Enough(count + 4)
           \/ ~semGsmCommand /\ Half(Answer(m), 5) /\ Enough(Len(line))
    BY <1>3 DEF Given
<1> DEFINE text == Answer(m)
<1>6. /\ text \in Seq(Characters) /\ Len(text) = count + 9
      /\ \A i \in 1 .. Len(m) : text[5 + i] = m[i]
    <2>1. Len(m) <= 9
        BY <1>5 DEF Typed
    <2> QED BY <1>5, <2>1, AnswerIs
<1> HIDE DEF text
<1>7. Len(line) = 0 /\ count \in Nat
    BY <1>1 DEF Typed
<1>8. ~Beginning(text)
    BY <1>6, <1>7 DEF Beginning
<1>9. ~semGsmCommand /\ Half(text, 5) /\ Enough(Len(line))
    BY <1>5, <1>8 DEF text
<1>10. \A i \in 1 .. Len(text) - 5 : inputBuffer[i - 1] = text[5 + i]
    <2>1. 5 \in Nat
        OBVIOUS
    <2> QED BY <1>1, <1>6, <1>9, <2>1, HalfEnd
<1>11. receivedData' = m
    <2>1. \A i \in 1 .. count : inputBuffer[i - 1] = m[i]
        <3> SUFFICES ASSUME NEW i \in 1 .. count PROVE inputBuffer[i - 1] = m[i]
            OBVIOUS
        <3>1. i \in 1 .. Len(text) - 5
            BY <1>6, <1>7
        <3> QED BY <1>5, <1>6, <1>10, <3>1
    <2>2. m = [i \in 1 .. count |-> m[i]]
        BY <1>5
    <2> QED BY <1>1, <2>1, <2>2
<1>12. Enough(0)'
    BY <1>2, <1>4, <1>7, <1>9 DEF Enough
<1>13. modem'.pending = <<>> /\ Still' /\ line' = <<>> /\ ~semGsmCommand'
    BY <1>1, <1>2, <1>3, <1>9 DEF Given, Still
<1> QED BY <1>1, <1>2, <1>5, <1>11, <1>12, <1>13 DEF Copied, Phase

LEMMA SettleTurns == IInv /\ Phase /\ Settle => Phase'
<1> SUFFICES ASSUME IInv, Phase, Settle PROVE Phase'
    OBVIOUS
<1>1. pc = "settle" /\ Reset("return")
    BY DEF Settle
<1>2. UNCHANGED <<line, semGsmCommand, room, modem, sent, extracted, receivedData, messages,
                  sends>>
    BY DEF Settle, Elsewhere, received, calls, bounds
<1>3. Copied /\ line = <<>> /\ ~semGsmCommand /\ Still
    BY <1>1 DEF Phase, Silent, Indicated, Asking, Asked, Given, Copied, Sending, Prompted, HungUp,
                Resetting, Resets
<1>4. Spare' = Spare
    BY <1>2, SpareKept
<1>5. Resetting("return")'
    <2>1. "return" \notin Resets
        BY DEF Resets
    <2>2. line' = <<>> /\ ~semGsmCommand' /\ Still'
        BY <1>2, <1>3 DEF Still
    <2> QED BY <1>1, <2>1, <2>2, ResetBegins
<1>6. Enough(0)'
    BY <1>2, <1>3, <1>4 DEF Copied, Enough
<1> QED BY <1>2, <1>3, <1>5, <1>6 DEF Copied, Phase

LEMMA ReturnTurns == IInv /\ Phase /\ Return => Phase'
<1> SUFFICES ASSUME IInv, Phase, Return PROVE Phase'
    OBVIOUS
<1>1. pc = "return" /\ pc' = "idle" /\ extracted' = extracted \o UpToNul(receivedData)
    BY DEF Return, Goto
<1>2. UNCHANGED <<line, push, commandReceived, semGsmCommand, room, modem, sent, messages, sends>>
    BY DEF Return, Elsewhere, received, bounds
<1>3. Copied /\ Resetting("return")
    BY <1>1 DEF Phase, Silent, Indicated, Asking, Asked, Given, Copied, Sending, Prompted, HungUp,
                Resetting, Resets
<1>4. UpToNul(receivedData) = receivedData
    <2>1. Nul \notin ToSet(receivedData)
        <3>1. receivedData \in Seq(Characters) /\ None(receivedData, Nul)
            BY <1>3 DEF Copied, IInv, Safe, Typed
        <3> QED BY <3>1 DEF ToSet, None
    <2> QED BY <2>1 DEF UpToNul
<1>5. Spare' = Spare
    BY <1>2, SpareKept
<1>6. Settled'
    BY <1>1, <1>2, <1>3, <1>4 DEF Settled, Copied
<1>7. Resetting("idle")'
    BY <1>1, <1>2, <1>3 DEF Resetting, Still
<1>8. Enough(0)'
    BY <1>2, <1>3, <1>5 DEF Copied, Enough
<1> QED BY <1>6, <1>7, <1>8 DEF Silent, Phase

LEMMA QuietIsSilent == Phase /\ Quiet => Silent
<1> SUFFICES ASSUME Phase, Quiet PROVE Silent
    OBVIOUS
<1>1. pc = "idle" /\ line = <<>> /\ commandReceived = 0 /\ modem.pending = <<>>
    BY DEF Quiet
<1>2. ~HungUp
    <2>1. Len(line) <= 2
        BY <1>1
    <2> QED BY <1>1, <2>1 DEF HungUp
<1> QED BY <1>1, <1>2 DEF Phase, Indicated, Owed, Asking, Asked, Given, Copied, Sending, Prompted,
                          Resetting, Resets

(* gsmSSEND begins, and ends after its text. *)
LEMMA SendTurns == IInv /\ turns /\ Phase /\ (Send \/ WriteText \/ TextSent) => Phase'
<1> SUFFICES ASSUME IInv, turns, Phase, Send \/ WriteText \/ TextSent PROVE Phase'
    OBVIOUS
<1> USE DEF IInv, Safe
<1>1. UNCHANGED <<line, semGsmCommand, room, sent, extracted, messages>>
    BY DEF Send, WriteText, TextSent, Elsewhere, received, calls, bounds
<1>2. CASE Send
    <2>1. Silent /\ line = <<>>
        BY <1>2, QuietIsSilent DEF Send, MaySpeak, Quiet
    <2>2. Reset("askPrompt") /\ modem' = modem /\ sends' = sends + 1
        BY <1>2 DEF Send
    <2>3. Resetting("askPrompt")'
        <3>1. line' = <<>> /\ ~semGsmCommand' /\ Still' /\ "askPrompt" \notin Resets
            BY <1>1, <2>1, <2>2 DEF Silent, Resetting, Still, Resets
        <3> QED BY <2>2, <3>1, ResetBegins
    <2>4. Enough(5)'
        <3> DEFINE p == IF modem.peer THEN 4 ELSE 0
        <3>1. p \in Nat /\ p' = p
            BY <2>2
        <3> HIDE DEF p
        <3>2. room >= 19 * (MaxMessages - messages) + 5 * (MaxSends - sends) + p
            <4>1. room >= 0 + Spare
                BY <2>1 DEF Silent, Enough
            <4>2. Spare \in Nat
                BY SpareIs
            <4> QED BY <4>1, <4>2 DEF Spare, p
        <3>3. /\ MaxMessages \in Nat /\ messages \in Nat /\ MaxSends \in Nat /\ sends \in Nat
              /\ room \in Nat
            BY LengthsAssumption DEF Typed
        <3>4. room >= 5 + (19 * (MaxMessages - messages) + 5 * (MaxSends - (sends + 1)) + p)
            BY <3>1, <3>2, <3>3
        <3>5. Spare' = 19 * (MaxMessages - messages) + 5 * (MaxSends - (sends + 1)) + p
            BY <1>1, <2>2 DEF Spare, p
        <3> QED BY <1>1, <3>4, <3>5 DEF Enough
    <2> QED BY <1>1, <2>1, <2>2, <2>3, <2>4 DEF Silent, Sending, Settled, Phase
<1>3. CASE WriteText \/ TextSent
    <2>1. pc \in {"prompt", "sendWait"} /\ line = <<>> /\ Still
        BY <1>3 DEF WriteText, TextSent, Delayed, Still
    <2>2. Prompted
        BY <2>1 DEF Phase, Silent, Indicated, Asking, Asked, Given, Copied, Sending, HungUp,
                    Resetting, Resets
    <2>3. ~semGsmCommand
        <3>1. pc \notin Reading
            BY <2>1 DEF Reading
        <3> QED BY <3>1 DEF Texts, TextOver
    <2>4. sends' = sends /\ modem'.peer = modem.peer /\ modem'.pending = modem.pending
        BY <1>3 DEF WriteText, TextSent, Elsewhere, bounds, ModemTyped
    <2>5. Spare' = Spare /\ Spare \in Nat /\ room \in Nat /\ Len(line) = 0
        BY <1>1, <2>1, <2>4, SpareKept, SpareIs DEF Typed
    <2>6. ToSay \in Nat
        BY DEF ToSay
    <2>7. room >= Len(line) + ToSay + Spare
        BY <2>2 DEF Prompted, Enough
    <2>8. Settled'
        BY <1>1, <2>2, <2>4 DEF Prompted, Settled
    <2>9. CASE pc' = "sendWait"
        <3>1. ToSay' = ToSay
            <4>1. WriteText
                BY <1>3, <2>9 DEF TextSent, Reset
            <4>2. modem' = [modem EXCEPT !.at = IF modem.at = "prompting" THEN "text" ELSE modem.at]
                BY <2>9, <4>1 DEF WriteText, Reset
            <4>3. modem'.at = IF modem.at = "prompting" THEN "text" ELSE modem.at
                BY <4>2 DEF ModemTyped
            <4> QED BY <4>3 DEF ToSay
        <3>2. Enough(Len(line) + ToSay)'
            BY <1>1, <2>5, <2>7, <3>1 DEF Enough
        <3> QED BY <2>8, <2>9, <3>2 DEF Prompted, Phase
    <2>10. CASE pc' # "sendWait"
        <3>1. Reset("idle") /\ modem' = modem
            BY <1>3, <2>10 DEF WriteText, TextSent, Goto, Elsewhere
        <3>2. Resetting("idle")'
            <4>1. line' = <<>> /\ ~semGsmCommand' /\ Still' /\ "idle" \notin Resets
                BY <1>1, <2>1, <2>3, <3>1 DEF Still, Resets
            <4> QED BY <3>1, <4>1, ResetBegins
        <3>3. Enough(0)'
            <4>1. room >= 0 + Spare
                BY <2>5, <2>6, <2>7
            <4> QED BY <1>1, <2>5, <4>1 DEF Enough
        <3> QED BY <2>8, <3>2, <3>3 DEF Silent, Phase
    <2> QED BY <2>9, <2>10
<1> QED BY <1>2, <1>3

(* The modem gives what it was asked for. *)
LEMMA GiveTurns == IInv /\ Phase /\ GiveData => Phase'
<1> SUFFICES ASSUME IInv, Phase, GiveData PROVE Phase'
    OBVIOUS
<1> USE DEF IInv, Safe
<1>1. modem.at = "receive" /\ pc \in {"wait", "copy"} /\ ~semGsmCommand
    BY DEF GiveData, Texts, TextOver, Prompts
<1>2. Asked
    BY <1>1 DEF Phase, Silent, Indicated, Asking, Given, Copied, Sending, Prompted, HungUp,
                Resetting, Resets, Still
<1>3. /\ UNCHANGED <<push, semGsmCommand, room, pc, sent, extracted, count, messages, sends>>
      /\ modem'.peer = modem.peer /\ modem'.at = "command"
    BY DEF GiveData, received, calls, bounds, ModemTyped
<1>4. Spare' = Spare /\ Spare \in Nat /\ room \in Nat
    BY <1>3, SpareKept, SpareIs DEF Typed
<1>5. PICK m \in Seq(Characters) : m = modem.pending
    BY DEF ModemTyped
<1>6. /\ m # <<>> /\ Len(m) = count /\ None(m, Hash) /\ None(m, Nul) /\ sent = extracted \o m
      /\ modem.count = Len(m) /\ Len(m) \in Nat /\ Len(m) <= 9 /\ Len(m) # 0
      /\ line = <<>> /\ push = 0 /\ room >= 13 + Spare
    BY <1>2, <1>5 DEF Asked, Owed, Enough, ModemTyped, Texts, MaxWaiting
<1>7. /\ modem' = [modem EXCEPT !.at = "command", !.pending = SubSeq(m, Len(m) + 1, Len(m))]
      /\ line' = line \o (AnswerText(Len(m)) \o SubSeq(m, 1, Len(m)) \o ResultCode(0))
    <2>1. (IF modem.count < Len(modem.pending) THEN modem.count ELSE Len(modem.pending)) = Len(m)
        BY <1>5, <1>6
    <2> QED BY <1>5, <1>6, <2>1 DEF GiveData, Says, AnswerText
<1>8. SubSeq(m, Len(m) + 1, Len(m)) = <<>> /\ SubSeq(m, 1, Len(m)) = m
    BY <1>6
<1>9. modem'.pending = <<>>
    BY <1>7, <1>8 DEF ModemTyped
<1> DEFINE text == Answer(m)
<1>10. text \in Seq(Characters) /\ Len(text) = Len(m) + 9
    BY <1>6, AnswerIs
<1>11. line' = text
    <2>1. line' = line \o text
        BY <1>7, <1>8 DEF Answer
    <2> HIDE DEF text
    <2> QED BY <1>6, <1>10, <2>1
<1> HIDE DEF text
<1>12. Beginning(text)'
    <2>1. Len(line') = Len(text) - 0 /\ 0 \in 0 .. 4
        BY <1>6, <1>10, <1>11
    <2>2. \A i \in 1 .. Len(line') : line'[i] = text[0 + i]
        BY <1>10, <1>11
    <2>3. push' = 0 /\ (semGsmCommand' <=> 0 > 0)
        BY <1>1, <1>3, <1>6
    <2> QED BY <2>1, <2>2, <2>3 DEF Beginning
<1>13. Enough(count + 4)'
    <2>1. room >= (count + 4) + Spare
        BY <1>4, <1>6
    <2> QED BY <1>3, <1>4, <2>1 DEF Enough
<1>14. \E x \in Seq(Characters) :
        /\ Len(x) = count' /\ None(x, Hash) /\ None(x, Nul) /\ sent' = extracted' \o x
        /\ \/ (Beginning(Answer(x)) /\ Enough(count + 4))'
           \/ (~semGsmCommand /\ Half(Answer(x), 5) /\ Enough(Len(line)))'
    <2>1. (Beginning(Answer(m)) /\ Enough(count + 4))'
        BY <1>12, <1>13 DEF text
    <2> QED BY <1>3, <1>5, <1>6, <2>1
<1> QED BY <1>1, <1>3, <1>9, <1>14 DEF Given, Phase

LEMMA PromptTurns == IInv /\ Phase /\ (GivePrompt \/ TakeText) => Phase'
<1> SUFFICES ASSUME IInv, Phase, GivePrompt \/ TakeText PROVE Phase'
    OBVIOUS
<1> USE DEF IInv, Safe
<1>1. modem.at \in {"send", "text"}
    BY DEF GivePrompt, TakeText
<1>2. Prompted
    BY <1>1 DEF Phase, Silent, Indicated, Asking, Asked, Given, Copied, Sending, HungUp,
                Resetting, Resets, Still
<1>3. UNCHANGED <<pc, room, sent, extracted, messages, sends>>
    BY DEF GivePrompt, TakeText, received, calls, bounds
<1>4. /\ modem'.peer = modem.peer /\ modem'.pending = modem.pending
      /\ \/ modem.at = "send" /\ modem'.at = "prompting"
            /\ line' = line \o <<CR, EOL_GSM, Char(">")>>
         \/ modem'.at = "command" /\ \E code \in {0, 4} : line' = line \o <<Digit(code), CR>>
    <2>1. CASE GivePrompt
        <3>1. 4 \in {0, 4}
            OBVIOUS
        <3> QED BY <2>1, <3>1 DEF GivePrompt, Says, ModemTyped
    <2>2. CASE TakeText
        BY <2>2 DEF TakeText, Says, ModemTyped
    <2> QED BY <2>1, <2>2
<1>5. Spare' = Spare /\ Spare \in Nat /\ room \in Nat
    BY <1>3, <1>4, SpareKept, SpareIs DEF Typed
<1>6. room >= Len(line) + ToSay + Spare /\ Len(line) \in Nat /\ line \in Seq(Characters)
    BY <1>2 DEF Prompted, Enough, Typed
<1>7. Len(line') + ToSay' <= Len(line) + ToSay /\ Len(line') \in Nat /\ ToSay' \in Nat
      /\ ToSay \in Nat
    <2>1. CASE modem.at = "send" /\ modem'.at = "prompting"
               /\ line' = line \o <<CR, EOL_GSM, Char(">")>>
        <3> DEFINE s == <<CR, EOL_GSM, Char(">")>>
        <3>1. s \in Seq(Characters) /\ Len(s) = 3
            <4>1. CR \in Characters /\ EOL_GSM \in Characters /\ Char(">") \in Characters
                BY Kinds
            <4> QED BY <4>1
        <3>2. line' = line \o s
            BY <2>1
        <3> HIDE DEF s
        <3>3. Len(line') = Len(line) + 3
            <4>1. Len(line \o s) = Len(line) + Len(s)
                BY <1>6, <3>1, <3>2, SaidIs
            <4> QED BY <3>1, <3>2, <4>1
        <3>4. ToSay = 5 /\ ToSay' = 2
            BY <2>1 DEF ToSay
        <3> QED BY <1>6, <3>3, <3>4
    <2>2. CASE modem'.at = "command" /\ \E code \in {0, 4} : line' = line \o <<Digit(code), CR>>
        <3>1. PICK code \in {0, 4} : line' = line \o <<Digit(code), CR>>
            BY <2>2
        <3> DEFINE s == <<Digit(code), CR>>
        <3>2. s \in Seq(Characters) /\ Len(s) = 2
            <4>1. code \in 0 .. 9
                OBVIOUS
            <4> QED BY <4>1, ResultCodeIs
        <3>3. line' = line \o s
            BY <3>1
        <3> HIDE DEF s
        <3>4. Len(line') = Len(line) + 2
            <4>1. Len(line \o s) = Len(line) + Len(s)
                BY <1>6, <3>2, <3>3, SaidIs
            <4> QED BY <3>2, <3>3, <4>1
        <3>5. ToSay' = 0 /\ (ToSay = 5 \/ ToSay = 2)
            BY <1>1, <2>2 DEF ToSay
        <3> QED BY <1>6, <3>4, <3>5
    <2> QED BY <1>4, <2>1, <2>2
<1>8. Enough(Len(line) + ToSay)'
    <2>1. room >= (Len(line') + ToSay') + Spare
        BY <1>5, <1>6, <1>7
    <2> QED BY <1>3, <1>5, <2>1 DEF Enough
<1> QED BY <1>2, <1>3, <1>4, <1>8 DEF Prompted, Settled, Phase

(* The peer speaks, or hangs up, when all is quiet. *)
LEMMA PeerTurns ==
    ASSUME IInv, turns, Phase, HangUp \/ \E m \in Messages : PeerSends(m)
    PROVE  Phase'
<1> USE DEF IInv, Safe
<1>1. Quiet /\ modem.peer
    BY DEF HangUp, PeerSends, MaySpeak
<1>2. /\ Silent /\ pc = "idle" /\ line = <<>> /\ push = 0 /\ Still /\ modem.pending = <<>>
      /\ sent = extracted /\ room >= 0 + Spare
    <2>1. Silent
        BY <1>1, QuietIsSilent
    <2> QED BY <1>1, <2>1 DEF Silent, Quiet, Resetting, Settled, Enough, Resets
<1>3. UNCHANGED <<pc, push, inputBuffer, commandReceived, room, extracted, sends>>
    BY DEF HangUp, PeerSends, received, calls, bounds
<1>4. /\ MaxMessages \in Nat /\ messages \in Nat /\ MaxSends \in Nat /\ sends \in Nat
      /\ sends <= MaxSends /\ messages <= MaxMessages /\ room \in Nat /\ Spare \in Nat
    BY SpareIs, LengthsAssumption DEF Typed
<1>5. room >= 19 * (MaxMessages - messages) + 5 * (MaxSends - sends) + 4
    BY <1>1, <1>2, <1>4 DEF Spare
<1>6. 0 \in Nat
    OBVIOUS
<1>7. CASE HangUp
    <2>1. /\ modem' = [modem EXCEPT !.peer = FALSE] /\ line' = line \o ResultCode(3)
          /\ sent' = sent /\ messages' = messages
        BY <1>7 DEF HangUp, Says, bounds
    <2>2. /\ modem'.peer = FALSE /\ modem'.pending = modem.pending /\ modem'.at = modem.at
        BY <2>1 DEF ModemTyped
    <2>3. ResultCode(3) \in Seq(Characters) /\ Len(ResultCode(3)) = 4
        BY ResultCodeIs
    <2>4. line' = ResultCode(3)
        BY <1>2, <2>1, <2>3
    <2>5. Half(ResultCode(3), 0)'
        BY <1>2, <1>3, <2>3, <2>4, HalfStart
    <2>6. Spare' = 19 * (MaxMessages - messages) + 5 * (MaxSends - sends) + 0
        BY <1>3, <2>1, <2>2 DEF Spare
    <2>7. Len(line') = 4
        BY <2>3, <2>4
    <2>8. Enough(Len(line))'
        <3>1. room >= 4 + (19 * (MaxMessages - messages) + 5 * (MaxSends - sends) + 0)
            BY <1>4, <1>5
        <3> QED BY <1>3, <2>6, <2>7, <3>1 DEF Enough
    <2>9. ~(Len(line') <= 2)
        BY <2>7
    <2>10. Settled' /\ Still' /\ pc' \in {"idle", "parse"} /\ ~modem'.peer
        BY <1>2, <1>3, <2>1, <2>2 DEF Settled, Still
    <2> QED BY <2>5, <2>8, <2>9, <2>10 DEF HungUp, Phase
<1>8. ASSUME NEW m \in Messages, PeerSends(m) PROVE Phase'
    <2>1. m \in Seq(Characters) /\ Len(m) \in 1 .. 9
        BY LengthsAssumption DEF MaxWaiting
    <2>2. modem.pending \o m = m
        BY <1>2, <2>1
    <2>3. /\ modem' = [modem EXCEPT !.pending = m] /\ sent' = sent \o m
          /\ messages' = messages + 1 /\ messages < MaxMessages
          /\ line' = line \o Indication(Len(modem'.pending))
        BY <1>8, <2>2 DEF PeerSends, Says
    <2>4. modem'.pending = m /\ modem'.at = modem.at /\ modem'.peer = TRUE
        BY <1>1, <2>3 DEF ModemTyped
    <2>5. PICK n \in 0 .. 9 : n = Len(m)
        BY <2>1
    <2>6. Indication(n) \in Seq(Characters) /\ Len(Indication(n)) = 6
        BY <2>5, IndicationIs
    <2>7. line' = Indication(n)
        <3>1. line' = line \o Indication(n)
            BY <2>3, <2>4, <2>5
        <3> DEFINE s == Indication(n)
        <3>2. s \in Seq(Characters) /\ line' = line \o s
            BY <2>6, <3>1
        <3> HIDE DEF s
        <3>3. line' = s
            BY <1>2, <3>2
        <3> QED BY <3>3 DEF s
    <2>8. Half(Indication(n), 0)'
        BY <1>2, <1>3, <2>6, <2>7, HalfStart
    <2>9. Half(Indication(Len(modem.pending)), 0)'
        BY <2>4, <2>5, <2>8
    <2>10. Spare' = 19 * (MaxMessages - (messages + 1)) + 5 * (MaxSends - sends) + 4
        BY <1>3, <2>3, <2>4 DEF Spare
    <2>11. Enough(Len(line) + 13)'
        <3>1. room >= (6 + 13) + (19 * (MaxMessages - (messages + 1)) + 5 * (MaxSends - sends) + 4)
            BY <1>4, <1>5
        <3>2. Len(line') = 6
            BY <2>6, <2>7
        <3> QED BY <1>3, <2>10, <3>1, <3>2 DEF Enough
    <2>12. Owed'
        <3>1. m # <<>>
            <4>1. Len(m) # 0
                <5>1. \A k \in 1 .. 9 : k # 0
                    OBVIOUS
                <5> QED BY <2>1, <5>1
            <4>2. Len(<<>>) = 0
                OBVIOUS
            <4> QED BY <4>1, <4>2
        <3>2. sent' = extracted' \o m
            BY <1>2, <1>3, <2>3
        <3> QED BY <2>4, <3>1, <3>2 DEF Owed
    <2>13. Still' /\ pc' \in {"idle", "parse"}
        BY <1>2, <1>3, <2>4 DEF Still
    <2> QED BY <2>9, <2>11, <2>12, <2>13 DEF Indicated, Phase
<1> QED BY <1>7, <1>8

(* The handler takes from the room what it adds to the position, which is  *)
(* otherwise only set back to 0.                                           *)
LEMMA FitsKept == IInv /\ Fits /\ [Next]_vars => Fits'
<1> SUFFICES ASSUME IInv, Fits, [Next]_vars PROVE Fits'
    OBVIOUS
<1> USE DEF IInv, Safe
<1>1. room \in 0 .. MaxLength /\ push \in 0 .. MaxLength /\ MaxLength \in Nat
    BY LengthsAssumption DEF Typed
<1>2. CASE GsmInputHandler
    <2>1. CASE UNCHANGED <<room, push>>
        BY <2>1 DEF Fits
    <2>2. CASE room > 0 /\ TakeInput(Head(line))
        <3>1. room' = room - 1 /\ push' = (push + 1) % (MaxLength + 1)
            BY <2>2 DEF TakeInput
        <3>2. push + 1 \in 0 .. MaxLength
            BY <1>1, <2>2 DEF Fits
        <3>3. push' = push + 1
            BY <1>1, <3>1, <3>2
        <3> QED BY <1>1, <3>1, <3>3 DEF Fits
    <2> QED BY <1>2, <2>1, <2>2 DEF GsmInputHandler, TakeCommand, received
<1>3. CASE ZeroPush
    <2>1. room' = room /\ push' = 0
        BY <1>3 DEF ZeroPush
    <2> QED BY <1>1, <2>1 DEF Fits
<1>4. CASE UNCHANGED <<room, push>>
    BY <1>4 DEF Fits
<1> QED BY <1>2, <1>3, <1>4
        DEF Next, Program, Modem, Peer, Extract, ResetSteps, ExtractSteps, SendSteps, ClearBuffer,
            ZeroReceived, ZeroCommandPush, Parse, AskForData, Answered, CopyData, Settle, Return,
            Send, AskForPrompt, WriteText, TextSent, GiveData, GivePrompt, TakeText, HangUp,
            PeerSends, received, vars

LEMMA TurnsKept == IInv /\ turns /\ Phase /\ Fits /\ [Next]_vars => Phase'
<1> SUFFICES ASSUME IInv, turns, Phase, Fits, [Next]_vars PROVE Phase'
    OBVIOUS
<1>1. CASE GsmInputHandler
    BY <1>1, HandlerTurns
<1>2. CASE Program
    BY <1>2, ExtractTurns, ResetTurns, ParseTurns, AskTurns, AnsweredTurns, CopyTurns, SettleTurns,
       ReturnTurns, SendTurns
       DEF Program, ResetSteps, ExtractSteps, SendSteps
<1>3. CASE Send
    BY <1>3, SendTurns
<1>4. CASE Modem
    BY <1>4, GiveTurns, PromptTurns DEF Modem
<1>5. CASE Peer
    BY <1>5, PeerTurns DEF Peer
<1>6. CASE UNCHANGED vars
    <2>1. UNCHANGED <<line, inputBuffer, room, push, semGsmCommand, commandReceived, pc, then,
                      count, receivedData, modem, sent, extracted, messages, sends>>
        BY <1>6 DEF vars, received, calls, bounds
    <2>2. /\ Settled' = Settled /\ Owed' = Owed /\ Still' = Still /\ ToSay' = ToSay
          /\ Spare' = Spare
        BY <2>1 DEF Settled, Owed, Still, ToSay, Spare
    <2>3. /\ Silent => Silent'
          /\ Asking => Asking'
          /\ Asked => Asked'
          /\ Copied => Copied'
          /\ Sending => Sending'
          /\ Prompted => Prompted'
        BY <2>1, <2>2 DEF Silent, Asking, Asked, Copied, Sending, Prompted, Resetting, Enough
    <2>4. Indicated => Indicated'
        BY <2>1, <2>2 DEF Indicated, Half, Enough
    <2>5. HungUp => HungUp'
        BY <2>1, <2>2 DEF HungUp, Half, Enough
    <2>6. Given => Given'
        BY <2>1, <2>2 DEF Given, Beginning, Half, Enough
    <2> QED BY <2>3, <2>4, <2>5, <2>6 DEF Phase
<1> QED BY <1>1, <1>2, <1>3, <1>4, <1>5, <1>6 DEF Next

LEMMA ConversationKept == IInv /\ Conversation /\ [Next]_vars => Conversation'
<1> SUFFICES ASSUME IInv, Conversation, [Next]_vars PROVE Conversation'
    OBVIOUS
<1>1. Fits'
    BY FitsKept DEF Conversation
<1>2. turns' = turns
    BY DEF Next, Program, Modem, Peer, GsmInputHandler, Extract, ResetSteps, ExtractSteps,
           SendSteps, ClearBuffer, ZeroReceived, ZeroPush, ZeroCommandPush, Parse, AskForData,
           Answered, CopyData, Settle, Return, Send, AskForPrompt, WriteText, TextSent, GiveData,
           GivePrompt, TakeText, HangUp, PeerSends, Elsewhere, bounds, vars
<1>3. turns => Phase'
    BY TurnsKept DEF Conversation
<1> QED BY <1>1, <1>2, <1>3 DEF Conversation

LEMMA InitConversation ==
    ASSUME Roomy
    PROVE  Init => Conversation
<1> SUFFICES ASSUME Init PROVE Conversation
    OBVIOUS
<1>1. /\ pc = "idle" /\ line = <<>> /\ ~semGsmCommand /\ commandReceived = 0 /\ push = 0
      /\ modem.at = "command" /\ modem.pending = <<>> /\ modem.peer = TRUE
      /\ sent = <<>> /\ extracted = <<>> /\ messages = 0 /\ sends = 0 /\ room = MaxLength
    BY DEF Init
<1>2. Resetting("idle") /\ Settled
    BY <1>1 DEF Resetting, Still, Settled
<1>3. Enough(0)
    <2>1. MaxLength >= 19 * MaxMessages + 5 * MaxSends + 4
        BY DEF Roomy
    <2>2. MaxLength \in Nat /\ MaxMessages \in Nat /\ MaxSends \in Nat
        BY LengthsAssumption
    <2>3. Spare = 19 * (MaxMessages - 0) + 5 * (MaxSends - 0) + 4
        BY <1>1 DEF Spare
    <2>4. MaxLength >= 0 + (19 * (MaxMessages - 0) + 5 * (MaxSends - 0) + 4)
        BY <2>1, <2>2
    <2> QED BY <1>1, <2>3, <2>4 DEF Enough
<1>4. Fits
    BY <1>1, LengthsAssumption DEF Fits
<1> QED BY <1>2, <1>3, <1>4 DEF Silent, Phase, Conversation

LEMMA PrefixOfConcat ==
    ASSUME NEW s \in Seq(Characters), NEW t \in Seq(Characters)
    PROVE  IsPrefix(s, s) /\ IsPrefix(s, s \o t)
<1>1. /\ s \o t \in Seq(Characters) /\ Len(s \o t) = Len(s) + Len(t)
      /\ \A i \in 1 .. Len(s) : (s \o t)[i] = s[i]
      /\ Len(s) \in Nat /\ Len(t) \in Nat
    BY SaidIs
<1> DEFINE c == s \o t
<1>2. SubSeq(c, 1, Len(s)) = SubSeq(s, 1, Len(s))
    <2>1. /\ c \in Seq(Characters) /\ Len(s) <= Len(c)
          /\ \A i \in 1 .. Len(s) : c[i] = s[i]
        BY <1>1
    <2> HIDE DEF c
    <2> QED BY <1>1, <2>1
<1> QED BY <1>1, <1>2 DEF IsPrefix

LEMMA ConversationDelivers == IInv /\ Conversation => Delivered
<1> SUFFICES ASSUME IInv, Phase PROVE IsPrefix(extracted, sent) /\ (Quiet => extracted = sent)
    BY DEF Conversation, Delivered
<1>1. extracted \in Seq(Characters)
    BY DEF IInv, Safe, Typed
<1>2. sent = extracted \/ \E x \in Seq(Characters) : sent = extracted \o x
    <2>1. modem.pending \in Seq(Characters) /\ receivedData \in Seq(Characters)
        BY DEF IInv, Safe, Typed, ModemTyped
    <2> QED BY <2>1 DEF Phase, Silent, Indicated, Asking, Asked, Given, Copied, Sending, Prompted,
                        HungUp, Settled, Owed
<1>3. IsPrefix(extracted, sent)
    BY <1>1, <1>2, PrefixOfConcat
<1>4. Quiet => extracted = sent
    BY QuietIsSilent DEF Silent, Settled
<1> QED BY <1>3, <1>4

(* Where the buffer holds the whole conversation, peer and program take    *)
(* turns and the peer sends no '#', gsmExtractReceivedData hands out what  *)
(* the peer sent, in order and without a gap, a repetition or a character  *)
(* of the protocol, however the handler interrupts it; and when all is     *)
(* quiet it was all handed out.                                            *)
THEOREM DataDelivered ==
    ASSUME Roomy
    PROVE  Spec => []Delivered
<1> DEFINE Inv == Safe /\ (Plain => IInv /\ Conversation)
<1>1. Init => Inv
    BY InitIInv, InitConversation DEF IInv
<1>2. Inv /\ [Next]_vars => Inv'
    <2> SUFFICES ASSUME Inv, [Next]_vars PROVE Inv'
        OBVIOUS
    <2>1. Safe' /\ (Texts /\ Plain' => Texts') /\ (Plain' => Plain)
        BY NextKeeps, PlainBefore
    <2>2. Plain' => IInv'
        BY <2>1 DEF IInv
    <2>3. Plain' => Conversation'
        BY <2>1, ConversationKept
    <2> QED BY <2>1, <2>2, <2>3
<1>3. Inv => Delivered
    BY ConversationDelivers DEF Delivered
<1> QED BY <1>1, <1>2, <1>3, PTL DEF Spec
===============================================================================
