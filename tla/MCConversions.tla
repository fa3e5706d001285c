---------------------------- MODULE MCConversions ----------------------------
(***************************************************************************)
(* Small instances of HttpText and Checksums.  The two have nothing to do  *)
(* with each other: a behaviour is one of the one or one of the other.     *)
(***************************************************************************)
EXTENDS HttpText, Checksums

FullHost == Http \o <<58, 47, 47, 104>>                     \* "http://h"
SmallUrlPieces ==                                           \* "/" "?" "%3F" "a=" "%" "00"
    {FullHost, <<47>>, <<63>>, <<37, 51, 70>>, <<97, 61>>, <<37>>, <<48, 48>>}
SmallBodyPieces ==                                          \* "a=" "&" "b" "%26" "%" "+"
    {<<97, 61>>, <<38>>, <<98>>, <<37, 50, 54>>, <<37>>, <<43>>}
PutTogether(pieces) ==
    LET Of[n \in 0 .. Budget] ==
            IF n = 0 THEN {<<>>} ELSE {text \o piece : text \in Of[n - 1], piece \in pieces}
    IN  [n \in 0 .. Budget |-> Of[n]]
SmallUrls == PutTogether(SmallUrlPieces)
SmallBodies == PutTogether(SmallBodyPieces)
SmallLines ==                                               \* "L: 1" "L:2" "T:a:b" "X:1"
    {<<76, 58, 32, 49>>, <<76, 58, 50>>, <<84, 58, 97, 58, 98>>, <<88, 58, 49>>}
SmallNames == <<<<76>>, <<84>>, <<88>>>>
SmallValues == {<<120>>, <<120, 121, 122>>}
SmallVariables == {<<97>>, <<98>>}                          \* "a" "b"

Digits == [i \in 1 .. 9 |-> 48 + i]                           \* "123456789"
Abcd == <<97, 98, 99, 100>>                                 \* "abcd"
TestTexts == {Abcd, Digits}

(* The reference checksums are the ones meant: they give what the unit     *)
(* test of crc_hw.c expects.                                               *)
ASSUME KnownAnswers ==
    LET Word32(high, low) == Bits(high, 16) \o Bits(low, 16)
    IN  /\ CrcCcitt(Digits) = Bits(10673, 16) /\ Crc32(Digits) = Word32(52212, 14630)    \* 29b1, cbf43926
        /\ CrcCcitt(Abcd) = Bits(11510, 16) /\ Crc32(Abcd) = Word32(60802, 52497)        \* 2cf6, ed82cd11

Init == TextInit /\ SumInit

Next ==
    \/ image = NoImage /\ TextNext /\ UNCHANGED sumVars
    \/ at = "url" /\ SumNext /\ UNCHANGED textVars

Spec == Init /\ [][Next]_<<textVars, sumVars>>
=============================================================================
