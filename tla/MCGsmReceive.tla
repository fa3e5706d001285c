---------------------------- MODULE MCGsmReceive ----------------------------
(* The peer sends single characters and short lines, each distinguishable *)
(* from the others; in two of them is the '#' of the modem's texts.  With  *)
(* CommandLength = 7 the first of these just fits _scGsmBuffer behind the  *)
(* modem's own text, and the second is written behind its end.             *)
EXTENDS GsmReceive

Letter(n) == [kind |-> "letter", n |-> n]
MCMessages ==
    {<<Letter(1)>>, <<Letter(2), EOL_GSM>>, <<Digit(3), Letter(3)>>,
     <<Letter(4), Hash>>, <<Hash, Letter(5)>>}
=============================================================================
