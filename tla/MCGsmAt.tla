---- MODULE MCGsmAt ----
EXTENDS GsmAt

(* A command, and one whose text ends like the OK: ATE0. *)
MCCommands == {<<"x", Cr>>, <<"0", Cr>>}

(* RING, and a line of text. *)
MCUnsolicited == {<<"2", Cr>>, <<"x">>}

(* What theorem GivesUp supposes. *)
ASSUME MCMadeUp == MadeUpBy(3)
====
