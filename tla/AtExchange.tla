------------------------------ MODULE AtExchange ------------------------------
(***************************************************************************)
(* What the rest of gsm.c takes an AT command for: it is sent, the modem   *)
(* carries it out or refuses it, at most once, and the caller is told 1    *)
(* only if it was carried out.  A command whose own text ends like the OK  *)
(* (ATE0, ATV0, ATQ0) may be taken for answered when its echo comes.       *)
(***************************************************************************)
CONSTANT Pending

VARIABLES
    verdict,            \* of the modem: "none", "ok" or "error"
    told,               \* to the caller: Pending, 0 or 1
    answersItself       \* the echo of the command looks like its OK

exchange == <<verdict, told, answersItself>>

Idle == verdict = "none" /\ told = 0 /\ answersItself = FALSE

Ask ==
    /\ told # Pending
    /\ told' = Pending /\ verdict' = "none" /\ answersItself' \in BOOLEAN

(* Also after the caller has given up. *)
CarryOut ==
    /\ verdict = "none"
    /\ verdict' \in {"ok", "error"}
    /\ UNCHANGED <<told, answersItself>>

Tell ==
    /\ told = Pending
    /\ told' \in {0, 1}
    /\ told' = 1 => verdict = "ok" \/ answersItself
    /\ UNCHANGED <<verdict, answersItself>>

Spec == Idle /\ [][Ask \/ CarryOut \/ Tell]_exchange
===============================================================================
