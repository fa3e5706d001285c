----------------------------- MODULE GsmSettings ------------------------------
(***************************************************************************)
(* The procedures of gsm.c that configure the modem: gsmSetIPR,            *)
(* gsmSetFlowControl and the others that gsm_init calls, the firewall and  *)
(* the settings for mail.  Settings of mail are not told apart.            *)
(***************************************************************************)
EXTENDS GsmModem

Setting == Step.name
Rest == UNCHANGED <<power, stack, firewall, link, history, calls>>

(* gsm_init: gsmTurnOn, and whether the module answers. *)
TurnedOn ==
    /\ In("power", "begin")
    /\ IF result = 0 THEN Done(FALSE) /\ UNCHANGED faults
                     ELSE \E b \in BOOLEAN : AnsweringOnAT(b) /\ Done(b)
    /\ UNCHANGED configured
    /\ Rest

(* gsmResetModuleToFactoryDefault: the OK is the one in letters. *)
FactoryDefault ==
    /\ In("factory", "begin")
    /\ \E o \in Outcomes, right \in Profiles :
           /\ Exchange(o, right, TRUE)
           /\ IF o = "ok" \/ LastTry THEN Done(o = "ok") ELSE GoOn("begin", i + 1, 0)
    /\ Rest

(* Set until OK: gsmSetFlowControl, gsmSetUserPassword, gsmStoreInProfile0, ... *)
SetUntilOk ==
    /\ In("set", "begin")
    /\ \E o \in Outcomes :
           /\ Set(o, Setting)
           /\ IF o = "ok" \/ LastTry THEN Done(o = "ok") ELSE GoOn("begin", i + 1, 0)
    /\ Rest

(* AskFirst, with any answer taken for the right one. *)
AskAnything ==
    /\ In("verify", "begin") \/ In("guess", "begin")
    /\ \E answer \in Answers, lucky \in BOOLEAN :
           /\ Query(answer, Setting \in configured)
           /\ lucky => Step.procedure = "guess" /\ answer = "none" /\ LastTry
           /\ IF answer # "none" \/ lucky THEN Done(TRUE)
              ELSE IF answer = "none" /\ ~LastTry THEN GoOn("begin", i + 1, 0)
              ELSE GoOn("set", 0, 0)
    /\ UNCHANGED configured
    /\ Rest

(* Ask; if it is wrong set it and ask again: gsmSetIPR, gsmSetTeCharacterSet, *)
(* gsmSetUserId.  gsmSetCommandLevel looks at a character it never read if no *)
(* answer comes.                                                           *)
AskFirst ==
    /\ In("verify", "begin") \/ In("guess", "begin")
    /\ \E answer \in Answers, lucky \in BOOLEAN :
           /\ Query(answer, Setting \in configured)
           /\ lucky => Step.procedure = "guess" /\ answer = "none" /\ LastTry
           /\ IF answer = "right" \/ lucky THEN Done(TRUE)
              ELSE IF answer = "none" /\ ~LastTry THEN GoOn("begin", i + 1, 0)
              ELSE GoOn("set", 0, 0)
    /\ UNCHANGED configured
    /\ Rest

SetIt ==
    /\ In("verify", "set") \/ In("guess", "set")
    /\ \E o \in Outcomes :
           /\ Set(o, Setting)
           /\ IF o = "ok" THEN GoOn("verify", i, 0)
              ELSE IF j + 1 < Step.tries THEN GoOn("set", i, j + 1)
              ELSE Done(FALSE)
    /\ Rest

AskAgain ==
    /\ In("verify", "verify") \/ In("guess", "verify")
    /\ \E answer \in Answers :
           /\ Query(answer, Setting \in configured)
           /\ IF answer = "right" \/ LastTry THEN Done(answer = "right")
              ELSE GoOn("set", i + 1, 0)
    /\ UNCHANGED configured
    /\ Rest

(* gsmSetErrorLevel: only a level that is right at once makes it succeed. *)
ErrorLevel ==
    /\ \/ In("errorLevel", "begin") /\ \E answer \in Answers :
              /\ Query(answer, Setting \in configured)
              /\ IF answer = "none" /\ ~LastTry THEN GoOn("begin", i + 1, 0)
                 ELSE GoOn(IF answer = "right" THEN "ok" ELSE "set", 0, 0)
              /\ UNCHANGED configured
       \/ In("errorLevel", "ok") /\ \E o \in Outcomes :
              Exchange(o, configured, "format" \in configured) /\ Done(o = "ok")
       \/ In("errorLevel", "set") /\ \E o \in Outcomes :
              /\ Set(o, Setting)
              /\ IF o = "ok" THEN GoOn("verify", i, 0)
                 ELSE IF i + 2 < Step.tries THEN GoOn("set", i + 2, 0)
                 ELSE Done(FALSE)
       \/ In("errorLevel", "verify") /\ \E answer \in Answers :
              /\ Query(answer, Setting \in configured)
              /\ IF answer = "none" /\ ~LastTry THEN GoOn("set", i + 1, 0)
                 ELSE Done(FALSE)
              /\ UNCHANGED configured
    /\ Rest

(* gsmSetTcpReassembly, gsmSetIcmp: a lost OK counts twice, a command that *)
(* could not be sent is not repeated.                                      *)
SetByte ==
    /\ \/ In("byte", "begin") /\ \E answer \in Answers, lucky \in BOOLEAN :
              /\ Query(answer, Setting \in configured)
              /\ lucky => answer = "none" /\ LastTry
              /\ IF answer = "right" \/ lucky THEN Done(TRUE)
                 ELSE IF answer = "none" /\ ~LastTry THEN GoOn("begin", i + 1, 0)
                 ELSE GoOn("set", 0, 0)
              /\ UNCHANGED configured
       \/ In("byte", "set") /\ \E o \in Outcomes :
              /\ Set(o, Setting)
              /\ IF o \in {"ok", "unsent"} THEN GoOn("verify", i, 0)
                 ELSE IF i + 2 < Step.tries THEN GoOn("set", i + 2, 0)
                 ELSE Done(FALSE)
       \/ In("byte", "verify") /\ \E answer \in Answers :
              /\ Query(answer, Setting \in configured)
              /\ IF answer = "right" \/ LastTry THEN Done(answer = "right")
                 ELSE GoOn("set", i + 1, 0)
              /\ UNCHANGED configured
    /\ Rest

(* gsm_get_imei, gsm_get_imsi: without an answer the number is whatever    *)
(* the variables held.  A module always has an IMEI; the SIM may be out.   *)
(* The line ends in front of the number are skipped, in gsm_get_imsi for   *)
(* 250 ms; gsm_get_imei has no limit, and where c was left or found to be  *)
(* a line end it reads on until the modem says something else.             *)
GetNumber ==
    /\ In("number", "begin")
    /\ \E answer \in Answers, there, got \in BOOLEAN :
           /\ Setting = "IMEI" => there
           /\ Query(answer, there)
           /\ answer # "none" => got = there
           /\ \/ Done(got)
              \/ answer = "none" /\ Setting = "IMEI" /\ GoOn("wait", 0, 0)
    /\ UNCHANGED configured
    /\ Rest

(* A character that ends this wait: nothing makes the modem say one. *)
LateCharacter ==
    /\ In("number", "wait") /\ Listens
    /\ \E got \in BOOLEAN : Done(got)
    /\ UNCHANGED <<configured, faults>>
    /\ Rest

(* gsmInitGprs: set the socket, set the context, see that it is set; the   *)
(* last of the four looks comes too late.                                  *)
InitGprs ==
    /\ \/ In("initGprs", "begin") /\ \E o \in Outcomes :
              /\ Exchange(o, configured, "format" \in configured)
              /\ IF o = "ok" \/ LastTry THEN GoOn("context", 0, 0)
                 ELSE GoOn("begin", i + 1, 0)
       \/ In("initGprs", "context") /\ \E o \in Outcomes :
              /\ Set(o, Setting)
              /\ IF o = "ok" \/ LastTry THEN GoOn("look", 0, 0)
                 ELSE GoOn("context", i + 1, 0)
       \/ In("initGprs", "look") /\ \E answer \in Answers :
              /\ Query(answer, Setting \in configured)
              /\ IF answer = "right" \/ LastTry
                     THEN Done(answer = "right" /\ ~LastTry)
                     ELSE GoOn("look", i + 1, 0)
              /\ UNCHANGED configured
    /\ Rest

(* gsm_init: GSM_INITIATED is set almost always. *)
Check ==
    /\ In("anyFlag", "begin")
    /\ Done(InitiatedFlags \cap gsmStatus # {})
    /\ UNCHANGED <<configured, faults>>
    /\ Rest
-------------------------------------------------------------------------------
(* gsmSetFirewallInit: all rules are removed, each is added, and the list  *)
(* of them asked for; what comes of it is not looked at, and the result is *)
(* always 0.                                                               *)

FirewallGo(where, ii, jj, kk) ==
    /\ phase' = where /\ i' = ii /\ j' = jj /\ k' = kk
    /\ UNCHANGED <<program, step, result, gsmStatus>>

(* A command to the firewall. *)
Command(o, rules) ==
    /\ Exchange(o, configured, "format" \in configured)
    /\ firewall' = IF o \in {"ok", "lost"} THEN rules ELSE firewall

NotFirewall == UNCHANGED <<power, stack, link, history, calls>>

ClearRules ==
    /\ In("firewall", "begin")
    /\ \E o \in Outcomes :
           /\ Command(o, {})
           /\ IF o = "ok" THEN FirewallGo("rule", 0, 0, 1)
              ELSE IF LastTry THEN Done(FALSE)
              ELSE FirewallGo("begin", i + 1, 0, 0)
    /\ NotFirewall

(* gsmSetFirewallRule, of rule k. *)
NextRule ==
    IF k < RuleCount THEN FirewallGo("rule", i, 0, k + 1) ELSE FirewallGo("list", i, 0, k)

RepeatRule ==
    IF j + 1 < FirewallTries THEN FirewallGo("rule", i, j + 1, k) ELSE NextRule

(* AddRule, with a missing OK taken for a rule that is there. *)
AddRuleUnseen ==
    /\ In("firewall", "rule")
    /\ \E o \in Outcomes :
           /\ Command(o, firewall \cup {k})
           /\ IF o \in {"ok", "unsent"} THEN RepeatRule ELSE NextRule
    /\ NotFirewall

(* After an OK it goes on to the next try; only without one it looks. *)
AddRule ==
    /\ In("firewall", "rule")
    /\ \E o \in Outcomes :
           /\ Command(o, firewall \cup {k})
           /\ IF o \in {"ok", "unsent"} THEN RepeatRule ELSE FirewallGo("look", i, j, k)
    /\ NotFirewall

LookForRule ==
    /\ In("firewall", "look")
    /\ \E answer \in Answers :
           /\ Query(answer, k \in firewall)
           /\ IF answer = "right" THEN NextRule ELSE RepeatRule
    /\ UNCHANGED <<configured, firewall>>
    /\ NotFirewall

ListRules ==
    /\ In("firewall", "list")
    /\ \/ Sent /\ Done(FALSE)
       \/ Unsent /\ IF LastTry THEN Done(FALSE) ELSE FirewallGo("rule", i + 1, 0, 1)
    /\ UNCHANGED <<configured, firewall>>
    /\ NotFirewall

Firewall == ClearRules \/ AddRule \/ LookForRule \/ ListRules
-------------------------------------------------------------------------------
(* gsmSetEmailConfig: each command once.  Nobody uses the result.          *)
EmailCommands == <<"#ESMTP", "#EUSER", "#EPASSW", "#EADDR", "#ESAV">>

EmailConfig ==
    /\ In("email", "begin") \/ In("mail", "config")
    /\ \E o \in Outcomes : Exchange(o, configured, "format" \in configured)
    /\ IF i + 1 < Len(EmailCommands) THEN GoOn(phase, i + 1, j)
       ELSE IF Step.procedure = "mail" THEN GoOn("command", 0, j)
       ELSE Done(TRUE)
    /\ Rest
-------------------------------------------------------------------------------
Configure ==
    \/ TurnedOn \/ FactoryDefault \/ SetUntilOk \/ AskFirst \/ SetIt \/ AskAgain
    \/ ErrorLevel \/ SetByte \/ GetNumber \/ InitGprs \/ Check \/ Firewall \/ EmailConfig
===============================================================================
