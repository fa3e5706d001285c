------------------------------- MODULE GsmModem -------------------------------
(***************************************************************************)
(* What the programs of gsm.c have in common.  A program is a sequence of  *)
(* steps; a step is a procedure of gsm.c that exchanges commands and       *)
(* answers until it succeeds or has used its tries, and its result becomes *)
(* a flag of *gsmStatus, or that of the program.                           *)
(*                                                                         *)
(* An exchange is one step (module GsmAt has its inside): the modem        *)
(* carries out the command or not, and the answer is read or not.  A       *)
(* setting is right or wrong.                                              *)
(***************************************************************************)
EXTENDS GsmPower, FiniteSets, SequencesExt

CONSTANTS
    Profiles,           \* sets of settings that may be right after a factory reset
    TurnOnTries,        \* how often gsm_init lets gsmTurnOn try (10)
    RuleCount,          \* rules of the firewall (5)
    FirewallTries,      \* how often each of its commands is tried (4)
    MaxCalls            \* bound: calls of the driver

ASSUME ModemAssumption ==
    /\ TurnOnTries \in Nat \ {0} /\ RuleCount \in Nat \ {0}
    /\ FirewallTries \in 1 .. 10 /\ MaxCalls \in Nat

VARIABLES
    program, step,      \* what runs, and its step (0: nothing runs)
    phase, i, j, k,     \* place and loop counters of the procedure
    gsmStatus,          \* the flags of *gsmStatus
    configured,         \* the settings of the modem that are right
    firewall,           \* the rules it has
    attached, gprs,     \* is the modem on the network, is its context active
    suspended,          \* has it a socket it does not listen to
    sawAttached,        \* history: the modem said so during this call
    mailed,             \* history: the mails it took during this call
    calls               \* calls so far

place == <<program, step, phase, i, j, k>>
link == <<attached, gprs, suspended>>
modem == <<configured, firewall, link>>
history == <<sawAttached, mailed>>
vars == <<powerVars, place, modem, gsmStatus, history, calls>>

-------------------------------------------------------------------------------
(* The steps.  A step's name is that of its flag; if it fails the program  *)
(* goes on without a note ("ignore") or with one ("note"), or it returns 0 *)
(* after a note ("fatal") or without ("result").                           *)

Do(name, procedure, tries, failure) ==
    [name |-> name, procedure |-> procedure, tries |-> tries, failure |-> failure]

TurnOnStep == Do("ON", "power", TurnOnTries, "fatal")
gsmResetModuleToFactoryDefault == Do("factory", "factory", 10, "ignore")
ResultFormat == Do("format", "set", 4, "ignore")
setCommandEchoMode == Do("echo", "set", 10, "ignore")
gsmEnableResultCodeLevel == Do("codes", "set", 5, "ignore")
gsmSetIPR == Do("IPR_SET", "verify", 4, "fatal")
gsmSetFlowControl == Do("FLOW_CONTROL_SET", "set", 4, "fatal")
gsmSetCommandLevel == Do("COMMAND_LEVEL_SET", "guess", 4, "fatal")
gsmSetErrorLevel == Do("ERROR_LEVEL_SET", "errorLevel", 4, "fatal")
gsmUpdateTimeFromGsmNetwork == Do("time", "set", 5, "ignore")
InitiatedCheck == Do("INITIATED", "anyFlag", 1, "note")
gsm_get_imei == Do("IMEI", "number", 1, "fatal")
gsm_get_imsi == Do("IMSI", "number", 1, "note")
gsmSetTeCharacterSet == Do("TE_CHARACTER_SET", "verify", 4, "fatal")
gsmSetTcpReassembly == Do("TCP_REASSEMBLY_SET", "byte", 4, "fatal")
gsmSetUserId == Do("USER_ID_SET", "verify", 4, "fatal")
gsmSetUserPassword == Do("USER_PASSWORD_SET", "set", 4, "note")
gsmSetIcmp == Do("ICMP_SET", "byte", 4, "fatal")
gsmStoreInProfile0 == Do("STORED_IN_PROFILE_0", "set", 4, "note")
gsmSetFirewallInit == Do("FIREWALL_INITIATED", "firewall", FirewallTries, "note")
gsmInitGprs == Do("GPRS_INITIATED", "initGprs", 4, "note")
gsmSetEmailConfig == Do("email", "email", 1, "ignore")
gsmSetClock == Do("clock", "set", 2, "result")
gsmConnectedToMobileNetwork(tries, failure) ==
    Do("CONNECTED_TO_MOBILE_NETWORK", "attach", tries, failure)
gsmEstablishGPRS(failure) == Do("GPRS_ESTABLISHED", "establish", 8, failure)

-------------------------------------------------------------------------------
(* The programs.                                                           *)

(* gsm_init: contact, then the settings, then the network. *)
Contact == <<
    TurnOnStep, gsmResetModuleToFactoryDefault, ResultFormat,
    setCommandEchoMode, gsmEnableResultCodeLevel, gsmSetIPR, gsmSetFlowControl,
    gsmSetCommandLevel, gsmSetErrorLevel>>

Settings == <<
    gsmUpdateTimeFromGsmNetwork, gsm_get_imei, gsm_get_imsi, gsmSetTeCharacterSet,
    gsmSetTcpReassembly, gsmSetUserId, gsmSetUserPassword, gsmSetIcmp, gsmStoreInProfile0>>

Network == <<
    gsmSetFirewallInit, gsmInitGprs, gsmSetEmailConfig,
    InitiatedCheck,
    gsmConnectedToMobileNetwork(10, "note"), gsmEstablishGPRS("note")>>

(* gsm_connect_and_download_firmware, gsm_connect_and_download_extended_par *)
Connect == <<
    gsmConnectedToMobileNetwork(1, "fatal"), gsmEstablishGPRS("fatal"),
    Do("CONNECTED_TO_SERVER", "dial", 2, "fatal"),
    Do("GOT_HTTP", "download", 1, "fatal")>>

Programs ==
    [gsm_init |-> Contact \o Settings \o Network,
     gsm_connect_and_download_firmware |-> Connect,
     gsmSuspendSocket |-> <<Do("suspend", "suspend", 2, "result")>>,
     gsmResumeSocketConnection |-> <<Do("resume", "resume", 2, "result")>>,
     gsmCloseSocket |-> <<Do("close", "closeSocket", 2, "result")>>,
     gsmCheckGprsEstablished |-> <<Do("GPRS_INITIATED", "checkGprs", 10, "fatal")>>,
     gsmCloseGPRS |-> <<Do("close", "closeGprs", 10, "result")>>,
     gsmConnectToServer_Multi |-> <<Do("connect", "dial", 4, "result")>>,
     gsmSetClock |-> <<gsmSetClock>>,
     gsmEmailString |-> <<Do("mail", "mail", 10, "result")>>]

Names == UNION {{Programs[p][n].name : n \in 1 .. Len(Programs[p])} : p \in DOMAIN Programs}

ASSUME ProfilesAssumption == Profiles \subseteq SUBSET Names

(* The flags gsm_init looks at before it sets INITIATED: one is enough. *)
InitiatedFlags ==
    {"ON", "IPR_SET", "FLOW_CONTROL_SET", "COMMAND_LEVEL_SET", "ERROR_LEVEL_SET", "IMSI",
     "TE_CHARACTER_SET", "TCP_REASSEMBLY_SET", "USER_ID_SET", "USER_PASSWORD_SET", "ICMP_SET",
     "STORED_IN_PROFILE_0", "FIREWALL_INITIATED", "ATCIND_COMMAND_RUNNED"}

Step == Programs[program][step]
In(procedure, where) ==
    stack = <<>> /\ step > 0 /\ Step.procedure = procedure /\ phase = where
(* LastTry, one too late. *)
OneTooMany == i = Step.tries

LastTry == i + 1 = Step.tries

(* The step has succeeded or failed. *)
Flagged(ok) ==
    IF Step.failure \in {"ignore", "result"} THEN gsmStatus
    ELSE IF ok THEN gsmStatus \cup {Step.name} ELSE gsmStatus \ {Step.name}

NextStep(n) == step' = n /\ phase' = "begin" /\ i' = 0 /\ j' = 0 /\ k' = 0 /\ UNCHANGED program
ReturnFrom(r) == NextStep(0) /\ result' = r

Proceed(ok) ==
    IF ~ok /\ Step.failure \in {"fatal", "result"} THEN ReturnFrom(0)
    ELSE IF step = Len(Programs[program]) THEN ReturnFrom(1)
    ELSE NextStep(step + 1) /\ UNCHANGED result

Done(ok) == gsmStatus' = Flagged(ok) /\ Proceed(ok)

GoOn(where, ii, jj) ==
    /\ phase' = where /\ i' = ii /\ j' = jj
    /\ UNCHANGED <<k, program, step, result, gsmStatus>>

-------------------------------------------------------------------------------
(* The modem: its answers are understood once it gives them in numbers.    *)

Listens == power = "on"

(* A command that makes settings right, and the wait for its OK. *)
Outcomes == {"ok", "lost", "silent", "unsent"}

Exchange(o, right, understood) ==
    /\ CASE o = "ok" -> Listens /\ understood /\ UNCHANGED faults
         [] o = "lost" -> Listens /\ IF understood THEN Fails ELSE UNCHANGED faults
         [] OTHER -> IF Listens THEN Fails ELSE UNCHANGED faults
    /\ configured' = IF o \in {"ok", "lost"} THEN right ELSE configured

Set(o, name) == LET right == configured \cup {name} IN Exchange(o, right, "format" \in right)

(* A question, and the wait for its answer. *)
Read(answer, truth) ==
    IF Listens /\ answer = truth THEN UNCHANGED faults
    ELSE answer = "none" /\ IF Listens THEN Fails ELSE UNCHANGED faults

Answers == {"right", "wrong", "none"}
Query(answer, right) == Read(answer, IF right THEN "right" ELSE "wrong")

(* Sending a command succeeds if the modem answers the AT before it. *)
Unsent == IF Listens THEN Fails ELSE UNCHANGED faults
Sent == Listens /\ UNCHANGED faults
===============================================================================
