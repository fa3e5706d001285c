------------------------------ MODULE GsmSession ------------------------------
(***************************************************************************)
(* What gsm.c does with a modem: gsm_init switches it on, checks and       *)
(* stores its settings and attaches to the network; the other programs go  *)
(* online with it, send a mail, suspend, resume and close.  The caller may *)
(* also switch the modem off.                                              *)
(***************************************************************************)
EXTENDS GsmSettings, GsmNetwork

-------------------------------------------------------------------------------
(* The caller.                                                             *)

Power ==
    /\ PowerStep
    /\ LET undisturbed == power' = power /\ ~At("gsmHardReset", "begin")
       IN gprs' = (gprs /\ undisturbed) /\ suspended' = (suspended /\ undisturbed)
    /\ UNCHANGED <<place, configured, firewall, attached, gsmStatus, history, calls>>

(* The modem hangs, goes down, loses its socket or the network.            *)
Environment ==
    /\ \/ (Hang \/ GoDown) /\ gprs' = FALSE /\ suspended' = FALSE /\ UNCHANGED attached
       \/ /\ power = "online" \/ suspended
          /\ power' = (IF power = "online" THEN "on" ELSE power) /\ suspended' = FALSE
          /\ UNCHANGED <<stack, result, faults, gprs, attached>>
       \/ ~attached /\ attached' = TRUE /\ UNCHANGED <<powerVars, gprs, suspended>>
       \/ /\ attached /\ Fails
          /\ attached' = FALSE /\ gprs' = FALSE /\ suspended' = FALSE
          /\ UNCHANGED <<power, stack, result>>
    /\ UNCHANGED <<place, configured, firewall, gsmStatus, history, calls>>

Idle == step = 0 /\ stack = <<>>

Run(name) ==
    /\ program' = name /\ step' = 1
    /\ stack' = IF name = "gsm_init" THEN <<Frame("gsmTurnOn", TurnOnTries)>> ELSE <<>>
    /\ UNCHANGED <<phase, i, j, k>>

Switch(name, tries) == stack' = <<Frame(name, tries)>> /\ UNCHANGED place

Call ==
    /\ Idle /\ calls < MaxCalls
    /\ \/ \E name \in DOMAIN Programs : Run(name)
       \/ \E name \in {"gsmTurnOn", "gsmSoftTurnOff", "gsmHardTurnOff"}, tries \in 1 .. 3 : Switch(name, tries)
    /\ sawAttached' = FALSE /\ mailed' = 0
    /\ calls' = calls + 1
    /\ UNCHANGED <<power, result, faults, modem, gsmStatus>>

(* The processor starts; the modem may have been running before, on a socket *)
(* over the network it is attached to.                                      *)
Init ==
    /\ power \in {"off", "on", "online", "typing", "hung"} /\ stack = <<>> /\ result = 0 /\ faults = 0
    /\ program = "gsm_init" /\ step = 0 /\ phase = "begin" /\ i = 0 /\ j = 0 /\ k = 0
    /\ gsmStatus = {} /\ configured \in Profiles /\ firewall = {}
    /\ gprs = (power = "online") /\ attached \in {TRUE, gprs} /\ suspended = FALSE
    /\ sawAttached = FALSE /\ mailed = 0 /\ calls = 0

Program == Power \/ Configure \/ Use

Next == Call \/ Program \/ Environment \/ LateCharacter

Spec == Init /\ [][Next]_vars
FairSpec == Spec /\ WF_vars(Program)

-----------------------------------------------------------------------------
(* Properties.                                                             *)

Procedures == {"gsmTurnOn", "gsmHardReset", "gsmSoftTurnOff", "gsmHardTurnOff"}

(* Types; no frame is left of a call that has returned. *)
TypeOK ==
    /\ power \in {"off", "on", "online", "typing", "hung", "going"}
    /\ \A n \in 1 .. Len(stack) : stack[n].proc \in Procedures
    /\ result \in 0 .. 3 /\ faults \in 0 .. MaxFaults
    /\ program \in DOMAIN Programs /\ step \in 0 .. Len(Programs[program])
    /\ i \in 0 .. 9 /\ j \in 0 .. 9 /\ k \in 0 .. RuleCount
    /\ gsmStatus \subseteq Names \cup {"ATCIND_COMMAND_RUNNED"} /\ configured \subseteq Names
    /\ firewall \subseteq 1 .. RuleCount
    /\ attached \in BOOLEAN /\ gprs \in BOOLEAN /\ suspended \in BOOLEAN
    /\ sawAttached \in BOOLEAN /\ mailed \in 0 .. 1 /\ calls \in 0 .. MaxCalls

Returned(name) == stack # <<>> /\ Me.proc = name /\ stack' = Tail(stack)

(* What the calls that switch the modem tell their caller is so when they  *)
(* return: it answers, or it is off.                                       *)
PowerIsAsTold ==
    [][/\ Returned("gsmTurnOn") /\ result' > 0 => power' = "on"
       /\ Returned("gsmSoftTurnOff") /\ result' = 1 => power' = "off"
       /\ Returned("gsmHardTurnOff") => (result' \in {1, 2} <=> power' = "off") \/ result' = 3]_vars

(* gsmTurnOn gives up only if the modem has failed in all of its tries but *)
(* one: a module that is off, hangs, or is still on a socket comes back.   *)
TurnOnPersists ==
    [][Returned("gsmTurnOn") /\ result' = 0 => faults' - Me.from >= Me.tries - 1]_vars

(* A program has returned. *)
Ended == step # 0 /\ step' = 0

(* The settings gsm_init has seen to be right, or set and got an OK for.   *)
Sure == {"format", "IPR_SET", "FLOW_CONTROL_SET", "ERROR_LEVEL_SET", "TE_CHARACTER_SET", "USER_ID_SET"}

(* A program that returns 1 has set the flag of every step that it cannot  *)
(* do without; after gsm_init the modem is configured and understood.      *)
ReadyMeansConfigured ==
    [][Ended /\ result' = 1 =>
           /\ \A n \in 1 .. Len(Programs[program]) :
                  Programs[program][n].failure = "fatal" => Programs[program][n].name \in gsmStatus'
           /\ program = "gsm_init" => Sure \subseteq configured']_vars

(* After gsm_init, and after going online, GSM_CONNECTED_TO_MOBILE_NETWORK *)
(* tells what the modem said during this call, not during an earlier one.  *)
ConnectedIsFresh ==
    [][/\ Ended
       /\ (program = "gsm_init" /\ result' = 1) \/ program = "gsm_connect_and_download_firmware"
       /\ "CONNECTED_TO_MOBILE_NETWORK" \in gsmStatus'
       => sawAttached']_vars

(* What the calls for sockets, the context and mail tell their caller is   *)
(* so: a socket or a context that is said to be closed is, a connection is *)
(* there, and a mail that is said to be sent was taken by the modem, once. *)
LinkIsAsTold ==
    [][Ended /\ result' = 1 =>
           CASE program = "gsmCloseGPRS" -> ~gprs' /\ ~suspended'
             [] program = "gsmCloseSocket" -> power' = "on" /\ ~suspended'
             [] program = "gsmConnectToServer_Multi" -> power' = "online"
             [] program = "gsmEmailString" -> mailed' = 1
             [] OTHER -> TRUE]_vars

(* Nobody looks at what becomes of the firewall, but after gsm_init every  *)
(* rule is there, unless the modem has hung or failed in all tries of one. *)
FirewallShut ==
    [][Ended /\ program = "gsm_init" /\ result' = 1 /\ power' = "on" /\ faults' < FirewallTries =>
           firewall' = 1 .. RuleCount]_vars

(* gsm_get_imei waits for a character that is not a line end. *)
AwaitingImei == In("number", "wait") /\ Step = gsm_get_imei

(* Every call returns, whatever the modem does, if it fails finitely often; *)
(* but for gsm_init, which gsm_get_imei may keep waiting for the IMEI.      *)
CallsReturn == []<>Idle \/ <>[]AwaitingImei
=============================================================================
