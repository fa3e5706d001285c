----------------------------- MODULE GsmNetwork -------------------------------
(***************************************************************************)
(* The procedures of gsm.c that use the network: attaching, activating and *)
(* closing the context, sockets, and mail.                                 *)
(***************************************************************************)
EXTENDS GsmModem

Unconfigured == UNCHANGED <<configured, firewall>>
OnlyLink == UNCHANGED <<power, stack, history, calls>>

(* Attach, with the flags left alone when the answer never comes. *)
AttachUncleared ==
    /\ In("attach", "begin")
    /\ \E answer \in Answers :
           LET runned == IF program = "gsm_init" THEN {"ATCIND_COMMAND_RUNNED"} ELSE {}
           IN /\ Query(answer, attached)
              /\ sawAttached' = (sawAttached \/ answer = "right")
              /\ gsmStatus' =
                     IF answer = "right" THEN gsmStatus \cup {Step.name} \cup runned
                     ELSE IF answer = "wrong" THEN (gsmStatus \ {Step.name}) \cup runned
                     ELSE gsmStatus
              /\ IF answer = "right" \/ LastTry THEN Proceed(answer = "right")
                 ELSE /\ i' = i + 1
                      /\ UNCHANGED <<program, step, phase, j, k, result>>
    /\ UNCHANGED <<power, stack, modem, mailed, calls>>

(* gsm_init's loop, gsmConnectedToMobileNetwork: an answer that does not   *)
(* come leaves the flag alone, until the last one.                         *)
Attach ==
    /\ In("attach", "begin")
    /\ \E answer \in Answers :
           LET runned == IF program = "gsm_init" THEN {"ATCIND_COMMAND_RUNNED"} ELSE {}
           IN /\ Query(answer, attached)
              /\ sawAttached' = (sawAttached \/ answer = "right")
              /\ gsmStatus' =
                     IF answer = "right" THEN gsmStatus \cup {Step.name} \cup runned
                     ELSE IF LastTry THEN gsmStatus \ ({Step.name} \cup runned)
                     ELSE IF answer = "wrong" THEN (gsmStatus \ {Step.name}) \cup runned
                     ELSE gsmStatus
              /\ IF answer = "right" \/ LastTry THEN Proceed(answer = "right")
                 ELSE /\ i' = i + 1
                      /\ UNCHANGED <<program, step, phase, j, k, result>>
    /\ UNCHANGED <<power, stack, modem, mailed, calls>>

(* gsmEstablishGPRS: of gsm_init and the download, or of a mail.           *)
Established(ok) ==
    IF Step.procedure = "establish" THEN Done(ok)
    ELSE IF ok THEN GoOn("config", 0, j)
    ELSE IF j + 1 < Step.tries THEN GoOn("begin", 0, j + 1)
    ELSE Done(FALSE)

EstablishTries == 8

(* gsmInitGprs with the context of the n-th operator, in one step: three   *)
(* loops of four commands each, and neither what becomes of them nor the   *)
(* result is looked at.  Only public.telenor.se is what gsm_init asks for. *)
OperatorsContext(n) ==
    IF n % 4 = 3 THEN configured \cup {gsmInitGprs.name} ELSE configured \ {gsmInitGprs.name}

SetContext(n) ==
    \E failed \in 0 .. 3 * gsmInitGprs.tries :
        /\ failed <= MaxFaults - faults /\ faults' = faults + failed
        /\ ~Listens => failed = 0
        /\ configured' \in (IF Listens THEN {configured, OperatorsContext(n)} ELSE {configured})
        /\ Listens /\ configured' # OperatorsContext(n) => failed >= gsmInitGprs.tries

(* Ask, and define and activate the context with one operator after the    *)
(* other.  The digit of the answer may not be read; anything but '0' is    *)
(* taken for an active context.  gsm_init asks only if the modem is on the *)
(* network.                                                                *)
Establish ==
    /\ \/ /\ In("establish", "begin") \/ In("mail", "establish")
          /\ IF In("establish", "begin") /\ "CONNECTED_TO_MOBILE_NETWORK" \notin gsmStatus
                 THEN Proceed(TRUE) /\ UNCHANGED <<gsmStatus, faults>>
                 ELSE \/ \E answer \in Answers :
                             /\ Query(answer, gprs)
                             /\ IF answer = "wrong" THEN GoOn("context", 0, j)
                                ELSE Established(answer = "right")
                      \/ Listens /\ Fails /\ (Established(TRUE) \/ GoOn("context", 0, j))
          /\ UNCHANGED <<configured, gprs>>
       \/ /\ In("establish", "context") \/ In("mail", "context")
          /\ SetContext(i)
          /\ GoOn("activate", i, j)
          /\ UNCHANGED gprs
       \/ /\ In("establish", "activate") \/ In("mail", "activate")
          /\ \E o \in Outcomes :
                 /\ Exchange(o, configured, "format" \in configured)
                 /\ gprs' \in (IF o \in {"ok", "lost"} THEN {gprs, attached} ELSE {gprs})
          /\ GoOn("verify", i, j)
       \/ /\ In("establish", "verify") \/ In("mail", "verify")
          /\ \E answer \in Answers :
                 /\ Query(answer, gprs)
                 /\ IF answer = "right" \/ i + 1 = EstablishTries THEN Established(answer = "right")
                    ELSE GoOn("context", i + 1, j)
          /\ UNCHANGED <<configured, gprs>>
    /\ UNCHANGED <<attached, suspended, firewall>>
    /\ OnlyLink

(* gsmConnectToServer: the server may not answer; a CONNECT that is lost   *)
(* leaves the modem on the socket.                                         *)
Dial ==
    /\ In("dial", "begin")
    /\ \E o \in Outcomes :
           /\ o \in {"ok", "lost"} => Listens /\ gprs /\ ~suspended
           /\ power' = IF o \in {"ok", "lost"} THEN "online" ELSE power
           /\ IF o = "lost" THEN Fails ELSE UNCHANGED faults
           /\ IF o = "ok" \/ LastTry THEN Done(o = "ok") ELSE GoOn("begin", i + 1, 0)
    /\ UNCHANGED <<stack, modem, history, calls>>

(* gsm_download_file_http_get (module FirmwareDownload): it succeeds or not, *)
(* and the server may have hung up when it returns.                        *)
Download ==
    /\ In("download", "begin")
    /\ \E ok \in BOOLEAN : Done(ok)
    /\ power' \in (IF power = "online" THEN {"online", "on"} ELSE {power})
    /\ UNCHANGED <<stack, faults, modem, history, calls>>
-------------------------------------------------------------------------------
(* The context.                                                            *)

(* gsmCheckGprsEstablished: asked once; its flag is that of gsmInitGprs,   *)
(* and the digit of the answer may not be read.                            *)
CheckGprs ==
    /\ In("checkGprs", "begin")
    /\ \/ Unsent /\ IF LastTry THEN Done(FALSE) ELSE GoOn("begin", i + 1, 0)
       \/ Listens /\ \E answer \in Answers : Query(answer, gprs) /\ Done(answer = "right")
       \/ Listens /\ Fails /\ Done(TRUE)
    /\ Unconfigured /\ UNCHANGED link
    /\ OnlyLink

(* CloseGprs, with the answer taken for that to the deactivation. *)
CloseUnasked ==
    /\ \/ /\ In("closeGprs", "begin")
          /\ \E answer \in Answers :
                 /\ Query(answer, ~gprs)
                 /\ IF answer = "right" THEN Done(TRUE)
                    ELSE IF LastTry THEN GoOn("close", 0, 0)
                    ELSE GoOn("begin", i + 1, 0)
          /\ Unconfigured /\ UNCHANGED link
       \/ /\ In("closeGprs", "close")
          /\ \E o \in Outcomes :
                 /\ Exchange(o, configured, "format" \in configured)
                 /\ gprs' = (gprs /\ o \notin {"ok", "lost"})
                 /\ suspended' = (suspended /\ gprs')
                 /\ Done(o # "unsent")
          /\ UNCHANGED <<attached, firewall>>
    /\ OnlyLink

(* gsmCloseGPRS: ten times it asks whether the context is closed, then it  *)
(* closes it, as often, and asks; a command that cannot be sent counts     *)
(* twice.                                                                  *)
CloseGprs ==
    /\ \/ /\ In("closeGprs", "begin")
          /\ \E answer \in Answers :
                 /\ Query(answer, ~gprs)
                 /\ IF answer = "right" THEN Done(TRUE)
                    ELSE IF LastTry THEN GoOn("close", 0, 0)
                    ELSE GoOn("begin", i + 1, 0)
          /\ Unconfigured /\ UNCHANGED link
       \/ /\ In("closeGprs", "close")
          /\ \E o \in Outcomes :
                 /\ Exchange(o, configured, "format" \in configured)
                 /\ gprs' = (gprs /\ o \notin {"ok", "lost"})
                 /\ suspended' = (suspended /\ gprs')
                 /\ IF o # "unsent" THEN GoOn("verify", i, 0)
                    ELSE IF i + 2 >= Step.tries THEN Done(FALSE)
                    ELSE GoOn("close", i + 2, 0)
          /\ UNCHANGED <<attached, firewall>>
       \/ /\ In("closeGprs", "verify")
          /\ \E answer \in Answers :
                 /\ Query(answer, ~gprs)
                 /\ IF answer = "right" \/ LastTry THEN Done(answer = "right")
                    ELSE GoOn("close", i + 1, 0)
          /\ Unconfigured /\ UNCHANGED link
    /\ OnlyLink
-------------------------------------------------------------------------------
(* Sockets.                                                                *)

Retry(succeeded) ==
    IF succeeded \/ LastTry THEN Done(succeeded) ELSE GoOn("begin", i + 1, 0)

(* gsmSuspendSocket: the escape sequence means nothing to a modem that     *)
(* listens to commands; on a socket, what the peer sends may be taken for  *)
(* the OK.                                                                 *)
SuspendSocket ==
    /\ In("suspend", "begin")
    /\ \/ power = "online" /\ power' = "on" /\ suspended' = gprs
             /\ ((UNCHANGED faults /\ Retry(TRUE)) \/ (Fails /\ Retry(FALSE)))
       \/ power = "online" /\ Fails /\ UNCHANGED <<power, suspended>> /\ \E ok \in BOOLEAN : Retry(ok)
       \/ power # "online" /\ UNCHANGED <<power, suspended, faults>> /\ Retry(FALSE)
    /\ Unconfigured
    /\ UNCHANGED <<stack, attached, gprs, history, calls>>

(* gsmResumeSocketConnection: whatever the modem says to the command. *)
ResumeSocket ==
    /\ In("resume", "begin")
    /\ \/ Sent /\ Retry(TRUE)
          /\ IF suspended THEN power' = "online" /\ suspended' = FALSE
             ELSE UNCHANGED <<power, suspended>>
       \/ Unsent /\ Retry(FALSE) /\ UNCHANGED <<power, suspended>>
    /\ Unconfigured
    /\ UNCHANGED <<stack, attached, gprs, history, calls>>

CloseSocket ==
    /\ In("closeSocket", "begin")
    /\ \E o \in Outcomes :
           /\ Exchange(o, configured, "format" \in configured)
           /\ suspended' = (suspended /\ o \notin {"ok", "lost"})
           /\ Retry(o = "ok")
    /\ UNCHANGED <<attached, gprs, firewall>>
    /\ OnlyLink
-------------------------------------------------------------------------------
(* gsmEmailString: wait for the network, activate the context, configure,  *)
(* and give the command; when the modem asks for the text, send it.        *)

MailNetwork ==
    /\ In("mail", "begin")
    /\ \E answer \in Answers :
           /\ Query(answer, attached)
           /\ IF answer = "right" THEN GoOn("establish", 0, j)
              ELSE IF j + 1 < Step.tries THEN GoOn("begin", 0, j + 1)
              ELSE Done(FALSE)
    /\ Unconfigured /\ UNCHANGED link
    /\ OnlyLink

(* The modem that has asked for the text takes all that comes for text; if *)
(* the question is not seen, it is left so and the OK is awaited in vain.  *)
MailCommand ==
    /\ In("mail", "command")
    /\ \/ Listens /\ gprs /\ power' = "typing"
             /\ ((UNCHANGED faults /\ GoOn("text", 0, j)) \/ (Fails /\ Done(FALSE)))
       \/ (Unsent \/ (Sent /\ ~gprs)) /\ UNCHANGED power /\ Done(FALSE)
    /\ UNCHANGED <<stack, modem, history, calls>>

MailText ==
    /\ In("mail", "text")
    /\ IF power = "typing"
           THEN /\ power' = "on"
                /\ \E taken \in BOOLEAN :
                       /\ mailed' = IF taken THEN mailed + 1 ELSE mailed
                       /\ \/ UNCHANGED faults /\ Done(taken /\ "format" \in configured)
                          \/ taken /\ Fails /\ Done(FALSE)
           ELSE UNCHANGED <<power, mailed, faults>> /\ Done(FALSE)
    /\ UNCHANGED <<stack, modem, sawAttached, calls>>
-------------------------------------------------------------------------------
Use ==
    \/ Attach \/ Establish \/ Dial \/ Download \/ CheckGprs \/ CloseGprs
    \/ SuspendSocket \/ ResumeSocket \/ CloseSocket \/ MailNetwork \/ MailCommand \/ MailText
===============================================================================
