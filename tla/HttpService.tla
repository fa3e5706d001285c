----------------------------- MODULE HttpService -----------------------------
(***************************************************************************)
(* What a client, and the application behind the server, may take          *)
(* http-server.c for: a server of this client alone.  It is asked one      *)
(* thing.  It decides once on what it answers: a refusal, or the reply of  *)
(* the application, which is called for it, once, and given what the       *)
(* client sent.  Nothing goes out before that, and what goes out is that   *)
(* answer in order and from its beginning, until all of it has arrived or  *)
(* the client has left.                                                    *)
(***************************************************************************)
EXTENDS Integers, Sequences

CONSTANTS
    Client,
    Requests,           \* what a client may ask
    Refusals(_, _),     \* the answers of the server itself, by client and request
    Accepts(_, _),      \* the answers of the application
    Given(_, _),        \* what the application is given of a request
    Nothing             \* it has not been called

VARIABLES
    phase,              \* "free", "waiting", "output" or "closed"
    asked,              \* the request, once somebody is connected
    given,              \* to the application
    answer,             \* that was decided on, empty before
    got                 \* what has arrived at the client

service == <<phase, asked, given, answer, got>>

Untouched == given = Nothing /\ answer = <<>> /\ got = <<>>

Init == phase = "free" /\ Untouched

Connect ==
    /\ phase = "free" /\ phase' = "waiting"
    /\ asked' \in Requests
    /\ UNCHANGED <<given, answer, got>>

Refuse ==
    /\ phase = "waiting" /\ phase' = "output"
    /\ answer' \in Refusals(Client, asked)
    /\ UNCHANGED <<asked, given, got>>

Call ==
    /\ phase = "waiting" /\ phase' = "output"
    /\ answer' \in Accepts(Client, asked)
    /\ given' = Given(Client, asked)
    /\ UNCHANGED <<asked, got>>

Deliver ==
    /\ phase = "output"
    /\ \E n \in Len(got) .. Len(answer) : got' = SubSeq(answer, 1, n)
    /\ UNCHANGED <<phase, asked, given, answer>>

Finish ==
    /\ phase = "output" /\ phase' = "closed"
    /\ got = answer
    /\ UNCHANGED <<asked, given, answer, got>>

Leave == phase # "free" /\ phase' = "free" /\ Untouched'

Next == Connect \/ Refuse \/ Call \/ Deliver \/ Finish \/ Leave

Spec == Init /\ [][Next]_service
=============================================================================
