----------------------------- MODULE HttpServer -----------------------------
(***************************************************************************)
(* http-server.c: one protothread per connection, all of them driven by    *)
(* the TCP/IP events of one process.  A thread runs until it has to wait:  *)
(* for the next token of its request (PSOCK_READTO, PSOCK_READBUF) or for  *)
(* the acknowledgement of a full output buffer                             *)
(* (PSOCK_BUFFERED_STRING_SEND).  What it keeps in `static' locals --      *)
(* error, readBytes, p, nIndex -- is shared by all connections.            *)
(*                                                                         *)
(* A request is a record: what is its method, what is its url, how many    *)
(* bytes of body does it announce, how many more than that does the client *)
(* send, and how many headers does the application add to its answer.  It  *)
(* arrives token by token.  A reply is a sequence of pieces, each the      *)
(* string of one call of PSOCK_BUFFERED_STRING_SEND.                       *)
(***************************************************************************)
EXTENDS Integers, Sequences, FiniteSets, SequencesExt

CONSTANTS
    Conns,          \* the slots of uip_conns
    Requests,       \* what the clients may ask
    Together,       \* those of them that are made while others are served
    HeapBlocks,     \* how many blocks malloc can give
    OutBuf,         \* how many pieces inputBuf holds as an output buffer
    MaxHeaders,     \* MAX_RESPONSE_HEADERS
    NoConn          \* no connection

ASSUME SizesAssumption ==
    /\ HeapBlocks \in Nat /\ OutBuf \in Nat \ {0} /\ MaxHeaders \in Nat \ {0}
    /\ NoConn \notin Conns
    /\ IsFiniteSet(Conns)
    /\ \A r \in Requests :
        r.url \in {"ok", "long", "bad"} /\ r.size \in Nat /\ r.excess \in Nat /\ r.headers \in Nat

VARIABLES
    running,        \* the connection whose event is being handled
    conn,           \* ConnectionState_t and the TCP connection, by slot
    error,          \* static of handleRequest
    readBytes,      \* static of handleRequest
    p,              \* static of sendData: what is still to be copied
    nIndex,         \* static of sendData
    leaked          \* blocks of the heap that nothing points to

vars == <<running, conn, error, readBytes, p, nIndex, leaked>>

-----------------------------------------------------------------------------
(* Requests and replies *)

Piece(kind, of, n) == [kind |-> kind, of |-> of, n |-> n]
Empty   == Piece("empty", NoConn, 0)
Garbage == Piece("garbage", NoConn, 0)      \* what is left of a dead stack frame

Tokens(r) ==
    <<"method", "url", "version">> \o (IF r.size > 0 THEN <<"length">> ELSE <<>>)
        \o <<"end">> \o [i \in 1 .. r.size + r.excess |-> "byte"]

(* The body is what was announced. *)
Body(c, r) == [i \in 1 .. r.size |-> <<c, i>>]

isHttpMethodHandled(method) == method \in {"GET", "HEAD", "POST", "PUT", "DELETE"}

(* The reply that sendData produces for a connection of its own. *)
ReplyOf(c, status, headers, called) ==
    <<Piece("version", NoConn, 0), Piece("status", NoConn, status)>>
        \o [i \in 1 .. headers |-> Piece("header", c, i - 1)]
        \o <<Piece("blank", NoConn, 0)>>
        \o (IF called THEN <<Piece("body", c, 0)>> ELSE <<>>)

LesserOfUnchecked(a, b) == a
LesserOf(a, b) == IF a < b THEN a ELSE b

(* What a request may be refused with: 503 for an unknown method, 414 or   *)
(* 400 for its url, and 503 when there was no memory for its body.         *)
Faults(r) ==
    IF ~isHttpMethodHandled(r.method) THEN {503}
    ELSE IF r.url = "long" THEN {414}
    ELSE IF r.url = "bad" THEN {400}
    ELSE IF r.size > 0 THEN {503} ELSE {}

Refusals(c, r) == {ReplyOf(c, status, 1, FALSE) : status \in Faults(r)}

(* What the application answers.  The Server header comes last, if there   *)
(* is room for it.                                                         *)
Accepts(c, r) ==
    IF isHttpMethodHandled(r.method) /\ r.url = "ok"
    THEN {ReplyOf(c, 200, LesserOf(r.headers + 1, MaxHeaders), TRUE)} ELSE {}

Replies(c, r) == Refusals(c, r) \cup Accepts(c, r)

(* A request without a fault of its own or a body, the reply to which fits *)
(* the output buffer: its thread never waits with something of its own in  *)
(* a static.                                                               *)
Plain(r) ==
    /\ r.url = "ok" /\ r.size = 0
    /\ \A c \in Conns : \A s \in Replies(c, r) : Len(s) <= OutBuf

(* What the statics of the threads need to be safe: what is asked while    *)
(* others are served is plain, and the buffer holds more than the version, *)
(* so that the wait for an acknowledgement does not fall on the array with *)
(* the status code.                                                        *)
Undisturbed == OutBuf > 1 /\ \A r \in Together : Plain(r)

-----------------------------------------------------------------------------
(* The slots and the heap *)

FreeSlot ==
    [state |-> "free", at |-> "begin",
     req |-> [method |-> "", url |-> "ok", size |-> 0, excess |-> 0, headers |-> 0],
     arrived |-> 0, taken |-> 0, postDataSize |-> 0, postData |-> <<>>, spilt |-> FALSE,
     requestType |-> "", called |-> FALSE, seen |-> <<>>, statusCode |-> 200, numOfResponseHeaders |-> 0,
     outbuf |-> <<>>, unacked |-> FALSE, sent |-> <<>>]

Open == {c \in Conns : conn[c].state # "free"}
HoldingPost == {c \in Conns : conn[c].postData # <<>>}
InUse == Cardinality(Open) + Cardinality(HoldingPost) + leaked
CanMalloc == InUse < HeapBlocks

Statics == <<error, readBytes, p, nIndex>>
Becomes(c, r) == conn' = [conn EXCEPT ![c] = r]

-----------------------------------------------------------------------------
(* Events of the TCP/IP stack: httpdProcess.  No thread runs while one is  *)
(* delivered.  A poll finds the thread waiting and changes nothing.        *)

(* uip_connected(): a connection state is allocated and its thread started. *)
(* Without memory for it uip_abort() refuses the connection.                *)
Connect(c, r) ==
    /\ running = NoConn
    /\ conn[c].state = "free"
    /\ Open # {} => {r} \cup {conn[d].req : d \in Open} \subseteq Together
    /\ CanMalloc
    /\ Becomes(c, [FreeSlot EXCEPT !.state = "waiting", !.req = r])
    /\ running' = c
    /\ UNCHANGED <<Statics, leaked>>

(* New data: the next n tokens of the request. *)
Segment(c, n) ==
    /\ running = NoConn
    /\ conn[c].state = "waiting"
    /\ conn[c].arrived + n <= Len(Tokens(conn[c].req))
    /\ Becomes(c, [conn[c] EXCEPT !.arrived = @ + n])
    /\ running' = c
    /\ UNCHANGED <<Statics, leaked>>

(* The client acknowledges what was sent: the buffer can be filled again. *)
Acked(c) ==
    /\ running = NoConn
    /\ conn[c].unacked
    /\ Becomes(c, [conn[c] EXCEPT !.unacked = FALSE, !.sent = @ \o conn[c].outbuf, !.outbuf = <<>>])
    /\ running' = c
    /\ UNCHANGED <<Statics, leaked>>

(* The end of a connection frees its state, and only its state: a body     *)
(* that was not answered yet is lost.                                      *)
LeakOf(c) == IF conn[c].postData # <<>> THEN 1 ELSE 0
Release(c) ==
    /\ Becomes(c, FreeSlot)
    /\ leaked' = leaked + LeakOf(c)
    /\ UNCHANGED <<running, Statics>>

Closed(c)  == running = NoConn /\ conn[c].state = "closed" /\ Release(c)

(* uip_aborted() or uip_timedout() *)
Aborted(c) == running = NoConn /\ conn[c].state \in {"waiting", "output"} /\ Release(c)

-----------------------------------------------------------------------------
(* handleRequest *)

Waits(c, label) == running = c /\ conn[c].state = "waiting" /\ conn[c].at = label

(* The code before the first PSOCK_READTO runs once per request. *)
ReinitNever(c) == error
Reinit(c) == "none"
Begin(c) ==
    /\ Waits(c, "begin")
    /\ error' = Reinit(c)
    /\ Becomes(c, [conn[c] EXCEPT !.at = "method"])
    /\ UNCHANGED <<running, readBytes, p, nIndex, leaked>>

(* The thread yields when the segment is used up. *)
NeedsInput(c) ==
    /\ running = c /\ conn[c].state = "waiting" /\ conn[c].at # "begin" /\ ~conn[c].spilt
    /\ conn[c].taken = conn[c].arrived
    /\ running' = NoConn
    /\ UNCHANGED <<conn, Statics, leaked>>

(* A token is read and the thread goes on at the next label. *)
Reads(c, label) == Waits(c, label) /\ conn[c].taken < conn[c].arrived
Token(c) == Tokens(conn[c].req)[conn[c].taken + 1]
Took(c) == [conn[c] EXCEPT !.taken = @ + 1]
ToOutput(r, status) == [r EXCEPT !.state = "output", !.at = "begin", !.statusCode = status]

ReadMethod(c) ==
    /\ Reads(c, "method")
    /\ Becomes(c, IF isHttpMethodHandled(conn[c].req.method)
                  THEN [Took(c) EXCEPT !.at = "url", !.requestType = conn[c].req.method]
                  ELSE ToOutput(Took(c), 503))
    /\ UNCHANGED <<running, Statics, leaked>>

(* parseUrl runs only if there is no error so far *)
UrlError(c) ==
    LET tooLong == IF conn[c].req.url = "long" THEN "URL_TOO_LONG" ELSE error
    IN  IF tooLong = "none" /\ conn[c].req.url = "bad" THEN "URL_INVALID" ELSE tooLong

UrlStatus(e) == IF e = "URL_TOO_LONG" THEN 414 ELSE 400

ReadUrl(c) ==
    /\ Reads(c, "url")
    /\ error' = UrlError(c)
    /\ Becomes(c, IF error' = "none" THEN [Took(c) EXCEPT !.at = "version"] ELSE ToOutput(Took(c), UrlStatus(error')))
    /\ UNCHANGED <<running, readBytes, p, nIndex, leaked>>

ReadVersion(c) ==
    /\ Reads(c, "version")
    /\ Becomes(c, [Took(c) EXCEPT !.at = "header"])
    /\ UNCHANGED <<running, Statics, leaked>>

(* A header line: the Content-Length is the one that matters. *)
ReadHeader(c) ==
    /\ Reads(c, "header") /\ Token(c) = "length"
    /\ Becomes(c, [Took(c) EXCEPT !.postDataSize = conn[c].req.size])
    /\ UNCHANGED <<running, Statics, leaked>>

(* Lines 595 to 617: the application is called unless `error' is set. *)
Answer(r, e) ==
    CASE e = "none" -> [ToOutput(r, 200) EXCEPT !.called = TRUE, !.seen = r.postData,
                                                !.numOfResponseHeaders = LesserOf(r.req.headers, MaxHeaders)]
      [] e = "MEMORY_ALLOC_ERR" -> ToOutput(r, 503)
      [] OTHER -> ToOutput(r, 500)

(* The empty line: a body follows if its size is not zero. *)
StartReadingStale == readBytes
StartReading == 0
EndOfHeaders(c) ==
    /\ Reads(c, "header") /\ Token(c) = "end"
    /\ UNCHANGED <<running, p, nIndex, leaked>>
    /\ \/ /\ conn[c].postDataSize = 0
          /\ Becomes(c, Answer(Took(c), error))
          /\ UNCHANGED <<error, readBytes>>
       \/ /\ conn[c].postDataSize > 0 /\ CanMalloc
          /\ Becomes(c, [Took(c) EXCEPT !.at = "body",
                                        !.postData = [i \in 1 .. conn[c].postDataSize |-> <<NoConn, 0>>]])
          /\ readBytes' = StartReading
          /\ UNCHANGED error
       \/ /\ conn[c].postDataSize > 0 /\ ~CanMalloc
          /\ error' = "MEMORY_ALLOC_ERR" /\ readBytes' = StartReading
          /\ Becomes(c, Answer(Took(c), error'))

(* What the segment still holds is copied behind what was read before. *)
CopiedToStart(c, n) ==
    [i \in 1 .. Len(conn[c].postData) |-> IF i <= n THEN <<c, conn[c].req.size - n + i>> ELSE conn[c].postData[i]]
Copied(c, n) ==
    LET r == conn[c].req
        first == conn[c].taken - (Len(Tokens(r)) - r.size - r.excess)
    IN  [i \in 1 .. Len(conn[c].postData) |->
            IF i \in readBytes + 1 .. readBytes + n THEN <<c, first + i - readBytes>> ELSE conn[c].postData[i]]

AllReadAndMore(c, n) == readBytes + n > conn[c].postDataSize
AllRead(c, n) == readBytes + n >= conn[c].postDataSize

(* Nothing compares a segment with the block: what is too much for it goes *)
(* behind it.  What the heap holds is unknown from then on, and the model  *)
(* ends: the thread keeps running and takes no further step.               *)
ReadBody(c) ==
    /\ Reads(c, "body")
    /\ LET n == conn[c].arrived - conn[c].taken
           r == [conn[c] EXCEPT !.taken = conn[c].arrived, !.postData = Copied(c, n),
                                !.spilt = readBytes + n > conn[c].postDataSize]
       IN  /\ readBytes' = IF AllRead(c, n) THEN readBytes + n + 1 ELSE readBytes + n
           /\ Becomes(c, IF AllRead(c, n) /\ ~r.spilt THEN Answer(r, error) ELSE r)
    /\ UNCHANGED <<running, error, p, nIndex, leaked>>

-----------------------------------------------------------------------------
(* handleResponse and sendData *)

Sends(c, label) == running = c /\ conn[c].state = "output" /\ ~conn[c].unacked /\ conn[c].at = label

(* Before the first byte goes out the body is freed and the Server header  *)
(* is added.                                                               *)
StartResponse(c) ==
    /\ Sends(c, "begin")
    /\ Becomes(c, [conn[c] EXCEPT !.postData = <<>>, !.postDataSize = 0, !.at = "version",
                                  !.numOfResponseHeaders = LesserOf(@ + 1, MaxHeaders)])
    /\ p' = Piece("version", NoConn, 0)
    /\ UNCHANGED <<running, error, readBytes, nIndex, leaked>>

(* PSOCK_BUFFERED_STRING_SEND copies what p points to and advances p. *)
Copy(c) ==
    /\ running = c /\ conn[c].state = "output" /\ conn[c].at # "begin"
    /\ p # Empty /\ Len(conn[c].outbuf) < OutBuf
    /\ Becomes(c, [conn[c] EXCEPT !.outbuf = Append(@, p)])
    /\ p' = Empty
    /\ UNCHANGED <<running, error, readBytes, nIndex, leaked>>

(* Behind the body the buffer is sent even if it is not full. *)
ForcedNever(c) == FALSE
Forced(c) == p = Empty /\ conn[c].at = "body" /\ conn[c].outbuf # <<>>

(* The buffer is sent and the thread yields.  The array on the stack that  *)
(* holds the status code does not survive that.                            *)
Flush(c) ==
    /\ running = c /\ conn[c].state = "output" /\ conn[c].at # "begin" /\ ~conn[c].unacked
    /\ \/ p # Empty /\ Len(conn[c].outbuf) = OutBuf
       \/ Forced(c)
    /\ Becomes(c, [conn[c] EXCEPT !.unacked = TRUE])
    /\ p' = IF p.kind = "status" THEN Garbage ELSE p
    /\ running' = NoConn
    /\ UNCHANGED <<error, readBytes, nIndex, leaked>>

SendStatus(c) ==
    /\ Sends(c, "version") /\ p = Empty
    /\ p' = Piece("status", NoConn, conn[c].statusCode)
    /\ Becomes(c, [conn[c] EXCEPT !.at = "status"])
    /\ UNCHANGED <<running, error, readBytes, nIndex, leaked>>

(* The head of the loop over the headers, with nIndex = n *)
HeaderOrBlankBeyond(c, n) ==
    /\ nIndex' = n
    /\ IF n <= conn[c].numOfResponseHeaders
       THEN p' = Piece("header", c, n) /\ Becomes(c, [conn[c] EXCEPT !.at = "header"])
       ELSE p' = Piece("blank", NoConn, 0) /\ Becomes(c, [conn[c] EXCEPT !.at = "blank"])
    /\ UNCHANGED <<running, error, readBytes, leaked>>
HeaderOrBlank(c, n) ==
    /\ nIndex' = n
    /\ IF n < conn[c].numOfResponseHeaders
       THEN p' = Piece("header", c, n) /\ Becomes(c, [conn[c] EXCEPT !.at = "header"])
       ELSE p' = Piece("blank", NoConn, 0) /\ Becomes(c, [conn[c] EXCEPT !.at = "blank"])
    /\ UNCHANGED <<running, error, readBytes, leaked>>

SendFirstHeader(c) == Sends(c, "status") /\ p = Empty /\ HeaderOrBlank(c, 0)
SendNextHeader(c) == Sends(c, "header") /\ p = Empty /\ HeaderOrBlank(c, nIndex + 1)

SendBody(c) ==
    /\ Sends(c, "blank") /\ p = Empty
    /\ p' = IF conn[c].called THEN Piece("body", c, 0) ELSE Empty
    /\ Becomes(c, [conn[c] EXCEPT !.at = "body"])
    /\ UNCHANGED <<running, error, readBytes, nIndex, leaked>>

(* PSOCK_CLOSE *)
Close(c) ==
    /\ Sends(c, "body") /\ p = Empty /\ conn[c].outbuf = <<>>
    /\ Becomes(c, [conn[c] EXCEPT !.state = "closed"])
    /\ running' = NoConn
    /\ UNCHANGED <<Statics, leaked>>

-----------------------------------------------------------------------------
Init ==
    /\ running = NoConn
    /\ conn = [c \in Conns |-> FreeSlot]
    /\ error = "none" /\ readBytes = 0 /\ p = Empty /\ nIndex = 0
    /\ leaked = 0

handleRequest(c) ==
    \/ Begin(c) \/ NeedsInput(c) \/ ReadMethod(c) \/ ReadUrl(c) \/ ReadVersion(c)
    \/ ReadHeader(c) \/ EndOfHeaders(c) \/ ReadBody(c)

handleResponse(c) ==
    \/ StartResponse(c) \/ Copy(c) \/ Flush(c) \/ SendStatus(c) \/ SendFirstHeader(c)
    \/ SendNextHeader(c) \/ SendBody(c) \/ Close(c)

Arrives(c) == \E n \in 1 .. Len(Tokens(conn[c].req)) : Segment(c, n)

Event(c) ==
    \/ \E r \in Requests : Connect(c, r)
    \/ Arrives(c) \/ Acked(c) \/ Closed(c) \/ Aborted(c)

Next == \E c \in Conns : Event(c) \/ handleRequest(c) \/ handleResponse(c)

(* The threads run when they can; a client that stays sends the rest of    *)
(* its request and acknowledges what it gets.                              *)
Fairness == \A c \in Conns :
    /\ WF_vars(handleRequest(c)) /\ WF_vars(handleResponse(c))
    /\ SF_vars(Arrives(c)) /\ SF_vars(Acked(c)) /\ SF_vars(Closed(c))

Spec == Init /\ [][Next]_vars
FairSpec == Spec /\ Fairness

-----------------------------------------------------------------------------
(* Every variable keeps its type; in particular the position of a header   *)
(* is one of the response, and only one thread runs.                       *)
TypeOK ==
    /\ running \in Conns \cup {NoConn}
    /\ error \in {"none", "URL_TOO_LONG", "URL_INVALID", "MEMORY_ALLOC_ERR"}
    /\ readBytes \in Nat /\ nIndex \in 0 .. MaxHeaders /\ leaked \in Nat
    /\ InUse <= HeapBlocks
    /\ \A c \in Conns :
        /\ conn[c].state \in {"free", "waiting", "output", "closed"}
        /\ conn[c].at \in {"begin", "method", "url", "version", "header", "body", "status", "blank"}
        /\ conn[c].taken <= conn[c].arrived
        /\ conn[c].numOfResponseHeaders \in 0 .. MaxHeaders
        /\ Len(conn[c].outbuf) <= OutBuf

(* What a client has got is the beginning of a reply to its own request,   *)
(* and all of it when the connection is closed: no error, header, status   *)
(* or body of another connection is in it.                                 *)
OwnReply == \A c \in Conns :
    conn[c].state # "free" =>
        \E s \in Replies(c, conn[c].req) :
            IF conn[c].state = "closed" THEN conn[c].sent = s ELSE IsPrefix(conn[c].sent, s)

(* The application sees the method and exactly the body that this client   *)
(* announced and sent.                                                     *)
OwnBody == \A c \in Conns :
    conn[c].called => conn[c].seen = Body(c, conn[c].req) /\ conn[c].requestType = conn[c].req.method

(* The code relies on the client for the size of the body: a block is      *)
(* overrun only if the client that it was allocated for sends more than it *)
(* has announced.  What an earlier body has left in readBytes, and the     *)
(* segments a body comes in, never overrun one.                            *)
BodyFits == \A c \in Conns : conn[c].spilt => conn[c].req.excess > 0

(* A request is refused for its own faults only: 414 for a long url, 400   *)
(* for a bad one, 503 for an unknown method or for want of memory.         *)
OwnStatus == \A c \in Conns :
    LET r == conn[c].req
    IN  conn[c].state = "output" =>
            CASE conn[c].statusCode = 414 -> r.url = "long"
              [] conn[c].statusCode = 400 -> r.url = "bad"
              [] conn[c].statusCode = 503 -> ~isHttpMethodHandled(r.method) \/ r.size > 0
              [] OTHER -> conn[c].statusCode = 200

(* To every client, and to the application on its behalf, the server is    *)
(* one that serves nobody else (module HttpService): an answer is decided  *)
(* on once and not changed by what happens on another connection, the      *)
(* application is called once for it, and before anything is sent.         *)
Given(c, r) == <<r.method, Body(c, r)>>

(* The reply a thread has decided on, with the header it will add. *)
Promised(c) ==
    ReplyOf(c, conn[c].statusCode,
            IF conn[c].at = "begin" THEN LesserOf(conn[c].numOfResponseHeaders + 1, MaxHeaders)
            ELSE conn[c].numOfResponseHeaders,
            conn[c].called)

Service(c) == INSTANCE HttpService WITH
    Client <- c, Nothing <- <<>>,
    phase <- conn[c].state, asked <- conn[c].req, got <- conn[c].sent,
    given <- IF conn[c].called THEN <<conn[c].requestType, conn[c].seen>> ELSE <<>>,
    answer <- IF conn[c].state \in {"output", "closed"} THEN Promised(c) ELSE <<>>

ServiceSpec ==
    /\ \A c \in Conns : Service(c)!Init
    /\ [][\A c \in Conns : [Service(c)!Next]_(Service(c)!service)]_vars

(* Every connection comes to its end, unless a block was overrun. *)
Served == \A c \in Conns :
    conn[c].state = "waiting" ~> (conn[c].state = "free" \/ \E d \in Conns : conn[d].spilt)
=============================================================================
