------------------------------ MODULE HttpText ------------------------------
(***************************************************************************)
(* http-server.c: the texts of one request and of its reply.  The url and  *)
(* the values of the headers are copied one behind the other into          *)
(* connBuffer, each with its NUL, and everything else is a pointer into    *)
(* it; the url is cut and decoded where it lies.  The application reads    *)
(* the variables of the query and of the body and writes headers and body  *)
(* of the reply.                                                           *)
(*                                                                         *)
(* A text is the sequence of its ASCII codes.  How the texts arrive, and   *)
(* the other connections, are module HttpServer's.                         *)
(***************************************************************************)
EXTENDS Integers, Sequences, FiniteSets, SequencesExt

CONSTANTS
    Urls,               \* Urls[n] are the urls, put together of n pieces
    Bodies,             \* Bodies[n] is what a POST sends, of n pieces
    Lines,              \* the header lines of requests, without line feed
    Values,             \* values of reply headers and parts of reply bodies
    Budget,             \* bound: a behaviour has so many pieces, lines and values
    HandledNames,       \* the names given to http_server_handle_req_header
    Variables,          \* the names of variables the application asks for
    Sizes,              \* and the sizes of what it has room for
    MaxRequestHeaders,  \* MAX_REQUEST_HEADERS
    MaxResponseHeaders, \* MAX_RESPONSE_HEADERS
    ResponseSize        \* RESPONSE_BUFFER_SIZE

ASSUME HttpTextAssumption ==
    /\ Budget \in Nat /\ ResponseSize \in Nat
    /\ MaxRequestHeaders \in Nat /\ MaxResponseHeaders \in Nat
    /\ \A n \in 0 .. Budget : Urls[n] \subseteq Seq(1 .. 127) /\ Bodies[n] \subseteq Seq(1 .. 127)
    /\ Lines \subseteq Seq(1 .. 127) /\ Values \subseteq Seq(1 .. 127)
    /\ Sizes \subseteq Nat \ {0}

VARIABLES
    at,                 \* where handleRequest is: "url", "headers", "service", "refused"
    connBuffer,         \* the connBuffUsedSize characters of it that are used
    resourceUrl,        \* pointers are positions in connBuffer, NULL is 0
    queryString,
    queryStringSize,
    headers,            \* of the request: those that are asked for
    postData,           \* the body, or NoData
    resHeaders,         \* response.headers
    responseBuffer,
    responseBuffIndex,
    told                \* history: what client and application gave

textVars == <<at, connBuffer, resourceUrl, queryString, queryStringSize, headers, postData,
              resHeaders, responseBuffer, responseBuffIndex, told>>

request == <<resourceUrl, queryString, queryStringSize, headers, postData>>
reply   == <<resHeaders, responseBuffer, responseBuffIndex>>

-----------------------------------------------------------------------------
(* Characters and strings *)

Nul == 0
Space == 32
Percent == 37
Ampersand == 38
Plus == 43
Slash == 47
Colon == 58
Equals == 61
Question == 63
Http == <<104, 116, 116, 112>>

(* A name does not hold what ends it. *)
ASSUME NamesAssumption ==
    /\ HandledNames \in Seq(Seq((1 .. 127) \ {Colon}))
    /\ Variables \subseteq Seq((1 .. 127) \ {Ampersand})

NoData == <<Nul>>       \* no text holds a NUL

StringAt(buffer, pointer) ==
    LET end == SelectInSubSeq(buffer, pointer, Len(buffer), LAMBDA c : c = Nul)
    IN  SubSeq(buffer, pointer, end - 1)

strchr(s, char) == SelectInSeq(s, LAMBDA c : c = char)

isxdigit(c) == c \in 48 .. 57 \cup 65 .. 70 \cup 97 .. 102
HEXTOI(c) == IF c <= 57 THEN c - 48 ELSE IF c <= 70 THEN c + 32 - 87 ELSE c - 87

(* What is copied is put behind what is there. *)
http_server_put_in_conn_buffer(buffer, value) == buffer \o value \o <<Nul>>

-----------------------------------------------------------------------------
(* decode: one character of the result for each turn of the loop, as long  *)
(* as there is room for it and the NUL                                     *)

Escape(src, i) ==
    /\ src[i] = Percent /\ i + 2 <= Len(src)
    /\ isxdigit(src[i + 1]) /\ isxdigit(src[i + 2])

Character(src, i, bIsForm) ==
    IF Escape(src, i) THEN 16 * HEXTOI(src[i + 1]) + HEXTOI(src[i + 2])
    ELSE IF bIsForm /\ src[i] = Plus THEN Space ELSE src[i]

DecodeOne(src, bIsForm, l) ==
    IF l.i > Len(src) THEN l
    ELSE [i |-> l.i + (IF Escape(src, l.i) THEN 3 ELSE 1), text |-> Append(l.text, Character(src, l.i, bIsForm))]

decode(src, nDstLen, bIsForm) ==
    LET Loop[j \in 0 .. nDstLen - 1] ==
            IF j = 0 THEN [i |-> 1, text |-> <<>>] ELSE DecodeOne(src, bIsForm, Loop[j - 1])
        end == Loop[nDstLen - 1]
    IN  [all |-> end.i > Len(src), text |-> end.text]

(* getVariable: every pair with this name is decoded into the output, so   *)
(* the last one stays.                                                     *)
AnyName(text, name, start) ==
    /\ text[start + Len(name)] = Equals
    /\ SubSeq(text, start, start + Len(name) - 1) = name
Named(text, name, start) ==
    /\ start = 1 \/ text[start - 1] = Ampersand
    /\ text[start + Len(name)] = Equals
    /\ SubSeq(text, start, start + Len(name) - 1) = name

ValueEnd(text, value) ==
    LET next == SelectInSubSeq(text, value, Len(text), LAMBDA c : c = Ampersand)
    IN  IF next = 0 THEN Len(text) + 1 ELSE next

ScanOne(name, text, nOutputLen, form, l) ==
    LET value == l.start + Len(name) + 1
    IN  IF l.start + Len(name) > Len(text) THEN l
        ELSE IF ~Named(text, name, l.start) THEN [l EXCEPT !.start = @ + 1]
        ELSE [start |-> value + 1,
              got |-> decode(SubSeq(text, value, ValueEnd(text, value) - 1), nOutputLen, form)]

getVariable(name, text, nOutputLen, form) ==
    LET Loop[turn \in 0 .. Len(text)] ==
            IF turn = 0 THEN [start |-> 1, got |-> [all |-> FALSE, text |-> <<>>]]
            ELSE ScanOne(name, text, nOutputLen, form, Loop[turn - 1])
        got == Loop[Len(text)].got
    IN  [found |-> got.all, out |-> got.text]

Nothing == [found |-> FALSE, out |-> NoData]    \* the output is left alone

http_server_get_query_variable(name, size) ==
    IF queryString = 0 THEN Nothing
    ELSE getVariable(name, SubSeq(connBuffer, queryString, queryString + queryStringSize - 1), size, FALSE)

http_server_get_post_variable(name, size) ==
    IF postData = NoData THEN Nothing ELSE getVariable(name, postData, size, TRUE)

-----------------------------------------------------------------------------
(* parseUrl *)

(* strchr(++urlBuffer, '/') three times: where the third slash is behind   *)
(* the first character, 0 if there are fewer                               *)
ThirdSlash(url) ==
    LET Behind(i) == IF i = 0 THEN 0 ELSE SelectInSubSeq(url, i + 1, Len(url), LAMBDA c : c = Slash)
    IN  Behind(Behind(Behind(1)))

PathStart(url) ==
    IF url # <<>> /\ url[1] = Slash THEN 1
    ELSE IF IsPrefix(Http, url) THEN ThirdSlash(url) ELSE 0

(* The query is cut off first, then what is before it is decoded in place: *)
(* it gets shorter, the query stays where it is.                           *)
Cut(buffer, pointer) ==
    LET path == StringAt(buffer, pointer)
        mark == strchr(path, Question)
    IN  [buffer |-> IF mark = 0 THEN buffer ELSE [buffer EXCEPT ![pointer + mark - 1] = Nul],
         queryString |-> IF mark = 0 THEN 0 ELSE pointer + mark,
         queryStringSize |-> IF mark = 0 THEN 0 ELSE Len(path) - mark]

DecodedInPlace(buffer, pointer) ==
    LET raw == StringAt(buffer, pointer)
        new == decode(raw, Len(raw) + 1, FALSE).text \o <<Nul>>
    IN  [i \in DOMAIN buffer |-> IF i \in pointer .. pointer + Len(new) - 1 THEN new[i - pointer + 1] ELSE buffer[i]]

ParsedDecodedFirst(buffer, pointer) == Cut(DecodedInPlace(buffer, pointer), pointer)
Parsed(buffer, pointer) ==
    LET cut == Cut(buffer, pointer)
    IN  [cut EXCEPT !.buffer = DecodedInPlace(@, pointer)]

parseUrl(url) ==
    /\ at = "url"
    /\ UNCHANGED <<headers, postData, reply>>
    /\ IF PathStart(url) = 0
       THEN /\ at' = "refused"
            /\ UNCHANGED <<connBuffer, resourceUrl, queryString, queryStringSize>>
       ELSE LET here   == Len(connBuffer) + 1
                parsed == Parsed(http_server_put_in_conn_buffer(connBuffer, SubSeq(url, PathStart(url), Len(url))), here)
            IN  /\ at' = "headers"
                /\ resourceUrl' = here
                /\ queryString' = parsed.queryString /\ queryStringSize' = parsed.queryStringSize
                /\ connBuffer' = parsed.buffer

-----------------------------------------------------------------------------
(* Headers of the request *)

(* http_server_handle_req_header: names are taken while there is room. *)
requestHeaderNames ==
    SubSeq(HandledNames, 1, IF Len(HandledNames) < MaxRequestHeaders THEN Len(HandledNames) ELSE MaxRequestHeaders)

isRequestHeaderNeeded(name) == name \in ToSet(requestHeaderNames)

NameOf(line) == SubSeq(line, 1, strchr(line, Colon) - 1)
ValueOf(line) ==
    LET delimiter == strchr(line, Colon) + 1
    IN  SubSeq(line, IF delimiter <= Len(line) /\ line[delimiter] = Space THEN delimiter + 1 ELSE delimiter, Len(line))

(* A client does not send more lines with these names than there is room   *)
(* for; the code does not look.                                            *)
parseHeader(line) ==
    /\ at = "headers"
    /\ told' = [told EXCEPT !.lines = Append(@, line)]
    /\ UNCHANGED <<at, resourceUrl, queryString, queryStringSize, postData, reply>>
    /\ IF strchr(line, Colon) = 0 \/ ~isRequestHeaderNeeded(NameOf(line))
       THEN UNCHANGED <<connBuffer, headers>>
       ELSE /\ Len(headers) < MaxRequestHeaders
            /\ headers' = Append(headers, [name |-> NameOf(line), value |-> Len(connBuffer) + 1])
            /\ connBuffer' = http_server_put_in_conn_buffer(connBuffer, ValueOf(line))

http_server_get_req_header_value(name) ==
    LET i == SelectInSeq(headers, LAMBDA h : h.name = name)
    IN  IF i = 0 THEN NoData ELSE StringAt(connBuffer, headers[i].value)

(* The empty line, and the body that follows.  The room of the body is     *)
(* counted to connBuffer although it lies elsewhere.                       *)
EndOfHeaders(body) ==
    /\ at = "headers"
    /\ at' = "service"
    /\ postData' = IF body = <<>> THEN NoData ELSE body
    /\ connBuffer' = IF body = <<>> THEN connBuffer ELSE connBuffer \o [i \in 1 .. Len(body) + 1 |-> Nul]
    /\ UNCHANGED <<resourceUrl, queryString, queryStringSize, headers, reply>>

-----------------------------------------------------------------------------
(* The application: serviceCallback *)

http_server_add_res_header(value, bCopyValue) ==
    /\ at = "service"
    /\ told' = [told EXCEPT !.added = Append(@, value)]
    /\ UNCHANGED <<at, request, responseBuffer, responseBuffIndex>>
    /\ IF Len(resHeaders) < MaxResponseHeaders
       THEN /\ resHeaders' = Append(resHeaders,
                   IF bCopyValue THEN [pointer |-> Len(connBuffer) + 1, value |-> <<>>] ELSE [pointer |-> 0, value |-> value])
            /\ connBuffer' = IF bCopyValue THEN http_server_put_in_conn_buffer(connBuffer, value) ELSE connBuffer
       ELSE UNCHANGED <<resHeaders, connBuffer>>

Written(from, text) ==
    [i \in DOMAIN responseBuffer |->
        IF i \in from + 1 .. from + Len(text) THEN text[i - from] ELSE responseBuffer[i]]

(* memcpy does not end the string. *)
http_server_copy_to_response(text) ==
    /\ at = "service" /\ Len(text) <= ResponseSize
    /\ responseBuffer' = Written(0, text)
    /\ responseBuffIndex' = Len(text)
    /\ told' = [told EXCEPT !.response = text, !.writes = @ + 1,
                            !.longest = IF Len(text) > @ THEN Len(text) ELSE @,
                            !.overlong = told.longest > Len(text)]
    /\ UNCHANGED <<at, connBuffer, request, resHeaders>>

(* MEMORY_BOUNDARY_EXCEEDED otherwise, and nothing is changed. *)
http_server_concatenate_str_to_response(text) ==
    /\ at = "service" /\ responseBuffIndex + Len(text) <= ResponseSize
    /\ responseBuffer' = Written(responseBuffIndex, text \o <<Nul>>)
    /\ responseBuffIndex' = responseBuffIndex + Len(text)
    /\ told' = [told EXCEPT !.response = @ \o text, !.writes = @ + 1, !.overlong = FALSE,
                            !.longest = IF responseBuffIndex' > @ THEN responseBuffIndex' ELSE @]
    /\ UNCHANGED <<at, connBuffer, request, resHeaders>>

-----------------------------------------------------------------------------
TextInit ==
    /\ at = "url" /\ connBuffer = <<>>
    /\ resourceUrl = 0 /\ queryString = 0 /\ queryStringSize = 0
    /\ headers = <<>> /\ postData = NoData /\ resHeaders = <<>>
    /\ responseBuffer = [i \in 1 .. ResponseSize + 1 |-> Nul] /\ responseBuffIndex = 0
    /\ told = [url |-> <<>>, lines |-> <<>>, body |-> <<>>, pieces |-> 0, added |-> <<>>,
               response |-> <<>>, longest |-> 0, overlong |-> FALSE, writes |-> 0]

Spent == told.pieces + Len(told.lines) + Len(told.added) + told.writes
Left == Budget - Spent

(* What one client and the application do, in the order of the protocol. *)
Request ==
    \E n \in 0 .. Left : \E url \in Urls[n] :
        parseUrl(url) /\ told' = [told EXCEPT !.url = url, !.pieces = n]
Header == \E line \in Lines : Left > 0 /\ parseHeader(line)
EmptyLine ==
    \E n \in 0 .. Left : \E body \in Bodies[n] :
        EndOfHeaders(body) /\ told' = [told EXCEPT !.body = body, !.pieces = @ + n]
Service ==
    \E value \in Values : Left > 0 /\
        \/ \E bCopyValue \in BOOLEAN : http_server_add_res_header(value, bCopyValue)
        \/ http_server_copy_to_response(value)
        \/ http_server_concatenate_str_to_response(value)

TextNext == Request \/ Header \/ EmptyLine \/ Service

TextSpec == TextInit /\ [][TextNext]_textVars

-----------------------------------------------------------------------------
Ascending(S) ==
    [k \in 1 .. Cardinality(S) |-> CHOOSE i \in S : Cardinality({j \in S : j <= i}) = k]

(* What a text decodes to, said of all positions at once: the characters   *)
(* that are not inside an escape, each for what it stands for.             *)
Meaning(src, form) ==
    LET escapes == {i \in DOMAIN src : Escape(src, i)}
        kept    == {i \in DOMAIN src : i - 1 \notin escapes /\ i - 2 \notin escapes}
        Code(i) == IF i \in escapes THEN 16 * HEXTOI(src[i + 1]) + HEXTOI(src[i + 2])
                   ELSE IF form /\ src[i] = Plus THEN Space ELSE src[i]
        order   == Ascending(kept)
    IN  [k \in DOMAIN order |-> Code(order[k])]

(* The pairs of a text of variables: where they start, what they are up to *)
(* the next ampersand, and the last one with a name.                       *)
Starts(text) == {1} \cup {i + 1 : i \in {j \in DOMAIN text : text[j] = Ampersand}}
UpTo(text, char) == IF strchr(text, char) = 0 THEN text ELSE SubSeq(text, 1, strchr(text, char) - 1)
Pair(text, start) == UpTo(SubSeq(text, start, Len(text)), Ampersand)
OfName(text, name) == {start \in Starts(text) : IsPrefix(Append(name, Equals), Pair(text, start))}

FoundIn(text, name, size, form, got) ==
    IF OfName(text, name) = {} THEN got = [found |-> FALSE, out |-> <<>>]
    ELSE LET last  == CHOOSE i \in OfName(text, name) : \A j \in OfName(text, name) : j <= i
             value == SubSeq(Pair(text, last), Len(name) + 2, Len(Pair(text, last)))
             full  == Meaning(value, form)
         IN  /\ got.found = (Len(full) < size)
             /\ got.out = IF Len(full) < size THEN full ELSE SubSeq(full, 1, size - 1)

(* The url a client asks for: its path and its query. *)
Path(url) == UpTo(url, Question)
Query(url) == IF strchr(url, Question) = 0 THEN <<>> ELSE SubSeq(url, strchr(url, Question) + 1, Len(url))

(* A full url is http://host and a path.  Other urls that begin with http, *)
(* or have a query but no path, get an answer too; nothing is said of it.  *)
FullUrl(url) == IsPrefix(Http \o <<Colon, Slash, Slash>>, url)
LocalUrl(url) ==
    IF ~FullUrl(url) THEN url
    ELSE LET slash == strchr(SubSeq(url, 8, Len(url)), Slash)
             mark  == strchr(SubSeq(url, 8, Len(url)), Question)
         IN  IF slash = 0 \/ mark \in 1 .. slash THEN <<>> ELSE SubSeq(url, slash + 7, Len(url))

HasPath(url) == LocalUrl(url) # <<>> /\ LocalUrl(url)[1] = Slash

UrlKept ==
    LET local == LocalUrl(told.url)
    IN  /\ at = "refused" => ~HasPath(told.url)
        /\ at \in {"headers", "service"} /\ HasPath(told.url) =>
            /\ StringAt(connBuffer, resourceUrl) = UpTo(Meaning(Path(local), FALSE), Nul)
            /\ (queryString # 0) = (strchr(local, Question) # 0)
            /\ queryString # 0 =>
                StringAt(connBuffer, queryString) = Query(local) /\ queryStringSize = Len(Query(local))

HeadersKept ==
    \A name \in ToSet(requestHeaderNames) :
        LET first == SelectInSeq(told.lines, LAMBDA l : IsPrefix(Append(name, Colon), l))
            rest  == SubSeq(told.lines[first], Len(name) + 2, Len(told.lines[first]))
        IN  http_server_get_req_header_value(name) =
                IF first = 0 THEN NoData
                ELSE IF rest # <<>> /\ rest[1] = Space THEN Tail(rest) ELSE rest

ReplyKept ==
    /\ Len(resHeaders) = IF Len(told.added) < MaxResponseHeaders THEN Len(told.added) ELSE MaxResponseHeaders
    /\ \A i \in DOMAIN resHeaders :
        told.added[i] = IF resHeaders[i].pointer = 0 THEN resHeaders[i].value
                        ELSE StringAt(connBuffer, resHeaders[i].pointer)
    /\ ~told.overlong => StringAt(responseBuffer, 1) = told.response

(* Whatever is put behind them, the url, its query, the headers of the     *)
(* request and those of the reply stay what they were: the path of a url   *)
(* is what it means, an escaped question mark does not begin a query, a    *)
(* url with a host is the same as its path, an escaped NUL ends it, the    *)
(* first of several lines counts, and a body written piece by piece is all *)
(* of its pieces.  One copied over a longer one is not: it is not ended.   *)
TextsKept == UrlKept /\ HeadersKept /\ ReplyKept

(* A variable of the query or of the body is found if and only if a pair   *)
(* of that name is there and the value of the last one fits; an escaped    *)
(* ampersand or equals sign does not end a name or a value, and a name is  *)
(* not found inside a longer one.                                          *)
VariableIsFound ==
    at = "service" => \A name \in Variables, size \in Sizes :
        /\ IF told.body = <<>> THEN http_server_get_post_variable(name, size) = Nothing
           ELSE FoundIn(told.body, name, size, TRUE, http_server_get_post_variable(name, size))
        /\ IF queryString = 0 THEN http_server_get_query_variable(name, size) = Nothing
           ELSE HasPath(told.url) =>
                FoundIn(Query(LocalUrl(told.url)), name, size, FALSE, http_server_get_query_variable(name, size))
=============================================================================
