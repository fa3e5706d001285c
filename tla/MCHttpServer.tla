---------------------------- MODULE MCHttpServer ----------------------------
(* Small instances of HttpServer and its mutants. *)
EXTENDS HttpServer

Request(method, url, size, headers) ==
    [method |-> method, url |-> url, size |-> size, excess |-> 0, headers |-> headers]
Get     == Request("GET", "ok", 0, 1)
GetMore == Request("GET", "ok", 0, 4)
Post    == Request("POST", "ok", 2, 0)
PostMore == [Post EXCEPT !.excess = 1]    \* sends three bytes, and has announced two
LongUrl == Request("GET", "long", 0, 0)
BadUrl  == Request("HEAD", "bad", 0, 0)
Unknown == Request("TRACE", "ok", 0, 1)

\* GetMore has a reply that does not fit the output buffer, and more headers
\* than the table has room for.
AllRequests   == {Get, GetMore, Post, PostMore, LongUrl, BadUrl, Unknown}
PlainRequests == {Get, Unknown}

ASSUME PlainAssumption == OutBuf > 1 /\ \A r \in PlainRequests : Plain(r)
=============================================================================
