--------------------------- MODULE HttpServerProofs ---------------------------
(***************************************************************************)
(* Proofs about module HttpServer: what every client gets, whatever the    *)
(* number of connections, the size of the heap and of the buffers, and     *)
(* whatever is asked, as long as the statics of the threads are safe       *)
(* (Undisturbed).                                                          *)
(***************************************************************************)
EXTENDS HttpServer, TLAPS, FiniteSetTheorems, SequenceTheorems

USE SizesAssumption

Methods == {"", "GET", "HEAD", "POST", "PUT", "DELETE"}
Labels == {"begin", "method", "url", "version", "header", "body", "status", "blank"}
Bytes == (Conns \cup {NoConn}) \X Nat
Pieces == [kind : {"empty", "garbage", "version", "status", "header", "blank", "body"},
           of : Conns \cup {NoConn}, n : Nat]

Slot == [state : {"free", "waiting", "output", "closed"}, at : Labels,
         req : Requests \cup {FreeSlot.req}, arrived : Nat, taken : Nat,
         postDataSize : Nat, postData : Seq(Bytes), spilt : BOOLEAN,
         requestType : Methods, called : BOOLEAN, seen : Seq(Bytes), statusCode : Nat,
         numOfResponseHeaders : 0 .. MaxHeaders,
         outbuf : Seq(Pieces), unacked : BOOLEAN, sent : Seq(Pieces)]

Typed ==
    /\ running \in Conns \cup {NoConn}
    /\ conn \in [Conns -> Slot]
    /\ error \in {"none", "URL_TOO_LONG", "URL_INVALID", "MEMORY_ALLOC_ERR"}
    /\ readBytes \in Nat /\ nIndex \in 0 .. MaxHeaders /\ leaked \in Nat
    /\ p \in Pieces

(* A thread that runs has a request to read or a reply to send.            *)
Runs == running # NoConn => conn[running].state \in {"waiting", "output"}

(* Whoever is not alone has asked for something plain.                     *)
Shared ==
    \A c, d \in Conns :
        c # d /\ conn[c].state # "free" /\ conn[d].state # "free" => conn[c].req \in Together

Heap == InUse <= HeapBlocks

(* How far a request has been read.  The static `error' is clear while it  *)
(* is, and `readBytes' counts the bytes of its body.                       *)
HeaderTokens == 5
Reading(c) ==
    LET s == conn[c]
        r == conn[c].req
    IN  s.state = "waiting" =>
            /\ r \in Requests
            /\ s.taken <= s.arrived /\ s.arrived <= Len(Tokens(r))
            /\ ~s.unacked /\ ~s.called /\ s.sent = <<>> /\ s.outbuf = <<>>
            /\ s.numOfResponseHeaders = 0
            /\ s.at \in {"begin", "method", "url", "version", "header", "body"}
            /\ s.at # "begin" => error = "none"
            /\ s.at \in {"begin", "method"} => s.taken = 0
            /\ s.at = "url" => s.taken = 1
            /\ s.at = "version" => s.taken = 2
            /\ s.at \in {"url", "version", "header", "body"} =>
                   isHttpMethodHandled(r.method) /\ s.requestType = r.method
            /\ s.at \in {"version", "header", "body"} => r.url = "ok"
            /\ s.at # "body" => s.postData = <<>>
            /\ s.at \notin {"header", "body"} => s.postDataSize = 0
            /\ s.at = "header" => \/ s.taken = 3 /\ s.postDataSize = 0
                                  \/ s.taken = 4 /\ s.postDataSize = r.size /\ r.size > 0
            /\ s.at = "body" =>
                   /\ r.size > 0 /\ s.postDataSize = r.size /\ Len(s.postData) = r.size
                   /\ ~s.spilt =>
                          /\ s.taken = HeaderTokens + readBytes /\ readBytes < r.size
                          /\ \A i \in 1 .. readBytes : s.postData[i] = <<c, i>>

(* What was decided when a request had been read.                          *)
Decided(s) ==
    LET r == s.req
        n == IF s.at = "begin" THEN LesserOf(s.numOfResponseHeaders + 1, MaxHeaders)
             ELSE s.numOfResponseHeaders
    IN  \/ s.statusCode = 503 /\ ~isHttpMethodHandled(r.method) /\ ~s.called /\ n = 1
        \/ /\ isHttpMethodHandled(r.method)
           /\ \/ s.statusCode = 414 /\ r.url = "long" /\ ~s.called /\ n = 1
              \/ s.statusCode = 400 /\ r.url = "bad" /\ ~s.called /\ n = 1
              \/ s.statusCode = 503 /\ r.url = "ok" /\ r.size > 0 /\ ~s.called /\ n = 1
              \/ /\ s.statusCode = 200 /\ r.url = "ok" /\ s.called
                 /\ n = LesserOf(r.headers + 1, MaxHeaders)

Reply(c) == ReplyOf(c, conn[c].statusCode, conn[c].numOfResponseHeaders, conn[c].called)

Got(c) == conn[c].sent \o conn[c].outbuf

Answering(c) ==
    LET s == conn[c]
    IN  s.state \in {"output", "closed"} =>
            /\ s.req \in Requests
            /\ Decided(s)
            /\ s.at \in {"begin", "version", "status", "header", "blank", "body"}
            /\ s.at = "begin" => s.sent = <<>> /\ s.outbuf = <<>> /\ s.state = "output" /\ ~s.unacked
            /\ s.at # "begin" => s.postData = <<>>
            /\ s.state = "output" => (s.unacked <=> running # c)
            /\ s.state = "closed" => ~s.unacked /\ s.at = "body" /\ s.sent = Reply(c)

Free(c) ==
    conn[c].state = "free" => /\ conn[c].postData = <<>> /\ ~conn[c].called /\ ~conn[c].unacked
                              /\ conn[c].sent = <<>>

(* The pieces of a reply that were made, the one that p points to included. *)
MadeAt(c, label, n) ==
    CASE label = "version" -> 1
      [] label = "status" -> 2
      [] label = "header" -> 3 + n
      [] label = "blank" -> 3 + conn[c].numOfResponseHeaders
      [] OTHER -> Len(Reply(c))

Made(c) == MadeAt(c, conn[c].at, nIndex)

Sending(c) == conn[c].state = "output" /\ conn[c].at # "begin"

(* A thread that is sending has sent, or copied to its buffer, what p has  *)
(* pointed to so far.                                                      *)
Progress(c) ==
    /\ conn[c].at = "header" => nIndex < conn[c].numOfResponseHeaders
    /\ \/ p = Empty /\ Got(c) = SubSeq(Reply(c), 1, Made(c))
       \/ /\ p = Reply(c)[Made(c)]
          /\ Got(c) = SubSeq(Reply(c), 1, Made(c) - 1)

(* p and nIndex belong to the thread that runs; who waits for an           *)
(* acknowledgement while another one runs has nothing left to send.        *)
Busy(c) == running = c /\ Sending(c)

Streaming(c) == Sending(c) /\ (\A d \in Conns \ {c} : ~Busy(d)) => Progress(c)

Yielded(c) ==
    conn[c].state = "output" /\ conn[c].unacked /\ conn[c].req \in Together =>
        conn[c].at = "body" /\ Got(c) = Reply(c)

(* A block that was overrun is the body of a client that sends too much,   *)
(* and its thread is where the model ends.                                 *)
Over(c, s) ==
    /\ s.req.excess > 0 /\ s.state = "waiting" /\ s.at = "body" /\ s.taken = s.arrived
    /\ running = c

Own(c) ==
    /\ Len(conn[c].outbuf) <= OutBuf
    /\ conn[c].spilt => Over(c, conn[c])
    /\ conn[c].called =>
           conn[c].seen = Body(c, conn[c].req) /\ conn[c].requestType = conn[c].req.method

Kept(c) == Free(c) /\ Reading(c) /\ Answering(c) /\ Streaming(c) /\ Yielded(c) /\ Own(c)

Slots == \A c \in Conns : Kept(c)

IInv == Typed /\ Runs /\ Shared /\ Heap /\ Slots
-------------------------------------------------------------------------------
(* Requests, replies and slots.                                            *)

LEMMA Sizes ==
    ASSUME NEW r \in Requests
    PROVE  r.url \in {"ok", "long", "bad"} /\ r.size \in Nat /\ r.excess \in Nat /\ r.headers \in Nat
OBVIOUS

LEMMA Joined ==
    ASSUME NEW S, NEW s \in Seq(S), NEW t \in Seq(S)
    PROVE  /\ s \o t \in Seq(S) /\ Len(s \o t) = Len(s) + Len(t)
           /\ Len(s) \in Nat /\ Len(t) \in Nat
           /\ \A i \in 1 .. Len(s) : (s \o t)[i] = s[i]
           /\ \A i \in 1 .. Len(t) : (s \o t)[Len(s) + i] = t[i]
<1>1. Len(s) \in Nat /\ Len(t) \in Nat
  BY LenProperties
<1>2. /\ s \o t \in Seq(S) /\ Len(s \o t) = Len(s) + Len(t)
      /\ \A i \in 1 .. Len(s) + Len(t) : (s \o t)[i] =
             IF i <= Len(s) THEN s[i] ELSE t[i - Len(s)]
  BY ConcatProperties
<1>3. ASSUME NEW i \in 1 .. Len(s) PROVE (s \o t)[i] = s[i]
  BY <1>1, <1>2
<1>4. ASSUME NEW i \in 1 .. Len(t) PROVE (s \o t)[Len(s) + i] = t[i]
  <2>1. /\ Len(s) + i \in 1 .. Len(s) + Len(t)
        /\ ~(Len(s) + i <= Len(s)) /\ Len(s) + i - Len(s) = i
    BY <1>1
  <2> HIDE <1>1
  <2> QED BY <1>2, <2>1
<1> QED BY <1>1, <1>2, <1>3, <1>4

LEMMA TokensKnown ==
    ASSUME NEW r \in Requests
    PROVE  /\ r.size = 0 => Len(Tokens(r)) = 4 + r.excess /\ Tokens(r)[4] = "end"
           /\ r.size > 0 => /\ Len(Tokens(r)) = HeaderTokens + r.size + r.excess
                            /\ Tokens(r)[4] = "length" /\ Tokens(r)[5] = "end"
<1> DEFINE T == {"method", "url", "version", "length", "end", "byte"}
           bytes == [i \in 1 .. r.size + r.excess |-> "byte"]
           line == IF r.size > 0 THEN <<"length">> ELSE <<>>
<1>1. r.size \in Nat /\ r.excess \in Nat
  BY Sizes
<1>2. bytes \in Seq(T) /\ Len(bytes) = r.size + r.excess
  BY <1>1
<1>3. line \in Seq(T) /\ Len(line) = (IF r.size > 0 THEN 1 ELSE 0) /\ (r.size > 0 => line[1] = "length")
  <2>1. <<"length">> \in Seq(T) /\ <<>> \in Seq(T)
    OBVIOUS
  <2>2. Len(<<"length">>) = 1 /\ <<"length">>[1] = "length" /\ Len(<<>>) = 0
    OBVIOUS
  <2>3. CASE r.size > 0
    <3>1. line = <<"length">>
      BY <2>3
    <3> HIDE DEF line, T
    <3> QED BY <2>1, <2>2, <2>3, <3>1
  <2>4. CASE ~(r.size > 0)
    BY <2>1, <2>2, <2>4
  <2> QED BY <2>3, <2>4
<1>4. <<"method", "url", "version">> \in Seq(T) /\ Len(<<"method", "url", "version">>) = 3
  OBVIOUS
<1> DEFINE a == <<"method", "url", "version">> \o line
           b == a \o <<"end">>
<1>5. /\ a \in Seq(T) /\ Len(a) = 3 + (IF r.size > 0 THEN 1 ELSE 0)
      /\ r.size > 0 => a[4] = "length"
  <2> DEFINE m == <<"method", "url", "version">>
  <2>1. /\ m \o line \in Seq(T) /\ Len(m \o line) = Len(m) + Len(line)
        /\ \A i \in 1 .. Len(line) : (m \o line)[Len(m) + i] = line[i]
    BY <1>3, <1>4, Joined
  <2>2. Len(m) = 3
    BY <1>4
  <2> HIDE DEF line, T, m
  <2>3. r.size > 0 => (m \o line)[3 + 1] = line[1]
    BY <1>3, <2>1, <2>2
  <2> QED BY <1>3, <2>1, <2>2, <2>3 DEF m
<1>6. <<"end">> \in Seq(T) /\ Len(<<"end">>) = 1 /\ <<"end">>[1] = "end"
  OBVIOUS
<1>7. /\ b \in Seq(T) /\ Len(b) = Len(a) + 1 /\ b[Len(a) + 1] = "end"
      /\ \A i \in 1 .. Len(a) : b[i] = a[i]
  <2> DEFINE z == <<"end">>
  <2>1. /\ a \o z \in Seq(T) /\ Len(a \o z) = Len(a) + Len(z)
        /\ \A i \in 1 .. Len(a) : (a \o z)[i] = a[i]
        /\ \A i \in 1 .. Len(z) : (a \o z)[Len(a) + i] = z[i]
    BY <1>5, <1>6, Joined
  <2>2. Len(z) = 1 /\ z[1] = "end"
    OBVIOUS
  <2> HIDE DEF a, T, z
  <2>3. (a \o z)[Len(a) + 1] = z[1]
    BY <2>1, <2>2
  <2> QED BY <2>1, <2>2, <2>3 DEF z
<1>8. /\ Len(b \o bytes) = Len(b) + (r.size + r.excess)
      /\ \A i \in 1 .. Len(b) : (b \o bytes)[i] = b[i]
  <2>1. b \in Seq(T) /\ bytes \in Seq(T)
    BY <1>2, <1>7
  <2> HIDE DEF b, bytes, T
  <2>2. /\ Len(b \o bytes) = Len(b) + Len(bytes)
        /\ \A i \in 1 .. Len(b) : (b \o bytes)[i] = b[i]
    BY <2>1, Joined
  <2> QED BY <1>2, <2>2
<1>9. Tokens(r) = b \o bytes
  BY DEF Tokens
<1> HIDE DEF b, bytes, a, line, T
<1> QED BY SMTT(30), <1>1, <1>5, <1>7, <1>8, <1>9 DEF HeaderTokens

LEMMA PieceTyped ==
    ASSUME NEW kind \in {"empty", "garbage", "version", "status", "header", "blank", "body"},
           NEW of \in Conns \cup {NoConn}, NEW n \in Nat
    PROVE  Piece(kind, of, n) \in Pieces /\ Piece(kind, of, n).kind = kind
BY DEF Piece, Pieces

LEMMA ReplyKnown ==
    ASSUME NEW c \in Conns, NEW status \in Nat, NEW headers \in Nat, NEW called \in BOOLEAN
    PROVE  LET s == ReplyOf(c, status, headers, called)
           IN /\ s \in Seq(Pieces)
              /\ Len(s) = 3 + headers + (IF called THEN 1 ELSE 0)
              /\ s[1] = Piece("version", NoConn, 0) /\ s[2] = Piece("status", NoConn, status)
              /\ \A i \in 1 .. headers : s[2 + i] = Piece("header", c, i - 1)
              /\ s[3 + headers] = Piece("blank", NoConn, 0)
              /\ called => s[4 + headers] = Piece("body", c, 0)
<1> DEFINE a == <<Piece("version", NoConn, 0), Piece("status", NoConn, status)>>
           h == [i \in 1 .. headers |-> Piece("header", c, i - 1)]
           l == <<Piece("blank", NoConn, 0)>>
           z == IF called THEN <<Piece("body", c, 0)>> ELSE <<>>
           ah == a \o h
           ahl == ah \o l
<1>1. /\ Piece("version", NoConn, 0) \in Pieces /\ Piece("status", NoConn, status) \in Pieces
      /\ Piece("blank", NoConn, 0) \in Pieces /\ Piece("body", c, 0) \in Pieces
      /\ \A i \in 1 .. headers : Piece("header", c, i - 1) \in Pieces
  BY PieceTyped
<1> HIDE DEF Piece
<1>2. a \in Seq(Pieces) /\ Len(a) = 2 /\ a[1] = Piece("version", NoConn, 0) /\ a[2] = Piece("status", NoConn, status)
  BY <1>1
<1>3. h \in Seq(Pieces) /\ Len(h) = headers /\ \A i \in 1 .. headers : h[i] = Piece("header", c, i - 1)
  BY <1>1
<1>4. l \in Seq(Pieces) /\ Len(l) = 1 /\ l[1] = Piece("blank", NoConn, 0)
  BY <1>1
<1>5. z \in Seq(Pieces) /\ Len(z) = (IF called THEN 1 ELSE 0) /\ (called => z[1] = Piece("body", c, 0))
  BY <1>1
<1>6. ReplyOf(c, status, headers, called) = ahl \o z
  BY DEF ReplyOf
<1> HIDE DEF a, h, l, z
<1>7. /\ ah \in Seq(Pieces) /\ Len(ah) = 2 + headers
      /\ ah[1] = a[1] /\ ah[2] = a[2] /\ \A i \in 1 .. headers : ah[2 + i] = h[i]
  <2>1. /\ ah \in Seq(Pieces) /\ Len(ah) = Len(a) + Len(h)
        /\ \A i \in 1 .. Len(a) : ah[i] = a[i]
        /\ \A i \in 1 .. Len(h) : ah[Len(a) + i] = h[i]
    <3>1. a \in Seq(Pieces) /\ h \in Seq(Pieces)
      BY <1>2, <1>3
    <3> QED BY <3>1, Joined
  <2> HIDE DEF ah
  <2> QED BY <1>2, <1>3, <2>1
<1> HIDE DEF ah
<1>8. /\ ahl \in Seq(Pieces) /\ Len(ahl) = 3 + headers
      /\ \A i \in 1 .. 2 + headers : ahl[i] = ah[i]
      /\ ahl[3 + headers] = l[1]
  <2> DEFINE k == Len(ah)
  <2>1. /\ ahl \in Seq(Pieces) /\ Len(ahl) = k + Len(l)
        /\ \A i \in 1 .. k : ahl[i] = ah[i]
        /\ \A i \in 1 .. Len(l) : ahl[k + i] = l[i]
    <3>1. ah \in Seq(Pieces) /\ l \in Seq(Pieces)
      BY <1>4, <1>7
    <3> QED BY <3>1, Joined
  <2>2. k = 2 + headers /\ Len(l) = 1
    BY <1>4, <1>7
  <2> HIDE DEF ahl, k
  <2>3. ahl[k + 1] = l[1] /\ k + 1 = 3 + headers
    BY <2>1, <2>2
  <2> QED BY <2>1, <2>2, <2>3
<1> HIDE DEF ahl
<1>9. /\ ahl \o z \in Seq(Pieces) /\ Len(ahl \o z) = 3 + headers + Len(z)
      /\ \A i \in 1 .. 3 + headers : (ahl \o z)[i] = ahl[i]
      /\ called => (ahl \o z)[4 + headers] = z[1]
  <2>1. ahl \in Seq(Pieces) /\ z \in Seq(Pieces)
    BY <1>5, <1>8
  <2>2. /\ ahl \o z \in Seq(Pieces) /\ Len(ahl \o z) = Len(ahl) + Len(z)
        /\ \A i \in 1 .. Len(ahl) : (ahl \o z)[i] = ahl[i]
        /\ \A i \in 1 .. Len(z) : (ahl \o z)[Len(ahl) + i] = z[i]
    BY <2>1, Joined
  <2> QED BY SMTT(30), <1>5, <1>8, <2>2
<1> DEFINE s == ReplyOf(c, status, headers, called)
<1>10. s = ahl \o z
  BY <1>6
<1> HIDE DEF s
<1>11. /\ s[1] = a[1] /\ s[2] = a[2] /\ s[3 + headers] = l[1]
       /\ \A i \in 1 .. headers : s[2 + i] = h[i]
  BY <1>7, <1>8, <1>9, <1>10
<1>12. /\ s \in Seq(Pieces) /\ Len(s) = 3 + headers + (IF called THEN 1 ELSE 0)
       /\ called => s[4 + headers] = z[1]
  BY <1>5, <1>9, <1>10
<1>13. /\ s[1] = Piece("version", NoConn, 0) /\ s[2] = Piece("status", NoConn, status)
       /\ \A i \in 1 .. headers : s[2 + i] = Piece("header", c, i - 1)
       /\ s[3 + headers] = Piece("blank", NoConn, 0)
       /\ called => s[4 + headers] = Piece("body", c, 0)
  BY <1>2, <1>3, <1>4, <1>5, <1>11, <1>12
<1> QED BY <1>12, <1>13 DEF s

LEMMA ReplyOfSlot ==
    ASSUME NEW c \in Conns, NEW v \in Slot
    PROVE  LET R == ReplyOf(c, v.statusCode, v.numOfResponseHeaders, v.called)
               H == v.numOfResponseHeaders
           IN /\ R \in Seq(Pieces) /\ Len(R) = 3 + H + (IF v.called THEN 1 ELSE 0)
              /\ R[1] = Piece("version", NoConn, 0) /\ R[2] = Piece("status", NoConn, v.statusCode)
              /\ \A i \in 1 .. H : R[2 + i] = Piece("header", c, i - 1)
              /\ R[3 + H] = Piece("blank", NoConn, 0)
              /\ v.called => R[4 + H] = Piece("body", c, 0)
<1> DEFINE status == v.statusCode
           H == v.numOfResponseHeaders
           called == v.called
           R == ReplyOf(c, status, H, called)
<1>1. status \in Nat /\ H \in Nat /\ called \in BOOLEAN
  BY DEF Slot
<1> HIDE DEF status, H, called
<1>2. /\ R \in Seq(Pieces) /\ Len(R) = 3 + H + (IF called THEN 1 ELSE 0)
      /\ R[1] = Piece("version", NoConn, 0) /\ R[2] = Piece("status", NoConn, status)
      /\ \A i \in 1 .. H : R[2 + i] = Piece("header", c, i - 1)
      /\ R[3 + H] = Piece("blank", NoConn, 0)
      /\ called => R[4 + H] = Piece("body", c, 0)
  BY <1>1, ReplyKnown
<1> HIDE DEF R
<1> QED BY <1>2 DEF R, status, H, called

LEMMA ReplyTyped ==
    ASSUME NEW c \in Conns, conn[c] \in Slot
    PROVE  LET R == Reply(c)
               H == conn[c].numOfResponseHeaders
           IN /\ R \in Seq(Pieces) /\ Len(R) = 3 + H + (IF conn[c].called THEN 1 ELSE 0)
              /\ R[1] = Piece("version", NoConn, 0)
              /\ R[2] = Piece("status", NoConn, conn[c].statusCode)
              /\ \A i \in 1 .. H : R[2 + i] = Piece("header", c, i - 1)
              /\ R[3 + H] = Piece("blank", NoConn, 0)
              /\ conn[c].called => R[4 + H] = Piece("body", c, 0)
BY ReplyOfSlot DEF Reply

LEMMA Lesser ==
    ASSUME NEW a \in Nat, NEW b \in Nat
    PROVE  /\ LesserOf(a, b) \in Nat /\ LesserOf(a, b) <= b
           /\ b > 0 => LesserOf(0 + 1, b) = 1
           /\ LesserOf(LesserOf(a, b) + 1, b) = LesserOf(a + 1, b)
BY DEF LesserOf

(* What was decided on is an answer of the application if it was called,   *)
(* and a refusal the request deserves if it was not.                       *)
Heads(v) ==
    IF v.at = "begin" THEN LesserOf(v.numOfResponseHeaders + 1, MaxHeaders) ELSE v.numOfResponseHeaders

LEMMA DecidedAnswer ==
    ASSUME NEW c \in Conns, NEW v \in Slot, v.req \in Requests, Decided(v)
    PROVE  LET R == ReplyOf(c, v.statusCode, Heads(v), v.called)
           IN  /\ v.called => R \in Accepts(c, v.req)
               /\ ~v.called => R \in Refusals(c, v.req)
<1>1. v.called \in BOOLEAN
  BY DEF Slot
<1>2. /\ v.called => /\ isHttpMethodHandled(v.req.method) /\ v.req.url = "ok"
                     /\ v.statusCode = 200 /\ Heads(v) = LesserOf(v.req.headers + 1, MaxHeaders)
      /\ ~v.called => v.statusCode \in Faults(v.req) /\ Heads(v) = 1
  BY DEF Decided, Heads, Faults
<1>3. CASE v.called
  <2>1. v.called = TRUE
    BY <1>1, <1>3
  <2> QED BY <1>2, <1>3, <2>1 DEF Accepts
<1>4. CASE ~v.called
  <2>1. v.called = FALSE
    BY <1>1, <1>4
  <2> QED BY <1>2, <1>4, <2>1 DEF Refusals
<1> QED BY <1>3, <1>4

(* The reply that was decided on is one the request may have.              *)
LEMMA DecidedReply ==
    ASSUME NEW c \in Conns, conn[c] \in Slot, conn[c].req \in Requests,
           Decided(conn[c]), conn[c].at # "begin"
    PROVE  Reply(c) \in Replies(c, conn[c].req)
BY DecidedAnswer DEF Heads, Reply, Replies

(* One more piece.                                                         *)
LEMMA OneMore ==
    ASSUME NEW s \in Seq(Pieces), NEW n \in 1 .. Len(s)
    PROVE  /\ Append(SubSeq(s, 1, n - 1), s[n]) = SubSeq(s, 1, n)
           /\ s[n] \in Pieces
<1>1. s[n] \in Pieces
  BY ElementOfSeq
<1>2. SubSeq(s, 1, n) = SubSeq(s, 1, n - 1) \o <<s[n]>>
  BY SubSeqRecursiveSecond
<1>3. SubSeq(s, 1, n - 1) \in Seq(Pieces)
  BY ElementOfSeq, SubSeqProperties
<1> QED BY <1>1, <1>2, <1>3, AppendIsConcat

LEMMA CopyBehind ==
    ASSUME NEW s \in Seq(Pieces), NEW t \in Seq(Pieces), NEW e \in Pieces
    PROVE  s \o Append(t, e) = Append(s \o t, e)
<1>1. <<e>> \in Seq(Pieces) /\ s \o t \in Seq(Pieces)
  BY ConcatProperties
<1> QED BY <1>1, AppendIsConcat, ConcatAssociative
-------------------------------------------------------------------------------
(* One step of one connection: what the others keep.                       *)

LEMMA Stepped ==
    ASSUME Typed, NEW c \in Conns, NEW v \in Slot, Becomes(c, v)
    PROVE  /\ conn' \in [Conns -> Slot] /\ conn'[c] = v
           /\ \A d \in Conns \ {c} : conn'[d] = conn[d]
BY DEF Typed, Becomes

LEMMA OpenSets ==
    /\ IsFiniteSet(Open) /\ IsFiniteSet(HoldingPost)
    /\ Cardinality(Open) \in Nat /\ Cardinality(HoldingPost) \in Nat
<1>1. Open \in SUBSET Conns /\ HoldingPost \in SUBSET Conns
  BY DEF Open, HoldingPost
<1>2. IsFiniteSet(Open) /\ IsFiniteSet(HoldingPost)
  BY <1>1, FS_Subset
<1> QED BY <1>2, FS_CardinalityType

LEMMA OneElement ==
    ASSUME NEW S, IsFiniteSet(S), NEW x
    PROVE  /\ Cardinality(S) \in Nat
           /\ Cardinality(S \cup {x}) \in Nat /\ Cardinality(S \ {x}) \in Nat
           /\ Cardinality(S \cup {x}) <= Cardinality(S) + 1
           /\ Cardinality(S \ {x}) <= Cardinality(S)
           /\ x \notin S => Cardinality(S \cup {x}) = Cardinality(S) + 1 /\ S \ {x} = S
           /\ x \in S => Cardinality(S \ {x}) = Cardinality(S) - 1 /\ S \cup {x} = S
<1>1. IsFiniteSet(S \cup {x}) /\ IsFiniteSet(S \ {x})
  BY FS_AddElement, FS_RemoveElement
<1>2. Cardinality(S) \in Nat /\ Cardinality(S \cup {x}) \in Nat /\ Cardinality(S \ {x}) \in Nat
  BY <1>1, FS_CardinalityType
<1>3. Cardinality(S \cup {x}) = IF x \in S THEN Cardinality(S) ELSE Cardinality(S) + 1
  BY FS_AddElement
<1>4. Cardinality(S \ {x}) = IF x \in S THEN Cardinality(S) - 1 ELSE Cardinality(S)
  BY FS_RemoveElement
<1>5. (x \notin S => S \ {x} = S) /\ (x \in S => S \cup {x} = S)
  OBVIOUS
<1> QED BY <1>2, <1>3, <1>4, <1>5

(* The heap, when at most a body more is held.                             *)
LEMMA HeapKept ==
    ASSUME Typed, Heap, NEW c \in Conns, leaked' = leaked,
           \A d \in Conns \ {c} : conn'[d] = conn[d],
           conn[c].state # "free", conn'[c].state # "free",
           conn'[c].postData = <<>> \/ conn[c].postData # <<>> \/ CanMalloc
    PROVE  Heap'
<1>1. Open' = Open
  BY DEF Open
<1>2. HoldingPost' \in {HoldingPost, HoldingPost \cup {c}, HoldingPost \ {c}}
  <2>1. CASE conn'[c].postData = <<>>
    BY <2>1 DEF HoldingPost
  <2>2. CASE conn'[c].postData # <<>>
    BY <2>2 DEF HoldingPost
  <2> QED BY <2>1, <2>2
<1>3. /\ Cardinality(HoldingPost) \in Nat /\ Cardinality(HoldingPost') \in Nat
      /\ Cardinality(HoldingPost') <= Cardinality(HoldingPost) + 1
  <2> DEFINE S == HoldingPost
  <2>1. IsFiniteSet(S)
    BY OpenSets
  <2> HIDE DEF S
  <2>2. /\ Cardinality(S) \in Nat
        /\ Cardinality(S \cup {c}) \in Nat /\ Cardinality(S \cup {c}) <= Cardinality(S) + 1
        /\ Cardinality(S \ {c}) \in Nat /\ Cardinality(S \ {c}) <= Cardinality(S)
    BY <2>1, OneElement, Zenon
  <2>3. HoldingPost' = S \/ HoldingPost' = S \cup {c} \/ HoldingPost' = S \ {c}
    BY <1>2 DEF S
  <2>4. Cardinality(S) <= Cardinality(S) + 1
    BY <2>2
  <2>5. Cardinality(S \ {c}) <= Cardinality(S) + 1
    BY <2>2
  <2> QED BY <2>2, <2>3, <2>4, <2>5, Zenon DEF S
<1>4. conn'[c].postData = <<>> \/ conn[c].postData # <<>> => Cardinality(HoldingPost') <= Cardinality(HoldingPost)
  <2>1. CASE conn'[c].postData = <<>>
    <3> DEFINE S == HoldingPost
    <3>1. HoldingPost' = S \ {c}
      BY <2>1 DEF HoldingPost
    <3>2. IsFiniteSet(S)
      BY OpenSets
    <3> HIDE DEF S
    <3>3. Cardinality(S \ {c}) <= Cardinality(S)
      BY <3>2, OneElement, Zenon
    <3> QED BY <3>1, <3>3 DEF S
  <2>2. CASE conn'[c].postData # <<>> /\ conn[c].postData # <<>>
    <3>1. HoldingPost' = HoldingPost
      BY <2>2 DEF HoldingPost
    <3> QED BY <3>1, <1>3
  <2> QED BY <2>1, <2>2
<1> DEFINE h == Cardinality(HoldingPost)
           k == Cardinality(HoldingPost')
           o == Cardinality(Open)
<1>6. h \in Nat /\ k \in Nat /\ o \in Nat /\ leaked \in Nat /\ k <= h + 1
  BY <1>3, OpenSets DEF Typed
<1>7. InUse = o + h + leaked /\ InUse' = o + k + leaked
  BY <1>1 DEF InUse
<1>8. InUse <= HeapBlocks
  BY DEF Heap
<1>9. k <= h \/ InUse < HeapBlocks
  BY <1>4 DEF CanMalloc
<1> HIDE DEF h, k, o
<1> QED BY <1>6, <1>7, <1>8, <1>9 DEF Heap

(* What one connection does leaves every other one as it is: it is plain,  *)
(* or it is alone.                                                         *)
LEMMA OtherKept ==
    ASSUME IInv, NEW c \in Conns, NEW d \in Conns \ {c},
           conn'[d] = conn[d], conn[d].state # "free" => conn[c].req \in Together,
           conn[c].state # "free" \/ running = NoConn,
           running \in {c, NoConn}, running' \in {c, NoConn},
           conn[c].req \in Together => error' \in {error, "none"} /\ readBytes' = readBytes,
           \/ p' = p /\ nIndex' = nIndex /\ ~Busy(c)
           \/ Busy(c)'
           \/ p' = Empty /\ conn[c].state # "free"
           \/ conn[c].req \notin Together
    PROVE  Kept(d)'
<1>t. Typed /\ Shared /\ Kept(d) /\ conn[d] \in Slot /\ d # c /\ d # NoConn
  BY DEF IInv, Slots, Typed
<1>1. Free(d)' /\ Own(d)'
  BY <1>t DEF Kept, Free, Own, Over
<1>2. Reading(d)'
  BY <1>t DEF Kept, Reading
<1>3. Answering(d)'
  BY <1>t DEF Kept, Answering, Reply
<1>4. Yielded(d)'
  BY <1>t DEF Kept, Yielded, Reply, Got
<1>5. Streaming(d)'
  <2> SUFFICES ASSUME Sending(d)', \A e \in Conns \ {d} : ~Busy(e)' PROVE Progress(d)'
    BY DEF Streaming
  <2>1. Sending(d) /\ conn[d].state = "output" /\ conn[d].unacked
    BY <1>t DEF Sending, Kept, Answering
  <2>2. CASE p' = p /\ nIndex' = nIndex /\ ~Busy(c)
    <3>1. \A e \in Conns \ {d} : ~Busy(e)
      BY <2>2 DEF Busy
    <3>2. Progress(d)
      BY <1>t, <2>1, <3>1 DEF Kept, Streaming
    <3> QED BY <1>t, <2>2, <3>2 DEF Progress, Got, Reply, Made, MadeAt
  <2>3. CASE p' = Empty /\ conn[c].state # "free"
    <3>1. conn[d].at = "body" /\ Got(d) = Reply(d)
      BY <1>t, <2>1, <2>3 DEF Kept, Yielded, Shared
    <3>2. Got(d)' = Reply(d)' /\ conn'[d].at = "body" /\ Made(d)' = Len(Reply(d)')
      BY <1>t, <3>1 DEF Got, Reply, Made, MadeAt
    <3>3. Reply(d) \in Seq(Pieces)
      BY <1>t, ReplyTyped
    <3>4. Reply(d)' = Reply(d)
      BY DEF Reply
    <3>5. SubSeq(Reply(d)', 1, Made(d)') = Reply(d)'
      BY <3>2, <3>3, <3>4, SubSeqFull
    <3> QED BY <2>3, <3>2, <3>5 DEF Progress
  <2>4. CASE conn[c].req \notin Together
    BY <2>1, <2>4
  <2> QED BY <2>2, <2>3, <2>4
<1> QED BY <1>1, <1>2, <1>3, <1>4, <1>5 DEF Kept

(* A step of a connection that stays open.                                 *)
LEMMA Step ==
    ASSUME IInv, NEW c \in Conns, NEW v \in Slot, Becomes(c, v),
           conn[c].state # "free", v.state # "free", v.req = conn[c].req,
           running \in {c, NoConn}, running' \in {c, NoConn},
           running' = c => v.state \in {"waiting", "output"},
           error' \in {"none", "URL_TOO_LONG", "URL_INVALID", "MEMORY_ALLOC_ERR"},
           readBytes' \in Nat, nIndex' \in 0 .. MaxHeaders, p' \in Pieces, leaked' = leaked,
           v.postData = <<>> \/ conn[c].postData # <<>> \/ CanMalloc,
           conn[c].req \in Together => error' \in {error, "none"} /\ readBytes' = readBytes,
           \/ p' = p /\ nIndex' = nIndex /\ ~Busy(c)
           \/ Busy(c)'
           \/ p' = Empty
           \/ conn[c].req \notin Together,
           Kept(c)'
    PROVE  IInv'
<1>t. Typed /\ Shared /\ Heap
  BY DEF IInv
<1>1. /\ conn' \in [Conns -> Slot] /\ conn'[c] = v
      /\ \A d \in Conns \ {c} : conn'[d] = conn[d]
  BY <1>t, Stepped
<1>2. Typed'
  BY <1>1, <1>t DEF Typed
<1>3. Runs' /\ Shared'
  BY <1>1, <1>t DEF Runs, Shared
<1>4. Heap'
  BY <1>1, <1>t, HeapKept
<1>5. \A d \in Conns \ {c} : Kept(d)'
  <2> TAKE d \in Conns \ {c}
  <2>1. conn[d].state # "free" => conn[c].req \in Together
    BY <1>t DEF Shared
  <2>2. conn'[d] = conn[d]
    BY <1>1
  <2> QED BY <2>1, <2>2, OtherKept
<1> QED BY <1>2, <1>3, <1>4, <1>5 DEF IInv, Slots
-------------------------------------------------------------------------------
(* The steps of handleRequest.                                             *)

LEMMA Known ==
    ASSUME IInv, NEW c \in Conns
    PROVE  /\ Typed /\ conn[c] \in Slot /\ c # NoConn
           /\ Free(c) /\ Reading(c) /\ Answering(c) /\ Streaming(c) /\ Yielded(c) /\ Own(c)
BY DEF IInv, Slots, Kept, Typed

LEMMA RequestStep ==
    ASSUME IInv, NEW c \in Conns, NEW v \in Slot, Becomes(c, v),
           running = c, running' \in {c, NoConn}, conn[c].state = "waiting",
           v.state = "waiting" \/ (v.state = "output" /\ v.at = "begin" /\ running' = c),
           v.req = conn[c].req, ~v.unacked, v.outbuf = <<>>,
           v.spilt => Over(c, v) /\ running' = c,
           v.called => v.seen = Body(c, v.req) /\ v.requestType = v.req.method,
           error' \in {"none", "URL_TOO_LONG", "URL_INVALID", "MEMORY_ALLOC_ERR"},
           readBytes' \in Nat, UNCHANGED <<p, nIndex, leaked>>,
           v.postData = <<>> \/ conn[c].postData # <<>> \/ CanMalloc,
           conn[c].req \in Together => error' \in {error, "none"} /\ readBytes' = readBytes,
           v.state = "waiting" => Reading(c)',
           v.state = "output" => v.req \in Requests /\ Decided(v) /\ v.sent = <<>>
    PROVE  IInv'
<1>t. Typed /\ conn[c] \in Slot /\ c # NoConn
  BY Known
<1>1. conn'[c] = v
  BY <1>t, Stepped
<1>2. Free(c)' /\ Reading(c)' /\ Yielded(c)' /\ Streaming(c)'
  BY <1>1 DEF Free, Reading, Yielded, Streaming, Sending
<1>3. Answering(c)'
  BY <1>1, <1>t DEF Answering
<1>4. Own(c)'
  <2>1. Len(v.outbuf) <= OutBuf
    OBVIOUS
  <2> QED BY <1>1, <2>1 DEF Own, Over
<1>5. Kept(c)'
  BY <1>2, <1>3, <1>4 DEF Kept
<1>6. ~Busy(c)
  BY DEF Busy, Sending
<1> QED BY <1>t, <1>5, <1>6, Step DEF Typed

LEMMA BeginKeeps ==
    ASSUME IInv, NEW c \in Conns, Begin(c)
    PROVE  IInv'
<1> DEFINE v == [conn[c] EXCEPT !.at = "method"]
<1>t. Typed /\ conn[c] \in Slot /\ c # NoConn /\ Reading(c) /\ Own(c)
  BY Known
<1>1. running = c /\ conn[c].state = "waiting" /\ conn[c].at = "begin" /\ running' = running
  BY DEF Begin, Waits
<1>2. /\ v \in Slot /\ Becomes(c, v) /\ error' = "none" /\ UNCHANGED <<readBytes, p, nIndex, leaked>>
      /\ v.state = "waiting" /\ v.req = conn[c].req
  BY <1>t, <1>1 DEF Begin, Reinit, Slot, Labels
<1>3. conn'[c] = v
  BY <1>2, <1>t, Stepped
<1>4. ~v.unacked /\ ~v.spilt /\ v.outbuf = <<>> /\ ~v.called /\ v.postData = <<>>
  BY <1>t, <1>1 DEF Reading, Own, Over, Slot
<1>5. Reading(c)'
  BY <1>t, <1>1, <1>2, <1>3 DEF Reading, Slot
<1> HIDE DEF v
<1> QED BY <1>t, <1>1, <1>2, <1>4, <1>5, RequestStep DEF Typed

LEMMA NeedsInputKeeps ==
    ASSUME IInv, NEW c \in Conns, NeedsInput(c)
    PROVE  IInv'
<1>t. Typed /\ conn[c] \in Slot /\ c # NoConn /\ Reading(c) /\ Own(c)
  BY Known
<1>1. /\ running = c /\ conn[c].state = "waiting" /\ ~conn[c].spilt /\ running' = NoConn
      /\ conn' = conn /\ UNCHANGED <<error, readBytes, p, nIndex, leaked>>
  BY DEF NeedsInput, Statics
<1>2. Becomes(c, conn[c])
  BY <1>t, <1>1 DEF Becomes, Typed
<1>3. Reading(c)'
  BY <1>t, <1>1 DEF Reading
<1>4. ~conn[c].unacked /\ ~conn[c].spilt /\ conn[c].outbuf = <<>> /\ ~conn[c].called
  BY <1>t, <1>1 DEF Reading, Own
<1> QED BY <1>t, <1>1, <1>2, <1>3, <1>4, RequestStep DEF Typed

(* What is left of a slot when something is assigned to it.                *)

Rest(u, s) ==
    /\ u.req = s.req /\ u.arrived = s.arrived /\ u.unacked = s.unacked /\ u.spilt = s.spilt
    /\ u.outbuf = s.outbuf /\ u.called = s.called /\ u.sent = s.sent
    /\ u.numOfResponseHeaders = s.numOfResponseHeaders /\ u.seen = s.seen

LEMMA TookSlot ==
    ASSUME NEW c \in Conns, conn[c] \in Slot
    PROVE  /\ Took(c) \in Slot /\ Rest(Took(c), conn[c])
           /\ Took(c).taken = conn[c].taken + 1
           /\ Took(c).state = conn[c].state /\ Took(c).at = conn[c].at
           /\ Took(c).postData = conn[c].postData /\ Took(c).postDataSize = conn[c].postDataSize
           /\ Took(c).requestType = conn[c].requestType /\ Took(c).statusCode = conn[c].statusCode
<1>1. Took(c) \in Slot
  <2> DEFINE n == conn[c].taken + 1
  <2>1. n \in Nat
    BY DEF Slot
  <2>2. Took(c) = [conn[c] EXCEPT !.taken = n]
    BY DEF Took
  <2> HIDE DEF n
  <2> QED BY <2>1, <2>2 DEF Slot
<1>2. Rest(Took(c), conn[c])
  BY DEF Took, Slot, Rest
<1>3. /\ Took(c).taken = conn[c].taken + 1
      /\ Took(c).state = conn[c].state /\ Took(c).at = conn[c].at
      /\ Took(c).postData = conn[c].postData /\ Took(c).postDataSize = conn[c].postDataSize
      /\ Took(c).requestType = conn[c].requestType /\ Took(c).statusCode = conn[c].statusCode
  BY DEF Took, Slot
<1> QED BY <1>1, <1>2, <1>3

LEMMA GoSlot ==
    ASSUME NEW s \in Slot, NEW label \in Labels
    PROVE  LET u == [s EXCEPT !.at = label]
           IN /\ u \in Slot /\ Rest(u, s) /\ u.at = label
              /\ u.taken = s.taken /\ u.state = s.state
              /\ u.postData = s.postData /\ u.postDataSize = s.postDataSize
              /\ u.requestType = s.requestType /\ u.statusCode = s.statusCode
<1> DEFINE u == [s EXCEPT !.at = label]
<1>1. u \in Slot
  BY DEF Slot
<1>2. Rest(u, s)
  BY DEF Slot, Rest
<1>3. /\ u.at = label
      /\ u.taken = s.taken /\ u.state = s.state
      /\ u.postData = s.postData /\ u.postDataSize = s.postDataSize
      /\ u.requestType = s.requestType /\ u.statusCode = s.statusCode
  BY DEF Slot
<1> QED BY <1>1, <1>2, <1>3

LEMMA TookTo ==
    ASSUME NEW c \in Conns, conn[c] \in Slot, NEW label \in Labels
    PROVE  LET u == [Took(c) EXCEPT !.at = label]
           IN /\ u \in Slot /\ Rest(u, conn[c]) /\ u.at = label
              /\ u.taken = conn[c].taken + 1 /\ u.state = conn[c].state
              /\ u.postData = conn[c].postData /\ u.postDataSize = conn[c].postDataSize
              /\ u.requestType = conn[c].requestType
<1> DEFINE m == Took(c)
           u == [m EXCEPT !.at = label]
<1>1. /\ m \in Slot /\ Rest(m, conn[c])
      /\ m.taken = conn[c].taken + 1 /\ m.state = conn[c].state
      /\ m.postData = conn[c].postData /\ m.postDataSize = conn[c].postDataSize
      /\ m.requestType = conn[c].requestType
  BY TookSlot
<1> HIDE DEF m
<1>2. /\ u \in Slot /\ Rest(u, m) /\ u.at = label
      /\ u.taken = m.taken /\ u.state = m.state
      /\ u.postData = m.postData /\ u.postDataSize = m.postDataSize
      /\ u.requestType = m.requestType
  BY <1>1, GoSlot
<1> HIDE DEF u
<1>3. Rest(u, conn[c])
  BY <1>1, <1>2 DEF Rest
<1>4. /\ u \in Slot /\ Rest(u, conn[c]) /\ u.at = label
      /\ u.taken = conn[c].taken + 1 /\ u.state = conn[c].state
      /\ u.postData = conn[c].postData /\ u.postDataSize = conn[c].postDataSize
      /\ u.requestType = conn[c].requestType
  BY <1>1, <1>2, <1>3
<1> QED BY <1>4 DEF u, m

LEMMA ToOutputSlot ==
    ASSUME NEW s \in Slot, NEW status \in Nat
    PROVE  LET u == ToOutput(s, status)
           IN /\ u \in Slot /\ Rest(u, s) /\ u.at = "begin" /\ u.state = "output"
              /\ u.taken = s.taken
              /\ u.postData = s.postData /\ u.postDataSize = s.postDataSize
              /\ u.requestType = s.requestType /\ u.statusCode = status
<1> DEFINE a == [s EXCEPT !.state = "output"]
           b == [a EXCEPT !.at = "begin"]
           u == [b EXCEPT !.statusCode = status]
<1>0. u = ToOutput(s, status)
  BY DEF ToOutput
<1>1. a \in Slot
  BY DEF Slot
<1>2. Rest(a, s)
  BY DEF Slot, Rest
<1>3. a.state = "output" /\ a.taken = s.taken
      /\ a.postData = s.postData /\ a.postDataSize = s.postDataSize
      /\ a.requestType = s.requestType
  BY DEF Slot
<1> HIDE DEF a
<1> USE DEF Slot
<1>4. b \in Slot /\ Rest(b, a) /\ b.state = a.state /\ b.at = "begin" /\ b.taken = a.taken
      /\ b.postData = a.postData /\ b.postDataSize = a.postDataSize
      /\ b.requestType = a.requestType
  <2> HIDE DEF Slot
  <2> QED BY ZenonT(30), <1>1, GoSlot DEF Labels
<1> HIDE DEF b
<1>5. u \in Slot
  BY <1>4
<1>6. Rest(u, b)
  BY <1>4 DEF Rest
<1>7. u.state = b.state /\ u.at = b.at /\ u.taken = b.taken
      /\ u.postData = b.postData /\ u.postDataSize = b.postDataSize
      /\ u.requestType = b.requestType /\ u.statusCode = status
  BY <1>4
<1> HIDE DEF Slot, u
<1>8. Rest(u, s)
  BY <1>2, <1>4, <1>6 DEF Rest
<1> QED BY <1>0, <1>3, <1>4, <1>5, <1>7, <1>8
LEMMA ReadMethodKeeps ==
    ASSUME IInv, NEW c \in Conns, ReadMethod(c)
    PROVE  IInv'
<1> DEFINE s == conn[c]
           m == [Took(c) EXCEPT !.at = "url"]
           u == [m EXCEPT !.requestType = s.req.method]
           w == ToOutput(Took(c), 503)
<1>t. Typed /\ s \in Slot /\ c # NoConn /\ Reading(c) /\ Own(c)
  BY Known
<1>1. /\ running = c /\ s.state = "waiting" /\ s.at = "method" /\ s.taken < s.arrived
      /\ running' = running /\ UNCHANGED <<error, readBytes, p, nIndex, leaked>>
  BY DEF ReadMethod, Reads, Waits, Statics
<1>2. /\ ~s.unacked /\ ~s.spilt /\ s.outbuf = <<>> /\ ~s.called /\ s.postData = <<>>
      /\ s.sent = <<>> /\ s.req \in Requests /\ s.numOfResponseHeaders = 0
      /\ s.arrived <= Len(Tokens(s.req)) /\ s.taken = 0 /\ s.postDataSize = 0 /\ error = "none"
  BY <1>t, <1>1 DEF Reading, Own, Over
<1>3. CASE isHttpMethodHandled(s.req.method)
  <2>0. /\ m \in Slot /\ Rest(m, s) /\ m.at = "url" /\ m.taken = s.taken + 1
        /\ m.state = s.state /\ m.postData = s.postData /\ m.postDataSize = s.postDataSize
    BY <1>t, TookTo DEF Labels
  <2>a. Becomes(c, u)
    BY <1>3 DEF ReadMethod
  <2> HIDE DEF m
  <2>b. s.req.method \in Methods
    BY <1>3 DEF isHttpMethodHandled, Methods
  <2>c. u \in Slot /\ Rest(u, m)
    BY <2>0, <2>b DEF Slot, Rest
  <2>1. /\ u \in Slot /\ Becomes(c, u) /\ u.state = "waiting" /\ u.at = "url" /\ Rest(u, s)
        /\ u.requestType = s.req.method /\ u.taken = s.taken + 1
        /\ u.postData = s.postData /\ u.postDataSize = s.postDataSize
    BY <1>1, <2>0, <2>a, <2>c DEF Slot, Rest
  <2>2. conn'[c] = u
    BY <2>1, <2>a, <1>t, Stepped
  <2> HIDE DEF u
  <2>3. Reading(c)'
    BY <1>t, <1>1, <1>2, <1>3, <2>1, <2>2 DEF Reading, Slot, Rest
  <2> QED BY <1>t, <2>a, <1>1, <1>2, <2>1, <2>3, RequestStep DEF Typed, Rest
<1>4. CASE ~isHttpMethodHandled(s.req.method)
  <2>1. /\ w \in Slot /\ w.state = "output" /\ w.at = "begin" /\ Rest(w, s)
        /\ w.statusCode = 503 /\ w.postData = s.postData
    BY <1>t, TookSlot, ToOutputSlot DEF Rest
  <2>a. Becomes(c, w)
    BY <1>4 DEF ReadMethod
  <2> HIDE DEF w
  <2>2. Decided(w)
    BY <1>2, <1>4, <2>1, Lesser DEF Decided, Rest
  <2> QED BY <1>t, <2>a, <1>1, <1>2, <2>1, <2>2, RequestStep DEF Typed, Rest
<1> QED BY <1>3, <1>4

(* Somebody else is connected only while plain requests are made.          *)
LEMMA PlainTogether ==
    ASSUME Undisturbed, IInv, NEW c \in Conns, conn[c].req \in Together
    PROVE  conn[c].req.url = "ok" /\ conn[c].req.size = 0
BY DEF Undisturbed, Plain

LEMMA ReadUrlKeeps ==
    ASSUME Undisturbed, IInv, NEW c \in Conns, ReadUrl(c)
    PROVE  IInv'
<1> DEFINE s == conn[c]
           u == [Took(c) EXCEPT !.at = "version"]
           w == ToOutput(Took(c), UrlStatus(error'))
<1>t. Typed /\ s \in Slot /\ c # NoConn /\ Reading(c) /\ Own(c)
  BY Known
<1>1. /\ running = c /\ s.state = "waiting" /\ s.at = "url" /\ s.taken < s.arrived
      /\ running' = running /\ UNCHANGED <<readBytes, p, nIndex, leaked>>
      /\ error' = UrlError(c)
  BY DEF ReadUrl, Reads, Waits
<1>2. /\ ~s.unacked /\ ~s.spilt /\ s.outbuf = <<>> /\ ~s.called /\ s.postData = <<>>
      /\ s.sent = <<>> /\ s.req \in Requests /\ s.numOfResponseHeaders = 0
      /\ s.arrived <= Len(Tokens(s.req)) /\ s.taken = 1 /\ s.postDataSize = 0 /\ error = "none"
      /\ isHttpMethodHandled(s.req.method) /\ s.requestType = s.req.method
  BY <1>t, <1>1 DEF Reading, Own, Over
<1>u. s.req.url \in {"ok", "long", "bad"}
  BY <1>2, Sizes
<1>3. \/ s.req.url = "ok" /\ error' = "none"
      \/ s.req.url = "long" /\ error' = "URL_TOO_LONG"
      \/ s.req.url = "bad" /\ error' = "URL_INVALID"
  BY <1>1, <1>2, <1>u DEF UrlError
<1>5. s.req \in Together => error' = error
  BY <1>2, <1>3, PlainTogether
<1>6. CASE error' = "none"
  <2>1. /\ u \in Slot /\ Rest(u, s) /\ u.at = "version" /\ u.taken = s.taken + 1
        /\ u.state = s.state /\ u.postData = s.postData /\ u.postDataSize = s.postDataSize
        /\ u.requestType = s.requestType
    BY <1>t, TookTo DEF Labels
  <2>a. Becomes(c, u)
    BY <1>6 DEF ReadUrl
  <2>2. conn'[c] = u
    BY <2>1, <2>a, <1>t, Stepped
  <2> HIDE DEF u
  <2>3. Reading(c)'
    BY SMTT(30), <1>t, <1>1, <1>2, <1>3, <1>6, <2>1, <2>2 DEF Reading, Slot, Rest
  <2> QED BY <1>t, <2>a, <1>1, <1>2, <1>5, <1>6, <2>1, <2>3, RequestStep DEF Typed, Rest
<1>7. CASE error' # "none"
  <2>1. UrlStatus(error') = IF s.req.url = "long" THEN 414 ELSE 400
    BY <1>3, <1>7 DEF UrlStatus
  <2>0. UrlStatus(error') \in Nat
    BY <2>1
  <2>2. /\ w \in Slot /\ w.state = "output" /\ w.at = "begin" /\ Rest(w, s)
        /\ w.statusCode = UrlStatus(error') /\ w.postData = s.postData
    BY <1>t, <2>0, TookSlot, ToOutputSlot DEF Rest
  <2>a. Becomes(c, w)
    BY <1>7 DEF ReadUrl
  <2> HIDE DEF w
  <2>b. LesserOf(w.numOfResponseHeaders + 1, MaxHeaders) = 1 /\ ~w.called /\ w.req = s.req
    BY <1>2, <2>2, Lesser DEF Rest
  <2>c. \/ w.statusCode = 414 /\ s.req.url = "long"
        \/ w.statusCode = 400 /\ s.req.url = "bad"
    BY <1>3, <1>7, <2>1, <2>2
  <2>3. Decided(w)
    BY <1>2, <2>2, <2>b, <2>c DEF Decided
  <2>4. error' \in {"none", "URL_TOO_LONG", "URL_INVALID", "MEMORY_ALLOC_ERR"}
    BY <1>3
  <2> QED BY <1>t, <2>a, <1>1, <1>2, <1>5, <2>2, <2>3, <2>4, RequestStep DEF Typed, Rest
<1> QED BY <1>6, <1>7

LEMMA ReadVersionKeeps ==
    ASSUME IInv, NEW c \in Conns, ReadVersion(c)
    PROVE  IInv'
<1> DEFINE s == conn[c]
           u == [Took(c) EXCEPT !.at = "header"]
<1>t. Typed /\ s \in Slot /\ c # NoConn /\ Reading(c) /\ Own(c)
  BY Known
<1>1. /\ running = c /\ s.state = "waiting" /\ s.at = "version" /\ s.taken < s.arrived
      /\ running' = running /\ UNCHANGED <<error, readBytes, p, nIndex, leaked>>
  BY DEF ReadVersion, Reads, Waits, Statics
<1>2. /\ ~s.unacked /\ ~s.spilt /\ s.outbuf = <<>> /\ ~s.called /\ s.postData = <<>>
      /\ s.sent = <<>> /\ s.req \in Requests /\ s.numOfResponseHeaders = 0
      /\ s.arrived <= Len(Tokens(s.req)) /\ s.taken = 2 /\ s.postDataSize = 0 /\ error = "none"
      /\ isHttpMethodHandled(s.req.method) /\ s.requestType = s.req.method /\ s.req.url = "ok"
  BY <1>t, <1>1 DEF Reading, Own, Over
<1>a. Becomes(c, u)
  BY DEF ReadVersion
<1>3. /\ u \in Slot /\ Rest(u, s) /\ u.at = "header" /\ u.taken = s.taken + 1
      /\ u.state = s.state /\ u.postData = s.postData /\ u.postDataSize = s.postDataSize
      /\ u.requestType = s.requestType
  BY <1>t, TookTo DEF Labels
<1>4. conn'[c] = u
  BY <1>3, <1>a, <1>t, Stepped
<1> HIDE DEF u
<1>5. Reading(c)'
  BY SMTT(30), <1>t, <1>1, <1>2, <1>3, <1>4 DEF Reading, Slot, Rest
<1> QED BY <1>t, <1>a, <1>1, <1>2, <1>3, <1>5, RequestStep DEF Typed, Rest

LEMMA ReadHeaderKeeps ==
    ASSUME IInv, NEW c \in Conns, ReadHeader(c)
    PROVE  IInv'
<1> DEFINE s == conn[c]
           m == Took(c)
           u == [m EXCEPT !.postDataSize = s.req.size]
<1>t. Typed /\ s \in Slot /\ c # NoConn /\ Reading(c) /\ Own(c)
  BY Known
<1>1. /\ running = c /\ s.state = "waiting" /\ s.at = "header" /\ s.taken < s.arrived
      /\ running' = running /\ UNCHANGED <<error, readBytes, p, nIndex, leaked>>
      /\ Tokens(s.req)[s.taken + 1] = "length"
  BY DEF ReadHeader, Reads, Waits, Statics, Token
<1>2. /\ ~s.unacked /\ ~s.spilt /\ s.outbuf = <<>> /\ ~s.called /\ s.postData = <<>>
      /\ s.sent = <<>> /\ s.req \in Requests /\ s.numOfResponseHeaders = 0
      /\ s.arrived <= Len(Tokens(s.req)) /\ error = "none"
      /\ \/ s.taken = 3 /\ s.postDataSize = 0
         \/ s.taken = 4 /\ s.postDataSize = s.req.size /\ s.req.size > 0
      /\ isHttpMethodHandled(s.req.method) /\ s.requestType = s.req.method /\ s.req.url = "ok"
  BY <1>t, <1>1 DEF Reading, Own, Over
<1>n. s.req.size \in Nat
  BY <1>2, Sizes
<1>z. s.taken = 3 /\ s.req.size > 0
  BY <1>1, <1>2, <1>n, TokensKnown DEF HeaderTokens
<1>a. Becomes(c, u)
  BY DEF ReadHeader
<1>b. /\ m \in Slot /\ Rest(m, s) /\ m.at = "header" /\ m.taken = s.taken + 1
      /\ m.state = s.state /\ m.postData = s.postData /\ m.requestType = s.requestType
  BY <1>t, <1>1, TookSlot
<1> HIDE DEF m
<1>c. u \in Slot /\ Rest(u, m)
  BY <1>b, <1>n DEF Slot, Rest
<1>3. /\ u \in Slot /\ Rest(u, s) /\ u.at = "header" /\ u.taken = s.taken + 1
      /\ u.state = s.state /\ u.postData = s.postData /\ u.postDataSize = s.req.size
      /\ u.requestType = s.requestType
  BY <1>b, <1>c DEF Slot, Rest
<1>4. conn'[c] = u
  BY <1>3, <1>a, <1>t, Stepped
<1> HIDE DEF u
<1>5. Reading(c)'
  BY SMTT(30), <1>t, <1>1, <1>2, <1>z, <1>3, <1>4 DEF Reading, Slot, Rest
<1> QED BY <1>t, <1>a, <1>1, <1>2, <1>3, <1>5, RequestStep DEF Typed, Rest

LEMMA NoBody ==
    ASSUME NEW c, NEW r, r.size = 0
    PROVE  Body(c, r) = <<>>
<1>1. 1 .. r.size = {}
  OBVIOUS
<1>2. [i \in {} |-> <<c, i>>] = <<>>
  OBVIOUS
<1> QED BY <1>1, <1>2, Zenon DEF Body

(* The callback of the application.                                        *)
LEMMA AnswerSlot ==
    ASSUME NEW s \in Slot, s.req \in Requests
    PROVE  LET u == Answer(s, "none")
           IN /\ u \in Slot /\ u.at = "begin" /\ u.state = "output"
              /\ u.req = s.req /\ u.unacked = s.unacked /\ u.spilt = s.spilt
              /\ u.outbuf = s.outbuf /\ u.sent = s.sent /\ u.postData = s.postData
              /\ u.requestType = s.requestType
              /\ u.called /\ u.seen = s.postData /\ u.statusCode = 200
              /\ u.numOfResponseHeaders = LesserOf(s.req.headers, MaxHeaders)
<1> DEFINE n == LesserOf(s.req.headers, MaxHeaders)
           a == ToOutput(s, 200)
           b == [a EXCEPT !.called = TRUE]
           d == [b EXCEPT !.seen = s.postData]
           u == [d EXCEPT !.numOfResponseHeaders = n]
<1>1. n \in 0 .. MaxHeaders
  <2> DEFINE h == s.req.headers
  <2>1. h \in Nat
    BY Sizes
  <2> HIDE DEF h
  <2>2. LesserOf(h, MaxHeaders) \in Nat /\ LesserOf(h, MaxHeaders) <= MaxHeaders
    BY <2>1, Lesser
  <2> QED BY <2>2 DEF h
<1>2. /\ a \in Slot /\ Rest(a, s) /\ a.at = "begin" /\ a.state = "output"
      /\ a.postData = s.postData /\ a.requestType = s.requestType /\ a.statusCode = 200
  BY ToOutputSlot
<1>3. Answer(s, "none") = u
  BY DEF Answer
<1>4. s.postData \in Seq(Bytes)
  BY DEF Slot
<1> HIDE DEF n, a
<1>5. /\ b \in Slot /\ b.called /\ b.at = a.at /\ b.state = a.state /\ b.req = a.req
      /\ b.unacked = a.unacked /\ b.spilt = a.spilt /\ b.outbuf = a.outbuf /\ b.sent = a.sent
      /\ b.postData = a.postData /\ b.requestType = a.requestType /\ b.statusCode = a.statusCode
  <2>1. b \in Slot
    BY <1>2 DEF Slot
  <2>2. /\ b.called /\ b.at = a.at /\ b.state = a.state /\ b.req = a.req
        /\ b.unacked = a.unacked /\ b.spilt = a.spilt /\ b.outbuf = a.outbuf /\ b.sent = a.sent
        /\ b.postData = a.postData /\ b.requestType = a.requestType /\ b.statusCode = a.statusCode
    BY <1>2 DEF Slot
  <2> QED BY <2>1, <2>2
<1> HIDE DEF b
<1>6. /\ d \in Slot /\ d.called = b.called /\ d.at = b.at /\ d.state = b.state /\ d.req = b.req
      /\ d.unacked = b.unacked /\ d.spilt = b.spilt /\ d.outbuf = b.outbuf /\ d.sent = b.sent
      /\ d.postData = b.postData /\ d.requestType = b.requestType /\ d.statusCode = b.statusCode
      /\ d.seen = s.postData
  <2>1. d \in Slot
    BY <1>4, <1>5 DEF Slot
  <2>2. /\ d.called = b.called /\ d.at = b.at /\ d.state = b.state /\ d.req = b.req
        /\ d.unacked = b.unacked /\ d.spilt = b.spilt /\ d.outbuf = b.outbuf /\ d.sent = b.sent
        /\ d.postData = b.postData /\ d.requestType = b.requestType /\ d.statusCode = b.statusCode
        /\ d.seen = s.postData
    BY <1>5 DEF Slot
  <2> QED BY <2>1, <2>2
<1> HIDE DEF d
<1>7. /\ u \in Slot /\ u.called = d.called /\ u.at = d.at /\ u.state = d.state /\ u.req = d.req
      /\ u.unacked = d.unacked /\ u.spilt = d.spilt /\ u.outbuf = d.outbuf /\ u.sent = d.sent
      /\ u.postData = d.postData /\ u.requestType = d.requestType /\ u.statusCode = d.statusCode
      /\ u.seen = d.seen /\ u.numOfResponseHeaders = n
  <2>1. u \in Slot
    BY <1>1, <1>6 DEF Slot
  <2>2. /\ u.called = d.called /\ u.at = d.at /\ u.state = d.state /\ u.req = d.req
        /\ u.unacked = d.unacked /\ u.spilt = d.spilt /\ u.outbuf = d.outbuf /\ u.sent = d.sent
        /\ u.postData = d.postData /\ u.requestType = d.requestType /\ u.statusCode = d.statusCode
        /\ u.seen = d.seen /\ u.numOfResponseHeaders = n
    BY <1>6 DEF Slot
  <2> QED BY <2>1, <2>2
<1> HIDE DEF u
<1>8. /\ u \in Slot /\ u.at = "begin" /\ u.state = "output"
      /\ u.req = s.req /\ u.unacked = s.unacked /\ u.spilt = s.spilt
      /\ u.outbuf = s.outbuf /\ u.sent = s.sent /\ u.postData = s.postData
      /\ u.requestType = s.requestType
      /\ u.called /\ u.seen = s.postData /\ u.statusCode = 200
      /\ u.numOfResponseHeaders = n
  BY <1>2, <1>5, <1>6, <1>7 DEF Rest
<1> QED BY <1>3, <1>8 DEF n

(* The request of which everything has been read is answered with 200.     *)
LEMMA AnsweredWell ==
    ASSUME NEW s \in Slot, s.req \in Requests,
           isHttpMethodHandled(s.req.method), s.req.url = "ok"
    PROVE  Decided(Answer(s, "none"))
<1> DEFINE u == Answer(s, "none")
<1>1. u.at = "begin" /\ u.statusCode = 200 /\ u.req = s.req /\ u.called
      /\ u.numOfResponseHeaders = LesserOf(s.req.headers, MaxHeaders)
  BY AnswerSlot
<1>2. LesserOf(LesserOf(s.req.headers, MaxHeaders) + 1, MaxHeaders) = LesserOf(s.req.headers + 1, MaxHeaders)
  BY Sizes, Lesser
<1> HIDE DEF u
<1>3. Decided(u)
  BY <1>1, <1>2 DEF Decided
<1> QED BY <1>3 DEF u

LEMMA EndOfHeadersKeeps ==
    ASSUME Undisturbed, IInv, NEW c \in Conns, EndOfHeaders(c)
    PROVE  IInv'
<1> DEFINE s == conn[c]
           m == Took(c)
           bytes == [i \in 1 .. s.postDataSize |-> <<NoConn, 0>>]
           k == [m EXCEPT !.at = "body"]
           u == [k EXCEPT !.postData = bytes]
           w == Answer(m, "none")
           z == ToOutput(m, 503)
<1>t. Typed /\ s \in Slot /\ c # NoConn /\ Reading(c) /\ Own(c)
  BY Known
<1>1. /\ running = c /\ s.state = "waiting" /\ s.at = "header" /\ s.taken < s.arrived
      /\ running' = running /\ UNCHANGED <<p, nIndex, leaked>>
      /\ Tokens(s.req)[s.taken + 1] = "end"
  BY DEF EndOfHeaders, Reads, Waits, Token
<1>2. /\ ~s.unacked /\ ~s.spilt /\ s.outbuf = <<>> /\ ~s.called /\ s.postData = <<>>
      /\ s.sent = <<>> /\ s.req \in Requests /\ s.numOfResponseHeaders = 0
      /\ s.arrived <= Len(Tokens(s.req)) /\ error = "none"
      /\ \/ s.taken = 3 /\ s.postDataSize = 0
         \/ s.taken = 4 /\ s.postDataSize = s.req.size /\ s.req.size > 0
      /\ isHttpMethodHandled(s.req.method) /\ s.requestType = s.req.method /\ s.req.url = "ok"
  BY <1>t, <1>1 DEF Reading, Own, Over
<1>n. s.req.size \in Nat
  BY <1>2, Sizes
<1>3. /\ m \in Slot /\ Rest(m, s) /\ m.taken = s.taken + 1 /\ m.at = s.at
      /\ m.state = s.state /\ m.postData = s.postData /\ m.requestType = s.requestType
      /\ m.postDataSize = s.postDataSize
  BY <1>t, TookSlot
<1>4. CASE /\ s.postDataSize = 0 /\ Becomes(c, Answer(Took(c), error))
           /\ UNCHANGED <<error, readBytes>>
  <2>1. s.req.size = 0
    BY <1>1, <1>2, <1>4, <1>n, TokensKnown DEF HeaderTokens
  <2>2. Becomes(c, w)
    BY <1>2, <1>4
  <2> HIDE DEF m
  <2>3. /\ w \in Slot /\ w.at = "begin" /\ w.state = "output"
        /\ w.req = m.req /\ w.unacked = m.unacked /\ w.spilt = m.spilt
        /\ w.outbuf = m.outbuf /\ w.sent = m.sent /\ w.postData = m.postData
        /\ w.requestType = m.requestType /\ w.called /\ w.seen = m.postData
    BY <1>2, <1>3, AnswerSlot DEF Rest
  <2>4. Decided(w)
    BY <1>2, <1>3, AnsweredWell DEF Rest
  <2>5. Body(c, s.req) = <<>>
    BY <2>1, NoBody
  <2> HIDE DEF w
  <2> QED BY <1>t, <1>1, <1>2, <1>3, <1>4, <2>2, <2>3, <2>4, <2>5, RequestStep DEF Typed, Rest
<1>5. CASE /\ s.postDataSize > 0 /\ CanMalloc
           /\ Becomes(c, [Took(c) EXCEPT !.at = "body", !.postData = bytes])
           /\ readBytes' = StartReading /\ UNCHANGED error
  <2>1. s.taken = 4 /\ s.postDataSize = s.req.size /\ s.req.size > 0
    BY <1>2, <1>5
  <2>2. bytes \in Seq(Bytes) /\ Len(bytes) = s.req.size
    BY <2>1, <1>n DEF Bytes
  <2>3. Becomes(c, u)
    BY <1>5
  <2> HIDE DEF m, bytes
  <2>4. /\ k \in Slot /\ Rest(k, m) /\ k.at = "body" /\ k.taken = m.taken /\ k.state = m.state
        /\ k.postDataSize = m.postDataSize /\ k.requestType = m.requestType
    BY <1>3, GoSlot DEF Labels
  <2> HIDE DEF k
  <2>5. u \in Slot
    BY <2>2, <2>4 DEF Slot
  <2>6. /\ Rest(u, k) /\ u.at = k.at /\ u.taken = k.taken /\ u.state = k.state
        /\ u.postDataSize = k.postDataSize /\ u.requestType = k.requestType /\ u.postData = bytes
    BY <2>4 DEF Slot, Rest
  <2>7. conn'[c] = u
    BY <1>t, <2>3, <2>5, Stepped
  <2> HIDE DEF u
  <2>8. Rest(u, s) /\ u.at = "body" /\ u.taken = s.taken + 1 /\ u.state = "waiting"
        /\ u.postDataSize = s.req.size /\ u.requestType = s.req.method
    BY <1>1, <1>2, <1>3, <2>1, <2>4, <2>6 DEF Rest
  <2>9. readBytes' = 0 /\ Len(u.postData) = s.req.size /\ s.taken \in Nat /\ s.arrived \in Nat
    BY <1>t, <1>5, <2>2, <2>6 DEF StartReading, Slot
  <2>10. Reading(c)'
    BY <1>1, <1>2, <1>n, <1>5, <2>1, <2>7, <2>8, <2>9 DEF Reading, Rest, HeaderTokens
  <2>11. s.req \notin Together
    BY <2>1, PlainTogether
  <2> QED BY SMTT(30), <1>t, <1>1, <1>2, <1>5, <2>3, <2>5, <2>8, <2>9, <2>10, <2>11, RequestStep DEF Typed, Rest
<1>6. CASE /\ s.postDataSize > 0
           /\ error' = "MEMORY_ALLOC_ERR" /\ readBytes' = StartReading
           /\ Becomes(c, Answer(Took(c), error'))
  <2>1. s.postDataSize = s.req.size /\ s.req.size > 0
    BY <1>2, <1>6
  <2>2. Becomes(c, z)
    BY <1>6 DEF Answer
  <2> HIDE DEF m
  <2>3. /\ z \in Slot /\ Rest(z, m) /\ z.at = "begin" /\ z.state = "output"
        /\ z.postData = m.postData /\ z.statusCode = 503
    BY <1>3, ToOutputSlot
  <2> HIDE DEF z
  <2>4. /\ LesserOf(z.numOfResponseHeaders + 1, MaxHeaders) = 1 /\ ~z.called /\ z.req = s.req
        /\ Rest(z, s)
    BY <1>2, <1>3, <2>3, Lesser DEF Rest
  <2>5. Decided(z)
    BY <1>2, <2>1, <2>3, <2>4 DEF Decided
  <2>6. s.req \notin Together
    BY <2>1, PlainTogether
  <2>7. readBytes' = 0
    BY <1>6 DEF StartReading
  <2> QED BY <1>t, <1>1, <1>2, <1>3, <1>6, <2>2, <2>3, <2>4, <2>5, <2>6, <2>7, RequestStep
          DEF Typed, Rest
<1> QED BY <1>4, <1>5, <1>6 DEF EndOfHeaders

(* The segment goes behind what was stored, and what is too much for the   *)
(* block is what the client has not announced.                             *)
LEMMA CopiedBody ==
    ASSUME IInv, NEW c \in Conns, conn[c].state = "waiting", conn[c].at = "body",
           ~conn[c].spilt, NEW n, n = conn[c].arrived - conn[c].taken, n > 0
    PROVE  /\ n \in Nat /\ readBytes + n <= conn[c].req.size + conn[c].req.excess
           /\ Copied(c, n) \in Seq(Bytes) /\ Len(Copied(c, n)) = conn[c].req.size
           /\ \A i \in 1 .. conn[c].req.size :
                  i <= readBytes + n => Copied(c, n)[i] = <<c, i>>
<1> DEFINE s == conn[c]
           size == s.req.size
           excess == s.req.excess
           data == s.postData
<1>t. Typed /\ s \in Slot /\ Reading(c)
  BY Known
<1>1. /\ s.req \in Requests /\ s.arrived <= Len(Tokens(s.req)) /\ size > 0
      /\ Len(data) = size /\ s.taken = HeaderTokens + readBytes /\ readBytes < size
      /\ \A i \in 1 .. readBytes : data[i] = <<c, i>>
  BY <1>t DEF Reading
<1>2. size \in Nat /\ excess \in Nat /\ readBytes \in Nat /\ s.taken \in Nat /\ s.arrived \in Nat
      /\ data \in Seq(Bytes)
  BY <1>t, <1>1, Sizes DEF Typed, Slot
<1>3. Len(Tokens(s.req)) = HeaderTokens + size + excess
  BY <1>1, TokensKnown
<1> DEFINE all == Len(Tokens(s.req))
           arrived == s.arrived
           taken == s.taken
<1>a. /\ all = 5 + size + excess /\ taken = 5 + readBytes /\ arrived <= all /\ n = arrived - taken
      /\ size \in Nat /\ excess \in Nat /\ readBytes \in Nat /\ taken \in Nat /\ arrived \in Nat
  BY <1>1, <1>2, <1>3 DEF HeaderTokens
<1> HIDE DEF all, arrived, taken, size, excess
<1>4. n \in Nat /\ readBytes + n <= size + excess
  BY <1>1, <1>a
<1>b. taken - (all - size - excess) = readBytes
  BY <1>a
<1>5. s.taken - (Len(Tokens(s.req)) - s.req.size - s.req.excess) = readBytes
  BY <1>b DEF taken, all, size, excess
<1> USE DEF size
<1> DEFINE f == [i \in 1 .. size |->
                    IF i \in readBytes + 1 .. readBytes + n THEN <<c, readBytes + i - readBytes>> ELSE data[i]]
<1>6. Copied(c, n) = f
  BY <1>1, <1>5 DEF Copied
<1> HIDE DEF data, size
<1>7. \A i \in 1 .. size : f[i] \in Bytes
  <2> SUFFICES ASSUME NEW i \in 1 .. size PROVE f[i] \in Bytes
    OBVIOUS
  <2>1. data[i] \in Bytes
    BY <1>1, <1>2, ElementOfSeq
  <2>2. <<c, readBytes + i - readBytes>> \in Bytes
    BY <1>2 DEF Bytes
  <2> QED BY <2>1, <2>2
<1>8. f \in Seq(Bytes) /\ Len(f) = size
  <2>1. f \in [1 .. size -> Bytes]
    BY <1>7
  <2> HIDE DEF f
  <2> QED BY <2>1, <1>2
<1>9. \A i \in 1 .. size : i <= readBytes + n => f[i] = <<c, i>>
  <2> SUFFICES ASSUME NEW i \in 1 .. size, i <= readBytes + n PROVE f[i] = <<c, i>>
    OBVIOUS
  <2>1. i \in 1 .. size
    OBVIOUS
  <2>2. CASE i \in readBytes + 1 .. readBytes + n
    <3>1. readBytes + i - readBytes = i
      BY <1>2
    <3> QED BY <2>1, <2>2, <3>1
  <2>3. CASE i \notin readBytes + 1 .. readBytes + n
    <3>1. i \in 1 .. readBytes
      BY <1>2, <1>4, <2>3
    <3> QED BY <1>1, <2>1, <2>3, <3>1
  <2> QED BY <2>2, <2>3
<1> HIDE DEF f
<1> QED BY <1>4, <1>6, <1>8, <1>9 DEF size, excess

LEMMA ReadBodyKeeps ==
    ASSUME Undisturbed, IInv, NEW c \in Conns, ReadBody(c)
    PROVE  IInv'
<1> DEFINE s == conn[c]
           n == s.arrived - s.taken
           copied == Copied(c, n)
           over == readBytes + n > s.postDataSize
           a == [s EXCEPT !.taken = s.arrived]
           b == [a EXCEPT !.postData = copied]
           r == [b EXCEPT !.spilt = over]
           w == Answer(r, "none")
<1>t. Typed /\ s \in Slot /\ c # NoConn /\ Reading(c) /\ Own(c)
  BY Known
<1>1. /\ running = c /\ s.state = "waiting" /\ s.at = "body" /\ s.taken < s.arrived
      /\ UNCHANGED <<running, error, p, nIndex, leaked>>
  BY DEF ReadBody, Reads, Waits
<1>v. ~s.spilt
  BY <1>1, <1>t DEF Own, Over, Slot
<1>2. /\ ~s.unacked /\ s.outbuf = <<>> /\ ~s.called
      /\ s.sent = <<>> /\ s.req \in Requests /\ s.numOfResponseHeaders = 0
      /\ s.arrived <= Len(Tokens(s.req)) /\ error = "none"
      /\ isHttpMethodHandled(s.req.method) /\ s.requestType = s.req.method /\ s.req.url = "ok"
      /\ s.req.size > 0 /\ s.postDataSize = s.req.size /\ Len(s.postData) = s.req.size
      /\ s.taken = HeaderTokens + readBytes /\ readBytes < s.req.size
  BY <1>t, <1>1, <1>v DEF Reading
<1>3. /\ s.req.size \in Nat /\ s.req.excess \in Nat /\ s.taken \in Nat /\ s.arrived \in Nat /\ readBytes \in Nat
      /\ s.postData \in Seq(Bytes) /\ s.spilt \in BOOLEAN
  BY <1>t, <1>2, Sizes DEF Typed, Slot
<1>4. n > 0
  BY <1>1, <1>3
<1>5. /\ n \in Nat /\ readBytes + n <= s.req.size + s.req.excess
      /\ copied \in Seq(Bytes) /\ Len(copied) = s.req.size
      /\ \A i \in 1 .. s.req.size : i <= readBytes + n => copied[i] = <<c, i>>
  BY <1>1, <1>4, <1>v, CopiedBody
<1>6. /\ over \in BOOLEAN
      /\ over => s.req.excess > 0 /\ AllRead(c, n)
      /\ AllRead(c, n) /\ ~over => readBytes + n = s.req.size
      /\ ~AllRead(c, n) => readBytes + n < s.req.size
  <2> DEFINE m == readBytes + n
             size == s.req.size
             excess == s.req.excess
  <2>1. m \in Nat /\ size \in Nat /\ excess \in Nat /\ m <= size + excess
    BY <1>3, <1>5
  <2>0. over \in BOOLEAN
    OBVIOUS
  <2>2. (over <=> m > size) /\ (AllRead(c, n) <=> m >= size)
    BY <1>2 DEF AllRead
  <2> HIDE DEF m, size, excess, over
  <2>3. over => excess > 0
    BY <2>1, <2>2
  <2>4. over => m >= size
    BY <2>1, <2>2
  <2>5. m >= size /\ ~over => m = size
    BY <2>1, <2>2
  <2>6. ~(m >= size) => m < size
    BY <2>1
  <2> QED BY <2>0, <2>2, <2>3, <2>4, <2>5, <2>6 DEF m, size, excess
<1>7. s.postData # <<>>
  BY <1>2, <1>3
<1>8. s.req \notin Together
  BY <1>2, PlainTogether
<1>9. /\ readBytes' = (IF AllRead(c, n) THEN readBytes + n + 1 ELSE readBytes + n)
      /\ Becomes(c, IF AllRead(c, n) /\ ~r.spilt THEN Answer(r, error) ELSE r)
  BY DEF ReadBody
<1>11. readBytes' \in Nat
  BY SMTT(30), <1>3, <1>5, <1>9
<1> HIDE DEF copied, over
<1>12. /\ a \in Slot /\ Rest(a, s) /\ a.at = s.at /\ a.taken = s.arrived /\ a.state = s.state
       /\ a.postDataSize = s.postDataSize /\ a.requestType = s.requestType
  BY <1>t, <1>3 DEF Slot, Rest
<1> HIDE DEF a
<1>13. b \in Slot /\ Rest(b, a) /\ b.at = a.at /\ b.taken = a.taken /\ b.state = a.state
       /\ b.postDataSize = a.postDataSize /\ b.requestType = a.requestType /\ b.postData = copied
  <2>1. b \in Slot
    BY <1>5, <1>12 DEF Slot
  <2>2. Rest(b, a) /\ b.at = a.at /\ b.taken = a.taken /\ b.state = a.state
        /\ b.postDataSize = a.postDataSize /\ b.requestType = a.requestType /\ b.postData = copied
    BY <1>12 DEF Slot, Rest
  <2> QED BY <2>1, <2>2
<1> HIDE DEF b
<1>14. /\ r \in Slot /\ r.req = b.req /\ r.arrived = b.arrived /\ r.unacked = b.unacked
       /\ r.outbuf = b.outbuf /\ r.called = b.called /\ r.sent = b.sent
       /\ r.numOfResponseHeaders = b.numOfResponseHeaders
       /\ r.at = b.at /\ r.taken = b.taken /\ r.state = b.state
       /\ r.postDataSize = b.postDataSize /\ r.requestType = b.requestType /\ r.postData = b.postData
       /\ r.spilt = over
  <2>1. r \in Slot
    BY <1>6, <1>13 DEF Slot
  <2>2. /\ r.req = b.req /\ r.arrived = b.arrived /\ r.unacked = b.unacked
        /\ r.outbuf = b.outbuf /\ r.called = b.called /\ r.sent = b.sent
        /\ r.numOfResponseHeaders = b.numOfResponseHeaders
        /\ r.at = b.at /\ r.taken = b.taken /\ r.state = b.state
        /\ r.postDataSize = b.postDataSize /\ r.requestType = b.requestType /\ r.postData = b.postData
        /\ r.spilt = over
    BY <1>6, <1>13 DEF Slot
  <2> QED BY <2>1, <2>2
<1> HIDE DEF r
<1>15. /\ r.req = s.req /\ r.arrived = s.arrived /\ ~r.unacked /\ r.spilt = over
       /\ r.outbuf = <<>> /\ ~r.called /\ r.sent = <<>> /\ r.numOfResponseHeaders = 0
       /\ r.at = "body" /\ r.taken = s.arrived /\ r.state = "waiting"
       /\ r.postDataSize = s.req.size /\ r.requestType = s.req.method /\ r.postData = copied
  BY <1>1, <1>2, <1>12, <1>13, <1>14 DEF Rest
<1>16. CASE AllRead(c, n) /\ ~over
  <2>1. Becomes(c, w)
    BY <1>2, <1>9, <1>15, <1>16
  <2>2. /\ w \in Slot /\ w.at = "begin" /\ w.state = "output"
        /\ w.req = r.req /\ w.unacked = r.unacked /\ w.spilt = r.spilt
        /\ w.outbuf = r.outbuf /\ w.sent = r.sent /\ w.postData = r.postData
        /\ w.requestType = r.requestType /\ w.called /\ w.seen = r.postData
    BY <1>2, <1>14, <1>15, AnswerSlot
  <2>3. Decided(w)
    BY <1>2, <1>14, <1>15, AnsweredWell
  <2>4. copied = Body(c, s.req)
    <3>1. /\ Body(c, s.req) \in Seq(Bytes) /\ Len(Body(c, s.req)) = s.req.size
          /\ \A i \in 1 .. s.req.size : Body(c, s.req)[i] = <<c, i>>
      <4> DEFINE z == s.req.size
      <4>1. z \in Nat
        BY <1>3
      <4>2. Body(c, s.req) = [i \in 1 .. z |-> <<c, i>>]
        BY DEF Body
      <4> HIDE DEF z
      <4>3. Body(c, s.req) \in [1 .. z -> Bytes]
        BY <4>1, <4>2 DEF Bytes
      <4>4. Body(c, s.req) \in Seq(Bytes) /\ Len(Body(c, s.req)) = z
        BY <4>1, <4>3
      <4>5. \A i \in 1 .. z : Body(c, s.req)[i] = <<c, i>>
        BY <4>2
      <4> QED BY <4>4, <4>5 DEF z
    <3>2. \A i \in 1 .. Len(copied) : copied[i] = Body(c, s.req)[i]
      <4> DEFINE z == s.req.size
      <4>1. z \in Nat /\ readBytes + n = z
        BY <1>3, <1>6, <1>16
      <4>2. \A i \in 1 .. z : i <= readBytes + n => copied[i] = <<c, i>>
        BY <1>5
      <4>3. Len(copied) = z /\ \A i \in 1 .. z : Body(c, s.req)[i] = <<c, i>>
        BY <1>5, <3>1
      <4> HIDE DEF z, n
      <4>4. \A i \in 1 .. z : copied[i] = <<c, i>>
        BY <4>1, <4>2
      <4> QED BY <4>3, <4>4
    <3>3. Len(copied) = Len(Body(c, s.req)) /\ copied \in Seq(Bytes)
      BY <1>5, <3>1
    <3> QED BY <3>1, <3>2, <3>3, SeqEqual
  <2>5. ~w.spilt
    BY <1>15, <1>16, <2>2
  <2> HIDE DEF w, n
  <2> QED BY <1>t, <1>1, <1>2, <1>7, <1>8, <1>11, <1>15, <2>1, <2>2, <2>3, <2>4, <2>5, RequestStep DEF Typed
<1>17. CASE ~AllRead(c, n)
  <2>0. ~r.spilt
    BY <1>6, <1>15, <1>17
  <2>1. Becomes(c, r)
    BY <1>9, <1>17
  <2>2. conn'[c] = r
    BY <1>t, <1>14, <2>1, Stepped
  <2>3. /\ readBytes' = readBytes + n /\ readBytes' < s.req.size
        /\ s.arrived = HeaderTokens + readBytes'
    BY SMTT(30), <1>2, <1>3, <1>5, <1>6, <1>9, <1>17 DEF HeaderTokens
  <2>4. \A i \in 1 .. readBytes' : r.postData[i] = <<c, i>>
    BY SMTT(30), <1>3, <1>5, <1>11, <1>15, <2>3
  <2> HIDE DEF n
  <2>a. /\ r.req \in Requests /\ r.taken <= r.arrived /\ r.arrived <= Len(Tokens(r.req))
        /\ r.taken = HeaderTokens + readBytes' /\ readBytes' < r.req.size /\ r.req.size > 0
        /\ r.postDataSize = r.req.size /\ Len(r.postData) = r.req.size
        /\ isHttpMethodHandled(r.req.method) /\ r.requestType = r.req.method /\ r.req.url = "ok"
        /\ error' = "none"
    BY <1>1, <1>2, <1>3, <1>5, <1>15, <2>3
  <2>5. Reading(c)'
    BY <1>15, <2>2, <2>4, <2>a DEF Reading
  <2> QED BY <1>t, <1>1, <1>2, <1>7, <1>8, <1>11, <1>14, <1>15, <2>0, <2>1, <2>5, RequestStep DEF Typed
<1>18. CASE over
  <2>1. Becomes(c, r)
    BY <1>9, <1>15, <1>18
  <2>2. conn'[c] = r
    BY <1>t, <1>14, <2>1, Stepped
  <2>3. Over(c, r)
    BY <1>1, <1>6, <1>15, <1>18 DEF Over
  <2> HIDE DEF n
  <2>4. /\ r.req \in Requests /\ r.taken <= r.arrived /\ r.arrived <= Len(Tokens(r.req))
        /\ r.req.size > 0 /\ r.postDataSize = r.req.size /\ Len(r.postData) = r.req.size
        /\ isHttpMethodHandled(r.req.method) /\ r.requestType = r.req.method /\ r.req.url = "ok"
        /\ error' = "none" /\ r.spilt
    BY <1>1, <1>2, <1>3, <1>5, <1>15, <1>18
  <2>5. Reading(c)'
    BY <1>15, <2>2, <2>4 DEF Reading
  <2> QED BY <1>t, <1>1, <1>2, <1>7, <1>8, <1>11, <1>14, <1>15, <2>1, <2>3, <2>5, RequestStep DEF Typed
<1> QED BY <1>16, <1>17, <1>18
-------------------------------------------------------------------------------
(* The steps of handleResponse.                                            *)

SendLabels == {"version", "status", "header", "blank", "body"}

LEMMA Sender ==
    ASSUME IInv, NEW c \in Conns, running = c, conn[c].state = "output"
    PROVE  /\ Typed /\ conn[c] \in Slot /\ c # NoConn
           /\ conn[c].req \in Requests /\ Decided(conn[c]) /\ ~conn[c].unacked
           /\ ~conn[c].spilt /\ Len(conn[c].outbuf) <= OutBuf
           /\ conn[c].called => conn[c].seen = Body(c, conn[c].req)
                                /\ conn[c].requestType = conn[c].req.method
           /\ conn[c].at = "begin" => conn[c].sent = <<>> /\ conn[c].outbuf = <<>>
           /\ conn[c].at # "begin" =>
                  Progress(c) /\ conn[c].postData = <<>> /\ conn[c].at \in SendLabels
<1>1. Typed /\ conn[c] \in Slot /\ c # NoConn /\ Answering(c) /\ Streaming(c) /\ Own(c)
  BY Known
<1>2. conn[c].at # "begin" => Progress(c)
  BY <1>1 DEF Streaming, Sending, Busy
<1> QED BY <1>1, <1>2 DEF Answering, Own, Over, SendLabels

LEMMA MadeBounds ==
    ASSUME IInv, NEW c \in Conns, Progress(c), conn[c].at \in SendLabels
    PROVE  /\ Made(c) \in 1 .. Len(Reply(c)) /\ Len(Reply(c)) \in Nat
           /\ Reply(c) \in Seq(Pieces)
<1>1. Typed /\ conn[c] \in Slot
  BY Known
<1> DEFINE H == conn[c].numOfResponseHeaders
           l == Len(Reply(c))
<1>2. H \in Nat /\ nIndex \in Nat
  BY <1>1 DEF Slot, Typed
<1>3. Reply(c) \in Seq(Pieces) /\ l = 3 + H + (IF conn[c].called THEN 1 ELSE 0)
  BY <1>1, ReplyTyped
<1>4. l \in Nat /\ l >= 3 + H
  BY <1>2, <1>3
<1>5. conn[c].at = "header" => nIndex < H
  BY DEF Progress
<1> HIDE DEF H, l
<1>6. Made(c) = CASE conn[c].at = "version" -> 1
                  [] conn[c].at = "status" -> 2
                  [] conn[c].at = "header" -> 3 + nIndex
                  [] conn[c].at = "blank" -> 3 + H
                  [] OTHER -> l
  BY DEF Made, MadeAt, H, l
<1>7. Made(c) \in 1 .. l
  BY <1>2, <1>4, <1>5, <1>6 DEF SendLabels
<1> QED BY <1>3, <1>4, <1>7 DEF l

(* The piece that p points to is of the kind the thread is at.             *)
LEMMA PieceMade ==
    ASSUME IInv, NEW c \in Conns, Progress(c), conn[c].at \in SendLabels
    PROVE  Reply(c)[Made(c)].kind =
               IF conn[c].at = "body" /\ ~conn[c].called THEN "blank" ELSE conn[c].at
<1>1. Typed /\ conn[c] \in Slot
  BY Known
<1> DEFINE H == conn[c].numOfResponseHeaders
           R == Reply(c)
           called == conn[c].called
           at == conn[c].at
<1>2. H \in Nat /\ nIndex \in Nat /\ called \in BOOLEAN
  BY <1>1 DEF Slot, Typed
<1>3. /\ Len(R) = 3 + H + (IF called THEN 1 ELSE 0)
      /\ R[1].kind = "version" /\ R[2].kind = "status"
      /\ \A i \in 1 .. H : R[2 + i].kind = "header"
      /\ R[3 + H].kind = "blank"
      /\ called => R[4 + H].kind = "body"
  <2>1. /\ Len(R) = 3 + H + (IF called THEN 1 ELSE 0)
        /\ R[1] = Piece("version", NoConn, 0)
        /\ R[2] = Piece("status", NoConn, conn[c].statusCode)
        /\ \A i \in 1 .. H : R[2 + i] = Piece("header", c, i - 1)
        /\ R[3 + H] = Piece("blank", NoConn, 0)
        /\ called => R[4 + H] = Piece("body", c, 0)
    BY <1>1, ReplyTyped
  <2>2. \A kind, of, n : Piece(kind, of, n).kind = kind
    BY DEF Piece
  <2> HIDE DEF R, H, called
  <2> QED BY <2>1, <2>2
<1>4. at = "header" => nIndex < H
  BY DEF Progress
<1>5. /\ at = "version" => Made(c) = 1
      /\ at = "status" => Made(c) = 2
      /\ at = "header" => Made(c) = 3 + nIndex
      /\ at = "blank" => Made(c) = 3 + H
      /\ at = "body" => Made(c) = Len(R)
  BY DEF Made, MadeAt
<1>6. at \in SendLabels
  OBVIOUS
<1> HIDE DEF H, R, called, at
<1>7. CASE at = "header"
  <2>1. nIndex + 1 \in 1 .. H /\ Made(c) = 2 + (nIndex + 1)
    BY <1>2, <1>4, <1>5, <1>7
  <2> QED BY <1>3, <1>7, <2>1 DEF R, at, called
<1>8. CASE at = "body"
  <2>1. CASE called
    <3>1. Made(c) = 4 + H
      BY <1>2, <1>3, <1>5, <1>8, <2>1
    <3> QED BY <1>3, <1>8, <2>1, <3>1 DEF R, at, called
  <2>2. CASE ~called
    <3>1. Made(c) = 3 + H
      BY <1>2, <1>3, <1>5, <1>8, <2>2
    <3> QED BY <1>3, <1>8, <2>2, <3>1 DEF R, at, called
  <2> QED BY <2>1, <2>2
<1>9. CASE at \in {"version", "status", "blank"}
  BY <1>3, <1>5, <1>9 DEF R, at, called
<1> QED BY <1>6, <1>7, <1>8, <1>9 DEF SendLabels

(* A step of a thread that goes on sending.                                *)
LEMMA ResponseStep ==
    ASSUME IInv, NEW c \in Conns, NEW v \in Slot, Becomes(c, v),
           running = c, running' = c, conn[c].state = "output",
           v.state = "output", v.at \in SendLabels, v.req = conn[c].req,
           ~v.unacked, v.spilt = conn[c].spilt, v.called = conn[c].called,
           v.seen = conn[c].seen, v.requestType = conn[c].requestType,
           Decided(v), v.postData = <<>>, Len(v.outbuf) <= OutBuf,
           UNCHANGED <<error, readBytes, leaked>>,
           p' \in Pieces, nIndex' \in 0 .. MaxHeaders,
           Progress(c)'
    PROVE  IInv'
<1>t. /\ Typed /\ c # NoConn /\ conn[c].req \in Requests /\ ~conn[c].spilt
      /\ conn[c].called => conn[c].seen = Body(c, conn[c].req)
                           /\ conn[c].requestType = conn[c].req.method
  BY Sender
<1>1. conn'[c] = v
  BY <1>t, Stepped
<1>2. Free(c)' /\ Reading(c)' /\ Yielded(c)' /\ Streaming(c)'
  BY <1>1 DEF Free, Reading, Yielded, Streaming
<1>3. Answering(c)'
  BY <1>1, <1>t DEF Answering, SendLabels
<1>4. Own(c)'
  BY <1>1, <1>t DEF Own, Over
<1>5. Kept(c)'
  BY <1>2, <1>3, <1>4 DEF Kept
<1>6. Busy(c)'
  BY <1>1 DEF Busy, Sending, SendLabels
<1> QED BY <1>t, <1>5, <1>6, Step DEF Typed

LEMMA StartResponseKeeps ==
    ASSUME IInv, NEW c \in Conns, StartResponse(c)
    PROVE  IInv'
<1> DEFINE s == conn[c]
           n == LesserOf(s.numOfResponseHeaders + 1, MaxHeaders)
           a == [s EXCEPT !.postData = <<>>]
           b == [a EXCEPT !.postDataSize = 0]
           d == [b EXCEPT !.at = "version"]
           v == [d EXCEPT !.numOfResponseHeaders = n]
<1>1. /\ running = c /\ s.state = "output" /\ s.at = "begin" /\ running' = running
      /\ UNCHANGED <<error, readBytes, nIndex, leaked>> /\ p' = Piece("version", NoConn, 0)
  BY DEF StartResponse, Sends
<1>t. /\ Typed /\ s \in Slot /\ Decided(s) /\ s.sent = <<>> /\ s.outbuf = <<>> /\ ~s.unacked
      /\ s.req \in Requests
  BY <1>1, Sender
<1>n. n \in 0 .. MaxHeaders
  <2> DEFINE h == s.numOfResponseHeaders + 1
  <2>1. h \in Nat
    BY <1>t DEF Slot
  <2> HIDE DEF h
  <2>2. LesserOf(h, MaxHeaders) \in Nat /\ LesserOf(h, MaxHeaders) <= MaxHeaders
    BY <2>1, Lesser
  <2> QED BY <2>2 DEF h
<1>2. Becomes(c, v)
  BY DEF StartResponse
<1> HIDE DEF n
<1>3. /\ a \in Slot /\ Rest(a, s) /\ a.state = s.state /\ a.postData = <<>>
      /\ a.requestType = s.requestType /\ a.statusCode = s.statusCode
  <2>0. <<>> \in Seq(Bytes)
    OBVIOUS
  <2>1. a \in Slot
    BY <1>t, <2>0 DEF Slot
  <2>2. /\ Rest(a, s) /\ a.state = s.state /\ a.postData = <<>>
        /\ a.requestType = s.requestType /\ a.statusCode = s.statusCode
    BY <1>t DEF Slot, Rest
  <2> QED BY <2>1, <2>2
<1> HIDE DEF a
<1>4. /\ b \in Slot /\ Rest(b, a) /\ b.state = a.state /\ b.postData = a.postData
      /\ b.requestType = a.requestType /\ b.statusCode = a.statusCode
  BY <1>3 DEF Slot, Rest
<1> HIDE DEF b
<1>5. /\ d \in Slot /\ Rest(d, b) /\ d.at = "version" /\ d.state = b.state /\ d.postData = b.postData
      /\ d.requestType = b.requestType /\ d.statusCode = b.statusCode
  BY <1>4, GoSlot DEF Labels
<1> HIDE DEF d
<1>6. /\ v \in Slot /\ v.at = d.at /\ v.state = d.state /\ v.postData = d.postData
      /\ v.req = d.req /\ v.unacked = d.unacked /\ v.spilt = d.spilt
      /\ v.outbuf = d.outbuf /\ v.called = d.called /\ v.sent = d.sent /\ v.seen = d.seen
      /\ v.requestType = d.requestType /\ v.statusCode = d.statusCode
      /\ v.numOfResponseHeaders = n
  <2>1. v \in Slot
    BY <1>5, <1>n DEF Slot
  <2>2. /\ v.at = d.at /\ v.state = d.state /\ v.postData = d.postData
        /\ v.req = d.req /\ v.unacked = d.unacked /\ v.spilt = d.spilt
        /\ v.outbuf = d.outbuf /\ v.called = d.called /\ v.sent = d.sent /\ v.seen = d.seen
        /\ v.requestType = d.requestType /\ v.statusCode = d.statusCode
        /\ v.numOfResponseHeaders = n
    BY <1>5 DEF Slot
  <2> QED BY <2>1, <2>2
<1>7. conn'[c] = v
  BY <1>t, <1>2, <1>6, Stepped
<1> HIDE DEF v
<1>8. /\ v.at = "version" /\ v.state = "output" /\ v.postData = <<>>
      /\ v.req = s.req /\ ~v.unacked /\ v.spilt = s.spilt
      /\ v.outbuf = <<>> /\ v.called = s.called /\ v.sent = <<>> /\ v.seen = s.seen
      /\ v.requestType = s.requestType /\ v.statusCode = s.statusCode
  BY <1>1, <1>t, <1>3, <1>4, <1>5, <1>6 DEF Rest
<1>9. Decided(v)
  BY <1>1, <1>t, <1>6, <1>8 DEF Decided, n
<1>10. Progress(c)'
  <2> DEFINE R == ReplyOf(c, v.statusCode, v.numOfResponseHeaders, v.called)
  <2>2. R[1] = Piece("version", NoConn, 0)
    BY <1>6, ReplyOfSlot
  <2>3. Reply(c)' = R
    BY <1>7 DEF Reply
  <2> HIDE DEF R
  <2>4. Made(c)' = 1
    BY <1>7, <1>8 DEF Made, MadeAt
  <2>5. Got(c)' = <<>>
    BY <1>7, <1>8 DEF Got
  <2>6. SubSeq(R, 1, 1 - 1) = <<>>
    BY SubSeqEmpty
  <2> QED BY <1>1, <1>7, <1>8, <2>2, <2>3, <2>4, <2>5, <2>6 DEF Progress
<1>11. p' \in Pieces
  BY <1>1, PieceTyped
<1> QED BY <1>t, <1>1, <1>2, <1>6, <1>8, <1>9, <1>10, <1>11, ResponseStep DEF Typed, SendLabels

(* p gets the next piece, behind one that has been copied.                 *)
LEMMA Advance ==
    ASSUME IInv, NEW c \in Conns, running = c, running' = c,
           conn[c].state = "output", conn[c].at # "begin", p = Empty,
           NEW label \in SendLabels, Becomes(c, [conn[c] EXCEPT !.at = label]),
           UNCHANGED <<error, readBytes, leaked>>, nIndex' \in 0 .. MaxHeaders, p' \in Pieces,
           label = "header" => nIndex' < conn[c].numOfResponseHeaders,
           \/ MadeAt(c, label, nIndex') = Made(c) + 1 /\ p' = Reply(c)[Made(c) + 1]
           \/ MadeAt(c, label, nIndex') = Made(c) /\ p' = Empty
    PROVE  IInv'
<1> DEFINE s == conn[c]
           v == [s EXCEPT !.at = label]
<1>t. /\ Typed /\ s \in Slot /\ Decided(s) /\ ~s.unacked /\ s.req \in Requests
      /\ Progress(c) /\ s.postData = <<>> /\ s.at \in SendLabels /\ Len(s.outbuf) <= OutBuf
  BY Sender
<1>1. /\ v \in Slot /\ Rest(v, s) /\ v.at = label /\ v.state = s.state
      /\ v.postData = s.postData /\ v.requestType = s.requestType /\ v.statusCode = s.statusCode
  <2>1. label \in Labels
    BY DEF Labels, SendLabels
  <2> QED BY <1>t, <2>1, GoSlot
<1>b. Becomes(c, v)
  OBVIOUS
<1>2. conn'[c] = v
  BY <1>t, <1>1, Stepped
<1> HIDE DEF v
<1>3. Decided(v)
  BY <1>t, <1>1 DEF Decided, SendLabels, Rest
<1>4. Reply(c)' = Reply(c) /\ Got(c)' = Got(c) /\ Made(c)' = MadeAt(c, label, nIndex')
  BY <1>1, <1>2 DEF Reply, Got, Made, MadeAt, Rest
<1>5. Made(c) \in 1 .. Len(Reply(c)) /\ Reply(c) \in Seq(Pieces)
  BY <1>t, MadeBounds
<1>6. Got(c) = SubSeq(Reply(c), 1, Made(c))
  <2>1. CASE Got(c) = SubSeq(Reply(c), 1, Made(c))
    BY <2>1
  <2>2. CASE p = Reply(c)[Made(c)]
    BY <1>t, <2>2, PieceMade DEF Empty, Piece, SendLabels
  <2> QED BY <1>t, <2>1, <2>2 DEF Progress
<1>7. Progress(c)'
  <2>1. conn'[c].at = "header" => nIndex' < conn'[c].numOfResponseHeaders
    BY <1>1, <1>2 DEF Rest
  <2>2. CASE MadeAt(c, label, nIndex') = Made(c) + 1 /\ p' = Reply(c)[Made(c) + 1]
    <3>1. Made(c)' - 1 = Made(c) /\ p' = Reply(c)'[Made(c)']
      BY <1>4, <1>5, <2>2
    <3>2. Got(c)' = SubSeq(Reply(c)', 1, Made(c)' - 1)
      BY <1>4, <1>6, <3>1
    <3> QED BY <2>1, <3>1, <3>2 DEF Progress
  <2>3. CASE MadeAt(c, label, nIndex') = Made(c) /\ p' = Empty
    BY <1>4, <1>6, <2>1, <2>3 DEF Progress
  <2> QED BY <2>2, <2>3
<1> QED BY <1>t, <1>b, <1>1, <1>2, <1>3, <1>7, ResponseStep DEF Rest

(* What p points to is copied behind what was copied before.               *)
LEMMA CopyKeeps ==
    ASSUME IInv, NEW c \in Conns, Copy(c)
    PROVE  IInv'
<1> DEFINE s == conn[c]
           v == [s EXCEPT !.outbuf = Append(@, p)]
<1>1. /\ running = c /\ s.state = "output" /\ s.at # "begin" /\ p # Empty
      /\ Len(s.outbuf) < OutBuf /\ Becomes(c, v) /\ p' = Empty
      /\ UNCHANGED <<running, error, readBytes, nIndex, leaked>>
  BY DEF Copy
<1>t. /\ Typed /\ s \in Slot /\ Decided(s) /\ ~s.unacked /\ s.req \in Requests
      /\ Progress(c) /\ s.postData = <<>> /\ s.at \in SendLabels
  BY <1>1, Sender
<1>2. p \in Pieces /\ s.outbuf \in Seq(Pieces) /\ s.sent \in Seq(Pieces)
  BY <1>t DEF Typed, Slot
<1>3. Append(s.outbuf, p) \in Seq(Pieces) /\ Len(Append(s.outbuf, p)) = Len(s.outbuf) + 1
  BY <1>2, AppendProperties
<1>4. Len(s.outbuf) \in Nat
  BY <1>2, LenProperties
<1>5. Len(Append(s.outbuf, p)) <= OutBuf
  <2> DEFINE l == Len(s.outbuf)
  <2>1. l \in Nat /\ l < OutBuf /\ Len(Append(s.outbuf, p)) = l + 1
    BY <1>1, <1>3, <1>4
  <2> HIDE DEF l
  <2> QED BY <2>1
<1> DEFINE more == Append(s.outbuf, p)
           u == [s EXCEPT !.outbuf = more]
<1>6. Becomes(c, u)
  BY <1>1
<1> HIDE DEF more
<1>7. /\ u \in Slot /\ u.req = s.req /\ u.unacked = s.unacked /\ u.spilt = s.spilt
      /\ u.called = s.called /\ u.sent = s.sent /\ u.seen = s.seen /\ u.at = s.at
      /\ u.state = s.state /\ u.postData = s.postData /\ u.requestType = s.requestType
      /\ u.statusCode = s.statusCode /\ u.numOfResponseHeaders = s.numOfResponseHeaders
      /\ u.outbuf = more
  <2>1. u \in Slot
    BY <1>t, <1>3 DEF Slot, more
  <2>2. /\ u.req = s.req /\ u.unacked = s.unacked /\ u.spilt = s.spilt
        /\ u.called = s.called /\ u.sent = s.sent /\ u.seen = s.seen /\ u.at = s.at
        /\ u.state = s.state /\ u.postData = s.postData /\ u.requestType = s.requestType
        /\ u.statusCode = s.statusCode /\ u.numOfResponseHeaders = s.numOfResponseHeaders
        /\ u.outbuf = more
    BY <1>t DEF Slot
  <2> QED BY <2>1, <2>2
<1> HIDE DEF v
<1>8. conn'[c] = u
  BY <1>t, <1>6, <1>7, Stepped
<1> HIDE DEF u
<1>9. Decided(u)
  BY <1>t, <1>7 DEF Decided
<1>10. Reply(c)' = Reply(c) /\ Made(c)' = Made(c)
  BY <1>1, <1>7, <1>8 DEF Reply, Made, MadeAt
<1>11. Made(c) \in 1 .. Len(Reply(c)) /\ Reply(c) \in Seq(Pieces)
  BY <1>t, MadeBounds
<1>12. p = Reply(c)[Made(c)] /\ Got(c) = SubSeq(Reply(c), 1, Made(c) - 1)
  BY <1>1, <1>t DEF Progress
<1>13. Got(c)' = Append(Got(c), p)
  <2>1. Got(c)' = s.sent \o Append(s.outbuf, p)
    BY <1>7, <1>8 DEF Got, more
  <2> HIDE DEF s
  <2>2. s.sent \o Append(s.outbuf, p) = Append(s.sent \o s.outbuf, p)
    BY <1>2, CopyBehind
  <2> QED BY <2>1, <2>2 DEF Got, s
<1>14. Got(c)' = SubSeq(Reply(c)', 1, Made(c)')
  <2> DEFINE R == Reply(c)
             n == Made(c)
  <2>1. n \in 1 .. Len(R) /\ R \in Seq(Pieces) /\ p = R[n] /\ Got(c) = SubSeq(R, 1, n - 1)
    BY <1>11, <1>12
  <2>2. Reply(c)' = R /\ Made(c)' = n
    BY <1>10
  <2> HIDE DEF R, n
  <2>3. Append(SubSeq(R, 1, n - 1), R[n]) = SubSeq(R, 1, n)
    BY <2>1, OneMore
  <2> QED BY <1>13, <2>1, <2>2, <2>3
<1>15. Progress(c)'
  BY <1>1, <1>7, <1>8, <1>14, <1>t DEF Progress
<1>16. p' \in Pieces
  BY <1>1, PieceTyped DEF Empty
<1> QED BY <1>1, <1>t, <1>5, <1>6, <1>7, <1>9, <1>15, <1>16, ResponseStep DEF Typed, more

LEMMA SendStatusKeeps ==
    ASSUME IInv, NEW c \in Conns, SendStatus(c)
    PROVE  IInv'
<1> DEFINE s == conn[c]
<1>1. /\ running = c /\ s.state = "output" /\ s.at = "version" /\ p = Empty
      /\ Becomes(c, [s EXCEPT !.at = "status"]) /\ p' = Piece("status", NoConn, s.statusCode)
      /\ UNCHANGED <<running, error, readBytes, nIndex, leaked>>
  BY DEF SendStatus, Sends
<1>t. Typed /\ s \in Slot
  BY <1>1, Sender
<1>2. Made(c) = 1 /\ MadeAt(c, "status", nIndex') = 2
  BY <1>1 DEF Made, MadeAt
<1>3. p' = Reply(c)[2] /\ p' \in Pieces
  BY <1>1, <1>t, ReplyTyped, PieceTyped DEF Slot
<1>4. p' = Reply(c)[Made(c) + 1] /\ MadeAt(c, "status", nIndex') = Made(c) + 1
  BY <1>2, <1>3
<1>5. "status" \in SendLabels
  BY DEF SendLabels
<1> QED BY <1>1, <1>t, <1>3, <1>4, <1>5, Advance DEF Typed

(* The next header, or the empty line when there is none.                  *)
LEMMA HeaderOrBlankKeeps ==
    ASSUME IInv, NEW c \in Conns, NEW n \in Nat, HeaderOrBlank(c, n),
           running = c, conn[c].state = "output", conn[c].at # "begin", p = Empty,
           Made(c) = 2 + n, n <= conn[c].numOfResponseHeaders
    PROVE  IInv'
<1> DEFINE s == conn[c]
           H == s.numOfResponseHeaders
<1>1. /\ running' = running /\ nIndex' = n
      /\ UNCHANGED <<error, readBytes, leaked>>
      /\ n < H => p' = Piece("header", c, n) /\ Becomes(c, [s EXCEPT !.at = "header"])
      /\ ~(n < H) => p' = Piece("blank", NoConn, 0) /\ Becomes(c, [s EXCEPT !.at = "blank"])
  BY DEF HeaderOrBlank
<1>t. Typed /\ s \in Slot
  BY Sender
<1>2. H \in 0 .. MaxHeaders /\ H \in Nat
  BY <1>t DEF Slot
<1>3. nIndex' \in 0 .. MaxHeaders
  BY <1>1, <1>2
<1>4. "header" \in SendLabels /\ "blank" \in SendLabels
  BY DEF SendLabels
<1>r. /\ \A i \in 1 .. H : Reply(c)[2 + i] = Piece("header", c, i - 1)
      /\ Reply(c)[3 + H] = Piece("blank", NoConn, 0)
  BY <1>t, ReplyTyped
<1>5. CASE n < H
  <2>1. n + 1 \in 1 .. H /\ 2 + (n + 1) = Made(c) + 1 /\ n + 1 - 1 = n
    BY <1>2, <1>5
  <2>2. MadeAt(c, "header", nIndex') = 3 + n
    BY <1>1 DEF MadeAt
  <2>3. p' = Reply(c)[Made(c) + 1]
    BY <1>1, <1>5, <1>r, <2>1
  <2>4. p' \in Pieces
    BY <1>1, <1>5, PieceTyped
  <2>5. MadeAt(c, "header", nIndex') = Made(c) + 1
    BY <2>1, <2>2
  <2> QED BY <1>1, <1>3, <1>4, <1>5, <2>3, <2>4, <2>5, Advance
<1>6. CASE ~(n < H)
  <2>1. n = H /\ 3 + H = Made(c) + 1
    BY <1>2, <1>6
  <2>2. MadeAt(c, "blank", nIndex') = 3 + H
    BY DEF MadeAt
  <2>3. p' = Reply(c)[Made(c) + 1]
    BY <1>1, <1>6, <1>r, <2>1
  <2>4. p' \in Pieces
    <3>1. p' = Piece("blank", NoConn, 0)
      BY <1>1, <1>6
    <3> QED BY <3>1, PieceTyped
  <2>5. MadeAt(c, "blank", nIndex') = Made(c) + 1
    BY <2>1, <2>2
  <2> QED BY <1>1, <1>3, <1>4, <1>6, <2>3, <2>4, <2>5, Advance
<1> QED BY <1>5, <1>6

LEMMA SendFirstHeaderKeeps ==
    ASSUME IInv, NEW c \in Conns, SendFirstHeader(c)
    PROVE  IInv'
<1>1. /\ running = c /\ conn[c].state = "output" /\ conn[c].at = "status" /\ p = Empty
      /\ HeaderOrBlank(c, 0)
  BY DEF SendFirstHeader, Sends
<1>2. conn[c].numOfResponseHeaders \in Nat
  BY <1>1, Sender DEF Slot
<1>3. Made(c) = 2
  BY <1>1 DEF Made, MadeAt
<1> QED BY <1>1, <1>2, <1>3, HeaderOrBlankKeeps

LEMMA SendNextHeaderKeeps ==
    ASSUME IInv, NEW c \in Conns, SendNextHeader(c)
    PROVE  IInv'
<1>1. /\ running = c /\ conn[c].state = "output" /\ conn[c].at = "header" /\ p = Empty
      /\ HeaderOrBlank(c, nIndex + 1)
  BY DEF SendNextHeader, Sends
<1>t. Typed /\ conn[c] \in Slot /\ Progress(c)
  BY <1>1, Sender
<1>2. conn[c].numOfResponseHeaders \in Nat /\ nIndex \in Nat /\ nIndex < conn[c].numOfResponseHeaders
  BY <1>1, <1>t DEF Slot, Typed, Progress
<1>3. Made(c) = 3 + nIndex
  BY <1>1 DEF Made, MadeAt
<1> QED BY <1>1, <1>2, <1>3, HeaderOrBlankKeeps

LEMMA SendBodyKeeps ==
    ASSUME IInv, NEW c \in Conns, SendBody(c)
    PROVE  IInv'
<1> DEFINE s == conn[c]
           H == s.numOfResponseHeaders
<1>1. /\ running = c /\ s.state = "output" /\ s.at = "blank" /\ p = Empty
      /\ Becomes(c, [s EXCEPT !.at = "body"])
      /\ p' = (IF s.called THEN Piece("body", c, 0) ELSE Empty)
      /\ UNCHANGED <<running, error, readBytes, nIndex, leaked>>
  BY DEF SendBody, Sends
<1>t. Typed /\ s \in Slot
  BY <1>1, Sender
<1>2. H \in Nat
  BY <1>t DEF Slot
<1>3. Made(c) = 3 + H /\ MadeAt(c, "body", nIndex') = Len(Reply(c))
  BY <1>1 DEF Made, MadeAt
<1>r. /\ Len(Reply(c)) = 3 + H + (IF s.called THEN 1 ELSE 0)
      /\ s.called => Reply(c)[4 + H] = Piece("body", c, 0)
  BY <1>t, ReplyTyped
<1>4. p' \in Pieces
  BY <1>1, PieceTyped DEF Empty
<1>5. "body" \in SendLabels
  BY DEF SendLabels
<1>6. CASE s.called
  <2>1. MadeAt(c, "body", nIndex') = Made(c) + 1 /\ Made(c) + 1 = 4 + H
    BY <1>2, <1>3, <1>6, <1>r
  <2>2. p' = Reply(c)[Made(c) + 1]
    BY <1>1, <1>6, <1>r, <2>1
  <2> QED BY <1>1, <1>t, <1>4, <1>5, <2>1, <2>2, Advance DEF Typed
<1>7. CASE ~s.called
  <2>1. MadeAt(c, "body", nIndex') = Made(c)
    BY <1>2, <1>3, <1>7, <1>r
  <2> QED BY <1>1, <1>t, <1>4, <1>5, <1>7, <2>1, Advance DEF Typed
<1> QED BY <1>6, <1>7

(* A thread that has nothing to copy has copied all that it made.          *)
LEMMA AllCopied ==
    ASSUME IInv, NEW c \in Conns, Progress(c), conn[c].at \in SendLabels, p = Empty
    PROVE  Got(c) = SubSeq(Reply(c), 1, Made(c))
<1>1. CASE Got(c) = SubSeq(Reply(c), 1, Made(c))
  BY <1>1
<1>2. CASE p = Reply(c)[Made(c)]
  BY <1>2, PieceMade DEF Empty, Piece, SendLabels
<1> QED BY <1>1, <1>2 DEF Progress

LEMMA AllSent ==
    ASSUME IInv, NEW c \in Conns, Progress(c), conn[c].at = "body", p = Empty
    PROVE  Got(c) = Reply(c)
<1>0. "body" \in SendLabels
  BY DEF SendLabels
<1>1. Got(c) = SubSeq(Reply(c), 1, Made(c))
  BY <1>0, AllCopied
<1>2. Made(c) = Len(Reply(c))
  BY DEF Made, MadeAt
<1>3. Reply(c) \in Seq(Pieces)
  BY <1>0, MadeBounds
<1> QED BY <1>1, <1>2, <1>3, SubSeqFull

(* A thread that waits for room in its buffer has not sent all of its      *)
(* reply: the buffer is full of what it has made.                          *)
LEMMA FullBuffer ==
    ASSUME Undisturbed, IInv, NEW c \in Conns, Progress(c), conn[c].at \in SendLabels,
           conn[c].state = "output", p # Empty, Len(conn[c].outbuf) = OutBuf
    PROVE  p.kind # "status" /\ conn[c].req \notin Together
<1>t. /\ Typed /\ conn[c] \in Slot /\ Answering(c)
  BY Known
<1>1. p = Reply(c)[Made(c)] /\ Got(c) = SubSeq(Reply(c), 1, Made(c) - 1)
  BY DEF Progress
<1>2. Made(c) \in 1 .. Len(Reply(c)) /\ Len(Reply(c)) \in Nat /\ Reply(c) \in Seq(Pieces)
  BY MadeBounds
<1> DEFINE m == Made(c)
           l == Len(Reply(c))
           g == Len(Got(c))
<1>3. g = m - 1
  <2>1. m - 1 \in 0 .. l
    BY <1>2
  <2> QED BY <1>1, <1>2, <2>1, SubSeqProperties
<1>4. g \in Nat /\ g >= OutBuf
  <2> DEFINE x == conn[c].sent
             y == conn[c].outbuf
  <2>1. x \in Seq(Pieces) /\ y \in Seq(Pieces)
    BY <1>t DEF Slot
  <2>2. Got(c) = x \o y /\ Len(y) = OutBuf
    BY DEF Got
  <2> HIDE DEF x, y
  <2>3. Len(x \o y) = Len(x) + Len(y) /\ Len(x) \in Nat
    BY <2>1, Joined
  <2>4. g = Len(x) + OutBuf
    BY <2>2, <2>3
  <2> HIDE DEF g
  <2> QED BY <2>3, <2>4
<1>5. p.kind # "status"
  <2> SUFFICES ASSUME p.kind = "status" PROVE FALSE
    OBVIOUS
  <2>1. conn[c].at = "status"
    BY <1>1, PieceMade
  <2>2. m = 2
    BY <2>1 DEF Made, MadeAt
  <2> HIDE DEF m, g
  <2> QED BY <1>3, <1>4, <2>2 DEF Undisturbed
<1>6. conn[c].req \notin Together
  <2> SUFFICES ASSUME conn[c].req \in Together PROVE FALSE
    OBVIOUS
  <2>1. conn[c].req \in Requests /\ Decided(conn[c]) /\ conn[c].at # "begin"
    BY <1>t DEF Answering, SendLabels
  <2>2. Reply(c) \in Replies(c, conn[c].req)
    BY <1>t, <2>1, DecidedReply
  <2>3. l <= OutBuf
    BY <2>2 DEF Undisturbed, Plain
  <2>4. m \in 1 .. l /\ l \in Nat
    BY <1>2
  <2> HIDE DEF m, l, g
  <2> QED BY <1>3, <1>4, <2>3, <2>4
<1> QED BY <1>5, <1>6

LEMMA FlushKeeps ==
    ASSUME Undisturbed, IInv, NEW c \in Conns, Flush(c)
    PROVE  IInv'
<1> DEFINE s == conn[c]
           v == [s EXCEPT !.unacked = TRUE]
<1>1. /\ running = c /\ s.state = "output" /\ s.at # "begin" /\ running' = NoConn
      /\ (p # Empty /\ Len(s.outbuf) = OutBuf) \/ Forced(c)
      /\ Becomes(c, v) /\ p' = (IF p.kind = "status" THEN Garbage ELSE p)
      /\ UNCHANGED <<error, readBytes, nIndex, leaked>>
  BY DEF Flush
<1>t. /\ Typed /\ s \in Slot /\ c # NoConn /\ Decided(s) /\ s.req \in Requests
      /\ Progress(c) /\ s.postData = <<>> /\ s.at \in SendLabels
      /\ ~s.spilt /\ Len(s.outbuf) <= OutBuf
      /\ s.called => s.seen = Body(c, s.req) /\ s.requestType = s.req.method
  BY <1>1, Sender
<1>2. Forced(c) => p = Empty /\ s.at = "body" /\ Got(c) = Reply(c)
  BY <1>t, AllSent DEF Forced
<1>3. ~Forced(c) => p.kind # "status" /\ s.req \notin Together
  BY <1>1, <1>t, FullBuffer
<1>4. p' = p
  BY <1>1, <1>2, <1>3 DEF Empty, Piece
<1>5. /\ v \in Slot /\ v.req = s.req /\ v.unacked /\ v.spilt = s.spilt
      /\ v.called = s.called /\ v.sent = s.sent /\ v.seen = s.seen /\ v.at = s.at
      /\ v.state = s.state /\ v.postData = s.postData /\ v.requestType = s.requestType
      /\ v.statusCode = s.statusCode /\ v.numOfResponseHeaders = s.numOfResponseHeaders
      /\ v.outbuf = s.outbuf
  BY <1>t DEF Slot
<1> HIDE DEF v
<1>6. conn'[c] = v
  BY <1>1, <1>t, <1>5, Stepped
<1>7. Got(c)' = Got(c) /\ Reply(c)' = Reply(c) /\ Made(c)' = Made(c)
  BY <1>1, <1>5, <1>6 DEF Got, Reply, Made, MadeAt
<1>8. Progress(c)'
  BY <1>1, <1>t, <1>4, <1>5, <1>6, <1>7 DEF Progress
<1>9. Decided(v)
  BY <1>t, <1>5 DEF Decided
<1>10. Free(c)' /\ Reading(c)' /\ Streaming(c)'
  BY <1>1, <1>5, <1>6, <1>8 DEF Free, Reading, Streaming
<1>11. Answering(c)'
  BY <1>1, <1>t, <1>5, <1>6, <1>9 DEF Answering, SendLabels
<1>12. Yielded(c)'
  BY <1>2, <1>3, <1>5, <1>6, <1>7 DEF Yielded
<1>13. Own(c)'
  BY <1>t, <1>5, <1>6 DEF Own, Over
<1>14. Kept(c)'
  BY <1>10, <1>11, <1>12, <1>13 DEF Kept
<1>15. p' = Empty \/ s.req \notin Together
  BY <1>2, <1>3, <1>4
<1> QED BY <1>1, <1>t, <1>4, <1>5, <1>14, <1>15, Step DEF Typed

LEMMA CloseKeeps ==
    ASSUME IInv, NEW c \in Conns, Close(c)
    PROVE  IInv'
<1> DEFINE s == conn[c]
           v == [s EXCEPT !.state = "closed"]
<1>1. /\ running = c /\ s.state = "output" /\ s.at = "body" /\ running' = NoConn
      /\ p = Empty /\ s.outbuf = <<>> /\ Becomes(c, v)
      /\ UNCHANGED <<error, readBytes, p, nIndex, leaked>>
  BY DEF Close, Sends, Statics
<1>t. /\ Typed /\ s \in Slot /\ c # NoConn /\ Decided(s) /\ s.req \in Requests /\ ~s.unacked
      /\ Progress(c) /\ s.postData = <<>> /\ s.at \in SendLabels
      /\ ~s.spilt /\ Len(s.outbuf) <= OutBuf
      /\ s.called => s.seen = Body(c, s.req) /\ s.requestType = s.req.method
  BY <1>1, Sender
<1>2. Got(c) = Reply(c)
  BY <1>1, <1>t, AllSent
<1>3. s.sent \in Seq(Pieces)
  BY <1>t DEF Slot
<1>4. s.sent = Reply(c)
  BY <1>1, <1>2, <1>3, ConcatEmptySeq DEF Got
<1>5. /\ v \in Slot /\ v.req = s.req /\ ~v.unacked /\ v.spilt = s.spilt
      /\ v.called = s.called /\ v.sent = s.sent /\ v.seen = s.seen /\ v.at = s.at
      /\ v.state = "closed" /\ v.postData = s.postData /\ v.requestType = s.requestType
      /\ v.statusCode = s.statusCode /\ v.numOfResponseHeaders = s.numOfResponseHeaders
      /\ v.outbuf = s.outbuf
  BY <1>t DEF Slot
<1> HIDE DEF v
<1>6. conn'[c] = v
  BY <1>1, <1>t, <1>5, Stepped
<1>7. Reply(c)' = Reply(c)
  BY <1>5, <1>6 DEF Reply
<1>8. Decided(v)
  BY <1>t, <1>5 DEF Decided
<1>9. Free(c)' /\ Reading(c)' /\ Streaming(c)' /\ Yielded(c)'
  BY <1>5, <1>6 DEF Free, Reading, Streaming, Sending, Yielded
<1>10. Answering(c)'
  BY <1>1, <1>t, <1>4, <1>5, <1>6, <1>7, <1>8 DEF Answering, SendLabels
<1>11. Own(c)'
  BY <1>t, <1>5, <1>6 DEF Own, Over
<1>12. Kept(c)'
  BY <1>9, <1>10, <1>11 DEF Kept
<1> QED BY <1>1, <1>t, <1>5, <1>12, Step DEF Typed
-------------------------------------------------------------------------------
(* The events of the stack.  No thread runs while one is delivered.        *)

LEMMA EventStep ==
    ASSUME IInv, NEW c \in Conns, NEW v \in Slot, Becomes(c, v),
           running = NoConn, running' \in {c, NoConn},
           running' = c => v.state \in {"waiting", "output"},
           UNCHANGED <<error, readBytes, p, nIndex>>, leaked' \in Nat,
           Shared', Heap', Kept(c)'
    PROVE  IInv'
<1>t. Typed /\ Slots /\ c # NoConn
  BY DEF IInv
<1>1. /\ conn' \in [Conns -> Slot] /\ conn'[c] = v
      /\ \A d \in Conns \ {c} : conn'[d] = conn[d]
  BY <1>t, Stepped
<1>2. Typed' /\ Runs'
  BY <1>1, <1>t DEF Typed, Runs
<1>3. \A d \in Conns \ {c} : Kept(d)'
  <2> TAKE d \in Conns \ {c}
  <2>1. /\ conn'[d] = conn[d] /\ running # d /\ running' # d /\ d # NoConn
        /\ Free(d) /\ Reading(d) /\ Answering(d) /\ Streaming(d) /\ Yielded(d) /\ Own(d)
    BY <1>1, Known
  <2>2. Free(d)' /\ Reading(d)' /\ Own(d)'
    BY <2>1 DEF Free, Reading, Own, Over
  <2>3. Got(d)' = Got(d) /\ Reply(d)' = Reply(d) /\ Made(d)' = Made(d)
    BY <2>1 DEF Got, Reply, Made, MadeAt
  <2>4. Answering(d)' /\ Yielded(d)'
    BY <2>1, <2>3 DEF Answering, Yielded
  <2>5. Sending(d) => Progress(d)
    BY <2>1 DEF Streaming, Busy
  <2>6. Streaming(d)'
    BY <2>1, <2>3, <2>5 DEF Streaming, Sending, Progress
  <2> QED BY <2>2, <2>4, <2>6 DEF Kept
<1> QED BY <1>2, <1>3 DEF IInv, Slots

LEMMA SegmentKeeps ==
    ASSUME IInv, NEW c \in Conns, NEW n \in 1 .. Len(Tokens(conn[c].req)), Segment(c, n)
    PROVE  IInv'
<1> DEFINE s == conn[c]
           m == s.arrived + n
           v == [s EXCEPT !.arrived = m]
<1>1. /\ running = NoConn /\ s.state = "waiting" /\ m <= Len(Tokens(s.req))
      /\ Becomes(c, v) /\ running' = c /\ UNCHANGED <<error, readBytes, p, nIndex, leaked>>
  BY DEF Segment, Statics
<1>t. Typed /\ s \in Slot /\ c # NoConn /\ Reading(c) /\ Own(c) /\ Shared /\ Heap
  BY Known DEF IInv
<1>2. s.arrived \in Nat /\ s.taken \in Nat /\ n \in Nat
  BY <1>t DEF Slot
<1>3. m \in Nat /\ (s.taken <= s.arrived => s.taken <= m)
  BY <1>2
<1> HIDE DEF m
<1>4. /\ v \in Slot /\ v.req = s.req /\ v.unacked = s.unacked /\ v.spilt = s.spilt
      /\ v.called = s.called /\ v.sent = s.sent /\ v.seen = s.seen /\ v.at = s.at
      /\ v.state = s.state /\ v.postData = s.postData /\ v.requestType = s.requestType
      /\ v.postDataSize = s.postDataSize /\ v.taken = s.taken
      /\ v.numOfResponseHeaders = s.numOfResponseHeaders /\ v.outbuf = s.outbuf /\ v.arrived = m
  <2>1. v \in Slot
    BY <1>t, <1>3 DEF Slot
  <2>2. /\ v.req = s.req /\ v.unacked = s.unacked /\ v.spilt = s.spilt
        /\ v.called = s.called /\ v.sent = s.sent /\ v.seen = s.seen /\ v.at = s.at
        /\ v.state = s.state /\ v.postData = s.postData /\ v.requestType = s.requestType
        /\ v.postDataSize = s.postDataSize /\ v.taken = s.taken
        /\ v.numOfResponseHeaders = s.numOfResponseHeaders /\ v.outbuf = s.outbuf /\ v.arrived = m
    BY <1>t DEF Slot
  <2> QED BY <2>1, <2>2
<1> HIDE DEF v
<1>5. conn'[c] = v /\ \A d \in Conns \ {c} : conn'[d] = conn[d]
  BY <1>1, <1>t, <1>4, Stepped
<1>6. Reading(c)'
  BY SMTT(30), <1>1, <1>t, <1>3, <1>4, <1>5 DEF Reading
<1>7. Free(c)' /\ Answering(c)' /\ Streaming(c)' /\ Yielded(c)' /\ Own(c)'
  BY <1>1, <1>t, <1>4, <1>5 DEF Free, Answering, Streaming, Sending, Yielded, Own, Over
<1>8. Kept(c)'
  BY <1>6, <1>7 DEF Kept
<1>9. Shared'
  BY <1>t, <1>4, <1>5 DEF Shared
<1>10. Heap'
  BY <1>1, <1>t, <1>4, <1>5, HeapKept
<1> QED BY <1>1, <1>t, <1>4, <1>8, <1>9, <1>10, EventStep DEF Typed

LEMMA AckedKeeps ==
    ASSUME IInv, NEW c \in Conns, Acked(c)
    PROVE  IInv'
<1> DEFINE s == conn[c]
           all == s.sent \o s.outbuf
           a == [s EXCEPT !.unacked = FALSE]
           b == [a EXCEPT !.sent = all]
           v == [b EXCEPT !.outbuf = <<>>]
<1>1. /\ running = NoConn /\ s.unacked /\ Becomes(c, v) /\ running' = c
      /\ UNCHANGED <<error, readBytes, p, nIndex, leaked>>
  BY DEF Acked, Statics
<1>t. /\ Typed /\ s \in Slot /\ c # NoConn /\ Free(c) /\ Reading(c) /\ Answering(c)
      /\ Streaming(c) /\ Own(c) /\ Shared /\ Heap
  BY Known DEF IInv
<1>2. s.state \in {"free", "waiting", "output", "closed"}
  BY <1>t DEF Slot
<1>3. s.state = "output"
  BY <1>1, <1>2, <1>t DEF Free, Reading, Answering
<1>4. /\ s.at \in SendLabels /\ Decided(s) /\ s.req \in Requests /\ s.postData = <<>>
  BY <1>1, <1>3, <1>t DEF Answering, SendLabels
<1>5. Progress(c)
  BY <1>1, <1>3, <1>4, <1>t DEF Streaming, Sending, Busy, SendLabels
<1>6. s.sent \in Seq(Pieces) /\ s.outbuf \in Seq(Pieces)
  BY <1>t DEF Slot
<1>7. all \in Seq(Pieces) /\ all = Got(c) /\ all \o <<>> = all /\ <<>> \in Seq(Pieces)
  BY <1>6, ConcatProperties, ConcatEmptySeq DEF Got
<1> HIDE DEF all
<1>8. /\ a \in Slot /\ a.req = s.req /\ ~a.unacked /\ a.spilt = s.spilt
      /\ a.called = s.called /\ a.seen = s.seen /\ a.at = s.at
      /\ a.state = s.state /\ a.postData = s.postData /\ a.requestType = s.requestType
      /\ a.statusCode = s.statusCode /\ a.numOfResponseHeaders = s.numOfResponseHeaders
  BY <1>t DEF Slot
<1> HIDE DEF a
<1>9. /\ b \in Slot /\ b.req = a.req /\ b.unacked = a.unacked /\ b.spilt = a.spilt
      /\ b.called = a.called /\ b.seen = a.seen /\ b.at = a.at
      /\ b.state = a.state /\ b.postData = a.postData /\ b.requestType = a.requestType
      /\ b.statusCode = a.statusCode /\ b.numOfResponseHeaders = a.numOfResponseHeaders
      /\ b.sent = all
  <2>1. b \in Slot
    BY <1>7, <1>8 DEF Slot
  <2>2. /\ b.req = a.req /\ b.unacked = a.unacked /\ b.spilt = a.spilt
        /\ b.called = a.called /\ b.seen = a.seen /\ b.at = a.at
        /\ b.state = a.state /\ b.postData = a.postData /\ b.requestType = a.requestType
        /\ b.statusCode = a.statusCode /\ b.numOfResponseHeaders = a.numOfResponseHeaders
        /\ b.sent = all
    BY <1>8 DEF Slot
  <2> QED BY <2>1, <2>2
<1> HIDE DEF b
<1>10. /\ v \in Slot /\ v.req = b.req /\ v.unacked = b.unacked /\ v.spilt = b.spilt
       /\ v.called = b.called /\ v.seen = b.seen /\ v.at = b.at
       /\ v.state = b.state /\ v.postData = b.postData /\ v.requestType = b.requestType
       /\ v.statusCode = b.statusCode /\ v.numOfResponseHeaders = b.numOfResponseHeaders
       /\ v.sent = b.sent /\ v.outbuf = <<>>
  <2>1. v \in Slot
    BY <1>7, <1>9 DEF Slot
  <2>2. /\ v.req = b.req /\ v.unacked = b.unacked /\ v.spilt = b.spilt
        /\ v.called = b.called /\ v.seen = b.seen /\ v.at = b.at
        /\ v.state = b.state /\ v.postData = b.postData /\ v.requestType = b.requestType
        /\ v.statusCode = b.statusCode /\ v.numOfResponseHeaders = b.numOfResponseHeaders
        /\ v.sent = b.sent /\ v.outbuf = <<>>
    BY <1>9 DEF Slot
  <2> QED BY <2>1, <2>2
<1> HIDE DEF v
<1>11. conn'[c] = v /\ \A d \in Conns \ {c} : conn'[d] = conn[d]
  BY <1>1, <1>t, <1>10, Stepped
<1>12. /\ v.req = s.req /\ ~v.unacked /\ v.spilt = s.spilt /\ v.called = s.called
       /\ v.seen = s.seen /\ v.at = s.at /\ v.state = "output" /\ v.postData = <<>>
       /\ v.requestType = s.requestType /\ v.statusCode = s.statusCode
       /\ v.numOfResponseHeaders = s.numOfResponseHeaders /\ v.sent = all
  BY <1>3, <1>4, <1>8, <1>9, <1>10
<1>13. Got(c)' = Got(c) /\ Reply(c)' = Reply(c) /\ Made(c)' = Made(c)
  BY <1>1, <1>7, <1>10, <1>11, <1>12 DEF Got, Reply, Made, MadeAt
<1>14. Progress(c)'
  BY <1>1, <1>5, <1>11, <1>12, <1>13 DEF Progress
<1>15. Decided(v)
  BY <1>4, <1>12 DEF Decided
<1>16. Free(c)' /\ Reading(c)' /\ Streaming(c)' /\ Yielded(c)'
  BY <1>11, <1>12, <1>14 DEF Free, Reading, Streaming, Yielded
<1>17. Answering(c)'
  BY <1>1, <1>4, <1>11, <1>12, <1>15 DEF Answering, SendLabels
<1>18. Own(c)'
  BY <1>3, <1>10, <1>11, <1>12, <1>t DEF Own, Over
<1>19. Kept(c)'
  BY <1>16, <1>17, <1>18 DEF Kept
<1>20. Shared'
  BY <1>t, <1>3, <1>11, <1>12 DEF Shared
<1>21. Heap'
  BY <1>1, <1>3, <1>t, <1>11, <1>12, HeapKept
<1> QED BY <1>1, <1>t, <1>10, <1>12, <1>19, <1>20, <1>21, EventStep DEF Typed

LEMMA ConnectKeeps ==
    ASSUME IInv, NEW c \in Conns, NEW r \in Requests, Connect(c, r)
    PROVE  IInv'
<1> DEFINE s == conn[c]
           a == [FreeSlot EXCEPT !.state = "waiting"]
           v == [a EXCEPT !.req = r]
<1>1. /\ running = NoConn /\ s.state = "free" /\ CanMalloc
      /\ Open # {} => {r} \cup {conn[d].req : d \in Open} \subseteq Together
      /\ Becomes(c, v) /\ running' = c /\ UNCHANGED <<error, readBytes, p, nIndex, leaked>>
  BY DEF Connect, Statics
<1>t. Typed /\ s \in Slot /\ c # NoConn /\ Free(c) /\ Shared /\ Heap
  BY Known DEF IInv
<1>2. /\ a \in Slot /\ a.state = "waiting" /\ a.at = "begin" /\ a.arrived = 0 /\ a.taken = 0
      /\ a.postDataSize = 0 /\ a.postData = <<>> /\ ~a.spilt /\ ~a.called /\ a.outbuf = <<>>
      /\ ~a.unacked /\ a.sent = <<>> /\ a.numOfResponseHeaders = 0
  <2> DEFINE z == FreeSlot
  <2>1. /\ z \in Slot /\ z.at = "begin" /\ z.arrived = 0 /\ z.taken = 0
        /\ z.postDataSize = 0 /\ z.postData = <<>> /\ ~z.spilt /\ ~z.called /\ z.outbuf = <<>>
        /\ ~z.unacked /\ z.sent = <<>> /\ z.numOfResponseHeaders = 0
    BY DEF FreeSlot, Slot, Labels, Methods
  <2> HIDE DEF z
  <2>2. a = [z EXCEPT !.state = "waiting"]
    BY DEF z
  <2> HIDE DEF a
  <2>3. a \in Slot
    BY <2>1, <2>2 DEF Slot
  <2> QED BY <2>1, <2>2, <2>3 DEF Slot
<1> HIDE DEF a
<1>3. /\ v \in Slot /\ v.state = "waiting" /\ v.at = "begin" /\ v.arrived = 0 /\ v.taken = 0
      /\ v.postDataSize = 0 /\ v.postData = <<>> /\ ~v.spilt /\ ~v.called /\ v.outbuf = <<>>
      /\ ~v.unacked /\ v.sent = <<>> /\ v.req = r /\ v.numOfResponseHeaders = 0
  BY <1>2 DEF Slot
<1> HIDE DEF v
<1>4. conn'[c] = v /\ \A d \in Conns \ {c} : conn'[d] = conn[d]
  BY <1>1, <1>t, <1>3, Stepped
<1>5. Len(Tokens(r)) \in Nat
  <2>1. r.size \in Nat
    BY Sizes
  <2>2. CASE r.size = 0
    BY <2>2, TokensKnown
  <2>3. CASE r.size > 0
    BY <2>1, <2>3, TokensKnown DEF HeaderTokens
  <2> QED BY <2>1, <2>2, <2>3
<1>6. Reading(c)'
  <2> DEFINE l == Len(Tokens(r))
  <2>1. l \in Nat /\ 0 <= l
    BY <1>5
  <2>2. Len(Tokens(v.req)) = l
    BY <1>3
  <2> HIDE DEF l
  <2> QED BY <1>3, <1>4, <2>1, <2>2 DEF Reading
<1>7. Free(c)' /\ Answering(c)' /\ Streaming(c)' /\ Yielded(c)'
  BY <1>3, <1>4 DEF Free, Answering, Streaming, Sending, Yielded
<1>8. Own(c)'
  BY <1>3, <1>4 DEF Own, Over
<1>9. Kept(c)'
  BY <1>6, <1>7, <1>8 DEF Kept
<1>10. Shared'
  <2> SUFFICES ASSUME NEW d \in Conns, NEW e \in Conns, d # e,
                      conn'[d].state # "free", conn'[e].state # "free"
               PROVE  conn'[d].req \in Together
    BY DEF Shared
  <2>1. CASE d = c
    <3>1. e \in Open
      BY <1>4, <2>1 DEF Open
    <3> QED BY <1>1, <1>3, <1>4, <2>1, <3>1
  <2>2. CASE d # c
    <3>1. d \in Open /\ conn'[d] = conn[d]
      BY <1>4, <2>2 DEF Open
    <3> QED BY <1>1, <3>1
  <2> QED BY <2>1, <2>2
<1>11. Heap'
  <2> DEFINE S == Open
             o == Cardinality(S)
             k == Cardinality(S \cup {c})
             h == Cardinality(HoldingPost)
  <2>1. Open' = S \cup {c}
    BY <1>3, <1>4 DEF Open
  <2>2. HoldingPost' = HoldingPost
    BY <1>1, <1>3, <1>4, <1>t DEF HoldingPost, Free
  <2>3. IsFiniteSet(S) /\ o \in Nat /\ h \in Nat
    BY OpenSets
  <2>4. InUse' = k + h + leaked /\ o + h + leaked < HeapBlocks /\ leaked \in Nat
    BY <1>1, <1>t, <2>1, <2>2 DEF InUse, CanMalloc, Typed
  <2> HIDE DEF S
  <2>5. k \in Nat /\ k <= o + 1
    BY <2>3, OneElement, Zenon
  <2> HIDE DEF o, k, h
  <2> QED BY <2>3, <2>4, <2>5 DEF Heap
<1> QED BY <1>1, <1>t, <1>3, <1>9, <1>10, <1>11, EventStep DEF Typed

(* A body that was not answered is counted among the blocks that are lost  *)
(* as it was among those that are held.                                    *)
LEMMA ReleaseKeeps ==
    ASSUME IInv, NEW c \in Conns, running = NoConn, conn[c].state # "free", Release(c)
    PROVE  IInv'
<1> DEFINE s == conn[c]
           v == FreeSlot
<1>1. /\ Becomes(c, v) /\ leaked' = leaked + LeakOf(c)
      /\ UNCHANGED <<running, error, readBytes, p, nIndex>>
  BY DEF Release, Statics
<1>t. Typed /\ s \in Slot /\ c # NoConn /\ Shared /\ Heap /\ leaked \in Nat
  BY Known DEF IInv, Typed
<1>2. /\ v \in Slot /\ v.state = "free" /\ v.postData = <<>> /\ ~v.spilt /\ ~v.called
      /\ v.outbuf = <<>> /\ ~v.unacked /\ v.sent = <<>>
  BY DEF FreeSlot, Slot, Labels, Methods
<1> HIDE DEF v
<1>3. conn'[c] = v /\ \A d \in Conns \ {c} : conn'[d] = conn[d]
  BY <1>1, <1>t, <1>2, Stepped
<1>4. leaked' \in Nat
  BY <1>1, <1>t DEF LeakOf
<1>5. Kept(c)'
  <2>1. Free(c)' /\ Reading(c)' /\ Answering(c)' /\ Streaming(c)' /\ Yielded(c)'
    BY <1>2, <1>3 DEF Free, Reading, Answering, Streaming, Sending, Yielded
  <2>2. Own(c)'
    BY <1>2, <1>3 DEF Own, Over
  <2> QED BY <2>1, <2>2 DEF Kept
<1>6. Shared'
  BY <1>t, <1>2, <1>3 DEF Shared
<1>7. Heap'
  <2> DEFINE S == Open
             P == HoldingPost
             o == Cardinality(S)
             k == Cardinality(S \ {c})
             h == Cardinality(P)
             g == Cardinality(P \ {c})
  <2>1. Open' = S \ {c} /\ c \in S
    BY <1>2, <1>3 DEF Open
  <2>2. HoldingPost' = P \ {c}
    BY <1>2, <1>3 DEF HoldingPost
  <2>3. IsFiniteSet(S) /\ IsFiniteSet(P) /\ o \in Nat /\ h \in Nat
    BY OpenSets
  <2>4. InUse' = k + g + leaked' /\ o + h + leaked <= HeapBlocks
    BY <1>t, <2>1, <2>2 DEF InUse, Heap
  <2>5. c \in P <=> s.postData # <<>>
    BY DEF HoldingPost
  <2>6. leaked' = leaked + (IF c \in P THEN 1 ELSE 0)
    BY <1>1, <2>5 DEF LeakOf
  <2>a. c \in S
    BY <2>1
  <2> HIDE DEF S, P
  <2>7. k \in Nat /\ k = o - 1
    BY <2>3, <2>a, OneElement, Zenon
  <2>8. g \in Nat /\ g <= h
    BY <2>3, OneElement, Zenon
  <2>9. c \in P => g = h - 1
    BY <2>3, OneElement, Zenon
  <2> HIDE DEF o, k, h, g
  <2>10. k + g + leaked' <= HeapBlocks
    BY <1>t, <2>3, <2>4, <2>6, <2>7, <2>8, <2>9
  <2> QED BY <2>4, <2>10 DEF Heap
<1> QED BY <1>1, <1>t, <1>2, <1>4, <1>5, <1>6, <1>7, EventStep

LEMMA EventKeeps ==
    ASSUME IInv, NEW c \in Conns, Event(c)
    PROVE  IInv'
<1>1. CASE \E r \in Requests : Connect(c, r)
  BY <1>1, ConnectKeeps
<1>2. CASE Arrives(c)
  BY <1>2, SegmentKeeps DEF Arrives
<1>3. CASE Acked(c)
  BY <1>3, AckedKeeps
<1>4. CASE Closed(c)
  BY <1>4, ReleaseKeeps DEF Closed
<1>5. CASE Aborted(c)
  BY <1>5, ReleaseKeeps DEF Aborted
<1> QED BY <1>1, <1>2, <1>3, <1>4, <1>5 DEF Event
-------------------------------------------------------------------------------
(* The invariant.                                                          *)

LEMMA InitHolds ==
    ASSUME Init
    PROVE  IInv
<1>1. /\ FreeSlot \in Slot /\ FreeSlot.state = "free" /\ FreeSlot.postData = <<>> /\ ~FreeSlot.spilt
      /\ ~FreeSlot.called /\ FreeSlot.outbuf = <<>> /\ ~FreeSlot.unacked /\ FreeSlot.sent = <<>>
  BY DEF FreeSlot, Slot, Labels, Methods
<1>2. /\ running = NoConn /\ conn = [c \in Conns |-> FreeSlot]
      /\ error = "none" /\ readBytes = 0 /\ p = Empty /\ nIndex = 0 /\ leaked = 0
  BY DEF Init
<1>3. Typed
  BY <1>1, <1>2, PieceTyped DEF Typed, Empty
<1>4. Runs /\ Shared
  BY <1>1, <1>2 DEF Runs, Shared
<1>5. Heap
  <2>1. Open = {} /\ HoldingPost = {}
    BY <1>1, <1>2 DEF Open, HoldingPost
  <2>2. Cardinality({}) = 0
    BY FS_EmptySet
  <2> QED BY <1>2, <2>1, <2>2 DEF Heap, InUse
<1>6. Slots
  <2> SUFFICES ASSUME NEW c \in Conns PROVE Kept(c)
    BY DEF Slots
  <2>1. Free(c) /\ Reading(c) /\ Answering(c) /\ Streaming(c) /\ Yielded(c)
    BY <1>1, <1>2 DEF Free, Reading, Answering, Streaming, Sending, Yielded
  <2>2. Own(c)
    BY <1>1, <1>2 DEF Own, Over
  <2> QED BY <2>1, <2>2 DEF Kept
<1> QED BY <1>3, <1>4, <1>5, <1>6 DEF IInv

LEMMA Stutter ==
    ASSUME IInv, UNCHANGED vars
    PROVE  IInv'
<1>1. /\ conn' = conn /\ running' = running /\ p' = p /\ nIndex' = nIndex
      /\ error' = error /\ readBytes' = readBytes /\ leaked' = leaked
  BY DEF vars
<1>2. Typed' /\ Runs' /\ Shared'
  BY <1>1 DEF IInv, Typed, Runs, Shared
<1>3. Heap'
  BY <1>1 DEF IInv, Heap, InUse, Open, HoldingPost
<1>4. \A c \in Conns : Kept(c)'
  <2> TAKE c \in Conns
  <2>1. Got(c)' = Got(c) /\ Reply(c)' = Reply(c) /\ Made(c)' = Made(c)
    BY <1>1 DEF Got, Reply, Made, MadeAt
  <2>2. Free(c) /\ Reading(c) /\ Answering(c) /\ Streaming(c) /\ Yielded(c) /\ Own(c)
    BY Known
  <2>3. Free(c)' /\ Reading(c)' /\ Own(c)'
    BY <1>1, <2>2 DEF Free, Reading, Own, Over
  <2>4. Answering(c)' /\ Yielded(c)'
    BY <1>1, <2>1, <2>2 DEF Answering, Yielded
  <2>5. Streaming(c)'
    BY <1>1, <2>1, <2>2 DEF Streaming, Sending, Busy, Progress
  <2> QED BY <2>3, <2>4, <2>5 DEF Kept
<1> QED BY <1>2, <1>3, <1>4 DEF IInv, Slots

LEMMA Inductive ==
    ASSUME Undisturbed, IInv, [Next]_vars
    PROVE  IInv'
<1>1. CASE UNCHANGED vars
  BY <1>1, Stutter
<1>2. ASSUME NEW c \in Conns, Event(c) PROVE IInv'
  BY <1>2, EventKeeps
<1>3. ASSUME NEW c \in Conns, handleRequest(c) PROVE IInv'
  BY <1>3, BeginKeeps, NeedsInputKeeps, ReadMethodKeeps, ReadUrlKeeps, ReadVersionKeeps,
     ReadHeaderKeeps, EndOfHeadersKeeps, ReadBodyKeeps DEF handleRequest
<1>4. ASSUME NEW c \in Conns, handleResponse(c) PROVE IInv'
  BY <1>4, StartResponseKeeps, CopyKeeps, FlushKeeps, SendStatusKeeps, SendFirstHeaderKeeps,
     SendNextHeaderKeeps, SendBodyKeeps, CloseKeeps DEF handleResponse
<1> QED BY <1>1, <1>2, <1>3, <1>4 DEF Next

LEMMA Invariant ==
    ASSUME Undisturbed
    PROVE  Spec => []IInv
<1>1. Init => IInv
  BY InitHolds
<1>2. IInv /\ [Next]_vars => IInv'
  BY Inductive
<1> QED BY <1>1, <1>2, PTL DEF Spec
-------------------------------------------------------------------------------
(* No thread reads beyond what has arrived.                                *)

Arrived == \A c \in Conns : conn[c].taken <= conn[c].arrived

LEMMA ArrivedStep ==
    ASSUME IInv, Arrived, NEW c \in Conns, NEW v, Becomes(c, v), v.taken <= v.arrived
    PROVE  Arrived'
<1>1. conn \in [Conns -> Slot]
  BY DEF IInv, Typed
<1> QED BY <1>1 DEF Becomes, Arrived

LEMMA ArrivedInRequest ==
    ASSUME IInv, Arrived, NEW c \in Conns, handleRequest(c)
    PROVE  Arrived'
<1> DEFINE s == conn[c]
<1>t. s \in Slot /\ s.taken \in Nat /\ s.arrived \in Nat /\ s.taken <= s.arrived
  BY Known DEF Slot, Arrived
<1>1. CASE Begin(c)
  <2> DEFINE v == [s EXCEPT !.at = "method"]
  <2>1. Becomes(c, v)
    BY <1>1 DEF Begin
  <2>2. v.taken <= v.arrived
    BY <1>t DEF Slot
  <2> HIDE DEF v
  <2> QED BY <2>1, <2>2, ArrivedStep
<1>2. CASE NeedsInput(c)
  BY <1>2 DEF NeedsInput, Arrived
<1>3. ASSUME s.taken < s.arrived
      PROVE  Took(c) \in Slot /\ Took(c).taken <= Took(c).arrived
  BY <1>3, <1>t, TookSlot DEF Rest
<1>4. ASSUME NEW u \in Slot, u.taken <= u.arrived, NEW label \in Labels
      PROVE  /\ [u EXCEPT !.at = label].taken <= [u EXCEPT !.at = label].arrived
             /\ [u EXCEPT !.at = label] \in Slot
  BY <1>4, GoSlot DEF Rest
<1>5. ASSUME NEW u \in Slot, u.taken <= u.arrived, NEW status
      PROVE  ToOutput(u, status).taken <= ToOutput(u, status).arrived
  BY <1>5 DEF ToOutput, Slot
<1>6. ASSUME NEW u \in Slot, u.taken <= u.arrived, NEW e
      PROVE  Answer(u, e).taken <= Answer(u, e).arrived
  <2>1. CASE e = "none"
    <3> DEFINE z == ToOutput(u, 200)
    <3>1. z \in Slot /\ z.taken <= z.arrived
      BY <1>5, <1>6, ToOutputSlot
    <3>2. Answer(u, e) = [z EXCEPT !.called = TRUE, !.seen = u.postData,
                                   !.numOfResponseHeaders = LesserOf(u.req.headers, MaxHeaders)]
      BY <2>1 DEF Answer
    <3> HIDE DEF z
    <3> QED BY <3>1, <3>2 DEF Slot
  <2>2. CASE e = "MEMORY_ALLOC_ERR"
    <3>1. Answer(u, e) = ToOutput(u, 503)
      BY <2>2 DEF Answer
    <3> QED BY <1>5, <1>6, <3>1
  <2>3. CASE e # "none" /\ e # "MEMORY_ALLOC_ERR"
    <3>1. Answer(u, e) = ToOutput(u, 500)
      BY <2>3 DEF Answer
    <3> QED BY <1>5, <1>6, <3>1
  <2> QED BY <2>1, <2>2, <2>3
<1>7. CASE ReadMethod(c)
  <2>1. s.taken < s.arrived
    BY <1>7 DEF ReadMethod, Reads
  <2> DEFINE u == Took(c)
             v == [u EXCEPT !.at = "url", !.requestType = s.req.method]
             w == ToOutput(u, 503)
  <2>2. Becomes(c, IF isHttpMethodHandled(s.req.method) THEN v ELSE w)
    BY <1>7 DEF ReadMethod
  <2>3. u \in Slot /\ u.taken <= u.arrived
    BY <1>3, <2>1
  <2>4. w.taken <= w.arrived
    BY <1>5, <2>3
  <2> HIDE DEF u
  <2>5. v.taken <= v.arrived
    BY <2>3 DEF Slot
  <2> HIDE DEF v, w
  <2> QED BY <2>2, <2>4, <2>5, ArrivedStep
<1>8. CASE ReadUrl(c)
  <2>1. s.taken < s.arrived
    BY <1>8 DEF ReadUrl, Reads
  <2> DEFINE u == Took(c)
             v == [u EXCEPT !.at = "version"]
             w == ToOutput(u, UrlStatus(error'))
  <2>2. Becomes(c, IF error' = "none" THEN v ELSE w)
    BY <1>8 DEF ReadUrl
  <2>3. u \in Slot /\ u.taken <= u.arrived
    BY <1>3, <2>1
  <2>4. w.taken <= w.arrived
    BY <1>5, <2>3
  <2> HIDE DEF u
  <2>5. v.taken <= v.arrived
    BY <1>4, <2>3 DEF Labels
  <2> HIDE DEF v, w
  <2> QED BY <2>2, <2>4, <2>5, ArrivedStep
<1>9. CASE ReadVersion(c)
  <2>1. s.taken < s.arrived
    BY <1>9 DEF ReadVersion, Reads
  <2> DEFINE u == Took(c)
             v == [u EXCEPT !.at = "header"]
  <2>2. Becomes(c, v)
    BY <1>9 DEF ReadVersion
  <2>3. u \in Slot /\ u.taken <= u.arrived
    BY <1>3, <2>1
  <2> HIDE DEF u
  <2>4. v.taken <= v.arrived
    BY <1>4, <2>3 DEF Labels
  <2> HIDE DEF v
  <2> QED BY <2>2, <2>4, ArrivedStep
<1>10. CASE ReadHeader(c)
  <2>1. s.taken < s.arrived
    BY <1>10 DEF ReadHeader, Reads
  <2> DEFINE u == Took(c)
             v == [u EXCEPT !.postDataSize = s.req.size]
  <2>2. Becomes(c, v)
    BY <1>10 DEF ReadHeader
  <2>3. u \in Slot /\ u.taken <= u.arrived
    BY <1>3, <2>1
  <2> HIDE DEF u
  <2>4. v.taken <= v.arrived
    BY <2>3 DEF Slot
  <2> HIDE DEF v
  <2> QED BY <2>2, <2>4, ArrivedStep
<1>11. CASE EndOfHeaders(c)
  <2>1. s.taken < s.arrived
    BY <1>11 DEF EndOfHeaders, Reads
  <2> DEFINE u == Took(c)
             data == [i \in 1 .. s.postDataSize |-> <<NoConn, 0>>]
             v == [u EXCEPT !.at = "body", !.postData = data]
             w == Answer(u, error)
             z == Answer(u, error')
  <2>2. Becomes(c, v) \/ Becomes(c, w) \/ Becomes(c, z)
    BY <1>11 DEF EndOfHeaders
  <2>3. u \in Slot /\ u.taken <= u.arrived
    BY <1>3, <2>1
  <2>4. w.taken <= w.arrived /\ z.taken <= z.arrived
    BY <1>6, <2>3
  <2> HIDE DEF u, data
  <2>5. v.taken <= v.arrived
    BY <2>3 DEF Slot
  <2> HIDE DEF v, w, z
  <2> QED BY <2>2, <2>4, <2>5, ArrivedStep
<1>12. CASE ReadBody(c)
  <2> DEFINE n == s.arrived - s.taken
             copied == Copied(c, n)
             over == readBytes + n > s.postDataSize
             r == [s EXCEPT !.taken = s.arrived, !.postData = copied, !.spilt = over]
             w == Answer(r, error)
  <2>1. Becomes(c, w) \/ Becomes(c, r)
    BY <1>12 DEF ReadBody
  <2>a. Own(c)
    BY Known
  <2>2. n > 0 /\ conn[c].state = "waiting" /\ conn[c].at = "body" /\ ~conn[c].spilt
    BY <1>12, <1>t, <2>a DEF ReadBody, Reads, Waits, Own, Over
  <2>3. copied \in Seq(Bytes)
    BY <2>2, CopiedBody
  <2>4. over \in BOOLEAN
    OBVIOUS
  <2> HIDE DEF copied, over, n
  <2>5. r.taken <= r.arrived
    BY <1>t DEF Slot
  <2>6. r \in Slot
    BY <1>t, <2>3, <2>4 DEF Slot
  <2> HIDE DEF r
  <2>7. w.taken <= w.arrived
    BY <1>6, <2>5, <2>6
  <2> HIDE DEF w
  <2> QED BY <2>1, <2>5, <2>7, ArrivedStep
<1> QED BY <1>1, <1>2, <1>7, <1>8, <1>9, <1>10, <1>11, <1>12 DEF handleRequest

LEMMA ArrivedInResponse ==
    ASSUME IInv, Arrived, NEW c \in Conns, handleResponse(c)
    PROVE  Arrived'
<1> DEFINE s == conn[c]
<1>t. conn \in [Conns -> Slot] /\ s \in Slot /\ s.taken <= s.arrived
  BY Known DEF Arrived, Typed
<1>1. ASSUME NEW label, Becomes(c, [s EXCEPT !.at = label])
      PROVE  Arrived'
  BY <1>1, <1>t DEF Becomes, Arrived, Slot
<1>2. CASE StartResponse(c)
  <2> DEFINE n == LesserOf(s.numOfResponseHeaders + 1, MaxHeaders)
             v == [s EXCEPT !.postData = <<>>, !.postDataSize = 0, !.at = "version",
                            !.numOfResponseHeaders = n]
  <2>1. Becomes(c, v)
    BY <1>2 DEF StartResponse
  <2> HIDE DEF n
  <2>2. v.taken <= v.arrived
    BY <1>t DEF Slot
  <2> HIDE DEF v
  <2> QED BY <2>1, <2>2, ArrivedStep
<1>3. CASE Copy(c)
  <2> DEFINE v == [s EXCEPT !.outbuf = Append(@, p)]
  <2>1. Becomes(c, v)
    BY <1>3 DEF Copy
  <2>2. v.taken <= v.arrived
    BY <1>t DEF Slot
  <2> HIDE DEF v
  <2> QED BY <2>1, <2>2, ArrivedStep
<1>4. CASE Flush(c)
  <2> DEFINE v == [s EXCEPT !.unacked = TRUE]
  <2>1. Becomes(c, v)
    BY <1>4 DEF Flush
  <2>2. v.taken <= v.arrived
    BY <1>t DEF Slot
  <2> HIDE DEF v
  <2> QED BY <2>1, <2>2, ArrivedStep
<1>5. CASE SendStatus(c)
  BY <1>1, <1>5 DEF SendStatus
<1>6. CASE SendFirstHeader(c)
  BY <1>1, <1>6 DEF SendFirstHeader, HeaderOrBlank
<1>7. CASE SendNextHeader(c)
  BY <1>1, <1>7 DEF SendNextHeader, HeaderOrBlank
<1>8. CASE SendBody(c)
  BY <1>1, <1>8 DEF SendBody
<1>9. CASE Close(c)
  <2> DEFINE v == [s EXCEPT !.state = "closed"]
  <2>1. Becomes(c, v)
    BY <1>9 DEF Close
  <2>2. v.taken <= v.arrived
    BY <1>t DEF Slot
  <2> HIDE DEF v
  <2> QED BY <2>1, <2>2, ArrivedStep
<1> QED BY <1>2, <1>3, <1>4, <1>5, <1>6, <1>7, <1>8, <1>9 DEF handleResponse

LEMMA ArrivedInEvent ==
    ASSUME IInv, Arrived, NEW c \in Conns, Event(c)
    PROVE  Arrived'
<1> DEFINE s == conn[c]
<1>t. conn \in [Conns -> Slot] /\ s \in Slot /\ s.taken \in Nat /\ s.arrived \in Nat /\ s.taken <= s.arrived
  BY Known DEF Arrived, Typed, Slot
<1>1. ASSUME NEW r \in Requests, Connect(c, r) PROVE Arrived'
  <2> DEFINE v == [FreeSlot EXCEPT !.state = "waiting", !.req = r]
  <2>1. Becomes(c, v)
    BY <1>1 DEF Connect
  <2>2. v.taken <= v.arrived
    BY DEF FreeSlot
  <2> HIDE DEF v
  <2> QED BY <2>1, <2>2, ArrivedStep
<1>2. ASSUME NEW n \in 1 .. Len(Tokens(s.req)), Segment(c, n) PROVE Arrived'
  <2> DEFINE m == s.arrived + n
             v == [s EXCEPT !.arrived = m]
  <2>1. Becomes(c, v)
    BY <1>2 DEF Segment
  <2>2. s.taken <= m
    BY <1>t
  <2> HIDE DEF m
  <2>3. v.taken <= v.arrived
    BY <1>t, <2>2 DEF Slot
  <2> HIDE DEF v
  <2> QED BY <2>1, <2>3, ArrivedStep
<1>3. CASE Acked(c)
  <2> DEFINE v == [s EXCEPT !.unacked = FALSE, !.sent = @ \o s.outbuf, !.outbuf = <<>>]
  <2>1. Becomes(c, v)
    BY <1>3 DEF Acked
  <2>2. v.taken <= v.arrived
    BY <1>t DEF Slot
  <2> HIDE DEF v
  <2> QED BY <2>1, <2>2, ArrivedStep
<1>4. CASE Closed(c) \/ Aborted(c)
  <2>1. Becomes(c, FreeSlot)
    BY <1>4 DEF Closed, Aborted, Release
  <2>2. FreeSlot.taken <= FreeSlot.arrived
    BY DEF FreeSlot
  <2> QED BY <2>1, <2>2, ArrivedStep
<1> QED BY <1>1, <1>2, <1>3, <1>4 DEF Event, Arrives

LEMMA AllArrived ==
    ASSUME Undisturbed
    PROVE  Spec => []Arrived
<1>1. Init => Arrived
  <2>1. FreeSlot.taken <= FreeSlot.arrived
    BY DEF FreeSlot
  <2> QED BY <2>1 DEF Init, Arrived
<1>2. ASSUME IInv, Arrived, [Next]_vars PROVE Arrived'
  <2>1. CASE UNCHANGED vars
    BY <1>2, <2>1 DEF vars, Arrived
  <2> QED BY <1>2, <2>1, ArrivedInEvent, ArrivedInRequest, ArrivedInResponse DEF Next
<1> QED BY <1>1, <1>2, Invariant, PTL DEF Spec
-------------------------------------------------------------------------------
(* What the run checks.                                                    *)

(* Every variable keeps its type: in particular no thread counts headers   *)
(* beyond those of its response, no buffer holds more than it can, and     *)
(* what is allocated and what is lost never exceed the heap.               *)
THEOREM ServerTyped ==
    ASSUME Undisturbed
    PROVE  Spec => []TypeOK
<1>1. ASSUME IInv, Arrived PROVE TypeOK
  <2>1. Typed /\ Heap
    BY <1>1 DEF IInv
  <2>2. ASSUME NEW c \in Conns
        PROVE  /\ conn[c].state \in {"free", "waiting", "output", "closed"}
               /\ conn[c].at \in Labels /\ conn[c].numOfResponseHeaders \in 0 .. MaxHeaders
               /\ conn[c].taken <= conn[c].arrived
               /\ Len(conn[c].outbuf) <= OutBuf
    BY <1>1, Known DEF Slot, Own, Arrived
  <2> QED BY <2>1, <2>2 DEF TypeOK, Typed, Heap, Labels
<1> QED BY <1>1, Invariant, AllArrived, PTL

LEMMA Beginning ==
    ASSUME NEW s \in Seq(Pieces), NEW t \in Seq(Pieces), NEW r \in Seq(Pieces),
           NEW k \in 0 .. Len(r), s \o t = SubSeq(r, 1, k)
    PROVE  IsPrefix(s, r)
<1>1. /\ Len(s) \in Nat /\ Len(t) \in Nat /\ Len(s \o t) = Len(s) + Len(t)
      /\ \A i \in 1 .. Len(s) : (s \o t)[i] = s[i]
  BY Joined
<1>2. Len(r) \in Nat
  BY LenProperties
<1>3. Len(SubSeq(r, 1, k)) = k /\ \A i \in 1 .. k : SubSeq(r, 1, k)[i] = r[i]
  <2>1. \A i \in 1 .. k : r[i] \in Pieces
    BY <1>2, ElementOfSeq
  <2> QED BY <1>2, <2>1, SubSeqProperties
<1> DEFINE l == Len(s)
           whole == Len(r)
           m == Len(t)
<1>4. l \in Nat /\ m \in Nat /\ l + m = k /\ k <= whole /\ whole \in Nat
  BY <1>1, <1>2, <1>3
<1>5. l <= whole /\ \A i \in 1 .. l : i \in 1 .. k /\ i \in 1 .. whole
  <2> HIDE DEF l, m, whole
  <2> QED BY <1>4
<1>6. \A i \in 1 .. l : s[i] = r[i]
  BY <1>1, <1>3, <1>5
<1>7. SubSeq(s, 1, l) = s
  BY SubSeqFull
<1>8. SubSeq(r, 1, l) \in Seq(Pieces) /\ Len(SubSeq(r, 1, l)) = l /\ \A i \in 1 .. l : SubSeq(r, 1, l)[i] = r[i]
  <2>1. \A i \in 1 .. l : r[i] \in Pieces
    BY <1>5, ElementOfSeq
  <2>2. l \in Nat
    BY <1>4
  <2> HIDE DEF l
  <2> QED BY <2>1, <2>2, SubSeqProperties
<1>9. SubSeq(r, 1, l) = s
  BY <1>6, <1>8, SeqEqual
<1> QED BY <1>5, <1>7, <1>9 DEF IsPrefix

(* Every request has a reply, and nothing is the beginning of it.          *)
LEMMA NothingYet ==
    ASSUME NEW c \in Conns, NEW r \in Requests
    PROVE  \E s \in Replies(c, r) : IsPrefix(<<>>, s)
<1> DEFINE Possible(status, headers, called) ==
               /\ status \in Nat /\ headers \in Nat /\ called \in BOOLEAN
               /\ ReplyOf(c, status, headers, called) \in Replies(c, r)
<1>1. \E status, headers, called : Possible(status, headers, called)
  <2>1. CASE ~isHttpMethodHandled(r.method)
    <3>1. Possible(503, 1, FALSE)
      BY <2>1 DEF Replies, Refusals, Faults
    <3> HIDE DEF Possible
    <3> QED BY <3>1, ZenonT(30)
  <2>2. CASE isHttpMethodHandled(r.method) /\ r.url = "long"
    <3>1. Possible(414, 1, FALSE)
      BY <2>2 DEF Replies, Refusals, Faults
    <3> HIDE DEF Possible
    <3> QED BY <3>1, Zenon
  <2>3. CASE isHttpMethodHandled(r.method) /\ r.url = "bad"
    <3>1. Possible(400, 1, FALSE)
      BY <2>3 DEF Replies, Refusals, Faults
    <3> HIDE DEF Possible
    <3> QED BY <3>1, Zenon
  <2>4. CASE isHttpMethodHandled(r.method) /\ r.url # "long" /\ r.url # "bad"
    <3> DEFINE h == r.headers + 1
               n == LesserOf(h, MaxHeaders)
    <3>1. h \in Nat
      BY Sizes
    <3>2. n \in Nat
      <4> HIDE DEF h
      <4> QED BY <3>1, Lesser
    <3>3. ReplyOf(c, 200, n, TRUE) \in Replies(c, r)
      BY <2>4 DEF Replies, Accepts
    <3> HIDE DEF n
    <3>4. Possible(200, n, TRUE)
      BY ZenonT(30), <3>2, <3>3
    <3> HIDE DEF Possible
    <3> QED BY <3>4, Zenon
  <2> QED BY <2>1, <2>2, <2>3, <2>4
<1>2. PICK status, headers, called : Possible(status, headers, called)
  BY <1>1
<1> DEFINE s == ReplyOf(c, status, headers, called)
<1>3. s \in Seq(Pieces)
  BY <1>2, ReplyKnown
<1> HIDE DEF s
<1>4. <<>> \in Seq(Pieces) /\ <<>> \o <<>> = <<>> /\ SubSeq(s, 1, 0) = <<>> /\ 0 \in 0 .. Len(s)
  BY <1>3, SubSeqEmpty, LenProperties
<1>5. IsPrefix(<<>>, s)
  BY <1>3, <1>4, Beginning
<1> QED BY <1>2, <1>5 DEF s

(* What was sent and what waits in the buffer is the beginning of what is  *)
(* to be sent.                                                             *)
LEMMA GotSoFar ==
    ASSUME IInv, NEW c \in Conns, conn[c].state = "output", conn[c].at # "begin"
    PROVE  /\ conn[c].sent \in Seq(Pieces) /\ conn[c].outbuf \in Seq(Pieces)
           /\ Reply(c) \in Seq(Pieces) /\ Len(Reply(c)) \in Nat
           /\ \E k \in 0 .. Len(Reply(c)) : Got(c) = SubSeq(Reply(c), 1, k)
<1>t. /\ Typed /\ conn[c] \in Slot /\ Answering(c) /\ Streaming(c) /\ Yielded(c) /\ Shared
  BY Known DEF IInv
<1>1. conn[c].at \in SendLabels
  BY <1>t DEF Answering, SendLabels
<1>2. /\ conn[c].sent \in Seq(Pieces) /\ conn[c].outbuf \in Seq(Pieces)
      /\ Reply(c) \in Seq(Pieces) /\ Len(Reply(c)) \in Nat
  <2>1. Reply(c) \in Seq(Pieces)
    BY <1>t, ReplyTyped
  <2> QED BY <1>t, <2>1, LenProperties DEF Slot
<1>3. CASE \A d \in Conns \ {c} : ~Busy(d)
  <2>1. Progress(c)
    BY <1>t, <1>3 DEF Streaming, Sending
  <2>2. Made(c) \in 1 .. Len(Reply(c))
    BY <1>1, <2>1, MadeBounds
  <2>3. Made(c) \in 0 .. Len(Reply(c)) /\ Made(c) - 1 \in 0 .. Len(Reply(c))
    BY <1>2, <2>2
  <2> QED BY <1>2, <2>1, <2>3 DEF Progress
<1>4. CASE \E d \in Conns \ {c} : Busy(d)
  <2>1. PICK d \in Conns \ {c} : running = d /\ conn[d].state = "output"
    BY <1>4 DEF Busy, Sending
  <2>2. conn[c].req \in Together /\ conn[c].unacked
    BY <1>t, <2>1 DEF Shared, Answering
  <2>3. Got(c) = Reply(c)
    BY <1>t, <2>2 DEF Yielded
  <2>4. SubSeq(Reply(c), 1, Len(Reply(c))) = Reply(c) /\ Len(Reply(c)) \in 0 .. Len(Reply(c))
    BY <1>2, SubSeqFull
  <2> QED BY <1>2, <2>3, <2>4
<1> QED BY <1>3, <1>4

(* What a client has got is the beginning of a reply that its own request  *)
(* may have, and all of it when the connection is closed, however the      *)
(* threads of the other connections come in between.                       *)
THEOREM ReplyIsItsOwn ==
    ASSUME Undisturbed
    PROVE  Spec => []OwnReply
<1>1. ASSUME IInv, NEW c \in Conns, conn[c].state # "free"
      PROVE  \E s \in Replies(c, conn[c].req) :
                 IF conn[c].state = "closed" THEN conn[c].sent = s ELSE IsPrefix(conn[c].sent, s)
  <2>t. /\ Typed /\ conn[c] \in Slot /\ Reading(c) /\ Answering(c) /\ Streaming(c) /\ Yielded(c)
        /\ Shared
    BY <1>1, Known DEF IInv
  <2>1. CASE conn[c].state = "waiting"
    BY <2>1, <2>t, NothingYet DEF Reading
  <2>2. CASE conn[c].state = "closed"
    <3>1. conn[c].sent = Reply(c) /\ conn[c].req \in Requests /\ Decided(conn[c]) /\ conn[c].at = "body"
      BY <2>2, <2>t DEF Answering
    <3> QED BY <2>2, <2>t, <3>1, DecidedReply
  <2>3. CASE conn[c].state = "output"
    <3>1. conn[c].req \in Requests /\ Decided(conn[c])
      BY <2>3, <2>t DEF Answering
    <3>2. CASE conn[c].at = "begin"
      BY <2>3, <2>t, <3>1, <3>2, NothingYet DEF Answering
    <3>3. CASE conn[c].at # "begin"
      <4>1. Reply(c) \in Replies(c, conn[c].req) /\ conn[c].at \in SendLabels
        BY <2>3, <2>t, <3>1, <3>3, DecidedReply DEF Answering, SendLabels
      <4>2. /\ conn[c].sent \in Seq(Pieces) /\ conn[c].outbuf \in Seq(Pieces)
            /\ Reply(c) \in Seq(Pieces) /\ Len(Reply(c)) \in Nat
            /\ \E k \in 0 .. Len(Reply(c)) : Got(c) = SubSeq(Reply(c), 1, k)
        BY <1>1, <2>3, <3>3, GotSoFar
      <4>4. IsPrefix(conn[c].sent, Reply(c))
        <5> DEFINE x == conn[c].sent
                   y == conn[c].outbuf
                   R == Reply(c)
        <5>1. PICK k \in 0 .. Len(R) : Got(c) = SubSeq(R, 1, k)
          BY <4>2
        <5>2. x \o y = SubSeq(R, 1, k) /\ x \in Seq(Pieces) /\ y \in Seq(Pieces) /\ R \in Seq(Pieces)
          BY <4>2, <5>1 DEF Got
        <5> HIDE DEF x, y, R
        <5>3. IsPrefix(x, R)
          BY <5>2, Beginning
        <5> QED BY <5>3 DEF x, R
      <4> QED BY <2>3, <4>1, <4>4
    <3> QED BY <3>2, <3>3
  <2> QED BY <1>1, <2>t, <2>1, <2>2, <2>3 DEF Slot
<1>2. IInv => OwnReply
  BY <1>1 DEF OwnReply
<1> QED BY <1>2, Invariant, PTL

(* The application sees the method and the body that the client sent,      *)
(* byte for byte.                                                          *)
THEOREM BodyIsItsOwn ==
    ASSUME Undisturbed
    PROVE  Spec => []OwnBody
<1>1. ASSUME IInv PROVE OwnBody
  BY <1>1, Known DEF OwnBody, Own
<1> QED BY <1>1, Invariant, PTL

(* A block allocated for a body is overrun only if its own client sends    *)
(* more than it has announced: never by the segments an announced body     *)
(* comes in, nor by what another body has left in readBytes.               *)
THEOREM BodyFitsItsBlock ==
    ASSUME Undisturbed
    PROVE  Spec => []BodyFits
<1>1. ASSUME IInv PROVE BodyFits
  BY <1>1, Known DEF BodyFits, Own, Over
<1> QED BY <1>1, Invariant, PTL

(* A request is refused for faults of its own, or for want of memory for   *)
(* its own body.                                                           *)
THEOREM StatusIsItsOwn ==
    ASSUME Undisturbed
    PROVE  Spec => []OwnStatus
<1>1. ASSUME IInv PROVE OwnStatus
  BY <1>1, Known DEF OwnStatus, Answering, Decided
<1> QED BY <1>1, Invariant, PTL
-------------------------------------------------------------------------------
(* The server of one client.  A step of another connection is none of it;  *)
(* a step of its own decides, delivers, or changes nothing that the client *)
(* and the application can see.                                            *)

LEMMA Became ==
    ASSUME Typed, NEW c \in Conns, NEW v, Becomes(c, v)
    PROVE  conn'[c] = v /\ \A d \in Conns \ {c} : conn'[d] = conn[d]
BY DEF Typed, Becomes

LEMMA OthersStay ==
    ASSUME Typed, NEW c \in Conns, NEW d \in Conns \ {c},
           Event(c) \/ handleRequest(c) \/ handleResponse(c)
    PROVE  conn'[d] = conn[d]
<1>1. (\E v : Becomes(c, v)) \/ UNCHANGED conn
  <2>1. CASE Event(c)
    BY <2>1 DEF Event, Connect, Arrives, Segment, Acked, Closed, Aborted, Release
  <2>2. CASE handleRequest(c)
    BY <2>2 DEF handleRequest, Begin, NeedsInput, ReadMethod, ReadUrl, ReadVersion, ReadHeader,
                EndOfHeaders, ReadBody
  <2>3. CASE handleResponse(c)
    BY <2>3 DEF handleResponse, StartResponse, Copy, Flush, SendStatus, SendFirstHeader,
                SendNextHeader, HeaderOrBlank, SendBody, Close
  <2> QED BY <2>1, <2>2, <2>3
<1> QED BY <1>1, Became

(* A step of handleRequest reads on, or ends with the beginning of a       *)
(* response.                                                               *)
Onward(u, s) ==
    u.req = s.req /\ (u.state = "waiting" \/ (u.state = "output" /\ u.at = "begin"))

Named(s) == {"state", "at", "req"} \subseteq DOMAIN s

LEMMA OutputOnward ==
    ASSUME NEW s, Named(s), NEW status
    PROVE  LET u == ToOutput(s, status)
           IN  Named(u) /\ u.req = s.req /\ u.state = "output" /\ u.at = "begin"
<1> DEFINE a == [s EXCEPT !.state = "output"]
           b == [a EXCEPT !.at = "begin"]
           u == [b EXCEPT !.statusCode = status]
<1>0. u = ToOutput(s, status)
  BY DEF ToOutput
<1>1. Named(a) /\ a.req = s.req /\ a.state = "output"
  BY DEF Named
<1> HIDE DEF a
<1>2. Named(b) /\ b.req = a.req /\ b.state = a.state /\ b.at = "begin"
  BY <1>1 DEF Named
<1> HIDE DEF b
<1>3. Named(u) /\ u.req = b.req /\ u.state = b.state /\ u.at = b.at
  BY <1>2 DEF Named
<1> HIDE DEF u
<1> QED BY <1>0, <1>1, <1>2, <1>3

LEMMA AnswerOnward ==
    ASSUME NEW s, Named(s), NEW e
    PROVE  Onward(Answer(s, e), s)
<1>1. ASSUME NEW status PROVE Onward(ToOutput(s, status), s)
  BY OutputOnward DEF Onward
<1>2. CASE e = "none"
  <2> DEFINE u == ToOutput(s, 200)
             w == [u EXCEPT !.called = TRUE]
             x == [w EXCEPT !.seen = s.postData]
             y == [x EXCEPT !.numOfResponseHeaders = LesserOf(s.req.headers, MaxHeaders)]
  <2>1. Answer(s, e) = y
    BY <1>2 DEF Answer
  <2>2. Named(u) /\ u.req = s.req /\ u.state = "output" /\ u.at = "begin"
    BY OutputOnward
  <2> HIDE DEF u
  <2>3. Named(w) /\ w.req = u.req /\ w.state = u.state /\ w.at = u.at
    BY <2>2 DEF Named
  <2> HIDE DEF w
  <2>4. Named(x) /\ x.req = w.req /\ x.state = w.state /\ x.at = w.at
    BY <2>3 DEF Named
  <2> HIDE DEF x
  <2>5. y.req = x.req /\ y.state = x.state /\ y.at = x.at
    BY <2>4 DEF Named
  <2> HIDE DEF y
  <2> QED BY <2>1, <2>2, <2>3, <2>4, <2>5 DEF Onward
<1>3. CASE e # "none"
  BY <1>1, <1>3 DEF Answer
<1> QED BY <1>2, <1>3

LEMMA RequestMoves ==
    ASSUME IInv, NEW c \in Conns, handleRequest(c)
    PROVE  conn[c].state = "waiting" /\ Onward(conn'[c], conn[c])
<1>t. Typed /\ conn[c] \in Slot
  BY Known
<1>s. conn[c].state = "waiting"
  BY DEF handleRequest, Begin, NeedsInput, ReadMethod, ReadUrl, ReadVersion, ReadHeader, EndOfHeaders,
         ReadBody, Reads, Waits
<1>took. Took(c) \in Slot /\ Named(Took(c)) /\ Took(c).req = conn[c].req /\ Took(c).state = "waiting"
  <2>1. Took(c) \in Slot /\ Took(c).req = conn[c].req /\ Took(c).state = "waiting"
    BY <1>t, <1>s, TookSlot DEF Rest
  <2> QED BY <2>1 DEF Slot, Named
<1>1. ASSUME NEW v, Becomes(c, v), Onward(v, conn[c]) PROVE Onward(conn'[c], conn[c])
  BY <1>t, <1>1, Became
<1>2. ASSUME NEW r, Named(r), r.req = conn[c].req, NEW status
      PROVE  Onward(ToOutput(r, status), conn[c])
  BY <1>2, OutputOnward DEF Onward
<1>3. ASSUME NEW r, Named(r), r.req = conn[c].req, NEW e PROVE Onward(Answer(r, e), conn[c])
  BY <1>3, AnswerOnward DEF Onward
<1>4. CASE Begin(c)
  <2>1. Onward([conn[c] EXCEPT !.at = "method"], conn[c])
    BY <1>t, <1>s DEF Onward, Slot
  <2> QED BY <1>s, <1>1, <1>4, <2>1 DEF Begin
<1>5. CASE NeedsInput(c)
  BY <1>5, <1>s DEF NeedsInput, Onward
<1>6. CASE ReadMethod(c)
  <2>1. Onward([Took(c) EXCEPT !.at = "url", !.requestType = conn[c].req.method], conn[c])
    BY <1>took DEF Onward, Slot
  <2>2. Onward(ToOutput(Took(c), 503), conn[c])
    BY <1>took, <1>2
  <2> QED BY <1>s, <1>1, <1>6, <2>1, <2>2 DEF ReadMethod
<1>7. CASE ReadUrl(c)
  <2>1. Onward([Took(c) EXCEPT !.at = "version"], conn[c])
    BY <1>took DEF Onward, Slot
  <2>3. Onward(ToOutput(Took(c), UrlStatus(error')), conn[c])
    BY <1>took, <1>2
  <2> QED BY <1>s, <1>1, <1>7, <2>1, <2>3 DEF ReadUrl
<1>8. CASE ReadVersion(c)
  <2>1. Onward([Took(c) EXCEPT !.at = "header"], conn[c])
    BY <1>took DEF Onward, Slot
  <2> QED BY <1>s, <1>1, <1>8, <2>1 DEF ReadVersion
<1>9. CASE ReadHeader(c)
  <2>1. Onward([Took(c) EXCEPT !.postDataSize = conn[c].req.size], conn[c])
    BY <1>took DEF Onward, Slot
  <2> QED BY <1>s, <1>1, <1>9, <2>1 DEF ReadHeader
<1>10. CASE EndOfHeaders(c)
  <2> DEFINE bytes == [i \in 1 .. conn[c].postDataSize |-> <<NoConn, 0>>]
  <2>1. Onward([Took(c) EXCEPT !.at = "body", !.postData = bytes], conn[c])
    <3> HIDE DEF bytes
    <3> QED BY <1>took DEF Onward, Slot
  <2>2. Onward(Answer(Took(c), error), conn[c]) /\ Onward(Answer(Took(c), error'), conn[c])
    BY <1>took, <1>3
  <2> QED BY <1>s, <1>1, <1>10, <2>1, <2>2 DEF EndOfHeaders
<1>11. CASE ReadBody(c)
  <2> DEFINE n == conn[c].arrived - conn[c].taken
             r == [conn[c] EXCEPT !.taken = conn[c].arrived, !.postData = Copied(c, n),
                                  !.spilt = readBytes + n > conn[c].postDataSize]
  <2>1. Named(r) /\ r.req = conn[c].req /\ r.state = "waiting"
    <3> DEFINE a == [conn[c] EXCEPT !.taken = conn[c].arrived]
               b == [a EXCEPT !.postData = Copied(c, n)]
               d == [b EXCEPT !.spilt = readBytes + n > conn[c].postDataSize]
    <3>1. Named(a) /\ a.req = conn[c].req /\ a.state = "waiting"
      BY <1>t, <1>s DEF Slot, Named
    <3>4. r = d
      OBVIOUS
    <3> HIDE DEF a, r
    <3>2. Named(b) /\ b.req = a.req /\ b.state = a.state
      BY <3>1 DEF Named
    <3> HIDE DEF b
    <3>3. Named(d) /\ d.req = b.req /\ d.state = b.state
      BY <3>2 DEF Named
    <3> HIDE DEF d
    <3> QED BY <3>1, <3>2, <3>3, <3>4
  <2>2. Becomes(c, Answer(r, error)) \/ Becomes(c, r)
    BY <1>11 DEF ReadBody
  <2> HIDE DEF r, n
  <2>3. Onward(r, conn[c])
    BY <2>1 DEF Onward
  <2>4. Onward(Answer(r, error), conn[c])
    BY <1>3, <2>1
  <2> QED BY <1>s, <1>1, <2>2, <2>3, <2>4
<1> QED BY <1>4, <1>5, <1>6, <1>7, <1>8, <1>9, <1>10, <1>11 DEF handleRequest

(* A step of handleResponse leaves what was decided and what was sent.     *)
Alike(u, s) ==
    /\ u.req = s.req /\ u.sent = s.sent /\ u.called = s.called /\ u.seen = s.seen
    /\ u.requestType = s.requestType /\ u.statusCode = s.statusCode

Unmoved(u, s) ==
    /\ Alike(u, s) /\ u.state \in {"output", "closed"} /\ u.at # "begin"
    /\ u.numOfResponseHeaders = Heads(s)

LEMMA LabelUnmoved ==
    ASSUME NEW s \in Slot, s.state = "output", s.at # "begin", NEW label, label # "begin"
    PROVE  Unmoved([s EXCEPT !.at = label], s)
BY DEF Slot, Unmoved, Alike, Heads

LEMMA StartUnmoved ==
    ASSUME NEW s \in Slot, s.state = "output", s.at = "begin"
    PROVE  Unmoved([s EXCEPT !.postData = <<>>, !.postDataSize = 0, !.at = "version",
                             !.numOfResponseHeaders = LesserOf(@ + 1, MaxHeaders)], s)
<1> DEFINE n == LesserOf(s.numOfResponseHeaders + 1, MaxHeaders)
           a == [s EXCEPT !.postData = <<>>]
           b == [a EXCEPT !.postDataSize = 0]
           d == [b EXCEPT !.at = "version"]
           u == [d EXCEPT !.numOfResponseHeaders = n]
<1>1. a \in Slot /\ Alike(a, s) /\ a.state = s.state /\ a.numOfResponseHeaders = s.numOfResponseHeaders
  <2>1. <<>> \in Seq(Bytes)
    OBVIOUS
  <2> QED BY <2>1 DEF Slot, Alike
<1>2. d.numOfResponseHeaders = s.numOfResponseHeaders
  BY DEF Slot
<1>3. [s EXCEPT !.postData = <<>>, !.postDataSize = 0, !.at = "version",
                !.numOfResponseHeaders = LesserOf(@ + 1, MaxHeaders)] = u
  BY <1>2
<1> HIDE DEF a
<1>4. b \in Slot /\ Alike(b, a) /\ b.state = a.state
  BY <1>1 DEF Slot, Alike
<1> HIDE DEF b
<1>5. d \in Slot /\ Alike(d, b) /\ d.state = b.state /\ d.at = "version"
  BY <1>4 DEF Slot, Alike, Labels
<1> HIDE DEF d, n
<1>6. Alike(u, d) /\ u.state = d.state /\ u.at = d.at /\ u.numOfResponseHeaders = n
  BY <1>5 DEF Slot, Alike
<1> HIDE DEF u
<1>7. Alike(u, s)
  BY <1>1, <1>4, <1>5, <1>6 DEF Alike
<1>8. Heads(s) = n
  BY DEF Heads, n
<1> QED BY <1>1, <1>3, <1>4, <1>5, <1>6, <1>7, <1>8 DEF Unmoved

LEMMA ResponseMoves ==
    ASSUME IInv, NEW c \in Conns, handleResponse(c)
    PROVE  conn[c].state = "output" /\ Unmoved(conn'[c], conn[c])
<1>t. Typed /\ conn[c] \in Slot
  BY Known
<1>s. conn[c].state = "output"
  BY DEF handleResponse, StartResponse, Copy, Flush, SendStatus, SendFirstHeader, SendNextHeader,
         SendBody, Close, Sends
<1>1. ASSUME NEW v, Becomes(c, v), Unmoved(v, conn[c]) PROVE Unmoved(conn'[c], conn[c])
  BY <1>t, <1>1, Became
<1>2. CASE StartResponse(c)
  <2>1. conn[c].at = "begin"
    BY <1>2 DEF StartResponse, Sends
  <2> QED BY <1>s, <1>t, <1>1, <1>2, <2>1, StartUnmoved DEF StartResponse
<1>3. CASE Copy(c)
  <2>1. Unmoved([conn[c] EXCEPT !.outbuf = Append(@, p)], conn[c])
    BY <1>s, <1>t, <1>3 DEF Copy, Slot, Unmoved, Alike, Heads
  <2> QED BY <1>s, <1>1, <1>3, <2>1 DEF Copy
<1>4. CASE Flush(c)
  <2>1. Unmoved([conn[c] EXCEPT !.unacked = TRUE], conn[c])
    BY <1>s, <1>t, <1>4 DEF Flush, Slot, Unmoved, Alike, Heads
  <2> QED BY <1>s, <1>1, <1>4, <2>1 DEF Flush
<1>5. CASE SendStatus(c)
  <2>1. Unmoved([conn[c] EXCEPT !.at = "status"], conn[c])
    BY <1>s, <1>t, <1>5, LabelUnmoved DEF SendStatus, Sends
  <2> QED BY <1>s, <1>1, <1>5, <2>1 DEF SendStatus
<1>6. CASE SendFirstHeader(c) \/ SendNextHeader(c)
  <2>1. /\ Unmoved([conn[c] EXCEPT !.at = "header"], conn[c])
        /\ Unmoved([conn[c] EXCEPT !.at = "blank"], conn[c])
    BY <1>s, <1>t, <1>6, LabelUnmoved DEF SendFirstHeader, SendNextHeader, Sends
  <2>2. \/ Becomes(c, [conn[c] EXCEPT !.at = "header"])
        \/ Becomes(c, [conn[c] EXCEPT !.at = "blank"])
    BY <1>6 DEF SendFirstHeader, SendNextHeader, HeaderOrBlank
  <2> QED BY <1>s, <1>1, <2>1, <2>2
<1>7. CASE SendBody(c)
  <2>1. Unmoved([conn[c] EXCEPT !.at = "body"], conn[c])
    BY <1>s, <1>t, <1>7, LabelUnmoved DEF SendBody, Sends
  <2> QED BY <1>s, <1>1, <1>7, <2>1 DEF SendBody
<1>8. CASE Close(c)
  <2>1. Unmoved([conn[c] EXCEPT !.state = "closed"], conn[c])
    BY <1>s, <1>t, <1>8 DEF Close, Sends, Slot, Unmoved, Alike, Heads
  <2> QED BY <1>s, <1>1, <1>8, <2>1 DEF Close
<1> QED BY <1>2, <1>3, <1>4, <1>5, <1>6, <1>7, <1>8 DEF handleResponse

LEMMA UnmovedPromise ==
    ASSUME NEW c \in Conns, Unmoved(conn'[c], conn[c])
    PROVE  Promised(c)' = Promised(c)
BY DEF Unmoved, Alike, Promised, Heads

(* What the client of a slot sees of it: the view is a function of these.  *)
LEMMA SameView ==
    ASSUME NEW c \in Conns, UNCHANGED conn[c]
    PROVE  UNCHANGED Service(c)!service
BY DEF Service!service, Promised

(* While a request is read, and when its end has been.                     *)
LEMMA RequestServes ==
    ASSUME IInv, IInv', NEW c \in Conns, handleRequest(c)
    PROVE  [Service(c)!Next]_(Service(c)!service)
<1>1. /\ conn[c].state = "waiting" /\ conn'[c].req = conn[c].req
      /\ conn'[c].state = "waiting" \/ (conn'[c].state = "output" /\ conn'[c].at = "begin")
  BY RequestMoves DEF Onward
<1>2. conn[c].req \in Requests /\ conn[c].called = FALSE /\ conn[c].sent = <<>>
  BY <1>1, Known DEF Reading, Slot
<1>3. CASE conn'[c].state = "waiting"
  <2>1. conn'[c].called = FALSE /\ conn'[c].sent = <<>>
    BY <1>3 DEF IInv, Slots, Kept, Reading, Slot, Typed
  <2> QED BY <1>1, <1>2, <1>3, <2>1 DEF Service!service
<1>4. CASE conn'[c].state = "output" /\ conn'[c].at = "begin"
  <2> DEFINE v == conn'[c]
  <2>1. v \in Slot /\ v.sent = <<>> /\ v.req \in Requests /\ Decided(v)
    BY <1>4 DEF IInv, Slots, Kept, Answering, Typed
  <2>2. v.called => v.seen = Body(c, v.req) /\ v.requestType = v.req.method
    BY DEF IInv, Slots, Kept, Own
  <2>3. Promised(c)' = ReplyOf(c, v.statusCode, Heads(v), v.called)
    BY DEF Promised, Heads
  <2>4. /\ v.called => Promised(c)' \in Accepts(c, v.req)
        /\ ~v.called => Promised(c)' \in Refusals(c, v.req)
    BY <2>1, <2>3, DecidedAnswer
  <2>5. CASE v.called
    <3>1. Service(c)!Call
      BY <1>1, <1>2, <1>4, <2>1, <2>2, <2>4, <2>5 DEF Service!Call, Given
    <3> QED BY <3>1 DEF Service!Next
  <2>6. CASE ~v.called
    <3>1. Service(c)!Refuse
      BY <1>1, <1>2, <1>4, <2>1, <2>4, <2>6 DEF Service!Refuse
    <3> QED BY <3>1 DEF Service!Next
  <2> QED BY <2>5, <2>6
<1> QED BY <1>1, <1>3, <1>4

(* While the response is made nothing is seen of it, until it has been     *)
(* delivered and the connection is closed.                                 *)
LEMMA ResponseServes ==
    ASSUME IInv, IInv', NEW c \in Conns, handleResponse(c)
    PROVE  [Service(c)!Next]_(Service(c)!service)
<1>1. conn[c].state = "output" /\ Unmoved(conn'[c], conn[c])
  BY ResponseMoves
<1>2. Promised(c)' = Promised(c)
  BY <1>1, UnmovedPromise
<1>3. CASE conn'[c].state = "output"
  BY <1>1, <1>2, <1>3 DEF Unmoved, Alike, Service!service
<1>4. CASE conn'[c].state = "closed"
  <2>1. conn'[c].sent = Reply(c)' /\ conn'[c].at # "begin"
    BY <1>4 DEF IInv, Slots, Kept, Answering
  <2>2. Reply(c)' = Promised(c)'
    BY <2>1 DEF Reply, Promised
  <2>3. Service(c)!Finish
    BY <1>1, <1>2, <1>4, <2>1, <2>2 DEF Unmoved, Alike, Service!Finish
  <2> QED BY <2>3 DEF Service!Next
<1> QED BY <1>1, <1>3, <1>4 DEF Unmoved

LEMMA AckedServes ==
    ASSUME IInv, IInv', NEW c \in Conns, Acked(c)
    PROVE  [Service(c)!Next]_(Service(c)!service)
<1> DEFINE s == conn[c]
           R == Reply(c)
           x == s.sent
           y == s.outbuf
<1>t. Typed /\ s \in Slot /\ Free(c) /\ Reading(c) /\ Answering(c)
  BY Known
<1>1. s.state = "output" /\ s.at # "begin"
  BY <1>t DEF Acked, Free, Reading, Answering, Slot
<1>2. /\ x \in Seq(Pieces) /\ y \in Seq(Pieces) /\ R \in Seq(Pieces) /\ Len(R) \in Nat
      /\ \E k \in 0 .. Len(R) : Got(c) = SubSeq(R, 1, k)
  BY <1>1, GotSoFar
<1>3. PICK k \in 0 .. Len(R) : x \o y = SubSeq(R, 1, k)
  BY <1>2 DEF Got
<1>4. Len(x) <= k
  <2>1. Len(x \o y) = Len(x) + Len(y) /\ Len(x) \in Nat /\ Len(y) \in Nat
    BY <1>2, Joined
  <2>2. Len(SubSeq(R, 1, k)) = k
    <3>1. \A i \in 1 .. k : R[i] \in Pieces
      BY <1>2, <1>3, ElementOfSeq
    <3> QED BY <1>2, <1>3, <3>1, SubSeqProperties
  <2> DEFINE l == Len(x)
             m == Len(y)
  <2>3. l \in Nat /\ m \in Nat /\ l + m = k
    BY <1>3, <2>1, <2>2
  <2> HIDE DEF l, m
  <2>4. l <= k
    BY <2>3
  <2> QED BY <2>4 DEF l
<1>5. conn'[c] = [s EXCEPT !.unacked = FALSE, !.sent = @ \o s.outbuf, !.outbuf = <<>>]
  BY <1>t, Became DEF Acked
<1>6. /\ conn'[c].sent = x \o y /\ conn'[c].state = s.state /\ conn'[c].at = s.at
      /\ conn'[c].req = s.req /\ conn'[c].called = s.called /\ conn'[c].seen = s.seen
      /\ conn'[c].requestType = s.requestType /\ conn'[c].statusCode = s.statusCode
      /\ conn'[c].numOfResponseHeaders = s.numOfResponseHeaders
  BY <1>t, <1>5 DEF Slot
<1>7. Promised(c) = R /\ Promised(c)' = R
  BY <1>1, <1>6 DEF Promised, Reply
<1>8. k \in Len(x) .. Len(R)
  <2>1. Len(x) \in Nat
    BY <1>2, LenProperties
  <2> QED BY <1>2, <1>3, <1>4, <2>1
<1> HIDE DEF R, x, y
<1>9. Service(c)!Deliver
  BY <1>1, <1>3, <1>6, <1>7, <1>8 DEF Service!Deliver, x
<1> QED BY <1>9 DEF Service!Next

LEMMA EventServes ==
    ASSUME IInv, IInv', NEW c \in Conns, Event(c)
    PROVE  [Service(c)!Next]_(Service(c)!service)
<1>t. Typed /\ conn[c] \in Slot /\ Free(c) /\ Reading(c)
  BY Known
<1>n. /\ FreeSlot.state = "free" /\ FreeSlot.called = FALSE /\ FreeSlot.sent = <<>>
  BY DEF FreeSlot
<1>1. ASSUME NEW r \in Requests, Connect(c, r) PROVE Service(c)!Connect
  <2>1. conn[c].state = "free" /\ conn'[c] = [FreeSlot EXCEPT !.state = "waiting", !.req = r]
    BY <1>t, <1>1, Became DEF Connect
  <2>2. /\ conn'[c].state = "waiting" /\ conn'[c].req = r /\ conn'[c].called = FALSE
        /\ conn'[c].sent = <<>>
    BY <2>1 DEF FreeSlot
  <2>3. conn[c].called = FALSE /\ conn[c].sent = <<>>
    BY <1>t, <2>1 DEF Free, Slot
  <2> QED BY <2>1, <2>2, <2>3 DEF Service!Connect
<1>2. ASSUME Arrives(c) PROVE UNCHANGED Service(c)!service
  <2>1. PICK n \in 1 .. Len(Tokens(conn[c].req)) : Segment(c, n)
    BY <1>2 DEF Arrives
  <2>2. conn[c].state = "waiting" /\ conn'[c] = [conn[c] EXCEPT !.arrived = @ + n]
    BY <1>t, <2>1, Became DEF Segment
  <2>3. /\ conn'[c].state = conn[c].state /\ conn'[c].req = conn[c].req
        /\ conn'[c].called = conn[c].called /\ conn'[c].sent = conn[c].sent
        /\ conn'[c].requestType = conn[c].requestType /\ conn'[c].seen = conn[c].seen
    BY <1>t, <2>2 DEF Slot
  <2> QED BY <2>2, <2>3 DEF Service!service
<1>3. ASSUME Closed(c) \/ Aborted(c) PROVE Service(c)!Leave
  <2>1. conn[c].state # "free" /\ conn'[c] = FreeSlot
    BY <1>t, <1>3, Became DEF Closed, Aborted, Release
  <2> QED BY <1>n, <2>1 DEF Service!Leave, Service!Untouched
<1> QED BY <1>1, <1>2, <1>3, AckedServes DEF Event, Service!Next

LEMMA Serves ==
    ASSUME IInv, IInv', [Next]_vars, NEW c \in Conns
    PROVE  [Service(c)!Next]_(Service(c)!service)
<1>1. CASE UNCHANGED vars
  BY <1>1, SameView DEF vars
<1>2. ASSUME NEW d \in Conns, Event(d) \/ handleRequest(d) \/ handleResponse(d), d # c
      PROVE  UNCHANGED Service(c)!service
  BY <1>2, OthersStay, SameView DEF IInv
<1>3. CASE Event(c) \/ handleRequest(c) \/ handleResponse(c)
  BY <1>3, EventServes, RequestServes, ResponseServes
<1> QED BY <1>1, <1>2, <1>3 DEF Next

LEMMA NobodyYet ==
    ASSUME Init, NEW c \in Conns
    PROVE  Service(c)!Init
BY DEF Init, FreeSlot, Service!Init, Service!Untouched

(* To every client the server is one that serves it alone: what it asks is *)
(* decided on once, its application is called at most once and before      *)
(* anything is sent, and what is sent is what was decided on, from its     *)
(* beginning; whatever else is asked and answered in between.              *)
THEOREM ServesEachAlone ==
    ASSUME Undisturbed
    PROVE  Spec => ServiceSpec
<1>1. Init => \A c \in Conns : Service(c)!Init
  BY NobodyYet
<1>2. IInv /\ IInv' /\ [Next]_vars => [\A c \in Conns : [Service(c)!Next]_(Service(c)!service)]_vars
  BY Serves
<1> QED BY <1>1, <1>2, Invariant, PTL DEF Spec, ServiceSpec

(* The same for one client: the server implements HttpService for it.      *)
THEOREM ServesAlone ==
    ASSUME Undisturbed, NEW c \in Conns
    PROVE  Spec => Service(c)!Spec
<1>1. Init => Service(c)!Init
  BY NobodyYet
<1>2. IInv /\ IInv' /\ [Next]_vars => [Service(c)!Next]_(Service(c)!service)
  BY Serves
<1> QED BY <1>1, <1>2, Invariant, PTL DEF Spec, Service!Spec
===============================================================================
