----------------------------- MODULE HttpServer -----------------------------
(***************************************************************************)
(* http_server.hpp and http_server_context.hpp: the loop that serves the   *)
(* requests of one connection, its error paths, the framing of requests    *)
(* and responses.                                                          *)
(*                                                                         *)
(* A request is a record that tells what the code distinguishes.  It comes *)
(* as tokens (its head, its body), a response goes out as tokens to a      *)
(* client that knows which requests it has sent and waits for "100         *)
(* Continue" when it announced so.  A handler is anything on_get or        *)
(* on_post may do.  Bytes and header texts are left out.                   *)
(***************************************************************************)
EXTENDS Naturals, Sequences

CONSTANTS Requests,   \* the requests a client may send: a subset of RequestType
          MaxSent,    \* bound on the requests of the client
          MaxParts,   \* bound on the pieces of a chunked response
          MaximumKeepAlive, \* maximum_keep_alive_requests
          None        \* no request

RequestType == [method: {"get", "head", "post", "other"},
                body:   {"none", "length", "chunked",
                         "huge", "hugeChunked",          \* over the maximum
                         "negative", "negativeChunked"}, \* of a length or size below zero
                expect: {"none", "continue", "unknown"},
                keep:   BOOLEAN,                      \* no "Connection: close"
                form:   {"good", "malformed", "nohost"}]

ASSUME HttpAssumption == /\ Requests \subseteq RequestType /\ None \notin Requests
                         /\ MaxSent \in Nat /\ MaxParts \in Nat
                         /\ MaximumKeepAlive \in Nat \ {0}  \* with 0 the loop serves nothing

VARIABLES
  sent,      \* the requests the client has begun to send
  toSend,    \* tokens of the last one still to be sent
  input,     \* tokens sent and not yet read by the server
  eof,       \* the client has closed its side
  pc, r,     \* the server: where it is, the request it serves
  count,     \* keep_alive_count
  keepAlive, \* keep_alive
  res,       \* the response: what write_headers has announced
  parts,     \* pieces of the body written
  buf,       \* tokens in the put area of the stream
  client,    \* what the client has understood
  written,   \* what it will have understood when it gets the put area, too
  announced, \* history: max= of the last head written, 0 for Connection: close
  inPage,    \* the handler was called for the error page
  served,    \* the requests whose head was read
  interrupted, \* history: a handler was interrupted
  torn,      \* history: a handler got a body cut short
  faulty,    \* history: a handler did not write the answer it announced, or announced none
  stray,     \* history: a chunked answer to a HEAD request
  held       \* the client keeps a call of the server from returning

request == <<sent, toSend, input, eof>>
history == <<interrupted, torn, faulty, stray>>
response == <<res, parts, announced>>
server == <<r, served, count, keepAlive, inPage, response>>
stream == <<buf, written>>
vars == <<request, pc, server, stream, client, history, held>>

Places == {"peek", "body", "dispatch", "handler", "writing", "error", "undocumented", "null", "unwind",
           "finish", "closed", "crashed"}
Framings == {"none", "empty", "length", "chunked", "close"}

Tokens(q) == CASE q.body = "none"        -> <<"head">>
               [] q.body = "length"      -> <<"head", "body">>
               [] q.body = "huge"        -> <<"head", "body">>
               [] q.body = "chunked"     -> <<"head", "chunk", "last">>
               [] q.body = "hugeChunked" -> <<"head", "hugeChunk", "last">>
               [] q.body = "negative"    -> <<"head">>   \* nothing is read of such a body
               [] q.body = "negativeChunked" -> <<"head", "negative", "last">>

Init == /\ sent = <<>> /\ toSend = <<>> /\ input = <<>> /\ eof = FALSE
        /\ pc = "peek" /\ r = None /\ count = MaximumKeepAlive /\ keepAlive = FALSE
        /\ res = "none" /\ parts = 0 /\ announced = 0
        /\ buf = <<>> /\ client = [answered |-> 0, in |-> "idle", interim |-> FALSE] /\ written = client
        /\ interrupted = FALSE /\ torn = FALSE /\ faulty = FALSE /\ stray = FALSE
        /\ held = FALSE
        /\ served = 0 /\ inPage = FALSE

(***************************************************************************)
(* The client.  It may send requests before it has read the answers.       *)
(***************************************************************************)
WaitsForContinue == /\ toSend # <<>> /\ Head(toSend) # "head"
                    /\ sent[Len(sent)].expect = "continue"
                    /\ client.answered < Len(sent) /\ ~client.interim

SendRequest(q) == /\ toSend = <<>> /\ Len(sent) < MaxSent /\ ~eof
                  /\ sent' = Append(sent, q)
                  /\ toSend' = Tokens(q)
                  /\ UNCHANGED <<input, eof, pc, server, stream, client, history>>

SendToken == /\ toSend # <<>> /\ ~WaitsForContinue /\ ~eof
             /\ input' = Append(input, Head(toSend)) /\ toSend' = Tail(toSend)
             /\ UNCHANGED <<sent, eof, pc, server, stream, client, history>>

ClientCloses == /\ ~eof /\ eof' = TRUE
                /\ UNCHANGED <<sent, toSend, input, pc, server, stream, client, history>>

\* How the client reads one token of the responses.
Answer(c) == [answered |-> c.answered + 1, in |-> "idle", interim |-> FALSE]
Receive(c, t) ==
  CASE c.in = "close" -> c
    [] c.in = "idle" /\ t = "continue" -> [c EXCEPT !.interim = TRUE]
    [] c.in = "idle" /\ c.answered < Len(sent) /\ t \in Framings \ {"none"} ->
         IF t = "empty" \/ sent[c.answered + 1].method = "head" THEN Answer(c)
         ELSE [c EXCEPT !.in = t]
    [] c.in = "length" /\ t = "part" -> Answer(c)
    [] c.in = "chunked" /\ t = "part" -> c
    [] c.in = "chunked" /\ t = "end" -> Answer(c)
    [] OTHER -> [c EXCEPT !.in = "confused"]

\* A token goes to the put area, which may reach the client at any time, and does when it is
\* flushed.
Write(t) == buf' = Append(buf, t) /\ written' = Receive(written, t)

(***************************************************************************)
(* A timeout is that of one read or write, and nothing limits the fields   *)
(* of a head or the length of a value that is ignored: a client that sends *)
(* a character now and then keeps the server reading.  Over TLS a call of  *)
(* several steps has no timeout any more once its cancel() fell between    *)
(* two of them.  Such a call may return or not.                            *)
(***************************************************************************)
Hold == /\ ~held /\ ~eof
        /\ pc \in {"peek", "body", "handler", "writing", "null", "unwind", "finish"}
        /\ held' = TRUE
        /\ UNCHANGED <<request, pc, server, stream, client, history>>

Overflow == /\ buf # <<>> /\ pc \notin {"closed", "crashed"}
            /\ client' = written /\ buf' = <<>>
            /\ UNCHANGED <<request, pc, server, written, history>>

(***************************************************************************)
(* Any read or write of the stream fails: a timeout, an error of the peer, *)
(* or interrupt(); or a length is no number, and std::stoll throws.  None  *)
(* of these exceptions is an http_exception: it leaves on_connected, and   *)
(* what is in the put area is lost.                                        *)
(***************************************************************************)
Close == pc' = "closed" /\ buf' = <<>> /\ written' = client

\* Mutant of StreamFails: a timeout is waited out
StreamRetries == pc \in {"peek", "body", "null", "finish"} /\ UNCHANGED vars

StreamFails == /\ pc \in {"peek", "body", "null", "finish"}
               /\ Close
               /\ UNCHANGED <<request, server, client, history>>

\* peek() == EOF is the regular end.
PeekEnd == /\ pc = "peek" /\ input = <<>> /\ eof
           /\ Close
           /\ UNCHANGED <<request, server, client, history>>

(***************************************************************************)
(* The request line and the headers.  The loop makes a new context: a      *)
(* response not yet begun.  Whatever is refused here is refused before     *)
(* keep_alive is set.                                                      *)
(***************************************************************************)
Accepts(q) == /\ q.form # "malformed"
              /\ q.method # "other"
              /\ q.method # "post" => q.body = "none"

\* A refusal is an http_exception.  Its status has a document in the configuration, or none.
Refusal == {"error", "undocumented"}

AfterHead(q) == IF ~Accepts(q) \/ q.body = "huge" THEN Refusal
                ELSE IF q.body \in {"none", "negative"} THEN {"dispatch"} ELSE {"body"}

Interim(q) == q.form # "malformed" /\ q.method = "post" /\ q.expect = "continue"

\* Mutant of SendContinue: the interim response is not flushed
SendContinueUnflushed(q) == /\ IF Interim(q) THEN Write("continue") ELSE UNCHANGED stream
                            /\ UNCHANGED client

SendContinue(q) == IF Interim(q) THEN written' = Receive(written, "continue") /\ client' = written' /\ buf' = <<>>
                   ELSE UNCHANGED <<stream, client>>

\* Mutant of ReadHead: keep_alive is set before the body is read
ReadHeadKeepsAlive ==
  LET q == sent[served + 1]
  IN /\ pc = "peek" /\ input # <<>>
     /\ input' = Tail(input)
     /\ r' = q /\ served' = served + 1
     /\ res' = "none" /\ parts' = 0 /\ announced' = 0 /\ keepAlive' = q.keep /\ inPage' = FALSE
     /\ SendContinue(q)
     /\ pc' \in AfterHead(q)
     /\ UNCHANGED <<sent, toSend, eof, count, history>>

ReadHead ==
  LET q == sent[served + 1]
  IN /\ pc = "peek" /\ input # <<>>
     /\ input' = Tail(input)
     /\ r' = q /\ served' = served + 1
     /\ res' = "none" /\ parts' = 0 /\ announced' = 0 /\ keepAlive' = FALSE /\ inPage' = FALSE
     /\ SendContinue(q)
     /\ pc' \in AfterHead(q)
     /\ UNCHANGED <<sent, toSend, eof, count, history>>

(***************************************************************************)
(* The body, into request_stream_.  A body of announced length is copied   *)
(* with stream buffer iterators, which do not notice the end of the input: *)
(* when the peer closes, the rest is filled up and the handler runs.  In a *)
(* chunked body get() does notice.  A chunk of negative size is read as an *)
(* empty one and lowers the total that is compared with the maximum; the   *)
(* token "negative" is one and another of any size after it.               *)
(***************************************************************************)
AfterPart(t) == CASE t \in {"body", "last"}      -> {"dispatch"}
                  [] t \in {"chunk", "negative"} -> {"body"}
                  [] OTHER                       -> Refusal
ReadBody == /\ pc = "body" /\ input # <<>>
            /\ input' = Tail(input)
            /\ pc' \in AfterPart(Head(input))
            /\ UNCHANGED <<sent, toSend, eof, server, stream, client, history>>

AtEof(q) == IF q.body = "length" THEN "dispatch" ELSE "closed"
BodyEnds == /\ pc = "body" /\ input = <<>> /\ eof
            /\ pc' = AtEof(r)
            /\ torn' = (AtEof(r) = "dispatch")
            /\ IF AtEof(r) = "closed" THEN Close ELSE UNCHANGED stream
            /\ UNCHANGED <<request, server, client, interrupted, faulty, stray>>

\* keep_alive is set; then validate_headers.
Dispatch == /\ pc = "dispatch"
            /\ keepAlive' = r.keep
            /\ pc' \in IF r.form = "nohost" \/ r.expect = "unknown" THEN Refusal ELSE {"handler"}
            /\ UNCHANGED <<request, r, served, count, inPage, response, stream, client, history>>

(***************************************************************************)
(* write_headers: without a length the body is chunked if the connection   *)
(* is kept, and ends with the connection otherwise.  Called a second time  *)
(* it writes a second head and then throws: the chain is complete.         *)
(***************************************************************************)
Framing(f) == IF f # "chunked" THEN f ELSE IF keepAlive THEN "chunked" ELSE "close"

\* Mutant of WriteHeaders: the requests left are announced without this one
WriteHeadersFewer(f) == /\ Write(Framing(f))
                        /\ announced' = IF keepAlive THEN count - 1 ELSE 0
                        /\ res' = Framing(f)
                        /\ parts' = 0

WriteHeaders(f) == /\ Write(Framing(f))
                   /\ announced' = IF keepAlive THEN count ELSE 0
                   /\ res' = Framing(f)
                   /\ parts' = 0

\* head is set when the request has been accepted: the page for a refused one has a body.
IsHead == r.method = "head" /\ Accepts(r)

HasBody == ~IsHead /\ (res \in {"chunked", "close"} \/ (res = "length" /\ parts = 0))

Begin(f, next) == /\ WriteHeaders(f)
                  /\ pc' = IF res = "none" THEN next ELSE "unwind"

\* A handler, or the one called for the error page, writes the headers, ...
HandlerHeaders(f) == /\ pc = "handler"
                     /\ Begin(f, "writing")
                     /\ UNCHANGED <<request, r, served, count, keepAlive, inPage, client, history>>

\* ... a piece of the body, ...
HandlerWrites == /\ pc = "writing" /\ HasBody /\ parts < MaxParts
                 /\ Write("part") /\ parts' = parts + 1
                 /\ UNCHANGED <<request, pc, r, served, count, keepAlive, inPage, res, announced,
                                client, history>>

\* ... or what does not belong there: a body where there is none, more than it announced, or the
\* rest after a write that failed (response_stream_ swallows exceptions), ...
HandlerWritesAmiss == /\ pc = "writing" /\ parts < MaxParts
                      /\ Write("garbage") /\ parts' = parts + 1
                      /\ faulty' = TRUE
                      /\ UNCHANGED <<request, pc, r, served, count, keepAlive, inPage, res, announced,
                                     client, interrupted, torn, stray>>

\* ... and returns, with the answer complete or not, ...
HandlerReturns == /\ pc = "writing"
                  /\ pc' = "finish"
                  /\ faulty' = (faulty \/ (res = "length" /\ HasBody))
                  /\ UNCHANGED <<request, server, stream, client, interrupted, torn, stray>>

\* ... or without write_headers, which leaves response_stream_ without a sink, ...
HandlerIsSilent == /\ pc = "handler" /\ res = "none"
                   /\ pc' = "finish"
                   /\ faulty' = TRUE
                   /\ UNCHANGED <<request, server, stream, client, interrupted, torn, stray>>

\* ... or throws an http_exception, or another one that is turned into status 500; while the
\* error page is made only the former is caught.
HandlerThrows(next) == /\ pc \in {"handler", "writing"}
                       /\ next \in IF inPage THEN {"null", "unwind"} ELSE Refusal
                       /\ pc' = next
                       /\ UNCHANGED <<request, server, stream, client, history>>

\* An interruption, which any call that times out reports as well, is not turned into an
\* answer: it leaves the loop.  Unwinding closes the chunked encoder, which writes.
Interrupted == /\ pc \in {"handler", "writing"}
               /\ interrupted' = TRUE
               /\ pc' = "unwind"
               /\ IF res = "chunked" THEN Write("end") ELSE UNCHANGED stream
               /\ UNCHANGED <<request, server, client, torn, faulty, stray>>
Unwind == /\ pc = "unwind"
          /\ Close
          /\ UNCHANGED <<request, server, client, history>>

(***************************************************************************)
(* The error page.  The condition on the configured document is inverted:  *)
(* where there is one the status has an empty answer, and where there is   *)
(* none the end of the map is dereferenced: the program crashes, or serves *)
(* the path it finds there.                                                *)
(***************************************************************************)
ErrorPage == /\ pc = "error"
             /\ pc' = "null"
             /\ UNCHANGED <<request, server, stream, client, history>>

NoErrorPage(outcome) == /\ pc = "undocumented"
                        /\ pc' = outcome /\ inPage' = TRUE
                        /\ UNCHANGED <<request, r, served, count, keepAlive, response, stream, client, history>>

NullContent == /\ pc = "null"
               /\ Begin("empty", "finish")
               /\ UNCHANGED <<request, r, served, count, keepAlive, inPage, client, history>>

\* finish_write and the end of the loop's body.
\* Mutant of Finished: the chunked encoder is not closed
FinishedOpen == written

Finished == IF res = "chunked" THEN Receive(written, "end") ELSE written
FinishWrite == /\ pc = "finish"
               /\ written' = Finished /\ client' = Finished /\ buf' = <<>>
               /\ stray' = (stray \/ (res = "chunked" /\ r.method = "head"))
               /\ count' = count - 1
               /\ pc' = IF keepAlive /\ count > 1 THEN "peek" ELSE "closed"
               /\ UNCHANGED <<request, r, served, keepAlive, inPage, response, interrupted, torn, faulty>>

Server == \/ StreamFails \/ PeekEnd \/ ReadHead \/ ReadBody \/ BodyEnds \/ Dispatch
          \/ \E f \in {"empty", "length", "chunked"} : HandlerHeaders(f)
          \/ HandlerWrites \/ HandlerWritesAmiss \/ HandlerReturns \/ HandlerIsSilent \/ Interrupted \/ Unwind
          \/ \E next \in {"error", "undocumented", "null", "unwind"} : HandlerThrows(next)
          \/ ErrorPage \/ \E outcome \in {"crashed", "handler"} : NoErrorPage(outcome)
          \/ NullContent \/ FinishWrite

\* A call that ends is not held any more.
Next == \/ (\E q \in Requests : SendRequest(q)) /\ UNCHANGED held
        \/ (SendToken \/ Overflow) /\ UNCHANGED held
        \/ Hold
        \/ (ClientCloses \/ Server) /\ held' = FALSE

\* Handlers return, and calls that nobody holds return or time out.
Spec == Init /\ [][Next]_vars /\ WF_vars(~held /\ Server /\ held' = FALSE)
-----------------------------------------------------------------------------
TypeOK == /\ sent \in Seq(Requests) /\ Len(sent) <= MaxSent /\ served \in 0..Len(sent)
          /\ r \in Requests \cup {None} /\ pc \in Places
          /\ count \in 0..MaximumKeepAlive /\ announced \in 0..MaximumKeepAlive
          /\ keepAlive \in BOOLEAN /\ inPage \in BOOLEAN /\ eof \in BOOLEAN /\ held \in BOOLEAN
          /\ res \in Framings /\ parts \in 0..MaxParts
          /\ client.in \in {"idle", "length", "chunked", "close", "confused"}

\* A chunked body reaches a handler complete or not at all.
ChunkedIsWhole == torn => r.body = "length"

\* The loop takes up the next request exactly where the last one ended: its body and its
\* trailers were read, whatever the answer was; and no handler got a part of a chunked body.
InputInSync == /\ pc = "peek" /\ input # <<>> => Head(input) = "head"
               /\ ChunkedIsWhole

\* When it does, the client has understood one whole response for every request.  Two known
\* exceptions: a chunked answer to HEAD ends with a chunk the client does not expect, and a
\* handler may leave out the head, write what it did not announce, or go on after a failed write.
AnsweredInOrder == pc = "peek" /\ ~stray /\ ~faulty =>
                     client = [answered |-> served, in |-> "idle", interim |-> FALSE]

\* The client and the server never wait for each other: if the client holds a body back until
\* it is told to continue, the server is not waiting for this body.
NoStandoff == ~(WaitsForContinue /\ pc \in {"peek", "body"} /\ input = <<>> /\ ~stray /\ ~faulty)

\* In every step: once a handler was interrupted no head is written any more, so stop() and
\* timeouts are not answered with an error page.
Silent == interrupted /\ buf' # buf => buf' \in {<<>>, Append(buf, "end")}

\* In every step: the connection goes on exactly if the response promised it and named more than
\* this one request.
EndsAsAnnounced == count' < count /\ res # "none" => (pc' = "peek") = (announced > 1)

\* How connections go on and end: both of the above, in every step.
EndsInOrder == [][Silent /\ EndsAsAnnounced]_vars

\* A connection ends, whatever the client sends or leaves undone, and its context is free; except
\* that a client holds one call for ever.
ConnectionEnds == []<>~held => <>(pc \in {"closed", "crashed"})
=============================================================================
