---------------------------- MODULE MCHttpServer ----------------------------
(***************************************************************************)
(* HttpServer for TLC: a small set of requests that between them take      *)
(* every branch.                                                           *)
(***************************************************************************)
EXTENDS HttpServer

Get == [method |-> "get", body |-> "none", expect |-> "none", keep |-> TRUE, form |-> "good"]
Post == [Get EXCEPT !.method = "post", !.body = "length"]

\* Requests of a client that keeps the connection and posts.
PostRequests == {Get,
                 [Get EXCEPT !.method = "head"],
                 [Post EXCEPT !.expect = "continue"],
                 [Post EXCEPT !.body = "chunked"],
                 [Post EXCEPT !.body = "huge", !.expect = "continue"],
                 [Post EXCEPT !.body = "negative", !.expect = "continue"],
                 [Post EXCEPT !.body = "negativeChunked"]}

\* Requests that are refused at one place or another.
OddRequests == {[Get EXCEPT !.keep = FALSE],
                [Get EXCEPT !.form = "nohost"],
                [Get EXCEPT !.method = "head", !.form = "malformed"],
                [Get EXCEPT !.method = "other"],
                [Post EXCEPT !.expect = "unknown"],
                [Post EXCEPT !.body = "hugeChunked"]}

SomeRequests == PostRequests \cup OddRequests
=============================================================================
