------------------------------ MODULE Message -------------------------------
(***************************************************************************)
(* What lies between the socket and a handler: the stream buffer, the      *)
(* request target, header fields, cookies and the body.  Each part is read *)
(* after the one before and shares nothing with it but the position in the *)
(* stream, so a behaviour follows one part; v1 .. v11 are its variables, 0 *)
(* those it has no use for.                                                *)
(***************************************************************************)
EXTENDS Naturals, Sequences

CONSTANTS OutputSize, InputSize, MaxChars, MaxFailures,     \* Streambuf's
          Paths, Parameters, Raw, PathLimit,                \* Url's
          FieldNames, FieldValues, MaxFields, NameLimit, ValueLimit, \* HeaderParser's
          CookieNames, CookieValues, MaxCookies, LineLimit, \* Cookie's
          Contents, Buffers, Width, SizeChars               \* Body's

VARIABLES part, v1, v2, v3, v4, v5, v6, v7, v8, v9, v10, v11

messageVars == <<part, v1, v2, v3, v4, v5, v6, v7, v8, v9, v10, v11>>

Stream == INSTANCE Streambuf WITH
  buffer <- v1, pptr <- v2, sending <- v3, wire <- v4, written <- v5, arrived <- v6, get <- v7,
  taken <- v8, failures <- v9, readFailures <- v10, late <- v11

Target == INSTANCE Url WITH
  sent <- v1, target <- v2, part <- v3, token <- v4, it <- v5, text <- v6, key <- v7, path <- v8,
  parameters <- v9, state <- v10

Headers == INSTANCE HeaderParser WITH
  Names <- FieldNames, Values <- FieldValues,
  fields <- v1, input <- v2, pos <- v3, mode <- v4, token <- v5, lws <- v6, result <- v7

Cookies == INSTANCE Cookie WITH
  Names <- CookieNames, Values <- CookieValues,
  jar <- v1, side <- v2, unwritten <- v3, lines <- v4, parsed <- v5, unread <- v6, state <- v7

Bodies == INSTANCE Body WITH
  framing <- v1, body <- v2, wire <- v3, cut <- v4, pos <- v5, state <- v6, remain <- v7,
  eofSeen <- v8, out <- v9, verdict <- v10

ASSUME MessageAssumption ==
  /\ Stream!StreambufAssumption /\ Target!UrlAssumption /\ Headers!HeaderAssumption
  /\ Cookies!CookieAssumption /\ Bodies!BodyAssumption

MessageInit ==
  \/ part = "stream" /\ Stream!Init
  \/ part = "target" /\ Target!Init /\ v11 = 0
  \/ part = "headers" /\ Headers!Init /\ v8 = 0 /\ v9 = 0 /\ v10 = 0 /\ v11 = 0
  \/ part = "cookies" /\ Cookies!Init /\ v8 = 0 /\ v9 = 0 /\ v10 = 0 /\ v11 = 0
  \/ part = "body" /\ Bodies!Init /\ v11 = 0

MessageNext ==
  \/ part = "stream" /\ Stream!Next /\ UNCHANGED part
  \/ part = "target" /\ Target!Next /\ UNCHANGED <<part, v11>>
  \/ part = "headers" /\ Headers!Next /\ UNCHANGED <<part, v8, v9, v10, v11>>
  \/ part = "cookies" /\ Cookies!Next /\ UNCHANGED <<part, v8, v9, v10, v11>>
  \/ part = "body" /\ Bodies!Next /\ UNCHANGED <<part, v11>>

MessageSpec == MessageInit /\ [][MessageNext]_messageVars
-----------------------------------------------------------------------------
\* What the peer gets of the characters written, and the reader of those that arrived, when reads
\* and writes are partial and may throw: Streambuf's properties.
StreamDelivers == part = "stream" =>
  /\ Stream!TypeOK /\ Stream!SentInOrder /\ Stream!PrefixUntilLate /\ Stream!ResentOncePerFailure
  /\ Stream!LostOncePerFailure /\ Stream!ReadInOrder

\* A request target is decoded as it was encoded, and refused if and only if it is malformed or too
\* long; what the reader finds behind its end changes nothing: Url's properties.
TargetDecoded == part = "target" =>
  /\ Target!TypeOK /\ Target!StaysInRange /\ Target!UnknownUnused
  /\ Target!RefusedIfMalformed /\ Target!ReadAsEncoded

\* Header fields are read as they are meant and to their end, and refused only for the length of a
\* value: HeaderParser's properties.
HeadersMeant == part = "headers" =>
  Headers!TypeOK /\ Headers!HeadersInSync /\ Headers!RefusedForLength

\* A server reads the cookies a client has, or refuses them for their length; a client keeps one of
\* those a server sets: Cookie's properties.
CookiesKept == part = "cookies" => Cookies!TypeOK /\ Cookies!RequestRoundTrip /\ Cookies!OnlyLastIsKept

\* A body that ends is whole, one that was cut fails or is shorter, one with a chunk too long is
\* refused, and what is left of the input is known; http_client's chunks are not read as they were
\* written: Body's properties.
BodyWhole == part = "body" =>
  /\ Bodies!TypeOK /\ Bodies!ReadsPrefix /\ Bodies!EndIsWhole /\ Bodies!FailsWhenCut
  /\ Bodies!LeftOver /\ Bodies!ClientChunkWrong
=============================================================================
