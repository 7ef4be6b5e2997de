-------------------------------- MODULE Body --------------------------------
(***************************************************************************)
(* How a message body crosses a connection: chunked_encoder on one side,   *)
(* chunked_decoder or limit_length_filter on the other, and the number     *)
(* helpers they use.  The peer may close at any byte.                      *)
(*                                                                         *)
(* A body is written in pieces and read with buffers of any size.  Bytes   *)
(* are the characters the decoder tells apart, in a body too: digits, line *)
(* ends and "x", which no number has in it.                                *)
(***************************************************************************)
EXTENDS Integers, Sequences, SequencesExt

CONSTANTS Contents,   \* what is written: sequences of pieces
          Buffers,    \* the sizes the reader asks for
          Width,      \* bits of std::streamsize: 64
          SizeChars   \* the characters chunked_decoder reads of a size, its line end included: 10

\* to_hex's digits; the bytes.
HexDigits == <<"0", "1", "2", "3", "4", "5", "6", "7", "8", "9", "A", "B", "C", "D", "E", "F">>
Bytes == ToSet(HexDigits) \cup {"cr", "lf", "x"}

\* The least length with more digits than are read.
TooLong == 2^(4 * (SizeChars - 2))

\* What the constants satisfy; assumed where they are given values.
BodyAssumption == /\ Contents \subseteq Seq(Seq(Bytes) \ {<<>>}) /\ Buffers \subseteq Nat \ {0}
                  /\ Width \in Nat \ {0} /\ Width % 8 = 0
                  \* a size that is read fits the type
                  /\ SizeChars \in Nat /\ SizeChars >= 3 /\ 4 * (SizeChars - 2) < Width
                  \* a body's length is a std::streamsize
                  /\ \A pieces \in Contents : Len(FlattenSeq(pieces)) < 2^(Width - 1)

VARIABLES framing,  \* who wrote the body and how it is delimited
          body,     \* the bytes written
          wire,     \* the bytes that arrive
          cut,      \* the peer closed before the last one
          pos,      \* the bytes read
          state, remain, eofSeen, \* chunked_decoder's; limit_length_filter has remain only
          out,      \* what the reader got
          verdict   \* how reading ended

vars == <<framing, body, wire, cut, pos, state, remain, eofSeen, out, verdict>>

Crlf == <<"cr", "lf">>

(***************************************************************************)
(* to_hex: four bits at a time, from the digits (the value bits) of the    *)
(* type on, leading zeros left out.                                        *)
(***************************************************************************)
Nibbles(n, digits) == [k \in 1 .. digits \div 4 |-> HexDigits[((n \div 2^(digits - 4 * k)) % 16) + 1]]
LeadingZeros(s) == CHOOSE z \in 0 .. Len(s) : /\ \A k \in 1 .. z : s[k] = "0"
                                              /\ (z = Len(s) \/ s[z + 1] # "0")
ToHex(n, digits) == SubSeq(Nibbles(n, digits), LeadingZeros(Nibbles(n, digits)) + 1, digits \div 4)

\* to_integer with base 16; std::stoll throws when there is no number.  That it also skips white
\* space and "0x" in front matters to no encoder: only a client's chunk misread could begin so.
Value(c) == CHOOSE i \in 0..15 : HexDigits[i + 1] = c
IsHex(s) == s # <<>> /\ \A i \in DOMAIN s : s[i] \in ToSet(HexDigits)
ToInteger(s) == LET value[i \in 0 .. Len(s)] == IF i = 0 THEN 0 ELSE 16 * value[i - 1] + Value(s[i])
                IN value[Len(s)]

\* The encoder casts the length to an unsigned type; the client does not.
Chunk(piece, digits) == ToHex(Len(piece), digits) \o Crlf \o piece \o Crlf

LastChunk == <<"0">> \o Crlf \o Crlf

Encode(f, pieces) ==
  CASE f = "length"  -> FlattenSeq(pieces)
    [] f = "chunked" -> FlattenSeq([i \in DOMAIN pieces |-> Chunk(pieces[i], Width)]) \o LastChunk
    [] f = "client"  -> IF pieces = <<>> THEN LastChunk
                        ELSE Chunk(FlattenSeq(pieces), Width - 1) \o LastChunk

Init == \E f \in {"length", "chunked", "client"}, pieces \in Contents :
          LET full == Encode(f, pieces)
          IN /\ framing = f /\ body = FlattenSeq(pieces)
             /\ \E n \in 0..Len(full) : wire = SubSeq(full, 1, n) /\ cut = (n < Len(full))
             /\ pos = 0 /\ state = "size" /\ eofSeen = FALSE
             /\ remain = IF f = "length" THEN Len(FlattenSeq(pieces)) ELSE 0
             /\ out = <<>> /\ verdict = "reading"

Reading == verdict = "reading"
Available == Len(wire) - pos
Upto(a, b) == IF a < b THEN a ELSE b
Fail == verdict' = "failed" /\ UNCHANGED <<pos, state, remain, eofSeen, out>>
FrameKept == UNCHANGED <<framing, body, wire, cut>>

(***************************************************************************)
(* chunked_decoder::read, by its states.                                   *)
(***************************************************************************)
AfterChunk(from, char, to) ==
  /\ Reading /\ framing # "length" /\ state = from
  /\ IF Available = 0 \/ wire[pos + 1] # char THEN Fail
     ELSE /\ pos' = pos + 1 /\ state' = to
          /\ UNCHANGED <<remain, eofSeen, out, verdict>>
  /\ FrameKept

\* The line with the size, as far as it is read.
SizeLine == SubSeq(wire, pos + 1, Upto(pos + SizeChars, Len(wire)))
LineEnds == {n \in 1..(Len(SizeLine) - 1) : SubSeq(SizeLine, n, n + 1) = Crlf}
Size ==
  /\ Reading /\ framing # "length" /\ state = "size"
  /\ LET n == CHOOSE x \in LineEnds : \A y \in LineEnds : x <= y
         digits == SubSeq(SizeLine, 1, n - 1)
     IN IF LineEnds = {} THEN Fail
        ELSE IF ~IsHex(digits) THEN Fail
        ELSE /\ pos' = pos + n + 1 /\ state' = "chunk"
             /\ remain' = ToInteger(digits) /\ eofSeen' = (ToInteger(digits) = 0)
             /\ UNCHANGED <<out, verdict>>
  /\ FrameKept

NextState(left) == IF left = 0 THEN "cr_after_chunk" ELSE "chunk"

\* Mutant of Amount: the reader's buffer is filled
AmountUnlimited(buffer) == Upto(buffer, Available)

Amount(buffer) == Upto(Upto(remain, buffer), Available)

\* n bytes of the chunk; none, after the last one, is the end for the stream above.
ReadChunk(buffer) ==
  /\ Reading /\ framing # "length" /\ state = "chunk"
  /\ LET n == Amount(buffer)
     IN IF remain > 0 /\ Available = 0 THEN Fail
        ELSE /\ pos' = pos + n /\ remain' = remain - n /\ state' = NextState(remain - n)
             /\ out' = out \o SubSeq(wire, pos + 1, pos + n)
             /\ verdict' = IF n = 0 THEN "end" ELSE verdict
             /\ UNCHANGED eofSeen
  /\ FrameKept

LengthLeft(n) == remain - n

\* limit_length_filter::read: the end of the input is the end of the body.
ReadLength(buffer) ==
  /\ Reading /\ framing = "length"
  /\ LET n == Amount(buffer)
     IN /\ verdict' = IF n = 0 THEN "end" ELSE verdict
        /\ pos' = pos + n /\ remain' = LengthLeft(n)
        /\ out' = out \o SubSeq(wire, pos + 1, pos + n)
        /\ UNCHANGED <<state, eofSeen>>
  /\ FrameKept

Next == \/ AfterChunk("cr_after_chunk", "cr", "lf_after_chunk")
        \/ AfterChunk("lf_after_chunk", "lf", "size")
        \/ Size
        \/ \E b \in Buffers : ReadChunk(b) \/ ReadLength(b)

Spec == Init /\ [][Next]_vars
-----------------------------------------------------------------------------
TypeOK == /\ pos \in 0..Len(wire) /\ remain \in Nat /\ eofSeen \in BOOLEAN
          /\ state \in {"size", "chunk", "cr_after_chunk", "lf_after_chunk"}
          /\ verdict \in {"reading", "end", "failed"}

\* Whatever the pieces, the buffers and the cut, the reader gets the bytes written, in order.
ReadsPrefix == framing # "client" => IsPrefix(out, body)

\* A chunked body that ends is whole: a cut is never taken for the end.  A body of announced
\* length that was cut ends all the same.
EndIsWhole == verdict = "end" /\ framing # "client" =>
                out = body \/ (framing = "length" /\ cut)

\* Only a cut makes reading fail, or chunks with more digits than the decoder reads.
FailsWhenCut == verdict = "failed" => \/ cut \/ framing = "client"
                                      \/ framing = "chunked" /\ Len(body) >= TooLong

\* At the end of a chunked body its last line end is still to be read: the connection is not
\* ready for another message.  After a body of announced length it is.
LeftOver == verdict = "end" /\ ~cut /\ framing # "client" =>
              SubSeq(wire, pos + 1, Len(wire)) = IF framing = "chunked" THEN Crlf ELSE <<>>

\* http_client announces its chunk with a length shifted by three bits (to_hex of a signed
\* number): no chunked request of the client is read back as it was written, the empty one
\* excepted.
ClientChunkWrong == framing = "client" /\ verdict = "end" => (out = body) = (body = <<>>)
=============================================================================
