-------------------------- MODULE HttpServerProofs --------------------------
(***************************************************************************)
(* Proofs about HttpServer and the HeaderParser of Message. Whatever the   *)
(* requests, the handlers and the answers are, and however many requests a *)
(* connection serves, the loop reads each request exactly to its end       *)
(* before it takes up the next one, and it goes on or ends as the last     *)
(* answer announced. Whatever the header fields and the limits are, the    *)
(* parser reads them as they are meant, to their end.                      *)
(***************************************************************************)
EXTENDS HttpServer, BodyProofs

Token == {"head", "body", "chunk", "hugeChunk", "negative", "last"}

Size(q) == Len(Tokens(q))

(***************************************************************************)
(* Where a request ends is not marked in the input: it follows from which  *)
(* request it is.  own and pos say of each of the n tokens still to be     *)
(* read (all) which of the m requests of the client (snt) it belongs to,   *)
(* and which of its tokens it is; past the end they say what comes next.   *)
(***************************************************************************)
Marked(own, pos, all, n, snt, m) ==
  /\ own[n + 1] = m + 1 /\ pos[n + 1] = 1
  /\ \A i \in 1 .. n :
       /\ own[i] \in 1 .. m /\ pos[i] \in 1 .. Size(snt[own[i]])
       /\ all[i] = Tokens(snt[own[i]])[pos[i]]
       /\ IF pos[i] < Size(snt[own[i]]) THEN own[i + 1] = own[i] /\ pos[i + 1] = pos[i] + 1
                                        ELSE own[i + 1] = own[i] + 1 /\ pos[i + 1] = 1

Starts(k, p, all, n, snt, m) ==
  \E own, pos \in [Nat -> Nat] : Marked(own, pos, all, n, snt, m) /\ own[1] = k /\ pos[1] = p

\* What is still to be read begins with token p of request k.
From(k, p, all, snt) == Starts(k, p, all, Len(all), snt, Len(snt))

Unread == input \o toSend

\* A client that has sent a part of its last request has no other request waiting.
LastBegun == toSend # <<>> /\ Head(toSend) # "head" => served = Len(sent)

\* The next token is the first one of the next request, or there is none any more.
Aligned == From(served + 1, 1, Unread, sent) \/ (eof /\ input = <<>> /\ LastBegun)

\* What the client has still to send is of one request.
OneRequest == \A i \in 2 .. Len(toSend) : toSend[i] # "head"

SequencesOK == /\ sent \in Seq(Requests) /\ input \in Seq(Token) /\ toSend \in Seq(Token)
               /\ served \in 0 .. Len(sent)

AtWork == Places \ {"peek", "closed", "crashed"}

Sync == /\ pc \in AtWork => served > 0 /\ r = sent[served]
        /\ pc \in {"peek", "dispatch"} => Aligned
        /\ pc = "body" => \E p \in 2 .. Size(r) : From(served, p, Unread, sent)
        /\ pc \in AtWork \ {"body", "dispatch"} /\ keepAlive => Aligned
        /\ pc = "body" => ~torn /\ ~keepAlive
        /\ torn => eof /\ input = <<>> /\ r.body = "length"

IInv == SequencesOK /\ OneRequest /\ Sync

LEMMA TokensAre ==
  ASSUME NEW q \in RequestType
  PROVE  /\ Tokens(q) \in Seq(Token) /\ Size(q) \in 1 .. 3 /\ Tokens(q)[1] = "head"
         /\ \A p \in 2 .. Size(q) : Tokens(q)[p] # "head"
         /\ q.body \in {"none", "negative"} <=> Size(q) = 1
         /\ Size(q) >= 2 => (Tokens(q)[2] \in {"body", "last"} <=> Size(q) = 2)
         /\ Size(q) = 3 => Tokens(q)[2] # "last" /\ Tokens(q)[3] = "last"
<1>1. CASE q.body \in {"none", "negative"}
  <2>1. Tokens(q) = <<"head">>
    BY <1>1 DEF Tokens
  <2> QED BY <1>1, <2>1 DEF Token, Size
<1>2. CASE q.body \in {"length", "huge"}
  <2>1. Tokens(q) = <<"head", "body">>
    BY <1>2 DEF Tokens
  <2> QED BY <1>2, <2>1 DEF Token, Size
<1>3. CASE q.body = "chunked"
  <2>1. Tokens(q) = <<"head", "chunk", "last">>
    BY <1>3 DEF Tokens
  <2> QED BY <1>3, <2>1 DEF Token, Size
<1>4. CASE q.body = "hugeChunked"
  <2>1. Tokens(q) = <<"head", "hugeChunk", "last">>
    BY <1>4 DEF Tokens
  <2> QED BY <1>4, <2>1 DEF Token, Size
<1>5. CASE q.body = "negativeChunked"
  <2>1. Tokens(q) = <<"head", "negative", "last">>
    BY <1>5 DEF Tokens
  <2> QED BY <1>5, <2>1 DEF Token, Size
<1> QED BY <1>1, <1>2, <1>3, <1>4, <1>5 DEF RequestType

\* rest is all without its first token; more has request q, of l tokens, at its end, as then has.
Shifted(all, rest, n) == \A i \in 1 .. n : rest[i] = all[i + 1]

Grown(all, more, n, snt, then, m, q, l) ==
  /\ l = Size(q) /\ then[m + 1] = q
  /\ \A i \in 1 .. n : more[i] = all[i]
  /\ \A i \in 1 .. l : more[n + i] = Tokens(q)[i]
  /\ \A i \in 1 .. m : then[i] = snt[i]

\* What is left when one token is read, ...
LEMMA StartsShift ==
  ASSUME NEW k, NEW p, NEW n \in Nat, NEW m \in Nat, NEW all, NEW rest, NEW snt,
         Starts(k, p, all, n + 1, snt, m), Shifted(all, rest, n)
  PROVE  /\ k \in 1 .. m /\ p \in 1 .. Size(snt[k]) /\ all[1] = Tokens(snt[k])[p]
         /\ IF p < Size(snt[k]) THEN Starts(k, p + 1, rest, n, snt, m) ELSE Starts(k + 1, 1, rest, n, snt, m)
<1>1. PICK own \in [Nat -> Nat], pos \in [Nat -> Nat] :
        Marked(own, pos, all, n + 1, snt, m) /\ own[1] = k /\ pos[1] = p
  BY DEF Starts
<1> DEFINE o == [i \in Nat |-> own[i + 1]]
           s == [i \in Nat |-> pos[i + 1]]
<1>2. o \in [Nat -> Nat] /\ s \in [Nat -> Nat]
  OBVIOUS
<1>3. \A i \in Nat : o[i] = own[i + 1] /\ s[i] = pos[i + 1]
  OBVIOUS
<1> HIDE DEF o, s
<1>4. o[1] = own[2] /\ s[1] = pos[2]
  BY <1>3
<1>5. o[n + 1] = m + 1 /\ s[n + 1] = 1
  BY <1>1, <1>3 DEF Marked
<1>6. ASSUME NEW i \in 1 .. n
      PROVE  /\ o[i] \in 1 .. m /\ s[i] \in 1 .. Size(snt[o[i]])
             /\ rest[i] = Tokens(snt[o[i]])[s[i]]
             /\ IF s[i] < Size(snt[o[i]]) THEN o[i + 1] = o[i] /\ s[i + 1] = s[i] + 1
                                          ELSE o[i + 1] = o[i] + 1 /\ s[i + 1] = 1
  <2> DEFINE a == i + 1
  <2>1. /\ a \in 1 .. n + 1 /\ o[i] = own[a] /\ s[i] = pos[a] /\ rest[i] = all[a]
        /\ o[i + 1] = own[a + 1] /\ s[i + 1] = pos[a + 1]
    BY <1>3 DEF Shifted
  <2> HIDE DEF a
  <2> QED BY <1>1, <2>1, Zenon DEF Marked
<1>7. Marked(o, s, rest, n, snt, m)
  BY <1>5, <1>6 DEF Marked
<1>8. Starts(own[2], pos[2], rest, n, snt, m)
  BY <1>2, <1>4, <1>7, Zenon DEF Starts
<1>9. /\ k \in 1 .. m /\ p \in 1 .. Size(snt[k]) /\ all[1] = Tokens(snt[k])[p]
      /\ IF p < Size(snt[k]) THEN own[2] = k /\ pos[2] = p + 1
                             ELSE own[2] = k + 1 /\ pos[2] = 1
  <2>1. 1 \in 1 .. n + 1 /\ 1 + 1 = 2
    OBVIOUS
  <2> QED BY <1>1, <2>1, Zenon DEF Marked
<1> QED BY <1>8, <1>9, Zenon

\* ... and when another request with l tokens is sent.
LEMMA StartsGrow ==
  ASSUME NEW k, NEW p, NEW n \in Nat, NEW m \in Nat, NEW all, NEW more, NEW snt, NEW then, NEW q,
         NEW l \in 1 .. 3, Starts(k, p, all, n, snt, m), Grown(all, more, n, snt, then, m, q, l)
  PROVE  Starts(k, p, more, n + l, then, m + 1)
<1>1. PICK own \in [Nat -> Nat], pos \in [Nat -> Nat] :
        Marked(own, pos, all, n, snt, m) /\ own[1] = k /\ pos[1] = p
  BY DEF Starts
<1> DEFINE o == [i \in Nat |-> IF i <= n + 1 THEN own[i] ELSE IF i <= n + l THEN m + 1 ELSE m + 2]
           s == [i \in Nat |-> IF i <= n + 1 THEN pos[i] ELSE IF i <= n + l THEN i - n ELSE 1]
<1>2. o \in [Nat -> Nat]
  OBVIOUS
<1>3. s \in [Nat -> Nat]
  OBVIOUS
<1>4. \A i \in Nat : o[i] = IF i <= n + 1 THEN own[i] ELSE IF i <= n + l THEN m + 1 ELSE m + 2
  OBVIOUS
<1>5. \A i \in Nat : s[i] = IF i <= n + 1 THEN pos[i] ELSE IF i <= n + l THEN i - n ELSE 1
  OBVIOUS
<1> HIDE DEF o, s
<1>6. o[1] = own[1] /\ s[1] = pos[1]
  BY <1>4, <1>5
<1>7. own[n + 1] = m + 1 /\ pos[n + 1] = 1
  BY <1>1 DEF Marked
<1>8. o[n + l + 1] = m + 1 + 1 /\ s[n + l + 1] = 1
  BY <1>4, <1>5
<1>9. ASSUME NEW i \in 1 .. n + l
      PROVE  /\ o[i] \in 1 .. m + 1 /\ s[i] \in 1 .. Size(then[o[i]])
             /\ more[i] = Tokens(then[o[i]])[s[i]]
             /\ IF s[i] < Size(then[o[i]]) THEN o[i + 1] = o[i] /\ s[i + 1] = s[i] + 1
                                           ELSE o[i + 1] = o[i] + 1 /\ s[i + 1] = 1
  <2>1. CASE i <= n
    <3>1. /\ i \in 1 .. n /\ o[i] = own[i] /\ s[i] = pos[i] /\ more[i] = all[i]
          /\ o[i + 1] = own[i + 1] /\ s[i + 1] = pos[i + 1]
      BY <1>4, <1>5, <2>1 DEF Grown
    <3>2. own[i] \in 1 .. m
      BY <1>1, <3>1, Zenon DEF Marked
    <3>3. then[own[i]] = snt[own[i]] /\ own[i] \in 1 .. m + 1
      BY <3>2 DEF Grown
    <3> QED BY <1>1, <3>1, <3>3, Zenon DEF Marked
  <2>2. CASE i > n
    <3> DEFINE j == i - n
    <3>1. j \in 1 .. l /\ i = n + j
      BY <2>2
    <3>2. o[i] = m + 1 /\ s[i] = j
      <4>1. CASE i = n + 1
        BY <1>4, <1>5, <1>7, <4>1
      <4>2. CASE i # n + 1
        BY <1>4, <1>5, <2>2, <4>2
      <4> QED BY <4>1, <4>2
    <3>3. j < l => o[i + 1] = m + 1 /\ s[i + 1] = j + 1
      BY <1>4, <1>5, <2>2
    <3>4. ~(j < l) => o[i + 1] = m + 1 + 1 /\ s[i + 1] = 1
      BY <1>4, <1>5, <2>2
    <3> HIDE DEF j
    <3>5. more[i] = Tokens(q)[j] /\ then[o[i]] = q /\ m + 1 \in 1 .. m + 1
      BY <3>1, <3>2 DEF Grown
    <3> QED BY <3>1, <3>2, <3>3, <3>4, <3>5, Zenon DEF Grown
  <2> QED BY <2>1, <2>2
<1>10. Marked(o, s, more, n + l, then, m + 1)
  BY <1>8, <1>9, Zenon DEF Marked
<1> QED BY <1>1, <1>2, <1>3, <1>6, <1>10, Zenon DEF Starts

\* One token is read.
LEMMA FromTail ==
  ASSUME NEW k, NEW p, NEW all \in Seq(Token), all # <<>>, NEW snt \in Seq(Requests),
         From(k, p, all, snt)
  PROVE  /\ k \in 1 .. Len(snt) /\ p \in 1 .. Size(snt[k]) /\ Head(all) = Tokens(snt[k])[p]
         /\ IF p < Size(snt[k]) THEN From(k, p + 1, Tail(all), snt) ELSE From(k + 1, 1, Tail(all), snt)
<1> DEFINE n == Len(Tail(all))
<1>1. /\ n \in Nat /\ Len(all) = n + 1 /\ Head(all) = all[1] /\ Len(snt) \in Nat
      /\ \A i \in 1 .. n : Tail(all)[i] = all[i + 1]
  BY HeadTailProperties, EmptySeq, LenProperties
<1> DEFINE m == Len(snt)
           rest == Tail(all)
<1>2. m \in Nat /\ n \in Nat /\ Starts(k, p, all, n + 1, snt, m) /\ Shifted(all, rest, n)
  BY <1>1 DEF From, Shifted
<1> HIDE DEF n, m, rest
<1>3. /\ k \in 1 .. m /\ p \in 1 .. Size(snt[k]) /\ all[1] = Tokens(snt[k])[p]
      /\ IF p < Size(snt[k]) THEN Starts(k, p + 1, rest, n, snt, m) ELSE Starts(k + 1, 1, rest, n, snt, m)
  BY <1>2, StartsShift
<1> QED BY <1>1, <1>3, Zenon DEF From, n, m, rest

\* Another request is sent.
LEMMA FromAppend ==
  ASSUME NEW k, NEW p, NEW all \in Seq(Token), NEW snt \in Seq(Requests), NEW q \in Requests,
         From(k, p, all, snt)
  PROVE  From(k, p, all \o Tokens(q), Append(snt, q))
<1>1. Tokens(q) \in Seq(Token) /\ Size(q) \in 1 .. 3
  BY HttpAssumption, TokensAre
<1>2. /\ Len(all) \in Nat /\ Len(snt) \in Nat
      /\ Len(all \o Tokens(q)) = Len(all) + Size(q)
      /\ \A i \in 1 .. Len(all) + Size(q) :
           (all \o Tokens(q))[i] = IF i <= Len(all) THEN all[i] ELSE Tokens(q)[i - Len(all)]
  BY <1>1, ConcatProperties, LenProperties DEF Size
<1>3. /\ Len(Append(snt, q)) = Len(snt) + 1 /\ Append(snt, q)[Len(snt) + 1] = q
      /\ \A i \in 1 .. Len(snt) : Append(snt, q)[i] = snt[i]
  BY AppendProperties
<1> DEFINE n == Len(all)
           m == Len(snt)
           l == Size(q)
           more == all \o Tokens(q)
           then == Append(snt, q)
<1>4. /\ n \in Nat /\ m \in Nat /\ l \in 1 .. 3 /\ l = Size(q)
      /\ \A i \in 1 .. n + l : more[i] = IF i <= n THEN all[i] ELSE Tokens(q)[i - n]
      /\ then[m + 1] = q /\ \A i \in 1 .. m : then[i] = snt[i]
  BY <1>1, <1>2, <1>3
<1>5. Starts(k, p, all, n, snt, m)
  BY DEF From
<1> HIDE DEF n, m, l, more, then
<1>6. \A i \in 1 .. n : more[i] = all[i]
  <2>1. ASSUME NEW i \in 1 .. n PROVE more[i] = all[i]
    <3>1. i \in 1 .. n + l /\ i <= n
      BY <1>4
    <3> QED BY <1>4, <3>1
  <2> QED BY <2>1
<1>7. \A i \in 1 .. l : more[n + i] = Tokens(q)[i]
  <2>1. ASSUME NEW i \in 1 .. l PROVE more[n + i] = Tokens(q)[i]
    <3>1. n + i \in 1 .. n + l /\ ~(n + i <= n) /\ n + i - n = i
      BY <1>4
    <3> QED BY <1>4, <3>1
  <2> QED BY <2>1
<1>8. Starts(k, p, more, n + l, then, m + 1)
  <2>1. Grown(all, more, n, snt, then, m, q, l)
    BY <1>4, <1>6, <1>7, Zenon DEF Grown
  <2> QED BY <1>4, <1>5, <2>1, StartsGrow
<1> QED BY <1>2, <1>3, <1>8, Zenon DEF From, n, m, l, more, then
-----------------------------------------------------------------------------
(* The loop stays in step with the input *)

LEMMA UnreadHead ==
  ASSUME SequencesOK, input # <<>>
  PROVE  /\ Unread \in Seq(Token) /\ Unread # <<>> /\ Head(Unread) = Head(input)
         /\ Len(input) > 0 /\ Len(Unread) = Len(input) + Len(toSend)
         /\ \A i \in 1 .. Len(input) + Len(toSend) :
              Unread[i] = IF i <= Len(input) THEN input[i] ELSE toSend[i - Len(input)]
<1>1. input \in Seq(Token) /\ toSend \in Seq(Token) /\ Len(input) > 0
  BY EmptySeq DEF SequencesOK
<1>2. /\ Unread \in Seq(Token) /\ Len(Unread) = Len(input) + Len(toSend)
      /\ \A i \in 1 .. Len(input) + Len(toSend) :
           Unread[i] = IF i <= Len(input) THEN input[i] ELSE toSend[i - Len(input)]
  BY <1>1, ConcatProperties DEF Unread
<1> QED BY <1>1, <1>2

LEMMA UnreadTail ==
  ASSUME SequencesOK, input # <<>>, input' = Tail(input), toSend' = toSend
  PROVE  Unread' = Tail(Unread) /\ input' \in Seq(Token)
<1>1. input \in Seq(Token) /\ toSend \in Seq(Token) /\ Len(input) > 0
  BY EmptySeq DEF SequencesOK
<1>2. /\ Unread \in Seq(Token) /\ Unread # <<>> /\ Len(Unread) = Len(input) + Len(toSend)
      /\ \A i \in 1 .. Len(input) + Len(toSend) :
           Unread[i] = IF i <= Len(input) THEN input[i] ELSE toSend[i - Len(input)]
  BY UnreadHead
<1>3. /\ input' \in Seq(Token) /\ Len(input') = Len(input) - 1 /\ Head(input) = input[1]
      /\ \A i \in 1 .. Len(input) - 1 : input'[i] = input[i + 1]
  BY <1>1, HeadTailProperties
<1>4. Unread' = Tail(Unread)
  <2>1. /\ Unread' \in Seq(Token) /\ Len(Unread') = Len(input) - 1 + Len(toSend)
        /\ \A i \in 1 .. Len(input) - 1 + Len(toSend) :
             Unread'[i] = IF i <= Len(input) - 1 THEN input'[i] ELSE toSend[i - (Len(input) - 1)]
    BY <1>1, <1>3, ConcatProperties DEF Unread
  <2>2. /\ Tail(Unread) \in Seq(Token) /\ Len(Tail(Unread)) = Len(input) - 1 + Len(toSend)
        /\ \A i \in 1 .. Len(input) - 1 + Len(toSend) : Tail(Unread)[i] = Unread[i + 1]
    BY <1>2, HeadTailProperties
  <2>3. ASSUME NEW i \in 1 .. Len(input) - 1 + Len(toSend) PROVE Unread'[i] = Tail(Unread)[i]
    <3>1. i + 1 \in 1 .. Len(input) + Len(toSend) /\ i + 1 - Len(input) = i - (Len(input) - 1)
      BY <1>1
    <3> QED BY <1>1, <1>2, <1>3, <2>1, <2>2, <3>1
  <2> QED BY <2>1, <2>2, <2>3, SeqEqual
<1> QED BY <1>3, <1>4

LEMMA FirstToken ==
  ASSUME SequencesOK, input # <<>>, NEW k, NEW p, From(k, p, Unread, sent)
  PROVE  k \in 1 .. Len(sent) /\ Head(input) = Tokens(sent[k])[p]
<1>1. sent \in Seq(Requests)
  BY DEF SequencesOK
<1>2. Unread \in Seq(Token) /\ Unread # <<>> /\ Head(Unread) = Head(input)
  BY UnreadHead
<1>3. k \in 1 .. Len(sent) /\ Head(Unread) = Tokens(sent[k])[p]
  BY <1>1, <1>2, FromTail
<1> QED BY <1>2, <1>3

\* A request whose head was read, and of which some tokens are left, is the last one if no head is
\* among the n tokens to come.
LEMMA StartsLast ==
  ASSUME NEW k, NEW p \in Nat \ {0, 1}, NEW n \in Nat \ {0}, NEW m \in Nat, NEW all, NEW snt,
         Starts(k, p, all, n, snt, m), \A i \in 1 .. m : Size(snt[i]) \in 1 .. 3 /\ Tokens(snt[i])[1] = "head",
         \A i \in 1 .. n : all[i] # "head"
  PROVE  k = m
<1>1. PICK own \in [Nat -> Nat], pos \in [Nat -> Nat] :
        Marked(own, pos, all, n, snt, m) /\ own[1] = k /\ pos[1] = p
  BY DEF Starts
<1>2. ASSUME NEW i \in 1 .. n, pos[i] = 1 PROVE FALSE
  BY <1>1, <1>2 DEF Marked
<1>3. ASSUME NEW i \in 1 .. n, pos[i] = Size(snt[own[i]]) PROVE i = n /\ own[i] = m
  <2>1. own[i] \in Nat /\ pos[i] \in Nat /\ own[i + 1] = own[i] + 1 /\ pos[i + 1] = 1
    BY <1>1, <1>3 DEF Marked
  <2>2. i = n
    BY <1>2, <2>1
  <2> QED BY <1>1, <2>1, <2>2 DEF Marked
<1>4. ASSUME NEW i \in 1 .. n
      PROVE  /\ own[i] \in 1 .. m /\ Size(snt[own[i]]) \in 1 .. 3 /\ pos[i] \in 1 .. Size(snt[own[i]])
             /\ pos[i] < Size(snt[own[i]]) => i < n /\ own[i + 1] = own[i] /\ pos[i + 1] = pos[i] + 1
  <2>1. own[i] \in 1 .. m /\ pos[i] \in 1 .. Size(snt[own[i]])
    BY <1>1 DEF Marked
  <2>2. Size(snt[own[i]]) \in 1 .. 3
    BY <2>1
  <2>3. ASSUME pos[i] < Size(snt[own[i]]) PROVE own[i + 1] = own[i] /\ pos[i + 1] = pos[i] + 1
    BY <1>1, <2>3 DEF Marked
  <2>4. ASSUME pos[i] < Size(snt[own[i]]), i = n PROVE FALSE
    BY <1>1, <2>1, <2>3, <2>4 DEF Marked
  <2> QED BY <2>1, <2>2, <2>3, <2>4
<1>5. CASE p = Size(snt[k])
  BY <1>1, <1>3, <1>5
<1>6. CASE p # Size(snt[k])
  <2>1. own[2] = k /\ pos[2] = 3 /\ 2 \in 1 .. n /\ Size(snt[k]) = 3
    BY <1>1, <1>4, <1>6
  <2> QED BY <1>3, <2>1
<1> QED BY <1>5, <1>6

LEMMA LastIsServed ==
  ASSUME SequencesOK, OneRequest, input = <<>>, toSend # <<>>, Head(toSend) # "head",
         NEW p \in Nat \ {0, 1}, From(served, p, Unread, sent)
  PROVE  served = Len(sent)
<1>1. toSend \in Seq(Token) /\ sent \in Seq(Requests)
  BY DEF SequencesOK
<1>2. Unread = toSend
  BY <1>1, ConcatEmptySeq DEF Unread
<1> DEFINE n == Len(toSend)
           m == Len(sent)
<1>3. n \in Nat \ {0} /\ Head(toSend) = toSend[1]
  BY <1>1, HeadTailProperties, EmptySeq
<1>4. m \in Nat /\ \A i \in 1 .. m : sent[i] \in RequestType
  BY <1>1, HttpAssumption, ElementOfSeq, LenProperties
<1>5. Starts(served, p, toSend, n, sent, m)
  BY <1>2 DEF From
<1>6. \A i \in 1 .. n : toSend[i] # "head"
  BY <1>3 DEF OneRequest
<1> HIDE DEF n, m
<1>7. \A i \in 1 .. m : Size(sent[i]) \in 1 .. 3 /\ Tokens(sent[i])[1] = "head"
  BY <1>4, TokensAre
<1>8. served = m
  BY <1>3, <1>4, <1>5, <1>6, <1>7, StartsLast
<1> QED BY <1>8 DEF m

\* A token on its way is still the same token.
LEMMA UnreadSame ==
  ASSUME SequencesOK, SendToken
  PROVE  Unread' = Unread /\ input' \in Seq(Token) /\ toSend' \in Seq(Token)
<1> DEFINE h == Head(toSend)
<1>1. input \in Seq(Token) /\ toSend \in Seq(Token) /\ toSend # <<>>
  BY DEF SequencesOK, SendToken
<1>2. h \in Token /\ toSend' \in Seq(Token) /\ toSend = <<h>> \o toSend'
  BY <1>1, HeadTailProperties DEF SendToken
<1>3. input' \in Seq(Token) /\ input' = input \o <<h>>
  BY <1>1, <1>2, AppendProperties DEF SendToken
<1>4. (input \o <<h>>) \o toSend' = input \o (<<h>> \o toSend')
  BY <1>1, <1>2, ConcatAssociative
<1> QED BY <1>2, <1>3, <1>4 DEF Unread

LEMMA SendRequestSync == ASSUME IInv, NEW q \in Requests, SendRequest(q) PROVE IInv'
<1>1. /\ toSend = <<>> /\ ~eof /\ sent' = Append(sent, q) /\ toSend' = Tokens(q)
      /\ UNCHANGED <<input, eof, pc, r, served, keepAlive, torn>>
  BY DEF SendRequest, server, history
<1>2. input \in Seq(Token) /\ sent \in Seq(Requests) /\ served \in 0 .. Len(sent)
  BY DEF IInv, SequencesOK
<1>3. Unread \in Seq(Token) /\ Unread' = Unread \o Tokens(q)
  BY <1>1, <1>2, ConcatEmptySeq DEF Unread
<1>4. ASSUME NEW k, NEW p, From(k, p, Unread, sent) PROVE From(k, p, Unread', sent')
  BY <1>1, <1>2, <1>3, <1>4, FromAppend
<1>5. SequencesOK'
  <2>1. Tokens(q) \in Seq(Token)
    BY HttpAssumption, TokensAre
  <2>2. sent' \in Seq(Requests) /\ Len(sent') = Len(sent) + 1
    BY <1>1, <1>2, AppendProperties
  <2>3. served' \in 0 .. Len(sent')
    BY <1>1, <1>2, <2>2, LenProperties
  <2> QED BY <1>1, <1>2, <2>1, <2>2, <2>3 DEF SequencesOK
<1>6. served > 0 => sent'[served] = sent[served]
  BY <1>1, <1>2, AppendProperties, LenProperties
<1>7. Aligned => Aligned'
  BY <1>1, <1>4 DEF Aligned
<1>8. OneRequest'
  BY <1>1, HttpAssumption, TokensAre DEF OneRequest, Size
<1> HIDE DEF Aligned, Unread
<1>9. Sync'
  BY <1>1, <1>4, <1>6, <1>7, Zenon DEF IInv, Sync
<1> QED BY <1>5, <1>8, <1>9 DEF IInv

\* A step that leaves the loop where it is.
LEMMA StaySync ==
  ASSUME IInv, SequencesOK', OneRequest', Unread' = Unread, eof' /\ input = <<>> => input' = <<>>,
         eof => eof' /\ UNCHANGED <<input, toSend>>,
         UNCHANGED <<sent, pc, r, served, keepAlive, torn>>
  PROVE  IInv'
<1>1. Aligned => Aligned'
  BY DEF Aligned, LastBegun
<1> QED BY <1>1 DEF IInv, Sync

\* A step of the loop that reads nothing.
LEMMA GoOnSync ==
  ASSUME IInv, UNCHANGED <<sent, toSend, input, eof, r, served>>,
         pc' \in {"closed", "crashed"} \/ (pc \in AtWork /\ pc' \in Places \ {"body"}),
         pc' \in {"peek", "dispatch"} => Aligned,
         pc' \in AtWork \ {"dispatch"} /\ keepAlive' => Aligned,
         torn' => eof /\ input = <<>> /\ r.body = "length"
  PROVE  IInv'
<1>1. SequencesOK' /\ OneRequest'
  BY DEF IInv, SequencesOK, OneRequest
<1>2. Aligned' <=> Aligned
  BY DEF Aligned, Unread, LastBegun
<1>3. pc' # "body" /\ (pc' \in AtWork => pc \in AtWork)
  BY DEF AtWork
<1>4. Sync'
  BY <1>2, <1>3 DEF IInv, Sync
<1> QED BY <1>1, <1>4 DEF IInv

LEMMA ReadHeadSync == ASSUME IInv, ReadHead PROVE IInv'
<1> DEFINE q == sent[served + 1]
<1>1. /\ pc = "peek" /\ input # <<>> /\ input' = Tail(input) /\ r' = q /\ served' = served + 1
      /\ keepAlive' = FALSE /\ UNCHANGED <<sent, toSend, eof, torn>>
      /\ pc' \in IF ~Accepts(q) \/ q.body = "huge" THEN {"error", "undocumented"}
                 ELSE IF q.body \in {"none", "negative"} THEN {"dispatch"} ELSE {"body"}
  BY DEF ReadHead, AfterHead, Refusal, history
<1>2. SequencesOK /\ From(served + 1, 1, Unread, sent) /\ ~torn
  BY <1>1 DEF IInv, Sync, Aligned
<1>3. Unread \in Seq(Token) /\ Unread # <<>> /\ Unread' = Tail(Unread) /\ input' \in Seq(Token)
  BY <1>1, <1>2, UnreadHead, UnreadTail
<1>4. /\ served + 1 \in 1 .. Len(sent)
      /\ IF 1 < Size(q) THEN From(served + 1, 1 + 1, Unread', sent)
                        ELSE From(served + 1 + 1, 1, Unread', sent)
  <2>1. sent \in Seq(Requests)
    BY <1>2 DEF SequencesOK
  <2> QED BY <1>2, <1>3, <2>1, FromTail
<1>5. q \in Requests /\ Size(q) \in 1 .. 3 /\ (q.body \in {"none", "negative"} <=> Size(q) = 1)
  <2>1. q \in Requests
    BY <1>2, <1>4, ElementOfSeq DEF SequencesOK
  <2> QED BY <2>1, HttpAssumption, TokensAre
<1>6. SequencesOK'
  BY <1>1, <1>2, <1>3, <1>4 DEF SequencesOK
<1> HIDE DEF q
<1>7. served' > 0 /\ r' = sent'[served']
  BY <1>1, <1>2 DEF SequencesOK, q
<1>8. pc' = "dispatch" => Aligned'
  <2>1. pc' = "dispatch" => ~(1 < Size(q))
    BY <1>1, <1>5
  <2> QED BY <1>1, <1>4, <2>1, Zenon DEF Aligned
<1>9. pc' = "body" => \E p \in 2 .. Size(r') : From(served', p, Unread', sent')
  <2>1. pc' = "body" => 1 < Size(q) /\ 1 + 1 \in 2 .. Size(q)
    BY <1>1, <1>5
  <2> QED BY <1>1, <1>4, <2>1, Zenon
<1>10. pc' # "peek" /\ ~torn' /\ ~keepAlive'
  BY <1>1, <1>2
<1>11. Sync'
  BY <1>7, <1>8, <1>9, <1>10, Zenon DEF Sync
<1>12. OneRequest'
  BY <1>1 DEF IInv, OneRequest
<1> QED BY <1>6, <1>11, <1>12 DEF IInv

LEMMA ReadBodySync == ASSUME IInv, ReadBody PROVE IInv'
<1>1. /\ pc = "body" /\ input # <<>> /\ input' = Tail(input)
      /\ pc' \in CASE Head(input) \in {"body", "last"}      -> {"dispatch"}
                   [] Head(input) \in {"chunk", "negative"} -> {"body"}
                   [] OTHER                                 -> {"error", "undocumented"}
      /\ UNCHANGED <<sent, toSend, eof, r, served, keepAlive, torn>>
  BY DEF ReadBody, AfterPart, Refusal, server, history
<1>2. SequencesOK /\ served > 0 /\ r = sent[served] /\ ~torn /\ ~keepAlive
  BY <1>1 DEF IInv, Sync, AtWork, Places
<1>3. PICK p \in 2 .. Size(r) : From(served, p, Unread, sent)
  BY <1>1 DEF IInv, Sync
<1>4. /\ Unread \in Seq(Token) /\ Unread # <<>> /\ Head(Unread) = Head(input)
      /\ Unread' = Tail(Unread) /\ input' \in Seq(Token)
  BY <1>1, <1>2, UnreadHead, UnreadTail
<1>5. /\ Head(input) = Tokens(r)[p]
      /\ IF p < Size(r) THEN From(served, p + 1, Unread', sent) ELSE From(served + 1, 1, Unread', sent)
  <2>1. sent \in Seq(Requests)
    BY <1>2 DEF SequencesOK
  <2>2. /\ Head(Unread) = Tokens(sent[served])[p]
        /\ IF p < Size(sent[served]) THEN From(served, p + 1, Tail(Unread), sent)
                                     ELSE From(served + 1, 1, Tail(Unread), sent)
    BY <1>3, <1>4, <2>1, FromTail
  <2> QED BY <1>2, <1>4, <2>2, Zenon
<1>6. /\ Size(r) \in 1 .. 3
      /\ Size(r) >= 2 => (Tokens(r)[2] \in {"body", "last"} <=> Size(r) = 2)
      /\ Size(r) = 3 => Tokens(r)[2] # "last" /\ Tokens(r)[3] = "last"
  <2>1. r \in RequestType
    BY <1>2, ElementOfSeq, HttpAssumption DEF SequencesOK
  <2> QED BY <2>1, TokensAre
<1>7. /\ Head(input) \in {"body", "last"} <=> ~(p < Size(r))
      /\ p < Size(r) => p + 1 \in 2 .. Size(r)
  BY <1>3, <1>5, <1>6
<1>8. SequencesOK'
  BY <1>1, <1>2, <1>4 DEF SequencesOK
<1>9. pc' \in {"dispatch", "body", "error", "undocumented"} /\ (pc' = "dispatch" <=> Head(input) \in {"body", "last"})
  BY <1>1
<1>10. pc' = "dispatch" => Aligned'
  BY <1>1, <1>5, <1>7, <1>9, Zenon DEF Aligned
<1>11. pc' = "body" => \E n \in 2 .. Size(r') : From(served', n, Unread', sent')
  <2>1. ASSUME pc' = "body" PROVE p < Size(r)
    BY <1>7, <1>9, <2>1
  <2> QED BY <1>1, <1>5, <1>7, <2>1, Zenon
<1>12. Sync'
  BY <1>1, <1>2, <1>9, <1>10, <1>11, Zenon DEF Sync
<1>13. OneRequest'
  BY <1>1 DEF IInv, OneRequest
<1> QED BY <1>8, <1>12, <1>13 DEF IInv

LEMMA InitSync == Init => IInv
<1> SUFFICES ASSUME Init PROVE IInv
  OBVIOUS
<1>1. SequencesOK
  BY DEF Init, SequencesOK
<1>2. Len(Unread) = 0 /\ Len(sent) = 0 /\ served = 0
  BY DEF Init, Unread
<1>3. Starts(1, 1, Unread, 0, sent, 0)
  <2> DEFINE f == [i \in Nat |-> 1]
  <2>1. f \in [Nat -> Nat] /\ f[1] = 1 /\ f[0 + 1] = 0 + 1
    OBVIOUS
  <2> HIDE DEF f
  <2>2. Marked(f, f, Unread, 0, sent, 0)
    BY <2>1 DEF Marked
  <2> QED BY <2>1, <2>2, Zenon DEF Starts
<1>4. Aligned
  <2>1. served + 1 = 1
    BY <1>2
  <2> QED BY <1>2, <1>3, <2>1 DEF Aligned, From
<1>5. OneRequest
  BY DEF Init, OneRequest
<1> QED BY <1>1, <1>4, <1>5 DEF IInv, Init, Sync, AtWork

\* The steps of a handler and of the loop around it.
LEMMA HandlerSync ==
  ASSUME IInv,
         \/ Dispatch \/ \E f \in {"empty", "length", "chunked"} : HandlerHeaders(f)
         \/ HandlerWrites \/ HandlerWritesAmiss \/ HandlerReturns \/ HandlerIsSilent \/ Interrupted \/ Unwind
         \/ \E next \in {"error", "undocumented", "null", "unwind"} : HandlerThrows(next)
         \/ ErrorPage \/ \E outcome \in {"crashed", "handler"} : NoErrorPage(outcome)
         \/ NullContent \/ FinishWrite \/ StreamFails \/ PeekEnd \/ BodyEnds
  PROVE  IInv'
<1>1. UNCHANGED <<sent, toSend, input, eof, r, served>>
  BY DEF Dispatch, HandlerHeaders, HandlerWrites, HandlerWritesAmiss, HandlerReturns, HandlerIsSilent, Interrupted, Unwind,
         HandlerThrows, ErrorPage, NoErrorPage, NullContent, FinishWrite, StreamFails, PeekEnd, BodyEnds,
         request, server
<1> DEFINE
      OK == /\ pc' \in {"closed", "crashed"} \/ (pc \in AtWork /\ pc' \in Places \ {"body"})
            /\ pc' \in {"peek", "dispatch"} => Aligned
            /\ pc' \in AtWork \ {"dispatch"} /\ keepAlive' => Aligned
            /\ torn' => eof /\ input = <<>> /\ r.body = "length"
<1>2. ASSUME Dispatch PROVE OK
  BY <1>2 DEF Dispatch, Refusal, history, IInv, Sync, AtWork, Places
<1>3. ASSUME StreamFails \/ PeekEnd \/ Unwind PROVE OK
  BY <1>3 DEF StreamFails, PeekEnd, Unwind, Close, history, IInv, Sync, AtWork
<1>4. ASSUME BodyEnds PROVE OK
  <2>1. LastBegun
    <3>1. PICK p \in 2 .. Size(r) : From(served, p, Unread, sent)
      BY <1>4 DEF BodyEnds, IInv, Sync
    <3>2. r \in RequestType
      BY <1>4, ElementOfSeq, HttpAssumption DEF BodyEnds, IInv, Sync, AtWork, Places, SequencesOK
    <3>3. Size(r) \in 1 .. 3
      BY <3>2, TokensAre
    <3>4. p \in Nat \ {0, 1}
      BY <3>1, <3>3
    <3> QED BY <1>4, <3>1, <3>4, LastIsServed DEF BodyEnds, LastBegun, IInv
  <2> QED BY <1>4, <2>1 DEF BodyEnds, AtEof, Close, server, IInv, Sync, Aligned, AtWork, Places
<1>5. ASSUME NEW f, HandlerHeaders(f) PROVE OK
  BY <1>5 DEF HandlerHeaders, Begin, history, IInv, Sync, AtWork, Places
<1>6. ASSUME HandlerWrites \/ HandlerWritesAmiss \/ HandlerReturns \/ HandlerIsSilent \/ Interrupted PROVE OK
  BY <1>6 DEF HandlerWrites, HandlerWritesAmiss, HandlerReturns, HandlerIsSilent, Interrupted, server, history, IInv, Sync,
              AtWork, Places
<1>7. ASSUME NEW next, HandlerThrows(next) PROVE OK
  BY <1>7 DEF HandlerThrows, Refusal, server, history, IInv, Sync, AtWork, Places
<1>8. ASSUME NEW outcome \in {"crashed", "handler"}, ErrorPage \/ NoErrorPage(outcome) \/ NullContent PROVE OK
  BY <1>8 DEF ErrorPage, NoErrorPage, NullContent, Begin, server, history, IInv, Sync, AtWork, Places
<1>9. ASSUME FinishWrite PROVE OK
  BY <1>9 DEF FinishWrite, IInv, Sync, AtWork, Places
<1>10. OK
  BY <1>2, <1>3, <1>4, <1>5, <1>6, <1>7, <1>8, <1>9
<1> QED BY <1>1, <1>10, GoOnSync

LEMMA NextSync == IInv /\ [Next]_vars => IInv'
<1> SUFFICES ASSUME IInv, [Next]_vars PROVE IInv'
  OBVIOUS
<1>1. ASSUME SendToken PROVE IInv'
  <2>1. SequencesOK' /\ Unread' = Unread
    BY <1>1, UnreadSame DEF IInv, SequencesOK, SendToken, server
  <2>3. OneRequest'
    <3>1. toSend \in Seq(Token) /\ toSend # <<>> /\ toSend' = Tail(toSend)
      BY <1>1 DEF IInv, SequencesOK, SendToken
    <3>2. Len(toSend') = Len(toSend) - 1 /\ \A i \in 1 .. Len(toSend) - 1 : toSend'[i] = toSend[i + 1]
      BY <3>1, HeadTailProperties
    <3>3. Len(toSend) \in Nat
      BY <3>1, LenProperties
    <3>4. ASSUME NEW i \in 2 .. Len(toSend') PROVE toSend'[i] # "head"
      BY <3>2, <3>3 DEF IInv, OneRequest
    <3> QED BY <3>4 DEF OneRequest
  <2>2. ~eof /\ ~eof' /\ UNCHANGED <<sent, pc, r, served, keepAlive, torn>>
    BY <1>1 DEF SendToken, server, history
  <2> QED BY <2>1, <2>2, <2>3, StaySync
<1>2. ASSUME ClientCloses \/ Overflow \/ Hold \/ UNCHANGED vars PROVE IInv'
  <2>1. /\ UNCHANGED <<sent, toSend, input, pc, r, served, keepAlive, torn>> /\ (eof => eof')
        /\ (ClientCloses \/ eof' = eof)
    BY <1>2 DEF ClientCloses, Overflow, Hold, vars, request, server, history
  <2>2. SequencesOK' /\ OneRequest' /\ Unread' = Unread
    BY <2>1 DEF IInv, SequencesOK, OneRequest, Unread
  <2> QED BY <2>1, <2>2, StaySync
<1> QED BY <1>1, <1>2, SendRequestSync, ReadHeadSync, ReadBodySync, HandlerSync DEF Next, Server

THEOREM Invariance == Spec => []IInv
  BY InitSync, NextSync, PTL DEF Spec

\* Whatever the requests, the answers and the errors, and however many requests a connection serves,
\* the loop takes up the next request where the last one ended; and no handler gets a part of a
\* chunked body (http_server.hpp:27-130, http_server_context.hpp:116-229).
THEOREM InStep == Spec => []InputInSync
<1>1. ASSUME IInv, pc = "peek", input # <<>> PROVE Head(input) = "head"
  <2>1. SequencesOK /\ From(served + 1, 1, Unread, sent)
    BY <1>1 DEF IInv, Sync, Aligned
  <2>2. served + 1 \in 1 .. Len(sent) /\ Head(input) = Tokens(sent[served + 1])[1]
    BY <1>1, <2>1, FirstToken
  <2>3. sent[served + 1] \in RequestType
    BY <2>1, <2>2, ElementOfSeq, HttpAssumption DEF SequencesOK
  <2> QED BY <2>2, <2>3, TokensAre
<1>2. IInv => InputInSync
  BY <1>1 DEF IInv, Sync, InputInSync, ChunkedIsWhole
<1> QED BY <1>2, Invariance, PTL
-----------------------------------------------------------------------------
(* How connections go on and end *)

\* A head was written exactly where the loop expects one, and what it announced is still true; a
\* request whose handler was interrupted only unwinds.
HeadOK == /\ pc \in {"body", "dispatch"} => res = "none"
          /\ pc = "writing" => res # "none"
          /\ res # "none" /\ pc \notin {"peek", "closed"} => announced = IF keepAlive THEN count ELSE 0
          /\ interrupted => pc \in {"unwind", "closed"}
          /\ count \in Int

LEMMA WrittenHead ==
  ASSUME NEW f \in {"empty", "length", "chunked"}, NEW next \in {"writing", "finish"}, HeadOK,
         Begin(f, next), pc \in {"handler", "null"}, UNCHANGED <<count, keepAlive, interrupted>>
  PROVE  HeadOK'
<1>1. res' # "none" /\ announced' = IF keepAlive THEN count ELSE 0
  BY DEF Begin, WriteHeaders, Framing
<1>2. pc' \in {"writing", "finish", "unwind"} /\ ~interrupted
  BY DEF Begin, HeadOK
<1> QED BY <1>1, <1>2 DEF HeadOK

LEMMA NextHead == HeadOK /\ [Next]_vars => HeadOK'
<1> SUFFICES ASSUME HeadOK, [Next]_vars PROVE HeadOK'
  OBVIOUS
<1> USE DEF HeadOK
<1>1. ASSUME NEW q, SendRequest(q) \/ SendToken \/ ClientCloses \/ Overflow \/ Hold \/ UNCHANGED vars PROVE HeadOK'
  BY <1>1 DEF SendRequest, SendToken, ClientCloses, Hold, Overflow, vars, server, response, history
<1>2. ASSUME StreamFails \/ PeekEnd \/ Unwind PROVE HeadOK'
  BY <1>2 DEF StreamFails, PeekEnd, Unwind, Close, server, response, history
<1>3. ASSUME ReadHead PROVE HeadOK'
  BY <1>3 DEF ReadHead, AfterHead, Refusal, history
<1>4. ASSUME ReadBody \/ BodyEnds PROVE HeadOK'
  BY <1>4 DEF ReadBody, AfterPart, Refusal, BodyEnds, AtEof, server, response, history
<1>5. ASSUME Dispatch PROVE HeadOK'
  BY <1>5 DEF Dispatch, Refusal, response, history
<1>6. ASSUME NEW f \in {"empty", "length", "chunked"}, HandlerHeaders(f) PROVE HeadOK'
  BY <1>6, WrittenHead DEF HandlerHeaders, history
<1>7. ASSUME NullContent PROVE HeadOK'
  BY <1>7, WrittenHead DEF NullContent, history
<1>8. ASSUME HandlerWrites \/ HandlerWritesAmiss \/ HandlerReturns \/ HandlerIsSilent \/ Interrupted PROVE HeadOK'
  BY <1>8 DEF HandlerWrites, HandlerWritesAmiss, HandlerReturns, HandlerIsSilent, Interrupted, server, response, history
<1>9. ASSUME NEW next, HandlerThrows(next) PROVE HeadOK'
  BY <1>9 DEF HandlerThrows, Refusal, server, response, history
<1>10. ASSUME NEW outcome \in {"crashed", "handler"}, ErrorPage \/ NoErrorPage(outcome) PROVE HeadOK'
  BY <1>10 DEF ErrorPage, NoErrorPage, server, response, history
<1>11. ASSUME FinishWrite PROVE HeadOK'
  BY <1>11 DEF FinishWrite, response
<1> QED BY <1>1, <1>2, <1>3, <1>4, <1>5, <1>6, <1>7, <1>8, <1>9, <1>10, <1>11 DEF Next, Server

\* Once a handler was interrupted no head is written any more, and the connection goes on exactly if
\* the response promised it, whatever handlers and error pages do (http_server.hpp:27-130).
THEOREM EndsAsPromised == Spec => EndsInOrder
<1>1. Init => HeadOK
  BY HttpAssumption DEF Init, HeadOK
<1>2. Spec => []HeadOK
  BY <1>1, NextHead, PTL DEF Spec
<1>3. ASSUME HeadOK, [Next]_vars PROVE Silent
  <2> SUFFICES ASSUME interrupted, buf' # buf PROVE buf' \in {<<>>, Append(buf, "end")}
    BY DEF Silent
  <2>1. pc \in {"unwind", "closed"}
    BY <1>3 DEF HeadOK
  <2>2. ASSUME NEW f, HandlerHeaders(f) PROVE FALSE
    BY <2>1, <2>2 DEF HandlerHeaders
  <2>3. ASSUME NEW q, SendRequest(q) PROVE FALSE
    BY <2>3 DEF SendRequest, stream
  <2>4. ASSUME NEW x, HandlerThrows(x) \/ NoErrorPage(x) PROVE FALSE
    BY <2>1, <2>4 DEF HandlerThrows, NoErrorPage
  <2>5. ASSUME ReadHead \/ ReadBody \/ BodyEnds \/ Dispatch \/ HandlerWrites \/ HandlerWritesAmiss
               \/ HandlerReturns \/ HandlerIsSilent \/ Interrupted \/ ErrorPage \/ NullContent \/ FinishWrite
        PROVE  FALSE
    BY <2>1, <2>5 DEF ReadHead, ReadBody, BodyEnds, Dispatch, HandlerWrites, HandlerWritesAmiss,
                      HandlerReturns, HandlerIsSilent, Interrupted, ErrorPage, NullContent, FinishWrite
  <2>6. ASSUME SendToken \/ ClientCloses \/ Hold \/ UNCHANGED vars PROVE FALSE
    BY <2>6 DEF SendToken, ClientCloses, Hold, vars, stream
  <2>7. ASSUME Overflow \/ StreamFails \/ PeekEnd \/ Unwind PROVE buf' = <<>>
    BY <2>7 DEF Overflow, StreamFails, PeekEnd, Unwind, Close
  <2> QED BY <1>3, <2>2, <2>3, <2>4, <2>5, <2>6, <2>7 DEF Next, Server
<1>4. ASSUME HeadOK, [Next]_vars PROVE EndsAsAnnounced
  <2> SUFFICES ASSUME count' < count, res # "none" PROVE (pc' = "peek") = (announced > 1)
    BY DEF EndsAsAnnounced
  <2>1. count \in Int
    BY <1>4 DEF HeadOK
  <2>2. FinishWrite \/ count' = count
    BY <1>4 DEF Next, Server, SendRequest, SendToken, ClientCloses, Hold, Overflow, vars, server,
                StreamFails, PeekEnd, ReadHead, ReadBody, BodyEnds, Dispatch, HandlerHeaders,
                HandlerWrites, HandlerWritesAmiss, HandlerReturns, HandlerIsSilent, Interrupted, Unwind, HandlerThrows,
                ErrorPage, NoErrorPage, NullContent
  <2>3. FinishWrite
    BY <2>1, <2>2
  <2>4. announced = (IF keepAlive THEN count ELSE 0)
        /\ pc' = (IF keepAlive /\ count > 1 THEN "peek" ELSE "closed")
    BY <1>4, <2>3 DEF FinishWrite, HeadOK
  <2> QED BY <2>1, <2>4
<1>5. HeadOK /\ [Next]_vars => [Silent /\ EndsAsAnnounced]_vars
  BY <1>3, <1>4
<1> QED BY <1>2, <1>5, PTL DEF Spec, EndsInOrder
-----------------------------------------------------------------------------
(* What the client understands *)

Understood(a, i, m) == [answered |-> a, in |-> i, interim |-> m]

\* The answer to r is complete.
Whole == res = "empty" \/ r.method = "head" \/ (res = "length" /\ parts # 0)

\* What the client makes of what was written for r, of which m says whether it was told to continue.
Underway(m) == IF res = "none" THEN Understood(served - 1, "idle", m)
               ELSE IF Whole THEN Understood(served, "idle", FALSE) ELSE Understood(served - 1, res, m)

\* The server knows r for a HEAD request if it is one; it is not told so of one it has refused.
Headed == r.method = "head" => Accepts(r)

\* The client has got what was written where the server waits for it; between requests it has
\* understood an answer to each, and in a request what was written of this one.
Answers ==
  ~stray /\ ~faulty =>
    /\ pc \in {"peek", "body"} => client = written
    /\ pc = "peek" => written = Understood(served, "idle", FALSE)
    /\ pc \in AtWork \ {"unwind"} /\ Headed => \E m \in BOOLEAN : written = Underway(m)
    /\ pc = "body" /\ r.expect = "continue" => written.interim

\* How a response goes on: a body whose end is that of the connection is the last one.
Framed == /\ res \in Framings /\ parts \in Nat
          /\ pc \in AtWork /\ res = "close" => ~keepAlive
          /\ pc \in {"peek", "body"} => buf = <<>>
          /\ pc = "finish" /\ ~faulty => res # "none" /\ (res = "length" => Whole)
          /\ pc \in {"body", "dispatch"} \/ (pc \in AtWork /\ keepAlive) => Accepts(r)

AInv == Answers /\ Framed

LEMMA ReceiveHead ==
  ASSUME NEW a \in Nat, a < Len(sent), NEW m, NEW t \in {"empty", "length", "chunked", "close"}
  PROVE  Receive(Understood(a, "idle", m), t) =
           IF t = "empty" \/ sent[a + 1].method = "head" THEN Understood(a + 1, "idle", FALSE)
           ELSE Understood(a, t, m)
  BY DEF Receive, Understood, Answer, Framings

LEMMA ReceiveContinue ==
  ASSUME NEW a, NEW m
  PROVE  Receive(Understood(a, "idle", m), "continue") = Understood(a, "idle", TRUE)
  BY DEF Receive, Understood, Framings

LEMMA ReceivePart ==
  ASSUME NEW a \in Nat, NEW m
  PROVE  /\ Receive(Understood(a, "length", m), "part") = Understood(a + 1, "idle", FALSE)
         /\ Receive(Understood(a, "chunked", m), "part") = Understood(a, "chunked", m)
         /\ Receive(Understood(a, "close", m), "part") = Understood(a, "close", m)
  BY DEF Receive, Understood, Answer

LEMMA ReceiveEnd ==
  ASSUME NEW a \in Nat, NEW m
  PROVE  Receive(Understood(a, "chunked", m), "end") = Understood(a + 1, "idle", FALSE)
  BY DEF Receive, Understood, Answer

LEMMA NextFramed == HeadOK /\ Framed /\ [Next]_vars => Framed'
<1> SUFFICES ASSUME HeadOK, Framed, [Next]_vars PROVE Framed'
  OBVIOUS
<1> USE DEF Framed, Whole, AtWork, Accepts
<1>1. ASSUME NEW q, SendRequest(q) \/ SendToken \/ ClientCloses \/ Overflow \/ Hold \/ UNCHANGED vars PROVE Framed'
  BY <1>1 DEF SendRequest, SendToken, ClientCloses, Hold, Overflow, vars, server, response, stream, history
<1>2. ASSUME StreamFails \/ PeekEnd \/ Unwind PROVE Framed'
  BY <1>2 DEF StreamFails, PeekEnd, Unwind, Close, server, response, history
<1>3. ASSUME ReadHead PROVE Framed'
  BY <1>3 DEF ReadHead, SendContinue, AfterHead, Refusal, stream, Framings, history
<1>4. ASSUME ReadBody \/ BodyEnds PROVE Framed'
  BY <1>4 DEF ReadBody, AfterPart, Refusal, BodyEnds, AtEof, Close, server, response, stream, history,
              HeadOK, Places
<1>5. ASSUME Dispatch PROVE Framed'
  BY <1>5 DEF Dispatch, Refusal, response, stream, history, HeadOK
<1>6. ASSUME NEW f \in {"empty", "length", "chunked"}, HandlerHeaders(f) PROVE Framed'
  BY <1>6 DEF HandlerHeaders, Begin, WriteHeaders, Framing, Framings, Places, history
<1>7. ASSUME NullContent PROVE Framed'
  BY <1>7 DEF NullContent, Begin, WriteHeaders, Framing, Framings, Places, history
<1>8. ASSUME HandlerWrites \/ HandlerWritesAmiss \/ HandlerReturns \/ HandlerIsSilent \/ Interrupted PROVE Framed'
  <2>1. ASSUME HandlerWrites \/ HandlerWritesAmiss PROVE Framed'
    BY <2>1 DEF HandlerWrites, HandlerWritesAmiss, server, response, stream, history, Places
  <2>2. ASSUME HandlerReturns PROVE Framed'
    BY <2>2 DEF HandlerReturns, HasBody, IsHead, HeadOK, server, response, stream, history, Places
  <2>3. ASSUME HandlerIsSilent \/ Interrupted PROVE Framed'
    BY <2>3 DEF HandlerIsSilent, Interrupted, server, response, stream, history, Places
  <2> QED BY <1>8, <2>1, <2>2, <2>3
<1>9. ASSUME NEW next, HandlerThrows(next) PROVE Framed'
  BY <1>9 DEF HandlerThrows, Refusal, server, response, stream, history, Places
<1>10. ASSUME NEW outcome \in {"crashed", "handler"}, ErrorPage \/ NoErrorPage(outcome) PROVE Framed'
  BY <1>10 DEF ErrorPage, NoErrorPage, server, response, stream, history, Places
<1>11. ASSUME FinishWrite PROVE Framed'
  BY <1>11 DEF FinishWrite, response
<1> QED BY <1>1, <1>2, <1>3, <1>4, <1>5, <1>6, <1>7, <1>8, <1>9, <1>10, <1>11 DEF Next, Server

\* What IInv says of the request that is served.
LEMMA Serving ==
  ASSUME IInv
  PROVE  /\ served \in Nat /\ Len(sent) \in Nat
         /\ pc \in AtWork => served - 1 \in Nat /\ served - 1 < Len(sent) /\ r = sent[served - 1 + 1]
<1>1. sent \in Seq(Requests) /\ served \in 0 .. Len(sent)
  BY DEF IInv, SequencesOK
<1>2. Len(sent) \in Nat
  BY <1>1, LenProperties
<1>3. pc \in AtWork => served > 0 /\ r = sent[served]
  BY DEF IInv, Sync
<1> QED BY <1>1, <1>2, <1>3

LEMMA BeginAnswers ==
  ASSUME IInv, AInv, NEW f \in {"empty", "length", "chunked"}, NEW next \in {"writing", "finish"},
         Begin(f, next), pc \in {"handler", "null"}, UNCHANGED <<r, served, keepAlive, sent, stray, faulty>>
  PROVE  Answers'
<1>1. CASE res # "none"
  <2>1. pc' = "unwind"
    BY <1>1 DEF Begin
  <2> QED BY <2>1 DEF Answers
<1>2. CASE res = "none"
  <2>1. SUFFICES ASSUME ~stray, ~faulty, Headed PROVE \E m \in BOOLEAN : written' = Underway(m)'
    BY <1>2, <2>1 DEF Answers, Begin, Headed
  <2>2. PICK m \in BOOLEAN : written = Understood(served - 1, "idle", m)
    BY <1>2, <2>1 DEF AInv, Answers, Underway, AtWork, Places
  <2> DEFINE t == Framing(f)
             a == served - 1
  <2>3. t \in {"empty", "length", "chunked", "close"} /\ res' = t /\ parts' = 0 /\ written' = Receive(written, t)
    BY DEF Begin, WriteHeaders, Write, Framing
  <2>4. a \in Nat /\ a < Len(sent) /\ r = sent[a + 1] /\ a + 1 = served
    BY Serving DEF AtWork, Places
  <2> HIDE DEF t, a
  <2>5. written' = IF t = "empty" \/ r.method = "head" THEN Understood(a + 1, "idle", FALSE)
                   ELSE Understood(a, t, m)
    BY <2>2, <2>3, <2>4, ReceiveHead DEF a
  <2>6. Underway(m)' = IF t = "empty" \/ r.method = "head" THEN Understood(a + 1, "idle", FALSE)
                       ELSE Understood(a, t, m)
    BY <2>3, <2>4 DEF Underway, Whole, Understood, a
  <2> QED BY <2>5, <2>6
<1> QED BY <1>1, <1>2

LEMMA ReadHeadAnswers == ASSUME IInv, AInv, ReadHead PROVE Answers'
<1> DEFINE q == sent[served + 1]
           interim == Interim(q)
<1>1. /\ pc = "peek" /\ r' = q /\ served' = served + 1 /\ res' = "none" /\ UNCHANGED <<stray, faulty>>
      /\ IF interim THEN written' = Receive(written, "continue") /\ client' = written' /\ buf' = <<>>
         ELSE UNCHANGED <<stream, client>>
      /\ pc' \in {"error", "undocumented", "dispatch", "body"} /\ (pc' = "body" => Accepts(q) /\ q.body # "none")
  BY DEF ReadHead, SendContinue, AfterHead, Refusal, history
<1> HIDE DEF q, interim
<1>2. SUFFICES ASSUME ~stray, ~faulty PROVE Answers'
  BY <1>1 DEF Answers
<1>3. client = written /\ written = Understood(served, "idle", FALSE)
  BY <1>1, <1>2 DEF AInv, Answers
<1>4. served \in Nat /\ served' - 1 = served
  BY <1>1, Serving
<1>5. written' = Understood(served, "idle", interim) /\ client' = written' /\ interim \in BOOLEAN
  BY <1>1, <1>3, ReceiveContinue DEF stream, interim, Interim
<1>6. Underway(interim)' = Understood(served, "idle", interim')
  BY <1>1, <1>4 DEF Underway, Understood
<1>7. \E m \in BOOLEAN : written' = Underway(m)'
  BY <1>1, <1>4, <1>5 DEF Underway, Understood
<1>8. pc' = "body" /\ r'.expect = "continue" => written'.interim
  <2>1. pc' = "body" => q.form # "malformed" /\ q.method = "post"
    BY <1>1 DEF Accepts
  <2>2. written'.interim = interim
    BY <1>5 DEF Understood
  <2> QED BY <1>1, <2>1, <2>2 DEF interim, Interim
<1> QED BY <1>1, <1>5, <1>7, <1>8 DEF Answers

LEMMA FinishAnswers == ASSUME IInv, HeadOK, AInv, FinishWrite PROVE Answers'
<1>1. /\ pc = "finish" /\ written' = Finished /\ client' = Finished
      /\ stray' = (stray \/ (res = "chunked" /\ r.method = "head")) /\ UNCHANGED <<r, served, faulty>>
      /\ pc' = IF keepAlive /\ count > 1 THEN "peek" ELSE "closed"
  BY DEF FinishWrite
<1>2. SUFFICES ASSUME ~stray', ~faulty, pc' = "peek" PROVE Finished = Understood(served, "idle", FALSE)
  BY <1>1 DEF Answers, AtWork
<1>3. /\ ~stray /\ keepAlive /\ Headed
      /\ res # "none" /\ res # "close" /\ res \in Framings /\ (res = "length" => Whole)
  BY <1>1, <1>2 DEF AInv, Framed, Headed, AtWork, Places
<1>4. PICK m \in BOOLEAN : written = Underway(m)
  BY <1>1, <1>2, <1>3 DEF AInv, Answers, AtWork, Places
<1>5. CASE res = "chunked"
  <2>1. ~Whole
    BY <1>1, <1>2, <1>5 DEF Whole
  <2>2. written = Understood(served - 1, "chunked", m) /\ served - 1 \in Nat /\ served - 1 + 1 = served
    BY <1>1, <1>4, <1>5, <2>1, Serving DEF Underway, AtWork, Places
  <2> QED BY <1>5, <2>2, ReceiveEnd DEF Finished
<1>6. CASE res \in {"empty", "length"}
  BY <1>3, <1>4, <1>6 DEF Underway, Whole, Finished
<1> QED BY <1>3, <1>5, <1>6 DEF Framings

LEMMA WriteAnswers == ASSUME IInv, AInv, HandlerWrites PROVE Answers'
<1>1. /\ pc = "writing" /\ pc' = pc /\ HasBody /\ written' = Receive(written, "part") /\ parts' = parts + 1
      /\ UNCHANGED <<r, served, res, stray, faulty>>
  BY DEF HandlerWrites, Write, history
<1>2. SUFFICES ASSUME ~stray, ~faulty, Headed PROVE \E m \in BOOLEAN : written' = Underway(m)'
  BY <1>1, <1>2 DEF Answers, Headed
<1>3. ~Whole /\ res \in {"length", "chunked", "close"} /\ parts \in Nat
  BY <1>1, <1>2 DEF HasBody, IsHead, Headed, Whole, AInv, Framed
<1>4. PICK m \in BOOLEAN : written = Understood(served - 1, res, m)
  BY <1>1, <1>2, <1>3 DEF AInv, Answers, Underway, AtWork, Places
<1>5. served - 1 \in Nat /\ served - 1 + 1 = served
  BY <1>1, Serving DEF AtWork, Places
<1>6. CASE res = "length"
  <2>1. written' = Understood(served, "idle", FALSE)
    BY <1>1, <1>4, <1>5, <1>6, ReceivePart
  <2>2. parts' # 0
    BY <1>1, <1>3
  <2>3. Underway(m)' = Understood(served, "idle", FALSE)
    BY <1>1, <1>6, <2>2 DEF Underway, Whole, Understood
  <2> QED BY <2>1, <2>3
<1>7. CASE res \in {"chunked", "close"}
  <2>1. written' = Understood(served - 1, res, m)
    BY <1>1, <1>4, <1>5, <1>7, ReceivePart
  <2>2. Underway(m)' = Understood(served - 1, res, m)
    BY <1>1, <1>3, <1>7 DEF Underway, Whole, Understood
  <2> QED BY <2>1, <2>2
<1> QED BY <1>3, <1>6, <1>7

LEMMA NextAnswers == IInv /\ HeadOK /\ AInv /\ [Next]_vars => Answers'
<1> SUFFICES ASSUME IInv, HeadOK, AInv, [Next]_vars PROVE Answers'
  OBVIOUS
<1> DEFINE Stays == UNCHANGED <<r, served, res, parts, stray, faulty>>
<1>1. ASSUME Stays, written' = written, pc' = pc, client' = client PROVE Answers'
  BY <1>1 DEF AInv, Answers, Headed, Underway, Whole, Understood
<1>2. ASSUME Stays, written' = written, pc \in AtWork \ {"unwind"}, pc' \notin {"peek", "body"} PROVE Answers'
  BY <1>2 DEF AInv, Answers, Headed, Underway, Whole, Understood
<1>3. ASSUME pc' \in {"closed", "crashed", "unwind"} PROVE Answers'
  BY <1>3 DEF Answers, AtWork
<1>4. ASSUME NEW q, SendRequest(q) \/ SendToken \/ ClientCloses \/ Hold \/ UNCHANGED vars PROVE Answers'
  BY <1>1, <1>4 DEF SendRequest, SendToken, ClientCloses, Hold, vars, server, response, stream, history
<1>5. ASSUME Overflow PROVE Answers'
  <2>1. Stays /\ written' = written /\ pc' = pc /\ pc \notin {"peek", "body"}
    BY <1>5 DEF Overflow, server, response, history, AInv, Framed
  <2> QED BY <2>1 DEF AInv, Answers, Headed, Underway, Whole, Understood
<1>6. ASSUME StreamFails \/ PeekEnd \/ Unwind PROVE Answers'
  BY <1>3, <1>6 DEF StreamFails, PeekEnd, Unwind, Close
<1>7. ASSUME ReadBody PROVE Answers'
  <2>1. Stays /\ UNCHANGED <<written, client>> /\ pc = "body" /\ pc' \in {"body", "dispatch"} \cup Refusal
    BY <1>7 DEF ReadBody, AfterPart, server, response, stream, history
  <2> QED BY <1>1, <1>2, <2>1 DEF Refusal, AtWork, Places
<1>8. ASSUME BodyEnds PROVE Answers'
  BY <1>2, <1>3, <1>8 DEF BodyEnds, AtEof, server, response, stream, AtWork, Places
<1>9. ASSUME Dispatch PROVE Answers'
  BY <1>2, <1>9 DEF Dispatch, Refusal, response, stream, history, AtWork, Places
<1>10. ASSUME NEW f \in {"empty", "length", "chunked"}, HandlerHeaders(f) PROVE Answers'
  BY <1>10, BeginAnswers DEF HandlerHeaders, request, history
<1>11. ASSUME NullContent PROVE Answers'
  BY <1>11, BeginAnswers DEF NullContent, request, history
<1>12. ASSUME HandlerWritesAmiss \/ HandlerIsSilent PROVE Answers'
  BY <1>12 DEF HandlerWritesAmiss, HandlerIsSilent, Answers
<1>13. ASSUME HandlerReturns PROVE Answers'
  <2>1. CASE faulty'
    BY <2>1 DEF Answers
  <2>2. CASE ~faulty'
    <3>1. faulty' = (faulty \/ (res = "length" /\ HasBody))
      BY <1>13 DEF HandlerReturns
    <3>2. ~faulty
      BY <2>2, <3>1, Zenon
    <3>3. UNCHANGED <<r, served, res, parts, stray, written>> /\ pc = "writing" /\ pc' = "finish"
      BY <1>13 DEF HandlerReturns, server, response, stream
    <3>4. ~stray /\ Headed => \E m \in BOOLEAN : written = Underway(m)
      BY <3>2, <3>3 DEF AInv, Answers, AtWork, Places
    <3>5. \A m : Underway(m)' = Underway(m)
      BY <3>3 DEF Underway, Whole, Understood
    <3> QED BY <3>2, <3>3, <3>4, <3>5 DEF Answers, Headed
  <2> QED BY <2>1, <2>2
<1>14. ASSUME Interrupted PROVE Answers'
  BY <1>3, <1>14 DEF Interrupted
<1>15. ASSUME NEW next \in {"error", "undocumented", "null", "unwind"}, HandlerThrows(next) PROVE Answers'
  BY <1>2, <1>15 DEF HandlerThrows, Refusal, server, response, stream, history, AtWork, Places
<1>16. ASSUME NEW outcome \in {"crashed", "handler"}, ErrorPage \/ NoErrorPage(outcome) PROVE Answers'
  BY <1>2, <1>16 DEF ErrorPage, NoErrorPage, server, response, stream, history, AtWork, Places
<1> QED BY <1>4, <1>5, <1>6, <1>7, <1>8, <1>9, <1>10, <1>11, <1>12, <1>13, <1>14, <1>15, <1>16,
           ReadHeadAnswers, WriteAnswers, FinishAnswers DEF Next, Server

LEMMA AnswersInv == Spec => [](IInv /\ AInv)
<1>1. Init => HeadOK /\ AInv
  BY HttpAssumption DEF Init, HeadOK, AInv, Answers, Framed, Framings, Understood, AtWork
<1>2. Spec => [](IInv /\ HeadOK /\ AInv)
  BY <1>1, InitSync, NextSync, NextHead, NextFramed, NextAnswers, PTL DEF Spec, AInv
<1> QED BY <1>2, PTL

\* However many requests a connection serves, and whatever handlers and error pages write: when the
\* loop takes up the next request, the client has understood one whole answer to each before it,
\* except after a chunked answer to HEAD or a write that failed unnoticed
\* (http_server_context.hpp:231-351, http_server.hpp:27-130).
THEOREM OneAnswerEach == Spec => []AnsweredInOrder
<1>1. AInv => AnsweredInOrder
  BY DEF AInv, Answers, AnsweredInOrder, Understood
<1> QED BY <1>1, AnswersInv, PTL

\* A client that holds its body back until it is told to continue, and a server that waits for that
\* body, never wait for each other, however many requests the client has sent ahead
\* (http_server_context.hpp:144-163).
THEOREM NobodyWaits == Spec => []NoStandoff
<1>1. ASSUME IInv, AInv PROVE NoStandoff
  <2>1. SUFFICES ASSUME WaitsForContinue, pc \in {"peek", "body"}, input = <<>>, ~stray, ~faulty PROVE FALSE
    BY DEF NoStandoff
  <2>2. client = written /\ toSend # <<>> /\ Head(toSend) # "head"
    BY <1>1, <2>1 DEF AInv, Answers, WaitsForContinue
  <2>3. CASE pc = "body"
    <3>1. PICK p \in 2 .. Size(r) : From(served, p, Unread, sent)
      BY <1>1, <2>3 DEF IInv, Sync
    <3>2. r = sent[served] /\ r \in RequestType
      BY <1>1, <2>3, ElementOfSeq, HttpAssumption DEF IInv, Sync, AtWork, Places, SequencesOK
    <3>3. p \in Nat \ {0, 1}
      BY <3>1, <3>2, TokensAre
    <3>4. served = Len(sent)
      BY <1>1, <2>1, <2>2, <3>1, <3>3, LastIsServed DEF IInv
    <3>5. written.interim
      BY <1>1, <2>1, <2>3, <3>2, <3>4 DEF AInv, Answers, WaitsForContinue
    <3> QED BY <2>1, <2>2, <3>5 DEF WaitsForContinue
  <2>4. CASE pc = "peek"
    <3>1. client.answered = served
      BY <1>1, <2>1, <2>2, <2>4 DEF AInv, Answers, Understood
    <3>2. ~LastBegun
      BY <2>1, <2>2, <3>1, Serving, <1>1 DEF WaitsForContinue, LastBegun
    <3>3. From(served + 1, 1, Unread, sent)
      BY <1>1, <2>4, <3>2 DEF IInv, Sync, Aligned
    <3>4. /\ sent \in Seq(Requests) /\ Unread = toSend /\ toSend \in Seq(Token)
      BY <1>1, <2>1, ConcatEmptySeq DEF IInv, SequencesOK, Unread
    <3>5. served + 1 \in 1 .. Len(sent) /\ Head(toSend) = Tokens(sent[served + 1])[1]
      BY <2>2, <3>3, <3>4, FromTail
    <3>6. sent[served + 1] \in RequestType
      BY <3>4, <3>5, ElementOfSeq, HttpAssumption
    <3> QED BY <2>2, <3>5, <3>6, TokensAre
  <2> QED BY <2>1, <2>3, <2>4
<1> QED BY <1>1, AnswersInv, PTL
-----------------------------------------------------------------------------
\* Header fields: what the peer writes.

fields == v1
chars == v2
pos == v3
mode == v4
token == v5
lws == v6
result == v7

HeaderChars == {"k", "x", ":", "cr", "lf", "sp", "next"}
NameChars == {"k", "x"}
ValuePieces == {"x", "sp", "fold"}
Field == [name : Seq(NameChars), value : Seq(ValuePieces)]

\* A function of pieces and what the first of them make, flattened.
Composed(q) == CHOOSE made : Parts(made, q, HeaderChars) /\ Headers!FlattenSeq(q) = made[Len(q)]

LEMMA MadeIs ==
  ASSUME NEW q, Len(q) \in Nat, \A i \in 1 .. Len(q) : q[i] \in Seq(HeaderChars), Len(q) = 0 => q = <<>>
  PROVE  Parts(Composed(q), q, HeaderChars) /\ Headers!FlattenSeq(q) = Composed(q)[Len(q)]
<1>1. Headers!FlattenSeq(q) = Bodies!FlattenSeq(q)
  BY DEF Headers!FlattenSeq, Bodies!FlattenSeq
<1>2. \E made : Parts(made, q, HeaderChars) /\ Headers!FlattenSeq(q) = made[Len(q)]
  BY <1>1, FlattenParts
<1> QED BY <1>2, Zenon DEF Composed

\* The characters of a value's pieces, and where each piece ends among them.
Spelling(v) == [k \in DOMAIN v |-> Headers!Chars(v[k])]
Spelt(v) == Composed(Spelling(v))
Reach(v, m) == Len(Spelt(v)[m])

LEMMA CharsOfPiece ==
  ASSUME NEW p \in ValuePieces
  PROVE  /\ Headers!Chars(p) \in Seq(HeaderChars)
         /\ p = "fold" => /\ Len(Headers!Chars(p)) = 3 /\ Headers!Chars(p)[1] = "cr" /\ Headers!Chars(p)[2] = "lf"
                          /\ Headers!Chars(p)[3] = "sp"
         /\ p # "fold" => Len(Headers!Chars(p)) = 1 /\ Headers!Chars(p)[1] = p
<1>1. CASE p = "fold"
  <2>1. Headers!Chars(p) = <<"cr", "lf", "sp">>
    BY <1>1 DEF Headers!Chars
  <2> DEFINE c == <<"cr", "lf", "sp">>
  <2>2. "cr" \in HeaderChars /\ "lf" \in HeaderChars /\ "sp" \in HeaderChars
    BY DEF HeaderChars
  <2>3. c \in Seq(HeaderChars) /\ Len(c) = 3 /\ c[1] = "cr" /\ c[2] = "lf" /\ c[3] = "sp"
    BY <2>2
  <2> HIDE DEF c
  <2>4. Headers!Chars(p) = c
    BY <2>1 DEF c
  <2> QED BY <1>1, <2>3, <2>4
<1>2. CASE p # "fold"
  <2>1. Headers!Chars(p) = <<p>>
    BY <1>2 DEF Headers!Chars
  <2>2. p \in HeaderChars
    BY <1>2 DEF ValuePieces, HeaderChars
  <2> QED BY <1>2, <2>1, <2>2
<1> QED BY <1>1, <1>2

LEMMA SpellingIs ==
  ASSUME NEW v \in Seq(ValuePieces)
  PROVE  /\ Len(v) \in Nat /\ Len(Spelling(v)) = Len(v)
         /\ \A k \in 1 .. Len(v) : /\ v[k] \in ValuePieces /\ Spelling(v)[k] = Headers!Chars(v[k])
                                   /\ Spelling(v)[k] \in Seq(HeaderChars)
         /\ Parts(Spelt(v), Spelling(v), HeaderChars)
         /\ Headers!FlattenSeq(Spelling(v)) = Spelt(v)[Len(v)]
<1>1. Len(v) \in Nat /\ DOMAIN v = 1 .. Len(v) /\ \A k \in 1 .. Len(v) : v[k] \in ValuePieces
  OBVIOUS
<1> DEFINE q == Spelling(v)
<1>2. Len(q) = Len(v) /\ \A k \in 1 .. Len(v) : q[k] = Headers!Chars(v[k])
  BY <1>1 DEF Spelling
<1>3. \A k \in 1 .. Len(v) : q[k] \in Seq(HeaderChars)
  BY <1>1, <1>2, CharsOfPiece
<1>4. Len(q) = 0 => q = <<>>
  <2>1. Len(v) = 0 => v = <<>>
    BY <1>1
  <2> QED BY <1>2, <2>1 DEF Spelling
<1> HIDE DEF q
<1>5. Parts(Composed(q), q, HeaderChars) /\ Headers!FlattenSeq(q) = Composed(q)[Len(q)]
  BY <1>1, <1>2, <1>3, <1>4, MadeIs
<1> QED BY <1>1, <1>2, <1>3, <1>5 DEF q, Spelt

\* Piece m of a value, among its characters.
LEMMA PieceSpelt ==
  ASSUME NEW v \in Seq(ValuePieces), NEW m \in 1 .. Len(v)
  PROVE  /\ Reach(v, m - 1) \in Nat /\ Reach(v, Len(v)) \in Nat /\ Reach(v, m) <= Reach(v, Len(v))
         /\ v[m] = "fold" => /\ Reach(v, m) = Reach(v, m - 1) + 3
                             /\ Spelt(v)[Len(v)][Reach(v, m - 1) + 1] = "cr"
                             /\ Spelt(v)[Len(v)][Reach(v, m - 1) + 2] = "lf"
                             /\ Spelt(v)[Len(v)][Reach(v, m - 1) + 3] = "sp"
         /\ v[m] # "fold" => /\ Reach(v, m) = Reach(v, m - 1) + 1
                             /\ Spelt(v)[Len(v)][Reach(v, m - 1) + 1] = v[m]
<1> DEFINE n == Len(v)
           q == Spelling(v)
           made == Spelt(v)
<1>1. /\ n \in Nat /\ Len(q) = n /\ (\A k \in 1 .. n : q[k] \in Seq(HeaderChars)) /\ Parts(made, q, HeaderChars)
      /\ q[m] = Headers!Chars(v[m]) /\ v[m] \in ValuePieces
  BY SpellingIs
<1> HIDE DEF n, q, made
<1>2. m \in 1 .. n
  BY DEF n
<1>3. /\ Len(made[m - 1]) \in Nat /\ Len(q[m]) \in Nat /\ Len(made[n]) \in Nat
      /\ Len(made[m]) = Len(made[m - 1]) + Len(q[m]) /\ Len(made[m]) <= Len(made[n])
      /\ \A y \in 1 .. Len(q[m]) : made[n][Len(made[m - 1]) + y] = q[m][y]
  <2>1. Assembled(q, n, HeaderChars, made)
    BY <1>1 DEF Assembled
  <2>2. Lies(q, n, made, m)
    BY <1>2, <2>1, PartThere
  <2> QED BY <2>2 DEF Lies
<1>4. ASSUME v[m] = "fold"
      PROVE  /\ Len(made[m]) = Len(made[m - 1]) + 3 /\ made[n][Len(made[m - 1]) + 1] = "cr"
             /\ made[n][Len(made[m - 1]) + 2] = "lf" /\ made[n][Len(made[m - 1]) + 3] = "sp"
  <2>1. Len(q[m]) = 3 /\ q[m][1] = "cr" /\ q[m][2] = "lf" /\ q[m][3] = "sp"
    BY <1>1, <1>4, CharsOfPiece
  <2>2. 1 \in 1 .. 3 /\ 2 \in 1 .. 3 /\ 3 \in 1 .. 3
    OBVIOUS
  <2> QED BY <1>3, <2>1, <2>2
<1>5. ASSUME v[m] # "fold"
      PROVE  Len(made[m]) = Len(made[m - 1]) + 1 /\ made[n][Len(made[m - 1]) + 1] = v[m]
  <2>1. Len(q[m]) = 1 /\ q[m][1] = v[m]
    BY <1>1, <1>5, CharsOfPiece
  <2>2. 1 \in 1 .. 1
    OBVIOUS
  <2> QED BY <1>3, <2>1, <2>2
<1> QED BY <1>3, <1>4, <1>5, Zenon DEF Reach, n, made

\* The line of a field.
LEMMA LineSpelt ==
  ASSUME NEW f \in Field
  PROVE  LET l == Headers!Line(f)
             a == Len(f.name)
             s == Spelt(f.value)[Len(f.value)]
         IN /\ l \in Seq(HeaderChars) /\ a \in Nat /\ Len(s) \in Nat /\ Len(l) = a + Len(s) + 3
            /\ \A x \in 1 .. a : l[x] = f.name[x] /\ f.name[x] \in NameChars
            /\ l[a + 1] = ":" /\ \A x \in 1 .. Len(s) : l[a + 1 + x] = s[x]
            /\ l[a + Len(s) + 2] = "cr" /\ l[a + Len(s) + 3] = "lf"
<1> DEFINE name == f.name
           v == f.value
           s == Spelt(v)[Len(v)]
           colon == <<":">>
           crlf == <<"cr", "lf">>
           p == name \o colon
           q == p \o s
           l == q \o crlf
           a == Len(name)
           b == Len(s)
<1>1. name \in Seq(NameChars) /\ v \in Seq(ValuePieces)
  BY DEF Field
<1>2. Headers!Line(f) = l
  <2>1. Headers!FlattenSeq(Spelling(v)) = s
    BY <1>1, SpellingIs
  <2> QED BY <2>1 DEF Headers!Line, Spelling
<1>3. name \in Seq(HeaderChars) /\ \A x \in 1 .. a : name[x] \in NameChars
  <2>1. NameChars \subseteq HeaderChars
    BY DEF NameChars, HeaderChars
  <2>2. \A V, W : V \subseteq W => \A z \in Seq(V) : z \in Seq(W)
    OBVIOUS
  <2> QED BY <1>1, <2>1, <2>2
<1>4. /\ colon \in Seq(HeaderChars) /\ Len(colon) = 1 /\ colon[1] = ":"
      /\ crlf \in Seq(HeaderChars) /\ Len(crlf) = 2 /\ crlf[1] = "cr" /\ crlf[2] = "lf"
  BY DEF HeaderChars
<1>5. s \in Seq(HeaderChars)
  <2>1. /\ Parts(Spelt(v), Spelling(v), HeaderChars) /\ Len(v) \in Nat /\ Len(Spelling(v)) = Len(v)
    BY <1>1, SpellingIs
  <2>2. Len(v) \in 0 .. Len(v)
    BY <2>1
  <2> QED BY <2>1, <2>2 DEF Parts
<1> HIDE DEF name, v, s, colon, crlf
<1>6. /\ p \in Seq(HeaderChars) /\ a \in Nat /\ Len(p) = a + 1
      /\ (\A x \in 1 .. a : p[x] = name[x]) /\ p[a + 1] = ":"
  <2>0. name \in Seq(HeaderChars) /\ colon \in Seq(HeaderChars)
    BY <1>3, <1>4
  <2>1. p \in Seq(HeaderChars) /\ a \in Nat /\ Len(p) = a + Len(colon)
    BY <2>0, Behind
  <2>2. \A x \in 1 .. a : p[x] = name[x]
    BY <2>0, Behind
  <2>3. \A x \in 1 .. Len(colon) : p[a + x] = colon[x]
    BY <2>0, Behind
  <2>4. p[a + 1] = colon[1]
    <3>1. 1 \in 1 .. Len(colon)
      BY <1>4
    <3> QED BY <2>3, <3>1
  <2> QED BY <1>4, <2>1, <2>2, <2>4
<1> HIDE DEF p
<1>7. /\ q \in Seq(HeaderChars) /\ b \in Nat /\ Len(q) = a + 1 + b
      /\ (\A x \in 1 .. a + 1 : q[x] = p[x]) /\ (\A x \in 1 .. b : q[a + 1 + x] = s[x])
  <2>0. p \in Seq(HeaderChars) /\ s \in Seq(HeaderChars)
    BY <1>5, <1>6
  <2>1. q \in Seq(HeaderChars) /\ b \in Nat /\ Len(q) = Len(p) + b
    BY <2>0, Behind
  <2>2. \A x \in 1 .. Len(p) : q[x] = p[x]
    BY <2>0, Behind
  <2>3. \A x \in 1 .. b : q[Len(p) + x] = s[x]
    BY <2>0, Behind
  <2> QED BY <1>6, <2>1, <2>2, <2>3
<1> HIDE DEF q
<1>8. /\ l \in Seq(HeaderChars) /\ Len(l) = a + 1 + b + 2
      /\ (\A x \in 1 .. a + 1 + b : l[x] = q[x]) /\ l[a + 1 + b + 1] = "cr" /\ l[a + 1 + b + 2] = "lf"
  <2>0. q \in Seq(HeaderChars) /\ crlf \in Seq(HeaderChars)
    BY <1>4, <1>7
  <2>1. l \in Seq(HeaderChars) /\ Len(l) = Len(q) + Len(crlf)
    BY <2>0, Behind
  <2>2. \A x \in 1 .. Len(q) : l[x] = q[x]
    BY <2>0, Behind
  <2>3. \A x \in 1 .. Len(crlf) : l[Len(q) + x] = crlf[x]
    BY <2>0, Behind
  <2>4. l[Len(q) + 1] = crlf[1] /\ l[Len(q) + 2] = crlf[2]
    <3>1. 1 \in 1 .. Len(crlf) /\ 2 \in 1 .. Len(crlf)
      BY <1>4
    <3> QED BY <2>3, <3>1
  <2> QED BY <1>4, <1>7, <2>1, <2>2, <2>4
<1> HIDE DEF l
<1>9. /\ \A x \in 1 .. a : l[x] = name[x]
      /\ l[a + 1] = ":" /\ \A x \in 1 .. b : l[a + 1 + x] = s[x]
  <2> HIDE DEF a, b
  <2>1. ASSUME NEW x \in 1 .. a PROVE l[x] = name[x]
    <3>1. x \in 1 .. a + 1 /\ x \in 1 .. a + 1 + b
      BY <1>6, <1>7
    <3> QED BY <1>6, <1>7, <1>8, <3>1
  <2>2. l[a + 1] = ":"
    <3>1. a + 1 \in 1 .. a + 1 /\ a + 1 \in 1 .. a + 1 + b
      BY <1>6, <1>7
    <3> QED BY <1>6, <1>7, <1>8, <3>1
  <2>3. ASSUME NEW x \in 1 .. b PROVE l[a + 1 + x] = s[x]
    <3>1. a + 1 + x \in 1 .. a + 1 + b
      BY <1>6, <1>7
    <3> QED BY <1>7, <1>8, <3>1
  <2> QED BY <2>1, <2>2, <2>3
<1>10. /\ Len(l) = a + b + 3 /\ l[a + b + 2] = "cr" /\ l[a + b + 3] = "lf"
  <2> HIDE DEF a, b
  <2>1. a + 1 + b + 1 = a + b + 2 /\ a + 1 + b + 2 = a + b + 3
    BY <1>6, <1>7
  <2> QED BY <1>8, <2>1
<1> QED BY <1>2, <1>3, <1>6, <1>7, <1>8, <1>9, <1>10, Zenon DEF name, v, s

\* The lines of fields, and where each ends in the chars.
Lining(fs) == [i \in DOMAIN fs |-> Headers!Line(fs[i])]
Lined(fs) == Composed(Lining(fs))
Ends(i) == Len(Lined(fields)[i])

HeadTypes == fields \in Seq(Field) /\ chars = Headers!Render(fields)

LEMMA LiningIs ==
  ASSUME NEW fs \in Seq(Field)
  PROVE  /\ Assembled(Lining(fs), Len(fs), HeaderChars, Lined(fs))
         /\ \A i \in 1 .. Len(fs) : fs[i] \in Field /\ Lining(fs)[i] = Headers!Line(fs[i])
         /\ Headers!FlattenSeq(Lining(fs)) = Lined(fs)[Len(fs)]
<1>1. Len(fs) \in Nat /\ DOMAIN fs = 1 .. Len(fs) /\ \A i \in 1 .. Len(fs) : fs[i] \in Field
  OBVIOUS
<1> DEFINE q == Lining(fs)
<1>2. Len(q) = Len(fs) /\ \A i \in 1 .. Len(fs) : q[i] = Headers!Line(fs[i])
  BY <1>1 DEF Lining
<1>3. \A i \in 1 .. Len(fs) : q[i] \in Seq(HeaderChars)
  <2> SUFFICES ASSUME NEW i \in 1 .. Len(fs) PROVE q[i] \in Seq(HeaderChars)
    OBVIOUS
  <2>1. Headers!Line(fs[i]) \in Seq(HeaderChars)
    BY <1>1, LineSpelt
  <2> QED BY <1>2, <2>1
<1>4. Len(q) = 0 => q = <<>>
  <2>1. Len(fs) = 0 => fs = <<>>
    BY <1>1
  <2> QED BY <1>2, <2>1 DEF Lining
<1> HIDE DEF q
<1>5. Parts(Composed(q), q, HeaderChars) /\ Headers!FlattenSeq(q) = Composed(q)[Len(q)]
  BY <1>1, <1>2, <1>3, <1>4, MadeIs
<1> QED BY <1>1, <1>2, <1>3, <1>5 DEF q, Lined, Assembled

LEMMA Layout ==
  ASSUME HeadTypes
  PROVE  /\ Len(fields) \in Nat /\ Ends(0) = 0 /\ Ends(Len(fields)) \in Nat
         /\ Len(chars) = Ends(Len(fields)) + 3 /\ chars[Ends(Len(fields)) + 1] = "cr"
         /\ chars[Ends(Len(fields)) + 2] = "lf" /\ chars[Ends(Len(fields)) + 3] = "next"
         /\ StartsWith(chars, Lined(fields)[Len(fields)])
<1> DEFINE n == Len(fields)
           w == Lined(fields)[n]
           t == <<"cr", "lf", "next">>
<1>1. Assembled(Lining(fields), n, HeaderChars, Lined(fields)) /\ Headers!FlattenSeq(Lining(fields)) = w
  BY LiningIs DEF HeadTypes
<1>2. n \in Nat /\ w \in Seq(HeaderChars) /\ Lined(fields)[0] = <<>>
  <2>1. n \in Nat
    BY <1>1 DEF Assembled
  <2>2. n \in 0 .. n
    BY <2>1
  <2> QED BY <1>1, <2>1, <2>2 DEF Assembled, Parts
<1>3. t \in Seq(HeaderChars) /\ Len(t) = 3 /\ t[1] = "cr" /\ t[2] = "lf" /\ t[3] = "next"
  <2>1. "cr" \in HeaderChars /\ "lf" \in HeaderChars /\ "next" \in HeaderChars
    BY DEF HeaderChars
  <2> QED BY <2>1
<1>4. chars = w \o t
  BY <1>1 DEF HeadTypes, Headers!Render, Lining
<1> HIDE DEF w, t
<1>5. w \in Seq(HeaderChars) /\ t \in Seq(HeaderChars)
  BY <1>2, <1>3
<1>6. Len(w) \in Nat /\ Len(chars) = Len(w) + Len(t)
  BY <1>4, <1>5, Behind
<1>7. \A x \in 1 .. Len(t) : chars[Len(w) + x] = t[x]
  BY <1>4, <1>5, Behind
<1>8. StartsWith(chars, w)
  BY <1>4, <1>5, JoinStarts
<1>9. 1 \in 1 .. Len(t) /\ 2 \in 1 .. Len(t) /\ 3 \in 1 .. Len(t)
  BY <1>3
<1>10. chars[Len(w) + 1] = "cr" /\ chars[Len(w) + 2] = "lf" /\ chars[Len(w) + 3] = "next"
  BY <1>3, <1>7, <1>9
<1>11. Ends(0) = 0
  BY <1>2 DEF Ends
<1> QED BY <1>2, <1>3, <1>6, <1>8, <1>10, <1>11 DEF Ends, w

Origin(i) == Ends(i - 1) + Len(fields[i].name) + 1
Last(i) == Len(fields[i].value)

\* Field i in the chars.
FieldAt(i) ==
  /\ fields[i] \in Field /\ Ends(i - 1) \in Nat /\ Len(fields[i].name) \in Nat /\ Last(i) \in Nat
  /\ Reach(fields[i].value, Last(i)) \in Nat
  /\ Ends(i) = Origin(i) + Reach(fields[i].value, Last(i)) + 2 /\ Ends(i) <= Ends(Len(fields))
  /\ \A x \in 1 .. Len(fields[i].name) : /\ chars[Ends(i - 1) + x] = fields[i].name[x]
                                         /\ fields[i].name[x] \in NameChars
  /\ chars[Origin(i)] = ":"
  /\ \A x \in 1 .. Reach(fields[i].value, Last(i)) : chars[Origin(i) + x] = Spelt(fields[i].value)[Last(i)][x]
  /\ chars[Ends(i) - 1] = "cr" /\ chars[Ends(i)] = "lf"

LEMMA FieldThere ==
  ASSUME HeadTypes, NEW i \in 1 .. Len(fields)
  PROVE  FieldAt(i)
<1> DEFINE n == Len(fields)
           f == fields[i]
           l == Headers!Line(f)
           a == Len(f.name)
           s == Spelt(f.value)[Len(f.value)]
           b == Len(s)
           e == Ends(i - 1)
<1>1. /\ Assembled(Lining(fields), n, HeaderChars, Lined(fields)) /\ f \in Field /\ Lining(fields)[i] = l
  BY LiningIs DEF HeadTypes
<1>2. Lies(Lining(fields), n, Lined(fields), i)
  BY <1>1, PartThere
<1>3. /\ a \in Nat /\ b \in Nat /\ Len(l) = a + b + 3
      /\ \A x \in 1 .. a : l[x] = f.name[x] /\ f.name[x] \in NameChars
      /\ l[a + 1] = ":" /\ \A x \in 1 .. b : l[a + 1 + x] = s[x]
      /\ l[a + b + 2] = "cr" /\ l[a + b + 3] = "lf"
  BY <1>1, LineSpelt
<1>4. Len(f.value) \in Nat
  <2>1. f.value \in Seq(ValuePieces)
    BY <1>1 DEF Field
  <2> QED BY <2>1
<1>5. /\ e \in Nat /\ Ends(n) \in Nat /\ Ends(i) = e + Len(l) /\ Ends(i) <= Ends(n)
      /\ \A y \in 1 .. Len(l) : Lined(fields)[n][e + y] = l[y]
  BY <1>1, <1>2 DEF Lies, Ends
<1>6. \A y \in 1 .. Ends(n) : chars[y] = Lined(fields)[n][y]
  BY Layout DEF StartsWith, Ends
<1> HIDE DEF n, f, l, s, e
<1>7. ASSUME NEW y \in 1 .. Len(l) PROVE chars[e + y] = l[y]
  <2>1. e + y \in 1 .. Ends(n)
    BY <1>3, <1>5
  <2> QED BY <1>5, <1>6, <2>1
<1> HIDE DEF a, b
<1>8. \A x \in 1 .. a : chars[e + x] = f.name[x] /\ f.name[x] \in NameChars
  <2> SUFFICES ASSUME NEW x \in 1 .. a PROVE chars[e + x] = f.name[x] /\ f.name[x] \in NameChars
    OBVIOUS
  <2>1. x \in 1 .. Len(l)
    BY <1>3
  <2> QED BY <1>3, <1>7, <2>1
<1>9. chars[e + a + 1] = ":"
  <2>1. a + 1 \in 1 .. Len(l) /\ e + (a + 1) = e + a + 1
    BY <1>3, <1>5
  <2>2. chars[e + (a + 1)] = l[a + 1]
    BY <1>7, <2>1
  <2> QED BY <1>3, <2>1, <2>2
<1>10. \A x \in 1 .. b : chars[e + a + 1 + x] = s[x]
  <2> SUFFICES ASSUME NEW x \in 1 .. b PROVE chars[e + a + 1 + x] = s[x]
    OBVIOUS
  <2>1. a + 1 + x \in 1 .. Len(l) /\ e + (a + 1 + x) = e + a + 1 + x
    BY <1>3, <1>5
  <2>2. chars[e + (a + 1 + x)] = l[a + 1 + x]
    BY <1>7, <2>1
  <2> QED BY <1>3, <2>1, <2>2
<1>11. Ends(i) = e + a + 1 + b + 2 /\ chars[Ends(i) - 1] = "cr" /\ chars[Ends(i)] = "lf"
  <2> DEFINE z == Ends(i)
  <2>1. z = e + Len(l)
    BY <1>5
  <2> HIDE DEF z
  <2>2. /\ a + b + 2 \in 1 .. Len(l) /\ a + b + 3 \in 1 .. Len(l) /\ e + (a + b + 2) = z - 1 /\ e + (a + b + 3) = z
        /\ z = e + a + 1 + b + 2
    BY <1>3, <1>5, <2>1
  <2>3. chars[e + (a + b + 2)] = l[a + b + 2] /\ chars[e + (a + b + 3)] = l[a + b + 3]
    BY <1>7, <2>2
  <2>4. chars[z - 1] = "cr" /\ chars[z] = "lf"
    BY <1>3, <2>2, <2>3
  <2> QED BY <2>2, <2>4 DEF z
<1>12. Origin(i) = e + a + 1 /\ Last(i) = Len(f.value) /\ Reach(f.value, Len(f.value)) = b
  BY DEF Origin, Last, Reach, e, a, b, s, f
<1> QED BY <1>1, <1>3, <1>4, <1>5, <1>8, <1>9, <1>10, <1>11, <1>12 DEF FieldAt, f, a, e, s, n

LEMMA OriginIs == ASSUME HeadTypes, NEW i \in 1 .. Len(fields) PROVE Origin(i) \in Nat
<1>1. Ends(i - 1) \in Nat /\ Len(fields[i].name) \in Nat
  BY FieldThere DEF FieldAt
<1> QED BY <1>1 DEF Origin

\* Where piece m of the value of field i ends.
At(i, m) == Origin(i) + Reach(fields[i].value, m)

PieceAt(i, m) ==
  /\ At(i, m - 1) \in Nat /\ At(i, m) + 2 <= Ends(i) /\ Ends(i) = At(i, Last(i)) + 2
  /\ fields[i].value[m] \in ValuePieces
  /\ fields[i].value[m] = "fold" => /\ At(i, m) = At(i, m - 1) + 3 /\ chars[At(i, m - 1) + 1] = "cr"
                                    /\ chars[At(i, m - 1) + 2] = "lf" /\ chars[At(i, m - 1) + 3] = "sp"
  /\ fields[i].value[m] # "fold" => /\ At(i, m) = At(i, m - 1) + 1
                                    /\ chars[At(i, m - 1) + 1] = fields[i].value[m]

LEMMA PieceThereAt ==
  ASSUME HeadTypes, NEW i \in 1 .. Len(fields), NEW m \in 1 .. Last(i)
  PROVE  PieceAt(i, m)
<1> DEFINE v == fields[i].value
           b == Reach(v, Last(i))
           z0 == Reach(v, m - 1)
           s == Spelt(v)[Last(i)]
           o == Origin(i)
<1>1. FieldAt(i)
  BY FieldThere
<1>2. /\ o \in Nat /\ b \in Nat /\ Last(i) \in Nat /\ v \in Seq(ValuePieces) /\ Ends(i) = o + b + 2
      /\ \A x \in 1 .. b : chars[o + x] = s[x]
  BY <1>1, OriginIs DEF FieldAt, Field
<1>3. m \in 1 .. Len(v) /\ v[m] \in ValuePieces
  BY <1>2 DEF Last
<1>4. /\ z0 \in Nat /\ Reach(v, m) <= b
      /\ v[m] = "fold" => /\ Reach(v, m) = z0 + 3 /\ s[z0 + 1] = "cr" /\ s[z0 + 2] = "lf" /\ s[z0 + 3] = "sp"
      /\ v[m] # "fold" => Reach(v, m) = z0 + 1 /\ s[z0 + 1] = v[m]
  BY <1>2, <1>3, PieceSpelt DEF Last
<1> DEFINE z == Reach(v, m)
<1>5. At(i, m - 1) = o + z0 /\ At(i, m) = o + z /\ At(i, Last(i)) = o + b
  BY DEF At
<1> HIDE DEF v, b, z0, s, o, z
<1>6. CASE v[m] = "fold"
  <2>1. z = z0 + 3 /\ s[z0 + 1] = "cr" /\ s[z0 + 2] = "lf" /\ s[z0 + 3] = "sp" /\ z <= b
    BY <1>4, <1>6 DEF z
  <2>2. /\ z0 + 1 \in 1 .. b /\ z0 + 2 \in 1 .. b /\ z0 + 3 \in 1 .. b
        /\ o + (z0 + 1) = o + z0 + 1 /\ o + (z0 + 2) = o + z0 + 2 /\ o + (z0 + 3) = o + z0 + 3
    BY <1>2, <1>4, <2>1
  <2>3. chars[o + (z0 + 1)] = "cr" /\ chars[o + (z0 + 2)] = "lf" /\ chars[o + (z0 + 3)] = "sp"
    BY <1>2, <2>1, <2>2
  <2>4. o + z0 \in Nat /\ o + z = o + z0 + 3 /\ (o + z) + 2 <= Ends(i) /\ Ends(i) = (o + b) + 2
    BY <1>2, <1>4, <2>1
  <2> QED BY <1>3, <1>5, <1>6, <2>2, <2>3, <2>4 DEF PieceAt, v
<1>7. CASE v[m] # "fold"
  <2>1. z = z0 + 1 /\ s[z0 + 1] = v[m] /\ z <= b
    BY <1>4, <1>7 DEF z
  <2>2. z0 + 1 \in 1 .. b /\ o + (z0 + 1) = o + z0 + 1
    BY <1>2, <1>4, <2>1
  <2>3. chars[o + (z0 + 1)] = v[m]
    BY <1>2, <2>1, <2>2
  <2>4. o + z0 \in Nat /\ o + z = o + z0 + 1 /\ (o + z) + 2 <= Ends(i) /\ Ends(i) = (o + b) + 2
    BY <1>2, <1>4, <2>1
  <2> QED BY <1>3, <1>5, <1>7, <2>2, <2>3, <2>4 DEF PieceAt, v
<1> QED BY <1>6, <1>7

\* The characters after a line, which tell whether the line before goes on and whether another one comes.
LEMMA AfterLine ==
  ASSUME HeadTypes, NEW i \in 0 .. Len(fields)
  PROVE  /\ Ends(i) \in Nat /\ Ends(i) + 3 <= Len(chars) /\ chars[Ends(i) + 1] # "sp"
         /\ i < Len(fields) <=> chars[Ends(i) + 1] # "cr"
<1>1. /\ Len(fields) \in Nat /\ Ends(Len(fields)) \in Nat /\ Len(chars) = Ends(Len(fields)) + 3
      /\ chars[Ends(Len(fields)) + 1] = "cr"
  BY Layout
<1>2. CASE i = Len(fields)
  <2>1. chars[Ends(i) + 1] = "cr"
    BY <1>1, <1>2
  <2> QED BY <1>1, <1>2, <2>1
<1>3. CASE i < Len(fields)
  <2> DEFINE j == i + 1
             a == Len(fields[j].name)
             e == Ends(i)
             c == chars[e + 1]
  <2>1. j \in 1 .. Len(fields) /\ j - 1 = i
    BY <1>1, <1>3
  <2>2. FieldAt(j)
    BY <2>1, FieldThere
  <2>3. /\ e \in Nat /\ a \in Nat /\ Ends(j) = Origin(j) + Reach(fields[j].value, Last(j)) + 2
        /\ Reach(fields[j].value, Last(j)) \in Nat /\ Ends(j) <= Ends(Len(fields)) /\ Origin(j) = e + a + 1
        /\ (\A x \in 1 .. a : /\ chars[e + x] = fields[j].name[x] /\ fields[j].name[x] \in NameChars)
        /\ chars[Origin(j)] = ":"
    BY <2>1, <2>2 DEF FieldAt, Origin
  <2> HIDE DEF j
  <2>4. c \in {"k", "x", ":"}
    <3>1. CASE a = 0
      BY <2>3, <3>1
    <3>2. CASE a # 0
      <4>1. 1 \in 1 .. a
        BY <2>3, <3>2
      <4> QED BY <2>3, <4>1 DEF NameChars
    <3> QED BY <3>1, <3>2
  <2>5. e <= Ends(Len(fields))
    <3> DEFINE b == Reach(fields[j].value, Last(j))
               z == Ends(j)
    <3> HIDE DEF a, e, b, z
    <3>1. b \in Nat /\ z = Origin(j) + b + 2 /\ Origin(j) = e + a + 1 /\ a \in Nat /\ e \in Nat /\ z <= Ends(Len(fields))
      BY <2>3 DEF b, z
    <3> QED BY <1>1, <3>1
  <2> HIDE DEF c
  <2>6. c # "sp" /\ c # "cr"
    BY <2>4
  <2> QED BY <1>1, <1>3, <2>3, <2>5, <2>6 DEF c
<1> QED BY <1>1, <1>2, <1>3

-----------------------------------------------------------------------------
\* Header fields: what their values mean.

Letters(v) == {i \in DOMAIN v : v[i] = "x"}
GapAt(v, i) == \E j \in Letters(v) : j < i /\ \E k \in j..i : v[k] # "x" /\ \A l \in (j + 1)..(i - 1) : v[l] # "x"
Wording(v) == [i \in DOMAIN v |-> IF i \notin Letters(v) THEN <<>> ELSE IF GapAt(v, i) THEN <<"sp", "x">> ELSE <<"x">>]
Worded(v) == Composed(Wording(v))

LEMMA WordsAre ==
  ASSUME NEW v \in Seq(ValuePieces)
  PROVE  /\ Assembled(Wording(v), Len(v), HeaderChars, Worded(v))
         /\ Headers!Words(v) = Worded(v)[Len(v)]
<1>1. Len(v) \in Nat /\ DOMAIN v = 1 .. Len(v)
  OBVIOUS
<1> DEFINE q == Wording(v)
<1>2. Len(q) = Len(v) /\ \A i \in 1 .. Len(v) : q[i] = (IF i \notin Letters(v) THEN <<>> ELSE IF GapAt(v, i) THEN <<"sp", "x">> ELSE <<"x">>)
  BY <1>1 DEF Wording
<1>3. <<>> \in Seq(HeaderChars) /\ <<"sp", "x">> \in Seq(HeaderChars) /\ <<"x">> \in Seq(HeaderChars)
  <2>1. "sp" \in HeaderChars /\ "x" \in HeaderChars
    BY DEF HeaderChars
  <2> QED BY <2>1
<1>4. \A i \in 1 .. Len(v) : q[i] \in Seq(HeaderChars)
  BY <1>2, <1>3
<1>5. Len(q) = 0 => q = <<>>
  <2>1. Len(v) = 0 => v = <<>>
    BY <1>1
  <2> QED BY <1>2, <2>1 DEF Wording
<1>6. Headers!Words(v) = Headers!FlattenSeq(q)
  BY DEF Headers!Words, Wording, Letters, GapAt
<1> HIDE DEF q
<1>7. Parts(Composed(q), q, HeaderChars) /\ Headers!FlattenSeq(q) = Composed(q)[Len(q)]
  BY <1>1, <1>2, <1>4, <1>5, MadeIs
<1> QED BY <1>1, <1>2, <1>4, <1>6, <1>7 DEF q, Worded, Assembled

\* A gap is a blank or fold before the letter, behind another letter.
LEMMA GapIs ==
  ASSUME NEW v \in Seq(ValuePieces), NEW m \in 0 .. Len(v) - 1, v[m + 1] = "x"
  PROVE  GapAt(v, m + 1) <=> m > 0 /\ v[m] # "x" /\ \E j \in 1 .. m : v[j] = "x"
<1>1. Len(v) \in Nat /\ DOMAIN v = 1 .. Len(v) /\ m \in Nat /\ m < Len(v)
  OBVIOUS
<1>2. ASSUME GapAt(v, m + 1) PROVE m > 0 /\ v[m] # "x" /\ \E j \in 1 .. m : v[j] = "x"
  <2>1. PICK j \in Letters(v) : /\ j < m + 1
                                /\ \E k \in j .. (m + 1) : v[k] # "x" /\ \A l \in (j + 1) .. (m + 1 - 1) : v[l] # "x"
    BY <1>2 DEF GapAt
  <2>2. j \in 1 .. m /\ v[j] = "x"
    BY <1>1, <2>1 DEF Letters
  <2>3. PICK k \in j .. (m + 1) : v[k] # "x" /\ \A l \in (j + 1) .. (m + 1 - 1) : v[l] # "x"
    BY <2>1
  <2>4. k # j /\ k # m + 1
    BY <2>2, <2>3
  <2>5. m \in (j + 1) .. (m + 1 - 1) /\ m > 0
    BY <1>1, <2>2, <2>3, <2>4
  <2> QED BY <2>2, <2>3, <2>5
<1>3. ASSUME m > 0, v[m] # "x", NEW a \in 1 .. m, v[a] = "x" PROVE GapAt(v, m + 1)
  <2> DEFINE T == {m - j : j \in {l \in 1 .. m : v[l] = "x"}}
  <2>1. T \subseteq Nat /\ T # {}
    BY <1>1, <1>3
  <2>2. PICK x \in T : \A y \in T : x <= y
    <3> HIDE DEF T
    <3> QED BY <2>1, LeastNumber
  <2>3. PICK j \in 1 .. m : v[j] = "x" /\ x = m - j
    BY <2>2
  <2>4. ASSUME NEW l \in (j + 1) .. (m + 1 - 1) PROVE v[l] # "x"
    <3> SUFFICES ASSUME v[l] = "x" PROVE FALSE
      OBVIOUS
    <3>1. l \in 1 .. m /\ l > j
      BY <1>1, <2>3
    <3>2. m - l \in T
      BY <3>1
    <3>3. m - j <= m - l
      BY <2>2, <2>3, <3>2
    <3> QED BY <1>1, <3>1, <3>3
  <2>5. j \in Letters(v) /\ j < m + 1 /\ m \in j .. (m + 1)
    BY <1>1, <2>3 DEF Letters
  <2> HIDE DEF T
  <2> QED BY <1>3, <2>4, <2>5 DEF GapAt
<1> QED BY <1>2, <1>3

\* Something is read of a value once a letter of it is.
LEMMA WordsGrow ==
  ASSUME NEW v \in Seq(ValuePieces), NEW m \in 0 .. Len(v)
  PROVE  Worded(v)[m] \in Seq(HeaderChars) /\ (Worded(v)[m] # <<>> <=> \E j \in 1 .. m : v[j] = "x")
<1> DEFINE w == Worded(v)
           q == Wording(v)
           n == Len(v)
           S == {k \in 0 .. n : w[k] # <<>> <=> \E j \in 1 .. k : v[j] = "x"}
<1>1. Assembled(q, n, HeaderChars, w) /\ n \in Nat /\ DOMAIN v = 1 .. n
  BY WordsAre
<1>2. /\ w[0] = <<>> /\ (\A i \in 0 .. n : w[i] \in Seq(HeaderChars))
      /\ \A i \in 1 .. n : w[i] = w[i - 1] \o q[i] /\ q[i] \in Seq(HeaderChars)
  BY <1>1 DEF Assembled, Parts
<1>3. \A i \in 1 .. n : q[i] # <<>> <=> v[i] = "x"
  BY <1>1 DEF Wording, Letters
<1> HIDE DEF w, q, n
<1>4. 0 \in S
  BY <1>1, <1>2
<1>5. ASSUME NEW k \in 0 .. n - 1, k \in S PROVE k + 1 \in S
  <2>1. k + 1 \in 1 .. n /\ k + 1 - 1 = k /\ k \in 0 .. n /\ k + 1 \in 0 .. n
    BY <1>1
  <2>2. w[k + 1] = w[k] \o q[k + 1] /\ w[k] \in Seq(HeaderChars) /\ q[k + 1] \in Seq(HeaderChars)
    <3> DEFINE l == k + 1
    <3>1. l \in 1 .. n /\ l - 1 = k
      BY <2>1
    <3> HIDE DEF l
    <3>2. w[l] = w[l - 1] \o q[l] /\ q[l] \in Seq(HeaderChars)
      BY <1>2, <3>1, Zenon
    <3>3. w[k] \in Seq(HeaderChars)
      BY <1>2, <2>1, Zenon
    <3> QED BY <3>1, <3>2, <3>3 DEF l
  <2> DEFINE a == w[k]
             b == q[k + 1]
  <2>3. a \o b # <<>> <=> a # <<>> \/ b # <<>>
    <3>1. a \in Seq(HeaderChars) /\ b \in Seq(HeaderChars)
      BY <2>2
    <3> HIDE DEF a, b
    <3> QED BY <3>1
  <2>4. (\E j \in 1 .. k + 1 : v[j] = "x") <=> (\E j \in 1 .. k : v[j] = "x") \/ v[k + 1] = "x"
    BY <2>1
  <2>5. a # <<>> <=> \E j \in 1 .. k : v[j] = "x"
    BY <1>5
  <2>6. b # <<>> <=> v[k + 1] = "x"
    BY <1>3, <2>1
  <2> QED BY <2>1, <2>2, <2>3, <2>4, <2>5, <2>6
<1> HIDE DEF S
<1>6. \A k \in 0 .. n : k \in S
  BY <1>1, <1>4, <1>5, InductUpTo
<1>7. m \in 0 .. n
  BY DEF n
<1> QED BY <1>2, <1>6, <1>7 DEF S, w

\* What the next piece adds.
LEMMA NextWord ==
  ASSUME NEW v \in Seq(ValuePieces), NEW m \in 0 .. Len(v) - 1, NEW space,
         space <=> m > 0 /\ v[m] # "x"
  PROVE  /\ v[m + 1] # "x" => Worded(v)[m + 1] = Worded(v)[m]
         /\ v[m + 1] = "x" => Worded(v)[m + 1] =
              (Worded(v)[m] \o (IF space /\ Worded(v)[m] # <<>> THEN <<"sp">> ELSE <<>>)) \o <<"x">>
<1> DEFINE t == Worded(v)[m]
           p == Wording(v)[m + 1]
<1>1. Len(v) \in Nat /\ DOMAIN v = 1 .. Len(v) /\ m + 1 \in 1 .. Len(v) /\ m + 1 - 1 = m /\ m \in 0 .. Len(v)
  OBVIOUS
<1>2. Worded(v)[m + 1] = t \o p
  <2>1. Assembled(Wording(v), Len(v), HeaderChars, Worded(v))
    BY WordsAre
  <2> DEFINE l == m + 1
  <2>2. l \in 1 .. Len(v) /\ l - 1 = m
    BY <1>1
  <2> HIDE DEF l
  <2>3. Worded(v)[l] = Worded(v)[l - 1] \o Wording(v)[l]
    BY <2>1, <2>2 DEF Assembled, Parts
  <2> QED BY <2>2, <2>3 DEF l
<1>3. t \in Seq(HeaderChars) /\ (t # <<>> <=> \E j \in 1 .. m : v[j] = "x")
  BY <1>1, WordsGrow
<1>4. p = (IF v[m + 1] # "x" THEN <<>> ELSE IF GapAt(v, m + 1) THEN <<"sp", "x">> ELSE <<"x">>)
  BY <1>1 DEF Wording, Letters
<1>5. ASSUME v[m + 1] = "x" PROVE p = IF space /\ t # <<>> THEN <<"sp", "x">> ELSE <<"x">>
  BY <1>3, <1>4, <1>5, GapIs
<1> HIDE DEF t, p
<1>6. CASE v[m + 1] # "x"
  <2>1. p = <<>>
    BY <1>4, <1>6
  <2>2. t \o <<>> = t
    BY <1>3
  <2> QED BY <1>2, <1>6, <2>1, <2>2 DEF t
<1>7. CASE v[m + 1] = "x" /\ space /\ t # <<>>
  <2>1. \A a \in Seq(HeaderChars) : a \o <<"sp", "x">> = (a \o <<"sp">>) \o <<"x">>
    <3>1. "sp" \in HeaderChars /\ "x" \in HeaderChars
      BY DEF HeaderChars
    <3> QED BY <3>1
  <2> QED BY <1>2, <1>3, <1>5, <1>7, <2>1 DEF t
<1>8. CASE v[m + 1] = "x" /\ ~(space /\ t # <<>>)
  <2>1. t \o <<>> = t
    BY <1>3
  <2> QED BY <1>2, <1>5, <1>8, <2>1 DEF t
<1> QED BY <1>6, <1>7, <1>8

\* The values of the fields the code knows, of the first fields.
Meaning(fs) == [i \in DOMAIN fs |-> IF fs[i].name = <<"k">> THEN <<Headers!Words(fs[i].value)>> ELSE <<>>]
Got(fs) == CHOOSE made : Parts(made, Meaning(fs), Seq(HeaderChars)) /\ Headers!FlattenSeq(Meaning(fs)) = made[Len(Meaning(fs))]

Known(i) == fields[i].name = <<"k">>
ValueOf(i) == Worded(fields[i].value)[Last(i)]

LEMMA MeantIs ==
  ASSUME HeadTypes
  PROVE  /\ Headers!Meant(fields) = Got(fields)[Len(fields)] /\ Len(fields) \in Nat
         /\ Got(fields)[0] = <<>> /\ Assembled(Meaning(fields), Len(fields), Seq(HeaderChars), Got(fields))
         /\ \A i \in 1 .. Len(fields) :
              /\ Known(i) => Got(fields)[i] = Append(Got(fields)[i - 1], ValueOf(i))
              /\ ~Known(i) => Got(fields)[i] = Got(fields)[i - 1]
<1> DEFINE n == Len(fields)
           q == Meaning(fields)
           V == Seq(HeaderChars)
<1>1. n \in Nat /\ DOMAIN fields = 1 .. n /\ \A i \in 1 .. n : fields[i] \in Field
  BY DEF HeadTypes
<1>2. \A i \in 1 .. n : /\ Headers!Words(fields[i].value) = ValueOf(i) /\ ValueOf(i) \in V
  <2> SUFFICES ASSUME NEW i \in 1 .. n PROVE Headers!Words(fields[i].value) = ValueOf(i) /\ ValueOf(i) \in V
    OBVIOUS
  <2> DEFINE v == fields[i].value
  <2>1. v \in Seq(ValuePieces)
    BY <1>1 DEF Field
  <2> HIDE DEF v
  <2>2. Headers!Words(v) = Worded(v)[Len(v)]
    BY <2>1, WordsAre
  <2>3. Len(v) \in 0 .. Len(v)
    BY <2>1
  <2>4. Worded(v)[Len(v)] \in V
    BY <2>1, <2>3, WordsGrow
  <2> QED BY <2>2, <2>4 DEF v, ValueOf, Last
<1>3. Len(q) = n /\ \A i \in 1 .. n : q[i] = IF Known(i) THEN <<ValueOf(i)>> ELSE <<>>
  BY <1>1, <1>2 DEF Meaning, Known
<1>4. \A i \in 1 .. n : q[i] \in Seq(V)
  <2> HIDE DEF V, q, n
  <2>1. <<>> \in Seq(V) /\ \A a \in V : <<a>> \in Seq(V)
    OBVIOUS
  <2> QED BY <1>2, <1>3, <2>1
<1>5. Len(q) = 0 => q = <<>>
  <2>1. n = 0 => fields = <<>>
    BY DEF HeadTypes
  <2> QED BY <1>3, <2>1 DEF Meaning
<1>6. Headers!Meant(fields) = Headers!FlattenSeq(q)
  BY DEF Headers!Meant, Meaning
<1> HIDE DEF q, V, n
<1>7. Headers!FlattenSeq(q) = Bodies!FlattenSeq(q)
  BY DEF Headers!FlattenSeq, Bodies!FlattenSeq
<1>8. \E made : Parts(made, q, V) /\ Bodies!FlattenSeq(q) = made[Len(q)]
  BY <1>1, <1>3, <1>4, <1>5, FlattenParts
<1>9. Parts(Got(fields), q, V) /\ Headers!FlattenSeq(q) = Got(fields)[Len(q)]
  BY <1>7, <1>8, Zenon DEF Got, q, V
<1> DEFINE g == Got(fields)
<1>10. g[0] = <<>> /\ \A i \in 1 .. n : g[i] = g[i - 1] \o q[i] /\ g[i - 1] \in Seq(V)
  <2>1. \A i \in 1 .. n : i - 1 \in 0 .. n
    BY <1>1
  <2> QED BY <1>3, <1>9, <2>1 DEF Parts
<1> HIDE DEF g
<1>11. ASSUME NEW i \in 1 .. n
       PROVE  (Known(i) => g[i] = Append(g[i - 1], ValueOf(i))) /\ (~Known(i) => g[i] = g[i - 1])
  <2>1. \A a \in Seq(V) : a \o <<>> = a
    OBVIOUS
  <2>2. \A a \in Seq(V) : \A b \in V : a \o <<b>> = Append(a, b)
    OBVIOUS
  <2>3. g[i] = g[i - 1] \o q[i] /\ g[i - 1] \in Seq(V) /\ ValueOf(i) \in V /\ q[i] = IF Known(i) THEN <<ValueOf(i)>> ELSE <<>>
    BY <1>2, <1>3, <1>10
  <2> QED BY <2>1, <2>2, <2>3
<1> QED BY <1>1, <1>3, <1>4, <1>6, <1>9, <1>10, <1>11 DEF n, g, q, V, Assembled


-----------------------------------------------------------------------------
\* Header fields: where the parser is.

Longest == IF NameLimit < ValueLimit THEN ValueLimit ELSE NameLimit

\* At the start of a line, i fields are read; in the name of field i, or in one too long; behind m pieces of its
\* value, read or ignored; behind all fields; a value that is too long.
InLine(i) == mode = "line" /\ pos = Ends(i) /\ result = Got(fields)[i]
InName(i) == /\ mode = "name" /\ pos = Ends(i - 1) + Len(token) /\ result = Got(fields)[i - 1] /\ lws = FALSE
             /\ Len(token) <= Len(fields[i].name) /\ Len(token) <= NameLimit
             /\ \A x \in 1 .. Len(token) : token[x] = fields[i].name[x]
InLongName(i) == /\ mode = "longName" /\ result = Got(fields)[i - 1] /\ token = <<>>
                 /\ pos \in Ends(i - 1) .. Ends(i - 1) + Len(fields[i].name) /\ Len(fields[i].name) > NameLimit
InValue(i, m) == /\ mode = "value" /\ Known(i) /\ pos = At(i, m) /\ result = Got(fields)[i - 1]
                 /\ token = Worded(fields[i].value)[m] /\ Len(token) <= ValueLimit
                 /\ lws <=> m > 0 /\ fields[i].value[m] # "x"
Ignoring(i, m) == mode = "ignored" /\ ~Known(i) /\ pos = At(i, m) /\ result = Got(fields)[i - 1] /\ token = <<>>
AllRead == mode = "done" /\ pos = Ends(Len(fields)) + 2 /\ result = Got(fields)[Len(fields)]
TooLong == mode = "error" /\ \E i \in 1 .. Len(fields) : Known(i) /\ Len(ValueOf(i)) > ValueLimit

Place == \/ \E i \in 0 .. Len(fields) : InLine(i)
         \/ \E i \in 1 .. Len(fields) : InName(i) \/ InLongName(i)
         \/ \E i \in 1 .. Len(fields) : \E m \in 0 .. Last(i) : InValue(i, m) \/ Ignoring(i, m)
         \/ AllRead \/ TooLong

HeadInv == /\ HeadTypes /\ pos \in 0 .. Len(chars) /\ token \in Seq(HeaderChars) /\ lws \in BOOLEAN
           /\ Len(token) <= Longest /\ Place

HeadSame == fields' = fields /\ chars' = chars

LEMMA Unmoved ==
  ASSUME HeadSame
  PROVE  /\ HeadTypes => HeadTypes'
         /\ Len(fields)' = Len(fields) /\ Len(chars)' = Len(chars) /\ Got(fields)' = Got(fields)
         /\ \A i : /\ Ends(i)' = Ends(i) /\ Known(i)' = Known(i) /\ Last(i)' = Last(i) /\ ValueOf(i)' = ValueOf(i)
                   /\ fields[i]' = fields[i]
         /\ \A i, m : At(i, m)' = At(i, m)
BY DEF HeadSame, HeadTypes, Ends, Known, Last, ValueOf, At, Origin, fields, chars

\* What each action does.
LineStep == /\ mode = "line" /\ HeadSame /\ token' = <<>> /\ lws' = FALSE /\ result' = result
            /\ \/ chars[pos + 1] = "cr" /\ pos' = pos + 2 /\ mode' = IF chars[pos + 2] = "lf" THEN "done" ELSE "error"
               \/ chars[pos + 1] # "cr" /\ pos' = pos /\ mode' = "name"
NameStep == /\ mode = "name" /\ HeadSame /\ lws' = lws /\ result' = result /\ pos' = pos + 1
            /\ \/ /\ chars[pos + 1] = ":" /\ token' = <<>>
                  /\ mode' = IF token = <<"k">> THEN "value" ELSE "ignored"
               \/ chars[pos + 1] # ":" /\ Len(token) = NameLimit /\ mode' = "longName" /\ token' = <<>>
               \/ /\ chars[pos + 1] # ":" /\ Len(token) # NameLimit /\ mode' = mode
                  /\ token' = Append(token, chars[pos + 1])
SkipStep == /\ mode = "longName" /\ HeadSame /\ lws' = lws /\ result' = result /\ token' = token /\ pos' = pos + 1
            /\ mode' = IF chars[pos + 1] = ":" THEN "ignored" ELSE mode
Space == IF lws /\ token # <<>> THEN <<"sp">> ELSE <<>>
ValueStep ==
  /\ mode = "value" /\ HeadSame
  /\ \/ chars[pos + 1] = "cr" /\ chars[pos + 2] # "lf" /\ pos' = pos + 2 /\ mode' = "error" /\ UNCHANGED <<token, lws, result>>
     \/ /\ chars[pos + 1] = "cr" /\ chars[pos + 2] = "lf" /\ chars[pos + 3] = "sp"
        /\ pos' = pos + 3 /\ lws' = TRUE /\ UNCHANGED <<mode, token, result>>
     \/ /\ chars[pos + 1] = "cr" /\ chars[pos + 2] = "lf" /\ chars[pos + 3] # "sp"
        /\ pos' = pos + 2 /\ mode' = "line" /\ result' = Append(result, token) /\ UNCHANGED <<token, lws>>
     \/ chars[pos + 1] = "sp" /\ pos' = pos + 1 /\ lws' = TRUE /\ UNCHANGED <<mode, token, result>>
     \/ /\ chars[pos + 1] \notin {"cr", "sp"} /\ Len(token) + Len(Space) >= ValueLimit
        /\ pos' = pos + 1 /\ lws' = FALSE /\ mode' = "error" /\ UNCHANGED <<token, result>>
     \/ /\ chars[pos + 1] \notin {"cr", "sp"} /\ ~(Len(token) + Len(Space) >= ValueLimit)
        /\ pos' = pos + 1 /\ lws' = FALSE /\ token' = (token \o Space) \o <<chars[pos + 1]>> /\ UNCHANGED <<mode, result>>
IgnoreStep ==
  /\ mode = "ignored" /\ HeadSame /\ UNCHANGED <<token, lws, result>>
  /\ \/ chars[pos + 1] = "cr" /\ chars[pos + 2] # "lf" /\ pos' = pos + 2 /\ mode' = "error"
     \/ chars[pos + 1] = "cr" /\ chars[pos + 2] = "lf" /\ chars[pos + 3] = "sp" /\ pos' = pos + 3 /\ mode' = mode
     \/ chars[pos + 1] = "cr" /\ chars[pos + 2] = "lf" /\ chars[pos + 3] # "sp" /\ pos' = pos + 2 /\ mode' = "line"
     \/ chars[pos + 1] # "cr" /\ pos' = pos + 1 /\ mode' = mode

LEMMA HeadSteps ==
  ASSUME HeadTypes, pos \in Nat, Headers!Next
  PROVE  LineStep \/ NameStep \/ SkipStep \/ ValueStep \/ IgnoreStep
<1> USE DEF fields, chars, pos, mode, token, lws, result, HeadSame, Headers!Char, Headers!Take
<1>1. CASE Headers!StartLine
  BY <1>1 DEF Headers!StartLine, LineStep
<1>2. CASE Headers!ReadName
  BY <1>2 DEF Headers!ReadName, NameStep
<1>3. CASE Headers!SkipName
  BY <1>3 DEF Headers!SkipName, SkipStep
<1>4. CASE Headers!ReadValue
  BY <1>4 DEF Headers!ReadValue, ValueStep, Headers!Folded, Headers!Full, Headers!Blank, Space
<1>5. CASE Headers!IgnoreValue
  BY <1>5 DEF Headers!IgnoreValue, IgnoreStep, Headers!Folded
<1> QED BY <1>1, <1>2, <1>3, <1>4, <1>5 DEF Headers!Next


-----------------------------------------------------------------------------
\* Header fields: every step leads from one place to the next.

LEMMA Where ==
  ASSUME HeadInv
  PROVE  /\ mode = "line" => \E i \in 0 .. Len(fields) : InLine(i)
         /\ mode = "name" => \E i \in 1 .. Len(fields) : InName(i)
         /\ mode = "longName" => \E i \in 1 .. Len(fields) : InLongName(i)
         /\ mode = "value" => \E i \in 1 .. Len(fields) : \E m \in 0 .. Last(i) : InValue(i, m)
         /\ mode = "ignored" => \E i \in 1 .. Len(fields) : \E m \in 0 .. Last(i) : Ignoring(i, m)
         /\ mode = "done" => AllRead
         /\ mode = "error" => TooLong
BY Zenon DEF HeadInv, Place, InLine, InName, InLongName, InValue, Ignoring, AllRead, TooLong

\* What the limits are.
LEMMA HeadLimits ==
  /\ NameLimit \in Nat \ {0} /\ ValueLimit \in Nat
  /\ Longest \in Nat /\ NameLimit <= Longest /\ ValueLimit <= Longest
<1>1. NameLimit \in Nat \ {0} /\ ValueLimit \in Nat
  BY MessageAssumption DEF Headers!HeaderAssumption
<1> QED BY <1>1 DEF Longest

\* The start of the value of a field.
LEMMA ValueStarts ==
  ASSUME HeadTypes, NEW i \in 1 .. Len(fields)
  PROVE  /\ At(i, 0) = Origin(i) /\ Worded(fields[i].value)[0] = <<>> /\ 0 \in 0 .. Last(i) /\ Last(i) \in Nat
         /\ fields[i].value \in Seq(ValuePieces) /\ fields[i].name \in Seq(NameChars)
<1> DEFINE v == fields[i].value
<1>1. v \in Seq(ValuePieces) /\ fields[i].name \in Seq(NameChars) /\ Last(i) = Len(v)
  <2>1. fields[i] \in Field
    BY DEF HeadTypes
  <2> QED BY <2>1 DEF Field, Last
<1>2. /\ Parts(Spelt(v), Spelling(v), HeaderChars)
      /\ Assembled(Wording(v), Len(v), HeaderChars, Worded(v))
  BY <1>1, SpellingIs, WordsAre
<1> HIDE DEF v
<1>3. Spelt(v)[0] = <<>> /\ Worded(v)[0] = <<>> /\ Len(v) \in Nat
  BY <1>2 DEF Assembled, Parts
<1>4. Reach(v, 0) = 0
  BY <1>3 DEF Reach
<1>5. Origin(i) \in Nat
  BY OriginIs
<1>6. At(i, 0) = Origin(i)
  BY <1>4, <1>5 DEF At, v
<1> QED BY <1>1, <1>3, <1>6 DEF v

LEMMA LineGoes ==
  ASSUME HeadInv, LineStep
  PROVE  HeadInv'
<1>1. PICK i \in 0 .. Len(fields) : InLine(i)
  BY Where DEF LineStep
<1>2. HeadTypes /\ HeadSame /\ pos = Ends(i) /\ result = Got(fields)[i]
  BY <1>1 DEF HeadInv, LineStep, InLine
<1>3. /\ Ends(i) \in Nat /\ Ends(i) + 3 <= Len(chars) /\ (i < Len(fields) <=> chars[Ends(i) + 1] # "cr")
  BY <1>2, AfterLine
<1>4. /\ Len(fields) \in Nat /\ Len(chars) = Ends(Len(fields)) + 3 /\ chars[Ends(Len(fields)) + 2] = "lf"
  BY <1>2, Layout
<1>5. token' = <<>> /\ token' \in Seq(HeaderChars) /\ Len(token') = 0 /\ lws' = FALSE /\ result' = result
  BY DEF LineStep
<1>6. CASE i < Len(fields)
  <2> DEFINE j == i + 1
  <2>1. j \in 1 .. Len(fields) /\ j - 1 = i
    BY <1>4, <1>6
  <2>2. pos' = pos /\ mode' = "name"
    BY <1>2, <1>3, <1>6 DEF LineStep
  <2> HIDE DEF j
  <2>3. Len(fields[j].name) \in Nat
    BY <1>2, <2>1, FieldThere DEF FieldAt
  <2>4. InName(j)'
    <3>1. /\ Ends(j - 1)' = Ends(i) /\ Got(fields)' = Got(fields) /\ fields[j]' = fields[j]
      BY <1>2, <2>1, Unmoved
    <3>2. pos' = Ends(j - 1)' + Len(token')
      BY <1>2, <1>3, <1>5, <2>2, <3>1
    <3>3. result' = (Got(fields)[j - 1])'
      BY <1>2, <1>5, <2>1, <3>1
    <3>4. \A x \in 1 .. Len(token') : token'[x] = fields'[j].name[x]
      BY <1>5
    <3>5. Len(token') <= Len(fields'[j].name) /\ Len(token') <= NameLimit
      BY <1>5, <2>3, <3>1, HeadLimits
    <3> QED BY <1>5, <2>2, <3>2, <3>3, <3>4, <3>5 DEF InName
  <2>5. Place'
    BY <1>2, <2>1, <2>4, Unmoved DEF Place
  <2>6. HeadTypes' /\ Len(chars)' = Len(chars)
    BY <1>2, Unmoved
  <2>7. pos' \in 0 .. Len(chars)' /\ Len(token') <= Longest
    BY <1>2, <1>3, <1>4, <1>5, <2>2, <2>6, HeadLimits
  <2> QED BY <1>5, <2>5, <2>6, <2>7 DEF HeadInv, Longest
<1>7. CASE ~(i < Len(fields))
  <2>1. i = Len(fields)
    BY <1>4, <1>7
  <2>2. pos' = pos + 2 /\ mode' = "done"
    <3>1. chars[pos + 1] = "cr" /\ chars[pos + 2] = "lf"
      BY <1>2, <1>3, <1>4, <1>7, <2>1
    <3> QED BY <3>1 DEF LineStep
  <2>3. AllRead'
    <3>1. Ends(i)' = Ends(i) /\ Got(fields)' = Got(fields) /\ Len(fields)' = Len(fields)
      BY <1>2, Unmoved
    <3>2. (Ends(Len(fields)))' = Ends(Len(fields))
      BY <1>2 DEF HeadSame, Ends, fields
    <3> QED BY <1>2, <1>5, <2>1, <2>2, <3>1, <3>2 DEF AllRead
  <2>4. Place'
    BY <2>3 DEF Place
  <2>6. HeadTypes' /\ Len(chars)' = Len(chars)
    BY <1>2, Unmoved
  <2>7. pos' \in 0 .. Len(chars)' /\ Len(token') <= Longest
    BY <1>2, <1>3, <1>4, <1>5, <2>2, <2>6, HeadLimits
  <2> QED BY <1>5, <2>4, <2>6, <2>7 DEF HeadInv, Longest
<1> QED BY <1>6, <1>7


\* Where a field lies in the chars: its name ends before its value, which ends before the chars does.
LEMMA FieldRoom ==
  ASSUME HeadTypes, NEW i \in 1 .. Len(fields)
  PROVE  /\ Ends(i - 1) \in Nat /\ Len(fields[i].name) \in Nat /\ Len(chars) \in Nat
         /\ Origin(i) = Ends(i - 1) + Len(fields[i].name) + 1 /\ Origin(i) + 2 <= Ends(i) /\ Ends(i) \in Nat
         /\ Ends(i) + 3 <= Len(chars)
<1>1. FieldAt(i)
  BY FieldThere
<1> DEFINE b == Reach(fields[i].value, Last(i))
           e == Ends(i - 1)
           a == Len(fields[i].name)
           z == Ends(i)
<1>2. e \in Nat /\ a \in Nat /\ b \in Nat /\ z = Origin(i) + b + 2 /\ z <= Ends(Len(fields)) /\ Origin(i) = e + a + 1
  BY <1>1 DEF FieldAt, Origin
<1>3. Ends(Len(fields)) \in Nat /\ Len(chars) = Ends(Len(fields)) + 3
  BY Layout
<1> HIDE DEF b, e, a, z
<1>4. Origin(i) + 2 <= z /\ z \in Nat /\ z + 3 <= Len(chars) /\ Len(chars) \in Nat
  BY <1>2, <1>3
<1> QED BY <1>2, <1>4 DEF e, a, z

\* What any move to a place needs besides.
LEMMA Arriving ==
  ASSUME HeadInv, HeadSame, pos' \in 0 .. Len(chars), token' \in Seq(HeaderChars), lws' \in BOOLEAN,
         Len(token') <= Longest, Place'
  PROVE  HeadInv'
<1>1. HeadTypes' /\ Len(chars)' = Len(chars)
  BY Unmoved DEF HeadInv
<1> QED BY <1>1 DEF HeadInv, Longest

LEMMA NameGoes ==
  ASSUME HeadInv, NameStep
  PROVE  HeadInv'
<1>1. PICK i \in 1 .. Len(fields) : InName(i)
  BY Where DEF NameStep
<1> DEFINE name == fields[i].name
           a == Len(name)
           t == Len(token)
           e == Ends(i - 1)
           c == chars[pos + 1]
<1>2. /\ HeadTypes /\ HeadSame /\ pos = e + t /\ result = Got(fields)[i - 1] /\ lws = FALSE
      /\ t <= a /\ t <= NameLimit /\ \A x \in 1 .. t : token[x] = name[x]
  BY <1>1 DEF HeadInv, NameStep, InName
<1>3. /\ e \in Nat /\ a \in Nat /\ Len(chars) \in Nat /\ Origin(i) = e + a + 1 /\ Origin(i) + 2 <= Ends(i) /\ Ends(i) + 3 <= Len(chars)
      /\ Ends(i) \in Nat
  BY <1>2, FieldRoom
<1>4. /\ \A x \in 1 .. a : chars[e + x] = name[x] /\ name[x] \in NameChars
      /\ chars[Origin(i)] = ":"
  BY <1>2, FieldThere DEF FieldAt
<1>5. token \in Seq(HeaderChars) /\ t \in Nat /\ pos' = pos + 1 /\ lws' = lws /\ result' = result
  <2>1. token \in Seq(HeaderChars)
    BY DEF HeadInv
  <2> QED BY <2>1, LenNat DEF NameStep
<1>6. name \in Seq(NameChars) /\ fields[i] \in Field
  BY <1>2, ValueStarts DEF HeadTypes
<1>7. /\ Len(fields)' = Len(fields) /\ Got(fields)' = Got(fields) /\ Ends(i - 1)' = e /\ Known(i)' = Known(i)
      /\ Last(i)' = Last(i) /\ fields[i]' = fields[i] /\ At(i, 0)' = At(i, 0)
  BY <1>2, Unmoved
<1>8. fields'[i].name = name /\ fields'[i].value = fields[i].value
  BY <1>7
<1>9. result' = (Got(fields)[i - 1])'
  BY <1>2, <1>5, <1>7
<1> HIDE DEF name, a, t, e, c
<1>10. pos' \in 0 .. Len(chars)
  BY <1>2, <1>3, <1>5
<1>13. /\ t \in Nat /\ a \in Nat /\ e \in Nat /\ NameLimit \in Nat /\ t <= NameLimit
       /\ pos = e + t /\ pos' = pos + 1
  BY <1>2, <1>3, <1>5, HeadLimits
<1>14. lws' \in BOOLEAN /\ Len(<<>>) <= Longest
  <2>1. Len(<<>>) <= Longest
    <3>1. Len(<<>>) = 0
      OBVIOUS
    <3> QED BY <3>1, HeadLimits
  <2>2. lws \in BOOLEAN /\ lws' = lws
    BY DEF HeadInv, NameStep
  <2> QED BY <2>1, <2>2
<1>11. CASE t < a
  <2>1. t + 1 \in 1 .. a /\ pos + 1 = e + (t + 1)
    BY <1>2, <1>3, <1>5, <1>11
  <2>2. c = name[t + 1] /\ c \in NameChars
    BY <1>4, <2>1 DEF c
  <2>3. c # ":" /\ c \in HeaderChars
    BY <2>2 DEF NameChars, HeaderChars
  <2>4. CASE t = NameLimit
    <3>1. mode' = "longName" /\ token' = <<>>
      BY <2>3, <2>4 DEF NameStep, c, t
    <3>2. /\ pos' \in e .. e + a /\ a > NameLimit
      BY <1>2, <1>3, <1>5, <1>11, <2>4, HeadLimits
    <3>3. InLongName(i)'
      BY <1>7, <1>8, <1>9, <3>1, <3>2 DEF InLongName, name, a, e
    <3>4. Place'
      BY <1>7, <3>3 DEF Place
    <3>5. token' \in Seq(HeaderChars) /\ Len(token') <= Longest
      BY <1>14, <3>1
    <3> QED BY <1>2, <1>5, <1>10, <1>14, <3>4, <3>5, Arriving
  <2>5. CASE t # NameLimit
    <3>1. mode' = "name" /\ token' = Append(token, c)
      BY <2>3, <2>5 DEF NameStep, c, t
    <3> DEFINE u == Append(token, c)
    <3>2. u \in Seq(HeaderChars) /\ Len(u) = t + 1 /\ (\A x \in 1 .. t : u[x] = token[x]) /\ u[t + 1] = c
      BY <1>5, <2>3 DEF t
    <3> HIDE DEF u
    <3>3. \A x \in 1 .. Len(u) : u[x] = name[x]
      <4> SUFFICES ASSUME NEW x \in 1 .. Len(u) PROVE u[x] = name[x]
        OBVIOUS
      <4>1. x \in 1 .. t \/ x = t + 1
        BY <1>5, <3>2
      <4> QED BY <1>2, <2>2, <3>2, <4>1
    <3>4. Len(u) <= a /\ Len(u) <= NameLimit /\ pos' = e + Len(u)
      <4>1. Len(u) = t + 1 /\ t # NameLimit /\ t < a
        BY <1>11, <2>5, <3>2
      <4> QED BY <1>13, <4>1
    <3>5. InName(i)'
      <4>1. token' = u
        BY <3>1 DEF u
      <4> QED BY <1>2, <1>5, <1>7, <1>8, <1>9, <3>1, <3>3, <3>4, <4>1 DEF InName, name, a, e
    <3>6. Place'
      BY <1>7, <3>5 DEF Place
    <3>7. token' \in Seq(HeaderChars) /\ Len(token') <= Longest
      BY <1>3, <3>1, <3>2, <3>4, HeadLimits DEF u
    <3> QED BY <1>2, <1>5, <1>10, <3>6, <3>7, Arriving
  <2> QED BY <2>4, <2>5
<1>12. CASE ~(t < a)
  <2>1. t = a /\ pos + 1 = Origin(i)
    BY <1>2, <1>3, <1>5, <1>12
  <2>2. c = ":"
    BY <1>4, <2>1 DEF c
  <2>3. token' = <<>> /\ mode' = IF token = <<"k">> THEN "value" ELSE "ignored"
    BY <2>2 DEF NameStep, c
  <2>4. token = <<"k">> <=> Known(i)
    <3>1. token = name
      <4>1. \A V, W : \A s \in Seq(V), z0 \in Seq(W) : Len(s) = Len(z0) /\ (\A x \in 1 .. Len(z0) : s[x] = z0[x]) => s = z0
        OBVIOUS
      <4> QED BY <1>2, <1>5, <1>6, <2>1, <4>1 DEF t, a
    <3> QED BY <3>1 DEF Known, name
  <2>5. pos' = At(i, 0)' /\ 0 \in 0 .. Last(i)
    BY <1>2, <1>5, <1>7, <2>1, ValueStarts
  <2>6. Place'
    <3>1. CASE Known(i)
      <4>1. mode' = "value"
        BY <2>3, <2>4, <3>1
      <4>2. Worded(fields'[i].value)[0] = <<>>
        BY <1>2, <1>8, ValueStarts
      <4>3. lws' = FALSE /\ ~(0 > 0) /\ Len(token') <= ValueLimit
        BY <1>2, <1>5, <2>3, HeadLimits
      <4>4. InValue(i, 0)'
        BY <1>7, <1>9, <2>3, <2>5, <3>1, <4>1, <4>2, <4>3 DEF InValue
      <4> QED BY <1>7, <2>5, <4>4 DEF Place
    <3>2. CASE ~Known(i)
      <4>1. mode' = "ignored"
        BY <2>3, <2>4, <3>2
      <4>2. Ignoring(i, 0)'
        BY <1>7, <1>9, <2>3, <2>5, <3>2, <4>1 DEF Ignoring
      <4> QED BY <1>7, <2>5, <4>2 DEF Place
    <3> QED BY <3>1, <3>2
  <2>7. token' \in Seq(HeaderChars) /\ Len(token') <= Longest
    BY <1>14, <2>3
  <2> QED BY <1>2, <1>5, <1>10, <1>14, <2>6, <2>7, Arriving
<1> QED BY <1>11, <1>12

LEMMA SkipGoes ==
  ASSUME HeadInv, SkipStep
  PROVE  HeadInv'
<1>1. PICK i \in 1 .. Len(fields) : InLongName(i)
  BY Where DEF SkipStep
<1> DEFINE name == fields[i].name
           a == Len(name)
           e == Ends(i - 1)
           c == chars[pos + 1]
<1>2. /\ HeadTypes /\ HeadSame /\ pos \in e .. e + a /\ result = Got(fields)[i - 1] /\ token = <<>> /\ a > NameLimit
  BY <1>1 DEF HeadInv, SkipStep, InLongName
<1>3. /\ e \in Nat /\ a \in Nat /\ Len(chars) \in Nat /\ Origin(i) = e + a + 1 /\ Origin(i) + 2 <= Ends(i) /\ Ends(i) + 3 <= Len(chars)
      /\ Ends(i) \in Nat
  BY <1>2, FieldRoom
<1>4. /\ \A x \in 1 .. a : chars[e + x] = name[x] /\ name[x] \in NameChars
      /\ chars[Origin(i)] = ":"
  BY <1>2, FieldThere DEF FieldAt
<1>5. /\ token \in Seq(HeaderChars) /\ pos' = pos + 1 /\ lws' = lws /\ result' = result /\ token' = token /\ lws \in BOOLEAN
  BY DEF SkipStep, HeadInv
<1>7. /\ Len(fields)' = Len(fields) /\ Got(fields)' = Got(fields) /\ Ends(i - 1)' = e /\ Known(i)' = Known(i)
      /\ Last(i)' = Last(i) /\ fields[i]' = fields[i] /\ At(i, 0)' = At(i, 0)
  BY <1>2, Unmoved
<1>8. fields'[i].name = name /\ fields'[i].value = fields[i].value
  BY <1>7
<1>9. result' = (Got(fields)[i - 1])'
  BY <1>2, <1>5, <1>7
<1> HIDE DEF name, a, e, c
<1>10. pos' \in 0 .. Len(chars)
  BY <1>2, <1>3, <1>5
<1>11. Len(token') <= Longest
  <2>1. Len(token) = 0
    BY <1>2
  <2> QED BY <1>5, <2>1, HeadLimits
<1>12. CASE pos < e + a
  <2> DEFINE y == (pos + 1) - e
  <2>1. y \in 1 .. a /\ e + y = pos + 1
    BY <1>2, <1>3, <1>12
  <2> HIDE DEF y
  <2>2. c \in NameChars
    BY <1>4, <2>1 DEF c
  <2>3. c # ":"
    BY <2>2 DEF NameChars
  <2>4. mode' = "longName"
    BY <2>3 DEF SkipStep, c
  <2>5. pos' \in e .. e + a
    BY <1>2, <1>3, <1>5, <1>12
  <2>6. InLongName(i)'
    BY <1>2, <1>5, <1>7, <1>8, <1>9, <2>4, <2>5 DEF InLongName, name, a, e
  <2>7. Place'
    BY <1>7, <2>6 DEF Place
  <2> QED BY <1>2, <1>5, <1>10, <1>11, <2>7, Arriving
<1>13. CASE ~(pos < e + a)
  <2>1. pos + 1 = Origin(i)
    BY <1>2, <1>3, <1>13
  <2>2. c = ":"
    BY <1>4, <2>1 DEF c
  <2>3. mode' = "ignored"
    BY <2>2 DEF SkipStep, c
  <2>4. ~Known(i)
    <3>1. a # 1
      BY <1>2, <1>3, HeadLimits
    <3>2. Len(fields[i].name) # 1
      BY <3>1 DEF name, a
    <3> SUFFICES ASSUME Known(i) PROVE FALSE
      OBVIOUS
    <3>3. fields[i].name = <<"k">>
      BY DEF Known
    <3>4. Len(fields[i].name) = 1
      BY <3>3
    <3> QED BY <3>2, <3>4
  <2>5. pos' = At(i, 0)' /\ 0 \in 0 .. Last(i)
    BY <1>2, <1>5, <1>7, <2>1, ValueStarts
  <2>6. Ignoring(i, 0)'
    BY <1>2, <1>5, <1>7, <1>9, <2>3, <2>4, <2>5 DEF Ignoring
  <2>7. Place'
    BY <1>7, <2>5, <2>6 DEF Place
  <2> QED BY <1>2, <1>5, <1>10, <1>11, <2>7, Arriving
<1> QED BY <1>12, <1>13


\* The next piece of a value, from the place behind m of them.
LEMMA NextPiece ==
  ASSUME HeadTypes, NEW i \in 1 .. Len(fields), NEW m \in 0 .. Last(i), m < Last(i), pos = At(i, m)
  PROVE  /\ m + 1 \in 1 .. Last(i) /\ m + 1 \in 0 .. Last(i) /\ m \in 0 .. Len(fields[i].value) - 1
         /\ fields[i].value[m + 1] \in ValuePieces /\ pos \in Nat
         /\ At(i, m + 1) \in 0 .. Len(chars)
         /\ fields[i].value[m + 1] = "fold" => /\ At(i, m + 1) = pos + 3 /\ chars[pos + 1] = "cr"
                                               /\ chars[pos + 2] = "lf" /\ chars[pos + 3] = "sp"
         /\ fields[i].value[m + 1] # "fold" => At(i, m + 1) = pos + 1 /\ chars[pos + 1] = fields[i].value[m + 1]
<1> DEFINE l == m + 1
<1>1. Last(i) \in Nat /\ Last(i) = Len(fields[i].value)
  BY ValueStarts DEF Last
<1>2. l \in 1 .. Last(i) /\ l \in 0 .. Last(i) /\ m \in 0 .. Len(fields[i].value) - 1 /\ l - 1 = m
  BY <1>1
<1> HIDE DEF l
<1>3. PieceAt(i, l)
  BY <1>2, PieceThereAt
<1>4. /\ pos \in Nat /\ At(i, l) + 2 <= Ends(i) /\ fields[i].value[l] \in ValuePieces
      /\ fields[i].value[l] = "fold" => /\ At(i, l) = pos + 3 /\ chars[pos + 1] = "cr"
                                        /\ chars[pos + 2] = "lf" /\ chars[pos + 3] = "sp"
      /\ fields[i].value[l] # "fold" => At(i, l) = pos + 1 /\ chars[pos + 1] = fields[i].value[l]
  BY <1>2, <1>3 DEF PieceAt
<1>5. Ends(i) \in Nat /\ Ends(i) + 3 <= Len(chars) /\ Len(chars) \in Nat
  BY FieldRoom
<1>6. At(i, l) \in 0 .. Len(chars)
  <2> DEFINE p == At(i, l)
             z == Ends(i)
  <2>1. p = pos + 3 \/ p = pos + 1
    BY <1>4
  <2> HIDE DEF p, z
  <2>2. p + 2 <= z /\ z \in Nat /\ z + 3 <= Len(chars) /\ Len(chars) \in Nat /\ pos \in Nat
    BY <1>4, <1>5 DEF p, z
  <2>3. p \in 0 .. Len(chars)
    BY <2>1, <2>2
  <2> QED BY <2>3 DEF p
<1> QED BY <1>2, <1>4, <1>6 DEF l

\* The end of a field, from the place behind all pieces of its value.
LEMMA FieldOver ==
  ASSUME HeadTypes, NEW i \in 1 .. Len(fields), pos = At(i, Last(i))
  PROVE  /\ pos + 2 = Ends(i) /\ pos + 2 \in 0 .. Len(chars) /\ chars[pos + 1] = "cr" /\ chars[pos + 2] = "lf"
         /\ chars[pos + 3] # "sp" /\ i \in 0 .. Len(fields)
<1> DEFINE b == Reach(fields[i].value, Last(i))
           o == Origin(i)
           z == Ends(i)
<1>1. FieldAt(i)
  BY FieldThere
<1>2. b \in Nat /\ o \in Nat /\ z = o + b + 2 /\ chars[z - 1] = "cr" /\ chars[z] = "lf"
  BY <1>1, OriginIs DEF FieldAt
<1>3. pos = o + b
  BY DEF At
<1>4. i \in 0 .. Len(fields) /\ Len(fields) \in Nat
  BY Layout
<1>5. z + 3 <= Len(chars) /\ chars[z + 1] # "sp" /\ z \in Nat /\ Len(chars) \in Nat
  BY <1>4, AfterLine, FieldRoom
<1> HIDE DEF b, o, z
<1>6. pos + 2 = z /\ pos + 1 = z - 1 /\ pos + 3 = z + 1 /\ pos + 2 \in 0 .. Len(chars)
  BY <1>2, <1>3, <1>5
<1> QED BY <1>2, <1>4, <1>5, <1>6 DEF z

LEMMA IgnoreGoes ==
  ASSUME HeadInv, IgnoreStep
  PROVE  HeadInv'
<1>1. PICK i \in 1 .. Len(fields) : \E m \in 0 .. Last(i) : Ignoring(i, m)
  BY Where DEF IgnoreStep
<1>2. PICK m \in 0 .. Last(i) : Ignoring(i, m)
  BY <1>1
<1>3. /\ HeadTypes /\ HeadSame /\ pos = At(i, m) /\ result = Got(fields)[i - 1] /\ token = <<>> /\ ~Known(i)
      /\ token' = token /\ lws' = lws /\ result' = result
  BY <1>2 DEF HeadInv, IgnoreStep, Ignoring
<1>4. token' \in Seq(HeaderChars) /\ lws' \in BOOLEAN /\ Len(token') <= Longest
  <2>1. token \in Seq(HeaderChars) /\ lws \in BOOLEAN /\ Len(token) <= Longest /\ lws' = lws /\ token' = token
    BY DEF HeadInv, IgnoreStep
  <2> QED BY <2>1
<1>5. /\ Len(fields)' = Len(fields) /\ Got(fields)' = Got(fields) /\ Known(i)' = Known(i) /\ Last(i)' = Last(i)
      /\ Ends(i)' = Ends(i) /\ \A k : At(i, k)' = At(i, k)
  BY <1>3, Unmoved
<1>6. Last(i) \in Nat
  BY <1>3, ValueStarts
<1>7. CASE m < Last(i)
  <2> DEFINE l == m + 1
             p == fields[i].value[l]
  <2>1. /\ l \in 0 .. Last(i) /\ p \in ValuePieces /\ At(i, l) \in 0 .. Len(chars)
        /\ p = "fold" => /\ At(i, l) = pos + 3 /\ chars[pos + 1] = "cr"
                         /\ chars[pos + 2] = "lf" /\ chars[pos + 3] = "sp"
        /\ p # "fold" => At(i, l) = pos + 1 /\ chars[pos + 1] = p
    BY <1>3, <1>7, NextPiece
  <2> HIDE DEF l, p
  <2>2. pos' = At(i, l) /\ mode' = "ignored"
    <3>1. CASE p = "fold"
      BY <2>1, <3>1 DEF IgnoreStep
    <3>2. CASE p # "fold"
      <4>1. p # "cr"
        BY <2>1 DEF ValuePieces
      <4> QED BY <2>1, <3>2, <4>1 DEF IgnoreStep
    <3> QED BY <3>1, <3>2
  <2>3. Ignoring(i, l)'
    BY <1>3, <1>5, <2>2 DEF Ignoring
  <2>4. Place'
    BY <1>5, <2>1, <2>3 DEF Place
  <2> QED BY <1>3, <1>4, <2>1, <2>2, <2>4, Arriving
<1>8. CASE ~(m < Last(i))
  <2>1. m = Last(i)
    BY <1>6, <1>8
  <2>2. /\ pos + 2 = Ends(i) /\ pos + 2 \in 0 .. Len(chars) /\ chars[pos + 1] = "cr" /\ chars[pos + 2] = "lf"
        /\ chars[pos + 3] # "sp" /\ i \in 0 .. Len(fields)
    BY <1>3, <2>1, FieldOver
  <2>3. pos' = pos + 2 /\ mode' = "line"
    BY <2>2 DEF IgnoreStep
  <2>4. Got(fields)[i] = Got(fields)[i - 1]
    BY <1>3, MeantIs
  <2>5. InLine(i)'
    BY <1>3, <1>5, <2>2, <2>3, <2>4 DEF InLine
  <2>6. Place'
    BY <1>5, <2>2, <2>5 DEF Place
  <2> QED BY <1>3, <1>4, <2>2, <2>3, <2>6, Arriving
<1> QED BY <1>7, <1>8

LEMMA ValueGoes ==
  ASSUME HeadInv, ValueStep
  PROVE  HeadInv'
<1>1. PICK i \in 1 .. Len(fields) : \E m \in 0 .. Last(i) : InValue(i, m)
  BY Where DEF ValueStep
<1>2. PICK m \in 0 .. Last(i) : InValue(i, m)
  BY <1>1
<1> DEFINE v == fields[i].value
<1>3. /\ HeadTypes /\ HeadSame /\ pos = At(i, m) /\ result = Got(fields)[i - 1] /\ Known(i)
      /\ token = Worded(v)[m] /\ Len(token) <= ValueLimit /\ (lws <=> m > 0 /\ v[m] # "x")
  BY <1>2 DEF HeadInv, ValueStep, InValue
<1>4. token \in Seq(HeaderChars) /\ lws \in BOOLEAN /\ Len(token) <= Longest
  BY DEF HeadInv
<1>5. /\ Len(fields)' = Len(fields) /\ Got(fields)' = Got(fields) /\ Known(i)' = Known(i) /\ Last(i)' = Last(i)
      /\ Ends(i)' = Ends(i) /\ (\A k : At(i, k)' = At(i, k)) /\ fields'[i].value = v /\ ValueOf(i)' = ValueOf(i)
  BY <1>3, Unmoved
<1>6. Last(i) \in Nat /\ v \in Seq(ValuePieces) /\ Last(i) = Len(v)
  BY <1>3, ValueStarts DEF Last
<1>7. CASE m < Last(i)
  <2> DEFINE l == m + 1
             p == v[l]
             t == token \o Space
             u == t \o <<"x">>
             c == chars[pos + 1]
  <2>1. /\ l \in 0 .. Last(i) /\ l \in 1 .. Last(i) /\ p \in ValuePieces /\ At(i, l) \in 0 .. Len(chars)
        /\ m \in 0 .. Len(v) - 1
        /\ p = "fold" => /\ At(i, l) = pos + 3 /\ chars[pos + 1] = "cr"
                         /\ chars[pos + 2] = "lf" /\ chars[pos + 3] = "sp"
        /\ p # "fold" => At(i, l) = pos + 1 /\ c = p
    BY <1>3, <1>7, NextPiece
  <2>2. /\ p # "x" => Worded(v)[l] = token
        /\ p = "x" => Worded(v)[l] = u
    <3>1. Space = IF lws /\ Worded(v)[m] # <<>> THEN <<"sp">> ELSE <<>>
      BY <1>3 DEF Space
    <3> HIDE DEF v
    <3> QED BY <1>3, <1>6, <2>1, <3>1, NextWord
  <2>3. l > 0 /\ l - 1 = m
    BY <2>1
  <2> HIDE DEF v, l, p, t, u, c
  <2>4. CASE p # "x"
    <3>1. pos' = At(i, l) /\ mode' = "value" /\ token' = token /\ lws' = TRUE /\ result' = result
      <4>1. CASE p = "fold"
        BY <2>1, <4>1 DEF ValueStep
      <4>2. CASE p # "fold"
        <5>1. p = "sp"
          BY <2>1, <2>4, <4>2 DEF ValuePieces
        <5> QED BY <2>1, <4>2, <5>1 DEF ValueStep, c
      <4> QED BY <4>1, <4>2
    <3>2. InValue(i, l)'
      BY <1>3, <1>5, <2>2, <2>3, <2>4, <3>1 DEF InValue, p
    <3>3. Place'
      BY <1>5, <2>1, <3>2 DEF Place
    <3> QED BY <1>3, <1>4, <2>1, <3>1, <3>3, Arriving
  <2>5. CASE p = "x"
    <3>1. c = "x" /\ At(i, l) = pos + 1 /\ c \notin {"cr", "sp"}
      BY <2>1, <2>5
    <3>2. Space \in Seq(HeaderChars)
      <4>1. "sp" \in HeaderChars
        BY DEF HeaderChars
      <4>2. <<"sp">> \in Seq(HeaderChars) /\ <<>> \in Seq(HeaderChars)
        BY <4>1
      <4> QED BY <4>2 DEF Space
    <3>3. u \in Seq(HeaderChars) /\ Len(u) = (Len(token) + Len(Space)) + 1 /\ Len(token) \in Nat /\ Len(Space) \in Nat
      <4> DEFINE x == <<"x">>
      <4>1. x \in Seq(HeaderChars) /\ Len(x) = 1
        <5>1. "x" \in HeaderChars
          BY DEF HeaderChars
        <5> QED BY <5>1
      <4> HIDE DEF x
      <4>2. t \in Seq(HeaderChars) /\ Len(t) = Len(token) + Len(Space) /\ Len(token) \in Nat /\ Len(Space) \in Nat
        BY <1>4, <3>2, Behind DEF t
      <4>3. t \o x \in Seq(HeaderChars) /\ Len(t \o x) = Len(t) + Len(x)
        BY <4>1, <4>2, Behind
      <4> QED BY <4>1, <4>2, <4>3 DEF u, x
    <3>4. CASE Len(token) + Len(Space) >= ValueLimit
      <4>1. pos' = pos + 1 /\ lws' = FALSE /\ mode' = "error" /\ token' = token
        BY <3>1, <3>4 DEF ValueStep, c
      <4>2. Len(ValueOf(i)) > ValueLimit
        <5>1. Worded(v)[l] = u
          BY <2>2, <2>5
        <5>2. Assembled(Wording(v), Len(v), HeaderChars, Worded(v))
          BY <1>6, WordsAre
        <5>3. l \in 0 .. Len(v)
          BY <1>6, <2>1
        <5>4. StartsWith(Worded(v)[Len(v)], Worded(v)[l])
          BY <5>2, <5>3, PartsStart DEF Assembled
        <5>5. ValueOf(i) = Worded(v)[Len(v)]
          BY <1>6 DEF ValueOf, v
        <5>6. Len(u) <= Len(ValueOf(i))
          BY <5>1, <5>4, <5>5 DEF StartsWith
        <5>7. ValueOf(i) \in Seq(HeaderChars)
          <6>1. Len(v) \in 0 .. Len(v)
            BY <1>6
          <6> QED BY <1>6, <5>5, <6>1, WordsGrow
        <5>8. Len(ValueOf(i)) \in Nat
          BY <5>7, LenNat
        <5>9. Len(u) > ValueLimit
          BY <3>3, <3>4, HeadLimits
        <5> QED BY <3>3, <5>6, <5>8, <5>9, HeadLimits
      <4>3. TooLong'
        BY <1>3, <1>5, <4>1, <4>2 DEF TooLong
      <4>4. Place'
        BY <4>3 DEF Place
      <4> QED BY <1>3, <1>4, <2>1, <3>1, <4>1, <4>4, Arriving
    <3>5. CASE ~(Len(token) + Len(Space) >= ValueLimit)
      <4>1. pos' = pos + 1 /\ lws' = FALSE /\ mode' = "value" /\ token' = u /\ result' = result
        BY <3>1, <3>5 DEF ValueStep, c, u, t
      <4>2. Len(u) <= ValueLimit
        BY <3>3, <3>5, HeadLimits
      <4>3. InValue(i, l)'
        BY <1>3, <1>5, <2>2, <2>3, <2>5, <3>1, <4>1, <4>2 DEF InValue, p
      <4>4. Place'
        BY <1>5, <2>1, <4>3 DEF Place
      <4>5. token' \in Seq(HeaderChars) /\ Len(token') <= Longest
        BY <3>3, <4>1, <4>2, HeadLimits
      <4> QED BY <1>3, <2>1, <3>1, <4>1, <4>4, <4>5, Arriving
    <3> QED BY <3>4, <3>5
  <2> QED BY <2>4, <2>5
<1>8. CASE ~(m < Last(i))
  <2>1. m = Last(i)
    BY <1>6, <1>8
  <2>2. /\ pos + 2 = Ends(i) /\ pos + 2 \in 0 .. Len(chars) /\ chars[pos + 1] = "cr" /\ chars[pos + 2] = "lf"
        /\ chars[pos + 3] # "sp" /\ i \in 0 .. Len(fields)
    BY <1>3, <2>1, FieldOver
  <2>3. pos' = pos + 2 /\ mode' = "line" /\ result' = Append(result, token) /\ token' = token /\ lws' = lws
    BY <2>2 DEF ValueStep
  <2>4. Got(fields)[i] = Append(Got(fields)[i - 1], ValueOf(i))
    BY <1>3, MeantIs
  <2>5. token = ValueOf(i)
    BY <1>3, <2>1 DEF ValueOf
  <2>6. InLine(i)'
    BY <1>3, <1>5, <2>2, <2>3, <2>4, <2>5 DEF InLine
  <2>7. Place'
    BY <1>5, <2>2, <2>6 DEF Place
  <2>8. lws' \in BOOLEAN
    BY <1>4, <2>3
  <2> QED BY <1>3, <1>4, <2>2, <2>3, <2>7, <2>8, Arriving
<1> QED BY <1>7, <1>8


\* A step keeps the invariant.
LEMMA HeadNext ==
  ASSUME HeadInv, Headers!Next \/ UNCHANGED Headers!vars
  PROVE  HeadInv'
<1>1. CASE Headers!Next
  <2>1. HeadTypes /\ pos \in Nat
    <3>1. Len(chars) \in Nat
      BY Layout DEF HeadInv
    <3> QED BY <3>1 DEF HeadInv
  <2> QED BY <1>1, <2>1, HeadSteps, LineGoes, NameGoes, SkipGoes, ValueGoes, IgnoreGoes
<1>2. CASE UNCHANGED Headers!vars
  <2>1. UNCHANGED <<fields, chars, pos, mode, token, lws, result>>
    BY <1>2 DEF Headers!vars, fields, chars, pos, mode, token, lws, result
  <2>2. HeadSame
    BY <2>1 DEF HeadSame
  <2>3. HeadTypes' /\ Len(chars)' = Len(chars) /\ Len(fields)' = Len(fields) /\ Got(fields)' = Got(fields)
    BY <2>2, Unmoved DEF HeadInv
  <2>4. ASSUME NEW i \in 0 .. Len(fields), InLine(i) PROVE InLine(i)'
    BY <2>1, <2>2, <2>4, Unmoved DEF InLine
  <2>5. ASSUME NEW i \in 1 .. Len(fields), InName(i) \/ InLongName(i) PROVE (InName(i) \/ InLongName(i))'
    <3>1. Ends(i - 1)' = Ends(i - 1) /\ fields'[i] = fields[i]
      BY <2>2, Unmoved
    <3>2. CASE InName(i)
      BY <2>1, <2>3, <3>1, <3>2 DEF InName
    <3>3. CASE InLongName(i)
      BY <2>1, <2>3, <3>1, <3>3 DEF InLongName
    <3> QED BY <2>5, <3>2, <3>3
  <2>6. ASSUME NEW i \in 1 .. Len(fields), NEW m \in 0 .. Last(i), InValue(i, m) \/ Ignoring(i, m)
        PROVE  (InValue(i, m) \/ Ignoring(i, m))' /\ Last(i)' = Last(i)
    <3>1. At(i, m)' = At(i, m) /\ fields'[i] = fields[i] /\ Known(i)' = Known(i) /\ Last(i)' = Last(i)
      BY <2>2, Unmoved
    <3>2. CASE InValue(i, m)
      BY <2>1, <2>3, <3>1, <3>2 DEF InValue
    <3>3. CASE Ignoring(i, m)
      BY <2>1, <2>3, <3>1, <3>3 DEF Ignoring
    <3> QED BY <2>6, <3>1, <3>2, <3>3
  <2>7. AllRead => AllRead'
    <3>1. (Ends(Len(fields)))' = Ends(Len(fields))
      BY <2>1 DEF Ends
    <3> QED BY <2>1, <2>3, <3>1 DEF AllRead
  <2>8. TooLong => TooLong'
    <3> SUFFICES ASSUME TooLong PROVE TooLong'
      OBVIOUS
    <3>1. PICK i \in 1 .. Len(fields) : Known(i) /\ Len(ValueOf(i)) > ValueLimit
      BY DEF TooLong
    <3>2. Known(i)' = Known(i) /\ ValueOf(i)' = ValueOf(i)
      BY <2>2, Unmoved
    <3> QED BY <2>1, <2>3, <3>1, <3>2 DEF TooLong
  <2>9. Place'
    <3>1. CASE \E i \in 0 .. Len(fields) : InLine(i)
      BY <2>3, <2>4, <3>1 DEF Place
    <3>2. CASE \E i \in 1 .. Len(fields) : InName(i) \/ InLongName(i)
      BY <2>3, <2>5, <3>2 DEF Place
    <3>3. CASE \E i \in 1 .. Len(fields) : \E m \in 0 .. Last(i) : InValue(i, m) \/ Ignoring(i, m)
      <4>1. PICK i \in 1 .. Len(fields) : \E m \in 0 .. Last(i) : InValue(i, m) \/ Ignoring(i, m)
        BY <3>3
      <4>2. PICK m \in 0 .. Last(i) : InValue(i, m) \/ Ignoring(i, m)
        BY <4>1
      <4> QED BY <2>3, <2>6, <4>2 DEF Place
    <3>4. CASE AllRead \/ TooLong
      BY <2>7, <2>8, <3>4 DEF Place
    <3> QED BY <3>1, <3>2, <3>3, <3>4 DEF HeadInv, Place
  <2>10. pos' \in 0 .. Len(chars) /\ token' \in Seq(HeaderChars) /\ lws' \in BOOLEAN /\ Len(token') <= Longest
    BY <2>1 DEF HeadInv
  <2> QED BY <2>2, <2>9, <2>10, Arriving
<1> QED BY <1>1, <1>2

\* It holds before the first character.
LEMMA HeadInit ==
  ASSUME Headers!Init
  PROVE  HeadInv
<1>1. /\ v1 \in UNION {[1 .. n -> [name : FieldNames, value : FieldValues]] : n \in 0 .. MaxFields}
      /\ v2 = Headers!Render(v1) /\ v3 = 0 /\ v4 = "line" /\ v5 = <<>> /\ v6 = FALSE /\ v7 = <<>>
  BY DEF Headers!Init
<1>2. PICK n \in 0 .. MaxFields : v1 \in [1 .. n -> [name : FieldNames, value : FieldValues]]
  BY <1>1
<1>3. n \in Nat
  BY MessageAssumption DEF Headers!HeaderAssumption
<1>4. [name : FieldNames, value : FieldValues] \subseteq Field
  <2>1. FieldNames \subseteq Seq({"k", "x"}) /\ FieldValues \subseteq Seq({"x", "sp", "fold"})
    BY MessageAssumption DEF Headers!HeaderAssumption
  <2> QED BY <2>1 DEF Field, NameChars, ValuePieces
<1>5. fields \in Seq(Field)
  <2>1. v1 \in [1 .. n -> Field]
    BY <1>2, <1>4
  <2> HIDE DEF Field
  <2> QED BY <1>3, <2>1 DEF fields
<1>6. HeadTypes
  BY <1>1, <1>5 DEF HeadTypes, fields, chars
<1>7. Len(fields) \in Nat /\ Ends(0) = 0 /\ Len(chars) \in Nat
  <2>1. Len(chars) = Ends(Len(fields)) + 3 /\ Ends(Len(fields)) \in Nat /\ Ends(0) = 0 /\ Len(fields) \in Nat
    BY <1>6, Layout
  <2> QED BY <2>1
<1>8. Got(fields)[0] = <<>>
  BY <1>6, MeantIs
<1>9. InLine(0)
  BY <1>1, <1>7, <1>8 DEF InLine, mode, pos, result
<1>10. Place
  <2>1. 0 \in 0 .. Len(fields)
    BY <1>7
  <2> QED BY <1>9, <2>1 DEF Place
<1>11. token \in Seq(HeaderChars) /\ Len(token) = 0 /\ lws \in BOOLEAN /\ pos \in 0 .. Len(chars)
  <2>1. token = <<>> /\ lws = FALSE /\ pos = 0
    BY <1>1 DEF token, lws, pos
  <2>2. <<>> \in Seq(HeaderChars) /\ Len(<<>>) = 0
    OBVIOUS
  <2>3. 0 \in 0 .. Len(chars) /\ FALSE \in BOOLEAN
    BY <1>7
  <2> QED BY <2>1, <2>2, <2>3
<1> QED BY <1>6, <1>10, <1>11, HeadLimits DEF HeadInv

\* What the invariant says of the end.
LEMMA HeadMeans ==
  ASSUME HeadInv
  PROVE  Headers!TypeOK /\ Headers!HeadersInSync /\ Headers!RefusedForLength
<1>1. HeadTypes /\ pos \in 0 .. Len(chars) /\ lws \in BOOLEAN /\ Len(token) <= Longest
  BY DEF HeadInv
<1>2. mode \in Headers!Modes
  BY Zenon DEF HeadInv, Place, InLine, InName, InLongName, InValue, Ignoring, AllRead, TooLong, Headers!Modes
<1>3. Headers!TypeOK
  BY <1>1, <1>2 DEF Headers!TypeOK, Longest, pos, mode, lws, token, chars
<1>4. /\ Headers!Meant(fields) = Got(fields)[Len(fields)] /\ Len(fields) \in Nat
      /\ Assembled(Meaning(fields), Len(fields), Seq(HeaderChars), Got(fields))
  BY <1>1, MeantIs
<1>5. Headers!HeadersInSync
  <2> SUFFICES ASSUME mode = "done"
               PROVE  chars[pos + 1] = "next" /\ result = Headers!Meant(fields)
    BY DEF Headers!HeadersInSync, mode, chars, pos, result, fields
  <2>1. pos = Ends(Len(fields)) + 2 /\ result = Got(fields)[Len(fields)]
    BY Where DEF AllRead
  <2>2. chars[Ends(Len(fields)) + 3] = "next" /\ Ends(Len(fields)) \in Nat
    BY <1>1, Layout
  <2>3. pos + 1 = Ends(Len(fields)) + 3
    <3> DEFINE e == Ends(Len(fields))
    <3>1. e \in Nat /\ pos = e + 2
      BY <2>1, <2>2
    <3> HIDE DEF e
    <3>2. pos + 1 = e + 3
      BY <3>1
    <3> QED BY <3>2 DEF e
  <2> QED BY <1>4, <2>1, <2>2, <2>3
<1>6. Headers!RefusedForLength
  <2> SUFFICES ASSUME mode = "error"
               PROVE  \E i \in DOMAIN Headers!Meant(fields) : Len(Headers!Meant(fields)[i]) > ValueLimit
    BY DEF Headers!RefusedForLength, mode, fields
  <2>1. PICK i \in 1 .. Len(fields) : Known(i) /\ Len(ValueOf(i)) > ValueLimit
    BY Where DEF TooLong
  <2> DEFINE g == Got(fields)
             n == Len(fields)
             V == Seq(HeaderChars)
             x == ValueOf(i)
  <2>2. g[i] = Append(g[i - 1], x)
    BY <1>1, <2>1, MeantIs
  <2>3. Assembled(Meaning(fields), n, V, g)
    BY <1>4
  <2>4. i \in 0 .. n /\ i - 1 \in 0 .. n /\ n \in 0 .. n /\ i \in 1 .. n
    BY <1>4
  <2>5. StartsWith(g[n], g[i]) /\ g[i - 1] \in Seq(V) /\ g[i] \in Seq(V) /\ g[n] \in Seq(V)
    <3> HIDE DEF V, g, n
    <3>1. /\ n \in Nat /\ Len(Meaning(fields)) = n /\ (\A y \in 1 .. n : Meaning(fields)[y] \in Seq(V))
          /\ Parts(g, Meaning(fields), V)
      BY <2>3 DEF Assembled
    <3> QED BY <2>4, <3>1, PartsStart
  <2>6. x \in V
    <3>1. fields[i].value \in Seq(ValuePieces)
      BY <1>1, <2>4, ValueStarts
    <3>2. Len(fields[i].value) \in 0 .. Len(fields[i].value)
      BY <3>1
    <3> QED BY <3>1, <3>2, WordsGrow DEF ValueOf, Last
  <2> DEFINE a == g[i - 1]
             b == g[i]
             w == g[n]
             k == Len(a) + 1
  <2>7. a \in Seq(V) /\ b = Append(a, x) /\ w \in Seq(V) /\ StartsWith(w, b) /\ w = Headers!Meant(fields)
    BY <1>4, <2>2, <2>5
  <2> HIDE DEF g, n, V, x, a, b, w, k
  <2>8. Len(a) \in Nat /\ Len(b) = k /\ b[k] = x /\ k \in 1 .. Len(b)
    BY <2>6, <2>7 DEF k
  <2>9. k \in 1 .. Len(w) /\ w[k] = x
    <3>1. Len(w) \in Nat
      BY <2>7, LenNat
    <3> QED BY <2>7, <2>8, <3>1 DEF StartsWith
  <2>10. k \in DOMAIN w
    BY <2>7, <2>9
  <2> QED BY <2>1, <2>7, <2>9, <2>10 DEF x
<1> QED BY <1>3, <1>5, <1>6

\* The part that is a header keeps the invariant.
HeadPart == part = "headers" => HeadInv

LEMMA HeadInvariant == MessageSpec => []HeadPart
<1>1. MessageInit => HeadPart
  BY HeadInit DEF MessageInit, HeadPart
<1>2. HeadPart /\ [MessageNext]_messageVars => HeadPart'
  <2> SUFFICES ASSUME HeadPart, [MessageNext]_messageVars, part' = "headers" PROVE HeadInv'
    BY DEF HeadPart
  <2>1. part = "headers" /\ HeadInv
    BY DEF HeadPart, MessageNext, messageVars
  <2>2. Headers!Next \/ UNCHANGED Headers!vars
    BY <2>1 DEF MessageNext, messageVars, Headers!vars
  <2> QED BY <2>1, <2>2, HeadNext
<1> QED BY <1>1, <1>2, PTL DEF MessageSpec

\* Header fields are read as they are meant, whatever the fields and the limits.
THEOREM HeadersAreMeant == MessageSpec => []HeadersMeant
<1>1. HeadPart => HeadersMeant
  BY HeadMeans DEF HeadPart, HeadersMeant
<1> QED BY <1>1, HeadInvariant, PTL
=============================================================================
