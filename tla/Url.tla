-------------------------------- MODULE Url --------------------------------
(***************************************************************************)
(* encode_url, decode_url and the request line they serve: the path up to  *)
(* the "?", then parameters between "&", each a key, or a key "=" a value. *)
(* decode_url steps through its range with an iterator that takes the two  *)
(* characters after a "%" without looking for the end.                     *)
(*                                                                         *)
(* Three digits stand for the sixteen, "p" for the unreserved characters   *)
(* that are no digits, Coded for the others, in the order of their codes.  *)
(***************************************************************************)
EXTENDS Naturals, Sequences, FiniteSets, SequencesExt

CONSTANTS Paths, Parameters, \* what a client encodes: paths, and sequences of [key, value]
          Raw,               \* what it may send as it is: request targets
          PathLimit          \* maximum_path_length

Digits == <<"0", "1", "2">>
Unreserved == {"0", "1", "2", "p"}
Coded == <<"/", "?", "&", "=", "%", "#", "sp", "nul", "high">>
Code(hi, lo) == Coded[3 * hi + lo + 1]
ValidInPath == Unreserved \cup {"/", "?", "&", "=", "%", "#"}

\* What the constants satisfy; assumed where they are given values.
Characters == Unreserved \cup Range(Coded)
UrlAssumption == /\ Paths \subseteq Seq(Characters) /\ PathLimit \in Nat
                 /\ Raw \subseteq Seq(Characters \ {"sp"})  \* the target ends at a blank
                 /\ Parameters \subseteq Seq([key : Seq(Characters), value : Seq(Characters)])

(***************************************************************************)
(* The client.                                                             *)
(***************************************************************************)
Encode(s) == FlattenSeq([i \in DOMAIN s |->
  IF s[i] \in Unreserved THEN <<s[i]>>
  ELSE LET n == CHOOSE n \in 0 .. 8 : Coded[n + 1] = s[i] IN <<"%", Digits[(n \div 3) + 1], Digits[(n % 3) + 1]>>])

Query(parameters) == FlattenSeq([i \in DOMAIN parameters |->
  (IF i = 1 THEN <<"?">> ELSE <<"&">>) \o Encode(parameters[i].key) \o <<"=">> \o Encode(parameters[i].value)])

VARIABLES sent,        \* what was encoded, or None
          target,      \* original_path
          part,        \* the part being decoded: [first, last, role], role "none" when there is none
          token,       \* the tokenizer's token, as [first, last]
          it, text,    \* decode_url's iterator and result
          key,         \* the key that is decoded
          path, parameters,
          state        \* "reading", "accepted", "bad_request"

vars == <<sent, target, part, token, it, text, key, path, parameters, state>>
None == [path |-> <<>>, parameters |-> <<>>]
NoPart == [first |-> 1, last |-> 0, role |-> "none"]
NoToken == [first |-> 1, last |-> 0]

\* Positions of s in first..last, the first one or the one after last.
FirstOf(symbol, first, last) ==
  LET found == {i \in first .. last : target[i] = symbol}
  IN IF found = {} THEN last + 1 ELSE Min(found)

Init == /\ \/ \E p \in Paths, q \in Parameters :
                 sent = [path |-> p, parameters |-> q] /\ target = <<"/">> \o Encode(p) \o Query(q)
           \/ sent = None /\ target \in Raw
        /\ part = NoPart /\ token = NoToken /\ it = 0 /\ text = <<>> /\ key = <<>> /\ path = <<>>
        /\ parameters = {} /\ state = "start"

\* A token is what stands between two "&", if it is not empty; each is cut off what stands behind
\* the last one.
Left == {i \in token.last + 1 .. Len(target) : target[i] # "&"}

IsValidPath(s) == s # <<>> /\ s[1] = "/" /\ \A i \in DOMAIN s : s[i] \in ValidInPath

\* read_token gives up a target over the limit.
Readable(s) == Len(s) <= PathLimit /\ IsValidPath(s)

Begin(first, last, role) == part' = [first |-> first, last |-> last, role |-> role] /\ it' = first /\ text' = <<>>

ReadTarget ==
  /\ state = "start"
  /\ IF ~Readable(target) THEN state' = "bad_request" /\ UNCHANGED <<part, token, it, text>>
     ELSE LET end == FirstOf("?", 1, Len(target)) IN
          /\ state' = "reading" /\ Begin(1, end - 1, "path")
          /\ token' = [first |-> end, last |-> end]
  /\ UNCHANGED <<sent, target, key, path, parameters>>

(***************************************************************************)
(* decode_url.                                                             *)
(***************************************************************************)
Decoding == state = "reading" /\ part.role # "none"
\* The string the range is of: the target, or the tokenizer's copy of a token.
StringEnd == IF part.role = "path" THEN Len(target) ELSE token.last
\* What the iterator may find, also behind its range: the string ends with a zero, and what
\* follows that is not its own.
At(i) == IF i <= StringEnd THEN {target[i]} ELSE IF i = StringEnd + 1 THEN {"nul"} ELSE {"0", "p"}
Digit(c) == {n \in 0 .. 2 : Digits[n + 1] = c}

DecodePlain == /\ Decoding /\ it <= part.last /\ target[it] # "%"
               /\ text' = Append(text, target[it]) /\ it' = it + 1
               /\ UNCHANGED <<sent, target, part, token, key, path, parameters, state>>

\* Mutant of Refused: the first digit is not looked at
RefusedBySecond(hi, lo) == Digit(lo) = {}

Refused(hi, lo) == Digit(hi) = {} \/ Digit(lo) = {}

DecodePercent == Decoding /\ \E hi \in At(it + 1), lo \in At(it + 2) :
  LET Value(c) == IF Digit(c) = {} THEN 0 ELSE CHOOSE n \in Digit(c) : TRUE
  IN /\ it <= part.last /\ target[it] = "%"
     /\ IF Refused(hi, lo) THEN state' = "bad_request" /\ UNCHANGED <<it, text>>
        ELSE text' = Append(text, Code(Value(hi), Value(lo))) /\ it' = it + 3 /\ UNCHANGED state
     /\ UNCHANGED <<sent, target, part, token, key, path, parameters>>

\* parameters[key] = value
Put(k, v) == parameters' = {p \in parameters : p.key # k} \cup {[key |-> k, value |-> v]}

EndPart ==
  /\ Decoding /\ it = part.last + 1
  /\ CASE part.role = "path"  -> path' = text /\ part' = NoPart /\ UNCHANGED <<it, text, key, parameters>>
       [] part.role = "key"   -> /\ key' = text /\ Begin(part.last + 2, token.last, "value")
                                 /\ UNCHANGED <<path, parameters>>
       [] part.role = "value" -> Put(key, text) /\ part' = NoPart /\ UNCHANGED <<it, text, key, path>>
  /\ UNCHANGED <<sent, target, token, state>>

\* A parameter without "=" is not decoded.
NextParameter ==
  /\ state = "reading" /\ part.role = "none" /\ Left # {}
  /\ LET first == Min(Left)
         last == FirstOf("&", first, Len(target)) - 1
         equal == FirstOf("=", first, last)
     IN /\ token' = [first |-> first, last |-> last]
        /\ IF equal <= last THEN Begin(first, equal - 1, "key") /\ UNCHANGED parameters
           ELSE Put(SubSeq(target, first, last), <<>>) /\ UNCHANGED <<part, it, text>>
  /\ UNCHANGED <<sent, target, key, path, state>>

Accept == /\ state = "reading" /\ part.role = "none" /\ Left = {}
          /\ state' = "accepted"
          /\ UNCHANGED <<sent, target, part, token, it, text, key, path, parameters>>

Next == ReadTarget \/ DecodePlain \/ DecodePercent \/ EndPart \/ NextParameter \/ Accept

Spec == Init /\ [][Next]_vars
-----------------------------------------------------------------------------
TypeOK == /\ state \in {"start", "reading", "accepted", "bad_request"}
          /\ it \in 0 .. Len(target) + 1
          /\ \A p \in parameters : \A q \in parameters : p.key = q.key => p = q

\* decode_url goes on at the end of its range at the latest, where the loop's comparison with the
\* end still holds: what stands behind a range (a "?", "&", "=" or the zero of the string) is no
\* digit, so a "%" too near the end is refused.
StaysInRange == Decoding => it <= part.last + 1

\* The iterator reads the two characters after a "%" before it looks at either, so the second one
\* may lie behind the string.  Whatever is found there, the outcome is the same.
UnknownUnused == Decoding /\ it <= part.last /\ target[it] = "%" =>
  \A hi1, hi2 \in At(it + 1), lo1, lo2 \in At(it + 2) :
    \/ Refused(hi1, lo1) /\ Refused(hi2, lo2)
    \/ hi1 = hi2 /\ lo1 = lo2

\* A target is refused if and only if it is too long, one of its characters is not valid or a "%"
\* in it that is to be decoded is not followed by two digits.
Escaped(i) == i + 2 <= Len(target) /\ \A j \in {i + 1, i + 2} : Digit(target[j]) # {}
InPlainToken(i) == \E first, last \in DOMAIN target :
  /\ i \in first .. last /\ \A j \in first .. last : target[j] \notin {"&", "="}
  /\ first > FirstOf("?", 1, Len(target))
  /\ first - 1 = FirstOf("?", 1, Len(target)) \/ target[first - 1] = "&"
  /\ last = Len(target) \/ target[last + 1] = "&"
RefusedIfMalformed == state \in {"accepted", "bad_request"} =>
  (state = "bad_request" <=> \/ ~Readable(target)
                             \/ \E i \in DOMAIN target : /\ target[i] = "%" /\ ~InPlainToken(i)
                                                         /\ ~Escaped(i))

\* What encode_url wrote is read back, if it is not too long: the path, and for each key the last
\* value given to it.
ReadAsEncoded == sent # None /\ Len(target) <= PathLimit /\ state # "start" =>
  /\ state # "bad_request"
  /\ state = "accepted" =>
       /\ path = <<"/">> \o sent.path
       /\ parameters = {[key |-> sent.parameters[i].key, value |-> sent.parameters[i].value] :
            i \in {j \in DOMAIN sent.parameters : \A k \in DOMAIN sent.parameters :
                     k > j => sent.parameters[k].key # sent.parameters[j].key}}
=============================================================================
