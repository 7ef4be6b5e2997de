------------------------------- MODULE Cookie -------------------------------
(***************************************************************************)
(* http_cookie on both sides: the Cookie line a client writes and a server *)
(* parses, and the Set-Cookie lines a server writes and http_client parses *)
(* into the same kind of map, one parse() for each line.                   *)
(*                                                                         *)
(* A text is a sequence of symbols, "semi" a semicolon, "sp" a blank and   *)
(* "tab" a tab; "x" and "y" stand for what is neither.  The maps are       *)
(* unordered.                                                              *)
(***************************************************************************)
EXTENDS Naturals, Sequences, FiniteSets, SequencesExt

CONSTANTS Names, Values,  \* what a program gives set()
          MaxCookies,     \* bound on the cookies of a message
          LineLimit       \* maximum_header_length, in symbols

Path == <<"path">>
Expires == <<"expires">>
\* What the constants satisfy; assumed where they are given values.
CookieAssumption ==
  /\ MaxCookies \in Nat /\ LineLimit \in Nat
  /\ Names \cup Values \subseteq Seq({"x", "y", "=", "semi", "sp", "tab", "path", "expires"})

VARIABLES jar,      \* the map the sender fills: a set of [name, value], one for each name
          side,     \* "client" writes Cookie, "server" writes Set-Cookie
          unwritten,\* the cookies write_request or write_response has not come to
          lines,    \* the lines written
          parsed,   \* the receiver's map
          unread,   \* the keyValues of the line under parse()
          state     \* "setting", "writing", "parsing", "done", "refused"

vars == <<jar, side, unwritten, lines, parsed, unread, state>>

Init == /\ jar = {} /\ side \in {"client", "server"} /\ unwritten = {} /\ lines = <<>>
        /\ parsed = {} /\ unread = <<>> /\ state = "setting"

NamesOf(map) == {c.name : c \in map}

\* insert() leaves a cookie that is there as it is.
SetCookie == \E n \in Names, v \in Values :
  /\ state = "setting" /\ Cardinality(jar) < MaxCookies
  /\ jar' = IF n \in NamesOf(jar) THEN jar ELSE jar \cup {[name |-> n, value |-> v]}
  /\ UNCHANGED <<side, unwritten, lines, parsed, unread, state>>

Write == /\ state = "setting"
         /\ state' = "writing" /\ unwritten' = jar
         /\ UNCHANGED <<jar, side, lines, parsed, unread>>

Pair(c) == c.name \o <<"=">> \o c.value
Separated(s, t) == s \o <<"semi", "sp">> \o t
Attributes == <<Pair([name |-> Expires, value |-> <<"x", "sp", "y">>]), Pair([name |-> Path, value |-> <<"x">>])>>

\* One line of all cookies, in the order of the map.
WriteRequest == \E c \in unwritten :
  /\ state = "writing" /\ side = "client"
  /\ lines' = IF lines = <<>> THEN <<Pair(c)>> ELSE <<Separated(lines[1], Pair(c))>>
  /\ unwritten' = unwritten \ {c}
  /\ UNCHANGED <<jar, side, parsed, unread, state>>

\* A line for each cookie.
WriteResponse == \E c \in unwritten :
  /\ state = "writing" /\ side = "server"
  /\ lines' = Append(lines, Separated(Separated(Pair(c), Attributes[1]), Attributes[2]))
  /\ unwritten' = unwritten \ {c}
  /\ UNCHANGED <<jar, side, parsed, unread, state>>

Send == /\ state = "writing" /\ unwritten = {}
        /\ state' = "parsing"
        /\ UNCHANGED <<jar, side, unwritten, lines, parsed, unread>>

(***************************************************************************)
(* parse.                                                                  *)
(***************************************************************************)
Blank(c) == c \in {"sp", "tab"}

\* What read_header_value makes of a line: of the blanks between two words one is left, and none of
\* those around them.
Collapse(line) ==
  LET Gap(i) == /\ i < Len(line) /\ ~Blank(line[i + 1])
                /\ \E j \in 1 .. i : ~Blank(line[j])
  IN FlattenSeq([i \in DOMAIN line |->
       IF ~Blank(line[i]) THEN <<line[i]>> ELSE IF Gap(i) THEN <<"sp">> ELSE <<>>])

\* The tokenizer drops what is empty between two semicolons.
KeyValues(line) ==
  LET Begins(i) == line[i] # "semi" /\ (i = 1 \/ line[i - 1] = "semi")
      End(i) == CHOOSE j \in i .. Len(line) : /\ \A k \in i .. j : line[k] # "semi"
                                              /\ j = Len(line) \/ line[j + 1] = "semi"
  IN FlattenSeq([i \in DOMAIN line |-> IF Begins(i) THEN <<SubSeq(line, i, End(i))>> ELSE <<>>])

\* Mutant of Trim: blanks stay
TrimNothing(t) == t

\* No tab comes this far.
Trim(t) == LET ink == {i \in DOMAIN t : t[i] # "sp"}
               first == CHOOSE i \in ink : \A j \in ink : i <= j
               last == CHOOSE i \in ink : \A j \in ink : i >= j
           IN IF ink = {} THEN <<>> ELSE SubSeq(t, first, last)

\* parse() clears the map.
ParseLine == /\ state = "parsing" /\ lines # <<>> /\ unread = <<>>
             /\ Len(Collapse(lines[1])) <= LineLimit
             /\ parsed' = {} /\ unread' = KeyValues(Collapse(lines[1]))
             /\ lines' = Tail(lines)
             /\ UNCHANGED <<jar, side, unwritten, state>>

\* A line over the limit refuses the message: 400, or http_parse_exception.
LineTooLong == /\ state = "parsing" /\ lines # <<>> /\ unread = <<>>
               /\ Len(Collapse(lines[1])) > LineLimit
               /\ state' = "refused"
               /\ UNCHANGED <<jar, side, unwritten, lines, parsed, unread>>

Cookie(t) == LET equals == {i \in DOMAIN t : t[i] = "="}
                 equal == CHOOSE i \in equals : \A j \in equals : i <= j
             IN IF equals = {} THEN [name |-> Trim(t), value |-> <<>>]
                ELSE [name |-> Trim(SubSeq(t, 1, equal - 1)), value |-> Trim(SubSeq(t, equal + 1, Len(t)))]

Doubled(n) == n \in NamesOf(parsed)

\* Two cookies of one name refuse it too.
ParseKeyValue ==
  /\ state = "parsing" /\ unread # <<>>
  /\ LET c == Cookie(unread[1]) IN
     IF Doubled(c.name) THEN state' = "refused" /\ UNCHANGED parsed
     ELSE parsed' = parsed \cup {c} /\ UNCHANGED state
  /\ unread' = Tail(unread)
  /\ UNCHANGED <<jar, side, unwritten, lines>>

Finish == /\ state = "parsing" /\ lines = <<>> /\ unread = <<>>
          /\ state' = "done"
          /\ UNCHANGED <<jar, side, unwritten, lines, parsed, unread>>

Next == SetCookie \/ Write \/ WriteRequest \/ WriteResponse \/ Send \/ ParseLine \/ LineTooLong \/ ParseKeyValue
        \/ Finish

Spec == Init /\ [][Next]_vars
-----------------------------------------------------------------------------
Trimmed(t) == t = <<>> \/ (t[1] # "sp" /\ Last(t) # "sp")
SingleSpaced(t) == \A i \in DOMAIN t : t[i] # "tab" /\ (t[i] = "sp" => t[i + 1] # "sp")
\* Names and values that survive: no semicolon, no "=" in the name, no blanks around, and between
\* two words a single one.
Plain(c) == /\ \A i \in DOMAIN c.name : c.name[i] \notin {"semi", "="}
            /\ \A i \in DOMAIN c.value : c.value[i] # "semi"
            /\ Trimmed(c.name) /\ Trimmed(c.value)
            /\ SingleSpaced(c.name) /\ SingleSpaced(c.value)
AllPlain == \A c \in jar : Plain(c)
Attribute(c) == c.name \in {Path, Expires}

TypeOK == /\ state \in {"setting", "writing", "parsing", "done", "refused"}
          /\ \A c, d \in parsed : c.name = d.name => c = d
          /\ \A c \in parsed : Trimmed(c.name) /\ Trimmed(c.value)

\* The line read next is longer than the limit, as it was written.
NextTooLong == lines # <<>> /\ Len(lines[1]) > LineLimit

\* A server reads the cookies a client has, all of them, in whatever order they were written, or
\* refuses them for their length.
RequestRoundTrip == side = "client" /\ AllPlain =>
  /\ state = "refused" => NextTooLong
  /\ state = "done" => parsed = jar

\* http_client keeps of a response the cookie that was written last, and its attributes as
\* cookies; it refuses a response with a cookie that has the name of one, or that is too long.
OnlyLastIsKept == side = "server" /\ AllPlain =>
  /\ state = "refused" => NextTooLong \/ \E c \in jar : Attribute(c)
  /\ state = "done" /\ jar # {} =>
       \E c \in jar : c \in parsed /\ NamesOf(parsed) = {c.name, Path, Expires}
=============================================================================
