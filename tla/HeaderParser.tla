---------------------------- MODULE HeaderParser ----------------------------
(***************************************************************************)
(* http_context::read_entity_headers: the header fields of a request or a  *)
(* response, read character by character from the connection.              *)
(*                                                                         *)
(* A field is given as its name and the pieces of its value: a letter, a   *)
(* blank, or a line fold.  "k" is the name of a header the code knows.     *)
(***************************************************************************)
EXTENDS Naturals, Sequences, SequencesExt

CONSTANTS Names, Values,  \* sets of field names and of values
          MaxFields,      \* bound on the fields
          NameLimit, ValueLimit \* maximum_request_header_length, maximum_header_length

\* What the constants satisfy; assumed where they are given values.
HeaderAssumption == /\ NameLimit \in Nat \ {0} /\ ValueLimit \in Nat /\ MaxFields \in Nat
                    /\ Names \subseteq Seq({"k", "x"}) /\ Values \subseteq Seq({"x", "sp", "fold"})

VARIABLES fields,   \* what the peer sent
          input,    \* its characters, up to and with the next token after the headers
          pos,      \* characters read
          mode, token, lws,
          result    \* set_header calls

vars == <<fields, input, pos, mode, token, lws, result>>

Modes == {"line", "name", "longName", "value", "ignored", "done", "error"}

Chars(piece) == IF piece = "fold" THEN <<"cr", "lf", "sp">> ELSE <<piece>>
Line(f) == f.name \o <<":">> \o FlattenSeq([i \in DOMAIN f.value |-> Chars(f.value[i])]) \o <<"cr", "lf">>
Render(fs) == FlattenSeq([i \in DOMAIN fs |-> Line(fs[i])]) \o <<"cr", "lf", "next">>

Init == /\ fields \in UNION {[1..n -> [name : Names, value : Values]] : n \in 0..MaxFields}
        /\ input = Render(fields)
        /\ pos = 0 /\ mode = "line" /\ token = <<>> /\ lws = FALSE /\ result = <<>>

Char == input[pos + 1]      \* get()
Take(n) == pos' = pos + n

\* peek() at the start of a line: a carriage return ends the headers.
StartLine ==
  /\ mode = "line"
  /\ IF Char = "cr" THEN Take(2) /\ mode' = IF input[pos + 2] = "lf" THEN "done" ELSE "error"
                    ELSE Take(0) /\ mode' = "name"
  /\ token' = <<>> /\ lws' = FALSE
  /\ UNCHANGED <<fields, input, result>>

\* read_token with ignore_until: one character over the limit is read, and the rest skipped.
ReadName ==
  /\ mode = "name"
  /\ Take(1)
  /\ CASE Char = ":" -> /\ mode' = IF token = <<"k">> THEN "value" ELSE "ignored"
                        /\ token' = <<>>
       [] Char # ":" /\ Len(token) = NameLimit -> mode' = "longName" /\ token' = <<>>
       [] OTHER -> mode' = mode /\ token' = Append(token, Char)
  /\ UNCHANGED <<fields, input, lws, result>>

SkipName ==
  /\ mode = "longName"
  /\ Take(1)
  /\ mode' = IF Char = ":" THEN "ignored" ELSE mode
  /\ UNCHANGED <<fields, input, token, lws, result>>

\* A line that ends goes on when the next one begins with a blank.
Folded == input[pos + 3] = "sp"

\* Mutant of Blank: a blank at the front is kept
BlankInFront == IF lws THEN <<"sp">> ELSE <<>>

\* The blank due before the next letter.
Blank == IF lws /\ token # <<>> THEN <<"sp">> ELSE <<>>

Full == Len(token) + Len(Blank) >= ValueLimit

\* read_header_value: blanks become one, none at the ends.
ReadValue ==
  /\ mode = "value"
  /\ CASE Char = "cr" /\ input[pos + 2] # "lf" ->
            Take(2) /\ mode' = "error" /\ UNCHANGED <<token, lws, result>>
       [] Char = "cr" /\ input[pos + 2] = "lf" /\ Folded ->
            Take(3) /\ lws' = TRUE /\ UNCHANGED <<mode, token, result>>
       [] Char = "cr" /\ input[pos + 2] = "lf" /\ ~Folded ->
            Take(2) /\ mode' = "line" /\ result' = Append(result, token) /\ UNCHANGED <<token, lws>>
       [] Char = "sp" ->
            Take(1) /\ lws' = TRUE /\ UNCHANGED <<mode, token, result>>
       [] OTHER ->
            /\ Take(1) /\ lws' = FALSE
            /\ mode' = IF Full THEN "error" ELSE mode
            /\ token' = IF Full THEN token ELSE token \o Blank \o <<Char>>
            /\ UNCHANGED result
  /\ UNCHANGED <<fields, input>>

IgnoreValue ==
  /\ mode = "ignored"
  /\ CASE Char = "cr" /\ input[pos + 2] # "lf"          -> Take(2) /\ mode' = "error"
       [] Char = "cr" /\ input[pos + 2] = "lf" /\ Folded  -> Take(3) /\ mode' = mode
       [] Char = "cr" /\ input[pos + 2] = "lf" /\ ~Folded -> Take(2) /\ mode' = "line"
       [] OTHER                                         -> Take(1) /\ mode' = mode
  /\ UNCHANGED <<fields, input, token, lws, result>>

Next == StartLine \/ ReadName \/ SkipName \/ ReadValue \/ IgnoreValue

Spec == Init /\ [][Next]_vars
-----------------------------------------------------------------------------
TypeOK == /\ pos \in 0..Len(input) /\ mode \in Modes /\ lws \in BOOLEAN
          /\ Len(token) <= IF NameLimit < ValueLimit THEN ValueLimit ELSE NameLimit

\* What a value means: its words, one blank between them.
Words(value) == 
  LET letters == {i \in DOMAIN value : value[i] = "x"}
      Gap(i) == \E j \in letters : j < i /\ \E k \in j..i : value[k] # "x" /\ \A l \in (j + 1)..(i - 1) : value[l] # "x"
  IN FlattenSeq([i \in DOMAIN value |->
       IF i \notin letters THEN <<>> ELSE IF Gap(i) THEN <<"sp", "x">> ELSE <<"x">>])

\* The values of the fields the code knows.
Meant(fs) == FlattenSeq([i \in DOMAIN fs |-> IF fs[i].name = <<"k">> THEN <<Words(fs[i].value)>> ELSE <<>>])

\* The header fields the code knows are read with the value they mean, in order; all others, the
\* overlong ones included, are skipped, and reading ends exactly where the headers end, on every
\* legal input whose values keep the limit.
HeadersInSync == mode = "done" => input[pos + 1] = "next" /\ result = Meant(fields)

\* Only a value over the limit is refused.
RefusedForLength == mode = "error" => \E i \in DOMAIN Meant(fields) : Len(Meant(fields)[i]) > ValueLimit
=============================================================================
