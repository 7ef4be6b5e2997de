--------------------------- MODULE StaticContent ---------------------------
(***************************************************************************)
(* static_content: a content kept in the encodings that make it smaller,   *)
(* and the answers to conditional requests, whose entity tag is the hash   *)
(* of the content and whose date has seconds.  The client caches what it   *)
(* got and asks with the tag and the date of it.                           *)
(*                                                                         *)
(* The compressors are external: Size gives what they make of a content.   *)
(***************************************************************************)
EXTENDS Naturals, Sequences, FiniteSets, SequencesExt

CONSTANTS Contents, Size,  \* Size[c][e]: the length of content c in encoding e
          MaxTime,         \* bound on the clock, in seconds
          Nothing          \* no content yet, or nothing cached

Encodings == {"gzip", "deflate", "identity"}
\* What the constants satisfy; assumed where they are given values.
StaticAssumption == /\ MaxTime \in Nat
                    /\ \A c \in Contents, e \in Encodings : Size[c][e] \in Nat
                    /\ Nothing \notin Contents
                    /\ Nothing \notin [body : Contents, e_tag : Contents, date : 0 .. MaxTime]

VARIABLES now,
          encoded,      \* encoded_contents_
          e_tag, last_modified,
          cache,        \* the client's: [body, e_tag, date], or Nothing
          answer,       \* the last response: [status, accepted, encoding, body]
          sameSecond    \* history: the content the cache has was replaced in its second

vars == <<now, encoded, e_tag, last_modified, cache, answer, sameSecond>>

NoAnswer == [status |-> 0, accepted |-> {}, encoding |-> "none", body |-> Nothing]

Init == /\ now = 0 /\ encoded = <<>> /\ e_tag = Nothing /\ last_modified = Nothing
        /\ cache = Nothing /\ answer = NoAnswer /\ sameSecond = FALSE

Smaller(c) == {e \in {"gzip", "deflate"} : Size[c][e] < Size[c]["identity"]}

Sorted(c, order) == \A i, j \in DOMAIN order : i < j => Size[c][order[i]] <= Size[c][order[j]]

\* The compressed ones by size, in any order if they are equally long, then the content itself.
Arranged(c) == {Append(order, "identity") : order \in
  {s \in {<<>>, <<"gzip">>, <<"deflate">>, <<"gzip", "deflate">>, <<"deflate", "gzip">>} :
     ToSet(s) = Smaller(c) /\ Sorted(c, s)}}

SetContent == \E c \in Contents : \E order \in Arranged(c) :
  /\ encoded' = [i \in DOMAIN order |-> [body |-> c, encoding |-> order[i]]]
  /\ e_tag' = c /\ last_modified' = now
  /\ sameSecond' = (sameSecond \/ (cache # Nothing /\ cache.e_tag # c /\ cache.date = now))
  /\ UNCHANGED <<now, cache, answer>>

\* Mutant of Current: the tag is not looked at when there is a date
CurrentByDate == cache # Nothing /\ cache.date <= last_modified

Current == cache # Nothing /\ (cache.e_tag = e_tag \/ cache.date = last_modified)

Chosen(accepted) == SelectInSeq(encoded, LAMBDA e : e.encoding = "identity" \/ e.encoding \in accepted)

Get == \E accepted \in SUBSET {"gzip", "deflate"}, head \in BOOLEAN :
  /\ \/ /\ encoded = <<>>
        /\ answer' = [NoAnswer EXCEPT !.status = 200] /\ UNCHANGED <<cache, sameSecond>>
     \/ /\ encoded # <<>> /\ Current
        /\ answer' = [NoAnswer EXCEPT !.status = 304, !.body = cache.body]
        /\ UNCHANGED <<cache, sameSecond>>
     \/ /\ encoded # <<>> /\ ~Current
        /\ LET e == encoded[Chosen(accepted)] IN
             answer' = [status |-> 200, accepted |-> accepted, encoding |-> e.encoding,
                        body |-> IF head THEN Nothing ELSE e.body]
        /\ IF head THEN UNCHANGED <<cache, sameSecond>>
           ELSE cache' = [body |-> answer'.body, e_tag |-> e_tag, date |-> last_modified]
                /\ sameSecond' = FALSE
  /\ UNCHANGED <<now, encoded, e_tag, last_modified>>

Tick == now < MaxTime /\ now' = now + 1 /\ UNCHANGED <<encoded, e_tag, last_modified, cache, answer, sameSecond>>

Next == SetContent \/ Get \/ Tick

Spec == Init /\ [][Next]_vars
-----------------------------------------------------------------------------
TypeOK == /\ now \in 0 .. MaxTime
          /\ encoded # <<>> => Last(encoded).encoding = "identity"
          /\ answer.status \in {0, 200, 304} /\ answer.encoding \in Encodings \cup {"none"}

\* In every step: the client is told that its copy is good only if it is, unless the content was replaced in the
\* very second the copy is of: an equal date is enough, whatever the tag says.
NotModifiedIsTrue == Get /\ answer'.status = 304 /\ ~sameSecond => answer'.body = e_tag

\* In every step: the answer is in an encoding the client takes, and none it takes is smaller.
SmallestAccepted == Get /\ answer'.encoding # "none" =>
  /\ answer'.encoding \in answer'.accepted \cup {"identity"}
  /\ \A e \in answer'.accepted \cup {"identity"} : Size[e_tag][answer'.encoding] <= Size[e_tag][e]
=============================================================================
