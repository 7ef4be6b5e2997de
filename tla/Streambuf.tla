----------------------------- MODULE Streambuf -----------------------------
(***************************************************************************)
(* socket_streambuf and the streams on it: a put area with one slot kept   *)
(* for the character that overflows it, a get area filled by reads that    *)
(* return what has arrived, and what is left behind by a read or a write   *)
(* that throws (a timeout, an error of the socket).                        *)
(*                                                                         *)
(* Characters are numbered in the order in which they are written.         *)
(***************************************************************************)
EXTENDS Naturals, Sequences, FiniteSets, SequencesExt

CONSTANTS OutputSize,  \* output_buffer_size
          InputSize,   \* input_buffer_size
          MaxChars,    \* bound on the characters written, and on those that arrive
          MaxFailures  \* bound on the calls of the socket that throw

\* What the constants satisfy; assumed where they are given values.
StreambufAssumption == /\ OutputSize \in Nat \ {0} /\ InputSize \in Nat \ {0}
                       /\ MaxChars \in Nat /\ MaxFailures \in Nat

VARIABLES buffer,    \* the output buffer from pbase(), the slot of the overflow included
          pptr,      \* pptr() - pbase()
          sending,   \* overflow() is under way: [size, offset], none otherwise
          wire,      \* what the socket took
          written,   \* history: the characters given to the stream
          arrived,   \* what the peer sent and read_some() has not returned
          get,       \* the get area from gptr() to egptr()
          taken,     \* history: the characters read from the stream
          failures, readFailures, \* calls that threw
          late       \* history: something was sent after a write that threw

vars == <<buffer, pptr, sending, wire, written, arrived, get, taken, failures, readFailures, late>>
output == <<buffer, pptr, sending, wire, written, late>>
input == <<arrived, get, taken, readFailures>>

None == [size |-> 0, offset |-> 0]

Room == OutputSize - 1

Init == /\ buffer = [i \in 1 .. OutputSize |-> 0] /\ pptr = 0 /\ sending = None
        /\ wire = <<>> /\ written = <<>> /\ late = FALSE
        /\ arrived = [i \in 1 .. MaxChars |-> i] /\ get = <<>> /\ taken = <<>>
        /\ failures = 0 /\ readFailures = 0

NextChar == Len(written) + 1

\* sputc() with room left.  operator << calls it on a good stream only, an iterator on any.
Put == /\ sending = None /\ pptr < Room /\ Len(written) < MaxChars
       /\ buffer' = [buffer EXCEPT ![pptr + 1] = NextChar]
       /\ pptr' = pptr + 1
       /\ written' = Append(written, NextChar)
       /\ UNCHANGED <<sending, wire, late, failures>> /\ UNCHANGED input

Overflow == /\ sending = None /\ pptr = Room /\ Len(written) < MaxChars
            /\ buffer' = [i \in 1 .. pptr + 1 |-> IF i = pptr + 1 THEN NextChar ELSE buffer[i]]
            /\ sending' = [size |-> pptr + 1, offset |-> 0]
            /\ written' = Append(written, NextChar)
            /\ UNCHANGED <<pptr, wire, late, failures>> /\ UNCHANGED input

\* sync(); flush() does not look at badbit.
Sync == /\ sending = None /\ pptr > 0
        /\ sending' = [size |-> pptr, offset |-> 0]
        /\ UNCHANGED <<buffer, pptr, wire, written, late, failures>> /\ UNCHANGED input

Sent(n) == sending.offset + n

\* Mutant of Drained: setp() is forgotten
DrainedKeep == pptr

\* pptr when everything was sent.
Drained == 0

WriteSome == \E n \in 1 .. sending.size - sending.offset :
  /\ wire' = wire \o SubSeq(buffer, sending.offset + 1, sending.offset + n)
  /\ late' = (failures > 0)
  /\ IF Sent(n) = sending.size THEN sending' = None /\ pptr' = Drained
     ELSE sending' = [sending EXCEPT !.offset = Sent(n)] /\ UNCHANGED pptr
  /\ UNCHANGED <<buffer, written, failures>> /\ UNCHANGED input

\* What pptr is after a write that threw: setp() has not been called.
Abandoned == pptr

\* operator << swallows the exception and sets badbit; from an iterator or flush() it passes.
WriteFails == /\ sending # None /\ failures < MaxFailures
              /\ sending' = None /\ failures' = failures + 1
              /\ pptr' = Abandoned
              /\ UNCHANGED <<buffer, wire, written, late>> /\ UNCHANGED input

Filled(n) == SubSeq(arrived, 1, n)

Underflow == /\ get = <<>>
             /\ \E n \in 1 .. InputSize :
                  /\ n <= Len(arrived)
                  /\ get' = Filled(n)
                  /\ arrived' = SubSeq(arrived, n + 1, Len(arrived))
             /\ UNCHANGED <<taken, failures, readFailures>> /\ UNCHANGED output

\* read_some() throws or the peer has closed: the get area stays as it was.
ReadFails == /\ get = <<>> /\ readFailures < MaxFailures
             /\ readFailures' = readFailures + 1
             /\ UNCHANGED <<arrived, get, taken, failures>> /\ UNCHANGED output

GetChar == /\ get # <<>>
           /\ taken' = Append(taken, Head(get)) /\ get' = Tail(get)
           /\ UNCHANGED <<arrived, failures, readFailures>> /\ UNCHANGED output

Next == Put \/ Overflow \/ Sync \/ WriteSome \/ WriteFails
        \/ Underflow \/ ReadFails \/ GetChar

Spec == Init /\ [][Next]_vars
-----------------------------------------------------------------------------
Unsent == IF sending = None THEN SubSeq(buffer, 1, pptr)
          ELSE SubSeq(buffer, sending.offset + 1, sending.size)

TypeOK == /\ Len(buffer) = OutputSize /\ pptr \in 0 .. Room
          /\ sending.size <= OutputSize /\ sending.offset <= sending.size
          /\ {failures, readFailures} \subseteq 0 .. MaxFailures /\ late \in BOOLEAN

\* Until a call fails the peer gets every character once and in order: those it has not got are
\* in the put area.
SentInOrder == failures = 0 => wire \o Unsent = written

\* A failure by itself spoils nothing: until more is sent, what the peer has is what was written.
PrefixUntilLate == ~late => IsPrefix(wire, written)

\* A writer that goes on after a write threw sends again what the put area still holds; a
\* character is sent at most once more for each failure.
ResentOncePerFailure == \A i \in DOMAIN written :
  Cardinality({j \in DOMAIN wire : wire[j] = i}) <= 1 + failures

\* What such a writer loses is the character in the slot of the overflow, one for each failure.
LostOncePerFailure == sending = None /\ pptr = 0 =>
  Cardinality({i \in DOMAIN written : \A j \in DOMAIN wire : wire[j] # i}) <= failures

\* The reader gets what arrived, once and in order, whatever fails.
ReadInOrder == taken \o get \o arrived = [i \in 1 .. MaxChars |-> i]
=============================================================================
