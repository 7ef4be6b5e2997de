------------------------------ MODULE MCStored ------------------------------
(***************************************************************************)
(* Stored for TLC: the types its records are made of and their values.     *)
(***************************************************************************)
EXTENDS Stored, Integers

\* Two records of up to two items of any of these types, at the boundaries of their values.
SomeTypes == {"uint8", "uint16", "int8", "int64", "float", "bool", "string", "literal", "uuid",
              "optional", "time_duration", "ptime"}

\* Every boundary of a type; an integer's sign bit is worth half of its range.
Half(bytes) == B^bytes \div 2
UnsignedBoundaries(half) == {0, 1, half - 1, half, half + 1, 2 * half - 1}
SignedBoundaries(half) == {-half, -1, 0, 1, half - 1}
TimeBoundaries == -TicksPerMs - 1 .. TicksPerMs

Boundaries ==
  [uint8 |-> UnsignedBoundaries(Half(1)), uint16 |-> UnsignedBoundaries(Half(2)),
   int8 |-> SignedBoundaries(Half(1)), int64 |-> SignedBoundaries(Half(8)),
   float |-> UnsignedBoundaries(Half(4)), bool |-> {0, 1},
   string |-> {<<>>, <<0>>, <<1>>, <<B - 1>>, <<0, 0>>, <<0, 1>>, <<1, 0>>}, literal |-> {<<1>>},
   uuid |-> {[i \in 1 .. UuidSize |-> IF i = 1 THEN a ELSE b] : a, b \in {0, B - 1}},
   optional |-> {<<>>} \cup {[i \in 1 .. UuidSize |-> IF i = 1 THEN a ELSE 1] : a \in {0, 1}},
   time_duration |-> TimeBoundaries, ptime |-> TimeBoundaries]
=============================================================================
