------------------------------ MODULE Archive ------------------------------
(***************************************************************************)
(* The keys and values of the database: output_archive, input_archive and  *)
(* the serializers.  Two records of the same types are written side by     *)
(* side, so that keys can be compared, and the first one is read back.     *)
(*                                                                         *)
(* A byte has B values instead of 256; an integer of n bytes keeps its     *)
(* width, B to the n.  A time is counted in ticks, TicksPerMs of them a    *)
(* millisecond.                                                            *)
(***************************************************************************)
EXTENDS Integers, Sequences, FiniteSets, SequencesExt

CONSTANTS B, UuidSize, TicksPerMs, MaxItems,
          Types,    \* the types of the records' items
          Samples   \* values of each of them, which the records are filled with

Bytes == 0 .. B - 1
Width == [char |-> 1, uint8 |-> 1, uint16 |-> 2, uint32 |-> 4, uint64 |-> 8,
          int8 |-> 1, int16 |-> 2, int32 |-> 4, int64 |-> 8, float |-> 4, double |-> 8, bool |-> 1]
Unsigned == {"char", "uint8", "uint16", "uint32", "uint64"}
Signed == {"int8", "int16", "int32", "int64"}
Floats == {"float", "double"}          \* a value is its bits, the sign first, and so ordered
Times == {"time_duration", "ptime"}
Primitive == Unsigned \cup Signed \cup Floats \cup {"bool", "string", "literal"}

\* B to the n.
Power[n \in 0 .. 8] == IF n = 0 THEN 1 ELSE B * Power[n - 1]

SignBit(n) == Power[n] \div 2
None == <<>>                           \* boost::none, of the optional uuids
Literal == <<1>>

\* The values of a type; ticks of a time are counted in 64 bits.
Values(t) ==
  CASE t \in Unsigned \cup Floats -> 0 .. Power[Width[t]] - 1
    [] t \in Signed   -> -SignBit(Width[t]) .. SignBit(Width[t]) - 1
    [] t = "bool"     -> {0, 1}
    [] t = "string"   -> Seq(Bytes)
    [] t = "literal"  -> {Literal}
    [] t = "uuid"     -> [1 .. UuidSize -> Bytes]
    [] t = "optional" -> {None} \cup [1 .. UuidSize -> Bytes]
    [] t \in Times    -> -SignBit(8) .. SignBit(8) - 1

\* What the constants satisfy; assumed where they are given values.
ArchiveAssumption == /\ B \in Nat /\ B % 2 = 0 /\ B >= 4
                     /\ UuidSize \in Nat /\ UuidSize >= 2 /\ TicksPerMs \in Nat \ {0} /\ MaxItems \in Nat
                     /\ Types \subseteq Primitive \cup {"uuid", "optional"} \cup Times
                     /\ \A t \in Types : Samples[t] \subseteq Values(t)

(***************************************************************************)
(* output_archive.                                                         *)
(***************************************************************************)
BigEndian(n, u) == [i \in 1 .. n |-> (u \div Power[n - i]) % B]

\* Mutant of SaveSigned: the sign bit is not turned
SaveSignedPlain(n, v) == BigEndian(n, v % Power[n])

SaveSigned(n, v) == BigEndian(n, (v + SignBit(n)) % Power[n])

SaveFloat(n, bits) == BigEndian(n, IF bits >= SignBit(n) THEN Power[n] - 1 - bits ELSE bits + SignBit(n))

SaveText(s) == FlattenSeq([i \in DOMAIN s |-> IF s[i] = 0 THEN <<0, 1>> ELSE <<s[i]>>]) \o <<0, 0>>

SavePrimitive(t, v) == CASE t \in Unsigned \cup {"bool"} -> BigEndian(Width[t], v)
                         [] t \in Signed -> SaveSigned(Width[t], v)
                         [] t \in Floats -> SaveFloat(Width[t], v)
                         [] t \in {"string", "literal"} -> SaveText(v)

\* What a time keeps: whole milliseconds, cut towards zero.
Milliseconds(ticks) == IF ticks >= 0 THEN ticks \div TicksPerMs ELSE -((-ticks) \div TicksPerMs)

Version(versioning) == IF versioning THEN BigEndian(4, 0) ELSE <<>>

SaveTime(t, v, versioning) ==
  (IF t = "ptime" THEN Version(versioning) ELSE <<>>) \o Version(versioning) \o SaveSigned(8, Milliseconds(v))

SaveOptional(v, versioning) ==
  Version(versioning) \o (IF v = None THEN <<0>> ELSE <<1>> \o Version(versioning) \o v)

Save(t, v, versioning) ==
  CASE t \in Primitive  -> SavePrimitive(t, v)
    [] t = "uuid"       -> Version(versioning) \o v
    [] t = "optional"   -> SaveOptional(v, versioning)
    [] t \in Times      -> SaveTime(t, v, versioning)

(***************************************************************************)
(* input_archive: the value read from the front of s and the bytes it      *)
(* took, or nothing if archive_exception is thrown.                        *)
(***************************************************************************)
Number(s, n) == LET value[i \in 0 .. n] == IF i = 0 THEN 0 ELSE value[i - 1] * B + s[i]
                IN value[n]
Got(value, size) == {[value |-> value, size |-> size]}

LoadSigned(n, u) == u - SignBit(n)

LoadFloat(n, u) == IF u >= SignBit(n) THEN u - SignBit(n) ELSE Power[n] - 1 - u

\* The zero at i is the end of the text: the first that is not followed by string_code_null.
TextEnds(s, i) == /\ s[i] = 0 /\ (i = Len(s) \/ s[i + 1] # 1)
                  /\ \A j \in 1 .. i - 1 : s[j] = 0 => s[j + 1] = 1

Unescape(s) == FlattenSeq([i \in DOMAIN s |-> IF i > 1 /\ s[i - 1] = 0 THEN <<>> ELSE <<s[i]>>])

\* Mutant of LoadText: the code at the end is left unread
LoadTextShort(s) == {[value |-> Unescape(SubSeq(s, 1, i - 1)), size |-> i] :
                       i \in {j \in 1 .. Len(s) - 1 : TextEnds(s, j) /\ s[j + 1] = 0}}

LoadText(s) == {[value |-> Unescape(SubSeq(s, 1, i - 1)), size |-> i + 1] :
                  i \in {j \in 1 .. Len(s) - 1 : TextEnds(s, j) /\ s[j + 1] = 0}}

LoadPrimitive(t, s) ==
  CASE t = "string"  -> LoadText(s)
    [] t = "literal" -> {got \in LoadText(s) : got.value = Literal}
    [] t \notin {"string", "literal"} /\ Len(s) < Width[t] -> {}
    [] OTHER -> LET n == Width[t]
                    u == Number(s, n)
                IN CASE t \in Unsigned -> Got(u, n)
                     [] t \in Signed   -> Got(LoadSigned(n, u), n)
                     [] t \in Floats   -> Got(LoadFloat(n, u), n)
                     [] t = "bool"     -> IF u \in {0, 1} THEN Got(u, n) ELSE {}

LoadBytes(s, skip) == IF Len(s) < skip + UuidSize THEN {}
                      ELSE Got(SubSeq(s, skip + 1, skip + UuidSize), skip + UuidSize)

LoadOptional(s, version) ==
  IF Len(s) <= version \/ s[version + 1] \notin {0, 1} THEN {}
  ELSE IF s[version + 1] = 0 THEN Got(None, version + 1) ELSE LoadBytes(s, 2 * version + 1)

LoadTime(t, s, version) ==
  LET skip == IF t = "ptime" THEN 2 * version ELSE version
      rest == SubSeq(s, skip + 1, Len(s))
  IN {[value |-> got.value * TicksPerMs, size |-> skip + got.size] : got \in LoadPrimitive("int64", rest)}

Load(t, s, versioning) ==
  LET version == Len(Version(versioning)) IN
  CASE t \in Primitive -> LoadPrimitive(t, s)
    [] t = "uuid"      -> LoadBytes(s, version)
    [] t = "optional"  -> LoadOptional(s, version)
    [] t \in Times     -> LoadTime(t, s, version)

VARIABLES versioning,   \* a value archive: the key archives write no versions
          types,        \* the types written
          record, str,  \* the two records and the strings they became
          wanted,       \* the types still to be read
          asWritten,    \* they are the types written
          index, read,  \* input_archive, and what it returned
          state

vars == <<versioning, types, record, str, wanted, asWritten, index, read, state>>

Init == /\ versioning \in BOOLEAN
        /\ types = <<>> /\ record = [i \in 1..2 |-> <<>>] /\ str = [i \in 1..2 |-> <<>>]
        /\ wanted = <<>> /\ asWritten = TRUE /\ index = 0 /\ read = <<>> /\ state = "saving"

SaveNext == \E t \in Types : \E a, b \in Samples[t] :
  /\ state = "saving" /\ Len(types) < MaxItems
  /\ types' = Append(types, t)
  /\ record' = <<Append(record[1], a), Append(record[2], b)>>
  /\ str' = <<str[1] \o Save(t, a, versioning), str[2] \o Save(t, b, versioning)>>
  /\ UNCHANGED <<versioning, wanted, asWritten, index, read, state>>

\* The string is stored and fetched.  sign_in() reads as a uuid what it wrote as an optional one.
Store == /\ state = "saving" /\ types # <<>>
         /\ \/ wanted' = types /\ UNCHANGED asWritten
            \/ types = <<"optional">> /\ wanted' = <<"uuid">> /\ asWritten' = FALSE
         /\ state' = "loading"
         /\ UNCHANGED <<versioning, types, record, str, index, read>>

LoadNext == /\ state = "loading" /\ wanted # <<>>
            /\ LET got == Load(Head(wanted), SubSeq(str[1], index + 1, Len(str[1])), versioning) IN
               \/ \E g \in got : /\ read' = Append(read, g.value) /\ index' = index + g.size
                                 /\ UNCHANGED state
               \/ got = {} /\ state' = "archive_exception" /\ UNCHANGED <<read, index>>
            /\ wanted' = Tail(wanted)
            /\ UNCHANGED <<versioning, types, record, str, asWritten>>

Done == /\ state = "loading" /\ wanted = <<>>
        /\ state' = "done"
        /\ UNCHANGED <<versioning, types, record, str, wanted, asWritten, index, read>>

Next == SaveNext \/ Store \/ LoadNext \/ Done

Spec == Init /\ [][Next]_vars
-----------------------------------------------------------------------------
Kept(t, v) == IF t \in Times THEN Milliseconds(v) * TicksPerMs ELSE v

\* A value as a sequence of numbers whose lexicographic order is the order of the type.
Rank(t, v) == CASE t \in Floats -> <<IF v >= SignBit(Width[t]) THEN -(v - SignBit(Width[t])) - 1 ELSE v>>
                [] t = "optional" -> IF v = None THEN None ELSE <<1>> \o v
                [] t \in {"string", "literal", "uuid"} -> v
                [] OTHER -> <<Kept(t, v)>>

Less(s, r) == \/ IsStrictPrefix(s, r)
              \/ \E i \in DOMAIN s \cap DOMAIN r : s[i] < r[i] /\ \A j \in 1 .. i - 1 : s[j] = r[j]

RecordLess == \E i \in DOMAIN types :
                /\ Less(Rank(types[i], record[1][i]), Rank(types[i], record[2][i]))
                /\ \A j \in 1 .. i - 1 : Kept(types[j], record[1][j]) = Kept(types[j], record[2][j])

SameRecord == \A i \in DOMAIN types : Kept(types[i], record[1][i]) = Kept(types[i], record[2][i])

TypeOK == /\ state \in {"saving", "loading", "done", "archive_exception"}
          /\ \A i \in 1..2 : str[i] \in Seq(Bytes)
          /\ index \in 0 .. Len(str[1])
          /\ asWritten => \A i \in DOMAIN read : read[i] \in Values(types[i])

\* What was written is read back with the same types, a time cut to its milliseconds: the archive
\* never throws, and the string ends there.
RoundTrip == asWritten =>
  /\ state # "archive_exception"
  /\ state = "done" => /\ read = [i \in DOMAIN types |-> Kept(types[i], record[1][i])]
                       /\ index = Len(str[1])

\* Keys of the same types are equal only for equal parts, and none is the beginning of another.
KeysDistinct == IsPrefix(str[1], str[2]) \/ IsPrefix(str[2], str[1]) => SameRecord

\* The bytes of the keys are in the order of their parts.
KeysInOrder == Less(str[1], str[2]) <=> RecordLess

\* sign_in() reads as a uuid what it wrote as an optional one: no exception tells it, as long as
\* there was a value, although bytes are left over.
OptionalAsUuid == ~asWritten /\ state \in {"done", "archive_exception"} =>
                    IF record[1][1] = None THEN state = "archive_exception"
                    ELSE state = "done" /\ index < Len(str[1])
=============================================================================
