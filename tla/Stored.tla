------------------------------- MODULE Stored -------------------------------
(***************************************************************************)
(* What database_connection stores and reads: the archives that make keys  *)
(* and values of records, and redis_client, which sends them and reads the *)
(* replies.  They share nothing but the strings they pass, so a behaviour  *)
(* follows one of them; v1 .. v9 are its variables.                        *)
(***************************************************************************)
EXTENDS Naturals, Sequences

CONSTANTS B, UuidSize, TicksPerMs, Types, Samples, MaxItems, \* Archive's
          MaxQueued, Idle                           \* RespClient's

VARIABLES part, v1, v2, v3, v4, v5, v6, v7, v8, v9

storedVars == <<part, v1, v2, v3, v4, v5, v6, v7, v8, v9>>

Archives == INSTANCE Archive WITH
  versioning <- v1, types <- v2, record <- v3, str <- v4, wanted <- v5, asWritten <- v6,
  index <- v7, read <- v8, state <- v9

Client == INSTANCE RespClient WITH
  method <- v1, wire <- v2, stack <- v3, type <- v4, multi <- v5, queued <- v6, results <- v7,
  inMulti <- v8, outcome <- v9

ASSUME StoredAssumption == Archives!ArchiveAssumption /\ Client!RespAssumption

StoredInit == \/ part = "archive" /\ Archives!Init
              \/ part = "client" /\ Client!Init

StoredNext == \/ part = "archive" /\ Archives!Next /\ UNCHANGED part
              \/ part = "client" /\ Client!Next /\ UNCHANGED part

StoredSpec == StoredInit /\ [][StoredNext]_storedVars
-----------------------------------------------------------------------------
\* Records are read back as they were written.  The one type the program reads as another, the
\* optional user id, gives a wrong id and no error: Archive's properties.
RecordsReadBack == part = "archive" => Archives!TypeOK /\ Archives!RoundTrip /\ Archives!OptionalAsUuid

\* The bytes of keys are in the order of their parts, and no key is the beginning of another:
\* Archive's properties.
KeysOrdered == part = "archive" => Archives!KeysDistinct /\ Archives!KeysInOrder

\* A method reads the whole of its reply and nothing else, whatever it makes of it, and takes no
\* reply for another; in a transaction it may return the status instead: RespClient's properties.
RepliesUnderstood == part = "client" =>
  /\ Client!TypeOK /\ Client!ReplyReadWhole /\ Client!NeverMisread /\ Client!QueuedIsStatus
  /\ Client!NilRefused /\ Client!ExecAllOrNothing
=============================================================================
