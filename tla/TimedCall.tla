----------------------------- MODULE TimedCall ------------------------------
(***************************************************************************)
(* What a coroutine may expect of read_some, write_some, handshake and     *)
(* connect: a blocking call that ends in one of two ways.                  *)
(*   - "ok": the operation finished (with data or with a network error);   *)
(*   - "interrupted": somebody interrupted the coroutine, or the timeout   *)
(*     expired and the operation had not finished.                         *)
(* An operation that finished is never reported as timed out.              *)
(***************************************************************************)
CONSTANT Coros   \* the coroutines that call

VARIABLES calling,      \* calling[c]: c is inside a call
          completed,    \* completed[c]: the operation of this call finished
          expired,      \* expired[c]: the timeout of this call elapsed
          interrupted,  \* interrupted[c]: c has been interrupted (for good)
          result        \* result[c]: how the last call of c ended

callVars == <<calling, completed, expired, interrupted, result>>

CallInit == /\ calling = [c \in Coros |-> FALSE]
            /\ completed = [c \in Coros |-> FALSE]
            /\ expired = [c \in Coros |-> FALSE]
            /\ interrupted = [c \in Coros |-> FALSE]
            /\ result = [c \in Coros |-> "none"]

Begin(c) == /\ ~calling[c]
            /\ calling' = [calling EXCEPT ![c] = TRUE]
            /\ completed' = [completed EXCEPT ![c] = FALSE]
            /\ expired' = [expired EXCEPT ![c] = FALSE]
            /\ UNCHANGED <<interrupted, result>>

Complete(c) == /\ calling[c]
               /\ completed' = [completed EXCEPT ![c] = TRUE]
               /\ UNCHANGED <<calling, expired, interrupted, result>>

Expire(c) == /\ calling[c]
             /\ expired' = [expired EXCEPT ![c] = TRUE]
             /\ UNCHANGED <<calling, completed, interrupted, result>>

Interrupt(c) == /\ interrupted' = [interrupted EXCEPT ![c] = TRUE]
                /\ UNCHANGED <<calling, completed, expired, result>>

MayReturn(c, r) ==
  \/ r = "ok" /\ completed[c] /\ ~interrupted[c]
  \/ r = "interrupted" /\ (interrupted[c] \/ (expired[c] /\ ~completed[c]))

Return(c, r) == /\ calling[c]
                /\ MayReturn(c, r)
                /\ calling' = [calling EXCEPT ![c] = FALSE]
                /\ result' = [result EXCEPT ![c] = r]
                /\ UNCHANGED <<completed, expired, interrupted>>

CallNext == \E c \in Coros : \/ Begin(c) \/ Complete(c) \/ Expire(c) \/ Interrupt(c)
                             \/ \E r \in {"ok", "interrupted"} : Return(c, r)

CallSpec == CallInit /\ [][CallNext]_callVars
=============================================================================
