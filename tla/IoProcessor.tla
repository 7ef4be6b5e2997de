---------------------------- MODULE IoProcessor ----------------------------
(***************************************************************************)
(* io_processor and main: the threads that run the io_service, which go on *)
(* after a handler has thrown, the signal handler that stops the server,   *)
(* and join().  The server is what it leaves with the io_service: accepts, *)
(* whose handlers start another, and one call of every connection.  stop() *)
(* is a handler like any other: while it spins for the contexts the other  *)
(* threads must bring them back.                                           *)
(*                                                                         *)
(* The io_service is external: run() returns when it is stopped, and it is *)
(* stopped when no operation is waiting, ready or being handled.           *)
(***************************************************************************)
CONSTANTS Threads,
          Accepts,   \* operations of the acceptors, one each
          Contexts   \* the server's contexts, each with one operation at a time

ASSUME IoAssumption == /\ Accepts # {} /\ Accepts \cap Contexts = {}
                       /\ {"signal", "none"} \cap (Accepts \cup Contexts) = {}

Operations == Accepts \cup Contexts \cup {"signal"}
None == "none"

VARIABLES
  waiting,   \* operations started
  ready,     \* operations whose handler can run
  aborted,   \* ready accepts that completed with operation_aborted
  hung,      \* contexts whose waiting call has lost its cancel()
  thread,    \* where each thread is (below)
  handling,  \* the operation a thread runs the handler of
  stopped,   \* the io_service is stopped
  server,    \* "open", "closed" (the acceptors), "draining", "destroyed"
  pool,      \* "free", "serving", "dead" or "drained" (popped by stop()) of each context
  main       \* "threads" (the constructor), "join", "joined"

vars == <<waiting, ready, aborted, hung, thread, handling, stopped, server, pool, main>>
service == <<waiting, ready, aborted, hung, stopped>>

ThreadPlaces == {"none", "run", "handler",
                 "pop",      \* an accept handler that has accepted again
                 "end",      \* a handler about to return
                 "caught", "done",
                 "crashed"}  \* used an acceptor or a stack that stop() has destroyed

\* server.start() comes before the threads: there is work when they begin.
Init == /\ waiting = Accepts /\ ready = {} /\ aborted = {} /\ hung = {} /\ stopped = FALSE
        /\ thread = [t \in Threads |-> "none"] /\ handling = [t \in Threads |-> None]
        /\ server = "open" /\ pool = [c \in Contexts |-> "free"] /\ main = "threads"

Alive == \A t \in Threads : thread[t] # "crashed"
Goes(t, p) == thread' = [thread EXCEPT ![t] = p]
-----------------------------------------------------------------------------
(* The main thread *)

Spawn(t) == /\ main = "threads" /\ thread[t] = "none" /\ Goes(t, "run")
            /\ UNCHANGED <<service, handling, server, pool, main>>

Spawned == \A t \in Threads : thread[t] # "none"

\* Mutant of JoinSignal: the signals are not waited for.
JoinSignalUnarmed == /\ main = "threads" /\ Spawned
                     /\ main' = "join"
                     /\ UNCHANGED <<service, thread, handling, server, pool>>

JoinSignal == /\ main = "threads" /\ Spawned
              /\ main' = "join" /\ waiting' = waiting \cup {"signal"}
              /\ UNCHANGED <<ready, aborted, hung, stopped, thread, handling, server, pool>>

Join == /\ main = "join" /\ \A t \in Threads : thread[t] = "done"
        /\ main' = "joined"
        /\ UNCHANGED <<service, thread, handling, server, pool>>

-----------------------------------------------------------------------------
(* What a thread does in the io_service *)

\* An aborted accept's handler returns.
Take(t, op) == /\ thread[t] = "run" /\ op \in ready
               /\ ready' = ready \ {op} /\ aborted' = aborted \ {op}
               /\ handling' = [handling EXCEPT ![t] = op]
               /\ Goes(t, IF op \in aborted THEN "end" ELSE "handler")
               /\ UNCHANGED <<waiting, hung, stopped, server, pool, main>>

Outstanding(t) == waiting # {} \/ ready # {} \/ \E u \in Threads \ {t} : handling[u] # None

HandlerEnds(t, p) == /\ Goes(t, p) /\ handling' = [handling EXCEPT ![t] = None]
                     /\ stopped' = (stopped \/ ~Outstanding(t))
                     /\ UNCHANGED <<waiting, ready, aborted, hung, server, pool, main>>

HandlerReturns(t) == thread[t] = "end" /\ HandlerEnds(t, "run")

FreeContexts == {c \in Contexts : pool[c] = "free"}

\* The socket object cannot be made: the context goes back, the exception leaves run().
HandlerThrows(t) == /\ thread[t] = "pop" /\ server # "destroyed" /\ FreeContexts # {}
                    /\ HandlerEnds(t, "caught")

\* on_exception_(), then run() again.
Caught(t) == /\ thread[t] = "caught" /\ Goes(t, "run")
             /\ UNCHANGED <<service, handling, server, pool, main>>

RunReturns(t) == /\ thread[t] = "run" /\ stopped /\ Goes(t, "done")
                 /\ UNCHANGED <<service, handling, server, pool, main>>

-----------------------------------------------------------------------------
(* The handlers *)

Handles(t, set) == thread[t] = "handler" /\ handling[t] \in set

\* Mutant of Rearm: nothing is accepted again.
RearmForgotten(t) == /\ Handles(t, Accepts) /\ Goes(t, "pop")
                     /\ UNCHANGED <<service, handling, server, pool, main>>

\* accept(): a closed acceptor fails at once, with an error that is not
\* operation_aborted, so that its handler accepts again, and again.
Rearm(t) == /\ Handles(t, Accepts)
            /\ \/ /\ server = "open" /\ Goes(t, "pop")
                  /\ waiting' = waiting \cup {handling[t]} /\ UNCHANGED ready
               \/ /\ server \in {"closed", "draining"} /\ Goes(t, "pop")
                  /\ ready' = ready \cup {handling[t]} /\ UNCHANGED waiting
               \/ /\ server = "destroyed" /\ Goes(t, "crashed")
                  /\ UNCHANGED <<waiting, ready>>
            /\ UNCHANGED <<aborted, hung, stopped, handling, server, pool, main>>

\* A free context's coroutine enters its first call; without one the connection is dropped.
Pop(t) == /\ thread[t] = "pop"
          /\ \/ \E c \in FreeContexts : /\ server # "destroyed" /\ Goes(t, "end")
                                /\ pool' = [pool EXCEPT ![c] = "serving"]
                                /\ waiting' = waiting \cup {c}
             \/ /\ FreeContexts = {} /\ server # "destroyed" /\ Goes(t, "end")
                /\ UNCHANGED <<waiting, pool>>
             \/ server = "destroyed" /\ Goes(t, "crashed") /\ UNCHANGED <<waiting, pool>>
          /\ UNCHANGED <<ready, aborted, hung, stopped, handling, server, main>>

\* The coroutine runs to its next call.
ConnectionGoesOn(t) == /\ Handles(t, Contexts) /\ Goes(t, "end")
                       /\ waiting' = waiting \cup {handling[t]}
                       /\ UNCHANGED <<ready, aborted, hung, stopped, handling, server, pool, main>>

\* It gives its context back, or dies of the logger (ContextDies of Server).
ConnectionEnds(t) == /\ Handles(t, Contexts) /\ Goes(t, "end")
                     /\ \E p \in {"free", "dead"} : pool' = [pool EXCEPT ![handling[t]] = p]
                     /\ UNCHANGED <<service, handling, server, main>>

\* stop(): the pending accepts are aborted.
CloseAcceptors(t) == /\ Handles(t, {"signal"}) /\ server = "open"
                     /\ server' = "closed"
                     /\ waiting' = waiting \ Accepts
                     /\ aborted' = waiting \cap Accepts
                     /\ ready' = ready \cup (waiting \cap Accepts)
                     /\ UNCHANGED <<hung, stopped, thread, handling, pool, main>>

\* A pass of its loop: the free contexts are counted and the others interrupted.
Drain(t) == /\ Handles(t, {"signal"})
            /\ server = "closed" \/ (server = "draining" /\ FreeContexts # {})
            /\ server' = "draining"
            /\ pool' = [c \in Contexts |-> IF c \in FreeContexts THEN "drained" ELSE pool[c]]
            /\ UNCHANGED <<service, thread, handling, main>>

Destroy(t) == /\ Handles(t, {"signal"}) /\ server = "draining"
              /\ \A c \in Contexts : pool[c] = "drained"
              /\ server' = "destroyed" /\ Goes(t, "end")
              /\ UNCHANGED <<service, handling, pool, main>>

-----------------------------------------------------------------------------
(* The world *)

\* A connection or the signal arrives, or a connection's call ends.
Complete(op) == /\ Alive /\ op \in waiting
                /\ waiting' = waiting \ {op} /\ ready' = ready \cup {op} /\ hung' = hung \ {op}
                /\ UNCHANGED <<aborted, stopped, thread, handling, server, pool, main>>

\* cancel() falls between two steps of a composed call (CancelLost of Sync).
LoseCancel(c) == /\ Alive /\ c \in waiting /\ c \notin hung
                 /\ hung' = hung \cup {c}
                 /\ UNCHANGED <<waiting, ready, aborted, stopped, thread, handling, server, pool,
                                main>>

Main == Alive /\ ((\E t \in Threads : Spawn(t)) \/ JoinSignal \/ Join)
Dispatched(op) == Alive /\ \E t \in Threads : Take(t, op)
Handler(t) == /\ Alive
              /\ \/ HandlerReturns(t) \/ HandlerThrows(t) \/ Rearm(t) \/ Pop(t)
                 \/ ConnectionGoesOn(t) \/ ConnectionEnds(t)
                 \/ CloseAcceptors(t) \/ Drain(t) \/ Destroy(t) \/ Caught(t) \/ RunReturns(t)

Next == \/ Main \/ (\E op \in Operations : Dispatched(op) \/ Complete(op))
        \/ (\E t \in Threads : Handler(t)) \/ \E c \in Contexts : LoseCancel(c)

Interrupted == server \in {"draining", "destroyed"}

\* Threads run, a ready handler is taken in its turn, main waits and the signal is sent.  The call
\* of an interrupted connection completes unless it has lost its cancel(), and the connection,
\* whose every call throws, ends.
Spec == /\ Init /\ [][Next]_vars
        /\ WF_vars(Main) /\ (\A t \in Threads : WF_vars(Handler(t)))
        /\ (\A op \in Operations : SF_vars(Dispatched(op))) /\ WF_vars(Complete("signal"))
        /\ \A c \in Contexts :
             /\ WF_vars(Interrupted /\ c \notin hung /\ Complete(c))
             /\ SF_vars(Alive /\ Interrupted
                          /\ \E t \in Threads : handling[t] = c /\ ConnectionEnds(t))
-----------------------------------------------------------------------------
TypeOK == /\ waiting \subseteq Operations /\ ready \subseteq Operations
          /\ aborted \subseteq ready \cap Accepts /\ hung \subseteq Contexts
          /\ thread \in [Threads -> ThreadPlaces]
          /\ handling \in [Threads -> Operations \cup {None}]
          /\ \A t \in Threads :
               thread[t] \in {"handler", "pop", "end", "crashed"} <=> handling[t] # None
          /\ server \in {"open", "closed", "draining", "destroyed"}
          /\ pool \in [Contexts -> {"free", "serving", "dead", "drained"}]
          /\ stopped \in BOOLEAN /\ main \in {"threads", "join", "joined"}

\* Until stop() closes it every acceptor has an accept waiting, completed, or about to be
\* repeated, whatever its handlers threw and however often the pool was empty (server.hpp:142).
AcceptedAgain == \A a \in Accepts : server = "open" =>
  a \in waiting \cup ready \/ \E t \in Threads : handling[t] = a /\ thread[t] = "handler"

\* No thread has ended while there is anything to do, whatever was thrown: with the first that
\* ends stop() has returned and all operations are over (io_processor.hpp:71-82).
ThreadsStay == (\E t \in Threads : thread[t] = "done") =>
  server = "destroyed" /\ waiting = {} /\ ready = {} /\ \A t \in Threads : handling[t] = None

\* Neither an acceptor nor a thread is lost to an exception: both of the above.
NothingIsLost == AcceptedAgain /\ ThreadsStay

\* An accept that completed before close(), and goes on failing and repeating itself.
Late == /\ server # "open"
        /\ \E a \in Accepts : \/ a \in ready \ aborted
                              \/ \E t \in Threads : handling[t] = a /\ thread[t] = "handler"

\* After the signal stop() returns, every thread ends and join() returns: unless a call that lost
\* its cancel() waits for its peer for ever, a connection's coroutine has died, or an accept
\* handler has outlived close(), which keeps a thread busy until it uses a destroyed acceptor.
JoinReturns ==
  (\A c \in Contexts : []<>(c \notin hung)) =>
     <>(main = "joined" \/ Late \/ ~Alive \/ \E c \in Contexts : pool[c] = "dead")
=============================================================================
