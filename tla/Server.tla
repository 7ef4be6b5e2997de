------------------------------- MODULE Server -------------------------------
(***************************************************************************)
(* server.hpp and server_context.hpp: the acceptors, the pool of contexts  *)
(* (one coroutine and one socket each, kept on a lock-free stack while it  *)
(* has no connection), and start() / stop().                               *)
(*                                                                         *)
(* The io threads run accept handlers and resume the contexts' coroutines; *)
(* stop() runs on a thread of its own or, as in main.cpp, inside a signal  *)
(* handler on one of the io threads.  Every statement that touches a       *)
(* shared object (stack, acceptors, a context's sync and socket) is an     *)
(* action.  How a coroutine waits inside a connection is Sync's subject:   *)
(* here a context is "serving" until on_connected returns or throws, and   *)
(* "hung" while a call of its connection whose cancel() was lost is        *)
(* waiting for the peer without a timer.                                   *)
(*                                                                         *)
(* One start() / stop() cycle is modelled.  A step that uses a destroyed   *)
(* object is recorded in `ub`, after which nothing happens any more.       *)
(***************************************************************************)
EXTENDS Naturals, FiniteSets

CONSTANTS Contexts,   \* the contexts: num_maximum_connections of them
          IoThreads,  \* threads that call io_service::run
          Stopper,    \* the thread that calls stop()
          Listeners,  \* enabled acceptors: a subset of {"plain", "ssl"}
          Logger,     \* config_.logger is set
          None        \* no context, no listener

ASSUME ServerAssumption == /\ IsFiniteSet(Contexts)
                           /\ Listeners \subseteq {"plain", "ssl"}
                           /\ Logger \in BOOLEAN
                           /\ None \notin Contexts \cup Listeners

VARIABLES
  phase,    \* where start() and stop() are; "running" is running_
  stack,    \* *context_stack_ (its order does not matter to anybody)
  ctx,      \* ctx[c]: the coroutine of context c
  conn,     \* conn[c]: its socket_
  intr,     \* intr[c]: its sync_.interrupted_
  acc,      \* acc[l]: the acceptor of listener l
  acceptOp, \* acceptOp[l]: the async_accept on it
  th,       \* th[t]: what thread t is executing
  count,    \* count_stopped of stop()
  drained,  \* history: the contexts stop() has popped
  late,     \* history: what close() came too late to abort (see Uncaught)
  ub        \* the destroyed object that was used, or "none"

vars == <<phase, stack, ctx, conn, intr, acc, acceptOp, th, count, drained, late, ub>>

Threads == IoThreads \cup {Stopper}

Sockets == {"none", "live", "broken"}  \* "broken": remote_endpoint() throws

Places == {"idle",
           "rearm",    \* accept handler: about to call accept(secure)
           "pop",      \* accept handler: about to pop a context
           "recheck",  \* accept handler: pop failed, about to call empty()
           "wrap",     \* accept handler: about to make the socket object
           "resume",   \* accept handler: in start(), about to resume
           "log",      \* coroutine: about to log the disconnection
           "ready",    \* coroutine: about to call on_ready
           "suspend",  \* coroutine: pushed, about to suspend
           "stop"}     \* executing stop()

TypeOK ==
  /\ phase \in {"idle", "failed", "running", "closing", "draining",
                "resetting", "clearing", "stopped"}
  /\ stack \in SUBSET Contexts
  /\ ctx \in [Contexts -> {"none", "parked", "active", "serving", "hung", "dead",
                        "gone"}]
  /\ conn \in [Contexts -> Sockets]
  /\ intr \in [Contexts -> BOOLEAN]
  /\ acc \in [Listeners -> {"null", "open", "closed"}]
  /\ acceptOp \in [Listeners -> {"none", "pending", "accepted", "failed", "aborted"}]
  /\ th \in [Threads -> [at : Places, l : Listeners \cup {None},
                         c : Contexts \cup {None}, sock : Sockets]]
  /\ count \in Nat
  /\ drained \in SUBSET Contexts
  /\ late \in SUBSET {"chain", "handler"}
  /\ ub \in {"none", "acceptor", "stack", "context"}

Idle == [at |-> "idle", l |-> None, c |-> None, sock |-> "none"]

Init == /\ phase = "idle"
        /\ stack = {}
        /\ ctx = [c \in Contexts |-> "none"]
        /\ conn = [c \in Contexts |-> "none"]
        /\ intr = [c \in Contexts |-> FALSE]
        /\ acc = [l \in Listeners |-> "null"]
        /\ acceptOp = [l \in Listeners |-> "none"]
        /\ th = [t \in Threads |-> Idle]
        /\ count = 0
        /\ drained = {}
        /\ late = {}
        /\ ub = "none"

-----------------------------------------------------------------------------
(* start() *)

\* Each context's constructor resumes its coroutine, which pushes itself and
\* suspends; only then are the acceptors armed, so nobody else sees the steps.
Start == /\ phase = "idle"
         /\ stack' = Contexts
         /\ ctx' = [c \in Contexts |-> "parked"]
         /\ acc' = [l \in Listeners |-> "open"]
         /\ acceptOp' = [l \in Listeners |-> "pending"]
         /\ phase' = "running"
         /\ UNCHANGED <<conn, intr, th, count, drained, late, ub>>

\* Binding an acceptor throws: an acceptor opened before it stays open, and the
\* port it holds keeps a second start() from succeeding.
StartFails(l) == /\ phase = "idle"
                 /\ acc' = [k \in Listeners |->
                              IF l = "ssl" /\ k = "plain" THEN "open" ELSE "null"]
                 /\ phase' = IF \E k \in Listeners : acc'[k] = "open"
                             THEN "failed" ELSE "idle"
                 /\ UNCHANGED <<stack, ctx, conn, intr, acceptOp, th, count, drained,
                                late, ub>>

-----------------------------------------------------------------------------
(* The accept handler (server.hpp:137-168) on an io thread. *)

\* A connection arrives, or accept fails (no descriptors, aborted by the peer).
AcceptCompletes(l) == /\ acceptOp[l] = "pending"
                      /\ \E r \in {"accepted", "failed"} :
                           acceptOp' = [acceptOp EXCEPT ![l] = r]
                      /\ UNCHANGED <<phase, stack, ctx, conn, intr, acc, th, count,
                                     drained, late, ub>>

\* Mutant of TakeAborted: the handler returns on every error.
TakeAnyError(t, l) == /\ th[t] = Idle
                      /\ acceptOp[l] \in {"aborted", "failed"}
                      /\ acceptOp' = [acceptOp EXCEPT ![l] = "none"]
                      /\ UNCHANGED <<phase, stack, ctx, conn, intr, acc, th, count,
                                     drained, late, ub>>

\* operation_aborted: the handler returns.
TakeAborted(t, l) == /\ th[t] = Idle
                     /\ acceptOp[l] = "aborted"
                     /\ acceptOp' = [acceptOp EXCEPT ![l] = "none"]
                     /\ UNCHANGED <<phase, stack, ctx, conn, intr, acc, th, count,
                                    drained, late, ub>>

\* Any other result goes on, an error with a socket that is not open.
TakeAccept(t, l) ==
  /\ th[t] = Idle
  /\ acceptOp[l] \in {"accepted", "failed"}
  /\ acceptOp' = [acceptOp EXCEPT ![l] = "none"]
  /\ th' = [th EXCEPT ![t] =
              [at |-> "rearm", l |-> l, c |-> None,
               sock |-> IF acceptOp[l] = "accepted" THEN "live" ELSE "broken"]]
  /\ UNCHANGED <<phase, stack, ctx, conn, intr, acc, count, drained, late, ub>>

\* accept(secure): on a closed acceptor the operation fails with
\* bad_descriptor, which is not operation_aborted.
Rearm(t) ==
  LET l == th[t].l IN
  /\ th[t].at = "rearm"
  /\ th' = [th EXCEPT ![t].at = "pop"]
  /\ acceptOp' = CASE acc[l] = "open"   -> [acceptOp EXCEPT ![l] = "pending"]
                   [] acc[l] = "closed" -> [acceptOp EXCEPT ![l] = "failed"]
                   [] acc[l] = "null"   -> acceptOp
  /\ ub' = IF acc[l] = "null" THEN "acceptor" ELSE ub
  /\ UNCHANGED <<phase, stack, ctx, conn, intr, acc, count, drained, late>>

\* stop() has executed context_stack_.reset().
StackGone == phase = "stopped"

\* Mutant of PopContext: the context stays on the stack.
TopContext(t) == /\ th[t].at = "pop"
                 /\ ~StackGone
                 /\ \E c \in stack : /\ stack' = stack
                                     /\ th' = [th EXCEPT ![t].at = "wrap", ![t].c = c]
                 /\ UNCHANGED <<phase, ctx, conn, intr, acc, acceptOp, count, drained,
                                late, ub>>

PopContext(t) == /\ th[t].at = "pop"
                 /\ ~StackGone
                 /\ \E c \in stack : /\ stack' = stack \ {c}
                                     /\ th' = [th EXCEPT ![t].at = "wrap", ![t].c = c]
                 /\ UNCHANGED <<phase, ctx, conn, intr, acc, acceptOp, count, drained,
                                late, ub>>

PopFails(t) == /\ th[t].at = "pop"
               /\ stack = {}
               /\ ~StackGone
               /\ th' = [th EXCEPT ![t].at = "recheck"]
               /\ UNCHANGED <<phase, stack, ctx, conn, intr, acc, acceptOp, count,
                              drained, late, ub>>

\* empty(): the connection is dropped, or the loop pops again.
Recheck(t) == /\ th[t].at = "recheck"
              /\ ~StackGone
              /\ th' = IF stack = {} THEN [th EXCEPT ![t] = Idle]
                                     ELSE [th EXCEPT ![t].at = "pop"]
              /\ UNCHANGED <<phase, stack, ctx, conn, intr, acc, acceptOp, count,
                             drained, late, ub>>

UseStackGone(t) == /\ th[t].at \in {"pop", "recheck"}
                   /\ StackGone
                   /\ ub' = "stack"
                   /\ UNCHANGED <<phase, stack, ctx, conn, intr, acc, acceptOp, th,
                                  count, drained, late>>

\* The socket object is made and start() stores it in socket_.
Wrap(t) == LET c == th[t].c IN
           /\ th[t].at = "wrap"
           /\ conn' = [conn EXCEPT ![c] = th[t].sock]
           /\ th' = [th EXCEPT ![t].at = "resume"]
           /\ UNCHANGED <<phase, stack, ctx, intr, acc, acceptOp, count, drained,
                          late, ub>>

\* Making it throws: the context goes back and io_processor swallows the rest.
WrapFails(t) == /\ th[t].at = "wrap"
                /\ stack' = stack \cup {th[t].c}
                /\ th' = [th EXCEPT ![t] = Idle]
                /\ UNCHANGED <<phase, ctx, conn, intr, acc, acceptOp, count, drained,
                               late, ub>>

\* sync_.resume(), once the coroutine has suspended: it enters on_connected and
\* suspends there, which ends the handler.
ResumeContext(t) == LET c == th[t].c IN
                    /\ th[t].at = "resume"
                    /\ ctx[c] = "parked"
                    /\ ctx' = [ctx EXCEPT ![c] = "serving"]
                    /\ th' = [th EXCEPT ![t] = Idle]
                    /\ UNCHANGED <<phase, stack, conn, intr, acc, acceptOp, count,
                                   drained, late, ub>>

-----------------------------------------------------------------------------
(* The context's coroutine (server_context.hpp:42-85). *)

\* The peer resets the connection: from now on remote_endpoint() throws.
PeerResets(c) == /\ conn[c] = "live"
                 /\ conn' = [conn EXCEPT ![c] = "broken"]
                 /\ UNCHANGED <<phase, stack, ctx, intr, acc, acceptOp, th, count,
                                drained, late, ub>>

\* A timeout or an interruption falls between two steps of a composed operation
\* (TLS, or the handler's connect to several addresses): cancel() finds nothing to
\* cancel, and the next step waits in the second suspend(), which has no timer.
CancelLost(c) == /\ ctx[c] = "serving"
                 /\ ctx' = [ctx EXCEPT ![c] = "hung"]
                 /\ UNCHANGED <<phase, stack, conn, intr, acc, acceptOp, th, count,
                                drained, late, ub>>

\* The peer that a hung call waits for moves, or resets the connection.
PeerMoves(c) == /\ ctx[c] = "hung"
                /\ ctx' = [ctx EXCEPT ![c] = "serving"]
                /\ UNCHANGED <<phase, stack, conn, intr, acc, acceptOp, th, count,
                               drained, late, ub>>

\* A handler resumes the coroutine on thread t and on_connected returns or
\* throws there.
ServeEnds(t, c) ==
  /\ th[t] = Idle
  /\ ctx[c] = "serving"
  /\ ctx' = [ctx EXCEPT ![c] = "active"]
  /\ th' = [th EXCEPT ![t] = [Idle EXCEPT !.at = "log", !.c = c]]
  /\ UNCHANGED <<phase, stack, conn, intr, acc, acceptOp, count, drained, late, ub>>

\* Mutant of ResetSocket: no socket_.reset().
ResetSocketForgotten(t) == LET c == th[t].c IN
                           /\ th[t].at = "log"
                           /\ ~(Logger /\ conn[c] = "broken")
                           /\ conn' = conn
                           /\ th' = [th EXCEPT ![t].at = "ready"]
                           /\ UNCHANGED <<phase, stack, ctx, intr, acc, acceptOp, count,
                                          drained, late, ub>>

\* server_disconnect(remote_endpoint()) succeeds, or there is no logger; then
\* socket_.reset().
ResetSocket(t) == LET c == th[t].c IN
                  /\ th[t].at = "log"
                  /\ ~(Logger /\ conn[c] = "broken")
                  /\ conn' = [conn EXCEPT ![c] = "none"]
                  /\ th' = [th EXCEPT ![t].at = "ready"]
                  /\ UNCHANGED <<phase, stack, ctx, intr, acc, acceptOp, count,
                                 drained, late, ub>>

\* remote_endpoint() throws outside the try block: the exception leaves run()
\* and sync::run ends the coroutine.
ContextDies(t) == LET c == th[t].c IN
                  /\ th[t].at = "log"
                  /\ Logger /\ conn[c] = "broken"
                  /\ ctx' = [ctx EXCEPT ![c] = "dead"]
                  /\ th' = [th EXCEPT ![t] = Idle]
                  /\ UNCHANGED <<phase, stack, conn, intr, acc, acceptOp, count,
                                 drained, late, ub>>

OnReady(t) == /\ th[t].at = "ready"
              /\ stack' = stack \cup {th[t].c}
              /\ th' = [th EXCEPT ![t].at = "suspend"]
              /\ UNCHANGED <<phase, ctx, conn, intr, acc, acceptOp, count, drained,
                             late, ub>>

Suspend(t) == LET c == th[t].c IN
              /\ th[t].at = "suspend"
              /\ \/ /\ ctx[c] # "gone"
                    /\ ctx' = [ctx EXCEPT ![c] = "parked"]
                    /\ th' = [th EXCEPT ![t] = Idle]
                    /\ UNCHANGED ub
                 \/ /\ ctx[c] = "gone"
                    /\ ub' = "context"
                    /\ UNCHANGED <<ctx, th>>
              /\ UNCHANGED <<phase, stack, conn, intr, acc, acceptOp, count, drained, late>>

-----------------------------------------------------------------------------
(* stop() *)

StopBegin == /\ phase = "running"
             /\ th[Stopper] = Idle
             /\ th' = [th EXCEPT ![Stopper].at = "stop"]
             /\ phase' = "closing"
             /\ UNCHANGED <<stack, ctx, conn, intr, acc, acceptOp, count, drained, late, ub>>

\* What close() cannot abort: a completion that is queued or whose handler has
\* yet to call accept() again, and a handler that has yet to use the stack.
Uncaught(l) ==
  {u \in {"chain", "handler"} :
     \/ u = "chain" /\ acceptOp[l] \in {"accepted", "failed"}
     \/ \E t \in Threads :
          /\ th[t].l = l
          /\ \/ u = "chain" /\ th[t].at = "rearm"
             \/ u = "handler" /\ th[t].at \in {"pop", "recheck"}}

\* Mutant of CloseAcceptor: the outstanding accept is not aborted.
CloseKeepsAccept(l) ==
  /\ phase = "closing"
  /\ acc[l] = "open"
  /\ l = "ssl" => \A k \in Listeners : k = "plain" => acc[k] = "closed"
  /\ acc' = [acc EXCEPT ![l] = "closed"]
  /\ acceptOp' = acceptOp
  /\ late' = late \cup Uncaught(l)
  /\ UNCHANGED <<phase, stack, ctx, conn, intr, th, count, drained, ub>>

\* plain_accceptor_->close(), then ssl_accceptor_->close().
CloseAcceptor(l) ==
  /\ phase = "closing"
  /\ acc[l] = "open"
  /\ l = "ssl" => \A k \in Listeners : k = "plain" => acc[k] = "closed"
  /\ acc' = [acc EXCEPT ![l] = "closed"]
  /\ acceptOp' = IF acceptOp[l] = "pending"
                 THEN [acceptOp EXCEPT ![l] = "aborted"] ELSE acceptOp
  /\ late' = late \cup Uncaught(l)
  /\ UNCHANGED <<phase, stack, ctx, conn, intr, th, count, drained, ub>>

BeginDrain == /\ phase = "closing"
              /\ \A l \in Listeners : acc[l] = "closed"
              /\ phase' = "draining"
              /\ UNCHANGED <<stack, ctx, conn, intr, acc, acceptOp, th, count, drained,
                             late, ub>>

StopPop == /\ phase = "draining"
           /\ \E c \in stack : /\ stack' = stack \ {c}
                               /\ drained' = drained \cup {c}
           /\ count' = count + 1
           /\ UNCHANGED <<phase, ctx, conn, intr, acc, acceptOp, th, late, ub>>

\* Mutant of InterruptAll: stop() waits without interrupting.
InterruptNobody == /\ phase = "draining"
                   /\ stack = {}
                   /\ intr' = intr
                   /\ phase' = IF count = Cardinality(Contexts) THEN "resetting"
                                                                ELSE "draining"
                   /\ UNCHANGED <<stack, ctx, conn, acc, acceptOp, th, count, drained, late, ub>>

\* The stack is empty: every context is interrupted, popped or not.
InterruptAll == /\ phase = "draining"
                /\ stack = {}
                /\ intr' = [c \in Contexts |-> TRUE]
                /\ phase' = IF count = Cardinality(Contexts) THEN "resetting"
                                                             ELSE "draining"
                /\ UNCHANGED <<stack, ctx, conn, acc, acceptOp, th, count, drained, late, ub>>

ResetAcceptors == /\ phase = "resetting"
                  /\ acc' = [l \in Listeners |-> "null"]
                  /\ acceptOp' = [l \in Listeners |->
                                    IF acceptOp[l] = "pending" THEN "aborted"
                                                               ELSE acceptOp[l]]
                  /\ phase' = "clearing"
                  /\ UNCHANGED <<stack, ctx, conn, intr, th, count, drained, late, ub>>

\* contexts_.clear(), context_stack_.reset(), running_ = false.
ClearContexts == /\ phase = "clearing"
                 /\ ctx' = [c \in Contexts |-> "gone"]
                 /\ conn' = [c \in Contexts |-> "none"]
                 /\ stack' = {}
                 /\ phase' = "stopped"
                 /\ th' = [th EXCEPT ![Stopper] = Idle]
                 /\ UNCHANGED <<intr, acc, acceptOp, count, drained, late, ub>>

-----------------------------------------------------------------------------
AcceptStep(t) == \/ Rearm(t) \/ PopContext(t) \/ PopFails(t) \/ Recheck(t)
                 \/ UseStackGone(t) \/ Wrap(t) \/ WrapFails(t) \/ ResumeContext(t)

CoroStep(t) == ResetSocket(t) \/ ContextDies(t) \/ OnReady(t) \/ Suspend(t)

StopStep == \/ \E l \in Listeners : CloseAcceptor(l)
            \/ BeginDrain \/ StopPop \/ InterruptAll
            \/ ResetAcceptors \/ ClearContexts

WorldStep == \/ \E l \in Listeners : AcceptCompletes(l)
             \/ \E c \in Contexts : PeerResets(c) \/ CancelLost(c) \/ PeerMoves(c)

TakeStep(t) == \/ \E l \in Listeners : TakeAccept(t, l) \/ TakeAborted(t, l)
               \/ \E c \in Contexts : ServeEnds(t, c)

\* Nothing more happens after a failed start, a stop, or the use of a
\* destroyed object.
Terminated == /\ phase \in {"failed", "stopped"} \/ ub # "none"
              /\ UNCHANGED vars

Next == \/ /\ ub = "none"
           /\ \/ Start \/ \E l \in Listeners : StartFails(l)
              \/ \E t \in IoThreads : TakeStep(t) \/ AcceptStep(t) \/ CoroStep(t)
              \/ StopBegin \/ StopStep
              \/ WorldStep
        \/ Terminated

Spec == Init /\ [][Next]_vars

Alive(A) == ub = "none" /\ A

\* Threads run; a connection need not end until its context is interrupted, and
\* then it does, for every call it makes throws (Sync), unless the call it is in
\* has lost its cancel(): a peer that such a call waits for owes nothing.  A ready
\* handler waits for its turn in the io_service queue.
Fairness == /\ WF_vars(Alive(StopStep))
            /\ \A t \in IoThreads : WF_vars(Alive(AcceptStep(t) \/ CoroStep(t)))
            /\ \A c \in Contexts :
                 SF_vars(Alive(intr[c] /\ \E t \in IoThreads : ServeEnds(t, c)))

FairSpec == Spec /\ Fairness

-----------------------------------------------------------------------------
(* Properties *)

Started == phase \notin {"idle", "failed", "stopped"}

\* The threads that own context c between taking it and giving it back.
OwnedBy(c) == {t \in Threads : /\ th[t].at \in {"wrap", "resume", "log", "ready"}
                               /\ th[t].c = c}

\* A context is in exactly one place: on the stack, popped by stop(), owned by
\* a handler, in a connection, or dead.  None is lost, and none is handed to
\* two connections (server.hpp:146-167, server_context.hpp:46, 83).
PoolConservation ==
  Started => \A c \in Contexts :
    Cardinality(OwnedBy(c))
      + Cardinality({p \in {"stack", "drained", "serving", "hung", "dead"} :
                       \/ p = "stack" /\ c \in stack
                       \/ p = "drained" /\ c \in drained
                       \/ p \in {"serving", "hung", "dead"} /\ ctx[c] = p}) = 1

\* A context on the stack holds no socket: start() never replaces the socket
\* of the previous connection, and no reset() comes after start() has stored
\* the new one (server_context.hpp:31, 83).
ReadyIsClean == \A c \in stack : conn[c] = "none"

\* A coroutine that enters a connection has the socket it dereferences
\* (server_context.hpp:51).
ServingHasSocket == \A c \in Contexts : ctx[c] \in {"serving", "hung"} => conn[c] # "none"

\* stop() destroys the contexts only after popping every one of them, each
\* once: count_stopped never counts a context twice (server.hpp:96-107).
StopCountsEach == /\ count = Cardinality(drained)
                  /\ phase \in {"resetting", "clearing", "stopped"} => drained = Contexts

\* Nothing that uses the pool loses, doubles or soils a context: PoolConservation, ReadyIsClean,
\* ServingHasSocket and StopCountsEach.
PoolSafety == PoolConservation /\ ReadyIsClean /\ ServingHasSocket /\ StopCountsEach

\* Until it is closed, each listener has an accept outstanding, a completion
\* queued, or a handler about to accept again, however connections are dropped
\* or fail (server.hpp:142 re-arms first).
AcceptChainAlive ==
  Started /\ ub = "none" =>
    \A l \in Listeners :
      acc[l] = "open" => \/ acceptOp[l] \in {"pending", "accepted", "failed"}
                         \/ \E t \in Threads : th[t].at = "rearm" /\ th[t].l = l

\* A context that stop() has popped serves nobody: its coroutine is suspended
\* in run() or about to be (server.hpp:98-103, 112).
DrainedIsIdle ==
  \A c \in drained : \/ ctx[c] \in {"parked", "gone"}
                     \/ \E t \in Threads : th[t].at = "suspend" /\ th[t].c = c

\* An accept handler uses an acceptor or a stack that stop() has destroyed only
\* if its completion was queued, or being handled, when close() was called:
\* to dereference the acceptor it takes a completion not yet re-armed.
StrayAcceptIsLate == /\ ub = "acceptor" => "chain" \in late
                     /\ ub = "stack" => late # {}

\* stop() returns, unless a connection's call that lost its cancel() waits for its
\* peer for ever, a coroutine died, an accept completion outlived close(), or a
\* destroyed object was used.  With one io thread that also runs stop() it does not.
StopReturns ==
  (\A c \in Contexts : []<>(ctx[c] # "hung")) =>
    (phase = "closing" ~>
      (phase = "stopped" \/ ub # "none" \/ "chain" \in late
         \/ (Logger /\ \E c \in Contexts : ctx[c] = "dead")))

\* suspend() runs on a live sync whose mutex_ its own resume() holds: the
\* assertions at sync.hpp:33-34.
SuspendOnLiveContext == ub # "context"
=============================================================================
