---------------------------- MODULE ServerProofs ----------------------------
(***************************************************************************)
(* Proofs about Server: for any numbers of contexts, io threads and        *)
(* listeners, whoever runs stop(), no context is lost, doubled or handed   *)
(* over with a socket, each listener goes on accepting, and what stop()    *)
(* destroys too early was late already when it closed the acceptors.       *)
(***************************************************************************)
EXTENDS Server, TLAPS, FiniteSetTheorems

(***************************************************************************)
(* The pool.  A thread owns a context from taking it to giving it back; a  *)
(* thread that runs a coroutine may still have to suspend it while another *)
(* owns it (server_context.hpp:46), so the two are told apart.             *)
(***************************************************************************)
Owns(t, c) == th[t].at \in {"wrap", "resume", "log", "ready"} /\ th[t].c = c
Runs(t, c) == th[t].at \in {"log", "ready", "suspend"} /\ th[t].c = c

ThreadsOK == \A t \in Threads :
  /\ th[t].at \in {"wrap", "resume", "log", "ready", "suspend"} => th[t].c \in Contexts
  /\ th[t].at \in {"rearm", "pop", "recheck", "wrap", "resume"} => th[t].sock # "none"

\* An owned context is nowhere else, and nobody else owns it.
OwnerOK(c) == \A t \in Threads : Owns(t, c) =>
  /\ c \notin stack /\ c \notin drained /\ ctx[c] \in {"parked", "active"}
  /\ \A u \in Threads : Owns(u, c) => u = t

\* One thread runs its coroutine, if it is not suspended.
RunnerOK(c) ==
  /\ ctx[c] = "active" => \E t \in Threads : Runs(t, c)
  /\ \A t \in Threads : Runs(t, c) =>
       /\ ctx[c] = "active" \/ (ctx[c] = "gone" /\ th[t].at = "suspend")
       /\ \A u \in Threads : Runs(u, c) => u = t

FreeOK(c) == /\ ~(c \in stack /\ c \in drained)
             /\ c \in stack => ctx[c] \in {"parked", "active"}
             /\ c \in drained => ctx[c] \in {"parked", "active", "gone"}

\* Every context is somewhere.
Placed(c) == Started => \/ c \in stack \/ c \in drained \/ ctx[c] \in {"serving", "hung", "dead"}
                        \/ \E t \in Threads : Owns(t, c)

\* It has a socket from just before it is resumed until its connection has ended.
SocketOK(c) ==
  /\ conn[c] # "none" => \/ ctx[c] \in {"serving", "hung", "dead"}
                         \/ \E t \in Threads : Owns(t, c) /\ th[t].at \in {"resume", "log"}
  /\ ctx[c] \in {"serving", "hung"} => conn[c] # "none"
  /\ \A t \in Threads : Owns(t, c) /\ th[t].at = "resume" => conn[c] # "none"

ContextOK(c) == OwnerOK(c) /\ RunnerOK(c) /\ FreeOK(c) /\ Placed(c) /\ SocketOK(c)

\* Before start() there is nothing.
Fresh == phase \in {"idle", "failed"} => /\ stack = {} /\ drained = {}
                                         /\ \A c \in Contexts : ctx[c] = "none" /\ conn[c] = "none"
                                         /\ \A t \in Threads : th[t] = Idle
                                         /\ \A l \in Listeners : acceptOp[l] = "none"

PoolOK == ThreadsOK /\ (\A c \in Contexts : ContextOK(c)) /\ Fresh /\ StopCountsEach

(***************************************************************************)
(* The acceptors.  Once an acceptor is closed, an accept that is still     *)
(* under way, or a handler still at work, is recorded in late.             *)
(***************************************************************************)
ListenersOK == \A t \in Threads : th[t].at \in {"rearm", "pop", "recheck"} => th[t].l \in Listeners

ClosedOK == /\ phase \in {"draining", "resetting", "clearing", "stopped"} =>
                 \A l \in Listeners : acc[l] # "open"
            /\ \A l \in Listeners : acc[l] # "open" => acceptOp[l] # "pending"

LateOK == \A l \in Listeners : acc[l] # "open" =>
  /\ acceptOp[l] \in {"accepted", "failed"} => "chain" \in late
  /\ \A t \in Threads : th[t].l = l =>
       /\ th[t].at = "rearm" => "chain" \in late
       /\ th[t].at \in {"pop", "recheck"} => late # {}

AcceptOK == ListenersOK /\ ClosedOK /\ LateOK /\ AcceptChainAlive /\ StrayAcceptIsLate

IInv == TypeOK /\ PoolOK /\ AcceptOK

-----------------------------------------------------------------------------
ThreadStates == [at : Places, l : Listeners \cup {None}, c : Contexts \cup {None}, sock : Sockets]

LEMMA IdleType == Idle \in ThreadStates /\ Idle.at = "idle"
  BY DEF Idle, ThreadStates, Places, Sockets

LEMMA InitIInv == Init => IInv
<1> SUFFICES ASSUME Init PROVE IInv
  OBVIOUS
<1> USE IdleType DEF Init
<1>1. TypeOK
  BY DEF TypeOK, Sockets, ThreadStates
<1>2. \A t \in Threads : th[t].at = "idle"
  OBVIOUS
<1>3. ThreadsOK /\ Fresh
  BY <1>2 DEF ThreadsOK, Fresh
<1>4. ASSUME NEW c \in Contexts PROVE ContextOK(c)
  BY <1>2 DEF ContextOK, OwnerOK, RunnerOK, FreeOK, Placed, SocketOK, Started, Owns, Runs
<1>5. StopCountsEach
  BY FS_EmptySet DEF StopCountsEach
<1>6. AcceptOK
  BY <1>2 DEF AcceptOK, ListenersOK, ClosedOK, LateOK, AcceptChainAlive, StrayAcceptIsLate, Started
<1> QED BY <1>1, <1>3, <1>4, <1>5, <1>6 DEF IInv, PoolOK

-----------------------------------------------------------------------------
(* Types *)

\* What a step does to the threads: t goes on to p, with a context or with the one
\* it has, or it rests; the others stay.
Typed == th' \in [Threads -> ThreadStates]
Others(t) == \A u \in Threads \ {t} : th'[u] = th[u]
Goes(t, p) == /\ th'[t].at = p /\ th'[t].c = th[t].c /\ th'[t].l = th[t].l /\ th'[t].sock = th[t].sock
              /\ Others(t) /\ Typed
Takes(t, p, c) == /\ th'[t].at = p /\ th'[t].c = c /\ th'[t].l = th[t].l /\ th'[t].sock = th[t].sock
                  /\ Others(t) /\ Typed
Rests(t) == th'[t] = Idle /\ Others(t) /\ Typed

LEMMA ThreadSet ==
  ASSUME TypeOK, NEW t \in Threads, NEW x \in ThreadStates, th' = [th EXCEPT ![t] = x]
  PROVE  th'[t] = x /\ Others(t) /\ Typed
  BY DEF TypeOK, ThreadStates, Others, Typed

LEMMA ThreadGoes ==
  ASSUME TypeOK, NEW t \in Threads, NEW p \in Places, th' = [th EXCEPT ![t].at = p]
  PROVE  Goes(t, p)
<1> DEFINE x == [th[t] EXCEPT !.at = p]
<1>1. th[t] \in ThreadStates
  BY DEF TypeOK, ThreadStates
<1>2. x \in ThreadStates /\ x.at = p /\ x.c = th[t].c /\ x.l = th[t].l /\ x.sock = th[t].sock
  BY <1>1 DEF ThreadStates
<1>3. th' = [th EXCEPT ![t] = x]
  BY DEF TypeOK
<1> HIDE DEF x
<1> QED BY <1>2, <1>3, ThreadSet DEF Goes

LEMMA ThreadTakes ==
  ASSUME TypeOK, NEW t \in Threads, NEW p \in Places, NEW c \in Contexts,
         th' = [th EXCEPT ![t].at = p, ![t].c = c]
  PROVE  Takes(t, p, c)
<1> DEFINE x == [th[t] EXCEPT !.at = p, !.c = c]
<1>1. th[t] \in ThreadStates
  BY DEF TypeOK, ThreadStates
<1>2. x \in ThreadStates /\ x.at = p /\ x.c = c /\ x.l = th[t].l /\ x.sock = th[t].sock
  BY <1>1 DEF ThreadStates
<1>3. th' = [th EXCEPT ![t] = x]
  BY DEF TypeOK
<1> HIDE DEF x
<1> QED BY <1>2, <1>3, ThreadSet DEF Takes

LEMMA ThreadRests ==
  ASSUME TypeOK, NEW t \in Threads, th' = [th EXCEPT ![t] = Idle]
  PROVE  Rests(t)
  BY IdleType, ThreadSet DEF Rests

\* The thread step of every action.
LEMMA Moves ==
  ASSUME TypeOK, NEW t \in Threads
  PROVE  /\ Rearm(t) => Goes(t, "pop")
         /\ PopContext(t) => \E c \in stack : Takes(t, "wrap", c) /\ stack' = stack \ {c}
         /\ PopFails(t) => Goes(t, "recheck")
         /\ Recheck(t) => Rests(t) \/ Goes(t, "pop")
         /\ Wrap(t) => Goes(t, "resume")
         /\ WrapFails(t) => Rests(t)
         /\ ResumeContext(t) => Rests(t)
         /\ ResetSocket(t) => Goes(t, "ready")
         /\ ContextDies(t) => Rests(t)
         /\ OnReady(t) => Goes(t, "suspend")
         /\ Suspend(t) => Rests(t) \/ (UNCHANGED th /\ ub' # "none")
<1>1. {"pop", "recheck", "wrap", "resume", "ready", "suspend"} \subseteq Places
  BY DEF Places
<1>2. Rearm(t) => Goes(t, "pop")
  BY <1>1, ThreadGoes DEF Rearm
<1>3. ASSUME PopContext(t) PROVE \E c \in stack : Takes(t, "wrap", c) /\ stack' = stack \ {c}
  <2>1. PICK c \in stack : stack' = stack \ {c} /\ th' = [th EXCEPT ![t].at = "wrap", ![t].c = c]
    BY <1>3 DEF PopContext
  <2>2. c \in Contexts
    BY DEF TypeOK
  <2> QED BY <1>1, <2>1, <2>2, ThreadTakes
<1>4. (PopFails(t) => Goes(t, "recheck")) /\ (Wrap(t) => Goes(t, "resume"))
  BY <1>1, ThreadGoes DEF PopFails, Wrap
<1>5. Recheck(t) => Rests(t) \/ Goes(t, "pop")
  BY <1>1, ThreadGoes, ThreadRests DEF Recheck
<1>6. (WrapFails(t) => Rests(t)) /\ (ResumeContext(t) => Rests(t)) /\ (ContextDies(t) => Rests(t))
  BY ThreadRests DEF WrapFails, ResumeContext, ContextDies
<1>7. (ResetSocket(t) => Goes(t, "ready")) /\ (OnReady(t) => Goes(t, "suspend"))
  BY <1>1, ThreadGoes DEF ResetSocket, OnReady
<1>8. Suspend(t) => Rests(t) \/ (UNCHANGED th /\ ub' # "none")
  BY ThreadRests DEF Suspend
<1> QED BY <1>2, <1>3, <1>4, <1>5, <1>6, <1>7, <1>8

LEMMA OtherMoves ==
  ASSUME TypeOK
  PROVE  /\ StopBegin => Goes(Stopper, "stop")
         /\ ClearContexts => Rests(Stopper)
         /\ \A t \in Threads, l \in Listeners : TakeAccept(t, l) =>
              /\ th'[t].at = "rearm" /\ th'[t].l = l /\ th'[t].c = None /\ th'[t].sock # "none"
              /\ Others(t) /\ Typed
         /\ \A t \in Threads, c \in Contexts : ServeEnds(t, c) =>
              /\ th'[t].at = "log" /\ th'[t].c = c /\ th'[t].l = None
              /\ Others(t) /\ Typed
<1>1. Stopper \in Threads /\ "stop" \in Places /\ "rearm" \in Places /\ "log" \in Places
  BY DEF Threads, Places
<1>2. (StopBegin => Goes(Stopper, "stop")) /\ (ClearContexts => Rests(Stopper))
  BY <1>1, ThreadGoes, ThreadRests DEF StopBegin, ClearContexts
<1>3. ASSUME NEW t \in Threads, NEW l \in Listeners, TakeAccept(t, l)
      PROVE  /\ th'[t].at = "rearm" /\ th'[t].l = l /\ th'[t].c = None /\ th'[t].sock # "none"
             /\ Others(t) /\ Typed
  <2> DEFINE x == [at |-> "rearm", l |-> l, c |-> None,
                   sock |-> IF acceptOp[l] = "accepted" THEN "live" ELSE "broken"]
  <2>1. x \in ThreadStates /\ x.at = "rearm" /\ x.l = l /\ x.c = None /\ x.sock # "none"
    BY <1>1 DEF ThreadStates, Sockets
  <2>2. th' = [th EXCEPT ![t] = x]
    BY <1>3 DEF TakeAccept
  <2> HIDE DEF x
  <2> QED BY <2>1, <2>2, ThreadSet
<1>4. ASSUME NEW t \in Threads, NEW c \in Contexts, ServeEnds(t, c)
      PROVE  /\ th'[t].at = "log" /\ th'[t].c = c /\ th'[t].l = None
             /\ Others(t) /\ Typed
  <2> DEFINE x == [Idle EXCEPT !.at = "log", !.c = c]
  <2>1. x \in ThreadStates /\ x.at = "log" /\ x.c = c /\ x.l = None
    BY <1>1, IdleType DEF ThreadStates, Idle
  <2>2. th' = [th EXCEPT ![t] = x]
    BY <1>4 DEF ServeEnds
  <2> HIDE DEF x
  <2> QED BY <2>1, <2>2, ThreadSet
<1> QED BY <1>2, <1>3, <1>4

LEMMA TypeStep ==
  ASSUME TypeOK, PoolOK, ListenersOK, [Next]_vars
  PROVE  TypeOK'
<1>0. /\ \A t \in IoThreads : t \in Threads
      /\ (UNCHANGED th) \/ Typed => th' \in [Threads -> ThreadStates]
  BY DEF Threads, Typed, TypeOK, ThreadStates
<1> USE DEF TypeOK
<1>1. ASSUME Start \/ (\E l \in Listeners : StartFails(l)) \/ StopBegin PROVE TypeOK'
  <2>1. StopBegin => th' \in [Threads -> ThreadStates]
    BY OtherMoves, <1>0 DEF Goes
  <2> QED BY <1>1, <2>1 DEF Start, StartFails, StopBegin, ThreadStates
<1>2. ASSUME NEW t \in IoThreads, TakeStep(t) PROVE TypeOK'
  <2>1. th' \in [Threads -> ThreadStates]
    BY <1>0, <1>2, OtherMoves DEF TakeStep, TakeAborted
  <2> QED BY <1>2, <2>1 DEF TakeStep, TakeAccept, TakeAborted, ServeEnds, ThreadStates
<1>3. ASSUME NEW t \in IoThreads, AcceptStep(t) PROVE TypeOK'
  <2>1. /\ th[t].at = "rearm" => th[t].l \in Listeners
        /\ th[t].at = "wrap" => th[t].c \in Contexts
        /\ th[t].sock \in Sockets
    BY <1>0 DEF ListenersOK, PoolOK, ThreadsOK
  <2>2. th' \in [Threads -> ThreadStates]
    BY <1>0, <1>3, Moves DEF AcceptStep, UseStackGone, Goes, Takes, Rests
  <2>3. CASE Rearm(t)
    BY <2>1, <2>2, <2>3 DEF Rearm, ThreadStates
  <2>4. CASE PopContext(t) \/ PopFails(t) \/ Recheck(t) \/ UseStackGone(t)
    BY <2>2, <2>4 DEF PopContext, PopFails, Recheck, UseStackGone, ThreadStates
  <2>5. CASE Wrap(t) \/ WrapFails(t) \/ ResumeContext(t)
    BY <2>1, <2>2, <2>5 DEF Wrap, WrapFails, ResumeContext, ThreadStates
  <2> QED BY <1>3, <2>3, <2>4, <2>5 DEF AcceptStep
<1>4. ASSUME NEW t \in IoThreads, CoroStep(t) PROVE TypeOK'
  <2>1. th' \in [Threads -> ThreadStates]
    BY <1>0, <1>4, Moves DEF CoroStep, Goes, Rests
  <2>2. th[t].at \in {"log", "ready", "suspend"} => th[t].c \in Contexts
    BY <1>0 DEF PoolOK, ThreadsOK
  <2> QED BY <1>4, <2>1, <2>2
          DEF CoroStep, ResetSocket, ContextDies, OnReady, Suspend, ThreadStates, Sockets
<1>5. ASSUME StopStep PROVE TypeOK'
  <2>1. ClearContexts => th' \in [Threads -> ThreadStates]
    BY <1>0, OtherMoves DEF Rests
  <2>2. CASE \E l \in Listeners : CloseAcceptor(l)
    <3>1. \A l \in Listeners : Uncaught(l) \subseteq {"chain", "handler"}
      BY DEF Uncaught
    <3> QED BY <2>2, <3>1 DEF CloseAcceptor
  <2>3. CASE BeginDrain
    BY <2>3 DEF BeginDrain
  <2>4. CASE StopPop
    BY <2>4 DEF StopPop
  <2>5. CASE InterruptAll
    BY <2>5 DEF InterruptAll
  <2>6. CASE ResetAcceptors
    BY <2>6 DEF ResetAcceptors
  <2>7. CASE ClearContexts
    BY <2>1, <2>7 DEF ClearContexts, ThreadStates, Sockets
  <2> QED BY <1>5, <2>2, <2>3, <2>4, <2>5, <2>6, <2>7 DEF StopStep
<1>6. ASSUME NEW l \in Listeners, AcceptCompletes(l) PROVE TypeOK'
  BY <1>6 DEF AcceptCompletes
<1>7. ASSUME NEW c \in Contexts, PeerResets(c) \/ CancelLost(c) \/ PeerMoves(c)
      PROVE  TypeOK'
  BY <1>7 DEF PeerResets, CancelLost, PeerMoves, Sockets
<1>8. CASE UNCHANGED vars
  BY <1>8 DEF vars
<1> QED BY <1>1, <1>2, <1>3, <1>4, <1>5, <1>6, <1>7, <1>8 DEF Next, WorldStep, Terminated

-----------------------------------------------------------------------------
(* The pool *)

\* Thread u has context c in hand.
Holds(u, c) == th[u].at \in {"wrap", "resume", "log", "ready", "suspend"} /\ th[u].c = c

\* A step leaves thread u alone as far as c can tell.
Unheld(u, c) == \/ th'[u].at = th[u].at /\ th'[u].c = th[u].c
                \/ ~Holds(u, c) /\ ~Holds(u, c)'

\* The call of c's connection loses its cancel(), or what it waits for arrives.
Connected(x) == x \in {"serving", "hung"}

Same(c) == ctx'[c] = ctx[c] \/ (Connected(ctx[c]) /\ Connected(ctx'[c]))

\* A step that does not touch c or a thread that holds it keeps c right.
LEMMA Untouched ==
  ASSUME NEW c \in Contexts, ContextOK(c), Started' => Started,
         c \in stack' <=> c \in stack, c \in drained' <=> c \in drained,
         Same(c), conn'[c] = "none" <=> conn[c] = "none",
         \A u \in Threads : Unheld(u, c)
  PROVE  ContextOK(c)'
<1>1. \A u \in Threads : /\ Owns(u, c)' <=> Owns(u, c)
                         /\ Runs(u, c)' <=> Runs(u, c)
                         /\ Owns(u, c) \/ Runs(u, c) => th'[u].at = th[u].at
  BY DEF Unheld, Holds, Owns, Runs
<1>2. OwnerOK(c)' /\ RunnerOK(c)'
  BY <1>1 DEF ContextOK, OwnerOK, RunnerOK, Same, Connected
<1>3. FreeOK(c)' /\ Placed(c)'
  BY <1>1 DEF ContextOK, FreeOK, Placed, Same, Connected
<1>4. SocketOK(c)'
  BY <1>1 DEF ContextOK, SocketOK, Same, Connected
<1> QED BY <1>2, <1>3, <1>4 DEF ContextOK

\* What all the threads but t, and the contexts but c, may count on.
LEMMA OthersOK ==
  ASSUME TypeOK, PoolOK, NEW t \in Threads, NEW c, Others(t),
         Holds(t, c) \/ \A d \in Contexts : ~Holds(t, d),
         th'[t].at \in {"wrap", "resume", "log", "ready", "suspend"} => th'[t].c = c,
         Started' => Started,
         \A d \in Contexts \ {c} : /\ d \in stack' <=> d \in stack
                                   /\ d \in drained' <=> d \in drained
                                   /\ ctx'[d] = ctx[d]
                                   /\ conn'[d] = "none" <=> conn[d] = "none"
  PROVE  \A d \in Contexts \ {c} : ContextOK(d)'
<1>1. ASSUME NEW d \in Contexts \ {c} PROVE \A u \in Threads : Unheld(u, d)
  <2>1. ~Holds(t, d) /\ ~Holds(t, d)'
    BY DEF Holds
  <2> QED BY <2>1 DEF Others, Unheld
<1>2. \A d \in Contexts \ {c} : ContextOK(d) /\ Same(d)
  BY DEF PoolOK, Same
<1> QED BY <1>1, <1>2, Untouched

\* The parts of PoolOK that a step of a thread at work keeps without further ado.
LEMMA RestOK ==
  ASSUME TypeOK, PoolOK, NEW t \in Threads, Others(t),
         th[t].at # "idle" \/ \E d \in Contexts : ctx[d] = "serving",
         th'[t].at \in {"wrap", "resume", "log", "ready", "suspend"} => th'[t].c \in Contexts,
         th'[t].at \in {"rearm", "pop", "recheck", "wrap", "resume"} => th'[t].sock # "none",
         UNCHANGED <<phase, count, drained>>
  PROVE  ThreadsOK' /\ Fresh' /\ StopCountsEach'
<1>1. phase \notin {"idle", "failed"}
  BY IdleType DEF PoolOK, Fresh
<1>2. ThreadsOK'
  BY DEF PoolOK, ThreadsOK, Others
<1>3. Fresh' /\ StopCountsEach'
  BY <1>1 DEF PoolOK, Fresh, StopCountsEach
<1> QED BY <1>2, <1>3

LEMMA PopContextPool ==
  ASSUME TypeOK, PoolOK, NEW t \in Threads, PopContext(t)
  PROVE  PoolOK'
<1>1. PICK c \in stack : Takes(t, "wrap", c) /\ stack' = stack \ {c}
  BY Moves
<1>2. /\ c \in Contexts /\ th[t].at = "pop"
      /\ UNCHANGED <<phase, ctx, conn, drained, count>>
      /\ th'[t].at = "wrap" /\ th'[t].c = c /\ Others(t)
  BY <1>1 DEF PopContext, TypeOK, Takes
<1>3. ThreadsOK' /\ Fresh' /\ StopCountsEach'
  BY <1>1, <1>2, RestOK DEF Takes, PoolOK, ThreadsOK
<1>4. \A d \in Contexts \ {c} : ContextOK(d)'
  BY <1>1, <1>2, OthersOK DEF Holds, Started
<1>5. /\ \A u \in Threads : ~Owns(u, c) /\ (Owns(u, c)' <=> u = t)
      /\ \A u \in Threads : /\ Runs(u, c)' <=> Runs(u, c)
                            /\ Runs(u, c) => th'[u].at = th[u].at
  BY <1>1, <1>2 DEF PoolOK, ContextOK, OwnerOK, Owns, Runs, Others
<1>6. c \notin drained /\ ctx[c] \in {"parked", "active"} /\ conn[c] = "none"
  BY <1>1, <1>2, <1>5 DEF PoolOK, ContextOK, FreeOK, SocketOK
<1>7. ContextOK(c)'
  BY <1>1, <1>2, <1>5, <1>6 DEF PoolOK, ContextOK, OwnerOK, RunnerOK, FreeOK, Placed, SocketOK
<1> QED BY <1>3, <1>4, <1>7 DEF PoolOK

LEMMA WrapPool ==
  ASSUME TypeOK, PoolOK, NEW t \in Threads, Wrap(t)
  PROVE  PoolOK'
<1>0. PICK c : th[t].c = c
  OBVIOUS
<1>1. /\ c \in Contexts /\ th[t].at = "wrap" /\ Others(t)
      /\ th'[t].at = "resume" /\ th'[t].c = c /\ th'[t].sock = th[t].sock
      /\ UNCHANGED <<phase, drained, count>>
  BY <1>0, Moves DEF Wrap, PoolOK, ThreadsOK, Goes, Rests
<1>2. UNCHANGED <<stack, ctx>> /\ conn' = [conn EXCEPT ![c] = th[t].sock] /\ conn'[c] # "none"
  BY <1>1, <1>0 DEF Wrap, TypeOK, PoolOK, ThreadsOK
<1>3. ThreadsOK' /\ Fresh' /\ StopCountsEach'
  BY <1>1, <1>0, RestOK, IdleType DEF PoolOK, ThreadsOK
<1>4. \A d \in Contexts \ {c} : ContextOK(d)'
  BY <1>1, <1>2, <1>0, OthersOK, IdleType DEF Holds, Started
<1>5. \A u \in Threads : (Owns(u, c) <=> u = t) /\ (Owns(u, c)' <=> u = t)
  BY <1>1, <1>2, <1>0, IdleType DEF PoolOK, ContextOK, OwnerOK, Owns, Others
<1>6. \A u \in Threads : /\ Runs(u, c)' <=> Runs(u, c)
                         /\ Runs(u, c) => th'[u].at = th[u].at
  BY <1>1, <1>2, <1>0, IdleType DEF PoolOK, ContextOK, RunnerOK, Owns, Runs, Others
<1>7. c \notin stack /\ c \notin drained /\ ctx[c] \in {"parked", "active"}
  BY <1>1, <1>2, <1>0, <1>5, <1>6 DEF PoolOK, ContextOK, OwnerOK, RunnerOK, FreeOK, SocketOK, Owns, Runs
<1>8. ContextOK(c)'
  BY <1>1, <1>2, <1>0, <1>5, <1>6, <1>7 DEF PoolOK, ContextOK, OwnerOK, RunnerOK, FreeOK, Placed, SocketOK
<1> QED BY <1>1, <1>3, <1>4, <1>8 DEF PoolOK

LEMMA WrapFailsPool ==
  ASSUME TypeOK, PoolOK, NEW t \in Threads, WrapFails(t)
  PROVE  PoolOK'
<1>0. PICK c : th[t].c = c
  OBVIOUS
<1>1. /\ c \in Contexts /\ th[t].at = "wrap" /\ Others(t)
      /\ th'[t] = Idle
      /\ UNCHANGED <<phase, drained, count>>
  BY <1>0, Moves DEF WrapFails, PoolOK, ThreadsOK, Goes, Rests
<1>2. UNCHANGED <<ctx, conn>> /\ stack' = stack \cup {c}
  BY <1>1, <1>0 DEF WrapFails, TypeOK
<1>3. ThreadsOK' /\ Fresh' /\ StopCountsEach'
  BY <1>1, <1>0, RestOK, IdleType DEF PoolOK, ThreadsOK
<1>4. \A d \in Contexts \ {c} : ContextOK(d)'
  BY <1>1, <1>2, <1>0, OthersOK, IdleType DEF Holds, Started
<1>5. \A u \in Threads : (Owns(u, c) <=> u = t) /\ ~Owns(u, c)'
  BY <1>1, <1>2, <1>0, IdleType DEF PoolOK, ContextOK, OwnerOK, Owns, Others
<1>6. \A u \in Threads : /\ Runs(u, c)' <=> Runs(u, c)
                         /\ Runs(u, c) => th'[u].at = th[u].at
  BY <1>1, <1>2, <1>0, IdleType DEF PoolOK, ContextOK, RunnerOK, Owns, Runs, Others
<1>7. c \notin drained /\ ctx[c] \in {"parked", "active"} /\ conn[c] = "none"
  BY <1>1, <1>2, <1>0, <1>5, <1>6 DEF PoolOK, ContextOK, OwnerOK, RunnerOK, FreeOK, SocketOK, Owns, Runs
<1>8. ContextOK(c)'
  BY <1>1, <1>2, <1>0, <1>5, <1>6, <1>7 DEF PoolOK, ContextOK, OwnerOK, RunnerOK, FreeOK, Placed, SocketOK
<1> QED BY <1>1, <1>3, <1>4, <1>8 DEF PoolOK

LEMMA ResumeContextPool ==
  ASSUME TypeOK, PoolOK, NEW t \in Threads, ResumeContext(t)
  PROVE  PoolOK'
<1>0. PICK c : th[t].c = c
  OBVIOUS
<1>1. /\ c \in Contexts /\ th[t].at = "resume" /\ Others(t)
      /\ th'[t] = Idle
      /\ UNCHANGED <<phase, drained, count>>
  BY <1>0, Moves DEF ResumeContext, PoolOK, ThreadsOK, Goes, Rests
<1>2. UNCHANGED <<stack, conn>> /\ ctx[c] = "parked" /\ ctx' = [ctx EXCEPT ![c] = "serving"]
      /\ ctx'[c] = "serving"
  BY <1>1, <1>0 DEF ResumeContext, TypeOK
<1>3. ThreadsOK' /\ Fresh' /\ StopCountsEach'
  BY <1>1, <1>0, RestOK, IdleType DEF PoolOK, ThreadsOK
<1>4. \A d \in Contexts \ {c} : ContextOK(d)'
  BY <1>1, <1>2, <1>0, OthersOK, IdleType DEF Holds, Started
<1>5. \A u \in Threads : (Owns(u, c) <=> u = t) /\ ~Owns(u, c)'
  BY <1>1, <1>2, <1>0, IdleType DEF PoolOK, ContextOK, OwnerOK, Owns, Others
<1>6. \A u \in Threads : ~Runs(u, c) /\ ~Runs(u, c)'
  BY <1>1, <1>2, <1>0, IdleType DEF PoolOK, ContextOK, RunnerOK, Owns, Runs, Others
<1>7. c \notin stack /\ c \notin drained /\ conn[c] # "none"
  BY <1>1, <1>2, <1>0, <1>5, <1>6 DEF PoolOK, ContextOK, OwnerOK, RunnerOK, FreeOK, SocketOK, Owns, Runs
<1>8. ContextOK(c)'
  BY <1>1, <1>2, <1>0, <1>5, <1>6, <1>7 DEF PoolOK, ContextOK, OwnerOK, RunnerOK, FreeOK, Placed, SocketOK
<1> QED BY <1>1, <1>3, <1>4, <1>8 DEF PoolOK

LEMMA ResetSocketPool ==
  ASSUME TypeOK, PoolOK, NEW t \in Threads, ResetSocket(t)
  PROVE  PoolOK'
<1>0. PICK c : th[t].c = c
  OBVIOUS
<1>1. /\ c \in Contexts /\ th[t].at = "log" /\ Others(t)
      /\ th'[t].at = "ready" /\ th'[t].c = c /\ th'[t].sock = th[t].sock
      /\ UNCHANGED <<phase, drained, count>>
  BY <1>0, Moves DEF ResetSocket, PoolOK, ThreadsOK, Goes, Rests
<1>2. UNCHANGED <<stack, ctx>> /\ conn' = [conn EXCEPT ![c] = "none"] /\ conn'[c] = "none"
  BY <1>1, <1>0 DEF ResetSocket, TypeOK
<1>3. ThreadsOK' /\ Fresh' /\ StopCountsEach'
  BY <1>1, <1>0, RestOK, IdleType DEF PoolOK, ThreadsOK
<1>4. \A d \in Contexts \ {c} : ContextOK(d)'
  BY <1>1, <1>2, <1>0, OthersOK, IdleType DEF Holds, Started
<1>5. \A u \in Threads : (Owns(u, c) <=> u = t) /\ (Owns(u, c)' <=> u = t)
  BY <1>1, <1>2, <1>0, IdleType DEF PoolOK, ContextOK, OwnerOK, Owns, Others
<1>6. \A u \in Threads : (Runs(u, c) <=> u = t) /\ (Runs(u, c)' <=> u = t)
  BY <1>1, <1>2, <1>0, IdleType DEF PoolOK, ContextOK, RunnerOK, Owns, Runs, Others
<1>7. c \notin stack /\ c \notin drained /\ ctx[c] = "active"
  BY <1>1, <1>2, <1>0, <1>5, <1>6 DEF PoolOK, ContextOK, OwnerOK, RunnerOK, FreeOK, SocketOK, Owns, Runs
<1>8. ContextOK(c)'
  BY <1>1, <1>2, <1>0, <1>5, <1>6, <1>7 DEF PoolOK, ContextOK, OwnerOK, RunnerOK, FreeOK, Placed, SocketOK
<1> QED BY <1>1, <1>3, <1>4, <1>8 DEF PoolOK

LEMMA ContextDiesPool ==
  ASSUME TypeOK, PoolOK, NEW t \in Threads, ContextDies(t)
  PROVE  PoolOK'
<1>0. PICK c : th[t].c = c
  OBVIOUS
<1>1. /\ c \in Contexts /\ th[t].at = "log" /\ Others(t)
      /\ th'[t] = Idle
      /\ UNCHANGED <<phase, drained, count>>
  BY <1>0, Moves DEF ContextDies, PoolOK, ThreadsOK, Goes, Rests
<1>2. UNCHANGED <<stack, conn>> /\ ctx' = [ctx EXCEPT ![c] = "dead"] /\ ctx'[c] = "dead"
  BY <1>1, <1>0 DEF ContextDies, TypeOK
<1>3. ThreadsOK' /\ Fresh' /\ StopCountsEach'
  BY <1>1, <1>0, RestOK, IdleType DEF PoolOK, ThreadsOK
<1>4. \A d \in Contexts \ {c} : ContextOK(d)'
  BY <1>1, <1>2, <1>0, OthersOK, IdleType DEF Holds, Started
<1>5. \A u \in Threads : (Owns(u, c) <=> u = t) /\ ~Owns(u, c)'
  BY <1>1, <1>2, <1>0, IdleType DEF PoolOK, ContextOK, OwnerOK, Owns, Others
<1>6. \A u \in Threads : (Runs(u, c) <=> u = t) /\ ~Runs(u, c)'
  BY <1>1, <1>2, <1>0, IdleType DEF PoolOK, ContextOK, RunnerOK, Owns, Runs, Others
<1>7. c \notin stack /\ c \notin drained
  BY <1>1, <1>2, <1>0, <1>5, <1>6 DEF PoolOK, ContextOK, OwnerOK, RunnerOK, FreeOK, SocketOK, Owns, Runs
<1>8. ContextOK(c)'
  BY <1>1, <1>2, <1>0, <1>5, <1>6, <1>7 DEF PoolOK, ContextOK, OwnerOK, RunnerOK, FreeOK, Placed, SocketOK
<1> QED BY <1>1, <1>3, <1>4, <1>8 DEF PoolOK

LEMMA OnReadyPool ==
  ASSUME TypeOK, PoolOK, NEW t \in Threads, OnReady(t)
  PROVE  PoolOK'
<1>0. PICK c : th[t].c = c
  OBVIOUS
<1>1. /\ c \in Contexts /\ th[t].at = "ready" /\ Others(t)
      /\ th'[t].at = "suspend" /\ th'[t].c = c /\ th'[t].sock = th[t].sock
      /\ UNCHANGED <<phase, drained, count>>
  BY <1>0, Moves DEF OnReady, PoolOK, ThreadsOK, Goes, Rests
<1>2. UNCHANGED <<ctx, conn>> /\ stack' = stack \cup {c}
  BY <1>1, <1>0 DEF OnReady, TypeOK
<1>3. ThreadsOK' /\ Fresh' /\ StopCountsEach'
  BY <1>1, <1>0, RestOK, IdleType DEF PoolOK, ThreadsOK
<1>4. \A d \in Contexts \ {c} : ContextOK(d)'
  BY <1>1, <1>2, <1>0, OthersOK, IdleType DEF Holds, Started
<1>5. \A u \in Threads : (Owns(u, c) <=> u = t) /\ ~Owns(u, c)'
  BY <1>1, <1>2, <1>0, IdleType DEF PoolOK, ContextOK, OwnerOK, Owns, Others
<1>6. \A u \in Threads : (Runs(u, c) <=> u = t) /\ (Runs(u, c)' <=> u = t)
  BY <1>1, <1>2, <1>0, IdleType DEF PoolOK, ContextOK, RunnerOK, Owns, Runs, Others
<1>7. c \notin drained /\ ctx[c] = "active" /\ conn[c] = "none"
  BY <1>1, <1>2, <1>0, <1>5, <1>6 DEF PoolOK, ContextOK, OwnerOK, RunnerOK, FreeOK, SocketOK, Owns, Runs
<1>8. ContextOK(c)'
  BY <1>1, <1>2, <1>0, <1>5, <1>6, <1>7 DEF PoolOK, ContextOK, OwnerOK, RunnerOK, FreeOK, Placed, SocketOK
<1> QED BY <1>1, <1>3, <1>4, <1>8 DEF PoolOK

LEMMA SuspendPool ==
  ASSUME TypeOK, PoolOK, NEW t \in Threads, Suspend(t), Rests(t)
  PROVE  PoolOK'
<1>0. PICK c : th[t].c = c
  OBVIOUS
<1>1. /\ c \in Contexts /\ th[t].at = "suspend" /\ Others(t) /\ th'[t] = Idle /\ Idle.at = "idle"
      /\ UNCHANGED <<phase, drained, count, stack, conn>>
  BY <1>0, IdleType DEF Suspend, PoolOK, ThreadsOK, Rests
<1>2. ctx[c] # "gone" /\ ctx' = [ctx EXCEPT ![c] = "parked"]
  BY <1>0, <1>1 DEF Suspend
<1>3. ThreadsOK' /\ Fresh' /\ StopCountsEach'
  BY <1>1, RestOK
<1>4. \A d \in Contexts \ {c} : ContextOK(d)'
  BY <1>0, <1>1, <1>2, OthersOK DEF Holds, Started
<1>5. \A u \in Threads : (Runs(u, c) <=> u = t) /\ ~Runs(u, c)'
  BY <1>0, <1>1 DEF PoolOK, ContextOK, RunnerOK, Runs, Others
<1>6. \A u \in Threads : /\ Owns(u, c)' <=> Owns(u, c)
                         /\ Owns(u, c) => th'[u].at = th[u].at
  BY <1>0, <1>1 DEF Owns, Others
<1>7. ctx[c] = "active" /\ ctx'[c] = "parked"
  BY <1>1, <1>2, <1>5 DEF TypeOK, PoolOK, ContextOK, RunnerOK
<1>8. ContextOK(c)'
  BY <1>1, <1>5, <1>6, <1>7 DEF PoolOK, ContextOK, OwnerOK, RunnerOK, FreeOK, Placed, SocketOK, Started
<1> QED BY <1>1, <1>3, <1>4, <1>8 DEF PoolOK

LEMMA ServeEndsPool ==
  ASSUME TypeOK, PoolOK, NEW t \in Threads, NEW c \in Contexts, ServeEnds(t, c)
  PROVE  PoolOK'
<1>1. /\ th[t] = Idle /\ Idle.at = "idle" /\ ctx[c] = "serving" /\ ctx'[c] = "active"
      /\ ctx' = [ctx EXCEPT ![c] = "active"]
      /\ th'[t].at = "log" /\ th'[t].c = c /\ Others(t)
      /\ UNCHANGED <<phase, stack, conn, count, drained>>
  BY IdleType, OtherMoves DEF ServeEnds, TypeOK
<1>2. ThreadsOK' /\ Fresh' /\ StopCountsEach'
  BY <1>1, RestOK
<1>3. \A d \in Contexts \ {c} : ContextOK(d)'
  BY <1>1, OthersOK DEF Holds, Started
<1>4. \A u \in Threads : ~Owns(u, c) /\ ~Runs(u, c)
  BY <1>1 DEF PoolOK, ContextOK, OwnerOK, RunnerOK
<1>5. \A u \in Threads : (Owns(u, c)' <=> u = t) /\ (Runs(u, c)' <=> u = t)
  BY <1>1, <1>4 DEF Owns, Runs, Others
<1>6. c \notin stack /\ c \notin drained /\ conn[c] # "none"
  BY <1>1 DEF PoolOK, ContextOK, FreeOK, SocketOK
<1>7. ContextOK(c)'
  BY <1>1, <1>5, <1>6 DEF ContextOK, OwnerOK, RunnerOK, FreeOK, Placed, SocketOK, Owns, Runs
<1> QED BY <1>2, <1>3, <1>7 DEF PoolOK

\* stop() pops a context that nobody owns and it has not popped before.
LEMMA StopPopPool ==
  ASSUME TypeOK, PoolOK, StopPop
  PROVE  PoolOK'
<1>1. PICK c \in stack : stack' = stack \ {c} /\ drained' = drained \cup {c}
  BY DEF StopPop
<1>2. /\ c \in Contexts /\ phase = "draining" /\ count' = count + 1
      /\ UNCHANGED <<phase, ctx, conn, th>>
  BY DEF StopPop, TypeOK
<1>3. c \notin drained /\ IsFiniteSet(drained) /\ Cardinality(drained \cup {c}) = Cardinality(drained) + 1
  BY <1>1, <1>2, FS_Subset, FS_AddElement, ServerAssumption DEF TypeOK, PoolOK, ContextOK, FreeOK
<1>4. ThreadsOK' /\ Fresh' /\ StopCountsEach'
  BY <1>1, <1>2, <1>3 DEF PoolOK, ThreadsOK, Fresh, StopCountsEach
<1>5. ASSUME NEW d \in Contexts PROVE ContextOK(d)'
  <2>1. CASE d # c
    <3>1. \A u \in Threads : Unheld(u, d)
      BY <1>2 DEF Unheld
    <3> QED BY <1>1, <1>2, <2>1, <3>1, Untouched DEF PoolOK, Started, Same
  <2>2. CASE d = c
    <3>1. \A u \in Threads : /\ ~Owns(u, c) /\ ~Owns(u, c)'
                             /\ Runs(u, c)' <=> Runs(u, c)
                             /\ th'[u] = th[u]
      BY <1>1, <1>2 DEF PoolOK, ContextOK, OwnerOK, Owns, Runs
    <3> QED BY <1>1, <1>2, <2>2, <3>1
            DEF PoolOK, ContextOK, OwnerOK, RunnerOK, FreeOK, Placed, SocketOK
  <2> QED BY <2>1, <2>2
<1> QED BY <1>4, <1>5 DEF PoolOK

\* By then stop() has popped every context, so no handler owns one.
LEMMA ClearPool ==
  ASSUME TypeOK, PoolOK, ClearContexts
  PROVE  PoolOK'
<1>1. /\ drained = Contexts /\ Rests(Stopper) /\ Idle.at = "idle" /\ Stopper \in Threads
      /\ stack' = {} /\ phase' = "stopped"
      /\ UNCHANGED <<drained, count>>
      /\ \A c \in Contexts : ctx'[c] = "gone" /\ conn'[c] = "none"
  BY OtherMoves, IdleType DEF ClearContexts, PoolOK, StopCountsEach, Threads
<1>2. \A u \in Threads : th'[u] = th[u] \/ th'[u] = Idle
  BY <1>1 DEF Rests, Others
<1>3. \A u \in Threads, c \in Contexts : ~Owns(u, c) /\ ~Owns(u, c)'
  BY <1>1, <1>2 DEF PoolOK, ContextOK, OwnerOK, Owns
<1>4. \A u \in Threads, c \in Contexts : Runs(u, c)' => Runs(u, c) /\ th'[u].at = "suspend"
  BY <1>1, <1>2, <1>3 DEF Runs, Owns
<1>5. ThreadsOK' /\ Fresh' /\ StopCountsEach'
  BY <1>1, <1>2 DEF PoolOK, ThreadsOK, Fresh, StopCountsEach
<1>6. ASSUME NEW c \in Contexts PROVE ContextOK(c)'
  BY <1>1, <1>3, <1>4
  DEF PoolOK, ContextOK, OwnerOK, RunnerOK, FreeOK, Placed, SocketOK, Started
<1> QED BY <1>5, <1>6 DEF PoolOK

LEMMA StartPool ==
  ASSUME TypeOK, PoolOK, Start
  PROVE  PoolOK'
<1>1. /\ stack' = Contexts /\ drained = {} /\ phase' = "running"
      /\ UNCHANGED <<conn, th, count, drained>>
      /\ \A c \in Contexts : ctx'[c] = "parked" /\ conn[c] = "none"
      /\ \A u \in Threads : th[u] = Idle /\ Idle.at = "idle"
  BY IdleType DEF Start, PoolOK, Fresh
<1>2. \A u \in Threads, c \in Contexts : ~Owns(u, c)' /\ ~Runs(u, c)'
  BY <1>1 DEF Owns, Runs
<1>3. ThreadsOK' /\ Fresh' /\ StopCountsEach'
  BY <1>1 DEF PoolOK, ThreadsOK, Fresh, StopCountsEach
<1>4. ASSUME NEW c \in Contexts PROVE ContextOK(c)'
  BY <1>1, <1>2 DEF ContextOK, OwnerOK, RunnerOK, FreeOK, Placed, SocketOK
<1> QED BY <1>3, <1>4 DEF PoolOK

\* A step that moves no context: no thread takes one or gives one back.
LEMMA QuietPool ==
  ASSUME TypeOK, PoolOK, ThreadsOK', Fresh', StopCountsEach', Started' => Started,
         UNCHANGED <<stack, drained>>, \A c \in Contexts : Same(c),
         \A c \in Contexts : conn'[c] = "none" <=> conn[c] = "none",
         \A u \in Threads : \/ th'[u] = th[u]
                            \/ /\ th[u].at \in {"idle", "rearm", "pop", "recheck", "stop"}
                               /\ th'[u].at \in {"idle", "rearm", "pop", "recheck", "stop"}
  PROVE  PoolOK'
<1>1. ASSUME NEW c \in Contexts PROVE ContextOK(c)'
  <2>1. \A u \in Threads : Unheld(u, c)
    BY DEF Unheld, Holds
  <2> QED BY <2>1, Untouched DEF PoolOK
<1> QED BY <1>1 DEF PoolOK

LEMMA PoolStep ==
  ASSUME TypeOK, PoolOK, [Next]_vars
  PROVE  PoolOK'
<1>0. (\A t \in IoThreads : t \in Threads) /\ Stopper \in Threads /\ Idle.at = "idle"
  BY IdleType DEF Threads
<1>1. ASSUME NEW l \in Listeners, StartFails(l) PROVE PoolOK'
  <2>1. /\ phase = "idle" /\ phase' \in {"idle", "failed"}
        /\ UNCHANGED <<stack, ctx, conn, th, count, drained, acceptOp>>
    BY <1>1 DEF StartFails
  <2>2. ThreadsOK' /\ Fresh' /\ StopCountsEach'
    BY <2>1 DEF PoolOK, ThreadsOK, Fresh, StopCountsEach
  <2> QED BY <2>1, <2>2, QuietPool DEF Started, Same
<1>2. ASSUME StopBegin PROVE PoolOK'
  <2>1. /\ Goes(Stopper, "stop") /\ th[Stopper] = Idle
        /\ phase = "running" /\ phase' = "closing"
        /\ UNCHANGED <<stack, ctx, conn, count, drained>>
    BY <1>2, OtherMoves DEF StopBegin
  <2>2. ThreadsOK' /\ Fresh' /\ StopCountsEach'
    BY <1>0, <2>1 DEF PoolOK, ThreadsOK, Fresh, StopCountsEach, Goes, Others
  <2>3. \A u \in Threads : th'[u] = th[u] \/ (th[u].at = "idle" /\ th'[u].at = "stop")
    BY <1>0, <2>1 DEF Goes, Others
  <2> QED BY <2>1, <2>2, <2>3, QuietPool DEF Started, Same
<1>3. ASSUME NEW t \in IoThreads, NEW l \in Listeners, TakeAccept(t, l) \/ TakeAborted(t, l)
      PROVE  PoolOK'
  <2>1. /\ th[t].at = "idle" /\ Others(t) /\ acceptOp[l] # "none"
        /\ (th'[t].at = "rearm" /\ th'[t].sock # "none") \/ th'[t] = th[t]
        /\ UNCHANGED <<phase, stack, ctx, conn, count, drained>>
    BY <1>0, <1>3, OtherMoves DEF TakeAccept, TakeAborted, Others
  <2>2. ThreadsOK' /\ Fresh' /\ StopCountsEach'
    BY <1>0, <2>1 DEF PoolOK, ThreadsOK, Fresh, StopCountsEach, Others
  <2>3. \A u \in Threads : th'[u] = th[u] \/ (th[u].at = "idle" /\ th'[u].at = "rearm")
    BY <1>0, <2>1 DEF Others
  <2> QED BY <2>1, <2>2, <2>3, QuietPool DEF Started, Same
<1>4. ASSUME NEW t \in IoThreads, Rearm(t) \/ PopFails(t) \/ Recheck(t) PROVE PoolOK'
  <2>1. /\ th[t].at \in {"rearm", "pop", "recheck"} /\ Others(t)
        /\ \/ th'[t] = Idle
           \/ th'[t].at \in {"pop", "recheck"} /\ th'[t].sock = th[t].sock
        /\ UNCHANGED <<phase, stack, ctx, conn, count, drained>>
    BY <1>0, <1>4, Moves DEF Rearm, PopFails, Recheck, Goes, Rests
  <2>2. ThreadsOK' /\ Fresh' /\ StopCountsEach'
    BY <1>0, <2>1, RestOK DEF PoolOK, ThreadsOK
  <2>3. \A u \in Threads : th'[u] = th[u] \/
          (u = t /\ th[u].at \in {"rearm", "pop", "recheck"} /\ th'[u].at \in {"idle", "pop", "recheck"})
    BY <1>0, <2>1 DEF Others
  <2> QED BY <2>1, <2>2, <2>3, QuietPool DEF Started, Same
<1>5. ASSUME \/ UNCHANGED vars
             \/ \E l \in Listeners : CloseAcceptor(l) \/ AcceptCompletes(l)
             \/ \E c \in Contexts : PeerResets(c) \/ CancelLost(c) \/ PeerMoves(c)
             \/ \E t \in IoThreads : UseStackGone(t) \/ (Suspend(t) /\ UNCHANGED th /\ ub' # "none")
      PROVE  PoolOK'
  <2>1. /\ UNCHANGED <<phase, stack, th, count, drained>>
        /\ phase \in {"idle", "failed"} => UNCHANGED <<ctx, conn, acceptOp>>
    <3>1. \A l \in Listeners : AcceptCompletes(l) => phase \notin {"idle", "failed"}
      BY DEF AcceptCompletes, PoolOK, Fresh
    <3>2. \A c \in Contexts :
            PeerResets(c) \/ CancelLost(c) \/ PeerMoves(c) => phase \notin {"idle", "failed"}
      BY DEF PeerResets, CancelLost, PeerMoves, PoolOK, Fresh
    <3> QED BY <1>0, <1>5, <3>1, <3>2
            DEF vars, CloseAcceptor, AcceptCompletes, PeerResets, CancelLost, PeerMoves,
                UseStackGone, Suspend, PoolOK, Fresh
  <2>2. \A c \in Contexts : Same(c) /\ (conn'[c] = "none" <=> conn[c] = "none")
    BY <1>0, <1>5, <2>1
    DEF vars, CloseAcceptor, AcceptCompletes, PeerResets, CancelLost, PeerMoves, UseStackGone,
        Suspend, TypeOK, PoolOK, Fresh, Same, Connected
  <2>3. ThreadsOK' /\ Fresh' /\ StopCountsEach'
    BY <2>1 DEF PoolOK, ThreadsOK, Fresh, StopCountsEach
  <2> QED BY <2>1, <2>2, <2>3, QuietPool DEF Started, Same
<1>6. ASSUME BeginDrain \/ InterruptAll \/ ResetAcceptors PROVE PoolOK'
  <2>1. /\ UNCHANGED <<stack, ctx, conn, th, count, drained>>
        /\ phase \in {"closing", "draining", "resetting"}
        /\ phase' \in {"draining", "resetting", "clearing"}
        /\ phase' \in {"resetting", "clearing"} =>
             phase = "resetting" \/ count = Cardinality(Contexts)
    BY <1>6 DEF BeginDrain, InterruptAll, ResetAcceptors
  <2>2. count = Cardinality(Contexts) => drained = Contexts
    BY FS_Subset, ServerAssumption DEF PoolOK, StopCountsEach, TypeOK
  <2>3. ThreadsOK' /\ Fresh' /\ StopCountsEach'
    BY <2>1, <2>2 DEF PoolOK, ThreadsOK, Fresh, StopCountsEach
  <2> QED BY <2>1, <2>3, QuietPool DEF Started, Same
<1>7. ASSUME NEW t \in IoThreads, AcceptStep(t) PROVE PoolOK'
  BY <1>0, <1>4, <1>5, <1>7, PopContextPool, WrapPool, WrapFailsPool, ResumeContextPool
  DEF AcceptStep
<1>8. ASSUME NEW t \in IoThreads, CoroStep(t) PROVE PoolOK'
  BY <1>0, <1>5, <1>8, Moves, ResetSocketPool, ContextDiesPool, OnReadyPool, SuspendPool
  DEF CoroStep
<1>9. ASSUME NEW t \in IoThreads, TakeStep(t) PROVE PoolOK'
  BY <1>0, <1>3, <1>9, ServeEndsPool DEF TakeStep
<1>10. ASSUME StopStep PROVE PoolOK'
  BY <1>5, <1>6, <1>10, StopPopPool, ClearPool DEF StopStep
<1> QED BY <1>1, <1>2, <1>5, <1>7, <1>8, <1>9, <1>10, StartPool DEF Next, WorldStep, Terminated

-----------------------------------------------------------------------------
(* The acceptors *)

\* A step that no acceptor sees: no handler arrives, accepts again or finds its
\* acceptor or the stack destroyed.
LEMMA QuietAccept ==
  ASSUME AcceptOK, Started' => Started, ub' \in {ub, "context"}, Terminated \/ ub = "none",
         UNCHANGED <<acc, acceptOp, late>>,
         phase' \in {"draining", "resetting", "clearing", "stopped"} =>
           \/ phase \in {"draining", "resetting", "clearing", "stopped"}
           \/ \A l \in Listeners : acc[l] # "open",
         \A u \in Threads :
           \/ th'[u] = th[u]
           \/ /\ th[u].at # "rearm"
              /\ \/ th'[u].at \notin {"rearm", "pop", "recheck"}
                 \/ /\ th[u].at \in {"pop", "recheck"} /\ th'[u].at \in {"pop", "recheck"}
                    /\ th'[u].l = th[u].l
  PROVE  AcceptOK'
<1> USE DEF AcceptOK
<1>1. ListenersOK' /\ ClosedOK'
  BY DEF ListenersOK, ClosedOK
<1>2. LateOK'
  BY DEF LateOK
<1>3. AcceptChainAlive'
  BY DEF AcceptChainAlive, Terminated, vars
<1>4. StrayAcceptIsLate'
  BY DEF StrayAcceptIsLate
<1> QED BY <1>1, <1>2, <1>3, <1>4

LEMMA RearmAccept ==
  ASSUME TypeOK, AcceptOK, NEW t \in Threads, Rearm(t), ub = "none"
  PROVE  AcceptOK'
<1>0. PICK l \in Listeners : th[t].l = l
  BY DEF AcceptOK, ListenersOK, Rearm
<1>1. /\ th[t].at = "rearm" /\ th'[t].at = "pop" /\ th'[t].l = l /\ Others(t)
      /\ UNCHANGED <<phase, acc, late>>
  BY <1>0, Moves DEF Rearm, Goes
<1>2. /\ acc[l] = "open" => acceptOp'[l] = "pending"
      /\ acc[l] # "open" => acceptOp'[l] \in {"failed", acceptOp[l]} /\ "chain" \in late
      /\ \A k \in Listeners \ {l} : acceptOp'[k] = acceptOp[k]
      /\ ub' # "none" => ub' = "acceptor" /\ acc[l] # "open"
  BY <1>0, <1>1 DEF Rearm, TypeOK, AcceptOK, LateOK
<1>3. ListenersOK' /\ ClosedOK'
  BY <1>1, <1>2 DEF AcceptOK, ListenersOK, ClosedOK, Others
<1>4. LateOK'
  BY <1>0, <1>1, <1>2 DEF AcceptOK, LateOK, Others
<1>5. AcceptChainAlive'
  BY <1>0, <1>1, <1>2 DEF AcceptOK, AcceptChainAlive, Others, Started
<1>6. StrayAcceptIsLate'
  BY <1>1, <1>2 DEF AcceptOK, StrayAcceptIsLate
<1> QED BY <1>3, <1>4, <1>5, <1>6 DEF AcceptOK

LEMMA TakeAcceptOK ==
  ASSUME TypeOK, AcceptOK, NEW t \in Threads, NEW l \in Listeners, ub = "none",
         TakeAccept(t, l) \/ TakeAborted(t, l)
  PROVE  AcceptOK'
<1>1. /\ th[t].at = "idle" /\ Others(t)
      /\ \/ /\ acceptOp[l] \in {"accepted", "failed"}
            /\ th'[t].at = "rearm" /\ th'[t].l = l
         \/ acceptOp[l] = "aborted" /\ th'[t] = th[t]
      /\ acceptOp'[l] = "none" /\ \A k \in Listeners \ {l} : acceptOp'[k] = acceptOp[k]
      /\ UNCHANGED <<phase, acc, late, ub>>
  BY IdleType, OtherMoves DEF TakeAccept, TakeAborted, Others, TypeOK
<1>2. ListenersOK' /\ ClosedOK'
  BY <1>1 DEF AcceptOK, ListenersOK, ClosedOK, Others
<1>3. LateOK'
  BY <1>1 DEF AcceptOK, LateOK, Others
<1>4. AcceptChainAlive'
  BY <1>1 DEF AcceptOK, AcceptChainAlive, Others, Started
<1>5. StrayAcceptIsLate'
  BY <1>1 DEF AcceptOK, StrayAcceptIsLate
<1> QED BY <1>2, <1>3, <1>4, <1>5 DEF AcceptOK

\* close() records what it does not abort.
LEMMA CloseAccept ==
  ASSUME TypeOK, AcceptOK, NEW l \in Listeners, CloseAcceptor(l), ub = "none"
  PROVE  AcceptOK'
<1>1. /\ acc' = [acc EXCEPT ![l] = "closed"]
      /\ acceptOp'[l] = IF acceptOp[l] = "pending" THEN "aborted" ELSE acceptOp[l]
      /\ \A k \in Listeners \ {l} : acceptOp'[k] = acceptOp[k] /\ acc'[k] = acc[k]
      /\ acc'[l] = "closed" /\ late \subseteq late' /\ phase = "closing"
      /\ UNCHANGED <<phase, th, ub>>
  BY DEF CloseAcceptor, TypeOK
<1>2. /\ acceptOp[l] \in {"accepted", "failed"} => "chain" \in late'
      /\ \A t \in Threads : th[t].l = l =>
           /\ th[t].at = "rearm" => "chain" \in late'
           /\ th[t].at \in {"pop", "recheck"} => "handler" \in late'
  BY DEF CloseAcceptor, Uncaught
<1>3. ListenersOK' /\ ClosedOK'
  BY <1>1 DEF AcceptOK, ListenersOK, ClosedOK
<1>4. LateOK'
  BY <1>1, <1>2 DEF AcceptOK, LateOK
<1>5. AcceptChainAlive'
  BY <1>1 DEF AcceptOK, AcceptChainAlive, Started
<1>6. StrayAcceptIsLate'
  BY <1>1 DEF AcceptOK, StrayAcceptIsLate
<1> QED BY <1>3, <1>4, <1>5, <1>6 DEF AcceptOK

LEMMA AcceptOKStep ==
  ASSUME TypeOK, PoolOK, AcceptOK, [Next]_vars
  PROVE  AcceptOK'
<1>0. (\A t \in IoThreads : t \in Threads) /\ Stopper \in Threads /\ Idle.at = "idle"
  BY IdleType DEF Threads
<1>1. CASE UNCHANGED vars
  BY <1>1 DEF vars, AcceptOK, ListenersOK, ClosedOK, LateOK, AcceptChainAlive, StrayAcceptIsLate, Started
<1>2. ASSUME Start \/ \E l \in Listeners : StartFails(l), ub = "none" PROVE AcceptOK'
  <2>1. /\ UNCHANGED <<th, late, ub>>
        /\ \A u \in Threads : th[u].at = "idle"
        /\ \A l \in Listeners : acceptOp[l] = "none"
        /\ \/ phase' \in {"idle", "failed"} /\ UNCHANGED acceptOp
           \/ phase' = "running" /\ \A l \in Listeners : acc'[l] = "open" /\ acceptOp'[l] = "pending"
    BY <1>0, <1>2 DEF Start, StartFails, PoolOK, Fresh
  <2> QED BY <1>2, <2>1
          DEF AcceptOK, ListenersOK, ClosedOK, LateOK, AcceptChainAlive, StrayAcceptIsLate, Started
<1>3. ASSUME NEW t \in IoThreads, AcceptStep(t), ub = "none" PROVE AcceptOK'
  <2>1. CASE UseStackGone(t)
    <3>1. late # {}
      BY <1>0, <2>1 DEF UseStackGone, StackGone, AcceptOK, ListenersOK, ClosedOK, LateOK
    <3>2. UNCHANGED <<phase, acc, acceptOp, th, late>> /\ ub' = "stack"
      BY <2>1 DEF UseStackGone
    <3> QED BY <3>1, <3>2
            DEF AcceptOK, ListenersOK, ClosedOK, LateOK, AcceptChainAlive, StrayAcceptIsLate
  <2>2. CASE \/ PopContext(t) \/ PopFails(t) \/ Recheck(t) \/ Wrap(t) \/ WrapFails(t)
             \/ ResumeContext(t)
    <3>1. /\ UNCHANGED <<phase, acc, acceptOp, late, ub>> /\ Others(t) /\ th[t].at # "rearm"
          /\ \/ th'[t].at \notin {"rearm", "pop", "recheck"}
             \/ /\ th[t].at \in {"pop", "recheck"} /\ th'[t].at \in {"pop", "recheck"}
                /\ th'[t].l = th[t].l
      BY <1>0, <2>2, Moves
      DEF PopContext, PopFails, Recheck, Wrap, WrapFails, ResumeContext, Goes, Takes, Rests
    <3> QED BY <1>0, <1>3, <3>1, QuietAccept DEF Others, Started
  <2> QED BY <1>0, <1>3, <2>1, <2>2, RearmAccept DEF AcceptStep
<1>4. ASSUME NEW t \in IoThreads, ub = "none",
             CoroStep(t) \/ \E c \in Contexts : ServeEnds(t, c)
      PROVE  AcceptOK'
  <2>1. /\ UNCHANGED <<phase, acc, acceptOp, late>> /\ ub' \in {ub, "context"}
        /\ \/ UNCHANGED th
           \/ Others(t) /\ th[t].at # "rearm" /\ th'[t].at \notin {"rearm", "pop", "recheck"}
    BY <1>0, <1>4, Moves, OtherMoves
    DEF CoroStep, ResetSocket, ContextDies, OnReady, Suspend, ServeEnds, Goes, Rests
  <2> QED BY <1>0, <1>4, <2>1, QuietAccept DEF Others, Started
<1>5. ASSUME ub = "none", StopBegin \/ BeginDrain \/ StopPop \/ InterruptAll \/ ClearContexts
                            \/ \E c \in Contexts : PeerResets(c) \/ CancelLost(c) \/ PeerMoves(c)
      PROVE  AcceptOK'
  <2>1. /\ UNCHANGED <<acc, acceptOp, late, ub>>
        /\ Started' => Started
        /\ phase' \in {"draining", "resetting", "clearing", "stopped"} =>
             \/ phase \in {"draining", "resetting", "clearing", "stopped"}
             \/ \A l \in Listeners : acc[l] # "open"
    BY <1>5
    DEF StopBegin, BeginDrain, StopPop, InterruptAll, ClearContexts, PeerResets, CancelLost,
        PeerMoves, Started
  <2>2. ClearContexts => \A l \in Listeners : acc[l] # "open"
    BY DEF ClearContexts, AcceptOK, ClosedOK
  <2>3. CASE UNCHANGED th
    BY <1>5, <2>1, <2>3, QuietAccept
  <2>4. CASE StopBegin
    <3>1. th[Stopper].at = "idle" /\ th'[Stopper].at = "stop" /\ Others(Stopper)
      BY <1>0, <2>4, OtherMoves DEF StopBegin, Goes
    <3> QED BY <1>0, <1>5, <2>1, <3>1, QuietAccept DEF Others
  <2>5. CASE ClearContexts
    <3>1. Rests(Stopper) /\ phase = "clearing" /\ phase' = "stopped"
      BY <2>5, OtherMoves DEF ClearContexts
    <3>2. \A u \in Threads : th'[u] = th[u] \/ th'[u].at = "idle"
      BY <1>0, <3>1 DEF Rests, Others
    <3>3. ListenersOK' /\ ClosedOK' /\ LateOK'
      BY <2>1, <2>2, <2>5, <3>1, <3>2 DEF AcceptOK, ListenersOK, ClosedOK, LateOK
    <3>4. AcceptChainAlive' /\ StrayAcceptIsLate'
      BY <2>1, <3>1 DEF AcceptOK, AcceptChainAlive, StrayAcceptIsLate, Started
    <3> QED BY <3>3, <3>4 DEF AcceptOK
  <2> QED BY <1>5, <2>3, <2>4, <2>5 
          DEF BeginDrain, StopPop, InterruptAll, PeerResets, CancelLost, PeerMoves
<1>6. ASSUME ub = "none", ResetAcceptors PROVE AcceptOK'
  <2>1. /\ phase' = "clearing" /\ UNCHANGED <<th, late, ub>>
        /\ \A l \in Listeners : /\ acc[l] # "open" /\ acc'[l] = "null"
                                /\ acceptOp'[l] # "pending"
                                /\ acceptOp'[l] \in {"aborted", acceptOp[l]}
    BY <1>6 DEF ResetAcceptors, AcceptOK, ClosedOK
  <2> QED BY <2>1
          DEF AcceptOK, ListenersOK, ClosedOK, LateOK, AcceptChainAlive, StrayAcceptIsLate
<1>7. ASSUME NEW l \in Listeners, AcceptCompletes(l), ub = "none" PROVE AcceptOK'
  <2>1. /\ acc[l] = "open" /\ acceptOp'[l] \in {"accepted", "failed"}
        /\ \A k \in Listeners \ {l} : acceptOp'[k] = acceptOp[k]
        /\ UNCHANGED <<phase, acc, th, late, ub>>
    BY <1>7 DEF AcceptCompletes, TypeOK, AcceptOK, ClosedOK
  <2> QED BY <2>1
          DEF AcceptOK, ListenersOK, ClosedOK, LateOK, AcceptChainAlive, StrayAcceptIsLate, Started
<1>8. ASSUME StopStep, ub = "none" PROVE AcceptOK'
  BY <1>5, <1>6, <1>8, CloseAccept DEF StopStep
<1>9. ASSUME NEW t \in IoThreads, TakeStep(t), ub = "none" PROVE AcceptOK'
  BY <1>0, <1>4, <1>9, TakeAcceptOK DEF TakeStep
<1> QED BY <1>1, <1>2, <1>3, <1>4, <1>5, <1>7, <1>8, <1>9 DEF Next, WorldStep, Terminated

-----------------------------------------------------------------------------
(* The theorems *)

\* The invariant holds in every reachable state of start(), the handlers, the
\* coroutines and stop().
THEOREM Invariance == Spec => []IInv
<1>1. Init => IInv
  BY InitIInv
<1>2. IInv /\ [Next]_vars => IInv'
  <2> SUFFICES ASSUME IInv, [Next]_vars PROVE IInv'
    OBVIOUS
  <2>1. TypeOK /\ PoolOK /\ AcceptOK /\ ListenersOK
    BY DEF IInv, AcceptOK
  <2> QED BY <2>1, TypeStep, PoolStep, AcceptOKStep DEF IInv
<1> QED BY <1>1, <1>2, PTL DEF Spec

\* Every variable keeps its type.
THEOREM TypeCorrect == Spec => []TypeOK
<1>1. IInv => TypeOK
  BY DEF IInv
<1> QED BY <1>1, Invariance, PTL

\* A context is in one place and no more: its owner, or the one of the four others.
LEMMA OnePlace ==
  ASSUME PoolOK, Started, NEW c \in Contexts
  PROVE  Cardinality(OwnedBy(c))
           + Cardinality({p \in {"stack", "drained", "serving", "hung", "dead"} :
                            \/ p = "stack" /\ c \in stack
                            \/ p = "drained" /\ c \in drained
                            \/ p \in {"serving", "hung", "dead"} /\ ctx[c] = p}) = 1
<1> DEFINE P == {p \in {"stack", "drained", "serving", "hung", "dead"} :
                   \/ p = "stack" /\ c \in stack
                   \/ p = "drained" /\ c \in drained
                   \/ p \in {"serving", "hung", "dead"} /\ ctx[c] = p}
<1>1. OwnedBy(c) = {t \in Threads : Owns(t, c)}
  BY DEF OwnedBy, Owns
<1>2. OwnerOK(c) /\ FreeOK(c) /\ Placed(c)
  BY DEF PoolOK, ContextOK
<1>3. CASE \E t \in Threads : Owns(t, c)
  <2>1. PICK t \in Threads : Owns(t, c)
    BY <1>3
  <2>2. OwnedBy(c) = {t}
    BY <1>1, <1>2, <2>1 DEF OwnerOK
  <2>3. P = {}
    BY <1>2, <2>1 DEF OwnerOK
  <2>4. Cardinality(OwnedBy(c)) = 1 /\ Cardinality(P) = 0
    BY <2>2, <2>3, FS_EmptySet, FS_Singleton
  <2> QED BY <2>4
<1>4. CASE ~\E t \in Threads : Owns(t, c)
  <2>1. OwnedBy(c) = {}
    BY <1>1, <1>4
  <2>2. \E p : P = {p}
    <3>1. CASE c \in stack
      <4>1. P = {"stack"}
        BY <1>2, <3>1 DEF FreeOK
      <4> QED BY <4>1
    <3>2. CASE c \in drained
      <4>1. P = {"drained"}
        BY <1>2, <3>2 DEF FreeOK
      <4> QED BY <4>1
    <3>3. CASE c \notin stack /\ c \notin drained
      <4>1. P = {ctx[c]}
        BY <1>2, <1>4, <3>3 DEF Placed
      <4> QED BY <4>1
    <3> QED BY <3>1, <3>2, <3>3
  <2> HIDE DEF P
  <2>3. Cardinality(OwnedBy(c)) = 0 /\ Cardinality(P) = 1
    BY <2>1, <2>2, FS_EmptySet, FS_Singleton
  <2> QED BY <2>3 DEF P
<1> QED BY <1>3, <1>4

\* However connections come, end, die and are interrupted, no context is lost,
\* given to two connections or handed over with a socket, and stop() destroys
\* the contexts only when it has popped each of them (server.hpp:96-112).
THEOREM PoolSafe == Spec => []PoolSafety
<1>1. IInv => PoolSafety
  <2> SUFFICES ASSUME IInv PROVE PoolSafety
    OBVIOUS
  <2>1. PoolConservation
    BY OnePlace DEF IInv, PoolConservation
  <2>2. ReadyIsClean
    BY DEF IInv, TypeOK, PoolOK, ContextOK, OwnerOK, FreeOK, SocketOK, ReadyIsClean
  <2>3. ServingHasSocket /\ StopCountsEach
    BY DEF IInv, PoolOK, ContextOK, SocketOK, ServingHasSocket
  <2> QED BY <2>1, <2>2, <2>3 DEF PoolSafety
<1> QED BY <1>1, Invariance, PTL

\* A listener that is open goes on accepting, whatever happens to connections
\* (server.hpp:142).
THEOREM AcceptChain == Spec => []AcceptChainAlive
<1>1. IInv => AcceptChainAlive
  BY DEF IInv, AcceptOK
<1> QED BY <1>1, Invariance, PTL

\* What stop() has popped serves nobody (server.hpp:98-103).
THEOREM Drained == Spec => []DrainedIsIdle
<1>1. IInv => DrainedIsIdle
  <2> SUFFICES ASSUME IInv, NEW c \in drained
               PROVE  \/ ctx[c] \in {"parked", "gone"}
                      \/ \E t \in Threads : th[t].at = "suspend" /\ th[t].c = c
    BY DEF DrainedIsIdle
  <2>1. c \in Contexts /\ OwnerOK(c) /\ RunnerOK(c) /\ FreeOK(c)
    BY DEF IInv, TypeOK, PoolOK, ContextOK
  <2>2. \A t \in Threads : Runs(t, c) => th[t].at = "suspend" /\ th[t].c = c
    BY <2>1 DEF OwnerOK, Owns, Runs
  <2> QED BY <2>1, <2>2 DEF FreeOK, RunnerOK
<1> QED BY <1>1, Invariance, PTL

\* An acceptor or a stack is used after its destruction only by a handler whose
\* completion close() came too late to abort (server.hpp:92-112, 137-150).
THEOREM StrayIsLate == Spec => []StrayAcceptIsLate
<1>1. IInv => StrayAcceptIsLate
  BY DEF IInv, AcceptOK
<1> QED BY <1>1, Invariance, PTL

=============================================================================
