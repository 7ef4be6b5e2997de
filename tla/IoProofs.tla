------------------------------ MODULE IoProofs ------------------------------
(***************************************************************************)
(* Proofs about input and output: the io threads of IoProcessor and, of    *)
(* Message, the socket_streambuf and the request targets. With any number  *)
(* of threads and acceptors, and whatever handlers throw, an acceptor goes *)
(* on accepting until stop() has closed it, and no thread ends before      *)
(* stop() has returned. A stream buffer of any size delivers what is       *)
(* written to it, and an exception costs it at most one character. Any     *)
(* path and any parameters are read from a target as encode_url wrote      *)
(* them, and any target is refused if and only if it is malformed or too   *)
(* long.                                                                   *)
(***************************************************************************)
EXTENDS IoProcessor, BodyProofs

LEMMA NoneIsNoOperation == /\ None \notin Operations /\ "signal" \notin Accepts \cup Contexts
                           /\ \E a : a \in Accepts
  BY IoAssumption DEF None, Operations

(***************************************************************************)
(* The signal exists once, after join_signal() has asked for it; from the  *)
(* moment its handler closes the acceptors until it has destroyed the      *)
(* server a thread runs it.  Before, every acceptor has an accept          *)
(* somewhere (AcceptedAgain); after, nothing is started any more.  So the  *)
(* handler that ends last, the only one that stops the service, ends with  *)
(* the server destroyed.                                                   *)
(***************************************************************************)
SignalOK ==
  /\ server # "open" => "signal" \notin waiting \cup ready /\ main # "threads"
  /\ main = "threads" => "signal" \notin waiting \cup ready
  /\ ~("signal" \in waiting /\ "signal" \in ready)
  /\ server \in {"closed", "draining"} =>
       \E t \in Threads : handling[t] = "signal" /\ thread[t] = "handler"
  /\ \A t \in Threads : handling[t] = "signal" =>
       /\ "signal" \notin waiting \cup ready /\ main # "threads"
       /\ thread[t] \in {"handler", "end"} /\ (thread[t] = "end" => server = "destroyed")
       /\ \A u \in Threads : handling[u] = "signal" => u = t

\* A context with an operation is serving, and none is when the server is destroyed.
ContextsOK ==
  /\ \A c \in Contexts :
       c \in waiting \cup ready \/ (\E t \in Threads : handling[t] = c /\ thread[t] = "handler")
         => pool[c] = "serving"
  /\ server = "destroyed" => \A c \in Contexts : pool[c] = "drained"

\* Its operation is in one place, and at most one thread resumes it.
AloneOK == \A c \in Contexts :
  /\ ~(c \in waiting /\ c \in ready)
  /\ \A t \in Threads : handling[t] = c /\ thread[t] = "handler" =>
       /\ c \notin waiting \cup ready
       /\ \A u \in Threads : handling[u] = c /\ thread[u] = "handler" => u = t

\* Only stop() aborts an accept.
OpenOK == server = "open" => aborted = {}

\* Only an open acceptor waits.
ClosedOK == server # "open" => waiting \cap Accepts = {}

StoppedOK == stopped => /\ server = "destroyed" /\ waiting = {} /\ ready = {}
                        /\ \A t \in Threads : handling[t] = None

DoneOK == \A t \in Threads : thread[t] = "done" => stopped

\* What a handler is doing where it is.
PlacesOK == \A t \in Threads : /\ thread[t] = "pop" => handling[t] \in Accepts
                               /\ thread[t] = "crashed" => handling[t] \in Accepts

IInv == /\ TypeOK /\ SignalOK /\ ContextsOK /\ AloneOK /\ OpenOK /\ ClosedOK
        /\ AcceptedAgain /\ StoppedOK /\ DoneOK /\ PlacesOK

LEMMA InitIInv == Init => IInv
<1> SUFFICES ASSUME Init PROVE IInv
  OBVIOUS
<1> USE NoneIsNoOperation DEF Init
<1>1. TypeOK
  BY DEF TypeOK, Operations, ThreadPlaces
<1>2. SignalOK /\ ContextsOK /\ AloneOK /\ ClosedOK
  BY IoAssumption DEF SignalOK, ContextsOK, AloneOK, ClosedOK, None
<1>3. AcceptedAgain /\ StoppedOK /\ DoneOK /\ PlacesOK /\ OpenOK
  BY DEF AcceptedAgain, OpenOK, StoppedOK, DoneOK, PlacesOK
<1> QED BY <1>1, <1>2, <1>3 DEF IInv

\* A thread at work in the service: it has not been stopped.
LEMMA AtWork ==
  ASSUME IInv, NEW t \in Threads, handling[t] # None \/ ready # {} \/ waiting # {}
  PROVE  ~stopped /\ \A u \in Threads : thread[u] # "done"
  BY DEF IInv, StoppedOK, DoneOK

\* The end of a handler: it returns or it throws.
LEMMA HandlerEndsKeeps ==
  ASSUME IInv, NEW t \in Threads, NEW p \in {"run", "caught"},
         thread[t] = "end" \/ (thread[t] = "pop" /\ server # "destroyed"), HandlerEnds(t, p)
  PROVE  IInv'
<1> USE NoneIsNoOperation DEF IInv, HandlerEnds, Goes
<1>1. handling[t] # None /\ thread[t] # "handler" /\ (handling[t] = "signal" => server = "destroyed")
  BY DEF TypeOK, PlacesOK, SignalOK
<1>2. TypeOK'
  BY DEF TypeOK, ThreadPlaces
<1>3. \A u \in Threads : u # t => handling'[u] = handling[u] /\ thread'[u] = thread[u]
  BY DEF TypeOK
<1>4. handling'[t] = None /\ thread'[t] = p
  BY DEF TypeOK
<1>5. SignalOK'
  <2>1. server \in {"closed", "draining"} =>
          \E u \in Threads : handling'[u] = "signal" /\ thread'[u] = "handler"
    BY <1>1, <1>3 DEF SignalOK
  <2>2. \A u \in Threads : handling'[u] = "signal" => u # t /\ handling[u] = "signal"
    BY <1>3, <1>4 DEF None
  <2> QED BY <2>1, <2>2, <1>3 DEF SignalOK
<1>6. ContextsOK' /\ AloneOK' /\ ClosedOK' /\ OpenOK'
  BY <1>3, <1>4 DEF ContextsOK, AloneOK, ClosedOK, OpenOK
<1>7. AcceptedAgain'
  BY <1>1, <1>3 DEF AcceptedAgain
<1>8. StoppedOK'
  <2> SUFFICES ASSUME stopped', ~stopped PROVE StoppedOK'
    BY <1>3, <1>4 DEF StoppedOK
  <2>1. waiting = {} /\ ready = {} /\ \A u \in Threads \ {t} : handling[u] = None
    BY DEF Outstanding
  <2>2. server # "open"
    BY <1>1, <2>1 DEF AcceptedAgain, Operations
  <2>3. server \notin {"closed", "draining"}
    BY <1>1, <2>1 DEF SignalOK, None
  <2>4. server = "destroyed"
    BY <2>2, <2>3 DEF TypeOK
  <2> QED BY <2>1, <2>4, <1>3, <1>4 DEF StoppedOK
<1>9. DoneOK'
  BY <1>3, <1>4 DEF DoneOK
<1>10. PlacesOK'
  BY <1>3, <1>4 DEF PlacesOK
<1> QED BY <1>2, <1>5, <1>6, <1>7, <1>8, <1>9, <1>10

LEMMA MainKeeps == ASSUME IInv, Main PROVE IInv'
<1> USE NoneIsNoOperation DEF IInv, service
<1>1. ASSUME NEW t \in Threads, Spawn(t) PROVE IInv'
  <2> USE <1>1 DEF Spawn, Goes
  <2>1. TypeOK'
    BY DEF TypeOK, ThreadPlaces
  <2>2. handling[t] = None /\ \A u \in Threads : u # t => thread'[u] = thread[u]
    BY DEF TypeOK
  <2>3. thread'[t] = "run"
    BY DEF TypeOK
  <2>4. SignalOK' /\ ContextsOK' /\ AloneOK' /\ ClosedOK'
    BY <2>2, <2>3 DEF SignalOK, ContextsOK, AloneOK, ClosedOK, None
  <2>5. AcceptedAgain' /\ StoppedOK' /\ DoneOK' /\ PlacesOK' /\ OpenOK'
    BY <2>2, <2>3 DEF AcceptedAgain, StoppedOK, DoneOK, PlacesOK, OpenOK
  <2> QED BY <2>1, <2>4, <2>5
<1>2. CASE JoinSignal
  <2> USE <1>2 DEF JoinSignal
  <2>1. server = "open" /\ ~stopped /\ \A t \in Threads : handling[t] # "signal"
    BY DEF SignalOK, StoppedOK, TypeOK
  <2>2. TypeOK'
    BY DEF TypeOK, Operations
  <2>3. SignalOK' /\ ContextsOK' /\ AloneOK' /\ ClosedOK'
    BY <2>1 DEF SignalOK, ContextsOK, AloneOK, ClosedOK
  <2>4. AcceptedAgain' /\ StoppedOK' /\ DoneOK' /\ PlacesOK' /\ OpenOK'
    BY <2>1 DEF AcceptedAgain, StoppedOK, DoneOK, PlacesOK, OpenOK
  <2> QED BY <2>2, <2>3, <2>4
<1>3. CASE Join
  BY <1>3 DEF Join, TypeOK, SignalOK, ContextsOK, AloneOK, OpenOK, ClosedOK, AcceptedAgain, StoppedOK,
              DoneOK, PlacesOK
<1> QED BY <1>1, <1>2, <1>3 DEF Main

LEMMA TakeKeeps ==
  ASSUME IInv, NEW t \in Threads, NEW op \in Operations, Take(t, op)
  PROVE  IInv'
<1> USE NoneIsNoOperation DEF IInv, Take, Goes
<1>1. handling[t] = None /\ ~stopped /\ \A u \in Threads : thread[u] # "done"
  BY AtWork DEF TypeOK
<1>2. PICK p \in {"handler", "end"} :
        /\ thread' = [thread EXCEPT ![t] = p]
        /\ p = "end" <=> op \in aborted
  OBVIOUS
<1>3. TypeOK'
  BY <1>2 DEF TypeOK, ThreadPlaces
<1>4. \A u \in Threads : u # t => handling'[u] = handling[u] /\ thread'[u] = thread[u]
  BY <1>2 DEF TypeOK
<1>5. handling'[t] = op /\ thread'[t] = p
  BY <1>2 DEF TypeOK
<1>6. aborted \subseteq Accepts
  BY DEF TypeOK
<1>7. SignalOK'
  <2>1. op = "signal" => /\ thread'[t] = "handler" /\ server = "open" /\ main # "threads"
                         /\ \A u \in Threads : handling[u] # "signal"
    BY <1>2, <1>5, <1>6 DEF SignalOK
  <2>2. server \in {"closed", "draining"} =>
          \E u \in Threads : handling'[u] = "signal" /\ thread'[u] = "handler"
    <3> SUFFICES ASSUME server \in {"closed", "draining"}
                 PROVE  \E u \in Threads : handling'[u] = "signal" /\ thread'[u] = "handler"
      OBVIOUS
    <3>1. PICK u \in Threads : handling[u] = "signal" /\ thread[u] = "handler"
      BY DEF SignalOK
    <3>2. u # t
      BY <3>1, <1>1 DEF None
    <3> QED BY <3>1, <3>2, <1>4
  <2>3. ASSUME NEW u \in Threads, handling'[u] = "signal"
        PROVE  /\ "signal" \notin waiting' \cup ready' /\ main' # "threads"
               /\ thread'[u] \in {"handler", "end"} /\ (thread'[u] = "end" => server' = "destroyed")
               /\ \A v \in Threads : handling'[v] = "signal" => v = u
    <3>1. CASE u = t
      <4>1. op = "signal"
        BY <2>3, <3>1, <1>5
      <4>2. "signal" \notin waiting
        BY <4>1 DEF SignalOK, TypeOK
      <4> QED BY <4>1, <4>2, <2>1, <3>1, <1>4, <1>5
    <3>2. CASE u # t
      <4>1. handling[u] = "signal" /\ op # "signal"
        BY <2>3, <3>2, <1>4 DEF SignalOK
      <4> QED BY <4>1, <3>2, <1>4, <1>5 DEF SignalOK
    <3> QED BY <3>1, <3>2
  <2> QED BY <2>2, <2>3 DEF SignalOK
<1>8. ContextsOK' /\ ClosedOK'
  BY <1>4, <1>5 DEF ContextsOK, ClosedOK
<1>11. AloneOK'
  <2>1. \A c \in Contexts, u \in Threads :
          handling'[u] = c /\ thread'[u] = "handler" =>
            (u = t /\ c = op) \/ (u # t /\ handling[u] = c /\ thread[u] = "handler")
    BY <1>4, <1>5
  <2>2. op \in Contexts => /\ op \notin waiting
                          /\ \A u \in Threads : ~(handling[u] = op /\ thread[u] = "handler")
    BY DEF AloneOK
  <2> QED BY <2>1, <2>2 DEF AloneOK
<1>9. AcceptedAgain'
  <2> SUFFICES ASSUME NEW a \in Accepts, server = "open", a \notin waiting, a \notin ready'
               PROVE  \E u \in Threads : handling'[u] = a /\ thread'[u] = "handler"
    BY DEF AcceptedAgain
  <2>1. CASE a = op
    <3>1. op \notin aborted
      BY <2>1 DEF OpenOK
    <3> QED BY <2>1, <3>1, <1>2, <1>5
  <2>2. CASE a # op
    <3>1. PICK u \in Threads : handling[u] = a /\ thread[u] = "handler"
      BY <2>2 DEF AcceptedAgain
    <3> QED BY <3>1, <1>1, <1>4 DEF Operations
  <2> QED BY <2>1, <2>2
<1>10. StoppedOK' /\ DoneOK' /\ PlacesOK' /\ OpenOK'
  BY <1>1, <1>2, <1>4, <1>5 DEF StoppedOK, DoneOK, PlacesOK, OpenOK, TypeOK
<1> QED BY <1>3, <1>7, <1>8, <1>9, <1>10, <1>11

\* A step of a handler that goes on: it starts operations, and no other thread moves.
LEMMA StepKeeps ==
  ASSUME IInv, NEW t \in Threads, NEW p \in {"pop", "end", "crashed"}, Goes(t, p), UNCHANGED handling,
         handling[t] # None
  PROVE  /\ ~stopped /\ thread'[t] = p
         /\ \A u \in Threads : thread[u] # "done" /\ (u # t => thread'[u] = thread[u])
         /\ thread' \in [Threads -> ThreadPlaces]
         /\ \A u \in Threads :
              thread'[u] \in {"handler", "pop", "end", "crashed"} <=> handling'[u] # None
<1>1. ~stopped /\ \A u \in Threads : thread[u] # "done"
  BY AtWork
<1> QED BY <1>1 DEF IInv, TypeOK, Goes, ThreadPlaces

LEMMA RearmKeeps ==
  ASSUME IInv, NEW t \in Threads, Rearm(t) \/ Pop(t)
  PROVE  IInv'
<1> USE NoneIsNoOperation DEF IInv
<1>1. handling[t] \in Accepts /\ handling[t] # None /\ handling[t] # "signal" /\ handling[t] \in Operations
  BY DEF Rearm, Pop, Handles, PlacesOK, Operations
<1>2. PICK p \in {"pop", "end", "crashed"} :
        /\ Goes(t, p) /\ UNCHANGED <<handling, aborted, hung, stopped, server, main>>
        /\ p = "crashed" \/ server # "destroyed"
  BY DEF Rearm, Pop, TypeOK
<1>3. /\ ~stopped /\ thread'[t] = p
      /\ \A u \in Threads : thread[u] # "done" /\ (u # t => thread'[u] = thread[u])
      /\ thread' \in [Threads -> ThreadPlaces]
      /\ \A u \in Threads :
           thread'[u] \in {"handler", "pop", "end", "crashed"} <=> handling'[u] # None
  BY <1>1, <1>2, StepKeeps
<1>4. waiting \subseteq waiting' /\ ready \subseteq ready'
  BY DEF Rearm, Pop
<1>5. /\ \A op \in waiting' \cup ready' : op \in waiting \cup ready \cup Accepts \cup Contexts
      /\ waiting' \cap Accepts # waiting \cap Accepts => server = "open"
      /\ "signal" \in waiting' => "signal" \in waiting
      /\ "signal" \in ready' => "signal" \in ready
  <2>1. CASE Rearm(t)
    BY <2>1, <1>1 DEF Rearm
  <2>2. CASE Pop(t)
    BY <2>2, IoAssumption DEF Pop, FreeContexts
  <2> QED BY <2>1, <2>2
<1>6. pool' \in [Contexts -> {"free", "serving", "dead", "drained"}]
  BY DEF Rearm, Pop, FreeContexts, TypeOK
<1>7. TypeOK'
  BY <1>2, <1>3, <1>4, <1>5, <1>6 DEF TypeOK, Operations
<1>8. SignalOK'
  BY <1>1, <1>2, <1>3, <1>5 DEF SignalOK
<1>9. ContextsOK'
  <2>1. CASE Rearm(t)
    BY <2>1, <1>1, <1>2, <1>3, IoAssumption DEF Rearm, ContextsOK
  <2>2. CASE Pop(t)
    <3>1. server # "destroyed" => \A c \in Contexts : pool[c] = "serving" => pool'[c] = "serving"
      BY <2>2 DEF Pop, FreeContexts, TypeOK
    <3>2. \A c \in Contexts : c \in waiting' \cup ready' =>
            c \in waiting \cup ready \/ pool'[c] = "serving"
      BY <2>2 DEF Pop, FreeContexts, TypeOK
    <3>3. server = "destroyed" => pool' = pool
      BY <2>2 DEF Pop
    <3> QED BY <3>1, <3>2, <3>3, <1>1, <1>2, <1>3 DEF ContextsOK
  <2> QED BY <2>1, <2>2
<1>10. ClosedOK'
  BY <1>2, <1>5 DEF ClosedOK
<1>13. AloneOK'
  <2>1. \A c \in Contexts, u \in Threads :
          handling'[u] = c /\ thread'[u] = "handler" =>
            u # t /\ handling[u] = c /\ thread[u] = "handler"
    BY <1>1, <1>2, <1>3
  <2>2. CASE Rearm(t)
    BY <2>1, <2>2, <1>1, IoAssumption DEF Rearm, AloneOK
  <2>3. CASE Pop(t)
    <3>1. ready' = ready
      BY <2>3 DEF Pop
    <3>2. \A c \in Contexts : c \in waiting' => c \in waiting \/ pool[c] = "free"
      BY <2>3 DEF Pop, FreeContexts
    <3> QED BY <2>1, <3>1, <3>2 DEF AloneOK, ContextsOK
  <2> QED BY <2>2, <2>3
<1>11. AcceptedAgain'
  <2> SUFFICES ASSUME NEW a \in Accepts, server = "open", a \notin waiting' \cup ready'
               PROVE  \E u \in Threads : handling'[u] = a /\ thread'[u] = "handler"
    BY <1>2 DEF AcceptedAgain
  <2>1. PICK u \in Threads : handling[u] = a /\ thread[u] = "handler"
    BY <1>4 DEF AcceptedAgain
  <2>2. u # t
    BY <2>1 DEF Rearm, Pop
  <2> QED BY <2>1, <2>2, <1>2, <1>3
<1>12. StoppedOK' /\ DoneOK' /\ PlacesOK' /\ OpenOK'
  BY <1>1, <1>2, <1>3 DEF StoppedOK, DoneOK, PlacesOK, OpenOK
<1> QED BY <1>7, <1>8, <1>9, <1>10, <1>11, <1>12, <1>13

LEMMA ConnectionKeeps ==
  ASSUME IInv, NEW t \in Threads, ConnectionGoesOn(t) \/ ConnectionEnds(t)
  PROVE  IInv'
<1> USE NoneIsNoOperation DEF IInv
<1>0. PICK c : c = handling[t]
  OBVIOUS
<1>1. /\ c \in Contexts /\ c # "signal" /\ c # None /\ c \notin Accepts /\ c \in Operations
      /\ thread[t] = "handler" /\ Goes(t, "end")
      /\ UNCHANGED <<ready, aborted, hung, stopped, handling, server, main>>
  BY <1>0, IoAssumption DEF ConnectionGoesOn, ConnectionEnds, Handles, Operations, service
<1>2. /\ ~stopped /\ thread'[t] = "end"
      /\ \A u \in Threads : thread[u] # "done" /\ (u # t => thread'[u] = thread[u])
      /\ thread' \in [Threads -> ThreadPlaces]
      /\ \A u \in Threads :
           thread'[u] \in {"handler", "pop", "end", "crashed"} <=> handling'[u] # None
  BY <1>0, <1>1, StepKeeps
<1>3. pool[c] = "serving" /\ server # "destroyed"
  BY <1>0, <1>1 DEF ContextsOK
<1>4. \/ waiting' = waiting \cup {c} /\ pool' = pool
      \/ waiting' = waiting /\ \E p \in {"free", "dead"} : pool' = [pool EXCEPT ![c] = p]
  BY <1>0 DEF ConnectionGoesOn, ConnectionEnds, service
<1>5. TypeOK'
  BY <1>1, <1>2, <1>4 DEF TypeOK
<1>6. SignalOK' /\ ClosedOK'
  BY <1>0, <1>1, <1>2, <1>4 DEF SignalOK, ClosedOK
<1>7. ContextsOK'
  <2>1. CASE waiting' = waiting \cup {c} /\ pool' = pool
    BY <2>1, <1>1, <1>2, <1>3 DEF ContextsOK
  <2>2. CASE waiting' = waiting /\ \E p \in {"free", "dead"} : pool' = [pool EXCEPT ![c] = p]
    <3>1. c \notin waiting \cup ready /\ \A u \in Threads : u # t => ~(handling[u] = c /\ thread[u] = "handler")
      BY <1>0, <1>1 DEF AloneOK
    <3> QED BY <2>2, <3>1, <1>0, <1>1, <1>2, <1>3 DEF ContextsOK, TypeOK
  <2> QED BY <2>1, <2>2, <1>4
<1>8. AcceptedAgain'
  <2>1. \A a \in Accepts : handling[t] # a
    BY <1>0, <1>1
  <2> QED BY <2>1, <1>1, <1>2, <1>4 DEF AcceptedAgain
<1>9. StoppedOK' /\ DoneOK' /\ PlacesOK' /\ OpenOK'
  BY <1>0, <1>1, <1>2 DEF StoppedOK, DoneOK, PlacesOK, OpenOK
<1>10. AloneOK'
  <2>1. /\ c \notin waiting \cup ready
        /\ \A u \in Threads : u # t => ~(handling[u] = c /\ thread[u] = "handler")
    BY <1>0, <1>1 DEF AloneOK
  <2> QED BY <2>1, <1>0, <1>1, <1>2, <1>4 DEF AloneOK
<1> QED BY <1>5, <1>6, <1>7, <1>8, <1>9, <1>10

\* stop(), in the handler of the signal.
LEMMA StopKeeps ==
  ASSUME IInv, NEW t \in Threads, CloseAcceptors(t) \/ Drain(t) \/ Destroy(t)
  PROVE  IInv'
<1> USE NoneIsNoOperation DEF IInv, service
<1>1. /\ handling[t] = "signal" /\ handling[t] # None /\ thread[t] = "handler"
      /\ UNCHANGED <<handling, hung, stopped, main>> /\ main # "threads"
      /\ "signal" \notin waiting \cup ready /\ \A u \in Threads : handling[u] = "signal" => u = t
  BY DEF CloseAcceptors, Drain, Destroy, Handles, None, SignalOK
<1>2. ~stopped /\ \A u \in Threads : thread[u] # "done"
  BY <1>1, AtWork
<1>3. CASE CloseAcceptors(t)
  <2> USE <1>3 DEF CloseAcceptors
  <2>1. TypeOK'
    BY DEF TypeOK
  <2>2. \A c \in Contexts : (c \in waiting' <=> c \in waiting) /\ (c \in ready' <=> c \in ready)
    BY IoAssumption
  <2>3. SignalOK'
    BY <1>1 DEF SignalOK
  <2>4. ContextsOK' /\ AloneOK' /\ ClosedOK' /\ OpenOK'
    BY <2>2 DEF ContextsOK, AloneOK, ClosedOK, OpenOK
  <2>5. AcceptedAgain' /\ StoppedOK' /\ DoneOK' /\ PlacesOK'
    BY <1>2 DEF AcceptedAgain, StoppedOK, DoneOK, PlacesOK
  <2> QED BY <2>1, <2>3, <2>4, <2>5
<1>4. CASE Drain(t)
  <2> USE <1>4 DEF Drain, FreeContexts
  <2>1. TypeOK'
    BY DEF TypeOK
  <2>2. \A c \in Contexts : pool[c] = "serving" => pool'[c] = "serving"
    BY DEF TypeOK
  <2>3. SignalOK'
    BY <1>1 DEF SignalOK
  <2>4. ContextsOK' /\ AloneOK' /\ ClosedOK' /\ OpenOK'
    BY <2>2 DEF ContextsOK, AloneOK, ClosedOK, OpenOK
  <2>5. AcceptedAgain' /\ StoppedOK' /\ DoneOK' /\ PlacesOK'
    BY <1>2 DEF AcceptedAgain, StoppedOK, DoneOK, PlacesOK
  <2> QED BY <2>1, <2>3, <2>4, <2>5
<1>5. CASE Destroy(t)
  <2> USE <1>5 DEF Destroy
  <2>1. /\ thread'[t] = "end" /\ \A u \in Threads : u # t => thread'[u] = thread[u]
        /\ thread' \in [Threads -> ThreadPlaces]
        /\ \A u \in Threads :
             thread'[u] \in {"handler", "pop", "end", "crashed"} <=> handling'[u] # None
    BY <1>1, StepKeeps
  <2>2. TypeOK'
    BY <2>1 DEF TypeOK
  <2>3. SignalOK'
    BY <1>1, <2>1 DEF SignalOK
  <2>4. ContextsOK' /\ AloneOK' /\ ClosedOK' /\ OpenOK'
    BY <2>1 DEF ContextsOK, AloneOK, ClosedOK, OpenOK
  <2>5. AcceptedAgain' /\ StoppedOK' /\ DoneOK' /\ PlacesOK'
    BY <1>1, <1>2, <2>1 DEF AcceptedAgain, StoppedOK, DoneOK, PlacesOK
  <2> QED BY <2>2, <2>3, <2>4, <2>5
<1> QED BY <1>3, <1>4, <1>5

LEMMA WorldKeeps ==
  ASSUME IInv, \/ \E op \in Operations : Complete(op)
               \/ \E c \in Contexts : LoseCancel(c)
               \/ \E t \in Threads : Caught(t) \/ RunReturns(t)
  PROVE  IInv'
<1> USE NoneIsNoOperation DEF IInv, service
<1>1. ASSUME NEW op \in Operations, Complete(op) PROVE IInv'
  <2> USE <1>1 DEF Complete
  <2>1. ~stopped
    <3>1. waiting # {}
      OBVIOUS
    <3> QED BY <3>1 DEF StoppedOK
  <2>2. TypeOK'
    BY DEF TypeOK
  <2>3. SignalOK'
    BY DEF SignalOK
  <2>4. ContextsOK' /\ AloneOK' /\ ClosedOK' /\ OpenOK'
    BY DEF ContextsOK, AloneOK, ClosedOK, OpenOK
  <2>5. AcceptedAgain' /\ StoppedOK' /\ DoneOK' /\ PlacesOK'
    BY <2>1 DEF AcceptedAgain, StoppedOK, DoneOK, PlacesOK
  <2> QED BY <2>2, <2>3, <2>4, <2>5
<1>2. ASSUME NEW c \in Contexts, LoseCancel(c) PROVE IInv'
  BY <1>2 DEF LoseCancel, TypeOK, SignalOK, ContextsOK, AloneOK, OpenOK, ClosedOK, AcceptedAgain,
              StoppedOK, DoneOK, PlacesOK
<1>3. ASSUME NEW t \in Threads, Caught(t) \/ RunReturns(t) PROVE IInv'
  <2> USE <1>3 DEF Caught, RunReturns, Goes
  <2>1. PICK p \in {"run", "done"} : /\ thread' = [thread EXCEPT ![t] = p]
                                     /\ p = "done" => stopped
    OBVIOUS
  <2>2. handling[t] = None /\ thread'[t] = p /\ \A u \in Threads : u # t => thread'[u] = thread[u]
    BY <2>1 DEF TypeOK
  <2>3. TypeOK'
    BY <2>1, <2>2 DEF TypeOK, ThreadPlaces
  <2>4. SignalOK'
    BY <2>2 DEF SignalOK, None
  <2>5. ContextsOK' /\ AloneOK' /\ ClosedOK' /\ OpenOK'
    BY <2>2 DEF ContextsOK, AloneOK, ClosedOK, OpenOK
  <2>6. AcceptedAgain' /\ StoppedOK' /\ DoneOK' /\ PlacesOK'
    BY <2>1, <2>2 DEF AcceptedAgain, StoppedOK, DoneOK, PlacesOK
  <2> QED BY <2>3, <2>4, <2>5, <2>6
<1> QED BY <1>1, <1>2, <1>3

LEMMA NextIInv == IInv /\ [Next]_vars => IInv'
<1> SUFFICES ASSUME IInv, [Next]_vars PROVE IInv'
  OBVIOUS
<1>1. ASSUME NEW op \in Operations, Dispatched(op) PROVE IInv'
  BY <1>1, TakeKeeps DEF Dispatched
<1>2. ASSUME NEW t \in Threads, HandlerReturns(t) \/ HandlerThrows(t) PROVE IInv'
  BY <1>2, HandlerEndsKeeps DEF HandlerReturns, HandlerThrows
<1>3. ASSUME NEW t \in Threads, Handler(t) PROVE IInv'
  BY <1>2, <1>3, RearmKeeps, ConnectionKeeps, StopKeeps, WorldKeeps DEF Handler
<1>4. CASE UNCHANGED vars
  BY <1>4 DEF IInv, vars, TypeOK, SignalOK, ContextsOK, AloneOK, OpenOK, ClosedOK, AcceptedAgain,
              StoppedOK, DoneOK, PlacesOK
<1> QED BY <1>1, <1>3, <1>4, MainKeeps, WorldKeeps DEF Next

LEMMA Inductive == Spec => []IInv
  BY InitIInv, NextIInv, PTL DEF Spec

\* The service, its threads and its operations keep their types, for any numbers of them.
THEOREM TypeCorrect == Spec => []TypeOK
<1>1. IInv => TypeOK
  BY DEF IInv
<1> QED BY Inductive, <1>1, PTL

\* However many accept handlers throw or find no context, every acceptor has an accept waiting,
\* completed or about to be repeated until stop() has closed it (server.hpp:137-168).
THEOREM GoesOnAccepting == Spec => []AcceptedAgain
<1>1. IInv => AcceptedAgain
  BY DEF IInv
<1> QED BY Inductive, <1>1, PTL

\* A thread has left io_processor's loop only when stop() has returned and nothing is left to do:
\* an exception ends no thread (io_processor.hpp:71-82).
THEOREM ThreadsAreKept == Spec => []ThreadsStay
<1>1. IInv => ThreadsStay
  BY DEF IInv, StoppedOK, DoneOK, ThreadsStay
<1> QED BY Inductive, <1>1, PTL

\* Neither an acceptor nor a thread is lost to an exception.
THEOREM NothingLost == Spec => []NothingIsLost
  BY GoesOnAccepting, ThreadsAreKept, PTL DEF NothingIsLost
-----------------------------------------------------------------------------
(***************************************************************************)
(* The stream buffer. The characters written are numbered. While nothing   *)
(* has failed, what is on the wire and what is held and not yet sent make  *)
(* what was written (Straight). After a failure the put area is sent again *)
(* from its beginning, so a character on the wire may be offered again:    *)
(* Resent counts how often it is or will be there, and Lost holds those    *)
(* that are in neither place. Both rest on Orderly: the put area is        *)
(* ascending, of characters that were written, and what was sent of it is  *)
(* on the wire.                                                            *)
(***************************************************************************)
buffer == v1
pptr == v2
sending == v3
wire == v4
written == v5
arrived == v6
get == v7
taken == v8
failures == v9
readFailures == v10
late == v11

USE DEF buffer, pptr, sending, wire, written, arrived, get, taken, failures, readFailures, late

\* The characters in the put area that count: those overflow() is sending, with the one it put into
\* the reserved slot, or those before pptr.
Held == IF sending = Stream!None THEN pptr ELSE sending.size

\* The types of the output side; while overflow() or sync() sends, something is left to send.
StreamTypes ==
  /\ buffer \in Seq(Nat) /\ Len(buffer) = OutputSize /\ pptr \in 0 .. Stream!Room
  /\ wire \in Seq(Nat) /\ written \in Seq(Nat) /\ late \in BOOLEAN
  /\ failures \in 0 .. MaxFailures /\ readFailures \in 0 .. MaxFailures
  /\ sending \in [size : 0 .. OutputSize, offset : 0 .. OutputSize]
  /\ sending # Stream!None => sending.offset < sending.size /\ sending.size \in {pptr, pptr + 1}

\* Sequences of natural numbers as the proofs use them.
LEMMA Appended ==
  ASSUME NEW s \in Seq(Nat), NEW c \in Nat
  PROVE  /\ Append(s, c) \in Seq(Nat) /\ Len(s) \in Nat /\ Len(Append(s, c)) = Len(s) + 1
         /\ Append(s, c)[Len(s) + 1] = c /\ \A i \in 1 .. Len(s) : Append(s, c)[i] = s[i]
  BY AppendProperties, LenProperties

\* n elements of a sequence from place a on, as write_some sends them.
LEMMA Piece ==
  ASSUME NEW s \in Seq(Nat), NEW a \in Nat, NEW n \in Nat, a + n <= Len(s)
  PROVE  /\ SubSeq(s, a + 1, a + n) \in Seq(Nat) /\ Len(SubSeq(s, a + 1, a + n)) = n
         /\ \A i \in 1 .. n : SubSeq(s, a + 1, a + n)[i] = s[a + i]
<1>1. Len(s) \in Nat
  BY LenProperties
<1>2. \A i \in a + 1 .. a + n : s[i] \in Nat
  BY <1>1, ElementOfSeq
<1>3. /\ SubSeq(s, a + 1, a + n) \in Seq(Nat)
      /\ Len(SubSeq(s, a + 1, a + n)) = IF a + 1 <= a + n THEN a + n - (a + 1) + 1 ELSE 0
      /\ \A i \in 1 .. a + n - (a + 1) + 1 : SubSeq(s, a + 1, a + n)[i] = s[a + 1 + i - 1]
  BY <1>2, SubSeqProperties
<1>4. a + n - (a + 1) + 1 = n /\ (a + 1 <= a + n <=> n > 0)
  OBVIOUS
<1>5. Len(SubSeq(s, a + 1, a + n)) = n
  BY <1>3, <1>4
<1>6. ASSUME NEW i \in 1 .. n PROVE SubSeq(s, a + 1, a + n)[i] = s[a + i]
  <2>1. a + 1 + i - 1 = a + i
    OBVIOUS
  <2> QED BY <1>3, <1>4, <2>1
<1> QED BY <1>3, <1>5, <1>6

\* Two sequences joined.
LEMMA Joined ==
  ASSUME NEW s \in Seq(Nat), NEW t \in Seq(Nat)
  PROVE  /\ s \o t \in Seq(Nat) /\ Len(s) \in Nat /\ Len(t) \in Nat /\ Len(s \o t) = Len(s) + Len(t)
         /\ \A i \in 1 .. Len(s) : (s \o t)[i] = s[i]
         /\ \A i \in 1 .. Len(t) : (s \o t)[Len(s) + i] = t[i]
<1>1. Len(s) \in Nat /\ Len(t) \in Nat
  BY LenProperties
<1>2. /\ s \o t \in Seq(Nat) /\ Len(s \o t) = Len(s) + Len(t)
      /\ \A i \in 1 .. Len(s) + Len(t) : (s \o t)[i] = IF i <= Len(s) THEN s[i] ELSE t[i - Len(s)]
  BY ConcatProperties
<1>3. ASSUME NEW i \in 1 .. Len(t) PROVE (s \o t)[Len(s) + i] = t[i]
  <2>1. Len(s) + i \in 1 .. Len(s) + Len(t) /\ ~(Len(s) + i <= Len(s)) /\ Len(s) + i - Len(s) = i
    BY <1>1
  <2> QED BY <1>2, <2>1
<1>4. ASSUME NEW i \in 1 .. Len(s) PROVE (s \o t)[i] = s[i]
  BY <1>1, <1>2
<1> QED BY <1>1, <1>2, <1>3, <1>4

\* A character goes to the end of what is held.
Grew ==
  /\ sending = Stream!None /\ pptr + 1 <= OutputSize /\ Held' = pptr + 1 /\ sending'.offset = 0
  /\ Len(written') = Len(written) + 1 /\ written'[Len(written) + 1] = Len(written) + 1
  /\ \A i \in 1 .. Len(written) : written'[i] = written[i]
  /\ buffer'[pptr + 1] = Len(written) + 1 /\ \A i \in 1 .. pptr : buffer'[i] = buffer[i]
  /\ UNCHANGED <<wire, failures, late>>

\* n characters go to the socket.
Passed(n) ==
  /\ sending # Stream!None /\ n \in 1 .. sending.size - sending.offset
  /\ Len(wire') = Len(wire) + n /\ \A i \in 1 .. Len(wire) : wire'[i] = wire[i]
  /\ \A i \in 1 .. n : wire'[Len(wire) + i] = buffer[sending.offset + i]
  /\ \/ sending.offset + n = sending.size /\ sending'.offset = 0 /\ Held' = 0 /\ pptr' = 0 /\ sending' = Stream!None
     \/ sending.offset + n < sending.size /\ sending'.offset = sending.offset + n /\ Held' = Held /\ sending' # Stream!None
  /\ late' = (failures > 0) /\ UNCHANGED <<buffer, written, failures>>

\* What was not sent stays in the put area, but for the character in the slot of the overflow.
Failed ==
  /\ sending # Stream!None /\ Held' = pptr /\ sending' = Stream!None /\ sending'.offset = 0 /\ pptr' = pptr
  /\ failures' = failures + 1 /\ UNCHANGED <<buffer, wire, written, late>>

\* Nothing of the output changes but who has it.
Stayed == Held' = Held /\ sending'.offset = sending.offset /\ UNCHANGED <<buffer, wire, written, failures, late>>

\* sputc and overflow() add the character they are given.
LEMMA PutGrew == ASSUME StreamTypes, Stream!Put \/ Stream!Overflow PROVE StreamTypes' /\ Grew
<1> DEFINE c == Len(written) + 1
<1>1. /\ sending = Stream!None /\ pptr \in 0 .. Stream!Room /\ pptr + 1 \in 1 .. OutputSize /\ OutputSize \in Nat \ {0}
      /\ (Stream!Put => pptr + 1 <= Stream!Room)
  BY MessageAssumption DEF StreamTypes, Stream!StreambufAssumption, Stream!Room, Stream!Put, Stream!Overflow
<1>2. buffer \in Seq(Nat) /\ Len(buffer) = OutputSize /\ written \in Seq(Nat) /\ written' = Append(written, c)
  BY DEF StreamTypes, Stream!Put, Stream!Overflow, Stream!NextChar
<1>3. /\ Len(written) \in Nat /\ Len(written') = c /\ written'[c] = c /\ written' \in Seq(Nat)
      /\ \A i \in 1 .. Len(written) : written'[i] = written[i]
  BY <1>2, Appended, LenProperties
<1>4. CASE Stream!Put
  <2>1. /\ buffer' = [buffer EXCEPT ![pptr + 1] = c] /\ pptr' = pptr + 1
        /\ UNCHANGED <<sending, wire, late, failures, readFailures>>
    BY <1>4 DEF Stream!Put, Stream!NextChar, Stream!input
  <2>2. /\ buffer' \in Seq(Nat) /\ Len(buffer') = OutputSize
        /\ \A i \in 1 .. OutputSize : buffer'[i] = IF i = pptr + 1 THEN c ELSE buffer[i]
    BY <1>1, <1>2, <1>3, <2>1, ExceptSeq
  <2>3. StreamTypes'
    BY <1>1, <1>3, <1>4, <2>1, <2>2 DEF StreamTypes, Stream!None, Stream!Room
  <2>4. Held' = pptr + 1 /\ sending'.offset = 0
    BY <1>1, <2>1 DEF Held, Stream!None
  <2> QED BY <1>1, <1>3, <2>1, <2>2, <2>3, <2>4 DEF Grew
<1>5. CASE Stream!Overflow
  <2>1. /\ buffer' = [i \in 1 .. pptr + 1 |-> IF i = pptr + 1 THEN c ELSE buffer[i]] /\ pptr' = pptr
        /\ sending' = [size |-> pptr + 1, offset |-> 0] /\ pptr + 1 = OutputSize
        /\ UNCHANGED <<wire, late, failures, readFailures>>
    BY <1>1, <1>5 DEF Stream!Overflow, Stream!NextChar, Stream!input, Stream!Room
  <2>2. \A i \in 1 .. OutputSize : buffer[i] \in Nat
    BY <1>2, ElementOfSeq
  <2>3. buffer' \in [1 .. OutputSize -> Nat]
    BY <1>1, <1>3, <2>1, <2>2
  <2>4. buffer' \in Seq(Nat)
    BY <1>1, <2>3, SeqDef
  <2>5. Len(buffer') = OutputSize
    BY <1>1, <2>3, <2>4, LenProperties
  <2>6. \A i \in 1 .. OutputSize : buffer'[i] = IF i = pptr + 1 THEN c ELSE buffer[i]
    BY <2>1
  <2>7. StreamTypes'
    BY <1>1, <1>3, <2>1, <2>4, <2>5 DEF StreamTypes, Stream!None, Stream!Room
  <2>8. Held' = pptr + 1 /\ sending'.offset = 0
    BY <1>1, <2>1 DEF Held, Stream!None
  <2> QED BY <1>1, <1>3, <2>1, <2>6, <2>7, <2>8 DEF Grew
<1> QED BY <1>4, <1>5

\* The rest of overflow()'s record, without the sequences.
SendingFields ==
  sending \in [size : 0 .. OutputSize, offset : 0 .. OutputSize]
  /\ (sending # Stream!None => sending.offset < sending.size /\ sending.size \in {pptr, pptr + 1})

\* The position of what is being sent after n characters.
Advances(n) ==
  IF sending.offset + n = sending.size THEN sending' = Stream!None /\ pptr' = 0
  ELSE sending' = [sending EXCEPT !.offset = sending.offset + n] /\ UNCHANGED pptr

\* Sending goes on, or ends with the put area empty.
LEMMA SendingAdvanced ==
  ASSUME SendingFields, pptr \in 0 .. Stream!Room, NEW n \in 1 .. sending.size - sending.offset, Advances(n)
  PROVE  /\ SendingFields' /\ pptr' \in 0 .. Stream!Room /\ sending # Stream!None
         /\ sending.offset \in Nat /\ sending.size \in Nat /\ n \in Nat /\ n >= 1
         /\ sending.offset + n <= sending.size /\ sending.size <= OutputSize
         /\ \/ sending.offset + n = sending.size /\ sending'.offset = 0 /\ Held' = 0 /\ pptr' = 0 /\ sending' = Stream!None
            \/ sending.offset + n < sending.size /\ sending'.offset = sending.offset + n /\ Held' = Held /\ sending' # Stream!None
<1> DEFINE o == sending.offset
           s == sending.size
<1>1. /\ o \in 0 .. OutputSize /\ s \in 0 .. OutputSize /\ OutputSize \in Nat \ {0} /\ sending = [size |-> s, offset |-> o]
  BY MessageAssumption DEF SendingFields, Stream!StreambufAssumption
<1>2. n \in Nat /\ n >= 1 /\ o + n <= s /\ o < s
  BY <1>1
<1>3. sending # Stream!None
  BY <1>1, <1>2 DEF Stream!None
<1>4. CASE o + n = s
  <2>1. sending' = Stream!None /\ pptr' = 0
    BY <1>4 DEF Advances
  <2>2. sending'.offset = 0 /\ Held' = 0 /\ SendingFields' /\ pptr' \in 0 .. Stream!Room
    BY <1>1, <2>1 DEF Stream!None, Held, SendingFields, Stream!Room
  <2> QED BY <1>1, <1>2, <1>3, <1>4, <2>1, <2>2
<1>5. CASE o + n # s
  <2>1. sending' = [size |-> s, offset |-> o + n] /\ pptr' = pptr
    BY <1>1, <1>5 DEF Advances
  <2>2. o + n < s
    BY <1>1, <1>2, <1>5
  <2>3. sending'.offset = o + n /\ sending'.size = s /\ sending' # Stream!None
    BY <1>1, <1>2, <2>1, <2>2 DEF Stream!None
  <2>4. Held' = Held
    BY <1>3, <2>3 DEF Held
  <2>5. SendingFields'
    BY <1>1, <1>2, <1>3, <2>1, <2>2, <2>3 DEF SendingFields
  <2> QED BY <1>1, <1>2, <1>3, <2>1, <2>2, <2>3, <2>4, <2>5
<1> QED BY <1>4, <1>5

\* write_some sends some of what is left.
LEMMA WritePassed == ASSUME StreamTypes, Stream!WriteSome PROVE StreamTypes' /\ \E n \in Nat : Passed(n)
<1>1. PICK n \in 1 .. sending.size - sending.offset :
        /\ wire' = wire \o SubSeq(buffer, sending.offset + 1, sending.offset + n)
        /\ Advances(n)
        /\ late' = (failures > 0) /\ UNCHANGED <<buffer, written, failures, readFailures>>
  BY DEF Stream!WriteSome, Stream!Sent, Stream!Drained, Stream!input, Advances
<1>2. SendingFields /\ pptr \in 0 .. Stream!Room
  BY DEF StreamTypes, SendingFields
<1> HIDE DEF SendingFields, Advances
<1>3. /\ SendingFields' /\ pptr' \in 0 .. Stream!Room /\ sending # Stream!None
      /\ sending.offset \in Nat /\ sending.size \in Nat /\ n \in Nat /\ n >= 1
      /\ sending.offset + n <= sending.size /\ sending.size <= OutputSize
      /\ \/ sending.offset + n = sending.size /\ sending'.offset = 0 /\ Held' = 0 /\ pptr' = 0 /\ sending' = Stream!None
         \/ sending.offset + n < sending.size /\ sending'.offset = sending.offset + n /\ Held' = Held /\ sending' # Stream!None
  BY <1>1, <1>2, SendingAdvanced
<1> DEFINE o == sending.offset
           t == SubSeq(buffer, o + 1, o + n)
<1>4. /\ buffer \in Seq(Nat) /\ Len(buffer) = OutputSize /\ wire \in Seq(Nat) /\ OutputSize \in Nat
  BY MessageAssumption DEF StreamTypes, Stream!StreambufAssumption
<1>5. o \in Nat /\ n \in Nat /\ o + n <= Len(buffer)
  BY <1>3, <1>4
<1>6. t \in Seq(Nat) /\ Len(t) = n /\ \A i \in 1 .. n : t[i] = buffer[o + i]
  BY <1>4, <1>5, Piece
<1>7. wire' = wire \o t
  BY <1>1
<1> HIDE DEF t, o
<1>8. /\ wire' \in Seq(Nat) /\ Len(wire') = Len(wire) + n /\ \A i \in 1 .. Len(wire) : wire'[i] = wire[i]
      /\ \A i \in 1 .. n : wire'[Len(wire) + i] = t[i]
  BY <1>4, <1>6, <1>7, Joined
<1>9. \A i \in 1 .. n : wire'[Len(wire) + i] = buffer[sending.offset + i]
  BY <1>6, <1>8 DEF o
<1>10. n \in 1 .. sending.size - sending.offset /\ late' = (failures > 0) /\ late' \in BOOLEAN
       /\ UNCHANGED <<buffer, written, failures, readFailures>>
  BY <1>1
<1>11. StreamTypes'
  <2>1. /\ sending' \in [size : 0 .. OutputSize, offset : 0 .. OutputSize]
        /\ (sending' # Stream!None => sending'.offset < sending'.size /\ sending'.size \in {pptr', pptr' + 1})
    BY <1>3 DEF SendingFields
  <2> QED BY <1>3, <1>8, <1>10, <2>1 DEF StreamTypes
<1>12. Passed(n)
  BY <1>3, <1>8, <1>9, <1>10 DEF Passed
<1> QED BY <1>3, <1>11, <1>12

\* An exception of write_some.
LEMMA WriteFailed == ASSUME StreamTypes, Stream!WriteFails PROVE StreamTypes' /\ Failed
  BY MessageAssumption DEF StreamTypes, Stream!WriteFails, Stream!Abandoned, Failed, Held, Stream!None, Stream!StreambufAssumption, Stream!input

\* sync() and the reading side leave what is held and what was sent.
LEMMA OthersStayed ==
  ASSUME StreamTypes, Stream!Sync \/ Stream!Underflow \/ Stream!ReadFails \/ Stream!GetChar \/ UNCHANGED Stream!vars
  PROVE  StreamTypes' /\ Stayed
<1>1. CASE Stream!Sync
  <2>1. /\ sending = Stream!None /\ sending' = [size |-> pptr, offset |-> 0] /\ pptr > 0
        /\ UNCHANGED <<buffer, pptr, wire, written, late, failures, readFailures>>
    BY <1>1 DEF Stream!Sync, Stream!input
  <2>2. sending' # Stream!None /\ sending'.size = pptr /\ sending'.offset = 0 /\ sending.offset = 0
    BY <2>1 DEF Stream!None, StreamTypes
  <2> QED BY <2>1, <2>2, MessageAssumption DEF StreamTypes, Stayed, Held, Stream!StreambufAssumption, Stream!Room
<1>2. CASE Stream!Underflow \/ Stream!ReadFails \/ Stream!GetChar \/ UNCHANGED Stream!vars
  <2>1. UNCHANGED Stream!output /\ failures' = failures /\ readFailures' \in 0 .. MaxFailures
    BY <1>2, MessageAssumption DEF Stream!Underflow, Stream!ReadFails, Stream!GetChar, Stream!vars, Stream!output, StreamTypes, Stream!StreambufAssumption
  <2> QED BY <2>1 DEF Stream!output, StreamTypes, Stayed, Held
<1> QED BY <1>1, <1>2

\* What the rest needs of the types: numbers.
Numbers ==
  /\ Len(wire) \in Nat /\ Len(written) \in Nat /\ Held \in Nat /\ pptr \in Nat /\ failures \in Nat
  /\ sending.offset \in Nat /\ sending.offset <= Held /\ sending.size \in Nat
  /\ sending = Stream!None => Held = pptr /\ sending.offset = 0
  /\ sending # Stream!None => Held = sending.size /\ Held \in {pptr, pptr + 1}

\* The types give the numbers.
LEMMA NumbersOK == ASSUME StreamTypes PROVE Numbers
<1>1. Len(wire) \in Nat /\ Len(written) \in Nat
  BY LenProperties DEF StreamTypes
<1>2. /\ pptr \in 0 .. Stream!Room /\ failures \in 0 .. MaxFailures /\ OutputSize \in Nat \ {0} /\ MaxFailures \in Nat
      /\ sending \in [size : 0 .. OutputSize, offset : 0 .. OutputSize]
      /\ sending # Stream!None => sending.offset < sending.size /\ sending.size \in {pptr, pptr + 1}
  BY MessageAssumption DEF StreamTypes, Stream!StreambufAssumption
<1> QED BY <1>1, <1>2 DEF Numbers, Held, Stream!None, Stream!Room

\* The characters are numbered and stand in the put area in order; what was sent of it is on the
\* wire.
Numbered == \A i \in 1 .. Len(written) : written[i] = i
Ascending == \A i, j \in 1 .. Held : i < j => buffer[i] < buffer[j]
BufferKnown == \A i \in 1 .. Held : buffer[i] \in 1 .. Len(written)
WireKnown == \A j \in 1 .. Len(wire) : wire[j] \in 1 .. Len(written)
\* What was sent of the put area is on the wire.
OnWire(i) == \E j \in 1 .. Len(wire) : wire[j] = i
SentPart == \A k \in 1 .. sending.offset : OnWire(buffer[k])

Orderly == Numbered /\ Ascending /\ BufferKnown /\ WireKnown /\ SentPart

\* Orderly is kept when a character is added,
LEMMA OrderlyGrew == ASSUME Numbers, Numbers', Orderly, Grew PROVE Orderly'
<1>1. /\ Len(written') = Len(written) + 1 /\ Len(wire') = Len(wire) /\ Held' = Held + 1 /\ Held = pptr
      /\ sending'.offset = 0 /\ Len(written) \in Nat /\ Len(wire) \in Nat /\ Held \in Nat
      /\ buffer'[Held + 1] = Len(written) + 1 /\ \A i \in 1 .. Held : buffer'[i] = buffer[i]
      /\ wire' = wire
  BY DEF Grew, Numbers
<1>2. Numbered'
  BY <1>1 DEF Grew, Orderly, Numbered
<1>3. Ascending' /\ BufferKnown'
  BY <1>1 DEF Orderly, Ascending, BufferKnown
<1>4. WireKnown'
  BY <1>1 DEF Orderly, WireKnown
<1>5. SentPart'
  BY <1>1 DEF SentPart
<1> QED BY <1>2, <1>3, <1>4, <1>5 DEF Orderly

\* when characters are sent,
LEMMA OrderlyPassed == ASSUME Numbers, Numbers', Orderly, NEW n \in Nat, Passed(n) PROVE Orderly'
<1>1. /\ written' = written /\ buffer' = buffer /\ Held' \in {0, Held} /\ Len(wire') = Len(wire) + n
      /\ Len(wire) \in Nat /\ Len(written) \in Nat /\ Held \in Nat /\ sending.offset \in Nat
      /\ n \in 1 .. Held - sending.offset /\ sending'.offset \in {0, sending.offset + n}
      /\ \A i \in 1 .. Len(wire) : wire'[i] = wire[i]
      /\ \A i \in 1 .. n : wire'[Len(wire) + i] = buffer[sending.offset + i]
  BY DEF Passed, Numbers
<1>2. Numbered' /\ Ascending' /\ BufferKnown'
  BY <1>1 DEF Orderly, Numbered, Ascending, BufferKnown
<1>7. /\ Len(wire) \in Nat /\ Len(written) \in Nat /\ Held \in Nat /\ sending.offset \in Nat
      /\ n \in 1 .. Held - sending.offset
  BY <1>1
<1>3. WireKnown'
  <2> SUFFICES ASSUME NEW j \in 1 .. Len(wire) + n PROVE wire'[j] \in 1 .. Len(written)
    BY <1>1 DEF WireKnown
  <2>1. CASE j \in 1 .. Len(wire)
    BY <1>1, <2>1 DEF Orderly, WireKnown
  <2>2. CASE j \notin 1 .. Len(wire)
    <3> DEFINE k == j - Len(wire)
    <3>1. k \in 1 .. n /\ j = Len(wire) + k /\ sending.offset + k \in 1 .. Held
      BY <1>7, <2>2
    <3>2. wire'[Len(wire) + k] = buffer[sending.offset + k]
      BY <1>1, <3>1
    <3>3. buffer[sending.offset + k] \in 1 .. Len(written)
      BY <3>1 DEF Orderly, BufferKnown
    <3> QED BY <3>1, <3>2, <3>3
  <2> QED BY <2>1, <2>2
<1>4. SentPart'
  <2> SUFFICES ASSUME NEW k \in 1 .. sending.offset + n PROVE \E j \in 1 .. Len(wire) + n : wire'[j] = buffer[k]
    <3>1. 1 .. sending'.offset \subseteq 1 .. sending.offset + n
      BY <1>1
    <3> QED BY <1>1, <3>1 DEF SentPart, OnWire
  <2>1. CASE k \in 1 .. sending.offset
    <3>1. PICK j \in 1 .. Len(wire) : wire[j] = buffer[k]
      BY <2>1 DEF Orderly, SentPart, OnWire
    <3> QED BY <1>1, <3>1
  <2>2. CASE k \notin 1 .. sending.offset
    <3> DEFINE i == k - sending.offset
    <3>1. n \in Nat /\ sending.offset \in Nat /\ k \in Nat /\ k >= 1 /\ k <= sending.offset + n
          /\ k > sending.offset
      BY <1>7, <2>2
    <3>2. i \in 1 .. n /\ k = sending.offset + i
      BY <3>1
    <3>3. Len(wire) + i \in 1 .. Len(wire) + n
      BY <1>7, <3>2
    <3> HIDE DEF i
    <3>4. wire'[Len(wire) + i] = buffer[k]
      BY <1>1, <3>2
    <3> QED BY <3>3, <3>4
  <2> QED BY <2>1, <2>2
<1> QED BY <1>2, <1>3, <1>4 DEF Orderly

\* when sending throws: what was sent of the put area is forgotten,
LEMMA OrderlyFailed == ASSUME Numbers, Numbers', Orderly, Failed PROVE Orderly'
<1>1. /\ written' = written /\ buffer' = buffer /\ wire' = wire /\ Held' \in Nat /\ Held \in Nat /\ Held' <= Held
      /\ sending'.offset = 0
  BY DEF Failed, Numbers
<1> QED BY <1>1 DEF Orderly, Numbered, Ascending, BufferKnown, WireKnown, SentPart

\* and otherwise.
LEMMA OrderlyStayed == ASSUME Orderly, Stayed PROVE Orderly'
  BY DEF Stayed, Orderly, Numbered, Ascending, BufferKnown, WireKnown, SentPart, OnWire

\* Without a failure the wire and what is held and not sent make what was written.
InOrder ==
  /\ Len(wire) + (Held - sending.offset) = Len(written) /\ \A j \in 1 .. Len(wire) : wire[j] = j
  /\ \A k \in sending.offset + 1 .. Held : buffer[k] = Len(wire) + (k - sending.offset)
WireInOrder == Len(wire) <= Len(written) /\ \A j \in 1 .. Len(wire) : wire[j] = j

\* The two together: in order until an exception, and the wire in order until a character may be
\* late.
Straight == (failures = 0 => InOrder) /\ (~late => WireInOrder)

\* Straight is kept when a character is added,
LEMMA StraightGrew == ASSUME Numbers, Numbers', Straight, Grew PROVE Straight'
<1>1. /\ Len(written') = Len(written) + 1 /\ wire' = wire /\ Held' = Held + 1 /\ Held = pptr
      /\ sending'.offset = 0 /\ sending.offset = 0 /\ Len(written) \in Nat /\ Len(wire) \in Nat /\ Held \in Nat
      /\ buffer'[Held + 1] = Len(written) + 1 /\ \A i \in 1 .. Held : buffer'[i] = buffer[i]
      /\ failures' = failures /\ late' = late
  BY DEF Grew, Numbers
<1>2. ASSUME InOrder PROVE InOrder'
  <2>1. ASSUME NEW k \in 1 .. Held + 1 PROVE buffer'[k] = Len(wire) + k
    <3>1. CASE k = Held + 1
      BY <1>1, <1>2, <3>1 DEF InOrder
    <3>2. CASE k # Held + 1
      <4>1. k \in 1 .. Held /\ k \in sending.offset + 1 .. Held /\ k - sending.offset = k
        BY <1>1, <3>2
      <4>2. buffer[k] = Len(wire) + (k - sending.offset)
        BY <1>2, <4>1 DEF InOrder
      <4> QED BY <1>1, <4>1, <4>2
    <3> QED BY <3>1, <3>2
  <2>2. /\ sending'.offset + 1 = 1 /\ Held' = Held + 1 /\ Len(wire') = Len(wire)
        /\ \A k \in 1 .. Held + 1 : k - sending'.offset = k
    BY <1>1
  <2>3. \A k \in sending'.offset + 1 .. Held' : buffer'[k] = Len(wire') + (k - sending'.offset)
    BY <2>1, <2>2
  <2>4. Len(wire') + (Held' - sending'.offset) = Len(written')
    BY <1>1, <1>2 DEF InOrder
  <2>5. \A j \in 1 .. Len(wire') : wire'[j] = j
    BY <1>1, <1>2 DEF InOrder
  <2> QED BY <2>3, <2>4, <2>5 DEF InOrder
<1>3. WireInOrder => WireInOrder'
  BY <1>1 DEF WireInOrder
<1> QED BY <1>1, <1>2, <1>3 DEF Straight

\* when characters are sent,
LEMMA StraightPassed == ASSUME Numbers, Numbers', Straight, NEW n \in Nat, Passed(n) PROVE Straight'
<1>1. /\ written' = written /\ buffer' = buffer /\ Len(wire') = Len(wire) + n
      /\ Len(wire) \in Nat /\ Len(written) \in Nat /\ Held \in Nat /\ sending.offset \in Nat
      /\ n \in 1 .. Held - sending.offset /\ failures' = failures /\ late' = (failures > 0) /\ failures \in Nat
      /\ \A i \in 1 .. Len(wire) : wire'[i] = wire[i]
      /\ \A i \in 1 .. n : wire'[Len(wire) + i] = buffer[sending.offset + i]
      /\ \/ sending.offset + n = Held /\ sending'.offset = 0 /\ Held' = 0
         \/ sending'.offset = sending.offset + n /\ Held' = Held
  BY DEF Passed, Numbers
<1>7. /\ Len(wire) \in Nat /\ Len(written) \in Nat /\ Held \in Nat /\ sending.offset \in Nat
      /\ n \in 1 .. Held - sending.offset
  BY <1>1
<1>2. ASSUME InOrder PROVE InOrder'
  <2>1. Len(wire') + (Held' - sending'.offset) = Len(written')
    BY <1>1, <1>2 DEF InOrder
  <2>2. ASSUME NEW j \in 1 .. Len(wire) + n PROVE wire'[j] = j
    <3>1. CASE j \in 1 .. Len(wire)
      <4>1. wire[j] = j
        BY <1>2, <3>1 DEF InOrder
      <4> QED BY <1>1, <3>1, <4>1
    <3>2. CASE j \notin 1 .. Len(wire)
      <4> DEFINE k == j - Len(wire)
                 m == sending.offset + k
      <4>1. k \in 1 .. n /\ j = Len(wire) + k /\ m \in sending.offset + 1 .. Held /\ m - sending.offset = k
        BY <1>7, <3>2
      <4>2. wire'[Len(wire) + k] = buffer[m]
        BY <1>1, <4>1
      <4> HIDE DEF k, m
      <4>3. buffer[m] = Len(wire) + (m - sending.offset)
        BY <1>2, <4>1 DEF InOrder
      <4> QED BY <4>1, <4>2, <4>3
    <3> QED BY <3>1, <3>2
  <2>3. ASSUME NEW k \in sending'.offset + 1 .. Held' PROVE buffer'[k] = Len(wire') + (k - sending'.offset)
    <3>1. /\ k \in sending.offset + 1 .. Held /\ sending'.offset = sending.offset + n /\ k \in Nat
      BY <1>1
    <3>2. buffer[k] = Len(wire) + (k - sending.offset)
      BY <1>2, <3>1 DEF InOrder
    <3>3. Len(wire) + (k - sending.offset) = Len(wire) + n + (k - (sending.offset + n))
      BY <1>1, <3>1
    <3> QED BY <1>1, <3>1, <3>2, <3>3
  <2>4. \A j \in 1 .. Len(wire') : wire'[j] = j
    BY <1>1, <2>2
  <2> QED BY <2>1, <2>3, <2>4 DEF InOrder
<1>3. Held' - sending'.offset >= 0 /\ Held' \in Nat /\ sending'.offset \in Nat
  BY DEF Numbers
<1>4. InOrder' => WireInOrder'
  BY <1>1, <1>3 DEF InOrder, WireInOrder
<1>5. (failures' = 0 => failures = 0) /\ (~(failures > 0) => failures = 0)
  BY <1>1
<1>6. ~late' => ~(failures > 0)
  BY <1>1, Zenon
<1> QED BY <1>2, <1>4, <1>5, <1>6 DEF Straight

\* when sending throws, for it is of streams that never failed,
LEMMA StraightFailed == ASSUME Numbers, Numbers', Straight, Failed PROVE Straight'
  BY DEF Numbers, Straight, Failed, WireInOrder

\* and otherwise.
LEMMA StraightStayed == ASSUME Straight, Stayed PROVE Straight'
  BY DEF Straight, Stayed, InOrder, WireInOrder

\* How often a character is on the wire, and whether it will be sent (again).
Places(i) == {j \in 1 .. Len(wire) : wire[j] = i}
Offered(i) == \E k \in sending.offset + 1 .. Held : buffer[k] = i
Sendings(i) == Cardinality(Places(i)) + (IF Offered(i) THEN 1 ELSE 0)
Resent == \A i \in 1 .. Len(written) : Sendings(i) <= 1 + failures

\* Places in a sequence are finitely many.
LEMMA FewPlaces ==
  ASSUME NEW n \in Nat, NEW S \in SUBSET (1 .. n)
  PROVE  IsFiniteSet(S) /\ Cardinality(S) \in Nat
<1>1. IsFiniteSet(1 .. n)
  BY FS_Interval
<1>2. IsFiniteSet(S)
  BY <1>1, FS_Subset
<1> QED BY <1>2, FS_CardinalityType

\* The places of a character on the wire are counted in numbers.
LEMMA PlacesFinite ==
  ASSUME Numbers, Numbers', NEW i
  PROVE  /\ IsFiniteSet(Places(i)) /\ Cardinality(Places(i)) \in Nat /\ Cardinality(Places(i)') \in Nat
         /\ Sendings(i) \in Nat /\ Sendings(i)' \in Nat
<1>1. Len(wire) \in Nat /\ Len(wire') \in Nat
  BY DEF Numbers
<1>2. Places(i) \in SUBSET (1 .. Len(wire)) /\ Places(i)' \in SUBSET (1 .. Len(wire'))
  BY DEF Places
<1>3. IsFiniteSet(Places(i)) /\ Cardinality(Places(i)) \in Nat /\ Cardinality(Places(i)') \in Nat
  BY <1>1, <1>2, FewPlaces
<1> HIDE DEF Places, Offered
<1> QED BY <1>3 DEF Sendings

\* Resent is kept when a character is added: it is a new one,
LEMMA ResentGrew == ASSUME Numbers, Numbers', Orderly, Resent, Grew PROVE Resent'
<1>1. /\ Len(written') = Len(written) + 1 /\ wire' = wire /\ Held' = Held + 1
      /\ sending'.offset = 0 /\ sending.offset = 0 /\ Len(written) \in Nat /\ Len(wire) \in Nat /\ Held \in Nat
      /\ buffer'[Held + 1] = Len(written) + 1 /\ \A i \in 1 .. Held : buffer'[i] = buffer[i]
      /\ failures' = failures /\ failures \in Nat
  BY DEF Grew, Numbers
<1>2. ASSUME NEW i \in 1 .. Len(written) + 1 PROVE Sendings(i)' <= 1 + failures
  <2>1. Places(i)' = Places(i) /\ Cardinality(Places(i)) \in Nat
    BY <1>1, PlacesFinite DEF Places
  <2>2. CASE i = Len(written) + 1
    <3>1. Places(i) = {}
      BY <1>1, <2>2 DEF Places, Orderly, WireKnown
    <3>2. Cardinality(Places(i)') = 0
      BY <2>1, <3>1, FS_EmptySet
    <3> QED BY <1>1, <3>2 DEF Sendings
  <2>3. CASE i # Len(written) + 1
    <3>1. i \in 1 .. Len(written)
      BY <1>1, <2>3
    <3>2. Offered(i)' => Offered(i)
      <4> SUFFICES ASSUME NEW k \in 1 .. Held + 1, buffer'[k] = i PROVE Offered(i)
        BY <1>1 DEF Offered
      <4>1. k \in 1 .. Held
        BY <1>1, <2>3
      <4> QED BY <1>1, <4>1 DEF Offered
    <3>3. Sendings(i) <= 1 + failures
      BY <3>1 DEF Resent
    <3> HIDE DEF Offered, Places
    <3> QED BY <1>1, <2>1, <3>2, <3>3 DEF Sendings
  <2> QED BY <2>2, <2>3
<1> QED BY <1>1, <1>2 DEF Resent

\* when characters are sent: each was offered and is on the wire once more,
LEMMA ResentPassed == ASSUME Numbers, Numbers', Orderly, Resent, NEW n \in Nat, Passed(n) PROVE Resent'
<1>1. /\ Len(wire') = Len(wire) + n /\ Len(wire) \in Nat /\ Held \in Nat /\ sending.offset \in Nat
      /\ n \in 1 .. Held - sending.offset /\ failures' = failures /\ failures \in Nat
  BY DEF Passed, Numbers
<1>2. /\ \A j \in 1 .. Len(wire) : wire'[j] = wire[j]
      /\ \A k \in 1 .. n : wire'[Len(wire) + k] = buffer[sending.offset + k]
      /\ written' = written /\ buffer' = buffer
  BY DEF Passed
<1>3. \/ Held' = 0 /\ sending'.offset = 0
      \/ sending'.offset = sending.offset + n /\ Held' = Held
  BY DEF Passed
<1>4. ASSUME NEW i \in 1 .. Len(written) PROVE Sendings(i)' <= Sendings(i)
  <2>1. /\ IsFiniteSet(Places(i)) /\ Cardinality(Places(i)) \in Nat /\ Cardinality(Places(i)') \in Nat
    BY PlacesFinite
  <2>2. Offered(i)' => Offered(i)
    <3> SUFFICES ASSUME NEW k \in sending'.offset + 1 .. Held', buffer'[k] = i PROVE Offered(i)
      BY DEF Offered
    <3>1. (sending'.offset = sending.offset + n /\ Held' = Held) \/ (Held' = 0 /\ sending'.offset = 0)
      BY <1>3
    <3>2. CASE Held' = 0 /\ sending'.offset = 0
      BY <3>2
    <3>3. CASE sending'.offset = sending.offset + n /\ Held' = Held
      <4>1. k \in sending.offset + 1 .. Held
        BY <1>1, <3>3
      <4> QED BY <1>2, <4>1 DEF Offered
    <3> QED BY <3>1, <3>2, <3>3
  <2>3. CASE \E k \in 1 .. n : buffer[sending.offset + k] = i
    <3>1. PICK k \in 1 .. n : buffer[sending.offset + k] = i
      BY <2>3
    <3> DEFINE p == Len(wire) + k
               m == sending.offset + k
    <3>2. m \in sending.offset + 1 .. Held /\ m \in 1 .. Held /\ p \in Nat /\ m \in Nat
      BY <1>1
    <3>3. ASSUME NEW h \in 1 .. Held, buffer[h] = i PROVE h = m
      <4>1. buffer[m] = i /\ i \in Nat
        BY <3>1
      <4> HIDE DEF m
      <4>2. (h < m => buffer[h] < buffer[m]) /\ (m < h => buffer[m] < buffer[h])
        BY <3>2 DEF Orderly, Ascending
      <4> QED BY <3>2, <3>3, <4>1, <4>2
    <3>4. Offered(i)
      BY <3>1, <3>2 DEF Offered
    <3>5. ~Offered(i)'
      <4> SUFFICES ASSUME NEW h \in sending.offset + n + 1 .. Held, buffer[h] = i PROVE FALSE
        BY <1>1, <1>2, <1>3 DEF Offered
      <4>1. h \in 1 .. Held /\ h # m
        BY <1>1
      <4> QED BY <3>3, <4>1
    <3>6. Places(i)' \subseteq Places(i) \cup {p}
      <4> SUFFICES ASSUME NEW j \in 1 .. Len(wire) + n, wire'[j] = i PROVE j \in Places(i) \cup {p}
        BY <1>1 DEF Places
      <4>1. CASE j \in 1 .. Len(wire)
        BY <1>2, <4>1 DEF Places
      <4>2. CASE j \notin 1 .. Len(wire)
        <5> DEFINE g == j - Len(wire)
                   q == sending.offset + g
        <5>1. g \in 1 .. n /\ j = Len(wire) + g /\ q \in 1 .. Held
          BY <1>1, <4>2
        <5>2. wire'[Len(wire) + g] = buffer[q]
          BY <1>2, <5>1
        <5>3. q = m
          <6> HIDE DEF q, m, g
          <6> QED BY <3>3, <5>1, <5>2
        <5>4. g = k
          <6>1. g \in Nat /\ k \in Nat /\ sending.offset \in Nat /\ sending.offset + g = sending.offset + k
            BY <1>1, <5>1, <5>3
          <6> HIDE DEF g
          <6> QED BY <6>1
        <5>5. j = p
          BY <5>1, <5>4
        <5> QED BY <5>5
      <4> QED BY <4>1, <4>2
    <3> HIDE DEF p
    <3>7. /\ IsFiniteSet(Places(i) \cup {p})
          /\ Cardinality(Places(i) \cup {p}) = IF p \in Places(i) THEN Cardinality(Places(i)) ELSE Cardinality(Places(i)) + 1
      BY <2>1, FS_AddElement
    <3>8. Cardinality(Places(i)') <= Cardinality(Places(i) \cup {p})
      BY <3>6, <3>7, FS_Subset
    <3>9. Cardinality(Places(i)') <= Cardinality(Places(i)) + 1
      BY <2>1, <3>7, <3>8
    <3> HIDE DEF Places, Offered
    <3> QED BY <2>1, <3>4, <3>5, <3>9 DEF Sendings
  <2>4. CASE ~\E k \in 1 .. n : buffer[sending.offset + k] = i
    <3>1. Places(i)' \subseteq Places(i)
      <4> SUFFICES ASSUME NEW j \in 1 .. Len(wire) + n, wire'[j] = i PROVE j \in Places(i)
        BY <1>1 DEF Places
      <4>1. j \in 1 .. Len(wire)
        <5> SUFFICES ASSUME j \notin 1 .. Len(wire) PROVE FALSE
          OBVIOUS
        <5> DEFINE g == j - Len(wire)
        <5>1. g \in 1 .. n /\ j = Len(wire) + g
          BY <1>1
        <5> HIDE DEF g
        <5> QED BY <1>2, <2>4, <5>1
      <4> QED BY <1>2, <4>1 DEF Places
    <3>2. Cardinality(Places(i)') <= Cardinality(Places(i))
      BY <2>1, <3>1, FS_Subset
    <3> HIDE DEF Places, Offered
    <3> QED BY <2>1, <2>2, <3>2 DEF Sendings
  <2> QED BY <2>3, <2>4
<1>5. ASSUME NEW i \in 1 .. Len(written) PROVE Sendings(i) \in Nat /\ Sendings(i)' \in Nat
  BY PlacesFinite DEF Sendings
<1> HIDE DEF Sendings
<1> QED BY <1>1, <1>2, <1>4, <1>5 DEF Resent

\* when sending throws: the failure pays for offering the put area again,
LEMMA ResentFailed == ASSUME Numbers, Numbers', Resent, Failed PROVE Resent'
<1>1. failures' = failures + 1 /\ failures \in Nat /\ wire' = wire /\ written' = written
  BY DEF Failed, Numbers
<1>2. ASSUME NEW i \in 1 .. Len(written) PROVE Sendings(i)' <= 1 + failures'
  <2>1. Places(i)' = Places(i) /\ Cardinality(Places(i)) \in Nat
    BY <1>1, PlacesFinite DEF Places
  <2>2. Sendings(i) <= 1 + failures
    BY DEF Resent
  <2> HIDE DEF Places, Offered
  <2> QED BY <1>1, <2>1, <2>2 DEF Sendings
<1> QED BY <1>1, <1>2 DEF Resent

\* and otherwise.
LEMMA ResentStayed == ASSUME Resent, Stayed PROVE Resent'
<1>1. /\ failures' = failures /\ wire' = wire /\ written' = written /\ buffer' = buffer /\ Held' = Held
      /\ sending'.offset = sending.offset
  BY DEF Stayed
<1>2. ASSUME NEW i PROVE Sendings(i)' = Sendings(i)
  BY <1>1 DEF Sendings, Places, Offered
<1> HIDE DEF Sendings
<1> QED BY <1>1, <1>2 DEF Resent

\* The characters that are neither on the wire nor held: one at most for each failure.
Lost == {i \in 1 .. Len(written) : ~OnWire(i) /\ \A k \in 1 .. Held : buffer[k] # i}
FewLost == Cardinality(Lost) <= failures

\* The lost characters are counted in numbers.
LEMMA LostFinite ==
  ASSUME Numbers, Numbers'
  PROVE  IsFiniteSet(Lost) /\ Cardinality(Lost) \in Nat /\ Cardinality(Lost') \in Nat
<1>1. Len(written) \in Nat /\ Len(written') \in Nat
  BY DEF Numbers
<1>2. Lost \in SUBSET (1 .. Len(written)) /\ Lost' \in SUBSET (1 .. Len(written'))
  BY DEF Lost
<1> QED BY <1>1, <1>2, FewPlaces

\* FewLost is kept when a character is added: it is held,
LEMMA LostGrew == ASSUME Numbers, Numbers', FewLost, Grew PROVE FewLost'
<1>1. /\ Len(written') = Len(written) + 1 /\ wire' = wire /\ Held' = Held + 1
      /\ Len(written) \in Nat /\ Held \in Nat
      /\ buffer'[Held + 1] = Len(written) + 1 /\ \A i \in 1 .. Held : buffer'[i] = buffer[i]
      /\ failures' = failures
  BY DEF Grew, Numbers
<1>2. Lost' \subseteq Lost
  <2> SUFFICES ASSUME NEW i \in 1 .. Len(written) + 1, ~OnWire(i)', \A k \in 1 .. Held + 1 : buffer'[k] # i
               PROVE  i \in Lost
    BY <1>1 DEF Lost
  <2>1. i # Len(written) + 1
    BY <1>1
  <2>2. \A k \in 1 .. Held : buffer[k] # i
    BY <1>1
  <2>3. i \in 1 .. Len(written)
    BY <1>1, <2>1
  <2>4. ~OnWire(i)
    BY <1>1 DEF OnWire
  <2> QED BY <2>2, <2>3, <2>4 DEF Lost
<1>3. Cardinality(Lost') <= Cardinality(Lost)
  BY <1>2, LostFinite, FS_Subset
<1>4. Cardinality(Lost') \in Nat /\ Cardinality(Lost) \in Nat /\ failures \in Nat
  BY LostFinite DEF Numbers
<1> HIDE DEF Lost
<1> QED BY <1>1, <1>3, <1>4 DEF FewLost

\* when characters are sent: what leaves the put area is on the wire,
LEMMA LostPassed == ASSUME Numbers, Numbers', Orderly, FewLost, NEW n \in Nat, Passed(n) PROVE FewLost'
<1>1. /\ Len(wire') = Len(wire) + n /\ Len(wire) \in Nat /\ Held \in Nat /\ sending.offset \in Nat
      /\ n \in 1 .. Held - sending.offset /\ failures' = failures /\ failures \in Nat
  BY DEF Passed, Numbers
<1>2. /\ \A j \in 1 .. Len(wire) : wire'[j] = wire[j]
      /\ \A k \in 1 .. n : wire'[Len(wire) + k] = buffer[sending.offset + k]
      /\ written' = written /\ buffer' = buffer
  BY DEF Passed
<1>3. (sending.offset + n = Held /\ Held' = 0) \/ Held' = Held
  BY DEF Passed, Numbers
<1>4. ASSUME NEW i, OnWire(i) PROVE OnWire(i)'
  <2>1. PICK j \in 1 .. Len(wire) : wire[j] = i
    BY <1>4 DEF OnWire
  <2>2. j \in 1 .. Len(wire') /\ wire'[j] = i
    BY <1>1, <1>2, <2>1
  <2> QED BY <2>2 DEF OnWire
<1>5. ASSUME NEW k \in 1 .. sending.offset + n PROVE OnWire(buffer[k])'
  <2>1. SentPart'
    BY OrderlyPassed DEF Orderly
  <2>2. CASE sending'.offset = sending.offset + n
    BY <1>2, <2>1, <2>2 DEF SentPart
  <2>3. CASE k \in 1 .. sending.offset
    <3>1. OnWire(buffer[k])
      BY <2>3 DEF Orderly, SentPart
    <3> QED BY <1>2, <1>4, <3>1
  <2>4. CASE k \notin 1 .. sending.offset
    <3> DEFINE g == k - sending.offset
               p == Len(wire) + g
    <3>1. g \in 1 .. n /\ k = sending.offset + g /\ p \in 1 .. Len(wire')
      BY <1>1, <2>4
    <3>2. wire'[p] = buffer'[k]
      BY <1>2, <3>1
    <3> HIDE DEF p, g
    <3> QED BY <3>1, <3>2 DEF OnWire
  <2> QED BY <2>3, <2>4
<1>6. Lost' \subseteq Lost
  <2> SUFFICES ASSUME NEW i \in 1 .. Len(written), ~OnWire(i)', \A k \in 1 .. Held' : buffer[k] # i
               PROVE  i \in Lost
    BY <1>2 DEF Lost
  <2>1. ~OnWire(i)
    BY <1>4
  <2>2. ASSUME NEW k \in 1 .. Held, buffer[k] = i PROVE FALSE
    <3>1. CASE Held' = Held
      BY <2>2, <3>1
    <3>2. CASE sending.offset + n = Held
      <4>1. OnWire(buffer[k])'
        BY <1>5, <3>2
      <4> QED BY <1>2, <2>2, <4>1
    <3> QED BY <1>3, <3>1, <3>2
  <2> QED BY <2>1, <2>2 DEF Lost
<1>7. Cardinality(Lost') <= Cardinality(Lost)
  BY <1>6, LostFinite, FS_Subset
<1>8. Cardinality(Lost') \in Nat /\ Cardinality(Lost) \in Nat
  BY LostFinite
<1> HIDE DEF Lost
<1> QED BY <1>1, <1>7, <1>8 DEF FewLost

\* when sending throws: only the character of the overflow's slot is lost,
LEMMA LostFailed == ASSUME Numbers, Numbers', FewLost, Failed PROVE FewLost'
<1>1. /\ failures' = failures + 1 /\ failures \in Nat /\ wire' = wire /\ written' = written /\ buffer' = buffer
      /\ Held' = pptr /\ Held \in {pptr, pptr + 1} /\ pptr \in Nat
  BY DEF Failed, Numbers
<1>2. Lost' \subseteq Lost \cup {buffer[pptr + 1]}
  <2> SUFFICES ASSUME NEW i \in 1 .. Len(written), ~OnWire(i), \A k \in 1 .. pptr : buffer[k] # i
               PROVE  i \in Lost \cup {buffer[pptr + 1]}
    BY <1>1 DEF Lost, OnWire
  <2> SUFFICES ASSUME NEW k \in 1 .. Held, buffer[k] = i PROVE i = buffer[pptr + 1]
    BY DEF Lost
  <2>1. k = pptr + 1
    BY <1>1
  <2> QED BY <2>1
<1>3. /\ IsFiniteSet(Lost) /\ Cardinality(Lost) \in Nat /\ Cardinality(Lost') \in Nat
  BY LostFinite
<1>4. /\ IsFiniteSet(Lost \cup {buffer[pptr + 1]})
      /\ Cardinality(Lost \cup {buffer[pptr + 1]})
         = IF buffer[pptr + 1] \in Lost THEN Cardinality(Lost) ELSE Cardinality(Lost) + 1
  BY <1>3, FS_AddElement
<1>5. Cardinality(Lost') <= Cardinality(Lost \cup {buffer[pptr + 1]})
  BY <1>2, <1>4, FS_Subset
<1> HIDE DEF Lost
<1>6. Cardinality(Lost') <= Cardinality(Lost) + 1
  BY <1>3, <1>4, <1>5
<1> QED BY <1>1, <1>3, <1>6 DEF FewLost

\* and otherwise.
LEMMA LostStayed == ASSUME FewLost, Stayed PROVE FewLost'
<1>1. Lost' = Lost /\ failures' = failures
  BY DEF Stayed, Lost, OnWire
<1> QED BY <1>1 DEF FewLost

\* The inductive invariant of the output side.
StreamInv == StreamTypes /\ Orderly /\ Straight /\ Resent /\ FewLost

\* A new stream has nothing to send.
LEMMA StreamInit == ASSUME Stream!Init PROVE StreamInv
<1>1. OutputSize \in Nat \ {0} /\ MaxFailures \in Nat
  BY MessageAssumption DEF Stream!StreambufAssumption
<1>2. buffer \in Seq(Nat) /\ Len(buffer) = OutputSize
  <2>1. buffer \in [1 .. OutputSize -> Nat] /\ OutputSize \in Nat
    BY <1>1 DEF Stream!Init
  <2>2. buffer \in Seq(Nat)
    BY <2>1, SeqDef
  <2> QED BY <2>1, <2>2, LenProperties
<1>3. /\ wire = <<>> /\ written = <<>> /\ Len(wire) = 0 /\ Len(written) = 0 /\ pptr = 0 /\ sending = Stream!None
      /\ Held = 0 /\ sending.offset = 0 /\ failures = 0 /\ readFailures = 0 /\ late = FALSE
  BY DEF Stream!Init, Held, Stream!None
<1>4. StreamTypes
  <2>1. sending \in [size : 0 .. OutputSize, offset : 0 .. OutputSize] /\ 0 \in 0 .. Stream!Room /\ 0 \in 0 .. MaxFailures
    BY <1>1, <1>3 DEF Stream!None, Stream!Room
  <2>2. <<>> \in Seq(Nat)
    BY EmptySeq
  <2> QED BY <1>2, <1>3, <2>1, <2>2 DEF StreamTypes
<1>5. Orderly
  BY <1>3 DEF Orderly, Numbered, Ascending, BufferKnown, WireKnown, SentPart
<1>6. Straight
  BY <1>3 DEF Straight, InOrder, WireInOrder
<1>7. Resent
  BY <1>3 DEF Resent
<1>8. FewLost
  <2>1. Lost = {}
    BY <1>3 DEF Lost
  <2>2. Cardinality(Lost) = 0
    BY <2>1, FS_EmptySet
  <2> QED BY <1>3, <2>2 DEF FewLost
<1> QED BY <1>4, <1>5, <1>6, <1>7, <1>8 DEF StreamInv

\* Every step of the stream keeps it.
LEMMA StreamNext == ASSUME StreamInv, Stream!Next \/ UNCHANGED Stream!vars PROVE StreamInv'
<1>1. StreamTypes /\ Orderly /\ Straight /\ Resent /\ FewLost
  BY DEF StreamInv
<1>2. Numbers /\ (StreamTypes' => Numbers')
  <2>1. Numbers
    BY <1>1, NumbersOK
  <2>2. ASSUME StreamTypes' PROVE Numbers'
    <3>1. Len(wire') \in Nat /\ Len(written') \in Nat
      BY <2>2, LenProperties DEF StreamTypes
    <3>2. /\ pptr' \in 0 .. Stream!Room /\ failures' \in 0 .. MaxFailures /\ OutputSize \in Nat \ {0} /\ MaxFailures \in Nat
          /\ sending' \in [size : 0 .. OutputSize, offset : 0 .. OutputSize]
          /\ (sending' # Stream!None => sending'.offset < sending'.size /\ sending'.size \in {pptr', pptr' + 1})
      BY <2>2, MessageAssumption DEF StreamTypes, Stream!StreambufAssumption
    <3> QED BY <3>1, <3>2 DEF Numbers, Held, Stream!None, Stream!Room
  <2> QED BY <2>1, <2>2
<1>3. CASE Stream!Put \/ Stream!Overflow
  <2>1. StreamTypes' /\ Grew
    BY <1>1, <1>3, PutGrew
  <2> QED BY <1>1, <1>2, <2>1, OrderlyGrew, StraightGrew, ResentGrew, LostGrew DEF StreamInv
<1>4. CASE Stream!WriteSome
  <2>1. StreamTypes' /\ \E n \in Nat : Passed(n)
    BY <1>1, <1>4, WritePassed
  <2>2. PICK n \in Nat : Passed(n)
    BY <2>1
  <2> QED BY <1>1, <1>2, <2>1, <2>2, OrderlyPassed, StraightPassed, ResentPassed, LostPassed DEF StreamInv
<1>5. CASE Stream!WriteFails
  <2>1. StreamTypes' /\ Failed
    BY <1>1, <1>5, WriteFailed
  <2> QED BY <1>1, <1>2, <2>1, OrderlyFailed, StraightFailed, ResentFailed, LostFailed DEF StreamInv
<1>6. CASE Stream!Sync \/ Stream!Underflow \/ Stream!ReadFails \/ Stream!GetChar \/ UNCHANGED Stream!vars
  <2>1. StreamTypes' /\ Stayed
    BY <1>1, <1>6, OthersStayed
  <2> QED BY <1>1, <2>1, OrderlyStayed, StraightStayed, ResentStayed, LostStayed DEF StreamInv
<1> QED BY <1>3, <1>4, <1>5, <1>6 DEF Stream!Next

\* What the invariant says of the properties.
LEMMA SendsInOrder == ASSUME StreamInv PROVE Stream!SentInOrder
<1> SUFFICES ASSUME failures = 0 PROVE wire \o Stream!Unsent = written
  BY DEF Stream!SentInOrder
<1>1. StreamTypes /\ Numbers /\ Orderly /\ InOrder
  BY NumbersOK DEF StreamInv, Straight
<1> DEFINE o == sending.offset
           n == Held - o
           t == SubSeq(buffer, o + 1, o + n)
<1>2. o \in Nat /\ n \in Nat /\ o + n = Held /\ Held <= OutputSize
  <2>1. o \in Nat /\ Held \in Nat /\ o <= Held
    BY <1>1 DEF Numbers
  <2>2. Held <= OutputSize
    BY <1>1, MessageAssumption DEF StreamTypes, Held, Stream!StreambufAssumption, Stream!Room
  <2> QED BY <2>1, <2>2
<1>3. Stream!Unsent = t
  <2>1. CASE sending = Stream!None
    BY <1>1, <1>2, <2>1 DEF Stream!Unsent, Held, Numbers
  <2>2. CASE sending # Stream!None
    BY <1>1, <1>2, <2>2 DEF Stream!Unsent, Held
  <2> QED BY <2>1, <2>2
<1>4. o + n <= Len(buffer) /\ buffer \in Seq(Nat) /\ wire \in Seq(Nat) /\ written \in Seq(Nat)
  BY <1>1, <1>2 DEF StreamTypes
<1>5. Len(wire) + n = Len(written) /\ Len(wire) \in Nat
  BY <1>1 DEF InOrder, Numbers
<1>6. \A i \in 1 .. n : buffer[o + i] = Len(wire) + i
  <2> SUFFICES ASSUME NEW i \in 1 .. n PROVE buffer[o + i] = Len(wire) + i
    OBVIOUS
  <2> DEFINE m == o + i
  <2>1. m \in o + 1 .. Held /\ m - o = i
    BY <1>2
  <2> HIDE DEF m
  <2>2. buffer[m] = Len(wire) + (m - o)
    BY <1>1, <2>1 DEF InOrder
  <2> QED BY <2>1, <2>2 DEF m
<1> HIDE DEF n, o
<1>7. t \in Seq(Nat) /\ Len(t) = n /\ \A i \in 1 .. n : t[i] = buffer[o + i]
  BY <1>2, <1>4, Piece
<1> HIDE DEF t
<1>8. /\ wire \o t \in Seq(Nat) /\ Len(wire \o t) = Len(wire) + Len(t)
      /\ \A i \in 1 .. Len(wire) : (wire \o t)[i] = wire[i]
      /\ \A i \in 1 .. Len(t) : (wire \o t)[Len(wire) + i] = t[i]
  BY <1>4, <1>7, Joined
<1> DEFINE w == wire \o t
<1> HIDE DEF w
<1>9. w \in Seq(Nat) /\ Len(w) = Len(written)
  BY <1>5, <1>7, <1>8 DEF w
<1>10. ASSUME NEW i \in 1 .. Len(written) PROVE w[i] = written[i]
  <2>1. written[i] = i
    BY <1>1 DEF Orderly, Numbered
  <2>2. CASE i \in 1 .. Len(wire)
    <3>1. wire[i] = i
      BY <1>1, <2>2 DEF InOrder
    <3> QED BY <1>8, <2>1, <2>2, <3>1 DEF w
  <2>3. CASE i \notin 1 .. Len(wire)
    <3> DEFINE k == i - Len(wire)
    <3>1. k \in 1 .. n /\ i = Len(wire) + k
      BY <1>2, <1>5, <2>3
    <3> HIDE DEF k
    <3>2. w[i] = t[k]
      BY <1>7, <1>8, <3>1 DEF w
    <3>3. t[k] = i
      BY <1>6, <1>7, <3>1
    <3> QED BY <2>1, <3>2, <3>3
  <2> QED BY <2>2, <2>3
<1>11. w = written
  BY <1>4, <1>9, <1>10, SeqEqual
<1> QED BY <1>3, <1>11 DEF w

\* The wire is a prefix of what was written, until the character that came to an overflow after a
\* failure.
LEMMA SendsPrefix == ASSUME StreamInv PROVE Stream!PrefixUntilLate
<1> SUFFICES ASSUME ~late PROVE Stream!IsPrefix(wire, written)
  BY DEF Stream!PrefixUntilLate
<1>1. StreamTypes /\ Numbers /\ Numbered /\ WireInOrder
  BY NumbersOK DEF StreamInv, Straight, Orderly
<1> DEFINE n == Len(wire)
<1>2. n \in Nat /\ n <= Len(written) /\ Len(written) \in Nat /\ wire \in Seq(Nat) /\ written \in Seq(Nat)
  BY <1>1 DEF Numbers, WireInOrder, StreamTypes
<1> DEFINE p == SubSeq(written, 1, n)
<1>3. p \in Seq(Nat) /\ Len(p) = n /\ \A i \in 1 .. n : p[i] = written[i]
  <2>1. /\ SubSeq(written, 0 + 1, 0 + n) \in Seq(Nat) /\ Len(SubSeq(written, 0 + 1, 0 + n)) = n
        /\ \A i \in 1 .. n : SubSeq(written, 0 + 1, 0 + n)[i] = written[0 + i]
    <3> HIDE DEF n
    <3>1. 0 \in Nat /\ 0 + n <= Len(written)
      BY <1>2
    <3> QED BY <1>2, <3>1, Piece
  <2>2. 0 + 1 = 1 /\ 0 + n = n /\ \A i \in 1 .. n : 0 + i = i
    BY <1>2
  <2> QED BY <2>1, <2>2, Zenon
<1> HIDE DEF p
<1>4. p = wire
  <2>1. ASSUME NEW i \in 1 .. Len(wire) PROVE wire[i] = p[i]
    <3>1. i \in 1 .. Len(written)
      BY <1>2
    <3>2. written[i] = i
      BY <1>1, <3>1 DEF Numbered
    <3>3. wire[i] = i
      BY <1>1 DEF WireInOrder
    <3>4. p[i] = written[i]
      BY <1>3
    <3> QED BY <3>2, <3>3, <3>4
  <2> QED BY <1>2, <1>3, <2>1, SeqEqual
<1>5. SubSeq(wire, 1, Len(wire)) = wire
  BY <1>2, SubSeqFull
<1> QED BY <1>2, <1>4, <1>5 DEF Stream!IsPrefix, p

\* FiniteSets as Streambuf has it.
LEMMA SameCardinality == \A S : Stream!Cardinality(S) = Cardinality(S)
  BY DEF Stream!Cardinality, Cardinality

\* No character is sent more often than failures allow.
LEMMA Resends == ASSUME StreamInv PROVE Stream!ResentOncePerFailure
<1>1. Numbers /\ Resent /\ written \in Seq(Nat)
  BY NumbersOK DEF StreamInv, StreamTypes
<1>2. DOMAIN written = 1 .. Len(written) /\ DOMAIN wire = 1 .. Len(wire)
  BY LenProperties DEF StreamInv, StreamTypes
<1>3. ASSUME NEW i \in 1 .. Len(written) PROVE Cardinality({j \in 1 .. Len(wire) : wire[j] = i}) <= 1 + failures
  <2>1. Sendings(i) <= 1 + failures
    BY <1>1 DEF Resent
  <2>2. Cardinality(Places(i)) \in Nat
    <3>1. Places(i) \in SUBSET (1 .. Len(wire)) /\ Len(wire) \in Nat
      BY <1>1 DEF Places, Numbers
    <3> QED BY <3>1, FewPlaces
  <2>3. Cardinality(Places(i)) <= 1 + failures
    <3> HIDE DEF Places, Offered
    <3> QED BY <1>1, <2>1, <2>2 DEF Sendings, Numbers
  <2> QED BY <2>3 DEF Places
<1> QED BY <1>2, <1>3, SameCardinality DEF Stream!ResentOncePerFailure

\* No more characters are lost than there were failures.
LEMMA Loses == ASSUME StreamInv PROVE Stream!LostOncePerFailure
<1> SUFFICES ASSUME sending = Stream!None, pptr = 0
             PROVE  Cardinality({i \in DOMAIN written : \A j \in DOMAIN wire : wire[j] # i}) <= failures
  BY SameCardinality DEF Stream!LostOncePerFailure
<1>1. DOMAIN written = 1 .. Len(written) /\ DOMAIN wire = 1 .. Len(wire)
  BY LenProperties DEF StreamInv, StreamTypes
<1>2. Held = 0
  BY DEF Held
<1>3. {i \in DOMAIN written : \A j \in DOMAIN wire : wire[j] # i} = Lost
  BY <1>1, <1>2 DEF Lost, OnWire
<1> QED BY <1>3 DEF StreamInv, FewLost

\* The types of both sides.
LEMMA StreamTyped == ASSUME StreamInv PROVE Stream!TypeOK
<1>1. /\ Len(buffer) = OutputSize /\ pptr \in 0 .. Stream!Room /\ late \in BOOLEAN
      /\ failures \in 0 .. MaxFailures /\ readFailures \in 0 .. MaxFailures
  BY DEF StreamInv, StreamTypes
<1>2. sending.size <= OutputSize /\ sending.offset <= sending.size
  <2>1. sending \in [size : 0 .. OutputSize, offset : 0 .. OutputSize] /\ OutputSize \in Nat
        /\ (sending # Stream!None => sending.offset < sending.size)
    BY MessageAssumption DEF StreamInv, StreamTypes, Stream!StreambufAssumption
  <2> QED BY <2>1 DEF Stream!None
<1> QED BY <1>1, <1>2 DEF Stream!TypeOK

\* Joining is associative.
LEMMA Associative == \A s, t, u \in Seq(Nat) : (s \o t) \o u = s \o (t \o u)
<1> TAKE s, t, u \in Seq(Nat)
<1> QED BY ConcatAssociative

\* The reader's side: what was read, is in the get area and is to come make what the peer sent.
ReadTypes == arrived \in Seq(Nat) /\ get \in Seq(Nat) /\ taken \in Seq(Nat)
ReadInv == ReadTypes /\ Stream!ReadInOrder

\* Nothing is read at first.
LEMMA ReadInit == ASSUME Stream!Init PROVE ReadInv
<1> DEFINE a == [i \in 1 .. MaxChars |-> i]
<1>1. arrived = a /\ get = <<>> /\ taken = <<>>
  BY DEF Stream!Init
<1>2. a \in Seq(Nat) /\ <<>> \in Seq(Nat)
  <2>1. a \in [1 .. MaxChars -> Nat] /\ MaxChars \in Nat
    BY MessageAssumption DEF Stream!StreambufAssumption
  <2> QED BY <2>1, SeqDef, EmptySeq
<1> HIDE DEF a
<1>3. <<>> \o <<>> = <<>> /\ <<>> \o a = a
  BY <1>2, ConcatEmptySeq
<1> QED BY <1>1, <1>2, <1>3 DEF ReadInv, ReadTypes, Stream!ReadInOrder, a

\* underflow, its failure and the reader take what arrived in order.
LEMMA ReadNext == ASSUME ReadInv, Stream!Next \/ UNCHANGED Stream!vars PROVE ReadInv'
<1>1. arrived \in Seq(Nat) /\ get \in Seq(Nat) /\ taken \in Seq(Nat)
  BY DEF ReadInv, ReadTypes
<1>2. CASE Stream!Underflow
  <2>1. PICK n \in 1 .. InputSize :
          /\ n <= Len(arrived) /\ get = <<>> /\ get' = SubSeq(arrived, 1, n)
          /\ arrived' = SubSeq(arrived, n + 1, Len(arrived)) /\ taken' = taken
    BY <1>2 DEF Stream!Underflow, Stream!Filled
  <2>2. n \in Nat /\ n >= 1 /\ n \in 1 .. Len(arrived) /\ Len(arrived) \in Nat /\ Len(arrived) \in n .. Len(arrived)
        /\ 1 \in 1 .. Len(arrived) + 1 /\ n \in 1 - 1 .. Len(arrived)
    <3>1. Len(arrived) \in Nat /\ InputSize \in Nat
      BY <1>1, LenProperties, MessageAssumption DEF Stream!StreambufAssumption
    <3> QED BY <2>1, <3>1
  <2>3. SubSeq(arrived, 1, n) \o SubSeq(arrived, n + 1, Len(arrived)) = SubSeq(arrived, 1, Len(arrived))
    BY <1>1, <2>2, ConcatAdjacentSubSeq
  <2>4. SubSeq(arrived, 1, Len(arrived)) = arrived
    BY <1>1, SubSeqFull
  <2>5. get' \in Seq(Nat) /\ arrived' \in Seq(Nat)
    <3>1. \A i \in 1 .. Len(arrived) : arrived[i] \in Nat
      BY <1>1, ElementOfSeq
    <3>2. (\A i \in 1 .. n : arrived[i] \in Nat) /\ (\A i \in n + 1 .. Len(arrived) : arrived[i] \in Nat)
      BY <2>2, <3>1
    <3>3. 1 \in Int /\ n \in Int /\ n + 1 \in Int /\ Len(arrived) \in Int
      BY <2>2
    <3> QED BY <2>1, <3>2, <3>3, SubSeqProperties
  <2>6. get' \o arrived' = arrived
    BY <2>1, <2>3, <2>4
  <2>7. (taken \o get') \o arrived' = taken \o (get' \o arrived')
    BY <1>1, <2>5, Associative, Zenon
  <2>8. taken \o get = taken
    BY <1>1, <2>1, ConcatEmptySeq
  <2>9. taken' \o get' \o arrived' = taken \o get \o arrived
    BY <2>1, <2>6, <2>7, <2>8
  <2> QED BY <1>1, <2>1, <2>5, <2>9 DEF ReadInv, ReadTypes, Stream!ReadInOrder
<1>3. CASE Stream!GetChar
  <2>1. get # <<>> /\ taken' = Append(taken, Head(get)) /\ get' = Tail(get) /\ arrived' = arrived
    BY <1>3 DEF Stream!GetChar
  <2>2. Head(get) \in Nat /\ Tail(get) \in Seq(Nat) /\ Len(get) \in Nat /\ Len(get) >= 1
    <3>1. Head(get) \in Nat /\ Tail(get) \in Seq(Nat)
      BY <1>1, <2>1, HeadTailProperties
    <3>2. Len(get) \in Nat /\ Len(get) # 0
      BY <1>1, <2>1, EmptySeq, LenProperties
    <3> QED BY <3>1, <3>2
  <2>3. taken' = taken \o <<Head(get)>>
    BY <1>1, <2>1, <2>2, AppendIsConcat
  <2>4. <<Head(get)>> \o Tail(get) = get
    <3>1. 1 \in 1 .. Len(get) /\ Len(get) \in 1 .. Len(get) /\ 1 + 1 = 2
      BY <2>2
    <3>2. SubSeq(get, 1, Len(get)) = <<get[1]>> \o SubSeq(get, 1 + 1, Len(get))
      BY <1>1, <3>1, SubSeqRecursiveFirst
    <3>3. SubSeq(get, 1, Len(get)) = get /\ Tail(get) = SubSeq(get, 2, Len(get))
      BY <1>1, <2>1, SubSeqFull, TailIsSubSeq
    <3>4. Head(SubSeq(get, 1, Len(get))) = get[1]
      BY <1>1, <3>1, HeadTailOfSubSeq
    <3> QED BY <3>1, <3>2, <3>3, <3>4, Zenon
  <2>5. <<Head(get)>> \in Seq(Nat)
    BY <2>2
  <2>6. (taken \o <<Head(get)>>) \o Tail(get) = taken \o (<<Head(get)>> \o Tail(get))
    <3>1. taken \in Seq(Nat) /\ Tail(get) \in Seq(Nat)
      BY <1>1, <2>2 DEF ReadTypes
    <3> QED BY <2>5, <3>1, Associative, Zenon
  <2>7. taken' \o get' = taken \o get
    BY <2>1, <2>3, <2>4, <2>6
  <2>8. taken' \in Seq(Nat)
    BY <1>1, <2>1, <2>2, AppendProperties
  <2> QED BY <1>1, <2>1, <2>2, <2>7, <2>8 DEF ReadInv, ReadTypes, Stream!ReadInOrder
<1>4. CASE UNCHANGED <<arrived, get, taken>>
  BY <1>4 DEF ReadInv, ReadTypes, Stream!ReadInOrder
<1> QED BY <1>2, <1>3, <1>4 DEF Stream!Next, Stream!Put, Stream!Overflow, Stream!Sync, Stream!WriteSome, Stream!WriteFails, Stream!ReadFails, Stream!input, Stream!vars


\* The inductive invariant of a stream with both sides.
DeliversInv == part = "stream" => StreamInv /\ ReadInv

\* It holds in every state of the composition, whatever part it follows.
LEMMA DeliversInvariant == MessageSpec => []DeliversInv
<1>1. MessageInit => DeliversInv
  BY StreamInit, ReadInit DEF MessageInit, DeliversInv
<1>2. DeliversInv /\ [MessageNext]_messageVars => DeliversInv'
  <2> SUFFICES ASSUME DeliversInv, [MessageNext]_messageVars, part' = "stream" PROVE StreamInv' /\ ReadInv'
    BY DEF DeliversInv
  <2>1. part = "stream" /\ (Stream!Next \/ UNCHANGED Stream!vars)
    BY DEF MessageNext, messageVars, Stream!vars
  <2> QED BY <2>1, StreamNext, ReadNext DEF DeliversInv
<1> QED BY <1>1, <1>2, PTL DEF MessageSpec

\* What is written to a socket_streambuf comes out in order and once, but for what an exception of
\* write_some cuts off: then at most one character is lost and each is sent at most once more for
\* each failure; what is read is what arrived (underflow, overflow, sync of socket_streambuf.hpp),
\* for areas of any size.
THEOREM StreamsDeliver == MessageSpec => []StreamDelivers
<1>1. DeliversInv => StreamDelivers
  BY StreamTyped, SendsInOrder, SendsPrefix, Resends, Loses DEF DeliversInv, StreamDelivers, ReadInv
<1> QED BY <1>1, DeliversInvariant, PTL

-----------------------------------------------------------------------------
\* Targets: the state of Url under its names.

given == v1
uri == v2
piece == v3
tok == v4
iter == v5
read == v6
name == v7
found == v8
params == v9
phase == v10

Symbols == Target!Characters

\* What stands for which symbol.
LEMMA SymbolsAre ==
  /\ Symbols = {"0", "1", "2", "p", "/", "?", "&", "=", "%", "#", "sp", "nul", "high"}
  /\ \A c \in Symbols : c \notin Target!Unreserved => \E n \in 0 .. 8 : Target!Coded[n + 1] = c
  /\ \A n \in 0 .. 8 : Target!Coded[n + 1] \in Symbols
  /\ Target!Unreserved \subseteq Symbols
<1> DEFINE k == Target!Coded
<1>1. Target!Range(k) = {k[i] : i \in 1 .. 9}
  BY DEF Target!Range, Target!Coded
<1>2. k[1] = "/" /\ k[2] = "?" /\ k[3] = "&" /\ k[4] = "=" /\ k[5] = "%" /\ k[6] = "#" /\ k[7] = "sp" /\ k[8] = "nul" /\ k[9] = "high"
  BY DEF Target!Coded
<1> HIDE DEF k
<1>3. 1 .. 9 = {1, 2, 3, 4, 5, 6, 7, 8, 9}
  OBVIOUS
<1>4. Target!Range(k) = {"/", "?", "&", "=", "%", "#", "sp", "nul", "high"}
  BY <1>1, <1>2, <1>3
<1>5. Symbols = {"0", "1", "2", "p", "/", "?", "&", "=", "%", "#", "sp", "nul", "high"}
  BY <1>4 DEF Symbols, Target!Characters, Target!Unreserved, k
<1>6. \A c \in Symbols : c \notin Target!Unreserved => \E n \in 0 .. 8 : k[n + 1] = c
  <2>1. \A c \in Target!Range(k) : \E n \in 0 .. 8 : k[n + 1] = c
    BY <1>1
  <2> QED BY <2>1 DEF Symbols, Target!Characters, k
<1>7. \A n \in 0 .. 8 : k[n + 1] \in Symbols
  <2>1. \A n \in 0 .. 8 : k[n + 1] \in Target!Range(k)
    BY <1>1
  <2> QED BY <2>1 DEF Symbols, Target!Characters, k
<1> QED BY <1>5, <1>6, <1>7 DEF k, Target!Unreserved

\* A digit is read as what it is written for, and nothing else is a digit.
LEMMA DigitsAre ==
  /\ \A n \in 0 .. 2 : Target!Digits[n + 1] \in Symbols /\ Target!Digit(Target!Digits[n + 1]) = {n}
  /\ \A n \in 0 .. 2 : Target!Digits[n + 1] \in {"0", "1", "2"}
  /\ \A c \in {"?", "&", "=", "%", "nul"} : Target!Digit(c) = {}
<1> DEFINE d == Target!Digits
<1>1. d[1] = "0" /\ d[2] = "1" /\ d[3] = "2"
  BY DEF Target!Digits
<1> HIDE DEF d
<1>2. \A n \in 0 .. 2 : n = 0 \/ n = 1 \/ n = 2
  OBVIOUS
<1>3. \A n \in 0 .. 2 : d[n + 1] \in {"0", "1", "2"}
  BY <1>1, <1>2
<1>4. \A n, m \in 0 .. 2 : d[m + 1] = d[n + 1] => m = n
  BY <1>1, <1>2
<1>5. \A n \in 0 .. 2 : {m \in 0 .. 2 : d[m + 1] = d[n + 1]} = {n}
  BY <1>4
<1>6. \A c \in {"?", "&", "=", "%", "nul"} : {m \in 0 .. 2 : d[m + 1] = c} = {}
  BY <1>3
<1>7. {"0", "1", "2"} \subseteq Symbols
  BY SymbolsAre
<1> QED BY <1>3, <1>5, <1>6, <1>7 DEF d, Target!Digit

-----------------------------------------------------------------------------
\* Targets: the first place of something.

LEMMA FirstOfIs ==
  ASSUME NEW c, NEW a \in Nat, NEW b \in Nat, a <= b + 1
  PROVE  LET f == Target!FirstOf(c, a, b)
         IN /\ f \in a .. b + 1 /\ (f <= b => uri[f] = c)
            /\ \A i \in a .. f - 1 : uri[i] # c
<1> DEFINE T == {i \in a .. b : uri[i] = c}
           m == CHOOSE x \in T : \A y \in T : x <= y
<1>1. Target!FirstOf(c, a, b) = IF T = {} THEN b + 1 ELSE m
  BY DEF Target!FirstOf, Target!Min, uri
<1>2. T \subseteq Nat
  OBVIOUS
<1>3. ASSUME T = {} PROVE \A i \in a .. b : uri[i] # c
  BY <1>3
<1>4. ASSUME T # {} PROVE m \in T /\ \A y \in T : m <= y
  <2> HIDE DEF T
  <2> QED BY <1>2, <1>4, LeastNumber
<1>5. ASSUME T # {} PROVE m \in a .. b /\ uri[m] = c /\ \A i \in a .. m - 1 : uri[i] # c
  <2>1. m \in a .. b /\ uri[m] = c
    BY <1>4, <1>5
  <2>2. \A i \in a .. b : uri[i] = c => m <= i
    BY <1>4, <1>5
  <2> HIDE DEF m
  <2> QED BY <2>1, <2>2
<1> HIDE DEF T, m
<1>6. CASE T = {}
  <2>1. Target!FirstOf(c, a, b) = b + 1
    BY <1>1, <1>6
  <2>2. b + 1 \in a .. b + 1 /\ ~(b + 1 <= b) /\ a .. (b + 1) - 1 = a .. b
    OBVIOUS
  <2> QED BY <1>3, <1>6, <2>1, <2>2
<1>7. CASE T # {}
  <2>1. Target!FirstOf(c, a, b) = m
    BY <1>1, <1>7
  <2> QED BY <1>5, <1>7, <2>1
<1> QED BY <1>6, <1>7

\* The first place is where the symbol is, and not before.
LEMMA FirstOfAt ==
  ASSUME NEW c, NEW a \in Nat, NEW b \in Nat, NEW f \in a .. b + 1, f <= b => uri[f] = c, \A i \in a .. f - 1 : uri[i] # c
  PROVE  Target!FirstOf(c, a, b) = f
<1> DEFINE g == Target!FirstOf(c, a, b)
<1>1. a <= b + 1
  OBVIOUS
<1>2. g \in a .. b + 1 /\ (g <= b => uri[g] = c) /\ \A i \in a .. g - 1 : uri[i] # c
  BY <1>1, FirstOfIs
<1> HIDE DEF g
<1>3. ~(g < f)
  <2> SUFFICES ASSUME g < f PROVE FALSE
    OBVIOUS
  <2>1. g \in a .. f - 1 /\ g <= b
    BY <1>2
  <2> QED BY <1>2, <2>1
<1>4. ~(f < g)
  <2> SUFFICES ASSUME f < g PROVE FALSE
    OBVIOUS
  <2>1. f \in a .. g - 1 /\ f <= b
    BY <1>2
  <2> QED BY <1>2, <2>1
<1>5. g = f
  BY <1>2, <1>3, <1>4
<1> QED BY <1>5 DEF g

LEMMA LeftIs ==
  ASSUME NEW l \in Nat, tok.last = l, Len(uri) \in Nat, Target!Left # {}
  PROVE  LET f == Target!Min(Target!Left)
         IN /\ f \in l + 1 .. Len(uri) /\ uri[f] # "&"
            /\ \A i \in l + 1 .. f - 1 : uri[i] = "&"
<1> DEFINE T == {i \in l + 1 .. Len(uri) : uri[i] # "&"}
           m == CHOOSE x \in T : \A y \in T : x <= y
<1>1. Target!Left = T
  BY DEF Target!Left, uri, tok
<1>2. T \subseteq Nat
  OBVIOUS
<1>3. m \in T /\ \A y \in T : m <= y
  <2> HIDE DEF T
  <2> QED BY <1>1, <1>2, LeastNumber
<1>4. Target!Min(Target!Left) = m
  <2> HIDE DEF T
  <2> QED BY <1>1 DEF Target!Min
<1>5. m \in l + 1 .. Len(uri) /\ uri[m] # "&"
  BY <1>3
<1>6. \A i \in l + 1 .. Len(uri) : uri[i] # "&" => m <= i
  BY <1>3
<1> HIDE DEF m, T
<1>7. \A i \in l + 1 .. m - 1 : uri[i] = "&"
  BY <1>5, <1>6
<1> QED BY <1>4, <1>5, <1>7

LEMMA NothingLeftOver ==
  ASSUME NEW l \in Nat, tok.last = l, Target!Left = {}
  PROVE  \A i \in l + 1 .. Len(uri) : uri[i] = "&"
BY DEF Target!Left, uri, tok

-----------------------------------------------------------------------------
\* Targets: which are refused.

Mark == Target!FirstOf("?", 1, Len(uri))

\* What is right at i: no "%", or one that is not decoded, or one with its digits.
Fine(i) == uri[i] = "%" => Target!InPlainToken(i) \/ Target!Escaped(i)
FineTo(n) == \A i \in 1 .. n : i <= Len(uri) => Fine(i)

\* A token from a to b; behind l comes the end of one.
Free(a, b) == \A j \in a .. b : uri[j] # "&"
TokenIs(a, b) == /\ a \in Mark + 1 .. b /\ b <= Len(uri) /\ Free(a, b)
                 /\ a - 1 = Mark \/ uri[a - 1] = "&"
                 /\ b = Len(uri) \/ uri[b + 1] = "&"
Parted(l) == l = Mark \/ l = Len(uri) \/ uri[l + 1] = "&"

UriTypes == /\ uri \in Seq(Symbols) /\ tok.first \in Nat /\ tok.last \in Nat
            /\ piece.first \in Nat /\ piece.last \in Nat /\ piece.role \in {"none", "path", "key", "value"}
            /\ iter \in 0 .. Len(uri) + 1 /\ read \in Seq(Symbols)
            /\ phase \in {"start", "reading", "accepted", "bad_request"}
            /\ \A p \in params : \A q \in params : p.key = q.key => p = q

\* Where the reader is.
BetweenParts == piece.role = "none" /\ tok.last >= Mark /\ Parted(tok.last) /\ FineTo(tok.last)
InPath == /\ piece.role = "path" /\ tok.last = Mark /\ piece.first = 1 /\ piece.last = Mark - 1
          /\ iter \in 1 .. Mark /\ FineTo(iter - 1)
InKey == /\ piece.role = "key" /\ TokenIs(tok.first, tok.last) /\ piece.first = tok.first
         /\ piece.last + 1 \in tok.first .. tok.last /\ uri[piece.last + 1] = "="
         /\ iter \in tok.first .. piece.last + 1 /\ FineTo(iter - 1)
InPlaceOf(e) == /\ piece.role = "value" /\ e \in tok.first .. tok.last /\ uri[e] = "=" /\ piece.first = e + 1 /\ piece.last = tok.last
                /\ iter \in e + 1 .. tok.last + 1 /\ FineTo(iter - 1)
InParameter == TokenIs(tok.first, tok.last) /\ \E e \in Nat : InPlaceOf(e)

UriInv == /\ UriTypes
          /\ phase \in {"reading", "accepted"} => Target!Readable(uri)
          /\ phase = "bad_request" => ~Target!Readable(uri) \/ \E i \in 1 .. Len(uri) : ~Fine(i)
          /\ phase = "accepted" => FineTo(Len(uri))
          /\ phase = "reading" => BetweenParts \/ InPath \/ InKey \/ InParameter

UriSame == uri' = uri /\ given' = given

\* What does not change with the target.
LEMMA UriStays ==
  ASSUME UriSame
  PROVE  /\ Mark' = Mark /\ Target!Readable(uri)' = Target!Readable(uri)
         /\ \A n : Fine(n)' = Fine(n) /\ FineTo(n)' = FineTo(n) /\ Parted(n)' = Parted(n)
         /\ \A a, b : TokenIs(a, b)' = TokenIs(a, b)
<1>1. uri' = uri
  BY DEF UriSame
<1>2. Mark' = Mark
  BY <1>1 DEF Mark, Target!FirstOf, uri
<1>3. Target!Readable(uri)' = Target!Readable(uri)
  BY <1>1 DEF Target!Readable, Target!IsValidPath, Target!ValidInPath, Target!Unreserved
<1>4. ASSUME NEW n PROVE Fine(n)' = Fine(n)
  BY <1>1 DEF Fine, Target!InPlainToken, Target!Escaped, Target!FirstOf, Target!Digit, uri
<1>5. ASSUME NEW n PROVE FineTo(n)' = FineTo(n)
  BY <1>1 DEF FineTo, Fine, Target!InPlainToken, Target!Escaped, Target!FirstOf, Target!Digit, uri
<1>6. ASSUME NEW n PROVE Parted(n)' = Parted(n)
  BY <1>1, <1>2 DEF Parted
<1>7. ASSUME NEW a, NEW b PROVE TokenIs(a, b)' = TokenIs(a, b)
  BY <1>1, <1>2 DEF TokenIs, Free
<1> QED BY <1>2, <1>3, <1>4, <1>5, <1>6, <1>7

LEMMA MarkIs ==
  ASSUME uri \in Seq(Symbols)
  PROVE  /\ Len(uri) \in Nat /\ DOMAIN uri = 1 .. Len(uri) /\ \A i \in 1 .. Len(uri) : uri[i] \in Symbols
         /\ Mark \in 1 .. Len(uri) + 1 /\ (Mark <= Len(uri) => uri[Mark] = "?")
         /\ \A i \in 1 .. Mark - 1 : uri[i] # "?"
<1>1. Len(uri) \in Nat /\ DOMAIN uri = 1 .. Len(uri) /\ \A i \in 1 .. Len(uri) : uri[i] \in Symbols
  OBVIOUS
<1>2. 1 \in Nat /\ 1 <= Len(uri) + 1
  BY <1>1
<1>3. /\ Mark \in 1 .. Len(uri) + 1 /\ (Mark <= Len(uri) => uri[Mark] = "?")
      /\ \A i \in 1 .. Mark - 1 : uri[i] # "?"
  BY <1>1, <1>2, FirstOfIs DEF Mark
<1> QED BY <1>1, <1>3

\* In a token with a "=", and in the path, nothing is a token without.
LEMMA NotPlain ==
  ASSUME uri \in Seq(Symbols), NEW i \in 1 .. Len(uri),
         \/ i < Mark
         \/ \E a, b, e \in Nat : TokenIs(a, b) /\ i \in a .. b /\ e \in a .. b /\ uri[e] = "="
  PROVE  ~Target!InPlainToken(i)
<1> SUFFICES ASSUME Target!InPlainToken(i) PROVE FALSE
  OBVIOUS
<1>0. Len(uri) \in Nat /\ DOMAIN uri = 1 .. Len(uri) /\ Mark \in Nat
  BY MarkIs
<1>1. PICK first \in 1 .. Len(uri), last \in 1 .. Len(uri) :
        /\ i \in first .. last /\ \A j \in first .. last : uri[j] \notin {"&", "="}
        /\ first > Mark
        /\ first - 1 = Mark \/ uri[first - 1] = "&"
        /\ last = Len(uri) \/ uri[last + 1] = "&"
  BY <1>0 DEF Target!InPlainToken, Mark, Target!FirstOf, uri
<1> DEFINE n == Len(uri)
           m == Mark
<1>2. n \in Nat /\ m \in Nat /\ first \in Nat /\ last \in Nat /\ i \in Nat /\ first <= i /\ i <= last /\ m < first /\ last <= n
  <2>1. n \in Nat /\ m \in Nat /\ first \in 1 .. n /\ last \in 1 .. n /\ i \in 1 .. n
    BY <1>0
  <2>2. i \in first .. last /\ first > m
    BY <1>1
  <2> HIDE DEF n, m
  <2> QED BY <2>1, <2>2
<1>3. PICK a \in Nat, b \in Nat, e \in Nat : TokenIs(a, b) /\ i \in a .. b /\ e \in a .. b /\ uri[e] = "="
  <2>1. ~(i < Mark)
    <3> HIDE DEF n
    <3> QED BY <1>2
  <2> QED BY <2>1
<1>4. a >= m + 1 /\ b <= n /\ \A j \in a .. b : uri[j] # "&"
  <2>1. a \in m + 1 .. b /\ b <= n /\ \A j \in a .. b : uri[j] # "&"
    BY <1>3 DEF TokenIs, Free
  <2> HIDE DEF n, m
  <2> QED BY <1>2, <2>1
<1>5. a <= i /\ i <= b /\ a <= e /\ e <= b
  BY <1>3
<1>6. (first - 1 = m \/ uri[first - 1] = "&") /\ (last = n \/ uri[last + 1] = "&") /\ \A j \in first .. last : uri[j] # "="
  BY <1>1
<1> HIDE DEF n, m
<1>7. first <= a
  <2> SUFFICES ASSUME first > a PROVE FALSE
    BY <1>2
  <2>1. first - 1 \in a .. b /\ first - 1 # m
    BY <1>2, <1>4, <1>5
  <2> QED BY <1>4, <1>6, <2>1
<1>8. last >= b
  <2> SUFFICES ASSUME last < b PROVE FALSE
    BY <1>2
  <2>1. last + 1 \in a .. b /\ last # n
    BY <1>2, <1>4, <1>5
  <2> QED BY <1>4, <1>6, <2>1
<1>9. e \in first .. last
  BY <1>2, <1>5, <1>7, <1>8
<1> QED BY <1>3, <1>6, <1>9

-----------------------------------------------------------------------------
\* Targets: the steps of the reader.

LEMMA FineMore ==
  ASSUME NEW n \in Nat, NEW k \in Nat, n <= k, FineTo(n), \A i \in n + 1 .. k : i <= Len(uri) => Fine(i)
  PROVE  FineTo(k)
<1>1. \A i \in 1 .. k : i \in 1 .. n \/ i \in n + 1 .. k
  OBVIOUS
<1> QED BY <1>1 DEF FineTo

\* While a part is decoded: where it ends, and what stands behind it.
Borders == /\ iter \in 1 .. piece.last + 1 /\ FineTo(iter - 1) /\ piece.last <= Target!StringEnd
           /\ Target!StringEnd \in 0 .. Len(uri)
           /\ piece.last < Target!StringEnd => uri[piece.last + 1] \in {"?", "="}
           /\ Target!StringEnd < Len(uri) => uri[Target!StringEnd + 1] = "&"
           /\ iter <= piece.last => ~Target!InPlainToken(iter)

LEMMA BordersAre ==
  ASSUME UriInv, Target!Decoding
  PROVE  Borders
<1>1. UriTypes /\ uri \in Seq(Symbols) /\ phase = "reading" /\ piece.role # "none"
  BY DEF UriInv, UriTypes, Target!Decoding, phase, piece
<1>2. /\ Len(uri) \in Nat /\ Mark \in 1 .. Len(uri) + 1 /\ (Mark <= Len(uri) => uri[Mark] = "?")
      /\ iter \in Nat /\ piece.last \in Nat /\ tok.last \in Nat /\ tok.first \in Nat
  BY <1>1, MarkIs DEF UriTypes
<1>3. Target!StringEnd = IF piece.role = "path" THEN Len(uri) ELSE tok.last
  BY DEF Target!StringEnd, piece, uri, tok
<1> DEFINE n == Len(uri)
           m == Mark
           s == Target!StringEnd
           l == piece.last
<1>4. CASE InPath
  <2>1. l = m - 1 /\ s = n /\ iter \in 1 .. m /\ FineTo(iter - 1)
    BY <1>3, <1>4 DEF InPath
  <2>2. m <= n => uri[m] = "?"
    BY <1>2
  <2>3. n \in Nat /\ m \in 1 .. n + 1
    BY <1>2
  <2>4. iter \in 1 .. n /\ iter < m => ~Target!InPlainToken(iter)
    BY <1>1, NotPlain
  <2> HIDE DEF n, m, s, l
  <2>5. l + 1 = m
    BY <2>1, <2>3
  <2>6. iter \in 1 .. l + 1 /\ l <= s /\ s \in 0 .. n /\ (l < s => m <= n) /\ ~(s < n) /\ (iter <= l => iter \in 1 .. n /\ iter < m)
    BY <2>1, <2>3, <2>5
  <2> QED BY <2>1, <2>2, <2>4, <2>5, <2>6 DEF Borders, n, m, s, l
<1>5. ASSUME TokenIs(tok.first, tok.last)
      PROVE  /\ tok.first \in m + 1 .. tok.last /\ tok.last <= n
             /\ tok.last = n \/ uri[tok.last + 1] = "&"
  BY <1>5 DEF TokenIs
<1>6. CASE InKey
  <2>1. /\ TokenIs(tok.first, tok.last) /\ l + 1 \in tok.first .. tok.last /\ uri[l + 1] = "="
        /\ iter \in tok.first .. l + 1 /\ FineTo(iter - 1) /\ s = tok.last
    BY <1>3, <1>6 DEF InKey
  <2>2. /\ tok.first \in m + 1 .. tok.last /\ tok.last <= n
        /\ tok.last = n \/ uri[tok.last + 1] = "&"
    BY <1>5, <2>1
  <2>3. n \in Nat /\ m \in 1 .. n + 1 /\ tok.last \in Nat /\ tok.first \in Nat /\ iter \in Nat /\ l \in Nat
    BY <1>2
  <2>4. iter \in 1 .. n /\ iter \in tok.first .. tok.last => ~Target!InPlainToken(iter)
    <3> SUFFICES ASSUME iter \in 1 .. n, iter \in tok.first .. tok.last PROVE ~Target!InPlainToken(iter)
      OBVIOUS
    <3>1. l + 1 \in Nat /\ tok.first \in Nat /\ tok.last \in Nat
      BY <2>3
    <3>2. \E a, b, e \in Nat : TokenIs(a, b) /\ iter \in a .. b /\ e \in a .. b /\ uri[e] = "="
      BY <2>1, <3>1
    <3> QED BY <1>1, <3>2, NotPlain
  <2> HIDE DEF n, m, s, l
  <2>5. /\ iter \in 1 .. l + 1 /\ l <= s /\ s \in 0 .. n /\ (s < n => tok.last # n)
        /\ iter <= l => iter \in 1 .. n /\ iter \in tok.first .. tok.last
    BY <2>1, <2>2, <2>3
  <2> QED BY <2>1, <2>2, <2>4, <2>5 DEF Borders, n, m, s, l
<1>7. CASE InParameter
  <2>0. PICK e \in Nat : InPlaceOf(e)
    BY <1>7 DEF InParameter
  <2>1. /\ TokenIs(tok.first, tok.last) /\ e \in tok.first .. tok.last /\ uri[e] = "=" /\ l = tok.last
        /\ iter \in e + 1 .. tok.last + 1 /\ FineTo(iter - 1) /\ s = tok.last
    BY <1>3, <1>7, <2>0 DEF InParameter, InPlaceOf
  <2>2. /\ tok.first \in m + 1 .. tok.last /\ tok.last <= n
        /\ tok.last = n \/ uri[tok.last + 1] = "&"
    BY <1>5, <2>1
  <2>3. n \in Nat /\ m \in 1 .. n + 1 /\ tok.last \in Nat /\ tok.first \in Nat /\ iter \in Nat /\ l \in Nat
    BY <1>2
  <2>4. iter \in 1 .. n /\ iter \in tok.first .. tok.last => ~Target!InPlainToken(iter)
    <3> SUFFICES ASSUME iter \in 1 .. n, iter \in tok.first .. tok.last PROVE ~Target!InPlainToken(iter)
      OBVIOUS
    <3>1. \E a, b, f \in Nat : TokenIs(a, b) /\ iter \in a .. b /\ f \in a .. b /\ uri[f] = "="
      BY <2>1, <2>3
    <3> QED BY <1>1, <3>1, NotPlain
  <2> HIDE DEF n, m, s, l
  <2>5. /\ iter \in 1 .. l + 1 /\ l <= s /\ s \in 0 .. n /\ (s < n => tok.last # n) /\ ~(l < s)
        /\ iter <= l => iter \in 1 .. n /\ iter \in tok.first .. tok.last
    BY <2>1, <2>2, <2>3
  <2> QED BY <2>1, <2>2, <2>4, <2>5 DEF Borders, n, m, s, l
<1>8. InPath \/ InKey \/ InParameter
  BY <1>1 DEF UriInv, BetweenParts
<1> QED BY <1>4, <1>6, <1>7, <1>8

\* A "%" and what is found behind it.
LEMMA PercentIs ==
  ASSUME UriInv, Target!Decoding, iter <= piece.last, uri[iter] = "%",
         NEW hi, NEW lo, hi \in Target!At(iter + 1), lo \in Target!At(iter + 2)
  PROVE  IF Target!Refused(hi, lo) THEN ~Fine(iter) /\ iter \in 1 .. Len(uri)
         ELSE /\ iter + 2 <= piece.last /\ hi = uri[iter + 1] /\ lo = uri[iter + 2] /\ FineTo(iter + 2)
              /\ Target!Digit(hi) # {} /\ Target!Digit(lo) # {}
<1> DEFINE n == Len(uri)
           s == Target!StringEnd
           l == piece.last
           j == iter
<1>1. /\ j \in 1 .. l + 1 /\ FineTo(j - 1) /\ l <= s /\ s \in 0 .. n
      /\ l < s => uri[l + 1] \in {"?", "="}
      /\ s < n => uri[s + 1] = "&"
      /\ ~Target!InPlainToken(j)
  BY BordersAre DEF Borders
<1>2. n \in Nat /\ l \in Nat /\ j <= l
  BY MarkIs DEF UriInv, UriTypes
<1>3. \A i : Target!At(i) = IF i <= s THEN {uri[i]} ELSE IF i = s + 1 THEN {"nul"} ELSE {"0", "p"}
  BY DEF Target!At, uri
<1>4. Target!Escaped(j) <=> j + 2 <= n /\ Target!Digit(uri[j + 1]) # {} /\ Target!Digit(uri[j + 2]) # {}
  BY DEF Target!Escaped, Target!Digit, uri
<1>5. Fine(j) <=> Target!Escaped(j)
  BY <1>1 DEF Fine
<1>6. /\ Target!Digit("nul") = {} /\ Target!Digit("?") = {} /\ Target!Digit("=") = {} /\ Target!Digit("&") = {}
      /\ Target!Digit("%") = {}
  BY DigitsAre
<1>7. hi \in Target!At(j + 1) /\ lo \in Target!At(j + 2)
  OBVIOUS
<1>8. j \in 1 .. n
  <2> HIDE DEF n, s, l, j
  <2> QED BY <1>1, <1>2
<1>9. CASE Target!Refused(hi, lo)
  <2> SUFFICES ASSUME Target!Escaped(j) PROVE FALSE
    BY <1>5, <1>8, <1>9
  <2>1. Target!Digit(hi) = {} \/ Target!Digit(lo) = {}
    BY <1>9 DEF Target!Refused, Target!Digit
  <2>2. j + 2 <= n /\ Target!Digit(uri[j + 1]) # {} /\ Target!Digit(uri[j + 2]) # {}
    BY <1>4
  <2> HIDE DEF n, s, l, j
  <2>3. j + 2 <= s \/ j + 2 = s + 1 \/ j + 1 = s + 1
    BY <1>1, <1>2
  <2>4. CASE j + 2 <= s
    <3>1. j + 1 <= s
      BY <1>1, <1>2, <2>4
    <3>2. hi = uri[j + 1] /\ lo = uri[j + 2]
      BY <1>3, <1>7, <2>4, <3>1
    <3> QED BY <2>1, <2>2, <3>2
  <2>5. CASE j + 2 = s + 1
    <3>1. s < n
      BY <1>1, <1>2, <2>2, <2>5
    <3>2. uri[j + 2] = "&"
      BY <1>1, <2>5, <3>1
    <3> QED BY <1>6, <2>2, <3>2
  <2>6. CASE j + 1 = s + 1
    <3>1. s < n
      BY <1>1, <1>2, <2>2, <2>6
    <3>2. uri[j + 1] = "&"
      BY <1>1, <2>6, <3>1
    <3> QED BY <1>6, <2>2, <3>2
  <2> QED BY <2>3, <2>4, <2>5, <2>6
<1>10. CASE ~Target!Refused(hi, lo)
  <2>1. Target!Digit(hi) # {} /\ Target!Digit(lo) # {}
    BY <1>10 DEF Target!Refused, Target!Digit
  <2> HIDE DEF n, s, l, j
  <2>2. j + 1 <= l
    <3> SUFFICES ASSUME j = l PROVE FALSE
      BY <1>1, <1>2
    <3>1. CASE l < s
      <4>1. hi = uri[l + 1]
        <5>1. j + 1 <= s /\ j + 1 = l + 1
          BY <1>1, <1>2, <3>1
        <5> QED BY <1>3, <1>7, <5>1
      <4> QED BY <1>1, <1>6, <2>1, <3>1, <4>1
    <3>2. CASE l = s
      <4>1. hi = "nul"
        <5>1. j + 1 = s + 1 /\ ~(j + 1 <= s)
          BY <1>1, <1>2, <3>2
        <5> QED BY <1>3, <1>7, <5>1
      <4> QED BY <1>6, <2>1, <4>1
    <3> QED BY <1>1, <1>2, <3>1, <3>2
  <2>3. j + 2 <= l
    <3> SUFFICES ASSUME j + 1 = l PROVE FALSE
      BY <1>1, <1>2, <2>2
    <3>1. CASE l < s
      <4>1. lo = uri[l + 1]
        <5>1. j + 2 <= s /\ j + 2 = l + 1
          BY <1>1, <1>2, <3>1
        <5> QED BY <1>3, <1>7, <5>1
      <4> QED BY <1>1, <1>6, <2>1, <3>1, <4>1
    <3>2. CASE l = s
      <4>1. lo = "nul"
        <5>1. j + 2 = s + 1 /\ ~(j + 2 <= s)
          BY <1>1, <1>2, <3>2
        <5> QED BY <1>3, <1>7, <5>1
      <4> QED BY <1>6, <2>1, <4>1
    <3> QED BY <1>1, <1>2, <3>1, <3>2
  <2>4. j + 1 <= s /\ j + 2 <= s /\ j + 2 <= n
    BY <1>1, <1>2, <2>3
  <2>5. hi = uri[j + 1] /\ lo = uri[j + 2]
    BY <1>3, <1>7, <2>4
  <2>6. Fine(j)
    BY <1>4, <1>5, <2>1, <2>4, <2>5
  <2>7. uri[j + 1] # "%" /\ uri[j + 2] # "%"
    BY <1>6, <2>1, <2>5
  <2>8. Fine(j + 1) /\ Fine(j + 2)
    BY <2>7 DEF Fine
  <2>9. FineTo(j + 2)
    <3>1. j - 1 \in Nat /\ j + 2 \in Nat /\ j - 1 <= j + 2
      BY <1>1, <1>2
    <3>2. \A i \in (j - 1) + 1 .. j + 2 : i = j \/ i = j + 1 \/ i = j + 2
      BY <1>1, <1>2
    <3>3. \A i \in (j - 1) + 1 .. j + 2 : i <= Len(uri) => Fine(i)
      BY <2>6, <2>8, <3>2
    <3> QED BY <1>1, <3>1, <3>3, FineMore
  <2> QED BY <1>10, <2>1, <2>3, <2>5, <2>9 DEF l, j
<1> QED BY <1>9, <1>10

\* The same as before, and other parts of what is said of the place.
LEMMA UriMoved ==
  ASSUME UriInv, Target!Decoding, UriSame, piece' = piece, tok' = tok, params' = params, phase' = phase,
         read' \in Seq(Symbols), NEW j, iter' = j, j \in iter .. piece.last + 1, FineTo(j - 1)
  PROVE  UriInv'
<1>1. UriTypes /\ phase = "reading" /\ (BetweenParts \/ InPath \/ InKey \/ InParameter) /\ Target!Readable(uri)
  BY DEF UriInv, Target!Decoding, phase
<1>2. /\ Len(uri) \in Nat /\ Mark \in 1 .. Len(uri) + 1
      /\ iter \in Nat /\ piece.last \in Nat /\ tok.last \in Nat /\ tok.first \in Nat
  BY <1>1, MarkIs DEF UriTypes
<1>3. Borders
  BY BordersAre
<1>4. /\ Mark' = Mark /\ FineTo(j - 1)' /\ TokenIs(tok.first, tok.last)' = TokenIs(tok.first, tok.last)
      /\ Target!Readable(uri)' = Target!Readable(uri)
  <2>1. FineTo(j - 1)' = FineTo(j - 1)
    BY UriStays
  <2>2. ASSUME NEW a, NEW b, a = tok.first, b = tok.last PROVE TokenIs(tok.first, tok.last)' = TokenIs(tok.first, tok.last)
    <3>1. TokenIs(a, b)' = TokenIs(a, b)
      BY UriStays
    <3>2. a = tok.first' /\ b = tok.last'
      BY <2>2
    <3> QED BY <2>2, <3>1, <3>2
  <2> QED BY <2>1, <2>2, UriStays
<1>5. uri' = uri
  BY DEF UriSame
<1>6. j \in iter .. piece.last + 1 /\ piece.last <= Len(uri) /\ iter >= 1 /\ j \in Nat
  BY <1>2, <1>3 DEF Borders
<1>7. UriTypes'
  <2>1. j \in 0 .. Len(uri) + 1
    BY <1>2, <1>6
  <2> QED BY <1>1, <1>5, <2>1 DEF UriTypes
<1>8. CASE InPath
  <2>1. InPath'
    <3>1. j \in 1 .. Mark
      BY <1>2, <1>6, <1>8 DEF InPath
    <3> QED BY <1>4, <1>8, <3>1 DEF InPath
  <2> QED BY <1>1, <1>4, <1>7, <2>1 DEF UriInv
<1>9. CASE InKey
  <2>1. InKey'
    <3>1. j \in tok.first .. piece.last + 1
      BY <1>2, <1>6, <1>9 DEF InKey
    <3> QED BY <1>4, <1>5, <1>9, <3>1 DEF InKey
  <2> QED BY <1>1, <1>4, <1>7, <2>1 DEF UriInv
<1>10. CASE InParameter
  <2>1. PICK e \in Nat : InPlaceOf(e)
    BY <1>10 DEF InParameter
  <2>2. InPlaceOf(e)'
    <3>1. j \in e + 1 .. tok.last + 1
      BY <1>2, <1>6, <2>1 DEF InPlaceOf
    <3> QED BY <1>4, <1>5, <2>1, <3>1 DEF InPlaceOf
  <2>3. InParameter'
    BY <1>4, <1>10, <2>2 DEF InParameter
  <2> QED BY <1>1, <1>4, <1>7, <2>3 DEF UriInv
<1> QED BY <1>1, <1>8, <1>9, <1>10 DEF BetweenParts, Target!Decoding, piece

\* Between two parts again.
LEMMA UriBetween ==
  ASSUME UriInv, UriSame, phase = "reading", phase' = "reading", iter' = iter, read' = read,
         piece' = Target!NoPart \/ (piece' = piece /\ piece.role = "none"),
         NEW l \in Nat, tok'.last = l, tok'.first \in Nat, l >= Mark, Parted(l), FineTo(l),
         \A p \in params' : \A q \in params' : p.key = q.key => p = q
  PROVE  UriInv'
<1>1. UriTypes /\ Target!Readable(uri)
  BY DEF UriInv
<1>2. Mark' = Mark /\ FineTo(l)' /\ Parted(l)' /\ Target!Readable(uri)' = Target!Readable(uri) /\ uri' = uri
  BY UriStays DEF UriSame
<1>3. piece'.role = "none" /\ piece'.first \in Nat /\ piece'.last \in Nat
  BY <1>1 DEF Target!NoPart, UriTypes
<1>4. UriTypes'
  BY <1>1, <1>2, <1>3 DEF UriTypes
<1>5. BetweenParts'
  BY <1>2, <1>3 DEF BetweenParts
<1> QED BY <1>1, <1>2, <1>4, <1>5 DEF UriInv

LEMMA PutKeeps ==
  ASSUME UriTypes, NEW k, NEW v, Target!Put(k, v)
  PROVE  \A p \in params' : \A q \in params' : p.key = q.key => p = q
<1>1. params' = {p \in params : p.key # k} \cup {[key |-> k, value |-> v]}
  BY DEF Target!Put, params
<1>2. \A p \in params : \A q \in params : p.key = q.key => p = q
  BY DEF UriTypes
<1> QED BY <1>1, <1>2

LEMMA ReadTargetKeeps ==
  ASSUME UriInv, Target!ReadTarget
  PROVE  UriInv'
<1>1. UriTypes /\ phase = "start" /\ UriSame /\ params' = params
  BY DEF UriInv, Target!ReadTarget, phase, UriSame, uri, given, params
<1>2. /\ Len(uri) \in Nat /\ Mark \in 1 .. Len(uri) + 1
  BY <1>1, MarkIs DEF UriTypes
<1>3. uri' = uri /\ Mark' = Mark /\ Target!Readable(uri)' = Target!Readable(uri)
  BY <1>1, UriStays DEF UriSame
<1>4. CASE ~Target!Readable(uri)
  <2>1. phase' = "bad_request" /\ piece' = piece /\ tok' = tok /\ iter' = iter /\ read' = read
    BY <1>4 DEF Target!ReadTarget, phase, piece, tok, iter, read, uri
  <2>2. UriTypes'
    BY <1>1, <1>3, <2>1 DEF UriTypes
  <2> QED BY <1>3, <1>4, <2>1, <2>2 DEF UriInv
<1>5. CASE Target!Readable(uri)
  <2>1. /\ phase' = "reading" /\ tok' = [first |-> Mark, last |-> Mark] /\ iter' = 1 /\ read' = <<>>
        /\ piece' = [first |-> 1, last |-> Mark - 1, role |-> "path"]
    BY <1>5 DEF Target!ReadTarget, Target!Begin, phase, piece, tok, iter, read, uri, Mark
  <2>2. <<>> \in Seq(Symbols)
    OBVIOUS
  <2>3. UriTypes'
    <3>1. Mark - 1 \in Nat /\ Mark \in Nat /\ 1 \in 0 .. Len(uri) + 1
      BY <1>2
    <3> QED BY <1>1, <1>3, <2>1, <2>2, <3>1 DEF UriTypes
  <2>4. FineTo(0)'
    BY DEF FineTo
  <2>5. InPath'
    <3>1. iter' - 1 = 0 /\ 1 \in 1 .. Mark
      BY <1>2, <2>1
    <3>2. FineTo(iter - 1)'
      BY <2>1, <2>4 DEF FineTo
    <3> QED BY <1>3, <2>1, <3>1, <3>2 DEF InPath
  <2> QED BY <1>3, <1>5, <2>1, <2>3, <2>5 DEF UriInv
<1> QED BY <1>4, <1>5

LEMMA PlainKeeps ==
  ASSUME UriInv, Target!DecodePlain
  PROVE  UriInv'
<1>1. /\ Target!Decoding /\ iter <= piece.last /\ uri[iter] # "%" /\ read' = Append(read, uri[iter]) /\ iter' = iter + 1
      /\ UriSame /\ piece' = piece /\ tok' = tok /\ params' = params /\ phase' = phase
  BY DEF Target!DecodePlain, UriSame, given, uri, piece, tok, iter, read, params, phase
<1>2. UriTypes /\ Len(uri) \in Nat /\ piece.last \in Nat
  BY MarkIs DEF UriInv, UriTypes
<1>3. iter \in 1 .. piece.last + 1 /\ FineTo(iter - 1) /\ piece.last <= Len(uri)
  <2>1. Target!StringEnd \in 0 .. Len(uri) /\ piece.last <= Target!StringEnd /\ iter \in 1 .. piece.last + 1 /\ FineTo(iter - 1)
    BY <1>1, BordersAre DEF Borders
  <2> QED BY <1>2, <2>1
<1>4. FineTo(iter)
  <2>1. Fine(iter)
    BY <1>1 DEF Fine
  <2>2. iter - 1 \in Nat /\ iter \in Nat /\ iter - 1 <= iter /\ \A i \in (iter - 1) + 1 .. iter : i = iter
    BY <1>2, <1>3
  <2> QED BY <1>3, <2>1, <2>2, FineMore
<1>5. read' \in Seq(Symbols)
  <2>1. uri[iter] \in Symbols
    <3>1. iter \in 1 .. Len(uri)
      BY <1>1, <1>2, <1>3
    <3> QED BY <1>2, <3>1 DEF UriTypes
  <2> QED BY <1>1, <1>2, <2>1 DEF UriTypes
<1> DEFINE j == iter + 1
<1>6. iter' = j /\ j \in iter .. piece.last + 1 /\ j - 1 = iter
  BY <1>1, <1>2, <1>3
<1> HIDE DEF j
<1>7. FineTo(j - 1)
  BY <1>4, <1>6
<1> QED BY <1>1, <1>5, <1>6, <1>7, UriMoved

LEMMA PercentKeeps ==
  ASSUME UriInv, Target!DecodePercent
  PROVE  UriInv'
<1> DEFINE Number(c) == IF Target!Digit(c) = {} THEN 0 ELSE CHOOSE n \in Target!Digit(c) : TRUE
<1>1. PICK hi \in Target!At(iter + 1), lo \in Target!At(iter + 2) :
        /\ Target!Decoding /\ iter <= piece.last /\ uri[iter] = "%"
        /\ IF Target!Refused(hi, lo) THEN phase' = "bad_request" /\ iter' = iter /\ read' = read
           ELSE read' = Append(read, Target!Code(Number(hi), Number(lo))) /\ iter' = iter + 3 /\ phase' = phase
        /\ UriSame /\ piece' = piece /\ tok' = tok /\ params' = params
  BY DEF Target!DecodePercent, UriSame, given, uri, piece, tok, iter, read, params, phase
<1>2. UriTypes /\ Len(uri) \in Nat /\ piece.last \in Nat
  BY MarkIs DEF UriInv, UriTypes
<1>3. IF Target!Refused(hi, lo) THEN ~Fine(iter) /\ iter \in 1 .. Len(uri)
         ELSE /\ iter + 2 <= piece.last /\ hi = uri[iter + 1] /\ lo = uri[iter + 2] /\ FineTo(iter + 2)
              /\ Target!Digit(hi) # {} /\ Target!Digit(lo) # {}
  BY <1>1, PercentIs
<1>4. CASE Target!Refused(hi, lo)
  <2>1. uri' = uri
    BY <1>1 DEF UriSame
  <2>2. UriTypes'
    BY <1>1, <1>2, <1>4, <2>1 DEF UriTypes
  <2>3. \E i \in 1 .. Len(uri) : ~Fine(i)
    BY <1>3, <1>4
  <2>4. (\E i \in 1 .. Len(uri) : ~Fine(i))'
    <3>1. \A i : Fine(i)' = Fine(i)
      BY <1>1, UriStays
    <3> QED BY <2>1, <2>3, <3>1
  <2> QED BY <1>1, <1>4, <2>2, <2>4 DEF UriInv
<1>5. CASE ~Target!Refused(hi, lo)
  <2>1. read' \in Seq(Symbols)
    <3>1. ASSUME NEW c, Target!Digit(c) # {} PROVE Number(c) \in 0 .. 2
      <4>1. Target!Digit(c) \subseteq 0 .. 2
        BY DEF Target!Digit
      <4> QED BY <3>1, <4>1
    <3>2. Number(hi) \in 0 .. 2 /\ Number(lo) \in 0 .. 2
      BY <1>3, <1>5, <3>1
    <3> DEFINE a == Number(hi)
               b == Number(lo)
    <3>5. a \in 0 .. 2 /\ b \in 0 .. 2
      BY <3>2
    <3> HIDE DEF a, b
    <3>3. Target!Code(a, b) \in Symbols
      <4>1. 3 * a + b \in 0 .. 8
        <5> HIDE DEF Number
        <5> QED BY <3>5
      <4>2. Target!Coded[(3 * a + b) + 1] \in Symbols
        BY <4>1, SymbolsAre
      <4> QED BY <4>2 DEF Target!Code
    <3>4. read' = Append(read, Target!Code(a, b))
      BY <1>1, <1>5 DEF a, b
    <3> QED BY <1>2, <3>3, <3>4 DEF UriTypes
  <2> DEFINE j == iter + 3
  <2>2. j \in iter .. piece.last + 1 /\ j - 1 = iter + 2
    BY <1>2, <1>3, <1>5 DEF UriTypes
  <2> HIDE DEF Number
  <2>3. iter' = j /\ phase' = phase
    BY <1>1, <1>5
  <2> HIDE DEF j
  <2>4. FineTo(j - 1)
    BY <1>3, <1>5, <2>2
  <2> QED BY <1>1, <2>1, <2>2, <2>3, <2>4, UriMoved
<1> QED BY <1>4, <1>5

LEMMA EndPartKeeps ==
  ASSUME UriInv, Target!EndPart
  PROVE  UriInv'
<1>1. /\ Target!Decoding /\ iter = piece.last + 1 /\ UriSame /\ tok' = tok /\ phase' = phase
      /\ piece.role = "path" => piece' = Target!NoPart /\ iter' = iter /\ read' = read /\ params' = params
      /\ piece.role = "key" => /\ piece' = [first |-> piece.last + 2, last |-> tok.last, role |-> "value"]
                               /\ iter' = piece.last + 2 /\ read' = <<>> /\ params' = params
      /\ piece.role = "value" => Target!Put(name, read) /\ piece' = Target!NoPart /\ iter' = iter /\ read' = read
  BY DEF Target!EndPart, Target!Begin, UriSame, given, uri, piece, tok, iter, read, params, phase, name
<1>2. UriTypes /\ phase = "reading" /\ (BetweenParts \/ InPath \/ InKey \/ InParameter) /\ piece.role # "none" /\ Target!Readable(uri)
  BY <1>1 DEF UriInv, Target!Decoding, phase, piece
<1>3. /\ Len(uri) \in Nat /\ Mark \in 1 .. Len(uri) + 1 /\ (Mark <= Len(uri) => uri[Mark] = "?")
      /\ iter \in Nat /\ piece.last \in Nat /\ tok.last \in Nat /\ tok.first \in Nat
  BY <1>2, MarkIs DEF UriTypes
<1>4. uri' = uri
  BY <1>1 DEF UriSame
<1> DEFINE l == tok.last
<1>5. CASE InPath
  <2>1. piece.role = "path" /\ l = Mark /\ iter = Mark /\ FineTo(Mark - 1)
    BY <1>1, <1>3, <1>5 DEF InPath
  <2>2. Parted(l) /\ l >= Mark /\ l \in Nat
    BY <1>3, <2>1 DEF Parted
  <2>3. FineTo(l)
    <3>1. Mark <= Len(uri) => Fine(Mark)
      BY <1>3 DEF Fine
    <3>2. Mark - 1 \in Nat /\ Mark \in Nat /\ Mark - 1 <= Mark /\ \A i \in (Mark - 1) + 1 .. Mark : i = Mark
      BY <1>3
    <3> QED BY <2>1, <3>1, <3>2, FineMore
  <2>4. \A p \in params' : \A q \in params' : p.key = q.key => p = q
    BY <1>1, <1>2, <2>1 DEF UriTypes
  <2>5. tok'.last = l /\ tok'.first \in Nat
    BY <1>1, <1>3
  <2> HIDE DEF l
  <2> QED BY <1>1, <1>2, <2>1, <2>2, <2>3, <2>4, <2>5, UriBetween
<1>6. CASE InKey
  <2>1. /\ piece.role = "key" /\ TokenIs(tok.first, tok.last) /\ piece.last + 1 \in tok.first .. tok.last
        /\ uri[piece.last + 1] = "=" /\ FineTo(piece.last)
    <3>1. iter - 1 = piece.last
      BY <1>1, <1>3
    <3> QED BY <1>6, <3>1 DEF InKey
  <2> SUFFICES ASSUME NEW e, NEW j, e = piece.last + 1, j = piece.last + 2 PROVE UriInv'
    OBVIOUS
  <2>2. e \in Nat /\ j \in Nat /\ j = e + 1 /\ e \in tok.first .. tok.last /\ j - 1 = e
    BY <1>3, <2>1
  <2>3. FineTo(e)
    <3>1. Fine(e)
      BY <2>1 DEF Fine
    <3>2. piece.last \in Nat /\ e \in Nat /\ piece.last <= e /\ \A i \in piece.last + 1 .. e : i = e
      BY <1>3
    <3> QED BY <2>1, <3>1, <3>2, FineMore
  <2>4. tok.last <= Len(uri) /\ j \in e + 1 .. tok.last + 1
    <3>1. tok.last <= Len(uri)
      BY <2>1 DEF TokenIs
    <3>2. \A a, x, b \in Nat : x \in a .. b => x + 1 \in x + 1 .. b + 1
      OBVIOUS
    <3>3. e + 1 \in e + 1 .. tok.last + 1
      BY <1>3, <2>2, <3>2, Zenon
    <3> QED BY <2>2, <3>1, <3>3
  <2>5. piece'.first = j /\ piece'.last = tok.last /\ piece'.role = "value" /\ iter' = j /\ read' = <<>> /\ params' = params
    BY <1>1, <2>1
  <2>6. uri[e] = "="
    BY <2>1
  <2>7. UriTypes'
    <3>1. j \in 0 .. Len(uri) + 1
      BY <1>3, <2>2, <2>4
    <3>2. <<>> \in Seq(Symbols)
      OBVIOUS
    <3> QED BY <1>1, <1>2, <1>3, <1>4, <2>2, <2>5, <3>1, <3>2 DEF UriTypes
  <2>8. FineTo(j - 1)' /\ Target!Readable(uri)'
    BY <1>1, <1>2, <2>2, <2>3, UriStays
  <2>9. InPlaceOf(e)'
    BY <1>1, <1>4, <2>2, <2>4, <2>5, <2>6, <2>8 DEF InPlaceOf
  <2>10. TokenIs(tok.first, tok.last)'
    <3>1. ASSUME NEW a, NEW b, a = tok.first, b = tok.last PROVE TokenIs(tok.first, tok.last)'
      <4>1. TokenIs(a, b)' = TokenIs(a, b)
        BY <1>1, UriStays
      <4>2. a = tok.first' /\ b = tok.last'
        BY <1>1, <3>1
      <4> QED BY <2>1, <3>1, <4>1, <4>2
    <3> QED BY <3>1
  <2>11. InParameter'
    BY <2>2, <2>9, <2>10 DEF InParameter
  <2> QED BY <1>1, <1>2, <2>7, <2>8, <2>11 DEF UriInv
<1>7. CASE InParameter
  <2>0. PICK e \in Nat : InPlaceOf(e)
    BY <1>7 DEF InParameter
  <2>1. piece.role = "value" /\ TokenIs(tok.first, tok.last) /\ piece.last = tok.last /\ FineTo(iter - 1)
    BY <1>7, <2>0 DEF InParameter, InPlaceOf
  <2>2. l \in Nat /\ iter - 1 = l
    BY <1>1, <1>3, <2>1
  <2>3. FineTo(l)
    BY <2>1, <2>2
  <2>4. l >= Mark /\ Parted(l)
    <3>1. tok.first \in Mark + 1 .. l /\ (l = Len(uri) \/ uri[l + 1] = "&")
      BY <2>1 DEF TokenIs
    <3> HIDE DEF l
    <3>2. l >= Mark
      BY <1>3, <2>2, <3>1
    <3> QED BY <3>1, <3>2 DEF Parted
  <2>5. \A p \in params' : \A q \in params' : p.key = q.key => p = q
    BY <1>1, <1>2, <2>1, PutKeeps
  <2>6. tok'.last = l /\ tok'.first \in Nat
    BY <1>1, <1>3
  <2> HIDE DEF l
  <2> QED BY <1>1, <1>2, <2>1, <2>2, <2>3, <2>4, <2>5, <2>6, UriBetween
<1> QED BY <1>2, <1>5, <1>6, <1>7 DEF BetweenParts

LEMMA NextParameterKeeps ==
  ASSUME UriInv, Target!NextParameter
  PROVE  UriInv'
<1> DEFINE f == Target!Min(Target!Left)
           l == Target!FirstOf("&", f, Len(uri)) - 1
           q == Target!FirstOf("=", f, l)
<1>1. /\ phase = "reading" /\ piece.role = "none" /\ Target!Left # {} /\ tok' = [first |-> f, last |-> l]
      /\ IF q <= l THEN piece' = [first |-> f, last |-> q - 1, role |-> "key"] /\ iter' = f /\ read' = <<>> /\ params' = params
         ELSE Target!Put(SubSeq(uri, f, l), <<>>) /\ piece' = piece /\ iter' = iter /\ read' = read
      /\ UriSame /\ phase' = "reading"
  BY DEF Target!NextParameter, Target!Begin, UriSame, given, uri, piece, tok, iter, read, params, phase
<1>2. UriTypes /\ BetweenParts /\ Target!Readable(uri)
  BY <1>1 DEF UriInv, InPath, InKey, InParameter, InPlaceOf
<1>3. Len(uri) \in Nat /\ Mark \in 1 .. Len(uri) + 1 /\ tok.last \in Nat /\ DOMAIN uri = 1 .. Len(uri)
  BY <1>2, MarkIs DEF UriTypes
<1>4. tok.last >= Mark /\ Parted(tok.last) /\ FineTo(tok.last)
  BY <1>2 DEF BetweenParts
<1>5. f \in tok.last + 1 .. Len(uri) /\ uri[f] # "&" /\ \A i \in tok.last + 1 .. f - 1 : uri[i] = "&"
  <2> HIDE DEF f
  <2> DEFINE t == tok.last
  <2>1. t \in Nat /\ tok.last = t
    BY <1>3
  <2> HIDE DEF t
  <2>2. /\ Target!Min(Target!Left) \in t + 1 .. Len(uri) /\ uri[Target!Min(Target!Left)] # "&"
        /\ \A i \in t + 1 .. Target!Min(Target!Left) - 1 : uri[i] = "&"
    BY <1>1, <1>3, <2>1, LeftIs
  <2> QED BY <2>1, <2>2 DEF f
<1> HIDE DEF f
<1>6. f \in Nat /\ f >= 1 /\ f <= Len(uri) /\ f > Mark
  BY <1>3, <1>4, <1>5
<1>7. l \in f .. Len(uri) /\ Free(f, l) /\ (l = Len(uri) \/ uri[l + 1] = "&")
  <2> DEFINE z == Target!FirstOf("&", f, Len(uri))
  <2>1. z \in f .. Len(uri) + 1 /\ (z <= Len(uri) => uri[z] = "&") /\ \A i \in f .. z - 1 : uri[i] # "&"
    <3>1. f <= Len(uri) + 1
      BY <1>3, <1>6
    <3> QED BY <1>3, <1>6, <3>1, FirstOfIs
  <2>2. l = z - 1
    OBVIOUS
  <2> HIDE DEF z, l
  <2>3. z # f
    BY <1>5, <1>6, <2>1
  <2>4. l \in f .. Len(uri) /\ l + 1 = z /\ (l = Len(uri) \/ z <= Len(uri))
    BY <1>3, <1>6, <2>1, <2>2, <2>3
  <2>5. Free(f, l)
    BY <2>1, <2>2 DEF Free
  <2> QED BY <2>1, <2>4, <2>5
<1> HIDE DEF l
<1>8. f - 1 = Mark \/ uri[f - 1] = "&"
  <2>1. CASE f - 1 = tok.last
    <3>1. tok.last + 1 = f /\ tok.last # Len(uri)
      BY <1>3, <1>6, <2>1
    <3>2. tok.last = Mark
      BY <1>4, <1>5, <3>1 DEF Parted
    <3> QED BY <2>1, <3>2
  <2>2. CASE f - 1 # tok.last
    <3>1. f - 1 \in tok.last + 1 .. f - 1
      BY <1>3, <1>5, <1>6, <2>2
    <3> QED BY <1>5, <3>1
  <2> QED BY <2>1, <2>2
<1>16. f <= l /\ l <= Len(uri) /\ l \in Nat /\ f \in Mark + 1 .. l /\ l >= Mark
  <2> DEFINE n == Len(uri)
             m == Mark
  <2>1. n \in Nat /\ f \in Nat /\ m \in Nat /\ m < f
    BY <1>3, <1>6
  <2>2. l \in f .. n
    BY <1>7
  <2> HIDE DEF n, m
  <2>3. f <= l /\ l <= n /\ l \in Nat
    BY <2>1, <2>2
  <2>4. f \in m + 1 .. l /\ l >= m
    BY <2>1, <2>3
  <2> QED BY <2>3, <2>4 DEF n, m
<1>9. TokenIs(f, l)
  <2>1. f \in Mark + 1 .. l /\ l <= Len(uri)
    BY <1>16
  <2> QED BY <1>7, <1>8, <2>1 DEF TokenIs
<1>10. FineTo(f - 1)
  <2>1. tok.last <= f - 1 /\ f - 1 \in Nat
    BY <1>3, <1>5
  <2>2. \A i \in tok.last + 1 .. f - 1 : Fine(i)
    BY <1>5 DEF Fine
  <2> QED BY <1>3, <1>4, <2>1, <2>2, FineMore
<1>11. l \in Nat
  BY <1>16
<1>12. q \in f .. l + 1 /\ (q <= l => uri[q] = "=") /\ \A i \in f .. q - 1 : uri[i] # "="
  <2>1. f <= l + 1
    BY <1>6, <1>7
  <2> QED BY <1>6, <1>11, <2>1, FirstOfIs
<1> HIDE DEF q
<1>13. uri' = uri
  BY <1>1 DEF UriSame
<1>14. CASE q <= l
  <2> SUFFICES ASSUME NEW a, NEW b, NEW c, a = f, b = l, c = q PROVE UriInv'
    OBVIOUS
  <2>1. /\ a \in Nat /\ b \in Nat /\ c \in a .. b /\ uri[c] = "=" /\ TokenIs(a, b) /\ FineTo(a - 1) /\ b <= Len(uri) /\ a >= 1
        /\ a <= Len(uri)
    BY <1>6, <1>7, <1>9, <1>10, <1>11, <1>12, <1>14
  <2>2. /\ piece'.first = a /\ piece'.last = c - 1 /\ piece'.role = "key" /\ iter' = a /\ read' = <<>> /\ params' = params
        /\ tok'.first = a /\ tok'.last = b
    BY <1>1, <1>14
  <2>3. c \in Nat /\ c - 1 \in Nat /\ (c - 1) + 1 = c /\ a \in a .. c /\ a \in 0 .. Len(uri) + 1
    BY <1>3, <2>1
  <2>4. UriTypes'
    <3>1. <<>> \in Seq(Symbols)
      OBVIOUS
    <3> QED BY <1>1, <1>2, <1>13, <2>1, <2>2, <2>3, <3>1 DEF UriTypes
  <2>5. TokenIs(a, b)' /\ FineTo(a - 1)' /\ Target!Readable(uri)'
    BY <1>1, <1>2, <2>1, UriStays
  <2>6. InKey'
    <3>1. TokenIs(tok.first, tok.last)' /\ FineTo(iter - 1)'
      BY <2>2, <2>5
    <3>2. (piece.last + 1)' = c /\ uri'[c] = "="
      BY <1>13, <2>1, <2>2, <2>3
    <3> QED BY <2>1, <2>2, <2>3, <3>1, <3>2 DEF InKey
  <2> QED BY <1>1, <2>4, <2>5, <2>6 DEF UriInv
<1>15. CASE ~(q <= l)
  <2>1. q = l + 1
    BY <1>6, <1>11, <1>12, <1>15
  <2>2. \A i \in f .. l : uri[i] # "=" /\ uri[i] # "&"
    BY <1>7, <1>11, <1>12, <2>1 DEF Free
  <2>3. ASSUME NEW i \in f .. l PROVE Fine(i)
    <3>1. f \in 1 .. Len(uri) /\ l \in 1 .. Len(uri)
      BY <1>3, <1>6, <1>16
    <3>2. \A j \in f .. l : uri[j] \notin {"&", "="}
      BY <2>2
    <3>3. Target!FirstOf("?", 1, Len(uri)) = Mark
      BY DEF Mark
    <3>4. Target!InPlainToken(i)
      BY <1>3, <1>6, <1>7, <1>8, <3>1, <3>2, <3>3 DEF Target!InPlainToken, uri
    <3> QED BY <3>4 DEF Fine
  <2>4. FineTo(l)
    <3>1. f - 1 \in Nat /\ f - 1 <= l /\ (f - 1) + 1 = f
      BY <1>6, <1>7, <1>11
    <3> QED BY <1>10, <1>11, <2>3, <3>1, FineMore
  <2>5. l >= Mark /\ Parted(l)
    <3>1. l >= Mark
      BY <1>16
    <3> QED BY <1>7, <3>1 DEF Parted
  <2>6. \A p \in params' : \A r \in params' : p.key = r.key => p = r
    BY <1>1, <1>2, <1>15, PutKeeps
  <2>7. tok'.last = l /\ tok'.first \in Nat
    BY <1>1, <1>6
  <2> QED BY <1>1, <1>11, <1>15, <2>4, <2>5, <2>6, <2>7, UriBetween
<1> QED BY <1>14, <1>15

LEMMA AcceptKeeps ==
  ASSUME UriInv, Target!Accept
  PROVE  UriInv'
<1>1. /\ phase = "reading" /\ piece.role = "none" /\ Target!Left = {} /\ phase' = "accepted" /\ UriSame
      /\ piece' = piece /\ tok' = tok /\ iter' = iter /\ read' = read /\ params' = params
  BY DEF Target!Accept, UriSame, given, uri, piece, tok, iter, read, params, phase
<1>2. UriTypes /\ BetweenParts /\ Target!Readable(uri)
  BY <1>1 DEF UriInv, InPath, InKey, InParameter, InPlaceOf
<1>3. Len(uri) \in Nat /\ tok.last \in Nat /\ FineTo(tok.last)
  BY <1>2, MarkIs DEF UriTypes, BetweenParts
<1>4. FineTo(Len(uri))
  <2> DEFINE t == tok.last
  <2>1. \A i \in t + 1 .. Len(uri) : uri[i] = "&"
    BY <1>1, <1>3, NothingLeftOver
  <2>2. \A i \in t + 1 .. Len(uri) : Fine(i)
    BY <2>1 DEF Fine
  <2>3. t \in Nat /\ FineTo(t)
    BY <1>3
  <2> HIDE DEF t
  <2>4. \A i \in 1 .. Len(uri) : i \in 1 .. t \/ i \in t + 1 .. Len(uri)
    BY <2>3
  <2> QED BY <2>2, <2>3, <2>4 DEF FineTo
<1>5. uri' = uri
  BY <1>1 DEF UriSame
<1>6. UriTypes'
  BY <1>1, <1>2, <1>5 DEF UriTypes
<1>7. FineTo(Len(uri))' /\ Target!Readable(uri)'
  <2>1. ASSUME NEW n, n = Len(uri) PROVE FineTo(Len(uri))'
    <3>1. FineTo(n)'
      BY <1>1, <1>4, <2>1, UriStays
    <3> QED BY <1>5, <2>1, <3>1
  <2> QED BY <1>1, <1>2, <2>1, UriStays
<1> QED BY <1>1, <1>6, <1>7 DEF UriInv

LEMMA UriNext ==
  ASSUME UriInv, Target!Next \/ UNCHANGED Target!vars
  PROVE  UriInv'
<1>1. CASE UNCHANGED Target!vars
  <2>1. /\ UriSame /\ piece' = piece /\ tok' = tok /\ iter' = iter /\ read' = read /\ params' = params /\ phase' = phase
        /\ uri' = uri
    BY <1>1 DEF Target!vars, UriSame, given, uri, piece, tok, iter, read, params, phase
  <2> SUFFICES ASSUME NEW j, NEW a, NEW b, NEW n, j = iter, a = tok.first, b = tok.last, n = Len(uri) PROVE UriInv'
    OBVIOUS
  <2>2. /\ Mark' = Mark /\ FineTo(j - 1)' = FineTo(j - 1) /\ FineTo(b)' = FineTo(b) /\ FineTo(n)' = FineTo(n)
        /\ Parted(b)' = Parted(b) /\ TokenIs(a, b)' = TokenIs(a, b)
        /\ Target!Readable(uri)' = Target!Readable(uri) /\ \A i : Fine(i)' = Fine(i)
    BY <2>1, UriStays
  <2>3. UriTypes'
    BY <2>1 DEF UriInv, UriTypes
  <2>4. BetweenParts => BetweenParts'
    BY <2>1, <2>2 DEF BetweenParts
  <2>5. InPath => InPath'
    BY <2>1, <2>2 DEF InPath
  <2>6. InKey => InKey'
    BY <2>1, <2>2 DEF InKey
  <2>7. \A e : InPlaceOf(e) => InPlaceOf(e)'
    BY <2>1, <2>2 DEF InPlaceOf
  <2>8. InParameter => InParameter'
    BY <2>1, <2>2, <2>7 DEF InParameter
  <2>9. phase = "accepted" => FineTo(Len(uri))'
    BY <2>1, <2>2 DEF UriInv
  <2>10. phase = "bad_request" => (~Target!Readable(uri) \/ \E i \in 1 .. Len(uri) : ~Fine(i))'
    BY <2>1, <2>2 DEF UriInv
  <2>11. phase = "reading" => (BetweenParts \/ InPath \/ InKey \/ InParameter)'
    BY <2>4, <2>5, <2>6, <2>8 DEF UriInv
  <2>12. phase \in {"reading", "accepted"} => Target!Readable(uri)'
    BY <2>2 DEF UriInv
  <2> QED BY <2>1, <2>3, <2>9, <2>10, <2>11, <2>12 DEF UriInv
<1>2. CASE Target!Next
  BY <1>2, ReadTargetKeeps, PlainKeeps, PercentKeeps, EndPartKeeps, NextParameterKeeps, AcceptKeeps DEF Target!Next
<1> QED BY <1>1, <1>2

\* What the invariant says of what is refused.
LEMMA UriMeans ==
  ASSUME UriInv
  PROVE  /\ Target!TypeOK /\ Target!StaysInRange /\ Target!UnknownUnused /\ Target!RefusedIfMalformed
<1>1. UriTypes /\ Len(uri) \in Nat /\ DOMAIN uri = 1 .. Len(uri)
  BY MarkIs DEF UriInv, UriTypes
<1>2. Target!TypeOK
  BY <1>1 DEF UriTypes, Target!TypeOK, uri, iter, phase, params
<1>3. Target!StaysInRange
  <2> SUFFICES ASSUME Target!Decoding PROVE iter <= piece.last + 1
    BY DEF Target!StaysInRange, iter, piece
  <2>1. iter \in 1 .. piece.last + 1
    BY BordersAre DEF Borders
  <2>2. piece.last \in Nat
    BY <1>1 DEF UriTypes
  <2> QED BY <2>1, <2>2
<1>4. Target!RefusedIfMalformed
  <2> DEFINE bad == \E i \in DOMAIN uri : uri[i] = "%" /\ ~Target!InPlainToken(i) /\ ~Target!Escaped(i)
  <2>1. Target!RefusedIfMalformed <=> (phase \in {"accepted", "bad_request"} =>
          (phase = "bad_request" <=> ~Target!Readable(uri) \/ bad))
    BY DEF Target!RefusedIfMalformed, phase, uri
  <2>2. bad <=> \E i \in 1 .. Len(uri) : ~Fine(i)
    BY <1>1 DEF Fine
  <2> HIDE DEF bad
  <2>3. CASE phase = "bad_request"
    BY <2>1, <2>2, <2>3 DEF UriInv
  <2>4. CASE phase = "accepted"
    <3>1. FineTo(Len(uri)) /\ Target!Readable(uri)
      BY <2>4 DEF UriInv
    <3>2. ~bad
      <4>1. \A i \in 1 .. Len(uri) : i <= Len(uri)
        BY <1>1
      <4> QED BY <2>2, <3>1, <4>1 DEF FineTo
    <3> QED BY <2>1, <2>4, <3>1, <3>2
  <2> QED BY <2>1, <2>3, <2>4
<1>5. Target!UnknownUnused
  <2> SUFFICES ASSUME Target!Decoding, iter <= piece.last, uri[iter] = "%",
                      NEW hi1 \in Target!At(iter + 1), NEW hi2 \in Target!At(iter + 1),
                      NEW lo1 \in Target!At(iter + 2), NEW lo2 \in Target!At(iter + 2)
               PROVE  (Target!Refused(hi1, lo1) /\ Target!Refused(hi2, lo2)) \/ (hi1 = hi2 /\ lo1 = lo2)
    BY DEF Target!UnknownUnused, iter, piece, uri
  <2>1. IF Target!Refused(hi1, lo1) THEN ~Fine(iter) /\ iter \in 1 .. Len(uri)
        ELSE hi1 = uri[iter + 1] /\ lo1 = uri[iter + 2] /\ iter + 2 <= piece.last /\ FineTo(iter + 2)
    BY PercentIs
  <2>2. IF Target!Refused(hi2, lo2) THEN ~Fine(iter) /\ iter \in 1 .. Len(uri)
        ELSE hi2 = uri[iter + 1] /\ lo2 = uri[iter + 2] /\ iter + 2 <= piece.last /\ FineTo(iter + 2)
    BY PercentIs
  <2>3. ASSUME iter \in 1 .. Len(uri), FineTo(iter + 2) PROVE Fine(iter)
    BY <1>1, <2>3 DEF FineTo
  <2> QED BY <2>1, <2>2, <2>3
<1> QED BY <1>2, <1>3, <1>4, <1>5

-----------------------------------------------------------------------------
\* Targets: what a text is encoded as.

Coding == Target!Unreserved \cup {"%"}
Units(s) == [i \in DOMAIN s |->
  IF s[i] \in Target!Unreserved THEN <<s[i]>>
  ELSE LET n == CHOOSE n \in 0 .. 8 : Target!Coded[n + 1] = s[i]
       IN <<"%", Target!Digits[(n \div 3) + 1], Target!Digits[(n % 3) + 1]>>]
Enc(s) == Target!Encode(s)

\* A symbol as itself, or as the two digits of its code.
Itself(c, u) == Len(u) = 1 /\ u[1] = c /\ c \in Target!Unreserved
ByCode(c, u) == /\ Len(u) = 3 /\ u[1] = "%"
                /\ \E hi, lo \in 0 .. 2 : /\ u[2] = Target!Digits[hi + 1] /\ u[3] = Target!Digits[lo + 1]
                                          /\ Target!Coded[(3 * hi + lo) + 1] = c

LEMMA UnitsAre ==
  ASSUME NEW s \in Seq(Symbols)
  PROVE  /\ Len(Units(s)) = Len(s) /\ Len(s) \in Nat /\ DOMAIN Units(s) = 1 .. Len(s) /\ Units(s) \in Seq(Seq(Coding))
         /\ \A i \in 1 .. Len(s) : /\ Units(s)[i] \in Seq(Coding)
                                   /\ Itself(s[i], Units(s)[i]) \/ ByCode(s[i], Units(s)[i])
<1>1. Len(s) \in Nat /\ DOMAIN s = 1 .. Len(s) /\ \A i \in 1 .. Len(s) : s[i] \in Symbols
  OBVIOUS
<1>2. ASSUME NEW i \in 1 .. Len(s)
      PROVE  /\ Units(s)[i] \in Seq(Coding)
             /\ Itself(s[i], Units(s)[i]) \/ ByCode(s[i], Units(s)[i])
  <2> DEFINE n == CHOOSE n \in 0 .. 8 : Target!Coded[n + 1] = s[i]
             hi == n \div 3
             lo == n % 3
             a == Target!Digits[hi + 1]
             b == Target!Digits[lo + 1]
  <2>1. CASE s[i] \in Target!Unreserved
    <3> DEFINE c == s[i]
    <3>1. Units(s)[i] = <<c>>
      BY <1>1, <2>1 DEF Units
    <3>2. c \in Coding /\ c \in Target!Unreserved
      BY <2>1 DEF Coding
    <3> HIDE DEF c
    <3>3. <<c>> \in Seq(Coding) /\ Len(<<c>>) = 1 /\ <<c>>[1] = c
      BY <3>2
    <3>4. Itself(c, Units(s)[i])
      BY <3>1, <3>2, <3>3 DEF Itself
    <3> QED BY <3>1, <3>3, <3>4 DEF c
  <2>2. CASE s[i] \notin Target!Unreserved
    <3>1. Units(s)[i] = <<"%", a, b>>
      BY <1>1, <2>2 DEF Units
    <3>2. n \in 0 .. 8 /\ Target!Coded[n + 1] = s[i]
      <4>1. \E k \in 0 .. 8 : Target!Coded[k + 1] = s[i]
        BY <1>1, <2>2, SymbolsAre
      <4> QED BY <4>1
    <3> HIDE DEF n
    <3>3. hi \in 0 .. 2 /\ lo \in 0 .. 2 /\ 3 * hi + lo = n
      BY <3>2
    <3> HIDE DEF hi, lo
    <3>4. a \in Coding /\ b \in Coding /\ "%" \in Coding
      <4>1. a \in {"0", "1", "2"} /\ b \in {"0", "1", "2"}
        BY <3>3, DigitsAre
      <4> QED BY <4>1 DEF Coding, Target!Unreserved
    <3>5. Target!Coded[(3 * hi + lo) + 1] = s[i]
      BY <3>2, <3>3
    <3>6. \A x, y, z \in Coding : <<x, y, z>> \in Seq(Coding) /\ Len(<<x, y, z>>) = 3 /\ <<x, y, z>>[1] = x /\ <<x, y, z>>[2] = y /\ <<x, y, z>>[3] = z
      OBVIOUS
    <3> DEFINE u == Units(s)[i]
    <3>7. u \in Seq(Coding) /\ Len(u) = 3 /\ u[1] = "%" /\ u[2] = a /\ u[3] = b
      BY <3>1, <3>4, <3>6
    <3> HIDE DEF u
    <3>8. ByCode(s[i], u)
      BY <3>3, <3>5, <3>7 DEF ByCode
    <3> QED BY <3>7, <3>8 DEF u
  <2> QED BY <2>1, <2>2
<1>3. DOMAIN Units(s) = 1 .. Len(s)
  BY <1>1 DEF Units
<1>4. Units(s) \in [1 .. Len(s) -> Seq(Coding)]
  <2>1. Units(s) = [i \in 1 .. Len(s) |-> Units(s)[i]]
    BY <1>1 DEF Units
  <2> QED BY <1>2, <2>1
<1>5. Units(s) \in Seq(Seq(Coding)) /\ Len(Units(s)) = Len(s)
  BY <1>1, <1>4
<1> QED BY <1>1, <1>2, <1>3, <1>5

\* The encoding of the first symbols of s, and its size.
Laid(s) == CHOOSE made : Parts(made, Units(s), Coding) /\ Enc(s) = made[Len(s)]
Size(s, i) == Len(Laid(s)[i])

LEMMA EncodeIs ==
  ASSUME NEW s \in Seq(Symbols)
  PROVE  Assembled(Units(s), Len(s), Coding, Laid(s)) /\ Enc(s) = Laid(s)[Len(s)] /\ Enc(s) \in Seq(Coding)
<1> DEFINE u == Units(s)
<1>1. /\ Len(u) = Len(s) /\ Len(s) \in Nat /\ u \in Seq(Seq(Coding))
      /\ \A i \in 1 .. Len(s) : u[i] \in Seq(Coding)
  BY UnitsAre
<1>2. Enc(s) = Target!FlattenSeq(u)
  BY DEF Enc, Target!Encode, Units
<1> HIDE DEF u
<1>3. Len(u) = 0 => u = <<>>
  BY <1>1
<1>4. \E made : Parts(made, u, Coding) /\ Bodies!FlattenSeq(u) = made[Len(u)]
  BY <1>1, <1>3, FlattenParts
<1>5. Target!FlattenSeq(u) = Bodies!FlattenSeq(u)
  BY DEF Target!FlattenSeq, Bodies!FlattenSeq
<1>6. \E made : Parts(made, u, Coding) /\ Enc(s) = made[Len(s)]
  BY <1>1, <1>2, <1>4, <1>5
<1>7. Parts(Laid(s), u, Coding) /\ Enc(s) = Laid(s)[Len(s)]
  BY <1>6, Zenon DEF Laid, u
<1>8. Laid(s)[Len(s)] \in Seq(Coding)
  <2>1. Len(u) \in 0 .. Len(u)
    BY <1>1
  <2> QED BY <1>1, <1>7, <2>1 DEF Parts
<1> QED BY <1>1, <1>7, <1>8 DEF Assembled, u

LEMMA SizesAre ==
  ASSUME NEW s \in Seq(Symbols)
  PROVE  /\ Size(s, 0) = 0 /\ Len(Enc(s)) = Size(s, Len(s)) /\ Len(s) \in Nat
         /\ \A i \in 0 .. Len(s) : Size(s, i) \in Nat /\ Size(s, i) <= Size(s, Len(s))
         /\ \A i \in 1 .. Len(s) : Size(s, i) = Size(s, i - 1) + Len(Units(s)[i])
<1> DEFINE n == Len(s)
<1>1. Assembled(Units(s), n, Coding, Laid(s)) /\ Enc(s) = Laid(s)[n] /\ n \in Nat
  BY EncodeIs
<1>2. Laid(s)[0] = <<>>
  BY <1>1 DEF Assembled, Parts
<1>3. Size(s, 0) = 0
  BY <1>2 DEF Size
<1> HIDE DEF n
<1>4. \A i \in 1 .. n : Lies(Units(s), n, Laid(s), i)
  BY <1>1, PartThere
<1>5. ASSUME NEW i \in 1 .. n PROVE Size(s, i) = Size(s, i - 1) + Len(Units(s)[i]) /\ Size(s, i) \in Nat /\ Size(s, i) <= Size(s, n)
  <2>1. Lies(Units(s), n, Laid(s), i)
    BY <1>4
  <2> DEFINE a == Len(Laid(s)[i - 1])
             b == Len(Laid(s)[i])
             c == Len(Laid(s)[n])
             d == Len(Units(s)[i])
  <2>2. a \in Nat /\ d \in Nat /\ b = a + d /\ b <= c
    BY <2>1 DEF Lies
  <2> HIDE DEF a, b, c, d
  <2>3. b = a + d /\ b \in Nat /\ b <= c
    BY <2>2
  <2> QED BY <2>3 DEF a, b, c, d, Size
<1>6. Size(s, n) \in Nat
  <2>1. Enc(s) \in Seq(Coding)
    BY EncodeIs
  <2>2. Len(Enc(s)) \in Nat
    BY <2>1
  <2> QED BY <1>1, <2>2 DEF Size
<1>7. \A i \in 0 .. n : Size(s, i) \in Nat /\ Size(s, i) <= Size(s, n)
  <2>1. \A i \in 0 .. n : i = 0 \/ i \in 1 .. n
    BY <1>1
  <2>2. Size(s, 0) <= Size(s, n)
    BY <1>3, <1>6
  <2> QED BY <1>3, <1>5, <2>1, <2>2
<1>8. Len(Enc(s)) = Size(s, n)
  BY <1>1 DEF Size
<1> QED BY <1>1, <1>3, <1>5, <1>7, <1>8 DEF n

\* The encoding of s stands in the target behind o.
StandsAt(w, o) == o \in Nat /\ o + Len(w) <= Len(uri) /\ \A x \in 1 .. Len(w) : uri[o + x] = w[x]

\* What is found at the encoding of symbol m + 1.
UnitAt(s, o, m) ==
  LET p == (o + Size(s, m)) + 1
      c == s[m + 1]
  IN \/ uri[p] = c /\ c \in Target!Unreserved /\ Size(s, m + 1) = Size(s, m) + 1
     \/ /\ uri[p] = "%" /\ Size(s, m + 1) = Size(s, m) + 3
        /\ \E hi, lo \in 0 .. 2 : /\ uri[p + 1] = Target!Digits[hi + 1] /\ uri[p + 2] = Target!Digits[lo + 1]
                                  /\ Target!Coded[(3 * hi + lo) + 1] = c

LEMMA UnitThere ==
  ASSUME NEW s \in Seq(Symbols), NEW o, StandsAt(Enc(s), o), NEW m \in 0 .. Len(s) - 1
  PROVE  UnitAt(s, o, m)
<1> DEFINE n == Len(s)
           e == m + 1
           u == Units(s)[e]
           z == Size(s, m)
           c == s[e]
<1>1. n \in Nat /\ e \in 1 .. n /\ e - 1 = m /\ m \in 0 .. n
  <2>1. n \in Nat
    OBVIOUS
  <2> QED BY <2>1
<1>2. /\ z \in Nat /\ Size(s, e) = z + Len(u) /\ Size(s, e) <= Len(Enc(s))
  <2> HIDE DEF n, e, u
  <2>1. e \in 0 .. n
    BY <1>1
  <2>2. Size(s, m) \in Nat /\ Size(s, e) <= Size(s, n) /\ Len(Enc(s)) = Size(s, n)
    BY <1>1, <2>1, SizesAre DEF n
  <2>3. Size(s, e) = Size(s, e - 1) + Len(Units(s)[e])
    BY <1>1, SizesAre DEF n
  <2> QED BY <1>1, <2>2, <2>3 DEF u
<1>3. \A y \in 1 .. Len(u) : Enc(s)[z + y] = u[y]
  <2>1. Assembled(Units(s), n, Coding, Laid(s)) /\ Enc(s) = Laid(s)[n]
    BY EncodeIs
  <2> HIDE DEF n, e
  <2>2. Lies(Units(s), n, Laid(s), e)
    BY <1>1, <2>1, PartThere
  <2>3. \A y \in 1 .. Len(Units(s)[e]) : Laid(s)[n][Len(Laid(s)[e - 1]) + y] = Units(s)[e][y]
    BY <2>2 DEF Lies
  <2> QED BY <1>1, <2>1, <2>3 DEF u, Size
<1>4. Itself(c, u) \/ ByCode(c, u)
  <2> HIDE DEF n
  <2> QED BY <1>1, UnitsAre DEF n
<1>5. o \in Nat /\ \A x \in 1 .. Len(Enc(s)) : uri[o + x] = Enc(s)[x]
  BY DEF StandsAt
<1>6. Len(Enc(s)) \in Nat /\ Len(u) \in Nat
  <2>1. Enc(s) \in Seq(Coding) /\ u \in Seq(Coding)
    <3> HIDE DEF n
    <3> QED BY <1>1, UnitsAre, EncodeIs DEF n
  <2> QED BY <2>1
<1>7. UnitAt(s, o, m) <=>
        \/ uri[(o + z) + 1] = c /\ c \in Target!Unreserved /\ Size(s, e) = z + 1
        \/ /\ uri[(o + z) + 1] = "%" /\ Size(s, e) = z + 3
           /\ \E hi, lo \in 0 .. 2 : /\ uri[((o + z) + 1) + 1] = Target!Digits[hi + 1] /\ uri[((o + z) + 1) + 2] = Target!Digits[lo + 1]
                                     /\ Target!Coded[(3 * hi + lo) + 1] = c
  BY DEF UnitAt
<1> HIDE DEF u, z, c, n, e
<1>8. ASSUME NEW y \in 1 .. Len(u) PROVE uri[(o + z) + y] = u[y]
  <2>1. z + y \in 1 .. Len(Enc(s)) /\ o + (z + y) = (o + z) + y
    BY <1>2, <1>5, <1>6
  <2> QED BY <1>3, <1>5, <2>1
<1>9. CASE Itself(c, u)
  <2>1. Len(u) = 1 /\ u[1] = c /\ c \in Target!Unreserved
    BY <1>9 DEF Itself
  <2>2. uri[(o + z) + 1] = c
    BY <1>8, <2>1
  <2> QED BY <1>2, <1>7, <2>1, <2>2
<1>10. CASE ByCode(c, u)
  <2>1. Len(u) = 3 /\ u[1] = "%"
    BY <1>10 DEF ByCode
  <2>2. PICK hi \in 0 .. 2, lo \in 0 .. 2 :
          u[2] = Target!Digits[hi + 1] /\ u[3] = Target!Digits[lo + 1] /\ Target!Coded[(3 * hi + lo) + 1] = c
    BY <1>10 DEF ByCode
  <2>3. 1 \in 1 .. Len(u) /\ 2 \in 1 .. Len(u) /\ 3 \in 1 .. Len(u)
    BY <2>1
  <2>4. uri[(o + z) + 1] = u[1] /\ uri[(o + z) + 2] = u[2] /\ uri[(o + z) + 3] = u[3]
    BY <1>8, <2>3
  <2>5. ((o + z) + 1) + 1 = (o + z) + 2 /\ ((o + z) + 1) + 2 = (o + z) + 3
    BY <1>2, <1>5
  <2>6. Size(s, e) = z + 3
    BY <1>2, <2>1
  <2>7. uri[((o + z) + 1) + 1] = Target!Digits[hi + 1] /\ uri[((o + z) + 1) + 2] = Target!Digits[lo + 1]
    BY <2>2, <2>4, <2>5
  <2> QED BY <1>7, <2>1, <2>2, <2>4, <2>6, <2>7
<1> QED BY <1>4, <1>9, <1>10

-----------------------------------------------------------------------------
\* Targets: where what was given is in the target.

KeyValue == [key : Seq(Symbols), value : Seq(Symbols)]
PathSymbols == Coding \cup {"/", "?", "&", "="}
ParameterUnits(q) == [i \in DOMAIN q |->
  (IF i = 1 THEN <<"?">> ELSE <<"&">>) \o Enc(q[i].key) \o <<"=">> \o Enc(q[i].value)]

\* A parameter: a separator, the key, a "=", the value.
ParameterIs(u, c, k, v) ==
  /\ u \in Seq(PathSymbols) /\ Len(u) = (Len(k) + 2) + Len(v) /\ u[1] = c
  /\ \A x \in 1 .. Len(k) : u[1 + x] = k[x]
  /\ u[Len(k) + 2] = "="
  /\ \A x \in 1 .. Len(v) : u[(Len(k) + 2) + x] = v[x]

LEMMA ParameterMade ==
  ASSUME NEW c \in PathSymbols, NEW k \in Seq(Coding), NEW v \in Seq(Coding)
  PROVE  ParameterIs(<<c>> \o k \o <<"=">> \o v, c, k, v)
<1> DEFINE V == PathSymbols
           s == <<c>>
           e == <<"=">>
           a == s \o k
           b == a \o e
           w == b \o v
<1>1. k \in Seq(V) /\ v \in Seq(V) /\ s \in Seq(V) /\ e \in Seq(V)
  <2>1. Coding \subseteq V /\ "=" \in V
    BY DEF PathSymbols
  <2>2. \A t \in Seq(Coding) : t \in Seq(V)
    BY <2>1
  <2> QED BY <2>1, <2>2
<1>2. Len(s) = 1 /\ s[1] = c /\ Len(e) = 1 /\ e[1] = "="
  OBVIOUS
<1>3. Len(k) \in Nat /\ Len(v) \in Nat
  BY <1>1
<1> HIDE DEF V, s, e
<1>4. /\ a \in Seq(V) /\ Len(a) = 1 + Len(k) /\ a[1] = c /\ \A x \in 1 .. Len(k) : a[1 + x] = k[x]
  <2>1. /\ a \in Seq(V) /\ Len(a) = Len(s) + Len(k) /\ (\A i \in 1 .. Len(s) : a[i] = s[i])
        /\ \A i \in 1 .. Len(k) : a[Len(s) + i] = k[i]
    BY <1>1, Behind
  <2>2. 1 \in 1 .. Len(s)
    BY <1>2
  <2> HIDE DEF a
  <2> QED BY <1>2, <2>1, <2>2
<1> HIDE DEF a
<1>5. /\ b \in Seq(V) /\ Len(b) = Len(k) + 2 /\ (\A i \in 1 .. 1 + Len(k) : b[i] = a[i]) /\ b[Len(k) + 2] = "="
  <2>1. /\ b \in Seq(V) /\ Len(b) = Len(a) + Len(e) /\ (\A i \in 1 .. Len(a) : b[i] = a[i])
        /\ \A i \in 1 .. Len(e) : b[Len(a) + i] = e[i]
    <3>1. a \in Seq(V) /\ e \in Seq(V)
      BY <1>1, <1>4
    <3> QED BY <3>1, Behind
  <2>2. 1 \in 1 .. Len(e)
    BY <1>2
  <2> HIDE DEF b
  <2>3. b[Len(a) + 1] = "="
    BY <1>2, <2>1, <2>2
  <2>4. Len(a) + 1 = Len(k) + 2 /\ Len(a) + Len(e) = Len(k) + 2
    BY <1>2, <1>3, <1>4
  <2> QED BY <1>4, <2>1, <2>3, <2>4
<1> HIDE DEF b
<1>6. /\ w \in Seq(V) /\ Len(w) = (Len(k) + 2) + Len(v) /\ (\A i \in 1 .. Len(k) + 2 : w[i] = b[i])
      /\ \A i \in 1 .. Len(v) : w[(Len(k) + 2) + i] = v[i]
  <2>1. /\ w \in Seq(V) /\ Len(w) = Len(b) + Len(v) /\ (\A i \in 1 .. Len(b) : w[i] = b[i])
        /\ \A i \in 1 .. Len(v) : w[Len(b) + i] = v[i]
    <3>1. b \in Seq(V) /\ v \in Seq(V)
      BY <1>1, <1>5
    <3> QED BY <3>1, Behind
  <2> HIDE DEF w
  <2> QED BY <1>5, <2>1
<1>7. w = <<c>> \o k \o <<"=">> \o v
  BY DEF w, b, a, s, e
<1> HIDE DEF w
<1>8. 1 \in 1 .. Len(k) + 2 /\ 1 \in 1 .. 1 + Len(k) /\ Len(k) + 2 \in 1 .. Len(k) + 2
  BY <1>3
<1>9. \A x \in 1 .. Len(k) : 1 + x \in 1 .. Len(k) + 2 /\ 1 + x \in 1 .. 1 + Len(k)
  BY <1>3
<1>10. w[1] = c /\ w[Len(k) + 2] = "=" /\ \A x \in 1 .. Len(k) : w[1 + x] = k[x]
  BY <1>4, <1>5, <1>6, <1>8, <1>9
<1>11. ParameterIs(w, c, k, v)
  BY <1>6, <1>10 DEF ParameterIs, V
<1> QED BY <1>7, <1>11

QueryMade(q) == CHOOSE made : Parts(made, ParameterUnits(q), PathSymbols) /\ Target!Query(q) = made[Len(q)]

LEMMA QueryIs ==
  ASSUME NEW q \in Seq(KeyValue)
  PROVE  /\ Assembled(ParameterUnits(q), Len(q), PathSymbols, QueryMade(q)) /\ Target!Query(q) = QueryMade(q)[Len(q)]
         /\ Target!Query(q) \in Seq(PathSymbols) /\ Len(q) \in Nat
         /\ \A i \in 1 .. Len(q) :
              /\ q[i].key \in Seq(Symbols) /\ q[i].value \in Seq(Symbols)
              /\ ParameterIs(ParameterUnits(q)[i], IF i = 1 THEN "?" ELSE "&", Enc(q[i].key), Enc(q[i].value))
<1> DEFINE u == ParameterUnits(q)
<1>1. Len(q) \in Nat /\ DOMAIN q = 1 .. Len(q) /\ \A i \in 1 .. Len(q) : q[i] \in KeyValue
  OBVIOUS
<1>2. \A i \in 1 .. Len(q) : q[i].key \in Seq(Symbols) /\ q[i].value \in Seq(Symbols)
  BY <1>1 DEF KeyValue
<1>3. ASSUME NEW i \in 1 .. Len(q)
      PROVE  ParameterIs(u[i], IF i = 1 THEN "?" ELSE "&", Enc(q[i].key), Enc(q[i].value))
  <2> DEFINE c == IF i = 1 THEN "?" ELSE "&"
             k == Enc(q[i].key)
             v == Enc(q[i].value)
  <2>1. u[i] = (IF i = 1 THEN <<"?">> ELSE <<"&">>) \o k \o <<"=">> \o v
    BY <1>1 DEF ParameterUnits
  <2>2. c \in PathSymbols
    BY DEF PathSymbols
  <2>3. k \in Seq(Coding) /\ v \in Seq(Coding)
    BY <1>2, EncodeIs
  <2>4. (IF i = 1 THEN <<"?">> ELSE <<"&">>) = <<c>>
    OBVIOUS
  <2> HIDE DEF c, k, v, u
  <2>5. u[i] = <<c>> \o k \o <<"=">> \o v
    BY <2>1, <2>4
  <2>6. ParameterIs(u[i], c, k, v)
    BY <2>2, <2>3, <2>5, ParameterMade
  <2> QED BY <2>6 DEF c, k, v
<1>4. \A i \in 1 .. Len(q) : u[i] \in Seq(PathSymbols)
  BY <1>3 DEF ParameterIs
<1>5. Target!Query(q) = Target!FlattenSeq(u)
  BY DEF Target!Query, ParameterUnits, Enc
<1>6. Len(u) = Len(q)
  BY <1>1 DEF ParameterUnits
<1>11. DOMAIN u = 1 .. Len(q)
  BY <1>1 DEF ParameterUnits
<1>12. u \in [1 .. Len(q) -> Seq(PathSymbols)]
  <2>1. u = [i \in 1 .. Len(q) |-> u[i]]
    BY <1>1 DEF ParameterUnits
  <2> HIDE DEF u
  <2> QED BY <1>4, <2>1
<1> HIDE DEF u
<1>13. u \in Seq(Seq(PathSymbols))
  BY <1>1, <1>12
<1>7. Len(u) = 0 => u = <<>>
  BY <1>13
<1>8. \E made : Parts(made, u, PathSymbols) /\ Bodies!FlattenSeq(u) = made[Len(u)]
  BY <1>1, <1>4, <1>6, <1>7, FlattenParts
<1>9. Target!FlattenSeq(u) = Bodies!FlattenSeq(u)
  BY DEF Target!FlattenSeq, Bodies!FlattenSeq
<1>10. Parts(QueryMade(q), u, PathSymbols) /\ Target!Query(q) = QueryMade(q)[Len(q)]
  <2>1. \E made : Parts(made, u, PathSymbols) /\ Target!Query(q) = made[Len(q)]
    BY <1>5, <1>6, <1>8, <1>9
  <2> QED BY <2>1, Zenon DEF QueryMade, u
<1>14. QueryMade(q)[Len(q)] \in Seq(PathSymbols)
  <2>1. Len(u) \in 0 .. Len(u)
    BY <1>1, <1>6
  <2> QED BY <1>6, <1>10, <2>1 DEF Parts
<1>15. Assembled(u, Len(q), PathSymbols, QueryMade(q))
  BY <1>1, <1>4, <1>6, <1>10 DEF Assembled
<1> QED BY <1>1, <1>2, <1>3, <1>10, <1>14, <1>15 DEF u

-----------------------------------------------------------------------------
\* Targets: the places of the path, the keys and the values.

GivenKey(k) == given.parameters[k].key
GivenValue(k) == given.parameters[k].value
GivenMany == Len(given.parameters)
\* Where the path or parameter k ends, and the place of its "=".
PartEnd(k) == (1 + Len(Enc(given.path))) + Len(QueryMade(given.parameters)[k])
Equal(k) == (PartEnd(k - 1) + 2) + Len(Enc(GivenKey(k)))

Sent == /\ given.path \in Seq(Symbols) /\ given.parameters \in Seq(KeyValue)
        /\ uri = <<"/">> \o Enc(given.path) \o Target!Query(given.parameters)

ParameterAt(k) ==
  /\ GivenKey(k) \in Seq(Symbols) /\ GivenValue(k) \in Seq(Symbols)
  /\ PartEnd(k - 1) \in Nat /\ PartEnd(k) \in Nat /\ PartEnd(k) <= Len(uri)
  /\ uri[PartEnd(k - 1) + 1] = IF k = 1 THEN "?" ELSE "&"
  /\ StandsAt(Enc(GivenKey(k)), PartEnd(k - 1) + 1)
  /\ uri[Equal(k)] = "="
  /\ StandsAt(Enc(GivenValue(k)), Equal(k)) /\ PartEnd(k) = Equal(k) + Len(Enc(GivenValue(k)))

LEMMA LayoutIs ==
  ASSUME Sent
  PROVE  /\ uri \in Seq(PathSymbols) /\ uri[1] = "/" /\ Len(uri) \in Nat /\ GivenMany \in Nat
         /\ StandsAt(Enc(given.path), 1) /\ PartEnd(0) = 1 + Len(Enc(given.path)) /\ PartEnd(GivenMany) = Len(uri)
         /\ PartEnd(0) <= Len(uri)
         /\ \A k \in 1 .. GivenMany : ParameterAt(k)
<1> DEFINE V == PathSymbols
           q == given.parameters
           n == GivenMany
           h == <<"/">>
           p == Enc(given.path)
           w == Target!Query(q)
           hp == h \o p
           made == QueryMade(q)
           u == ParameterUnits(q)
<1>1. /\ q \in Seq(KeyValue) /\ p \in Seq(Coding) /\ uri = hp \o w
  BY EncodeIs DEF Sent
<1>2. /\ Assembled(u, n, V, made) /\ w = made[n] /\ w \in Seq(V) /\ n \in Nat
      /\ \A k \in 1 .. n : /\ GivenKey(k) \in Seq(Symbols) /\ GivenValue(k) \in Seq(Symbols)
                           /\ ParameterIs(u[k], IF k = 1 THEN "?" ELSE "&", Enc(GivenKey(k)), Enc(GivenValue(k)))
  BY <1>1, QueryIs DEF GivenMany, GivenKey, GivenValue
<1>3. p \in Seq(V) /\ h \in Seq(V) /\ Len(h) = 1 /\ h[1] = "/"
  <2>1. Coding \subseteq V /\ "/" \in V
    BY DEF PathSymbols
  <2>2. \A t \in Seq(Coding) : t \in Seq(V)
    BY <2>1
  <2>3. p \in Seq(V)
    <3> HIDE DEF p, V
    <3> QED BY <1>1, <2>2
  <2>4. \A c \in V : <<c>> \in Seq(V) /\ Len(<<c>>) = 1 /\ <<c>>[1] = c
    OBVIOUS
  <2> HIDE DEF p, V
  <2> QED BY <2>1, <2>3, <2>4
<1> HIDE DEF V, h, p, w, made, u, n
<1>4. Len(p) \in Nat /\ Len(w) \in Nat
  BY <1>2, <1>3, LenNat
<1>5. /\ hp \in Seq(V) /\ Len(hp) = 1 + Len(p) /\ hp[1] = "/" /\ \A x \in 1 .. Len(p) : hp[1 + x] = p[x]
  <2>1. /\ hp \in Seq(V) /\ Len(hp) = Len(h) + Len(p) /\ (\A i \in 1 .. Len(h) : hp[i] = h[i])
        /\ \A i \in 1 .. Len(p) : hp[Len(h) + i] = p[i]
    <3>1. h \in Seq(V) /\ p \in Seq(V)
      BY <1>3
    <3> QED BY <3>1, Behind
  <2>2. 1 \in 1 .. Len(h)
    BY <1>3
  <2> HIDE DEF hp
  <2> QED BY <1>3, <2>1, <2>2
<1> HIDE DEF hp
<1>6. /\ uri \in Seq(V) /\ Len(uri) = (1 + Len(p)) + Len(w) /\ (\A i \in 1 .. 1 + Len(p) : uri[i] = hp[i])
      /\ \A i \in 1 .. Len(w) : uri[(1 + Len(p)) + i] = w[i]
  <2>1. /\ hp \o w \in Seq(V) /\ Len(hp \o w) = Len(hp) + Len(w) /\ (\A i \in 1 .. Len(hp) : (hp \o w)[i] = hp[i])
        /\ \A i \in 1 .. Len(w) : (hp \o w)[Len(hp) + i] = w[i]
    <3>1. hp \in Seq(V) /\ w \in Seq(V)
      BY <1>2, <1>5
    <3> QED BY <3>1, Behind
  <2> QED BY <1>1, <1>5, <2>1
<1>7. Len(uri) \in Nat
  BY <1>4, <1>6
<1>8. uri[1] = "/"
  <2>1. 1 \in 1 .. 1 + Len(p)
    BY <1>4
  <2> QED BY <1>5, <1>6, <2>1
<1>9. StandsAt(p, 1)
  <2>1. 1 + Len(p) <= Len(uri)
    BY <1>4, <1>6
  <2>2. \A x \in 1 .. Len(p) : 1 + x \in 1 .. 1 + Len(p)
    BY <1>4
  <2>3. \A x \in 1 .. Len(p) : uri[1 + x] = p[x]
    BY <1>5, <1>6, <2>2
  <2> QED BY <2>1, <2>3 DEF StandsAt
<1>10. \A k : PartEnd(k) = (1 + Len(p)) + Len(made[k])
  BY DEF PartEnd, p, made
<1>11. Len(made[0]) = 0
  BY <1>2 DEF Assembled, Parts
<1>12. PartEnd(0) = 1 + Len(p)
  <2>1. PartEnd(0) = (1 + Len(p)) + Len(made[0])
    BY <1>10
  <2>2. \A x \in Nat : (1 + x) + 0 = 1 + x
    OBVIOUS
  <2> QED BY <1>4, <1>11, <2>1, <2>2
<1>13. PartEnd(n) = Len(uri)
  BY <1>2, <1>6, <1>10
<1>14. ASSUME NEW k \in 1 .. n PROVE ParameterAt(k)
  <2> DEFINE c == IF k = 1 THEN "?" ELSE "&"
             a == Enc(GivenKey(k))
             b == Enc(GivenValue(k))
             t == u[k]
             x0 == Len(made[k - 1])
             x1 == Len(made[k])
             lp == Len(p)
             la == Len(a)
             lb == Len(b)
             lt == Len(t)
             lw == Len(w)
             z == Len(uri)
             l0 == PartEnd(k - 1)
             l1 == PartEnd(k)
             e == Equal(k)
  <2>1. Lies(u, n, made, k)
    BY <1>2, PartThere
  <2>2. x0 \in Nat /\ x1 = x0 + lt /\ x1 <= lw /\ \A y \in 1 .. lt : w[x0 + y] = t[y]
    BY <1>2, <2>1 DEF Lies
  <2>3. ParameterIs(t, c, a, b) /\ GivenKey(k) \in Seq(Symbols) /\ GivenValue(k) \in Seq(Symbols)
    BY <1>2
  <2>4. la \in Nat /\ lb \in Nat
    <3>1. a \in Seq(Coding) /\ b \in Seq(Coding)
      BY <2>3, EncodeIs
    <3> HIDE DEF a, b
    <3> QED BY <3>1, LenNat
  <2>5. /\ lt = (la + 2) + lb /\ t[1] = c /\ (\A x \in 1 .. la : t[1 + x] = a[x])
        /\ t[la + 2] = "=" /\ \A x \in 1 .. lb : t[(la + 2) + x] = b[x]
    BY <2>3 DEF ParameterIs
  <2>6. l0 = (1 + lp) + x0 /\ l1 = (1 + lp) + x1
    BY <1>10
  <2>7. z = (1 + lp) + lw /\ lp \in Nat /\ lw \in Nat /\ \A i \in 1 .. lw : uri[(1 + lp) + i] = w[i]
    BY <1>4, <1>6
  <2>8. e = (l0 + 2) + la
    BY DEF Equal
  <2>9. ParameterAt(k) <=>
          /\ GivenKey(k) \in Seq(Symbols) /\ GivenValue(k) \in Seq(Symbols)
          /\ l0 \in Nat /\ l1 \in Nat /\ l1 <= z /\ uri[l0 + 1] = c
          /\ (l0 + 1 \in Nat /\ (l0 + 1) + la <= z /\ \A x \in 1 .. la : uri[(l0 + 1) + x] = a[x])
          /\ uri[e] = "="
          /\ (e \in Nat /\ e + lb <= z /\ \A x \in 1 .. lb : uri[e + x] = b[x])
          /\ l1 = e + lb
    BY DEF ParameterAt, StandsAt
  <2> HIDE DEF c, a, b, t, x0, x1, lp, la, lb, lt, lw, z, l0, l1, e
  <2>10. ASSUME NEW y \in 1 .. lt PROVE uri[l0 + y] = t[y]
    <3>1. x0 + y \in 1 .. lw /\ (1 + lp) + (x0 + y) = l0 + y
      BY <2>2, <2>4, <2>5, <2>6, <2>7
    <3> QED BY <2>2, <2>7, <3>1
  <2>11. l0 \in Nat /\ l1 \in Nat /\ l1 <= z /\ l1 = e + lb /\ e \in Nat /\ z \in Nat
    BY <2>2, <2>4, <2>5, <2>6, <2>7, <2>8
  <2>12. uri[l0 + 1] = c
    <3>1. 1 \in 1 .. lt
      BY <2>4, <2>5
    <3> QED BY <2>5, <2>10, <3>1
  <2>13. /\ l0 + 1 \in Nat /\ (l0 + 1) + la <= z /\ \A x \in 1 .. la : uri[(l0 + 1) + x] = a[x]
    <3>1. \A x \in 1 .. la : 1 + x \in 1 .. lt /\ l0 + (1 + x) = (l0 + 1) + x
      BY <2>4, <2>5, <2>11
    <3>2. \A x \in 1 .. la : uri[(l0 + 1) + x] = a[x]
      BY <2>5, <2>10, <3>1
    <3>3. l0 + 1 \in Nat /\ (l0 + 1) + la <= z
      BY <2>4, <2>8, <2>11
    <3> QED BY <3>2, <3>3
  <2>14. uri[e] = "="
    <3>1. la + 2 \in 1 .. lt /\ l0 + (la + 2) = e
      BY <2>4, <2>5, <2>8, <2>11
    <3> QED BY <2>5, <2>10, <3>1
  <2>15. \A x \in 1 .. lb : uri[e + x] = b[x]
    <3>1. \A x \in 1 .. lb : (la + 2) + x \in 1 .. lt /\ l0 + ((la + 2) + x) = e + x
      BY <2>4, <2>5, <2>8, <2>11
    <3> QED BY <2>5, <2>10, <3>1
  <2>16. e + lb <= z
    BY <2>11
  <2> QED BY <2>3, <2>9, <2>11, <2>12, <2>13, <2>14, <2>15, <2>16
<1>15. PartEnd(0) <= Len(uri)
  BY <1>4, <1>6, <1>12
<1> QED BY <1>2, <1>6, <1>7, <1>8, <1>9, <1>12, <1>13, <1>14, <1>15 DEF p, V, n

-----------------------------------------------------------------------------
\* Targets: a text that is read.

\* r is what was read when i stands behind the first m symbols of s: pre and those symbols.
ReadTo(s, pre, o, i, r, m) ==
  /\ m \in 0 .. Len(s) /\ i = (o + Size(s, m)) + 1 /\ r \in Seq(Symbols) /\ Len(r) = Len(pre) + m
  /\ \A x \in 1 .. Len(pre) + m : r[x] = (pre \o s)[x]
TextAt(s, pre, o, i, r) == \E m \in Nat : ReadTo(s, pre, o, i, r, m)

LEMMA TextStarts ==
  ASSUME NEW s \in Seq(Symbols), NEW pre \in Seq(Symbols), NEW o \in Nat
  PROVE  TextAt(s, pre, o, o + 1, pre)
<1>1. Len(s) \in Nat /\ Len(pre) \in Nat /\ Size(s, 0) = 0
  BY SizesAre, LenNat
<1>2. 0 \in 0 .. Len(s) /\ (o + 0) + 1 = o + 1 /\ Len(pre) + 0 = Len(pre) /\ 0 \in Nat
  BY <1>1
<1>3. \A x \in 1 .. Len(pre) : pre[x] = (pre \o s)[x]
  BY Behind
<1>4. ReadTo(s, pre, o, o + 1, pre, 0)
  BY <1>1, <1>2, <1>3 DEF ReadTo
<1> QED BY <1>2, <1>4 DEF TextAt

LEMMA TextMore ==
  ASSUME NEW s \in Seq(Symbols), NEW pre \in Seq(Symbols), NEW o \in Nat, NEW i, NEW r, NEW m \in Nat,
         ReadTo(s, pre, o, i, r, m), m < Len(s), NEW j, j = (o + Size(s, m + 1)) + 1
  PROVE  TextAt(s, pre, o, j, Append(r, s[m + 1]))
<1> DEFINE n == Len(s)
           l == Len(pre)
           c == s[m + 1]
           w == pre \o s
           q == Append(r, c)
<1>1. n \in Nat /\ l \in Nat /\ m \in 0 .. n /\ m < n
  <2>1. n \in Nat /\ l \in Nat
    BY LenNat
  <2> QED BY <2>1 DEF ReadTo
<1>2. r \in Seq(Symbols) /\ Len(r) = l + m /\ \A x \in 1 .. l + m : r[x] = w[x]
  BY DEF ReadTo
<1>3. \A x \in 1 .. n : w[l + x] = s[x]
  BY Behind
<1>4. m + 1 \in 1 .. n /\ m + 1 \in Nat /\ m + 1 \in 0 .. n
  <2> HIDE DEF n
  <2> QED BY <1>1
<1>5. c \in Symbols /\ c = w[l + (m + 1)]
  <2>1. c \in Symbols
    BY <1>4
  <2> QED BY <1>3, <1>4, <2>1
<1> HIDE DEF n, l, c, w
<1>6. q \in Seq(Symbols) /\ Len(q) = Len(r) + 1 /\ (\A x \in 1 .. Len(r) : q[x] = r[x]) /\ q[Len(r) + 1] = c
  BY <1>2, <1>5
<1> HIDE DEF q
<1>7. Len(q) = l + (m + 1) /\ Len(r) + 1 = l + (m + 1)
  BY <1>1, <1>2, <1>6
<1>8. ASSUME NEW x \in 1 .. l + (m + 1) PROVE q[x] = w[x]
  <2>1. x \in 1 .. l + m \/ x = l + (m + 1)
    BY <1>1
  <2>2. CASE x \in 1 .. l + m
    BY <1>2, <1>6, <2>2
  <2>3. CASE x = l + (m + 1)
    BY <1>5, <1>6, <1>7, <2>3
  <2> QED BY <2>1, <2>2, <2>3
<1>9. ReadTo(s, pre, o, j, q, m + 1)
  BY <1>4, <1>6, <1>7, <1>8 DEF ReadTo, n, l, w
<1> QED BY <1>4, <1>9 DEF TextAt, q, c

\* Where the encoding does not end, a symbol is left; where it ends, none is.
LEMMA TextLeft ==
  ASSUME NEW s \in Seq(Symbols), NEW o \in Nat, NEW m \in 0 .. Len(s), StandsAt(Enc(s), o)
  PROVE  m < Len(s) <=> (o + Size(s, m)) + 1 <= o + Len(Enc(s))
<1> DEFINE n == Len(s)
           a == Size(s, m)
           b == Size(s, m + 1)
           d == Size(s, n)
<1>1. n \in Nat /\ d = Len(Enc(s)) /\ a \in Nat /\ d \in Nat /\ m \in 0 .. n
  <2>1. n \in Nat /\ m \in 0 .. n
    BY SizesAre
  <2>2. n \in 0 .. n
    <3> HIDE DEF n
    <3> QED BY <2>1
  <2> QED BY <2>1, <2>2, SizesAre
<1>2. ASSUME m < n PROVE b <= d /\ (b = a + 1 \/ b = a + 3)
  <2>1. m \in 0 .. n - 1 /\ m + 1 \in 0 .. n
    <3> HIDE DEF n
    <3> QED BY <1>1, <1>2
  <2>2. UnitAt(s, o, m)
    BY <2>1, UnitThere
  <2>3. b = a + 1 \/ b = a + 3
    BY <2>2 DEF UnitAt
  <2> QED BY <2>1, <2>3, SizesAre
<1>3. m = n => a = d
  OBVIOUS
<1> HIDE DEF n, a, b, d
<1>4. m < n => (o + a) + 1 <= o + d
  BY <1>1, <1>2
<1>5. m = n => ~((o + a) + 1 <= o + d)
  BY <1>1, <1>3
<1>6. m < n <=> (o + a) + 1 <= o + d
  BY <1>1, <1>4, <1>5
<1> QED BY <1>1, <1>6 DEF n, a

LEMMA TextPlain ==
  ASSUME NEW s \in Seq(Symbols), NEW pre \in Seq(Symbols), NEW o \in Nat, StandsAt(Enc(s), o), NEW i, NEW r,
         TextAt(s, pre, o, i, r), i <= o + Len(Enc(s)), uri[i] # "%"
  PROVE  TextAt(s, pre, o, i + 1, Append(r, uri[i]))
<1>1. PICK m \in Nat : ReadTo(s, pre, o, i, r, m)
  BY DEF TextAt
<1>2. m \in 0 .. Len(s) /\ i = (o + Size(s, m)) + 1
  BY <1>1 DEF ReadTo
<1>3. m < Len(s)
  BY <1>2, TextLeft
<1>4. Len(s) \in Nat /\ Size(s, m) \in Nat
  BY <1>2, SizesAre
<1>5. m \in 0 .. Len(s) - 1
  <2> DEFINE n == Len(s)
  <2>1. n \in Nat /\ m < n
    BY <1>3, <1>4
  <2> HIDE DEF n
  <2>2. m \in 0 .. n - 1
    BY <2>1
  <2> QED BY <2>2 DEF n
<1>6. UnitAt(s, o, m)
  BY <1>5, UnitThere
<1>7. uri[i] = s[m + 1] /\ Size(s, m + 1) = Size(s, m) + 1
  BY <1>2, <1>6 DEF UnitAt
<1>8. i + 1 = (o + Size(s, m + 1)) + 1
  <2> DEFINE a == Size(s, m)
             b == Size(s, m + 1)
  <2>1. a \in Nat /\ b = a + 1 /\ i = (o + a) + 1
    BY <1>2, <1>4, <1>7
  <2> HIDE DEF a, b
  <2>2. i + 1 = (o + b) + 1
    BY <2>1
  <2> QED BY <2>2 DEF b
<1> QED BY <1>1, <1>3, <1>7, <1>8, TextMore

\* The two digits behind a "%" are those of the next symbol.
LEMMA TextPercent ==
  ASSUME NEW s \in Seq(Symbols), NEW pre \in Seq(Symbols), NEW o \in Nat, StandsAt(Enc(s), o), NEW i, NEW r,
         TextAt(s, pre, o, i, r), i <= o + Len(Enc(s)), uri[i] = "%"
  PROVE  \E hi, lo \in 0 .. 2 :
           /\ i + 2 <= o + Len(Enc(s)) /\ uri[i + 1] = Target!Digits[hi + 1] /\ uri[i + 2] = Target!Digits[lo + 1]
           /\ TextAt(s, pre, o, i + 3, Append(r, Target!Coded[(3 * hi + lo) + 1]))
<1>1. PICK m \in Nat : ReadTo(s, pre, o, i, r, m)
  BY DEF TextAt
<1>2. m \in 0 .. Len(s) /\ i = (o + Size(s, m)) + 1
  BY <1>1 DEF ReadTo
<1>3. m < Len(s)
  BY <1>2, TextLeft
<1>4. Len(s) \in Nat /\ Size(s, m) \in Nat
  BY <1>2, SizesAre
<1>5. m \in 0 .. Len(s) - 1 /\ m + 1 \in 0 .. Len(s)
  <2> DEFINE n == Len(s)
  <2>1. n \in Nat /\ m < n
    BY <1>3, <1>4
  <2> HIDE DEF n
  <2>2. m \in 0 .. n - 1 /\ m + 1 \in 0 .. n
    BY <2>1
  <2> QED BY <2>2 DEF n
<1>6. UnitAt(s, o, m)
  BY <1>5, UnitThere
<1>7. "%" \notin Target!Unreserved
  BY DEF Target!Unreserved
<1>8. /\ Size(s, m + 1) = Size(s, m) + 3
      /\ \E hi, lo \in 0 .. 2 : /\ uri[i + 1] = Target!Digits[hi + 1] /\ uri[i + 2] = Target!Digits[lo + 1]
                                /\ Target!Coded[(3 * hi + lo) + 1] = s[m + 1]
  BY <1>2, <1>6, <1>7 DEF UnitAt
<1>9. Size(s, m + 1) <= Len(Enc(s)) /\ Len(Enc(s)) \in Nat
  <2>1. Len(Enc(s)) = Size(s, Len(s)) /\ Size(s, m + 1) <= Size(s, Len(s))
    BY <1>5, SizesAre
  <2>2. Len(s) \in 0 .. Len(s)
    BY <1>4
  <2>3. Size(s, Len(s)) \in Nat
    BY <2>2, SizesAre
  <2> QED BY <2>1, <2>3
<1>10. i + 3 = (o + Size(s, m + 1)) + 1 /\ i + 2 <= o + Len(Enc(s))
  <2> DEFINE a == Size(s, m)
             b == Size(s, m + 1)
             d == Len(Enc(s))
  <2>1. a \in Nat /\ b = a + 3 /\ i = (o + a) + 1 /\ b <= d /\ d \in Nat
    BY <1>2, <1>4, <1>8, <1>9
  <2> HIDE DEF a, b, d
  <2>2. i + 3 = (o + b) + 1 /\ i + 2 <= o + d
    BY <2>1
  <2> QED BY <2>2 DEF b, d
<1>11. TextAt(s, pre, o, i + 3, Append(r, s[m + 1]))
  BY <1>1, <1>3, <1>10, TextMore
<1>12. PICK hi \in 0 .. 2, lo \in 0 .. 2 :
         /\ uri[i + 1] = Target!Digits[hi + 1] /\ uri[i + 2] = Target!Digits[lo + 1]
         /\ Target!Coded[(3 * hi + lo) + 1] = s[m + 1]
  BY <1>8
<1>13. TextAt(s, pre, o, i + 3, Append(r, Target!Coded[(3 * hi + lo) + 1]))
  BY <1>11, <1>12
<1> QED BY <1>10, <1>12, <1>13

LEMMA TextDone ==
  ASSUME NEW s \in Seq(Symbols), NEW pre \in Seq(Symbols), NEW o \in Nat, StandsAt(Enc(s), o), NEW i, NEW r,
         TextAt(s, pre, o, i, r), i = (o + Len(Enc(s))) + 1
  PROVE  r = pre \o s
<1>1. PICK m \in Nat : ReadTo(s, pre, o, i, r, m)
  BY DEF TextAt
<1>2. /\ m \in 0 .. Len(s) /\ i = (o + Size(s, m)) + 1 /\ r \in Seq(Symbols) /\ Len(r) = Len(pre) + m
      /\ \A x \in 1 .. Len(pre) + m : r[x] = (pre \o s)[x]
  BY <1>1 DEF ReadTo
<1>3. ~(m < Len(s))
  <2>1. ~((o + Size(s, m)) + 1 <= o + Len(Enc(s)))
    <3> DEFINE d == Len(Enc(s))
    <3>1. d \in Nat
      <4>1. Enc(s) \in Seq(Coding)
        BY EncodeIs
      <4> QED BY <4>1, LenNat
    <3>2. (o + Size(s, m)) + 1 = (o + d) + 1
      BY <1>2
    <3> HIDE DEF d
    <3>3. ~((o + d) + 1 <= o + d)
      BY <3>1
    <3> QED BY <3>2, <3>3 DEF d
  <2> QED BY <1>2, <2>1, TextLeft
<1> DEFINE n == Len(s)
           w == pre \o s
<1>4. w \in Seq(Symbols) /\ n \in Nat /\ Len(w) = Len(pre) + n
  BY Behind
<1>5. m = n
  <2> HIDE DEF n
  <2>1. m \in 0 .. n /\ ~(m < n)
    BY <1>2, <1>3 DEF n
  <2> QED BY <1>4, <2>1
<1> HIDE DEF w, n
<1>6. \A x \in 1 .. Len(w) : r[x] = w[x]
  BY <1>2, <1>4, <1>5 DEF w
<1>7. Len(r) = Len(w)
  BY <1>2, <1>4, <1>5
<1>8. r = w
  BY <1>2, <1>4, <1>6, <1>7
<1> QED BY <1>8 DEF w

-----------------------------------------------------------------------------
\* Targets: the places the reader finds.

\* What encode_url writes has nothing in it that parts a target.
LEMMA TextFree ==
  ASSUME NEW s \in Seq(Symbols), NEW o \in Nat, StandsAt(Enc(s), o)
  PROVE  \A i \in o + 1 .. o + Len(Enc(s)) : uri[i] \notin {"?", "&", "="}
<1> DEFINE w == Enc(s)
<1>1. w \in Seq(Coding) /\ Len(w) \in Nat
  <2>1. w \in Seq(Coding)
    BY EncodeIs
  <2> HIDE DEF w
  <2> QED BY <2>1, LenNat
<1>2. \A x \in 1 .. Len(w) : uri[o + x] = w[x]
  BY DEF StandsAt
<1>3. \A c \in Coding : c \notin {"?", "&", "="}
  BY DEF Coding, Target!Unreserved
<1> HIDE DEF w
<1>4. \A x \in 1 .. Len(w) : w[x] \in Coding
  BY <1>1
<1>5. ASSUME NEW i \in o + 1 .. o + Len(w) PROVE uri[i] \notin {"?", "&", "="}
  <2> DEFINE x == i - o
  <2>1. x \in 1 .. Len(w) /\ o + x = i
    BY <1>1
  <2> HIDE DEF x
  <2>2. uri[i] = w[x] /\ w[x] \in Coding
    BY <1>2, <1>4, <2>1
  <2> QED BY <1>3, <2>2
<1> QED BY <1>5 DEF w

LEMMA PathEnds ==
  ASSUME Sent
  PROVE  /\ Mark = PartEnd(0) + 1 /\ Target!IsValidPath(uri) /\ uri \in Seq(Symbols) /\ PartEnd(0) \in Nat \ {0}
         /\ PartEnd(0) <= Len(uri)
<1> DEFINE p == Enc(given.path)
           n == Len(uri)
           e == PartEnd(0)
<1>1. /\ uri \in Seq(PathSymbols) /\ uri[1] = "/" /\ n \in Nat /\ GivenMany \in Nat /\ StandsAt(p, 1)
      /\ e = 1 + Len(p) /\ PartEnd(GivenMany) = n /\ e <= n
  BY LayoutIs
<1>2. given.path \in Seq(Symbols) /\ Len(p) \in Nat
  <2>1. given.path \in Seq(Symbols) /\ p \in Seq(Coding)
    BY EncodeIs DEF Sent
  <2> HIDE DEF p
  <2> QED BY <2>1, LenNat
<1>3. \A i \in 2 .. e : uri[i] # "?"
  <2>1. \A i \in 1 + 1 .. 1 + Len(p) : uri[i] \notin {"?", "&", "="}
    BY <1>1, <1>2, TextFree
  <2>2. \A i \in 2 .. e : i \in 1 + 1 .. 1 + Len(p)
    <3> HIDE DEF p, e
    <3> QED BY <1>1, <1>2
  <2> QED BY <2>1, <2>2
<1>4. e \in Nat \ {0}
  <2> HIDE DEF p, e
  <2> QED BY <1>1, <1>2
<1>5. e + 1 <= n => uri[e + 1] = "?"
  <2> SUFFICES ASSUME e + 1 <= n PROVE uri[e + 1] = "?"
    OBVIOUS
  <2>1. GivenMany # 0
    <3> SUFFICES ASSUME GivenMany = 0 PROVE FALSE
      OBVIOUS
    <3>1. e = n
      BY <1>1
    <3> HIDE DEF e, n
    <3> QED BY <1>1, <3>1
  <2>2. 1 \in 1 .. GivenMany
    BY <1>1, <2>1
  <2>3. ParameterAt(1)
    BY <2>2, LayoutIs
  <2>4. 1 - 1 = 0
    OBVIOUS
  <2> QED BY <2>3, <2>4 DEF ParameterAt
<1>6. Mark = e + 1
  <2>1. \A i \in 1 .. (e + 1) - 1 : i = 1 \/ i \in 2 .. e
    <3> HIDE DEF e
    <3> QED BY <1>4
  <2>2. \A i \in 1 .. (e + 1) - 1 : uri[i] # "?"
    BY <1>1, <1>3, <2>1
  <2>3. e + 1 \in 1 .. n + 1
    <3> HIDE DEF e, n
    <3> QED BY <1>1, <1>4
  <2>4. 1 \in Nat
    OBVIOUS
  <2> HIDE DEF e
  <2>5. Target!FirstOf("?", 1, n) = e + 1
    BY <1>1, <1>5, <2>2, <2>3, <2>4, FirstOfAt
  <2> QED BY <2>5 DEF Mark
<1>7. PathSymbols \subseteq Target!ValidInPath /\ PathSymbols \subseteq Symbols
  BY SymbolsAre DEF PathSymbols, Coding, Target!ValidInPath, Target!Unreserved
<1>8. DOMAIN uri = 1 .. n /\ \A i \in 1 .. n : uri[i] \in PathSymbols
  BY <1>1
<1>9. uri \in Seq(Symbols)
  <2>1. \A w \in Seq(PathSymbols) : w \in Seq(Symbols)
    BY <1>7
  <2> QED BY <1>1, <2>1
<1>10. Target!IsValidPath(uri)
  <2>1. uri # <<>>
    <3>1. Len(<<>>) = 0 /\ n # 0
      <4>1. n # 0
        <5> HIDE DEF e, n
        <5> QED BY <1>1, <1>4
      <4> QED BY <4>1
    <3> QED BY <3>1
  <2>2. \A i \in DOMAIN uri : uri[i] \in Target!ValidInPath
    BY <1>7, <1>8
  <2> QED BY <1>1, <2>1, <2>2 DEF Target!IsValidPath
<1> QED BY <1>1, <1>4, <1>6, <1>9, <1>10

\* Parameter k is a token, its first "=" the one that was written.
LEMMA TokenAt ==
  ASSUME Sent, NEW k \in 1 .. GivenMany
  PROVE  /\ PartEnd(k - 1) \in Nat /\ Equal(k) \in PartEnd(k - 1) + 2 .. PartEnd(k) /\ PartEnd(k) \in Nat
         /\ PartEnd(k) <= Len(uri) /\ Len(uri) \in Nat
         /\ Target!FirstOf("=", PartEnd(k - 1) + 2, PartEnd(k)) = Equal(k)
         /\ Target!FirstOf("&", PartEnd(k - 1) + 2, Len(uri)) = PartEnd(k) + 1
         /\ uri[PartEnd(k - 1) + 2] # "&"
<1> DEFINE n == Len(uri)
           l0 == PartEnd(k - 1)
           l1 == PartEnd(k)
           e == Equal(k)
           a == Enc(GivenKey(k))
           b == Enc(GivenValue(k))
           la == Len(a)
           lb == Len(b)
           a0 == l0 + 2
<1>1. /\ n \in Nat /\ GivenMany \in Nat /\ PartEnd(GivenMany) = n /\ ParameterAt(k)
  BY LayoutIs
<1>2. /\ GivenKey(k) \in Seq(Symbols) /\ GivenValue(k) \in Seq(Symbols)
      /\ l0 \in Nat /\ l1 \in Nat /\ l1 <= n /\ StandsAt(a, l0 + 1) /\ uri[e] = "=" /\ StandsAt(b, e) /\ l1 = e + lb
  BY <1>1 DEF ParameterAt
<1>3. la \in Nat /\ lb \in Nat
  <2>1. a \in Seq(Coding) /\ b \in Seq(Coding)
    BY <1>2, EncodeIs
  <2> HIDE DEF a, b
  <2> QED BY <2>1, LenNat
<1>4. e = (l0 + 2) + la /\ e \in Nat
  <2>1. e = (l0 + 2) + la
    BY DEF Equal
  <2> HIDE DEF e, l0, la
  <2> QED BY <1>2, <1>3, <2>1
<1>5. \A i \in (l0 + 1) + 1 .. (l0 + 1) + la : uri[i] \notin {"?", "&", "="}
  <2>1. l0 + 1 \in Nat
    BY <1>2
  <2> QED BY <1>2, <2>1, TextFree
<1>6. \A i \in e + 1 .. e + lb : uri[i] \notin {"?", "&", "="}
  BY <1>2, <1>4, TextFree
<1> HIDE DEF n, l0, l1, e, a, b, la, lb
<1>7. \A i \in a0 .. e - 1 : i \in (l0 + 1) + 1 .. (l0 + 1) + la
  BY <1>2, <1>3, <1>4
<1>8. \A i \in a0 .. e - 1 : uri[i] # "=" /\ uri[i] # "&"
  BY <1>5, <1>7
<1>9. \A i \in a0 .. (l1 + 1) - 1 : i \in a0 .. e - 1 \/ i = e \/ i \in e + 1 .. e + lb
  BY <1>2, <1>3, <1>4
<1>10. \A i \in a0 .. (l1 + 1) - 1 : uri[i] # "&"
  BY <1>2, <1>6, <1>8, <1>9
<1>11. e \in a0 .. l1 /\ a0 \in Nat /\ a0 <= l1 /\ e \in a0 .. l1 + 1 /\ l1 + 1 \in a0 .. n + 1 /\ a0 \in a0 .. (l1 + 1) - 1
  BY <1>1, <1>2, <1>3, <1>4
<1> HIDE DEF a0
<1>12. Target!FirstOf("=", a0, l1) = e
  BY <1>2, <1>8, <1>11, FirstOfAt
<1>13. l1 + 1 <= n => uri[l1 + 1] = "&"
  <2> SUFFICES ASSUME l1 + 1 <= n PROVE uri[l1 + 1] = "&"
    OBVIOUS
  <2>1. k # GivenMany
    <3> SUFFICES ASSUME k = GivenMany PROVE FALSE
      OBVIOUS
    <3>1. l1 = n
      BY <1>1 DEF l1, n
    <3> QED BY <1>1, <3>1
  <2>2. k + 1 \in 1 .. GivenMany /\ (k + 1) - 1 = k /\ k + 1 # 1
    BY <1>1, <2>1
  <2>3. ParameterAt(k + 1)
    BY <2>2, LayoutIs
  <2>4. uri[PartEnd(k) + 1] = "&"
    BY <2>2, <2>3 DEF ParameterAt
  <2> QED BY <2>4 DEF l1
<1>14. Target!FirstOf("&", a0, n) = l1 + 1
  BY <1>1, <1>10, <1>11, <1>13, FirstOfAt
<1>15. uri[a0] # "&"
  BY <1>10, <1>11
<1>16. /\ l0 \in Nat /\ e \in l0 + 2 .. l1 /\ l1 \in Nat /\ l1 <= n /\ n \in Nat
       /\ Target!FirstOf("=", l0 + 2, l1) = e /\ Target!FirstOf("&", l0 + 2, n) = l1 + 1 /\ uri[l0 + 2] # "&"
  BY <1>1, <1>2, <1>11, <1>12, <1>14, <1>15 DEF a0
<1> QED BY <1>16 DEF n, l0, l1, e

\* Where the tokenizer is when k parameters are read.
TokenEnd(k) == IF k = 0 THEN PartEnd(0) + 1 ELSE PartEnd(k)

LEMMA LeftAt ==
  ASSUME Sent, NEW k \in 0 .. GivenMany, tok.last = TokenEnd(k)
  PROVE  /\ k < GivenMany => Target!Left # {} /\ Target!Min(Target!Left) = PartEnd(k) + 2
         /\ Target!Left # {} => k < GivenMany
<1> DEFINE n == Len(uri)
           l == TokenEnd(k)
           p == PartEnd(k) + 2
           f == Target!Min(Target!Left)
<1>1. n \in Nat /\ GivenMany \in Nat /\ PartEnd(GivenMany) = n /\ PartEnd(0) \in Nat
  BY LayoutIs, PathEnds
<1>2. PartEnd(k) \in Nat
  <2>1. CASE k = 0
    BY <1>1, <2>1
  <2>2. CASE k # 0
    <3>1. k \in 1 .. GivenMany
      BY <1>1, <2>2
    <3> QED BY <3>1, TokenAt
  <2> QED BY <2>1, <2>2
<1>3. l \in Nat /\ (l = PartEnd(k) \/ l = PartEnd(k) + 1) /\ tok.last = l
  BY <1>1, <1>2 DEF TokenEnd
<1>4. ASSUME k < GivenMany PROVE Target!Left # {} /\ f = p
  <2>1. k + 1 \in 1 .. GivenMany /\ (k + 1) - 1 = k
    BY <1>1, <1>4
  <2>2. Equal(k + 1) \in p .. PartEnd(k + 1) /\ PartEnd(k + 1) \in Nat /\ PartEnd(k + 1) <= n /\ uri[p] # "&"
    <3>1. /\ Equal(k + 1) \in PartEnd((k + 1) - 1) + 2 .. PartEnd(k + 1) /\ PartEnd(k + 1) \in Nat /\ PartEnd(k + 1) <= n
          /\ uri[PartEnd((k + 1) - 1) + 2] # "&"
      BY <2>1, TokenAt
    <3> QED BY <2>1, <3>1
  <2>3. \A i \in l + 1 .. p - 1 : uri[i] = "&"
    <3>1. CASE k = 0
      <4>1. l = PartEnd(0) + 1 /\ p = PartEnd(0) + 2
        BY <3>1 DEF TokenEnd
      <4>2. ~\E i : i \in l + 1 .. p - 1
        <5> HIDE DEF l, p
        <5> QED BY <1>1, <4>1
      <4> QED BY <4>2
    <3>2. CASE k # 0
      <4>1. l = PartEnd(k)
        BY <3>2 DEF TokenEnd
      <4>2. \A i \in l + 1 .. p - 1 : i = PartEnd(k) + 1
        <5>1. p = PartEnd(k) + 2
          OBVIOUS
        <5> HIDE DEF l, p
        <5> QED BY <1>2, <4>1, <5>1
      <4>3. ParameterAt(k + 1) /\ k + 1 # 1
        BY <2>1, <3>2, LayoutIs
      <4>4. uri[PartEnd(k) + 1] = "&"
        BY <2>1, <4>3 DEF ParameterAt
      <4> QED BY <4>2, <4>4
    <3> QED BY <3>1, <3>2
  <2>4. p \in l + 1 .. n
    <3>1. p = PartEnd(k) + 2 /\ p \in Nat
      BY <1>2
    <3> HIDE DEF l, p, n
    <3>2. p <= n
      BY <1>1, <2>2, <3>1
    <3> QED BY <1>1, <1>2, <1>3, <3>1, <3>2
  <2>5. Target!Left # {}
    <3>1. Target!Left = {i \in l + 1 .. n : uri[i] # "&"}
      BY <1>3 DEF Target!Left, tok, uri
    <3> HIDE DEF l, p, n
    <3>2. p \in Target!Left
      BY <2>2, <2>4, <3>1
    <3> QED BY <3>2
  <2>6. f \in l + 1 .. n /\ uri[f] # "&" /\ \A i \in l + 1 .. f - 1 : uri[i] = "&"
    <3>1. l \in Nat /\ tok.last = l /\ n \in Nat
      BY <1>1, <1>3
    <3> HIDE DEF l
    <3> QED BY <2>5, <3>1, LeftIs
  <2>7. uri[p] # "&" /\ l \in Nat
    BY <1>3, <2>2
  <2> HIDE DEF f, p, l, n
  <2>8. ~(f < p)
    <3> SUFFICES ASSUME f < p PROVE FALSE
      OBVIOUS
    <3>1. f \in l + 1 .. p - 1
      BY <1>1, <2>4, <2>6, <2>7
    <3> QED BY <2>3, <2>6, <3>1
  <2>9. ~(p < f)
    <3> SUFFICES ASSUME p < f PROVE FALSE
      OBVIOUS
    <3>1. p \in l + 1 .. f - 1
      BY <1>1, <2>4, <2>6, <2>7
    <3> QED BY <2>6, <2>7, <3>1
  <2>10. f = p
    BY <1>1, <2>4, <2>6, <2>7, <2>8, <2>9
  <2> QED BY <2>5, <2>10
<1>5. ASSUME ~(k < GivenMany) PROVE Target!Left = {}
  <2>1. k = GivenMany
    BY <1>1, <1>5
  <2>2. l >= n
    <3>1. PartEnd(k) = n
      BY <1>1, <2>1
    <3> HIDE DEF l, n
    <3> QED BY <1>1, <1>2, <1>3, <3>1
  <2>3. Target!Left = {i \in l + 1 .. n : uri[i] # "&"}
    BY <1>3 DEF Target!Left, tok, uri
  <2> HIDE DEF l, n
  <2>4. ~\E i : i \in l + 1 .. n
    BY <1>1, <1>3, <2>2
  <2> QED BY <2>3, <2>4
<1> QED BY <1>4, <1>5

-----------------------------------------------------------------------------
\* Targets: the parameters that are kept.

GivenPair(k) == [key |-> GivenKey(k), value |-> GivenValue(k)]
Kept(k) == {GivenPair(i) : i \in {j \in 1 .. k : \A m \in 1 .. k : m > j => GivenKey(m) # GivenKey(j)}}

LEMMA NoneKept == Kept(0) = {}
<1>1. ~\E i : i \in 1 .. 0
  OBVIOUS
<1> QED BY <1>1 DEF Kept

\* The last value given to a key replaces the ones before.
LEMMA KeptMore ==
  ASSUME NEW k \in Nat \ {0}
  PROVE  {p \in Kept(k - 1) : p.key # GivenKey(k)} \cup {GivenPair(k)} = Kept(k)
<1> DEFINE Last(n) == {j \in 1 .. n : \A m \in 1 .. n : m > j => GivenKey(m) # GivenKey(j)}
           d == k - 1
<1>1. \A i : GivenPair(i).key = GivenKey(i)
  BY DEF GivenPair
<1>2. d \in Nat /\ k \in Nat /\ k = d + 1
  OBVIOUS
<1>3. Kept(k - 1) = {GivenPair(i) : i \in Last(d)} /\ Kept(k) = {GivenPair(i) : i \in Last(k)}
  BY DEF Kept
<1> HIDE DEF d
<1>4. \A j : j \in Last(k) <=> j = k \/ (j \in Last(d) /\ GivenKey(j) # GivenKey(k))
  <2>1. \A m : m \in 1 .. k <=> m = k \/ m \in 1 .. d
    BY <1>2
  <2>2. \A m \in 1 .. d : m < k
    BY <1>2
  <2>3. ~(k > k)
    BY <1>2
  <2>4. k \in Last(k)
    <3>1. \A m \in 1 .. k : ~(m > k)
      BY <1>2
    <3>2. k \in 1 .. k
      BY <1>2
    <3> QED BY <3>1, <3>2
  <2>5. ASSUME NEW j, j \in Last(k), j # k PROVE j \in Last(d) /\ GivenKey(j) # GivenKey(k)
    <3>1. j \in 1 .. d /\ j < k /\ k \in 1 .. k
      BY <1>2, <2>1, <2>2, <2>5
    <3>2. k > j
      BY <1>2, <3>1
    <3> QED BY <2>1, <2>5, <3>1, <3>2
  <2>6. ASSUME NEW j, j \in Last(d), GivenKey(j) # GivenKey(k) PROVE j \in Last(k)
    BY <2>1, <2>6
  <2> QED BY <2>4, <2>5, <2>6
<1> HIDE DEF Last
<1>5. {p \in Kept(k - 1) : p.key # GivenKey(k)} = {GivenPair(i) : i \in {j \in Last(d) : GivenKey(j) # GivenKey(k)}}
  BY <1>1, <1>3
<1>6. Last(k) = {j \in Last(d) : GivenKey(j) # GivenKey(k)} \cup {k}
  BY <1>4
<1> QED BY <1>3, <1>5, <1>6

-----------------------------------------------------------------------------
\* Targets: the reader of what was sent.

Prefixed == <<"/">> \o given.path

AtPath == /\ piece.role = "path" /\ piece.last = PartEnd(0) /\ tok.last = PartEnd(0) + 1 /\ params = {}
          /\ \/ iter = 1 /\ read = <<>>
             \/ TextAt(given.path, <<"/">>, 1, iter, read)
Between(k) == piece.role = "none" /\ tok.last = TokenEnd(k) /\ found = Prefixed /\ params = Kept(k)
AtKey(k) == /\ piece.role = "key" /\ piece.last = Equal(k) - 1 /\ tok.last = PartEnd(k)
            /\ found = Prefixed /\ params = Kept(k - 1)
            /\ TextAt(GivenKey(k), <<>>, PartEnd(k - 1) + 1, iter, read)
AtValue(k) == /\ piece.role = "value" /\ piece.last = PartEnd(k) /\ tok.last = PartEnd(k)
              /\ found = Prefixed /\ params = Kept(k - 1) /\ name = GivenKey(k)
              /\ TextAt(GivenValue(k), <<>>, Equal(k), iter, read)
Somewhere == \/ AtPath
             \/ \E k \in 0 .. GivenMany : Between(k)
             \/ \E k \in 1 .. GivenMany : AtKey(k) \/ AtValue(k)

\* The target is not over the limit.
Short == Len(uri) <= PathLimit

DecodedInv == /\ Sent /\ phase \in {"start", "reading", "accepted"}
              /\ phase = "start" => params = {}
              /\ phase = "reading" => Somewhere
              /\ phase = "accepted" => found = Prefixed /\ params = Kept(GivenMany)

LEMMA SentStays ==
  ASSUME UriSame
  PROVE  /\ Sent' = Sent /\ GivenMany' = GivenMany /\ Prefixed' = Prefixed /\ given' = given
         /\ \A k : /\ PartEnd(k)' = PartEnd(k) /\ Equal(k)' = Equal(k) /\ TokenEnd(k)' = TokenEnd(k)
                   /\ GivenKey(k)' = GivenKey(k) /\ GivenValue(k)' = GivenValue(k) /\ Kept(k)' = Kept(k)
<1>1. uri' = uri /\ given' = given
  BY DEF UriSame
<1>2. Sent' = Sent
  BY <1>1 DEF Sent
<1>3. GivenMany' = GivenMany /\ Prefixed' = Prefixed
  BY <1>1 DEF GivenMany, Prefixed
<1>4. ASSUME NEW k PROVE PartEnd(k)' = PartEnd(k) /\ GivenKey(k)' = GivenKey(k) /\ GivenValue(k)' = GivenValue(k)
  BY <1>1 DEF PartEnd, GivenKey, GivenValue
<1>5. ASSUME NEW k PROVE Equal(k)' = Equal(k)
  BY <1>1 DEF Equal, PartEnd, GivenKey
<1>6. ASSUME NEW k PROVE TokenEnd(k)' = TokenEnd(k)
  BY <1>1 DEF TokenEnd, PartEnd
<1>7. ASSUME NEW k PROVE Kept(k)' = Kept(k)
  BY <1>1 DEF Kept, GivenPair, GivenKey, GivenValue
<1> QED BY <1>1, <1>2, <1>3, <1>4, <1>5, <1>6, <1>7

\* Where the path, a key and a value stand.
LEMMA PathPlace ==
  ASSUME Sent
  PROVE  /\ given.path \in Seq(Symbols) /\ StandsAt(Enc(given.path), 1) /\ PartEnd(0) = 1 + Len(Enc(given.path))
         /\ uri[1] = "/" /\ <<"/">> \in Seq(Symbols)
<1>1. given.path \in Seq(Symbols)
  BY DEF Sent
<1>2. "/" \in Symbols
  BY SymbolsAre
<1>3. <<"/">> \in Seq(Symbols)
  BY <1>2
<1> QED BY <1>1, <1>3, LayoutIs

LEMMA ParameterPlace ==
  ASSUME Sent, NEW k \in 1 .. GivenMany
  PROVE  /\ GivenKey(k) \in Seq(Symbols) /\ GivenValue(k) \in Seq(Symbols) /\ <<>> \in Seq(Symbols)
         /\ PartEnd(k - 1) + 1 \in Nat /\ StandsAt(Enc(GivenKey(k)), PartEnd(k - 1) + 1)
         /\ Equal(k) - 1 = (PartEnd(k - 1) + 1) + Len(Enc(GivenKey(k)))
         /\ Equal(k) \in Nat /\ StandsAt(Enc(GivenValue(k)), Equal(k)) /\ PartEnd(k) = Equal(k) + Len(Enc(GivenValue(k)))
<1>1. ParameterAt(k)
  BY LayoutIs
<1>2. GivenKey(k) \in Seq(Symbols) /\ GivenValue(k) \in Seq(Symbols) /\ PartEnd(k - 1) \in Nat
  BY <1>1 DEF ParameterAt
<1>3. <<>> \in Seq(Symbols)
  OBVIOUS
<1>4. Len(Enc(GivenKey(k))) \in Nat
  <2>1. Enc(GivenKey(k)) \in Seq(Coding)
    BY <1>2, EncodeIs
  <2> QED BY <2>1, LenNat
<1>5. Equal(k) - 1 = (PartEnd(k - 1) + 1) + Len(Enc(GivenKey(k))) /\ Equal(k) \in Nat /\ PartEnd(k - 1) + 1 \in Nat
  <2> DEFINE a == PartEnd(k - 1)
             b == Len(Enc(GivenKey(k)))
             e == Equal(k)
  <2>1. e = (a + 2) + b /\ a \in Nat /\ b \in Nat
    BY <1>2, <1>4 DEF Equal
  <2> HIDE DEF a, b, e
  <2>2. e - 1 = (a + 1) + b /\ e \in Nat /\ a + 1 \in Nat
    BY <2>1
  <2> QED BY <2>2 DEF a, b, e
<1> QED BY <1>1, <1>2, <1>3, <1>5 DEF ParameterAt

\* A step of decode_url in a text that was encoded.
LEMMA TextStep ==
  ASSUME UriInv, Target!DecodePlain \/ Target!DecodePercent,
         NEW s \in Seq(Symbols), NEW pre \in Seq(Symbols), NEW o \in Nat, StandsAt(Enc(s), o),
         TextAt(s, pre, o, iter, read), piece.last = o + Len(Enc(s))
  PROVE  phase' = phase /\ TextAt(s, pre, o, iter', read')
<1> DEFINE i == iter
           r == read
<1>1. TextAt(s, pre, o, i, r)
  OBVIOUS
<1>2. CASE Target!DecodePlain
  <2>1. i <= o + Len(Enc(s)) /\ uri[i] # "%" /\ read' = Append(r, uri[i]) /\ iter' = i + 1 /\ phase' = phase
    BY <1>2 DEF Target!DecodePlain, uri, piece, iter, read, phase
  <2> HIDE DEF i, r
  <2>2. TextAt(s, pre, o, i + 1, Append(r, uri[i]))
    BY <1>1, <2>1, TextPlain
  <2> QED BY <2>1, <2>2
<1>3. CASE Target!DecodePercent
  <2> DEFINE Number(c) == IF Target!Digit(c) = {} THEN 0 ELSE CHOOSE n \in Target!Digit(c) : TRUE
  <2>1. PICK h \in Target!At(iter + 1), l \in Target!At(iter + 2) :
          /\ Target!Decoding /\ iter <= piece.last /\ uri[iter] = "%"
          /\ Target!Refused(h, l) \/ (read' = Append(read, Target!Code(Number(h), Number(l))) /\ iter' = iter + 3 /\ phase' = phase)
    BY <1>3 DEF Target!DecodePercent, uri, piece, iter, read, phase
  <2>2. IF Target!Refused(h, l) THEN ~Fine(iter) /\ iter \in 1 .. Len(uri)
         ELSE h = uri[iter + 1] /\ l = uri[iter + 2]
    BY <2>1, PercentIs
  <2>3. PICK hi \in 0 .. 2, lo \in 0 .. 2 :
           /\ i + 2 <= o + Len(Enc(s)) /\ uri[i + 1] = Target!Digits[hi + 1] /\ uri[i + 2] = Target!Digits[lo + 1]
           /\ TextAt(s, pre, o, i + 3, Append(r, Target!Coded[(3 * hi + lo) + 1]))
    <3>1. i <= o + Len(Enc(s)) /\ uri[i] = "%"
      BY <2>1
    <3> HIDE DEF i, r
    <3> QED BY <1>1, <3>1, TextPercent
  <2>4. Target!Digit(uri[i + 1]) = {hi} /\ Target!Digit(uri[i + 2]) = {lo}
    BY <2>3, DigitsAre
  <2>5. Target!Escaped(iter)
    <3>1. i + 2 <= Len(uri)
      <4>1. o + Len(Enc(s)) <= Len(uri)
        BY DEF StandsAt
      <4>2. i \in Nat /\ Len(uri) \in Nat /\ Len(Enc(s)) \in Nat
        <5>1. Enc(s) \in Seq(Coding) /\ UriTypes
          BY EncodeIs DEF UriInv
        <5>2. Len(uri) \in Nat /\ i \in 0 .. Len(uri) + 1
          BY <5>1, MarkIs DEF UriTypes
        <5> QED BY <5>1, <5>2, LenNat
      <4> DEFINE x == i + 2
                 y == o + Len(Enc(s))
                 z == Len(uri)
      <4>3. x \in Nat /\ y \in Nat /\ z \in Nat /\ x <= y /\ y <= z
        BY <2>3, <4>1, <4>2
      <4> HIDE DEF x, y, z
      <4>4. x <= z
        BY <4>3
      <4> QED BY <4>4 DEF x, z
    <3> QED BY <2>4, <3>1 DEF Target!Escaped, Target!Digit, uri
  <2>6. ~Target!Refused(h, l)
    BY <2>2, <2>5 DEF Fine
  <2>7. Number(h) = hi /\ Number(l) = lo
    <3>1. Target!Digit(h) = {hi} /\ Target!Digit(l) = {lo}
      BY <2>2, <2>4, <2>6
    <3>2. \A n : (CHOOSE m \in {n} : TRUE) = n
      OBVIOUS
    <3>3. {hi} # {} /\ {lo} # {}
      OBVIOUS
    <3> QED BY <3>1, <3>2, <3>3
  <2>8. read' = Append(r, Target!Coded[(3 * hi + lo) + 1]) /\ iter' = i + 3 /\ phase' = phase
    <3> HIDE DEF Number
    <3> QED BY <2>1, <2>6, <2>7 DEF Target!Code
  <2> QED BY <2>3, <2>8
<1> QED BY <1>2, <1>3

LEMMA DecodeKeeps ==
  ASSUME UriInv, DecodedInv, Target!DecodePlain \/ Target!DecodePercent
  PROVE  DecodedInv'
<1>1. /\ Target!Decoding /\ UriSame /\ piece' = piece /\ tok' = tok /\ params' = params /\ name' = name /\ found' = found
      /\ iter <= piece.last
  BY DEF Target!DecodePlain, Target!DecodePercent, UriSame, given, uri, piece, tok, iter, name, found, params
<1>2. Sent /\ phase = "reading" /\ Somewhere /\ piece.role # "none"
  BY <1>1 DEF DecodedInv, Target!Decoding, phase, piece
<1>3. ASSUME phase' = phase, Somewhere' PROVE DecodedInv'
  <2>1. Sent'
    BY <1>1, <1>2, SentStays
  <2> QED BY <1>2, <1>3, <2>1 DEF DecodedInv
<1>4. CASE AtPath
  <2>1. /\ piece.role = "path" /\ piece.last = PartEnd(0) /\ tok.last = PartEnd(0) + 1 /\ params = {}
        /\ \/ iter = 1 /\ read = <<>>
           \/ TextAt(given.path, <<"/">>, 1, iter, read)
    BY <1>4 DEF AtPath
  <2>2. /\ given.path \in Seq(Symbols) /\ StandsAt(Enc(given.path), 1) /\ PartEnd(0) = 1 + Len(Enc(given.path))
        /\ uri[1] = "/" /\ <<"/">> \in Seq(Symbols) /\ 1 \in Nat
    BY <1>2, PathPlace
  <2>3. phase' = phase /\ TextAt(given.path, <<"/">>, 1, iter', read')
    <3>1. CASE iter = 1 /\ read = <<>>
      <4>1. Target!DecodePlain
        <5> SUFFICES ASSUME Target!DecodePercent PROVE FALSE
          OBVIOUS
        <5>1. uri[iter] = "%"
          BY DEF Target!DecodePercent, uri, iter
        <5> QED BY <2>2, <3>1, <5>1
      <4>2. phase' = phase /\ read' = Append(read, uri[iter]) /\ iter' = iter + 1
        BY <4>1 DEF Target!DecodePlain, uri, iter, read, phase
      <4>3. read' = <<"/">> /\ iter' = 1 + 1
        <5>1. \A c : Append(<<>>, c) = <<c>>
          OBVIOUS
        <5> QED BY <2>2, <3>1, <4>2, <5>1
      <4>4. TextAt(given.path, <<"/">>, 1, 1 + 1, <<"/">>)
        BY <2>2, TextStarts
      <4> QED BY <4>2, <4>3, <4>4
    <3>2. CASE TextAt(given.path, <<"/">>, 1, iter, read)
      <4>1. piece.last = 1 + Len(Enc(given.path))
        BY <2>1, <2>2
      <4> QED BY <2>2, <3>2, <4>1, TextStep
    <3> QED BY <2>1, <3>1, <3>2
  <2>4. AtPath'
    <3>1. TextAt(given.path, <<"/">>, 1, iter, read)'
      BY <1>1, <2>3, SentStays
    <3>2. PartEnd(0)' = PartEnd(0)
      BY <1>1, SentStays
    <3> QED BY <1>1, <2>1, <3>1, <3>2 DEF AtPath
  <2> QED BY <1>3, <2>3, <2>4 DEF Somewhere
<1>5. ASSUME NEW k \in 1 .. GivenMany, AtKey(k) PROVE phase' = phase /\ AtKey(k)'
  <2>1. /\ piece.role = "key" /\ piece.last = Equal(k) - 1 /\ tok.last = PartEnd(k) /\ found = Prefixed /\ params = Kept(k - 1)
        /\ TextAt(GivenKey(k), <<>>, PartEnd(k - 1) + 1, iter, read)
    BY <1>5 DEF AtKey
  <2>2. /\ GivenKey(k) \in Seq(Symbols) /\ <<>> \in Seq(Symbols) /\ PartEnd(k - 1) + 1 \in Nat
        /\ StandsAt(Enc(GivenKey(k)), PartEnd(k - 1) + 1) /\ Equal(k) - 1 = (PartEnd(k - 1) + 1) + Len(Enc(GivenKey(k)))
    BY <1>2, ParameterPlace
  <2>3. piece.last = (PartEnd(k - 1) + 1) + Len(Enc(GivenKey(k)))
    BY <2>1, <2>2
  <2>4. phase' = phase /\ TextAt(GivenKey(k), <<>>, PartEnd(k - 1) + 1, iter', read')
    BY <2>1, <2>2, <2>3, TextStep
  <2>5. /\ PartEnd(k - 1)' = PartEnd(k - 1) /\ PartEnd(k)' = PartEnd(k) /\ Equal(k)' = Equal(k)
        /\ GivenKey(k)' = GivenKey(k) /\ Kept(k - 1)' = Kept(k - 1) /\ Prefixed' = Prefixed
    BY <1>1, SentStays
  <2> QED BY <1>1, <2>1, <2>4, <2>5 DEF AtKey
<1>6. ASSUME NEW k \in 1 .. GivenMany, AtValue(k) PROVE phase' = phase /\ AtValue(k)'
  <2>1. /\ piece.role = "value" /\ piece.last = PartEnd(k) /\ tok.last = PartEnd(k) /\ found = Prefixed /\ params = Kept(k - 1)
        /\ name = GivenKey(k) /\ TextAt(GivenValue(k), <<>>, Equal(k), iter, read)
    BY <1>6 DEF AtValue
  <2>2. /\ GivenValue(k) \in Seq(Symbols) /\ <<>> \in Seq(Symbols) /\ Equal(k) \in Nat
        /\ StandsAt(Enc(GivenValue(k)), Equal(k)) /\ PartEnd(k) = Equal(k) + Len(Enc(GivenValue(k)))
    BY <1>2, ParameterPlace
  <2>3. piece.last = Equal(k) + Len(Enc(GivenValue(k)))
    BY <2>1, <2>2
  <2>4. phase' = phase /\ TextAt(GivenValue(k), <<>>, Equal(k), iter', read')
    BY <2>1, <2>2, <2>3, TextStep
  <2>5. /\ PartEnd(k)' = PartEnd(k) /\ Equal(k)' = Equal(k) /\ GivenValue(k)' = GivenValue(k)
        /\ GivenKey(k)' = GivenKey(k) /\ Kept(k - 1)' = Kept(k - 1) /\ Prefixed' = Prefixed
    BY <1>1, SentStays
  <2> QED BY <1>1, <2>1, <2>4, <2>5 DEF AtValue
<1>7. CASE \E k \in 1 .. GivenMany : AtKey(k) \/ AtValue(k)
  <2>1. PICK k \in 1 .. GivenMany : AtKey(k) \/ AtValue(k)
    BY <1>7
  <2>2. phase' = phase /\ (AtKey(k)' \/ AtValue(k)')
    BY <1>5, <1>6, <2>1
  <2>3. k \in 1 .. GivenMany'
    BY <1>1, SentStays
  <2>4. Somewhere'
    BY <2>2, <2>3 DEF Somewhere
  <2> QED BY <1>3, <2>2, <2>4
<1>8. ~\E k \in 0 .. GivenMany : Between(k)
  BY <1>2 DEF Between
<1> QED BY <1>2, <1>4, <1>7, <1>8 DEF Somewhere


LEMMA StartReads ==
  ASSUME UriInv, DecodedInv, Short, Target!ReadTarget
  PROVE  DecodedInv'
<1>1. Sent /\ phase = "start" /\ UriSame /\ params' = params /\ params = {}
  BY DEF DecodedInv, Target!ReadTarget, phase, UriSame, uri, given, params
<1>2. Target!IsValidPath(uri) /\ Mark = PartEnd(0) + 1 /\ PartEnd(0) \in Nat
  BY <1>1, PathEnds
<1>3. /\ phase' = "reading" /\ tok' = [first |-> Mark, last |-> Mark] /\ iter' = 1 /\ read' = <<>>
      /\ piece' = [first |-> 1, last |-> Mark - 1, role |-> "path"]
  BY <1>2 DEF Target!ReadTarget, Target!Readable, Short, Target!Begin, phase, piece, tok, iter, read, uri, Mark
<1>4. Mark - 1 = PartEnd(0)
  BY <1>2
<1>5. Sent' /\ PartEnd(0)' = PartEnd(0)
  BY <1>1, SentStays
<1>6. AtPath'
  BY <1>1, <1>2, <1>3, <1>4, <1>5 DEF AtPath
<1> QED BY <1>3, <1>5, <1>6 DEF DecodedInv, Somewhere

\* The end of a part: of the path, a key or a value.
LEMMA PathRead ==
  ASSUME UriInv, Sent, AtPath, Target!EndPart
  PROVE  Between(0)'
<1>1. /\ UriSame /\ iter = piece.last + 1 /\ found' = read /\ piece' = Target!NoPart /\ tok' = tok /\ params' = params
  BY DEF AtPath, Target!EndPart, UriSame, given, uri, piece, tok, iter, read, found, params
<1>2. /\ piece.last = PartEnd(0) /\ tok.last = PartEnd(0) + 1 /\ params = {}
      /\ (iter = 1 /\ read = <<>>) \/ TextAt(given.path, <<"/">>, 1, iter, read)
  BY DEF AtPath
<1>3. /\ given.path \in Seq(Symbols) /\ StandsAt(Enc(given.path), 1) /\ PartEnd(0) = 1 + Len(Enc(given.path))
      /\ <<"/">> \in Seq(Symbols) /\ 1 \in Nat /\ PartEnd(0) \in Nat \ {0}
  BY PathPlace, PathEnds
<1>4. iter = (1 + Len(Enc(given.path))) + 1 /\ iter # 1
  <2>1. iter = PartEnd(0) + 1
    BY <1>1, <1>2
  <2>2. \A x \in Nat \ {0} : x + 1 # 1
    OBVIOUS
  <2> QED BY <1>3, <2>1, <2>2
<1>5. read = Prefixed
  <2>1. TextAt(given.path, <<"/">>, 1, iter, read)
    BY <1>2, <1>4
  <2> QED BY <1>3, <1>4, <2>1, TextDone DEF Prefixed
<1>6. TokenEnd(0)' = TokenEnd(0) /\ Prefixed' = Prefixed /\ Kept(0)' = Kept(0)
  BY <1>1, SentStays
<1>7. TokenEnd(0) = PartEnd(0) + 1 /\ Kept(0) = {}
  BY NoneKept DEF TokenEnd
<1>8. piece'.role = "none"
  BY <1>1 DEF Target!NoPart
<1> QED BY <1>1, <1>2, <1>5, <1>6, <1>7, <1>8 DEF Between

LEMMA KeyRead ==
  ASSUME UriInv, Sent, NEW k \in 1 .. GivenMany, AtKey(k), Target!EndPart
  PROVE  AtValue(k)'
<1>1. /\ UriSame /\ iter = piece.last + 1 /\ name' = read /\ tok' = tok /\ params' = params /\ found' = found
      /\ piece' = [first |-> piece.last + 2, last |-> tok.last, role |-> "value"] /\ iter' = piece.last + 2 /\ read' = <<>>
  BY DEF AtKey, Target!EndPart, Target!Begin, UriSame, given, uri, piece, tok, iter, read, found, params, name
<1>2. /\ piece.last = Equal(k) - 1 /\ tok.last = PartEnd(k)
      /\ found = Prefixed /\ params = Kept(k - 1)
      /\ TextAt(GivenKey(k), <<>>, PartEnd(k - 1) + 1, iter, read)
  BY DEF AtKey
<1>3. /\ GivenKey(k) \in Seq(Symbols) /\ GivenValue(k) \in Seq(Symbols) /\ <<>> \in Seq(Symbols)
      /\ PartEnd(k - 1) + 1 \in Nat /\ StandsAt(Enc(GivenKey(k)), PartEnd(k - 1) + 1)
      /\ Equal(k) - 1 = (PartEnd(k - 1) + 1) + Len(Enc(GivenKey(k))) /\ Equal(k) \in Nat
  BY ParameterPlace
<1>4. iter' = Equal(k) + 1
  <2>1. \A x \in Nat : (x - 1) + 2 = x + 1
    OBVIOUS
  <2> QED BY <1>1, <1>2, <1>3, <2>1
<1>5. read = GivenKey(k)
  <2>1. iter = ((PartEnd(k - 1) + 1) + Len(Enc(GivenKey(k)))) + 1
    BY <1>1, <1>2, <1>3
  <2>2. read = <<>> \o GivenKey(k)
    BY <1>2, <1>3, <2>1, TextDone
  <2>3. \A s \in Seq(Symbols) : <<>> \o s = s
    OBVIOUS
  <2> QED BY <1>3, <2>2, <2>3
<1>6. TextAt(GivenValue(k), <<>>, Equal(k), iter', read')
  BY <1>1, <1>3, <1>4, TextStarts
<1>7. /\ PartEnd(k)' = PartEnd(k) /\ Equal(k)' = Equal(k) /\ GivenValue(k)' = GivenValue(k)
      /\ GivenKey(k)' = GivenKey(k) /\ Kept(k - 1)' = Kept(k - 1) /\ Prefixed' = Prefixed
  BY <1>1, SentStays
<1>8. piece'.role = "value" /\ piece'.last = PartEnd(k) /\ tok'.last = PartEnd(k) /\ name' = GivenKey(k)
  BY <1>1, <1>2, <1>5
<1> QED BY <1>1, <1>2, <1>6, <1>7, <1>8 DEF AtValue

LEMMA ValueRead ==
  ASSUME UriInv, Sent, NEW k \in 1 .. GivenMany, AtValue(k), Target!EndPart
  PROVE  Between(k)'
<1>1. /\ UriSame /\ iter = piece.last + 1 /\ tok' = tok /\ found' = found /\ piece' = Target!NoPart
      /\ params' = {p \in params : p.key # name} \cup {[key |-> name, value |-> read]}
  BY DEF AtValue, Target!EndPart, Target!Put, UriSame, given, uri, piece, tok, iter, read, found, params, name
<1>2. /\ piece.last = PartEnd(k) /\ tok.last = PartEnd(k)
      /\ found = Prefixed /\ params = Kept(k - 1) /\ name = GivenKey(k)
      /\ TextAt(GivenValue(k), <<>>, Equal(k), iter, read)
  BY DEF AtValue
<1>3. /\ GivenValue(k) \in Seq(Symbols) /\ <<>> \in Seq(Symbols) /\ Equal(k) \in Nat
      /\ StandsAt(Enc(GivenValue(k)), Equal(k)) /\ PartEnd(k) = Equal(k) + Len(Enc(GivenValue(k)))
  BY ParameterPlace
<1>4. read = GivenValue(k)
  <2>1. iter = (Equal(k) + Len(Enc(GivenValue(k)))) + 1
    BY <1>1, <1>2, <1>3
  <2>2. read = <<>> \o GivenValue(k)
    BY <1>2, <1>3, <2>1, TextDone
  <2>3. \A s \in Seq(Symbols) : <<>> \o s = s
    OBVIOUS
  <2> QED BY <1>3, <2>2, <2>3
<1>5. k \in Nat \ {0} /\ k # 0
  <2>1. GivenMany \in Nat
    BY LayoutIs
  <2> QED BY <2>1
<1>6. params' = Kept(k)
  <2>1. params' = {p \in Kept(k - 1) : p.key # GivenKey(k)} \cup {GivenPair(k)}
    BY <1>1, <1>2, <1>4 DEF GivenPair
  <2> QED BY <1>5, <2>1, KeptMore
<1>7. TokenEnd(k)' = TokenEnd(k) /\ Prefixed' = Prefixed /\ Kept(k)' = Kept(k)
  BY <1>1, SentStays
<1>8. piece'.role = "none" /\ TokenEnd(k) = PartEnd(k)
  BY <1>1, <1>5 DEF Target!NoPart, TokenEnd
<1> QED BY <1>1, <1>2, <1>6, <1>7, <1>8 DEF Between

LEMMA EndReads ==
  ASSUME UriInv, DecodedInv, Target!EndPart
  PROVE  DecodedInv'
<1>1. UriSame /\ phase = "reading" /\ phase' = phase /\ piece.role # "none"
  BY DEF Target!EndPart, Target!Decoding, UriSame, given, uri, piece, phase
<1>2. Sent /\ Somewhere
  BY <1>1 DEF DecodedInv
<1>3. Sent' /\ GivenMany' = GivenMany /\ GivenMany \in Nat
  BY <1>1, <1>2, SentStays, LayoutIs
<1>4. ASSUME Somewhere' PROVE DecodedInv'
  BY <1>1, <1>3, <1>4 DEF DecodedInv
<1>5. CASE AtPath
  <2>1. Between(0)' /\ 0 \in 0 .. GivenMany'
    BY <1>2, <1>3, <1>5, PathRead
  <2> QED BY <1>4, <2>1 DEF Somewhere
<1>6. CASE \E k \in 1 .. GivenMany : AtKey(k) \/ AtValue(k)
  <2>1. PICK k \in 1 .. GivenMany : AtKey(k) \/ AtValue(k)
    BY <1>6
  <2>2. AtValue(k)' \/ Between(k)'
    BY <1>2, <2>1, KeyRead, ValueRead
  <2>3. k \in 1 .. GivenMany' /\ k \in 0 .. GivenMany'
    BY <1>3
  <2> QED BY <1>4, <2>2, <2>3 DEF Somewhere
<1>7. ~\E k \in 0 .. GivenMany : Between(k)
  BY <1>1 DEF Between
<1> QED BY <1>2, <1>5, <1>6, <1>7 DEF Somewhere

LEMMA NextReads ==
  ASSUME UriInv, DecodedInv, Target!NextParameter
  PROVE  DecodedInv'
<1> DEFINE f == Target!Min(Target!Left)
           l == Target!FirstOf("&", f, Len(uri)) - 1
           q == Target!FirstOf("=", f, l)
<1>1. /\ phase = "reading" /\ piece.role = "none" /\ Target!Left # {} /\ tok' = [first |-> f, last |-> l]
      /\ q <= l => piece' = [first |-> f, last |-> q - 1, role |-> "key"] /\ iter' = f /\ read' = <<>> /\ params' = params
      /\ UriSame /\ phase' = "reading" /\ found' = found
  BY DEF Target!NextParameter, Target!Begin, UriSame, given, uri, piece, tok, iter, read, found, params, phase
<1>2. Sent /\ Somewhere
  BY <1>1 DEF DecodedInv
<1>3. PICK k \in 0 .. GivenMany : Between(k)
  BY <1>1, <1>2 DEF Somewhere, AtPath, AtKey, AtValue
<1>4. tok.last = TokenEnd(k) /\ found = Prefixed /\ params = Kept(k)
  BY <1>3 DEF Between
<1>5. k < GivenMany /\ f = PartEnd(k) + 2 /\ GivenMany \in Nat
  BY <1>1, <1>2, <1>4, LeftAt, LayoutIs
<1> HIDE DEF f
<1> DEFINE n == k + 1
<1>6. n \in 1 .. GivenMany /\ n - 1 = k /\ n \in Nat
  BY <1>5
<1> HIDE DEF n
<1>7. /\ PartEnd(k) \in Nat /\ Equal(n) \in PartEnd(k) + 2 .. PartEnd(n) /\ PartEnd(n) \in Nat
      /\ Target!FirstOf("=", PartEnd(k) + 2, PartEnd(n)) = Equal(n)
      /\ Target!FirstOf("&", PartEnd(k) + 2, Len(uri)) = PartEnd(n) + 1
  BY <1>2, <1>6, TokenAt
<1>8. l = PartEnd(n)
  <2>1. l = (PartEnd(n) + 1) - 1
    BY <1>5, <1>7
  <2>2. \A x \in Nat : (x + 1) - 1 = x
    OBVIOUS
  <2> QED BY <1>7, <2>1, <2>2
<1> HIDE DEF l
<1>9. q = Equal(n) /\ q <= l
  <2>1. q = Equal(n)
    BY <1>5, <1>7, <1>8
  <2> HIDE DEF q
  <2>2. \A x, y \in Nat : \A e \in x + 2 .. y : e <= y
    OBVIOUS
  <2> QED BY <1>7, <1>8, <2>1, <2>2
<1>10. /\ piece'.role = "key" /\ piece'.last = Equal(n) - 1 /\ tok'.last = PartEnd(n) /\ found' = Prefixed /\ params' = Kept(n - 1)
       /\ iter' = PartEnd(n - 1) + 2 /\ read' = <<>>
  <2> HIDE DEF q
  <2> QED BY <1>1, <1>4, <1>5, <1>6, <1>8, <1>9
<1>11. TextAt(GivenKey(n), <<>>, PartEnd(n - 1) + 1, iter', read')
  <2>1. GivenKey(n) \in Seq(Symbols) /\ <<>> \in Seq(Symbols) /\ PartEnd(n - 1) + 1 \in Nat
    BY <1>2, <1>6, ParameterPlace
  <2>2. TextAt(GivenKey(n), <<>>, PartEnd(n - 1) + 1, (PartEnd(n - 1) + 1) + 1, <<>>)
    BY <2>1, TextStarts
  <2>3. \A x \in Nat : (x + 1) + 1 = x + 2
    OBVIOUS
  <2>4. (PartEnd(n - 1) + 1) + 1 = PartEnd(n - 1) + 2
    BY <1>6, <1>7, <2>3
  <2> QED BY <1>10, <2>2, <2>4
<1>12. /\ PartEnd(n - 1)' = PartEnd(n - 1) /\ PartEnd(n)' = PartEnd(n) /\ Equal(n)' = Equal(n)
       /\ GivenKey(n)' = GivenKey(n) /\ Kept(n - 1)' = Kept(n - 1) /\ Prefixed' = Prefixed
       /\ Sent' = Sent /\ GivenMany' = GivenMany
  BY <1>1, SentStays
<1>13. AtKey(n)'
  BY <1>10, <1>11, <1>12 DEF AtKey
<1>14. Somewhere'
  <2>1. n \in 1 .. GivenMany'
    BY <1>6, <1>12
  <2> QED BY <1>13, <2>1 DEF Somewhere
<1> QED BY <1>1, <1>2, <1>12, <1>14 DEF DecodedInv

LEMMA AcceptReads ==
  ASSUME UriInv, DecodedInv, Target!Accept
  PROVE  DecodedInv'
<1>1. /\ phase = "reading" /\ piece.role = "none" /\ Target!Left = {} /\ phase' = "accepted" /\ UriSame
      /\ found' = found /\ params' = params
  BY DEF Target!Accept, UriSame, given, uri, piece, found, params, phase
<1>2. Sent /\ Somewhere
  BY <1>1 DEF DecodedInv
<1>3. PICK k \in 0 .. GivenMany : Between(k)
  BY <1>1, <1>2 DEF Somewhere, AtPath, AtKey, AtValue
<1>4. tok.last = TokenEnd(k) /\ found = Prefixed /\ params = Kept(k)
  BY <1>3 DEF Between
<1>5. k = GivenMany
  <2>1. ~(k < GivenMany) /\ GivenMany \in Nat
    BY <1>1, <1>2, <1>4, LeftAt, LayoutIs
  <2> QED BY <2>1
<1>6. Kept(k)' = Kept(k) /\ Prefixed' = Prefixed /\ Sent' = Sent /\ GivenMany' = GivenMany
  BY <1>1, SentStays
<1>7. Kept(GivenMany)' = Kept(GivenMany)
  <2>1. ASSUME NEW n, n = GivenMany PROVE Kept(GivenMany)' = Kept(GivenMany)
    <3>1. Kept(n)' = Kept(n) /\ n = GivenMany'
      BY <1>1, <1>6, <2>1, SentStays
    <3>2. Kept(GivenMany)' = Kept(n)'
      BY <3>1 DEF Kept
    <3> QED BY <2>1, <3>1, <3>2
  <2> QED BY <2>1
<1> QED BY <1>1, <1>2, <1>4, <1>5, <1>6, <1>7 DEF DecodedInv

LEMMA DecodedNext ==
  ASSUME UriInv, DecodedInv, Short, Target!Next \/ UNCHANGED Target!vars
  PROVE  DecodedInv'
<1>1. CASE UNCHANGED Target!vars
  <2>1. /\ UriSame /\ piece' = piece /\ tok' = tok /\ iter' = iter /\ read' = read /\ name' = name /\ found' = found
        /\ params' = params /\ phase' = phase
    BY <1>1 DEF Target!vars, UriSame, given, uri, piece, tok, iter, read, name, found, params, phase
  <2>2. /\ Sent' = Sent /\ GivenMany' = GivenMany /\ Prefixed' = Prefixed /\ given' = given
        /\ \A k : /\ PartEnd(k)' = PartEnd(k) /\ Equal(k)' = Equal(k) /\ TokenEnd(k)' = TokenEnd(k)
                  /\ GivenKey(k)' = GivenKey(k) /\ GivenValue(k)' = GivenValue(k) /\ Kept(k)' = Kept(k)
    BY <2>1, SentStays
  <2>3. AtPath => AtPath'
    BY <2>1, <2>2 DEF AtPath
  <2>4. \A k : Between(k) => Between(k)'
    BY <2>1, <2>2 DEF Between
  <2>5. \A k : AtKey(k) => AtKey(k)'
    BY <2>1, <2>2 DEF AtKey
  <2>6. \A k : AtValue(k) => AtValue(k)'
    BY <2>1, <2>2 DEF AtValue
  <2>7. Somewhere => Somewhere'
    BY <2>2, <2>3, <2>4, <2>5, <2>6 DEF Somewhere
  <2>8. Kept(GivenMany)' = Kept(GivenMany)
    <3>1. ASSUME NEW n, n = GivenMany PROVE Kept(GivenMany)' = Kept(GivenMany)
      <4>1. Kept(n)' = Kept(n) /\ n = GivenMany'
        BY <2>2, <3>1
      <4>2. Kept(GivenMany)' = Kept(n)'
        BY <4>1 DEF Kept
      <4> QED BY <3>1, <4>1, <4>2
    <3> QED BY <3>1
  <2> QED BY <2>1, <2>2, <2>7, <2>8 DEF DecodedInv
<1>2. CASE Target!Next
  BY <1>2, StartReads, DecodeKeeps, EndReads, NextReads, AcceptReads DEF Target!Next
<1> QED BY <1>1, <1>2

LEMMA ReadMeans ==
  ASSUME given # Target!None /\ Short => DecodedInv
  PROVE  Target!ReadAsEncoded
<1>1. CASE given = Target!None \/ ~Short
  BY <1>1 DEF Target!ReadAsEncoded, given, Short, uri
<1>2. CASE DecodedInv
  <2> DEFINE all == given.parameters
             kept == {[key |-> all[i].key, value |-> all[i].value] :
                       i \in {j \in DOMAIN all : \A k \in DOMAIN all : k > j => all[k].key # all[j].key}}
  <2>1. Target!ReadAsEncoded <=> (given # Target!None /\ Len(uri) <= PathLimit /\ phase # "start" =>
          phase # "bad_request" /\ (phase = "accepted" => found = <<"/">> \o given.path /\ params = kept))
    BY DEF Target!ReadAsEncoded, given, uri, phase, found, params
  <2>2. phase # "bad_request" /\ (phase = "accepted" => found = Prefixed /\ params = Kept(GivenMany))
    BY <1>2 DEF DecodedInv
  <2>3. Kept(GivenMany) = kept
    <3>1. DOMAIN all = 1 .. Len(all)
      <4>1. all \in Seq(KeyValue)
        BY <1>2 DEF DecodedInv, Sent
      <4> QED BY <4>1
    <3> QED BY <3>1 DEF Kept, GivenPair, GivenKey, GivenValue, GivenMany
  <2> HIDE DEF kept
  <2> QED BY <2>1, <2>2, <2>3 DEF Prefixed
<1> QED BY <1>1, <1>2

-----------------------------------------------------------------------------
\* Targets: what the reader starts from.

LEMMA UriStarts ==
  ASSUME Target!Init
  PROVE  UriInv /\ (given # Target!None /\ Short => DecodedInv)
<1>1. /\ piece = Target!NoPart /\ tok = Target!NoToken /\ iter = 0 /\ read = <<>> /\ params = {} /\ phase = "start"
      /\ \/ \E p \in Paths, q \in Parameters :
              given = [path |-> p, parameters |-> q] /\ uri = <<"/">> \o Target!Encode(p) \o Target!Query(q)
         \/ given = Target!None /\ uri \in Raw
  BY DEF Target!Init, given, uri, piece, tok, iter, read, params, phase
<1>2. Paths \subseteq Seq(Symbols) /\ Raw \subseteq Seq(Symbols) /\ Parameters \subseteq Seq(KeyValue)
  <2>1. Raw \subseteq Seq(Symbols \ {"sp"})
    BY MessageAssumption DEF Target!UrlAssumption, Symbols
  <2>2. Seq(Symbols \ {"sp"}) \subseteq Seq(Symbols)
    OBVIOUS
  <2> QED BY <2>1, <2>2, MessageAssumption DEF Target!UrlAssumption, Symbols, KeyValue
<1>3. Sent \/ (given = Target!None /\ uri \in Seq(Symbols))
  <2>1. CASE given = Target!None /\ uri \in Raw
    BY <1>2, <2>1
  <2>2. CASE \E p \in Paths, q \in Parameters :
               given = [path |-> p, parameters |-> q] /\ uri = <<"/">> \o Target!Encode(p) \o Target!Query(q)
    <3>1. PICK p \in Paths, q \in Parameters :
               given = [path |-> p, parameters |-> q] /\ uri = <<"/">> \o Target!Encode(p) \o Target!Query(q)
      BY <2>2
    <3>2. given.path = p /\ given.parameters = q
      BY <3>1
    <3>3. given.path \in Seq(Symbols) /\ given.parameters \in Seq(KeyValue)
      BY <1>2, <3>2
    <3>4. uri = <<"/">> \o Enc(given.path) \o Target!Query(given.parameters)
      BY <3>1, <3>2 DEF Enc
    <3> QED BY <3>3, <3>4 DEF Sent
  <2> QED BY <1>1, <2>1, <2>2
<1>4. uri \in Seq(Symbols)
  BY <1>3, PathEnds
<1>5. UriTypes
  <2>1. Len(uri) \in Nat
    BY <1>4, LenNat
  <2>2. 0 \in 0 .. Len(uri) + 1 /\ <<>> \in Seq(Symbols)
    BY <2>1
  <2>3. tok.first = 1 /\ tok.last = 0 /\ piece.first = 1 /\ piece.last = 0 /\ piece.role = "none"
    BY <1>1 DEF Target!NoPart, Target!NoToken
  <2> QED BY <1>1, <1>4, <2>2, <2>3 DEF UriTypes
<1>6. UriInv
  BY <1>1, <1>5 DEF UriInv
<1>7. given # Target!None => DecodedInv
  BY <1>1, <1>3 DEF DecodedInv
<1> QED BY <1>6, <1>7

TargetInv == part = "target" => UriInv /\ (given # Target!None /\ Short => DecodedInv)

LEMMA TargetInvariant == MessageSpec => []TargetInv
<1>1. ASSUME MessageInit PROVE TargetInv
  BY <1>1, UriStarts DEF MessageInit, TargetInv
<1>2. ASSUME TargetInv, [MessageNext]_messageVars PROVE TargetInv'
  <2> SUFFICES ASSUME part' = "target" PROVE UriInv' /\ (given # Target!None /\ Short => DecodedInv)'
    BY DEF TargetInv
  <2>1. part = "target" /\ (Target!Next \/ UNCHANGED Target!vars)
    BY <1>2 DEF MessageNext, messageVars, Target!vars
  <2>2. UriInv /\ (given # Target!None /\ Short => DecodedInv)
    BY <1>2, <2>1 DEF TargetInv
  <2>3. UriInv'
    BY <2>1, <2>2, UriNext
  <2>4. given' = given /\ uri' = uri
    BY <2>1 DEF Target!Next, Target!ReadTarget, Target!DecodePlain, Target!DecodePercent, Target!EndPart,
                Target!NextParameter, Target!Accept, Target!vars, given, uri
  <2>5. given # Target!None /\ Short => DecodedInv'
    BY <2>1, <2>2, DecodedNext
  <2>6. (given # Target!None /\ Short)' <=> given # Target!None /\ Short
    BY <2>4 DEF Target!None, Short
  <2> QED BY <2>3, <2>5, <2>6
<1> QED BY <1>1, <1>2, PTL DEF MessageSpec

\* A request target is read as it was encoded, whatever its path and its parameters, and refused if
\* and only if it is malformed or over maximum_path_length, whatever stands behind its end in memory
\* (http_server_context.hpp:127-172, url_util.hpp:69-100).
THEOREM TargetsAreDecoded == MessageSpec => []TargetDecoded
<1>1. TargetInv => TargetDecoded
  BY UriMeans, ReadMeans DEF TargetInv, TargetDecoded
<1> QED BY <1>1, TargetInvariant, PTL
=============================================================================
