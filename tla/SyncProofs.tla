----------------------------- MODULE SyncProofs -----------------------------
(***************************************************************************)
(* Proofs about Sync, for any sets of coroutines, io threads, composed     *)
(* operations and interrupted coroutines: the safety invariants and the    *)
(* refinement of TimedCall.                                                *)
(***************************************************************************)
EXTENDS Sync, TLAPS

\* Thread t executes a handler of c and has not entered the coroutine with it.
Carries(t, c, k) == at[t] = <<c, k>> /\ owner[c] # t

\* Threads: who runs what, and a handler that was taken is carried by at most
\* one thread.
ThreadsOK ==
  /\ \A t \in Threads, c \in Coros : owner[c] = t => cur[t] = c
  /\ \A t \in Threads, c \in Coros : cur[t] = c => owner[c] = t \/ pc[c] = "done"
  /\ \A c \in Coros : pc[c] \in RunningPCs <=> owner[c] # None
  /\ \A t \in Threads, c \in Coros :
       owner[c] = t => \E k \in Kinds : at[t] = <<c, k>>
  /\ \A t \in Threads, c \in Coros :
       /\ Carries(t, c, "op") => op[c] = "taken"
       /\ Carries(t, c, "timer") => timer[c] = "taken"
       /\ Carries(t, c, "wake") => wake[c] = "taken"
  /\ \A t, u \in Threads, c \in Coros, k \in Kinds :
       Carries(t, c, k) /\ Carries(u, c, k) => t = u

\* Which of the three resumes coroutine c is owed, by its position.
OwedOK(c) ==
  /\ pc[c] \in {"run", "announced", "parked", "done", "back"} =>
       op[c] = "idle" /\ timer[c] = "idle"
  /\ pc[c] = "started" => op[c] # "idle" /\ timer[c] = "idle"
  /\ pc[c] \in {"armed", "wait1"} => op[c] # "idle" /\ timer[c] # "idle"
  /\ pc[c] \in {"woken", "timerOff", "opOff", "wait2"} =>
       (op[c] = "idle") # (timer[c] = "idle")
  /\ pc[c] \in {"announced", "parked"} <=> wake[c] # "idle"

\* The fate of the operation of the current call.
OutcomeOK(c) ==
  /\ op[c] \in {"ready", "taken"} => outcome[c] # "none"
  /\ op[c] = "taken" \/ (op[c] = "idle" /\ pc[c] \in CallPCs) =>
       error[c] = outcome[c] /\ outcome[c] # "none"
  /\ op[c] \in {"pending", "between", "cancelling"} => outcome[c] = "none"
  /\ pc[c] \in CallPCs => (outcome[c] = "finished" <=> completed[c])

\* An operation is cancelled because the timer ran out or c was interrupted.
Excused(c) == expired[c] \/ interrupted[c]

CancelOK(c) ==
  /\ pc[c] \in {"armed", "wait1"} /\ timer[c] \in {"ready", "taken"} => Excused(c)
  /\ pc[c] \in {"woken", "timerOff"} /\ timer[c] = "idle" => Excused(c)
  /\ pc[c] \in CallPCs /\ (op[c] = "cancelling" \/ outcome[c] = "aborted") => Excused(c)
  /\ pc[c] \in {"started", "armed", "wait1"} => op[c] # "cancelling" /\ outcome[c] # "aborted"
  /\ ipc[c] = "cancel" => interrupted[c]
  /\ op[c] = "between" => c \in Secure
  /\ pc[c] \in {"opOff", "wait2"} /\ op[c] = "pending" => c \in Secure

LocalOK == \A c \in Coros : OwedOK(c) /\ OutcomeOK(c) /\ CancelOK(c)

IInv == TypeOK /\ ThreadsOK /\ LocalOK

-----------------------------------------------------------------------------
(* Types *)

LEMMA TypeInit == Init => TypeOK
<1> SUFFICES ASSUME Init PROVE TypeOK
  OBVIOUS
<1> USE DEF Init
<1>1. /\ pc \in [Coros -> PCs]
      /\ owner \in [Coros -> Threads \cup {None}]
      /\ cur \in [Threads -> Coros \cup {None}]
      /\ at \in [Threads -> (Coros \X Kinds) \cup {None}]
  BY DEF PCs, SuspendedPCs
<1>2. /\ op \in [Coros -> {"idle", "pending", "between", "cancelling", "ready", "taken"}]
      /\ timer \in [Coros -> {"idle", "pending", "ready", "taken"}]
      /\ wake \in [Coros -> {"idle", "requested", "ready", "taken"}]
      /\ ipc \in [Coros -> {"idle", "cancel", "clear"}]
  OBVIOUS
<1>3. /\ outcome \in [Coros -> {"none", "finished", "aborted"}]
      /\ error \in [Coros -> {"unset", "finished", "aborted"}]
      /\ result \in [Coros -> {"none", "ok", "interrupted"}]
  OBVIOUS
<1>4. /\ might \in [Coros -> BOOLEAN]
      /\ interrupted \in [Coros -> BOOLEAN]
      /\ completed \in [Coros -> BOOLEAN]
      /\ expired \in [Coros -> BOOLEAN]
  OBVIOUS
<1> QED BY <1>1, <1>2, <1>3, <1>4 DEF TypeOK

LEMMA TypeHandler ==
  ASSUME TypeOK, LocalOK, NEW t \in Threads, NEW c \in Coros, HandlerStep(t, c)
  PROVE  TypeOK'
<1> USE DEF TypeOK, PCs, RunningPCs, SuspendedPCs, Kinds
<1>1. CASE TakeOp(t, c)
  <2>1. outcome[c] \in {"finished", "aborted"}
    BY <1>1 DEF TakeOp, LocalOK, OutcomeOK
  <2> QED BY <1>1, <2>1 DEF TakeOp, callHistory
<1>2. CASE TakeTimer(t, c)
  BY <1>2 DEF TakeTimer, callHistory
<1>3. CASE TakeWake(t, c)
  BY <1>3 DEF TakeWake, callHistory
<1>4. CASE ContinueOp(t, c)
  BY <1>4 DEF ContinueOp, callHistory
<1>5. CASE Resume(t, c)
  <2>1. Continuation(pc[c]) \in PCs
    BY <1>5 DEF Resume, Continuation
  <2> QED BY <1>5, <2>1 DEF Resume, callHistory
<1> QED BY <1>1, <1>2, <1>3, <1>4, <1>5 DEF HandlerStep

LEMMA TypeCoro ==
  ASSUME TypeOK, NEW c \in Coros, CoroStep(c)
  PROVE  TypeOK'
<1> USE DEF TypeOK, PCs, RunningPCs, SuspendedPCs, callHistory
<1>1. CASE StartOp(c)
  BY <1>1 DEF StartOp
<1>2. CASE ArmTimer(c)
  BY <1>2 DEF ArmTimer
<1>3. CASE SuspendFirst(c)
  BY <1>3 DEF SuspendFirst, LeaveTo, Return
<1>4. CASE CancelTimer(c)
  BY <1>4 DEF CancelTimer, Cancelled
<1>5. CASE CancelOp(c)
  BY <1>5 DEF CancelOp
<1>6. CASE SuspendAgain(c)
  BY <1>6 DEF SuspendAgain, LeaveTo, Return
<1>7. CASE EndCall(c)
  BY <1>7 DEF EndCall
<1>8. CASE Announce(c)
  BY <1>8 DEF Announce
<1>9. CASE Park(c)
  BY <1>9 DEF Park, LeaveTo, Return
<1>10. CASE End(c)
  BY <1>10 DEF End, Return
<1> QED BY <1>1, <1>2, <1>3, <1>4, <1>5, <1>6, <1>7, <1>8, <1>9, <1>10 DEF CoroStep

LEMMA TypeWorld ==
  ASSUME TypeOK, NEW c \in Coros, WorldStep(c)
  PROVE  TypeOK'
<1> USE DEF TypeOK, callHistory
<1>1. CASE FinishOp(c)
  BY <1>1 DEF FinishOp
<1>2. CASE FinishStep(c)
  BY <1>2 DEF FinishStep
<1>3. CASE AbortOp(c)
  BY <1>3 DEF AbortOp
<1>4. CASE TimerExpires(c)
  BY <1>4 DEF TimerExpires
<1>5. CASE PostWake(c)
  BY <1>5 DEF PostWake
<1> QED BY <1>1, <1>2, <1>3, <1>4, <1>5 DEF WorldStep

LEMMA TypeInterrupt ==
  ASSUME TypeOK, NEW c \in Coros, InterruptStep(c)
  PROVE  TypeOK'
<1> USE DEF TypeOK, callHistory
<1>1. CASE InterruptSet(c)
  BY <1>1 DEF InterruptSet
<1>2. CASE InterruptCancel(c)
  BY <1>2 DEF InterruptCancel, Cancelled
<1>3. CASE InterruptClear(c)
  BY <1>3 DEF InterruptClear
<1> QED BY <1>1, <1>2, <1>3 DEF InterruptStep

-----------------------------------------------------------------------------
(* Threads *)

LEMMA NoneIsNothing ==
  /\ None \notin Coros /\ None \notin Threads
  /\ \A c \in Coros, k \in Kinds : None # <<c, k>>
  BY SyncAssumption DEF Kinds

\* A handler is taken by a thread that does nothing else.
LEMMA ThreadsTake ==
  ASSUME TypeOK, ThreadsOK, NEW t \in Threads, NEW c \in Coros,
         TakeOp(t, c) \/ TakeTimer(t, c) \/ TakeWake(t, c)
  PROVE  ThreadsOK'
<1> USE DEF TypeOK, callHistory
<1>1. at[t] = None /\ owner' = owner /\ cur' = cur /\ pc' = pc
  BY DEF TakeOp, TakeTimer, TakeWake
<1>2. \A d \in Coros : owner[d] # t
  <2> SUFFICES ASSUME NEW d \in Coros, owner[d] = t PROVE FALSE
    OBVIOUS
  <2>1. PICK k \in Kinds : at[t] = <<d, k>>
    BY DEF ThreadsOK
  <2> HIDE DEF TypeOK
  <2> QED BY <2>1, <1>1, NoneIsNothing
<1>3. PICK k \in Kinds : at' = [at EXCEPT ![t] = <<c, k>>]
  BY DEF TakeOp, TakeTimer, TakeWake, Kinds
<1>4. \A u \in Threads : ~Carries(u, c, k)
  <2>1. CASE TakeOp(t, c)
    <3>1. k = "op" /\ op[c] = "ready"
      BY <2>1, <1>3 DEF TakeOp
    <3> QED BY <3>1 DEF ThreadsOK
  <2>2. CASE TakeTimer(t, c)
    <3>1. k = "timer" /\ timer[c] = "ready"
      BY <2>2, <1>3 DEF TakeTimer
    <3> QED BY <3>1 DEF ThreadsOK
  <2>3. CASE TakeWake(t, c)
    <3>1. k = "wake" /\ wake[c] = "ready"
      BY <2>3, <1>3 DEF TakeWake
    <3> QED BY <3>1 DEF ThreadsOK
  <2> QED BY <2>1, <2>2, <2>3
<1>5. \A u \in Threads, d \in Coros, j \in Kinds :
        Carries(u, d, j)' <=> Carries(u, d, j) \/ (u = t /\ d = c /\ j = k)
  BY <1>1, <1>2, <1>3, NoneIsNothing DEF Carries
<1>6. \A u \in Threads, d \in Coros :
        owner'[d] = u => \E j \in Kinds : at'[u] = <<d, j>>
  BY <1>1, <1>2, <1>3 DEF ThreadsOK
<1>7. \A u \in Threads, d \in Coros :
        /\ Carries(u, d, "op")' => op'[d] = "taken"
        /\ Carries(u, d, "timer")' => timer'[d] = "taken"
        /\ Carries(u, d, "wake")' => wake'[d] = "taken"
  <2>1. CASE TakeOp(t, c)
    <3>1. k = "op"
      BY <2>1, <1>3 DEF TakeOp
    <3> QED BY <2>1, <3>1, <1>5 DEF TakeOp, ThreadsOK, Kinds
  <2>2. CASE TakeTimer(t, c)
    <3>1. k = "timer"
      BY <2>2, <1>3 DEF TakeTimer
    <3> QED BY <2>2, <3>1, <1>5 DEF TakeTimer, ThreadsOK, Kinds
  <2>3. CASE TakeWake(t, c)
    <3>1. k = "wake"
      BY <2>3, <1>3 DEF TakeWake
    <3> QED BY <2>3, <3>1, <1>5 DEF TakeWake, ThreadsOK, Kinds
  <2> QED BY <2>1, <2>2, <2>3
<1>8. \A u, v \in Threads, d \in Coros, j \in Kinds :
        Carries(u, d, j)' /\ Carries(v, d, j)' => u = v
  BY <1>4, <1>5 DEF ThreadsOK
<1> QED BY <1>1, <1>6, <1>7, <1>8 DEF ThreadsOK

\* Control enters the coroutine.
LEMMA ThreadsResume ==
  ASSUME TypeOK, ThreadsOK, NEW t \in Threads, NEW c \in Coros, Resume(t, c)
  PROVE  ThreadsOK'
<1> USE DEF TypeOK, callHistory
<1>1. PICK k \in Kinds :
        /\ at[t] = <<c, k>>
        /\ op' = IF k = "op" THEN [op EXCEPT ![c] = "idle"] ELSE op
        /\ timer' = IF k = "timer" THEN [timer EXCEPT ![c] = "idle"] ELSE timer
        /\ wake' = IF k = "wake" THEN [wake EXCEPT ![c] = "idle"] ELSE wake
  BY DEF Resume
<1>2. /\ owner[c] = None /\ at' = at
      /\ owner' = [owner EXCEPT ![c] = t]
      /\ cur' = [cur EXCEPT ![t] = c]
      /\ pc' = [pc EXCEPT ![c] = Continuation(pc[c])]
      /\ pc[c] \in SuspendedPCs
  BY DEF Resume
<1>3. Continuation(pc[c]) \in RunningPCs
  BY <1>2 DEF Continuation, SuspendedPCs, RunningPCs
<1>4. \A d \in Coros : owner[d] # t
  BY <1>1, <1>2, NoneIsNothing DEF ThreadsOK
<1>5. /\ \A u \in Threads, d \in Coros : owner'[d] = u => cur'[u] = d
      /\ \A u \in Threads, d \in Coros :
           cur'[u] = d => owner'[d] = u \/ pc'[d] = "done"
  BY <1>2, <1>4, NoneIsNothing DEF ThreadsOK, SuspendedPCs
<1>6. \A d \in Coros : pc'[d] \in RunningPCs <=> owner'[d] # None
  BY <1>2, <1>3, NoneIsNothing DEF ThreadsOK
<1>7. \A u \in Threads, d \in Coros :
        owner'[d] = u => \E j \in Kinds : at'[u] = <<d, j>>
  BY <1>1, <1>2 DEF ThreadsOK
<1>8. \A u \in Threads, d \in Coros, j \in Kinds :
        Carries(u, d, j)' => Carries(u, d, j) /\ ~(d = c /\ j = k)
  <2> SUFFICES ASSUME NEW u \in Threads, NEW d \in Coros, NEW j \in Kinds,
                      Carries(u, d, j)'
               PROVE  Carries(u, d, j) /\ ~(d = c /\ j = k)
    OBVIOUS
  <2>1. at[u] = <<d, j>> /\ owner'[d] # u
    BY <1>2 DEF Carries
  <2>2. Carries(u, d, j)
    BY <2>1, <1>2, NoneIsNothing DEF Carries
  <2>3. Carries(t, c, k)
    BY <1>1, <1>2, NoneIsNothing DEF Carries
  <2>4. ~(d = c /\ j = k)
    <3> SUFFICES ASSUME d = c, j = k PROVE FALSE
      OBVIOUS
    <3>1. u = t
      BY <2>2, <2>3 DEF ThreadsOK
    <3> QED BY <3>1, <2>1, <1>2
  <2> QED BY <2>2, <2>4
<1>9. \A u \in Threads, d \in Coros :
        /\ Carries(u, d, "op")' => op'[d] = "taken"
        /\ Carries(u, d, "timer")' => timer'[d] = "taken"
        /\ Carries(u, d, "wake")' => wake'[d] = "taken"
  BY <1>1, <1>8 DEF ThreadsOK, Kinds
<1>10. \A u, v \in Threads, d \in Coros, j \in Kinds :
        Carries(u, d, j)' /\ Carries(v, d, j)' => u = v
  BY <1>8 DEF ThreadsOK
<1> QED BY <1>5, <1>6, <1>7, <1>9, <1>10 DEF ThreadsOK

\* Control leaves the coroutine, and the handler ends.
LEMMA ThreadsLeave ==
  ASSUME TypeOK, ThreadsOK, NEW c \in Coros, NEW p \in PCs \ RunningPCs,
         pc[c] \in RunningPCs, Return(c, p), UNCHANGED <<op, timer, wake>>,
         cur' = [cur EXCEPT ![owner[c]] = None] \/ (p = "done" /\ cur' = cur)
  PROVE  ThreadsOK'
<1> USE DEF TypeOK, Return
<1>1. PICK t \in Threads : owner[c] = t
  BY DEF ThreadsOK
<1>2. \A d \in Coros : owner[d] = t => d = c
  BY <1>1 DEF ThreadsOK
<1>3. /\ pc' = [pc EXCEPT ![c] = p]
      /\ cur' = [cur EXCEPT ![t] = None] \/ (p = "done" /\ cur' = cur)
      /\ at' = [at EXCEPT ![t] = None]
      /\ owner' = [owner EXCEPT ![c] = None]
  BY <1>1
<1>4. /\ \A u \in Threads, d \in Coros : owner'[d] = u => cur'[u] = d
      /\ \A u \in Threads, d \in Coros :
           cur'[u] = d => owner'[d] = u \/ pc'[d] = "done"
  <2>1. pc[c] # "done"
    BY DEF RunningPCs
  <2>2. cur[t] = c
    BY <1>1 DEF ThreadsOK
  <2>3. ASSUME NEW u \in Threads, NEW d \in Coros, owner'[d] = u
        PROVE  cur'[u] = d
    <3>1. d # c /\ owner[d] = u /\ u # t
      BY <2>3, <1>2, <1>3, NoneIsNothing
    <3> QED BY <3>1, <1>3 DEF ThreadsOK
  <2>4. ASSUME NEW u \in Threads, NEW d \in Coros, cur'[u] = d
        PROVE  owner'[d] = u \/ pc'[d] = "done"
    <3>1. cur[u] = d
      BY <2>4, <1>3, NoneIsNothing
    <3>2. CASE d = c
      <4>1. u = t
        BY <3>1, <3>2, <1>1, <2>1 DEF ThreadsOK
      <4>2. p = "done"
        BY <4>1, <2>4, <1>3, NoneIsNothing
      <4> QED BY <4>2, <3>2, <1>3
    <3>3. CASE d # c
      BY <3>1, <3>3, <1>3 DEF ThreadsOK
    <3> QED BY <3>2, <3>3
  <2> QED BY <2>3, <2>4
<1>5. \A d \in Coros : pc'[d] \in RunningPCs <=> owner'[d] # None
  BY <1>3 DEF ThreadsOK
<1>6. \A u \in Threads, d \in Coros :
        owner'[d] = u => \E j \in Kinds : at'[u] = <<d, j>>
  BY <1>1, <1>2, <1>3, NoneIsNothing DEF ThreadsOK
<1>7. \A u \in Threads, d \in Coros, j \in Kinds :
        Carries(u, d, j)' => Carries(u, d, j)
  <2> SUFFICES ASSUME NEW u \in Threads, NEW d \in Coros, NEW j \in Kinds,
                      at'[u] = <<d, j>>, owner'[d] # u
               PROVE  at[u] = <<d, j>> /\ owner[d] # u
    BY DEF Carries
  <2>1. u # t
    <3>1. at'[t] = None
      BY <1>3
    <3>2. <<d, j>> # None
      BY NoneIsNothing
    <3> QED BY <3>1, <3>2
  <2>2. at[u] = <<d, j>>
    BY <1>3, <2>1
  <2>3. owner[d] # u
    BY <1>1, <1>3, <2>1
  <2> QED BY <2>2, <2>3
<1>8. \A u \in Threads, d \in Coros :
        /\ Carries(u, d, "op")' => op'[d] = "taken"
        /\ Carries(u, d, "timer")' => timer'[d] = "taken"
        /\ Carries(u, d, "wake")' => wake'[d] = "taken"
  BY <1>7 DEF ThreadsOK, Kinds
<1>9. \A u, v \in Threads, d \in Coros, j \in Kinds :
        Carries(u, d, j)' /\ Carries(v, d, j)' => u = v
  BY <1>7 DEF ThreadsOK
<1> QED BY <1>4, <1>5, <1>6, <1>8, <1>9 DEF ThreadsOK

\* Every other step keeps the threads where they are and takes back no handler
\* that was taken.
LEMMA ThreadsKeep ==
  ASSUME TypeOK, ThreadsOK, UNCHANGED <<owner, cur, at>>,
         \A d \in Coros : /\ pc'[d] \in RunningPCs <=> pc[d] \in RunningPCs
                          /\ pc[d] = "done" => pc'[d] = "done"
                          /\ op[d] = "taken" => op'[d] = "taken"
                          /\ timer[d] = "taken" => timer'[d] = "taken"
                          /\ wake[d] = "taken" => wake'[d] = "taken"
  PROVE  ThreadsOK'
<1>1. \A u \in Threads, d \in Coros, j \in Kinds :
        Carries(u, d, j)' <=> Carries(u, d, j)
  BY DEF Carries
<1> QED BY <1>1 DEF ThreadsOK, Kinds

-----------------------------------------------------------------------------
(* Each coroutine by itself *)

\* What LocalOK says of d depends on these.
Local(d) == <<pc[d], op[d], timer[d], wake[d], outcome[d], error[d],
              completed[d], expired[d], interrupted[d], ipc[d]>>

LEMMA LocalFrame ==
  ASSUME LocalOK, NEW c \in Coros, \A d \in Coros \ {c} : Local(d)' = Local(d),
         OwedOK(c)', OutcomeOK(c)', CancelOK(c)'
  PROVE  LocalOK'
<1> SUFFICES ASSUME NEW d \in Coros \ {c}
             PROVE  OwedOK(d)' /\ OutcomeOK(d)' /\ CancelOK(d)'
  BY DEF LocalOK
<1>1. OwedOK(d) /\ OutcomeOK(d) /\ CancelOK(d)
  BY DEF LocalOK
<1>2. Local(d)' = Local(d)
  OBVIOUS
<1>3. OwedOK(d)'
  BY <1>1, <1>2 DEF Local, OwedOK
<1>4. OutcomeOK(d)'
  BY <1>1, <1>2 DEF Local, OutcomeOK
<1>5. CancelOK(d)'
  BY <1>1, <1>2 DEF Local, CancelOK, Excused
<1> QED BY <1>3, <1>4, <1>5

\* A step of the coroutine.
LEMMA LocalCoro ==
  ASSUME TypeOK, LocalOK, NEW c \in Coros, CoroStep(c)
  PROVE  LocalOK'
<1> USE DEF TypeOK, PCs, RunningPCs, SuspendedPCs, CallPCs, Local, callHistory
<1> OwedOK(c) /\ OutcomeOK(c) /\ CancelOK(c)
  BY DEF LocalOK
<1>1. CASE StartOp(c)
  <2> USE <1>1 DEF StartOp
  <2>1. \A d \in Coros \ {c} : Local(d)' = Local(d)
    OBVIOUS
  <2>2. OwedOK(c)'
    BY DEF OwedOK
  <2>3. OutcomeOK(c)'
    BY DEF OwedOK, OutcomeOK
  <2>4. CancelOK(c)'
    BY DEF OwedOK, OutcomeOK, CancelOK, Excused
  <2> QED BY <2>1, <2>2, <2>3, <2>4, LocalFrame
<1>2. CASE ArmTimer(c)
  <2> USE <1>2 DEF ArmTimer
  <2>1. \A d \in Coros \ {c} : Local(d)' = Local(d)
    OBVIOUS
  <2>2. OwedOK(c)'
    BY DEF OwedOK
  <2>3. OutcomeOK(c)'
    BY DEF OwedOK, OutcomeOK
  <2>4. CancelOK(c)'
    BY DEF OwedOK, OutcomeOK, CancelOK, Excused
  <2> QED BY <2>1, <2>2, <2>3, <2>4, LocalFrame
<1>3. CASE SuspendFirst(c)
  <2> USE <1>3 DEF SuspendFirst, LeaveTo, Return
  <2>1. \A d \in Coros \ {c} : Local(d)' = Local(d)
    OBVIOUS
  <2>2. OwedOK(c)'
    BY DEF OwedOK
  <2>3. OutcomeOK(c)'
    BY DEF OwedOK, OutcomeOK
  <2>4. CancelOK(c)'
    BY DEF OwedOK, OutcomeOK, CancelOK, Excused
  <2> QED BY <2>1, <2>2, <2>3, <2>4, LocalFrame
<1>4. CASE CancelTimer(c)
  <2> USE <1>4 DEF CancelTimer, Cancelled
  <2>1. \A d \in Coros \ {c} : Local(d)' = Local(d)
    OBVIOUS
  <2>2. OwedOK(c)'
    BY DEF OwedOK
  <2>3. OutcomeOK(c)'
    BY DEF OwedOK, OutcomeOK
  <2>4. CancelOK(c)'
    BY DEF OwedOK, OutcomeOK, CancelOK, Excused
  <2> QED BY <2>1, <2>2, <2>3, <2>4, LocalFrame
<1>5. CASE CancelOp(c)
  <2> USE <1>5 DEF CancelOp
  <2>1. \A d \in Coros \ {c} : Local(d)' = Local(d)
    OBVIOUS
  <2>2. OwedOK(c)'
    BY DEF OwedOK
  <2>3. OutcomeOK(c)'
    BY DEF OwedOK, OutcomeOK
  <2>4. CancelOK(c)'
    BY DEF OwedOK, OutcomeOK, CancelOK, Excused
  <2> QED BY <2>1, <2>2, <2>3, <2>4, LocalFrame
<1>6. CASE SuspendAgain(c)
  <2> USE <1>6 DEF SuspendAgain, LeaveTo, Return
  <2>1. \A d \in Coros \ {c} : Local(d)' = Local(d)
    OBVIOUS
  <2>2. OwedOK(c)'
    BY DEF OwedOK
  <2>3. OutcomeOK(c)'
    BY DEF OwedOK, OutcomeOK
  <2>4. CancelOK(c)'
    BY DEF OwedOK, OutcomeOK, CancelOK, Excused
  <2> QED BY <2>1, <2>2, <2>3, <2>4, LocalFrame
<1>7. CASE EndCall(c)
  <2> USE <1>7 DEF EndCall
  <2>1. \A d \in Coros \ {c} : Local(d)' = Local(d)
    OBVIOUS
  <2>2. OwedOK(c)'
    BY DEF OwedOK
  <2>3. OutcomeOK(c)'
    BY DEF OwedOK, OutcomeOK
  <2>4. CancelOK(c)'
    BY DEF OwedOK, OutcomeOK, CancelOK, Excused
  <2> QED BY <2>1, <2>2, <2>3, <2>4, LocalFrame
<1>8. CASE Announce(c)
  <2> USE <1>8 DEF Announce
  <2>1. \A d \in Coros \ {c} : Local(d)' = Local(d)
    OBVIOUS
  <2>2. OwedOK(c)'
    BY DEF OwedOK
  <2>3. OutcomeOK(c)'
    BY DEF OwedOK, OutcomeOK
  <2>4. CancelOK(c)'
    BY DEF OwedOK, OutcomeOK, CancelOK, Excused
  <2> QED BY <2>1, <2>2, <2>3, <2>4, LocalFrame
<1>9. CASE Park(c)
  <2> USE <1>9 DEF Park, LeaveTo, Return
  <2>1. \A d \in Coros \ {c} : Local(d)' = Local(d)
    OBVIOUS
  <2>2. OwedOK(c)'
    BY DEF OwedOK
  <2>3. OutcomeOK(c)'
    BY DEF OwedOK, OutcomeOK
  <2>4. CancelOK(c)'
    BY DEF OwedOK, OutcomeOK, CancelOK, Excused
  <2> QED BY <2>1, <2>2, <2>3, <2>4, LocalFrame
<1>10. CASE End(c)
  <2> USE <1>10 DEF End, Return
  <2>1. \A d \in Coros \ {c} : Local(d)' = Local(d)
    OBVIOUS
  <2>2. OwedOK(c)'
    BY DEF OwedOK
  <2>3. OutcomeOK(c)'
    BY DEF OwedOK, OutcomeOK
  <2>4. CancelOK(c)'
    BY DEF OwedOK, OutcomeOK, CancelOK, Excused
  <2> QED BY <2>1, <2>2, <2>3, <2>4, LocalFrame
<1> QED BY <1>1, <1>2, <1>3, <1>4, <1>5, <1>6, <1>7, <1>8, <1>9, <1>10 DEF CoroStep

\* A step of the network, the clock or whoever was asked for a resume.
LEMMA LocalWorld ==
  ASSUME TypeOK, LocalOK, NEW c \in Coros, WorldStep(c)
  PROVE  LocalOK'
<1> USE DEF TypeOK, PCs, RunningPCs, SuspendedPCs, CallPCs, Local, callHistory
<1> OwedOK(c) /\ OutcomeOK(c) /\ CancelOK(c)
  BY DEF LocalOK
<1>1. CASE FinishOp(c)
  <2> USE <1>1 DEF FinishOp
  <2>1. \A d \in Coros \ {c} : Local(d)' = Local(d)
    OBVIOUS
  <2>2. OwedOK(c)'
    BY DEF OwedOK
  <2>3. OutcomeOK(c)'
    BY DEF OwedOK, OutcomeOK
  <2>4. CancelOK(c)'
    BY DEF OwedOK, OutcomeOK, CancelOK, Excused
  <2> QED BY <2>1, <2>2, <2>3, <2>4, LocalFrame
<1>2. CASE FinishStep(c)
  <2> USE <1>2 DEF FinishStep
  <2>1. \A d \in Coros \ {c} : Local(d)' = Local(d)
    OBVIOUS
  <2>2. OwedOK(c)'
    BY DEF OwedOK
  <2>3. OutcomeOK(c)'
    BY DEF OwedOK, OutcomeOK
  <2>4. CancelOK(c)'
    BY DEF OwedOK, OutcomeOK, CancelOK, Excused
  <2> QED BY <2>1, <2>2, <2>3, <2>4, LocalFrame
<1>3. CASE AbortOp(c)
  <2> USE <1>3 DEF AbortOp
  <2>1. \A d \in Coros \ {c} : Local(d)' = Local(d)
    OBVIOUS
  <2>2. OwedOK(c)'
    BY DEF OwedOK
  <2>3. OutcomeOK(c)'
    BY DEF OwedOK, OutcomeOK
  <2>4. CancelOK(c)'
    BY DEF OwedOK, OutcomeOK, CancelOK, Excused
  <2> QED BY <2>1, <2>2, <2>3, <2>4, LocalFrame
<1>4. CASE TimerExpires(c)
  <2> USE <1>4 DEF TimerExpires
  <2>1. \A d \in Coros \ {c} : Local(d)' = Local(d)
    OBVIOUS
  <2>2. OwedOK(c)'
    BY DEF OwedOK
  <2>3. OutcomeOK(c)'
    BY DEF OwedOK, OutcomeOK
  <2>4. CancelOK(c)'
    BY DEF OwedOK, OutcomeOK, CancelOK, Excused
  <2> QED BY <2>1, <2>2, <2>3, <2>4, LocalFrame
<1>5. CASE PostWake(c)
  <2> USE <1>5 DEF PostWake
  <2>1. \A d \in Coros \ {c} : Local(d)' = Local(d)
    OBVIOUS
  <2>2. OwedOK(c)'
    BY DEF OwedOK
  <2>3. OutcomeOK(c)'
    BY DEF OwedOK, OutcomeOK
  <2>4. CancelOK(c)'
    BY DEF OwedOK, OutcomeOK, CancelOK, Excused
  <2> QED BY <2>1, <2>2, <2>3, <2>4, LocalFrame
<1> QED BY <1>1, <1>2, <1>3, <1>4, <1>5 DEF WorldStep

\* A step of interrupt().
LEMMA LocalInterrupt ==
  ASSUME TypeOK, LocalOK, NEW c \in Coros, InterruptStep(c)
  PROVE  LocalOK'
<1> USE DEF TypeOK, PCs, RunningPCs, SuspendedPCs, CallPCs, Local, callHistory
<1> OwedOK(c) /\ OutcomeOK(c) /\ CancelOK(c)
  BY DEF LocalOK
<1>1. CASE InterruptSet(c)
  <2> USE <1>1 DEF InterruptSet
  <2>1. \A d \in Coros \ {c} : Local(d)' = Local(d)
    OBVIOUS
  <2>2. OwedOK(c)'
    BY DEF OwedOK
  <2>3. OutcomeOK(c)'
    BY DEF OwedOK, OutcomeOK
  <2>4. CancelOK(c)'
    BY DEF OwedOK, OutcomeOK, CancelOK, Excused
  <2> QED BY <2>1, <2>2, <2>3, <2>4, LocalFrame
<1>2. CASE InterruptCancel(c)
  <2> USE <1>2 DEF InterruptCancel, Cancelled
  <2>1. \A d \in Coros \ {c} : Local(d)' = Local(d)
    OBVIOUS
  <2>2. OwedOK(c)'
    BY DEF OwedOK
  <2>3. OutcomeOK(c)'
    BY DEF OwedOK, OutcomeOK
  <2>4. CancelOK(c)'
    BY DEF OwedOK, OutcomeOK, CancelOK, Excused
  <2> QED BY <2>1, <2>2, <2>3, <2>4, LocalFrame
<1>3. CASE InterruptClear(c)
  <2> USE <1>3 DEF InterruptClear
  <2>1. \A d \in Coros \ {c} : Local(d)' = Local(d)
    OBVIOUS
  <2>2. OwedOK(c)'
    BY DEF OwedOK
  <2>3. OutcomeOK(c)'
    BY DEF OwedOK, OutcomeOK
  <2>4. CancelOK(c)'
    BY DEF OwedOK, OutcomeOK, CancelOK, Excused
  <2> QED BY <2>1, <2>2, <2>3, <2>4, LocalFrame
<1> QED BY <1>1, <1>2, <1>3 DEF InterruptStep

\* A step of an io thread.
LEMMA LocalHandler ==
  ASSUME TypeOK, ThreadsOK, LocalOK,
         NEW t \in Threads, NEW c \in Coros, HandlerStep(t, c)
  PROVE  LocalOK'
<1> USE DEF TypeOK, PCs, RunningPCs, SuspendedPCs, CallPCs, Local, callHistory
<1> OwedOK(c) /\ OutcomeOK(c) /\ CancelOK(c)
  BY DEF LocalOK
<1>1. CASE TakeOp(t, c)
  <2> USE <1>1 DEF TakeOp
  <2>1. \A d \in Coros \ {c} : Local(d)' = Local(d)
    OBVIOUS
  <2>2. OwedOK(c)'
    BY DEF OwedOK
  <2>3. OutcomeOK(c)'
    BY DEF OwedOK, OutcomeOK
  <2>4. CancelOK(c)'
    BY DEF OwedOK, OutcomeOK, CancelOK, Excused
  <2> QED BY <2>1, <2>2, <2>3, <2>4, LocalFrame
<1>2. CASE TakeTimer(t, c)
  <2> USE <1>2 DEF TakeTimer
  <2>1. \A d \in Coros \ {c} : Local(d)' = Local(d)
    OBVIOUS
  <2>2. OwedOK(c)'
    BY DEF OwedOK
  <2>3. OutcomeOK(c)'
    BY DEF OwedOK, OutcomeOK
  <2>4. CancelOK(c)'
    BY DEF OwedOK, OutcomeOK, CancelOK, Excused
  <2> QED BY <2>1, <2>2, <2>3, <2>4, LocalFrame
<1>3. CASE TakeWake(t, c)
  <2> USE <1>3 DEF TakeWake
  <2>1. \A d \in Coros \ {c} : Local(d)' = Local(d)
    OBVIOUS
  <2>2. OwedOK(c)'
    BY DEF OwedOK
  <2>3. OutcomeOK(c)'
    BY DEF OwedOK, OutcomeOK
  <2>4. CancelOK(c)'
    BY DEF OwedOK, OutcomeOK, CancelOK, Excused
  <2> QED BY <2>1, <2>2, <2>3, <2>4, LocalFrame
<1>4. CASE ContinueOp(t, c)
  <2> USE <1>4 DEF ContinueOp
  <2>1. \A d \in Coros \ {c} : Local(d)' = Local(d)
    OBVIOUS
  <2>2. OwedOK(c)'
    BY DEF OwedOK
  <2>3. OutcomeOK(c)'
    BY DEF OwedOK, OutcomeOK
  <2>4. CancelOK(c)'
    BY DEF OwedOK, OutcomeOK, CancelOK, Excused
  <2> QED BY <2>1, <2>2, <2>3, <2>4, LocalFrame
<1>5. CASE Resume(t, c)
  <2>1. PICK k \in Kinds :
          /\ at[t] = <<c, k>>
          /\ op' = IF k = "op" THEN [op EXCEPT ![c] = "idle"] ELSE op
          /\ timer' = IF k = "timer" THEN [timer EXCEPT ![c] = "idle"] ELSE timer
          /\ wake' = IF k = "wake" THEN [wake EXCEPT ![c] = "idle"] ELSE wake
    BY <1>5 DEF Resume
  <2>2. Carries(t, c, k)
    BY <1>5, <2>1, NoneIsNothing DEF Resume, Carries
  <2>3. /\ k = "op" => op[c] = "taken"
        /\ k = "timer" => timer[c] = "taken"
        /\ k = "wake" => wake[c] = "taken"
    BY <2>2 DEF ThreadsOK
  <2>4. /\ pc[c] \in SuspendedPCs
        /\ pc' = [pc EXCEPT ![c] = Continuation(pc[c])]
        /\ UNCHANGED <<outcome, error, might, interrupted, ipc, callHistory>>
    BY <1>5 DEF Resume
  <2>5. /\ pc[c] = "wait1" => pc'[c] = "woken"
        /\ pc[c] = "wait2" => pc'[c] = "back"
        /\ pc[c] = "parked" => pc'[c] = "run"
    BY <2>4 DEF Continuation
  <2>6. \A d \in Coros \ {c} : Local(d)' = Local(d)
    BY <2>1, <2>4
  <2>7. OwedOK(c)'
    BY <2>1, <2>3, <2>4, <2>5 DEF OwedOK, Kinds
  <2>8. OutcomeOK(c)'
    BY <2>1, <2>3, <2>4, <2>5 DEF OwedOK, OutcomeOK, Kinds
  <2>9. CancelOK(c)'
    BY <2>1, <2>3, <2>4, <2>5 DEF OwedOK, OutcomeOK, CancelOK, Excused, Kinds
  <2> QED BY <2>6, <2>7, <2>8, <2>9, LocalFrame
<1> QED BY <1>1, <1>2, <1>3, <1>4, <1>5 DEF HandlerStep

-----------------------------------------------------------------------------
(* The invariant *)

LEMMA InitIInv == Init => IInv
<1> SUFFICES ASSUME Init PROVE IInv
  OBVIOUS
<1>1. TypeOK
  BY TypeInit
<1>2. ThreadsOK
  <2>1. \A t \in Threads, c \in Coros : cur[t] # c /\ owner[c] # t
    BY NoneIsNothing DEF Init
  <2>2. \A c \in Coros : pc[c] \notin RunningPCs /\ owner[c] = None
    BY DEF Init, RunningPCs
  <2>3. \A t \in Threads, c \in Coros, k \in Kinds : at[t] # <<c, k>>
    <3> SUFFICES ASSUME NEW t \in Threads, NEW c \in Coros, NEW k \in Kinds
                 PROVE  at[t] # <<c, k>>
      OBVIOUS
    <3>1. at[t] = None
      BY DEF Init
    <3> QED BY <3>1, NoneIsNothing
  <2> QED BY <2>1, <2>2, <2>3 DEF ThreadsOK, Carries, Kinds
<1>3. LocalOK
  BY DEF Init, LocalOK, OwedOK, OutcomeOK, CancelOK, CallPCs
<1> QED BY <1>1, <1>2, <1>3 DEF IInv

LEMMA ThreadsHandler ==
  ASSUME TypeOK, ThreadsOK, NEW t \in Threads, NEW c \in Coros, HandlerStep(t, c)
  PROVE  ThreadsOK'
<1>1. CASE ContinueOp(t, c)
  BY <1>1, ThreadsKeep DEF ContinueOp, TypeOK
<1> QED BY <1>1, ThreadsTake, ThreadsResume DEF HandlerStep

LEMMA ThreadsCoro ==
  ASSUME TypeOK, ThreadsOK, LocalOK, NEW c \in Coros, CoroStep(c)
  PROVE  ThreadsOK'
<1> USE DEF callHistory
<1>1. CASE SuspendFirst(c) \/ SuspendAgain(c) \/ Park(c) \/ End(c)
  <2>1. PICK p \in {"wait1", "wait2", "parked", "done"} :
          /\ Return(c, p) /\ UNCHANGED <<op, timer, wake>>
          /\ cur' = [cur EXCEPT ![owner[c]] = None] \/ (p = "done" /\ cur' = cur)
    BY <1>1 DEF SuspendFirst, SuspendAgain, Park, End, LeaveTo
  <2>2. p \in PCs \ RunningPCs /\ pc[c] \in RunningPCs
    BY <1>1 DEF SuspendFirst, SuspendAgain, Park, End, PCs, RunningPCs, SuspendedPCs
  <2> QED BY <2>1, <2>2, ThreadsLeave
<1>2. CASE ~(SuspendFirst(c) \/ SuspendAgain(c) \/ Park(c) \/ End(c))
  <2>1. UNCHANGED <<owner, cur, at>>
    BY <1>2 DEF CoroStep, StartOp, ArmTimer, CancelTimer, CancelOp, EndCall, Announce
  <2>2. OwedOK(c)
    BY DEF LocalOK
  <2>3. \A d \in Coros : /\ pc'[d] \in RunningPCs <=> pc[d] \in RunningPCs
                         /\ pc[d] = "done" => pc'[d] = "done"
                         /\ op[d] = "taken" => op'[d] = "taken"
                         /\ timer[d] = "taken" => timer'[d] = "taken"
                         /\ wake[d] = "taken" => wake'[d] = "taken"
    <3> USE DEF TypeOK, RunningPCs, OwedOK
    <3>1. CASE StartOp(c)
      BY <3>1, <2>2 DEF StartOp
    <3>2. CASE ArmTimer(c)
      BY <3>2, <2>2 DEF ArmTimer
    <3>3. CASE CancelTimer(c)
      BY <3>3 DEF CancelTimer, Cancelled
    <3>4. CASE CancelOp(c)
      BY <3>4 DEF CancelOp
    <3>5. CASE EndCall(c)
      BY <3>5 DEF EndCall
    <3>6. CASE Announce(c)
      BY <3>6, <2>2 DEF Announce
    <3> QED BY <1>2, <3>1, <3>2, <3>3, <3>4, <3>5, <3>6 DEF CoroStep
  <2> QED BY <2>1, <2>3, ThreadsKeep
<1> QED BY <1>1, <1>2

LEMMA ThreadsOthers ==
  ASSUME TypeOK, ThreadsOK, NEW c \in Coros, WorldStep(c) \/ InterruptStep(c)
  PROVE  ThreadsOK'
<1>1. UNCHANGED <<pc, owner, cur, at>>
  BY DEF WorldStep, FinishOp, FinishStep, AbortOp, TimerExpires, PostWake,
         InterruptStep, InterruptSet, InterruptCancel, InterruptClear
<1>2. \A d \in Coros : /\ op[d] = "taken" => op'[d] = "taken"
                       /\ timer[d] = "taken" => timer'[d] = "taken"
                       /\ wake[d] = "taken" => wake'[d] = "taken"
  BY DEF TypeOK, WorldStep, FinishOp, FinishStep, AbortOp, TimerExpires, PostWake,
         InterruptStep, InterruptSet, InterruptCancel, InterruptClear, Cancelled
<1> QED BY <1>1, <1>2, ThreadsKeep

LEMMA NextIInv == IInv /\ [Next]_vars => IInv'
<1> SUFFICES ASSUME IInv, [Next]_vars PROVE IInv'
  OBVIOUS
<1> USE DEF IInv
<1>1. CASE UNCHANGED vars
  BY <1>1 DEF vars, TypeOK, ThreadsOK, Carries, LocalOK, OwedOK, OutcomeOK,
              CancelOK, Excused
<1>2. ASSUME NEW c \in Coros, CoroStep(c) PROVE IInv'
  BY <1>2, TypeCoro, ThreadsCoro, LocalCoro
<1>3. ASSUME NEW c \in Coros, WorldStep(c) PROVE IInv'
  BY <1>3, TypeWorld, ThreadsOthers, LocalWorld
<1>4. ASSUME NEW c \in Coros, InterruptStep(c) PROVE IInv'
  BY <1>4, TypeInterrupt, ThreadsOthers, LocalInterrupt
<1>5. ASSUME NEW c \in Coros, NEW t \in Threads, HandlerStep(t, c) PROVE IInv'
  BY <1>5, TypeHandler, ThreadsHandler, LocalHandler
<1> QED BY <1>1, <1>2, <1>3, <1>4, <1>5 DEF Next, Terminated

\* The inductive invariant holds throughout.
THEOREM Invariance == Spec => []IInv
  BY InitIInv, NextIInv, PTL DEF Spec

-----------------------------------------------------------------------------
(* What follows from it *)

\* Every variable keeps its type.
THEOREM TypeCorrect == Spec => []TypeOK
  BY Invariance, PTL DEF IInv

\* resume() finds a coroutine that is suspended, for any number of io threads
\* and coroutines (sync.hpp:23-28).
THEOREM ResumeSafe == Spec => []ResumeFindsSuspended
<1>1. IInv => ResumeFindsSuspended
  <2> SUFFICES ASSUME IInv, NEW t \in Threads, NEW c \in Coros, NEW k \in Kinds,
                      at[t] = <<c, k>>, owner[c] = None
               PROVE  pc[c] \in SuspendedPCs
    BY DEF ResumeFindsSuspended
  <2> USE DEF IInv
  <2>1. Carries(t, c, k)
    BY NoneIsNothing DEF Carries
  <2>2. op[c] = "taken" \/ timer[c] = "taken" \/ wake[c] = "taken"
    BY <2>1 DEF ThreadsOK, Kinds
  <2>3. pc[c] \notin RunningPCs
    BY DEF ThreadsOK
  <2>4. pc[c] # "done"
    BY <2>2 DEF LocalOK, OwedOK
  <2> QED BY <2>3, <2>4 DEF TypeOK, PCs
<1> QED BY <1>1, Invariance, PTL

\* No handler that captured a call's frame outlives the call
\* (socket_adaptor.hpp:24-36, sync.hpp:43-55).
THEOREM CaptureSafe == Spec => []NoDanglingCapture
<1>1. IInv => NoDanglingCapture
  BY DEF IInv, TypeOK, LocalOK, OwedOK, NoDanglingCapture, CallPCs, PCs,
         RunningPCs, SuspendedPCs
<1> QED BY <1>1, Invariance, PTL

\* Each suspension is owed exactly the resumes that suspend_for waits for
\* (sync.hpp:49, 55).
THEOREM ResumesOwed == Spec => []OwedResumes
<1>1. IInv => OwedResumes
  BY DEF IInv, LocalOK, OwedOK, OwedResumes
<1> QED BY <1>1, Invariance, PTL

\* A call never looks at an error code that was not written
\* (socket_adaptor.hpp:42).
THEOREM ResultSafe == Spec => []ResultWritten
<1>1. IInv => ResultWritten
  <2> SUFFICES ASSUME IInv, NEW c \in Coros, pc[c] = "back"
               PROVE  error[c] # "unset"
    BY DEF ResultWritten
  <2>1. op[c] = "idle" /\ error[c] = outcome[c]
    BY DEF IInv, LocalOK, OwedOK, OutcomeOK, CallPCs
  <2> QED BY <2>1 DEF IInv, TypeOK
<1> QED BY <1>1, Invariance, PTL

\* sync::current() is the coroutine that the thread runs; a thread that runs none
\* keeps at most one that has ended (sync.hpp:26, 32, 69, 96).
THEOREM CurrentSafe == Spec => []CurrentIsRunning
<1>1. IInv => CurrentIsRunning
  BY DEF IInv, ThreadsOK, CurrentIsRunning
<1> QED BY <1>1, Invariance, PTL

\* Only a composed operation can outlive its cancel().
THEOREM CancelSafe == Spec => []CancelReaches
<1>1. IInv => CancelReaches
  BY DEF IInv, LocalOK, CancelOK, CancelReaches
<1> QED BY <1>1, Invariance, PTL

\* Threads and coroutines agree at every switch, for any number of either.
THEOREM SwitchesSafe == Spec => []SwitchesInStep
  BY ResumeSafe, CurrentSafe, PTL DEF SwitchesInStep

\* The frame of a call is there as long as a handler may write into it, and is read after it did.
THEOREM FrameSafe == Spec => []FrameInStep
  BY CaptureSafe, ResultSafe, PTL DEF FrameInStep

-----------------------------------------------------------------------------
(* Refinement: a call of a coroutine is the timed call of TimedCall. *)

calls == [c \in Coros |-> pc[c] \in CallPCs]

LEMMA SameCalls ==
  ASSUME NEW f \in [Coros -> BOOLEAN], NEW g \in [Coros -> BOOLEAN],
         \A d \in Coros : f[d] <=> g[d]
  PROVE  f = g
<1>1. \A d \in Coros : f[d] = g[d]
  OBVIOUS
<1> QED BY <1>1

LEMMA CallsType == calls \in [Coros -> BOOLEAN] /\ calls' \in [Coros -> BOOLEAN]
  BY DEF calls

LEMMA CallsAt == \A d \in Coros : /\ calls[d] <=> pc[d] \in CallPCs
                                  /\ calls'[d] <=> pc'[d] \in CallPCs
  BY DEF calls

\* A step that leaves the call's history and the set of calling coroutines
\* alone stutters.
LEMMA Stutter ==
  ASSUME UNCHANGED <<completed, expired, interrupted, result>>,
         \A d \in Coros : pc'[d] \in CallPCs <=> pc[d] \in CallPCs
  PROVE  UNCHANGED Call!callVars
<1>1. calls' = calls
  BY SameCalls, CallsType, CallsAt
<1> QED BY <1>1 DEF Call!callVars, calls

LEMMA HandlerRefines ==
  ASSUME IInv, NEW t \in Threads, NEW c \in Coros, HandlerStep(t, c)
  PROVE  UNCHANGED Call!callVars
<1> USE DEF callHistory
<1>1. UNCHANGED <<completed, expired, interrupted, result>>
  BY DEF HandlerStep, TakeOp, TakeTimer, TakeWake, ContinueOp, Resume
<1>2. \A d \in Coros : pc'[d] \in CallPCs <=> pc[d] \in CallPCs
  <2>1. CASE Resume(t, c)
    BY <2>1 DEF Resume, Continuation, IInv, TypeOK, SuspendedPCs, CallPCs
  <2>2. CASE UNCHANGED pc
    BY <2>2
  <2> QED BY <2>1, <2>2 DEF HandlerStep, TakeOp, TakeTimer, TakeWake, ContinueOp
<1> QED BY <1>1, <1>2, Stutter

LEMMA CoroRefines ==
  ASSUME IInv, NEW c \in Coros, CoroStep(c)
  PROVE  Call!CallNext \/ UNCHANGED Call!callVars
<1> USE DEF callHistory
<1>1. CASE StartOp(c)
  <2>1. calls' = [calls EXCEPT ![c] = TRUE] /\ ~calls[c]
    <3>1. pc[c] = "run" /\ pc' = [pc EXCEPT ![c] = "started"] /\ pc \in [Coros -> PCs]
      BY <1>1 DEF StartOp, IInv, TypeOK
    <3>2. \A d \in Coros : pc'[d] \in CallPCs <=> (d = c \/ pc[d] \in CallPCs)
      BY <3>1 DEF CallPCs
    <3>3. ~calls[c]
      BY <3>1, CallsAt DEF CallPCs
    <3>4. [calls EXCEPT ![c] = TRUE] \in [Coros -> BOOLEAN]
      BY CallsType
    <3>5. \A d \in Coros : calls'[d] <=> [calls EXCEPT ![c] = TRUE][d]
      BY <3>2, CallsType, CallsAt
    <3> QED BY <3>3, <3>4, <3>5, SameCalls, CallsType
  <2>2. Call!Begin(c)
    BY <1>1, <2>1 DEF StartOp, Call!Begin, calls
  <2> QED BY <2>2 DEF Call!CallNext
<1>2. CASE EndCall(c)
  <2>1. PICK r \in {"ok", "interrupted"} :
          /\ pc[c] = "back" /\ pc' = [pc EXCEPT ![c] = "run"]
          /\ result' = [result EXCEPT ![c] = r]
          /\ r = IF interrupted[c] \/ error[c] = "aborted" THEN "interrupted" ELSE "ok"
          /\ UNCHANGED <<completed, expired, interrupted>>
    BY <1>2 DEF EndCall, IInv, TypeOK
  <2>2. calls' = [calls EXCEPT ![c] = FALSE] /\ calls[c]
    <3>1. pc \in [Coros -> PCs]
      BY DEF IInv, TypeOK
    <3>2. \A d \in Coros : pc'[d] \in CallPCs <=> (d # c /\ pc[d] \in CallPCs)
      BY <2>1, <3>1 DEF CallPCs
    <3>3. calls[c]
      BY <2>1, CallsAt DEF CallPCs
    <3>4. [calls EXCEPT ![c] = FALSE] \in [Coros -> BOOLEAN]
      BY CallsType
    <3>5. \A d \in Coros : calls'[d] <=> [calls EXCEPT ![c] = FALSE][d]
      BY <3>2, CallsType, CallsAt
    <3> QED BY <3>3, <3>4, <3>5, SameCalls, CallsType
  <2>3. Call!MayReturn(c, r)
    <3>1. op[c] = "idle" /\ pc[c] \in CallPCs
      BY <2>1 DEF IInv, LocalOK, OwedOK, CallPCs
    <3>2. /\ error[c] = outcome[c] /\ outcome[c] # "none"
          /\ outcome[c] = "finished" <=> completed[c]
          /\ outcome[c] = "aborted" => expired[c] \/ interrupted[c]
      BY <3>1 DEF IInv, LocalOK, OutcomeOK, CancelOK, Excused
    <3>3. outcome[c] \in {"finished", "aborted"}
      BY <3>2 DEF IInv, TypeOK
    <3>4. CASE interrupted[c]
      BY <3>4, <2>1 DEF Call!MayReturn
    <3>5. CASE ~interrupted[c] /\ outcome[c] = "aborted"
      BY <3>5, <3>2, <2>1 DEF Call!MayReturn
    <3>6. CASE ~interrupted[c] /\ outcome[c] = "finished"
      BY <3>6, <3>2, <2>1 DEF Call!MayReturn
    <3> QED BY <3>3, <3>4, <3>5, <3>6
  <2>4. Call!Return(c, r)
    BY <2>1, <2>2, <2>3 DEF Call!Return, Call!MayReturn, calls
  <2> QED BY <2>4 DEF Call!CallNext
<1>3. CASE ~StartOp(c) /\ ~EndCall(c)
  <2>1. UNCHANGED <<completed, expired, interrupted, result>>
    BY <1>3 DEF CoroStep, ArmTimer, SuspendFirst, CancelTimer, CancelOp,
                SuspendAgain, Announce, Park, End
  <2>2. \A d \in Coros : pc'[d] \in CallPCs <=> pc[d] \in CallPCs
    BY <1>3 DEF CoroStep, ArmTimer, SuspendFirst, CancelTimer, CancelOp, SuspendAgain,
                Announce, Park, End, LeaveTo, Return, IInv, TypeOK, CallPCs
  <2> QED BY <2>1, <2>2, Stutter
<1> QED BY <1>1, <1>2, <1>3

LEMMA OthersRefine ==
  ASSUME IInv, NEW c \in Coros, WorldStep(c) \/ InterruptStep(c)
  PROVE  Call!CallNext \/ UNCHANGED Call!callVars
<1> USE DEF callHistory
<1>1. calls' = calls
  <2>1. pc' = pc
    BY DEF WorldStep, FinishOp, FinishStep, AbortOp, TimerExpires, PostWake,
           InterruptStep, InterruptSet, InterruptCancel, InterruptClear
  <2> QED BY <2>1 DEF calls
<1>2. CASE FinishOp(c)
  <2>1. calls[c]
    BY <1>2 DEF FinishOp, IInv, TypeOK, PCs, RunningPCs, SuspendedPCs, LocalOK,
                OwedOK, calls, CallPCs
  <2>2. Call!Complete(c)
    BY <1>1, <1>2, <2>1 DEF FinishOp, Call!Complete, calls
  <2> QED BY <2>2 DEF Call!CallNext
<1>3. CASE TimerExpires(c)
  <2>1. calls[c]
    BY <1>3 DEF TimerExpires, IInv, TypeOK, PCs, RunningPCs, SuspendedPCs, LocalOK,
                OwedOK, calls, CallPCs
  <2>2. Call!Expire(c)
    BY <1>1, <1>3, <2>1 DEF TimerExpires, Call!Expire, calls
  <2> QED BY <2>2 DEF Call!CallNext
<1>4. CASE InterruptSet(c)
  <2>1. Call!Interrupt(c)
    BY <1>1, <1>4 DEF InterruptSet, Call!Interrupt, calls
  <2> QED BY <2>1 DEF Call!CallNext
<1>5. CASE ~FinishOp(c) /\ ~TimerExpires(c) /\ ~InterruptSet(c)
  <2>1. UNCHANGED <<completed, expired, interrupted, result>>
    BY <1>5 DEF WorldStep, FinishStep, AbortOp, PostWake,
                InterruptStep, InterruptCancel, InterruptClear
  <2> QED BY <1>1, <2>1 DEF Call!callVars, calls
<1> QED BY <1>2, <1>3, <1>4, <1>5

\* Every call of every coroutine returns "ok" or "interrupted" only when
\* TimedCall allows it (socket_adaptor.hpp:38-47, sync.hpp:41-65).
THEOREM RefinesTimedCall == Spec => ImplementsTimedCall
<1>1. Init => Call!CallInit
  <2> SUFFICES ASSUME Init PROVE Call!CallInit
    OBVIOUS
  <2>1. calls = [c \in Coros |-> FALSE]
    BY SameCalls, CallsType, CallsAt DEF Init, CallPCs
  <2> QED BY <2>1 DEF Init, Call!CallInit, calls
<1>2. IInv /\ [Next]_vars => [Call!CallNext]_(Call!callVars)
  <2> SUFFICES ASSUME IInv, [Next]_vars
               PROVE  Call!CallNext \/ UNCHANGED Call!callVars
    OBVIOUS
  <2>1. CASE UNCHANGED vars
    BY <2>1 DEF vars, Call!callVars
  <2>2. CASE Next
    BY <2>1, <2>2, HandlerRefines, CoroRefines, OthersRefine DEF Next, Terminated
  <2> QED BY <2>1, <2>2
<1> QED BY <1>1, <1>2, Invariance, PTL DEF Spec, ImplementsTimedCall, Call!CallSpec

=============================================================================
