-------------------------------- MODULE Sync --------------------------------
(***************************************************************************)
(* sync.hpp: the coroutine every connection runs in, and the asynchronous  *)
(* calls made from it (socket_adaptor.hpp, secure_socket.hpp, client.hpp). *)
(*                                                                         *)
(* A call starts an asynchronous operation whose completion handler writes *)
(* its error code into the caller's stack frame and resumes the coroutine, *)
(* then runs suspend_for: it arms a timer whose handler resumes it too,    *)
(* suspends, cancels both once either has resumed it, and suspends again   *)
(* for the other.  The frame may die only when both handlers have run.     *)
(* Handlers run on any io thread; a coroutine migrates between threads.    *)
(*                                                                         *)
(* The deadline_timer is not thread safe but interrupt() cancels it from   *)
(* another thread: its might_have_pending_waits flag is read and cleared   *)
(* in separate steps.                                                      *)
(***************************************************************************)
CONSTANTS Coros,    \* sync objects
          Threads,  \* io threads
          Secure,   \* coroutines whose operations are made of several steps
          Interruptible,  \* coroutines that somebody calls interrupt() on
          None      \* no thread, no coroutine, no handler

ASSUME SyncAssumption == /\ None \notin Coros \cup Threads
                         /\ None \notin Coros \X {"op", "timer", "wake"}
                         /\ Secure \subseteq Coros
                         /\ Interruptible \subseteq Coros

VARIABLES
  pc,           \* pc[c]: where coroutine c is (below)
  owner,        \* owner[c]: the thread that holds c's mutex_ and runs it
  cur,          \* cur[t]: the thread_local current_impl() of thread t
  at,           \* at[t]: the handler thread t is executing
  op,           \* op[c]: the asynchronous operation of c's call
  timer,        \* timer[c]: the wait on timer_
  wake,         \* wake[c]: the resume c announced to somebody else
  outcome,      \* outcome[c]: the error code the operation completed with
  error,        \* error[c]: the local `error` of the call's frame
  might,        \* might[c]: timer_'s might_have_pending_waits
  interrupted,  \* interrupted[c]: interrupted_
  ipc,          \* ipc[c]: where the thread calling c's interrupt() is
  completed,    \* history: this call's operation finished by itself
  expired,      \* history: this call's timer ran out
  result        \* history: how c's last call ended

vars == <<pc, owner, cur, at, op, timer, wake, outcome, error, might,
          interrupted, ipc, completed, expired, result>>

RunningPCs == {"run",       \* in code that is not waiting for anything
               "started",   \* the operation is started
               "armed",     \* async_wait was called, about to suspend
               "woken",     \* resumed, about to call timer_.cancel()
               "timerOff",  \* about to call cancel()
               "opOff",     \* about to suspend again
               "back",      \* resumed again, about to look at the result
               "announced"} \* asked for a resume, about to suspend

SuspendedPCs == {"wait1", "wait2", "parked"}

CallPCs == {"started", "armed", "wait1", "woken", "timerOff", "opOff", "wait2", "back"}

PCs == RunningPCs \cup SuspendedPCs \cup {"done"}

Kinds == {"op", "timer", "wake"}

TypeOK == /\ pc \in [Coros -> PCs]
          /\ owner \in [Coros -> Threads \cup {None}]
          /\ cur \in [Threads -> Coros \cup {None}]
          /\ at \in [Threads -> (Coros \X Kinds) \cup {None}]
          /\ op \in [Coros -> {"idle", "pending", "between", "cancelling", "ready", "taken"}]
          /\ timer \in [Coros -> {"idle", "pending", "ready", "taken"}]
          /\ wake \in [Coros -> {"idle", "requested", "ready", "taken"}]
          /\ outcome \in [Coros -> {"none", "finished", "aborted"}]
          /\ error \in [Coros -> {"unset", "finished", "aborted"}]
          /\ might \in [Coros -> BOOLEAN]
          /\ interrupted \in [Coros -> BOOLEAN]
          /\ ipc \in [Coros -> {"idle", "cancel", "clear"}]
          /\ completed \in [Coros -> BOOLEAN]
          /\ expired \in [Coros -> BOOLEAN]
          /\ result \in [Coros -> {"none", "ok", "interrupted"}]

\* A new coroutine is resumed once by whoever created it.
Init == /\ pc = [c \in Coros |-> "parked"]
        /\ owner = [c \in Coros |-> None]
        /\ cur = [t \in Threads |-> None]
        /\ at = [t \in Threads |-> None]
        /\ op = [c \in Coros |-> "idle"]
        /\ timer = [c \in Coros |-> "idle"]
        /\ wake = [c \in Coros |-> "ready"]
        /\ outcome = [c \in Coros |-> "none"]
        /\ error = [c \in Coros |-> "unset"]
        /\ might = [c \in Coros |-> FALSE]
        /\ interrupted = [c \in Coros |-> FALSE]
        /\ ipc = [c \in Coros |-> "idle"]
        /\ completed = [c \in Coros |-> FALSE]
        /\ expired = [c \in Coros |-> FALSE]
        /\ result = [c \in Coros |-> "none"]

callHistory == <<completed, expired, result>>

-----------------------------------------------------------------------------
(* Handlers, run by the io threads. *)

\* The operation's completion handler: it stores its error code in the frame
\* and goes on to resume().
TakeOp(t, c) == /\ at[t] = None
                /\ op[c] = "ready"
                /\ op' = [op EXCEPT ![c] = "taken"]
                /\ error' = [error EXCEPT ![c] = outcome[c]]
                /\ at' = [at EXCEPT ![t] = <<c, "op">>]
                /\ UNCHANGED <<pc, owner, cur, timer, wake, outcome, might,
                               interrupted, ipc, callHistory>>

\* The timer's handler ignores its error code.
TakeTimer(t, c) == /\ at[t] = None
                   /\ timer[c] = "ready"
                   /\ timer' = [timer EXCEPT ![c] = "taken"]
                   /\ at' = [at EXCEPT ![t] = <<c, "timer">>]
                   /\ UNCHANGED <<pc, owner, cur, op, wake, outcome, error, might,
                                  interrupted, ipc, callHistory>>

\* The callback of sync_lock, or server_context::start.
TakeWake(t, c) == /\ at[t] = None
                  /\ wake[c] = "ready"
                  /\ wake' = [wake EXCEPT ![c] = "taken"]
                  /\ at' = [at EXCEPT ![t] = <<c, "wake">>]
                  /\ UNCHANGED <<pc, owner, cur, op, timer, outcome, error, might,
                                 interrupted, ipc, callHistory>>

\* An intermediate handler of a composed operation (TLS read, write or
\* handshake, connect to several addresses) starts the next step.
ContinueOp(t, c) == /\ at[t] = None
                    /\ op[c] = "between"
                    /\ op' = [op EXCEPT ![c] = "pending"]
                    /\ UNCHANGED <<pc, owner, cur, at, timer, wake, outcome, error,
                                   might, interrupted, ipc, callHistory>>

\* The statement after the suspend() at which a coroutine is suspended.
Continuation(p) == CASE p = "wait1" -> "woken"
                     [] p = "wait2" -> "back"
                     [] p = "parked" -> "run"

\* resume(): takes mutex_ (waiting for the coroutine to suspend), sets
\* current_impl() and switches.  The handler does not touch its captures
\* afterwards.
Resume(t, c) ==
  /\ owner[c] = None
  /\ \E k \in Kinds :
       /\ at[t] = <<c, k>>
       /\ op' = IF k = "op" THEN [op EXCEPT ![c] = "idle"] ELSE op
       /\ timer' = IF k = "timer" THEN [timer EXCEPT ![c] = "idle"] ELSE timer
       /\ wake' = IF k = "wake" THEN [wake EXCEPT ![c] = "idle"] ELSE wake
  /\ pc[c] \in SuspendedPCs
  /\ owner' = [owner EXCEPT ![c] = t]
  /\ cur' = [cur EXCEPT ![t] = c]
  /\ pc' = [pc EXCEPT ![c] = Continuation(pc[c])]
  /\ UNCHANGED <<at, outcome, error, might, interrupted, ipc, callHistory>>

-----------------------------------------------------------------------------
(* The coroutine, on the thread that resumed it. *)

\* Control returns to resume() on the coroutine's thread, which unlocks
\* mutex_ and ends its handler.
Return(c, p) == /\ pc' = [pc EXCEPT ![c] = p]
                /\ at' = [at EXCEPT ![owner[c]] = None]
                /\ owner' = [owner EXCEPT ![c] = None]

\* suspend(): the thread forgets the coroutine before it leaves it.
LeaveTo(c, p) == /\ Return(c, p)
                 /\ cur' = [cur EXCEPT ![owner[c]] = None]

\* A call starts: new locals, async_read_some / async_write_some / ...
StartOp(c) == /\ pc[c] = "run"
              /\ cur[owner[c]] = c
              /\ pc' = [pc EXCEPT ![c] = "started"]
              /\ op' = [op EXCEPT ![c] = "pending"]
              /\ outcome' = [outcome EXCEPT ![c] = "none"]
              /\ error' = [error EXCEPT ![c] = "unset"]
              /\ completed' = [completed EXCEPT ![c] = FALSE]
              /\ expired' = [expired EXCEPT ![c] = FALSE]
              /\ UNCHANGED <<owner, cur, at, timer, wake, might, interrupted, ipc, result>>

\* suspend_for: expires_from_now (which cancels nothing: no wait is pending)
\* and async_wait.
ArmTimer(c) == /\ pc[c] = "started"
               /\ pc' = [pc EXCEPT ![c] = "armed"]
               /\ timer' = [timer EXCEPT ![c] = "pending"]
               /\ might' = [might EXCEPT ![c] = TRUE]
               /\ UNCHANGED <<owner, cur, at, op, wake, outcome, error,
                              interrupted, ipc, callHistory>>

SuspendFirst(c) == /\ pc[c] = "armed"
                   /\ LeaveTo(c, "wait1")
                   /\ UNCHANGED <<op, timer, wake, outcome, error, might,
                                  interrupted, ipc, callHistory>>

\* Mutant of Cancelled: the handler of a cancelled wait never runs.
CancelledSilently(c) == IF might[c] /\ timer[c] = "pending"
                        THEN [timer EXCEPT ![c] = "idle"]
                        ELSE timer

\* deadline_timer::cancel(): a pending wait completes with operation_aborted,
\* unless the flag says that there is none.
Cancelled(c) == IF might[c] /\ timer[c] = "pending"
                THEN [timer EXCEPT ![c] = "ready"]
                ELSE timer

\* Mutant of CancelTimer: suspend_for returns at once when the operation is what
\* resumed it, as if cancel() could stop a handler that is queued.
CancelTimerReturns(c) == /\ pc[c] = "woken"
                         /\ pc' = [pc EXCEPT ![c] =
                                           IF op[c] = "idle" THEN "back" ELSE "timerOff"]
                         /\ timer' = Cancelled(c)
                         /\ might' = [might EXCEPT ![c] = FALSE]
                         /\ UNCHANGED <<owner, cur, at, op, wake, outcome, error,
                                        interrupted, ipc, callHistory>>

CancelTimer(c) == /\ pc[c] = "woken"
                  /\ pc' = [pc EXCEPT ![c] = "timerOff"]
                  /\ timer' = Cancelled(c)
                  /\ might' = [might EXCEPT ![c] = FALSE]
                  /\ UNCHANGED <<owner, cur, at, op, wake, outcome, error,
                                 interrupted, ipc, callHistory>>

\* Mutant of CancelOp: the caller's cancel() does nothing.
CancelOpForgotten(c) == /\ pc[c] = "timerOff"
                        /\ pc' = [pc EXCEPT ![c] = "opOff"]
                        /\ UNCHANGED op
                        /\ UNCHANGED <<owner, cur, at, timer, wake, outcome, error, might,
                                       interrupted, ipc, callHistory>>

\* Mutant of CancelOp: no second suspend().
CancelOpReturns(c) == /\ pc[c] = "timerOff"
                      /\ pc' = [pc EXCEPT ![c] = "back"]
                      /\ op' = IF op[c] = "pending"
                               THEN [op EXCEPT ![c] = "cancelling"] ELSE op
                      /\ UNCHANGED <<owner, cur, at, timer, wake, outcome, error, might,
                                     interrupted, ipc, callHistory>>

\* cancel(): reaches the step of the operation that is in progress, if one is.
CancelOp(c) == /\ pc[c] = "timerOff"
               /\ pc' = [pc EXCEPT ![c] = "opOff"]
               /\ op' = IF op[c] = "pending"
                        THEN [op EXCEPT ![c] = "cancelling"] ELSE op
               /\ UNCHANGED <<owner, cur, at, timer, wake, outcome, error, might,
                              interrupted, ipc, callHistory>>

SuspendAgain(c) == /\ pc[c] = "opOff"
                   /\ LeaveTo(c, "wait2")
                   /\ UNCHANGED <<op, timer, wake, outcome, error, might,
                                  interrupted, ipc, callHistory>>

\* Mutant of EndCall: a call whose timer ran out is reported as interrupted.
EndCallByTimer(c) == /\ pc[c] = "back"
                     /\ pc' = [pc EXCEPT ![c] = "run"]
                     /\ result' = [result EXCEPT ![c] =
                                    IF interrupted[c] \/ expired[c]
                                    THEN "interrupted" ELSE "ok"]
                     /\ UNCHANGED <<owner, cur, at, op, timer, wake, outcome, error, might,
                                    interrupted, ipc, completed, expired>>

\* The end of suspend_for and of the call: interrupted_exception when
\* interrupted_ is set or the operation was aborted.
EndCall(c) == /\ pc[c] = "back"
              /\ pc' = [pc EXCEPT ![c] = "run"]
              /\ result' = [result EXCEPT ![c] =
                             IF interrupted[c] \/ error[c] = "aborted"
                             THEN "interrupted" ELSE "ok"]
              /\ UNCHANGED <<owner, cur, at, op, timer, wake, outcome, error, might,
                             interrupted, ipc, completed, expired>>

\* sync_lock's async_lock, or on_ready: whoever it tells may answer at once.
Announce(c) == /\ pc[c] = "run"
               /\ pc' = [pc EXCEPT ![c] = "announced"]
               /\ wake' = [wake EXCEPT ![c] = "requested"]
               /\ UNCHANGED <<owner, cur, at, op, timer, outcome, error, might,
                              interrupted, ipc, callHistory>>

Park(c) == /\ pc[c] = "announced"
           /\ LeaveTo(c, "parked")
           /\ UNCHANGED <<op, timer, wake, outcome, error, might,
                          interrupted, ipc, callHistory>>

\* entry_point_ returned or threw: run() ends without suspend(), and the thread
\* keeps its pointer to the coroutine.
End(c) == /\ pc[c] = "run"
          /\ Return(c, "done")
          /\ UNCHANGED <<cur, op, timer, wake, outcome, error, might,
                         interrupted, ipc, callHistory>>

-----------------------------------------------------------------------------
(* The network, the clock and the other parties. *)

\* The operation, or its last step, finishes, also while it is being cancelled.
FinishOp(c) == /\ op[c] \in {"pending", "cancelling"}
               /\ op' = [op EXCEPT ![c] = "ready"]
               /\ outcome' = [outcome EXCEPT ![c] = "finished"]
               /\ completed' = [completed EXCEPT ![c] = TRUE]
               /\ UNCHANGED <<pc, owner, cur, at, timer, wake, error, might,
                              interrupted, ipc, expired, result>>

\* One step of a composed operation finishes and is not the last.
FinishStep(c) == /\ c \in Secure
                 /\ op[c] = "pending"
                 /\ op' = [op EXCEPT ![c] = "between"]
                 /\ UNCHANGED <<pc, owner, cur, at, timer, wake, outcome, error,
                                might, interrupted, ipc, callHistory>>

\* A cancelled operation completes with operation_aborted.
AbortOp(c) == /\ op[c] = "cancelling"
              /\ op' = [op EXCEPT ![c] = "ready"]
              /\ outcome' = [outcome EXCEPT ![c] = "aborted"]
              /\ UNCHANGED <<pc, owner, cur, at, timer, wake, error, might,
                             interrupted, ipc, callHistory>>

TimerExpires(c) == /\ timer[c] = "pending"
                   /\ timer' = [timer EXCEPT ![c] = "ready"]
                   /\ expired' = [expired EXCEPT ![c] = TRUE]
                   /\ UNCHANGED <<pc, owner, cur, at, op, wake, outcome, error, might,
                                  interrupted, ipc, completed, result>>

\* The lock service posts the callback, or an accept handler pops the context.
PostWake(c) == /\ wake[c] = "requested"
               /\ wake' = [wake EXCEPT ![c] = "ready"]
               /\ UNCHANGED <<pc, owner, cur, at, op, timer, outcome, error, might,
                              interrupted, ipc, callHistory>>

\* interrupt(), from the thread that runs server::stop().
InterruptSet(c) == /\ c \in Interruptible
                   /\ ipc[c] = "idle"
                   /\ interrupted' = [interrupted EXCEPT ![c] = TRUE]
                   /\ ipc' = [ipc EXCEPT ![c] = "cancel"]
                   /\ UNCHANGED <<pc, owner, cur, at, op, timer, wake, outcome, error,
                                  might, callHistory>>

InterruptCancel(c) == /\ ipc[c] = "cancel"
                      /\ timer' = Cancelled(c)
                      /\ ipc' = [ipc EXCEPT ![c] = IF might[c] THEN "clear" ELSE "idle"]
                      /\ UNCHANGED <<pc, owner, cur, at, op, wake, outcome, error,
                                     might, interrupted, callHistory>>

\* might_have_pending_waits = false, maybe after the coroutine armed it again.
InterruptClear(c) == /\ ipc[c] = "clear"
                     /\ might' = [might EXCEPT ![c] = FALSE]
                     /\ ipc' = [ipc EXCEPT ![c] = "idle"]
                     /\ UNCHANGED <<pc, owner, cur, at, op, timer, wake, outcome, error,
                                    interrupted, callHistory>>

-----------------------------------------------------------------------------
HandlerStep(t, c) == \/ TakeOp(t, c) \/ TakeTimer(t, c) \/ TakeWake(t, c)
                     \/ ContinueOp(t, c) \/ Resume(t, c)

CoroStep(c) == \/ StartOp(c) \/ ArmTimer(c) \/ SuspendFirst(c) \/ CancelTimer(c)
               \/ CancelOp(c) \/ SuspendAgain(c) \/ EndCall(c)
               \/ Announce(c) \/ Park(c) \/ End(c)

WorldStep(c) == \/ FinishOp(c) \/ FinishStep(c) \/ AbortOp(c)
                \/ TimerExpires(c) \/ PostWake(c)

InterruptStep(c) == InterruptSet(c) \/ InterruptCancel(c) \/ InterruptClear(c)

\* Every coroutine has ended.
Terminated == (\A c \in Coros : pc[c] = "done") /\ UNCHANGED vars

Next == \/ \E c \in Coros : \/ CoroStep(c) \/ WorldStep(c) \/ InterruptStep(c)
                            \/ \E t \in Threads : HandlerStep(t, c)
        \/ Terminated

\* Code between calls is finite, a ready handler is taken in its turn from the
\* io_service queue, the clock runs, and a cancelled operation completes.  The
\* peer owes nothing.
Fairness ==
  \A c \in Coros :
    /\ WF_vars(CoroStep(c))
    /\ WF_vars(TimerExpires(c)) /\ WF_vars(AbortOp(c))
    /\ SF_vars(\E t \in Threads : TakeOp(t, c))
    /\ SF_vars(\E t \in Threads : TakeTimer(t, c))
    /\ SF_vars(\E t \in Threads : TakeWake(t, c))
    /\ SF_vars(\E t \in Threads : ContinueOp(t, c))
    /\ \A t \in Threads : WF_vars(Resume(t, c))

Spec == Init /\ [][Next]_vars

FairSpec == Spec /\ Fairness

-----------------------------------------------------------------------------
(* Properties *)

\* A handler about to enter resume() finds a suspended coroutine: never one
\* that has ended, and never a second resume for the same suspension
\* (sync.hpp:23-28 switches to context_ unconditionally).
ResumeFindsSuspended ==
  \A t \in Threads, c \in Coros, k \in Kinds :
    at[t] = <<c, k>> /\ owner[c] = None => pc[c] \in SuspendedPCs

\* A coroutine that is in no call has no operation, no timer wait and no
\* handler of either under way: the captured frame is never written after it
\* is gone (socket_adaptor.hpp:24-36, sync.hpp:43-55).
NoDanglingCapture ==
  \A c \in Coros : pc[c] \notin CallPCs => op[c] = "idle" /\ timer[c] = "idle"

\* The first suspension is owed two resumes and the second exactly one, so
\* that a coroutine is neither stranded nor resumed early (sync.hpp:49, 55).
OwedResumes ==
  \A c \in Coros :
    /\ pc[c] \in {"armed", "wait1"} => op[c] # "idle" /\ timer[c] # "idle"
    /\ pc[c] \in {"woken", "timerOff", "opOff", "wait2"} =>
         (op[c] = "idle") # (timer[c] = "idle")
    /\ pc[c] \in {"announced", "parked"} => wake[c] # "idle"

\* When the call looks at its error code the completion handler has stored it
\* (socket_adaptor.hpp:42: `error` and `length` have been written).
ResultWritten == \A c \in Coros : pc[c] = "back" => error[c] # "unset"

\* sync::current() is the coroutine the thread runs, however coroutines migrate;
\* a thread that runs none keeps at most one that has ended (sync.hpp:26, 32, 69;
\* run() returns at line 96 without clearing the pointer).
CurrentIsRunning ==
  /\ \A t \in Threads, c \in Coros : owner[c] = t => cur[t] = c
  /\ \A t \in Threads, c \in Coros : cur[t] = c => owner[c] = t \/ pc[c] = "done"
  /\ \A c \in Coros : pc[c] \in RunningPCs <=> owner[c] # None

\* Threads and coroutines agree at every switch between them: ResumeFindsSuspended and
\* CurrentIsRunning.
SwitchesInStep == ResumeFindsSuspended /\ CurrentIsRunning

\* The frame a handler writes into is there, and has been written when it is read:
\* NoDanglingCapture and ResultWritten.
FrameInStep == NoDanglingCapture /\ ResultWritten

\* After cancel() a call waits for the peer only if its operation is made of
\* several steps and cancel() fell between two of them.
CancelReaches ==
  \A c \in Coros : pc[c] \in {"opOff", "wait2"} /\ op[c] = "pending" => c \in Secure

\* Every call behaves as TimedCall says.
Call == INSTANCE TimedCall WITH calling <- [c \in Coros |-> pc[c] \in CallPCs]

ImplementsTimedCall == Call!CallSpec

\* A call returns once its timeout has elapsed, whatever the peer does and
\* however interrupt() races with the timer; the exception is the composed
\* operation whose cancel() was lost.
CancelLost(c) == /\ c \in Secure
                 /\ pc[c] = "wait2"
                 /\ op[c] = "pending"

CallReturns ==
  \A c \in Coros : pc[c] = "started" ~> (pc[c] = "run" \/ CancelLost(c))
=============================================================================
