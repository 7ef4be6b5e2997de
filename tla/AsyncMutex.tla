----------------------------- MODULE AsyncMutex -----------------------------
(***************************************************************************)
(* async_mutex_service.hpp with its only user, sync_lock.hpp.              *)
(*                                                                         *)
(* One service object exists per io_service and every async_mutex made on  *)
(* that io_service shares it: the implementation_type argument is ignored, *)
(* so the service is a single lock however many mutex objects there are.   *)
(* A dedicated thread (run) pops one queued lock operation, posts its      *)
(* callback to the io_service and then waits for unlock.  A client is a    *)
(* coroutine: it pushes an operation, notifies the thread, suspends, is    *)
(* resumed by the posted callback, and unlocks in ~sync_lock.              *)
(*                                                                         *)
(* Every critical section of the std::mutex is one action; the notify_one  *)
(* that follows it is an action of its own, because it is called with the  *)
(* mutex released and any thread may run in between.                       *)
(***************************************************************************)
EXTENDS Sequences, Naturals

CONSTANTS Clients,   \* coroutines that use sync_lock
          None       \* no operation

ASSUME AsyncMutexAssumption == None \notin Clients

VARIABLES
  pc,        \* pc[c]: where client c is in sync_lock
  queue,     \* queue_: operations not popped yet
  unlock,    \* unlock_
  shutdown,  \* shutdown_
  posted,    \* clients whose callback sits in the io_service queue
  svc,       \* where the service thread is in run()
  asleep,    \* the service thread is blocked inside cv_.wait
  op,        \* the local variable op of run(), or None
  closer     \* where the thread that destroys the io_service is

vars == <<pc, queue, unlock, shutdown, posted, svc, asleep, op, closer>>

ClientPCs == {"idle",       \* outside sync_lock
              "pushed",     \* operation queued, notify_one not called yet
              "suspended",  \* in sync.suspend()
              "holding",    \* between the constructor and the destructor
              "released"}   \* unlock_ set, notify_one not called yet

ServicePCs == {"waitOp", "invoke", "waitUnlock", "exited"}

CloserPCs == {"no", "flagged", "joining", "joined"}

TypeOK == /\ pc \in [Clients -> ClientPCs]
          /\ queue \in Seq(Clients)
          /\ unlock \in BOOLEAN
          /\ shutdown \in BOOLEAN
          /\ posted \in SUBSET Clients
          /\ svc \in ServicePCs
          /\ asleep \in BOOLEAN
          /\ op \in Clients \cup {None}
          /\ closer \in CloserPCs

Init == /\ pc = [c \in Clients |-> "idle"]
        /\ queue = <<>>
        /\ unlock = FALSE
        /\ shutdown = FALSE
        /\ posted = {}
        /\ svc = "waitOp"
        /\ asleep = FALSE
        /\ op = None
        /\ closer = "no"

\* The io threads run handlers until shutdown_service is called by the
\* io_service destructor, which main reaches after joining them.
Running == closer = "no"

-----------------------------------------------------------------------------
(* The client coroutine, run by some io thread. *)

\* Mutant of Lock: push_front instead of push_back.
LockAtFront(c) == /\ Running
                  /\ pc[c] = "idle"
                  /\ queue' = <<c>> \o queue
                  /\ pc' = [pc EXCEPT ![c] = "pushed"]
                  /\ UNCHANGED <<unlock, shutdown, posted, svc, asleep, op, closer>>

\* async_lock: the operation is pushed under mutex_.
Lock(c) == /\ Running
           /\ pc[c] = "idle"
           /\ queue' = Append(queue, c)
           /\ pc' = [pc EXCEPT ![c] = "pushed"]
           /\ UNCHANGED <<unlock, shutdown, posted, svc, asleep, op, closer>>

\* Mutant of LockNotify: async_lock does not call notify_one.
LockForgetsNotify(c) == /\ pc[c] = "pushed"
                        /\ UNCHANGED asleep
                        /\ pc' = [pc EXCEPT ![c] = "suspended"]
                        /\ UNCHANGED <<queue, unlock, shutdown, posted, svc, op, closer>>

\* async_lock: cv_.notify_one(), then sync_lock suspends the coroutine.  The
\* service thread is the only waiter, so a notification can reach nobody else.
LockNotify(c) == /\ pc[c] = "pushed"
                 /\ asleep' = FALSE
                 /\ pc' = [pc EXCEPT ![c] = "suspended"]
                 /\ UNCHANGED <<queue, unlock, shutdown, posted, svc, op, closer>>

\* An io thread runs the posted callback: sync.resume().  It blocks on the
\* coroutine's own mutex until the coroutine has suspended.
Resume(c) == /\ Running
             /\ c \in posted
             /\ pc[c] = "suspended"
             /\ posted' = posted \ {c}
             /\ pc' = [pc EXCEPT ![c] = "holding"]
             /\ UNCHANGED <<queue, unlock, shutdown, svc, asleep, op, closer>>

\* ~sync_lock: unlock_ = true under mutex_, from the coroutine or, when the
\* coroutine is destroyed while it holds the lock, from the unwinding thread.
Unlock(c) == /\ pc[c] = "holding"
             /\ Running
             /\ unlock' = TRUE
             /\ pc' = [pc EXCEPT ![c] = "released"]
             /\ UNCHANGED <<queue, shutdown, posted, svc, asleep, op, closer>>

UnlockNotify(c) == /\ pc[c] = "released"
                   /\ asleep' = FALSE
                   /\ pc' = [pc EXCEPT ![c] = "idle"]
                   /\ UNCHANGED <<queue, unlock, shutdown, posted, svc, op, closer>>

-----------------------------------------------------------------------------
(* The service thread: run(). *)

\* The predicates of the two cv_.wait calls.
OpWaitDone     == shutdown \/ queue # <<>>
UnlockWaitDone == shutdown \/ unlock

\* cv_.wait finds its predicate false and blocks, releasing mutex_.
Sleep == /\ ~asleep
         /\ \/ svc = "waitOp" /\ ~OpWaitDone
            \/ svc = "waitUnlock" /\ ~UnlockWaitDone
         /\ asleep' = TRUE
         /\ UNCHANGED <<pc, queue, unlock, shutdown, posted, svc, op, closer>>

\* A condition variable may also wake for no reason.
SpuriousWake == /\ asleep
                /\ asleep' = FALSE
                /\ UNCHANGED <<pc, queue, unlock, shutdown, posted, svc, op, closer>>

\* Mutant of PopOp: no pop_front.
PopKeepsOp == /\ svc = "waitOp" /\ ~asleep
              /\ ~shutdown
              /\ queue # <<>>
              /\ op' = Head(queue)
              /\ queue' = queue
              /\ svc' = "invoke"
              /\ UNCHANGED <<pc, unlock, shutdown, posted, asleep, closer>>

PopOp == /\ svc = "waitOp" /\ ~asleep
         /\ ~shutdown
         /\ queue # <<>>
         /\ op' = Head(queue)
         /\ queue' = Tail(queue)
         /\ svc' = "invoke"
         /\ UNCHANGED <<pc, unlock, shutdown, posted, asleep, closer>>

\* op->invoke(): the callback is posted with mutex_ released.
Invoke == /\ svc = "invoke"
          /\ posted' = posted \cup {op}
          /\ svc' = "waitUnlock"
          /\ UNCHANGED <<pc, queue, unlock, shutdown, asleep, op, closer>>

\* unlock_ = false; the loop body ends and op is destroyed.
TakeUnlock == /\ svc = "waitUnlock" /\ ~asleep
              /\ ~shutdown
              /\ unlock
              /\ unlock' = FALSE
              /\ op' = None
              /\ svc' = "waitOp"
              /\ UNCHANGED <<pc, queue, shutdown, posted, asleep, closer>>

\* Mutant of ServiceExit: the second wait does not look at shutdown_.
ServiceExitFirstOnly == /\ svc = "waitOp" /\ ~asleep
                        /\ shutdown
                        /\ svc' = "exited"
                        /\ op' = None
                        /\ UNCHANGED <<pc, queue, unlock, shutdown, posted, asleep, closer>>

\* Either break, which also destroys op.
ServiceExit == /\ svc \in {"waitOp", "waitUnlock"} /\ ~asleep
               /\ shutdown
               /\ svc' = "exited"
               /\ op' = None
               /\ UNCHANGED <<pc, queue, unlock, shutdown, posted, asleep, closer>>

-----------------------------------------------------------------------------
(* shutdown_service, called by the destructor of the io_service: no handler *)
(* is half way through (a handler returns before run() does).               *)

ShutdownFlag == /\ closer = "no"
                /\ \A c \in Clients : pc[c] \notin {"pushed", "released"}
                /\ shutdown' = TRUE
                /\ closer' = "flagged"
                /\ UNCHANGED <<pc, queue, unlock, posted, svc, asleep, op>>

ShutdownNotify == /\ closer = "flagged"
                  /\ asleep' = FALSE
                  /\ closer' = "joining"
                  /\ UNCHANGED <<pc, queue, unlock, shutdown, posted, svc, op>>

ShutdownJoin == /\ closer = "joining"
                /\ svc = "exited"
                /\ closer' = "joined"
                /\ UNCHANGED <<pc, queue, unlock, shutdown, posted, svc, asleep, op>>

-----------------------------------------------------------------------------
ClientStep(c) == \/ Lock(c) \/ LockNotify(c) \/ Resume(c)
                 \/ Unlock(c) \/ UnlockNotify(c)

ServiceStep == Sleep \/ SpuriousWake \/ PopOp \/ Invoke \/ TakeUnlock \/ ServiceExit

CloserStep == ShutdownFlag \/ ShutdownNotify \/ ShutdownJoin

\* Everything has stopped: the io_service is gone.
Terminated == closer = "joined" /\ UNCHANGED vars

Next == (\E c \in Clients : ClientStep(c)) \/ ServiceStep \/ CloserStep \/ Terminated

\* The threads are scheduled and a critical section ends.  Nothing obliges a
\* client to lock, a condition variable to wake without a notification, or
\* the program to end.
Fairness == /\ \A c \in Clients : /\ WF_vars(LockNotify(c))
                                 /\ WF_vars(Resume(c))
                                 /\ WF_vars(Unlock(c))
                                 /\ WF_vars(UnlockNotify(c))
            /\ WF_vars(PopOp) /\ WF_vars(Invoke)
            /\ WF_vars(TakeUnlock) /\ WF_vars(ServiceExit)
            /\ WF_vars(ShutdownNotify) /\ WF_vars(ShutdownJoin)

Spec == Init /\ [][Next]_vars

FairSpec == Spec /\ Fairness

-----------------------------------------------------------------------------
(* Properties *)

\* At most one coroutine is between the constructor and the destructor of a
\* sync_lock (sync_lock.hpp:12-28), whatever the interleaving of the pushes,
\* the posted callbacks and the service thread.
MutualExclusion == \A c, d \in Clients :
                      pc[c] = "holding" /\ pc[d] = "holding" => c = d

\* BOOST_ASSERT(!unlock_) in unlock() (async_mutex_service.hpp:44): whenever
\* a client is about to unlock, the service thread has consumed every
\* earlier unlock.
UnlockAssert == \A c \in Clients : pc[c] = "holding" => ~unlock

\* A callback that was posted resumes a coroutine that is suspended in the
\* sync_lock constructor or on its way there: never one that runs, holds the
\* lock or has left (the callback captures the constructor's frame).
CallbackFindsWaiter == \A c \in posted : pc[c] \in {"pushed", "suspended"}

\* The service thread never sleeps on a condition that already holds unless
\* whoever made it true has still to call notify_one.
NoLostWakeup ==
  asleep => /\ svc = "waitOp" /\ queue # <<>>
               => \E c \in Clients : pc[c] = "pushed"
            /\ svc = "waitUnlock" /\ unlock
               => \E c \in Clients : pc[c] = "released"
            /\ shutdown => closer = "flagged"

\* Lock, service thread and callbacks agree on who holds the lock and on who will wake whom: all
\* of the above.
LockSafety == MutualExclusion /\ UnlockAssert /\ CallbackFindsWaiter /\ NoLostWakeup

\* The lock is FIFO: the holder is the operation the thread has popped, until
\* it is unlocked.  At shutdown the thread drops the operation it waits for.
Fifo == INSTANCE FifoLock WITH waiting <- queue,
                               holder <- IF unlock THEN None ELSE op

ImplementsFifoLock == Fifo!FifoSpec

\* Every request is granted, unless the io_service goes away first: no
\* notification is lost and no unlock is mistaken for a later one.
LockGranted == \A c \in Clients :
                 pc[c] = "pushed" ~> (pc[c] = "holding" \/ closer # "no")

\* The destructor of the io_service returns: the service thread sees
\* shutdown_ wherever it waits (async_mutex_service.hpp:90-100).
ShutdownReturns == closer = "flagged" ~> closer = "joined"
=============================================================================
