------------------------------ MODULE FifoLock ------------------------------
(***************************************************************************)
(* What sync_lock / async_mutex promise to the coroutines that use them: a *)
(* lock granted in the order of the requests, to one coroutine at a time.  *)
(* AsyncMutex is shown to implement this module; the modules above the     *)
(* lock are written against it.                                            *)
(***************************************************************************)
EXTENDS Sequences

CONSTANTS Clients,   \* the coroutines that lock
          None       \* "nobody holds the lock"

ASSUME FifoLockAssumption == None \notin Clients

VARIABLES waiting,   \* requests not granted yet, oldest first
          holder     \* the coroutine the lock was granted to, or None

fifoVars == <<waiting, holder>>

FifoInit == waiting = <<>> /\ holder = None

Waits(c) == \E i \in DOMAIN waiting : waiting[i] = c

Request(c) == /\ ~Waits(c)
              /\ holder # c
              /\ waiting' = Append(waiting, c)
              /\ UNCHANGED holder

Grant == /\ holder = None
         /\ waiting # <<>>
         /\ holder' = Head(waiting)
         /\ waiting' = Tail(waiting)

Release(c) == /\ holder = c
              /\ holder' = None
              /\ UNCHANGED waiting

FifoNext == Grant \/ \E c \in Clients : Request(c) \/ Release(c)

FifoSpec == FifoInit /\ [][FifoNext]_fifoVars
=============================================================================
