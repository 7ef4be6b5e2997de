------------------------ MODULE ContentAndMutexProofs -----------------------
(***************************************************************************)
(* Proofs about AsyncMutex, for any set of clients: type correctness, the  *)
(* four safety invariants and the refinement of FifoLock; and about        *)
(* Content, which shares nothing with it: a directory of any shape is      *)
(* loaded as it is, or the load throws for a path that is asked for twice; *)
(* a request finds the regex content it should; a static content is served *)
(* in its smallest encoding and confirmed only to those who have it.       *)
(***************************************************************************)
EXTENDS Content, AsyncMutex, SequenceTheorems, FiniteSetTheorems, WellFoundedInduction, TLAPS

(***************************************************************************)
(* The inductive invariant.  MutualExclusion and UnlockAssert are not      *)
(* inductive: they rest on how the service thread's position, the popped   *)
(* operation, unlock_ and the posted callbacks fit together.               *)
(***************************************************************************)

Locking(c) == pc[c] \in {"pushed", "suspended"}

\* Queued operations belong to distinct coroutines, all of them waiting and
\* none of them served yet.  (Once unlocked, the coroutine last served may ask
\* again before the service thread has taken the unlock.)
QueueOK == /\ \A i, j \in 1 .. Len(queue) : queue[i] = queue[j] => i = j
           /\ \A i \in 1 .. Len(queue) : /\ Locking(queue[i])
                                         /\ queue[i] \notin posted
                                         /\ ~unlock => queue[i] # op

\* What the service thread's position says of op, posted and unlock_.
ServiceOK ==
  /\ svc = "waitOp" => op = None /\ posted = {} /\ ~unlock
  /\ svc = "invoke" => /\ op \in Clients
                       /\ Locking(op)
                       /\ posted = {}
                       /\ ~unlock
                       /\ ~asleep
  /\ svc = "waitUnlock" => op \in Clients
  /\ svc = "waitUnlock" /\ ~unlock => \/ op \in posted
                                      \/ pc[op] = "holding"
  /\ svc = "exited" => shutdown /\ op = None /\ ~asleep

\* Before the service thread exits, the lock belongs to the operation it
\* serves and to nobody else.
HolderOK == /\ \A c \in Clients :
                 pc[c] = "holding" => /\ ~unlock
                                      /\ svc # "exited" => /\ svc = "waitUnlock"
                                                           /\ op = c
            /\ \A c \in posted : /\ ~unlock
                                 /\ Locking(c)
                                 /\ svc # "exited" => /\ svc = "waitUnlock"
                                                      /\ op = c

ShutdownOK == /\ shutdown <=> closer # "no"
              /\ shutdown => \A c \in Clients : pc[c] \notin {"pushed", "released"}

IInv == /\ TypeOK
        /\ QueueOK
        /\ ServiceOK
        /\ HolderOK
        /\ ShutdownOK
        /\ MutualExclusion
        /\ NoLostWakeup

-----------------------------------------------------------------------------
LEMMA InitIInv == Init => IInv
<1> SUFFICES ASSUME Init PROVE IInv
  OBVIOUS
<1> USE DEF Init
<1>1. TypeOK
  <2>1. queue \in Seq(Clients)
    OBVIOUS
  <2>2. pc \in [Clients -> ClientPCs]
    BY DEF ClientPCs
  <2>3. posted \in SUBSET Clients /\ op \in Clients \cup {None}
    OBVIOUS
  <2> QED BY <2>1, <2>2, <2>3 DEF TypeOK, ServicePCs, CloserPCs
<1>2. QueueOK
  BY DEF QueueOK
<1>3. ServiceOK /\ HolderOK
  BY DEF ServiceOK, HolderOK
<1>4. ShutdownOK /\ MutualExclusion /\ NoLostWakeup
  BY DEF ShutdownOK, MutualExclusion, NoLostWakeup
<1> QED BY <1>1, <1>2, <1>3, <1>4 DEF IInv

\* Each step of a client preserves the invariant.
LEMMA ClientStepIInv ==
  ASSUME IInv, NEW c \in Clients, ClientStep(c)
  PROVE  IInv'
<1> USE AsyncMutexAssumption
    DEF IInv, TypeOK, ClientPCs, ServicePCs, CloserPCs
<1>1. CASE Lock(c)
  <2> USE <1>1 DEF Lock
  <2>1. Len(queue') = Len(queue) + 1
    OBVIOUS
  <2>2. \A i \in 1 .. Len(queue) : queue'[i] = queue[i] /\ queue[i] # c
    BY DEF QueueOK, Locking
  <2>3. queue'[Len(queue) + 1] = c
    OBVIOUS
  <2>4. c \notin posted /\ (~unlock => op # c)
    BY DEF HolderOK, ServiceOK, Locking, Running, ShutdownOK
  <2>5. TypeOK'
    OBVIOUS
  <2>6. QueueOK'
    BY <2>1, <2>2, <2>3, <2>4 DEF QueueOK, Locking
  <2>7. ServiceOK' /\ HolderOK'
    BY DEF ServiceOK, HolderOK, Locking
  <2>8. ShutdownOK' /\ MutualExclusion' /\ NoLostWakeup'
    BY DEF ShutdownOK, Running, MutualExclusion, NoLostWakeup
  <2> QED BY <2>5, <2>6, <2>7, <2>8
<1>2. CASE LockNotify(c)
  <2> USE <1>2 DEF LockNotify
  <2>1. QueueOK'
    BY DEF QueueOK, Locking
  <2>2. ServiceOK' /\ HolderOK'
    BY DEF ServiceOK, HolderOK, Locking
  <2>3. ShutdownOK' /\ MutualExclusion' /\ NoLostWakeup'
    BY DEF ShutdownOK, MutualExclusion, NoLostWakeup
  <2> QED BY <2>1, <2>2, <2>3
<1>3. CASE Resume(c)
  <2> USE <1>3 DEF Resume
  <2>1. ~shutdown /\ svc = "waitUnlock" /\ op = c /\ ~unlock
    BY DEF ShutdownOK, Running, HolderOK, ServiceOK
  <2>2. QueueOK'
    BY <2>1 DEF QueueOK, Locking
  <2>3. ServiceOK' /\ HolderOK'
    BY <2>1 DEF ServiceOK, HolderOK, Locking
  <2>4. ShutdownOK' /\ MutualExclusion'
    BY <2>1 DEF ShutdownOK, MutualExclusion, HolderOK
  <2>5. NoLostWakeup'
    BY <2>1 DEF NoLostWakeup
  <2> QED BY <2>2, <2>3, <2>4, <2>5
<1>4. CASE Unlock(c)
  <2> USE <1>4 DEF Unlock
  <2>1. ~shutdown /\ svc = "waitUnlock" /\ op = c
    BY DEF ShutdownOK, Running, HolderOK, ServiceOK
  <2>2. \A d \in Clients : pc[d] = "holding" => d = c
    BY DEF MutualExclusion
  <2>3. posted = {}
    BY <2>1 DEF HolderOK, Locking
  <2>4. QueueOK'
    BY DEF QueueOK, Locking
  <2>5. ServiceOK' /\ HolderOK'
    BY <2>1, <2>2, <2>3 DEF ServiceOK, HolderOK, Locking
  <2>6. ShutdownOK' /\ MutualExclusion' /\ NoLostWakeup'
    BY <2>1, <2>2 DEF ShutdownOK, MutualExclusion, NoLostWakeup
  <2> QED BY <2>4, <2>5, <2>6
<1>5. CASE UnlockNotify(c)
  <2> USE <1>5 DEF UnlockNotify
  <2>1. QueueOK'
    BY DEF QueueOK, Locking
  <2>2. ServiceOK' /\ HolderOK'
    BY DEF ServiceOK, HolderOK, Locking
  <2>3. ShutdownOK' /\ MutualExclusion' /\ NoLostWakeup'
    BY DEF ShutdownOK, MutualExclusion, NoLostWakeup
  <2> QED BY <2>1, <2>2, <2>3
<1> QED BY <1>1, <1>2, <1>3, <1>4, <1>5 DEF ClientStep

\* Each step of the service thread preserves the invariant.
LEMMA ServiceStepIInv ==
  ASSUME IInv, ServiceStep
  PROVE  IInv'
<1> USE AsyncMutexAssumption
    DEF IInv, TypeOK, ClientPCs, ServicePCs, CloserPCs
<1>1. CASE Sleep
  BY <1>1 DEF Sleep, QueueOK, ServiceOK, HolderOK, ShutdownOK, Locking,
              MutualExclusion, NoLostWakeup, OpWaitDone, UnlockWaitDone
<1>2. CASE SpuriousWake
  BY <1>2 DEF SpuriousWake, QueueOK, ServiceOK, HolderOK, ShutdownOK, Locking,
              MutualExclusion, NoLostWakeup
<1>3. CASE PopOp
  <2> USE <1>3 DEF PopOp
  <2>1. Len(queue) > 0 /\ Len(queue') = Len(queue) - 1 /\ op' = queue[1]
    OBVIOUS
  <2>2. \A i \in 1 .. Len(queue') : i + 1 \in 1 .. Len(queue) /\ queue'[i] = queue[i + 1]
    OBVIOUS
  <2>3. op' \in Clients /\ Locking(op') /\ posted = {} /\ ~unlock
    BY <2>1 DEF QueueOK, ServiceOK
  <2>4. TypeOK'
    BY <2>1
  <2>5. QueueOK'
    <3>1. \A i, j \in 1 .. Len(queue') : queue'[i] = queue'[j] => i = j
      BY <2>1, <2>2 DEF QueueOK
    <3>2. \A i \in 1 .. Len(queue') : Locking(queue'[i]) /\ queue'[i] # op'
      BY <2>1, <2>2 DEF QueueOK
    <3> QED BY <3>1, <3>2, <2>3 DEF QueueOK, Locking
  <2>6. ServiceOK' /\ HolderOK'
    BY <2>3 DEF ServiceOK, HolderOK, Locking
  <2>7. ShutdownOK' /\ MutualExclusion' /\ NoLostWakeup'
    BY DEF ShutdownOK, MutualExclusion, NoLostWakeup
  <2> QED BY <2>4, <2>5, <2>6, <2>7
<1>4. CASE Invoke
  BY <1>4 DEF Invoke, QueueOK, ServiceOK, HolderOK, ShutdownOK, Locking,
              MutualExclusion, NoLostWakeup
<1>5. CASE TakeUnlock
  <2> USE <1>5 DEF TakeUnlock
  <2>1. posted = {} /\ \A c \in Clients : pc[c] # "holding"
    BY DEF HolderOK
  <2>2. QueueOK'
    BY <2>1 DEF QueueOK, Locking
  <2>3. ServiceOK' /\ HolderOK'
    BY <2>1 DEF ServiceOK, HolderOK, Locking
  <2>4. ShutdownOK' /\ MutualExclusion' /\ NoLostWakeup'
    BY DEF ShutdownOK, MutualExclusion, NoLostWakeup
  <2> QED BY <2>2, <2>3, <2>4
<1>6. CASE ServiceExit
  <2> USE <1>6 DEF ServiceExit
  <2>1. QueueOK'
    BY DEF QueueOK, Locking
  <2>2. ServiceOK' /\ HolderOK'
    BY DEF ServiceOK, HolderOK, Locking
  <2>3. ShutdownOK' /\ MutualExclusion' /\ NoLostWakeup'
    BY DEF ShutdownOK, MutualExclusion, NoLostWakeup
  <2> QED BY <2>1, <2>2, <2>3
<1> QED BY <1>1, <1>2, <1>3, <1>4, <1>5, <1>6 DEF ServiceStep

\* Each step of the thread that destroys the io_service preserves it.
LEMMA CloserStepIInv ==
  ASSUME IInv, CloserStep
  PROVE  IInv'
<1> USE DEF IInv, TypeOK, CloserPCs
<1>1. QueueOK' /\ ServiceOK' /\ HolderOK'
  BY DEF CloserStep, ShutdownFlag, ShutdownNotify, ShutdownJoin,
         QueueOK, ServiceOK, HolderOK, Locking
<1>2. ShutdownOK' /\ MutualExclusion' /\ NoLostWakeup'
  <2>1. CASE ShutdownFlag
    BY <2>1 DEF ShutdownFlag, ShutdownOK, MutualExclusion, NoLostWakeup
  <2>2. CASE ShutdownNotify
    BY <2>2 DEF ShutdownNotify, ShutdownOK, MutualExclusion, NoLostWakeup
  <2>3. CASE ShutdownJoin
    BY <2>3 DEF ShutdownJoin, ShutdownOK, MutualExclusion, NoLostWakeup, ServiceOK
  <2> QED BY <2>1, <2>2, <2>3 DEF CloserStep
<1> QED BY <1>1, <1>2 DEF CloserStep, ShutdownFlag, ShutdownNotify, ShutdownJoin

LEMMA StutterIInv ==
  ASSUME IInv, UNCHANGED vars
  PROVE  IInv'
  BY DEF vars, IInv, TypeOK, QueueOK, ServiceOK, HolderOK, ShutdownOK, Locking,
         MutualExclusion, NoLostWakeup

LEMMA NextIInv == IInv /\ [Next]_vars => IInv'
  BY ClientStepIInv, ServiceStepIInv, CloserStepIInv, StutterIInv
  DEF Next, Terminated

\* The strengthened invariant holds in every reachable state.
THEOREM Invariance == Spec => []IInv
  BY InitIInv, NextIInv, PTL DEF Spec

\* Type correctness of the lock service (async_mutex_service.hpp:133-140).
THEOREM TypeCorrect == Spec => []TypeOK
  BY Invariance, PTL DEF IInv

\* For any number of coroutines, at most one is inside a sync_lock
\* (sync_lock.hpp:12-28).
THEOREM Mutex == Spec => []MutualExclusion
  BY Invariance, PTL DEF IInv

\* For any number of coroutines, BOOST_ASSERT(!unlock_) at
\* async_mutex_service.hpp:44 never fails.
THEOREM AssertHolds == Spec => []UnlockAssert
<1>1. IInv => UnlockAssert
  BY DEF IInv, HolderOK, UnlockAssert
<1> QED BY <1>1, Invariance, PTL

\* For any number of coroutines, a posted callback finds its coroutine
\* waiting in the sync_lock constructor (sync_lock.hpp:17-22).
THEOREM CallbackSafe == Spec => []CallbackFindsWaiter
<1>1. IInv => CallbackFindsWaiter
  BY DEF IInv, HolderOK, Locking, CallbackFindsWaiter
<1> QED BY <1>1, Invariance, PTL

\* For any number of coroutines, no notification is lost
\* (async_mutex_service.hpp:111 and :124).
THEOREM WakeupSafe == Spec => []NoLostWakeup
  BY Invariance, PTL DEF IInv

-----------------------------------------------------------------------------
(* Refinement of FifoLock. *)

LEMMA FifoInitStep == Init => Fifo!FifoInit
  BY DEF Init, Fifo!FifoInit

LEMMA FifoNextStep ==
  ASSUME IInv, [Next]_vars
  PROVE  [Fifo!FifoNext]_(Fifo!fifoVars)
<1> USE AsyncMutexAssumption
    DEF IInv, Fifo!fifoVars, Fifo!FifoNext
<1>1. ASSUME NEW c \in Clients, Lock(c)
      PROVE  Fifo!Request(c)
  <2>1. ~unlock => op # c
    BY <1>1 DEF Lock, HolderOK, ServiceOK, Locking, Running, ShutdownOK,
                TypeOK, ServicePCs
  <2>2. ~Fifo!Waits(c)
    <3>1. \A i \in 1 .. Len(queue) : queue[i] # c
      BY <1>1 DEF Lock, QueueOK, Locking
    <3> QED BY <3>1 DEF Fifo!Waits, TypeOK
  <2> QED BY <1>1, <2>1, <2>2 DEF Lock, Fifo!Request
<1>2. ASSUME NEW c \in Clients, Unlock(c)
      PROVE  Fifo!Release(c)
  <2>1. op = c /\ ~unlock
    BY <1>2 DEF Unlock, HolderOK, ServiceOK, Running, ShutdownOK
  <2> QED BY <1>2, <2>1 DEF Unlock, Fifo!Release
<1>3. ASSUME NEW c \in Clients, LockNotify(c) \/ Resume(c) \/ UnlockNotify(c)
      PROVE  UNCHANGED Fifo!fifoVars
  BY <1>3 DEF LockNotify, Resume, UnlockNotify
<1>4. ASSUME PopOp
      PROVE  Fifo!Grant
  BY <1>4 DEF PopOp, ServiceOK, Fifo!Grant
<1>5. ASSUME Sleep \/ SpuriousWake \/ Invoke
      PROVE  UNCHANGED Fifo!fifoVars
  BY <1>5 DEF Sleep, SpuriousWake, Invoke
<1>6. ASSUME TakeUnlock
      PROVE  UNCHANGED Fifo!fifoVars
  BY <1>6 DEF TakeUnlock
<1>7. ASSUME ServiceExit
      PROVE  \/ UNCHANGED Fifo!fifoVars
             \/ \E c \in Clients : Fifo!Release(c)
  BY <1>7 DEF ServiceExit, ServiceOK, TypeOK, Fifo!Release
<1>8. ASSUME CloserStep
      PROVE  UNCHANGED Fifo!fifoVars
  BY <1>8 DEF CloserStep, ShutdownFlag, ShutdownNotify, ShutdownJoin
<1>9. ASSUME UNCHANGED vars
      PROVE  UNCHANGED Fifo!fifoVars
  BY <1>9 DEF vars
<1> QED BY <1>1, <1>2, <1>3, <1>4, <1>5, <1>6, <1>7, <1>8, <1>9
        DEF Next, ClientStep, ServiceStep, Terminated

\* For any number of coroutines the service implements a FIFO lock: every step
\* of the pushes, the service thread and the shutdown is a step of FifoLock or
\* leaves the abstract lock unchanged.
THEOREM RefinesFifoLock == Spec => ImplementsFifoLock
  BY Invariance, FifoInitStep, FifoNextStep, PTL
  DEF Spec, ImplementsFifoLock, Fifo!FifoSpec

\* For any number of coroutines the lock excludes, its assertion holds, and neither a callback nor
\* a notification comes to nobody.
THEOREM LockIsSafe == Spec => []LockSafety
  BY Mutex, AssertHolds, CallbackSafe, WakeupSafe, PTL DEF LockSafety


(***************************************************************************)
(* The tree. While a directory is loaded, the frames hold what waits:      *)
(* files and directories not yet taken (Waiting, Todo). UnderWay says that *)
(* the contents are what the tree claims of the rest, that an index so far *)
(* is the best of the files taken (Indexed), and that the directories      *)
(* under way lie in one another, so that nothing is loaded twice (Nested). *)
(* When the last frame goes, nothing waits and everything is there         *)
(* (AllIn); when a path is taken, two contents claim it (Collision).       *)
(***************************************************************************)
tree == w1
omit == w2
contentMap == w3
regexMap == w4
managed == w5
frames == w6
state == w7
path == w8
found == w9

USE DEF tree, omit, contentMap, regexMap, managed, frames, state, path, found

\* The least number of a set.
LEMMA Least == ASSUME NEW T \in SUBSET Nat, T # {} PROVE \E x \in T : \A y \in T : x <= y
<1>1. PICK x \in T : \A y \in T : ~ (<<y, x>> \in OpToRel(<, Nat))
  BY WFMin, NatLessThanWellFounded
<1>2. ASSUME NEW y \in T PROVE x <= y
  <2>1. <<y, x>> \notin OpToRel(<, Nat)
    BY <1>1
  <2>2. y \in Nat /\ x \in Nat
    OBVIOUS
  <2>3. ~(y < x)
    BY <2>1, <2>2, Zenon DEF OpToRel
  <2> QED BY <2>2, <2>3
<1> QED BY <1>2

\* A path is a sequence of separators and names.
PathSeqs == Seq(STRING)
\* A path leads to or through a directory.
Under(d, x) == Len(d) <= Len(x) /\ \A i \in 1 .. Len(d) : d[i] = x[i]

\* The first pieces of a path.
LEMMA Pieces == ASSUME NEW p \in PathSeqs, NEW n \in 0 .. Len(p)
                PROVE  /\ SubSeq(p, 1, n) \in PathSeqs /\ Len(SubSeq(p, 1, n)) = n
                       /\ \A i \in 1 .. n : SubSeq(p, 1, n)[i] = p[i]
<1>1. Len(p) \in Nat
  BY LenProperties DEF PathSeqs
<1>2. \A i \in 1 .. n : p[i] \in STRING
  <2>1. \A i \in 1 .. Len(p) : p[i] \in STRING
    BY ElementOfSeq DEF PathSeqs
  <2> QED BY <1>1, <2>1
<1>3. 1 \in Int /\ n \in Int
  BY <1>1
<1> DEFINE q == SubSeq(p, 1, n)
<1>4. /\ q \in Seq(STRING) /\ Len(q) = IF 1 <= n THEN n - 1 + 1 ELSE 0
      /\ \A i \in 1 .. n - 1 + 1 : q[i] = p[1 + i - 1]
  BY <1>2, <1>3, SubSeqProperties
<1> HIDE DEF q
<1>5. Len(q) = n /\ \A i \in 1 .. n : q[i] = p[i]
  BY <1>1, <1>4
<1> QED BY <1>4, <1>5 DEF q, PathSeqs

\* Paths with the same pieces are equal.
LEMMA SamePath == ASSUME NEW p \in PathSeqs, NEW q \in PathSeqs, Len(p) = Len(q), \A i \in 1 .. Len(p) : p[i] = q[i]
                  PROVE  p = q
BY SeqEqual DEF PathSeqs

\* How long a path is.
LEMMA PathLengths == ASSUME NEW p \in PathSeqs PROVE Len(p) \in Nat /\ DOMAIN p = 1 .. Len(p)
BY LenProperties DEF PathSeqs

\* A prefix in the sense of the community modules is a path above.
LEMMA PrefixUnder == ASSUME NEW d \in PathSeqs, NEW x \in PathSeqs
                     PROVE  Tree!IsPrefix(d, x) <=> Under(d, x)
<1>1. Len(d) \in Nat /\ Len(x) \in Nat
  BY PathLengths
<1>2. CASE Len(d) <= Len(x)
  <2> DEFINE a == SubSeq(d, 1, Len(d))
             b == SubSeq(x, 1, Len(d))
  <2>1. Len(d) \in 0 .. Len(d) /\ Len(d) \in 0 .. Len(x)
    BY <1>1, <1>2
  <2>2. a \in PathSeqs /\ Len(a) = Len(d) /\ \A i \in 1 .. Len(d) : a[i] = d[i]
    BY <2>1, Pieces
  <2>3. b \in PathSeqs /\ Len(b) = Len(d) /\ \A i \in 1 .. Len(d) : b[i] = x[i]
    BY <2>1, Pieces
  <2> HIDE DEF a, b
  <2>4. (\A i \in 1 .. Len(d) : d[i] = x[i]) => a = b
    <3> SUFFICES ASSUME \A i \in 1 .. Len(d) : d[i] = x[i] PROVE a = b
      OBVIOUS
    <3>1. \A i \in 1 .. Len(a) : a[i] = b[i]
      BY <2>2, <2>3, Zenon
    <3> QED BY <2>2, <2>3, <3>1, SamePath, Zenon
  <2>5. a = b => \A i \in 1 .. Len(d) : d[i] = x[i]
    BY <2>2, <2>3, Zenon
  <2> QED BY <1>2, <2>4, <2>5, Zenon DEF Tree!IsPrefix, Under, a, b
<1> QED BY <1>2, Zenon DEF Tree!IsPrefix, Under

\* The order of paths: reflexive,
LEMMA UnderSelf == ASSUME NEW x \in PathSeqs PROVE Under(x, x)
BY PathLengths DEF Under

\* of two directories above a path one is above the other,
LEMMA UnderBoth == ASSUME NEW d \in PathSeqs, NEW e \in PathSeqs, NEW x \in PathSeqs, Under(d, x), Under(e, x)
                   PROVE  Under(d, e) \/ Under(e, d)
<1>1. Len(d) \in Nat /\ Len(e) \in Nat
  BY PathLengths
<1>2. (\A i \in 1 .. Len(d) : d[i] = x[i]) /\ \A i \in 1 .. Len(e) : e[i] = x[i]
  BY DEF Under
<1>3. CASE Len(d) <= Len(e)
  <2>1. \A i \in 1 .. Len(d) : i \in 1 .. Len(e)
    BY <1>1, <1>3
  <2> QED BY <1>2, <1>3, <2>1, Zenon DEF Under
<1>4. CASE Len(e) <= Len(d)
  <2>1. \A i \in 1 .. Len(e) : i \in 1 .. Len(d)
    BY <1>1, <1>4
  <2> QED BY <1>2, <1>4, <2>1, Zenon DEF Under
<1> QED BY <1>1, <1>3, <1>4

\* transitive,
LEMMA UnderTransitive == ASSUME NEW d \in PathSeqs, NEW e \in PathSeqs, NEW x \in PathSeqs, Under(d, e), Under(e, x)
                         PROVE  Under(d, x)
<1>1. Len(d) \in Nat /\ Len(e) \in Nat /\ Len(x) \in Nat
  BY PathLengths
<1>2. Len(d) <= Len(e) /\ Len(e) <= Len(x)
  BY DEF Under
<1>3. Len(d) <= Len(x) /\ \A i \in 1 .. Len(d) : i \in 1 .. Len(e)
  BY <1>1, <1>2
<1>4. (\A i \in 1 .. Len(d) : d[i] = e[i]) /\ \A i \in 1 .. Len(e) : e[i] = x[i]
  BY DEF Under
<1> QED BY <1>3, <1>4, Zenon DEF Under

\* and antisymmetric.
LEMMA UnderSame == ASSUME NEW d \in PathSeqs, NEW x \in PathSeqs, Under(d, x), Len(d) = Len(x) PROVE d = x
BY SamePath DEF Under

\* Directories.
Dir(d) == Tree!Directory(d)

\* What a directory looks like.
LEMMA DirIs == ASSUME NEW d, Dir(d)
               PROVE  /\ d \in PathSeqs /\ Len(d) \in Nat /\ Len(d) % 2 = 1 /\ Len(d) >= 1
                      /\ \A i \in 1 .. Len(d) : d[i] = "/" <=> i % 2 = 1
<1>1. d \in PathSeqs /\ Len(d) % 2 = 1 /\ \A i \in DOMAIN d : d[i] = "/" <=> i % 2 = 1
  BY DEF Dir, Tree!Directory, PathSeqs
<1>2. Len(d) \in Nat /\ DOMAIN d = 1 .. Len(d)
  BY <1>1, PathLengths
<1>3. Len(d) >= 1
  <2> DEFINE n == Len(d)
  <2>1. n \in Nat /\ n % 2 = 1
    BY <1>1, <1>2
  <2> HIDE DEF n
  <2>2. n >= 1
    BY <2>1
  <2> QED BY <2>2 DEF n
<1> QED BY <1>1, <1>2, <1>3

\* The root is above all directories.
LEMMA RootIs == Dir(Tree!Root) /\ \A x : Dir(x) => Under(Tree!Root, x)
<1>1. Tree!Root \in PathSeqs /\ Len(Tree!Root) = 1 /\ Tree!Root[1] = "/"
  <2>1. Tree!Root \in Seq(STRING)
    BY ContentAssumption DEF Tree!DirectoryAssumption
  <2>2. Len(<<"/">>) = 1 /\ <<"/">>[1] = "/"
    OBVIOUS
  <2> QED BY <2>1, <2>2 DEF Tree!Root, PathSeqs
<1>2. Dir(Tree!Root)
  <2>1. DOMAIN Tree!Root = 1 .. 1
    BY <1>1, PathLengths
  <2>2. \A i \in DOMAIN Tree!Root : Tree!Root[i] = "/" <=> i % 2 = 1
    BY <1>1, <2>1
  <2> QED BY <1>1, <2>2 DEF Dir, Tree!Directory, PathSeqs
<1>3. ASSUME NEW x, Dir(x) PROVE Under(Tree!Root, x)
  <2>1. Len(x) \in Nat /\ Len(x) >= 1 /\ (x[1] = "/" <=> 1 % 2 = 1)
    BY <1>3, DirIs
  <2> HIDE DEF Dir
  <2> QED BY <1>1, <2>1 DEF Under
<1> QED BY <1>2, <1>3

\* The directory on the way from one to another below it.
LEMMA Below == ASSUME NEW d, NEW x, Dir(d), Dir(x), Under(d, x), Len(x) > Len(d)
               PROVE  LET e == SubSeq(x, 1, Len(d) + 2) IN
                      Dir(e) /\ Len(e) = Len(d) + 2 /\ Under(d, e) /\ Under(e, x)
<1> DEFINE n == Len(d)
           m == Len(x)
           e == SubSeq(x, 1, n + 2)
<1>1. n \in Nat /\ m \in Nat /\ n % 2 = 1 /\ m % 2 = 1 /\ m > n
  BY DirIs
<1>2. /\ d \in PathSeqs /\ x \in PathSeqs /\ \A i \in 1 .. m : x[i] = "/" <=> i % 2 = 1
  BY DirIs
<1>3. \A i \in 1 .. n : d[i] = x[i]
  BY DEF Under
<1> HIDE DEF n, m
<1>4. n + 2 <= m /\ (n + 2) % 2 = 1 /\ n + 2 \in Nat
  BY <1>1
<1>5. n + 2 \in 0 .. m
  BY <1>1, <1>4
<1>6. e \in PathSeqs /\ Len(e) = n + 2 /\ \A i \in 1 .. n + 2 : e[i] = x[i]
  BY <1>2, <1>5, Pieces DEF m
<1> HIDE DEF e
<1>7. DOMAIN e = 1 .. n + 2
  BY <1>6, PathLengths
<1>8. (\A i \in 1 .. n + 2 : i \in 1 .. m) /\ (\A i \in 1 .. n : i \in 1 .. n + 2) /\ n <= n + 2
  BY <1>1, <1>4
<1>9. \A i \in 1 .. n + 2 : e[i] = "/" <=> i % 2 = 1
  BY <1>2, <1>6, <1>8, Zenon
<1>10. Dir(e)
  <2>1. Len(e) % 2 = 1
    BY <1>4, <1>6, Zenon
  <2> QED BY <1>6, <1>7, <1>9, <2>1, Zenon DEF Dir, Tree!Directory, PathSeqs
<1>11. Under(d, e)
  <2>1. \A i \in 1 .. n : d[i] = e[i]
    BY <1>3, <1>6, <1>8, Zenon DEF n
  <2> QED BY <1>6, <1>8, <2>1, Zenon DEF Under, n
<1>12. Under(e, x)
  BY <1>4, <1>6, Zenon DEF Under, m
<1> QED BY <1>6, <1>10, <1>11, <1>12 DEF e, n

\* Two directories that differ by their last separator are one.
LEMMA FrontIs == ASSUME NEW d, Dir(d)
                 PROVE  /\ Tree!Front(d) \in PathSeqs /\ Len(Tree!Front(d)) = Len(d) - 1
                        /\ \A i \in 1 .. Len(d) - 1 : Tree!Front(d)[i] = d[i]
<1>1. d \in PathSeqs /\ Len(d) \in Nat /\ Len(d) >= 1
  BY DirIs
<1>2. Len(d) - 1 \in 0 .. Len(d)
  BY <1>1
<1> QED BY <1>1, <1>2, Pieces DEF Tree!Front

\* Two directories do not redirect from one path.
LEMMA FrontOnce == ASSUME NEW d, NEW e, Dir(d), Dir(e), Tree!Front(d) = Tree!Front(e) PROVE d = e
<1> DEFINE n == Len(d)
<1>1. n \in Nat /\ n >= 1 /\ n % 2 = 1 /\ Len(e) \in Nat /\ d \in PathSeqs /\ e \in PathSeqs
  BY DirIs
<1>2. Len(e) - 1 = n - 1
  BY FrontIs
<1>3. Len(e) = n
  BY <1>1, <1>2
<1>4. \A i \in 1 .. n - 1 : d[i] = e[i]
  BY FrontIs, <1>3
<1>5. n \in 1 .. n
  BY <1>1
<1>6. d[n] = "/" /\ e[n] = "/"
  BY <1>1, <1>3, <1>5, DirIs
<1>7. \A i \in 1 .. n : i \in 1 .. n - 1 \/ i = n
  BY <1>1
<1>8. \A i \in 1 .. n : d[i] = e[i]
  BY <1>4, <1>6, <1>7, Zenon
<1> QED BY <1>1, <1>3, <1>8, SamePath, Zenon

\* add() accepts a directory as a path, with and without its last separator.
LEMMA DirsValid == ASSUME NEW d, Dir(d)
                   PROVE Tree!Valid(d) /\ (Len(d) > 1 => Tree!Valid(Tree!Front(d)))
<1>1. Len(d) \in Nat /\ Len(d) >= 1 /\ d[1] = "/"
  BY DirIs
<1>2. ASSUME Len(d) > 1 PROVE Tree!Front(d)[1] = "/" /\ Len(Tree!Front(d)) # 0
  <2>1. 1 \in 1 .. Len(d) - 1
    BY <1>1, <1>2
  <2> QED BY <1>1, <1>2, <2>1, FrontIs
<1> QED BY <1>1, <1>2 DEF Tree!Valid

\* What is in a tree.
LEMMA FileIs == ASSUME tree \in Trees, NEW f \in tree
                PROVE  /\ f \in [dir : PathSeqs, name : STRING, ext : STRING] /\ Dir(f.dir)
                       /\ f # Tree!None /\ f \notin Shared
<1>1. f \in [dir : PathSeqs, name : STRING, ext : STRING] /\ Dir(f.dir) /\ f \notin Shared
  BY ContentAssumption DEF Tree!DirectoryAssumption, PathSeqs, Dir
<1>2. DOMAIN f = {"dir", "name", "ext"} /\ DOMAIN Tree!None = {"name"}
  BY <1>1 DEF Tree!None
<1>3. "dir" \in DOMAIN f /\ "dir" \notin DOMAIN Tree!None
  BY <1>2
<1> QED BY <1>1, <1>3

\* A redirection is none of the other contents, and leads to one directory only.
LEMMA MovedIs == ASSUME tree \in Trees, NEW d
                 PROVE  /\ Tree!Moved(d) \notin tree /\ (d \in Tree!Dirs => Tree!Moved(d) \notin Shared)
                        /\ \A e : Tree!Moved(e) = Tree!Moved(d) => e = d
<1>1. ASSUME NEW f \in tree PROVE f # Tree!Moved(d)
  <2>1. f \in [dir : PathSeqs, name : STRING, ext : STRING]
    BY FileIs
  <2>2. "dir" \in DOMAIN f /\ DOMAIN Tree!Moved(d) = {"moved"}
    BY <2>1 DEF Tree!Moved
  <2> QED BY <2>2
<1>2. \A e : Tree!Moved(e).moved = e
  BY DEF Tree!Moved
<1>3. d \in Tree!Dirs => Tree!Moved(d) \notin Shared
  BY ContentAssumption DEF Tree!DirectoryAssumption, Tree!Moved, Tree!Dirs
<1> QED BY <1>1, <1>2, <1>3

\* A directory of the tree is a directory.
LEMMA DirsAre == ASSUME tree \in Trees, NEW d \in Tree!Dirs PROVE Dir(d)
BY FileIs DEF Tree!Dirs

\* A file's path is accepted and is not its directory's.
LEMMA NodePathIs == ASSUME tree \in Trees, NEW f \in tree
                    PROVE  Tree!Valid(Tree!NodePath(f)) /\ Tree!NodePath(f) # f.dir
<1> DEFINE d == f.dir
           e == IF f.ext \in omit THEN <<f.name>> ELSE <<f.name, f.ext>>
<1>1. d \in Seq(STRING) /\ Len(d) \in Nat /\ Len(d) >= 1 /\ d[1] = "/"
  <2>1. Dir(d)
    BY FileIs
  <2>2. 1 \in 1 .. Len(d) /\ 1 % 2 = 1
    BY <2>1, DirIs
  <2> QED BY <2>1, <2>2, DirIs DEF PathSeqs
<1>2. e \in Seq(STRING) /\ Len(e) \in {1, 2}
  <2>1. f.name \in STRING /\ f.ext \in STRING
    BY FileIs
  <2>2. <<f.name>> \in Seq(STRING) /\ Len(<<f.name>>) = 1
    BY <2>1
  <2>3. <<f.name, f.ext>> \in Seq(STRING) /\ Len(<<f.name, f.ext>>) = 2
    BY <2>1
  <2> QED BY <2>2, <2>3
<1> HIDE DEF d, e
<1>3. /\ d \o e \in Seq(STRING) /\ Len(d \o e) = Len(d) + Len(e)
      /\ \A i \in 1 .. Len(d) + Len(e) : (d \o e)[i] = IF i <= Len(d) THEN d[i] ELSE e[i - Len(d)]
  BY <1>1, <1>2, ConcatProperties
<1> DEFINE p == d \o e
<1>4. Tree!NodePath(f) = p
  BY DEF Tree!NodePath, d, e
<1>5. Len(p) = Len(d) + Len(e) /\ \A i \in 1 .. Len(d) + Len(e) : i <= Len(d) => p[i] = d[i]
  BY <1>3
<1> HIDE DEF p
<1>6. Len(p) # Len(d) /\ Len(p) # 0 /\ 1 \in 1 .. Len(d) + Len(e)
  <2> DEFINE n == Len(d)
             m == Len(e)
             k == Len(p)
  <2>1. n \in Nat /\ n >= 1 /\ m \in {1, 2} /\ k = n + m
    BY <1>1, <1>2, <1>5
  <2> HIDE DEF n, m, k
  <2>2. k # n /\ k # 0 /\ 1 \in 1 .. n + m
    BY <2>1
  <2> QED BY <2>2 DEF n, m, k
<1>7. p[1] = "/"
  BY <1>1, <1>5, <1>6
<1>8. p # <<>> /\ p # d
  BY <1>6
<1> QED BY <1>4, <1>7, <1>8 DEF Tree!Valid, d

\* What the iteration over a directory finds leads to everything below it.
LEMMA SubdirsAre == ASSUME tree \in Trees, NEW d, Dir(d)
                    PROVE  /\ \A e \in Tree!Subdirs(d) : Dir(e) /\ Len(e) = Len(d) + 2 /\ Under(d, e)
                           /\ \A x \in Tree!Dirs : Under(d, x) => x = d \/ \E e \in Tree!Subdirs(d) : Under(e, x)
<1>1. \A f \in tree : Dir(f.dir) /\ f.dir \in PathSeqs /\ Len(f.dir) \in Nat
  BY FileIs, DirIs
<1>2. d \in PathSeqs /\ Len(d) \in Nat
  BY DirIs
<1>3. ASSUME NEW e \in Tree!Subdirs(d) PROVE Dir(e) /\ Len(e) = Len(d) + 2 /\ Under(d, e)
  <2>1. PICK f \in tree : e = SubSeq(f.dir, 1, Len(d) + 2) /\ Len(f.dir) > Len(d) /\ Tree!IsPrefix(d, f.dir)
    BY DEF Tree!Subdirs
  <2>2. Under(d, f.dir)
    BY <1>1, <1>2, <2>1, PrefixUnder
  <2> QED BY <1>1, <2>1, <2>2, Below
<1>4. ASSUME NEW x \in Tree!Dirs, Under(d, x), x # d PROVE \E e \in Tree!Subdirs(d) : Under(e, x)
  <2>1. PICK f \in tree : f.dir = x
    BY DEF Tree!Dirs
  <2>2. x \in PathSeqs /\ Len(x) \in Nat /\ Dir(x)
    BY <1>1, <2>1
  <2>3. Len(x) # Len(d) /\ Len(d) <= Len(x)
    <3>1. Len(x) # Len(d)
      BY <1>2, <1>4, <2>2, UnderSame
    <3> QED BY <1>4, <3>1 DEF Under
  <2>4. Len(x) > Len(d)
    BY <1>2, <2>2, <2>3
  <2> DEFINE e == SubSeq(x, 1, Len(d) + 2)
  <2>5. Under(e, x)
    BY <1>4, <2>2, <2>4, Below
  <2>6. e \in Tree!Subdirs(d)
    <3>1. Tree!IsPrefix(d, x)
      BY <1>2, <1>4, <2>2, PrefixUnder
    <3> QED BY <2>1, <2>4, <3>1 DEF Tree!Subdirs
  <2> QED BY <2>5, <2>6
<1> QED BY <1>3, <1>4

\* The place of a file in index_files.
Rank(f) == Tree!Min(Tree!Priorities(f))
Ranked(f) == Tree!Priorities(f) # {}

\* A file that index_files names has a first place there.
LEMMA RankIs == ASSUME NEW f, Ranked(f)
                PROVE  /\ Rank(f) \in Tree!Priorities(f) /\ Rank(f) \in Nat
                       /\ \A i \in Tree!Priorities(f) : i \in Nat /\ Rank(f) <= i
<1>1. Tree!Priorities(f) \in SUBSET Nat /\ Tree!Priorities(f) # {}
  <2>1. DOMAIN IndexFiles \subseteq Nat
    BY ContentAssumption DEF Tree!DirectoryAssumption
  <2> QED BY <2>1 DEF Tree!Priorities, Ranked
<1> DEFINE S == Tree!Priorities(f)
<1>2. \E x \in S : \A y \in S : x <= y
  BY <1>1, Least
<1> HIDE DEF S
<1>3. Rank(f) \in S /\ \A y \in S : Rank(f) <= y
  BY <1>2 DEF Rank, Tree!Min, S
<1> QED BY <1>1, <1>3 DEF S

\* load_directory prefers a file to the index so far if its place comes first.
LEMMA BetterIs == ASSUME NEW f, NEW index
                  PROVE  /\ index = Tree!None => (Tree!Better(f, index) <=> Ranked(f))
                         /\ index # Tree!None /\ Ranked(index) =>
                              (Tree!Better(f, index) <=> Ranked(f) /\ Rank(f) < Rank(index))
<1>1. ASSUME Ranked(f), Ranked(index)
      PROVE  (\E i \in Tree!Priorities(f) : \A j \in Tree!Priorities(index) : i < j) <=> Rank(f) < Rank(index)
  <2>1. Rank(f) \in Tree!Priorities(f) /\ Rank(f) \in Nat /\ \A i \in Tree!Priorities(f) : i \in Nat /\ Rank(f) <= i
    BY <1>1, RankIs
  <2>2. Rank(index) \in Tree!Priorities(index) /\ Rank(index) \in Nat
        /\ \A i \in Tree!Priorities(index) : i \in Nat /\ Rank(index) <= i
    BY <1>1, RankIs
  <2>3. ASSUME NEW i \in Tree!Priorities(f), \A j \in Tree!Priorities(index) : i < j PROVE Rank(f) < Rank(index)
    <3>1. i < Rank(index) /\ Rank(f) <= i /\ i \in Nat
      BY <2>1, <2>2, <2>3
    <3> QED BY <2>1, <2>2, <3>1
  <2>4. ASSUME Rank(f) < Rank(index), NEW j \in Tree!Priorities(index) PROVE Rank(f) < j
    <3>1. Rank(index) <= j /\ j \in Nat
      BY <2>2
    <3> QED BY <2>1, <2>2, <2>4, <3>1
  <2> QED BY <2>1, <2>3, <2>4
<1> QED BY <1>1 DEF Tree!Better, Ranked

\* The first index of a directory, of which there is one.
LEMMA BestIs == ASSUME NEW d, Tree!Indexes(d) # {}
                PROVE  /\ Tree!BestIndex(d) \in Tree!Indexes(d)
                       /\ \A g \in Tree!Indexes(d) : Rank(Tree!BestIndex(d)) <= Rank(g)
<1>1. \A g \in Tree!Indexes(d) : Ranked(g)
  BY DEF Tree!Indexes, Ranked
<1> DEFINE S == {Rank(g) : g \in Tree!Indexes(d)}
<1>2. S \in SUBSET Nat /\ S # {}
  BY <1>1, RankIs
<1>3. PICK n \in S : \A m \in S : n <= m
  BY <1>2, Least
<1>4. \E f \in Tree!Indexes(d) : \A g \in Tree!Indexes(d) : Rank(f) <= Rank(g)
  BY <1>3
<1>5. Tree!BestIndex(d) = CHOOSE f \in Tree!Indexes(d) : \A g \in Tree!Indexes(d) : Rank(f) <= Rank(g)
  BY DEF Tree!BestIndex, Rank
<1> QED BY <1>4, <1>5

\* A file of the first place is the best index: no two files have one name.
LEMMA BestOnce == ASSUME tree \in Trees, NEW d, NEW f \in Tree!Indexes(d), \A g \in Tree!Indexes(d) : Rank(f) <= Rank(g)
                  PROVE  f = Tree!BestIndex(d)
<1> DEFINE b == Tree!BestIndex(d)
<1>1. b \in Tree!Indexes(d) /\ Rank(b) <= Rank(f) /\ Rank(f) <= Rank(b)
  BY BestIs
<1> HIDE DEF b
<1>2. Ranked(b) /\ Ranked(f)
  BY <1>1 DEF Tree!Indexes, Ranked
<1>3. Rank(b) = Rank(f) /\ Rank(b) \in Tree!Priorities(b) /\ Rank(f) \in Tree!Priorities(f)
  BY <1>1, <1>2, RankIs
<1>4. [name |-> b.name, ext |-> b.ext] = [name |-> f.name, ext |-> f.ext]
  BY <1>3 DEF Tree!Priorities
<1>5. b.name = f.name /\ b.ext = f.ext
  BY <1>4
<1>6. b \in tree /\ f \in tree /\ b.dir = d /\ f.dir = d
  BY <1>1 DEF Tree!Indexes, Tree!PublicFiles
<1>7. b \in [dir : PathSeqs, name : STRING, ext : STRING] /\ f \in [dir : PathSeqs, name : STRING, ext : STRING]
  BY <1>6, FileIs
<1> QED BY <1>5, <1>6, <1>7 DEF b

\* The directories under way: what waits to be loaded.
Pending(fr, x) == \E i \in 1 .. Len(fr) : \E d \in fr[i].dirs : Under(d, x)
Open(fr, x) == \E i \in 1 .. Len(fr) : fr[i].dir = x
Todo(fr, x) == Pending(fr, x) \/ Open(fr, x)
Waiting(fr, f) == Pending(fr, f.dir) \/ \E i \in 1 .. Len(fr) : f \in fr[i].files

\* The directories under way are opened inside one another, and none is to be loaded twice.
Shaped(fr) == \A i \in 1 .. Len(fr) :
  /\ Dir(fr[i].dir) /\ fr[i].files \subseteq Tree!Files(fr[i].dir)
  /\ \A d \in fr[i].dirs : Dir(d)
Unlike(fr) == \A i, j \in 1 .. Len(fr) : i # j => fr[i].dir # fr[j].dir
Ahead(fr) == \A i, j \in 1 .. Len(fr) : \A d \in fr[i].dirs : ~Under(d, fr[j].dir)
Apart(fr) == \A i, j \in 1 .. Len(fr) : \A d \in fr[i].dirs, e \in fr[j].dirs :
               (i # j \/ d # e) => ~Under(d, e)
Nested(fr) == Shaped(fr) /\ Unlike(fr) /\ Ahead(fr) /\ Apart(fr)

\* A subdirectory is taken from the last of them and put after it.
Opened(fr, gr, n, d) ==
  /\ n \in Nat /\ n >= 1 /\ Len(fr) = n /\ Len(gr) = n + 1 /\ d \in fr[n].dirs
  /\ \A i \in 1 .. n : gr[i].dir = fr[i].dir /\ gr[i].files = fr[i].files /\ gr[i].index = fr[i].index
  /\ \A i \in 1 .. n : i # n => gr[i].dirs = fr[i].dirs
  /\ gr[n].dirs = fr[n].dirs \ {d}
  /\ gr[n + 1].dir = d /\ gr[n + 1].files = Tree!Files(d)
  /\ gr[n + 1].dirs = Tree!Subdirs(d) /\ gr[n + 1].index = Tree!None

\* Opening a subdirectory changes nothing of what waits.
LEMMA OpenedNested ==
  ASSUME tree \in Trees, NEW fr, NEW gr, NEW n, NEW d, Nested(fr), Opened(fr, gr, n, d)
  PROVE  /\ Nested(gr)
         /\ \A x \in Tree!Dirs : Todo(gr, x) <=> Todo(fr, x)
         /\ \A f \in tree : Waiting(gr, f) <=> Waiting(fr, f)
<1>1. n \in Nat /\ n >= 1 /\ Len(fr) = n /\ Len(gr) = n + 1
  BY DEF Opened
<1>2. /\ \A i \in 1 .. n + 1 : i \in 1 .. n \/ i = n + 1
      /\ \A i \in 1 .. n : i \in 1 .. n + 1 /\ i # n + 1
      /\ n \in 1 .. n /\ n + 1 \in 1 .. n + 1
  BY <1>1
<1> DEFINE m == n + 1
<1>3. /\ \A i \in 1 .. n : gr[i].dir = fr[i].dir /\ gr[i].files = fr[i].files
      /\ \A i \in 1 .. n : i # n => gr[i].dirs = fr[i].dirs
      /\ gr[n].dirs = fr[n].dirs \ {d}
      /\ gr[m].dir = d /\ gr[m].files = Tree!Files(d) /\ gr[m].dirs = Tree!Subdirs(d)
  BY DEF Opened
<1>4. d \in fr[n].dirs
  BY DEF Opened
<1>5. /\ \A i \in 1 .. m : i \in 1 .. n \/ i = m
      /\ \A i \in 1 .. n : i \in 1 .. m /\ i # m
      /\ n \in 1 .. n /\ m \in 1 .. m /\ Len(fr) = n /\ Len(gr) = m
  BY <1>1, <1>2
<1> HIDE DEF m
<1>6. \A i \in 1 .. n : Dir(fr[i].dir) /\ fr[i].files \subseteq Tree!Files(fr[i].dir) /\ \A e \in fr[i].dirs : Dir(e)
  BY <1>1 DEF Nested, Shaped
<1>7. Dir(d) /\ d \in PathSeqs /\ Len(d) \in Nat
  BY <1>4, <1>5, <1>6, DirIs
<1>8. \A e \in Tree!Subdirs(d) : Dir(e) /\ e \in PathSeqs /\ Len(e) = Len(d) + 2 /\ Under(d, e)
  BY <1>7, SubdirsAre, DirIs
<1>9. \A i \in 1 .. n : \A e \in gr[i].dirs : e \in fr[i].dirs /\ (i # n \/ e # d)
  BY <1>3
<1>10. \A i \in 1 .. n : \A e \in gr[i].dirs : ~Under(e, d) /\ ~Under(d, e)
  BY <1>1, <1>4, <1>5, <1>9 DEF Nested, Apart
<1>11. \A i \in 1 .. n : ~Under(d, fr[i].dir)
  BY <1>1, <1>4, <1>5 DEF Nested, Ahead
<1>12. \A e \in Tree!Subdirs(d) : ~Under(e, d)
  <2>1. ASSUME NEW e \in Tree!Subdirs(d) PROVE ~(Len(e) <= Len(d))
    <3>1. Len(e) = Len(d) + 2
      BY <1>8
    <3> QED BY <1>7, <3>1
  <2> QED BY <2>1 DEF Under
<1>13. Shaped(gr)
  BY <1>3, <1>5, <1>6, <1>7, <1>8, <1>9 DEF Shaped
<1>14. Unlike(gr)
  <2>1. \A i \in 1 .. n : fr[i].dir # d
    BY <1>7, <1>11, UnderSelf
  <2>2. \A i, j \in 1 .. n : i # j => fr[i].dir # fr[j].dir
    BY <1>1 DEF Nested, Unlike
  <2> QED BY <1>3, <1>5, <2>1, <2>2 DEF Unlike
<1>15. Ahead(gr)
  <2> SUFFICES ASSUME NEW i \in 1 .. m, NEW j \in 1 .. m, NEW e \in gr[i].dirs PROVE ~Under(e, gr[j].dir)
    BY <1>5 DEF Ahead
  <2>1. CASE i \in 1 .. n /\ j \in 1 .. n
    BY <1>1, <1>3, <1>9, <2>1 DEF Nested, Ahead
  <2>2. CASE i \in 1 .. n /\ j = m
    BY <1>3, <1>10, <2>2
  <2>3. CASE i = m /\ j \in 1 .. n
    <3>1. gr[j].dir = fr[j].dir /\ fr[j].dir \in PathSeqs
      BY <1>3, <1>6, <2>3, DirIs
    <3>2. e \in PathSeqs /\ Under(d, e)
      BY <1>3, <1>8, <2>3
    <3> QED BY <1>7, <1>11, <2>3, <3>1, <3>2, UnderTransitive
  <2>4. CASE i = m /\ j = m
    BY <1>3, <1>12, <2>4
  <2> QED BY <1>5, <2>1, <2>2, <2>3, <2>4
<1>16. Apart(gr)
  <2> SUFFICES ASSUME NEW i \in 1 .. m, NEW j \in 1 .. m, NEW a \in gr[i].dirs, NEW b \in gr[j].dirs,
                      i # j \/ a # b
               PROVE ~Under(a, b)
    BY <1>5 DEF Apart
  <2>1. CASE i \in 1 .. n /\ j \in 1 .. n
    BY <1>1, <1>9, <2>1 DEF Nested, Apart
  <2>2. CASE i \in 1 .. n /\ j = m
    <3>1. b \in PathSeqs /\ Under(d, b)
      BY <1>3, <1>8, <2>2
    <3>2. a \in PathSeqs /\ ~Under(a, d) /\ ~Under(d, a)
      BY <1>6, <1>9, <1>10, <2>2, DirIs
    <3> QED BY <1>7, <3>1, <3>2, UnderBoth
  <2>3. CASE i = m /\ j \in 1 .. n
    <3>1. a \in PathSeqs /\ Under(d, a)
      BY <1>3, <1>8, <2>3
    <3>2. b \in PathSeqs /\ ~Under(d, b)
      BY <1>6, <1>9, <1>10, <2>3, DirIs
    <3> QED BY <1>7, <3>1, <3>2, UnderTransitive
  <2>4. CASE i = m /\ j = m
    <3>1. a \in PathSeqs /\ b \in PathSeqs /\ Len(a) = Len(b) /\ a # b
      BY <1>3, <1>8, <2>4
    <3> QED BY <3>1, UnderSame
  <2> QED BY <1>5, <2>1, <2>2, <2>3, <2>4
<1>17. \A x \in Tree!Dirs : Under(d, x) => x = d \/ \E e \in Tree!Subdirs(d) : Under(e, x)
  BY <1>7, SubdirsAre
<1>18. \A x \in Tree!Dirs : x \in PathSeqs
  BY DirsAre, DirIs
<1>19. ASSUME NEW x \in Tree!Dirs
       PROVE  Pending(fr, x) <=> Pending(gr, x) \/ x = d
  <2>1. ASSUME Pending(fr, x) PROVE Pending(gr, x) \/ x = d
    <3>1. PICK i \in 1 .. n : \E e \in fr[i].dirs : Under(e, x)
      BY <1>5, <2>1 DEF Pending
    <3>2. PICK e \in fr[i].dirs : Under(e, x)
      BY <3>1
    <3>3. CASE i = n /\ e = d
      BY <1>3, <1>5, <1>17, <3>2, <3>3 DEF Pending
    <3>4. CASE i # n \/ e # d
      <4>1. e \in gr[i].dirs
        BY <1>3, <3>4
      <4> QED BY <1>5, <3>2, <4>1 DEF Pending
    <3> QED BY <3>3, <3>4
  <2>2. ASSUME Pending(gr, x) PROVE Pending(fr, x)
    <3>1. PICK i \in 1 .. m : \E e \in gr[i].dirs : Under(e, x)
      BY <1>5, <2>2 DEF Pending
    <3>2. PICK e \in gr[i].dirs : Under(e, x)
      BY <3>1
    <3>3. CASE i \in 1 .. n
      BY <1>5, <1>9, <3>2, <3>3 DEF Pending
    <3>4. CASE i = m
      <4>1. Under(d, x)
        BY <1>3, <1>7, <1>8, <1>18, <3>2, <3>4, UnderTransitive
      <4> QED BY <1>4, <1>5, <4>1 DEF Pending
    <3> QED BY <1>5, <3>3, <3>4
  <2>3. x = d => Pending(fr, x)
    BY <1>4, <1>5, <1>7, UnderSelf DEF Pending
  <2> QED BY <2>1, <2>2, <2>3
<1>20. \A x : Open(gr, x) <=> Open(fr, x) \/ x = d
  BY <1>3, <1>5 DEF Open
<1>21. \A x \in Tree!Dirs : Todo(gr, x) <=> Todo(fr, x)
  BY <1>19, <1>20 DEF Todo
<1>22. ASSUME NEW f \in tree PROVE Waiting(gr, f) <=> Waiting(fr, f)
  <2>1. f.dir \in Tree!Dirs
    BY DEF Tree!Dirs
  <2>2. (\E i \in 1 .. m : f \in gr[i].files) <=> (\E i \in 1 .. n : f \in fr[i].files) \/ f \in Tree!Files(d)
    BY <1>3, <1>5
  <2>3. f \in Tree!Files(d) <=> f.dir = d
    BY DEF Tree!Files
  <2> QED BY <1>5, <1>19, <2>1, <2>2, <2>3 DEF Waiting
<1> QED BY <1>13, <1>14, <1>15, <1>16, <1>21, <1>22 DEF Nested

\* A file is taken from the last of them.
FileTaken(fr, gr, n, f) ==
  /\ n \in Nat /\ n >= 1 /\ Len(fr) = n /\ Len(gr) = n /\ f \in fr[n].files
  /\ \A i \in 1 .. n : gr[i].dir = fr[i].dir /\ gr[i].dirs = fr[i].dirs
  /\ \A i \in 1 .. n : i # n => gr[i].files = fr[i].files /\ gr[i].index = fr[i].index
  /\ gr[n].files = fr[n].files \ {f}

\* Taking a file changes nothing but that it does not wait any more.
LEMMA TakenNested ==
  ASSUME NEW fr, NEW gr, NEW n, NEW f, Nested(fr), FileTaken(fr, gr, n, f)
  PROVE  /\ Nested(gr) /\ f \in tree /\ f.dir = fr[n].dir /\ Waiting(fr, f)
         /\ \A x : Todo(gr, x) <=> Todo(fr, x)
         /\ \A g : Waiting(gr, g) <=> Waiting(fr, g) /\ g # f
<1>1. n \in Nat /\ n >= 1 /\ Len(fr) = n /\ Len(gr) = n /\ f \in fr[n].files /\ n \in 1 .. n
  BY DEF FileTaken
<1>2. /\ \A i \in 1 .. n : gr[i].dir = fr[i].dir /\ gr[i].dirs = fr[i].dirs
      /\ \A i \in 1 .. n : i # n => gr[i].files = fr[i].files
      /\ gr[n].files = fr[n].files \ {f}
  BY DEF FileTaken
<1>3. \A i \in 1 .. n : gr[i].files \subseteq fr[i].files
  BY <1>2
<1>4. \A i \in 1 .. n : Dir(fr[i].dir) /\ fr[i].files \subseteq Tree!Files(fr[i].dir) /\ \A e \in fr[i].dirs : Dir(e)
  BY <1>1 DEF Nested, Shaped
<1>5. f \in tree /\ f.dir = fr[n].dir
  BY <1>1, <1>4 DEF Tree!Files
<1>6. Shaped(gr) /\ Unlike(gr) /\ Ahead(gr) /\ Apart(gr)
  <2>1. Shaped(gr)
    BY <1>1, <1>2, <1>3, <1>4 DEF Shaped
  <2>2. Unlike(gr)
    BY <1>1, <1>2 DEF Nested, Unlike
  <2>3. Ahead(gr)
    BY <1>1, <1>2 DEF Nested, Ahead
  <2>4. Apart(gr)
    BY <1>1, <1>2 DEF Nested, Apart
  <2> QED BY <2>1, <2>2, <2>3, <2>4
<1>7. \A x : (Pending(gr, x) <=> Pending(fr, x)) /\ (Open(gr, x) <=> Open(fr, x))
  BY <1>1, <1>2 DEF Pending, Open
<1>8. ~Pending(fr, f.dir)
  BY <1>1, <1>5 DEF Nested, Ahead, Pending
<1>9. \A i \in 1 .. n : f \in fr[i].files => i = n
  <2>1. ASSUME NEW i \in 1 .. n, f \in fr[i].files PROVE i = n
    <3>1. fr[i].dir = fr[n].dir
      BY <1>4, <1>5, <2>1 DEF Tree!Files
    <3> QED BY <1>1, <3>1 DEF Nested, Unlike
  <2> QED BY <2>1
<1>10. \A i \in 1 .. n : \A g : g \in gr[i].files <=> g \in fr[i].files /\ g # f
  BY <1>2, <1>9
<1>11. \A g : (\E i \in 1 .. n : g \in gr[i].files) <=> (\E i \in 1 .. n : g \in fr[i].files) /\ g # f
  BY <1>10
<1>12. \A g : Waiting(gr, g) <=> Waiting(fr, g) /\ g # f
  BY <1>1, <1>7, <1>8, <1>11 DEF Waiting
<1> QED BY <1>1, <1>5, <1>6, <1>7, <1>12 DEF Nested, Todo, Waiting

\* The last of them, with nothing left, goes.
Closed(fr, gr, n) ==
  /\ n \in Nat /\ n >= 1 /\ Len(fr) = n /\ Len(gr) = n - 1
  /\ fr[n].files = {} /\ fr[n].dirs = {}
  /\ \A i \in 1 .. n - 1 : gr[i] = fr[i]

\* A directory that ends waited for nothing but itself.
LEMMA ClosedNested ==
  ASSUME NEW fr, NEW gr, NEW n, Nested(fr), Closed(fr, gr, n)
  PROVE  /\ Nested(gr) /\ Todo(fr, fr[n].dir)
         /\ \A x : Todo(gr, x) <=> Todo(fr, x) /\ x # fr[n].dir
         /\ \A g : Waiting(gr, g) <=> Waiting(fr, g)
         /\ \A g : Waiting(fr, g) => g.dir # fr[n].dir
<1> DEFINE m == n - 1
<1>1. /\ n \in Nat /\ n >= 1 /\ Len(fr) = n /\ Len(gr) = m /\ fr[n].files = {} /\ fr[n].dirs = {}
      /\ \A i \in 1 .. m : gr[i] = fr[i]
  BY DEF Closed
<1>2. n \in 1 .. n /\ n \notin 1 .. m /\ (\A i \in 1 .. n : i \in 1 .. m \/ i = n) /\ \A i \in 1 .. m : i \in 1 .. n
  BY <1>1
<1> HIDE DEF m
<1>3. Nested(gr)
  <2>1. Shaped(gr)
    BY <1>1, <1>2 DEF Nested, Shaped
  <2>2. Unlike(gr)
    BY <1>1, <1>2 DEF Nested, Unlike
  <2>3. Ahead(gr)
    BY <1>1, <1>2 DEF Nested, Ahead
  <2>4. Apart(gr)
    BY <1>1, <1>2 DEF Nested, Apart
  <2> QED BY <2>1, <2>2, <2>3, <2>4 DEF Nested
<1>4. \A x : Pending(gr, x) <=> Pending(fr, x)
  BY <1>1, <1>2 DEF Pending
<1>5. \A x : Open(fr, x) <=> Open(gr, x) \/ x = fr[n].dir
  BY <1>1, <1>2 DEF Open
<1>6. ~Open(gr, fr[n].dir)
  BY <1>1, <1>2 DEF Nested, Unlike, Open
<1>7. ~Pending(fr, fr[n].dir)
  BY <1>1, <1>2 DEF Nested, Ahead, Pending
<1>8. \A g : (\E i \in 1 .. n : g \in fr[i].files) <=> \E i \in 1 .. m : g \in gr[i].files
  BY <1>1, <1>2
<1>9. \A g : (\E i \in 1 .. n : g \in fr[i].files) => g.dir # fr[n].dir
  <2>1. ASSUME NEW g, NEW i \in 1 .. n, g \in fr[i].files PROVE g.dir # fr[n].dir
    <3>1. g.dir = fr[i].dir
      BY <1>1, <2>1 DEF Nested, Shaped, Tree!Files
    <3>2. i # n
      BY <1>1, <2>1
    <3> QED BY <1>1, <1>2, <3>1, <3>2 DEF Nested, Unlike
  <2> QED BY <2>1
<1>10. /\ \A x : Todo(gr, x) <=> Todo(fr, x) /\ x # fr[n].dir
       /\ Todo(fr, fr[n].dir)
  BY <1>4, <1>5, <1>6, <1>7 DEF Todo
<1>11. /\ \A g : Waiting(gr, g) <=> Waiting(fr, g)
       /\ \A g : Waiting(fr, g) => g.dir # fr[n].dir
  BY <1>1, <1>4, <1>7, <1>8, <1>9 DEF Waiting
<1> QED BY <1>3, <1>10, <1>11

\* The first of them is the root, and everything waits.
LEMMA StartedNested ==
  ASSUME tree \in Trees, NEW gr, gr = <<Tree!Frame(Tree!Root)>>
  PROVE  /\ Nested(gr) /\ Len(gr) = 1
         /\ \A x \in Tree!Dirs : Todo(gr, x)
         /\ \A f \in tree : Waiting(gr, f)
<1> DEFINE r == Tree!Root
<1>1. /\ Len(gr) = 1 /\ gr[1].dir = r /\ gr[1].files = Tree!Files(r) /\ gr[1].dirs = Tree!Subdirs(r)
  BY DEF Tree!Frame
<1>2. Dir(r) /\ r \in PathSeqs /\ Len(r) \in Nat /\ \A x : Dir(x) => Under(r, x)
  BY RootIs, DirIs
<1> HIDE DEF r
<1>3. \A i \in 1 .. 1 : i = 1
  OBVIOUS
<1>4. \A e \in Tree!Subdirs(r) : Dir(e) /\ e \in PathSeqs /\ Len(e) = Len(r) + 2
  BY <1>2, SubdirsAre, DirIs
<1>5. \A x \in Tree!Dirs : x = r \/ \E e \in Tree!Subdirs(r) : Under(e, x)
  BY <1>2, SubdirsAre, DirsAre
<1>6. \A e \in Tree!Subdirs(r) : ~Under(e, r)
  <2>1. ASSUME NEW e \in Tree!Subdirs(r) PROVE ~(Len(e) <= Len(r))
    <3>1. Len(e) = Len(r) + 2
      BY <1>4
    <3> QED BY <1>2, <3>1
  <2> QED BY <2>1 DEF Under
<1>7. \A d, e \in Tree!Subdirs(r) : Under(d, e) => d = e
  BY <1>4, UnderSame
<1>8. Nested(gr)
  <2>1. Shaped(gr)
    BY <1>1, <1>2, <1>3, <1>4 DEF Shaped
  <2>2. Unlike(gr)
    BY <1>1, <1>3 DEF Unlike
  <2>3. Ahead(gr)
    BY <1>1, <1>3, <1>6 DEF Ahead
  <2>4. Apart(gr)
    BY <1>1, <1>3, <1>7 DEF Apart
  <2> QED BY <2>1, <2>2, <2>3, <2>4 DEF Nested
<1>9. 1 \in 1 .. 1
  OBVIOUS
<1>10. \A x \in Tree!Dirs : x = r \/ Pending(gr, x)
  BY <1>1, <1>5, <1>9 DEF Pending
<1>11. \A x \in Tree!Dirs : Todo(gr, x)
  BY <1>1, <1>9, <1>10 DEF Todo, Open
<1>12. ASSUME NEW f \in tree PROVE Waiting(gr, f)
  <2>1. f.dir \in Tree!Dirs /\ (f.dir = r => f \in Tree!Files(r))
    BY DEF Tree!Dirs, Tree!Files
  <2> QED BY <1>1, <1>9, <1>10, <2>1 DEF Waiting
<1> QED BY <1>1, <1>8, <1>11, <1>12

\* Nothing waits when nothing is under way.
LEMMA EmptyNested ==
  ASSUME NEW gr, Len(gr) = 0
  PROVE  Nested(gr) /\ (\A x : ~Todo(gr, x)) /\ \A g : ~Waiting(gr, g)
<1>1. \A i : i \notin 1 .. 0
  OBVIOUS
<1> QED BY <1>1 DEF Nested, Shaped, Unlike, Ahead, Apart, Todo, Pending, Open, Waiting

\* The contents by path.
At(m, p, c) == p \in DOMAIN m /\ m[p] = c
Redirection(m, d) == Len(d) > 1 => At(m, Tree!Front(d), Tree!Moved(d))

\* Every content is one that was added or is where the tree claims it.
Claimed(m) == \A p \in DOMAIN m : Tree!Valid(p) /\ (m[p] \in Shared \/ <<p, m[p]>> \in Tree!Claims)
\* A redirection leads to a directory that has its index.
Landing(m) == \A d \in Tree!Dirs : Len(d) > 1 /\ At(m, Tree!Front(d), Tree!Moved(d)) =>
                Tree!Indexes(d) # {} /\ At(m, d, Tree!BestIndex(d))
\* Two contents claim one path, or one that was added before has it.
Collision(m) == \/ \E c, d \in Tree!Claims : c # d /\ c[1] = d[1]
                \/ \E c \in Tree!Claims : c[1] \in {p \in DOMAIN m : m[p] \in Shared}
\* Everything the tree claims is there.
AllIn(m) == \A c \in Tree!Claims : At(m, c[1], c[2])

\* While a directory is loaded: what does not wait is there, and what waits is not.
FilesIn(fr, m) == \A f \in Tree!PublicFiles :
  /\ Waiting(fr, f) \/ At(m, Tree!NodePath(f), f)
  /\ Waiting(fr, f) => \A p \in DOMAIN m : m[p] # f
\* A directory that is done has its index and its redirection.
DirsIn(fr, m) == \A d \in Tree!Dirs : Tree!Indexes(d) # {} =>
  /\ Todo(fr, d) \/ (At(m, d, Tree!BestIndex(d)) /\ Redirection(m, d))
  /\ Todo(fr, d) => (\A p \in DOMAIN m : m[p] # Tree!Moved(d)) /\ ~At(m, d, Tree!BestIndex(d))
\* The best of the files already taken.
Best(m, d, files, index) ==
  /\ index = Tree!None => Tree!Indexes(d) \subseteq files
  /\ index # Tree!None =>
       /\ index \in Tree!Indexes(d) /\ index \notin files /\ At(m, Tree!NodePath(index), index)
       /\ \A g \in Tree!Indexes(d) : g \notin files => Rank(index) <= Rank(g)
\* The index of a directory under way is the best of the files taken.
Indexed(fr, m) == \A i \in 1 .. Len(fr) : Best(m, fr[i].dir, fr[i].files, fr[i].index)

\* One content more.
Inserted(m, k, p, c) == /\ p \notin DOMAIN m /\ DOMAIN k = DOMAIN m \cup {p} /\ k[p] = c
                        /\ \A q \in DOMAIN m : k[q] = m[q]

\* Insert adds one content.
LEMMA InsertIs == ASSUME NEW m, NEW p, NEW c, p \notin DOMAIN m PROVE Inserted(m, Tree!Insert(m, p, c), p, c)
BY DEF Inserted, Tree!Insert

\* What a tree claims: the path of each public file, and for a directory with an index its own path,
\* and that without the separator.
LEMMA ClaimsAre ==
  /\ \A f \in Tree!PublicFiles : <<Tree!NodePath(f), f>> \in Tree!Claims
  /\ \A d \in Tree!Dirs : Tree!Indexes(d) # {} =>
       /\ <<d, Tree!BestIndex(d)>> \in Tree!Claims
       /\ Len(d) > 1 => <<Tree!Front(d), Tree!Moved(d)>> \in Tree!Claims
  /\ \A c \in Tree!Claims :
       \/ \E f \in Tree!PublicFiles : c = <<Tree!NodePath(f), f>>
       \/ \E d \in Tree!Dirs : Tree!Indexes(d) # {} /\ c = <<d, Tree!BestIndex(d)>>
       \/ \E d \in Tree!Dirs : Tree!Indexes(d) # {} /\ Len(d) > 1 /\ c = <<Tree!Front(d), Tree!Moved(d)>>
BY DEF Tree!Claims, Tree!Moved

\* An index is a public file of its directory.
LEMMA IndexesAre == ASSUME NEW d, NEW f \in Tree!Indexes(d)
                    PROVE  f \in tree /\ f \in Tree!PublicFiles /\ f.dir = d /\ Ranked(f) /\ d \in Tree!Dirs
BY DEF Tree!Indexes, Tree!PublicFiles, Ranked, Tree!Dirs

\* add() accepts what is claimed.
LEMMA ClaimsValid == ASSUME tree \in Trees, NEW c \in Tree!Claims
                     PROVE  Tree!Valid(c[1]) /\ c[2] \notin Shared /\ c = <<c[1], c[2]>>
<1>1. CASE \E f \in Tree!PublicFiles : c = <<Tree!NodePath(f), f>>
  <2>1. PICK f \in tree : c = <<Tree!NodePath(f), f>>
    BY <1>1 DEF Tree!PublicFiles
  <2> QED BY <2>1, FileIs, NodePathIs
<1>2. CASE \E d \in Tree!Dirs : Tree!Indexes(d) # {} /\ c = <<d, Tree!BestIndex(d)>>
  <2>1. PICK d \in Tree!Dirs : Tree!Indexes(d) # {} /\ c = <<d, Tree!BestIndex(d)>>
    BY <1>2
  <2>2. Tree!BestIndex(d) \in tree
    BY <2>1, BestIs, IndexesAre
  <2> QED BY <2>1, <2>2, FileIs, DirsAre, DirsValid
<1>3. CASE \E d \in Tree!Dirs : Tree!Indexes(d) # {} /\ Len(d) > 1 /\ c = <<Tree!Front(d), Tree!Moved(d)>>
  BY <1>3, MovedIs, DirsAre, DirsValid
<1> QED BY <1>1, <1>2, <1>3, ClaimsAre

\* A content that is claimed is inserted at its path.
LEMMA InsertedClaimed ==
  ASSUME tree \in Trees, NEW m, NEW k, NEW p, NEW c, Claimed(m), Inserted(m, k, p, c), <<p, c>> \in Tree!Claims
  PROVE  Claimed(k)
<1>1. Tree!Valid(p)
  BY ClaimsValid
<1> QED BY <1>1 DEF Claimed, Inserted

\* What was there stays there.
LEMMA InsertedStays ==
  ASSUME NEW m, NEW k, NEW p, NEW c, Inserted(m, k, p, c)
  PROVE  /\ \A q, d : At(m, q, d) => At(k, q, d)
         /\ \A q, d : At(k, q, d) <=> At(m, q, d) \/ (q = p /\ d = c)
BY DEF Inserted, At

\* Two contents ask for one path.
LEMMA Collides ==
  ASSUME NEW m, NEW p, NEW c, Claimed(m), p \in DOMAIN m, m[p] # c, <<p, c>> \in Tree!Claims
  PROVE  Collision(m)
<1>1. CASE m[p] \in Shared
  <2>1. <<p, c>>[1] \in {q \in DOMAIN m : m[q] \in Shared}
    BY <1>1
  <2> QED BY <2>1 DEF Collision
<1>2. CASE <<p, m[p]>> \in Tree!Claims
  <2>1. <<p, m[p]>> # <<p, c>> /\ <<p, m[p]>>[1] = <<p, c>>[1]
    OBVIOUS
  <2> QED BY <1>2, <2>1 DEF Collision
<1> QED BY <1>1, <1>2 DEF Claimed

\* Everything is in the contents when nothing is left to do.
LEMMA NothingLeft ==
  ASSUME NEW fr, NEW m, FilesIn(fr, m), DirsIn(fr, m), Len(fr) = 0
  PROVE  AllIn(m)
<1>1. (\A x : ~Todo(fr, x)) /\ \A g : ~Waiting(fr, g)
  BY EmptyNested
<1>2. \A f \in Tree!PublicFiles : At(m, Tree!NodePath(f), f)
  BY <1>1 DEF FilesIn
<1>3. \A d \in Tree!Dirs : Tree!Indexes(d) # {} => At(m, d, Tree!BestIndex(d)) /\ Redirection(m, d)
  BY <1>1 DEF DirsIn
<1>4. ASSUME NEW c \in Tree!Claims PROVE At(m, c[1], c[2])
  <2>1. CASE \E f \in Tree!PublicFiles : c = <<Tree!NodePath(f), f>>
    BY <1>2, <2>1
  <2>2. CASE \E d \in Tree!Dirs : Tree!Indexes(d) # {} /\ c = <<d, Tree!BestIndex(d)>>
    BY <1>3, <2>2
  <2>3. CASE \E d \in Tree!Dirs : Tree!Indexes(d) # {} /\ Len(d) > 1 /\ c = <<Tree!Front(d), Tree!Moved(d)>>
    BY <1>3, <2>3 DEF Redirection
  <2> QED BY <2>1, <2>2, <2>3, ClaimsAre
<1> QED BY <1>4 DEF AllIn

\* While a directory is loaded.
UnderWay(fr, m) == Nested(fr) /\ Claimed(m) /\ Landing(m) /\ FilesIn(fr, m) /\ DirsIn(fr, m) /\ Indexed(fr, m)

\* Opening a subdirectory leaves the rest as it was.
LEMMA OpenedOn ==
  ASSUME tree \in Trees, NEW fr, NEW gr, NEW n, NEW d, NEW m, UnderWay(fr, m), Opened(fr, gr, n, d)
  PROVE  UnderWay(gr, m)
<1>1. /\ Nested(gr)
      /\ \A x \in Tree!Dirs : Todo(gr, x) <=> Todo(fr, x)
      /\ \A f \in tree : Waiting(gr, f) <=> Waiting(fr, f)
  BY OpenedNested DEF UnderWay
<1>2. FilesIn(gr, m)
  BY <1>1 DEF UnderWay, FilesIn, Tree!PublicFiles
<1>3. DirsIn(gr, m)
  BY <1>1 DEF UnderWay, DirsIn
<1>4. Indexed(gr, m)
  <2>1. /\ n \in Nat /\ Len(gr) = n + 1 /\ Len(fr) = n
        /\ \A i \in 1 .. n : gr[i].dir = fr[i].dir /\ gr[i].files = fr[i].files /\ gr[i].index = fr[i].index
        /\ gr[n + 1].dir = d /\ gr[n + 1].files = Tree!Files(d) /\ gr[n + 1].index = Tree!None
    BY DEF Opened
  <2>2. \A i \in 1 .. n + 1 : i \in 1 .. n \/ i = n + 1
    BY <2>1
  <2>3. Tree!Indexes(d) \subseteq Tree!Files(d)
    BY DEF Tree!Indexes, Tree!PublicFiles, Tree!Files
  <2>4. Best(m, d, Tree!Files(d), Tree!None)
    BY <2>3 DEF Best
  <2>5. \A i \in 1 .. n : Best(m, gr[i].dir, gr[i].files, gr[i].index)
    BY <2>1 DEF UnderWay, Indexed
  <2> QED BY <2>1, <2>2, <2>4, <2>5 DEF Indexed
<1> QED BY <1>1, <1>2, <1>3, <1>4 DEF UnderWay

\* A file that is not public is passed over.
LEMMA PassedOver ==
  ASSUME tree \in Trees, NEW fr, NEW gr, NEW n, NEW f, NEW m, UnderWay(fr, m), FileTaken(fr, gr, n, f),
         f \notin Tree!PublicFiles, gr[n].index = fr[n].index
  PROVE  UnderWay(gr, m)
<1>1. /\ Nested(gr)
      /\ \A x : Todo(gr, x) <=> Todo(fr, x)
      /\ \A g : Waiting(gr, g) <=> Waiting(fr, g) /\ g # f
  BY TakenNested DEF UnderWay
<1>2. FilesIn(gr, m)
  BY <1>1 DEF UnderWay, FilesIn
<1>3. DirsIn(gr, m)
  BY <1>1 DEF UnderWay, DirsIn
<1>4. Indexed(gr, m)
  <2>1. /\ Len(gr) = n /\ Len(fr) = n
        /\ \A i \in 1 .. n : gr[i].dir = fr[i].dir
        /\ \A i \in 1 .. n : i # n => gr[i].files = fr[i].files /\ gr[i].index = fr[i].index
        /\ gr[n].files = fr[n].files \ {f}
    BY DEF FileTaken
  <2>2. \A d : \A g \in Tree!Indexes(d) : g # f
    BY DEF Tree!Indexes
  <2>3. ASSUME NEW i \in 1 .. n PROVE Best(m, gr[i].dir, gr[i].files, gr[i].index)
    <3>1. Best(m, fr[i].dir, fr[i].files, fr[i].index)
      BY <2>1 DEF UnderWay, Indexed
    <3>2. gr[i].dir = fr[i].dir /\ gr[i].index = fr[i].index
      BY <2>1
    <3>3. \A g \in Tree!Indexes(fr[i].dir) : g \in gr[i].files <=> g \in fr[i].files
      BY <2>1, <2>2
    <3> QED BY <3>1, <3>2, <3>3 DEF Best
  <2> QED BY <2>1, <2>3 DEF Indexed
<1> QED BY <1>1, <1>2, <1>3, <1>4 DEF UnderWay

\* A file is loaded, and is the index if it is better than the one before.
LEMMA FileLoaded ==
  ASSUME tree \in Trees, NEW fr, NEW gr, NEW n, NEW f, NEW m, NEW k, UnderWay(fr, m), FileTaken(fr, gr, n, f),
         f \in Tree!PublicFiles, Inserted(m, k, Tree!NodePath(f), f),
         gr[n].index = IF Tree!Better(f, fr[n].index) THEN f ELSE fr[n].index
  PROVE  UnderWay(gr, k)
<1>1. /\ Nested(gr)
      /\ \A x : Todo(gr, x) <=> Todo(fr, x)
      /\ \A g : Waiting(gr, g) <=> Waiting(fr, g) /\ g # f
      /\ f \in tree /\ f.dir = fr[n].dir
  BY TakenNested DEF UnderWay
<1>2. /\ \A q, d : At(k, q, d) <=> At(m, q, d) \/ (q = Tree!NodePath(f) /\ d = f)
      /\ \A q, d : At(m, q, d) => At(k, q, d)
  BY InsertedStays
<1>3. \A q \in DOMAIN k : k[q] = f \/ (q \in DOMAIN m /\ k[q] = m[q])
  BY DEF Inserted
<1>4. \A d : Tree!Moved(d) # f
  BY <1>1, MovedIs
<1>5. Claimed(k)
  BY InsertedClaimed, ClaimsAre DEF UnderWay
<1>6. Landing(k)
  <2>1. \A q, d : At(k, q, Tree!Moved(d)) => At(m, q, Tree!Moved(d))
    BY <1>2, <1>4
  <2> QED BY <1>2, <2>1 DEF UnderWay, Landing
<1>7. FilesIn(gr, k)
  <2> SUFFICES ASSUME NEW g \in Tree!PublicFiles
               PROVE  /\ Waiting(gr, g) \/ At(k, Tree!NodePath(g), g)
                      /\ Waiting(gr, g) => \A p \in DOMAIN k : k[p] # g
    BY DEF FilesIn
  <2>1. Waiting(fr, g) \/ At(m, Tree!NodePath(g), g)
    BY DEF UnderWay, FilesIn
  <2>2. Waiting(fr, g) => \A p \in DOMAIN m : m[p] # g
    BY DEF UnderWay, FilesIn
  <2>3. Waiting(gr, g) \/ At(k, Tree!NodePath(g), g)
    BY <1>1, <1>2, <2>1
  <2>4. Waiting(gr, g) => \A p \in DOMAIN k : k[p] # g
    BY <1>1, <1>3, <2>2
  <2> QED BY <2>3, <2>4
<1>8. DirsIn(gr, k)
  <2> SUFFICES ASSUME NEW d \in Tree!Dirs, Tree!Indexes(d) # {}
               PROVE  /\ Todo(gr, d) \/ (At(k, d, Tree!BestIndex(d)) /\ Redirection(k, d))
                      /\ Todo(gr, d) => (\A p \in DOMAIN k : k[p] # Tree!Moved(d)) /\ ~At(k, d, Tree!BestIndex(d))
    BY DEF DirsIn
  <2>1. Todo(fr, d) \/ (At(m, d, Tree!BestIndex(d)) /\ Redirection(m, d))
    BY DEF UnderWay, DirsIn
  <2>2. Todo(fr, d) => (\A p \in DOMAIN m : m[p] # Tree!Moved(d)) /\ ~At(m, d, Tree!BestIndex(d))
    BY DEF UnderWay, DirsIn
  <2>3. Redirection(m, d) => Redirection(k, d)
    BY <1>2 DEF Redirection
  <2>4. Tree!BestIndex(d) = f => d # Tree!NodePath(f)
    BY BestIs, IndexesAre, <1>1, NodePathIs
  <2> QED BY <1>1, <1>2, <1>3, <1>4, <2>1, <2>2, <2>3, <2>4
<1>9. Indexed(gr, k)
  <2>1. /\ Len(gr) = n /\ Len(fr) = n /\ n \in Nat /\ n >= 1
        /\ \A i \in 1 .. n : gr[i].dir = fr[i].dir
        /\ \A i \in 1 .. n : i # n => gr[i].files = fr[i].files /\ gr[i].index = fr[i].index
        /\ gr[n].files = fr[n].files \ {f} /\ f \in fr[n].files
    BY DEF FileTaken
  <2>2. n \in 1 .. n
    BY <2>1
  <2>3. ASSUME NEW i \in 1 .. n, i # n PROVE Best(k, gr[i].dir, gr[i].files, gr[i].index)
    <3>1. Best(m, fr[i].dir, fr[i].files, fr[i].index)
      BY <2>1 DEF UnderWay, Indexed
    <3> QED BY <1>2, <2>1, <2>3, <3>1 DEF Best
  <2> DEFINE d == fr[n].dir
             old == fr[n].index
             files == fr[n].files
  <2>4. Best(m, d, files, old)
    BY <2>1, <2>2 DEF UnderWay, Indexed
  <2>5. gr[n].dir = d /\ gr[n].files = files \ {f} /\ f \in files
    BY <2>1, <2>2
  <2>6. f.dir = d /\ f # Tree!None
    BY <1>1, FileIs
  <2>7. gr[n].index = IF Tree!Better(f, old) THEN f ELSE old
    OBVIOUS
  <2> HIDE DEF d, old, files
  <2>8. f \in Tree!Indexes(d) <=> Ranked(f)
    BY <2>6 DEF Tree!Indexes, Ranked
  <2>9. \A g \in Tree!Indexes(d) : Ranked(g) /\ Rank(g) \in Nat
    BY IndexesAre, RankIs
  <2>10. CASE Tree!Better(f, old)
    <3>1. Ranked(f) /\ (old # Tree!None => Rank(f) < Rank(old))
      BY <2>4, <2>9, <2>10, BetterIs DEF Best
    <3>2. Rank(f) \in Nat
      BY <3>1, RankIs
    <3>3. At(k, Tree!NodePath(f), f)
      BY <1>2
    <3>4. ASSUME NEW g \in Tree!Indexes(d), g \notin files \ {f} PROVE Rank(f) <= Rank(g)
      <4>1. CASE g = f
        BY <3>2, <4>1
      <4>2. CASE g # f
        <5>1. g \notin files
          BY <3>4, <4>2
        <5>2. old # Tree!None /\ Rank(old) <= Rank(g) /\ Rank(old) \in Nat
          BY <2>4, <2>9, <5>1 DEF Best
        <5> QED BY <2>9, <3>1, <3>2, <5>2
      <4> QED BY <4>1, <4>2
    <3>5. Best(k, d, files \ {f}, f)
      BY <2>6, <2>8, <3>1, <3>3, <3>4 DEF Best
    <3> QED BY <2>1, <2>3, <2>5, <2>7, <2>10, <3>5 DEF Indexed
  <2>11. CASE ~Tree!Better(f, old)
    <3>1. old = Tree!None => ~Ranked(f)
      BY <2>11, BetterIs
    <3>2. old # Tree!None /\ Ranked(f) => ~(Rank(f) < Rank(old))
      BY <2>4, <2>9, <2>11, BetterIs DEF Best
    <3>3. ASSUME old = Tree!None PROVE Tree!Indexes(d) \subseteq files \ {f}
      BY <2>4, <2>8, <3>1, <3>3 DEF Best
    <3>4. ASSUME old # Tree!None, NEW g \in Tree!Indexes(d), g \notin files \ {f} PROVE Rank(old) <= Rank(g)
      <4>1. CASE g = f
        <5>1. Rank(old) \in Nat /\ Rank(f) \in Nat /\ ~(Rank(f) < Rank(old))
          BY <2>4, <2>9, <3>2, <3>4, <4>1 DEF Best
        <5> QED BY <4>1, <5>1
      <4>2. CASE g # f
        BY <2>4, <3>4, <4>2 DEF Best
      <4> QED BY <4>1, <4>2
    <3>5. old # Tree!None => /\ old \in Tree!Indexes(d) /\ old \notin files \ {f}
                             /\ At(k, Tree!NodePath(old), old)
      BY <1>2, <2>4 DEF Best
    <3>6. Best(k, d, files \ {f}, old)
      BY <3>3, <3>4, <3>5 DEF Best
    <3> QED BY <2>1, <2>3, <2>5, <2>7, <2>11, <3>6 DEF Indexed
  <2> QED BY <2>10, <2>11
<1> QED BY <1>1, <1>5, <1>6, <1>7, <1>8, <1>9 DEF UnderWay

\* A file whose path is taken throws.
LEMMA FileCollides ==
  ASSUME tree \in Trees, NEW fr, NEW m, UnderWay(fr, m), NEW f \in Tree!PublicFiles, Waiting(fr, f),
         Tree!NodePath(f) \in DOMAIN m
  PROVE  Collision(m)
<1>1. m[Tree!NodePath(f)] # f
  BY DEF UnderWay, FilesIn
<1> QED BY <1>1, Collides, ClaimsAre DEF UnderWay

\* The index of a directory that has nothing left is the best.
LEMMA IndexBest ==
  ASSUME tree \in Trees, NEW fr, NEW gr, NEW n, NEW m, UnderWay(fr, m), Closed(fr, gr, n)
  PROVE  /\ fr[n].index = Tree!None => Tree!Indexes(fr[n].dir) = {}
         /\ fr[n].index # Tree!None =>
              /\ Tree!Indexes(fr[n].dir) # {} /\ fr[n].index = Tree!BestIndex(fr[n].dir)
              /\ fr[n].dir \in Tree!Dirs /\ At(m, Tree!NodePath(fr[n].index), fr[n].index)
<1>1. n \in Nat /\ n >= 1 /\ Len(fr) = n /\ fr[n].files = {}
  BY DEF Closed
<1>2. n \in 1 .. n
  BY <1>1
<1>3. Best(m, fr[n].dir, {}, fr[n].index)
  BY <1>1, <1>2 DEF UnderWay, Indexed
<1> QED BY <1>3, BestOnce, IndexesAre DEF Best

\* A directory without an index ends.
LEMMA EndedPlain ==
  ASSUME tree \in Trees, NEW fr, NEW gr, NEW n, NEW m, UnderWay(fr, m), Closed(fr, gr, n),
         fr[n].index = Tree!None
  PROVE  UnderWay(gr, m)
<1>1. /\ Nested(gr)
      /\ \A x : Todo(gr, x) <=> Todo(fr, x) /\ x # fr[n].dir
      /\ \A g : Waiting(gr, g) <=> Waiting(fr, g)
  BY ClosedNested DEF UnderWay
<1>2. Tree!Indexes(fr[n].dir) = {}
  BY IndexBest
<1>3. FilesIn(gr, m)
  BY <1>1 DEF UnderWay, FilesIn
<1>4. DirsIn(gr, m)
  BY <1>1, <1>2 DEF UnderWay, DirsIn
<1>5. Indexed(gr, m)
  <2>1. \A i \in 1 .. n - 1 : i \in 1 .. n
    BY DEF Closed
  <2> QED BY <2>1 DEF UnderWay, Indexed, Closed
<1> QED BY <1>1, <1>3, <1>4, <1>5 DEF UnderWay

\* What the index and the redirection of a directory are when they are added.
LEMMA IndexInserted ==
  ASSUME tree \in Trees, NEW fr, NEW gr, NEW n, NEW m, NEW k, UnderWay(fr, m), Closed(fr, gr, n),
         fr[n].index # Tree!None, Inserted(m, k, fr[n].dir, fr[n].index)
  PROVE  Claimed(k) /\ Landing(k)
<1> DEFINE t == fr[n].dir
<1>1. Tree!Indexes(t) # {} /\ fr[n].index = Tree!BestIndex(t) /\ t \in Tree!Dirs
  BY IndexBest
<1>2. Inserted(m, k, t, Tree!BestIndex(t))
  BY <1>1
<1> HIDE DEF t
<1>3. Claimed(k)
  BY <1>1, <1>2, InsertedClaimed, ClaimsAre DEF UnderWay
<1>4. \A d : Tree!Moved(d) # Tree!BestIndex(t)
  BY <1>1, BestIs, IndexesAre, MovedIs
<1>5. \A q, d : At(k, q, Tree!Moved(d)) => At(m, q, Tree!Moved(d))
  BY <1>2, <1>4, InsertedStays
<1>6. \A q, d : At(m, q, d) => At(k, q, d)
  BY <1>2, InsertedStays
<1> QED BY <1>3, <1>5, <1>6 DEF UnderWay, Landing

\* A redirection is inserted once the index of its directory is.
LEMMA MovedInserted ==
  ASSUME tree \in Trees, NEW m, NEW k, NEW t \in Tree!Dirs, Len(t) > 1, Claimed(m), Landing(m),
         Tree!Indexes(t) # {}, At(m, t, Tree!BestIndex(t)), Inserted(m, k, Tree!Front(t), Tree!Moved(t))
  PROVE  Claimed(k) /\ Landing(k)
<1>1. Claimed(k)
  BY InsertedClaimed, ClaimsAre
<1>2. \A q, d : At(m, q, d) => At(k, q, d)
  BY InsertedStays
<1>3. \A q, d : At(k, q, Tree!Moved(d)) => At(m, q, Tree!Moved(d)) \/ d = t
  BY InsertedStays, MovedIs
<1> QED BY <1>1, <1>2, <1>3 DEF Landing

\* A directory whose index and redirection are added ends.
LEMMA EndedIndexed ==
  ASSUME tree \in Trees, NEW fr, NEW gr, NEW n, NEW m, NEW k, UnderWay(fr, m), Closed(fr, gr, n),
         fr[n].index # Tree!None, Claimed(k), Landing(k),
         At(k, fr[n].dir, fr[n].index), Redirection(k, fr[n].dir),
         \A q, d : At(m, q, d) => At(k, q, d),
         \A q, d : At(k, q, d) => \/ At(m, q, d)
                                  \/ q = fr[n].dir /\ d = fr[n].index
                                  \/ d = Tree!Moved(fr[n].dir)
  PROVE  UnderWay(gr, k)
<1> DEFINE t == fr[n].dir
<1>1. Tree!Indexes(t) # {} /\ fr[n].index = Tree!BestIndex(t) /\ t \in Tree!Dirs
  BY IndexBest
<1>2. /\ Nested(gr)
      /\ \A x : Todo(gr, x) <=> Todo(fr, x) /\ x # t
      /\ \A g : Waiting(gr, g) <=> Waiting(fr, g)
      /\ \A g : Waiting(fr, g) => g.dir # t
  BY ClosedNested DEF UnderWay
<1>3. /\ At(k, t, Tree!BestIndex(t)) /\ Redirection(k, t)
      /\ \A q, d : At(k, q, d) => \/ At(m, q, d)
                                  \/ q = t /\ d = Tree!BestIndex(t)
                                  \/ d = Tree!Moved(t)
  BY <1>1
<1>4. /\ Tree!BestIndex(t) \in tree /\ Tree!BestIndex(t).dir = t
      /\ \A d : Tree!Moved(d) \notin tree /\ (d # t => Tree!Moved(d) # Tree!Moved(t))
  BY <1>1, BestIs, IndexesAre, MovedIs
<1> HIDE DEF t
<1>5. FilesIn(gr, k)
  <2> SUFFICES ASSUME NEW g \in Tree!PublicFiles
               PROVE  /\ Waiting(gr, g) \/ At(k, Tree!NodePath(g), g)
                      /\ Waiting(gr, g) => \A p \in DOMAIN k : k[p] # g
    BY DEF FilesIn
  <2>1. Waiting(fr, g) \/ At(m, Tree!NodePath(g), g)
    BY DEF UnderWay, FilesIn
  <2>2. Waiting(fr, g) => \A p : ~At(m, p, g)
    BY DEF UnderWay, FilesIn, At
  <2>3. g \in tree
    BY DEF Tree!PublicFiles
  <2>4. Waiting(fr, g) => g # Tree!BestIndex(t) /\ g # Tree!Moved(t)
    BY <1>2, <1>4, <2>3
  <2>5. Waiting(gr, g) => \A p : ~At(k, p, g)
    BY <1>2, <1>3, <2>2, <2>4
  <2> QED BY <1>2, <2>1, <2>5 DEF At
<1>6. DirsIn(gr, k)
  <2> SUFFICES ASSUME NEW d \in Tree!Dirs, Tree!Indexes(d) # {}
               PROVE  /\ Todo(gr, d) \/ (At(k, d, Tree!BestIndex(d)) /\ Redirection(k, d))
                      /\ Todo(gr, d) => (\A p \in DOMAIN k : k[p] # Tree!Moved(d)) /\ ~At(k, d, Tree!BestIndex(d))
    BY DEF DirsIn
  <2>1. Todo(fr, d) \/ (At(m, d, Tree!BestIndex(d)) /\ Redirection(m, d))
    BY DEF UnderWay, DirsIn
  <2>2. Todo(fr, d) => (\A p : ~At(m, p, Tree!Moved(d))) /\ ~At(m, d, Tree!BestIndex(d))
    BY DEF UnderWay, DirsIn, At
  <2>3. Redirection(m, d) => Redirection(k, d)
    BY DEF Redirection
  <2>4. Todo(gr, d) \/ (At(k, d, Tree!BestIndex(d)) /\ Redirection(k, d))
    BY <1>2, <1>3, <2>1, <2>3
  <2>5. Tree!BestIndex(d) \in tree
    BY BestIs, IndexesAre
  <2>6. Todo(gr, d) => (\A p : ~At(k, p, Tree!Moved(d))) /\ ~At(k, d, Tree!BestIndex(d))
    <3> SUFFICES ASSUME Todo(gr, d)
                 PROVE  (\A p : ~At(k, p, Tree!Moved(d))) /\ ~At(k, d, Tree!BestIndex(d))
      OBVIOUS
    <3>1. Todo(fr, d) /\ d # t
      BY <1>2
    <3>2. Tree!Moved(d) # Tree!BestIndex(t) /\ Tree!Moved(d) # Tree!Moved(t)
      BY <1>4, <3>1
    <3>3. Tree!BestIndex(d) # Tree!Moved(t)
      BY <1>4, <2>5
    <3> QED BY <1>3, <2>2, <3>1, <3>2, <3>3
  <2> QED BY <2>4, <2>6 DEF At
<1>7. Indexed(gr, k)
  <2>1. \A i \in 1 .. n - 1 : i \in 1 .. n
    BY DEF Closed
  <2>2. ASSUME NEW i \in 1 .. n - 1 PROVE Best(k, gr[i].dir, gr[i].files, gr[i].index)
    <3>1. Best(m, fr[i].dir, fr[i].files, fr[i].index) /\ gr[i] = fr[i]
      BY <2>1 DEF UnderWay, Indexed, Closed
    <3> QED BY <3>1 DEF Best
  <2> QED BY <2>2 DEF Indexed, Closed
<1> QED BY <1>2, <1>5, <1>6, <1>7 DEF UnderWay

\* A directory or its redirection whose path is taken throws.
LEMMA DirCollides ==
  ASSUME tree \in Trees, NEW fr, NEW gr, NEW n, NEW m, UnderWay(fr, m), Closed(fr, gr, n),
         fr[n].index # Tree!None
  PROVE  /\ fr[n].dir \in DOMAIN m => Collision(m)
         /\ \A k : /\ Inserted(m, k, fr[n].dir, fr[n].index)
                   /\ Len(fr[n].dir) > 1 /\ Tree!Front(fr[n].dir) \in DOMAIN k
                   => Collision(k)
<1> DEFINE t == fr[n].dir
<1>1. Tree!Indexes(t) # {} /\ fr[n].index = Tree!BestIndex(t) /\ t \in Tree!Dirs
  BY IndexBest
<1>2. Todo(fr, t)
  BY ClosedNested DEF UnderWay
<1>3. (\A p \in DOMAIN m : m[p] # Tree!Moved(t)) /\ (t \in DOMAIN m => m[t] # Tree!BestIndex(t))
  BY <1>1, <1>2 DEF UnderWay, DirsIn, At
<1>4. t \in DOMAIN m => Collision(m)
  BY <1>1, <1>3, Collides, ClaimsAre DEF UnderWay
<1>5. ASSUME NEW k, Inserted(m, k, t, fr[n].index), Len(t) > 1, Tree!Front(t) \in DOMAIN k
      PROVE  Collision(k)
  <2>1. Claimed(k)
    BY <1>5, IndexInserted
  <2>2. Tree!BestIndex(t) # Tree!Moved(t)
    BY <1>1, BestIs, IndexesAre, MovedIs
  <2>3. k[Tree!Front(t)] # Tree!Moved(t)
    BY <1>1, <1>3, <1>5, <2>2 DEF Inserted
  <2> QED BY <1>1, <1>5, <2>1, <2>3, Collides, ClaimsAre
<1> QED BY <1>4, <1>5

\* A directory is loaded from its root.
LEMMA Started ==
  ASSUME tree \in Trees, NEW gr, gr = <<Tree!Frame(Tree!Root)>>, NEW m, Claimed(m), \A p \in DOMAIN m : m[p] \in Shared
  PROVE  UnderWay(gr, m)
<1>1. /\ Nested(gr) /\ Len(gr) = 1
      /\ \A x \in Tree!Dirs : Todo(gr, x)
      /\ \A f \in tree : Waiting(gr, f)
  BY StartedNested
<1>2. \A p \in DOMAIN m : m[p] \notin tree /\ \A d \in Tree!Dirs : m[p] # Tree!Moved(d)
  BY FileIs, MovedIs
<1>3. FilesIn(gr, m)
  BY <1>1, <1>2 DEF FilesIn, Tree!PublicFiles
<1>4. DirsIn(gr, m)
  <2>1. \A d : Tree!Indexes(d) # {} => Tree!BestIndex(d) \in tree
    BY BestIs, IndexesAre
  <2> QED BY <1>1, <1>2, <2>1 DEF DirsIn, At
<1>5. Landing(m)
  BY <1>2 DEF Landing, At
<1>6. Indexed(gr, m)
  <2>1. gr[1].dir = Tree!Root /\ gr[1].files = Tree!Files(Tree!Root) /\ gr[1].index = Tree!None
    BY DEF Tree!Frame
  <2>2. Tree!Indexes(Tree!Root) \subseteq Tree!Files(Tree!Root)
    BY DEF Tree!Indexes, Tree!PublicFiles, Tree!Files
  <2>3. \A i \in 1 .. 1 : i = 1
    OBVIOUS
  <2> QED BY <1>1, <2>1, <2>2, <2>3 DEF Indexed, Best
<1> QED BY <1>1, <1>3, <1>4, <1>5, <1>6 DEF UnderWay

\* What keeps the contents alive.
Kept(m, s) == \A p \in DOMAIN m : \E i \in DOMAIN s : s[i] = m[p]

Holds(e, s) == \A i \in DOMAIN s : \E j \in DOMAIN e : e[j] = s[i]

\* add() takes back what it appended, and nothing else, when the path is taken.
LEMMA ErasedKeeps ==
  ASSUME NEW S, NEW s \in Seq(S), NEW c \in S
  PROVE  /\ Append(s, c) \in Seq(S) /\ Holds(Append(s, c), s) /\ \E j \in DOMAIN Append(s, c) : Append(s, c)[j] = c
         /\ Tree!Erased(Append(s, c), c) \in Seq(S) /\ Holds(Tree!Erased(Append(s, c), c), s)
<1> DEFINE a == Append(s, c)
           n == Len(s)
<1>1. /\ n \in Nat /\ DOMAIN s = 1 .. n /\ \A i \in 1 .. n : s[i] \in S
  BY LenProperties, ElementOfSeq
<1>2. a \in Seq(S) /\ Len(a) = n + 1 /\ (\A i \in 1 .. n : a[i] = s[i]) /\ a[n + 1] = c
  BY AppendProperties
<1>3. DOMAIN a = 1 .. n + 1 /\ \A i \in 1 .. n + 1 : a[i] \in S
  BY <1>2, LenProperties, ElementOfSeq
<1> HIDE DEF a, n
<1>4. n + 1 \in 1 .. n + 1 /\ \A i \in 1 .. n : i \in 1 .. n + 1
  BY <1>1
<1> DEFINE I == {i \in 1 .. n + 1 : a[i] = c}
<1>5. PICK x \in I : \A y \in I : x <= y
  <2>1. I \in SUBSET Nat /\ I # {}
    BY <1>1, <1>2, <1>4
  <2> HIDE DEF I
  <2> QED BY <2>1, Least
<1> DEFINE First == CHOOSE i \in DOMAIN a : a[i] = c /\ \A j \in 1 .. i - 1 : a[j] # c
           o == First
<1>6. o \in 1 .. n + 1 /\ a[o] = c
  <2>1. x \in 1 .. n + 1 /\ a[x] = c
    OBVIOUS
  <2>2. \A j \in 1 .. x - 1 : j \in 1 .. n + 1 /\ ~(x <= j)
    BY <1>1, <2>1
  <2>3. \A j \in 1 .. x - 1 : a[j] # c
    BY <1>5, <2>2
  <2>4. \E i \in DOMAIN a : a[i] = c /\ \A j \in 1 .. i - 1 : a[j] # c
    BY <1>3, <2>1, <2>3
  <2> QED BY <1>3, <2>4
<1>7. Tree!Erased(a, c) = SubSeq(a, 1, o - 1) \o SubSeq(a, o + 1, n + 1)
  BY <1>2 DEF Tree!Erased, Tree!RemoveAt
<1> HIDE DEF o, I
<1> DEFINE u == SubSeq(a, 1, o - 1)
           v == SubSeq(a, o + 1, n + 1)
<1>8. o \in Nat /\ 1 <= o /\ o <= n + 1 /\ o - 1 \in Int /\ o + 1 \in Int /\ n + 1 \in Int
  BY <1>1, <1>6
<1>9. u \in Seq(S) /\ Len(u) = o - 1 /\ \A i \in 1 .. o - 1 : u[i] = a[i]
  <2>1. \A i \in 1 .. o - 1 : a[i] \in S
    BY <1>1, <1>3, <1>8
  <2>2. u \in Seq(S) /\ Len(u) = (IF 1 <= o - 1 THEN o - 1 - 1 + 1 ELSE 0)
        /\ \A i \in 1 .. o - 1 - 1 + 1 : u[i] = a[1 + i - 1]
    BY <1>8, <2>1, SubSeqProperties
  <2> HIDE DEF u
  <2>3. Len(u) = o - 1 /\ \A i \in 1 .. o - 1 : u[i] = a[i]
    BY <1>8, <2>2
  <2> QED BY <2>2, <2>3
<1>10. v \in Seq(S) /\ Len(v) = n + 1 - o /\ \A i \in 1 .. n + 1 - o : v[i] = a[o + i]
  <2> DEFINE b == o + 1
             z == n + 1
             w == SubSeq(a, b, z)
  <2>1. \A i \in b .. z : a[i] \in S
    BY <1>1, <1>3, <1>8
  <2>2. b \in Int /\ z \in Int /\ b = o + 1 /\ z = n + 1 /\ v = w
    BY <1>8
  <2> HIDE DEF b, z
  <2>3. w \in Seq(S) /\ Len(w) = (IF b <= z THEN z - b + 1 ELSE 0) /\ \A i \in 1 .. z - b + 1 : w[i] = a[b + i - 1]
    BY <2>1, <2>2, SubSeqProperties
  <2> HIDE DEF w, v
  <2>4. Len(w) = n + 1 - o /\ \A i \in 1 .. n + 1 - o : w[i] = a[o + i]
    BY <1>1, <1>8, <2>2, <2>3
  <2> QED BY <2>2, <2>3, <2>4
<1> HIDE DEF u, v
<1> DEFINE e == u \o v
<1>11. /\ e \in Seq(S) /\ Len(e) = Len(u) + Len(v)
       /\ \A i \in 1 .. Len(u) + Len(v) : e[i] = IF i <= Len(u) THEN u[i] ELSE v[i - Len(u)]
  BY <1>9, <1>10, ConcatProperties
<1> HIDE DEF e
<1>12. Len(e) = n /\ \A i \in 1 .. n : e[i] = IF i <= o - 1 THEN u[i] ELSE v[i - (o - 1)]
  BY <1>1, <1>8, <1>9, <1>10, <1>11
<1>13. DOMAIN e = 1 .. n
  BY <1>11, <1>12, LenProperties
<1>14. ASSUME NEW i \in 1 .. n PROVE \E j \in 1 .. n : e[j] = s[i]
  <2>1. CASE i < o
    <3>1. i \in 1 .. o - 1 /\ i <= o - 1
      BY <1>1, <1>8, <2>1
    <3> QED BY <1>2, <1>9, <1>12, <3>1
  <2>2. CASE i > o
    <3> DEFINE j == i - 1
               l == j - (o - 1)
    <3>1. j \in 1 .. n /\ ~(j <= o - 1) /\ l \in 1 .. n + 1 - o /\ o + l = i
      BY <1>1, <1>8, <2>2
    <3>2. e[j] = v[l]
      BY <1>12, <3>1
    <3>3. v[l] = a[o + l]
      BY <1>10, <3>1
    <3> QED BY <1>2, <3>1, <3>2, <3>3
  <2>3. CASE i = o
    <3> DEFINE l == n - (o - 1)
    <3>1. n \in 1 .. n /\ ~(n <= o - 1) /\ l \in 1 .. n + 1 - o /\ o + l = n + 1
      BY <1>1, <1>8, <2>3
    <3>2. e[n] = v[l]
      BY <1>12, <3>1
    <3>3. v[l] = a[o + l]
      BY <1>10, <3>1
    <3>4. s[i] = c
      BY <1>2, <1>6, <2>3
    <3> QED BY <1>2, <3>1, <3>2, <3>3, <3>4
  <2> QED BY <1>1, <1>8, <2>1, <2>2, <2>3
<1>15. Tree!Erased(a, c) = e
  BY <1>7 DEF e, u, v
<1>16. Holds(a, s) /\ Holds(e, s) /\ \E j \in DOMAIN a : a[j] = c
  BY <1>1, <1>2, <1>3, <1>4, <1>13, <1>14 DEF Holds
<1> QED BY <1>2, <1>11, <1>15, <1>16 DEF a

\* The frames as they are changed.
FrameOf == [dir : PathSeqs, files : SUBSET tree, dirs : SUBSET PathSeqs, index : tree \cup {Tree!None}]

\* Frames in a sequence.
LEMMA FramesAre ==
  ASSUME NEW fr \in Seq(FrameOf)
  PROVE  Len(fr) \in Nat /\ (\A i \in 1 .. Len(fr) : fr[i] \in FrameOf) /\ (fr # <<>> => Len(fr) >= 1)
<1>1. Len(fr) \in Nat /\ (fr # <<>> => Len(fr) \in Nat \ {0})
  BY EmptySeq
<1>2. \A i \in 1 .. Len(fr) : fr[i] \in FrameOf
  BY ElementOfSeq
<1> DEFINE n == Len(fr)
<1>3. n \in Nat \ {0} => n >= 1
  OBVIOUS
<1> QED BY <1>1, <1>2, <1>3

\* What load_directory begins with.
LEMMA FrameIs ==
  ASSUME tree \in Trees, NEW d, Dir(d)
  PROVE  /\ Tree!Frame(d) \in FrameOf
         /\ Tree!Frame(d).dir = d /\ Tree!Frame(d).files = Tree!Files(d)
         /\ Tree!Frame(d).dirs = Tree!Subdirs(d) /\ Tree!Frame(d).index = Tree!None
<1>1. d \in PathSeqs /\ Tree!Files(d) \in SUBSET tree
  BY DirIs DEF Tree!Files
<1>2. Tree!Subdirs(d) \in SUBSET PathSeqs
  BY SubdirsAre, DirIs
<1>3. Tree!Frame(d) = [dir |-> d, files |-> Tree!Files(d), dirs |-> Tree!Subdirs(d), index |-> Tree!None]
  BY DEF Tree!Frame
<1> QED BY <1>1, <1>2, <1>3 DEF FrameOf

\* LoadSubdirectory opens a directory,
LEMMA OpenedIs ==
  ASSUME tree \in Trees, NEW fr \in Seq(FrameOf), fr # <<>>, NEW d \in fr[Len(fr)].dirs, Dir(d)
  PROVE  LET gr == Append([fr EXCEPT ![Len(fr)].dirs = @ \ {d}], Tree!Frame(d)) IN
         gr \in Seq(FrameOf) /\ Opened(fr, gr, Len(fr), d)
<1> DEFINE n == Len(fr)
           r == [fr[n] EXCEPT !.dirs = @ \ {d}]
           lr == [fr EXCEPT ![n] = r]
           gr == Append(lr, Tree!Frame(d))
<1>1. n \in Nat /\ n >= 1 /\ n \in 1 .. n /\ \A i \in 1 .. n : fr[i] \in FrameOf
  BY FramesAre
<1>2. /\ r \in FrameOf /\ r.dir = fr[n].dir /\ r.files = fr[n].files /\ r.index = fr[n].index
      /\ r.dirs = fr[n].dirs \ {d}
  <2>1. fr[n] \in FrameOf
    BY <1>1
  <2> HIDE DEF n
  <2> QED BY <2>1 DEF FrameOf
<1> HIDE DEF r
<1>3. lr \in Seq(FrameOf) /\ Len(lr) = n /\ \A i \in 1 .. n : lr[i] = IF i = n THEN r ELSE fr[i]
  BY <1>1, <1>2, ExceptSeq
<1>4. Tree!Frame(d) \in FrameOf
  BY FrameIs
<1> HIDE DEF lr, n
<1>5. /\ gr \in Seq(FrameOf) /\ Len(gr) = n + 1 /\ gr[n + 1] = Tree!Frame(d)
      /\ \A i \in 1 .. n : gr[i] = lr[i]
  BY <1>3, <1>4, AppendProperties
<1> HIDE DEF gr
<1>6. \A i \in 1 .. n : gr[i].dir = fr[i].dir /\ gr[i].files = fr[i].files /\ gr[i].index = fr[i].index
  BY <1>2, <1>3, <1>5
<1>7. \A i \in 1 .. n : i # n => gr[i].dirs = fr[i].dirs
  BY <1>3, <1>5
<1>8. gr[n].dirs = fr[n].dirs \ {d}
  BY <1>1, <1>2, <1>3, <1>5
<1>9. Opened(fr, gr, n, d)
  BY <1>1, <1>5, <1>6, <1>7, <1>8, FrameIs DEF Opened, n
<1> QED BY <1>5, <1>9 DEF n, gr, lr, r

\* LoadFile takes a file,
LEMMA TakenIs ==
  ASSUME NEW fr \in Seq(FrameOf), fr # <<>>, NEW f \in fr[Len(fr)].files
  PROVE  LET gr == [fr EXCEPT ![Len(fr)].files = @ \ {f}]
             hr == [gr EXCEPT ![Len(fr)].index = IF Tree!Better(f, @) THEN f ELSE @] IN
         /\ gr \in Seq(FrameOf) /\ FileTaken(fr, gr, Len(fr), f) /\ gr[Len(fr)].index = fr[Len(fr)].index
         /\ hr \in Seq(FrameOf) /\ FileTaken(fr, hr, Len(fr), f)
         /\ hr[Len(fr)].index = IF Tree!Better(f, fr[Len(fr)].index) THEN f ELSE fr[Len(fr)].index
<1> DEFINE n == Len(fr)
           index == IF Tree!Better(f, fr[n].index) THEN f ELSE fr[n].index
           r == [fr[n] EXCEPT !.files = @ \ {f}]
           q == [r EXCEPT !.index = index]
           gr == [fr EXCEPT ![n] = r]
           hr == [gr EXCEPT ![n] = q]
<1>1. n \in Nat /\ n >= 1 /\ n \in 1 .. n /\ \A i \in 1 .. n : fr[i] \in FrameOf
  BY FramesAre
<1>2. f \in fr[n].files /\ fr[n] \in FrameOf
  BY <1>1
<1>3. f \in tree /\ fr[n].index \in tree \cup {Tree!None}
  <2> HIDE DEF n
  <2> QED BY <1>2 DEF FrameOf
<1>4. index \in tree \cup {Tree!None}
  BY <1>3
<1> HIDE DEF index
<1>5. /\ r \in FrameOf /\ r.dir = fr[n].dir /\ r.dirs = fr[n].dirs /\ r.index = fr[n].index
      /\ r.files = fr[n].files \ {f}
  <2> HIDE DEF n
  <2> QED BY <1>2 DEF FrameOf
<1> HIDE DEF r
<1>6. /\ q \in FrameOf /\ q.dir = fr[n].dir /\ q.dirs = fr[n].dirs /\ q.index = index
      /\ q.files = fr[n].files \ {f}
  <2> HIDE DEF n
  <2> QED BY <1>4, <1>5 DEF FrameOf
<1> HIDE DEF q
<1>7. gr \in Seq(FrameOf) /\ Len(gr) = n /\ \A i \in 1 .. n : gr[i] = IF i = n THEN r ELSE fr[i]
  BY <1>1, <1>5, ExceptSeq
<1> HIDE DEF gr
<1>8. hr \in Seq(FrameOf) /\ Len(hr) = n /\ \A i \in 1 .. n : hr[i] = IF i = n THEN q ELSE gr[i]
  <2>1. n \in 1 .. Len(gr)
    BY <1>1, <1>7
  <2> HIDE DEF n
  <2> QED BY <1>6, <1>7, <2>1, ExceptSeq
<1> HIDE DEF hr
<1>9. FileTaken(fr, gr, n, f) /\ gr[n].index = fr[n].index
  <2>1. \A i \in 1 .. n : gr[i].dir = fr[i].dir /\ gr[i].dirs = fr[i].dirs
    BY <1>5, <1>7
  <2>2. \A i \in 1 .. n : i # n => gr[i] = fr[i]
    BY <1>7
  <2>3. gr[n] = r
    BY <1>1, <1>7
  <2> QED BY <1>1, <1>2, <1>5, <1>7, <2>1, <2>2, <2>3 DEF FileTaken
<1>10. FileTaken(fr, hr, n, f) /\ hr[n].index = index
  <2>1. \A i \in 1 .. n : hr[i].dir = fr[i].dir /\ hr[i].dirs = fr[i].dirs
    BY <1>5, <1>6, <1>7, <1>8
  <2>2. \A i \in 1 .. n : i # n => hr[i] = fr[i]
    BY <1>7, <1>8
  <2>3. hr[n] = q
    BY <1>1, <1>8
  <2> QED BY <1>1, <1>2, <1>6, <1>8, <2>1, <2>2, <2>3 DEF FileTaken
<1>11. gr = [fr EXCEPT ![Len(fr)].files = @ \ {f}]
  BY DEF gr, r
<1>12. hr = [gr EXCEPT ![Len(fr)].index = IF Tree!Better(f, @) THEN f ELSE @]
  <2>1. gr[n] = r /\ r.index = fr[n].index
    BY <1>1, <1>5, <1>7
  <2> QED BY <2>1 DEF hr, q, index
<1> QED BY <1>7, <1>8, <1>9, <1>10, <1>11, <1>12 DEF index

\* and EndDirectory ends a directory.
LEMMA ClosedIs ==
  ASSUME NEW fr \in Seq(FrameOf), fr # <<>>, fr[Len(fr)].files = {}, fr[Len(fr)].dirs = {}
  PROVE  /\ Tree!Front(fr) \in Seq(FrameOf) /\ Closed(fr, Tree!Front(fr), Len(fr))
         /\ (Tree!Front(fr) = <<>> <=> Len(fr) = 1)
<1> DEFINE n == Len(fr)
           m == n - 1
           gr == SubSeq(fr, 1, m)
<1>1. n \in Nat /\ n >= 1 /\ \A i \in 1 .. n : fr[i] \in FrameOf
  BY FramesAre
<1>2. m \in Nat /\ 1 \in Int /\ m \in Int /\ \A i \in 1 .. m : fr[i] \in FrameOf
  BY <1>1
<1> HIDE DEF m
<1>3. /\ gr \in Seq(FrameOf) /\ Len(gr) = (IF 1 <= m THEN m - 1 + 1 ELSE 0)
      /\ \A i \in 1 .. m - 1 + 1 : gr[i] = fr[1 + i - 1]
  BY <1>2, SubSeqProperties
<1> HIDE DEF gr
<1>4. Len(gr) = m /\ \A i \in 1 .. m : gr[i] = fr[i]
  BY <1>2, <1>3
<1>5. Closed(fr, gr, n)
  BY <1>1, <1>4 DEF Closed, m
<1>6. gr = <<>> <=> n = 1
  <2>1. gr # <<>> => Len(gr) \in Nat \ {0}
    BY <1>3, EmptySeq
  <2>2. gr = <<>> => Len(gr) = 0
    OBVIOUS
  <2>3. m = 0 <=> n = 1
    BY <1>1 DEF m
  <2> QED BY <1>4, <2>1, <2>2, <2>3
<1>7. Tree!Front(fr) = gr
  BY DEF Tree!Front, gr, m
<1> QED BY <1>3, <1>5, <1>6, <1>7

\* What keeps the contents of a directory is one of these.
Things == Shared \cup tree \cup {Tree!Moved(d) : d \in Tree!Dirs}

\* The inductive invariant of a directory content.
TreeInv ==
  /\ tree \in Trees /\ state \in {"adding", "loading", "loaded", "thrown"}
  /\ frames \in Seq(FrameOf) /\ (frames # <<>> <=> state = "loading")
  /\ managed \in Seq(Things)
  /\ Claimed(contentMap) /\ Landing(contentMap) /\ Kept(contentMap, managed) /\ Nested(frames)
  /\ state = "adding" => \A p \in DOMAIN contentMap : contentMap[p] \in Shared
  /\ state = "loading" => UnderWay(frames, contentMap)
  /\ state = "loaded" => AllIn(contentMap)
  /\ state = "thrown" => Collision(contentMap)

\* What is said of the tree stays said: no step changes it.
LEMMA BestAlways == \A d : Tree!Indexes(d) # {} =>
  /\ Tree!BestIndex(d) \in Tree!Indexes(d)
  /\ \A g \in Tree!Indexes(d) : Rank(Tree!BestIndex(d)) <= Rank(g)
BY BestIs

\* What is claimed stays so while the tree does.
LEMMA TreeSame ==
  ASSUME tree \in Trees, UNCHANGED <<tree, omit>>
  PROVE  /\ Tree!Dirs' = Tree!Dirs /\ Tree!PublicFiles' = Tree!PublicFiles
         /\ \A d : (Tree!Files(d))' = Tree!Files(d) /\ (Tree!Indexes(d))' = Tree!Indexes(d)
         /\ \A d : Tree!Indexes(d) # {} => (Tree!BestIndex(d))' = Tree!BestIndex(d)
         /\ \A f : (Tree!NodePath(f))' = Tree!NodePath(f)
         /\ Tree!Claims' = Tree!Claims
<1>1. Tree!Dirs' = Tree!Dirs /\ Tree!PublicFiles' = Tree!PublicFiles
  BY DEF Tree!Dirs, Tree!PublicFiles
<1>2. \A d : (Tree!Files(d))' = Tree!Files(d) /\ (Tree!Indexes(d))' = Tree!Indexes(d)
  BY <1>1 DEF Tree!Files, Tree!Indexes
<1>3. \A f : (Tree!NodePath(f))' = Tree!NodePath(f)
  BY DEF Tree!NodePath
<1>4. (\A d : Tree!Indexes(d) # {} =>
         /\ Tree!BestIndex(d) \in Tree!Indexes(d)
         /\ \A g \in Tree!Indexes(d) : Rank(Tree!BestIndex(d)) <= Rank(g))'
  BY BestAlways, PTL
<1>5. ASSUME NEW d, Tree!Indexes(d) # {} PROVE (Tree!BestIndex(d))' = Tree!BestIndex(d)
  <2>1. /\ (Tree!BestIndex(d))' \in Tree!Indexes(d)
        /\ \A g \in Tree!Indexes(d) : Rank((Tree!BestIndex(d))') <= Rank(g)
    BY <1>2, <1>4, <1>5
  <2> QED BY <2>1, BestOnce
<1>6. Tree!Claims' = Tree!Claims
  <2>1. {<<Tree!NodePath(f), f>> : f \in Tree!PublicFiles}' = {<<Tree!NodePath(f), f>> : f \in Tree!PublicFiles}
    BY <1>1, <1>3
  <2>2. {<<d, Tree!BestIndex(d)>> : d \in {e \in Tree!Dirs : Tree!Indexes(e) # {}}}'
          = {<<d, Tree!BestIndex(d)>> : d \in {e \in Tree!Dirs : Tree!Indexes(e) # {}}}
    BY <1>1, <1>2, <1>5
  <2>3. {<<Tree!Front(d), [moved |-> d]>> : d \in {e \in Tree!Dirs : Len(e) > 1 /\ Tree!Indexes(e) # {}}}'
          = {<<Tree!Front(d), [moved |-> d]>> : d \in {e \in Tree!Dirs : Len(e) > 1 /\ Tree!Indexes(e) # {}}}
    BY <1>1, <1>2
  <2> QED BY <2>1, <2>2, <2>3 DEF Tree!Claims
<1> QED BY <1>1, <1>2, <1>3, <1>5, <1>6

\* What is said of the contents with the new values is said of the new state.
LEMMA SaidStill ==
  ASSUME tree \in Trees, UNCHANGED <<tree, omit>>
  PROVE  /\ Claimed(contentMap') => (Claimed(contentMap))'
         /\ Landing(contentMap') => (Landing(contentMap))'
         /\ AllIn(contentMap') => (AllIn(contentMap))'
         /\ Collision(contentMap') => (Collision(contentMap))'
         /\ Kept(contentMap', managed') => (Kept(contentMap, managed))'
         /\ Nested(frames') => (Nested(frames))'
         /\ FilesIn(frames', contentMap') => (FilesIn(frames, contentMap))'
         /\ DirsIn(frames', contentMap') => (DirsIn(frames, contentMap))'
         /\ Indexed(frames', contentMap') => (Indexed(frames, contentMap))'
         /\ FrameOf' = FrameOf /\ Things' = Things
<1>1. Claimed(contentMap') => (Claimed(contentMap))'
  BY TreeSame DEF Claimed, Tree!Valid
<1>2. Landing(contentMap') => (Landing(contentMap))'
  BY TreeSame DEF Landing, At, Tree!Front, Tree!Moved
<1>3. AllIn(contentMap') => (AllIn(contentMap))'
  BY TreeSame DEF AllIn, At
<1>4. Collision(contentMap') => (Collision(contentMap))'
  BY TreeSame DEF Collision
<1>5. Kept(contentMap', managed') => (Kept(contentMap, managed))'
  BY DEF Kept
<1>6. Nested(frames') => (Nested(frames))'
  <2>1. Shaped(frames') => (Shaped(frames))'
    BY TreeSame DEF Shaped, Dir, Tree!Directory
  <2>2. Unlike(frames') => (Unlike(frames))'
    BY DEF Unlike
  <2>3. Ahead(frames') => (Ahead(frames))'
    BY DEF Ahead, Under
  <2>4. Apart(frames') => (Apart(frames))'
    BY DEF Apart, Under
  <2> QED BY <2>1, <2>2, <2>3, <2>4 DEF Nested
<1>7. (\A x : Todo(frames', x) <=> (Todo(frames, x))') /\ \A g : Waiting(frames', g) <=> (Waiting(frames, g))'
  BY DEF Todo, Pending, Open, Waiting, Under
<1>8. \A q, c : At(contentMap', q, c) <=> (At(contentMap, q, c))'
  BY DEF At
<1>9. FilesIn(frames', contentMap') => (FilesIn(frames, contentMap))'
  <2> SUFFICES ASSUME FilesIn(frames', contentMap'), NEW f \in Tree!PublicFiles
               PROVE  /\ (Waiting(frames, f))' \/ (At(contentMap, Tree!NodePath(f), f))'
                      /\ (Waiting(frames, f))' => \A p \in DOMAIN contentMap' : contentMap'[p] # f
    BY TreeSame DEF FilesIn
  <2>1. (At(contentMap, Tree!NodePath(f), f))' <=> At(contentMap', Tree!NodePath(f), f)
    BY TreeSame DEF At
  <2> QED BY <1>7, <2>1 DEF FilesIn
<1>10. DirsIn(frames', contentMap') => (DirsIn(frames, contentMap))'
  <2> SUFFICES ASSUME DirsIn(frames', contentMap'), NEW d \in Tree!Dirs, Tree!Indexes(d) # {}
               PROVE  /\ (Todo(frames, d))' \/ ((At(contentMap, d, Tree!BestIndex(d)))' /\ (Redirection(contentMap, d))')
                      /\ (Todo(frames, d))' => /\ \A p \in DOMAIN contentMap' : contentMap'[p] # Tree!Moved(d)
                                               /\ ~(At(contentMap, d, Tree!BestIndex(d)))'
    BY TreeSame DEF DirsIn, Tree!Moved
  <2>1. (At(contentMap, d, Tree!BestIndex(d)))' <=> At(contentMap', d, Tree!BestIndex(d))
    BY TreeSame DEF At
  <2>2. (Redirection(contentMap, d))' <=> Redirection(contentMap', d)
    BY DEF Redirection, At, Tree!Front, Tree!Moved
  <2> QED BY <1>7, <2>1, <2>2 DEF DirsIn
<1>11. Indexed(frames', contentMap') => (Indexed(frames, contentMap))'
  <2>1. \A i : Best(contentMap', frames'[i].dir, frames'[i].files, frames'[i].index)
                 <=> (Best(contentMap, frames[i].dir, frames[i].files, frames[i].index))'
    BY TreeSame DEF Best, At, Rank, Tree!Priorities, Tree!Min, Tree!None
  <2> QED BY <2>1 DEF Indexed
<1>12. FrameOf' = FrameOf
  BY DEF FrameOf, PathSeqs, Tree!None
<1>13. Things' = Things
  BY TreeSame DEF Things, Tree!Moved
<1> QED BY <1>1, <1>2, <1>3, <1>4, <1>5, <1>6, <1>9, <1>10, <1>11, <1>12, <1>13

\* A step of the tree, in what it makes of the contents and of the frames.
LEMMA TreeStepped ==
  ASSUME tree \in Trees, UNCHANGED <<tree, omit>>,
         state' \in {"adding", "loading", "loaded", "thrown"},
         frames' \in Seq(FrameOf), frames' # <<>> <=> state' = "loading",
         managed' \in Seq(Things),
         Claimed(contentMap'), Landing(contentMap'), Kept(contentMap', managed'),
         state' = "adding" => \A p \in DOMAIN contentMap' : contentMap'[p] \in Shared,
         state' = "loading" => UnderWay(frames', contentMap'),
         state' = "loaded" => AllIn(contentMap'),
         state' = "thrown" => Collision(contentMap')
  PROVE  TreeInv'
<1>1. Nested(frames')
  <2>1. CASE state' = "loading"
    BY <2>1 DEF UnderWay
  <2>2. CASE frames' = <<>>
    <3>1. Len(frames') = 0
      BY <2>2
    <3> QED BY <3>1, EmptyNested
  <2> QED BY <2>1, <2>2
<1>2. UnderWay(frames', contentMap') => (UnderWay(frames, contentMap))'
  BY SaidStill DEF UnderWay
<1> QED BY <1>1, <1>2, SaidStill DEF TreeInv

\* add() inserts a content, or leaves all as it was.
LEMMA AddedIs ==
  ASSUME NEW p, NEW c \in Things, managed \in Seq(Things), Kept(contentMap, managed), Tree!Added(p, c)
  PROVE  /\ managed' \in Seq(Things) /\ Kept(contentMap', managed')
         /\ p \in DOMAIN contentMap => contentMap' = contentMap
         /\ p \notin DOMAIN contentMap => Inserted(contentMap, contentMap', p, c)
<1> DEFINE a == Append(managed, c)
<1>1. /\ a \in Seq(Things) /\ Holds(a, managed) /\ \E j \in DOMAIN a : a[j] = c
      /\ Tree!Erased(a, c) \in Seq(Things) /\ Holds(Tree!Erased(a, c), managed)
  BY ErasedKeeps
<1> HIDE DEF a
<1>2. CASE p \in DOMAIN contentMap
  <2>1. managed' = Tree!Erased(a, c) /\ contentMap' = contentMap
    BY <1>2 DEF Tree!Added, Tree!Taken, a
  <2>2. managed' \in Seq(Things) /\ \A i \in DOMAIN managed : \E j \in DOMAIN managed' : managed'[j] = managed[i]
    BY <1>1, <2>1 DEF Holds
  <2> QED BY <1>2, <2>1, <2>2 DEF Kept
<1>3. CASE p \notin DOMAIN contentMap
  <2>1. managed' = a /\ contentMap' = Tree!Insert(contentMap, p, c)
    BY <1>3 DEF Tree!Added, Tree!Taken, a
  <2>2. /\ managed' \in Seq(Things) /\ \E j \in DOMAIN managed' : managed'[j] = c
        /\ \A i \in DOMAIN managed : \E j \in DOMAIN managed' : managed'[j] = managed[i]
    BY <1>1, <2>1 DEF Holds
  <2>3. Inserted(contentMap, contentMap', p, c)
    BY <1>3, <2>1, InsertIs
  <2> QED BY <1>3, <2>2, <2>3 DEF Kept, Inserted
<1> QED BY <1>2, <1>3

\* A content that the program adds keeps the invariant,
LEMMA AddKept == ASSUME TreeInv, Tree!Add PROVE TreeInv'
<1>1. PICK p \in SharedPaths : \E c \in Shared :
        /\ state = "adding"
        /\ IF Tree!Valid(p) THEN Tree!Added(p, c) ELSE UNCHANGED <<contentMap, managed>>
        /\ UNCHANGED <<tree, omit, regexMap, frames, state, path, found>>
  BY DEF Tree!Add
<1>2. PICK c \in Shared :
        /\ state = "adding"
        /\ IF Tree!Valid(p) THEN Tree!Added(p, c) ELSE UNCHANGED <<contentMap, managed>>
        /\ UNCHANGED <<tree, omit, regexMap, frames, state, path, found>>
  BY <1>1
<1>3. /\ tree \in Trees /\ managed \in Seq(Things) /\ Claimed(contentMap) /\ Kept(contentMap, managed)
      /\ \A q \in DOMAIN contentMap : contentMap[q] \in Shared
      /\ frames \in Seq(FrameOf) /\ Landing(contentMap) /\ frames = <<>>
  BY <1>2 DEF TreeInv
<1>4. /\ managed' \in Seq(Things) /\ Kept(contentMap', managed') /\ Claimed(contentMap')
      /\ \A q \in DOMAIN contentMap' : contentMap'[q] \in Shared
  <2>1. CASE Tree!Valid(p)
    <3>1. c \in Things /\ Tree!Added(p, c)
      BY <1>2, <2>1 DEF Things
    <3>2. /\ managed' \in Seq(Things) /\ Kept(contentMap', managed')
          /\ p \in DOMAIN contentMap => contentMap' = contentMap
          /\ p \notin DOMAIN contentMap => Inserted(contentMap, contentMap', p, c)
      BY <1>3, <3>1, AddedIs
    <3>3. p \notin DOMAIN contentMap => Claimed(contentMap') /\ \A q \in DOMAIN contentMap' : contentMap'[q] \in Shared
      BY <1>3, <2>1, <3>2 DEF Claimed, Inserted
    <3> QED BY <1>3, <3>2, <3>3
  <2>2. CASE ~Tree!Valid(p)
    BY <1>2, <1>3, <2>2
  <2> QED BY <2>1, <2>2
<1>5. Landing(contentMap')
  BY <1>3, <1>4, MovedIs DEF Landing, At
<1> QED BY <1>2, <1>3, <1>4, <1>5, TreeStepped

\* so does the beginning of load_directory,
LEMMA StartKept == ASSUME TreeInv, Tree!LoadDirectory PROVE TreeInv'
<1>1. /\ state = "adding" /\ state' = "loading" /\ frames' = <<Tree!Frame(Tree!Root)>>
      /\ UNCHANGED <<tree, omit, contentMap, regexMap, managed, path, found>>
  BY DEF Tree!LoadDirectory
<1>2. /\ tree \in Trees /\ managed \in Seq(Things) /\ Claimed(contentMap) /\ Kept(contentMap, managed)
      /\ \A q \in DOMAIN contentMap : contentMap[q] \in Shared /\ Landing(contentMap)
  BY <1>1 DEF TreeInv
<1>3. UnderWay(frames', contentMap')
  BY <1>1, <1>2, Started
<1>4. frames' \in Seq(FrameOf) /\ frames' # <<>>
  <2>1. Tree!Frame(Tree!Root) \in FrameOf
    BY <1>2, FrameIs, RootIs
  <2>2. <<Tree!Frame(Tree!Root)>> \in Seq(FrameOf) /\ <<Tree!Frame(Tree!Root)>> # <<>>
    BY <2>1
  <2> QED BY <1>1, <2>2
<1>5. Landing(contentMap)
  BY <1>3, <1>1 DEF UnderWay
<1> QED BY <1>1, <1>2, <1>3, <1>4, <1>5, TreeStepped

\* a subdirectory,
LEMMA OpenKept == ASSUME TreeInv, Tree!LoadSubdirectory PROVE TreeInv'
<1>1. PICK d \in Tree!Top.dirs :
        /\ state = "loading"
        /\ frames' = Append([frames EXCEPT ![Len(frames)].dirs = @ \ {d}], Tree!Frame(d))
        /\ UNCHANGED <<tree, omit, contentMap, regexMap, managed, state, path, found>>
  BY DEF Tree!LoadSubdirectory
<1>2. /\ tree \in Trees /\ managed \in Seq(Things) /\ Claimed(contentMap) /\ Kept(contentMap, managed)
      /\ Landing(contentMap) /\ UnderWay(frames, contentMap) /\ frames \in Seq(FrameOf) /\ frames # <<>>
  BY <1>1 DEF TreeInv
<1>3. d \in frames[Len(frames)].dirs
  BY DEF Tree!Top, Tree!Last
<1>4. Dir(d)
  <2>1. Len(frames) \in 1 .. Len(frames)
    BY <1>2, FramesAre
  <2> QED BY <1>2, <1>3, <2>1 DEF UnderWay, Nested, Shaped
<1>5. frames' \in Seq(FrameOf) /\ Opened(frames, frames', Len(frames), d)
  BY <1>1, <1>2, <1>3, <1>4, OpenedIs
<1>6. frames' # <<>>
  <2>1. Len(frames') = Len(frames) + 1 /\ Len(frames) \in Nat
    BY <1>5 DEF Opened
  <2>2. Len(frames') # 0
    BY <2>1
  <2> QED BY <2>2
<1>7. UnderWay(frames', contentMap)
  BY <1>2, <1>5, OpenedOn
<1> QED BY <1>1, <1>2, <1>5, <1>6, <1>7, TreeStepped

\* and a file, whether it is passed over, loaded or in the way of another.
LEMMA FileKept == ASSUME TreeInv, Tree!LoadFile PROVE TreeInv'
<1> DEFINE n == Len(frames)
           left(f) == [frames EXCEPT ![n].files = @ \ {f}]
           both(f) == [left(f) EXCEPT ![n].index = IF Tree!Better(f, @) THEN f ELSE @]
<1>1. PICK f \in Tree!Top.files :
        /\ state = "loading"
        /\ IF f.ext \in Public THEN Tree!Load(Tree!NodePath(f), f, both(f))
           ELSE frames' = left(f) /\ UNCHANGED <<contentMap, managed, state>>
        /\ UNCHANGED <<tree, omit, regexMap, path, found>>
  BY DEF Tree!LoadFile
<1>2. /\ tree \in Trees /\ managed \in Seq(Things) /\ Claimed(contentMap) /\ Kept(contentMap, managed)
      /\ Landing(contentMap) /\ UnderWay(frames, contentMap) /\ frames \in Seq(FrameOf) /\ frames # <<>>
  BY <1>1 DEF TreeInv
<1>3. f \in frames[n].files
  BY DEF Tree!Top, Tree!Last
<1>4. /\ left(f) \in Seq(FrameOf) /\ FileTaken(frames, left(f), n, f) /\ left(f)[n].index = frames[n].index
      /\ both(f) \in Seq(FrameOf) /\ FileTaken(frames, both(f), n, f)
      /\ both(f)[n].index = IF Tree!Better(f, frames[n].index) THEN f ELSE frames[n].index
  BY <1>2, <1>3, TakenIs
<1> DEFINE gr == left(f)
           hr == both(f)
<1> HIDE DEF left, both
<1>5. gr # <<>> /\ hr # <<>>
  <2>1. Len(gr) >= 1 /\ Len(hr) >= 1
    BY <1>4 DEF FileTaken
  <2> QED BY <2>1
<1>6. f \in tree /\ Waiting(frames, f)
  BY <1>2, <1>4, TakenNested DEF UnderWay
<1> HIDE DEF n
<1>7. CASE f.ext \notin Public
  <2>1. f \notin Tree!PublicFiles
    BY <1>7 DEF Tree!PublicFiles
  <2>2. UnderWay(gr, contentMap)
    BY <1>2, <1>4, <2>1, PassedOver
  <2> QED BY <1>1, <1>2, <1>4, <1>5, <1>7, <2>2, TreeStepped
<1>8. CASE f.ext \in Public
  <2> DEFINE p == Tree!NodePath(f)
  <2>1. f \in Tree!PublicFiles /\ f \in Things
    BY <1>6, <1>8 DEF Tree!PublicFiles, Things
  <2>2. /\ Tree!Added(p, f)
        /\ p \in DOMAIN contentMap => frames' = <<>> /\ state' = "thrown"
        /\ p \notin DOMAIN contentMap => frames' = hr /\ UNCHANGED state
    BY <1>1, <1>8 DEF Tree!Load, Tree!Taken
  <2>3. /\ managed' \in Seq(Things) /\ Kept(contentMap', managed')
        /\ p \in DOMAIN contentMap => contentMap' = contentMap
        /\ p \notin DOMAIN contentMap => Inserted(contentMap, contentMap', p, f)
    BY <1>2, <2>1, <2>2, AddedIs
  <2>4. CASE p \in DOMAIN contentMap
    <3>1. Collision(contentMap)
      BY <1>2, <1>6, <2>1, <2>4, FileCollides
    <3>2. <<>> \in Seq(FrameOf)
      BY EmptySeq
    <3> QED BY <1>1, <1>2, <2>2, <2>3, <2>4, <3>1, <3>2, TreeStepped
  <2>5. CASE p \notin DOMAIN contentMap
    <3>1. UnderWay(hr, contentMap')
      BY <1>2, <1>4, <2>1, <2>3, <2>5, FileLoaded
    <3>2. Claimed(contentMap') /\ Landing(contentMap')
      BY <3>1 DEF UnderWay
    <3> QED BY <1>1, <1>2, <1>4, <1>5, <2>2, <2>3, <2>5, <3>1, <3>2, TreeStepped
  <2> QED BY <2>4, <2>5
<1> QED BY <1>7, <1>8

\* A new content is managed.
LEMMA AppendKeeps ==
  ASSUME NEW c \in Things, managed \in Seq(Things), NEW m, Kept(m, managed), NEW k, NEW p, Inserted(m, k, p, c)
  PROVE  Append(managed, c) \in Seq(Things) /\ Kept(k, Append(managed, c))
<1> DEFINE a == Append(managed, c)
<1>1. a \in Seq(Things) /\ Holds(a, managed) /\ \E j \in DOMAIN a : a[j] = c
  BY ErasedKeeps
<1> HIDE DEF a
<1>2. /\ a \in Seq(Things)
      /\ \A i \in DOMAIN managed : \E j \in DOMAIN a : a[j] = managed[i]
      /\ \E j \in DOMAIN a : a[j] = c
  BY <1>1 DEF Holds
<1>3. Kept(k, a)
  BY <1>2 DEF Kept, Inserted
<1> QED BY <1>2, <1>3 DEF a

\* The root is the only directory of one separator.
LEMMA Longer == ASSUME NEW d, Dir(d) PROVE Len(d) # 1 <=> Len(d) > 1
<1> DEFINE n == Len(d)
<1>1. n \in Nat /\ n >= 1
  BY DirIs
<1> HIDE DEF n
<1>2. n # 1 <=> n > 1
  BY <1>1
<1> QED BY <1>2 DEF n

\* The end of a directory keeps the invariant, whether its index or its redirection are inserted or
\* in the way of another.
LEMMA EndKept == ASSUME TreeInv, Tree!EndDirectory PROVE TreeInv'
<1> DEFINE n == Len(frames)
           t == frames[n].dir
           index == frames[n].index
           m == contentMap
           k == Tree!Insert(m, t, index)
           gr == Tree!Front(frames)
           Throws == index # Tree!None /\ (t \in DOMAIN m \/ (Len(t) # 1 /\ Tree!Front(t) \in DOMAIN m))
<1>1. /\ state = "loading" /\ frames[n].files = {} /\ frames[n].dirs = {}
      /\ UNCHANGED <<tree, omit, regexMap, path, found>>
  BY DEF Tree!EndDirectory, Tree!Top, Tree!Last
<1>2. \/ index = Tree!None /\ UNCHANGED <<contentMap, managed>>
      \/ index # Tree!None /\ Tree!AddIndex(t)
      \/ index # Tree!None /\ t \in DOMAIN m /\ UNCHANGED <<contentMap, managed>>
  BY DEF Tree!EndDirectory, Tree!Top, Tree!Last, Tree!Taken
<1>3. IF Throws THEN frames' = <<>> /\ state' = "thrown"
      ELSE frames' = gr /\ state' = IF n = 1 THEN "loaded" ELSE state
  BY DEF Tree!EndDirectory, Tree!Top, Tree!Last, Tree!Taken, Tree!Redirected
<1>4. /\ tree \in Trees /\ managed \in Seq(Things) /\ Claimed(m) /\ Kept(m, managed)
      /\ Landing(m) /\ UnderWay(frames, m) /\ frames \in Seq(FrameOf) /\ frames # <<>>
  BY <1>1 DEF TreeInv
<1>5. gr \in Seq(FrameOf) /\ Closed(frames, gr, n) /\ (gr = <<>> <=> n = 1)
  BY <1>1, <1>4, ClosedIs
<1>6. Dir(t)
  <2>1. n \in 1 .. n
    BY <1>4, FramesAre
  <2> QED BY <1>4, <2>1 DEF UnderWay, Nested, Shaped
<1>7. Len(t) # 1 <=> Len(t) > 1
  BY <1>6, Longer
<1>8. index = Tree!None => Tree!Indexes(t) = {}
  BY <1>4, <1>5, IndexBest
<1>9. index # Tree!None =>
        /\ Tree!Indexes(t) # {} /\ index = Tree!BestIndex(t) /\ t \in Tree!Dirs /\ At(m, Tree!NodePath(index), index)
  BY <1>4, <1>5, IndexBest
<1>10. index # Tree!None =>
         /\ t \in DOMAIN m => Collision(m)
         /\ \A l : Inserted(m, l, t, index) /\ Len(t) > 1 /\ Tree!Front(t) \in DOMAIN l => Collision(l)
  BY <1>4, <1>5, DirCollides
<1>11. <<>> \in Seq(FrameOf)
  BY EmptySeq
<1> HIDE DEF n, t, index, gr
\* What is left when the directory ends well.
<1>12. ASSUME ~Throws, UnderWay(gr, contentMap'), managed' \in Seq(Things), Kept(contentMap', managed')
       PROVE  TreeInv'
  <2>1. frames' = gr /\ state' = IF n = 1 THEN "loaded" ELSE "loading"
    BY <1>1, <1>3, <1>12
  <2>2. Claimed(contentMap') /\ Landing(contentMap') /\ FilesIn(gr, contentMap') /\ DirsIn(gr, contentMap')
    BY <1>12 DEF UnderWay
  <2>3. n = 1 => AllIn(contentMap')
    <3>1. gr = <<>> => Len(gr) = 0
      OBVIOUS
    <3> QED BY <1>5, <2>2, <3>1, NothingLeft
  <2>4. CASE n = 1
    BY <1>1, <1>4, <1>5, <1>12, <2>1, <2>2, <2>3, <2>4, TreeStepped
  <2>5. CASE n # 1
    BY <1>1, <1>4, <1>5, <1>12, <2>1, <2>2, <2>5, TreeStepped
  <2> QED BY <2>4, <2>5
\* And when it throws.
<1>13. ASSUME Throws, Claimed(contentMap'), Landing(contentMap'), Collision(contentMap'),
              managed' \in Seq(Things), Kept(contentMap', managed')
       PROVE  TreeInv'
  BY <1>1, <1>3, <1>4, <1>11, <1>13, TreeStepped
<1>14. CASE index = Tree!None /\ UNCHANGED <<contentMap, managed>>
  <2>1. UnderWay(gr, m)
    BY <1>4, <1>5, <1>14, EndedPlain DEF index, n
  <2> QED BY <1>4, <1>12, <1>14, <2>1
<1>15. CASE index # Tree!None /\ t \in DOMAIN m /\ UNCHANGED <<contentMap, managed>>
  BY <1>4, <1>10, <1>13, <1>15
<1>16. CASE index # Tree!None /\ Tree!AddIndex(t)
  <2>1. /\ t \notin DOMAIN m
        /\ IF ~(Len(t) # 1) \/ Tree!Front(t) \in DOMAIN m THEN contentMap' = k /\ UNCHANGED managed
           ELSE /\ contentMap' = Tree!Insert(k, Tree!Front(t), Tree!Moved(t))
                /\ managed' = Append(managed, Tree!Moved(t))
    BY <1>16 DEF Tree!AddIndex, Tree!Taken, Tree!Redirected, Tree!Top, Tree!Last, index, n
  <2>2. Inserted(m, k, t, index)
    BY <2>1, InsertIs
  <2>3. Claimed(k) /\ Landing(k)
    BY <1>4, <1>5, <1>16, <2>2, IndexInserted DEF t, index, n
  <2>4. Kept(k, managed)
    <3>1. \E i \in DOMAIN managed : managed[i] = index
      BY <1>4, <1>9, <1>16 DEF Kept, At
    <3> QED BY <1>4, <2>2, <3>1 DEF Kept, Inserted
  <2>5. /\ \A q, d : At(m, q, d) => At(k, q, d)
        /\ \A q, d : At(k, q, d) <=> At(m, q, d) \/ (q = t /\ d = index)
    BY <2>2, InsertedStays
  <2> HIDE DEF k
  <2>6. At(k, t, index)
    BY <2>5
  <2>7. CASE Len(t) = 1
    <3>1. contentMap' = k /\ UNCHANGED managed /\ ~Throws
      BY <2>1, <2>7
    <3>2. Redirection(k, t)
      BY <1>7, <2>7 DEF Redirection
    <3>3. UnderWay(gr, k)
      BY <1>4, <1>5, <1>16, <2>3, <2>5, <2>6, <3>2, EndedIndexed DEF t, index, n
    <3> QED BY <1>4, <1>12, <2>4, <3>1, <3>3
  <2>8. CASE Len(t) # 1 /\ Tree!Front(t) \in DOMAIN m
    <3>1. contentMap' = k /\ UNCHANGED managed /\ Throws
      BY <1>16, <2>1, <2>8
    <3>2. Tree!Front(t) \in DOMAIN k
      BY <2>2, <2>8 DEF Inserted
    <3>3. Collision(k)
      BY <1>7, <1>10, <1>16, <2>2, <2>8, <3>2
    <3> QED BY <1>4, <1>13, <2>3, <2>4, <3>1, <3>3
  <2>9. CASE Len(t) # 1 /\ Tree!Front(t) \notin DOMAIN m
    <3> DEFINE l == Tree!Insert(k, Tree!Front(t), Tree!Moved(t))
    <3>1. contentMap' = l /\ managed' = Append(managed, Tree!Moved(t)) /\ ~Throws
      BY <2>1, <2>9
    <3>2. Tree!Front(t) # t
      <4>1. Len(Tree!Front(t)) = Len(t) - 1 /\ Len(t) \in Nat
        BY <1>6, FrontIs, DirIs
      <4>2. Len(Tree!Front(t)) # Len(t)
        BY <4>1
      <4> QED BY <4>2
    <3>3. Tree!Front(t) \notin DOMAIN k
      BY <2>2, <2>9, <3>2 DEF Inserted
    <3>4. Inserted(k, l, Tree!Front(t), Tree!Moved(t))
      BY <3>3, InsertIs
    <3>5. Claimed(l) /\ Landing(l)
      BY <1>4, <1>7, <1>9, <1>16, <2>3, <2>6, <2>9, <3>4, MovedInserted
    <3>6. /\ \A q, d : At(k, q, d) => At(l, q, d)
          /\ \A q, d : At(l, q, d) <=> At(k, q, d) \/ (q = Tree!Front(t) /\ d = Tree!Moved(t))
      BY <3>4, InsertedStays
    <3>7. Tree!Moved(t) \in Things
      BY <1>9, <1>16 DEF Things
    <3>8. managed' \in Seq(Things) /\ Kept(l, managed')
      BY <1>4, <2>4, <3>1, <3>4, <3>7, AppendKeeps
    <3> HIDE DEF l
    <3>9. Redirection(l, t) /\ At(l, t, index)
      BY <2>6, <3>6 DEF Redirection
    <3>10. \A q, d : At(m, q, d) => At(l, q, d)
      BY <2>5, <3>6
    <3>11. \A q, d : At(l, q, d) => At(m, q, d) \/ (q = t /\ d = index) \/ d = Tree!Moved(t)
      BY <2>5, <3>6
    <3>12. UnderWay(gr, l)
      BY <1>4, <1>5, <1>16, <3>5, <3>9, <3>10, <3>11, EndedIndexed DEF t, index, n
    <3> QED BY <1>12, <3>1, <3>8, <3>12
  <2> QED BY <2>7, <2>8, <2>9
<1> QED BY <1>2, <1>14, <1>15, <1>16

\* The properties of a tree that is loaded.
LEMMA TreeHolds ==
  ASSUME TreeInv
  PROVE  /\ Tree!TypeOK /\ Tree!NoDangling /\ Tree!LoadedAsClaimed
         /\ Tree!ThrownForDuplicates /\ Tree!RedirectsLand
<1>1. tree \in Trees /\ Claimed(contentMap) /\ Landing(contentMap) /\ Nested(frames) /\ frames \in Seq(FrameOf)
  BY DEF TreeInv
<1>2. DOMAIN frames = 1 .. Len(frames)
  BY <1>1, LenProperties
<1>3. \A c \in Tree!Claims : Tree!Valid(c[1]) /\ c[2] \notin Shared /\ c = <<c[1], c[2]>>
  BY <1>1, ClaimsValid
<1>4. Tree!TypeOK
  <2>1. \A p \in DOMAIN contentMap : Tree!Valid(p)
    BY <1>1 DEF Claimed
  <2>2. \A i \in DOMAIN frames : frames[i].files \subseteq tree /\ Tree!Directory(frames[i].dir)
    BY <1>1, <1>2 DEF Nested, Shaped, Dir, Tree!Files
  <2>3. (frames # <<>>) = (state = "loading")
    BY DEF TreeInv
  <2> QED BY <2>1, <2>2, <2>3 DEF TreeInv, Tree!TypeOK
<1>5. Tree!NoDangling
  BY DEF TreeInv, Kept, Tree!NoDangling
<1>6. Tree!Unclaimed = {p \in DOMAIN contentMap : contentMap[p] \in Shared}
  BY DEF Tree!Unclaimed
<1>7. Tree!LoadedAsClaimed
  <2> SUFFICES ASSUME state = "loaded"
               PROVE  {<<p, contentMap[p]>> : p \in DOMAIN contentMap \ Tree!Unclaimed} = Tree!Claims
    BY DEF Tree!LoadedAsClaimed
  <2>1. AllIn(contentMap)
    BY DEF TreeInv
  <2>2. ASSUME NEW p \in DOMAIN contentMap \ Tree!Unclaimed PROVE <<p, contentMap[p]>> \in Tree!Claims
    BY <1>1, <1>6, <2>2 DEF Claimed
  <2>3. ASSUME NEW c \in Tree!Claims PROVE \E p \in DOMAIN contentMap \ Tree!Unclaimed : c = <<p, contentMap[p]>>
    <3>1. c[1] \in DOMAIN contentMap /\ contentMap[c[1]] = c[2]
      BY <2>1 DEF AllIn, At
    <3>2. c[1] \notin Tree!Unclaimed /\ c = <<c[1], contentMap[c[1]]>>
      BY <1>3, <1>6, <3>1
    <3> QED BY <3>1, <3>2
  <2> QED BY <2>2, <2>3
<1>8. Tree!ThrownForDuplicates
  <2> DEFINE Twice == \/ \E c, d \in Tree!Claims : c # d /\ c[1] = d[1]
                      \/ \E c \in Tree!Claims : c[1] \in Tree!Unclaimed
  <2>1. state = "thrown" => Twice
    BY <1>6 DEF TreeInv, Collision
  <2>2. ASSUME state = "loaded" PROVE ~Twice
    <3>1. \A c \in Tree!Claims : c[1] \in DOMAIN contentMap /\ contentMap[c[1]] = c[2]
      BY <2>2 DEF TreeInv, AllIn, At
    <3>2. \A c, d \in Tree!Claims : c[1] = d[1] => c = d
      <4>1. ASSUME NEW c \in Tree!Claims, NEW d \in Tree!Claims, c[1] = d[1] PROVE c = d
        <5>1. c[2] = d[2]
          BY <3>1, <4>1
        <5>2. <<c[1], c[2]>> = <<d[1], d[2]>>
          BY <4>1, <5>1
        <5>3. c = <<c[1], c[2]>> /\ d = <<d[1], d[2]>>
          BY <1>3
        <5> QED BY <5>2, <5>3, Zenon
      <4> QED BY <4>1
    <3>3. \A c \in Tree!Claims : c[1] \notin Tree!Unclaimed
      BY <1>3, <1>6, <3>1
    <3> QED BY <3>2, <3>3
  <2>3. state \in {"loaded", "thrown"} => (state = "thrown" <=> Twice)
    BY <2>1, <2>2
  <2> QED BY <2>3 DEF Tree!ThrownForDuplicates
<1>9. Tree!RedirectsLand
  <2> SUFFICES ASSUME NEW f \in tree, NEW p \in DOMAIN contentMap,
                      p = Tree!Front(f.dir), contentMap[p] \notin tree \cup Shared
               PROVE  /\ contentMap[p].moved \in DOMAIN contentMap
                      /\ contentMap[contentMap[p].moved] \in Tree!Indexes(f.dir)
    BY DEF Tree!RedirectsLand
  <2> DEFINE c == <<p, contentMap[p]>>
  <2>1. c \in Tree!Claims
    BY <1>1 DEF Claimed
  <2>2. ~ \E g \in Tree!PublicFiles : c = <<Tree!NodePath(g), g>>
    BY DEF Tree!PublicFiles
  <2>3. ~ \E d \in Tree!Dirs : Tree!Indexes(d) # {} /\ c = <<d, Tree!BestIndex(d)>>
    BY BestIs, IndexesAre
  <2>4. PICK d \in Tree!Dirs : Tree!Indexes(d) # {} /\ Len(d) > 1 /\ c = <<Tree!Front(d), Tree!Moved(d)>>
    BY <2>1, <2>2, <2>3, ClaimsAre
  <2>5. p = Tree!Front(d) /\ contentMap[p] = Tree!Moved(d)
    BY <2>4
  <2>6. d = f.dir
    BY <1>1, <2>5, DirsAre, FileIs, FrontOnce
  <2>7. At(contentMap, d, Tree!BestIndex(d))
    BY <1>1, <2>4, <2>5 DEF Landing, At
  <2>8. contentMap[p].moved = d
    BY <2>5 DEF Tree!Moved
  <2> QED BY <2>4, <2>6, <2>7, <2>8, BestIs DEF At
<1> QED BY <1>4, <1>5, <1>7, <1>8, <1>9

\* Which regex content was found: the first at its key.
FirstMatch(k, p, n) ==
  /\ k \in DOMAIN regexMap /\ Tree!IsPrefix(k, p) /\ n \in 1 .. Len(regexMap[k])
  /\ Tree!Suffix(p, k) \in regexMap[k][n].rests
  /\ \A i \in 1 .. n - 1 : Tree!Suffix(p, k) \notin regexMap[k][i].rests
\* A regex content that was found is the first of its key that matches the rest.
FoundFirst == path \notin DOMAIN contentMap /\ found # Tree!NotFound =>
  \E n : FirstMatch(found.at, path, n) /\ regexMap[found.at][n] = found.content

\* The types of the regex contents, and what was found by the last request.
LookInv ==
  /\ \A k \in DOMAIN regexMap : Tree!Valid(k) /\ k \in PathSeqs /\ regexMap[k] \in Seq(Regexes)
  /\ state \in {"adding", "loading"} => found = Tree!NotFound
  /\ FoundFirst

\* The property of what was found.
LEMMA FoundHolds == LookInv => Tree!FirstRegexFound
<1> SUFFICES ASSUME LookInv, path \notin DOMAIN contentMap, found # Tree!NotFound
             PROVE  /\ Tree!IsPrefix(found.at, path) /\ Tree!Suffix(path, found.at) \in found.content.rests
                    /\ \A i \in DOMAIN regexMap[found.at] : Tree!Suffix(path, found.at) \in regexMap[found.at][i].rests =>
                         \E j \in 1 .. i : regexMap[found.at][j] = found.content
  BY DEF Tree!FirstRegexFound
<1>1. PICK n : FirstMatch(found.at, path, n) /\ regexMap[found.at][n] = found.content
  BY DEF LookInv, FoundFirst
<1> DEFINE s == regexMap[found.at]
<1>2. s \in Seq(Regexes)
  BY <1>1 DEF LookInv, FirstMatch
<1>3. DOMAIN s = 1 .. Len(s) /\ Len(s) \in Nat
  BY <1>2, LenProperties
<1> HIDE DEF s
<1>4. n \in 1 .. Len(s) /\ \A i \in 1 .. n - 1 : Tree!Suffix(path, found.at) \notin s[i].rests
  BY <1>1 DEF FirstMatch, s
<1>5. ASSUME NEW i \in DOMAIN s, Tree!Suffix(path, found.at) \in s[i].rests
      PROVE  \E j \in 1 .. i : s[j] = found.content
  <2>1. i \notin 1 .. n - 1
    BY <1>4, <1>5
  <2>2. n \in 1 .. i
    BY <1>3, <1>4, <2>1
  <2> QED BY <1>1, <2>2 DEF s
<1> QED BY <1>1, <1>5 DEF FirstMatch, s

\* While nothing is asked, what was found stays.
LEMMA LoadsLookKept ==
  ASSUME LookInv, TreeInv, Tree!Add \/ Tree!Loads PROVE LookInv'
<1>1. UNCHANGED <<regexMap, path, found>> /\ state \in {"adding", "loading"}
  BY DEF Tree!Loads, Tree!Add, Tree!LoadDirectory, Tree!LoadSubdirectory, Tree!LoadFile, Tree!EndDirectory
<1>2. found = Tree!NotFound
  BY <1>1 DEF LookInv
<1>3. Tree!NotFound' = Tree!NotFound
  BY DEF Tree!NotFound, Tree!None
<1>4. FoundFirst'
  BY <1>1, <1>2, <1>3 DEF FoundFirst
<1> QED BY <1>1, <1>2, <1>3, <1>4 DEF LookInv, Tree!Valid, PathSeqs

\* Regex contents and requests leave the tree as it is.
LEMMA AsksTreeKept == ASSUME TreeInv, Tree!Asks PROVE TreeInv'
<1>1. UNCHANGED <<tree, omit, contentMap, managed, frames, state>>
  BY DEF Tree!Asks, Tree!AddRegex, Tree!Get
<1> QED BY <1>1, TreeStepped DEF TreeInv

\* A step of nothing keeps both invariants.
LEMMA StaysKept == ASSUME TreeInv, LookInv, UNCHANGED Tree!vars PROVE TreeInv' /\ LookInv'
<1>1. UNCHANGED <<tree, omit, contentMap, regexMap, managed, frames, state, path, found>>
  BY DEF Tree!vars
<1>2. TreeInv'
  BY <1>1, TreeStepped DEF TreeInv
<1>3. FoundFirst'
  BY <1>1 DEF LookInv, FoundFirst, FirstMatch, Tree!NotFound, Tree!None, Tree!IsPrefix, Tree!Suffix
<1>4. LookInv'
  BY <1>1, <1>3 DEF LookInv, Tree!Valid, PathSeqs, Tree!NotFound, Tree!None
<1> QED BY <1>2, <1>4

\* add_regex appends at its key, so the first match stays the first.
LEMMA RegexKept == ASSUME LookInv, TreeInv, Tree!AddRegex PROVE LookInv'
<1>1. PICK p \in RegexPaths : \E r \in Regexes :
        /\ state \in {"loaded", "thrown"} /\ Tree!Valid(p)
        /\ regexMap' = Tree!Insert(regexMap, p, (IF p \in DOMAIN regexMap THEN regexMap[p] ELSE <<>>) \o <<r>>)
        /\ UNCHANGED <<tree, omit, contentMap, managed, frames, state, path, found>>
  BY DEF Tree!AddRegex
<1>2. PICK r \in Regexes :
        /\ state \in {"loaded", "thrown"} /\ Tree!Valid(p)
        /\ regexMap' = Tree!Insert(regexMap, p, (IF p \in DOMAIN regexMap THEN regexMap[p] ELSE <<>>) \o <<r>>)
        /\ UNCHANGED <<tree, omit, contentMap, managed, frames, state, path, found>>
  BY <1>1
<1> DEFINE s == IF p \in DOMAIN regexMap THEN regexMap[p] ELSE <<>>
           u == s \o <<r>>
<1>3. p \in PathSeqs
  BY ContentAssumption DEF Tree!DirectoryAssumption, PathSeqs
<1>4. s \in Seq(Regexes)
  BY EmptySeq DEF LookInv
<1>5. <<r>> \in Seq(Regexes) /\ Len(<<r>>) = 1
  OBVIOUS
<1> HIDE DEF s
<1>6. Len(s) \in Nat /\ u \in Seq(Regexes) /\ Len(u) = Len(s) + Len(<<r>>)
      /\ \A i \in 1 .. Len(s) + Len(<<r>>) : u[i] = IF i <= Len(s) THEN s[i] ELSE <<r>>[i - Len(s)]
  BY <1>4, <1>5, ConcatProperties, LenProperties
<1> HIDE DEF u
<1>7. \A i \in 1 .. Len(s) : i \in 1 .. Len(u) /\ u[i] = s[i]
  BY <1>5, <1>6
<1>8. regexMap' = Tree!Insert(regexMap, p, u) /\ UNCHANGED <<contentMap, state, path, found>>
  BY <1>2 DEF u, s
<1>9. /\ DOMAIN regexMap' = DOMAIN regexMap \cup {p} /\ regexMap'[p] = u
      /\ \A k \in DOMAIN regexMap : k # p => regexMap'[k] = regexMap[k]
  BY <1>8 DEF Tree!Insert
<1>10. \A k \in DOMAIN regexMap' : Tree!Valid(k) /\ k \in PathSeqs /\ regexMap'[k] \in Seq(Regexes)
  BY <1>2, <1>3, <1>6, <1>9 DEF LookInv
<1>11. \A k, q, n : FirstMatch(k, q, n) =>
         /\ k \in DOMAIN regexMap' /\ Tree!IsPrefix(k, q) /\ n \in 1 .. Len(regexMap'[k])
         /\ Tree!Suffix(q, k) \in regexMap'[k][n].rests
         /\ (\A i \in 1 .. n - 1 : Tree!Suffix(q, k) \notin regexMap'[k][i].rests)
         /\ regexMap'[k][n] = regexMap[k][n]
  <2> SUFFICES ASSUME NEW k, NEW q, NEW n, FirstMatch(k, q, n)
               PROVE  /\ k \in DOMAIN regexMap' /\ Tree!IsPrefix(k, q) /\ n \in 1 .. Len(regexMap'[k])
                      /\ Tree!Suffix(q, k) \in regexMap'[k][n].rests
                      /\ (\A i \in 1 .. n - 1 : Tree!Suffix(q, k) \notin regexMap'[k][i].rests)
                      /\ regexMap'[k][n] = regexMap[k][n]
    OBVIOUS
  <2>1. /\ k \in DOMAIN regexMap /\ Tree!IsPrefix(k, q) /\ n \in 1 .. Len(regexMap[k])
        /\ Tree!Suffix(q, k) \in regexMap[k][n].rests
        /\ (\A i \in 1 .. n - 1 : Tree!Suffix(q, k) \notin regexMap[k][i].rests)
    BY DEF FirstMatch
  <2>2. CASE k # p
    BY <1>9, <2>1, <2>2
  <2>3. CASE k = p
    <3>1. regexMap[k] = s /\ regexMap'[k] = u
      BY <1>9, <2>1, <2>3 DEF s
    <3>2. n \in 1 .. Len(s) /\ \A i \in 1 .. n - 1 : i \in 1 .. Len(s)
      <4>1. n \in 1 .. Len(s)
        BY <2>1, <3>1
      <4> QED BY <1>6, <4>1
    <3>3. u[n] = s[n] /\ n \in 1 .. Len(u) /\ \A i \in 1 .. n - 1 : u[i] = s[i]
      BY <1>7, <3>2
    <3> QED BY <1>9, <2>1, <2>3, <3>1, <3>3
  <2> QED BY <2>2, <2>3
<1>12. FoundFirst'
  <2> SUFFICES ASSUME path' \notin DOMAIN contentMap', found' # Tree!NotFound
               PROVE  \E n : (FirstMatch(found.at, path, n))' /\ regexMap'[found'.at][n] = found'.content
    BY DEF FoundFirst, Tree!NotFound, Tree!None
  <2>1. PICK n : FirstMatch(found.at, path, n) /\ regexMap[found.at][n] = found.content
    BY <1>8 DEF LookInv, FoundFirst
  <2>2. (FirstMatch(found.at, path, n))'
    BY <1>8, <1>11, <2>1 DEF FirstMatch, Tree!IsPrefix, Tree!Suffix
  <2> QED BY <1>8, <1>11, <2>1, <2>2
<1>13. state' \in {"adding", "loading"} => found' = Tree!NotFound
  BY <1>8 DEF LookInv
<1> QED BY <1>10, <1>12, <1>13 DEF LookInv, Tree!Valid, PathSeqs, Tree!NotFound, Tree!None

\* The greatest of some numbers that are not above another.
LEMMA Greatest == ASSUME NEW n \in Nat, NEW T \in SUBSET (0 .. n), T # {}
                  PROVE  Tree!Max(T) \in T /\ \A y \in T : y <= Tree!Max(T)
<1> DEFINE U == {n - x : x \in T}
<1>1. \A x \in T : x \in Nat /\ x <= n /\ n - x \in Nat
  OBVIOUS
<1>2. U \in SUBSET Nat
  BY <1>1
<1>3. U # {}
  OBVIOUS
<1> HIDE DEF U
<1>4. PICK u \in U : \A v \in U : u <= v
  BY <1>2, <1>3, Least
<1>5. PICK x \in T : u = n - x
  BY DEF U
<1>6. ASSUME NEW y \in T PROVE x >= y
  <2>1. u <= n - y
    BY <1>4 DEF U
  <2> QED BY <1>1, <1>5, <2>1
<1>7. \E z \in T : \A y \in T : z >= y
  BY <1>6
<1>8. Tree!Max(T) \in T /\ \A y \in T : Tree!Max(T) >= y
  BY <1>7 DEF Tree!Max
<1> QED BY <1>1, <1>8

\* What a key shares with a path: all of it, if it is a prefix.
LEMMA CommonIs ==
  ASSUME NEW k \in PathSeqs, NEW p \in PathSeqs
  PROVE  /\ Tree!Common(k, p) \in Nat /\ Tree!Common(k, p) <= Len(k)
         /\ Tree!IsPrefix(k, p) => Tree!Common(k, p) = Len(k)
<1> DEFINE T == {i \in 0 .. Len(k) : i <= Len(p) /\ SubSeq(k, 1, i) = SubSeq(p, 1, i)}
           n == Len(k)
<1>1. n \in Nat /\ Len(p) \in Nat
  BY PathLengths
<1>2. 0 \in T
  <2>1. SubSeq(k, 1, 0) = <<>> /\ SubSeq(p, 1, 0) = <<>>
    BY SubSeqEmpty
  <2> QED BY <1>1, <2>1
<1>3. T \in SUBSET (0 .. n)
  OBVIOUS
<1>4. Tree!IsPrefix(k, p) => n \in T
  BY <1>1 DEF Tree!IsPrefix
<1>5. Tree!Common(k, p) = Tree!Max(T)
  BY DEF Tree!Common
<1> HIDE DEF T, n
<1>6. Tree!Max(T) \in T /\ \A y \in T : y <= Tree!Max(T)
  BY <1>1, <1>2, <1>3, Greatest
<1>7. Tree!Max(T) \in 0 .. n
  BY <1>3, <1>6
<1> DEFINE c == Tree!Max(T)
<1> HIDE DEF c
<1>8. c \in Nat /\ c <= n /\ (Tree!IsPrefix(k, p) => c = n)
  <2>1. c \in 0 .. n /\ (Tree!IsPrefix(k, p) => n <= c)
    BY <1>4, <1>6, <1>7 DEF c
  <2> QED BY <1>1, <2>1
<1> QED BY <1>5, <1>8 DEF c, n

\* The first pattern that matches at a key.
LEMMA MatchFirst ==
  ASSUME LookInv, NEW p, NEW k \in DOMAIN regexMap, Tree!IsPrefix(k, p), Tree!Matching(p, k) # {}
  PROVE  FirstMatch(k, p, Tree!Min(Tree!Matching(p, k)))
<1> DEFINE s == regexMap[k]
           T == Tree!Matching(p, k)
           n == Tree!Min(T)
<1>1. s \in Seq(Regexes)
  BY DEF LookInv
<1>2. DOMAIN s = 1 .. Len(s) /\ Len(s) \in Nat
  BY <1>1, LenProperties
<1>3. T = {i \in DOMAIN s : Tree!Suffix(p, k) \in s[i].rests}
  BY DEF Tree!Matching
<1> HIDE DEF s, T
<1>4. T \in SUBSET Nat /\ T # {}
  BY <1>2, <1>3 DEF T
<1>5. \E x \in T : \A y \in T : x <= y
  BY <1>4, Least
<1>6. n \in T /\ \A y \in T : n <= y
  BY <1>5 DEF Tree!Min
<1> HIDE DEF n
<1>7. n \in 1 .. Len(s) /\ Tree!Suffix(p, k) \in s[n].rests
  BY <1>2, <1>3, <1>6
<1>8. ASSUME NEW i \in 1 .. n - 1 PROVE Tree!Suffix(p, k) \notin s[i].rests
  <2>1. i \in DOMAIN s /\ ~(n <= i)
    BY <1>2, <1>7
  <2> QED BY <1>3, <1>6, <2>1
<1> QED BY <1>7, <1>8 DEF FirstMatch, s, n, T

\* A key that matches is found, unless another shares more with the path.
LEMMA MatchFound ==
  ASSUME LookInv, NEW p \in PathSeqs, Tree!RegexMatch(p) = {},
         NEW k \in DOMAIN regexMap, Tree!IsPrefix(k, p), Tree!Matching(p, k) # {}
  PROVE  \E q \in DOMAIN regexMap : Tree!Common(q, p) > Len(k)
<1> SUFFICES ASSUME \A q \in DOMAIN regexMap : ~(Tree!Common(q, p) > Len(k))
             PROVE  FALSE
  OBVIOUS
<1>1. \A q \in DOMAIN regexMap : q \in PathSeqs /\ Len(q) \in Nat
  BY PathLengths DEF LookInv
<1>2. \A q \in DOMAIN regexMap : Tree!Common(q, p) \in Nat /\ Tree!Common(q, p) <= Len(q)
  BY <1>1, CommonIs
<1>3. Tree!Common(k, p) = Len(k)
  BY <1>1, CommonIs
<1>4. \A q \in DOMAIN regexMap : Tree!Common(q, p) <= Tree!Common(k, p)
  BY <1>1, <1>2, <1>3
<1>5. k \in Tree!Closest(p)
  BY <1>4 DEF Tree!Closest
<1>6. ASSUME NEW q \in Tree!Closest(p) PROVE Len(k) <= Len(q)
  <2>1. q \in DOMAIN regexMap /\ Tree!Common(k, p) <= Tree!Common(q, p)
    BY DEF Tree!Closest
  <2> QED BY <1>1, <1>2, <1>3, <2>1
<1>7. k \in Tree!LongestMatch(p)
  BY <1>5, <1>6 DEF Tree!LongestMatch
<1>8. [content |-> regexMap[k][Tree!Min(Tree!Matching(p, k))], at |-> k] \in Tree!RegexMatch(p)
  BY <1>7 DEF Tree!RegexMatch
<1> QED BY <1>8

\* A request finds the first match, or none because of a longer key.
LEMMA AskedKept ==
  ASSUME LookInv, TreeInv, Tree!Get PROVE LookInv' /\ Tree!HiddenByLonger
<1>1. PICK p \in Requests :
        /\ state \in {"loaded", "thrown"} /\ path' = p
        /\ IF p \in DOMAIN contentMap THEN found' = [content |-> contentMap[p], at |-> p]
           ELSE found' \in Tree!RegexMatch(p) \cup (IF Tree!RegexMatch(p) = {} THEN {Tree!NotFound} ELSE {})
        /\ UNCHANGED <<tree, omit, contentMap, regexMap, managed, frames, state>>
  BY DEF Tree!Get
<1>2. p \in PathSeqs
  BY ContentAssumption DEF Tree!DirectoryAssumption, PathSeqs
<1>3. Tree!NotFound.at = <<>>
  BY DEF Tree!NotFound
<1>4. \A k \in DOMAIN regexMap : k # <<>>
  BY DEF LookInv, Tree!Valid
<1>5. \A q \in DOMAIN contentMap : q # <<>>
  BY DEF TreeInv, Claimed, Tree!Valid
<1>6. ASSUME found' \in Tree!RegexMatch(p)
      PROVE  /\ found' # Tree!NotFound
             /\ \E n : FirstMatch(found'.at, p, n) /\ regexMap[found'.at][n] = found'.content
  <2>1. PICK k \in DOMAIN regexMap :
          /\ Tree!IsPrefix(k, p) /\ Tree!Matching(p, k) # {}
          /\ found' = [content |-> regexMap[k][Tree!Min(Tree!Matching(p, k))], at |-> k]
    BY <1>6 DEF Tree!RegexMatch, Tree!LongestMatch, Tree!Closest
  <2>2. found'.at = k /\ found'.content = regexMap[k][Tree!Min(Tree!Matching(p, k))]
    BY <2>1
  <2>3. FirstMatch(k, p, Tree!Min(Tree!Matching(p, k)))
    BY <2>1, MatchFirst
  <2>4. found' # Tree!NotFound
    BY <1>3, <1>4, <2>2
  <2> QED BY <2>2, <2>3, <2>4
<1>7. FoundFirst'
  <2> SUFFICES ASSUME path' \notin DOMAIN contentMap', found' # Tree!NotFound
               PROVE  \E n : (FirstMatch(found.at, path, n))' /\ regexMap'[found'.at][n] = found'.content
    BY DEF FoundFirst, Tree!NotFound, Tree!None
  <2>1. found' \in Tree!RegexMatch(p)
    BY <1>1
  <2>2. PICK n : FirstMatch(found'.at, p, n) /\ regexMap[found'.at][n] = found'.content
    BY <1>6, <2>1
  <2>3. (FirstMatch(found.at, path, n))'
    BY <1>1, <2>2 DEF FirstMatch, Tree!IsPrefix, Tree!Suffix
  <2> QED BY <1>1, <2>2, <2>3
<1>8. LookInv'
  <2>1. \A k \in DOMAIN regexMap' : Tree!Valid(k) /\ k \in PathSeqs /\ regexMap'[k] \in Seq(Regexes)
    BY <1>1 DEF LookInv
  <2> QED BY <1>1, <1>7, <2>1 DEF LookInv, Tree!Valid, PathSeqs, Tree!NotFound, Tree!None
<1>9. ASSUME found' = Tree!NotFound PROVE Tree!RegexMatch(p) = {}
  <2>1. p \notin DOMAIN contentMap
    <3>1. ASSUME p \in DOMAIN contentMap PROVE FALSE
      <4>1. found'.at = p
        BY <1>1, <3>1
      <4> QED BY <1>3, <1>5, <1>9, <3>1, <4>1
    <3> QED BY <3>1
  <2> QED BY <1>1, <1>6, <1>9, <2>1
<1>10. Tree!HiddenByLonger
  <2> SUFFICES ASSUME found' = Tree!NotFound,
                      NEW k \in DOMAIN regexMap, Tree!IsPrefix(k, path'), Tree!Matching(path', k) # {}
               PROVE  \E q \in DOMAIN regexMap : Tree!Common(q, path') > Len(k)
    BY DEF Tree!HiddenByLonger
  <2> QED BY <1>1, <1>2, <1>9, MatchFound
<1> QED BY <1>8, <1>10

\* An empty directory content.
LEMMA TreeStarts == ASSUME Tree!Init PROVE TreeInv /\ LookInv
<1>1. /\ tree \in Trees /\ contentMap = <<>> /\ regexMap = <<>> /\ managed = <<>> /\ frames = <<>>
      /\ state = "adding" /\ found = Tree!NotFound
  BY DEF Tree!Init
<1>2. DOMAIN contentMap = {} /\ DOMAIN regexMap = {} /\ Len(frames) = 0
  BY <1>1
<1>3. frames \in Seq(FrameOf) /\ managed \in Seq(Things)
  BY <1>1, EmptySeq
<1>4. TreeInv
  BY <1>1, <1>2, <1>3, EmptyNested DEF TreeInv, Claimed, Landing, Kept, At
<1>5. LookInv
  BY <1>1, <1>2 DEF LookInv, FoundFirst
<1> QED BY <1>4, <1>5

\* Both invariants, where the composition follows a tree.
TreesInv == subject \in {"load", "lookup"} => TreeInv /\ LookInv

\* Every step keeps them, and a request does what it promises.
LEMMA TreesStep ==
  ASSUME TreesInv, [ContentNext]_contentVars
  PROVE  TreesInv' /\ [subject = "lookup" => LookInv' /\ Tree!HiddenByLonger]_contentVars
<1>1. CASE subject = "load" /\ (Tree!Add \/ Tree!Loads) /\ UNCHANGED subject
  BY <1>1, AddKept, StartKept, OpenKept, FileKept, EndKept, LoadsLookKept DEF TreesInv, Tree!Loads
<1>2. CASE subject = "lookup" /\ (Tree!Loads \/ Tree!Asks) /\ UNCHANGED subject
  <2>1. TreeInv /\ LookInv
    BY <1>2 DEF TreesInv
  <2>4. TreeInv' /\ LookInv'
    <3>1. CASE Tree!Loads
      BY <2>1, <3>1, StartKept, OpenKept, FileKept, EndKept, LoadsLookKept DEF Tree!Loads
    <3>2. CASE Tree!Asks
      BY <2>1, <3>2, AsksTreeKept, RegexKept, AskedKept DEF Tree!Asks
    <3> QED BY <1>2, <3>1, <3>2
  <2>5. Tree!HiddenByLonger
    <3>1. CASE Tree!Get
      BY <2>1, <3>1, AskedKept
    <3>2. CASE ~Tree!Get
      BY <3>2 DEF Tree!HiddenByLonger
    <3> QED BY <3>1, <3>2
  <2> QED BY <1>2, <2>4, <2>5 DEF TreesInv
<1>3. CASE subject = "static" /\ UNCHANGED subject
  BY <1>3 DEF TreesInv
<1>4. CASE UNCHANGED contentVars
  <2>1. UNCHANGED subject /\ UNCHANGED Tree!vars
    BY <1>4 DEF contentVars, Tree!vars
  <2> QED BY <1>4, <2>1, StaysKept DEF TreesInv
<1> QED BY <1>1, <1>2, <1>3, <1>4 DEF ContentNext

\* They hold in every state.
LEMMA TreesInvariant == ContentSpec => []TreesInv
<1>1. ContentInit => TreesInv
  BY TreeStarts DEF ContentInit, TreesInv
<1>2. TreesInv /\ [ContentNext]_contentVars => TreesInv'
  BY TreesStep
<1> QED BY <1>1, <1>2, PTL DEF ContentSpec

\* load_directory makes every public file and index document of any tree available at its path,
\* redirects to it, and drops none of the contents it points to; it throws exactly when two of them
\* ask for one path (add, load_file and load_directory of directory_content.hpp).
THEOREM DirectoriesLoad == ContentSpec => []TreeLoaded
<1>1. TreesInv => TreeLoaded
  BY TreeHolds DEF TreesInv, TreeLoaded
<1> QED BY <1>1, TreesInvariant, PTL

\* get_content finds the first regex content that matches at the key closest to the path, and finds
\* none only if a longer key is in the way (directory_content.hpp).
THEOREM RegexesFound == ContentSpec => RegexFound
<1>1. TreesInv /\ [ContentNext]_contentVars =>
        TreesInv' /\ [subject = "lookup" => LookInv' /\ Tree!HiddenByLonger]_contentVars
  BY TreesStep
<1>2. LookInv' => Tree!FirstRegexFound'
  BY FoundHolds, PTL
<1>3. TreesInv /\ [ContentNext]_contentVars =>
        [subject = "lookup" => Tree!FirstRegexFound' /\ Tree!HiddenByLonger]_contentVars
  BY <1>1, <1>2
<1> QED BY <1>3, TreesInvariant, PTL DEF ContentSpec, RegexFound
-----------------------------------------------------------------------------
(***************************************************************************)
(* The static content. What is stored is an arrangement of the content's   *)
(* encodings, the smallest first; what the client has came from here, so   *)
(* its tag is that of its body, and an equal date means the same content   *)
(* unless it was replaced within the second.                               *)
(***************************************************************************)
now == w1
encoded == w2
e_tag == w3
last_modified == w4
cache == w5
answer == w6
sameSecond == w7

USE DEF now, encoded, e_tag, last_modified, cache, answer, sameSecond

\* A content's body in each encoding of an arrangement.
Taken(order, c) == [i \in DOMAIN order |-> [body |-> c, encoding |-> order[i]]]

\* What the client has came from here: its tag is that of its body, and if nothing was replaced
\* in its second its date says which content it is.
CacheOf == [body : Contents, e_tag : Contents, date : 0 .. MaxTime]
CacheOK == /\ cache \in CacheOf /\ cache.body = cache.e_tag /\ cache.date <= last_modified
           /\ ~sameSecond /\ cache.date = last_modified => cache.e_tag = e_tag

\* What set_content stored of a content.
Stored(c) == \E order \in Static!Arranged(c) : encoded = Taken(order, c)

\* The inductive invariant of a static content.
StaticInv ==
  /\ now \in 0 .. MaxTime /\ sameSecond \in BOOLEAN
  /\ encoded # <<>> => e_tag \in Contents /\ last_modified \in 0 .. now /\ Stored(e_tag)
  /\ encoded = <<>> => cache = Nothing
  /\ cache # Nothing => CacheOK
  /\ answer.status \in {0, 200, 304} /\ answer.encoding \in Static!Encodings \cup {"none"}

\* An arrangement ends with the content itself; what comes before it is smaller and in order.
Kind(order, c) ==
  /\ order \in Seq(Static!Encodings) /\ Len(order) \in 1 .. 3 /\ order[Len(order)] = "identity"
  /\ \A i \in 1 .. Len(order) - 1 : order[i] \in Static!Smaller(c)
  /\ \A e \in Static!Smaller(c) : \E i \in 1 .. Len(order) - 1 : order[i] = e
  /\ \A i, j \in 1 .. Len(order) - 1 : i < j => Size[c][order[i]] <= Size[c][order[j]]

\* What sorting by size leaves is such an arrangement.
LEMMA ArrangedKind == ASSUME NEW c, NEW order \in Static!Arranged(c) PROVE Kind(order, c)
<1>1. PICK s \in {<<>>, <<"gzip">>, <<"deflate">>, <<"gzip", "deflate">>, <<"deflate", "gzip">>} :
        order = Append(s, "identity") /\ Static!ToSet(s) = Static!Smaller(c) /\ Static!Sorted(c, s)
  BY DEF Static!Arranged
<1>2. Static!Smaller(c) = {s[i] : i \in DOMAIN s}
  BY <1>1 DEF Static!ToSet
<1>3. \A i, j \in DOMAIN s : i < j => Size[c][s[i]] <= Size[c][s[j]]
  BY <1>1 DEF Static!Sorted
<1>4. CASE s = <<>>
  BY <1>1, <1>2, <1>3, <1>4 DEF Kind, Static!Encodings
<1>5. CASE s = <<"gzip">>
  BY <1>1, <1>2, <1>3, <1>5 DEF Kind, Static!Encodings
<1>6. CASE s = <<"deflate">>
  BY <1>1, <1>2, <1>3, <1>6 DEF Kind, Static!Encodings
<1>7. CASE s = <<"gzip", "deflate">>
  BY <1>1, <1>2, <1>3, <1>7 DEF Kind, Static!Encodings
<1>8. CASE s = <<"deflate", "gzip">>
  BY <1>1, <1>2, <1>3, <1>8 DEF Kind, Static!Encodings
<1> QED BY <1>1, <1>4, <1>5, <1>6, <1>7, <1>8

\* The one chosen is the first that the client takes.
\* The first encoding that the client takes.
First(order, accepted, n) ==
  /\ n \in 1 .. Len(order) /\ order[n] \in accepted \cup {"identity"}
  /\ \A i \in 1 .. n - 1 : order[i] \notin accepted \cup {"identity"}

\* on_get chooses the first.
LEMMA ChosenFirst ==
  ASSUME NEW c, NEW order, Kind(order, c), encoded = Taken(order, c), NEW accepted
  PROVE  /\ First(order, accepted, Static!Chosen(accepted))
         /\ encoded[Static!Chosen(accepted)] = [body |-> c, encoding |-> order[Static!Chosen(accepted)]]
<1> DEFINE I == {i \in 1 .. Len(encoded) : encoded[i].encoding = "identity" \/ encoded[i].encoding \in accepted}
           n == Static!Chosen(accepted)
<1>1. order \in Seq(Static!Encodings) /\ Len(order) \in 1 .. 3 /\ order[Len(order)] = "identity"
  BY DEF Kind
<1>2. DOMAIN order = 1 .. Len(order)
  BY <1>1, LenProperties
<1>3. Len(encoded) = Len(order) /\ \A i \in 1 .. Len(order) : encoded[i] = [body |-> c, encoding |-> order[i]]
  <2>1. encoded = [i \in 1 .. Len(order) |-> [body |-> c, encoding |-> order[i]]]
    BY <1>2 DEF Taken
  <2>2. Len(order) \in Nat
    BY <1>1
  <2> QED BY <2>1, <2>2
<1>4. I = {i \in 1 .. Len(order) : order[i] \in accepted \cup {"identity"}}
  <2>1. \A i \in 1 .. Len(order) : encoded[i].encoding = order[i]
    <3>1. ASSUME NEW i \in 1 .. Len(order) PROVE encoded[i].encoding = order[i]
      <4>1. encoded[i] = [body |-> c, encoding |-> order[i]]
        BY <1>3
      <4> HIDE DEF encoded
      <4> QED BY <4>1
    <3> QED BY <3>1
  <2>2. I = {i \in 1 .. Len(order) : order[i] = "identity" \/ order[i] \in accepted}
    BY <1>3, <2>1, Zenon
  <2> QED BY <2>2
<1>5. Len(order) \in I
  BY <1>1, <1>4
<1> HIDE DEF I
<1>6. n = Static!Min(I)
  BY <1>5 DEF Static!Chosen, Static!SelectInSeq, I
<1>7. n \in I /\ \A i \in I : n <= i
  <2>1. I \in SUBSET Nat /\ I # {}
    BY <1>4, <1>5
  <2>2. \E x \in I : \A y \in I : x <= y
    BY <2>1, Least
  <2> HIDE DEF n
  <2> QED BY <1>6, <2>2 DEF Static!Min
<1> HIDE DEF n
<1>8. First(order, accepted, n)
  <2>1. n \in 1 .. Len(order) /\ order[n] \in accepted \cup {"identity"}
    BY <1>4, <1>7
  <2>2. ASSUME NEW i \in 1 .. n - 1 PROVE order[i] \notin accepted \cup {"identity"}
    <3>1. i \in 1 .. Len(order) /\ ~(n <= i)
      BY <1>1, <2>1
    <3> QED BY <1>4, <1>7, <3>1
  <2> QED BY <2>1, <2>2 DEF First
<1> QED BY <1>3, <1>8 DEF First, n

\* Nothing the client takes is smaller than the first.
\* The first that the client takes is the smallest.
LEMMA FirstSmallest ==
  ASSUME NEW c \in Contents, NEW order, Kind(order, c), NEW accepted \in SUBSET {"gzip", "deflate"},
         NEW n, First(order, accepted, n), NEW e \in accepted \cup {"identity"}
  PROVE  Size[c][order[n]] <= Size[c][e]
<1>1. \A d \in Static!Encodings : Size[c][d] \in Nat
  BY ContentAssumption DEF Static!StaticAssumption
<1>2. n \in 1 .. Len(order) /\ Len(order) \in Nat
  BY DEF First, Kind
<1>3. order[n] = "identity" \/ order[n] \in Static!Smaller(c)
  <2>1. CASE n = Len(order)
    BY <2>1 DEF Kind
  <2>2. CASE n # Len(order)
    <3>1. n \in 1 .. Len(order) - 1
      BY <1>2, <2>2
    <3> QED BY <3>1 DEF Kind
  <2> QED BY <2>1, <2>2
<1>4. Size[c][order[n]] <= Size[c]["identity"] /\ order[n] \in Static!Encodings
  BY <1>1, <1>3 DEF Static!Smaller, Static!Encodings
<1>5. CASE e \in Static!Smaller(c)
  <2>1. PICK i \in 1 .. Len(order) - 1 : order[i] = e
    BY <1>5 DEF Kind
  <2>2. n <= i
    BY <1>2, <2>1 DEF First
  <2>3. n = i \/ (n < i /\ n \in 1 .. Len(order) - 1)
    BY <1>2, <2>2
  <2>4. n < i /\ n \in 1 .. Len(order) - 1 => Size[c][order[n]] <= Size[c][order[i]]
    BY DEF Kind
  <2> QED BY <1>1, <1>4, <2>1, <2>3, <2>4
<1>6. CASE e \notin Static!Smaller(c)
  <2>1. (e \in Static!Encodings /\ ~(Size[c][e] < Size[c]["identity"])) \/ e = "identity"
    BY <1>6 DEF Static!Smaller, Static!Encodings
  <2>2. "identity" \in Static!Encodings
    BY DEF Static!Encodings
  <2> QED BY <1>1, <1>4, <2>1, <2>2
<1> QED BY <1>5, <1>6

\* What a step of the content promises.
StaticStep == Static!TypeOK' /\ Static!NotModifiedIsTrue /\ Static!SmallestAccepted

\* The types follow.
LEMMA StaticTyped == StaticInv => Static!TypeOK
<1> SUFFICES ASSUME StaticInv PROVE Static!TypeOK
  OBVIOUS
<1>1. encoded # <<>> => Static!Last(encoded).encoding = "identity"
  <2> SUFFICES ASSUME encoded # <<>> PROVE Static!Last(encoded).encoding = "identity"
    OBVIOUS
  <2>1. PICK order \in Static!Arranged(e_tag) : encoded = Taken(order, e_tag)
    BY DEF StaticInv, Stored
  <2>2. order \in Seq(Static!Encodings) /\ Len(order) \in 1 .. 3 /\ order[Len(order)] = "identity"
    BY <2>1, ArrangedKind DEF Kind
  <2>3. DOMAIN order = 1 .. Len(order)
    BY <2>2, LenProperties
  <2>4. Len(encoded) = Len(order)
    <3>1. encoded = [i \in 1 .. Len(order) |-> [body |-> e_tag, encoding |-> order[i]]] /\ Len(order) \in Nat
      BY <2>1, <2>2, <2>3 DEF Taken
    <3> QED BY <3>1
  <2> QED BY <2>1, <2>2, <2>3, <2>4 DEF Taken, Static!Last
<1> QED BY <1>1 DEF StaticInv, Static!TypeOK

\* A new content keeps the invariant,
LEMMA SetKept == ASSUME StaticInv, Static!SetContent PROVE StaticInv'
<1>0. PICK c \in Contents : \E order \in Static!Arranged(c) :
        /\ encoded' = [i \in DOMAIN order |-> [body |-> c, encoding |-> order[i]]]
        /\ e_tag' = c /\ last_modified' = now
        /\ sameSecond' = (sameSecond \/ (cache # Nothing /\ cache.e_tag # c /\ cache.date = now))
        /\ UNCHANGED <<now, cache, answer>>
  BY DEF Static!SetContent
<1>1. PICK order \in Static!Arranged(c) :
        /\ encoded' = [i \in DOMAIN order |-> [body |-> c, encoding |-> order[i]]]
        /\ e_tag' = c /\ last_modified' = now
        /\ sameSecond' = (sameSecond \/ (cache # Nothing /\ cache.e_tag # c /\ cache.date = now))
        /\ UNCHANGED <<now, cache, answer>>
  BY <1>0
<1>2. Stored(e_tag)'
  BY <1>1 DEF Stored, Taken
<1>3. sameSecond' \in BOOLEAN /\ (~sameSecond' => ~sameSecond)
  BY <1>1 DEF StaticInv
<1>4. encoded' # <<>>
  <2>1. order \in Seq(Static!Encodings) /\ Len(order) \in 1 .. 3
    BY ArrangedKind DEF Kind
  <2>2. DOMAIN order = 1 .. Len(order)
    BY <2>1, LenProperties
  <2>3. 1 \in DOMAIN encoded'
    BY <1>1, <2>1, <2>2
  <2> QED BY <2>3
<1>5. ASSUME cache' # Nothing PROVE CacheOK'
  <2>1. CacheOK /\ cache' = cache
    BY <1>1, <1>5 DEF StaticInv
  <2>2. cache \in CacheOf /\ cache.date <= now
    <3>1. encoded # <<>>
      BY <1>1, <1>5 DEF StaticInv
    <3>2. last_modified \in 0 .. now /\ now \in 0 .. MaxTime /\ MaxTime \in Nat
      BY <3>1, ContentAssumption DEF StaticInv, Static!StaticAssumption
    <3> QED BY <2>1, <3>2 DEF CacheOK, CacheOf
  <2>3. ~sameSecond' /\ cache.date = now => cache.e_tag = c
    BY <1>1, <1>5, Zenon
  <2> QED BY <1>1, <2>1, <2>2, <2>3 DEF CacheOK
<1>6. now \in 0 .. now
  BY DEF StaticInv
<1> QED BY <1>1, <1>2, <1>3, <1>4, <1>5, <1>6 DEF StaticInv

\* so does the clock,
LEMMA TickKept == ASSUME StaticInv, Static!Tick PROVE StaticInv'
<1>1. /\ now < MaxTime /\ now' = now + 1 /\ UNCHANGED <<encoded, e_tag, last_modified, cache, answer, sameSecond>>
  BY DEF Static!Tick
<1>2. MaxTime \in Nat /\ now \in 0 .. MaxTime
  BY ContentAssumption DEF StaticInv, Static!StaticAssumption
<1>3. now' \in 0 .. MaxTime /\ (last_modified \in 0 .. now => last_modified \in 0 .. now')
  BY <1>1, <1>2
<1>4. (Stored(e_tag))' <=> Stored(e_tag)
  BY <1>1 DEF Stored
<1>5. CacheOK' <=> CacheOK
  BY <1>1 DEF CacheOK
<1> QED BY <1>1, <1>3, <1>4, <1>5 DEF StaticInv

\* and a request, whose answer is as promised.
LEMMA GetKept == ASSUME StaticInv, Static!Get
                 PROVE  StaticInv' /\ Static!NotModifiedIsTrue /\ Static!SmallestAccepted
<1>1. PICK accepted \in SUBSET {"gzip", "deflate"}, head \in BOOLEAN :
        /\ \/ /\ encoded = <<>>
              /\ answer' = [Static!NoAnswer EXCEPT !.status = 200] /\ UNCHANGED <<cache, sameSecond>>
           \/ /\ encoded # <<>> /\ Static!Current
              /\ answer' = [Static!NoAnswer EXCEPT !.status = 304, !.body = cache.body]
              /\ UNCHANGED <<cache, sameSecond>>
           \/ /\ encoded # <<>> /\ ~Static!Current
              /\ answer' = [status |-> 200, accepted |-> accepted, encoding |-> encoded[Static!Chosen(accepted)].encoding,
                            body |-> IF head THEN Nothing ELSE encoded[Static!Chosen(accepted)].body]
              /\ IF head THEN UNCHANGED <<cache, sameSecond>>
                 ELSE cache' = [body |-> answer'.body, e_tag |-> e_tag, date |-> last_modified]
                      /\ sameSecond' = FALSE
        /\ UNCHANGED <<now, encoded, e_tag, last_modified>>
  BY DEF Static!Get
<1>2. (Stored(e_tag))' <=> Stored(e_tag)
  BY <1>1 DEF Stored
<1>3. ASSUME UNCHANGED <<cache, sameSecond>>, answer'.status \in {0, 200, 304}, answer'.encoding \in Static!Encodings \cup {"none"}
      PROVE  StaticInv'
  <2>1. CacheOK' <=> CacheOK
    BY <1>1, <1>3 DEF CacheOK
  <2> QED BY <1>1, <1>2, <1>3, <2>1 DEF StaticInv
<1>4. CASE encoded = <<>> /\ answer' = [Static!NoAnswer EXCEPT !.status = 200] /\ UNCHANGED <<cache, sameSecond>>
  <2>1. answer'.status = 200 /\ answer'.encoding = "none"
    BY <1>4 DEF Static!NoAnswer
  <2> QED BY <1>3, <1>4, <2>1 DEF Static!NotModifiedIsTrue, Static!SmallestAccepted
<1>5. CASE /\ encoded # <<>> /\ Static!Current
           /\ answer' = [Static!NoAnswer EXCEPT !.status = 304, !.body = cache.body]
           /\ UNCHANGED <<cache, sameSecond>>
  <2>1. answer'.status = 304 /\ answer'.encoding = "none" /\ answer'.body = cache.body
    BY <1>5 DEF Static!NoAnswer
  <2>2. ~sameSecond => cache.body = e_tag
    BY <1>5 DEF Static!Current, StaticInv, CacheOK
  <2> QED BY <1>3, <1>5, <2>1, <2>2 DEF Static!NotModifiedIsTrue, Static!SmallestAccepted
<1>6. CASE /\ encoded # <<>> /\ ~Static!Current
           /\ answer' = [status |-> 200, accepted |-> accepted, encoding |-> encoded[Static!Chosen(accepted)].encoding,
                         body |-> IF head THEN Nothing ELSE encoded[Static!Chosen(accepted)].body]
           /\ IF head THEN UNCHANGED <<cache, sameSecond>>
              ELSE cache' = [body |-> answer'.body, e_tag |-> e_tag, date |-> last_modified]
                   /\ sameSecond' = FALSE
  <2> DEFINE n == Static!Chosen(accepted)
  <2>1. PICK order \in Static!Arranged(e_tag) : encoded = Taken(order, e_tag)
    BY <1>6 DEF StaticInv, Stored
  <2>2. Kind(order, e_tag)
    BY <2>1, ArrangedKind
  <2>3. First(order, accepted, n) /\ encoded[n] = [body |-> e_tag, encoding |-> order[n]]
    BY <2>1, <2>2, ChosenFirst
  <2> HIDE DEF n
  <2>4. /\ answer'.status = 200 /\ answer'.accepted = accepted /\ answer'.encoding = order[n]
        /\ (~head => answer'.body = e_tag)
    BY <1>6, <2>3 DEF n
  <2>5. order[n] \in accepted \cup {"identity"}
    BY <2>3 DEF First
  <2>6. e_tag \in Contents
    BY <1>6 DEF StaticInv
  <2>7. StaticInv'
    <3>1. answer'.encoding \in Static!Encodings
      BY <2>4, <2>5 DEF Static!Encodings
    <3>2. CASE head
      BY <1>3, <1>6, <2>4, <3>1, <3>2
    <3>3. CASE ~head
      <4>1. cache' = [body |-> e_tag, e_tag |-> e_tag, date |-> last_modified] /\ sameSecond' = FALSE
        BY <1>6, <2>4, <3>3
      <4>2. last_modified \in 0 .. MaxTime
        BY <1>6, ContentAssumption DEF StaticInv, Static!StaticAssumption
      <4>3. CacheOK'
        BY <1>1, <2>6, <4>1, <4>2 DEF CacheOK, CacheOf
      <4> QED BY <1>1, <1>2, <1>6, <2>4, <3>1, <4>1, <4>3 DEF StaticInv
    <3> QED BY <3>2, <3>3
  <2>8. Static!SmallestAccepted
    <3>1. \A e \in accepted \cup {"identity"} : Size[e_tag][order[n]] <= Size[e_tag][e]
      BY <2>2, <2>3, <2>6, FirstSmallest
    <3> QED BY <2>4, <2>5, <3>1 DEF Static!SmallestAccepted
  <2> QED BY <2>4, <2>7, <2>8 DEF Static!NotModifiedIsTrue
<1> QED BY <1>1, <1>4, <1>5, <1>6

\* An empty content.
LEMMA StaticStarts == ASSUME Static!Init PROVE StaticInv
<1>1. MaxTime \in Nat
  BY ContentAssumption DEF Static!StaticAssumption
<1>2. answer.status = 0 /\ answer.encoding = "none"
  BY DEF Static!Init, Static!NoAnswer
<1>3. now \in 0 .. MaxTime /\ encoded = <<>> /\ cache = Nothing
  BY <1>1 DEF Static!Init
<1>4. sameSecond \in BOOLEAN
  BY Zenon DEF Static!Init
<1> QED BY <1>2, <1>3, <1>4, Zenon DEF StaticInv

\* A step of nothing.
LEMMA StaticStays == ASSUME StaticInv, UNCHANGED Static!vars PROVE StaticInv'
<1>1. (Stored(e_tag))' <=> Stored(e_tag)
  BY DEF Stored, Static!vars
<1>2. CacheOK' <=> CacheOK
  BY DEF CacheOK, Static!vars
<1> QED BY <1>1, <1>2 DEF StaticInv, Static!vars

\* Every step keeps the invariant and its promises.
LEMMA StaticStepped == ASSUME StaticInv, Static!Next \/ UNCHANGED Static!vars PROVE StaticInv' /\ StaticStep
<1>1. StaticInv'
  BY SetKept, GetKept, TickKept, StaticStays DEF Static!Next
<1>2. Static!NotModifiedIsTrue /\ Static!SmallestAccepted
  <2>1. CASE Static!Get
    BY <2>1, GetKept
  <2>2. CASE ~Static!Get
    BY <2>2 DEF Static!NotModifiedIsTrue, Static!SmallestAccepted
  <2> QED BY <2>1, <2>2
<1>3. Static!TypeOK'
  BY <1>1, StaticTyped, PTL
<1> QED BY <1>1, <1>2, <1>3 DEF StaticStep

\* on_get answers 304 only for the content the client has, unless it was replaced within the second,
\* and otherwise with the smallest encoding the client takes (static_content.hpp).
THEOREM StaticServes == ContentSpec => ServedAsStored
<1> DEFINE Inv == subject = "static" => StaticInv
<1>1. ContentInit => Inv
  BY StaticStarts DEF ContentInit
<1>2. Inv /\ [ContentNext]_contentVars => Inv' /\ [subject = "static" => StaticStep]_contentVars
  <2> SUFFICES ASSUME Inv, [ContentNext]_contentVars
               PROVE  Inv' /\ [subject = "static" => StaticStep]_contentVars
    OBVIOUS
  <2>1. CASE subject = "static" /\ Static!Next /\ UNCHANGED <<subject, w8, w9>>
    BY <2>1, StaticStepped
  <2>2. CASE UNCHANGED contentVars
    BY <2>2, StaticStays DEF contentVars, Static!vars
  <2>3. CASE subject \in {"load", "lookup"} /\ UNCHANGED subject
    BY <2>3
  <2> QED BY <2>1, <2>2, <2>3 DEF ContentNext
<1>3. [subject = "static" => StaticStep]_contentVars <=> [subject = "static" =>
        Static!TypeOK' /\ Static!NotModifiedIsTrue /\ Static!SmallestAccepted]_contentVars
  BY DEF StaticStep
<1> QED BY <1>1, <1>2, <1>3, PTL DEF ContentSpec, ServedAsStored
=============================================================================
