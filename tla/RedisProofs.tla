---------------------------- MODULE RedisProofs -----------------------------
(***************************************************************************)
(* Proofs about RedisDatabase, for any set of coroutines and any bound on  *)
(* the commands of a callback: nobody reads another coroutine's reply; and *)
(* about the two parts of Stored.  RespClient, for transactions of any     *)
(* length: each method reads the whole of its reply and takes it for what  *)
(* the server gives.  Archive, for bytes of any width, values of any types *)
(* and any number of items: keys are in the order of their parts, and      *)
(* records are read back.                                                  *)
(***************************************************************************)
EXTENDS RedisDatabase, Stored, Integers, SequenceTheorems, WellFoundedInduction, TLAPS

\* The lock: whoever is in the critical section of connect() holds it, and the
\* queue lists waiting coroutines, each once.
LockOK == /\ \A c \in Clients : st[c] \in InCall <=> holder = c
          /\ \A i \in 1 .. Len(waiting) : st[waiting[i]] = "waiting"
          /\ \A i, j \in 1 .. Len(waiting) : waiting[i] = waiting[j] => i = j

\* The connection: who uses it has one that works, and a connection that works
\* owes a reply exactly when the holder has a command in flight, to the holder.
ConnOK == /\ \A c \in Clients :
               /\ st[c] \in {"pinging", "callback", "command"} => conn = "good"
               /\ st[c] = "connecting" => conn = "none"
               /\ st[c] \in {"pinging", "command"} => wire = <<c>>
          /\ conn = "good" /\ (\A c \in Clients : st[c] \notin {"pinging", "command"})
               => wire = <<>>

IInv == TypeOK /\ LockOK /\ ConnOK /\ RepliesMatch

-----------------------------------------------------------------------------
LEMMA InitIInv == Init => IInv
<1> SUFFICES ASSUME Init PROVE IInv
  OBVIOUS
<1> USE DEF Init, FifoInit
<1>1. waiting \in Seq(Clients) /\ wire \in Seq(Clients)
  OBVIOUS
<1>2. TypeOK
  <2>1. st \in [Clients -> {"idle", "waiting"} \cup InCall]
    BY DEF InCall
  <2>2. 0 \in 0 .. MaxCommands
    BY RedisAssumption
  <2>3. ret \in [Clients -> {"none", "returned", "threw"}]
    OBVIOUS
  <2> QED BY <1>1, <2>1, <2>2, <2>3 DEF TypeOK
<1>3. LockOK
  BY FifoLockAssumption DEF LockOK, InCall
<1>4. ConnOK /\ RepliesMatch
  BY DEF ConnOK, RepliesMatch
<1> QED BY <1>2, <1>3, <1>4 DEF IInv

\* A coroutine asks for the lock.
LEMMA CallIInv ==
  ASSUME IInv, NEW c \in Clients, Call(c)
  PROVE  IInv'
<1> USE DEF IInv, TypeOK, InCall, Call, At, Goto, Request
<1>1. /\ Len(waiting') = Len(waiting) + 1
      /\ waiting'[Len(waiting) + 1] = c
      /\ \A i \in 1 .. Len(waiting) : waiting'[i] = waiting[i]
  OBVIOUS
<1>2. \A i \in 1 .. Len(waiting) : waiting[i] # c
  BY DEF LockOK
<1>3. TypeOK'
  OBVIOUS
<1>4. LockOK'
  BY <1>1, <1>2 DEF LockOK
<1>5. ConnOK' /\ RepliesMatch'
  BY DEF ConnOK, RepliesMatch
<1> QED BY <1>3, <1>4, <1>5

\* The lock is granted to the oldest request.
LEMMA EnterIInv ==
  ASSUME IInv, Enter
  PROVE  IInv'
<1> USE FifoLockAssumption, RedisAssumption DEF IInv, TypeOK, InCall, Enter, Goto, Grant
<1>1. /\ Len(waiting) > 0
      /\ holder' = waiting[1]
      /\ Len(waiting') = Len(waiting) - 1
      /\ \A i \in 1 .. Len(waiting') :
           i + 1 \in 1 .. Len(waiting) /\ waiting'[i] = waiting[i + 1]
  OBVIOUS
<1>2. holder' \in Clients /\ st[holder'] = "waiting"
  BY <1>1 DEF LockOK
<1>3. TypeOK'
  BY <1>2
<1>4. LockOK'
  <2>1. \A d \in Clients : st'[d] \in InCall <=> holder' = d
    BY <1>2 DEF LockOK
  <2>2. \A i \in 1 .. Len(waiting') : waiting'[i] # holder'
    BY <1>1 DEF LockOK
  <2>3. \A i \in 1 .. Len(waiting') : st'[waiting'[i]] = "waiting"
    BY <1>1, <1>2, <2>2 DEF LockOK
  <2>4. \A i, j \in 1 .. Len(waiting') : waiting'[i] = waiting'[j] => i = j
    BY <1>1 DEF LockOK
  <2> QED BY <2>1, <2>3, <2>4 DEF LockOK
<1>5. ConnOK' /\ RepliesMatch'
  BY <1>2 DEF ConnOK, RepliesMatch
<1> QED BY <1>3, <1>4, <1>5

\* A step of the holder, which keeps the lock or gives it back.
LEMMA HolderIInv ==
  ASSUME IInv, NEW c \in Clients, HolderStep(c)
  PROVE  IInv'
<1> USE FifoLockAssumption DEF IInv, TypeOK, InCall, At, Goto
<1>1. \A d \in Clients \ {c} : st[c] \in InCall => st[d] \notin InCall
  BY DEF LockOK
<1>2. CASE Ping(c)
  <2> USE <1>2 DEF Ping, Send
  <2>1. wire = <<>>
    BY <1>1 DEF ConnOK
  <2>2. wire' = <<c>>
    BY <2>1
  <2>3. TypeOK' /\ LockOK'
    BY <2>2 DEF LockOK
  <2>4. ConnOK' /\ RepliesMatch'
    BY <1>1, <2>2 DEF ConnOK, RepliesMatch
  <2> QED BY <2>3, <2>4
<1>3. CASE PingAnswered(c) \/ CommandAnswered(c)
  <2> USE <1>3 DEF PingAnswered, CommandAnswered, ReadReply
  <2>1. wire = <<c>> /\ conn = "good"
    BY DEF ConnOK
  <2>2. wire' = <<>> /\ mixed' = mixed
    BY <2>1 DEF RepliesMatch
  <2>3. TypeOK' /\ LockOK'
    BY <2>2 DEF LockOK
  <2>4. ConnOK' /\ RepliesMatch'
    BY <1>1, <2>1, <2>2 DEF ConnOK, RepliesMatch
  <2> QED BY <2>3, <2>4
<1>4. CASE PingFails(c)
  <2> USE <1>4 DEF PingFails
  <2>1. TypeOK' /\ LockOK'
    <3>1. st' = [st EXCEPT ![c] = "connecting"] /\ waiting' = waiting /\ holder' = holder /\ wire' = <<>>
      OBVIOUS
    <3>2. TypeOK'
      BY <3>1
    <3>3. LockOK'
      BY <1>1, <3>1 DEF LockOK
    <3> QED BY <3>2, <3>3
  <2>2. ConnOK' /\ RepliesMatch'
    BY <1>1 DEF ConnOK, RepliesMatch
  <2> QED BY <2>1, <2>2
<1>5. CASE PingInterrupted(c) \/ CommandFails(c)
  <2> USE <1>5 DEF PingInterrupted, CommandFails, Poison, Leave
  <2>1. TypeOK' /\ LockOK'
    <3>1. st' = [st EXCEPT ![c] = "unlocking"] /\ waiting' = waiting /\ holder' = holder
      OBVIOUS
    <3>2. TypeOK'
      BY <3>1
    <3>3. LockOK'
      BY <3>1 DEF LockOK
    <3> QED BY <3>2, <3>3
  <2>2. ConnOK' /\ RepliesMatch'
    BY <1>1 DEF ConnOK, RepliesMatch
  <2> QED BY <2>1, <2>2
<1>6. CASE NeedConnection(c)
  <2> USE <1>6 DEF NeedConnection
  <2>1. TypeOK' /\ LockOK'
    <3>1. TypeOK'
      OBVIOUS
    <3>2. /\ st[c] \in InCall /\ st'[c] \in InCall /\ st[c] # "waiting"
          /\ \A d \in Clients \ {c} : st'[d] = st[d]
          /\ waiting' = waiting /\ holder' = holder
      OBVIOUS
    <3>3. LockOK'
      BY <3>2 DEF LockOK
    <3> QED BY <3>1, <3>3
  <2>2. ConnOK' /\ RepliesMatch'
    BY <1>1 DEF ConnOK, RepliesMatch
  <2> QED BY <2>1, <2>2
<1>7. CASE Connect(c)
  <2> USE <1>7 DEF Connect
  <2>1. TypeOK' /\ LockOK'
    BY DEF LockOK
  <2>2. ConnOK' /\ RepliesMatch'
    BY <1>1 DEF ConnOK, RepliesMatch
  <2> QED BY <2>1, <2>2
<1>8. CASE ConnectFails(c) \/ CallbackEnds(c)
  <2> USE <1>8 DEF ConnectFails, CallbackEnds, Leave
  <2>1. TypeOK' /\ LockOK'
    <3>1. st' = [st EXCEPT ![c] = "unlocking"] /\ waiting' = waiting /\ holder' = holder
      OBVIOUS
    <3>2. TypeOK'
      BY <3>1
    <3>3. LockOK'
      BY <3>1 DEF LockOK
    <3> QED BY <3>2, <3>3
  <2>2. ConnOK' /\ RepliesMatch'
    BY <1>1 DEF ConnOK, RepliesMatch
  <2> QED BY <2>1, <2>2
<1>9. CASE SendCommand(c)
  <2> USE <1>9 DEF SendCommand, Send
  <2>1. wire = <<>>
    BY <1>1 DEF ConnOK
  <2>2. wire' = <<c>>
    BY <2>1
  <2>3. sent' \in 0 .. MaxCommands
    BY RedisAssumption
  <2>4. TypeOK' /\ LockOK'
    BY <2>2, <2>3 DEF LockOK
  <2>5. ConnOK' /\ RepliesMatch'
    BY <1>1, <2>2 DEF ConnOK, RepliesMatch
  <2> QED BY <2>4, <2>5
<1>10. CASE CommandRefused(c)
  <2> USE <1>10 DEF CommandRefused, ReadReply, Leave
  <2>1. wire = <<c>> /\ conn = "good"
    BY DEF ConnOK
  <2>2. wire' = <<>> /\ mixed' = mixed
    BY <2>1 DEF RepliesMatch
  <2>3. TypeOK' /\ LockOK'
    BY <2>2 DEF LockOK
  <2>4. ConnOK' /\ RepliesMatch'
    BY <1>1, <2>1, <2>2 DEF ConnOK, RepliesMatch
  <2> QED BY <2>3, <2>4
<1>11. CASE Unlock(c)
  <2> USE <1>11 DEF Unlock, Release
  <2>1. TypeOK' /\ LockOK'
    BY <1>1 DEF LockOK
  <2>2. ConnOK' /\ RepliesMatch'
    BY <1>1 DEF ConnOK, RepliesMatch
  <2> QED BY <2>1, <2>2
<1> QED BY <1>2, <1>3, <1>4, <1>5, <1>6, <1>7, <1>8, <1>9, <1>10, <1>11
        DEF HolderStep

LEMMA NextIInv == IInv /\ [Next]_vars => IInv'
<1>1. ASSUME IInv, UNCHANGED vars
      PROVE  IInv'
  BY <1>1 DEF vars, IInv, TypeOK, LockOK, ConnOK, RepliesMatch
<1> QED BY <1>1, CallIInv, EnterIInv, HolderIInv DEF Next

\* The strengthened invariant holds in every reachable state.
THEOREM Invariance == Spec => []IInv
  BY InitIInv, NextIInv, PTL DEF Spec

\* Type correctness of the shared connection (redis_database.hpp:61-67).
THEOREM TypeCorrect == Spec => []TypeOK
  BY Invariance, PTL DEF IInv

\* For any number of coroutines and commands, no coroutine reads the reply to
\* another one's command (redis_client.hpp:27-36, redis_database.hpp:33-51).
THEOREM NoForeignReply == Spec => []RepliesMatch
  BY Invariance, PTL DEF IInv

\* For any number of coroutines, a callback runs with a connection that works,
\* on the coroutine that holds the lock (redis_database.hpp:53-56).
THEOREM CallbackSafe == Spec => []CallbackConnected
<1>1. IInv => CallbackConnected
  BY DEF IInv, LockOK, ConnOK, InCall, CallbackConnected
<1> QED BY <1>1, Invariance, PTL

\* For any number of coroutines and commands, a connection that works owes no
\* reply to anybody but its present holder (redis_database.hpp:33-51).
THEOREM CleanHandOver == Spec => []HandedOverClean
<1>1. IInv => HandedOverClean
  <2> SUFFICES ASSUME IInv, conn = "good", wire # <<>>
               PROVE  Len(wire) = 1 /\ st[Head(wire)] \in {"pinging", "command"}
    BY DEF HandedOverClean
  <2>1. PICK c \in Clients : st[c] \in {"pinging", "command"}
    BY DEF IInv, ConnOK
  <2>2. wire = <<c>>
    BY <2>1 DEF IInv, ConnOK
  <2> QED BY <2>1, <2>2
<1> QED BY <1>1, Invariance, PTL

\* For any number of coroutines and commands, each finds the shared connection as if it were alone.
THEOREM SharedIsSafe == Spec => []SharedSafely
  BY NoForeignReply, CleanHandOver, CallbackSafe, PTL DEF SharedSafely

-----------------------------------------------------------------------------
\* RespClient: counting the elements of a reply.

TokenTypes == {"+", "$", ":", "*", "-", "nil"}
Tokens == [type : TokenTypes, size : 0 .. Client!Longest]

\* f counts the elements still to be read before each token: n at first, none at last.
Counts(f, w, n) ==
  /\ f \in [0 .. Len(w) -> Nat] /\ f[0] = n /\ f[Len(w)] = 0
  /\ \A p \in 0 .. Len(w) - 1 : f[p] > 0 /\ f[p + 1] = f[p] - 1 + w[p + 1].size
\* w is made of n elements.
Elements(w, n) == \E f : Counts(f, w, n)
\* The arrays in w hold no further ones.
Flat(w) == \A p \in 1 .. Len(w) : \A q \in p + 1 .. p + w[p].size : q <= Len(w) /\ w[q].size = 0

\* Sizes are numbers.
LEMMA LongestIs == Client!Longest \in Nat /\ Client!Longest >= 2 /\ MaxQueued \in 0 .. Client!Longest
  BY StoredAssumption DEF Client!RespAssumption, Client!Longest

LEMMA TokensAre == ASSUME NEW w \in Seq(Tokens)
                   PROVE Len(w) \in Nat /\ \A p \in 1 .. Len(w) : w[p] \in Tokens /\ w[p].size \in Nat
<1>1. Len(w) \in Nat
  BY LenProperties
<1>2. ASSUME NEW p \in 1 .. Len(w) PROVE w[p] \in Tokens /\ w[p].size \in Nat
  <2>1. w[p] \in Tokens
    BY ElementOfSeq
  <2> HIDE DEF Tokens
  <2>2. \A t \in Tokens : t.size \in Nat
    BY LongestIs DEF Tokens
  <2> QED BY <2>1, <2>2
<1> QED BY <1>1, <1>2

\* The tail of a sequence, and two joined.
LEMMA TailIs == ASSUME NEW w \in Seq(Tokens), w # <<>>
                PROVE /\ Tail(w) \in Seq(Tokens) /\ Len(w) >= 1 /\ Len(Tail(w)) = Len(w) - 1 /\ Head(w) = w[1]
                      /\ \A p \in 1 .. Len(w) - 1 : Tail(w)[p] = w[p + 1]
  BY HeadTailProperties, LenProperties, EmptySeq

LEMMA JoinIs == ASSUME NEW w \in Seq(Tokens), NEW e \in Seq(Tokens)
                PROVE /\ w \o e \in Seq(Tokens) /\ Len(w \o e) = Len(w) + Len(e)
                      /\ \A p \in 1 .. Len(w) : (w \o e)[p] = w[p]
                      /\ \A p \in Len(w) + 1 .. Len(w) + Len(e) : (w \o e)[p] = e[p - Len(w)]
<1>1. Len(w) \in Nat /\ Len(e) \in Nat
  BY LenProperties
<1>2. /\ w \o e \in Seq(Tokens) /\ Len(w \o e) = Len(w) + Len(e)
      /\ \A i \in 1 .. Len(w) + Len(e) : (w \o e)[i] = IF i <= Len(w) THEN w[i] ELSE e[i - Len(w)]
  BY ConcatProperties
<1> QED BY <1>1, <1>2

\* A token is read.
LEMMA CountTail ==
  ASSUME NEW w \in Seq(Tokens), w # <<>>, NEW n, Elements(w, n)
  PROVE  n \in Nat /\ n >= 1 /\ Elements(Tail(w), n - 1 + Head(w).size)
<1>1. PICK f : Counts(f, w, n)
  BY DEF Elements
<1> DEFINE L == Len(w)
           v == Tail(w)
           k == n - 1 + Head(w).size
           g == [p \in 0 .. L - 1 |-> f[p + 1]]
<1>2. L \in Nat /\ L >= 1 /\ Len(v) = L - 1 /\ Head(w) = w[1] /\ w[1].size \in Nat
  BY TailIs, TokensAre
<1>3. \A p \in 1 .. L - 1 : v[p] = w[p + 1]
  BY TailIs
<1> HIDE DEF L, v
<1>4. /\ f \in [0 .. L -> Nat] /\ f[0] = n /\ f[L] = 0
      /\ \A p \in 0 .. L - 1 : f[p] > 0 /\ f[p + 1] = f[p] - 1 + w[p + 1].size
  BY <1>1 DEF Counts, L
<1>5. n \in Nat /\ n >= 1 /\ f[1] = k
  BY <1>2, <1>4
<1>6. g \in [0 .. L - 1 -> Nat] /\ g[0] = k /\ g[L - 1] = 0
  BY <1>2, <1>4, <1>5
<1>7. ASSUME NEW p \in 0 .. L - 2 PROVE g[p] > 0 /\ g[p + 1] = g[p] - 1 + v[p + 1].size
  <2>1. p + 1 \in 0 .. L - 1 /\ p \in 0 .. L - 1 /\ p + 1 \in 1 .. L - 1
    BY <1>2
  <2>2. g[p] = f[p + 1] /\ g[p + 1] = f[p + 1 + 1] /\ v[p + 1] = w[p + 1 + 1]
    BY <1>3, <2>1
  <2>3. f[p + 1] > 0 /\ f[p + 1 + 1] = f[p + 1] - 1 + w[p + 1 + 1].size
    BY <1>4, <2>1
  <2> QED BY <2>2, <2>3
<1> HIDE DEF g, k
<1>8. Len(v) - 1 = L - 2
  BY <1>2
<1>9. Counts(g, v, k)
  BY <1>2, <1>6, <1>7, <1>8 DEF Counts
<1> QED BY <1>5, <1>9 DEF Elements, v, k

\* Nothing is read for no elements.
LEMMA CountNone == ASSUME NEW w \in Seq(Tokens), Elements(w, 0) PROVE w = <<>>
<1>1. w # <<>> => 0 >= 1
  BY CountTail
<1> QED BY <1>1

LEMMA CountSome == ASSUME NEW w \in Seq(Tokens), NEW n \in Nat, n > 0, Elements(w, n) PROVE w # <<>>
<1>1. PICK f : Counts(f, w, n)
  BY DEF Elements
<1>2. ASSUME w = <<>> PROVE FALSE
  <2>1. Len(w) = 0
    BY <1>2
  <2> QED BY <1>1, <2>1 DEF Counts
<1> QED BY <1>2

\* One element after others.
LEMMA CountJoin ==
  ASSUME NEW w \in Seq(Tokens), NEW e \in Seq(Tokens), NEW n \in Nat, NEW k \in Nat, Elements(w, n), Elements(e, k)
  PROVE  Elements(w \o e, n + k)
<1>1. PICK f : Counts(f, w, n)
  BY DEF Elements
<1>2. PICK h : Counts(h, e, k)
  BY DEF Elements
<1> DEFINE L == Len(w)
           M == Len(e)
           v == w \o e
           g == [p \in 0 .. L + M |-> IF p <= L THEN f[p] + k ELSE h[p - L]]
<1>3. L \in Nat /\ M \in Nat /\ Len(v) = L + M
  BY JoinIs, LenProperties
<1>4. /\ \A p \in 1 .. L : v[p] = w[p] /\ w[p].size \in Nat
      /\ \A p \in L + 1 .. L + M : v[p] = e[p - L]
  BY JoinIs, TokensAre
<1> HIDE DEF L, M, v
<1>5. /\ f \in [0 .. L -> Nat] /\ f[0] = n /\ f[L] = 0
      /\ \A p \in 0 .. L - 1 : f[p] > 0 /\ f[p + 1] = f[p] - 1 + w[p + 1].size
  BY <1>1 DEF Counts, L
<1>6. /\ h \in [0 .. M -> Nat] /\ h[0] = k /\ h[M] = 0
      /\ \A p \in 0 .. M - 1 : h[p] > 0 /\ h[p + 1] = h[p] - 1 + e[p + 1].size
  BY <1>2 DEF Counts, M
<1>7. g \in [0 .. L + M -> Nat] /\ g[0] = n + k
  BY <1>3, <1>5, <1>6
<1>8. g[L + M] = 0
  <2>1. CASE M = 0
    <3>1. L + M = L /\ L + M \in 0 .. L + M /\ h[M] = h[0] /\ k = 0
      BY <1>3, <1>6, <2>1
    <3> QED BY <1>3, <1>5, <3>1
  <2>2. CASE M > 0
    <3> DEFINE z == L + M
    <3>1. z \in 0 .. L + M /\ ~(z <= L) /\ z - L = M
      BY <1>3, <2>2
    <3> HIDE DEF z
    <3>2. g[z] = h[z - L]
      BY <3>1
    <3> QED BY <1>6, <3>1, <3>2 DEF z
  <2> QED BY <1>3, <2>1, <2>2
<1>9. ASSUME NEW p \in 0 .. L + M - 1 PROVE g[p] > 0 /\ g[p + 1] = g[p] - 1 + v[p + 1].size
  <2>1. CASE p < L
    <3>1. p \in 0 .. L - 1 /\ p + 1 \in 1 .. L /\ p + 1 <= L /\ p + 1 \in 0 .. L + M /\ p \in 0 .. L + M
      BY <1>3, <2>1
    <3>2. g[p] = f[p] + k /\ g[p + 1] = f[p + 1] + k /\ v[p + 1] = w[p + 1] /\ w[p + 1].size \in Nat
      BY <1>3, <1>4, <3>1
    <3>3. f[p] > 0 /\ f[p + 1] = f[p] - 1 + w[p + 1].size
      BY <1>5, <3>1
    <3>4. f[p] \in Nat
      <4>1. p \in 0 .. L
        BY <1>3, <3>1
      <4> QED BY <1>5, <4>1
    <3> DEFINE x == f[p]
               y == w[p + 1].size
    <3>5. g[p] = x + k /\ g[p + 1] = x - 1 + y + k /\ x \in Nat /\ x > 0 /\ y \in Nat /\ v[p + 1].size = y
      BY <3>2, <3>3, <3>4
    <3> HIDE DEF x, y, g
    <3> QED BY <3>5
  <2>2. CASE p >= L
    <3> DEFINE q == p - L
    <3>1. q \in 0 .. M - 1 /\ p + 1 - L = q + 1 /\ p + 1 \in L + 1 .. L + M /\ p + 1 \in 0 .. L + M /\ p \in 0 .. L + M
      BY <1>3, <2>2
    <3>2. g[p] = h[q]
      <4>1. CASE p = L
        BY <1>3, <1>5, <1>6, <3>1, <4>1
      <4>2. CASE p > L
        BY <1>3, <3>1, <4>2
      <4> QED BY <1>3, <2>2, <4>1, <4>2
    <3>3. g[p + 1] = h[q + 1] /\ v[p + 1] = e[q + 1]
      <4> DEFINE z == p + 1
      <4>1. ~(z <= L) /\ z \in 0 .. L + M /\ z - L = q + 1 /\ z \in L + 1 .. L + M
        BY <1>3, <2>2, <3>1
      <4> HIDE DEF z
      <4>2. g[z] = h[z - L]
        BY <4>1
      <4>3. v[z] = e[z - L]
        BY <1>4, <4>1
      <4> QED BY <4>1, <4>2, <4>3 DEF z
    <3>4. h[q] > 0 /\ h[q + 1] = h[q] - 1 + e[q + 1].size
      BY <1>6, <3>1
    <3> QED BY <3>2, <3>3, <3>4
  <2> QED BY <1>3, <2>1, <2>2
<1> HIDE DEF g
<1>10. Counts(g, v, n + k)
  BY <1>3, <1>7, <1>8, <1>9 DEF Counts
<1> QED BY <1>10 DEF Elements, v

\* An element of one token, and an array of the elements after it.
LEMMA CountToken == ASSUME NEW t \in Tokens, t.size = 0 PROVE Elements(<<t>>, 1)
<1> DEFINE w == <<t>>
           f == [p \in 0 .. 1 |-> 1 - p]
<1>1. Len(w) = 1 /\ w[1] = t
  OBVIOUS
<1> HIDE DEF w
<1>2. Counts(f, w, 1)
  BY <1>1 DEF Counts
<1> QED BY <1>2 DEF Elements, w

LEMMA CountArray ==
  ASSUME NEW w \in Seq(Tokens), NEW t \in Tokens, Elements(w, t.size)
  PROVE  Elements(<<t>> \o w, 1)
<1>1. PICK h : Counts(h, w, t.size)
  BY DEF Elements
<1> DEFINE M == Len(w)
           v == <<t>> \o w
           g == [p \in 0 .. 1 + M |-> IF p = 0 THEN 1 ELSE h[p - 1]]
<1>2. t.size \in Nat /\ <<t>> \in Seq(Tokens) /\ Len(<<t>>) = 1 /\ <<t>>[1] = t
  BY LongestIs DEF Tokens
<1>3. M \in Nat /\ Len(v) = 1 + M /\ v[1] = t /\ \A p \in 2 .. 1 + M : v[p] = w[p - 1]
  BY <1>2, JoinIs, LenProperties
<1> HIDE DEF M, v
<1>4. /\ h \in [0 .. M -> Nat] /\ h[0] = t.size /\ h[M] = 0
      /\ \A p \in 0 .. M - 1 : h[p] > 0 /\ h[p + 1] = h[p] - 1 + w[p + 1].size
  BY <1>1 DEF Counts, M
<1>5. g \in [0 .. 1 + M -> Nat] /\ g[0] = 1 /\ g[1 + M] = 0
  BY <1>3, <1>4
<1>6. ASSUME NEW p \in 0 .. 1 + M - 1 PROVE g[p] > 0 /\ g[p + 1] = g[p] - 1 + v[p + 1].size
  <2>1. CASE p = 0
    BY <1>2, <1>3, <1>4, <2>1
  <2>2. CASE p > 0
    <3>1. p - 1 \in 0 .. M - 1 /\ p + 1 \in 2 .. 1 + M /\ p + 1 - 1 = p /\ p - 1 + 1 = p
      BY <1>3, <2>2
    <3>2. g[p] = h[p - 1] /\ g[p + 1] = h[p] /\ v[p + 1] = w[p]
      BY <1>3, <2>2, <3>1
    <3>3. h[p - 1] > 0 /\ h[p] = h[p - 1] - 1 + w[p].size
      BY <1>4, <3>1
    <3> QED BY <3>2, <3>3
  <2> QED BY <2>1, <2>2, <1>3
<1> HIDE DEF g
<1>7. Counts(g, v, 1)
  BY <1>3, <1>5, <1>6 DEF Counts
<1> QED BY <1>7 DEF Elements, v

\* Flatness of a tail and of two joined.
LEMMA FlatTail == ASSUME NEW w \in Seq(Tokens), w # <<>>, Flat(w)
                  PROVE /\ Flat(Tail(w))
                        /\ \A q \in 1 .. Head(w).size : q <= Len(Tail(w)) /\ Tail(w)[q].size = 0
<1> DEFINE L == Len(w)
           v == Tail(w)
<1>1. L \in Nat /\ L >= 1 /\ Len(v) = L - 1 /\ Head(w) = w[1] /\ \A p \in 1 .. L : w[p].size \in Nat
  BY TailIs, TokensAre
<1>2. \A p \in 1 .. L - 1 : v[p] = w[p + 1]
  BY TailIs
<1> HIDE DEF L, v
<1>3. \A p \in 1 .. L : \A q \in p + 1 .. p + w[p].size : q <= L /\ w[q].size = 0
  BY DEF Flat, L
<1>4. ASSUME NEW p \in 1 .. L - 1, NEW q \in p + 1 .. p + v[p].size PROVE q <= L - 1 /\ v[q].size = 0
  <2>1. v[p] = w[p + 1] /\ p + 1 \in 1 .. L /\ w[p + 1].size \in Nat
    BY <1>1, <1>2
  <2>2. q + 1 \in p + 1 + 1 .. p + 1 + w[p + 1].size
    BY <2>1
  <2>3. q + 1 <= L /\ w[q + 1].size = 0
    BY <1>3, <2>1, <2>2
  <2>4. q \in 1 .. L - 1
    BY <1>1, <2>1, <2>3
  <2> QED BY <1>2, <2>3, <2>4
<1>5. ASSUME NEW q \in 1 .. w[1].size PROVE q <= L - 1 /\ v[q].size = 0
  <2>1. 1 \in 1 .. L /\ w[1].size \in Nat /\ q + 1 \in 1 + 1 .. 1 + w[1].size
    BY <1>1
  <2>2. q + 1 <= L /\ w[q + 1].size = 0
    BY <1>3, <2>1
  <2>3. q \in 1 .. L - 1
    BY <1>1, <2>1, <2>2
  <2> QED BY <1>2, <2>2, <2>3
<1>6. Flat(v)
  BY <1>1, <1>4 DEF Flat
<1> QED BY <1>1, <1>5, <1>6 DEF v

LEMMA FlatJoin == ASSUME NEW w \in Seq(Tokens), NEW e \in Seq(Tokens), Flat(w), Flat(e) PROVE Flat(w \o e)
<1> DEFINE L == Len(w)
           M == Len(e)
           v == w \o e
<1>1. L \in Nat /\ M \in Nat /\ Len(v) = L + M
  BY JoinIs, LenProperties
<1>2. /\ \A p \in 1 .. L : v[p] = w[p] /\ w[p].size \in Nat
      /\ \A p \in L + 1 .. L + M : v[p] = e[p - L]
      /\ \A p \in 1 .. M : e[p].size \in Nat
  BY JoinIs, TokensAre
<1> HIDE DEF L, M, v
<1>3. \A p \in 1 .. L : \A q \in p + 1 .. p + w[p].size : q <= L /\ w[q].size = 0
  BY DEF Flat, L
<1>4. \A p \in 1 .. M : \A q \in p + 1 .. p + e[p].size : q <= M /\ e[q].size = 0
  BY DEF Flat, M
<1>5. ASSUME NEW p \in 1 .. L + M, NEW q \in p + 1 .. p + v[p].size PROVE q <= L + M /\ v[q].size = 0
  <2>1. CASE p <= L
    <3>1. p \in 1 .. L /\ v[p] = w[p] /\ w[p].size \in Nat
      BY <1>1, <1>2, <2>1
    <3>2. q <= L /\ w[q].size = 0
      BY <1>3, <3>1
    <3>3. q \in 1 .. L
      BY <3>1, <3>2
    <3> QED BY <1>1, <1>2, <3>2, <3>3
  <2>2. CASE p > L
    <3>1. p \in L + 1 .. L + M /\ p - L \in 1 .. M
      BY <1>1, <2>2
    <3>2. v[p] = e[p - L] /\ e[p - L].size \in Nat
      BY <1>2, <3>1
    <3>3. q - L \in p - L + 1 .. p - L + e[p - L].size
      BY <1>1, <3>1, <3>2
    <3>4. q - L <= M /\ e[q - L].size = 0
      BY <1>4, <3>1, <3>3
    <3>5. q \in L + 1 .. L + M
      BY <1>1, <3>1, <3>2, <3>4
    <3> QED BY <1>1, <1>2, <3>4, <3>5
  <2> QED BY <1>1, <2>1, <2>2
<1>6. Flat(v)
  BY <1>1, <1>5 DEF Flat
<1> QED BY <1>6 DEF v

\* The beginnings of a sequence, and one element more.
LEMMA Beginning == ASSUME NEW s \in Seq(Nat), NEW r \in Seq(Nat), Len(r) <= Len(s),
                          \A i \in 1 .. Len(r) : r[i] = s[i]
                   PROVE  SubSeq(s, 1, Len(r)) = r
<1> DEFINE n == Len(r)
           u == SubSeq(s, 1, n)
<1>1. n \in Nat /\ n \in Int /\ 1 \in Int
  BY LenProperties
<1>2. \A i \in 1 .. n : s[i] \in Nat
  BY ElementOfSeq
<1>3. /\ u \in Seq(Nat) /\ Len(u) = (IF 1 <= n THEN n - 1 + 1 ELSE 0)
      /\ \A i \in 1 .. n - 1 + 1 : u[i] = s[1 + i - 1]
  BY <1>1, <1>2, SubSeqProperties
<1> HIDE DEF n, u
<1>4. Len(u) = n /\ n - 1 + 1 = n
  BY <1>1, <1>3
<1>5. ASSUME NEW i \in 1 .. n PROVE u[i] = r[i]
  <2>1. 1 + i - 1 = i
    BY <1>1
  <2>2. u[i] = s[i]
    BY <1>3, <1>4, <2>1
  <2> QED BY <2>2 DEF n
<1>6. u = r
  BY <1>3, <1>4, <1>5, SeqEqual DEF n
<1> QED BY <1>6 DEF u, n

LEMMA OneMore == ASSUME NEW s \in Seq(Nat), NEW a \in Nat, NEW r \in Seq(Nat), Len(r) = Len(s) + 1,
                        \A i \in 1 .. Len(s) : r[i] = s[i], r[Len(s) + 1] = a
                 PROVE  Append(s, a) = r
<1> DEFINE n == Len(s)
           u == Append(s, a)
<1>1. n \in Nat
  BY LenProperties
<1>2. u \in Seq(Nat) /\ Len(u) = n + 1 /\ (\A i \in 1 .. n : u[i] = s[i]) /\ u[n + 1] = a
  BY AppendProperties
<1> HIDE DEF n, u
<1>3. \A i \in 1 .. n + 1 : i \in 1 .. n \/ i = n + 1
  BY <1>1
<1>4. \A i \in 1 .. Len(u) : u[i] = r[i]
  BY <1>2, <1>3 DEF n
<1>5. u = r
  BY <1>2, <1>4, SeqEqual DEF n
<1> QED BY <1>5 DEF u

LEMMA Stacks == ASSUME NEW a \in Nat, NEW b \in Nat
  PROVE /\ <<1>> \in Seq(Nat) /\ Len(<<1>>) = 1 /\ <<1>>[1] = 1
        /\ <<1, a>> \in Seq(Nat) /\ Len(<<1, a>>) = 2 /\ <<1, a>>[1] = 1 /\ <<1, a>>[2] = a
        /\ <<1, a, b>> \in Seq(Nat) /\ Len(<<1, a, b>>) = 3 /\ <<1, a, b>>[1] = 1 /\ <<1, a, b>>[2] = a
        /\ <<1, a, b>>[3] = b
  OBVIOUS

LEMMA UpTo == /\ \A i \in 1 .. 1 : i = 1
              /\ \A i \in 1 .. 2 : i = 1 \/ i = 2
              /\ \A i \in 1 .. 3 : i = 1 \/ i = 2 \/ i = 3
  OBVIOUS

LEMMA StacksGrow == ASSUME NEW a \in Nat, NEW b \in Nat
  PROVE /\ Append(<<1>>, a) = <<1, a>>
        /\ Append(<<1, a>>, b) = <<1, a, b>>
        /\ SubSeq(<<1, a>>, 1, 2) = <<1, a>>
        /\ SubSeq(<<1, a, b>>, 1, 2) = <<1, a>>
        /\ SubSeq(<<1, a, b>>, 1, 3) = <<1, a, b>>
<1> DEFINE s == <<1>>
           t == <<1, a>>
           u == <<1, a, b>>
<1>1. /\ s \in Seq(Nat) /\ Len(s) = 1 /\ s[1] = 1
      /\ t \in Seq(Nat) /\ Len(t) = 2 /\ t[1] = 1 /\ t[2] = a
      /\ u \in Seq(Nat) /\ Len(u) = 3 /\ u[1] = 1 /\ u[2] = a /\ u[3] = b
  BY Stacks
<1> HIDE DEF s, t, u
<1>2. 1 + 1 = 2 /\ 2 + 1 = 3 /\ 2 <= 3 /\ 2 <= 2 /\ 3 <= 3
  OBVIOUS
<1>3. /\ \A i \in 1 .. Len(s) : t[i] = s[i]
      /\ \A i \in 1 .. Len(t) : u[i] = t[i] /\ t[i] = u[i]
  BY <1>1, UpTo
<1>4. Append(s, a) = t
  <2>1. Len(t) = Len(s) + 1 /\ t[Len(s) + 1] = a
    BY <1>1, <1>2
  <2> QED BY <1>1, <1>3, <2>1, OneMore
<1>5. Append(t, b) = u
  BY <1>1, <1>2, <1>3, OneMore
<1>6. SubSeq(t, 1, Len(t)) = t
  <2>1. Len(t) <= Len(t)
    BY <1>1, <1>2
  <2> QED BY <1>1, <2>1, Beginning
<1>7. SubSeq(u, 1, Len(u)) = u
  <2>1. Len(u) <= Len(u)
    BY <1>1, <1>2
  <2> QED BY <1>1, <2>1, Beginning
<1>8. SubSeq(u, 1, Len(t)) = t
  <2>1. Len(t) <= Len(u)
    BY <1>1, <1>2
  <2> QED BY <1>1, <1>3, <2>1, Beginning
<1> QED BY <1>1, <1>4, <1>5, <1>6, <1>7, <1>8 DEF s, t, u

\* What is left of the counts when an element is complete.
LEMMA CompleteNone == ASSUME NEW s, \A i \in DOMAIN s : ~(s[i] > 1) PROVE Client!Complete(s) = <<>>
<1> DEFINE open == {i \in DOMAIN s : s[i] > 1}
<1>1. open = {}
  OBVIOUS
<1> QED BY <1>1, Zenon DEF Client!Complete

LEMMA CompleteLast ==
  ASSUME NEW s, NEW n \in DOMAIN s, DOMAIN s \subseteq Nat, s[n] > 1, \A j \in DOMAIN s : s[j] > 1 => j <= n
  PROVE  Client!Complete(s) = [SubSeq(s, 1, n) EXCEPT ![n] = @ - 1]
<1> DEFINE open == {i \in DOMAIN s : s[i] > 1}
           m == CHOOSE i \in open : \A j \in open : j <= i
<1>1. n \in open /\ \A j \in open : j <= n
  OBVIOUS
<1>2. m \in open /\ \A j \in open : j <= m
  BY <1>1
<1>3. m <= n /\ n <= m /\ m \in Nat /\ n \in Nat
  BY <1>1, <1>2
<1>4. m = n
  BY <1>3
<1>5. open # {}
  BY <1>1
<1>6. Client!Complete(s) = [SubSeq(s, 1, m) EXCEPT ![m] = @ - 1]
  BY <1>5, Zenon DEF Client!Complete
<1> QED BY <1>4, <1>6

LEMMA CompleteOne == Client!Complete(<<1>>) = <<>>
<1>1. \A i \in DOMAIN <<1>> : ~(<<1>>[i] > 1)
  OBVIOUS
<1> QED BY <1>1, CompleteNone

LEMMA CompleteTwo == ASSUME NEW a \in Nat, a >= 1
                     PROVE Client!Complete(<<1, a>>) = IF a > 1 THEN <<1, a - 1>> ELSE <<>>
<1> DEFINE s == <<1, a>>
<1>1. DOMAIN s = 1 .. 2 /\ s[1] = 1 /\ s[2] = a /\ s \in Seq(Nat) /\ Len(s) = 2
  OBVIOUS
<1>2. CASE a > 1
  <2>1. SubSeq(s, 1, 2) = s
    BY StacksGrow
  <2>2. [s EXCEPT ![2] = @ - 1] = <<1, a - 1>>
    BY <1>2
  <2> HIDE DEF s
  <2>3. 2 \in DOMAIN s /\ DOMAIN s \subseteq Nat /\ s[2] > 1 /\ \A j \in DOMAIN s : s[j] > 1 => j <= 2
    BY <1>1, <1>2
  <2>4. Client!Complete(s) = [SubSeq(s, 1, 2) EXCEPT ![2] = @ - 1]
    BY <2>3, CompleteLast
  <2> QED BY <1>2, <2>1, <2>2, <2>4 DEF s
<1>3. CASE ~(a > 1)
  <2>1. \A i \in DOMAIN s : ~(s[i] > 1)
    BY <1>1, <1>3
  <2> QED BY <1>3, <2>1, CompleteNone
<1> QED BY <1>2, <1>3

LEMMA CompleteThree == ASSUME NEW a \in Nat, a >= 1, NEW b \in Nat, b >= 1
  PROVE Client!Complete(<<1, a, b>>) = IF b > 1 THEN <<1, a, b - 1>> ELSE IF a > 1 THEN <<1, a - 1>> ELSE <<>>
<1> DEFINE s == <<1, a, b>>
<1>1. DOMAIN s = 1 .. 3 /\ s[1] = 1 /\ s[2] = a /\ s[3] = b
  OBVIOUS
<1>2. CASE b > 1
  <2>1. SubSeq(s, 1, 3) = s
    BY StacksGrow
  <2>2. [s EXCEPT ![3] = @ - 1] = <<1, a, b - 1>>
    BY <1>2
  <2> HIDE DEF s
  <2>3. 3 \in DOMAIN s /\ DOMAIN s \subseteq Nat /\ s[3] > 1 /\ \A j \in DOMAIN s : s[j] > 1 => j <= 3
    BY <1>1, <1>2
  <2>4. Client!Complete(s) = [SubSeq(s, 1, 3) EXCEPT ![3] = @ - 1]
    BY <2>3, CompleteLast
  <2> QED BY <1>2, <2>1, <2>2, <2>4 DEF s
<1>3. CASE ~(b > 1) /\ a > 1
  <2>1. SubSeq(s, 1, 2) = <<1, a>>
    BY StacksGrow
  <2>2. [<<1, a>> EXCEPT ![2] = @ - 1] = <<1, a - 1>>
    BY <1>3
  <2> HIDE DEF s
  <2>3. 2 \in DOMAIN s /\ DOMAIN s \subseteq Nat /\ s[2] > 1 /\ \A j \in DOMAIN s : s[j] > 1 => j <= 2
    BY <1>1, <1>3
  <2>4. Client!Complete(s) = [SubSeq(s, 1, 2) EXCEPT ![2] = @ - 1]
    BY <2>3, CompleteLast
  <2> QED BY <1>3, <2>1, <2>2, <2>4 DEF s
<1>4. CASE ~(b > 1) /\ ~(a > 1)
  <2>1. \A i \in DOMAIN s : ~(s[i] > 1)
    BY <1>1, <1>4
  <2> QED BY <1>4, <2>1, CompleteNone
<1> QED BY <1>2, <1>3, <1>4

\* The first b tokens are no arrays.
Plain(w, b) == \A q \in 1 .. b : q <= Len(w) /\ w[q].size = 0

\* What is left of a reply is what the arrays begun still lack.
Needed(s, w) ==
  \/ s = <<>> /\ w = <<>>
  \/ s = <<1>> /\ Elements(w, 1) /\ Flat(Tail(w))
  \/ \E a \in 1 .. Client!Longest : s = <<1, a>> /\ Elements(w, a) /\ Flat(w)
  \/ \E a, b \in 1 .. Client!Longest :
       s = <<1, a, b>> /\ Elements(w, a - 1 + b) /\ Flat(w) /\ Plain(w, b)

\* read_response reads a token.
LEMMA TokenRead ==
  ASSUME NEW s, NEW w \in Seq(Tokens), Needed(s, w), s # <<>>
  PROVE  /\ w # <<>>
         /\ Needed(IF Head(w).size > 0 THEN Append(s, Head(w).size) ELSE Client!Complete(s), Tail(w))
<1> DEFINE t == Head(w)
           v == Tail(w)
<1>1. \A n \in Nat : n > 0 /\ Elements(w, n) => w # <<>>
  BY CountSome
<1>2. w # <<>> => /\ v \in Seq(Tokens) /\ t \in Tokens /\ t.size \in 0 .. Client!Longest
                  /\ \A n : Elements(w, n) => Elements(v, n - 1 + t.size)
  <2> SUFFICES ASSUME w # <<>>
               PROVE /\ v \in Seq(Tokens) /\ t \in Tokens /\ t.size \in 0 .. Client!Longest
                     /\ \A n : Elements(w, n) => Elements(v, n - 1 + t.size)
    OBVIOUS
  <2>1. v \in Seq(Tokens) /\ t \in Tokens
    BY TailIs, TokensAre
  <2>2. t.size \in 0 .. Client!Longest
    BY <2>1 DEF Tokens
  <2> QED BY <2>1, <2>2, CountTail
<1>3. w # <<>> /\ Flat(w) => Flat(v) /\ Plain(v, t.size)
  BY FlatTail DEF Plain
<1>4. Elements(v, 0) /\ w # <<>> => v = <<>>
  BY <1>2, CountNone
<1>5. CASE s = <<1>> /\ Elements(w, 1) /\ Flat(v)
  <2>1. w # <<>> /\ Elements(v, 1 - 1 + t.size)
    BY <1>1, <1>2, <1>5
  <2>2. CASE t.size > 0
    <3>1. 1 - 1 + t.size = t.size /\ t.size \in 1 .. Client!Longest /\ t.size \in Nat
      BY <1>2, <2>1, <2>2, LongestIs
    <3>2. Append(s, t.size) = <<1, t.size>>
      BY <1>5, <3>1, StacksGrow
    <3> HIDE DEF t, v
    <3> QED BY <1>5, <2>1, <2>2, <3>1, <3>2 DEF Needed, t, v
  <2>3. CASE ~(t.size > 0)
    <3>1. 1 - 1 + t.size = 0
      BY <1>2, <2>1, <2>3, LongestIs
    <3> QED BY <1>4, <1>5, <2>1, <2>3, <3>1, CompleteOne DEF Needed
  <2> QED BY <2>2, <2>3
<1>6. ASSUME NEW a \in 1 .. Client!Longest, s = <<1, a>>, Elements(w, a), Flat(w)
      PROVE  /\ w # <<>>
             /\ Needed(IF t.size > 0 THEN Append(s, t.size) ELSE Client!Complete(s), v)
  <2>1. a \in Nat /\ a >= 1
    BY LongestIs
  <2>2. w # <<>> /\ Elements(v, a - 1 + t.size) /\ Flat(v) /\ Plain(v, t.size)
    BY <1>1, <1>2, <1>3, <1>6, <2>1
  <2>3. CASE t.size > 0
    <3>1. t.size \in 1 .. Client!Longest /\ t.size \in Nat
      BY <1>2, <2>2, <2>3, LongestIs
    <3>2. Append(s, t.size) = <<1, a, t.size>>
      BY <1>6, <2>1, <3>1, StacksGrow
    <3> HIDE DEF t, v
    <3> QED BY <2>2, <2>3, <3>1, <3>2 DEF Needed
  <2>4. CASE ~(t.size > 0)
    <3>1. a - 1 + t.size = a - 1
      BY <1>2, <2>1, <2>2, <2>4, LongestIs
    <3>2. Client!Complete(s) = IF a > 1 THEN <<1, a - 1>> ELSE <<>>
      BY <1>6, <2>1, CompleteTwo
    <3>3. CASE a > 1
      <4>1. a - 1 \in 1 .. Client!Longest
        BY <2>1, <3>3, LongestIs
      <4> HIDE DEF t, v
      <4> QED BY <2>2, <2>4, <3>1, <3>2, <3>3, <4>1 DEF Needed
    <3>4. CASE ~(a > 1)
      <4>1. a - 1 = 0
        BY <2>1, <3>4
      <4> HIDE DEF t, v
      <4> QED BY <1>4, <2>2, <2>4, <3>1, <3>2, <3>4, <4>1 DEF Needed
    <3> QED BY <3>3, <3>4
  <2> QED BY <2>3, <2>4
<1>7. ASSUME NEW a \in 1 .. Client!Longest, NEW b \in 1 .. Client!Longest, s = <<1, a, b>>,
             Elements(w, a - 1 + b), Flat(w), Plain(w, b)
      PROVE  /\ w # <<>>
             /\ Needed(IF t.size > 0 THEN Append(s, t.size) ELSE Client!Complete(s), v)
  <2>1. a \in Nat /\ a >= 1 /\ b \in Nat /\ b >= 1 /\ a - 1 + b \in Nat /\ a - 1 + b > 0
    BY LongestIs
  <2>2. w # <<>> /\ Elements(v, a - 1 + b - 1 + t.size) /\ Flat(v)
    BY <1>1, <1>2, <1>3, <1>7, <2>1
  <2>3. t.size = 0
    <3>1. t = w[1]
      BY <2>2, TailIs
    <3> QED BY <1>7, <2>1, <3>1 DEF Plain
  <2>4. Client!Complete(s) = IF b > 1 THEN <<1, a, b - 1>> ELSE IF a > 1 THEN <<1, a - 1>> ELSE <<>>
    BY <1>7, <2>1, CompleteThree
  <2>5. Plain(v, b - 1)
    <3>1. ASSUME NEW q \in 1 .. b - 1 PROVE q <= Len(v) /\ v[q].size = 0
      <4>1. q + 1 \in 1 .. b
        BY <2>1
      <4>2. q + 1 <= Len(w) /\ w[q + 1].size = 0
        BY <1>7, <4>1 DEF Plain
      <4>3. Len(w) \in Nat /\ Len(v) = Len(w) - 1 /\ \A p \in 1 .. Len(w) - 1 : v[p] = w[p + 1]
        BY <2>2, TailIs, TokensAre
      <4> DEFINE L == Len(w)
                 K == Len(v)
      <4> HIDE DEF L, K, v
      <4>4. q \in 1 .. L - 1 /\ q <= K
        BY <4>2, <4>3, <2>1 DEF L, K
      <4> QED BY <4>2, <4>3, <4>4 DEF L, K
    <3> QED BY <3>1 DEF Plain
  <2> HIDE DEF t, v
  <2>6. CASE b > 1
    <3>1. a - 1 + b - 1 + t.size = a - 1 + (b - 1) /\ b - 1 \in 1 .. Client!Longest
      BY <2>1, <2>3, <2>6, LongestIs
    <3> QED BY <2>2, <2>3, <2>4, <2>5, <2>6, <3>1 DEF Needed
  <2>7. CASE ~(b > 1) /\ a > 1
    <3>1. a - 1 + b - 1 + t.size = a - 1 /\ a - 1 \in 1 .. Client!Longest
      BY <2>1, <2>3, <2>7, LongestIs
    <3> QED BY <2>2, <2>3, <2>4, <2>7, <3>1 DEF Needed
  <2>8. CASE ~(b > 1) /\ ~(a > 1)
    <3>1. a - 1 + b - 1 + t.size = 0
      BY <2>1, <2>3, <2>8
    <3> QED BY <1>4, <2>2, <2>3, <2>4, <2>8, <3>1 DEF Needed
  <2> QED BY <2>6, <2>7, <2>8
<1> QED BY <1>5, <1>6, <1>7 DEF Needed

-----------------------------------------------------------------------------
\* The replies to each method, and its conversion.

\* The methods that throw for an absent key.
Strict == {"dump", "object_refcount", "object_encoding", "object_idletime", "blpop", "brpop", "zscore"}

\* What conversion c of method m makes of its replies: a value of the method's own results, and of
\* nil for all but the strict ones and exec, which throws when a watched key has changed; it throws
\* for errors.
Fits(m, c) ==
  /\ Client!ReplyType(m) \in Client!Accepted(c)
  /\ m \in Client!NilMethods /\ "nil" \notin Client!Accepted(c) => m \in Strict \cup {"exec"}
  /\ m = "exec" => c = "as_array"
  /\ "-" \notin Client!Accepted(c)
  /\ "+" \in Client!Accepted(c) => c \in {"as_string", "as_string_optional", "check_error"}

AllFit(s) == \A c \in DOMAIN s : \A m \in s[c] : Fits(m, c)

LEMMA SectionsFit == \A s \in Client!Sections : AllFit(s)
<1> USE DEF AllFit, Fits, Strict, Client!ReplyType, Client!Accepted, Client!Accepting, Client!NilMethods,
            Client!BulkMethods, Client!ArrayMethods, Client!StatusMethods
<1>1. AllFit(Client!Connection)
  BY DEF Client!Connection
<1>2. AllFit(Client!Keys)
  BY DEF Client!Keys
<1>3. AllFit(Client!Lists)
  BY DEF Client!Lists
<1>4. AllFit(Client!Hashes)
  BY DEF Client!Hashes
<1>5. AllFit(Client!Strings)
  BY DEF Client!Strings
<1>6. AllFit(Client!MoreStrings)
  BY DEF Client!MoreStrings
<1>7. AllFit(Client!Sets)
  BY DEF Client!Sets
<1>8. AllFit(Client!SortedSets)
  BY DEF Client!SortedSets
<1>9. AllFit(Client!MoreSortedSets)
  BY DEF Client!MoreSortedSets
<1>10. AllFit(Client!Transactions)
  BY DEF Client!Transactions
<1> HIDE DEF AllFit
<1> QED BY <1>1, <1>2, <1>3, <1>4, <1>5, <1>6, <1>7, <1>8, <1>9, <1>10, Zenon DEF Client!Sections

\* The methods are those of the sections.
LEMMA MethodsAre == \A m : m \in Client!Methods <=> \E s \in Client!Sections : \E c \in DOMAIN s : m \in s[c]
<1> DEFINE Of(s) == UNION {s[c] : c \in DOMAIN s}
<1>1. \A m, s : m \in Of(s) <=> \E c \in DOMAIN s : m \in s[c]
  <2> SUFFICES ASSUME NEW m, NEW s PROVE m \in Of(s) <=> \E c \in DOMAIN s : m \in s[c]
    OBVIOUS
  <2> QED OBVIOUS
<1>2. Client!Methods = UNION {Of(s) : s \in Client!Sections}
  BY DEF Client!Methods
<1> HIDE DEF Of
<1>3. \A m : m \in Client!Methods <=> \E s \in Client!Sections : m \in Of(s)
  BY <1>2
<1> QED BY <1>1, <1>3, Zenon

\* The conversion of a method fits it.
LEMMA ConversionFits == ASSUME NEW m \in Client!Methods PROVE Fits(m, Client!Conversion(m))
<1>1. \A s \in Client!Sections : AllFit(s)
  BY SectionsFit
<1> DEFINE C == UNION {DOMAIN s : s \in Client!Sections}
           Reads(c) == \E s \in Client!Sections : c \in DOMAIN s /\ m \in s[c]
<1>2. PICK s \in Client!Sections : \E c \in DOMAIN s : m \in s[c]
  BY MethodsAre, Zenon
<1>3. \E c \in C : Reads(c)
  BY <1>2
<1>4. Client!Conversion(m) = CHOOSE c \in C : Reads(c)
  BY Zenon DEF Client!Conversion
<1>5. Reads(Client!Conversion(m))
  <2> HIDE DEF C, Reads
  <2> QED BY <1>3, <1>4, Zenon
<1> QED BY <1>1, <1>5, Zenon DEF AllFit

LEMMA Transacting == {"exec", "discard", "multi"} \subseteq Client!Methods
<1> DEFINE T == Client!Transactions
<1>1. T \in Client!Sections
  BY Zenon DEF Client!Sections
<1>2. \A c \in DOMAIN T : T[c] \subseteq Client!Methods
  BY <1>1, MethodsAre, Zenon
<1>3. {"check_error", "as_array"} \subseteq DOMAIN T
  BY DEF Client!Transactions
<1>4. "exec" \in T["as_array"] /\ "discard" \in T["check_error"] /\ "multi" \in T["check_error"]
  BY DEF Client!Transactions
<1> QED BY <1>2, <1>3, <1>4, Zenon

\* The types of the replies to a method.
Answers(m, within) ==
  IF within /\ m # "exec" THEN {"+", "-"}
  ELSE {Client!ReplyType(m), "-"} \cup (IF m \in Client!NilMethods THEN {"nil"} ELSE {})

\* r is one reply, of one of these types.
IsReply(r, types) == r \in Seq(Tokens) /\ Elements(r, 1) /\ Flat(Tail(r)) /\ Head(r).type \in types

LEMMA ReplyTypes == \A m : Client!ReplyType(m) \in {"$", "*", "+", ":"}
  BY DEF Client!ReplyType

LEMMA SingleIs == ASSUME NEW t \in Tokens
                  PROVE <<t>> \in Seq(Tokens) /\ Tail(<<t>>) = <<>> /\ Head(<<t>>) = t /\ Len(<<t>>) = 1 /\ <<t>>[1] = t
  OBVIOUS

LEMMA EmptyFlat == Flat(<<>>) /\ <<>> \in Seq(Tokens)
<1>1. Len(<<>>) = 0 /\ <<>> \in Seq(Tokens)
  OBVIOUS
<1> QED BY <1>1 DEF Flat

LEMMA TokenIs == /\ \A x \in TokenTypes :
                      Client!Token(x) \in Tokens /\ Client!Token(x).size = 0 /\ Client!Token(x).type = x
                 /\ \A n \in 0 .. Client!Longest :
                      Client!Array(n) \in Tokens /\ Client!Array(n).size = n /\ Client!Array(n).type = "*"
<1>1. "*" \in TokenTypes /\ 0 \in 0 .. Client!Longest
  BY LongestIs DEF TokenTypes
<1>2. ASSUME NEW x \in TokenTypes PROVE Client!Token(x) \in Tokens /\ Client!Token(x).size = 0 /\ Client!Token(x).type = x
  BY <1>1 DEF Client!Token, Tokens
<1>3. ASSUME NEW n \in 0 .. Client!Longest
      PROVE Client!Array(n) \in Tokens /\ Client!Array(n).size = n /\ Client!Array(n).type = "*"
  BY <1>1 DEF Client!Array, Tokens
<1> QED BY <1>2, <1>3

LEMMA SingleReply == ASSUME NEW x \in TokenTypes PROVE IsReply(<<Client!Token(x)>>, {x})
<1> DEFINE t == Client!Token(x)
<1>1. t \in Tokens /\ t.size = 0 /\ t.type = x
  BY TokenIs
<1> HIDE DEF t
<1>2. Elements(<<t>>, 1)
  BY <1>1, CountToken
<1> QED BY <1>1, <1>2, SingleIs, EmptyFlat DEF IsReply, t

\* An array and its elements.
LEMMA ArrayReply == ASSUME NEW w \in Seq(Tokens), NEW n \in 0 .. Client!Longest, Elements(w, n), Flat(w)
                    PROVE  IsReply(<<Client!Array(n)>> \o w, {"*"})
<1> DEFINE t == Client!Array(n)
           r == <<t>> \o w
<1>1. t \in Tokens /\ t.size = n /\ t.type = "*"
  BY TokenIs
<1> HIDE DEF t
<1>2. Elements(r, 1)
  BY <1>1, CountArray
<1>3. <<t>> \in Seq(Tokens) /\ Len(<<t>>) = 1 /\ <<t>>[1] = t
  BY <1>1, SingleIs
<1>4. r \in Seq(Tokens) /\ Len(r) = 1 + Len(w) /\ r[1] = t /\ \A p \in 1 + 1 .. 1 + Len(w) : r[p] = w[p - 1]
  <2>1. /\ r \in Seq(Tokens) /\ Len(r) = Len(<<t>>) + Len(w)
        /\ \A p \in 1 .. Len(<<t>>) : r[p] = <<t>>[p]
        /\ \A p \in Len(<<t>>) + 1 .. Len(<<t>>) + Len(w) : r[p] = w[p - Len(<<t>>)]
    BY <1>3, JoinIs
  <2>2. 1 \in 1 .. 1
    OBVIOUS
  <2> QED BY <1>3, <2>1, <2>2
<1>5. r # <<>>
  BY <1>2, <1>4, CountSome
<1> HIDE DEF r
<1>6. Head(r) = t
  BY <1>4, <1>5, TailIs
<1>7. Tail(r) = w
  <2> DEFINE v == Tail(r)
             L == Len(w)
  <2>1. v \in Seq(Tokens) /\ Len(v) = Len(r) - 1 /\ \A p \in 1 .. Len(r) - 1 : v[p] = r[p + 1]
    BY <1>4, <1>5, TailIs
  <2>2. L \in Nat /\ Len(r) = 1 + L
    BY <1>4, LenProperties
  <2> HIDE DEF v, L
  <2>3. Len(v) = L /\ Len(r) - 1 = L
    BY <2>1, <2>2
  <2>4. ASSUME NEW p \in 1 .. L PROVE v[p] = w[p]
    <3>1. p + 1 \in 1 + 1 .. 1 + L /\ p + 1 - 1 = p
      BY <2>2
    <3> QED BY <1>4, <2>1, <2>3, <3>1 DEF L
  <2>5. v = w
    BY <2>1, <2>3, <2>4, SeqEqual DEF L
  <2> QED BY <2>5 DEF v
<1> QED BY <1>1, <1>2, <1>4, <1>6, <1>7 DEF IsReply, r, t

\* Up to five elements.
LEMMA UpToFive == /\ \A p \in 1 .. 1 : p = 1
                  /\ \A p \in 1 .. 2 : p = 1 \/ p = 2
                  /\ \A p \in 1 .. 4 : p = 1 \/ p = 2 \/ p = 3 \/ p = 4
  OBVIOUS

\* The arrays of a method are replies.
LEMMA PairReply == ASSUME NEW t \in Tokens, t.size = 2, t.type = "*", NEW s \in Tokens, s.size = 0,
                          NEW n \in Tokens, n.size = 0
                   PROVE  IsReply(<<t, s, n>>, {"*"})
<1> DEFINE r == <<t, s, n>>
           w == <<s, n>>
           f == [p \in 0 .. 3 |-> IF p = 0 THEN 1 ELSE 3 - p]
<1>1. /\ r \in Seq(Tokens) /\ Len(r) = 3 /\ r[1] = t /\ r[2] = s /\ r[3] = n
      /\ Head(r) = t /\ Tail(r) = w /\ Len(w) = 2 /\ w[1] = s /\ w[2] = n
  OBVIOUS
<1> HIDE DEF r, w
<1>2. Flat(w)
  BY <1>1, UpToFive DEF Flat
<1>3. f \in [0 .. 3 -> Nat] /\ f[0] = 1 /\ f[1] = 2 /\ f[2] = 1 /\ f[3] = 0
  OBVIOUS
<1> HIDE DEF f
<1>4. ASSUME NEW p \in 0 .. 3 - 1 PROVE f[p] > 0 /\ f[p + 1] = f[p] - 1 + r[p + 1].size
  <2>1. CASE p = 0
    BY <1>1, <1>3, <2>1
  <2>2. CASE p = 1
    BY <1>1, <1>3, <2>2
  <2>3. CASE p = 2
    BY <1>1, <1>3, <2>3
  <2> QED BY <2>1, <2>2, <2>3
<1>5. Counts(f, r, 1)
  BY <1>1, <1>3, <1>4 DEF Counts
<1> QED BY <1>1, <1>2, <1>5 DEF IsReply, Elements, r

LEMMA NestedReply == ASSUME NEW t \in Tokens, t.size = 2, t.type = "*", NEW s \in Tokens, s.size = 0
                     PROVE  IsReply(<<t, s, t, s, s>>, {"*"})
<1> DEFINE r == <<t, s, t, s, s>>
           w == <<s, t, s, s>>
           f == [p \in 0 .. 5 |-> IF p = 0 THEN 1 ELSE IF p < 3 THEN 3 - p ELSE 5 - p]
<1>1. /\ r \in Seq(Tokens) /\ Len(r) = 5 /\ r[1] = t /\ r[2] = s /\ r[3] = t /\ r[4] = s /\ r[5] = s
      /\ Head(r) = t /\ Tail(r) = w /\ Len(w) = 4 /\ w[1] = s /\ w[2] = t /\ w[3] = s /\ w[4] = s
  OBVIOUS
<1> HIDE DEF r, w
<1>2. Flat(w)
  BY <1>1, UpToFive DEF Flat
<1>3. f \in [0 .. 5 -> Nat] /\ f[0] = 1 /\ f[1] = 2 /\ f[2] = 1 /\ f[3] = 2 /\ f[4] = 1 /\ f[5] = 0
  OBVIOUS
<1> HIDE DEF f
<1>4. ASSUME NEW p \in 0 .. 5 - 1 PROVE f[p] > 0 /\ f[p + 1] = f[p] - 1 + r[p + 1].size
  <2>1. CASE p = 0
    BY <1>1, <1>3, <2>1
  <2>2. CASE p = 1
    BY <1>1, <1>3, <2>2
  <2>3. CASE p = 2
    BY <1>1, <1>3, <2>3
  <2>4. CASE p = 3
    BY <1>1, <1>3, <2>4
  <2>5. CASE p = 4
    BY <1>1, <1>3, <2>5
  <2> QED BY <2>1, <2>2, <2>3, <2>4, <2>5
<1>5. Counts(f, r, 1)
  BY <1>1, <1>3, <1>4 DEF Counts
<1> QED BY <1>1, <1>2, <1>5 DEF IsReply, Elements, r

LEMMA ArraysReply == ASSUME NEW r \in Client!Arrays PROVE IsReply(r, {"*"})
<1> DEFINE z == Client!Array(0)
           t == Client!Array(2)
           s == Client!Token("$")
           n == Client!Token("nil")
<1>1. /\ z \in Tokens /\ z.size = 0 /\ z.type = "*" /\ t \in Tokens /\ t.size = 2 /\ t.type = "*"
      /\ s \in Tokens /\ s.size = 0 /\ n \in Tokens /\ n.size = 0
  BY TokenIs, LongestIs DEF TokenTypes
<1>2. r \in {<<z>>, <<t, s, n>>, <<t, s, t, s, s>>}
  BY Zenon DEF Client!Arrays
<1> HIDE DEF z, t, s, n
<1>3. IsReply(<<z>>, {"*"})
  BY <1>1, SingleIs, CountToken, EmptyFlat DEF IsReply
<1> QED BY <1>1, <1>2, <1>3, PairReply, NestedReply

LEMMA WiderReply == ASSUME NEW r, NEW S, NEW T, S \subseteq T, IsReply(r, S) PROVE IsReply(r, T)
  BY DEF IsReply

LEMMA ErrorReply == IsReply(Client!Error, {"-"})
<1>1. "-" \in TokenTypes
  BY DEF TokenTypes
<1> QED BY <1>1, SingleReply DEF Client!Error

\* What a method called outside a transaction is answered.
LEMMA ResultsReply == ASSUME NEW m, NEW r \in Client!Results(m) \cup {Client!Error}
                      PROVE  IsReply(r, Answers(m, FALSE))
<1> DEFINE c == Client!ReplyType(m)
<1>1. c \in TokenTypes /\ "nil" \in TokenTypes
  BY ReplyTypes DEF TokenTypes
<1>2. "-" \in Answers(m, FALSE) /\ c \in Answers(m, FALSE) /\ (m \in Client!NilMethods => "nil" \in Answers(m, FALSE))
  BY DEF Answers
<1>3. \/ r = Client!Error
      \/ c = "*" /\ r \in Client!Arrays
      \/ r = <<Client!Token(c)>>
      \/ m \in Client!NilMethods /\ r = <<Client!Token("nil")>>
  <2> HIDE DEF c
  <2>1. Client!Results(m) = (IF c = "*" THEN Client!Arrays ELSE {<<Client!Token(c)>>})
              \cup (IF m \in Client!NilMethods THEN {<<Client!Token("nil")>>} ELSE {})
    BY DEF Client!Results, c
  <2> QED BY <2>1, Zenon
<1> HIDE DEF c
<1>4. CASE r = Client!Error
  <2>1. IsReply(r, {"-"}) /\ {"-"} \subseteq Answers(m, FALSE)
    BY <1>2, <1>4, ErrorReply
  <2> QED BY <2>1, WiderReply
<1>5. CASE c = "*" /\ r \in Client!Arrays
  <2>1. IsReply(r, {"*"})
    BY <1>5, ArraysReply
  <2>2. {"*"} \subseteq Answers(m, FALSE)
    BY <1>2, <1>5
  <2> QED BY <2>1, <2>2, WiderReply
<1>6. CASE r = <<Client!Token(c)>>
  <2>1. IsReply(r, {c}) /\ {c} \subseteq Answers(m, FALSE)
    BY <1>1, <1>2, <1>6, SingleReply
  <2> QED BY <2>1, WiderReply
<1>7. CASE m \in Client!NilMethods /\ r = <<Client!Token("nil")>>
  <2>1. IsReply(r, {"nil"}) /\ {"nil"} \subseteq Answers(m, FALSE)
    BY <1>1, <1>2, <1>7, SingleReply
  <2> QED BY <2>1, WiderReply
<1> QED BY <1>3, <1>4, <1>5, <1>6, <1>7

\* What a command of a transaction results in is one element.
LEMMA QueuedElement == ASSUME NEW m, NEW r \in Client!Queued(m)
                       PROVE  r \in Seq(Tokens) /\ Elements(r, 1) /\ Flat(r)
<1> DEFINE c == Client!ReplyType(m)
           s == Client!Token("$")
           t == Client!Array(1)
<1>1. /\ c \in TokenTypes /\ "$" \in TokenTypes /\ "-" \in TokenTypes /\ 1 \in 0 .. Client!Longest
      /\ s \in Tokens /\ s.size = 0 /\ t \in Tokens /\ t.size = 1
  BY ReplyTypes, TokenIs, LongestIs DEF TokenTypes
<1>2. r = Client!Error \/ r = <<t, s>> \/ r = <<Client!Token(c)>>
  BY Zenon DEF Client!Queued
<1>3. ASSUME NEW x \in TokenTypes
      PROVE  <<Client!Token(x)>> \in Seq(Tokens) /\ Elements(<<Client!Token(x)>>, 1) /\ Flat(<<Client!Token(x)>>)
  <2> DEFINE y == Client!Token(x)
  <2>1. y \in Tokens /\ y.size = 0
    BY TokenIs
  <2> HIDE DEF y
  <2>2. <<y>> \in Seq(Tokens) /\ Len(<<y>>) = 1 /\ <<y>>[1] = y /\ Elements(<<y>>, 1)
    BY <2>1, SingleIs, CountToken
  <2> DEFINE w == <<y>>
  <2> HIDE DEF w
  <2>3. Flat(w)
    BY <2>1, <2>2 DEF Flat, w
  <2> QED BY <2>2, <2>3 DEF w, y
<1> HIDE DEF s, t, c
<1>4. <<t, s>> \in Seq(Tokens) /\ Elements(<<t, s>>, 1) /\ Flat(<<t, s>>)
  <2>1. <<s>> \in Seq(Tokens) /\ Elements(<<s>>, 1)
    BY <1>1, CountToken
  <2>2. <<t, s>> = <<t>> \o <<s>> /\ <<t, s>> \in Seq(Tokens)
    BY <1>1
  <2>3. Elements(<<t, s>>, 1)
    BY <1>1, <2>1, <2>2, CountArray
  <2> DEFINE w == <<t, s>>
  <2>4. Len(w) = 2 /\ w[1] = t /\ w[2] = s
    OBVIOUS
  <2> HIDE DEF w
  <2>5. Flat(w)
    BY <1>1, <2>4 DEF Flat
  <2> QED BY <2>2, <2>3, <2>5 DEF w
<1> QED BY <1>1, <1>2, <1>3, <1>4 DEF Client!Error

-----------------------------------------------------------------------------
\* The steps.

\* The client's variables.
method == v1
replies == v2
stack == v3
type == v4
multi == v5
queued == v6
results == v7
inMulti == v8
outcome == v9

ClientTypes ==
  /\ method \in Client!Methods \cup {Idle} /\ outcome \in {"none", "value", "refused"}
  /\ type \in TokenTypes \cup {"none"} /\ replies \in Seq(Tokens)
  /\ multi \in BOOLEAN /\ inMulti \in BOOLEAN

\* The server's transaction: what exec will find.
Transaction == /\ queued \in 0 .. MaxQueued /\ results \in Seq(Tokens)
               /\ Elements(results, queued) /\ Flat(results)

\* A method under way has begun, is inside its reply, or has read all of it; then it concludes.
Reading == /\ Needed(stack, replies)
           /\ method = Idle => stack = <<>> /\ outcome = "none" /\ type = "none"
           /\ method # Idle /\ type = "none" => stack = <<1>>
           /\ outcome # "none" => stack = <<>>

\* What it reads is a reply to it.
Answered == /\ method # Idle /\ type # "none" => type \in Answers(method, inMulti)
            /\ method # Idle /\ type = "none" => Head(replies).type \in Answers(method, inMulti)
            /\ method = "exec" => inMulti

Concluded == /\ outcome = "value" => type \in Client!Accepted(Client!Conversion(method))
             /\ outcome = "refused" => type \notin Client!Accepted(Client!Conversion(method))

ClientInv == ClientTypes /\ Transaction /\ Reading /\ Answered /\ Concluded

LEMMA EmptyElements == Elements(<<>>, 0)
<1> DEFINE f == [p \in 0 .. 0 |-> 0]
<1>1. Len(<<>>) = 0
  OBVIOUS
<1>2. Counts(f, <<>>, 0)
  BY <1>1 DEF Counts
<1> QED BY <1>2 DEF Elements

\* The stack is empty with the replies, and only then.
LEMMA StackIs == /\ \A w : Needed(<<>>, w) => w = <<>>
                 /\ \A w : IsReply(w, Answers(method, inMulti)) => Needed(<<1>>, w)
                 /\ Needed(<<>>, <<>>)
                 /\ <<1>> # <<>>
<1>1. /\ <<1>> # <<>> /\ \A a : <<1, a>> # <<>>
      /\ \A a, b : <<1, a, b>> # <<>>
  OBVIOUS
<1> QED BY <1>1 DEF Needed, IsReply

LEMMA ClientInit == ASSUME Client!Init PROVE ClientInv
<1> USE DEF Client!Init, method, replies, stack, type, multi, queued, results, inMulti, outcome
<1>1. <<>> \in Seq(Tokens)
  BY EmptyFlat
<1>2. Idle \notin Client!Methods /\ MaxQueued \in Nat
  BY StoredAssumption DEF Client!RespAssumption
<1>3. ClientTypes
  BY <1>1 DEF ClientTypes
<1>4. Transaction
  BY <1>1, <1>2, EmptyFlat, EmptyElements DEF Transaction
<1>5. Reading
  BY StackIs DEF Reading
<1>6. Answered
  <2>1. Idle # "exec"
    BY <1>2, Transacting
  <2> QED BY <2>1 DEF Answered
<1>7. Concluded
  BY DEF Concluded
<1> QED BY <1>3, <1>4, <1>5, <1>6, <1>7 DEF ClientInv

\* The server replies to a method that was called.
LEMMA ReplyKept ==
  ASSUME ClientInv, NEW m \in Client!Methods, NEW r, Client!Reply(m, r), IsReply(r, Answers(m, multi)),
         m = "exec" => multi, Transaction', multi' \in BOOLEAN
  PROVE  ClientInv'
<1> USE DEF method, replies, stack, type, multi, queued, results, inMulti, outcome
<1>1. /\ method = Idle /\ method' = m /\ stack' = <<1>> /\ type' = "none" /\ outcome' = "none" /\ inMulti' = multi
      /\ replies' = replies \o r
  BY DEF Client!Reply
<1>2. Idle \notin Client!Methods
  BY StoredAssumption DEF Client!RespAssumption
<1>3. replies' = r /\ r \in Seq(Tokens)
  <2>1. replies = <<>>
    BY <1>1, StackIs DEF ClientInv, Reading
  <2>2. r \in Seq(Tokens)
    BY DEF IsReply
  <2>3. <<>> \o r = r
    BY <2>2
  <2> QED BY <1>1, <2>1, <2>2, <2>3
<1>4. ClientTypes'
  BY <1>1, <1>3 DEF ClientInv, ClientTypes
<1>5. Reading'
  BY <1>1, <1>2, <1>3 DEF Reading, Needed, IsReply
<1>6. Answered'
  BY <1>1, <1>3 DEF Answered, IsReply
<1>7. Concluded'
  BY <1>1 DEF Concluded
<1> QED BY <1>4, <1>5, <1>6, <1>7 DEF ClientInv

LEMMA CallKept == ASSUME ClientInv, NEW m \in Client!Methods, Client!Call(m) PROVE ClientInv'
<1> USE DEF multi, queued, results
<1>1. PICK r \in Client!Results(m) \cup {Client!Error} : Client!Reply(m, r)
  BY Zenon DEF Client!Call
<1>2. ~multi /\ m # "exec" /\ UNCHANGED <<multi, queued, results>>
  BY DEF Client!Call
<1>3. multi = FALSE
  BY <1>2 DEF ClientInv, ClientTypes
<1>4. IsReply(r, Answers(m, multi))
  BY <1>3, ResultsReply
<1>5. Transaction' /\ multi' \in BOOLEAN
  BY <1>2 DEF ClientInv, Transaction, ClientTypes
<1> QED BY <1>1, <1>2, <1>4, <1>5, ReplyKept

\* The statuses and errors of commands in a transaction.
LEMMA StatusReply == ASSUME NEW m, NEW in \in BOOLEAN, in \/ Client!ReplyType(m) = "+", m = "exec" => ~in
                     PROVE  /\ IsReply(<<Client!Token("+")>>, Answers(m, in))
<1>1. "+" \in TokenTypes
  BY DEF TokenTypes
<1>2. "+" \in Answers(m, in)
  BY DEF Answers
<1>3. {"+"} \subseteq Answers(m, in)
  BY <1>2
<1> QED BY <1>1, <1>3, SingleReply, WiderReply

LEMMA ErrorAnswers == ASSUME NEW m, NEW in \in BOOLEAN PROVE IsReply(Client!Error, Answers(m, in))
<1>1. {"-"} \subseteq Answers(m, in)
  BY DEF Answers
<1> QED BY <1>1, ErrorReply, WiderReply

LEMMA CallQueuedKept == ASSUME ClientInv, NEW m \in Client!Methods, Client!CallQueued(m) PROVE ClientInv'
<1> USE DEF multi, queued, results
<1>1. multi = TRUE /\ m # "exec" /\ queued < MaxQueued /\ multi' = multi
  BY DEF Client!CallQueued, ClientInv, ClientTypes
<1>2. \/ /\ Client!Reply(m, <<Client!Token("+")>>)
         /\ queued' = queued + 1
         /\ \E result \in Client!Queued(m) : results' = results \o result
      \/ Client!Reply(m, Client!Error) /\ UNCHANGED <<queued, results>>
  BY Zenon DEF Client!CallQueued
<1>3. Transaction
  BY DEF ClientInv
<1>4. CASE Client!Reply(m, Client!Error) /\ UNCHANGED <<queued, results>>
  <2>1. Transaction'
    BY <1>3, <1>4 DEF Transaction
  <2>2. IsReply(Client!Error, Answers(m, multi))
    BY <1>1, ErrorAnswers
  <2> QED BY <1>1, <1>4, <2>1, <2>2, ReplyKept
<1>5. CASE /\ Client!Reply(m, <<Client!Token("+")>>)
           /\ queued' = queued + 1
           /\ \E result \in Client!Queued(m) : results' = results \o result
  <2>1. PICK r \in Client!Queued(m) : results' = results \o r
    BY <1>5
  <2>2. r \in Seq(Tokens) /\ Elements(r, 1) /\ Flat(r)
    BY <2>1, QueuedElement
  <2>3. queued \in Nat /\ queued' \in 0 .. MaxQueued /\ 1 \in Nat
    <3>1. queued \in 0 .. MaxQueued /\ MaxQueued \in Nat
      BY <1>3, StoredAssumption DEF Transaction, Client!RespAssumption
    <3> QED BY <1>1, <1>5, <3>1
  <2>4. results' \in Seq(Tokens) /\ Elements(results', queued + 1) /\ Flat(results')
    <3> HIDE DEF results, queued
    <3> QED BY <1>3, <2>1, <2>2, <2>3, CountJoin, FlatJoin, JoinIs DEF Transaction
  <2>5. Transaction'
    BY <1>5, <2>3, <2>4 DEF Transaction
  <2>6. IsReply(<<Client!Token("+")>>, Answers(m, multi))
    BY <1>1, StatusReply
  <2> QED BY <1>1, <1>5, <2>5, <2>6, ReplyKept
<1> QED BY <1>2, <1>4, <1>5

LEMMA NoneQueued == ASSUME queued' = 0, results' = <<>> PROVE Transaction'
<1>1. 0 \in 0 .. MaxQueued
  BY StoredAssumption DEF Client!RespAssumption
<1> QED BY <1>1, EmptyFlat, EmptyElements DEF Transaction, queued, results

LEMMA MultiKept == ASSUME ClientInv, Client!Multi PROVE ClientInv'
<1> USE DEF multi, queued, results
<1> DEFINE r == IF multi THEN Client!Error ELSE <<Client!Token("+")>>
<1>1. Client!Reply("multi", r) /\ multi' = TRUE /\ UNCHANGED <<queued, results>>
  BY DEF Client!Multi
<1>2. Transaction'
  BY <1>1 DEF ClientInv, Transaction
<1>3. multi \in BOOLEAN /\ "multi" # "exec" /\ "multi" \in Client!Methods
  BY Transacting DEF ClientInv, ClientTypes
<1>4. Client!ReplyType("multi") = "+"
  BY DEF Client!ReplyType, Client!BulkMethods, Client!ArrayMethods, Client!StatusMethods
<1>5. IsReply(r, Answers("multi", multi))
  BY <1>3, <1>4, StatusReply, ErrorAnswers
<1> HIDE DEF r
<1> QED BY <1>1, <1>2, <1>3, <1>5, ReplyKept

LEMMA DiscardKept == ASSUME ClientInv, Client!Discard PROVE ClientInv'
<1> USE DEF multi, queued, results
<1> DEFINE r == IF multi THEN <<Client!Token("+")>> ELSE Client!Error
<1>1. Client!Reply("discard", r) /\ multi' = FALSE /\ queued' = 0 /\ results' = <<>>
  BY DEF Client!Discard
<1>2. Transaction'
  BY <1>1, NoneQueued
<1>3. multi \in BOOLEAN /\ "discard" # "exec" /\ "discard" \in Client!Methods
  BY Transacting DEF ClientInv, ClientTypes
<1>4. IsReply(r, Answers("discard", multi))
  BY <1>3, StatusReply, ErrorAnswers
<1> HIDE DEF r
<1> QED BY <1>1, <1>2, <1>3, <1>4, ReplyKept

LEMMA ExecKept == ASSUME ClientInv, Client!Exec PROVE ClientInv'
<1> USE DEF multi, queued, results
<1>1. PICK r \in {<<Client!Array(queued)>> \o results, <<Client!Token("nil")>>, Client!Error} : Client!Reply("exec", r)
  BY Zenon DEF Client!Exec
<1>2. multi /\ multi' = FALSE /\ queued' = 0 /\ results' = <<>>
  BY DEF Client!Exec
<1>3. Transaction'
  BY <1>2, NoneQueued
<1>4. multi \in BOOLEAN /\ "exec" \in Client!Methods
  BY Transacting DEF ClientInv, ClientTypes
<1>5. {"*"} \subseteq Answers("exec", multi) /\ {"nil"} \subseteq Answers("exec", multi)
  BY DEF Answers, Client!ReplyType, Client!BulkMethods, Client!ArrayMethods, Client!NilMethods
<1>6. IsReply(<<Client!Array(queued)>> \o results, {"*"})
  <2>1. queued \in 0 .. Client!Longest
    BY LongestIs DEF ClientInv, Transaction
  <2> HIDE DEF queued, results
  <2> QED BY <2>1, ArrayReply DEF ClientInv, Transaction
<1>7. IsReply(<<Client!Token("nil")>>, {"nil"})
  <2>1. "nil" \in TokenTypes
    BY DEF TokenTypes
  <2> QED BY <2>1, SingleReply
<1>8. IsReply(r, Answers("exec", multi))
  <2>1. CASE r = Client!Error
    BY <1>4, <2>1, ErrorAnswers
  <2>2. CASE r = <<Client!Token("nil")>>
    BY <1>5, <1>7, <2>2, WiderReply
  <2>3. CASE r = <<Client!Array(queued)>> \o results
    <3>1. IsReply(r, {"*"})
      BY <1>6, <2>3
    <3> QED BY <1>5, <3>1, WiderReply
  <2> QED BY <1>1, <2>1, <2>2, <2>3
<1> QED BY <1>1, <1>2, <1>3, <1>4, <1>8, ReplyKept

\* read_response reads a token.
LEMMA ReadTokenKept == ASSUME ClientInv, Client!ReadToken PROVE ClientInv'
<1> USE DEF method, replies, stack, type, multi, queued, results, inMulti, outcome
<1> DEFINE t == Head(replies)
           left == IF t.size > 0 THEN Append(stack, t.size) ELSE Client!Complete(stack)
<1>1. /\ stack # <<>> /\ replies # <<>> /\ replies' = Tail(replies)
      /\ type' = (IF type = "none" THEN t.type ELSE type)
      /\ stack' = left
      /\ UNCHANGED <<method, multi, queued, results, inMulti, outcome>>
  BY DEF Client!ReadToken
<1>2. Needed(left, Tail(replies))
  <2>1. replies \in Seq(Tokens) /\ Needed(stack, replies)
    BY DEF ClientInv, ClientTypes, Reading
  <2> QED BY <1>1, <2>1, TokenRead
<1>3. Tail(replies) \in Seq(Tokens) /\ t \in Tokens
  <2>1. replies \in Seq(Tokens)
    BY DEF ClientInv, ClientTypes
  <2>2. Tail(replies) \in Seq(Tokens) /\ Len(replies) >= 1 /\ t = replies[1]
    BY <1>1, <2>1, TailIs
  <2>3. Len(replies) \in Nat /\ \A p \in 1 .. Len(replies) : replies[p] \in Tokens
    BY <2>1, TokensAre
  <2>4. 1 \in 1 .. Len(replies)
    BY <2>2, <2>3
  <2> QED BY <2>2, <2>3, <2>4
<1>4. t.type \in TokenTypes /\ "none" \notin TokenTypes
  BY <1>3 DEF Tokens, TokenTypes
<1> HIDE DEF t, left
<1>5. method # Idle /\ outcome = "none" /\ type' # "none" /\ type' \in TokenTypes
  BY <1>1, <1>4 DEF ClientInv, Reading, ClientTypes
<1>6. ClientTypes'
  BY <1>1, <1>3, <1>5 DEF ClientInv, ClientTypes
<1>7. Transaction'
  BY <1>1 DEF ClientInv, Transaction
<1>8. Reading'
  BY <1>1, <1>2, <1>5 DEF Reading
<1>9. Answered'
  BY <1>1, <1>5 DEF ClientInv, Answered, t
<1>10. Concluded'
  BY <1>1, <1>5 DEF Concluded
<1> QED BY <1>6, <1>7, <1>8, <1>9, <1>10 DEF ClientInv

LEMMA ConvertKept == ASSUME ClientInv, Client!Convert PROVE ClientInv'
<1> USE DEF method, replies, stack, type, multi, queued, results, inMulti, outcome
<1>1. /\ method # Idle /\ stack = <<>> /\ outcome = "none"
      /\ outcome' = (IF type \in Client!Accepted(Client!Conversion(method)) THEN "value" ELSE "refused")
      /\ UNCHANGED <<method, replies, stack, type, multi, queued, results, inMulti>>
  BY DEF Client!Convert
<1>2. ClientTypes'
  BY <1>1 DEF ClientInv, ClientTypes
<1>3. Transaction'
  BY <1>1 DEF ClientInv, Transaction
<1>4. Reading'
  BY <1>1 DEF ClientInv, Reading
<1>5. Answered'
  BY <1>1 DEF ClientInv, Answered
<1>6. Concluded'
  BY <1>1 DEF Concluded
<1> QED BY <1>2, <1>3, <1>4, <1>5, <1>6 DEF ClientInv

LEMMA ReturnKept == ASSUME ClientInv, Client!Return PROVE ClientInv'
<1> USE DEF method, replies, stack, type, multi, queued, results, inMulti, outcome
<1>1. /\ outcome # "none" /\ method' = Idle /\ outcome' = "none" /\ type' = "none" /\ inMulti' = FALSE
      /\ UNCHANGED <<replies, stack, multi, queued, results>>
  BY DEF Client!Return
<1>2. ClientTypes'
  BY <1>1 DEF ClientInv, ClientTypes
<1>3. Transaction'
  BY <1>1 DEF ClientInv, Transaction
<1>4. Reading'
  BY <1>1 DEF ClientInv, Reading
<1>5. Answered'
  <2>1. Idle # "exec"
    BY Transacting, StoredAssumption DEF Client!RespAssumption
  <2> QED BY <1>1, <2>1 DEF Answered
<1>6. Concluded'
  BY <1>1 DEF Concluded
<1> QED BY <1>2, <1>3, <1>4, <1>5, <1>6 DEF ClientInv

LEMMA ClientStutters == ASSUME ClientInv, UNCHANGED <<v1, v2, v3, v4, v5, v6, v7, v8, v9>> PROVE ClientInv'
  BY DEF ClientInv, ClientTypes, Transaction, Reading, Answered, Concluded, Needed,
         method, replies, stack, type, multi, queued, results, inMulti, outcome

LEMMA ClientStep == ASSUME ClientInv, Client!Next PROVE ClientInv'
  BY CallKept, CallQueuedKept, MultiKept, DiscardKept, ExecKept, ReadTokenKept, ConvertKept, ReturnKept
     DEF Client!Next

\* What the client's properties say follows.
LEMMA ClientUnderstands ==
  ASSUME ClientInv
  PROVE  /\ Client!TypeOK /\ Client!ReplyReadWhole /\ Client!NeverMisread /\ Client!QueuedIsStatus
         /\ Client!NilRefused /\ Client!ExecAllOrNothing
<1> USE DEF method, replies, stack, type, multi, queued, results, inMulti, outcome
<1> DEFINE c == Client!Conversion(method)
<1>1. /\ method \in Client!Methods \cup {Idle} /\ outcome \in {"none", "value", "refused"}
      /\ type \in {"none", "+", "$", ":", "*", "-", "nil"}
      /\ queued \in 0 .. MaxQueued /\ inMulti \in BOOLEAN
  BY DEF ClientInv, ClientTypes, Transaction, TokenTypes
<1>2. (\A i \in DOMAIN stack : stack[i] \in 1 .. Client!Longest) /\ Len(stack) <= 3
  <2>1. ASSUME NEW a \in Nat, NEW b \in Nat
        PROVE /\ DOMAIN <<1>> = 1 .. 1 /\ DOMAIN <<1, a>> = 1 .. 2 /\ DOMAIN <<1, a, b>> = 1 .. 3
              /\ DOMAIN <<>> = {} /\ Len(<<>>) = 0
    OBVIOUS
  <2>2. 1 \in 1 .. Client!Longest /\ \A a \in 1 .. Client!Longest : a \in Nat
    BY LongestIs
  <2>3. Needed(stack, replies)
    BY DEF ClientInv, Reading
  <2>4. CASE stack = <<>>
    BY <2>1, <2>4
  <2>5. CASE stack = <<1>>
    BY <2>1, <2>2, <2>5, Stacks, UpTo
  <2>6. ASSUME NEW a \in 1 .. Client!Longest, stack = <<1, a>>
        PROVE  (\A i \in DOMAIN stack : stack[i] \in 1 .. Client!Longest) /\ Len(stack) <= 3
    BY <2>1, <2>2, <2>6, Stacks, UpTo
  <2>7. ASSUME NEW a \in 1 .. Client!Longest, NEW b \in 1 .. Client!Longest, stack = <<1, a, b>>
        PROVE  (\A i \in DOMAIN stack : stack[i] \in 1 .. Client!Longest) /\ Len(stack) <= 3
    BY <2>1, <2>2, <2>7, Stacks, UpTo
  <2> QED BY <2>3, <2>4, <2>5, <2>6, <2>7 DEF Needed
<1>3. Client!TypeOK
  BY <1>1, <1>2 DEF Client!TypeOK
<1>4. Client!ReplyReadWhole
  BY StackIs DEF ClientInv, Reading, Client!ReplyReadWhole
<1>5. outcome # "none" => /\ method \in Client!Methods /\ type \in Answers(method, inMulti)
                          /\ type \in Client!Accepted(c) <=> outcome = "value"
                          /\ method = "exec" => inMulti
  <2>1. outcome # "none" => method # Idle /\ type # "none"
    BY StackIs DEF ClientInv, Reading
  <2> QED BY <1>1, <2>1 DEF ClientInv, Answered, Concluded
<1>6. method \in Client!Methods => Fits(method, c)
  BY ConversionFits
<1> HIDE DEF c
<1>7. Client!NeverMisread
  BY <1>5, <1>6 DEF Client!NeverMisread, Fits, Answers
<1>8. Client!QueuedIsStatus
  <2>1. "nil" \notin Client!Accepted("as_array")
    BY DEF Client!Accepted, Client!Accepting
  <2>2. CASE method = "exec"
    BY <1>5, <1>6, <2>1, <2>2 DEF Client!QueuedIsStatus, Fits, Answers
  <2>3. CASE method # "exec"
    BY <1>5, <1>6, <2>3 DEF Client!QueuedIsStatus, Fits, Answers, c
  <2> QED BY <2>2, <2>3
<1>9. Client!NilRefused
  BY <1>5, <1>6 DEF Client!NilRefused, Fits, Answers, Strict
<1>10. Client!ExecAllOrNothing
  BY <1>5, <1>6 DEF Client!ExecAllOrNothing, Fits, Client!Accepted, Client!Accepting
<1> QED BY <1>3, <1>4, <1>7, <1>8, <1>9, <1>10

\* RepliesUnderstood: whatever the commands called, in transactions and outside, each method of
\* redis_client reads the whole of its reply and nothing of the next.
ClientKept == part = "client" => ClientInv

THEOREM RepliesRead == StoredSpec => []RepliesUnderstood
<1>1. StoredInit => ClientKept
  BY ClientInit DEF StoredInit, ClientKept
<1>2. ClientKept /\ [StoredNext]_storedVars => ClientKept'
  <2> SUFFICES ASSUME ClientKept, [StoredNext]_storedVars, part' = "client" PROVE ClientInv'
    BY DEF ClientKept
  <2>1. CASE part = "client" /\ Client!Next
    BY <2>1, ClientStep DEF ClientKept
  <2>2. CASE UNCHANGED storedVars
    BY <2>2, ClientStutters DEF ClientKept, storedVars
  <2> QED BY <2>1, <2>2 DEF StoredNext
<1>3. ClientKept => RepliesUnderstood
  BY ClientUnderstands DEF ClientKept, RepliesUnderstood
<1> QED BY <1>1, <1>2, <1>3, PTL DEF StoredSpec

-----------------------------------------------------------------------------
\* Archive: sequences in lexicographic order, and induction over numbers.

\* A number that fails has a first one that does.
LEMMA LeastNumber ==
  ASSUME NEW T, T \subseteq Nat, T # {}
  PROVE  \E x \in T : \A y \in T : x <= y
<1> DEFINE R == OpToRel(<, Nat)
<1>1. IsWellFoundedOn(R, Nat)
  BY NatLessThanWellFounded
<1>2. \A x, y \in Nat : <<x, y>> \in R <=> x < y
  BY DEF OpToRel
<1> HIDE DEF R
<1>3. PICK x \in T : \A y \in T : ~(<<y, x>> \in R)
  BY <1>1, WFMin
<1>4. \A y \in T : ~(y < x) /\ y \in Nat /\ x \in Nat
  BY <1>2, <1>3
<1> QED BY <1>4

\* Induction up to a bound, without an operator for the hypothesis: S is the set of those it holds for.
LEMMA InductUpTo ==
  ASSUME NEW S, NEW k \in Nat, 0 \in S, \A n \in 0 .. k - 1 : n \in S => n + 1 \in S
  PROVE  \A n \in 0 .. k : n \in S
<1> SUFFICES ASSUME NEW n \in 0 .. k, n \notin S PROVE FALSE
  OBVIOUS
<1> DEFINE T == (0 .. k) \ S
<1>1. T \subseteq Nat /\ T # {}
  OBVIOUS
<1>2. PICK x \in T : \A y \in T : x <= y
  <2> HIDE DEF T
  <2> QED BY <1>1, LeastNumber
<1>3. x \in Nat /\ x # 0 /\ x <= k
  BY <1>2
<1>4. x - 1 \in S
  BY <1>2, <1>3
<1> QED BY <1>2, <1>3, <1>4

\* f is a at 0 and what step makes of the value before at any number up to k.
Follows(f, V, k, a, step) == /\ f \in [0 .. k -> V] /\ f[0] = a
                             /\ \A i \in 1 .. k : f[i] = step[i][f[i - 1]]

\* A function defined by recursion on a number exists.
LEMMA Recursion ==
  ASSUME NEW V, NEW k \in Nat, NEW a \in V, NEW step \in [1 .. k -> [V -> V]]
  PROVE  \E f : Follows(f, V, k, a, step)
<1> DEFINE S == {n \in 0 .. k : \E f \in [0 .. n -> V] :
                                    f[0] = a /\ \A i \in 1 .. n : f[i] = step[i][f[i - 1]]}
<1>1. 0 \in S
  <2> DEFINE f == [i \in 0 .. 0 |-> a]
  <2>1. f \in [0 .. 0 -> V] /\ f[0] = a /\ \A i \in 1 .. 0 : f[i] = step[i][f[i - 1]]
    OBVIOUS
  <2> HIDE DEF f
  <2> QED BY <2>1
<1>2. ASSUME NEW n \in 0 .. k - 1, n \in S PROVE n + 1 \in S
  <2>1. PICK f \in [0 .. n -> V] : f[0] = a /\ \A i \in 1 .. n : f[i] = step[i][f[i - 1]]
    BY <1>2
  <2> DEFINE g == [i \in 0 .. n + 1 |-> IF i = n + 1 THEN step[n + 1][f[n]] ELSE f[i]]
  <2>2. n + 1 \in 1 .. k /\ n \in 0 .. n /\ n + 1 \in 0 .. k
    OBVIOUS
  <2>3. step[n + 1][f[n]] \in V
    BY <2>2
  <2>4. g \in [0 .. n + 1 -> V]
    BY <2>3
  <2>5. g[0] = a
    BY <2>1, <2>2
  <2>6. ASSUME NEW i \in 1 .. n + 1 PROVE g[i] = step[i][g[i - 1]]
    <3>1. CASE i = n + 1
      BY <3>1, <2>2
    <3>2. CASE i # n + 1
      <4>1. i \in 1 .. n /\ i - 1 \in 0 .. n
        BY <3>2
      <4>2. g[i] = f[i] /\ g[i - 1] = f[i - 1]
        BY <4>1
      <4> QED BY <4>1, <4>2, <2>1
    <3> QED BY <3>1, <3>2
  <2> HIDE DEF g
  <2> QED BY <2>4, <2>5, <2>6, <2>2
<1>3. \A n \in 0 .. k : n \in S
  <2> HIDE DEF S
  <2> QED BY <1>1, <1>2, InductUpTo
<1>4. k \in S
  <2> HIDE DEF S
  <2> QED BY <1>3
<1>5. PICK f \in [0 .. k -> V] : f[0] = a /\ \A i \in 1 .. k : f[i] = step[i][f[i - 1]]
  BY <1>4
<1> QED BY <1>5 DEF Follows

-----------------------------------------------------------------------------
\* The order of byte strings.

\* The strings are first different at i.
Parted(s, r, i) == /\ i \in 1 .. Len(s) /\ i \in 1 .. Len(r) /\ s[i] # r[i]
                   /\ \A j \in 1 .. i - 1 : s[j] = r[j]

\* The strings are equal if same, and else in the order that less gives, none the beginning of the
\* other.
InOrder(s, r, same, less) == \/ same /\ ~less /\ s = r
                             \/ ~same /\ \E i \in Nat : Parted(s, r, i) /\ (less <=> s[i] < r[i])

\* Strings that are parted are in the order of the bytes that part them.
LEMMA PartedLess ==
  ASSUME NEW s \in Seq(Int), NEW r \in Seq(Int), NEW i \in Nat, Parted(s, r, i)
  PROVE  /\ Archives!Less(s, r) <=> s[i] < r[i]
         /\ ~Archives!IsPrefix(s, r) /\ ~Archives!IsPrefix(r, s)
<1>1. DOMAIN s = 1 .. Len(s) /\ DOMAIN r = 1 .. Len(r) /\ Len(s) \in Nat /\ Len(r) \in Nat
  OBVIOUS
<1>2. /\ i \in 1 .. Len(s) /\ i \in 1 .. Len(r) /\ s[i] # r[i]
      /\ \A j \in 1 .. i - 1 : s[j] = r[j]
  BY DEF Parted
<1>3. ~Archives!IsPrefix(s, r)
  BY <1>1, <1>2 DEF Archives!IsPrefix
<1>4. ~Archives!IsPrefix(r, s)
  BY <1>1, <1>2 DEF Archives!IsPrefix
<1>5. ASSUME s[i] < r[i] PROVE Archives!Less(s, r)
  BY <1>1, <1>2, <1>5 DEF Archives!Less
<1>6. ASSUME Archives!Less(s, r) PROVE s[i] < r[i]
  <2>1. PICK k \in DOMAIN s \cap DOMAIN r : s[k] < r[k] /\ \A j \in 1 .. k - 1 : s[j] = r[j]
    BY <1>3, <1>6 DEF Archives!Less, Archives!IsStrictPrefix
  <2>2. k = i
    <3>1. \A j \in DOMAIN s : s[j] \in Int
      OBVIOUS
    <3>2. ~(k < i)
      BY <1>1, <1>2, <2>1, <3>1
    <3>3. ~(i < k)
      BY <1>1, <1>2, <2>1, <3>1
    <3> QED BY <3>2, <3>3, <2>1, <1>1, <1>2
  <2> QED BY <2>1, <2>2
<1> QED BY <1>3, <1>4, <1>5, <1>6

\* No string is before itself.
LEMMA NotLess == ASSUME NEW s \in Seq(Int) PROVE ~Archives!Less(s, s)
<1>1. \A j \in DOMAIN s : s[j] \in Int
  OBVIOUS
<1> QED BY <1>1 DEF Archives!Less, Archives!IsStrictPrefix

\* What the order of two strings says of Less and of beginnings.
LEMMA InOrderLess ==
  ASSUME NEW s \in Seq(Int), NEW r \in Seq(Int), NEW same, NEW less, InOrder(s, r, same, less)
  PROVE  /\ Archives!Less(s, r) <=> less
         /\ Archives!IsPrefix(s, r) \/ Archives!IsPrefix(r, s) => same
<1>1. CASE same /\ ~less /\ s = r
  BY <1>1, NotLess
<1>2. CASE ~same /\ \E i \in Nat : Parted(s, r, i) /\ (less <=> s[i] < r[i])
  BY <1>2, PartedLess
<1> QED BY <1>1, <1>2 DEF InOrder

\* Strings of one length are equal or in some order.
LEMMA SameLengthInOrder ==
  ASSUME NEW s \in Seq(Int), NEW r \in Seq(Int), Len(s) = Len(r)
  PROVE  InOrder(s, r, s = r, Archives!Less(s, r))
<1>1. CASE s = r
  BY <1>1, NotLess DEF InOrder
<1>2. CASE s # r
  <2> DEFINE T == {i \in 1 .. Len(s) : s[i] # r[i]}
  <2>1. T \subseteq Nat /\ T # {}
    <3>1. Len(s) \in Nat
      OBVIOUS
    <3>2. (\A i \in 1 .. Len(s) : s[i] = r[i]) => s = r
      BY SeqEqual
    <3> QED BY <1>2, <3>1, <3>2
  <2>2. PICK x \in T : \A y \in T : x <= y
    <3> HIDE DEF T
    <3> QED BY <2>1, LeastNumber
  <2>3. x \in Nat /\ Parted(s, r, x)
    <3>1. Len(s) \in Nat
      OBVIOUS
    <3> HIDE DEF Parted
    <3>2. x \in 1 .. Len(s) /\ x \in 1 .. Len(r) /\ s[x] # r[x]
      BY <2>2
    <3>3. ASSUME NEW j \in 1 .. x - 1 PROVE s[j] = r[j]
      BY <2>2, <3>1, <3>2
    <3> QED BY <3>2, <3>3 DEF Parted
  <2> QED BY <2>3, <1>2, PartedLess DEF InOrder
<1> QED BY <1>1, <1>2

\* The order is that of the first strings, then that of those behind.
LEMMA InOrderJoin ==
  ASSUME NEW s \in Seq(Int), NEW r \in Seq(Int), NEW x \in Seq(Int), NEW y \in Seq(Int),
         NEW same \in BOOLEAN, NEW less \in BOOLEAN, NEW also \in BOOLEAN, NEW then \in BOOLEAN,
         InOrder(s, r, same, less), InOrder(x, y, also, then)
  PROVE  InOrder(s \o x, r \o y, same /\ also, less \/ (same /\ then))
<1>1. /\ Len(s) \in Nat /\ Len(r) \in Nat /\ Len(x) \in Nat /\ Len(y) \in Nat
      /\ Len(s \o x) = Len(s) + Len(x) /\ Len(r \o y) = Len(r) + Len(y)
      /\ \A i \in 1 .. Len(s) : (s \o x)[i] = s[i]
      /\ \A i \in 1 .. Len(x) : (s \o x)[Len(s) + i] = x[i]
      /\ \A i \in 1 .. Len(r) : (r \o y)[i] = r[i]
      /\ \A i \in 1 .. Len(y) : (r \o y)[Len(r) + i] = y[i]
  OBVIOUS
<1> DEFINE u == s \o x
           w == r \o y
<1>2. CASE ~same
  <2>1. PICK i \in Nat : Parted(s, r, i) /\ (less <=> s[i] < r[i])
    BY <1>2 DEF InOrder
  <2>2. Parted(u, w, i) /\ u[i] = s[i] /\ w[i] = r[i]
    <3>0. i \in 1 .. Len(s) /\ i \in 1 .. Len(r) /\ s[i] # r[i] /\ \A j \in 1 .. i - 1 : s[j] = r[j]
      BY <2>1 DEF Parted
    <3> DEFINE ls == Len(s)
               lr == Len(r)
               lx == Len(x)
               ly == Len(y)
               lu == Len(u)
               lw == Len(w)
    <3>1. /\ ls \in Nat /\ lr \in Nat /\ lx \in Nat /\ ly \in Nat
          /\ lu = ls + lx /\ lw = lr + ly
          /\ \A k \in 1 .. ls : u[k] = s[k]
          /\ \A k \in 1 .. lr : w[k] = r[k]
          /\ i \in 1 .. ls /\ i \in 1 .. lr
      BY <1>1, <3>0
    <3> HIDE DEF u, w, ls, lr, lx, ly, lu, lw
    <3>2. i \in 1 .. lu /\ i \in 1 .. lw
      BY <3>1
    <3>3. u[i] = s[i] /\ w[i] = r[i]
      BY <3>1
    <3>4. ASSUME NEW j \in 1 .. i - 1 PROVE u[j] = w[j]
      <4>1. j \in 1 .. ls /\ j \in 1 .. lr
        BY <3>1
      <4> QED BY <4>1, <3>1, <3>0
    <3> QED BY <3>2, <3>3, <3>4, <3>0 DEF Parted, lu, lw
  <2> QED BY <1>2, <2>1, <2>2 DEF InOrder
<1>3. CASE same /\ ~also
  <2>1. s = r /\ ~less
    BY <1>3 DEF InOrder
  <2>2. PICK i \in Nat : Parted(x, y, i) /\ (then <=> x[i] < y[i])
    BY <1>3 DEF InOrder
  <2>3. Parted(u, w, Len(s) + i) /\ u[Len(s) + i] = x[i] /\ w[Len(s) + i] = y[i] /\ Len(s) + i \in Nat
    <3>0. i \in 1 .. Len(x) /\ i \in 1 .. Len(y) /\ x[i] # y[i] /\ \A j \in 1 .. i - 1 : x[j] = y[j]
      BY <2>2 DEF Parted
    <3> DEFINE ls == Len(s)
               lx == Len(x)
               ly == Len(y)
               lu == Len(u)
               lw == Len(w)
    <3>1. /\ ls \in Nat /\ lx \in Nat /\ ly \in Nat
          /\ lu = ls + lx /\ lw = ls + ly
          /\ \A k \in 1 .. ls : u[k] = s[k]
          /\ \A k \in 1 .. ls : w[k] = s[k]
          /\ \A k \in 1 .. lx : u[ls + k] = x[k]
          /\ \A k \in 1 .. ly : w[ls + k] = y[k]
          /\ i \in 1 .. lx /\ i \in 1 .. ly
      BY <1>1, <3>0, <2>1
    <3> HIDE DEF u, w, ls, lx, ly, lu, lw
    <3>2. ls + i \in 1 .. lu /\ ls + i \in 1 .. lw
      BY <3>1
    <3>5. u[ls + i] = x[i] /\ w[ls + i] = y[i]
      BY <3>1
    <3>3. ASSUME NEW j \in 1 .. ls + i - 1 PROVE u[j] = w[j]
      <4>1. CASE j <= ls
        BY <4>1, <3>1
      <4>2. CASE j > ls
        <5>1. j - ls \in 1 .. i - 1 /\ j - ls \in 1 .. lx /\ j - ls \in 1 .. ly /\ ls + (j - ls) = j
          BY <4>2, <3>1
        <5> QED BY <5>1, <3>1, <3>0
      <4> QED BY <4>1, <4>2, <3>1
    <3>4. ls + i \in Nat
      BY <3>1
    <3> QED BY <3>2, <3>3, <3>0, <3>4, <3>5 DEF Parted, lu, lw, ls
  <2> QED BY <1>3, <2>1, <2>2, <2>3 DEF InOrder
<1>4. CASE same /\ also
  BY <1>4 DEF InOrder
<1> QED BY <1>2, <1>3, <1>4

-----------------------------------------------------------------------------
\* Archive: numbers, the first byte the highest.

\* Quotients.
LEMMA Division ==
  ASSUME NEW n \in Nat, NEW d \in Nat \ {0}
  PROVE  n \div d \in Nat /\ n % d \in 0 .. d - 1 /\ n = d * (n \div d) + (n % d)
<1>1. n % d \in 0 .. d - 1
  OBVIOUS
<1>2. n \div d \in Int /\ n = d * (n \div d) + (n % d)
  OBVIOUS
<1>3. n \div d \in Nat
  OBVIOUS
<1> QED BY <1>1, <1>2, <1>3

\* Quotient and remainder are the only ones.
LEMMA DivisionUnique ==
  ASSUME NEW n \in Nat, NEW d \in Nat \ {0}, NEW q \in Nat, NEW r \in 0 .. d - 1, n = d * q + r
  PROVE  n \div d = q /\ n % d = r
OBVIOUS

\* A product grows with its factor.
LEMMA Monotone ==
  ASSUME NEW b \in Nat, NEW x \in Int, NEW y \in Int, x <= y
  PROVE  b * x <= b * y
OBVIOUS

\* Dividing by b and then by m is dividing by both.
LEMMA DivideTwice ==
  ASSUME NEW u \in Nat, NEW b \in Nat \ {0}, NEW m \in Nat \ {0}
  PROVE  /\ (u \div b) \div m = u \div (b * m)
         /\ b * m \in Nat \ {0}
<1> DEFINE q == u \div b
           r == u % b
           p == q \div m
           t == q % m
<1>1. q \in Nat /\ r \in 0 .. b - 1 /\ u = b * q + r
  BY Division
<1>2. p \in Nat /\ t \in 0 .. m - 1 /\ q = m * p + t
  <2> HIDE DEF q
  <2> QED BY <1>1, Division
<1> HIDE DEF q, r, p, t
<1>3. b * q = b * m * p + b * t
  BY <1>1, <1>2
<1>4. b * t <= b * (m - 1)
  BY <1>2, Monotone
<1>5. b * t + r \in 0 .. b * m - 1
  <2>1. b * t >= 0
    BY <1>2, Monotone
  <2> QED BY <1>1, <1>2, <1>4, <2>1
<1>6. b * m \in Nat \ {0}
  OBVIOUS
<1>7. u = (b * m) * p + (b * t + r)
  BY <1>1, <1>2, <1>3
<1>8. u \div (b * m) = p
  BY <1>2, <1>5, <1>6, <1>7, DivisionUnique
<1> QED BY <1>6, <1>8 DEF p, q

\* The recursive function Power is what it says.
LEMMA PowerFacts ==
  /\ B \in Nat /\ B >= 4 /\ B % 2 = 0
  /\ Archives!Power[0] = 1
  /\ \A n \in 0 .. 8 : Archives!Power[n] \in Nat \ {0}
  /\ \A n \in 1 .. 8 : Archives!Power[n] = B * Archives!Power[n - 1]
<1> DEFINE Positive == Nat \ {0}
           step == [i \in 1 .. 8 |-> [x \in Positive |-> B * x]]
<1>1. B \in Nat /\ B >= 4 /\ B % 2 = 0
  BY StoredAssumption DEF Archives!ArchiveAssumption
<1>2. 1 \in Positive /\ step \in [1 .. 8 -> [Positive -> Positive]]
  BY <1>1
<1>3. PICK f : Follows(f, Positive, 8, 1, step)
  <2> HIDE DEF Positive, step
  <2> QED BY <1>2, Recursion
<1>4. f = [n \in 0 .. 8 |-> IF n = 0 THEN 1 ELSE B * f[n - 1]]
  <2>1. ASSUME NEW n \in 1 .. 8 PROVE f[n] = B * f[n - 1]
    <3>1. n - 1 \in 0 .. 8
      OBVIOUS
    <3> QED BY <1>3, <3>1 DEF Follows
  <2> QED BY <1>3, <2>1 DEF Follows
<1>5. Archives!Power = [n \in 0 .. 8 |-> IF n = 0 THEN 1 ELSE B * Archives!Power[n - 1]]
  <2> HIDE DEF Positive, step
  <2> QED BY <1>4, Zenon DEF Archives!Power
<1> DEFINE P == Archives!Power
<1>6. \A n \in 1 .. 8 : P[n] = B * P[n - 1]
  <2> HIDE DEF P
  <2> QED BY <1>5 DEF P
<1>7. P[0] = 1
  <2> HIDE DEF P
  <2> QED BY <1>5 DEF P
<1> HIDE DEF P
<1>8. \A n \in 0 .. 8 : n \in {k \in 0 .. 8 : P[k] \in Positive}
  <2> DEFINE S == {k \in 0 .. 8 : P[k] \in Positive}
  <2>1. 0 \in S
    BY <1>7
  <2>2. ASSUME NEW n \in 0 .. 8 - 1, n \in S PROVE n + 1 \in S
    <3>1. n + 1 \in 1 .. 8 /\ n + 1 - 1 = n
      OBVIOUS
    <3>2. P[n + 1] = B * P[n]
      BY <3>1, <1>6
    <3> QED BY <2>2, <3>2, <1>1
  <2> HIDE DEF S
  <2> QED BY <2>1, <2>2, InductUpTo DEF S
<1> QED BY <1>1, <1>6, <1>7, <1>8 DEF P

\* The numbers that n bytes hold.
Below(n) == 0 .. Archives!Power[n] - 1

\* A number becomes so many bytes.
LEMMA DigitsType ==
  ASSUME NEW n \in 0 .. 8, NEW u \in Nat
  PROVE  /\ Archives!BigEndian(n, u) \in Seq(Archives!Bytes)
         /\ Archives!BigEndian(n, u) \in Seq(Int)
         /\ Len(Archives!BigEndian(n, u)) = n
<1> DEFINE P == Archives!Power
<1>1. ASSUME NEW i \in 1 .. n PROVE (u \div P[n - i]) % B \in 0 .. B - 1
  <2>1. n - i \in 0 .. 8
    OBVIOUS
  <2>2. P[n - i] \in Nat \ {0} /\ B \in Nat \ {0}
    BY <2>1, PowerFacts
  <2> HIDE DEF P
  <2>3. u \div P[n - i] \in Nat
    BY <2>2, Division
  <2> QED BY <2>2, <2>3, Division
<1> HIDE DEF P
<1>2. B \in Nat
  BY PowerFacts
<1>3. [i \in 1 .. n |-> (u \div P[n - i]) % B] \in [1 .. n -> 0 .. B - 1]
  BY <1>1
<1>4. [i \in 1 .. n |-> (u \div P[n - i]) % B] \in [1 .. n -> Int]
  BY <1>1, <1>2
<1> DEFINE d == [i \in 1 .. n |-> (u \div P[n - i]) % B]
<1>5. DOMAIN d = 1 .. n
  OBVIOUS
<1>6. d = Archives!BigEndian(n, u)
  BY DEF P, Archives!BigEndian
<1> HIDE DEF d
<1>7. Len(d) = n /\ d \in Seq(0 .. B - 1) /\ d \in Seq(Int)
  BY <1>3, <1>4, <1>5 DEF d
<1> QED BY <1>6, <1>7 DEF Archives!Bytes

\* The last byte is the number modulo B, those before are its quotient's.
LEMMA DigitsStep ==
  ASSUME NEW n \in 0 .. 7, NEW u \in Nat
  PROVE  Archives!BigEndian(n + 1, u) = Archives!BigEndian(n, u \div B) \o <<u % B>>
<1> DEFINE P == Archives!Power
           v == u \div B
           d == Archives!BigEndian(n + 1, u)
           e == Archives!BigEndian(n, v)
           f == e \o <<u % B>>
<1>1. B \in Nat \ {0}
  BY PowerFacts
<1>2. v \in Nat /\ u % B \in Int
  BY <1>1, Division
<1> HIDE DEF v
<1>3. d \in Seq(Int) /\ Len(d) = n + 1 /\ e \in Seq(Int) /\ Len(e) = n
  <2>1. n + 1 \in 0 .. 8 /\ n \in 0 .. 8
    OBVIOUS
  <2> QED BY <1>2, <2>1, DigitsType
<1>4. /\ \A i \in 1 .. n + 1 : d[i] = (u \div P[n + 1 - i]) % B
      /\ \A i \in 1 .. n : e[i] = (v \div P[n - i]) % B
  BY DEF Archives!BigEndian
<1> HIDE DEF d, e
<1>5. /\ f \in Seq(Int) /\ Len(f) = n + 1 /\ f[n + 1] = u % B
      /\ \A i \in 1 .. n : f[i] = e[i]
  <2> DEFINE x == u % B
  <2>1. e \in Seq(Int) /\ x \in Int /\ Len(e) = n
    BY <1>2, <1>3
  <2> HIDE DEF x
  <2> QED BY <2>1 DEF x
<1> HIDE DEF f
<1>6. ASSUME NEW i \in 1 .. n PROVE d[i] = e[i]
  <2>1. n + 1 - i \in 1 .. 8 /\ n - i \in 0 .. 8 /\ (n + 1 - i) - 1 = n - i /\ i \in 1 .. n + 1
    OBVIOUS
  <2>2. P[n + 1 - i] = B * P[n - i] /\ P[n - i] \in Nat \ {0}
    BY <2>1, PowerFacts
  <2> HIDE DEF P
  <2>3. v \div P[n - i] = u \div (B * P[n - i])
    BY <1>1, <2>2, DivideTwice DEF v
  <2> QED BY <2>1, <2>2, <2>3, <1>4
<1>7. d[n + 1] = u % B
  <2>1. P[n + 1 - (n + 1)] = 1
    BY PowerFacts
  <2>2. u \div 1 = u
    OBVIOUS
  <2> HIDE DEF P
  <2> QED BY <2>1, <2>2, <1>4
<1>8. \A i \in 1 .. n + 1 : d[i] = f[i]
  BY <1>5, <1>6, <1>7
<1>9. d = f
  BY <1>3, <1>5, <1>8, SeqEqual
<1> QED BY <1>9 DEF d, e, f, v

\* Numbers are in the order of their bytes.
LEMMA DigitsInOrder ==
  ASSUME NEW n \in 0 .. 8, NEW u \in Below(n), NEW w \in Below(n)
  PROVE  InOrder(Archives!BigEndian(n, u), Archives!BigEndian(n, w), u = w, u < w)
<1> DEFINE S == {k \in 0 .. 8 : \A x, y \in Below(k) :
                   InOrder(Archives!BigEndian(k, x), Archives!BigEndian(k, y), x = y, x < y)}
<1>1. 0 \in S
  <2>1. ASSUME NEW x \in Below(0), NEW y \in Below(0) PROVE x = y /\ ~(x < y)
    BY PowerFacts DEF Below
  <2> QED BY <2>1 DEF InOrder
<1>2. ASSUME NEW k \in 0 .. 7, k \in S PROVE k + 1 \in S
  <2> SUFFICES ASSUME NEW x \in Below(k + 1), NEW y \in Below(k + 1)
               PROVE  InOrder(Archives!BigEndian(k + 1, x), Archives!BigEndian(k + 1, y), x = y, x < y)
    OBVIOUS
  <2> DEFINE a == x \div B
             b == y \div B
             c == x % B
             d == y % B
  <2>1. B \in Nat \ {0} /\ Archives!Power[k + 1] = B * Archives!Power[k] /\ Archives!Power[k] \in Nat \ {0}
    <3>1. k + 1 \in 1 .. 8 /\ k + 1 - 1 = k /\ k \in 0 .. 8
      OBVIOUS
    <3> QED BY <3>1, PowerFacts
  <2>2. x \in Nat /\ y \in Nat /\ x < B * Archives!Power[k] /\ y < B * Archives!Power[k]
    BY <2>1 DEF Below
  <2>3. /\ a \in Nat /\ c \in 0 .. B - 1 /\ x = B * a + c
        /\ b \in Nat /\ d \in 0 .. B - 1 /\ y = B * b + d
    BY <2>1, <2>2, Division
  <2> DEFINE p == Archives!Power[k]
  <2>4. a \in 0 .. p - 1 /\ b \in 0 .. p - 1
    <3> HIDE DEF a, b, c, d, p
    <3>1. ASSUME a >= p PROVE FALSE
      <4>1. B * a >= B * p
        BY <2>1, <2>3, <3>1, Monotone DEF p
      <4> QED BY <4>1, <2>1, <2>2, <2>3 DEF p
    <3>2. ASSUME b >= p PROVE FALSE
      <4>1. B * b >= B * p
        BY <2>1, <2>3, <3>2, Monotone DEF p
      <4> QED BY <4>1, <2>1, <2>2, <2>3 DEF p
    <3>3. p \in Nat
      BY <2>1 DEF p
    <3> QED BY <3>1, <3>2, <3>3, <2>3
  <2>5. InOrder(Archives!BigEndian(k, a), Archives!BigEndian(k, b), a = b, a < b)
    <3> HIDE DEF a, b
    <3> QED BY <1>2, <2>4 DEF Below
  <2>6. InOrder(<<c>>, <<d>>, c = d, c < d)
    <3> HIDE DEF c, d
    <3>1. CASE c = d
      BY <2>3, <3>1 DEF InOrder
    <3>2. CASE c # d
      <4>1. Parted(<<c>>, <<d>>, 1)
        BY <3>2 DEF Parted
      <4> QED BY <3>2, <4>1 DEF InOrder
    <3> QED BY <3>1, <3>2
  <2>7. InOrder(Archives!BigEndian(k, a) \o <<c>>, Archives!BigEndian(k, b) \o <<d>>,
                a = b /\ c = d, a < b \/ (a = b /\ c < d))
    <3> HIDE DEF a, b, c, d
    <3>1. k \in 0 .. 8 /\ <<c>> \in Seq(Int) /\ <<d>> \in Seq(Int)
      BY <2>3, <2>1
    <3>2. Archives!BigEndian(k, a) \in Seq(Int) /\ Archives!BigEndian(k, b) \in Seq(Int)
      BY <2>3, <3>1, DigitsType
    <3>3. (a = b) \in BOOLEAN /\ (a < b) \in BOOLEAN /\ (c = d) \in BOOLEAN /\ (c < d) \in BOOLEAN
      BY <2>1, <2>3
    <3> DEFINE e == a = b
               l == a < b
               f == c = d
               m == c < d
               s == Archives!BigEndian(k, a)
               t == Archives!BigEndian(k, b)
               y1 == <<c>>
               y2 == <<d>>
    <3>4. InOrder(Archives!BigEndian(k, a), Archives!BigEndian(k, b), e, l) /\ InOrder(<<c>>, <<d>>, f, m)
      BY <2>5, <2>6
    <3>7. s \in Seq(Int) /\ t \in Seq(Int) /\ y1 \in Seq(Int) /\ y2 \in Seq(Int)
      BY <3>1, <3>2
    <3>8. InOrder(s, t, e, l) /\ InOrder(y1, y2, f, m)
      BY <3>4
    <3> HIDE DEF e, l, f, m, s, t, y1, y2
    <3>5. e \in BOOLEAN /\ l \in BOOLEAN /\ f \in BOOLEAN /\ m \in BOOLEAN
      BY <3>3 DEF e, l, f, m
    <3>6. InOrder(s \o y1, t \o y2, e /\ f, l \/ (e /\ m))
      BY <3>7, <3>8, <3>5, InOrderJoin
    <3> QED BY <3>6 DEF e, l, f, m, s, t, y1, y2
  <2>8. (x = y <=> a = b /\ c = d) /\ (x < y <=> a < b \/ (a = b /\ c < d))
    <3> HIDE DEF a, b, c, d
    <3>1. ASSUME a < b PROVE x < y
      <4>1. B * (a + 1) <= B * b
        BY <2>1, <2>3, <3>1, Monotone
      <4>2. B * (a + 1) = B * a + B
        BY <2>1, <2>3
      <4> QED BY <4>1, <4>2, <2>1, <2>3
    <3>2. ASSUME b < a PROVE y < x
      <4>1. B * (b + 1) <= B * a
        BY <2>1, <2>3, <3>2, Monotone
      <4>2. B * (b + 1) = B * b + B
        BY <2>1, <2>3
      <4> QED BY <4>1, <4>2, <2>1, <2>3
    <3>3. ASSUME a = b PROVE x - y = c - d
      BY <2>1, <2>3, <3>3
    <3> QED BY <3>1, <3>2, <3>3, <2>1, <2>2, <2>3
  <2>9. /\ Archives!BigEndian(k + 1, x) = Archives!BigEndian(k, a) \o <<c>>
        /\ Archives!BigEndian(k + 1, y) = Archives!BigEndian(k, b) \o <<d>>
    BY <2>2, DigitsStep
  <2> HIDE DEF a, b, c, d
  <2> QED BY <2>7, <2>8, <2>9 DEF InOrder
<1>3. \A k \in 0 .. 8 : k \in S
  <2> HIDE DEF S
  <2>1. \A k \in 0 .. 8 - 1 : k \in S => k + 1 \in S
    BY <1>2
  <2> QED BY <1>1, <2>1, InductUpTo
<1>4. n \in S
  <2> HIDE DEF S
  <2> QED BY <1>3
<1> QED BY <1>4

\* Number reads byte after byte.
LEMMA NumberSteps ==
  ASSUME NEW n \in Nat, NEW s, \A i \in 1 .. n : s[i] \in Int
  PROVE  \E value : /\ Archives!Number(s, n) = value[n] /\ value[0] = 0
                    /\ \A i \in 1 .. n : value[i] = value[i - 1] * B + s[i]
<1> DEFINE step == [i \in 1 .. n |-> [x \in Int |-> x * B + s[i]]]
<1>1. B \in Int
  BY PowerFacts
<1>2. step \in [1 .. n -> [Int -> Int]]
  BY <1>1
<1>3. PICK f : Follows(f, Int, n, 0, step)
  <2> HIDE DEF step
  <2>1. 0 \in Int
    OBVIOUS
  <2> QED BY <1>2, <2>1, Recursion
<1>4. f \in [0 .. n -> Int] /\ f[0] = 0
  BY <1>3 DEF Follows
<1>5. ASSUME NEW i \in 1 .. n PROVE f[i] = f[i - 1] * B + s[i]
  <2>1. i - 1 \in 0 .. n
    OBVIOUS
  <2> QED BY <1>3, <1>4, <2>1 DEF Follows
<1> DEFINE V(g) == g = [i \in 0 .. n |-> IF i = 0 THEN 0 ELSE g[i - 1] * B + s[i]]
           value == CHOOSE g : V(g)
<1> HIDE DEF step
<1>6. V(f)
  BY <1>4, <1>5
<1>7. V(value)
  <2> HIDE DEF V
  <2> QED BY <1>6
<1>8. Archives!Number(s, n) = value[n]
  BY DEF Archives!Number
<1> HIDE DEF value
<1>9. value[0] = 0 /\ \A i \in 1 .. n : value[i] = value[i - 1] * B + s[i]
  <2>1. value = [i \in 0 .. n |-> IF i = 0 THEN 0 ELSE value[i - 1] * B + s[i]]
    BY <1>7
  <2> HIDE DEF V
  <2>2. ASSUME NEW i \in 0 .. n PROVE value[i] = IF i = 0 THEN 0 ELSE value[i - 1] * B + s[i]
    BY <2>1
  <2> QED BY <2>2
<1> QED BY <1>8, <1>9

\* Number reads what BigEndian wrote, whatever follows.
LEMMA NumberRead ==
  ASSUME NEW n \in 0 .. 8, NEW u \in Below(n), NEW s,
         \A i \in 1 .. n : s[i] = Archives!BigEndian(n, u)[i]
  PROVE  Archives!Number(s, n) = u
<1> DEFINE P == Archives!Power
<1>1. B \in Nat \ {0} /\ u \in Nat
  BY PowerFacts DEF Below
<1>2. \A i \in 1 .. n : s[i] \in Int
  <2>1. Archives!BigEndian(n, u) \in Seq(Int) /\ Len(Archives!BigEndian(n, u)) = n
    BY <1>1, DigitsType
  <2> QED BY <2>1
<1>7. PICK value : /\ Archives!Number(s, n) = value[n] /\ value[0] = 0
                   /\ \A i \in 1 .. n : value[i] = value[i - 1] * B + s[i]
  BY <1>2, NumberSteps
<1>8. value[0] = 0 /\ \A i \in 1 .. n : value[i] = value[i - 1] * B + s[i]
  BY <1>7
<1>9. \A i \in 1 .. n : s[i] = (u \div P[n - i]) % B
  BY DEF Archives!BigEndian
<1>10. \A i \in 0 .. n : value[i] = u \div P[n - i]
  <2> DEFINE S == {i \in 0 .. n : value[i] = u \div P[n - i]}
  <2>1. 0 \in S
    <3>1. P[n] \in Nat \ {0} /\ u < P[n]
      <4>1. P[n] \in Nat \ {0}
        BY PowerFacts
      <4> QED BY <4>1 DEF Below
    <3>2. u \div P[n] = 0
      <4> DEFINE d == P[n]
      <4>1. d \in Nat \ {0} /\ u \in 0 .. d - 1 /\ u \in Nat /\ 0 \in Nat
        BY <1>1, <3>1
      <4> HIDE DEF d
      <4>2. u = d * 0 + u
        BY <4>1
      <4>3. u \div d = 0
        BY <4>1, <4>2, DivisionUnique
      <4> QED BY <4>3 DEF d
    <3> QED BY <1>8, <3>2
  <2>2. ASSUME NEW i \in 0 .. n - 1, i \in S PROVE i + 1 \in S
    <3>1. n - i \in 1 .. 8 /\ n - (i + 1) \in 0 .. 8 /\ (n - i) - 1 = n - (i + 1) /\ i + 1 \in 1 .. n
      OBVIOUS
    <3>2. P[n - i] = B * P[n - (i + 1)] /\ P[n - (i + 1)] \in Nat \ {0}
      BY <3>1, PowerFacts
    <3> DEFINE m == P[n - (i + 1)]
               w == u \div m
    <3>3. w \in Nat
      <4> HIDE DEF P
      <4> QED BY <1>1, <3>2, Division
    <3>4. w \div B = u \div (m * B)
      <4> HIDE DEF P
      <4> QED BY <1>1, <3>2, DivideTwice
    <3>5. m * B = P[n - i]
      BY <1>1, <3>2
    <3>6. value[i] = w \div B
      BY <2>2, <3>4, <3>5
    <3>7. value[i + 1] = (w \div B) * B + (w % B)
      <4>1. i + 1 - 1 = i
        BY <3>1
      <4>2. s[i + 1] = (u \div m) % B
        BY <1>9, <3>1
      <4>3. value[i + 1] = value[i] * B + s[i + 1]
        BY <1>8, <3>1, <4>1
      <4> HIDE DEF m
      <4> QED BY <3>6, <4>2, <4>3
    <3> HIDE DEF w, m
    <3>8. w = B * (w \div B) + (w % B) /\ w \div B \in Nat
      BY <1>1, <3>3, Division
    <3>9. value[i + 1] = w
      BY <3>7, <3>8, <1>1
    <3> QED BY <3>1, <3>9 DEF w, m
  <2> HIDE DEF S
  <2>3. n \in Nat /\ \A i \in 0 .. n - 1 : i \in S => i + 1 \in S
    BY <2>2
  <2>4. \A i \in 0 .. n : i \in S
    BY <2>1, <2>3, InductUpTo
  <2> QED BY <2>4 DEF S
<1>11. P[n - n] = 1 /\ u \div 1 = u /\ n \in 0 .. n
  <2>1. n - n = 0 /\ u \div 1 = u
    BY <1>1
  <2> QED BY <2>1, PowerFacts
<1> QED BY <1>7, <1>10, <1>11

-----------------------------------------------------------------------------
\* Archive: strings made of pieces.

\* FlattenSeq puts the pieces behind each other.

\* made is what the first elements of q make.
Parts(made, q, V) == /\ made[0] = <<>>
                     /\ \A i \in 0 .. Len(q) : made[i] \in Seq(V)
                     /\ \A i \in 1 .. Len(q) : made[i] = made[i - 1] \o q[i]

\* FlattenSeq, of any pieces.
LEMMA FlattenParts ==
  ASSUME NEW V, NEW q, Len(q) \in Nat, \A i \in 1 .. Len(q) : q[i] \in Seq(V), Len(q) = 0 => q = <<>>
  PROVE  \E made : Parts(made, q, V) /\ Archives!FlattenSeq(q) = made[Len(q)]
<1> DEFINE n == Len(q)
           W == Seq(V)
           step == [i \in 1 .. n |-> [x \in W |-> x \o q[i]]]
<1>1. step \in [1 .. n -> [W -> W]]
  <2>1. ASSUME NEW i \in 1 .. n, NEW x \in W PROVE x \o q[i] \in W
    <3>1. q[i] \in Seq(V) /\ x \in Seq(V)
      OBVIOUS
    <3> HIDE DEF n
    <3> QED BY <3>1
  <2> HIDE DEF W, n
  <2> QED BY <2>1
<1>2. PICK f : Follows(f, W, n, <<>>, step)
  <2>1. n \in Nat /\ <<>> \in W
    OBVIOUS
  <2> HIDE DEF step, n, W
  <2> QED BY <1>1, <2>1, Recursion
<1> HIDE DEF n
<1>3. n \in Nat
  BY DEF n
<1> HIDE DEF W
<1>4. f \in [0 .. n -> W] /\ f[0] = <<>>
  BY <1>2 DEF Follows
<1>5. ASSUME NEW i \in 1 .. n PROVE f[i] = f[i - 1] \o q[i]
  <2>1. i - 1 \in 0 .. n /\ f[i - 1] \in W
    BY <1>3, <1>4
  <2> QED BY <1>2, <2>1 DEF Follows
<1>6. Parts(f, q, V)
  BY <1>4, <1>5, Zenon DEF Parts, W, n
<1>7. CASE n = 0
  <2>1. q = <<>> /\ Archives!FlattenSeq(q) = q
    BY <1>7 DEF n, Archives!FlattenSeq
  <2> QED BY <1>4, <1>6, <1>7, <2>1 DEF n
<1>8. CASE n # 0
  <2> DEFINE M(g) == g = [i \in 1 .. n |-> IF i = 1 THEN q[i] ELSE g[i - 1] \o q[i]]
             flatten == CHOOSE g : M(g)
             h == [i \in 1 .. n |-> f[i]]
  <2>1. Archives!FlattenSeq(q) = flatten[n]
    BY <1>8 DEF n, Archives!FlattenSeq
  <2>2. f[1] = q[1]
    <3>1. 1 \in 1 .. n /\ 1 - 1 = 0 /\ q[1] \in Seq(V)
      BY <1>3, <1>8 DEF n
    <3>2. f[1] = <<>> \o q[1]
      BY <3>1, <1>4, <1>5
    <3> QED BY <3>1, <3>2
  <2>3. M(h)
    <3>1. ASSUME NEW i \in 1 .. n PROVE h[i] = IF i = 1 THEN q[i] ELSE h[i - 1] \o q[i]
      <4>1. CASE i = 1
        BY <2>2, <4>1
      <4>2. CASE i # 1
        <5>1. i - 1 \in 1 .. n
          BY <1>3, <4>2
        <5> QED BY <4>2, <5>1, <1>5
      <4> QED BY <4>1, <4>2
    <3> QED BY <3>1
  <2>4. M(flatten)
    <3> HIDE DEF M, h
    <3> QED BY <2>3
  <2>5. flatten = [i \in 1 .. n |-> IF i = 1 THEN q[i] ELSE flatten[i - 1] \o q[i]]
    BY <2>4
  <2> HIDE DEF flatten, M, h
  <2>6. ASSUME NEW i \in 1 .. n PROVE flatten[i] = IF i = 1 THEN q[i] ELSE flatten[i - 1] \o q[i]
    BY <2>5
  <2> DEFINE S == {i \in 0 .. n : i # 0 => flatten[i] = f[i]}
  <2>7. 0 \in S
    BY <1>3
  <2>8. ASSUME NEW i \in 0 .. n - 1, i \in S PROVE i + 1 \in S
    <3>0. i + 1 \in 1 .. n /\ i + 1 \in 0 .. n /\ i + 1 - 1 = i
      BY <1>3
    <3>1. CASE i = 0
      <4>1. flatten[1] = q[1]
        BY <3>0, <3>1, <2>6
      <4> QED BY <3>0, <3>1, <4>1, <2>2
    <3>2. CASE i # 0
      <4> DEFINE j == i + 1
      <4>0. j \in 1 .. n /\ j - 1 = i /\ j # 1
        BY <3>0, <3>2
      <4> HIDE DEF j
      <4>1. flatten[j] = flatten[j - 1] \o q[j]
        BY <4>0, <2>6
      <4>2. f[j] = f[j - 1] \o q[j]
        BY <4>0, <1>5
      <4>3. flatten[i] = f[i]
        BY <3>2, <2>8
      <4> QED BY <3>0, <4>0, <4>1, <4>2, <4>3 DEF j
    <3> QED BY <3>1, <3>2
  <2> HIDE DEF S
  <2>9. \A i \in 0 .. n : i \in S
    BY <1>3, <2>7, <2>8, InductUpTo
  <2>10. flatten[n] = f[n]
    BY <1>3, <1>8, <2>9 DEF S
  <2> QED BY <2>1, <2>10, <1>6 DEF n
<1> QED BY <1>7, <1>8

\* Strings: a zero is followed by one, and two zeros end the string.

\* w begins with p.
StartsWith(w, p) == Len(p) <= Len(w) /\ \A k \in 1 .. Len(p) : w[k] = p[k]

\* What each byte of a string is encoded as.
Pieces(s) == [i \in DOMAIN s |-> IF s[i] = 0 THEN <<0, 1>> ELSE <<s[i]>>]

\* Zero and one are bytes, and bytes are numbers.
LEMMA BytesAre == /\ Archives!Bytes \subseteq Int /\ 0 \in Archives!Bytes /\ 1 \in Archives!Bytes
                  /\ \A c \in Archives!Bytes : c >= 0
BY PowerFacts DEF Archives!Bytes

\* Strings are sequences of numbers.
LEMMA BytesInt == ASSUME NEW s \in Seq(Archives!Bytes) PROVE s \in Seq(Int)
<1>1. Len(s) \in Nat /\ s \in [1 .. Len(s) -> Archives!Bytes]
  OBVIOUS
<1> DEFINE n == Len(s)
<1> HIDE DEF n
<1>2. n \in Nat /\ s \in [1 .. n -> Archives!Bytes]
  BY <1>1 DEF n
<1>3. s \in [1 .. n -> Int]
  BY <1>2, BytesAre
<1> QED BY <1>2, <1>3

\* A length is a number.
LEMMA LenNat == ASSUME NEW V, NEW s \in Seq(V) PROVE Len(s) \in Nat
OBVIOUS

\* What is put behind a string leaves its beginning.
LEMMA JoinStarts == ASSUME NEW V, NEW p \in Seq(V), NEW q \in Seq(V) PROVE StartsWith(p \o q, p)
<1>1. Len(p \o q) = Len(p) + Len(q) /\ Len(p) \in Nat /\ Len(q) \in Nat
  OBVIOUS
<1>2. \A k \in 1 .. Len(p) : (p \o q)[k] = p[k]
  OBVIOUS
<1>3. Len(p) <= Len(p \o q)
  BY <1>1
<1> QED BY <1>2, <1>3 DEF StartsWith

\* The beginning of a beginning is one.
LEMMA StartsTransitive ==
  ASSUME NEW w, NEW p, NEW q, Len(w) \in Nat, Len(p) \in Nat, Len(q) \in Nat, StartsWith(w, p), StartsWith(p, q)
  PROVE  StartsWith(w, q)
<1>1. Len(q) <= Len(p) /\ Len(p) <= Len(w)
  BY DEF StartsWith
<1>2. ASSUME NEW k \in 1 .. Len(q) PROVE w[k] = q[k]
  <2>1. k \in 1 .. Len(p)
    BY <1>1
  <2> QED BY <2>1 DEF StartsWith
<1>3. Len(q) <= Len(w)
  BY <1>1
<1> QED BY <1>2, <1>3 DEF StartsWith

\* What is made grows at its end only.
LEMMA PartsStart ==
  ASSUME NEW V, NEW q, NEW n \in Nat, Len(q) = n, \A i \in 1 .. n : q[i] \in Seq(V),
         NEW made, Parts(made, q, V), NEW x \in 0 .. n
  PROVE  StartsWith(made[n], made[x]) /\ made[x] \in Seq(V)
<1>1. \A i \in 0 .. n : made[i] \in Seq(V)
  BY DEF Parts
<1>2. \A i \in 1 .. n : made[i] = made[i - 1] \o q[i]
  BY DEF Parts
<1> DEFINE S == {m \in 0 .. n - x : StartsWith(made[x + m], made[x])}
<1>5. 0 \in S
  <2>1. made[x] \in Seq(V) /\ x + 0 = x /\ 0 \in 0 .. n - x
    BY <1>1
  <2>2. StartsWith(made[x], made[x])
    BY <2>1 DEF StartsWith
  <2> QED BY <2>1, <2>2
<1>6. ASSUME NEW m \in 0 .. n - x - 1, m \in S PROVE m + 1 \in S
  <2> DEFINE j == x + (m + 1)
  <2>1. j \in 1 .. n /\ j - 1 = x + m /\ j - 1 \in 0 .. n /\ j \in 0 .. n /\ m + 1 \in 0 .. n - x
    OBVIOUS
  <2> HIDE DEF j
  <2>2. made[j] = made[j - 1] \o q[j] /\ q[j] \in Seq(V) /\ made[j - 1] \in Seq(V) /\ made[j] \in Seq(V)
    BY <1>1, <1>2, <2>1
  <2>3. StartsWith(made[j], made[j - 1])
    BY <2>2, JoinStarts
  <2>4. StartsWith(made[j - 1], made[x])
    BY <1>6, <2>1
  <2>5. made[x] \in Seq(V)
    BY <1>1
  <2>6. Len(made[j]) \in Nat /\ Len(made[j - 1]) \in Nat /\ Len(made[x]) \in Nat
    BY <2>2, <2>5, LenNat
  <2>7. StartsWith(made[j], made[x])
    BY <2>3, <2>4, <2>6, StartsTransitive
  <2> QED BY <2>1, <2>7 DEF j
<1> HIDE DEF S
<1>7. n - x \in Nat
  OBVIOUS
<1>8. \A m \in 0 .. n - x : m \in S
  BY <1>5, <1>6, <1>7, InductUpTo
<1>9. StartsWith(made[n], made[x])
  <2>1. n - x \in 0 .. n - x /\ x + (n - x) = n
    OBVIOUS
  <2> QED BY <1>8, <2>1 DEF S
<1> QED BY <1>1, <1>9

\* z is q with the piece e more.
Longer(z, q, e) == /\ Len(q) \in Nat /\ Len(z) = Len(q) + 1 /\ z[Len(q) + 1] = e
                   /\ \A i \in 1 .. Len(q) : z[i] = q[i]

\* What the pieces made, and one behind it.
LEMMA PartsMore ==
  ASSUME NEW V, NEW q, NEW z, NEW e \in Seq(V), NEW made, Parts(made, q, V), Longer(z, q, e)
  PROVE  \E more : /\ Parts(more, z, V) /\ more[Len(q) + 1] = made[Len(q)] \o e
                   /\ \A i \in 0 .. Len(q) : more[i] = made[i]
<1> DEFINE n == Len(q)
<1>0. n \in Nat /\ Len(z) = n + 1 /\ z[n + 1] = e /\ \A i \in 1 .. n : z[i] = q[i]
  BY DEF Longer
<1> DEFINE W == Seq(V)
           last == made[n] \o e
           more == [i \in 0 .. n + 1 |-> IF i = n + 1 THEN last ELSE made[i]]
<1>1. /\ made[0] = <<>> /\ (\A i \in 0 .. n : made[i] \in W) /\ \A i \in 1 .. n : made[i] = made[i - 1] \o q[i]
  BY DEF Parts
<1>2. last \in W
  <2>1. made[n] \in Seq(V)
    BY <1>1
  <2> QED BY <2>1
<1>3. last = made[n] \o e
  OBVIOUS
<1> HIDE DEF W, last, n
<1>4. /\ more[n + 1] = last /\ \A i \in 0 .. n : more[i] = made[i]
  <2>1. n + 1 \in 0 .. n + 1 /\ \A i \in 0 .. n : i \in 0 .. n + 1 /\ i # n + 1
    BY <1>0
  <2> QED BY <2>1
<1> HIDE DEF more
<1>5. more[0] = <<>> /\ \A i \in 0 .. n + 1 : more[i] \in W
  <2>1. 0 \in 0 .. n /\ \A i \in 0 .. n + 1 : i \in 0 .. n \/ i = n + 1
    BY <1>0
  <2> QED BY <1>1, <1>2, <1>4, <2>1
<1>6. ASSUME NEW i \in 1 .. n + 1 PROVE more[i] = more[i - 1] \o z[i]
  <2>1. CASE i = n + 1
    <3>1. i - 1 = n /\ n \in 0 .. n
      BY <1>0, <2>1
    <3> QED BY <1>0, <1>3, <1>4, <2>1, <3>1
  <2>2. CASE i # n + 1
    <3>1. i \in 1 .. n /\ i - 1 \in 0 .. n /\ i \in 0 .. n
      BY <1>0, <2>2
    <3> QED BY <1>0, <1>1, <1>4, <3>1
  <2> QED BY <2>1, <2>2
<1>7. Parts(more, z, V)
  BY <1>0, <1>5, <1>6, Zenon DEF Parts, W
<1> QED BY <1>3, <1>4, <1>7 DEF n

\* Each byte of a string becomes one byte or two, the first of them the byte itself.
LEMMA PiecesAre ==
  ASSUME NEW s \in Seq(Archives!Bytes)
  PROVE  /\ Len(Pieces(s)) = Len(s) /\ Len(s) \in Nat /\ DOMAIN s = 1 .. Len(s)
         /\ Len(Pieces(s)) = 0 => Pieces(s) = <<>>
         /\ \A i \in 1 .. Len(s) : /\ s[i] \in Archives!Bytes
                                   /\ Pieces(s)[i] = IF s[i] = 0 THEN <<0, 1>> ELSE <<s[i]>>
                                   /\ Pieces(s)[i] \in Seq(Archives!Bytes)
                                   /\ Len(Pieces(s)[i]) \in 1 .. 2 /\ Pieces(s)[i][1] = s[i]
<1>1. Len(s) \in Nat /\ DOMAIN s = 1 .. Len(s) /\ \A i \in 1 .. Len(s) : s[i] \in Archives!Bytes
  OBVIOUS
<1> DEFINE n == Len(s)
<1> HIDE DEF n
<1>2. n \in Nat /\ DOMAIN s = 1 .. n
  BY <1>1 DEF n
<1>3. Pieces(s) = [i \in 1 .. n |-> IF s[i] = 0 THEN <<0, 1>> ELSE <<s[i]>>]
  BY <1>2 DEF Pieces
<1> DEFINE p == Pieces(s)
<1> HIDE DEF p
<1>4. p = [i \in 1 .. n |-> IF s[i] = 0 THEN <<0, 1>> ELSE <<s[i]>>]
  BY <1>3 DEF p
<1>5. Len(p) = n
  BY <1>2, <1>4
<1>6. ASSUME n = 0 PROVE p = <<>>
  <2>1. DOMAIN p = {}
    BY <1>4, <1>6
  <2> QED BY <1>4, <1>6
<1>7. ASSUME NEW i \in 1 .. n
      PROVE  /\ p[i] = IF s[i] = 0 THEN <<0, 1>> ELSE <<s[i]>>
             /\ p[i] \in Seq(Archives!Bytes) /\ Len(p[i]) \in 1 .. 2 /\ p[i][1] = s[i]
  <2>1. p[i] = IF s[i] = 0 THEN <<0, 1>> ELSE <<s[i]>>
    BY <1>4
  <2>2. s[i] \in Archives!Bytes
    BY <1>1 DEF n
  <2> DEFINE c == s[i]
  <2> HIDE DEF c
  <2>3. CASE c = 0
    <3>1. p[i] = <<0, 1>> /\ c = 0
      BY <2>1, <2>3 DEF c
    <3>2. <<0, 1>> \in Seq(Archives!Bytes)
      BY BytesAre
    <3> QED BY <2>1, <3>1, <3>2 DEF c
  <2>4. CASE c # 0
    <3>1. p[i] = <<c>>
      BY <2>1, <2>4 DEF c
    <3>2. <<c>> \in Seq(Archives!Bytes)
      BY <2>2 DEF c
    <3>3. p[i] \in Seq(Archives!Bytes)
      BY <3>1, <3>2
    <3>4. Len(p[i]) \in 1 .. 2 /\ p[i][1] = s[i]
      BY <3>1 DEF c
    <3> QED BY <2>1, <3>3, <3>4
  <2> QED BY <2>3, <2>4
<1> QED BY <1>1, <1>5, <1>6, <1>7 DEF p, n

\* SaveText makes the string of its pieces, and its end.
LEMMA TextParts ==
  ASSUME NEW s \in Seq(Archives!Bytes)
  PROVE  \E made : /\ Parts(made, Pieces(s), Archives!Bytes)
                   /\ Archives!SaveText(s) = made[Len(s)] \o <<0, 0>>
<1>1. PICK made : Parts(made, Pieces(s), Archives!Bytes) /\ Archives!FlattenSeq(Pieces(s)) = made[Len(Pieces(s))]
  <2> DEFINE q == Pieces(s)
  <2>1. Len(q) \in Nat /\ (\A i \in 1 .. Len(q) : q[i] \in Seq(Archives!Bytes)) /\ (Len(q) = 0 => q = <<>>)
    <3> HIDE DEF q
    <3> QED BY PiecesAre DEF q
  <2> HIDE DEF q
  <2>2. \E made : Parts(made, q, Archives!Bytes) /\ Archives!FlattenSeq(q) = made[Len(q)]
    BY <2>1, FlattenParts
  <2> QED BY <2>2 DEF q
<1>2. Archives!SaveText(s) = Archives!FlattenSeq(Pieces(s)) \o <<0, 0>>
  BY DEF Archives!SaveText, Pieces
<1>3. Len(Pieces(s)) = Len(s)
  BY PiecesAre
<1> QED BY <1>1, <1>2, <1>3

\* So does an encoded string.
LEMMA MadeStarts ==
  ASSUME NEW s \in Seq(Archives!Bytes), NEW made, Parts(made, Pieces(s), Archives!Bytes),
         NEW x \in 0 .. Len(s)
  PROVE  StartsWith(made[Len(s)], made[x]) /\ made[x] \in Seq(Archives!Bytes)
<1> DEFINE p == Pieces(s)
           n == Len(s)
<1>1. n \in Nat /\ Len(p) = n /\ (\A i \in 1 .. n : p[i] \in Seq(Archives!Bytes)) /\ x \in 0 .. n
  BY PiecesAre
<1>2. Parts(made, p, Archives!Bytes)
  OBVIOUS
<1> HIDE DEF p, n
<1> QED BY <1>1, <1>2, PartsStart DEF n

\* What an encoded string is from position x of the string on.
Onward(s, x) == IF x > Len(s) THEN <<0, 0>> ELSE Pieces(s)[x]

\* An encoded string begins with what is made so far and the next piece, or the end.
LEMMA TextStarts ==
  ASSUME NEW s \in Seq(Archives!Bytes), NEW made, Parts(made, Pieces(s), Archives!Bytes),
         Archives!SaveText(s) = made[Len(s)] \o <<0, 0>>, NEW x \in 1 .. Len(s) + 1
  PROVE  /\ StartsWith(Archives!SaveText(s), made[x - 1] \o Onward(s, x))
         /\ Archives!SaveText(s) \in Seq(Archives!Bytes)
<1> DEFINE n == Len(s)
           V == Archives!Bytes
           p == Pieces(s)
<1>1. n \in Nat /\ Len(p) = n
  BY PiecesAre
<1>2. \A i \in 0 .. n : made[i] \in Seq(V)
  BY <1>1 DEF Parts
<1>3. \A i \in 1 .. n : made[i] = made[i - 1] \o p[i] /\ p[i] \in Seq(V)
  BY <1>1, PiecesAre DEF Parts
<1> HIDE DEF n, V, p
<1>4. <<0, 0>> \in Seq(V)
  BY BytesAre DEF V
<1>5. made[n] \o <<0, 0>> \in Seq(V)
  <2>1. made[n] \in Seq(V)
    BY <1>1, <1>2
  <2> QED BY <1>4, <2>1
<1>6. x \in 1 .. n + 1
  BY DEF n
<1>7. CASE x = n + 1
  <2>1. made[x - 1] \o Onward(s, x) = Archives!SaveText(s)
    <3>1. x > Len(s) /\ x - 1 = n
      BY <1>1, <1>7 DEF n
    <3> QED BY <3>1 DEF Onward, n
  <2>2. Len(Archives!SaveText(s)) \in Nat /\ Archives!SaveText(s) \in Seq(V)
    BY <1>5 DEF n
  <2> QED BY <2>1, <2>2 DEF StartsWith, V
<1>8. CASE x # n + 1
  <2>1. x \in 1 .. n /\ x - 1 \in 0 .. n /\ x \in 0 .. n /\ ~(x > Len(s))
    BY <1>1, <1>6, <1>8 DEF n
  <2>2. made[x - 1] \o Onward(s, x) = made[x]
    BY <2>1, <1>3 DEF Onward, p
  <2>7. StartsWith(made[n], made[x])
    BY <2>1, MadeStarts DEF n
  <2>8. made[n] \in Seq(V) /\ made[x] \in Seq(V)
    BY <1>1, <1>2, <2>1
  <2>9. StartsWith(made[n] \o <<0, 0>>, made[n])
    BY <1>4, <2>8, JoinStarts
  <2>10. StartsWith(made[n] \o <<0, 0>>, made[x])
    <3>1. Len(made[n] \o <<0, 0>>) \in Nat /\ Len(made[n]) \in Nat /\ Len(made[x]) \in Nat
      BY <1>5, <2>8
    <3> QED BY <2>7, <2>9, <3>1, StartsTransitive
  <2> QED BY <1>5, <2>2, <2>10 DEF n, V
<1> QED BY <1>7, <1>8

\* Where two strings part, their encodings do, in the same order: the end is before every piece.
LEMMA PartedOnward ==
  ASSUME NEW w, NEW v, NEW p, NEW q, NEW i \in Nat, Len(w) \in Nat, Len(v) \in Nat, Len(p) \in Nat, Len(q) \in Nat,
         StartsWith(w, p), StartsWith(v, q), Parted(p, q, i)
  PROVE  Parted(w, v, i) /\ w[i] = p[i] /\ v[i] = q[i]
<1>1. i \in 1 .. Len(p) /\ i \in 1 .. Len(q) /\ p[i] # q[i] /\ \A j \in 1 .. i - 1 : p[j] = q[j]
  BY DEF Parted
<1>2. /\ Len(p) <= Len(w) /\ \A k \in 1 .. Len(p) : w[k] = p[k]
      /\ Len(q) <= Len(v) /\ \A k \in 1 .. Len(q) : v[k] = q[k]
  BY DEF StartsWith
<1>3. i \in 1 .. Len(w) /\ i \in 1 .. Len(v)
  BY <1>1, <1>2
<1>4. w[i] = p[i] /\ v[i] = q[i]
  BY <1>1, <1>2
<1>5. ASSUME NEW j \in 1 .. i - 1 PROVE w[j] = v[j]
  <2>1. j \in 1 .. Len(p) /\ j \in 1 .. Len(q)
    BY <1>1
  <2> QED BY <2>1, <1>1, <1>2
<1> QED BY <1>1, <1>3, <1>4, <1>5 DEF Parted

\* Strings that begin alike are encoded alike as far.
LEMMA MadeAlike ==
  ASSUME NEW s \in Seq(Archives!Bytes), NEW r \in Seq(Archives!Bytes), NEW f, NEW g,
         Parts(f, Pieces(s), Archives!Bytes), Parts(g, Pieces(r), Archives!Bytes),
         NEW x \in Nat, x <= Len(s), x <= Len(r), \A j \in 1 .. x : s[j] = r[j]
  PROVE  f[x] = g[x] /\ f[x] \in Seq(Archives!Bytes)
<1> DEFINE n == Len(s)
           m == Len(r)
           p == Pieces(s)
           q == Pieces(r)
<1>1. n \in Nat /\ m \in Nat /\ Len(p) = n /\ Len(q) = m /\ x <= n /\ x <= m
  BY PiecesAre
<1>2. ASSUME NEW j \in 1 .. x PROVE p[j] = q[j]
  <2>1. j \in 1 .. n /\ j \in 1 .. m
    BY <1>1
  <2>2. p[j] = IF s[j] = 0 THEN <<0, 1>> ELSE <<s[j]>>
    BY <2>1, PiecesAre
  <2>3. q[j] = IF r[j] = 0 THEN <<0, 1>> ELSE <<r[j]>>
    BY <2>1, PiecesAre
  <2>4. s[j] = r[j]
    OBVIOUS
  <2> QED BY <2>2, <2>3, <2>4
<1> HIDE DEF n, m, p, q
<1>3. /\ f[0] = <<>> /\ g[0] = <<>> /\ \A i \in 0 .. n : f[i] \in Seq(Archives!Bytes)
      /\ \A i \in 1 .. n : f[i] = f[i - 1] \o p[i]
      /\ \A i \in 1 .. m : g[i] = g[i - 1] \o q[i]
  BY <1>1 DEF Parts, p, q
<1> DEFINE S == {j \in 0 .. x : f[j] = g[j]}
<1>4. 0 \in S
  BY <1>3
<1>5. ASSUME NEW i \in 0 .. x - 1, i \in S PROVE i + 1 \in S
  <2> DEFINE j == i + 1
  <2>1. j \in 1 .. x /\ j \in 0 .. x /\ j \in 1 .. n /\ j \in 1 .. m /\ j - 1 = i
    BY <1>1
  <2> HIDE DEF j
  <2>2. f[j] = f[j - 1] \o p[j] /\ g[j] = g[j - 1] \o q[j] /\ p[j] = q[j]
    BY <1>2, <1>3, <2>1
  <2>3. f[i] = g[i]
    BY <1>5
  <2> QED BY <2>1, <2>2, <2>3 DEF j
<1> HIDE DEF S
<1>6. \A j \in 0 .. x : j \in S
  BY <1>4, <1>5, InductUpTo
<1>7. x \in 0 .. x /\ x \in 0 .. n
  BY <1>1
<1> QED BY <1>3, <1>6, <1>7 DEF S

\* Behind equal beginnings, the next character or the end decides.
LEMMA OnwardInOrder ==
  ASSUME NEW s \in Seq(Archives!Bytes), NEW r \in Seq(Archives!Bytes), s # r,
         NEW x \in Nat, x \in 1 .. Len(s) + 1, x \in 1 .. Len(r) + 1, \A j \in 1 .. x - 1 : s[j] = r[j],
         x > Len(s) \/ x > Len(r) \/ s[x] # r[x]
  PROVE  /\ InOrder(Onward(s, x), Onward(r, x), FALSE, Archives!Less(s, r))
         /\ Onward(s, x) \in Seq(Archives!Bytes) /\ Onward(r, x) \in Seq(Archives!Bytes)
<1> DEFINE a == Onward(s, x)
           b == Onward(r, x)
           n == Len(s)
           m == Len(r)
<1>1. n \in Nat /\ m \in Nat /\ DOMAIN s = 1 .. n /\ DOMAIN r = 1 .. m
  BY PiecesAre
<1>2. s \in Seq(Int) /\ r \in Seq(Int)
  BY BytesInt
<1>3. /\ \A i \in 1 .. n : s[i] \in Int /\ s[i] >= 0 /\ s[i] \in Archives!Bytes
      /\ \A i \in 1 .. m : r[i] \in Int /\ r[i] >= 0 /\ r[i] \in Archives!Bytes
  BY PiecesAre, BytesAre
<1>4. <<0, 0>> \in Seq(Archives!Bytes) /\ Len(<<0, 0>>) = 2
  BY BytesAre
<1>5. ASSUME x <= n
      PROVE  /\ a = (IF s[x] = 0 THEN <<0, 1>> ELSE <<s[x]>>) /\ a \in Seq(Archives!Bytes)
             /\ Len(a) \in 1 .. 2 /\ a[1] = s[x] /\ x \in 1 .. n
  <2>1. x \in 1 .. n /\ ~(x > Len(s))
    BY <1>1, <1>5
  <2>2. a = Pieces(s)[x]
    BY <2>1 DEF Onward
  <2> HIDE DEF a, n
  <2>3. x \in 1 .. Len(s)
    BY <2>1 DEF n
  <2> QED BY <2>1, <2>2, <2>3, PiecesAre
<1>6. ASSUME x <= m
      PROVE  /\ b = (IF r[x] = 0 THEN <<0, 1>> ELSE <<r[x]>>) /\ b \in Seq(Archives!Bytes)
             /\ Len(b) \in 1 .. 2 /\ b[1] = r[x] /\ x \in 1 .. m
  <2>1. x \in 1 .. m /\ ~(x > Len(r))
    BY <1>1, <1>6
  <2>2. b = Pieces(r)[x]
    BY <2>1 DEF Onward
  <2> HIDE DEF b, m
  <2>3. x \in 1 .. Len(r)
    BY <2>1 DEF m
  <2> QED BY <2>1, <2>2, <2>3, PiecesAre
<1>7. ASSUME x > n PROVE a = <<0, 0>> /\ x = n + 1
  BY <1>1, <1>7 DEF Onward
<1>8. ASSUME x > m PROVE b = <<0, 0>> /\ x = m + 1
  BY <1>1, <1>8 DEF Onward
<1> HIDE DEF a, b
<1>9. CASE x <= n /\ x <= m
  <2>1. s[x] # r[x] /\ x \in 1 .. n /\ x \in 1 .. m
    BY <1>1, <1>9
  <2>2. Parted(s, r, x)
    BY <2>1 DEF Parted
  <2>3. Archives!Less(s, r) <=> s[x] < r[x]
    BY <1>2, <2>2, PartedLess
  <2>4. Parted(a, b, 1) /\ a[1] = s[x] /\ b[1] = r[x]
    BY <1>5, <1>6, <1>9, <2>1 DEF Parted
  <2> QED BY <1>5, <1>6, <1>9, <2>3, <2>4 DEF InOrder, a, b
<1>10. CASE x > n /\ x <= m
  <2>1. Archives!Less(s, r)
    <3>1. n < m /\ \A j \in 1 .. n : s[j] = r[j]
      BY <1>1, <1>7, <1>10
    <3>2. Archives!IsStrictPrefix(s, r)
      BY <3>1, <1>1, SeqEqual, SubSeqProperties DEF Archives!IsStrictPrefix, Archives!IsPrefix
    <3> QED BY <3>2 DEF Archives!Less
  <2>2. a = <<0, 0>> /\ Len(a) = 2 /\ a[1] = 0 /\ a[2] = 0
    BY <1>4, <1>7, <1>10
  <2>3. CASE r[x] = 0
    <3>1. b = <<0, 1>> /\ Len(b) = 2 /\ b[1] = 0 /\ b[2] = 1
      BY <1>6, <1>10, <2>3
    <3>2. Parted(a, b, 2)
      BY <2>2, <3>1 DEF Parted
    <3> QED BY <1>4, <1>6, <1>10, <2>1, <2>2, <3>1, <3>2 DEF InOrder, a, b
  <2>4. CASE r[x] # 0
    <3>1. Len(b) \in 1 .. 2 /\ b[1] = r[x] /\ r[x] > 0 /\ b[1] > 0
      BY <1>3, <1>6, <1>10, <2>4
    <3>2. Parted(a, b, 1)
      BY <2>2, <3>1 DEF Parted
    <3> QED BY <1>4, <1>6, <1>10, <2>1, <2>2, <3>1, <3>2 DEF InOrder, a, b
  <2> QED BY <2>3, <2>4
<1>11. CASE x <= n /\ x > m
  <2>1. ~Archives!Less(s, r)
    <3>1. m < n /\ \A j \in 1 .. m : s[j] = r[j]
      BY <1>1, <1>8, <1>11
    <3>2. ~Archives!IsStrictPrefix(s, r)
      BY <3>1, <1>1 DEF Archives!IsStrictPrefix, Archives!IsPrefix
    <3>3. ASSUME NEW i \in DOMAIN s \cap DOMAIN r, s[i] < r[i] PROVE FALSE
      <4>1. i \in 1 .. m /\ r[i] \in Int
        BY <1>1, <1>3
      <4> QED BY <3>1, <3>3, <4>1
    <3> QED BY <3>2, <3>3 DEF Archives!Less
  <2>2. b = <<0, 0>> /\ Len(b) = 2 /\ b[1] = 0 /\ b[2] = 0
    BY <1>4, <1>8, <1>11
  <2>3. CASE s[x] = 0
    <3>1. a = <<0, 1>> /\ Len(a) = 2 /\ a[1] = 0 /\ a[2] = 1
      BY <1>5, <1>11, <2>3
    <3>2. Parted(a, b, 2)
      BY <2>2, <3>1 DEF Parted
    <3> QED BY <1>4, <1>5, <1>11, <2>1, <2>2, <3>1, <3>2 DEF InOrder, a, b
  <2>4. CASE s[x] # 0
    <3>1. Len(a) \in 1 .. 2 /\ a[1] = s[x] /\ s[x] > 0 /\ a[1] > 0
      BY <1>3, <1>5, <1>11, <2>4
    <3>2. Parted(a, b, 1)
      BY <2>2, <3>1 DEF Parted
    <3>3. ~(a[1] < b[1])
      <4>1. x \in 1 .. n /\ s[x] \in Int
        BY <1>3, <1>5, <1>11
      <4> DEFINE c == s[x]
                 d == a[1]
                 e == b[1]
      <4>2. c \in Int /\ d = c /\ c > 0 /\ e = 0
        BY <2>2, <3>1, <4>1
      <4> HIDE DEF c, d, e
      <4>3. ~(d < e)
        BY <4>2
      <4> QED BY <4>3 DEF d, e
    <3>4. InOrder(a, b, FALSE, Archives!Less(s, r))
      BY <2>1, <3>2, <3>3 DEF InOrder
    <3>5. a \in Seq(Archives!Bytes) /\ b \in Seq(Archives!Bytes)
      BY <1>4, <1>5, <1>11, <2>2
    <3> QED BY <3>4, <3>5 DEF a, b
  <2> QED BY <2>3, <2>4
<1>12. CASE x > n /\ x > m
  <2>1. n = m /\ \A j \in 1 .. n : s[j] = r[j]
    <3>1. x = n + 1 /\ x = m + 1
      BY <1>7, <1>8, <1>12
    <3> HIDE DEF n, m
    <3>2. n = m /\ x - 1 = n
      BY <1>1, <3>1
    <3> QED BY <3>2
  <2> QED BY <2>1, SeqEqual
<1>13. (x <= n \/ x > n) /\ (x <= m \/ x > m)
  <2> HIDE DEF n, m
  <2> QED BY <1>1
<1> QED BY <1>9, <1>10, <1>11, <1>12, <1>13, Zenon

\* Strings are in the order of their encodings, and none is the beginning of another.
LEMMA TextInOrder ==
  ASSUME NEW s \in Seq(Archives!Bytes), NEW r \in Seq(Archives!Bytes)
  PROVE  /\ InOrder(Archives!SaveText(s), Archives!SaveText(r), s = r, Archives!Less(s, r))
         /\ Archives!SaveText(s) \in Seq(Archives!Bytes) /\ Archives!SaveText(r) \in Seq(Archives!Bytes)
<1>1. PICK f : Parts(f, Pieces(s), Archives!Bytes) /\ Archives!SaveText(s) = f[Len(s)] \o <<0, 0>>
  BY TextParts
<1>2. PICK g : Parts(g, Pieces(r), Archives!Bytes) /\ Archives!SaveText(r) = g[Len(r)] \o <<0, 0>>
  BY TextParts
<1>3. Len(s) \in Nat /\ Len(r) \in Nat
  BY LenNat
<1> DEFINE w == Archives!SaveText(s)
           v == Archives!SaveText(r)
<1>4. w \in Seq(Archives!Bytes) /\ v \in Seq(Archives!Bytes)
  <2>1. 1 \in 1 .. Len(s) + 1 /\ 1 \in 1 .. Len(r) + 1
    BY <1>3
  <2> QED BY <1>1, <1>2, <2>1, TextStarts
<1>5. CASE s = r
  <2>1. ~Archives!Less(s, r)
    BY <1>5, BytesInt, NotLess
  <2> QED BY <1>4, <1>5, <2>1 DEF InOrder
<1>6. CASE s # r
  <2> DEFINE T == {i \in 1 .. Len(s) + 1 : i > Len(s) \/ i > Len(r) \/ s[i] # r[i]}
  <2>1. T \subseteq Nat /\ T # {}
    <3>1. Len(s) + 1 \in T
      BY <1>3
    <3> QED BY <3>1
  <2>2. PICK x \in T : \A y \in T : x <= y
    <3> HIDE DEF T
    <3> QED BY <2>1, LeastNumber
  <2>3. x \in 1 .. Len(s) + 1 /\ x \in Nat /\ (x > Len(s) \/ x > Len(r) \/ s[x] # r[x])
    OBVIOUS
  <2>4. ASSUME NEW j \in 1 .. x - 1 PROVE j <= Len(s) /\ j <= Len(r) /\ s[j] = r[j]
    <3>1. j \notin T
      BY <2>2, <2>3
    <3>2. j \in 1 .. Len(s) + 1
      BY <1>3, <2>3
    <3> QED BY <3>1, <3>2, <1>3
  <2>5. x \in 1 .. Len(r) + 1
    <3>1. ASSUME x > Len(r) + 1 PROVE FALSE
      <4>1. Len(r) + 1 \in 1 .. x - 1 /\ ~(Len(r) + 1 <= Len(r))
        BY <1>3, <2>3, <3>1
      <4> QED BY <4>1, <2>4
    <3> QED BY <3>1, <1>3, <2>3
  <2> HIDE DEF T, w, v
  <2> DEFINE k == x - 1
             p == f[k]
             a == Onward(s, x)
             b == Onward(r, x)
  <2>6. k \in Nat /\ k <= Len(s) /\ k <= Len(r) /\ \A j \in 1 .. k : s[j] = r[j]
    BY <2>3, <2>4, <2>5, <1>3
  <2>7. f[k] = g[k] /\ f[k] \in Seq(Archives!Bytes)
    <3> HIDE DEF k
    <3> QED BY <1>1, <1>2, <2>6, MadeAlike
  <2>8. StartsWith(w, p \o a) /\ StartsWith(v, p \o b)
    <3>1. StartsWith(w, f[x - 1] \o Onward(s, x))
      BY <1>1, <2>3, TextStarts DEF w
    <3>2. StartsWith(v, g[x - 1] \o Onward(r, x))
      BY <1>2, <2>5, TextStarts DEF v
    <3> QED BY <3>1, <3>2, <2>7
  <2>9. /\ InOrder(a, b, FALSE, Archives!Less(s, r))
        /\ a \in Seq(Archives!Bytes) /\ b \in Seq(Archives!Bytes)
    BY <1>6, <2>3, <2>4, <2>5, OnwardInOrder
  <2>10. w \in Seq(Archives!Bytes) /\ v \in Seq(Archives!Bytes)
    BY <1>4 DEF w, v
  <2> DEFINE less == Archives!Less(s, r)
  <2>11. less \in BOOLEAN
    BY DEF Archives!Less, Archives!IsStrictPrefix
  <2>12. InOrder(a, b, FALSE, less)
    BY <2>9
  <2> HIDE DEF p, a, b, less
  <2>14. p \in Seq(Int) /\ a \in Seq(Int) /\ b \in Seq(Int)
    BY <2>7, <2>9, BytesInt DEF p
  <2>15. InOrder(p, p, TRUE, FALSE)
    BY DEF InOrder
  <2>16. InOrder(p \o a, p \o b, TRUE /\ FALSE, FALSE \/ (TRUE /\ less))
    BY <2>11, <2>12, <2>14, <2>15, InOrderJoin
  <2>17. PICK i \in Nat : Parted(p \o a, p \o b, i) /\ (less <=> (p \o a)[i] < (p \o b)[i])
    BY <2>16 DEF InOrder
  <2> DEFINE pa == p \o a
             pb == p \o b
  <2>18. /\ Len(w) \in Nat /\ Len(v) \in Nat /\ Len(p \o a) \in Nat /\ Len(p \o b) \in Nat
    <3>1. p \o a \in Seq(Int) /\ p \o b \in Seq(Int)
      BY <2>14
    <3> QED BY <2>10, <3>1, LenNat
  <2>19. Parted(w, v, i) /\ w[i] = pa[i] /\ v[i] = pb[i]
    <3>1. StartsWith(w, pa) /\ StartsWith(v, pb) /\ Parted(pa, pb, i)
      BY <2>8, <2>17 DEF p, a, b
    <3> HIDE DEF pa, pb
    <3>2. Len(pa) \in Nat /\ Len(pb) \in Nat
      BY <2>18 DEF pa, pb
    <3> QED BY <2>18, <3>1, <3>2, PartedOnward
  <2>20. InOrder(w, v, s = r, less)
    BY <1>6, <2>17, <2>19 DEF InOrder
  <2> QED BY <1>4, <2>20 DEF w, v, less
<1> QED BY <1>5, <1>6

-----------------------------------------------------------------------------
\* Archive: values of each type and their strings in order.

\* Strings in order.
Sorted(s, r, same, less) == /\ s \in Seq(Archives!Bytes) /\ r \in Seq(Archives!Bytes)
                            /\ InOrder(s, r, same, less)

\* Whatever is written before both.
LEMMA SortedBehind ==
  ASSUME NEW p \in Seq(Archives!Bytes), NEW s, NEW r, NEW same \in BOOLEAN, NEW less \in BOOLEAN,
         Sorted(s, r, same, less)
  PROVE  Sorted(p \o s, p \o r, same, less)
<1>1. s \in Seq(Archives!Bytes) /\ r \in Seq(Archives!Bytes) /\ InOrder(s, r, same, less)
  BY DEF Sorted
<1>2. p \in Seq(Int) /\ s \in Seq(Int) /\ r \in Seq(Int)
  BY <1>1, BytesInt
<1>3. InOrder(p, p, TRUE, FALSE)
  BY DEF InOrder
<1>4. InOrder(p \o s, p \o r, TRUE /\ same, FALSE \/ (TRUE /\ less))
  BY <1>1, <1>2, <1>3, InOrderJoin
<1>5. p \o s \in Seq(Archives!Bytes) /\ p \o r \in Seq(Archives!Bytes)
  BY <1>1
<1> QED BY <1>4, <1>5 DEF Sorted, InOrder

\* The order of single numbers is that of the numbers.
LEMMA SingleLess == ASSUME NEW x \in Int, NEW y \in Int PROVE Archives!Less(<<x>>, <<y>>) <=> x < y
<1> DEFINE s == <<x>>
           r == <<y>>
<1>1. s \in Seq(Int) /\ r \in Seq(Int) /\ Len(s) = 1 /\ Len(r) = 1 /\ s[1] = x /\ r[1] = y
  OBVIOUS
<1>2. CASE x = y
  <2>1. s = r
    BY <1>2
  <2> HIDE DEF s, r
  <2>2. ~Archives!Less(s, r)
    BY <1>1, <2>1, NotLess
  <2> QED BY <1>2, <2>2 DEF s, r
<1>3. CASE x # y
  <2> HIDE DEF s, r
  <2>1. Parted(s, r, 1)
    BY <1>1, <1>3 DEF Parted
  <2>2. Archives!Less(s, r) <=> x < y
    BY <1>1, <2>1, PartedLess
  <2> QED BY <2>2 DEF s, r
<1> QED BY <1>2, <1>3

\* Numbers below B to the n, written with n bytes, are in their order.
LEMMA DigitsSorted ==
  ASSUME NEW n \in 0 .. 8, NEW u \in Below(n), NEW w \in Below(n)
  PROVE  Sorted(Archives!BigEndian(n, u), Archives!BigEndian(n, w), u = w, u < w)
<1>1. u \in Nat /\ w \in Nat
  BY PowerFacts DEF Below
<1> QED BY <1>1, DigitsInOrder, DigitsType DEF Sorted

\* The sign bit is half of the range.
LEMMA SignBitIs ==
  ASSUME NEW n \in 1 .. 8
  PROVE  Archives!SignBit(n) \in Nat \ {0} /\ Archives!Power[n] = 2 * Archives!SignBit(n)
<1> DEFINE p == Archives!Power[n]
           q == Archives!Power[n - 1]
           h == B \div 2
<1>1. p = B * q /\ q \in Nat \ {0} /\ B \in Nat /\ B >= 4 /\ B % 2 = 0
  <2>1. n - 1 \in 0 .. 8
    OBVIOUS
  <2> QED BY <2>1, PowerFacts
<1> HIDE DEF p, q
<1>2. B = 2 * h /\ h \in Nat \ {0}
  BY <1>1
<1> HIDE DEF h
<1>3. p = 2 * (h * q) /\ h * q \in Nat \ {0}
  BY <1>1, <1>2
<1> DEFINE m == h * q
<1> HIDE DEF m
<1>4. p = 2 * m /\ m \in Nat \ {0}
  BY <1>3 DEF m
<1>5. p \div 2 = m
  BY <1>4
<1> QED BY <1>4, <1>5 DEF p, Archives!SignBit

\* What a signed number is written as.
LEMMA SignedSorted ==
  ASSUME NEW n \in 1 .. 8, NEW a \in Int, NEW b \in Int,
         -Archives!SignBit(n) <= a, a <= Archives!SignBit(n) - 1,
         -Archives!SignBit(n) <= b, b <= Archives!SignBit(n) - 1
  PROVE  Sorted(Archives!SaveSigned(n, a), Archives!SaveSigned(n, b), a = b, a < b)
<1> DEFINE m == Archives!SignBit(n)
           p == Archives!Power[n]
           u == (a + m) % p
           w == (b + m) % p
<1>1. m \in Nat \ {0} /\ p = 2 * m
  BY SignBitIs
<1>2. -m <= a /\ a <= m - 1 /\ -m <= b /\ b <= m - 1
  OBVIOUS
<1> HIDE DEF m, p
<1>3. a + m \in 0 .. p - 1 /\ b + m \in 0 .. p - 1 /\ p \in Nat \ {0}
  BY <1>1, <1>2
<1>4. u = a + m /\ w = b + m
  BY <1>3
<1> HIDE DEF u, w
<1>5. n \in 0 .. 8 /\ u \in Below(n) /\ w \in Below(n)
  BY <1>3, <1>4 DEF Below, p
<1>6. Sorted(Archives!BigEndian(n, u), Archives!BigEndian(n, w), u = w, u < w)
  BY <1>5, DigitsSorted
<1>7. (u = w <=> a = b) /\ (u < w <=> a < b)
  BY <1>1, <1>4
<1>8. /\ Archives!SaveSigned(n, a) = Archives!BigEndian(n, u)
      /\ Archives!SaveSigned(n, b) = Archives!BigEndian(n, w)
  BY DEF Archives!SaveSigned, u, w, m, p
<1> QED BY <1>6, <1>7, <1>8 DEF Sorted, InOrder

\* The place of a bit pattern in the order of the numbers.
FloatRank(n, v) == IF v >= Archives!SignBit(n) THEN -(v - Archives!SignBit(n)) - 1 ELSE v

\* Floating point numbers are in their order, negative ones downwards.
LEMMA FloatSorted ==
  ASSUME NEW n \in 1 .. 8, NEW a \in Below(n), NEW b \in Below(n)
  PROVE  /\ Sorted(Archives!SaveFloat(n, a), Archives!SaveFloat(n, b), a = b, FloatRank(n, a) < FloatRank(n, b))
         /\ FloatRank(n, a) \in Int /\ FloatRank(n, b) \in Int
<1> DEFINE m == Archives!SignBit(n)
           p == Archives!Power[n]
           u == IF a >= m THEN p - 1 - a ELSE a + m
           w == IF b >= m THEN p - 1 - b ELSE b + m
<1>1. m \in Nat \ {0} /\ p = 2 * m
  BY SignBitIs
<1>2. a \in 0 .. p - 1 /\ b \in 0 .. p - 1
  BY DEF Below
<1>3. /\ Archives!SaveFloat(n, a) = Archives!BigEndian(n, u)
      /\ Archives!SaveFloat(n, b) = Archives!BigEndian(n, w)
  BY DEF Archives!SaveFloat
<1>4. FloatRank(n, a) = (IF a >= m THEN -(a - m) - 1 ELSE a) /\ FloatRank(n, b) = (IF b >= m THEN -(b - m) - 1 ELSE b)
  BY DEF FloatRank
<1> HIDE DEF m, p
<1>5. u \in 0 .. p - 1 /\ w \in 0 .. p - 1
  BY <1>1, <1>2
<1>6. /\ (u = w <=> a = b) /\ (u < w <=> FloatRank(n, a) < FloatRank(n, b))
      /\ FloatRank(n, a) \in Int /\ FloatRank(n, b) \in Int
  BY <1>1, <1>2, <1>4
<1> HIDE DEF u, w
<1>7. n \in 0 .. 8 /\ u \in Below(n) /\ w \in Below(n)
  BY <1>5 DEF Below, p
<1>8. Sorted(Archives!BigEndian(n, u), Archives!BigEndian(n, w), u = w, u < w)
  BY <1>7, DigitsSorted
<1> QED BY <1>3, <1>6, <1>8 DEF Sorted, InOrder

\* Whole milliseconds.
LEMMA MillisecondsAre ==
  ASSUME NEW v \in Int, -Archives!SignBit(8) <= v, v <= Archives!SignBit(8) - 1
  PROVE  /\ Archives!Milliseconds(v) \in Int
         /\ -Archives!SignBit(8) <= Archives!Milliseconds(v) /\ Archives!Milliseconds(v) <= Archives!SignBit(8) - 1
<1> DEFINE m == Archives!SignBit(8)
           d == TicksPerMs
<1>1. m \in Nat \ {0} /\ d \in Nat \ {0} /\ -m <= v /\ v <= m - 1
  BY SignBitIs, StoredAssumption DEF Archives!ArchiveAssumption
<1>2. Archives!Milliseconds(v) = IF v >= 0 THEN v \div d ELSE -((-v) \div d)
  BY DEF Archives!Milliseconds
<1> HIDE DEF m, d
<1>3. ASSUME NEW x \in Nat PROVE x \div d \in Nat /\ x \div d <= x
  <2> DEFINE q == x \div d
  <2>1. q \in Nat /\ x % d \in 0 .. d - 1 /\ x = d * q + (x % d)
    BY <1>1, Division
  <2> HIDE DEF q
  <2>2. q * 1 <= q * d
    BY <1>1, <2>1, Monotone
  <2> QED BY <1>1, <2>1, <2>2 DEF q
<1>4. CASE v >= 0
  <2>1. v \in Nat
    BY <1>4
  <2> DEFINE q == v \div d
  <2>2. q \in Nat /\ q <= v
    BY <2>1, <1>3
  <2>3. Archives!Milliseconds(v) = q
    BY <1>2, <1>4
  <2> HIDE DEF q
  <2> QED BY <1>1, <2>2, <2>3 DEF m
<1>5. CASE ~(v >= 0)
  <2>1. -v \in Nat
    BY <1>5
  <2> DEFINE q == (-v) \div d
  <2>2. q \in Nat /\ q <= -v
    BY <2>1, <1>3
  <2>3. Archives!Milliseconds(v) = -q
    BY <1>2, <1>5
  <2> HIDE DEF q
  <2> QED BY <1>1, <2>2, <2>3 DEF m
<1> QED BY <1>4, <1>5

\* Ticks are in the order of the milliseconds.
LEMMA TicksOrder ==
  ASSUME NEW x \in Int, NEW y \in Int
  PROVE  /\ x * TicksPerMs = y * TicksPerMs <=> x = y
         /\ x * TicksPerMs < y * TicksPerMs <=> x < y
         /\ x * TicksPerMs \in Int
<1> DEFINE d == TicksPerMs
<1>1. d \in Nat \ {0}
  BY StoredAssumption DEF Archives!ArchiveAssumption
<1> HIDE DEF d
<1>2. ASSUME NEW e \in Int, NEW f \in Int, e < f PROVE e * d < f * d
  <2>1. d * (e + 1) <= d * f
    BY <1>1, <1>2, Monotone
  <2>2. d * (e + 1) = e * d + d /\ d * f = f * d
    BY <1>1
  <2> QED BY <1>1, <2>1, <2>2
<1>3. x * d \in Int /\ y * d \in Int
  BY <1>1
<1>4. x < y => x * d < y * d
  BY <1>2
<1>5. y < x => y * d < x * d
  BY <1>2
<1> DEFINE e == x * d
           f == y * d
<1>6. x = y => e = f
  OBVIOUS
<1>7. e \in Int /\ f \in Int /\ (x < y => e < f) /\ (y < x => f < e)
  BY <1>3, <1>4, <1>5
<1> HIDE DEF e, f
<1>8. (e = f <=> x = y) /\ (e < f <=> x < y)
  BY <1>6, <1>7
<1> QED BY <1>8, <1>7 DEF e, f, d

\* Two values of a type and their strings are in the same order.
KeyFits(t, a, b, versions) ==
  Sorted(Archives!Save(t, a, versions), Archives!Save(t, b, versions),
         Archives!Kept(t, a) = Archives!Kept(t, b), Archives!Less(Archives!Rank(t, a), Archives!Rank(t, b)))

\* Equations and comparisons are true or false.
LEMMA Booleans == /\ \A x, y : (x = y) \in BOOLEAN
                  /\ \A s, r : Archives!Less(s, r) \in BOOLEAN
BY DEF Archives!Less, Archives!IsStrictPrefix

\* No type is wider than eight bytes.
LEMMA WidthIs == /\ \A t \in Archives!Unsigned \cup Archives!Signed \cup Archives!Floats \cup {"bool"} :
                      Archives!Width[t] \in 1 .. 8
                 /\ Archives!Width["bool"] = 1 /\ Archives!Width["int64"] = 8
BY DEF Archives!Unsigned, Archives!Signed, Archives!Floats, Archives!Width

\* Unsigned integers and bool.
LEMMA UnsignedFits ==
  ASSUME NEW t \in Archives!Unsigned \cup {"bool"}, NEW a \in Archives!Values(t), NEW b \in Archives!Values(t),
         NEW versions
  PROVE  KeyFits(t, a, b, versions)
<1> DEFINE n == Archives!Width[t]
<1>1. /\ \A v : /\ Archives!Save(t, v, versions) = Archives!BigEndian(n, v)
                /\ Archives!Kept(t, v) = v /\ Archives!Rank(t, v) = <<v>>
      /\ Archives!Values(t) = IF t = "bool" THEN {0, 1} ELSE Below(n)
  BY DEF Archives!Unsigned, Archives!Primitive, Archives!Save, Archives!SavePrimitive, Archives!Kept, Archives!Rank,
         Archives!Values, Archives!Times, Archives!Floats, Archives!Signed, Below
<1>2. n \in 0 .. 8 /\ (t = "bool" => n = 1)
  BY WidthIs
<1> HIDE DEF n
<1>3. {0, 1} \subseteq Below(1)
  BY PowerFacts DEF Below
<1>4. a \in Below(n) /\ b \in Below(n)
  BY <1>1, <1>2, <1>3
<1>5. Sorted(Archives!BigEndian(n, a), Archives!BigEndian(n, b), a = b, a < b)
  BY <1>2, <1>4, DigitsSorted
<1>6. Archives!Less(<<a>>, <<b>>) <=> a < b
  <2>1. a \in Int /\ b \in Int
    BY <1>4 DEF Below
  <2> QED BY <2>1, SingleLess
<1> QED BY <1>1, <1>5, <1>6 DEF KeyFits, Sorted, InOrder

\* Signed integers.
LEMMA SignedFits ==
  ASSUME NEW t \in Archives!Signed, NEW a \in Archives!Values(t), NEW b \in Archives!Values(t), NEW versions
  PROVE  KeyFits(t, a, b, versions)
<1> DEFINE n == Archives!Width[t]
<1>1. /\ \A v : /\ Archives!Save(t, v, versions) = Archives!SaveSigned(n, v)
                /\ Archives!Kept(t, v) = v /\ Archives!Rank(t, v) = <<v>>
      /\ Archives!Values(t) = -Archives!SignBit(n) .. Archives!SignBit(n) - 1
  BY DEF Archives!Unsigned, Archives!Primitive, Archives!Save, Archives!SavePrimitive, Archives!Kept, Archives!Rank,
         Archives!Values, Archives!Times, Archives!Floats, Archives!Signed
<1>2. n \in 1 .. 8
  BY WidthIs
<1> HIDE DEF n
<1>3. /\ a \in Int /\ -Archives!SignBit(n) <= a /\ a <= Archives!SignBit(n) - 1
      /\ b \in Int /\ -Archives!SignBit(n) <= b /\ b <= Archives!SignBit(n) - 1
  BY <1>1, <1>2, SignBitIs
<1>4. Sorted(Archives!SaveSigned(n, a), Archives!SaveSigned(n, b), a = b, a < b)
  BY <1>2, <1>3, SignedSorted
<1>5. Archives!Less(<<a>>, <<b>>) <=> a < b
  BY <1>3, SingleLess
<1> QED BY <1>1, <1>4, <1>5 DEF KeyFits, Sorted, InOrder

\* float and double.
LEMMA FloatFits ==
  ASSUME NEW t \in Archives!Floats, NEW a \in Archives!Values(t), NEW b \in Archives!Values(t), NEW versions
  PROVE  KeyFits(t, a, b, versions)
<1> DEFINE n == Archives!Width[t]
<1>1. /\ \A v : /\ Archives!Save(t, v, versions) = Archives!SaveFloat(n, v)
                /\ Archives!Kept(t, v) = v /\ Archives!Rank(t, v) = <<FloatRank(n, v)>>
      /\ Archives!Values(t) = Below(n)
  BY DEF Archives!Unsigned, Archives!Primitive, Archives!Save, Archives!SavePrimitive, Archives!Kept, Archives!Rank,
         Archives!Values, Archives!Times, Archives!Floats, Archives!Signed, Below, FloatRank
<1>2. n \in 1 .. 8
  BY WidthIs
<1> HIDE DEF n
<1>3. /\ Sorted(Archives!SaveFloat(n, a), Archives!SaveFloat(n, b), a = b, FloatRank(n, a) < FloatRank(n, b))
      /\ FloatRank(n, a) \in Int /\ FloatRank(n, b) \in Int
  BY <1>1, <1>2, FloatSorted
<1>5. Archives!Less(<<FloatRank(n, a)>>, <<FloatRank(n, b)>>) <=> FloatRank(n, a) < FloatRank(n, b)
  BY <1>3, SingleLess
<1> QED BY <1>1, <1>3, <1>5 DEF KeyFits, Sorted, InOrder

\* Strings and literals.
LEMMA TextFits ==
  ASSUME NEW t \in {"string", "literal"}, NEW a \in Archives!Values(t), NEW b \in Archives!Values(t), NEW versions
  PROVE  KeyFits(t, a, b, versions)
<1>1. /\ \A v : /\ Archives!Save(t, v, versions) = Archives!SaveText(v)
                /\ Archives!Kept(t, v) = v /\ Archives!Rank(t, v) = v
      /\ Archives!Values(t) = IF t = "string" THEN Seq(Archives!Bytes) ELSE {Archives!Literal}
  BY DEF Archives!Unsigned, Archives!Primitive, Archives!Save, Archives!SavePrimitive, Archives!Kept, Archives!Rank,
         Archives!Values, Archives!Times, Archives!Floats, Archives!Signed
<1>2. Archives!Literal \in Seq(Archives!Bytes)
  BY BytesAre DEF Archives!Literal
<1>3. a \in Seq(Archives!Bytes) /\ b \in Seq(Archives!Bytes)
  BY <1>1, <1>2
<1>4. Sorted(Archives!SaveText(a), Archives!SaveText(b), a = b, Archives!Less(a, b))
  BY <1>3, TextInOrder DEF Sorted
<1> QED BY <1>1, <1>4 DEF KeyFits

\* The version number is a string of bytes.
LEMMA VersionIs == ASSUME NEW versions PROVE Archives!Version(versions) \in Seq(Archives!Bytes)
<1>1. 4 \in 0 .. 8 /\ 0 \in Nat
  OBVIOUS
<1>2. Archives!BigEndian(4, 0) \in Seq(Archives!Bytes)
  BY <1>1, DigitsType
<1> QED BY <1>2 DEF Archives!Version

\* The uuids.
Uuids == [1 .. UuidSize -> Archives!Bytes]

\* Uuids are in the order of their bytes.
LEMMA UuidSorted ==
  ASSUME NEW a \in Uuids, NEW b \in Uuids
  PROVE  Sorted(a, b, a = b, Archives!Less(a, b))
<1>1. UuidSize \in Nat
  BY StoredAssumption DEF Archives!ArchiveAssumption
<1>2. a \in Seq(Archives!Bytes) /\ b \in Seq(Archives!Bytes) /\ Len(a) = UuidSize /\ Len(b) = UuidSize
  BY <1>1 DEF Uuids
<1>3. a \in Seq(Int) /\ b \in Seq(Int) /\ Len(a) = Len(b)
  BY <1>2, BytesInt
<1>4. InOrder(a, b, a = b, Archives!Less(a, b))
  BY <1>3, SameLengthInOrder
<1> QED BY <1>2, <1>4 DEF Sorted

\* A uuid, behind its version number.
LEMMA UuidFits ==
  ASSUME NEW a \in Archives!Values("uuid"), NEW b \in Archives!Values("uuid"), NEW versions
  PROVE  KeyFits("uuid", a, b, versions)
<1>1. /\ \A v : /\ Archives!Save("uuid", v, versions) = Archives!Version(versions) \o v
                /\ Archives!Kept("uuid", v) = v /\ Archives!Rank("uuid", v) = v
      /\ Archives!Values("uuid") = Uuids
  BY DEF Archives!Unsigned, Archives!Primitive, Archives!Save, Archives!Kept, Archives!Rank,
         Archives!Values, Archives!Times, Archives!Floats, Archives!Signed, Uuids
<1>2. Sorted(a, b, a = b, Archives!Less(a, b))
  BY <1>1, UuidSorted
<1> DEFINE p == Archives!Version(versions)
           e == a = b
           l == Archives!Less(a, b)
<1>3. p \in Seq(Archives!Bytes) /\ e \in BOOLEAN /\ l \in BOOLEAN
  BY VersionIs, Booleans
<1>4. Sorted(a, b, e, l)
  BY <1>2
<1> HIDE DEF p, e, l
<1>5. Sorted(p \o a, p \o b, e, l)
  BY <1>3, <1>4, SortedBehind
<1> QED BY <1>1, <1>5 DEF KeyFits, p, e, l

\* Times, behind one version number or two.
LEMMA TimeFits ==
  ASSUME NEW t \in Archives!Times, NEW a \in Archives!Values(t), NEW b \in Archives!Values(t), NEW versions
  PROVE  KeyFits(t, a, b, versions)
<1> DEFINE p == Archives!Version(versions)
           q == IF t = "ptime" THEN p ELSE <<>>
           x == Archives!Milliseconds(a)
           y == Archives!Milliseconds(b)
           s == Archives!SaveSigned(8, x)
           r == Archives!SaveSigned(8, y)
           e == Archives!Kept(t, a) = Archives!Kept(t, b)
           l == Archives!Less(Archives!Rank(t, a), Archives!Rank(t, b))
<1>1. /\ Archives!Save(t, a, versions) = q \o p \o s /\ Archives!Save(t, b, versions) = q \o p \o r
      /\ Archives!Kept(t, a) = x * TicksPerMs /\ Archives!Kept(t, b) = y * TicksPerMs
      /\ Archives!Rank(t, a) = <<Archives!Kept(t, a)>> /\ Archives!Rank(t, b) = <<Archives!Kept(t, b)>>
      /\ Archives!Values(t) = -Archives!SignBit(8) .. Archives!SignBit(8) - 1
  BY DEF Archives!Unsigned, Archives!Primitive, Archives!Save, Archives!SaveTime, Archives!Kept, Archives!Rank,
         Archives!Values, Archives!Times, Archives!Floats, Archives!Signed
<1>2. p \in Seq(Archives!Bytes) /\ q \in Seq(Archives!Bytes)
  BY VersionIs
<1>3. /\ a \in Int /\ -Archives!SignBit(8) <= a /\ a <= Archives!SignBit(8) - 1
      /\ b \in Int /\ -Archives!SignBit(8) <= b /\ b <= Archives!SignBit(8) - 1
  BY <1>1, SignBitIs
<1>4. /\ x \in Int /\ -Archives!SignBit(8) <= x /\ x <= Archives!SignBit(8) - 1
      /\ y \in Int /\ -Archives!SignBit(8) <= y /\ y <= Archives!SignBit(8) - 1
  BY <1>3, MillisecondsAre
<1>5. Sorted(s, r, x = y, x < y)
  <2> HIDE DEF x, y
  <2> QED BY <1>4, SignedSorted
<1>6. (e <=> x = y) /\ (l <=> x < y)
  <2> HIDE DEF x, y
  <2>1. /\ x * TicksPerMs = y * TicksPerMs <=> x = y
        /\ x * TicksPerMs < y * TicksPerMs <=> x < y
        /\ x * TicksPerMs \in Int /\ y * TicksPerMs \in Int
    BY <1>4, TicksOrder
  <2>2. Archives!Less(<<x * TicksPerMs>>, <<y * TicksPerMs>>) <=> x * TicksPerMs < y * TicksPerMs
    BY <2>1, SingleLess
  <2> QED BY <1>1, <2>1, <2>2
<1>7. e \in BOOLEAN /\ l \in BOOLEAN
  BY Booleans
<1> HIDE DEF e, l, p, q, s, r, x, y
<1>8. Sorted(s, r, e, l)
  BY <1>5, <1>6 DEF Sorted, InOrder
<1>9. s \in Seq(Archives!Bytes) /\ r \in Seq(Archives!Bytes)
  BY <1>8 DEF Sorted
<1>10. q \o p \in Seq(Archives!Bytes)
  BY <1>2
<1>11. Sorted((q \o p) \o s, (q \o p) \o r, e, l)
  BY <1>7, <1>8, <1>10, SortedBehind
<1> QED BY <1>1, <1>11 DEF KeyFits, e, l

\* A uuid is not nothing.
LEMMA NotNone == ASSUME NEW v \in Uuids PROVE v # Archives!None /\ v \in Seq(Archives!Bytes) /\ Len(v) > 0
<1>1. UuidSize \in Nat \ {0}
  BY StoredAssumption DEF Archives!ArchiveAssumption
<1>2. Len(v) = UuidSize /\ v \in Seq(Archives!Bytes)
  BY <1>1 DEF Uuids
<1>3. Len(Archives!None) = 0
  BY DEF Archives!None
<1> QED BY <1>1, <1>2, <1>3

\* A byte before a string.
LEMMA ByteJoin ==
  ASSUME NEW c \in Archives!Bytes, NEW p \in Seq(Archives!Bytes)
  PROVE  /\ <<c>> \o p \in Seq(Archives!Bytes) /\ Len(<<c>> \o p) = Len(p) + 1 /\ (<<c>> \o p)[1] = c
OBVIOUS

\* Putting behind is associative.
LEMMA JoinThree ==
  ASSUME NEW p \in Seq(Archives!Bytes), NEW q \in Seq(Archives!Bytes)
  PROVE  <<1>> \o p \o q = <<1>> \o (p \o q)
OBVIOUS

\* Nothing comes before something.
LEMMA NoneSorted ==
  ASSUME NEW p \in Seq(Archives!Bytes), NEW v \in Seq(Archives!Bytes)
  PROVE  /\ Sorted(<<0>>, <<1>> \o p, FALSE, TRUE) /\ Sorted(<<1>> \o p, <<0>>, FALSE, FALSE)
         /\ Archives!Less(<<>>, <<1>> \o v) /\ ~Archives!Less(<<1>> \o v, <<>>)
<1> DEFINE z == <<0>>
           s == <<1>> \o p
           r == <<1>> \o v
<1>1. z \in Seq(Archives!Bytes) /\ Len(z) = 1 /\ z[1] = 0
  BY BytesAre
<1>2. s \in Seq(Archives!Bytes) /\ Len(s) = Len(p) + 1 /\ s[1] = 1 /\ Len(p) \in Nat
  BY BytesAre, ByteJoin, LenNat
<1>3. r \in Seq(Archives!Bytes) /\ Len(r) = Len(v) + 1 /\ r[1] = 1 /\ Len(v) \in Nat
  BY BytesAre, ByteJoin, LenNat
<1>4. <<>> \in Seq(Archives!Bytes) /\ Len(<<>>) = 0
  OBVIOUS
<1> HIDE DEF z, s, r
<1>5. Parted(z, s, 1) /\ Parted(s, z, 1)
  BY <1>1, <1>2 DEF Parted
<1>6. Sorted(z, s, FALSE, TRUE) /\ Sorted(s, z, FALSE, FALSE)
  BY <1>1, <1>2, <1>5 DEF Sorted, InOrder
<1>7. Archives!IsStrictPrefix(<<>>, r)
  <2>1. <<>> # r
    BY <1>3, <1>4
  <2>2. SubSeq(<<>>, 1, Len(<<>>)) = <<>>
    BY <1>4
  <2>3. SubSeq(r, 1, Len(<<>>)) = <<>>
    <3>1. SubSeq(r, 1, 0) = <<>>
      BY <1>3
    <3> QED BY <3>1, <1>4
  <2> QED BY <1>3, <1>4, <2>1, <2>2, <2>3 DEF Archives!IsStrictPrefix, Archives!IsPrefix
<1>8. ~Archives!Less(r, <<>>)
  <2>1. ~Archives!IsStrictPrefix(r, <<>>)
    BY <1>3, <1>4 DEF Archives!IsStrictPrefix, Archives!IsPrefix
  <2>2. DOMAIN <<>> = {}
    OBVIOUS
  <2> QED BY <2>1, <2>2 DEF Archives!Less
<1> QED BY <1>6, <1>7, <1>8 DEF z, s, r, Archives!Less

\* An optional uuid: nothing comes first.
LEMMA OptionalFits ==
  ASSUME NEW a \in Archives!Values("optional"), NEW b \in Archives!Values("optional"), NEW versions
  PROVE  KeyFits("optional", a, b, versions)
<1> DEFINE p == Archives!Version(versions)
           nothing == Archives!None
           s == IF a = nothing THEN <<0>> ELSE <<1>> \o p \o a
           r == IF b = nothing THEN <<0>> ELSE <<1>> \o p \o b
           e == a = b
           l == Archives!Less(Archives!Rank("optional", a), Archives!Rank("optional", b))
<1>1. /\ Archives!Save("optional", a, versions) = p \o s /\ Archives!Save("optional", b, versions) = p \o r
      /\ Archives!Kept("optional", a) = a /\ Archives!Kept("optional", b) = b
      /\ Archives!Rank("optional", a) = (IF a = nothing THEN nothing ELSE <<1>> \o a)
      /\ Archives!Rank("optional", b) = (IF b = nothing THEN nothing ELSE <<1>> \o b)
      /\ Archives!Values("optional") = {nothing} \cup Uuids
  BY DEF Archives!Unsigned, Archives!Primitive, Archives!Save, Archives!SaveOptional, Archives!Kept, Archives!Rank,
         Archives!Values, Archives!Times, Archives!Floats, Archives!Signed, Uuids
<1>2. p \in Seq(Archives!Bytes) /\ e \in BOOLEAN /\ l \in BOOLEAN /\ nothing = <<>>
  BY VersionIs, Booleans DEF Archives!None
<1> HIDE DEF p, nothing
<1>3. Sorted(s, r, e, l)
  <2>1. CASE a = nothing /\ b = nothing
    <3>1. ~l
      <4>1. <<>> \in Seq(Int)
        OBVIOUS
      <4>2. l = Archives!Less(<<>>, <<>>)
        BY <1>1, <1>2, <2>1
      <4> HIDE DEF l
      <4> QED BY <4>1, <4>2, NotLess
    <3>2. s = <<0>> /\ r = <<0>> /\ e
      BY <2>1
    <3>3. <<0>> \in Seq(Archives!Bytes)
      BY BytesAre
    <3> HIDE DEF s, r, e, l
    <3> QED BY <3>1, <3>2, <3>3 DEF Sorted, InOrder
  <2>2. CASE a = nothing /\ b # nothing
    <3>1. b \in Uuids /\ ~e
      BY <1>1, <2>2
    <3>2. b \in Seq(Archives!Bytes)
      BY <3>1, NotNone
    <3>3. p \o b \in Seq(Archives!Bytes)
      BY <1>2, <3>2
    <3>6. <<1>> \o p \o b = <<1>> \o (p \o b)
      BY <1>2, <3>2, JoinThree
    <3>4. s = <<0>> /\ r = <<1>> \o (p \o b) /\ l = Archives!Less(<<>>, <<1>> \o b)
      BY <1>1, <1>2, <2>2, <3>6
    <3> HIDE DEF s, r, e, l
    <3>5. Sorted(s, r, FALSE, TRUE) /\ l
      BY <3>2, <3>3, <3>4, NoneSorted
    <3> QED BY <3>1, <3>5 DEF Sorted, InOrder
  <2>3. CASE a # nothing /\ b = nothing
    <3>1. a \in Uuids /\ ~e
      BY <1>1, <2>3
    <3>2. a \in Seq(Archives!Bytes)
      BY <3>1, NotNone
    <3>3. p \o a \in Seq(Archives!Bytes)
      BY <1>2, <3>2
    <3>6. <<1>> \o p \o a = <<1>> \o (p \o a)
      BY <1>2, <3>2, JoinThree
    <3>4. r = <<0>> /\ s = <<1>> \o (p \o a) /\ l = Archives!Less(<<1>> \o a, <<>>)
      BY <1>1, <1>2, <2>3, <3>6
    <3> HIDE DEF s, r, e, l
    <3>5. Sorted(s, r, FALSE, FALSE) /\ ~l
      BY <3>2, <3>3, <3>4, NoneSorted
    <3> QED BY <3>1, <3>5 DEF Sorted, InOrder
  <2>4. CASE a # nothing /\ b # nothing
    <3>1. a \in Uuids /\ b \in Uuids
      BY <1>1, <2>4
    <3> DEFINE m == Archives!Less(a, b)
               i == <<1>>
    <3>2. Sorted(a, b, e, m) /\ m \in BOOLEAN
      BY <3>1, UuidSorted, Booleans
    <3>3. i \in Seq(Archives!Bytes) /\ i \o p \in Seq(Archives!Bytes)
      BY <1>2, BytesAre
    <3>4. s = (i \o p) \o a /\ r = (i \o p) \o b /\ l = Archives!Less(i \o a, i \o b)
      BY <1>1, <2>4
    <3> HIDE DEF s, r, e, l, m, i
    <3>5. Sorted((i \o p) \o a, (i \o p) \o b, e, m) /\ Sorted(i \o a, i \o b, e, m)
      BY <1>2, <3>2, <3>3, SortedBehind
    <3>6. Archives!Less(i \o a, i \o b) <=> m
      <4>1. i \o a \in Seq(Int) /\ i \o b \in Seq(Int)
        BY <3>5, BytesInt DEF Sorted
      <4>2. InOrder(i \o a, i \o b, e, m)
        BY <3>5 DEF Sorted
      <4> DEFINE x == i \o a
                 y == i \o b
      <4>3. x \in Seq(Int) /\ y \in Seq(Int) /\ InOrder(x, y, e, m)
        BY <4>1, <4>2
      <4> HIDE DEF x, y
      <4>4. Archives!Less(x, y) <=> m
        BY <4>3, InOrderLess
      <4> QED BY <4>4 DEF x, y
    <3> QED BY <3>4, <3>5, <3>6 DEF Sorted, InOrder
  <2> QED BY <2>1, <2>2, <2>3, <2>4
<1> HIDE DEF s, r, e, l
<1>4. Sorted(p \o s, p \o r, e, l)
  BY <1>2, <1>3, SortedBehind
<1> QED BY <1>1, <1>4 DEF KeyFits, e, l

\* Values of every type are written in their order.
LEMMA ValueFits ==
  ASSUME NEW t \in Types, NEW a \in Samples[t], NEW b \in Samples[t], NEW versions
  PROVE  KeyFits(t, a, b, versions)
<1>1. /\ t \in Archives!Primitive \cup {"uuid", "optional"} \cup Archives!Times
      /\ a \in Archives!Values(t) /\ b \in Archives!Values(t)
  BY StoredAssumption DEF Archives!ArchiveAssumption
<1>2. \/ t \in Archives!Unsigned \cup {"bool"} \/ t \in Archives!Signed \/ t \in Archives!Floats
      \/ t \in {"string", "literal"} \/ t = "uuid" \/ t = "optional" \/ t \in Archives!Times
  BY <1>1 DEF Archives!Primitive
<1>3. CASE t \in Archives!Unsigned \cup {"bool"}
  BY <1>1, <1>3, UnsignedFits
<1>4. CASE t \in Archives!Signed
  BY <1>1, <1>4, SignedFits
<1>5. CASE t \in Archives!Floats
  BY <1>1, <1>5, FloatFits
<1>6. CASE t \in {"string", "literal"}
  BY <1>1, <1>6, TextFits
<1>7. CASE t = "uuid"
  BY <1>1, <1>7, UuidFits
<1>8. CASE t = "optional"
  BY <1>1, <1>8, OptionalFits
<1>9. CASE t \in Archives!Times
  BY <1>1, <1>9, TimeFits
<1> QED BY <1>2, <1>3, <1>4, <1>5, <1>6, <1>7, <1>8, <1>9

-----------------------------------------------------------------------------
\* Archive: the keys.

\* Archive's variables by their names.
types == v2
record == v3
str == v4

\* A value of any type.
AnyValue == UNION {Samples[t] : t \in Types}

\* The records have an item of each type.
Records == /\ types \in Seq(Types)
           /\ \A k \in 1 .. 2 : /\ record[k] \in Seq(AnyValue) /\ Len(record[k]) = Len(types)
                                /\ \A i \in 1 .. Len(types) : record[k][i] \in Samples[types[i]]

\* The invariant of the keys: the strings are in the order of the records.
KeysInv == Records /\ Sorted(str[1], str[2], Archives!SameRecord, Archives!RecordLess)

\* What is in order stays in order with what is put behind both.
LEMMA SortedJoin ==
  ASSUME NEW s, NEW r, NEW x, NEW y,
         NEW same \in BOOLEAN, NEW less \in BOOLEAN, NEW also \in BOOLEAN, NEW then \in BOOLEAN,
         Sorted(s, r, same, less), Sorted(x, y, also, then)
  PROVE  Sorted(s \o x, r \o y, same /\ also, less \/ (same /\ then))
<1>1. /\ s \in Seq(Archives!Bytes) /\ r \in Seq(Archives!Bytes) /\ InOrder(s, r, same, less)
      /\ x \in Seq(Archives!Bytes) /\ y \in Seq(Archives!Bytes) /\ InOrder(x, y, also, then)
  BY DEF Sorted
<1>2. s \in Seq(Int) /\ r \in Seq(Int) /\ x \in Seq(Int) /\ y \in Seq(Int)
  BY <1>1, BytesInt
<1>3. InOrder(s \o x, r \o y, same /\ also, less \/ (same /\ then))
  BY <1>1, <1>2, InOrderJoin
<1>4. s \o x \in Seq(Archives!Bytes) /\ r \o y \in Seq(Archives!Bytes)
  BY <1>1
<1> QED BY <1>3, <1>4 DEF Sorted

\* A sequence with an element more.
LEMMA AppendIs ==
  ASSUME NEW V, NEW s \in Seq(V), NEW e \in V
  PROVE  /\ Append(s, e) \in Seq(V) /\ Len(Append(s, e)) = Len(s) + 1 /\ Append(s, e)[Len(s) + 1] = e
         /\ \A i \in 1 .. Len(s) : Append(s, e)[i] = s[i]
OBVIOUS

\* Empty keys are equal.
LEMMA KeysBegin == ASSUME Archives!Init PROVE KeysInv
<1>1. /\ types = <<>> /\ record = [i \in 1 .. 2 |-> <<>>] /\ str = [i \in 1 .. 2 |-> <<>>]
  BY DEF Archives!Init, types, record, str
<1>2. types \in Seq(Types) /\ Len(types) = 0 /\ DOMAIN types = {}
  BY <1>1
<1>3. \A k \in 1 .. 2 : record[k] = <<>> /\ str[k] = <<>>
  BY <1>1
<1>4. <<>> \in Seq(AnyValue) /\ Len(<<>>) = 0 /\ <<>> \in Seq(Archives!Bytes)
  OBVIOUS
<1>5. Records
  <2>1. ASSUME NEW k \in 1 .. 2
        PROVE  /\ record[k] \in Seq(AnyValue) /\ Len(record[k]) = Len(types)
               /\ \A i \in 1 .. Len(types) : record[k][i] \in Samples[types[i]]
    <3>1. record[k] = <<>>
      BY <1>3
    <3>2. ASSUME NEW i \in 1 .. Len(types) PROVE FALSE
      BY <1>2
    <3> QED BY <1>2, <1>4, <3>1, <3>2
  <2> QED BY <1>2, <2>1 DEF Records
<1>6. Archives!SameRecord /\ ~Archives!RecordLess
  BY <1>2 DEF Archives!SameRecord, Archives!RecordLess, types
<1>7. str[1] = <<>> /\ str[2] = <<>>
  BY <1>3
<1> QED BY <1>4, <1>5, <1>6, <1>7 DEF KeysInv, Sorted, InOrder

\* An item more.
LEMMA RecordsGrow ==
  ASSUME Records, NEW t \in Types, NEW a \in Samples[t], NEW b \in Samples[t],
         types' = Append(types, t), record' = <<Append(record[1], a), Append(record[2], b)>>
  PROVE  /\ Records'
         /\ Archives!SameRecord' <=> Archives!SameRecord /\ Archives!Kept(t, a) = Archives!Kept(t, b)
         /\ Archives!RecordLess' <=> \/ Archives!RecordLess
                                     \/ Archives!SameRecord /\ Archives!Less(Archives!Rank(t, a), Archives!Rank(t, b))
<1> DEFINE n == Len(types)
           T == types
           U == types'
           p == record[1]
           q == record[2]
           x == Append(p, a)
           y == Append(q, b)
<1>1. /\ T \in Seq(Types) /\ p \in Seq(AnyValue) /\ q \in Seq(AnyValue) /\ Len(p) = n /\ Len(q) = n
      /\ \A i \in 1 .. n : p[i] \in Samples[T[i]] /\ q[i] \in Samples[T[i]]
  <2>1. 1 \in 1 .. 2 /\ 2 \in 1 .. 2
    OBVIOUS
  <2> QED BY <2>1 DEF Records
<1>2. a \in AnyValue /\ b \in AnyValue
  BY DEF AnyValue
<1>3. /\ U \in Seq(Types) /\ Len(U) = n + 1 /\ U[n + 1] = t /\ \A i \in 1 .. n : U[i] = T[i]
      /\ n \in Nat
  BY <1>1
<1> HIDE DEF n, T, U, p, q
<1>4. /\ x \in Seq(AnyValue) /\ Len(x) = n + 1 /\ x[n + 1] = a /\ \A i \in 1 .. n : x[i] = p[i]
  BY <1>1, <1>2, AppendIs
<1>5. /\ y \in Seq(AnyValue) /\ Len(y) = n + 1 /\ y[n + 1] = b /\ \A i \in 1 .. n : y[i] = q[i]
  BY <1>1, <1>2, AppendIs
<1>6. record' = <<x, y>> /\ record'[1] = x /\ record'[2] = y
  BY DEF p, q
<1>7. DOMAIN T = 1 .. n /\ DOMAIN U = 1 .. n + 1
  <2>1. DOMAIN T = 1 .. Len(T) /\ DOMAIN U = 1 .. Len(U) /\ Len(T) = n
    BY <1>1, <1>3 DEF n, T
  <2> QED BY <2>1, <1>3
<1> HIDE DEF x, y
<1>8. \A i \in 1 .. n + 1 : i \in 1 .. n \/ i = n + 1
  BY <1>3
<1>9. \A i \in 1 .. n : i \in 1 .. n + 1
  BY <1>3
<1>10. n + 1 \in 1 .. n + 1 /\ \A i \in 1 .. n + 1 : \A j \in 1 .. i - 1 : j \in 1 .. n
  BY <1>3
<1>11. \A i \in 1 .. n : \A j \in 1 .. i - 1 : j \in 1 .. n
  BY <1>3
<1>12. Records'
  <2>1. \A i \in 1 .. n + 1 : x[i] \in Samples[U[i]] /\ y[i] \in Samples[U[i]]
    BY <1>1, <1>3, <1>4, <1>5, <1>8
  <2>2. \A k \in 1 .. 2 : /\ record'[k] \in Seq(AnyValue) /\ Len(record'[k]) = n + 1
                          /\ \A i \in 1 .. n + 1 : record'[k][i] \in Samples[U[i]]
    <3>1. \A k \in 1 .. 2 : k = 1 \/ k = 2
      OBVIOUS
    <3> QED BY <1>4, <1>5, <1>6, <2>1, <3>1
  <2> QED BY <1>3, <2>2 DEF Records, AnyValue, U
<1> DEFINE Like(R, i, v, w) == Archives!Kept(R[i], v[i]) = Archives!Kept(R[i], w[i])
           Smaller(R, i, v, w) == Archives!Less(Archives!Rank(R[i], v[i]), Archives!Rank(R[i], w[i]))
<1>13. /\ Archives!SameRecord <=> \A i \in 1 .. n : Like(T, i, p, q)
       /\ Archives!RecordLess <=> \E i \in 1 .. n : Smaller(T, i, p, q) /\ \A j \in 1 .. i - 1 : Like(T, j, p, q)
  BY <1>7 DEF Archives!SameRecord, Archives!RecordLess, T, p, q, types, record
<1>14. /\ Archives!SameRecord' <=> \A i \in 1 .. n + 1 : Like(U, i, x, y)
       /\ Archives!RecordLess' <=> \E i \in 1 .. n + 1 : Smaller(U, i, x, y) /\ \A j \in 1 .. i - 1 : Like(U, j, x, y)
  <2>1. /\ Archives!SameRecord' <=> \A i \in DOMAIN U : Like(U, i, record'[1], record'[2])
        /\ Archives!RecordLess' <=> \E i \in DOMAIN U : /\ Smaller(U, i, record'[1], record'[2])
                                                        /\ \A j \in 1 .. i - 1 : Like(U, j, record'[1], record'[2])
    BY DEF Archives!SameRecord, Archives!RecordLess, U, types, record
  <2> QED BY <2>1, <1>6, <1>7
<1>15. /\ \A i \in 1 .. n : Like(U, i, x, y) <=> Like(T, i, p, q)
       /\ \A i \in 1 .. n : Smaller(U, i, x, y) <=> Smaller(T, i, p, q)
       /\ Like(U, n + 1, x, y) <=> Archives!Kept(t, a) = Archives!Kept(t, b)
       /\ Smaller(U, n + 1, x, y) <=> Archives!Less(Archives!Rank(t, a), Archives!Rank(t, b))
  BY <1>3, <1>4, <1>5
<1> DEFINE m == n + 1
<1>16. m - 1 = n
  BY <1>3
<1> HIDE DEF Like, Smaller, m
<1>17. Archives!SameRecord' <=> Archives!SameRecord /\ Like(U, m, x, y)
  BY <1>8, <1>9, <1>10, <1>13, <1>14, <1>15, Zenon DEF m
<1>18. Archives!RecordLess' <=> Archives!RecordLess \/ (Archives!SameRecord /\ Smaller(U, m, x, y))
  <2>1. ASSUME Archives!RecordLess PROVE Archives!RecordLess'
    BY <2>1, <1>9, <1>11, <1>13, <1>14, <1>15, Zenon
  <2>2. ASSUME Archives!SameRecord, Smaller(U, m, x, y) PROVE Archives!RecordLess'
    <3>1. \A j \in 1 .. m - 1 : Like(U, j, x, y)
      BY <2>2, <1>13, <1>15, <1>16
    <3> QED BY <2>2, <3>1, <1>10, <1>14 DEF m
  <2>3. ASSUME Archives!RecordLess', ~Archives!RecordLess PROVE Archives!SameRecord /\ Smaller(U, m, x, y)
    <3>1. PICK i \in 1 .. n + 1 : Smaller(U, i, x, y) /\ \A j \in 1 .. i - 1 : Like(U, j, x, y)
      BY <2>3, <1>14
    <3>2. i \notin 1 .. n
      BY <2>3, <3>1, <1>11, <1>13, <1>15, Zenon
    <3>3. i = m
      BY <3>2, <1>8 DEF m
    <3>4. \A j \in 1 .. n : Like(U, j, x, y)
      BY <3>1, <3>3, <1>16
    <3> QED BY <3>1, <3>3, <3>4, <1>13, <1>15
  <2> QED BY <2>1, <2>2, <2>3
<1>19. /\ Like(U, m, x, y) <=> Archives!Kept(t, a) = Archives!Kept(t, b)
       /\ Smaller(U, m, x, y) <=> Archives!Less(Archives!Rank(t, a), Archives!Rank(t, b))
  BY <1>15 DEF m
<1> QED BY <1>12, <1>17, <1>18, <1>19

\* An item more on both keeps their order; the rest leaves the strings alone.
LEMMA KeysStep == ASSUME KeysInv, Archives!Next PROVE KeysInv'
<1>1. CASE Archives!SaveNext
  <2>1. PICK t \in Types : \E a, b \in Samples[t] :
          /\ types' = Append(types, t)
          /\ record' = <<Append(record[1], a), Append(record[2], b)>>
          /\ str' = <<str[1] \o Archives!Save(t, a, v1), str[2] \o Archives!Save(t, b, v1)>>
    BY <1>1 DEF Archives!SaveNext, types, record, str
  <2>2. PICK a \in Samples[t], b \in Samples[t] :
          /\ types' = Append(types, t)
          /\ record' = <<Append(record[1], a), Append(record[2], b)>>
          /\ str' = <<str[1] \o Archives!Save(t, a, v1), str[2] \o Archives!Save(t, b, v1)>>
    BY <2>1
  <2> DEFINE s == str[1]
             r == str[2]
             x == Archives!Save(t, a, v1)
             y == Archives!Save(t, b, v1)
             same == Archives!SameRecord
             less == Archives!RecordLess
             also == Archives!Kept(t, a) = Archives!Kept(t, b)
             then == Archives!Less(Archives!Rank(t, a), Archives!Rank(t, b))
  <2>3. Sorted(x, y, also, then)
    BY ValueFits DEF KeyFits
  <2>4. Records /\ Sorted(s, r, same, less)
    BY DEF KeysInv
  <2>5. Records' /\ (Archives!SameRecord' <=> same /\ also) /\ (Archives!RecordLess' <=> less \/ (same /\ then))
    BY <2>2, <2>4, RecordsGrow
  <2>6. same \in BOOLEAN /\ less \in BOOLEAN /\ also \in BOOLEAN /\ then \in BOOLEAN
    BY Booleans DEF Archives!SameRecord, Archives!RecordLess
  <2>7. str'[1] = s \o x /\ str'[2] = r \o y
    BY <2>2
  <2> HIDE DEF s, r, x, y, same, less, also, then
  <2>8. Sorted(s \o x, r \o y, same /\ also, less \/ (same /\ then))
    BY <2>3, <2>4, <2>6, SortedJoin
  <2>9. Sorted(str'[1], str'[2], Archives!SameRecord', Archives!RecordLess')
    BY <2>5, <2>7, <2>8 DEF Sorted, InOrder
  <2> QED BY <2>5, <2>9 DEF KeysInv, Sorted, InOrder, Parted
<1>2. CASE Archives!Store \/ Archives!LoadNext \/ Archives!Done
  <2>1. UNCHANGED <<v2, v3, v4>>
    BY <1>2 DEF Archives!Store, Archives!LoadNext, Archives!Done
  <2> QED BY <2>1 DEF KeysInv, Records, types, record, str, Archives!SameRecord, Archives!RecordLess,
                      Sorted, InOrder, Parted, AnyValue
<1> QED BY <1>1, <1>2 DEF Archives!Next

\* And so does every step of the reader.
LEMMA KeysStutter == ASSUME KeysInv, UNCHANGED <<v2, v3, v4>> PROVE KeysInv'
BY DEF KeysInv, Records, types, record, str, Archives!SameRecord, Archives!RecordLess, Sorted, InOrder, Parted, AnyValue

\* While the archive is followed.
KeysKept == part = "archive" => KeysInv

\* KeysOrdered: for any types and values of them, any width of a byte, and any number of items, the
\* keys of two records are in the order of the records, and none is the beginning of another.
THEOREM KeysAreOrdered == StoredSpec => []KeysOrdered
<1>1. StoredInit => KeysKept
  BY KeysBegin DEF StoredInit, KeysKept
<1>2. KeysKept /\ [StoredNext]_storedVars => KeysKept'
  <2> SUFFICES ASSUME KeysKept, [StoredNext]_storedVars, part' = "archive" PROVE KeysInv'
    BY DEF KeysKept
  <2>1. CASE part = "archive" /\ Archives!Next
    BY <2>1, KeysStep DEF KeysKept
  <2>2. CASE UNCHANGED storedVars
    BY <2>2, KeysStutter DEF KeysKept, storedVars
  <2> QED BY <2>1, <2>2 DEF StoredNext
<1>3. KeysKept => KeysOrdered
  <2> SUFFICES ASSUME KeysInv PROVE Archives!KeysDistinct /\ Archives!KeysInOrder
    BY DEF KeysKept, KeysOrdered
  <2>1. str[1] \in Seq(Int) /\ str[2] \in Seq(Int)
    BY BytesInt DEF KeysInv, Sorted
  <2>2. InOrder(str[1], str[2], Archives!SameRecord, Archives!RecordLess)
    BY DEF KeysInv, Sorted
  <2>3. /\ Archives!Less(str[1], str[2]) <=> Archives!RecordLess
        /\ Archives!IsPrefix(str[1], str[2]) \/ Archives!IsPrefix(str[2], str[1]) => Archives!SameRecord
    BY <2>1, <2>2, InOrderLess
  <2> QED BY <2>3 DEF Archives!KeysDistinct, Archives!KeysInOrder, str
<1> QED BY <1>1, <1>2, <1>3, PTL DEF StoredSpec

-----------------------------------------------------------------------------
\* Archive: reading strings.

\* Every zero is followed by one.
Escaped(w) == \A j \in 1 .. Len(w) : w[j] = 0 => j < Len(w) /\ w[j + 1] = 1

\* It stays so when strings are joined.
LEMMA EscapedJoin ==
  ASSUME NEW w \in Seq(Archives!Bytes), NEW p \in Seq(Archives!Bytes), Escaped(w), Escaped(p)
  PROVE  Escaped(w \o p)
<1> DEFINE u == w \o p
           n == Len(w)
           m == Len(p)
<1>1. /\ n \in Nat /\ m \in Nat /\ Len(u) = n + m
      /\ \A i \in 1 .. n : u[i] = w[i]
      /\ \A i \in 1 .. m : u[n + i] = p[i]
  OBVIOUS
<1>2. /\ \A j \in 1 .. n : w[j] = 0 => j < n /\ w[j + 1] = 1
      /\ \A j \in 1 .. m : p[j] = 0 => j < m /\ p[j + 1] = 1
  BY DEF Escaped
<1> HIDE DEF u, n, m
<1>3. ASSUME NEW j \in 1 .. n + m, u[j] = 0 PROVE j < n + m /\ u[j + 1] = 1
  <2>1. CASE j <= n
    <3>1. j \in 1 .. n
      BY <1>1, <2>1
    <3>2. j < n /\ w[j + 1] = 1
      BY <1>1, <1>2, <1>3, <3>1
    <3>3. j + 1 \in 1 .. n
      BY <1>1, <3>1, <3>2
    <3> QED BY <1>1, <3>2, <3>3
  <2>2. CASE j > n
    <3> DEFINE i == j - n
    <3>1. i \in 1 .. m /\ j = n + i
      BY <1>1, <2>2
    <3> HIDE DEF i
    <3>2. i < m /\ p[i + 1] = 1
      BY <1>1, <1>2, <1>3, <3>1
    <3>3. i + 1 \in 1 .. m /\ n + (i + 1) = j + 1
      BY <1>1, <3>1, <3>2
    <3> QED BY <1>1, <3>1, <3>2, <3>3
  <2> QED BY <1>1, <2>1, <2>2
<1> QED BY <1>1, <1>3 DEF Escaped, u

\* What a string becomes before its end.
LEMMA MadeEscaped ==
  ASSUME NEW s \in Seq(Archives!Bytes), NEW made, Parts(made, Pieces(s), Archives!Bytes),
         NEW x \in 0 .. Len(s)
  PROVE  Escaped(made[x])
<1> DEFINE n == Len(s)
           V == Archives!Bytes
           p == Pieces(s)
<1>1. n \in Nat /\ Len(p) = n
  BY PiecesAre
<1>2. made[0] = <<>> /\ \A i \in 0 .. n : made[i] \in Seq(V)
  BY <1>1 DEF Parts
<1>3. \A i \in 1 .. n : made[i] = made[i - 1] \o p[i] /\ p[i] \in Seq(V)
  BY <1>1, PiecesAre DEF Parts
<1>4. ASSUME NEW i \in 1 .. n PROVE Escaped(p[i])
  <2>1. s[i] \in Archives!Bytes /\ p[i] = IF s[i] = 0 THEN <<0, 1>> ELSE <<s[i]>>
    BY PiecesAre
  <2> DEFINE c == s[i]
             q == p[i]
  <2>2. q = IF c = 0 THEN <<0, 1>> ELSE <<c>>
    BY <2>1
  <2> HIDE DEF c, q
  <2>3. CASE c = 0
    <3>1. Len(q) = 2 /\ q[1] = 0 /\ q[2] = 1
      BY <2>2, <2>3
    <3> QED BY <3>1 DEF Escaped, q
  <2>4. CASE c # 0
    <3>1. Len(q) = 1 /\ q[1] = c
      BY <2>2, <2>4
    <3> QED BY <2>4, <3>1 DEF Escaped, q
  <2> QED BY <2>3, <2>4
<1> HIDE DEF n, V, p
<1> DEFINE S == {i \in 0 .. n : Escaped(made[i])}
<1>5. 0 \in S
  BY <1>1, <1>2 DEF Escaped
<1>6. ASSUME NEW i \in 0 .. n - 1, i \in S PROVE i + 1 \in S
  <2> DEFINE j == i + 1
  <2>1. j \in 1 .. n /\ j - 1 = i /\ j \in 0 .. n /\ j - 1 \in 0 .. n
    BY <1>1
  <2> HIDE DEF j
  <2>2. made[j] = made[j - 1] \o p[j] /\ p[j] \in Seq(V) /\ made[j - 1] \in Seq(V)
    BY <1>2, <1>3, <2>1
  <2>3. Escaped(made[j - 1]) /\ Escaped(p[j])
    BY <1>4, <1>6, <2>1
  <2>4. Escaped(made[j])
    BY <2>2, <2>3, EscapedJoin DEF V
  <2> QED BY <2>1, <2>4 DEF j
<1> HIDE DEF S
<1>7. \A i \in 0 .. n : i \in S
  BY <1>1, <1>5, <1>6, InductUpTo
<1> QED BY <1>7 DEF S, n

\* A string's bytes without the codes behind zeros.
Bared(w) == [i \in DOMAIN w |-> IF i > 1 /\ w[i - 1] = 0 THEN <<>> ELSE <<w[i]>>]

\* What Unescape makes of each byte.
LEMMA BaredAre ==
  ASSUME NEW w \in Seq(Archives!Bytes)
  PROVE  /\ Len(Bared(w)) = Len(w) /\ Len(w) \in Nat /\ (Len(Bared(w)) = 0 => Bared(w) = <<>>)
         /\ \A i \in 1 .. Len(w) : /\ w[i] \in Archives!Bytes /\ Bared(w)[i] \in Seq(Archives!Bytes)
                                   /\ Bared(w)[i] = IF i > 1 /\ w[i - 1] = 0 THEN <<>> ELSE <<w[i]>>
<1> DEFINE n == Len(w)
<1>1. n \in Nat /\ DOMAIN w = 1 .. n /\ \A i \in 1 .. n : w[i] \in Archives!Bytes
  OBVIOUS
<1> HIDE DEF n
<1> DEFINE k == Bared(w)
<1>2. k = [i \in 1 .. n |-> IF i > 1 /\ w[i - 1] = 0 THEN <<>> ELSE <<w[i]>>]
  BY <1>1 DEF Bared
<1> HIDE DEF k
<1>3. Len(k) = n
  BY <1>1, <1>2
<1>4. ASSUME n = 0 PROVE k = <<>>
  <2>1. DOMAIN k = {}
    BY <1>2, <1>4
  <2> QED BY <1>2, <1>4
<1>5. ASSUME NEW i \in 1 .. n
      PROVE  k[i] \in Seq(Archives!Bytes) /\ k[i] = IF i > 1 /\ w[i - 1] = 0 THEN <<>> ELSE <<w[i]>>
  <2>1. k[i] = IF i > 1 /\ w[i - 1] = 0 THEN <<>> ELSE <<w[i]>>
    BY <1>2
  <2>2. <<w[i]>> \in Seq(Archives!Bytes) /\ <<>> \in Seq(Archives!Bytes)
    BY <1>1
  <2> QED BY <2>1, <2>2
<1> QED BY <1>1, <1>3, <1>4, <1>5 DEF k, n

\* Unescape undoes what SaveText did.
LEMMA MadeUnescaped ==
  ASSUME NEW s \in Seq(Archives!Bytes), NEW made, Parts(made, Pieces(s), Archives!Bytes)
  PROVE  Archives!Unescape(made[Len(s)]) = s
<1> DEFINE n == Len(s)
           V == Archives!Bytes
           p == Pieces(s)
           x == made[n]
           q == Bared(x)
           L(i) == Len(made[i])
<1>1. n \in Nat /\ Len(p) = n /\ \A i \in 1 .. n : s[i] \in V /\ p[i] = IF s[i] = 0 THEN <<0, 1>> ELSE <<s[i]>>
  BY PiecesAre
<1>2. made[0] = <<>> /\ \A i \in 0 .. n : made[i] \in Seq(V)
  BY <1>1 DEF Parts
<1>3. \A i \in 1 .. n : made[i] = made[i - 1] \o p[i] /\ p[i] \in Seq(V)
  BY <1>1, PiecesAre DEF Parts
<1>4. \A i \in 0 .. n : StartsWith(x, made[i]) /\ Escaped(made[i])
  BY MadeStarts, MadeEscaped
<1> HIDE DEF n, V, p
<1>5. x \in Seq(V)
  BY <1>1, <1>2
<1> HIDE DEF x
<1>6. /\ Len(q) = Len(x) /\ Len(x) \in Nat /\ (Len(q) = 0 => q = <<>>)
      /\ \A i \in 1 .. Len(x) : /\ q[i] \in Seq(V)
                                /\ q[i] = IF i > 1 /\ x[i - 1] = 0 THEN <<>> ELSE <<x[i]>>
  BY <1>5, BaredAre DEF V
<1>7. Archives!Unescape(x) = Archives!FlattenSeq(q)
  BY DEF Archives!Unescape, Bared
<1> HIDE DEF q
<1>8. PICK g : Parts(g, q, V) /\ Archives!FlattenSeq(q) = g[Len(q)]
  <2>1. Len(q) \in Nat /\ (\A i \in 1 .. Len(q) : q[i] \in Seq(V))
    BY <1>6
  <2> QED BY <1>6, <2>1, FlattenParts
<1>9. /\ g[0] = <<>> /\ \A i \in 0 .. Len(x) : g[i] \in Seq(V)
      /\ \A i \in 1 .. Len(x) : g[i] = g[i - 1] \o q[i]
  BY <1>6, <1>8 DEF Parts
<1> DEFINE Good(i) == Len(g[L(i)]) = i /\ \A k \in 1 .. i : g[L(i)][k] = s[k]
           S == {i \in 0 .. n : Good(i)}
<1>10. 0 \in S
  <2>1. L(0) = 0
    BY <1>2
  <2>2. Len(g[0]) = 0
    BY <1>9
  <2> HIDE DEF L
  <2> QED BY <1>1, <2>1, <2>2
<1>11. \A i \in 0 .. n : L(i) \in Nat /\ L(i) <= Len(x) /\ \A k \in 1 .. L(i) : x[k] = made[i][k]
  <2>1. ASSUME NEW i \in 0 .. n PROVE L(i) \in Nat
    BY <1>2, LenNat
  <2> QED BY <1>4, <2>1 DEF StartsWith
<1>12. ASSUME NEW i \in 0 .. n - 1, i \in S PROVE i + 1 \in S
  <2> DEFINE j == i + 1
             l == L(i)
             m == L(j)
             c == s[j]
  <2>1. j \in 1 .. n /\ j - 1 = i /\ j \in 0 .. n /\ i \in 0 .. n
    BY <1>1
  <2> HIDE DEF j
  <2>2. l \in Nat /\ m \in Nat /\ l <= Len(x) /\ m <= Len(x)
    BY <1>11, <2>1
  <2>3. c \in V /\ p[j] = (IF c = 0 THEN <<0, 1>> ELSE <<c>>) /\ made[j] = made[i] \o p[j]
    BY <1>1, <1>3, <2>1
  <2>4. made[i] \in Seq(V) /\ p[j] \in Seq(V)
    BY <1>2, <1>3, <2>1
  <2>5. /\ m = l + Len(p[j]) /\ \A k \in 1 .. Len(p[j]) : made[j][l + k] = p[j][k]
    <3> DEFINE u == made[i]
               w == p[j]
               o == u \o w
    <3>1. u \in Seq(V) /\ w \in Seq(V) /\ made[j] = o
      BY <2>3, <2>4
    <3> HIDE DEF u, w
    <3>2. Len(o) = Len(u) + Len(w) /\ \A k \in 1 .. Len(w) : o[Len(u) + k] = w[k]
      BY <3>1
    <3> HIDE DEF o
    <3> QED BY <3>1, <3>2 DEF u, w, L
  <2>6. \A k \in 1 .. m : x[k] = made[j][k]
    BY <1>11, <2>1
  <2>7. l > 0 => x[l] # 0
    <3>1. Escaped(made[i]) /\ \A k \in 1 .. l : x[k] = made[i][k]
      BY <1>4, <1>11, <2>1
    <3>2. ASSUME l > 0 PROVE made[i][l] # 0
      <4>1. l \in 1 .. Len(made[i]) /\ ~(l < Len(made[i]))
        BY <2>2, <3>2
      <4> QED BY <3>1, <4>1 DEF Escaped
    <3> HIDE DEF l
    <3>3. ASSUME l > 0 PROVE l \in 1 .. l
      BY <2>2, <3>3
    <3> QED BY <3>1, <3>2, <3>3
  <2>8. Len(g[l]) = i /\ \A k \in 1 .. i : g[l][k] = s[k]
    BY <1>12
  <2>9. Len(p[j]) \in 1 .. 2 /\ p[j][1] = c /\ (c # 0 => Len(p[j]) = 1)
    <3>1. Len(<<0, 1>>) = 2 /\ <<0, 1>>[1] = 0 /\ Len(<<c>>) = 1 /\ <<c>>[1] = c
      OBVIOUS
    <3> HIDE DEF c
    <3> QED BY <2>3, <3>1
  <2> HIDE DEF l, m, c, L, Good
  <2>10. l + 1 \in 1 .. Len(x) /\ l + 1 <= m /\ x[l + 1] = c /\ (l + 1) - 1 = l
    <3>1. l + 1 \in 1 .. m /\ 1 \in 1 .. Len(p[j])
      BY <2>2, <2>5, <2>9
    <3>2. x[l + 1] = p[j][1]
      BY <2>5, <2>6, <3>1
    <3> QED BY <2>2, <2>9, <3>1, <3>2
  <2>11. q[l + 1] = <<c>>
    <3>1. ~(l + 1 > 1 /\ x[(l + 1) - 1] = 0)
      BY <2>2, <2>7, <2>10
    <3> QED BY <1>6, <2>10, <3>1
  <2>12. g[l + 1] = g[l] \o <<c>>
    <3>1. g[l + 1] = g[(l + 1) - 1] \o q[l + 1]
      BY <1>9, <2>10
    <3> QED BY <2>10, <2>11, <3>1
  <2>13. g[m] = g[l + 1]
    <3>1. CASE m = l + 1
      BY <3>1
    <3>2. CASE m # l + 1
      <4>1. m = l + 2 /\ c = 0 /\ m - 1 = l + 1 /\ m > 1 /\ m \in 1 .. Len(x)
        <5> DEFINE e == Len(p[j])
                   d == Len(x)
        <5>1. e \in 1 .. 2 /\ (c # 0 => e = 1) /\ m = l + e /\ l \in Nat /\ m \in Nat /\ m <= d /\ d \in Nat
          BY <1>6, <2>2, <2>5, <2>9
        <5> HIDE DEF e, d
        <5>2. e = 2 /\ c = 0
          BY <3>2, <5>1
        <5>3. m = l + 2 /\ m - 1 = l + 1 /\ m > 1 /\ m \in 1 .. d
          BY <5>1, <5>2
        <5> QED BY <5>2, <5>3 DEF d
      <4>2. q[m] = <<>>
        <5>1. x[m - 1] = 0
          BY <2>10, <4>1
        <5> QED BY <1>6, <4>1, <5>1
      <4>3. g[m] = g[m - 1] \o q[m]
        BY <1>9, <4>1
      <4>4. g[m - 1] \in Seq(V)
        <5>1. m - 1 \in 0 .. Len(x)
          BY <1>6, <4>1
        <5> QED BY <1>9, <5>1
      <4>5. g[m - 1] \o <<>> = g[m - 1]
        BY <4>4
      <4> QED BY <4>1, <4>2, <4>3, <4>5
    <3> QED BY <3>1, <3>2
  <2>14. g[l] \in Seq(V)
    <3>1. l \in 0 .. Len(x)
      BY <1>6, <2>2
    <3> QED BY <1>9, <3>1
  <2> DEFINE h == g[l]
             o == h \o <<c>>
  <2>15. /\ Len(o) = Len(h) + 1 /\ o[Len(h) + 1] = c /\ \A k \in 1 .. Len(h) : o[k] = h[k]
    <3>1. h \in Seq(V) /\ c \in V
      BY <2>3, <2>14
    <3> HIDE DEF h
    <3> QED BY <3>1
  <2> HIDE DEF h, o
  <2>16. Len(h) = i /\ \A k \in 1 .. i : h[k] = s[k]
    BY <2>8 DEF h
  <2>17. Len(o) = j /\ \A k \in 1 .. j : o[k] = s[k]
    <3>1. Len(h) + 1 = j
      BY <2>1, <2>16
    <3>2. ASSUME NEW k \in 1 .. j PROVE o[k] = s[k]
      <4>1. CASE k = j
        BY <2>15, <3>1, <4>1 DEF c
      <4>2. CASE k # j
        <5>1. k \in 1 .. i
          BY <2>1, <4>2
        <5> QED BY <2>15, <2>16, <5>1
      <4> QED BY <4>1, <4>2
    <3> QED BY <2>15, <3>1, <3>2
  <2>18. g[L(j)] = o
    BY <2>12, <2>13 DEF o, h, m
  <2>19. Good(j)
    BY <2>17, <2>18 DEF Good
  <2> QED BY <2>1, <2>19 DEF j
<1> HIDE DEF Good
<1>13. \A i \in 0 .. n : i \in S
  <2> HIDE DEF S
  <2> QED BY <1>1, <1>10, <1>12, InductUpTo
<1>14. Good(n)
  <2>1. n \in 0 .. n
    BY <1>1
  <2> QED BY <1>13, <2>1
<1> DEFINE u == g[Len(x)]
<1>15. u \in Seq(V) /\ s \in Seq(V)
  <2>1. Len(x) \in 0 .. Len(x)
    BY <1>6
  <2> QED BY <1>9, <2>1 DEF V
<1>16. L(n) = Len(x)
  BY DEF x
<1>17. Len(u) = Len(s) /\ \A k \in 1 .. Len(s) : u[k] = s[k]
  BY <1>14, <1>16 DEF Good, n
<1> HIDE DEF u
<1>18. u = s
  BY <1>15, <1>17, SeqEqual
<1>19. Archives!Unescape(x) = u
  BY <1>6, <1>7, <1>8 DEF u
<1> QED BY <1>18, <1>19 DEF x, n

-----------------------------------------------------------------------------
\* Archive: reading values of each type.

\* A string with its end behind it is the string that is read.
LEMMA TextRead ==
  ASSUME NEW v \in Seq(Archives!Bytes), NEW s \in Seq(Archives!Bytes), StartsWith(s, Archives!SaveText(v))
  PROVE  Archives!LoadText(s) = Archives!Got(v, Len(Archives!SaveText(v)))
<1> DEFINE w == Archives!SaveText(v)
           V == Archives!Bytes
<1>1. PICK made : Parts(made, Pieces(v), V) /\ w = made[Len(v)] \o <<0, 0>>
  BY TextParts
<1> DEFINE d == made[Len(v)]
           m == Len(d)
           l == Len(s)
<1>2. d \in Seq(V) /\ Escaped(d) /\ Archives!Unescape(d) = v
  <2>1. Len(v) \in 0 .. Len(v)
    BY LenNat
  <2> QED BY <1>1, <2>1, MadeStarts, MadeEscaped, MadeUnescaped
<1>3. w = d \o <<0, 0>> /\ StartsWith(s, w) /\ s \in Seq(V) /\ l \in Nat
  BY <1>1, LenNat
<1> HIDE DEF w, d, V
<1>4. /\ m \in Nat /\ Len(w) = m + 2 /\ (\A k \in 1 .. m : w[k] = d[k])
      /\ w[m + 1] = 0 /\ w[m + 2] = 0
  <2>1. <<0, 0>> \in Seq(V)
    BY BytesAre DEF V
  <2> DEFINE z == <<0, 0>>
  <2>2. Len(z) = 2 /\ z[1] = 0 /\ z[2] = 0 /\ z \in Seq(V)
    BY <2>1
  <2> HIDE DEF z
  <2>3. w = d \o z
    BY <1>3 DEF z
  <2>4. m \in Nat /\ Len(w) = m + Len(z) /\ (\A k \in 1 .. m : w[k] = d[k]) /\ \A k \in 1 .. Len(z) : w[m + k] = z[k]
    <3>1. d \in Seq(V) /\ z \in Seq(V) /\ m = Len(d)
      BY <1>2, <2>2 DEF m
    <3> HIDE DEF m
    <3>2. Len(d) \in Nat /\ Len(d \o z) = Len(d) + Len(z)
      BY <3>1
    <3>3. \A k \in 1 .. Len(d) : (d \o z)[k] = d[k]
      BY <3>1
    <3>4. \A k \in 1 .. Len(z) : (d \o z)[Len(d) + k] = z[k]
      BY <3>1
    <3> QED BY <2>3, <3>1, <3>2, <3>3, <3>4
  <2> QED BY <2>2, <2>4
<1> HIDE DEF m, l
<1>5. m \in Nat /\ l \in Nat /\ m + 2 <= l /\ (\A k \in 1 .. m : s[k] = d[k]) /\ s[m + 1] = 0 /\ s[m + 2] = 0
  <2>1. Len(w) <= l /\ \A k \in 1 .. Len(w) : s[k] = w[k]
    BY <1>3 DEF StartsWith, l
  <2>2. m + 1 \in 1 .. Len(w) /\ m + 2 \in 1 .. Len(w) /\ \A k \in 1 .. m : k \in 1 .. Len(w)
    BY <1>4
  <2> QED BY <1>3, <1>4, <2>1, <2>2
<1>6. \A j \in 1 .. m : s[j] = 0 => s[j + 1] = 1
  <2>1. ASSUME NEW j \in 1 .. m, s[j] = 0 PROVE s[j + 1] = 1
    <3>1. j < m /\ d[j + 1] = 1
      BY <1>2, <1>5, <2>1 DEF Escaped, m
    <3>2. j + 1 \in 1 .. m
      BY <1>5, <3>1
    <3> QED BY <1>5, <3>1, <3>2
  <2> QED BY <2>1
<1> DEFINE Ends == {j \in 1 .. l - 1 : Archives!TextEnds(s, j) /\ s[j + 1] = 0}
           e == m + 1
<1>7. e \in Ends
  <2>1. e \in 1 .. l - 1 /\ s[e] = 0 /\ s[e + 1] = 0 /\ e - 1 = m
    BY <1>5
  <2>2. \A j \in 1 .. e - 1 : s[j] = 0 => s[j + 1] = 1
    BY <1>6, <2>1
  <2> HIDE DEF e
  <2>3. Archives!TextEnds(s, e)
    BY <2>1, <2>2 DEF Archives!TextEnds
  <2> QED BY <2>1, <2>3
<1>8. ASSUME NEW j \in Ends PROVE j = e
  <2>1. j \in 1 .. l - 1 /\ s[j] = 0 /\ s[j + 1] = 0 /\ \A i \in 1 .. j - 1 : s[i] = 0 => s[i + 1] = 1
    BY <1>8 DEF Archives!TextEnds
  <2>2. ~(j < e)
    <3>1. ASSUME j < e PROVE FALSE
      <4>1. j \in 1 .. m
        BY <1>5, <2>1, <3>1
      <4> QED BY <1>6, <2>1, <4>1
    <3> QED BY <3>1
  <2>3. ~(e < j)
    <3>1. ASSUME e < j PROVE FALSE
      <4>1. e \in 1 .. j - 1 /\ s[e] = 0 /\ s[e + 1] = 0
        BY <1>5, <2>1, <3>1
      <4> QED BY <2>1, <4>1
    <3> QED BY <3>1
  <2> QED BY <1>5, <2>1, <2>2, <2>3
<1>9. SubSeq(s, 1, e - 1) = d
  <2> DEFINE u == SubSeq(s, 1, m)
  <2>1. m \in 0 .. Len(s)
    BY <1>5 DEF l
  <2>2. u \in Seq(V) /\ Len(u) = m /\ \A k \in 1 .. m : u[k] = s[k]
    BY <1>3, <2>1
  <2> HIDE DEF u
  <2>3. Len(u) = Len(d) /\ \A k \in 1 .. Len(d) : u[k] = d[k]
    BY <1>5, <2>2 DEF m
  <2>4. u = d
    BY <1>2, <2>2, <2>3, SeqEqual
  <2>5. e - 1 = m
    BY <1>5
  <2> QED BY <2>4, <2>5 DEF u
<1>10. e + 1 = Len(w)
  BY <1>4
<1> HIDE DEF e
<1>11. Ends = {e}
  BY <1>7, <1>8
<1>12. Archives!LoadText(s) = {[value |-> Archives!Unescape(SubSeq(s, 1, i - 1)), size |-> i + 1] : i \in Ends}
  BY DEF Archives!LoadText, l
<1> HIDE DEF Ends
<1>13. Archives!LoadText(s) = {[value |-> v, size |-> Len(w)]}
  BY <1>2, <1>9, <1>10, <1>11, <1>12
<1> QED BY <1>13 DEF Archives!Got, w

\* A value and its string: whatever follows, the value is read and as many bytes.
ReadsBack(t, v, versions) ==
  \A s \in Seq(Archives!Bytes) : StartsWith(s, Archives!Save(t, v, versions)) =>
     Archives!Load(t, s, versions) = Archives!Got(Archives!Kept(t, v), Len(Archives!Save(t, v, versions)))

\* An integer at the front.
LEMMA DigitsRead ==
  ASSUME NEW n \in 0 .. 8, NEW u \in Below(n), NEW s \in Seq(Archives!Bytes), StartsWith(s, Archives!BigEndian(n, u))
  PROVE  Archives!Number(s, n) = u /\ ~(Len(s) < n) /\ Len(Archives!BigEndian(n, u)) = n
<1> DEFINE d == Archives!BigEndian(n, u)
           l == Len(s)
<1>1. Len(d) = n /\ Len(d) <= l /\ (\A k \in 1 .. Len(d) : s[k] = d[k]) /\ l \in Nat
  <2>1. u \in Nat
    BY PowerFacts DEF Below
  <2>2. Len(d) = n
    BY <2>1, DigitsType
  <2> QED BY <2>2, LenNat DEF StartsWith
<1> HIDE DEF d, l
<1>2. \A i \in 1 .. n : s[i] = d[i]
  BY <1>1
<1>3. Archives!Number(s, n) = u
  BY <1>2, NumberRead DEF d
<1> QED BY <1>1, <1>3 DEF d, l

\* Unsigned integers and bool are read back.
LEMMA UnsignedRead ==
  ASSUME NEW t \in Archives!Unsigned \cup {"bool"}, NEW v \in Archives!Values(t), NEW versions
  PROVE  ReadsBack(t, v, versions)
<1> DEFINE n == Archives!Width[t]
<1>1. /\ Archives!Save(t, v, versions) = Archives!BigEndian(n, v) /\ Archives!Kept(t, v) = v
      /\ Archives!Values(t) = IF t = "bool" THEN {0, 1} ELSE Below(n)
  BY DEF Archives!Unsigned, Archives!Primitive, Archives!Save, Archives!SavePrimitive, Archives!Kept,
         Archives!Values, Archives!Times, Archives!Floats, Archives!Signed, Below
<1>2. n \in 0 .. 8 /\ (t = "bool" => n = 1)
  BY WidthIs
<1>3. ASSUME NEW s, ~(Len(s) < n), Archives!Number(s, n) = v
      PROVE  Archives!Load(t, s, versions) = Archives!Got(v, n)
  BY <1>1, <1>3 DEF Archives!Unsigned, Archives!Primitive, Archives!Load, Archives!LoadPrimitive,
         Archives!Times, Archives!Floats, Archives!Signed
<1> HIDE DEF n
<1>4. {0, 1} \subseteq Below(1)
  BY PowerFacts DEF Below
<1>5. v \in Below(n)
  BY <1>1, <1>2, <1>4
<1> QED BY <1>1, <1>2, <1>3, <1>5, DigitsRead DEF ReadsBack

\* A signed integer with its sign bit turned is in the range of the unsigned ones.
LEMMA SignedAre ==
  ASSUME NEW n \in 1 .. 8, NEW v \in Int, -Archives!SignBit(n) <= v, v <= Archives!SignBit(n) - 1
  PROVE  /\ (v + Archives!SignBit(n)) % Archives!Power[n] = v + Archives!SignBit(n)
         /\ v + Archives!SignBit(n) \in Below(n)
<1> DEFINE m == Archives!SignBit(n)
           p == Archives!Power[n]
<1>1. m \in Nat \ {0} /\ p = 2 * m
  BY SignBitIs
<1>2. -m <= v /\ v <= m - 1
  OBVIOUS
<1> HIDE DEF m, p
<1>3. v + m \in 0 .. p - 1 /\ p \in Nat \ {0}
  BY <1>1, <1>2
<1> DEFINE x == v + m
<1>4. x \in 0 .. p - 1
  BY <1>3
<1> HIDE DEF x
<1>5. x % p = x
  BY <1>3, <1>4
<1> QED BY <1>4, <1>5 DEF Below, x, m, p

\* Signed integers are read back.
LEMMA SignedRead ==
  ASSUME NEW t \in Archives!Signed, NEW v \in Archives!Values(t), NEW versions
  PROVE  ReadsBack(t, v, versions)
<1> DEFINE n == Archives!Width[t]
           m == Archives!SignBit(n)
           u == v + m
<1>1. /\ Archives!Save(t, v, versions) = Archives!BigEndian(n, (v + m) % Archives!Power[n]) /\ Archives!Kept(t, v) = v
      /\ Archives!Values(t) = -m .. m - 1
  BY DEF Archives!Unsigned, Archives!Primitive, Archives!Save, Archives!SavePrimitive, Archives!SaveSigned,
         Archives!Kept,
         Archives!Values, Archives!Times, Archives!Floats, Archives!Signed
<1>2. n \in 1 .. 8 /\ n \in 0 .. 8
  BY WidthIs
<1>3. ASSUME NEW s, ~(Len(s) < n), Archives!Number(s, n) = u
      PROVE  Archives!Load(t, s, versions) = Archives!Got(u - m, n)
  <2> HIDE DEF u
  <2> QED BY <1>3 DEF Archives!Unsigned, Archives!Primitive, Archives!Load, Archives!LoadPrimitive, Archives!LoadSigned,
         Archives!Times, Archives!Floats, Archives!Signed
<1> HIDE DEF n
<1>4. m \in Nat \ {0}
  BY <1>2, SignBitIs
<1>5. v \in Int /\ -m <= v /\ v <= m - 1
  BY <1>1, <1>4
<1>6. (v + m) % Archives!Power[n] = u /\ u \in Below(n)
  BY <1>2, <1>5, SignedAre
<1>7. u - m = v
  BY <1>4, <1>5
<1> HIDE DEF m, u
<1> QED BY <1>1, <1>2, <1>3, <1>6, <1>7, DigitsRead DEF ReadsBack

\* Floating point numbers are read back, to the bit.
LEMMA FloatRead ==
  ASSUME NEW t \in Archives!Floats, NEW v \in Archives!Values(t), NEW versions
  PROVE  ReadsBack(t, v, versions)
<1> DEFINE n == Archives!Width[t]
           m == Archives!SignBit(n)
           p == Archives!Power[n]
           u == IF v >= m THEN p - 1 - v ELSE v + m
<1>1. /\ Archives!Save(t, v, versions) = Archives!BigEndian(n, u) /\ Archives!Kept(t, v) = v
      /\ Archives!Values(t) = 0 .. p - 1
  BY DEF Archives!Unsigned, Archives!Primitive, Archives!Save, Archives!SavePrimitive, Archives!SaveFloat,
         Archives!Kept,
         Archives!Values, Archives!Times, Archives!Floats, Archives!Signed
<1>2. n \in 1 .. 8 /\ n \in 0 .. 8
  BY WidthIs
<1>3. ASSUME NEW s, ~(Len(s) < n), Archives!Number(s, n) = u
      PROVE  Archives!Load(t, s, versions) = Archives!Got(Archives!LoadFloat(n, u), n)
  <2> HIDE DEF u
  <2> QED BY <1>3 DEF Archives!Unsigned, Archives!Primitive, Archives!Load, Archives!LoadPrimitive,
         Archives!Times, Archives!Floats, Archives!Signed
<1>4. Archives!LoadFloat(n, u) = IF u >= m THEN u - m ELSE p - 1 - u
  BY DEF Archives!LoadFloat
<1> HIDE DEF n
<1>5. m \in Nat \ {0} /\ p = 2 * m
  BY <1>2, SignBitIs
<1> HIDE DEF m, p
<1>6. v \in 0 .. p - 1
  BY <1>1
<1>7. u \in 0 .. p - 1 /\ Archives!LoadFloat(n, u) = v
  BY <1>4, <1>5, <1>6
<1>8. u \in Below(n)
  BY <1>7 DEF Below, p
<1> HIDE DEF u
<1> QED BY <1>1, <1>2, <1>3, <1>7, <1>8, DigitsRead DEF ReadsBack

\* Strings are read back, and a literal is found to be itself.
LEMMA StringsRead ==
  ASSUME NEW t \in {"string", "literal"}, NEW v \in Archives!Values(t), NEW versions
  PROVE  ReadsBack(t, v, versions)
<1>1. /\ Archives!Save(t, v, versions) = Archives!SaveText(v) /\ Archives!Kept(t, v) = v
      /\ Archives!Values(t) = IF t = "string" THEN Seq(Archives!Bytes) ELSE {Archives!Literal}
      /\ \A s : Archives!Load(t, s, versions) =
                  IF t = "string" THEN Archives!LoadText(s)
                  ELSE {got \in Archives!LoadText(s) : got.value = Archives!Literal}
  BY DEF Archives!Unsigned, Archives!Primitive, Archives!Save, Archives!SavePrimitive, Archives!Kept,
         Archives!Values, Archives!Times, Archives!Floats, Archives!Signed, Archives!Load, Archives!LoadPrimitive
<1>2. Archives!Literal \in Seq(Archives!Bytes)
  BY BytesAre DEF Archives!Literal
<1>3. v \in Seq(Archives!Bytes) /\ (t = "string" \/ v = Archives!Literal)
  BY <1>1, <1>2
<1>4. ASSUME NEW s \in Seq(Archives!Bytes), StartsWith(s, Archives!SaveText(v))
      PROVE  Archives!Load(t, s, versions) = Archives!Got(v, Len(Archives!SaveText(v)))
  <2>1. Archives!LoadText(s) = Archives!Got(v, Len(Archives!SaveText(v)))
    BY <1>3, <1>4, TextRead
  <2>2. CASE t = "string"
    BY <1>1, <2>1, <2>2
  <2>3. CASE t # "string"
    <3> DEFINE g == [value |-> v, size |-> Len(Archives!SaveText(v))]
    <3>1. g.value = Archives!Literal
      BY <1>3, <2>3
    <3> HIDE DEF g
    <3>2. Archives!Got(v, Len(Archives!SaveText(v))) = {g}
      BY DEF Archives!Got, g
    <3> QED BY <1>1, <2>1, <2>3, <3>1, <3>2
  <2> QED BY <2>2, <2>3
<1> QED BY <1>1, <1>4 DEF ReadsBack

\* What is behind a beginning starts with what was put behind it.
LEMMA Rest ==
  ASSUME NEW V, NEW w \in Seq(V), NEW p \in Seq(V), NEW q \in Seq(V), StartsWith(w, p \o q)
  PROVE  /\ SubSeq(w, Len(p) + 1, Len(w)) \in Seq(V)
         /\ StartsWith(SubSeq(w, Len(p) + 1, Len(w)), q)
         /\ Len(p) + Len(q) <= Len(w)
         /\ StartsWith(w, p)
<1> DEFINE n == Len(p)
           m == Len(q)
           l == Len(w)
           o == p \o q
           u == SubSeq(w, n + 1, l)
<1>1. n \in Nat /\ m \in Nat /\ l \in Nat
  BY LenNat
<1>2. Len(o) = n + m
  OBVIOUS
<1>3. \A k \in 1 .. n : o[k] = p[k]
  OBVIOUS
<1>4. \A k \in 1 .. m : o[n + k] = q[k]
  OBVIOUS
<1> HIDE DEF n, m, o
<1>5. n + m <= l /\ \A k \in 1 .. n + m : w[k] = o[k]
  BY <1>2 DEF StartsWith, o
<1>6. u \in Seq(V) /\ Len(u) = l - n /\ \A k \in 1 .. l - n : u[k] = w[n + k]
  <2>1. n + 1 \in 1 .. l + 1 /\ l \in 0 .. l
    BY <1>1, <1>5
  <2> DEFINE a == n + 1
  <2>2. a \in 1 .. l + 1 /\ a - 1 = n
    BY <1>1, <2>1
  <2> HIDE DEF a
  <2>3. SubSeq(w, a, l) \in Seq(V)
    <3>1. \A k \in a .. l : w[k] \in V
      BY <2>2
    <3> QED BY <2>2, <3>1
  <2>4. Len(SubSeq(w, a, l)) = l - a + 1 /\ \A k \in 1 .. l - a + 1 : SubSeq(w, a, l)[k] = w[a + k - 1]
    BY <2>2
  <2>5. l - a + 1 = l - n /\ \A k \in 1 .. l - n : a + k - 1 = n + k
    BY <1>1, <2>2
  <2> QED BY <2>3, <2>4, <2>5 DEF a
<1> HIDE DEF l, u
<1>7. ASSUME NEW k \in 1 .. m PROVE u[k] = q[k]
  <2>1. k \in 1 .. l - n /\ n + k \in 1 .. n + m
    BY <1>1, <1>5
  <2> QED BY <1>4, <1>5, <1>6, <2>1
<1>8. m <= Len(u)
  BY <1>1, <1>5, <1>6
<1>9. \A k \in 1 .. n : w[k] = p[k]
  <2>1. \A k \in 1 .. n : k \in 1 .. n + m
    BY <1>1
  <2> QED BY <1>3, <1>5, <2>1
<1>10. n <= l
  BY <1>1, <1>5
<1> QED BY <1>5, <1>6, <1>7, <1>8, <1>9, <1>10 DEF StartsWith, n, m, l, u

\* The bytes behind a beginning.
LEMMA BytesRead ==
  ASSUME NEW v \in Uuids, NEW p \in Seq(Archives!Bytes), NEW s \in Seq(Archives!Bytes), StartsWith(s, p \o v)
  PROVE  Archives!LoadBytes(s, Len(p)) = Archives!Got(v, Len(p \o v))
<1> DEFINE V == Archives!Bytes
           n == Len(p)
           z == UuidSize
           l == Len(s)
           o == p \o v
           u == SubSeq(s, n + 1, n + z)
<1>1. z \in Nat \ {0} /\ v \in Seq(V) /\ Len(v) = z
  BY StoredAssumption DEF Archives!ArchiveAssumption, Uuids
<1>2. n \in Nat /\ l \in Nat
  BY LenNat
<1>3. Len(o) = n + z /\ \A k \in 1 .. z : o[n + k] = v[k]
  <2>1. v \in Seq(V) /\ p \in Seq(V)
    BY <1>1
  <2>2. Len(o) = n + Len(v) /\ \A k \in 1 .. Len(v) : o[n + k] = v[k]
    BY <2>1
  <2> QED BY <1>1, <2>2
<1> HIDE DEF z, n, o
<1>4. n + z <= l /\ \A k \in 1 .. n + z : s[k] = o[k]
  BY <1>3 DEF StartsWith, o
<1>5. u \in Seq(V) /\ Len(u) = z /\ \A k \in 1 .. z : u[k] = s[n + k]
  <2> DEFINE a == n + 1
             b == n + z
  <2>1. a \in 1 .. l + 1 /\ b \in 0 .. l /\ a - 1 = n /\ a <= b + 1 /\ b - a + 1 = z
    BY <1>1, <1>2, <1>4
  <2>2. \A k \in 1 .. z : a + k - 1 = n + k
    BY <1>1, <1>2
  <2> HIDE DEF a, b
  <2>3. SubSeq(s, a, b) \in Seq(V)
    <3>1. \A k \in a .. b : s[k] \in V
      BY <2>1
    <3> QED BY <2>1, <3>1
  <2>4. Len(SubSeq(s, a, b)) = b - a + 1 /\ \A k \in 1 .. b - a + 1 : SubSeq(s, a, b)[k] = s[a + k - 1]
    BY <2>1
  <2> QED BY <2>1, <2>2, <2>3, <2>4 DEF a, b
<1> HIDE DEF l, u, V
<1>6. \A k \in 1 .. z : u[k] = v[k]
  <2>1. \A k \in 1 .. z : n + k \in 1 .. n + z
    BY <1>1, <1>2
  <2> QED BY <1>3, <1>4, <1>5, <2>1
<1>7. u = v
  BY <1>1, <1>5, <1>6, SeqEqual
<1>8. ~(l < n + z)
  BY <1>1, <1>2, <1>4
<1>9. Archives!LoadBytes(s, n) = Archives!Got(u, n + z)
  BY <1>8 DEF Archives!LoadBytes, l, u, z
<1> QED BY <1>3, <1>7, <1>9 DEF n, o

\* Uuids are read back.
LEMMA UuidRead ==
  ASSUME NEW v \in Archives!Values("uuid"), NEW versions PROVE ReadsBack("uuid", v, versions)
<1> DEFINE p == Archives!Version(versions)
<1>1. /\ Archives!Save("uuid", v, versions) = p \o v
      /\ Archives!Kept("uuid", v) = v /\ Archives!Values("uuid") = Uuids
      /\ \A s : Archives!Load("uuid", s, versions) = Archives!LoadBytes(s, Len(p))
  BY DEF Archives!Unsigned, Archives!Primitive, Archives!Save, Archives!Kept, Archives!Load,
         Archives!Values, Archives!Times, Archives!Floats, Archives!Signed, Uuids
<1>2. p \in Seq(Archives!Bytes) /\ v \in Uuids
  BY <1>1, VersionIs
<1> HIDE DEF p
<1> SUFFICES ASSUME NEW s \in Seq(Archives!Bytes), StartsWith(s, p \o v)
             PROVE  Archives!LoadBytes(s, Len(p)) = Archives!Got(v, Len(p \o v))
  BY <1>1 DEF ReadsBack
<1> QED BY <1>2, BytesRead

\* Optional uuids are read back, nothing as nothing.
LEMMA OptionalRead ==
  ASSUME NEW v \in Archives!Values("optional"), NEW versions PROVE ReadsBack("optional", v, versions)
<1> DEFINE p == Archives!Version(versions)
           n == Len(p)
           V == Archives!Bytes
           nothing == Archives!None
<1>1. /\ Archives!Save("optional", v, versions) = p \o (IF v = nothing THEN <<0>> ELSE <<1>> \o p \o v)
      /\ Archives!Kept("optional", v) = v /\ Archives!Values("optional") = {nothing} \cup Uuids
      /\ \A s : Archives!Load("optional", s, versions) =
           IF Len(s) <= n \/ s[n + 1] \notin {0, 1} THEN {}
           ELSE IF s[n + 1] = 0 THEN Archives!Got(nothing, n + 1) ELSE Archives!LoadBytes(s, 2 * n + 1)
  BY DEF Archives!Unsigned, Archives!Primitive, Archives!Save, Archives!SaveOptional, Archives!Kept,
         Archives!Load, Archives!LoadOptional, Archives!Values, Archives!Times, Archives!Floats, Archives!Signed, Uuids
<1>2. p \in Seq(V) /\ n \in Nat
  BY VersionIs
<1> HIDE DEF p, nothing
<1>3. <<0>> \in Seq(V) /\ <<1>> \in Seq(V)
  BY BytesAre
<1>4. ASSUME NEW s \in Seq(V), NEW c \in {0, 1}, StartsWith(s, p \o <<c>>)
      PROVE  ~(Len(s) <= n) /\ s[n + 1] = c /\ Len(p \o <<c>>) = n + 1
  <2> DEFINE z == <<c>>
             o == p \o z
  <2>1. z \in Seq(V) /\ Len(z) = 1 /\ z[1] = c
    BY BytesAre
  <2> HIDE DEF z
  <2>2. Len(o) = n + 1 /\ o[n + 1] = c
    <3>4. p \in Seq(V) /\ z \in Seq(V)
      BY <1>2, <2>1
    <3>1. Len(o) = n + Len(z) /\ \A k \in 1 .. Len(z) : o[n + k] = z[k]
      <4> HIDE DEF V
      <4>1. Len(p \o z) = Len(p) + Len(z)
        BY <3>4
      <4>2. \A k \in 1 .. Len(z) : (p \o z)[Len(p) + k] = z[k]
        BY <3>4
      <4> QED BY <4>1, <4>2
    <3>2. 1 \in 1 .. Len(z)
      BY <2>1
    <3> QED BY <2>1, <3>1, <3>2
  <2> HIDE DEF n
  <2>3. Len(o) <= Len(s) /\ \A k \in 1 .. Len(o) : s[k] = o[k]
    BY <1>4 DEF StartsWith, z
  <2>4. Len(s) \in Nat /\ n + 1 \in 1 .. Len(o)
    BY <1>2, <2>2, LenNat
  <2> QED BY <1>2, <2>2, <2>3, <2>4 DEF z
<1> SUFFICES ASSUME NEW s \in Seq(V), StartsWith(s, Archives!Save("optional", v, versions))
             PROVE  Archives!Load("optional", s, versions) =
                      Archives!Got(v, Len(Archives!Save("optional", v, versions)))
  BY <1>1 DEF ReadsBack
<1>5. CASE v = nothing
  <2>1. Archives!Save("optional", v, versions) = p \o <<0>> /\ 0 \in {0, 1}
    BY <1>1, <1>5
  <2>2. ~(Len(s) <= n) /\ s[n + 1] = 0 /\ Len(p \o <<0>>) = n + 1
    BY <1>4, <2>1
  <2> HIDE DEF n
  <2> QED BY <1>1, <1>5, <2>1, <2>2
<1>6. CASE v # nothing
  <2> DEFINE q == p \o <<1>>
             r == q \o p
  <2>1. v \in Uuids
    BY <1>1, <1>6
  <2>2. v \in Seq(V)
    BY <2>1, NotNone
  <2>3. Archives!Save("optional", v, versions) = r \o v /\ r = q \o p
    <3>1. p \o (<<1>> \o p \o v) = r \o v
      BY <1>2, <1>3, <2>2
    <3> QED BY <1>1, <1>6, <3>1
  <2>4. q \in Seq(V) /\ r \in Seq(V)
    BY <1>2, <1>3
  <2>5. StartsWith(s, r \o v)
    BY <2>3
  <2> HIDE DEF q, r
  <2>6. StartsWith(s, r)
    BY <2>2, <2>4, <2>5, Rest
  <2>7. StartsWith(s, q)
    BY <1>2, <2>3, <2>4, <2>6, Rest
  <2>8. ~(Len(s) <= n) /\ s[n + 1] = 1 /\ Len(q) = n + 1
    BY <1>4, <2>7 DEF q
  <2>9. Len(r) = 2 * n + 1
    <3>1. Len(r) = Len(q) + n
      BY <1>2, <2>3, <2>4
    <3> HIDE DEF n
    <3> QED BY <1>2, <2>8, <3>1
  <2>10. Archives!LoadBytes(s, Len(r)) = Archives!Got(v, Len(r \o v))
    BY <2>1, <2>4, <2>5, BytesRead
  <2>11. Archives!Load("optional", s, versions) = Archives!LoadBytes(s, 2 * n + 1)
    <3> DEFINE c == s[n + 1]
               short == Len(s) <= n
    <3>1. Archives!Load("optional", s, versions) =
            IF short \/ c \notin {0, 1} THEN {}
            ELSE IF c = 0 THEN Archives!Got(nothing, n + 1) ELSE Archives!LoadBytes(s, 2 * n + 1)
      BY <1>1
    <3>2. c = 1 /\ ~short
      BY <2>8
    <3> HIDE DEF c, short, n
    <3> QED BY <3>1, <3>2
  <2> HIDE DEF n
  <2> QED BY <2>3, <2>9, <2>10, <2>11
<1> QED BY <1>5, <1>6

\* Times are read back, cut to their milliseconds.
LEMMA TimeRead ==
  ASSUME NEW t \in Archives!Times, NEW v \in Archives!Values(t), NEW versions
  PROVE  ReadsBack(t, v, versions)
<1> DEFINE p == Archives!Version(versions)
           q == IF t = "ptime" THEN p ELSE <<>>
           m == Archives!SignBit(8)
           x == Archives!Milliseconds(v)
           r == Archives!SaveSigned(8, x)
           n == IF t = "ptime" THEN 2 * Len(p) ELSE Len(p)
           V == Archives!Bytes
           o == q \o p
<1>1. /\ Archives!Save(t, v, versions) = q \o p \o r
      /\ Archives!Kept(t, v) = x * TicksPerMs
      /\ Archives!Values(t) = -m .. m - 1
      /\ \A s : Archives!Load(t, s, versions) =
           {[value |-> got.value * TicksPerMs, size |-> n + got.size] :
              got \in Archives!LoadPrimitive("int64", SubSeq(s, n + 1, Len(s)))}
  BY DEF Archives!Unsigned, Archives!Primitive, Archives!Save, Archives!SaveTime, Archives!Kept, Archives!Load,
         Archives!LoadTime, Archives!Values, Archives!Times, Archives!Floats, Archives!Signed
<1>2. p \in Seq(V) /\ q \in Seq(V)
  BY VersionIs
<1>3. v \in Int /\ -m <= v /\ v <= m - 1 /\ m \in Nat
  BY <1>1, SignBitIs
<1>4. x \in Int /\ -m <= x /\ x <= m - 1
  BY <1>3, MillisecondsAre
<1>5. "int64" \in Archives!Signed /\ x \in Archives!Values("int64") /\ "int64" \notin Archives!Times
      /\ Archives!Save("int64", x, versions) = r /\ Archives!Kept("int64", x) = x
      /\ \A s : Archives!Load("int64", s, versions) = Archives!LoadPrimitive("int64", s)
  <2> HIDE DEF x
  <2> QED BY <1>3, <1>4, WidthIs
          DEF Archives!Unsigned, Archives!Primitive, Archives!Save, Archives!SavePrimitive, Archives!Kept, Archives!Load,
              Archives!Values, Archives!Times, Archives!Floats, Archives!Signed
<1>6. ReadsBack("int64", x, versions)
  <2> HIDE DEF x
  <2> QED BY <1>5, SignedRead
<1>7. r \in Seq(V)
  <2>1. (x + m) % Archives!Power[8] = x + m /\ x + m \in Below(8) /\ 8 \in 0 .. 8
    <3> HIDE DEF x
    <3> QED BY <1>4, SignedAre
  <2>2. x + m \in Nat
    BY <2>1, PowerFacts DEF Below
  <2> QED BY <2>1, <2>2, DigitsType DEF Archives!SaveSigned
<1> HIDE DEF x, r
<1>8. o \in Seq(V) /\ Len(o) = n
  <2>1. CASE t = "ptime"
    <3>1. o = p \o p /\ n = 2 * Len(p)
      BY <2>1
    <3> HIDE DEF p
    <3>2. p \o p \in Seq(V) /\ Len(p \o p) = Len(p) + Len(p) /\ Len(p) \in Nat
      BY <1>2
    <3> HIDE DEF n, o
    <3> QED BY <3>1, <3>2
  <2>2. CASE t # "ptime"
    <3>1. o = <<>> \o p /\ n = Len(p)
      BY <2>2
    <3> HIDE DEF p
    <3>2. <<>> \o p = p
      BY <1>2
    <3> QED BY <1>2, <3>1, <3>2
  <2> QED BY <2>1, <2>2
<1> HIDE DEF p, q, o, n
<1> SUFFICES ASSUME NEW s \in Seq(V), StartsWith(s, o \o r)
             PROVE  Archives!Load(t, s, versions) = Archives!Got(x * TicksPerMs, Len(o \o r))
  BY <1>1 DEF ReadsBack, o
<1> DEFINE u == SubSeq(s, n + 1, Len(s))
<1>9. u \in Seq(V) /\ StartsWith(u, r)
  BY <1>7, <1>8, Rest
<1>10. Archives!Load(t, s, versions) =
         {[value |-> got.value * TicksPerMs, size |-> n + got.size] : got \in Archives!LoadPrimitive("int64", u)}
  BY <1>1
<1> HIDE DEF u
<1>11. Archives!LoadPrimitive("int64", u) = {[value |-> x, size |-> Len(r)]}
  BY <1>5, <1>6, <1>9 DEF ReadsBack, Archives!Got
<1>12. Len(o \o r) = n + Len(r)
  BY <1>7, <1>8
<1> DEFINE l == Len(r)
           g == [value |-> x, size |-> l]
           y == x * TicksPerMs
<1>13. g.value = x /\ g.size = l
  OBVIOUS
<1>14. Archives!LoadPrimitive("int64", u) = {g}
  BY <1>11
<1> HIDE DEF l, g
<1>15. Archives!Load(t, s, versions) = {[value |-> x * TicksPerMs, size |-> n + l]}
  BY <1>10, <1>13, <1>14
<1> QED BY <1>12, <1>15 DEF Archives!Got, l

\* Values of every type are read back.
LEMMA ValueReads == ASSUME NEW t \in Types, NEW v \in Samples[t], NEW versions PROVE ReadsBack(t, v, versions)
<1>1. t \in Archives!Primitive \cup {"uuid", "optional"} \cup Archives!Times /\ v \in Archives!Values(t)
  BY StoredAssumption DEF Archives!ArchiveAssumption
<1>2. \/ t \in Archives!Unsigned \cup {"bool"} \/ t \in Archives!Signed \/ t \in Archives!Floats
      \/ t \in {"string", "literal"} \/ t = "uuid" \/ t = "optional" \/ t \in Archives!Times
  BY <1>1 DEF Archives!Primitive
<1>3. CASE t \in Archives!Unsigned \cup {"bool"}
  BY <1>1, <1>3, UnsignedRead
<1>4. CASE t \in Archives!Signed
  BY <1>1, <1>4, SignedRead
<1>5. CASE t \in Archives!Floats
  BY <1>1, <1>5, FloatRead
<1>6. CASE t \in {"string", "literal"}
  BY <1>1, <1>6, StringsRead
<1>7. CASE t = "uuid"
  BY <1>1, <1>7, UuidRead
<1>8. CASE t = "optional"
  BY <1>1, <1>8, OptionalRead
<1>9. CASE t \in Archives!Times
  BY <1>1, <1>9, TimeRead
<1> QED BY <1>2, <1>3, <1>4, <1>5, <1>6, <1>7, <1>8, <1>9

-----------------------------------------------------------------------------
\* Archive: what was read so far.

\* What a time keeps is not beyond the time.
LEMMA MillisecondsKept ==
  ASSUME NEW v \in Int
  PROVE  /\ Archives!Milliseconds(v) * TicksPerMs \in Int
         /\ v >= 0 => 0 <= Archives!Milliseconds(v) * TicksPerMs /\ Archives!Milliseconds(v) * TicksPerMs <= v
         /\ v < 0 => v <= Archives!Milliseconds(v) * TicksPerMs /\ Archives!Milliseconds(v) * TicksPerMs <= 0
<1> DEFINE d == TicksPerMs
           w == IF v >= 0 THEN v ELSE -v
           q == w \div d
<1>1. d \in Nat \ {0}
  BY StoredAssumption DEF Archives!ArchiveAssumption
<1>2. w \in Nat
  OBVIOUS
<1>3. q \in Nat /\ w % d \in 0 .. d - 1 /\ w = d * q + (w % d)
  <2> HIDE DEF w, d
  <2> QED BY <1>1, <1>2, Division
<1>4. Archives!Milliseconds(v) = IF v >= 0 THEN q ELSE -q
  BY DEF Archives!Milliseconds
<1> DEFINE r == w % d
           e == d * q
<1>5. q \in Nat /\ r \in 0 .. d - 1 /\ w = e + r /\ e \in Nat
  <2>1. d * q \in Nat
    <3> HIDE DEF q, d
    <3> QED BY <1>1, <1>3
  <2> QED BY <1>3, <2>1
<1>6. q * d = e /\ (-q) * d = -e
  <2> HIDE DEF q, d
  <2> QED BY <1>1, <1>3
<1>7. 0 <= e /\ e <= w
  <2> HIDE DEF q, d, r, e, w
  <2> QED BY <1>1, <1>2, <1>5
<1> HIDE DEF q, d, r, e
<1>8. CASE v >= 0
  BY <1>4, <1>5, <1>6, <1>7, <1>8 DEF d
<1>9. CASE v < 0
  BY <1>4, <1>5, <1>6, <1>7, <1>9 DEF d
<1> QED BY <1>8, <1>9

\* What is kept of a value is a value of the type.
LEMMA KeptValue ==
  ASSUME NEW t \in Types, NEW v \in Samples[t]
  PROVE  Archives!Kept(t, v) \in Archives!Values(t)
<1>1. v \in Archives!Values(t)
  BY StoredAssumption DEF Archives!ArchiveAssumption
<1>2. CASE t \notin Archives!Times
  BY <1>1, <1>2 DEF Archives!Kept
<1>3. CASE t \in Archives!Times
  <2> DEFINE m == Archives!SignBit(8)
             y == Archives!Milliseconds(v) * TicksPerMs
  <2>1. Archives!Values(t) = -m .. m - 1 /\ Archives!Kept(t, v) = y
    BY <1>3 DEF Archives!Values, Archives!Times, Archives!Unsigned, Archives!Signed, Archives!Floats, Archives!Kept
  <2>2. m \in Nat \ {0}
    BY SignBitIs
  <2> HIDE DEF m
  <2>3. v \in Int /\ -m <= v /\ v <= m - 1
    BY <1>1, <2>1, <2>2
  <2>4. y \in Int /\ (v >= 0 => 0 <= y /\ y <= v) /\ (v < 0 => v <= y /\ y <= 0)
    BY <2>3, MillisecondsKept
  <2> HIDE DEF y
  <2> QED BY <2>1, <2>2, <2>3, <2>4
<1> QED BY <1>2, <1>3

\* The rest of Archive's variables; its state is called phase here.
wanted == v5
asWritten == v6
index == v7
read == v8
phase == v9

\* What the first record's items became, and what they are read back as.
Items == [i \in 1 .. Len(types) |-> Archives!Save(types[i], record[1][i], v1)]
Results == {Archives!Kept(t, v) : t \in Types, v \in AnyValue}
KeptItems == [i \in 1 .. Len(types) |-> Archives!Kept(types[i], record[1][i])]

\* r items are read: the values returned, the types still wanted and the place in the string.
ReadSoFar(made, r) ==
  /\ read = [i \in 1 .. r |-> KeptItems[i]]
  /\ index = Len(made[r])
  /\ phase = "saving" => r = 0
  /\ phase = "loading" => wanted = [i \in 1 .. Len(types) - r |-> types[r + i]]
  /\ phase = "done" => r = Len(types)
  /\ phase # "archive_exception"

\* The optional user id that is read as a uuid.
ReadAsAnother ==
  /\ types = <<"optional">>
  /\ \/ phase = "loading" /\ wanted = <<"uuid">> /\ index = 0
     \/ record[1][1] = Archives!None /\ phase = "archive_exception" /\ index = 0
     \/ /\ record[1][1] # Archives!None /\ phase \in {"loading", "done"} /\ wanted = <<>>
        /\ index \in 0 .. Len(str[1]) - 1

\* The invariant of the reader: the string is the items' strings behind each other, and the reader is at the
\* end of the last one it has read.
ReadInv ==
  /\ Records /\ (\A k \in 1 .. 2 : str[k] \in Seq(Archives!Bytes))
  /\ phase \in {"saving", "loading", "done", "archive_exception"} /\ asWritten \in BOOLEAN
  /\ \E made : /\ Parts(made, Items, Archives!Bytes) /\ made[Len(types)] = str[1]
               /\ asWritten => \E r \in 0 .. Len(types) : ReadSoFar(made, r)
  /\ ~asWritten => ReadAsAnother

\* The items of the records.
LEMMA RecordsAre ==
  ASSUME Records
  PROVE  /\ types \in Seq(Types) /\ Len(types) \in Nat /\ DOMAIN types = 1 .. Len(types)
         /\ \A i \in 1 .. Len(types) : types[i] \in Types /\ record[1][i] \in Samples[types[i]]
         /\ \A i \in 1 .. Len(types) : KeptItems[i] \in Results
<1> DEFINE T == types
<1>1. T \in Seq(Types) /\ \A i \in 1 .. Len(T) : record[1][i] \in Samples[T[i]]
  <2>1. 1 \in 1 .. 2
    OBVIOUS
  <2> QED BY <2>1 DEF Records
<1> HIDE DEF T
<1>2. Len(T) \in Nat /\ DOMAIN T = 1 .. Len(T) /\ \A i \in 1 .. Len(T) : T[i] \in Types
  BY <1>1
<1>3. \A i \in 1 .. Len(types) : KeptItems[i] = Archives!Kept(types[i], record[1][i])
  BY DEF KeptItems
<1>4. ASSUME NEW i \in 1 .. Len(T) PROVE Archives!Kept(T[i], record[1][i]) \in Results
  <2>1. record[1][i] \in AnyValue
    BY <1>1, <1>2 DEF AnyValue
  <2> QED BY <1>2, <2>1 DEF Results
<1> QED BY <1>1, <1>2, <1>3, <1>4 DEF T

\* A value becomes a string.
LEMMA SaveIs == ASSUME NEW t \in Types, NEW v \in Samples[t], NEW versions
                PROVE  Archives!Save(t, v, versions) \in Seq(Archives!Bytes)
BY ValueFits DEF KeyFits, Sorted

\* And so do the items of the first record.
LEMMA ItemsAre ==
  ASSUME Records
  PROVE  /\ Len(Items) = Len(types) /\ Len(types) \in Nat
         /\ \A i \in 1 .. Len(types) : /\ Items[i] \in Seq(Archives!Bytes)
                                       /\ Items[i] = Archives!Save(types[i], record[1][i], v1)
<1> DEFINE n == Len(types)
           q == Items
<1>1. n \in Nat /\ \A i \in 1 .. n : types[i] \in Types /\ record[1][i] \in Samples[types[i]]
  BY RecordsAre
<1>2. q = [i \in 1 .. n |-> Archives!Save(types[i], record[1][i], v1)]
  BY DEF Items
<1> HIDE DEF n, q
<1>3. Len(q) = n
  BY <1>1, <1>2
<1>4. ASSUME NEW i \in 1 .. n
      PROVE  q[i] \in Seq(Archives!Bytes) /\ q[i] = Archives!Save(types[i], record[1][i], v1)
  <2>1. q[i] = Archives!Save(types[i], record[1][i], v1)
    BY <1>2
  <2> QED BY <1>1, <2>1, SaveIs
<1> QED BY <1>1, <1>3, <1>4 DEF n, q

\* Nothing is written and nothing read.
LEMMA ReadBegins == ASSUME Archives!Init PROVE ReadInv
<1>1. Records /\ str[1] \in Seq(Archives!Bytes) /\ str[2] \in Seq(Archives!Bytes)
  BY KeysBegin DEF KeysInv, Sorted
<1>2. /\ types = <<>> /\ str = [i \in 1 .. 2 |-> <<>>] /\ asWritten = TRUE /\ index = 0 /\ read = <<>>
      /\ phase = "saving"
  BY DEF Archives!Init, types, str, asWritten, index, read, phase
<1>3. Len(types) = 0 /\ str[1] = <<>>
  BY <1>2
<1> DEFINE made == [i \in {0} |-> <<>>]
<1>4. Parts(made, Items, Archives!Bytes)
  <2>1. Len(Items) = 0
    BY <1>1, <1>3, ItemsAre
  <2>2. made[0] = <<>> /\ <<>> \in Seq(Archives!Bytes)
    OBVIOUS
  <2> HIDE DEF made
  <2>3. (\A i \in 0 .. 0 : i = 0) /\ \A i \in 1 .. 0 : FALSE
    OBVIOUS
  <2> QED BY <2>1, <2>2, <2>3 DEF Parts
<1>5. made[Len(types)] = str[1] /\ Len(made[0]) = 0
  BY <1>3
<1> HIDE DEF made
<1>6. ReadSoFar(made, 0)
  <2>1. <<>> = [i \in 1 .. 0 |-> KeptItems[i]]
    <3> DEFINE f == [i \in 1 .. 0 |-> KeptItems[i]]
    <3>1. DOMAIN f = {}
      OBVIOUS
    <3>2. f \in Seq({}) /\ Len(f) = 0
      OBVIOUS
    <3> HIDE DEF f
    <3>3. f = <<>>
      BY <3>2
    <3> QED BY <3>3 DEF f
  <2> QED BY <1>2, <1>5, <2>1 DEF ReadSoFar
<1>7. 0 \in 0 .. Len(types)
  BY <1>3
<1>8. \A k \in 1 .. 2 : str[k] \in Seq(Archives!Bytes)
  <2>1. \A k \in 1 .. 2 : k = 1 \/ k = 2
    OBVIOUS
  <2> QED BY <1>1, <2>1
<1> QED BY <1>1, <1>2, <1>3, <1>4, <1>5, <1>6, <1>7, <1>8 DEF ReadInv

\* SaveNext puts a piece behind the string; nothing is read yet.
LEMMA SaveKept == ASSUME ReadInv, Archives!SaveNext PROVE ReadInv'
<1> DEFINE n == Len(types)
           V == Archives!Bytes
<1>1a. PICK t \in Types : \E a, b \in Samples[t] :
         /\ types' = Append(types, t)
         /\ record' = <<Append(record[1], a), Append(record[2], b)>>
         /\ str' = <<str[1] \o Archives!Save(t, a, v1), str[2] \o Archives!Save(t, b, v1)>>
  BY DEF Archives!SaveNext, types, record, str
<1>1. PICK a \in Samples[t], b \in Samples[t] :
        /\ types' = Append(types, t)
        /\ record' = <<Append(record[1], a), Append(record[2], b)>>
        /\ str' = <<str[1] \o Archives!Save(t, a, v1), str[2] \o Archives!Save(t, b, v1)>>
  BY <1>1a
<1>2. /\ phase = "saving" /\ v1' = v1 /\ wanted' = wanted /\ asWritten' = asWritten /\ index' = index
      /\ read' = read /\ phase' = phase
  BY DEF Archives!SaveNext, wanted, asWritten, index, read, phase
<1>3. Records /\ str[1] \in Seq(V) /\ str[2] \in Seq(V) /\ asWritten \in BOOLEAN
  <2>1. 1 \in 1 .. 2 /\ 2 \in 1 .. 2
    OBVIOUS
  <2> QED BY <2>1 DEF ReadInv
<1>4. asWritten
  BY <1>2 DEF ReadInv, ReadAsAnother
<1>5. PICK made : /\ Parts(made, Items, V) /\ made[n] = str[1]
                  /\ \E r \in 0 .. n : ReadSoFar(made, r)
  BY <1>4 DEF ReadInv
<1>6. ReadSoFar(made, 0)
  BY <1>2, <1>5 DEF ReadSoFar
<1>7. Records'
  BY <1>1, <1>3, RecordsGrow
<1> DEFINE e == Archives!Save(t, a, v1)
           q == Items
           z == Items'
<1>8. e \in Seq(V) /\ Archives!Save(t, b, v1) \in Seq(V)
  BY SaveIs
<1>9. str'[1] = str[1] \o e /\ str'[2] = str[2] \o Archives!Save(t, b, v1)
  BY <1>1
<1>10. \A k \in 1 .. 2 : str'[k] \in Seq(V)
  <2>1. str'[1] \in Seq(V) /\ str'[2] \in Seq(V)
    <3> HIDE DEF V, e
    <3> QED BY <1>3, <1>8, <1>9
  <2>2. \A k \in 1 .. 2 : k = 1 \/ k = 2
    OBVIOUS
  <2> QED BY <2>1, <2>2
<1>11. n \in Nat /\ Len(types') = n + 1 /\ types'[n + 1] = t /\ \A i \in 1 .. n : types'[i] = types[i]
  <2> DEFINE T == types
  <2>1. T \in Seq(Types)
    BY <1>3, RecordsAre
  <2> HIDE DEF T
  <2>2. Len(T) \in Nat /\ Len(Append(T, t)) = Len(T) + 1 /\ Append(T, t)[Len(T) + 1] = t
        /\ \A i \in 1 .. Len(T) : Append(T, t)[i] = T[i]
    BY <2>1, AppendIs, LenNat
  <2> QED BY <1>1, <2>2 DEF T
<1>12. /\ record'[1][n + 1] = a /\ \A i \in 1 .. n : record'[1][i] = record[1][i]
  <2> DEFINE p == record[1]
             A == AnyValue
  <2>1. p \in Seq(A) /\ Len(p) = n /\ a \in A
    <3>1. 1 \in 1 .. 2
      OBVIOUS
    <3> QED BY <1>3, <3>1 DEF Records, AnyValue
  <2>2. record'[1] = Append(p, a)
    BY <1>1
  <2> HIDE DEF p, A, n
  <2>3. Append(p, a)[n + 1] = a /\ \A i \in 1 .. n : Append(p, a)[i] = p[i]
    BY <2>1, AppendIs
  <2> QED BY <2>2, <2>3 DEF p
<1>13. Len(q) = n /\ \A i \in 1 .. n : q[i] = Archives!Save(types[i], record[1][i], v1)
  BY <1>3, ItemsAre
<1>14. z = [i \in 1 .. n + 1 |-> Archives!Save(types'[i], record'[1][i], v1)]
  BY <1>2, <1>11 DEF Items
<1> HIDE DEF n, z, q, e
<1>15. Len(z) = n + 1 /\ z[n + 1] = e /\ \A i \in 1 .. n : z[i] = q[i]
  <2>1. Len(z) = n + 1
    BY <1>11, <1>14
  <2>2. n + 1 \in 1 .. n + 1 /\ \A i \in 1 .. n : i \in 1 .. n + 1
    BY <1>11
  <2>3. z[n + 1] = e
    BY <1>11, <1>12, <1>14, <2>2 DEF e
  <2>4. \A i \in 1 .. n : z[i] = q[i]
    BY <1>11, <1>12, <1>13, <1>14, <2>2
  <2> QED BY <2>1, <2>3, <2>4
<1>16. PICK more : /\ Parts(more, z, V) /\ more[n + 1] = made[n] \o e
                   /\ \A i \in 0 .. n : more[i] = made[i]
  <2>1. Parts(made, q, V)
    BY <1>5 DEF q
  <2>2. Longer(z, q, e)
    BY <1>11, <1>13, <1>15 DEF Longer
  <2>3. \E more : /\ Parts(more, z, V) /\ more[Len(q) + 1] = made[Len(q)] \o e
                  /\ \A i \in 0 .. Len(q) : more[i] = made[i]
    BY <2>1, <2>2, <1>8, PartsMore
  <2> QED BY <2>3, <1>13
<1>17. more[n + 1] = str'[1] /\ more[0] = made[0]
  <2>1. 0 \in 0 .. n
    BY <1>11
  <2> QED BY <1>5, <1>9, <1>16, <2>1
<1>18. read' = [i \in 1 .. 0 |-> KeptItems'[i]]
  <2>1. read = [i \in 1 .. 0 |-> KeptItems[i]]
    BY <1>6 DEF ReadSoFar
  <2>2. 1 .. 0 = {}
    OBVIOUS
  <2> QED BY <1>2, <2>1, <2>2
<1>19. index' = Len(more[0])
  BY <1>2, <1>6, <1>17 DEF ReadSoFar
<1>20. /\ phase' = "saving" /\ asWritten' /\ asWritten' \in BOOLEAN /\ 0 \in 0 .. Len(types')
  BY <1>2, <1>3, <1>4, <1>11
<1>21. ReadSoFar(more, 0)'
  BY <1>18, <1>19, <1>20 DEF ReadSoFar
<1>22. Parts(more, Items', V) /\ more[Len(types')] = str'[1]
  BY <1>11, <1>16, <1>17 DEF z
<1> QED BY <1>7, <1>10, <1>20, <1>21, <1>22 DEF ReadInv, Parts

\* What the reader leaves alone.
LEMMA RecordsStay ==
  ASSUME UNCHANGED <<v1, v2, v3, v4>>
  PROVE  /\ types' = types /\ record' = record /\ str' = str /\ v1' = v1
         /\ Records' <=> Records
         /\ Items' = Items /\ KeptItems' = KeptItems
BY DEF types, record, str, Records, Items, KeptItems, AnyValue

\* The types wanted after one more.
LEMMA WantedNext ==
  ASSUME NEW V, NEW T \in Seq(V), NEW r \in Nat, NEW w, w = [i \in 1 .. Len(T) - r |-> T[r + i]], r < Len(T)
  PROVE  Head(w) = T[r + 1] /\ Tail(w) = [i \in 1 .. Len(T) - (r + 1) |-> T[(r + 1) + i]]
<1> DEFINE n == Len(T) - r
<1>1. n \in Nat \ {0} /\ w = [i \in 1 .. n |-> T[r + i]] /\ Len(T) \in Nat
  BY LenNat
<1>2. \A i \in 1 .. n : T[r + i] \in V
  <2>1. \A i \in 1 .. n : r + i \in 1 .. Len(T)
    BY <1>1
  <2> QED BY <2>1
<1>3. n - 1 = Len(T) - (r + 1)
  BY <1>1
<1> HIDE DEF n
<1>4. w \in Seq(V) /\ Len(w) = n
  BY <1>1, <1>2
<1>5. Head(w) = w[1] /\ Tail(w) = [i \in 1 .. n - 1 |-> w[i + 1]]
  BY <1>1, <1>4
<1>6. w[1] = T[r + 1]
  BY <1>1
<1>7. ASSUME NEW i \in 1 .. n - 1 PROVE w[i + 1] = T[(r + 1) + i]
  <2> DEFINE j == i + 1
  <2>1. j \in 1 .. n /\ r + j = (r + 1) + i
    BY <1>1
  <2> HIDE DEF j
  <2>2. w[j] = T[r + j]
    BY <1>1, <2>1
  <2> QED BY <2>1, <2>2 DEF j
<1>8. Tail(w) = [i \in 1 .. n - 1 |-> T[(r + 1) + i]]
  BY <1>5, <1>7
<1> QED BY <1>3, <1>5, <1>6, <1>8

\* The values read with one more.
LEMMA ReadMore ==
  ASSUME NEW V, NEW r \in Nat, NEW f, \A i \in 1 .. r + 1 : f[i] \in V, NEW w, w = [i \in 1 .. r |-> f[i]]
  PROVE  Append(w, f[r + 1]) = [i \in 1 .. r + 1 |-> f[i]]
<1> DEFINE m == r + 1
           e == f[m]
           u == [i \in 1 .. m |-> f[i]]
           o == Append(w, e)
<1>1. m \in Nat /\ m = r + 1 /\ e \in V /\ \A i \in 1 .. r : i \in 1 .. m
  OBVIOUS
<1> HIDE DEF m
<1>2. w \in Seq(V) /\ Len(w) = r
  BY <1>1
<1>3. u \in Seq(V) /\ Len(u) = m /\ \A i \in 1 .. m : u[i] = f[i]
  BY <1>1 DEF m
<1> HIDE DEF e, u
<1>4. o \in Seq(V) /\ Len(o) = m /\ o[m] = e /\ \A i \in 1 .. r : o[i] = w[i]
  <2>1. /\ Append(w, e) \in Seq(V) /\ Len(Append(w, e)) = Len(w) + 1 /\ Append(w, e)[Len(w) + 1] = e
        /\ \A i \in 1 .. Len(w) : Append(w, e)[i] = w[i]
    BY <1>1, <1>2, AppendIs
  <2> QED BY <2>1, <1>1, <1>2
<1>5. \A i \in 1 .. r : w[i] = f[i]
  OBVIOUS
<1> HIDE DEF o
<1>6. \A i \in 1 .. m : o[i] = u[i]
  <2>1. \A i \in 1 .. m : i = m \/ i \in 1 .. r
    BY <1>1
  <2> QED BY <1>1, <1>3, <1>4, <1>5, <2>1 DEF e
<1>7. o = u
  BY <1>3, <1>4, <1>6, SeqEqual
<1> QED BY <1>7 DEF o, u, e, m

\* An optional uuid read as a uuid: nothing is too short, and a value leaves bytes over.
Mistaken(v, s, versions) ==
  /\ v = Archives!None => Archives!Load("uuid", s, versions) = {}
  /\ v # Archives!None => \E x : \E k \in 0 .. Len(s) - 1 :
                            Archives!Load("uuid", s, versions) = {[value |-> x, size |-> k]}

\* The length of joined strings.
LEMMA LenJoin == ASSUME NEW V, NEW p \in Seq(V), NEW q \in Seq(V)
                 PROVE  p \o q \in Seq(V) /\ Len(p \o q) = Len(p) + Len(q)
OBVIOUS

\* What sign_in() wrote as an optional uuid is so read as a uuid.
LEMMA AnotherRead ==
  ASSUME NEW v \in Archives!Values("optional"), NEW versions
  PROVE  Mistaken(v, Archives!Save("optional", v, versions), versions)
<1> DEFINE p == Archives!Version(versions)
           n == Len(p)
           z == UuidSize
           s == Archives!Save("optional", v, versions)
           x == SubSeq(s, n + 1, n + z)
           V == Archives!Bytes
           nothing == Archives!None
<1>1. /\ s = p \o (IF v = nothing THEN <<0>> ELSE <<1>> \o p \o v)
      /\ Archives!Values("optional") = {nothing} \cup Uuids
      /\ Archives!Load("uuid", s, versions) = IF Len(s) < n + z THEN {} ELSE {[value |-> x, size |-> n + z]}
  BY DEF Archives!Unsigned, Archives!Primitive, Archives!Save, Archives!SaveOptional, Archives!Load, Archives!LoadBytes,
         Archives!Values, Archives!Times, Archives!Floats, Archives!Signed, Uuids, Archives!Got
<1>2. p \in Seq(V) /\ n \in Nat
  BY VersionIs
<1>3. z \in Nat /\ z >= 2
  BY StoredAssumption DEF Archives!ArchiveAssumption
<1> HIDE DEF p, nothing, x, s
<1>4. ASSUME v = nothing PROVE Len(s) = n + 1
  <2>1. s = p \o <<0>>
    BY <1>1, <1>4
  <2>2. <<0>> \in Seq(V)
    BY BytesAre
  <2> QED BY <1>2, <2>1, <2>2
<1>5. ASSUME v # nothing PROVE Len(s) = 2 * n + 1 + z
  <2>1. v \in Uuids
    BY <1>1, <1>5
  <2>2. v \in Seq(V) /\ Len(v) = z
    BY <2>1, <1>3, NotNone DEF Uuids
  <2>3. <<1>> \in Seq(V)
    BY BytesAre
  <2> DEFINE o == <<1>>
  <2>4. o \in Seq(V) /\ Len(o) = 1 /\ s = p \o (o \o p \o v)
    BY <1>1, <1>5, <2>3
  <2> HIDE DEF o
  <2>5. Len(o \o p \o v) = 1 + n + z /\ o \o p \o v \in Seq(V)
    <3>1. o \o p \in Seq(V) /\ Len(o \o p) = 1 + n
      <4>1. o \o p \in Seq(V) /\ Len(o \o p) = Len(o) + Len(p)
        BY <1>2, <2>4, LenJoin
      <4> HIDE DEF V
      <4> QED BY <2>4, <4>1
    <3> DEFINE w == o \o p
    <3>2. w \in Seq(V) /\ Len(w) = 1 + n
      BY <3>1
    <3> HIDE DEF w
    <3>3. Len(w \o v) = 1 + n + z /\ w \o v \in Seq(V)
      BY <2>2, <3>2
    <3> QED BY <3>3 DEF w
  <2> DEFINE w == o \o p \o v
  <2>6. w \in Seq(V) /\ Len(w) = 1 + n + z /\ s = p \o w
    BY <2>4, <2>5
  <2> HIDE DEF w, z
  <2>7. Len(s) = n + Len(w)
    <3>1. Len(p \o w) = Len(p) + Len(w)
      BY <1>2, <2>6, LenJoin
    <3> HIDE DEF V
    <3> QED BY <2>6, <3>1
  <2> HIDE DEF n
  <2> QED BY <1>2, <1>3, <2>6, <2>7
<1> HIDE DEF n, z
<1>6. v = nothing => Archives!Load("uuid", s, versions) = {}
  BY <1>1, <1>2, <1>3, <1>4
<1>7. ASSUME v # nothing
      PROVE  n + z \in 0 .. Len(s) - 1 /\ Archives!Load("uuid", s, versions) = {[value |-> x, size |-> n + z]}
  BY <1>1, <1>2, <1>3, <1>5, <1>7
<1> QED BY <1>6, <1>7 DEF s, nothing, Mistaken

\* A step that only reads: the records and their strings stay.
LEMMA OnlyRead ==
  ASSUME ReadInv, UNCHANGED <<v1, v2, v3, v4>>, phase' \in {"saving", "loading", "done", "archive_exception"},
         asWritten' \in BOOLEAN, ~asWritten' => ReadAsAnother',
         NEW made, Parts(made, Items, Archives!Bytes), made[Len(types)] = str[1],
         asWritten' => \E r \in 0 .. Len(types) : ReadSoFar(made, r)'
  PROVE  ReadInv'
<1>1. types' = types /\ str' = str /\ Items' = Items /\ Records'
  BY RecordsStay DEF ReadInv
<1>2. Parts(made, Items', Archives!Bytes) /\ made[Len(types')] = str'[1]
  BY <1>1
<1>3. \A k \in 1 .. 2 : str'[k] \in Seq(Archives!Bytes)
  BY <1>1 DEF ReadInv
<1>4. asWritten' => \E r \in 0 .. Len(types') : ReadSoFar(made, r)'
  BY <1>1
<1> QED BY <1>1, <1>2, <1>3, <1>4 DEF ReadInv, Parts

\* Store starts to read at the front.
LEMMA StoreKept == ASSUME ReadInv, Archives!Store PROVE ReadInv'
<1>1. /\ phase = "saving" /\ phase' = "loading" /\ UNCHANGED <<v1, v2, v3, v4>> /\ index' = index /\ read' = read
      /\ \/ wanted' = types /\ asWritten' = asWritten
         \/ types = <<"optional">> /\ wanted' = <<"uuid">> /\ asWritten' = FALSE
  BY DEF Archives!Store, phase, index, read, wanted, asWritten, types
<1>2. asWritten /\ asWritten \in BOOLEAN /\ Records
  BY <1>1 DEF ReadInv, ReadAsAnother
<1>3. PICK made : /\ Parts(made, Items, Archives!Bytes) /\ made[Len(types)] = str[1]
                  /\ \E r \in 0 .. Len(types) : ReadSoFar(made, r)
  BY <1>2 DEF ReadInv
<1>4. ReadSoFar(made, 0) /\ types' = types /\ KeptItems' = KeptItems
  BY <1>1, <1>3, RecordsStay DEF ReadSoFar
<1>5. phase' \in {"saving", "loading", "done", "archive_exception"} /\ asWritten' \in BOOLEAN
  BY <1>1, <1>2
<1>6. ASSUME ~asWritten' PROVE ReadAsAnother'
  <2>1. types' = <<"optional">> /\ wanted' = <<"uuid">>
    BY <1>1, <1>2, <1>4, <1>6
  <2>2. index' = 0
    <3>1. index = Len(made[0]) /\ made[0] = <<>>
      BY <1>3, <1>4 DEF ReadSoFar, Parts
    <3> QED BY <1>1, <3>1
  <2> QED BY <1>1, <2>1, <2>2 DEF ReadAsAnother
<1>7. ASSUME asWritten' PROVE ReadSoFar(made, 0)' /\ 0 \in 0 .. Len(types)
  <2>1. wanted' = types
    BY <1>1, <1>7
  <2> DEFINE T == types
             n == Len(T)
  <2>2. T \in Seq(Types) /\ n \in Nat
    BY <1>2, RecordsAre
  <2>3. T = [i \in 1 .. n |-> T[i]]
    <3> HIDE DEF T
    <3> QED BY <2>2
  <2> HIDE DEF T, n
  <2>4. n - 0 = n /\ \A i \in 1 .. n : 0 + i = i
    BY <2>2
  <2>5. T = [i \in 1 .. n - 0 |-> T[0 + i]]
    BY <2>3, <2>4
  <2>6. wanted' = [i \in 1 .. Len(types') - 0 |-> types'[0 + i]]
    BY <1>4, <2>1, <2>5 DEF T, n
  <2>7. 0 \in 0 .. Len(types)
    BY <2>2 DEF n, T
  <2>8. read' = [i \in 1 .. 0 |-> KeptItems'[i]] /\ index' = Len(made[0])
    BY <1>1, <1>4 DEF ReadSoFar
  <2>9. ReadSoFar(made, 0)'
    BY <1>1, <2>6, <2>8 DEF ReadSoFar
  <2> QED BY <2>7, <2>9
<1> QED BY <1>1, <1>3, <1>5, <1>6, <1>7, OnlyRead

\* LoadNext reads the item that is there, whole, when the types are those written.
LEMMA LoadKept == ASSUME ReadInv, Archives!LoadNext, asWritten PROVE ReadInv'
<1> DEFINE n == Len(types)
           V == Archives!Bytes
           w == str[1]
           got == Archives!Load(Head(wanted), SubSeq(w, index + 1, Len(w)), v1)
<1>1. /\ phase = "loading" /\ wanted # <<>> /\ wanted' = Tail(wanted) /\ asWritten' = asWritten
      /\ UNCHANGED <<v1, v2, v3, v4>>
      /\ \/ \E g \in got : read' = Append(read, g.value) /\ index' = index + g.size /\ phase' = phase
         \/ got = {}
  BY DEF Archives!LoadNext, phase, wanted, asWritten, read, index, str
<1>2. Records /\ w \in Seq(V)
  <2>1. 1 \in 1 .. 2
    OBVIOUS
  <2> QED BY <2>1 DEF ReadInv
<1>3. PICK made : /\ Parts(made, Items, V) /\ made[n] = w
                  /\ \E r \in 0 .. n : ReadSoFar(made, r)
  BY DEF ReadInv
<1>4. PICK r \in 0 .. n : ReadSoFar(made, r)
  BY <1>3
<1> DEFINE T == types
           k == KeptItems
           q == Items
<1>5. /\ T \in Seq(Types) /\ n \in Nat /\ n = Len(T) /\ r \in Nat /\ r <= n
      /\ \A i \in 1 .. n : T[i] \in Types /\ record[1][i] \in Samples[T[i]] /\ k[i] \in Results
  BY <1>2, RecordsAre
<1>6. /\ Len(q) = n
      /\ \A i \in 1 .. n : q[i] \in Seq(V) /\ q[i] = Archives!Save(T[i], record[1][i], v1)
  BY <1>2, ItemsAre
<1>7. \A i \in 1 .. n : k[i] = Archives!Kept(T[i], record[1][i])
  BY DEF KeptItems
<1>8. /\ read = [i \in 1 .. r |-> k[i]] /\ index = Len(made[r]) /\ wanted = [i \in 1 .. n - r |-> T[r + i]]
  BY <1>1, <1>4 DEF ReadSoFar
<1>9. \A i \in 1 .. n : made[i] = made[i - 1] \o q[i]
  BY <1>3, <1>6 DEF Parts
<1>10. Parts(made, q, V) /\ T' = T /\ k' = k
  BY <1>1, <1>3, RecordsStay
<1> HIDE DEF T, k, q, n, V, w
<1> DEFINE j == r + 1
<1>11. r < n
  <2>1. CASE r = n
    <3> DEFINE f == [i \in 1 .. 0 |-> T[r + i]]
    <3>1. wanted = f
      BY <1>5, <1>8, <2>1
    <3>2. DOMAIN f = {} /\ f = [i \in {} |-> T[r + i]]
      OBVIOUS
    <3> HIDE DEF f
    <3>3. f = <<>>
      BY <3>2
    <3> QED BY <1>1, <3>1, <3>3
  <2> QED BY <1>5, <2>1
<1>12. j \in 1 .. n /\ j \in 0 .. n /\ j - 1 = r
  BY <1>5, <1>11
<1>13. Head(wanted) = T[j] /\ Tail(wanted) = [i \in 1 .. n - j |-> T[j + i]]
  <2>1. wanted = [i \in 1 .. Len(T) - r |-> T[r + i]] /\ r < Len(T)
    BY <1>5, <1>8, <1>11
  <2> DEFINE u == wanted
  <2>2. u = [i \in 1 .. Len(T) - r |-> T[r + i]]
    BY <2>1
  <2> HIDE DEF u
  <2>3. Head(u) = T[r + 1] /\ Tail(u) = [i \in 1 .. Len(T) - (r + 1) |-> T[(r + 1) + i]]
    BY <1>5, <2>1, <2>2, WantedNext
  <2> QED BY <2>3, <1>5 DEF u
<1>14. made[j] = made[r] \o q[j] /\ made[r] \in Seq(V) /\ StartsWith(made[n], made[j])
  <2>1. \A i \in 1 .. n : q[i] \in Seq(V)
    BY <1>6
  <2>2. StartsWith(made[n], made[j]) /\ made[r] \in Seq(V)
    BY <1>5, <1>6, <1>10, <1>12, <2>1, PartsStart
  <2> QED BY <1>9, <1>12, <2>2
<1> HIDE DEF j
<1> DEFINE p == made[r]
           e == q[j]
           x == k[j]
           rest == SubSeq(w, Len(p) + 1, Len(w))
<1>15. p \in Seq(V) /\ e \in Seq(V) /\ w \in Seq(V) /\ StartsWith(w, p \o e)
  BY <1>2, <1>3, <1>6, <1>12, <1>14 DEF w
<1>16. rest \in Seq(V) /\ StartsWith(rest, e)
  <2> HIDE DEF p, e
  <2> QED BY <1>15, Rest
<1>17. got = Archives!Load(T[j], rest, v1)
  BY <1>8, <1>13
<1>18. got = {[value |-> x, size |-> Len(e)]}
  <2>1. ReadsBack(T[j], record[1][j], v1)
    BY <1>5, <1>12, ValueReads
  <2>2. e = Archives!Save(T[j], record[1][j], v1) /\ x = Archives!Kept(T[j], record[1][j])
    BY <1>6, <1>7, <1>12
  <2> HIDE DEF rest, e, x, got
  <2> QED BY <1>16, <1>17, <2>1, <2>2 DEF ReadsBack, Archives!Got, V
<1> HIDE DEF got, rest, x, e
<1>19. read' = Append(read, x) /\ index' = index + Len(e) /\ phase' = "loading"
  <2> DEFINE m == Len(e)
             g == [value |-> x, size |-> m]
  <2>1. g.value = x /\ g.size = m /\ got = {g}
    BY <1>18
  <2> HIDE DEF g, m
  <2> QED BY <1>1, <2>1 DEF m
<1>20. index' = Len(made[j])
  <2>1. Len(p \o e) = Len(p) + Len(e)
    <3> HIDE DEF p
    <3> QED BY <1>15, LenJoin
  <2> QED BY <1>8, <1>14, <1>19, <2>1 DEF e
<1>21. read' = [i \in 1 .. j |-> k[i]]
  <2>1. \A i \in 1 .. r + 1 : k[i] \in Results
    BY <1>5, <1>12 DEF j
  <2> DEFINE u == read
  <2>2. u = [i \in 1 .. r |-> k[i]]
    BY <1>8
  <2> HIDE DEF u
  <2>3. Append(u, k[r + 1]) = [i \in 1 .. r + 1 |-> k[i]]
    BY <1>5, <2>1, <2>2, ReadMore
  <2> QED BY <1>19, <2>3 DEF u, x, j
<1>22. ReadSoFar(made, j)'
  <2>1. wanted' = [i \in 1 .. Len(types') - j |-> types'[j + i]] /\ read' = [i \in 1 .. j |-> KeptItems'[i]]
    BY <1>1, <1>10, <1>13, <1>21 DEF T, n, k
  <2> QED BY <1>19, <1>20, <2>1 DEF ReadSoFar
<1>23. /\ phase' \in {"saving", "loading", "done", "archive_exception"} /\ asWritten' \in BOOLEAN /\ asWritten'
       /\ j \in 0 .. Len(types)
  BY <1>1, <1>12, <1>19 DEF ReadInv, n
<1>24. Parts(made, Items, Archives!Bytes) /\ made[Len(types)] = str[1]
  BY <1>3 DEF n, V, w
<1> QED BY <1>1, <1>22, <1>23, <1>24, OnlyRead

\* LoadNext of the optional uuid as a uuid.
LEMMA MistakenKept == ASSUME ReadInv, Archives!LoadNext, ~asWritten PROVE ReadInv'
<1> DEFINE V == Archives!Bytes
           w == str[1]
           got == Archives!Load(Head(wanted), SubSeq(w, index + 1, Len(w)), v1)
           v == record[1][1]
<1>1. /\ phase = "loading" /\ wanted # <<>> /\ wanted' = Tail(wanted) /\ asWritten' = asWritten
      /\ UNCHANGED <<v1, v2, v3, v4>>
      /\ \/ \E g \in got : index' = index + g.size /\ phase' = phase
         \/ got = {} /\ phase' = "archive_exception" /\ index' = index
  BY DEF Archives!LoadNext, phase, wanted, asWritten, read, index, str
<1>2. types = <<"optional">> /\ wanted = <<"uuid">> /\ index = 0
  BY <1>1 DEF ReadInv, ReadAsAnother
<1>3. Records /\ w \in Seq(V)
  <2>1. 1 \in 1 .. 2
    OBVIOUS
  <2> QED BY <2>1 DEF ReadInv
<1>4. PICK made : Parts(made, Items, V) /\ made[Len(types)] = w
  BY DEF ReadInv
<1>5. Len(types) = 1 /\ types[1] = "optional" /\ Head(wanted) = "uuid" /\ Tail(wanted) = <<>>
  BY <1>2
<1>6. "optional" \in Types /\ v \in Samples["optional"]
  <2>1. 1 \in 1 .. Len(types)
    BY <1>5
  <2> QED BY <1>3, <1>5, <2>1, RecordsAre
<1>7. w = Archives!Save("optional", v, v1)
  <2>1. Len(Items) = 1 /\ Items[1] \in Seq(V) /\ Items[1] = Archives!Save("optional", v, v1)
    <3>1. 1 \in 1 .. Len(types)
      BY <1>5
    <3> QED BY <1>3, <1>5, <3>1, ItemsAre
  <2>2. 1 \in 1 .. Len(Items) /\ 1 - 1 = 0
    BY <2>1
  <2> DEFINE q == Items
  <2>3. made[1] = <<>> \o q[1] /\ q[1] \in Seq(V)
    BY <1>4, <2>1, <2>2 DEF Parts
  <2> HIDE DEF q
  <2>4. <<>> \o q[1] = q[1]
    BY <2>3
  <2> QED BY <1>4, <1>5, <2>1, <2>3, <2>4 DEF q
<1>8. Mistaken(v, w, v1)
  <2>1. v \in Archives!Values("optional")
    BY <1>6, StoredAssumption DEF Archives!ArchiveAssumption
  <2> QED BY <1>7, <2>1, AnotherRead
<1> HIDE DEF w, v
<1>9. got = Archives!Load("uuid", w, v1)
  <2>1. SubSeq(w, 0 + 1, Len(w)) = w
    <3>1. SubSeq(w, 1, Len(w)) = w
      BY <1>3
    <3> QED BY <3>1
  <2> QED BY <1>2, <1>5, <2>1
<1> HIDE DEF got
<1>10. \/ v = Archives!None /\ phase' = "archive_exception" /\ index' = 0
       \/ v # Archives!None /\ phase' = "loading" /\ index' \in 0 .. Len(w) - 1
  <2>1. CASE v = Archives!None
    BY <1>1, <1>2, <1>8, <1>9, <2>1 DEF Mistaken
  <2>2. CASE v # Archives!None
    <3>1. PICK x : \E k \in 0 .. Len(w) - 1 : got = {[value |-> x, size |-> k]}
      BY <1>8, <1>9, <2>2 DEF Mistaken
    <3>2. PICK k \in 0 .. Len(w) - 1 : got = {[value |-> x, size |-> k]}
      BY <3>1
    <3> DEFINE g == [value |-> x, size |-> k]
    <3>3. g.size = k /\ got = {g}
      BY <3>2
    <3> HIDE DEF g
    <3>4. index' = 0 + k /\ phase' = "loading"
      BY <1>1, <1>2, <3>3
    <3> QED BY <2>2, <3>4
  <2> QED BY <2>1, <2>2
<1>11. types' = types /\ record' = record /\ str' = str
  BY <1>1, RecordsStay
<1>12. ReadAsAnother'
  <2>1. types' = <<"optional">> /\ wanted' = <<>> /\ record'[1][1] = v /\ str'[1] = w
    BY <1>1, <1>2, <1>5, <1>11 DEF v, w
  <2> QED BY <1>10, <2>1 DEF ReadAsAnother
<1>13. phase' \in {"saving", "loading", "done", "archive_exception"} /\ ~asWritten' /\ asWritten' \in BOOLEAN
  BY <1>1, <1>10 DEF ReadInv
<1>14. Parts(made, Items, Archives!Bytes) /\ made[Len(types)] = str[1]
  BY <1>4 DEF V, w
<1> QED BY <1>1, <1>12, <1>13, <1>14, OnlyRead

\* Done finds everything read.
LEMMA DoneKept == ASSUME ReadInv, Archives!Done PROVE ReadInv'
<1>1. /\ phase = "loading" /\ wanted = <<>> /\ phase' = "done" /\ UNCHANGED <<v1, v2, v3, v4>>
      /\ wanted' = wanted /\ index' = index /\ read' = read /\ asWritten' = asWritten
  BY DEF Archives!Done, phase, index, read, wanted, asWritten
<1>2. types' = types /\ record' = record /\ str' = str /\ KeptItems' = KeptItems /\ Records
  BY <1>1, RecordsStay DEF ReadInv
<1>3. PICK made : /\ Parts(made, Items, Archives!Bytes) /\ made[Len(types)] = str[1]
                  /\ asWritten => \E r \in 0 .. Len(types) : ReadSoFar(made, r)
  BY DEF ReadInv
<1>4. ~asWritten' => ReadAsAnother'
  <2>1. ASSUME ~asWritten PROVE ReadAsAnother'
    <3>1. ReadAsAnother /\ <<>> # <<"uuid">>
      BY <2>1 DEF ReadInv
    <3> QED BY <1>1, <1>2, <3>1 DEF ReadAsAnother
  <2> QED BY <1>1, <2>1
<1>5. ASSUME asWritten PROVE \E r \in 0 .. Len(types) : ReadSoFar(made, r)'
  <2>1. PICK r \in 0 .. Len(types) : ReadSoFar(made, r)
    BY <1>3, <1>5
  <2> DEFINE n == Len(types)
             T == types
  <2>2. n \in Nat /\ wanted = [i \in 1 .. n - r |-> T[r + i]]
    BY <1>1, <1>2, <2>1, RecordsAre DEF ReadSoFar
  <2> HIDE DEF T, n
  <2>3. r \in Nat /\ r <= n
    BY <2>1, <2>2 DEF n
  <2>4. r = n
    <3>1. ASSUME r # n PROVE FALSE
      <4> DEFINE m == n - r
      <4>1. m \in Nat /\ m > 0
        BY <2>2, <2>3, <3>1
      <4> DEFINE f == [i \in 1 .. m |-> T[r + i]]
      <4>2. 1 \in DOMAIN f
        BY <4>1
      <4>3. f = <<>>
        BY <1>1, <2>2
      <4> HIDE DEF f
      <4> QED BY <4>2, <4>3
    <3> QED BY <3>1
  <2>5. ReadSoFar(made, r)'
    BY <1>1, <1>2, <2>1, <2>4 DEF ReadSoFar, n
  <2> QED BY <2>5
<1>6. phase' \in {"saving", "loading", "done", "archive_exception"} /\ asWritten' \in BOOLEAN
  BY <1>1 DEF ReadInv
<1>7. asWritten' => \E r \in 0 .. Len(types) : ReadSoFar(made, r)'
  BY <1>1, <1>5
<1> QED BY <1>1, <1>3, <1>4, <1>6, <1>7, OnlyRead

\* A step of nobody changes nothing.
LEMMA ReadStutter == ASSUME ReadInv, UNCHANGED storedVars PROVE ReadInv'
<1>1. /\ UNCHANGED <<v1, v2, v3, v4>> /\ phase' = phase /\ wanted' = wanted /\ index' = index /\ read' = read
      /\ asWritten' = asWritten
  BY DEF storedVars, phase, index, read, wanted, asWritten
<1>2. types' = types /\ record' = record /\ str' = str /\ KeptItems' = KeptItems
  BY <1>1, RecordsStay
<1>3. PICK made : /\ Parts(made, Items, Archives!Bytes) /\ made[Len(types)] = str[1]
                  /\ asWritten => \E r \in 0 .. Len(types) : ReadSoFar(made, r)
  BY DEF ReadInv
<1>4. ~asWritten' => ReadAsAnother'
  BY <1>1, <1>2 DEF ReadInv, ReadAsAnother
<1>5. ASSUME NEW r, ReadSoFar(made, r) PROVE ReadSoFar(made, r)'
  BY <1>1, <1>2, <1>5 DEF ReadSoFar
<1>6. phase' \in {"saving", "loading", "done", "archive_exception"} /\ asWritten' \in BOOLEAN
  BY <1>1 DEF ReadInv
<1>7. asWritten' => \E r \in 0 .. Len(types) : ReadSoFar(made, r)'
  BY <1>1, <1>3, <1>5
<1> QED BY <1>1, <1>3, <1>4, <1>6, <1>7, OnlyRead

\* What the invariant says of what is read.
LEMMA ReadMeans ==
  ASSUME ReadInv
  PROVE  Archives!TypeOK /\ Archives!RoundTrip /\ Archives!OptionalAsUuid
<1> DEFINE n == Len(types)
           V == Archives!Bytes
           k == KeptItems
<1>1. PICK made : /\ Parts(made, Items, V) /\ made[n] = str[1]
                  /\ asWritten => \E r \in 0 .. n : ReadSoFar(made, r)
  BY DEF ReadInv
<1>2. Records /\ str[1] \in Seq(V) /\ Len(str[1]) \in Nat
  <2>1. 1 \in 1 .. 2
    OBVIOUS
  <2>2. Records /\ str[1] \in Seq(V)
    BY <2>1 DEF ReadInv
  <2> QED BY <2>2, LenNat
<1>3. /\ n \in Nat /\ DOMAIN types = 1 .. n
      /\ \A i \in 1 .. n : types[i] \in Types /\ record[1][i] \in Samples[types[i]]
      /\ \A i \in 1 .. n : k[i] = Archives!Kept(types[i], record[1][i])
  BY <1>2, RecordsAre DEF KeptItems
<1>4. Len(Items) = n /\ \A i \in 1 .. n : Items[i] \in Seq(V)
  BY <1>2, ItemsAre
<1>5. k = [i \in DOMAIN types |-> Archives!Kept(types[i], record[1][i])]
  BY <1>3 DEF KeptItems
<1>6. ASSUME asWritten
      PROVE  /\ index \in 0 .. Len(str[1])
             /\ \A i \in DOMAIN read : read[i] \in Archives!Values(types[i])
             /\ phase # "archive_exception"
             /\ phase = "done" => read = k /\ index = Len(str[1])
  <2>1. PICK r \in 0 .. n : ReadSoFar(made, r)
    BY <1>1, <1>6
  <2>2. index = Len(made[r]) /\ read = [i \in 1 .. r |-> k[i]] /\ phase # "archive_exception"
        /\ (phase = "done" => r = n)
    BY <2>1 DEF ReadSoFar
  <2>3. StartsWith(made[n], made[r]) /\ made[r] \in Seq(V)
    BY <1>1, <1>3, <1>4, PartsStart
  <2> HIDE DEF k, n
  <2>4. index \in 0 .. Len(str[1])
    <3>1. Len(made[r]) \in Nat /\ Len(made[r]) <= Len(made[n])
      BY <2>3, LenNat DEF StartsWith
    <3> QED BY <1>1, <1>2, <2>2, <3>1
  <2>5. ASSUME NEW i \in DOMAIN read PROVE read[i] \in Archives!Values(types[i])
    <3>1. i \in 1 .. n /\ read[i] = k[i]
      BY <1>3, <2>2, <2>5
    <3> QED BY <1>3, <3>1, KeptValue
  <2>6. ASSUME phase = "done" PROVE read = k /\ index = Len(str[1])
    <3>1. r = n /\ k = [i \in 1 .. n |-> k[i]]
      BY <2>2, <2>6, <1>3, <1>5
    <3> QED BY <1>1, <2>2, <3>1
  <2> QED BY <2>2, <2>4, <2>5, <2>6
<1>7. ASSUME ~asWritten
      PROVE  /\ index \in 0 .. Len(str[1])
             /\ phase \in {"done", "archive_exception"} =>
                  IF record[1][1] = Archives!None THEN phase = "archive_exception"
                  ELSE phase = "done" /\ index < Len(str[1])
  <2>1. ReadAsAnother
    BY <1>7 DEF ReadInv
  <2> DEFINE l == Len(str[1])
  <2>2. l \in Nat
    BY <1>2
  <2> HIDE DEF l
  <2>3. \/ phase = "loading" /\ index = 0
        \/ record[1][1] = Archives!None /\ phase = "archive_exception" /\ index = 0
        \/ record[1][1] # Archives!None /\ phase \in {"loading", "done"} /\ index \in 0 .. l - 1
    BY <2>1 DEF ReadAsAnother, l
  <2> QED BY <2>2, <2>3 DEF l
<1>8. asWritten \in BOOLEAN /\ phase \in {"saving", "loading", "done", "archive_exception"}
      /\ \A i \in 1 .. 2 : str[i] \in Seq(V)
  BY DEF ReadInv
<1>9. Archives!TypeOK
  BY <1>6, <1>7, <1>8 DEF Archives!TypeOK, str, types, index, read, phase, asWritten
<1>10. Archives!RoundTrip
  BY <1>5, <1>6 DEF Archives!RoundTrip, str, types, record, index, read, phase, asWritten
<1>11. Archives!OptionalAsUuid
  BY <1>7 DEF Archives!OptionalAsUuid, str, record, index, phase, asWritten
<1> QED BY <1>9, <1>10, <1>11

\* While the archive is followed.
ReadKept == part = "archive" => ReadInv

\* RecordsReadBack: for any types and values of them, any width of a byte and any number of items.
THEOREM RecordsAreReadBack == StoredSpec => []RecordsReadBack
<1>1. StoredInit => ReadKept
  BY ReadBegins DEF StoredInit, ReadKept
<1>2. ReadKept /\ [StoredNext]_storedVars => ReadKept'
  <2> SUFFICES ASSUME ReadKept, [StoredNext]_storedVars, part' = "archive" PROVE ReadInv'
    BY DEF ReadKept
  <2>1. CASE part = "archive" /\ Archives!Next
    <3>1. CASE Archives!LoadNext
      BY <2>1, <3>1, LoadKept, MistakenKept DEF ReadKept
    <3>2. CASE Archives!SaveNext \/ Archives!Store \/ Archives!Done
      BY <2>1, <3>2, SaveKept, StoreKept, DoneKept DEF ReadKept
    <3> QED BY <2>1, <3>1, <3>2 DEF Archives!Next
  <2>2. CASE UNCHANGED storedVars
    BY <2>2, ReadStutter DEF ReadKept, storedVars
  <2> QED BY <2>1, <2>2 DEF StoredNext
<1>3. ReadKept => RecordsReadBack
  BY ReadMeans DEF ReadKept, RecordsReadBack
<1> QED BY <1>1, <1>2, <1>3, PTL DEF StoredSpec
=============================================================================
