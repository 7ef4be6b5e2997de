--------------------------- MODULE RedisDatabase ----------------------------
(***************************************************************************)
(* redis_database.hpp: one connection to Redis shared by every coroutine   *)
(* that calls connect(), one at a time under a sync_lock (FifoLock here;   *)
(* AsyncMutex implements it).  The holder pings the connection left by its *)
(* predecessor, replaces it if the ping fails, and runs its callback, which*)
(* sends commands and reads one reply to each (redis_client::command).     *)
(*                                                                         *)
(* Replies carry no identifier: a reply belongs to the oldest command not  *)
(* answered yet.  What keeps a coroutine from reading the reply to a       *)
(* command its predecessor gave up on is the iostream: an exception thrown *)
(* by socket_streambuf leaves badbit set, so the next use of the stream    *)
(* throws, the ping fails and the connection is replaced.                  *)
(***************************************************************************)
EXTENDS FifoLock, Naturals

CONSTANT MaxCommands   \* bound: commands one callback sends

ASSUME RedisAssumption == MaxCommands \in Nat

VARIABLES
  st,     \* st[c]: where coroutine c is in connect()
  sent,   \* commands the holder's callback has sent
  conn,   \* connection_: "none", "good", or "bad" (its stream throws)
  wire,   \* the commands sent on connection_ whose replies were not read
  mixed,  \* history: a coroutine read the reply to another one's command
  ret     \* ret[c]: how c's last connect() ended

vars == <<waiting, holder, st, sent, conn, wire, mixed, ret>>

InCall == {"check", "pinging", "connecting", "callback", "command", "unlocking"}

TypeOK == /\ waiting \in Seq(Clients)
          /\ holder \in Clients \cup {None}
          /\ st \in [Clients -> {"idle", "waiting"} \cup InCall]
          /\ sent \in 0 .. MaxCommands
          /\ conn \in {"none", "good", "bad"}
          /\ wire \in Seq(Clients)
          /\ mixed \in BOOLEAN
          /\ ret \in [Clients -> {"none", "returned", "threw"}]

Init == /\ FifoInit
        /\ st = [c \in Clients |-> "idle"]
        /\ sent = 0
        /\ conn = "none"
        /\ wire = <<>>
        /\ mixed = FALSE
        /\ ret = [c \in Clients |-> "none"]

At(c, s) == st[c] = s

Goto(c, s) == st' = [st EXCEPT ![c] = s]

Leave(c, r) == Goto(c, "unlocking") /\ ret' = [ret EXCEPT ![c] = r]

-----------------------------------------------------------------------------
(* sync_lock lock(mutex_) *)

Call(c) == /\ At(c, "idle")
           /\ Request(c)
           /\ Goto(c, "waiting")
           /\ UNCHANGED <<sent, conn, wire, mixed, ret>>

Enter == /\ Grant
         /\ Goto(holder', "check")
         /\ sent' = 0
         /\ UNCHANGED <<conn, wire, mixed, ret>>

\* ~sync_lock, on return and on every exception.
Unlock(c) == /\ At(c, "unlocking")
             /\ Release(c)
             /\ Goto(c, "idle")
             /\ UNCHANGED <<sent, conn, wire, mixed, ret>>

-----------------------------------------------------------------------------
(* redis_client::command: write the request and flush, read one reply. *)

\* A stream without error bits sends the request.
Send(c) == conn = "good" /\ wire' = Append(wire, c)

\* Reading a reply takes the answer to the oldest request.
ReadReply(c) == /\ wire # <<>>
                /\ wire' = Tail(wire)
                /\ mixed' = (mixed \/ Head(wire) # c)

\* Mutant of Poison: the exception leaves no error bit on the stream.
PoisonForgotten == conn' = conn /\ UNCHANGED <<wire, mixed>>

\* The streambuf throws (timeout, interruption, network error) or reaches the
\* end: the stream keeps its error bits, the reply may still be on its way.
Poison == conn' = "bad" /\ UNCHANGED <<wire, mixed>>

-----------------------------------------------------------------------------
(* The holder of the lock. *)

\* if (connection_) connection_->ping()
Ping(c) == /\ At(c, "check")
           /\ Send(c)
           /\ Goto(c, "pinging")
           /\ UNCHANGED <<waiting, holder, sent, conn, mixed, ret>>

\* Any reply that is not an error will do.
PingAnswered(c) == /\ At(c, "pinging")
                   /\ ReadReply(c)
                   /\ Goto(c, "callback")
                   /\ UNCHANGED <<waiting, holder, sent, conn, ret>>

\* catch (...): connection_.reset().  The stream has error bits already, the
\* peer closed the connection, or the reply is an error.
PingFails(c) == /\ \/ At(c, "check") /\ conn = "bad"
                   \/ At(c, "pinging")
                /\ conn' = "none"
                /\ wire' = <<>>
                /\ Goto(c, "connecting")
                /\ UNCHANGED <<waiting, holder, sent, mixed, ret>>

\* catch (interrupted_exception&): rethrown, the connection stays.
PingInterrupted(c) == /\ At(c, "pinging")
                      /\ Poison
                      /\ Leave(c, "threw")
                      /\ UNCHANGED <<waiting, holder, sent>>

\* if (!connection_)
NeedConnection(c) == /\ At(c, "check")
                     /\ conn = "none"
                     /\ Goto(c, "connecting")
                     /\ UNCHANGED <<waiting, holder, sent, conn, wire, mixed, ret>>

Connect(c) == /\ At(c, "connecting")
              /\ conn' = "good"
              /\ wire' = <<>>
              /\ Goto(c, "callback")
              /\ UNCHANGED <<waiting, holder, sent, mixed, ret>>

ConnectFails(c) == /\ At(c, "connecting")
                   /\ Leave(c, "threw")
                   /\ UNCHANGED <<waiting, holder, sent, conn, wire, mixed>>

\* callback(*connection_): get and set.
SendCommand(c) == /\ At(c, "callback")
                  /\ sent < MaxCommands
                  /\ Send(c)
                  /\ sent' = sent + 1
                  /\ Goto(c, "command")
                  /\ UNCHANGED <<waiting, holder, conn, mixed, ret>>

CommandAnswered(c) == /\ At(c, "command")
                      /\ ReadReply(c)
                      /\ Goto(c, "callback")
                      /\ UNCHANGED <<waiting, holder, sent, conn, ret>>

\* An error reply, or one of the wrong type: redis_exception, the reply is read.
CommandRefused(c) == /\ At(c, "command")
                     /\ ReadReply(c)
                     /\ Leave(c, "threw")
                     /\ UNCHANGED <<waiting, holder, sent, conn>>

\* Mutant of CommandFails: an exception leaves connect() without unlocking.
CommandFailsLocked(c) == /\ At(c, "command")
                         /\ Poison
                         /\ Goto(c, "idle") /\ UNCHANGED ret
                         /\ UNCHANGED <<waiting, holder, sent>>

CommandFails(c) == /\ At(c, "command")
                   /\ Poison
                   /\ Leave(c, "threw")
                   /\ UNCHANGED <<waiting, holder, sent>>

\* The callback returns, or throws of its own accord.
CallbackEnds(c) == /\ At(c, "callback")
                   /\ \E r \in {"returned", "threw"} : Leave(c, r)
                   /\ UNCHANGED <<waiting, holder, sent, conn, wire, mixed>>

-----------------------------------------------------------------------------
HolderStep(c) == \/ Ping(c) \/ PingAnswered(c) \/ PingFails(c) \/ PingInterrupted(c)
                 \/ NeedConnection(c) \/ Connect(c) \/ ConnectFails(c)
                 \/ SendCommand(c) \/ CommandAnswered(c) \/ CommandRefused(c)
                 \/ CommandFails(c) \/ CallbackEnds(c) \/ Unlock(c)

Next == Enter \/ \E c \in Clients : Call(c) \/ HolderStep(c)

\* The holder waits for Redis.
AtRedis(c) == st[c] \in {"pinging", "connecting", "command"}

\* The lock is granted in turn (AsyncMutex), and code between calls ends.  That a
\* call ends is CallsEnd's matter.
Fairness == WF_vars(Enter) /\ \A c \in Clients : WF_vars(~AtRedis(c) /\ HolderStep(c))

Spec == Init /\ [][Next]_vars

FairSpec == Spec /\ Fairness

-----------------------------------------------------------------------------
(* Properties *)

\* No coroutine reads the reply to another coroutine's command, whatever
\* timeouts and interruptions left on the wire (redis_client.hpp:27-36).
RepliesMatch == ~mixed

\* A connection whose stream still works owes no reply to anybody but the
\* coroutine waiting for it now: one that was given up is never reused
\* (redis_database.hpp:33-51).
HandedOverClean ==
  conn = "good" =>
    \/ wire = <<>>
    \/ /\ Len(wire) = 1
       /\ st[Head(wire)] \in {"pinging", "command"}

\* A callback runs with a connection that exists and works, on a coroutine that
\* holds the lock (redis_database.hpp:53-56).
CallbackConnected ==
  \A c \in Clients : st[c] \in {"callback", "command"} => conn = "good" /\ holder = c

\* What coroutines share of the connection, each one finds as if it were alone: all of the above.
SharedSafely == RepliesMatch /\ HandedOverClean /\ CallbackConnected

\* Every call to Redis ends: each has a timeout (Sync).  The exception is a call
\* made of several steps, the connect to one of several addresses or any over
\* TLS, whose cancel() fell between two of them (client.hpp:79-83).
CallsEnd == \A c \in Clients : []<>~AtRedis(c)

\* If every call ends, every connect() returns or throws, and so lets the next one
\* in: no path leaves the lock held (redis_database.hpp:31).
ConnectEnds == CallsEnd => \A c \in Clients : st[c] = "waiting" ~> st[c] = "idle"
=============================================================================
