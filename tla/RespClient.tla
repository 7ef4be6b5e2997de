----------------------------- MODULE RespClient -----------------------------
(***************************************************************************)
(* redis_client.hpp and resp.hpp: the commands, the reply parser and the   *)
(* conversion of a reply to the result of the method.  The redis server is *)
(* external: it answers what its protocol says, and keeps a transaction.   *)
(*                                                                         *)
(* A reply is the sequence of its tokens; a bulk string, read by its       *)
(* length, is one.  A stream that fails is RedisDatabase's subject.        *)
(***************************************************************************)
EXTENDS Naturals, Sequences, FiniteSets, SequencesExt

CONSTANTS MaxQueued,  \* bound on the commands of a transaction
          Idle        \* no method

(***************************************************************************)
(* The methods of redis_client by section, and how each reads its reply.   *)
(***************************************************************************)
Connection == [check_error |-> {"auth", "ping", "quit", "select"}]

Keys == [as_integer |-> {"del", "exists", "expire", "expireat", "move", "object_refcount", "object_idletime",
                         "persist", "pexpire", "pexpireat", "pttl", "renamenx", "ttl", "wait"},
         as_string |-> {"dump", "object_encoding", "type"}, as_string_optional |-> {"randomkey"},
         as_array |-> {"keys", "sort", "scan"}, check_error |-> {"rename", "restore"}]

Lists == [as_array |-> {"blpop", "brpop", "lrange"},
          as_string_optional |-> {"brpoplpush", "lindex", "lpop", "rpop", "rpoplpush"},
          as_integer |-> {"linsert", "llen", "lpush", "lpushx", "lrem", "rpush", "rpushx"},
          check_error |-> {"lset", "ltrim"}]

Hashes == [as_integer |-> {"hdel", "hexists", "hincrby", "hlen", "hset", "hsetnx", "hstrlen"},
           as_string_optional |-> {"hget"}, as_string |-> {"hincrbyfloat"},
           as_array |-> {"hgetall", "hkeys", "hmget", "hvals", "hscan"}, check_error |-> {"hmset"}]

Strings == [as_integer |-> {"append", "bitcount", "bitop_and", "bitop_or", "bitop_xor", "bitpos",
                            "decr", "decrby", "getbit", "incr", "incrby"},
            as_string_optional |-> {"get", "getset"}, as_string |-> {"getrange", "incrbyfloat"},
            as_array |-> {"mget"}]

MoreStrings == [as_integer |-> {"msetnx", "setbit", "setrange", "strlen"},
                check_error |-> {"mset", "set", "set_ex", "set_px", "setnx", "setnx_ex", "setnx_px",
                                 "setxx", "setxx_ex", "setxx_px"}]

Sets == [as_integer |-> {"sadd", "scard", "sdiffstore", "sinterstore", "sismember", "smove", "srem",
                         "sunionstore"},
         as_array |-> {"sdiff", "sinter", "smembers", "spop_count", "srandmember_count", "sunion", "sscan"},
         as_string_optional |-> {"spop", "srandmember"}]

SortedSets == [as_integer |-> {"zadd", "zaddnx", "zaddxx", "zcard", "zcount", "zinterstore", "zlexcount",
                               "zrem", "zremrangebylex", "zremrangebyrank"},
               as_string |-> {"zincrby"}, as_integer_optional |-> {"zrank"},
               as_array |-> {"zrange", "zrange_withscores", "zrangebylex", "zrevrangebylex", "zrangebyscore"}]

MoreSortedSets == [as_integer |-> {"zremrangebyscore", "zunionstore"}, as_string |-> {"zscore"},
                   as_integer_optional |-> {"zrevrank"},
                   as_array |-> {"zrevrange", "zrevrange_withscores", "zrevrangebyscore", "zscan"}]

Transactions == [check_error |-> {"discard", "multi", "unwatch", "watch"}, as_array |-> {"exec"}]

Sections == {Connection, Keys, Lists, Hashes, Strings, MoreStrings, Sets, SortedSets, MoreSortedSets,
             Transactions}
Methods == UNION {UNION {s[c] : c \in DOMAIN s} : s \in Sections}
Conversion(m) == CHOOSE c \in UNION {DOMAIN s : s \in Sections} :
                   \E s \in Sections : c \in DOMAIN s /\ m \in s[c]

\* What the constants satisfy; assumed where they are given values.
RespAssumption == MaxQueued \in Nat /\ Idle \notin Methods

\* The replies a conversion returns a value for; it throws for the others, errors first.
Accepting == [check_error |-> {"+", "$", ":", "*", "nil"},
              as_string |-> {"+", "$"}, as_string_optional |-> {"+", "$", "nil"},
              as_integer |-> {":"}, as_integer_optional |-> {":", "nil"}, as_array |-> {"*"}]

Accepted(c) == Accepting[c]

(***************************************************************************)
(* The server.                                                             *)
(***************************************************************************)
Token(type) == [type |-> type, size |-> 0]
Array(n) == [type |-> "*", size |-> n]

BulkMethods == {"dump", "object_encoding", "randomkey", "brpoplpush", "lindex", "lpop", "rpop", "rpoplpush",
                "hget", "hincrbyfloat", "get", "getset", "getrange", "incrbyfloat", "spop", "srandmember",
                "zincrby", "zscore"}
ArrayMethods == {"keys", "sort", "scan", "blpop", "brpop", "lrange", "hgetall", "hkeys", "hmget", "hvals",
                 "hscan", "mget", "sdiff", "sinter", "smembers", "spop_count", "srandmember_count", "sunion",
                 "sscan", "zrange", "zrange_withscores", "zrangebylex", "zrevrangebylex", "zrangebyscore",
                 "zrevrange", "zrevrange_withscores", "zrevrangebyscore", "zscan", "exec"}
StatusMethods == {"auth", "ping", "quit", "select", "type", "rename", "restore", "lset", "ltrim", "hmset",
                  "mset", "set", "set_ex", "set_px", "setnx", "setnx_ex", "setnx_px", "setxx", "setxx_ex",
                  "setxx_px", "discard", "multi", "unwatch", "watch"}
NilMethods == (BulkMethods \ {"hincrbyfloat", "getrange", "incrbyfloat", "zincrby"})
              \cup {"object_refcount", "object_idletime", "blpop", "brpop", "zrank", "zrevrank", "exec",
                    "setnx", "setnx_ex", "setnx_px", "setxx", "setxx_ex", "setxx_px"}

ReplyType(m) == IF m \in BulkMethods THEN "$" ELSE IF m \in ArrayMethods THEN "*"
                ELSE IF m \in StatusMethods THEN "+" ELSE ":"

\* Arrays: empty, with a nil in it, and nested as the scans have it.
Arrays == {<<Array(0)>>, <<Array(2), Token("$"), Token("nil")>>,
           <<Array(2), Token("$"), Array(2), Token("$"), Token("$")>>}
Results(m) == (IF ReplyType(m) = "*" THEN Arrays ELSE {<<Token(ReplyType(m))>>})
              \cup (IF m \in NilMethods THEN {<<Token("nil")>>} ELSE {})
Error == <<Token("-")>>

VARIABLES method,   \* the method under way
          wire,     \* what is left to read of the replies
          stack,    \* read_response: the elements still to come, per array begun
          type,     \* the type of the outermost reply
          multi,    \* server: a transaction is open,
          queued, results, \* the number of its commands, and what they will result in
          inMulti,  \* history: the method was called in a transaction
          outcome   \* what the last method did

vars == <<method, wire, stack, type, multi, queued, results, inMulti, outcome>>

Init == /\ method = Idle /\ wire = <<>> /\ stack = <<>> /\ type = "none"
        /\ multi = FALSE /\ queued = 0 /\ results = <<>> /\ inMulti = FALSE /\ outcome = "none"

Reply(m, reply) ==
  /\ method = Idle /\ method' = m
  /\ wire' = wire \o reply /\ stack' = <<1>> /\ type' = "none" /\ outcome' = "none"
  /\ inMulti' = multi

Call(m) == /\ ~multi /\ m \notin {"exec", "discard", "multi"}
           /\ \E reply \in Results(m) \cup {Error} : Reply(m, reply)
           /\ UNCHANGED <<multi, queued, results>>

\* What a command of a transaction results in: an array has one element here, and any may fail.
Queued(m) == {Error, IF ReplyType(m) = "*" THEN <<Array(1), Token("$")>> ELSE <<Token(ReplyType(m))>>}

CallQueued(m) == /\ multi /\ m \notin {"exec", "discard", "multi", "watch"}
                 /\ queued < MaxQueued
                 /\ \/ /\ Reply(m, <<Token("+")>>)
                       /\ queued' = queued + 1
                       /\ \E result \in Queued(m) : results' = results \o result
                    \/ Reply(m, Error) /\ UNCHANGED <<queued, results>>
                 /\ UNCHANGED multi

Multi == /\ Reply("multi", IF multi THEN Error ELSE <<Token("+")>>)
         /\ multi' = TRUE /\ UNCHANGED <<queued, results>>

Discard == /\ Reply("discard", IF multi THEN <<Token("+")>> ELSE Error)
           /\ multi' = FALSE /\ queued' = 0 /\ results' = <<>>

\* All results, or nil when a watched key has changed, or an error when a command was refused.
Exec == /\ multi
        /\ \E reply \in {<<Array(queued)>> \o results, <<Token("nil")>>, Error} : Reply("exec", reply)
        /\ multi' = FALSE /\ queued' = 0 /\ results' = <<>>

(***************************************************************************)
(* read_response.  An element is complete: so are the arrays it ends.      *)
(***************************************************************************)
\* Mutant of Complete: an array inside ends the reply
CompleteInner(s) == IF Last(s) > 1 THEN [s EXCEPT ![Len(s)] = @ - 1] ELSE <<>>

Complete(s) == LET open == {i \in DOMAIN s : s[i] > 1}
                   n == CHOOSE i \in open : \A j \in open : j <= i
               IN IF open = {} THEN <<>> ELSE [SubSeq(s, 1, n) EXCEPT ![n] = @ - 1]

ReadToken == LET t == Head(wire) IN
             /\ stack # <<>> /\ wire # <<>>
             /\ wire' = Tail(wire)
             /\ type' = IF type = "none" THEN t.type ELSE type
             /\ stack' = IF t.size > 0 THEN Append(stack, t.size) ELSE Complete(stack)
             /\ UNCHANGED <<method, multi, queued, results, inMulti, outcome>>

\* The conversion returns a value or throws.
Convert == /\ method # Idle /\ stack = <<>> /\ outcome = "none"
           /\ outcome' = IF type \in Accepted(Conversion(method)) THEN "value" ELSE "refused"
           /\ UNCHANGED <<method, wire, stack, type, multi, queued, results, inMulti>>

Return == /\ outcome # "none"
          /\ method' = Idle /\ outcome' = "none" /\ type' = "none" /\ inMulti' = FALSE
          /\ UNCHANGED <<wire, stack, multi, queued, results>>

Next == \/ \E m \in Methods : Call(m) \/ CallQueued(m)
        \/ Multi \/ Discard \/ Exec \/ ReadToken \/ Convert \/ Return

Spec == Init /\ [][Next]_vars
-----------------------------------------------------------------------------
\* Elements of the longest array.
Longest == IF MaxQueued > 2 THEN MaxQueued ELSE 2

TypeOK == /\ method \in Methods \cup {Idle} /\ outcome \in {"none", "value", "refused"}
          /\ type \in {"none", "+", "$", ":", "*", "-", "nil"}
          /\ \A i \in DOMAIN stack : stack[i] \in 1 .. Longest
          /\ Len(stack) <= 3 /\ queued \in 0 .. MaxQueued

\* A method that has read its reply, to return it or to throw, has read all of it and nothing
\* more: the next one finds the start of its own.
ReplyReadWhole == stack = <<>> => wire = <<>>

\* A value is returned only for a result of the type the server gives for this method, absent
\* keys included.
NeverMisread == outcome = "value" /\ ~inMulti => type \in {ReplyType(method), "nil"}

\* In a transaction the only value that is not the method's result is the status "QUEUED", taken
\* for a string.
QueuedIsStatus == outcome = "value" /\ inMulti /\ type # ReplyType(method) =>
                        type = "+" /\ Conversion(method) \in {"as_string", "as_string_optional", "check_error"}

\* Outside transactions a method refuses an error, and nil if it has no way to return it: these
\* are the methods for which an absent key or a timeout is an exception.
NilRefused == outcome = "refused" /\ ~inMulti =>
                type = "-" \/ (type = "nil" /\ method \in {"dump", "object_refcount", "object_encoding",
                                                           "object_idletime", "blpop", "brpop", "zscore"})

\* exec() returns the results only if the transaction was carried out.
ExecAllOrNothing == method = "exec" /\ outcome = "value" => type = "*"
=============================================================================
