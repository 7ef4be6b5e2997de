# Verification of kumori

kumori is a header-only C++ library for HTTP servers: coroutines over
Boost.Asio, a connection pool, HTTP/1.1, a content tree, sessions kept in Redis,
OAuth. This directory holds its TLA+ specifications, the TLC configurations that
check them on small instances and TLAPS proofs of what must hold on every
instance. All sources are under `src/include/kumori/`; line numbers below refer
to the files there. Lines for each definition are in `PROJECT.json` ("map").

Run `tlc -config X.cfg M` for the runs listed below and `tlapm M.tla` for the
proof modules.

## The system

| Component | State | Operations | Interacts with |
|---|---|---|---|
| Coroutines (`sync.hpp`) | the two execution contexts, `mutex_` (held while the coroutine runs), `timer_`, `interrupted_`, the thread-local `current_impl()` | `resume`, `suspend`, `suspend_for`, `interrupt`, `current` | io threads resume it from handlers; `interrupt` comes from the thread in `server::stop` |
| Timed calls (`socket_adaptor.hpp`, `secure_socket.hpp`, `client.hpp`) | `error`, `length` on the coroutine's stack, captured by the completion handler | `read_some`, `write_some`, `handshake`, `connect` | coroutine, sockets, resolver |
| Coroutine mutex (`async_mutex_service.hpp`, `sync_lock.hpp`) | `queue_`, `unlock_`, `shutdown_`, a thread and a condition variable; one service per io_service whatever the number of mutexes | `async_lock`, `unlock`, `run`, `shutdown_service` | posts callbacks that resume coroutines |
| Server (`server.hpp`, `server_context.hpp`) | two acceptors, the contexts, the lock-free stack of free ones, `running_` | `start`, `stop`, accept handler, `on_ready`; the context's `run` | coroutines, sockets, the logger |
| IO threads (`io_processor.hpp`, `main.cpp`) | the threads | `run`, `join`, `join_signal` | run every handler, and `stop()` from a signal handler |
| Redis database (`redis_database.hpp`, `redis_client.hpp`, `resp.hpp`) | `connection_`, its stream with its error bits, the bytes in flight | `connect`, `command` | coroutine mutex, timed calls |
| Stream buffer (`socket_streambuf.hpp`) | get and put areas | `underflow`, `overflow`, `sync` | timed calls |
| HTTP connection (`http_server.hpp`, `http_server_context.hpp`) | keep-alive count, whether headers were written, the filter chain of the body | `on_connected`, `read_headers`, `write_headers`, `finish_write`, error documents | stream, content tree |
| HTTP data (`http_request.hpp`, `http_response.hpp`, `http_context.hpp`, `http_cookie.hpp`, `url*.hpp`) | header fields, cookies | parsing and formatting | connection |
| Body codecs (`chunked_*.hpp`, `limit_length_filter.hpp`) | bytes left in the chunk or body | `read`, `write` | streams |
| HTTP client (`http_client.hpp`) | one stream | `get`, `post` | codecs, OAuth |
| Sessions (`session_manager.hpp`) | a request's copy of the session; the session, user-id and user-info keys | constructor, `begin_oauth`, `verify_oauth_token`, `sign_in`, `sign_out`, `verify_csrf_token` | Redis database |
| Content tree (`directory_content.hpp`, `static_content.hpp`, `regex_content.hpp`) | named and expression children, one body per encoding | insert, load, lookup | HTTP connection |
| OAuth (`oauth*.hpp`) | none of its own | redirect and callback | sessions, HTTP client |
| Serialization (`*_archive.hpp`, `string_code.hpp`) | a byte string | encode, decode keys and values | Redis database |

### What is hard in it, and what makes it correct

* **Coroutines and timed calls.** Two handlers, on two threads, both resume the
  coroutine and one of them writes into its stack. Correct means: one resume per
  suspension, none to a running or ended coroutine; no handler outlives the
  frame it captured; a call whose operation finished is not reported as timed
  out; every call returns after its timeout.
* **Mutex.** A thread, a condition variable with two predicates, callbacks that
  may run before the coroutine has suspended. Correct means: exclusion, FIFO
  grants, no lost notification, `unlock_` never set twice, shutdown returns.
* **Server.** Contexts travel between a lock-free stack, accept handlers,
  coroutines and `stop()`. Correct means: each context is in one place, a
  connection never inherits or loses a socket, listeners keep accepting, `stop()`
  returns and destroys nothing that is still used.
* **Redis.** One connection, replies without identifiers, coroutines that give
  up half way. Correct means: nobody reads another's reply, and the lock is
  released on every path.
* **HTTP, sessions, contents, encodings.** Sequences of requests on one stream,
  concurrent requests of one session, partial failures, numbers at their limits.

## Modules

| Module | Models | Run |
|---|---|---|
| `TimedCall` | what a caller may expect of a timed call (abstract) | |
| `Sync`, `MCSync` | coroutines, handlers, timers, `interrupt` | `SyncSafety`, `SyncLive` |
| `FifoLock` | a FIFO lock (abstract) | |
| `AsyncMutex`, `MCAsyncMutex` | the lock service and `sync_lock` | `AsyncMutex` |
| `Server`, `MCServer` | start, accept, the pool, stop | `Server`, `ServerSuspend` |
| `IoProcessor`, `MCIoProcessor` | the io threads, the signal, `join()` | `IoProcessor` |
| `RedisDatabase`, `MCRedisDatabase` | `connect()` over `FifoLock` | `RedisDatabase` |
| `Session`, `MCSession` | the session manager, OAuth's two steps, the csrf page | `Session` |
| `HttpServer`, `MCHttpServer` | the requests of one connection | `HttpServer` |
| `Streambuf`, `Url`, `HeaderParser`, `Cookie`, `Body`, composed by `Message`, `MCMessage` | what lies between the socket and a handler | `Message` |
| `Archive`, `RespClient`, composed by `Stored`, `MCStored` | what goes to redis and comes back | `Stored` |
| `DirectoryContent`, `StaticContent`, composed by `Content`, `MCContent` | the content tree and what it answers | `Content` |
| `SyncProofs`, `ServerProofs`, `RedisProofs` (of `RedisDatabase` and both parts of `Stored`), `ContentAndMutexProofs` (of `Content` and `AsyncMutex`), `BodyProofs` (of the body of `Message`), `HttpServerProofs` (of `HttpServer` and the headers of `Message`), `SessionProofs` (of `Session` and the cookies of `Message`), `IoProofs` (of `IoProcessor` and the stream and targets of `Message`) | theorems | |

They stack up: `Sync` implements `TimedCall`, `AsyncMutex` implements `FifoLock`,
`RedisDatabase` is written over `FifoLock` and assumes of a command what
`TimedCall` and `Sync` establish (it ends: answered, refused or interrupted);
`Server` assumes the same of a connection's coroutine once it is interrupted.
`Session` takes a database callback as one action, which `RedisDatabase` justifies
(the holder of its lock is alone), and may see any of its commands fail.
`HttpServer` treats heads and bodies as tokens; `HeaderParser`, `Url` and `Body` are
what turns bytes into these tokens, over the stream of `Streambuf`.

`Message`, `Stored` and `Content` each put components into one state
machine (`MCMessage`, `MCStored` and `MCContent` give their constants values). The parts of one of them are used one after the other and share nothing
but the position in a stream or a byte string, so an interleaving of two would show
nothing that either does not show alone: the first state chooses the part.

Definitions called "Mutant of X" are plausible mistakes in the code. Nothing
uses them in a run; substituting one for X makes the property named in
`PROJECT.json` fail, which shows that the property depends on that code.

### Sync

`pc[c]` is the statement the coroutine is at; `owner[c]` the thread that holds
its `mutex_` and runs it; `at[t]` the handler a thread executes, from the time it
takes it from the io_service until the coroutine it resumed suspends (`resume`
returns then). `op`, `timer`, `wake` follow the three things that can resume a
coroutine: `pending`, handler `ready` in the io_service, `taken` by a thread,
`idle` once it has entered the coroutine. `cur[t]` is the thread-local pointer: `suspend`
clears it, `run()` returning does not (`End`), so a thread may keep a pointer to a coroutine that has
ended until it resumes another. An operation of a coroutine in `Secure`
has several steps, with an intermediate handler between two of them
(`"between"`): that is what a TLS read, write or handshake and `async_connect` are.
"Finished" covers success and every network error other than
`operation_aborted`; the code treats them alike as far as waiting is concerned.
`interrupt()` is three steps because `deadline_timer` is not thread safe and
`suspend_for` uses it at the same time; a single flag of the timer is shared
(`might`), and the model interleaves the two at the granularity of its reads and
writes. Other tearing the data race could cause is outside the model.

### AsyncMutex

One action per critical section of the `std::mutex`, one per `notify_one`
(called after the mutex is released) and one per step of the service thread.
`asleep` is the thread inside `cv_.wait`; it may wake spuriously. A queued
operation is the client that queued it. `op` stays the popped operation until
`unlock_` has been taken, so that the abstract holder is
`IF unlock THEN None ELSE op`. Shutdown happens when no handler is half way
through, because the io_service is destroyed after its threads were joined.

### Server

One action per access to a shared object. `th[t]` is what a thread executes,
with the listener, context and socket in its local variables. `ctx[c]` says
whether c's coroutine is parked in `run()`, active on a thread between two
connections, serving, hung in a call of a TLS connection that lost its `cancel()` (`CancelLost`; the
peer may still end it, `PeerMoves`), dead (an exception left `run()`) or gone (destroyed).
`conn[c]` is `socket_`; a "broken" socket is one whose `remote_endpoint()` throws:
reset by the peer, or never opened because accept failed. After the use of a
destroyed object (`ub`) the model stops: what the program does then is unknown.
`StartFails` leaves the first acceptor open, as the code does.

### RedisDatabase

`wire` is the sequence of commands whose replies have not been read. Reading
takes its head, whoever reads: that is all a connection without identifiers can
do. `conn` is "bad" when the iostream has error bits, which is how the code
notices that a predecessor gave up. `PingAnswered` accepts any reply, as
`check_error` does.

### IoProcessor

`waiting` and `ready` are the operations the io_service has and the handlers it can
run; it stops when there is neither and no handler is at work. An accept handler
starts the next accept (`Rearm`), pops a context and enters its coroutine (`Pop`), or throws when
the socket cannot be made, and the thread's loop goes on. A context has one operation at a time, the
call its coroutine waits for. The signal's handler is `server::stop()`, on the thread that took it: it
closes the acceptors, whose waiting accepts are aborted (a completed one is handled later and accepts
again on the closed acceptor), then takes the contexts that are free, pass after pass, while the other
threads bring back the rest (`Drain`), and destroys the server when it has them all. A thread that
uses an acceptor or the stack afterwards has `crashed`, and nothing happens any more. `hung` are
the contexts whose call lost its `cancel()`. `Server` has the same code step by step; here it is the load
under which threads, exceptions and `join()` are looked at.

### Session

A request is a coroutine: it loads the session its cookie names, or makes one, and
then does what its kind does, one action for each database callback. `copy` is the
request's own session, which every write stores as a whole; `now` is the time the
constructor read. Expiry, a callback with any token, a failing command in the middle
of `sign_in`, and the answer of the provider are choices. `overlapped` remembers
the sessions that two requests used at once. The user id is stored as an
`optional<uuid>` and read as a `uuid`: `Misread(id)` is what comes out (`Archive` shows
the bytes).

### HttpServer

A request is a record of what the code distinguishes: method, framing of the body,
`Expect`, whether it asks to keep the connection, and whether its head is well
formed, malformed or lacks `Host`. The client sends the tokens of a request,
pipelines the next ones, holds a body back until it reads `100 Continue` if it
announced so, and closes at any point. `pc` follows `on_connected`; the handler is
free: it writes a head with any framing, writes pieces, returns (also without having written a
head, `HandlerIsSilent`), throws any of the exceptions the loop tells apart, or is interrupted, and
may not notice that a write failed. A body may announce a negative length, which passes the
checks against the maximum and of which nothing is read, or have a chunk of negative size
(`AfterHead`, `AfterPart`). A refusal, by the loop or by a handler, has a status with a document in the
configuration or without one (`Refusal`). `held` says that the client keeps a call of the server from
returning: with a character now and then in a head or an ignored value, whose length nothing
limits, or by its silence in a TLS call that lost its `cancel()`. `client` is what the client has understood of the answers. `written` is what has been
written of the response under way, so that it can be said what the client makes of it.

### Streambuf, Url, HeaderParser, Cookie, Body

`Streambuf` has both areas of the buffer with the positions of the code; a read or
write returns a part or throws; `late` is the position after which characters may
be lost or repeated. `Url` runs `decode_url` symbol by symbol, with the iterator that
takes the two characters after a "%" before it looks at either, against the definition by its encoder;
what it finds behind the string (`At`) is its zero and then anything; a target over `PathLimit`
(`maximum_path_length`) is refused before; the tokenizer cuts
a parameter off (`token`) when the one before it was stored, out of what is left (`Left`).
`HeaderParser` is the state machine of `read_entity_headers`, limits included. `Cookie`
is both formats in both directions; a line comes through `read_header_value`, which leaves one blank
where there were several or a tab (`Collapse`) and refuses what is then longer than `LineLimit`. `Body` has `chunked_encoder`, `chunked_decoder`,
`limit_length_filter`, `to_hex` and `to_integer`, over bytes, with buffers of any size
and a peer that may close at any byte. `Contents` are the bytes written, in pieces; `Width` is the number of bits of
`std::streamsize` (64 in the code, 16 in the run) and `SizeChars` how many characters of a size the
decoder reads, its line end included (10 in the code, 4 in the run): a chunk of `TooLong` bytes has a
digit more. That `std::stoll` also takes white space and "0x" in front of a number is left out: no encoder
writes them.
What the proofs need of their constants is what the code gives them: a body's length is a
`std::streamsize`, whose bits are a multiple of eight, and a size that is read fits it
(`BodyAssumption`), a header limit is at least 1, and names, values, paths,
parameters and raw targets are texts over the symbols the code tells apart (`HeaderAssumption`,
`CookieAssumption`, `UrlAssumption`).

### Archive, RespClient

`Archive` writes two records of the same types side by side, so that the order of
keys can be compared, and reads the first one back. Integers keep their width; a
byte has `B` values and `Power[n]` is `B` to the n. `Values` says what the values of a type are,
`Samples` which of them the records are filled with. `RespClient` sends every method of `redis_client` (grouped by the
reply its command has and the conversion that reads it) to a server that answers as
the protocol says, in and outside a transaction, and parses the tokens of the reply.
A queued command's result, which the server decides when it runs the transaction, is
chosen when the command is queued; nothing sees it earlier.

### DirectoryContent, StaticContent

`DirectoryContent` adds contents and expressions, loads a directory entry by entry in
any order, throwing where a path is taken, and looks requests up. `managed` are the
contents the directory owns: what the maps point to must be alive. A path is a sequence of
separators and names, and a directory one of them by turns that begins and ends with a
separator; the files of a tree may be in directories of any depth. `StaticContent`
keeps the encodings that make a content smaller; the content is replaced while a
client caches it and asks again with the tag and the date it got.

## Runs

| Run | Instance | What it shows |
|---|---|---|
| `SyncSafety` | a plain and a composed coroutine, two threads, both interrupted at will | resumes and suspensions in step, no dangling handler, written results, `current()`; what cancel reaches; refinement of `TimedCall` |
| `SyncLive` | one composed coroutine, two threads, interrupts | calls return, except one whose cancel was lost between two steps |
| `AsyncMutex` | four coroutines | exclusion, `BOOST_ASSERT(!unlock_)`, callbacks, notifications; refinement of `FifoLock`; every request granted; shutdown returns |
| `Server` | two contexts, two listeners, two io threads of which one stops | contexts conserved, clean sockets, listeners alive, stop counts right, `stop()` returns unless a coroutine died or a TLS call that lost its `cancel()` waits for ever |
| `ServerSuspend` | one context | expected violation, see Findings |
| `IoProcessor` | two threads, two acceptors, two contexts | no acceptor and no thread lost to an exception, no thread ends before `stop()` has; `join()` returns, with the exceptions named in `JoinReturns` |
| `RedisDatabase` | four coroutines, up to four commands each | replies match, connections are handed over clean, every `connect()` ends if every call to redis does |
| `Session` | two browsers, two requests at a time out of four, two ids, time to expire | who is signed in where; tokens; ids; only overlapping requests lose an update |
| `HttpServer` | two requests out of thirteen kinds, `MaximumKeepAlive` 2, two pieces | input in step, answers in order, no standoff over `100 Continue`, connections go on as announced and end unless one call is held for ever |
| `Message` | see `MCMessage` | partial reads and writes, targets, headers, cookies, bodies |
| `Stored` | see `MCStored` | records read back, keys in order, replies understood |
| `Content` | see `MCContent` | loading, lookup, conditional requests |

Why the bounds suffice. *Sync*: coroutines share nothing but the threads, so two
show every sharing; a call has two handlers, so two threads run both at once.
*AsyncMutex*: with four clients the queue holds several waiters while one holds
the lock and another unlocks; the proofs cover any number. *Server*: two
contexts and two listeners make the pool empty, contended and partly drained, and
two threads, of which one drains it, race over it; the proofs cover any numbers.
Connections are not bounded. One start/stop cycle is a bound: a second cycle begins
from the same state except for handlers left by the first, which `StrayAcceptIsLate`
characterises. *RedisDatabase*: `MaxCommands` is four because `sign_in`, the
longest callback, sends four; conn and wire are reset at each reconnection.
*Session*: a lost update takes two requests, another's token two browsers, a stable id
two sign-ins; four requests are two sign-ins by two steps each. *HttpServer*: the
second request meets whatever the first one left, and the limit of two makes it
the last one. *IoProcessor*: two threads as in `main.cpp`, one of which
spins in `stop()` while the other brings back two contexts; two acceptors so that one can be busy while the
other is closed. Connections are not bounded.
*Message*: buffers of two and three characters wrap and overflow with six; header
names and values stand on both sides of the limits; a path limit of 22
and a line limit of 16 refuse the longest of the targets and cookie lines; cookie values have two blanks
or a tab between words; lengths 16 and 17 have two digits, and
256 has three, one more than is read; all raw targets of up to five characters contain every position
of a "%" near the end. *Stored*: a byte of four values has carry, sign and borders as one of 256
has, and the records are filled with the values at the borders of each type; the proofs cover any
even `B` from four on, any values and any number of items. Three queued commands make an array longer than any that a method alone gets. *Content*: each file of the tree is there or not, so a content, its index
document and its name without extension can all be in each other's way.

Deadlock is checked where a run does not say that the modelled part ends. `Terminated`
says where the others may stop.

### Fairness

* Code between two waits is finite (weak fairness of coroutine and handler steps).
* A handler in the io_service queue is taken in its turn: the queue is FIFO, but
  the threads may be busy whenever one looks, hence strong fairness.
* The clock runs and a cancelled operation completes. Peers owe nothing.
* A lock holder leaves its critical section. In `RedisDatabase` this is weak fairness of its code between
  calls; that the calls end, by their timeouts, is the hypothesis of `ConnectEnds` (`CallsEnd`), because
  a call of several steps may lose its `cancel()`.
* A server connection ends once interrupted, since every call then throws, unless it is hung: while a
  call that lost its `cancel()` waits for its peer nothing is assumed, and `StopReturns` names it. A
  connection that nobody interrupts may go on forever.
* In `HttpServer` calls that the client does not hold return or time out and handlers return or throw
  (`WF_vars(~held /\ Server /\ held' = FALSE)`). The client owes nothing: it may hold a call for ever, and
  `ConnectionEnds` says so.
* In `IoProcessor` the threads and `main` run, a ready handler is taken in its turn and a signal comes. The call of
  an interrupted connection completes unless it lost its `cancel()`, and the connection ends. No connection need come.
* Nobody is obliged to start a call, lock, connect or wake spuriously.

## Proofs

No module declares a RECURSIVE operator (what is recursive is a function or a fold); each theorem holds for all values of the
constants that satisfy the named assumptions.

`ContentAndMutexProofs`, for any set of clients of the mutex (assumption: `None` is not a client):

* `IInv` is the inductive invariant. Exclusion and the assertion are not
  inductive: from an arbitrary state with `unlock_` set and an operation posted,
  two coroutines could enter. `ServiceOK` ties the popped operation, the posted
  callbacks and `unlock_` to the service thread's position; `HolderOK` says that
  whoever holds the lock or has a callback posted is that operation; `QueueOK`
  that queued operations belong to distinct waiting coroutines not yet served;
  `ShutdownOK` that nothing is half done once the io_service goes away. Each
  action preserves it (`ClientStepIInv`, `ServiceStepIInv`, `CloserStepIInv`).
* From it: `TypeCorrect`, `Mutex`, `AssertHolds`, `CallbackSafe`, `WakeupSafe` and
  `LockIsSafe`, their conjunction, which the run checks.
* `RefinesFifoLock`: Lock maps to Request, PopOp to Grant, Unlock to Release,
  ServiceExit to Release or a stutter, everything else to a stutter.

`SyncProofs`, for any coroutines and io threads (`SyncAssumption`: `None` is not
one of them nor a handler, and the composed and the interrupted coroutines are
coroutines):

* None of the safety invariants is inductive. `ResumeFindsSuspended`, for
  example, says nothing of two threads that carry the same handler. `ThreadsOK`
  adds that a handler that was taken is carried by one thread, and that the
  thread that runs a coroutine is still inside the handler that resumed it;
  `OwedOK` ties the operation, the timer wait and the announced resume to the
  statement the coroutine is at; `OutcomeOK` follows the error code from the
  operation to the frame; `CancelOK` says that an operation is cancelled only
  after its timer ran out or the coroutine was interrupted.
* Threads and coroutines are dealt with apart: the lemmas `Threads...` show that
  an action keeps `ThreadsOK`, the lemmas `Local...` that it keeps what is said of
  its coroutine; `LocalFrame` covers all the other coroutines.
* From it: `TypeCorrect`, `ResumeSafe`, `CaptureSafe`, `ResumesOwed`, `ResultSafe`,
  `CurrentSafe`, `CancelSafe`; `SwitchesSafe` and `FrameSafe` are the conjunctions the
  run checks.
* `RefinesTimedCall`: StartOp maps to Begin, FinishOp to Complete, TimerExpires to
  Expire, InterruptSet to Interrupt, EndCall to Return, everything else to a
  stutter.

`RedisProofs`, for any coroutines and any `MaxCommands`
(`RedisAssumption`, `FifoLockAssumption`):

* `RepliesMatch` alone is not inductive: the reply at the head of the wire has to
  be known to belong to whoever reads next. `LockOK` says that only the holder of
  the lock is inside `connect()`; `ConnOK` that a connection without error bits
  owes a reply exactly while the holder waits for one, and owes it to the holder.
* From it: `TypeCorrect`, `NoForeignReply`, `CallbackSafe`, `CleanHandOver`, and
  their conjunction `SharedIsSafe`.
* `RepliesRead`, for transactions of any length (`StoredAssumption`): that nothing is left
  when the stack is empty says nothing of a reply half read. `Counts` makes a sequence
  of tokens a number of elements, by a function that counts what is still to come before
  each token; `Needed` says that the unread tokens are the elements the arrays begun
  still lack, with no array inside an inner one, and `TokenRead` that read_response
  keeps it, whichever arrays an element completes. `Transaction` says that the results
  kept for exec() are as many elements as it will announce, `Answered` that the first
  token is of a type the server gives for the method, and `Fits`, checked for the methods
  of each section, what the method's conversion makes of these types.
* `KeysAreOrdered`, for any types, values of them (`Samples`), an even number `B` of byte
  values and any number of items (`StoredAssumption`): that the bytes of two keys compare as
  their parts is inductive only together with why. `InOrder` says of two strings that they are
  equal, or differ first at a place where the bytes compare as the parts do, so that neither
  is the beginning of the other; `InOrderJoin` that what is in order stays so when strings in
  order are put behind both. What is left is each type: `DigitsInOrder` for integers (the first
  digit that differs decides; turning the sign bit adds half the range), `TextInOrder` for strings
  (the escape keeps a zero above the end and below every other byte), and over these
  the optional, uuid and time of `KeyFits`. `KeysInv` says it of the two strings written so far.
* `RecordsAreReadBack`, under the same assumptions: `ReadInv` says that the string is the items'
  strings one behind another (`Parts`) and that the reader stands at the end of the last item
  it has read (`ReadSoFar`). `ReadsBack` is what it needs of each type: from any string that starts
  with a saved value, Load gets this value and exactly its length. For integers the digits
  add up again, for texts the first zero without its code is the end, and taking the codes
  out again gives the text. `ReadAsAnother` follows the optional id that is read as a uuid: one
  byte off, so never refused when there was an id and always short of the end. `UuidSize` is
  assumed to be at least 2 (16 in the code): a uuid of one byte could be read from an absent one.
* Both need induction over the digits and characters. The library's induction theorems take
  an operator; `InductUpTo` takes instead the set of numbers a claim holds for, and
  follows from the well-foundedness of the numbers.

`ServerProofs`, for any contexts (finitely many), io threads and listeners, whoever
runs `stop()` (`ServerAssumption`):

* `PoolConservation` says where a context is, not who may still touch it. `ContextOK`
  adds, for each context, that its owner is the only one and finds it nowhere else
  (`OwnerOK`), that a coroutine that is not suspended is run by one thread, which
  may still have to suspend it while another owns it (`RunnerOK`), and when it has a
  socket (`SocketOK`). `Untouched` shows that a step keeps what is said of all
  contexts but its own; each action then has a lemma about that one (`...Pool`).
* `AcceptOK` relates each acceptor to its operation and to the handlers at work, and
  says that whatever is still under way on a closed one is recorded in `late`.
* From it: `TypeCorrect`, `PoolSafe`, `AcceptChain`, `Drained`, `StrayIsLate`. That the
  count reaches the number of contexts only when each was popped uses the
  cardinality theorems of finite sets.

`IoProofs`, for any numbers of threads, acceptors and contexts (`IoAssumption`): no property is
inductive alone. The invariant adds that a stopped io_service has no operation waiting, ready or
handled; that a thread which left its loop found it stopped; that the signal exists once and
that one thread runs its handler from the closing of the acceptors to the end of `stop()`; that a context
has its operation in one place while it is serving and none is serving when the server is
destroyed; and that only an open acceptor waits. Then the handler that ends last, the only one that
stops the service, ends with the server destroyed. From it: `TypeCorrect`, `GoesOnAccepting`,
`ThreadsAreKept`, `NothingLost`.

`SessionProofs`, for any browsers, requests, sids, tokens, users and ids
(`SessionAssumption`): the stored session is not all that matters, for a request may
write back a copy it took long ago. `Owned` says of any session, stored or copied,
that what it holds was put into it; as `signed`, `begun` and `userId` only grow, it stays
true of a copy whatever others store. `RequestOK` says it of each request from
loading to writing, and what a token or user in its hands was checked against. From
it: `TypeCorrect`, `OwnSession`, `OwnToken`, `Agreement`.

The two action properties need more of a session
that is not in `overlapped`: `Alone` says that it is stored wherever it is named, that
one request at most uses it and that the copy this request has is what is stored;
`TokensOK` that the token of a sign-in about to begin is in nobody else's hands and
was never stored, so that a token let through cannot come back. `Behaves` is what any
handler may do to the sessions (`Stores`, `GoesOn`, `Leaves`); each has a lemma that it
behaves, and `StepAlone` shows that such a step is enough. From it: `NoUpdateLost`,
`TokenIsOnce`. `SessionAssumption` says for this that `None` is neither an identifier
nor a session.

`HttpServerProofs`, for any set of requests and any number of them on a connection
(`HttpAssumption`: the loop serves at least one):

* That the loop is in step with the input is not a matter of its first token: a body
  begins where the request it belongs to says so. `Marked` gives every token still to be
  read, sent or not, its request and its place there; `From(k, p, ...)` says that token p of
  request k comes next. Reading a token moves one place on (`FromTail`), sending a request
  adds to the end (`FromAppend`). `Sync` says for each place of the loop where the input
  then is, and that where it may be out of step, `keep_alive` is not set. From it: `InStep`.
* `HeadOK` says that a head was written exactly where the loop expects one, that what it
  announced is still true, and that an interrupted handler only unwinds. From it:
  `EndsAsPromised`.

* `OneAnswerEach`: that the client has one answer for each request, in their order and with
  the framing the loop meant, is not inductive, for the client has read only part of what
  was written. `Answers` says what it will have made of all that is on its way: the responses
  to the requests the loop has ended, and of the one under way what `written` holds
  (`Framed`); `LastBegun` and `OneRequest` tie the number of them to the place of the loop. What
  the client makes of a sequence of tokens is a fold, and each step adds one token.
* `NobodyWaits`: where the loop waits for input, all it has written was sent. The client holds
  a body back only while `100 Continue` is on its way.

`IoProofs`, for the stream buffer of `Message` with areas of any size and any number of
failures (`StreambufAssumption`):

* `StreamsDeliver`. The characters are numbered as they are written. Without a failure, the
  wire and what is held and not yet sent make what was written (`Straight`). An exception
  makes the put area be sent again from its beginning, so a character may be on the wire and
  held: `Orderly` says that the put area is ascending and that what was sent of it is on the
  wire, `Resent` counts the places of a character on the wire and the one it may still come
  to, `FewLost` the characters that are in neither. Only the slot of an overflow can lose
  its character. The lemmas come in fours: a character is added (`Grew`), n of them are sent
  (`Passed`), sending throws (`Failed`), anything else (`Stayed`).

`ContentAndMutexProofs`, for any trees, contents of the program, expressions, sizes
(`ContentAssumption`: a tree is a set of files in directories, which are paths of
separators and names by turns; the contents of the program are none of its files. That the
pieces of the root are strings is assumed, because the provers do not know it of a literal):

* `DirectoriesLoad`. What is loaded is known only once the last call of load_directory returns,
  and the order is the file system's. `Nested` says that the calls under way are for
  directories inside one another and that no directory waits twice; `FilesIn` and
  `DirsIn` that whatever no longer waits is at its path and whatever waits is not yet;
  `Indexed` that the index a call has so far is the best of the files it has taken;
  `Landing` that a redirection is inserted after the index it leads to; `Kept` that every
  content in the map is owned. A file or index that throws gives two claims to one path
  (`Collision`). `UnderWay` is their conjunction, and each action has a lemma about it
  (`OpenedOn`, `FileLoaded`, `PassedOver`, `EndedPlain`, `EndedIndexed`).
* `RegexesFound`: what a request found is the first match at its key (`LookInv`); when it found
  none, a key that matches shares less with the path than another.
* `StaticServes`: what is stored is an arrangement of the encodings of one content, smallest
  first (`Kind`), and a client's copy has the tag of its own body and, outside `sameSecond`,
  a date that says which content it is (`CacheOK`).

The parts of `Message` write what a peer means as characters and read these one by one; the
characters are an encoding of any length. Each proof has lemmas that say where a part of it
begins in the whole (`Parts`, for a sequence of sequences put one behind another) and an
invariant that says which part the reader is in, how far in it, and what it has made of it. The
induction over an encoding is `InductUpTo` again.

`BodyProofs`, for any pieces of any bytes, any buffers, any type of length with a multiple of eight bits
and any number of digits read that fits it (`BodyAssumption`):

* `BodiesAreWhole`. `BodyInv` says, for a chunked body, that the encoding is its chunks one
  behind another (`Chunks`) and that the decoder is in the length, the bytes or the line end of
  one of them, having delivered what the chunks before hold and its part of this one
  (`Decoding`); for a body with a length, how much is left of it (`Limited`). That the digits
  `to_hex` prints are read back by `to_integer` is induction over the digits, for any number below
  2 to the `Width` (`DigitsRead`). The provers know no exponents: a power of two is the number of subsets of a
  set, so that one more element doubles it. Of `http_client`'s chunks, `ClientWrong` follows what is read: the first
  size is an eighth of the piece's length, and each further size takes bytes that are no content, so what is
  delivered is always shorter than what was written.

`HttpServerProofs`, for the header fields of `Message`, of any names, values, number and limits
(`HeaderAssumption`):

* `HeadersAreMeant`. `HeadInv` says in which field the parser is, and at which place of
  its name or value (`Place`); that a name is kept exactly as long as it is below its limit, so that
  a longer one is skipped to the end of its field; that the value read so far is the words of
  the characters read so far, with a blank owed where there was one or a folded line; and that the
  result is what the fields before mean. A refusal is then one for the length of this field's
  value. `LineGoes`, `NameGoes`, `SkipGoes`, `IgnoreGoes` and `ValueGoes` show
  that what each mode does with a character keeps this.

`SessionProofs`, for the cookies of `Message`, of any names, values, number and limit
(`CookieAssumption`):

* `CookiesAreKept`. The map is unordered: `Order` says that the cookies written so far are in
  some order and that each is written once, `Carries` what a line made in that order holds.
  What plain cookies are written as has single blanks only, so `Collapse` leaves it as it is, and it is
  refused only if it is longer than the limit. A line is cut at its semicolons and trimmed; `Under` says that of this line the key values up to
  a number of them have been parsed, and what they leave in the reader's map. For plain
  cookies a key value is the cookie it came from, or an attribute. A client starts over at every
  line, so the last one's cookie and attributes are all that is left.

`IoProofs`, for the request targets of `Message`, of any paths, parameters and raw targets
(`UrlAssumption`):

* `TargetsAreDecoded`. Which targets are refused is said of any target, also of one nobody
  encoded. `UriInv` says where the reader is: between two parts (`BetweenParts`), in the path
  (`InPath`), or in the key or the value of a parameter (`InKey`, `InParameter`), and that every
  "%" up to there is in a parameter without "=" or has its two digits (`FineTo`). `PercentIs`
  shows that two digits found after a "%" are inside the range, since what stands behind a
  range is no digit; a "%" at the end of a string is therefore refused whatever lies behind the string
  (`UnknownUnused`). A refusal is then one for the "%" the iterator is
  at, and an accepted target has none that would be refused (`UriMeans`).
* For a target that was encoded, `DecodedInv` says which part the reader is in: `LayoutIs` gives
  the places where the parts begin and end (`PartEnd`, `Equal`), `TokenAt` and `LeftAt` show that
  the tokenizer finds them there; `TextAt` says how many symbols of the part were read, each
  from one character or three (`TextPlain`, `TextPercent`, `TextDone`), and `Kept(k)` which
  parameters are left after k of them, a later value replacing an earlier one (`KeptMore`).

Model-checked only: liveness, which is out of the prover's reach (`CallReturns`, `LockGranted`,
`ShutdownReturns`, `StopReturns`, `ConnectEnds`, `ConnectionEnds`, `JoinReturns`: that something
happens in the end, under the fairness above). Every invariant, action property and refinement
that a run shows to hold is also a theorem.

## Findings and observations

* **stop() against on_ready (finding).** A context pushes itself on the stack and
  then suspends (`server_context.hpp:46-47`). `stop()` on another thread may pop it
  in between, reach its count and destroy it; `suspend()` then evaluates the
  assertions at `sync.hpp:33-34` on a destroyed object. `ServerSuspend` shows it.

The following contradict no statement in the repository, so no run expects them;
the models contain them and properties name them as exceptions:

* An accept completion that is queued when `close()` is called re-arms on the
  closed acceptor, fails with an error that is not `operation_aborted`, and
  repeats until `stop()` has destroyed the acceptor and the stack
  (`StrayAcceptIsLate`: this is the only way a stopped server is used).
* An accept that completed before `close()` keeps a thread busy in this way; with it, `join()` may not
  return either (exception in `JoinReturns`).
* `run()` of a coroutine that ends does not clear `current_impl()` (`sync.hpp:96`): the thread keeps a pointer
  to an ended coroutine until it resumes another. Nothing uses it: only coroutines call `current()`.
* With a logger, a peer that resets its connection ends the coroutine
  (`remote_endpoint()` throws at `server_context.hpp:81`): the pool loses a context
  and `stop()` never returns (exception in `StopReturns`).
* `stop()` never returns when it runs on the only io thread while a connection is open, and then
  `join_signal` does not either.
* `cancel()` can fall between two steps of a composed operation (TLS, `async_connect` over several addresses): the
  call then waits without a timeout (`CancelLost`), and `stop()`, `join()` and whoever waits for the redis
  connection wait with it.
* A `start()` whose second bind fails leaves the first acceptor open and cannot be
  repeated.
* `http_server.hpp:110`: the condition on the error document is inverted, so a document
  that was found is replaced and a missing one is used (`NoErrorPage`).
* A handler that throws after it wrote the head makes the loop write a second head on
  the same response; the connection closes after it.
* A body with `Content-Length` that the client cut short reaches the handler as if it
  were complete (`torn`); a chunked one does not (`ChunkedIsWhole`).
* A chunked answer to HEAD is followed by a last chunk the client does not expect
  (`stray`); a handler does not notice that a write failed, for the stream swallows
  the exception, and one that returns without `write_headers` leaves the request without an answer
  (`faulty`). Both are exceptions of `AnsweredInOrder`.
* A negative `Content-Length` passes `http_server_context.hpp:196` and nothing is read of the body; a chunk
  of negative size lowers the total that is compared with the maximum (line 216). The input stays in step.
* A length that is no number makes `std::stoll` throw what is no `http_exception`: the connection closes
  without an answer (`StreamFails`).
* `head` is set after `read_headers()`: a HEAD request that is refused there gets an error page with a body.
* A timeout is that of one read or write, and nothing limits the number of header fields or the length of
  an ignored value: a client that sends a character now and then keeps its connection (`Hold`).
* An interrupted handler's chunked answer is ended by its last chunk when the stack is unwound
  (`Interrupted`), so a client takes it for complete.
* `to_hex` of a signed 64-bit length shifts by the wrong amount: `http_client`'s chunks
  announce another length (`ClientChunkWrong`). The server's encoder passes an unsigned
  one and is right.
* `http_client` keeps only the last `Set-Cookie` line and takes its attributes for
  cookies (`OnlyLastIsKept`).
* A parameter without "=" is not decoded. `decode_url` reads two characters past a "%" before it checks
  either: at the end of a string the second lies behind its zero. What it finds there changes nothing
  (`UnknownUnused`), but reading it is undefined.
* `chunked_decoder` reads eight digits of a size: a chunk of 2^32 bytes or more, which the encoder writes, is
  refused (`FailsWhenCut`).
* Several blanks, or a tab, within the value of a cookie arrive as one blank (`Collapse`, `Plain`).
* An equal date alone yields 304, also when the content was replaced within the
  second (`sameSecond`).
* `bitop_xor` with one source sends `NOT`; a nil reply to `BLPOP` or `EXEC` throws
  (`NilRefused`); in a transaction a method that returns a string returns "QUEUED"
  (`QueuedIsStatus`).
* Requests of one session that overlap write back each other's old state
  (`NoLostUpdate` excepts them); a token is let through twice by two of them.
* The first sign-in of a user gets another id than all later ones, because the stored
  optional is read as a plain uuid (`OptionalAsUuid`, `StableId`).

## Not modelled

Out-of-memory; concurrent use of one acceptor by `close()` and `async_accept`
(formally a data race); replies that violate the Redis protocol; a second
start/stop cycle. The address of `current_impl()` that a compiler may keep across a
suspension is a property of the generated code. A coroutine that takes a second
mutex inside the first: no code in the repository nests `sync_lock`, and the one
service would have every mutex wait for it.

Of the components listed as partly modelled: the formatting of a redis request, the
tables of methods, status codes and header names with their setters, date texts, the
`url` class (it reads configured addresses), OAuth signatures and the providers'
JSON are tables, text layout or libraries. `http_client` is the sequence of
calls its users make; its connection, bodies and cookies are modelled where the
server's are. base64, hashing, random numbers and compression are libraries.
Logging and exceptions are message text; that a logging call throws is in `Server`.

## Plan

Done: the coroutine runtime, the mutex, the server's pool, the io threads, the shared
redis connection, sessions, the HTTP connection, the stream buffer, bodies, headers, targets,
cookies, archives, redis replies, the content tree, and proofs about all of them.
What is left: a second start/stop cycle in `Server`.
