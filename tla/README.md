# rttr_rpc: a verification project in TLA+

rttr_rpc publishes C++ objects, described by RTTR reflection, as JSON-RPC 2.0
services over HTTP and WebSocket. This directory holds TLA+ models of it, the
TLC configurations that check them on small instances, and theorems proved with
TLAPS. Paths below are relative to the repository's root (`src/beast/...` and so on).

To run: `tlc -config HttpSession.cfg MCHttpSession`, `tlapm HttpSessionProofs.tla`;
`PROJECT.json` lists every run, the lines each definition models and the hazards
each property is for.

## 1. The system

| part | state | operations | works with |
|---|---|---|---|
| `src/beast/server`, `listener` | acceptor, the socket being accepted, io_context threads | bind, run, on_accept | makes an `http_session` per connection |
| `src/beast/http_session` | socket, request `req_`, buffer, timer, queue of at most 8 responses | run, do_read, on_read, on_write, on_timer, do_close, upgrade | parser and repository for a POST; a `websocket_session` for an upgrade |
| `src/beast/websocket_session` | stream, one buffer for reads and writes, timer, `ping_state_` | do_accept, on_accept, on_read, on_write, on_timer, on_ping, control_callback, activity | parser and repository |
| `src/core/repository` | `services_`, the cached description `services_info_` | add_service, remove_service, process_message | services |
| `src/core/service` | instance, methods by name (overloads), one mutex | dispatch | methods |
| `src/core/method`, `parameter` | parameters, defaults, schema | invoke (bind, lock, call) | `io`, RTTR |
| `src/jsonrpc` | none (values) | parse, classify, create_response, create_error_response, write | nlohmann::json |
| `src/io` | none | from_json, to_json, recursively over RTTR types | RTTR |
| `src/examples` | two services (a calculator declared thread safe, a test object) | show the use | all |

How they interact. Every I/O object runs its handlers on a strand of one
io_context that several threads may run. A handler calls `parser::parse`,
`repository::process_message` and the C++ method synchronously, so a slow method
holds its session's strand and one thread, and methods of one instance are called
by several threads unless the mutex of the service prevents it. Exceptions from
methods are not caught anywhere below `io_context::run`: they end the process.

What is hard to test here, and which property is about it (`PROJECT.json`,
"hazards", has the lines):

- **Completions in any order.** A read, a write and a timer of one session
  complete independently, and their handlers reach the strand in any order: an
  upgrade behind unfinished responses, a request behind a closing response, a
  timer handler already queued when its deadline is moved.
- **The queue at its limit.** Reading stops at 8 responses and has to resume exactly
  once: a wrong comparison loses the connection or starts two reads.
- **The timer chain.** Each change of the deadline cancels the wait, so the handler
  of the *cancelled* wait must wait again, for ever, or a silent peer keeps its
  socket.
- **The accept loop.** One socket object per listener is handed over and reused while the
  session it was handed to already runs; an accept fails for want of a descriptor.
- **Recursion over types.** The schema of a class, and its values in JSON, follow its
  properties, which may lead back to the class.
- **Two strands.** The WebSocket session is set up from the strand of the HTTP
  session while its own handlers may already run.
- **Overloads.** Several are tried in turn, some fail before and some after the mutex
  was taken. None may have executed when the next one is tried.
- **Threads on one instance**, services removed and added again, a cached description.
- **Integer ids** wider than `int`, arguments the converter does not convert,
  the numbers of arguments at the boundaries of defaults.
- **Processes that end**: exceptions from methods, a JSON-RPC response sent to the
  server, a notification to a method that returns a value.

## 2. Modules

| module | models | abstract specification, or what it is compared with |
|---|---|---|
| `Server` | `src/beast/server.cpp`, `listener.cpp`, the threads of the process | |
| `HttpSession` | `src/beast/http_session.cpp` | implements `OrderedReplies` |
| `WebSocketSession` | `src/beast/websocket_session.{h,cpp}` | implements `OrderedReplies` with a limit of 1 |
| `OrderedReplies` | what a client of a connection can rely on | |
| `JsonRpc` | `src/jsonrpc`: parsing, ids, replies, writing (operators) | written messages are parsed again (`ReadsBack`) |
| `Method` | `src/core/method.cpp`: binding of params (operators) | `BindingCheck` compares it with its meaning |
| `Repository` | `src/core/repository.cpp`, `service.cpp`, `method::invoke`, the threads | implements `RpcProvider` |
| `RpcProvider` | what concurrent clients can rely on | |
| `BindingCheck` | all parameter lists and params within bounds | |
| `Schema` | `src/core/parameter.cpp` and `method::create_json_schema`: the recursion that describes types | |
| `Reflection` | the part of RTTR that the next two need: types, variants, conversions (external) | |
| `JsonBasic` | the functions of `src/io` for basic values (operators) | theorems compare both directions, and the schema |
| `JsonContainers` | `src/io/to_json.cpp`, `from_json.cpp`: containers and classes, what is called for their components being a parameter | theorems compare both directions, and the schema |
| `JsonIo` | the same functions calling each other (recursive operators) | `TypesCheck` compares both with each other and with the schema |
| `TypesCheck` | values and schema of every declaration within bounds | |
| `HttpSessionProofs`, `WebSocketSessionProofs`, `OrderedRepliesProofs`, `RepositoryProofs`, `BindingProofs`, `ServerProofs`, `SchemaProofs`, `JsonProofs` | theorems | |
| `MC...` | the instances for TLC | |

Conventions. Every operator that models code is translated from the lines
`PROJECT.json` gives. Variables marked *history* record what happened and are
read by no guard of the code. Operators named `..._Bug` are plausible mistakes: replacing the
operator they are named after by them makes a property fail (listed under
"mutants"), and no specification uses them.

### Server

`main` is the thread that binds the servers one after the other and then calls
`start_threads`. A listener is its acceptor, its one outstanding `async_accept`
(`accept`) and its one socket object (`socket`). `on_accept` is two actions: `HandOver`
moves the socket into a session and runs it, `DoAccept` accepts again; between them other
threads serve the new session. `on_accept` with an error is one action, as it only accepts again.
Bind can stop at any of its errors: before the acceptor is open (nothing is ever accepted,
as `run` sees a closed acceptor) or after (`listener::run` starts to accept on a socket that
does not listen, which fails and is repeated for ever). `io_context::run` returns when there is
no `Work`: no outstanding operation and no handler. A session is only its life, from the
hand-over to its end. That end need not come: `HttpSession` and `WebSocketSession` show that it does for a peer
that falls silent, but a peer that goes on sending, or answers pings, holds its session and its descriptor for as long
as it likes. Or a session ends the process by an exception. The server object must outlive its listener, which keeps a
reference to its repository; the model's servers live as long as the process.

### HttpSession

A handler runs on the strand without interruption, so it is one action:
`OnReadRequest` is `on_read`, `handle_request`, `queue::operator()` and
the `do_read` that follows, as one step. An asynchronous operation is a variable (`read`,
`write`, `wait`) that goes from `"none"` to `"pending"` when the code starts it,
to a result when the reactor completes it (`ReadOk`, `ReadStops`, `WriteOk`,
`WriteStops`, `TimerFires`, or `"aborted"` by a cancellation), and back when the
handler runs. Any handler whose operation is complete may be next, as several threads
of an io_context allow.

| variable | code |
|---|---|
| `items` | `queue::items_`, each response reduced to its number and `need_eof()` |
| `req` | `req_`, reduced to method, version, keep-alive, and whether processing ends the process |
| `deadline`, `wait` | `timer_`: its expiry relative to now, and the outstanding `async_wait` |
| `socket`, `sendShut` | `socket_` (`"moved"` after the upgrade), `do_close` |
| `handled`, `replied`, `failed`, `overlap` | history |

`deadline` has four values, the ones `on_timer` tells apart: `time_point::max`,
in the future, passed, and `time_point::min` (the mark of an upgrade). An HTTP
request is one of the kinds the code distinguishes; the text of headers and bodies is left out. What
`need_eof` returns for each kind of response is `NeedEof`: the OPTIONS response has
no `Content-Length`, and the POST response does not take over the request's
keep-alive.

### WebSocketSession

As above, with one buffer that holds the message and then the reply, the
number of pings in flight, and `ping_state`. `do_accept` is four actions because
the strand of the HTTP session executes it, and a handler of the new session's own
strand may run between two of its statements when `Concurrent` is TRUE. The race is
modelled at the order of the statements of `do_accept`; tearing within one Asio
call on the unprotected timer is not. A message
longer than the first segment of the buffer is parsed past the end of that segment
(`websocket_session.cpp:144`); its outcome is nondeterministic: answered as
anything, or the process ends.

### JsonRpc, Method, Repository

`JsonRpc` and `Method` are operators. A message is written as a document (`WriteRequest`
and so on) and `Parse` reads it, which is what a client and a server of this library do. `Parse` asks in the
order of the code, so a document with a method, an id and a result is a request. A document is a record of what the parser looks
at; an integer id has the width of `int` (`Half` is 2^31 in the code). A JSON
value is the set of types it parses as and the set it really has after conversion,
because `from_json` returns an unconverted but valid variant for a basic value it cannot
convert.

A reply carries the id of the parsed message, which need not be that of the document; so a call keeps its document
(`doc`, history) and `RequestsAnswered` compares the reply with that: `Echoed` says which requests come back under
the id they were sent with.

In `Repository` a thread takes a message through `Receive`, `Process`, `Bind`,
`Enter`, then `Finish`, `Reject` or `Throw`, then `Return` or `Crash`. The steps are the
points where threads can interfere: the call reads its instance in `Enter` and
writes it in `Finish`, so two calls that overlap lose an update, which is what
the mutex is for. A thread that waits for a mutex is one whose `Enter` is not enabled. An
instance declared thread safe updates its cell in one step, which is what declaring
it promises. Services are added and removed only while no thread
processes a message (`Quiet`): the repository has no lock, its reference is held during
a call, and the examples register their services before they start the threads. The
two services of the instance have the names of the example's, but it is the test object that is declared thread safe
and the calculator that is not (the example has it the other way round), so that the overloaded method runs under the mutex. The
assumption `OneName` says that an instance is registered under one name: the mutex belongs to the
service and not to the instance, so under two names it would not protect it.

### Schema, JsonBasic, JsonContainers, JsonIo, TypesCheck

A program declares classes and the types of a method (`Declarations`). `Schema` is a stack
machine: `stack` has the calls of `create_class_definition`, each with the property it comes
to next, `defs` the definitions that are stored and `refs` the classes that a `$ref` names.
`defs[class_name] = create_class_definition(type, defs)` evaluates its right side first in
C++17 and in an order of the compiler's choice before; a class that contains itself is described
once in the one order and recursively without end in the other (`Overflow`). The build asks for
the newest standard that the compiler has, so both are `Orders`. The references of the result point into the
definitions of the params, as in the code.

`JsonContainers` has one operator for each function of `to_json.cpp` and `from_json.cpp`. Those call each
other, and RECURSIVE operators are nothing the prover takes; so there the calls are parameters, and `JsonIo` passes
each operator to itself and the others. What they do with one basic value is in `JsonBasic`. `Reflection` says what RTTR does for
them: a conversion to an integer type fails out of range, a property takes
only a value of its own type. Whether it converts a value of another type to the lowest value of a signed type (as
`-128` to `int8_t`), no file under `src/` shows; that is the constant `LowestConverts`. The theorems allow both, and the run
has FALSE, so that values and offers leave that value out and nothing is claimed of it. The widest integers have `Bits` bits (64 in the code, 4 in the run), doubles are counted in halves.
`Transported`, `Overwritten` and `Passed` are the meaning of `JsonIo` in terms of types alone; the
properties of `TypesCheck` say that they are exact, so that each limitation of the code
(a `char` is written as a truth value, a set or a map in a vector as `{}`, an object of a class without
properties as null, entries of a map that was not empty stay) is stated and no other exists.

## 3. What is checked

All runs pass except where marked. All check deadlock but those whose states are
an enumeration that ends (see the cfg files). `Done` and `Stopped` are the
states in which the system may rest (session released, process gone, nothing more sent), so
a deadlock would be a session that holds its socket with nothing outstanding, or threads
waiting on each other.

| run | bounds | shows |
|---|---|---|
| `server` | 4 servers: two want one endpoint, one has its own, one has no repository; 2 threads, 3 connections, 2 descriptors | the chain of accepts is never lost or doubled (`AcceptChain`), a socket is in one hand (`SocketOwned`), threads return only when nothing is left (`ThreadsServe`), a waiting connection is served once descriptors stay free, also after failed accepts (`Served`), and `start_threads` returns when no acceptor is open (`Ends`) |
| `http_session` | limit 8 (the code's), 10 requests of 7 kinds | one read and one write at a time (`NoOverlap`), the queue bound and reading only with room (`Backpressure`), `NothingAfterClose`, both loops always alive while the connection is usable (`NeverIdle`), a wait always outstanding on an open socket (`Watchdog`), `UpgradeIsFinal`, and refinement of `OrderedReplies`, of which the order of the replies is part |
| `http_session_progress` | limit 2, requests of 7 kinds, up to 5 between two moments with none unanswered and any number in all | the session of a peer that falls silent ends when time passes, wherever it stopped (`Ends`); a peer that reads gets every response, or the connection has broken, closed or been upgraded (`Answered`) |
| `http_socket_transfer` | limit 2, 3 requests | *violated*, see 4 |
| `websocket_session` | concurrent, 4 messages or control frames | `BufferInTurn`, `ClosesOnlySilent`, refinement of `OrderedReplies` |
| `websocket_session_ends` | one thread, 3 messages | `Ends` |
| `websocket_ping_assertion`, `websocket_timer_operated` | 2 messages | *violated*, see 4 |
| `repository` | 2 threads, 2 calls of add_service, 3 messages of 17 kinds | `MutexDiscipline`, `InstanceExclusive`, which requests are answered under their own id (`RequestsAnswered`), what survives being written and parsed (`ReadsBack`), `InfoIsCurrent`, refinement of `RpcProvider`, and `CallsReturn` |
| `repository_returns_response` | 1 message | *violated*, see 4 |
| `binding` | lists of up to 3 parameters, params of up to 3 values | `PositionalIsExact`, `NamedLikePositional`, `NullLikeEmpty` |
| `types` | a few hundred declarations of up to two classes, both orders, a stack of 3 calls; values of at most 2 elements | `RefsResolve`, `DescribedOnce`, `Completes` (the schema); `TransportIsExact`, `OverwriteIsExact`, `ArgumentIsExact` (JSON and back); `SchemaAdmits`, `SchemaDecides` (a client that keeps to the schema that is generated; not to the example of `src/core/README.md`, see 4) |

Why the bounds are enough. The queue has its real limit in the safety run, and 10
requests fill it, stop the reading, resume it and fill it again. The liveness run has a limit of
2, where the queue can be empty, full, or neither, and 5 requests fill it twice; there `MaxRequests` must not end a
connection, as a peer may go on for ever, so `EndlessSpec` forgets the history whenever nothing is unanswered
(`Forget` in `MCHttpSession`, which changes nothing that the code has). `Ends` fails there without `FallsSilent`. Two threads are all
that mutual exclusion of one instance needs; three messages let one thread start again while the
other is still in a call; two additions allow either both services at once, or one that is removed
and added again, with a second service object (and mutex) on the same instance. `Half` is 8, so
that the id 9 does not fit, as 2^31 does not fit an `int`. Three parameters and values
hold every case of binding: none, all, too many, a gap, a default before or after the
first missing one. In WebSocketSession four frames allow two messages with activity
between two pings. In Server there are fewer descriptors than connections, so accepts fail for want of
one while a connection waits. No run starts with a thread count of 0; that case is only in `ThreadsReturnLast`. That a
listener whose `listen` failed retries for ever is in the run (`AcceptChain` holds along it) and is ruled out by nothing. Two classes give a class in a class, containers of classes and a cycle of one
and of two classes; acyclic ones need 2 nested calls, fewer than `MaxDepth`, so that
only endless recursion overflows.

Fairness. `HandlersFair` says that the threads of the io_context run every handler
that is ready (weak fairness is enough: a completed operation stays completed until its handler
runs). `TimedSpec` adds that time passes and timers fire, and nothing about the
peer. (After an upgrade a write left over on the moved socket has to complete or fail,
which the WebSocket session's own timer sees to.) The two properties of `http_session_progress` are
about two environments: each has the fairness of its own as an antecedent, `ClockRuns` (time passes;
`Ends` adds `FallsSilent`: from some time on no request arrives, since each `do_read` moves the deadline by 15 s, `http_session.cpp:154`, and
the code sets a peer that goes on sending no end) or `PeerReads` (the peer reads, and there need be no clock). `FairSpec` of
`Repository` has weak fairness of each thread's
steps: methods return and, with finitely many messages, a thread waiting for a mutex
finds it free for good in the end; under endless load `std::mutex` would need strong fairness.
`FairSpec` of `Server` has weak fairness of each listener's accept and handlers and of the threads, none of the sessions'
ends: peers that stay active can hold all descriptors, and then a waiting connection is never served. `Served` therefore
has an antecedent, that a descriptor is free for good from some time on. In `Schema` one thread computes, so weak fairness of its step is all.

## 4. Where the code and its comments disagree

Each is a run that ends in a violation of one property.

- `repository_returns_response`: a notification to a method that returns a value. The
  result is given to the constructor that *parses* a response (`request.cpp:149`), which
  throws; nothing catches it and the process ends. `repository.h:65` promises a
  response message.
- `http_socket_transfer`: an upgrade pipelined behind an unfinished response
  moves the socket while a write is in progress on it (`http_session.cpp:206`), against
  "transferring the socket" and "take ownership of the socket".
- `websocket_ping_assertion`: activity resets `ping_state_` while a ping is being sent; the
  timer then sends a second one, and the assertion of `on_ping` fails
  (`websocket_session.cpp:106`).
- `websocket_timer_operated`: with several threads the handler of the wait that `do_accept`
  cancels can run before the new expiry is stored, and waits for `time_point::max`
  (`websocket_session.h:33`); "the timer is operated continuously" does not hold.

Seen while modelling, modelled as the code does it, with no run of their own:
`message_error::invalidParams` has the code of an internal error
(`jsonrpc/error.cpp:25`), the parser's errors are all answered with -32600
(`core/repository.cpp:98`), the read outstanding at `do_close` goes on delivering requests
that are executed and never answered (`http_session.cpp:239`), a named argument
after a gap is dropped (`core/method.cpp:60`), `bind` returns true although the listener could
not listen (`server.cpp:30`), an integer id is cut to an `int` (`jsonrpc/message.cpp:99`), so that the reply to
a request with the id 2^32 + 1 carries the id 1 and two requests can share an id (`RequestsAnswered` says which do not), the error for a request that the parser
refuses carries no id (`core/repository.cpp:98`), the parser recognises no error response (`jsonrpc.cpp:107`,
although `response::parse_json` has a branch for it), and the limits of a `char` are not in
the schema (`parameter.cpp`), so that a number that conforms may not be converted. `src/core/README.md:223-231` shows the schema of a `uint16_t` with the
maximum 4294967295; the code writes `numeric_limits<uint16_t>::max()`, 65535 (`parameter.cpp:22-23`). `SchemaAdmits` is about the schema
of the code; under that of the document 70000 conforms and is not converted. Not seen by the models: a
string that is not UTF-8, or a double that is not finite, when a document is written.

## 5. What is proved

For every value of the constants that satisfies the named assumptions, from
`Spec` alone (the proofs use no fairness).

**HttpSessionProofs.** The inductive invariant is
`IInv == TypeInv /\ LoopInv /\ LedgerInv`:

- `TypeInv` is `TypeOK` and `WriteHasItem` (a write is outstanding only while the queue
  has an item, so that dropping the first one is defined);
- `LoopInv` is the conjunction of `NoOverlap`, `Backpressure`, `Watchdog`, `UpgradeIsFinal`
  and `NeverIdle`, which need each other (a second read can start only if one is outstanding while
  the queue is full), with three facts more: nothing has happened before `run`
  (`Fresh`); an aborted operation, or a deadline at `time_point::min`, means that the socket
  is no longer the session's open one (`Marks`); and a session that has given its socket
  away has room in its queue, so that its last write does not start a read on
  the moved socket (`MovedHasRoom`);
- `LedgerInv` says where each response is: the items of the queue and what
  was replied make up the numbers 1 to `handled`, the head possibly in both while the
  write's handler has not run. `InOrder`, `NothingAfterClose` and the refinement follow.

From it: `TypeCorrect`, `NeverOverlaps`, `QueueBounded`, `NeverStuck`, `AlwaysWatched`,
`UpgradeStays`, `RepliesInOrder`, `ClosingReplyIsLast` and `Implements`
(`HttpSession` implements `OrderedReplies`; initial states map to initial states and,
by `StepReplies`, every step to a step or a stutter). By that refinement the session has the
promise of `OrderedReplies`, too: `RequestsAnsweredInTurn`.

**RepositoryProofs.** Five invariants, each inductive with ones before it:

- `TypeInv`: `TypeOK`, the bound on `created`, and `Routed`: a call past `Process` is served
  by the service registered now under the name in its message;
- `ServicesInv`: what `info` and `services` say about each other;
- `MutexInv`: `MutexDiscipline` and `InstanceExclusive` together. The second is not
  inductive alone (a thread enters because the mutex is free, and then no other may be
  inside), and across removal and addition it needs that all threads inside an instance
  use the one service that is registered now, which is `Quiet` and `OneName`;
- `AnswersInv`: a call has executed nothing before its reply, and its reply fits the parsed message (the id of the
  message; a result after one execution, an error after none), which is what the refinement needs;
- `CellsKept`: a call inside an instance that is not thread safe has read what the
  instance still holds. It needs `InstanceExclusive` (a `Finish` of another thread would
  write the cell), and makes the update of `Finish` an increment of the cell.

From them: `TypeCorrect`, `DescribesServices`, `MutexesBalanced`, `InstancesExclusive`,
`AnswersFit`, `MessagesReadBackAlways`, `NeverDeadlocked` and `Implements`, that `Repository` implements `RpcProvider`: a `Receive`
is an `Ask`, a `Finish` an `Execute`, every other step that answers a `Refuse`, a `Return`
a `Deliver`, and all else leaves what the clients see alone (`StepProvides`).

`MessagesReadBackAlways` adds to `AnswersInv` that the thread's message reads back (`ReadsInv`). The lemmas under it
are about `JsonRpc` alone: an id that has been truncated to an `int` is not changed when it is written and
read again (`IdReadsBack`), whatever `Half` is; so a parsed message is written and parsed to itself (`ParsedMessage`), and a
reply, which has no method, is taken for a response if it is a result with an id, and for an invalid request if not (`ReplyReads`).
`AnswersFit` is about the documents: `DocumentsInv` keeps that the message of a call is what its document parses to, `Mannered` that
a request is answered with a result or an error, and `EchoExact` that parsing keeps the id exactly of the documents that
`Echoed` names. `NeverDeadlocked` says that a thread that
cannot go on waits for one that is inside a method of the same service, and that this one can
go on, as it waits for nothing while it holds a mutex; it follows from `MutexInv`.

Four theorems are about single calls:

- `OverloadsInRange`: a call that has found its method is at one of its overloads (`TriesInv`), so that
  a rejected one leads to the next or to an error, never past the list. `MethodsAssumption`
  (a name in `methods_` has an overload, `service.cpp:187`) is needed for the first;
- `CallsAdvance`: `StepsLeft` is a natural number that every step of a call lowers and no step of
  another thread raises: three for each overload that is left and two more. So dispatch cannot go round, and with
  `NeverDeadlocked` this is why calls return; `CallsReturn` itself, which needs the fairness of
  the threads, TLC checks;
- `ExecutionsCounted`: a step that makes a call count as executed adds one to the instance that is registered under
  the name in its message, and nothing else changes an instance. It needs `CellsKept`: an instance that is
  not thread safe is written with what was read when the method was entered;
- `ProcessEnds`: a method that throws, a notification and a response end the process, and nothing else does, whatever
  documents the clients send.

**BindingProofs.** `BindingCheck` enumerates parameter lists and params up to `MaxParams`; the lemmas are
about the operators of `Method`, for lists of any length. `PositionalBinding`: the checks that `parse_array_arguments`
makes (every value parses, the first parameter without a value has a default) together with those that RTTR makes
when it invokes the method (every argument fits, all others have defaults) amount to `Exact`. `NamedBinding`: the loop over named
parameters stops at the first gap, and finds none when the names are those of the leading parameters. The invariant
`IInv` says only what parameters and params the states hold.

**WebSocketSessionProofs.** For any messages, with one thread or several:

- `TurnInv` is `TypeOK`, that accept, read and write are outstanding one at a time (`Turns`), and what the
  buffer holds at each (`Contents`). `BufferInTurn` follows. It is inductive with several threads, too: the
  race of `do_accept` is about the timer, as nothing is read before its last statement;
- `LedgerInv` says which messages have replies at each point of the loop; by it every step is a step of `OrderedReplies`
  with a limit of 1 or a stutter (`StepReplies`), so `Implements`;
- `SilenceInv` relates the deadline and `ping_state` to the expiries since the last activity; with it no step
  that closes an open connection comes before the second (`OnlySilentIsClosed`). It too needs no assumption on threads;
- `NeverIdle` is the same for the loop of messages: while the connection is usable an accept, a read or a write is under way
  or its handler is about to start the next (`NeverStuck`), also with several threads;
- `Watched` is why the timer is not lost with one thread (`AlwaysWatched`). With several, the run
  `websocket_timer_operated` loses it: that is the case that the theorem leaves out.

**OrderedRepliesProofs.** What `OrderedReplies` amounts to, for every limit: `Promise`, by induction over its two actions.
By the refinements both sessions have it, without another induction over their steps: `RequestsAnsweredInTurn`
with the limit of the queue and `MessagesAnsweredInTurn` with a limit of 1.

**ServerProofs.** Three parts, for any set of servers, any endpoints and any numbers of threads,
connections and descriptors:

- `ChainInv`: the shape of the state, and that each listener with an open acceptor has one accept outstanding
  or is between the two halves of its handler, and that nothing else is;
- `ThreadsInv`: every usable server is bound before a thread is started (`AllBound`), no more threads are
  started than asked for, and none returns while a session or an open acceptor is left. It rests on
  `ChainInv`: an open acceptor always has an accept or a handler, which is work, so `run` does not return;
- `OwnersInv`: the backlogs, the socket objects and the sessions hold each connection at most once, and only ones that
  have arrived, so that a new connection is in nobody's hand.

From them: `TypeCorrect`, `AcceptsChained`, `ThreadsReturnLast`, `SocketsOwned`. Two more are about what happens to
connections: `ConnectionsHandedOn` (each step leaves a connection in its place, moves it up in the backlog, or moves the
first one into the socket of its listener, from where it can only go to a session: no failed accept and no reuse of the socket
loses one) and `WorkHasThreads` (each handler of `on_accept` has a thread until it ends, and work that
comes after the start finds one in `run`).

**SchemaProofs.** For any declarations, cyclic ones included, either order and any depth of the stack. What a step does to
the stack is first reduced to three cases (`StepCases`): it refers to a known class, enters a new one, or leaves the last
one. Then `Referred` (every reference is defined or in progress) is inductive and gives
`ReferencesResolve`. `EachClassOnce` needs `Path`: the calls in progress are a path
through the types, each about a property of the one before. If a class were entered that is
in progress already, the calls from that one on would be a set of classes each with a property in the set, which
`Acyclic` excludes (`EnteredIsNew`). `StackSuffices` turns this into a bound: as the calls are about different
classes, there are never more of them than class types (`CallsBounded`, by an injection), so a stack with room for
that many does not overflow.

`SchemaIsClosed` is about the result: every class that a parameter, or a property of a class in the definitions, has is in the
definitions. Its invariant `Covered` follows the loops: what they have passed has been encountered, which is
defined or in progress. `DescriptionAdvances` is about the end: under the condition of `EachClassOnce` every step begins
with the next parameter, or encounters another class, or ends a call, or goes on to the next property, each of which
is bounded. It is the safety half of `Completes`.

**JsonProofs.** First a single basic value, for any `Bits` and integers of every width: what `to_json` writes
`from_json` reads back as it was (`BasicTransport`), except a `char`, of which exactly 0 and 1 survive (`CharTransport`); a value that
conforms to the schema is converted (`BasicSchemaAdmits`), and for an integer type the limits in the schema are
exactly those of the conversion (`LimitsExact`). All of this without the lowest value of a signed type unless
`LowestConverts`: `BasicValue`, `Taken` and, for objects, `AllTaken` leave it out.

Then containers and classes, nested to any depth. No theorem can be about the recursive operators of `JsonIo`, so
`JsonContainers` has the functions with their calls as parameters, and the theorems are about any operators that answer
these calls as `JsonContainers` says (`Calls`) for the values in question. Those of `JsonIo` do: its definitions are that. The values are any set with
the values in them, of finite depth (`Carried`): vectors of what is no set or map, sets of basic values, maps
between what `extract_value` makes, and objects all of whose properties are written and read. What is read into is
a set closed in the same way whose sets and maps have no entries (`Receives`).

- `Transport`: each value is read into whatever receives its type as exactly that value, as a property, as an element
  of a vector and as an argument. By induction over the depth, which rests on `Least` (a
  set of natural numbers has a least element, from the well-foundedness of strict inclusion of finite sets): the lemmas `BasicSurvives`,
  `VectorSurvives`, `SetSurvives`, `MapSurvives` and `ObjectSurvives` are its steps. A map needs that equal keys are equal
  entries, that `SetToSeq` lists every entry once (`Listed`), and that a key reads back as itself, so that
  no insertion finds its key there already.
- From it, for what a program has: `NewObjectTransport` (into new objects: `DefaultsReceive`), `OverwriteTransport` (over any old value, when
  no set or map is involved), `ArgumentTransport` and `ObjectTransport` (`to_json` and `from_json` of an object). These are the
  halves of `TransportIsExact`, `OverwriteIsExact` and `ArgumentIsExact` that say what works.
- `LostInVectors`: of what does not, the worst: vectors of sets or maps are the same JSON whatever is in these.
- `SchemaAdmitsArguments` and `SchemaDecidesObjects`: `SchemaAdmits` and `SchemaDecides` for every width and any depth of
  classes in classes, again by induction over the depth of the types.

Conditions of single theorems are in their statements: `EachClassOnce` and `StackSuffices` hold if the
name is evaluated first or no class contains itself, which is no assumption, as a program may
be otherwise; the run `types` then has the overflow.

Assumptions: `ServersAssumption`, `ServerBounds` (Server); `LimitAssumption`, `RequestsAssumption` (HttpSession);
`InstanceAssumption`, `OneName`, `DocsAssumption`, `RepositoryBounds`,
`ThreadsAssumption`, `HalfAssumption`, `MethodsAssumption` (Repository); `MessagesAssumption`, `ConcurrentAssumption`, `HeardAssumption`
(WebSocketSession); `ValuesAssumption`, `MaxParamsAssumption` (BindingCheck); `OrdersAssumption`, `DepthAssumption`, `DeclarationsAssumption`, `BitsAssumption`, `LowestAssumption`
(Schema, Reflection). TLC evaluates them in the runs.

**Only model-checked**: all liveness (`Ends`, `Served`, `Answered`, `CallsReturn`, `Completes`), as fairness and
`ENABLED` are beyond the prover; of `CallsReturn` and `Completes` the safety halves are theorems (above). Of `TypesCheck`: that
`Transported`, `Overwritten` and `Passed` name *no more* types than the theorems of `JsonProofs` (apart from `CharTransport` and
`LostInVectors`, what is lost is shown by values that TLC finds), and the recursive operators themselves.

## 6. What is not modelled

- The bytes of the encodings (JSON, MessagePack, CBOR, UBJSON): a document is the value they
  encode. What the library makes of bytes is `nlohmann::json`'s.
- The elements of a batch: the parser makes them, and `process_message` does not look at them, but answers
  a batch with one invalid request.
- The text of the service description and of the schema (names, descriptions, default values), in `service.cpp`,
  `method.cpp` and `parameter.cpp`, and the metadata of version and description it is made of.
- The larger part of `service.cpp`, which is an earlier program in comments.
- The two sessions of one connection composed at an upgrade: `HttpSession` ends with the socket moved
  (`SocketTransferred` shows what goes with it) and `WebSocketSession` begins with a stream of its own.
- Wrapper types of RTTR, and properties whose value cannot be had, in `io`.
- RTTR, Asio, Beast and nlohmann::json: as the code uses them.
- The examples, `fail` (prints an error), the JSON alias, build files, images: no program logic.

## 7. Plan

1. Done: HTTP sessions, dispatch, binding, WebSocket sessions, server and listener, the schema, values in JSON,
   writing of messages; proofs for all of them. Every invariant that a run checks, except five of
   `TypesCheck`, every action property and both refinements are theorems; of those five, what they say works is proved for
   values and types of any depth.
2. Out of reach here: liveness in TLAPS, and theorems about recursive operators.
3. Worth adding when the code changes: locking in the repository (`remove_service` during a call, section
   "hazards"), error responses in the parser, and the two sessions of an upgrade composed.
