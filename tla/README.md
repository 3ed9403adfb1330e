# Verification of rpc-protobuf-cpp

TLA+ models of the RPC library in `src/`, checked with TLC on small instances, and proofs
that TLAPS checks for every value of the constants. `PROJECT.json` lists the runs, the
source lines of every definition, the disagreements found, the hazards, and the theorems.

## 1. The system

A client program calls methods of protobuf services that run in a server program. One TCP
connection carries many calls at a time, and responses arrive in any order.

| Component | Source | State | Operations |
|---|---|---|---|
| client dispatcher | `net/ServiceDispatcher/ClientDispatcher.h` | `requests_`: request id to promise; `reqlimit`, `timeout` | `operator()` (a call), `read` (a response), the `onTimeout` continuation, `readEOF` |
| rpc client | `net/PbRpcClient.{h,cc}` | `connected`, `pipeline`, the dispatcher's `pipeline_` | constructor and its asynchronous connect, destructor |
| rpc channel | `net/PbRpcClient.{h,cc}` | `request_id`, `connect_mu` | `CallMethod`, blocking or with a callback |
| future proxy | `net/futureRpcCallProxy.{h,cc}` | `vRpcClient`, `request_id`, `connect_mu`, `update_mu`, `lbs` | `CallMethod`, `addRemoteHost`, `setLBStrategy`, the selection strategies |
| frame codec | `codec/LengthField*` | the queue of bytes that have arrived | `write` (prepend a length), `decode` |
| message serialisation | `protobufCoder/RpcMsgSerializeHandler.cc` | none | `read`, `write` |
| message classes | `protobufCoder/RpcMessage.proto`, `example/MyService.proto` and the code generated from them | has-bits, field values, unknown fields | accessors, `Clear`, `MergeFrom`, `CopyFrom`, `Swap`, parse, size, serialise |
| server dispatchers | `net/ServiceDispatcher/ServerDispatcher.h` | pipelined: `responses_`, `requestId_`, `lastWrittenId_` | `read`, `sendResponses`; serial, pipelined, multiplex |
| rpc server | `net/PbRpcServer.{h,cc}` | `_rpcCallMap` | `RegisterService`, `Start`, `handleRpcCall` on a pool of threads |
| string util, network util | `util/` | none | splitting a string, listing local addresses |

How they interact. An application thread enters `CallMethod`, connects if `connected` is
false, draws an id, and enters the dispatcher's `operator()`, which puts a promise into the
table, writes the request through the serialiser and the length prepender to the socket, and
arms a timeout. On the server, the IO thread decodes frames, parses messages and hands each to
the multiplex dispatcher, which queues it for a pool of threads; a pool thread looks up the
method, runs it, and writes the response. An IO thread of the client decodes the response and
calls `read`, which completes the promise. The timer thread completes the future instead when
the timeout is first. Callbacks run on whichever of these threads completed the future, or in
`CallMethod` itself when the future was complete before the callback was attached. The future
proxy stands where the channel does: it selects one of several clients for each call.

What is hard: the table is used by application, IO and timer threads at the same time; a late
response races with the timeout; a request may fail between its insertion and its timeout;
two parties connect the same client; the proxy's list of hosts and its strategy change while
calls read them; callbacks make calls on the threads their responses need; bytes arrive cut
anywhere; services answer out of order; one bad request meets others in progress. What makes
each component correct:

* dispatcher: every call ends, once, with its own response or an error, and leaves no entry;
* client: one established pipeline in the end, known to client and dispatcher alike;
* channel: a callback is run once, and threads do not wait for each other for ever;
* proxy: a call gets a host if there is one, hosts share the calls, no lock is kept, and the
  caller's future tells what the dispatcher's did;
* codec: the messages written come out whole and in order, or an exception is reported;
* message classes: what is serialised is what is parsed, of the size that was computed;
* server: what runs is what was named, every request is answered, nobody is held up;
* pipelined dispatcher: responses in the order of requests, each once;
* all together: an answer without error is the result of the named method, run once.

## 2. Modules

| Module | Models | Checked by |
|---|---|---|
| `RpcCalls` | abstract: how a call may end, and how often the server may run it | implemented by `ClientDispatcher`, `FutureProxy` and `RpcSystem` |
| `MessageChannel` | abstract: a channel that keeps messages and their order | implemented by `FrameCodec` and `PipelinedServerDispatcher` |
| `ClientDispatcher` | the client dispatcher, `RpcChannel`'s request ids | `MCOneChannel`, `MCTwoChannels` |
| `ClientConnection` | the constructor's connect against the connects of calls; the destructor | `MCClientConnection` |
| `CallbackThreads` | `RpcChannel::CallMethod` to its end: which thread waits and which runs the callback | `MCCallbackThreads` |
| `FutureProxy` | `futureRpcCallProxy`, over dispatchers that are `RpcCalls` | `MCFutureProxy` |
| `FrameCodec` | both codec handlers and what the serialiser parses | `MCPipelineCodec`, `MCWholeLengthCodec` |
| `MessageClasses` | the two `.proto` files: fields, defaults, enums, services | `MCRpcMessage`, `MCRpcServer` |
| `GeneratedMethods` | the fields that each generated method of each message class goes through | `MCRpcMessage` |
| `ProtoMessage` | objects of a generated message class | `MCRpcMessage` |
| `PipelinedServerDispatcher` | the pipelined dispatcher | `MCPipelinedServer` |
| `RpcServer` | the multiplex dispatcher, the pool, `pbRPCServer`, the generated services | `MCRpcServer` |
| `RpcSystem` | `ClientDispatcher` and `RpcServer` joined by a connection | `MCRpcSystem` |
| `ClientDispatcherProofs`, `ClientConnectionProofs`, `CallbackThreadsProofs`, `FutureProxyProofs`, `FrameCodecProofs`, `PipelinedServerProofs`, `ProtoMessageProofs`, `RpcSystemProofs` (of `RpcServer` and of `RpcSystem`) | the theorems | TLAPS |

Definitions called "Mutant" are plausible bugs; each precedes the definition it is a variant
of and no specification uses it. They show that the properties can fail.

### ClientDispatcher

One action per access of shared state. `Invoke` draws the id (`PbRpcClient.cc:190`);
`CheckLimit`, `Insert`, `Write`, `Arm` are the four steps of `operator()`; `TimerFires` is the
moment the timer wins the race for the future (folly decides it atomically) and
`TimeoutHandler` its continuation, which erases by id and returns TIMEOUT; `ReadFind`,
`ReadErase`, `ReadSet` are the steps of `read`; `BreakPromise` is folly's destructor of a
promise nobody holds any more. `Serve` and `ReadFind` are the server and the network; neither
has fairness, so loss, delay and reordering of responses are included. `requests_` is the set
of calls with an entry, and an entry's key is `id[c]`: so erasing by id can hit the entry of a
call on another channel with the same id, as in the code.

Taken as atomic: each operation of `folly::ConcurrentHashMap`, `size()` included (the real one
adds up segments and may be off by what changes meanwhile), and folly's decision between
value and timeout.

### ClientConnection

`ConnectSuccess`, `ConnectMark`, `ConnectSetPipeline`, `ConnectError` are the continuation of
the constructor's connect, one assignment each. `CheckConnected` to `Dispatch` are the steps
of a call; `flavour` tells `RpcChannel` (no mutual exclusion, `setPipeline` before
`connected`) from the proxy (`connect_mu` held, `connected` before `setPipeline`). `fault`
names the null pointer that was followed; the program takes no step after that.
`ClientBootstrap::connect` is external (wangle is a git submodule that is not part of the
sources): each use is taken to give its own pipeline or an exception.
`dispatcher->setPipeline` is one step. Which IO thread pool a constructor chooses is not
modelled: the three differ in nothing else here. A destructor that runs while the constructor's connect
is pending is modelled only for the null pointer it finds.

### CallbackThreads

A thread is a stack of frames, because a callback runs inside whatever completed the future
and may make calls of its own. `Refuse`, `Throw` and `Make` are the ways into the dispatcher;
`Write` is `EventBaseHandler`, which writes at once on the connection's IO thread and
otherwise waits until that thread is back in its loop; `Arm` attaches the timeout and the
continuation, which runs there and then if the response was faster; `Deliver` and `Expire`
complete the future on the IO thread and on the timer thread, neither of which can do
so in the middle of something else. The size check and the insertion are one step here, and
`ClientDispatcher` has their race; `Entries` counts the entry that a write which throws leaves
behind. The exception leaves `CallMethod` where it calls the dispatcher (`PbRpcClient.cc:202`,
`:209`), before there is a continuation: such a call's callback is never run. A *program* fixes what the application does: in which
callback each call is made, which calls block, which client each uses, and the limit.
`CanWrite` is when a write does not wait; `Stalled` says that threads wait for each other with
it, so it is a formula on states and can be proved about.

### FutureProxy

`Enter` to `Dispatch` are the steps of `CallMethod`, one per access of shared state; the three
reads of `lbs` are three actions. `addRemoteHost` and `Push` are the two halves of adding a
host under `update_mu`; `CheckHosts` reads `vRpcClient.size()` without that mutex, so during a
push it may see either size. The dispatchers of the hosts are one instance of `RpcCalls`;
`ClientDispatcher` implements `RpcCalls`, which justifies it. `Continuation` is the chain of
`thenValue` with what it makes of each error code. `Random_Select` has no return statement:
its result is the null pointer or one that an earlier selection left behind. `crashed` is a
division by zero or a null pointer followed. How a connect sets its fields is not repeated
here (`ClientConnection`).

### FrameCodec

`Write` is `LengthFieldPrepender::write`. `Deliver` moves any number of bytes from the wire
into the reader's queue; with `NewIOBuf` it may open a new IOBuf, which the cells of `buf`
record. Each branch of `decode` is an action (`DecodeIncompleteHeader`, `DecodeTooSmall`,
`DecodeTooLarge`, `DecodeIncompleteFrame`, `DecodeStripTooLong`, `DecodeFrame`); the loop
around it is `ByteToMessageDecoder`'s. `Parsed` is the part of a frame that
`RpcMsgSerializeHandler::read` gives to protobuf. A byte has `Base` values instead of 256.
The pipelines' parameters are a two-byte field and `maxFrameLength` 65536 = 256^2; with
`Base = 2` that is a two-digit field and `maxFrameLength` 4, so the largest length the field
can say, 3, gives a frame of 5 > 4, exactly as 65535 gives 65537 > 65536. `Number` is what a
length field says and `Power` the weight of its digits, both as recursive functions.

### MessageClasses, GeneratedMethods and ProtoMessage

`MessageClasses` is the two `.proto` files as data. `ProtoMessage` is what the generator makes
of a class, written once for all seven and mapped to the lines of `RpcMessage`. In the code every
class has methods of its own, and `GeneratedMethods` reads off each of them the fields it goes
through: the members a copy constructor takes, what `Clear` resets under which mask, the tag of
every `case` of the parser, the fields written, added up (at once, in the fallback, one by one),
merged and swapped. The methods of `ProtoMessage` do what `CodeOf[c]` says and leave out
the rest, so a field that one method of one class forgets is a behaviour of the model; every
such omission tried by hand in `GeneratedMethods` breaks a property of `rpc_message`.
In `ProtoMessage`, `Clear` resets the block of scalars if any of them
is set (the scalar of a class with one, always) and a string only by its has-bit; `MergeFrom`, `CopyFrom` and the copy constructor go
by has-bits; `ByteSizeLong` has one path for messages whose required fields are all there and a
fallback; `SerializeWithCachedSizes` writes present fields by number, then the unknown
ones. `MergePartialFromCodedStream` reads whole records and then what there is of one more:
`ReadPartial` says which has-bits and bytes a cut record leaves behind. A serialisation is a
sequence of records that know their size in bytes, so cutting at a byte is `Cut(w, k)`.
What runs over the fields or over the records of an input (`Totals`, `FieldRecords`,
`ReadRecords`) is a recursive function. `ClassAssumption` says that the values the program uses
are of the kind of their field, that an enum's default is one of its values, and that the
default of a string is the empty one, as it is in both `.proto` files; `ForeignAssumption` that
a later version writes records of the same format.
`Parse` cuts anywhere, because that is what a frame in several IOBufs leads to. The requests
and responses that `CallMethod` and `handleRpcCall` fill in are inputs of `Build`.

### PipelinedServerDispatcher

`Read` numbers a request, `Serve` is the external service, `Store` begins a continuation,
`Find`, `Take`, `Write`, `Advance` are the accesses of `sendResponses`' loop. `Write` throws for
a response that the length field cannot say (`LengthFieldPrepender.cpp:69`, below it in the
pipeline), which ends the continuation between the erasure and the increment: the response is
gone and all later ones wait. Ids wrap at `Ids`, for 2^32; `RoomForId` bounds the requests
that are read after the last one answered, so that the id of a lost response does not come
back. With `Threads = 1` the continuations run one after the other. With
`Threads = 2` and three requests TLC finds a behaviour in which two continuations find the
same entry and its response is written twice: `responses_` and `lastWrittenId_` have no lock,
and the class is correct only on an executor with one thread. (The library's own pipeline
does not use it.)

### RpcServer

`RegisterService` (any number of times) and `Start` are what `main` does; `Read` queues a
task; `GetService` and `GetMethod` are the two look-ups, which insert empty entries like
`operator[]`; `FollowNull` is the use of a prototype that is not there; `RunMethod` may throw;
`ran[c]` is the sequence of methods that were run for a request, so that a second run shows;
`RunBaseMethod` is a method the server's class does not override, whose generated body follows
the null controller; `Write` is the continuation that writes the response, and throws for one
the length field cannot say. Assumed: different service names have different 32-bit hashes
(`HashAssumption`), services are registered before `Start` (as in `RpcServerTest.cpp`), a
service has at least one method.

### RpcSystem

It extends `RpcServer`, whose names it keeps, and adds the client as `Client`, whose `pc` is
called `stage`: the variables of both ends and the actions of both modules. `ClientStep` and
`ServerStep` are steps of one end; in `Arrive` the server reads a request that the client has
written (`net[c] = "sent"`), and `Respond` is the server's `Write` together with the client's
`Serve`, which happens only if the response could be written. `executed` of `RpcCalls` counts the
methods that ran for a call: a second run would be a step that `RpcCalls` does not have. Requests and responses arrive in
any order or not at all. That allows more than one TCP connection does, so what is shown here
holds of it too.

## 3. Runs

| Run | Instance | Shows |
|---|---|---|
| `one_channel_safety` | 4 calls, one too long to write; 2 application and 2 IO threads; limit 2 | own response, nothing left behind, table bound, promise satisfied once, futures settle once, implements `RpcCalls` |
| `two_channels_collision` | 2 channels with 2 calls each on one client, one call too long | with colliding ids every call still ends |
| `two_channels_crosstalk` | 2 channels, a call each | disagreement: a response can go to another channel's call |
| `codec_stream` | all contents of length 1 and 2, 3 messages, any reads, any IOBufs | framing implements `MessageChannel`; nothing complete is held back; what is parsed is a prefix |
| `codec_garbage` | little-endian field that counts the whole frame, a frame too long | exact until an exception is reported; the loop always ends |
| `connection` | 2 threads, either kind of caller, connects fail, connections close | the proxy's mutex excludes; `setPipeline` and the destructor meet a null pointer only after a late or missing connect, the dispatcher only between two stores of another's connect; client and dispatcher agree in the end; no call hangs |
| `pipelined_order` | 6 requests, of 2 the service may throw, of 2 the response may be too long, ids of 2 bits | order, nothing kept, all answered unless one before threw or could not be written |
| `rpc_server` | the 2 services of `MyService.proto`, any of them registered, 4 calls, 2 threads; throwing, too long, unknown, not overridden | the named method runs, at most once; only a name without code behind it ends the process; nobody is held up |
| `rpc_message` | 7 classes, 2 objects, 3 operations on `RpcMessage` and 4 on the others, input cut at every byte, records of a later version | size, round trip, parsing is merging, the methods agree on the fields, a cut message gives defaults and prefixes only |
| `future_proxy` | 2 calls, 2 hosts added, 2 changes of strategy; wrong name, too long, error code | even shares, no crash but by strategy, an added host is found, every call ends, implements `RpcCalls` |
| `callback_threads` | 64 programs of 4 calls on 1 or 2 clients: 2 by the application and one in the callback of each; 1 application thread, limits 1 and 2 | callbacks run once; which blocking calls can only time out; two rules of use exclude stalls; every call ends or threads stall |
| `rpc_system` | 4 calls, client threads 2, limit 1, pool 2; request too long, response too long, a method that may throw, an unknown method | an answer without error is of this call, whose method has run exactly once; implements `RpcCalls` with *executed* counting runs on the server |

Why the bounds suffice: the hazards are races of two threads over one entry, a third party
(timer, other channel, continuation) and a limit; each instance has two of every kind of
actor that can race and one more call than the limit. In the codec, two messages make
every cut fall before, inside or across a boundary, and the third shows the state after it.
Six requests with four ids wrap the ids with requests outstanding. An error in the code of a
message class shows in the object it is made on and the next one it reaches: build, change,
parse is three operations. All three tests of `lbs` fail only if it changes twice, once before
and once between them. A cycle of waiting threads needs two clients with a callback each. In
`rpc_system` one call of each kind meets the others; what each kind does by itself is in the
runs of the two ends. Runs set `CHECK_DEADLOCK FALSE` because a program that has made its
calls stops.

Every module's liveness assumes only that a thread inside a handler goes on (unless the model
says that it waits), that an armed timer fires, that a connect ends one way or the other (TCP's
own timeout), and that a service or a callback that runs ends. Nothing is assumed of the
server or the network by the client's liveness. `FutureProxy` also assumes that the
dispatcher settles every call, which is `ClientDispatcher!EveryCallSettles`.

Symmetry: `one_channel_safety` permutes calls that are alike and IO threads, `rpc_message` the
two objects; neither has a liveness property.

## 4. Disagreements between code and text

One is a run: `two_channels_crosstalk`. Met while modelling, and described here only:

* The timeout is there so that no entry stays (`ClientDispatcher.h:112-121`), but it is armed
  after the write: the entry of a request that is too long to be written stays in the table and
  counts against `reqlimit` for ever (`:110`). `SettledIsForgotten` makes an exception for it.
* `reqlimit` is exceeded by up to one entry for each further thread inside `operator()`
  (`ClientDispatcher.h:81,91`); `PendingBound` is what holds, and is proved.
* `RpcChannel`'s `unique_lock` (`PbRpcClient.cc:176`) is a temporary and excludes nobody.
  `ConnectExclusive` fails for it and holds for the proxy (`ProxyConnectExclusive`).
* The proxy and the constructor set `connected` before the dispatcher has its pipeline
  (`futureRpcCallProxy.h:105`, `PbRpcClient.cc:136`), so a call in between follows a null
  pointer: `NullDispatchInGap` says that nothing else leads there; and `connected` stays true when the server closes the connection
  (`PbRpcClient.cc:174`), so no later call connects again.
* The late error of the constructor's connect takes away the pipeline of a call that has
  connected meanwhile (`PbRpcClient.cc:144`), and the destructor follows a null pointer when
  nothing has connected (`:124`); `NullAfterError` says when.
* "ensure we can write from any thread" (`PbRpcClient.cc:18`): a write from another thread
  waits for the IO thread, so two callbacks, each on the IO thread of one client and calling
  the other, wait for each other, and the timeout is armed only after the write.
  `CarefulNeverStalls` gives two rules of use that exclude it: callbacks do not block, and call
  only the client they are a callback of.
* A blocking call made by a callback on the IO thread of its own client always ends in a
  timeout, and returns as if it had an answer (`SelfWaitTimesOut`; `PbRpcClient.cc:203`).
* `setLBStrategy(RANDOM)` is offered, and `Random_Select` returns nothing
  (`futureRpcCallProxy.cc:74`); `CrashOnlyByStrategy` says that this and a strategy that
  changes twice during one call are the only ways to follow no client.
* Only the first IOBuf of a frame is parsed (`RpcMsgSerializeHandler.cc:12`), and the result of
  parsing is not looked at: an answer cut there is taken for a shorter one without error.
  `CutIsHonest` bounds the damage: what is not there has its default, what is cut is a prefix.
* "Responses are queued until they can be sent in order" (`ServerDispatcher.h:49`): behind a
  request whose service throws (`:63`) or whose response is too long (`:75`) they are queued
  for ever; `EveryRequestAnswered` says that nothing else holds one back.
* The error code of a response is not looked at by `CallMethod` (`PbRpcClient.cc:203,214`).
* A frame that is too long is dropped only as far as it has arrived
  (`LengthFieldBasedFrameDecoder.cpp:69`): its rest is taken for frames after the exception.
* No response ever says NO_SERVICE or NO_METHOD: such a request ends the server
  (`PbRpcServer.cc:176`), and so does a method its class does not override
  (`PbRpcServer.cc:180`, `MyService.pb.cc:2099`: the controller is null).

## 5. Proofs

`ClientDispatcherProofs`, for any finite set of calls, any channels, threads, limit:

| Theorem | States | Assumes |
|---|---|---|
| `TypeCorrect` | `[]TypeOK` | - |
| `SettledForgotten` | `[]SettledIsForgotten` | - |
| `SettledOnce` | `SettleOnce` | - |
| `BoundedTable` | `[]PendingBound` | - |
| `RightResponse` | `[]OwnResponse` | one channel per client |
| `SatisfiedOnce` | `[]PromiseSatisfiedOnce` | one channel per client |
| `Implements` | `ImplementsRpcCalls` | one channel per client |

"-" is the module's `ConstantsAssumption` alone. `OneChannel` says that the calls belong to one
channel; `two_channels_crosstalk` shows that `RightResponse` needs it.

The properties are not inductive. `IndInv` adds what the steps rely on: where the request of a
call can be in each step (`NetInv`), that an IO thread holds a response read from the network
and a promise stored under its id, out of the table once erased (`ReaderInv`), and the
relations between a call's step, its promise, its entry and its outcome (`PromiseInv`,
`TableInv`, `OutcomeInv`). For one channel, `UniqueIds` says that two started calls have
different ids, `DeliveredOnce` that a response is with at most one IO thread, and `NotBroken`
that no promise is broken; together they give `OwnResponse`, the single satisfaction of
promises, and the refinement, whose proof maps each action to a step of `RpcCalls` or a stutter
(`StepImplements`). `PendingBound` needs `CountInv`: entries plus threads past the check and
before the insertion never exceed the bound; it is proved with the cardinality facts of
FiniteSetTheorems. TLC has checked these invariants on the instances above before they were
proved.

`RpcSystemProofs`, of the server, for any services, calls and number of threads, under
`RpcServer`'s `ConstantsAssumption`, `NullAssumption` (`null` is no service and no method),
`ImplementedAssumption` (code exists only for methods there are) and `HashAssumption`:

| Theorem | States |
|---|---|
| `ServerTypeCorrect` | `[]TypeOK` |
| `NamedMethodRuns` | `[]ServedByNamed` |
| `UnknownNameCrashes` | `[]CrashOnlyByUnknown` |

Its `ServerInv` says what the properties leave unsaid about the map: an entry is a registered
service's own, complete up to null pointers, or holds nothing but null pointers (`EntryInv`);
tasks exist only after `Start` (`StartInv`); what a task has looked up still agrees with the
map, although other tasks insert into it (`TaskInv`); and what has run goes with the step the
task is at (`RanInv`). `EntryInv` with `HashAssumption` is what makes the method found
under an index the one the client named; `TaskInv` at step "run" is what makes a null pointer
a sign of an unknown name.

And of client and server together, for any calls, IO threads, services, threads and limit,
under these assumptions and `ClientAssumption`:

| Theorem | States | Assumes |
|---|---|---|
| `EndToEndAlways` | `[]EndToEnd` | one channel per client |
| `SystemImplements` | `ImplementsRpcCalls` | one channel per client |

Every step of the system is a step of `ClientDispatcher` or none, and a step of `RpcServer` or
none (`StepBoth`); so the invariants proved of the two hold of it without being proved
again. Two invariants join the ends: a response on its way was written by the server (`Link`),
and the server has read only requests that were written (`Sent`). From an answer without error,
the client's invariant leads to this call's own response, `Link` to the server's `Write`, and
the server's invariant to the method that ran. The refinement differs from that of the
dispatcher in what *executed* means: there it is that the server may have answered, here that
the method has run, counted by `ran`. That it is never run twice is `RanInv`: nothing has run for a
call until the one step of its task that runs the method. A refused or failed call was never sent,
so by `Sent` never run.

`FutureProxyProofs`, for any calls, number of hosts and changes of strategy, under
`ConstantsAssumption`:

| Theorem | States |
|---|---|
| `CrashOnlyByStrategyAlways` | `[]CrashOnlyByStrategy`, type correctness included |
| `ProxyKeepsPromise` | `ImplementsRpcCalls` |
| `AddedStaysAvailable` | `AddedIsAvailable` |
| `RoundRobinIsEven` | `[]EvenSpread` |

`HostInv` is the reason why reading the list without its mutex does no harm: a call that found
the list not empty has a host or a push in progress, and the mutex that its selection takes
waits for the push. `StrategyInv` counts the changes of strategy behind each failed test, and
`ClientInv` carries that to the use of the pointer. The other three theorems use `CallStep`: what
any step does to one call, in seven ways instead of twenty actions (`StepIsCallStep`). `CallsInv`
says that the dispatcher has a call exactly from "await" on and that the caller's future, once
ready, tells the dispatcher's ending; with it each way is a step of `RpcCalls` or a stutter
(`StepRefines`). For the even spread, `DrawnInv` says that the calls hold the ids below the
counter, one each, and `SelectionInv` that the id says the client. That shares of remainders
then differ by at most one is `EvenShares`: a call of one remainder is sent to the one so far
below it that has the other remainder, which loses at most the first of them.

`ClientConnectionProofs`, for any number of threads, either kind of caller, connects that may
fail or not and connections that may close or not, under `ConstantsAssumption`:

| Theorem | States |
|---|---|
| `ProxyExcludes` | `[]ProxyConnectExclusive` |
| `NullOnlyAfterError` | `[]NullAfterError` |
| `NullDispatchOnlyInGap` | `[]NullDispatchInGap` |
| `Settles` | `[]SettledConnection` |

`ConnInv` ties each step of a connect to the state of the connection it asked for, and
`NullInv` says when the client has no pipeline, `DispatchInv` why a thread that has connected
itself, or finds nobody in the gap, finds the dispatcher's pipeline. `HandedOver` is what makes client and
dispatcher agree in the end: they differ only while somebody is between the two stores, and a
client that is marked connected has handed a pipeline over, or is just about to.

`CallbackThreadsProofs`, for any programs, calls and number of application and IO threads,
under `ConstantsAssumption`:

| Theorem | States |
|---|---|
| `CallbackRunOnce` | `[]CallbackOnce` |
| `SelfWaitIsVain` | `[]SelfWaitTimesOut` |
| `CarefulRunsOn` | `[]CarefulNeverStalls` |

A call is in one frame of one stack (`UniqueInv`), the frame tells how far the call is
(`Stage`), an IO thread inside a call of its own client has not read the response (`Unread`),
and a careful program keeps to its rules in every frame (`Obeys`). `Moved` is what every action
does to the stacks, one frame left or taken, so that the invariant of frames is proved of it
once. `CarefulRunsOn` follows: of threads that wait for each other one would be an IO thread,
and by `Obeys` an IO thread neither waits for a write nor for a response.

`FrameCodecProofs`, for any base, bytes, contents, number of messages and cut into reads, under
`ParametersAssumption` and `ContentAssumption`:

| Theorem | States | Assumes |
|---|---|---|
| `NumberOfDigits` | `Number(Digits(n)) = n` if n fits | - |
| `ExactFrames` | `[]ExactUntilException` | `Matched` |
| `NothingIsHeldBack` | `[]NothingHeldBack` | `Pipeline` |
| `CodecIsChannel` | `ImplementsMessageChannel` | `Pipeline` |
| `ParsedIsBeginning` | `[]ParsedIsPrefix` | `Pipeline`, no empty message |

`Matched` says that reader and writer agree on what the length field counts; without it no
frame comes out right. `Pipeline` says in addition that the length field is what is stripped
and that no message with its field exceeds the maximum, as in both pipelines of the library
for messages of at most 65534 bytes; a longer one is reported, which `ExactFrames` covers. Both
instances of section 3 are `Matched`, that of `codec_stream` is a `Pipeline`. The invariant is
that the bytes which have not come out, those in the queue and those on the wire, are whole
messages: there are offsets `off` that begin at 0, end at their number, and between which each
message lies (`InStep`). `decode` reads the number at the first offset and cuts at the second.
`ParsedIsPrefix` says that something is parsed of every frame, hence no empty message; an
`RpcMessage` is never empty, as client and server set its type and id.

`NumberOfDigits` is an induction over the width of the field. The library's induction theorem
takes the property as an operator, which the provers cannot instantiate; lemma `Induction` takes
it as a set of numbers instead and is proved from the least number not in the set (`WFMin`), so
a property of every number is proved by naming the set of numbers that have it.

`PipelinedServerProofs`, for any number of requests and ids, under `ConstantsAssumption`:

| Theorem | States | Assumes |
|---|---|---|
| `TypesKept` | `[]TypeOK` | - |
| `KeepsOnlyWaiting` | `[]OnlyWaitingKept` | one executor thread |
| `AnswersInOrder` | `ImplementsMessageChannel` | one executor thread |

The counters are `Taken` (requests read) and `Answered` (responses written), which never wrap;
`ReadInv`, `LastInv` and `WaitingInv` say that the ids are their remainders. They differ by no
more than `Ids` (a guard of `Read` that stands for 2^32 requests outstanding), so two requests
outstanding have different ids (`DistinctIds`) and the response found under the id that follows
the last one written is the next response. `IdleInv` is why none waits in vain: between two
continuations the next response is not there. With two threads neither theorem holds (section
2).

`ProtoMessageProofs`, for any classes, any number of objects, any operations and any records of
later versions, under `ClassAssumption` and `ForeignAssumption`, and if `Complete(c)` holds of
every class: each of its methods goes through all its fields (that those of the seven classes
do is read from the code into `GeneratedMethods`, where `rpc_message` checks what follows from
it):

| Theorem | States |
|---|---|
| `ObjectsWellFormed` | `[]IInv`: every object is well-formed |
| `SizesAreExact` | `[]SizeExact` |
| `RoundTrips` | `[]RoundTrip` |
| `ParsingMerges` | `[]ParseIsMerge` |
| `CutsAreHonest` | `[]CutIsHonest`, type correctness included |

The properties speak of arbitrary objects, and fail for some that no operation makes: one
that keeps a value under a has-bit that is not set is not what its own bytes parse to, because
`Clear` leaves that value where it is and the serialiser leaves it out. `WellFormed` says that a
field without has-bit holds its default, every field a value of its own, and that what is kept
as unknown is what the class does not understand. Each operation keeps that, for its own reason:
`Clear` resets all scalars as soon as one has its has-bit and a string by its own, which is
enough for a well-formed object to be as new (`ClearIsFresh`); the copy constructor takes
scalars without looking (`CopyConstructCopies`); the parser sets a has-bit and then loses the
value, or half of it, when the input ends there (`ReadPartialWellFormed`).

The rest is about two sequences of records. What is written is the record of each field with a
has-bit, once, then the unknown ones (`SerializeProperties`), and takes the bytes that
`ByteSizeLong` adds up in two parts (`FieldsSizeAdd`, `ByteSizeIsWireSize`; sums split and
shift by `TotalsAdd` and `TotalsShift`). `Cut` gives the first records whole and at most a part
of the next, never an empty part nor all of it, for any number of bytes (`CutProperties`: sums
of positive sizes grow). Reading the first records of what `o` was written as gives the fields of
`o` that came and leaves the others (`ReadSerialized`, by induction over the number of records);
when all came, that is `MergeFrom` (`WholeIsMerge`), and from a new object it is `o` itself. After a
cut, the part of the next record adds a prefix of one string or a has-bit
(`PartialIsHonest`). `IInv` held on the instance of `rpc_message` before it was proved.

The proof showed that two definitions of the model were ambiguous: the arms of a `CASE`
overlapped in `VarintSize` and `ReadPartial`, of which TLC takes the first that is true and TLA+
any of them. They now say which; no other `CASE` of the project has arms that overlap.

Only model-checked: the liveness properties (`EveryCallSettles`, `LoopEnds`,
`EveryCallGetsThrough`, `EveryRequestAnswered`, `EveryCallEnds`, `EveryCallEndsOrStalls`). TLAPS
does not do fairness or `ENABLED`. Every safety property and every refinement that a run finds
to hold is stated by a theorem, for all values of the constants.

## 6. Not modelled

* `SerialServerDispatcher`: its `read` is one call that waits for the service; it has no state.
* The choice of an IO thread pool by the constructors of `PbRpcClient` and `addRemoteHost`.
* Lifetimes: when wangle deletes a pipeline, what a continuation does that outlives the client
  (`PbRpcClient.cc:131`, `ServerDispatcher.h:106`), request and response objects that the server
  never deletes (`PbRpcServer.cc:176`).
* Two services whose names have the same 32-bit hash (`PbRpcServer.cc:134`): the later replaces
  the earlier in the map. It is excluded by `HashAssumption`.
* Two insertions into the server's `unordered_map` at the same time: `operator[]` is one step.
* Of the generated code: descriptors, reflection, arenas, extension registration, start-up
  and shut-down of the file, and the parser for the other protobuf runtime. A string that is
  not UTF-8 is not told from one that is.
* `StringUtil` (a pure function nothing calls), `LinuxNetworkUtil` (asks the operating system
  for addresses; nothing calls it), the examples (they decide the models' inputs), the build
  files.

The hazards in `PROJECT.json` without a property have a note that says why.

## 7. Plan

Done: all components that keep state, their composition, and theorems for every safety
property and every refinement the runs check. Worth adding, in this order:

1. The composition of `FrameCodec` and `ProtoMessage` with the two ends of `RpcSystem`: the
   promise of a channel that keeps order is stronger than what `RpcSystem` assumes of the
   connection, and what a cut message becomes would reach the caller.
2. A client that is destroyed while its constructor's connect or a timeout is pending, once the
   sources of wangle are at hand to say when a pipeline goes.
