-------------------------- MODULE ClientConnection --------------------------
(***************************************************************************)
(* How a PbRpcClient gets its connection.  The constructor starts an       *)
(* asynchronous connect whose continuation runs on an IO thread; a call    *)
(* that finds `connected' false connects on its own and waits for it.      *)
(* Both write the same three fields: connected, pipeline, and the          *)
(* pipeline_ of the dispatcher, which requests are written to.             *)
(*                                                                         *)
(* RpcChannel::CallMethod and futureRpcCallProxy::CallMethod differ in the *)
(* mutex they take and in the order of the last two writes; flavour says   *)
(* which one uses this client.  Every thread makes one call.               *)
(*                                                                         *)
(* ClientBootstrap::connect is external: every use yields a pipeline of    *)
(* its own, or an exception.  A connection is named by who asked for it.   *)
(***************************************************************************)
EXTENDS Naturals

CONSTANTS
    Thread,       \* the application threads
    Flavours,     \* which of "channel" and "proxy" a run looks at
    ctor,         \* names the connection of the constructor
    null,         \* the null pointer
    MayFail,      \* can a connect end with an exception?
    MayClose      \* can the server close a connection?

ASSUME ConstantsAssumption ==
    /\ Flavours \subseteq {"channel", "proxy"}
    /\ ctor \notin Thread /\ {null, "none"} \cap (Thread \cup {ctor}) = {}
    /\ MayFail \in BOOLEAN /\ MayClose \in BOOLEAN

VARIABLES
    connected,    \* PbRpcClient::connected
    pipeline,     \* PbRpcClient::pipeline
    pipeline_,    \* ClientDispatcherBase::pipeline_
    attached,     \* the pipelines whose last handler is the dispatcher
    conn,         \* conn[k]: the state of the connection k asked for
    callback,     \* the step of the constructor's continuation
    pc,           \* pc[t]: the step of the call of thread t
    connect_mu,   \* the thread that holds the proxy's mutex
    request,      \* request[t]: what became of the request of t
    flavour,      \* whose CallMethod the threads run
    fault         \* the null pointer the program followed, if it did

vars == <<connected, pipeline, pipeline_, attached, conn, callback, pc,
          connect_mu, request, flavour, fault>>

Attempt == Thread \cup {ctor}

TypeOK ==
    /\ connected \in BOOLEAN
    /\ pipeline \in Attempt \cup {null}
    /\ pipeline_ \in Attempt \cup {null}
    /\ attached \subseteq Attempt
    /\ conn \in [Attempt -> {"none", "connecting", "up", "failed", "closed"}]
    /\ callback \in {"wait", "mark", "set", "done"}
    /\ pc \in [Thread -> {"start", "lock", "connect", "get", "set", "mark",
                          "unlock", "dispatch", "done", "thrown"}]
    /\ connect_mu \in Thread \cup {null}
    /\ request \in [Thread -> Attempt \cup {"none", "lost"}]
    /\ flavour \in Flavours
    /\ fault \in {"none", "setPipeline", "dispatch", "destructor"}

\* The constructor has started its connect.
Init ==
    /\ connected = FALSE
    /\ pipeline = null
    /\ pipeline_ = null
    /\ attached = {}
    /\ conn = [k \in Attempt |-> IF k = ctor THEN "connecting" ELSE "none"]
    /\ callback = "wait"
    /\ pc = [t \in Thread |-> "start"]
    /\ connect_mu = null
    /\ request = [t \in Thread |-> "none"]
    /\ flavour \in Flavours
    /\ fault = "none"

\* The next step of thread t, of the continuation.  A program that has
\* followed a null pointer takes no step.
At(t, label)       == fault = "none" /\ pc[t] = label
ContinueAt(label)  == fault = "none" /\ callback = label

Goto(t, label) == pc' = [pc EXCEPT ![t] = label]

Open(k) == conn[k] \in {"up", "closed"}   \* the future of k has its pipeline

-----------------------------------------------------------------------------
(* The network and the server.                                             *)

Establish(k) ==
    /\ conn[k] = "connecting"
    /\ conn' = [conn EXCEPT ![k] = "up"]
    /\ UNCHANGED <<connected, pipeline, pipeline_, attached, callback, pc,
                   connect_mu, request, fault, flavour>>

Refuse(k) ==
    /\ MayFail
    /\ conn[k] = "connecting"
    /\ conn' = [conn EXCEPT ![k] = "failed"]
    /\ UNCHANGED <<connected, pipeline, pipeline_, attached, callback, pc,
                   connect_mu, request, fault, flavour>>

\* The server closes connection k.  If the dispatcher is the last handler of
\* its pipeline, readEOF closes pipeline_, whichever that is by now.
RemoteClose(k) ==
    /\ MayClose
    /\ conn[k] = "up"
    /\ conn' = [c \in Attempt |->
                  IF c = k \/ (k \in attached /\ c = pipeline_)
                    THEN "closed" ELSE conn[c]]
    /\ UNCHANGED <<connected, pipeline, pipeline_, attached, callback, pc,
                   connect_mu, request, fault, flavour>>

-----------------------------------------------------------------------------
(* dispatcher->setPipeline(pipeline), ClientDispatcherBase: it follows the  *)
(* pointer it is given.                                                    *)

setPipeline ==
    IF pipeline = null
      THEN fault' = "setPipeline" /\ UNCHANGED <<pipeline_, attached>>
      ELSE /\ pipeline_' = pipeline
           /\ attached' = attached \cup {pipeline}
           /\ UNCHANGED fault

-----------------------------------------------------------------------------
(* PbRpcClient::connect: the continuation of the constructor's connect.    *)

ConnectSuccess ==
    /\ ContinueAt("wait")
    /\ Open(ctor)
    /\ pipeline' = ctor
    /\ callback' = "mark"
    /\ UNCHANGED <<connected, pipeline_, attached, conn, pc, connect_mu,
                   request, fault, flavour>>

ConnectMark ==
    /\ ContinueAt("mark")
    /\ connected' = TRUE
    /\ callback' = "set"
    /\ UNCHANGED <<pipeline, pipeline_, attached, conn, pc, connect_mu,
                   request, fault, flavour>>

ConnectSetPipeline ==
    /\ ContinueAt("set")
    /\ setPipeline
    /\ callback' = "done"
    /\ UNCHANGED <<connected, pipeline, conn, pc, connect_mu, request,
                   flavour>>

ConnectError ==
    /\ ContinueAt("wait")
    /\ conn[ctor] = "failed"
    /\ pipeline' = null
    /\ callback' = "done"
    /\ UNCHANGED <<connected, pipeline_, attached, conn, pc, connect_mu,
                   request, fault, flavour>>

Continuation == \/ ConnectSuccess \/ ConnectMark \/ ConnectSetPipeline
                \/ ConnectError

-----------------------------------------------------------------------------
(* CallMethod, up to the point where the request is handed to the pipeline. *)

\* RpcChannel constructs a temporary unique_lock, which is gone at the end of
\* the statement: it excludes nobody.  The proxy's lock has a name.
CheckConnected(t) ==
    /\ At(t, "start")
    /\ IF connected THEN Goto(t, "dispatch")
       ELSE Goto(t, IF flavour = "proxy" THEN "lock" ELSE "connect")
    /\ UNCHANGED <<connected, pipeline, pipeline_, attached, conn, callback,
                   connect_mu, request, fault, flavour>>

\* Mutant: the proxy's lock is a temporary, too.
LockTemporary(t) ==
    /\ At(t, "lock")
    /\ connect_mu = null
    /\ Goto(t, "connect")
    /\ UNCHANGED <<connected, pipeline, pipeline_, attached, conn, callback,
                   connect_mu, request, fault, flavour>>

\* `connected' is not looked at again once the mutex is held.
Lock(t) ==
    /\ At(t, "lock")
    /\ connect_mu = null
    /\ connect_mu' = t
    /\ Goto(t, "connect")
    /\ UNCHANGED <<connected, pipeline, pipeline_, attached, conn, callback,
                   request, fault, flavour>>

Connect(t) ==
    /\ At(t, "connect")
    /\ conn' = [conn EXCEPT ![t] = "connecting"]
    /\ Goto(t, "get")
    /\ UNCHANGED <<connected, pipeline, pipeline_, attached, callback,
                   connect_mu, request, fault, flavour>>

\* Mutant: the client is marked as connected as soon as it has its pipeline.
GetMarks(t) ==
    /\ At(t, "get")
    /\ \/ /\ Open(t)
          /\ pipeline' = t /\ connected' = TRUE
          /\ Goto(t, IF flavour = "proxy" THEN "mark" ELSE "set")
          /\ UNCHANGED connect_mu
       \/ /\ conn[t] = "failed"
          /\ Goto(t, "thrown")
          /\ connect_mu' = IF connect_mu = t THEN null ELSE connect_mu
          /\ UNCHANGED <<pipeline, connected>>
    /\ UNCHANGED <<pipeline_, attached, conn, callback, request, fault, flavour>>

\* Mutant: the future's exception is not looked for.
GetNoException(t) ==
    /\ At(t, "get")
    /\ Open(t)
    /\ pipeline' = t
    /\ Goto(t, IF flavour = "proxy" THEN "mark" ELSE "set")
    /\ UNCHANGED <<connected, pipeline_, attached, conn, callback, connect_mu,
                   request, fault, flavour>>

\* Mutant: the result of the connect is not stored in the client.
GetNotStored(t) ==
    /\ At(t, "get")
    /\ Open(t)
    /\ Goto(t, IF flavour = "proxy" THEN "mark" ELSE "set")
    /\ UNCHANGED <<connected, pipeline, pipeline_, attached, conn, callback,
                   connect_mu, request, fault, flavour>>

\* connect(...).get(): the pipeline, or the exception leaves CallMethod.
Get(t) ==
    /\ At(t, "get")
    /\ \/ /\ Open(t)
          /\ pipeline' = t
          /\ Goto(t, IF flavour = "proxy" THEN "mark" ELSE "set")
          /\ UNCHANGED connect_mu
       \/ /\ conn[t] = "failed"
          /\ Goto(t, "thrown")
          /\ connect_mu' = IF connect_mu = t THEN null ELSE connect_mu
          /\ UNCHANGED pipeline
    /\ UNCHANGED <<connected, pipeline_, attached, conn, callback, request,
                   fault, flavour>>

Mark(t) ==
    /\ At(t, "mark")
    /\ connected' = TRUE
    /\ Goto(t, IF flavour = "proxy" THEN "set" ELSE "dispatch")
    /\ UNCHANGED <<pipeline, pipeline_, attached, conn, callback, connect_mu,
                   request, fault, flavour>>

\* Mutant: only the first pipeline is given to the dispatcher.
SetPipelineOnce(t) ==
    /\ At(t, "set")
    /\ IF pipeline_ = null THEN setPipeline
                           ELSE UNCHANGED <<pipeline_, attached, fault>>
    /\ Goto(t, IF flavour = "proxy" THEN "unlock" ELSE "mark")
    /\ UNCHANGED <<connected, pipeline, conn, callback, connect_mu, request,
                   flavour>>

\* The pointer is read from the client again, not kept from Get.
SetPipeline(t) ==
    /\ At(t, "set")
    /\ setPipeline
    /\ Goto(t, IF flavour = "proxy" THEN "unlock" ELSE "mark")
    /\ UNCHANGED <<connected, pipeline, conn, callback, connect_mu, request,
                   flavour>>

Unlock(t) ==
    /\ At(t, "unlock")
    /\ connect_mu' = null
    /\ Goto(t, "dispatch")
    /\ UNCHANGED <<connected, pipeline, pipeline_, attached, conn, callback,
                   request, fault, flavour>>

\* pipeline_->write(arg): on a connection that is closed the write fails, and
\* its future is not looked at.
Dispatch(t) ==
    /\ At(t, "dispatch")
    /\ IF pipeline_ = null
         THEN fault' = "dispatch" /\ UNCHANGED request
         ELSE /\ request' = [request EXCEPT ![t] =
                    IF conn[pipeline_] = "up" THEN pipeline_ ELSE "lost"]
              /\ UNCHANGED fault
    /\ Goto(t, "done")
    /\ UNCHANGED <<connected, pipeline, pipeline_, attached, conn, callback,
                   connect_mu, flavour>>

CallMethod(t) == \/ CheckConnected(t) \/ Lock(t) \/ Connect(t) \/ Get(t)
                 \/ Mark(t) \/ SetPipeline(t) \/ Unlock(t) \/ Dispatch(t)

-----------------------------------------------------------------------------
(* ~PbRpcClient, after the last call: it closes `pipeline' and waits.  It   *)
(* does not wait for the constructor's connect; what that does to a client  *)
(* that is gone is not modelled.                                           *)

Destroy ==
    /\ fault = "none"
    /\ \A t \in Thread : pc[t] \in {"done", "thrown"}
    /\ IF pipeline = null
         THEN fault' = "destructor" /\ UNCHANGED conn
         ELSE /\ callback = "done"
              /\ conn[pipeline] = "up"
              /\ conn' = [conn EXCEPT ![pipeline] = "closed"]
              /\ UNCHANGED fault
    /\ UNCHANGED <<connected, pipeline, pipeline_, attached, callback, pc,
                   connect_mu, request, flavour>>

-----------------------------------------------------------------------------
Next == \/ \E k \in Attempt : Establish(k) \/ Refuse(k) \/ RemoteClose(k)
        \/ Continuation
        \/ \E t \in Thread : CallMethod(t)
        \/ Destroy

Spec == Init /\ [][Next]_vars

\* A connect ends one way or the other, and threads go on.  A mutex is given
\* to a waiting thread at some time: each thread takes it once.
Fairness == /\ \A k \in Attempt : WF_vars(Establish(k) \/ Refuse(k))
            /\ WF_vars(Continuation)
            /\ \A t \in Thread : WF_vars(CallMethod(t))

FairSpec == Spec /\ Fairness

-----------------------------------------------------------------------------
(* Properties.                                                             *)

Connecting(t) == pc[t] \in {"connect", "get", "mark", "set", "unlock"}

\* No thread and no continuation is about to write the three fields.
Quiet == callback = "done" /\ \A t \in Thread : ~Connecting(t)

\* At most one thread connects at a time, which the mutexes are for ("mutex
\* for connecting to the remote RPC server", futureRpcCallProxy.h:177).
ConnectExclusive ==
    \A t, u \in Thread : Connecting(t) /\ Connecting(u) => t = u

\* The proxy keeps that promise.
ProxyConnectExclusive == flavour = "proxy" => ConnectExclusive

\* setPipeline follows a null pointer only where the constructor's connect
\* failed late; the destructor only there, or where no call has connected.
NullAfterError ==
    /\ fault = "setPipeline" => conn[ctor] = "failed"
    /\ fault = "destructor" =>
          conn[ctor] = "failed" \/ \A t \in Thread : ~Open(t)

\* A call follows the dispatcher's null pipeline_ only in the gap between
\* `connected = true' and setPipeline, which the constructor's continuation
\* leaves (PbRpcClient.cc:136) and the proxy, but not RpcChannel; and it is a
\* call that found `connected' true, never one that has connected itself.
NullDispatchInGap ==
    fault = "dispatch" =>
        /\ \/ callback = "set"
           \/ flavour = "proxy" /\ \E t \in Thread : pc[t] = "set"
        /\ \A t \in Thread :
              pc[t] = "done" /\ request[t] = "none" => conn[t] = "none"

\* Whoever connects in whatever order, in the end a connected client's
\* dispatcher writes to the pipeline the client knows and its destructor
\* closes, except where the late error of the constructor's connect took the
\* pointer away.  The variables keep their types on the way there.
SettledConnection ==
    /\ TypeOK
    /\ Quiet /\ connected /\ fault = "none" =>
        /\ pipeline_ # null
        /\ pipeline = pipeline_ \/ (pipeline = null /\ conn[ctor] = "failed")

\* A call is never stuck in connecting.
EveryCallGetsThrough ==
    \A t \in Thread : pc[t] # "start" ~>
        (pc[t] \in {"done", "thrown"} \/ fault # "none")
=============================================================================
