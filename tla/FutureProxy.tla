----------------------------- MODULE FutureProxy -----------------------------
(***************************************************************************)
(* futureRpcCallProxy: a caller names a method and gets a future; the      *)
(* proxy draws an id, selects one of its hosts by a strategy, connects if  *)
(* need be and hands the request to that host's dispatcher, whose answer   *)
(* readies the future.  Any thread may call, add a host or set the         *)
(* strategy at any time.                                                   *)
(*                                                                         *)
(* The dispatchers of the hosts are RpcCalls, which ClientDispatcher       *)
(* implements for one channel (each client has one proxy, and the proxy    *)
(* one counter).  How a client connects in detail is ClientConnection.     *)
(***************************************************************************)
EXTENDS Naturals, FiniteSets

CONSTANTS
    Call,         \* the calls made in a run
    Misnamed,     \* the calls that may name a method the service does not have
    Oversized,    \* the calls whose request may be too long to be written
    OtherError,   \* the calls a foreign server may answer with an error code
    hashCode,     \* hashCode[c]: Hash32 of service name and method name
    MaxHosts,     \* bound: hosts added in a run
    MaxChanges,   \* bound: setLBStrategy calls in a run
    none          \* no call, no host, no strategy

LBStrategy == {"RANDOM", "HASH", "RoundRobin"}

\* What CallMethod gives its caller; "thrown" is an exception instead of a future.
Ready == {"value", "thrown", "NO_METHOD", "NO_AVAILABLE_RPCHOSTS", "PENDDING_LIMIT",
          "REMOTE RESPONSE TIMEOUT", "INVALID_REQUEST", "RPC CALL ERROR"}

ASSUME ConstantsAssumption ==
    /\ IsFiniteSet(Call) /\ none \notin Call \cup Nat
    /\ none \notin LBStrategy \cup Ready
    /\ hashCode \in [Call -> Nat]
    /\ MaxHosts \in Nat /\ MaxChanges \in Nat

VARIABLES
    hosts,        \* vRpcClient.size(): the clients are 0 .. hosts - 1
    connected,    \* the clients whose connected flag is set
    pushing,      \* addRemoteHost holds update_mu
    connect_mu,   \* the call that holds connect_mu
    lbs,          \* the strategy
    changes,      \* how often it was set
    request_id,   \* the atomic counter
    pc,           \* pc[c]: the step of call c
    curReqId,     \* curReqId[c], by[c], of[c], rpcClient[c]: the id c drew, the
    by,           \*   strategy it selected by, the number of hosts it
    of,           \*   selected from, and the client it selected
    rpcClient,
    future,       \* future[c]: what the caller's future is ready with
    dispatched,   \* the dispatchers' calls, see RpcCalls
    executed,
    crashed       \* the program has divided by 0 or followed a null pointer

program  == <<hosts, connected, pushing, connect_mu, lbs, changes, request_id>>
selection == <<curReqId, by, of, rpcClient>>
vars == <<program, pc, selection, future, dispatched, executed, crashed>>

Dispatcher == INSTANCE RpcCalls WITH status <- dispatched

Steps == {"new", "size", "id", "RoundRobin", "RANDOM", "HASH", "select", "check",
          "lock", "connect", "dispatch", "await", "done"}

TypeOK ==
    /\ hosts \in 0 .. MaxHosts
    /\ connected \subseteq 0 .. hosts - 1
    /\ pushing \in BOOLEAN
    /\ connect_mu \in Call \cup {none}
    /\ lbs \in LBStrategy /\ changes \in 0 .. MaxChanges
    /\ request_id \in Nat
    /\ pc \in [Call -> Steps]
    /\ curReqId \in [Call -> Nat]
    /\ by \in [Call -> LBStrategy \cup {none}]
    /\ of \in [Call -> 0 .. hosts]
    /\ rpcClient \in [Call -> 0 .. hosts - 1 \cup {none}]
    /\ future \in [Call -> Ready \cup {none}]
    /\ Dispatcher!TypeOK
    /\ crashed \in BOOLEAN

Init ==
    /\ hosts = 0 /\ connected = {} /\ pushing = FALSE
    /\ connect_mu = none
    /\ lbs = "RoundRobin" /\ changes = 0
    /\ request_id = 0
    /\ pc = [c \in Call |-> "new"]
    /\ curReqId = [c \in Call |-> 0]
    /\ by = [c \in Call |-> none]
    /\ of = [c \in Call |-> 0]
    /\ rpcClient = [c \in Call |-> none]
    /\ future = [c \in Call |-> none]
    /\ Dispatcher!Init
    /\ crashed = FALSE

At(c, label)   == pc[c] = label /\ ~crashed
Goto(c, label) == pc' = [pc EXCEPT ![c] = label]

\* The caller's future becomes ready, or CallMethod throws.
End(c, e) == Goto(c, "done") /\ future' = [future EXCEPT ![c] = e]

\* A step of a call before it is dispatched.
Local == UNCHANGED <<dispatched, executed>>

-----------------------------------------------------------------------------
(* The owner of the proxy.                                                 *)

setLBStrategy(l) ==
    /\ ~crashed
    /\ changes < MaxChanges
    /\ lbs' = l /\ changes' = changes + 1
    /\ UNCHANGED <<hosts, connected, pushing, connect_mu, request_id, pc,
                   selection, future, crashed>>
    /\ Local

\* addRemoteHost takes update_mu and makes the client ...
addRemoteHost ==
    /\ ~crashed
    /\ ~pushing /\ hosts < MaxHosts
    /\ pushing' = TRUE
    /\ UNCHANGED <<hosts, connected, connect_mu, lbs, changes, request_id, pc,
                   selection, future, crashed>>
    /\ Local

\* ... and gives it back with push_back done.
Push ==
    /\ ~crashed
    /\ pushing /\ pushing' = FALSE
    /\ hosts' = hosts + 1
    /\ UNCHANGED <<connected, connect_mu, lbs, changes, request_id, pc, selection,
                   future, crashed>>
    /\ Local

\* The connect the client's constructor has begun ends well.
ConnectSuccess(h) ==
    /\ ~crashed
    /\ h \in 0 .. hosts - 1 /\ h \notin connected
    /\ connected' = connected \cup {h}
    /\ UNCHANGED <<hosts, pushing, connect_mu, lbs, changes, request_id, pc,
                   selection, future, crashed>>
    /\ Local

-----------------------------------------------------------------------------
(* CallMethod.                                                             *)

\* Mutant: the list of hosts is not looked at.
CheckHostsNot(c) ==
    /\ At(c, "size")
    /\ Goto(c, "id") /\ UNCHANGED future
    /\ UNCHANGED <<program, selection, crashed>> /\ Local

\* Mutant: a list that is being changed may look empty.
CheckHostsTorn(c) ==
    /\ At(c, "size")
    /\ \/ /\ hosts = 0 \/ pushing
          /\ End(c, "NO_AVAILABLE_RPCHOSTS")
       \/ /\ hosts > 0 \/ pushing
          /\ Goto(c, "id") /\ UNCHANGED future
    /\ UNCHANGED <<program, selection, crashed>> /\ Local

\* A thread enters CallMethod.
Enter(c) ==
    /\ At(c, "new")
    /\ Goto(c, "size")
    /\ UNCHANGED <<program, selection, future, crashed>> /\ Local

FindMethod(c) ==
    /\ At(c, "size") /\ c \in Misnamed
    /\ End(c, "NO_METHOD")
    /\ UNCHANGED <<program, selection, crashed>> /\ Local

\* vRpcClient.size() without update_mu: the begin and end pointers of a vector
\* that is being pushed to differ unless both are still those of an empty one.
CheckHosts(c) ==
    /\ At(c, "size")
    /\ \/ /\ hosts = 0
          /\ End(c, "NO_AVAILABLE_RPCHOSTS")
       \/ /\ hosts > 0 \/ pushing
          /\ Goto(c, "id") /\ UNCHANGED future
    /\ UNCHANGED <<program, selection, crashed>> /\ Local

\* Mutant: the counter advances for every second call only.
DrawIdTwice(c) ==
    /\ At(c, "id")
    /\ curReqId' = [curReqId EXCEPT ![c] = request_id \div 2]
    /\ request_id' = request_id + 1
    /\ Goto(c, "RoundRobin")
    /\ UNCHANGED <<hosts, connected, pushing, connect_mu, lbs, changes, by, of,
                   rpcClient, future, crashed>>
    /\ Local

DrawId(c) ==
    /\ At(c, "id")
    /\ curReqId' = [curReqId EXCEPT ![c] = request_id]
    /\ request_id' = request_id + 1
    /\ Goto(c, "RoundRobin")
    /\ UNCHANGED <<hosts, connected, pushing, connect_mu, lbs, changes, by, of,
                   rpcClient, future, crashed>>
    /\ Local

\* if(lbs == l) ... else: the three tests read lbs anew.  When the third fails,
\* too, rpcClient is the null pointer that the next statement follows.
TestStrategy(c, l, otherwise) ==
    /\ At(c, l)
    /\ IF lbs = l
         THEN by' = [by EXCEPT ![c] = l] /\ Goto(c, "select")
         ELSE UNCHANGED by /\ Goto(c, otherwise)
    /\ UNCHANGED <<program, curReqId, of, rpcClient, future, crashed>> /\ Local

TestRoundRobin(c) == TestStrategy(c, "RoundRobin", "RANDOM")
TestRANDOM(c)     == TestStrategy(c, "RANDOM", "HASH")
TestHASH(c)       == TestStrategy(c, "HASH", "check")

\* The caller has selected client h of n.
Selected(c, h, n) ==
    /\ rpcClient' = [rpcClient EXCEPT ![c] = h]
    /\ of' = [of EXCEPT ![c] = n]
    /\ Goto(c, "check")

\* vRpcClient[key % vRpcClient.size()] under update_mu.
ByKey(c, key) ==
    /\ ~pushing
    /\ IF hosts = 0
         THEN crashed' = TRUE /\ UNCHANGED <<pc, of, rpcClient>>
         ELSE Selected(c, key % hosts, hosts) /\ UNCHANGED crashed
    /\ UNCHANGED <<program, curReqId, by, future>> /\ Local

RoundRobin_Select(c) ==
    At(c, "select") /\ by[c] = "RoundRobin" /\ ByKey(c, curReqId[c])

Hash_Select(c) == At(c, "select") /\ by[c] = "HASH" /\ ByKey(c, hashCode[c])

\* Random_Select has no return statement: the pointer is null, or one that an
\* earlier selection has left on the stack.
Random_Select(c) ==
    /\ At(c, "select") /\ by[c] = "RANDOM"
    /\ \/ Goto(c, "check") /\ UNCHANGED <<of, rpcClient>>
       \/ \E d \in Call : rpcClient[d] # none /\ Selected(c, rpcClient[d], 0)
    /\ UNCHANGED <<program, curReqId, by, future, crashed>> /\ Local

CheckConnected(c) ==
    /\ At(c, "check")
    /\ IF rpcClient[c] = none
         THEN crashed' = TRUE /\ UNCHANGED pc
         ELSE /\ Goto(c, IF rpcClient[c] \in connected THEN "dispatch" ELSE "lock")
              /\ UNCHANGED crashed
    /\ UNCHANGED <<program, selection, future>> /\ Local

Lock(c) ==
    /\ At(c, "lock")
    /\ connect_mu = none /\ connect_mu' = c
    /\ Goto(c, "connect")
    /\ UNCHANGED <<hosts, connected, pushing, lbs, changes, request_id, selection,
                   future, crashed>>
    /\ Local

\* Mutant: the exception leaves the mutex locked.
ConnectKeepsLock(c) ==
    /\ At(c, "connect")
    /\ \/ /\ connected' = connected \cup {rpcClient[c]}
          /\ connect_mu' = none
          /\ Goto(c, "dispatch") /\ UNCHANGED future
       \/ End(c, "thrown") /\ UNCHANGED <<connected, connect_mu>>
    /\ UNCHANGED <<hosts, pushing, lbs, changes, request_id, selection, crashed>>
    /\ Local

\* tcpClient.connect(...).get() and setPipeline, or an exception, which
\* releases the mutex and leaves CallMethod.
Connect(c) ==
    /\ At(c, "connect")
    /\ connect_mu' = none
    /\ \/ /\ connected' = connected \cup {rpcClient[c]}
          /\ Goto(c, "dispatch") /\ UNCHANGED future
       \/ End(c, "thrown") /\ UNCHANGED connected
    /\ UNCHANGED <<hosts, pushing, lbs, changes, request_id, selection, crashed>>
    /\ Local

\* (*rpcClient->dispatcher)(Req): the exception for a request that cannot be
\* written comes out of CallMethod.
Dispatch(c) ==
    /\ At(c, "dispatch")
    /\ \/ c \in Oversized /\ End(c, "thrown") /\ Local
       \/ Goto(c, "await") /\ UNCHANGED future /\ Dispatcher!Open(c)
    /\ UNCHANGED <<program, selection, crashed>>

-----------------------------------------------------------------------------
(* The dispatcher, the server, and the continuations of the future.        *)

Execute(c) == /\ Dispatcher!Execute(c) /\ ~crashed
              /\ UNCHANGED <<program, pc, selection, future, crashed>>

\* The dispatcher's future becomes ready: it ends with an answer, unless the
\* table is full or the timer is first.
Settle(c) == /\ ~crashed
             /\ Dispatcher!Answer(c) \/ Dispatcher!Refuse(c) \/ Dispatcher!Expire(c)
             /\ UNCHANGED <<program, pc, selection, future, crashed>>

\* Mutant: the error code of the response is not looked at.
ErrorIgnored(c) == {"value"}

\* What the continuations make of the error code of the response.
Error(c) ==
    CASE dispatched[c] = "answered" ->
           {"value"} \cup IF c \in OtherError THEN {"RPC CALL ERROR"} ELSE {}
      [] dispatched[c] = "refused" -> {"PENDDING_LIMIT", "INVALID_REQUEST"}
      [] OTHER -> {"REMOTE RESPONSE TIMEOUT"}

\* The .thenValue continuation, on the thread that readied the future.
Continuation(c) ==
    /\ At(c, "await")
    /\ dispatched[c] \in Dispatcher!Endings
    /\ \E e \in Error(c) : End(c, e)
    /\ UNCHANGED <<program, selection, dispatched, executed, crashed>>

-----------------------------------------------------------------------------
CallMethod(c) ==
    \/ FindMethod(c) \/ CheckHosts(c) \/ DrawId(c)
    \/ TestRoundRobin(c) \/ TestRANDOM(c) \/ TestHASH(c)
    \/ RoundRobin_Select(c) \/ Random_Select(c) \/ Hash_Select(c)
    \/ CheckConnected(c) \/ Lock(c) \/ Connect(c) \/ Dispatch(c)
    \/ Continuation(c)

Next == \/ \E l \in LBStrategy : setLBStrategy(l)
        \/ addRemoteHost \/ Push
        \/ \E h \in 0 .. MaxHosts - 1 : ConnectSuccess(h)
        \/ \E c \in Call : Enter(c) \/ CallMethod(c) \/ Execute(c) \/ Settle(c)

Spec == Init /\ [][Next]_vars

\* Threads inside CallMethod and addRemoteHost go on, and a connect ends one
\* way or the other; the dispatcher settles every call
\* (ClientDispatcher!EveryCallSettles).  No one has to call or add a host.
Fairness ==
    /\ WF_vars(Push)
    /\ \A c \in Call : WF_vars(CallMethod(c)) /\ WF_vars(Settle(c))

FairSpec == Spec /\ Fairness

-----------------------------------------------------------------------------
(* Properties.                                                             *)

\* Round robin spreads the calls evenly over a list that does not change,
\* whatever the order in which the calls draw their ids and select: when no
\* call is in between, the hosts' shares differ by at most one.
EvenSpread ==
    LET drawn == {c \in Call : pc[c] \notin {"new", "size", "id"} /\ future[c] \notin
                                 {"NO_METHOD", "NO_AVAILABLE_RPCHOSTS"}}
        share(h) == Cardinality({c \in drawn : rpcClient[c] = h})
    IN  (\A c \in drawn : by[c] = "RoundRobin" /\ of[c] = hosts)
          => \A h, g \in 0 .. hosts - 1 : share(h) <= share(g) + 1

\* Selecting brings the program down only by RANDOM, or when the strategy is
\* set twice, once while a call is testing it: never because the list of hosts
\* was read without its lock (futureRpcCallProxy.h:52).  A client that is
\* selected is one of the list (TypeOK).
CrashOnlyByStrategy ==
    /\ TypeOK
    /\ crashed => \/ \E c \in Call : by[c] = "RANDOM" /\ rpcClient[c] = none
                  \/ changes >= 2

\* A call made after addRemoteHost has returned finds a host, also while
\* another is being added.
AddedIsAvailable ==
    \A c \in Call : [](pc[c] = "new" /\ hosts > 0
                         => [](future[c] # "NO_AVAILABLE_RPCHOSTS"))

\* Every call gets its future ready, or an exception: a connect that failed
\* does not keep the mutex, no lock is waited for for ever.
EveryCallEnds == \A c \in Call : pc[c] # "new" ~> (future[c] # none \/ crashed)

Ending(e) ==
    CASE e \in {"value", "RPC CALL ERROR"} -> "answered"
      [] e = "REMOTE RESPONSE TIMEOUT" -> "expired"
      [] e \in {"PENDDING_LIMIT", "INVALID_REQUEST"} -> "refused"
      [] OTHER -> "failed"

status == [c \in Call |-> IF pc[c] = "new" THEN "idle"
                         ELSE IF future[c] = none THEN "open"
                         ELSE Ending(future[c])]

Calls == INSTANCE RpcCalls

\* A proxy over hosts' dispatchers promises its callers what a dispatcher
\* promises: one end for each call, a value only for one that was executed, an
\* exception before the answer only for one that never is.
ImplementsRpcCalls == Calls!Spec
=============================================================================
