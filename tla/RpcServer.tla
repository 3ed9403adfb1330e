------------------------------ MODULE RpcServer ------------------------------
(***************************************************************************)
(* pbRPCServer behind MultiplexServerDispatcher and ExecutorFilter: each   *)
(* request a connection delivers becomes a task of a pool of threads; the  *)
(* task looks up service and method in _rpcCallMap, runs the method and    *)
(* writes the response, whatever the order of the requests.                *)
(*                                                                         *)
(* Both look-ups use operator[] of std::unordered_map, which inserts a     *)
(* value-initialised entry (null pointers) for a key that is missing.      *)
(*                                                                         *)
(* A call stands for the request the client's stub sends for it: the hash  *)
(* of a service's name, and the index of one of its methods in the .proto  *)
(* the client was built with.                                              *)
(***************************************************************************)
EXTENDS Naturals, FiniteSets, Sequences

CONSTANTS
    Service,       \* the services of the program
    method_count,  \* method_count[s]: the methods of s in the server's .proto
    Hash32,        \* Hash32[s]: the hash of the name of s
    Call,          \* the calls of the run
    serviceOf,     \* serviceOf[c], methodOf[c]: what the client calls
    methodOf,
    Implemented,   \* the methods that the service classes override
    Threads,       \* the threads of the CPUThreadPoolExecutor
    MayThrow,      \* the calls whose method may throw
    TooLong,       \* the calls whose response exceeds the length field
    null

ASSUME ConstantsAssumption ==
    /\ method_count \in [Service -> Nat \ {0}]
    /\ serviceOf \in [Call -> Service] /\ methodOf \in [Call -> Nat]
    /\ Threads \in Nat \ {0}
    /\ MayThrow \subseteq Call /\ TooLong \subseteq Call

\* The names of the services have different hashes; RegisterService does not
\* look, and would replace the entry of the other one.
ASSUME HashAssumption == \A s, t \in Service : Hash32[s] = Hash32[t] => s = t

\* A MethodData is named by its service and its index.
Methods(s) == {<<s, i>> : i \in 0 .. method_count[s] - 1}
Method     == UNION {Methods(s) : s \in Service}

ASSUME NullAssumption == null \notin Service \cup Method

\* A service class may leave a method to the generated base class.
ASSUME ImplementedAssumption == Implemented \subseteq Method

VARIABLES
    _rpcCallMap,   \* service id |-> [rpcService, methodMap]
    started,       \* the server accepts connections
    pc,            \* pc[c]: the step of the task of the request of c
    rpc_service,   \* rpc_service[c], this_method[c]: its local variables
    this_method,
    ran,           \* ran[c]: the methods that were run for c, one after another
    failed,        \* the calls whose method or write threw
    written,       \* the calls whose response was written
    crashed        \* the process has followed a null pointer

vars == <<_rpcCallMap, started, pc, rpc_service, this_method, ran, failed,
          written, crashed>>

serviceid(c) == Hash32[serviceOf[c]]
methodid(c)  == methodOf[c]

TypeOK ==
    /\ DOMAIN _rpcCallMap \subseteq {Hash32[s] : s \in Service}
    /\ \A k \in DOMAIN _rpcCallMap :
         /\ _rpcCallMap[k].rpcService \in Service \cup {null}
         /\ \A i \in DOMAIN _rpcCallMap[k].methodMap :
              _rpcCallMap[k].methodMap[i] \in Method \cup {null}
    /\ started \in BOOLEAN /\ crashed \in BOOLEAN
    /\ pc \in [Call -> {"unsent", "queued", "method", "run", "write", "end"}]
    /\ rpc_service \in [Call -> Service \cup {null}]
    /\ this_method \in [Call -> Method \cup {null}]
    /\ ran \in [Call -> Seq(Method)]
    /\ failed \subseteq Call
    /\ written \subseteq Call

Init ==
    /\ _rpcCallMap = <<>>
    /\ started = FALSE
    /\ pc = [c \in Call |-> "unsent"]
    /\ rpc_service = [c \in Call |-> null]
    /\ this_method = [c \in Call |-> null]
    /\ ran = [c \in Call |-> <<>>]
    /\ failed = {}
    /\ written = {}
    /\ crashed = FALSE

At(c, label)   == pc[c] = label /\ ~crashed
Goto(c, label) == pc' = [pc EXCEPT ![c] = label]

-----------------------------------------------------------------------------
(* Before the server runs, main registers services and starts it.          *)

\* m with the entry v at key k.
With(m, k, v) == [j \in DOMAIN m \cup {k} |-> IF j = k THEN v ELSE m[j]]

\* Mutant: the last method is left out.
RegisterServiceButLast(s) ==
    /\ ~started
    /\ _rpcCallMap' = With(_rpcCallMap, Hash32[s],
         [rpcService |-> s,
          methodMap  |-> [i \in 0 .. method_count[s] - 2 |-> <<s, i>>]])
    /\ UNCHANGED <<started, pc, rpc_service, this_method, ran, failed, written,
                   crashed>>

RegisterService(s) ==
    /\ ~started
    /\ _rpcCallMap' = With(_rpcCallMap, Hash32[s],
         [rpcService |-> s,
          methodMap  |-> [i \in 0 .. method_count[s] - 1 |-> <<s, i>>]])
    /\ UNCHANGED <<started, pc, rpc_service, this_method, ran, failed, written,
                   crashed>>

Start ==
    /\ ~started
    /\ started' = TRUE
    /\ UNCHANGED <<_rpcCallMap, pc, rpc_service, this_method, ran, failed, written,
                   crashed>>

-----------------------------------------------------------------------------
(* A request, from its arrival to its response.                            *)

\* Mutant: a request that could not be answered is read again.
ReadAgain(c) ==
    /\ started /\ pc[c] \in {"unsent", "end"} /\ ~crashed
    /\ Goto(c, "queued")
    /\ UNCHANGED <<_rpcCallMap, started, rpc_service, this_method, ran, failed,
                   written, crashed>>

\* MultiplexServerDispatcher::read: ExecutorFilter queues the request.
Read(c) ==
    /\ started /\ At(c, "unsent")
    /\ Goto(c, "queued")
    /\ UNCHANGED <<_rpcCallMap, started, rpc_service, this_method, ran, failed,
                   written, crashed>>

\* Mutant: a task that threw does not give its thread back.
InProgressLeaky == {c \in Call : pc[c] \in {"method", "run", "write"}} \cup failed

InProgress == {c \in Call : pc[c] \in {"method", "run", "write"}}

\* What operator[] gives for key k, the value-initialised one if it is missing.
Entry(k) == IF k \in DOMAIN _rpcCallMap THEN _rpcCallMap[k]
            ELSE [rpcService |-> null, methodMap |-> <<>>]

\* Mutant: the id is taken for the service itself.
GetServiceById(c) ==
    /\ At(c, "queued")
    /\ Cardinality(InProgress) < Threads
    /\ rpc_service' = [rpc_service EXCEPT ![c] = serviceid(c)]
    /\ UNCHANGED _rpcCallMap
    /\ Goto(c, "method")
    /\ UNCHANGED <<started, this_method, ran, failed, written, crashed>>

\* A thread of the pool takes the task up.
GetService(c) ==
    /\ At(c, "queued")
    /\ Cardinality(InProgress) < Threads
    /\ rpc_service' = [rpc_service EXCEPT ![c] = Entry(serviceid(c)).rpcService]
    /\ _rpcCallMap' = With(_rpcCallMap, serviceid(c), Entry(serviceid(c)))
    /\ Goto(c, "method")
    /\ UNCHANGED <<started, this_method, ran, failed, written, crashed>>

\* Mutant: the method is looked up by its index alone.
GetMethodOfAnyService(c) ==
    /\ At(c, "method")
    /\ \E k \in DOMAIN _rpcCallMap :
         this_method' = [this_method EXCEPT ![c] =
              IF methodid(c) \in DOMAIN _rpcCallMap[k].methodMap
                THEN _rpcCallMap[k].methodMap[methodid(c)] ELSE null]
    /\ Goto(c, "run")
    /\ UNCHANGED <<_rpcCallMap, started, rpc_service, ran, failed, written,
                   crashed>>

GetMethod(c) ==
    /\ At(c, "method")
    /\ LET methodMap == Entry(serviceid(c)).methodMap
           found == IF methodid(c) \in DOMAIN methodMap
                      THEN methodMap[methodid(c)] ELSE null
       IN  /\ this_method' = [this_method EXCEPT ![c] = found]
           /\ _rpcCallMap' = With(_rpcCallMap, serviceid(c),
                 [rpcService |-> Entry(serviceid(c)).rpcService,
                  methodMap  |-> With(methodMap, methodid(c), found)])
    /\ Goto(c, "run")
    /\ UNCHANGED <<started, rpc_service, ran, failed, written, crashed>>

\* request_proto->New(), response_proto->New().
FollowNull(c) ==
    /\ At(c, "run")
    /\ this_method[c] = null
    /\ crashed' = TRUE
    /\ UNCHANGED <<_rpcCallMap, started, pc, rpc_service, this_method, ran,
                   failed, written>>

\* rpc_service->CallMethod of a method the class does not override: the base
\* class's reports the failure to the controller, which is NULL.
RunBaseMethod(c) ==
    /\ At(c, "run")
    /\ this_method[c] \in Method \ Implemented
    /\ crashed' = TRUE
    /\ UNCHANGED <<_rpcCallMap, started, pc, rpc_service, this_method, ran,
                   failed, written>>

\* Mutant: a method that throws is run again.
RunMethodAgain(c) ==
    /\ At(c, "run")
    /\ this_method[c] \in Implemented
    /\ ran' = [ran EXCEPT ![c] = Append(@, this_method[c])]
    /\ \/ Goto(c, "write")
       \/ c \in MayThrow /\ UNCHANGED pc
    /\ UNCHANGED <<_rpcCallMap, started, rpc_service, this_method, failed,
                   written, crashed>>

\* rpc_service->CallMethod: it runs the method of the descriptor, or throws.
\* The exception ends in the future, of which no one looks at the exception.
RunMethod(c) ==
    /\ At(c, "run")
    /\ this_method[c] \in Implemented
    /\ ran' = [ran EXCEPT ![c] = Append(@, this_method[c])]
    /\ \/ Goto(c, "write") /\ UNCHANGED failed
       \/ c \in MayThrow /\ failed' = failed \cup {c} /\ Goto(c, "end")
    /\ UNCHANGED <<_rpcCallMap, started, rpc_service, this_method, written,
                   crashed>>

\* The continuation of MultiplexServerDispatcher: ctx->fireWrite(resp), of which
\* LengthFieldPrepender throws for a response that is too long.
Write(c) ==
    /\ At(c, "write")
    /\ IF c \in TooLong
         THEN failed' = failed \cup {c} /\ UNCHANGED written
         ELSE written' = written \cup {c} /\ UNCHANGED failed
    /\ Goto(c, "end")
    /\ UNCHANGED <<_rpcCallMap, started, rpc_service, this_method, ran, crashed>>

handleRpcCall(c) == \/ GetService(c) \/ GetMethod(c)
                    \/ FollowNull(c) \/ RunBaseMethod(c) \/ RunMethod(c)

-----------------------------------------------------------------------------
Next == \/ \E s \in Service : RegisterService(s)
        \/ Start
        \/ \E c \in Call : Read(c) \/ handleRpcCall(c) \/ Write(c)

Spec == Init /\ [][Next]_vars

\* The threads of the pool go on; every task is taken up when one is free.
FairSpec == Spec /\ \A c \in Call : WF_vars(handleRpcCall(c) \/ Write(c))

-----------------------------------------------------------------------------
(* Properties.                                                             *)

\* The server has the method c names.
Offered(c) == /\ serviceid(c) \in DOMAIN _rpcCallMap
              /\ _rpcCallMap[serviceid(c)].rpcService = serviceOf[c]
              /\ methodOf[c] < method_count[serviceOf[c]]

\* Whatever is served at the same time, what runs for a call is the method the
\* client named, of its service object and with code of its own, once at most,
\* and before the response is written.
ServedByNamed ==
    \A c \in Call :
        LET named == <<serviceOf[c], methodOf[c]>>
        IN  /\ ran[c] \in {<<>>, <<named>>}
            /\ ran[c] # <<>> => named \in Implemented /\ rpc_service[c] = serviceOf[c]
            /\ c \in written => ran[c] # <<>>

\* Only a request for a service or method the server does not have, or has no
\* code for, brings the server down, which never answers NO_SERVICE or
\* NO_METHOD (RpcMessage.proto:17-18); what operator[] inserts for it does no
\* harm to the requests that are known.
CrashOnlyByUnknown ==
    crashed => \E c \in Call :
        /\ pc[c] = "run"
        /\ ~Offered(c) \/ <<serviceOf[c], methodOf[c]>> \notin Implemented

\* Every request the server has read gets its response, as long as the server
\* is up, unless its method or its write throws; one that throws holds up
\* nobody.
EveryRequestAnswered ==
    \A c \in Call :
        pc[c] = "queued" ~> (c \in written \/ c \in failed \/ crashed)
=============================================================================
