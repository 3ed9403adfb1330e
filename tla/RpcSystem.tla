------------------------------ MODULE RpcSystem ------------------------------
(***************************************************************************)
(* A client and a server at the two ends of a connection: RpcServer behind *)
(* the multiplex dispatcher, which this module extends, and                *)
(* ClientDispatcher with its channels.  A request that has been written    *)
(* may be read by the server, and what the server writes may be read by    *)
(* the client; what is on its way may stay there for ever, and the server  *)
(* may end at any request it does not know.                                *)
(***************************************************************************)
EXTENDS RpcServer

CONSTANTS
    Channel, ChannelOf, Reader, AppThreads, reqlimit, Oversized, None

\* What ClientDispatcher calls pc is stage here, where pc is the server's.
VARIABLES stage, id, request_id, requests_, promise, outcome, net, reader

ASSUME ClientAssumption ==
    /\ IsFiniteSet(Call) /\ None \notin Call
    /\ ChannelOf \in [Call -> Channel]
    /\ AppThreads \in Nat \ {0}
    /\ reqlimit \in Nat
    /\ Oversized \subseteq Call

Client == INSTANCE ClientDispatcher WITH Threads <- AppThreads, pc <- stage

client == <<stage, id, request_id, requests_, promise, outcome, net, reader>>
systemVars == <<client, vars>>

SystemInit == Client!Init /\ Init

-----------------------------------------------------------------------------
\* A call is made and goes on in the client's threads.
ClientStep ==
    /\ \/ \E c \in Call : Client!Invoke(c) \/ Client!Operate(c)
       \/ \E r \in Reader : \/ Client!Deliver(r)
                            \/ \E c \in Call : Client!ReadFind(r, c)
    /\ UNCHANGED vars

\* The server's main, and its threads.
ServerStep ==
    /\ \/ \E s \in Service : RegisterService(s)
       \/ Start
       \/ \E c \in Call : handleRpcCall(c)
    /\ UNCHANGED client

\* The request of c arrives.
Arrive(c) == /\ net[c] = "sent"
             /\ Read(c)
             /\ UNCHANGED client

\* The server's thread writes the response, or its exception ends it.
Respond(c) ==
    /\ Write(c)
    /\ IF c \in written' THEN Client!Serve(c) ELSE UNCHANGED client

SystemNext ==
    ClientStep \/ ServerStep \/ \E c \in Call : Arrive(c) \/ Respond(c)

SystemSpec == SystemInit /\ [][SystemNext]_systemVars

-----------------------------------------------------------------------------
(* Properties.                                                             *)

\* A caller that gets a response without error gets it because the server has
\* run the method the caller named, exactly once and no other for this call,
\* and written its response to this very request: from the call of the stub to
\* the future, whatever is under way at the same time on both sides.  Its
\* arguments are not modelled here.
EndToEnd ==
    \A c \in Call : outcome[c] = "NO_ERROR" =>
        /\ ran[c] = << <<serviceOf[c], methodOf[c]>> >>
        /\ c \in written /\ promise[c] = c

executed == [c \in Call |-> Len(ran[c])]

Calls == INSTANCE RpcCalls WITH status <- Client!status, executed <- executed

\* Client and server together keep the promise of RpcCalls, where executed
\* counts how often the method was run: at most once, never for a call that was
\* refused or failed, and before the caller is answered.
ImplementsRpcCalls == Calls!Spec
=============================================================================
