----------------------------- MODULE MCRpcSystem -----------------------------
(* Two services, and calls of which one is too long to be written, one has   *)
(* a response that is too long, and one names a method that is not there.    *)
EXTENDS RpcSystem

CONSTANTS chan, first, echo, long, newer, big

MCChannelOf    == [c \in Call |-> chan]
MCmethod_count == [s \in Service |-> 2]
MCHash32       == [s \in Service |-> 1]
MCserviceOf    == [c \in Call |-> first]
MCmethodOf     == [c \in Call |-> CASE c = newer -> 2 [] c = long -> 1 [] OTHER -> 0]
MCImplemented  == {<<first, 0>>, <<first, 1>>}
=============================================================================
