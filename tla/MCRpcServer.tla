---------------------------- MODULE MCRpcServer -----------------------------
(* The services of MyService.proto.  The server's class does not override   *)
(* Sub; the client of `newer' was built with a .proto in which Service2 has *)
(* one method more; a service that is not registered is unknown as well.    *)
EXTENDS RpcServer, MessageClasses

CONSTANTS
    first, second,   \* the objects of MyService and Service2
    echo, sub, div, newer

MCmethod_count == [s \in Service |->
    Len(IF s = first THEN MyService ELSE Service2)]

MCHash32 == [s \in Service |-> IF s = first THEN 1 ELSE 2]

MCserviceOf == [c \in Call |-> IF c \in {echo, sub} THEN first ELSE second]

\* The index of a method in its .proto, from 0.
MCmethodOf == [c \in Call |-> CASE c = echo -> 0 [] c = sub -> 2
                                [] c = div -> 1 [] OTHER -> Len(Service2)]

MCImplemented == Method \ {<<first, 2>>}
=============================================================================
