---------------------------- MODULE MCOneChannel ----------------------------
(* One RpcChannel on its own client, the way the examples use it.          *)
EXTENDS ClientDispatcher, TLC

MCChannelOf == [c \in Call |-> CHOOSE ch \in Channel : TRUE]

\* The calls that are not oversized are alike, and so are the IO threads.
MCSymmetry == Permutations(Call \ Oversized) \cup Permutations(Reader)
=============================================================================
