--------------------------- MODULE MCTwoChannels ----------------------------
(* Two RpcChannels built on one shared PbRpcClient (PbRpcClient.h:90): each *)
(* counts its request ids from 0, and both use the same dispatcher.        *)
EXTENDS ClientDispatcher

CONSTANTS a1, a2, A, B

MCChannelOf == [c \in Call |-> IF c \in {a1, a2} THEN A ELSE B]
=============================================================================
