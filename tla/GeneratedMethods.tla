-------------------------- MODULE GeneratedMethods --------------------------
(***************************************************************************)
(* The fields that the generated methods of each message class go through. *)
(* Every class has the methods of ProtoMessage; what differs between two   *)
(* classes is which fields a method names, by number:                      *)
(*   - the copy constructor, those it assigns or copies with memcpy;       *)
(*   - Clear, see Clears;                                                  *)
(*   - MergePartialFromCodedStream, a wire type for each case of its       *)
(*     switch: case i tests for the tag 8 * i + wire type;                 *)
(*   - SerializeWithCachedSizes, to a stream or to an array, those written;*)
(*   - ByteSizeLong and its fallback, see Sizes;                           *)
(*   - MergeFrom and InternalSwap, those assigned and swapped.             *)
(***************************************************************************)
EXTENDS MessageClasses

\* Strings reset if present, scalars reset if one of them is, or always.
LOCAL Clears(present, together, always) ==
    [present |-> present, together |-> together, always |-> always]

\* Fields added up at once under one mask, or in the fallback one by one, and
\* those always added up one by one.
LOCAL Sizes(together, fallback, each) ==
    [together |-> together, fallback |-> fallback, each |-> each]

LOCAL Code(copies, clears, parses, writes, sizes, merges, swaps) ==
    [copies |-> copies, clears |-> clears, parses |-> parses, writes |-> writes,
     sizes |-> sizes, merges |-> merges, swaps |-> swaps]

-----------------------------------------------------------------------------
RpcMessage_copy      == 1..7
RpcMessage_Clear     == Clears({5, 6}, {1, 2, 3, 4, 7}, {})
RpcMessage_Parse     == <<0, 0, 0, 0, 2, 2, 0>>
RpcMessage_Serialize == 1..7
RpcMessage_Fallback  == {1, 2, 3, 4}
RpcMessage_ByteSize  == Sizes({1, 2, 3, 4}, RpcMessage_Fallback, {5, 6, 7})
RpcMessage_MergeFrom == 1..7
RpcMessage_Swap      == 1..7

EchoReq_copy      == {1}
EchoReq_Clear     == Clears({1}, {}, {})
EchoReq_Parse     == <<2>>
EchoReq_Serialize == {1}
EchoReq_ByteSize  == Sizes({}, {}, {1})
EchoReq_MergeFrom == {1}
EchoReq_Swap      == {1}

EchoRes_copy      == {1}
EchoRes_Clear     == Clears({1}, {}, {})
EchoRes_Parse     == <<2>>
EchoRes_Serialize == {1}
EchoRes_ByteSize  == Sizes({}, {}, {1})
EchoRes_MergeFrom == {1}
EchoRes_Swap      == {1}

OperaReq_copy      == {1, 2}
OperaReq_Clear     == Clears({}, {1, 2}, {})
OperaReq_Parse     == <<0, 0>>
OperaReq_Serialize == {1, 2}
OperaReq_Fallback  == {1, 2}
OperaReq_ByteSize  == Sizes({1, 2}, OperaReq_Fallback, {})
OperaReq_MergeFrom == {1, 2}
OperaReq_Swap      == {1, 2}

OperaRes_copy      == {1}
OperaRes_Clear     == Clears({}, {}, {1})
OperaRes_Parse     == <<0>>
OperaRes_Serialize == {1}
OperaRes_ByteSize  == Sizes({}, {}, {1})
OperaRes_MergeFrom == {1}
OperaRes_Swap      == {1}

OperaReqF_copy      == {1, 2}
OperaReqF_Clear     == Clears({}, {1, 2}, {})
OperaReqF_Parse     == <<5, 5>>
OperaReqF_Serialize == {1, 2}
OperaReqF_Fallback  == {1, 2}
OperaReqF_ByteSize  == Sizes({1, 2}, OperaReqF_Fallback, {})
OperaReqF_Swap      == {1, 2}

\* Mutant: field b is forgotten.
OperaReqF_MergeWithoutB == {1}

OperaReqF_MergeFrom == {1, 2}

OperaResF_copy      == {1}
OperaResF_Clear     == Clears({}, {}, {1})
OperaResF_Parse     == <<5>>
OperaResF_Serialize == {1}
OperaResF_ByteSize  == Sizes({}, {}, {1})
OperaResF_MergeFrom == {1}
OperaResF_Swap      == {1}

-----------------------------------------------------------------------------
CodeOfClass ==
    [c \in ClassName |->
       CASE c = "RpcMessage" ->
             Code(RpcMessage_copy, RpcMessage_Clear, RpcMessage_Parse, RpcMessage_Serialize,
                  RpcMessage_ByteSize, RpcMessage_MergeFrom, RpcMessage_Swap)
         [] c = "EchoReq" ->
             Code(EchoReq_copy, EchoReq_Clear, EchoReq_Parse, EchoReq_Serialize,
                  EchoReq_ByteSize, EchoReq_MergeFrom, EchoReq_Swap)
         [] c = "EchoRes" ->
             Code(EchoRes_copy, EchoRes_Clear, EchoRes_Parse, EchoRes_Serialize,
                  EchoRes_ByteSize, EchoRes_MergeFrom, EchoRes_Swap)
         [] c = "OperaReq" ->
             Code(OperaReq_copy, OperaReq_Clear, OperaReq_Parse, OperaReq_Serialize,
                  OperaReq_ByteSize, OperaReq_MergeFrom, OperaReq_Swap)
         [] c = "OperaRes" ->
             Code(OperaRes_copy, OperaRes_Clear, OperaRes_Parse, OperaRes_Serialize,
                  OperaRes_ByteSize, OperaRes_MergeFrom, OperaRes_Swap)
         [] c = "OperaReqF" ->
             Code(OperaReqF_copy, OperaReqF_Clear, OperaReqF_Parse, OperaReqF_Serialize,
                  OperaReqF_ByteSize, OperaReqF_MergeFrom, OperaReqF_Swap)
         [] c = "OperaResF" ->
             Code(OperaResF_copy, OperaResF_Clear, OperaResF_Parse, OperaResF_Serialize,
                  OperaResF_ByteSize, OperaResF_MergeFrom, OperaResF_Swap)]
=============================================================================
