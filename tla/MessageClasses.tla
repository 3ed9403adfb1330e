--------------------------- MODULE MessageClasses ---------------------------
(***************************************************************************)
(* The message classes of the program: RpcMessage, the envelope of every   *)
(* request and response, and the requests and responses of the example     *)
(* services.  A class is its fields in field-number order; a service is    *)
(* its methods in the order of their index, from 0, by which the stub      *)
(* calls them and CallMethod and the prototypes switch on the server.      *)
(***************************************************************************)
EXTENDS Integers, Sequences

LOCAL Scalar(kind, required) ==
    [kind |-> kind, required |-> required, default |-> 0, valid |-> {}]
LOCAL Bytes(required) ==
    [kind |-> "bytes", required |-> required, default |-> <<>>, valid |-> {}]
LOCAL Enum(required, default, valid) ==
    [kind |-> "enum", required |-> required, default |-> default, valid |-> valid]

-----------------------------------------------------------------------------
MsgType   == 1..3
ErrorCode == 0..7

RpcMessage_type      == Enum(TRUE, 1, MsgType)
RpcMessage_id        == Scalar("int64", TRUE)
RpcMessage_serviceid == Scalar("uint32", TRUE)
RpcMessage_methodid  == Scalar("uint32", TRUE)
RpcMessage_request   == Bytes(FALSE)
RpcMessage_response  == Bytes(FALSE)
RpcMessage_error     == Enum(FALSE, 0, ErrorCode)

RpcMessage == <<RpcMessage_type, RpcMessage_id, RpcMessage_serviceid,
                RpcMessage_methodid, RpcMessage_request, RpcMessage_response,
                RpcMessage_error>>

-----------------------------------------------------------------------------
EchoReq_request == Bytes(TRUE)
EchoReq == <<EchoReq_request>>

EchoRes_response == Bytes(TRUE)
EchoRes == <<EchoRes_response>>

OperaReq_a == Scalar("int64", TRUE)
OperaReq_b == Scalar("int64", TRUE)
OperaReq == <<OperaReq_a, OperaReq_b>>

OperaRes_c == Scalar("int64", TRUE)
OperaRes == <<OperaRes_c>>

OperaReqF_a == Scalar("float", TRUE)
OperaReqF_b == Scalar("float", TRUE)
OperaReqF == <<OperaReqF_a, OperaReqF_b>>

OperaResF_c == Scalar("float", TRUE)
OperaResF == <<OperaResF_c>>

-----------------------------------------------------------------------------
ClassName == {"RpcMessage", "EchoReq", "EchoRes", "OperaReq", "OperaRes",
              "OperaReqF", "OperaResF"}

FieldsOfClass ==
    [c \in ClassName |->
       CASE c = "RpcMessage" -> RpcMessage [] c = "EchoReq" -> EchoReq
         [] c = "EchoRes" -> EchoRes       [] c = "OperaReq" -> OperaReq
         [] c = "OperaRes" -> OperaRes     [] c = "OperaReqF" -> OperaReqF
         [] c = "OperaResF" -> OperaResF]

-----------------------------------------------------------------------------
LOCAL Rpc(name, request, response) ==
    [name |-> name, request |-> request, response |-> response]

MyService == <<Rpc("Echo", "EchoReq", "EchoRes"),
               Rpc("Add", "OperaReq", "OperaRes"),
               Rpc("Sub", "OperaReq", "OperaRes")>>

Service2 == <<Rpc("Mul", "OperaReqF", "OperaResF"),
              Rpc("Div", "OperaReqF", "OperaResF")>>
=============================================================================
