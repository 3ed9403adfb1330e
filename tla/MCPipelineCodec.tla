-------------------------- MODULE MCPipelineCodec ---------------------------
(* The codec with the parameters of both pipelines: a length field of two   *)
(* bytes that counts the body, maxFrameLength = Base^2 (65536 = 256^2).     *)
EXTENDS FrameCodec, FiniteSets

CONSTANT MaxLength   \* the longest message written

MCContent == UNION {[1 .. n -> Byte] : n \in 1 .. MaxLength}
=============================================================================
