------------------------- MODULE MCPipelinedServer --------------------------
(* More requests than ids, so that requestId_ and lastWrittenId_ wrap.      *)
EXTENDS PipelinedServerDispatcher
=============================================================================
