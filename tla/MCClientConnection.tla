------------------------ MODULE MCClientConnection --------------------------
(* Two threads calling on a client that has just been constructed.          *)
EXTENDS ClientConnection
=============================================================================
