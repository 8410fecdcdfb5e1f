------------------------------ MODULE MCStream ------------------------------
(* Two lines that end with CR LF; bytes pushed by the coroutine itself are others. *)
EXTENDS Stream
MCPeerBytes == <<"cr", "lf", "cr", "lf">>
=============================================================================
