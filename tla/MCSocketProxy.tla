--------------------------- MODULE MCSocketProxy ---------------------------
(* SocketProxy on small instances. *)
EXTENDS SocketProxy

=============================================================================
