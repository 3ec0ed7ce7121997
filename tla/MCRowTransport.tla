--------------------------- MODULE MCRowTransport ----------------------------
(* Two row buffers, a local or an exported consumer. *)
EXTENDS RowTransport
=============================================================================
