---------------------------- MODULE MCAppHttpSSE ----------------------------
(* A small instance of AppHttpSSE for TLC. *)
EXTENDS AppHttpSSE
=============================================================================
