------------------------- MODULE MCAppDhcpService -------------------------
(* A small instance of AppDhcpService for TLC. *)
EXTENDS AppDhcpService
=============================================================================
