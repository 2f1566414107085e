---------------------------- MODULE MCWiFiNetwork ----------------------------
(* A small instance of WiFiNetwork for TLC. *)
EXTENDS WiFiNetwork
=============================================================================
