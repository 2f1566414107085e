---------------------------- MODULE MCEmwApiCore -----------------------------
(* A small instance of EmwApiCore for TLC: the users are the two interfaces. *)
EXTENDS EmwApiCore
=============================================================================
