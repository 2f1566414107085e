----------------------------- MODULE MCEmwNoOs -----------------------------
(* A small instance of EmwNoOs for TLC. *)
EXTENDS EmwNoOs
=============================================================================
