---------------------------- MODULE MCEmwCoreIpc -----------------------------
(* Small instances of EmwCoreIpc for TLC. *)
EXTENDS EmwCoreIpc
=============================================================================
