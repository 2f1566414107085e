----------------------------- MODULE MCEmwIoSpi -----------------------------
(* Small instances of EmwIoSpi for TLC.  Buffers are interchangeable. *)
EXTENDS EmwIoSpi, TLC

BufferSymmetry == Permutations(Buffers)
=============================================================================
