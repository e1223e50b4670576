--------------------------- MODULE MCRandomSource ---------------------------
(* Small instances of RandomSource for TLC. *)
EXTENDS RandomSource
=============================================================================
