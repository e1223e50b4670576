---------------------------- MODULE MCJwksSource ----------------------------
(* Small instances of JwksSource for TLC. *)
EXTENDS JwksSource
=============================================================================
