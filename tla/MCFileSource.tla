---------------------------- MODULE MCFileSource ----------------------------
(* Small instances of FileSource for TLC. *)
EXTENDS FileSource

\* The second content of file 2 has no backend; every content of file 1 has one.
MCUnbuildable == {<<2, 2>>}
=============================================================================
