----------------------------- MODULE MCKeystore -----------------------------
(* Small instances of Keystore for TLC. *)
EXTENDS Keystore, TLC

CONSTANTS plain, kept, watched, rival, idA, idB, idC

\* plain and kept have identifiers of their own; watched and rival share one,
\* so at most one of them can be bound.
MCSourceID == (plain :> idA) @@ (kept :> idC) @@ (watched :> idB) @@ (rival :> idB)
=============================================================================
