-------------------------- MODULE MCJoseRoundTrip ---------------------------
(* Small instances of JoseRoundTrip for TLC. *)
EXTENDS JoseRoundTrip

MCMaterial(family, form, size, pair, sound, primes) ==
    [family |-> family, form |-> form, size |-> size, equalHalves |-> FALSE,
     pair |-> pair, sound |-> sound, der |-> TRUE, primes |-> primes]

MCUnparsed(family, pair) ==
    [MCMaterial(family, "certificate", 256, pair, TRUE, 2) EXCEPT !.der = FALSE]

\* Keys of every family and form; a curve JOSE has no name for, an empty secret,
\* an RSA key of three primes, keys whose parts do not fit and certificates the
\* application put together without parsing them.
MCMaterials ==
    {MCMaterial("RSA", form, 256, "p1", TRUE, 2) : form \in {"private", "public", "certificate"}}
        \cup {MCMaterial("EC", form, 256, "p2", TRUE, 2) : form \in {"private", "public", "certificate"}}
        \cup {MCMaterial("EC", "private", 224, "p2", TRUE, 2),
              MCMaterial("oct", "symmetric", 32, "p3", TRUE, 2),
              MCMaterial("oct", "symmetric", 0, "p3", TRUE, 2),
              MCMaterial("RSA", "private", 256, "p1", TRUE, 3),
              MCMaterial("RSA", "private", 256, "p1", FALSE, 2),
              MCMaterial("RSA", "public", 256, "p1", FALSE, 2),
              MCMaterial("EC", "public", 256, "p2", FALSE, 2),
              MCUnparsed("RSA", "p1"), MCUnparsed("EC", "p2")}

\* No restriction, one algorithm for one or for two operations, two algorithms
\* of one use, and one algorithm beside another of the other use.
MCRestrictions == {
    {},
    Capable({"verify"}, {"PS256"}),
    Capable({"sign", "verify"}, {"ES256"}),
    Capable({"encrypt"}, {"RSA-OAEP-256"}),
    Capable({"sign"}, {"HS256", "HS512"}),
    Capable({"verify"}, {"RS256"}) \cup Capable({"encrypt"}, {"RSA-OAEP-256"})}

MCExported ==
    {[id |-> "k", restrictions |-> R, material |-> m] :
        R \in MCRestrictions, m \in MCMaterials}
=============================================================================
