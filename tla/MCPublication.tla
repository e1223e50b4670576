--------------------------- MODULE MCPublication ----------------------------
(* Small instances of Publication for TLC. *)
EXTENDS Publication

MCMaterial(family, form, size, pair) ==
    [family |-> family, form |-> form, size |-> size, equalHalves |-> FALSE,
     pair |-> pair, sound |-> TRUE, der |-> TRUE, primes |-> 2]

MCKey(source, id, m, status, priority, restrictions) ==
    [source |-> source, id |-> id, material |-> m, status |-> status, priority |-> priority,
     notBefore |-> 0, notAfter |-> 0, restrictions |-> restrictions]

\* An RSA key and an EC key to which it is rolled over, an RSA key that reuses
\* the first one's ID, and a secret, which cannot be published.
MCRsa    == MCMaterial("RSA", "private", 256, "p1")
MCEc     == MCMaterial("EC", "private", 256, "p2")
MCNewRsa == MCMaterial("RSA", "private", 256, "p3")
MCSecret == MCMaterial("oct", "symmetric", 32, "p4")

MCOld     == MCKey("file", "a", MCRsa, "active", 0, {})
MCPassive == MCKey("file", "a", MCRsa, "passive", 0, {})
MCNew     == MCKey("file", "b", MCEc, "active", 0, Capable({"sign", "verify"}, {"ES256"}))
MCRetired == MCKey("file", "b", MCEc, "disabled", 0, Capable({"sign", "verify"}, {"ES256"}))

\* Rolled over, with a key that cannot be published, with nothing left to
\* publish, and with an ID that was used before.
MCGenerations == <<
    <<MCOld>>,
    <<MCPassive, MCNew>>,
    <<MCNew, MCKey("file", "c", MCSecret, "active", 0, {})>>,
    <<MCRetired>>,
    <<MCKey("file", "a", MCNewRsa, "active", 0, {}), MCNew>>>>

MCSelector == {WithoutStatus("disabled")}

\* The relying party has a key of its own with the ID of one of the issuer's.
MCLocalKeys == <<MCKey("own", "a", MCMaterial("RSA", "private", 256, "p5"), "active", 1, {})>>

MCStoreRuntime  == <<WithKeys({WithStatus({"active", "passive"})})>>
MCSignerRuntime == <<WithAlg("RS256")>>
MCSignerCalls   == {<<>>, <<WithAlg("ES256")>>, <<WithKeys({WithID("a")}), WithAlg("PS256")>>, <<NilOption>>}

MCFromPartner     == WithSource("partner")
MCVerifierRuntime == <<WithKeys({MCFromPartner})>>

\* The application names the source again when it names a key.
MCVerifierCalls ==
    {<<WithKeys({MCFromPartner, WithID("a")}), WithAlg(a)>> : a \in {"RS256", "PS256"}}
        \cup {<<WithAlg("ES256")>>, <<>>, <<NilOption, WithAlg("ES256")>>}

\* The application passes the token's header.
MCHeaderCalls == {<<WithTokenHeader, WithAlg(a)>> : a \in {"RS256", "ES256"}}
=============================================================================
