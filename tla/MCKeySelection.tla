--------------------------- MODULE MCKeySelection ---------------------------
(* Small instances of KeySelection for TLC. *)
EXTENDS KeySelection, TLC

MCMaterial(family, form, size) ==
    [family |-> family, form |-> form, size |-> size, equalHalves |-> FALSE]

RSA(form)    == MCMaterial("RSA", form, 256)
EC(form, n)  == MCMaterial("EC", form, n)
Secret(n)    == MCMaterial("oct", "symmetric", n)

MCKey(source, id, m, status, priority, from, to, restrictions) ==
    [source |-> source, id |-> id, material |-> m, status |-> status, priority |-> priority,
     notBefore |-> from, notAfter |-> to, restrictions |-> restrictions]

Deliver(source, keys) == [source |-> source, keys |-> keys]

\* Source s1 rolls its RSA key over from active to passive and disables it;
\* s2 delivers an EC key with the same ID and priority, then a restricted HMAC
\* key of higher priority; s3 delivers a certificate that becomes valid later.
MCActive  == MCKey("s1", "a", RSA("private"), "active", 1, 0, 0, {})
MCPassive == MCKey("s1", "a", RSA("private"), "passive", 1, 0, 2, {})
MCNext    == MCKey("s1", "b", RSA("private"), "active", 1, 2, 0, {})
MCRetired == MCKey("s1", "a", RSA("private"), "disabled", 3, 0, 0, {})
MCCurve   == MCKey("s2", "a", EC("private", 256), "active", 1, 0, 0, {})
MCSecret  == MCKey("s2", "c", Secret(32), "active", 2, 0, 0,
                   Capable({"sign"}, {"HS256"}))
MCCert    == MCKey("s3", "d", RSA("certificate"), "", 1, 2, 3, {})
MCPublic  == MCKey("s3", "e", EC("public", 256), "", 2, 0, 0, {})

MCDeliveries == {
    Deliver("s1", <<MCActive>>),
    Deliver("s1", <<MCPassive, MCNext>>),
    Deliver("s1", <<MCNext, MCRetired>>),
    Deliver("s2", <<MCCurve>>),
    Deliver("s2", <<MCSecret, MCCurve>>),
    Deliver("s3", <<MCCert, MCPublic>>)}

Ask(operation, selector, algorithms) ==
    [operation |-> operation, selector |-> selector, algorithms |-> algorithms]

MCRequests == {
    Ask("sign", {}, <<"PS256", "ES256">>),
    Ask("sign", {}, <<"HS256", "RS256">>),
    Ask("sign", {WithID("a")}, <<"ES256", "RS256">>),
    Ask("verify", {WithStatus({"active", "passive"})}, <<"RS256", "HS256">>),
    Ask("encrypt", {}, <<"RSA1_5", "RSA-OAEP-256">>),
    Ask("decrypt", {}, <<"RSA-OAEP", "RSA-OAEP-512">>)}
=============================================================================
