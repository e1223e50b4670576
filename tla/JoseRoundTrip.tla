--------------------------- MODULE JoseRoundTrip ----------------------------
(***************************************************************************)
(* One key on its way through the JOSE codecs: encoded, perhaps altered by *)
(* a peer whose documents are not this library's, decoded, taken up as a   *)
(* key and encoded again.                                                  *)
(***************************************************************************)
EXTENDS JoseCodec

CONSTANTS
    Exported,   \* keys an application encodes
    Pairs,      \* key pairs and secrets
    MaxTrips,   \* bound: how often the key is encoded
    MaxAlters   \* bound: members a peer changes

ASSUME JoseRoundTripAssumption ==
    /\ \A k \in Exported : k.material.pair \in Pairs
    /\ MaxTrips \in Nat \ {0}
    /\ MaxAlters \in Nat

VARIABLES
    origin,  \* the key as the application had it
    key,     \* the key to be encoded now
    policy,  \* the export policy of the encoder
    pc,      \* where the key is
    jwk,     \* what the encoder produced or the peer made of it
    trips,   \* encodings so far
    alters   \* members changed so far

vars == <<origin, key, policy, pc, jwk, trips, alters>>

NoJWK == [kty |-> Absent]

Init ==
    /\ origin \in Exported
    /\ key = origin
    /\ policy \in Policies
    /\ pc = "key"
    /\ jwk = NoJWK
    /\ trips = 0
    /\ alters = 0

\* backend.JOSEEncoderFor and the encoder's Encode.
EncodeKey ==
    /\ pc = "key"
    /\ trips < MaxTrips
    /\ pc' = IF Encodable(key.material, policy) THEN "encoded" ELSE "refused"
    /\ jwk' = IF Encodable(key.material, policy) THEN Encode(key, policy) ELSE NoJWK
    /\ trips' = trips + 1
    /\ UNCHANGED <<origin, key, policy, alters>>

\* A peer leaves a member out, repeats one of another key, or names another
\* type, whose public members are then missing.
Alterations(j) ==
    {[j EXCEPT !.kty = t, !.public = Absent] : t \in {"RSA", "EC", "oct", "OKP", Absent}}
        \cup {[j EXCEPT !.public = p] : p \in Pairs \cup {Absent}}
        \cup {[j EXCEPT !.private = {}, !.privateOf = Absent]}
        \cup {[j EXCEPT !.private = P, !.privateOf = p] : P \in {{"d"}, {"d", "k"}}, p \in Pairs}
        \cup {[j EXCEPT !.crtFits = FALSE]}
        \cup {[j EXCEPT !.x5c = p] : p \in Pairs \cup {Absent}}
        \cup {[j EXCEPT !.x5t = p] : p \in Pairs \cup {Absent}}
        \cup {[j EXCEPT !.x5tS256 = p] : p \in Pairs \cup {Absent}}
        \cup {[j EXCEPT !.alg = a] : a \in {Absent, "RSA1_5"}}
        \cup {[j EXCEPT !.ops = O] : O \in {{}, {"sign", "encrypt"}}}

Alter ==
    /\ pc = "encoded"
    /\ alters < MaxAlters
    /\ \E j \in Alterations(jwk) \ {jwk} : jwk' = j
    /\ alters' = alters + 1
    /\ UNCHANGED <<origin, key, policy, pc, trips>>

\* backend.JOSEDecoderFor and the decoder's Decode; the candidate becomes a
\* key that can be encoded again.
DecodeKey ==
    /\ pc = "encoded"
    /\ pc' = IF Decodable(jwk) THEN "key" ELSE "rejected"
    /\ key' = IF Decodable(jwk) THEN Decode(jwk) ELSE key
    /\ UNCHANGED <<origin, policy, jwk, trips, alters>>

Finished ==
    /\ pc \in {"refused", "rejected"} \/ (pc = "key" /\ trips = MaxTrips)
    /\ UNCHANGED vars

Next == EncodeKey \/ Alter \/ DecodeKey \/ Finished

Spec == Init /\ [][Next]_vars

-----------------------------------------------------------------------------
(* Properties.                                                             *)

Untouched == alters = 0
Returned  == pc = "key" /\ trips > 0

\* Without ExportPrivateMaterial no secret member is ever written, on the first
\* encoding or on a later one (the policy checks of the encoders).
SecretsStay == policy = "public" /\ pc = "encoded" /\ Untouched => jwk.private = {}

\* The key comes back as itself, however often it goes round: same ID, same key
\* pair, a private key as private or as its public half as the policy has it,
\* a certificate as a certificate, and usable for what it was usable for if it
\* was restricted to one algorithm (Encode against Decode).  It does not come
\* back at all if it is a private RSA key of more than two primes, of which two
\* are written, or an RSA public key that was broken to begin with, which only
\* the decoder notices.
RoundTrip ==
    /\ Returned /\ Untouched =>
        /\ key.id = origin.id
        /\ key.material.pair = origin.material.pair
        /\ key.material.size = origin.material.size
        /\ key.material.form =
                IF origin.material.form = "private" /\ policy = "public"
                THEN "public" ELSE origin.material.form
        /\ Cardinality({r.algorithm : r \in origin.restrictions}) <= 1 =>
                key.restrictions = origin.restrictions
    /\ pc = "rejected" /\ Untouched =>
        /\ origin.material.family = "RSA"
        /\ \/ origin.material.primes > 2 /\ policy = "private"
           \/ origin.material.form # "private" /\ ~origin.material.sound

\* A decoded key is of one piece though a peer mixed members of several: some
\* backend takes its material, and a private key's secret and a certificate's
\* key and thumbprints are those of the public key that was announced (the
\* consistency checks of Decode).
DecodedIsConsistent ==
    Returned =>
        /\ HasBackend(key.material)
        /\ key.material.form = "private" => jwk.privateOf = jwk.public
        /\ key.material.form = "certificate" =>
                /\ jwk.x5c = jwk.public
                /\ {jwk.x5t, jwk.x5tS256} \subseteq {Absent, jwk.public}
        /\ key.material.family # "oct" => key.material.pair = jwk.public

\* Restrictions to algorithms survive the codecs: a key that comes back is not
\* usable for anything it was restricted against (the claim of
\* backend/README.md that the codecs "preserve algorithm restrictions").
RestrictionsPreserved ==
    Returned /\ Untouched /\ origin.restrictions # {} =>
        key.restrictions # {} /\ key.restrictions \subseteq origin.restrictions
=============================================================================
