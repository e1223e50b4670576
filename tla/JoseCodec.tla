----------------------------- MODULE JoseCodec ------------------------------
(***************************************************************************)
(* The JOSE key codecs (backend/*/encoder.jose.go, decoder.jose.go) and    *)
(* the registry that picks one (backend/codec.registry.go): what a key     *)
(* becomes as a JSON Web Key, and which JSON Web Keys become a candidate.  *)
(*                                                                         *)
(* A material carries, besides what Backends says of it, the key pair or   *)
(* secret it belongs to (pair), whether its parts fit together (sound),    *)
(* whether the DER encoding of a certificate is at hand (der: one that was *)
(* not parsed has none) and the number of primes of an RSA key.  A JSON    *)
(* Web Key is a record of its members; big integers, curve points and      *)
(* certificates are represented by the pair they belong to.                *)
(***************************************************************************)
EXTENDS Backends

Policies == {"public", "private"}   \* ExportPublicMaterial, ExportPrivateMaterial

Absent == ""   \* a member that is missing

\* The members that carry secret material, by key type.
rsaPrivateParameters == {"d", "p", "q", "dp", "dq", "qi"}
ecPrivateParameters  == {"d"}
octParameters        == {"k"}

-----------------------------------------------------------------------------
(* The codec registry, filled by the init functions of the backends.       *)

Codecs == <<"rsa", "ec", "symetric">>

\* SupportsMaterial of an encoder looks at a material as its factory does.
SupportsMaterial(codec, m) == Supports(codec, m)

SupportsJOSEKeyType(codec, kty) ==
    \/ codec = "rsa" /\ kty = "RSA"
    \/ codec = "ec" /\ kty = "EC"
    \/ codec = "symetric" /\ kty = "oct"

\* JOSEEncoderFor and JOSEDecoderFor: the last one registered, or an error.
HasEncoder(m) == \E i \in DOMAIN Codecs : SupportsMaterial(Codecs[i], m)

JOSEEncoderFor(m) ==
    Codecs[Max({i \in DOMAIN Codecs : SupportsMaterial(Codecs[i], m)})]

HasDecoder(kty) == \E i \in DOMAIN Codecs : SupportsJOSEKeyType(Codecs[i], kty)

JOSEDecoderFor(kty) ==
    Codecs[Max({i \in DOMAIN Codecs : SupportsJOSEKeyType(Codecs[i], kty)})]

-----------------------------------------------------------------------------
(* Metadata: restrictions as use, key_ops and alg, and back.               *)

\* Metadata of the first restriction only.
setJWKMetadataFirst(R) ==
    IF R = {} THEN [use |-> Absent, ops |-> {}, alg |-> Absent]
    ELSE LET r == CHOOSE x \in R : TRUE
         IN  [use |-> Absent, ops |-> {r.operation}, alg |-> r.algorithm]

\* use and alg are written only when all restrictions agree on them.
setJWKMetadata(R) ==
    LET uses == {r.use : r \in R}
        algs == {r.algorithm : r \in R}
    IN  [use |-> CASE uses = {"signing"}    -> "sig"
                   [] uses = {"encryption"} -> "enc"
                   [] OTHER                 -> Absent,
         ops |-> {r.operation : r \in R} \ {Absent},
         alg |-> IF Cardinality(algs) = 1 THEN CHOOSE a \in algs : TRUE ELSE Absent]

\* No restriction at all unless both alg and key_ops are present.
restrictionsFromJWK(j) ==
    IF j.alg = Absent THEN {}
    ELSE {[use |-> CASE j.use = "sig" -> "signing"
                     [] j.use = "enc" -> "encryption"
                     [] OTHER         -> Use(o),
           operation |-> o, algorithm |-> j.alg] : o \in j.ops}

-----------------------------------------------------------------------------
(* Encoders.                                                               *)

\* A certificate is written as its DER encoding, so there must be one.
hasDER(m) == m.form = "certificate" => m.der

\* The RSA encoder validates private keys only; the EC encoder every point.
rsaEncodable(m) == (m.form = "private" => m.sound) /\ hasDER(m)

joseCurves == {256, 384, 521}

ecEncodable(m) == m.sound /\ m.size \in joseCurves /\ hasDER(m)

symetricEncodable(m, policy) == policy = "private" /\ m.size > 0

\* The encoder found for m returns no error.
Encodable(m, policy) ==
    /\ HasEncoder(m)
    /\ CASE JOSEEncoderFor(m) = "rsa"      -> rsaEncodable(m)
         [] JOSEEncoderFor(m) = "ec"       -> ecEncodable(m)
         [] JOSEEncoderFor(m) = "symetric" -> symetricEncodable(m, policy)

\* Private members of every private key, whatever the policy.
privateMembersAlways(m, policy) ==
    IF m.family = "oct" THEN octParameters
    ELSE IF m.form # "private" THEN {}
    ELSE IF m.family = "RSA" THEN rsaPrivateParameters ELSE ecPrivateParameters

\* Private members are written for a private key under ExportPrivateMaterial;
\* a symmetric key is never encoded under another policy.
privateMembers(m, policy) ==
    IF m.family = "oct" THEN octParameters
    ELSE IF m.form # "private" \/ policy # "private" THEN {}
    ELSE IF m.family = "RSA" THEN rsaPrivateParameters ELSE ecPrivateParameters

\* Encode.  crtFits: the two primes an RSA encoder writes are all there are.
Encode(k, policy) ==
    LET m == k.material
        meta == setJWKMetadata(k.restrictions)
        certificate == IF m.form = "certificate" THEN m.pair ELSE Absent
    IN  [kty |-> m.family, kid |-> k.id,
         use |-> meta.use, ops |-> meta.ops, alg |-> meta.alg,
         public |-> IF m.family = "oct" \/ ~m.sound THEN Absent ELSE m.pair,
         size |-> m.size, equalHalves |-> m.equalHalves,
         private |-> privateMembers(m, policy),
         privateOf |-> IF privateMembers(m, policy) = {} THEN Absent ELSE m.pair,
         crtFits |-> m.family # "RSA" \/ m.primes = 2,
         x5c |-> certificate, x5t |-> certificate, x5tS256 |-> certificate]

-----------------------------------------------------------------------------
(* Decoders.                                                               *)

\* The members of a private key a decoder looks at; it ignores all others.
hasPrivate(j) ==
    \/ j.kty = "RSA" /\ j.private \cap rsaPrivateParameters # {}
    \/ j.kty = "EC" /\ j.private \cap ecPrivateParameters # {}

\* A certificate taken on trust.
certificateTrusted(j) == ~hasPrivate(j)

\* x5c excludes private members, must be of the same key, and the thumbprints
\* that are present must be its own.
certificateFits(j) ==
    /\ ~hasPrivate(j)
    /\ j.x5c = j.public
    /\ j.x5t \in {Absent, j.x5c}
    /\ j.x5tS256 \in {Absent, j.x5c}

rsaPrivateFits(j) ==
    /\ rsaPrivateParameters \subseteq j.private
    /\ j.privateOf = j.public
    /\ j.crtFits

ecPrivateFits(j) == j.privateOf = j.public

rsaDecodable(j) ==
    /\ j.public # Absent
    /\ j.x5c # Absent => certificateFits(j)
    /\ j.x5c = Absent /\ hasPrivate(j) => rsaPrivateFits(j)

ecDecodable(j) ==
    /\ j.size \in joseCurves
    /\ j.public # Absent
    /\ j.x5c # Absent => certificateFits(j)
    /\ j.x5c = Absent /\ hasPrivate(j) => ecPrivateFits(j)

symetricDecodable(j) == octParameters \subseteq j.private /\ j.size > 0

\* The decoder found for the kty returns no error.
Decodable(j) ==
    /\ HasDecoder(j.kty)
    /\ CASE JOSEDecoderFor(j.kty) = "rsa"      -> rsaDecodable(j)
         [] JOSEDecoderFor(j.kty) = "ec"       -> ecDecodable(j)
         [] JOSEDecoderFor(j.kty) = "symetric" -> symetricDecodable(j)

decodedForm(j) ==
    IF j.kty = "oct" THEN "symmetric"
    ELSE IF j.x5c # Absent THEN "certificate"
    ELSE IF hasPrivate(j) THEN "private" ELSE "public"

\* Decode: the candidate has an ID, restrictions and material, nothing else.
Decode(j) ==
    [id |-> j.kid,
     restrictions |-> restrictionsFromJWK(j),
     material |-> [family |-> j.kty, form |-> decodedForm(j), size |-> j.size,
                   equalHalves |-> j.equalHalves,
                   pair |-> IF j.kty = "oct" THEN j.privateOf ELSE j.public,
                   sound |-> TRUE, der |-> TRUE, primes |-> 2]]
=============================================================================
