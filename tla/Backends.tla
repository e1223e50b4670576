------------------------------ MODULE Backends ------------------------------
(***************************************************************************)
(* What the cryptographic backends promise and what they perform           *)
(* (backend/rsa, backend/ec, backend/symetric, backend/registry.go): which *)
(* factory takes a material, the capabilities its backend advertises, the  *)
(* operations its type implements, and whether an operation with an        *)
(* algorithm goes through.                                                 *)
(*                                                                         *)
(* A material is [family, form, size, equalHalves]: size is the modulus    *)
(* length in bytes of an RSA key, the field length in bits of an EC key    *)
(* and the length in bytes of a symmetric key, which may consist of two    *)
(* equal halves.                                                           *)
(***************************************************************************)
EXTENDS Integers, Sequences, FiniteSetsExt

CONSTANT UnsafeCrypto   \* built with the with_unsafe_crypto tag

ASSUME UnsafeCryptoAssumption == UnsafeCrypto \in BOOLEAN

Operations == {"sign", "verify", "encrypt", "decrypt"}

PSS       == {"PS256", "PS384", "PS512"}
RSASig    == {"RS256", "RS384", "RS512"} \cup PSS
OAEP      == {"RSA-OAEP-256", "RSA-OAEP-384", "RSA-OAEP-512"}
RSAUnsafe == {"RSA1_5", "RSA-OAEP"}
ES        == {"ES256", "ES384", "ES512"}
HS        == {"HS256", "HS384", "HS512"}
GCM       == {"A128GCM", "A192GCM", "A256GCM"}
DES2      == {"DES2-ECB", "DES2-CBC"}

UnsafeAlgorithms == RSAUnsafe \cup DES2
Algorithms == RSASig \cup OAEP \cup ES \cup HS \cup GCM \cup UnsafeAlgorithms

\* Length in bytes of the digest behind an algorithm.
HashSize(a) ==
    CASE a \in {"RS256", "PS256", "ES256", "HS256", "RSA-OAEP-256"} -> 32
      [] a \in {"RS384", "PS384", "ES384", "HS384", "RSA-OAEP-384"} -> 48
      [] a \in {"RS512", "PS512", "ES512", "HS512", "RSA-OAEP-512"} -> 64
      [] a = "RSA-OAEP" -> 20

Use(operation) ==
    IF operation \in {"encrypt", "decrypt"} THEN "encryption" ELSE "signing"

Capability(operation, algorithm) ==
    [use |-> Use(operation), operation |-> operation, algorithm |-> algorithm]

Capable(operations, algorithms) ==
    {Capability(o, a) : o \in operations, a \in algorithms}

-----------------------------------------------------------------------------
(* Factories and the registry.                                             *)

\* Factory.Supports: the form of a material and the type of its key decide.
rsaSupports(m) == m.family = "RSA" /\ m.form \in {"private", "public", "certificate"}

ecSupports(m) == m.family = "EC" /\ m.form \in {"private", "public", "certificate"}

symetricSupports(m) == m.family = "oct" /\ m.form = "symmetric"

Supports(factory, m) ==
    CASE factory = "rsa"      -> rsaSupports(m)
      [] factory = "ec"       -> ecSupports(m)
      [] factory = "symetric" -> symetricSupports(m)

\* BackendFor: the factory registered last among those that take m.
Registry == <<"rsa", "ec", "symetric">>

HasBackend(m) == \E i \in DOMAIN Registry : Supports(Registry[i], m)

BackendFor(m) ==
    Registry[Max({i \in DOMAIN Registry : Supports(Registry[i], m)})]

-----------------------------------------------------------------------------
(* Capabilities, a table per backend and material type.                    *)

\* What the build tag adds.
unsafeCapabilities(operations, algorithms) ==
    IF UnsafeCrypto THEN Capable(operations, algorithms) ELSE {}

\* A certificate has the capabilities of its public key.
rsaCapabilities(form) ==
    IF form = "private"
    THEN Capable({"sign", "verify"}, RSASig)
            \cup Capable({"encrypt", "decrypt"}, OAEP)
            \cup unsafeCapabilities({"encrypt", "decrypt"}, RSAUnsafe)
    ELSE Capable({"verify"}, RSASig)
            \cup Capable({"encrypt"}, OAEP)
            \cup unsafeCapabilities({"encrypt"}, RSAUnsafe)

\* The EC table for public keys copied from the one for private keys.
ecCapabilitiesSame(form) == Capable({"sign", "verify"}, ES)

\* Every curve is given all three algorithms.
ecCapabilities(form) ==
    IF form = "private" THEN Capable({"sign", "verify"}, ES)
                        ELSE Capable({"verify"}, ES)

\* Every key length is given all algorithms.
symetricCapabilities ==
    Capable({"sign", "verify"}, HS) \cup Capable({"encrypt", "decrypt"}, GCM)
        \cup unsafeCapabilities({"encrypt", "decrypt"}, DES2)

Capabilities(m) ==
    CASE BackendFor(m) = "rsa"      -> rsaCapabilities(m.form)
      [] BackendFor(m) = "ec"       -> ecCapabilities(m.form)
      [] BackendFor(m) = "symetric" -> symetricCapabilities

\* The operations each Go type has a method for; the certificate types embed
\* the public ones.
rsaPrivateMethods == {"sign", "verify", "encrypt", "decrypt"}
rsaPublicMethods  == {"verify", "encrypt"}
ecPrivateMethods  == {"sign", "verify"}
ecPublicMethods   == {"verify"}
symetricMethods   == {"sign", "verify", "encrypt", "decrypt"}

Implements(m) ==
    CASE BackendFor(m) = "rsa" ->
            IF m.form = "private" THEN rsaPrivateMethods ELSE rsaPublicMethods
      [] BackendFor(m) = "ec" ->
            IF m.form = "private" THEN ecPrivateMethods ELSE ecPublicMethods
      [] BackendFor(m) = "symetric" -> symetricMethods

-----------------------------------------------------------------------------
(* Performing an operation.                                                *)

\* crypto/rsa refuses a modulus too short for the encoding: PSS with a salt as
\* long as the digest, and OAEP, need two digests and two bytes.
rsaSigns(m, a) == a \in RSASig /\ (a \in PSS => m.size >= 2 * HashSize(a) + 2)

rsaEncrypts(m, a) ==
    /\ a \in OAEP \cup RSAUnsafe
    /\ a \in RSAUnsafe => UnsafeCrypto
    /\ a # "RSA1_5" => m.size >= 2 * HashSize(a) + 2

\* signatureOptions of the EC backend: one curve per algorithm.
ecCurve(a) ==
    CASE a = "ES256" -> 256 [] a = "ES384" -> 384 [] a = "ES512" -> 521

ecSigns(m, a) == a \in ES /\ m.size = ecCurve(a)

\* signatureOptions, encryptionOptions and des2Cipher of the symetric backend.
symetricSigns(m, a) == a \in HS /\ m.size >= HashSize(a)

gcmKeySize(a) ==
    CASE a = "A128GCM" -> 16 [] a = "A192GCM" -> 24 [] a = "A256GCM" -> 32

\* DES2 takes two keys of eight bytes, which must differ.
des2Encrypts(m, a) ==
    a \in DES2 /\ UnsafeCrypto /\ m.size = 16 /\ ~m.equalHalves

symetricEncrypts(m, a) ==
    (a \in GCM /\ m.size = gcmKeySize(a)) \/ des2Encrypts(m, a)

Performs(m, operation, a) ==
    LET signing == Use(operation) = "signing"
    IN  CASE BackendFor(m) = "rsa" ->
                IF signing THEN rsaSigns(m, a) ELSE rsaEncrypts(m, a)
          [] BackendFor(m) = "ec" -> signing /\ ecSigns(m, a)
          [] BackendFor(m) = "symetric" ->
                IF signing THEN symetricSigns(m, a) ELSE symetricEncrypts(m, a)
=============================================================================
