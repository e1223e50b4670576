------------------------ MODULE JoseRoundTripProofs -------------------------
(***************************************************************************)
(* What a key keeps on its way through the JOSE codecs, for any exported   *)
(* keys, any number of trips and any number of altered members.            *)
(*                                                                         *)
(* The lemmas say what one encoding and one decoding do; the invariant     *)
(* says which of the two the state is the result of.                       *)
(***************************************************************************)
EXTENDS JoseRoundTrip, OperatorProofs

\* The counters count; between an encoding and what the decoder makes of it,
\* an untouched document is the encoding of the key, and a key that came back
\* is what the decoder made of the document.
CodecInv ==
    /\ alters \in Nat /\ trips \in Nat
    /\ pc \in {"encoded", "rejected"} /\ Untouched =>
        Encodable(key.material, policy) /\ jwk = Encode(key, policy)
    /\ pc = "rejected" => ~Decodable(jwk)
    /\ Returned => Decodable(jwk) /\ key = Decode(jwk)

\* The keys an application can hold: restrictions are a list of capabilities
\* that name an operation, its use and an algorithm, and an RSA key has at
\* least two primes.
WellFormedExports ==
    /\ Absent \notin Pairs
    /\ \A k \in Exported :
        /\ IsFiniteSet(k.restrictions)
        /\ \A r \in k.restrictions :
            /\ r = Capability(r.operation, r.algorithm)
            /\ Absent \notin {r.operation, r.algorithm}
        /\ k.material.primes \in Nat \ {0, 1}

\* The form in which a key comes back.
Shown(form) == IF form = "private" /\ policy = "public" THEN "public" ELSE form

\* k is what untouched trips make of the key the application had.
IsBack(k) ==
    /\ k.id = origin.id
    /\ k.material.pair = origin.material.pair
    /\ k.material.size = origin.material.size
    /\ k.material.form = Shown(origin.material.form)
    /\ k.material.sound /\ k.material.primes = 2
    /\ OneAlgorithm(origin.restrictions) => k.restrictions = origin.restrictions

TripInv ==
    /\ origin \in Exported
    /\ policy \in Policies
    /\ Untouched => key = origin \/ IsBack(key)
    /\ Returned /\ Untouched => IsBack(key)

-----------------------------------------------------------------------------
(* The invariant.                                                          *)

\* Every step keeps track of what the document and the key are the result of.
LEMMA CodecInvariance == Spec => []CodecInv
  <1>1. Init => CodecInv
    BY DEF Init, CodecInv, Untouched, Returned
  <1>2. ASSUME CodecInv, [Next]_vars PROVE CodecInv'
    <2>1. CASE EncodeKey
      BY <1>2, <2>1 DEF EncodeKey, CodecInv, Untouched, Returned
    <2>2. CASE Alter
      BY <1>2, <2>2 DEF Alter, CodecInv, Untouched, Returned
    <2>3. CASE DecodeKey
      BY <1>2, <2>3 DEF DecodeKey, CodecInv, Untouched, Returned
    <2>4. CASE UNCHANGED vars
      BY <1>2, <2>4 DEF vars, CodecInv, Untouched, Returned
    <2> QED
      BY <1>2, <2>1, <2>2, <2>3, <2>4 DEF Next, Finished
  <1> QED
    BY <1>1, <1>2, PTL DEF Spec

\* Without ExportPrivateMaterial no secret member is ever written, on the first
\* encoding or on a later one, of whatever key (the policy checks of the
\* encoders).
THEOREM SecretsStayHolds == Spec => []SecretsStay
  <1>1. CodecInv => SecretsStay
    BY PublicPolicyHidesSecrets DEF CodecInv, SecretsStay
  <1> QED
    BY <1>1, CodecInvariance, PTL

\* A decoded key is of one piece, whatever members of other keys a peer mixed
\* into the document (the consistency checks of Decode).
THEOREM DecodedIsConsistentHolds == Spec => []DecodedIsConsistent
  <1>1. ASSUME NEW j, Decodable(j)
        PROVE  LET m == Decode(j).material
               IN  /\ HasBackend(m)
                   /\ m.form = "private" => j.privateOf = j.public
                   /\ m.form = "certificate" =>
                        /\ j.x5c = j.public
                        /\ {j.x5t, j.x5tS256} \subseteq {Absent, j.public}
                   /\ m.family # "oct" => m.pair = j.public
    <2> DEFINE m == Decode(j).material
    <2>1. /\ m.family = j.kty /\ m.form = decodedForm(j)
          /\ m.family # "oct" => m.pair = j.public
      BY DEF Decode
    <2>2. HasBackend(m)
      <3>1. j.kty \in {"RSA", "EC", "oct"}
        BY <1>1, DecodableChecks
      <3>2. rsaSupports(m) \/ ecSupports(m) \/ symetricSupports(m)
        BY <2>1, <3>1 DEF decodedForm, rsaSupports, ecSupports, symetricSupports
      <3> QED
        BY <3>2, BackendFound
    <2>3. m.form = "private" => j.privateOf = j.public
      BY <1>1, <2>1, DecodableChecks DEF decodedForm, rsaDecodable, ecDecodable,
         rsaPrivateFits, ecPrivateFits
    <2>4. m.form = "certificate" => certificateFits(j)
      BY <1>1, <2>1, DecodableChecks DEF decodedForm, rsaDecodable, ecDecodable
    <2> QED
      BY <2>1, <2>2, <2>3, <2>4 DEF certificateFits
  <1>2. CodecInv => DecodedIsConsistent
    BY <1>1 DEF CodecInv, DecodedIsConsistent
  <1> QED
    BY <1>2, CodecInvariance, PTL

\* What an untouched trip of k makes of the key the application had, when k is
\* that key or what earlier trips made of it.
LEMMA NextTrip ==
    ASSUME WellFormedExports, policy \in Policies, origin \in Exported,
           NEW k, k = origin \/ IsBack(k), Encodable(k.material, policy)
    PROVE  /\ Decodable(Encode(k, policy)) => IsBack(Decode(Encode(k, policy)))
           /\ ~Decodable(Encode(k, policy)) =>
                /\ origin.material.family = "RSA"
                /\ \/ origin.material.primes > 2 /\ policy = "private"
                   \/ origin.material.form # "private" /\ ~origin.material.sound
  <1> DEFINE j == Encode(k, policy)
             m == k.material
  <1>1. m.pair = origin.material.pair /\ m.pair # Absent
    BY JoseRoundTripAssumption DEF WellFormedExports, IsBack
  <1>2. /\ ~Decodable(j) =>
            /\ m.family = "RSA"
            /\ \/ m.form = "private" /\ policy = "private" /\ m.primes # 2
               \/ m.form # "private" /\ ~m.sound
        /\ Decodable(j) =>
            /\ Decode(j).id = k.id
            /\ Decode(j).material.pair = m.pair
            /\ Decode(j).material.size = m.size
            /\ Decode(j).material.form = Shown(m.form)
            /\ Decode(j).material.sound = TRUE /\ Decode(j).material.primes = 2
            /\ Decode(j).restrictions = restrictionsFromJWK(j)
    <2>1. TripOutcome(k, policy)
      BY <1>1, OneTrip
    <2> QED
      BY <2>1 DEF TripOutcome, Shown
  <1>3. OneAlgorithm(origin.restrictions) => k.restrictions = origin.restrictions
    BY DEF IsBack
  <1>4. OneAlgorithm(origin.restrictions) =>
            restrictionsFromJWK(j) = origin.restrictions
    <2>1. PICK p, R : p = policy /\ R = origin.restrictions
      OBVIOUS
    <2> QED
      BY <1>3, <2>1, RestrictionsRoundTrip DEF WellFormedExports
  <1>5. CASE k = origin
    <2>1. Decodable(j) => IsBack(Decode(j))
      BY <1>1, <1>2, <1>4, <1>5 DEF IsBack
    <2>2. m.primes # 2 => m.primes > 2
      BY <1>5 DEF WellFormedExports
    <2> QED
      BY <1>2, <1>5, <2>1, <2>2
  <1>6. CASE IsBack(k)
    <2>1. Decodable(j)
      BY <1>2, <1>6 DEF IsBack
    <2>2. IsBack(Decode(j))
      BY <1>1, <1>2, <1>4, <1>6, <2>1 DEF IsBack, Shown
    <2> QED
      BY <2>1, <2>2
  <1> QED
    BY <1>5, <1>6

\* An untouched key comes back as itself, however often it goes round, unless
\* it is one of the two kinds of RSA key that never do (Encode against Decode).
THEOREM RoundTripHolds ==
    ASSUME WellFormedExports PROVE Spec => []RoundTrip
  <1>1. Init => TripInv
    BY DEF Init, TripInv, Untouched, Returned
  <1>2. ASSUME CodecInv, TripInv, [Next]_vars PROVE TripInv'
    <2>1. CASE EncodeKey
      BY <1>2, <2>1 DEF EncodeKey, TripInv, Untouched, Returned, IsBack, Shown
    <2>2. CASE Alter
      BY <1>2, <2>2 DEF Alter, TripInv, CodecInv, Untouched, Returned
    <2>3. CASE DecodeKey
      <3>1. UNCHANGED <<origin, policy, jwk, alters>>
        BY <2>3 DEF DecodeKey
      <3>2. CASE Untouched /\ Decodable(jwk)
        <4>1. IsBack(Decode(jwk))
          BY <1>2, <2>3, <3>2, NextTrip DEF DecodeKey, CodecInv, TripInv
        <4>2. key' = Decode(jwk)
          BY <2>3, <3>2 DEF DecodeKey
        <4>3. IsBack(key)'
          BY <3>1, <4>1, <4>2 DEF IsBack, Shown
        <4> QED
          BY <1>2, <3>1, <4>3 DEF TripInv
      <3>3. CASE Untouched /\ ~Decodable(jwk)
        BY <1>2, <2>3, <3>1, <3>3 DEF DecodeKey, TripInv, Untouched, Returned,
           IsBack, Shown
      <3>4. CASE ~Untouched
        BY <1>2, <3>1, <3>4 DEF TripInv, Untouched
      <3> QED
        BY <3>2, <3>3, <3>4
    <2>4. CASE UNCHANGED vars
      BY <1>2, <2>4 DEF vars, TripInv, Untouched, Returned, IsBack, Shown
    <2> QED
      BY <1>2, <2>1, <2>2, <2>3, <2>4 DEF Next, Finished
  <1>3. CodecInv /\ TripInv => RoundTrip
    <2> SUFFICES ASSUME CodecInv, TripInv PROVE RoundTrip
      OBVIOUS
    <2>1. pc = "rejected" /\ Untouched =>
            /\ origin.material.family = "RSA"
            /\ \/ origin.material.primes > 2 /\ policy = "private"
               \/ origin.material.form # "private" /\ ~origin.material.sound
      BY NextTrip DEF CodecInv, TripInv
    <2> QED
      BY <2>1 DEF TripInv, RoundTrip, IsBack, Shown, OneAlgorithm
  <1> QED
    BY <1>1, <1>2, <1>3, CodecInvariance, PTL DEF Spec
=============================================================================
