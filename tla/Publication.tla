---------------------------- MODULE Publication -----------------------------
(***************************************************************************)
(* Two parties that use the library.  The issuer signs tokens with the     *)
(* keys of its keystore and publishes them at a JWKS endpoint; a relying   *)
(* party follows the endpoint with a JWKS source and verifies tokens with  *)
(* what it has received, beside keys of its own.  Composes the endpoint    *)
(* (jwksendpoint), the encoder, writer and decoder of key sets (jwks), the *)
(* JOSE codecs, the signer and verifier (jws) and key selection.           *)
(*                                                                         *)
(* Requests may fail at any point: refused, timed out, the response lost   *)
(* or its body cut off.  The interleavings inside the source and inside a  *)
(* keystore are the subject of JwksSource and Keystore; here a source      *)
(* delivers, and a repository is replaced, in one step.                    *)
(***************************************************************************)
EXTENDS JoseCodec, Jws

CONSTANTS
    Generations,     \* sequence: what the issuer's repository may hold
    Selector,        \* WithKeySelector of the endpoint
    Policy,          \* the export policy of its writer
    LocalKeys,       \* the relying party's own keys, in order
    SignerRuntime,   \* WithSignerRuntimeOptions
    SignerCalls,     \* options an application gives to Sign
    VerifierRuntime, \* WithVerifierRuntimeOptions
    VerifierCalls,   \* options an application gives to Verify
    StoreRuntime,    \* the runtime options of both keystores
    MaxRotations,    \* bound: changes of the issuer's repository
    MaxTokens        \* bound: tokens in circulation

IssuerKeys == UNION {ToSet(Generations[g]) : g \in DOMAIN Generations}

\* Options of a signer or verifier: a list in which an option may be nil.
SignerOptions(s) ==
    /\ s \in Seq(ToSet(s))
    /\ \A o \in ToSet(s) : o = NilOption \/ KeystoreOption(o)

VerifierOptions(s) ==
    /\ s \in Seq(ToSet(s))
    /\ \A o \in ToSet(s) : o \in {NilOption, WithTokenHeader} \/ KeystoreOption(o)

ASSUME OptionsAssumption ==
    /\ StoreRuntime \in Seq(ToSet(StoreRuntime))
    /\ \A o \in ToSet(StoreRuntime) : KeystoreOption(o)
    /\ \A call \in SignerCalls \cup {SignerRuntime} : SignerOptions(call)
    /\ \A call \in VerifierCalls \cup {VerifierRuntime} : VerifierOptions(call)

ASSUME PublicationAssumption ==
    /\ Generations \in Seq(Seq(IssuerKeys)) \ {<<>>}
    /\ Policy \in Policies
    /\ \A k \in IssuerKeys : HasBackend(k.material) /\ k.material.pair # Absent
    /\ LocalKeys \in Seq(ToSet(LocalKeys))
    /\ \A k \in ToSet(LocalKeys) : HasBackend(k.material) /\ k.source # "partner"
    /\ \A k \in IssuerKeys \cup ToSet(LocalKeys) : k.priority \in Int
    /\ MaxRotations \in Nat
    /\ MaxTokens \in Nat

VARIABLES
    gen,       \* the generation the issuer's repository holds
    rotations, \* how often it has changed
    pc,        \* where the source's request is
    snapshot,  \* the keys the endpoint's handler found
    response,  \* what the source is sent
    partner,   \* the keys of the source in the relying party's repository
    tokens,    \* tokens in circulation
    verdict    \* the last token the relying party accepted, and by which key

httpVars == <<pc, snapshot, response>>
vars == <<gen, rotations, httpVars, partner, tokens, verdict>>

NoResponse == [status |-> 0, whole |-> FALSE, keys |-> <<>>]
NoVerdict  == [kind |-> "none"]

Init ==
    /\ gen = 1
    /\ rotations = 0
    /\ pc = "idle"
    /\ snapshot = <<>>
    /\ response = NoResponse
    /\ partner = <<>>
    /\ tokens = {}
    /\ verdict = NoVerdict

\* A source of the issuer's keystore delivers other keys.
Rotate ==
    /\ rotations < MaxRotations
    /\ rotations' = rotations + 1
    /\ \E g \in DOMAIN Generations \ {gen} : gen' = g
    /\ UNCHANGED <<httpVars, partner, tokens, verdict>>

-----------------------------------------------------------------------------
(* The endpoint.                                                           *)

EncodableKey(k) == Encodable(k.material, Policy)

EncodeAll(keys) == [i \in DOMAIN keys |-> Encode(keys[i], Policy)]

\* A set is encoded if it has keys and every one of them can be encoded.
EncodableSet(keys) == keys # <<>> /\ \A i \in DOMAIN keys : EncodableKey(keys[i])

OK(jwks)    == [status |-> 200, whole |-> TRUE, keys |-> jwks]
ServerError == [status |-> 500, whole |-> TRUE, keys |-> <<>>]

\* A writer that leaves out what it cannot encode.
WriteArtifactSkipping(keys) ==
    LET able == Keep(keys, {k \in ToSet(keys) : EncodableKey(k)})
    IN  IF able # <<>> THEN OK(EncodeAll(able)) ELSE ServerError

\* A writer to which an empty set is as good as any.
WriteArtifactEmpty(keys) ==
    IF keys = <<>> \/ EncodableSet(keys) THEN OK(EncodeAll(keys)) ELSE ServerError

\* WriteArtifact: nothing is written before the whole set is encoded.
WriteArtifact(keys) == IF EncodableSet(keys) THEN OK(EncodeAll(keys)) ELSE ServerError

\* The first half of ServeHTTP: keystore.Keys.
Serve ==
    /\ pc = "requested"
    /\ pc' = "found"
    /\ snapshot' = Keep(Generations[gen], Matching(Generations[gen], Selector))
    /\ UNCHANGED <<gen, rotations, response, partner, tokens, verdict>>

\* The second half, on the keys found, whatever the keystore holds by now.
Reply ==
    /\ pc = "found"
    /\ pc' = "replied"
    /\ response' = WriteArtifact(snapshot)
    /\ snapshot' = <<>>
    /\ UNCHANGED <<gen, rotations, partner, tokens, verdict>>

\* No answer comes, or status 200 with a body that was cut off: the writer has
\* sent the status when the body fails, and the endpoint's error is too late.
Fail ==
    /\ pc \in {"requested", "found"}
    /\ pc' = "replied"
    /\ response' \in {NoResponse, [OK(<<>>) EXCEPT !.whole = FALSE]}
    /\ snapshot' = <<>>
    /\ UNCHANGED <<gen, rotations, partner, tokens, verdict>>

-----------------------------------------------------------------------------
(* The relying party.                                                      *)

\* A tick of the source's watch, or a Load; loadMu lets one through at a time.
Request ==
    /\ pc = "idle"
    /\ pc' = "requested"
    /\ UNCHANGED <<gen, rotations, snapshot, response, partner, tokens, verdict>>

\* load: a candidate has no source and no status, and is given them.
Candidate(jwk) ==
    LET c == Decode(jwk)
    IN  [id |-> c.id, restrictions |-> c.restrictions, material |-> c.material,
         source |-> "partner", status |-> "active", priority |-> 0,
         notBefore |-> 0, notAfter |-> 0]

Candidates(jwks) == [i \in DOMAIN jwks |-> Candidate(jwks[i])]

\* A response is good if its status is, its body is whole and every key decodes.
Acceptable(r) ==
    /\ r.status \in 200..299
    /\ r.whole
    /\ \A i \in DOMAIN r.keys : Decodable(r.keys[i])

\* A source that is content with the first set it gets.
ReceiveOnce ==
    /\ pc = "replied"
    /\ pc' = "idle"
    /\ partner' = IF partner = <<>> /\ Acceptable(response)
                  THEN Candidates(response.keys) ELSE partner
    /\ response' = NoResponse
    /\ UNCHANGED <<gen, rotations, snapshot, tokens, verdict>>

\* A source that adds the keys it gets to those it has.
ReceiveMerging ==
    /\ pc = "replied"
    /\ pc' = "idle"
    /\ partner' = IF Acceptable(response)
                  THEN partner \o Keep(Candidates(response.keys),
                                       ToSet(Candidates(response.keys)) \ ToSet(partner))
                  ELSE partner
    /\ response' = NoResponse
    /\ UNCHANGED <<gen, rotations, snapshot, tokens, verdict>>

\* The rest of load and the callback: a good set replaces the one before, on any
\* error the relying party keeps what it has.
Receive ==
    /\ pc = "replied"
    /\ pc' = "idle"
    /\ partner' = IF Acceptable(response) THEN Candidates(response.keys) ELSE partner
    /\ response' = NoResponse
    /\ UNCHANGED <<gen, rotations, snapshot, tokens, verdict>>

Repository == LocalKeys \o partner

-----------------------------------------------------------------------------
(* Tokens.  A call that returns an error changes nothing.                  *)

\* The issuer signs.
Sign(call) ==
    LET choice == SigningKey(Generations[gen], StoreRuntime, SignerRuntime, call)
    IN  /\ Cardinality(tokens) < MaxTokens
        /\ Signs(choice)
        /\ tokens' = tokens \cup {Token(choice, call)}
        /\ UNCHANGED <<gen, rotations, httpVars, partner, verdict>>

\* The relying party signs for its own purposes, with its own keys.
SignLocally(call) ==
    LET choice == SigningKey(Repository, StoreRuntime, SignerRuntime, call)
    IN  /\ Cardinality(tokens) < MaxTokens
        /\ Signs(choice)
        /\ tokens' = tokens \cup {Token(choice, call)}
        /\ UNCHANGED <<gen, rotations, httpVars, partner, verdict>>

KeyFor(token, call) ==
    VerifyingKey(Repository, StoreRuntime, VerifierRuntime, call, token)

Verify(token, call) ==
    LET choice == KeyFor(token, call)
    IN  /\ token \in tokens
        /\ Verifies(choice, token)
        /\ verdict' = [kind |-> "accepted", token |-> token, key |-> choice.key]
        /\ UNCHANGED <<gen, rotations, httpVars, partner, tokens>>

Next ==
    \/ Rotate
    \/ Serve \/ Reply \/ Fail
    \/ Request \/ Receive
    \/ \E call \in SignerCalls : Sign(call) \/ SignLocally(call)
    \/ \E token \in tokens, call \in VerifierCalls : Verify(token, call)

\* The source's ticker keeps ticking and the handlers return; a network on which
\* every single request fails is excluded (strong fairness of the two halves
\* of the handler, which a failure keeps interrupting).
Fairness ==
    /\ WF_vars(Request) /\ WF_vars(Receive)
    /\ SF_vars(Serve) /\ SF_vars(Reply)

Spec == Init /\ [][Next]_vars /\ Fairness

-----------------------------------------------------------------------------
(* Properties.                                                             *)

\* The keys a generation should publish, and whether the endpoint can.
Published(g) == Keep(Generations[g], Matching(Generations[g], Selector))

Publishable(g) == EncodableSet(Published(g))

\* What tells two keys apart for whoever verifies with them.
Identity(keys) == [i \in DOMAIN keys |-> <<keys[i].id, keys[i].material.pair>>]

\* The relying party holds what the issuer published at one moment, whole: never
\* a part of a set and never keys of two generations, and under the public policy
\* none of its secrets, though the issuer's keys change between Keys and the
\* writing of the response and though requests fail anywhere (the
\* all-or-nothing of Encode, WriteArtifact, Decode and Replace).
WholeSets ==
    partner # <<>> =>
        /\ \E g \in DOMAIN Generations : Identity(partner) = Identity(Published(g))
        /\ Policy = "public" =>
            \A k \in ToSet(partner) : k.material.form \in {"public", "certificate"}

\* Once it has keys the relying party is never left without: neither a failure
\* nor an issuer with nothing to publish empties its set (the encoder refuses
\* an empty set, the source skips a bad response).
NeverEmptied == [][partner # <<>> => partner' # <<>>]_vars

\* What the call asks for is what it gets: of the options of the store, the
\* signer and the call, the call's last word on the algorithm and on the keys
\* decides, as the header and the returned descriptor tell (Sign and the fold
\* in keystore.Signer).
CallDecides ==
    \A t \in tokens :
        LET said(kind) == {i \in DOMAIN t.call : t.call[i].kind = kind}
        IN  /\ said("alg") # {} => t.alg = t.call[Max(said("alg"))].algorithm
            /\ said("keys") # {} => Matches(t.call[Max(said("keys"))].selector, t.key)

\* Verification is restricted to the keys the verifier was configured with: a
\* token is accepted only by a key that every WithVerifierKeys among its runtime
\* options selects (its comment: "restricts verification to keys matching
\* selector").
VerifierKeysRestrict ==
    verdict.kind = "accepted" =>
        \A i \in DOMAIN VerifierRuntime :
            VerifierRuntime[i].kind = "keys" =>
                Matches(VerifierRuntime[i].selector, verdict.key)

Verifiable(t) == \E call \in VerifierCalls : Verifies(KeyFor(t, call), t)

Pairs == {k.material.pair : k \in IssuerKeys}

PublishesPair(p) == \E k \in ToSet(Published(gen)) : k.material.pair = p

TokenAlgorithms ==
    {o.algorithm : o \in {x \in UNION {ToSet(SignerRuntime \o call) : call \in SignerCalls} :
                            x.kind = "alg"}}

\* A token the issuer signs becomes verifiable at the relying party, unless its
\* key is no longer published or the issuer's set cannot be published as it is
\* (Sign against the whole way from the endpoint to Verify).  For keys that
\* are unrestricted or restricted to sign and verify with one algorithm: one
\* restricted to sign alone is published as such and verifies nothing.
SignedBecomesVerifiable ==
    \A p \in Pairs, a \in TokenAlgorithms :
        LET signed == {t \in tokens : t.pair = p /\ t.alg = a}
        IN  signed # {} ~>
                \/ \A t \in signed : Verifiable(t)
                \/ ~PublishesPair(p)
                \/ ~Publishable(gen)

\* A key the issuer withdraws disappears at the relying party, unless it comes
\* back or what is left cannot be published (the replacement of the source's
\* whole set).
WithdrawnDisappears ==
    \A p \in Pairs :
        LET held == \E k \in ToSet(partner) : k.material.pair = p
        IN  (held /\ ~PublishesPair(p)) ~>
                (~held \/ PublishesPair(p) \/ ~Publishable(gen))
=============================================================================
