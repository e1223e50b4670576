-------------------------------- MODULE Jws ---------------------------------
(***************************************************************************)
(* The JWS signer and verifier (package jws) on top of the operations of a *)
(* keystore: how the options of a signer or verifier, of a call and of the *)
(* keystore itself become one query, which key it picks, and what becomes  *)
(* of the token.                                                           *)
(*                                                                         *)
(* A token is its header (kid, alg), the key pair that signed it, the      *)
(* descriptor of its key and the options of the call that made it.  A      *)
(* signature verifies with the pair and the algorithm that made it and     *)
(* with no other.                                                          *)
(***************************************************************************)
EXTENDS KeyQuery

-----------------------------------------------------------------------------
(* Options.                                                                *)

WithAlg(a)         == [kind |-> "alg", algorithm |-> a]
WithKeys(selector) == [kind |-> "keys", selector |-> selector]
WithTokenHeader    == [kind |-> "header"]
NilOption          == [kind |-> "nil"]

\* A keystore option is made by one of the first two; a selector tells keys by
\* these attributes.
Attributes == {"source", "id", "status"}

KeystoreOption(o) ==
    \/ o.kind = "alg"
    \/ o.kind = "keys" /\ \A x \in o.selector : x.attribute \in Attributes

\* The options of the call before those of the signer.
AllOptionsReversed(runtime, call) == call \o runtime

\* Runtime options first.  Each option wraps the ones after it and appends its
\* keystore option to those it is handed, so the keystore sees this order.
AllOptions(runtime, call) == runtime \o call

WellFormed(options) == \A i \in DOMAIN options : options[i] # NilOption

\* What an option adds for a token; a header that cannot be read has no kid.
Resolve(options, token) ==
    [i \in DOMAIN options |->
        IF options[i] = WithTokenHeader THEN WithKeys({WithID(token.kid)}) ELSE options[i]]

EmptyQuery == [keys |-> {}, algorithms |-> <<>>]

\* WithKeys as a remark.
ApplyNoKeys(q, option) ==
    IF option.kind = "alg" THEN [q EXCEPT !.algorithms = <<option.algorithm>>] ELSE q

\* A keystore option overwrites what earlier ones put in its field.
Apply(q, option) ==
    CASE option.kind = "alg"  -> [q EXCEPT !.algorithms = <<option.algorithm>>]
      [] option.kind = "keys" -> [q EXCEPT !.keys = option.selector]

\* The fold at the top of Signer and Verify, the options of the store first.
operationQuery(store, options) == FoldLeft(Apply, EmptyQuery, store \o options)

-----------------------------------------------------------------------------
(* The two operations, at time 0 with keys that do not expire.             *)

Select(repository, operation, q) ==
    IF q.algorithms = <<>> THEN NoKey
    ELSE SelectKey(q.keys, operation, q.algorithms,
                   Keep(repository, Matching(repository, q.keys)), 0)

\* Signer.Sign up to the choice of the key.
SigningKey(repository, store, runtime, call) ==
    LET options == AllOptions(runtime, call)
    IN  IF WellFormed(options)
        THEN Select(repository, "sign", operationQuery(store, options)) ELSE NoKey

\* Material.Public: a secret has no public part.
Public(m) ==
    IF m.form = "symmetric" THEN [form |-> "none"] ELSE [m EXCEPT !.form = "public"]

\* The key as the signer returns it.
Descriptor(k, a) ==
    [id |-> k.id, source |-> k.source, algorithm |-> a, restrictions |-> k.restrictions,
     status |-> k.status, priority |-> k.priority, notBefore |-> k.notBefore,
     notAfter |-> k.notAfter, material |-> Public(k.material)]

\* The token; mapHeader names the key and the algorithm that were chosen.
Token(choice, call) ==
    [kid |-> choice.key.id, alg |-> choice.algorithm,
     pair |-> choice.key.material.pair,
     key |-> Descriptor(choice.key, choice.algorithm), call |-> call]

Signs(choice) ==
    choice.kind = "key" /\ Performs(choice.key.material, "sign", choice.algorithm)

\* Verifier.Verify up to the choice of the key; the header's alg is not read.
VerifyingKey(repository, store, runtime, call, token) ==
    LET options == AllOptions(runtime, call)
    IN  IF WellFormed(options)
        THEN Select(repository, "verify",
                    operationQuery(store, Resolve(options, token)))
        ELSE NoKey

Verifies(choice, token) ==
    /\ choice.kind = "key"
    /\ Performs(choice.key.material, "verify", choice.algorithm)
    /\ choice.key.material.pair = token.pair
    /\ choice.algorithm = token.alg
=============================================================================
