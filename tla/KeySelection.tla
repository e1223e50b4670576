---------------------------- MODULE KeySelection ----------------------------
(***************************************************************************)
(* How an operation of the keystore picks its key and algorithm, and what  *)
(* happens to the choice while other goroutines replace keys and time      *)
(* passes (keystore/keystore_api.go, key/selector.go, keyset/keyset.go).   *)
(*                                                                         *)
(* An operation takes a snapshot of the matching keys (Find), decides on   *)
(* it at a later moment (the rest of selectKey) and performs later still:  *)
(* a SignFunc may be kept, shared between goroutines and called at any     *)
(* time.                                                                   *)
(***************************************************************************)
EXTENDS KeyQuery

CONSTANTS
    Deliveries, \* [source, keys]: generations of keys a source may deliver
    Requests,   \* [operation, selector, algorithms] an application may ask
    MaxTime,    \* bound: the clock
    Goroutines  \* callers of one SignFunc

Catalog == UNION {ToSet(d.keys) : d \in Deliveries}

ASSUME KeySelectionAssumption ==
    /\ MaxTime \in Nat \ {0}
    /\ \A k \in Catalog : /\ HasBackend(k.material)
                          /\ k.status \in Statuses
                          /\ k.priority \in Int
    /\ \A d \in Deliveries : /\ d.keys \in Seq(Catalog) /\ IsInjective(d.keys)
                             /\ \A k \in ToSet(d.keys) : k.source = d.source
    /\ \A q \in Requests : q.algorithms \in Seq(STRING)

VARIABLES
    repository, \* keySet.keys, in order
    now,        \* the clock
    opPC,       \* where the operation is
    request,    \* its options, folded into one query
    candidates, \* the snapshot Find returned
    outcome,    \* what selectKey returned
    result,     \* what Verify, Encrypt or Decrypt returned
    used,       \* the SignFunc's used flag
    callPC,     \* where each caller of the SignFunc is
    signatures  \* the signatures made, one entry per call that made one

opVars   == <<opPC, request, candidates, outcome, result>>
signVars == <<used, callPC, signatures>>
vars == <<repository, now, opVars, signVars>>

-----------------------------------------------------------------------------
(* An operation, step by step.                                             *)

NoRequest == [operation |-> "none", selector |-> {}, algorithms |-> <<>>]

Init ==
    /\ repository = <<>>
    /\ now = 1
    /\ opPC = "idle"
    /\ request = NoRequest
    /\ candidates = <<>>
    /\ outcome = NoKey
    /\ result = "none"
    /\ used = FALSE
    /\ callPC = [g \in Goroutines |-> "idle"]
    /\ signatures = {}

\* keySet.Find under its read lock.  An empty list of algorithms is refused.
Find(q) ==
    /\ opPC = "idle"
    /\ q.algorithms # <<>>
    /\ opPC' = "found"
    /\ request' = q
    /\ candidates' = Keep(repository, Matching(repository, q.selector))
    /\ UNCHANGED <<repository, now, outcome, result, signVars>>

\* The rest of selectKey, on the snapshot, at the present time.
Decide ==
    /\ opPC = "found"
    /\ opPC' = "decided"
    /\ outcome' = SelectKey(request.selector, request.operation,
                            request.algorithms, candidates, now)
    /\ candidates' = <<>>
    /\ UNCHANGED <<repository, now, request, result, signVars>>

\* Verify, Encrypt and Decrypt go on to perform on well-formed input, Signer
\* returns its SignFunc; without a key, all four return an error.
Perform ==
    /\ opPC = "decided"
    /\ request.operation # "sign" \/ outcome.kind # "key"
    /\ opPC' = "done"
    /\ result' =
            IF outcome.kind = "key"
                /\ request.operation \in Implements(outcome.key.material)
                /\ Performs(outcome.key.material, request.operation, outcome.algorithm)
            THEN "ok" ELSE "error"
    /\ UNCHANGED <<repository, now, request, candidates, outcome, signVars>>

\* A SignFunc that reads the flag first and sets it when it has signed.
SignEnterUnguarded(g) ==
    /\ opPC = "decided" /\ request.operation = "sign" /\ outcome.kind = "key"
    /\ callPC[g] = "idle"
    /\ ~used
    /\ callPC' = [callPC EXCEPT ![g] = "signing"]
    /\ UNCHANGED <<repository, now, opVars, used, signatures>>

\* The SignFunc's CompareAndSwap lets one caller through.
SignEnter(g) ==
    /\ opPC = "decided" /\ request.operation = "sign" /\ outcome.kind = "key"
    /\ callPC[g] = "idle"
    /\ ~used
    /\ used' = TRUE
    /\ callPC' = [callPC EXCEPT ![g] = "signing"]
    /\ UNCHANGED <<repository, now, opVars, signatures>>

SignRefused(g) ==
    /\ opPC = "decided" /\ request.operation = "sign" /\ outcome.kind = "key"
    /\ callPC[g] = "idle"
    /\ used
    /\ callPC' = [callPC EXCEPT ![g] = "refused"]
    /\ UNCHANGED <<repository, now, opVars, used, signatures>>

\* signer.Sign with the key and the algorithm that were chosen.
SignFinish(g) ==
    /\ callPC[g] = "signing"
    /\ callPC' = [callPC EXCEPT ![g] = "returned"]
    /\ used' = TRUE
    /\ signatures' =
            IF Performs(outcome.key.material, "sign", outcome.algorithm)
            THEN signatures \cup
                    {[by |-> g, key |-> outcome.key, algorithm |-> outcome.algorithm]}
            ELSE signatures
    /\ UNCHANGED <<repository, now, opVars>>

\* Replace that does not drop the source's earlier keys.
ReplaceAppends(d) ==
    /\ repository' = repository \o d.keys
    /\ UNCHANGED <<now, opVars, signVars>>

\* keySet.Replace, at any moment: the keys of other sources keep their order,
\* the new keys of this one follow them.
Replace(d) ==
    /\ repository' =
            Keep(repository, ToSet(repository) \ Matching(repository, {WithSource(d.source)}))
                \o d.keys
    /\ UNCHANGED <<now, opVars, signVars>>

Tick ==
    /\ now < MaxTime
    /\ now' = now + 1
    /\ UNCHANGED <<repository, opVars, signVars>>

Next ==
    \/ \E q \in Requests : Find(q)
    \/ Decide \/ Perform
    \/ \E g \in Goroutines : SignEnter(g) \/ SignRefused(g) \/ SignFinish(g)
    \/ \E d \in Deliveries : Replace(d)
    \/ Tick

Spec == Init /\ [][Next]_vars

-----------------------------------------------------------------------------
(* Properties.                                                             *)

Outcomes == {NoKey, Tie} \cup {Chosen(k, a) : k \in Catalog, a \in Algorithms}

\* Every variable keeps its type, and however the deliveries of several sources
\* interleave, the repository holds no key twice.
TypeOK ==
    /\ repository \in Seq(Catalog) /\ IsInjective(repository)
    /\ now \in 1..MaxTime
    /\ opPC \in {"idle", "found", "decided", "done"}
    /\ request \in Requests \cup {NoRequest}
    /\ candidates \in Seq(Catalog)
    /\ outcome \in Outcomes
    /\ result \in {"none", "ok", "error"}
    /\ used \in BOOLEAN
    /\ callPC \in [Goroutines -> {"idle", "signing", "returned", "refused"}]
    /\ signatures \subseteq [by : Goroutines, key : Catalog, algorithm : Algorithms]

\* What selectKey should return, in terms of the set of candidates alone.
Reference(selector, operation, algorithms, K, t) ==
    LET able(a) == {k \in K : Eligible(k, selector, operation, a, t)}
        best(a) == {k \in able(a) : \A j \in able(a) : j.priority <= k.priority}
        a == CHOOSE x \in ToSet(algorithms) :
                /\ able(x) # {}
                /\ \E i \in DOMAIN algorithms :
                    algorithms[i] = x /\ \A j \in 1..(i - 1) : able(algorithms[j]) = {}
    IN  IF \A x \in ToSet(algorithms) : able(x) = {} THEN NoKey
        ELSE IF Cardinality(best(a)) > 1 THEN Tie
        ELSE Chosen(CHOOSE k \in best(a) : TRUE, a)

\* The decision is the reference's: it depends on which keys the snapshot
\* holds and never on the order in which the sources loaded them, so a tie of
\* priorities is reported and not resolved by load order (selectKey).
SelectionCorrect ==
    [][opPC = "found" /\ opPC' = "decided" =>
        outcome' = Reference(request.selector, request.operation,
                             request.algorithms, ToSet(candidates), now)]_vars

\* One SignFunc makes one signature at most, whoever calls it and however
\* the calls overlap (the CompareAndSwap in Signer).
OneSignaturePerSigner == Cardinality(signatures) <= 1

\* What is chosen this build can do: the key's backend has a method for the
\* operation, so the checks after selectKey never fire, and a default build is
\* given no unsafe algorithm by any table of capabilities, nor would a backend
\* asked directly perform one (the with_unsafe_crypto gate).
ChosenImplements ==
    /\ outcome.kind = "key" => request.operation \in Implements(outcome.key.material)
    /\ ~UnsafeCrypto =>
        /\ outcome.kind = "key" => outcome.algorithm \notin UnsafeAlgorithms
        /\ \A k \in ToSet(repository), o \in Operations, a \in UnsafeAlgorithms :
                ~Performs(k.material, o, a)

\* What was signed can be verified: as long as the store still has the key
\* under its ID alone, active or passive, valid and not restricted against it,
\* Verify with the descriptor's ID and algorithm picks that key and performs.
SignedCanBeVerified ==
    \A s \in signatures, k \in ToSet(repository) :
        (/\ k.id = s.key.id /\ k.material = s.key.material
         /\ \A j \in ToSet(repository) : j.id = k.id => j = k
         /\ k.status # "disabled" /\ ValidAt(k, now) /\ k.restrictions = {})
        => /\ SelectKey({WithID(k.id)}, "verify", <<s.algorithm>>, repository, now)
                = Chosen(k, s.algorithm)
           /\ Performs(k.material, "verify", s.algorithm)
=============================================================================
