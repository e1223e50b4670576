------------------------- MODULE KeySelectionProofs -------------------------
(***************************************************************************)
(* Correctness of the choice of a key, and of what is done with it, for    *)
(* any sources and keys, any requests and any number of goroutines.        *)
(*                                                                         *)
(* That selectKey computes the reference follows from what its operators   *)
(* return (OperatorProofs); the rest from the invariant SelInv, which says *)
(* what the choice, the callers of a SignFunc and the signatures have to   *)
(* do with each other.                                                     *)
(***************************************************************************)
EXTENDS KeySelection, OperatorProofs

\* The snapshot is of one repository, and of a request that was made.
SnapshotOK ==
    opPC = "found" => IsInjective(candidates) /\ request \in Requests

\* What was chosen is able to do what was asked for.
OutcomeOK ==
    outcome.kind = "key" =>
        /\ opPC \in {"decided", "done"}
        /\ outcome.key \in Catalog
        /\ HasCapability(outcome.key, Capability(request.operation, outcome.algorithm))

\* One caller at most is past the SignFunc's flag.
CallersOK ==
    /\ \A g \in Goroutines : callPC[g] \in {"signing", "returned"} =>
            /\ used /\ opPC = "decided"
            /\ request.operation = "sign" /\ outcome.kind = "key"
    /\ \A g, h \in Goroutines :
            callPC[g] \in {"signing", "returned"} /\ callPC[h] \in {"signing", "returned"}
                => g = h

\* A signature is by a caller that returned, with what was chosen.
SignaturesOK ==
    \A s \in signatures :
        /\ callPC[s.by] = "returned"
        /\ s = [by |-> s.by, key |-> outcome.key, algorithm |-> outcome.algorithm]
        /\ Performs(s.key.material, "sign", s.algorithm)

SelInv == TypeOK /\ SnapshotOK /\ OutcomeOK /\ CallersOK /\ SignaturesOK

-----------------------------------------------------------------------------
(* selectKey against its reference.                                        *)

\* Of the decisions one is right: the reference's.
LEMMA ReferenceIs ==
    ASSUME NEW K, IsFiniteSet(K), NEW selector, NEW operation,
           NEW A, NEW algorithms \in Seq(A), NEW t,
           NEW r, Decision(r, K, selector, operation, algorithms, t)
    PROVE  r = Reference(selector, operation, algorithms, K, t)
  <1> DEFINE able(a) == Able(K, selector, operation, a, t)
             first(x) == /\ able(x) # {}
                         /\ \E i \in DOMAIN algorithms :
                                /\ algorithms[i] = x
                                /\ \A j \in 1..(i - 1) : able(algorithms[j]) = {}
             a == CHOOSE x \in ToSet(algorithms) : first(x)
  <1>1. Reference(selector, operation, algorithms, K, t) =
            IF \A x \in ToSet(algorithms) : able(x) = {} THEN NoKey
            ELSE IF Cardinality(Best(able(a))) > 1 THEN Tie
            ELSE Chosen(CHOOSE k \in Best(able(a)) : TRUE, a)
    BY DEF Reference, Able, Best
  <1> HIDE DEF able
  <1>2. DOMAIN algorithms \subseteq Nat /\ DOMAIN algorithms = 1..Len(algorithms)
            /\ Len(algorithms) \in Nat
    OBVIOUS
  <1>3. CASE r = NoKey /\ \A i \in DOMAIN algorithms : able(algorithms[i]) = {}
    <2>1. \A x \in ToSet(algorithms) : able(x) = {}
      BY <1>3 DEF ToSet
    <2> QED
      BY <1>1, <1>3, <2>1
  <1>4. ASSUME NEW i \in DOMAIN algorithms, able(algorithms[i]) # {},
               \A j \in DOMAIN algorithms : j < i => able(algorithms[j]) = {},
               \/ r = Tie /\ \E x, y \in Best(able(algorithms[i])) : x # y
               \/ \E k : Best(able(algorithms[i])) = {k} /\ r = Chosen(k, algorithms[i])
        PROVE  r = Reference(selector, operation, algorithms, K, t)
    <2>1. ~(\A x \in ToSet(algorithms) : able(x) = {})
      BY <1>4 DEF ToSet
    <2>2. algorithms[i] \in ToSet(algorithms) /\ first(algorithms[i])
      <3>1. \A j \in 1..(i - 1) : j \in DOMAIN algorithms /\ j < i
        BY <1>2
      <3> QED
        BY <1>4, <3>1 DEF ToSet
    <2>3. ASSUME NEW x, first(x) PROVE x = algorithms[i]
      <3>1. PICK n \in DOMAIN algorithms :
                algorithms[n] = x /\ \A j \in 1..(n - 1) : able(algorithms[j]) = {}
        BY <2>3
      <3>2. n \in Nat /\ i \in Nat /\ n > 0 /\ i > 0
        BY <1>2
      <3>3. ~(n < i)
        BY <1>4, <2>3, <3>1
      <3>4. ~(i < n)
        <4>1. i < n => i \in 1..(n - 1)
          BY <3>2
        <4> QED
          BY <1>4, <3>1, <4>1
      <3> QED
        BY <3>1, <3>2, <3>3, <3>4
    <2>4. a = algorithms[i]
      <3> HIDE DEF first
      <3> QED
        BY <2>2, <2>3
    <2> HIDE DEF a
    <2>5. PICK B : B = Best(able(a))
      OBVIOUS
    <2>6. IsFiniteSet(B)
      BY <2>5, FS_Subset DEF Best, Able, able
    <2>7. CASE r = Tie /\ \E x, y \in B : x # y
      <3>1. PICK x \in B, y \in B : x # y
        BY <2>7
      <3>2. Cardinality({x, y}) = 2
        <4>1. /\ IsFiniteSet({x}) /\ Cardinality({x}) = 1
              /\ Cardinality({x} \cup {y}) = Cardinality({x}) + 1
          BY <3>1, FS_Singleton, FS_AddElement
        <4>2. {x, y} = {x} \cup {y}
          OBVIOUS
        <4> QED
          BY <4>1, <4>2
      <3>3. {x, y} \in SUBSET B
        BY <3>1
      <3>4. Cardinality({x, y}) <= Cardinality(B) /\ Cardinality(B) \in Nat
        BY <2>6, <3>3, FS_Subset, FS_CardinalityType
      <3>5. Cardinality(B) > 1
        BY <3>2, <3>4
      <3> QED
        BY <1>1, <2>1, <2>5, <2>7, <3>5
    <2>8. ASSUME NEW k, B = {k}, r = Chosen(k, algorithms[i])
          PROVE  r = Reference(selector, operation, algorithms, K, t)
      <3>1. ~(Cardinality(B) > 1)
        <4>1. Cardinality({k}) = 1
          BY FS_Singleton
        <4>2. Cardinality(B) = 1
          BY <2>8, <4>1
        <4> QED
          BY <4>2
      <3>2. (CHOOSE x \in B : TRUE) = k
        BY <2>8
      <3> QED
        BY <1>1, <2>1, <2>4, <2>5, <2>8, <3>1, <3>2
    <2> QED
      BY <1>4, <2>4, <2>5, <2>7, <2>8
  <1> QED
    BY <1>3, <1>4 DEF Decision, able

-----------------------------------------------------------------------------
(* The data.                                                               *)

\* Two lists without a common element are one list without repetition
\* (Replace).
LEMMA ConcatInjective ==
    ASSUME NEW S, NEW s \in Seq(S), NEW u \in Seq(S), IsInjective(s), IsInjective(u),
           ToSet(s) \cap ToSet(u) = {}
    PROVE  s \o u \in Seq(S) /\ IsInjective(s \o u)
  <1> DEFINE c == s \o u
  <1>1. PICK m \in Nat, n \in Nat : m = Len(s) /\ n = Len(u)
    OBVIOUS
  <1>2. /\ c \in Seq(S) /\ DOMAIN c = 1..(m + n)
        /\ DOMAIN s = 1..m /\ DOMAIN u = 1..n
        /\ \A i \in 1..(m + n) : c[i] = IF i <= m THEN s[i] ELSE u[i - m]
    BY <1>1
  <1>3. \A i \in 1..m : c[i] = s[i] /\ s[i] \in ToSet(s)
    BY <1>2 DEF ToSet
  <1>4. \A i \in (m + 1)..(m + n) :
            i - m \in 1..n /\ c[i] = u[i - m] /\ u[i - m] \in ToSet(u)
    <2>1. \A i \in (m + 1)..(m + n) : i - m \in 1..n /\ c[i] = u[i - m]
      BY <1>2
    <2> QED
      BY <1>2, <2>1 DEF ToSet
  <1>5. ASSUME NEW i \in DOMAIN c, NEW j \in DOMAIN c, c[i] = c[j]
        PROVE  i = j
    <2> HIDE DEF c
    <2>1. i \in 1..m \/ i \in (m + 1)..(m + n)
      BY <1>2
    <2>2. j \in 1..m \/ j \in (m + 1)..(m + n)
      BY <1>2
    <2>3. CASE i \in 1..m /\ j \in 1..m
      BY <1>2, <1>3, <1>5, <2>3 DEF IsInjective
    <2>4. CASE i \in (m + 1)..(m + n) /\ j \in (m + 1)..(m + n)
      <3>1. i - m = j - m
        BY <1>2, <1>4, <1>5, <2>4 DEF IsInjective
      <3> QED
        BY <2>4, <3>1
    <2>5. CASE i \in 1..m /\ j \in (m + 1)..(m + n)
      BY <1>3, <1>4, <1>5, <2>5
    <2>6. CASE i \in (m + 1)..(m + n) /\ j \in 1..m
      BY <1>3, <1>4, <1>5, <2>6
    <2> QED
      BY <2>1, <2>2, <2>3, <2>4, <2>5, <2>6
  <1> QED
    BY <1>2, <1>5 DEF IsInjective

\* What the catalogue holds, and that deliveries and requests are of it.
LEMMA CatalogFacts ==
    /\ \A k \in Catalog : HasBackend(k.material) /\ k.status \in Statuses
                            /\ k.priority \in Int
    /\ \A d \in Deliveries : /\ d.keys \in Seq(Catalog) /\ IsInjective(d.keys)
                             /\ \A k \in ToSet(d.keys) : k.source = d.source
    /\ \A q \in Requests : q.algorithms \in Seq(STRING)
  BY KeySelectionAssumption

\* The key that a decision names is one of the candidates, and able.
LEMMA DecisionIsAble ==
    ASSUME NEW r, NEW K, NEW selector, NEW operation, NEW algorithms, NEW t,
           Decision(r, K, selector, operation, algorithms, t)
    PROVE  \/ r = NoKey
           \/ r = Tie
           \/ \E k, a : /\ k \in K /\ r = Chosen(k, a)
                        /\ HasCapability(k, Capability(operation, a))
  <1>1. ASSUME NEW i, NEW k,
               Best(Able(K, selector, operation, algorithms[i], t)) = {k}
        PROVE  /\ k \in K
               /\ HasCapability(k, Capability(operation, algorithms[i]))
    <2>1. k \in Able(K, selector, operation, algorithms[i], t)
      BY <1>1 DEF Best
    <2> QED
      BY <2>1 DEF Able, Eligible
  <1> QED
    BY <1>1 DEF Decision

\* What selectKey returns for a list of keys of the catalogue.
LEMMA SelectKeyReturns ==
    ASSUME NEW found \in Seq(Catalog), IsInjective(found), NEW q \in Requests, NEW t,
           NEW r, r = SelectKey(q.selector, q.operation, q.algorithms, found, t)
    PROVE  /\ Decision(r, ToSet(found), q.selector, q.operation, q.algorithms, t)
           /\ r \in Outcomes
           /\ r.kind = "key" =>
                /\ r.key \in Catalog
                /\ HasCapability(r.key, Capability(q.operation, r.algorithm))
  <1>1. Decision(r, ToSet(found), q.selector, q.operation, q.algorithms, t)
    <2>1. q.algorithms \in Seq(STRING) /\ \A k \in Catalog : k.priority \in Int
      BY CatalogFacts
    <2> QED
      BY <2>1, SelectKeyIs
  <1>2. ToSet(found) \subseteq Catalog
    BY DEF ToSet
  <1>3. CASE r = NoKey \/ r = Tie
    BY <1>1, <1>3 DEF Outcomes, NoKey, Tie
  <1>4. ASSUME NEW k \in ToSet(found), NEW a, r = Chosen(k, a),
               HasCapability(k, Capability(q.operation, a))
        PROVE  /\ r \in Outcomes
               /\ r.key \in Catalog
               /\ HasCapability(r.key, Capability(q.operation, r.algorithm))
    <2>1. k \in Catalog /\ HasBackend(k.material)
      BY <1>2, CatalogFacts
    <2>2. a \in Algorithms
      BY <1>4, <2>1, CapabilityFacts DEF HasCapability
    <2>3. r.key = k /\ r.algorithm = a
      BY <1>4 DEF Chosen
    <2> QED
      BY <1>4, <2>1, <2>2, <2>3 DEF Outcomes
  <1> QED
    BY <1>1, <1>3, <1>4, DecisionIsAble

-----------------------------------------------------------------------------
(* The invariant, action by action.                                        *)

\* A key store without an operation satisfies it.
LEMMA SelInit == Init => SelInv
  <1> SUFFICES ASSUME Init PROVE SelInv
    OBVIOUS
  <1>1. TypeOK
    <2>1. /\ repository \in Seq(Catalog) /\ IsInjective(repository)
          /\ candidates \in Seq(Catalog)
      BY DEF Init, IsInjective
    <2>2. now \in 1..MaxTime
      BY KeySelectionAssumption DEF Init
    <2>3. callPC \in [Goroutines -> {"idle", "signing", "returned", "refused"}]
      BY DEF Init
    <2>4. outcome \in Outcomes
      BY DEF Init, Outcomes
    <2> QED
      BY <2>1, <2>2, <2>3, <2>4 DEF Init, TypeOK
  <1>2. SnapshotOK /\ OutcomeOK
    BY DEF Init, SnapshotOK, OutcomeOK, NoKey
  <1>3. CallersOK /\ SignaturesOK
    BY DEF Init, CallersOK, SignaturesOK
  <1> QED
    BY <1>1, <1>2, <1>3 DEF SelInv

\* Find returns a part of the repository.
LEMMA FindKeeps ==
    ASSUME SelInv, NEW q \in Requests, Find(q)
    PROVE  SelInv'
  <1> USE DEF SelInv
  <1>1. PICK s, T, c :
            /\ s \in Seq(Catalog) /\ s = repository /\ IsInjective(s)
            /\ T = Matching(repository, q.selector) /\ c = Keep(s, T) /\ candidates' = c
    BY DEF TypeOK, Find
  <1>2. Keeps(c, Catalog, s, T)
    BY <1>1, KeepIs
  <1>3. candidates' \in Seq(Catalog) /\ IsInjective(candidates')
    BY <1>1, <1>2 DEF Keeps
  <1>4. TypeOK'
    BY <1>3 DEF TypeOK, Find, signVars
  <1>5. SnapshotOK' /\ OutcomeOK'
    BY <1>3 DEF SnapshotOK, OutcomeOK, Find
  <1>6. CallersOK' /\ SignaturesOK'
    BY DEF CallersOK, SignaturesOK, Find, signVars, TypeOK
  <1> QED
    BY <1>4, <1>5, <1>6

\* Decide chooses a key that is able.
LEMMA DecideKeeps ==
    ASSUME SelInv, Decide
    PROVE  SelInv'
  <1> USE DEF SelInv
  <1>1. PICK q, f, t, r :
            /\ q \in Requests /\ f \in Seq(Catalog)
            /\ q = request /\ f = candidates /\ t = now /\ IsInjective(f)
            /\ r = SelectKey(q.selector, q.operation, q.algorithms, f, t)
            /\ outcome' = r
    BY DEF Decide, SnapshotOK, TypeOK
  <1>2. /\ r \in Outcomes
        /\ r.kind = "key" =>
             /\ r.key \in Catalog
             /\ HasCapability(r.key, Capability(q.operation, r.algorithm))
    BY <1>1, SelectKeyReturns
  <1>3. TypeOK'
    BY <1>1, <1>2 DEF TypeOK, Decide, signVars
  <1>4. SnapshotOK' /\ OutcomeOK'
    BY <1>1, <1>2 DEF SnapshotOK, OutcomeOK, Decide
  <1>5. \A g \in Goroutines : callPC[g] \notin {"signing", "returned"}
    BY DEF CallersOK, Decide
  <1>6. signatures = {}
    BY <1>5 DEF SignaturesOK, TypeOK
  <1>7. CallersOK' /\ SignaturesOK'
    BY <1>5, <1>6 DEF CallersOK, SignaturesOK, Decide, signVars
  <1> QED
    BY <1>3, <1>4, <1>7

\* An operation that is not a signature, or has no key, returns.
LEMMA PerformKeeps ==
    ASSUME SelInv, Perform
    PROVE  SelInv'
  <1> USE DEF SelInv
  <1>1. TypeOK'
    <2>1. result' \in {"none", "ok", "error"}
      BY DEF Perform
    <2> QED
      BY <2>1 DEF TypeOK, Perform, signVars
  <1>2. SnapshotOK' /\ OutcomeOK'
    BY DEF SnapshotOK, OutcomeOK, Perform
  <1>3. \A g \in Goroutines : callPC[g] \notin {"signing", "returned"}
    BY DEF CallersOK, Perform
  <1>4. signatures = {}
    BY <1>3 DEF SignaturesOK, TypeOK
  <1>5. CallersOK' /\ SignaturesOK'
    BY <1>3, <1>4 DEF CallersOK, SignaturesOK, Perform, signVars
  <1> QED
    BY <1>1, <1>2, <1>5

\* The first caller of a SignFunc passes, the others are turned away.
LEMMA SignEnterKeeps ==
    ASSUME SelInv, NEW g \in Goroutines, SignEnter(g) \/ SignRefused(g)
    PROVE  SelInv'
  <1> USE DEF SelInv
  <1>1. /\ callPC \in [Goroutines -> {"idle", "signing", "returned", "refused"}]
        /\ callPC[g] = "idle" /\ opPC = "decided"
        /\ request.operation = "sign" /\ outcome.kind = "key"
        /\ UNCHANGED <<repository, now, opVars, signatures>>
    BY DEF SignEnter, SignRefused, TypeOK
  <1>2. /\ callPC' \in [Goroutines -> {"idle", "signing", "returned", "refused"}]
        /\ \A h \in Goroutines : h # g => callPC'[h] = callPC[h]
    BY <1>1 DEF SignEnter, SignRefused
  <1>3. \/ ~used /\ used' = TRUE /\ callPC'[g] = "signing"
        \/ used' = used /\ callPC'[g] = "refused"
    BY <1>1 DEF SignEnter, SignRefused
  <1>4. TypeOK'
    BY <1>1, <1>2, <1>3 DEF TypeOK, opVars
  <1>5. SnapshotOK' /\ OutcomeOK'
    BY <1>1 DEF SnapshotOK, OutcomeOK, opVars
  <1>6. CallersOK'
    <2>1. CASE ~used /\ used' = TRUE /\ callPC'[g] = "signing"
      <3>1. \A h \in Goroutines : callPC[h] \notin {"signing", "returned"}
        BY <2>1 DEF CallersOK
      <3>2. \A h \in Goroutines : callPC'[h] \in {"signing", "returned"} => h = g
        BY <1>2, <3>1
      <3> QED
        BY <1>1, <2>1, <3>2 DEF CallersOK, opVars
    <2>2. CASE used' = used /\ callPC'[g] = "refused"
      <3>1. \A h \in Goroutines : callPC'[h] \in {"signing", "returned"} =>
                callPC[h] \in {"signing", "returned"}
        BY <1>2, <2>2
      <3> QED
        BY <1>1, <2>2, <3>1 DEF CallersOK, opVars
    <2> QED
      BY <1>3, <2>1, <2>2
  <1>7. SignaturesOK'
    BY <1>1, <1>2 DEF SignaturesOK, TypeOK, opVars
  <1> QED
    BY <1>4, <1>5, <1>6, <1>7

\* The caller that passed makes the one signature.
LEMMA SignFinishKeeps ==
    ASSUME SelInv, NEW g \in Goroutines, SignFinish(g)
    PROVE  SelInv'
  <1> USE DEF SelInv
  <1>1. /\ callPC \in [Goroutines -> {"idle", "signing", "returned", "refused"}]
        /\ callPC[g] = "signing"
        /\ opPC = "decided" /\ request.operation = "sign" /\ outcome.kind = "key"
        /\ UNCHANGED <<repository, now, opVars>>
    BY DEF SignFinish, TypeOK, CallersOK
  <1>2. /\ callPC' \in [Goroutines -> {"idle", "signing", "returned", "refused"}]
        /\ \A h \in Goroutines : h # g => callPC'[h] = callPC[h]
        /\ callPC'[g] = "returned" /\ used' = TRUE
    BY <1>1 DEF SignFinish
  <1>3. outcome.key \in Catalog /\ outcome.algorithm \in Algorithms
    <2>1. PICK k \in Catalog, a \in Algorithms : outcome = Chosen(k, a)
      BY <1>1 DEF TypeOK, Outcomes, NoKey, Tie
    <2> QED
      BY <2>1 DEF Chosen
  <1>4. signatures = {}
    <2>1. \A h \in Goroutines : callPC[h] = "returned" => h = g
      BY <1>1 DEF CallersOK
    <2> QED
      BY <1>1, <2>1 DEF SignaturesOK, TypeOK
  <1> DEFINE new == [by |-> g, key |-> outcome.key, algorithm |-> outcome.algorithm]
  <1>5. \/ signatures' = {}
        \/ signatures' = {new} /\ Performs(outcome.key.material, "sign", outcome.algorithm)
    BY <1>4 DEF SignFinish
  <1>6. TypeOK'
    <2>1. new \in [by : Goroutines, key : Catalog, algorithm : Algorithms]
      BY <1>3
    <2> QED
      BY <1>1, <1>2, <1>5, <2>1 DEF TypeOK, opVars
  <1>7. SnapshotOK' /\ OutcomeOK'
    BY <1>1 DEF SnapshotOK, OutcomeOK, opVars
  <1>8. CallersOK'
    <2>1. \A h \in Goroutines : callPC'[h] \in {"signing", "returned"} => h = g
      BY <1>1, <1>2 DEF CallersOK
    <2> QED
      BY <1>1, <1>2, <2>1 DEF CallersOK, opVars
  <1>9. SignaturesOK'
    BY <1>1, <1>2, <1>5 DEF SignaturesOK, opVars
  <1> QED
    BY <1>6, <1>7, <1>8, <1>9

\* Replace leaves no key of the source behind, so none is there twice.
LEMMA ReplaceKeeps ==
    ASSUME SelInv, NEW d \in Deliveries, Replace(d)
    PROVE  SelInv'
  <1> USE DEF SelInv
  <1>1. PICK s, T, c :
            /\ s \in Seq(Catalog) /\ s = repository /\ IsInjective(s)
            /\ T = ToSet(repository) \ Matching(repository, {WithSource(d.source)})
            /\ c = Keep(s, T) /\ repository' = c \o d.keys
    BY DEF TypeOK, Replace
  <1>2. Keeps(c, Catalog, s, T)
    BY <1>1, KeepIs
  <1>3. c \in Seq(Catalog) /\ IsInjective(c) /\ ToSet(c) \subseteq T
    BY <1>1, <1>2 DEF Keeps
  <1>4. \A k \in T : k.source # d.source
    BY <1>1 DEF Matching, Matches, WithSource
  <1>5. /\ d.keys \in Seq(Catalog) /\ IsInjective(d.keys)
        /\ \A k \in ToSet(d.keys) : k.source = d.source
    BY CatalogFacts
  <1>6. ToSet(c) \cap ToSet(d.keys) = {}
    BY <1>3, <1>4, <1>5
  <1>7. repository' \in Seq(Catalog) /\ IsInjective(repository')
    BY <1>1, <1>3, <1>5, <1>6, ConcatInjective
  <1>8. TypeOK'
    BY <1>7 DEF TypeOK, Replace, opVars, signVars
  <1>9. SnapshotOK' /\ OutcomeOK' /\ CallersOK' /\ SignaturesOK'
    BY DEF SnapshotOK, OutcomeOK, CallersOK, SignaturesOK, Replace, opVars, signVars
  <1> QED
    BY <1>8, <1>9

\* SelInv is inductive: every action of the store and of its callers keeps it.
LEMMA SelNext == SelInv /\ [Next]_vars => SelInv'
  <1> SUFFICES ASSUME SelInv, [Next]_vars PROVE SelInv'
    OBVIOUS
  <1>1. ASSUME NEW q \in Requests, Find(q) PROVE SelInv'
    BY <1>1, FindKeeps
  <1>2. CASE Decide
    BY <1>2, DecideKeeps
  <1>3. CASE Perform
    BY <1>3, PerformKeeps
  <1>4. ASSUME NEW g \in Goroutines, SignEnter(g) \/ SignRefused(g) PROVE SelInv'
    BY <1>4, SignEnterKeeps
  <1>5. ASSUME NEW g \in Goroutines, SignFinish(g) PROVE SelInv'
    BY <1>5, SignFinishKeeps
  <1>6. ASSUME NEW d \in Deliveries, Replace(d) PROVE SelInv'
    BY <1>6, ReplaceKeeps
  <1>7. CASE Tick
    <2>1. now' \in 1..MaxTime
      BY <1>7, KeySelectionAssumption DEF Tick, SelInv, TypeOK
    <2>2. TypeOK'
      BY <1>7, <2>1 DEF Tick, SelInv, TypeOK, opVars, signVars
    <2> QED
      BY <1>7, <2>2 DEF Tick, SelInv, SnapshotOK, OutcomeOK, CallersOK, SignaturesOK,
         opVars, signVars
  <1>8. CASE UNCHANGED vars
    <2>1. TypeOK'
      BY <1>8 DEF SelInv, TypeOK, vars, opVars, signVars
    <2> QED
      BY <1>8, <2>1 DEF SelInv, SnapshotOK, OutcomeOK, CallersOK, SignaturesOK,
         vars, opVars, signVars
  <1> QED
    BY <1>1, <1>2, <1>3, <1>4, <1>5, <1>6, <1>7, <1>8 DEF Next

-----------------------------------------------------------------------------
(* The theorems.                                                           *)

\* The invariant holds of every behaviour, for any keys, requests and callers
\* (Find, selectKey, Signer and Replace, interleaved).
THEOREM Invariance == Spec => []SelInv
  BY SelInit, SelNext, PTL DEF Spec

\* Every variable keeps its type, and no interleaving of deliveries leaves a
\* key in the repository twice (keySet.Replace).
THEOREM TypeCorrect == Spec => []TypeOK
  <1>1. SelInv => TypeOK
    BY DEF SelInv
  <1> QED
    BY Invariance, <1>1, PTL

\* However many goroutines share a SignFunc, it makes one signature at most
\* (the CompareAndSwap in Signer).
THEOREM OneSignaturePerSignerHolds == Spec => []OneSignaturePerSigner
  <1>1. ASSUME SelInv PROVE OneSignaturePerSigner
    <2>1. PICK S : S = signatures
      OBVIOUS
    <2>2. \A r, s \in S : r = s
      <3> SUFFICES ASSUME NEW r \in S, NEW s \in S PROVE r = s
        OBVIOUS
      <3>1. r.by \in Goroutines /\ s.by \in Goroutines
        BY <1>1, <2>1 DEF SelInv, TypeOK
      <3>2. r.by = s.by
        BY <1>1, <2>1, <3>1 DEF SelInv, SignaturesOK, CallersOK
      <3> QED
        BY <1>1, <2>1, <3>2 DEF SelInv, SignaturesOK
    <2>3. Cardinality(S) <= 1
      <3>1. CASE S = {}
        <4>1. Cardinality(S) = 0
          BY <3>1, FS_EmptySet
        <4> QED
          BY <4>1
      <3>2. CASE S # {}
        <4>1. PICK s : S = {s}
          BY <2>2, <3>2
        <4>2. Cardinality({s}) = 1
          BY FS_Singleton
        <4>3. Cardinality(S) = 1
          BY <4>1, <4>2
        <4> QED
          BY <4>3
      <3> QED
        BY <3>1, <3>2
    <2> QED
      BY <2>1, <2>3 DEF OneSignaturePerSigner
  <1> QED
    BY Invariance, <1>1, PTL

\* What is chosen has a method in its backend, and a default build neither
\* chooses nor performs an unsafe algorithm (selectKey against the tables of
\* capabilities and the with_unsafe_crypto gate).
THEOREM ChosenImplementsHolds == Spec => []ChosenImplements
  <1>1. ASSUME SelInv PROVE ChosenImplements
    <2>1. ASSUME outcome.kind = "key"
          PROVE  /\ request.operation \in Implements(outcome.key.material)
                 /\ ~UnsafeCrypto => outcome.algorithm \notin UnsafeAlgorithms
      <3>1. PICK k, o, a :
                /\ k \in Catalog /\ k = outcome.key
                /\ o = request.operation /\ a = outcome.algorithm
                /\ HasCapability(k, Capability(o, a))
        BY <1>1, <2>1 DEF SelInv, OutcomeOK
      <3>2. HasBackend(k.material) /\ Capability(o, a) \in Capabilities(k.material)
        BY <3>1, CatalogFacts DEF HasCapability
      <3>3. o \in Implements(k.material) /\ (~UnsafeCrypto => a \notin UnsafeAlgorithms)
        BY <3>2, CapabilityFacts
      <3> QED
        BY <3>1, <3>3
    <2>2. ASSUME ~UnsafeCrypto, NEW k \in ToSet(repository), NEW o \in Operations,
                 NEW a \in UnsafeAlgorithms
          PROVE  ~Performs(k.material, o, a)
      <3>1. k \in Catalog
        BY <1>1 DEF SelInv, TypeOK, ToSet
      <3>2. HasBackend(k.material)
        BY <3>1, CatalogFacts
      <3> QED
        BY <2>2, <3>2, UnsafeRefused
    <2> QED
      BY <2>1, <2>2 DEF ChosenImplements
  <1> QED
    BY Invariance, <1>1, PTL

\* The one key that may verify is chosen, whatever else the store holds.
LEMMA VerifierChosen ==
    ASSUME NEW s \in Seq(Catalog), IsInjective(s), NEW k \in ToSet(s), NEW a, NEW t,
           \A j \in ToSet(s) : j.id = k.id => j = k,
           k.status # "disabled", ValidAt(k, t),
           HasCapability(k, Capability("verify", a))
    PROVE  SelectKey({WithID(k.id)}, "verify", <<a>>, s, t) = Chosen(k, a)
  <1> DEFINE sel == {WithID(k.id)}
  <1>1. PICK L, r : L = <<a>> /\ r = SelectKey(sel, "verify", L, s, t)
    OBVIOUS
  <1>2. L \in Seq({a}) /\ DOMAIN L = {1} /\ L[1] = a
    BY <1>1
  <1>3. Decision(r, ToSet(s), sel, "verify", L, t)
    <2>1. \A j \in Catalog : j.priority \in Int
      BY CatalogFacts
    <2> HIDE DEF sel
    <2> QED
      BY <1>1, <1>2, <2>1, SelectKeyIs
  <1>4. k \in Catalog /\ k.status \in Statuses /\ k.priority \in Int
    <2>1. k \in Catalog
      BY DEF ToSet
    <2> QED
      BY <2>1, CatalogFacts
  <1>5. \A j : Matches(sel \cup {WithoutStatus("disabled")}, j) <=>
                    j.id = k.id /\ j.status \in Statuses \ {"disabled"}
    BY DEF Matches, WithID, WithoutStatus
  <1>6. Able(ToSet(s), sel, "verify", a, t) = {k}
    <2>1. Eligible(k, sel, "verify", a, t)
      BY <1>4, <1>5 DEF Eligible
    <2>2. \A j \in ToSet(s) : Eligible(j, sel, "verify", a, t) => j = k
      BY <1>5 DEF Eligible
    <2> QED
      BY <2>1, <2>2 DEF Able
  <1>7. Best({k}) = {k}
    BY <1>4 DEF Best
  <1> HIDE DEF sel
  <1>8. r = Chosen(k, a)
    <2>1. \A i \in DOMAIN L : Able(ToSet(s), sel, "verify", L[i], t) = {k}
      BY <1>2, <1>6
    <2>2. 1 \in DOMAIN L /\ \A i \in DOMAIN L : L[i] = a
      BY <1>2
    <2> QED
      BY <1>3, <1>7, <2>1, <2>2 DEF Decision
  <1> QED
    BY <1>1, <1>8 DEF sel

\* As long as the store has the key, by its ID alone, valid, enabled and
\* unrestricted, Verify picks it and performs (Signer against Verify).
THEOREM SignedCanBeVerifiedHolds == Spec => []SignedCanBeVerified
  <1>1. ASSUME SelInv PROVE SignedCanBeVerified
    <2> SUFFICES ASSUME NEW s \in signatures, NEW k \in ToSet(repository),
                        k.id = s.key.id, k.material = s.key.material,
                        \A j \in ToSet(repository) : j.id = k.id => j = k,
                        k.status # "disabled", ValidAt(k, now), k.restrictions = {}
                 PROVE  /\ SelectKey({WithID(k.id)}, "verify", <<s.algorithm>>,
                                     repository, now) = Chosen(k, s.algorithm)
                        /\ Performs(k.material, "verify", s.algorithm)
      BY DEF SignedCanBeVerified
    <2>1. /\ s.by \in Goroutines /\ callPC[s.by] = "returned"
          /\ s.key = outcome.key /\ s.algorithm = outcome.algorithm
          /\ Performs(s.key.material, "sign", s.algorithm)
      BY <1>1 DEF SelInv, TypeOK, SignaturesOK
    <2>2. request.operation = "sign" /\ outcome.kind = "key"
      BY <1>1, <2>1 DEF SelInv, CallersOK
    <2>3. PICK c, a : /\ c \in Catalog /\ c = outcome.key /\ a = outcome.algorithm
                     /\ HasCapability(c, Capability("sign", a))
      BY <1>1, <2>2 DEF SelInv, OutcomeOK
    <2>4. /\ HasBackend(c.material) /\ c.material = k.material
          /\ Capability("sign", a) \in Capabilities(c.material)
      BY <2>1, <2>3, CatalogFacts DEF HasCapability
    <2>5. Capability("verify", a) \in Capabilities(k.material)
      BY <2>4, CapabilityFacts
    <2>6. HasCapability(k, Capability("verify", a))
      BY <2>5 DEF HasCapability
    <2>7. PICK r, t : r \in Seq(Catalog) /\ r = repository /\ IsInjective(r) /\ t = now
      BY <1>1 DEF SelInv, TypeOK
    <2>8. SelectKey({WithID(k.id)}, "verify", <<a>>, r, t) = Chosen(k, a)
      BY <2>6, <2>7, VerifierChosen
    <2>9. Performs(k.material, "verify", a)
      BY <2>1, <2>3, <2>4, SignsAndVerifies
    <2> QED
      BY <2>1, <2>3, <2>7, <2>8, <2>9
  <1> QED
    BY Invariance, <1>1, PTL

\* What SelectionCorrect says of one step.
SelectionStep ==
    opPC = "found" /\ opPC' = "decided" =>
        outcome' = Reference(request.selector, request.operation,
                             request.algorithms, ToSet(candidates), now)

\* selectKey returns what the reference says, whatever the order in which the
\* sources loaded the candidates, and a tie is always reported (selectKey).
THEOREM SelectionCorrectHolds == Spec => SelectionCorrect
  <1>1. ASSUME SelInv, [Next]_vars PROVE SelectionStep
    <2> SUFFICES ASSUME opPC = "found", opPC' = "decided"
                 PROVE  outcome' = Reference(request.selector, request.operation,
                                        request.algorithms, ToSet(candidates), now)
      BY DEF SelectionStep
    <2>1. Decide
      BY <1>1 DEF Next, Find, Perform, SignEnter, SignRefused, SignFinish, Replace, Tick,
         vars, opVars
    <2>2. PICK q, f, t, r :
            /\ q \in Requests /\ f \in Seq(Catalog)
            /\ q = request /\ f = candidates /\ t = now /\ IsInjective(f)
            /\ r = SelectKey(q.selector, q.operation, q.algorithms, f, t)
            /\ outcome' = r
      BY <1>1, <2>1 DEF Decide, SelInv, SnapshotOK, TypeOK
    <2>3. Decision(r, ToSet(f), q.selector, q.operation, q.algorithms, t)
      BY <2>2, SelectKeyReturns
    <2>4. IsFiniteSet(ToSet(f))
      <3> DEFINE g == [i \in DOMAIN f |-> f[i]]
      <3>1. DOMAIN f = 1..Len(f) /\ Len(f) \in Nat
        OBVIOUS
      <3>2. IsFiniteSet(DOMAIN f)
        BY <3>1, FS_Interval
      <3>3. g \in Surjection(DOMAIN f, ToSet(f))
        BY DEF Surjection, ToSet
      <3> QED
        BY <3>2, <3>3, FS_Surjection
    <2>5. q.algorithms \in Seq(STRING)
      BY <2>2, CatalogFacts
    <2>6. r = Reference(q.selector, q.operation, q.algorithms, ToSet(f), t)
      BY <2>3, <2>4, <2>5, ReferenceIs
    <2> QED
      BY <2>2, <2>6
  <1>2. SelectionCorrect <=> [][SelectionStep]_vars
    BY DEF SelectionCorrect, SelectionStep
  <1> QED
    BY Invariance, <1>1, <1>2, PTL DEF Spec
=============================================================================
