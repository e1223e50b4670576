------------------------------ MODULE KeyQuery ------------------------------
(***************************************************************************)
(* Selectors and the choice of a key (key/selector.go and selectKey in     *)
(* keystore/keystore_api.go), as operators on keys.  A key is a record     *)
(* with its attributes, its material and its restrictions.                 *)
(***************************************************************************)
EXTENDS Backends, SequencesExt

Statuses == {"", "active", "passive", "disabled"}

-----------------------------------------------------------------------------
(* Selectors: a set of options, each the values an attribute may have.     *)

WithSource(source)    == [attribute |-> "source", allowed |-> {source}]
WithID(id)            == [attribute |-> "id", allowed |-> {id}]
WithStatus(statuses)  == [attribute |-> "status", allowed |-> statuses]
WithoutStatus(status) == [attribute |-> "status", allowed |-> Statuses \ {status}]

Matches(selector, k) ==
    \A o \in selector : k[o.attribute] \in o.allowed

\* The keys of s that the selector matches.
Matching(s, selector) == {k \in ToSet(s) : Matches(selector, k)}

\* WithValidityAt: both bounds inclusive, 0 meaning unspecified.
ValidAt(k, t) ==
    /\ k.notBefore = 0 \/ t >= k.notBefore
    /\ k.notAfter = 0 \/ t <= k.notAfter

\* WithCapability: the backend's, narrowed by the key's restrictions if any.
HasCapability(k, c) ==
    /\ c \in Capabilities(k.material)
    /\ k.restrictions = {} \/ c \in k.restrictions

-----------------------------------------------------------------------------
(* selectKey.                                                              *)

\* Eligibility that treats all operations alike.
EligibleSame(k, selector, operation, algorithm, t) ==
    /\ Matches(selector \cup {WithoutStatus("disabled"), WithoutStatus("passive")}, k)
    /\ ValidAt(k, t)
    /\ HasCapability(k, Capability(operation, algorithm))

Eligible(k, selector, operation, algorithm, t) ==
    /\ Matches(selector \cup {WithoutStatus("disabled")}, k)
    /\ operation \in {"sign", "encrypt"} => Matches({WithoutStatus("passive")}, k)
    /\ ValidAt(k, t)
    /\ HasCapability(k, Capability(operation, algorithm))

\* The elements of s at the places I, in the order R: each stands where the
\* number of places before its own puts it.
Arrange(s, I, R) ==
    [p \in 1..Cardinality(I) |->
        s[CHOOSE i \in I : Cardinality({j \in I : <<j, i>> \in R}) = p - 1]]

\* The loops that append every candidate that matches: the elements of s that
\* are in T, in their order.
Keep(s, T) ==
    Arrange(s, {i \in DOMAIN s : s[i] \in T},
            {x \in (DOMAIN s) \X (DOMAIN s) : x[1] < x[2]})

\* sort.SliceStable by priority, highest first.
Precedes(s) ==
    {x \in (DOMAIN s) \X (DOMAIN s) :
        \/ s[x[1]].priority > s[x[2]].priority
        \/ s[x[1]].priority = s[x[2]].priority /\ x[1] < x[2]}

Sorted(s) == Arrange(s, DOMAIN s, Precedes(s))

Chosen(k, a) == [kind |-> "key", key |-> k, algorithm |-> a]
NoKey        == [kind |-> "none"]
Tie          == [kind |-> "tie"]

\* The candidates that can serve an algorithm, highest priority first.
Eligibles(selector, operation, algorithm, found, t) ==
    Keep(Sorted(found),
         {k \in ToSet(found) : Eligible(k, selector, operation, algorithm, t)})

\* The first match of the first algorithm that has one, ties or not.
SelectFirst(selector, operation, algorithms, found, t) ==
    LET matches(i) == Eligibles(selector, operation, algorithms[i], found, t)
        served == {i \in DOMAIN algorithms : matches(i) # <<>>}
        first == Min(served)
    IN  IF served = {} THEN NoKey ELSE Chosen(matches(first)[1], algorithms[first])

\* The algorithms in order of preference; for the first that any candidate can
\* serve, the one of highest priority, or an error if two share it.
SelectKey(selector, operation, algorithms, found, t) ==
    LET matches(i) == Eligibles(selector, operation, algorithms[i], found, t)
        served == {i \in DOMAIN algorithms : matches(i) # <<>>}
        first == Min(served)
        m == matches(first)
    IN  IF served = {} THEN NoKey
        ELSE IF Len(m) > 1 /\ m[1].priority = m[2].priority THEN Tie
        ELSE Chosen(m[1], algorithms[first])
=============================================================================
