------------------------- MODULE PublicationProofs --------------------------
(***************************************************************************)
(* What a relying party holds of an issuer's keys, for any generations of  *)
(* keys, any selector and export policy and any options of the calls.      *)
(*                                                                         *)
(* PubInv follows one set of keys from the moment the endpoint's handler   *)
(* found it: what is found is what one generation publishes, what is sent  *)
(* whole with a good status is the encoding of all of it, and what the     *)
(* relying party holds is what that encoding decodes to.                   *)
(*                                                                         *)
(* What is signed and what is accepted rests on QueryIs: the options fold  *)
(* into a query in which the last word on each field counts.               *)
(***************************************************************************)
EXTENDS Publication, OperatorProofs

\* r is the encoding of all that generation g publishes, and there is some.
Carries(r, g) == EncodableSet(Published(g)) /\ r = EncodeAll(Published(g))

FoundOK ==
    pc = "found" => \E g \in DOMAIN Generations : snapshot = Published(g)

RepliedOK ==
    response.status \in 200..299 /\ response.whole =>
        \E g \in DOMAIN Generations : Carries(response.keys, g)

HeldOK ==
    partner # <<>> =>
        \E g \in DOMAIN Generations :
            LET r == EncodeAll(Published(g))
            IN  /\ Carries(r, g)
                /\ \A i \in DOMAIN r : Decodable(r[i])
                /\ partner = Candidates(r)

PubInv == gen \in DOMAIN Generations /\ FoundOK /\ RepliedOK /\ HeldOK

-----------------------------------------------------------------------------
(* Options.                                                                *)

\* The places among u where the options s speak of the algorithm or of the keys.
Said(s, u, kind) == {i \in u : s[i].kind = kind}

\* Options of the keystore: those of the signer and verifier end up as such.
StoreOptions(s) == \A i \in DOMAIN s : s[i].kind \in {"alg", "keys"}

\* What the options at the places u ask for: the last word on each.
Asked(s, u) ==
    [keys       |-> IF Said(s, u, "keys") = {} THEN {}
                    ELSE s[Max(Said(s, u, "keys"))].selector,
     algorithms |-> IF Said(s, u, "alg") = {} THEN <<>>
                    ELSE <<s[Max(Said(s, u, "alg"))].algorithm>>]

\* The last of the options overrides what the others ask for, in its field.
LEMMA AskedStep ==
    ASSUME NEW n \in Nat, NEW s, DOMAIN s = 1..n, StoreOptions(s),
           NEW u, u \subseteq 1..n, u # {}, NEW x, x = Max(u)
    PROVE  Asked(s, u) = Apply(Asked(s, u \ {x}), s[x])
  <1>1. x \in u /\ \A y \in u : y <= x
    BY GreatestIs
  <1>2. ASSUME NEW kind, s[x].kind # kind
        PROVE  Said(s, u, kind) = Said(s, u \ {x}, kind)
    BY <1>2 DEF Said
  <1>3. ASSUME NEW kind, s[x].kind = kind
        PROVE  Said(s, u, kind) # {} /\ Max(Said(s, u, kind)) = x
    <2>1. PICK T : T = Said(s, u, kind)
      OBVIOUS
    <2>2. T \subseteq 1..n /\ x \in T /\ \A y \in T : y <= x
      BY <1>1, <1>3, <2>1 DEF Said
    <2> QED
      BY <2>1, <2>2, GreatestUnique
  <1>4. CASE s[x].kind = "alg"
    <2>1. /\ Asked(s, u).algorithms = <<s[x].algorithm>>
          /\ Asked(s, u).keys = Asked(s, u \ {x}).keys
      BY <1>2, <1>3, <1>4 DEF Asked
    <2> QED
      BY <1>4, <2>1 DEF Apply, Asked
  <1>5. CASE s[x].kind = "keys"
    <2>1. /\ Asked(s, u).keys = s[x].selector
          /\ Asked(s, u).algorithms = Asked(s, u \ {x}).algorithms
      BY <1>2, <1>3, <1>5 DEF Asked
    <2> QED
      BY <1>5, <2>1 DEF Apply, Asked
  <1> QED
    BY <1>1, <1>4, <1>5 DEF StoreOptions

\* f is a result of the fold's recursion for the options s.
Folds(f, s) ==
    f = [u \in SUBSET (DOMAIN s) |->
            IF u = {} THEN EmptyQuery ELSE Apply(f[u \ {Max(u)}], s[Max(u)])]

\* The recursion has a result, and the fold is one.
LEMMA FoldIs ==
    ASSUME NEW n \in Nat, NEW s, DOMAIN s = 1..n, StoreOptions(s)
    PROVE  \E f : Folds(f, s) /\ FoldLeft(Apply, EmptyQuery, s) = f[DOMAIN s]
  <1> DEFINE f == CHOOSE f :
                    f = [u \in SUBSET (DOMAIN s) |->
                            IF u = {} THEN EmptyQuery
                            ELSE Apply(f[u \ {Max(u)}], s[Max(u)])]
             g == [u \in SUBSET (DOMAIN s) |-> Asked(s, u)]
  <1>1. ASSUME NEW u \in SUBSET (DOMAIN s)
        PROVE  g[u] = IF u = {} THEN EmptyQuery
                      ELSE Apply(g[u \ {Max(u)}], s[Max(u)])
    <2>1. CASE u = {}
      BY <2>1 DEF Asked, Said, EmptyQuery
    <2>2. CASE u # {}
      <3>1. PICK x : x = Max(u)
        OBVIOUS
      <3>2. Asked(s, u) = Apply(Asked(s, u \ {x}), s[x])
        BY <2>2, <3>1, AskedStep
      <3>3. g[u] = Asked(s, u) /\ g[u \ {x}] = Asked(s, u \ {x})
        OBVIOUS
      <3> QED
        BY <2>2, <3>1, <3>2, <3>3
    <2> QED
      BY <2>1, <2>2
  <1>2. Folds(g, s)
    <2>1. g = [u \in SUBSET (DOMAIN s) |-> g[u]]
      OBVIOUS
    <2> HIDE DEF g
    <2> QED
      BY <1>1, <2>1 DEF Folds
  <1>3. FoldLeft(Apply, EmptyQuery, s) = f[DOMAIN s]
    BY DEF FoldLeft, MapThenFoldSet
  <1>4. Folds(f, s)
    <2> HIDE DEF g
    <2> QED
      BY <1>2 DEF Folds
  <1> QED
    BY <1>3, <1>4

\* The query is what the options ask for, the last word on each counting (the
\* loops over options at the top of Signer and Verify).
LEMMA QueryIs ==
    ASSUME NEW S, NEW s \in Seq(S), StoreOptions(s)
    PROVE  FoldLeft(Apply, EmptyQuery, s) = Asked(s, DOMAIN s)
  <1>1. PICK n \in Nat : DOMAIN s = 1..n
    <2>1. Len(s) \in Nat /\ DOMAIN s = 1..Len(s)
      OBVIOUS
    <2> QED
      BY <2>1
  <1>2. PICK f : Folds(f, s) /\ FoldLeft(Apply, EmptyQuery, s) = f[1..n]
    BY <1>1, FoldIs
  <1>3. /\ f[{}] = EmptyQuery
        /\ \A u \in SUBSET (1..n) :
                u # {} => f[u] = Apply(f[u \ {Max(u)}], s[Max(u)])
    BY <1>1, <1>2 DEF Folds
  <1> DEFINE Wrong == {k \in 0..n : f[1..k] # Asked(s, 1..k)}
  <1>4. Wrong = {}
    <2> SUFFICES ASSUME Wrong # {} PROVE FALSE
      OBVIOUS
    <2>1. PICK k : k = Min(Wrong)
      OBVIOUS
    <2>2. k \in Wrong /\ \A j \in Wrong : k <= j
      <3>1. Wrong \subseteq Nat
        OBVIOUS
      <3> HIDE DEF Wrong
      <3> QED
        BY <2>1, <3>1, LeastIs
    <2>3. k \in 0..n /\ f[1..k] # Asked(s, 1..k)
      BY <2>2
    <2>4. CASE k = 0
      <3>1. 1..k = {}
        BY <2>4
      <3>2. Asked(s, {}) = EmptyQuery
        BY DEF Asked, Said, EmptyQuery
      <3> QED
        BY <1>3, <2>3, <3>1, <3>2
    <2>5. CASE k # 0
      <3>1. k - 1 \in 0..n /\ k - 1 < k /\ k \in 1..k /\ 1..k \subseteq 1..n
        BY <2>3, <2>5
      <3>2. k - 1 \notin Wrong
        BY <2>2, <3>1
      <3>3. f[1..(k - 1)] = Asked(s, 1..(k - 1))
        BY <3>1, <3>2
      <3>4. Max(1..k) = k
        <4>1. \A y \in 1..k : y <= k
          OBVIOUS
        <4>2. PICK T : T = 1..k
          OBVIOUS
        <4> QED
          BY <3>1, <4>1, <4>2, GreatestUnique
      <3>5. (1..k) \ {k} = 1..(k - 1)
        BY <3>1
      <3>6. f[1..k] = Apply(f[1..(k - 1)], s[k])
        BY <1>3, <3>1, <3>4, <3>5
      <3>7. Asked(s, 1..k) = Apply(Asked(s, (1..k) \ {k}), s[k])
        <4>1. PICK T : T = 1..k
          OBVIOUS
        <4>2. T \subseteq 1..n /\ T # {} /\ k = Max(T)
          BY <3>1, <3>4, <4>1
        <4>3. Asked(s, T) = Apply(Asked(s, T \ {k}), s[k])
          BY <1>1, <4>2, AskedStep
        <4> QED
          BY <4>1, <4>3
      <3> QED
        BY <2>3, <3>3, <3>5, <3>6, <3>7
    <2> QED
      BY <2>4, <2>5
  <1>5. n \in 0..n /\ n \notin Wrong
    BY <1>4
  <1>6. f[1..n] = Asked(s, 1..n)
    BY <1>5
  <1> QED
    BY <1>1, <1>2, <1>6

\* c is a, of length m, followed by b, of length n.
Joined(c, a, b, m, n) ==
    /\ DOMAIN c = 1..(m + n)
    /\ \A i \in 1..(m + n) : c[i] = IF i <= m THEN a[i] ELSE b[i - m]

\* Where the elements of two lists stand in one after the other.
LEMMA ConcatAt ==
    ASSUME NEW S, NEW a \in Seq(S), NEW b \in Seq(S), NEW c, c = a \o b,
           NEW m \in Nat, NEW n \in Nat, m = Len(a), n = Len(b)
    PROVE  Joined(c, a, b, m, n)
  BY DEF Joined

\* Where the options b say something, c says it too and last.
HasLastWord(b, c) ==
    \A kind : Said(b, DOMAIN b, kind) # {} =>
        /\ Said(c, DOMAIN c, kind) # {}
        /\ c[Max(Said(c, DOMAIN c, kind))] = b[Max(Said(b, DOMAIN b, kind))]

\* Of two lists of options the second has the last word, if it has one
\* (slices.Concat of the configured options and the call's).
LEMMA LastWord ==
    ASSUME NEW S, NEW a \in Seq(S), NEW b \in Seq(S), NEW c, c = a \o b
    PROVE  HasLastWord(b, c)
  <1> SUFFICES ASSUME NEW kind, Said(b, DOMAIN b, kind) # {}
               PROVE  /\ Said(c, DOMAIN c, kind) # {}
                      /\ c[Max(Said(c, DOMAIN c, kind))]
                            = b[Max(Said(b, DOMAIN b, kind))]
    BY DEF HasLastWord
  <1>1. PICK m \in Nat, n \in Nat : m = Len(a) /\ n = Len(b)
    OBVIOUS
  <1>2. /\ DOMAIN c = 1..(m + n) /\ DOMAIN b = 1..n
        /\ \A i \in 1..n : m + i \in 1..(m + n) /\ c[m + i] = b[i]
    BY <1>1
  <1>3. PICK T, U : T = Said(b, DOMAIN b, kind) /\ U = Said(c, DOMAIN c, kind)
    OBVIOUS
  <1>4. T \subseteq 1..n /\ T # {} /\ U \subseteq 1..(m + n) /\ m + n \in Nat
    BY <1>2, <1>3 DEF Said
  <1>5. PICK x : x = Max(T)
    OBVIOUS
  <1>6. x \in T /\ \A y \in T : y <= x
    BY <1>4, <1>5, GreatestIs
  <1>7. m + x \in U
    BY <1>2, <1>3, <1>6 DEF Said
  <1>8. ASSUME NEW z \in U PROVE z <= m + x
    <2>1. z \in 1..(m + n) /\ x \in 1..n
      BY <1>4, <1>6
    <2>2. CASE z <= m
      BY <2>1, <2>2
    <2>3. CASE z > m
      <3>1. z - m \in 1..n /\ m + (z - m) = z
        BY <2>1, <2>3
      <3>2. c[z] = b[z - m]
        BY <1>2, <3>1
      <3>3. z - m \in T
        BY <1>2, <1>3, <3>1, <3>2 DEF Said
      <3>4. z - m <= x
        BY <1>6, <3>3
      <3> QED
        BY <2>1, <3>4
    <2> QED
      BY <2>1, <2>2, <2>3
  <1>9. Max(U) = m + x
    BY <1>4, <1>7, <1>8, GreatestUnique
  <1> QED
    BY <1>2, <1>3, <1>4, <1>5, <1>6, <1>7, <1>9

\* What an operation chooses is a key of the repository and what its options
\* ask for (Signer and Verify of the keystore).
LEMMA SelectIs ==
    ASSUME NEW S, \A k \in S : k.priority \in Int, NEW repository \in Seq(S),
           NEW O, NEW s \in Seq(O), StoreOptions(s), NEW operation,
           NEW r, r = Select(repository, operation, FoldLeft(Apply, EmptyQuery, s)),
           r.kind = "key"
    PROVE  /\ r.key \in ToSet(repository)
           /\ Said(s, DOMAIN s, "alg") # {}
           /\ r.algorithm = s[Max(Said(s, DOMAIN s, "alg"))].algorithm
           /\ Said(s, DOMAIN s, "keys") # {} =>
                Matches(s[Max(Said(s, DOMAIN s, "keys"))].selector, r.key)
  <1>1. PICK q : q = FoldLeft(Apply, EmptyQuery, s)
    OBVIOUS
  <1>2. q = Asked(s, DOMAIN s)
    BY <1>1, QueryIs
  <1>3. PICK found, T : /\ T = Matching(repository, q.keys)
                        /\ found = Keep(repository, T)
    OBVIOUS
  <1>4. Keeps(found, S, repository, T)
    BY <1>3, KeepIs
  <1>5. found \in Seq(S) /\ ToSet(found) \subseteq ToSet(repository)
    BY <1>4 DEF Keeps
  <1>6. /\ q.algorithms # <<>>
        /\ r = SelectKey(q.keys, operation, q.algorithms, found, 0)
    BY <1>1, <1>3 DEF Select, NoKey
  <1>7. PICK a : /\ Said(s, DOMAIN s, "alg") # {}
                 /\ a = s[Max(Said(s, DOMAIN s, "alg"))].algorithm
                 /\ q.algorithms = <<a>>
    BY <1>2, <1>6 DEF Asked
  <1>8. q.algorithms \in Seq({a}) /\ DOMAIN q.algorithms = {1} /\ q.algorithms[1] = a
    BY <1>7
  <1>9. PICK g, A, w : g = q.algorithms /\ A = {a} /\ w = q.keys
    OBVIOUS
  <1>10. \E k \in ToSet(found), i \in DOMAIN g :
            r = Chosen(k, g[i]) /\ Eligible(k, w, operation, g[i], 0)
    <2>1. g \in Seq(A) /\ r = SelectKey(w, operation, g, found, 0)
      BY <1>6, <1>8, <1>9
    <2> QED
      BY <1>5, <2>1, SelectKeyChooses
  <1>11. PICK k \in ToSet(found) :
            r = Chosen(k, a) /\ Eligible(k, q.keys, operation, a, 0)
    BY <1>8, <1>9, <1>10
  <1>12. r.key = k /\ r.algorithm = a
    BY <1>11 DEF Chosen
  <1>13. Matches(q.keys, k)
    BY <1>11 DEF Eligible, Matches
  <1>14. Said(s, DOMAIN s, "keys") # {} =>
            q.keys = s[Max(Said(s, DOMAIN s, "keys"))].selector
    BY <1>2 DEF Asked
  <1> QED
    BY <1>5, <1>7, <1>11, <1>12, <1>13, <1>14

\* A list followed by another is a list of what is in either.
LEMMA ConcatIs ==
    ASSUME NEW a, NEW b, a \in Seq(ToSet(a)), b \in Seq(ToSet(b))
    PROVE  a \o b \in Seq(ToSet(a) \cup ToSet(b)) /\ ToSet(a \o b) = ToSet(a) \cup ToSet(b)
  <1>1. PICK A, B, O : A = ToSet(a) /\ B = ToSet(b) /\ O = A \cup B
    OBVIOUS
  <1>2. a \in Seq(O) /\ b \in Seq(O)
    BY <1>1
  <1>3. PICK c, m, n : c = a \o b /\ m = Len(a) /\ n = Len(b)
    OBVIOUS
  <1>4. /\ c \in Seq(O) /\ m \in Nat /\ n \in Nat
        /\ DOMAIN c = 1..(m + n) /\ DOMAIN a = 1..m /\ DOMAIN b = 1..n
        /\ \A i \in 1..(m + n) : c[i] = IF i <= m THEN a[i] ELSE b[i - m]
    BY <1>2, <1>3
  <1>5. \A i \in 1..m : i \in 1..(m + n) /\ c[i] = a[i]
    BY <1>4
  <1>6. \A i \in 1..n : m + i \in 1..(m + n) /\ c[m + i] = b[i]
    BY <1>4
  <1>7. A \subseteq ToSet(c) /\ B \subseteq ToSet(c)
    <2>1. \A i \in DOMAIN a : a[i] \in ToSet(c)
      BY <1>4, <1>5 DEF ToSet
    <2>2. \A i \in DOMAIN b : b[i] \in ToSet(c)
      BY <1>4, <1>6 DEF ToSet
    <2> QED
      BY <1>1, <2>1, <2>2 DEF ToSet
  <1>8. ToSet(c) \subseteq O
    BY <1>4 DEF ToSet
  <1> QED
    BY <1>1, <1>3, <1>4, <1>7, <1>8

\* What CallDecides says of one token.
Obeyed(t) ==
    LET said(kind) == {i \in DOMAIN t.call : t.call[i].kind = kind}
    IN  /\ said("alg") # {} => t.alg = t.call[Max(said("alg"))].algorithm
        /\ said("keys") # {} => Matches(t.call[Max(said("keys"))].selector, t.key)

\* A descriptor is selected as its key is.
LEMMA DescriptorMatches ==
    ASSUME NEW o, KeystoreOption(o), o.kind = "keys", NEW k, NEW a, Matches(o.selector, k)
    PROVE  Matches(o.selector, Descriptor(k, a))
  <1>1. ASSUME NEW x \in o.selector PROVE Descriptor(k, a)[x.attribute] = k[x.attribute]
    <2>1. x.attribute \in {"source", "id", "status"}
      BY DEF KeystoreOption, Attributes
    <2> QED
      BY <2>1 DEF Descriptor
  <1> QED
    BY <1>1 DEF Matches

\* A token is what its call asked for, whichever keys there were to choose from.
LEMMA SigningIs ==
    ASSUME NEW S, \A k \in S : k.priority \in Int, NEW repository \in Seq(S),
           NEW call \in SignerCalls,
           NEW r, r = SigningKey(repository, StoreRuntime, SignerRuntime, call),
           r.kind = "key"
    PROVE  Obeyed(Token(r, call))
  <1>1. PICK store, runtime, options, s :
            /\ store = StoreRuntime /\ runtime = SignerRuntime
            /\ options = runtime \o call /\ s = store \o options
    OBVIOUS
  <1>2. /\ \A i \in DOMAIN options : options[i] # NilOption
        /\ r = Select(repository, "sign", FoldLeft(Apply, EmptyQuery, s))
    BY <1>1 DEF SigningKey, AllOptions, WellFormed, operationQuery, NoKey
  <1>3. /\ store \in Seq(ToSet(store)) /\ \A o \in ToSet(store) : KeystoreOption(o)
        /\ SignerOptions(runtime) /\ SignerOptions(call)
    BY <1>1, OptionsAssumption
  <1>4. /\ options \in Seq(ToSet(runtime) \cup ToSet(call))
        /\ ToSet(options) = ToSet(runtime) \cup ToSet(call)
    BY <1>1, <1>3, ConcatIs DEF SignerOptions
  <1>5. options \in Seq(ToSet(options))
    BY <1>4
  <1>6. s \in Seq(ToSet(store) \cup ToSet(options))
            /\ ToSet(s) = ToSet(store) \cup ToSet(options)
    BY <1>1, <1>3, <1>5, ConcatIs
  <1>7. ASSUME NEW o \in ToSet(s) PROVE KeystoreOption(o)
    <2>1. o \in ToSet(options) => o # NilOption
      BY <1>2 DEF ToSet
    <2> QED
      BY <1>3, <1>4, <1>6, <2>1 DEF SignerOptions
  <1>8. StoreOptions(s)
    BY <1>7 DEF StoreOptions, KeystoreOption, ToSet
  <1>9. PICK O : O = ToSet(s) /\ s \in Seq(O)
    BY <1>6
  <1>10. /\ r.algorithm = s[Max(Said(s, DOMAIN s, "alg"))].algorithm
         /\ Said(s, DOMAIN s, "keys") # {} =>
                Matches(s[Max(Said(s, DOMAIN s, "keys"))].selector, r.key)
    BY <1>2, <1>8, <1>9, SelectIs
  <1>11. HasLastWord(call, s)
    <2>1. store \in Seq(O) /\ options \in Seq(O) /\ runtime \in Seq(O) /\ call \in Seq(O)
      BY <1>3, <1>4, <1>5, <1>6, <1>9 DEF SignerOptions
    <2>2. HasLastWord(call, options) /\ HasLastWord(options, s)
      BY <1>1, <2>1, LastWord
    <2> QED
      BY <2>2 DEF HasLastWord
  <1>12. PICK t : t = Token(r, call)
    OBVIOUS
  <1>13. /\ t.call = call /\ t.alg = r.algorithm
         /\ t.key = Descriptor(r.key, r.algorithm)
    BY <1>12 DEF Token
  <1>14. Said(call, DOMAIN call, "alg") # {} =>
            t.alg = call[Max(Said(call, DOMAIN call, "alg"))].algorithm
    BY <1>10, <1>11, <1>13 DEF HasLastWord
  <1>15. ASSUME Said(call, DOMAIN call, "keys") # {}
         PROVE  Matches(call[Max(Said(call, DOMAIN call, "keys"))].selector, t.key)
    <2>1. PICK T, n : T = Said(call, DOMAIN call, "keys") /\ n = Len(call)
      OBVIOUS
    <2>2. T \subseteq 1..n /\ n \in Nat /\ T # {}
      BY <1>3, <1>15, <2>1 DEF Said, SignerOptions
    <2>3. Max(T) \in T
      BY <2>2, GreatestIs
    <2>4. PICK o : o = call[Max(T)]
      OBVIOUS
    <2>5. o \in ToSet(call) /\ o.kind = "keys"
      BY <2>1, <2>3, <2>4 DEF Said, ToSet
    <2>6. KeystoreOption(o)
      BY <1>3, <2>5 DEF SignerOptions, NilOption
    <2>7. Matches(o.selector, r.key)
      BY <1>10, <1>11, <1>15, <2>1, <2>4 DEF HasLastWord
    <2>8. Matches(o.selector, Descriptor(r.key, r.algorithm))
      <3>1. PICK k, a : k = r.key /\ a = r.algorithm
        OBVIOUS
      <3>2. Matches(o.selector, k)
        BY <2>7, <3>1
      <3>3. Matches(o.selector, Descriptor(k, a))
        BY <2>5, <2>6, <3>2, DescriptorMatches
      <3> QED
        BY <3>1, <3>3
    <2> QED
      BY <1>13, <2>1, <2>4, <2>8
  <1>16. Obeyed(t)
    BY <1>13, <1>14, <1>15 DEF Obeyed, Said
  <1> QED
    BY <1>12, <1>16

\* The options that Verify folds: those of the store, then the configured ones
\* and the call's, with a header as the selector it stands for.
Folded(call, token) ==
    StoreRuntime \o Resolve(AllOptions(VerifierRuntime, call), token)

\* The same before any header is read.
Given(call) == StoreRuntime \o AllOptions(VerifierRuntime, call)

\* What the options of a Verify ask for is what it verifies with: the algorithm
\* is in the options as they were given, whatever the token says.
Asks(r, call, token) ==
    LET s == Folded(call, token)
        g == Given(call)
    IN  /\ Said(g, DOMAIN g, "alg") # {}
        /\ r.algorithm = g[Max(Said(g, DOMAIN g, "alg"))].algorithm
        /\ Said(s, DOMAIN s, "keys") # {} =>
                Matches(s[Max(Said(s, DOMAIN s, "keys"))].selector, r.key)

\* Verify chooses what its options ask for, from the keys there are.
LEMMA VerifyingIs ==
    ASSUME NEW S, \A k \in S : k.priority \in Int, NEW repository \in Seq(S),
           NEW call \in VerifierCalls, NEW token,
           NEW r, r = VerifyingKey(repository, StoreRuntime, VerifierRuntime, call, token),
           r.kind = "key"
    PROVE  r.key \in ToSet(repository) /\ Asks(r, call, token)
  <1>1. PICK store, runtime, options, resolved, s, g :
            /\ store = StoreRuntime /\ runtime = VerifierRuntime
            /\ options = runtime \o call /\ resolved = Resolve(options, token)
            /\ s = store \o resolved /\ g = store \o options
    OBVIOUS
  <1>2. /\ \A i \in DOMAIN options : options[i] # NilOption
        /\ r = Select(repository, "verify", FoldLeft(Apply, EmptyQuery, s))
    BY <1>1 DEF VerifyingKey, AllOptions, WellFormed, operationQuery, NoKey
  <1>3. /\ store \in Seq(ToSet(store)) /\ \A o \in ToSet(store) : KeystoreOption(o)
        /\ VerifierOptions(runtime) /\ VerifierOptions(call)
    BY <1>1, OptionsAssumption
  <1>4. /\ options \in Seq(ToSet(runtime) \cup ToSet(call))
        /\ ToSet(options) = ToSet(runtime) \cup ToSet(call)
    BY <1>1, <1>3, ConcatIs DEF VerifierOptions
  <1>5. PICK m \in Nat, n \in Nat : /\ m = Len(store) /\ n = Len(options)
                                    /\ DOMAIN store = 1..m /\ DOMAIN options = 1..n
    BY <1>3, <1>4
  <1>6. DOMAIN resolved = 1..n /\ resolved \in Seq(ToSet(resolved))
    <2>1. DOMAIN resolved = 1..n /\ resolved = [i \in 1..n |-> resolved[i]]
      BY <1>1, <1>5 DEF Resolve
    <2>2. \A i \in 1..n : resolved[i] \in ToSet(resolved)
      BY <2>1 DEF ToSet
    <2> QED
      BY <2>1, <2>2
  <1>7. ASSUME NEW i \in 1..n
        PROVE  /\ resolved[i].kind \in {"alg", "keys"}
               /\ resolved[i].kind = "alg" <=> options[i].kind = "alg"
               /\ options[i].kind = "alg" => resolved[i] = options[i]
    <2>1. options[i] \in ToSet(options) /\ options[i] # NilOption
      BY <1>2, <1>5 DEF ToSet
    <2>2. options[i] = WithTokenHeader \/ KeystoreOption(options[i])
      BY <1>3, <1>4, <2>1 DEF VerifierOptions
    <2>3. CASE options[i] = WithTokenHeader
      <3>1. resolved[i] = WithKeys({WithID(token.kid)})
        BY <1>1, <1>5, <2>3 DEF Resolve
      <3> QED
        BY <2>3, <3>1 DEF WithKeys, WithTokenHeader
    <2>4. CASE options[i] # WithTokenHeader
      <3>1. resolved[i] = options[i]
        BY <1>1, <1>5, <2>4 DEF Resolve
      <3> QED
        BY <2>2, <2>4, <3>1 DEF KeystoreOption
    <2> QED
      BY <2>3, <2>4
  <1>8. /\ s \in Seq(ToSet(store) \cup ToSet(resolved))
        /\ ToSet(s) = ToSet(store) \cup ToSet(resolved)
    BY <1>1, <1>3, <1>6, ConcatIs
  <1>9. ASSUME NEW o \in ToSet(s) PROVE o.kind \in {"alg", "keys"}
    <2>1. o \in ToSet(resolved) => o.kind \in {"alg", "keys"}
      BY <1>6, <1>7 DEF ToSet
    <2> QED
      BY <1>3, <1>8, <2>1 DEF KeystoreOption
  <1>10. StoreOptions(s)
    BY <1>9 DEF StoreOptions, ToSet
  <1>11. PICK O : O = ToSet(s) /\ s \in Seq(O)
    BY <1>8
  <1>12. /\ r.key \in ToSet(repository)
         /\ Said(s, DOMAIN s, "alg") # {}
         /\ r.algorithm = s[Max(Said(s, DOMAIN s, "alg"))].algorithm
         /\ Said(s, DOMAIN s, "keys") # {} =>
                Matches(s[Max(Said(s, DOMAIN s, "keys"))].selector, r.key)
    BY <1>2, <1>10, <1>11, SelectIs
  <1>13. /\ DOMAIN s = 1..(m + n) /\ DOMAIN g = 1..(m + n)
         /\ \A i \in 1..(m + n) : i <= m => s[i] = store[i] /\ g[i] = store[i]
         /\ \A i \in 1..(m + n) : i > m =>
                /\ i - m \in 1..n
                /\ s[i] = resolved[i - m] /\ g[i] = options[i - m]
    <2>1. PICK P : P = ToSet(store) \cup ToSet(resolved) \cup ToSet(options)
      OBVIOUS
    <2>2. /\ store \in Seq(P) /\ resolved \in Seq(P) /\ options \in Seq(P)
          /\ Len(resolved) = n /\ Len(store) = m /\ Len(options) = n
      BY <1>3, <1>4, <1>5, <1>6, <2>1
    <2>3. s = store \o resolved /\ g = store \o options
      BY <1>1
    <2>4. Joined(s, store, resolved, m, n) /\ Joined(g, store, options, m, n)
      BY <2>2, <2>3, ConcatAt
    <2>5. \A i \in 1..(m + n) : i > m => i - m \in 1..n /\ ~(i <= m)
      OBVIOUS
    <2> QED
      BY <2>4, <2>5 DEF Joined
  <1>14. \A i \in 1..(m + n) : /\ s[i].kind = "alg" <=> g[i].kind = "alg"
                               /\ g[i].kind = "alg" => s[i] = g[i]
    <2> SUFFICES ASSUME NEW i \in 1..(m + n)
                 PROVE  /\ s[i].kind = "alg" <=> g[i].kind = "alg"
                        /\ g[i].kind = "alg" => s[i] = g[i]
      OBVIOUS
    <2>1. CASE i <= m
      BY <1>13, <2>1
    <2>2. CASE i > m
      BY <1>7, <1>13, <2>2
    <2> QED
      BY <2>1, <2>2
  <1>15. PICK T : T = Said(g, DOMAIN g, "alg")
    OBVIOUS
  <1>16. T = Said(s, DOMAIN s, "alg") /\ T # {} /\ T \subseteq 1..(m + n)
    BY <1>12, <1>13, <1>14, <1>15 DEF Said
  <1>17. Max(T) \in T
    <2>1. m + n \in Nat
      OBVIOUS
    <2> QED
      BY <1>16, <2>1, GreatestIs
  <1>18. s[Max(T)] = g[Max(T)]
    BY <1>13, <1>14, <1>15, <1>16, <1>17 DEF Said
  <1>19. s = Folded(call, token) /\ g = Given(call)
    BY <1>1 DEF Folded, Given, AllOptions
  <1> QED
    BY <1>12, <1>15, <1>16, <1>18, <1>19 DEF Asks

\* A call that, after an option by which the verifier was configured with keys,
\* neither passes a header nor selects keys without selecting those again.
CarefulCall(call) ==
    LET options == AllOptions(VerifierRuntime, call)
    IN  \A i \in DOMAIN VerifierRuntime, j \in DOMAIN options :
            VerifierRuntime[i].kind = "keys" /\ i < j =>
                /\ options[j] # WithTokenHeader
                /\ options[j].kind = "keys" =>
                        VerifierRuntime[i].selector \subseteq options[j].selector

\* What such a call verifies with, every configured selector selects.
LEMMA CarefulIsRestricted ==
    ASSUME NEW call \in VerifierCalls, CarefulCall(call), NEW token, NEW r,
           Asks(r, call, token), NEW i \in DOMAIN VerifierRuntime,
           VerifierRuntime[i].kind = "keys"
    PROVE  Matches(VerifierRuntime[i].selector, r.key)
  <1>1. PICK store, runtime, options, resolved, s :
            /\ store = StoreRuntime /\ runtime = VerifierRuntime
            /\ options = runtime \o call /\ resolved = Resolve(options, token)
            /\ s = store \o resolved
    OBVIOUS
  <1>2. /\ store \in Seq(ToSet(store)) /\ runtime \in Seq(ToSet(runtime))
        /\ call \in Seq(ToSet(call))
    BY <1>1, OptionsAssumption DEF VerifierOptions
  <1>3. PICK n \in Nat : /\ DOMAIN options = 1..n
                         /\ i \in 1..n /\ options[i] = runtime[i]
    <2>1. PICK O : O = ToSet(runtime) \cup ToSet(call)
      OBVIOUS
    <2>2. runtime \in Seq(O) /\ call \in Seq(O) /\ i \in DOMAIN runtime
      BY <1>1, <1>2, <2>1
    <2>3. /\ Len(options) \in Nat /\ DOMAIN options = 1..Len(options)
          /\ i \in DOMAIN options /\ options[i] = runtime[i]
      BY <1>1, <2>2
    <2> QED
      BY <2>3
  <1>4. DOMAIN resolved = 1..n /\ resolved \in Seq(ToSet(resolved))
    <2>1. DOMAIN resolved = 1..n /\ resolved = [j \in 1..n |-> resolved[j]]
      BY <1>1, <1>3 DEF Resolve
    <2>2. \A j \in 1..n : resolved[j] \in ToSet(resolved)
      BY <2>1 DEF ToSet
    <2> QED
      BY <2>1, <2>2
  <1>5. resolved[i] = runtime[i]
    BY <1>1, <1>3 DEF Resolve, WithTokenHeader
  <1>6. PICK T : T = Said(resolved, DOMAIN resolved, "keys")
    OBVIOUS
  <1>7. T \subseteq 1..n /\ i \in T
    BY <1>1, <1>3, <1>4, <1>5, <1>6 DEF Said
  <1>8. PICK j : j = Max(T)
    OBVIOUS
  <1>9. j \in T /\ i <= j
    BY <1>7, <1>8, GreatestIs
  <1>10. runtime[i].selector \subseteq resolved[j].selector
    <2>1. CASE i = j
      BY <1>5, <2>1
    <2>2. CASE i # j
      <3>1. i < j /\ j \in DOMAIN options
        BY <1>3, <1>7, <1>9, <2>2
      <3>2. /\ options[j] # WithTokenHeader
            /\ options[j].kind = "keys" => runtime[i].selector \subseteq options[j].selector
        BY <1>1, <3>1 DEF CarefulCall, AllOptions
      <3>3. resolved[j] = options[j]
        BY <1>1, <3>1, <3>2 DEF Resolve
      <3>4. resolved[j].kind = "keys"
        BY <1>6, <1>9 DEF Said
      <3> QED
        BY <3>2, <3>3, <3>4
    <2> QED
      BY <2>1, <2>2
  <1>11. HasLastWord(resolved, s)
    <2>1. PICK O : O = ToSet(store) \cup ToSet(resolved)
      OBVIOUS
    <2>2. store \in Seq(O) /\ resolved \in Seq(O)
      BY <1>2, <1>4, <2>1
    <2> QED
      BY <1>1, <2>2, LastWord
  <1>12. /\ Said(s, DOMAIN s, "keys") # {}
         /\ s[Max(Said(s, DOMAIN s, "keys"))] = resolved[j]
    BY <1>6, <1>7, <1>8, <1>11 DEF HasLastWord
  <1>13. s = Folded(call, token)
    BY <1>1 DEF Folded, AllOptions
  <1>14. Matches(resolved[j].selector, r.key)
    BY <1>12, <1>13 DEF Asks
  <1> QED
    BY <1>1, <1>10, <1>14 DEF Matches

-----------------------------------------------------------------------------
(* What is published, sent and decoded.                                    *)

\* A generation publishes a list of the issuer's keys.
LEMMA PublishedIs ==
    ASSUME NEW g \in DOMAIN Generations
    PROVE  /\ Published(g) \in Seq(IssuerKeys)
           /\ ToSet(Published(g)) \subseteq IssuerKeys
  <1>1. PICK s, T : s = Generations[g] /\ T = Matching(Generations[g], Selector)
    OBVIOUS
  <1>2. s \in Seq(IssuerKeys)
    BY <1>1, PublicationAssumption
  <1>3. Keeps(Keep(s, T), IssuerKeys, s, T)
    BY <1>2, KeepIs
  <1>4. Published(g) = Keep(s, T)
    BY <1>1 DEF Published
  <1>5. ToSet(s) \subseteq IssuerKeys
    BY <1>1 DEF IssuerKeys
  <1> QED
    BY <1>3, <1>4, <1>5 DEF Keeps

\* WriteArtifact sends a good status with a whole set, or none.
LEMMA WriteArtifactIs ==
    ASSUME NEW g \in DOMAIN Generations,
           NEW r, r = WriteArtifact(Published(g)), r.status \in 200..299
    PROVE  Carries(r.keys, g)
  <1>1. EncodableSet(Published(g))
    BY DEF WriteArtifact, ServerError
  <1>2. r = OK(EncodeAll(Published(g)))
    BY <1>1 DEF WriteArtifact
  <1> QED
    BY <1>1, <1>2 DEF OK, Carries

\* What was sent whole decodes to some keys.
LEMMA SomeDecoded ==
    ASSUME NEW g \in DOMAIN Generations, NEW r, Carries(r, g)
    PROVE  Candidates(r) # <<>>
  <1>1. PICK s \in Seq(IssuerKeys) : s = Published(g)
    BY PublishedIs
  <1>2. s # <<>> /\ r = EncodeAll(s)
    BY <1>1 DEF Carries, EncodableSet
  <1>3. 1 \in DOMAIN s
    BY <1>2
  <1>4. 1 \in DOMAIN Candidates(r)
    BY <1>2, <1>3 DEF EncodeAll, Candidates
  <1> QED
    BY <1>4

\* One key that was encoded and decoded is the same key to a verifier, and has
\* no secret under the public policy (Encode and Decode, one after the other).
LEMMA CandidateIs ==
    ASSUME NEW k \in IssuerKeys, EncodableKey(k), Decodable(Encode(k, Policy)),
           NEW c, c = Candidate(Encode(k, Policy))
    PROVE  /\ c.id = k.id /\ c.material.pair = k.material.pair
           /\ Policy = "public" => c.material.form \in {"public", "certificate"}
  <1>1. Policy \in Policies /\ k.material.pair # Absent
    BY PublicationAssumption
  <1>2. Encodable(k.material, Policy)
    BY DEF EncodableKey
  <1>3. TripOutcome(k, Policy)
    BY <1>1, <1>2, OneTrip
  <1>4. c.id = Decode(Encode(k, Policy)).id
            /\ c.material = Decode(Encode(k, Policy)).material
    BY DEF Candidate
  <1>5. /\ c.id = k.id /\ c.material.pair = k.material.pair
        /\ c.material.form = IF k.material.form = "private" /\ Policy = "public"
                             THEN "public" ELSE k.material.form
    BY <1>3, <1>4 DEF TripOutcome
  <1>6. Policy = "public" => k.material.form \in {"private", "public", "certificate"}
    BY <1>2, EncodableChecks DEF rsaSupports, ecSupports, symetricEncodable
  <1> QED
    BY <1>5, <1>6

\* What the relying party makes of a whole set is that set.
LEMMA CandidatesAre ==
    ASSUME NEW g \in DOMAIN Generations, NEW r, Carries(r, g),
           \A i \in DOMAIN r : Decodable(r[i]), NEW c, c = Candidates(r)
    PROVE  /\ Identity(c) = Identity(Published(g))
           /\ Policy = "public" =>
                \A k \in ToSet(c) : k.material.form \in {"public", "certificate"}
  <1>1. PICK s \in Seq(IssuerKeys) : s = Published(g)
    BY PublishedIs
  <1>2. r = EncodeAll(s) /\ \A i \in DOMAIN s : EncodableKey(s[i])
    BY <1>1 DEF Carries, EncodableSet
  <1>3. /\ DOMAIN r = DOMAIN s /\ DOMAIN c = DOMAIN s
        /\ \A i \in DOMAIN s : /\ r[i] = Encode(s[i], Policy)
                               /\ c[i] = Candidate(Encode(s[i], Policy))
    BY <1>2 DEF EncodeAll, Candidates
  <1>4. ASSUME NEW i \in DOMAIN s
        PROVE  /\ c[i].id = s[i].id /\ c[i].material.pair = s[i].material.pair
               /\ Policy = "public" => c[i].material.form \in {"public", "certificate"}
    <2>1. PICK k : k = s[i]
      OBVIOUS
    <2>2. k \in IssuerKeys
      BY <2>1
    <2>3. /\ EncodableKey(k) /\ Decodable(Encode(k, Policy))
          /\ c[i] = Candidate(Encode(k, Policy))
      BY <1>2, <1>3, <2>1
    <2> QED
      BY <2>1, <2>2, <2>3, CandidateIs
  <1>5. Identity(c) = Identity(s)
    BY <1>3, <1>4 DEF Identity
  <1> QED
    BY <1>1, <1>3, <1>4, <1>5 DEF ToSet

-----------------------------------------------------------------------------
(* The invariant, action by action.                                        *)

\* Nothing has been found, sent or received.
LEMMA PubInit == Init => PubInv
  <1> SUFFICES ASSUME Init PROVE PubInv
    OBVIOUS
  <1>1. 1 \in DOMAIN Generations
    BY PublicationAssumption
  <1>2. ~(response.status \in 200..299)
    BY DEF Init, NoResponse
  <1> QED
    BY <1>1, <1>2 DEF Init, PubInv, FoundOK, RepliedOK, HeldOK

\* The handler finds what the present generation publishes, and what changes
\* afterwards does not reach its snapshot.
LEMMA ServeKeeps == ASSUME PubInv, Serve PROVE PubInv'
  <1>1. snapshot' = Published(gen) /\ gen \in DOMAIN Generations
    BY DEF Serve, Published, PubInv
  <1>2. FoundOK'
    BY <1>1 DEF FoundOK
  <1> QED
    BY <1>2 DEF Serve, PubInv, RepliedOK, HeldOK

\* The response is a whole set, an error or not acceptable.
LEMMA ReplyKeeps == ASSUME PubInv, Reply \/ Fail PROVE PubInv'
  <1>1. RepliedOK'
    <2>1. CASE Reply
      <3>1. PICK g \in DOMAIN Generations : snapshot = Published(g)
        BY <2>1 DEF Reply, PubInv, FoundOK
      <3>2. PICK r : r = response' /\ r = WriteArtifact(Published(g))
        BY <2>1, <3>1 DEF Reply
      <3>3. r.status \in 200..299 => Carries(r.keys, g)
        BY <3>2, WriteArtifactIs
      <3> QED
        BY <3>2, <3>3 DEF RepliedOK
    <2>2. CASE Fail
      <3>1. response'.whole = FALSE
        BY <2>2 DEF Fail, NoResponse, OK
      <3> QED
        BY <3>1 DEF RepliedOK
    <2> QED
      BY <2>1, <2>2
  <1>2. pc' = "replied" /\ UNCHANGED <<gen, partner>>
    BY DEF Reply, Fail
  <1> QED
    BY <1>1, <1>2 DEF PubInv, FoundOK, HeldOK

\* A good set replaces the one before, whole.
LEMMA ReceiveKeeps == ASSUME PubInv, Receive PROVE PubInv'
  <1>1. HeldOK'
    <2>1. CASE Acceptable(response)
      <3>1. PICK r : r = response.keys /\ \A i \in DOMAIN r : Decodable(r[i])
        BY <2>1 DEF Acceptable
      <3>2. PICK g \in DOMAIN Generations : Carries(r, g)
        BY <2>1, <3>1 DEF Acceptable, PubInv, RepliedOK
      <3>3. partner' = Candidates(r)
        BY <2>1, <3>1 DEF Receive
      <3>4. r = EncodeAll(Published(g))
        BY <3>2 DEF Carries
      <3> QED
        BY <3>1, <3>2, <3>3, <3>4 DEF HeldOK
    <2>2. CASE ~Acceptable(response)
      BY <2>2 DEF Receive, PubInv, HeldOK
    <2> QED
      BY <2>1, <2>2
  <1>2. ~(response'.status \in 200..299)
    BY DEF Receive, NoResponse
  <1> QED
    BY <1>1, <1>2 DEF Receive, PubInv, FoundOK, RepliedOK

\* PubInv is inductive: no step of the issuer, the network, the relying party
\* or a caller breaks it.
LEMMA PubNext == PubInv /\ [Next]_vars => PubInv'
  <1> SUFFICES ASSUME PubInv, [Next]_vars PROVE PubInv'
    OBVIOUS
  <1>1. CASE Rotate
    BY <1>1 DEF Rotate, PubInv, FoundOK, RepliedOK, HeldOK, httpVars
  <1>2. CASE Serve
    BY <1>2, ServeKeeps
  <1>3. CASE Reply \/ Fail
    BY <1>3, ReplyKeeps
  <1>4. CASE Request
    BY <1>4 DEF Request, PubInv, FoundOK, RepliedOK, HeldOK
  <1>5. CASE Receive
    BY <1>5, ReceiveKeeps
  <1>6. ASSUME UNCHANGED <<gen, httpVars, partner>> PROVE PubInv'
    BY <1>6 DEF PubInv, FoundOK, RepliedOK, HeldOK, httpVars
  <1>7. ASSUME NEW call \in SignerCalls, Sign(call) \/ SignLocally(call) PROVE PubInv'
    BY <1>6, <1>7 DEF Sign, SignLocally
  <1>8. ASSUME NEW token \in tokens, NEW call \in VerifierCalls, Verify(token, call)
        PROVE  PubInv'
    BY <1>6, <1>8 DEF Verify
  <1>9. CASE UNCHANGED vars
    BY <1>6, <1>9 DEF vars
  <1> QED
    BY <1>1, <1>2, <1>3, <1>4, <1>5, <1>7, <1>8, <1>9 DEF Next

-----------------------------------------------------------------------------
(* What is signed and what is accepted.                                    *)

\* The issuer and the relying party choose from lists of keys with priorities.
LEMMA RepositoriesAre ==
    ASSUME PubInv
    PROVE  \E S : /\ \A k \in S : k.priority \in Int
                  /\ Generations[gen] \in Seq(S) /\ Repository \in Seq(S)
  <1>1. PICK P : P = ToSet(partner)
    OBVIOUS
  <1>2. partner \in Seq(P) /\ \A k \in P : k.priority \in Int
    <2>1. CASE partner = <<>>
      BY <1>1, <2>1 DEF ToSet
    <2>2. CASE partner # <<>>
      <3>1. PICK g \in DOMAIN Generations :
                partner = Candidates(EncodeAll(Published(g)))
        BY <2>2 DEF PubInv, HeldOK
      <3>2. PICK s \in Seq(IssuerKeys) : s = Published(g)
        BY PublishedIs
      <3>3. PICK c : c = Candidates(EncodeAll(s)) /\ c = partner
        BY <3>1, <3>2
      <3>4. Len(s) \in Nat /\ DOMAIN s = 1..Len(s)
        BY <3>2
      <3>5. /\ DOMAIN c = 1..Len(s) /\ c = [i \in 1..Len(s) |-> c[i]]
            /\ \A i \in 1..Len(s) : c[i].priority = 0
        BY <3>3, <3>4 DEF Candidates, EncodeAll, Candidate
      <3>6. P = {c[i] : i \in 1..Len(s)}
        BY <1>1, <3>3, <3>5 DEF ToSet
      <3>7. c \in Seq(P)
        BY <3>4, <3>5, <3>6
      <3> QED
        BY <3>3, <3>5, <3>6, <3>7
    <2> QED
      BY <2>1, <2>2
  <1>3. PICK L : L = ToSet(LocalKeys) /\ LocalKeys \in Seq(L)
    BY PublicationAssumption
  <1>4. PICK S : S = IssuerKeys \cup L \cup P
    OBVIOUS
  <1>5. \A k \in S : k.priority \in Int
    BY <1>2, <1>3, <1>4, PublicationAssumption
  <1>6. Generations[gen] \in Seq(S)
    <2>1. Generations[gen] \in Seq(IssuerKeys)
      BY PublicationAssumption DEF PubInv
    <2> QED
      BY <1>4, <2>1
  <1>7. LocalKeys \in Seq(S) /\ partner \in Seq(S)
    BY <1>2, <1>3, <1>4
  <1>8. Repository \in Seq(S)
    BY <1>7 DEF Repository
  <1> QED
    BY <1>5, <1>6, <1>8

\* A Sign, by either party, makes a token of what its call asked for.
LEMMA SignedIsObeyed ==
    ASSUME PubInv, NEW call \in SignerCalls, Sign(call) \/ SignLocally(call)
    PROVE  \E t : tokens' = tokens \cup {t} /\ Obeyed(t)
  <1>1. PICK S : /\ \A k \in S : k.priority \in Int
                 /\ Generations[gen] \in Seq(S) /\ Repository \in Seq(S)
    BY RepositoriesAre
  <1>2. PICK repository, r :
            /\ repository \in Seq(S)
            /\ r = SigningKey(repository, StoreRuntime, SignerRuntime, call)
            /\ Signs(r) /\ tokens' = tokens \cup {Token(r, call)}
    BY <1>1 DEF Sign, SignLocally
  <1>3. r.kind = "key"
    BY <1>2 DEF Signs
  <1>4. Obeyed(Token(r, call))
    BY <1>1, <1>2, <1>3, SigningIs
  <1> QED
    BY <1>2, <1>4

\* A Verify accepts a token by the key, and for the algorithm, that its options
\* ask for.
LEMMA AcceptedIsAsked ==
    ASSUME PubInv, NEW token \in tokens, NEW call \in VerifierCalls, Verify(token, call)
    PROVE  \E r : /\ Asks(r, call, token) /\ token.alg = r.algorithm
                  /\ verdict'.key = r.key
  <1>1. PICK S : /\ \A k \in S : k.priority \in Int
                 /\ Repository \in Seq(S)
    BY RepositoriesAre
  <1>2. PICK repository, r :
            /\ repository = Repository
            /\ r = VerifyingKey(repository, StoreRuntime, VerifierRuntime, call, token)
            /\ Verifies(r, token)
            /\ verdict' = [kind |-> "accepted", token |-> token, key |-> r.key]
    BY DEF Verify, KeyFor
  <1>3. r.kind = "key" /\ r.algorithm = token.alg
    BY <1>2 DEF Verifies
  <1>4. Asks(r, call, token)
    BY <1>1, <1>2, <1>3, VerifyingIs
  <1> QED
    BY <1>2, <1>3, <1>4

-----------------------------------------------------------------------------
(* The theorems.                                                           *)

\* The invariant holds of every behaviour (ServeHTTP, WriteArtifact, load and
\* Replace, interleaved with changes of the issuer's keys and with failures).
THEOREM Invariance == Spec => []PubInv
  BY PubInit, PubNext, PTL DEF Spec

\* The relying party holds one whole published set, and under the public policy
\* no secret of it (Encode, WriteArtifact, Decode and Replace).
THEOREM WholeSetsHolds == Spec => []WholeSets
  <1>1. ASSUME PubInv PROVE WholeSets
    <2> SUFFICES ASSUME partner # <<>>
                 PROVE  /\ \E g \in DOMAIN Generations :
                                Identity(partner) = Identity(Published(g))
                        /\ Policy = "public" =>
                            \A k \in ToSet(partner) :
                                k.material.form \in {"public", "certificate"}
      BY DEF WholeSets
    <2>1. PICK g, r, c :
            /\ g \in DOMAIN Generations /\ Carries(r, g)
            /\ \A i \in DOMAIN r : Decodable(r[i])
            /\ c = Candidates(r) /\ partner = c
      BY <1>1 DEF PubInv, HeldOK
    <2>2. /\ Identity(c) = Identity(Published(g))
          /\ Policy = "public" =>
                \A k \in ToSet(c) : k.material.form \in {"public", "certificate"}
      BY <2>1, CandidatesAre
    <2> QED
      BY <2>1, <2>2
  <1> QED
    BY Invariance, <1>1, PTL

\* What NeverEmptied says of one step.
NotEmptied == partner # <<>> => partner' # <<>>

\* No failure, and no issuer with nothing to publish, leaves the relying party
\* without keys (the encoder and the source on empty and bad sets).
THEOREM NeverEmptiedHolds == Spec => NeverEmptied
  <1>1. ASSUME PubInv, [Next]_vars PROVE NotEmptied
    <2>1. CASE Receive /\ Acceptable(response)
      <3>1. PICK g, r : /\ g \in DOMAIN Generations /\ Carries(r, g)
                        /\ r = response.keys
        BY <1>1, <2>1 DEF PubInv, RepliedOK, Acceptable
      <3>2. partner' = Candidates(r)
        BY <2>1, <3>1 DEF Receive
      <3>3. Candidates(r) # <<>>
        BY <3>1, SomeDecoded
      <3> QED
        BY <3>2, <3>3 DEF NotEmptied
    <2>2. CASE ~(Receive /\ Acceptable(response))
      <3>1. partner' = partner
        BY <1>1, <2>2 DEF Next, Rotate, Serve, Reply, Fail, Request, Receive, Sign,
           SignLocally, Verify, vars
      <3> QED
        BY <3>1 DEF NotEmptied
    <2> QED
      BY <2>1, <2>2
  <1>2. NeverEmptied <=> [][NotEmptied]_vars
    BY DEF NeverEmptied, NotEmptied
  <1> QED
    BY Invariance, <1>1, <1>2, PTL DEF Spec

\* The call has the last word on what is signed, with any options and any keys
\* at either party (Signer.Sign and the fold in keystore.Signer).
THEOREM CallDecidesHolds == Spec => []CallDecides
  <1>1. CallDecides <=> \A t \in tokens : Obeyed(t)
    BY DEF CallDecides, Obeyed
  <1>2. Init => CallDecides
    BY <1>1 DEF Init
  <1>3. ASSUME PubInv, CallDecides, [Next]_vars PROVE CallDecides'
    <2>1. CASE tokens' = tokens
      BY <1>1, <1>3, <2>1 DEF CallDecides
    <2>2. CASE tokens' # tokens
      <3>1. PICK call \in SignerCalls : Sign(call) \/ SignLocally(call)
        BY <1>3, <2>2 DEF Next, Rotate, Serve, Reply, Fail, Request, Receive, Verify, vars
      <3>2. PICK t : tokens' = tokens \cup {t} /\ Obeyed(t)
        BY <1>3, <3>1, SignedIsObeyed
      <3>3. \A u \in tokens' : Obeyed(u)
        BY <1>1, <1>3, <3>2
      <3> QED
        BY <3>3 DEF CallDecides, Obeyed
    <2> QED
      BY <2>1, <2>2
  <1> QED
    BY Invariance, <1>2, <1>3, PTL DEF Spec

\* No application overrides the keys its verifier was configured with.
CarefulCalls == \A call \in VerifierCalls : CarefulCall(call)

\* Verification is restricted to the keys the verifier was configured with, as
\* long as no call selects others or passes a header (WithVerifierKeys; an option
\* of a call replaces it, which the run verifier_override shows).
THEOREM VerifierKeysRestrictHolds ==
    ASSUME CarefulCalls
    PROVE  Spec => []VerifierKeysRestrict
  <1>1. Init => VerifierKeysRestrict
    BY DEF Init, NoVerdict, VerifierKeysRestrict
  <1>2. ASSUME PubInv, VerifierKeysRestrict, [Next]_vars PROVE VerifierKeysRestrict'
    <2>1. CASE verdict' = verdict
      BY <1>2, <2>1 DEF VerifierKeysRestrict
    <2>2. CASE verdict' # verdict
      <3>1. PICK token \in tokens, call \in VerifierCalls : Verify(token, call)
        BY <1>2, <2>2 DEF Next, Rotate, Serve, Reply, Fail, Request, Receive, Sign,
           SignLocally, vars
      <3>2. PICK r : Asks(r, call, token) /\ verdict'.key = r.key
        BY <1>2, <3>1, AcceptedIsAsked
      <3>3. \A i \in DOMAIN VerifierRuntime :
                VerifierRuntime[i].kind = "keys" =>
                    Matches(VerifierRuntime[i].selector, r.key)
        BY <3>2, CarefulIsRestricted DEF CarefulCalls
      <3> QED
        BY <3>2, <3>3 DEF VerifierKeysRestrict
    <2> QED
      BY <2>1, <2>2
  <1> QED
    BY Invariance, <1>1, <1>2, PTL DEF Spec

\* What VerifierDecides says of one step.
AcceptedAsAsked ==
    \A token \in tokens, call \in VerifierCalls :
        Verify(token, call) =>
            LET g == Given(call)
                s == Folded(call, token)
            IN  /\ Said(g, DOMAIN g, "alg") # {}
                /\ token.alg = g[Max(Said(g, DOMAIN g, "alg"))].algorithm
                /\ Said(s, DOMAIN s, "keys") # {} =>
                    Matches(s[Max(Said(s, DOMAIN s, "keys"))].selector, verdict'.key)

\* A token is accepted only with the algorithm that the last option naming one
\* asks for, of the store, the verifier and the call: never with one the token
\* names; and only by a key that the last word on the keys selects.
VerifierDecides == [][AcceptedAsAsked]_vars

\* It is the verifier's side that decides how a token is verified, with any
\* options and any tokens (Verifier.Verify and the fold in keystore.Verify, which
\* never read the header's alg).
THEOREM VerifierDecidesHolds == Spec => VerifierDecides
  <1>1. ASSUME PubInv PROVE AcceptedAsAsked
    <2> SUFFICES ASSUME NEW token \in tokens, NEW call \in VerifierCalls,
                        Verify(token, call)
                 PROVE  LET g == Given(call)
                            s == Folded(call, token)
                        IN  /\ Said(g, DOMAIN g, "alg") # {}
                            /\ token.alg = g[Max(Said(g, DOMAIN g, "alg"))].algorithm
                            /\ Said(s, DOMAIN s, "keys") # {} =>
                                Matches(s[Max(Said(s, DOMAIN s, "keys"))].selector,
                                        verdict'.key)
      BY DEF AcceptedAsAsked
    <2>1. PICK r : /\ Asks(r, call, token) /\ token.alg = r.algorithm
                   /\ verdict'.key = r.key
      BY <1>1, AcceptedIsAsked
    <2> QED
      BY <2>1 DEF Asks
  <1> QED
    BY Invariance, <1>1, PTL DEF VerifierDecides, Spec
=============================================================================
