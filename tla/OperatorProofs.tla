--------------------------- MODULE OperatorProofs ---------------------------
(***************************************************************************)
(* What the operators of KeyQuery and JoseCodec return, for any keys, any  *)
(* selector, any list of algorithms and any document.                      *)
(***************************************************************************)
EXTENDS KeyQuery, JoseCodec, FiniteSetTheorems, TLAPS

-----------------------------------------------------------------------------
(* Arranging and filtering sequences.                                      *)

\* A set of natural numbers has a least one.
LEMMA LeastIs ==
    ASSUME NEW T, T \subseteq Nat, T # {}
    PROVE  Min(T) \in T /\ \A y \in T : Min(T) <= y
  <1>1. \E x \in T : \A y \in T : x <= y
    <2>1. PICK x \in T : \A y \in T : ~(<<y, x>> \in OpToRel(<, Nat))
      BY NatLessThanWellFounded, WFMin
    <2>2. \A y \in T : ~(y < x)
      BY <2>1 DEF OpToRel
    <2> QED
      BY <2>2
  <1> QED
    BY <1>1 DEF Min

\* A set of numbers up to a bound has a greatest one, and only one.
LEMMA GreatestIs ==
    ASSUME NEW n \in Nat, NEW T, T \subseteq 1..n, T # {}
    PROVE  Max(T) \in T /\ \A y \in T : y <= Max(T)
  <1> DEFINE D == {n - x : x \in T}
  <1>1. D \subseteq Nat /\ D # {}
    <2>1. \A x \in T : x \in 1..n
      OBVIOUS
    <2>2. \A x \in 1..n : n - x \in Nat
      OBVIOUS
    <2> QED
      BY <2>1, <2>2
  <1>2. PICK d : d = Min(D)
    OBVIOUS
  <1>3. d \in D /\ \A y \in D : d <= y
    BY <1>1, <1>2, LeastIs
  <1>4. PICK x \in T : d = n - x
    BY <1>3
  <1>5. \A y \in T : n - x <= n - y
    BY <1>3, <1>4
  <1>6. \E z \in T : \A y \in T : z >= y
    BY <1>5
  <1>7. Max(T) \in T /\ \A y \in T : Max(T) >= y
    BY <1>6 DEF Max
  <1> QED
    BY <1>7

\* The greatest number of a set is the one that no other exceeds.
LEMMA GreatestUnique ==
    ASSUME NEW n \in Nat, NEW T, T \subseteq 1..n, NEW x \in T, \A y \in T : y <= x
    PROVE  Max(T) = x
  <1>1. Max(T) \in T /\ \A y \in T : y <= Max(T)
    BY GreatestIs
  <1>2. Max(T) \in 1..n /\ x \in 1..n
    BY <1>1
  <1> QED
    BY <1>1, <1>2

\* A sequence is empty if it has no elements.
LEMMA EmptyIs ==
    ASSUME NEW S, NEW s \in Seq(S)
    PROVE  s = <<>> <=> ToSet(s) = {}
  <1>1. s = <<>> => ToSet(s) = {}
    BY DEF ToSet
  <1>2. s # <<>> => 1 \in DOMAIN s
    OBVIOUS
  <1> QED
    BY <1>1, <1>2 DEF ToSet

\* R puts the members of I in one order.
StrictOrder(R, I) ==
    /\ \A i \in I : <<i, i>> \notin R
    /\ \A i, j, k \in I : <<i, j>> \in R /\ <<j, k>> \in R => <<i, k>> \in R
    /\ \A i, j \in I : i # j => <<i, j>> \in R \/ <<j, i>> \in R

\* f lists the members of I, each once, in the order R.
Lists(f, I, R) ==
    /\ f \in [1..Cardinality(I) -> I]
    /\ \A i \in I : \E p \in 1..Cardinality(I) : f[p] = i
    /\ \A p, q \in 1..Cardinality(I) : p < q => <<f[p], f[q]>> \in R

\* Arrange lists the elements at the places I in the order R.
LEMMA ArrangeIs ==
    ASSUME NEW s, NEW I, IsFiniteSet(I), NEW R, StrictOrder(R, I)
    PROVE  \E f : /\ Lists(f, I, R)
                  /\ Arrange(s, I, R) = [p \in 1..Cardinality(I) |-> s[f[p]]]
  <1> DEFINE n == Cardinality(I)
             before(i) == {j \in I : <<j, i>> \in R}
             rank(i) == Cardinality(before(i))
             g == [i \in I |-> rank(i) + 1]
             f == [p \in 1..n |-> CHOOSE i \in I : rank(i) = p - 1]
  <1>1. n \in Nat
    BY FS_CardinalityType
  <1>2. ASSUME NEW i \in I
        PROVE  IsFiniteSet(before(i)) /\ rank(i) \in Nat /\ rank(i) < n
    <2>1. before(i) \in SUBSET I /\ i \notin before(i)
      BY DEF StrictOrder
    <2>2. /\ IsFiniteSet(before(i)) /\ rank(i) <= n
          /\ n = rank(i) => I = before(i)
      <3> HIDE DEF before
      <3> QED
        BY <2>1, FS_Subset
    <2>3. rank(i) \in Nat
      BY <2>2, FS_CardinalityType
    <2>4. rank(i) # n
      BY <2>1, <2>2
    <2> HIDE DEF rank, n
    <2> QED
      BY <1>1, <2>2, <2>3, <2>4
  <1>3. ASSUME NEW i \in I, NEW k \in I, <<i, k>> \in R PROVE rank(i) < rank(k)
    <2>1. before(i) \in SUBSET before(k) /\ i \in before(k) /\ i \notin before(i)
      BY <1>3 DEF StrictOrder
    <2>2. /\ rank(i) <= rank(k)
          /\ rank(k) = rank(i) => before(k) = before(i)
      <3>1. IsFiniteSet(before(k))
        BY <1>2
      <3> HIDE DEF before
      <3> QED
        BY <2>1, <3>1, FS_Subset
    <2>3. rank(k) # rank(i)
      BY <2>1, <2>2
    <2>4. rank(i) \in Nat /\ rank(k) \in Nat
      BY <1>2
    <2> HIDE DEF rank
    <2> QED
      BY <2>2, <2>3, <2>4
  <1> HIDE DEF rank
  <1>r. \A i \in I : rank(i) \in Nat /\ rank(i) < n
    BY <1>2
  <1> HIDE DEF before
  <1>4. ASSUME NEW i \in I, NEW k \in I, rank(i) = rank(k) PROVE i = k
    <2>1. rank(i) \in Nat /\ rank(k) \in Nat
      BY <1>2
    <2>2. <<i, k>> \notin R /\ <<k, i>> \notin R
      BY <1>3, <1>4, <2>1
    <2> QED
      BY <2>2 DEF StrictOrder
  <1>5. g \in Injection(I, 1..n)
    <2>1. \A i \in I : rank(i) + 1 \in 1..n
      <3> HIDE DEF n
      <3> QED
        BY <1>1, <1>r
    <2>2. ASSUME NEW i \in I, NEW k \in I, g[i] = g[k] PROVE i = k
      <3>1. rank(i) + 1 = rank(k) + 1 /\ rank(i) \in Nat /\ rank(k) \in Nat
        BY <1>r, <2>2
      <3>2. rank(i) = rank(k)
        BY <3>1
      <3> QED
        BY <1>4, <3>2
    <2> QED
      BY <2>1, <2>2 DEF Injection, IsInjective
  <1>6. ASSUME NEW p \in 1..n PROVE \E i \in I : rank(i) = p - 1
    <2>1. IsFiniteSet(1..n) /\ Cardinality(1..n) = n
      BY <1>1, FS_Interval
    <2>2. g \in Surjection(I, 1..n)
      <3> HIDE DEF g, n
      <3>1. n = Cardinality(I)
        BY DEF n
      <3> QED
        BY <1>5, <2>1, <3>1, FS_Injection
    <2>3. PICK i \in I : g[i] = p
      BY <2>2 DEF Surjection
    <2>4. rank(i) \in Nat /\ rank(i) + 1 = p
      BY <1>2, <2>3
    <2> QED
      BY <2>4
  <1>7. \A p \in 1..n : f[p] \in I /\ rank(f[p]) = p - 1
    BY <1>6
  <1>8. Arrange(s, I, R) = [p \in 1..n |-> s[f[p]]]
    BY DEF Arrange, rank, before
  <1> HIDE DEF f
  <1>9. f \in [1..n -> I]
    BY <1>7 DEF f
  <1>10. ASSUME NEW i \in I PROVE \E p \in 1..n : f[p] = i
    <2>1. rank(i) + 1 \in 1..n /\ rank(i) \in Nat
      <3> HIDE DEF n
      <3> QED
        BY <1>1, <1>r
    <2>2. rank(f[rank(i) + 1]) = rank(i) /\ f[rank(i) + 1] \in I
      BY <1>7, <2>1
    <2> QED
      BY <1>4, <2>1, <2>2
  <1>11. ASSUME NEW p \in 1..n, NEW q \in 1..n, p < q
         PROVE  <<f[p], f[q]>> \in R
    <2>1. f[p] \in I /\ f[q] \in I /\ rank(f[p]) = p - 1 /\ rank(f[q]) = q - 1
      BY <1>7
    <2>2. p \in Int /\ q \in Int
      BY <1>1
    <2>3. f[p] # f[q] /\ <<f[q], f[p]>> \notin R
      BY <1>3, <1>11, <2>1, <2>2
    <2> QED
      BY <2>1, <2>3 DEF StrictOrder
  <1> QED
    BY <1>8, <1>9, <1>10, <1>11 DEF Lists

\* a has the elements of s at the places I, in the order R.
Arranges(a, S, s, I, R) ==
    /\ a \in Seq(S)
    /\ ToSet(a) = {s[i] : i \in I}
    /\ IsInjective(s) => IsInjective(a)
    /\ \A p, q \in DOMAIN a : p < q =>
            \E i, j \in I : <<i, j>> \in R /\ a[p] = s[i] /\ a[q] = s[j]

\* Arranging the places I of a sequence gives a sequence of the elements there.
LEMMA ArrangeSeq ==
    ASSUME NEW S, NEW s \in Seq(S), NEW I, I \subseteq DOMAIN s,
           NEW R, StrictOrder(R, I)
    PROVE  Arranges(Arrange(s, I, R), S, s, I, R)
  <1>1. IsFiniteSet(I)
    <2>1. DOMAIN s = 1..Len(s) /\ Len(s) \in Nat
      OBVIOUS
    <2>2. IsFiniteSet(1..Len(s))
      BY <2>1, FS_Interval
    <2> QED
      BY <2>1, <2>2, FS_Subset
  <1>2. PICK n \in Nat : n = Cardinality(I)
    BY <1>1, FS_CardinalityType
  <1>3. PICK f : Lists(f, I, R) /\ Arrange(s, I, R) = [p \in 1..n |-> s[f[p]]]
    BY <1>1, <1>2, ArrangeIs
  <1>4. /\ f \in [1..n -> I]
        /\ \A i \in I : \E p \in 1..n : f[p] = i
        /\ \A p, q \in 1..n : p < q => <<f[p], f[q]>> \in R
    BY <1>2, <1>3 DEF Lists
  <1>5. \A i \in I : s[i] \in S /\ i \in DOMAIN s
    OBVIOUS
  <1>6. PICK a : a = Arrange(s, I, R)
    OBVIOUS
  <1>7. a = [p \in 1..n |-> s[f[p]]]
    BY <1>3, <1>6
  <1>8. a \in [1..n -> S] /\ DOMAIN a = 1..n
    BY <1>4, <1>5, <1>7
  <1>9. a \in Seq(S)
    BY <1>8
  <1>10. ToSet(a) = {s[i] : i \in I}
    BY <1>4, <1>7, <1>8 DEF ToSet
  <1>11. ASSUME IsInjective(s) PROVE IsInjective(a)
    <2> SUFFICES ASSUME NEW p \in 1..n, NEW q \in 1..n, a[p] = a[q] PROVE p = q
      BY <1>8 DEF IsInjective
    <2>1. s[f[p]] = s[f[q]] /\ f[p] \in I /\ f[q] \in I
      BY <1>4, <1>7
    <2>2. f[p] = f[q]
      BY <1>5, <1>11, <2>1 DEF IsInjective
    <2>3. ~(p < q) /\ ~(q < p)
      BY <1>4, <2>1, <2>2 DEF StrictOrder
    <2> QED
      BY <2>3
  <1>12. \A p, q \in DOMAIN a : p < q =>
            \E i, j \in I : <<i, j>> \in R /\ a[p] = s[i] /\ a[q] = s[j]
    BY <1>4, <1>7, <1>8
  <1>13. Arranges(a, S, s, I, R)
    BY <1>9, <1>10, <1>11, <1>12 DEF Arranges
  <1> QED
    BY <1>6, <1>13

\* a has the elements of s that are in T, in their order and as often as s.
Keeps(a, S, s, T) ==
    /\ a \in Seq(S)
    /\ ToSet(a) = ToSet(s) \cap T
    /\ IsInjective(s) => IsInjective(a)
    /\ \A p, q \in DOMAIN a : p < q =>
            \E i, j \in DOMAIN s : i < j /\ a[p] = s[i] /\ a[q] = s[j]

\* Keep does what the loops of Find, Replace and selectKey do.
LEMMA KeepIs ==
    ASSUME NEW S, NEW s \in Seq(S), NEW T
    PROVE  Keeps(Keep(s, T), S, s, T)
  <1> DEFINE I == {i \in DOMAIN s : s[i] \in T}
             R == {x \in (DOMAIN s) \X (DOMAIN s) : x[1] < x[2]}
  <1>1. Keep(s, T) = Arrange(s, I, R)
    BY DEF Keep
  <1>2. DOMAIN s \subseteq Int /\ I \subseteq DOMAIN s
    OBVIOUS
  <1>3. \A i, j \in DOMAIN s : <<i, j>> \in R <=> i < j
    OBVIOUS
  <1>4. ToSet(s) \cap T = {s[i] : i \in I}
    BY DEF ToSet
  <1> HIDE DEF I, R
  <1>5. StrictOrder(R, I)
    <2>1. \A i, j \in I : i \in Int /\ j \in Int /\ (<<i, j>> \in R <=> i < j)
      BY <1>2, <1>3
    <2> QED
      BY <2>1 DEF StrictOrder
  <1>6. PICK a : a = Arrange(s, I, R)
    OBVIOUS
  <1>7. Arranges(a, S, s, I, R)
    BY <1>2, <1>5, <1>6, ArrangeSeq
  <1>8. ASSUME NEW p \in DOMAIN a, NEW q \in DOMAIN a, p < q
        PROVE  \E i, j \in DOMAIN s : i < j /\ a[p] = s[i] /\ a[q] = s[j]
    <2>1. PICK i \in I, j \in I : <<i, j>> \in R /\ a[p] = s[i] /\ a[q] = s[j]
      BY <1>7, <1>8 DEF Arranges
    <2>2. i \in DOMAIN s /\ j \in DOMAIN s /\ i < j
      BY <1>2, <1>3, <2>1
    <2> QED
      BY <2>1, <2>2
  <1>9. a \in Seq(S) /\ ToSet(a) = ToSet(s) \cap T
            /\ (IsInjective(s) => IsInjective(a))
    BY <1>4, <1>7 DEF Arranges
  <1>10. Keeps(a, S, s, T)
    BY <1>8, <1>9 DEF Keeps
  <1> QED
    BY <1>1, <1>6, <1>10

\* a has the elements of s by decreasing priority.
Sorts(a, S, s) ==
    /\ a \in Seq(S)
    /\ ToSet(a) = ToSet(s)
    /\ IsInjective(s) => IsInjective(a)
    /\ \A p, q \in DOMAIN a : p < q => a[p].priority >= a[q].priority

\* Sorted returns the same elements, by decreasing priority (sort.SliceStable).
LEMMA SortedIs ==
    ASSUME NEW S, \A k \in S : k.priority \in Int, NEW s \in Seq(S)
    PROVE  Sorts(Sorted(s), S, s)
  <1>1. \A i \in DOMAIN s : i \in Int /\ s[i].priority \in Int
    OBVIOUS
  <1>2. \A i, j \in DOMAIN s :
            <<i, j>> \in Precedes(s) <=>
                \/ s[i].priority > s[j].priority
                \/ s[i].priority = s[j].priority /\ i < j
    BY DEF Precedes
  <1>3. StrictOrder(Precedes(s), DOMAIN s)
    <2>1. \A i \in DOMAIN s : <<i, i>> \notin Precedes(s)
      BY <1>1, <1>2
    <2>2. \A i, j, k \in DOMAIN s :
            <<i, j>> \in Precedes(s) /\ <<j, k>> \in Precedes(s)
                => <<i, k>> \in Precedes(s)
      BY <1>1, <1>2
    <2>3. \A i, j \in DOMAIN s :
            i # j => <<i, j>> \in Precedes(s) \/ <<j, i>> \in Precedes(s)
      BY <1>1, <1>2
    <2> QED
      BY <2>1, <2>2, <2>3 DEF StrictOrder
  <1>4. PICK a : a = Sorted(s)
    OBVIOUS
  <1>5. Arranges(a, S, s, DOMAIN s, Precedes(s))
    BY <1>3, <1>4, ArrangeSeq DEF Sorted
  <1>6. ASSUME NEW p \in DOMAIN a, NEW q \in DOMAIN a, p < q
        PROVE  a[p].priority >= a[q].priority
    <2>1. PICK i \in DOMAIN s, j \in DOMAIN s :
            <<i, j>> \in Precedes(s) /\ a[p] = s[i] /\ a[q] = s[j]
      BY <1>5, <1>6 DEF Arranges
    <2>2. s[i].priority >= s[j].priority
      BY <1>1, <1>2, <2>1
    <2> QED
      BY <2>1, <2>2
  <1>7. ToSet(s) = {s[i] : i \in DOMAIN s}
    BY DEF ToSet
  <1>8. Sorts(a, S, s)
    BY <1>5, <1>6, <1>7 DEF Arranges, Sorts
  <1> QED
    BY <1>4, <1>8

-----------------------------------------------------------------------------
(* selectKey.                                                              *)

\* The candidates that can serve algorithm a, and the best of them.
Able(K, selector, operation, a, t) ==
    {k \in K : Eligible(k, selector, operation, a, t)}

Best(K) == {k \in K : \A j \in K : j.priority <= k.priority}

\* Eligibles has exactly the eligible candidates, the best first, and each once
\* if it was found once.
LEMMA EligiblesAre ==
    ASSUME NEW S, \A k \in S : k.priority \in Int, NEW found \in Seq(S),
           NEW selector, NEW operation, NEW a, NEW t,
           NEW m, m = Eligibles(selector, operation, a, found, t)
    PROVE  /\ m \in Seq(S)
           /\ IsInjective(found) => IsInjective(m)
           /\ ToSet(m) = Able(ToSet(found), selector, operation, a, t)
           /\ \A p, q \in DOMAIN m : p < q => m[p].priority >= m[q].priority
  <1>1. PICK T : T = Able(ToSet(found), selector, operation, a, t)
    OBVIOUS
  <1>2. PICK s : s = Sorted(found)
    OBVIOUS
  <1>3. Sorts(s, S, found)
    BY <1>2, SortedIs
  <1>4. /\ s \in Seq(S) /\ ToSet(s) = ToSet(found)
        /\ IsInjective(found) => IsInjective(s)
    BY <1>3 DEF Sorts
  <1>5. m = Keep(s, T)
    BY <1>1, <1>2 DEF Eligibles, Able
  <1>6. Keeps(m, S, s, T)
    BY <1>4, <1>5, KeepIs
  <1>7. ToSet(m) = T
    BY <1>1, <1>4, <1>6 DEF Keeps, Able
  <1>8. ASSUME NEW p \in DOMAIN m, NEW q \in DOMAIN m, p < q
        PROVE  m[p].priority >= m[q].priority
    <2>1. PICK i \in DOMAIN s, j \in DOMAIN s : i < j /\ m[p] = s[i] /\ m[q] = s[j]
      BY <1>6, <1>8 DEF Keeps
    <2>2. s[i].priority >= s[j].priority
      BY <1>3, <2>1 DEF Sorts
    <2> QED
      BY <2>1, <2>2
  <1> QED
    BY <1>1, <1>4, <1>6, <1>7, <1>8 DEF Keeps

\* The head of such a list is its best element, and the only one unless the
\* second has the same priority.
LEMMA HeadIsBest ==
    ASSUME NEW S, \A k \in S : k.priority \in Int, NEW m \in Seq(S), m # <<>>,
           IsInjective(m),
           \A p, q \in DOMAIN m : p < q => m[p].priority >= m[q].priority
    PROVE  /\ m[1] \in Best(ToSet(m))
           /\ Len(m) > 1 /\ m[1].priority = m[2].priority
                => m[2] \in Best(ToSet(m)) /\ m[1] # m[2]
           /\ ~(Len(m) > 1 /\ m[1].priority = m[2].priority)
                => Best(ToSet(m)) = {m[1]}
  <1>1. Len(m) \in Nat /\ Len(m) > 0 /\ DOMAIN m = 1..Len(m)
    OBVIOUS
  <1>2. 1 \in DOMAIN m /\ \A p \in DOMAIN m : p \in Int /\ p >= 1 /\ m[p] \in S
    BY <1>1
  <1>3. \A p \in DOMAIN m : m[p].priority \in Int
    BY <1>2
  <1>4. \A p \in DOMAIN m : m[p].priority <= m[1].priority
    BY <1>2, <1>3
  <1>5. m[1] \in Best(ToSet(m))
    BY <1>2, <1>4 DEF Best, ToSet
  <1>6. ASSUME Len(m) > 1, m[1].priority = m[2].priority
        PROVE  m[2] \in Best(ToSet(m)) /\ m[1] # m[2]
    <2>1. 2 \in DOMAIN m
      BY <1>1, <1>6
    <2>2. m[1] # m[2]
      BY <1>2, <2>1 DEF IsInjective
    <2> QED
      BY <1>4, <1>6, <2>1, <2>2 DEF Best, ToSet
  <1>7. ASSUME ~(Len(m) > 1 /\ m[1].priority = m[2].priority),
               NEW k \in Best(ToSet(m))
        PROVE  k = m[1]
    <2>1. PICK p \in DOMAIN m : k = m[p]
      BY DEF Best, ToSet
    <2>2. SUFFICES ASSUME p # 1 PROVE FALSE
      BY <2>1
    <2>3. 2 \in DOMAIN m /\ p >= 2 /\ Len(m) > 1
      BY <1>1, <1>2, <2>1, <2>2
    <2>4. m[1].priority <= m[p].priority
      BY <1>2, <2>1 DEF Best, ToSet
    <2>5. m[p].priority <= m[2].priority
      BY <1>2, <1>3, <2>3
    <2>6. m[2].priority <= m[1].priority
      BY <1>4, <2>3
    <2>7. m[1].priority = m[2].priority
      BY <1>2, <1>3, <2>3, <2>4, <2>5, <2>6
    <2> QED
      BY <1>7, <2>3, <2>7
  <1> QED
    BY <1>5, <1>6, <1>7

\* r is what selectKey should return given the set K of candidates: for the
\* first algorithm that any of them can serve, the best, or a tie.
Decision(r, K, selector, operation, algorithms, t) ==
    \/ /\ r = NoKey
       /\ \A i \in DOMAIN algorithms :
            Able(K, selector, operation, algorithms[i], t) = {}
    \/ \E i \in DOMAIN algorithms :
        /\ Able(K, selector, operation, algorithms[i], t) # {}
        /\ \A j \in DOMAIN algorithms :
            j < i => Able(K, selector, operation, algorithms[j], t) = {}
        /\ \/ /\ r = Tie
              /\ \E x, y \in Best(Able(K, selector, operation, algorithms[i], t)) : x # y
           \/ \E k : /\ Best(Able(K, selector, operation, algorithms[i], t)) = {k}
                     /\ r = Chosen(k, algorithms[i])

\* selectKey decides as it should, whatever the order of the candidates.
LEMMA SelectKeyIs ==
    ASSUME NEW S, \A k \in S : k.priority \in Int,
           NEW found \in Seq(S), IsInjective(found),
           NEW selector, NEW operation, NEW A, NEW algorithms \in Seq(A), NEW t
    PROVE  Decision(SelectKey(selector, operation, algorithms, found, t),
                    ToSet(found), selector, operation, algorithms, t)
  <1> DEFINE K == ToSet(found)
             matches(i) == Eligibles(selector, operation, algorithms[i], found, t)
             able(i) == Able(K, selector, operation, algorithms[i], t)
             served == {i \in DOMAIN algorithms : matches(i) # <<>>}
             first == Min(served)
             m == matches(first)
  <1> HIDE DEF K
  <1>1. SelectKey(selector, operation, algorithms, found, t) =
            IF served = {} THEN NoKey
            ELSE IF Len(m) > 1 /\ m[1].priority = m[2].priority THEN Tie
            ELSE Chosen(m[1], algorithms[first])
    BY DEF SelectKey
  <1>2. ASSUME NEW i \in DOMAIN algorithms
        PROVE  /\ matches(i) \in Seq(S) /\ IsInjective(matches(i))
               /\ ToSet(matches(i)) = able(i)
               /\ \A p, q \in DOMAIN matches(i) :
                    p < q => matches(i)[p].priority >= matches(i)[q].priority
    <2>1. PICK a, e : a = algorithms[i] /\ e = matches(i)
      OBVIOUS
    <2>2. e = Eligibles(selector, operation, a, found, t)
      BY <2>1
    <2>3. /\ e \in Seq(S) /\ IsInjective(e)
          /\ ToSet(e) = Able(ToSet(found), selector, operation, a, t)
          /\ \A p, q \in DOMAIN e : p < q => e[p].priority >= e[q].priority
      BY <2>2, EligiblesAre
    <2> QED
      BY <2>1, <2>3 DEF K
  <1> HIDE DEF matches
  <1>3. \A i \in DOMAIN algorithms : matches(i) = <<>> <=> able(i) = {}
    <2> SUFFICES ASSUME NEW i \in DOMAIN algorithms
                 PROVE  matches(i) = <<>> <=> able(i) = {}
      OBVIOUS
    <2>1. matches(i) \in Seq(S) /\ ToSet(matches(i)) = able(i)
      BY <1>2
    <2> HIDE DEF able
    <2> QED
      BY <2>1, EmptyIs
  <1> HIDE DEF able
  <1>4. CASE served = {}
    <2>1. \A i \in DOMAIN algorithms : able(i) = {}
      BY <1>3, <1>4
    <2> QED
      BY <1>1, <1>4, <2>1 DEF Decision, able, K
  <1>5. CASE served # {}
    <2>1. served \subseteq Nat
      OBVIOUS
    <2>2. first \in served /\ \A j \in served : first <= j
      <3> HIDE DEF served
      <3> QED
        BY <1>5, <2>1, LeastIs
    <2> HIDE DEF first
    <2>3. first \in DOMAIN algorithms /\ able(first) # {} /\ m # <<>>
      BY <1>3, <2>2
    <2>4. ASSUME NEW j \in DOMAIN algorithms, j < first PROVE able(j) = {}
      <3>1. j \in Int /\ first \in Int
        BY <2>3
      <3>2. j \notin served
        BY <2>2, <2>4, <3>1
      <3> QED
        BY <1>3, <3>2
    <2>5. PICK e : e = m
      OBVIOUS
    <2>6. /\ e \in Seq(S) /\ e # <<>> /\ IsInjective(e) /\ ToSet(e) = able(first)
          /\ \A p, q \in DOMAIN e : p < q => e[p].priority >= e[q].priority
      BY <1>2, <2>3, <2>5
    <2>7. /\ e[1] \in Best(able(first))
          /\ Len(e) > 1 /\ e[1].priority = e[2].priority
                => e[2] \in Best(able(first)) /\ e[1] # e[2]
          /\ ~(Len(e) > 1 /\ e[1].priority = e[2].priority)
                => Best(able(first)) = {e[1]}
      <3>1. /\ e[1] \in Best(ToSet(e))
            /\ Len(e) > 1 /\ e[1].priority = e[2].priority
                => e[2] \in Best(ToSet(e)) /\ e[1] # e[2]
            /\ ~(Len(e) > 1 /\ e[1].priority = e[2].priority)
                => Best(ToSet(e)) = {e[1]}
        BY <2>6, HeadIsBest
      <3> QED
        BY <2>6, <3>1
    <2>8. PICK r : r = SelectKey(selector, operation, algorithms, found, t)
      OBVIOUS
    <2>9. \/ r = Tie /\ \E x, y \in Best(able(first)) : x # y
          \/ \E k : Best(able(first)) = {k} /\ r = Chosen(k, algorithms[first])
      <3>1. r = IF Len(e) > 1 /\ e[1].priority = e[2].priority THEN Tie
                ELSE Chosen(e[1], algorithms[first])
        BY <1>1, <1>5, <2>5, <2>8 DEF first
      <3> QED
        BY <2>7, <3>1
    <2>10. Decision(r, K, selector, operation, algorithms, t)
      BY <2>3, <2>4, <2>9 DEF Decision, able
    <2> QED
      BY <2>8, <2>10 DEF K
  <1> QED
    BY <1>4, <1>5

\* The key that selectKey returns is one of those it was given, whether or not
\* one of them is there twice, and eligible for the algorithm it returns.
LEMMA SelectKeyChooses ==
    ASSUME NEW S, \A k \in S : k.priority \in Int, NEW found \in Seq(S),
           NEW selector, NEW operation, NEW A, NEW algorithms \in Seq(A), NEW t,
           NEW r, r = SelectKey(selector, operation, algorithms, found, t),
           r.kind = "key"
    PROVE  \E k \in ToSet(found), i \in DOMAIN algorithms :
                /\ r = Chosen(k, algorithms[i])
                /\ Eligible(k, selector, operation, algorithms[i], t)
  <1> DEFINE matches(i) == Eligibles(selector, operation, algorithms[i], found, t)
             served == {i \in DOMAIN algorithms : matches(i) # <<>>}
             first == Min(served)
             m == matches(first)
  <1>1. r = IF served = {} THEN NoKey
            ELSE IF Len(m) > 1 /\ m[1].priority = m[2].priority THEN Tie
            ELSE Chosen(m[1], algorithms[first])
    BY DEF SelectKey
  <1>2. served # {} /\ r = Chosen(m[1], algorithms[first])
    <2> HIDE DEF m, first, served
    <2> QED
      BY <1>1 DEF NoKey, Tie
  <1>3. first \in served
    <2>1. served \subseteq Nat
      OBVIOUS
    <2> HIDE DEF served
    <2> QED
      BY <1>2, <2>1, LeastIs
  <1>4. PICK i, a, e : i = first /\ a = algorithms[i] /\ e = m
    OBVIOUS
  <1>5. i \in DOMAIN algorithms /\ e # <<>> /\ r = Chosen(e[1], a)
    BY <1>2, <1>3, <1>4
  <1>6. e = Eligibles(selector, operation, a, found, t)
    BY <1>4
  <1> HIDE DEF m, first, served, matches
  <1>7. e \in Seq(S) /\ ToSet(e) = Able(ToSet(found), selector, operation, a, t)
    BY <1>6, EligiblesAre
  <1>8. e[1] \in ToSet(e)
    BY <1>5, <1>7 DEF ToSet
  <1> QED
    BY <1>4, <1>5, <1>7, <1>8 DEF Able

-----------------------------------------------------------------------------
(* The registry.                                                           *)

\* The largest of one.
LEMMA MaxSingleton == ASSUME NEW n \in Int PROVE Max({n}) = n
  BY DEF Max

\* The encoder found for a material is the one of its family, and looks at its
\* form (JOSEEncoderFor).
LEMMA EncoderFound ==
    ASSUME NEW m, HasEncoder(m)
    PROVE  \/ JOSEEncoderFor(m) = "rsa" /\ rsaSupports(m)
           \/ JOSEEncoderFor(m) = "ec" /\ ecSupports(m)
           \/ JOSEEncoderFor(m) = "symetric" /\ symetricSupports(m)
  <1> DEFINE S == {i \in DOMAIN Codecs : SupportsMaterial(Codecs[i], m)}
  <1>1. DOMAIN Codecs = {1, 2, 3} /\ Codecs[1] = "rsa" /\ Codecs[2] = "ec"
            /\ Codecs[3] = "symetric"
    BY DEF Codecs
  <1>2. \/ rsaSupports(m) /\ ~ecSupports(m) /\ ~symetricSupports(m)
        \/ ~rsaSupports(m) /\ ecSupports(m) /\ ~symetricSupports(m)
        \/ ~rsaSupports(m) /\ ~ecSupports(m) /\ symetricSupports(m)
    BY <1>1 DEF HasEncoder, SupportsMaterial, Supports, rsaSupports, ecSupports,
       symetricSupports
  <1>3. rsaSupports(m) => S = {1}
    BY <1>1, <1>2 DEF SupportsMaterial, Supports
  <1>4. ecSupports(m) => S = {2}
    BY <1>1, <1>2 DEF SupportsMaterial, Supports
  <1>5. symetricSupports(m) => S = {3}
    BY <1>1, <1>2 DEF SupportsMaterial, Supports
  <1> QED
    BY <1>1, <1>2, <1>3, <1>4, <1>5, MaxSingleton DEF JOSEEncoderFor

\* The decoder found for a key type is the one of that type (JOSEDecoderFor).
LEMMA DecoderFound ==
    ASSUME NEW kty
    PROVE  /\ HasDecoder(kty) => kty \in {"RSA", "EC", "oct"}
           /\ kty = "RSA" => HasDecoder(kty) /\ JOSEDecoderFor(kty) = "rsa"
           /\ kty = "EC" => HasDecoder(kty) /\ JOSEDecoderFor(kty) = "ec"
           /\ kty = "oct" => HasDecoder(kty) /\ JOSEDecoderFor(kty) = "symetric"
  <1> DEFINE S == {i \in DOMAIN Codecs : SupportsJOSEKeyType(Codecs[i], kty)}
  <1>1. DOMAIN Codecs = {1, 2, 3} /\ Codecs[1] = "rsa" /\ Codecs[2] = "ec"
            /\ Codecs[3] = "symetric"
    BY DEF Codecs
  <1>2. HasDecoder(kty) => kty \in {"RSA", "EC", "oct"}
    BY <1>1 DEF HasDecoder, SupportsJOSEKeyType
  <1>3. kty = "RSA" => S = {1}
    BY <1>1 DEF SupportsJOSEKeyType
  <1>4. kty = "EC" => S = {2}
    BY <1>1 DEF SupportsJOSEKeyType
  <1>5. kty = "oct" => S = {3}
    BY <1>1 DEF SupportsJOSEKeyType
  <1>6. HasDecoder(kty) <=> S # {}
    BY DEF HasDecoder
  <1> QED
    BY <1>1, <1>2, <1>3, <1>4, <1>5, <1>6, MaxSingleton DEF JOSEDecoderFor

\* Every material a decoder produces has a backend (Decode against the
\* registry's BackendFor).
LEMMA BackendFound ==
    ASSUME NEW m
    PROVE  HasBackend(m) <=> rsaSupports(m) \/ ecSupports(m) \/ symetricSupports(m)
  <1>1. DOMAIN Registry = {1, 2, 3} /\ Registry[1] = "rsa" /\ Registry[2] = "ec"
            /\ Registry[3] = "symetric"
    BY DEF Registry
  <1> QED
    BY <1>1 DEF HasBackend, Supports

-----------------------------------------------------------------------------
(* Encoding and decoding.                                                  *)

\* What an encoder that returns no error has made sure of (the checks of
\* Encode).
LEMMA EncodableChecks ==
    ASSUME NEW m, NEW p, Encodable(m, p)
    PROVE  \/ rsaSupports(m) /\ rsaEncodable(m)
           \/ ecSupports(m) /\ ecEncodable(m)
           \/ symetricSupports(m) /\ symetricEncodable(m, p)
  BY EncoderFound DEF Encodable

\* What a decoder that returns no error has made sure of, and when it returns
\* none (the checks of Decode).
LEMMA DecodableChecks ==
    ASSUME NEW j
    PROVE  Decodable(j) <=> \/ j.kty = "RSA" /\ rsaDecodable(j)
                            \/ j.kty = "EC" /\ ecDecodable(j)
                            \/ j.kty = "oct" /\ symetricDecodable(j)
  <1> DEFINE t == j.kty
  <1>1. /\ HasDecoder(t) => t \in {"RSA", "EC", "oct"}
        /\ t = "RSA" => HasDecoder(t) /\ JOSEDecoderFor(t) = "rsa"
        /\ t = "EC" => HasDecoder(t) /\ JOSEDecoderFor(t) = "ec"
        /\ t = "oct" => HasDecoder(t) /\ JOSEDecoderFor(t) = "symetric"
    BY DecoderFound
  <1> QED
    BY <1>1 DEF Decodable

\* Under ExportPublicMaterial an encoder writes no secret member (Encode).
LEMMA PublicPolicyHidesSecrets ==
    ASSUME NEW k, Encodable(k.material, "public")
    PROVE  Encode(k, "public").private = {}
  <1>1. k.material.family # "oct"
    BY EncodableChecks DEF rsaSupports, ecSupports, symetricSupports,
       symetricEncodable
  <1> QED
    BY <1>1 DEF Encode, privateMembers

\* Restrictions that name one algorithm at most.
OneAlgorithm(R) == Cardinality({r.algorithm : r \in R}) <= 1

\* Restrictions to one algorithm are read back as they were written
\* (restrictionsFromJWK against setJWKMetadata).
LEMMA RestrictionsRoundTrip ==
    ASSUME NEW k, NEW p, NEW R, R = k.restrictions, IsFiniteSet(R), OneAlgorithm(R),
           \A r \in R : /\ r = Capability(r.operation, r.algorithm)
                        /\ Absent \notin {r.operation, r.algorithm}
    PROVE  restrictionsFromJWK(Encode(k, p)) = R
  <1> DEFINE algs == {r.algorithm : r \in R}
             uses == {r.use : r \in R}
             j == Encode(k, p)
  <1>1. IsFiniteSet(algs) /\ Cardinality(algs) \in Nat
    <2> DEFINE f == [r \in R |-> r.algorithm]
    <2>1. f \in Surjection(R, algs)
      BY DEF Surjection
    <2>2. IsFiniteSet(algs)
      BY <2>1, FS_Surjection
    <2> QED
      BY <2>2, FS_CardinalityType
  <1>2. j.use = setJWKMetadata(R).use /\ j.ops = setJWKMetadata(R).ops
            /\ j.alg = setJWKMetadata(R).alg
    BY DEF Encode, setJWKMetadata
  <1>3. CASE R = {}
    <2>1. Cardinality(algs) = 0
      BY <1>3, FS_EmptySet
    <2>2. j.alg = Absent
      BY <1>2, <2>1 DEF setJWKMetadata
    <2> QED
      BY <1>3, <2>2 DEF restrictionsFromJWK
  <1>4. CASE R # {}
    <2>1. Cardinality(algs) = 1
      <3>1. algs # {}
        BY <1>4
      <3>2. Cardinality(algs) # 0
        BY <1>1, <3>1, FS_EmptySet
      <3> QED
        BY <1>1, <3>2 DEF OneAlgorithm
    <2>2. PICK a : algs = {a}
      BY <1>1, <2>1, FS_Singleton
    <2>3. \A r \in R : r.algorithm = a /\ r.operation # Absent
                        /\ r = [use |-> Use(r.operation), operation |-> r.operation,
                                algorithm |-> a]
      BY <2>2 DEF Capability
    <2>4. a # Absent
      BY <1>4, <2>3
    <2>5. j.alg = a
      <3>1. (CHOOSE x \in algs : TRUE) = a
        BY <2>2
      <3> QED
        BY <1>2, <2>1, <3>1 DEF setJWKMetadata
    <2>6. j.ops = {r.operation : r \in R}
      BY <1>2, <2>3 DEF setJWKMetadata
    <2>7. j.use = CASE uses = {"signing"}    -> "sig"
                    [] uses = {"encryption"} -> "enc"
                    [] OTHER                 -> Absent
      BY <1>2 DEF setJWKMetadata
    <2> HIDE DEF j
    <2>8. \A r \in R : r = [use |-> CASE j.use = "sig" -> "signing"
                                      [] j.use = "enc" -> "encryption"
                                      [] OTHER         -> Use(r.operation),
                            operation |-> r.operation, algorithm |-> j.alg]
      <3> SUFFICES ASSUME NEW r \in R
                   PROVE  r.use = CASE j.use = "sig" -> "signing"
                                    [] j.use = "enc" -> "encryption"
                                    [] OTHER         -> Use(r.operation)
        BY <2>3, <2>5
      <3>1. r.use \in uses /\ r.use = Use(r.operation)
        BY <2>3
      <3> QED
        BY <2>7, <3>1 DEF Absent
    <2> DEFINE Back(o) == [use |-> CASE j.use = "sig" -> "signing"
                                     [] j.use = "enc" -> "encryption"
                                     [] OTHER         -> Use(o),
                           operation |-> o, algorithm |-> j.alg]
    <2>9. restrictionsFromJWK(j) = {Back(o) : o \in j.ops}
      BY <2>4, <2>5 DEF restrictionsFromJWK
    <2>10. \A r \in R : r = Back(r.operation)
      BY <2>8
    <2> HIDE DEF Back
    <2>11. {Back(o) : o \in j.ops} = R
      BY <2>6, <2>10
    <2> QED
      BY <2>9, <2>11 DEF j
  <1> QED
    BY <1>3, <1>4

\* What becomes of k, encoded under policy p and decoded.
TripOutcome(k, p) ==
    LET m == k.material
        j == Encode(k, p)
        d == Decode(j)
    IN  /\ ~Decodable(j) =>
            /\ m.family = "RSA"
            /\ \/ m.form = "private" /\ p = "private" /\ m.primes # 2
               \/ m.form # "private" /\ ~m.sound
        /\ Decodable(j) =>
            /\ d.id = k.id
            /\ d.material.pair = m.pair
            /\ d.material.size = m.size
            /\ d.material.form = IF m.form = "private" /\ p = "public"
                                 THEN "public" ELSE m.form
            /\ d.material.sound = TRUE /\ d.material.primes = 2
            /\ d.restrictions = restrictionsFromJWK(j)

\* One trip of any key that can be encoded: it is rejected only if the decoder
\* sees what the encoder did not, and comes back as itself (Decode against
\* Encode).
LEMMA OneTrip ==
    ASSUME NEW k, NEW p \in Policies, Encodable(k.material, p),
           k.material.pair # Absent
    PROVE  TripOutcome(k, p)
  <1> DEFINE m == k.material
             j == Encode(k, p)
             d == Decode(j)
  <1>1. /\ d.id = k.id /\ d.material.size = m.size
        /\ d.material.sound = TRUE /\ d.material.primes = 2
        /\ d.restrictions = restrictionsFromJWK(j)
        /\ d.material.form = decodedForm(j)
        /\ d.material.pair = IF m.family = "oct" THEN j.privateOf ELSE j.public
    BY DEF Encode, Decode
  <1>2. CASE rsaSupports(m) /\ rsaEncodable(m)
    <2>1. Decodable(j) <=> rsaDecodable(j)
      BY <1>2, DecodableChecks DEF rsaSupports, Encode
    <2>2. ~rsaDecodable(j) => \/ m.form = "private" /\ p = "private" /\ m.primes # 2
                              \/ m.form # "private" /\ ~m.sound
      BY <1>2 DEF rsaSupports, rsaEncodable, rsaDecodable, Encode, Policies,
         privateMembers, hasPrivate, certificateFits, rsaPrivateFits, Absent,
         rsaPrivateParameters
    <2>3. rsaDecodable(j) => d.material.pair = m.pair
      BY <1>1, <1>2 DEF rsaSupports, rsaDecodable, Encode
    <2>4. rsaDecodable(j) =>
            decodedForm(j) = IF m.form = "private" /\ p = "public"
                             THEN "public" ELSE m.form
      BY <1>2 DEF rsaSupports, rsaDecodable, Encode, decodedForm, hasPrivate,
         privateMembers, Policies, Absent, rsaPrivateParameters
    <2> QED
      BY <1>1, <1>2, <2>1, <2>2, <2>3, <2>4 DEF rsaSupports, TripOutcome
  <1>3. CASE ecSupports(m) /\ ecEncodable(m)
    <2>1. Decodable(j)
      <3>1. ecDecodable(j)
        BY <1>3 DEF ecSupports, ecEncodable, ecDecodable, Encode, Policies,
           privateMembers, hasPrivate, certificateFits, ecPrivateFits, Absent,
           ecPrivateParameters
      <3> QED
        BY <1>3, <3>1, DecodableChecks DEF ecSupports, Encode
    <2>2. d.material.pair = m.pair
      BY <1>1, <1>3 DEF ecSupports, ecEncodable, Encode
    <2>3. decodedForm(j) = IF m.form = "private" /\ p = "public"
                           THEN "public" ELSE m.form
      BY <1>3 DEF ecSupports, Encode, decodedForm, hasPrivate,
         privateMembers, Policies, Absent, ecPrivateParameters
    <2> QED
      BY <1>1, <2>1, <2>2, <2>3 DEF TripOutcome
  <1>4. CASE symetricSupports(m) /\ symetricEncodable(m, p)
    <2>1. j.private = octParameters /\ j.privateOf = m.pair /\ j.kty = "oct"
            /\ j.size = m.size
      BY <1>4 DEF symetricSupports, Encode, privateMembers, octParameters
    <2>2. Decodable(j)
      BY <1>4, <2>1, DecodableChecks DEF symetricDecodable, symetricEncodable
    <2>3. d.material.form = m.form /\ m.form = "symmetric"
      BY <1>1, <1>4, <2>1 DEF decodedForm, symetricSupports
    <2>4. d.material.pair = m.pair
      BY <1>1, <1>4, <2>1 DEF symetricSupports
    <2> QED
      BY <1>1, <2>2, <2>3, <2>4 DEF TripOutcome
  <1> QED
    BY <1>2, <1>3, <1>4, EncodableChecks

-----------------------------------------------------------------------------
(* Backends.                                                               *)

\* The backend found for a material is the one of its family, and looks at its
\* form (BackendFor).
LEMMA BackendIs ==
    ASSUME NEW m, HasBackend(m)
    PROVE  \/ BackendFor(m) = "rsa" /\ rsaSupports(m)
           \/ BackendFor(m) = "ec" /\ ecSupports(m)
           \/ BackendFor(m) = "symetric" /\ symetricSupports(m)
  <1> DEFINE S == {i \in DOMAIN Registry : Supports(Registry[i], m)}
  <1>1. DOMAIN Registry = {1, 2, 3} /\ Registry[1] = "rsa" /\ Registry[2] = "ec"
            /\ Registry[3] = "symetric"
    BY DEF Registry
  <1>2. \/ rsaSupports(m) /\ ~ecSupports(m) /\ ~symetricSupports(m)
        \/ ~rsaSupports(m) /\ ecSupports(m) /\ ~symetricSupports(m)
        \/ ~rsaSupports(m) /\ ~ecSupports(m) /\ symetricSupports(m)
    BY BackendFound DEF rsaSupports, ecSupports, symetricSupports
  <1>3. rsaSupports(m) => S = {1}
    BY <1>1, <1>2 DEF Supports
  <1>4. ecSupports(m) => S = {2}
    BY <1>1, <1>2 DEF Supports
  <1>5. symetricSupports(m) => S = {3}
    BY <1>1, <1>2 DEF Supports
  <1> QED
    BY <1>1, <1>2, <1>3, <1>4, <1>5, MaxSingleton DEF BackendFor

\* A capability of a table names an operation and an algorithm of the table.
LEMMA CapableHas ==
    ASSUME NEW O, NEW A, NEW o, NEW a
    PROVE  Capability(o, a) \in Capable(O, A) <=> o \in O /\ a \in A
  <1>1. \A p \in O, b \in A :
            Capability(o, a) = Capability(p, b) => o = p /\ a = b
    BY DEF Capability
  <1>2. Capability(o, a) \in Capable(O, A) <=>
            \E p \in O, b \in A : Capability(o, a) = Capability(p, b)
    BY DEF Capable
  <1> QED
    BY <1>1, <1>2

\* What a backend advertises its type has a method for, with an algorithm of
\* this build; and what it signs it verifies (the tables of capabilities).
LEMMA CapabilityFacts ==
    ASSUME NEW m, HasBackend(m), NEW o, NEW a, Capability(o, a) \in Capabilities(m)
    PROVE  /\ o \in Implements(m)
           /\ a \in Algorithms
           /\ ~UnsafeCrypto => a \notin UnsafeAlgorithms
           /\ o = "sign" => Capability("verify", a) \in Capabilities(m)
  <1> USE CapableHas
  <1>1. CASE BackendFor(m) = "rsa" /\ rsaSupports(m)
    <2>1. Capabilities(m) = rsaCapabilities(m.form)
      BY <1>1 DEF Capabilities
    <2>2. Implements(m) =
            IF m.form = "private" THEN rsaPrivateMethods ELSE rsaPublicMethods
      BY <1>1 DEF Implements
    <2>3. CASE m.form = "private"
      <3>1. \/ o \in {"sign", "verify"} /\ a \in RSASig
            \/ o \in {"encrypt", "decrypt"} /\ a \in OAEP
            \/ UnsafeCrypto /\ o \in {"encrypt", "decrypt"} /\ a \in RSAUnsafe
        BY <2>1, <2>3 DEF rsaCapabilities, unsafeCapabilities
      <3>2. o = "sign" => Capability("verify", a) \in Capabilities(m)
        BY <2>1, <2>3, <3>1 DEF rsaCapabilities
      <3> QED
        BY <2>2, <2>3, <3>1, <3>2 DEF rsaPrivateMethods, Algorithms, UnsafeAlgorithms,
           RSASig, PSS, OAEP, RSAUnsafe, DES2
    <2>4. CASE m.form # "private"
      <3>1. \/ o = "verify" /\ a \in RSASig
            \/ o = "encrypt" /\ a \in OAEP
            \/ UnsafeCrypto /\ o = "encrypt" /\ a \in RSAUnsafe
        BY <2>1, <2>4 DEF rsaCapabilities, unsafeCapabilities
      <3> QED
        BY <2>2, <2>4, <3>1 DEF rsaPublicMethods, Algorithms, UnsafeAlgorithms,
           RSASig, PSS, OAEP, RSAUnsafe, DES2
    <2> QED
      BY <2>3, <2>4
  <1>2. CASE BackendFor(m) = "ec" /\ ecSupports(m)
    <2>1. Capabilities(m) = ecCapabilities(m.form)
      BY <1>2 DEF Capabilities
    <2>2. Implements(m) =
            IF m.form = "private" THEN ecPrivateMethods ELSE ecPublicMethods
      BY <1>2 DEF Implements
    <2>3. /\ a \in ES /\ o \in {"sign", "verify"}
          /\ o = "sign" => m.form = "private"
      BY <2>1 DEF ecCapabilities
    <2>4. o = "sign" => Capability("verify", a) \in Capabilities(m)
      BY <2>1, <2>3 DEF ecCapabilities
    <2> QED
      BY <2>2, <2>3, <2>4 DEF ecPrivateMethods, ecPublicMethods, Algorithms,
         UnsafeAlgorithms, ES, RSAUnsafe, DES2
  <1>3. CASE BackendFor(m) = "symetric" /\ symetricSupports(m)
    <2>1. Capabilities(m) = symetricCapabilities
      BY <1>3 DEF Capabilities
    <2>2. Implements(m) = symetricMethods
      BY <1>3 DEF Implements
    <2>3. \/ o \in {"sign", "verify"} /\ a \in HS
          \/ o \in {"encrypt", "decrypt"} /\ a \in GCM
          \/ UnsafeCrypto /\ o \in {"encrypt", "decrypt"} /\ a \in DES2
      BY <2>1 DEF symetricCapabilities, unsafeCapabilities
    <2>4. o = "sign" => Capability("verify", a) \in Capabilities(m)
      BY <2>1, <2>3 DEF symetricCapabilities
    <2> QED
      BY <2>2, <2>3, <2>4 DEF symetricMethods, Algorithms, UnsafeAlgorithms, HS, GCM,
         DES2, RSAUnsafe
  <1> QED
    BY <1>1, <1>2, <1>3, BackendIs

\* A backend asked directly performs no unsafe algorithm in a default build
\* (signatureOptions and encryptionOptions of the backends).
LEMMA UnsafeRefused ==
    ASSUME NEW m, HasBackend(m), ~UnsafeCrypto, NEW o, NEW a \in UnsafeAlgorithms
    PROVE  ~Performs(m, o, a)
  <1>1. a \in RSAUnsafe \cup DES2 /\ a \notin RSASig \cup OAEP \cup ES \cup HS \cup GCM
    BY DEF UnsafeAlgorithms, RSAUnsafe, DES2, RSASig, PSS, OAEP, ES, HS, GCM
  <1>2. /\ ~rsaSigns(m, a) /\ ~rsaEncrypts(m, a) /\ ~ecSigns(m, a)
        /\ ~symetricSigns(m, a) /\ ~symetricEncrypts(m, a)
    BY <1>1 DEF rsaSigns, rsaEncrypts, ecSigns, symetricSigns, symetricEncrypts,
       des2Encrypts
  <1> QED
    BY <1>2, BackendIs DEF Performs

\* A backend that signs with an algorithm verifies with it.
LEMMA SignsAndVerifies ==
    ASSUME NEW m, NEW a, Performs(m, "sign", a)
    PROVE  Performs(m, "verify", a)
  BY DEF Performs, Use
=============================================================================
