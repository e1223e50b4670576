------------------------- MODULE RandomSourceProofs -------------------------
(***************************************************************************)
(* Safety of the random source, for any lifetime, any clock, any lag and   *)
(* any number of failures, as long as the durations the code computes fit  *)
(* into a time.Duration.                                                   *)
(*                                                                         *)
(* KeyInv, which failures, slow goroutines and other callers cannot break, *)
(* carries VerifiableForLifetime.  CalmInv says where an undisturbed watch *)
(* is in time, and carries SigningAvailable and PrePublished.              *)
(***************************************************************************)
EXTENDS RandomSource, FiniteSetTheorems, TLAPS

\* No product of a lifetime that the code computes overflows.
Fits == \A x \in (-Lifetime)..(MaxTime + 2 * Lifetime) : Wrap(x) = x

\* The start of epoch e, counted from base.
Start(e) == e * Lifetime

\* A key of epoch x has not reached its NotAfter.
Live(x) == now < base + Start(x + 2)

\* c came from a rotation to epoch e, and what is live of it the source still
\* has, with the same material.
FromRotation(c, e) ==
    /\ \A x \in Window(e) : \E k \in c : k.epoch = x
    /\ \A k \in c :
        /\ k.epoch \in Window(e)
        /\ k.status = "active" <=> k.epoch = e
        /\ k.notAfter = base + Start(k.epoch) + 2 * Lifetime
        /\ Live(k.epoch) => k.epoch \in keys /\ k.material = made[k.epoch]

\* c came from a rotation no earlier than any the store has signed with.
HandedOver(c) ==
    \E e \in 0..epoch : FromRotation(c, e) /\ \A s \in signed : s[1] <= e

ClockOK ==
    /\ base # Unset => base <= now /\ base + Start(epoch) <= now
    /\ base = Unset => keys = {} /\ epoch = 0 /\ owner = "unbound"
    /\ \A x \in keys : x <= epoch + 1

\* What the store and the source know of each other.
LifeOK ==
    /\ owner \in {"unbound", "bound"} => ~callback /\ ~started
    /\ owner = "unbound" => stored = {} /\ signed = {}
    /\ owner \in {"bound", "active"} => ~closed
    /\ owner = "active" => callback /\ started /\ watchPC # "stopped"
    /\ started <=> watchPC # "off"
    /\ watchPC # "call" => batch = {}

KeysOK ==
    /\ stored # {} => HandedOver(stored)
    /\ watchPC = "call" => HandedOver(batch)
    /\ signed \subseteq Epochs \X Nat
    /\ \A s \in signed : Live(s[1]) => s[1] \in keys /\ s[2] = made[s[1]]
    /\ signed # {} => stored # {}

KeyInv == TypeOK /\ ClockOK /\ LifeOK /\ KeysOK

\* The store and the source keep up with the clock: the store holds the keys
\* of the epoch, or those of the epoch before while watch hands over new ones;
\* the timer is the end of the epoch; and watch is late by no more than lag.
InTime ==
    /\ keys = Window(epoch)
    /\ watchPC # "call" =>
        /\ stored = CandidatesOf(base, epoch, made)
        /\ now <= base + Start(epoch + 1) + lag
    /\ watchPC = "call" =>
        /\ stored = CandidatesOf(base, epoch - 1, made)
        /\ batch = CandidatesOf(base, epoch, made)
        /\ epoch > 0
        /\ now <= base + Start(epoch) + lag
    /\ watchPC = "select" => timer = base + Start(epoch + 1)
    /\ watchPC = "rotate" => now >= base + Start(epoch + 1)

\* Undisturbed, a goroutine waits less than a lifetime, nobody but the store
\* starts the source, and a source the store has bound is in time.
CalmInv ==
    ~disturbed =>
        /\ lag < Lifetime
        /\ owner = "unbound" => base = Unset
        /\ owner \in {"bound", "active"} => InTime

-----------------------------------------------------------------------------
(* Time and epochs.                                                        *)

\* The types of the constants.
LEMMA Constants ==
    /\ Lifetime \in Nat /\ Lifetime > 0
    /\ MaxTime \in Nat /\ MaxLag \in Nat /\ MaxFaults \in Nat
  <1>1. {Lifetime, Width} \subseteq Nat \ {0} /\ {MaxTime, MaxLag, MaxFaults} \subseteq Nat
    BY RandomSourceAssumption
  <1> QED
    BY <1>1

\* Epochs follow each other at the distance of a lifetime.
LEMMA StartStep ==
    ASSUME NEW e \in Int
    PROVE  /\ Start(e) \in Int
           /\ Start(e + 1) = Start(e) + Lifetime
           /\ Start(e + 2) = Start(e) + 2 * Lifetime
           /\ Start(e - 1) = Start(e) - Lifetime
           /\ Start(0) = 0
  BY Constants DEF Start

\* A later epoch starts at least a lifetime later.
LEMMA StartOrder ==
    ASSUME NEW a \in Int, NEW b \in Int
    PROVE  a <= b <=> Start(a) <= Start(b)
  <1>1. a <= b => Start(a) <= Start(b)
    BY Constants DEF Start
  <1>2. b < a => Start(b) + Lifetime <= Start(a)
    BY Constants DEF Start
  <1>3. Lifetime > 0 /\ Lifetime \in Int /\ Start(a) \in Int /\ Start(b) \in Int
    BY Constants, StartStep
  <1> HIDE DEF Start
  <1> QED
    BY <1>1, <1>2, <1>3

\* The epoch of a time is the one epoch that has started and not ended
\* (EpochAt, the division in rotateLocked).
LEMMA EpochOf ==
    ASSUME NEW b \in Int, NEW t \in Int, b <= t
    PROVE  /\ EpochAt(b, t) \in Nat
           /\ b + Start(EpochAt(b, t)) <= t
           /\ t < b + Start(EpochAt(b, t) + 1)
           /\ \A e \in Int : e <= EpochAt(b, t) <=> b + Start(e) <= t
  <1> DEFINE n == t - b
             q == n \div Lifetime
  <1>1. n \in Nat
    OBVIOUS
  <1>2. q \in Nat
    BY <1>1, Constants
  <1>3. Start(q) <= n /\ n < Start(q + 1)
    BY <1>1, Constants DEF Start
  <1>4. EpochAt(b, t) = q
    BY DEF EpochAt
  <1> HIDE DEF q
  <1>5. Start(q) \in Int /\ Start(q + 1) \in Int
    BY <1>2, StartStep
  <1>6. ASSUME NEW e \in Int PROVE e <= q <=> b + Start(e) <= t
    <2>1. Start(e) \in Int
      BY StartStep
    <2>2. CASE e <= q
      <3>1. Start(e) <= Start(q)
        BY <1>2, <2>2, StartOrder
      <3> QED
        BY <1>3, <1>5, <2>1, <2>2, <3>1
    <2>3. CASE ~(e <= q)
      <3>1. Start(q + 1) <= Start(e)
        <4>1. q + 1 \in Int /\ q + 1 <= e
          BY <1>2, <2>3
        <4> QED
          BY <4>1, StartOrder
      <3> QED
        BY <1>3, <1>5, <2>1, <2>3, <3>1
    <2> QED
      BY <2>2, <2>3
  <1> QED
    BY <1>2, <1>3, <1>4, <1>5, <1>6

\* The clock's epochs are numbered up to MaxEpoch.
LEMMA EpochBound ==
    /\ MaxEpoch \in Nat
    /\ Start(MaxEpoch) <= MaxTime
    /\ \A b \in Nat : \A t \in 0..MaxTime : b <= t => EpochAt(b, t) \in 0..MaxEpoch
    /\ \A e \in 0..MaxEpoch : Window(e) \subseteq Epochs
  <1>1. MaxTime \in Nat
    BY Constants
  <1>2. EpochAt(0, MaxTime) = MaxEpoch
    BY <1>1 DEF EpochAt, MaxEpoch
  <1>3. /\ MaxEpoch \in Nat /\ Start(MaxEpoch) \in Int
        /\ Start(MaxEpoch) <= MaxTime
        /\ \A e \in Int : e <= MaxEpoch <=> Start(e) <= MaxTime
    <2>1. /\ MaxEpoch \in Nat
          /\ 0 + Start(MaxEpoch) <= MaxTime
          /\ \A e \in Int : e <= MaxEpoch <=> 0 + Start(e) <= MaxTime
      <3>1. 0 \in Int /\ MaxTime \in Int /\ 0 <= MaxTime
        BY <1>1
      <3> QED
        BY <1>2, <3>1, EpochOf
    <2>2. \A e \in Int : Start(e) \in Int
      BY StartStep
    <2> QED
      BY <2>1, <2>2
  <1>4. ASSUME NEW b \in Nat, NEW t \in 0..MaxTime, b <= t
        PROVE  EpochAt(b, t) \in 0..MaxEpoch
    <2>1. EpochAt(b, t) \in Nat /\ b + Start(EpochAt(b, t)) <= t
      BY <1>1, <1>4, EpochOf
    <2>2. Start(EpochAt(b, t)) \in Int
      BY <2>1, StartStep
    <2>3. Start(EpochAt(b, t)) <= MaxTime
      BY <1>1, <2>1, <2>2
    <2> QED
      BY <1>3, <2>1, <2>3
  <1>5. ASSUME NEW e \in 0..MaxEpoch PROVE Window(e) \subseteq Epochs
    BY <1>3 DEF Window, Epochs
  <1> QED
    BY <1>3, <1>4, <1>5

\* The window of an epoch as an interval.
LEMMA WindowIs ==
    ASSUME NEW e \in Int, NEW x \in Int
    PROVE  x \in Window(e) <=> e - 1 <= x /\ x <= e + 1
  BY DEF Window

\* A key is valid from the start of its epoch for two lifetimes, if that fits
\* into a Duration (generate); and the timer of watch is the end of the epoch.
LEMMA Durations ==
    ASSUME Fits
    PROVE  /\ \A e \in Epochs : Wrap(e * Lifetime) = Start(e)
           /\ \A e \in 0..MaxEpoch : Wrap((e + 1) * Lifetime) = Start(e + 1)
           /\ \A b \in Int, e \in Epochs :
                Validity(b, e) = [from |-> b + Start(e),
                                  to   |-> b + Start(e) + 2 * Lifetime]
  <1>1. MaxTime \in Nat /\ Lifetime \in Nat /\ Lifetime > 0 /\ MaxEpoch \in Nat
    BY Constants, EpochBound
  <1>2. ASSUME NEW e \in Epochs PROVE Wrap(e * Lifetime) = Start(e)
    <2>1. e \in Int /\ -1 <= e /\ e <= MaxEpoch + 1
      BY <1>1 DEF Epochs
    <2>2. Start(-1) <= Start(e) /\ Start(e) <= Start(MaxEpoch + 1)
      BY <1>1, <2>1, StartOrder
    <2>3. Start(-1) = -Lifetime /\ Start(MaxEpoch + 1) = Start(MaxEpoch) + Lifetime
      BY <1>1, StartStep DEF Start
    <2>4. Start(e) \in Int /\ Start(MaxEpoch) \in Int /\ Start(MaxEpoch) <= MaxTime
      BY <1>1, <2>1, StartStep, EpochBound
    <2>5. Start(e) \in (-Lifetime)..(MaxTime + 2 * Lifetime)
      BY <1>1, <2>2, <2>3, <2>4
    <2> QED
      BY <2>5 DEF Fits, Start
  <1>3. Wrap(2 * Lifetime) = 2 * Lifetime
    <2>1. 2 * Lifetime \in (-Lifetime)..(MaxTime + 2 * Lifetime)
      BY <1>1
    <2> QED
      BY <2>1 DEF Fits
  <1>4. ASSUME NEW e \in 0..MaxEpoch PROVE Wrap((e + 1) * Lifetime) = Start(e + 1)
    <2>1. e + 1 \in Epochs
      BY <1>1 DEF Epochs
    <2> QED
      BY <1>2, <2>1
  <1> QED
    BY <1>2, <1>3, <1>4 DEF Validity

-----------------------------------------------------------------------------
(* Candidates and rotations.                                               *)

\* The candidates of a rotation: one per epoch of the window, of which the
\* current one alone is active (withStatus, generate).
LEMMA CandidatesAre ==
    ASSUME Fits, NEW b \in Int, NEW e \in 0..MaxEpoch, NEW m \in [Epochs -> Nat]
    PROVE  LET c == CandidatesOf(b, e, m)
           IN  /\ c \subseteq Candidates
               /\ \A x \in Window(e) : \E k \in c : k.epoch = x /\ k.material = m[x]
               /\ \A k \in c :
                    /\ k.epoch \in Window(e)
                    /\ k.status = "active" <=> k.epoch = e
                    /\ k.material = m[k.epoch]
                    /\ k.notBefore = b + Start(k.epoch)
                    /\ k.notAfter = b + Start(k.epoch) + 2 * Lifetime
               /\ ActiveKeys(c) = {Candidate(b, e, m, e)}
               /\ ActiveIn(c) = {<<e, m[e]>>}
  <1> DEFINE c == CandidatesOf(b, e, m)
  <1>1. Window(e) \subseteq Epochs /\ e \in Window(e)
    BY EpochBound DEF Window
  <1>2. ASSUME NEW x \in Window(e)
        PROVE  Candidate(b, x, m, e) =
                [epoch |-> x, material |-> m[x],
                 status |-> IF x = e THEN "active" ELSE "passive",
                 notBefore |-> b + Start(x), notAfter |-> b + Start(x) + 2 * Lifetime]
    BY <1>1, Durations DEF Candidate
  <1>3. \A x \in Window(e) : x \in Epochs /\ x \in Int /\ m[x] \in Nat /\ Start(x) \in Int
    <2>1. \A x \in Epochs : x \in Int
      BY EpochBound DEF Epochs
    <2> QED
      BY <1>1, <2>1, StartStep
  <1>4. c \subseteq Candidates
    <2> SUFFICES ASSUME NEW x \in Window(e) PROVE Candidate(b, x, m, e) \in Candidates
      BY DEF CandidatesOf
    <2>1. /\ b + Start(x) \in Int
          /\ b + Start(x) + 2 * Lifetime \in Int
      BY <1>3, Constants
    <2> QED
      BY <1>2, <1>3, <2>1 DEF Candidates
  <1>5. \A x \in Window(e) : \E k \in c : k.epoch = x /\ k.material = m[x]
    BY <1>2 DEF CandidatesOf
  <1>6. \A k \in c : /\ k.epoch \in Window(e)
                     /\ k = Candidate(b, k.epoch, m, e)
                     /\ k.status = "active" <=> k.epoch = e
                     /\ k.material = m[k.epoch]
                     /\ k.notBefore = b + Start(k.epoch)
                     /\ k.notAfter = b + Start(k.epoch) + 2 * Lifetime
    BY <1>2 DEF CandidatesOf
  <1>7. Candidate(b, e, m, e) \in c /\ Candidate(b, e, m, e).epoch = e
            /\ Candidate(b, e, m, e).material = m[e]
    BY <1>1, <1>2 DEF CandidatesOf
  <1> HIDE DEF c
  <1>8. ActiveKeys(c) = {Candidate(b, e, m, e)}
    BY <1>6, <1>7 DEF ActiveKeys
  <1>9. ActiveIn(c) = {<<e, m[e]>>}
    BY <1>6, <1>7 DEF ActiveIn
  <1> QED
    BY <1>4, <1>5, <1>6, <1>8, <1>9 DEF c

\* A rotation, finished or failed, moves the epoch to that of the clock and
\* keeps every key that is still live as it is (rotateLocked).
LEMMA Rotation ==
    ASSUME KeyInv, Rotates \/ RotateFails
    PROVE  /\ base' \in 0..MaxTime /\ base' <= now
           /\ base # Unset => base' = base
           /\ epoch' = EpochAt(base', now)
           /\ epoch' \in 0..MaxEpoch /\ epoch <= epoch'
           /\ base' + Start(epoch') <= now
           /\ now < base' + Start(epoch' + 1)
           /\ keys' \subseteq Epochs
           /\ made' \in [Epochs -> Nat]
           /\ Rotates => keys' = Window(epoch')
           /\ \A x \in keys : /\ Live(x) => x \in keys'
                              /\ made'[x] = made[x]
  <1>1. /\ now \in 0..MaxTime /\ now \in Int /\ base \in Int /\ epoch \in 0..MaxEpoch
        /\ epoch \in Int /\ keys \subseteq Epochs /\ made \in [Epochs -> Nat]
    BY Constants, EpochBound DEF KeyInv, TypeOK, Unset
  <1>2. /\ base' = (IF base = Unset THEN now ELSE base)
        /\ epoch' = EpochAt(base', now)
    BY DEF Rotates, RotateFails
  <1>3. base' \in 0..MaxTime /\ base' <= now /\ (base # Unset => base' = base)
    BY <1>1, <1>2, Constants DEF KeyInv, TypeOK, ClockOK, Unset
  <1>4. /\ epoch' \in Nat /\ epoch' \in 0..MaxEpoch
        /\ base' + Start(epoch') <= now
        /\ now < base' + Start(epoch' + 1)
        /\ \A e \in Int : e <= epoch' <=> base' + Start(e) <= now
    <2>1. base' \in Int /\ base' \in Nat
      BY <1>3, Constants
    <2>2. /\ EpochAt(base', now) \in Nat
          /\ base' + Start(EpochAt(base', now)) <= now
          /\ now < base' + Start(EpochAt(base', now) + 1)
          /\ \A e \in Int : e <= EpochAt(base', now) <=> base' + Start(e) <= now
      BY <1>1, <1>3, <2>1, EpochOf
    <2>3. EpochAt(base', now) \in 0..MaxEpoch
      BY <1>1, <1>3, <2>1, EpochBound
    <2> QED
      BY <1>2, <2>2, <2>3
  <1>5. epoch <= epoch'
    <2>1. CASE base = Unset
      BY <1>4, <2>1 DEF KeyInv, ClockOK
    <2>2. CASE base # Unset
      BY <1>1, <1>3, <1>4, <2>2 DEF KeyInv, ClockOK
    <2> QED
      BY <2>1, <2>2
  <1>6. Window(epoch') \subseteq Epochs
    BY <1>4, EpochBound
  <1>7. ASSUME NEW x \in Int, x \in keys, Live(x) PROVE x \in Window(epoch')
    <2>1. base # Unset /\ base' = base
      BY <1>3, <1>7 DEF KeyInv, ClockOK
    <2>2. now < base' + Start(x + 2)
      BY <1>7, <2>1 DEF Live
    <2>3. ~(x + 2 <= epoch')
      <3>1. x + 2 \in Int /\ Start(x + 2) \in Int /\ base' \in Int
        BY <1>1, <2>1, StartStep
      <3> QED
        BY <1>1, <1>4, <2>2, <3>1
    <2>4. x <= epoch + 1
      BY <1>7 DEF KeyInv, ClockOK
    <2>5. PICK e \in Int : e = epoch'
      BY <1>4
    <2>6. e - 1 <= x /\ x <= e + 1
      <3>1. PICK d \in Int : d = epoch
        BY <1>1
      <3>2. d <= e /\ x <= d + 1 /\ ~(x + 2 <= e)
        BY <1>5, <2>3, <2>4, <2>5, <3>1
      <3> QED
        BY <3>2
    <2> QED
      BY <2>5, <2>6, WindowIs
  <1>8. CASE Rotates
    <2>1. keys' = Window(epoch')
      BY <1>2, <1>8 DEF Rotates
    <2>2. made' = [x \in Epochs |->
                    IF x \in Window(epoch') \ keys THEN made[x] + 1 ELSE made[x]]
      BY <1>2, <1>8 DEF Rotates
    <2>3. made' \in [Epochs -> Nat]
      BY <1>1, <2>2
    <2>4. \A x \in keys : made'[x] = made[x]
      BY <1>1, <2>2
    <2>5. \A x \in keys : Live(x) => x \in Window(epoch')
      <3>1. \A x \in keys : x \in Int
        BY <1>1, EpochBound DEF Epochs
      <3> QED
        BY <1>7, <3>1
    <2> QED
      BY <1>2, <1>3, <1>4, <1>5, <1>6, <2>1, <2>3, <2>4, <2>5
  <1>9. CASE RotateFails
    <2>1. PICK bad \in Window(epoch') \ keys :
            /\ keys' = keys \cup {x \in Window(epoch') : x < bad}
            /\ made' = [x \in Epochs |->
                    IF x \in Window(epoch') \ keys /\ x < bad THEN made[x] + 1 ELSE made[x]]
      BY <1>2, <1>9 DEF RotateFails
    <2>2. made' \in [Epochs -> Nat] /\ \A x \in keys : made'[x] = made[x]
      BY <1>1, <2>1
    <2>3. keys' \subseteq Epochs /\ keys \subseteq keys'
      BY <1>1, <1>6, <2>1
    <2>4. Rotates => keys' = Window(epoch')
      BY <1>2 DEF Rotates
    <2> QED
      BY <1>2, <1>3, <1>4, <1>5, <2>2, <2>3, <2>4
  <1> QED
    BY <1>8, <1>9

\* Two more keys are two more at most.
LEMMA TwoMore ==
    ASSUME NEW S, IsFiniteSet(S), NEW a, NEW b, NEW T, T \subseteq S \cup {a, b}
    PROVE  IsFiniteSet(T) /\ Cardinality(T) <= Cardinality(S) + 2
  <1>1. /\ IsFiniteSet(S \cup {a})
        /\ Cardinality(S \cup {a}) \in {Cardinality(S), Cardinality(S) + 1}
    BY FS_AddElement
  <1>2. /\ IsFiniteSet((S \cup {a}) \cup {b})
        /\ Cardinality((S \cup {a}) \cup {b})
            \in {Cardinality(S \cup {a}), Cardinality(S \cup {a}) + 1}
    BY <1>1, FS_AddElement
  <1>3. T \subseteq (S \cup {a}) \cup {b}
    OBVIOUS
  <1>4. IsFiniteSet(T) /\ Cardinality(T) <= Cardinality((S \cup {a}) \cup {b})
    BY <1>2, <1>3, FS_Subset
  <1>5. Cardinality(S) \in Nat /\ Cardinality(T) \in Nat
    BY <1>4, FS_CardinalityType
  <1> QED
    BY <1>1, <1>2, <1>4, <1>5

\* A finished rotation holds three keys; a failed one has added two at most
\* (rotateLocked).
LEMMA RotationCount ==
    ASSUME KeyInv, \/ Rotates /\ faults' = faults
                   \/ RotateFails
    PROVE  Cardinality(keys') <= 3 + 2 * faults'
  <1>1. epoch' = EpochAt(base', now) /\ epoch' \in Int /\ keys \subseteq Epochs
    BY Rotation, EpochBound DEF KeyInv, TypeOK
  <1>2. faults \in Nat
    BY Constants DEF KeyInv, TypeOK
  <1>3. CASE Rotates /\ faults' = faults
    <2>1. keys' \subseteq {epoch'} \cup {epoch' - 1, epoch' + 1}
      BY <1>3, Rotation DEF Window
    <2>2. IsFiniteSet({epoch'}) /\ Cardinality({epoch'}) = 1
      BY FS_Singleton
    <2>3. IsFiniteSet(keys') /\ Cardinality(keys') <= 1 + 2
      BY <2>1, <2>2, TwoMore
    <2>4. Cardinality(keys') \in Nat
      BY <2>3, FS_CardinalityType
    <2> QED
      BY <1>2, <1>3, <2>3, <2>4
  <1>4. CASE RotateFails
    <2>1. PICK bad \in Window(epoch') :
            keys' = keys \cup {x \in Window(epoch') : x < bad}
      BY <1>4, Rotation DEF RotateFails
    <2>2. keys' \subseteq keys \cup {epoch' - 1, epoch'}
      <3>1. PICK e \in Int : e = epoch'
        BY <1>1
      <3>2. bad \in Int /\ bad <= e + 1
        <4>1. bad \in Window(epoch') /\ Window(epoch') = Window(e)
          BY <2>1, <3>1
        <4>2. bad = e - 1 \/ bad = e \/ bad = e + 1
          BY <4>1 DEF Window
        <4> QED
          BY <4>2
      <3>3. ASSUME NEW x \in Int, x \in Window(e), x < bad PROVE x \in {e - 1, e}
        <4>1. e - 1 <= x /\ x <= e + 1
          BY <3>3, WindowIs
        <4> QED
          BY <3>2, <3>3, <4>1
      <3>4. Window(e) \subseteq Int
        BY DEF Window
      <3> QED
        BY <2>1, <3>1, <3>3, <3>4
    <2>3. IsFiniteSet(keys)
      <3>1. IsFiniteSet(Epochs)
        BY EpochBound, FS_Interval DEF Epochs
      <3> QED
        BY <1>1, <3>1, FS_Subset
    <2>4. IsFiniteSet(keys') /\ Cardinality(keys') <= Cardinality(keys) + 2
      BY <2>2, <2>3, TwoMore
    <2>5. Cardinality(keys) \in Nat /\ Cardinality(keys') \in Nat
      BY <2>3, <2>4, FS_CardinalityType
    <2>6. faults' = faults + 1 /\ Cardinality(keys) <= 3 + 2 * faults
      BY <1>4 DEF RotateFails, KeyInv, TypeOK
    <2> QED
      BY <1>2, <2>4, <2>5, <2>6
  <1> QED
    BY <1>3, <1>4

-----------------------------------------------------------------------------
(* What happens to keys that were handed over.                             *)

\* Time and epoch only advance, and keys that are live stay as they are.
KeepsKeys ==
    /\ base # Unset => base' = base
    /\ now' \in Int /\ now <= now'
    /\ epoch' \in Int /\ epoch <= epoch'
    /\ \A x \in keys : (Live(x) => x \in keys') /\ made'[x] = made[x]

\* A rotation keeps what was handed over, and so does a step that leaves the
\* keys alone while time passes.
LEMMA KeepsKeysWhen ==
    ASSUME KeyInv, \/ (Rotates \/ RotateFails) /\ now' = now
                   \/ UNCHANGED keyVars /\ now' \in {now, now + 1}
    PROVE  KeepsKeys
  <1>1. now \in Int /\ epoch \in Int
    BY Constants, EpochBound DEF KeyInv, TypeOK
  <1>2. CASE (Rotates \/ RotateFails) /\ now' = now
    BY <1>1, <1>2, Rotation, EpochBound DEF KeepsKeys
  <1>3. CASE UNCHANGED keyVars /\ now' \in {now, now + 1}
    BY <1>1, <1>3 DEF KeepsKeys, keyVars
  <1> QED
    BY <1>2, <1>3

\* What is live after such a step was live before.
LEMMA LiveBefore ==
    ASSUME KeyInv, KeepsKeys, base # Unset, NEW x \in Int, Live(x)'
    PROVE  Live(x)
  <1>1. now \in Int /\ base \in Int /\ Start(x + 2) \in Int
    BY Constants, StartStep DEF KeyInv, TypeOK, Unset
  <1> QED
    BY <1>1 DEF KeepsKeys, Live

\* Candidates that were handed over stay so.
LEMMA HandedStays ==
    ASSUME KeyInv, KeepsKeys, base # Unset, signed' = signed,
           NEW c, HandedOver(c)
    PROVE  HandedOver(c)'
  <1>1. PICK e \in 0..epoch : FromRotation(c, e) /\ \A s \in signed : s[1] <= e
    BY DEF HandedOver
  <1>2. e \in Int /\ epoch \in Int /\ e \in 0..epoch'
    BY <1>1, EpochBound DEF KeyInv, TypeOK, KeepsKeys
  <1>3. ASSUME NEW k \in c, Live(k.epoch)'
        PROVE  k.epoch \in keys' /\ k.material = made'[k.epoch]
    <2>1. k.epoch \in Int
      BY <1>1, <1>2 DEF FromRotation, Window
    <2>2. Live(k.epoch)
      BY <1>3, <2>1, LiveBefore
    <2> QED
      BY <1>1, <2>2 DEF FromRotation, KeepsKeys
  <1>4. base' = base
    BY DEF KeepsKeys
  <1>5. FromRotation(c, e)'
    BY <1>1, <1>3, <1>4 DEF FromRotation
  <1> QED
    BY <1>1, <1>2, <1>5 DEF HandedOver

\* A step that keeps the keys and stores no new ones keeps what the store and
\* watch hold, if a batch it hands over comes from a rotation.
LEMMA KeysStay ==
    ASSUME KeyInv, KeepsKeys, UNCHANGED <<stored, signed>>,
           watchPC' = "call" => \/ watchPC = "call" /\ batch' = batch
                                \/ HandedOver(batch)'
    PROVE  KeysOK'
  <1>1. CASE base = Unset
    <2>1. owner = "unbound" /\ watchPC = "off"
      BY <1>1 DEF KeyInv, ClockOK, LifeOK
    <2>2. stored' = {} /\ signed' = {} /\ (watchPC' = "call" => HandedOver(batch)')
      BY <2>1 DEF KeyInv, LifeOK
    <2> QED
      BY <2>2 DEF KeysOK
  <1>2. CASE base # Unset
    <2>1. \A c : HandedOver(c) => HandedOver(c)'
      BY <1>2, HandedStays
    <2>2. stored' # {} => HandedOver(stored)'
      <3> SUFFICES ASSUME stored' # {} PROVE HandedOver(stored)'
        OBVIOUS
      <3>1. PICK c : c = stored
        OBVIOUS
      <3>2. c = stored' /\ stored # {}
        BY <3>1
      <3>3. HandedOver(c)
        BY <3>1, <3>2 DEF KeyInv, KeysOK, HandedOver, FromRotation
      <3>4. HandedOver(c)'
        BY <2>1, <3>3
      <3> QED
        BY <3>2, <3>4 DEF HandedOver, FromRotation
    <2>3. watchPC' = "call" => HandedOver(batch)'
      <3> SUFFICES ASSUME watchPC' = "call", watchPC = "call" /\ batch' = batch
                   PROVE  HandedOver(batch)'
        OBVIOUS
      <3>1. PICK c : c = batch
        OBVIOUS
      <3>2. c = batch' /\ watchPC = "call"
        BY <3>1
      <3>3. HandedOver(c)
        BY <3>1, <3>2 DEF KeyInv, KeysOK, HandedOver, FromRotation
      <3>4. HandedOver(c)'
        BY <2>1, <3>3
      <3> QED
        BY <3>2, <3>4 DEF HandedOver, FromRotation
    <2>4. ASSUME NEW s \in signed, Live(s[1])'
          PROVE  s[1] \in keys' /\ s[2] = made'[s[1]]
      <3>1. s[1] \in Int
        BY EpochBound DEF KeyInv, KeysOK, Epochs
      <3>2. Live(s[1])
        BY <1>2, <2>4, <3>1, LiveBefore
      <3> QED
        BY <3>2 DEF KeyInv, KeysOK, KeepsKeys
    <2>5. signed' \subseteq Epochs \X Nat /\ (signed' # {} => stored' # {})
      BY DEF KeyInv, KeysOK
    <2> QED
      BY <2>2, <2>3, <2>4, <2>5 DEF KeysOK
  <1> QED
    BY <1>1, <1>2

\* The keys a rotation leaves are no further ahead than the next epoch
\* (rotateLocked).
LEMMA RotationKeys ==
    ASSUME KeyInv, Rotates \/ RotateFails
    PROVE  \A x \in keys' : x <= epoch' + 1
  <1>1. PICK d \in Int : d = epoch
    BY EpochBound DEF KeyInv, TypeOK
  <1>2. PICK e \in Int : e = epoch' /\ d <= e
    BY <1>1, Rotation, EpochBound
  <1>3. keys' \subseteq keys \cup Window(e)
    <2>1. CASE Rotates
      BY <1>2, <2>1, Rotation
    <2>2. CASE RotateFails
      BY <1>2, <2>2, Rotation DEF RotateFails
    <2> QED
      BY <2>1, <2>2
  <1>4. \A x \in Int : x \in keys => x <= d + 1
    BY <1>1 DEF KeyInv, ClockOK
  <1>5. \A x \in Int : x \in Window(e) => x <= e + 1
    BY WindowIs
  <1>6. keys' \subseteq Int
    BY Rotation, EpochBound DEF Epochs
  <1>7. ASSUME NEW x \in Int, x \in keys' PROVE x <= e + 1
    <2>1. x \in keys \/ x \in Window(e)
      BY <1>3, <1>7
    <2>2. x <= d + 1 \/ x <= e + 1
      BY <1>4, <1>5, <2>1
    <2>3. d <= e
      BY <1>2
    <2> QED
      BY <2>2, <2>3
  <1>8. \A x \in keys' : x <= e + 1
    BY <1>6, <1>7
  <1> QED
    BY <1>2, <1>8

\* The candidates of a rotation are its handover: signing with their active key
\* is signing with the key of the new epoch (rotateLocked, withStatus).
LEMMA NewHandover ==
    ASSUME Fits, KeyInv, Rotates, now' = now,
           NEW e, e = epoch', NEW c, c = CandidatesOf(base', e, made')
    PROVE  /\ c \subseteq Candidates /\ c # {}
           /\ e \in 0..epoch' /\ FromRotation(c, e)'
           /\ ActiveIn(c) = {<<e, made'[e]>>}
           /\ e \in keys' /\ e \in Epochs /\ made'[e] \in Nat
           /\ \A s \in signed : s[1] <= e
  <1>1. PICK b \in Int : b = base'
    BY Rotation, Constants
  <1>2. PICK m \in [Epochs -> Nat] : m = made'
    BY Rotation
  <1>3. e \in 0..MaxEpoch /\ e \in Nat /\ keys' = Window(e) /\ Window(e) \subseteq Epochs
    BY Rotation, EpochBound
  <1>4. c = CandidatesOf(b, e, m)
    BY <1>1, <1>2
  <1>5. /\ c \subseteq Candidates
        /\ \A x \in Window(e) : \E k \in c : k.epoch = x /\ k.material = m[x]
        /\ \A k \in c :
            /\ k.epoch \in Window(e)
            /\ k.status = "active" <=> k.epoch = e
            /\ k.material = m[k.epoch]
            /\ k.notAfter = b + Start(k.epoch) + 2 * Lifetime
        /\ ActiveIn(c) = {<<e, m[e]>>}
    BY <1>3, <1>4, CandidatesAre
  <1>6. e \in Window(e)
    BY <1>3 DEF Window
  <1>7. FromRotation(c, e)'
    BY <1>1, <1>2, <1>3, <1>5 DEF FromRotation
  <1>8. ASSUME NEW s \in signed PROVE s[1] <= e
    <2>1. PICK f \in 0..epoch : s[1] <= f
      BY DEF KeyInv, KeysOK, HandedOver
    <2>2. PICK x \in Int : x = s[1]
      BY EpochBound DEF KeyInv, KeysOK, Epochs
    <2>3. PICK d \in Int : d = epoch /\ d <= e
      BY Rotation, EpochBound DEF KeyInv, TypeOK
    <2>4. f \in Int /\ f <= d /\ x <= f
      BY <2>1, <2>2, <2>3
    <2>5. x <= e
      BY <1>3, <2>3, <2>4
    <2> QED
      BY <2>2, <2>5
  <1> QED
    BY <1>2, <1>3, <1>5, <1>6, <1>7, <1>8

-----------------------------------------------------------------------------
(* KeyInv is inductive.                                                    *)

\* The source's keys and base keep their types, in whatever way a step treats
\* them.
LEMMA KeyTypes ==
    ASSUME KeyInv,
           \/ Rotates /\ faults' = faults
           \/ RotateFails
           \/ UNCHANGED keyVars /\ faults' = faults
    PROVE  /\ base' \in Unset..MaxTime /\ epoch' \in 0..MaxEpoch
           /\ keys' \subseteq Epochs
           /\ Cardinality(keys') <= 3 + 2 * faults'
           /\ made' \in [Epochs -> Nat]
           /\ faults' \in 0..MaxFaults
  <1>1. CASE (Rotates /\ faults' = faults) \/ RotateFails
    <2>1. base' \in Unset..MaxTime
      BY <1>1, Rotation, Constants DEF Unset
    <2>2. faults' \in 0..MaxFaults
      BY <1>1, Constants DEF RotateFails, KeyInv, TypeOK
    <2> QED
      BY <1>1, <2>1, <2>2, Rotation, RotationCount
  <1>2. CASE UNCHANGED keyVars /\ faults' = faults
    BY <1>2 DEF KeyInv, TypeOK, keyVars
  <1> QED
    BY <1>1, <1>2

\* Every step keeps the types.
LEMMA TypeKept ==
    ASSUME Fits, KeyInv, [Next]_vars
    PROVE  TypeOK'
  <1> USE DEF timeVars, keyVars, watchVars, storeVars, lifeVars, faultVars
  <1>0. CASE UNCHANGED vars
    BY <1>0 DEF vars, KeyInv, TypeOK
  <1>1. CASE StoreLoads
    <2>1. CandidatesOf(base', epoch', made') \subseteq Candidates
      <3>1. PICK e, c : e = epoch' /\ c = CandidatesOf(base', e, made')
        OBVIOUS
      <3> QED
        BY <1>1, <3>1, NewHandover DEF StoreLoads
    <2>2. Rotates /\ faults' = faults
      BY <1>1 DEF StoreLoads
    <2> QED
      BY <1>1, <2>1, <2>2, KeyTypes DEF StoreLoads, startLocked, KeyInv, TypeOK
  <1>2. CASE AppLoads
    <2>1. Rotates /\ faults' = faults
      BY <1>2 DEF AppLoads
    <2> QED
      BY <1>2, <2>1, KeyTypes DEF AppLoads, startLocked, KeyInv, TypeOK
  <1>3. CASE LoadFails
    <2>1. RotateFails /\ disturbed' = TRUE
      BY <1>3 DEF LoadFails, RotateFails
    <2> QED
      BY <1>3, <2>1, KeyTypes DEF LoadFails, KeyInv, TypeOK
  <1>4. CASE SetRefreshCallback \/ StoreCloses \/ ClearRefreshCallback \/ Close
    BY <1>4 DEF SetRefreshCallback, StoreCloses, ClearRefreshCallback, Close,
                startLocked, KeyInv, TypeOK
  <1>5. CASE WatchPlan
    <2>1. base + Wrap((epoch + 1) * Lifetime) \in Int
      <3>1. base \in Int /\ epoch \in 0..MaxEpoch /\ epoch \in Int
        BY Constants, EpochBound DEF KeyInv, TypeOK, Unset
      <3>2. Start(epoch + 1) \in Int
        BY <3>1, StartStep
      <3> QED
        BY <3>1, <3>2, Durations
    <2> QED
      BY <1>5, <2>1 DEF WatchPlan, KeyInv, TypeOK
  <1>6. CASE WatchWake \/ WatchTimer \/ WatchDone \/ WatchCall
    BY <1>6 DEF WatchWake, WatchTimer, WatchDone, WatchCall, KeyInv, TypeOK
  <1>7. CASE WatchRotate
    <2>1. CandidatesOf(base', epoch', made') \subseteq Candidates
      <3>1. PICK e, c : e = epoch' /\ c = CandidatesOf(base', e, made')
        OBVIOUS
      <3> QED
        BY <1>7, <3>1, NewHandover DEF WatchRotate
    <2>2. Rotates /\ faults' = faults
      BY <1>7 DEF WatchRotate
    <2> QED
      BY <1>7, <2>1, <2>2, KeyTypes DEF WatchRotate, KeyInv, TypeOK
  <1>8. CASE WatchRotateFails
    <2>1. RotateFails /\ disturbed' = TRUE
      BY <1>8 DEF WatchRotateFails, RotateFails
    <2> QED
      BY <1>8, <2>1, KeyTypes DEF WatchRotateFails, KeyInv, TypeOK
  <1>9. CASE Tick
    <2>1. now' \in 0..MaxTime /\ lag' \in 0..MaxLag
      BY <1>9, Constants DEF Tick, KeyInv, TypeOK
    <2>2. disturbed' \in BOOLEAN
      BY <1>9 DEF Tick
    <2> QED
      BY <1>9, <2>1, <2>2 DEF Tick, KeyInv, TypeOK
  <1> QED
    BY <1>0, <1>1, <1>2, <1>3, <1>4, <1>5, <1>6, <1>7, <1>8, <1>9
    DEF Next, WatchStep, Terminated

\* Which steps rotate, and which leave the keys alone: time passes only in the
\* latter.
LEMMA StepKinds ==
    ASSUME [Next]_vars
    PROVE  \/ (Rotates \/ RotateFails) /\ now' = now
           \/ UNCHANGED keyVars /\ now' \in {now, now + 1}
  <1> USE DEF timeVars, keyVars
  <1>1. CASE StoreLoads \/ AppLoads \/ LoadFails \/ WatchRotate \/ WatchRotateFails
    BY <1>1 DEF StoreLoads, AppLoads, LoadFails, WatchRotate, WatchRotateFails
  <1>2. CASE ~(StoreLoads \/ AppLoads \/ LoadFails \/ WatchRotate \/ WatchRotateFails)
    BY <1>2 DEF Next, WatchStep, Terminated, vars, SetRefreshCallback, StoreCloses,
                ClearRefreshCallback, Close, WatchPlan, WatchWake, WatchTimer,
                WatchCall, WatchDone, Tick
  <1> QED
    BY <1>1, <1>2

\* The epoch never runs ahead of the clock, and the store binds the source only
\* by loading it.
LEMMA ClockKept ==
    ASSUME KeyInv, [Next]_vars
    PROVE  ClockOK'
  <1>1. now \in Int /\ base \in Int /\ epoch \in Int /\ Start(epoch) \in Int
    BY Constants, EpochBound, StartStep DEF KeyInv, TypeOK, Unset
  <1>2. CASE (Rotates \/ RotateFails) /\ now' = now
    <2>1. base' # Unset /\ base' <= now /\ base' + Start(epoch') <= now
      BY <1>2, Rotation DEF Unset
    <2> QED
      BY <1>2, <2>1, RotationKeys DEF ClockOK, Start
  <1>3. CASE UNCHANGED keyVars /\ now' \in {now, now + 1}
    <2>1. base' = Unset => owner' = "unbound"
      <3> SUFFICES ASSUME base = Unset PROVE owner' = "unbound"
        BY <1>3 DEF keyVars
      <3>1. owner = "unbound"
        BY DEF KeyInv, ClockOK
      <3>2. ~StoreLoads
        <4>1. Rotates => base' \in 0..MaxTime
          BY Rotation
        <4>2. base' = -1 /\ -1 \notin 0..MaxTime
          BY <1>3 DEF keyVars, Unset
        <4> QED
          BY <4>1, <4>2 DEF StoreLoads
      <3> QED
        BY <3>1, <3>2 DEF Next, WatchStep, Terminated, vars, storeVars,
            SetRefreshCallback, StoreCloses, ClearRefreshCallback, Close, WatchPlan,
            WatchWake, WatchTimer, WatchCall, WatchDone, Tick, AppLoads, LoadFails,
            WatchRotate, WatchRotateFails
    <2> QED
      BY <1>1, <1>3, <2>1 DEF keyVars, KeyInv, ClockOK, Start
  <1> QED
    BY <1>2, <1>3, StepKinds

\* watch runs from the moment the store's callback is set until the source is
\* closed.
LEMMA LifeKept ==
    ASSUME KeyInv, [Next]_vars
    PROVE  LifeOK'
  <1> USE DEF timeVars, keyVars, watchVars, storeVars, lifeVars, faultVars
  <1>t. started \in BOOLEAN /\ callback \in BOOLEAN
    BY DEF KeyInv, TypeOK
  <1>0. CASE UNCHANGED vars
    BY <1>0 DEF vars, KeyInv, LifeOK
  <1>1. CASE StoreLoads \/ AppLoads \/ LoadFails
    BY <1>1, <1>t DEF StoreLoads, AppLoads, LoadFails, startLocked, KeyInv, LifeOK
  <1>2. CASE SetRefreshCallback
    <2>1. base # Unset
      BY <1>2 DEF SetRefreshCallback, KeyInv, ClockOK
    <2> QED
      BY <1>2, <1>t, <2>1 DEF SetRefreshCallback, startLocked, KeyInv, LifeOK
  <1>3. CASE StoreCloses \/ ClearRefreshCallback \/ Close \/ Tick
    BY <1>3 DEF StoreCloses, ClearRefreshCallback, Close, Tick, KeyInv, LifeOK
  <1>4. CASE WatchStep \/ WatchDone
    BY <1>4 DEF WatchStep, WatchDone, WatchPlan, WatchWake, WatchTimer, WatchRotate,
                WatchRotateFails, WatchCall, KeyInv, LifeOK
  <1> QED
    BY <1>0, <1>1, <1>2, <1>3, <1>4 DEF Next, Terminated

\* Every step keeps what the store holds verifiable.
LEMMA KeysKept ==
    ASSUME Fits, KeyInv, [Next]_vars
    PROVE  KeysOK'
  <1> USE DEF timeVars, watchVars, storeVars
  <1>k. KeepsKeys
    BY StepKinds, KeepsKeysWhen
  <1>1. CASE StoreLoads
    <2>1. PICK e, c : e = epoch' /\ c = CandidatesOf(base', e, made')
      OBVIOUS
    <2>2. now' = now /\ Rotates
      BY <1>1 DEF StoreLoads
    <2>3. /\ c # {} /\ e \in 0..epoch' /\ FromRotation(c, e)'
          /\ ActiveIn(c) = {<<e, made'[e]>>}
          /\ e \in keys' /\ e \in Epochs /\ made'[e] \in Nat
      BY <2>1, <2>2, NewHandover
    <2>4. stored' = c /\ signed' = {<<e, made'[e]>>}
      <3>1. stored' = c /\ signed = {}
        BY <1>1, <2>1 DEF StoreLoads, KeyInv, LifeOK
      <3>2. signed' = signed \cup ActiveIn(c)
        BY <1>1, <3>1 DEF StoreLoads, ActiveIn
      <3> QED
        BY <2>3, <3>1, <3>2
    <2>5. watchPC' # "call"
      BY <1>1 DEF StoreLoads, startLocked, KeyInv, LifeOK
    <2>6. HandedOver(stored)'
      <3>1. \A s \in signed' : s[1] = e
        BY <2>4
      <3>2. e <= e
        BY <2>3, EpochBound DEF Epochs
      <3>3. HandedOver(c)'
        BY <2>3, <3>1, <3>2 DEF HandedOver
      <3> QED
        BY <2>4, <3>3 DEF HandedOver, FromRotation
    <2> QED
      BY <2>3, <2>4, <2>5, <2>6 DEF KeysOK
  <1>2. CASE WatchRotate
    <2>1. PICK e, c : e = epoch' /\ c = CandidatesOf(base', e, made')
      OBVIOUS
    <2>2. now' = now /\ Rotates /\ UNCHANGED <<stored, signed>>
      BY <1>2 DEF WatchRotate
    <2>3. e \in 0..epoch' /\ FromRotation(c, e)' /\ \A s \in signed : s[1] <= e
      BY <2>1, <2>2, NewHandover
    <2>4. HandedOver(c)'
      BY <2>2, <2>3 DEF HandedOver
    <2>5. watchPC' = "call" => batch' = c
      BY <1>2, <2>1 DEF WatchRotate
    <2>6. watchPC' = "call" => HandedOver(batch)'
      BY <2>4, <2>5 DEF HandedOver, FromRotation
    <2> QED
      BY <1>k, <2>2, <2>6, KeysStay
  <1>3. CASE WatchCall /\ owner = "active"
    <2>1. PICK c : c = batch
      OBVIOUS
    <2>2. HandedOver(c)
      BY <1>3, <2>1 DEF WatchCall, KeyInv, KeysOK, HandedOver, FromRotation
    <2>3. PICK e \in 0..epoch : FromRotation(c, e) /\ \A s \in signed : s[1] <= e
      BY <2>2 DEF HandedOver
    <2>4. e \in Int /\ e <= e /\ e \in Window(e)
      BY <2>3, EpochBound DEF KeyInv, TypeOK, Window
    <2>5. UNCHANGED <<now, base, epoch, keys, made>> /\ stored' = c
      BY <1>3, <2>1 DEF WatchCall, keyVars
    <2>6. signed' = signed \cup ActiveIn(c) /\ watchPC' = "plan"
      BY <1>3, <2>1 DEF WatchCall, ActiveIn
    <2>7. c # {} /\ c \subseteq Candidates
      BY <2>1, <2>3, <2>4 DEF FromRotation, KeyInv, TypeOK
    <2>8. ASSUME NEW s \in ActiveIn(c)
          PROVE  /\ s \in Epochs \X Nat /\ s[1] = e
                 /\ Live(s[1]) => s[1] \in keys /\ s[2] = made[s[1]]
      <3>1. PICK k \in c : k.status = "active" /\ s = <<k.epoch, k.material>>
        BY DEF ActiveIn
      <3> QED
        BY <2>3, <2>7, <3>1 DEF FromRotation, Candidates
    <2>9. FromRotation(c, e)'
      BY <2>3, <2>5 DEF FromRotation, Live
    <2>10. \A s \in signed' : s[1] <= e
      BY <2>3, <2>4, <2>6, <2>8
    <2>11. HandedOver(c)'
      BY <2>3, <2>5, <2>9, <2>10 DEF HandedOver
    <2>12. HandedOver(stored)'
      BY <2>5, <2>11 DEF HandedOver, FromRotation
    <2>13. signed' \subseteq Epochs \X Nat
      BY <2>6, <2>8 DEF KeyInv, KeysOK
    <2>14. \A s \in signed' : Live(s[1])' => s[1] \in keys' /\ s[2] = made'[s[1]]
      BY <2>5, <2>6, <2>8 DEF KeyInv, KeysOK, Live
    <2> QED
      BY <2>5, <2>6, <2>7, <2>12, <2>13, <2>14 DEF KeysOK
  <1>4. CASE /\ ~StoreLoads /\ ~WatchRotate /\ ~(WatchCall /\ owner = "active")
    <2>1. /\ UNCHANGED <<stored, signed>>
          /\ watchPC' = "call" => watchPC = "call" /\ batch' = batch
      BY <1>4 DEF Next, WatchStep, Terminated, vars, SetRefreshCallback, StoreCloses,
            ClearRefreshCallback, Close, WatchPlan, WatchWake, WatchTimer, WatchCall,
            WatchDone, Tick, AppLoads, LoadFails, WatchRotateFails, startLocked
    <2> QED
      BY <1>k, <2>1, KeysStay
  <1> QED
    BY <1>1, <1>2, <1>3, <1>4

\* KeyInv is an invariant, whatever fails, lags or calls Load.
THEOREM KeyInvariance ==
    ASSUME Fits
    PROVE  Spec => []KeyInv
  <1>1. Init => KeyInv
    <2> SUFFICES ASSUME Init PROVE KeyInv
      OBVIOUS
    <2>1. TypeOK
      <3>1. Cardinality({}) = 0
        BY FS_EmptySet
      <3>2. Cardinality(keys) <= 3 + 2 * faults
        BY <3>1 DEF Init
      <3>3. made \in [Epochs -> Nat]
        BY DEF Init
      <3>4. /\ now \in 0..MaxTime /\ lag \in 0..MaxLag
            /\ base \in Unset..MaxTime /\ epoch \in 0..MaxEpoch
            /\ faults \in 0..MaxFaults /\ timer \in Int
        BY Constants, EpochBound DEF Init, Unset
      <3> QED
        BY <3>2, <3>3, <3>4 DEF Init, TypeOK
    <2> QED
      BY <2>1 DEF Init, KeyInv, ClockOK, LifeOK, KeysOK
  <1>2. ASSUME KeyInv, [Next]_vars PROVE KeyInv'
    BY <1>2, TypeKept, ClockKept, LifeKept, KeysKept DEF KeyInv
  <1> QED
    BY <1>1, <1>2, PTL DEF Spec

\* Every variable keeps its type, and the source never holds more than the
\* three keys of a window plus those a failed rotation has not dropped yet
\* (rotateLocked, watch).
THEOREM TypeCorrect ==
    ASSUME Fits
    PROVE  Spec => []TypeOK
  <1>1. KeyInv => TypeOK
    BY DEF KeyInv
  <1> QED
    BY <1>1, KeyInvariance, PTL

\* KeyInv says enough for every signature to be verifiable.
LEMMA VerifiableFromKeys ==
    ASSUME KeyInv
    PROVE  VerifiableForLifetime
  <1> SUFFICES ASSUME NEW s \in signed, now < base + (s[1] + 2) * Lifetime
               PROVE  \E k \in stored : <<k.epoch, k.material>> = s /\ now <= k.notAfter
    BY DEF VerifiableForLifetime
  <1>1. PICK x \in Int : x = s[1]
    BY EpochBound DEF KeyInv, KeysOK, Epochs
  <1>2. s = <<x, s[2]>>
    BY <1>1 DEF KeyInv, KeysOK
  <1>3. Live(x) /\ x \in keys /\ s[2] = made[x]
    BY <1>1 DEF KeyInv, KeysOK, Live, Start
  <1>4. PICK e \in 0..epoch : FromRotation(stored, e) /\ x <= e
    BY <1>1 DEF KeyInv, KeysOK, HandedOver
  <1>5. base # Unset
    BY <1>3 DEF KeyInv, ClockOK
  <1>6. PICK b \in Int, t \in Int, d \in Int : b = base /\ t = now /\ d = epoch
    BY Constants, EpochBound DEF KeyInv, TypeOK, Unset
  <1>7. /\ Start(x) \in Int /\ Start(x + 2) \in Int /\ Start(d) \in Int
        /\ Start(x + 2) = Start(x) + 2 * Lifetime
    BY StartStep
  <1>8. b + Start(d) <= t /\ t < b + Start(x + 2)
    BY <1>3, <1>5, <1>6 DEF KeyInv, ClockOK, Live
  <1>9. ~(x + 2 <= d)
    <2>1. ~(Start(x + 2) <= Start(d))
      BY <1>7, <1>8
    <2> QED
      BY <2>1, StartOrder
  <1>10. e \in Int /\ e <= d
    BY <1>4, <1>6
  <1>11. x \in Window(e)
    <2>1. e - 1 <= x /\ x <= e + 1
      BY <1>4, <1>9, <1>10
    <2> QED
      BY <1>10, <2>1, WindowIs
  <1>12. PICK k \in stored : k.epoch = x
    BY <1>4, <1>11 DEF FromRotation
  <1>13. k.material = made[x] /\ k.notAfter = base + Start(x) + 2 * Lifetime
    BY <1>3, <1>4, <1>12 DEF FromRotation
  <1>14. t <= b + Start(x) + 2 * Lifetime
    BY <1>7, <1>8, Constants
  <1> QED
    BY <1>2, <1>3, <1>6, <1>12, <1>13, <1>14

\* A key that was ever active in the store stays there, with the same material
\* and within its validity, for one lifetime after its epoch, even when
\* generation fails, goroutines lag and others call Load (rotateLocked,
\* generate, watch).
THEOREM VerifiableForLifetimeHolds ==
    ASSUME Fits
    PROVE  Spec => []VerifiableForLifetime
  <1>1. KeyInv => VerifiableForLifetime
    BY VerifiableFromKeys
  <1> QED
    BY <1>1, KeyInvariance, PTL

-----------------------------------------------------------------------------
(* CalmInv is inductive, given KeyInv.                                     *)

\* The state as numbers.
LEMMA Numbers ==
    ASSUME KeyInv
    PROVE  /\ now \in Int /\ lag \in Int /\ base \in Int
           /\ epoch \in 0..MaxEpoch /\ epoch \in Int
           /\ made \in [Epochs -> Nat]
           /\ \A e \in Int : Start(e) \in Int
           /\ \A e \in Int : Start(e + 1) = Start(e) + Lifetime
           /\ \A e \in Int : Start(e + 2) = Start(e) + 2 * Lifetime
           /\ Lifetime \in Int /\ Lifetime > 0
  <1>1. /\ now \in Int /\ lag \in Int /\ base \in Int
        /\ epoch \in 0..MaxEpoch /\ epoch \in Int
        /\ made \in [Epochs -> Nat]
    BY Constants, EpochBound DEF KeyInv, TypeOK, Unset
  <1>2. /\ \A e \in Int : Start(e) \in Int
        /\ \A e \in Int : Start(e + 1) = Start(e) + Lifetime
        /\ \A e \in Int : Start(e + 2) = Start(e) + 2 * Lifetime
    BY StartStep
  <1> QED
    BY <1>1, <1>2, Constants

\* Candidates depend on the keys of their own window alone.
LEMMA SameCandidates ==
    ASSUME NEW b, NEW e, NEW m, NEW n, \A x \in Window(e) : m[x] = n[x]
    PROVE  CandidatesOf(b, e, m) = CandidatesOf(b, e, n)
  BY DEF CandidatesOf, Candidate

\* watch, rotating less than a lifetime late, moves to the very next epoch and
\* hands over keys of which the store already has the current one
\* (rotateLocked, watch).
LEMMA RotateInTime ==
    ASSUME Fits, KeyInv, CalmInv, ~disturbed, owner = "active", WatchRotate
    PROVE  InTime'
  <1>1. PICK b \in Int, t \in Int, d \in Int, l \in Int :
            b = base /\ t = now /\ d = epoch /\ l = lag
    BY Numbers
  <1>2. Rotates /\ UNCHANGED <<now, lag, stored>> /\ watchPC = "rotate"
    BY DEF WatchRotate, timeVars, storeVars
  <1>3. /\ l < Lifetime /\ keys = Window(d) /\ stored = CandidatesOf(b, d, made)
        /\ t <= b + Start(d + 1) + l /\ b + Start(d + 1) <= t
    BY <1>1, <1>2 DEF CalmInv, InTime
  <1>4. base # Unset
    BY DEF KeyInv, ClockOK
  <1>5. PICK e \in Int : e = epoch'
    BY Rotation, <1>2, EpochBound
  <1>6. base' = b /\ b + Start(e) <= t /\ t < b + Start(e + 1) /\ keys' = Window(e)
    BY <1>1, <1>2, <1>4, <1>5, Rotation
  <1>7. /\ Start(d) \in Int /\ Start(d + 1) \in Int /\ Start(d + 2) \in Int
        /\ Start(e) \in Int /\ Start(e + 1) \in Int
        /\ Start(d + 1) = Start(d) + Lifetime /\ Start(d + 2) = Start(d) + 2 * Lifetime
        /\ Lifetime \in Int /\ Lifetime > 0
    BY Numbers
  <1>8. e = d + 1
    <2>1. Start(d + 1) < Start(e + 1) /\ Start(e) < Start(d + 2)
      BY <1>3, <1>6, <1>7
    <2>2. ~(e + 1 <= d + 1) /\ ~(d + 2 <= e)
      <3>1. e + 1 \in Int /\ d + 1 \in Int /\ d + 2 \in Int
        OBVIOUS
      <3>2. ~(Start(e + 1) <= Start(d + 1)) /\ ~(Start(d + 2) <= Start(e))
        BY <1>7, <2>1
      <3> QED
        BY <3>1, <3>2, StartOrder
    <2> QED
      BY <2>2
  <1>9. watchPC' = "call" /\ batch' = CandidatesOf(base', epoch', made')
    BY DEF WatchRotate, KeyInv, LifeOK
  <1>10. stored' = CandidatesOf(base', epoch' - 1, made')
    <2>1. PICK m : m = made'
      OBVIOUS
    <2>2. PICK n : n = made
      OBVIOUS
    <2>3. \A x \in Window(d) : n[x] = m[x]
      BY <1>2, <1>3, <2>1, <2>2, Rotation
    <2>4. CandidatesOf(b, d, n) = CandidatesOf(b, d, m)
      BY <2>3, SameCandidates
    <2>5. d = e - 1
      BY <1>8
    <2>6. stored' = CandidatesOf(b, e - 1, m)
      BY <1>2, <1>3, <2>2, <2>4, <2>5
    <2> QED
      BY <1>5, <1>6, <2>1, <2>6
  <1>11. epoch' > 0
    <2>1. d >= 0
      BY <1>1 DEF KeyInv, TypeOK
    <2>2. e > 0
      BY <1>8, <2>1
    <2> QED
      BY <1>5, <2>2
  <1>12. now' <= base' + Start(epoch') + lag'
    <2>1. t <= b + Start(e) + l
      BY <1>3, <1>8
    <2> QED
      BY <1>1, <1>2, <1>5, <1>6, <2>1
  <1> QED
    BY <1>5, <1>6, <1>9, <1>10, <1>11, <1>12 DEF InTime

\* As time passes watch falls due at the end of the epoch, and its lag counts
\* from there (Tick).
LEMMA TickInTime ==
    ASSUME Fits, KeyInv, CalmInv, ~disturbed, owner \in {"bound", "active"}, Tick
    PROVE  InTime'
  <1>1. PICK b \in Int, t \in Int, d \in Int, l \in Int :
            b = base /\ t = now /\ d = epoch /\ l = lag
    BY Numbers
  <1>2. /\ UNCHANGED <<base, epoch, keys, made, watchPC, timer, batch, stored>>
        /\ now' = t + 1
    BY <1>1 DEF Tick, keyVars, watchVars, storeVars
  <1>3. Start(d) \in Int /\ Start(d + 1) \in Int /\ InTime
    BY Numbers DEF CalmInv
  <1>4. CASE Runnable
    <2>1. lag' = l + 1
      BY <1>1, <1>4 DEF Tick
    <2>2. /\ watchPC # "call" => t + 1 <= b + Start(d + 1) + (l + 1)
          /\ watchPC = "call" => t + 1 <= b + Start(d) + (l + 1)
          /\ watchPC = "rotate" => t + 1 >= b + Start(d + 1)
      <3>1. /\ watchPC # "call" => t <= b + Start(d + 1) + l
            /\ watchPC = "call" => t <= b + Start(d) + l
            /\ watchPC = "rotate" => t >= b + Start(d + 1)
        BY <1>1, <1>3 DEF InTime
      <3> QED
        BY <1>3, <3>1
    <2> QED
      BY <1>1, <1>2, <1>3, <2>1, <2>2 DEF InTime
  <1>5. CASE ~Runnable
    <2>1. watchPC = "select" /\ ~(now >= timer)
      BY <1>5 DEF Runnable, KeyInv, LifeOK, TypeOK
    <2>2. timer = b + Start(d + 1) /\ lag' = 0
      BY <1>1, <1>3, <1>5, <2>1 DEF Tick, InTime
    <2>3. t + 1 <= b + Start(d + 1) + 0
      <3>1. ~(t >= b + Start(d + 1))
        BY <1>1, <2>1, <2>2
      <3> QED
        BY <1>3, <3>1
    <2> QED
      BY <1>1, <1>2, <1>3, <2>1, <2>2, <2>3 DEF InTime
  <1> QED
    BY <1>4, <1>5

\* Every step keeps CalmInv: a step that disturbs says so, and the others keep
\* the source in time.
LEMMA CalmKept ==
    ASSUME Fits, KeyInv, CalmInv, [Next]_vars
    PROVE  CalmInv'
  <1> USE DEF timeVars, keyVars, watchVars, storeVars, lifeVars, faultVars
  <1>0. CASE UNCHANGED vars
    BY <1>0 DEF vars, CalmInv, InTime
  <1>1. CASE StoreLoads
    <2> SUFFICES ASSUME ~disturbed
                 PROVE  lag' < Lifetime /\ owner' = "bound" /\ InTime'
      BY <1>1 DEF StoreLoads, CalmInv
    <2>1. lag' < Lifetime /\ owner' = "bound"
      BY <1>1 DEF StoreLoads, CalmInv
    <2>2. watchPC' = "off"
      BY <1>1 DEF StoreLoads, startLocked, KeyInv, LifeOK
    <2>3. keys' = Window(epoch') /\ stored' = CandidatesOf(base', epoch', made')
      BY <1>1, Rotation DEF StoreLoads
    <2>4. now' <= base' + Start(epoch' + 1) + lag'
      <3>1. PICK b \in Int, e \in Int : b = base' /\ e = epoch'
        BY <1>1, Rotation, Constants, EpochBound DEF StoreLoads
      <3>2. PICK t \in Int, l \in Int : t = now' /\ l = lag' /\ l >= 0
        BY <1>1, Constants DEF StoreLoads, KeyInv, TypeOK
      <3>3. t < b + Start(e + 1)
        BY <1>1, <3>1, <3>2, Rotation DEF StoreLoads
      <3>4. t <= b + Start(e + 1) + l
        <4>1. Start(e + 1) \in Int
          BY Numbers
        <4> QED
          BY <3>2, <3>3, <4>1
      <3> QED
        BY <3>1, <3>2, <3>4
    <2> QED
      BY <2>1, <2>2, <2>3, <2>4 DEF InTime
  <1>2. CASE AppLoads \/ LoadFails \/ WatchRotateFails
    <2>1. disturbed' = TRUE
      BY <1>2 DEF AppLoads, LoadFails, WatchRotateFails, RotateFails
    <2> QED
      BY <2>1 DEF CalmInv
  <1>3. CASE SetRefreshCallback
    <2>1. watchPC = "off" /\ watchPC' \in {"off", "plan"}
      BY <1>3 DEF SetRefreshCallback, startLocked, KeyInv, LifeOK
    <2> QED
      BY <1>3, <2>1 DEF SetRefreshCallback, CalmInv, InTime
  <1>4. CASE StoreCloses \/ ClearRefreshCallback \/ Close
    BY <1>4 DEF StoreCloses, ClearRefreshCallback, Close, CalmInv, InTime
  <1>5. CASE WatchPlan
    <2>1. base + Wrap((epoch + 1) * Lifetime) = base + Start(epoch + 1)
      BY Numbers, Durations
    <2> QED
      BY <1>5, <2>1 DEF WatchPlan, CalmInv, InTime
  <1>6. CASE WatchWake \/ WatchTimer
    BY <1>6 DEF WatchWake, WatchTimer, CalmInv, InTime
  <1>7. CASE WatchDone
    BY <1>7 DEF WatchDone, KeyInv, LifeOK, CalmInv
  <1>8. CASE WatchRotate
    <2>1. UNCHANGED <<disturbed, lag, owner>> /\ owner \notin {"unbound", "bound"}
      BY <1>8 DEF WatchRotate, KeyInv, LifeOK
    <2> QED
      BY <1>8, <2>1, RotateInTime DEF CalmInv
  <1>9. CASE WatchCall
    <2>1. UNCHANGED <<disturbed, lag, owner>> /\ owner \notin {"unbound", "bound"}
      BY <1>9 DEF WatchCall, KeyInv, LifeOK
    <2>2. ASSUME ~disturbed, owner = "active" PROVE InTime'
      <3>1. UNCHANGED <<now, lag, base, epoch, keys, made>> /\ watchPC = "call"
                /\ watchPC' = "plan" /\ stored' = batch
        BY <1>9, <2>2 DEF WatchCall
      <3>2. InTime
        BY <2>2 DEF CalmInv
      <3>3. now <= base + Start(epoch + 1) + lag
        <4>1. PICK b \in Int, t \in Int, d \in Int, l \in Int :
                b = base /\ t = now /\ d = epoch /\ l = lag
          BY Numbers
        <4>2. t <= b + Start(d) + l
          BY <3>1, <3>2, <4>1 DEF InTime
        <4>3. t <= b + Start(d + 1) + l
          BY <4>2, Numbers
        <4> QED
          BY <4>1, <4>3
      <3> QED
        BY <3>1, <3>2, <3>3 DEF InTime
    <2> QED
      BY <2>1, <2>2 DEF CalmInv
  <1>10. CASE Tick
    <2> SUFFICES ASSUME ~disturbed' PROVE CalmInv'
      BY DEF CalmInv
    <2>1. ~disturbed /\ ~(lag' >= Lifetime) /\ UNCHANGED <<owner, base>>
      BY <1>10 DEF Tick
    <2>2. lag' < Lifetime
      <3>1. lag' \in Int
        BY <1>10, Numbers DEF Tick
      <3> QED
        BY <2>1, <3>1, Constants
    <2> QED
      BY <1>10, <2>1, <2>2, TickInTime DEF CalmInv
  <1> QED
    BY <1>0, <1>1, <1>2, <1>3, <1>4, <1>5, <1>6, <1>7, <1>8, <1>9, <1>10
    DEF Next, WatchStep, Terminated

\* Undisturbed, the source is in time.
THEOREM CalmInvariance ==
    ASSUME Fits
    PROVE  Spec => []CalmInv
  <1>1. Init => CalmInv
    BY Constants DEF Init, CalmInv
  <1>2. ASSUME KeyInv, CalmInv, [Next]_vars PROVE CalmInv'
    BY <1>2, CalmKept
  <1> QED
    BY <1>1, <1>2, KeyInvariance, PTL DEF Spec

\* In time, the store holds one active key, within its validity.
LEMMA SigningInTime ==
    ASSUME Fits, KeyInv, CalmInv
    PROVE  SigningAvailable
  <1> SUFFICES ASSUME owner \in {"bound", "active"}, ~disturbed
               PROVE  \E k \in stored : ActiveKeys(stored) = {k} /\ ValidAt(k, now)
    BY DEF SigningAvailable
  <1>1. PICK b \in Int, t \in Int, d \in Int, l \in Int :
            b = base /\ t = now /\ d = epoch /\ l = lag
    BY Numbers
  <1>2. PICK m \in [Epochs -> Nat] : m = made
    BY Numbers
  <1>3. l < Lifetime /\ InTime /\ d \in 0..MaxEpoch /\ b + Start(d) <= t
    BY <1>1, Numbers DEF CalmInv, KeyInv, ClockOK
  <1>4. PICK e \in 0..MaxEpoch :
            /\ stored = CandidatesOf(b, e, m) /\ e <= d
            /\ t <= b + Start(e + 1) + l
    <2>1. CASE watchPC = "call"
      <3>1. /\ stored = CandidatesOf(b, d - 1, m) /\ d > 0
            /\ t <= b + Start(d) + l
        BY <1>1, <1>2, <1>3, <2>1 DEF InTime
      <3>2. d - 1 \in 0..MaxEpoch /\ d - 1 <= d /\ d = (d - 1) + 1
        BY <1>3, <3>1, EpochBound
      <3> QED
        BY <3>1, <3>2
    <2>2. CASE watchPC # "call"
      BY <1>1, <1>2, <1>3, <2>2 DEF InTime
    <2> QED
      BY <2>1, <2>2
  <1>5. e \in Int
    BY <1>4, EpochBound
  <1> DEFINE k == Candidate(b, e, m, e)
  <1>6. /\ ActiveKeys(stored) = {k} /\ k \in stored
        /\ k.notBefore = b + Start(e) /\ k.notAfter = b + Start(e) + 2 * Lifetime
    <2>1. /\ ActiveKeys(stored) = {k}
          /\ \A x \in stored : /\ x.notBefore = b + Start(x.epoch)
                               /\ x.notAfter = b + Start(x.epoch) + 2 * Lifetime
      BY <1>4, CandidatesAre
    <2>2. k \in stored /\ k.epoch = e
      BY <2>1 DEF ActiveKeys, Candidate
    <2> QED
      BY <2>1, <2>2
  <1>7. b + Start(e) <= t /\ t <= b + Start(e) + 2 * Lifetime
    <2>1. /\ Start(e) \in Int /\ Start(d) \in Int /\ Start(e + 1) = Start(e) + Lifetime
          /\ Lifetime \in Int
      BY <1>5, Numbers
    <2>2. Start(e) <= Start(d)
      BY <1>4, <1>5, StartOrder
    <2>3. t <= b + Start(e + 1) + l /\ l < Lifetime /\ b + Start(d) <= t
      BY <1>3, <1>4
    <2> QED
      BY <2>1, <2>2, <2>3
  <1> HIDE DEF k
  <1> QED
    BY <1>1, <1>6, <1>7 DEF ValidAt

\* As long as goroutines are scheduled within one lifetime, generation does not
\* fail and the store alone calls Load, a bound store holds exactly one active
\* key at every moment, and it is within its validity (watch, generate).
THEOREM SigningAvailableHolds ==
    ASSUME Fits
    PROVE  Spec => []SigningAvailable
  <1>1. KeyInv /\ CalmInv => SigningAvailable
    BY SigningInTime
  <1> QED
    BY <1>1, KeyInvariance, CalmInvariance, PTL

\* What a step may make active, the store has held as passive.
PrePublishedStep ==
    (stored # {} /\ ~disturbed) =>
        \A s \in ActiveIn(stored') :
            \E k \in stored : <<k.epoch, k.material>> = s

\* A step in time makes no key active that the store did not hold.
LEMMA PrePublishedInTime ==
    ASSUME Fits, KeyInv, CalmInv, [Next]_vars
    PROVE  PrePublishedStep
  <1> SUFFICES ASSUME stored # {}, ~disturbed, NEW s \in ActiveIn(stored')
               PROVE  \E k \in stored : <<k.epoch, k.material>> = s
    BY DEF PrePublishedStep
  <1>1. CASE WatchCall /\ owner = "active"
    <2>1. InTime /\ stored' = batch /\ watchPC = "call"
      BY <1>1 DEF WatchCall, CalmInv
    <2>2. PICK b \in Int, d \in Int : b = base /\ d = epoch
      BY Numbers
    <2>3. PICK m \in [Epochs -> Nat] : m = made
      BY Numbers
    <2>4. /\ stored = CandidatesOf(b, d - 1, m) /\ stored' = CandidatesOf(b, d, m)
          /\ d > 0 /\ d \in 0..MaxEpoch
      BY <2>1, <2>2, <2>3, Numbers DEF InTime
    <2>5. d - 1 \in 0..MaxEpoch
      BY <2>4, EpochBound
    <2>6. s = <<d, m[d]>>
      <3>1. PICK c : c = CandidatesOf(b, d, m)
        OBVIOUS
      <3>2. ActiveIn(c) = {<<d, m[d]>>}
        BY <2>4, <3>1, CandidatesAre
      <3>3. s \in ActiveIn(c)
        BY <2>4, <3>1 DEF ActiveIn
      <3> QED
        BY <3>2, <3>3
    <2>7. d \in Window(d - 1)
      BY WindowIs
    <2>8. \E k \in stored : k.epoch = d /\ k.material = m[d]
      BY <2>4, <2>5, <2>7, CandidatesAre
    <2> QED
      BY <2>6, <2>8
  <1>2. CASE ~(WatchCall /\ owner = "active")
    <2>1. ~StoreLoads
      BY DEF StoreLoads, KeyInv, LifeOK
    <2>2. stored' = stored
      BY <1>2, <2>1 DEF Next, WatchStep, Terminated, vars, storeVars, SetRefreshCallback,
            StoreCloses, ClearRefreshCallback, Close, WatchPlan, WatchWake, WatchTimer,
            WatchCall, WatchDone, Tick, AppLoads, LoadFails, WatchRotate,
            WatchRotateFails
    <2> QED
      BY <2>2 DEF ActiveIn
  <1> QED
    BY <1>1, <1>2

\* The store never switches to an active key it did not already hold: verifiers
\* fed from the store know a key before the first signature with it, while
\* undisturbed (rotateLocked generates one epoch ahead).
THEOREM PrePublishedHolds ==
    ASSUME Fits
    PROVE  Spec => PrePublished
  <1>1. KeyInv /\ CalmInv /\ [Next]_vars => [PrePublishedStep]_vars
    BY PrePublishedInTime
  <1>2. Spec => [][PrePublishedStep]_vars
    BY <1>1, KeyInvariance, CalmInvariance, PTL DEF Spec
  <1> QED
    BY <1>2 DEF PrePublished, PrePublishedStep
=============================================================================
