---------------------------- MODULE RandomSource ----------------------------
(***************************************************************************)
(* The random key source (keysource/randomsource): keys generated in       *)
(* memory and rotated once per lifetime, the previous one kept and the     *)
(* next one generated ahead, and the goroutine watch that publishes each   *)
(* rotation to the store.                                                  *)
(*                                                                         *)
(* Time is a clock that ticks by one.  Key material is the number of times *)
(* a key was generated for its epoch, so a second key for an epoch differs *)
(* from the first.  A time.Duration has Width bits and wraps around.       *)
(***************************************************************************)
EXTENDS Integers, FiniteSets

CONSTANTS
    Lifetime,    \* the lifetime given to New, any positive Duration
    Width,       \* bits of a Duration
    MaxTime,     \* bound: the clock
    MaxLag,      \* ticks a goroutine that can run may be kept waiting
    MaxFaults    \* bound: failures of key generation

Wrap(x) == ((x + 2^(Width - 1)) % 2^Width) - 2^(Width - 1)

ASSUME RandomSourceAssumption ==
    /\ {Lifetime, Width} \subseteq Nat \ {0}
    /\ Wrap(Lifetime) = Lifetime
    /\ {MaxTime, MaxLag, MaxFaults} \subseteq Nat

VARIABLES
    now,       \* the clock
    lag,       \* ticks since the watch goroutine or the store could run
    base,      \* Source.base, -1 while it is zero
    epoch,     \* Source.epoch
    keys,      \* the epochs Source.keys has a key for
    made,      \* keys generated so far for each epoch
    callback,  \* Source.callback is not nil
    started,   \* Source.started
    closed,    \* Source.closed, and with it ctx
    wake,      \* a token is in the wake channel
    watchPC,   \* where the watch goroutine is
    timer,     \* when its timer fires
    batch,     \* the candidates it is handing to the callback
    owner,     \* what the store has done with the source
    stored,    \* the candidates the store holds
    signed,    \* history: keys that have been active in the store
    faults,    \* failures so far
    disturbed  \* history: a generation failed, a goroutine was kept waiting for
               \* a lifetime, or somebody else than the store called Load

timeVars   == <<now, lag>>
keyVars    == <<base, epoch, keys, made>>
watchVars  == <<watchPC, timer, batch>>
storeVars  == <<owner, stored, signed>>
lifeVars   == <<callback, started, closed, wake>>
faultVars  == <<faults, disturbed>>
vars == <<timeVars, keyVars, lifeVars, watchVars, storeVars, faultVars>>

MaxEpoch == MaxTime \div Lifetime
Epochs   == -1 .. MaxEpoch + 1
Unset    == -1

Candidates ==
    [epoch : Epochs, material : Nat, status : {"active", "passive"},
     notBefore : Int, notAfter : Int]

-----------------------------------------------------------------------------
(* rotateLocked and generate.                                              *)

\* NotAfter when a key is given one lifetime and not two.
ValiditySingle(b, e) ==
    [from |-> b + Wrap(e * Lifetime), to |-> b + Wrap(e * Lifetime) + Lifetime]

\* generate: a key is valid from the start of its epoch for two lifetimes,
\* the product being a Duration.
Validity(b, e) ==
    LET start == b + Wrap(e * Lifetime)
    IN  [from |-> start, to |-> start + Wrap(2 * Lifetime)]

\* The epoch of time t, given base b: zero on the first call.
EpochAt(b, t) == (t - b) \div Lifetime

\* The epochs whose keys rotateLocked keeps, generating those missing.
Window(e) == {e - 1, e, e + 1}

\* withStatus: the key of the current epoch is active, its neighbours passive.
Candidate(b, e, m, current) ==
    [epoch |-> e, material |-> m[e],
     status |-> IF e = current THEN "active" ELSE "passive",
     notBefore |-> Validity(b, e).from, notAfter |-> Validity(b, e).to]

\* The candidates of a rotation to epoch e, given the keys made.
CandidatesOf(b, e, m) == {Candidate(b, x, m, e) : x \in Window(e)}

\* rotateLocked that never deletes a key.
RotatesKeepsAll ==
    LET b == IF base = Unset THEN now ELSE base
        e == EpochAt(b, now)
    IN  /\ base' = b
        /\ epoch' = e
        /\ made' = [x \in Epochs |->
                IF x \in Window(e) \ keys THEN made[x] + 1 ELSE made[x]]
        /\ keys' = keys \cup Window(e)

\* rotateLocked that generates the three keys anew each time.
RotatesAfresh ==
    LET b == IF base = Unset THEN now ELSE base
        e == EpochAt(b, now)
    IN  /\ base' = b
        /\ epoch' = e
        /\ made' = [x \in Epochs |-> IF x \in Window(e) THEN made[x] + 1 ELSE made[x]]
        /\ keys' = Window(e)

\* rotateLocked at the present time: every key of the window is at hand.
Rotates ==
    LET b == IF base = Unset THEN now ELSE base
        e == EpochAt(b, now)
    IN  /\ base' = b
        /\ epoch' = e
        /\ made' = [x \in Epochs |->
                IF x \in Window(e) \ keys THEN made[x] + 1 ELSE made[x]]
        /\ keys' = Window(e)

\* Generation fails for one of the missing epochs: those before it, in order,
\* were generated; base and epoch have moved; no key has been dropped.
RotateFails ==
    LET b == IF base = Unset THEN now ELSE base
        e == EpochAt(b, now)
    IN  \E bad \in Window(e) \ keys :
            /\ base' = b
            /\ epoch' = e
            /\ keys' = keys \cup {x \in Window(e) : x < bad}
            /\ made' = [x \in Epochs |->
                    IF x \in Window(e) \ keys /\ x < bad THEN made[x] + 1 ELSE made[x]]
            /\ faults < MaxFaults
            /\ faults' = faults + 1
            /\ disturbed' = TRUE

Init ==
    /\ now = 0 /\ lag = 0
    /\ base = Unset /\ epoch = 0
    /\ keys = {} /\ made = [e \in Epochs |-> 0]
    /\ callback = FALSE /\ started = FALSE /\ closed = FALSE /\ wake = FALSE
    /\ watchPC = "off" /\ timer = 0 /\ batch = {}
    /\ owner = "unbound" /\ stored = {} /\ signed = {}
    /\ faults = 0 /\ disturbed = FALSE

-----------------------------------------------------------------------------
(* Starting watch, with mu held.                                           *)

startLocked(hasCallback, hasBase) ==
    IF closed \/ started \/ ~hasCallback \/ ~hasBase
    THEN UNCHANGED <<started, watchPC>>
    ELSE started' = TRUE /\ watchPC' = "plan"

\* The keys of candidates c that are active, by epoch and material.
ActiveIn(c) == {<<k.epoch, k.material>> : k \in {x \in c : x.status = "active"}}

-----------------------------------------------------------------------------
(* Load, SetRefreshCallback and Close.                                     *)

\* The store's Load, whose keys it commits.
StoreLoads ==
    /\ owner = "unbound"
    /\ ~closed
    /\ Rotates
    /\ startLocked(callback, TRUE)
    /\ owner' = "bound"
    /\ stored' = CandidatesOf(base', epoch', made')
    /\ signed' = signed \cup ActiveIn(stored')
    /\ UNCHANGED <<timeVars, callback, closed, wake, timer, batch, faultVars>>

\* Any other caller's Load: the source rotates, the store learns nothing.  A
\* context found done after the rotation returns before startLocked.
AppLoads ==
    /\ ~closed
    /\ Rotates
    /\ startLocked(callback, TRUE) \/ UNCHANGED <<started, watchPC>>
    /\ disturbed' = TRUE
    /\ UNCHANGED <<timeVars, callback, closed, wake, timer, batch, storeVars,
                   faults>>

LoadFails ==
    /\ ~closed
    /\ RotateFails
    /\ UNCHANGED <<timeVars, lifeVars, watchVars, storeVars>>

SetRefreshCallback ==
    /\ owner = "bound"
    /\ owner' = "active"
    /\ callback' = TRUE
    /\ startLocked(TRUE, base # Unset)
    /\ wake' = TRUE
    /\ UNCHANGED <<timeVars, keyVars, closed, timer, batch, stored, signed,
                   faultVars>>

StoreCloses ==
    /\ owner = "active"
    /\ owner' = "closing"
    /\ UNCHANGED <<timeVars, keyVars, lifeVars, watchVars, stored, signed,
                   faultVars>>

ClearRefreshCallback ==
    /\ owner = "closing"
    /\ owner' = "detached"
    /\ callback' = FALSE
    /\ wake' = TRUE
    /\ UNCHANGED <<timeVars, keyVars, started, closed, watchVars, stored,
                   signed, faultVars>>

\* The store closes a detached source, or one it is still loading.
Close ==
    /\ owner \in {"unbound", "detached"}
    /\ ~closed
    /\ closed' = TRUE
    /\ UNCHANGED <<timeVars, keyVars, callback, started, wake, watchVars,
                   storeVars, faultVars>>

-----------------------------------------------------------------------------
(* watch.                                                                  *)

\* A deadline one epoch too late.
WatchPlanLate ==
    /\ watchPC = "plan"
    /\ watchPC' = "select"
    /\ timer' = base + Wrap((epoch + 2) * Lifetime)
    /\ UNCHANGED <<timeVars, keyVars, lifeVars, batch, storeVars, faultVars>>

\* Under mu: the start of the next epoch.
WatchPlan ==
    /\ watchPC = "plan"
    /\ watchPC' = "select"
    /\ timer' = base + Wrap((epoch + 1) * Lifetime)
    /\ UNCHANGED <<timeVars, keyVars, lifeVars, batch, storeVars, faultVars>>

\* A select that goes round again when the context is done.
WatchDoneContinues ==
    /\ watchPC = "select"
    /\ closed
    /\ watchPC' = "plan"
    /\ UNCHANGED <<timeVars, keyVars, lifeVars, timer, batch, storeVars, faultVars>>

\* The three ready channels of the select, any of which may be taken.
WatchDone ==
    /\ watchPC = "select"
    /\ closed
    /\ watchPC' = "stopped"
    /\ UNCHANGED <<timeVars, keyVars, lifeVars, timer, batch, storeVars, faultVars>>

WatchWake ==
    /\ watchPC = "select"
    /\ wake
    /\ wake' = FALSE
    /\ watchPC' = "plan"
    /\ UNCHANGED <<timeVars, keyVars, callback, started, closed, timer, batch,
                   storeVars, faultVars>>

WatchTimer ==
    /\ watchPC = "select"
    /\ now >= timer
    /\ watchPC' = "rotate"
    /\ UNCHANGED <<timeVars, keyVars, lifeVars, timer, batch, storeVars, faultVars>>

\* Under mu: rotate and pick up the callback.
WatchRotate ==
    /\ watchPC = "rotate"
    /\ Rotates
    /\ IF callback
       THEN watchPC' = "call" /\ batch' = CandidatesOf(base', epoch', made')
       ELSE watchPC' = "plan" /\ UNCHANGED batch
    /\ UNCHANGED <<timeVars, lifeVars, timer, storeVars, faultVars>>

WatchRotateFails ==
    /\ watchPC = "rotate"
    /\ RotateFails
    /\ watchPC' = "plan"
    /\ UNCHANGED <<timeVars, lifeVars, timer, batch, storeVars>>

\* The callback: the store takes the candidates unless it is closed.
WatchCall ==
    /\ watchPC = "call"
    /\ watchPC' = "plan"
    /\ batch' = {}
    /\ IF owner = "active"
       THEN stored' = batch /\ signed' = signed \cup ActiveIn(batch)
       ELSE UNCHANGED <<stored, signed>>
    /\ UNCHANGED <<timeVars, keyVars, lifeVars, timer, owner, faultVars>>

WatchStep ==
    \/ WatchPlan \/ WatchWake \/ WatchTimer \/ WatchRotate
    \/ WatchRotateFails \/ WatchCall

-----------------------------------------------------------------------------
\* Somebody has work to do: watch is not blocked in its select, or the store
\* is between Load and SetRefreshCallback.
Runnable ==
    \/ owner = "bound"
    \/ watchPC \in {"plan", "rotate", "call"}
    \/ watchPC = "select" /\ (wake \/ closed \/ now >= timer)

\* Time passes.  A goroutine with work waits MaxLag ticks at most.
Tick ==
    /\ now < MaxTime
    /\ now' = now + 1
    /\ IF Runnable THEN lag < MaxLag /\ lag' = lag + 1 ELSE lag' = 0
    /\ disturbed' = (disturbed \/ lag' >= Lifetime)
    /\ UNCHANGED <<keyVars, lifeVars, watchVars, storeVars, faults>>

\* The clock has reached its bound, or the source is closed and at rest.
Terminated == (now = MaxTime \/ closed) /\ UNCHANGED vars

Next ==
    \/ StoreLoads \/ AppLoads \/ LoadFails
    \/ SetRefreshCallback \/ StoreCloses \/ ClearRefreshCallback \/ Close
    \/ WatchStep \/ WatchDone
    \/ Tick
    \/ Terminated

\* watch keeps running; a select in which ctx.Done is ready cannot pass over it
\* for ever, since it picks among ready channels at random.
Fairness == WF_vars(WatchStep) /\ SF_vars(WatchDone)

Spec == Init /\ [][Next]_vars

FairSpec == Spec /\ Fairness

-----------------------------------------------------------------------------
(* Properties.                                                             *)

ValidAt(k, t) == k.notBefore <= t /\ t <= k.notAfter

ActiveKeys(c) == {k \in c : k.status = "active"}

\* Every variable keeps its type, and the source never holds more than the
\* three keys of a window plus those a failed rotation has not yet dropped.
TypeOK ==
    /\ now \in 0..MaxTime /\ lag \in 0..MaxLag
    /\ base \in Unset..MaxTime /\ epoch \in 0..MaxEpoch
    /\ keys \subseteq Epochs
    /\ Cardinality(keys) <= 3 + 2 * faults
    /\ made \in [Epochs -> Nat]
    /\ {callback, started, closed, wake} \subseteq BOOLEAN
    /\ watchPC \in {"off", "plan", "select", "rotate", "call", "stopped"}
    /\ timer \in Int
    /\ batch \subseteq Candidates
    /\ owner \in {"unbound", "bound", "active", "closing", "detached"}
    /\ stored \subseteq Candidates
    /\ faults \in 0..MaxFaults /\ disturbed \in BOOLEAN

\* As long as goroutines are scheduled within one lifetime, generation does not
\* fail and the store alone calls Load, a bound store holds exactly one active
\* key at every moment and it is within its validity (the deadline of watch, and
\* NotAfter in generate).
SigningAvailable ==
    (owner \in {"bound", "active"} /\ ~disturbed) =>
        \E k \in stored : ActiveKeys(stored) = {k} /\ ValidAt(k, now)

\* A key that was ever active in the store stays there, with the same material
\* and within its validity, for one lifetime after its epoch: what it signed
\* can be verified (the window and NotAfter in rotateLocked and generate).
VerifiableForLifetime ==
    \A s \in signed :
        now < base + (s[1] + 2) * Lifetime =>
            \E k \in stored :
                <<k.epoch, k.material>> = s /\ now <= k.notAfter

\* The store never switches to an active key it did not already hold: the next
\* key was published, passive, one rotation ahead, so that verifiers fed from
\* the store know it before the first signature (while undisturbed).
PrePublished ==
    [][(stored # {} /\ ~disturbed) =>
        \A s \in ActiveIn(stored') :
            \E k \in stored : <<k.epoch, k.material>> = s]_vars

\* After Close the watch goroutine ends.
WatcherStops == closed ~> watchPC \in {"off", "stopped"}
=============================================================================
