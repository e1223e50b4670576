# A TLA+ verification of vcrypt

vcrypt keeps cryptographic keys in a *keystore*, fills it from *key sources*
that refresh themselves in the background, and signs, verifies, encrypts and
decrypts with the keys it selects. What is hard to get right, and hard to
test, is what happens between goroutines: a `Close` during a `Bind`, a refresh
callback during a `Close`, a rotation while a signature is made, a file read
while it is rewritten, an endpoint that never answers. And between two parties: a
rollover that a failing network brings to a relying party late, a set of keys
that cannot be published, a key that comes back from a codec as something else.
This directory models those parts, checks them with TLC on small instances and
proves their safety with TLAPS for instances of every size.

`PROJECT.json` lists the components, the runs, which lines of the source each
definition stands for, the hazards of the code with the properties that cover
them, and the theorems.

## 1. The system

| Component | State | Operations | Module |
|---|---|---|---|
| keystore, source management (`keystore/keystore.go`, `keystore_constructor*.go`) | `sources`, `loading`, `closed`, `bindWG`, `closeOnce`, under `sourcesMU` | `New` with `WithSource`, `Bind`, `RefreshAll`, the refresh callback, `Close` | `Keystore` |
| key set (`keyset/keyset.go`) | `keys`, under its own lock | `Find`, `Replace` | in `Keystore` (a set of generations) and `KeySelection` (a sequence) |
| keystore operations (`keystore/keystore_api.go`, `key/selector.go`) | the `used` flag of a `SignFunc` | `Signer`, the `SignFunc`, `Verify`, `Encrypt`, `Decrypt`, `selectKey` | `KeyQuery` (selectors and the choice), `KeySelection` |
| backends and registry (`backend/...`) | the registry, filled at start-up | `Supports`, `Capabilities`, `Sign`, `Verify`, `Encrypt`, `Decrypt`, in both builds | `Backends` |
| file source (`keysource/filesource`) | `callback`, `started`, `closed`, `snapshot`, context | `Load`, `SetRefreshCallback`, `Close`, the goroutine `watch` | `FileSource` |
| JWKS source (`keysource/jwkssource`) | the same, and `loadMu` | the same | `JwksSource` |
| random source (`keysource/randomsource`) | the same, and `base`, `epoch`, `keys`, the `wake` channel | the same, and `rotateLocked`, `generate` | `RandomSource` |
| JOSE codecs and their registry (`backend/*/*.jose.go`, `backend/codec.registry.go`) | the registry, filled at start-up | `JOSEEncoderFor`, `JOSEDecoderFor`, `Encode`, `Decode` | `JoseCodec`, `JoseRoundTrip` |
| JWS (`jws`) | none over time | `Sign`, `Verify` through chains of options | `Jws`, `Publication` |
| JWKS encoder, decoder, writer and endpoint (`jwks`, `jwksendpoint`) | none over time | `Encode`, `Decode`, `WriteArtifact`, `ServeHTTP` | `Publication` |
| material (`material`) | none | `Public`, `Clone` | `Public` in `Jws`, the kinds of material in `Backends` |
| errors, interfaces, test keys | none | none | not modelled |

How they interact. `New` and `Bind` call a source's `Load`, turn the candidates
into keys (`buildCandidates` asks the backend registry for each) and put them
into the key set with `Replace`, which drops the keys whose `Source` attribute
is the source's identifier. Only then do they give a self-refreshing source a
callback. From then on the source's goroutine `watch` loads new generations and
calls back; the callback holds `sourcesMU` for reading. `RefreshAll` reloads
the other sources, one goroutine each. `Close` sets `closed`, closes the sources
that are still being loaded, waits for the `Bind`s, takes the callbacks away and
closes the rest. The operations take a snapshot of the key set, choose a key and
an algorithm on it and perform with them, without any lock.

Between programs: an issuer signs with `jws` and serves its keystore's keys
through the endpoint, whose writer encodes a set with one codec per key; the
JWKS source of a relying party fetches the set, decodes it and hands it to a
keystore, from which `jws` takes the key that verifies.

What makes each part correct:

- *keystore*: every key in the store belongs to a registered source; a source's
  keys are all of one generation and never missing; nothing but a `RefreshAll`
  already under way adds keys after `Close`; `Close` returns and leaves no
  `Bind`, no open source and no callback behind; a failed `New` likewise.
- *operations*: the choice depends on the keys and not on the order in which
  sources loaded; a `SignFunc` signs once; what was signed can be verified.
- *sources*: one `watch` goroutine at most, none on a closed source, and it ends
  after `Close`; a change reaches the store in the end, whatever failed
  meanwhile; a half-written file costs no keys; keys rotate so that there is
  always one to sign with and what was signed stays verifiable for a lifetime.
- *codecs*: no secret leaves without permission; a key comes back as itself; what
  a peer mixed up is not taken for a key.
- *publication*: a relying party holds whole sets, comes to verify what the issuer
  signs and drops what it withdraws; the options of a call decide, and those of a
  verifier restrict.

## 2. Modules

Dependencies: `Keystore` instantiates `KeyService`; `KeySelection` and `Jws`
extend `KeyQuery`, which extends `Backends`; `JoseRoundTrip` extends `JoseCodec`,
which extends `Backends`; `Publication` composes `JoseCodec` and `Jws`; each `MC`
module extends the module it instantiates. The proofs about a module `M` are in
`MProofs`, which extends it; those of `KeySelection`, `JoseRoundTrip` and
`Publication` share `OperatorProofs`, which extends `KeyQuery` and `JoseCodec`.
Definitions keep the names of the source. A definition that only appears in
`PROJECT.json` as a mutation (`BindCommitStale`, `ReplaceAppends`, ...) stands right before the
one it deforms and is used by no specification; its comment says what is wrong.

**Keystore.** One action per critical section, so that goroutines interleave
where the code lets go of the lock. `Bind` is `BindReserve` (first write
section), `BindLoad` or `BindLoadFails` (unlocked), `BindCommit` (second write
section) and `BindActivate`. `Close` is `CloseCall`, `CloseLock`, `CloseCancel`
per source being loaded, `CloseWait` (`bindWG.Wait` and the snapshot),
`CloseDetach` and `CloseSource` per source, `CloseReturns`. `New` and
`RefreshAll` share `loadSources`: `TaskLoad`, `TaskFail`, `TaskStore` per
source. The callback holds the read lock from `CallbackEnter` to
`CallbackReplace` or `CallbackBuildFails`; write sections wait for it
(`NoReaders`), and it waits for a `Close` that asks for the lock
(`ReadLockFree`), as `sync.RWMutex` does. That last rule matters: without it
the callbacks of two sources can overlap for ever and `Close` never gets in.
Sources are abstract: a source serves a numbered generation that changes at any
time, its `Load` may fail or block, and a self-refreshing source refuses to load
once closed. A generation is taken to have keys; one key stands for all of
them, because the store never splits a generation. (A source that delivers an
empty generation has, of course, no key in the store.)

**KeyService.** The abstract store: which generation of each source is served,
which the source is at, and whether the store is open. `Admit` and `Refresh` put
one whole generation in place in one step; nothing takes keys away. `Keystore`
implements it under the mapping `ServiceView` (property `ImplementsService`):
reservations, goroutines, callbacks and the phases of `Close` are stuttering
steps, and the steps that write the key set or set `closed` are the four
abstract ones. A `Bind` that commits after `Close`, two sources under one
identifier, a mixture of generations, or a generation the source never had would
each be a step `KeyService` does not have.

**Backends.** Which factory takes a material, what capabilities it advertises,
which methods its type has and what an operation refuses (curve, size of the
modulus or the secret, a DES2 key of two equal halves, build tag). The cryptography itself is left out.

**KeyQuery.** Selectors, eligibility, the stable sort and `selectKey`, as
operators on keys and sequences of keys. `Keep` is the loop that appends every
key that matches, which the code has in `Find`, `Replace` and `selectKey`.

**KeySelection.** A repository that several sources replace at any moment, a
clock, and one operation in three steps: `Find` (the snapshot), `Decide` (the
rest of `selectKey`), `Perform` or the calls of the `SignFunc` by several
goroutines (`SignEnter`, `SignRefused`, `SignFinish`). A request is a selector,
an operation and a list of algorithms; how options become one is in `Jws`.

**JoseCodec.** A JSON Web Key is a record of its members, in which numbers,
points and certificates are represented by the key pair they belong to. What
each encoder refuses and writes (validation, curves without a JOSE name, a
certificate without its DER encoding, export policy, metadata), what each decoder checks (missing members, a private part or
a certificate of another key, thumbprints, CRT parameters) and what it returns.
The three codecs share their metadata rules, so `setJWKMetadata` and
`restrictionsFromJWK` stand for three copies each.

**JoseRoundTrip.** A key is encoded, altered by a peer up to `MaxAlters` times
(a member left out, or taken from another key), decoded and encoded again, up to
`MaxTrips` times.

**Jws.** The option chains of `Sign` and `Verify`: runtime options, then those of
the call, each appending a keystore option; the keystore folds its own and these
into a query in which the last word on a field counts. A token is its header,
the pair that signed it, the descriptor of its key, as the signer returns it, and
the call that made it.

**Publication.** The issuer's repository goes through generations in any order
(`Rotate`); the endpoint's handler is `Serve` (the keys found) and `Reply` (the
response written), with `Fail` for everything the network does; `Receive` is the
rest of the source's load and the callback. The relying party has keys of its
own and signs with them too (`SignLocally`). What happens inside the source and
inside a keystore between these steps is the subject of `JwksSource` and
`Keystore`.

**FileSource.** The path names a directory or a single file (`single`), and for a
while the system may not be able to look it up or list it (`reachable`). Files are
rewritten in place (truncated, then block by block), renamed into place or removed
while `Load` and `watch` list the path and read one file after the other. What
`sourceFiles` can list is `Listable`: any directory within reach, also an empty
one, but a single file only while it is there. If it cannot, `Load` returns the
error (`LoadListFails`) and `watch` waits for the next tick with the store as it
was (`WatchListFails`). A consequence the properties spell out: files removed from
a directory leave the store, whereas a single file that is removed keeps its keys
in the store until the source is closed. A file decodes when it has at least one
whole PEM block and nothing torn after it. The snapshot hash is the content it
stands for.

**JwksSource.** The endpoint serves generations, some of which do not decode. A
request may fail, hang for ever or be cut off by either context; `loadMu` lets
one through at a time. An application may call `Load` beside the store.

**RandomSource.** A clock, the epochs and keys of `rotateLocked`, the timer and
the wake channel of `watch`. Durations wrap at `Width` bits. A goroutine that
can run is kept waiting `MaxLag` ticks at most; key generation fails `MaxFaults`
times at most. `disturbed` records whether anything out of the ordinary has
happened, for the properties that hold only until then.

In the three sources the store is the variable `owner`: it loads, sets the
callback, stops taking callbacks, takes the callback away and closes. Those are
the calls `Keystore` makes, in its order.

## 3. Runs

State counts are distinct states; the longest run takes about three minutes.

| Run | Instance | States | Shows |
|---|---|---|---|
| `keystore` | a plain and a self-refreshing source given to `New`, two more that share an identifier, two binders, one refresher, two generations | 593 708 | keys stay attributed (`Provenance`), whole (`OneGeneration`) and present (`NoGap`); `Close` and a failed `New` leave nothing behind (`CloseReleases`, `InterruptedBindIsClosed`, `FailedNewKeepsNoCallback`, `FrozenAfterClose`); `Close` returns (`CloseTerminates`); the store implements `KeyService` (`ImplementsService`), so that a refresh puts one whole generation in place and that of a self-refreshing source is never undone |
| `file` | two callers of `Load`, two slots for `watch`, one file of two contents, alone or in a directory | 213 300 | one watcher at most, none started on a closed source |
| `file_refresh` | a directory of two files, or a single file, of one block and two contents, one of which the store cannot build; a path that is lost and comes back | 207 504 | the store keeps its keys through partial writes and, with a single file, through its removal (`PartialWriteKeepsKeys`); once the files are at rest and the path can be listed, it ends up with exactly what is on disk (`Converges`); `watch` ends |
| `random` | lifetime 3, clock to 13, lag to 5, one failure | 310 468 | one valid active key while undisturbed, published ahead; signatures stay verifiable for a lifetime, disturbed or not; `watch` ends |
| `selection` | three sources, eight keys, six requests, clock to 3, two callers of a `SignFunc` | 53 378 | the choice is the reference's; one signature per `SignFunc`; capabilities and methods agree; no unsafe algorithm in a default build; what was signed can be verified |
| `jwks` | two callers, two slots for `watch`, three generations, one undecodable | 13 284 | no forgotten lock: `Close` ends every load even if the endpoint hangs; changed sets reach the store |
| `codec` | 90 keys (15 materials, 6 sets of restrictions), both policies, two trips, two alterations | 151 217 | secrets stay (`SecretsStay`); what is encoded decodes, to the same key (`RoundTrip`); what a peer altered is either refused or of one piece (`DecodedIsConsistent`) |
| `publication` | five generations (a rollover, one that cannot be published, one with nothing to publish, one that reuses an ID), three rotations, a local key with an ID of the issuer's | 5 566 | whole sets only (`WholeSets`), never emptied (`NeverEmptied`); tokens become verifiable and withdrawn keys disappear unless the set cannot be published (`SignedBecomesVerifiable`, `WithdrawnDisappears`); the call's options decide (`CallDecides`); runtime keys restrict while every call that names keys names the source too (`VerifierKeysRestrict`) |

Four more runs show a disagreement between the code and what its comments or
documents say; each checks one property, and TLC finds it violated.

| Run | What happens |
|---|---|
| `file_blocks` | a file of two PEM blocks, polled while it is rewritten, is accepted after its first block and the other key is evicted |
| `jwks_swallow` | a `Load` by the application records the snapshot of a set the store never saw, and `watch` never publishes it |
| `codec_restrictions` | a key restricted to two algorithms loses `alg` in its JSON Web Key and comes back with no restriction at all |
| `verifier_override` | `WithVerifierTokenHeader` of a call replaces the verifier's `WithVerifierKeys`, and a key outside that selector verifies a token |

Five smaller disagreements met on the way have no run of their own; the hazards
in `PROJECT.json` or section 5 name their lines: a source whose candidates carry a `Source`
other than its identifier is only ever added to; a lifetime over half the range
of a `Duration` wraps; a capability is advertised whatever the curve or length of
the key; a cancelled `Load` waits for `loadMu` behind a request that hangs; a
symbolic link in a directory is looked for but never listed.

**Bounds.** Two goroutines of a kind are what it takes to interleave with
oneself; two sources with one identifier what it takes to compete for it; two
self-refreshing sources what it takes for callbacks to overlap. Two generations
distinguish old from new in the store, and three let a bad one come between two
good ones at an endpoint. A file may go back to a content it had, so two contents
are enough there: one file has two good ones, the other a good and a bad one, and
either may be absent. Two files make a mixed read, two blocks a
truncated one that decodes. Thirteen ticks cover four rotations with lifetime
3, and a lag of 5 skips a whole epoch. `MaxVersion`, `MaxGen` of the endpoint,
`MaxTime` and `MaxFaults` bound counters only, as do `MaxRotations`, `MaxTrips` and
`MaxTokens`: three rotations bring a set back after two others, two trips show
what a second encoding makes of a decoded key, two alterations make a mixture
that one check alone would let pass, and tokens do not act on each other, so one
in circulation is enough; `MaxLag` is an assumption on the scheduler.

**Fairness.** Goroutines that can run do run (weak fairness of their steps).
Beyond that:

- `Keystore`: a `Load` returns only once its source was closed; until then it
  may block for ever. Nothing is assumed of `New`, of `RefreshAll`, or of when
  `Bind` and `Close` are called.
- the sources: tickers keep ticking. `Converges` assumes nothing of the files or
  of the path but, as its premise, that they come to rest where they can be
  listed and built. `select` picks at random among ready
  channels, so it cannot pass over `ctx.Done` for ever: strong fairness of
  `WatchDone`. `sync.Mutex` does not starve a waiter: strong fairness of
  `LoadLock` and `WatchLock`.
- `JwksSource`: `CloseEndsLoads` assumes nothing of the endpoint. That a change
  arrives needs an endpoint that answers again and again and a store that
  accepts (`ServiceFairness`); the code cannot guarantee it, so
  `PublishesToOwner` states it as a premise.

- `Publication`: the ticker ticks and handlers return (weak fairness of `Request`
  and `Receive`); a network on which every single request fails is excluded
  (strong fairness of `Serve` and `Reply`, which `Fail` keeps interrupting).
  Nothing is assumed of when keys rotate or tokens are made.

**Deadlock** is checked everywhere. `Terminated` marks the states in which a
system may rest: a store or source that is closed, or a clock at its bound.

## 4. Proofs

TLC checks instances; the theorems hold for every value of the constants that
satisfies the assumptions. Every safety property that a passing run checks is
proved. The liveness properties are only model-checked; of two of them the part
that is safety is proved (`CloseNeverStuck` with `CloseOnlyAdvances`, and
`NoForgottenLock` with `ClosedWindsDown`).

| Module | Theorem | States | If |
|---|---|---|---|
| `KeystoreProofs` | `Invariance`, `TypeCorrect` | `IInv`, `TypeOK` | |
| | `ProvenanceHolds` | `Provenance` | |
| | `CloseReleasesHolds` | `CloseReleases` | |
| | `InterruptedBindHolds` | `InterruptedBindIsClosed` | |
| | `FailedNewHolds` | `FailedNewKeepsNoCallback` | |
| | `FrozenAfterCloseHolds` | `FrozenAfterClose` | |
| | `OneGenerationHolds` | `OneGeneration` | `Tag = SourceID` |
| | `NoGapHolds` | `NoGap` | `Tag = SourceID` |
| | `Refinement` | `ImplementsService` | `Tag = SourceID` |
| | `CloseNeverStuckHolds` | who `Close` waits for waits for nobody | |
| | `CloseOnlyAdvancesHolds` | what `Close` waits for only gets less | |
| `FileSourceProofs` | `Invariance`, `TypeCorrect` | `IInv`, `TypeOK` | |
| | `SingleWatcherHolds` | `SingleWatcher` | |
| | `NoStartAfterCloseHolds` | `NoStartAfterClose` | |
| | `PartialWriteKeepsKeysHolds` | `PartialWriteKeepsKeys` | `Blocks = 1` |
| | `SnapshotIsPublishedHolds` | `SnapshotIsPublished` | |
| `JwksSourceProofs` | `Invariance`, `TypeCorrect` | `IInv`, `TypeOK` | |
| | `SingleWatcherHolds` | `SingleWatcher` | |
| | `SingleRequestHolds` | one request in flight at most | |
| | `NoForgottenLockHolds` | `loadMu` is held only by a request in flight | |
| | `NoStartAfterCloseHolds` | no `watch` is started on a closed source | |
| | `ClosedWindsDownHolds` | no `Load` begins on a closed source, those under way end | |
| | `PublishedForwardHolds` | the store never goes back to an older set | |
| | `SnapshotIsPublishedHolds` | the snapshot is what the store holds | `Callers = {Owner}` |
| `RandomSourceProofs` | `KeyInvariance`, `TypeCorrect` | `KeyInv`, `TypeOK` | `Fits` |
| | `VerifiableForLifetimeHolds` | `VerifiableForLifetime` | `Fits` |
| | `CalmInvariance` | `CalmInv` | `Fits` |
| | `SigningAvailableHolds` | `SigningAvailable` | `Fits` |
| | `PrePublishedHolds` | `PrePublished` | `Fits` |
| `KeySelectionProofs` | `Invariance`, `TypeCorrect` | `SelInv`, `TypeOK` | |
| | `SelectionCorrectHolds` | `SelectionCorrect` | |
| | `OneSignaturePerSignerHolds` | `OneSignaturePerSigner` | |
| | `ChosenImplementsHolds` | `ChosenImplements` | |
| | `SignedCanBeVerifiedHolds` | `SignedCanBeVerified` | |
| `JoseRoundTripProofs` | `SecretsStayHolds` | `SecretsStay` | |
| | `DecodedIsConsistentHolds` | `DecodedIsConsistent` | |
| | `RoundTripHolds` | `RoundTrip` | `WellFormedExports` |
| `PublicationProofs` | `Invariance` | `PubInv` | |
| | `WholeSetsHolds` | `WholeSets` | |
| | `NeverEmptiedHolds` | `NeverEmptied` | |
| | `CallDecidesHolds` | `CallDecides` | |
| | `VerifierKeysRestrictHolds` | `VerifierKeysRestrict` | `CarefulCalls` |
| | `VerifierDecidesHolds` | the verifier's options decide, the token's header does not | |

`OperatorProofs` has no theorem about a behaviour: it is the lemmas about
`KeyQuery`, `Backends` and `JoseCodec` on which the last three modules rest. All
inductive invariants, and the properties that only a theorem states, were checked
with TLC, on the instances of section 3, before they were proved.

**Conditions.** The constants have their types, which the `ASSUME` of each module
says and TLC evaluates in the runs. The conditions in the table are not
technicalities; each marks where the code stops doing what one would hope:

- `Tag = SourceID`: a source tags its keys with its identifier. The callback
  replaces by the `Source` attribute, so keys with another one would pile up.
- `Blocks = 1`: with two PEM blocks in a file the property is false (run
  `file_blocks`).
- `Callers = {Owner}`: with a second caller of `Load` it is false (run
  `jwks_swallow`). `SnapshotIsPublished` of `FileSource` has it as a premise.
- `Fits`: no duration between minus one lifetime and two lifetimes past the
  clock's bound wraps. A lifetime for which the code's products overflow is the
  hazard listed in section 3. The constants of run `random` satisfy it.
- `WellFormedExports`: restrictions are capabilities with an operation, its use
  and an algorithm, and an RSA key has two primes at least. The keys of run
  `codec` satisfy it.
- `CarefulCalls`: after a `WithVerifierKeys` of the verifier no option of a call
  passes a token's header, and one that selects keys repeats the verifier's
  criteria. The calls of run `publication` satisfy it; in run `verifier_override`,
  where one call passes the header, the property is false.

**Keystore.** No property is inductive as it stands. `Provenance`, for example,
survives `BindCommit` only if no other source took the identifier between the
two write sections, and survives `CallbackReplace` only if a source with keys in
hand is registered. `IInv` says so: between reserve and commit a `Bind` owns its
identifier alone (`BindersOK`, `BindersDistinct`); loading goroutines, callbacks
and watchers belong to registered sources (`TasksOK`, `WatchOK`,
`CallbacksOK`); `New` activates nothing before everything is loaded (`NewOK`);
each phase of `Close` has settled what it should (`CloseOK`), in particular that
no callback is inside the read section once `closed` is set. There is a lemma
per process, with a step per action. `RepositoryStep` sums up how any step
changes the repository, and `ReplaceIsExact` and `KeysRemain` say what a
replacement removes.

The refinement adds `RInv`: every generation in hand or in the store is one the
source has had (`StoredOK`, `HeldOK`); `RefreshAll` touches plain sources of a
ready store only (`RefreshersOK`); what a watch goroutine holds is not older than
what is stored, and nobody else stores keys of its source (`WatchersOK`); and
`New` stores the first keys of a source before anybody can refresh it
(`FirstKeysOK`). With that, `TaskStore`, `BindCommit` and `CallbackReplace` are
`Admit` or `Refresh`, `SourceChanges` is `Advance`, `CloseLock` is `Shut`, and
every other action leaves the abstract state alone (`OtherStepsInvisible`).
`WatchersOK` is what forbids a self-refreshing source to go back.

That `Close` returns is three facts. While it is under way it can step, or it
waits for a goroutine that needs nothing from anybody (`CloseNeverStuck`): the
`Load` of a `Bind` it waits for was cut off (`InterruptedBindIsClosed`), and no
callback is in the way of a commit (`CloseOK`). Whatever is done meanwhile, the
callbacks inside, the steps the `Bind`s have left, the sources on the list and
those with a callback only get fewer (`CloseAdvances`). These two are proved;
that goroutines run is the fairness under which TLC checks `CloseTerminates`.

**Sources.** For the file and the JWKS source `IInv` says that nothing runs unless
`started` says so, that what a load holds has decoded and, for the JWKS source,
that `loadMu` is held by exactly the load whose request is in flight. That the
snapshot is what the store holds needs two facts more: before the callback is set
nothing has started (`OwnerOK`), and a watch goroutine between callback and
record holds what it has just published (`HandedOK`). That nothing becomes of a
single file that costs its keys needs `SingleOK`: a load of it is under way only
if the listing found the file, which is then still to be read or has been read, so
that no load gets to the store without it. That the JWKS source never
hands the store an older set needs no condition on callers: the one `watch`
started after the store had its first keys, and what it holds is at least as new
as what it handed over before (`ForwardOK`).

For the random source there are two invariants. `KeyInv` cannot be broken by
failures, slow goroutines or other callers: every batch of candidates, in the
store or in the hand of `watch`, came from a rotation no earlier than any the
store has signed with, and what of it is still live the source has, with the same
material. `VerifiableForLifetime` follows, because a batch that reaches the store
late still contains every live key. `CalmInv` says where an undisturbed source is
in time (`InTime`): the store holds the window of the present epoch, or that of
the epoch before while `watch` hands over; the timer is the end of the epoch; and
`watch` is late by no more than `lag`, which is less than a lifetime. The three
keys of a window are previous, current and next, so a store one epoch behind has
a key for now, and the next key is there before it becomes active.

**Key selection.** `SelectionCorrect` compares `selectKey`, which sorts, filters
and looks at the first two of what is left, with a definition on sets. `ArrangeIs`
shows that arranging the places of a sequence by a strict order lists each place
once, in that order; `KeepIs` and `SortedIs` are its two instances (the loop that
appends matches, and `sort.SliceStable`). `EligiblesAre` and `HeadIsBest` give
the first of what is left, `SelectKeyIs` the decision, `ReferenceIs` that it is
the reference's. The other properties follow from `SelInv`: a chosen key has the
capability it was chosen for, one caller at most is past the flag of a `SignFunc`,
and a signature is by a caller that returned, with what was chosen; and from
`CapabilityFacts` and `UnsafeRefused`, which are about the tables of the backends.

**Codecs and publication.** `OneTrip` says what one encoding and decoding makes of
any key; `RoundTrip` follows by induction over behaviours. `PubInv` follows one
set of keys: what the handler found is what one generation publishes, what is
sent whole with a good status encodes all of it, and what the relying party holds
is what that decodes to. `WholeSets` is then `OneTrip` for each key of the set.

**Options.** The keystore's query is a fold over a list of options. `Asked(s, D)`
says without a fold what the options at the places `D` leave in each field: the
word of the last one that speaks of it. `AskedStep` adds one place. `QueryIs`, that
the fold is `Asked` for every list, takes the function of all partial results as a
witness and then the least place at which it would differ, which needs no scheme
of induction over lists. `SelectIs` and `VerifyingIs` carry this through the
choice of a key. A signer's key is then one the call's last selector matches
(`SignedIsObeyed`), and so is the descriptor the token carries
(`DescriptorMatches`). For the verifier, `AcceptedIsAsked` ties a verdict to the
options in force: the algorithm is the last one the options name, as they were
given, since nothing a token's header says can name one.

**Written for the prover.** `Keep`, `Sorted` and `Arrange` are defined by the rank
of a place and not with `SelectSeq`, of which the provers know nothing. Overlapping
`CASE` arms were replaced by `IF` chains, which say which arm counts.

**Only model-checked.** Liveness, which needs fairness and `ENABLED`:
`CloseTerminates`, the ends of `watch` and of loads, and that changes arrive. The
violations of section 3 are TLC's by nature.

## 5. What is not modelled

- `errs`, the interfaces in `key` and the test keys have no behaviour over time.
  The models pass materials by value, which is what the copies of
  `material.Clone` achieve.
- The cryptographic primitives, DER and JSON parsing, HTTP: external. They enter
  as "succeeds or fails"; a signature verifies with the pair and algorithm that
  made it.
- Options an application writes itself (wrapping `Sign`, `Encode`, ...): any
  code may run there.
- `WithOwner` is `WithID` over another attribute. `WithValidityAt` and
  `WithCapability` are modelled where `selectKey` uses them, not in the selectors
  an application writes.
- Files that are not regular: `sourceFiles` passes over them in a directory
  (filesource.go:180-190), and fails if the path itself is one, which the model has
  as a path that is not `reachable`. A symbolic link in a directory is among them:
  `entry.Info` does not follow it, so line 185 never finds a regular file behind
  it. The path of a source does not change from a file to a directory.
- Registering backends or codecs after start-up, and the SAML half of the codec
  registry, for which the repository has no codec.
- The endpoint's refusal of methods other than GET, and HTTP redirects.
- Time in `Publication`: keys there do not expire. Expiry is in `KeySelection`
  and `RandomSource`.

## 6. Plan

1. Done: the modules of section 2, their runs, and the proofs of section 4.
2. `RandomSource`: the part of the end of `watch` that is safety, as it is proved
   for `Close` of the keystore and of the JWKS source.
3. `Publication`: with validity in the keys of both parties, so that a token's
   verdict can change with the clock.
