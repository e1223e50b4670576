------------------------------ MODULE Keystore ------------------------------
(***************************************************************************)
(* The source-management half of the keystore: New, WithSource, Bind,      *)
(* RefreshAll, the refresh callback and Close, with the goroutines that    *)
(* run them interleaved (keystore/keystore.go).                            *)
(*                                                                         *)
(* A source is an element of Sources.  What it serves at a moment is a     *)
(* version: a generation of its key candidates.  One key stands for all    *)
(* the keys of a generation, since the store never splits one.             *)
(*                                                                         *)
(* sourcesMU is a readers/writer lock.  Its write sections do no I/O and   *)
(* are single actions; its one long read section, the refresh callback, is *)
(* explicit (watchPC = "holding"), and a write section waits for it.       *)
(***************************************************************************)
EXTENDS Integers, FiniteSets

CONSTANTS
    Sources,        \* key source objects an application may hand to the store
    NoSource,       \* nil
    IDs,            \* source identifiers
    SourceID,       \* Source.ID(): two sources may share an identifier
    Tag,            \* the Source attribute a source puts on its candidates
    SelfRefreshing, \* sources that implement SelfRefreshingSource
    Configured,     \* sources passed to New with WithSource
    Binders,        \* goroutines that call Bind
    Refreshers,     \* goroutines that call RefreshAll
    Constructor,    \* the goroutine that runs New
    MaxVersion      \* bound: generations a source goes through

ASSUME SourcesAssumption ==
    /\ NoSource \notin Sources
    /\ SourceID \in [Sources -> IDs]
    /\ Tag \in [Sources -> IDs]
    /\ SelfRefreshing \subseteq Sources
    /\ Configured \subseteq Sources

ASSUME ProcessesAssumption ==
    /\ Constructor \notin Refreshers
    /\ MaxVersion \in Nat \ {0}

VARIABLES
    newPC,         \* where New is
    sources,       \* store.sources: committed sources by ID
    loading,       \* store.loading: IDs reserved by a Bind in progress
    closed,        \* store.closed
    closePC,       \* where Close is
    toClose,       \* the snapshot Close is working through
    closedSources, \* sources whose Close has been called
    callbacks,     \* sources that hold a refresh callback to this store
    bindPC,        \* where each Bind is
    bindSrc,       \* the source each Bind was given
    bindVer,       \* the generation its Load returned, 0 after an error
    stage,         \* stage[l][s]: loadSources' goroutine for s, started by l
    stageVer,      \* stageVer[l][s]: the generation it loaded
    watchPC,       \* the watch goroutine of each self-refreshing source
    watchVer,      \* the generation it is handing to the callback
    content,       \* the generation each source would load now
    repository     \* keySet.keys

storeVars == <<sources, loading, closed, repository>>
newVars   == <<newPC>>
closeVars == <<closePC, toClose, closedSources>>
bindVars  == <<bindPC, bindSrc, bindVer>>
taskVars  == <<stage, stageVer>>
watchVars == <<watchPC, watchVer>>
vars == <<storeVars, newVars, closeVars, callbacks, bindVars, taskVars,
          watchVars, content>>

Versions == 1..MaxVersion
Loaders  == Refreshers \cup {Constructor}
Plain    == Sources \ SelfRefreshing
Stages   == {"none", "load", "store", "done", "failed"}

\* A key as the store keeps it: the source that produced it, the Source
\* attribute it carries and the generation it belongs to.
Keys == [origin : Sources, tag : IDs, version : Versions]

Key(s, v) == [origin |-> s, tag |-> Tag[s], version |-> v]

Registered == {s \in Sources : sources[SourceID[s]] = s}
InLoading  == {s \in Sources : loading[SourceID[s]] = s}

\* A writer that waits for sourcesMU keeps new readers out (sync.RWMutex).  The
\* one that can wait for long is Close; readers that came before it asked for
\* the lock are those that enter before CloseCall.
ReadLockFree == closePC # "called"

\* No goroutine is inside the refresh callback's read section.
NoReaders == \A s \in Sources : watchPC[s] # "holding"

\* Replace with a selector that matches nothing.
ReplaceAppends(keys, id) == repository \cup keys

\* keySet.Replace with the selector WithSource(id): the keys that carry the
\* identifier go, the new ones come, in one critical section of the key set.
Replace(keys, id) == {k \in repository : k.tag # id} \cup keys

Init ==
    /\ newPC = "options"
    /\ sources = [i \in IDs |-> NoSource]
    /\ loading = [i \in IDs |-> NoSource]
    /\ closed = FALSE
    /\ closePC = "idle"
    /\ toClose = {}
    /\ closedSources = {}
    /\ callbacks = {}
    /\ bindPC = [b \in Binders |-> "idle"]
    /\ bindSrc = [b \in Binders |-> NoSource]
    /\ bindVer = [b \in Binders |-> 0]
    /\ stage = [l \in Loaders |-> [s \in Sources |-> "none"]]
    /\ stageVer = [l \in Loaders |-> [s \in Sources |-> 0]]
    /\ watchPC = [s \in Sources |-> "wait"]
    /\ watchVer = [s \in Sources |-> 0]
    /\ content = [s \in Sources |-> 1]
    /\ repository = {}

-----------------------------------------------------------------------------
(* New and its options.                                                    *)

\* WithSource registers a source whose identifier is free.
NewOption(s) ==
    /\ newPC = "options"
    /\ s \in Configured \ Registered
    /\ sources[SourceID[s]] = NoSource
    /\ sources' = [sources EXCEPT ![SourceID[s]] = s]
    /\ UNCHANGED <<loading, closed, repository, newVars, closeVars, callbacks,
                   bindVars, taskVars, watchVars, content>>

\* An option fails (its constructor's error, a nil source, an empty or a taken
\* identifier): New closes the store and returns the error.
NewOptionFails ==
    /\ newPC = "options"
    /\ Configured \ Registered # {}
    /\ newPC' = "failed"
    /\ closePC' = "called"
    /\ UNCHANGED <<storeVars, toClose, closedSources, callbacks, bindVars,
                   taskVars, watchVars, content>>

\* Every option is applied: loadSources starts one goroutine per source.
NewLoad ==
    /\ newPC = "options"
    /\ Configured \subseteq Registered
    /\ newPC' = "loading"
    /\ stage' = [stage EXCEPT ![Constructor] =
                    [s \in Sources |-> IF s \in Registered THEN "load" ELSE "none"]]
    /\ UNCHANGED <<storeVars, closeVars, callbacks, bindVars, stageVer,
                   watchVars, content>>

Finished(l) == \A s \in Sources : stage[l][s] \in {"none", "done", "failed"}

\* loadSources returned nil: New goes on to activate the sources.
NewLoaded ==
    /\ newPC = "loading"
    /\ Finished(Constructor)
    /\ \A s \in Sources : stage[Constructor][s] # "failed"
    /\ newPC' = "activating"
    /\ stage' = [stage EXCEPT ![Constructor] = [s \in Sources |-> "none"]]
    /\ UNCHANGED <<storeVars, closeVars, callbacks, bindVars, stageVer,
                   watchVars, content>>

\* loadSources returned an error: New closes the store.
NewLoadFails ==
    /\ newPC = "loading"
    /\ Finished(Constructor)
    /\ \E s \in Sources : stage[Constructor][s] = "failed"
    /\ newPC' = "failed"
    /\ closePC' = "called"
    /\ stage' = [stage EXCEPT ![Constructor] = [s \in Sources |-> "none"]]
    /\ UNCHANGED <<storeVars, toClose, closedSources, callbacks, bindVars,
                   stageVer, watchVars, content>>

\* bindSelfRefreshing of one source.
NewActivate(s) ==
    /\ newPC = "activating"
    /\ s \in (SelfRefreshing \cap Registered) \ callbacks
    /\ callbacks' = callbacks \cup {s}
    /\ UNCHANGED <<storeVars, newVars, closeVars, bindVars, taskVars,
                   watchVars, content>>

NewReturns ==
    /\ newPC = "activating"
    /\ SelfRefreshing \cap Registered \subseteq callbacks
    /\ newPC' = "ready"
    /\ UNCHANGED <<storeVars, closeVars, callbacks, bindVars, taskVars,
                   watchVars, content>>

-----------------------------------------------------------------------------
(* loadSources: the goroutine of source s started by loader l.             *)

\* Load and buildCandidates succeed.  A self-refreshing source that is closed
\* refuses to load.
TaskLoad(l, s) ==
    /\ stage[l][s] = "load"
    /\ s \in closedSources => s \in Plain
    /\ stage' = [stage EXCEPT ![l][s] = "store"]
    /\ stageVer' = [stageVer EXCEPT ![l][s] = content[s]]
    /\ UNCHANGED <<storeVars, newVars, closeVars, callbacks, bindVars,
                   watchVars, content>>

\* TaskFail with the error dropped: the task goes on to store.
TaskFailUnnoticed(l, s) ==
    /\ stage[l][s] = "load"
    /\ stage' = [stage EXCEPT ![l][s] = "store"]
    /\ UNCHANGED <<storeVars, newVars, closeVars, callbacks, bindVars,
                   stageVer, watchVars, content>>

\* Load fails or a candidate has no backend: nothing is stored.
TaskFail(l, s) ==
    /\ stage[l][s] = "load"
    /\ stage' = [stage EXCEPT ![l][s] = "failed"]
    /\ UNCHANGED <<storeVars, newVars, closeVars, callbacks, bindVars,
                   stageVer, watchVars, content>>

\* A store step that activates the source at once, before the others loaded.
TaskStoreActivates(l, s) ==
    /\ stage[l][s] = "store"
    /\ repository' = Replace({Key(s, stageVer[l][s])}, SourceID[s])
    /\ stage' = [stage EXCEPT ![l][s] = "done"]
    /\ callbacks' = callbacks \cup ({s} \cap SelfRefreshing)
    /\ UNCHANGED <<sources, loading, closed, newVars, closeVars, bindVars,
                   stageVer, watchVars, content>>

\* The keys replace those of the source.  closed is not consulted again.
TaskStore(l, s) ==
    /\ stage[l][s] = "store"
    /\ repository' = Replace({Key(s, stageVer[l][s])}, SourceID[s])
    /\ stage' = [stage EXCEPT ![l][s] = "done"]
    /\ UNCHANGED <<sources, loading, closed, newVars, closeVars, callbacks,
                   bindVars, stageVer, watchVars, content>>

-----------------------------------------------------------------------------
(* RefreshAll.                                                             *)

\* RefreshAll that also reloads self-refreshing sources.
RefreshAllKinds(r) ==
    /\ newPC = "ready"
    /\ ~closed
    /\ \A s \in Sources : stage[r][s] = "none"
    /\ Registered # {}
    /\ stage' = [stage EXCEPT ![r] =
            [s \in Sources |-> IF s \in Registered THEN "load" ELSE "none"]]
    /\ UNCHANGED <<storeVars, newVars, closeVars, callbacks, bindVars,
                   stageVer, watchVars, content>>

\* Under the read lock: refused once closed, self-refreshing sources skipped.
RefreshAll(r) ==
    /\ newPC = "ready"
    /\ ReadLockFree
    /\ ~closed
    /\ \A s \in Sources : stage[r][s] = "none"
    /\ Registered \cap Plain # {}
    /\ stage' = [stage EXCEPT ![r] =
            [s \in Sources |-> IF s \in Registered \cap Plain THEN "load" ELSE "none"]]
    /\ UNCHANGED <<storeVars, newVars, closeVars, callbacks, bindVars,
                   stageVer, watchVars, content>>

\* wg.Wait is over: RefreshAll returns the joined errors.
RefreshReturns(r) ==
    /\ Finished(r)
    /\ \E s \in Sources : stage[r][s] # "none"
    /\ stage' = [stage EXCEPT ![r] = [s \in Sources |-> "none"]]
    /\ UNCHANGED <<storeVars, newVars, closeVars, callbacks, bindVars,
                   stageVer, watchVars, content>>

-----------------------------------------------------------------------------
(* Bind.                                                                   *)

\* Reserve that looks only at the committed sources.
BindReserveUnchecked(b, s) ==
    /\ newPC = "ready"
    /\ bindPC[b] = "idle"
    /\ NoReaders
    /\ ~closed
    /\ sources[SourceID[s]] = NoSource
    /\ loading' = [loading EXCEPT ![SourceID[s]] = s]
    /\ bindPC' = [bindPC EXCEPT ![b] = "load"]
    /\ bindSrc' = [bindSrc EXCEPT ![b] = s]
    /\ UNCHANGED <<sources, closed, repository, newVars, closeVars, callbacks,
                   bindVer, taskVars, watchVars, content>>

\* The first write section: refused once closed or when the identifier is
\* taken, otherwise the identifier is reserved and bindWG incremented.
BindReserve(b, s) ==
    /\ newPC = "ready"
    /\ bindPC[b] = "idle"
    /\ NoReaders
    /\ ~closed
    /\ sources[SourceID[s]] = NoSource
    /\ loading[SourceID[s]] = NoSource
    /\ loading' = [loading EXCEPT ![SourceID[s]] = s]
    /\ bindPC' = [bindPC EXCEPT ![b] = "load"]
    /\ bindSrc' = [bindSrc EXCEPT ![b] = s]
    /\ UNCHANGED <<sources, closed, repository, newVars, closeVars, callbacks,
                   bindVer, taskVars, watchVars, content>>

\* Load and buildCandidates, outside the lock.
BindLoad(b) ==
    /\ bindPC[b] = "load"
    /\ bindSrc[b] \in closedSources => bindSrc[b] \in Plain
    /\ bindPC' = [bindPC EXCEPT ![b] = "commit"]
    /\ bindVer' = [bindVer EXCEPT ![b] = content[bindSrc[b]]]
    /\ UNCHANGED <<storeVars, newVars, closeVars, callbacks, bindSrc,
                   taskVars, watchVars, content>>

BindLoadFails(b) ==
    /\ bindPC[b] = "load"
    /\ bindPC' = [bindPC EXCEPT ![b] = "commit"]
    /\ bindVer' = [bindVer EXCEPT ![b] = 0]
    /\ UNCHANGED <<storeVars, newVars, closeVars, callbacks, bindSrc,
                   taskVars, watchVars, content>>

\* Commit that does not look at closed again after the unlocked Load.
BindCommitStale(b) ==
    LET s == bindSrc[b]
    IN  /\ bindPC[b] = "commit"
        /\ NoReaders
        /\ loading' = [loading EXCEPT ![SourceID[s]] = NoSource]
        /\ IF bindVer[b] # 0
           THEN /\ repository' = Replace({Key(s, bindVer[b])}, SourceID[s])
                /\ sources' = [sources EXCEPT ![SourceID[s]] = s]
                /\ bindPC' = [bindPC EXCEPT ![b] = "activate"]
                /\ UNCHANGED bindSrc
           ELSE /\ bindPC' = [bindPC EXCEPT ![b] = "idle"]
                /\ bindSrc' = [bindSrc EXCEPT ![b] = NoSource]
                /\ UNCHANGED <<repository, sources>>
        /\ bindVer' = [bindVer EXCEPT ![b] = 0]
        /\ UNCHANGED <<closed, newVars, closeVars, callbacks, taskVars,
                       watchVars, content>>

\* The second write section: the reservation goes; if nothing failed and the
\* store is still open, keys and registration are committed together.
BindCommit(b) ==
    LET s == bindSrc[b]
        ok == bindVer[b] # 0 /\ ~closed
    IN  /\ bindPC[b] = "commit"
        /\ NoReaders
        /\ loading' = [loading EXCEPT ![SourceID[s]] = NoSource]
        /\ IF ok
           THEN /\ repository' = Replace({Key(s, bindVer[b])}, SourceID[s])
                /\ sources' = [sources EXCEPT ![SourceID[s]] = s]
                /\ bindPC' = [bindPC EXCEPT ![b] = "activate"]
                /\ UNCHANGED bindSrc
           ELSE /\ bindPC' = [bindPC EXCEPT ![b] = "idle"]
                /\ bindSrc' = [bindSrc EXCEPT ![b] = NoSource]
                /\ UNCHANGED <<repository, sources>>
        /\ bindVer' = [bindVer EXCEPT ![b] = 0]
        /\ UNCHANGED <<closed, newVars, closeVars, callbacks, taskVars,
                       watchVars, content>>

\* bindSelfRefreshing, then bindWG.Done.
BindActivate(b) ==
    /\ bindPC[b] = "activate"
    /\ callbacks' = callbacks \cup ({bindSrc[b]} \cap SelfRefreshing)
    /\ bindPC' = [bindPC EXCEPT ![b] = "idle"]
    /\ bindSrc' = [bindSrc EXCEPT ![b] = NoSource]
    /\ UNCHANGED <<storeVars, newVars, closeVars, bindVer, taskVars,
                   watchVars, content>>

-----------------------------------------------------------------------------
(* The watch goroutine of a self-refreshing source and the callback.       *)

\* The source loads a generation and picks up its callback, still open.
WatchLoad(s) ==
    /\ watchPC[s] = "wait"
    /\ s \in callbacks \ closedSources
    /\ watchPC' = [watchPC EXCEPT ![s] = "calling"]
    /\ watchVer' = [watchVer EXCEPT ![s] = content[s]]
    /\ UNCHANGED <<storeVars, newVars, closeVars, callbacks, bindVars,
                   taskVars, content>>

\* The callback takes the read lock and looks at closed.
CallbackEnter(s) ==
    /\ watchPC[s] = "calling"
    /\ ReadLockFree
    /\ watchPC' = [watchPC EXCEPT ![s] = IF closed THEN "wait" ELSE "holding"]
    /\ UNCHANGED <<storeVars, newVars, closeVars, callbacks, bindVars,
                   taskVars, watchVer, content>>

\* Still under the read lock the keys are built and replace the source's keys.
CallbackReplace(s) ==
    /\ watchPC[s] = "holding"
    /\ watchPC' = [watchPC EXCEPT ![s] = "wait"]
    /\ repository' = Replace({Key(s, watchVer[s])}, SourceID[s])
    /\ UNCHANGED <<sources, loading, closed, newVars, closeVars, callbacks,
                   bindVars, taskVars, watchVer, content>>

\* A callback that drops the old keys before it has built the new ones.
CallbackEvicts(s) ==
    /\ watchPC[s] = "holding"
    /\ watchPC' = [watchPC EXCEPT ![s] = "wait"]
    /\ repository' = Replace({}, SourceID[s])
    /\ UNCHANGED <<sources, loading, closed, newVars, closeVars, callbacks,
                   bindVars, taskVars, watchVer, content>>

\* buildCandidates fails: the keys of the previous generation stay.
CallbackBuildFails(s) ==
    /\ watchPC[s] = "holding"
    /\ watchPC' = [watchPC EXCEPT ![s] = "wait"]
    /\ UNCHANGED <<storeVars, newVars, closeVars, callbacks, bindVars,
                   taskVars, watchVer, content>>

-----------------------------------------------------------------------------
(* Close.  closeOnce lets one caller through; the others wait for it.      *)

CloseCall ==
    /\ newPC = "ready"
    /\ closePC = "idle"
    /\ closePC' = "called"
    /\ UNCHANGED <<storeVars, newVars, toClose, closedSources, callbacks,
                   bindVars, taskVars, watchVars, content>>

\* Close that forgets the sources whose Bind is still loading.
CloseLockSkipsLoading ==
    /\ closePC = "called"
    /\ NoReaders
    /\ closed' = TRUE
    /\ toClose' = {}
    /\ closePC' = "cancel"
    /\ UNCHANGED <<sources, loading, repository, newVars, closedSources,
                   callbacks, bindVars, taskVars, watchVars, content>>

\* The write section: set closed and list the sources being loaded.
CloseLock ==
    /\ closePC = "called"
    /\ NoReaders
    /\ closed' = TRUE
    /\ toClose' = InLoading
    /\ closePC' = "cancel"
    /\ UNCHANGED <<sources, loading, repository, newVars, closedSources,
                   callbacks, bindVars, taskVars, watchVars, content>>

CloseCancel(s) ==
    /\ closePC = "cancel"
    /\ s \in toClose
    /\ toClose' = toClose \ {s}
    /\ closedSources' = closedSources \cup {s}
    /\ UNCHANGED <<storeVars, newVars, closePC, callbacks, bindVars, taskVars,
                   watchVars, content>>

\* The snapshot taken without waiting for the Binds in progress.
CloseNoWait ==
    /\ closePC = "cancel"
    /\ toClose = {}
    /\ toClose' = Registered
    /\ closePC' = "detach"
    /\ UNCHANGED <<storeVars, newVars, closedSources, callbacks, bindVars,
                   taskVars, watchVars, content>>

\* bindWG.Wait, then the snapshot of every committed source.
CloseWait ==
    /\ closePC = "cancel"
    /\ toClose = {}
    /\ \A b \in Binders : bindPC[b] = "idle"
    /\ toClose' = Registered
    /\ closePC' = "detach"
    /\ UNCHANGED <<storeVars, newVars, closedSources, callbacks, bindVars,
                   taskVars, watchVars, content>>

\* SetRefreshCallback(nil).
CloseDetach(s) ==
    /\ closePC = "detach"
    /\ s \in toClose \cap callbacks
    /\ callbacks' = callbacks \ {s}
    /\ UNCHANGED <<storeVars, newVars, closeVars, bindVars, taskVars,
                   watchVars, content>>

CloseSource(s) ==
    /\ closePC = "detach"
    /\ s \in toClose \ callbacks
    /\ toClose' = toClose \ {s}
    /\ closedSources' = closedSources \cup {s}
    /\ UNCHANGED <<storeVars, newVars, closePC, callbacks, bindVars, taskVars,
                   watchVars, content>>

CloseReturns ==
    /\ closePC = "detach"
    /\ toClose = {}
    /\ closePC' = "done"
    /\ UNCHANGED <<storeVars, newVars, toClose, closedSources, callbacks,
                   bindVars, taskVars, watchVars, content>>

-----------------------------------------------------------------------------
\* The world behind a source moves on to its next generation.
SourceChanges(s) ==
    /\ content[s] < MaxVersion
    /\ content' = [content EXCEPT ![s] = @ + 1]
    /\ UNCHANGED <<storeVars, newVars, closeVars, callbacks, bindVars,
                   taskVars, watchVars>>

\* Nothing is left to do once the store is closed.
Terminated == closePC = "done" /\ UNCHANGED vars

NewStep ==
    \/ NewOptionFails \/ NewLoad \/ NewLoaded \/ NewLoadFails \/ NewReturns
    \/ \E s \in Sources : NewOption(s) \/ NewActivate(s)

TaskStep(l, s) == TaskLoad(l, s) \/ TaskFail(l, s) \/ TaskStore(l, s)

BindStep(b) ==
    \/ BindLoad(b) \/ BindLoadFails(b) \/ BindCommit(b) \/ BindActivate(b)
    \/ \E s \in Sources : BindReserve(b, s)

CallbackStep(s) ==
    CallbackEnter(s) \/ CallbackReplace(s) \/ CallbackBuildFails(s)

CloseStep ==
    \/ CloseLock \/ CloseWait \/ CloseReturns
    \/ \E s \in Sources : CloseCancel(s) \/ CloseDetach(s) \/ CloseSource(s)

Next ==
    \/ NewStep
    \/ \E l \in Loaders, s \in Sources : TaskStep(l, s)
    \/ \E r \in Refreshers : RefreshAll(r) \/ RefreshReturns(r)
    \/ \E b \in Binders : BindStep(b)
    \/ \E s \in Sources : WatchLoad(s) \/ CallbackStep(s) \/ SourceChanges(s)
    \/ CloseCall
    \/ CloseStep
    \/ Terminated

(***************************************************************************)
(* Goroutines that can run do run.  A Load is promised to return only      *)
(* after its source was closed; before that it may block for ever on a     *)
(* file or a server.  Nothing is assumed of New, RefreshAll, of the watch  *)
(* goroutines outside the callback or of when Bind and Close are called.   *)
(***************************************************************************)
BoundLoadReturns(b) ==
    bindSrc[b] \in closedSources /\ BindLoadFails(b)

Fairness ==
    /\ WF_vars(CloseStep)
    /\ \A b \in Binders :
        /\ WF_vars(BoundLoadReturns(b))
        /\ WF_vars(BindCommit(b))
        /\ WF_vars(BindActivate(b))
    /\ \A s \in Sources : WF_vars(CallbackStep(s))

Spec == Init /\ [][Next]_vars

FairSpec == Spec /\ Fairness

-----------------------------------------------------------------------------
(* Properties.                                                             *)

\* Every variable keeps its type; in particular a failed Load never reaches
\* the repository as a generation 0.
TypeOK ==
    /\ newPC \in {"options", "loading", "activating", "ready", "failed"}
    /\ sources \in [IDs -> Sources \cup {NoSource}]
    /\ loading \in [IDs -> Sources \cup {NoSource}]
    /\ closed \in BOOLEAN
    /\ closePC \in {"idle", "called", "cancel", "detach", "done"}
    /\ toClose \subseteq Sources
    /\ closedSources \subseteq Sources
    /\ callbacks \subseteq SelfRefreshing
    /\ bindPC \in [Binders -> {"idle", "load", "commit", "activate"}]
    /\ bindSrc \in [Binders -> Sources \cup {NoSource}]
    /\ bindVer \in [Binders -> 0..MaxVersion]
    /\ stage \in [Loaders -> [Sources -> Stages]]
    /\ stageVer \in [Loaders -> [Sources -> 0..MaxVersion]]
    /\ watchPC \in [Sources -> {"wait", "calling", "holding"}]
    /\ watchVer \in [Sources -> 0..MaxVersion]
    /\ content \in [Sources -> Versions]
    /\ repository \subseteq Keys

\* Every stored key comes from a source registered under its identifier: a
\* Bind that failed, lost its identifier to another source or was cut off by
\* Close left no key behind (Bind's commit section).
Provenance == \A k \in repository : k.origin \in Registered

\* When Close has returned, no Bind is in progress, every registered source is
\* closed and none holds a callback into the store (Close's wait and its two
\* snapshots).
CloseReleases ==
    closePC = "done" =>
        /\ \A b \in Binders : bindPC[b] = "idle"
        /\ Registered \subseteq closedSources
        /\ callbacks = {}

\* A source whose initial load Close interrupts is itself closed by Close,
\* though it never gets registered (the snapshot of loading in Close).
InterruptedBindIsClosed ==
    closed => \A b \in Binders :
        bindPC[b] \in {"load", "commit"} => bindSrc[b] \in toClose \cup closedSources

\* When New fails no source retains a callback to the discarded store.
FailedNewKeepsNoCallback == newPC = "failed" => callbacks = {}

\* From the moment New activates its sources, every registered source has keys
\* in the store: refreshes swap a generation for the next in one step and a
\* failed one leaves the old generation in place.
NoGap ==
    newPC \in {"activating", "ready"} =>
        \A s \in Registered : \E k \in repository : k.origin = s

\* The keys of one source are all of one generation: a refresh replaces the
\* source's keys, it never adds to them.
OneGeneration ==
    \A j, k \in repository : j.origin = k.origin => j.version = k.version

\* Once closed is set, the repository changes only through a RefreshAll that
\* had begun before: neither a Bind nor a callback in flight adds a key.
FrozenAfterClose ==
    [][closed => \A k \in repository' \ repository :
            \E r \in Refreshers : stage[r][k.origin] = "store"]_vars

\* A call of Close returns, whatever loads were in progress when it came.
CloseTerminates == closePC = "called" ~> closePC = "done"

-----------------------------------------------------------------------------
(* The store as its users see it.                                          *)

ServiceView == INSTANCE KeyService WITH
    served <- [s \in Sources |->
                {k.version : k \in {j \in repository : j.origin = s}}],
    latest <- content,
    open   <- ~closed

\* Behind its locks and goroutines the store behaves like KeyService: whatever
\* overlaps, each step that touches the keys admits one source, when its
\* identifier is free and the store open, or moves one source to one whole
\* generation the source really had, for a self-refreshing one never an older
\* one than it has (Bind, loadSources, the callback, Close).
ImplementsService == ServiceView!Spec
=============================================================================
