--------------------------- MODULE KeystoreProofs ---------------------------
(***************************************************************************)
(* Safety of the keystore's source management, for any number of sources,  *)
(* identifiers, binders, refreshers and generations.                       *)
(*                                                                         *)
(* The properties are not inductive on their own.  IInv adds what the code *)
(* relies on between its critical sections: an identifier reserved by Bind *)
(* stays reserved, and free of a registered source, until its commit; only *)
(* registered sources have callbacks, load tasks and watch goroutines with *)
(* keys in hand; Close works on a store in which no Bind can begin.        *)
(***************************************************************************)
EXTENDS Keystore, TLAPS

Binding(b) == bindPC[b] \in {"load", "commit"}

\* Bind between its two write sections owns its identifier, alone.
BindersOK ==
    \A b \in Binders :
        /\ Binding(b) =>
            /\ bindSrc[b] \in Sources
            /\ loading[SourceID[bindSrc[b]]] = bindSrc[b]
            /\ sources[SourceID[bindSrc[b]]] = NoSource
        /\ bindPC[b] = "activate" => bindSrc[b] \in Registered
        /\ bindPC[b] # "idle" => newPC = "ready"

BindersDistinct ==
    \A b, c \in Binders :
        (Binding(b) /\ Binding(c) /\ SourceID[bindSrc[b]] = SourceID[bindSrc[c]])
            => b = c

\* Goroutines work for registered sources, with generations really loaded.
TasksOK ==
    \A l \in Loaders, s \in Sources :
        /\ stage[l][s] \in {"load", "store"} => s \in Registered
        /\ stage[l][s] = "store" => stageVer[l][s] \in Versions

WatchOK ==
    \A s \in Sources : watchPC[s] # "wait" =>
        s \in Registered /\ watchVer[s] \in Versions

CallbacksOK == callbacks \subseteq Registered

\* New activates no source before all are loaded; its tasks end with it.
NewOK ==
    /\ newPC \in {"options", "loading", "failed"} => callbacks = {}
    /\ newPC # "loading" => \A s \in Sources : stage[Constructor][s] = "none"

\* The phases of Close and what each has settled.
CloseOK ==
    /\ closed <=> closePC \in {"cancel", "detach", "done"}
    /\ closePC # "idle" => newPC \in {"ready", "failed"}
    /\ closed => NoReaders
    /\ closePC \in {"detach", "done"} =>
        /\ \A b \in Binders : bindPC[b] = "idle"
        /\ \A s \in Registered : s \in toClose \/ s \in closedSources \ callbacks
    /\ closePC = "done" => toClose = {}

IInv ==
    /\ TypeOK
    /\ BindersOK
    /\ BindersDistinct
    /\ TasksOK
    /\ WatchOK
    /\ CallbacksOK
    /\ NewOK
    /\ CloseOK
    /\ InterruptedBindIsClosed
    /\ Provenance

\* When every source tags its keys with its own identifier: each key carries
\* the tag of its origin, and New has a key of every source it has finished.
Tagged == \A k \in repository : k.tag = Tag[k.origin]

HasKey(s) == \E k \in repository : k.origin = s

Loaded ==
    newPC = "loading" =>
        \A s \in Registered :
            /\ stage[Constructor][s] # "none"
            /\ stage[Constructor][s] = "done" => HasKey(s)

-----------------------------------------------------------------------------
(* What a replacement leaves in the repository.                            *)

\* Replacing the keys of a source by one key of a loaded generation yields
\* keys again, each of them an old one or one of that source (keySet.Replace).
LEMMA ReplaceYieldsKeys ==
    ASSUME TypeOK, NEW s \in Sources, NEW v \in Versions
    PROVE  /\ Replace({Key(s, v)}, SourceID[s]) \subseteq Keys
           /\ \A k \in Replace({Key(s, v)}, SourceID[s]) :
                k \in repository \/ k = Key(s, v)
           /\ Key(s, v).origin = s
  BY SourcesAssumption DEF TypeOK, Replace, Key, Keys

-----------------------------------------------------------------------------
(* The inductive invariant holds initially and is kept by every action.    *)

\* A store under construction, empty and unreachable, satisfies the invariant.
LEMMA InitIInv == Init => IInv
  <1> SUFFICES ASSUME Init PROVE IInv
    OBVIOUS
  <1>1. TypeOK
    <2>1. 0 \in 0..MaxVersion /\ 1 \in Versions
      BY ProcessesAssumption DEF Versions
    <2> QED
      BY <2>1 DEF Init, TypeOK, Stages
  <1>2. BindersOK /\ BindersDistinct /\ InterruptedBindIsClosed
    BY DEF Init, BindersOK, BindersDistinct, Binding, InterruptedBindIsClosed
  <1>3. TasksOK /\ WatchOK /\ CallbacksOK
    BY DEF Init, TasksOK, WatchOK, CallbacksOK
  <1>4. NewOK /\ CloseOK /\ Provenance
    BY DEF Init, NewOK, CloseOK, Provenance, Loaders, NoReaders
  <1> QED
    BY <1>1, <1>2, <1>3, <1>4 DEF IInv

\* New, its options, its load and its activation keep the invariant.
LEMMA NewStepIInv == ASSUME IInv, NewStep PROVE IInv'
  <1> USE DEF storeVars, newVars, closeVars, bindVars, taskVars, watchVars
  <1>1. ASSUME NEW s \in Sources, NewOption(s) PROVE IInv'
    <2>1. TypeOK'
      BY <1>1, SourcesAssumption DEF IInv, NewOption, TypeOK
    <2>2. Registered \subseteq Registered'
      BY <1>1, SourcesAssumption DEF IInv, NewOption, TypeOK, Registered
    <2>3. \A b \in Binders : bindPC[b] = "idle"
      BY <1>1 DEF IInv, NewOption, BindersOK
    <2> QED
      BY <1>1, <2>1, <2>2, <2>3 DEF IInv, NewOption, BindersOK,
         BindersDistinct, Binding, InterruptedBindIsClosed, TasksOK, WatchOK,
         CallbacksOK, NewOK, CloseOK, Provenance, NoReaders
  <1>2. ASSUME NewOptionFails PROVE IInv'
    <2>1. TypeOK'
      BY <1>2 DEF IInv, NewOptionFails, TypeOK
    <2>2. \A b \in Binders : bindPC[b] = "idle"
      BY <1>2 DEF IInv, NewOptionFails, BindersOK
    <2> QED
      BY <1>2, <2>1, <2>2 DEF IInv, NewOptionFails, BindersOK,
         BindersDistinct, Binding, InterruptedBindIsClosed, TasksOK, WatchOK,
         CallbacksOK, NewOK, CloseOK, Provenance, NoReaders, Registered, TypeOK
  <1>3. ASSUME NewLoad PROVE IInv'
    <2>1. TypeOK'
      BY <1>3, ProcessesAssumption DEF IInv, NewLoad, TypeOK, Loaders, Stages
    <2>2. TasksOK'
      BY <1>3, ProcessesAssumption
      DEF IInv, NewLoad, TasksOK, Registered, TypeOK, Loaders
    <2> QED
      BY <1>3, <2>1, <2>2 DEF IInv, NewLoad, BindersOK, BindersDistinct,
         Binding, InterruptedBindIsClosed, WatchOK, CallbacksOK, NewOK,
         CloseOK, Provenance, NoReaders, Registered
  <1>4. ASSUME NewLoaded \/ NewLoadFails PROVE IInv'
    <2>1. TypeOK'
      BY <1>4, ProcessesAssumption
      DEF IInv, NewLoaded, NewLoadFails, TypeOK, Loaders, Stages
    <2>2. TasksOK' /\ NewOK'
      BY <1>4, ProcessesAssumption DEF IInv, NewLoaded, NewLoadFails, TasksOK,
         NewOK, Registered, TypeOK, Loaders
    <2>3. \A b \in Binders : bindPC[b] = "idle"
      BY <1>4 DEF IInv, NewLoaded, NewLoadFails, BindersOK
    <2> QED
      BY <1>4, <2>1, <2>2, <2>3 DEF IInv, NewLoaded, NewLoadFails, BindersOK,
         BindersDistinct, Binding, InterruptedBindIsClosed, WatchOK,
         CallbacksOK, CloseOK, Provenance, NoReaders, Registered, TypeOK
  <1>5. ASSUME NEW s \in Sources, NewActivate(s) PROVE IInv'
    <2>1. TypeOK'
      BY <1>5 DEF IInv, NewActivate, TypeOK
    <2> QED
      BY <1>5, <2>1 DEF IInv, NewActivate, BindersOK, BindersDistinct,
         Binding, InterruptedBindIsClosed, TasksOK, WatchOK, CallbacksOK,
         NewOK, CloseOK, Provenance, NoReaders, Registered
  <1>6. ASSUME NewReturns PROVE IInv'
    <2>1. TypeOK'
      BY <1>6 DEF IInv, NewReturns, TypeOK
    <2> QED
      BY <1>6, <2>1 DEF IInv, NewReturns, BindersOK, BindersDistinct,
         Binding, InterruptedBindIsClosed, TasksOK, WatchOK, CallbacksOK,
         NewOK, CloseOK, Provenance, NoReaders, Registered
  <1> QED
    BY <1>1, <1>2, <1>3, <1>4, <1>5, <1>6 DEF NewStep

\* The goroutines of loadSources keep the invariant: they only ever store keys
\* of a source that is registered.
LEMMA TaskStepIInv ==
    ASSUME IInv, NEW l \in Loaders, NEW s \in Sources, TaskStep(l, s)
    PROVE  IInv'
  <1> USE DEF storeVars, newVars, closeVars, bindVars, taskVars, watchVars
  <1>1. ASSUME TaskLoad(l, s) \/ TaskFail(l, s) PROVE IInv'
    <2>1. TypeOK'
      <3>1. content[s] \in 0..MaxVersion
        BY ProcessesAssumption DEF IInv, TypeOK, Versions
      <3>2. CASE TaskLoad(l, s)
        BY <3>1, <3>2 DEF IInv, TaskLoad, TypeOK, Stages
      <3>3. CASE TaskFail(l, s)
        BY <3>3 DEF IInv, TaskFail, TypeOK, Stages
      <3> QED
        BY <1>1, <3>2, <3>3
    <2>2. TasksOK' /\ NewOK'
      BY <1>1, ProcessesAssumption DEF IInv, TaskLoad, TaskFail, TasksOK,
         NewOK, Registered, TypeOK, Loaders, Stages
    <2> QED
      BY <1>1, <2>1, <2>2 DEF IInv, TaskLoad, TaskFail, BindersOK,
         BindersDistinct, Binding, InterruptedBindIsClosed, WatchOK,
         CallbacksOK, CloseOK, Provenance, NoReaders, Registered
  <1>2. ASSUME TaskStore(l, s) PROVE IInv'
    <2>1. s \in Registered /\ stageVer[l][s] \in Versions
      BY <1>2 DEF IInv, TaskStore, TasksOK
    <2>2. TypeOK'
      BY <1>2, <2>1, ReplaceYieldsKeys DEF IInv, TaskStore, TypeOK, Stages
    <2>3. Provenance'
      BY <1>2, <2>1, ReplaceYieldsKeys
      DEF IInv, TaskStore, Provenance, Registered
    <2>4. TasksOK' /\ NewOK'
      BY <1>2, ProcessesAssumption DEF IInv, TaskStore, TasksOK, NewOK,
         Registered, TypeOK, Loaders, Stages
    <2> QED
      BY <1>2, <2>2, <2>3, <2>4 DEF IInv, TaskStore, BindersOK,
         BindersDistinct, Binding, InterruptedBindIsClosed, WatchOK,
         CallbacksOK, CloseOK, NoReaders, Registered
  <1> QED
    BY <1>1, <1>2 DEF TaskStep

\* RefreshAll starts tasks for registered sources only and touches nothing
\* else.
LEMMA RefreshStepIInv ==
    ASSUME IInv, NEW r \in Refreshers, RefreshAll(r) \/ RefreshReturns(r)
    PROVE  IInv'
  <1> USE DEF storeVars, newVars, closeVars, bindVars, taskVars, watchVars
  <1>1. r \in Loaders /\ r # Constructor
    BY ProcessesAssumption DEF Loaders
  <1>2. TypeOK'
    <2>1. CASE RefreshAll(r)
      BY <1>1, <2>1 DEF IInv, RefreshAll, TypeOK, Stages
    <2>2. CASE RefreshReturns(r)
      BY <1>1, <2>2 DEF IInv, RefreshReturns, TypeOK, Stages
    <2> QED
      BY <2>1, <2>2
  <1>3. TasksOK' /\ NewOK'
    BY <1>1 DEF IInv, RefreshAll, RefreshReturns, TasksOK, NewOK, Registered,
       TypeOK, Loaders
  <1> QED
    BY <1>2, <1>3 DEF IInv, RefreshAll, RefreshReturns, BindersOK,
       BindersDistinct, Binding, InterruptedBindIsClosed, WatchOK,
       CallbacksOK, CloseOK, Provenance, NoReaders, Registered

\* Bind keeps the invariant.  Its commit is the delicate step: it frees the
\* identifier and registers the source, which is sound because no other Bind
\* holds the same identifier.
LEMMA BindStepIInv ==
    ASSUME IInv, NEW b \in Binders, BindStep(b)
    PROVE  IInv'
  <1> USE DEF storeVars, newVars, closeVars, bindVars, taskVars, watchVars
  <1>1. ASSUME NEW s \in Sources, BindReserve(b, s) PROVE IInv'
    <2>1. TypeOK'
      BY <1>1, SourcesAssumption DEF IInv, BindReserve, TypeOK
    <2>2. BindersOK' /\ BindersDistinct'
      BY <1>1, SourcesAssumption DEF IInv, BindReserve, BindersOK,
         BindersDistinct, Binding, Registered, TypeOK
    <2> QED
      BY <1>1, <2>1, <2>2 DEF IInv, BindReserve, InterruptedBindIsClosed,
         TasksOK, WatchOK, CallbacksOK, NewOK, CloseOK, Provenance, NoReaders,
         Registered
  <1>2. ASSUME BindLoad(b) \/ BindLoadFails(b) PROVE IInv'
    <2>1. TypeOK'
      <3>1. bindSrc[b] \in Sources
        BY <1>2 DEF IInv, BindersOK, Binding, BindLoad, BindLoadFails
      <3>2. content[bindSrc[b]] \in 0..MaxVersion /\ 0 \in 0..MaxVersion
        BY <3>1, ProcessesAssumption DEF IInv, TypeOK, Versions
      <3> QED
        BY <1>2, <3>2 DEF IInv, BindLoad, BindLoadFails, TypeOK
    <2>2. BindersOK' /\ BindersDistinct' /\ InterruptedBindIsClosed'
      <3>1. \A c \in Binders : (Binding(c)' <=> Binding(c))
                /\ (bindPC'[c] = "activate" <=> bindPC[c] = "activate")
                /\ (bindPC'[c] = "idle" <=> bindPC[c] = "idle")
        BY <1>2 DEF IInv, BindLoad, BindLoadFails, Binding, TypeOK
      <3> QED
        BY <1>2, <3>1 DEF IInv, BindLoad, BindLoadFails, BindersOK,
           BindersDistinct, Binding, InterruptedBindIsClosed, Registered
    <2> QED
      BY <1>2, <2>1, <2>2 DEF IInv, BindLoad, BindLoadFails, BindersOK,
         TasksOK, WatchOK, CallbacksOK, NewOK, CloseOK, Provenance, NoReaders,
         Registered
  <1>3. ASSUME BindCommit(b) PROVE IInv'
    <2> DEFINE s == bindSrc[b]
    <2>1. /\ s \in Sources
          /\ sources[SourceID[s]] = NoSource
          /\ \A c \in Binders \ {b} :
                Binding(c) => SourceID[bindSrc[c]] # SourceID[s]
      BY <1>3 DEF IInv, BindCommit, BindersOK, BindersDistinct, Binding
    <2>2. CASE bindVer[b] # 0 /\ ~closed
      <3>1. /\ repository' = Replace({Key(s, bindVer[b])}, SourceID[s])
            /\ sources' = [sources EXCEPT ![SourceID[s]] = s]
            /\ loading' = [loading EXCEPT ![SourceID[s]] = NoSource]
            /\ bindPC' = [bindPC EXCEPT ![b] = "activate"]
            /\ bindVer' = [bindVer EXCEPT ![b] = 0]
            /\ UNCHANGED <<bindSrc, closed, newVars, closeVars, callbacks,
                           taskVars, watchVars, content>>
        BY <1>3, <2>2 DEF BindCommit
      <3>2. bindVer[b] \in Versions
        BY <2>2, ProcessesAssumption DEF IInv, TypeOK, Versions
      <3>3. Registered' = Registered \cup {s}
        BY <2>1, <3>1, SourcesAssumption DEF IInv, TypeOK, Registered
      <3>4. TypeOK'
        <4>1. 0 \in 0..MaxVersion
          BY ProcessesAssumption
        <4> QED
          BY <2>1, <3>1, <3>2, <4>1, ReplaceYieldsKeys DEF IInv, TypeOK
      <3>5. BindersOK' /\ BindersDistinct'
        BY <1>3, <2>1, <3>1, <3>3, SourcesAssumption DEF IInv, BindCommit,
           BindersOK, BindersDistinct, Binding, TypeOK
      <3>6. Provenance'
        BY <2>1, <3>1, <3>2, <3>3, ReplaceYieldsKeys DEF IInv, Provenance
      <3> QED
        BY <1>3, <2>2, <3>1, <3>3, <3>4, <3>5, <3>6 DEF IInv, BindCommit,
           InterruptedBindIsClosed, TasksOK, WatchOK, CallbacksOK, NewOK,
           CloseOK, NoReaders
    <2>3. CASE ~(bindVer[b] # 0 /\ ~closed)
      <3>1. /\ loading' = [loading EXCEPT ![SourceID[s]] = NoSource]
            /\ bindPC' = [bindPC EXCEPT ![b] = "idle"]
            /\ bindSrc' = [bindSrc EXCEPT ![b] = NoSource]
            /\ bindVer' = [bindVer EXCEPT ![b] = 0]
            /\ UNCHANGED <<repository, sources, closed, newVars, closeVars,
                           callbacks, taskVars, watchVars, content>>
        BY <1>3, <2>3 DEF BindCommit
      <3>2. TypeOK'
        <4>1. 0 \in 0..MaxVersion
          BY ProcessesAssumption
        <4> QED
          BY <2>1, <3>1, <4>1 DEF IInv, TypeOK
      <3>3. BindersOK' /\ BindersDistinct' /\ InterruptedBindIsClosed'
        BY <2>1, <3>1, SourcesAssumption DEF IInv, BindersOK,
           BindersDistinct, Binding, InterruptedBindIsClosed, Registered,
           TypeOK
      <3> QED
        BY <2>1, <3>1, <3>2, <3>3 DEF IInv, TasksOK, WatchOK, CallbacksOK,
           NewOK, CloseOK, Provenance, NoReaders, Registered, TypeOK
    <2> QED
      BY <2>2, <2>3
  <1>4. ASSUME BindActivate(b) PROVE IInv'
    <2>1. TypeOK'
      BY <1>4 DEF IInv, BindActivate, TypeOK
    <2>2. BindersOK' /\ BindersDistinct' /\ InterruptedBindIsClosed'
      BY <1>4 DEF IInv, BindActivate, BindersOK, BindersDistinct, Binding,
         InterruptedBindIsClosed, Registered, TypeOK
    <2> QED
      BY <1>4, <2>1, <2>2 DEF IInv, BindActivate, BindersOK, TasksOK, WatchOK,
         CallbacksOK, NewOK, CloseOK, Provenance, NoReaders, Registered
  <1> QED
    BY <1>1, <1>2, <1>3, <1>4 DEF BindStep

\* The watch goroutines, the callback and a change of a source's content keep
\* the invariant.
LEMMA WatchStepIInv ==
    ASSUME IInv, NEW s \in Sources,
           WatchLoad(s) \/ CallbackStep(s) \/ SourceChanges(s)
    PROVE  IInv'
  <1> USE DEF storeVars, newVars, closeVars, bindVars, taskVars, watchVars
  <1>1. ASSUME WatchLoad(s) PROVE IInv'
    <2>1. content[s] \in Versions /\ content[s] \in 0..MaxVersion
      BY ProcessesAssumption DEF IInv, TypeOK, Versions
    <2>2. TypeOK'
      BY <1>1, <2>1 DEF IInv, WatchLoad, TypeOK
    <2>3. WatchOK' /\ CloseOK'
      BY <1>1, <2>1 DEF IInv, WatchLoad, WatchOK, CallbacksOK, CloseOK,
         NoReaders, Registered, TypeOK
    <2> QED
      BY <1>1, <2>2, <2>3 DEF IInv, WatchLoad, BindersOK, BindersDistinct,
         Binding, InterruptedBindIsClosed, TasksOK, CallbacksOK, NewOK,
         Provenance, Registered
  <1>2. ASSUME CallbackEnter(s) \/ CallbackBuildFails(s) PROVE IInv'
    <2>1. TypeOK'
      BY <1>2 DEF IInv, CallbackEnter, CallbackBuildFails, TypeOK
    <2>2. WatchOK' /\ CloseOK'
      BY <1>2 DEF IInv, CallbackEnter, CallbackBuildFails, WatchOK, CloseOK,
         NoReaders, Registered, TypeOK
    <2> QED
      BY <1>2, <2>1, <2>2 DEF IInv, CallbackEnter, CallbackBuildFails,
         BindersOK, BindersDistinct, Binding, InterruptedBindIsClosed,
         TasksOK, CallbacksOK, NewOK, Provenance, Registered
  <1>3. ASSUME CallbackReplace(s) PROVE IInv'
    <2>1. s \in Registered /\ watchVer[s] \in Versions
      BY <1>3 DEF IInv, CallbackReplace, WatchOK
    <2>2. TypeOK'
      BY <1>3, <2>1, ReplaceYieldsKeys DEF IInv, CallbackReplace, TypeOK
    <2>3. Provenance'
      BY <1>3, <2>1, ReplaceYieldsKeys
      DEF IInv, CallbackReplace, Provenance, Registered
    <2>4. WatchOK' /\ CloseOK'
      BY <1>3 DEF IInv, CallbackReplace, WatchOK, CloseOK, NoReaders,
         Registered, TypeOK
    <2> QED
      BY <1>3, <2>2, <2>3, <2>4 DEF IInv, CallbackReplace, BindersOK,
         BindersDistinct, Binding, InterruptedBindIsClosed, TasksOK,
         CallbacksOK, NewOK, Registered
  <1>4. ASSUME SourceChanges(s) PROVE IInv'
    <2>1. TypeOK'
      BY <1>4, ProcessesAssumption DEF IInv, SourceChanges, TypeOK, Versions
    <2> QED
      BY <1>4, <2>1 DEF IInv, SourceChanges, BindersOK, BindersDistinct,
         Binding, InterruptedBindIsClosed, TasksOK, WatchOK, CallbacksOK,
         NewOK, CloseOK, Provenance, NoReaders, Registered
  <1> QED
    BY <1>1, <1>2, <1>3, <1>4 DEF CallbackStep

\* Close keeps the invariant: its first snapshot holds every Bind in progress,
\* and when it takes the second no Bind is left and none can begin.
LEMMA CloseStepIInv == ASSUME IInv, CloseCall \/ CloseStep PROVE IInv'
  <1> USE DEF storeVars, newVars, closeVars, bindVars, taskVars, watchVars
  <1>1. ASSUME CloseCall \/ CloseReturns PROVE IInv'
    <2>1. TypeOK'
      BY <1>1 DEF IInv, CloseCall, CloseReturns, TypeOK
    <2> QED
      BY <1>1, <2>1 DEF IInv, CloseCall, CloseReturns, BindersOK,
         BindersDistinct, Binding, InterruptedBindIsClosed, TasksOK, WatchOK,
         CallbacksOK, NewOK, CloseOK, Provenance, NoReaders, Registered
  <1>2. ASSUME CloseLock PROVE IInv'
    <2>1. TypeOK'
      BY <1>2 DEF IInv, CloseLock, TypeOK, InLoading
    <2>2. InterruptedBindIsClosed'
      BY <1>2 DEF IInv, CloseLock, InterruptedBindIsClosed, BindersOK,
         Binding, InLoading
    <2> QED
      BY <1>2, <2>1, <2>2 DEF IInv, CloseLock, BindersOK, BindersDistinct,
         Binding, TasksOK, WatchOK, CallbacksOK, NewOK, CloseOK, Provenance,
         NoReaders, Registered
  <1>3. ASSUME CloseWait PROVE IInv'
    <2>1. TypeOK'
      BY <1>3 DEF IInv, CloseWait, TypeOK, Registered
    <2> QED
      BY <1>3, <2>1 DEF IInv, CloseWait, BindersOK, BindersDistinct, Binding,
         InterruptedBindIsClosed, TasksOK, WatchOK, CallbacksOK, NewOK,
         CloseOK, Provenance, NoReaders, Registered
  <1>4. ASSUME NEW s \in Sources, CloseCancel(s) \/ CloseSource(s) PROVE IInv'
    <2>1. TypeOK'
      BY <1>4 DEF IInv, CloseCancel, CloseSource, TypeOK
    <2> QED
      BY <1>4, <2>1 DEF IInv, CloseCancel, CloseSource, BindersOK,
         BindersDistinct, Binding, InterruptedBindIsClosed, TasksOK, WatchOK,
         CallbacksOK, NewOK, CloseOK, Provenance, NoReaders, Registered
  <1>5. ASSUME NEW s \in Sources, CloseDetach(s) PROVE IInv'
    <2>1. TypeOK'
      BY <1>5 DEF IInv, CloseDetach, TypeOK
    <2> QED
      BY <1>5, <2>1 DEF IInv, CloseDetach, BindersOK, BindersDistinct,
         Binding, InterruptedBindIsClosed, TasksOK, WatchOK, CallbacksOK,
         NewOK, CloseOK, Provenance, NoReaders, Registered
  <1> QED
    BY <1>1, <1>2, <1>3, <1>4, <1>5 DEF CloseStep

\* Every step of the store, and every stuttering step, keeps the invariant.
LEMMA NextIInv == IInv /\ [Next]_vars => IInv'
  <1> SUFFICES ASSUME IInv, [Next]_vars PROVE IInv'
    OBVIOUS
  <1>1. CASE UNCHANGED vars
    BY <1>1 DEF IInv, vars, storeVars, newVars, closeVars, bindVars, taskVars,
       watchVars, TypeOK, BindersOK, BindersDistinct, Binding,
       InterruptedBindIsClosed, TasksOK, WatchOK, CallbacksOK, NewOK, CloseOK,
       Provenance, NoReaders, Registered
  <1>2. CASE Next
    BY <1>2, NewStepIInv, TaskStepIInv, RefreshStepIInv, BindStepIInv,
       WatchStepIInv, CloseStepIInv, <1>1 DEF Next, Terminated
  <1> QED
    BY <1>1, <1>2

-----------------------------------------------------------------------------
(* The theorems.                                                           *)

\* The inductive invariant holds in every reachable state of the store.
THEOREM Invariance == Spec => []IInv
  BY InitIInv, NextIInv, PTL DEF Spec

\* Every variable keeps its type; no key of a generation that was not loaded
\* is ever stored (loadSources, Bind, the refresh callback).
THEOREM TypeCorrect == Spec => []TypeOK
  <1>1. IInv => TypeOK
    BY DEF IInv
  <1> QED
    BY <1>1, Invariance, PTL

\* Every stored key comes from a registered source, however Binds, refreshes,
\* callbacks and Close interleave (Bind's reservation and commit).
THEOREM ProvenanceHolds == Spec => []Provenance
  <1>1. IInv => Provenance
    BY DEF IInv
  <1> QED
    BY <1>1, Invariance, PTL

\* When Close returns nothing is left running or referenced: no Bind, no open
\* registered source, no callback (Close's order of steps).
THEOREM CloseReleasesHolds == Spec => []CloseReleases
  <1>1. IInv => CloseReleases
    BY DEF IInv, CloseReleases, CloseOK, CallbacksOK
  <1> QED
    BY <1>1, Invariance, PTL

\* A source whose initial load is in progress when Close comes is closed by it
\* (the snapshot of loading in Close).
THEOREM InterruptedBindHolds == Spec => []InterruptedBindIsClosed
  <1>1. IInv => InterruptedBindIsClosed
    BY DEF IInv
  <1> QED
    BY <1>1, Invariance, PTL

\* A store that New discards is referenced by no source (New activates only
\* after every load has succeeded).
THEOREM FailedNewHolds == Spec => []FailedNewKeepsNoCallback
  <1>1. IInv => FailedNewKeepsNoCallback
    BY DEF IInv, FailedNewKeepsNoCallback, NewOK
  <1> QED
    BY <1>1, Invariance, PTL

\* After closed is set only a RefreshAll already under way writes the
\* repository: Bind looks at closed again when it commits, the callback under
\* its read lock.
THEOREM FrozenAfterCloseHolds == Spec => FrozenAfterClose
  <1>1. ASSUME IInv, [Next]_vars, closed,
               NEW k \in repository', k \notin repository
        PROVE  \E r \in Refreshers : stage[r][k.origin] = "store"
    <2> USE DEF storeVars, newVars, closeVars, bindVars, taskVars, watchVars
    <2>1. PICK l \in Loaders, s \in Sources : TaskStore(l, s)
      <3>1. \A b \in Binders : ~BindCommit(b) \/ UNCHANGED repository
        BY <1>1 DEF BindCommit
      <3>2. \A s \in Sources : ~CallbackReplace(s)
        BY <1>1 DEF IInv, CloseOK, NoReaders, CallbackReplace
      <3> QED
        BY <1>1, <3>1, <3>2 DEF Next, vars, NewStep, NewOption,
           NewOptionFails, NewLoad, NewLoaded, NewLoadFails, NewActivate,
           NewReturns, TaskStep, TaskLoad, TaskFail, RefreshAll,
           RefreshReturns, BindStep, BindReserve, BindLoad, BindLoadFails,
           BindActivate, WatchLoad, CallbackStep, CallbackEnter,
           CallbackBuildFails, SourceChanges, CloseCall, CloseStep, CloseLock,
           CloseWait, CloseReturns, CloseCancel, CloseDetach, CloseSource,
           Terminated
    <2>2. k.origin = s
      BY <1>1, <2>1, ReplaceYieldsKeys DEF IInv, TaskStore, TasksOK
    <2>3. l # Constructor
      BY <1>1, <2>1 DEF IInv, CloseOK, NewOK, TaskStore
    <2> QED
      BY <2>1, <2>2, <2>3 DEF TaskStore, Loaders
  <1>2. IInv /\ [Next]_vars =>
            [closed => \A k \in repository' \ repository :
                \E r \in Refreshers : stage[r][k.origin] = "store"]_vars
    BY <1>1
  <1> QED
    BY <1>2, Invariance, PTL DEF Spec, FrozenAfterClose

-----------------------------------------------------------------------------
(* Sources that tag their keys with their own identifier.                  *)

\* The actions other than the three that replace keys leave the repository
\* and, except for New's options, the registration alone.
LEMMA RepositoryStep ==
    ASSUME IInv, [Next]_vars
    PROVE  \/ UNCHANGED <<repository, sources>>
           \/ newPC = "options" /\ UNCHANGED repository
           \/ \E s \in Sources, v \in Versions :
                /\ repository' = Replace({Key(s, v)}, SourceID[s])
                /\ s \in Registered'
                /\ \A t \in Registered' : t # s => t \in Registered
  <1> USE DEF storeVars, newVars, closeVars, bindVars, taskVars, watchVars
  <1>1. CASE \E l \in Loaders, s \in Sources : TaskStore(l, s)
    <2>1. PICK l \in Loaders, s \in Sources : TaskStore(l, s)
      BY <1>1
    <2>2. /\ s \in Registered /\ stageVer[l][s] \in Versions
          /\ Registered' = Registered
      BY <2>1 DEF IInv, TaskStore, TasksOK, Registered
    <2> QED
      BY <2>1, <2>2 DEF TaskStore
  <1>2. CASE \E s \in Sources : CallbackReplace(s)
    BY <1>2 DEF IInv, CallbackReplace, WatchOK, Registered
  <1>3. CASE \E b \in Binders : BindCommit(b)
    <2>1. PICK b \in Binders : BindCommit(b)
      BY <1>3
    <2>2. CASE bindVer[b] # 0 /\ ~closed
      <3>1. bindSrc[b] \in Sources /\ bindVer[b] \in Versions
        BY <2>1, <2>2, ProcessesAssumption
        DEF IInv, BindersOK, Binding, BindCommit, TypeOK, Versions
      <3>2. /\ repository' = Replace({Key(bindSrc[b], bindVer[b])},
                                     SourceID[bindSrc[b]])
            /\ sources' = [sources EXCEPT ![SourceID[bindSrc[b]]] = bindSrc[b]]
        BY <2>1, <2>2 DEF BindCommit
      <3>3. /\ bindSrc[b] \in Registered'
            /\ \A t \in Registered' : t # bindSrc[b] => t \in Registered
        BY <3>1, <3>2, SourcesAssumption DEF IInv, TypeOK, Registered
      <3> QED
        BY <3>1, <3>2, <3>3
    <2>3. CASE ~(bindVer[b] # 0 /\ ~closed)
      BY <2>1, <2>3 DEF BindCommit
    <2> QED
      BY <2>2, <2>3
  <1>4. CASE /\ ~\E l \in Loaders, s \in Sources : TaskStore(l, s)
             /\ ~\E s \in Sources : CallbackReplace(s)
             /\ ~\E b \in Binders : BindCommit(b)
    BY <1>4 DEF Next, vars, NewStep, NewOption, NewOptionFails, NewLoad,
       NewLoaded, NewLoadFails, NewActivate, NewReturns, TaskStep, TaskLoad,
       TaskFail, RefreshAll, RefreshReturns, BindStep, BindReserve, BindLoad,
       BindLoadFails, BindActivate, WatchLoad, CallbackStep, CallbackEnter,
       CallbackBuildFails, SourceChanges, CloseCall, CloseStep, CloseLock,
       CloseWait, CloseReturns, CloseCancel, CloseDetach, CloseSource,
       Terminated
  <1> QED
    BY <1>1, <1>2, <1>3, <1>4

\* Only New's own steps move New.
LEMMA NewPCStep ==
    ASSUME [Next]_vars
    PROVE  NewStep \/ UNCHANGED newPC
  BY DEF Next, vars, newVars, TaskStep, TaskLoad, TaskFail, TaskStore,
     RefreshAll, RefreshReturns, BindStep, BindReserve, BindLoad,
     BindLoadFails, BindCommit, BindActivate, WatchLoad, CallbackStep,
     CallbackEnter, CallbackReplace, CallbackBuildFails, SourceChanges,
     CloseCall, CloseStep, CloseLock, CloseWait, CloseReturns, CloseCancel,
     CloseDetach, CloseSource, Terminated

\* Every stored key carries the tag its source gives.
LEMMA TaggedStep ==
    ASSUME IInv, Tagged, [Next]_vars
    PROVE  Tagged'
  <1>1. CASE UNCHANGED repository
    BY <1>1 DEF Tagged
  <1>2. ASSUME NEW s \in Sources, NEW v \in Versions,
               repository' = Replace({Key(s, v)}, SourceID[s])
        PROVE  Tagged'
    <2>1. Key(s, v).tag = Tag[Key(s, v).origin]
      BY DEF Key
    <2> QED
      BY <1>2, <2>1, ReplaceYieldsKeys DEF IInv, Tagged
  <1> QED
    BY <1>1, <1>2, RepositoryStep

\* A replacement takes all the keys of its source and no key of another
\* registered source.
LEMMA ReplaceIsExact ==
    ASSUME IInv, Tagged, Tag = SourceID, NEW s \in Sources, NEW v \in Versions,
           repository' = Replace({Key(s, v)}, SourceID[s])
    PROVE  /\ Key(s, v) \in repository' /\ Key(s, v).origin = s
           /\ \A k \in repository' : k.origin = s => k = Key(s, v)
           /\ \A k \in repository' : k = Key(s, v) \/ k \in repository
           /\ \A k \in repository :
                SourceID[k.origin] # SourceID[s] => k \in repository'
  BY SourcesAssumption DEF Tagged, Replace, Key

\* Under distinct tags the keys of one source are of one generation: refreshes
\* replace and never accumulate (the selector WithSource(id) in Replace).
THEOREM OneGenerationHolds ==
    ASSUME Tag = SourceID PROVE Spec => []OneGeneration
  <1>1. Init => Tagged /\ OneGeneration
    BY DEF Init, Tagged, OneGeneration
  <1>2. IInv /\ Tagged /\ OneGeneration /\ [Next]_vars
            => Tagged' /\ OneGeneration'
    <2> SUFFICES ASSUME IInv, Tagged, OneGeneration, [Next]_vars
                 PROVE  OneGeneration'
      BY TaggedStep
    <2>1. CASE UNCHANGED repository
      BY <2>1 DEF OneGeneration
    <2>2. ASSUME NEW s \in Sources, NEW v \in Versions,
                 repository' = Replace({Key(s, v)}, SourceID[s])
          PROVE  OneGeneration'
      BY <2>2, ReplaceIsExact DEF OneGeneration
    <2> QED
      BY <2>1, <2>2, RepositoryStep
  <1> QED
    BY <1>1, <1>2, Invariance, PTL DEF Spec

\* A refresh never takes a registered source's keys away: a key of it remains
\* unless the source only just got registered by an option of New.
LEMMA KeysRemain ==
    ASSUME IInv, Tagged, Tag = SourceID, [Next]_vars, newPC # "options"
    PROVE  \A t \in Registered' :
                (t \in Registered /\ ~HasKey(t)) \/ HasKey(t)'
  <1>1. CASE UNCHANGED <<repository, sources>>
    BY <1>1 DEF Registered, HasKey
  <1>2. ASSUME NEW s \in Sources, NEW v \in Versions,
               repository' = Replace({Key(s, v)}, SourceID[s]),
               s \in Registered',
               \A t \in Registered' : t # s => t \in Registered,
               NEW t \in Registered'
        PROVE  (t \in Registered /\ ~HasKey(t)) \/ HasKey(t)'
    <2>1. CASE t = s
      BY <1>2, <2>1, ReplaceIsExact DEF HasKey
    <2>2. CASE t # s
      <3>1. SourceID[t] # SourceID[s]
        BY <1>2, <2>2 DEF Registered
      <3> QED
        BY <1>2, <2>2, <3>1, ReplaceIsExact DEF HasKey
    <2> QED
      BY <2>1, <2>2
  <1> QED
    BY <1>1, <1>2, RepositoryStep

\* Under distinct tags a registered source always has keys once New activates
\* its sources: no refresh, failed or not, leaves a gap.
THEOREM NoGapHolds ==
    ASSUME Tag = SourceID PROVE Spec => []NoGap
  <1>1. Init => Tagged /\ Loaded /\ NoGap
    BY DEF Init, Tagged, Loaded, NoGap
  <1>2. IInv /\ Tagged /\ Loaded /\ NoGap /\ [Next]_vars
            => Tagged' /\ Loaded' /\ NoGap'
    <2> SUFFICES ASSUME IInv, Tagged, Loaded, NoGap, [Next]_vars
                 PROVE  Loaded' /\ NoGap'
      BY TaggedStep
    <2> USE DEF storeVars, newVars, closeVars, bindVars, taskVars, watchVars
    <2>1. CASE newPC = "options"
      <3>1. CASE NewLoad
        BY <3>1, ProcessesAssumption
        DEF IInv, NewLoad, Loaded, NoGap, TypeOK, Loaders, Registered
      <3>2. CASE newPC' \in {"options", "failed"}
        BY <3>2 DEF Loaded, NoGap
      <3> QED
        BY <2>1, <3>1, <3>2, NewPCStep DEF NewStep, NewOption,
           NewOptionFails, NewLoaded, NewLoadFails, NewActivate, NewReturns
    <2>2. CASE newPC = "loading"
      <3>1. CASE NewLoaded
        BY <2>2, <3>1, KeysRemain DEF NewLoaded, Finished, Loaded, NoGap,
           HasKey, Registered
      <3>2. CASE NewLoadFails
        BY <3>2 DEF NewLoadFails, Loaded, NoGap
      <3>3. ASSUME NEW l \in Loaders, NEW s \in Sources, TaskStep(l, s)
            PROVE  Loaded' /\ NoGap'
        <4>1. HasKey(s)' \/ ~TaskStore(l, s)
          BY ReplaceIsExact DEF IInv, TaskStore, TasksOK, HasKey
        <4> QED
          BY <2>2, <3>3, <4>1, KeysRemain, ProcessesAssumption DEF IInv,
             TaskStep, TaskLoad, TaskFail, TaskStore, Loaded, NoGap, TypeOK,
             Loaders, Registered
      <3>4. CASE /\ UNCHANGED <<newPC, sources>>
                 /\ stage'[Constructor] = stage[Constructor]
        BY <2>2, <3>4, KeysRemain DEF Loaded, NoGap, Registered
      <3>5. ASSUME NEW r \in Refreshers, RefreshAll(r) \/ RefreshReturns(r)
            PROVE  stage'[Constructor] = stage[Constructor]
        BY <3>5, ProcessesAssumption
        DEF IInv, TypeOK, Loaders, RefreshAll, RefreshReturns
      <3>6. \A b \in Binders : bindPC[b] = "idle"
        BY <2>2 DEF IInv, BindersOK
      <3> QED
        BY <2>2, <3>1, <3>2, <3>3, <3>4, <3>5, <3>6 DEF Next, vars, NewStep,
           NewOption, NewOptionFails, NewLoad, NewActivate, NewReturns,
           RefreshAll, RefreshReturns, BindStep, BindReserve, BindLoad,
           BindLoadFails, BindCommit, BindActivate, WatchLoad, CallbackStep,
           CallbackEnter, CallbackReplace, CallbackBuildFails, SourceChanges,
           CloseCall, CloseStep, CloseLock, CloseWait, CloseReturns,
           CloseCancel, CloseDetach, CloseSource, Terminated
    <2>3. CASE newPC \in {"activating", "ready", "failed"}
      <3>1. newPC' # "loading" /\ (newPC = "failed" => newPC' = "failed")
        BY <2>3, NewPCStep DEF NewStep, NewOption, NewOptionFails, NewLoad,
           NewLoaded, NewLoadFails, NewActivate, NewReturns
      <3> QED
        BY <2>3, <3>1, KeysRemain DEF Loaded, NoGap, HasKey
    <2> QED
      BY <2>1, <2>2, <2>3 DEF IInv, TypeOK
  <1> QED
    BY <1>1, <1>2, Invariance, PTL DEF Spec

-----------------------------------------------------------------------------
(***************************************************************************)
(* The keystore implements KeyService, if every source tags its keys with  *)
(* its own identifier.                                                     *)
(*                                                                         *)
(* RInv adds to IInv what is needed to say which abstract step a           *)
(* replacement is: every generation in hand or in the store is one the     *)
(* source has had, the keys of a self-refreshing source are not newer than *)
(* what its watch goroutine holds, and New stores the first keys of its    *)
(* sources before anybody can refresh them.                                *)
(***************************************************************************)

\* No generation comes from the future.
StoredOK == \A k \in repository : k.version <= content[k.origin]

HeldOK ==
    /\ \A l \in Loaders, s \in Sources :
        stage[l][s] = "store" => stageVer[l][s] <= content[s]
    /\ \A b \in Binders :
        bindPC[b] = "commit" => bindVer[b] <= content[bindSrc[b]]
    /\ \A s \in Sources :
        watchPC[s] # "wait" => watchVer[s] <= content[s]

\* RefreshAll works on a store that New has returned, on plain sources only.
RefreshersOK ==
    \A r \in Refreshers, s \in Sources :
        stage[r][s] # "none" => newPC = "ready" /\ s \in Plain

\* A watch goroutine with a generation in hand belongs to an activated source,
\* and nobody else stores keys of it meanwhile.
WatchersOK ==
    \A s \in Sources : watchPC[s] # "wait" =>
        /\ newPC \in {"activating", "ready"}
        /\ s \in SelfRefreshing
        /\ \A k \in repository : k.origin = s => k.version <= watchVer[s]

\* What New has stored is what its finished tasks stored.
FirstKeysOK ==
    /\ newPC = "options" => repository = {}
    /\ newPC = "loading" =>
        \A k \in repository : stage[Constructor][k.origin] = "done"

RInv ==
    /\ StoredOK
    /\ HeldOK
    /\ RefreshersOK
    /\ WatchersOK
    /\ FirstKeysOK

-----------------------------------------------------------------------------
(* The strengthened invariant.                                             *)

\* An empty store holds nothing from the future.
LEMMA InitRInv == Init => RInv
  BY DEF Init, RInv, StoredOK, HeldOK, RefreshersOK, WatchersOK, FirstKeysOK,
     Loaders

\* New's steps: tasks start before anything is stored, and sources are
\* activated when all tasks are done.
LEMMA NewStepRInv == ASSUME IInv, RInv, NewStep PROVE RInv'
  <1> USE DEF storeVars, newVars, closeVars, bindVars, taskVars, watchVars
  <1>1. UNCHANGED <<repository, content, stageVer, bindVars, watchVars>>
    BY DEF NewStep, NewOption, NewOptionFails, NewLoad, NewLoaded,
       NewLoadFails, NewActivate, NewReturns
  <1>2. \A l \in Loaders \ {Constructor} : stage'[l] = stage[l]
    BY DEF IInv, TypeOK, NewStep, NewOption, NewOptionFails, NewLoad,
       NewLoaded, NewLoadFails, NewActivate, NewReturns
  <1>3. \A s \in Sources : stage'[Constructor][s] # "store"
    BY DEF IInv, TypeOK, NewOK, Finished, Loaders, NewStep, NewOption, NewOptionFails, NewLoad,
       NewLoaded, NewLoadFails, NewActivate, NewReturns
  <1>4. StoredOK' /\ HeldOK'
    BY <1>1, <1>2, <1>3 DEF RInv, StoredOK, HeldOK
  <1>5. newPC # "ready"
    BY DEF NewStep, NewOption, NewOptionFails, NewLoad, NewLoaded,
       NewLoadFails, NewActivate, NewReturns
  <1>6. RefreshersOK'
    BY <1>2, <1>5, ProcessesAssumption DEF RInv, RefreshersOK, Loaders
  <1>7. WatchersOK'
    BY <1>1 DEF RInv, WatchersOK, NewStep, NewOption, NewOptionFails,
       NewLoad, NewLoaded, NewLoadFails, NewActivate, NewReturns
  <1>8. FirstKeysOK'
    BY <1>1 DEF RInv, FirstKeysOK, NewStep, NewOption, NewOptionFails,
       NewLoad, NewLoaded, NewLoadFails, NewActivate, NewReturns
  <1> QED
    BY <1>4, <1>6, <1>7, <1>8 DEF RInv

\* A goroutine of loadSources holds what its source had when it loaded; for a
\* self-refreshing source it is New's, and stores before any callback exists.
LEMMA TaskStepRInv ==
    ASSUME IInv, RInv, NEW l \in Loaders, NEW s \in Sources, TaskStep(l, s)
    PROVE  RInv'
  <1> USE DEF storeVars, newVars, closeVars, bindVars, taskVars, watchVars
  <1>1. UNCHANGED <<content, newPC, bindVars, watchVars>>
    BY DEF TaskStep, TaskLoad, TaskFail, TaskStore
  <1>2. \A m \in Loaders, t \in Sources :
            <<m, t>> # <<l, s>> => /\ stage'[m][t] = stage[m][t]
                                   /\ stageVer'[m][t] = stageVer[m][t]
    BY DEF IInv, TypeOK, TaskStep, TaskLoad, TaskFail, TaskStore
  <1>3. /\ stage[l][s] \in {"load", "store"}
        /\ stage'[l][s] = "store" => stageVer'[l][s] = content[s]
    BY DEF IInv, TypeOK, TaskStep, TaskLoad, TaskFail, TaskStore
  <1>4. HeldOK'
    <2>1. content[s] \in Int
      BY DEF IInv, TypeOK, Versions
    <2> QED
      BY <1>1, <1>2, <1>3, <2>1 DEF RInv, HeldOK
  <1>5. RefreshersOK'
    BY <1>1, <1>2, <1>3 DEF RInv, RefreshersOK, Loaders
  <1>6. CASE UNCHANGED repository
    <2>1. FirstKeysOK'
      <3>1. stage[l][s] # "done"
        BY <1>3
      <3> QED
        BY <1>1, <1>2, <1>6, <3>1, ProcessesAssumption
        DEF IInv, TypeOK, Keys, RInv, FirstKeysOK, Loaders
    <2> QED
      BY <1>1, <1>4, <1>5, <1>6, <2>1 DEF RInv, StoredOK, WatchersOK
  <1>7. CASE TaskStore(l, s)
    <2>1. /\ stageVer[l][s] \in Versions /\ stageVer[l][s] <= content[s]
          /\ repository' = Replace({Key(s, stageVer[l][s])}, SourceID[s])
          /\ stage'[l][s] = "done"
      BY <1>7 DEF IInv, TypeOK, TasksOK, RInv, HeldOK, TaskStore
    <2>2. Key(s, stageVer[l][s]).version = stageVer[l][s]
      BY DEF Key
    <2>3. StoredOK'
      BY <1>1, <2>1, <2>2, ReplaceYieldsKeys DEF IInv, RInv, StoredOK
    <2>4. watchPC[s] = "wait"
      BY <1>3 DEF IInv, NewOK, RInv, WatchersOK, RefreshersOK, Loaders, Plain
    <2>5. WatchersOK'
      <3>1. \A k \in repository' : k \in repository \/ k.origin = s
        BY <2>1, ReplaceYieldsKeys DEF IInv
      <3> QED
        BY <1>1, <2>4, <3>1 DEF RInv, WatchersOK
    <2>6. newPC = "loading" => l = Constructor
      BY <1>3 DEF RInv, RefreshersOK, Loaders
    <2>7. newPC # "options"
      BY <1>3 DEF IInv, NewOK, RInv, RefreshersOK, Loaders
    <2>8. FirstKeysOK'
      <3> SUFFICES ASSUME newPC = "loading", NEW k \in repository'
                   PROVE  stage'[Constructor][k.origin] = "done"
        BY <1>1, <2>7 DEF FirstKeysOK
      <3>1. CASE k \in repository
        BY <1>2, <2>1, <2>6, <3>1, ProcessesAssumption
        DEF IInv, TypeOK, Keys, RInv, FirstKeysOK, Loaders
      <3>2. CASE k = Key(s, stageVer[l][s])
        BY <2>1, <2>6, <3>2, ReplaceYieldsKeys DEF IInv
      <3> QED
        BY <2>1, <3>1, <3>2, ReplaceYieldsKeys DEF IInv
    <2> QED
      BY <1>4, <1>5, <2>3, <2>5, <2>8 DEF RInv
  <1> QED
    BY <1>6, <1>7 DEF TaskStep, TaskLoad, TaskFail

\* RefreshAll starts tasks for plain sources of a store that is ready.
LEMMA RefreshStepRInv ==
    ASSUME IInv, RInv, NEW r \in Refreshers, RefreshAll(r) \/ RefreshReturns(r)
    PROVE  RInv'
  <1> USE DEF storeVars, newVars, closeVars, bindVars, taskVars, watchVars
  <1>1. UNCHANGED <<repository, content, newPC, bindVars, stageVer, watchVars>>
    BY DEF RefreshAll, RefreshReturns
  <1>2. r \in Loaders /\ r # Constructor /\ Constructor \in Loaders
    BY ProcessesAssumption DEF Loaders
  <1>3. /\ \A l \in Loaders \ {r} : stage'[l] = stage[l]
        /\ \A s \in Sources : stage'[r][s] # "store"
        /\ \A s \in Sources : stage'[r][s] # "none" => newPC = "ready" /\ s \in Plain
    BY <1>2 DEF IInv, TypeOK, RefreshAll, RefreshReturns
  <1>4. HeldOK' /\ RefreshersOK'
    BY <1>1, <1>2, <1>3 DEF RInv, HeldOK, RefreshersOK, Loaders
  <1>5. FirstKeysOK'
    BY <1>1, <1>2, <1>3 DEF RInv, FirstKeysOK
  <1> QED
    BY <1>1, <1>4, <1>5 DEF RInv, StoredOK, WatchersOK

\* Bind loads what its source has and stores it while the source is not yet
\* registered, so has no watch goroutine at work for this store.
LEMMA BindStepRInv ==
    ASSUME IInv, RInv, NEW b \in Binders, BindStep(b)
    PROVE  RInv'
  <1> USE DEF storeVars, newVars, closeVars, bindVars, taskVars, watchVars
  <1>1. UNCHANGED <<content, newPC, taskVars, watchVars>>
    BY DEF BindStep, BindReserve, BindLoad, BindLoadFails, BindCommit,
       BindActivate
  <1>2. HeldOK' /\ RefreshersOK'
    <2>1. \A c \in Binders \ {b} : /\ bindPC'[c] = bindPC[c]
                                   /\ bindVer'[c] = bindVer[c]
                                   /\ bindSrc'[c] = bindSrc[c]
      BY DEF IInv, TypeOK, BindStep, BindReserve, BindLoad, BindLoadFails,
         BindCommit, BindActivate
    <2>2. bindPC'[b] = "commit" =>
            /\ bindSrc[b] \in Sources /\ bindSrc'[b] = bindSrc[b]
            /\ bindVer'[b] \in {0, content[bindSrc[b]]}
      BY DEF IInv, TypeOK, BindersOK, Binding, BindStep, BindReserve,
         BindLoad, BindLoadFails, BindCommit, BindActivate
    <2>3. \A s \in Sources : content[s] \in Int /\ 0 <= content[s]
      BY DEF IInv, TypeOK, Versions
    <2> QED
      BY <1>1, <2>1, <2>2, <2>3 DEF RInv, HeldOK, RefreshersOK
  <1>3. CASE UNCHANGED repository
    BY <1>1, <1>2, <1>3 DEF RInv, StoredOK, WatchersOK, FirstKeysOK
  <1>4. CASE BindCommit(b) /\ bindVer[b] # 0 /\ ~closed
    <2>1. /\ bindSrc[b] \in Sources /\ bindVer[b] \in Versions
          /\ bindVer[b] <= content[bindSrc[b]]
          /\ repository' = Replace({Key(bindSrc[b], bindVer[b])},
                                   SourceID[bindSrc[b]])
          /\ bindSrc[b] \notin Registered
          /\ newPC = "ready"
      BY <1>4, ProcessesAssumption, SourcesAssumption DEF IInv, TypeOK,
         BindersOK, Binding, BindCommit, RInv, HeldOK, Versions, Registered
    <2>2. Key(bindSrc[b], bindVer[b]).version = bindVer[b]
      BY DEF Key
    <2>3. StoredOK'
      BY <1>1, <2>1, <2>2, ReplaceYieldsKeys DEF IInv, RInv, StoredOK
    <2>4. watchPC[bindSrc[b]] = "wait"
      BY <2>1 DEF IInv, WatchOK
    <2>5. WatchersOK'
      BY <1>1, <2>1, <2>4, ReplaceYieldsKeys DEF IInv, RInv, WatchersOK
    <2> QED
      BY <1>1, <1>2, <2>1, <2>3, <2>5 DEF RInv, FirstKeysOK
  <1> QED
    BY <1>3, <1>4 DEF BindStep, BindReserve, BindLoad, BindLoadFails,
       BindCommit, BindActivate

\* The watch goroutine of a source and the refresh callback: what it loads is
\* as new as anything stored of its source, and stays so until it is stored.
LEMMA WatchStepRInv ==
    ASSUME IInv, RInv, NEW s \in Sources, WatchLoad(s) \/ CallbackStep(s)
    PROVE  RInv'
  <1> USE DEF storeVars, newVars, closeVars, bindVars, taskVars, watchVars
  <1>1. UNCHANGED <<content, newPC, bindVars, taskVars>>
    BY DEF WatchLoad, CallbackStep, CallbackEnter, CallbackReplace,
       CallbackBuildFails
  <1>2. \A t \in Sources \ {s} : watchPC'[t] = watchPC[t]
                                    /\ watchVer'[t] = watchVer[t]
    BY DEF IInv, TypeOK, WatchLoad, CallbackStep, CallbackEnter,
       CallbackReplace, CallbackBuildFails
  <1>3. content[s] \in Int
    BY DEF IInv, TypeOK, Versions
  <1>4. watchPC'[s] # "wait" =>
            \/ s \in callbacks /\ watchVer'[s] = content[s]
            \/ watchPC[s] # "wait" /\ watchVer'[s] = watchVer[s]
    BY DEF IInv, TypeOK, WatchLoad, CallbackStep, CallbackEnter,
       CallbackReplace, CallbackBuildFails
  <1>5. HeldOK' /\ RefreshersOK'
    BY <1>1, <1>2, <1>3, <1>4 DEF RInv, HeldOK, RefreshersOK
  <1>6. CASE UNCHANGED repository
    <2>1. s \in callbacks => newPC \in {"activating", "ready"} /\ s \in SelfRefreshing
      BY DEF IInv, TypeOK, NewOK
    <2>2. \A k \in repository : k.origin = s => k.version <= content[s]
      BY DEF RInv, StoredOK
    <2>3. WatchersOK'
      BY <1>1, <1>2, <1>4, <1>6, <2>1, <2>2 DEF RInv, WatchersOK
    <2> QED
      BY <1>1, <1>5, <1>6, <2>3 DEF RInv, StoredOK, FirstKeysOK
  <1>7. CASE CallbackReplace(s)
    <2>1. /\ watchVer[s] \in Versions /\ watchVer[s] <= content[s]
          /\ repository' = Replace({Key(s, watchVer[s])}, SourceID[s])
          /\ newPC \in {"activating", "ready"}
          /\ watchPC'[s] = "wait"
      BY <1>7 DEF IInv, TypeOK, WatchOK, RInv, HeldOK, WatchersOK,
         CallbackReplace
    <2>2. Key(s, watchVer[s]).version = watchVer[s]
      BY DEF Key
    <2>3. StoredOK'
      BY <1>1, <2>1, <2>2, ReplaceYieldsKeys DEF IInv, RInv, StoredOK
    <2>4. WatchersOK'
      <3>1. \A k \in repository' : k \in repository \/ k.origin = s
        BY <2>1, ReplaceYieldsKeys DEF IInv
      <3> QED
        BY <1>1, <1>2, <2>1, <3>1 DEF RInv, WatchersOK
    <2> QED
      BY <1>1, <1>5, <2>1, <2>3, <2>4 DEF RInv, FirstKeysOK
  <1> QED
    BY <1>6, <1>7 DEF WatchLoad, CallbackStep, CallbackEnter,
       CallbackBuildFails

\* A source that moves on leaves old generations in the past.
LEMMA SourceChangesRInv ==
    ASSUME IInv, RInv, NEW s \in Sources, SourceChanges(s)
    PROVE  RInv'
  <1> USE DEF storeVars, newVars, closeVars, bindVars, taskVars, watchVars
  <1>1. UNCHANGED <<repository, newPC, bindVars, taskVars, watchVars>>
    BY DEF SourceChanges
  <1>2. \A t \in Sources : /\ content[t] \in Int /\ content'[t] \in Int
                           /\ content[t] <= content'[t]
    BY DEF IInv, TypeOK, Versions, SourceChanges
  <1>3. StoredOK'
    BY <1>1, <1>2 DEF IInv, TypeOK, Keys, Versions, RInv, StoredOK
  <1>4. HeldOK'
    <2>1. /\ \A l \in Loaders, t \in Sources : stageVer[l][t] \in Int
          /\ \A b \in Binders : bindVer[b] \in Int
          /\ \A b \in Binders : bindPC[b] = "commit" => bindSrc[b] \in Sources
          /\ \A t \in Sources : watchVer[t] \in Int
      BY ProcessesAssumption DEF IInv, TypeOK, BindersOK, Binding
    <2> QED
      BY <1>1, <1>2, <2>1 DEF RInv, HeldOK
  <1> QED
    BY <1>1, <1>3, <1>4 DEF RInv, RefreshersOK, WatchersOK, FirstKeysOK

\* Close touches neither keys nor generations.
LEMMA CloseStepRInv == ASSUME RInv, CloseCall \/ CloseStep PROVE RInv'
  BY DEF storeVars, newVars, closeVars, bindVars, taskVars, watchVars,
     CloseCall, CloseStep, CloseLock, CloseWait, CloseReturns, CloseCancel,
     CloseDetach, CloseSource, RInv, StoredOK, HeldOK, RefreshersOK,
     WatchersOK, FirstKeysOK

\* Every step keeps the strengthened invariant.
LEMMA NextRInv == IInv /\ RInv /\ [Next]_vars => RInv'
  <1> SUFFICES ASSUME IInv, RInv, [Next]_vars PROVE RInv'
    OBVIOUS
  <1>1. CASE UNCHANGED vars
    BY <1>1 DEF vars, storeVars, newVars, closeVars, bindVars, taskVars,
       watchVars, RInv, StoredOK, HeldOK, RefreshersOK, WatchersOK, FirstKeysOK
  <1>2. CASE Next
    BY <1>1, <1>2, NewStepRInv, TaskStepRInv, RefreshStepRInv, BindStepRInv,
       WatchStepRInv, SourceChangesRInv, CloseStepRInv DEF Next, Terminated
  <1> QED
    BY <1>1, <1>2

-----------------------------------------------------------------------------
(* The refinement.                                                         *)

Served == [s \in Sources |->
            {k.version : k \in {j \in repository : j.origin = s}}]

\* A replacement for a source whose identifier nobody else is registered under
\* moves exactly that source to exactly that generation.
LEMMA ReplaceServes ==
    ASSUME IInv, Tagged, Tag = SourceID, NEW s \in Sources, NEW v \in Versions,
           repository' = Replace({Key(s, v)}, SourceID[s]),
           \A t \in Registered : SourceID[t] = SourceID[s] => t = s
    PROVE  Served' = [Served EXCEPT ![s] = {v}]
  <1>1. Key(s, v).version = v
    BY DEF Key
  <1>2. Served'[s] = {v}
    BY <1>1, ReplaceIsExact DEF Served
  <1>3. ASSUME NEW t \in Sources, t # s PROVE Served'[t] = Served[t]
    <2>1. \A k \in repository : k.origin = t => SourceID[k.origin] # SourceID[s]
      BY <1>3 DEF IInv, Provenance
    <2>2. \A k : (k \in repository /\ k.origin = t) <=> (k \in repository' /\ k.origin = t)
      BY <1>3, <2>1, ReplaceIsExact
    <2> QED
      BY <2>2 DEF Served
  <1> QED
    BY <1>2, <1>3 DEF Served

\* A source has something served exactly when a key of it is stored.
LEMMA ServedIffKey ==
    ASSUME NEW s \in Sources
    PROVE  Served[s] = {} <=> ~HasKey(s)
  BY DEF Served, HasKey

\* The steps of New's loading goroutines that store admit a source, those of
\* RefreshAll's refresh a plain one.
LEMMA TaskStoreServes ==
    ASSUME IInv, RInv, Tagged, NoGap, Tag = SourceID,
           NEW l \in Loaders, NEW s \in Sources, TaskStore(l, s)
    PROVE  \E v \in 1..content[s] :
                ServiceView!Admit(s, v) \/ ServiceView!Refresh(s, v)
  <1> PICK v : v = stageVer[l][s]
    OBVIOUS
  <1>1. /\ s \in Registered /\ v \in Versions /\ v \in 1..content[s]
        /\ repository' = Replace({Key(s, v)}, SourceID[s])
        /\ UNCHANGED <<content, closed>>
    BY DEF IInv, TypeOK, TasksOK, RInv, HeldOK, TaskStore, Versions
  <1>2. Served' = [Served EXCEPT ![s] = {v}]
    BY <1>1, ReplaceServes DEF Registered
  <1>3. CASE l = Constructor
    <2>1. newPC = "loading"
      BY <1>3 DEF IInv, NewOK, TaskStore
    <2>2. ~closed
      BY <2>1 DEF IInv, CloseOK
    <2>3. \A t \in Sources : SourceID[t] = SourceID[s] => Served[t] = {}
      <3>1. ~HasKey(s)
        BY <1>3, <2>1 DEF RInv, FirstKeysOK, HasKey, TaskStore
      <3>2. \A t \in Sources : SourceID[t] = SourceID[s] /\ HasKey(t) => t = s
        BY <1>1 DEF IInv, Provenance, Registered, HasKey
      <3> QED
        BY <3>1, <3>2, ServedIffKey
    <2>4. ServiceView!Admit(s, v)
      BY <1>1, <1>2, <2>2, <2>3 DEF ServiceView!Admit, Served
    <2> QED
      BY <1>1, <2>4
  <1>4. CASE l # Constructor
    <2>1. newPC = "ready" /\ s \in Plain
      BY <1>4 DEF RInv, RefreshersOK, Loaders, TaskStore
    <2>2. Served[s] # {}
      BY <1>1, <2>1, ServedIffKey DEF NoGap, HasKey
    <2>3. ServiceView!Refresh(s, v)
      BY <1>1, <1>2, <2>1, <2>2 DEF ServiceView!Refresh, Served, Plain
    <2> QED
      BY <1>1, <2>3
  <1> QED
    BY <1>3, <1>4

\* A Bind that commits admits its source.
LEMMA BindCommitServes ==
    ASSUME IInv, RInv, Tagged, Tag = SourceID,
           NEW b \in Binders, BindCommit(b), bindVer[b] # 0, ~closed
    PROVE  \E s \in Sources : \E v \in 1..content[s] : ServiceView!Admit(s, v)
  <1> PICK s : s = bindSrc[b]
    OBVIOUS
  <1> PICK v : v = bindVer[b]
    OBVIOUS
  <1>1. /\ s \in Sources /\ v \in Versions /\ v \in 1..content[s]
        /\ sources[SourceID[s]] = NoSource
        /\ repository' = Replace({Key(s, v)}, SourceID[s])
        /\ UNCHANGED <<content, closed>>
    BY ProcessesAssumption DEF IInv, TypeOK, BindersOK, Binding, RInv, HeldOK,
       BindCommit, Versions
  <1>2. \A t \in Registered : SourceID[t] # SourceID[s]
    BY <1>1, SourcesAssumption DEF Registered
  <1>3. Served' = [Served EXCEPT ![s] = {v}]
    BY <1>1, <1>2, ReplaceServes
  <1>4. \A t \in Sources : SourceID[t] = SourceID[s] => Served[t] = {}
    <2>1. \A t \in Sources : SourceID[t] = SourceID[s] => ~HasKey(t)
      BY <1>2 DEF IInv, Provenance, HasKey
    <2> QED
      BY <2>1, ServedIffKey
  <1>5. ServiceView!Admit(s, v)
    BY <1>1, <1>3, <1>4 DEF ServiceView!Admit, Served
  <1> QED
    BY <1>1, <1>5

\* A callback moves its source forward, in an open store.
LEMMA CallbackServes ==
    ASSUME IInv, RInv, Tagged, NoGap, Tag = SourceID,
           NEW s \in Sources, CallbackReplace(s)
    PROVE  \E v \in 1..content[s] : ServiceView!Refresh(s, v)
  <1> PICK v : v = watchVer[s]
    OBVIOUS
  <1>1. /\ s \in Registered /\ v \in Versions /\ v \in 1..content[s]
        /\ newPC \in {"activating", "ready"}
        /\ repository' = Replace({Key(s, v)}, SourceID[s])
        /\ UNCHANGED <<content, closed>>
    BY DEF IInv, TypeOK, WatchOK, RInv, HeldOK, WatchersOK, CallbackReplace,
       Versions
  <1>2. Served' = [Served EXCEPT ![s] = {v}]
    BY <1>1, ReplaceServes DEF Registered
  <1>3. ~closed
    BY DEF IInv, CloseOK, NoReaders, CallbackReplace
  <1>4. Served[s] # {}
    BY <1>1, ServedIffKey DEF NoGap, HasKey
  <1>5. \A u \in Served[s] : u <= v
    BY DEF RInv, WatchersOK, Served, CallbackReplace
  <1>6. ServiceView!Refresh(s, v)
    BY <1>1, <1>2, <1>3, <1>4, <1>5 DEF ServiceView!Refresh, Served
  <1> QED
    BY <1>1, <1>6

\* All other steps but CloseLock and SourceChanges are invisible.
LEMMA OtherStepsInvisible ==
    ASSUME [Next]_vars
    PROVE  \/ UNCHANGED <<repository, content, closed>>
           \/ \E l \in Loaders, s \in Sources : TaskStore(l, s)
           \/ \E b \in Binders : BindCommit(b) /\ bindVer[b] # 0 /\ ~closed
           \/ \E s \in Sources : CallbackReplace(s) \/ SourceChanges(s)
           \/ CloseLock
  BY DEF Next, vars, storeVars, newVars, closeVars, bindVars, taskVars,
     watchVars, NewStep, NewOption, NewOptionFails, NewLoad, NewLoaded,
     NewLoadFails, NewActivate, NewReturns, TaskStep, TaskLoad, TaskFail,
     RefreshAll, RefreshReturns, BindStep, BindReserve, BindLoad,
     BindLoadFails, BindCommit, BindActivate, WatchLoad, CallbackStep,
     CallbackEnter, CallbackBuildFails, CloseCall, CloseStep, CloseWait,
     CloseReturns, CloseCancel, CloseDetach, CloseSource, Terminated

\* Every step of the store is a step of KeyService or does not show.
LEMMA StepServes ==
    ASSUME IInv, RInv, Tagged, NoGap, Tag = SourceID, [Next]_vars
    PROVE  [ServiceView!Next]_(ServiceView!vars)
  <1>1. CASE UNCHANGED <<repository, content, closed>>
    BY <1>1 DEF ServiceView!vars
  <1>2. ASSUME NEW l \in Loaders, NEW s \in Sources, TaskStore(l, s)
        PROVE  ServiceView!Next
    BY <1>2, TaskStoreServes DEF ServiceView!Next
  <1>3. ASSUME NEW b \in Binders, BindCommit(b), bindVer[b] # 0, ~closed
        PROVE  ServiceView!Next
    BY <1>3, BindCommitServes DEF ServiceView!Next
  <1>4. ASSUME NEW s \in Sources, CallbackReplace(s)
        PROVE  ServiceView!Next
    BY <1>4, CallbackServes DEF ServiceView!Next
  <1>5. ASSUME NEW s \in Sources, SourceChanges(s)
        PROVE  ServiceView!Next
    <2>1. ServiceView!Advance(s)
      BY <1>5 DEF SourceChanges, storeVars, ServiceView!Advance
    <2> QED
      BY <2>1 DEF ServiceView!Next
  <1>6. CASE CloseLock
    <2>1. ServiceView!Shut
      BY <1>6 DEF CloseLock, IInv, CloseOK, ServiceView!Shut
    <2> QED
      BY <2>1 DEF ServiceView!Next
  <1> QED
    BY <1>1, <1>2, <1>3, <1>4, <1>5, <1>6, OtherStepsInvisible

\* The keystore implements KeyService: whatever overlaps, the steps that touch
\* the keys admit one source under a free identifier of an open store, or move
\* one source to one whole generation it has had, forward if it refreshes itself
\* (Bind, loadSources, the callback, Close).
THEOREM Refinement ==
    ASSUME Tag = SourceID PROVE Spec => ImplementsService
  <1>1. Init => RInv /\ Tagged
    BY InitRInv DEF Init, Tagged
  <1>2. Init => ServiceView!Init
    BY DEF Init, ServiceView!Init
  <1>3. IInv /\ RInv /\ Tagged /\ [Next]_vars => RInv' /\ Tagged'
    BY NextRInv, TaggedStep
  <1>4. IInv /\ RInv /\ Tagged /\ NoGap /\ [Next]_vars
            => [ServiceView!Next]_(ServiceView!vars)
    BY StepServes
  <1> QED
    BY <1>1, <1>2, <1>3, <1>4, Invariance, NoGapHolds, PTL
    DEF Spec, ImplementsService, ServiceView!Spec

-----------------------------------------------------------------------------
(* Why Close returns, up to fairness.                                      *)

\* How many steps a Bind has before it.
StepsLeft == [load |-> 3, commit |-> 2, activate |-> 1, idle |-> 0]

\* While Close is under way it can take its next step itself, or it waits for a
\* goroutine that waits for nobody: a callback inside its read section, a Bind
\* whose Load was cut off, one that may commit or one that activates.
CloseNeverStuck ==
    closePC \in {"called", "cancel", "detach"} =>
        \/ closePC = "called" /\ NoReaders
        \/ closePC = "called" /\ \E s \in Sources : watchPC[s] = "holding"
        \/ closePC = "cancel" /\ toClose # {}
        \/ closePC = "cancel" /\ \A b \in Binders : bindPC[b] = "idle"
        \/ \E b \in Binders :
            \/ bindPC[b] = "load" /\ bindSrc[b] \in closedSources
            \/ bindPC[b] = "commit" /\ NoReaders
            \/ bindPC[b] = "activate"
        \/ closePC = "detach"

\* What Close waits for only gets less, whatever step is taken: no callback
\* joins those inside while it asks for the lock, no Bind begins or falls back
\* once it has it, no source is added to the list or given a callback again.
CloseAdvances ==
    /\ closePC = "called" =>
        /\ closePC' \in {"called", "cancel"}
        /\ \A s \in Sources : watchPC'[s] = "holding" => watchPC[s] = "holding"
    /\ closePC = "cancel" =>
        /\ closePC' \in {"cancel", "detach"}
        /\ closePC' = "cancel" => toClose' \subseteq toClose
        /\ \A b \in Binders : StepsLeft[bindPC'[b]] <= StepsLeft[bindPC[b]]
    /\ closePC = "detach" =>
        /\ closePC' \in {"detach", "done"}
        /\ toClose' \subseteq toClose
        /\ callbacks' \subseteq callbacks
    /\ closePC = "done" => closePC' = "done"

CloseOnlyAdvances == [][CloseAdvances]_vars

\* Whatever loads, callbacks and Binds it met, a Close under way never waits for
\* somebody who waits for it (store.Close, sourcesMU, bindWG).
THEOREM CloseNeverStuckHolds == Spec => []CloseNeverStuck
  <1>1. ASSUME IInv PROVE CloseNeverStuck
    <2>1. SUFFICES ASSUME closePC = "cancel", toClose = {},
                          NEW b \in Binders, bindPC[b] # "idle"
                   PROVE  \/ bindPC[b] = "load" /\ bindSrc[b] \in closedSources
                          \/ bindPC[b] = "commit" /\ NoReaders
                          \/ bindPC[b] = "activate"
      BY DEF CloseNeverStuck, NoReaders
    <2>2. closed /\ NoReaders
      BY <1>1, <2>1 DEF IInv, CloseOK
    <2>3. bindPC[b] \in {"load", "commit", "activate"}
      BY <1>1, <2>1 DEF IInv, TypeOK
    <2>4. bindPC[b] = "load" => bindSrc[b] \in closedSources
      BY <1>1, <2>1, <2>2 DEF IInv, InterruptedBindIsClosed
    <2> QED
      BY <2>2, <2>3, <2>4
  <1> QED
    BY <1>1, Invariance, PTL

\* Each action leaves Close where it is or takes it further: New has ended, and
\* Bind and the callback begin only where they saw an open store.
LEMMA CloseKeepsOn == ASSUME IInv, Next PROVE CloseAdvances
  <1>1. CASE UNCHANGED <<closePC, toClose, callbacks, watchPC, bindPC>>
    <2>1. \A b \in Binders : StepsLeft[bindPC[b]] \in Nat
      BY DEF IInv, TypeOK, StepsLeft
    <2> QED
      BY <1>1, <2>1 DEF CloseAdvances, IInv, TypeOK
  <1>2. CASE NewStep
    <2>1. CASE closePC # "idle"
      BY <1>2, <2>1 DEF IInv, CloseOK, NewStep, NewOption, NewOptionFails, NewLoad,
          NewLoaded, NewLoadFails, NewActivate, NewReturns
    <2>2. CASE closePC = "idle"
      BY <2>2 DEF CloseAdvances
    <2> QED
      BY <2>1, <2>2
  <1>3. ASSUME NEW l \in Loaders, NEW s \in Sources, TaskStep(l, s) PROVE CloseAdvances
    BY <1>1, <1>3 DEF TaskStep, TaskLoad, TaskFail, TaskStore, closeVars, watchVars,
        bindVars
  <1>4. ASSUME NEW r \in Refreshers, RefreshAll(r) \/ RefreshReturns(r)
        PROVE  CloseAdvances
    BY <1>1, <1>4 DEF RefreshAll, RefreshReturns, closeVars, watchVars, bindVars
  <1>5. ASSUME NEW b \in Binders, BindStep(b) PROVE CloseAdvances
    <2>1. UNCHANGED <<closePC, toClose, watchPC>>
      BY <1>5 DEF BindStep, BindReserve, BindLoad, BindLoadFails, BindCommit,
          BindActivate, closeVars, watchVars
    <2>2. /\ closePC \in {"called", "cancel", "detach", "done", "idle"}
          /\ bindPC \in [Binders -> {"idle", "load", "commit", "activate"}]
      BY DEF IInv, TypeOK
    <2>3. closePC # "detach"
      BY <1>5 DEF IInv, CloseOK, BindStep, BindReserve, BindLoad, BindLoadFails,
          BindCommit, BindActivate
    <2>4. ASSUME closePC = "cancel", NEW c \in Binders
          PROVE  StepsLeft[bindPC'[c]] <= StepsLeft[bindPC[c]]
      <3>1. closed
        BY <2>4 DEF IInv, CloseOK
      <3>2. \/ bindPC'[c] = bindPC[c]
            \/ bindPC[c] = "load" /\ bindPC'[c] = "commit"
            \/ bindPC[c] \in {"commit", "activate"} /\ bindPC'[c] = "idle"
        BY <1>5, <2>2, <3>1 DEF BindStep, BindReserve, BindLoad, BindLoadFails,
            BindCommit, BindActivate
      <3> QED
        BY <2>2, <3>2 DEF StepsLeft
    <2> QED
      BY <2>1, <2>2, <2>3, <2>4 DEF CloseAdvances
  <1>6. ASSUME NEW s \in Sources, WatchLoad(s) \/ CallbackStep(s) \/ SourceChanges(s)
        PROVE  CloseAdvances
    <2>1. UNCHANGED <<closePC, toClose, callbacks, bindPC>>
      BY <1>6 DEF WatchLoad, CallbackStep, CallbackEnter, CallbackReplace,
          CallbackBuildFails, SourceChanges, closeVars, bindVars
    <2>2. \A b \in Binders : StepsLeft[bindPC[b]] <= StepsLeft[bindPC[b]]
      BY DEF IInv, TypeOK, StepsLeft
    <2>3. ASSUME closePC = "called", NEW t \in Sources, watchPC'[t] = "holding"
          PROVE  watchPC[t] = "holding"
      BY <1>6, <2>3 DEF IInv, TypeOK, WatchLoad, CallbackStep, CallbackEnter,
          CallbackReplace, CallbackBuildFails, SourceChanges, ReadLockFree, watchVars
    <2> QED
      BY <2>1, <2>2, <2>3 DEF CloseAdvances
  <1>7. CASE CloseCall
    BY <1>7 DEF CloseCall, CloseAdvances
  <1>8. CASE CloseStep
    <2>1. \A b \in Binders : StepsLeft[bindPC[b]] <= StepsLeft[bindPC[b]]
      BY DEF IInv, TypeOK, StepsLeft
    <2>2. UNCHANGED <<bindPC, watchPC>>
      BY <1>8 DEF CloseStep, CloseLock, CloseWait, CloseReturns, CloseCancel,
          CloseDetach, CloseSource, bindVars, watchVars
    <2>3. \/ closePC = "called" /\ closePC' = "cancel"
          \/ closePC = "cancel" /\ closePC' = "cancel" /\ toClose' \subseteq toClose
          \/ closePC = "cancel" /\ closePC' = "detach"
          \/ /\ closePC = "detach" /\ closePC' \in {"detach", "done"}
             /\ toClose' \subseteq toClose /\ callbacks' \subseteq callbacks
      BY <1>8 DEF CloseStep, CloseLock, CloseWait, CloseReturns, CloseCancel,
          CloseDetach, CloseSource, closeVars
    <2> QED
      BY <2>1, <2>2, <2>3 DEF CloseAdvances
  <1>9. CASE Terminated
    BY <1>1, <1>9 DEF Terminated, vars, closeVars, watchVars, bindVars
  <1> QED
    BY <1>2, <1>3, <1>4, <1>5, <1>6, <1>7, <1>8, <1>9 DEF Next

\* Close goes through its phases once, in order, and what each waits for only
\* gets less; with CloseNeverStuckHolds and goroutines that run, it returns.
THEOREM CloseOnlyAdvancesHolds == Spec => CloseOnlyAdvances
  <1>1. IInv /\ [Next]_vars => [CloseAdvances]_vars
    BY CloseKeepsOn
  <1> QED
    BY <1>1, Invariance, PTL DEF Spec, CloseOnlyAdvances
=============================================================================
