----------------------------- MODULE JwksSource -----------------------------
(***************************************************************************)
(* The JWKS key source (keysource/jwkssource): a key set fetched over HTTP *)
(* on Load and then periodically by the goroutine watch, one request at a  *)
(* time under loadMu, with Close and the caller's context cancelling       *)
(* requests in flight.                                                     *)
(*                                                                         *)
(* What the endpoint serves is a generation of its key set; the snapshot,  *)
(* a digest of the document, is the generation it was computed from.       *)
(***************************************************************************)
EXTENDS Integers, FiniteSets

CONSTANTS
    MaxGen,       \* bound: generations the endpoint goes through
    Undecodable,  \* generations that are no key set, or too large a document
    Callers,      \* goroutines that call Load
    Owner,        \* the caller that is the store's Bind or New
    Watchers,     \* slots for watch goroutines
    Nobody        \* loadMu is free

ASSUME JwksSourceAssumption ==
    /\ MaxGen \in Nat \ {0}
    /\ Undecodable \subseteq 1..MaxGen
    /\ Owner \in Callers
    /\ Callers \cap Watchers = {}
    /\ Nobody \notin Callers \cup Watchers

VARIABLES
    server,     \* the generation the endpoint serves
    callback,   \* Source.callback is not nil
    started,    \* Source.started
    closed,     \* Source.closed
    cancelled,  \* Source.ctx is done
    snapshot,   \* Source.snapshot, 0 while it is ""
    loadMu,     \* who holds loadMu
    loadPC,     \* where each caller of Load is
    ctxDone,    \* the context a caller passed to Load is done
    watchPC,    \* where each watch goroutine is
    got,        \* the generation a load has decoded
    owner,      \* what the store has done with the source
    published   \* the generation whose keys the store holds

sourceVars == <<callback, started, closed, cancelled, snapshot>>
callVars   == <<loadPC, ctxDone>>
storeVars  == <<owner, published>>
vars == <<server, sourceVars, loadMu, callVars, watchPC, got, storeVars>>

Readers == Callers \cup Watchers
Gens    == 1..MaxGen

Init ==
    /\ server = 1
    /\ callback = FALSE
    /\ started = FALSE
    /\ closed = FALSE
    /\ cancelled = FALSE
    /\ snapshot = 0
    /\ loadMu = Nobody
    /\ loadPC = [c \in Callers |-> "idle"]
    /\ ctxDone = [c \in Callers |-> FALSE]
    /\ watchPC = [w \in Watchers |-> "off"]
    /\ got = [p \in Readers |-> 0]
    /\ owner = "unbound"
    /\ published = 0

\* The endpoint publishes its next key set.
ServerChanges ==
    /\ server < MaxGen
    /\ server' = server + 1
    /\ UNCHANGED <<sourceVars, loadMu, callVars, watchPC, got, storeVars>>

-----------------------------------------------------------------------------
(* Starting watch, with mu held.                                           *)

Starts(w) ==
    /\ watchPC[w] = "off"
    /\ started' = TRUE
    /\ watchPC' = [watchPC EXCEPT ![w] = "wait"]

\* startLocked without the test of started.
startLockedAgain(hasCallback, hasSnapshot) ==
    IF closed \/ ~hasCallback \/ ~hasSnapshot
    THEN UNCHANGED <<started, watchPC>>
    ELSE \E w \in Watchers : Starts(w)

startLocked(hasCallback, hasSnapshot) ==
    IF closed \/ started \/ ~hasCallback \/ ~hasSnapshot
    THEN UNCHANGED <<started, watchPC>>
    ELSE \E w \in Watchers : Starts(w)

-----------------------------------------------------------------------------
(* Load.                                                                   *)

\* Refused once closed; then load asks for loadMu.
LoadBegin(c) ==
    /\ loadPC[c] = "idle"
    /\ ~closed
    /\ c = Owner => owner = "unbound"
    /\ loadPC' = [loadPC EXCEPT ![c] = "lock"]
    /\ ctxDone' = [ctxDone EXCEPT ![c] = FALSE]
    /\ UNCHANGED <<server, sourceVars, loadMu, watchPC, got, storeVars>>

LoadLock(c) ==
    /\ loadPC[c] = "lock"
    /\ loadMu = Nobody
    /\ loadMu' = c
    /\ loadPC' = [loadPC EXCEPT ![c] = "request"]
    /\ UNCHANGED <<server, sourceVars, ctxDone, watchPC, got, storeVars>>

\* A response taken without looking at the decoder's error.
LoadRespondsRaw(c) ==
    /\ loadPC[c] = "request"
    /\ got' = [got EXCEPT ![c] = server]
    /\ loadMu' = Nobody
    /\ loadPC' = [loadPC EXCEPT ![c] = "loaded"]
    /\ UNCHANGED <<server, sourceVars, ctxDone, watchPC, storeVars>>

\* A response that decodes.  One that had come in before its context was done
\* may still be used.
LoadResponds(c) ==
    /\ loadPC[c] = "request"
    /\ server \notin Undecodable
    /\ got' = [got EXCEPT ![c] = server]
    /\ loadMu' = Nobody
    /\ loadPC' = [loadPC EXCEPT ![c] = "loaded"]
    /\ UNCHANGED <<server, sourceVars, ctxDone, watchPC, storeVars>>

\* An HTTP error, a refused redirect, a bad document, or either context done.
LoadFails(c) ==
    /\ loadPC[c] = "request"
    /\ loadMu' = Nobody
    /\ loadPC' = [loadPC EXCEPT ![c] = "idle"]
    /\ UNCHANGED <<server, sourceVars, ctxDone, watchPC, got, storeVars>>

\* Back in Load with mu held: refused if closed meanwhile.
LoadRefused(c) ==
    /\ loadPC[c] = "loaded"
    /\ closed
    /\ got' = [got EXCEPT ![c] = 0]
    /\ loadPC' = [loadPC EXCEPT ![c] = "idle"]
    /\ UNCHANGED <<server, sourceVars, loadMu, ctxDone, watchPC, storeVars>>

\* The snapshot is recorded and the keys returned; the store commits them
\* unless it cannot build them all.
LoadReturns(c) ==
    /\ loadPC[c] = "loaded"
    /\ ~closed
    /\ snapshot' = got[c]
    /\ startLocked(callback, TRUE)
    /\ loadPC' = [loadPC EXCEPT ![c] = "idle"]
    /\ got' = [got EXCEPT ![c] = 0]
    /\ \/ c = Owner /\ owner' = "bound" /\ published' = got[c]
       \/ UNCHANGED storeVars
    /\ UNCHANGED <<server, callback, closed, cancelled, loadMu, ctxDone>>

\* A caller gives up: it cancels the context it passed to Load.
CallerCancels(c) ==
    /\ loadPC[c] # "idle"
    /\ ~ctxDone[c]
    /\ ctxDone' = [ctxDone EXCEPT ![c] = TRUE]
    /\ UNCHANGED <<server, sourceVars, loadMu, loadPC, watchPC, got, storeVars>>

-----------------------------------------------------------------------------
(* SetRefreshCallback and Close.                                           *)

SetRefreshCallback ==
    /\ owner = "bound"
    /\ owner' = "active"
    /\ callback' = TRUE
    /\ startLocked(TRUE, snapshot # 0)
    /\ UNCHANGED <<server, closed, cancelled, snapshot, loadMu, callVars, got,
                   published>>

StoreCloses ==
    /\ owner = "active"
    /\ owner' = "closing"
    /\ UNCHANGED <<server, sourceVars, loadMu, callVars, watchPC, got, published>>

ClearRefreshCallback ==
    /\ owner = "closing"
    /\ owner' = "detached"
    /\ callback' = FALSE
    /\ startLocked(FALSE, snapshot # 0)
    /\ UNCHANGED <<server, closed, cancelled, snapshot, loadMu, callVars, got,
                   published>>

Close ==
    /\ ~closed
    /\ closed' = TRUE
    /\ UNCHANGED <<server, callback, started, cancelled, snapshot, loadMu,
                   callVars, watchPC, got, storeVars>>

CloseCancels ==
    /\ closed
    /\ ~cancelled
    /\ cancelled' = TRUE
    /\ UNCHANGED <<server, callback, started, closed, snapshot, loadMu,
                   callVars, watchPC, got, storeVars>>

-----------------------------------------------------------------------------
(* watch.                                                                  *)

WatchDone(w) ==
    /\ watchPC[w] = "wait"
    /\ cancelled
    /\ watchPC' = [watchPC EXCEPT ![w] = "stopped"]
    /\ UNCHANGED <<server, sourceVars, loadMu, callVars, got, storeVars>>

WatchTick(w) ==
    /\ watchPC[w] = "wait"
    /\ watchPC' = [watchPC EXCEPT ![w] = "lock"]
    /\ UNCHANGED <<server, sourceVars, loadMu, callVars, got, storeVars>>

WatchLock(w) ==
    /\ watchPC[w] = "lock"
    /\ loadMu = Nobody
    /\ loadMu' = w
    /\ watchPC' = [watchPC EXCEPT ![w] = "request"]
    /\ UNCHANGED <<server, sourceVars, callVars, got, storeVars>>

WatchResponds(w) ==
    /\ watchPC[w] = "request"
    /\ server \notin Undecodable
    /\ got' = [got EXCEPT ![w] = server]
    /\ loadMu' = Nobody
    /\ watchPC' = [watchPC EXCEPT ![w] = "loaded"]
    /\ UNCHANGED <<server, sourceVars, callVars, storeVars>>

\* A failed request that leaves loadMu locked.
WatchFailsLocked(w) ==
    /\ watchPC[w] = "request"
    /\ watchPC' = [watchPC EXCEPT ![w] = "wait"]
    /\ UNCHANGED <<server, sourceVars, loadMu, callVars, got, storeVars>>

WatchFails(w) ==
    /\ watchPC[w] = "request"
    /\ loadMu' = Nobody
    /\ watchPC' = [watchPC EXCEPT ![w] = "wait"]
    /\ UNCHANGED <<server, sourceVars, callVars, got, storeVars>>

\* A compare that records the new snapshot before the store has taken the keys.
WatchCompareEarly(w) ==
    /\ watchPC[w] = "loaded"
    /\ snapshot' = got[w]
    /\ IF got[w] = snapshot \/ ~callback
       THEN /\ watchPC' = [watchPC EXCEPT ![w] = "wait"]
            /\ got' = [got EXCEPT ![w] = 0]
       ELSE /\ watchPC' = [watchPC EXCEPT ![w] = "call"]
            /\ UNCHANGED got
    /\ UNCHANGED <<server, callback, started, closed, cancelled, loadMu,
                   callVars, storeVars>>

WatchCompare(w) ==
    /\ watchPC[w] = "loaded"
    /\ IF got[w] = snapshot \/ ~callback
       THEN /\ watchPC' = [watchPC EXCEPT ![w] = "wait"]
            /\ got' = [got EXCEPT ![w] = 0]
       ELSE /\ watchPC' = [watchPC EXCEPT ![w] = "call"]
            /\ UNCHANGED got
    /\ UNCHANGED <<server, sourceVars, loadMu, callVars, storeVars>>

\* The callback stores the keys.
WatchCall(w) ==
    /\ watchPC[w] = "call"
    /\ owner = "active"
    /\ published' = got[w]
    /\ watchPC' = [watchPC EXCEPT ![w] = "record"]
    /\ UNCHANGED <<server, sourceVars, loadMu, callVars, got, owner>>

\* The callback fails: the store is closed, or has no backend for a key of the
\* set in this build.
WatchCallFails(w) ==
    /\ watchPC[w] = "call"
    /\ watchPC' = [watchPC EXCEPT ![w] = "wait"]
    /\ got' = [got EXCEPT ![w] = 0]
    /\ UNCHANGED <<server, sourceVars, loadMu, callVars, storeVars>>

WatchRecord(w) ==
    /\ watchPC[w] = "record"
    /\ snapshot' = got[w]
    /\ got' = [got EXCEPT ![w] = 0]
    /\ watchPC' = [watchPC EXCEPT ![w] = "wait"]
    /\ UNCHANGED <<server, callback, started, closed, cancelled, loadMu,
                   callVars, storeVars>>

LoadStep(c) ==
    \/ LoadBegin(c) \/ LoadLock(c) \/ LoadResponds(c) \/ LoadFails(c)
    \/ LoadRefused(c) \/ LoadReturns(c) \/ CallerCancels(c)

WatchStep(w) ==
    \/ WatchTick(w) \/ WatchLock(w) \/ WatchResponds(w) \/ WatchFails(w)
    \/ WatchCompare(w) \/ WatchCall(w) \/ WatchCallFails(w) \/ WatchRecord(w)

Terminated == closed /\ cancelled /\ UNCHANGED vars

Next ==
    \/ ServerChanges
    \/ \E c \in Callers : LoadStep(c)
    \/ SetRefreshCallback \/ StoreCloses \/ ClearRefreshCallback
    \/ Close \/ CloseCancels
    \/ \E w \in Watchers : WatchStep(w) \/ WatchDone(w)
    \/ Terminated

(***************************************************************************)
(* A goroutine that can run does.  loadMu is handed to a waiter in the     *)
(* end: sync.Mutex does not starve one.  A request whose context is done   *)
(* returns; any other may hang, since a caller's own HTTP client need not  *)
(* have a timeout.                                                         *)
(***************************************************************************)
RunnableFairness ==
    /\ WF_vars(CloseCancels)
    /\ \A c \in Callers :
        /\ SF_vars(LoadLock(c))
        /\ WF_vars((ctxDone[c] \/ cancelled) /\ LoadFails(c))
        /\ WF_vars(LoadRefused(c) \/ LoadReturns(c))
    /\ \A w \in Watchers :
        /\ SF_vars(WatchDone(w))
        /\ WF_vars(WatchTick(w))
        /\ SF_vars(WatchLock(w))
        /\ WF_vars(cancelled /\ WatchFails(w))
        /\ WF_vars(WatchCompare(w))
        /\ WF_vars(WatchCall(w) \/ WatchCallFails(w))
        /\ WF_vars(WatchRecord(w))

\* The endpoint answers and the store accepts, again and again: what the
\* progress of a refresh needs beyond the code.
ServiceFairness ==
    /\ \A c \in Callers : WF_vars(LoadResponds(c) \/ LoadFails(c))
    /\ \A w \in Watchers :
        /\ WF_vars(WatchResponds(w) \/ WatchFails(w))
        /\ SF_vars(WatchResponds(w))
        /\ SF_vars(WatchCall(w))

Spec == Init /\ [][Next]_vars

HangingSpec == Spec /\ RunnableFairness

FairSpec == HangingSpec /\ ServiceFairness

-----------------------------------------------------------------------------
(* Properties.                                                             *)

Running(w) == watchPC[w] \notin {"off", "stopped"}

\* Every variable keeps its type, and a generation that does not decode is
\* never recorded or published.
TypeOK ==
    /\ server \in Gens
    /\ {callback, started, closed, cancelled} \subseteq BOOLEAN
    /\ snapshot \in (Gens \ Undecodable) \cup {0}
    /\ loadMu \in Readers \cup {Nobody}
    /\ loadPC \in [Callers -> {"idle", "lock", "request", "loaded"}]
    /\ ctxDone \in [Callers -> BOOLEAN]
    /\ watchPC \in [Watchers ->
            {"off", "wait", "lock", "request", "loaded", "call", "record", "stopped"}]
    /\ got \in [Readers -> Gens \cup {0}]
    /\ owner \in {"unbound", "bound", "active", "closing", "detached"}
    /\ published \in (Gens \ Undecodable) \cup {0}

\* However often Load and SetRefreshCallback are called, one watch goroutine
\* runs at most.
SingleWatcher ==
    \A v, w \in Watchers : Running(v) /\ Running(w) => v = w

\* A changed set is published: the store ends up with what the endpoint serves
\* once that stops changing.
Publishes ==
    (server = MaxGen /\ server \notin Undecodable /\ owner = "active" /\ ~closed)
        ~> (published = server \/ owner # "active" \/ closed)

\* Changed sets are published through failed requests, bad documents and
\* refused callbacks, as long as the endpoint answers again and again and only
\* the store calls Load.
PublishesToOwner ==
    (ServiceFairness /\ [](\A c \in Callers \ {Owner} : loadPC[c] = "idle"))
        => Publishes

\* Closing the source cancels every load, also one that waits for loadMu behind
\* another, even if the endpoint never answers; and the watch goroutine ends.
CloseEndsLoads ==
    closed ~> /\ \A c \in Callers : loadPC[c] = "idle"
              /\ \A w \in Watchers : ~Running(w)
=============================================================================
