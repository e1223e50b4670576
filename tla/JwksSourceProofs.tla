-------------------------- MODULE JwksSourceProofs --------------------------
(***************************************************************************)
(* Safety of the JWKS source, for any number of generations, callers of    *)
(* Load and slots for watch goroutines.                                    *)
(*                                                                         *)
(* IInv adds to the types what the code keeps: a load that has come back   *)
(* decoded what it holds, loadMu is held by exactly the load whose request *)
(* is in flight, and started guards the start of watch.                    *)
(***************************************************************************)
EXTENDS JwksSource, TLAPS

Decoded == Gens \ Undecodable

\* What a load has decoded, from its response to its last use.
GotOK ==
    /\ \A c \in Callers : loadPC[c] = "loaded" => got[c] \in Decoded
    /\ \A w \in Watchers :
        watchPC[w] \in {"loaded", "call", "record"} => got[w] \in Decoded

\* loadMu is held for the request, and only for it.
MutexOK ==
    /\ \A c \in Callers : loadPC[c] = "request" <=> loadMu = c
    /\ \A w \in Watchers : watchPC[w] = "request" <=> loadMu = w

\* started is what keeps a second watch from being started.
StartedOK == ~started => \A w \in Watchers : watchPC[w] = "off"

IInv ==
    /\ TypeOK
    /\ GotOK
    /\ MutexOK
    /\ StartedOK
    /\ SingleWatcher

\* What the store knows of the source before it has set the callback.
OwnerOK ==
    /\ owner \in {"unbound", "bound"} => ~callback /\ ~started
    /\ loadPC[Owner] # "idle" => owner = "unbound"

\* The snapshot follows what the store holds.
HandedOK ==
    /\ owner \in {"bound", "active"} =>
        \/ snapshot = published
        \/ \E w \in Watchers : watchPC[w] = "record"
    /\ \A w \in Watchers : watchPC[w] = "record" => got[w] = published

-----------------------------------------------------------------------------
(* Starting watch.                                                         *)

\* What startLocked may do.
StartsOrNot ==
    \/ UNCHANGED <<started, watchPC>>
    \/ ~started /\ ~closed /\ \E w \in Watchers : Starts(w)

\* watch is started or nothing happens, and a second watch never is
\* (startLocked).
LEMMA StartStep ==
    ASSUME IInv, StartsOrNot
    PROVE  /\ started' \in BOOLEAN
           /\ watchPC' \in [Watchers -> {"off", "wait", "lock", "request",
                                         "loaded", "call", "record", "stopped"}]
           /\ StartedOK' /\ SingleWatcher'
           /\ \A w \in Watchers :
                watchPC'[w] # watchPC[w] => watchPC[w] = "off" /\ watchPC'[w] = "wait"
  <1>1. CASE UNCHANGED <<started, watchPC>>
    BY <1>1 DEF IInv, TypeOK, StartedOK, SingleWatcher, Running
  <1>2. ASSUME NEW w \in Watchers, Starts(w), ~started
        PROVE  /\ started' \in BOOLEAN
               /\ watchPC' \in [Watchers -> {"off", "wait", "lock", "request",
                                             "loaded", "call", "record", "stopped"}]
               /\ StartedOK' /\ SingleWatcher'
               /\ \A v \in Watchers :
                    watchPC'[v] # watchPC[v] => watchPC[v] = "off" /\ watchPC'[v] = "wait"
    BY <1>2 DEF Starts, IInv, TypeOK, StartedOK, SingleWatcher, Running
  <1> QED
    BY <1>1, <1>2 DEF StartsOrNot

-----------------------------------------------------------------------------
(* The inductive invariant.                                                *)

\* A source that has requested nothing satisfies the invariant.
LEMMA InitIInv == Init => IInv
  <1> SUFFICES ASSUME Init PROVE IInv
    OBVIOUS
  <1>1. TypeOK
    <2>1. 1 \in Gens
      BY JwksSourceAssumption DEF Gens
    <2>2. {callback, started, closed, cancelled} \subseteq BOOLEAN
      BY DEF Init
    <2> QED
      BY <2>1, <2>2 DEF Init, TypeOK
  <1>2. MutexOK
    BY JwksSourceAssumption DEF Init, MutexOK
  <1> QED
    BY <1>1, <1>2 DEF Init, IInv, GotOK, StartedOK, SingleWatcher, Running

\* A caller of Load keeps the invariant: it enters its request with loadMu and
\* leaves it without (Load, load).
LEMMA LoadStepIInv == ASSUME IInv, NEW c \in Callers, LoadStep(c) PROVE IInv'
  <1> USE DEF sourceVars, callVars, storeVars
  <1>1. c \in Readers /\ c # Nobody /\ c \notin Watchers
    BY JwksSourceAssumption DEF Readers
  <1>2. CASE LoadBegin(c) \/ CallerCancels(c)
    <2>1. TypeOK'
      BY <1>2 DEF LoadBegin, CallerCancels, IInv, TypeOK
    <2>2. \A d \in Callers : /\ loadPC'[d] = "loaded" => loadPC[d] = "loaded"
                             /\ loadPC'[d] = "request" <=> loadPC[d] = "request"
      BY <1>2 DEF LoadBegin, CallerCancels, IInv, TypeOK
    <2>3. UNCHANGED <<started, loadMu, watchPC, got>>
      BY <1>2 DEF LoadBegin, CallerCancels
    <2> QED
      BY <2>1, <2>2, <2>3 DEF IInv, GotOK, MutexOK, StartedOK, SingleWatcher,
         Running
  <1>3. CASE LoadLock(c)
    <2>1. TypeOK'
      BY <1>1, <1>3 DEF LoadLock, IInv, TypeOK
    <2>2. MutexOK'
      BY <1>1, <1>3, JwksSourceAssumption DEF LoadLock, IInv, TypeOK, MutexOK
    <2> QED
      BY <1>1, <1>3, <2>1, <2>2 DEF LoadLock, IInv, TypeOK, GotOK, StartedOK,
         SingleWatcher, Running
  <1>4. CASE LoadResponds(c) \/ LoadFails(c)
    <2>1. TypeOK'
      BY <1>1, <1>4 DEF LoadResponds, LoadFails, IInv, TypeOK
    <2>2. loadMu = c /\ loadMu' = Nobody
      BY <1>4 DEF LoadResponds, LoadFails, IInv, MutexOK
    <2>3. MutexOK'
      <3>1. \A d \in Callers : loadPC'[d] = "request" <=> d # c /\ loadPC[d] = "request"
        BY <1>4 DEF LoadResponds, LoadFails, IInv, TypeOK
      <3>2. UNCHANGED watchPC
        BY <1>4 DEF LoadResponds, LoadFails
      <3> QED
        BY <1>1, <2>2, <3>1, <3>2, JwksSourceAssumption DEF IInv, MutexOK
    <2>4. GotOK'
      <3>1. \A w \in Watchers : got'[w] = got[w] /\ watchPC'[w] = watchPC[w]
        BY <1>1, <1>4 DEF LoadResponds, LoadFails, IInv, TypeOK, Readers
      <3>2. \A d \in Callers : loadPC'[d] = "loaded" => got'[d] \in Decoded
        BY <1>1, <1>4 DEF LoadResponds, LoadFails, IInv, TypeOK, GotOK, Decoded,
           Readers
      <3> QED
        BY <3>1, <3>2 DEF GotOK, IInv
    <2> QED
      BY <1>4, <2>1, <2>3, <2>4 DEF LoadResponds, LoadFails, IInv, StartedOK,
         SingleWatcher, Running
  <1>5. CASE LoadRefused(c) \/ LoadReturns(c)
    <2>1. StartsOrNot
      BY <1>5 DEF LoadRefused, LoadReturns, startLocked, StartsOrNot
    <2>2. /\ got[c] \in Decoded
          /\ loadPC' = [loadPC EXCEPT ![c] = "idle"]
          /\ got' = [got EXCEPT ![c] = 0]
          /\ UNCHANGED <<server, callback, closed, cancelled, loadMu, ctxDone>>
      BY <1>5 DEF LoadRefused, LoadReturns, IInv, GotOK
    <2>3. /\ snapshot' \in {snapshot, got[c]}
          /\ published' \in {published, got[c]}
          /\ owner' \in {owner, "bound"}
      BY <1>5 DEF LoadRefused, LoadReturns
    <2>4. TypeOK'
      BY <1>1, <2>1, <2>2, <2>3, StartStep DEF IInv, TypeOK, Decoded
    <2>5. GotOK' /\ MutexOK'
      <3>1. \A w \in Watchers :
                /\ got'[w] = got[w]
                /\ watchPC'[w] # watchPC[w]
                    => watchPC[w] = "off" /\ watchPC'[w] = "wait"
        BY <1>1, <2>1, <2>2, StartStep DEF IInv, TypeOK
      <3>2. loadPC[c] = "loaded" /\ loadPC'[c] = "idle"
        BY <1>5, <2>2 DEF LoadRefused, LoadReturns, IInv, TypeOK
      <3>3. \A d \in Callers \ {c} : loadPC'[d] = loadPC[d] /\ got'[d] = got[d]
        BY <1>1, <2>2 DEF IInv, TypeOK, Readers
      <3> QED
        BY <2>2, <3>1, <3>2, <3>3 DEF IInv, GotOK, MutexOK
    <2> QED
      BY <2>1, <2>4, <2>5, StartStep DEF IInv
  <1> QED
    BY <1>2, <1>3, <1>4, <1>5 DEF LoadStep

\* The store, and whoever closes the source, keep the invariant
\* (SetRefreshCallback, Close).
LEMMA OwnerStepIInv ==
    ASSUME IInv, \/ SetRefreshCallback \/ StoreCloses \/ ClearRefreshCallback
                 \/ Close \/ CloseCancels
    PROVE  IInv'
  <1> USE DEF sourceVars, callVars, storeVars
  <1>1. StartsOrNot
    BY DEF SetRefreshCallback, StoreCloses, ClearRefreshCallback, Close,
       CloseCancels, startLocked, StartsOrNot
  <1>2. /\ UNCHANGED <<server, snapshot, loadMu, loadPC, ctxDone, got, published>>
        /\ {callback', closed', cancelled'} \subseteq BOOLEAN
        /\ owner' \in {owner, "active", "closing", "detached"}
    BY DEF SetRefreshCallback, StoreCloses, ClearRefreshCallback, Close,
       CloseCancels, IInv, TypeOK
  <1>3. TypeOK'
    BY <1>1, <1>2, StartStep DEF IInv, TypeOK
  <1>4. GotOK' /\ MutexOK'
    BY <1>1, <1>2, StartStep DEF IInv, GotOK, MutexOK
  <1> QED
    BY <1>1, <1>3, <1>4, StartStep DEF IInv

\* A watch goroutine keeps the invariant; only the one that runs takes steps
\* (watch).
LEMMA WatchStepIInv ==
    ASSUME IInv, NEW w \in Watchers, WatchStep(w) \/ WatchDone(w)
    PROVE  IInv' /\ \A v \in Watchers \ {w} : ~Running(v) /\ watchPC'[v] = watchPC[v]
  <1> USE DEF sourceVars, callVars, storeVars
  <1>1. w \in Readers /\ w # Nobody /\ w \notin Callers
    BY JwksSourceAssumption DEF Readers
  <1>2. Running(w) /\ started
    BY DEF WatchStep, WatchDone, WatchTick, WatchLock, WatchResponds,
       WatchFails, WatchCompare, WatchCall, WatchCallFails, WatchRecord,
       Running, IInv, StartedOK
  <1>3. /\ \A v \in Watchers \ {w} : ~Running(v) /\ watchPC'[v] = watchPC[v]
        /\ \A p \in Readers \ {w} : got'[p] = got[p]
        /\ UNCHANGED <<started, loadPC, ctxDone>>
    BY <1>1, <1>2 DEF WatchStep, WatchDone, WatchTick, WatchLock,
       WatchResponds, WatchFails, WatchCompare, WatchCall, WatchCallFails,
       WatchRecord, Running, IInv, TypeOK, SingleWatcher
  <1>4. SingleWatcher' /\ StartedOK'
    BY <1>2, <1>3 DEF SingleWatcher, StartedOK, Running
  <1>5. TypeOK'
    <2>1. CASE WatchDone(w) \/ WatchTick(w) \/ WatchLock(w) \/ WatchFails(w)
      BY <1>1, <2>1 DEF WatchDone, WatchTick, WatchLock, WatchFails, IInv, TypeOK
    <2>2. CASE WatchResponds(w) \/ WatchCompare(w) \/ WatchCallFails(w)
      BY <1>1, <2>2 DEF WatchResponds, WatchCompare, WatchCallFails, IInv, TypeOK
    <2>3. CASE WatchCall(w) \/ WatchRecord(w)
      <3>1. got[w] \in Decoded
        BY <2>3 DEF WatchCall, WatchRecord, IInv, GotOK
      <3> QED
        BY <1>1, <2>3, <3>1 DEF WatchCall, WatchRecord, IInv, TypeOK, Decoded
    <2> QED
      BY <2>1, <2>2, <2>3 DEF WatchStep
  <1>6. GotOK'
    <2>1. \A c \in Callers : got'[c] = got[c]
      BY <1>3, JwksSourceAssumption DEF Readers
    <2>2. watchPC'[w] \in {"loaded", "call", "record"} => got'[w] \in Decoded
      BY <1>1 DEF WatchStep, WatchDone, WatchTick, WatchLock, WatchResponds,
         WatchFails, WatchCompare, WatchCall, WatchCallFails, WatchRecord,
         IInv, TypeOK, GotOK, Decoded
    <2>3. \A v \in Watchers \ {w} : got'[v] = got[v]
      BY <1>3 DEF Readers
    <2> QED
      BY <1>3, <2>1, <2>2, <2>3 DEF GotOK, IInv
  <1>7. MutexOK'
    <2>1. CASE WatchLock(w)
      BY <1>1, <1>3, <2>1, JwksSourceAssumption DEF WatchLock, IInv, TypeOK, MutexOK
    <2>2. CASE WatchResponds(w) \/ WatchFails(w)
      <3>1. loadMu = w /\ loadMu' = Nobody /\ watchPC'[w] # "request"
        BY <2>2 DEF WatchResponds, WatchFails, IInv, TypeOK, MutexOK
      <3> QED
        BY <1>1, <1>3, <3>1, JwksSourceAssumption DEF IInv, MutexOK
    <2>3. CASE UNCHANGED loadMu /\ watchPC[w] # "request" /\ watchPC'[w] # "request"
      BY <1>3, <2>3 DEF IInv, MutexOK
    <2>4. ~WatchLock(w) /\ ~WatchResponds(w) /\ ~WatchFails(w) =>
            UNCHANGED loadMu /\ watchPC[w] # "request" /\ watchPC'[w] # "request"
      BY DEF WatchStep, WatchDone, WatchTick, WatchCompare, WatchCall,
         WatchCallFails, WatchRecord, IInv, TypeOK
    <2> QED
      BY <2>1, <2>2, <2>3, <2>4
  <1> QED
    BY <1>3, <1>4, <1>5, <1>6, <1>7 DEF IInv

\* Every step keeps the invariant.
LEMMA NextIInv == IInv /\ [Next]_vars => IInv'
  <1> SUFFICES ASSUME IInv, [Next]_vars PROVE IInv'
    OBVIOUS
  <1>1. CASE ServerChanges \/ UNCHANGED vars
    BY <1>1, JwksSourceAssumption DEF ServerChanges, vars, sourceVars, callVars,
       storeVars, IInv, TypeOK, GotOK, MutexOK, StartedOK, SingleWatcher,
       Running, Gens
  <1> QED
    BY <1>1, LoadStepIInv, OwnerStepIInv, WatchStepIInv DEF Next, Terminated

\* The inductive invariant holds in every reachable state.
THEOREM Invariance == Spec => []IInv
  BY InitIInv, NextIInv, PTL DEF Spec

\* Every variable keeps its type, and a document that does not decode is never
\* recorded or published (load, watch).
THEOREM TypeCorrect == Spec => []TypeOK
  <1>1. IInv => TypeOK
    BY DEF IInv
  <1> QED
    BY <1>1, Invariance, PTL

\* One watch goroutine runs at most, however often and from however many
\* goroutines Load and SetRefreshCallback are called (startLocked).
THEOREM SingleWatcherHolds == Spec => []SingleWatcher
  <1>1. IInv => SingleWatcher
    BY DEF IInv
  <1> QED
    BY <1>1, Invariance, PTL

\* A reader whose request is in flight.
Requesting(p) ==
    \/ p \in Callers /\ loadPC[p] = "request"
    \/ p \in Watchers /\ watchPC[p] = "request"

\* At most one request is in flight, of all callers of Load and of watch: what
\* loadMu is for.
SingleRequest == \A p, q \in Readers : Requesting(p) /\ Requesting(q) => p = q

\* Callers of Load and the watch goroutine never have two requests in flight
\* (loadMu in load).
THEOREM SingleRequestHolds == Spec => []SingleRequest
  <1>1. IInv => SingleRequest
    BY DEF IInv, MutexOK, SingleRequest, Requesting
  <1> QED
    BY <1>1, Invariance, PTL

\* loadMu is taken only while somebody's request is in flight.
NoForgottenLock == loadMu # Nobody => \E p \in Readers : loadMu = p /\ Requesting(p)

\* Whoever waits for loadMu waits for a request and for nothing else, on every
\* way out of load: what CloseEndsLoads needs beyond fairness, together with
\* ClosedWindsDownHolds.
THEOREM NoForgottenLockHolds == Spec => []NoForgottenLock
  <1>1. IInv => NoForgottenLock
    BY DEF IInv, TypeOK, MutexOK, NoForgottenLock, Requesting, Readers
  <1> QED
    BY <1>1, Invariance, PTL

-----------------------------------------------------------------------------
(* The snapshot and what the store holds.                                  *)

\* The store loads before it binds and binds before it sets its callback, so
\* that no watch goroutine exists until then.
LEMMA OwnerStepOK == IInv /\ OwnerOK /\ [Next]_vars => OwnerOK'
  <1> SUFFICES ASSUME IInv, OwnerOK, [Next]_vars PROVE OwnerOK'
    OBVIOUS
  <1> USE DEF sourceVars, callVars, storeVars
  <1>1. ASSUME NEW c \in Callers, LoadStep(c) PROVE OwnerOK'
    <2>1. CASE LoadReturns(c)
      <3>1. /\ loadPC'[Owner] # "idle" => c # Owner /\ loadPC[Owner] # "idle"
            /\ c = Owner => owner = "unbound"
        BY <2>1, JwksSourceAssumption DEF LoadReturns, IInv, TypeOK, OwnerOK
      <3>2. c # Owner => owner' = owner
        BY <2>1 DEF LoadReturns
      <3>3. callback' = callback /\ (~callback => started' = started)
        BY <2>1 DEF LoadReturns, startLocked
      <3>4. owner' \in {"unbound", "bound"} => owner \in {"unbound", "bound"}
        BY <3>1, <3>2
      <3>5. owner' \in {"unbound", "bound"} => ~callback' /\ ~started'
        BY <3>3, <3>4 DEF OwnerOK
      <3>6. loadPC'[Owner] # "idle" => owner' = "unbound"
        BY <3>1, <3>2 DEF OwnerOK
      <3> QED
        BY <3>5, <3>6 DEF OwnerOK
    <2>2. CASE UNCHANGED <<sourceVars, storeVars>>
      <3>1. loadPC'[Owner] # "idle" => loadPC[Owner] # "idle" \/ owner = "unbound"
        BY <1>1, <2>2, JwksSourceAssumption DEF LoadStep, LoadBegin, LoadLock,
           LoadResponds, LoadFails, LoadRefused, LoadReturns, CallerCancels,
           IInv, TypeOK
      <3> QED
        BY <2>2, <3>1 DEF OwnerOK
    <2> QED
      BY <1>1, <2>1, <2>2 DEF LoadStep, LoadBegin, LoadLock, LoadResponds,
         LoadFails, LoadRefused, CallerCancels
  <1>2. CASE SetRefreshCallback \/ StoreCloses \/ ClearRefreshCallback
    <2>1. /\ owner # "unbound" /\ owner' \notin {"unbound", "bound"}
          /\ UNCHANGED loadPC
      BY <1>2 DEF SetRefreshCallback, StoreCloses, ClearRefreshCallback
    <2> QED
      BY <2>1 DEF OwnerOK
  <1>3. CASE Close \/ CloseCancels
    BY <1>3 DEF OwnerOK, Close, CloseCancels
  <1>4. ASSUME NEW w \in Watchers, WatchStep(w) \/ WatchDone(w) PROVE OwnerOK'
    BY <1>4 DEF OwnerOK, WatchStep, WatchDone, WatchTick, WatchLock,
       WatchResponds, WatchFails, WatchCompare, WatchCall, WatchCallFails,
       WatchRecord
  <1>5. CASE ServerChanges \/ UNCHANGED vars
    BY <1>5 DEF OwnerOK, ServerChanges, vars
  <1> QED
    BY <1>1, <1>2, <1>3, <1>4, <1>5 DEF Next, Terminated

\* While only the store calls Load, the snapshot follows what the store holds
\* with the one watch goroutine between its callback and its record.
LEMMA HandedStepOK ==
    ASSUME Callers = {Owner}
    PROVE  IInv /\ OwnerOK /\ HandedOK /\ [Next]_vars => HandedOK'
  <1> SUFFICES ASSUME IInv, OwnerOK, HandedOK, [Next]_vars PROVE HandedOK'
    OBVIOUS
  <1> USE DEF sourceVars, callVars, storeVars
  <1>1. ASSUME NEW c \in Callers, LoadStep(c) PROVE HandedOK'
    <2>1. c = Owner /\ c \in Readers /\ c \notin Watchers
      BY JwksSourceAssumption DEF Readers
    <2>2. \A w \in Watchers : got'[w] = got[w]
      BY <1>1, <2>1 DEF LoadStep, LoadBegin, LoadLock, LoadResponds, LoadFails,
         LoadRefused, LoadReturns, CallerCancels, IInv, TypeOK, Readers
    <2>3. CASE LoadReturns(c)
      <3>1. owner = "unbound"
        BY <2>1, <2>3 DEF OwnerOK, LoadReturns
      <3>2. \A w \in Watchers : watchPC[w] = "off"
        BY <3>1 DEF OwnerOK, IInv, StartedOK
      <3>3. \A w \in Watchers : watchPC'[w] # "record"
        <4>1. StartsOrNot
          BY <2>3 DEF LoadReturns, startLocked, StartsOrNot
        <4> QED
          BY <3>2, <4>1, StartStep
      <3>4. owner' \in {"bound", "active"} => snapshot' = published'
        BY <2>3, <3>1 DEF LoadReturns
      <3> QED
        BY <3>3, <3>4 DEF HandedOK
    <2>4. CASE UNCHANGED <<sourceVars, storeVars, watchPC>>
      BY <2>2, <2>4 DEF HandedOK
    <2> QED
      BY <1>1, <2>3, <2>4 DEF LoadStep, LoadBegin, LoadLock, LoadResponds,
         LoadFails, LoadRefused, CallerCancels
  <1>2. CASE \/ SetRefreshCallback \/ StoreCloses \/ ClearRefreshCallback
             \/ Close \/ CloseCancels
    <2>1. /\ UNCHANGED <<snapshot, published, got>>
          /\ owner' \in {"bound", "active"} => owner \in {"bound", "active"}
      BY <1>2 DEF SetRefreshCallback, StoreCloses, ClearRefreshCallback,
         Close, CloseCancels
    <2>2. StartsOrNot
      BY <1>2 DEF SetRefreshCallback, StoreCloses, ClearRefreshCallback, Close,
         CloseCancels, startLocked, StartsOrNot
    <2>3. \A w \in Watchers : watchPC'[w] = "record" <=> watchPC[w] = "record"
      BY <2>2, StartStep
    <2> QED
      BY <2>1, <2>3 DEF HandedOK
  <1>3. ASSUME NEW w \in Watchers, WatchStep(w) \/ WatchDone(w) PROVE HandedOK'
    <2>1. /\ \A v \in Watchers \ {w} : watchPC[v] # "record" /\ watchPC'[v] # "record"
          /\ owner' = owner
      BY <1>3, WatchStepIInv DEF Running, WatchStep, WatchDone, WatchTick,
         WatchLock, WatchResponds, WatchFails, WatchCompare, WatchCall,
         WatchCallFails, WatchRecord
    <2>2. CASE WatchCall(w)
      BY <2>1, <2>2 DEF WatchCall, HandedOK, IInv, TypeOK
    <2>3. CASE WatchRecord(w)
      BY <2>1, <2>3 DEF WatchRecord, HandedOK, IInv, TypeOK
    <2>4. CASE /\ watchPC[w] # "record" /\ watchPC'[w] # "record"
               /\ UNCHANGED <<snapshot, published>>
      BY <2>1, <2>4 DEF HandedOK
    <2>5. ~WatchCall(w) /\ ~WatchRecord(w) =>
            /\ watchPC[w] # "record" /\ watchPC'[w] # "record"
            /\ UNCHANGED <<snapshot, published>>
      BY <1>3 DEF IInv, TypeOK, WatchStep, WatchDone, WatchTick, WatchLock,
         WatchResponds, WatchFails, WatchCompare, WatchCallFails
    <2> QED
      BY <2>2, <2>3, <2>4, <2>5
  <1>4. CASE ServerChanges \/ UNCHANGED vars
    BY <1>4 DEF HandedOK, ServerChanges, vars
  <1> QED
    BY <1>1, <1>2, <1>3, <1>4 DEF Next, Terminated

\* While the source is active in a store that alone calls Load, its snapshot is
\* what the store holds, except between a callback and its record.
SnapshotIsPublished ==
    (owner = "active" /\ \A w \in Watchers : watchPC[w] # "record")
      => snapshot = published

\* A poll that finds the snapshot unchanged may skip the callback, as long as
\* the store is the only caller of Load (watch, Load).
THEOREM SnapshotIsPublishedHolds ==
    ASSUME Callers = {Owner} PROVE Spec => []SnapshotIsPublished
  <1>1. Init => OwnerOK /\ HandedOK
    BY JwksSourceAssumption DEF Init, OwnerOK, HandedOK
  <1>2. IInv /\ OwnerOK /\ HandedOK /\ [Next]_vars => OwnerOK' /\ HandedOK'
    BY OwnerStepOK, HandedStepOK
  <1>3. HandedOK => SnapshotIsPublished
    BY DEF HandedOK, SnapshotIsPublished
  <1> QED
    BY <1>1, <1>2, <1>3, Invariance, PTL DEF Spec

-----------------------------------------------------------------------------
(* What is published only moves forward, and a closed source stays quiet.  *)

\* No watch goroutine comes to run on a source that is closed.
NoStartAfterClose ==
    [][\A w \in Watchers : closed /\ ~Running(w) => ~Running(w)']_vars

\* Neither a Load whose response was in flight when Close came nor the store's
\* callback starts watch on a closed source (the test of closed in startLocked).
THEOREM NoStartAfterCloseHolds == Spec => NoStartAfterClose
  <1>1. ASSUME IInv, [Next]_vars, closed, NEW w \in Watchers, ~Running(w)
        PROVE  ~Running(w)'
    <2> USE DEF sourceVars, callVars, storeVars
    <2>1. CASE UNCHANGED watchPC
      BY <1>1, <2>1 DEF Running
    <2>2. ASSUME NEW v \in Watchers, WatchStep(v) \/ WatchDone(v)
          PROVE  ~Running(w)'
      <3>1. Running(v)
        BY <2>2 DEF Running, WatchStep, WatchDone, WatchTick, WatchLock,
           WatchResponds, WatchFails, WatchCompare, WatchCall, WatchCallFails,
           WatchRecord
      <3>2. watchPC'[w] = watchPC[w]
        BY <1>1, <2>2, <3>1, WatchStepIInv
      <3> QED
        BY <1>1, <3>2 DEF Running
    <2> QED
      BY <1>1, <2>1, <2>2 DEF Next, vars, ServerChanges, LoadStep, LoadBegin,
         LoadLock, LoadResponds, LoadFails, LoadRefused, LoadReturns,
         CallerCancels, SetRefreshCallback, StoreCloses, ClearRefreshCallback,
         Close, CloseCancels, Terminated, startLocked
  <1>2. IInv /\ [Next]_vars =>
            [\A w \in Watchers : closed /\ ~Running(w) => ~Running(w)']_vars
    BY <1>1
  <1> QED
    BY <1>2, Invariance, PTL DEF Spec, NoStartAfterClose

\* How far a call of Load is from its end.
StepsLeft == [lock |-> 3, request |-> 2, loaded |-> 1, idle |-> 0]

\* What a step does to a closed source: it stays closed, its context stays
\* cancelled, and a call of Load only comes closer to its end.
WindsDown ==
    closed =>
        /\ closed'
        /\ cancelled => cancelled'
        /\ \A c \in Callers : StepsLeft[loadPC'[c]] <= StepsLeft[loadPC[c]]

ClosedWindsDown == [][WindsDown]_vars

\* A call of Load that Close overtakes is neither repeated nor replaced by
\* another, and no new one is admitted (Load's two tests of closed).
THEOREM ClosedWindsDownHolds == Spec => ClosedWindsDown
  <1>1. ASSUME IInv, [Next]_vars, closed PROVE WindsDown
    <2> USE DEF sourceVars, callVars, storeVars
    <2>1. closed' /\ (cancelled => cancelled')
      <3>1. CASE UNCHANGED <<closed, cancelled>>
        BY <1>1, <3>1
      <3>2. ASSUME NEW c \in Callers, LoadStep(c) PROVE UNCHANGED <<closed, cancelled>>
        BY <3>2 DEF LoadStep, LoadBegin, LoadLock, LoadResponds, LoadFails,
           LoadRefused, LoadReturns, CallerCancels
      <3>3. ASSUME NEW w \in Watchers, WatchStep(w) \/ WatchDone(w)
            PROVE  UNCHANGED <<closed, cancelled>>
        BY <3>3 DEF WatchStep, WatchDone, WatchTick, WatchLock, WatchResponds,
           WatchFails, WatchCompare, WatchCall, WatchCallFails, WatchRecord
      <3>4. CASE CloseCancels
        BY <1>1, <3>4 DEF CloseCancels
      <3> QED
        BY <1>1, <3>1, <3>2, <3>3, <3>4 DEF Next, vars, ServerChanges,
           SetRefreshCallback, StoreCloses, ClearRefreshCallback, Close, Terminated
    <2>2. loadPC \in [Callers -> {"idle", "lock", "request", "loaded"}]
      BY <1>1 DEF IInv, TypeOK
    <2>3. ASSUME NEW c \in Callers
          PROVE  \/ loadPC'[c] = loadPC[c]
                 \/ loadPC[c] = "lock" /\ loadPC'[c] = "request"
                 \/ loadPC[c] = "request" /\ loadPC'[c] \in {"loaded", "idle"}
                 \/ loadPC[c] = "loaded" /\ loadPC'[c] = "idle"
      <3>1. CASE UNCHANGED loadPC
        BY <3>1
      <3>2. ASSUME NEW d \in Callers, LoadStep(d)
            PROVE  \/ loadPC'[c] = loadPC[c]
                   \/ loadPC[c] = "lock" /\ loadPC'[c] = "request"
                   \/ loadPC[c] = "request" /\ loadPC'[c] \in {"loaded", "idle"}
                   \/ loadPC[c] = "loaded" /\ loadPC'[c] = "idle"
        BY <1>1, <2>2, <3>2 DEF LoadStep, LoadBegin, LoadLock, LoadResponds, LoadFails,
           LoadRefused, LoadReturns, CallerCancels
      <3> QED
        BY <1>1, <3>1, <3>2 DEF Next, vars, ServerChanges, SetRefreshCallback,
           StoreCloses, ClearRefreshCallback, Close, CloseCancels, Terminated,
           WatchStep, WatchDone, WatchTick, WatchLock, WatchResponds, WatchFails,
           WatchCompare, WatchCall, WatchCallFails, WatchRecord
    <2>4. \A c \in Callers : StepsLeft[loadPC'[c]] <= StepsLeft[loadPC[c]]
      BY <2>2, <2>3 DEF StepsLeft
    <2> QED
      BY <2>1, <2>4 DEF WindsDown
  <1>2. IInv /\ [Next]_vars => [WindsDown]_vars
    BY <1>1 DEF WindsDown
  <1> QED
    BY <1>2, Invariance, PTL DEF Spec, ClosedWindsDown

\* What the store holds is not newer than what a load under way will hand it,
\* and that not newer than what the endpoint serves.
ForwardOK ==
    /\ owner = "unbound" => published = 0
    /\ published <= server
    /\ \A c \in Callers : loadPC[c] = "loaded" => got[c] <= server
    /\ \A w \in Watchers :
        watchPC[w] \in {"loaded", "call", "record"} =>
            published <= got[w] /\ got[w] <= server

\* What PublishedForward says of one step.
Forward == published' >= published

\* The store never goes back to an older key set than it had.
PublishedForward == [][Forward]_vars

\* A step of a caller of Load keeps ForwardOK: the store's own comes before any
\* watch goroutine, and the others' keys are not the store's.
LEMMA LoadForward ==
    ASSUME IInv, OwnerOK, ForwardOK, NEW c \in Callers, LoadStep(c)
    PROVE  ForwardOK' /\ Forward
  <1> USE DEF sourceVars, callVars, storeVars
  <1>1. c \in Readers /\ c \notin Watchers /\ server \in Nat /\ published \in Nat
    BY JwksSourceAssumption DEF Readers, IInv, TypeOK, Gens
  <1>2. /\ server' = server
        /\ \A p \in Readers \ {c} : got'[p] = got[p]
        /\ \A d \in Callers \ {c} : loadPC'[d] = loadPC[d]
        /\ loadPC'[c] = "loaded" => got'[c] <= server
    <2>1. CASE LoadResponds(c)
      BY <1>1, <2>1 DEF LoadResponds, IInv, TypeOK
    <2>2. CASE CallerCancels(c)
      BY <1>1, <2>2 DEF CallerCancels, IInv, TypeOK, ForwardOK
    <2>3. CASE LoadBegin(c) \/ LoadLock(c) \/ LoadFails(c)
      BY <1>1, <2>3 DEF LoadBegin, LoadLock, LoadFails, IInv, TypeOK
    <2>4. CASE LoadRefused(c) \/ LoadReturns(c)
      BY <1>1, <2>4 DEF LoadRefused, LoadReturns, IInv, TypeOK
    <2> QED
      BY <2>1, <2>2, <2>3, <2>4 DEF LoadStep
  <1>3. \A d \in Callers : loadPC'[d] = "loaded" => got'[d] <= server'
    BY <1>2 DEF ForwardOK, Readers
  <1>4. \A w \in Watchers : /\ got'[w] = got[w]
                            /\ watchPC'[w] \in {"loaded", "call", "record"} =>
                                    watchPC'[w] = watchPC[w]
    <2>1. StartsOrNot
      BY DEF LoadStep, LoadBegin, LoadLock, LoadResponds, LoadFails,
         LoadRefused, LoadReturns, CallerCancels, startLocked, StartsOrNot
    <2> QED
      BY <1>1, <1>2, <2>1, StartStep DEF Readers
  <1>5. CASE UNCHANGED storeVars
    BY <1>1, <1>2, <1>3, <1>4, <1>5 DEF ForwardOK, Forward
  <1>6. CASE LoadReturns(c) /\ c = Owner /\ owner' = "bound" /\ published' = got[c]
    <2>1. owner = "unbound" /\ published = 0
      BY <1>6 DEF LoadReturns, OwnerOK, ForwardOK
    <2>2. \A w \in Watchers : watchPC[w] = "off"
      BY <2>1 DEF OwnerOK, IInv, StartedOK
    <2>3. got[c] \in Nat /\ got[c] <= server
      BY <1>1, <1>6 DEF LoadReturns, ForwardOK, IInv, TypeOK, Gens
    <2> QED
      BY <1>2, <1>3, <1>4, <1>6, <2>1, <2>2, <2>3 DEF ForwardOK, Forward
  <1> QED
    BY <1>5, <1>6 DEF LoadStep, LoadBegin, LoadLock, LoadResponds, LoadFails,
       LoadRefused, LoadReturns, CallerCancels

\* A step of the watch goroutine keeps ForwardOK: what it hands over it requested
\* after what it handed over before.
LEMMA WatchForward ==
    ASSUME IInv, ForwardOK, NEW w \in Watchers, WatchStep(w) \/ WatchDone(w)
    PROVE  ForwardOK' /\ Forward
  <1> USE DEF sourceVars, callVars, storeVars
  <1>1. /\ w \in Readers /\ w \notin Callers /\ server \in Nat /\ published \in Nat
        /\ got[w] \in Nat
    BY JwksSourceAssumption DEF Readers, IInv, TypeOK, Gens
  <1>2. /\ \A v \in Watchers \ {w} : ~Running(v) /\ watchPC'[v] = watchPC[v]
        /\ \A v \in Watchers \ {w} : watchPC'[v] \notin {"loaded", "call", "record"}
    BY WatchStepIInv DEF Running
  <1>3. /\ UNCHANGED <<server, owner, loadPC>>
        /\ \A c \in Callers : got'[c] = got[c]
    BY <1>1 DEF WatchStep, WatchDone, WatchTick, WatchLock, WatchResponds,
       WatchFails, WatchCompare, WatchCall, WatchCallFails, WatchRecord,
       IInv, TypeOK, Readers
  <1>4. CASE WatchCall(w)
    BY <1>1, <1>2, <1>3, <1>4 DEF WatchCall, ForwardOK, Forward, IInv, TypeOK
  <1>5. CASE WatchResponds(w)
    BY <1>1, <1>2, <1>3, <1>5 DEF WatchResponds, ForwardOK, Forward, IInv, TypeOK
  <1>6. CASE WatchCompare(w)
    BY <1>1, <1>2, <1>3, <1>6 DEF WatchCompare, ForwardOK, Forward, IInv, TypeOK
  <1>7. CASE published' = published /\ watchPC'[w] \notin {"loaded", "call", "record"}
    BY <1>1, <1>2, <1>3, <1>7 DEF ForwardOK, Forward
  <1>8. ~WatchCall(w) /\ ~WatchResponds(w) /\ ~WatchCompare(w) =>
            published' = published /\ watchPC'[w] \notin {"loaded", "call", "record"}
    BY DEF WatchStep, WatchDone, WatchTick, WatchLock, WatchFails,
       WatchCallFails, WatchRecord, IInv, TypeOK
  <1> QED
    BY <1>4, <1>5, <1>6, <1>7, <1>8

\* Every step keeps ForwardOK.
LEMMA NextForward == IInv /\ OwnerOK /\ ForwardOK /\ [Next]_vars => ForwardOK' /\ Forward
  <1> SUFFICES ASSUME IInv, OwnerOK, ForwardOK, [Next]_vars PROVE ForwardOK' /\ Forward
    OBVIOUS
  <1> USE DEF sourceVars, callVars, storeVars
  <1>1. /\ server \in Nat /\ published \in Nat
        /\ \A p \in Readers : got[p] \in Nat
    BY JwksSourceAssumption DEF IInv, TypeOK, Gens
  <1>2. CASE ServerChanges
    BY <1>1, <1>2 DEF ServerChanges, ForwardOK, Forward, Readers
  <1>3. CASE \/ SetRefreshCallback \/ StoreCloses \/ ClearRefreshCallback
             \/ Close \/ CloseCancels
    <2>1. /\ UNCHANGED <<server, published, got, loadPC>>
          /\ owner' = "unbound" => owner = "unbound"
      BY <1>3 DEF SetRefreshCallback, StoreCloses, ClearRefreshCallback, Close,
         CloseCancels
    <2>2. StartsOrNot
      BY <1>3 DEF SetRefreshCallback, StoreCloses, ClearRefreshCallback, Close,
         CloseCancels, startLocked, StartsOrNot
    <2>3. \A w \in Watchers : watchPC'[w] \in {"loaded", "call", "record"} =>
                                watchPC'[w] = watchPC[w]
      BY <2>2, StartStep
    <2> QED
      BY <1>1, <2>1, <2>3 DEF ForwardOK, Forward
  <1>4. CASE UNCHANGED vars
    BY <1>1, <1>4 DEF vars, ForwardOK, Forward
  <1> QED
    BY <1>2, <1>3, <1>4, LoadForward, WatchForward DEF Next, Terminated

\* The keys a store holds of a JWKS source never go back to an older set,
\* however slow a response is and whoever else calls Load: the store's Load is
\* over before watch starts, and watch is one goroutine (loadMu, startLocked).
THEOREM PublishedForwardHolds == Spec => PublishedForward
  <1>1. Init => OwnerOK /\ ForwardOK
    BY JwksSourceAssumption DEF Init, OwnerOK, ForwardOK
  <1>2. IInv /\ OwnerOK /\ ForwardOK /\ [Next]_vars => OwnerOK' /\ ForwardOK' /\ Forward
    BY OwnerStepOK, NextForward
  <1> QED
    BY <1>1, <1>2, Invariance, PTL DEF Spec, PublishedForward
=============================================================================
