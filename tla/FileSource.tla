----------------------------- MODULE FileSource -----------------------------
(***************************************************************************)
(* The file key source (keysource/filesource): Load, Close,                *)
(* SetRefreshCallback and the polling goroutine watch, over a disk that    *)
(* other programs rewrite while the source reads it.                       *)
(*                                                                         *)
(* The path of the source names a directory or a single file, and may be   *)
(* out of reach for a while: removed, not mounted, not permitted.          *)
(*                                                                         *)
(* Files are 1..NFiles, in the order sourceFiles sorts them; a single file *)
(* is file 1.  A file on disk has a content, numbered by gen, of which     *)
(* some whole PEM blocks are there, with a torn block after them while one *)
(* is being written.  The SHA-256 snapshot of a load is what it read, file *)
(* by file.                                                                *)
(***************************************************************************)
EXTENDS Integers, FiniteSets, FiniteSetsExt

CONSTANTS
    NFiles,        \* files the directory may hold
    Blocks,        \* PEM blocks of a complete file
    MaxGen,        \* bound: contents a file may be given
    Unbuildable,   \* files and contents whose keys parse but have no backend
    Monitor,       \* WithFileMonitoring
    Callers,       \* goroutines that call Load
    Owner,         \* the caller that is the store's Bind or New
    Watchers       \* slots for watch goroutines

ASSUME FileSourceAssumption ==
    /\ NFiles \in Nat \ {0}
    /\ Blocks \in Nat \ {0}
    /\ MaxGen \in Nat \ {0}
    /\ Unbuildable \subseteq (1..NFiles) \X (1..MaxGen)
    /\ Monitor \in BOOLEAN
    /\ Owner \in Callers
    /\ Callers \cap Watchers = {}

VARIABLES
    single,     \* the path names one file, not a directory
    reachable,  \* the system can look up the path and list it
    disk,       \* what each file holds now
    quiet,      \* the other programs leave path and files alone
    callback,   \* fileSource.callback is not nil
    started,    \* fileSource.started
    closed,     \* fileSource.closed
    cancelled,  \* fileSource.ctx is done
    loaded,     \* fileSource.snapshot is not ""
    snapshot,   \* the content the snapshot hash stands for
    loadPC,     \* where each caller of Load is
    watchPC,    \* where each watch goroutine is
    todo,       \* files a load in progress has still to read
    got,        \* what it has read
    owner,      \* what the store has done with the source
    published   \* the content whose keys the store holds

diskVars   == <<single, reachable, disk, quiet>>
sourceVars == <<callback, started, closed, cancelled, loaded, snapshot>>
readVars   == <<todo, got>>
storeVars  == <<owner, published>>
vars == <<diskVars, sourceVars, loadPC, watchPC, readVars, storeVars>>

Files   == 1..NFiles
Readers == Callers \cup Watchers

\* A file with gen 0 does not exist.
FileStates == [gen : 0..MaxGen, blocks : 0..Blocks, torn : BOOLEAN]
Absent     == [gen |-> 0, blocks |-> 0, torn |-> FALSE]
Nothing    == [f \in Files |-> Absent]

\* The files the path can lead to.
PathFiles == IF single THEN {1} ELSE Files

Exists(d, f) == d[f].gen # 0
Complete(x)  == x = Absent \/ (x.blocks = Blocks /\ ~x.torn)

\* A decode that takes whatever the file holds.
DecodesAnything(x) == x.gen # 0

\* decode: at least one whole block and nothing but white space after it.
Decodes(x) == x.blocks > 0 /\ ~x.torn

\* buildCandidates of the store finds a backend for every key.
Buildable(d) == \A f \in Files : <<f, d[f].gen>> \notin Unbuildable

Init ==
    /\ disk \in [Files -> {Absent, [gen |-> 1, blocks |-> Blocks, torn |-> FALSE]}]
    /\ single \in BOOLEAN
    /\ single => \A f \in Files \ {1} : disk[f] = Absent
    /\ reachable = TRUE
    /\ quiet = FALSE
    /\ callback = FALSE
    /\ started = FALSE
    /\ closed = FALSE
    /\ cancelled = FALSE
    /\ loaded = FALSE
    /\ snapshot = Nothing
    /\ loadPC = [c \in Callers |-> "idle"]
    /\ watchPC = [w \in Watchers |-> "off"]
    /\ todo = [p \in Readers |-> {}]
    /\ got = [p \in Readers |-> Nothing]
    /\ owner = "unbound"
    /\ published = Nothing

-----------------------------------------------------------------------------
(* The programs that own the files.                                        *)

\* A file is rewritten in place, with a new content, an old one or the same:
\* truncated, then block after block, each torn while it is written.
TruncateFile(f) ==
    /\ Exists(disk, f)
    /\ Complete(disk[f])
    /\ \E g \in 1..MaxGen :
        disk' = [disk EXCEPT ![f] = [gen |-> g, blocks |-> 0, torn |-> FALSE]]

AppendFile(f) ==
    /\ ~Complete(disk[f])
    /\ disk' = [disk EXCEPT ![f] =
            [gen |-> @.gen, blocks |-> IF @.torn THEN @.blocks + 1 ELSE @.blocks,
             torn |-> ~@.torn]]

\* A file is created or replaced by a rename, or removed.
RenameFile(f) ==
    /\ Complete(disk[f])
    /\ \E g \in 1..MaxGen :
        disk' = [disk EXCEPT ![f] = [gen |-> g, blocks |-> Blocks, torn |-> FALSE]]

RemoveFile(f) ==
    /\ Exists(disk, f)
    /\ Complete(disk[f])
    /\ disk' = [disk EXCEPT ![f] = Absent]

WriterStep ==
    /\ ~quiet
    /\ \E f \in PathFiles :
        TruncateFile(f) \/ AppendFile(f) \/ RenameFile(f) \/ RemoveFile(f)
    /\ UNCHANGED <<single, reachable, quiet, sourceVars, loadPC, watchPC, readVars, storeVars>>

WritersStop ==
    /\ ~quiet
    /\ \A f \in Files : Complete(disk[f])
    /\ quiet' = TRUE
    /\ UNCHANGED <<single, reachable, disk, sourceVars, loadPC, watchPC,
                   readVars, storeVars>>

\* The directory is moved away, a mount is lost, a permission taken: the path
\* cannot be looked up or listed, until somebody puts it right.
PathChanges ==
    /\ ~quiet
    /\ reachable' = ~reachable
    /\ UNCHANGED <<single, disk, quiet, sourceVars, loadPC, watchPC, readVars,
                   storeVars>>

-----------------------------------------------------------------------------
(* load, for a caller of Load or for a watch goroutine.                    *)

\* os.Stat and os.ReadDir go through: an empty directory can be listed, a
\* single file that is not there cannot.
Listable == reachable /\ (single => Exists(disk, 1))

\* A sourceFiles that takes a path it cannot list for an empty directory.
ListFilesLeniently(p) ==
    /\ todo' = [todo EXCEPT ![p] =
            IF Listable THEN {f \in PathFiles : Exists(disk, f)} ELSE {}]
    /\ got' = [got EXCEPT ![p] = Nothing]

\* sourceFiles names the single file or lists the directory, once and before
\* any file is read.
ListFiles(p) ==
    /\ Listable
    /\ todo' = [todo EXCEPT ![p] = {f \in PathFiles : Exists(disk, f)}]
    /\ got' = [got EXCEPT ![p] = Nothing]

\* The next file in order is read and decoded.
ReadsNext(p) ==
    /\ todo[p] # {}
    /\ LET f == Min(todo[p])
       IN  /\ Decodes(disk[f])
           /\ got' = [got EXCEPT ![p][f] = disk[f]]
           /\ todo' = [todo EXCEPT ![p] = @ \ {f}]

\* load's result goes out of scope.
DropsRead(p) ==
    /\ todo' = [todo EXCEPT ![p] = {}]
    /\ got' = [got EXCEPT ![p] = Nothing]

\* The next file is gone, is out of reach or does not decode.
ReadFails(p) ==
    /\ todo[p] # {}
    /\ ~reachable \/ ~Decodes(disk[Min(todo[p])])

-----------------------------------------------------------------------------
(* Starting the monitor, with mu held.                                     *)

Starts(w) ==
    /\ watchPC[w] = "off"
    /\ started' = TRUE
    /\ watchPC' = [watchPC EXCEPT ![w] = "wait"]

\* startMonitorLocked without the test of started.
StartMonitorAgain(hasCallback, hasSnapshot) ==
    IF closed \/ ~Monitor \/ ~hasCallback \/ ~hasSnapshot
    THEN UNCHANGED <<started, watchPC>>
    ELSE \E w \in Watchers : Starts(w)

\* startMonitorLocked without the test of closed.
StartMonitorClosed(hasCallback, hasSnapshot) ==
    IF ~Monitor \/ started \/ ~hasCallback \/ ~hasSnapshot
    THEN UNCHANGED <<started, watchPC>>
    ELSE \E w \in Watchers : Starts(w)

startMonitorLocked(hasCallback, hasSnapshot) ==
    IF closed \/ ~Monitor \/ started \/ ~hasCallback \/ ~hasSnapshot
    THEN UNCHANGED <<started, watchPC>>
    ELSE \E w \in Watchers : Starts(w)

-----------------------------------------------------------------------------
(* Load.                                                                   *)

\* Refused once closed.  The store calls it while it has no keys of the source
\* yet; any other caller may call it at any time.
LoadBegin(c) ==
    /\ loadPC[c] = "idle"
    /\ ~closed
    /\ c = Owner => owner = "unbound"
    /\ loadPC' = [loadPC EXCEPT ![c] = "read"]
    /\ ListFiles(c)
    /\ UNCHANGED <<diskVars, sourceVars, watchPC, storeVars>>

\* The path cannot be listed: Load returns the error and has changed nothing.
LoadListFails(c) ==
    /\ loadPC[c] = "idle"
    /\ ~closed
    /\ c = Owner => owner = "unbound"
    /\ ~Listable
    /\ UNCHANGED vars

LoadRead(c) ==
    /\ loadPC[c] = "read"
    /\ ReadsNext(c)
    /\ UNCHANGED <<diskVars, sourceVars, loadPC, watchPC, storeVars>>

\* The next file cannot be read or decoded, or the caller's context is done.
LoadFails(c) ==
    /\ loadPC[c] = "read"
    /\ todo[c] # {}
    /\ DropsRead(c)
    /\ loadPC' = [loadPC EXCEPT ![c] = "idle"]
    /\ UNCHANGED <<diskVars, sourceVars, watchPC, storeVars>>

\* The source was closed meanwhile: the keys are dropped.
LoadRefused(c) ==
    /\ loadPC[c] = "read"
    /\ todo[c] = {}
    /\ closed
    /\ DropsRead(c)
    /\ loadPC' = [loadPC EXCEPT ![c] = "idle"]
    /\ UNCHANGED <<diskVars, sourceVars, watchPC, storeVars>>

\* The snapshot is recorded and the keys returned; the store commits them if
\* it can build them all.
LoadReturns(c) ==
    /\ loadPC[c] = "read"
    /\ todo[c] = {}
    /\ ~closed
    /\ snapshot' = got[c]
    /\ loaded' = TRUE
    /\ startMonitorLocked(callback, TRUE)
    /\ loadPC' = [loadPC EXCEPT ![c] = "idle"]
    /\ IF c = Owner /\ Buildable(got[c])
       THEN owner' = "bound" /\ published' = got[c]
       ELSE UNCHANGED storeVars
    /\ DropsRead(c)
    /\ UNCHANGED <<diskVars, callback, closed, cancelled>>

-----------------------------------------------------------------------------
(* SetRefreshCallback and Close, as the store and others call them.        *)

SetRefreshCallback ==
    /\ owner = "bound"
    /\ owner' = "active"
    /\ callback' = TRUE
    /\ startMonitorLocked(TRUE, loaded)
    /\ UNCHANGED <<diskVars, closed, cancelled, loaded, snapshot, loadPC,
                   readVars, published>>

\* The store sets its closed flag: from here on it refuses callbacks.
StoreCloses ==
    /\ owner = "active"
    /\ owner' = "closing"
    /\ UNCHANGED <<diskVars, sourceVars, loadPC, watchPC, readVars, published>>

ClearRefreshCallback ==
    /\ owner = "closing"
    /\ owner' = "detached"
    /\ callback' = FALSE
    /\ startMonitorLocked(FALSE, loaded)
    /\ UNCHANGED <<diskVars, closed, cancelled, loaded, snapshot, loadPC,
                   readVars, published>>

\* Close marks the source under mu and cancels its context after unlocking.
\* The store closes it when detached or while its first load runs; nothing
\* stops the application from closing it earlier.
Close ==
    /\ ~closed
    /\ closed' = TRUE
    /\ UNCHANGED <<diskVars, callback, started, cancelled, loaded, snapshot,
                   loadPC, watchPC, readVars, storeVars>>

\* Close that forgets the context.
CloseForgetsContext == closed /\ ~cancelled /\ UNCHANGED vars

CloseCancels ==
    /\ closed
    /\ ~cancelled
    /\ cancelled' = TRUE
    /\ UNCHANGED <<diskVars, callback, started, closed, loaded, snapshot,
                   loadPC, watchPC, readVars, storeVars>>

-----------------------------------------------------------------------------
(* watch.                                                                  *)

WatchDone(w) ==
    /\ watchPC[w] = "wait"
    /\ cancelled
    /\ watchPC' = [watchPC EXCEPT ![w] = "stopped"]
    /\ UNCHANGED <<diskVars, sourceVars, loadPC, readVars, storeVars>>

\* A tick: load lists the files unless the context is done.
WatchTick(w) ==
    /\ watchPC[w] = "wait"
    /\ ~cancelled
    /\ watchPC' = [watchPC EXCEPT ![w] = "read"]
    /\ ListFiles(w)
    /\ UNCHANGED <<diskVars, sourceVars, loadPC, storeVars>>

\* load fails before it has read a file, on the context or on the path: the
\* keys of the store stay as they are and watch waits for the next tick.
WatchListFails(w) ==
    /\ watchPC[w] = "wait"
    /\ cancelled \/ ~Listable
    /\ UNCHANGED vars

WatchRead(w) ==
    /\ watchPC[w] = "read"
    /\ ~cancelled
    /\ ReadsNext(w)
    /\ UNCHANGED <<diskVars, sourceVars, loadPC, watchPC, storeVars>>

\* load returns an error, of the file or of the context: wait for a tick.
WatchReadFails(w) ==
    /\ watchPC[w] = "read"
    /\ todo[w] # {}
    /\ ReadFails(w) \/ cancelled
    /\ DropsRead(w)
    /\ watchPC' = [watchPC EXCEPT ![w] = "wait"]
    /\ UNCHANGED <<diskVars, sourceVars, loadPC, storeVars>>

\* A compare that records the new snapshot before the store has taken the keys.
WatchCompareEarly(w) ==
    /\ watchPC[w] = "read"
    /\ todo[w] = {}
    /\ snapshot' = got[w]
    /\ IF got[w] = snapshot \/ ~callback
       THEN DropsRead(w) /\ watchPC' = [watchPC EXCEPT ![w] = "wait"]
       ELSE UNCHANGED readVars /\ watchPC' = [watchPC EXCEPT ![w] = "call"]
    /\ UNCHANGED <<diskVars, callback, started, closed, cancelled, loaded,
                   loadPC, storeVars>>

\* The snapshot is compared and the callback picked up, under mu.
WatchCompare(w) ==
    /\ watchPC[w] = "read"
    /\ todo[w] = {}
    /\ IF got[w] = snapshot \/ ~callback
       THEN DropsRead(w) /\ watchPC' = [watchPC EXCEPT ![w] = "wait"]
       ELSE UNCHANGED readVars /\ watchPC' = [watchPC EXCEPT ![w] = "call"]
    /\ UNCHANGED <<diskVars, sourceVars, loadPC, storeVars>>

\* The callback stores the keys.
WatchCall(w) ==
    /\ watchPC[w] = "call"
    /\ owner = "active" /\ Buildable(got[w])
    /\ published' = got[w]
    /\ watchPC' = [watchPC EXCEPT ![w] = "record"]
    /\ UNCHANGED <<diskVars, sourceVars, loadPC, readVars, owner>>

\* A watch that gives up when the callback returns an error.
WatchCallGivesUp(w) ==
    /\ watchPC[w] = "call"
    /\ owner # "active" \/ ~Buildable(got[w])
    /\ DropsRead(w)
    /\ watchPC' = [watchPC EXCEPT ![w] = "stopped"]
    /\ UNCHANGED <<diskVars, sourceVars, loadPC, storeVars>>

\* The callback returns an error: the snapshot stays, the next tick retries.
WatchCallFails(w) ==
    /\ watchPC[w] = "call"
    /\ owner # "active" \/ ~Buildable(got[w])
    /\ DropsRead(w)
    /\ watchPC' = [watchPC EXCEPT ![w] = "wait"]
    /\ UNCHANGED <<diskVars, sourceVars, loadPC, storeVars>>

WatchRecord(w) ==
    /\ watchPC[w] = "record"
    /\ snapshot' = got[w]
    /\ DropsRead(w)
    /\ watchPC' = [watchPC EXCEPT ![w] = "wait"]
    /\ UNCHANGED <<diskVars, callback, started, closed, cancelled, loaded,
                   loadPC, storeVars>>

WatchStep(w) ==
    \/ WatchTick(w) \/ WatchListFails(w) \/ WatchRead(w) \/ WatchReadFails(w)
    \/ WatchCompare(w) \/ WatchCall(w) \/ WatchCallFails(w) \/ WatchRecord(w)

LoadStep(c) ==
    \/ LoadBegin(c) \/ LoadListFails(c) \/ LoadRead(c) \/ LoadFails(c)
    \/ LoadRefused(c) \/ LoadReturns(c)

\* The source is closed and everything has come to rest.
Terminated == closed /\ cancelled /\ UNCHANGED vars

Next ==
    \/ WriterStep \/ WritersStop \/ PathChanges
    \/ \E c \in Callers : LoadStep(c)
    \/ SetRefreshCallback \/ StoreCloses \/ ClearRefreshCallback
    \/ Close \/ CloseCancels
    \/ \E w \in Watchers : WatchStep(w) \/ WatchDone(w)
    \/ Terminated

\* The ticker keeps ticking and a running goroutine keeps running.  A select
\* with a tick and ctx.Done both ready picks either, so it cannot pass over
\* ctx.Done for ever.
Fairness ==
    /\ WF_vars(CloseCancels)
    /\ \A w \in Watchers : WF_vars(WatchStep(w)) /\ SF_vars(WatchDone(w))

Spec == Init /\ [][Next]_vars

FairSpec == Spec /\ Fairness

-----------------------------------------------------------------------------
(* Properties.                                                             *)

Running(w) == watchPC[w] \notin {"off", "stopped"}

\* Every variable keeps its type, and nothing that does not decode is ever
\* held as read, recorded or published.
TypeOK ==
    /\ disk \in [Files -> FileStates]
    /\ {single, reachable, quiet, callback, started, closed, cancelled, loaded} \subseteq BOOLEAN
    /\ snapshot \in [Files -> FileStates]
    /\ loadPC \in [Callers -> {"idle", "read"}]
    /\ watchPC \in [Watchers -> {"off", "wait", "read", "call", "record", "stopped"}]
    /\ todo \in [Readers -> SUBSET Files]
    /\ got \in [Readers -> [Files -> FileStates]]
    /\ owner \in {"unbound", "bound", "active", "closing", "detached"}
    /\ published \in [Files -> FileStates]
    /\ \A f \in Files : Exists(published, f) =>
            published[f].blocks > 0 /\ ~published[f].torn

\* However often Load and SetRefreshCallback are called, one watch goroutine
\* runs at most (started in startMonitorLocked).
SingleWatcher ==
    \A v, w \in Watchers : Running(v) /\ Running(w) => v = w

\* No watch goroutine is started on a closed source, whatever Load or
\* SetRefreshCallback was in flight when Close came.
NoStartAfterClose ==
    [][\A w \in Watchers : closed /\ ~Running(w) => ~Running(w)']_vars

\* While the store is the only caller of Load, the recorded snapshot is what
\* the store holds, except between a callback and its record: so a poll that
\* finds the snapshot unchanged may rightly skip the callback.
SnapshotIsPublished ==
    (Callers = {Owner} /\ owner = "active"
        /\ \A w \in Watchers : watchPC[w] # "record")
      => snapshot = published

\* Trouble with the files never takes keys out of the store.  A poll that meets
\* a file half written fails, and the store keeps the keys it has until the
\* file is whole again; and the keys of a single file stay even when the file
\* is removed or cannot be reached, since then no poll succeeds.
PartialWriteKeepsKeys ==
    [][\A f \in Files : (Exists(published, f) /\ Complete(published[f])) =>
            /\ Complete(published'[f])
            /\ single => Exists(published', f)]_vars

\* Once the files are at rest, can be listed and can be built, a bound and
\* active source brings the store to exactly what is on disk: the files removed
\* from a directory are gone from the store too.  Nothing is promised of a path
\* that cannot be listed at rest, a single file that was removed among them:
\* every poll fails and the store keeps the keys it has.
Converges ==
    (quiet /\ Listable /\ owner = "active" /\ ~closed /\ Buildable(disk))
        ~> (published = disk \/ owner # "active" \/ closed)

\* After Close the watch goroutine ends.
WatcherStops == closed ~> (\A w \in Watchers : ~Running(w))
=============================================================================
