-------------------------- MODULE FileSourceProofs --------------------------
(***************************************************************************)
(* Safety of the file source, for any number of files, contents, blocks   *)
(* per file, callers of Load and slots for watch goroutines.               *)
(*                                                                         *)
(* IInv adds to the types what the code keeps under mu: nothing is started *)
(* unless started says so, and no watch goroutine exists before the store  *)
(* has set its callback.  SingleOK adds that a load of a single file never *)
(* gets as far as the store without the file.                              *)
(***************************************************************************)
EXTENDS FileSource, TLAPS

\* Content that a load keeps: a file that was not there or one that decoded.
Readable(d) == \A f \in Files : d[f] = Absent \/ Decodes(d[f])

\* A block is torn only while there is room for it, and a file that does not
\* exist holds nothing.
DiskOK ==
    \A f \in Files : /\ disk[f].torn => disk[f].blocks < Blocks
                     /\ disk[f].gen = 0 => disk[f] = Absent

ReadsOK ==
    /\ Readable(snapshot)
    /\ Readable(published)
    /\ \A p \in Readers : Readable(got[p])

\* started is what keeps a second watch from being started.
StartedOK == ~started => \A w \in Watchers : watchPC[w] = "off"

IInv ==
    /\ TypeOK
    /\ DiskOK
    /\ ReadsOK
    /\ StartedOK
    /\ SingleWatcher

\* A load of a single file is under way only if the file was there, so that it
\* has still to be read or has been read; it never fails to find it.
SingleOK ==
    single =>
        /\ \A p \in Readers : todo[p] \subseteq {1}
        /\ \A p \in Readers : \A f \in Files : Exists(got[p], f) => f = 1
        /\ \A f \in Files : Exists(published, f) => f = 1
        /\ \A c \in Callers :
                loadPC[c] = "read" => todo[c] = {1} \/ Exists(got[c], 1)
        /\ \A w \in Watchers :
                watchPC[w] = "read" => todo[w] = {1} \/ Exists(got[w], 1)
        /\ \A w \in Watchers : watchPC[w] = "call" => Exists(got[w], 1)

\* What the store knows of the source before it has set the callback, and
\* what it holds afterwards, while only the store calls Load.
OwnerOK ==
    /\ owner \in {"unbound", "bound"} => ~callback /\ ~started
    /\ loadPC[Owner] = "read" => owner = "unbound"

HandedOK ==
    /\ owner \in {"bound", "active"} =>
        \/ snapshot = published
        \/ \E w \in Watchers : watchPC[w] = "record"
    /\ \A w \in Watchers : watchPC[w] = "record" => got[w] = published

-----------------------------------------------------------------------------
(* What the pieces of the actions do.                                      *)

\* The three ways in which a load changes what it has read keep its type, keep
\* it readable and leave other loads alone (load).
LEMMA ReadStep ==
    ASSUME IInv, NEW p \in Readers,
           ListFiles(p) \/ ReadsNext(p) \/ DropsRead(p)
    PROVE  /\ todo' \in [Readers -> SUBSET Files]
           /\ got' \in [Readers -> [Files -> FileStates]]
           /\ \A q \in Readers : Readable(got'[q])
           /\ \A q \in Readers \ {p} : got'[q] = got[q]
  <1>1. Nothing \in [Files -> FileStates] /\ Readable(Nothing)
    BY FileSourceAssumption DEF Nothing, Absent, FileStates, Readable
  <1>2. CASE ListFiles(p) \/ DropsRead(p)
    <2>1. PathFiles \subseteq Files
      BY FileSourceAssumption DEF PathFiles, Files
    <2> QED
      BY <1>1, <1>2, <2>1 DEF ListFiles, DropsRead, IInv, TypeOK, ReadsOK
  <1>3. CASE ReadsNext(p)
    <2> DEFINE f == Min(todo[p])
    <2>1. /\ Decodes(disk[f])
          /\ got' = [got EXCEPT ![p][f] = disk[f]]
          /\ todo' = [todo EXCEPT ![p] = @ \ {f}]
      BY <1>3 DEF ReadsNext
    <2> HIDE DEF f
    <2>2. got' \in [Readers -> [Files -> FileStates]]
      BY <2>1 DEF IInv, TypeOK
    <2>3. \A q \in Readers : Readable(got'[q])
      BY <2>1 DEF IInv, TypeOK, ReadsOK, Readable
    <2> QED
      BY <2>1, <2>2, <2>3 DEF IInv, TypeOK
  <1> QED
    BY <1>2, <1>3

\* What startMonitorLocked may do.
StartsOrNot ==
    \/ UNCHANGED <<started, watchPC>>
    \/ ~started /\ ~closed /\ \E w \in Watchers : Starts(w)

\* The monitor is started or nothing happens; it is not started again, nor on
\* a closed source (startMonitorLocked).
LEMMA StartStep ==
    ASSUME IInv, StartsOrNot
    PROVE  /\ started' \in BOOLEAN
           /\ watchPC' \in [Watchers ->
                {"off", "wait", "read", "call", "record", "stopped"}]
           /\ StartedOK' /\ SingleWatcher'
           /\ \A w \in Watchers : watchPC'[w] = "record" <=> watchPC[w] = "record"
           /\ closed => UNCHANGED watchPC
  <1>1. CASE UNCHANGED <<started, watchPC>>
    BY <1>1 DEF IInv, TypeOK, StartedOK, SingleWatcher, Running
  <1>2. ASSUME NEW w \in Watchers, Starts(w), ~started, ~closed
        PROVE  /\ started' \in BOOLEAN
               /\ watchPC' \in [Watchers ->
                    {"off", "wait", "read", "call", "record", "stopped"}]
               /\ StartedOK' /\ SingleWatcher'
               /\ \A v \in Watchers : watchPC'[v] = "record" <=> watchPC[v] = "record"
    BY <1>2 DEF Starts, IInv, TypeOK, StartedOK, SingleWatcher, Running
  <1> QED
    BY <1>1, <1>2 DEF StartsOrNot

-----------------------------------------------------------------------------
(* The inductive invariant.                                                *)

\* A source that has read nothing satisfies the invariant.
LEMMA InitIInv == Init => IInv
  <1> SUFFICES ASSUME Init PROVE IInv
    OBVIOUS
  <1>1. /\ Absent \in FileStates
        /\ [gen |-> 1, blocks |-> Blocks, torn |-> FALSE] \in FileStates
        /\ Nothing \in [Files -> FileStates] /\ Readable(Nothing)
    BY FileSourceAssumption DEF Nothing, Absent, FileStates, Readable
  <1>2. TypeOK
    BY <1>1 DEF Init, TypeOK, Exists, Nothing, Absent
  <1> QED
    BY <1>1, <1>2 DEF Init, IInv, DiskOK, ReadsOK, StartedOK, SingleWatcher,
       Running, Absent

\* A step that changes nothing keeps the invariant.
LEMMA StutterIInv == ASSUME IInv, UNCHANGED vars PROVE IInv'
  BY DEF vars, diskVars, sourceVars, readVars, storeVars, IInv, TypeOK,
     Exists, DiskOK, ReadsOK, Readable, StartedOK, SingleWatcher, Running

\* The programs that write the files never leave a file longer than it can be.
LEMMA WriterStepIInv == ASSUME IInv, WriterStep PROVE IInv'
  <1> USE DEF sourceVars, readVars, storeVars
  <1>1. PICK f \in Files :
            TruncateFile(f) \/ AppendFile(f) \/ RenameFile(f) \/ RemoveFile(f)
    BY FileSourceAssumption DEF WriterStep, PathFiles, Files
  <1>2. /\ disk[f] \in FileStates
        /\ disk[f].torn => disk[f].blocks < Blocks
        /\ disk[f].gen = 0 => disk[f] = Absent
    BY DEF IInv, TypeOK, DiskOK
  <1>3. \E x \in FileStates : /\ disk' = [disk EXCEPT ![f] = x]
                              /\ x.torn => x.blocks < Blocks
                              /\ x.gen = 0 => x = Absent
    <2>1. CASE TruncateFile(f)
      <3>1. PICK g \in 1..MaxGen :
                disk' = [disk EXCEPT ![f] = [gen |-> g, blocks |-> 0, torn |-> FALSE]]
        BY <2>1 DEF TruncateFile
      <3> DEFINE x == [gen |-> g, blocks |-> 0, torn |-> FALSE]
      <3>2. x \in FileStates /\ ~x.torn /\ x.gen # 0
        BY FileSourceAssumption DEF FileStates
      <3> QED
        BY <3>1, <3>2
    <2>2. CASE AppendFile(f) /\ disk[f].torn
      <3> DEFINE x == [gen |-> disk[f].gen, blocks |-> disk[f].blocks + 1,
                       torn |-> FALSE]
      <3>1. x \in FileStates /\ ~x.torn
        BY <1>2, <2>2, FileSourceAssumption DEF FileStates
      <3>2. disk' = [disk EXCEPT ![f] = x]
        BY <1>2, <2>2 DEF AppendFile, FileStates
      <3>3. x.gen # 0
        BY <1>2, <2>2 DEF AppendFile, Complete
      <3> QED
        BY <3>1, <3>2, <3>3
    <2>3. CASE AppendFile(f) /\ ~disk[f].torn
      <3> DEFINE x == [gen |-> disk[f].gen, blocks |-> disk[f].blocks,
                       torn |-> TRUE]
      <3>1. disk[f].blocks # Blocks /\ disk[f].gen # 0
        BY <1>2, <2>3 DEF AppendFile, Complete
      <3>2. x \in FileStates /\ x.blocks < Blocks /\ x.gen # 0
        BY <1>2, <3>1, FileSourceAssumption DEF FileStates
      <3>3. disk' = [disk EXCEPT ![f] = x]
        BY <1>2, <2>3 DEF AppendFile, FileStates
      <3> QED
        BY <3>2, <3>3
    <2>4. CASE RenameFile(f)
      <3>1. PICK g \in 1..MaxGen :
                disk' = [disk EXCEPT ![f] = [gen |-> g, blocks |-> Blocks, torn |-> FALSE]]
        BY <2>4 DEF RenameFile
      <3> DEFINE x == [gen |-> g, blocks |-> Blocks, torn |-> FALSE]
      <3>2. x \in FileStates /\ ~x.torn /\ x.gen # 0
        BY FileSourceAssumption DEF FileStates
      <3> QED
        BY <3>1, <3>2
    <2>5. CASE RemoveFile(f)
      <3>1. Absent \in FileStates /\ ~Absent.torn
        BY FileSourceAssumption DEF Absent, FileStates
      <3> QED
        BY <2>5, <3>1 DEF RemoveFile
    <2> QED
      BY <1>1, <2>1, <2>2, <2>3, <2>4, <2>5
  <1>4. disk' \in [Files -> FileStates] /\ DiskOK'
    BY <1>3 DEF IInv, TypeOK, DiskOK
  <1> QED
    BY <1>4 DEF WriterStep, IInv, TypeOK, ReadsOK, Readable, StartedOK,
       SingleWatcher, Running, Exists

\* Load keeps the invariant, whatever it meets on disk and whoever calls it.
LEMMA LoadStepIInv ==
    ASSUME IInv, NEW c \in Callers, LoadStep(c)
    PROVE  IInv'
  <1> SUFFICES ASSUME ~LoadListFails(c) PROVE IInv'
    BY StutterIInv DEF LoadListFails
  <1> USE DEF diskVars, sourceVars, readVars, storeVars
  <1>1. c \in Readers
    BY DEF Readers
  <1>2. ListFiles(c) \/ ReadsNext(c) \/ DropsRead(c)
    BY DEF LoadStep, LoadBegin, LoadRead, LoadFails, LoadRefused, LoadReturns
  <1>3. /\ todo' \in [Readers -> SUBSET Files]
        /\ got' \in [Readers -> [Files -> FileStates]]
        /\ \A q \in Readers : Readable(got'[q])
    BY <1>1, <1>2, ReadStep
  <1>4. /\ loadPC' \in [Callers -> {"idle", "read"}]
        /\ UNCHANGED <<single, reachable, disk, quiet, callback, closed,
                       cancelled>>
    BY DEF IInv, TypeOK, LoadStep, LoadBegin, LoadRead, LoadFails,
       LoadRefused, LoadReturns
  <1>5. CASE LoadReturns(c)
    <2>1. StartsOrNot
      BY <1>5 DEF LoadReturns, startMonitorLocked, StartsOrNot
    <2>2. /\ snapshot' = got[c] /\ loaded' = TRUE
          /\ \/ owner' = "bound" /\ published' = got[c]
             \/ UNCHANGED <<owner, published>>
      BY <1>5 DEF LoadReturns
    <2>3. got[c] \in [Files -> FileStates] /\ Readable(got[c])
      BY <1>1 DEF IInv, TypeOK, ReadsOK
    <2>4. Readable(published') /\ Readable(snapshot')
      BY <2>2, <2>3 DEF IInv, ReadsOK
    <2>5. \A f \in Files : Exists(published', f) =>
                published'[f].blocks > 0 /\ ~published'[f].torn
      BY <2>4 DEF Readable, Exists, Absent, Decodes
    <2>6. TypeOK'
      BY <1>3, <1>4, <2>1, <2>2, <2>3, <2>5, StartStep DEF IInv, TypeOK, Exists
    <2> QED
      BY <1>3, <1>4, <2>1, <2>4, <2>6, StartStep
      DEF IInv, DiskOK, ReadsOK, Readable
  <1>6. CASE UNCHANGED <<sourceVars, watchPC, storeVars>>
    BY <1>3, <1>4, <1>6 DEF IInv, TypeOK, Exists, DiskOK, ReadsOK, Readable,
       StartedOK, SingleWatcher, Running
  <1> QED
    BY <1>5, <1>6 DEF LoadStep, LoadBegin, LoadRead, LoadFails, LoadRefused

\* So do the store's callback, its removal and Close.
LEMMA OwnerStepIInv ==
    ASSUME IInv,
           \/ SetRefreshCallback \/ StoreCloses \/ ClearRefreshCallback
           \/ Close \/ CloseCancels
    PROVE  IInv'
  <1> USE DEF diskVars, sourceVars, readVars, storeVars
  <1>1. StartsOrNot
    BY DEF SetRefreshCallback, StoreCloses, ClearRefreshCallback, Close,
       CloseCancels, startMonitorLocked, StartsOrNot
  <1>2. /\ UNCHANGED <<single, reachable, disk, quiet, loaded, snapshot,
                       loadPC, todo, got, published>>
        /\ {callback', closed', cancelled'} \subseteq BOOLEAN
        /\ owner' \in {"unbound", "bound", "active", "closing", "detached"}
    BY DEF IInv, TypeOK, SetRefreshCallback, StoreCloses,
       ClearRefreshCallback, Close, CloseCancels
  <1>3. TypeOK'
    BY <1>1, <1>2, StartStep DEF IInv, TypeOK, Exists
  <1> QED
    BY <1>1, <1>2, <1>3, StartStep DEF IInv, DiskOK, ReadsOK, Readable

\* And watch, which goes round its loop or ends.
LEMMA WatchStepIInv ==
    ASSUME IInv, NEW w \in Watchers, WatchStep(w) \/ WatchDone(w)
    PROVE  IInv'
  <1> SUFFICES ASSUME ~WatchListFails(w) PROVE IInv'
    BY StutterIInv DEF WatchListFails
  <1> USE DEF diskVars, sourceVars, readVars, storeVars
  <1>1. w \in Readers
    BY DEF Readers
  <1>2. \/ ListFiles(w) \/ ReadsNext(w) \/ DropsRead(w)
        \/ UNCHANGED <<todo, got>>
    BY DEF WatchStep, WatchDone, WatchTick, WatchRead, WatchReadFails,
       WatchCompare, WatchCall, WatchCallFails, WatchRecord
  <1>3. /\ todo' \in [Readers -> SUBSET Files]
        /\ got' \in [Readers -> [Files -> FileStates]]
        /\ \A q \in Readers : Readable(got'[q])
    <2>1. CASE UNCHANGED <<todo, got>>
      BY <2>1 DEF IInv, TypeOK, ReadsOK, Readable
    <2> QED
      BY <1>1, <1>2, <2>1, ReadStep
  <1>4. /\ watchPC[w] \in {"wait", "read", "call", "record"}
        /\ \E x \in {"wait", "read", "call", "record", "stopped"} :
                watchPC' = [watchPC EXCEPT ![w] = x]
        /\ UNCHANGED <<single, reachable, disk, quiet, callback, started,
                       closed, cancelled, loaded, loadPC, owner>>
    <2>1. WatchRead(w) => watchPC' = [watchPC EXCEPT ![w] = "read"]
      BY DEF WatchRead, IInv, TypeOK
    <2> QED
      BY <2>1 DEF WatchStep, WatchDone, WatchTick, WatchRead, WatchReadFails,
         WatchCompare, WatchCall, WatchCallFails, WatchRecord
  <1>5. StartedOK' /\ SingleWatcher'
    BY <1>4 DEF IInv, TypeOK, StartedOK, SingleWatcher, Running
  <1>6. snapshot' \in {snapshot, got[w]} /\ published' \in {published, got[w]}
    BY DEF WatchStep, WatchDone, WatchTick, WatchRead, WatchReadFails,
       WatchCompare, WatchCall, WatchCallFails, WatchRecord
  <1>7. /\ snapshot' \in [Files -> FileStates] /\ Readable(snapshot')
        /\ published' \in [Files -> FileStates] /\ Readable(published')
    BY <1>1, <1>6 DEF IInv, TypeOK, ReadsOK
  <1>8. \A f \in Files : Exists(published', f) =>
                published'[f].blocks > 0 /\ ~published'[f].torn
    BY <1>7 DEF Readable, Exists, Absent, Decodes
  <1>9. TypeOK'
    BY <1>3, <1>4, <1>7, <1>8 DEF IInv, TypeOK, Exists
  <1> QED
    BY <1>3, <1>4, <1>5, <1>7, <1>9 DEF IInv, DiskOK, ReadsOK, Readable

\* Every step keeps the invariant.
LEMMA NextIInv == IInv /\ [Next]_vars => IInv'
  <1> SUFFICES ASSUME IInv, [Next]_vars PROVE IInv'
    OBVIOUS
  <1>1. CASE UNCHANGED vars
    BY <1>1, StutterIInv
  <1>2. CASE WritersStop \/ PathChanges
    BY <1>2 DEF WritersStop, PathChanges, sourceVars, readVars, storeVars, IInv, TypeOK,
       Exists, DiskOK, ReadsOK, Readable, StartedOK, SingleWatcher, Running
  <1>3. CASE Next
    BY <1>1, <1>2, <1>3, WriterStepIInv, LoadStepIInv, OwnerStepIInv,
       WatchStepIInv DEF Next, Terminated
  <1> QED
    BY <1>1, <1>3

-----------------------------------------------------------------------------
(* The theorems.                                                           *)

\* The inductive invariant holds in every reachable state.
THEOREM Invariance == Spec => []IInv
  BY InitIInv, NextIInv, PTL DEF Spec

\* Every variable keeps its type, and only content that decoded is ever handed
\* to the store (load).
THEOREM TypeCorrect == Spec => []TypeOK
  <1>1. IInv => TypeOK
    BY DEF IInv
  <1> QED
    BY <1>1, Invariance, PTL

\* One watch goroutine runs at most, however often and from however many
\* goroutines Load and SetRefreshCallback are called (startMonitorLocked).
THEOREM SingleWatcherHolds == Spec => []SingleWatcher
  <1>1. IInv => SingleWatcher
    BY DEF IInv
  <1> QED
    BY <1>1, Invariance, PTL

\* No watch goroutine is started on a closed source, whatever was in flight
\* when Close came (the test of closed in startMonitorLocked).
THEOREM NoStartAfterCloseHolds == Spec => NoStartAfterClose
  <1>1. ASSUME IInv, [Next]_vars, closed, NEW w \in Watchers, ~Running(w)
        PROVE  ~Running(w)'
    <2> USE DEF diskVars, sourceVars, readVars, storeVars
    <2>1. CASE UNCHANGED watchPC
      BY <1>1, <2>1 DEF Running
    <2>2. ASSUME NEW v \in Watchers, WatchStep(v) \/ WatchDone(v),
                 ~WatchListFails(v)
          PROVE  ~Running(w)'
      <3>1. Running(v)
        BY <2>2 DEF Running, WatchStep, WatchDone, WatchTick, WatchRead,
           WatchReadFails, WatchCompare, WatchCall, WatchCallFails, WatchRecord
      <3>2. watchPC'[w] = watchPC[w]
        BY <1>1, <2>2, <3>1 DEF IInv, TypeOK, WatchStep, WatchDone, WatchTick,
           WatchRead, WatchReadFails, WatchCompare, WatchCall, WatchCallFails,
           WatchRecord
      <3> QED
        BY <1>1, <3>2 DEF Running
    <2> QED
      BY <1>1, <2>1, <2>2 DEF Next, vars, WriterStep, WritersStop, PathChanges,
         WatchListFails, LoadStep, LoadBegin, LoadListFails, LoadRead, LoadFails, LoadRefused, LoadReturns,
         SetRefreshCallback, StoreCloses, ClearRefreshCallback, Close,
         CloseCancels, Terminated, startMonitorLocked
  <1>2. IInv /\ [Next]_vars =>
            [\A w \in Watchers : closed /\ ~Running(w) => ~Running(w)']_vars
    BY <1>1
  <1> QED
    BY <1>2, Invariance, PTL DEF Spec, NoStartAfterClose

-----------------------------------------------------------------------------
(* A single file.                                                          *)

\* What a load has still to read and has read, of no file but the first.
OfFileOne(t, g) == t \subseteq {1} /\ \A f \in Files : Exists(g, f) => f = 1

OthersKept(p) ==
    \A q \in Readers : q # p => todo'[q] = todo[q] /\ got'[q] = got[q]

\* Listing a single file finds it (sourceFiles).
LEMMA SingleLists ==
    ASSUME IInv, single, NEW p \in Readers, ListFiles(p)
    PROVE  OfFileOne(todo'[p], got'[p]) /\ OthersKept(p) /\ todo'[p] = {1}
  <1>1. \A f \in Files : ~Exists(Nothing, f)
    BY DEF Exists, Nothing, Absent
  <1>2. {f \in PathFiles : Exists(disk, f)} = {1}
    BY DEF ListFiles, Listable, PathFiles
  <1>3. todo'[p] = {1} /\ got'[p] = Nothing /\ OthersKept(p)
    BY <1>2 DEF ListFiles, IInv, TypeOK, OthersKept
  <1> QED
    BY <1>1, <1>3 DEF OfFileOne

\* Reading the next file of a single-file source reads that file (load).
LEMMA SingleReads ==
    ASSUME IInv, SingleOK, single, NEW p \in Readers, ReadsNext(p)
    PROVE  OfFileOne(todo'[p], got'[p]) /\ OthersKept(p) /\ Exists(got'[p], 1)
  <1>1. Min({1}) = 1
    BY DEF Min
  <1>2. todo[p] = {1}
    BY DEF ReadsNext, SingleOK
  <1>3. 1 \in Files
    BY FileSourceAssumption DEF Files
  <1>4. /\ Decodes(disk[1])
        /\ got' = [got EXCEPT ![p][1] = disk[1]]
        /\ todo' = [todo EXCEPT ![p] = @ \ {1}]
    BY <1>1, <1>2 DEF ReadsNext
  <1>5. disk[1].gen # 0
    <2>1. disk[1].gen = 0 => disk[1] = Absent
      BY <1>3 DEF IInv, DiskOK
    <2> QED
      BY <1>4, <2>1 DEF Decodes, Absent
  <1>6. todo'[p] = {} /\ OthersKept(p)
    BY <1>2, <1>4 DEF IInv, TypeOK, OthersKept
  <1>7. got'[p] = [got[p] EXCEPT ![1] = disk[1]]
    BY <1>4 DEF IInv, TypeOK
  <1>8. got[p] \in [Files -> FileStates]
    BY DEF IInv, TypeOK
  <1>9. Exists(got'[p], 1)
    BY <1>3, <1>5, <1>7, <1>8 DEF Exists
  <1>10. \A f \in Files : Exists(got'[p], f) => f = 1
    BY <1>3, <1>7, <1>8 DEF Exists, SingleOK
  <1> QED
    BY <1>6, <1>9, <1>10 DEF OfFileOne

\* A load that is over has nothing to read and has read nothing.
LEMMA SingleDrops ==
    ASSUME IInv, NEW p \in Readers, DropsRead(p)
    PROVE  OfFileOne(todo'[p], got'[p]) /\ OthersKept(p)
  <1>1. \A f \in Files : ~Exists(Nothing, f)
    BY DEF Exists, Nothing, Absent
  <1>2. todo'[p] = {} /\ got'[p] = Nothing /\ OthersKept(p)
    BY DEF DropsRead, IInv, TypeOK, OthersKept
  <1> QED
    BY <1>1, <1>2 DEF OfFileOne

\* The parts of SingleOK that every reader keeps.
OneFileReads == \A p \in Readers : OfFileOne(todo[p], got[p])

LEMMA SingleOneFile ==
    ASSUME IInv, SingleOK, single, NEW p \in Readers,
           OfFileOne(todo'[p], got'[p]), OthersKept(p)
    PROVE  OneFileReads'
  BY DEF SingleOK, OneFileReads, OfFileOne, OthersKept

\* Load keeps SingleOK: what it hands to the store has the file.
LEMMA LoadStepSingle ==
    ASSUME IInv, SingleOK, single, NEW c \in Callers, LoadStep(c),
           ~LoadListFails(c)
    PROVE  SingleOK' /\ (Exists(published, 1) => Exists(published', 1))
  <1> USE DEF diskVars, sourceVars, readVars, storeVars
  <1>1. c \in Readers /\ \A q \in Callers \cup Watchers : q \in Readers
    BY DEF Readers
  <1>2. OfFileOne(todo'[c], got'[c]) /\ OthersKept(c)
    BY <1>1, SingleLists, SingleReads, SingleDrops
    DEF LoadStep, LoadBegin, LoadRead, LoadFails, LoadRefused, LoadReturns
  <1>3. OneFileReads'
    BY <1>1, <1>2, SingleOneFile
  <1>4. \A d \in Callers :
            loadPC'[d] = "read" => todo'[d] = {1} \/ Exists(got'[d], 1)
    <2>1. ASSUME NEW d \in Callers, d # c, loadPC'[d] = "read"
          PROVE  todo'[d] = {1} \/ Exists(got'[d], 1)
      <3>1. loadPC[d] = "read"
        BY <2>1 DEF IInv, TypeOK, LoadStep, LoadBegin, LoadRead, LoadFails,
           LoadRefused, LoadReturns
      <3> QED
        BY <1>1, <1>2, <2>1, <3>1 DEF OthersKept, SingleOK, Exists
    <2>2. ASSUME loadPC'[c] = "read"
          PROVE  todo'[c] = {1} \/ Exists(got'[c], 1)
      <3>1. ListFiles(c) \/ ReadsNext(c)
        BY <2>2 DEF IInv, TypeOK, LoadStep, LoadBegin, LoadRead, LoadFails,
           LoadRefused, LoadReturns
      <3> QED
        BY <1>1, <3>1, SingleLists, SingleReads
    <2> QED
      BY <2>1, <2>2
  <1>5. /\ single' = single
        /\ published' = published
           \/ (published' = got[c] /\ loadPC[c] = "read" /\ todo[c] = {})
    BY DEF LoadStep, LoadBegin, LoadRead, LoadFails, LoadRefused, LoadReturns
  <1>6. /\ \A f \in Files : Exists(published', f) => f = 1
        /\ Exists(published, 1) => Exists(published', 1)
    BY <1>1, <1>5 DEF SingleOK, Exists
  <1>7. \A w \in Watchers : /\ todo'[w] = todo[w] /\ got'[w] = got[w]
                            /\ watchPC'[w] \in {"read", "call"} =>
                                    watchPC'[w] = watchPC[w]
    <2>1. \A w \in Watchers : w \in Readers /\ w # c
      BY FileSourceAssumption DEF Readers
    <2>2. CASE LoadReturns(c)
      BY <1>2, <2>1, <2>2 DEF OthersKept, LoadReturns, startMonitorLocked,
         Starts, IInv, TypeOK
    <2>3. CASE UNCHANGED watchPC
      BY <1>2, <2>1, <2>3 DEF OthersKept
    <2> QED
      BY <2>2, <2>3 DEF LoadStep, LoadBegin, LoadRead, LoadFails, LoadRefused
  <1>8. /\ \A w \in Watchers :
                watchPC'[w] = "read" => todo'[w] = {1} \/ Exists(got'[w], 1)
        /\ \A w \in Watchers : watchPC'[w] = "call" => Exists(got'[w], 1)
    BY <1>7 DEF SingleOK, Exists
  <1> QED
    BY <1>3, <1>4, <1>6, <1>8 DEF SingleOK, OneFileReads, OfFileOne

\* So does watch.
LEMMA WatchStepSingle ==
    ASSUME IInv, SingleOK, single, NEW w \in Watchers,
           WatchStep(w) \/ WatchDone(w), ~WatchListFails(w)
    PROVE  SingleOK' /\ (Exists(published, 1) => Exists(published', 1))
  <1> USE DEF diskVars, sourceVars, readVars, storeVars
  <1>1. w \in Readers /\ \A q \in Callers \cup Watchers : q \in Readers
    BY DEF Readers
  <1>2. OfFileOne(todo'[w], got'[w]) /\ OthersKept(w)
    <2>1. CASE UNCHANGED <<todo, got>>
      BY <1>1, <2>1 DEF OfFileOne, OthersKept, SingleOK
    <2> QED
      BY <1>1, <2>1, SingleLists, SingleReads, SingleDrops
      DEF WatchStep, WatchDone, WatchTick, WatchRead, WatchReadFails,
          WatchCompare, WatchCall, WatchCallFails, WatchRecord
  <1>3. OneFileReads'
    BY <1>1, <1>2, SingleOneFile
  <1>4. \A c \in Callers :
            loadPC'[c] = "read" => todo'[c] = {1} \/ Exists(got'[c], 1)
    <2>1. \A c \in Callers : c \in Readers /\ c # w
      BY FileSourceAssumption DEF Readers
    <2>2. UNCHANGED loadPC
      BY DEF WatchStep, WatchDone, WatchTick, WatchRead, WatchReadFails,
         WatchCompare, WatchCall, WatchCallFails, WatchRecord
    <2> QED
      BY <1>2, <2>1, <2>2 DEF OthersKept, SingleOK, Exists
  <1>5. /\ single' = single
        /\ published' = published
           \/ (published' = got[w] /\ watchPC[w] = "call")
    BY DEF WatchStep, WatchDone, WatchTick, WatchRead, WatchReadFails,
       WatchCompare, WatchCall, WatchCallFails, WatchRecord
  <1>6. /\ \A f \in Files : Exists(published', f) => f = 1
        /\ Exists(published, 1) => Exists(published', 1)
    BY <1>1, <1>5 DEF SingleOK, Exists
  <1>7. ASSUME NEW v \in Watchers, v # w
        PROVE  /\ todo'[v] = todo[v] /\ got'[v] = got[v]
               /\ watchPC'[v] = watchPC[v]
    <2>1. watchPC'[v] = watchPC[v]
      BY <1>7 DEF IInv, TypeOK, WatchStep, WatchDone, WatchTick, WatchRead,
         WatchReadFails, WatchCompare, WatchCall, WatchCallFails, WatchRecord
    <2> QED
      BY <1>1, <1>2, <1>7, <2>1 DEF OthersKept
  <1>8. ASSUME watchPC'[w] = "read"
        PROVE  todo'[w] = {1} \/ Exists(got'[w], 1)
    <2>1. ListFiles(w) \/ ReadsNext(w)
      BY <1>8 DEF IInv, TypeOK, WatchStep, WatchDone, WatchTick, WatchRead,
         WatchReadFails, WatchCompare, WatchCall, WatchCallFails, WatchRecord
    <2> QED
      BY <1>1, <2>1, SingleLists, SingleReads
  <1>9. ASSUME watchPC'[w] = "call"
        PROVE  Exists(got'[w], 1)
    <2>1. watchPC[w] = "read" /\ todo[w] = {} /\ got' = got
      BY <1>9 DEF IInv, TypeOK, WatchStep, WatchDone, WatchTick, WatchRead,
         WatchReadFails, WatchCompare, WatchCall, WatchCallFails, WatchRecord
    <2> QED
      BY <2>1 DEF SingleOK, Exists
  <1>10. /\ \A v \in Watchers :
                watchPC'[v] = "read" => todo'[v] = {1} \/ Exists(got'[v], 1)
         /\ \A v \in Watchers : watchPC'[v] = "call" => Exists(got'[v], 1)
    BY <1>7, <1>8, <1>9 DEF SingleOK, Exists
  <1> QED
    BY <1>3, <1>4, <1>6, <1>10 DEF SingleOK, OneFileReads, OfFileOne

\* Every step of a single-file source keeps SingleOK, and keeps the file among
\* the published ones.
LEMMA NextSingle ==
    ASSUME IInv, SingleOK, [Next]_vars
    PROVE  /\ SingleOK' /\ single' = single
           /\ single => \A f \in Files : Exists(published, f) => Exists(published', f)
  <1> USE DEF diskVars, sourceVars, readVars, storeVars
  <1>1. single' = single
    <2>1. ASSUME NEW c \in Callers, LoadStep(c) PROVE single' = single
      BY <2>1 DEF LoadStep, LoadBegin, LoadListFails, LoadRead, LoadFails,
         LoadRefused, LoadReturns, vars
    <2>2. ASSUME NEW w \in Watchers, WatchStep(w) \/ WatchDone(w)
          PROVE  single' = single
      BY <2>2 DEF WatchStep, WatchDone, WatchTick, WatchListFails, WatchRead,
         WatchReadFails, WatchCompare, WatchCall, WatchCallFails, WatchRecord,
         vars
    <2> QED
      BY <2>1, <2>2 DEF Next, vars, WriterStep, WritersStop, PathChanges,
         SetRefreshCallback, StoreCloses, ClearRefreshCallback, Close,
         CloseCancels, Terminated
  <1>2. CASE ~single
    BY <1>1, <1>2 DEF SingleOK
  <1>3. CASE single
    <2> DEFINE Kept == SingleOK' /\ (Exists(published, 1) => Exists(published', 1))
    <2>1. ASSUME WriterStep \/ WritersStop \/ PathChanges \/ UNCHANGED vars
          PROVE  Kept
      BY <1>1, <1>3, <2>1 DEF SingleOK, Exists, WriterStep, WritersStop,
         PathChanges, vars
    <2>2. ASSUME \/ SetRefreshCallback \/ StoreCloses \/ ClearRefreshCallback
                 \/ Close \/ CloseCancels
          PROVE  Kept
      <3>1. UNCHANGED <<loadPC, todo, got, published>>
        BY <2>2 DEF SetRefreshCallback, StoreCloses, ClearRefreshCallback,
           Close, CloseCancels
      <3>2. \A w \in Watchers :
                watchPC'[w] \in {"read", "call"} => watchPC'[w] = watchPC[w]
        BY <2>2 DEF SetRefreshCallback, StoreCloses, ClearRefreshCallback,
           Close, CloseCancels, startMonitorLocked, Starts, IInv, TypeOK
      <3> QED
        BY <1>1, <1>3, <3>1, <3>2 DEF SingleOK, Exists
    <2>3. ASSUME NEW c \in Callers, LoadStep(c) PROVE Kept
      BY <1>3, <2>1, <2>3, LoadStepSingle DEF LoadListFails
    <2>4. ASSUME NEW w \in Watchers, WatchStep(w) \/ WatchDone(w) PROVE Kept
      BY <1>3, <2>1, <2>4, WatchStepSingle DEF WatchListFails
    <2>5. Kept
      BY <2>1, <2>2, <2>3, <2>4 DEF Next, Terminated
    <2>6. \A f \in Files : Exists(published, f) => Exists(published', f)
      BY <1>3, <2>5 DEF SingleOK
    <2> QED
      BY <1>1, <2>5, <2>6
  <1> QED
    BY <1>2, <1>3

\* What a step must do for PartialWriteKeepsKeys.
KeepsKeys ==
    \A f \in Files : (Exists(published, f) /\ Complete(published[f])) =>
        /\ Complete(published'[f])
        /\ single => Exists(published', f)

\* A file of one block that is being rewritten takes no keys out of the store:
\* what is published is always complete (Decodes).  With more blocks per file
\* the property is false, as the run file_blocks shows.  And a single file that
\* was published stays so, whatever becomes of the file and of its path: a poll
\* either fails or has read it (sourceFiles, load, watch).
THEOREM PartialWriteKeepsKeysHolds ==
    ASSUME Blocks = 1 PROVE Spec => PartialWriteKeepsKeys
  <1>1. IInv' => \A f \in Files : Complete(published'[f])
    <2> SUFFICES ASSUME IInv', NEW f \in Files PROVE Complete(published'[f])
      OBVIOUS
    <2>1. published'[f] \in FileStates
      BY DEF IInv, TypeOK
    <2>2. published'[f] = Absent \/ Decodes(published'[f])
      BY DEF IInv, ReadsOK, Readable
    <2> QED
      BY <2>1, <2>2 DEF Decodes, Complete, FileStates
  <1>2. Init => SingleOK
    BY DEF Init, SingleOK, Exists, Nothing, Absent
  <1>3. IInv /\ SingleOK /\ [Next]_vars => SingleOK'
    BY NextSingle
  <1>4. IInv /\ SingleOK /\ [Next]_vars /\ IInv' => [KeepsKeys]_vars
    BY <1>1, NextSingle DEF KeepsKeys
  <1>5. Spec => [][KeepsKeys]_vars
    BY <1>2, <1>3, <1>4, Invariance, PTL DEF Spec
  <1> QED
    BY <1>5 DEF PartialWriteKeepsKeys, KeepsKeys

-----------------------------------------------------------------------------
(* The snapshot and what the store holds.                                  *)

\* The store loads before it binds and binds before it sets its callback, so
\* that no watch goroutine exists until then.
LEMMA OwnerStepOK == IInv /\ OwnerOK /\ [Next]_vars => OwnerOK'
  <1> SUFFICES ASSUME IInv, OwnerOK, [Next]_vars PROVE OwnerOK'
    OBVIOUS
  <1> USE DEF diskVars, sourceVars, readVars, storeVars
  <1>1. ASSUME NEW c \in Callers, LoadStep(c), ~LoadListFails(c) PROVE OwnerOK'
    <2>1. CASE LoadReturns(c)
      <3>1. loadPC'[Owner] = "read" => c # Owner /\ loadPC[Owner] = "read"
        BY <2>1, FileSourceAssumption DEF LoadReturns, IInv, TypeOK
      <3>2. c # Owner => owner' = owner
        BY <2>1 DEF LoadReturns
      <3>3. c = Owner => owner = "unbound"
        BY <2>1 DEF OwnerOK, LoadReturns
      <3>4. callback' = callback /\ (~callback => started' = started)
        BY <2>1 DEF LoadReturns, startMonitorLocked
      <3>5. owner' \in {"unbound", "bound"} => owner \in {"unbound", "bound"}
        BY <3>2, <3>3
      <3>6. (owner' \in {"unbound", "bound"} => ~callback' /\ ~started')
        BY <3>4, <3>5 DEF OwnerOK
      <3>7. loadPC'[Owner] = "read" => owner' = "unbound"
        BY <3>1, <3>2 DEF OwnerOK
      <3> QED
        BY <3>6, <3>7 DEF OwnerOK
    <2>2. CASE UNCHANGED <<sourceVars, storeVars>>
      <3>1. loadPC'[Owner] = "read" => loadPC[Owner] = "read" \/ owner = "unbound"
        BY <1>1, <2>2, FileSourceAssumption DEF LoadStep, LoadBegin, LoadRead,
           LoadFails, LoadRefused, LoadReturns, IInv, TypeOK
      <3> QED
        BY <2>2, <3>1 DEF OwnerOK
    <2> QED
      BY <1>1, <2>1, <2>2 DEF LoadStep, LoadBegin, LoadRead, LoadFails,
         LoadRefused
  <1>2. CASE SetRefreshCallback \/ StoreCloses \/ ClearRefreshCallback
    <2>1. owner # "unbound" /\ owner' \notin {"unbound", "bound"}
      BY <1>2 DEF SetRefreshCallback, StoreCloses, ClearRefreshCallback
    <2>2. UNCHANGED loadPC
      BY <1>2 DEF SetRefreshCallback, StoreCloses, ClearRefreshCallback
    <2> QED
      BY <2>1, <2>2 DEF OwnerOK
  <1>3. CASE Close \/ CloseCancels
    BY <1>3 DEF OwnerOK, Close, CloseCancels
  <1>4. ASSUME NEW w \in Watchers, WatchStep(w) \/ WatchDone(w),
               ~WatchListFails(w)
        PROVE  OwnerOK'
    BY <1>4 DEF OwnerOK, WatchStep, WatchDone, WatchTick, WatchRead,
       WatchReadFails, WatchCompare, WatchCall, WatchCallFails, WatchRecord
  <1>5. CASE WriterStep \/ WritersStop \/ PathChanges \/ UNCHANGED vars
    BY <1>5 DEF OwnerOK, WriterStep, WritersStop, PathChanges, vars
  <1> QED
    BY <1>1, <1>2, <1>3, <1>4, <1>5
    DEF Next, Terminated, LoadListFails, WatchListFails

\* While only the store calls Load, the snapshot follows what the store holds
\* with the one watch goroutine between its callback and its record.
LEMMA HandedStepOK ==
    ASSUME Callers = {Owner}
    PROVE  IInv /\ OwnerOK /\ HandedOK /\ [Next]_vars => HandedOK'
  <1> SUFFICES ASSUME IInv, OwnerOK, HandedOK, [Next]_vars PROVE HandedOK'
    OBVIOUS
  <1> USE DEF diskVars, sourceVars, readVars, storeVars
  <1>1. ASSUME NEW c \in Callers, LoadStep(c), ~LoadListFails(c) PROVE HandedOK'
    <2>1. c = Owner /\ c \in Readers /\ \A w \in Watchers : w \in Readers \ {c}
      BY FileSourceAssumption DEF Readers
    <2>2. \A w \in Watchers : got'[w] = got[w]
      <3>1. ListFiles(c) \/ ReadsNext(c) \/ DropsRead(c)
        BY <1>1 DEF LoadStep, LoadBegin, LoadRead, LoadFails, LoadRefused,
           LoadReturns
      <3> QED
        BY <2>1, <3>1, ReadStep
    <2>3. CASE LoadReturns(c)
      <3>1. owner = "unbound"
        BY <2>1, <2>3 DEF OwnerOK, LoadReturns
      <3>2. \A w \in Watchers : watchPC[w] = "off"
        BY <3>1 DEF OwnerOK, IInv, StartedOK
      <3>3. \A w \in Watchers : watchPC'[w] # "record"
        <4>1. StartsOrNot
          BY <2>3 DEF LoadReturns, startMonitorLocked, StartsOrNot
        <4> QED
          BY <3>2, <4>1, StartStep
      <3>4. owner' \in {"bound", "active"} => snapshot' = published'
        BY <2>3, <3>1 DEF LoadReturns
      <3> QED
        BY <3>3, <3>4 DEF HandedOK
    <2>4. CASE UNCHANGED <<sourceVars, storeVars, watchPC>>
      BY <2>2, <2>4 DEF HandedOK
    <2> QED
      BY <1>1, <2>3, <2>4 DEF LoadStep, LoadBegin, LoadRead, LoadFails,
         LoadRefused
  <1>2. CASE \/ SetRefreshCallback \/ StoreCloses \/ ClearRefreshCallback
             \/ Close \/ CloseCancels
    <2>1. /\ UNCHANGED <<snapshot, published, got>>
          /\ owner' \in {"bound", "active"} => owner \in {"bound", "active"}
      BY <1>2 DEF SetRefreshCallback, StoreCloses, ClearRefreshCallback,
         Close, CloseCancels
    <2>2. StartsOrNot
      BY <1>2 DEF SetRefreshCallback, StoreCloses, ClearRefreshCallback, Close,
         CloseCancels, startMonitorLocked, StartsOrNot
    <2> QED
      BY <2>1, <2>2, StartStep DEF HandedOK
  <1>3. ASSUME NEW w \in Watchers, WatchStep(w) \/ WatchDone(w),
               ~WatchListFails(w)
        PROVE  HandedOK'
    <2>1. /\ Running(w) /\ watchPC[w] # "off"
          /\ owner' = owner
          /\ \A v \in Watchers \ {w} : watchPC'[v] = watchPC[v]
      BY <1>3 DEF IInv, TypeOK, Running, WatchStep, WatchDone, WatchTick,
         WatchRead, WatchReadFails, WatchCompare, WatchCall, WatchCallFails,
         WatchRecord
    <2>2. \A v \in Watchers \ {w} : watchPC[v] # "record"
      BY <2>1 DEF IInv, SingleWatcher, Running
    <2>3. CASE WatchCall(w)
      BY <2>1, <2>2, <2>3 DEF WatchCall, HandedOK, IInv, TypeOK
    <2>4. CASE WatchRecord(w)
      BY <2>1, <2>2, <2>4 DEF WatchRecord, HandedOK, IInv, TypeOK
    <2>5. CASE /\ watchPC[w] # "record" /\ watchPC'[w] # "record"
               /\ UNCHANGED <<snapshot, published>>
      BY <2>1, <2>2, <2>5 DEF HandedOK
    <2>6. ~WatchCall(w) /\ ~WatchRecord(w) =>
            /\ watchPC[w] # "record" /\ watchPC'[w] # "record"
            /\ UNCHANGED <<snapshot, published>>
      BY <1>3 DEF IInv, TypeOK, WatchStep, WatchDone, WatchTick, WatchRead,
         WatchReadFails, WatchCompare, WatchCallFails
    <2> QED
      BY <2>3, <2>4, <2>5, <2>6
  <1>4. CASE WriterStep \/ WritersStop \/ PathChanges \/ UNCHANGED vars
    BY <1>4 DEF HandedOK, WriterStep, WritersStop, PathChanges, vars
  <1> QED
    BY <1>1, <1>2, <1>3, <1>4
    DEF Next, Terminated, LoadListFails, WatchListFails

\* A poll that finds the snapshot unchanged may skip the callback: the snapshot
\* is what the store holds, except between a callback and its record, as long
\* as the store is the only caller of Load (watch, Load).
THEOREM SnapshotIsPublishedHolds == Spec => []SnapshotIsPublished
  <1>1. CASE Callers # {Owner}
    <2>1. SnapshotIsPublished
      BY <1>1 DEF SnapshotIsPublished
    <2> QED
      BY <2>1, PTL
  <1>2. CASE Callers = {Owner}
    <2>1. Init => OwnerOK /\ HandedOK
      BY FileSourceAssumption DEF Init, OwnerOK, HandedOK
    <2>2. IInv /\ OwnerOK /\ HandedOK /\ [Next]_vars => OwnerOK' /\ HandedOK'
      BY <1>2, OwnerStepOK, HandedStepOK
    <2>3. HandedOK => SnapshotIsPublished
      BY DEF HandedOK, SnapshotIsPublished
    <2> QED
      BY <2>1, <2>2, <2>3, Invariance, PTL DEF Spec
  <1> QED
    BY <1>1, <1>2
=============================================================================
