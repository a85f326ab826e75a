------------------------- MODULE RunContract_proofs -------------------------
(***************************************************************************)
(* The import of a run's networks, for any number of workers, files, runs  *)
(* and faults: every row has a file of its own, and the rows of one import *)
(* appear in one commit or never.                                          *)
(***************************************************************************)
EXTENDS RunLifecycle_proofs, FiniteSetTheorems

\* The workers whose open transaction inserts content f.
Inserting(f) == {w \in Workers : f \in wk[w].tx}

\* Each open insert of a content moved a file of its own; finitely many are open, however
\* many workers there are.
FilesSuffice ==
  \A f \in Files :
    /\ IsFiniteSet(Inserting(f))
    /\ nets[f] + Cardinality(Inserting(f)) <= disk[f]

\* Only a task that is still importing has inserted anything: the handlers of a failure
\* run after the rollback, or before the first insert.
InsertsWhileImporting == \A w \in Workers : wk[w].tx # {} => wk[w].pc = "files"

\* A task that imports handles the selected outputs only, and each of them is still to
\* do, inserted by the task, or stored already.
NothingForgotten ==
  \A w \in Workers : wk[w].pc = "files" =>
    /\ wk[w].todo \cup wk[w].tx \subseteq Selected(wk[w].run)
    /\ \A f \in Selected(wk[w].run) : f \in wk[w].todo \cup wk[w].tx \/ nets[f] > 0

ImportInv == FilesSuffice /\ InsertsWhileImporting /\ NothingForgotten

AtomicStep ==
  nets' # nets =>
    \E r \in Runs :
      /\ row'[r] = "COMPLETED"
      /\ \A f \in Files : nets'[f] # nets[f] => f \in Wanted[r] \cap Outputs[r]
      /\ \A f \in Wanted[r] \cap Outputs[r] : nets'[f] > 0

----------------------------------------------------------------------------
(* Facts about the sets of open inserts.                                   *)

LEMMA ImportInit == ASSUME RunAssumption, Init PROVE ImportInv
<1>1. \A f \in Files : Inserting(f) = {} BY DEF Init, Inserting, IdleWorker
<1>2. \A f \in Files : nets[f] = 0 /\ disk[f] = 0 BY DEF Init
<1>3. IsFiniteSet({}) /\ Cardinality({}) = 0 BY FS_EmptySet
<1>4. ASSUME NEW f \in Files
      PROVE  IsFiniteSet(Inserting(f)) /\ nets[f] + Cardinality(Inserting(f)) <= disk[f]
  <2>1. IsFiniteSet(Inserting(f)) /\ Cardinality(Inserting(f)) = 0 BY <1>1, <1>3
  <2>2. nets[f] = 0 /\ disk[f] = 0 BY <1>2
  <2> QED BY <2>1, <2>2
<1>5. FilesSuffice BY <1>4 DEF FilesSuffice
<1> QED BY <1>5 DEF Init, ImportInv, InsertsWhileImporting, NothingForgotten, IdleWorker

\* Nothing is inserted or stored, perhaps a file is moved or a transaction undone.
LEMMA FewerInserts ==
  ASSUME TypeOK, TypeOK', FilesSuffice, nets' = nets,
         \A f \in Files : disk'[f] >= disk[f],
         \A w \in Workers : wk'[w].tx \subseteq wk[w].tx
  PROVE  FilesSuffice'
<1> SUFFICES ASSUME NEW f \in Files
             PROVE  IsFiniteSet(Inserting(f)') /\ nets'[f] + Cardinality(Inserting(f)') <= disk'[f]
  BY DEF FilesSuffice, Inserting
<1>1. Inserting(f)' \subseteq Inserting(f) BY DEF Inserting
<1>2. IsFiniteSet(Inserting(f)) /\ nets[f] + Cardinality(Inserting(f)) <= disk[f]
  BY DEF FilesSuffice
<1>3. /\ IsFiniteSet(Inserting(f)')
      /\ Cardinality(Inserting(f)') <= Cardinality(Inserting(f))
  BY <1>1, <1>2, FS_Subset
<1>4. Cardinality(Inserting(f)') \in Nat /\ Cardinality(Inserting(f)) \in Nat
  BY <1>2, <1>3, FS_CardinalityType
<1>5. nets[f] \in Nat /\ disk[f] \in Nat /\ disk'[f] \in Nat BY DEF TypeOK
<1> QED BY <1>2, <1>3, <1>4, <1>5

\* One worker moves a file it does not hold yet and inserts its row.
LEMMA OneMoreInsert ==
  ASSUME TypeOK, FilesSuffice, NEW w \in Workers, NEW f \in Files, f \notin wk[w].tx,
         wk'[w].tx = wk[w].tx \cup {f}, \A v \in Workers \ {w} : wk'[v] = wk[v],
         nets' = nets, Moved(f)
  PROVE  FilesSuffice'
<1> SUFFICES ASSUME NEW g \in Files
             PROVE  IsFiniteSet(Inserting(g)') /\ nets'[g] + Cardinality(Inserting(g)') <= disk'[g]
  BY DEF FilesSuffice, Inserting
<1>1. IsFiniteSet(Inserting(g)) /\ nets[g] + Cardinality(Inserting(g)) <= disk[g]
  BY DEF FilesSuffice
<1>2. nets[g] \in Nat /\ disk[g] \in Nat /\ Cardinality(Inserting(g)) \in Nat
  BY <1>1, FS_CardinalityType DEF TypeOK
<1>3. disk \in [Files -> Nat] BY DEF TypeOK
<1>4. CASE g = f
  <2>1. Inserting(g)' = Inserting(g) \cup {w} /\ w \notin Inserting(g) BY <1>4 DEF Inserting
  <2>2. IsFiniteSet(Inserting(g)') /\ Cardinality(Inserting(g)') = Cardinality(Inserting(g)) + 1
    BY <1>1, <2>1, FS_AddElement
  <2>3. disk'[g] = disk[g] + 1 BY <1>3, <1>4 DEF Moved
  <2> QED BY <1>1, <1>2, <2>2, <2>3
<1>5. CASE g # f
  <2>1. Inserting(g)' = Inserting(g) BY <1>5 DEF Inserting
  <2>2. disk'[g] = disk[g] BY <1>3, <1>5 DEF Moved
  <2> QED BY <1>1, <2>1, <2>2
<1> QED BY <1>4, <1>5

\* A commit turns one worker's inserts into rows.
LEMMA InsertsBecomeRows ==
  ASSUME TypeOK, FilesSuffice, NEW w \in Workers,
         wk'[w].tx = {}, \A v \in Workers \ {w} : wk'[v] = wk[v],
         Inserts(w), disk' = disk
  PROVE  FilesSuffice'
<1> SUFFICES ASSUME NEW f \in Files
             PROVE  IsFiniteSet(Inserting(f)') /\ nets'[f] + Cardinality(Inserting(f)') <= disk'[f]
  BY DEF FilesSuffice, Inserting
<1>1. IsFiniteSet(Inserting(f)) /\ nets[f] + Cardinality(Inserting(f)) <= disk[f]
  BY DEF FilesSuffice
<1>2. nets[f] \in Nat /\ disk[f] \in Nat /\ Cardinality(Inserting(f)) \in Nat
  BY <1>1, FS_CardinalityType DEF TypeOK
<1>3. Inserting(f)' = Inserting(f) \ {w} BY DEF Inserting
<1>4. /\ IsFiniteSet(Inserting(f)')
      /\ Cardinality(Inserting(f)') = IF w \in Inserting(f) THEN Cardinality(Inserting(f)) - 1
                                      ELSE Cardinality(Inserting(f))
  BY <1>1, <1>3, FS_RemoveElement
<1>5. nets'[f] = IF w \in Inserting(f) THEN nets[f] + 1 ELSE nets[f]
  BY DEF Inserts, Inserting
<1> QED BY <1>1, <1>2, <1>4, <1>5

----------------------------------------------------------------------------
(* What each step does to the workers, the rows and the files.             *)

Stores == <<wk, nets, disk>>

\* Only the workers, their death and a restart touch sessions, network rows and files.
LEMMA OthersLeaveStores ==
  ASSUME [Next]_vars
  PROVE  \/ UNCHANGED Stores
         \/ WebRestart
         \/ \E w \in Workers : Worker(w) \/ WorkerKilled(w)
<1>1. CASE SyncLoop
  BY <1>1 DEF SyncLoop, SyncSelect, SyncAborts, SyncFlush, SyncStale,
    SyncCommitStale, SyncCommit, SyncCollect,
    SyncReturn, SyncBackend, SyncPoll, UnchangedBySync, Stores
<1>2. ASSUME NEW q \in Requests, Request(q) PROVE UNCHANGED Stores
  BY <1>2 DEF Request, SubmitJob, InsertRow, LoadRun, PollJob, CancelJob, CancelRefused, Flush,
    FlushStale, Commit, CancelMissing, Notify, RemoteDelete, DeleteRow, Stores
<1>3. ASSUME NEW r \in Runs, JobStep(r) PROVE UNCHANGED Stores BY <1>3 DEF JobStep, Stores
<1>4. ASSUME Faults, ~WebRestart, ~ \E w \in Workers : WorkerKilled(w) PROVE UNCHANGED Stores
  BY <1>4 DEF Faults, ClearAllCache, SyncBrokerDown, SyncPollFails, CallFails, BrokerDown,
    Redelivered, UnchangedBySync, UnchangedByWorker, Stores
<1>5. CASE UNCHANGED vars BY <1>5 DEF vars, Stores
<1> QED BY <1>1, <1>2, <1>3, <1>4, <1>5 DEF Next

\* A worker whose session is replaced leaves the others alone.
LEMMA OthersKeepSessions ==
  ASSUME TypeOK, NEW w \in Workers, Worker(w) \/ WorkerKilled(w), NEW v \in Workers \ {w}
  PROVE  wk'[v] = wk[v]
<1>0. wk \in [Workers -> WorkerRecord] BY DEF TypeOK
<1> QED BY <1>0 DEF Worker, TaskStart, ListOutputs, ImportFile, ListFails, FileFails, GivesUp, MarkError,
    Complete, TaskEnd, WorkerKilled

\* The import invariant survives a step of a worker: only ImportFile adds an insert, with
\* its file; only Complete stores rows, when nothing is left to do.
LEMMA ImportWorker ==
  ASSUME RunAssumption, TypeOK, TypeOK', ImportInv, NEW w \in Workers, Worker(w)
  PROVE  ImportInv'
<1>0. /\ wk \in [Workers -> WorkerRecord] /\ nets \in [Files -> Nat] /\ disk \in [Files -> Nat]
      /\ wk' \in [Workers -> WorkerRecord] /\ disk' \in [Files -> Nat]
  BY DEF TypeOK
<1>1. \A v \in Workers \ {w} : wk'[v] = wk[v] BY OthersKeepSessions
<1>2. FilesSuffice /\ InsertsWhileImporting /\ NothingForgotten BY DEF ImportInv
<1>r. ASSUME nets' = nets, wk'[w].tx = {}, wk'[w].pc # "files", \A f \in Files : disk'[f] >= disk[f]
      PROVE  ImportInv'
  <2>1. FilesSuffice' BY <1>1, <1>2, <1>r, FewerInserts
  <2>2. InsertsWhileImporting' BY <1>1, <1>2, <1>r DEF InsertsWhileImporting
  <2>3. NothingForgotten' BY <1>1, <1>2, <1>r DEF NothingForgotten, Selected
  <2> QED BY <2>1, <2>2, <2>3 DEF ImportInv
<1>d. ASSUME disk' = disk PROVE \A f \in Files : disk'[f] >= disk[f] BY <1>0, <1>d
<1>3. CASE TaskStart(w)
  <2>1. wk[w].tx = {} /\ wk[w].pc = "idle" BY <1>2, <1>3 DEF TaskStart, InsertsWhileImporting
  <2>2. wk'[w].tx = {} /\ wk'[w].pc # "files" BY <1>0, <1>3, <2>1 DEF TaskStart
  <2> QED BY <1>3, <1>r, <1>d, <2>2 DEF TaskStart
<1>4. CASE ListOutputs(w)
  <2>1. /\ wk[w].tx = {}
        /\ wk'[w].tx = {} /\ wk'[w].run = wk[w].run
        /\ wk'[w].todo = Selected(wk[w].run) /\ wk'[w].pc = "files"
        /\ nets' = nets /\ disk' = disk
    BY <1>0, <1>2, <1>4 DEF ListOutputs, InsertsWhileImporting
  <2>2. FilesSuffice' BY <1>1, <1>2, <1>d, <2>1, FewerInserts
  <2>3. InsertsWhileImporting' BY <1>1, <1>2, <2>1 DEF InsertsWhileImporting
  <2>4. NothingForgotten' BY <1>1, <1>2, <2>1 DEF NothingForgotten, Selected
  <2> QED BY <2>2, <2>3, <2>4 DEF ImportInv
<1>5. ASSUME NEW f \in Files, ImportFile(w, f) PROVE ImportInv'
  <2>1. /\ wk[w].pc = "files" /\ wk'[w].pc = "files" /\ wk'[w].run = wk[w].run
        /\ wk'[w].todo = wk[w].todo \ {f} /\ f \in wk[w].todo /\ nets' = nets
    <3>1. wk[w] \in WorkerRecord BY <1>0
    <3>2. CASE Known(w, f) BY <1>0, <1>5, <3>1, <3>2 DEF ImportFile, WorkerRecord
    <3>3. CASE ~Known(w, f) BY <1>0, <1>5, <3>1, <3>3 DEF ImportFile, WorkerRecord
    <3> QED BY <3>2, <3>3
  <2>2. CASE Known(w, f)
    <3>1. wk'[w].tx = wk[w].tx /\ disk' = disk
      BY <1>0, <1>5, <2>2 DEF ImportFile, WorkerRecord
    <3>2. FilesSuffice' BY <1>1, <1>2, <1>d, <2>1, <3>1, FewerInserts
    <3>3. InsertsWhileImporting' BY <1>1, <1>2, <2>1, <3>1 DEF InsertsWhileImporting
    <3>4. NothingForgotten'
      BY <1>1, <1>2, <2>1, <2>2, <3>1 DEF NothingForgotten, Selected, Known
    <3> QED BY <3>2, <3>3, <3>4 DEF ImportInv
  <2>3. CASE ~Known(w, f)
    <3>1. wk'[w].tx = wk[w].tx \cup {f} /\ f \notin wk[w].tx /\ Moved(f)
      BY <1>0, <1>5, <2>3 DEF ImportFile, Known, WorkerRecord
    <3>2. FilesSuffice' BY <1>1, <1>2, <2>1, <3>1, OneMoreInsert
    <3>3. InsertsWhileImporting' BY <1>1, <1>2, <2>1 DEF InsertsWhileImporting
    <3>4. NothingForgotten' BY <1>1, <1>2, <2>1, <3>1 DEF NothingForgotten, Selected
    <3> QED BY <3>2, <3>3, <3>4 DEF ImportInv
  <2> QED BY <2>2, <2>3
<1>6. CASE ListFails(w)
  <2>1. wk[w].tx = {} BY <1>2, <1>6 DEF ListFails, InsertsWhileImporting
  <2>2. wk'[w].tx = {} /\ wk'[w].pc # "files"
    BY <1>0, <1>6, <2>1 DEF ListFails, GivesUp, IdleWorker
  <2> QED BY <1>6, <1>r, <1>d, <2>2 DEF ListFails
<1>7. CASE FileFails(w)
  <2>1. wk'[w].tx = {} /\ wk'[w].pc # "files"
    BY <1>0, <1>7 DEF FileFails, GivesUp, IdleWorker, AfterRollback
  <2>2. disk' = disk \/ \E f \in Files : Moved(f) BY <1>0, <1>7 DEF FileFails, WorkerRecord
  <2>3. \A f \in Files : disk'[f] >= disk[f] BY <1>0, <2>2 DEF Moved
  <2> QED BY <1>7, <1>r, <2>1, <2>3 DEF FileFails
<1>8. CASE MarkError(w)
  <2>1. wk[w].tx = {} BY <1>2, <1>8 DEF MarkError, InsertsWhileImporting
  <2>2. nets' = nets BY <1>0, <1>8, <2>1 DEF MarkError, Inserts
  <2>3. wk'[w].tx = {} /\ wk'[w].pc # "files" BY <1>0, <1>8 DEF MarkError, IdleWorker
  <2> QED BY <1>8, <1>r, <1>d, <2>2, <2>3 DEF MarkError
<1>9. CASE Complete(w)
  <2>1. wk'[w].tx = {} /\ wk'[w].pc # "files" /\ disk' = disk
    <3>1. CASE row[wk[w].run] = "ABSENT" BY <1>0, <1>9, <3>1 DEF Complete, IdleWorker
    <3>2. CASE row[wk[w].run] # "ABSENT" BY <1>0, <1>9, <3>2 DEF Complete, WorkerRecord
    <3> QED BY <3>1, <3>2
  <2>2. CASE row[wk[w].run] = "ABSENT"
    BY <1>9, <1>r, <1>d, <2>1, <2>2 DEF Complete
  <2>3. CASE row[wk[w].run] # "ABSENT"
    <3>1. Inserts(w) BY <1>9, <2>3 DEF Complete
    <3>2. FilesSuffice' BY <1>1, <1>2, <2>1, <3>1, InsertsBecomeRows
    <3>3. InsertsWhileImporting' BY <1>1, <1>2, <2>1 DEF InsertsWhileImporting
    <3>4. \A f \in Files : nets[f] > 0 => nets'[f] > 0 BY <1>0, <3>1 DEF Inserts
    <3>5. ASSUME NEW v \in Workers, wk'[v].pc = "files"
          PROVE  Selected(wk[v].run) \subseteq Files
      <4>1. wk[v].run \in Runs BY <1>1, <2>1, <3>5 DEF TypeOK
      <4> QED BY <4>1 DEF Selected, RunAssumption
    <3>6. NothingForgotten'
      BY <1>1, <1>2, <2>1, <3>4, <3>5 DEF NothingForgotten, Selected
    <3> QED BY <3>2, <3>3, <3>6 DEF ImportInv
  <2> QED BY <2>2, <2>3
<1>10. CASE TaskEnd(w)
  <2>1. wk'[w].tx = {} /\ wk'[w].pc # "files" BY <1>0, <1>10 DEF TaskEnd, IdleWorker
  <2> QED BY <1>10, <1>r, <1>d, <2>1 DEF TaskEnd
<1> QED BY <1>3, <1>4, <1>5, <1>6, <1>7, <1>8, <1>9, <1>10 DEF Worker

\* ... and of everything else: a death or a restart undoes transactions, never files.
LEMMA ImportStep ==
  ASSUME RunAssumption, TypeOK, TypeOK', ImportInv, [Next]_vars PROVE ImportInv'
<1>0. wk \in [Workers -> WorkerRecord] /\ disk \in [Files -> Nat] BY DEF TypeOK
<1>1. CASE UNCHANGED Stores
  BY <1>1 DEF Stores, ImportInv, FilesSuffice, Inserting, InsertsWhileImporting, NothingForgotten,
    Selected
<1>r. ASSUME nets' = nets, disk' = disk,
             \A v \in Workers : wk'[v] = wk[v] \/ wk'[v] = IdleWorker
      PROVE  ImportInv'
  <2>1. \A v \in Workers : wk'[v].tx \subseteq wk[v].tx BY <1>r DEF IdleWorker
  <2>2. \A f \in Files : disk'[f] >= disk[f] BY <1>0, <1>r
  <2>3. FilesSuffice' BY <1>r, <2>1, <2>2, FewerInserts DEF ImportInv
  <2>4. InsertsWhileImporting' BY <1>r DEF ImportInv, InsertsWhileImporting, IdleWorker
  <2>5. NothingForgotten' BY <1>r DEF ImportInv, NothingForgotten, Selected, IdleWorker
  <2> QED BY <2>3, <2>4, <2>5 DEF ImportInv
<1>2. CASE WebRestart
  <2>1. \A v \in Workers : wk'[v] = wk[v] \/ wk'[v] = IdleWorker BY <1>2 DEF WebRestart
  <2> QED BY <1>2, <1>r, <2>1 DEF WebRestart
<1>3. ASSUME NEW w \in Workers, WorkerKilled(w) PROVE ImportInv'
  <2>1. \A v \in Workers : wk'[v] = wk[v] \/ wk'[v] = IdleWorker BY <1>0, <1>3 DEF WorkerKilled
  <2> QED BY <1>3, <1>r, <2>1 DEF WorkerKilled
<1>4. ASSUME NEW w \in Workers, Worker(w) PROVE ImportInv' BY <1>4, ImportWorker
<1> QED BY <1>1, <1>2, <1>3, <1>4, OthersLeaveStores

\* Only Complete stores rows, and it stores them with the status.
LEMMA AtomicKeeps ==
  ASSUME RunAssumption, TypeOK, ImportInv, [Next]_vars PROVE AtomicStep
<1> SUFFICES ASSUME nets' # nets PROVE AtomicStep BY DEF AtomicStep
<1>0. row \in [Runs -> Statuses \cup {"ABSENT"}] /\ nets \in [Files -> Nat] BY DEF TypeOK
<1>1. PICK w \in Workers : Worker(w)
  BY OthersLeaveStores DEF Stores, WebRestart, WorkerKilled
<1>2. ~MarkError(w)
  <2> SUFFICES ASSUME MarkError(w) PROVE FALSE OBVIOUS
  <2>1. wk[w].tx = {} BY DEF MarkError, ImportInv, InsertsWhileImporting
  <2> QED BY <1>0, <2>1 DEF MarkError, Inserts
<1>3. Complete(w)
  BY <1>1, <1>2 DEF Worker, TaskStart, ListOutputs, ListFails, FileFails, TaskEnd, ImportFile
<1> DEFINE r == wk[w].run
<1>4. r \in Runs BY <1>3 DEF Complete, TypeOK
<1>5. Inserts(w) /\ row'[r] = "COMPLETED" BY <1>0, <1>3, <1>4 DEF Complete
<1>6. /\ wk[w].tx \subseteq Selected(r)
      /\ \A f \in Selected(r) : f \in wk[w].tx \/ nets[f] > 0
  BY <1>3 DEF Complete, ImportInv, NothingForgotten
<1>7. \A f \in Files : nets'[f] # nets[f] => f \in Selected(r) BY <1>5, <1>6 DEF Inserts
<1>8. Selected(r) \subseteq Files BY <1>4 DEF Selected, RunAssumption
<1>9. \A f \in Selected(r) : nets'[f] > 0 BY <1>0, <1>5, <1>6, <1>8 DEF Inserts
<1> HIDE DEF r
<1> QED BY <1>4, <1>5, <1>7, <1>9 DEF AtomicStep, Selected

----------------------------------------------------------------------------
(* The theorems.                                                           *)

LEMMA ImportHolds == Spec => []ImportInv
<1>1. Init => ImportInv BY ImportInit, RunAssumption
<1>2. TypeOK /\ TypeOK' /\ ImportInv /\ [Next]_vars => ImportInv'
  BY ImportStep, RunAssumption
<1> QED BY <1>1, <1>2, TypeCorrect, PTL DEF Spec

\* A network row never lacks its file, whichever of any number of workers fails, dies or
\* is redelivered a task (import_network_file: shutil.move, then the INSERT).
THEOREM FilesBehindRows == Spec => []RowsHaveFiles
<1>1. ImportInv => RowsHaveFiles BY DEF ImportInv, FilesSuffice, RowsHaveFiles, Inserting
<1> QED BY <1>1, ImportHolds, PTL

\* All wanted outputs of a run or none: rows appear with COMPLETED, in one commit, after
\* a rollback in every failed import (import_run_outputs_task).
THEOREM AllOrNothing == Spec => ImportIsAtomic
<1>1. TypeOK /\ ImportInv /\ [Next]_vars => [AtomicStep]_<<row, nets>>
  BY AtomicKeeps, RunAssumption
<1>2. Spec => [][AtomicStep]_<<row, nets>> BY <1>1, TypeCorrect, ImportHolds, PTL DEF Spec
<1> QED BY <1>2 DEF ImportIsAtomic, AtomicStep

----------------------------------------------------------------------------
(* With one worker, a content is stored once.                              *)

LoneWorker == \A v, w \in Workers : v = w

\* Nobody stores what the only open transaction is about to insert.
NewInserts == \A w \in Workers : \A f \in wk[w].tx : nets[f] = 0

UniqueInv == ContentIsUnique /\ NewInserts

LEMMA UniqueStep ==
  ASSUME LoneWorker, TypeOK, UniqueInv, [Next]_vars PROVE UniqueInv'
<1>0. wk \in [Workers -> WorkerRecord] /\ nets \in [Files -> Nat] BY DEF TypeOK
<1>1. CASE UNCHANGED Stores
  BY <1>1 DEF Stores, UniqueInv, ContentIsUnique, NewInserts
<1>r. ASSUME nets' = nets, \A v \in Workers : wk'[v].tx \subseteq wk[v].tx PROVE UniqueInv'
  BY <1>r DEF UniqueInv, ContentIsUnique, NewInserts
<1>2. CASE WebRestart
  <2>1. \A v \in Workers : wk'[v].tx \subseteq wk[v].tx BY <1>2 DEF WebRestart, IdleWorker
  <2> QED BY <1>2, <1>r, <2>1 DEF WebRestart
<1>3. ASSUME NEW w \in Workers, Worker(w) \/ WorkerKilled(w) PROVE UniqueInv'
  <2>0. \A v \in Workers : v = w BY DEF LoneWorker
  <2>1. ASSUME Inserts(w), wk'[w].tx = {} PROVE UniqueInv'
    BY <1>0, <2>0, <2>1 DEF UniqueInv, ContentIsUnique, NewInserts, Inserts
  <2>2. CASE MarkError(w)
    <3>1. wk'[w].tx = {} BY <1>0, <2>2 DEF MarkError, IdleWorker
    <3> QED BY <1>r, <2>0, <2>1, <2>2, <3>1 DEF MarkError
  <2>3. CASE Complete(w)
    <3>1. CASE row[wk[w].run] = "ABSENT"
      <4>1. wk'[w].tx = {} BY <1>0, <2>3, <3>1 DEF Complete, IdleWorker
      <4> QED BY <1>r, <2>0, <2>3, <3>1, <4>1 DEF Complete
    <3>2. CASE row[wk[w].run] # "ABSENT"
      <4>1. wk'[w].tx = {} BY <1>0, <2>3, <3>2 DEF Complete, WorkerRecord
      <4> QED BY <2>1, <2>3, <3>2, <4>1 DEF Complete
    <3> QED BY <3>1, <3>2
  <2>4. ASSUME NEW f \in Files, ImportFile(w, f) PROVE UniqueInv'
    <3>1. wk[w] \in WorkerRecord /\ nets' = nets BY <1>0, <2>4 DEF ImportFile
    <3>2. CASE Known(w, f)
      <4>1. wk'[w].tx = wk[w].tx BY <1>0, <2>4, <3>1, <3>2 DEF ImportFile, WorkerRecord
      <4> QED BY <1>r, <2>0, <3>1, <4>1
    <3>3. CASE ~Known(w, f)
      <4>1. wk'[w].tx = wk[w].tx \cup {f} BY <1>0, <2>4, <3>1, <3>3 DEF ImportFile, WorkerRecord
      <4>2. nets[f] = 0 BY <1>0, <3>3 DEF Known
      <4> QED BY <2>0, <3>1, <4>1, <4>2 DEF UniqueInv, ContentIsUnique, NewInserts
    <3> QED BY <3>2, <3>3
  <2>5. CASE \/ TaskStart(w) \/ ListOutputs(w) \/ ListFails(w) \/ FileFails(w) \/ TaskEnd(w)
             \/ WorkerKilled(w)
    <3>0. wk[w] \in WorkerRecord BY <1>0
    <3>1. wk'[w].tx \subseteq wk[w].tx
      <4>1. CASE TaskStart(w) BY <1>0, <3>0, <4>1 DEF TaskStart, WorkerRecord
      <4>2. CASE ListOutputs(w) BY <1>0, <3>0, <4>2 DEF ListOutputs, WorkerRecord
      <4>3. CASE ListFails(w)
        BY <1>0, <3>0, <4>3 DEF ListFails, GivesUp, IdleWorker, WorkerRecord
      <4>4. CASE FileFails(w)
        BY <1>0, <3>0, <4>4 DEF FileFails, GivesUp, AfterRollback, IdleWorker, WorkerRecord
      <4>5. CASE TaskEnd(w) BY <1>0, <4>5 DEF TaskEnd, IdleWorker
      <4>6. CASE WorkerKilled(w) BY <1>0, <4>6 DEF WorkerKilled, IdleWorker
      <4> QED BY <2>5, <4>1, <4>2, <4>3, <4>4, <4>5, <4>6
    <3> QED BY <1>r, <2>0, <2>5, <3>1
      DEF TaskStart, ListOutputs, ListFails, FileFails, TaskEnd, WorkerKilled
  <2> QED BY <1>3, <2>2, <2>3, <2>4, <2>5 DEF Worker
<1> QED BY <1>1, <1>2, <1>3, OthersLeaveStores

\* One user never stores one content twice while a single worker imports: looking first
\* and inserting later is enough then (the in-process queue has one thread).
THEOREM StoredOnce == ASSUME LoneWorker PROVE Spec => []ContentIsUnique
<1>1. Init => UniqueInv BY DEF Init, UniqueInv, ContentIsUnique, NewInserts, IdleWorker
<1>2. TypeOK /\ UniqueInv /\ [Next]_vars => UniqueInv' BY UniqueStep
<1>3. UniqueInv => ContentIsUnique BY DEF UniqueInv
<1> QED BY <1>1, <1>2, <1>3, TypeCorrect, PTL DEF Spec

----------------------------------------------------------------------------
(* With one backend and no cancel request, COMPLETED is never written over *)
(* an import that is still to come.                                        *)

LoneBackend == \A b, c \in Backends : b = c
NoCancel == \A q \in Requests : Kind[q] # "cancel"

\* A request applies an answer to a run it loaded before the import could start.
RequestsLoadEarly ==
  \A q \in Requests :
    /\ Kind[q] = "get" /\ req[q].pc \in {"loaded", "answered"} => req[q].seen \in Active
    /\ req[q].answer # "none" => Kind[q] = "get"
    /\ req[q].write = "COMPLETED" => ~Wants(Target[q])

\* So does the sync loop: with one backend it never looks at a refreshed batch.
SyncLoadsEarly ==
  /\ \A r \in sync.batch : sync.seen[r] \in Active
  /\ sync.todo \subseteq sync.batch
  /\ sync.pc = "answered" => sync.cur \in sync.batch
  /\ sync.pc # "backends" \/ sync.expired # {} => sync.left = {}
  /\ \A r \in Runs : sync.write[r] = "COMPLETED" => ~Wants(r)

EarlyInv == RequestsLoadEarly /\ SyncLoadsEarly

LEMMA EarlyInit == ASSUME RunAssumption, Init PROVE EarlyInv
  BY DEF RunAssumption, Init, EarlyInv, RequestsLoadEarly, SyncLoadsEarly, IdleSync, Unserved

\* An answer applied to a run loaded before its import ended never writes COMPLETED when
\* networks are wanted.
LEMMA CompletesUnwanted ==
  ASSUME NEW seen \in Active, NEW wants \in BOOLEAN, NEW answer,
         AfterSync(seen, wants, answer) = "COMPLETED"
  PROVE  ~wants
  BY DEF AfterSync, StartsImport, ImportPending, Active, SyncedStatuses, Statuses,
     ImportTriggeredStatuses

LEMMA RequestsEarly ==
  ASSUME RunAssumption, NoCancel, TypeOK, RequestsLoadEarly, [Next]_vars
  PROVE  RequestsLoadEarly'
<1>0. /\ req \in [Requests -> ReqRecord] /\ Target \in [Requests -> Runs]
      /\ row \in [Runs -> Statuses \cup {"ABSENT"}]
  BY DEF TypeOK, RunAssumption
<1>u. ASSUME req' = req PROVE RequestsLoadEarly' BY <1>u DEF RequestsLoadEarly, Wants
<1>e. ASSUME NEW q \in Requests, NEW pc, Turns(q, pc), pc \notin {"loaded", "answered"}
      PROVE  RequestsLoadEarly'
  BY <1>0, <1>e DEF Turns, RequestsLoadEarly, Unserved, Wants
<1>1. ASSUME NEW q \in Requests, Request(q) PROVE RequestsLoadEarly'
  <2>0. req[q] \in ReqRecord BY <1>0
  <2>1. CASE SubmitJob(q)
    BY <1>0, <2>0, <2>1 DEF SubmitJob, RequestsLoadEarly, Wants, ReqRecord
  <2>2. CASE LoadRun(q)
    BY <1>0, <2>0, <2>2 DEF LoadRun, RequestsLoadEarly, Wants, ReqRecord
  <2>3. CASE PollJob(q)
    <3>1. CASE JobExists(Target[q])
      BY <1>0, <2>0, <2>3, <3>1 DEF PollJob, RequestsLoadEarly, Wants, ReqRecord
    <3>2. CASE ~JobExists(Target[q]) BY <1>e, <2>3, <3>2 DEF PollJob, Ends
    <3> QED BY <3>1, <3>2
  <2>4. CASE Flush(q)
    <3>1. Kind[q] = "get" /\ req[q].seen \in Active
      BY <2>4 DEF Flush, RequestsLoadEarly, JobStatuses, Statuses
    <3> DEFINE s == AfterSync(req[q].seen, Wants(Target[q]), req[q].answer)
               d == CallbackDue(req[q].seen, Wants(Target[q]), req[q].answer)
               W(dirty) == IF s # req[q].seen THEN s ELSE IF dirty THEN "same" ELSE "none"
    <3>2. PICK dirty \in BOOLEAN :
            req' = [req EXCEPT ![q].pc = "flushed", ![q].write = W(dirty), ![q].due = d]
      BY <2>4 DEF Flush
    <3> DEFINE w == W(dirty)
    <3>3. w = "COMPLETED" => ~Wants(Target[q])
      BY <3>1, CompletesUnwanted DEF Wants
    <3>4. req' = [req EXCEPT ![q].pc = "flushed", ![q].write = w, ![q].due = d] BY <3>2
    <3> HIDE DEF w, d
    <3>5. /\ req'[q].pc = "flushed" /\ req'[q].write = w /\ req'[q].answer = req[q].answer
          /\ \A p \in Requests \ {q} : req'[p] = req[p]
      BY <1>0, <2>0, <3>4 DEF ReqRecord
    <3> QED BY <3>1, <3>3, <3>5 DEF RequestsLoadEarly, Wants
  <2>5. CASE RemoteDelete(q)
    BY <1>0, <2>0, <2>5 DEF RemoteDelete, RequestsLoadEarly, Wants, ReqRecord
  <2>6. CASE Commit(q) BY <1>e, <2>6 DEF Commit
  <2>7. CASE InsertRow(q) \/ FlushStale(q) \/ CancelRefused(q) \/ Notify(q) \/ DeleteRow(q)
    BY <1>e, <2>7 DEF InsertRow, FlushStale, CancelRefused, Notify, DeleteRow, Ends
  <2>8. CASE CancelMissing(q) BY <1>e, <2>8 DEF CancelMissing, Ends
  <2>9. ~CancelJob(q) BY DEF CancelJob, NoCancel
  <2> QED BY <1>1, <2>1, <2>2, <2>3, <2>4, <2>5, <2>6, <2>7, <2>8, <2>9 DEF Request
<1>2. CASE SyncLoop
  BY <1>2, <1>u DEF SyncLoop, SyncSelect, SyncAborts, SyncFlush, SyncStale,
    SyncCommitStale, SyncCommit, SyncCollect,
    SyncReturn, SyncBackend, SyncPoll, UnchangedBySync
<1>3. ASSUME NEW w \in Workers, Worker(w) PROVE RequestsLoadEarly'
  BY <1>3, <1>u DEF Worker, TaskStart, ListOutputs, ImportFile, ListFails, FileFails, MarkError, Complete,
    TaskEnd, UnchangedByWorker
<1>4. ASSUME NEW r \in Runs, JobStep(r) PROVE RequestsLoadEarly' BY <1>4, <1>u DEF JobStep
<1>5. CASE Faults
  <2>1. CASE WebRestart
    BY <1>0, <2>1 DEF WebRestart, RequestsLoadEarly, Wants, Unserved
  <2>2. ASSUME NEW q \in Requests, CallFails(q) \/ BrokerDown(q) PROVE RequestsLoadEarly'
    BY <1>e, <2>2 DEF CallFails, BrokerDown, Ends
  <2> QED BY <1>5, <1>u, <2>1, <2>2
    DEF Faults, ClearAllCache, SyncBrokerDown, SyncPollFails, WorkerKilled, Redelivered, UnchangedBySync,
      UnchangedByWorker
<1>6. CASE UNCHANGED vars BY <1>6, <1>u DEF vars
<1> QED BY <1>1, <1>2, <1>3, <1>4, <1>5, <1>6 DEF Next

LEMMA SyncEarly ==
  ASSUME RunAssumption, LoneBackend, TypeOK, SyncLoadsEarly, [Next]_vars
  PROVE  SyncLoadsEarly'
<1>0. sync \in SyncRecord BY DEF TypeOK
<1>u. ASSUME sync' = sync PROVE SyncLoadsEarly' BY <1>u DEF SyncLoadsEarly, Wants
<1>i. ASSUME sync' = IdleSync PROVE SyncLoadsEarly' BY <1>i DEF SyncLoadsEarly, IdleSync
<1>f. ASSUME NEW w, w # "COMPLETED" \/ ~Wants(sync.cur)
      PROVE  \A r \in Runs : Flushed(w)[r] = "COMPLETED" => ~Wants(r)
  BY <1>f DEF Flushed, SyncLoadsEarly
<1>a. ASSUME NEW ws, NEW missing, NEW fired, Applied(ws, missing, fired), sync.pc = "answered",
             \A r \in Runs : ws[r] = "COMPLETED" => ~Wants(r)
      PROVE  SyncLoadsEarly'
  BY <1>0, <1>a DEF Applied, SyncLoadsEarly, SyncRecord, Wants
<1>1. CASE SyncLoop
  <2>1. CASE SyncSelect
    BY <1>0, <2>1 DEF SyncSelect, SyncLoadsEarly, IdleSync, NonTerminal
  <2>2. CASE SyncAborts \/ SyncStale \/ SyncReturn
    BY <1>i, <2>2 DEF SyncAborts, SyncStale, SyncReturn
  <2>3. ASSUME NEW b \in Backends, SyncBackend(b) PROVE SyncLoadsEarly'
    <3>1. sync.expired = {} /\ sync.left \ {b} = {}
      BY <1>0, <2>3 DEF SyncBackend, SyncLoadsEarly, LoneBackend, SyncRecord
    <3>2. /\ sync'.left = {} /\ sync'.batch = sync.batch /\ sync'.write = sync.write
          /\ sync'.todo \subseteq sync.batch /\ sync'.pc # "answered"
          /\ \A r \in Runs : sync'.seen[r] = sync.seen[r]
      BY <1>0, <2>3, <3>1 DEF SyncBackend, SyncRecord
    <3>3. sync.batch \subseteq Runs BY <1>0 DEF SyncRecord
    <3> QED BY <3>2, <3>3 DEF SyncLoadsEarly, Wants
  <2>4. ASSUME NEW r \in Runs, SyncPoll(r) PROVE SyncLoadsEarly'
    <3>1. CASE JobExists(r)
      BY <1>0, <2>4, <3>1 DEF SyncPoll, SyncLoadsEarly, SyncRecord, Wants
    <3>2. CASE ~JobExists(r)
      BY <1>0, <2>4, <3>2 DEF SyncPoll, SyncLoadsEarly, SyncRecord, Wants
    <3> QED BY <3>1, <3>2
  <2>5. CASE SyncFlush
    <3> DEFINE s == AfterSync(sync.seen[sync.cur], Wants(sync.cur), sync.answer)
    <3>1. sync.pc = "answered" /\ sync.seen[sync.cur] \in Active
      BY <2>5 DEF SyncFlush, SyncLoadsEarly
    <3>2. s # "COMPLETED" \/ ~Wants(sync.cur) BY <3>1, CompletesUnwanted DEF Wants
    <3> HIDE DEF s
    <3>3. PICK ws, missing, fired :
             /\ Applied(ws, missing, fired)
             /\ ws = sync.write \/ ws = Flushed(s) \/ ws = Flushed("same")
      BY <2>5 DEF SyncFlush, s
    <3>4. \A r \in Runs : ws[r] = "COMPLETED" => ~Wants(r)
      BY <1>f, <3>2, <3>3 DEF SyncLoadsEarly
    <3> QED BY <1>a, <3>1, <3>3, <3>4
  <2>6. CASE SyncCommitStale \/ SyncCommit
    <3>1. /\ sync'.batch = sync.batch /\ sync'.seen = sync.seen /\ sync'.left = sync.left
          /\ sync'.todo = {} /\ sync'.write = IdleSync.write
          /\ sync'.pc # "answered" /\ sync.pc # "backends"
      <4>1. CASE SyncCommitStale BY <1>0, <4>1 DEF SyncCommitStale, SyncRecord
      <4>2. CASE SyncCommit BY <1>0, <4>2 DEF SyncCommit, SyncRecord
      <4> QED BY <2>6, <4>1, <4>2
    <3>2. \A r \in Runs : IdleSync.write[r] # "COMPLETED" BY DEF IdleSync
    <3> QED BY <3>1, <3>2 DEF SyncLoadsEarly, Wants
  <2>7. CASE SyncCollect
    BY <1>0, <2>7 DEF SyncCollect, SyncLoadsEarly, SyncRecord, Wants
  <2> QED BY <1>1, <2>1, <2>2, <2>3, <2>4, <2>5, <2>6, <2>7 DEF SyncLoop
<1>2. ASSUME NEW q \in Requests, Request(q) PROVE SyncLoadsEarly'
  BY <1>2, <1>u DEF Request, SubmitJob, InsertRow, LoadRun, PollJob, CancelJob, CancelRefused, Flush,
    FlushStale, Commit, CancelMissing, Notify, RemoteDelete, DeleteRow
<1>3. ASSUME NEW w \in Workers, Worker(w) PROVE SyncLoadsEarly'
  BY <1>3, <1>u DEF Worker, TaskStart, ListOutputs, ImportFile, ListFails, FileFails, MarkError, Complete,
    TaskEnd, UnchangedByWorker
<1>4. ASSUME NEW r \in Runs, JobStep(r) PROVE SyncLoadsEarly' BY <1>4, <1>u DEF JobStep
<1>5. CASE Faults
  <2>1. CASE WebRestart BY <1>i, <2>1 DEF WebRestart
  <2>2. CASE SyncBrokerDown
    <3>1. \A r \in Runs : Flushed("UPLOADING")[r] = "COMPLETED" => ~Wants(r) BY <1>f
    <3> QED BY <1>a, <2>2, <3>1 DEF SyncBrokerDown
  <2>3. ASSUME NEW r \in Runs, SyncPollFails(r) PROVE SyncLoadsEarly'
    BY <1>0, <2>3 DEF SyncPollFails, SyncLoadsEarly, SyncRecord, Wants
  <2> QED BY <1>5, <1>u, <2>1, <2>2, <2>3
    DEF Faults, ClearAllCache, CallFails, BrokerDown, WorkerKilled, Redelivered, UnchangedByWorker
<1>6. CASE UNCHANGED vars BY <1>6, <1>u DEF vars
<1> QED BY <1>1, <1>2, <1>3, <1>4, <1>5, <1>6 DEF Next

\* A row becomes COMPLETED for a run that wants no networks, or with them.
LEMMA CompletesWithOutputs ==
  ASSUME RunAssumption, TypeOK, ImportInv, EarlyInv, [Next]_vars,
         NEW r \in Runs, row'[r] = "COMPLETED", row[r] # "COMPLETED", Wants(r)
  PROVE  \A f \in Selected(r) : nets'[f] > 0
<1>0. /\ row \in [Runs -> Statuses \cup {"ABSENT"}] /\ nets \in [Files -> Nat]
      /\ Target \in [Requests -> Runs]
  BY DEF TypeOK, RunAssumption
<1>1. CASE SyncLoop
  <2>1. SyncCommit
    BY <1>1 DEF SyncLoop, SyncSelect, SyncAborts, SyncFlush, SyncStale,
      SyncCommitStale, SyncCollect, SyncReturn,
      SyncBackend, SyncPoll
  <2>2. row'[r] = Write(row[r], Flushed("none")[r]) BY <2>1 DEF SyncCommit
  <2>3. Flushed("none")[r] # "COMPLETED" BY DEF Flushed, EarlyInv, SyncLoadsEarly
  <2> QED BY <2>2, <2>3 DEF Write
<1>2. ASSUME NEW q \in Requests, Request(q) PROVE FALSE
  <2>1. CASE InsertRow(q) BY <1>0, <2>1 DEF InsertRow
  <2>2. CASE Commit(q)
    <3>1. Target[q] = r => req[q].write # "COMPLETED" BY DEF EarlyInv, RequestsLoadEarly
    <3> QED BY <1>0, <2>2, <3>1 DEF Commit, Write
  <2>3. CASE CancelMissing(q) BY <1>0, <2>3 DEF CancelMissing
  <2>4. CASE DeleteRow(q) BY <1>0, <2>4 DEF DeleteRow
  <2> QED BY <1>2, <2>1, <2>2, <2>3, <2>4
    DEF Request, SubmitJob, LoadRun, PollJob, CancelJob, CancelRefused, Flush, FlushStale, Notify,
        RemoteDelete
<1>3. ASSUME NEW w \in Workers, Worker(w) PROVE \A f \in Selected(r) : nets'[f] > 0
  <2>1. ~MarkError(w) BY <1>0 DEF MarkError
  <2>2. Complete(w)
    BY <1>3, <2>1 DEF Worker, TaskStart, ListOutputs, ListFails, FileFails, TaskEnd, ImportFile
  <2>3. wk[w].run = r /\ Inserts(w) BY <1>0, <2>2 DEF Complete
  <2>4. \A f \in Selected(r) : f \in wk[w].tx \/ nets[f] > 0
    BY <2>2, <2>3 DEF Complete, ImportInv, NothingForgotten
  <2>5. Selected(r) \subseteq Files BY DEF Selected, RunAssumption
  <2> QED BY <1>0, <2>3, <2>4, <2>5 DEF Inserts
<1>4. CASE \E s \in Runs : JobStep(s) BY <1>4 DEF JobStep
<1>5. CASE Faults
  BY <1>5 DEF Faults, WebRestart, ClearAllCache, SyncBrokerDown, SyncPollFails, CallFails,
    BrokerDown, WorkerKilled, Redelivered
<1>6. CASE UNCHANGED vars BY <1>6 DEF vars
<1> QED BY <1>1, <1>2, <1>3, <1>4, <1>5, <1>6 DEF Next

\* Network rows are only added.
LEMMA NetworksStay ==
  ASSUME TypeOK, [Next]_vars, NEW f \in Files, nets[f] > 0 PROVE nets'[f] > 0
<1>0. nets \in [Files -> Nat] BY DEF TypeOK
<1>1. nets' = nets \/ \E w \in Workers : Inserts(w)
  BY OthersLeaveStores DEF Stores, WebRestart, WorkerKilled, Worker, TaskStart, ListOutputs, ImportFile,
    ListFails, FileFails, MarkError, Complete, TaskEnd
<1> QED BY <1>0, <1>1 DEF Inserts

LEMMA CompletedStep ==
  ASSUME RunAssumption, TypeOK, ImportInv, EarlyInv, CompletedMeansImported, [Next]_vars
  PROVE  CompletedMeansImported'
<1> SUFFICES ASSUME NEW r \in Runs, row'[r] = "COMPLETED", NEW f \in Selected(r)
             PROVE  nets'[f] > 0
  BY DEF CompletedMeansImported, Selected
<1>1. f \in Files /\ Wants(r) BY DEF Selected, Wants, RunAssumption
<1>2. CASE row[r] = "COMPLETED"
  BY <1>1, <1>2, NetworksStay DEF CompletedMeansImported, Selected
<1>3. CASE row[r] # "COMPLETED" BY <1>1, <1>3, CompletesWithOutputs
<1> QED BY <1>2, <1>3

\* COMPLETED means that the networks are there, for any number of runs, workers, get and
\* remove requests and faults.  With a second backend, or a cancel request, a session may
\* write COMPLETED over UPLOADING (sync_run_from_job): hence the two conditions.
THEOREM CompletedIsImported ==
  ASSUME LoneBackend, NoCancel PROVE Spec => []CompletedMeansImported
<1>1. Init => EarlyInv /\ CompletedMeansImported
  <2> SUFFICES ASSUME Init PROVE EarlyInv /\ CompletedMeansImported OBVIOUS
  <2>1. \A r \in Runs : row[r] # "COMPLETED" BY DEF Init
  <2> QED BY <2>1, EarlyInit, RunAssumption DEF CompletedMeansImported
<1>2. TypeOK /\ ImportInv /\ EarlyInv /\ CompletedMeansImported /\ [Next]_vars
        => EarlyInv' /\ CompletedMeansImported'
  BY CompletedStep, RequestsEarly, SyncEarly, RunAssumption DEF EarlyInv
<1> QED BY <1>1, <1>2, TypeCorrect, ImportHolds, PTL DEF Spec

-----------------------------------------------------------------------------
(***************************************************************************)
(* RunLifecycle implements RunContract, for every set of runs, backends    *)
(* and files, either broker and every number of faults, when one worker    *)
(* imports and clients only remove runs.                                   *)
(***************************************************************************)
OnlyRemoves == \A q \in Requests : Kind[q] = "remove"

\* A remove request writes no status and applies no answer.
RemovesOnly ==
  \A q \in Requests :
    /\ req[q].write = "none" /\ req[q].answer = "none"
    /\ req[q].pc \in {"unused", "loaded", "answered", "done"}

\* The loop may still write the row in this cycle.
Undecided(r) ==
  /\ r \in sync.batch
  /\ \/ BackendOf[r] \in sync.left
     \/ r \in sync.todo \cup sync.missing
     \/ sync.write[r] # "none"

\* The loop works on the runs of one backend at a time, and on each of them once.
LoopInv ==
  /\ \A r \in Runs : r \in sync.todo \cup sync.missing \cup sync.fired \/ sync.write[r] # "none"
       => r \in sync.batch /\ BackendOf[r] \notin sync.left
  /\ sync.pc \in {"idle", "backends", "collect"} =>
       /\ sync.todo = {} /\ sync.missing = {}
       /\ \A r \in Runs : sync.write[r] = "none"
  /\ sync.pc \in {"idle", "backends"} => sync.fired = {}
  /\ IF sync.pc = "answered" THEN sync.cur \in sync.todo ELSE sync.cur = NoRun
  /\ sync.todo \cap (sync.missing \cup sync.fired) = {}

\* Nobody but remove_run touches a run the loop has not decided on; nobody was told of it.
UndecidedInv ==
  \A r \in Runs : Undecided(r) =>
    row[r] \in Active \cup {"ABSENT"} /\ sync.seen[r] \in Active /\ posted[r] = <<>>

\* What the loop is about to write and to announce.
WriteInv ==
  \A r \in Runs :
    /\ sync.write[r] = "COMPLETED" => ~Wants(r)
    /\ sync.write[r] = "UPLOADING" => Wants(r)

FiredInv ==
  \A r \in sync.fired :
    /\ posted[r] = <<>>
    /\ IF sync.pc = "collect" THEN row[r] \in CallbackStatuses \cup {"ABSENT"}
       ELSE r \in sync.missing \/ sync.write[r] \in CallbackStatuses

OutInv ==
  \A r \in Runs : sync.out[r] # "none" =>
    /\ sync.out[r] \in CallbackStatuses /\ row[r] \in {sync.out[r], "ABSENT"}
    /\ posted[r] = <<>> /\ ~Undecided(r)

\* A webhook is called once, for a run that ended.
ToldInv ==
  \A r \in Runs :
    /\ posted[r] \in {<<>>} \cup {<<s>> : s \in Statuses}
    /\ row[r] \in Active \cup {"UPLOADING"} => posted[r] = <<>>

\* The worker has a run for itself: the loop is done with it and says nothing of it.
WorkerInv ==
  \A w \in Workers : wk[w].pc # "idle" =>
    /\ IF wk[w].pc = "committed" THEN row[wk[w].run] \in {"COMPLETED", "ERROR", "ABSENT"}
       ELSE row[wk[w].run] \in {"UPLOADING", "ABSENT"}
    /\ wk[w].pc = "failing" => wk[w].seen = "UPLOADING"
    /\ ~Undecided(wk[w].run) /\ wk[w].run \notin sync.fired
    /\ sync.out[wk[w].run] = "none" /\ posted[wk[w].run] = <<>>

KeepsInv ==
  /\ RemovesOnly /\ LoopInv /\ UndecidedInv /\ WriteInv
  /\ FiredInv /\ OutInv /\ ToldInv /\ WorkerInv

LEMMA KeepsInit == ASSUME RunAssumption, Init PROVE KeepsInv
  BY DEF RunAssumption, Init, KeepsInv, RemovesOnly, LoopInv, UndecidedInv, WriteInv, FiredInv, OutInv,
    ToldInv, WorkerInv, Undecided, Unserved, IdleSync, IdleWorker

----------------------------------------------------------------------------
(* The sync loop.                                                          *)

\* The worker keeps its run for itself while the loop decides on others only.
LEMMA WorkerCalm ==
  ASSUME TypeOK, WorkerInv, row' = row, posted' = posted, wk' = wk,
         \A r \in Runs : Undecided(r)' \/ r \in sync'.fired \/ sync'.out[r] # "none"
           => Undecided(r) \/ r \in sync.fired \/ sync.out[r] # "none"
  PROVE  WorkerInv'
<1> SUFFICES ASSUME NEW w \in Workers, wk[w].pc # "idle"
             PROVE /\ ~Undecided(wk[w].run)' /\ wk[w].run \notin sync'.fired
                   /\ sync'.out[wk[w].run] = "none"
  BY DEF WorkerInv
<1>1. wk[w].run \in Runs BY DEF TypeOK
<1> QED BY <1>1 DEF WorkerInv

LEMMA KeepsSelect ==
  ASSUME RunAssumption, TypeOK, KeepsInv, SyncSelect PROVE KeepsInv'
<1>0. row' = row /\ posted' = posted /\ wk' = wk /\ req' = req
  BY DEF SyncSelect, UnchangedBySync
<1>1. /\ sync'.pc = "backends" /\ sync'.seen = row /\ sync'.batch = NonTerminal
      /\ sync'.todo = {} /\ sync'.missing = {} /\ sync'.fired = {} /\ sync'.cur = NoRun
      /\ \A r \in Runs : sync'.write[r] = "none" /\ sync'.out[r] = "none"
  BY DEF SyncSelect, IdleSync
<1>2. RemovesOnly' BY <1>0 DEF KeepsInv, RemovesOnly
<1>3. LoopInv' BY <1>1 DEF LoopInv
<1>4. UndecidedInv'
  BY <1>0, <1>1 DEF UndecidedInv, Undecided, NonTerminal, KeepsInv, ToldInv
<1>5. WriteInv' /\ FiredInv' /\ OutInv' BY <1>1 DEF WriteInv, FiredInv, OutInv
<1>6. ToldInv' BY <1>0 DEF KeepsInv, ToldInv
<1>7. \A w \in Workers : wk[w].pc # "idle" => wk[w].run \in Runs /\ wk[w].run \notin NonTerminal
  BY DEF KeepsInv, WorkerInv, TypeOK, NonTerminal, Active, SyncedStatuses, Statuses
<1>8. WorkerInv' BY <1>0, <1>1, <1>7 DEF KeepsInv, WorkerInv, Undecided
<1> QED BY <1>2, <1>3, <1>4, <1>5, <1>6, <1>8 DEF KeepsInv

\* The loop starts over: an exception, the end of a cycle, a restart of the process.
LEMMA KeepsIdle ==
  ASSUME RunAssumption, sync' = IdleSync
  PROVE  /\ LoopInv' /\ UndecidedInv' /\ WriteInv' /\ FiredInv' /\ OutInv'
         /\ \A r \in Runs : ~Undecided(r)' /\ r \notin sync'.fired /\ sync'.out[r] = "none"
<1>1. /\ sync'.pc = "idle" /\ sync'.batch = {}
      /\ sync'.todo = {} /\ sync'.missing = {} /\ sync'.fired = {} /\ sync'.cur = NoRun
      /\ \A r \in Runs : sync'.write[r] = "none" /\ sync'.out[r] = "none"
  BY DEF IdleSync
<1> QED BY <1>1 DEF LoopInv, UndecidedInv, Undecided, WriteInv, FiredInv, OutInv

LEMMA KeepsAborts ==
  ASSUME RunAssumption, TypeOK, KeepsInv, SyncAborts \/ SyncStale PROVE KeepsInv'
<1>0. row' = row /\ posted' = posted /\ wk' = wk /\ req' = req /\ sync' = IdleSync
  BY DEF SyncAborts, SyncStale, UnchangedBySync
<1>1. RemovesOnly' /\ ToldInv' BY <1>0 DEF KeepsInv, RemovesOnly, ToldInv
<1>2. WorkerInv' BY <1>0, KeepsIdle, WorkerCalm DEF KeepsInv
<1> QED BY <1>0, <1>1, <1>2, KeepsIdle DEF KeepsInv

LEMMA KeepsBackend ==
  ASSUME RunAssumption, TypeOK, KeepsInv, NEW b \in Backends, SyncBackend(b) PROVE KeepsInv'
<1>0. row' = row /\ posted' = posted /\ wk' = wk /\ req' = req /\ sync \in SyncRecord
  BY DEF SyncBackend, UnchangedBySync, TypeOK
<1>1. /\ sync.pc = "backends" /\ b \in sync.left /\ \A r \in sync.expired : row[r] # "ABSENT"
      /\ sync'.pc \in {"backends", "runs"} /\ (sync'.pc = "backends" => sync'.todo = {})
      /\ sync'.left = sync.left \ {b} /\ sync'.todo = {r \in sync.batch : BackendOf[r] = b}
      /\ sync'.batch = sync.batch /\ sync'.missing = sync.missing /\ sync'.write = sync.write
      /\ sync'.fired = sync.fired /\ sync'.out = sync.out /\ sync'.cur = sync.cur
      /\ \A r \in Runs : sync'.seen[r] = IF r \in sync.expired THEN row[r] ELSE sync.seen[r]
  BY <1>0 DEF SyncBackend, SyncRecord
<1>2. RemovesOnly' /\ ToldInv' BY <1>0 DEF KeepsInv, RemovesOnly, ToldInv
<1>3. LoopInv' BY <1>1 DEF KeepsInv, LoopInv
<1>4. \A r \in Runs : Undecided(r)' => Undecided(r) BY <1>1 DEF Undecided
<1>5. UndecidedInv' BY <1>0, <1>1, <1>4 DEF KeepsInv, UndecidedInv
<1>6. WriteInv' /\ OutInv' BY <1>0, <1>1, <1>4 DEF KeepsInv, WriteInv, OutInv, Wants
<1>7. FiredInv' BY <1>1 DEF KeepsInv, LoopInv, FiredInv
<1>8. WorkerInv' BY <1>0, <1>1, <1>4, WorkerCalm DEF KeepsInv
<1> QED BY <1>2, <1>3, <1>5, <1>6, <1>7, <1>8 DEF KeepsInv

LEMMA KeepsPoll ==
  ASSUME RunAssumption, TypeOK, KeepsInv, NEW r \in Runs, SyncPoll(r) \/ SyncPollFails(r)
  PROVE  KeepsInv'
<1>0. row' = row /\ posted' = posted /\ wk' = wk /\ req' = req /\ sync \in SyncRecord
  BY DEF SyncPoll, SyncPollFails, UnchangedBySync, TypeOK
<1>1. /\ sync.pc = "runs" /\ r \in sync.todo
      /\ sync'.left = sync.left /\ sync'.batch = sync.batch /\ sync'.write = sync.write
      /\ sync'.out = sync.out /\ sync'.seen = sync.seen
      /\ \/ /\ sync'.pc = "answered" /\ sync'.cur = r /\ sync'.todo = sync.todo
            /\ sync'.missing = sync.missing /\ sync'.fired = sync.fired
         \/ /\ sync'.pc = "runs" /\ sync'.cur = sync.cur /\ sync'.todo = sync.todo \ {r}
            /\ \/ sync'.missing = sync.missing /\ sync'.fired = sync.fired
               \/ sync'.missing = sync.missing \cup {r} /\ sync'.fired = sync.fired \cup {r}
  <2>1. CASE SyncPollFails(r) BY <1>0, <2>1 DEF SyncPollFails, SyncRecord
  <2>2. CASE SyncPoll(r) /\ JobExists(r) BY <1>0, <2>2 DEF SyncPoll, SyncRecord
  <2>3. CASE SyncPoll(r) /\ ~JobExists(r) BY <1>0, <2>3 DEF SyncPoll, SyncRecord
  <2> QED BY <2>1, <2>2, <2>3
<1>2. RemovesOnly' /\ ToldInv' BY <1>0 DEF KeepsInv, RemovesOnly, ToldInv
<1>3. LoopInv' BY <1>1 DEF KeepsInv, LoopInv
<1>4. Undecided(r) /\ \A t \in Runs : Undecided(t)' => Undecided(t)
  BY <1>1 DEF Undecided, KeepsInv, LoopInv
<1>5. UndecidedInv' BY <1>0, <1>1, <1>4 DEF KeepsInv, UndecidedInv
<1>6. WriteInv' /\ OutInv' BY <1>0, <1>1, <1>4 DEF KeepsInv, WriteInv, OutInv, Wants
<1>7. FiredInv' BY <1>0, <1>1, <1>4 DEF KeepsInv, FiredInv, UndecidedInv
<1>8. WorkerInv' BY <1>0, <1>1, <1>4, WorkerCalm DEF KeepsInv
<1> QED BY <1>2, <1>3, <1>5, <1>6, <1>7, <1>8 DEF KeepsInv

\* A flush: the run just polled, and those the backend does not know, get their status.
LEMMA KeepsApplied ==
  ASSUME RunAssumption, TypeOK, KeepsInv, sync.pc = "answered",
         row' = row, posted' = posted, wk' = wk, req' = req,
         NEW w, NEW fired, NEW ws, NEW missing, Applied(ws, missing, fired),
         w = "COMPLETED" => ~Wants(sync.cur), w = "UPLOADING" => Wants(sync.cur), w # "none",
         \/ ws = Flushed(w) /\ missing = {}
         \/ ws = sync.write /\ missing = sync.missing /\ fired = {},
         fired = {} \/ (fired = {sync.cur} /\ w \in CallbackStatuses)
  PROVE  KeepsInv'
<1>0. sync \in SyncRecord BY DEF TypeOK
<1>1. /\ sync'.pc = "runs" /\ sync'.cur = NoRun /\ sync'.todo = sync.todo \ {sync.cur}
      /\ sync'.write = ws /\ sync'.missing = missing /\ sync'.fired = sync.fired \cup fired
      /\ sync'.left = sync.left /\ sync'.batch = sync.batch /\ sync'.out = sync.out
      /\ sync'.seen = sync.seen
  BY <1>0 DEF Applied, SyncRecord
<1>c. /\ sync.cur \in sync.todo /\ sync.cur \in Runs
      /\ sync.cur \notin sync.missing /\ sync.cur \notin sync.fired
  BY DEF KeepsInv, LoopInv, TypeOK
<1>u. \A r \in sync.missing \cup sync.todo : r \in Runs /\ Undecided(r)
  BY <1>0 DEF KeepsInv, LoopInv, Undecided, SyncRecord
<1>w. ASSUME NEW r \in Runs
      PROVE  \/ ws[r] = sync.write[r]
             \/ r = sync.cur /\ ws[r] = w
             \/ r \in sync.missing /\ ws[r] = "ERROR"
  <2>1. CASE ws = sync.write BY <2>1
  <2>2. CASE ws = Flushed(w)
    <3>1. ws[r] = IF r = sync.cur THEN w ELSE IF r \in Dirty THEN "ERROR" ELSE sync.write[r]
      BY <2>2 DEF Flushed
    <3> QED BY <3>1 DEF Dirty
  <2> QED BY <2>1, <2>2
<1>m. \A r \in sync.missing : r \in missing \/ ws[r] = "ERROR"
  <2> SUFFICES ASSUME NEW r \in sync.missing, ws = Flushed(w) PROVE ws[r] = "ERROR" OBVIOUS
  <2>1. sync.seen[r] # "ERROR"
    BY <1>u DEF KeepsInv, UndecidedInv, Active, SyncedStatuses
  <2> QED BY <1>c, <1>u, <2>1 DEF Flushed, Dirty
<1>f. \A r \in sync.fired : r \in Runs /\ r # sync.cur BY <1>0, <1>c DEF SyncRecord
<1>2. RemovesOnly' /\ ToldInv' BY DEF KeepsInv, RemovesOnly, ToldInv
<1>3. LoopInv' BY <1>1, <1>c, <1>w DEF KeepsInv, LoopInv
<1>4. \A r \in Runs : Undecided(r)' => Undecided(r)
  BY <1>1, <1>u, <1>w, <1>c DEF Undecided
<1>5. UndecidedInv' BY <1>1, <1>4 DEF KeepsInv, UndecidedInv
<1>6. WriteInv' BY <1>1, <1>w DEF KeepsInv, WriteInv, Wants
<1>7. FiredInv'
  <2> SUFFICES ASSUME NEW r \in sync'.fired
               PROVE posted[r] = <<>> /\ (r \in missing \/ ws[r] \in CallbackStatuses)
    BY <1>1 DEF FiredInv
  <2>1. CASE r \in sync.fired
    BY <1>w, <1>m, <1>f, <2>1 DEF KeepsInv, FiredInv, CallbackStatuses, SyncedStatuses
  <2>2. CASE r \notin sync.fired
    <3>1. r = sync.cur /\ w \in CallbackStatuses /\ ws = Flushed(w) BY <1>1, <2>2
    <3> QED BY <1>c, <1>u, <3>1 DEF KeepsInv, UndecidedInv, Flushed
  <2> QED BY <2>1, <2>2
<1>8. OutInv' BY <1>1, <1>4 DEF KeepsInv, OutInv
<1>9. WorkerInv' BY <1>1, <1>4, <1>u, <1>c, WorkerCalm DEF KeepsInv
<1> QED BY <1>2, <1>3, <1>5, <1>6, <1>7, <1>8, <1>9 DEF KeepsInv

LEMMA KeepsFlush ==
  ASSUME RunAssumption, TypeOK, KeepsInv, SyncFlush PROVE KeepsInv'
<1> DEFINE r == sync.cur
           s == AfterSync(sync.seen[r], Wants(r), sync.answer)
           fired == IF CallbackDue(sync.seen[r], Wants(r), sync.answer) THEN {r} ELSE {}
           w == IF s # sync.seen[r] THEN s ELSE "same"
<1>0. /\ row' = row /\ posted' = posted /\ wk' = wk /\ req' = req /\ sync.pc = "answered"
      /\ r \in sync.todo /\ r \in Runs /\ sync.answer \in JobStatuses
  BY DEF SyncFlush, UnchangedBySync, TypeOK, KeepsInv, LoopInv
<1>1. Undecided(r) BY <1>0 DEF Undecided, KeepsInv, LoopInv
<1>2. sync.seen[r] \in Active BY <1>0, <1>1 DEF KeepsInv, UndecidedInv
<1>3. s = "COMPLETED" => ~Wants(r) BY <1>2, CompletesUnwanted DEF Wants
<1>4. s = "UPLOADING" => Wants(r)
  BY <1>0 DEF AfterSync, StartsImport, JobStatuses
<1>5. fired = {} \/ (fired = {r} /\ s \in CallbackStatuses /\ s # sync.seen[r])
  <2>1. CallbackDue(sync.seen[r], Wants(r), sync.answer)
          => s \in CallbackStatuses /\ sync.seen[r] \notin CallbackStatuses
    BY DEF CallbackDue
  <2> HIDE DEF s
  <2> QED BY <2>1
<1>6. w # "none" /\ (w = "COMPLETED" => ~Wants(r)) /\ (w = "UPLOADING" => Wants(r))
  <2>1. s # "none" BY <1>0 DEF AfterSync, JobStatuses, Statuses
  <2> QED BY <1>3, <1>4, <2>1
<1>7. \/ Applied(sync.write, sync.missing, fired) /\ fired = {}
      \/ Applied(Flushed(w), {}, fired)
  BY <1>5 DEF SyncFlush
<1>8. fired = {} \/ (fired = {r} /\ w \in CallbackStatuses) BY <1>5
<1> HIDE DEF r, s, fired, w
<1>9. r = sync.cur BY DEF r
<1>10. CASE Applied(sync.write, sync.missing, fired) /\ fired = {}
  BY <1>0, <1>6, <1>8, <1>9, <1>10, KeepsApplied
<1>11. CASE Applied(Flushed(w), {}, fired) BY <1>0, <1>6, <1>8, <1>9, <1>11, KeepsApplied
<1> QED BY <1>7, <1>10, <1>11

LEMMA KeepsBrokerDown ==
  ASSUME RunAssumption, TypeOK, KeepsInv, SyncBrokerDown PROVE KeepsInv'
<1> DEFINE w == "UPLOADING"
           none == {}
<1>1. /\ row' = row /\ posted' = posted /\ wk' = wk /\ req' = req /\ sync.pc = "answered"
      /\ Applied(Flushed(w), none, none) /\ Wants(sync.cur)
  BY DEF SyncBrokerDown, UnchangedBySync, StartsImport
<1>2. w # "none" /\ w # "COMPLETED" /\ none = {} OBVIOUS
<1> HIDE DEF w, none
<1> QED BY <1>1, <1>2, KeepsApplied

\* The end of a backend's transaction leaves only the fired callbacks behind.
LEMMA KeepsStale ==
  ASSUME RunAssumption, TypeOK, KeepsInv, SyncCommitStale PROVE KeepsInv'
<1>0. row' = row /\ posted' = posted /\ wk' = wk /\ req' = req /\ sync \in SyncRecord
  BY DEF SyncCommitStale, UnchangedBySync, TypeOK
<1>1. /\ sync'.pc = "backends" /\ sync'.cur = NoRun /\ sync'.todo = {} /\ sync'.missing = {}
      /\ sync'.fired = {} /\ \A r \in Runs : sync'.write[r] = "none"
      /\ sync'.left = sync.left /\ sync'.batch = sync.batch /\ sync'.out = sync.out
      /\ sync'.seen = sync.seen
  BY <1>0 DEF SyncCommitStale, SyncRecord, IdleSync
<1>2. RemovesOnly' /\ ToldInv' BY <1>0 DEF KeepsInv, RemovesOnly, ToldInv
<1>3. LoopInv' BY <1>1 DEF LoopInv
<1>4. \A r \in Runs : Undecided(r)' => Undecided(r) BY <1>1 DEF Undecided
<1>5. UndecidedInv' BY <1>0, <1>1, <1>4 DEF KeepsInv, UndecidedInv
<1>6. WriteInv' /\ FiredInv' BY <1>1 DEF WriteInv, FiredInv
<1>7. OutInv' BY <1>0, <1>1, <1>4 DEF KeepsInv, OutInv
<1>8. WorkerInv' BY <1>0, <1>1, <1>4, WorkerCalm DEF KeepsInv
<1> QED BY <1>2, <1>3, <1>5, <1>6, <1>7, <1>8 DEF KeepsInv

\* What a commit of the loop does to one row.
LEMMA CommitWrites ==
  ASSUME RunAssumption, TypeOK, KeepsInv, SyncCommit, NEW r \in Runs
  PROVE  /\ \/ sync.write[r] = "none" /\ r \notin sync.missing /\ row'[r] = row[r]
            \/ sync.write[r] = "same" /\ r \notin sync.missing /\ row'[r] = row[r]
            \/ sync.write[r] \in Statuses /\ r \notin sync.missing /\ row'[r] = sync.write[r]
            \/ r \in sync.missing /\ row'[r] = "ERROR"
         /\ sync.write[r] # "none" \/ r \in sync.missing => Undecided(r)
         /\ r \in sync.missing => row[r] # "ABSENT" \/ sync.write[r] = "ERROR"
<1>1. /\ sync.pc = "runs" /\ sync.todo = {} /\ sync.cur = NoRun /\ r # sync.cur
      /\ row'[r] = Write(row[r], Flushed("none")[r]) /\ CanWrite(Flushed("none"))
      /\ row \in [Runs -> Statuses \cup {"ABSENT"}]
  BY DEF SyncCommit, KeepsInv, LoopInv, RunAssumption, TypeOK
<1>2. sync.write[r] \in Writes BY DEF TypeOK, SyncRecord
<1>3. sync.write[r] # "none" \/ r \in sync.missing => Undecided(r)
  BY DEF Undecided, KeepsInv, LoopInv
<1>4. r \in sync.missing => sync.seen[r] # "ERROR"
  BY <1>3 DEF KeepsInv, UndecidedInv, Active, SyncedStatuses
<1>5. Flushed("none")[r] = IF r \in sync.missing THEN "ERROR" ELSE sync.write[r]
  BY <1>1, <1>4 DEF Flushed, Dirty
<1>6. r \in sync.missing => row[r] # "ABSENT" \/ sync.write[r] = "ERROR"
  BY <1>1, <1>5 DEF CanWrite, RowMatched
<1>7. r \in sync.missing => row'[r] = "ERROR" BY <1>1, <1>5 DEF Write, Statuses
<1>8. r \notin sync.missing => row'[r] = IF sync.write[r] \in Statuses THEN sync.write[r] ELSE row[r]
  BY <1>1, <1>5 DEF Write
<1> QED BY <1>2, <1>3, <1>6, <1>7, <1>8 DEF Writes, Statuses

LEMMA KeepsCommit ==
  ASSUME RunAssumption, TypeOK, KeepsInv, SyncCommit PROVE KeepsInv'
<1>0. /\ posted' = posted /\ wk' = wk /\ req' = req /\ sync \in SyncRecord
      /\ row \in [Runs -> Statuses \cup {"ABSENT"}]
  BY DEF SyncCommit, UnchangedBySync, TypeOK
<1>1. /\ sync.pc = "runs" /\ sync.todo = {} /\ sync'.pc = "collect" /\ sync'.cur = sync.cur
      /\ sync'.todo = {} /\ sync'.missing = {} /\ sync'.fired = sync.fired
      /\ \A r \in Runs : sync'.write[r] = "none"
      /\ sync'.left = sync.left /\ sync'.batch = sync.batch /\ sync'.out = sync.out
      /\ sync'.seen = sync.seen
  BY <1>0 DEF SyncCommit, SyncRecord, IdleSync
<1>k. \A r \in Runs : ~Undecided(r) => row'[r] = row[r]
  BY CommitWrites DEF Statuses
<1>n. \A r \in Runs : Undecided(r)' => Undecided(r) /\ row'[r] = row[r]
  <2> SUFFICES ASSUME NEW r \in Runs, Undecided(r)' PROVE Undecided(r) /\ row'[r] = row[r] OBVIOUS
  <2>1. r \in sync.batch /\ BackendOf[r] \in sync.left BY <1>1 DEF Undecided
  <2>2. Undecided(r) BY <2>1 DEF Undecided
  <2>3. sync.write[r] = "none" /\ r \notin sync.missing BY <2>1 DEF KeepsInv, LoopInv
  <2> QED BY <2>2, <2>3, CommitWrites DEF Statuses
<1>2. RemovesOnly' BY <1>0 DEF KeepsInv, RemovesOnly
<1>3. LoopInv' BY <1>1 DEF KeepsInv, LoopInv
<1>5. UndecidedInv' BY <1>0, <1>1, <1>n DEF KeepsInv, UndecidedInv
<1>6. WriteInv' BY <1>1 DEF WriteInv
<1>7. FiredInv'
  <2> SUFFICES ASSUME NEW r \in sync.fired
               PROVE posted[r] = <<>> /\ row'[r] \in CallbackStatuses
    BY <1>0, <1>1 DEF FiredInv
  <2>1. r \in Runs /\ posted[r] = <<>> /\ (r \in sync.missing \/ sync.write[r] \in CallbackStatuses)
    BY <1>0, <1>1 DEF KeepsInv, FiredInv, SyncRecord
  <2> QED BY <2>1, CommitWrites DEF CallbackStatuses, SyncedStatuses
<1>8. OutInv'
  <2> SUFFICES ASSUME NEW r \in Runs, sync.out[r] # "none"
               PROVE row'[r] = row[r] /\ ~Undecided(r)'
    BY <1>0, <1>1 DEF KeepsInv, OutInv
  <2>1. ~Undecided(r) BY DEF KeepsInv, OutInv
  <2> QED BY <1>k, <1>n, <2>1
<1>9. ToldInv'
  <2> SUFFICES ASSUME NEW r \in Runs, row'[r] \in Active \cup {"UPLOADING"} PROVE posted[r] = <<>>
    BY <1>0 DEF KeepsInv, ToldInv
  <2>1. CASE Undecided(r) BY <2>1 DEF KeepsInv, UndecidedInv
  <2>2. CASE ~Undecided(r) BY <1>k, <2>2 DEF KeepsInv, ToldInv
  <2> QED BY <2>1, <2>2
<1>10. WorkerInv'
  <2> SUFFICES ASSUME NEW w \in Workers, wk[w].pc # "idle"
               PROVE ~Undecided(wk[w].run)' /\ row'[wk[w].run] = row[wk[w].run]
    BY <1>0, <1>1 DEF KeepsInv, WorkerInv
  <2>1. wk[w].run \in Runs /\ ~Undecided(wk[w].run) BY DEF KeepsInv, WorkerInv, TypeOK
  <2>2. wk'[w].run = wk[w].run BY <1>0
  <2> QED BY <1>k, <1>n, <2>1, <2>2
<1> QED BY <1>2, <1>3, <1>5, <1>6, <1>7, <1>8, <1>9, <1>10 DEF KeepsInv

LEMMA KeepsCollect ==
  ASSUME RunAssumption, TypeOK, KeepsInv, SyncCollect PROVE KeepsInv'
<1>0. row' = row /\ posted' = posted /\ wk' = wk /\ req' = req /\ sync \in SyncRecord
  BY DEF SyncCollect, UnchangedBySync, TypeOK
<1>1. /\ sync.pc = "collect" /\ (\A r \in sync.fired : row[r] # "ABSENT")
      /\ sync'.pc = "backends" /\ sync'.fired = {} /\ sync'.cur = sync.cur
      /\ sync'.todo = sync.todo /\ sync'.missing = sync.missing /\ sync'.write = sync.write
      /\ sync'.left = sync.left /\ sync'.batch = sync.batch /\ sync'.seen = sync.seen
      /\ \A r \in Runs : sync'.out[r] = IF r \in sync.fired THEN row[r] ELSE sync.out[r]
  BY <1>0 DEF SyncCollect, SyncRecord
<1>2. RemovesOnly' /\ ToldInv' BY <1>0 DEF KeepsInv, RemovesOnly, ToldInv
<1>3. LoopInv' BY <1>1 DEF KeepsInv, LoopInv
<1>4. \A r \in Runs : Undecided(r)' => Undecided(r) /\ r \notin sync.fired
  BY <1>1 DEF Undecided, KeepsInv, LoopInv
<1>5. UndecidedInv' BY <1>0, <1>1, <1>4 DEF KeepsInv, UndecidedInv
<1>6. WriteInv' /\ FiredInv' BY <1>1 DEF KeepsInv, WriteInv, FiredInv, Wants
<1>7. OutInv'
  <2> SUFFICES ASSUME NEW r \in Runs, sync'.out[r] # "none"
               PROVE /\ sync'.out[r] \in CallbackStatuses /\ row[r] \in {sync'.out[r], "ABSENT"}
                     /\ posted[r] = <<>> /\ ~Undecided(r)'
    BY <1>0 DEF OutInv
  <2>1. CASE r \in sync.fired BY <1>1, <1>4, <2>1 DEF KeepsInv, FiredInv
  <2>2. CASE r \notin sync.fired BY <1>1, <1>4, <2>2 DEF KeepsInv, OutInv
  <2> QED BY <2>1, <2>2
<1>8. WorkerInv' BY <1>0, <1>1, <1>4, WorkerCalm DEF KeepsInv
<1> QED BY <1>2, <1>3, <1>5, <1>6, <1>7, <1>8 DEF KeepsInv

LEMMA KeepsReturn ==
  ASSUME RunAssumption, TypeOK, KeepsInv, SyncReturn PROVE KeepsInv'
<1>0. row' = row /\ wk' = wk /\ req' = req /\ sync' = IdleSync
  BY DEF SyncReturn, UnchangedBySync
<1>1. \A r \in Runs : posted'[r] = IF sync.out[r] = "none" THEN posted[r]
                                   ELSE Append(posted[r], sync.out[r])
  BY DEF SyncReturn
<1>2. RemovesOnly' BY <1>0 DEF KeepsInv, RemovesOnly
<1>3. ToldInv'
  <2> SUFFICES ASSUME NEW r \in Runs
               PROVE /\ posted'[r] \in {<<>>} \cup {<<t>> : t \in Statuses}
                     /\ row[r] \in Active \cup {"UPLOADING"} => posted'[r] = <<>>
    BY <1>0 DEF ToldInv
  <2>1. CASE sync.out[r] = "none" BY <1>1, <2>1 DEF KeepsInv, ToldInv
  <2>2. CASE sync.out[r] # "none"
    <3>1. /\ sync.out[r] \in CallbackStatuses /\ row[r] \in {sync.out[r], "ABSENT"}
          /\ posted[r] = <<>>
      BY <2>2 DEF KeepsInv, OutInv
    <3>2. posted'[r] = <<sync.out[r]>>
      <4>1. posted'[r] = Append(<<>>, sync.out[r]) BY <1>1, <2>2, <3>1
      <4>2. \A x : Append(<<>>, x) = <<x>> OBVIOUS
      <4> QED BY <4>1, <4>2
    <3>3. sync.out[r] \in Statuses /\ row[r] \notin Active \cup {"UPLOADING"}
      BY <3>1 DEF CallbackStatuses, SyncedStatuses, Active, Statuses
    <3> QED BY <3>2, <3>3
  <2> QED BY <2>1, <2>2
<1>4. WorkerInv'
  <2> SUFFICES ASSUME NEW w \in Workers, wk[w].pc # "idle"
               PROVE /\ ~Undecided(wk[w].run)' /\ wk[w].run \notin sync'.fired
                     /\ sync'.out[wk[w].run] = "none" /\ posted'[wk[w].run] = posted[wk[w].run]
    BY <1>0 DEF KeepsInv, WorkerInv
  <2>1. wk[w].run \in Runs /\ sync.out[wk[w].run] = "none" BY DEF KeepsInv, WorkerInv, TypeOK
  <2>2. wk'[w].run = wk[w].run BY <1>0
  <2> QED BY <1>0, <1>1, <2>1, <2>2, KeepsIdle
<1> QED BY <1>0, <1>2, <1>3, <1>4, KeepsIdle DEF KeepsInv

LEMMA KeepsSync ==
  ASSUME RunAssumption, TypeOK, KeepsInv, SyncLoop PROVE KeepsInv'
BY KeepsSelect, KeepsAborts, KeepsBackend, KeepsPoll, KeepsFlush, KeepsStale, KeepsCommit, KeepsCollect,
   KeepsReturn DEF SyncLoop

----------------------------------------------------------------------------
(* Requests, the worker and the faults.                                    *)

\* A step that leaves the loop alone and touches one run the loop is done with.
LEMMA LoopCalm ==
  ASSUME KeepsInv, req' = req, sync' = sync, NEW r \in Runs,
         ~Undecided(r), r \notin sync.fired, sync.out[r] = "none",
         \A t \in Runs \ {r} : row'[t] = row[t] /\ posted'[t] = posted[t],
         sync \in SyncRecord
  PROVE  /\ RemovesOnly' /\ LoopInv' /\ UndecidedInv' /\ WriteInv' /\ FiredInv' /\ OutInv'
         /\ \A t \in Runs : Undecided(t)' = Undecided(t)
<1>1. \A t \in Runs : Undecided(t)' = Undecided(t) BY DEF Undecided
<1>2. RemovesOnly' /\ LoopInv' /\ WriteInv' BY DEF KeepsInv, RemovesOnly, LoopInv, WriteInv, Wants
<1>3. UndecidedInv' BY <1>1 DEF KeepsInv, UndecidedInv
<1>4. sync.fired \subseteq Runs BY DEF SyncRecord
<1>5. FiredInv' BY <1>4 DEF KeepsInv, FiredInv
<1>6. OutInv' BY <1>1 DEF KeepsInv, OutInv
<1> QED BY <1>1, <1>2, <1>3, <1>5, <1>6

\* Nothing that the invariant speaks of changes, but perhaps a worker.
LEMMA AllCalm ==
  ASSUME KeepsInv, req' = req, sync' = sync, row' = row, posted' = posted
  PROVE  /\ RemovesOnly' /\ LoopInv' /\ UndecidedInv' /\ WriteInv'
         /\ FiredInv' /\ OutInv' /\ ToldInv'
         /\ \A t \in Runs : Undecided(t)' = Undecided(t)
  BY DEF KeepsInv, RemovesOnly, LoopInv, UndecidedInv, Undecided, WriteInv, FiredInv, OutInv, ToldInv, Wants

LEMMA RemoveSteps ==
  ASSUME OnlyRemoves, KeepsInv, NEW q \in Requests, Request(q)
  PROVE  LoadRun(q) \/ RemoteDelete(q) \/ DeleteRow(q)
<1>1. /\ Kind[q] = "remove" /\ req[q].answer = "none"
      /\ req[q].pc \in {"unused", "loaded", "answered", "done"}
  BY DEF OnlyRemoves, KeepsInv, RemovesOnly
<1> QED BY <1>1 DEF Request, SubmitJob, InsertRow, PollJob, CancelJob, CancelRefused, Flush, FlushStale,
  Commit, CancelMissing, Notify, JobStatuses, Statuses

LEMMA KeepsRequest ==
  ASSUME RunAssumption, OnlyRemoves, TypeOK, KeepsInv, NEW q \in Requests, Request(q)
  PROVE  KeepsInv'
<1>0. /\ req \in [Requests -> ReqRecord] /\ row \in [Runs -> Statuses \cup {"ABSENT"}]
      /\ Target[q] \in Runs /\ sync \in SyncRecord
  BY DEF TypeOK, RunAssumption
<1>1. RemovesOnly'
  <2>1. CASE LoadRun(q)
    BY <1>0, <2>1 DEF LoadRun, KeepsInv, RemovesOnly, ReqRecord
  <2>2. CASE RemoteDelete(q)
    BY <1>0, <2>2 DEF RemoteDelete, KeepsInv, RemovesOnly, ReqRecord
  <2>3. CASE DeleteRow(q)
    BY <1>0, <2>3 DEF DeleteRow, Ends, Turns, Unserved, KeepsInv, RemovesOnly
  <2> QED BY <2>1, <2>2, <2>3, RemoveSteps
<1>2. /\ sync' = sync /\ posted' = posted /\ wk' = wk
      /\ \A r \in Runs : row'[r] = row[r] \/ row'[r] = "ABSENT"
  BY <1>0, RemoveSteps DEF LoadRun, RemoteDelete, DeleteRow
<1>3. \A r \in Runs : Undecided(r)' = Undecided(r) BY <1>2 DEF Undecided
<1>4. LoopInv' /\ WriteInv' BY <1>2 DEF KeepsInv, LoopInv, WriteInv, Wants
<1>5. UndecidedInv' BY <1>2, <1>3 DEF KeepsInv, UndecidedInv
<1>6. sync.fired \subseteq Runs BY <1>0 DEF SyncRecord
<1>7. FiredInv' BY <1>2, <1>6 DEF KeepsInv, FiredInv
<1>8. OutInv' BY <1>2, <1>3 DEF KeepsInv, OutInv
<1>9. ToldInv' BY <1>2 DEF KeepsInv, ToldInv, Active, Statuses
<1>10. WorkerInv'
  <2> SUFFICES ASSUME NEW w \in Workers, wk[w].pc # "idle"
               PROVE /\ ~Undecided(wk[w].run)'
                     /\ row'[wk[w].run] \in {row[wk[w].run], "ABSENT"}
    BY <1>2 DEF KeepsInv, WorkerInv
  <2>1. wk[w].run \in Runs /\ ~Undecided(wk[w].run) BY DEF KeepsInv, WorkerInv, TypeOK
  <2>2. wk'[w].run = wk[w].run BY <1>2
  <2> QED BY <1>2, <1>3, <2>1, <2>2
<1> QED BY <1>1, <1>4, <1>5, <1>7, <1>8, <1>9, <1>10 DEF KeepsInv

\* A run that is UPLOADING is not on the loop's mind.
LEMMA UploadingIsFree ==
  ASSUME TypeOK, KeepsInv, NEW r \in Runs, row[r] = "UPLOADING"
  PROVE  ~Undecided(r) /\ r \notin sync.fired /\ sync.out[r] = "none" /\ posted[r] = <<>>
<1>1. ~Undecided(r) BY DEF KeepsInv, UndecidedInv, Active, SyncedStatuses
<1>2. r \notin sync.fired
  <2> SUFFICES ASSUME r \in sync.fired PROVE FALSE OBVIOUS
  <2>1. sync.pc # "collect" BY DEF KeepsInv, FiredInv, CallbackStatuses
  <2>2. r \in sync.missing \/ sync.write[r] # "none"
    BY <2>1 DEF KeepsInv, FiredInv, CallbackStatuses, SyncedStatuses
  <2>3. r \in sync.batch BY <2>2 DEF KeepsInv, LoopInv
  <2> QED BY <1>1, <2>2, <2>3 DEF Undecided
<1>3. sync.out[r] = "none" BY DEF KeepsInv, OutInv, CallbackStatuses
<1> QED BY <1>1, <1>2, <1>3 DEF KeepsInv, ToldInv

LEMMA KeepsWorker ==
  ASSUME RunAssumption, LoneWorker, TypeOK, KeepsInv, NEW w \in Workers, Worker(w)
  PROVE  KeepsInv'
<1> DEFINE r == wk[w].run
<1>0. /\ wk \in [Workers -> WorkerRecord] /\ wk[w] \in WorkerRecord /\ sync \in SyncRecord
      /\ row \in [Runs -> Statuses \cup {"ABSENT"}] /\ posted \in [Runs -> Seq(Statuses)]
      /\ \A v \in Workers : v = w
  BY DEF TypeOK, LoneWorker
<1>1. req' = req /\ sync' = sync
  BY DEF Worker, TaskStart, ListOutputs, ImportFile, ListFails, FileFails, MarkError, Complete, TaskEnd,
    UnchangedByWorker
<1>2. CASE row' = row /\ posted' = posted
  <2>1. \A t \in Runs : Undecided(t)' = Undecided(t) BY <1>1, <1>2, AllCalm
  <2>q. ASSUME wk'[w].pc = "idle" \/ /\ wk'[w].run = r /\ wk[w].pc \notin {"idle", "committed"}
                                     /\ wk'[w].pc # "committed"
                                     /\ wk'[w].pc = "failing" => wk'[w].seen = "UPLOADING"
        PROVE  KeepsInv'
    <3>1. WorkerInv'
      <4> SUFFICES ASSUME wk'[w].pc # "idle" PROVE WorkerInv' BY <1>0 DEF WorkerInv
      <4>1. r \in Runs /\ wk'[w].run = r BY <2>q DEF TypeOK
      <4> HIDE DEF r
      <4> QED BY <1>0, <1>1, <1>2, <2>1, <2>q, <4>1 DEF KeepsInv, WorkerInv, r
    <3> QED BY <1>1, <1>2, <3>1, AllCalm DEF KeepsInv
  <2>2. CASE TaskStart(w)
    <3>1. CASE wk' = wk
      <4>1. wk[w].pc = "idle" BY <2>2 DEF TaskStart
      <4> QED BY <2>q, <3>1, <4>1
    <3>2. CASE wk' # wk
      <4>1. PICK t \in Runs : Importable(t) /\ wk' = [wk EXCEPT ![w].pc = "outputs", ![w].run = t,
                                                                ![w].seen = "UPLOADING"]
        BY <2>2, <3>2 DEF TaskStart
      <4>2. wk'[w].pc = "outputs" /\ wk'[w].run = t BY <1>0, <4>1 DEF WorkerRecord
      <4>3. row[t] = "UPLOADING" BY <4>1 DEF Importable
      <4>4. WorkerInv' BY <1>0, <1>1, <1>2, <2>1, <4>2, <4>3, UploadingIsFree DEF WorkerInv
      <4> QED BY <1>1, <1>2, <4>4, AllCalm DEF KeepsInv
    <3> QED BY <3>1, <3>2
  <2>3. CASE ListOutputs(w) BY <1>0, <2>q, <2>3 DEF ListOutputs, WorkerRecord
  <2>4. ASSUME NEW f \in Files, ImportFile(w, f) PROVE KeepsInv'
    <3>1. wk[w].pc = "files" BY <2>4 DEF ImportFile
    <3>2. wk'[w].pc = "files" /\ wk'[w].run = r
      <4>1. CASE Known(w, f) BY <1>0, <2>4, <3>1, <4>1 DEF ImportFile, WorkerRecord
      <4>2. CASE ~Known(w, f) BY <1>0, <2>4, <3>1, <4>2 DEF ImportFile, WorkerRecord
      <4> QED BY <4>1, <4>2
    <3> QED BY <2>q, <3>1, <3>2
  <2>5. CASE ListFails(w)
    BY <1>0, <2>q, <2>5 DEF ListFails, GivesUp, IdleWorker, WorkerRecord
  <2>6. CASE FileFails(w)
    <3>1. row[r] \in {"UPLOADING", "ABSENT"} BY <2>6 DEF FileFails, KeepsInv, WorkerInv
    <3> QED BY <1>0, <2>q, <2>6, <3>1 DEF FileFails, GivesUp, IdleWorker, WorkerRecord
  <2>7. CASE MarkError(w) /\ wk'[w].pc = "idle" BY <2>q, <2>7
  <2>8. CASE Complete(w) /\ wk'[w].pc = "idle" BY <2>q, <2>8
  <2>9. CASE TaskEnd(w) BY <1>0, <2>q, <2>9 DEF TaskEnd, IdleWorker
  <2>10. CASE MarkError(w) /\ wk'[w].pc # "idle"
    <3>1. wk[w].seen = "UPLOADING" /\ r \in Runs
      BY <2>10 DEF MarkError, KeepsInv, WorkerInv, TypeOK
    <3>2. row[r] # "ABSENT" /\ row'[r] = "ERROR"
      BY <1>0, <2>10, <3>1 DEF MarkError, IdleWorker
    <3>3. row[r] = "UPLOADING" BY <2>10, <3>2 DEF MarkError, KeepsInv, WorkerInv
    <3> QED BY <1>2, <3>2, <3>3
  <2>11. CASE Complete(w) /\ wk'[w].pc # "idle"
    <3>1. r \in Runs BY <2>11 DEF Complete, TypeOK
    <3>2. row[r] # "ABSENT" /\ row'[r] = "COMPLETED"
      BY <1>0, <2>11, <3>1 DEF Complete, IdleWorker
    <3>3. row[r] = "UPLOADING" BY <2>11, <3>2 DEF Complete, KeepsInv, WorkerInv
    <3> QED BY <1>2, <3>2, <3>3
  <2> QED BY <2>2, <2>3, <2>4, <2>5, <2>6, <2>7, <2>8, <2>9, <2>10, <2>11 DEF Worker
<1>3. CASE ~(row' = row /\ posted' = posted)
  <2>1. MarkError(w) \/ Complete(w) \/ TaskEnd(w)
    BY <1>3 DEF Worker, TaskStart, ListOutputs, ImportFile, ListFails, FileFails
  <2>2. /\ r \in Runs /\ ~Undecided(r) /\ r \notin sync.fired /\ sync.out[r] = "none"
        /\ posted[r] = <<>>
    BY <2>1 DEF MarkError, Complete, TaskEnd, TypeOK, KeepsInv, WorkerInv
  <2>3. CASE MarkError(w) \/ Complete(w)
    <3>1. /\ posted' = posted /\ row' # row
          /\ row'[r] \in {"COMPLETED", "ERROR"} /\ wk'[w].pc = "committed" /\ wk'[w].run = r
      <4>1. CASE MarkError(w)
        <5>1. wk[w].seen = "UPLOADING" BY <4>1 DEF MarkError, KeepsInv, WorkerInv
        <5> QED BY <1>0, <1>3, <2>2, <4>1, <5>1 DEF MarkError, WorkerRecord
      <4>2. CASE Complete(w) BY <1>0, <1>3, <2>2, <4>2 DEF Complete, WorkerRecord
      <4> QED BY <2>3, <4>1, <4>2
    <3>2. \A t \in Runs \ {r} : row'[t] = row[t]
      BY <1>0, <2>3 DEF MarkError, Complete
    <3>3. ToldInv'
      BY <2>2, <3>1, <3>2 DEF KeepsInv, ToldInv, Active, SyncedStatuses
    <3>4. \A t \in Runs : Undecided(t)' = Undecided(t) BY <1>1 DEF Undecided
    <3> HIDE DEF r
    <3>5. WorkerInv' BY <1>0, <1>1, <2>2, <3>1, <3>4 DEF WorkerInv
    <3> QED BY <1>0, <1>1, <2>2, <3>1, <3>2, <3>3, <3>5, LoopCalm DEF KeepsInv
  <2>4. CASE TaskEnd(w)
    <3>1. /\ row' = row /\ posted'[r] = Append(posted[r], row[r]) /\ row[r] # "ABSENT"
          /\ wk'[w].pc = "idle" /\ \A t \in Runs \ {r} : posted'[t] = posted[t]
      BY <1>0, <1>3, <2>2, <2>4 DEF TaskEnd, Post, IdleWorker
    <3>2. row[r] \in {"COMPLETED", "ERROR"}
      BY <2>4, <3>1 DEF TaskEnd, KeepsInv, WorkerInv
    <3>3. posted'[r] = <<row[r]>> BY <2>2, <3>1
    <3> HIDE DEF r
    <3>4. ToldInv'
      <4> SUFFICES ASSUME NEW t \in Runs
                   PROVE /\ posted'[t] \in {<<>>} \cup {<<x>> : x \in Statuses}
                         /\ row[t] \in Active \cup {"UPLOADING"} => posted'[t] = <<>>
        BY <3>1 DEF ToldInv
      <4>1. CASE t = r BY <3>2, <3>3, <4>1 DEF Active, SyncedStatuses, Statuses
      <4>2. CASE t # r BY <3>1, <4>2 DEF KeepsInv, ToldInv
      <4> QED BY <4>1, <4>2
    <3>5. WorkerInv' BY <1>0, <3>1 DEF WorkerInv
    <3> QED BY <1>0, <1>1, <2>2, <3>1, <3>4, <3>5, LoopCalm DEF KeepsInv
  <2> QED BY <2>1, <2>3, <2>4
<1> QED BY <1>2, <1>3

LEMMA KeepsFault ==
  ASSUME RunAssumption, OnlyRemoves, TypeOK, KeepsInv, Faults PROVE KeepsInv'
<1>0. wk \in [Workers -> WorkerRecord] BY DEF TypeOK
<1>1. CASE WebRestart
  <2>1. /\ sync' = IdleSync /\ row' = row /\ posted' = posted
        /\ wk' = wk \/ \A w \in Workers : wk'[w] = IdleWorker
    BY <1>1 DEF WebRestart
  <2>2. RemovesOnly' BY <1>1 DEF WebRestart, Unserved, KeepsInv, RemovesOnly
  <2>3. ToldInv' BY <2>1 DEF KeepsInv, ToldInv
  <2>4. WorkerInv'
    <3>1. CASE wk' = wk BY <2>1, <3>1, KeepsIdle, WorkerCalm DEF KeepsInv
    <3>2. CASE \A w \in Workers : wk'[w] = IdleWorker BY <3>2 DEF WorkerInv, IdleWorker
    <3> QED BY <2>1, <3>1, <3>2
  <2> QED BY <2>1, <2>2, <2>3, <2>4, KeepsIdle DEF KeepsInv
<1>2. ASSUME NEW w \in Workers, WorkerKilled(w) PROVE KeepsInv'
  <2>1. /\ req' = req /\ sync' = sync /\ row' = row /\ posted' = posted
        /\ \A v \in Workers : wk'[v] = wk[v] \/ wk'[v] = IdleWorker
    BY <1>0, <1>2 DEF WorkerKilled, UnchangedByWorker
  <2>2. \A t \in Runs : Undecided(t)' = Undecided(t) BY <2>1, AllCalm
  <2>3. WorkerInv'
    <3> SUFFICES ASSUME NEW v \in Workers, wk'[v].pc # "idle"
                 PROVE wk'[v] = wk[v] /\ wk[v].run \in Runs /\ ~Undecided(wk[v].run)'
      BY <2>1 DEF KeepsInv, WorkerInv
    <3>1. wk'[v] = wk[v] /\ wk[v].run \in Runs BY <2>1 DEF IdleWorker, TypeOK
    <3>2. ~Undecided(wk[v].run) BY <3>1 DEF KeepsInv, WorkerInv
    <3> QED BY <2>2, <3>1, <3>2
  <2> QED BY <2>1, <2>3, AllCalm DEF KeepsInv
<1>3. CASE ClearAllCache \/ \E w \in Workers : Redelivered(w)
  <2>1. req' = req /\ sync' = sync /\ row' = row /\ posted' = posted /\ wk' = wk
    BY <1>3 DEF ClearAllCache, Redelivered, UnchangedByWorker
  <2>2. WorkerInv' BY <2>1, WorkerCalm, AllCalm DEF KeepsInv
  <2> QED BY <2>1, <2>2, AllCalm DEF KeepsInv
<1>4. ASSUME NEW q \in Requests PROVE ~CallFails(q) /\ ~BrokerDown(q)
  BY DEF CallFails, BrokerDown, OnlyRemoves
<1> QED BY <1>1, <1>2, <1>3, <1>4, KeepsBrokerDown, KeepsPoll DEF Faults

LEMMA KeepsStep ==
  ASSUME RunAssumption, LoneWorker, OnlyRemoves, TypeOK, KeepsInv, [Next]_vars PROVE KeepsInv'
<1>1. ASSUME req' = req, sync' = sync, row' = row, posted' = posted, wk' = wk PROVE KeepsInv'
  <2>1. WorkerInv' BY <1>1, WorkerCalm, AllCalm DEF KeepsInv
  <2> QED BY <1>1, <2>1, AllCalm DEF KeepsInv
<1>2. CASE UNCHANGED vars BY <1>1, <1>2 DEF vars
<1>3. ASSUME NEW r \in Runs, JobStep(r) PROVE KeepsInv' BY <1>1, <1>3 DEF JobStep
<1> QED BY <1>2, <1>3, KeepsSync, KeepsRequest, KeepsWorker, KeepsFault DEF Next

----------------------------------------------------------------------------
(* Every step is a step of the contract, or a stutter.                     *)

LEMMA StepsOfContract ==
  ASSUME TypeOK, TypeOK', ToldInv',
         \A r \in Runs : Contract!Step(r) \/ Contract!Rests(r)
  PROVE  [Contract!Next]_<<row, posted>>
<1> SUFFICES ASSUME ~(row' = row /\ posted' = posted) PROVE Contract!Next OBVIOUS
<1>0. /\ row \in [Runs -> Statuses \cup {"ABSENT"}] /\ row' \in [Runs -> Statuses \cup {"ABSENT"}]
      /\ posted \in [Runs -> Seq(Statuses)] /\ posted' \in [Runs -> Seq(Statuses)]
  BY DEF TypeOK
<1>1. PICK r \in Runs : ~(row'[r] = row[r] /\ posted'[r] = posted[r]) BY <1>0
<1>2. Contract!Step(r) BY <1>1 DEF Contract!Rests
<1>3. Contract!Statuses = Statuses BY DEF Contract!Statuses, Statuses
<1>4. \A t \in Runs : posted'[t] \in {<<>>} \cup {<<x>> : x \in Statuses} BY DEF ToldInv
<1>5. posted' \in [Runs -> {<<>>} \cup {<<x>> : x \in Statuses}] BY <1>0, <1>4
<1> QED BY <1>0, <1>2, <1>3, <1>5 DEF Contract!Next

LEMMA SameWords ==
  /\ Contract!Statuses = Statuses /\ Contract!SyncedStatuses = SyncedStatuses
  /\ Contract!CallbackStatuses = CallbackStatuses
  BY DEF Contract!Statuses, Contract!SyncedStatuses, Contract!CallbackStatuses, Statuses, SyncedStatuses,
    CallbackStatuses

\* One commit of the loop moves every run of a backend at most one step.
LEMMA CommitKeeps ==
  ASSUME RunAssumption, TypeOK, LocksAreOfRows, KeepsInv, SyncCommit, NEW r \in Runs
  PROVE  Contract!Step(r) \/ Contract!Rests(r)
<1>0. posted' = posted BY DEF SyncCommit
<1>1. CASE row'[r] = row[r] BY <1>0, <1>1 DEF Contract!Rests
<1>2. CASE row'[r] # row[r]
  <2>1. Undecided(r) BY <1>2, CommitWrites DEF Statuses
  <2>2. row[r] # "ABSENT" BY <1>2, CommitWrites DEF LocksAreOfRows, Statuses
  <2>3. row[r] \notin SyncedStatuses \cup {"ABSENT"}
    BY <2>1, <2>2 DEF KeepsInv, UndecidedInv, Active
  <2>4. row'[r] \in Statuses /\ (row'[r] # "ERROR" => row'[r] = sync.write[r])
    BY <1>2, CommitWrites DEF Statuses
  <2>5. CASE row'[r] = "UPLOADING"
    <3>1. Wanted[r] # {} BY <2>4, <2>5 DEF KeepsInv, WriteInv, Wants
    <3> QED BY <1>0, <2>3, <2>5, <3>1, SameWords DEF Contract!Step, Contract!StartsUpload
  <2>6. CASE row'[r] \in CallbackStatuses
    <3>1. row'[r] = "COMPLETED" => Wanted[r] = {} BY <2>4 DEF KeepsInv, WriteInv, Wants
    <3> QED BY <1>0, <2>3, <2>6, <3>1, SameWords DEF Contract!Step, Contract!Ends
  <2>7. CASE row'[r] \notin {"UPLOADING"} \cup CallbackStatuses
    <3>1. row'[r] \notin SyncedStatuses \cup {"ABSENT"}
      BY <2>4, <2>7 DEF CallbackStatuses, SyncedStatuses, Statuses
    <3> QED BY <1>0, <2>3, <2>4, <3>1, SameWords DEF Contract!Step, Contract!Progresses
  <2> QED BY <2>5, <2>6, <2>7
<1> QED BY <1>1, <1>2

LEMMA ReturnKeeps ==
  ASSUME RunAssumption, TypeOK, KeepsInv, SyncReturn, NEW r \in Runs
  PROVE  Contract!Step(r) \/ Contract!Rests(r)
<1>0. row' = row BY DEF SyncReturn
<1>1. posted'[r] = IF sync.out[r] = "none" THEN posted[r] ELSE Append(posted[r], sync.out[r])
  BY DEF SyncReturn
<1>2. CASE sync.out[r] = "none" BY <1>0, <1>1, <1>2 DEF Contract!Rests
<1>3. CASE sync.out[r] # "none"
  <2>1. /\ sync.out[r] \in CallbackStatuses /\ row[r] \in {sync.out[r], "ABSENT"}
        /\ posted[r] = <<>>
    BY <1>3 DEF KeepsInv, OutInv
  <2>2. posted'[r] = Append(<<>>, sync.out[r]) BY <1>1, <1>3, <2>1
  <2>3. \A x : Append(<<>>, x) = <<x>> OBVIOUS
  <2>4. posted'[r] = <<sync.out[r]>> BY <2>2, <2>3
  <2>5. CASE row[r] = "ABSENT"
    BY <1>0, <2>1, <2>4, <2>5, SameWords DEF Contract!Step, Contract!TellsLate
  <2>6. CASE row[r] = sync.out[r]
    BY <1>0, <2>1, <2>4, <2>6, SameWords DEF Contract!Step, Contract!Tells
  <2> QED BY <2>1, <2>5, <2>6
<1> QED BY <1>2, <1>3

LEMMA WorkerKeeps ==
  ASSUME RunAssumption, TypeOK, KeepsInv, NEW w \in Workers, Worker(w), NEW t \in Runs
  PROVE  Contract!Step(t) \/ Contract!Rests(t)
<1> DEFINE r == wk[w].run
<1>0. row \in [Runs -> Statuses \cup {"ABSENT"}] /\ posted \in [Runs -> Seq(Statuses)]
  BY DEF TypeOK
<1>1. CASE MarkError(w) \/ Complete(w)
  <2>1. posted' = posted /\ r \in Runs BY <1>1 DEF MarkError, Complete, TypeOK
  <2>2. \/ row' = row
        \/ \E s \in {"COMPLETED", "ERROR"} : row' = [row EXCEPT ![r] = s] /\ row[r] # "ABSENT"
    BY <1>1 DEF MarkError, Complete
  <2>3. CASE row'[t] = row[t] BY <2>1, <2>3 DEF Contract!Rests
  <2>4. CASE row'[t] # row[t]
    <3>1. t = r /\ row[t] # "ABSENT" /\ row'[t] \in {"COMPLETED", "ERROR"}
      BY <1>0, <2>1, <2>2, <2>4
    <3>2. row[t] = "UPLOADING" BY <1>1, <3>1 DEF MarkError, Complete, KeepsInv, WorkerInv
    <3> QED BY <2>1, <3>1, <3>2 DEF Contract!Step, Contract!EndsUpload
  <2> QED BY <2>3, <2>4
<1>2. CASE TaskEnd(w)
  <2>1. row' = row /\ r \in Runs /\ posted[r] = <<>> /\ row[r] \in {"COMPLETED", "ERROR", "ABSENT"}
    BY <1>2 DEF TaskEnd, TypeOK, KeepsInv, WorkerInv
  <2>2. CASE row[r] = "ABSENT" \/ t # r
    <3>1. posted'[t] = posted[t] BY <1>0, <1>2, <2>2 DEF TaskEnd, Post
    <3> QED BY <2>1, <3>1 DEF Contract!Rests
  <2>3. CASE row[r] # "ABSENT" /\ t = r
    <3>1. posted'[t] = Append(posted[t], row[t]) BY <1>0, <1>2, <2>3 DEF TaskEnd, Post
    <3>2. posted'[t] = Append(<<>>, row[t]) BY <2>1, <2>3, <3>1
    <3>3. \A x : Append(<<>>, x) = <<x>> OBVIOUS
    <3>4. posted'[t] = <<row[t]>> BY <3>2, <3>3
    <3>5. row[t] \in CallbackStatuses BY <2>1, <2>3 DEF CallbackStatuses, SyncedStatuses
    <3> QED BY <2>1, <2>3, <3>4, <3>5, SameWords DEF Contract!Step, Contract!Tells
  <2> QED BY <2>2, <2>3
<1>3. CASE \/ TaskStart(w) \/ ListOutputs(w) \/ ListFails(w) \/ FileFails(w)
           \/ \E f \in Files : ImportFile(w, f)
  BY <1>3 DEF TaskStart, ListOutputs, ListFails, FileFails, ImportFile, Contract!Rests
<1> QED BY <1>1, <1>2, <1>3 DEF Worker

LEMMA ContractStep ==
  ASSUME RunAssumption, OnlyRemoves, TypeOK, TypeOK', LocksAreOfRows, KeepsInv, KeepsInv', [Next]_vars
  PROVE  [Contract!Next]_<<row, posted>>
<1> SUFFICES ASSUME NEW r \in Runs PROVE Contract!Step(r) \/ Contract!Rests(r)
  BY StepsOfContract DEF KeepsInv
<1>0. row \in [Runs -> Statuses \cup {"ABSENT"}] BY DEF TypeOK
<1>1. CASE SyncLoop
  <2>1. CASE ~SyncCommit /\ ~SyncReturn
    BY <1>1, <2>1 DEF SyncLoop, SyncSelect, SyncAborts, SyncFlush, SyncStale,
      SyncCommitStale, SyncCollect, SyncBackend, SyncPoll,
      Contract!Rests
  <2> QED BY <2>1, CommitKeeps, ReturnKeeps
<1>2. ASSUME NEW q \in Requests, Request(q) PROVE Contract!Step(r) \/ Contract!Rests(r)
  <2>1. CASE DeleteRow(q)
    <3>1. posted' = posted /\ (row'[r] = row[r] \/ row'[r] = "ABSENT")
      BY <1>0, <2>1 DEF DeleteRow
    <3>2. CASE row'[r] = row[r] BY <3>1, <3>2 DEF Contract!Rests
    <3>3. CASE row'[r] # row[r] BY <3>1, <3>3 DEF Contract!Step, Contract!Removed
    <3> QED BY <3>2, <3>3
  <2>2. CASE LoadRun(q) \/ RemoteDelete(q)
    BY <2>2 DEF LoadRun, RemoteDelete, Contract!Rests
  <2> QED BY <1>2, <2>1, <2>2, RemoveSteps
<1>3. ASSUME NEW w \in Workers, Worker(w) PROVE Contract!Step(r) \/ Contract!Rests(r)
  BY <1>3, WorkerKeeps
<1>4. ASSUME NEW t \in Runs, JobStep(t) PROVE Contract!Rests(r) BY <1>4 DEF JobStep, Contract!Rests
<1>5. CASE Faults
  BY <1>5 DEF Faults, WebRestart, ClearAllCache, SyncBrokerDown, SyncPollFails, CallFails,
    BrokerDown, WorkerKilled, Redelivered, Contract!Rests
<1>6. CASE UNCHANGED vars BY <1>6 DEF vars, Contract!Rests
<1> QED BY <1>1, <1>2, <1>3, <1>4, <1>5, <1>6 DEF Next

\* The sync loop, one worker and remove_run, with whatever faults, keep the contract of a run:
\* final statuses are final, an import ends COMPLETED or ERROR, and the webhook is called at
\* most once, with the status the run ended in.
THEOREM ContractKept == ASSUME LoneWorker, OnlyRemoves PROVE Spec => KeepsContract
<1>1. Init => KeepsInv /\ RemovedInv /\ Contract!Init
  <2> SUFFICES ASSUME Init PROVE KeepsInv /\ RemovedInv /\ Contract!Init OBVIOUS
  <2>1. Contract!Init BY DEF Init, Contract!Init
  <2> QED BY <2>1, KeepsInit, RemovedInit, RunAssumption
<1>2. TypeOK /\ TypeOK' /\ KeepsInv /\ RemovedInv /\ [Next]_vars
        => KeepsInv' /\ RemovedInv' /\ [Contract!Next]_<<row, posted>>
  BY KeepsStep, LocksStep, OnceStep, ContractStep, RunAssumption DEF RemovedInv
<1> QED BY <1>1, <1>2, TypeCorrect, PTL DEF Spec, KeepsContract, Contract!Spec
=============================================================================
