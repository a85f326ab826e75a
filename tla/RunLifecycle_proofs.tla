------------------------ MODULE RunLifecycle_proofs ------------------------
(***************************************************************************)
(* Theorems about RunLifecycle, for every set of runs, backends, requests, *)
(* workers and files and every bound on the faults.                        *)
(***************************************************************************)
EXTENDS RunLifecycle, TLAPS

LEMMA TypeInit == ASSUME RunAssumption, Init PROVE TypeOK
  BY DEF RunAssumption, Init, TypeOK, ReqRecord, SyncRecord, WorkerRecord, IdleSync,
         Unserved, IdleWorker, Statuses, JobStatuses, Writes

LEMMA AfterSyncType ==
  ASSUME NEW seen \in Statuses \cup {"ABSENT"}, NEW wants \in BOOLEAN, NEW answer
  PROVE  /\ AfterSync(seen, wants, answer) \in Statuses \cup {"ABSENT"}
         /\ AfterSync(seen, wants, answer) # seen => AfterSync(seen, wants, answer) \in Statuses
  BY DEF AfterSync, Statuses

LEMMA TurnsType ==
  ASSUME NEW q \in Requests, req \in [Requests -> ReqRecord],
         NEW pc \in {"done", "committed"}, Turns(q, pc)
  PROVE  req' \in [Requests -> ReqRecord]
  BY DEF Turns, Unserved, ReqRecord, Writes

LEMMA FlushedRequestType ==
  ASSUME NEW q \in Requests, req \in [Requests -> ReqRecord],
         NEW w \in Writes, NEW due \in BOOLEAN
  PROVE  [req EXCEPT ![q].pc = "flushed", ![q].write = w, ![q].due = due]
           \in [Requests -> ReqRecord]
<1> DEFINE s == [req[q] EXCEPT !.pc = "flushed", !.write = w, !.due = due]
<1>1. s \in ReqRecord BY DEF ReqRecord
<1>2. [req EXCEPT ![q].pc = "flushed", ![q].write = w, ![q].due = due]
        = [req EXCEPT ![q] = s]
  OBVIOUS
<1> HIDE DEF s
<1> QED BY <1>1, <1>2

LEMMA EndsType ==
  ASSUME NEW q \in Requests, req \in [Requests -> ReqRecord], Ends(q)
  PROVE  req' \in [Requests -> ReqRecord]
  BY TurnsType DEF Ends

LEMMA PostType ==
  ASSUME NEW r \in Runs, NEW s \in Statuses, posted \in [Runs -> Seq(Statuses)], Post(r, s)
  PROVE  posted' \in [Runs -> Seq(Statuses)]
  BY DEF Post

LEMMA EnqueueType ==
  ASSUME NEW r \in Runs, queued \in [Runs -> Nat], Enqueue(r) \/ UNCHANGED queued
  PROVE  queued' \in [Runs -> Nat]
  BY DEF Enqueue

LEMMA TypeRequest ==
  ASSUME RunAssumption, TypeOK, NEW q \in Requests, Request(q) PROVE TypeOK'
<1> USE DEF TypeOK
<1>0. /\ Target[q] \in Runs /\ Target \in [Requests -> Runs]
      /\ req[q] \in ReqRecord /\ req \in [Requests -> ReqRecord]
  BY DEF RunAssumption
<1>1. CASE SubmitJob(q)
  <2>1. req' \in [Requests -> ReqRecord] BY <1>0, <1>1 DEF SubmitJob, ReqRecord
  <2>2. job' \in [Runs -> JobStatuses \cup {"NONE", "GONE"}]
    BY <1>0, <1>1 DEF SubmitJob, JobStatuses, Statuses
  <2> QED BY <1>1, <2>1, <2>2 DEF SubmitJob
<1>2. CASE InsertRow(q)
  BY <1>0, <1>2, EndsType DEF InsertRow, Statuses
<1>3. CASE LoadRun(q)
  <2>1. req' \in [Requests -> ReqRecord] BY <1>0, <1>3 DEF LoadRun, ReqRecord
  <2> QED BY <1>3, <2>1 DEF LoadRun
<1>4. CASE PollJob(q)
  <2>1. CASE JobExists(Target[q])
    <3>1. Answer(Target[q]) \in JobStatuses BY <1>0, <2>1 DEF JobExists, Answer
    <3>2. req' = [req EXCEPT ![q].pc = "answered", ![q].answer = Answer(Target[q])]
      BY <1>4, <2>1 DEF PollJob
    <3>3. req' \in [Requests -> ReqRecord] BY <1>0, <3>1, <3>2 DEF ReqRecord
    <3> QED BY <1>4, <3>3 DEF PollJob
  <2>2. CASE ~JobExists(Target[q])
    BY <1>0, <1>4, <2>2, EndsType DEF PollJob
  <2> QED BY <2>1, <2>2
<1>5. CASE CancelJob(q)
  <2>1. job' \in [Runs -> JobStatuses \cup {"NONE", "GONE"}]
    BY <1>0, <1>5 DEF CancelJob, JobStatuses, Statuses
  <2>2. Answer(Target[q])' \in JobStatuses \cup {"404"}
    BY <1>0, <2>1 DEF JobExists, Answer
  <2>3. req' \in [Requests -> ReqRecord] BY <1>0, <1>5, <2>2 DEF CancelJob, ReqRecord
  <2> QED BY <1>5, <2>1, <2>3 DEF CancelJob
<1>6. CASE CancelRefused(q) BY <1>0, <1>6, EndsType DEF CancelRefused
<1>7. CASE Flush(q)
  <2> DEFINE s == AfterSync(req[q].seen, Wants(Target[q]), req[q].answer)
  <2>1. PICK dirty \in BOOLEAN :
          LET w == IF s # req[q].seen THEN s ELSE IF dirty THEN "same" ELSE "none"
          IN  req' = [req EXCEPT
                        ![q].pc = "flushed", ![q].write = w,
                        ![q].due = CallbackDue(req[q].seen, Wants(Target[q]), req[q].answer)]
    BY <1>7 DEF Flush
  <2>2. s # req[q].seen => s \in Statuses
    BY <1>0, AfterSyncType DEF ReqRecord, Wants
  <2>3. CallbackDue(req[q].seen, Wants(Target[q]), req[q].answer) \in BOOLEAN
    BY DEF CallbackDue
  <2> HIDE DEF s
  <2>4. PICK w \in Writes, due \in BOOLEAN :
          req' = [req EXCEPT ![q].pc = "flushed", ![q].write = w, ![q].due = due]
    BY <2>1, <2>2, <2>3 DEF Writes
  <2>5. req' \in [Requests -> ReqRecord] BY <1>0, <2>4, FlushedRequestType
  <2>6. Enqueue(Target[q]) \/ UNCHANGED queued BY <1>7 DEF Flush
  <2>7. queued' \in [Runs -> Nat] BY <1>0, <2>6, EnqueueType
  <2> QED BY <1>7, <2>5, <2>7 DEF Flush
<1>8. CASE FlushStale(q) BY <1>0, <1>8, EndsType DEF FlushStale
<1>9. CASE Commit(q)
  <2>1. row' \in [Runs -> Statuses \cup {"ABSENT"}] BY <1>0, <1>9 DEF Commit, Write
  <2> QED BY <1>0, <1>9, <2>1, TurnsType DEF Commit
<1>10. CASE CancelMissing(q)
  <2>1. row' \in [Runs -> Statuses \cup {"ABSENT"}]
    BY <1>0, <1>10 DEF CancelMissing, Statuses
  <2>2. req' \in [Requests -> ReqRecord]
    BY <1>0, <1>10, EndsType, TurnsType DEF CancelMissing
  <2> QED BY <1>10, <2>1, <2>2 DEF CancelMissing
<1>11. CASE Notify(q)
  <2>1. CASE row[Target[q]] = "ABSENT" BY <1>0, <1>11, <2>1, EndsType DEF Notify
  <2>2. CASE row[Target[q]] # "ABSENT"
    BY <1>0, <1>11, <2>2, PostType, EndsType DEF Notify
  <2> QED BY <2>1, <2>2
<1>12. CASE RemoteDelete(q)
  <2>1. req' \in [Requests -> ReqRecord] BY <1>0, <1>12 DEF RemoteDelete, ReqRecord
  <2>2. job' \in [Runs -> JobStatuses \cup {"NONE", "GONE"}] BY <1>12 DEF RemoteDelete
  <2> QED BY <1>12, <2>1, <2>2 DEF RemoteDelete
<1>13. CASE DeleteRow(q) BY <1>0, <1>13, EndsType DEF DeleteRow
<1> QED BY <1>1, <1>2, <1>3, <1>4, <1>5, <1>6, <1>7, <1>8, <1>9, <1>10, <1>11, <1>12, <1>13 DEF Request

----------------------------------------------------------------------------
LEMMA SyncIdleType == ASSUME RunAssumption PROVE IdleSync \in SyncRecord
  BY DEF RunAssumption, IdleSync, SyncRecord, Writes

LEMMA StaleType ==
  ASSUME NEW s \in SyncRecord, NEW write \in [Runs -> Writes]
  PROVE  [s EXCEPT !.pc = "backends", !.cur = NoRun, !.answer = "none", !.todo = {},
                   !.write = write, !.missing = {}, !.fired = {}, !.expired = s.batch]
           \in SyncRecord
  BY DEF SyncRecord

LEMMA PolledType ==
  ASSUME NEW s \in SyncRecord, NEW r \in Runs, NEW answer \in JobStatuses
  PROVE  [s EXCEPT !.pc = "answered", !.cur = r, !.answer = answer] \in SyncRecord
  BY DEF SyncRecord

LEMMA MissingType ==
  ASSUME NEW s \in SyncRecord, NEW r \in Runs
  PROVE  [s EXCEPT !.todo = @ \ {r}, !.missing = @ \cup {r}, !.fired = @ \cup {r}]
           \in SyncRecord
  BY DEF SyncRecord

LEMMA FlushedType ==
  ASSUME TypeOK, NEW w \in Writes PROVE Flushed(w) \in [Runs -> Writes]
  BY DEF Flushed, TypeOK, SyncRecord, Writes, Statuses

LEMMA AppliedType ==
  ASSUME TypeOK, NEW ws \in [Runs -> Writes],
         NEW missing \in SUBSET Runs, NEW fired \in SUBSET Runs,
         Applied(ws, missing, fired)
  PROVE  sync' \in SyncRecord /\ sync'.pc = "runs"
  BY DEF Applied, TypeOK, SyncRecord

LEMMA TypeSync ==
  ASSUME RunAssumption, TypeOK, SyncLoop PROVE TypeOK'
<1> USE DEF TypeOK, UnchangedBySync
<1>0. sync \in SyncRecord OBVIOUS
<1>1. CASE SyncSelect
  <2>1. sync' \in SyncRecord /\ sync'.pc = "backends"
    BY <1>1, SyncIdleType DEF SyncSelect, SyncRecord, NonTerminal, IdleSync
  <2> QED BY <1>1, <2>1 DEF SyncSelect
<1>2. CASE SyncAborts \/ SyncStale
  <2>1. sync' \in SyncRecord /\ sync'.pc = "idle"
    <3>1. sync' = IdleSync BY <1>2 DEF SyncAborts, SyncStale
    <3> QED BY <3>1, SyncIdleType DEF IdleSync
  <2> QED BY <1>2, <2>1 DEF SyncAborts, SyncStale
<1>3. CASE SyncFlush
  <2> DEFINE r == sync.cur
             s == AfterSync(sync.seen[r], Wants(r), sync.answer)
             fired == IF CallbackDue(sync.seen[r], Wants(r), sync.answer) THEN {r} ELSE {}
             w == IF s # sync.seen[r] THEN s ELSE "same"
  <2>1. r \in Runs /\ sync.seen[r] \in Statuses \cup {"ABSENT"}
    BY <1>3 DEF SyncFlush, SyncRecord
  <2>2. w \in Writes BY <2>1, AfterSyncType DEF Wants, Writes
  <2>3. fired \in SUBSET Runs /\ sync.missing \in SUBSET Runs /\ {} \in SUBSET Runs
        /\ sync.write \in [Runs -> Writes]
    BY <2>1 DEF SyncRecord
  <2>4. Flushed(w) \in [Runs -> Writes] BY <2>2, FlushedType
  <2>5. \/ Applied(sync.write, sync.missing, fired)
        \/ Applied(Flushed(w), {}, fired)
    BY <1>3 DEF SyncFlush
  <2>6. sync' \in SyncRecord /\ sync'.pc = "runs"
    <3> HIDE DEF fired, w
    <3> QED BY <2>3, <2>4, <2>5, AppliedType
  <2>7. queued' \in [Runs -> Nat]
    <3>1. Enqueue(r) \/ UNCHANGED queued BY <1>3 DEF SyncFlush
    <3> QED BY <2>1, <3>1, EnqueueType
  <2> QED BY <1>3, <2>6, <2>7 DEF SyncFlush
<1>4. CASE SyncCommitStale
  <2>1. sync' \in SyncRecord /\ sync'.pc = "backends"
    <3>1. IdleSync.write \in [Runs -> Writes] BY DEF IdleSync, Writes
    <3>2. sync' = [sync EXCEPT !.pc = "backends", !.cur = NoRun, !.answer = "none",
                               !.todo = {}, !.write = IdleSync.write, !.missing = {},
                               !.fired = {}, !.expired = sync.batch]
      BY <1>4 DEF SyncCommitStale
    <3>3. sync'.pc = "backends" BY <1>0, <3>2 DEF SyncRecord
    <3> QED BY <1>0, <3>1, <3>2, <3>3, StaleType
  <2> QED BY <1>4, <2>1 DEF SyncCommitStale
<1>5. CASE SyncCommit
  <2>1. sync' \in SyncRecord /\ sync'.pc = "collect"
    BY <1>5, SyncIdleType DEF SyncCommit, SyncRecord
  <2>2. row' \in [Runs -> Statuses \cup {"ABSENT"}] BY <1>5 DEF SyncCommit, Write
  <2> QED BY <1>5, <2>1, <2>2 DEF SyncCommit
<1>6. CASE SyncCollect
  <2> DEFINE out == [r \in Runs |-> IF r \in sync.fired THEN row[r] ELSE sync.out[r]]
  <2>1. out \in [Runs -> Statuses \cup {"none"}]
    BY <1>6 DEF SyncCollect, SyncRecord
  <2>2. sync' = [sync EXCEPT !.pc = "backends", !.fired = {},
                             !.expired = @ \ sync.fired, !.out = out]
    BY <1>6 DEF SyncCollect
  <2>3. sync' \in SyncRecord /\ sync'.pc = "backends"
    <3> HIDE DEF out
    <3> QED BY <2>1, <2>2 DEF SyncRecord
  <2> QED BY <1>6, <2>3 DEF SyncCollect
<1>7. CASE SyncReturn
  <2>1. sync' \in SyncRecord /\ sync'.pc = "idle"
    BY <1>7, SyncIdleType DEF SyncReturn, IdleSync
  <2>2. posted' \in [Runs -> Seq(Statuses)]
    <3>1. ASSUME NEW r \in Runs, sync.out[r] # "none"
          PROVE  Append(posted[r], sync.out[r]) \in Seq(Statuses)
      <4>1. sync.out[r] \in Statuses BY <3>1 DEF SyncRecord
      <4> QED BY <4>1
    <3> QED BY <1>7, <3>1 DEF SyncReturn
  <2> QED BY <1>7, <2>1, <2>2 DEF SyncReturn
<1>8. ASSUME NEW b \in Backends, SyncBackend(b) PROVE TypeOK'
  <2>1. sync' \in SyncRecord /\ sync'.pc # "answered"
    BY <1>8 DEF SyncBackend, SyncRecord
  <2> QED BY <1>8, <2>1 DEF SyncBackend
<1>9. ASSUME NEW r \in Runs, SyncPoll(r) PROVE TypeOK'
  <2>1. sync.pc = "runs" BY <1>9 DEF SyncPoll
  <2>2. CASE JobExists(r)
    <3>1. Answer(r) \in JobStatuses BY <2>2 DEF JobExists, Answer
    <3>2. sync' = [sync EXCEPT !.pc = "answered", !.cur = r, !.answer = Answer(r)]
      BY <1>9, <2>2 DEF SyncPoll
    <3>3. sync' \in SyncRecord BY <1>0, <3>1, <3>2, PolledType
    <3>4. sync'.cur \in Runs /\ sync'.answer \in JobStatuses
      BY <1>0, <3>1, <3>2 DEF SyncRecord
    <3> QED BY <1>9, <3>3, <3>4 DEF SyncPoll
  <2>3. CASE ~JobExists(r)
    <3>1. sync' = [sync EXCEPT !.todo = @ \ {r}, !.missing = @ \cup {r},
                               !.fired = @ \cup {r}]
      BY <1>9, <2>3 DEF SyncPoll
    <3>2. sync'.pc = "runs" BY <1>0, <2>1, <3>1 DEF SyncRecord
    <3>3. sync' \in SyncRecord BY <1>0, <3>1, MissingType
    <3> QED BY <1>9, <3>2, <3>3 DEF SyncPoll
  <2> QED BY <2>2, <2>3
<1> QED BY <1>1, <1>2, <1>3, <1>4, <1>5, <1>6, <1>7, <1>8, <1>9 DEF SyncLoop

----------------------------------------------------------------------------
WorkersOK ==
  /\ wk \in [Workers -> WorkerRecord]
  /\ \A v \in Workers : wk[v].pc # "idle" => wk[v].run \in Runs

\* One worker moves to a well-formed session.
LEMMA WorkerMoves ==
  ASSUME WorkersOK, NEW w \in Workers, NEW rec \in WorkerRecord,
         rec.pc # "idle" => rec.run \in Runs,
         wk' = [wk EXCEPT ![w] = rec]
  PROVE  WorkersOK'
  BY DEF WorkersOK

LEMMA WorkerIdles ==
  ASSUME WorkersOK, NEW w \in Workers, wk' = [wk EXCEPT ![w] = IdleWorker]
  PROVE  WorkersOK'
<1>1. IdleWorker \in WorkerRecord /\ IdleWorker.pc = "idle"
  BY DEF IdleWorker, WorkerRecord
<1> QED BY <1>1, WorkerMoves

LEMMA GivesUpType ==
  ASSUME TypeOK, WorkersOK, NEW w \in Workers, wk[w].pc # "idle",
         NEW seen \in Statuses \cup {"ABSENT"}, NEW tx \in SUBSET Files,
         GivesUp(w, seen, tx)
  PROVE  WorkersOK'
<1>1. CASE row[wk[w].run] = "ABSENT" BY <1>1, WorkerIdles DEF GivesUp
<1>2. CASE row[wk[w].run] # "ABSENT"
  <2> DEFINE rec == [wk[w] EXCEPT !.pc = "failing", !.seen = seen, !.todo = {}, !.tx = tx]
  <2>1. rec \in WorkerRecord /\ rec.run \in Runs
    BY DEF WorkersOK, WorkerRecord
  <2>2. wk' = [wk EXCEPT ![w] = rec] BY <1>2 DEF GivesUp, WorkersOK
  <2> HIDE DEF rec
  <2> QED BY <2>1, <2>2, WorkerMoves
<1> QED BY <1>1, <1>2

LEMMA InsertsType ==
  ASSUME TypeOK, NEW w \in Workers, Inserts(w) \/ UNCHANGED nets
  PROVE  nets' \in [Files -> Nat]
<1>1. CASE Inserts(w)
  <2>1. nets' = [f \in Files |-> IF f \in wk[w].tx THEN nets[f] + 1 ELSE nets[f]]
    BY <1>1 DEF Inserts
  <2>2. \A f \in Files : nets[f] \in Nat /\ nets[f] + 1 \in Nat BY DEF TypeOK
  <2> QED BY <2>1, <2>2
<1>2. CASE UNCHANGED nets BY <1>2 DEF TypeOK
<1> QED BY <1>1, <1>2

LEMMA TypeWorker ==
  ASSUME RunAssumption, TypeOK, NEW w \in Workers, Worker(w) PROVE TypeOK'
<1> USE DEF TypeOK, UnchangedByWorker
<1>0. WorkersOK /\ wk[w] \in WorkerRecord BY DEF WorkersOK
<1>1. CASE TaskStart(w)
  <2>1. PICK r \in Runs :
          /\ queued[r] > 0
          /\ queued' = [queued EXCEPT ![r] = @ - 1]
          /\ wk' = IF Importable(r)
                     THEN [wk EXCEPT ![w].pc = "outputs", ![w].run = r,
                                     ![w].seen = "UPLOADING"]
                     ELSE wk
    BY <1>1 DEF TaskStart
  <2>2. queued' \in [Runs -> Nat] BY <2>1
  <2>3. WorkersOK'
    <3>1. CASE Importable(r)
      <4> DEFINE rec == [wk[w] EXCEPT !.pc = "outputs", !.run = r, !.seen = "UPLOADING"]
      <4>1. rec \in WorkerRecord /\ rec.run \in Runs BY <1>0 DEF WorkerRecord, Statuses
      <4>2. wk' = [wk EXCEPT ![w] = rec] BY <2>1, <3>1
      <4> HIDE DEF rec
      <4> QED BY <1>0, <4>1, <4>2, WorkerMoves
    <3>2. CASE ~Importable(r) BY <1>0, <2>1, <3>2 DEF WorkersOK
    <3> QED BY <3>1, <3>2
  <2> QED BY <1>1, <2>2, <2>3 DEF TaskStart, WorkersOK
<1>2. CASE ListOutputs(w)
  <2>1. Selected(wk[w].run) \subseteq Files
    BY <1>2 DEF ListOutputs, Selected, RunAssumption
  <2>2. WorkersOK'
    <3> DEFINE rec == [wk[w] EXCEPT !.pc = "files", !.todo = Selected(wk[w].run)]
    <3>1. rec \in WorkerRecord /\ rec.run \in Runs
      BY <1>0, <1>2, <2>1 DEF ListOutputs, WorkerRecord
    <3>2. wk' = [wk EXCEPT ![w] = rec] BY <1>2 DEF ListOutputs
    <3> HIDE DEF rec
    <3> QED BY <1>0, <3>1, <3>2, WorkerMoves
  <2> QED BY <1>2, <2>2 DEF ListOutputs, WorkersOK
<1>3. CASE ListFails(w)
  <2>1. faults' \in 0..MaxFaults BY <1>3 DEF ListFails, Fault, RunAssumption
  <2>2. WorkersOK'
    BY <1>0, <1>3, GivesUpType DEF ListFails, WorkerRecord, Statuses
  <2> QED BY <1>3, <2>1, <2>2 DEF ListFails, WorkersOK
<1>4. CASE FileFails(w)
  <2>1. faults' \in 0..MaxFaults BY <1>4 DEF FileFails, Fault, RunAssumption
  <2>2. disk' \in [Files -> Nat] BY <1>0, <1>4 DEF FileFails, Moved, WorkerRecord
  <2>3. wk[w].pc # "idle" /\ row[wk[w].run] \in Statuses \cup {"ABSENT"}
    BY <1>4 DEF FileFails
  <2>4. WorkersOK'
    <3>1. GivesUp(w, row[wk[w].run], {}) /\ {} \in SUBSET Files
      BY <1>4 DEF FileFails, AfterRollback
    <3> HIDE DEF TypeOK
    <3> QED BY <1>0, <2>3, <3>1, GivesUpType
  <2> QED BY <1>4, <2>1, <2>2, <2>4 DEF FileFails, WorkersOK
<1>5. CASE MarkError(w)
  <2>1. row' \in [Runs -> Statuses \cup {"ABSENT"}] BY <1>5 DEF MarkError, Statuses
  <2>2. WorkersOK'
    <3> DEFINE rec == [wk[w] EXCEPT !.pc = "committed", !.tx = {}]
    <3>1. rec \in WorkerRecord /\ rec.run \in Runs
      BY <1>0, <1>5 DEF MarkError, WorkerRecord
    <3>2. wk' = [wk EXCEPT ![w] = IdleWorker] \/ wk' = [wk EXCEPT ![w] = rec]
      BY <1>5 DEF MarkError
    <3> HIDE DEF rec
    <3> QED BY <1>0, <3>1, <3>2, WorkerIdles, WorkerMoves
  <2>3. nets' \in [Files -> Nat] BY <1>5, InsertsType DEF MarkError
  <2> QED BY <1>5, <2>1, <2>2, <2>3 DEF MarkError, WorkersOK
<1>6. CASE Complete(w)
  <2>1. row' \in [Runs -> Statuses \cup {"ABSENT"}] BY <1>6 DEF Complete, Statuses
  <2>2. WorkersOK'
    <3> DEFINE rec == [wk[w] EXCEPT !.pc = "committed", !.tx = {}]
    <3>1. rec \in WorkerRecord /\ rec.run \in Runs
      BY <1>0, <1>6 DEF Complete, WorkerRecord
    <3>2. wk' = [wk EXCEPT ![w] = IdleWorker] \/ wk' = [wk EXCEPT ![w] = rec]
      BY <1>6 DEF Complete
    <3> HIDE DEF rec
    <3> QED BY <1>0, <3>1, <3>2, WorkerIdles, WorkerMoves
  <2>3. nets' \in [Files -> Nat] BY <1>6, InsertsType DEF Complete
  <2> QED BY <1>6, <2>1, <2>2, <2>3 DEF Complete, WorkersOK
<1>7. CASE TaskEnd(w)
  <2>1. posted' \in [Runs -> Seq(Statuses)]
    <3>1. wk[w].run \in Runs BY <1>7 DEF TaskEnd
    <3>2. CASE row[wk[w].run] = "ABSENT" BY <1>7, <3>2 DEF TaskEnd
    <3>3. CASE row[wk[w].run] # "ABSENT" BY <1>7, <3>1, <3>3, PostType DEF TaskEnd
    <3> QED BY <3>2, <3>3
  <2>2. WorkersOK'
    BY <1>0, <1>7, WorkerIdles DEF TaskEnd
  <2> QED BY <1>7, <2>1, <2>2 DEF TaskEnd, WorkersOK
<1>8. ASSUME NEW f \in Files, ImportFile(w, f) PROVE TypeOK'
  <2>1. disk' \in [Files -> Nat] BY <1>8 DEF ImportFile, Moved
  <2>2. WorkersOK'
    <3> DEFINE known == [wk[w] EXCEPT !.todo = @ \ {f}]
               new == [wk[w] EXCEPT !.todo = @ \ {f}, !.tx = @ \cup {f}]
    <3>1. /\ known \in WorkerRecord /\ known.run \in Runs
          /\ new \in WorkerRecord /\ new.run \in Runs
      BY <1>0, <1>8 DEF ImportFile, WorkerRecord
    <3>2. wk' = [wk EXCEPT ![w] = known] \/ wk' = [wk EXCEPT ![w] = new]
      BY <1>8 DEF ImportFile
    <3> HIDE DEF known, new
    <3> QED BY <1>0, <3>1, <3>2, WorkerMoves
  <2> QED BY <1>8, <2>1, <2>2 DEF ImportFile, WorkersOK
<1> QED BY <1>1, <1>2, <1>3, <1>4, <1>5, <1>6, <1>7, <1>8 DEF Worker

----------------------------------------------------------------------------
LEMMA TypeFault ==
  ASSUME RunAssumption, TypeOK, Faults PROVE TypeOK'
<1> USE DEF TypeOK
<1>0. /\ sync \in SyncRecord /\ WorkersOK
      /\ IdleSync \in SyncRecord /\ IdleSync.pc = "idle"
      /\ Target \in [Requests -> Runs]
  BY SyncIdleType DEF WorkersOK, IdleSync, RunAssumption
<1>f. ASSUME Fault PROVE faults' \in 0..MaxFaults
  BY <1>f DEF Fault, RunAssumption
<1>1. CASE WebRestart
  <2>1. req' \in [Requests -> ReqRecord]
    BY <1>1 DEF WebRestart, ReqRecord, Unserved, Writes
  <2>2. WorkersOK' /\ queued' \in [Runs -> Nat]
    BY <1>0, <1>1 DEF WebRestart, WorkersOK, IdleWorker, WorkerRecord
  <2> QED BY <1>0, <1>f, <1>1, <2>1, <2>2 DEF WebRestart, WorkersOK
<1>2. CASE ClearAllCache BY <1>f, <1>2 DEF ClearAllCache
<1>3. CASE SyncBrokerDown
  <2>1. Flushed("UPLOADING") \in [Runs -> Writes] BY FlushedType DEF Writes, Statuses
  <2>2. sync' \in SyncRecord /\ sync'.pc = "runs"
    <3>1. Applied(Flushed("UPLOADING"), {}, {}) /\ {} \in SUBSET Runs
      BY <1>3 DEF SyncBrokerDown
    <3> HIDE DEF TypeOK
    <3> QED BY <2>1, <3>1, AppliedType
  <2> QED BY <1>f, <1>3, <2>2 DEF SyncBrokerDown, UnchangedBySync
<1>4. ASSUME NEW r \in Runs, SyncPollFails(r) PROVE TypeOK'
  <2>1. sync' \in SyncRecord /\ sync'.pc = "runs"
    BY <1>0, <1>4 DEF SyncPollFails, SyncRecord
  <2> QED BY <1>f, <1>4, <2>1 DEF SyncPollFails, UnchangedBySync
<1>5. ASSUME NEW q \in Requests, CallFails(q) PROVE TypeOK'
  <2>1. job' \in [Runs -> JobStatuses \cup {"NONE", "GONE"}]
    BY <1>0, <1>5 DEF CallFails, JobStatuses, Statuses
  <2> QED BY <1>f, <1>5, <2>1, EndsType DEF CallFails
<1>6. ASSUME NEW q \in Requests, BrokerDown(q) PROVE TypeOK'
  BY <1>f, <1>6, EndsType DEF BrokerDown
<1>7. ASSUME NEW w \in Workers, WorkerKilled(w) PROVE TypeOK'
  <2>1. queued' \in [Runs -> Nat] BY <1>7, EnqueueType DEF WorkerKilled
  <2>2. WorkersOK' BY <1>0, <1>7, WorkerIdles DEF WorkerKilled
  <2> QED BY <1>f, <1>7, <2>1, <2>2 DEF WorkerKilled, WorkersOK, UnchangedByWorker
<1>8. ASSUME NEW w \in Workers, Redelivered(w) PROVE TypeOK'
  BY <1>f, <1>8, EnqueueType DEF Redelivered, UnchangedByWorker
<1> QED BY <1>1, <1>2, <1>3, <1>4, <1>5, <1>6, <1>7, <1>8 DEF Faults

\* The state is well-formed in every behaviour of the rows, jobs, sessions, queue and
\* workers (models.RunStatus; the columns of runs and networks).
THEOREM TypeCorrect == Spec => []TypeOK
<1>1. Init => TypeOK BY TypeInit, RunAssumption
<1>2. TypeOK /\ [Next]_vars => TypeOK'
  <2> SUFFICES ASSUME TypeOK, [Next]_vars PROVE TypeOK' OBVIOUS
  <2>1. CASE SyncLoop BY <2>1, TypeSync, RunAssumption
  <2>2. ASSUME NEW q \in Requests, Request(q) PROVE TypeOK' BY <2>2, TypeRequest, RunAssumption
  <2>3. ASSUME NEW w \in Workers, Worker(w) PROVE TypeOK' BY <2>3, TypeWorker, RunAssumption
  <2>4. ASSUME NEW r \in Runs, JobStep(r) PROVE TypeOK'
    <3>1. JobSuccessors(job[r]) \subseteq JobStatuses \cup {"GONE"}
      BY DEF JobSuccessors, JobStatuses, Statuses
    <3>2. job' \in [Runs -> JobStatuses \cup {"NONE", "GONE"}]
      BY <2>4, <3>1 DEF JobStep, TypeOK
    <3> QED BY <2>4, <3>2 DEF JobStep, TypeOK
  <2>5. CASE Faults BY <2>5, TypeFault, RunAssumption
  <2>6. CASE UNCHANGED vars BY <2>6 DEF vars, TypeOK
  <2> QED BY <2>1, <2>2, <2>3, <2>4, <2>5, <2>6 DEF Next
<1> QED BY <1>1, <1>2, PTL DEF Spec

-----------------------------------------------------------------------------
(***************************************************************************)
(* The database never runs ahead of the backend: SettledMeansOver and      *)
(* StoredMeansSubmitted for every value of the constants.  Neither is      *)
(* inductive, because a session writes what it loaded or was answered many *)
(* steps ago; SnapshotsAreSound says that what it holds was true and that  *)
(* the end of a job is final.                                              *)
(***************************************************************************)
SettledInv == SettledMeansOver /\ StoredMeansSubmitted /\ SnapshotsAreSound

\* No step takes back that a job exists or that it ended.
JobsGrow ==
  \A r \in Runs : (Over(r) => Over(r)') /\ (job[r] # "NONE" => job'[r] # "NONE")

LEMMA FinishedValues ==
  /\ Finished = {"COMPLETED", "FAILED", "ERROR", "CANCELLED"}
  /\ Active = {"PENDING", "SETUP", "RUNNING"}
  BY DEF Finished, Active, JobStatuses, Statuses, SyncedStatuses

LEMMA SameJobsGrow == ASSUME UNCHANGED job PROVE JobsGrow
  BY DEF JobsGrow, Over

\* One job moves, and not backwards.
LEMMA JobMoves ==
  ASSUME TypeOK, NEW r \in Runs, NEW s, job' = [job EXCEPT ![r] = s], s # "NONE",
         Over(r) => s \in Finished \cup {"GONE"}
  PROVE  JobsGrow
  BY DEF JobsGrow, Over, TypeOK

LEMMA Monotone == ASSUME RunAssumption, TypeOK, [Next]_vars PROVE JobsGrow
<1> USE DEF TypeOK
<1>t. Target \in [Requests -> Runs] BY DEF RunAssumption
<1>1. CASE SyncLoop
  BY <1>1, SameJobsGrow DEF SyncLoop, SyncSelect, SyncAborts, SyncFlush, SyncStale,
    SyncCommitStale, SyncCommit,
    SyncCollect, SyncReturn, SyncBackend, SyncPoll, UnchangedBySync
<1>2. ASSUME NEW q \in Requests, Request(q) PROVE JobsGrow
  <2>1. CASE SubmitJob(q)
    BY <1>t, <2>1, JobMoves, FinishedValues DEF SubmitJob, Over
  <2>2. CASE CancelJob(q)
    <3>1. CASE UNCHANGED job BY <3>1, SameJobsGrow
    <3>2. CASE job[Target[q]] \in Active /\ job' = [job EXCEPT ![Target[q]] = "CANCELLED"]
      BY <1>t, <3>2, JobMoves, FinishedValues DEF Over
    <3> QED BY <2>2, <3>1, <3>2 DEF CancelJob
  <2>3. CASE RemoteDelete(q)
    <3>1. CASE UNCHANGED job BY <3>1, SameJobsGrow
    <3>2. CASE job' = [job EXCEPT ![Target[q]] = "GONE"]
      BY <1>t, <3>2, JobMoves DEF Over
    <3> QED BY <2>3, <3>1, <3>2 DEF RemoteDelete
  <2> QED BY <1>2, <2>1, <2>2, <2>3, SameJobsGrow
    DEF Request, InsertRow, LoadRun, PollJob, CancelRefused, Flush, FlushStale, Commit,
        CancelMissing, Notify, DeleteRow
<1>3. ASSUME NEW w \in Workers, Worker(w) PROVE JobsGrow
  BY <1>3, SameJobsGrow DEF Worker, TaskStart, ListOutputs, ListFails, FileFails, MarkError,
    Complete, TaskEnd, ImportFile, UnchangedByWorker
<1>4. ASSUME NEW r \in Runs, JobStep(r) PROVE JobsGrow
  <2>1. PICK s \in JobSuccessors(job[r]) : job' = [job EXCEPT ![r] = s] BY <1>4 DEF JobStep
  <2>2. s # "NONE" /\ (Over(r) => s \in Finished \cup {"GONE"})
    BY <2>1, FinishedValues DEF JobSuccessors, Over
  <2> QED BY <2>1, <2>2, JobMoves
<1>5. CASE Faults
  <2>1. ASSUME NEW q \in Requests, CallFails(q) PROVE JobsGrow
    <3>1. CASE UNCHANGED job BY <3>1, SameJobsGrow
    <3>2. CASE job[Target[q]] \in Active /\ job' = [job EXCEPT ![Target[q]] = "CANCELLED"]
      BY <1>t, <3>2, JobMoves, FinishedValues DEF Over
    <3>3. CASE job[Target[q]] = "NONE" /\ job' = [job EXCEPT ![Target[q]] = "PENDING"]
      BY <1>t, <3>3, JobMoves, FinishedValues DEF Over
    <3> QED BY <2>1, <3>1, <3>2, <3>3 DEF CallFails
  <2> QED BY <1>5, <2>1, SameJobsGrow
    DEF Faults, WebRestart, ClearAllCache, SyncBrokerDown, SyncPollFails, BrokerDown,
        WorkerKilled, Redelivered, UnchangedBySync, UnchangedByWorker
<1>6. CASE UNCHANGED vars BY <1>6, SameJobsGrow DEF vars
<1> QED BY <1>1, <1>2, <1>3, <1>4, <1>5, <1>6 DEF Next

----------------------------------------------------------------------------
(* The pure decisions never invent an end.                                 *)

LEMMA SyncedByAnswer ==
  ASSUME NEW seen, NEW wants, NEW answer \in JobStatuses,
         AfterSync(seen, wants, answer) # seen,
         AfterSync(seen, wants, answer) \in SyncedStatuses
  PROVE  answer \in Finished
  BY FinishedValues DEF AfterSync, StartsImport, ImportPending, SyncedStatuses, JobStatuses, Statuses

LEMMA DueByAnswer ==
  ASSUME NEW seen, NEW wants, NEW answer \in JobStatuses, CallbackDue(seen, wants, answer)
  PROVE  answer \in Finished
  BY SyncedByAnswer DEF CallbackDue, CallbackStatuses

LEMMA ImportByAnswer ==
  ASSUME NEW seen, NEW wants, NEW answer, StartsImport(seen, wants, answer)
  PROVE  answer \in Finished
  BY FinishedValues DEF StartsImport, ImportPending

----------------------------------------------------------------------------
(* Parts of the invariant that a step leaves alone.                        *)

RequestsSound == \A q \in Requests : RequestSound(req[q], Target[q])
WorkersSound == \A w \in Workers : wk[w].pc # "idle" => Over(wk[w].run)

RowsSound == SettledMeansOver /\ StoredMeansSubmitted

LEMMA RequestsStay ==
  ASSUME RunAssumption, JobsGrow, RequestsSound, UNCHANGED req PROVE RequestsSound'
  BY DEF RunAssumption, RequestsSound, RequestSound, JobsGrow

LEMMA SyncStays ==
  ASSUME TypeOK, JobsGrow, SyncSound, UNCHANGED sync PROVE SyncSound'
  BY DEF TypeOK, SyncSound, SyncRecord, JobsGrow

LEMMA WorkersStay ==
  ASSUME TypeOK, JobsGrow, WorkersSound, UNCHANGED wk PROVE WorkersSound'
  BY DEF TypeOK, WorkersSound, JobsGrow

LEMMA RowsStay ==
  ASSUME JobsGrow, RowsSound, UNCHANGED <<row, queued, posted>> PROVE RowsSound'
  BY DEF RowsSound, SettledMeansOver, StoredMeansSubmitted, JobsGrow

\* One request moves to a session that says of its run what is true.
LEMMA RequestMoves ==
  ASSUME RunAssumption, JobsGrow, RequestsSound, req \in [Requests -> ReqRecord],
         NEW q \in Requests, NEW rec, req' = [req EXCEPT ![q] = rec],
         rec.seen \in SyncedStatuses => Over(Target[q])',
         rec.answer \in Finished \cup {"404"} => Over(Target[q])',
         rec.write \in SyncedStatuses \/ rec.due \/ rec.pc = "committed" => Over(Target[q])',
         rec.pc \notin {"unused", "done"} => job'[Target[q]] # "NONE"
  PROVE  RequestsSound'
<1>1. ASSUME NEW p \in Requests, p # q PROVE RequestSound(req[p], Target[p])'
  <2>1. req'[p] = req[p] /\ Target[p] \in Runs BY <1>1 DEF RunAssumption
  <2> QED BY <2>1 DEF RequestsSound, RequestSound, JobsGrow
<1>2. req'[q] = rec OBVIOUS
<1>3. RequestSound(req[q], Target[q])' BY <1>2 DEF RequestSound
<1> QED BY <1>1, <1>3 DEF RequestsSound

LEMMA RequestTurns ==
  ASSUME RunAssumption, JobsGrow, RequestsSound, req \in [Requests -> ReqRecord],
         NEW q \in Requests, NEW pc, Turns(q, pc),
         pc # "done" => Over(Target[q])' /\ job'[Target[q]] # "NONE"
  PROVE  RequestsSound'
<1> DEFINE rec == [Unserved EXCEPT !.pc = pc]
<1>1. /\ rec.seen = "ABSENT" /\ rec.answer = "none" /\ rec.write = "none"
      /\ rec.due = FALSE /\ rec.pc = pc
  BY DEF Unserved
<1>2. req' = [req EXCEPT ![q] = rec] BY DEF Turns
<1>3. /\ "ABSENT" \notin SyncedStatuses /\ "none" \notin SyncedStatuses
      /\ "none" \notin Finished \cup {"404"}
  BY FinishedValues DEF SyncedStatuses
<1> HIDE DEF rec
<1> QED BY <1>1, <1>2, <1>3, RequestMoves

LEMMA RequestEnds ==
  ASSUME RunAssumption, JobsGrow, RequestsSound, req \in [Requests -> ReqRecord],
         NEW q \in Requests, Ends(q)
  PROVE  RequestsSound'
  BY RequestTurns DEF Ends

----------------------------------------------------------------------------
LEMMA SettledRequest ==
  ASSUME RunAssumption, TypeOK, JobsGrow, SyncSound, WorkersSound, RowsSound,
         RequestsSound, NEW q \in Requests, Request(q)
  PROVE  SyncSound' /\ WorkersSound' /\ RowsSound' /\ RequestsSound'
<1> DEFINE r == Target[q]
<1>0. /\ r \in Runs /\ req[q] \in ReqRecord /\ req \in [Requests -> ReqRecord]
      /\ row \in [Runs -> Statuses \cup {"ABSENT"}] /\ queued \in [Runs -> Nat]
      /\ posted \in [Runs -> Seq(Statuses)]
  BY DEF RunAssumption, TypeOK
<1>1. SyncSound' /\ WorkersSound'
  <2>1. UNCHANGED sync /\ UNCHANGED wk
    BY DEF Request, SubmitJob, InsertRow, LoadRun, PollJob, CancelJob, CancelRefused, Flush,
      FlushStale, Commit, CancelMissing, Notify, RemoteDelete, DeleteRow
  <2> QED BY <2>1, SyncStays, WorkersStay
<1>2. /\ req[q].seen \in SyncedStatuses => Over(r)
      /\ req[q].answer \in Finished \cup {"404"} => Over(r)
      /\ req[q].write \in SyncedStatuses \/ req[q].due \/ req[q].pc = "committed" => Over(r)
      /\ req[q].pc \notin {"unused", "done"} => job[r] # "NONE"
  BY DEF RequestsSound, RequestSound
<1>3. (Over(r) => Over(r)') /\ (job[r] # "NONE" => job'[r] # "NONE") BY <1>0 DEF JobsGrow
<1>4. /\ row[r] \in SyncedStatuses => Over(r)
      /\ row[r] # "ABSENT" => job[r] # "NONE"
  BY <1>0 DEF RowsSound, SettledMeansOver, StoredMeansSubmitted
<1> HIDE DEF r
<1>5. CASE SubmitJob(q)
  <2> DEFINE rec == [req[q] EXCEPT !.pc = "answered"]
  <2>1. req' = [req EXCEPT ![q] = rec] /\ job'[r] # "NONE"
    BY <1>0, <1>5 DEF SubmitJob, r, TypeOK
  <2>2. /\ rec.seen = req[q].seen /\ rec.answer = req[q].answer
        /\ rec.write = req[q].write /\ rec.due = req[q].due /\ rec.pc = "answered"
    BY <1>0 DEF ReqRecord
  <2> HIDE DEF rec
  <2>3. req[q].pc = "unused" BY <1>5 DEF SubmitJob
  <2>4. RequestsSound' BY <1>0, <1>2, <1>3, <2>1, <2>2, <2>3, RequestMoves DEF r
  <2> QED BY <1>1, <1>5, <2>4, RowsStay DEF SubmitJob
<1>6. CASE InsertRow(q)
  <2>1. RequestsSound' BY <1>0, <1>6, RequestEnds DEF InsertRow
  <2>2. RowsSound'
    BY <1>0, <1>2, <1>3, <1>6 DEF InsertRow, RowsSound, SettledMeansOver, StoredMeansSubmitted,
      JobsGrow, SyncedStatuses, r
  <2> QED BY <1>1, <2>1, <2>2
<1>7. CASE LoadRun(q)
  <2> DEFINE rec == [req[q] EXCEPT !.pc = "loaded", !.seen = row[r]]
  <2>1. req' = [req EXCEPT ![q] = rec] /\ row[r] # "ABSENT"
    BY <1>0, <1>7 DEF LoadRun, r
  <2>2. /\ rec.seen = row[r] /\ rec.answer = req[q].answer
        /\ rec.write = req[q].write /\ rec.due = req[q].due /\ rec.pc = "loaded"
    BY <1>0 DEF ReqRecord
  <2> HIDE DEF rec
  <2>3. RequestsSound' BY <1>0, <1>2, <1>3, <1>4, <2>1, <2>2, RequestMoves DEF r
  <2> QED BY <1>1, <1>7, <2>3, RowsStay DEF LoadRun
<1>8. CASE PollJob(q)
  <2>1. RowsSound' BY <1>8, RowsStay DEF PollJob
  <2>2. CASE JobExists(r)
    <3> DEFINE rec == [req[q] EXCEPT !.pc = "answered", !.answer = Answer(r)]
    <3>1. req' = [req EXCEPT ![q] = rec] BY <1>8, <2>2 DEF PollJob, r
    <3>2. /\ rec.seen = req[q].seen /\ rec.answer = Answer(r)
          /\ rec.write = req[q].write /\ rec.due = req[q].due /\ rec.pc = "answered"
      BY <1>0 DEF ReqRecord
    <3>3. Answer(r) \in Finished \cup {"404"} => Over(r)
      BY <1>0, <2>2 DEF Answer, Over, JobExists, TypeOK, JobStatuses, Statuses
    <3>4. req[q].pc = "loaded" BY <1>8 DEF PollJob
    <3> HIDE DEF rec
    <3>5. RequestsSound' BY <1>0, <1>2, <1>3, <3>1, <3>2, <3>3, <3>4, RequestMoves DEF r
    <3> QED BY <1>1, <2>1, <3>5
  <2>3. CASE ~JobExists(r) BY <1>0, <1>1, <1>8, <2>1, <2>3, RequestEnds DEF PollJob, r
  <2> QED BY <2>2, <2>3
<1>9. CASE CancelJob(q)
  <2> DEFINE rec == [req[q] EXCEPT !.pc = "answered", !.answer = Answer(r)']
  <2>1. req' = [req EXCEPT ![q] = rec] BY <1>9 DEF CancelJob, r
  <2>2. /\ rec.seen = req[q].seen /\ rec.answer = Answer(r)'
        /\ rec.write = req[q].write /\ rec.due = req[q].due /\ rec.pc = "answered"
    BY <1>0 DEF ReqRecord
  <2>3. job[r] # "NONE" /\ req[q].pc = "loaded" BY <1>2, <1>9 DEF CancelJob
  <2>4. Answer(r)' \in Finished \cup {"404"} => Over(r)'
    <3>1. job'[r] \in JobStatuses \cup {"NONE", "GONE"}
      BY <1>0, TypeRequest DEF TypeOK
    <3> QED BY <1>3, <2>3, <3>1 DEF Answer, Over, JobExists, JobStatuses, Statuses
  <2> HIDE DEF rec
  <2>5. RequestsSound' BY <1>0, <1>2, <1>3, <2>1, <2>2, <2>3, <2>4, RequestMoves DEF r
  <2> QED BY <1>1, <1>9, <2>5, RowsStay DEF CancelJob
<1>10. CASE CancelRefused(q) \/ FlushStale(q)
  BY <1>0, <1>1, <1>10, RequestEnds, RowsStay DEF CancelRefused, FlushStale
<1>11. CASE Flush(q)
  <2> DEFINE s == AfterSync(req[q].seen, Wants(r), req[q].answer)
             due == CallbackDue(req[q].seen, Wants(r), req[q].answer)
  <2>1. PICK dirty \in BOOLEAN :
          req' = [req EXCEPT
                    ![q].pc = "flushed",
                    ![q].write = IF s # req[q].seen THEN s
                                 ELSE IF dirty THEN "same" ELSE "none",
                    ![q].due = due]
    BY <1>11 DEF Flush, r
  <2> DEFINE w == IF s # req[q].seen THEN s ELSE IF dirty THEN "same" ELSE "none"
             rec == [req[q] EXCEPT !.pc = "flushed", !.write = w, !.due = due]
  <2>2. req' = [req EXCEPT ![q] = rec] BY <1>0, <2>1
  <2>3. /\ rec.seen = req[q].seen /\ rec.answer = req[q].answer
        /\ rec.write = w /\ rec.due = due /\ rec.pc = "flushed"
    BY <1>0 DEF ReqRecord
  <2>4. /\ req[q].pc = "answered" /\ req[q].answer \in JobStatuses
        /\ StartsImport(req[q].seen, Wants(r), req[q].answer) \/ UNCHANGED queued
        /\ Enqueue(r) \/ UNCHANGED queued
        /\ UNCHANGED <<row, posted>>
    BY <1>11 DEF Flush, r
  <2>5. w \in SyncedStatuses => Over(r)
    BY <1>2, <2>4, SyncedByAnswer DEF SyncedStatuses
  <2>6. due => Over(r) BY <1>2, <2>4, DueByAnswer
  <2> HIDE DEF rec, w, due, s
  <2>7. RequestsSound' BY <1>0, <1>2, <1>3, <2>2, <2>3, <2>4, <2>5, <2>6, RequestMoves DEF r
  <2>8. RowsSound'
    <3>1. CASE UNCHANGED queued BY <2>4, <3>1, RowsStay
    <3>2. CASE Enqueue(r) /\ Over(r)
      BY <1>0, <1>3, <2>4, <3>2
      DEF RowsSound, SettledMeansOver, StoredMeansSubmitted, JobsGrow, Enqueue
    <3> QED BY <1>2, <2>4, <3>1, <3>2, ImportByAnswer
  <2> QED BY <1>1, <2>7, <2>8
<1>12. CASE Commit(q)
  <2>1. RequestsSound' BY <1>0, <1>2, <1>3, <1>12, RequestTurns DEF Commit, r
  <2>2. row' = [row EXCEPT ![r] = Write(row[r], req[q].write)] /\ UNCHANGED <<queued, posted>>
    BY <1>0, <1>12 DEF Commit, r
  <2>3. /\ Write(row[r], req[q].write) \in SyncedStatuses => Over(r)
        /\ job[r] # "NONE"
    BY <1>2, <1>4, <1>12 DEF Commit, Write
  <2>4. RowsSound'
    BY <1>0, <1>3, <2>2, <2>3 DEF RowsSound, SettledMeansOver, StoredMeansSubmitted, JobsGrow
  <2> QED BY <1>1, <2>1, <2>4
<1>13. CASE CancelMissing(q)
  <2>1. Over(r) /\ job[r] # "NONE" /\ UNCHANGED <<queued, posted>>
    BY <1>2, <1>13 DEF CancelMissing
  <2>2. RequestsSound'
    BY <1>0, <1>3, <1>13, <2>1, RequestTurns, RequestEnds DEF CancelMissing, r
  <2>3. UNCHANGED row \/ row' = [row EXCEPT ![r] = "CANCELLED"] BY <1>13 DEF CancelMissing, r
  <2>4. RowsSound'
    BY <1>0, <1>3, <2>1, <2>3 DEF RowsSound, SettledMeansOver, StoredMeansSubmitted, JobsGrow
  <2> QED BY <1>1, <2>2, <2>4
<1>14. CASE Notify(q)
  <2>1. Over(r) /\ UNCHANGED <<row, queued>> BY <1>2, <1>14 DEF Notify
  <2>2. UNCHANGED posted \/ posted' = [posted EXCEPT ![r] = Append(@, row[r])]
    BY <1>14 DEF Notify, Post, r
  <2>3. RowsSound'
    <3>1. \A t \in Runs : t # r => posted'[t] = posted[t] BY <1>0, <2>2
    <3> QED BY <1>0, <1>3, <2>1, <3>1
        DEF RowsSound, SettledMeansOver, StoredMeansSubmitted, JobsGrow
  <2>4. RequestsSound' BY <1>0, <1>14, RequestEnds DEF Notify
  <2> QED BY <1>1, <2>3, <2>4
<1>15. CASE RemoteDelete(q)
  <2> DEFINE rec == [req[q] EXCEPT !.pc = "answered"]
  <2>1. req' = [req EXCEPT ![q] = rec] /\ req[q].pc = "loaded" BY <1>15 DEF RemoteDelete
  <2>2. /\ rec.seen = req[q].seen /\ rec.answer = req[q].answer
        /\ rec.write = req[q].write /\ rec.due = req[q].due /\ rec.pc = "answered"
    BY <1>0 DEF ReqRecord
  <2> HIDE DEF rec
  <2>3. RequestsSound' BY <1>0, <1>2, <1>3, <2>1, <2>2, RequestMoves DEF r
  <2> QED BY <1>1, <1>15, <2>3, RowsStay DEF RemoteDelete
<1>16. CASE DeleteRow(q)
  <2>1. RequestsSound' BY <1>0, <1>16, RequestEnds DEF DeleteRow
  <2>2. row' = [row EXCEPT ![r] = "ABSENT"] /\ UNCHANGED <<queued, posted>>
    BY <1>16 DEF DeleteRow, r
  <2>3. RowsSound'
    BY <1>0, <1>3, <2>2
    DEF RowsSound, SettledMeansOver, StoredMeansSubmitted, JobsGrow, SyncedStatuses
  <2> QED BY <1>1, <2>1, <2>3
<1> QED BY <1>5, <1>6, <1>7, <1>8, <1>9, <1>10, <1>11, <1>12, <1>13, <1>14, <1>15, <1>16
    DEF Request

----------------------------------------------------------------------------
LEMMA IdleSyncSound == ASSUME sync' = IdleSync PROVE SyncSound'
<1>1. /\ \A r \in Runs : /\ sync'.seen[r] = "ABSENT" /\ sync'.write[r] = "none"
                         /\ sync'.out[r] = "none"
      /\ sync'.missing = {} /\ sync'.fired = {} /\ sync'.batch = {} /\ sync'.todo = {}
      /\ sync'.pc = "idle"
  BY DEF IdleSync
<1> QED BY <1>1 DEF SyncSound, SyncedStatuses

\* A flush writes the status of a finished job, or ERROR for a job that is gone.
LEMMA FlushedSound ==
  ASSUME TypeOK, SyncSound, NEW w, NEW r \in Runs,
         r = sync.cur /\ w # "none" => job[r] # "NONE",
         r = sync.cur /\ w \in SyncedStatuses => Over(r)
  PROVE  /\ Flushed(w)[r] \in SyncedStatuses => Over(r)
         /\ Flushed(w)[r] # "none" => job[r] # "NONE"
<1>1. CASE r = sync.cur
  <2>1. Flushed(w)[r] = w BY <1>1 DEF Flushed
  <2> QED BY <1>1, <2>1
<1>2. CASE r # sync.cur /\ r \in Dirty
  <2>1. Over(r) BY <1>2 DEF Dirty, SyncSound
  <2> QED BY <2>1, FinishedValues DEF Over
<1>3. CASE r # sync.cur /\ r \notin Dirty
  <2>1. Flushed(w)[r] = sync.write[r] BY <1>3 DEF Flushed
  <2> QED BY <2>1 DEF SyncSound
<1> QED BY <1>1, <1>2, <1>3

LEMMA AppliedSound ==
  ASSUME TypeOK, JobsGrow, SyncSound, NEW ws, NEW missing, NEW fired,
         Applied(ws, missing, fired),
         missing \subseteq sync.missing, fired \subseteq Runs,
         \A r \in Runs : /\ ws[r] \in SyncedStatuses => Over(r)
                         /\ ws[r] # "none" => job[r] # "NONE",
         \A r \in fired : Over(r)
  PROVE  SyncSound'
<1>1. /\ sync \in SyncRecord
      /\ sync'.seen = sync.seen /\ sync'.write = ws /\ sync'.out = sync.out
      /\ sync'.missing = missing /\ sync'.fired = sync.fired \cup fired
      /\ sync'.batch = sync.batch /\ sync'.todo \subseteq sync.todo /\ sync'.pc = "runs"
  BY DEF Applied, SyncRecord, TypeOK
<1>2. ASSUME NEW r \in Runs
      PROVE  /\ sync'.seen[r] \in SyncedStatuses \/ sync'.write[r] \in SyncedStatuses
                   \/ sync'.out[r] # "none" => Over(r)'
             /\ r \in sync'.batch \cup sync'.todo \/ sync'.write[r] # "none"
                   => job'[r] # "NONE"
  <2>1. /\ sync'.seen[r] = sync.seen[r] /\ sync'.out[r] = sync.out[r]
        /\ sync'.write[r] = ws[r]
        /\ r \in sync'.batch \cup sync'.todo => r \in sync.batch \cup sync.todo
    BY <1>1
  <2>2. /\ sync.seen[r] \in SyncedStatuses \/ sync.out[r] # "none" => Over(r)
        /\ r \in sync.batch \cup sync.todo => job[r] # "NONE"
    BY DEF SyncSound
  <2>3. (Over(r) => Over(r)') /\ (job[r] # "NONE" => job'[r] # "NONE") BY DEF JobsGrow
  <2> QED BY <2>1, <2>2, <2>3
<1>3. \A r \in sync'.missing \cup sync'.fired : Over(r)'
  BY <1>1 DEF SyncSound, JobsGrow, SyncRecord
<1> QED BY <1>1, <1>2, <1>3 DEF SyncSound

LEMMA SettledSync ==
  ASSUME RunAssumption, TypeOK, JobsGrow, SyncSound, WorkersSound, RowsSound,
         RequestsSound, SyncLoop
  PROVE  SyncSound' /\ WorkersSound' /\ RowsSound' /\ RequestsSound'
<1>0. /\ sync \in SyncRecord /\ row \in [Runs -> Statuses \cup {"ABSENT"}]
      /\ queued \in [Runs -> Nat] /\ posted \in [Runs -> Seq(Statuses)]
  BY DEF TypeOK
<1>1. WorkersSound' /\ RequestsSound'
  <2>1. UNCHANGED wk /\ UNCHANGED req
    BY DEF SyncLoop, SyncSelect, SyncAborts, SyncFlush, SyncStale,
      SyncCommitStale, SyncCommit, SyncCollect,
      SyncReturn, SyncBackend, SyncPoll, UnchangedBySync
  <2> QED BY <2>1, WorkersStay, RequestsStay
<1>2. \A r \in Runs : /\ row[r] \in SyncedStatuses => Over(r)
                      /\ row[r] # "ABSENT" => job[r] # "NONE"
  BY DEF RowsSound, SettledMeansOver, StoredMeansSubmitted
<1>3. CASE SyncSelect
  <2>1. /\ sync'.seen = row /\ sync'.batch = NonTerminal /\ sync'.todo = {}
        /\ sync'.missing = {} /\ sync'.fired = {} /\ sync'.pc = "backends"
        /\ \A r \in Runs : sync'.write[r] = "none" /\ sync'.out[r] = "none"
    BY <1>3 DEF SyncSelect, IdleSync
  <2>2. \A r \in NonTerminal : r \in Runs /\ row[r] # "ABSENT"
    BY FinishedValues DEF NonTerminal
  <2>3. SyncSound' BY <1>2, <2>1, <2>2 DEF SyncSound, JobsGrow, SyncedStatuses
  <2> QED BY <1>1, <1>3, <2>3, RowsStay DEF SyncSelect
<1>4. CASE SyncAborts \/ SyncStale
  BY <1>1, <1>4, IdleSyncSound, RowsStay DEF SyncAborts, SyncStale
<1>5. CASE SyncFlush
  <2> DEFINE r == sync.cur
             s == AfterSync(sync.seen[r], Wants(r), sync.answer)
             w == IF s # sync.seen[r] THEN s ELSE "same"
             fired == IF CallbackDue(sync.seen[r], Wants(r), sync.answer) THEN {r} ELSE {}
  <2>1. /\ r \in Runs /\ sync.answer \in JobStatuses
        /\ sync.answer \in Finished => Over(r)
        /\ job[r] # "NONE"
    BY <1>5 DEF SyncFlush, TypeOK, SyncSound
  <2>2. w \in SyncedStatuses => Over(r) BY <2>1, SyncedByAnswer DEF SyncedStatuses
  <2>3. fired \subseteq Runs /\ \A t \in fired : Over(t) BY <2>1, DueByAnswer
  <2>4. \/ Applied(sync.write, sync.missing, fired)
        \/ Applied(Flushed(w), {}, fired)
    BY <1>5 DEF SyncFlush
  <2>5. /\ StartsImport(sync.seen[r], Wants(r), sync.answer) \/ UNCHANGED queued
        /\ Enqueue(r) \/ UNCHANGED queued
        /\ UNCHANGED <<row, posted>>
    BY <1>5 DEF SyncFlush
  <2>6. StartsImport(sync.seen[r], Wants(r), sync.answer) => Over(r)
    BY <2>1, ImportByAnswer
  <2> HIDE DEF fired, w, s
  <2>7. SyncSound'
    <3>1. \A t \in Runs : /\ sync.write[t] \in SyncedStatuses => Over(t)
                          /\ sync.write[t] # "none" => job[t] # "NONE"
      BY DEF SyncSound
    <3>2. \A t \in Runs : /\ Flushed(w)[t] \in SyncedStatuses => Over(t)
                          /\ Flushed(w)[t] # "none" => job[t] # "NONE"
      BY <2>1, <2>2, FlushedSound
    <3> QED BY <2>3, <2>4, <3>1, <3>2, AppliedSound
  <2>8. RowsSound'
    <3>1. CASE UNCHANGED queued BY <2>5, <3>1, RowsStay
    <3>2. CASE Enqueue(r) /\ Over(r)
      BY <1>0, <2>1, <2>5, <3>2
      DEF RowsSound, SettledMeansOver, StoredMeansSubmitted, JobsGrow, Enqueue
    <3> QED BY <2>5, <2>6, <3>1, <3>2
  <2> QED BY <1>1, <2>7, <2>8
<1>6. CASE SyncCommitStale
  <2>1. /\ sync'.seen = sync.seen /\ sync'.out = sync.out /\ sync'.batch = sync.batch
        /\ sync'.todo = {} /\ sync'.missing = {} /\ sync'.fired = {} /\ sync'.pc = "backends"
        /\ \A r \in Runs : sync'.write[r] = "none"
    BY <1>0, <1>6 DEF SyncCommitStale, SyncRecord, IdleSync
  <2>2. SyncSound' BY <1>0, <2>1 DEF SyncSound, JobsGrow, SyncRecord, SyncedStatuses
  <2> QED BY <1>1, <1>6, <2>2, RowsStay DEF SyncCommitStale
<1>7. CASE SyncCommit
  <2>1. /\ sync'.seen = sync.seen /\ sync'.out = sync.out /\ sync'.batch = sync.batch
        /\ sync'.todo = sync.todo /\ sync'.missing = {} /\ sync'.fired = sync.fired
        /\ sync'.pc = "collect" /\ \A r \in Runs : sync'.write[r] = "none"
    BY <1>0, <1>7 DEF SyncCommit, SyncRecord, IdleSync
  <2>2. SyncSound' BY <1>0, <2>1 DEF SyncSound, JobsGrow, SyncRecord, SyncedStatuses
  <2>3. \A r \in Runs : /\ Flushed("none")[r] \in SyncedStatuses => Over(r)
                        /\ Flushed("none")[r] # "none" => job[r] # "NONE"
    BY FlushedSound DEF SyncedStatuses
  <2>4. \A r \in Runs : row'[r] = Write(row[r], Flushed("none")[r]) BY <1>7 DEF SyncCommit
  <2>5. \A r \in Runs : /\ row'[r] \in SyncedStatuses => Over(r)
                        /\ row'[r] # "ABSENT" => job[r] # "NONE"
    BY <1>2, <2>3, <2>4 DEF Write, Statuses
  <2>6. RowsSound'
    BY <1>7, <2>5 DEF SyncCommit, RowsSound, SettledMeansOver, StoredMeansSubmitted, JobsGrow
  <2> QED BY <1>1, <2>2, <2>6
<1>8. CASE SyncCollect
  <2>1. /\ sync'.seen = sync.seen /\ sync'.write = sync.write /\ sync'.batch = sync.batch
        /\ sync'.todo = sync.todo /\ sync'.missing = sync.missing /\ sync'.fired = {}
        /\ sync'.pc = "backends"
        /\ \A r \in Runs : sync'.out[r] = IF r \in sync.fired THEN row[r] ELSE sync.out[r]
    BY <1>0, <1>8 DEF SyncCollect, SyncRecord
  <2>2. SyncSound' BY <1>0, <2>1 DEF SyncSound, JobsGrow, SyncRecord
  <2> QED BY <1>1, <1>8, <2>2, RowsStay DEF SyncCollect
<1>9. CASE SyncReturn
  <2>1. \A r \in Runs : sync.out[r] # "none" => Over(r) BY DEF SyncSound
  <2>2. \A r \in Runs : posted'[r] = IF sync.out[r] = "none" THEN posted[r]
                                     ELSE Append(posted[r], sync.out[r])
    BY <1>9 DEF SyncReturn
  <2>3. RowsSound'
    BY <1>9, <2>1, <2>2
    DEF SyncReturn, RowsSound, SettledMeansOver, StoredMeansSubmitted, JobsGrow
  <2> QED BY <1>1, <1>9, <2>3, IdleSyncSound DEF SyncReturn
<1>10. ASSUME NEW b \in Backends, SyncBackend(b) PROVE SyncSound' /\ RowsSound'
  <2>1. /\ sync'.write = sync.write /\ sync'.batch = sync.batch /\ sync'.out = sync.out
        /\ sync'.todo \subseteq sync.batch /\ sync'.missing = sync.missing
        /\ sync'.fired = sync.fired /\ sync'.pc # "answered"
        /\ \A r \in Runs : sync'.seen[r] = IF r \in sync.expired THEN row[r] ELSE sync.seen[r]
    BY <1>0, <1>10 DEF SyncBackend, SyncRecord
  <2>2. \A r \in Runs : sync'.seen[r] \in SyncedStatuses => Over(r)'
    BY <1>2, <2>1 DEF SyncSound, JobsGrow
  <2>3. \A r \in Runs : sync'.write[r] \in SyncedStatuses \/ sync'.out[r] # "none" => Over(r)'
    BY <2>1 DEF SyncSound, JobsGrow
  <2>4. \A r \in sync'.missing \cup sync'.fired : Over(r)'
    BY <1>0, <2>1 DEF SyncSound, JobsGrow, SyncRecord
  <2>5. \A r \in Runs : r \in sync'.batch \cup sync'.todo \/ sync'.write[r] # "none"
                         => job'[r] # "NONE"
    BY <2>1 DEF SyncSound, JobsGrow
  <2>6. SyncSound' BY <2>1, <2>2, <2>3, <2>4, <2>5 DEF SyncSound
  <2> QED BY <1>10, <2>6, RowsStay DEF SyncBackend
<1>11. ASSUME NEW r \in Runs, SyncPoll(r) PROVE SyncSound' /\ RowsSound'
  <2>0. job[r] # "NONE" BY <1>11 DEF SyncPoll, SyncSound
  <2>1. CASE JobExists(r)
    <3>1. /\ sync'.seen = sync.seen /\ sync'.write = sync.write /\ sync'.batch = sync.batch
          /\ sync'.todo = sync.todo /\ sync'.missing = sync.missing
          /\ sync'.fired = sync.fired /\ sync'.out = sync.out
          /\ sync'.cur = r /\ sync'.answer = job[r]
      BY <1>0, <1>11, <2>1 DEF SyncPoll, SyncRecord, Answer
    <3>2. SyncSound' BY <1>0, <2>0, <3>1 DEF SyncSound, JobsGrow, SyncRecord, Over
    <3> QED BY <1>11, <3>2, RowsStay DEF SyncPoll
  <2>2. CASE ~JobExists(r)
    <3>1. /\ sync'.seen = sync.seen /\ sync'.write = sync.write /\ sync'.batch = sync.batch
          /\ sync'.todo \subseteq sync.todo /\ sync'.missing = sync.missing \cup {r}
          /\ sync'.fired = sync.fired \cup {r} /\ sync'.out = sync.out /\ sync'.pc = "runs"
      BY <1>0, <1>11, <2>2 DEF SyncPoll, SyncRecord
    <3>2. Over(r) BY <2>0, <2>2 DEF JobExists, Over
    <3>3. SyncSound' BY <1>0, <3>1, <3>2 DEF SyncSound, JobsGrow, SyncRecord
    <3> QED BY <1>11, <3>3, RowsStay DEF SyncPoll
  <2> QED BY <2>1, <2>2
<1> QED BY <1>1, <1>3, <1>4, <1>5, <1>6, <1>7, <1>8, <1>9, <1>10, <1>11 DEF SyncLoop

----------------------------------------------------------------------------
LEMMA WorkerStays ==
  ASSUME TypeOK, JobsGrow, WorkersSound, NEW w \in Workers,
         \A v \in Workers \ {w} : wk'[v] = wk[v],
         wk'[w].pc # "idle" => wk'[w].run \in Runs /\ Over(wk'[w].run)
  PROVE  WorkersSound'
<1>1. ASSUME NEW v \in Workers, wk'[v].pc # "idle" PROVE Over(wk[v].run)'
  <2>1. CASE v = w BY <1>1, <2>1 DEF JobsGrow, Over
  <2>2. CASE v # w
    <3>1. wk'[v] = wk[v] /\ wk[v].run \in Runs BY <1>1, <2>2 DEF TypeOK
    <3> QED BY <1>1, <3>1 DEF WorkersSound, JobsGrow, Over
  <2> QED BY <2>1, <2>2
<1> QED BY <1>1 DEF WorkersSound

\* A worker writes and tells only about a run whose import is under way.
LEMMA RowOfWorker ==
  ASSUME TypeOK, JobsGrow, RowsSound, NEW r \in Runs, Over(r), UNCHANGED queued,
         \A t \in Runs \ {r} : row'[t] = row[t] /\ posted'[t] = posted[t]
  PROVE  RowsSound'
<1>1. job[r] # "NONE" BY FinishedValues DEF Over
<1> QED BY <1>1 DEF RowsSound, SettledMeansOver, StoredMeansSubmitted, JobsGrow

LEMMA SettledWorker ==
  ASSUME RunAssumption, TypeOK, JobsGrow, SyncSound, WorkersSound, RowsSound,
         RequestsSound, NEW w \in Workers, Worker(w)
  PROVE  SyncSound' /\ WorkersSound' /\ RowsSound' /\ RequestsSound'
<1>0. /\ wk \in [Workers -> WorkerRecord] /\ wk[w] \in WorkerRecord
      /\ wk[w].pc # "idle" => wk[w].run \in Runs /\ Over(wk[w].run)
      /\ row \in [Runs -> Statuses \cup {"ABSENT"}] /\ queued \in [Runs -> Nat]
      /\ posted \in [Runs -> Seq(Statuses)]
  BY DEF TypeOK, WorkersSound
<1>1. SyncSound' /\ RequestsSound'
  <2>1. UNCHANGED sync /\ UNCHANGED req
    BY DEF Worker, TaskStart, ListOutputs, ListFails, FileFails, MarkError, Complete, TaskEnd,
      ImportFile, UnchangedByWorker
  <2> QED BY <2>1, SyncStays, RequestsStay
<1>2. CASE TaskStart(w)
  <2>1. PICK r \in Runs :
          /\ queued[r] > 0
          /\ queued' = [queued EXCEPT ![r] = @ - 1]
          /\ wk' = IF Importable(r)
                     THEN [wk EXCEPT ![w].pc = "outputs", ![w].run = r,
                                     ![w].seen = "UPLOADING"]
                     ELSE wk
    BY <1>2 DEF TaskStart
  <2>2. Over(r) BY <2>1 DEF RowsSound, SettledMeansOver
  <2>3. /\ \A v \in Workers \ {w} : wk'[v] = wk[v]
        /\ wk'[w].pc # "idle" => wk'[w].run \in Runs /\ Over(wk'[w].run)
    BY <1>0, <2>1, <2>2 DEF WorkerRecord
  <2>4. WorkersSound' BY <2>3, WorkerStays
  <2>5. \A t \in Runs : queued'[t] > 0 => queued[t] > 0 BY <1>0, <2>1
  <2>6. RowsSound'
    BY <1>2, <2>5 DEF TaskStart, RowsSound, SettledMeansOver, StoredMeansSubmitted, JobsGrow
  <2> QED BY <1>1, <2>4, <2>6
<1>3. ASSUME wk[w].pc # "idle", \A v \in Workers \ {w} : wk'[v] = wk[v],
             wk'[w] = IdleWorker \/ wk'[w].run = wk[w].run
      PROVE  WorkersSound'
  <2>1. wk'[w].pc # "idle" => wk'[w].run \in Runs /\ Over(wk'[w].run)
    BY <1>0, <1>3 DEF IdleWorker, Over
  <2> QED BY <1>3, <2>1, WorkerStays
<1>4. CASE ListOutputs(w)
  BY <1>0, <1>1, <1>3, <1>4, RowsStay DEF ListOutputs, WorkerRecord
<1>5. ASSUME NEW seen, NEW tx, GivesUp(w, seen, tx)
      PROVE  /\ \A v \in Workers \ {w} : wk'[v] = wk[v]
             /\ wk'[w] = IdleWorker \/ wk'[w].run = wk[w].run
  BY <1>0, <1>5 DEF GivesUp, WorkerRecord
<1>6. CASE ListFails(w)
  BY <1>1, <1>3, <1>5, <1>6, RowsStay DEF ListFails
<1>7. CASE FileFails(w)
  BY <1>1, <1>3, <1>5, <1>7, RowsStay DEF FileFails
<1>8. CASE MarkError(w)
  <2>0. /\ wk[w].pc = "failing"
        /\ \/ wk' = [wk EXCEPT ![w] = IdleWorker]
           \/ wk' = [wk EXCEPT ![w].pc = "committed", ![w].tx = {}]
    BY <1>8 DEF MarkError
  <2>1. wk[w].pc = "failing" /\ \A v \in Workers \ {w} : wk'[v] = wk[v]
    BY <1>0, <2>0
  <2>2. wk'[w] = IdleWorker \/ wk'[w].run = wk[w].run BY <1>0, <2>0 DEF WorkerRecord
  <2>3. RowsSound' BY <1>0, <1>8, <2>1, RowOfWorker DEF MarkError
  <2> QED BY <1>1, <1>3, <2>1, <2>2, <2>3
<1>9. CASE Complete(w)
  <2>0. /\ wk[w].pc = "files"
        /\ \/ wk' = [wk EXCEPT ![w] = IdleWorker]
           \/ wk' = [wk EXCEPT ![w].pc = "committed", ![w].tx = {}]
    BY <1>9 DEF Complete
  <2>1. wk[w].pc = "files" /\ \A v \in Workers \ {w} : wk'[v] = wk[v]
    BY <1>0, <2>0
  <2>2. wk'[w] = IdleWorker \/ wk'[w].run = wk[w].run BY <1>0, <2>0 DEF WorkerRecord
  <2>3. RowsSound' BY <1>0, <1>9, <2>1, RowOfWorker DEF Complete
  <2> QED BY <1>1, <1>3, <2>1, <2>2, <2>3
<1>10. CASE TaskEnd(w)
  <2>1. wk[w].pc = "committed" /\ \A v \in Workers \ {w} : wk'[v] = wk[v]
    BY <1>10 DEF TaskEnd
  <2>2. wk'[w] = IdleWorker BY <1>0, <1>10 DEF TaskEnd
  <2>3. RowsSound' BY <1>0, <1>10, <2>1, RowOfWorker DEF TaskEnd, Post
  <2> QED BY <1>1, <1>3, <2>1, <2>2, <2>3
<1>11. ASSUME NEW f \in Files, ImportFile(w, f) PROVE WorkersSound' /\ RowsSound'
  BY <1>0, <1>3, <1>11, RowsStay DEF ImportFile, WorkerRecord
<1> QED BY <1>1, <1>2, <1>4, <1>6, <1>7, <1>8, <1>9, <1>10, <1>11 DEF Worker

----------------------------------------------------------------------------
LEMMA QueueSound ==
  ASSUME TypeOK, JobsGrow, RowsSound, UNCHANGED <<row, posted>>,
         NEW r \in Runs, Over(r), Enqueue(r) \/ UNCHANGED queued
  PROVE  RowsSound'
  BY DEF TypeOK, RowsSound, SettledMeansOver, StoredMeansSubmitted, JobsGrow, Enqueue

LEMMA SettledFault ==
  ASSUME RunAssumption, TypeOK, JobsGrow, SyncSound, WorkersSound, RowsSound,
         RequestsSound, Faults
  PROVE  SyncSound' /\ WorkersSound' /\ RowsSound' /\ RequestsSound'
<1>0. /\ sync \in SyncRecord /\ req \in [Requests -> ReqRecord]
      /\ wk \in [Workers -> WorkerRecord]
      /\ \A w \in Workers : wk[w].pc # "idle" => wk[w].run \in Runs /\ Over(wk[w].run)
  BY DEF TypeOK, WorkersSound
<1>1. CASE WebRestart
  <2>1. SyncSound' BY <1>1, IdleSyncSound DEF WebRestart
  <2>2. WorkersSound'
    <3>1. CASE UNCHANGED wk BY <3>1, WorkersStay
    <3>2. CASE wk' = [w \in Workers |-> IdleWorker]
      BY <3>2 DEF WorkersSound, IdleWorker
    <3> QED BY <1>1, <3>1, <3>2 DEF WebRestart
  <2>3. UNCHANGED <<row, posted>> /\ \A r \in Runs : queued'[r] > 0 => queued[r] > 0
    BY <1>1 DEF WebRestart, TypeOK
  <2>4. RowsSound'
    BY <2>3 DEF RowsSound, SettledMeansOver, StoredMeansSubmitted, JobsGrow
  <2>5. \A q \in Requests :
          req'[q] = req[q] \/ req'[q] = [Unserved EXCEPT !.pc = "done"]
    BY <1>1 DEF WebRestart
  <2>6. RequestsSound'
    <3>1. ASSUME NEW q \in Requests, req'[q] = req[q] PROVE RequestSound(req[q], Target[q])'
      <4>1. Target[q] \in Runs BY DEF RunAssumption
      <4> QED BY <3>1, <4>1 DEF RequestsSound, RequestSound, JobsGrow
    <3>2. ASSUME NEW q \in Requests, req'[q] = [Unserved EXCEPT !.pc = "done"]
          PROVE  RequestSound(req[q], Target[q])'
      <4>1. /\ req'[q].seen = "ABSENT" /\ req'[q].answer = "none" /\ req'[q].write = "none"
            /\ req'[q].due = FALSE /\ req'[q].pc = "done"
        BY <3>2 DEF Unserved
      <4> QED BY <4>1, FinishedValues DEF RequestSound, SyncedStatuses
    <3> QED BY <2>5, <3>1, <3>2 DEF RequestsSound
  <2> QED BY <2>1, <2>2, <2>4, <2>6
<1>2. CASE ClearAllCache
  <2>1. RowsSound'
    BY <1>2 DEF ClearAllCache, RowsSound, SettledMeansOver, StoredMeansSubmitted, JobsGrow
  <2> QED BY <1>2, <2>1, RequestsStay, SyncStays, WorkersStay DEF ClearAllCache
<1>3. CASE SyncBrokerDown
  <2>1. /\ Applied(Flushed("UPLOADING"), {}, {}) /\ UNCHANGED <<row, queued, posted>>
        /\ UNCHANGED req /\ UNCHANGED wk
    BY <1>3 DEF SyncBrokerDown, UnchangedBySync
  <2>2. Over(sync.cur) /\ job[sync.cur] # "NONE"
    BY <1>3, ImportByAnswer DEF SyncBrokerDown, SyncSound
  <2>3. \A t \in Runs : /\ Flushed("UPLOADING")[t] \in SyncedStatuses => Over(t)
                        /\ Flushed("UPLOADING")[t] # "none" => job[t] # "NONE"
    BY <2>2, FlushedSound
  <2>4. SyncSound' BY <2>1, <2>3, AppliedSound
  <2> QED BY <2>1, <2>4, RequestsStay, WorkersStay, RowsStay
<1>4. ASSUME NEW r \in Runs, SyncPollFails(r)
      PROVE  SyncSound' /\ WorkersSound' /\ RowsSound' /\ RequestsSound'
  <2>1. /\ sync'.seen = sync.seen /\ sync'.write = sync.write /\ sync'.batch = sync.batch
        /\ sync'.todo \subseteq sync.todo /\ sync'.missing = sync.missing
        /\ sync'.fired = sync.fired /\ sync'.out = sync.out /\ sync'.pc = "runs"
    BY <1>0, <1>4 DEF SyncPollFails, SyncRecord
  <2>2. SyncSound' BY <1>0, <2>1 DEF SyncSound, JobsGrow, SyncRecord
  <2> QED BY <1>4, <2>2, RequestsStay, WorkersStay, RowsStay DEF SyncPollFails, UnchangedBySync
<1>5. ASSUME NEW q \in Requests, CallFails(q) \/ BrokerDown(q)
      PROVE  SyncSound' /\ WorkersSound' /\ RowsSound' /\ RequestsSound'
  BY <1>0, <1>5, RequestEnds, SyncStays, WorkersStay, RowsStay DEF CallFails, BrokerDown
<1>6. ASSUME NEW w \in Workers, WorkerKilled(w) \/ Redelivered(w)
      PROVE  SyncSound' /\ WorkersSound' /\ RowsSound' /\ RequestsSound'
  <2>1. /\ wk[w].pc # "idle"
        /\ Enqueue(wk[w].run) \/ UNCHANGED queued
        /\ UNCHANGED <<row, posted>> /\ UNCHANGED sync /\ UNCHANGED req
        /\ UNCHANGED wk \/ wk' = [wk EXCEPT ![w] = IdleWorker]
    BY <1>6 DEF WorkerKilled, Redelivered, UnchangedByWorker
  <2>2. WorkersSound'
    <3>1. CASE UNCHANGED wk BY <3>1, WorkersStay
    <3>2. CASE wk' = [wk EXCEPT ![w] = IdleWorker]
      <4>1. wk'[w].pc = "idle" /\ \A v \in Workers \ {w} : wk'[v] = wk[v]
        BY <1>0, <3>2 DEF IdleWorker
      <4> QED BY <4>1, WorkerStays
    <3> QED BY <2>1, <3>1, <3>2
  <2>3. RowsSound' BY <1>0, <2>1, QueueSound
  <2> QED BY <2>1, <2>2, <2>3, SyncStays, RequestsStay
<1> QED BY <1>1, <1>2, <1>3, <1>4, <1>5, <1>6 DEF Faults

----------------------------------------------------------------------------
LEMMA SettledInit == ASSUME RunAssumption, Init PROVE SettledInv
<1>1. SettledMeansOver /\ StoredMeansSubmitted
  BY DEF Init, SettledMeansOver, StoredMeansSubmitted, SyncedStatuses
<1>2. \A q \in Requests : RequestSound(req[q], Target[q])
  BY FinishedValues DEF Init, RequestSound, Unserved, SyncedStatuses
<1>3. SyncSound
  BY DEF Init, SyncSound, IdleSync, SyncedStatuses
<1>4. \A w \in Workers : wk[w].pc = "idle" BY DEF Init, IdleWorker
<1> QED BY <1>1, <1>2, <1>3, <1>4 DEF SettledInv, SnapshotsAreSound

LEMMA SettledStep ==
  ASSUME RunAssumption, TypeOK, SettledInv, [Next]_vars PROVE SettledInv'
<1>0. JobsGrow BY Monotone
<1>1. SyncSound /\ WorkersSound /\ RowsSound /\ RequestsSound
  BY DEF SettledInv, SnapshotsAreSound, WorkersSound, RowsSound, RequestsSound
<1> SUFFICES SyncSound' /\ WorkersSound' /\ RowsSound' /\ RequestsSound'
  BY DEF SettledInv, SnapshotsAreSound, WorkersSound, RowsSound, RequestsSound
<1>2. CASE SyncLoop BY <1>0, <1>1, <1>2, SettledSync
<1>3. CASE \E q \in Requests : Request(q) BY <1>0, <1>1, <1>3, SettledRequest
<1>4. CASE \E w \in Workers : Worker(w) BY <1>0, <1>1, <1>4, SettledWorker
<1>5. CASE \E r \in Runs : JobStep(r)
  BY <1>0, <1>1, <1>5, SyncStays, WorkersStay, RowsStay, RequestsStay DEF JobStep
<1>6. CASE Faults BY <1>0, <1>1, <1>6, SettledFault
<1>7. CASE UNCHANGED vars
  BY <1>0, <1>1, <1>7, SyncStays, WorkersStay, RowsStay, RequestsStay DEF vars
<1> QED BY <1>2, <1>3, <1>4, <1>5, <1>6, <1>7 DEF Next

LEMMA SettledAlways == Spec => []SettledInv
<1>1. Init => SettledInv BY SettledInit, RunAssumption
<1>2. TypeOK /\ SettledInv /\ [Next]_vars => SettledInv' BY SettledStep, RunAssumption
<1> QED BY <1>1, <1>2, TypeCorrect, PTL DEF Spec

\* Whatever the sessions keep in memory while others write, a run's row, its import
\* tasks and its webhook calls never announce an end the backend does not know
\* (sync_run_from_job, sync_non_terminal_runs, cancel_run, import_run_outputs_task).
THEOREM NeverAhead == Spec => []SettledMeansOver
<1>1. SettledInv => SettledMeansOver BY DEF SettledInv
<1> QED BY <1>1, SettledAlways, PTL

\* Every stored run has a job on its backend, or had one (create_run).
THEOREM NoRowWithoutJob == Spec => []StoredMeansSubmitted
<1>1. SettledInv => StoredMeansSubmitted BY DEF SettledInv
<1> QED BY <1>1, SettledAlways, PTL

\* What any session has read, was answered or is about to write about the end of a
\* job is true, for as long as it holds it (the stale snapshots of services/sync.py).
THEOREM LateButTrue == Spec => []SnapshotsAreSound
<1>1. SettledInv => SnapshotsAreSound BY DEF SettledInv
<1> QED BY <1>1, SettledAlways, PTL

-----------------------------------------------------------------------------
(***************************************************************************)
(* A removed run does not come back, for every value of the constants: an  *)
(* UPDATE needs the row, its lock keeps DELETE out until the commit, and   *)
(* nobody submits the job of a stored run again.                           *)
(***************************************************************************)
\* An uncommitted UPDATE is one of an existing row.
LocksAreOfRows ==
  /\ \A q \in Requests : req[q].write # "none" => row[Target[q]] # "ABSENT"
  /\ \A r \in Runs : sync.write[r] # "none" => row[r] # "ABSENT"

\* No create request ever has the job of a run that was stored from the start.
SubmittedOnce ==
  /\ \A r \in Submitted : job[r] # "NONE"
  /\ \A q \in Requests :
        Kind[q] = "create" /\ Target[q] \in Submitted => req[q].pc \in {"unused", "done"}

RemovedInv == LocksAreOfRows /\ SubmittedOnce

RemovedStep == \A r \in Submitted : row[r] = "ABSENT" => row'[r] = "ABSENT"

LEMMA RemovedInit == ASSUME RunAssumption, Init PROVE RemovedInv
  BY DEF RunAssumption, Init, RemovedInv, LocksAreOfRows, SubmittedOnce, Unserved, IdleSync

\* Nothing but remove_run deletes a row, and it waits for the row's lock.
LEMMA RowsGo ==
  ASSUME RunAssumption, TypeOK, [Next]_vars, NEW r \in Runs,
         row[r] # "ABSENT", row'[r] = "ABSENT"
  PROVE  \E q \in Requests : DeleteRow(q) /\ Target[q] = r
<1> USE DEF TypeOK
<1>t. Target \in [Requests -> Runs] BY DEF RunAssumption
<1>1. CASE SyncLoop
  <2>1. SyncCommit
    BY <1>1 DEF SyncLoop, SyncSelect, SyncAborts, SyncFlush, SyncStale,
      SyncCommitStale, SyncCollect, SyncReturn,
      SyncBackend, SyncPoll
  <2>2. row'[r] = Write(row[r], Flushed("none")[r]) BY <2>1 DEF SyncCommit
  <2> QED BY <2>2 DEF Write, Statuses
<1>2. ASSUME NEW q \in Requests, Request(q) PROVE \E p \in Requests : DeleteRow(p) /\ Target[p] = r
  <2>1. CASE DeleteRow(q) BY <1>t, <2>1 DEF DeleteRow
  <2>2. CASE ~DeleteRow(q)
    <3>1. \/ row' = row \/ row' = [row EXCEPT ![Target[q]] = "PENDING"]
          \/ row' = [row EXCEPT ![Target[q]] = Write(row[Target[q]], req[q].write)]
          \/ row' = [row EXCEPT ![Target[q]] = "CANCELLED"]
      BY <1>t, <1>2, <2>2 DEF Request, SubmitJob, InsertRow, LoadRun, PollJob, CancelJob,
        CancelRefused, Flush, FlushStale, Commit, CancelMissing, Notify, RemoteDelete
    <3> QED BY <1>t, <3>1 DEF Write, Statuses
  <2> QED BY <2>1, <2>2
<1>3. ASSUME NEW w \in Workers, Worker(w) PROVE FALSE
  <2>1. \/ row' = row \/ row' = [row EXCEPT ![wk[w].run] = "ERROR"]
        \/ row' = [row EXCEPT ![wk[w].run] = "COMPLETED"]
    BY <1>3 DEF Worker, TaskStart, ListOutputs, ListFails, FileFails, MarkError, Complete,
      TaskEnd, ImportFile
  <2> QED BY <2>1
<1>4. ~(\E s \in Runs : JobStep(s)) BY DEF JobStep
<1>5. ~Faults
  BY DEF Faults, WebRestart, ClearAllCache, SyncBrokerDown, SyncPollFails, CallFails, BrokerDown,
    WorkerKilled, Redelivered
<1>6. ~(UNCHANGED vars) BY DEF vars
<1> QED BY <1>1, <1>2, <1>3, <1>4, <1>5, <1>6 DEF Next

LEMMA TurnsUnlocks ==
  ASSUME NEW p \in Requests, NEW q \in Requests, req \in [Requests -> ReqRecord],
         NEW pc, Turns(p, pc)
  PROVE  req'[q] = req[q] \/ req'[q].write = "none"
  BY DEF Turns, Unserved

\* A request that starts an UPDATE has matched the row.
LEMMA RequestLocks ==
  ASSUME RunAssumption, TypeOK, [Next]_vars, NEW q \in Requests,
         req'[q].write # "none", req[q].write = "none"
  PROVE  row[Target[q]] # "ABSENT" /\ row' = row
<1>0. req \in [Requests -> ReqRecord] /\ req[q] \in ReqRecord BY DEF TypeOK
<1>1. ASSUME NEW p \in Requests, Request(p) PROVE row[Target[q]] # "ABSENT" /\ row' = row
  <2>1. CASE Flush(p)
    <3> DEFINE s == AfterSync(req[p].seen, Wants(Target[p]), req[p].answer)
               due == CallbackDue(req[p].seen, Wants(Target[p]), req[p].answer)
    <3>1. PICK dirty \in BOOLEAN :
            LET w == IF s # req[p].seen THEN s ELSE IF dirty THEN "same" ELSE "none"
            IN  /\ w # "none" => RowMatched(Target[p])
                /\ req' = [req EXCEPT ![p].pc = "flushed", ![p].write = w, ![p].due = due]
      BY <2>1 DEF Flush
    <3> DEFINE w == IF s # req[p].seen THEN s ELSE IF dirty THEN "same" ELSE "none"
    <3> HIDE DEF s, due
    <3>2. p = q /\ w # "none" BY <1>0, <3>1 DEF ReqRecord
    <3> QED BY <2>1, <3>1, <3>2 DEF RowMatched, Flush
  <2>2. CASE SubmitJob(p) \/ LoadRun(p) \/ CancelJob(p) \/ RemoteDelete(p)
    BY <1>0, <2>2 DEF SubmitJob, LoadRun, CancelJob, RemoteDelete, ReqRecord
  <2>3. CASE PollJob(p)
    BY <1>0, <2>3, TurnsUnlocks DEF PollJob, ReqRecord, Ends
  <2>4. CASE InsertRow(p) \/ CancelRefused(p) \/ FlushStale(p) \/ Commit(p)
             \/ CancelMissing(p) \/ Notify(p) \/ DeleteRow(p)
    <3>1. \E pc : Turns(p, pc)
      BY <2>4 DEF InsertRow, CancelRefused, FlushStale, Commit, CancelMissing, Notify, DeleteRow,
        Ends
    <3> QED BY <1>0, <3>1, TurnsUnlocks
  <2> QED BY <1>1, <2>1, <2>2, <2>3, <2>4 DEF Request
<1>2. ~SyncLoop
  BY DEF SyncLoop, SyncSelect, SyncAborts, SyncFlush, SyncStale,
    SyncCommitStale, SyncCommit, SyncCollect,
    SyncReturn, SyncBackend, SyncPoll, UnchangedBySync
<1>3. ~(\E w \in Workers : Worker(w))
  BY DEF Worker, TaskStart, ListOutputs, ListFails, FileFails, MarkError, Complete, TaskEnd,
    ImportFile, UnchangedByWorker
<1>4. ~(\E r \in Runs : JobStep(r)) BY DEF JobStep
<1>5. ~Faults
  <2>1. ASSUME NEW p \in Requests, CallFails(p) \/ BrokerDown(p) PROVE FALSE
    BY <1>0, <2>1, TurnsUnlocks DEF CallFails, BrokerDown, Ends
  <2>2. ~WebRestart BY <1>0 DEF WebRestart, Unserved
  <2> QED BY <2>1, <2>2
    DEF Faults, ClearAllCache, SyncBrokerDown, SyncPollFails, WorkerKilled, Redelivered,
        UnchangedBySync, UnchangedByWorker
<1>6. ~(UNCHANGED vars) BY DEF vars
<1> QED BY <1>1, <1>2, <1>3, <1>4, <1>5, <1>6 DEF Next

\* So has the sync loop.
LEMMA SyncLocks ==
  ASSUME RunAssumption, TypeOK, [Next]_vars, NEW r \in Runs,
         sync'.write[r] # "none", sync.write[r] = "none"
  PROVE  row[r] # "ABSENT" /\ row' = row
<1>0. sync \in SyncRecord BY DEF TypeOK
<1>1. ASSUME NEW w, NEW fired, CanWrite(Flushed(w)), Applied(Flushed(w), {}, fired)
      PROVE  row[r] # "ABSENT"
  <2>1. sync'.write = Flushed(w) BY <1>0, <1>1 DEF Applied, SyncRecord
  <2> QED BY <1>1, <2>1 DEF CanWrite, RowMatched
<1>2. CASE SyncLoop
  <2>1. CASE SyncFlush
    <3> DEFINE t == sync.cur
               s == AfterSync(sync.seen[t], Wants(t), sync.answer)
               w == IF s # sync.seen[t] THEN s ELSE "same"
               fired == IF CallbackDue(sync.seen[t], Wants(t), sync.answer) THEN {t} ELSE {}
    <3>1. \/ Applied(sync.write, sync.missing, fired)
          \/ CanWrite(Flushed(w)) /\ Applied(Flushed(w), {}, fired)
      BY <2>1 DEF SyncFlush
    <3> HIDE DEF w, fired
    <3>2. ~Applied(sync.write, sync.missing, fired) BY <1>0 DEF Applied, SyncRecord
    <3> QED BY <1>1, <2>1, <3>1, <3>2 DEF SyncFlush
  <2>2. CASE SyncSelect \/ SyncAborts \/ SyncStale \/ SyncReturn
    <3>1. sync'.write = [t \in Runs |-> "none"]
      <4>1. CASE SyncSelect BY <4>1 DEF SyncSelect, IdleSync
      <4>2. CASE SyncAborts \/ SyncStale \/ SyncReturn
        BY <4>2 DEF SyncAborts, SyncStale, SyncReturn, IdleSync
      <4> QED BY <2>2, <4>1, <4>2
    <3> QED BY <3>1
  <2>3. CASE SyncCommitStale \/ SyncCommit
    <3>1. IdleSync.write[r] = "none" BY DEF IdleSync
    <3>2. sync'.write = IdleSync.write BY <1>0, <2>3 DEF SyncCommitStale, SyncCommit, SyncRecord
    <3> QED BY <3>1, <3>2
  <2>4. CASE SyncCollect \/ (\E b \in Backends : SyncBackend(b)) \/ (\E s \in Runs : SyncPoll(s))
    <3>1. CASE SyncCollect BY <1>0, <3>1 DEF SyncCollect, SyncRecord
    <3>2. ASSUME NEW b \in Backends, SyncBackend(b) PROVE FALSE
      BY <1>0, <3>2 DEF SyncBackend, SyncRecord
    <3>3. ASSUME NEW s \in Runs, SyncPoll(s) PROVE FALSE
      BY <1>0, <3>3 DEF SyncPoll, SyncRecord
    <3> QED BY <2>4, <3>1, <3>2, <3>3
  <2> QED BY <1>2, <2>1, <2>2, <2>3, <2>4 DEF SyncLoop
<1>3. CASE Faults
  <2>1. CASE SyncBrokerDown BY <1>1, <2>1 DEF SyncBrokerDown
  <2>2. ASSUME NEW s \in Runs, SyncPollFails(s) PROVE FALSE
    BY <1>0, <2>2 DEF SyncPollFails, SyncRecord
  <2>3. ~WebRestart BY DEF WebRestart, IdleSync
  <2> QED BY <1>3, <2>1, <2>2, <2>3
    DEF Faults, ClearAllCache, CallFails, BrokerDown, WorkerKilled, Redelivered, UnchangedByWorker
<1>4. ~(\E q \in Requests : Request(q))
  BY DEF Request, SubmitJob, InsertRow, LoadRun, PollJob, CancelJob, CancelRefused, Flush,
    FlushStale, Commit, CancelMissing, Notify, RemoteDelete, DeleteRow
<1>5. ~(\E w \in Workers : Worker(w))
  BY DEF Worker, TaskStart, ListOutputs, ListFails, FileFails, MarkError, Complete, TaskEnd,
    ImportFile, UnchangedByWorker
<1>6. ~(\E s \in Runs : JobStep(s)) BY DEF JobStep
<1>7. ~(UNCHANGED vars) BY DEF vars
<1> QED BY <1>2, <1>3, <1>4, <1>5, <1>6, <1>7 DEF Next

----------------------------------------------------------------------------
LEMMA LocksStep ==
  ASSUME RunAssumption, TypeOK, LocksAreOfRows, [Next]_vars PROVE LocksAreOfRows'
<1>t. Target \in [Requests -> Runs] BY DEF RunAssumption
<1>0. ASSUME NEW r \in Runs, Locked(r), row[r] # "ABSENT" PROVE row'[r] # "ABSENT"
  BY <1>0, RowsGo DEF DeleteRow
<1>1. ASSUME NEW q \in Requests, req'[q].write # "none" PROVE row'[Target[q]] # "ABSENT"
  <2>1. CASE req[q].write = "none" BY <1>1, <2>1, RequestLocks
  <2>2. CASE req[q].write # "none"
    <3>1. Target[q] \in Runs /\ Locked(Target[q]) BY <1>t, <2>2 DEF Locked
    <3> QED BY <1>0, <2>2, <3>1 DEF LocksAreOfRows
  <2> QED BY <2>1, <2>2
<1>2. ASSUME NEW r \in Runs, sync'.write[r] # "none" PROVE row'[r] # "ABSENT"
  <2>1. CASE sync.write[r] = "none" BY <1>2, <2>1, SyncLocks
  <2>2. CASE sync.write[r] # "none"
    <3>1. Locked(r) BY <2>2 DEF Locked
    <3> QED BY <1>0, <2>2, <3>1 DEF LocksAreOfRows
  <2> QED BY <2>1, <2>2
<1> QED BY <1>1, <1>2 DEF LocksAreOfRows

LEMMA OnceStep ==
  ASSUME RunAssumption, TypeOK, SubmittedOnce, [Next]_vars PROVE SubmittedOnce'
<1>0. /\ Target \in [Requests -> Runs] /\ Submitted \subseteq Runs
      /\ req \in [Requests -> ReqRecord]
  BY DEF RunAssumption, TypeOK
<1>1. \A r \in Submitted : job'[r] # "NONE" BY <1>0, Monotone DEF SubmittedOnce, JobsGrow
<1>2. ASSUME NEW q \in Requests, Kind[q] = "create", Target[q] \in Submitted
      PROVE  req'[q].pc \in {"unused", "done"}
  <2>1. req[q].pc \in {"unused", "done"} /\ job[Target[q]] # "NONE"
    BY <1>2 DEF SubmittedOnce
  <2>2. CASE UNCHANGED req BY <2>1, <2>2
  <2>3. ASSUME NEW p \in Requests, Request(p) PROVE req'[q].pc \in {"unused", "done"}
    <3>1. CASE p = q
      <4>1. ~(SubmitJob(q) \/ InsertRow(q) \/ LoadRun(q) \/ PollJob(q) \/ CancelJob(q)
              \/ CancelRefused(q) \/ Flush(q) \/ FlushStale(q) \/ Commit(q) \/ CancelMissing(q)
              \/ Notify(q) \/ RemoteDelete(q) \/ DeleteRow(q))
        BY <1>2, <2>1 DEF SubmitJob, InsertRow, LoadRun, PollJob, CancelJob, CancelRefused, Flush,
          FlushStale, Commit, CancelMissing, Notify, RemoteDelete, DeleteRow
      <4> QED BY <2>3, <3>1, <4>1 DEF Request
    <3>2. CASE p # q
      <4>1. req'[q] = req[q]
        BY <1>0, <2>3, <3>2 DEF Request, SubmitJob, InsertRow, LoadRun, PollJob, CancelJob,
          CancelRefused, Flush, FlushStale, Commit, CancelMissing, Notify, RemoteDelete, DeleteRow,
          Ends, Turns
      <4> QED BY <2>1, <4>1
    <3> QED BY <3>1, <3>2
  <2>4. CASE Faults
    <3>1. ASSUME NEW p \in Requests, Ends(p) PROVE req'[q].pc \in {"unused", "done"}
      BY <1>0, <2>1, <3>1 DEF Ends, Turns, Unserved
    <3>2. CASE WebRestart BY <2>1, <3>2 DEF WebRestart, Unserved
    <3> QED BY <2>2, <2>4, <3>1, <3>2
        DEF Faults, ClearAllCache, SyncBrokerDown, SyncPollFails, CallFails, BrokerDown,
            WorkerKilled, Redelivered, UnchangedBySync, UnchangedByWorker
  <2>5. CASE SyncLoop
    BY <2>2, <2>5 DEF SyncLoop, SyncSelect, SyncAborts, SyncFlush, SyncStale,
      SyncCommitStale, SyncCommit,
      SyncCollect, SyncReturn, SyncBackend, SyncPoll, UnchangedBySync
  <2>6. CASE \E w \in Workers : Worker(w)
    BY <2>2, <2>6 DEF Worker, TaskStart, ListOutputs, ListFails, FileFails, MarkError, Complete,
      TaskEnd, ImportFile, UnchangedByWorker
  <2>7. CASE \E r \in Runs : JobStep(r) BY <2>2, <2>7 DEF JobStep
  <2>8. CASE UNCHANGED vars BY <2>2, <2>8 DEF vars
  <2> QED BY <2>3, <2>4, <2>5, <2>6, <2>7, <2>8 DEF Next
<1> QED BY <1>1, <1>2 DEF SubmittedOnce

\* With the locks in place no write reaches a row that is gone.
LEMMA RemovedKeeps ==
  ASSUME RunAssumption, TypeOK, RemovedInv, [Next]_vars PROVE RemovedStep
<1> SUFFICES ASSUME NEW r \in Submitted, row[r] = "ABSENT" PROVE row'[r] = "ABSENT"
  BY DEF RemovedStep
<1>0. /\ r \in Runs /\ Target \in [Requests -> Runs]
      /\ row \in [Runs -> Statuses \cup {"ABSENT"}]
      /\ sync.write[r] = "none" /\ "ABSENT" \notin Statuses /\ "none" \notin Statuses
  BY DEF RunAssumption, TypeOK, RemovedInv, LocksAreOfRows, Statuses
<1>1. CASE SyncLoop
  <2>1. CASE SyncCommit
    <3>1. Flushed("none")[r] = "none" BY <1>0, <2>1 DEF SyncCommit, CanWrite, RowMatched
    <3> QED BY <1>0, <2>1, <3>1 DEF SyncCommit, Write
  <2>2. ~SyncCommit => row' = row
    BY <1>1 DEF SyncLoop, SyncSelect, SyncAborts, SyncFlush, SyncStale,
      SyncCommitStale, SyncCollect, SyncReturn,
      SyncBackend, SyncPoll
  <2> QED BY <2>1, <2>2
<1>2. ASSUME NEW q \in Requests, Request(q) PROVE row'[r] = "ABSENT"
  <2>1. CASE InsertRow(q)
    <3>1. Target[q] # r BY <2>1 DEF InsertRow, RemovedInv, SubmittedOnce
    <3> QED BY <1>0, <2>1, <3>1 DEF InsertRow
  <2>2. CASE Commit(q)
    <3>1. Target[q] = r => req[q].write = "none" BY <1>0 DEF RemovedInv, LocksAreOfRows
    <3> QED BY <1>0, <2>2, <3>1 DEF Commit, Write
  <2>3. CASE CancelMissing(q) BY <1>0, <2>3 DEF CancelMissing, RowMatched
  <2>4. CASE DeleteRow(q) BY <1>0, <2>4 DEF DeleteRow
  <2> QED BY <1>2, <2>1, <2>2, <2>3, <2>4
    DEF Request, SubmitJob, LoadRun, PollJob, CancelJob, CancelRefused, Flush, FlushStale, Notify,
        RemoteDelete
<1>3. ASSUME NEW w \in Workers, Worker(w) PROVE row'[r] = "ABSENT"
  <2>1. CASE MarkError(w) BY <1>0, <2>1 DEF MarkError
  <2>2. CASE Complete(w) BY <1>0, <2>2 DEF Complete
  <2> QED BY <1>3, <2>1, <2>2
    DEF Worker, TaskStart, ListOutputs, ListFails, FileFails, TaskEnd, ImportFile
<1>4. CASE \E s \in Runs : JobStep(s) BY <1>4 DEF JobStep
<1>5. CASE Faults
  BY <1>5 DEF Faults, WebRestart, ClearAllCache, SyncBrokerDown, SyncPollFails, CallFails,
    BrokerDown, WorkerKilled, Redelivered
<1>6. CASE UNCHANGED vars BY <1>6 DEF vars
<1> QED BY <1>1, <1>2, <1>3, <1>4, <1>5, <1>6 DEF Next

\* A removed run stays removed, although get_run, cancel_run, the sync loop and the
\* import task all write rows they loaded earlier.
THEOREM RemovedForGood == Spec => RemovedStaysRemoved
<1>1. Init => RemovedInv BY RemovedInit, RunAssumption
<1>2. TypeOK /\ RemovedInv /\ [Next]_vars => RemovedInv'
  BY LocksStep, OnceStep, RunAssumption DEF RemovedInv
<1>3. TypeOK /\ RemovedInv /\ [Next]_vars => [RemovedStep]_row
  BY RemovedKeeps, RunAssumption
<1>4. Spec => [][RemovedStep]_row BY <1>1, <1>2, <1>3, TypeCorrect, PTL DEF Spec
<1> QED BY <1>4 DEF RemovedStaysRemoved, RemovedStep
=============================================================================
