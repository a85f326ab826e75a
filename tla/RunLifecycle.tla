---------------------------- MODULE RunLifecycle ----------------------------
(***************************************************************************)
(* The life of a run: its database row, the job on the Snakedispatch       *)
(* backend, the background sync loop, the HTTP requests that touch a run,  *)
(* the task queue and the workers that import a finished job's networks.   *)
(*                                                                         *)
(* A database session is the value it loaded ("seen"), the UPDATE it has   *)
(* flushed but not committed ("write") and the phase of the handler.  A    *)
(* step ends where another session can get in between: at a remote call,   *)
(* at a statement that takes a row lock, at a commit and at the SELECT     *)
(* that refreshes an instance expired by a commit.  Isolation is READ      *)
(* COMMITTED: a flush waits for the row's lock, then overwrites the row    *)
(* without looking at it again.                                            *)
(***************************************************************************)
EXTENDS Naturals, Sequences, FiniteSets, RunSync

CONSTANTS
    Runs,        \* runs that exist or may be submitted
    Submitted,   \* the runs already stored when the model starts
    Backends,    \* registered Snakedispatch backends
    BackendOf,   \* Run.backend_id
    Files,       \* distinct network file contents
    Wanted,      \* Run.import_networks of each run
    Outputs,     \* network files each job produces
    Requests,    \* HTTP requests, each served at most once
    Kind,        \* what each request asks for
    Target,      \* the run it asks it of
    Workers,     \* task workers
    Broker,      \* "celery": durable queue; "memory": in-process queue
    Dialect,     \* "postgresql" or "sqlite"
    MaxFaults,   \* bound on the faults of one behaviour
    NoRun        \* "no run"

ASSUME RunAssumption ==
    /\ Submitted \subseteq Runs
    /\ NoRun \notin Runs
    /\ BackendOf \in [Runs -> Backends]
    /\ Wanted \in [Runs -> SUBSET Files]
    /\ Outputs \in [Runs -> SUBSET Files]
    /\ Kind \in [Requests -> {"create", "get", "cancel", "remove"}]
    /\ Target \in [Requests -> Runs]
    /\ Broker \in {"celery", "memory"}
    /\ Dialect \in {"postgresql", "sqlite"}
    /\ MaxFaults \in Nat

VARIABLES
    row,     \* committed status of each run's row, or ABSENT
    job,     \* state of each run's job on its backend
    req,     \* session of each request
    sync,    \* the sync loop and its session
    queued,  \* import tasks waiting in the queue, per run
    wk,      \* session of each worker
    nets,    \* committed network rows, per file content
    disk,    \* files moved into the data directory, per file content
    posted,  \* callbacks sent, per run
    faults   \* faults so far

vars == <<row, job, req, sync, queued, wk, nets, disk, posted, faults>>

----------------------------------------------------------------------------
(* Values and abbreviations.                                               *)

Active == Statuses \ SyncedStatuses
Finished == JobStatuses \ Active
Wants(r) == Wanted[r] # {}
ForgetsSetup == {r \in Runs : row[r] \in {"PENDING", "RUNNING"}}
NonTerminal == {r \in Runs : row[r] \in Active}
\* A session's pending UPDATE: none, one that leaves the status alone, or a status.
Writes == Statuses \cup {"none", "same"}

IdleSync == [pc |-> "idle", batch |-> {}, seen |-> [r \in Runs |-> "ABSENT"],
             expired |-> {}, left |-> {}, todo |-> {}, cur |-> NoRun,
             answer |-> "none", missing |-> {},
             write |-> [r \in Runs |-> "none"], fired |-> {},
             out |-> [r \in Runs |-> "none"]]

\* A request nobody has served yet.
Unserved == [pc |-> "unused", seen |-> "ABSENT", answer |-> "none",
             write |-> "none", due |-> FALSE]

IdleWorker == [pc |-> "idle", run |-> NoRun, seen |-> "ABSENT",
               todo |-> {}, tx |-> {}]

\* An uncommitted UPDATE holds the row's lock.
Locked(r) ==
    \/ sync.write[r] # "none"
    \/ \E q \in Requests : Target[q] = r /\ req[q].write # "none"

\* An uncommitted INSERT of a network holds a key-share lock on its source run.
KeyShared(r) == \E w \in Workers : wk[w].run = r /\ wk[w].tx # {}

\* An UPDATE of a run finds its row (otherwise StaleDataError).
UpsertsRow(r) == TRUE
RowMatched(r) == row[r] # "ABSENT"

Fault == faults < MaxFaults /\ faults' = faults + 1

JobExists(r) == job[r] \notin {"NONE", "GONE"}

\* GET /jobs/{id}: the job's status, or 404 once the backend dropped it.
Answer(r) == IF JobExists(r) THEN job[r] ELSE "404"

Enqueue(r) == queued' = [queued EXCEPT ![r] = @ + 1]
Post(r, s) == posted' = [posted EXCEPT ![r] = Append(@, s)]
WriteBlindly(old, w) == w
Write(old, w) == IF w \in Statuses THEN w ELSE old

Init ==
    /\ row = [r \in Runs |-> IF r \in Submitted THEN "PENDING" ELSE "ABSENT"]
    /\ job = [r \in Runs |-> IF r \in Submitted THEN "PENDING" ELSE "NONE"]
    /\ req = [q \in Requests |-> Unserved]
    /\ sync = IdleSync
    /\ queued = [r \in Runs |-> 0]
    /\ wk = [w \in Workers |-> IdleWorker]
    /\ nets = [f \in Files |-> 0]
    /\ disk = [f \in Files |-> 0]
    /\ posted = [r \in Runs |-> <<>>]
    /\ faults = 0

----------------------------------------------------------------------------
(* The Snakedispatch backend: a job advances, ends, and is collected.      *)

JobSuccessors(s) ==
    CASE s = "PENDING" -> {"SETUP", "ERROR"}
      [] s = "SETUP" -> {"RUNNING", "ERROR"}
      [] s = "RUNNING" -> {"COMPLETED", "FAILED", "ERROR"}
      [] s \in Finished -> {"GONE"}
      [] OTHER -> {}

JobStep(r) ==
    /\ \E s \in JobSuccessors(job[r]) : job' = [job EXCEPT ![r] = s]
    /\ UNCHANGED <<row, req, sync, queued, wk, nets, disk, posted, faults>>

----------------------------------------------------------------------------
(* Requests.  Each has its own session; the dependency that authorises the *)
(* request has loaded the run before the handler starts.                   *)

Turns(q, pc) == req' = [req EXCEPT ![q] = [Unserved EXCEPT !.pc = pc]]
Ends(q) == Turns(q, "done")

\* create_run: POST /jobs first, the row only when the job id is back.
SubmitJob(q) ==
    /\ Kind[q] = "create" /\ req[q].pc = "unused"
    /\ job[Target[q]] = "NONE"
    /\ job' = [job EXCEPT ![Target[q]] = "PENDING"]
    /\ req' = [req EXCEPT ![q].pc = "answered"]
    /\ UNCHANGED <<row, sync, queued, wk, nets, disk, posted, faults>>

InsertRowFirst(q) ==
    /\ Kind[q] = "create" /\ req[q].pc = "unused"
    /\ row' = [row EXCEPT ![Target[q]] = "PENDING"]
    /\ UNCHANGED <<job, req, sync, queued, wk, nets, disk, posted, faults>>

\* The answer to POST /jobs has the status of a new job, or none.
InsertRow(q) ==
    /\ Kind[q] = "create" /\ req[q].pc = "answered"
    /\ row' = [row EXCEPT ![Target[q]] = "PENDING"]
    /\ Ends(q)
    /\ UNCHANGED <<job, sync, queued, wk, nets, disk, posted, faults>>

\* require_run: get_run goes on only for a run that is not synced yet.
LoadRun(q) ==
    /\ Kind[q] # "create" /\ req[q].pc = "unused"
    /\ row[Target[q]] # "ABSENT"
    /\ Kind[q] = "get" => row[Target[q]] \in Active
    /\ req' = [req EXCEPT ![q].pc = "loaded", ![q].seen = row[Target[q]]]
    /\ UNCHANGED <<row, job, sync, queued, wk, nets, disk, posted, faults>>

\* get_run: client.get_job; a 404 is swallowed and the request ends.
PollJob(q) ==
    /\ Kind[q] = "get" /\ req[q].pc = "loaded"
    /\ IF JobExists(Target[q])
         THEN req' = [req EXCEPT ![q].pc = "answered", ![q].answer = Answer(Target[q])]
         ELSE Ends(q)
    /\ UNCHANGED <<row, job, sync, queued, wk, nets, disk, posted, faults>>

\* cancel_run: client.cancel_job, whatever the status of the run.  The backend
\* cancels an active job now or later and answers with the job.
CancelJob(q) ==
    /\ Kind[q] = "cancel" /\ req[q].pc = "loaded"
    /\ \/ job[Target[q]] \in Active /\ job' = [job EXCEPT ![Target[q]] = "CANCELLED"]
       \/ UNCHANGED job
    /\ req' = [req EXCEPT ![q].pc = "answered", ![q].answer = Answer(Target[q])']
    /\ UNCHANGED <<row, sync, queued, wk, nets, disk, posted, faults>>

\* The backend refuses to cancel a job that ended: 409 reaches cancel_run as 502.
CancelRefused(q) ==
    /\ Kind[q] = "cancel" /\ req[q].pc = "loaded"
    /\ job[Target[q]] \in Finished
    /\ Ends(q)
    /\ UNCHANGED <<row, job, sync, queued, wk, nets, disk, posted, faults>>

\* The call fails with anything but a 404 (connect error, timeout, status >= 400):
\* the handler leaves the row alone, whatever happened to the job.  For a new run also an
\* answer with an unknown status or a commit that fails: the job stays without a row.
CallFails(q) ==
    /\ Fault
    /\ \/ /\ Kind[q] = "get" /\ req[q].pc = "loaded" /\ UNCHANGED job
       \/ /\ Kind[q] = "cancel" /\ req[q].pc = "loaded"
          /\ \/ UNCHANGED job
             \/ /\ job[Target[q]] \in Active
                /\ job' = [job EXCEPT ![Target[q]] = "CANCELLED"]
       \/ /\ Kind[q] = "create" /\ req[q].pc = "unused"
          /\ job[Target[q]] = "NONE"
          /\ job' = [job EXCEPT ![Target[q]] = "PENDING"]
       \/ /\ Kind[q] = "create" /\ req[q].pc = "answered" /\ UNCHANGED job
    /\ Ends(q)
    /\ UNCHANGED <<row, sync, queued, wk, nets, disk, posted>>

\* sync_run_from_job in get_run and cancel_run: the new status is flushed and,
\* when an import starts, its task is queued before the commit.  "dirty": some
\* other synced column changed.
Flush(q) ==
    LET r == Target[q]
        s == AfterSync(req[q].seen, Wants(r), req[q].answer)
    IN  /\ req[q].pc = "answered" /\ req[q].answer \in JobStatuses
        /\ \E dirty \in BOOLEAN :
             LET w == IF s # req[q].seen THEN s ELSE IF dirty THEN "same" ELSE "none"
             IN  /\ w # "none" => ~Locked(r) /\ RowMatched(r)
                 /\ req' = [req EXCEPT
                              ![q].pc = "flushed", ![q].write = w,
                              ![q].due = CallbackDue(req[q].seen, Wants(r), req[q].answer)]
        /\ IF StartsImport(req[q].seen, Wants(r), req[q].answer)
             THEN Enqueue(r) ELSE UNCHANGED queued
        /\ UNCHANGED <<row, job, sync, wk, nets, disk, posted, faults>>

\* The UPDATE matches no row: StaleDataError, the request fails.
FlushStale(q) ==
    /\ req[q].pc = "answered" /\ Kind[q] \in {"get", "cancel"}
    /\ row[Target[q]] = "ABSENT"
    /\ Ends(q)
    /\ UNCHANGED <<row, job, sync, queued, wk, nets, disk, posted, faults>>

\* The broker refuses the task: the exception rolls the UPDATE back.
BrokerDown(q) ==
    /\ Broker = "celery" /\ Fault
    /\ req[q].pc = "answered" /\ Kind[q] \in {"get", "cancel"}
    /\ ~Locked(Target[q]) /\ RowMatched(Target[q])
    /\ StartsImport(req[q].seen, Wants(Target[q]), req[q].answer)
    /\ Ends(q)
    /\ UNCHANGED <<row, job, sync, queued, wk, nets, disk, posted>>

Commit(q) ==
    /\ req[q].pc = "flushed"
    /\ row' = [row EXCEPT ![Target[q]] = Write(@, req[q].write)]
    /\ Turns(q, IF req[q].due THEN "committed" ELSE "done")
    /\ UNCHANGED <<job, sync, queued, wk, nets, disk, posted, faults>>

\* cancel_run, the job is unknown to the backend: CANCELLED if the loaded status
\* was not synced yet.
CancelMissing(q) ==
    LET r == Target[q] IN
    /\ req[q].pc = "answered" /\ req[q].answer = "404"
    /\ IF req[q].seen \in SyncedStatuses
         THEN Ends(q) /\ UNCHANGED row
         ELSE /\ ~Locked(r) /\ RowMatched(r)
              /\ row' = [row EXCEPT ![r] = "CANCELLED"]
              /\ Turns(q, "committed")
    /\ UNCHANGED <<job, sync, queued, wk, nets, disk, posted, faults>>

\* The payload is built after the commit, from a fresh SELECT; a row deleted
\* meanwhile raises and nothing is sent.
Notify(q) ==
    /\ req[q].pc = "committed"
    /\ IF row[Target[q]] = "ABSENT" THEN UNCHANGED posted
                                    ELSE Post(Target[q], row[Target[q]])
    /\ Ends(q)
    /\ UNCHANGED <<row, job, sync, queued, wk, nets, disk, faults>>

\* remove_run, delete_run_admin: remote clean-up may fail, the row goes anyway.
RemoteDelete(q) ==
    /\ Kind[q] = "remove" /\ req[q].pc = "loaded"
    /\ \/ job' = [job EXCEPT ![Target[q]] = "GONE"]
       \/ UNCHANGED job
    /\ req' = [req EXCEPT ![q].pc = "answered"]
    /\ UNCHANGED <<row, sync, queued, wk, nets, disk, posted, faults>>

DeleteRow(q) ==
    /\ Kind[q] = "remove" /\ req[q].pc = "answered"
    /\ ~Locked(Target[q]) /\ ~KeyShared(Target[q])
    /\ row' = [row EXCEPT ![Target[q]] = "ABSENT"]
    /\ Ends(q)
    /\ UNCHANGED <<job, sync, queued, wk, nets, disk, posted, faults>>

Request(q) ==
    \/ SubmitJob(q) \/ InsertRow(q) \/ LoadRun(q) \/ PollJob(q) \/ CancelJob(q)
    \/ CancelRefused(q) \/ Flush(q) \/ FlushStale(q) \/ Commit(q) \/ CancelMissing(q) \/ Notify(q)
    \/ RemoteDelete(q) \/ DeleteRow(q)

----------------------------------------------------------------------------
(* The background sync loop: sync_non_terminal_runs, one session per cycle, *)
(* one commit per backend.  A commit or a rollback expires every instance; *)
(* the next attribute access re-reads the row.                             *)

UnchangedBySync == UNCHANGED <<job, req, wk, nets, disk>>

SyncSelect ==
    /\ sync.pc = "idle"
    /\ NonTerminal # {}
    /\ sync' = [IdleSync EXCEPT !.pc = "backends", !.seen = row, !.left = Backends,
                                !.batch = NonTerminal]
    /\ UNCHANGED <<row, queued, posted, faults>> /\ UnchangedBySync

\* The list comprehension reads backend_id of every run of the batch: expired
\* instances are refreshed, the status filter is not applied again.
SyncBackend(b) ==
    /\ sync.pc = "backends" /\ b \in sync.left
    /\ \A r \in sync.expired : row[r] # "ABSENT"
    /\ LET todo == {r \in sync.batch : BackendOf[r] = b}
       IN  sync' = [sync EXCEPT
              !.pc = IF todo = {} THEN "backends" ELSE "runs",
              !.left = @ \ {b}, !.todo = todo, !.expired = {},
              !.seen = [r \in Runs |-> IF r \in sync.expired THEN row[r] ELSE @[r]]]
    /\ UNCHANGED <<row, queued, posted, faults>> /\ UnchangedBySync

\* ObjectDeletedError while refreshing a deleted run: the exception leaves the
\* function and the callbacks collected so far with it.
SyncAborts ==
    /\ \/ sync.pc = "backends" /\ sync.left # {}
          /\ \E r \in sync.expired : row[r] = "ABSENT"
       \/ sync.pc = "collect" /\ \E r \in sync.fired : row[r] = "ABSENT"
    /\ sync' = IdleSync
    /\ UNCHANGED <<row, queued, posted, faults>> /\ UnchangedBySync

SyncPoll(r) ==
    /\ sync.pc = "runs" /\ r \in sync.todo
    /\ sync' = IF JobExists(r)
                 THEN [sync EXCEPT !.pc = "answered", !.cur = r, !.answer = Answer(r)]
                 ELSE [sync EXCEPT !.todo = @ \ {r}, !.missing = @ \cup {r},
                                   !.fired = @ \cup {r}]
    /\ UNCHANGED <<row, queued, posted, faults>> /\ UnchangedBySync

SyncPollFails(r) ==
    /\ sync.pc = "runs" /\ r \in sync.todo
    /\ Fault
    /\ sync' = [sync EXCEPT !.todo = @ \ {r}]
    /\ UNCHANGED <<row, queued, posted>> /\ UnchangedBySync

\* A flush writes every dirty instance: the run just synced and those marked
\* ERROR in memory after a 404.
Dirty == {r \in sync.missing : sync.seen[r] # "ERROR"}

Flushed(w) ==
    [r \in Runs |-> IF r = sync.cur THEN w
                    ELSE IF r \in Dirty THEN "ERROR" ELSE sync.write[r]]

CanWrite(ws) ==
    \A r \in Runs : ws[r] # sync.write[r] => ~Locked(r) /\ RowMatched(r)

Applied(ws, missing, fired) ==
    sync' = [sync EXCEPT !.pc = "runs", !.cur = NoRun, !.answer = "none",
                         !.todo = @ \ {sync.cur}, !.write = ws,
                         !.missing = missing, !.fired = @ \cup fired]

SyncFlush ==
    LET r == sync.cur
        s == AfterSync(sync.seen[r], Wants(r), sync.answer)
        due == CallbackDue(sync.seen[r], Wants(r), sync.answer)
        fired == IF due THEN {r} ELSE {}
    IN  /\ sync.pc = "answered"
        /\ \E dirty \in BOOLEAN :
             IF s = sync.seen[r] /\ ~dirty
             THEN Applied(sync.write, sync.missing, fired)
             ELSE LET ws == Flushed(IF s # sync.seen[r] THEN s ELSE "same")
                  IN  CanWrite(ws) /\ Applied(ws, {}, fired)
        /\ IF StartsImport(sync.seen[r], Wants(r), sync.answer)
             THEN Enqueue(r) ELSE UNCHANGED queued
        /\ UNCHANGED <<row, posted, faults>> /\ UnchangedBySync

\* The broker refuses the task; the UPDATE stays flushed and is committed later.
SyncBrokerDown ==
    LET r == sync.cur IN
    /\ Broker = "celery" /\ Fault
    /\ sync.pc = "answered"
    /\ StartsImport(sync.seen[r], Wants(r), sync.answer)
    /\ CanWrite(Flushed("UPLOADING"))
    /\ Applied(Flushed("UPLOADING"), {}, {})
    /\ UNCHANGED <<row, queued, posted>> /\ UnchangedBySync

\* The flush after an answer meets a deleted row: StaleDataError.  The transaction is
\* rolled back and every instance expires, so that the handler, which logs run.job_id,
\* raises PendingRollbackError itself: the cycle ends, and the callbacks with it.
SyncStale ==
    /\ sync.pc = "answered"
    /\ \E r \in Dirty \cup {sync.cur} : row[r] = "ABSENT"
    /\ sync' = IdleSync
    /\ UNCHANGED <<row, queued, posted, faults>> /\ UnchangedBySync

\* The flush of the commit meets one: rolled back, and the loop goes on.
SyncCommitStale ==
    /\ sync.pc = "runs" /\ sync.todo = {}
    /\ \E r \in Dirty : row[r] = "ABSENT"
    /\ sync' = [sync EXCEPT !.pc = "backends", !.cur = NoRun, !.answer = "none",
                            !.todo = {}, !.write = IdleSync.write,
                            !.missing = {}, !.fired = {}, !.expired = sync.batch]
    /\ UNCHANGED <<row, queued, posted, faults>> /\ UnchangedBySync

SyncCommit ==
    LET ws == Flushed("none") IN
    /\ sync.pc = "runs" /\ sync.todo = {}
    /\ CanWrite(ws)
    /\ row' = [r \in Runs |-> Write(row[r], ws[r])]
    /\ sync' = [sync EXCEPT !.pc = "collect", !.write = IdleSync.write,
                            !.missing = {}, !.expired = sync.batch]
    /\ UNCHANGED <<queued, posted, faults>> /\ UnchangedBySync

\* The callback payloads: the status is read again after the commit.
SyncCollect ==
    /\ sync.pc = "collect"
    /\ \A r \in sync.fired : row[r] # "ABSENT"
    /\ sync' = [sync EXCEPT !.pc = "backends", !.fired = {}, !.expired = @ \ sync.fired,
                  !.out = [r \in Runs |-> IF r \in sync.fired THEN row[r] ELSE @[r]]]
    /\ UNCHANGED <<row, queued, posted, faults>> /\ UnchangedBySync

SyncReturn ==
    /\ sync.pc = "backends" /\ sync.left = {}
    /\ posted' = [r \in Runs |-> IF sync.out[r] = "none" THEN posted[r]
                                 ELSE Append(posted[r], sync.out[r])]
    /\ sync' = IdleSync
    /\ UNCHANGED <<row, queued, faults>> /\ UnchangedBySync

SyncLoop ==
    \/ SyncSelect \/ SyncAborts \/ SyncFlush \/ SyncStale \/ SyncCommitStale
    \/ SyncCommit \/ SyncCollect \/ SyncReturn
    \/ \E b \in Backends : SyncBackend(b)
    \/ \E r \in Runs : SyncPoll(r)

----------------------------------------------------------------------------
(* Workers: import_run_outputs_task.  All networks of a run and its final  *)
(* status are one transaction; the files are moved as they are imported.   *)

UnchangedByWorker == UNCHANGED <<job, req, sync>>

\* db.get(Run, job_id) with job_id a string: SQLite cannot bind it and the task
\* fails twice over, leaving no trace.  A run that is not UPLOADING is not for it.
Importable(r) == row[r] = "UPLOADING" /\ Dialect = "postgresql"

TaskStart(w) ==
    /\ wk[w].pc = "idle"
    /\ \E r \in Runs :
         /\ queued[r] > 0
         /\ queued' = [queued EXCEPT ![r] = @ - 1]
         /\ wk' = IF Importable(r)
                    THEN [wk EXCEPT ![w].pc = "outputs", ![w].run = r,
                                    ![w].seen = "UPLOADING"]
                    ELSE wk
    /\ UNCHANGED <<row, nets, disk, posted, faults>> /\ UnchangedByWorker

\* get_job_outputs, filtered by import_networks: a wanted file the job did not
\* produce is passed over.
SelectsNothing(r) == {}
Selected(r) == Wanted[r] \cap Outputs[r]

ListOutputs(w) ==
    LET r == wk[w].run IN
    /\ wk[w].pc = "outputs" /\ JobExists(r)
    /\ wk' = [wk EXCEPT ![w].pc = "files", ![w].todo = Selected(r)]
    /\ UNCHANGED <<row, queued, nets, disk, posted, faults>> /\ UnchangedByWorker

\* import_network_file: a content the user already has is not stored again; a new
\* one is moved into place, then inserted with the run as its source.
KnownInSession(w, f) == f \in wk[w].tx
Known(w, f) == nets[f] > 0 \/ f \in wk[w].tx

LeftInTemp(f) == UNCHANGED disk
Moved(f) == disk' = [disk EXCEPT ![f] = @ + 1]

ImportFile(w, f) ==
    /\ wk[w].pc = "files" /\ f \in wk[w].todo
    /\ JobExists(wk[w].run)
    /\ IF Known(w, f)
         THEN /\ wk' = [wk EXCEPT ![w].todo = @ \ {f}]
              /\ UNCHANGED disk
         ELSE /\ row[wk[w].run] # "ABSENT"
              /\ wk' = [wk EXCEPT ![w].todo = @ \ {f}, ![w].tx = @ \cup {f}]
              /\ Moved(f)
    /\ UNCHANGED <<row, queued, nets, posted, faults>> /\ UnchangedByWorker

\* What the session still has to commit: after a rollback, nothing.
KeepsInserts(w) == wk[w].tx
AfterRollback(w) == {}

\* Where the handlers of a failed import go: the run is looked up once more.
GivesUp(w, seen, tx) ==
    wk' = IF row[wk[w].run] = "ABSENT"
            THEN [wk EXCEPT ![w] = IdleWorker]
            ELSE [wk EXCEPT ![w] = [@ EXCEPT !.pc = "failing", !.seen = seen,
                                             !.todo = {}, !.tx = tx]]

\* Listing the outputs fails (the job is gone, the backend is out of reach or was
\* deleted): no rollback, the loaded status stays the one the session compares to.
ListFails(w) ==
    /\ wk[w].pc = "outputs"
    /\ IF JobExists(wk[w].run) THEN Fault ELSE UNCHANGED faults
    /\ GivesUp(w, "UPLOADING", wk[w].tx)
    /\ UNCHANGED <<row, queued, nets, disk, posted>> /\ UnchangedByWorker

\* A file fails: the download (the job is gone, a fault) or, once the file is
\* already moved, reading its metadata or inserting it for a run deleted meanwhile.
FileFails(w) ==
    LET r == wk[w].run IN
    /\ wk[w].pc = "files" /\ wk[w].todo # {}
    /\ \/ ~JobExists(r) /\ UNCHANGED <<disk, faults>>
       \/ Fault /\ UNCHANGED disk
       \/ /\ JobExists(r)
          /\ IF row[r] = "ABSENT" THEN UNCHANGED faults ELSE Fault
          /\ \E f \in wk[w].todo : ~Known(w, f) /\ Moved(f)
    /\ GivesUp(w, row[r], AfterRollback(w))
    /\ UNCHANGED <<row, queued, nets, posted>> /\ UnchangedByWorker

Inserts(w) == nets' = [f \in Files |-> IF f \in wk[w].tx THEN nets[f] + 1 ELSE nets[f]]

\* run.status = ERROR; commit.  Deleted meanwhile: the commit fails, only logged.
MarkError(w) ==
    LET r == wk[w].run
        writes == wk[w].seen # "ERROR"
    IN  /\ wk[w].pc = "failing"
        /\ writes => ~Locked(r)
        /\ row' = IF writes /\ row[r] # "ABSENT" THEN [row EXCEPT ![r] = "ERROR"] ELSE row
        /\ wk' = IF writes /\ row[r] = "ABSENT" THEN [wk EXCEPT ![w] = IdleWorker]
                  ELSE [wk EXCEPT ![w].pc = "committed", ![w].tx = {}]
        /\ IF writes /\ row[r] = "ABSENT" THEN UNCHANGED nets ELSE Inserts(w)
        /\ UNCHANGED <<queued, disk, posted, faults>> /\ UnchangedByWorker

\* run.status = COMPLETED; commit, with the networks.  Deleted meanwhile (only when
\* nothing was inserted): StaleDataError, then PendingRollbackError, only logged.
Complete(w) ==
    LET r == wk[w].run IN
    /\ wk[w].pc = "files" /\ wk[w].todo = {}
    /\ ~Locked(r)
    /\ IF row[r] = "ABSENT"
         THEN wk' = [wk EXCEPT ![w] = IdleWorker] /\ UNCHANGED <<row, nets>>
         ELSE /\ row' = [row EXCEPT ![r] = "COMPLETED"]
              /\ Inserts(w)
              /\ wk' = [wk EXCEPT ![w].pc = "committed", ![w].tx = {}]
    /\ UNCHANGED <<queued, disk, posted, faults>> /\ UnchangedByWorker

\* fire_callback_sync: the status is read again after the commit.
TaskEnd(w) ==
    LET r == wk[w].run IN
    /\ wk[w].pc = "committed"
    /\ IF row[r] = "ABSENT" THEN UNCHANGED posted ELSE Post(r, row[r])
    /\ wk' = [wk EXCEPT ![w] = IdleWorker]
    /\ UNCHANGED <<row, queued, nets, disk, faults>> /\ UnchangedByWorker

Worker(w) ==
    \/ TaskStart(w) \/ ListOutputs(w) \/ ListFails(w) \/ FileFails(w)
    \/ MarkError(w) \/ Complete(w) \/ TaskEnd(w)
    \/ \E f \in Files : ImportFile(w, f)

----------------------------------------------------------------------------
(* Faults of the processes and of the broker.                              *)

\* A worker dies in a task: its transaction is undone.  With late acknowledgement
\* the message comes back when the whole worker is lost, and does not when only the
\* child process is killed (out of memory, hard time limit).
WorkerKilled(w) ==
    /\ Broker = "celery" /\ wk[w].pc # "idle"
    /\ Fault
    /\ Enqueue(wk[w].run) \/ UNCHANGED queued
    /\ wk' = [wk EXCEPT ![w] = IdleWorker]
    /\ UNCHANGED <<row, nets, disk, posted>> /\ UnchangedByWorker

\* The unacknowledged message of a long task reaches its visibility timeout.
Redelivered(w) ==
    /\ Broker = "celery" /\ wk[w].pc # "idle"
    /\ Fault
    /\ Enqueue(wk[w].run)
    /\ UNCHANGED <<row, wk, nets, disk, posted>> /\ UnchangedByWorker

\* clear_all_cache deletes every key of the Redis database the broker lives in.
ClearAllCache ==
    /\ Broker = "celery" /\ \E r \in Runs : queued[r] > 0
    /\ Fault
    /\ queued' = [r \in Runs |-> 0]
    /\ UNCHANGED <<row, job, req, sync, wk, nets, disk, posted>>

\* The web process restarts: open sessions are rolled back, the sync loop starts
\* over; the in-process queue and its thread go with it.
WebRestart ==
    /\ Fault
    /\ req' = [q \in Requests |-> IF req[q].pc = "unused" THEN req[q]
                                  ELSE [Unserved EXCEPT !.pc = "done"]]
    /\ sync' = IdleSync
    /\ IF Broker = "memory"
         THEN /\ queued' = [r \in Runs |-> 0]
              /\ wk' = [w \in Workers |-> IdleWorker]
         ELSE UNCHANGED <<queued, wk>>
    /\ UNCHANGED <<row, job, nets, disk, posted>>

Faults ==
    \/ WebRestart \/ ClearAllCache \/ SyncBrokerDown
    \/ \E r \in Runs : SyncPollFails(r)
    \/ \E q \in Requests : CallFails(q) \/ BrokerDown(q)
    \/ \E w \in Workers : WorkerKilled(w) \/ Redelivered(w)

----------------------------------------------------------------------------
Next ==
    \/ SyncLoop
    \/ \E q \in Requests : Request(q)
    \/ \E w \in Workers : Worker(w)
    \/ \E r \in Runs : JobStep(r)
    \/ Faults

Spec == Init /\ [][Next]_vars

\* The loop, the workers and the handlers keep running; jobs and faults need not.
Fairness ==
    /\ WF_vars(SyncLoop)
    /\ \A q \in Requests : WF_vars(Request(q) /\ req[q].pc # "unused")
    /\ \A w \in Workers : WF_vars(Worker(w))

FairSpec == Spec /\ Fairness
----------------------------------------------------------------------------
(* Properties.                                                             *)

Contract == INSTANCE RunContract WITH status <- row, told <- posted

Over(r) == job[r] \in Finished \cup {"GONE"}

ReqRecord == [pc : {"unused", "loaded", "answered", "flushed", "committed", "done"},
              seen : Statuses \cup {"ABSENT"},
              answer : JobStatuses \cup {"404", "none"},
              write : Writes, due : BOOLEAN]

SyncRecord == [pc : {"idle", "backends", "runs", "answered", "collect"},
               batch : SUBSET Runs, seen : [Runs -> Statuses \cup {"ABSENT"}],
               expired : SUBSET Runs, left : SUBSET Backends, todo : SUBSET Runs,
               cur : Runs \cup {NoRun}, answer : JobStatuses \cup {"none"},
               missing : SUBSET Runs, write : [Runs -> Writes],
               fired : SUBSET Runs, out : [Runs -> Statuses \cup {"none"}]]

WorkerRecord == [pc : {"idle", "outputs", "files", "failing", "committed"},
                 run : Runs \cup {NoRun}, seen : Statuses \cup {"ABSENT"},
                 todo : SUBSET Files, tx : SUBSET Files]

\* Type invariant of the rows, jobs, sessions, queue and stores.
TypeOK ==
    /\ row \in [Runs -> Statuses \cup {"ABSENT"}]
    /\ job \in [Runs -> JobStatuses \cup {"NONE", "GONE"}]
    /\ req \in [Requests -> ReqRecord]
    /\ sync \in SyncRecord
    /\ queued \in [Runs -> Nat]
    /\ wk \in [Workers -> WorkerRecord]
    /\ nets \in [Files -> Nat]
    /\ disk \in [Files -> Nat]
    /\ posted \in [Runs -> Seq(Statuses)]
    /\ faults \in 0..MaxFaults
    /\ sync.pc = "answered" => sync.cur \in Runs /\ sync.answer \in JobStatuses
    /\ \A w \in Workers : wk[w].pc # "idle" => wk[w].run \in Runs

\* The database never runs ahead of the backend: a run is shown as settled, its
\* import is queued and its webhook is called only when its job is over there (it
\* ended or the backend dropped it), whatever the sessions, workers and faults
\* do with stale snapshots (sync_run_from_job, cancel_run, import_run_outputs_task).
SettledMeansOver ==
    \A r \in Runs :
        row[r] \in SyncedStatuses \/ queued[r] > 0 \/ posted[r] # <<>> => Over(r)

\* A stored run has a job, whatever the order in which the answers to POST /jobs are
\* lost: create_run inserts the row only with the job id the backend returned.
StoredMeansSubmitted == \A r \in Runs : row[r] # "ABSENT" => job[r] # "NONE"

\* What a request's session holds about run r is true of the job.
RequestSound(s, r) ==
    /\ s.seen \in SyncedStatuses => Over(r)
    /\ s.answer \in Finished \cup {"404"} => Over(r)
    /\ s.write \in SyncedStatuses \/ s.due \/ s.pc = "committed" => Over(r)
    /\ s.pc \notin {"unused", "done"} => job[r] # "NONE"

SyncSound ==
    /\ \A r \in Runs :
          sync.seen[r] \in SyncedStatuses \/ sync.write[r] \in SyncedStatuses
             \/ sync.out[r] # "none" => Over(r)
    /\ \A r \in sync.missing \cup sync.fired : Over(r)
    /\ \A r \in Runs :
          r \in sync.batch \cup sync.todo \/ sync.write[r] # "none" => job[r] # "NONE"
    /\ sync.pc = "answered" =>
          job[sync.cur] # "NONE" /\ (sync.answer \in Finished => Over(sync.cur))

\* A session may be late but never ahead: whenever its snapshot, its answer, its pending
\* UPDATE, its callback or its import says that a job ended, the job did, however long
\* the session keeps it (get_run, cancel_run, sync_non_terminal_runs, the workers).
SnapshotsAreSound ==
    /\ \A q \in Requests : RequestSound(req[q], Target[q])
    /\ SyncSound
    /\ \A w \in Workers : wk[w].pc # "idle" => Over(wk[w].run)

\* A removed run does not come back: no session that loaded it before remove_run
\* writes its row again (an UPDATE of a deleted row is a StaleDataError).
RemovedStaysRemoved ==
    [][\A r \in Submitted : row[r] = "ABSENT" => row'[r] = "ABSENT"]_row

\* An import is all or nothing: network rows appear only in the commit that makes
\* a run COMPLETED, and that commit leaves none of the run's outputs without a row.
ImportIsAtomic ==
    [][nets' # nets =>
         \E r \in Runs :
            /\ row'[r] = "COMPLETED"
            /\ \A f \in Files : nets'[f] # nets[f] => f \in Wanted[r] \cap Outputs[r]
            /\ \A f \in Wanted[r] \cap Outputs[r] : nets'[f] > 0]_<<row, nets>>

\* Every stored network row, and every row a worker is about to commit, has a file
\* of its own in the data directory (shutil.move precedes the INSERT).
RowsHaveFiles ==
    \A f \in Files : nets[f] + Cardinality({w \in Workers : f \in wk[w].tx}) <= disk[f]

\* schemas/run.py: "files to import as networks after the run completes".  A COMPLETED
\* run's wanted outputs are networks.  True where every session loads a run before its
\* import starts, so with no cancel_run and no second backend.
CompletedMeansImported ==
    \A r \in Runs : row[r] = "COMPLETED" =>
        \A f \in Wanted[r] \cap Outputs[r] : nets[f] > 0

\* One user never stores the same content twice.  import_network_file looks first
\* and inserts later, which is enough as long as one worker runs.
ContentIsUnique == \A f \in Files : nets[f] <= 1

\* With the sync loop, one in-process worker and remove_run at work, but no get_run or
\* cancel_run, each run keeps the contract of RunContract: final statuses are final, an
\* import ends COMPLETED or ERROR, a removed run stays removed, and the webhook is called
\* at most once, with the final status.
KeepsContract == Contract!Spec

\* A run whose job is over does not stay PENDING, SETUP or RUNNING: some cycle of
\* the sync loop, or a request, notices (run_sync_loop).
FinishedJobIsNoticed ==
    \A r \in Runs : (row[r] \in Active /\ Over(r)) ~> row[r] \notin Active

\* schemas/run.py: "Webhook invoked when the run finishes".  A run whose job completed
\* is announced sooner or later.
FinishIsAnnounced == \A r \in Runs : job[r] = "COMPLETED" ~> posted[r] # <<>>

=============================================================================
