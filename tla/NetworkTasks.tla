---------------------------- MODULE NetworkTasks ----------------------------
(***************************************************************************)
(* Background tasks of the API: uploaded networks and networks fetched from *)
(* a URL become files and rows (tasks.py _import_tmp, import_network_file), *)
(* plots are made through the response cache (cache.py), and a client polls *)
(* the status of its task (task_queue.py, task_utils.py, client.ts).       *)
(*                                                                         *)
(* With "memory" the queue lives in the program and has one worker, and    *)
(* nothing is cached; with "celery" queue, results and cache are in Redis,  *)
(* several workers take tasks, and a task whose worker died is delivered   *)
(* again or ends as FAILURE.  All imports are of one user.  A network's id  *)
(* is the job that stored it.  A step ends where another thread, worker or *)
(* process gets in.  "met" remembers what went wrong in a behaviour.       *)
(***************************************************************************)
EXTENDS Naturals, FiniteSets, SequencesExt

CONSTANTS Uploads, Urls, Plots,  \* the jobs, by what was asked for
          NoJob,
          Sessions,              \* sets of jobs that may be asked for together
          Content,               \* the hash of the file an import brings
          Unreadable,            \* contents PyPSA can not open
          NetworkOf,             \* the network a plot is of
          Earlier,               \* imports of an earlier session
          Polled,                \* jobs whose client stays and polls
          Workers,               \* number of Celery workers
          TTL,                   \* plot_cache_ttl
          NetworkAge,            \* how old a network from NetworkCache may be
          MaxRun,                \* from loading the network to caching the plot
          MaxTime, MaxDays, MaxLosses, MaxDeletions  \* bounds

Imports == Uploads \cup Urls
Jobs == Imports \cup Plots

ASSUME TasksAssumption ==
    /\ Uploads \cap Urls = {} /\ Imports \cap Plots = {} /\ NoJob \notin Jobs
    /\ NetworkOf \in [Plots -> Imports] /\ Earlier \subseteq Imports
    /\ Polled \subseteq Imports
    /\ \A i, j \in Earlier : Content[i] = Content[j] => i = j
    /\ {NetworkAge, MaxRun, MaxTime, MaxDays, MaxLosses, MaxDeletions} \subseteq Nat
    /\ {TTL, Workers} \subseteq Nat \ {0}

VARIABLES mode, session,
          queue,      \* tasks that wait for a worker
          at,         \* where each job is
          state,      \* what the result store says of its task
          old,        \* entries of the store older than 24 hours
          outcome,    \* its result: TaskResultResponse.status
          found,      \* the network it returns
          temp,       \* jobs with a temporary file
          stored,     \* jobs whose file is in the data directory
          rows,       \* networks
          deleting,   \* networks whose row is deleted and whose file is not yet
          poll,       \* the client of each job
          plot, cached, now,  \* when the network of a plot was read; the plot cache
          deleted,    \* networks deleted so far
          days, losses, met

store == <<queue, state, old, outcome>>
files == <<temp, stored, rows, deleting, deleted>>
plotting == <<plot, cached, now>>
counts == <<days, losses>>
vars == <<mode, session, store, at, found, files, poll, plotting, counts, met>>

Memory == mode = "memory"
NotCached == [read |-> 0, until |-> 0]
Idle == [pc |-> "none", state |-> "none"]

Init ==
    /\ mode \in {"memory", "celery"} /\ session \in Sessions
    /\ queue = <<>> /\ old = {}
    /\ at = [j \in Jobs |-> IF j \in Earlier THEN "ended" ELSE "new"]
    /\ state = [j \in Jobs |-> "none"] /\ outcome = [j \in Jobs |-> "none"]
    /\ found = [j \in Jobs |-> NoJob]
    /\ temp = {} /\ stored = Earlier /\ rows = Earlier /\ deleting = {} /\ deleted = {}
    /\ poll = [j \in Jobs |-> Idle]
    /\ plot = [j \in Plots |-> 0] /\ cached = [i \in Imports |-> NotCached] /\ now = 0
    /\ days = 0 /\ losses = 0 /\ met = {}

----------------------------------------------------------------------------
Goes(j, place) == at' = [at EXCEPT ![j] = place]
Meets(what) == met' = met \cup what
Working == {"fetch", "download", "check", "find", "move", "read", "commit", "refresh",
            "cache", "load", "keep", "finish"}
Busy == {j \in Jobs : at[j] \in Working}

(* The requests, apply_async and the status of a task.                     *)

\* upload_network: the body is streamed into a temporary file first.
Upload(j) ==
    /\ j \in session \cap Uploads /\ at[j] = "new"
    /\ temp' = temp \cup {j} /\ Goes(j, "stream")
    /\ UNCHANGED <<mode, session, store, found, stored, rows, deleting, deleted, poll, plotting, counts, met>>

UploadFails(j) ==
    /\ at[j] = "stream"
    /\ temp' = temp \ {j} /\ Goes(j, "refused")
    /\ UNCHANGED <<mode, session, store, found, stored, rows, deleting, deleted, poll, plotting, counts, met>>

\* A new entry; those older than a day are dropped, also of tasks that still run.
Pruned == IF Memory THEN old ELSE {}
Enqueued(j) ==
    /\ queue' = Append(queue, j)
    /\ state' = [k \in Jobs |-> IF k = j THEN "PENDING"
                                ELSE IF k \in Pruned THEN "none" ELSE state[k]]
    /\ old' = old \ Pruned /\ UNCHANGED outcome
    /\ Goes(j, "queued")
    /\ poll' = IF j \in Polled THEN [poll EXCEPT ![j].pc = "wait"] ELSE poll

MaySubmit(j) ==
    \/ at[j] = "stream"
    \/ j \in session \cap Urls /\ at[j] = "new"
    \/ j \in session \cap Plots /\ at[j] = "new" /\ NetworkOf[j] \in rows

Submit(j) ==
    /\ MaySubmit(j) /\ Enqueued(j)
    /\ UNCHANGED <<mode, session, found, files, plotting, counts, met>>

\* The broker can not be reached: queue_task is outside of the try that cleans up.
SubmitFails(j) ==
    /\ ~Memory /\ MaySubmit(j)
    /\ Goes(j, "unqueued")
    /\ UNCHANGED <<mode, session, store, found, files, poll, plotting, counts, met>>

\* get_task_status_response reads the state twice, and the result if the second is SUCCESS.
\* A final state is kept in Celery's AsyncResult and not read again.
SecondRead(j) ==
    IF ~Memory /\ poll[j].state \in {"SUCCESS", "FAILURE"} THEN poll[j].state ELSE state[j]

ReadState(j) ==
    /\ poll[j].pc = "wait"
    /\ poll' = [poll EXCEPT ![j] = [pc |-> "asked", state |-> state[j]]]
    /\ UNCHANGED <<mode, session, store, at, found, files, plotting, counts, met>>

\* pollImport: what it makes of an answer.
TakesAnyResult(first, second, result) ==
    IF first = "SUCCESS" /\ second = "SUCCESS" THEN "network"
    ELSE IF first = "FAILURE" THEN "failed" ELSE "wait"
Understood(first, second, result) ==
    IF first = "SUCCESS" /\ second = "SUCCESS"
      THEN IF result = "error" THEN "failed" ELSE "network"
    ELSE IF first = "FAILURE" THEN "failed" ELSE "wait"

Answer(j) ==
    /\ poll[j].pc = "asked"
    /\ poll' = [poll EXCEPT ![j] = [pc |-> Understood(poll[j].state, SecondRead(j), outcome[j]),
                                    state |-> "none"]]
    /\ UNCHANGED <<mode, session, store, at, found, files, plotting, counts, met>>

\* The client's time is over, its page is left, or a request failed.
GiveUp(j) ==
    /\ poll[j].pc = "wait"
    /\ poll' = [poll EXCEPT ![j].pc = "unknown"]
    /\ UNCHANGED <<mode, session, store, at, found, files, plotting, counts, met>>

----------------------------------------------------------------------------
(* The worker.                                                             *)

MayStart(j) == IF Memory THEN Busy = {} /\ Head(queue) = j ELSE Cardinality(Busy) < Workers

FirstStep(j) == CASE j \in Uploads -> "check" [] j \in Urls -> "fetch" [] j \in Plots -> "cache"

\* _execute_task; an entry that was pruned stays away.
Start(j) ==
    /\ \E k \in 1..Len(queue) : queue[k] = j /\ queue' = RemoveAt(queue, k)
    /\ MayStart(j)
    /\ state' = [state EXCEPT ![j] = IF Memory /\ @ = "none" THEN @ ELSE "PROGRESS"]
    /\ Goes(j, FirstStep(j))
    /\ UNCHANGED <<mode, session, old, outcome, found, files, poll, plotting, counts, met>>

\* The end of _import_tmp and _import_from_url, with rollback on an exception.
LeavesTemp(j) == UNCHANGED temp
CleansUp(j) == temp' = temp \ {j}
Fails(j) ==
    /\ outcome' = [outcome EXCEPT ![j] = "error"]
    /\ Goes(j, "finish") /\ CleansUp(j)
    /\ UNCHANGED <<stored, rows, deleting, deleted, found>>

FetchUrl(j) ==
    /\ at[j] = "fetch"
    /\ \/ Fails(j)
       \/ temp' = temp \cup {j} /\ Goes(j, "download") /\ UNCHANGED <<outcome, found, stored, rows, deleting, deleted>>
    /\ UNCHANGED <<mode, session, queue, state, old, poll, plotting, counts, met>>

Download(j) ==
    /\ at[j] = "download"
    /\ \/ Fails(j)
       \/ Goes(j, "check") /\ UNCHANGED <<outcome, found, files>>
    /\ UNCHANGED <<mode, session, queue, state, old, poll, plotting, counts, met>>

\* The user may have lost the permission; a file that was moved already has no hash.
CheckUser(j) ==
    /\ at[j] = "check"
    /\ \/ Fails(j)
       \/ j \in temp /\ Goes(j, "find") /\ UNCHANGED <<outcome, found, files>>
    /\ UNCHANGED <<mode, session, queue, state, old, poll, plotting, counts, met>>

\* A network with the same content is the answer, and the new file goes.
FindContent(j) ==
    /\ at[j] = "find"
    /\ \/ \E i \in rows : /\ Content[i] = Content[j]
                          /\ found' = [found EXCEPT ![j] = i]
                          /\ temp' = temp \ {j} /\ Goes(j, "refresh")
       \/ /\ \A i \in rows : Content[i] # Content[j]
          /\ Goes(j, "move") /\ UNCHANGED <<found, temp>>
    /\ UNCHANGED <<mode, session, store, stored, rows, deleting, deleted, poll, plotting, counts, met>>

MoveFile(j) ==
    /\ at[j] = "move"
    /\ temp' = temp \ {j} /\ stored' = stored \cup {j} /\ Goes(j, "read")
    /\ UNCHANGED <<mode, session, store, found, rows, deleting, deleted, poll, plotting, counts, met>>

ReadMetadata(j) ==
    /\ at[j] = "read"
    /\ IF Content[j] \in Unreadable
         THEN Fails(j) /\ Meets({"unreadable"})
         ELSE /\ found' = [found EXCEPT ![j] = j] /\ Goes(j, "commit")
              /\ UNCHANGED <<outcome, files, met>>
    /\ UNCHANGED <<mode, session, queue, state, old, poll, plotting, counts>>

\* The commit may fail, and with it the import.
Commit(j) ==
    /\ at[j] = "commit"
    /\ \/ /\ rows' = rows \cup {j}
          /\ Goes(j, "refresh")
          /\ UNCHANGED <<outcome, found, temp, stored, deleting, deleted, met>>
       \/ Fails(j) /\ Meets({"uncommitted"})
    /\ UNCHANGED <<mode, session, queue, state, old, poll, plotting, counts>>

\* A network that was deleted meanwhile can not be refreshed.
Refresh(j) ==
    /\ at[j] = "refresh"
    /\ IF found[j] \in rows
         THEN /\ outcome' = [outcome EXCEPT ![j] = "success"]
              /\ Goes(j, "finish") /\ UNCHANGED <<found, files>>
         ELSE Fails(j)
    /\ UNCHANGED <<mode, session, queue, state, old, poll, plotting, counts, met>>

\* The cache decorator: a plot that is not yet expired, whatever became of its network.
Expires(n) == cached[n].until <= now
LookInCache(j) ==
    /\ at[j] = "cache"
    /\ IF Memory \/ Expires(NetworkOf[j])
         THEN Goes(j, "load") /\ UNCHANGED <<outcome, plot>>
         ELSE /\ plot' = [plot EXCEPT ![j] = cached[NetworkOf[j]].read]
              /\ outcome' = [outcome EXCEPT ![j] = "success"] /\ Goes(j, "finish")
    /\ UNCHANGED <<mode, session, queue, state, old, found, files, poll, cached, now, counts, met>>

LoadNetwork(j) ==
    /\ at[j] = "load"
    /\ IF NetworkOf[j] \in stored
         THEN /\ \E age \in 0..NetworkAge : age <= now /\ plot' = [plot EXCEPT ![j] = now - age]
              /\ Goes(j, "keep") /\ UNCHANGED <<outcome, found, files>>
         ELSE Fails(j) /\ UNCHANGED plot
    /\ UNCHANGED <<mode, session, queue, state, old, poll, cached, now, counts, met>>

\* setex, in whole seconds from now.
KeptForever(j) == [read |-> plot[j], until |-> MaxTime + 1]
Kept(j) == [read |-> plot[j], until |-> now + TTL]
KeepPlot(j) ==
    /\ at[j] = "keep"
    /\ cached' = IF Memory THEN cached ELSE [cached EXCEPT ![NetworkOf[j]] = Kept(j)]
    /\ outcome' = [outcome EXCEPT ![j] = "success"] /\ Goes(j, "finish")
    /\ UNCHANGED <<mode, session, queue, state, old, found, files, poll, plot, now, counts, met>>

\* The end of the task; that a pruned entry is missing is swallowed by the pool.
EndsIfKnown(j) == state[j] # "none" /\ state' = [state EXCEPT ![j] = "SUCCESS"]
StoresResult(j) ==
    state' = [state EXCEPT ![j] = IF Memory /\ @ = "none" THEN @ ELSE "SUCCESS"]
Finish(j) ==
    /\ at[j] = "finish"
    /\ StoresResult(j)
    /\ Goes(j, "ended")
    /\ UNCHANGED <<mode, session, queue, old, outcome, found, files, poll, plotting, counts, met>>

----------------------------------------------------------------------------
(* What else happens.                                                      *)

\* delete_network: the row, then the file; a file that is in use stays.
DeleteNetwork(i) ==
    /\ i \in rows /\ Cardinality(deleted) < MaxDeletions
    /\ rows' = rows \ {i} /\ deleting' = deleting \cup {i} /\ deleted' = deleted \cup {i}
    /\ UNCHANGED <<mode, session, store, at, found, temp, stored, poll, plotting, counts, met>>

RemovesFile(i) == stored' = stored \ {i}
Unlink(i) ==
    /\ i \in deleting /\ deleting' = deleting \ {i}
    /\ \/ RemovesFile(i) /\ UNCHANGED met
       \/ UNCHANGED stored /\ Meets({"held"})
    /\ UNCHANGED <<mode, session, store, at, found, temp, rows, deleted, poll, plotting, counts>>

\* The program dies: its requests, the pool and _tasks with it.
Crash ==
    /\ losses < MaxLosses /\ losses' = losses + 1 /\ Meets({"lost"})
    /\ at' = [j \in Jobs |-> IF at[j] = "stream" \/ (Memory /\ at[j] \in Working \cup {"queued"})
                               THEN "lost" ELSE at[j]]
    /\ IF Memory THEN /\ queue' = <<>> /\ state' = [j \in Jobs |-> "none"] /\ old' = {}
                      /\ UNCHANGED outcome
                 ELSE UNCHANGED store
    /\ deleting' = {}
    /\ poll' = [j \in Jobs |-> IF poll[j].pc = "asked" THEN [poll[j] EXCEPT !.pc = "unknown"] ELSE poll[j]]
    /\ UNCHANGED <<mode, session, found, temp, stored, rows, deleted, plotting, days>>

\* A Celery worker dies: acks_late brings its task back, or its time limit fails it.  (A
\* task that fetches again what it moved before would bring a second network: not modelled.)
LoseWorker(j) ==
    /\ ~Memory /\ j \in Busy
    /\ losses < MaxLosses /\ losses' = losses + 1 /\ Meets({"lost"})
    /\ \/ /\ j \in Urls => j \notin stored \cup deleted
          /\ queue' = Append(queue, j) /\ Goes(j, "queued")
          /\ UNCHANGED <<state, old, outcome>>
       \/ /\ state' = [state EXCEPT ![j] = "FAILURE"] /\ Goes(j, "ended")
          /\ UNCHANGED <<queue, old, outcome>>
    /\ UNCHANGED <<mode, session, found, files, poll, plotting, days>>

\* No client waits for a day; the results that Celery keeps expire.
DayPasses ==
    /\ days < MaxDays /\ days' = days + 1
    /\ \A j \in Jobs : poll[j].pc \notin {"wait", "asked"}
    /\ IF Memory THEN old' = {j \in Jobs : state[j] # "none"} /\ UNCHANGED state
                 ELSE state' = [j \in Jobs |-> IF at[j] = "ended" THEN "none" ELSE state[j]] /\ UNCHANGED old
    /\ UNCHANGED <<mode, session, queue, at, outcome, found, files, poll, plotting, losses, met>>

\* Time matters where a plot is cached.
Tick ==
    /\ ~Memory /\ session \cap Plots # {} /\ now < MaxTime
    /\ \A j \in Plots : at[j] = "keep" => now - plot[j] < NetworkAge + MaxRun
    /\ now' = now + 1
    /\ UNCHANGED <<mode, session, store, at, found, files, poll, plot, cached, counts, met>>

\* The administrator's DELETE /cache/redis/plots and /redis/{network_id}.
ClearPlotCache ==
    /\ \E i \in Imports : cached[i] # NotCached
    /\ cached' = [i \in Imports |-> NotCached]
    /\ UNCHANGED <<mode, session, store, at, found, files, poll, plot, now, counts, met>>

\* DELETE /cache/redis: every key, also those of Celery, whose tasks that wait and whose
\* results are gone.  A worker that has its task goes on.
ClearAllCache ==
    /\ ~Memory
    /\ queue # <<>> \/ \E j \in Jobs : state[j] # "none" \/ \E i \in Imports : cached[i] # NotCached
    /\ queue' = <<>> /\ state' = [j \in Jobs |-> "none"]
    /\ cached' = [i \in Imports |-> NotCached]
    /\ at' = [j \in Jobs |-> IF at[j] = "queued" THEN "wiped" ELSE at[j]]
    /\ UNCHANGED <<mode, session, old, outcome, found, files, poll, plot, now, counts, met>>

----------------------------------------------------------------------------
Work(j) ==
    \/ Start(j) \/ FetchUrl(j) \/ Download(j) \/ CheckUser(j) \/ FindContent(j) \/ MoveFile(j)
    \/ ReadMetadata(j) \/ Commit(j) \/ Refresh(j) \/ LookInCache(j) \/ LoadNetwork(j)
    \/ KeepPlot(j) \/ Finish(j)
Ask(j) ==
    \/ Upload(j) \/ UploadFails(j) \/ Submit(j) \/ SubmitFails(j)
    \/ ReadState(j) \/ Answer(j) \/ GiveUp(j)

Next ==
    \/ \E j \in Jobs : Ask(j) \/ Work(j) \/ LoseWorker(j)
    \/ \E i \in Imports : DeleteNetwork(i) \/ Unlink(i)
    \/ Crash \/ DayPasses \/ Tick \/ ClearPlotCache \/ ClearAllCache

Spec == Init /\ [][Next]_vars /\ \A j \in Jobs \ Earlier : WF_vars(Work(j))

----------------------------------------------------------------------------
(* Properties.                                                             *)

Places == Working \cup {"new", "stream", "refused", "unqueued", "queued", "wiped", "ended", "lost"}
States == {"none", "PENDING", "PROGRESS", "SUCCESS", "FAILURE"}

TasksTyped ==
    /\ at \in [Jobs -> Places] /\ state \in [Jobs -> States]
    /\ outcome \in [Jobs -> {"none", "success", "error"}]
    /\ found \in [Jobs -> Jobs \cup {NoJob}]
FilesTyped ==
    /\ temp \subseteq Imports /\ stored \subseteq Imports /\ rows \subseteq Imports
    /\ deleting \subseteq deleted /\ deleted \subseteq Imports
ClientsTyped ==
    poll \in [Jobs -> [pc : {"none", "wait", "asked", "network", "failed", "unknown"},
                       state : States]]
CacheTyped ==
    /\ plot \in [Plots -> 0..MaxTime] /\ now \in 0..MaxTime
    /\ cached \in [Imports -> [read : 0..MaxTime, until : 0..(MaxTime + TTL)]]
SessionTyped ==
    /\ mode \in {"memory", "celery"} /\ session \in Sessions
    /\ days \in 0..MaxDays /\ losses \in 0..MaxLosses
    /\ met \subseteq {"unreadable", "uncommitted", "held", "lost"}

\* Type invariant of the jobs, the queue, the files, the clients and the cache.
TypeOK ==
    /\ queue \in Seq(Jobs) /\ old \subseteq Jobs
    /\ TasksTyped /\ FilesTyped /\ ClientsTyped /\ CacheTyped /\ SessionTyped

\* The only files left behind are those of the leaks the program has.  A temporary file
\* belongs to an upload that is under way or to a task that waits or has not moved it
\* yet, however the upload or the import fails, and otherwise to an upload whose task was
\* never queued (the broker was down) or was deleted with all of Redis, unless a process
\* died.  Every network has its file, and every file in the data directory has its
\* network or is being imported or deleted, unless its content could not be read or
\* committed after it was moved, it was in use when it was deleted, or a process died.
NoFileLeftBehind ==
    /\ TypeOK
    /\ "lost" \notin met => \A j \in temp :
          \/ at[j] \in {"stream", "queued", "download", "check", "find", "move"}
          \/ j \in Uploads /\ at[j] \in {"unqueued", "wiped"}
    /\ rows \subseteq stored
    /\ met = {} => \A i \in stored : i \in rows \cup deleting \/ at[i] \in {"read", "commit"}

\* A client that is told of success got a network of the content it sent, which was stored;
\* one that is told of failure has stored nothing, unless a worker died (a task delivered
\* again finds its file moved and reports an error after its network was committed).
AnswersAreTrue ==
    \A j \in Polled :
        /\ poll[j].pc = "network" =>
             /\ found[j] \in rows \cup deleted /\ Content[found[j]] = Content[j]
        /\ poll[j].pc = "failed" /\ "lost" \notin met => j \notin rows

\* What a plot shows was read at most the age of a cached network, one run and one
\* time to live of the plot ago, whoever made it and however tasks overlap.
PlotIsRecent ==
    [][\A j \in Plots :
        at'[j] = "finish" /\ at[j] # "finish" /\ outcome'[j] = "success"
        => now - plot'[j] < NetworkAge + MaxRun + TTL]_vars

\* Every task that was accepted comes to its end, dies with the program or is deleted with
\* all of Redis: again and again nothing waits and no worker is busy, whatever fails, is
\* pruned or delivered again.
QueueDrains == []<>(queue = <<>> /\ Busy = {})
=============================================================================
