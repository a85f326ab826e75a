# PyPSA App: a verification development

PyPSA App is a FastAPI service with a Svelte front end. People log in, upload
PyPSA networks, plot and compare them, and submit *runs*: workflows that a
remote Snakedispatch backend executes. When a run ends, its output networks are
imported into the application and a webhook is called.

This directory holds TLA+ modules that model the parts of that program with
interesting control, the TLC configurations that check them on small instances,
and theorems about them that TLAPS checks for every instance. Paths below are
relative to `src/src/pypsa_app/backend/` unless they begin with `frontend`.

    tlc -workers 2 -config MCRunImport.cfg MCRunLifecycle.tla     # one run
    tlapm RunLifecycle_proofs.tla                                 # one proof module

`PROJECT.json` lists the components, the runs with the properties each checks,
one mutant per property (a plausible slip in one definition, which the run must
notice), the source lines of every definition, the disagreements found and the
hazards.

## 1. Inventory

| Component | State it keeps | Operations | Talks to | What makes it correct |
|---|---|---|---|---|
| Run synchronisation (`services/sync.py`, `services/callback.py`) | the row of a run, a session per cycle | apply an answer, one cycle over every backend, the loop, the webhook | Snakedispatch, the database, the queue, the webhook's host | a row never claims more than its job did; a finished job is noticed; the webhook is called at the end |
| Run requests (`api/routes/runs.py`, `api/routes/admin/runs.py`, `services/run.py`) | a session per request | create, read (with a poll), cancel, remove, update | the same | a row has a job; a removed run stays removed; requests agree with the loop |
| Import of run outputs (`tasks.py`) | queued messages, a session per task | import the outputs of a run | the queue, Snakedispatch, the database, the data directory | all networks of a run or none; COMPLETED means imported |
| Background tasks (`task_queue.py`, `tasks.py`, `api/utils/task_utils.py`, `networks_remote.py`) | the queue, the table of task states, temporary files, results | upload or fetch a network, make a plot, poll a task | clients, database, data directory, Redis | no file is left behind; the client is told what happened; the queue goes on |
| Networks (`services/network.py`, `api/routes/networks*.py`, `admin/networks.py`) | rows, files in the data directory or on the user's disk | import, register in place, view, delete | the database, the file system | a row has a file, hash and metadata agree, a content is stored once |
| Network cache (`NetworkCache` in `services/network.py`) | loaded networks with their time of loading | get, put, evict the oldest, drop the expired | plots and statistics | bounded; never answers what is older than the time to live and one load; goes back in time only where loads overlap |
| Response cache (`cache.py`, `api/routes/cache.py`) | keys in Redis | get, set, clear | plots, statistics, **the broker's database** | how old an answer may be; clearing it loses nothing else |
| Accounts (`auth/`, `api/routes/auth.py`, `api/routes/api_keys.py`, `admin/users.py`, `permissions.py`) | users, provider links, sessions in Redis, API keys | log in, log out, promote, approve, demote, delete, issue and drop keys | every route | the first user is administrator and only the first; one remains; names, links, keys and sessions fit the users |
| Database (`database.py`, `models.py`) | the tables | sessions | everything | the isolation each model states |
| Migrations (`alembic/`) | tables, types, the revision, `app_info` | upgrade at start, guard, stamp, downgrade | the database | the schema is the one of the revision; an older release does not serve a newer database |
| Start (`main.py`, `settings.py`, `services/backend_registry.py`, `admin/backends.py`) | settings, rows of backends, clients in memory, the user of a mode without logins | validate, migrate, synchronise backends, assign them to users | runs | a start fails only for a reason; what is offered has a client |
| Lists (`filters/`, `api/pagination.py`, the list routes and pages) | what is asked and what is shown | filter, sort, page, poll | networks, runs | what is shown was asked for and may be read; a walk over the pages misses nothing |
| Filter language (`frontend/app/src/lib/filters/`, the search bar) | the draft, the committed filter, the URL | type, commit, clear, open a URL | lists | the text, the URL, the page and the server mean the same rows |
| Report store (`frontend/app/src/lib/stores/reportStore.svelte.ts`) | the edited report, a debounced save | load, edit, save, flush | networks API | an edit is saved for the network it was made on; a load never overwrites an edit |
| Other pages, plot and statistics computation, e-mail, rate limiter, CLI | — | rendering, computation, I/O | — | no protocol of their own; not modelled |

The hardest part is the first three rows together. Nothing serialises them:

* `run_sync_loop`, every `GET /runs/{id}`, `POST /runs/{id}/cancel`,
  `DELETE /runs/{id}` and every worker has a database session of its own and
  loads the run **before** it calls the backend over HTTP, so each decides on a
  snapshot that may be out of date when it writes.
* Effects outside the database (a job submitted, a message queued, a file moved,
  a webhook called) do not roll back with the transaction.
* The queue redelivers, the web process and the workers restart, Redis is shared
  between cache and broker, and remote calls fail with or without having had
  their effect.

## 2. Modules

| Module | What it is |
|---|---|
| `RunSync` | the statuses, and `sync_run_from_job` as pure operators: what the row becomes (`AfterSync`), whether an import starts (`StartsImport`), whether a webhook is due (`CallbackDue`) |
| `RunLifecycle` | the core: rows, jobs, requests, the sync loop, the queue, the workers, files, webhooks, faults |
| `RunContract` | the abstract specification: what one run promises its owner; `RunLifecycle` implements it (`KeepsContract`) |
| `NetworkTasks` | uploads, URL imports and plots through the queue in the program or Celery, temporary files, the plot cache, the polling client |
| `NetworkCache` | loaded networks by path: get, put, clear, with the time to live and the order of eviction |
| `LocalNetworks` | extends `NetworkCache` by the local mode: files on the user's disk, registration in place, views through the cache, deletion with or without the file |
| `Permissions` | roles, permissions, who may read and change a resource |
| `Accounts` | extends `Permissions`: logins, sessions, keys, and administrators' requests, statement by statement |
| `Migrations` | the models, the six revisions up and down, the guard and the stamp |
| `Backends` | rows, registry and assignment of backends, and the choice for a new run |
| `Startup` | extends both: the start of the server from its settings to serving |
| `FilterLang` | syntax trees, parser, printer, and what a tree means in SQL |
| `FilterBar` | extends it: search bar, URL, the pages that filter by themselves |
| `ListPages` | extends `Permissions`: a list page with overlapping requests, and the list routes |
| `ReportStore` | the front end's report editor: loads, edits, the debounced save, and the server that keeps the reports |
| `MC...` | values for the constants |
| `RunLifecycle_proofs`, `RunContract_proofs`, `NetworkTasks_proofs`, `ReportStore_proofs`, `LocalNetworks_proofs`, `Accounts_proofs`, `ListPages_proofs`, `Startup_proofs` | theorems (section 4) |

### RunLifecycle and the code

| Variable | In the program |
|---|---|
| `row` | the committed `runs.status`, `"ABSENT"` when there is no row |
| `job` | the job at Snakedispatch (external): `"NONE"` before `POST /jobs`, `"GONE"` after it was deleted or collected (404) |
| `req` | per request: how far its handler is, the status it loaded, the backend's answer, the UPDATE it flushed but did not commit, and whether a webhook is due |
| `sync` | the cycle of the loop: the batch it selected, per run the loaded status and the flushed UPDATE, the expired instances, the runs to notify |
| `queued` | import messages per run |
| `wk` | per worker: its task, the loaded status, the files left, the uncommitted networks |
| `nets`, `disk` | network rows and files per content |
| `posted` | the payloads handed to the webhook sender, per run |
| `faults` | how many faults so far (bounded by `MaxFaults`) |

A step ends where another session can get in: at a remote call, at a statement
that takes a row lock, at a commit, and at the SELECT that refreshes an instance a
commit expired. So `get_run` is `LoadRun`, `PollJob`, `Flush` (or `FlushStale`
when the row is gone), `Commit`, `Notify`; `cancel_run` is `LoadRun`, `CancelJob`
(or `CancelRefused`, `CallFails`), then `Flush ... Notify` or `CancelMissing`;
`remove_run` is `LoadRun`, `RemoteDelete`, `DeleteRow`; `create_run` is
`SubmitJob`, `InsertRow` (or `CallFails`: a status it does not know, or a commit that fails,
leaves a job without a row). A cycle of the loop is `SyncSelect`, then per backend
`SyncBackend`, per run `SyncPoll` and `SyncFlush` (or `SyncStale`: a row that is gone breaks
the session, reading `run.job_id` for the log breaks the cycle, and its webhooks are lost), then
`SyncCommit` (or `SyncCommitStale`: the backend's work is rolled back and the loop goes on),
`SyncCollect` (or `SyncAborts`), and at last `SyncReturn` with the
webhooks of the whole cycle. A task is `TaskStart`, `ListOutputs`, `ImportFile`
per file, then `Complete`, or `ListFails`/`FileFails` and `MarkError`, then
`TaskEnd`.

`Write` is where an UPDATE is applied: SQLAlchemy writes a column only when the
session changed it, and writes it without looking at what the row has become.

### Assumptions of the model

* PostgreSQL at READ COMMITTED. A flush takes the row lock and holds it to the
  commit; an INSERT of a network takes a key-share lock on its source run, which
  makes a DELETE of the run wait and an UPDATE of its status not.
* `Dialect = "sqlite"` differs in one thing: the `Uuid` type refuses the string
  `import_run_outputs_task` looks the run up with.
* Snakedispatch is external, modelled by what the code expects of it: jobs go
  PENDING, SETUP, RUNNING, then COMPLETED, FAILED, ERROR or CANCELLED; a 404 means
  that the job is gone; a cancel is obeyed now or later, or is refused for a job that
  ended. A job's status never goes back.
* All runs belong to one user, each has a webhook, every backend is registered.
  `update_run` and the admin PATCH (visibility, owner) touch none of the state
  here and are left out, as are the retries of the webhook: `posted` is the payload
  handed over.
* `create_run` inserts PENDING, as Snakedispatch answers for a new job.
* At most `MaxFaults` faults, each from the list `Faults`: a call that fails, with or
  without its effect; a restart of the web process; a worker killed, with or without
  redelivery; a redelivery while the first worker still runs; `clear_all_cache`, which
  empties the Redis database the broker lives in; a broker that refuses a message.

### ReportStore and the code

`state`, `currentNetworkId` and `initialized` are the variables of
`createReportStore`; `pending` is `pendingNetworkId` with `pendingPayload` (and the
timer that is running exactly while they are set); `saved` is `networks.reports` on the
server. `LoadForNetwork` is `loadForNetwork` up to its `await`, `LoadEnds` the rest;
`Edit` stands for every method that changes a report; `Flush` is the timer or a
hidden page, `Reload` a page that is left (`beforeunload`). Assumptions:

* A handler and the `$effect` its changes trigger are one step: Svelte runs the
  effect in a microtask, before the next event. So the load of *another*
  network triggers the effect once with the old reports (which uses up the skip that
  `initialized = false` provides), the load of the *same* one does not.
* Reports are sets of edits, the default report is the empty one. A load may begin at any
  time, also for the network on screen.
* Requests are numbered as they are sent and served in any order; one may be lost.
  `Serve` drops the save of a user who may not modify the network (403, which nobody reads).
* `met` records four mishaps: an edit made while the load of the network on screen is
  awaited, a failed load, a lost save, two requests for one network served out of order.
  The program has no defence against them and promises none; each property below
  names those it can stand. Removing any of the conditions yields a counterexample: an
  early edit is replaced by the answer, or saves the reports of the network before under the
  new id; a failed load shows the default report, which the next edit saves.

### LocalNetworks, NetworkCache and the code

`entries` and `older` are the `OrderedDict` of `NetworkCache` (key to network and time
of the put; the order as a relation). `disk` is what is at each path, `rows`, `hash` and `meta`
are the stored networks with `file_hash` and the columns read from the file, `call` is the
stack frame of each thread. A registration is `HashFile`, `FindContent` and, if
no network has the content, `FindPath`, `ReadMetadata` and `UpdateRow` or `InsertRow`; a view is
`OpenNetwork`, `LookInCache` and, on a miss, `ReadFile`, `CachePut`; a deletion is `LoadNetwork`,
`DeleteRow` and, where the file goes too, `Unlink`. Assumptions:

* Local mode: SQLite, one user, all networks external. Each statement reads what is committed
  when it runs (no transaction is open before the first write), and the flush takes the
  database's write lock until the commit, so the two are one step.
* `file_path` is unique: a second INSERT of a path fails. An UPDATE of a row that is gone fails
  (`StaleDataError`); a DELETE of one is only a warning to SQLAlchemy, and the deletion goes on.
* A content is known by its hash, metadata by the content they were read from. The size of the
  file, a separate `stat`, is counted to the metadata.
* A network in memory is known by the version of the file (`edits` when it was read) and the
  time. Clock ticks are units of the time to live; from reading a file to caching it takes at most
  `MaxLoad` ticks. Reading the clock and the file is one step.
* A deletion unlinks and a registration reads the path the row had when it was loaded: `PathOf`.
  No path is a link to another.
* `met` records what came together in a behaviour: an edit during a registration (`edited`), the
  removal of a file by the user (`removed`), two registrations (`together`), a registration
  and a deletion of one path (`crossed`), two overlapping loads of one file (`loads`). The program
  has no defence against these, and each property names those it excludes; leaving one out
  of a property yields a counterexample.
* `Stored` are registrations of an earlier session of the program, for the instance of the views.

### Accounts and the code

`users`, `links`, `keys` are the tables `users`, `user_oauth_providers` and `api_keys`, `sessions` the
users some session in Redis names, `req` the handlers under way. `oauth_callback` is `Login` (the
look-up of the link), `FindUser`, then `CommitKnown`, or `LookForUsers`, `InsertUser`,
`CommitLogin`, and at last `OpenSession`. An administrator's request is `Enter` (the middleware
resolves the actor in a session of its own and the permission is checked), `LoadTarget` (the
target is loaded and checked) and one of `SetRole`, `DeleteUser`, `CreateKey`, `DeleteKey`. Assumptions:

* PostgreSQL (the settings refuse logins on SQLite). Each statement reads what is committed. An
  INSERT of a name another transaction has inserted waits for its end and then fails
  (`Waits`, `Taken`); a key for a user who is gone fails on its foreign key.
* A person has one account at one provider, and does not rename it.
* `CreateBot` is one step: the permission check, the look for the name, the INSERT and the commit of
  `users.py`. A bot is no administrator and its name is unique by the table's constraint, so that all
  that could come in between is the demotion of the one who asks, and another's taking the name (a refusal).
* A session of a user who was deleted names an id that is never given out again, so that it is
  dropped from `sessions` with the user.
* `met` records two mishaps: two people who register at the same time (`rushed`), and two requests
  that change users under way at once (`together`). The code looks only at what an
  administrator does to himself; the properties name what they exclude.

### Startup, Migrations, Backends and the code

`db` is the database: tables with their columns and indexes, enum types, the payload formats of the
network rows, `alembic_version` and `app_info`. `conn` is the process that migrates. A revision is
the sequence of its statements (`Up1` to `Up6`, `Down1` to `Down6`), each changing `db` as the
DDL would; a statement that can not apply fails, and those of 0001 are left out for a table that is
there (`Unless`). `TablesAt` and `TypesAt` write down, revision by revision, what those statements are to
add up to: databases begin with them, `SchemaFollowsVersion` compares with them. PostgreSQL runs an upgrade in one
transaction (`Draft`), SQLite commits each DDL statement, which is what `torn` remembers
after a crash inside a revision, until a statement updates a row (`Updated`): then pysqlite opens a transaction, up to the commit. `Begin` is the guard, `Stamp` the note in `app_info`. A later release is the
same program with one more revision. `Launch`, `Migrate`, `Migrated`, `EnsureUser`,
`ConnectRedis`, `SyncBackends` follow `lifespan`; `ImportFails` is a malformed entry, which `main.py` parses when it is
imported, before there is a migration. `Settings` are those the validators let through.
SQLAlchemy flushes updates in the order of random keys and then inserts: `FlushOrders` has them all.
One process starts at a time.

### NetworkTasks and the code

A job is one request with its task: `at` says where it is, `state` is the entry of `_tasks` (or
Celery's result store), `temp`, `stored` and `rows` are files and networks by the job that made them. An
upload is `Upload`, `Submit`, `Start`, `CheckUser`, `FindContent`, then `MoveFile`,
`ReadMetadata`, `Commit`, `Refresh`, `Finish`; each can fail, which is `Fails` (rollback and the
`finally` of `_import_tmp`). A URL import has `FetchUrl` and `Download` before. A plot is `LookInCache`,
`LoadNetwork`, `KeepPlot`. The client is `ReadState`, `Answer`, `GiveUp`: an answer reads the state twice
(`SecondRead`), and the second time Celery's final states come from the object. `SubmitFails` is a broker that can not be
reached: the request has written its temporary file and does not remove it. `ClearAllCache` is `DELETE /cache/redis`, which
empties the database that holds Celery's messages, states and results with the plots. Assumptions:

* `mode = "memory"`: one worker thread, a table pruned when a task is added (`DayPasses` makes
  its entries old), no cache. `mode = "celery"`: `Workers` workers, `acks_late`, results and plots in Redis.
* One user imports. The network a plot is of comes from the cache of `NetworkCache`, so it may be
  `NetworkAge` old; from its loading to the caching of the plot it takes at most `MaxRun`.
* A client does not wait for a day. A Celery task that is delivered again fetches its URL only if it had not
  moved its file before: otherwise it would store a second network, which is not modelled.
* `met` records what went wrong: a content that can not be read (`unreadable`), a failed commit
  (`uncommitted`), a file in use when it is deleted (`held`), a process that died (`lost`).

### FilterLang, FilterBar, ListPages and the code

A text is a sequence of tokens: words, quoted or not, keywords, signs, and a field with its values;
`Sign`, `Word`, `Field`, `Bare` say how the parser reads each. `ParseOr`, `ParseAnd`, `ParseTerm` and
`ParseLeaf` are the parser, `SerializeNode` and `QuoteText` the printer, `ToSql` the
translation to SQL with its third truth value. A field the server does not know or a value it can not
convert is refused with 422 (`Takes`, `IsRefused`), and `Listed` is that refusal. These are recursive, so they are checked and
not proved. `FilterBar` has the committed filter, the bar's draft (`rawText`,
`lastCommittedFilter`, `focused`), the URL and a navigation under way, during which one may go on typing; `hung` says that the parser does
not return.

`ListPages` has the table rows, what the page is set to, what it shows, the requests without an answer and the
handlers that wait for the URL to change (`updateURL().then(...)`). Count and fetch of one answer are two steps;
answers come in any order. `Sorted` allows any order among equal keys, anew at each request.

## 3. Runs

In the run lifecycle, runs are numbers, a request is `<<kind, run, serial>>` and is served at most once.
Deadlock is checked in `startup` and `filter_bar`, which can always go on. The others have
`CHECK_DEADLOCK FALSE`: once the bounded requests, edits, calls or users are used up, the system
rightly rests.

| Run | Instance | Question |
|---|---|---|
| `run_faults` | one run from its submission, a create, a get, a cancel, an import, one fault of any kind | Does the row stay behind the job (`SettledMeansOver`), and does a stored run always have a job (`StoredMeansSubmitted`), and is what any session holds late but never ahead (`SnapshotsAreSound`)? Does one worker store a content once (`ContentIsUnique`), although the loop and the get both queue the import? With `TypeOK` |
| `run_import` | two workers, two files, a get and a remove | A run is imported completely or not at all, in the commit that completes it (`ImportIsAtomic`); rows have files (`RowsHaveFiles`); a COMPLETED run's outputs are networks (`CompletedMeansImported`); a removed run stays removed (`RemovedStaysRemoved`) |
| `run_keeps_contract` | two runs on two backends, a remove, in-process queue, one fault | Through the commit and the refresh between two backends, does the detailed model implement `RunContract` (`KeepsContract`)? |
| `run_shared_backend` | two runs on one backend, one of which is removed, nothing to import, in-process queue, one fault, fair | A row that is gone undoes what the same transaction did for the other run, or the whole cycle: is the end of its job noticed all the same (`FinishedJobIsNoticed`), and does it keep the contract (`KeepsContract`)? |
| `unannounced` | one run, the loop and a worker | The disagreement with the repository's words that is kept as a counterexample (section 5) |
| `network_tasks` | an upload and a URL import of one content, or an upload that can not be read and a URL import, or two plots of a stored network; memory or two Celery workers; a day, a process that dies, a deletion, a broker that refuses a task, an emptied Redis; fair | What stays on the disk (`NoFileLeftBehind`), what is the client told (`AnswersAreTrue`), how old is a plot (`PlotIsRecent`), does the queue go on (`QueueDrains`)? |
| `local_networks` | (a) two paths, two contents, registrations (two of one path), two deletions, one with the file, two edits; (b) four views of two paths through a cache of one entry, a time to live of one tick, loads of at most one, an edit, clears | Do hash and metadata of a network agree, and is no content stored twice (`RecordsAgree`)? Does a file go only when the user or a deletion told to removes it, and has every network its file (`FilesStay`)? How old may a network shown be (`ShownIsRecent`), do views go forward (`ViewsGoForward`), does the cache keep its limit (`CacheIsBounded`)? |
| `accounts` | two people, one of whom has the name of a bot, two handlers at a time, three users | Does an administrator remain (`AdminRemains`), is only the first one made one (`OneFounder`), do names, links, keys and sessions fit the users (`AccountsAreWhole`)? |
| `startup` | this release and the next, PostgreSQL and SQLite, up to two entries over two names and two URLs, one crash, alembic commands in between | Has the database the schema and the payloads of its revision (`SchemaFollowsVersion`), does `app_info` tell the truth (`AppInfoIsTrue`), why may a start fail (`StartFailsForAReason`), can what is offered be used (`OfferedIsUsable`)? |
| `filter_bar` | all texts of two tokens out of twelve and fifteen longer ones (one with a field the server refuses), five rows, two of them without a name (NULL) | Do the URL (`UrlKeepsFilter`), the bar (`BarShowsFilter`) and the pages that filter by themselves (`StateIsTheFilter`) mean what the filter means, and when does the parser hang (`HangsOnlyAtComma`)? |
| `list_pages` | three rows, two of which sort the same, pages of one row, four requests, two at a time, one change of the table | Does the page stay among those there are, stop loading, and show what it is set to once the last request is the last answered (`ShownIsAsked`), do lists and routes agree on who may read (`ListedIffReadable`), does a walk over the pages show every row once (`PagesLoseOnlyTies`)? |
| `report_store` | two networks (one read-only), two edits, three loads or reloads, one lost request, fair | A save in waiting is what is on screen (`PendingIsShown`); reports stay with their network unless somebody edits during a load (`SavesStayHome`); what the server has stored is not undone by a save that lacks it (`SavedEditsStay`); every edit arrives (`EditIsSaved`) |

*Why the bounds are enough.* Runs interact only inside one cycle of the loop: one
transaction per backend, a refresh after it, and one list of webhooks for the cycle. Two runs on one backend share the
transaction (`run_shared_backend`), two on two backends the refresh (`run_keeps_contract`), and either two the list.
Not every combination is run: the imports of two runs on one backend, and a get or a cancel beside a second run, are not;
they race with the loop over one run (`run_faults`, `run_import`). The theorems hold for any number of each, under the hypotheses section 4 names.
Three requests give three sessions over one row besides the loop and the worker: a create, a get and a cancel meet in one
run, a get and a remove in another. Two files are needed to fail between them, two workers to import one run
twice. One fault is enough to hit every step of every handler; the properties
proved in section 4 hold for any number. In `report_store`, two edits are one per network or an
older and a newer one; three loads go to a network, away and back. In
`local_networks` two edits make one file a copy of the other and change it again; a view that
goes back needs one that fills the cache, one that replaces the entry and one that looks, and the
cache has one entry, so that the second path always evicts. In `network_tasks` two jobs meet at every
step, beside a network that was stored before; ticks reach past one
age, one run and one time to live. In `accounts` two handlers are every pair of statements that can
cross; a third user is one registered after a deletion. In `startup` two names and two URLs can be
swapped, renamed and configured twice, and one crash falls into every statement; the revisions are
all there. `filter_bar` types every nesting of two tokens, and what needs more is pasted. In
`list_pages` three rows on pages of one give a first, a middle and a last page.

*Fairness.* `FairSpec` of `RunLifecycle`: the loop is fair because `run_sync_loop` catches every
exception, sleeps and goes on; a request that has started is fair because its
HTTP calls time out; a worker is fair because tasks have time limits. Nothing is
assumed of a job (it may run for ever), of a client (a request need not be made) or of a
fault. In `ReportStore` the timer fires, requests are served and answers come back; nothing is
assumed of the user. In `NetworkTasks` the worker's steps are fair: a download ends because it has a
read timeout and a limit of size, a Celery task because of its time limits.

*Preconditions that matter.* `CompletedMeansImported` needs sessions that load
the run before its import starts, so the instance has neither a cancel request nor
a second backend, with which it fails: the loop commits another backend, re-reads a run that a get request made UPLOADING
meanwhile, and writes COMPLETED over it. `KeepsContract` has no get and no cancel request: a request's stale write breaks
it. Its in-process queue has one worker thread. `ContentIsUnique`
holds for one worker only: the look-up and the insert of a content are two statements. What each
leaves out is told under "Seen on the way".

## 4. Theorems

All hold for every value of the constants with the assumption of their module: `RunAssumption`, `ReportAssumption`,
`LocalAssumption` and `CacheAssumption`, `AccountsAssumption`, `TasksAssumption`, `ListAssumption`, and
`MigrationsAssumption` with `BackendsAssumption` and `StartupAssumption`. These say that bounds are numbers, that the
kinds of calls are disjoint, that a value for "none" is none of the others (`NoChoice`, an empty form field, is not the
name of a backend), that the rows of a list are finitely many, and that the dialects and releases are those the
revisions are written for. Nothing else is bounded: not the runs, backends, files, requests, workers, faults,
networks, edits, loads, calls, the cache, people, handlers, users, jobs, ages, rows or entries; either broker, either dialect.

1. `TypeCorrect`: `Spec => []TypeOK`. `TypeOK` is inductive: beyond the types it says that
   the loop holds a run whenever it waits for an answer, and a busy worker a run.
2. `NeverAhead`, `NoRowWithoutJob`, `LateButTrue`: `SettledMeansOver`,
   `StoredMeansSubmitted` and `SnapshotsAreSound`. The first is not inductive: a
   commit writes what a session decided long ago, so the invariant has to speak of
   what every session *remembers*. `SettledInv` adds exactly that: the loaded status,
   the answer, the flushed UPDATE, the due webhook, the running import are all
   true of the job. The argument has two halves. A job only grows (lemma `JobsGrow`: once a job
   exists it never un-exists, once it is over it stays over), so whatever a session
   learnt stays true while it waits (lemma `Monotone`). And every step that writes takes
   its value from a session or from the job itself, so truth is passed on. There is one
   lemma per group of handlers (requests, the loop, the workers).
3. `RemovedForGood`: `RemovedStaysRemoved`. It needs `RemovedInv`: whoever has
   flushed an UPDATE of a row knows the row is there, because a DELETE
   waits for its lock (`LocksAreOfRows`); and a run is submitted once, because `POST
   /jobs` returns a new id (`SubmittedOnce`), so no `InsertRow` is left for a run that has been stored.
4. `ReportTypes`, `PendingShown`, `ReportsStayHome`: `TypeOK`, `PendingIsShown` and
   `SavesStayHome` of `ReportStore`. The second needs that a save in waiting implies
   `initialized` (`ShownInv`): a change that is skipped would otherwise leave an older payload
   behind. The third has to follow the reports from the screen through the pending save,
   the requests and the server back to the answers; `HomeInv` allows foreign reports on
   the screen only while the answer that replaces them is awaited, and needs that
   no report contains an edit before it is made (`Numbered`). `SavesAreKept` is the action property `SavedEditsStay`, with
   lost saves allowed and nothing else in `met`. What a page may overwrite depends on what it has seen, so
   `StayInv` says of everybody who holds reports of a network (an answer, the save in waiting, the screen, a request) that they *cover*
   what is saved of it and what was sent before (`Covers`). That needs requests to be served in the order of their numbers
   (`SavesGrow`: each save contains the earlier ones, and a load that was sent after a save finds it), and that
   while a load is awaited nothing new waits to be saved (`PendingCovers`). A step serves the save with the least number, which
   contains what it replaces.
5. `LocalTypes`, `CacheBounded`, `RecentViews`: `TypeOK`, `CacheIsBounded` and `ShownIsRecent`.
   The limit needs that the cached keys are finite (`BoundedInv`) and counts the entry that
   comes and the one that goes; that the order stays total is lemma `LastIsOrdered`. The age needs
   `RecentInv`: an entry was put within one load after its file was read, nothing but a put
   touches its time, and a view that has loaded is within that load.
6. `RecordsStayTrue`: `RecordsAgree`. While registrations do not overlap and files keep still
   under them, `AgreeInv` follows the only one under way: it hashes and reads the same content, and
   from its look-up to its commit no network has that content (`OneContent`).
7. `ViewsStayForward`: the action property `ViewsGoForward`. Unless loads overlap, the cached network of a path is
   at least as new as all that was shown of it, and the one load under way read the file after both
   (`ForwardInv`): a put replaces an entry by a newer one, and eviction or expiry only makes the next view read the file again.
   `FilesKept`: `FilesStay`. `StayInv` says that a deletion which no registration of its path
   crosses knows every network of the path (`Knows`: paths are unique), so that none is left
   when it unlinks, and that a registration under way has its file.

8. `AccountTypes`, `WholeAccounts`: `TypeOK` and `AccountsAreWhole` of `Accounts`. What a handler that is about
   to commit relies on (`NamesOK`) is that its name is not taken and that no other handler is about
   to commit the same one, because the second INSERT waits. Only so is the new user's
   link the link of the only user of that name.
9. `AdminStays`: `AdminRemains`. `AdminSafe` says that, as long as no two requests that change users ran
   together, at most one is under way, its actor is an administrator when it loads its target, and
   once it has checked the target an administrator other than the target remains, or the target is made one
   (`Spares`). All other handlers leave roles alone (lemma `Calm`).
10. `FirstIsOnly`: `OneFounder`. While `met` is empty at most one handler is between its look for users and its
   commit (`FounderSafe`), and it registers an administrator only while there is no founder: with a
   founder there is an administrator, by `AdminSafe`, so that the look finds a user.
11. `FilesBehindRows`, `AllOrNothing`: `RowsHaveFiles` and `ImportIsAtomic`. `ImportInv` counts the open inserts of a
   content, finitely many however many workers there are (`FilesSuffice`: an import moves one file and adds one worker, a
   commit turns that worker into a row, a rollback only takes away); says that only a task that is still importing has
   inserted anything (`InsertsWhileImporting`), so that the commit of ERROR stores nothing; and that each
   selected output is to do, inserted or stored (`NothingForgotten`), so that the commit of COMPLETED leaves none out.
12. `StoredOnce`, `CompletedIsImported`: `ContentIsUnique` for one worker (`LoneWorker`), and `CompletedMeansImported` for
   one backend and no cancel request (`LoneBackend`, `NoCancel`), the preconditions of the runs now stated as
   hypotheses. `EarlyInv` says that whoever applies an answer loaded the run before its import could
   start, so that COMPLETED is written only for a run that wants nothing; the rest is `NothingForgotten`.
13. `ContractKept`: `KeepsContract`, the refinement, for one worker and no requests but remove (`LoneWorker`,
   `OnlyRemoves`), either broker and every fault of the model. `KeepsInv` says who owns a row: as long as the loop is
   *undecided* about a run (its backend is still to come, or its answer is, or the UPDATE is flushed and not
   committed) the row is active or removed and nobody was told of it (`UndecidedInv`); once the loop fires or returns
   a callback the row has the status that is announced, or is gone (`FiredInv`, `OutInv`); and the worker's run is
   UPLOADING and none of the loop's business (`WorkerInv`). Then every step is shown to be, row by row, a step
   of the contract or nothing: one commit of the loop moves each run of a backend at most once (`CommitKeeps`), and a
   webhook is called for the first time (`ReturnKeeps`, `WorkerKeeps`).

14. `NoFileIsLeftBehind`, `ClientsAreToldTheTruth`, `PlotsAreRecent`: `NoFileLeftBehind`, `AnswersAreTrue` and `PlotIsRecent` of
   `NetworkTasks`, from `TasksInvariant`. A task acts on what it found several steps before, while others store, delete and
   redeliver. `TasksInv` says what of it stays true. For files: a job's file is at one place (`FreshInv`, `TempInv`,
   `MovedInv`: temporary before the move, and stored without a row only between move and commit). For answers: what a task
   will return is or was a network with the content the job brought, and one that reports an error has left no row,
   unless a process died (`ResultInv`); the client's copy of the state is a fact that can not become false, even when Redis is
   emptied under it (`PollInv`). The files nobody removes are named: those of an upload whose task the broker refused (`"unqueued"`) or
   lost with the rest of Redis (`"wiped"`); that there are no others is what is proved. For plots: a
   network that is being plotted is at most `NetworkAge + MaxRun` old, and a cached plot is given away at most `TTL` later
   (`PlotInv`). Celery may deliver a task twice: `QueueInv` says that it waits only once at a time.
15. `PageShowsWhatItIsSetTo`: `ShownIsAsked`. The page takes every answer, in whatever order they come. `SettledInv` says, without any
   condition, that its number is one of those there are (each answer clamps it and asks anew) and that it loads only while a request or a
   handler is outstanding. What it shows is what it is set to only if the last request was answered last; `SettingsInv` says
   that then, when no handler waits to ask again, that request was made with the settings of the page: a handler
   that waits (`updateURL().then`) is exactly what the settings can be ahead of. An older answer that comes last stays on screen.
   `ListsAgreeWithRoutes`: `ListedIffReadable`, which is true of any rows: the SQL conditions of the lists and the checks
   of the routes are the same relation.
   `WalkMeetsEveryUntiedRow`: `PagesLoseOnlyTies`. An untied row has one place in every order the database may choose, one more
   than the number of rows with smaller keys (`Place`); the pages join without gap or overlap (lemma `PagesJoin`), so what a walk has
   seen after k pages is, for untied rows, the first `k * PageSize` places (`Begins`). The count and the cut of one answer are
   statements of their own, so `Fits` keeps for each request under way what it was computed from.
16. `ServedIsConfigured`: `OfferedIsUsable`, from `StartInvariant`. After a successful flush, in whatever order the rows went out, the active
   rows are the configured ones with their URLs, and the registry is made from them (lemma `SyncBringsIntoLine`); from then on
   neither a migration nor a synchronisation touches rows (`PhaseInv`), only assignments change.
17. `SchemaIsOfItsRevision`: `SchemaFollowsVersion`, with `TypeOK`, from `DatabaseInvariant`. It has four parts.
   *What a revision does.* A statement is said to *do* something to a schema (`Does`: it executes on every database that has
   the schema, and leaves the other one), a sequence of statements to *lead* from one schema to another (`Leads`, closed under
   concatenation: `LeadsJoined`). One lemma per kind of statement, and one per revision (`Revision1` to `Revision7`, `Makes...` for the
   tables of 0001), give `TodoLeads`: each revision leads from the schema of its predecessor to its own, and back, on both dialects.
   *On course.* `SchemaInv` says that what is left to do leads from the schema the migration sees to that of the next
   number (`OnCourse`); so no statement fails unless a crash has torn the database (`FailsTorn`), and what is committed with a
   number has its schema (`RevisionFits`). PostgreSQL is always at its revision, because a transaction is open while a migration runs.
   *Rows.* The statement that rewrites the rows is the only one that touches payloads, it occurs once in 0003, up and
   down, and in no other revision (`Revisions`, `TodoRewrites`), wherever 0001 skips tables. `MigrationInv` says that a revision
   under way has rewritten the rows its transaction sees or will (`OnTheWay`), and that on SQLite the statement opens a
   transaction where it updates a row, so that what is committed (and stays after a crash) is rewritten only together with the
   number; where it updates none, the rows are readable before and after it (lemma `NoneUpdated`).
   *Torn databases.* The types must hold there too. `NamesInv` follows only the names of the tables, from whatever names a crash has left: a
   revision creates tables that it may (`Creatable`: `app_info` only on the way up from 0004), `user_backends` never outlives the
   backends it refers to (`Linked`), and without `app_info` no release is noted (`Named`); `SettledInv` is the rest of the types.
18. `NotesAreTrue`: `AppInfoIsTrue`. It is not inductive: a release that has committed its first revision has moved the database and
   not yet noted it. `NotedInv` says that the note is right unless that is so (`Fresh`), also in the transaction under way, and that
   a database below 0005 was last moved by no release; that a release only moves forward from the revision it has found, so that it is
   not fresh until it has stamped; and, with `SchemaInv`, that at its own revision it finds the table to stamp.
19. `FailuresHaveReasons`: `StartFailsForAReason`. A refused database is of a later release (`FailedInv`), a migration breaks only on a
   torn one (`FailsTorn`), and the synchronisation fails only when the setting gives one URL to two names or takes that of another row
   (lemma `ClashIsConflict`: if a partial flush ever has a URL twice, the setting and the rows say so).

*Only model-checked.* The liveness properties `FinishedJobIsNoticed`, `EditIsSaved` and `QueueDrains` (out of the
prover's reach, as is ENABLED), and all of `FilterBar`, whose parser and printer are recursive: neither
induction over data nor RECURSIVE operators are within the prover's reach. Every other invariant and action property of a passing run is
the statement of a theorem.

## 5. Disagreements with the repository's words

* `unannounced`: the import is queued before the commit that makes the run
  UPLOADING (`services/sync.py:82`). A worker that is quicker sees another status and drops the task; nobody
  looks at an UPLOADING run again, and the webhook "invoked when the run finishes"
  (`schemas/run.py:120`) is never called.

### Seen on the way

Noticed while modelling; each is in a model (as a step, a `met` mishap or a condition of a property) unless it says
otherwise.

*Runs.* `sync_run_from_job` writes the status it was handed over whatever the row has become, so that two reads
that overlap can turn a final status back into an active one, although the loop is said to update "runs
that haven't reached a terminal state" (`services/sync.py:98`). After the commit of the first backend the loop
re-reads the runs of the next without filtering them again (`services/sync.py:115`): one that has become UPLOADING meanwhile
becomes COMPLETED before its networks exist, and its import then finds nothing to do. A row that is removed under the loop ends
the cycle, with the webhooks collected so far (`services/sync.py:139`). A status the program does not know, or a commit that
fails, leaves a new job without a row (`api/routes/runs.py:161`). An import can be queued twice; a webhook can be told a status
that is not final; files of a rolled back import stay in the data directory; the branch of `cancel_run` for a 409 is never reached, because the
client turns it into a 502; a run deleted between the commit and the payload of its webhook ends the cycle and loses the webhooks of
the other runs (`services/sync.py:154`). On SQLite the import task looks its run up by a string, which the `Uuid` type refuses
(`api/deps.py:201` says so of its own look-ups), although "SQLite and PostgreSQL are supported"
(`settings.py:79`).

*Networks.* "Calling twice with the same path returns the already-registered record" (`networks_local.py:27`), but
the content is looked up first (`services/network.py:354`): a path whose file was edited to the content of another
network is answered with that network, and its own record keeps the old hash. An upload is moved before it is read
(`services/network.py:378`), so one that can not be read leaves a file without a row; temporary files of a process that
died are never removed, nor those of an upload whose task the broker refuses (`api/routes/networks_remote.py:56`, outside of the `try`); two Celery workers can store a content twice; a Celery import that is delivered again
reports an error although its network was committed.

*Tasks and caches.* The table of tasks is pruned without a look at what still runs, and the `KeyError` at the end of such a task is
swallowed by the pool. `clear_network_cache` "for a specific network" clears plots only (`cache.py:128`), while `clear_all_cache` deletes the waiting tasks and the results with them (`cache.py:134`). `generated_at` is
the time of the answer, also for a plot out of the cache (`tasks.py:50`); outputs of a run are cached for three hours, maybe
from before it was complete (`api/routes/runs.py:358`; neither is modelled). `get_plot` adds carriers and colours to the cached network while other
threads may read it (`services/statistics.py:46`; not modelled). The client's poll gives up after 30 attempts,
before its deadline of two minutes.

*Accounts.* Two people who register first at the same time both become administrator; two administrators can demote
or delete each other; an approval overwrites a role given meanwhile. A bot with keys may be given another
role, although keys are for bots (`api_keys.py:30`). A database first used without logins already has the user
"system", so that the first to log in is pending and there is no administrator, although the "first
user ever to log in is promoted to admin" (`auth/providers.py:111`; not modelled: the two modes of one database).

*Start.* Two backends that swap their URLs may or may not violate the unique column, as the random keys order the flush. A start
without backends leaves the rows of an earlier one active and offered, without a client. A process that dies between upgrade
and stamp leaves `app_info` behind for good.

*Filters and lists.* A word that begins with a reserved one is printed without quotes (`dsl.ts:253`), and keywords are read in
any case, so that a filter "round-trips" (`ast.ts:2`) except for these. A comma outside values makes the parser loop for ever
(`dsl.ts:67`). The older pages take `owner:a owner:b` for a union, and a bare field list outside a group for
nothing (`legacy.ts:20`). NOT over a column with NULL lists the row in neither half. Pages of rows with equal keys may repeat one and
miss another; an older answer that comes last stays on screen until the next request.

## 6. Further work

To model: two web processes that migrate at once, should the program ever be run so; the first start of a database that was used
without logins before. To prove: nothing is left that the prover reaches among the properties of the runs.

## 7. Not modelled

The contents of networks, plots and statistics (computation inside PyPSA), `update_network`, `update_run` and
the administrators' edits of a single field, the JSON parsing of filters, the suggestions of the search bar, logs and
wording, e-mail, the rate limiter (third party), the delivery of webhooks after they are
handed over, the password login of the demo, the CLI, the front end's rendering. Every component is listed in
`PROJECT.json` with its status.
