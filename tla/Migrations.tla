----------------------------- MODULE Migrations -----------------------------
(***************************************************************************)
(* The tables of models.py, the revisions 0001 to 0006 that create them,    *)
(* and run_migrations, which brings a database to the revision of the       *)
(* release that starts, or refuses one that a later release has migrated.   *)
(*                                                                         *)
(* On PostgreSQL all revisions of an upgrade are one transaction.  SQLite   *)
(* commits every DDL statement by itself until a data statement opens a     *)
(* transaction; the revision number ends it, revision by revision.         *)
(***************************************************************************)
EXTENDS Naturals, SequencesExt

CONSTANTS Dialects,  \* "postgresql" and "sqlite"
          Releases,  \* the revision each release that may start ends with
          Crashes    \* bound on the crashes

ASSUME MigrationsAssumption ==
    Dialects \subseteq {"postgresql", "sqlite"} /\ Releases \subseteq 6..7 /\ Crashes \in Nat

Tbl(required, optional, indexed) == [required |-> required, optional |-> optional,
                                     indexed |-> indexed]

(* models.py                                                               *)
BackendTable == Tbl({"id", "name", "url", "is_active"}, {"created_at", "updated_at"}, {})
UserTable == Tbl({"id", "username", "role"}, {"email", "avatar_url", "created_at", "last_login"},
                 {"role"})
LinkTable == Tbl({"id", "user_id", "provider", "provider_id"}, {"created_at"}, {"user_id"})
KeyTable == Tbl({"id", "name", "key_hash", "key_prefix", "user_id"},
                {"created_at", "last_used_at", "expires_at"}, {"key_hash", "user_id"})
AssignedTable == Tbl({"user_id", "backend_id"}, {}, {})
RunTable == Tbl({"job_id", "user_id", "workflow", "visibility", "status"},
    {"backend_id", "created_at", "configfile", "snakemake_args", "extra_files", "cache",
     "callback_url", "git_ref", "git_sha", "exit_code", "started_at", "completed_at",
     "import_networks", "total_job_count", "jobs_finished"},
    {"user_id", "backend_id", "visibility"})
NetworkTable == Tbl({"id", "user_id", "visibility", "filename", "file_path", "is_external"},
    {"source_run_id", "created_at", "update_history", "source_path", "file_size", "file_hash",
     "name", "dimensions", "components_count", "meta", "facets", "reports", "topology_svg"},
    {"user_id", "source_run_id", "visibility", "created_at", "file_path"})
AppInfoTable == Tbl({"id", "last_app_version", "last_migrated_at"}, {}, {})

Models == [snakedispatch_backends |-> BackendTable, users |-> UserTable,
           user_oauth_providers |-> LinkTable, api_keys |-> KeyTable,
           user_backends |-> AssignedTable, runs |-> RunTable, networks |-> NetworkTable,
           app_info |-> AppInfoTable]

(* The schema of each revision, from none (0) to the one of the next release (7).         *)
Until(revision, v, names) == IF v < revision THEN names ELSE {}
Since(revision, v, names) == IF v >= revision THEN names ELSE {}
RunTableAt(v) == Tbl(RunTable.required \ Until(2, v, {"visibility"}), RunTable.optional,
                     RunTable.indexed \ Until(2, v, {"visibility"}))
NetworkTableAt(v) ==
    Tbl(NetworkTable.required \ Until(4, v, {"is_external"}),
        (NetworkTable.optional \ (Until(3, v, {"dimensions", "reports"})
                                 \cup Until(6, v, {"source_path"})))
        \cup Until(3, v, {"dimensions_count"}) \cup Since(7, v, {"later"}),
        NetworkTable.indexed)
TablesAt(v) ==
    [t \in Since(1, v, DOMAIN Models) \ Until(5, v, {"app_info"}) |->
       IF t = "runs" THEN RunTableAt(v) ELSE IF t = "networks" THEN NetworkTableAt(v)
       ELSE Models[t]]
TypesAt(dialect, v) ==
    IF dialect = "sqlite" \/ v = 0 THEN {}
    ELSE {"user_role", "run_status", IF v < 2 THEN "network_visibility" ELSE "visibility"}

----------------------------------------------------------------------------
(* Statements.  Those of 0001 are skipped for a table that was there.       *)

Op(do, table, arg, arg2) == [do |-> do, table |-> table, arg |-> arg, arg2 |-> arg2]
Create(t, required, optional, types) == <<Op("create", t, Tbl(required, optional, {}), types)>>
Index(t, column) == <<Op("index", t, column, {})>>
DropIndex(t, column) == <<Op("unindex", t, column, {})>>
AddRequired(t, column, types) == <<Op("required", t, column, types)>>
AddOptional(t, column) == <<Op("optional", t, column, {})>>
DropColumn(t, column) == <<Op("drop", t, column, {})>>
RenameColumn(t, column, new) == <<Op("rename", t, column, new)>>
DropTable(t) == <<Op("remove", t, "", {})>>
RenameType(old, new) == <<Op("retype", "", old, new)>>
DropTypes(types) == <<Op("untype", "", "", types)>>
RewriteRows == <<Op("rows", "networks", "", {})>>

CreateBackends == Create("snakedispatch_backends", {"id", "name", "url", "is_active"},
                         {"created_at", "updated_at"}, {})
CreateUsers == Create("users", {"id", "username", "role"},
                      {"email", "avatar_url", "created_at", "last_login"}, {"user_role"})
               \o Index("users", "role")
CreateLinks == Create("user_oauth_providers", {"id", "user_id", "provider", "provider_id"},
                      {"created_at"}, {}) \o Index("user_oauth_providers", "user_id")
CreateKeys == Create("api_keys", {"id", "name", "key_hash", "key_prefix", "user_id"},
                     {"created_at", "last_used_at", "expires_at"}, {})
              \o Index("api_keys", "key_hash") \o Index("api_keys", "user_id")
CreateAssigned == Create("user_backends", {"user_id", "backend_id"}, {}, {})
CreateRuns == Create("runs", {"job_id", "user_id", "workflow", "status"},
    {"backend_id", "created_at", "configfile", "snakemake_args", "extra_files", "cache",
     "callback_url", "git_ref", "git_sha", "exit_code", "started_at", "completed_at",
     "import_networks", "total_job_count", "jobs_finished"}, {"run_status"})
    \o Index("runs", "user_id") \o Index("runs", "backend_id")
CreateNetworks == Create("networks", {"id", "user_id", "visibility", "filename", "file_path"},
    {"source_run_id", "created_at", "update_history", "file_size", "file_hash", "name",
     "dimensions_count", "components_count", "meta", "facets", "topology_svg"},
    {"network_visibility"})
    \o Index("networks", "created_at") \o Index("networks", "user_id")
    \o Index("networks", "source_run_id") \o Index("networks", "visibility")
    \o Index("networks", "file_path")

Unless(table, ops, present) == IF table \in present THEN <<>> ELSE ops
Up1(present) ==
    Unless("snakedispatch_backends", CreateBackends, present)
    \o Unless("users", CreateUsers, present)
    \o Unless("user_oauth_providers", CreateLinks, present)
    \o Unless("api_keys", CreateKeys, present)
    \o Unless("user_backends", CreateAssigned, present)
    \o Unless("runs", CreateRuns, present)
    \o Unless("networks", CreateNetworks, present)
Down1 == DropTable("networks") \o DropTable("runs") \o DropTable("user_backends")
         \o DropTable("api_keys") \o DropTable("user_oauth_providers") \o DropTable("users")
         \o DropTable("snakedispatch_backends")
         \o DropTypes({"network_visibility", "run_status", "user_role"})
Up2 == RenameType("network_visibility", "visibility")
       \o AddRequired("runs", "visibility", {"visibility"}) \o Index("runs", "visibility")
Down2 == DropIndex("runs", "visibility") \o DropColumn("runs", "visibility")
         \o RenameType("visibility", "network_visibility")
Up3 == RenameColumn("networks", "dimensions_count", "dimensions")
       \o AddOptional("networks", "reports") \o RewriteRows
Down3 == RewriteRows \o DropColumn("networks", "reports")
         \o RenameColumn("networks", "dimensions", "dimensions_count")
Up4 == AddRequired("networks", "is_external", {})
NoDown4 == <<>>
Down4 == DropColumn("networks", "is_external")
Up5 == Create("app_info", {"id", "last_app_version", "last_migrated_at"}, {}, {})
Down5 == DropTable("app_info")
Up6 == AddOptional("networks", "source_path")
Down6 == DropColumn("networks", "source_path")

\* A revision of the next release.
Up7 == AddOptional("networks", "later")
Down7 == DropColumn("networks", "later")

Up == <<Up1({}), Up2, Up3, Up4, Up5, Up6, Up7>>
Down == <<Down1, Down2, Down3, Down4, Down5, Down6, Down7>>

----------------------------------------------------------------------------
(* A database: dialect, tables, enum types (PostgreSQL), revision, the kinds of its  *)
(* network rows (payload of dimensions, timestamps of update_history), and  *)
(* the release in app_info.                                                *)

Empty(dialect) == [dialect |-> dialect, tables |-> [t \in {} |-> {}], types |-> {}, version |-> 0,
                   rows |-> {}, stamp |-> 0]
Columns(db, t) == db.tables[t].required \cup db.tables[t].optional

Missing(types, db) == db.dialect = "postgresql" /\ ~ types \subseteq db.types
Executes(op, db) ==
    LET there == op.table \in DOMAIN db.tables IN
    CASE op.do = "create" -> ~there /\ op.arg2 \cap db.types = {}
      [] op.do \in {"required", "optional"} ->
            there /\ op.arg \notin Columns(db, op.table) /\ ~Missing(op.arg2, db)
      [] op.do = "rename" -> there /\ op.arg \in Columns(db, op.table)
                                   /\ op.arg2 \notin Columns(db, op.table)
      [] op.do = "drop" -> there /\ op.arg \in Columns(db, op.table) \ db.tables[op.table].indexed
      [] op.do = "index" -> there /\ op.arg \in Columns(db, op.table) \ db.tables[op.table].indexed
      [] op.do = "unindex" -> there /\ op.arg \in db.tables[op.table].indexed
      [] op.do = "remove" -> there
      [] OTHER -> TRUE

Renamed(columns, old, new) == {IF c = old THEN new ELSE c : c \in columns}
Altered(op, tbl) ==
    CASE op.do = "required" -> [tbl EXCEPT !.required = @ \cup {op.arg}]
      [] op.do = "optional" -> [tbl EXCEPT !.optional = @ \cup {op.arg}]
      [] op.do = "rename" -> Tbl(Renamed(tbl.required, op.arg, op.arg2),
                                 Renamed(tbl.optional, op.arg, op.arg2), tbl.indexed)
      [] op.do = "drop" -> Tbl(tbl.required \ {op.arg}, tbl.optional \ {op.arg}, tbl.indexed)
      [] op.do = "index" -> [tbl EXCEPT !.indexed = @ \cup {op.arg}]
      [] op.do = "unindex" -> [tbl EXCEPT !.indexed = @ \ {op.arg}]

\* 0003 expands the counts into structures and drops the zone of the timestamps; its
\* downgrade makes the structures counts again and leaves the timestamps.
Expanded(row) == [dims |-> IF row.dims = "flat" THEN "full" ELSE row.dims, times |-> "naive"]
Collapsed(row) == [row EXCEPT !.dims = IF row.dims = "full" THEN "flat" ELSE @]

\* The rows that 0003 updates: the upgrade those of the old form, the downgrade all counts.
\* SQLite opens a transaction for an UPDATE, but not for the SELECT before it.
Updated(up, kinds) ==
    {row \in kinds : IF up THEN row.dims = "flat" \/ row.times = "aware" ELSE row.dims # "none"}

After(op, up, db) ==
    CASE op.do = "create" ->
            [db EXCEPT !.tables = [t \in DOMAIN @ \cup {op.table} |->
                                     IF t = op.table THEN op.arg ELSE @[t]],
                       !.types = IF db.dialect = "postgresql" THEN @ \cup op.arg2 ELSE @]
      [] op.do = "remove" -> [db EXCEPT !.tables = [t \in DOMAIN @ \ {op.table} |-> @[t]],
                                        !.stamp = IF op.table = "app_info" THEN 0 ELSE @,
                                        !.rows = IF op.table = "networks" THEN {} ELSE @]
      [] op.do = "retype" -> [db EXCEPT !.types = Renamed(@, op.arg, op.arg2)]
      [] op.do = "untype" -> [db EXCEPT !.types = @ \ op.arg2]
      [] op.do = "rows" -> [db EXCEPT !.rows = {IF up THEN Expanded(r) ELSE Collapsed(r) : r \in @}]
      [] OTHER -> [db EXCEPT !.tables[op.table] = Altered(op, @)]

----------------------------------------------------------------------------
VARIABLES db,       \* what is committed
          conn,     \* the upgrade or downgrade that runs
          crashes,  \* that have happened
          torn,     \* a crash left a revision half done (SQLite)
          moved,    \* the release that last moved the revision and keeps app_info
          late      \* it has crashed before it could write app_info

migrationVars == <<db, conn, crashes, torn, moved, late>>

NoDraft == [open |-> FALSE, db |-> Empty("sqlite")]
Quiet == [pc |-> "quiet", app |-> 0, up |-> TRUE, goal |-> 0, before |-> 0,
          left |-> <<>>, draft |-> NoDraft]

\* Rows that releases of the time wrote.
RowsAt(v) == [dims : IF v < 3 THEN {"flat", "none"} ELSE {"full", "none"},
              times : IF v < 3 THEN {"aware", "naive"} ELSE {"naive"}]
MigrationInit ==
    /\ \E d \in Dialects, v \in 0..6 : \E rows \in {{}, IF v = 0 THEN {} ELSE RowsAt(v)} :
          LET release == IF v < 5 THEN 0 ELSE v IN
          /\ db = [dialect |-> d, tables |-> TablesAt(v), types |-> TypesAt(d, v),
                   version |-> v, rows |-> rows, stamp |-> release]
          /\ moved = release
    /\ conn = Quiet /\ crashes = 0 /\ torn = FALSE /\ late = FALSE

Draft == IF db.dialect = "postgresql" THEN [open |-> TRUE, db |-> db] ELSE NoDraft
Seen == IF conn.draft.open THEN conn.draft.db ELSE db
Todo(up, v, d) == IF v = 0 THEN <<>>
    ELSE IF v = 1 /\ up THEN Up1(DOMAIN d.tables)
    ELSE IF up THEN Up[v] ELSE Down[v]
\* The revision that comes next.
NextRevision(up, v) == IF up THEN v + 1 ELSE v

\* What ends a transaction, or a statement outside one.
Running(c, up, goal, v, d) ==
    [c EXCEPT !.up = up, !.goal = goal,
              !.pc = IF v = goal \/ (up /\ v > goal) THEN "done" ELSE "run",
              !.left = IF v = goal \/ (up /\ v > goal) THEN <<>> ELSE Todo(up, NextRevision(up, v), d)]

\* A command of a developer leaves nothing behind.
Ended(pc) == IF conn.app = 0 THEN Quiet ELSE [Quiet EXCEPT !.pc = pc, !.app = conn.app]

\* run_migrations looks at the revision and refuses one it does not know.
KnowsAll(app, version) == TRUE
Knows(app, version) == version <= app
Begin(app) ==
    /\ conn.pc = "quiet"
    /\ conn' = IF ~Knows(app, db.version) THEN [Quiet EXCEPT !.pc = "refused", !.app = app]
               ELSE Running([Quiet EXCEPT !.app = app, !.before = db.version,
                               !.draft = Draft],
                            TRUE, app, db.version, db)
    /\ UNCHANGED <<db, crashes, torn, moved, late>>

\* "alembic upgrade" and "alembic downgrade" of a developer, with this release.
Alembic(goal) ==
    /\ conn.pc = "quiet" /\ db.version <= 6 /\ goal # db.version
    /\ conn' = Running([Quiet EXCEPT !.draft = Draft],
                       goal > db.version, goal, db.version, db)
    /\ UNCHANGED <<db, crashes, torn, moved, late>>

Statement ==
    /\ conn.pc = "run" /\ conn.left # <<>> /\ Executes(Head(conn.left), Seen)
    /\ LET op == Head(conn.left)
           new == After(op, conn.up, Seen)
           inside == conn.draft.open \/ (op.do = "rows" /\ Updated(conn.up, Seen.rows) # {})
       IN /\ conn' = [conn EXCEPT !.left = Tail(@),
                        !.draft = IF inside THEN [open |-> TRUE, db |-> new] ELSE @]
          /\ db' = IF inside THEN db ELSE new
    /\ UNCHANGED <<crashes, torn, moved, late>>

StatementFails ==
    /\ conn.pc = "run" /\ conn.left # <<>> /\ ~Executes(Head(conn.left), Seen)
    /\ conn' = Ended("broken")
    /\ UNCHANGED <<db, crashes, torn, moved, late>>

\* The number of the revision is written; SQLite commits.
EndRevision ==
    /\ conn.pc = "run" /\ conn.left = <<>>
    /\ LET new == [Seen EXCEPT !.version = IF conn.up THEN @ + 1 ELSE @ - 1]
           last == new.version = conn.goal
           commits == db.dialect = "sqlite" \/ last
       IN /\ db' = IF commits THEN new ELSE db
          /\ conn' = Running([conn EXCEPT !.draft = IF commits THEN NoDraft
                                             ELSE [open |-> TRUE, db |-> new]],
                             conn.up, conn.goal, new.version, new)
          /\ moved' = IF commits /\ conn.app # 0 THEN conn.app
                      ELSE IF commits /\ new.version < 5 THEN 0 ELSE moved
    /\ UNCHANGED <<crashes, torn, late>>

\* A transaction of its own.
StampsKnown == conn.app # 0 /\ conn.before # 0 /\ db.version # conn.before
               /\ "app_info" \in DOMAIN db.tables
Stamps == conn.app # 0 /\ db.version # conn.before /\ "app_info" \in DOMAIN db.tables
Stamp ==
    /\ conn.pc = "done"
    /\ db' = IF Stamps THEN [db EXCEPT !.stamp = conn.app] ELSE db
    /\ late' = (late /\ ~Stamps)
    /\ conn' = Ended("migrated")
    /\ UNCHANGED <<crashes, torn, moved>>

\* The process dies: PostgreSQL forgets the transaction, SQLite keeps what it has committed.
Crash ==
    /\ conn.pc \in {"run", "done"} /\ crashes < Crashes
    /\ conn' = Quiet /\ crashes' = crashes + 1
    /\ torn' = (torn \/ db.tables # TablesAt(db.version))
    /\ late' = (late \/ (conn.app # 0 /\ db.version # conn.before))
    /\ UNCHANGED <<db, moved>>

============================================================================
