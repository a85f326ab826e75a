------------------------------ MODULE Startup ------------------------------
(***************************************************************************)
(* The start of the server (lifespan of main.py) with the settings that     *)
(* pass their validators: migrations, the user of a mode without logins,    *)
(* Redis, backends.  Between starts the settings, the release and, with     *)
(* alembic's own commands, the revision of the database may change.        *)
(***************************************************************************)
EXTENDS Migrations, Backends

VARIABLES phase,    \* how far the start has come
          mode,     \* the settings of the process
          special,  \* "system" and "demo", if stored
          implicit  \* _auth_disabled_user

vars == <<migrationVars, backendVars, phase, mode, special, implicit>>

CONSTANT MaxEntries  \* bound on the entries of SNAKEDISPATCH_BACKENDS
ASSUME StartupAssumption == MaxEntries \in Nat

Settings == [oauth : BOOLEAN, password : BOOLEAN, local : BOOLEAN, demo : BOOLEAN,
             secret : BOOLEAN, backends : UNION {[1..k -> Entries] : k \in 0..MaxEntries}]
AuthEnabled(s) == s.oauth \/ s.password

ValidLocal(s) == s.local => ~AuthEnabled(s) /\ s.backends = <<>>
ValidDemo(s) == s.demo => ~s.oauth /\ ~s.local /\ s.backends = <<>> /\ s.password
ValidPassword(s) == s.password => s.demo
ValidAuth(s) == AuthEnabled(s) => db.dialect = "postgresql" /\ s.secret
Valid(s) == ValidLocal(s) /\ ValidDemo(s) /\ ValidPassword(s) /\ ValidAuth(s)

Off == [oauth |-> FALSE, password |-> FALSE, local |-> FALSE, demo |-> FALSE,
        secret |-> FALSE, backends |-> <<>>]

Init == /\ MigrationInit /\ BackendsInit
        /\ phase = "off" /\ mode = Off /\ special = {} /\ implicit = "none"

Same == <<mode, special, implicit>>

----------------------------------------------------------------------------
Launch == /\ phase = "off" /\ phase' = "migrating"
          /\ \E app \in Releases : Begin(app)
          /\ UNCHANGED <<backendVars, Same>>

\* main.py reads the entries while it is imported, before any migration.
ImportFails == \E s \in Settings :
    /\ phase = "off" /\ conn.pc = "quiet" /\ Valid(s) /\ ~Parses(s.backends)
    /\ phase' = "failed" /\ mode' = s
    /\ UNCHANGED <<migrationVars, backendVars, special, implicit>>

\* The rows of a table go with it.
IfThere(t, kept, none) == IF t \in DOMAIN db'.tables THEN kept ELSE none
KeepRows == /\ rows' = IfThere("snakedispatch_backends", rows, NoBackends)
            /\ assigned' = IfThere("user_backends", assigned, {})
            /\ special' = IfThere("users", special, {})

Migrate == /\ Statement \/ StatementFails \/ EndRevision \/ Stamp
           /\ KeepRows /\ UNCHANGED <<registry, phase, mode, implicit>>

\* The settings of the process matter from here on.
Migrated == \E s \in Settings :
    /\ phase = "migrating" /\ conn.pc = "migrated" /\ Valid(s) /\ Parses(s.backends)
    /\ phase' = "users" /\ mode' = s
    /\ UNCHANGED <<migrationVars, backendVars, special, implicit>>

NotMigrated ==
    /\ phase = "migrating" /\ conn.pc \in {"refused", "broken"} /\ phase' = "failed"
    /\ UNCHANGED <<migrationVars, backendVars, Same>>

Ensures(name) == special' = special \cup {name}
EnsureUser ==
    /\ phase = "users" /\ phase' = "redis"
    /\ \/ mode.demo /\ Ensures("demo") /\ UNCHANGED implicit
       \/ ~mode.demo /\ ~AuthEnabled(mode) /\ Ensures("system") /\ implicit' = "system"
       \/ ~mode.demo /\ AuthEnabled(mode) /\ UNCHANGED <<special, implicit>>
    /\ UNCHANGED <<migrationVars, backendVars, mode>>

ConnectRedis ==
    /\ phase = "redis"
    /\ phase' \in {"backends"} \cup (IF AuthEnabled(mode) THEN {"failed"} ELSE {})
    /\ UNCHANGED <<migrationVars, backendVars, Same>>

\* Nothing is synchronised, and no loop started, without entries.
SyncBackends ==
    /\ phase = "backends"
    /\ IF mode.backends = <<>> THEN phase' = "serving" /\ UNCHANGED backendVars
       ELSE LET wanted == Configured(mode.backends) IN
            \/ SyncSucceeds(wanted) /\ phase' = "serving"
            \/ SyncFails(wanted) /\ phase' = "failed"
    /\ UNCHANGED <<migrationVars, Same>>

Administer == /\ phase = "serving" /\ (Assign \/ Unassign)
              /\ UNCHANGED <<migrationVars, phase, Same>>

Gone == /\ phase' = "off" /\ mode' = Off /\ implicit' = "none" /\ registry' = NoBackends
        /\ UNCHANGED <<rows, assigned, special>>
Stop == /\ phase \notin {"off", "migrating"} /\ Gone
        /\ conn' = Quiet /\ UNCHANGED <<db, crashes, torn, moved, late>>
CrashMigrating == phase \in {"off", "migrating"} /\ Crash /\ Gone

Developer == /\ phase = "off" /\ \E goal \in 0..6 \cap {db.version - 1, db.version + 1} : Alembic(goal)
             /\ UNCHANGED <<backendVars, phase, Same>>

Next == \/ Launch \/ ImportFails \/ Migrate \/ Migrated \/ NotMigrated \/ EnsureUser \/ ConnectRedis
        \/ SyncBackends \/ Administer \/ Stop \/ CrashMigrating \/ Developer
Spec == Init /\ [][Next]_vars

----------------------------------------------------------------------------
Tables == DOMAIN Models
TypeOK ==
    /\ DOMAIN db.tables \subseteq Tables /\ db.version \in 0..7 /\ db.stamp \in 0..7
    /\ db.rows \subseteq [dims : {"flat", "full", "none"}, times : {"aware", "naive"}]
    /\ conn.pc \in {"quiet", "run", "done", "migrated", "refused", "broken"}
    /\ rows \in [DOMAIN rows -> [url : Urls, active : BOOLEAN]]
    /\ assigned \subseteq (Admins \cup Members) \X DOMAIN rows
    /\ phase \in {"off", "migrating", "users", "redis", "backends", "serving", "failed"}
    /\ mode \in Settings /\ special \subseteq {"system", "demo"}

RowsFit == \A r \in db.rows :
    IF db.version >= 3 THEN r.dims # "flat" /\ r.times = "naive" ELSE r.dims # "full"

\* Whatever upgrades, downgrades and crashes came before, the database has the tables of its
\* revision, those of models.py for this release; on SQLite unless a crash fell into the
\* statements of one revision.  Its network rows have the payloads that the code of the
\* revision reads, torn or not.  A release serves only a database of its own revision.
SchemaFollowsVersion ==
    /\ TypeOK
    /\ RowsFit
    /\ conn.pc # "run" /\ ~torn =>
           /\ db.tables = TablesAt(db.version) /\ db.types = TypesAt(db.dialect, db.version)
           /\ db.version = 6 => db.tables = Models
    /\ phase = "serving" => db.version = conn.app
    /\ torn => db.dialect = "sqlite"

\* app_info names the release that last migrated the database, unless that release died
\* between the upgrade and the note: the next start finds nothing to note.
AppInfoIsTrue == conn.pc \in {"quiet", "migrated", "refused"} /\ ~late /\ ~torn => db.stamp = moved

\* A start with valid settings fails only for a database that a later release has migrated,
\* one a crash has torn, Redis, a malformed entry, or a URL that two names claim.
StartFailsForAReason ==
    phase = "failed" =>
        \/ db.version > conn.app
        \/ torn
        \/ AuthEnabled(mode)
        \/ ~Parses(mode.backends)
        \/ Conflict(Configured(mode.backends))

\* The backends a user is offered have a client for the URL that is configured, and the
\* ones that are not configured are not offered.  Without any entry the rows of an earlier
\* start stay active.
OfferedIsUsable ==
    phase = "serving" /\ mode.backends # <<>> =>
        LET wanted == Configured(mode.backends) IN
        /\ registry = wanted /\ ActiveIn(rows) = DOMAIN wanted
        /\ \A u \in Admins \cup Members : \A n \in Available(u) :
              SubmitsTo(u, n) = [status |-> 201, url |-> wanted[n]]

============================================================================
