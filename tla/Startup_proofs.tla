--------------------------- MODULE Startup_proofs ---------------------------
(***************************************************************************)
(* A server that serves offers exactly the backends that are configured,    *)
(* each with the client of its URL.  Its database has the tables, types and *)
(* rows of its own revision, and app_info names the release that has moved  *)
(* it, whatever was upgraded, downgraded and interrupted before; a start    *)
(* fails for a reason the settings or the database show.  All of this for   *)
(* any number of crashes and entries, and any names, URLs and users.        *)
(***************************************************************************)
EXTENDS Startup, FiniteSetTheorems, SequenceTheorems, WellFoundedInduction, TLAPS

\* The rows of the backends are those of names, and no two have the same URL.
RowsTyped ==
  /\ DOMAIN rows \subseteq BackendNames /\ IsFiniteSet(DOMAIN rows)
  /\ rows \in [DOMAIN rows -> [url : Urls, active : BOOLEAN]]
RowsInv == RowsTyped /\ UrlsUnique(rows)

\* From the users on the migration is over, so that no table goes and no row with it.
PhaseInv ==
  /\ phase \in {"off", "migrating", "users", "redis", "backends", "serving", "failed"}
  /\ "pc" \in DOMAIN conn /\ mode.backends \in Seq(Entries)
  /\ phase \in {"users", "redis", "backends", "serving"} =>
       conn.pc = "migrated" /\ Parses(mode.backends)
  /\ phase = "failed" => conn.pc \in {"quiet", "migrated", "refused", "broken"}

\* What the start leaves behind when it has brought the backends into line.
InLine(wanted) == registry = wanted /\ ActiveIn(rows) = DOMAIN wanted
ServingInv == phase = "serving" /\ mode.backends # <<>> => InLine(Configured(mode.backends))

\* A refused database is of a later release; what else fails is Redis or the backends.
FailedInv ==
  /\ conn.pc = "refused" => ~Knows(conn.app, db.version)
  /\ phase = "failed" /\ conn.pc \in {"quiet", "migrated"} =>
       AuthEnabled(mode) \/ ~Parses(mode.backends) \/ Conflict(Configured(mode.backends))

\* The inductive invariant.
StartInv == RowsInv /\ PhaseInv /\ ServingInv /\ FailedInv

----------------------------------------------------------------------------
(* The entries of the setting.                                             *)

\* Of some indexes one is the last.
LEMMA LastIndex ==
  ASSUME NEW k \in Nat, NEW T, T \subseteq 1..k, T # {}
  PROVE  \E i \in T : \A j \in T : j =< i
<1> DEFINE R == {ss \in Nat \X Nat : ss[1] < ss[2]}
           D == {k - i : i \in T}
<1>1. IsWellFoundedOn(R, Nat)
  BY NatLessThanWellFounded DEF OpToRel
<1>2. \A i \in T : i \in Nat /\ k - i \in Nat
  OBVIOUS
<1>3. D \subseteq Nat /\ D # {}
  BY <1>2
<1>4. PICK x \in D : \A y \in D : ~(<<y, x>> \in R)
  <2> HIDE DEF R, D
  <2> QED
    BY <1>1, <1>3, WFMin
<1>5. PICK i \in T : x = k - i
  BY <1>4
<1>6. ASSUME NEW j \in T PROVE j =< i
  <2>1. k - j \in D /\ k - j \in Nat /\ k - i \in Nat
    BY <1>2
  <2>2. ~(k - j < k - i)
    BY <1>4, <1>5, <2>1
  <2> QED
    BY <1>2, <2>2
<1> QED
  BY <1>6

\* Entries that parse configure finitely many names, each with a URL.
LEMMA ConfiguredIsTyped ==
  ASSUME NEW entries \in Seq(Entries), Parses(entries)
  PROVE  LET wanted == Configured(entries) IN
         /\ DOMAIN wanted \subseteq BackendNames /\ IsFiniteSet(DOMAIN wanted)
         /\ wanted \in [DOMAIN wanted -> Urls]
<1> DEFINE k == Len(entries)
           names == {entries[i].name : i \in DOMAIN entries}
           LastOf(n) == CHOOSE i \in DOMAIN entries :
                          /\ entries[i].name = n
                          /\ \A j \in DOMAIN entries : entries[j].name = n => j <= i
           f == [i \in 1..k |-> entries[i].name]
<1>1. k \in Nat /\ DOMAIN entries = 1..k
  OBVIOUS
<1>2. \A i \in 1..k : entries[i] \in [name : BackendNames, url : Urls]
  BY <1>1 DEF Parses, Entries
<1>3. \A i \in 1..k : entries[i].name \in BackendNames /\ entries[i].url \in Urls
  BY <1>2
<1>4. f \in Surjection(1..k, names)
  BY <1>1 DEF Surjection
<1>5. IsFiniteSet(names)
  BY <1>1, <1>4, FS_Surjection, FS_Interval
<1>6. ASSUME NEW n \in names PROVE LastOf(n) \in 1..k
  <2> DEFINE T == {i \in 1..k : entries[i].name = n}
  <2>1. T \subseteq 1..k /\ T # {}
    BY <1>1
  <2>2. PICK i \in T : \A j \in T : j =< i
    <3> HIDE DEF T
    <3> QED
      BY <1>1, <2>1, LastIndex
  <2>3. /\ i \in DOMAIN entries /\ entries[i].name = n
        /\ \A j \in DOMAIN entries : entries[j].name = n => j <= i
    BY <1>1, <2>2
  <2> QED
    BY <1>1, <2>3
<1>7. \A n \in names : entries[LastOf(n)].url \in Urls
  BY <1>3, <1>6
<1>8. names \subseteq BackendNames
  BY <1>1, <1>3
<1>9. Configured(entries) = [n \in names |-> entries[LastOf(n)].url]
  BY DEF Configured
<1> HIDE DEF LastOf, names
<1> QED
  BY <1>5, <1>7, <1>8, <1>9

----------------------------------------------------------------------------
(* The rows of the backends.                                               *)

\* The flush updates every row and inserts every name that has none.
LEMMA OrderIsComplete ==
  ASSUME RowsTyped, NEW wanted, IsFiniteSet(DOMAIN wanted), NEW order, order \in FlushOrders(wanted)
  PROVE  /\ Len(order) \in Nat
         /\ {order[i] : i \in 1..Len(order)} = DOMAIN rows \cup DOMAIN wanted
<1> DEFINE New == DOMAIN wanted \ DOMAIN rows
           U == SetToSeqs(DOMAIN rows)
           I == SetToSeqs(New)
<1>0. FlushOrders(wanted) = {u \o i : u \in U, i \in I}
  BY DEF FlushOrders
<1>9. \E u \in U, i \in I : order = u \o i
  <2> HIDE DEF U, I
  <2> QED
    BY <1>0
<1>1. PICK u \in SetToSeqs(DOMAIN rows), i \in SetToSeqs(New) : order = u \o i
  BY <1>9
<1>2. ASSUME NEW S, IsFiniteSet(S), NEW s \in SetToSeqs(S)
      PROVE  s \in Seq(S) /\ \A x \in S : \E j \in 1..Len(s) : s[j] = x
  <2> DEFINE n == Cardinality(S)
  <2>1. n \in Nat /\ IsFiniteSet(1..n) /\ Cardinality(1..n) = n
    BY <1>2, FS_CardinalityType, FS_Interval
  <2>2. s \in [1..n -> S] /\ \A a, b \in 1..n : a # b => s[a] # s[b]
    BY DEF SetToSeqs
  <2>3. s \in Injection(1..n, S)
    BY <2>2 DEF Injection, IsInjective
  <2>4. s \in Surjection(1..n, S)
    BY <1>2, <2>1, <2>3, FS_Injection
  <2> QED
    BY <2>1, <2>2, <2>4 DEF Surjection
<1>3. IsFiniteSet(New)
  BY FS_Subset
<1> HIDE DEF New
<1>4. /\ u \in Seq(DOMAIN rows) /\ \A x \in DOMAIN rows : \E j \in 1..Len(u) : u[j] = x
      /\ i \in Seq(New) /\ \A x \in New : \E j \in 1..Len(i) : i[j] = x
  BY <1>2, <1>3 DEF RowsTyped
<1>5. /\ Len(order) = Len(u) + Len(i) /\ Len(u) \in Nat /\ Len(i) \in Nat
      /\ \A j \in 1..Len(order) : order[j] = IF j =< Len(u) THEN u[j] ELSE i[j - Len(u)]
  <2>1. u \in Seq(DOMAIN rows \cup New) /\ i \in Seq(DOMAIN rows \cup New)
    BY <1>4
  <2> QED
    BY <1>1, <2>1, ConcatProperties, LenProperties
<1>6. ASSUME NEW j \in 1..Len(order) PROVE order[j] \in DOMAIN rows \cup DOMAIN wanted
  <2>1. CASE j =< Len(u)
    <3>1. j \in 1..Len(u)
      BY <1>5, <2>1
    <3>2. u[j] \in DOMAIN rows
      BY <1>4, <3>1
    <3> QED
      BY <1>5, <2>1, <3>2
  <2>2. CASE ~(j =< Len(u))
    <3>1. j - Len(u) \in 1..Len(i)
      BY <1>5, <2>2
    <3>2. i[j - Len(u)] \in New
      BY <1>4, <3>1
    <3> QED
      BY <1>5, <2>2, <3>2 DEF New
  <2> QED
    BY <2>1, <2>2
<1>7. ASSUME NEW x \in DOMAIN rows PROVE \E j \in 1..Len(order) : order[j] = x
  <2>1. PICK j \in 1..Len(u) : u[j] = x
    BY <1>4
  <2>2. j \in 1..Len(order) /\ j =< Len(u)
    BY <1>5
  <2> QED
    BY <1>5, <2>1, <2>2
<1>8. ASSUME NEW x \in New PROVE \E j \in 1..Len(order) : order[j] = x
  <2>1. PICK j \in 1..Len(i) : i[j] = x
    BY <1>4
  <2>2. Len(u) + j \in 1..Len(order) /\ ~(Len(u) + j =< Len(u)) /\ (Len(u) + j) - Len(u) = j
    BY <1>5
  <2> QED
    BY <1>5, <2>1, <2>2
<1> QED
  BY <1>5, <1>6, <1>7, <1>8 DEF New

\* A row that was updated or inserted has the URL it had or the one that is configured ...
LEMMA PartlyIsTyped ==
  ASSUME RowsTyped, NEW wanted, DOMAIN wanted \subseteq BackendNames,
         \A n \in DOMAIN wanted : wanted[n] \in Urls,
         NEW done, done \subseteq DOMAIN rows \cup DOMAIN wanted
  PROVE  /\ Partly(done, wanted) \in [DOMAIN rows \cup done -> [url : Urls, active : BOOLEAN]]
         /\ DOMAIN Partly(done, wanted) = DOMAIN rows \cup done
         /\ \A n \in DOMAIN rows \cup done : Partly(done, wanted)[n].url =
               IF n \in done /\ n \in DOMAIN wanted THEN wanted[n] ELSE rows[n].url
         /\ \A n \in done : Partly(done, wanted)[n].active <=> n \in DOMAIN wanted
<1>1. \A n \in DOMAIN rows : /\ Retired(rows[n]) \in [url : Urls, active : BOOLEAN]
                             /\ Retired(rows[n]).url = rows[n].url /\ ~Retired(rows[n]).active
  BY DEF RowsTyped, Retired
<1>2. \A n \in DOMAIN rows : rows[n] \in [url : Urls, active : BOOLEAN]
  BY DEF RowsTyped
<1>3. \A n \in done \ DOMAIN rows : n \in DOMAIN wanted
  OBVIOUS
<1>4. \A n \in done :
        /\ RowAfter(n, wanted) \in [url : Urls, active : BOOLEAN]
        /\ RowAfter(n, wanted).url = IF n \in DOMAIN wanted THEN wanted[n] ELSE rows[n].url
        /\ RowAfter(n, wanted).active <=> n \in DOMAIN wanted
  BY <1>1, <1>3 DEF RowAfter
<1>5. DOMAIN Partly(done, wanted) = DOMAIN rows \cup done
  BY DEF Partly
<1>6. \A n \in DOMAIN rows \cup done :
        Partly(done, wanted)[n] = IF n \in done THEN RowAfter(n, wanted) ELSE rows[n]
  BY DEF Partly
<1>7. Partly(done, wanted) \in [DOMAIN rows \cup done -> [url : Urls, active : BOOLEAN]]
  BY <1>2, <1>4 DEF Partly
<1> QED
  BY <1>2, <1>4, <1>5, <1>6, <1>7

\* ... so that two rows get the same URL only when the setting says so.
LEMMA ClashIsConflict ==
  ASSUME RowsInv, NEW wanted, DOMAIN wanted \subseteq BackendNames,
         \A n \in DOMAIN wanted : wanted[n] \in Urls,
         NEW done, done \subseteq DOMAIN rows \cup DOMAIN wanted,
         ~UrlsUnique(Partly(done, wanted))
  PROVE  Conflict(wanted)
<1> DEFINE table == Partly(done, wanted)
<1>1. /\ DOMAIN table = DOMAIN rows \cup done
      /\ \A n \in DOMAIN rows \cup done :
            table[n].url = IF n \in done /\ n \in DOMAIN wanted THEN wanted[n] ELSE rows[n].url
  <2>1. RowsTyped
    BY DEF RowsInv
  <2>2. DOMAIN table = DOMAIN rows \cup done
    BY <2>1, PartlyIsTyped
  <2>3. \A n \in DOMAIN rows \cup done :
            table[n].url = IF n \in done /\ n \in DOMAIN wanted THEN wanted[n] ELSE rows[n].url
    <3> HIDE DEF table
    <3>1. /\ Partly(done, wanted) \in [DOMAIN rows \cup done -> [url : Urls, active : BOOLEAN]]
          /\ DOMAIN Partly(done, wanted) = DOMAIN rows \cup done
          /\ \A n \in DOMAIN rows \cup done : Partly(done, wanted)[n].url =
                IF n \in done /\ n \in DOMAIN wanted THEN wanted[n] ELSE rows[n].url
          /\ \A n \in done : Partly(done, wanted)[n].active <=> n \in DOMAIN wanted
      BY <2>1, PartlyIsTyped
    <3>2. table = Partly(done, wanted)
      BY DEF table
    <3> QED
      BY <3>1, <3>2
  <2> HIDE DEF table
  <2> QED
    BY <2>2, <2>3
<1> HIDE DEF table
<1>2. PICK m \in DOMAIN table, n \in DOMAIN table : table[m].url = table[n].url /\ m # n
  <2>1. ~UrlsUnique(table)
    BY DEF table
  <2> QED
    BY <2>1 DEF UrlsUnique
<1>3. \A x \in DOMAIN table : ~(x \in done /\ x \in DOMAIN wanted) => x \in DOMAIN rows
  BY <1>1
<1>4. \A x, y \in DOMAIN rows : rows[x].url = rows[y].url => x = y
  BY DEF RowsInv, UrlsUnique
<1> QED
  BY <1>1, <1>2, <1>3, <1>4 DEF Conflict

----------------------------------------------------------------------------
(* Bringing the backends into line.                                        *)

\* When the flush succeeds, the rows and the registry are what the setting wants ...
LEMMA SyncBringsIntoLine ==
  ASSUME RowsInv, NEW entries, entries \in Seq(Entries), Parses(entries),
         SyncSucceeds(Configured(entries))
  PROVE  RowsInv' /\ (registry' = Configured(entries))
         /\ ActiveIn(rows') = DOMAIN Configured(entries)
<1> DEFINE wanted == Configured(entries)
           all == DOMAIN rows \cup DOMAIN wanted
<1>1. /\ DOMAIN wanted \subseteq BackendNames /\ IsFiniteSet(DOMAIN wanted)
      /\ wanted \in [DOMAIN wanted -> Urls]
  BY ConfiguredIsTyped
<1>2. RowsTyped /\ UrlsUnique(rows)
  BY DEF RowsInv
<1>3. /\ rows' = Partly(all, wanted) /\ registry' = Registered(rows')
  BY DEF SyncSucceeds
<1>4. PICK order : order \in FlushOrders(wanted) /\ Flushes(order, wanted)
  BY DEF SyncSucceeds
<1> HIDE DEF wanted
<1>5. /\ rows' \in [all -> [url : Urls, active : BOOLEAN]] /\ DOMAIN rows' = all
      /\ \A n \in all : rows'[n].url = IF n \in DOMAIN wanted THEN wanted[n] ELSE rows[n].url
      /\ \A n \in all : rows'[n].active <=> n \in DOMAIN wanted
  <2>1. all \subseteq DOMAIN rows \cup DOMAIN wanted /\ DOMAIN rows \cup all = all
    OBVIOUS
  <2>2. \A n \in DOMAIN wanted : wanted[n] \in Urls
    BY <1>1
  <2> HIDE DEF all
  <2>3. /\ Partly(all, wanted) \in [DOMAIN rows \cup all -> [url : Urls, active : BOOLEAN]]
        /\ DOMAIN Partly(all, wanted) = DOMAIN rows \cup all
        /\ \A n \in DOMAIN rows \cup all : Partly(all, wanted)[n].url =
              IF n \in all /\ n \in DOMAIN wanted THEN wanted[n] ELSE rows[n].url
        /\ \A n \in all : Partly(all, wanted)[n].active <=> n \in DOMAIN wanted
    BY <1>1, <1>2, <2>1, <2>2, PartlyIsTyped
  <2> QED
    BY <1>3, <2>1, <2>3
<1>6. RowsTyped'
  <2>1. IsFiniteSet(all) /\ all \subseteq BackendNames
    BY <1>1, <1>2, FS_Union DEF RowsTyped
  <2> HIDE DEF all
  <2> QED
    BY <1>5, <2>1 DEF RowsTyped
<1>7. UrlsUnique(rows')
  <2>1. Len(order) \in Nat /\ {order[i] : i \in 1..Len(order)} = all
    BY <1>1, <1>2, <1>4, OrderIsComplete
  <2>2. CASE Len(order) = 0
    <3>1. 1..Len(order) = {}
      BY <2>2
    <3>2. all = {}
      BY <2>1, <3>1
    <3> HIDE DEF all
    <3> QED
      BY <1>5, <3>2 DEF UrlsUnique
  <2>3. CASE Len(order) # 0
    <3>1. Len(order) \in 1..Len(order)
      BY <2>1, <2>3
    <3>2. UrlsUnique(Partly({order[i] : i \in 1..Len(order)}, wanted))
      BY <1>4, <3>1 DEF Flushes
    <3> QED
      BY <1>3, <2>1, <3>2
  <2> QED
    BY <2>2, <2>3
<1>8. ActiveIn(rows') = DOMAIN wanted
  <2> HIDE DEF all
  <2>1. DOMAIN wanted \subseteq all
    BY DEF all
  <2> QED
    BY <1>5, <2>1 DEF ActiveIn
<1>9. registry' = wanted
  <2>1. registry' = [n \in DOMAIN wanted |-> rows'[n].url]
    BY <1>3, <1>8 DEF Registered
  <2>2. \A n \in DOMAIN wanted : rows'[n].url = wanted[n]
    BY <1>5
  <2> QED
    BY <1>1, <2>1, <2>2
<1> QED
  BY <1>6, <1>7, <1>8, <1>9 DEF RowsInv, wanted, UrlsUnique

\* ... and it fails only for a URL that two names claim.
LEMMA SyncFailsOnConflict ==
  ASSUME RowsInv, NEW entries, entries \in Seq(Entries), Parses(entries),
         SyncFails(Configured(entries))
  PROVE  Conflict(Configured(entries))
<1> DEFINE wanted == Configured(entries)
<1>1. /\ DOMAIN wanted \subseteq BackendNames /\ IsFiniteSet(DOMAIN wanted)
      /\ wanted \in [DOMAIN wanted -> Urls]
  BY ConfiguredIsTyped
<1>2. PICK order : order \in FlushOrders(wanted) /\ ~Flushes(order, wanted)
  BY DEF SyncFails
<1> HIDE DEF wanted
<1>3. RowsTyped /\ \A n \in DOMAIN wanted : wanted[n] \in Urls
  BY <1>1 DEF RowsInv
<1>4. /\ Len(order) \in Nat
      /\ {order[i] : i \in 1..Len(order)} = DOMAIN rows \cup DOMAIN wanted
  BY <1>1, <1>2, <1>3, OrderIsComplete
<1>5. PICK k \in 1..Len(order) : ~UrlsUnique(Partly({order[i] : i \in 1..k}, wanted))
  BY <1>2 DEF Flushes
<1>6. \A i \in 1..k : i \in 1..Len(order)
  BY <1>4
<1>7. PICK done : done = {order[i] : i \in 1..k}
  OBVIOUS
<1>8. done \subseteq DOMAIN rows \cup DOMAIN wanted /\ ~UrlsUnique(Partly(done, wanted))
  BY <1>4, <1>5, <1>6, <1>7
<1>9. Conflict(wanted)
  BY <1>1, <1>3, <1>8, ClashIsConflict
<1> QED
  BY <1>9 DEF wanted

----------------------------------------------------------------------------
(* The start.                                                              *)

\* The invariant holds before the first start ...
LEMMA StartInvInit == Init => StartInv
<1> SUFFICES ASSUME Init PROVE StartInv
  OBVIOUS
<1>1. rows = NoBackends /\ phase = "off" /\ mode = Off /\ conn = Quiet
  BY DEF Init, BackendsInit, MigrationInit
<1>2. RowsInv
  BY <1>1, FS_EmptySet DEF RowsInv, RowsTyped, NoBackends, UrlsUnique
<1>3. conn.pc = "quiet" /\ "pc" \in DOMAIN conn
  BY <1>1 DEF Quiet
<1>4. PhaseInv
  BY <1>1, <1>3, EmptySeq DEF PhaseInv, Off
<1>5. ServingInv /\ FailedInv
  BY <1>1, <1>3 DEF ServingInv, FailedInv
<1> QED
  BY <1>2, <1>4, <1>5 DEF StartInv

\* A migration under way is neither over nor refused when a statement or a revision is done.
LEMMA MigrateStep ==
  ASSUME StartInv, Migrate
  PROVE  /\ conn.pc \in {"run", "done"} /\ conn'.pc # "refused" /\ "pc" \in DOMAIN conn'
         /\ UNCHANGED <<registry, phase, mode>> /\ rows' \in {rows, NoBackends}
<1>1. "pc" \in DOMAIN conn /\ \A pc : Ended(pc).pc \in {pc, "quiet"} /\ "pc" \in DOMAIN Ended(pc)
  BY DEF StartInv, PhaseInv, Ended, Quiet
<1>2. UNCHANGED <<registry, phase, mode>> /\ rows' \in {rows, NoBackends}
  BY DEF Migrate, KeepRows, IfThere
<1>3. CASE Statement
  <2>1. conn.pc = "run"
    BY <1>3 DEF Statement
  <2>2. \E d : conn' = [conn EXCEPT !.left = Tail(@), !.draft = d]
    BY <1>3 DEF Statement
  <2> QED
    BY <1>1, <1>2, <2>1, <2>2
<1>4. CASE StatementFails
  BY <1>1, <1>2, <1>4 DEF StatementFails
<1>5. CASE EndRevision
  <2>1. conn.pc = "run"
    BY <1>5 DEF EndRevision
  <2>2. \E d, up, goal, v, new : conn' = Running([conn EXCEPT !.draft = d], up, goal, v, new)
    BY <1>5 DEF EndRevision
  <2>3. conn'.pc \in {"run", "done"} /\ "pc" \in DOMAIN conn'
    BY <1>1, <2>2 DEF Running
  <2> QED
    BY <1>2, <2>1, <2>3
<1>6. CASE Stamp
  BY <1>1, <1>2, <1>6 DEF Stamp
<1> QED
  BY <1>3, <1>4, <1>5, <1>6 DEF Migrate

\* A start or a command of alembic begins a migration, or is refused.
LEMMA BeginStep ==
  ASSUME NEW app, Begin(app)
  PROVE  /\ "pc" \in DOMAIN conn' /\ db' = db
         /\ conn'.pc = "refused" => ~Knows(conn'.app, db.version)
<1>1. CASE ~Knows(app, db.version)
  <2>1. conn' = [Quiet EXCEPT !.pc = "refused", !.app = app] /\ db' = db
    BY <1>1 DEF Begin
  <2> QED
    BY <1>1, <2>1 DEF Quiet
<1>2. CASE Knows(app, db.version)
  <2>1. /\ \E up, goal, v, d, draft, before : conn' = Running(
              [Quiet EXCEPT !.app = app, !.before = before, !.draft = draft], up, goal, v, d)
        /\ db' = db
    BY <1>2 DEF Begin
  <2>2. conn'.pc \in {"run", "done"} /\ "pc" \in DOMAIN conn'
    BY <2>1 DEF Running, Quiet
  <2> QED
    BY <2>1, <2>2
<1> QED
  BY <1>1, <1>2

\* The rows stay typed, with unique URLs.
LEMMA RowsStep == ASSUME StartInv, [Next]_vars PROVE RowsInv'
<1>0. RowsInv
  BY DEF StartInv
<1>a. ASSUME rows' \in {rows, NoBackends} PROVE RowsInv'
  <2>1. CASE rows' = rows
    BY <1>0, <2>1 DEF RowsInv, RowsTyped, UrlsUnique
  <2>2. CASE rows' = NoBackends
    BY <2>2, FS_EmptySet DEF RowsInv, RowsTyped, NoBackends, UrlsUnique
  <2> QED
    BY <1>a, <2>1, <2>2
<1> USE DEF backendVars, Same
<1>1. CASE Launch
  BY <1>1, <1>a DEF Launch
<1>2. CASE Migrate
  BY <1>2, <1>a, MigrateStep
<1>3. CASE Migrated \/ ImportFails
  BY <1>3, <1>a DEF Migrated, ImportFails
<1>4. CASE NotMigrated
  BY <1>4, <1>a DEF NotMigrated
<1>5. CASE EnsureUser
  BY <1>5, <1>a DEF EnsureUser
<1>6. CASE ConnectRedis
  BY <1>6, <1>a DEF ConnectRedis
<1>7. CASE SyncBackends
  <2>1. CASE UNCHANGED backendVars
    BY <2>1, <1>a
  <2>2. CASE mode.backends # <<>> /\ SyncSucceeds(Configured(mode.backends))
    <3>1. mode.backends \in Seq(Entries) /\ Parses(mode.backends)
      BY <1>7 DEF StartInv, PhaseInv, SyncBackends
    <3> QED
      BY <1>0, <2>2, <3>1, SyncBringsIntoLine
  <2> QED
    BY <1>7, <2>1, <2>2 DEF SyncBackends, SyncFails
<1>8. CASE Administer
  BY <1>8, <1>a DEF Administer, Assign, Unassign
<1>9. CASE Stop \/ CrashMigrating
  BY <1>9, <1>a DEF Stop, CrashMigrating, Gone
<1>10. CASE Developer
  BY <1>10, <1>a DEF Developer
<1>11. CASE UNCHANGED vars
  BY <1>11, <1>a DEF vars
<1> QED
  BY <1>1, <1>2, <1>3, <1>4, <1>5, <1>6, <1>7, <1>8, <1>9, <1>10, <1>11 DEF Next

\* The start goes on only when the migration is over.
LEMMA PhaseStep == ASSUME StartInv, [Next]_vars PROVE PhaseInv'
<1>0. PhaseInv /\ << >> \in Seq(Entries) /\ Off.backends = << >>
  BY EmptySeq DEF StartInv, Off
<1> USE DEF migrationVars, Same
<1>1. CASE Launch
  BY <1>0, <1>1, BeginStep DEF Launch, PhaseInv
<1>2. CASE Migrate
  BY <1>0, <1>2, MigrateStep DEF PhaseInv
<1>3. CASE Migrated \/ ImportFails
  <2>1. ASSUME NEW s \in Settings PROVE s.backends \in Seq(Entries)
    <3>1. PICK k \in 0..MaxEntries : s.backends \in [1..k -> Entries]
      BY DEF Settings
    <3>2. k \in Nat
      BY StartupAssumption
    <3> QED
      BY <3>1, <3>2
  <2> QED
    BY <1>0, <1>3, <2>1 DEF Migrated, ImportFails, PhaseInv, Parses
<1>4. CASE NotMigrated
  BY <1>0, <1>4 DEF NotMigrated, PhaseInv
<1>5. CASE EnsureUser
  BY <1>0, <1>5 DEF EnsureUser, PhaseInv, Parses
<1>6. CASE ConnectRedis
  BY <1>0, <1>6 DEF ConnectRedis, PhaseInv, Parses
<1>7. CASE SyncBackends
  BY <1>0, <1>7 DEF SyncBackends, PhaseInv, Parses
<1>8. CASE Administer
  BY <1>0, <1>8 DEF Administer, PhaseInv, Parses
<1>9. CASE Stop \/ CrashMigrating
  BY <1>0, <1>9 DEF Stop, CrashMigrating, Crash, Gone, PhaseInv, Quiet
<1>10. CASE Developer
  <2>1. PICK goal : Alembic(goal)
    BY <1>10 DEF Developer
  <2>2. "pc" \in DOMAIN conn'
    BY <2>1 DEF Alembic, Running, Quiet
  <2> QED
    BY <1>0, <1>10, <2>2 DEF Developer, PhaseInv
<1>11. CASE UNCHANGED vars
  BY <1>0, <1>11 DEF vars, PhaseInv, Parses
<1> QED
  BY <1>1, <1>2, <1>3, <1>4, <1>5, <1>6, <1>7, <1>8, <1>9, <1>10, <1>11 DEF Next

\* A server serves what its start has brought into line.
LEMMA ServingStep == ASSUME StartInv, [Next]_vars PROVE ServingInv'
<1>0. PhaseInv /\ ServingInv
  BY DEF StartInv
<1>a. ASSUME phase' # "serving" PROVE ServingInv'
  BY <1>a DEF ServingInv
<1>b. ASSUME UNCHANGED <<phase, mode, rows, registry>> PROVE ServingInv'
  BY <1>0, <1>b DEF ServingInv, InLine, ActiveIn
<1> USE DEF Same
<1>1. CASE Launch
  BY <1>1, <1>a DEF Launch
<1>2. CASE Migrate
  BY <1>0, <1>2, <1>a, MigrateStep DEF PhaseInv
<1>3. CASE Migrated \/ ImportFails
  BY <1>3, <1>a DEF Migrated, ImportFails
<1>4. CASE NotMigrated
  BY <1>4, <1>a DEF NotMigrated
<1>5. CASE EnsureUser
  BY <1>5, <1>a DEF EnsureUser
<1>6. CASE ConnectRedis
  BY <1>6, <1>a DEF ConnectRedis
<1>7. CASE SyncBackends
  <2>1. CASE mode.backends = <<>> \/ phase' = "failed"
    BY <1>7, <1>a, <2>1 DEF SyncBackends, ServingInv
  <2>2. CASE mode.backends # <<>> /\ SyncSucceeds(Configured(mode.backends))
    <3>1. /\ mode.backends \in Seq(Entries) /\ Parses(mode.backends)
          /\ RowsInv /\ mode' = mode
      BY <1>7 DEF StartInv, PhaseInv, SyncBackends
    <3>2. registry' = Configured(mode.backends)
          /\ ActiveIn(rows') = DOMAIN Configured(mode.backends)
      BY <2>2, <3>1, SyncBringsIntoLine
    <3>3. Configured(mode.backends)' = Configured(mode.backends)
      BY <3>1 DEF Configured
    <3>4. ActiveIn(rows)' = ActiveIn(rows')
      BY DEF ActiveIn
    <3> QED
      BY <3>2, <3>3, <3>4 DEF ServingInv, InLine
  <2> QED
    BY <1>7, <2>1, <2>2 DEF SyncBackends
<1>8. CASE Administer
  BY <1>8, <1>b DEF Administer, Assign, Unassign
<1>9. CASE Stop \/ CrashMigrating
  BY <1>9, <1>a DEF Stop, CrashMigrating, Gone
<1>10. CASE Developer
  BY <1>10, <1>a DEF Developer
<1>11. CASE UNCHANGED vars
  BY <1>11, <1>b DEF vars, backendVars
<1> QED
  BY <1>1, <1>2, <1>3, <1>4, <1>5, <1>6, <1>7, <1>8, <1>9, <1>10, <1>11 DEF Next

\* What makes a start fail stays to be seen until the process is gone.
LEMMA FailedStep == ASSUME StartInv, [Next]_vars PROVE FailedInv'
<1>0. PhaseInv /\ FailedInv
  BY DEF StartInv
<1>a. ASSUME conn'.pc # "refused", phase' # "failed" PROVE FailedInv'
  BY <1>a DEF FailedInv
<1>b. ASSUME UNCHANGED <<conn, db>>, phase' # "failed" PROVE FailedInv'
  BY <1>0, <1>b DEF FailedInv, Knows
<1>c. ASSUME UNCHANGED <<mode, rows>>
      PROVE  Conflict(Configured(mode.backends))' <=> Conflict(Configured(mode.backends))
  <2>1. Configured(mode.backends)' = Configured(mode.backends)
    BY <1>c DEF Configured
  <2> QED
    BY <1>c, <2>1 DEF Conflict
<1>d. ASSUME UNCHANGED <<conn, db, phase, mode, rows>> PROVE FailedInv'
  BY <1>0, <1>c, <1>d DEF FailedInv, Knows, AuthEnabled, Parses
<1> USE DEF migrationVars, backendVars, Same
<1>1. CASE Launch
  <2>1. PICK app : Begin(app)
    BY <1>1 DEF Launch
  <2>2. db' = db /\ (conn'.pc = "refused" => ~Knows(conn'.app, db.version)) /\ phase' # "failed"
    BY <1>1, <2>1, BeginStep DEF Launch
  <2> QED
    BY <2>2 DEF FailedInv, Knows
<1>2. CASE Migrate
  BY <1>0, <1>2, <1>a, MigrateStep DEF PhaseInv
<1>3. CASE Migrated \/ ImportFails
  <2>1. CASE Migrated
    BY <1>b, <2>1 DEF Migrated
  <2>2. CASE ImportFails
    <3>1. PICK s : /\ conn.pc = "quiet" /\ ~Parses(s.backends) /\ mode' = s
                   /\ conn' = conn /\ db' = db
      BY <2>2 DEF ImportFails
    <3>2. ~Parses(mode.backends)'
      BY <3>1 DEF Parses
    <3> QED
      BY <3>1, <3>2 DEF FailedInv
  <2> QED
    BY <1>3, <2>1, <2>2
<1>4. CASE NotMigrated
  BY <1>0, <1>4 DEF NotMigrated, FailedInv, Knows
<1>5. CASE EnsureUser
  BY <1>5, <1>b DEF EnsureUser
<1>6. CASE ConnectRedis
  <2>1. CASE phase' # "failed"
    BY <1>6, <1>b, <2>1 DEF ConnectRedis
  <2>2. CASE phase' = "failed"
    <3>1. AuthEnabled(mode) /\ UNCHANGED <<conn, db, mode>>
      BY <1>6, <2>2 DEF ConnectRedis
    <3> QED
      BY <1>0, <3>1 DEF FailedInv, Knows, AuthEnabled
  <2> QED
    BY <2>1, <2>2
<1>7. CASE SyncBackends
  <2>0. UNCHANGED <<conn, db, mode>>
    BY <1>7 DEF SyncBackends
  <2>1. CASE phase' = "serving"
    BY <1>b, <2>0, <2>1
  <2>2. Parses(mode.backends)
    BY <1>0, <1>7 DEF SyncBackends, PhaseInv
  <2>3. CASE SyncFails(Configured(mode.backends))
    <3>1. mode.backends \in Seq(Entries) /\ RowsInv
      BY DEF StartInv, PhaseInv
    <3>2. Conflict(Configured(mode.backends)) /\ rows' = rows
      BY <2>2, <2>3, <3>1, SyncFailsOnConflict DEF SyncFails
    <3>3. Conflict(Configured(mode.backends))'
      BY <2>0, <3>2, <1>c
    <3> QED
      BY <1>0, <2>0, <3>3 DEF FailedInv, Knows
  <2> QED
    BY <1>7, <2>1, <2>2, <2>3 DEF SyncBackends
<1>8. CASE Administer
  BY <1>8, <1>b DEF Administer
<1>9. CASE Stop \/ CrashMigrating
  <2>1. conn' = Quiet /\ phase' = "off"
    BY <1>9 DEF Stop, CrashMigrating, Crash, Gone
  <2>2. conn'.pc = "quiet"
    BY <2>1 DEF Quiet
  <2> QED
    BY <2>1, <2>2, <1>a
<1>10. CASE Developer
  <2>1. PICK goal : Alembic(goal)
    BY <1>10 DEF Developer
  <2>2. conn'.pc # "refused"
    BY <2>1 DEF Alembic, Running, Quiet
  <2> QED
    BY <1>10, <2>2, <1>a DEF Developer
<1>11. CASE UNCHANGED vars
  BY <1>11, <1>d DEF vars
<1> QED
  BY <1>1, <1>2, <1>3, <1>4, <1>5, <1>6, <1>7, <1>8, <1>9, <1>10, <1>11 DEF Next

\* ... and after every step.
LEMMA StartInvStep == StartInv /\ [Next]_vars => StartInv'
<1> SUFFICES ASSUME StartInv, [Next]_vars PROVE StartInv'
  OBVIOUS
<1> QED
  BY RowsStep, PhaseStep, ServingStep, FailedStep DEF StartInv

\* The invariant of the start holds, for every value of the constants.
THEOREM StartInvariant == Spec => []StartInv
BY StartInvInit, StartInvStep, PTL DEF Spec

\* Whoever may see a backend of a server that serves (_get_user_backends) can submit to it, and
\* the run goes to the URL that is configured for its name (_sync_backends, create_run): for any
\* number of entries, rows of earlier starts, users and assignments.
THEOREM ServedIsConfigured == Spec => []OfferedIsUsable
<1>1. StartInv => OfferedIsUsable
  <2> SUFFICES ASSUME StartInv, phase = "serving", mode.backends # <<>>
               PROVE  LET wanted == Configured(mode.backends) IN
                      /\ registry = wanted /\ ActiveIn(rows) = DOMAIN wanted
                      /\ \A u \in Admins \cup Members : \A n \in Available(u) :
                            SubmitsTo(u, n) = [status |-> 201, url |-> wanted[n]]
    BY DEF OfferedIsUsable
  <2> DEFINE wanted == Configured(mode.backends)
  <2>1. registry = wanted /\ ActiveIn(rows) = DOMAIN wanted
    BY DEF StartInv, ServingInv, InLine
  <2>2. DOMAIN rows \subseteq BackendNames
    BY DEF StartInv, RowsInv, RowsTyped
  <2> HIDE DEF wanted
  <2>3. ASSUME NEW u \in Admins \cup Members, NEW n \in Available(u)
        PROVE  SubmitsTo(u, n) = [status |-> 201, url |-> wanted[n]]
    <3>1. n \in DOMAIN wanted /\ n \in DOMAIN rows /\ n # NoChoice
      BY <2>1, <2>2, BackendsAssumption DEF Available, ActiveIn
    <3>2. n \in Available(u) /\ Available(u) # {} /\ n \in DOMAIN registry
      BY <2>1, <3>1
    <3> QED
      BY <2>1, <3>1, <3>2 DEF SubmitsTo
  <2> QED
    BY <2>1, <2>3 DEF wanted
<1> QED
  BY <1>1, StartInvariant, PTL

----------------------------------------------------------------------------
(* The revisions: the statement that rewrites the rows of networks is the   *)
(* one of revision 0003, up and down, and there is one.                     *)

IsSequence(ops) == \E S : ops \in Seq(S)
Rewrites(ops) == \E i \in 1..Len(ops) : ops[i].do = "rows"
RewritesOnce(ops) ==
    \A i, j \in 1..Len(ops) : ops[i].do = "rows" /\ ops[j].do = "rows" => i = j

Keeps(ops) == IsSequence(ops) /\ ~Rewrites(ops)
\* The statements of two lists, one after the other.
LEMMA JoinedOps ==
  ASSUME NEW s, NEW t, IsSequence(s), IsSequence(t)
  PROVE  /\ IsSequence(s \o t) /\ Len(s) \in Nat /\ Len(t) \in Nat
         /\ Len(s \o t) = Len(s) + Len(t)
         /\ \A i \in 1..Len(s \o t) : (s \o t)[i] = IF i =< Len(s) THEN s[i] ELSE t[i - Len(s)]
<1>1. PICK S, T : s \in Seq(S) /\ t \in Seq(T)
  BY DEF IsSequence
<1>2. PICK U : U = S \cup T
  OBVIOUS
<1>3. s \in Seq(U) /\ t \in Seq(U)
  BY <1>1, <1>2
<1> QED
  BY <1>3, ConcatProperties, LenProperties DEF IsSequence

\* Lists that keep the rows keep them together.
LEMMA KeepsJoined ==
  ASSUME NEW s, NEW t, Keeps(s), Keeps(t) PROVE Keeps(s \o t)
<1>1. /\ IsSequence(s \o t) /\ Len(s) \in Nat /\ Len(t) \in Nat
      /\ Len(s \o t) = Len(s) + Len(t)
      /\ \A i \in 1..Len(s \o t) : (s \o t)[i] = IF i =< Len(s) THEN s[i] ELSE t[i - Len(s)]
  BY JoinedOps DEF Keeps
<1>2. ASSUME NEW i \in 1..Len(s \o t) PROVE (s \o t)[i].do # "rows"
  <2>1. i =< Len(s) => i \in 1..Len(s)
    BY <1>1
  <2>2. ~(i =< Len(s)) => i - Len(s) \in 1..Len(t)
    BY <1>1
  <2> QED
    BY <1>1, <2>1, <2>2 DEF Keeps, Rewrites
<1> QED
  BY <1>1, <1>2 DEF Keeps, Rewrites

\* One rewriting, and then statements that keep the rows.
LEMMA OnceBefore ==
  ASSUME NEW s, NEW t, IsSequence(s), Rewrites(s), RewritesOnce(s), Keeps(t)
  PROVE  IsSequence(s \o t) /\ Rewrites(s \o t) /\ RewritesOnce(s \o t)
<1>1. /\ IsSequence(s \o t) /\ Len(s) \in Nat /\ Len(t) \in Nat
      /\ Len(s \o t) = Len(s) + Len(t)
      /\ \A i \in 1..Len(s \o t) : (s \o t)[i] = IF i =< Len(s) THEN s[i] ELSE t[i - Len(s)]
  BY JoinedOps DEF Keeps
<1>2. ASSUME NEW i \in 1..Len(s \o t), (s \o t)[i].do = "rows"
      PROVE  i \in 1..Len(s) /\ s[i].do = "rows"
  <2>1. i =< Len(s) => i \in 1..Len(s)
    BY <1>1
  <2>2. ~(i =< Len(s)) => i - Len(s) \in 1..Len(t)
    BY <1>1
  <2> QED
    BY <1>1, <1>2, <2>1, <2>2 DEF Keeps, Rewrites
<1>3. PICK i \in 1..Len(s) : s[i].do = "rows"
  BY DEF Rewrites
<1>4. i \in 1..Len(s \o t) /\ (s \o t)[i] = s[i]
  BY <1>1
<1> QED
  BY <1>1, <1>2, <1>3, <1>4 DEF Rewrites, RewritesOnce

\* Statements that keep the rows, and then one rewriting.
LEMMA OnceAfter ==
  ASSUME NEW s, NEW t, Keeps(s), IsSequence(t), Rewrites(t), RewritesOnce(t)
  PROVE  IsSequence(s \o t) /\ Rewrites(s \o t) /\ RewritesOnce(s \o t)
<1>1. /\ IsSequence(s \o t) /\ Len(s) \in Nat /\ Len(t) \in Nat
      /\ Len(s \o t) = Len(s) + Len(t)
      /\ \A i \in 1..Len(s \o t) : (s \o t)[i] = IF i =< Len(s) THEN s[i] ELSE t[i - Len(s)]
  BY JoinedOps DEF Keeps
<1>2. ASSUME NEW i \in 1..Len(s \o t), (s \o t)[i].do = "rows"
      PROVE  i - Len(s) \in 1..Len(t) /\ t[i - Len(s)].do = "rows"
  <2>1. i =< Len(s) => i \in 1..Len(s)
    BY <1>1
  <2>2. ~(i =< Len(s)) => i - Len(s) \in 1..Len(t)
    BY <1>1
  <2> QED
    BY <1>1, <1>2, <2>1, <2>2 DEF Keeps, Rewrites
<1>3. PICK j \in 1..Len(t) : t[j].do = "rows"
  BY DEF Rewrites
<1>4. Len(s) + j \in 1..Len(s \o t) /\ ~(Len(s) + j =< Len(s)) /\ (Len(s) + j) - Len(s) = j
  BY <1>1
<1>5. (s \o t)[Len(s) + j] = t[j]
  BY <1>1, <1>4
<1>6. ASSUME NEW a \in 1..Len(s \o t), NEW b \in 1..Len(s \o t),
             (s \o t)[a].do = "rows", (s \o t)[b].do = "rows"
      PROVE  a = b
  <2>1. a - Len(s) = b - Len(s)
    BY <1>2, <1>6 DEF RewritesOnce
  <2> QED
    BY <1>1, <2>1
<1> QED
  BY <1>1, <1>3, <1>4, <1>5, <1>6 DEF Rewrites, RewritesOnce

\* A list of one statement.
LEMMA OneOp ==
  ASSUME NEW op
  PROVE  /\ op.do # "rows" => Keeps(<<op>>)
         /\ op.do = "rows" => IsSequence(<<op>>) /\ Rewrites(<<op>>) /\ RewritesOnce(<<op>>)
<1>1. <<op>> \in Seq({op}) /\ Len(<<op>>) = 1 /\ <<op>>[1] = op
  OBVIOUS
<1>2. PICK s : s = <<op>>
  OBVIOUS
<1>3. IsSequence(s) /\ \A i \in 1..Len(s) : i = 1
  <2>1. s \in Seq({op}) /\ Len(s) = 1
    BY <1>1, <1>2
  <2>2. IsSequence(s)
    BY <2>1 DEF IsSequence
  <2> QED
    BY <2>1, <2>2
<1>4. 1 \in 1..Len(s) /\ s[1] = op
  BY <1>1, <1>2
<1>5. op.do # "rows" => Keeps(s)
  BY <1>3, <1>4 DEF Keeps, Rewrites
<1>6. op.do = "rows" => Rewrites(s)
  BY <1>4 DEF Rewrites
<1>7. RewritesOnce(s)
  BY <1>3 DEF RewritesOnce
<1> QED
  BY <1>2, <1>3, <1>5, <1>6, <1>7

\* Every statement but the rewriting keeps the rows.
LEMMA OpsKeep ==
  /\ Keeps(<<>>)
  /\ \A t, required, optional, types : Keeps(Create(t, required, optional, types))
  /\ \A t, column : Keeps(Index(t, column)) /\ Keeps(DropIndex(t, column))
  /\ \A t, column, types : Keeps(AddRequired(t, column, types))
  /\ \A t, column : Keeps(AddOptional(t, column)) /\ Keeps(DropColumn(t, column))
  /\ \A t, column, new : Keeps(RenameColumn(t, column, new))
  /\ \A t : Keeps(DropTable(t))
  /\ \A old, new : Keeps(RenameType(old, new))
  /\ \A types : Keeps(DropTypes(types))
<1>1. Keeps(<<>>)
  <2>1. <<>> \in Seq({}) /\ Len(<<>>) = 0
    OBVIOUS
  <2> QED
    BY <2>1 DEF Keeps, IsSequence, Rewrites
<1>2. \A do, table, arg, arg2 : Op(do, table, arg, arg2).do = do
  BY DEF Op
<1>3. \A do, table, arg, arg2 : do # "rows" => Keeps(<<Op(do, table, arg, arg2)>>)
  BY <1>2, OneOp
<1>4. \A t, required, optional, types : Keeps(Create(t, required, optional, types))
  BY <1>3 DEF Create
<1>5. \A t, column : Keeps(Index(t, column)) /\ Keeps(DropIndex(t, column))
  BY <1>3 DEF Index, DropIndex
<1>6. \A t, column, types : Keeps(AddRequired(t, column, types))
  BY <1>3 DEF AddRequired
<1>7. \A t, column : Keeps(AddOptional(t, column)) /\ Keeps(DropColumn(t, column))
  BY <1>3 DEF AddOptional, DropColumn
<1>8. \A t, column, new : Keeps(RenameColumn(t, column, new))
  BY <1>3 DEF RenameColumn
<1>9. (\A t : Keeps(DropTable(t))) /\ (\A types : Keeps(DropTypes(types)))
  BY <1>3 DEF DropTable, DropTypes
<1>10. \A old, new : Keeps(RenameType(old, new))
  BY <1>3 DEF RenameType
<1> QED
  BY <1>1, <1>4, <1>5, <1>6, <1>7, <1>8, <1>9, <1>10

\* What is left out for a table that is there keeps them too.
LEMMA UnlessKeeps ==
  ASSUME NEW table, NEW ops, NEW present, Keeps(ops) PROVE Keeps(Unless(table, ops, present))
  BY OpsKeep DEF Unless

\* Revision 0003 rewrites the rows once, and no other does.
LEMMA Revisions ==
  /\ \A present : Keeps(Up1(present))
  /\ Keeps(Down1) /\ Keeps(Up2) /\ Keeps(Down2) /\ Keeps(Up4) /\ Keeps(Down4)
  /\ Keeps(Up5) /\ Keeps(Down5) /\ Keeps(Up6) /\ Keeps(Down6) /\ Keeps(Up7) /\ Keeps(Down7)
  /\ IsSequence(Up3) /\ Rewrites(Up3) /\ RewritesOnce(Up3)
  /\ IsSequence(Down3) /\ Rewrites(Down3) /\ RewritesOnce(Down3)
<1>1. /\ Keeps(CreateBackends) /\ Keeps(CreateUsers) /\ Keeps(CreateLinks) /\ Keeps(CreateKeys)
      /\ Keeps(CreateAssigned) /\ Keeps(CreateRuns) /\ Keeps(CreateNetworks)
  BY OpsKeep, KeepsJoined DEF CreateBackends, CreateUsers, CreateLinks, CreateKeys,
     CreateAssigned, CreateRuns, CreateNetworks
<1>2. ASSUME NEW present PROVE Keeps(Up1(present))
  BY <1>1, UnlessKeeps, KeepsJoined DEF Up1
<1>3. Keeps(Down1) /\ Keeps(Up2) /\ Keeps(Down2)
  BY OpsKeep, KeepsJoined DEF Down1, Up2, Down2
<1>4. /\ Keeps(Up4) /\ Keeps(Down4) /\ Keeps(Up5) /\ Keeps(Down5) /\ Keeps(Up6) /\ Keeps(Down6)
      /\ Keeps(Up7) /\ Keeps(Down7)
  BY OpsKeep DEF Up4, Down4, Up5, Down5, Up6, Down6, Up7, Down7
<1>5. IsSequence(RewriteRows) /\ Rewrites(RewriteRows) /\ RewritesOnce(RewriteRows)
  BY OneOp DEF RewriteRows, Op
<1>6. IsSequence(Up3) /\ Rewrites(Up3) /\ RewritesOnce(Up3)
  BY <1>5, OpsKeep, KeepsJoined, OnceAfter DEF Up3
<1>7. IsSequence(Down3) /\ Rewrites(Down3) /\ RewritesOnce(Down3)
  BY <1>5, OpsKeep, OnceBefore DEF Down3
<1> QED
  BY <1>2, <1>3, <1>4, <1>6, <1>7

----------------------------------------------------------------------------
(* A database on the way from one revision to the next.                    *)

RowKinds == [dims : {"flat", "full", "none"}, times : {"aware", "naive"}]
FitAt(kinds, v) == \A row \in kinds :
    IF v >= 3 THEN row.dims # "flat" /\ row.times = "naive" ELSE row.dims # "full"

DbTyped(d) ==
    /\ {"dialect", "tables", "types", "version", "rows", "stamp"} \subseteq DOMAIN d
    /\ d.version \in 0..7 /\ d.rows \subseteq RowKinds

\* The revision a database is taken to, and whether its rows have to be rewritten for that.
Target(up, v) == IF up THEN v + 1 ELSE v - 1
Crosses(up, v) == (v >= 3) # (Target(up, v) >= 3)

\* Rows that are rewritten have the payloads of the other side of 0003.
LEMMA RowsRewritten ==
  ASSUME NEW kinds, kinds \subseteq RowKinds, NEW up \in BOOLEAN, NEW v \in 0..7, Crosses(up, v),
         FitAt(kinds, v),
         NEW new, new = {IF up THEN Expanded(r) ELSE Collapsed(r) : r \in kinds}
  PROVE  new \subseteq RowKinds /\ FitAt(new, Target(up, v))
<1>1. ASSUME NEW r \in RowKinds
      PROVE  /\ Expanded(r) \in RowKinds /\ Expanded(r).dims # "flat" /\ Expanded(r).times = "naive"
             /\ Collapsed(r) \in RowKinds /\ Collapsed(r).dims # "full"
  BY DEF RowKinds, Expanded, Collapsed
<1>2. CASE up
  <2>1. Target(up, v) >= 3
    BY <1>2 DEF Crosses, Target
  <2>2. \A r \in kinds : r \in RowKinds
    OBVIOUS
  <2> QED
    BY <1>1, <1>2, <2>1, <2>2 DEF FitAt
<1>3. CASE ~up
  <2>1. ~(Target(up, v) >= 3)
    BY <1>3 DEF Crosses, Target
  <2>2. \A r \in kinds : r \in RowKinds
    OBVIOUS
  <2> QED
    BY <1>1, <1>3, <2>1, <2>2 DEF FitAt
<1> QED
  BY <1>2, <1>3

\* Rows that need no update fit both sides of 0003.
LEMMA NoneUpdated ==
  ASSUME NEW kinds, kinds \subseteq RowKinds, NEW up \in BOOLEAN, NEW v \in 0..7, Crosses(up, v),
         FitAt(kinds, v), Updated(up, kinds) = {},
         NEW new, new = {IF up THEN Expanded(r) ELSE Collapsed(r) : r \in kinds}
  PROVE  FitAt(new, v)
<1>1. ASSUME NEW r \in kinds
      PROVE  IF up THEN r.dims # "flat" /\ r.times # "aware" ELSE r.dims = "none"
  BY DEF Updated
<1>2. ASSUME NEW r \in RowKinds
      PROVE  /\ r.dims # "flat" => Expanded(r).dims = r.dims
             /\ r.dims = "none" => Collapsed(r).dims = "none" /\ Collapsed(r).times = r.times
  BY DEF RowKinds, Expanded, Collapsed
<1>3. CASE up
  <2>1. ~(v >= 3)
    BY <1>3 DEF Crosses, Target
  <2> QED
    BY <1>1, <1>2, <1>3, <2>1 DEF FitAt
<1>4. CASE ~up
  <2>1. v >= 3
    BY <1>4 DEF Crosses, Target
  <2> QED
    BY <1>1, <1>2, <1>4, <2>1 DEF FitAt
<1> QED
  BY <1>3, <1>4

\* What a statement does to the revision (nothing) and to the rows.
LEMMA AfterKeeps ==
  ASSUME NEW d, DbTyped(d), NEW op, NEW up
  PROVE  /\ DOMAIN After(op, up, d) = DOMAIN d /\ After(op, up, d).version = d.version
         /\ op.do # "rows" => After(op, up, d).rows \in {d.rows, {}}
         /\ op.do = "rows" => After(op, up, d).rows =
               {IF up THEN Expanded(r) ELSE Collapsed(r) : r \in d.rows}
<1> DEFINE e == After(op, up, d)
<1> USE DEF DbTyped
<1>1. CASE op.do = "create"
  <2>1. \E t, y : e = [d EXCEPT !.tables = t, !.types = y]
    BY <1>1 DEF After
  <2> QED
    BY <1>1, <2>1
<1>2. CASE op.do = "remove"
  <2>1. \E t, y, r : r \in {d.rows, {}} /\ e = [d EXCEPT !.tables = t, !.stamp = y, !.rows = r]
    <3>1. e = [d EXCEPT !.tables = [t \in DOMAIN d.tables \ {op.table} |-> d.tables[t]],
                        !.stamp = IF op.table = "app_info" THEN 0 ELSE d.stamp,
                        !.rows = IF op.table = "networks" THEN {} ELSE d.rows]
      BY <1>2 DEF After
    <3> QED
      BY <3>1
  <2> QED
    BY <1>2, <2>1
<1>3. CASE op.do = "retype" \/ op.do = "untype"
  <2>1. \E y : e = [d EXCEPT !.types = y]
    BY <1>3 DEF After
  <2> QED
    BY <1>3, <2>1
<1>4. CASE op.do = "rows"
  <2>1. e = [d EXCEPT !.rows = {IF up THEN Expanded(r) ELSE Collapsed(r) : r \in d.rows}]
    BY <1>4 DEF After
  <2> QED
    BY <1>4, <2>1
<1>5. CASE op.do \notin {"create", "remove", "retype", "untype", "rows"}
  <2>1. \E t : e = [d EXCEPT !.tables = t]
    BY <1>5 DEF After
  <2> QED
    BY <1>5, <2>1
<1> QED
  BY <1>1, <1>2, <1>3, <1>4, <1>5

\* The statements of a revision keep the rows, except those of 0003.
LEMMA TodoKeeps ==
  ASSUME NEW up \in BOOLEAN, NEW n \in 1..7, NEW d, NEW ops, ops = Todo(up, n, d)
  PROVE  /\ n = 3 => ops \in {Up3, Down3}
         /\ n # 3 => Keeps(ops)
<1>1. n \in {1, 2, 3, 4, 5, 6, 7}
  OBVIOUS
<1>2. CASE up /\ n = 1
  <2>1. ops = Up1(DOMAIN d.tables)
    BY <1>2 DEF Todo
  <2>2. Keeps(ops)
    BY <2>1, Revisions
  <2>3. n # 3
    BY <1>2
  <2> QED
    BY <2>2, <2>3
<1>3. CASE up /\ n # 1
  <2>1. ops = Up[n]
    <3>1. n # 0
      BY <1>1
    <3> QED
      BY <1>3, <3>1 DEF Todo
  <2>2. Up[2] = Up2 /\ Up[3] = Up3 /\ Up[4] = Up4 /\ Up[5] = Up5 /\ Up[6] = Up6 /\ Up[7] = Up7
    BY DEF Up
  <2> QED
    BY <1>1, <1>3, <2>1, <2>2, Revisions
<1>4. CASE ~up
  <2>1. ops = Down[n]
    <3>1. n # 0
      BY <1>1
    <3> QED
      BY <1>4, <3>1 DEF Todo
  <2>2. /\ Down[1] = Down1 /\ Down[2] = Down2 /\ Down[3] = Down3 /\ Down[4] = Down4
        /\ Down[5] = Down5 /\ Down[6] = Down6 /\ Down[7] = Down7
    BY DEF Down
  <2> QED
    BY <1>1, <1>4, <2>1, <2>2, Revisions
<1> QED
  BY <1>2, <1>3, <1>4

\* What is to be done for a revision rewrites the rows once, if at all, and only if it must.
LEMMA TodoRewrites ==
  ASSUME NEW up \in BOOLEAN, NEW v \in 0..7, Target(up, v) \in 0..7, NEW d
  PROVE  LET ops == Todo(up, NextRevision(up, v), d) IN
         IsSequence(ops) /\ RewritesOnce(ops) /\ (Rewrites(ops) <=> Crosses(up, v))
<1> DEFINE n == NextRevision(up, v)
           ops == Todo(up, n, d)
<1>1. n \in 1..7 /\ Target(up, v) = (IF up THEN n ELSE n - 1) /\ v = (IF up THEN n - 1 ELSE n)
  BY DEF NextRevision, Target
<1>2. Crosses(up, v) <=> n = 3
  BY <1>1 DEF Crosses
<1>3. \A s : Keeps(s) => IsSequence(s) /\ RewritesOnce(s) /\ ~Rewrites(s)
  BY DEF Keeps, Rewrites, RewritesOnce
<1>4. (n = 3 => ops \in {Up3, Down3}) /\ (n # 3 => Keeps(ops))
  BY <1>1, TodoKeeps
<1> HIDE DEF n, ops
<1>5. IsSequence(ops) /\ RewritesOnce(ops) /\ (Rewrites(ops) <=> n = 3)
  BY <1>3, <1>4, Revisions
<1> QED
  BY <1>2, <1>5 DEF n, ops

----------------------------------------------------------------------------
(* The migration that runs.                                                *)

ConnTyped ==
    /\ {"pc", "app", "up", "goal", "before", "left", "draft"} \subseteq DOMAIN conn
    /\ conn.draft.open \in BOOLEAN /\ (conn.draft.open => DbTyped(conn.draft.db))

\* It has its goal before it, and has rewritten the rows or will.
OnTheWay(d, ops) ==
    /\ IsSequence(ops) /\ RewritesOnce(ops)
    /\ conn.up \in BOOLEAN /\ conn.goal \in 0..7
    /\ IF conn.up THEN d.version < conn.goal ELSE conn.goal < d.version
    /\ Rewrites(ops) => Crosses(conn.up, d.version) /\ FitAt(d.rows, d.version)
    /\ ~Rewrites(ops) => FitAt(d.rows, Target(conn.up, d.version))
    /\ conn.app # 0 => conn.up /\ conn.goal = conn.app

\* What is committed fits, and what a release has migrated has the revision of the release.
MigrationInv ==
    /\ DbTyped(db) /\ FitAt(db.rows, db.version) /\ ConnTyped
    /\ conn.pc = "run" => OnTheWay(Seen, conn.left)
    /\ conn.pc \in {"done", "migrated"} /\ conn.app # 0 => db.version = conn.app
    /\ conn.pc = "migrated" => conn.app # 0

\* A migration that is over, or refused, leaves a connection at rest.
AtRest == /\ conn'.pc \notin {"run", "done"} /\ ConnTyped'
          /\ conn'.pc = "migrated" => conn'.app # 0 /\ db'.version = conn'.app

\* A migration that is over keeps the invariant.
LEMMA RestKeeps ==
  ASSUME DbTyped(db'), FitAt(db'.rows, db'.version), AtRest PROVE MigrationInv'
  BY DEF MigrationInv, AtRest

\* The connection that nothing runs on.
LEMMA QuietIsTyped ==
  /\ Quiet.pc = "quiet" /\ Quiet.app = 0 /\ Quiet.draft = NoDraft /\ Quiet.draft.open = FALSE
  /\ DOMAIN Quiet = {"pc", "app", "up", "goal", "before", "left", "draft"}
  BY DEF Quiet, NoDraft

\* A revision begins.
LEMMA RunningInv ==
  ASSUME DbTyped(db'), FitAt(db'.rows, db'.version),
         NEW c, {"pc", "app", "up", "goal", "before", "left", "draft"} \subseteq DOMAIN c,
         c.draft.open \in BOOLEAN, c.draft.open => DbTyped(c.draft.db),
         NEW up \in BOOLEAN, NEW goal \in 0..7, NEW d, DbTyped(d), FitAt(d.rows, d.version),
         d = IF c.draft.open THEN c.draft.db ELSE db',
         conn' = Running(c, up, goal, d.version, d),
         IF up THEN d.version =< goal ELSE goal =< d.version,
         c.app # 0 => up /\ goal = c.app,
         d.version = goal => d.version = db'.version
  PROVE  MigrationInv'
<1>1. /\ DOMAIN conn' = DOMAIN c /\ conn'.app = c.app /\ conn'.draft = c.draft
      /\ conn'.up = up /\ conn'.goal = goal
      /\ conn'.pc = IF d.version = goal THEN "done" ELSE "run"
      /\ d.version # goal => conn'.left = Todo(up, NextRevision(up, d.version), d)
  BY DEF Running, DbTyped
<1>2. ConnTyped'
  BY <1>1 DEF ConnTyped
<1>3. CASE d.version = goal
  <2>1. conn'.pc = "done"
    BY <1>1, <1>3
  <2> QED
    BY <1>1, <1>2, <1>3, <2>1 DEF MigrationInv
<1>4. CASE d.version # goal
  <2>1. PICK v : v = d.version
    OBVIOUS
  <2>2. v \in 0..7 /\ Target(up, v) \in 0..7 /\ (IF up THEN v < goal ELSE goal < v)
    BY <1>4, <2>1 DEF DbTyped, Target
  <2>3. PICK ops : ops = Todo(up, NextRevision(up, v), d)
    OBVIOUS
  <2>4. IsSequence(ops) /\ RewritesOnce(ops) /\ (Rewrites(ops) <=> Crosses(up, v))
    BY <2>2, <2>3, TodoRewrites
  <2>5. conn'.left = ops /\ conn'.pc = "run"
    BY <1>1, <1>4, <2>1, <2>3
  <2>6. Seen' = d
    BY <1>1 DEF Seen
  <2>7. ~Crosses(up, v) => FitAt(d.rows, Target(up, v))
    <3>1. FitAt(d.rows, v)
      BY <2>1
    <3> QED
      BY <2>2, <3>1 DEF FitAt, Crosses, Target
  <2>8. OnTheWay(d, ops)'
    BY <1>1, <2>1, <2>2, <2>4, <2>7 DEF OnTheWay
  <2>9. OnTheWay(Seen, conn.left)'
    BY <1>1, <2>1, <2>2, <2>4, <2>5, <2>6, <2>7 DEF OnTheWay
  <2> QED
    BY <1>2, <2>5, <2>9 DEF MigrationInv
<1> QED
  BY <1>3, <1>4

\* The transaction in which a migration begins.
LEMMA DraftIsTyped ==
  ASSUME DbTyped(db)
  PROVE  /\ Draft.open \in BOOLEAN /\ (Draft.open => Draft.db = db)
  BY DEF Draft, NoDraft

\* A release that starts upgrades, or is refused.
LEMMA BeginMigration ==
  ASSUME MigrationInv, NEW app \in Releases, Begin(app) PROVE MigrationInv'
<1>1. app \in 6..7 /\ DbTyped(db) /\ FitAt(db.rows, db.version) /\ db' = db
  BY MigrationsAssumption DEF MigrationInv, Begin
<1>2. CASE ~Knows(app, db.version)
  <2>1. conn' = [Quiet EXCEPT !.pc = "refused", !.app = app]
    BY <1>2 DEF Begin
  <2>2. AtRest
    BY <2>1, QuietIsTyped DEF AtRest, ConnTyped
  <2> QED
    BY <1>1, <2>2, RestKeeps
<1>3. CASE Knows(app, db.version)
  <2>1. PICK c : c = [Quiet EXCEPT !.app = app, !.before = db.version, !.draft = Draft]
    OBVIOUS
  <2>2. conn' = Running(c, TRUE, app, db.version, db)
    BY <1>3, <2>1 DEF Begin
  <2>3. /\ DOMAIN c = {"pc", "app", "up", "goal", "before", "left", "draft"}
        /\ c.app = app /\ c.draft = Draft
    BY <2>1, QuietIsTyped
  <2>4. /\ c.draft.open \in BOOLEAN /\ (c.draft.open => DbTyped(c.draft.db))
        /\ db = IF c.draft.open THEN c.draft.db ELSE db'
    BY <1>1, <2>3, DraftIsTyped
  <2>5. app \in 0..7 /\ db.version =< app
    BY <1>1, <1>3 DEF Knows
  <2> QED
    BY <1>1, <2>2, <2>3, <2>4, <2>5, RunningInv
<1> QED
  BY <1>2, <1>3

\* A developer upgrades or downgrades.
LEMMA BeginAlembic ==
  ASSUME MigrationInv, NEW goal \in 0..6, Alembic(goal) PROVE MigrationInv'
<1>1. DbTyped(db) /\ FitAt(db.rows, db.version) /\ db' = db /\ goal # db.version
  BY DEF MigrationInv, Alembic
<1>2. PICK c : c = [Quiet EXCEPT !.draft = Draft]
  OBVIOUS
<1>3. conn' = Running(c, goal > db.version, goal, db.version, db)
  BY <1>2 DEF Alembic
<1>4. /\ DOMAIN c = {"pc", "app", "up", "goal", "before", "left", "draft"}
      /\ c.app = 0 /\ c.draft = Draft
  BY <1>2, QuietIsTyped
<1>5. /\ c.draft.open \in BOOLEAN /\ (c.draft.open => DbTyped(c.draft.db))
      /\ db = IF c.draft.open THEN c.draft.db ELSE db'
  BY <1>1, <1>4, DraftIsTyped
<1>6. goal \in 0..7 /\ db.version \in 0..7
  BY <1>1 DEF DbTyped
<1>7. CASE goal > db.version
  <2>1. conn' = Running(c, TRUE, goal, db.version, db)
    <3>1. (goal > db.version) = TRUE
      BY <1>7, Zenon
    <3> QED
      BY <1>3, <3>1, Zenon
  <2>2. db.version =< goal
    BY <1>6, <1>7
  <2> QED
    BY <1>1, <1>4, <1>5, <1>6, <2>1, <2>2, RunningInv
<1>8. CASE ~(goal > db.version)
  <2>1. conn' = Running(c, FALSE, goal, db.version, db)
    <3>1. (goal > db.version) = FALSE
      BY <1>6, <1>8, SMT
    <3> QED
      BY <1>3, <3>1, Zenon
  <2>2. goal =< db.version
    BY <1>6, <1>8
  <2> QED
    BY <1>1, <1>4, <1>5, <1>6, <2>1, <2>2, RunningInv
<1> QED
  BY <1>7, <1>8

\* What is left to do after a statement.
LEMMA TailOps ==
  ASSUME NEW s, IsSequence(s), s # <<>>, RewritesOnce(s)
  PROVE  /\ IsSequence(Tail(s)) /\ RewritesOnce(Tail(s))
         /\ Head(s).do = "rows" => Rewrites(s) /\ ~Rewrites(Tail(s))
         /\ Head(s).do # "rows" => (Rewrites(s) <=> Rewrites(Tail(s)))
<1>1. PICK S : s \in Seq(S)
  BY DEF IsSequence
<1>2. /\ Len(s) \in Nat /\ Len(s) >= 1 /\ Head(s) = s[1] /\ Tail(s) \in Seq(S)
      /\ Len(Tail(s)) = Len(s) - 1 /\ \A i \in 1..(Len(s) - 1) : Tail(s)[i] = s[i + 1]
  BY <1>1, HeadTailProperties, LenProperties
<1>3. PICK t : t = Tail(s)
  OBVIOUS
<1>4. \A i \in 1..Len(t) : i + 1 \in 1..Len(s) /\ t[i] = s[i + 1] /\ i + 1 # 1
  BY <1>2, <1>3
<1>5. 1 \in 1..Len(s)
  BY <1>2
<1>6. IsSequence(t)
  BY <1>2, <1>3 DEF IsSequence
<1>7. RewritesOnce(t)
  <2> SUFFICES ASSUME NEW i \in 1..Len(t), NEW j \in 1..Len(t), t[i].do = "rows", t[j].do = "rows"
               PROVE  i = j
    BY DEF RewritesOnce
  <2>1. i + 1 = j + 1
    BY <1>4 DEF RewritesOnce
  <2>2. i \in Int /\ j \in Int
    BY <1>2, <1>3
  <2> QED
    BY <2>1, <2>2
<1>8. ASSUME Head(s).do = "rows" PROVE Rewrites(s) /\ ~Rewrites(t)
  BY <1>2, <1>4, <1>5, <1>8 DEF Rewrites, RewritesOnce
<1>9. ASSUME Head(s).do # "rows" PROVE Rewrites(s) <=> Rewrites(t)
  <2>1. ASSUME NEW i \in 1..Len(s), s[i].do = "rows" PROVE Rewrites(t)
    <3>1. i # 1
      BY <1>2, <1>9, <2>1
    <3>2. i - 1 \in 1..Len(t) /\ (i - 1) + 1 = i
      BY <1>2, <1>3, <3>1
    <3>3. t[i - 1] = s[i]
      BY <1>4, <3>2
    <3> QED
      BY <2>1, <3>2, <3>3 DEF Rewrites
  <2>2. ASSUME NEW i \in 1..Len(t), t[i].do = "rows" PROVE Rewrites(s)
    BY <1>4, <2>2 DEF Rewrites
  <2> QED
    BY <2>1, <2>2 DEF Rewrites
<1> QED
  BY <1>3, <1>6, <1>7, <1>8, <1>9

\* A statement: rows are rewritten where the transaction sees them, and committed rows are
\* at most dropped with their table.
LEMMA StatementKeeps == ASSUME MigrationInv, Statement PROVE MigrationInv'
<1> DEFINE op == Head(conn.left)
           new == After(op, conn.up, Seen)
           inside == conn.draft.open \/ (op.do = "rows" /\ Updated(conn.up, Seen.rows) # {})
<1>1. /\ DbTyped(db) /\ FitAt(db.rows, db.version) /\ ConnTyped /\ conn.pc = "run"
      /\ OnTheWay(Seen, conn.left) /\ conn.left # <<>>
  BY DEF MigrationInv, Statement
<1>2. DbTyped(Seen) /\ (~conn.draft.open => Seen = db)
  BY <1>1 DEF Seen, ConnTyped
<1>3. /\ DOMAIN new = DOMAIN Seen /\ new.version = Seen.version
      /\ op.do # "rows" => new.rows \in {Seen.rows, {}}
      /\ op.do = "rows" => new.rows =
            {IF conn.up THEN Expanded(r) ELSE Collapsed(r) : r \in Seen.rows}
  BY <1>2, AfterKeeps
<1>4. /\ IsSequence(Tail(conn.left)) /\ RewritesOnce(Tail(conn.left))
      /\ op.do = "rows" => Rewrites(conn.left) /\ ~Rewrites(Tail(conn.left))
      /\ op.do # "rows" => (Rewrites(conn.left) <=> Rewrites(Tail(conn.left)))
  BY <1>1, TailOps DEF OnTheWay
<1>5. /\ conn' = [conn EXCEPT !.left = Tail(conn.left),
                     !.draft = IF inside THEN [open |-> TRUE, db |-> new] ELSE conn.draft]
      /\ db' = IF inside THEN db ELSE new
  BY DEF Statement
<1>6. PICK n : n = new
  OBVIOUS
<1>7. PICK left : left = Tail(conn.left)
  OBVIOUS
<1>8. PICK v : v = Seen.version
  OBVIOUS
<1>9. v \in 0..7 /\ conn.up \in BOOLEAN /\ Seen.rows \subseteq RowKinds
  BY <1>1, <1>2, <1>8 DEF DbTyped, OnTheWay
<1>10. \A w : FitAt({}, w)
  BY DEF FitAt
<1>11. CASE op.do = "rows"
  <2>1. Crosses(conn.up, v) /\ FitAt(Seen.rows, v)
    BY <1>1, <1>4, <1>8, <1>11 DEF OnTheWay
  <2>2. n.rows = {IF conn.up THEN Expanded(r) ELSE Collapsed(r) : r \in Seen.rows}
    BY <1>3, <1>6, <1>11
  <2>3. /\ n.rows \subseteq RowKinds /\ FitAt(n.rows, Target(conn.up, v))
        /\ Updated(conn.up, Seen.rows) = {} => FitAt(n.rows, v)
    <3>1. PICK kinds : kinds = Seen.rows
      OBVIOUS
    <3>2. PICK after : after = n.rows
      OBVIOUS
    <3>3. after = {IF conn.up THEN Expanded(r) ELSE Collapsed(r) : r \in kinds}
      BY <2>2, <3>1, <3>2
    <3>4. kinds \subseteq RowKinds /\ FitAt(kinds, v) /\ Crosses(conn.up, v)
      BY <1>9, <2>1, <3>1
    <3>5. after \subseteq RowKinds /\ FitAt(after, Target(conn.up, v))
      BY <1>9, <3>3, <3>4, RowsRewritten
    <3>6. Updated(conn.up, kinds) = {} => FitAt(after, v)
      BY <1>9, <3>3, <3>4, NoneUpdated
    <3> QED
      BY <3>1, <3>2, <3>5, <3>6
  <2>4. DbTyped(n) /\ n.version = v
    BY <1>2, <1>3, <1>6, <1>8, <2>3 DEF DbTyped
  <2>o. PICK opens \in BOOLEAN : opens <=> inside
    OBVIOUS
  <2>5. /\ DOMAIN conn' = DOMAIN conn /\ conn'.left = left /\ conn'.pc = "run"
        /\ conn'.draft = (IF opens THEN [open |-> TRUE, db |-> n] ELSE conn.draft)
        /\ conn'.up = conn.up /\ conn'.goal = conn.goal /\ conn'.app = conn.app
        /\ db' = IF opens THEN db ELSE n
    BY <1>1, <1>5, <1>6, <1>7, <2>o DEF ConnTyped
  <2>i. ~opens => ~conn.draft.open /\ FitAt(n.rows, v)
    BY <1>11, <2>3, <2>o
  <2> HIDE DEF op, new, inside
  <2>6. ConnTyped' /\ Seen' = n
    <3>1. CASE opens
      BY <1>1, <2>4, <2>5, <3>1 DEF ConnTyped, Seen
    <3>2. CASE ~opens
      <4>1. conn'.draft = conn.draft /\ db' = n /\ ~conn.draft.open
        BY <2>5, <2>i, <3>2
      <4> QED
        BY <1>1, <2>5, <4>1 DEF ConnTyped, Seen
    <3> QED
      BY <3>1, <3>2
  <2>7. ~Rewrites(left) /\ IsSequence(left) /\ RewritesOnce(left)
    BY <1>4, <1>7, <1>11
  <2>8. /\ IF conn.up THEN v < conn.goal ELSE conn.goal < v
        /\ conn.goal \in 0..7 /\ (conn.app # 0 => conn.up /\ conn.goal = conn.app)
    BY <1>1, <1>8 DEF OnTheWay
  <2>9. OnTheWay(Seen, conn.left)'
    BY <1>9, <2>3, <2>4, <2>5, <2>6, <2>7, <2>8 DEF OnTheWay
  <2>10. DbTyped(db') /\ FitAt(db'.rows, db'.version)
    BY <1>1, <2>4, <2>5, <2>i
  <2> QED
    BY <2>5, <2>6, <2>9, <2>10 DEF MigrationInv
<1>12. CASE op.do # "rows"
  <2>1. n.rows \in {Seen.rows, {}}
    BY <1>3, <1>6, <1>12
  <2>2. DbTyped(n) /\ n.version = v
    BY <1>2, <1>3, <1>6, <1>8, <1>9, <2>1 DEF DbTyped
  <2>3. /\ DOMAIN conn' = DOMAIN conn /\ conn'.left = left /\ conn'.pc = "run"
        /\ conn'.draft = (IF conn.draft.open THEN [open |-> TRUE, db |-> n] ELSE conn.draft)
        /\ conn'.up = conn.up /\ conn'.goal = conn.goal /\ conn'.app = conn.app
        /\ db' = IF conn.draft.open THEN db ELSE n
    BY <1>1, <1>5, <1>6, <1>7, <1>12 DEF ConnTyped
  <2>4. Rewrites(conn.left) <=> Rewrites(left)
    BY <1>4, <1>7, <1>12
  <2>5. IsSequence(left) /\ RewritesOnce(left)
    BY <1>4, <1>7
  <2> HIDE DEF op, new, inside
  <2>6. ConnTyped' /\ Seen' = n
    <3>1. CASE conn.draft.open
      BY <1>1, <2>2, <2>3, <3>1 DEF ConnTyped, Seen
    <3>2. CASE ~conn.draft.open
      <4>1. conn'.draft = conn.draft /\ db' = n
        BY <2>3, <3>2
      <4> QED
        BY <1>1, <2>3, <3>2, <4>1 DEF ConnTyped, Seen
    <3> QED
      BY <1>1, <3>1, <3>2 DEF ConnTyped
  <2>7. /\ IF conn.up THEN v < conn.goal ELSE conn.goal < v
        /\ conn.goal \in 0..7 /\ (conn.app # 0 => conn.up /\ conn.goal = conn.app)
    BY <1>1, <1>8 DEF OnTheWay
  <2>8. /\ Rewrites(left) => Crosses(conn.up, v) /\ FitAt(n.rows, v)
        /\ ~Rewrites(left) => FitAt(n.rows, Target(conn.up, v))
    <3>1. CASE n.rows = {}
      BY <1>1, <1>8, <1>10, <2>4, <3>1 DEF OnTheWay
    <3>2. CASE n.rows = Seen.rows
      BY <1>1, <1>8, <2>4, <3>2 DEF OnTheWay
    <3> QED
      BY <2>1, <3>1, <3>2
  <2>9. OnTheWay(Seen, conn.left)'
    BY <1>9, <2>2, <2>3, <2>5, <2>6, <2>7, <2>8 DEF OnTheWay
  <2>10. DbTyped(db') /\ FitAt(db'.rows, db'.version)
    <3>1. CASE conn.draft.open
      BY <1>1, <2>3, <3>1
    <3>2. CASE ~conn.draft.open
      <4>1. db' = n /\ FitAt(Seen.rows, v)
        BY <1>1, <1>2, <1>8, <2>3, <3>2
      <4> QED
        BY <1>10, <2>1, <2>2, <4>1
    <3> QED
      BY <1>1, <3>1, <3>2 DEF ConnTyped
  <2> QED
    BY <2>3, <2>6, <2>9, <2>10 DEF MigrationInv
<1> QED
  BY <1>11, <1>12

\* A statement that fails ends the migration.
LEMMA FailureKeeps == ASSUME MigrationInv, StatementFails PROVE MigrationInv'
<1>1. DbTyped(db) /\ FitAt(db.rows, db.version) /\ db' = db /\ conn' = Ended("broken")
  BY DEF MigrationInv, StatementFails
<1>2. AtRest
  BY <1>1, QuietIsTyped DEF AtRest, Ended, ConnTyped
<1> QED
  BY <1>1, <1>2, RestKeeps

\* The note of the release leaves revision and rows alone.
LEMMA StampKeeps == ASSUME MigrationInv, Stamp PROVE MigrationInv'
<1>1. /\ DbTyped(db) /\ FitAt(db.rows, db.version) /\ conn' = Ended("migrated")
      /\ conn.app # 0 => db.version = conn.app
      /\ db' \in {db, [db EXCEPT !.stamp = conn.app]}
  BY DEF MigrationInv, Stamp
<1>2. DbTyped(db') /\ db'.rows = db.rows /\ db'.version = db.version
  BY <1>1 DEF DbTyped
<1>3. AtRest
  BY <1>1, <1>2, QuietIsTyped DEF AtRest, Ended, ConnTyped
<1> QED
  BY <1>1, <1>2, <1>3, RestKeeps

\* A revision is done: its rows are what its number says.
LEMMA RevisionKeeps == ASSUME MigrationInv, EndRevision PROVE MigrationInv'
<1>1. /\ DbTyped(db) /\ FitAt(db.rows, db.version) /\ ConnTyped
      /\ OnTheWay(Seen, <<>>)
  BY DEF MigrationInv, EndRevision
<1>2. PICK new : new = [Seen EXCEPT !.version = IF conn.up THEN Seen.version + 1
                                                ELSE Seen.version - 1]
  OBVIOUS
<1>3. PICK commits \in BOOLEAN : commits <=> (db.dialect = "sqlite" \/ new.version = conn.goal)
  OBVIOUS
<1>4. /\ db' = IF commits THEN new ELSE db
      /\ conn' = Running([conn EXCEPT !.draft = IF commits THEN NoDraft
                                                ELSE [open |-> TRUE, db |-> new]],
                         conn.up, conn.goal, new.version, new)
  BY <1>2, <1>3 DEF EndRevision
<1>5. PICK c : c = [conn EXCEPT !.draft = IF commits THEN NoDraft ELSE [open |-> TRUE, db |-> new]]
  OBVIOUS
<1>6. DbTyped(Seen)
  BY <1>1 DEF Seen, ConnTyped
<1>7. /\ conn.up \in BOOLEAN /\ conn.goal \in 0..7
      /\ IF conn.up THEN Seen.version < conn.goal ELSE conn.goal < Seen.version
      /\ FitAt(Seen.rows, Target(conn.up, Seen.version))
      /\ conn.app # 0 => conn.up /\ conn.goal = conn.app
  <2>1. ~Rewrites(<<>>)
    BY OpsKeep DEF Keeps
  <2> QED
    BY <1>1, <2>1 DEF OnTheWay
<1>8. /\ new.version = Target(conn.up, Seen.version) /\ new.rows = Seen.rows
      /\ DOMAIN new = DOMAIN Seen
  BY <1>2, <1>6 DEF DbTyped, Target
<1>9. DbTyped(new) /\ FitAt(new.rows, new.version)
  BY <1>6, <1>7, <1>8 DEF DbTyped, Target
<1>10. DbTyped(db') /\ FitAt(db'.rows, db'.version)
  BY <1>1, <1>4, <1>9
<1>11. /\ {"pc", "app", "up", "goal", "before", "left", "draft"} \subseteq DOMAIN c
       /\ c.app = conn.app
       /\ c.draft = IF commits THEN NoDraft ELSE [open |-> TRUE, db |-> new]
  BY <1>1, <1>5 DEF ConnTyped
<1>12. /\ c.draft.open \in BOOLEAN /\ (c.draft.open => DbTyped(c.draft.db))
       /\ new = IF c.draft.open THEN c.draft.db ELSE db'
  BY <1>4, <1>9, <1>11 DEF NoDraft
<1>13. IF conn.up THEN new.version =< conn.goal ELSE conn.goal =< new.version
  BY <1>6, <1>7, <1>8 DEF DbTyped, Target
<1>14. new.version = conn.goal => new.version = db'.version
  BY <1>3, <1>4
<1>15. conn' = Running(c, conn.up, conn.goal, new.version, new)
  BY <1>4, <1>5
<1> QED
  BY <1>7, <1>9, <1>10, <1>11, <1>12, <1>13, <1>14, <1>15, RunningInv

\* Rows of a first start are those that releases of the time wrote.
LEMMA MigrationInitially == MigrationInit => MigrationInv
<1> SUFFICES ASSUME MigrationInit PROVE MigrationInv
  OBVIOUS
<1>1. PICK d \in Dialects, v \in 0..6 : \E kinds \in {{}, IF v = 0 THEN {} ELSE RowsAt(v)} :
         db = [dialect |-> d, tables |-> TablesAt(v), types |-> TypesAt(d, v),
               version |-> v, rows |-> kinds, stamp |-> IF v < 5 THEN 0 ELSE v]
  BY Zenon DEF MigrationInit
<1>2. PICK kinds \in {{}, IF v = 0 THEN {} ELSE RowsAt(v)} :
         db = [dialect |-> d, tables |-> TablesAt(v), types |-> TypesAt(d, v),
               version |-> v, rows |-> kinds, stamp |-> IF v < 5 THEN 0 ELSE v]
  BY <1>1, Zenon
<1>3. kinds \subseteq RowKinds /\ FitAt(kinds, v)
  <2>1. CASE kinds = {}
    BY <2>1 DEF FitAt
  <2>2. CASE kinds = RowsAt(v)
    <3>1. CASE v < 3
      <4>1. kinds = [dims : {"flat", "none"}, times : {"aware", "naive"}]
        BY <2>2, <3>1 DEF RowsAt
      <4>2. ~(v >= 3)
        BY <3>1
      <4>3. kinds \subseteq RowKinds /\ \A row \in kinds : row.dims # "full"
        BY <4>1 DEF RowKinds
      <4> QED
        BY <4>2, <4>3 DEF FitAt
    <3>2. CASE ~(v < 3)
      <4>1. kinds = [dims : {"full", "none"}, times : {"naive"}]
        BY <2>2, <3>2 DEF RowsAt
      <4>2. v >= 3
        BY <3>2
      <4> QED
        BY <4>1, <4>2 DEF RowKinds, FitAt
    <3> QED
      BY <3>1, <3>2
  <2> QED
    BY <2>1, <2>2
<1>4. DbTyped(db) /\ FitAt(db.rows, db.version)
  <2>1. db.version = v /\ db.rows = kinds
    BY <1>2
  <2>2. {"dialect", "tables", "types", "version", "rows", "stamp"} \subseteq DOMAIN db
    BY <1>2
  <2> QED
    BY <1>3, <2>1, <2>2 DEF DbTyped
<1>5. conn = Quiet
  BY DEF MigrationInit
<1> QED
  BY <1>4, <1>5, QuietIsTyped DEF MigrationInv, ConnTyped

\* The invariant of the migrations holds after every step of the server and of its developers.
LEMMA MigrationStep == MigrationInv /\ [Next]_vars => MigrationInv'
<1> SUFFICES ASSUME MigrationInv, [Next]_vars PROVE MigrationInv'
  OBVIOUS
<1>a. ASSUME UNCHANGED <<db, conn>> PROVE MigrationInv'
  BY <1>a DEF MigrationInv, ConnTyped, OnTheWay, Seen
<1>b. ASSUME db' = db, conn' = Quiet PROVE MigrationInv'
  <2>1. AtRest
    BY <1>b, QuietIsTyped DEF AtRest, ConnTyped
  <2>2. DbTyped(db') /\ FitAt(db'.rows, db'.version)
    BY <1>b DEF MigrationInv
  <2> QED
    BY <2>1, <2>2, RestKeeps
<1>1. CASE Launch
  BY <1>1, BeginMigration DEF Launch
<1>2. CASE Migrate
  BY <1>2, StatementKeeps, FailureKeeps, RevisionKeeps, StampKeeps DEF Migrate
<1>3. CASE \/ Migrated \/ ImportFails \/ NotMigrated \/ EnsureUser \/ ConnectRedis
           \/ SyncBackends \/ Administer \/ UNCHANGED vars
  BY <1>3, <1>a DEF Migrated, ImportFails, NotMigrated, EnsureUser, ConnectRedis, SyncBackends,
     Administer, vars, migrationVars
<1>4. CASE Stop \/ CrashMigrating
  BY <1>4, <1>b DEF Stop, CrashMigrating, Crash
<1>5. CASE Developer
  BY <1>5, BeginAlembic DEF Developer
<1> QED
  BY <1>1, <1>2, <1>3, <1>4, <1>5 DEF Next

----------------------------------------------------------------------------
(* What each kind of statement makes of a schema.                          *)

Schema(tables, types) == [tables |-> tables, types |-> types]
HasSchema(d, a) ==
  {"tables", "types"} \subseteq DOMAIN d /\ d.tables = a.tables /\ d.types = a.types
IsSchema(b) == b = Schema(b.tables, b.types)
Does(op, dialect, a, b) ==
  /\ IsSchema(b)
  /\ \A d : d.dialect = dialect /\ HasSchema(d, a) =>
           /\ Executes(op, d)
           /\ \A up \in BOOLEAN : HasSchema(After(op, up, d), b)

\* A pair of tables and types is a schema.
LEMMA SchemaIs == \A tables, types : IsSchema(Schema(tables, types))
  BY DEF IsSchema, Schema

\* Tables with one more, or with another definition of one; and without one.
Put(tables, t, tbl) ==
  [u \in DOMAIN tables \cup {t} |-> IF u = t THEN tbl ELSE tables[u]]
Without(tables, t) == [u \in DOMAIN tables \ {t} |-> tables[u]]

\* CREATE TABLE, of a table and types that are not there.
LEMMA DoesCreate ==
  ASSUME NEW dialect, NEW tables, NEW types, NEW t, NEW tbl, NEW new,
         t \notin DOMAIN tables, new \cap types = {}
  PROVE  Does(Op("create", t, tbl, new), dialect, Schema(tables, types),
              Schema(Put(tables, t, tbl), IF dialect = "postgresql" THEN types \cup new ELSE types))
<1> DEFINE op == Op("create", t, tbl, new)
<1>1. op.do = "create" /\ op.table = t /\ op.arg = tbl /\ op.arg2 = new
  BY DEF Op
<1> HIDE DEF op
<1> SUFFICES ASSUME NEW d, d.dialect = dialect, HasSchema(d, Schema(tables, types)),
                    NEW up \in BOOLEAN
             PROVE  /\ Executes(op, d)
                    /\ HasSchema(After(op, up, d), Schema(Put(tables, t, tbl),
                          IF dialect = "postgresql" THEN types \cup new ELSE types))
  BY SchemaIs DEF Does, op
<1>2. {"tables", "types"} \subseteq DOMAIN d /\ d.tables = tables /\ d.types = types
  BY DEF HasSchema, Schema
<1>3. Executes(op, d)
  BY <1>1, <1>2 DEF Executes
<1>4. After(op, up, d) =
        [d EXCEPT !.tables = [u \in DOMAIN d.tables \cup {op.table} |->
                                IF u = op.table THEN op.arg ELSE d.tables[u]],
                  !.types = IF d.dialect = "postgresql" THEN d.types \cup op.arg2 ELSE d.types]
  BY <1>1 DEF After
<1>5. /\ {"tables", "types"} \subseteq DOMAIN After(op, up, d)
      /\ After(op, up, d).tables = [u \in DOMAIN tables \cup {t} |->
                                      IF u = t THEN tbl ELSE tables[u]]
      /\ After(op, up, d).types = IF dialect = "postgresql" THEN types \cup new ELSE types
  BY <1>1, <1>2, <1>4
<1> QED
  BY <1>3, <1>5 DEF HasSchema, Schema, Put

Alters == {"required", "optional", "rename", "drop", "index", "unindex"}

\* The statements that alter a table.
LEMMA DoesAlter ==
  ASSUME NEW dialect, NEW tables, NEW types, NEW op, op.do \in Alters, op.table \in DOMAIN tables,
         NEW new, new = Altered(op, tables[op.table]),
         \A d : d.dialect = dialect /\ HasSchema(d, Schema(tables, types)) => Executes(op, d)
  PROVE  Does(op, dialect, Schema(tables, types), Schema(Put(tables, op.table, new), types))
<1> SUFFICES ASSUME NEW d, d.dialect = dialect, HasSchema(d, Schema(tables, types)),
                    NEW up \in BOOLEAN
             PROVE  HasSchema(After(op, up, d), Schema(Put(tables, op.table, new), types))
  BY SchemaIs DEF Does
<1>1. {"tables", "types"} \subseteq DOMAIN d /\ d.tables = tables /\ d.types = types
  BY DEF HasSchema, Schema
<1>2. After(op, up, d) =
        [d EXCEPT !.tables = [d.tables EXCEPT ![op.table] = Altered(op, d.tables[op.table])]]
  BY DEF After, Alters
<1>3. After(op, up, d) = [d EXCEPT !.tables = [tables EXCEPT ![op.table] = new]]
  BY <1>1, <1>2
<1>4. [tables EXCEPT ![op.table] = new] = Put(tables, op.table, new)
  BY DEF Put
<1>5. /\ {"tables", "types"} \subseteq DOMAIN After(op, up, d)
      /\ After(op, up, d).tables = Put(tables, op.table, new)
      /\ After(op, up, d).types = types
  BY <1>1, <1>3, <1>4
<1> QED
  BY <1>5 DEF HasSchema, Schema

\* CREATE INDEX, on a column that has none.
LEMMA DoesIndex ==
  ASSUME NEW dialect, NEW tables, NEW types, NEW t \in DOMAIN tables, NEW column,
         NEW required, NEW optional, NEW indexed, tables[t] = Tbl(required, optional, indexed),
         column \in (required \cup optional) \ indexed
  PROVE  Does(Op("index", t, column, {}), dialect, Schema(tables, types),
              Schema(Put(tables, t, Tbl(required, optional, indexed \cup {column})), types))
<1> DEFINE op == Op("index", t, column, {})
<1>1. op.do = "index" /\ op.table = t /\ op.arg = column
  BY DEF Op
<1> HIDE DEF op
<1>2. Altered(op, tables[t]) = Tbl(required, optional, indexed \cup {column})
  BY <1>1 DEF Altered, Tbl
<1>3. ASSUME NEW d, d.dialect = dialect, HasSchema(d, Schema(tables, types)) PROVE Executes(op, d)
  BY <1>1, <1>3 DEF Executes, Columns, Tbl, HasSchema, Schema
<1>4. Does(op, dialect, Schema(tables, types), Schema(Put(tables, op.table,
          Tbl(required, optional, indexed \cup {column})), types))
  BY <1>1, <1>2, <1>3, DoesAlter DEF Alters
<1> QED
  BY <1>1, <1>4 DEF op

\* DROP INDEX, of one that is there.
LEMMA DoesUnindex ==
  ASSUME NEW dialect, NEW tables, NEW types, NEW t \in DOMAIN tables, NEW column,
         NEW required, NEW optional, NEW indexed, tables[t] = Tbl(required, optional, indexed),
         column \in indexed
  PROVE  Does(Op("unindex", t, column, {}), dialect, Schema(tables, types),
              Schema(Put(tables, t, Tbl(required, optional, indexed \ {column})), types))
<1> DEFINE op == Op("unindex", t, column, {})
<1>1. op.do = "unindex" /\ op.table = t /\ op.arg = column /\ op.arg2 = {}
  BY DEF Op
<1> HIDE DEF op
<1>2. Altered(op, tables[t]) = Tbl(required, optional, indexed \ {column})
  BY <1>1 DEF Altered, Tbl
<1>3. ASSUME NEW d, d.dialect = dialect, HasSchema(d, Schema(tables, types)) PROVE Executes(op, d)
  BY <1>1, <1>3 DEF Executes, Columns, Tbl, HasSchema, Schema
<1>4. Does(op, dialect, Schema(tables, types), Schema(Put(tables, op.table,
          Tbl(required, optional, indexed \ {column})), types))
  BY <1>1, <1>2, <1>3, DoesAlter DEF Alters
<1> QED
  BY <1>1, <1>4 DEF op

\* ADD COLUMN NOT NULL, of a type that is there.
LEMMA DoesRequired ==
  ASSUME NEW dialect, NEW tables, NEW types, NEW t \in DOMAIN tables, NEW column, NEW new,
         NEW required, NEW optional, NEW indexed, tables[t] = Tbl(required, optional, indexed),
         column \notin required \cup optional, dialect = "postgresql" => new \subseteq types
  PROVE  Does(Op("required", t, column, new), dialect, Schema(tables, types),
              Schema(Put(tables, t, Tbl(required \cup {column}, optional, indexed)), types))
<1> DEFINE op == Op("required", t, column, new)
<1>1. op.do = "required" /\ op.table = t /\ op.arg = column /\ op.arg2 = new
  BY DEF Op
<1> HIDE DEF op
<1>2. Altered(op, tables[t]) = Tbl(required \cup {column}, optional, indexed)
  BY <1>1 DEF Altered, Tbl
<1>3. ASSUME NEW d, d.dialect = dialect, HasSchema(d, Schema(tables, types)) PROVE Executes(op, d)
  BY <1>1, <1>3 DEF Executes, Columns, Tbl, HasSchema, Schema, Missing
<1>4. Does(op, dialect, Schema(tables, types), Schema(Put(tables, op.table,
          Tbl(required \cup {column}, optional, indexed)), types))
  BY <1>1, <1>2, <1>3, DoesAlter DEF Alters
<1> QED
  BY <1>1, <1>4 DEF op

\* ADD COLUMN of a column that may be NULL.
LEMMA DoesOptional ==
  ASSUME NEW dialect, NEW tables, NEW types, NEW t \in DOMAIN tables, NEW column,
         NEW required, NEW optional, NEW indexed, tables[t] = Tbl(required, optional, indexed),
         column \notin required \cup optional
  PROVE  Does(Op("optional", t, column, {}), dialect, Schema(tables, types),
              Schema(Put(tables, t, Tbl(required, optional \cup {column}, indexed)), types))
<1> DEFINE op == Op("optional", t, column, {})
<1>1. op.do = "optional" /\ op.table = t /\ op.arg = column /\ op.arg2 = {}
  BY DEF Op
<1> HIDE DEF op
<1>2. Altered(op, tables[t]) = Tbl(required, optional \cup {column}, indexed)
  BY <1>1 DEF Altered, Tbl
<1>3. ASSUME NEW d, d.dialect = dialect, HasSchema(d, Schema(tables, types)) PROVE Executes(op, d)
  BY <1>1, <1>3 DEF Executes, Columns, Tbl, HasSchema, Schema, Missing
<1>4. Does(op, dialect, Schema(tables, types), Schema(Put(tables, op.table,
          Tbl(required, optional \cup {column}, indexed)), types))
  BY <1>1, <1>2, <1>3, DoesAlter DEF Alters
<1> QED
  BY <1>1, <1>4 DEF op

\* DROP COLUMN, of one without an index.
LEMMA DoesDrop ==
  ASSUME NEW dialect, NEW tables, NEW types, NEW t \in DOMAIN tables, NEW column,
         NEW required, NEW optional, NEW indexed, tables[t] = Tbl(required, optional, indexed),
         column \in (required \cup optional) \ indexed
  PROVE  Does(Op("drop", t, column, {}), dialect, Schema(tables, types),
              Schema(Put(tables, t, Tbl(required \ {column}, optional \ {column}, indexed)), types))
<1> DEFINE op == Op("drop", t, column, {})
<1>1. op.do = "drop" /\ op.table = t /\ op.arg = column /\ op.arg2 = {}
  BY DEF Op
<1> HIDE DEF op
<1>2. Altered(op, tables[t]) = Tbl(required \ {column}, optional \ {column}, indexed)
  BY <1>1 DEF Altered, Tbl
<1>3. ASSUME NEW d, d.dialect = dialect, HasSchema(d, Schema(tables, types)) PROVE Executes(op, d)
  BY <1>1, <1>3 DEF Executes, Columns, Tbl, HasSchema, Schema
<1>4. Does(op, dialect, Schema(tables, types), Schema(Put(tables, op.table,
          Tbl(required \ {column}, optional \ {column}, indexed)), types))
  BY <1>1, <1>2, <1>3, DoesAlter DEF Alters
<1> QED
  BY <1>1, <1>4 DEF op

\* RENAME COLUMN, to a name that is free.
LEMMA DoesRename ==
  ASSUME NEW dialect, NEW tables, NEW types, NEW t \in DOMAIN tables, NEW column, NEW new,
         NEW required, NEW optional, NEW indexed, tables[t] = Tbl(required, optional, indexed),
         column \in required \cup optional, new \notin required \cup optional
  PROVE  Does(Op("rename", t, column, new), dialect, Schema(tables, types),
              Schema(Put(tables, t, Tbl(Renamed(required, column, new),
                                        Renamed(optional, column, new), indexed)), types))
<1> DEFINE op == Op("rename", t, column, new)
<1>1. op.do = "rename" /\ op.table = t /\ op.arg = column /\ op.arg2 = new
  BY DEF Op
<1> HIDE DEF op
<1>2. Altered(op, tables[t]) = Tbl(Renamed(required, column, new),
                                   Renamed(optional, column, new), indexed)
  BY <1>1 DEF Altered, Tbl
<1>3. ASSUME NEW d, d.dialect = dialect, HasSchema(d, Schema(tables, types)) PROVE Executes(op, d)
  BY <1>1, <1>3 DEF Executes, Columns, Tbl, HasSchema, Schema
<1>4. Does(op, dialect, Schema(tables, types), Schema(Put(tables, op.table,
          Tbl(Renamed(required, column, new), Renamed(optional, column, new), indexed)), types))
  BY <1>1, <1>2, <1>3, DoesAlter DEF Alters
<1> QED
  BY <1>1, <1>4 DEF op

\* DROP TABLE.
LEMMA DoesRemove ==
  ASSUME NEW dialect, NEW tables, NEW types, NEW t \in DOMAIN tables
  PROVE  Does(Op("remove", t, "", {}), dialect, Schema(tables, types),
              Schema(Without(tables, t), types))
<1> DEFINE op == Op("remove", t, "", {})
<1>1. op.do = "remove" /\ op.table = t
  BY DEF Op
<1> HIDE DEF op
<1> SUFFICES ASSUME NEW d, d.dialect = dialect, HasSchema(d, Schema(tables, types)),
                    NEW up \in BOOLEAN
             PROVE  /\ Executes(op, d)
                    /\ HasSchema(After(op, up, d), Schema(Without(tables, t), types))
  BY SchemaIs DEF Does, op
<1>2. {"tables", "types"} \subseteq DOMAIN d /\ d.tables = tables /\ d.types = types
  BY DEF HasSchema, Schema
<1>3. Executes(op, d)
  BY <1>1, <1>2 DEF Executes
<1>4. After(op, up, d) = [d EXCEPT
        !.tables = [u \in DOMAIN d.tables \ {op.table} |-> d.tables[u]],
        !.stamp = IF op.table = "app_info" THEN 0 ELSE d.stamp,
        !.rows = IF op.table = "networks" THEN {} ELSE d.rows]
  BY <1>1 DEF After
<1>5. /\ {"tables", "types"} \subseteq DOMAIN After(op, up, d)
      /\ After(op, up, d).tables = [u \in DOMAIN tables \ {t} |-> tables[u]]
      /\ After(op, up, d).types = types
  BY <1>1, <1>2, <1>4
<1> QED
  BY <1>3, <1>5 DEF HasSchema, Schema, Without

\* The statements about types and rows.
LEMMA DoesOther ==
  ASSUME NEW dialect, NEW tables, NEW types
  PROVE  /\ \A old, new : Does(Op("retype", "", old, new), dialect, Schema(tables, types),
                               Schema(tables, Renamed(types, old, new)))
         /\ \A gone : Does(Op("untype", "", "", gone), dialect, Schema(tables, types),
                           Schema(tables, types \ gone))
         /\ \A t : Does(Op("rows", t, "", {}), dialect, Schema(tables, types),
                        Schema(tables, types))
<1>1. ASSUME NEW op, NEW new,
             \/ op.do = "retype" /\ new = Renamed(types, op.arg, op.arg2)
             \/ op.do = "untype" /\ new = types \ op.arg2
             \/ op.do = "rows" /\ new = types
      PROVE  Does(op, dialect, Schema(tables, types), Schema(tables, new))
  <2> SUFFICES ASSUME NEW d, d.dialect = dialect, HasSchema(d, Schema(tables, types)),
                      NEW up \in BOOLEAN
               PROVE  Executes(op, d) /\ HasSchema(After(op, up, d), Schema(tables, new))
    BY SchemaIs DEF Does
  <2>1. {"tables", "types"} \subseteq DOMAIN d /\ d.tables = tables /\ d.types = types
    BY DEF HasSchema, Schema
  <2>2. Executes(op, d)
    BY <1>1 DEF Executes
  <2>3. CASE op.do = "retype"
    <3>1. After(op, up, d) = [d EXCEPT !.types = Renamed(types, op.arg, op.arg2)]
      BY <2>1, <2>3 DEF After
    <3> QED
      BY <1>1, <2>1, <2>2, <2>3, <3>1 DEF HasSchema, Schema
  <2>4. CASE op.do = "untype"
    <3>1. After(op, up, d) = [d EXCEPT !.types = types \ op.arg2]
      BY <2>1, <2>4 DEF After
    <3> QED
      BY <1>1, <2>1, <2>2, <2>4, <3>1 DEF HasSchema, Schema
  <2>5. CASE op.do = "rows"
    <3>1. \E kinds : After(op, up, d) = [d EXCEPT !.rows = kinds]
      BY <2>5 DEF After
    <3> QED
      BY <1>1, <2>1, <2>2, <2>5, <3>1 DEF HasSchema, Schema
  <2> QED
    BY <1>1, <2>3, <2>4, <2>5
<1>2. ASSUME NEW old, NEW new
      PROVE  Does(Op("retype", "", old, new), dialect, Schema(tables, types),
                  Schema(tables, Renamed(types, old, new)))
  <2>1. PICK op : op = Op("retype", "", old, new)
    OBVIOUS
  <2>2. op.do = "retype" /\ op.arg = old /\ op.arg2 = new
    BY <2>1 DEF Op
  <2> QED
    BY <1>1, <2>1, <2>2
<1>3. ASSUME NEW gone
      PROVE  Does(Op("untype", "", "", gone), dialect, Schema(tables, types),
                  Schema(tables, types \ gone))
  <2>1. PICK op : op = Op("untype", "", "", gone)
    OBVIOUS
  <2>2. op.do = "untype" /\ op.arg = "" /\ op.arg2 = gone
    BY <2>1 DEF Op
  <2> QED
    BY <1>1, <2>1, <2>2
<1>4. ASSUME NEW t
      PROVE  Does(Op("rows", t, "", {}), dialect, Schema(tables, types), Schema(tables, types))
  <2>1. PICK op : op = Op("rows", t, "", {})
    OBVIOUS
  <2>2. op.do = "rows" /\ op.arg = "" /\ op.arg2 = {}
    BY <2>1 DEF Op
  <2> QED
    BY <1>1, <2>1, <2>2
<1> QED
  BY <1>2, <1>3, <1>4

\* Statements that lead from one schema to another, each executing on what the ones before it
\* have made.
Leads(ops, dialect, a, b) ==
  /\ IsSequence(ops)
  /\ \E s : /\ s[0] = a /\ s[Len(ops)] = b
            /\ \A k \in 1..Len(ops) : Does(ops[k], dialect, s[k - 1], s[k])

\* No statement leads nowhere else.
LEMMA LeadsNone ==
  ASSUME NEW dialect, NEW a
  PROVE  Leads(<<>>, dialect, a, a) /\ \A b : Leads(<<>>, dialect, a, b) => b = a
<1>1. IsSequence(<<>>) /\ Len(<<>>) = 0
  BY OpsKeep DEF Keeps
<1>2. PICK s : s = [k \in {0} |-> a]
  OBVIOUS
<1>3. s[0] = a
  BY <1>2
<1> QED
  BY <1>1, <1>3 DEF Leads

\* One statement leads where it does.
LEMMA LeadsOne ==
  ASSUME NEW op, NEW dialect, NEW a, NEW b, Does(op, dialect, a, b)
  PROVE  Leads(<<op>>, dialect, a, b)
<1>1. PICK ops : ops = <<op>>
  OBVIOUS
<1>2. IsSequence(ops) /\ Len(ops) = 1 /\ ops[1] = op
  <2>1. ops \in Seq({op})
    BY <1>1
  <2> QED
    BY <1>1, <2>1 DEF IsSequence
<1>3. PICK s : s = [k \in {0, 1} |-> IF k = 0 THEN a ELSE b]
  OBVIOUS
<1>4. s[0] = a /\ s[1] = b
  BY <1>3
<1>5. \A k \in 1..Len(ops) : k = 1 /\ k - 1 = 0
  BY <1>2
<1>6. \A k \in 1..Len(ops) : Does(ops[k], dialect, s[k - 1], s[k])
  BY <1>2, <1>4, <1>5
<1>7. Leads(ops, dialect, a, b)
  BY <1>2, <1>4, <1>6 DEF Leads
<1> QED
  BY <1>1, <1>7

\* Two lists lead from the first schema to the last.
LEMMA LeadsJoined ==
  ASSUME NEW s, NEW t, NEW dialect, NEW a, NEW b, NEW c,
         Leads(s, dialect, a, b), Leads(t, dialect, b, c)
  PROVE  Leads(s \o t, dialect, a, c)
<1>1. PICK f : /\ f[0] = a /\ f[Len(s)] = b
               /\ \A k \in 1..Len(s) : Does(s[k], dialect, f[k - 1], f[k])
  BY DEF Leads
<1>2. PICK g : /\ g[0] = b /\ g[Len(t)] = c
               /\ \A k \in 1..Len(t) : Does(t[k], dialect, g[k - 1], g[k])
  BY DEF Leads
<1>3. PICK u : u = s \o t
  OBVIOUS
<1>4. PICK m, n : m = Len(s) /\ n = Len(t)
  OBVIOUS
<1>5. /\ IsSequence(u) /\ m \in Nat /\ n \in Nat /\ Len(u) = m + n
      /\ \A i \in 1..Len(u) : u[i] = IF i =< m THEN s[i] ELSE t[i - m]
  <2>1. IsSequence(s) /\ IsSequence(t)
    BY DEF Leads
  <2> QED
    BY <1>3, <1>4, <2>1, JoinedOps
<1>6. PICK h : h = [k \in 0..(m + n) |-> IF k =< m THEN f[k] ELSE g[k - m]]
  OBVIOUS
<1>7. \A k \in 0..(m + n) : h[k] = IF k =< m THEN f[k] ELSE g[k - m]
  BY <1>6
<1>8. h[0] = a /\ h[m + n] = c
  <2>1. 0 \in 0..(m + n) /\ m + n \in 0..(m + n) /\ (m + n =< m => n = 0) /\ (m + n) - m = n
    BY <1>5
  <2> QED
    BY <1>1, <1>2, <1>4, <1>5, <1>7, <2>1
<1>9. ASSUME NEW k \in 1..(m + n) PROVE Does(u[k], dialect, h[k - 1], h[k])
  <2>1. k \in 0..(m + n) /\ k - 1 \in 0..(m + n) /\ k \in 1..Len(u)
    BY <1>5
  <2>2. CASE k =< m
    <3>1. k \in 1..m /\ k - 1 =< m
      BY <1>5, <2>2
    <3>2. u[k] = s[k] /\ h[k] = f[k] /\ h[k - 1] = f[k - 1]
      BY <1>5, <1>7, <2>1, <2>2, <3>1
    <3> QED
      BY <1>1, <1>4, <3>1, <3>2
  <2>3. CASE ~(k =< m)
    <3>1. k - m \in 1..n /\ (k - 1) - m = (k - m) - 1
      BY <1>5, <2>3
    <3>2. u[k] = t[k - m] /\ h[k] = g[k - m]
      BY <1>5, <1>7, <2>1, <2>3
    <3>3. h[k - 1] = g[(k - m) - 1]
      <4>1. CASE k - 1 =< m
        <5>1. k - 1 = m /\ (k - m) - 1 = 0
          BY <1>5, <2>3, <4>1
        <5> QED
          BY <1>1, <1>2, <1>4, <1>7, <2>1, <4>1, <5>1
      <4>2. CASE ~(k - 1 =< m)
        BY <1>7, <2>1, <3>1, <4>2
      <4> QED
        BY <4>1, <4>2
    <3> QED
      BY <1>2, <1>4, <3>1, <3>2, <3>3
  <2> QED
    BY <2>2, <2>3
<1>10. Leads(u, dialect, a, c)
  BY <1>5, <1>8, <1>9 DEF Leads
<1> QED
  BY <1>3, <1>10

\* The first of the statements, and the others.
LEMMA LeadsTail ==
  ASSUME NEW ops, NEW dialect, NEW a, NEW b, Leads(ops, dialect, a, b), ops # <<>>
  PROVE  \E m : Does(Head(ops), dialect, a, m) /\ Leads(Tail(ops), dialect, m, b)
<1>1. PICK s : /\ s[0] = a /\ s[Len(ops)] = b
               /\ \A k \in 1..Len(ops) : Does(ops[k], dialect, s[k - 1], s[k])
  BY DEF Leads
<1>2. PICK S : ops \in Seq(S)
  BY DEF Leads, IsSequence
<1>3. PICK t, n : t = Tail(ops) /\ n = Len(ops)
  OBVIOUS
<1>4. /\ n \in Nat /\ n >= 1 /\ Head(ops) = ops[1] /\ t \in Seq(S)
      /\ Len(t) = n - 1 /\ \A i \in 1..(n - 1) : t[i] = ops[i + 1]
  BY <1>2, <1>3, HeadTailProperties, LenProperties
<1>5. Does(Head(ops), dialect, a, s[1])
  <2>1. 1 \in 1..n /\ 1 - 1 = 0
    BY <1>4
  <2> QED
    BY <1>1, <1>3, <1>4, <2>1
<1>6. PICK r : r = [k \in 0..(n - 1) |-> s[k + 1]]
  OBVIOUS
<1>7. r[0] = s[1] /\ r[Len(t)] = b
  <2>1. 0 \in 0..(n - 1) /\ n - 1 \in 0..(n - 1) /\ (n - 1) + 1 = n /\ 0 + 1 = 1
    BY <1>4
  <2> QED
    BY <1>1, <1>3, <1>4, <1>6, <2>1
<1>8. ASSUME NEW k \in 1..Len(t) PROVE Does(t[k], dialect, r[k - 1], r[k])
  <2>1. /\ k \in 1..(n - 1) /\ k \in 0..(n - 1) /\ k - 1 \in 0..(n - 1) /\ k + 1 \in 1..n
        /\ (k - 1) + 1 = k /\ (k + 1) - 1 = k
    BY <1>4
  <2>2. t[k] = ops[k + 1] /\ r[k] = s[k + 1] /\ r[k - 1] = s[k]
    BY <1>4, <1>6, <2>1
  <2> QED
    BY <1>1, <1>3, <2>1, <2>2
<1>9. Leads(t, dialect, s[1], b)
  BY <1>4, <1>7, <1>8 DEF Leads, IsSequence
<1> QED
  BY <1>3, <1>5, <1>9

----------------------------------------------------------------------------
(* What each operation of a revision makes of a table t that is being altered.             *)

\* Of two changes of one table the last one counts.
LEMMA PutTwice ==
  ASSUME NEW tables, NEW t, NEW x, NEW y
  PROVE  Put(Put(tables, t, x), t, y) = Put(tables, t, y)
<1>1. PICK f : f = Put(tables, t, x)
  OBVIOUS
<1>2. /\ DOMAIN f \cup {t} = DOMAIN tables \cup {t}
      /\ \A u \in DOMAIN tables \cup {t} : u # t => f[u] = tables[u]
  BY <1>1 DEF Put
<1>3. Put(f, t, y) = Put(tables, t, y)
  BY <1>2 DEF Put
<1> QED
  BY <1>1, <1>3

\* The helpers of the revisions, each as the statement it is.
LEMMA LeadsCreate ==
  ASSUME NEW dialect, NEW tables, NEW types, NEW t, NEW required, NEW optional, NEW new,
         t \notin DOMAIN tables, new \cap types = {}
  PROVE  Leads(Create(t, required, optional, new), dialect, Schema(tables, types),
               Schema(Put(tables, t, Tbl(required, optional, {})),
                      IF dialect = "postgresql" THEN types \cup new ELSE types))
<1>1. PICK tbl : tbl = Tbl(required, optional, {})
  OBVIOUS
<1>2. PICK b : b = Schema(Put(tables, t, tbl),
                          IF dialect = "postgresql" THEN types \cup new ELSE types)
  OBVIOUS
<1>3. Leads(<<Op("create", t, tbl, new)>>, dialect, Schema(tables, types), b)
  BY <1>2, DoesCreate, LeadsOne
<1> QED
  BY <1>1, <1>2, <1>3 DEF Create

\* An index.
LEMMA LeadsIndex ==
  ASSUME NEW dialect, NEW tables, NEW types, NEW t, NEW column,
         NEW required, NEW optional, NEW indexed,
         column \in (required \cup optional) \ indexed
  PROVE  Leads(Index(t, column), dialect,
               Schema(Put(tables, t, Tbl(required, optional, indexed)), types),
               Schema(Put(tables, t, Tbl(required,
                                         optional, indexed \cup {column})), types))
<1>0. PICK old : old = Tbl(required, optional, indexed)
  OBVIOUS
<1>1. PICK f : f = Put(tables, t, old)
  OBVIOUS
<1>2. t \in DOMAIN f /\ f[t] = old
  BY <1>1 DEF Put
<1>3. PICK tbl : tbl = Tbl(required, optional, indexed \cup {column})
  OBVIOUS
<1>4. Does(Op("index", t, column, {}), dialect, Schema(f, types), Schema(Put(f, t, tbl), types))
  BY <1>0, <1>2, <1>3, DoesIndex
<1>5. Put(f, t, tbl) = Put(tables, t, tbl)
  BY <1>1, PutTwice
<1>6. PICK b : b = Schema(Put(tables, t, tbl), types)
  OBVIOUS
<1>7. Leads(<<Op("index", t, column, {})>>, dialect, Schema(f, types), b)
  BY <1>4, <1>5, <1>6, LeadsOne
<1> QED
  BY <1>0, <1>1, <1>3, <1>6, <1>7 DEF Index

\* An index that goes.
LEMMA LeadsDropIndex ==
  ASSUME NEW dialect, NEW tables, NEW types, NEW t, NEW column,
         NEW required, NEW optional, NEW indexed,
         column \in indexed
  PROVE  Leads(DropIndex(t, column), dialect,
               Schema(Put(tables, t, Tbl(required, optional, indexed)), types),
               Schema(Put(tables, t, Tbl(required,
                                         optional, indexed \ {column})), types))
<1>0. PICK old : old = Tbl(required, optional, indexed)
  OBVIOUS
<1>1. PICK f : f = Put(tables, t, old)
  OBVIOUS
<1>2. t \in DOMAIN f /\ f[t] = old
  BY <1>1 DEF Put
<1>3. PICK tbl : tbl = Tbl(required, optional, indexed \ {column})
  OBVIOUS
<1>4. Does(Op("unindex", t, column, {}), dialect, Schema(f, types), Schema(Put(f, t, tbl), types))
  BY <1>0, <1>2, <1>3, DoesUnindex
<1>5. Put(f, t, tbl) = Put(tables, t, tbl)
  BY <1>1, PutTwice
<1>6. PICK b : b = Schema(Put(tables, t, tbl), types)
  OBVIOUS
<1>7. Leads(<<Op("unindex", t, column, {})>>, dialect, Schema(f, types), b)
  BY <1>4, <1>5, <1>6, LeadsOne
<1> QED
  BY <1>0, <1>1, <1>3, <1>6, <1>7 DEF DropIndex

\* A column that is required.
LEMMA LeadsAddRequired ==
  ASSUME NEW dialect, NEW tables, NEW types, NEW t, NEW column, NEW new,
         NEW required, NEW optional, NEW indexed,
         column \notin required \cup optional, dialect = "postgresql" => new \subseteq types
  PROVE  Leads(AddRequired(t, column, new), dialect,
               Schema(Put(tables, t, Tbl(required, optional, indexed)), types),
               Schema(Put(tables, t, Tbl(required \cup {column},
                                         optional, indexed)), types))
<1>0. PICK old : old = Tbl(required, optional, indexed)
  OBVIOUS
<1>1. PICK f : f = Put(tables, t, old)
  OBVIOUS
<1>2. t \in DOMAIN f /\ f[t] = old
  BY <1>1 DEF Put
<1>3. PICK tbl : tbl = Tbl(required \cup {column}, optional, indexed)
  OBVIOUS
<1>4. Does(Op("required", t, column, new), dialect, Schema(f, types), Schema(Put(f, t, tbl), types))
  BY <1>0, <1>2, <1>3, DoesRequired
<1>5. Put(f, t, tbl) = Put(tables, t, tbl)
  BY <1>1, PutTwice
<1>6. PICK b : b = Schema(Put(tables, t, tbl), types)
  OBVIOUS
<1>7. Leads(<<Op("required", t, column, new)>>, dialect, Schema(f, types), b)
  BY <1>4, <1>5, <1>6, LeadsOne
<1> QED
  BY <1>0, <1>1, <1>3, <1>6, <1>7 DEF AddRequired

\* A column that is optional.
LEMMA LeadsAddOptional ==
  ASSUME NEW dialect, NEW tables, NEW types, NEW t, NEW column,
         NEW required, NEW optional, NEW indexed,
         column \notin required \cup optional
  PROVE  Leads(AddOptional(t, column), dialect,
               Schema(Put(tables, t, Tbl(required, optional, indexed)), types),
               Schema(Put(tables, t, Tbl(required,
                                         optional \cup {column}, indexed)), types))
<1>0. PICK old : old = Tbl(required, optional, indexed)
  OBVIOUS
<1>1. PICK f : f = Put(tables, t, old)
  OBVIOUS
<1>2. t \in DOMAIN f /\ f[t] = old
  BY <1>1 DEF Put
<1>3. PICK tbl : tbl = Tbl(required, optional \cup {column}, indexed)
  OBVIOUS
<1>4. Does(Op("optional", t, column, {}), dialect, Schema(f, types), Schema(Put(f, t, tbl), types))
  BY <1>0, <1>2, <1>3, DoesOptional
<1>5. Put(f, t, tbl) = Put(tables, t, tbl)
  BY <1>1, PutTwice
<1>6. PICK b : b = Schema(Put(tables, t, tbl), types)
  OBVIOUS
<1>7. Leads(<<Op("optional", t, column, {})>>, dialect, Schema(f, types), b)
  BY <1>4, <1>5, <1>6, LeadsOne
<1> QED
  BY <1>0, <1>1, <1>3, <1>6, <1>7 DEF AddOptional

\* A column that goes.
LEMMA LeadsDropColumn ==
  ASSUME NEW dialect, NEW tables, NEW types, NEW t, NEW column,
         NEW required, NEW optional, NEW indexed,
         column \in (required \cup optional) \ indexed
  PROVE  Leads(DropColumn(t, column), dialect,
               Schema(Put(tables, t, Tbl(required, optional, indexed)), types),
               Schema(Put(tables, t, Tbl(required \ {column},
                                         optional \ {column}, indexed)), types))
<1>0. PICK old : old = Tbl(required, optional, indexed)
  OBVIOUS
<1>1. PICK f : f = Put(tables, t, old)
  OBVIOUS
<1>2. t \in DOMAIN f /\ f[t] = old
  BY <1>1 DEF Put
<1>3. PICK tbl : tbl = Tbl(required \ {column}, optional \ {column}, indexed)
  OBVIOUS
<1>4. Does(Op("drop", t, column, {}), dialect, Schema(f, types), Schema(Put(f, t, tbl), types))
  BY <1>0, <1>2, <1>3, DoesDrop
<1>5. Put(f, t, tbl) = Put(tables, t, tbl)
  BY <1>1, PutTwice
<1>6. PICK b : b = Schema(Put(tables, t, tbl), types)
  OBVIOUS
<1>7. Leads(<<Op("drop", t, column, {})>>, dialect, Schema(f, types), b)
  BY <1>4, <1>5, <1>6, LeadsOne
<1> QED
  BY <1>0, <1>1, <1>3, <1>6, <1>7 DEF DropColumn

\* A column with a new name.
LEMMA LeadsRename ==
  ASSUME NEW dialect, NEW tables, NEW types, NEW t, NEW column, NEW new,
         NEW required, NEW optional, NEW indexed,
         column \in required \cup optional, new \notin required \cup optional
  PROVE  Leads(RenameColumn(t, column, new), dialect,
               Schema(Put(tables, t, Tbl(required, optional, indexed)), types),
               Schema(Put(tables, t, Tbl(Renamed(required, column, new),
                                         Renamed(optional, column, new), indexed)), types))
<1>0. PICK old : old = Tbl(required, optional, indexed)
  OBVIOUS
<1>1. PICK f : f = Put(tables, t, old)
  OBVIOUS
<1>2. t \in DOMAIN f /\ f[t] = old
  BY <1>1 DEF Put
<1>3. PICK tbl : tbl = Tbl(Renamed(required, column, new), Renamed(optional, column, new), indexed)
  OBVIOUS
<1>4. Does(Op("rename", t, column, new), dialect, Schema(f, types), Schema(Put(f, t, tbl), types))
  BY <1>0, <1>2, <1>3, DoesRename
<1>5. Put(f, t, tbl) = Put(tables, t, tbl)
  BY <1>1, PutTwice
<1>6. PICK b : b = Schema(Put(tables, t, tbl), types)
  OBVIOUS
<1>7. Leads(<<Op("rename", t, column, new)>>, dialect, Schema(f, types), b)
  BY <1>4, <1>5, <1>6, LeadsOne
<1> QED
  BY <1>0, <1>1, <1>3, <1>6, <1>7 DEF RenameColumn

\* Tables that go, and types.
LEMMA LeadsOthers ==
  ASSUME NEW dialect, NEW tables, NEW types
  PROVE  /\ \A old, new : Leads(RenameType(old, new), dialect, Schema(tables, types),
                                Schema(tables, Renamed(types, old, new)))
         /\ \A gone : Leads(DropTypes(gone), dialect, Schema(tables, types),
                            Schema(tables, types \ gone))
         /\ Leads(RewriteRows, dialect, Schema(tables, types), Schema(tables, types))
         /\ \A t \in DOMAIN tables : Leads(DropTable(t), dialect, Schema(tables, types),
                                           Schema(Without(tables, t), types))
<1>1. ASSUME NEW old, NEW new
      PROVE  Leads(RenameType(old, new), dialect, Schema(tables, types),
                   Schema(tables, Renamed(types, old, new)))
  BY DoesOther, LeadsOne DEF RenameType
<1>2. ASSUME NEW gone
      PROVE  Leads(DropTypes(gone), dialect, Schema(tables, types), Schema(tables, types \ gone))
  BY DoesOther, LeadsOne DEF DropTypes
<1>3. Leads(RewriteRows, dialect, Schema(tables, types), Schema(tables, types))
  BY DoesOther, LeadsOne DEF RewriteRows
<1>4. ASSUME NEW t \in DOMAIN tables
      PROVE  Leads(DropTable(t), dialect, Schema(tables, types), Schema(Without(tables, t), types))
  BY DoesRemove, LeadsOne DEF DropTable
<1> QED
  BY <1>1, <1>2, <1>3, <1>4

----------------------------------------------------------------------------
(* What each revision does: it leads from the tables before it to those after it.          *)

SchemaOf(dialect, v) == Schema(TablesAt(v), TypesAt(dialect, v))

\* The names of the tables of each revision.
LEMMA TableNames ==
  /\ DOMAIN TablesAt(0) = {}
  /\ \A v \in 1..7 : DOMAIN TablesAt(v) = Tables \ Until(5, v, {"app_info"})
  /\ Tables = {"snakedispatch_backends", "users", "user_oauth_providers", "api_keys",
               "user_backends", "runs", "networks", "app_info"}
<1>1. Tables = {"snakedispatch_backends", "users", "user_oauth_providers", "api_keys",
               "user_backends", "runs", "networks", "app_info"}
  BY DEF Tables, Models
<1>2. DOMAIN TablesAt(0) = {}
  BY DEF TablesAt, Since
<1>3. \A v \in 1..7 : DOMAIN TablesAt(v) = Tables \ Until(5, v, {"app_info"})
  BY DEF TablesAt, Since, Tables
<1> QED
  BY <1>1, <1>2, <1>3

\* The tables of two revisions that differ in one table.
LEMMA PutRuns ==
  ASSUME NEW v \in 1..7, NEW w \in 1..7, v < 5 <=> w < 5, NetworkTableAt(v) = NetworkTableAt(w)
  PROVE  Put(TablesAt(v), "runs", RunTableAt(w)) = TablesAt(w)
<1>1. PICK f : f = TablesAt(v)
  OBVIOUS
<1>2. PICK x : x = RunTableAt(w)
  OBVIOUS
<1>3. PICK y : y = NetworkTableAt(v)
  OBVIOUS
<1>4. PICK names : names = Tables \ Until(5, v, {"app_info"})
  OBVIOUS
<1>5. DOMAIN f = names /\ "runs" \in names /\ "runs" # "networks"
  BY <1>1, <1>4, TableNames DEF Until
<1>6. names = Since(1, w, DOMAIN Models) \ Until(5, w, {"app_info"})
  BY <1>4 DEF Until, Since, Tables
<1>7. TablesAt(w) = [t \in names |-> IF t = "runs" THEN x ELSE IF t = "networks" THEN y
                                     ELSE Models[t]]
  BY <1>2, <1>3, <1>6 DEF TablesAt
<1>8. \A t \in names : t # "runs" => f[t] = IF t = "networks" THEN y ELSE Models[t]
  BY <1>1, <1>3, <1>5 DEF TablesAt
<1>9. Put(f, "runs", x) = [t \in names |-> IF t = "runs" THEN x ELSE f[t]]
  BY <1>5 DEF Put
<1>10. Put(f, "runs", x) = TablesAt(w)
  BY <1>7, <1>8, <1>9
<1> QED
  BY <1>1, <1>2, <1>10

\* Revisions that differ in the table of the networks only.
LEMMA PutNetworks ==
  ASSUME NEW v \in 1..7, NEW w \in 1..7, v < 5 <=> w < 5, RunTableAt(v) = RunTableAt(w)
  PROVE  Put(TablesAt(v), "networks", NetworkTableAt(w)) = TablesAt(w)
<1>1. PICK f : f = TablesAt(v)
  OBVIOUS
<1>2. PICK x : x = RunTableAt(v)
  OBVIOUS
<1>3. PICK y : y = NetworkTableAt(w)
  OBVIOUS
<1>4. PICK names : names = Tables \ Until(5, v, {"app_info"})
  OBVIOUS
<1>5. DOMAIN f = names /\ "networks" \in names /\ "runs" # "networks"
  BY <1>1, <1>4, TableNames DEF Until
<1>6. names = Since(1, w, DOMAIN Models) \ Until(5, w, {"app_info"})
  BY <1>4 DEF Until, Since, Tables
<1>7. TablesAt(w) = [t \in names |-> IF t = "runs" THEN x ELSE IF t = "networks" THEN y
                                     ELSE Models[t]]
  BY <1>2, <1>3, <1>6 DEF TablesAt
<1>8. \A t \in names : t # "networks" => f[t] = IF t = "runs" THEN x ELSE Models[t]
  BY <1>1, <1>2, <1>5 DEF TablesAt
<1>9. Put(f, "networks", y) = [t \in names |-> IF t = "networks" THEN y ELSE f[t]]
  BY <1>5 DEF Put
<1>10. Put(f, "networks", y) = TablesAt(w)
  BY <1>5, <1>7, <1>8, <1>9
<1> QED
  BY <1>1, <1>3, <1>10

\* 0002 adds the visibility of runs.
LEMMA RunTables ==
  /\ RunTableAt(1) = Tbl(RunTable.required \ {"visibility"}, RunTable.optional,
                         RunTable.indexed \ {"visibility"})
  /\ \A v \in 2..7 : RunTableAt(v) = Tbl(RunTable.required, RunTable.optional, RunTable.indexed)
  /\ "visibility" \in RunTable.required /\ "visibility" \notin RunTable.optional
  /\ "visibility" \in RunTable.indexed
<1>1. RunTableAt(1) = Tbl(RunTable.required \ {"visibility"}, RunTable.optional,
                         RunTable.indexed \ {"visibility"})
  BY DEF RunTableAt, Until
<1>2. PICK x : x = RunTable.required
  OBVIOUS
<1>3. PICK y : y = RunTable.indexed
  OBVIOUS
<1>4. ASSUME NEW v \in 2..7
      PROVE  RunTableAt(v) = Tbl(RunTable.required, RunTable.optional, RunTable.indexed)
  <2>1. x \ {} = x /\ y \ {} = y
    OBVIOUS
  <2>2. Until(2, v, {"visibility"}) = {}
    BY DEF Until
  <2> QED
    BY <1>2, <1>3, <2>1, <2>2 DEF RunTableAt
<1>5. /\ "visibility" \in RunTable.required /\ "visibility" \notin RunTable.optional
      /\ "visibility" \in RunTable.indexed
  BY DEF RunTable, Tbl
<1> QED
  BY <1>1, <1>4, <1>5

\* 0003 renames a column of networks and adds one, 0004 and 0006 add one each.
NetworkOptional == NetworkTable.optional \ {"dimensions", "reports", "source_path"}
NetworkRequired == NetworkTable.required \ {"is_external"}
\* The table of the networks, revision by revision.
LEMMA NetworkTables ==
  /\ \A v \in 1..2 : NetworkTableAt(v) =
        Tbl(NetworkRequired, NetworkOptional \cup {"dimensions_count"}, NetworkTable.indexed)
  /\ NetworkTableAt(3) =
        Tbl(NetworkRequired, NetworkOptional \cup {"dimensions", "reports"}, NetworkTable.indexed)
  /\ \A v \in 4..5 : NetworkTableAt(v) =
        Tbl(NetworkRequired \cup {"is_external"}, NetworkOptional \cup {"dimensions", "reports"},
            NetworkTable.indexed)
  /\ NetworkTableAt(6) =
        Tbl(NetworkRequired \cup {"is_external"},
            NetworkOptional \cup {"dimensions", "reports", "source_path"}, NetworkTable.indexed)
  /\ NetworkTableAt(7) =
        Tbl(NetworkRequired \cup {"is_external"},
            NetworkOptional \cup {"dimensions", "reports", "source_path", "later"},
            NetworkTable.indexed)
<1>1. PICK req, opt, idx : req = NetworkTable.required /\ opt = NetworkTable.optional
                           /\ idx = NetworkTable.indexed
  OBVIOUS
<1>2. PICK r, o : r = NetworkRequired /\ o = NetworkOptional
  OBVIOUS
<1>3. r = req \ {"is_external"} /\ o = opt \ {"dimensions", "reports", "source_path"}
  BY <1>1, <1>2 DEF NetworkRequired, NetworkOptional
<1>4. /\ "is_external" \in req /\ {"dimensions", "reports", "source_path"} \subseteq opt
      /\ "later" \notin opt /\ "dimensions_count" \notin opt
  BY <1>1 DEF NetworkTable, Tbl
<1>5. ASSUME NEW v, NEW x, NEW y, x = req \ Until(4, v, {"is_external"}),
             y = (opt \ (Until(3, v, {"dimensions", "reports"}) \cup Until(6, v, {"source_path"})))
                 \cup Until(3, v, {"dimensions_count"}) \cup Since(7, v, {"later"})
      PROVE  NetworkTableAt(v) = Tbl(x, y, idx)
  BY <1>1, <1>5 DEF NetworkTableAt
<1>6. ASSUME NEW v \in 1..2 PROVE NetworkTableAt(v) = Tbl(r, o \cup {"dimensions_count"}, idx)
  <2>1. /\ Until(4, v, {"is_external"}) = {"is_external"}
        /\ Until(3, v, {"dimensions", "reports"}) = {"dimensions", "reports"}
        /\ Until(6, v, {"source_path"}) = {"source_path"}
        /\ Until(3, v, {"dimensions_count"}) = {"dimensions_count"}
        /\ Since(7, v, {"later"}) = {}
    BY DEF Until, Since
  <2>2. PICK x, y : x = r /\ y = o \cup {"dimensions_count"}
    OBVIOUS
  <2>3. x = req \ Until(4, v, {"is_external"})
    BY <1>3, <1>4, <2>1, <2>2
  <2>4. y = (opt \ (Until(3, v, {"dimensions", "reports"}) \cup Until(6, v, {"source_path"})))
            \cup Until(3, v, {"dimensions_count"}) \cup Since(7, v, {"later"})
    BY <1>3, <1>4, <2>1, <2>2
  <2> QED
    BY <1>5, <2>2, <2>3, <2>4
<1>7. NetworkTableAt(3) = Tbl(r, o \cup {"dimensions", "reports"}, idx)
  <2>1. /\ Until(4, 3, {"is_external"}) = {"is_external"}
        /\ Until(3, 3, {"dimensions", "reports"}) = {}
        /\ Until(6, 3, {"source_path"}) = {"source_path"}
        /\ Until(3, 3, {"dimensions_count"}) = {}
        /\ Since(7, 3, {"later"}) = {}
    BY DEF Until, Since
  <2>2. PICK x, y : x = r /\ y = o \cup {"dimensions", "reports"}
    OBVIOUS
  <2>3. x = req \ Until(4, 3, {"is_external"})
    BY <1>3, <1>4, <2>1, <2>2
  <2>4. y = (opt \ (Until(3, 3, {"dimensions", "reports"}) \cup Until(6, 3, {"source_path"})))
            \cup Until(3, 3, {"dimensions_count"}) \cup Since(7, 3, {"later"})
    BY <1>3, <1>4, <2>1, <2>2
  <2> QED
    BY <1>5, <2>2, <2>3, <2>4
<1>8. ASSUME NEW v \in 4..5
      PROVE NetworkTableAt(v) = Tbl(r \cup {"is_external"}, o \cup {"dimensions", "reports"}, idx)
  <2>1. /\ Until(4, v, {"is_external"}) = {}
        /\ Until(3, v, {"dimensions", "reports"}) = {}
        /\ Until(6, v, {"source_path"}) = {"source_path"}
        /\ Until(3, v, {"dimensions_count"}) = {}
        /\ Since(7, v, {"later"}) = {}
    BY DEF Until, Since
  <2>2. PICK x, y : x = r \cup {"is_external"} /\ y = o \cup {"dimensions", "reports"}
    OBVIOUS
  <2>3. x = req \ Until(4, v, {"is_external"})
    BY <1>3, <1>4, <2>1, <2>2
  <2>4. y = (opt \ (Until(3, v, {"dimensions", "reports"}) \cup Until(6, v, {"source_path"})))
            \cup Until(3, v, {"dimensions_count"}) \cup Since(7, v, {"later"})
    BY <1>3, <1>4, <2>1, <2>2
  <2> QED
    BY <1>5, <2>2, <2>3, <2>4
<1>9. NetworkTableAt(6) = Tbl(r \cup {"is_external"},
                               o \cup {"dimensions", "reports", "source_path"}, idx)
  <2>1. /\ Until(4, 6, {"is_external"}) = {}
        /\ Until(3, 6, {"dimensions", "reports"}) = {}
        /\ Until(6, 6, {"source_path"}) = {}
        /\ Until(3, 6, {"dimensions_count"}) = {}
        /\ Since(7, 6, {"later"}) = {}
    BY DEF Until, Since
  <2>2. PICK x, y : /\ x = r \cup {"is_external"}
                     /\ y = o \cup {"dimensions", "reports", "source_path"}
    OBVIOUS
  <2>3. x = req \ Until(4, 6, {"is_external"})
    BY <1>3, <1>4, <2>1, <2>2
  <2>4. y = (opt \ (Until(3, 6, {"dimensions", "reports"}) \cup Until(6, 6, {"source_path"})))
            \cup Until(3, 6, {"dimensions_count"}) \cup Since(7, 6, {"later"})
    BY <1>3, <1>4, <2>1, <2>2
  <2> QED
    BY <1>5, <2>2, <2>3, <2>4
<1>10. NetworkTableAt(7) = Tbl(r \cup {"is_external"},
                                o \cup {"dimensions", "reports", "source_path", "later"}, idx)
  <2>1. /\ Until(4, 7, {"is_external"}) = {}
        /\ Until(3, 7, {"dimensions", "reports"}) = {}
        /\ Until(6, 7, {"source_path"}) = {}
        /\ Until(3, 7, {"dimensions_count"}) = {}
        /\ Since(7, 7, {"later"}) = {"later"}
    BY DEF Until, Since
  <2>2. PICK x, y : /\ x = r \cup {"is_external"}
                     /\ y = o \cup {"dimensions", "reports", "source_path", "later"}
    OBVIOUS
  <2>3. x = req \ Until(4, 7, {"is_external"})
    BY <1>3, <1>4, <2>1, <2>2
  <2>4. y = (opt \ (Until(3, 7, {"dimensions", "reports"}) \cup Until(6, 7, {"source_path"})))
            \cup Until(3, 7, {"dimensions_count"}) \cup Since(7, 7, {"later"})
    BY <1>3, <1>4, <2>1, <2>2
  <2> QED
    BY <1>5, <2>2, <2>3, <2>4
<1> QED
  BY <1>1, <1>2, <1>6, <1>7, <1>8, <1>9, <1>10

\* The enum types, which SQLite does not have.
LEMMA TypesOf ==
  /\ \A v \in 0..7 : TypesAt("sqlite", v) = {}
  /\ \A dialect : TypesAt(dialect, 0) = {}
  /\ TypesAt("postgresql", 1) = {"user_role", "run_status", "network_visibility"}
  /\ \A v \in 2..7 : TypesAt("postgresql", v) = {"user_role", "run_status", "visibility"}
  BY DEF TypesAt

\* Its columns before 0003.
LEMMA NetworkColumns ==
  /\ "is_external" \notin NetworkRequired \cup NetworkOptional
  /\ \A c \in {"dimensions", "reports", "source_path", "dimensions_count", "later"} :
        c \notin NetworkRequired \cup NetworkOptional
  /\ \A c \in {"dimensions", "reports", "source_path", "dimensions_count", "later",
               "is_external"} : c \notin NetworkTable.indexed
<1>1. /\ "is_external" \notin NetworkTable.optional
      /\ \A c \in {"dimensions", "reports", "source_path", "dimensions_count", "later"} :
            c \notin NetworkTable.required
      /\ "later" \notin NetworkTable.optional /\ "dimensions_count" \notin NetworkTable.optional
      /\ \A c \in {"dimensions", "reports", "source_path", "dimensions_count", "later",
                   "is_external"} : c \notin NetworkTable.indexed
  BY DEF NetworkTable, Tbl
<1> QED
  BY <1>1 DEF NetworkRequired, NetworkOptional

\* A revision of the networks only.
LEMMA NetworkRevision ==
  ASSUME NEW dialect \in {"postgresql", "sqlite"}, NEW v \in 2..7, NEW w \in 2..7,
         v < 5 <=> w < 5, NEW ops,
         \A tables, types : Leads(ops, dialect,
            Schema(Put(tables, "networks", NetworkTableAt(v)), types),
            Schema(Put(tables, "networks", NetworkTableAt(w)), types))
  PROVE  Leads(ops, dialect, SchemaOf(dialect, v), SchemaOf(dialect, w))
<1>1. TypesAt(dialect, v) = TypesAt(dialect, w)
  BY TypesOf
<1>2. v \in 1..7 /\ w \in 1..7 /\ RunTableAt(v) = RunTableAt(v) /\ RunTableAt(v) = RunTableAt(w)
  BY RunTables
<1>3. Put(TablesAt(v), "networks", NetworkTableAt(v)) = TablesAt(v)
  BY <1>2, PutNetworks
<1>4. Put(TablesAt(v), "networks", NetworkTableAt(w)) = TablesAt(w)
  BY <1>2, PutNetworks
<1>5. Leads(ops, dialect,
            Schema(Put(TablesAt(v), "networks", NetworkTableAt(v)), TypesAt(dialect, v)),
            Schema(Put(TablesAt(v), "networks", NetworkTableAt(w)), TypesAt(dialect, v)))
  OBVIOUS
<1> QED
  BY <1>1, <1>3, <1>4, <1>5 DEF SchemaOf

\* A column that is added to the networks, and one that is dropped.
LEMMA NetworkColumn ==
  ASSUME NEW dialect, NEW tables, NEW types, NEW column, NEW r, NEW o, NEW i,
         column \notin r \cup o, column \notin i
  PROVE  /\ Leads(AddRequired("networks", column, {}), dialect,
                  Schema(Put(tables, "networks", Tbl(r, o, i)), types),
                  Schema(Put(tables, "networks", Tbl(r \cup {column}, o, i)), types))
         /\ Leads(DropColumn("networks", column), dialect,
                  Schema(Put(tables, "networks", Tbl(r \cup {column}, o, i)), types),
                  Schema(Put(tables, "networks", Tbl(r, o, i)), types))
         /\ Leads(AddOptional("networks", column), dialect,
                  Schema(Put(tables, "networks", Tbl(r, o, i)), types),
                  Schema(Put(tables, "networks", Tbl(r, o \cup {column}, i)), types))
         /\ Leads(DropColumn("networks", column), dialect,
                  Schema(Put(tables, "networks", Tbl(r, o \cup {column}, i)), types),
                  Schema(Put(tables, "networks", Tbl(r, o, i)), types))
<1>1. PICK x, y : x = r \cup {column} /\ y = o \cup {column}
  OBVIOUS
<1>2. x \ {column} = r /\ y \ {column} = o /\ r \ {column} = r /\ o \ {column} = o
  BY <1>1
<1>3. column \in (x \cup o) \ i /\ column \in (r \cup y) \ i /\ {} \subseteq types
  BY <1>1
<1>4. Leads(AddRequired("networks", column, {}), dialect,
                  Schema(Put(tables, "networks", Tbl(r, o, i)), types),
                  Schema(Put(tables, "networks", Tbl(r \cup {column}, o, i)), types))
  BY <1>3, LeadsAddRequired
<1>5. Leads(DropColumn("networks", column), dialect,
            Schema(Put(tables, "networks", Tbl(x, o, i)), types),
            Schema(Put(tables, "networks", Tbl(x \ {column}, o \ {column}, i)), types))
  BY <1>3, LeadsDropColumn
<1>6. Leads(AddOptional("networks", column), dialect,
                  Schema(Put(tables, "networks", Tbl(r, o, i)), types),
                  Schema(Put(tables, "networks", Tbl(r, o \cup {column}, i)), types))
  BY LeadsAddOptional
<1>7. Leads(DropColumn("networks", column), dialect,
            Schema(Put(tables, "networks", Tbl(r, y, i)), types),
            Schema(Put(tables, "networks", Tbl(r \ {column}, y \ {column}, i)), types))
  BY <1>3, LeadsDropColumn
<1> QED
  BY <1>1, <1>2, <1>4, <1>5, <1>6, <1>7

\* Revision 0004, up and down, is about is_external.
LEMMA Revision4 ==
  ASSUME NEW dialect \in {"postgresql", "sqlite"}
  PROVE  /\ Leads(Up4, dialect, SchemaOf(dialect, 3), SchemaOf(dialect, 4))
         /\ Leads(Down4, dialect, SchemaOf(dialect, 4), SchemaOf(dialect, 3))
<1>1. PICK r, o, i : /\ r = NetworkRequired /\ i = NetworkTable.indexed
                     /\ o = NetworkOptional \cup {"dimensions", "reports"}
  OBVIOUS
<1>2. NetworkTableAt(3) = Tbl(r, o, i) /\ NetworkTableAt(4) = Tbl(r \cup {"is_external"}, o, i)
  BY <1>1, NetworkTables
<1>3. "is_external" \notin r \cup o /\ "is_external" \notin i
  BY <1>1, NetworkColumns
<1>4. ASSUME NEW tables, NEW types
      PROVE  /\ Leads(Up4, dialect, Schema(Put(tables, "networks", NetworkTableAt(3)), types),
                      Schema(Put(tables, "networks", NetworkTableAt(4)), types))
             /\ Leads(Down4, dialect, Schema(Put(tables, "networks", NetworkTableAt(4)), types),
                      Schema(Put(tables, "networks", NetworkTableAt(3)), types))
  BY <1>2, <1>3, NetworkColumn DEF Up4, Down4
<1> QED
  BY <1>4, NetworkRevision

\* Revision 0006, up and down, is about source_path.
LEMMA Revision6 ==
  ASSUME NEW dialect \in {"postgresql", "sqlite"}
  PROVE  /\ Leads(Up6, dialect, SchemaOf(dialect, 5), SchemaOf(dialect, 6))
         /\ Leads(Down6, dialect, SchemaOf(dialect, 6), SchemaOf(dialect, 5))
<1>1. PICK r, o, i : /\ r = NetworkRequired \cup {"is_external"} /\ i = NetworkTable.indexed
                     /\ o = NetworkOptional \cup {"dimensions", "reports"}
  OBVIOUS
<1>2. NetworkTableAt(5) = Tbl(r, o, i) /\ NetworkTableAt(6) = Tbl(r, o \cup {"source_path"}, i)
  <2>1. o \cup {"source_path"} = NetworkOptional \cup {"dimensions", "reports", "source_path"}
    BY <1>1
  <2> QED
    BY <1>1, <2>1, NetworkTables
<1>3. "source_path" \notin r \cup o /\ "source_path" \notin i
  BY <1>1, NetworkColumns
<1>4. ASSUME NEW tables, NEW types
      PROVE  /\ Leads(Up6, dialect, Schema(Put(tables, "networks", NetworkTableAt(5)), types),
                      Schema(Put(tables, "networks", NetworkTableAt(6)), types))
             /\ Leads(Down6, dialect, Schema(Put(tables, "networks", NetworkTableAt(6)), types),
                      Schema(Put(tables, "networks", NetworkTableAt(5)), types))
  BY <1>2, <1>3, NetworkColumn DEF Up6, Down6
<1> QED
  BY <1>4, NetworkRevision

\* The revision of the next release adds a column, or drops it.
LEMMA Revision7 ==
  ASSUME NEW dialect \in {"postgresql", "sqlite"}
  PROVE  /\ Leads(Up7, dialect, SchemaOf(dialect, 6), SchemaOf(dialect, 7))
         /\ Leads(Down7, dialect, SchemaOf(dialect, 7), SchemaOf(dialect, 6))
<1>1. PICK r, o, i : /\ r = NetworkRequired \cup {"is_external"} /\ i = NetworkTable.indexed
                     /\ o = NetworkOptional \cup {"dimensions", "reports", "source_path"}
  OBVIOUS
<1>2. NetworkTableAt(6) = Tbl(r, o, i) /\ NetworkTableAt(7) = Tbl(r, o \cup {"later"}, i)
  <2>1. o \cup {"later"} = NetworkOptional \cup {"dimensions", "reports", "source_path", "later"}
    BY <1>1
  <2> QED
    BY <1>1, <2>1, NetworkTables
<1>3. "later" \notin r \cup o /\ "later" \notin i
  BY <1>1, NetworkColumns
<1>4. ASSUME NEW tables, NEW types
      PROVE  /\ Leads(Up7, dialect, Schema(Put(tables, "networks", NetworkTableAt(6)), types),
                      Schema(Put(tables, "networks", NetworkTableAt(7)), types))
             /\ Leads(Down7, dialect, Schema(Put(tables, "networks", NetworkTableAt(7)), types),
                      Schema(Put(tables, "networks", NetworkTableAt(6)), types))
  BY <1>2, <1>3, NetworkColumn DEF Up7, Down7
<1> QED
  BY <1>4, NetworkRevision

\* A set of columns of which one has a new name.
LEMMA RenamedIs ==
  ASSUME NEW names, NEW old, NEW new, old \notin names
  PROVE  /\ Renamed(names, old, new) = names
         /\ Renamed(names \cup {old}, old, new) = names \cup {new}
  BY DEF Renamed

\* Revision 0003 renames dimensions_count, adds reports, and back.
LEMMA Revision3 ==
  ASSUME NEW dialect \in {"postgresql", "sqlite"}
  PROVE  /\ Leads(Up3, dialect, SchemaOf(dialect, 2), SchemaOf(dialect, 3))
         /\ Leads(Down3, dialect, SchemaOf(dialect, 3), SchemaOf(dialect, 2))
<1>1. PICK r, o, i : r = NetworkRequired /\ o = NetworkOptional /\ i = NetworkTable.indexed
  OBVIOUS
<1>2. PICK x, y, z : /\ x = o \cup {"dimensions_count"} /\ y = o \cup {"dimensions"}
                     /\ z = y \cup {"reports"}
  OBVIOUS
<1>3. NetworkTableAt(2) = Tbl(r, x, i) /\ NetworkTableAt(3) = Tbl(r, z, i)
  <2>1. z = o \cup {"dimensions", "reports"}
    BY <1>2
  <2> QED
    BY <1>1, <1>2, <2>1, NetworkTables
<1>4. /\ \A c \in {"dimensions", "reports", "dimensions_count"} : c \notin r /\ c \notin o
      /\ "reports" \notin i
  BY <1>1, NetworkColumns
<1>5. /\ Renamed(r, "dimensions_count", "dimensions") = r
      /\ Renamed(x, "dimensions_count", "dimensions") = y
      /\ Renamed(r, "dimensions", "dimensions_count") = r
      /\ Renamed(y, "dimensions", "dimensions_count") = x
  <2>1. /\ "dimensions_count" \notin r /\ "dimensions_count" \notin o
        /\ "dimensions" \notin r /\ "dimensions" \notin o
    BY <1>4
  <2>2. /\ Renamed(r, "dimensions_count", "dimensions") = r
        /\ Renamed(r, "dimensions", "dimensions_count") = r
    BY <2>1, RenamedIs
  <2>3. Renamed(o \cup {"dimensions_count"}, "dimensions_count", "dimensions")
           = o \cup {"dimensions"}
    BY <2>1, RenamedIs
  <2>4. Renamed(o \cup {"dimensions"}, "dimensions", "dimensions_count")
           = o \cup {"dimensions_count"}
    BY <2>1, RenamedIs
  <2> QED
    BY <1>2, <2>2, <2>3, <2>4
<1>6. /\ "dimensions_count" \in r \cup x /\ "dimensions" \notin r \cup x
      /\ "dimensions" \in r \cup y /\ "dimensions_count" \notin r \cup y
      /\ "reports" \notin r \cup y
  BY <1>2, <1>4
<1>7. ASSUME NEW tables, NEW types
      PROVE  /\ Leads(Up3, dialect, Schema(Put(tables, "networks", NetworkTableAt(2)), types),
                      Schema(Put(tables, "networks", NetworkTableAt(3)), types))
             /\ Leads(Down3, dialect, Schema(Put(tables, "networks", NetworkTableAt(3)), types),
                      Schema(Put(tables, "networks", NetworkTableAt(2)), types))
  <2>1. PICK a, b, c : /\ a = Schema(Put(tables, "networks", Tbl(r, x, i)), types)
                       /\ b = Schema(Put(tables, "networks", Tbl(r, y, i)), types)
                       /\ c = Schema(Put(tables, "networks", Tbl(r, z, i)), types)
    OBVIOUS
  <2>2. Leads(RenameColumn("networks", "dimensions_count", "dimensions"), dialect, a, b)
    BY <1>5, <1>6, <2>1, LeadsRename
  <2>3. Leads(AddOptional("networks", "reports"), dialect, b, c)
    BY <1>2, <1>4, <1>6, <2>1, NetworkColumn
  <2>4. Leads(RewriteRows, dialect, c, c)
    BY <2>1, LeadsOthers
  <2>5. Leads(DropColumn("networks", "reports"), dialect, c, b)
    BY <1>2, <1>4, <1>6, <2>1, NetworkColumn
  <2>6. Leads(RenameColumn("networks", "dimensions", "dimensions_count"), dialect, b, a)
    BY <1>5, <1>6, <2>1, LeadsRename
  <2>7. Leads(Up3, dialect, a, c)
    BY <2>2, <2>3, <2>4, LeadsJoined DEF Up3
  <2>8. Leads(Down3, dialect, c, a)
    BY <2>4, <2>5, <2>6, LeadsJoined DEF Down3
  <2> QED
    BY <1>3, <2>1, <2>7, <2>8
<1> QED
  BY <1>7, NetworkRevision

\* 0005 creates app_info.
LEMMA Revision5 ==
  ASSUME NEW dialect \in {"postgresql", "sqlite"}
  PROVE  /\ Leads(Up5, dialect, SchemaOf(dialect, 4), SchemaOf(dialect, 5))
         /\ Leads(Down5, dialect, SchemaOf(dialect, 5), SchemaOf(dialect, 4))
<1>1. PICK f, g : f = TablesAt(4) /\ g = TablesAt(5)
  OBVIOUS
<1>2. PICK types : types = TypesAt(dialect, 4)
  OBVIOUS
<1>3. TypesAt(dialect, 5) = types /\ types \cup {} = types /\ {} \cap types = {}
  BY <1>2, TypesOf
<1>4. DOMAIN f = Tables \ {"app_info"} /\ DOMAIN g = Tables /\ "app_info" \in Tables
  BY <1>1, TableNames DEF Until
<1>5. RunTableAt(4) = RunTableAt(5) /\ NetworkTableAt(4) = NetworkTableAt(5)
  BY RunTables, NetworkTables
<1>6. g["app_info"] = AppInfoTable
  BY <1>1, <1>4 DEF TablesAt, Models
<1>7. \A t \in DOMAIN f : f[t] = g[t]
  BY <1>1, <1>4, <1>5 DEF TablesAt
<1>8. g = [t \in DOMAIN f \cup {"app_info"} |-> IF t = "app_info" THEN AppInfoTable ELSE f[t]]
  <2>1. g = [t \in DOMAIN g |-> g[t]]
    BY <1>1 DEF TablesAt
  <2>2. DOMAIN g = DOMAIN f \cup {"app_info"}
    BY <1>4
  <2> QED
    BY <1>6, <1>7, <2>1, <2>2
<1>9. f = [t \in DOMAIN g \ {"app_info"} |-> g[t]]
  <2>1. f = [t \in DOMAIN f |-> f[t]]
    BY <1>1 DEF TablesAt
  <2>2. DOMAIN f = DOMAIN g \ {"app_info"}
    BY <1>4
  <2> QED
    BY <1>7, <2>1, <2>2
<1>10. Put(f, "app_info", AppInfoTable) = g /\ Without(g, "app_info") = f
  BY <1>8, <1>9 DEF Put, Without
<1>11. Leads(Up5, dialect, Schema(f, types), Schema(g, types))
  <2>1. "app_info" \notin DOMAIN f
    BY <1>4
  <2>2. PICK tbl : tbl = AppInfoTable
    OBVIOUS
  <2>3. tbl = Tbl({"id", "last_app_version", "last_migrated_at"}, {}, {})
    BY <2>2 DEF AppInfoTable
  <2>4. PICK after : after = IF dialect = "postgresql" THEN types \cup {} ELSE types
    OBVIOUS
  <2>5. after = types
    BY <1>3, <2>4
  <2>6. Leads(Up5, dialect, Schema(f, types), Schema(Put(f, "app_info", tbl), after))
    BY <1>3, <2>1, <2>3, <2>4, LeadsCreate DEF Up5
  <2> QED
    BY <1>10, <2>2, <2>5, <2>6
<1>12. Leads(Down5, dialect, Schema(g, types), Schema(f, types))
  <2>1. "app_info" \in DOMAIN g
    BY <1>4
  <2> QED
    BY <1>10, <2>1, LeadsOthers DEF Down5
<1> QED
  BY <1>1, <1>2, <1>3, <1>11, <1>12 DEF SchemaOf

\* 0002 renames a type and adds the visibility of runs.
LEMMA Revision2 ==
  ASSUME NEW dialect \in {"postgresql", "sqlite"}
  PROVE  /\ Leads(Up2, dialect, SchemaOf(dialect, 1), SchemaOf(dialect, 2))
         /\ Leads(Down2, dialect, SchemaOf(dialect, 2), SchemaOf(dialect, 1))
<1>1. PICK r, o, i : /\ r = RunTable.required \ {"visibility"} /\ o = RunTable.optional
                     /\ i = RunTable.indexed \ {"visibility"}
  OBVIOUS
<1>2. PICK x, y : x = r \cup {"visibility"} /\ y = i \cup {"visibility"}
  OBVIOUS
<1>3. /\ "visibility" \notin r \cup o /\ "visibility" \notin i /\ x \ {"visibility"} = r
      /\ y \ {"visibility"} = i /\ o \ {"visibility"} = o
      /\ x = RunTable.required /\ y = RunTable.indexed
  BY <1>1, <1>2, RunTables
<1>4. RunTableAt(1) = Tbl(r, o, i) /\ RunTableAt(2) = Tbl(x, o, y)
  BY <1>1, <1>3, RunTables
<1>5. PICK f : f = TablesAt(1)
  OBVIOUS
<1>6. Put(f, "runs", Tbl(r, o, i)) = f /\ Put(f, "runs", Tbl(x, o, y)) = TablesAt(2)
  <2>1. NetworkTableAt(1) = NetworkTableAt(2)
    BY NetworkTables
  <2>2. Put(TablesAt(1), "runs", RunTableAt(1)) = TablesAt(1)
    BY PutRuns
  <2>3. Put(TablesAt(1), "runs", RunTableAt(2)) = TablesAt(2)
    BY <2>1, PutRuns
  <2> QED
    BY <1>4, <1>5, <2>2, <2>3
<1>7. PICK old, new : old = TypesAt(dialect, 1) /\ new = TypesAt(dialect, 2)
  OBVIOUS
<1>8. /\ Renamed(old, "network_visibility", "visibility") = new
      /\ Renamed(new, "visibility", "network_visibility") = old
      /\ dialect = "postgresql" => {"visibility"} \subseteq new
  <2>1. CASE dialect = "postgresql"
    <3>1. PICK rest : rest = {"user_role", "run_status"}
      OBVIOUS
    <3>2. old = rest \cup {"network_visibility"} /\ new = rest \cup {"visibility"}
      BY <1>7, <2>1, <3>1, TypesOf
    <3>3. "network_visibility" \notin rest /\ "visibility" \notin rest
      BY <3>1
    <3>4. Renamed(rest \cup {"network_visibility"}, "network_visibility", "visibility")
             = rest \cup {"visibility"}
      BY <3>3, RenamedIs
    <3>5. Renamed(rest \cup {"visibility"}, "visibility", "network_visibility")
             = rest \cup {"network_visibility"}
      BY <3>3, RenamedIs
    <3> QED
      BY <3>2, <3>4, <3>5
  <2>2. CASE dialect = "sqlite"
    <3>1. old = {} /\ new = {}
      BY <1>7, <2>2, TypesOf
    <3> QED
      BY <2>2, <3>1, RenamedIs
  <2> QED
    BY <2>1, <2>2
<1>9. PICK a, b, c, d : /\ a = Schema(f, new) /\ b = Schema(Put(f, "runs", Tbl(x, o, i)), new)
                        /\ c = Schema(Put(f, "runs", Tbl(x, o, y)), new) /\ d = Schema(f, old)
  OBVIOUS
<1>10. Leads(RenameType("network_visibility", "visibility"), dialect, d, a)
  BY <1>8, <1>9, LeadsOthers
<1>11. Leads(AddRequired("runs", "visibility", {"visibility"}), dialect, a, b)
  <2>1. Leads(AddRequired("runs", "visibility", {"visibility"}), dialect,
              Schema(Put(f, "runs", Tbl(r, o, i)), new),
              Schema(Put(f, "runs", Tbl(r \cup {"visibility"}, o, i)), new))
    BY <1>3, <1>8, LeadsAddRequired
  <2> QED
    BY <1>2, <1>6, <1>9, <2>1
<1>12. Leads(Index("runs", "visibility"), dialect, b, c)
  <2>1. "visibility" \in (x \cup o) \ i
    BY <1>2, <1>3
  <2> QED
    BY <1>2, <1>9, <2>1, LeadsIndex
<1>13. Leads(DropIndex("runs", "visibility"), dialect, c, b)
  <2>1. "visibility" \in y
    BY <1>2
  <2> QED
    BY <1>3, <1>9, <2>1, LeadsDropIndex
<1>14. Leads(DropColumn("runs", "visibility"), dialect, b, a)
  <2>1. "visibility" \in (x \cup o) \ i
    BY <1>2, <1>3
  <2>2. Leads(DropColumn("runs", "visibility"), dialect,
              Schema(Put(f, "runs", Tbl(x, o, i)), new),
              Schema(Put(f, "runs", Tbl(x \ {"visibility"}, o \ {"visibility"}, i)), new))
    BY <2>1, LeadsDropColumn
  <2> QED
    BY <1>3, <1>6, <1>9, <2>2
<1>15. Leads(RenameType("visibility", "network_visibility"), dialect, a, d)
  BY <1>8, <1>9, LeadsOthers
<1>16. Leads(Up2, dialect, d, c)
  BY <1>10, <1>11, <1>12, LeadsJoined DEF Up2
<1>17. Leads(Down2, dialect, c, d)
  BY <1>13, <1>14, <1>15, LeadsJoined DEF Down2
<1> QED
  BY <1>5, <1>6, <1>7, <1>9, <1>16, <1>17 DEF SchemaOf

\* The tables that 0001 creates, each with its indexes.
MoreTypes(dialect, types, new) == IF dialect = "postgresql" THEN types \cup new ELSE types

\* A table is made with its columns, and then its indexes.
LEMMA LeadsMade ==
  ASSUME NEW dialect, NEW tables, NEW types, NEW t, NEW required, NEW optional, NEW new,
         t \notin DOMAIN tables, new \cap types = {}
  PROVE  Leads(Create(t, required, optional, new), dialect, Schema(tables, types),
               Schema(Put(tables, t, Tbl(required, optional, {})),
                      MoreTypes(dialect, types, new)))
  BY LeadsCreate DEF MoreTypes

\* The tables of 0001, each made as revision 1 has it: the backends,
LEMMA MakesBackends ==
  ASSUME NEW dialect, NEW tables, NEW types, "snakedispatch_backends" \notin DOMAIN tables,
         {} \cap types = {}
  PROVE  Leads(CreateBackends, dialect, Schema(tables, types),
               Schema(Put(tables, "snakedispatch_backends", BackendTable),
                      MoreTypes(dialect, types, {})))
<1>1. PICK r, o : /\ r = {"id", "name", "url", "is_active"}
                  /\ o = {"created_at", "updated_at"}
  OBVIOUS
<1>2. PICK y : y = MoreTypes(dialect, types, {})
  OBVIOUS
<1>3. PICK i0 : /\ i0 = {}
  OBVIOUS
<1>4. BackendTable = Tbl(r, o, i0)
  BY <1>1, <1>3 DEF BackendTable
<1>5. PICK a0 :
         /\ a0 = Schema(Put(tables, "snakedispatch_backends", Tbl(r, o, i0)), y)
  OBVIOUS
<1>6. Leads(Create("snakedispatch_backends", r, o, {}), dialect, Schema(tables, types), a0)
  BY <1>2, <1>3, <1>5, LeadsMade
<1>7. Leads(CreateBackends, dialect, Schema(tables, types), a0)
  BY <1>1, <1>6 DEF CreateBackends
<1> QED
  BY <1>2, <1>4, <1>5, <1>7

\* the users,
LEMMA MakesUsers ==
  ASSUME NEW dialect, NEW tables, NEW types, "users" \notin DOMAIN tables,
         {"user_role"} \cap types = {}
  PROVE  Leads(CreateUsers, dialect, Schema(tables, types),
               Schema(Put(tables, "users", UserTable), MoreTypes(dialect, types, {"user_role"})))
<1>1. PICK r, o : /\ r = {"id", "username", "role"}
                  /\ o = {"email", "avatar_url", "created_at", "last_login"}
  OBVIOUS
<1>2. PICK y : y = MoreTypes(dialect, types, {"user_role"})
  OBVIOUS
<1>3. PICK i0, i1 : /\ i0 = {}
                    /\ i1 = i0 \cup {"role"}
  OBVIOUS
<1>4. UserTable = Tbl(r, o, i1)
  <2>1. i1 = {"role"}
    BY <1>3
  <2> QED
    BY <1>1, <2>1 DEF UserTable
<1>5. PICK a0, a1 :
         /\ a0 = Schema(Put(tables, "users", Tbl(r, o, i0)), y)
         /\ a1 = Schema(Put(tables, "users", Tbl(r, o, i1)), y)
  OBVIOUS
<1>6. Leads(Create("users", r, o, {"user_role"}), dialect, Schema(tables, types), a0)
  BY <1>2, <1>3, <1>5, LeadsMade
<1>7. Leads(Index("users", "role"), dialect, a0, a1)
  <2>1. "role" \in (r \cup o) \ i0
    BY <1>1, <1>3
  <2> QED
    BY <1>3, <1>5, <2>1, LeadsIndex
<1>8. Leads(CreateUsers, dialect, Schema(tables, types), a1)
  BY <1>1, <1>6, <1>7, LeadsJoined DEF CreateUsers
<1> QED
  BY <1>2, <1>4, <1>5, <1>8

\* their accounts at providers,
LEMMA MakesLinks ==
  ASSUME NEW dialect, NEW tables, NEW types, "user_oauth_providers" \notin DOMAIN tables,
         {} \cap types = {}
  PROVE  Leads(CreateLinks, dialect, Schema(tables, types),
               Schema(Put(tables, "user_oauth_providers", LinkTable),
                      MoreTypes(dialect, types, {})))
<1>1. PICK r, o : /\ r = {"id", "user_id", "provider", "provider_id"}
                  /\ o = {"created_at"}
  OBVIOUS
<1>2. PICK y : y = MoreTypes(dialect, types, {})
  OBVIOUS
<1>3. PICK i0, i1 : /\ i0 = {}
                    /\ i1 = i0 \cup {"user_id"}
  OBVIOUS
<1>4. LinkTable = Tbl(r, o, i1)
  <2>1. i1 = {"user_id"}
    BY <1>3
  <2> QED
    BY <1>1, <2>1 DEF LinkTable
<1>5. PICK a0, a1 :
         /\ a0 = Schema(Put(tables, "user_oauth_providers", Tbl(r, o, i0)), y)
         /\ a1 = Schema(Put(tables, "user_oauth_providers", Tbl(r, o, i1)), y)
  OBVIOUS
<1>6. Leads(Create("user_oauth_providers", r, o, {}), dialect, Schema(tables, types), a0)
  BY <1>2, <1>3, <1>5, LeadsMade
<1>7. Leads(Index("user_oauth_providers", "user_id"), dialect, a0, a1)
  <2>1. "user_id" \in (r \cup o) \ i0
    BY <1>1, <1>3
  <2> QED
    BY <1>3, <1>5, <2>1, LeadsIndex
<1>8. Leads(CreateLinks, dialect, Schema(tables, types), a1)
  BY <1>1, <1>6, <1>7, LeadsJoined DEF CreateLinks
<1> QED
  BY <1>2, <1>4, <1>5, <1>8

\* their API keys,
LEMMA MakesKeys ==
  ASSUME NEW dialect, NEW tables, NEW types, "api_keys" \notin DOMAIN tables,
         {} \cap types = {}
  PROVE  Leads(CreateKeys, dialect, Schema(tables, types),
               Schema(Put(tables, "api_keys", KeyTable), MoreTypes(dialect, types, {})))
<1>1. PICK r, o : /\ r = {"id", "name", "key_hash", "key_prefix", "user_id"}
                  /\ o = {"created_at", "last_used_at", "expires_at"}
  OBVIOUS
<1>2. PICK y : y = MoreTypes(dialect, types, {})
  OBVIOUS
<1>3. PICK i0, i1, i2 : /\ i0 = {}
                        /\ i1 = i0 \cup {"key_hash"}
                        /\ i2 = i1 \cup {"user_id"}
  OBVIOUS
<1>4. KeyTable = Tbl(r, o, i2)
  <2>1. i2 = {"key_hash", "user_id"}
    BY <1>3
  <2> QED
    BY <1>1, <2>1 DEF KeyTable
<1>5. PICK a0, a1, a2 :
         /\ a0 = Schema(Put(tables, "api_keys", Tbl(r, o, i0)), y)
         /\ a1 = Schema(Put(tables, "api_keys", Tbl(r, o, i1)), y)
         /\ a2 = Schema(Put(tables, "api_keys", Tbl(r, o, i2)), y)
  OBVIOUS
<1>6. Leads(Create("api_keys", r, o, {}), dialect, Schema(tables, types), a0)
  BY <1>2, <1>3, <1>5, LeadsMade
<1>7. Leads(Index("api_keys", "key_hash"), dialect, a0, a1)
  <2>1. "key_hash" \in (r \cup o) \ i0
    BY <1>1, <1>3
  <2> QED
    BY <1>3, <1>5, <2>1, LeadsIndex
<1>8. Leads(Index("api_keys", "user_id"), dialect, a1, a2)
  <2>1. "user_id" \in (r \cup o) \ i1
    BY <1>1, <1>3
  <2> QED
    BY <1>3, <1>5, <2>1, LeadsIndex
<1>9. Leads(CreateKeys, dialect, Schema(tables, types), a2)
  BY <1>1, <1>6, <1>7, <1>8, LeadsJoined DEF CreateKeys
<1> QED
  BY <1>2, <1>4, <1>5, <1>9

\* the backends that are assigned to them,
LEMMA MakesAssigned ==
  ASSUME NEW dialect, NEW tables, NEW types, "user_backends" \notin DOMAIN tables,
         {} \cap types = {}
  PROVE  Leads(CreateAssigned, dialect, Schema(tables, types),
               Schema(Put(tables, "user_backends", AssignedTable), MoreTypes(dialect, types, {})))
<1>1. PICK r, o : /\ r = {"user_id", "backend_id"}
                  /\ o = {}
  OBVIOUS
<1>2. PICK y : y = MoreTypes(dialect, types, {})
  OBVIOUS
<1>3. PICK i0 : /\ i0 = {}
  OBVIOUS
<1>4. AssignedTable = Tbl(r, o, i0)
  BY <1>1, <1>3 DEF AssignedTable
<1>5. PICK a0 :
         /\ a0 = Schema(Put(tables, "user_backends", Tbl(r, o, i0)), y)
  OBVIOUS
<1>6. Leads(Create("user_backends", r, o, {}), dialect, Schema(tables, types), a0)
  BY <1>2, <1>3, <1>5, LeadsMade
<1>7. Leads(CreateAssigned, dialect, Schema(tables, types), a0)
  BY <1>1, <1>6 DEF CreateAssigned
<1> QED
  BY <1>2, <1>4, <1>5, <1>7

\* the runs,
LEMMA MakesRuns ==
  ASSUME NEW dialect, NEW tables, NEW types, "runs" \notin DOMAIN tables,
         {"run_status"} \cap types = {}
  PROVE  Leads(CreateRuns, dialect, Schema(tables, types),
               Schema(Put(tables, "runs", RunTableAt(1)),
                      MoreTypes(dialect, types, {"run_status"})))
<1>1. PICK r, o : /\ r = {"job_id", "user_id", "workflow", "status"}
                  /\ o = {"backend_id", "created_at", "configfile", "snakemake_args",
                          "extra_files", "cache", "callback_url", "git_ref", "git_sha",
                          "exit_code", "started_at", "completed_at", "import_networks",
                          "total_job_count", "jobs_finished"}
  OBVIOUS
<1>2. PICK y : y = MoreTypes(dialect, types, {"run_status"})
  OBVIOUS
<1>3. PICK i0, i1, i2 : /\ i0 = {}
                        /\ i1 = i0 \cup {"user_id"}
                        /\ i2 = i1 \cup {"backend_id"}
  OBVIOUS
<1>4. RunTableAt(1) = Tbl(r, o, i2)
  <2>1. /\ r = RunTable.required \ {"visibility"} /\ o = RunTable.optional
        /\ i2 = RunTable.indexed \ {"visibility"}
    BY <1>1, <1>3 DEF RunTable, Tbl
  <2> QED
    BY <2>1, RunTables
<1>5. PICK a0, a1, a2 :
         /\ a0 = Schema(Put(tables, "runs", Tbl(r, o, i0)), y)
         /\ a1 = Schema(Put(tables, "runs", Tbl(r, o, i1)), y)
         /\ a2 = Schema(Put(tables, "runs", Tbl(r, o, i2)), y)
  OBVIOUS
<1>6. Leads(Create("runs", r, o, {"run_status"}), dialect, Schema(tables, types), a0)
  BY <1>2, <1>3, <1>5, LeadsMade
<1>7. Leads(Index("runs", "user_id"), dialect, a0, a1)
  <2>1. "user_id" \in (r \cup o) \ i0
    BY <1>1, <1>3
  <2> QED
    BY <1>3, <1>5, <2>1, LeadsIndex
<1>8. Leads(Index("runs", "backend_id"), dialect, a1, a2)
  <2>1. "backend_id" \in (r \cup o) \ i1
    BY <1>1, <1>3
  <2> QED
    BY <1>3, <1>5, <2>1, LeadsIndex
<1>9. Leads(CreateRuns, dialect, Schema(tables, types), a2)
  BY <1>1, <1>6, <1>7, <1>8, LeadsJoined DEF CreateRuns
<1> QED
  BY <1>2, <1>4, <1>5, <1>9

\* and the networks.
LEMMA MakesNetworks ==
  ASSUME NEW dialect, NEW tables, NEW types, "networks" \notin DOMAIN tables,
         {"network_visibility"} \cap types = {}
  PROVE  Leads(CreateNetworks, dialect, Schema(tables, types),
               Schema(Put(tables, "networks", NetworkTableAt(1)),
                      MoreTypes(dialect, types, {"network_visibility"})))
<1>1. PICK r, o : /\ r = {"id", "user_id", "visibility", "filename", "file_path"}
                  /\ o = {"source_run_id", "created_at", "update_history", "file_size",
                          "file_hash", "name", "dimensions_count", "components_count", "meta",
                          "facets", "topology_svg"}
  OBVIOUS
<1>2. PICK y : y = MoreTypes(dialect, types, {"network_visibility"})
  OBVIOUS
<1>3. PICK i0, i1, i2, i3, i4, i5 : /\ i0 = {}
                                    /\ i1 = i0 \cup {"created_at"}
                                    /\ i2 = i1 \cup {"user_id"}
                                    /\ i3 = i2 \cup {"source_run_id"}
                                    /\ i4 = i3 \cup {"visibility"}
                                    /\ i5 = i4 \cup {"file_path"}
  OBVIOUS
<1>4. NetworkTableAt(1) = Tbl(r, o, i5)
  <2>1. PICK x : x = NetworkOptional \cup {"dimensions_count"}
    OBVIOUS
  <2>2. r = NetworkRequired /\ i5 = NetworkTable.indexed
    BY <1>1, <1>3 DEF NetworkRequired, NetworkTable, Tbl
  <2>3. o = x
    BY <1>1, <2>1 DEF NetworkOptional, NetworkTable, Tbl
  <2> QED
    BY <2>1, <2>2, <2>3, NetworkTables
<1>5. PICK a0, a1, a2, a3, a4, a5 :
         /\ a0 = Schema(Put(tables, "networks", Tbl(r, o, i0)), y)
         /\ a1 = Schema(Put(tables, "networks", Tbl(r, o, i1)), y)
         /\ a2 = Schema(Put(tables, "networks", Tbl(r, o, i2)), y)
         /\ a3 = Schema(Put(tables, "networks", Tbl(r, o, i3)), y)
         /\ a4 = Schema(Put(tables, "networks", Tbl(r, o, i4)), y)
         /\ a5 = Schema(Put(tables, "networks", Tbl(r, o, i5)), y)
  OBVIOUS
<1>6. Leads(Create("networks", r, o, {"network_visibility"}), dialect, Schema(tables, types), a0)
  BY <1>2, <1>3, <1>5, LeadsMade
<1>7. Leads(Index("networks", "created_at"), dialect, a0, a1)
  <2>1. "created_at" \in (r \cup o) \ i0
    BY <1>1, <1>3
  <2> QED
    BY <1>3, <1>5, <2>1, LeadsIndex
<1>8. Leads(Index("networks", "user_id"), dialect, a1, a2)
  <2>1. "user_id" \in (r \cup o) \ i1
    BY <1>1, <1>3
  <2> QED
    BY <1>3, <1>5, <2>1, LeadsIndex
<1>9. Leads(Index("networks", "source_run_id"), dialect, a2, a3)
  <2>1. "source_run_id" \in (r \cup o) \ i2
    BY <1>1, <1>3
  <2> QED
    BY <1>3, <1>5, <2>1, LeadsIndex
<1>10. Leads(Index("networks", "visibility"), dialect, a3, a4)
  <2>1. "visibility" \in (r \cup o) \ i3
    BY <1>1, <1>3
  <2> QED
    BY <1>3, <1>5, <2>1, LeadsIndex
<1>11. Leads(Index("networks", "file_path"), dialect, a4, a5)
  <2>1. "file_path" \in (r \cup o) \ i4
    BY <1>1, <1>3
  <2> QED
    BY <1>3, <1>5, <2>1, LeadsIndex
<1>12. Leads(CreateNetworks, dialect, Schema(tables, types), a5)
  BY <1>1, <1>6, <1>7, <1>8, <1>9, <1>10, <1>11, LeadsJoined DEF CreateNetworks
<1> QED
  BY <1>2, <1>4, <1>5, <1>12

\* 0001 creates them in an empty database, and its downgrade drops them all.
LEMMA Revision1 ==
  ASSUME NEW dialect \in {"postgresql", "sqlite"}
  PROVE  /\ Leads(Up1({}), dialect, SchemaOf(dialect, 0), SchemaOf(dialect, 1))
         /\ Leads(Down1, dialect, SchemaOf(dialect, 1), SchemaOf(dialect, 0))
<1>1. PICK f, g : f = TablesAt(0) /\ g = TablesAt(1)
  OBVIOUS
<1>2. /\ DOMAIN f = {}
      /\ DOMAIN g = {"snakedispatch_backends", "users", "user_oauth_providers", "api_keys",
                     "user_backends", "runs", "networks"}
  <2>1. Until(5, 1, {"app_info"}) = {"app_info"} /\ 1 \in 1..7
    BY DEF Until
  <2>2. DOMAIN f = {} /\ DOMAIN g = Tables \ {"app_info"}
    BY <1>1, <2>1, TableNames
  <2>3. Tables = {"snakedispatch_backends", "users", "user_oauth_providers", "api_keys",
                  "user_backends", "runs", "networks", "app_info"}
    BY TableNames
  <2> QED
    BY <2>2, <2>3
<1>3. PICK y1, y2, y3 : /\ y1 = MoreTypes(dialect, {}, {"user_role"})
                        /\ y2 = MoreTypes(dialect, y1, {"run_status"})
                        /\ y3 = MoreTypes(dialect, y2, {"network_visibility"})
  OBVIOUS
<1>4. /\ y1 \subseteq {"user_role"} /\ y2 \subseteq {"user_role", "run_status"}
      /\ y3 = TypesAt(dialect, 1)
  <2>1. CASE dialect = "postgresql"
    BY <1>3, <2>1, TypesOf DEF MoreTypes
  <2>2. CASE dialect = "sqlite"
    <3>1. y1 = {} /\ y2 = {} /\ y3 = {}
      BY <1>3, <2>2 DEF MoreTypes
    <3> QED
      BY <2>2, <3>1, TypesOf
  <2> QED
    BY <2>1, <2>2
<1>5. \A types : MoreTypes(dialect, types, {}) = types
  BY DEF MoreTypes
<1>6. PICK p1, p2, p3, p4, p5, p6, p7 :
         /\ p1 = Put(f, "snakedispatch_backends", BackendTable)
         /\ p2 = Put(p1, "users", UserTable)
         /\ p3 = Put(p2, "user_oauth_providers", LinkTable)
         /\ p4 = Put(p3, "api_keys", KeyTable)
         /\ p5 = Put(p4, "user_backends", AssignedTable)
         /\ p6 = Put(p5, "runs", RunTableAt(1))
         /\ p7 = Put(p6, "networks", NetworkTableAt(1))
  OBVIOUS
<1>7. /\ DOMAIN p1 = {"snakedispatch_backends"}
      /\ DOMAIN p2 = {"snakedispatch_backends", "users"}
      /\ DOMAIN p3 = {"snakedispatch_backends", "users", "user_oauth_providers"}
      /\ DOMAIN p4 = {"snakedispatch_backends", "users", "user_oauth_providers", "api_keys"}
      /\ DOMAIN p5 = {"snakedispatch_backends", "users", "user_oauth_providers", "api_keys",
                     "user_backends"}
      /\ DOMAIN p6 = {"snakedispatch_backends", "users", "user_oauth_providers", "api_keys",
                     "user_backends", "runs"}
      /\ DOMAIN p7 = {"snakedispatch_backends", "users", "user_oauth_providers", "api_keys",
                     "user_backends", "runs", "networks"}
  BY <1>2, <1>6 DEF Put
<1>8. Leads(CreateBackends, dialect, Schema(f, {}), Schema(p1, {}))
  <2>1. "snakedispatch_backends" \notin DOMAIN f /\ {} \cap {} = {}
    BY <1>2, <1>4, <1>7
  <2> QED
    BY <1>3, <1>5, <1>6, <2>1, MakesBackends
<1>9. Leads(CreateUsers, dialect, Schema(p1, {}), Schema(p2, y1))
  <2>1. "users" \notin DOMAIN p1 /\ {"user_role"} \cap {} = {}
    BY <1>2, <1>4, <1>7
  <2> QED
    BY <1>3, <1>5, <1>6, <2>1, MakesUsers
<1>10. Leads(CreateLinks, dialect, Schema(p2, y1), Schema(p3, y1))
  <2>1. "user_oauth_providers" \notin DOMAIN p2 /\ {} \cap y1 = {}
    BY <1>2, <1>4, <1>7
  <2> QED
    BY <1>3, <1>5, <1>6, <2>1, MakesLinks
<1>11. Leads(CreateKeys, dialect, Schema(p3, y1), Schema(p4, y1))
  <2>1. "api_keys" \notin DOMAIN p3 /\ {} \cap y1 = {}
    BY <1>2, <1>4, <1>7
  <2> QED
    BY <1>3, <1>5, <1>6, <2>1, MakesKeys
<1>12. Leads(CreateAssigned, dialect, Schema(p4, y1), Schema(p5, y1))
  <2>1. "user_backends" \notin DOMAIN p4 /\ {} \cap y1 = {}
    BY <1>2, <1>4, <1>7
  <2> QED
    BY <1>3, <1>5, <1>6, <2>1, MakesAssigned
<1>13. Leads(CreateRuns, dialect, Schema(p5, y1), Schema(p6, y2))
  <2>1. "runs" \notin DOMAIN p5 /\ {"run_status"} \cap y1 = {}
    BY <1>2, <1>4, <1>7
  <2> QED
    BY <1>3, <1>5, <1>6, <2>1, MakesRuns
<1>14. Leads(CreateNetworks, dialect, Schema(p6, y2), Schema(p7, y3))
  <2>1. "networks" \notin DOMAIN p6 /\ {"network_visibility"} \cap y2 = {}
    BY <1>2, <1>4, <1>7
  <2> QED
    BY <1>3, <1>5, <1>6, <2>1, MakesNetworks
<1>15. \A t, ops : Unless(t, ops, {}) = ops
  BY DEF Unless
<1>16. PICK ops : ops = CreateBackends \o CreateUsers \o CreateLinks \o CreateKeys \o CreateAssigned
                      \o CreateRuns \o CreateNetworks
  OBVIOUS
<1>17. Up1({}) = ops
  BY <1>15, <1>16 DEF Up1
<1>18. Leads(ops, dialect, Schema(f, {}), Schema(p7, y3))
  BY <1>8, <1>9, <1>10, <1>11, <1>12, <1>13, <1>14, <1>16, LeadsJoined
<1>19. p7 = g
  <2>1. DOMAIN p7 = DOMAIN g
    BY <1>2, <1>7
  <2>2. /\ p1["snakedispatch_backends"] = BackendTable
        /\ \A t \in DOMAIN f : t # "snakedispatch_backends" => p1[t] = f[t]
    BY <1>6 DEF Put
  <2>3. p2["users"] = UserTable /\ (\A t \in DOMAIN p1 : t # "users" => p2[t] = p1[t])
    BY <1>6 DEF Put
  <2>4. /\ p3["user_oauth_providers"] = LinkTable
        /\ \A t \in DOMAIN p2 : t # "user_oauth_providers" => p3[t] = p2[t]
    BY <1>6 DEF Put
  <2>5. p4["api_keys"] = KeyTable /\ (\A t \in DOMAIN p3 : t # "api_keys" => p4[t] = p3[t])
    BY <1>6 DEF Put
  <2>6. /\ p5["user_backends"] = AssignedTable
        /\ \A t \in DOMAIN p4 : t # "user_backends" => p5[t] = p4[t]
    BY <1>6 DEF Put
  <2>7. p6["runs"] = RunTableAt(1) /\ (\A t \in DOMAIN p5 : t # "runs" => p6[t] = p5[t])
    BY <1>6 DEF Put
  <2>8. p7["networks"] = NetworkTableAt(1) /\ (\A t \in DOMAIN p6 : t # "networks" => p7[t] = p6[t])
    BY <1>6 DEF Put
  <2>9. /\ p7["snakedispatch_backends"] = BackendTable
        /\ p7["users"] = UserTable
        /\ p7["user_oauth_providers"] = LinkTable
        /\ p7["api_keys"] = KeyTable
        /\ p7["user_backends"] = AssignedTable
        /\ p7["runs"] = RunTableAt(1)
        /\ p7["networks"] = NetworkTableAt(1)
    BY <1>7, <2>2, <2>3, <2>4, <2>5, <2>6, <2>7, <2>8
  <2>10. /\ g["snakedispatch_backends"] = BackendTable
         /\ g["users"] = UserTable
         /\ g["user_oauth_providers"] = LinkTable
         /\ g["api_keys"] = KeyTable
         /\ g["user_backends"] = AssignedTable
         /\ g["runs"] = RunTableAt(1)
         /\ g["networks"] = NetworkTableAt(1)
    BY <1>1, <1>2 DEF TablesAt, Models
  <2>11. g = [t \in DOMAIN g |-> g[t]] /\ p7 = [t \in DOMAIN p7 |-> p7[t]]
    BY <1>1, <1>6 DEF TablesAt, Put
  <2>12. \A t \in DOMAIN g : p7[t] = g[t]
    BY <1>2, <2>9, <2>10
  <2> QED
    BY <2>1, <2>11, <2>12
<1>20. Leads(Up1({}), dialect, SchemaOf(dialect, 0), SchemaOf(dialect, 1))
  BY <1>1, <1>4, <1>17, <1>18, <1>19, TypesOf DEF SchemaOf
<1>21. PICK w1, w2, w3, w4, w5, w6, w7 :
         /\ w1 = Without(g, "networks")
         /\ w2 = Without(w1, "runs")
         /\ w3 = Without(w2, "user_backends")
         /\ w4 = Without(w3, "api_keys")
         /\ w5 = Without(w4, "user_oauth_providers")
         /\ w6 = Without(w5, "users")
         /\ w7 = Without(w6, "snakedispatch_backends")
  OBVIOUS
<1>22. /\ DOMAIN w1 = {"snakedispatch_backends", "users", "user_oauth_providers", "api_keys",
                      "user_backends", "runs"}
       /\ DOMAIN w2 = {"snakedispatch_backends", "users", "user_oauth_providers", "api_keys",
                      "user_backends"}
       /\ DOMAIN w3 = {"snakedispatch_backends", "users", "user_oauth_providers", "api_keys"}
       /\ DOMAIN w4 = {"snakedispatch_backends", "users", "user_oauth_providers"}
       /\ DOMAIN w5 = {"snakedispatch_backends", "users"}
       /\ DOMAIN w6 = {"snakedispatch_backends"}
       /\ DOMAIN w7 = {}
  BY <1>2, <1>21 DEF Without
<1>23. Leads(DropTable("networks"), dialect, Schema(g, y3), Schema(w1, y3))
  <2>1. "networks" \in DOMAIN g
    BY <1>2, <1>22
  <2> QED
    BY <1>21, <2>1, LeadsOthers
<1>24. Leads(DropTable("runs"), dialect, Schema(w1, y3), Schema(w2, y3))
  <2>1. "runs" \in DOMAIN w1
    BY <1>2, <1>22
  <2> QED
    BY <1>21, <2>1, LeadsOthers
<1>25. Leads(DropTable("user_backends"), dialect, Schema(w2, y3), Schema(w3, y3))
  <2>1. "user_backends" \in DOMAIN w2
    BY <1>2, <1>22
  <2> QED
    BY <1>21, <2>1, LeadsOthers
<1>26. Leads(DropTable("api_keys"), dialect, Schema(w3, y3), Schema(w4, y3))
  <2>1. "api_keys" \in DOMAIN w3
    BY <1>2, <1>22
  <2> QED
    BY <1>21, <2>1, LeadsOthers
<1>27. Leads(DropTable("user_oauth_providers"), dialect, Schema(w4, y3), Schema(w5, y3))
  <2>1. "user_oauth_providers" \in DOMAIN w4
    BY <1>2, <1>22
  <2> QED
    BY <1>21, <2>1, LeadsOthers
<1>28. Leads(DropTable("users"), dialect, Schema(w5, y3), Schema(w6, y3))
  <2>1. "users" \in DOMAIN w5
    BY <1>2, <1>22
  <2> QED
    BY <1>21, <2>1, LeadsOthers
<1>29. Leads(DropTable("snakedispatch_backends"), dialect, Schema(w6, y3), Schema(w7, y3))
  <2>1. "snakedispatch_backends" \in DOMAIN w6
    BY <1>2, <1>22
  <2> QED
    BY <1>21, <2>1, LeadsOthers
<1>30. Leads(DropTypes({"network_visibility", "run_status", "user_role"}), dialect, Schema(w7, y3),
             Schema(w7, {}))
  <2>1. y3 \ {"network_visibility", "run_status", "user_role"} = {}
    BY <1>4, TypesOf
  <2> QED
    BY <2>1, LeadsOthers
<1>31. Leads(Down1, dialect, Schema(g, y3), Schema(w7, {}))
  BY <1>23, <1>24, <1>25, <1>26, <1>27, <1>28, <1>29, <1>30, LeadsJoined DEF Down1
<1>32. w7 = f
  <2>1. w7 = [t \in DOMAIN w7 |-> w7[t]] /\ f = [t \in DOMAIN f |-> f[t]]
    BY <1>1, <1>21 DEF TablesAt, Without
  <2>2. DOMAIN w7 = DOMAIN f /\ \A t \in DOMAIN f : w7[t] = f[t]
    BY <1>2, <1>22
  <2> QED
    BY <2>1, <2>2
<1>33. Leads(Down1, dialect, SchemaOf(dialect, 1), SchemaOf(dialect, 0))
  BY <1>1, <1>4, <1>31, <1>32, TypesOf DEF SchemaOf
<1> QED
  BY <1>20, <1>33

\* What is to be done for a revision leads from the schema of one number to that of the next.
LEMMA TodoLeads ==
  ASSUME NEW up \in BOOLEAN, NEW v \in 0..7, Target(up, v) \in 0..7, NEW d,
         d.tables = TablesAt(v), NEW dialect \in {"postgresql", "sqlite"}
  PROVE  Leads(Todo(up, NextRevision(up, v), d), dialect, SchemaOf(dialect, v),
               SchemaOf(dialect, Target(up, v)))
<1>1. PICK n : n = NextRevision(up, v)
  OBVIOUS
<1>2. PICK ops : ops = Todo(up, n, d)
  OBVIOUS
<1>3. /\ n \in {1, 2, 3, 4, 5, 6, 7} /\ n # 0
      /\ Target(up, v) = (IF up THEN n ELSE n - 1) /\ v = (IF up THEN n - 1 ELSE n)
  BY <1>1 DEF NextRevision, Target
<1>4. CASE up
  <2>1. v = n - 1 /\ Target(up, v) = n
    BY <1>3, <1>4
  <2>2. Leads(ops, dialect, SchemaOf(dialect, n - 1), SchemaOf(dialect, n))
    <3>1. CASE n = 1
      <4>1. DOMAIN d.tables = {}
        BY <2>1, <3>1, TableNames
      <4>2. ops = Up1({})
        BY <1>2, <1>4, <3>1, <4>1 DEF Todo
      <4> QED
        BY <3>1, <4>2, Revision1
    <3>2. CASE n # 1
      <4>1. ops = Up[n]
        BY <1>2, <1>3, <1>4, <3>2 DEF Todo
      <4>2. Up[2] = Up2 /\ Up[3] = Up3 /\ Up[4] = Up4 /\ Up[5] = Up5 /\ Up[6] = Up6 /\ Up[7] = Up7
        BY DEF Up
      <4>3. /\ 2 - 1 = 1 /\ 3 - 1 = 2 /\ 4 - 1 = 3 /\ 5 - 1 = 4 /\ 6 - 1 = 5 /\ 7 - 1 = 6
        OBVIOUS
      <4> QED
        BY <1>3, <3>2, <4>1, <4>2, <4>3, Revision2, Revision3, Revision4, Revision5, Revision6,
           Revision7
    <3> QED
      BY <3>1, <3>2
  <2> QED
    BY <1>1, <1>2, <2>1, <2>2
<1>5. CASE ~up
  <2>1. v = n /\ Target(up, v) = n - 1
    BY <1>3, <1>5
  <2>2. ops = Down[n]
    BY <1>2, <1>3, <1>5 DEF Todo
  <2>3. /\ Down[1] = Down1 /\ Down[2] = Down2 /\ Down[3] = Down3 /\ Down[4] = Down4
        /\ Down[5] = Down5 /\ Down[6] = Down6 /\ Down[7] = Down7
    BY DEF Down
  <2>4. /\ 1 - 1 = 0 /\ 2 - 1 = 1 /\ 3 - 1 = 2 /\ 4 - 1 = 3 /\ 5 - 1 = 4 /\ 6 - 1 = 5 /\ 7 - 1 = 6
    OBVIOUS
  <2>5. Leads(ops, dialect, SchemaOf(dialect, n), SchemaOf(dialect, n - 1))
    BY <1>3, <2>2, <2>3, <2>4, Revision1, Revision2, Revision3, Revision4, Revision5, Revision6,
       Revision7
  <2> QED
    BY <1>1, <1>2, <2>1, <2>5
<1> QED
  BY <1>4, <1>5

----------------------------------------------------------------------------
(* The schema, while revisions come and go.                                *)

\* What a statement leaves alone, and what it does to the names of the tables.
LEMMA AfterIs ==
  ASSUME NEW d, DbTyped(d), NEW op, NEW up, NEW e, e = After(op, up, d)
  PROVE  /\ DOMAIN e = DOMAIN d /\ e.dialect = d.dialect /\ e.version = d.version
         /\ d.dialect = "sqlite" /\ d.types = {} => e.types = {}
         /\ op.do = "create" => DOMAIN e.tables = DOMAIN d.tables \cup {op.table}
         /\ op.do = "remove" => DOMAIN e.tables = DOMAIN d.tables \ {op.table}
         /\ op.do \notin {"create", "remove"} => DOMAIN e.tables = DOMAIN d.tables
         /\ e.stamp = IF op.do = "remove" /\ op.table = "app_info" THEN 0 ELSE d.stamp
<1> USE DEF DbTyped
<1>1. CASE op.do = "create"
  <2>1. PICK t, y : /\ t = [u \in DOMAIN d.tables \cup {op.table} |->
                              IF u = op.table THEN op.arg ELSE d.tables[u]]
                    /\ y = IF d.dialect = "postgresql" THEN d.types \cup op.arg2 ELSE d.types
    OBVIOUS
  <2>2. e = [d EXCEPT !.tables = t, !.types = y]
    BY <1>1, <2>1 DEF After
  <2>3. DOMAIN t = DOMAIN d.tables \cup {op.table}
    BY <2>1
  <2>4. e.tables = t /\ e.types = y /\ DOMAIN e = DOMAIN d /\ e.dialect = d.dialect
        /\ e.version = d.version /\ e.stamp = d.stamp
    BY <2>2
  <2> QED
    BY <1>1, <2>1, <2>3, <2>4
<1>2. CASE op.do = "remove"
  <2>1. PICK t, y, r : /\ t = [u \in DOMAIN d.tables \ {op.table} |-> d.tables[u]]
                       /\ y = (IF op.table = "app_info" THEN 0 ELSE d.stamp)
                       /\ r = IF op.table = "networks" THEN {} ELSE d.rows
    OBVIOUS
  <2>2. e = [d EXCEPT !.tables = t, !.stamp = y, !.rows = r]
    BY <1>2, <2>1 DEF After
  <2>3. DOMAIN t = DOMAIN d.tables \ {op.table}
    BY <2>1
  <2>4. e.tables = t /\ e.types = d.types /\ DOMAIN e = DOMAIN d /\ e.dialect = d.dialect
        /\ e.version = d.version /\ e.stamp = y
    BY <2>2
  <2> QED
    BY <1>2, <2>1, <2>3, <2>4
<1>3. CASE op.do = "retype" \/ op.do = "untype"
  <2>1. PICK y : y = IF op.do = "retype" THEN Renamed(d.types, op.arg, op.arg2)
                     ELSE d.types \ op.arg2
    OBVIOUS
  <2>2. e = [d EXCEPT !.types = y]
    BY <1>3, <2>1 DEF After
  <2>3. d.types = {} => y = {}
    BY <2>1 DEF Renamed
  <2> QED
    BY <1>3, <2>2, <2>3
<1>4. CASE op.do = "rows"
  <2>1. PICK r : r = {IF up THEN Expanded(row) ELSE Collapsed(row) : row \in d.rows}
    OBVIOUS
  <2>2. e = [d EXCEPT !.rows = r]
    BY <1>4, <2>1 DEF After
  <2> QED
    BY <1>4, <2>2
<1>5. CASE op.do \notin {"create", "remove", "retype", "untype", "rows"}
  <2>1. PICK t : t = [d.tables EXCEPT ![op.table] = Altered(op, d.tables[op.table])]
    OBVIOUS
  <2>2. e = [d EXCEPT !.tables = t]
    BY <1>5, <2>1 DEF After
  <2>3. DOMAIN t = DOMAIN d.tables
    BY <2>1
  <2> QED
    BY <1>5, <2>2, <2>3
<1> QED
  BY <1>1, <1>2, <1>3, <1>4, <1>5

AtRevision(d) ==
  d.tables = TablesAt(d.version) /\ d.types = TypesAt(d.dialect, d.version)

\* What is committed has the schema of its revision unless a crash has torn it, which happens
\* on SQLite only; and what is left to do leads to the schema of the revision that is next.
Fits(d) ==
  /\ d.dialect \in {"postgresql", "sqlite"}
  /\ d.dialect = "sqlite" => d.types = {}
OnCourse ==
  Leads(conn.left, db.dialect, Schema(Seen.tables, Seen.types),
        SchemaOf(db.dialect, Target(conn.up, Seen.version)))
SchemaInv ==
  /\ Fits(db) /\ Fits(Seen) /\ Seen.dialect = db.dialect
  /\ torn => db.dialect = "sqlite"
  /\ db.dialect = "postgresql" => AtRevision(db) /\ (conn.pc = "run" => conn.draft.open)
  /\ conn.pc # "run" /\ ~torn => AtRevision(db)
  /\ conn.pc = "run" /\ ~torn => OnCourse
  /\ conn.pc = "broken" => torn

\* A revision begins.
LEMMA SchemaRunning ==
  ASSUME NEW c, {"pc", "app", "up", "goal", "before", "left", "draft"} \subseteq DOMAIN c,
         NEW up \in BOOLEAN, NEW goal \in 0..7, NEW d, DbTyped(d),
         d = IF c.draft.open THEN c.draft.db ELSE db',
         conn' = Running(c, up, goal, d.version, d),
         IF up THEN d.version =< goal ELSE goal =< d.version,
         Fits(db'), Fits(d), d.dialect = db'.dialect,
         torn' => db'.dialect = "sqlite",
         db'.dialect = "postgresql" => AtRevision(db') /\ (d.version # goal => c.draft.open),
         ~torn' => AtRevision(d),
         d.version = goal => d = db'
  PROVE  SchemaInv'
<1>1. /\ conn'.draft = c.draft /\ conn'.up = up
      /\ conn'.pc = IF d.version = goal THEN "done" ELSE "run"
      /\ d.version # goal => conn'.left = Todo(up, NextRevision(up, d.version), d)
  BY DEF Running, DbTyped
<1>2. Seen' = d
  BY <1>1 DEF Seen
<1>3. CASE d.version = goal
  <2>1. conn'.pc = "done"
    BY <1>1, <1>3
  <2>2. ~torn' => AtRevision(db')
    BY <1>3
  <2> QED
    BY <1>2, <1>3, <2>1, <2>2 DEF SchemaInv, Fits, AtRevision
<1>4. CASE d.version # goal
  <2>1. PICK v : v = d.version
    OBVIOUS
  <2>2. v \in 0..7 /\ Target(up, v) \in 0..7
    BY <1>4, <2>1 DEF DbTyped, Target
  <2>3. PICK ops : ops = Todo(up, NextRevision(up, v), d)
    OBVIOUS
  <2>4. conn'.left = ops /\ conn'.pc = "run"
    BY <1>1, <1>4, <2>1, <2>3
  <2>5. PICK dialect : dialect = db'.dialect
    OBVIOUS
  <2>6. dialect \in {"postgresql", "sqlite"} /\ d.dialect = dialect
    BY <2>5 DEF Fits
  <2>7. ASSUME ~torn' PROVE OnCourse'
    <3>1. d.tables = TablesAt(v) /\ d.types = TypesAt(dialect, v)
      BY <2>1, <2>6, <2>7 DEF AtRevision
    <3>2. Leads(ops, dialect, SchemaOf(dialect, v), SchemaOf(dialect, Target(up, v)))
      BY <2>2, <2>3, <2>6, <3>1, TodoLeads
    <3>3. Schema(d.tables, d.types) = SchemaOf(dialect, v)
      BY <3>1 DEF SchemaOf
    <3>4. Leads(ops, dialect, Schema(d.tables, d.types), SchemaOf(dialect, Target(up, v)))
      BY <3>2, <3>3
    <3>5. Leads(conn'.left, db'.dialect, Schema(Seen'.tables, Seen'.types),
                SchemaOf(db'.dialect, Target(conn'.up, Seen'.version)))
      BY <1>1, <1>2, <2>1, <2>4, <2>5, <3>4
    <3> QED
      BY <3>5 DEF OnCourse
  <2> QED
    BY <1>1, <1>2, <1>4, <2>4, <2>7 DEF SchemaInv, Fits, AtRevision
<1> QED
  BY <1>3, <1>4

\* A connection at rest.
LEMMA SchemaRests ==
  ASSUME conn'.pc \notin {"run", "broken"}, conn'.draft = NoDraft, Fits(db'),
         torn' => db'.dialect = "sqlite", db'.dialect = "postgresql" => AtRevision(db'),
         ~torn' => AtRevision(db')
  PROVE  SchemaInv'
<1>1. Seen' = db'
  BY DEF Seen, NoDraft
<1> QED
  BY <1>1 DEF SchemaInv, Fits, AtRevision

\* Where a connection rests.
LEMMA RestsAt ==
  /\ Quiet.pc = "quiet" /\ Quiet.draft = NoDraft
  /\ \A pc : Ended(pc).draft = NoDraft /\ Ended(pc).pc \in {"quiet", pc}
  BY DEF Quiet, Ended

\* What holds before an upgrade or a downgrade begins.
LEMMA SchemaBefore ==
  ASSUME SchemaInv, MigrationInv, conn.pc = "quiet", UNCHANGED <<db, torn>>
  PROVE  /\ Fits(db') /\ db' = db /\ (torn' => db'.dialect = "sqlite") /\ DbTyped(db)
         /\ db'.dialect = "postgresql" => AtRevision(db') /\ Draft.open
         /\ ~torn' => AtRevision(db)
         /\ db = (IF Draft.open THEN Draft.db ELSE db')
         /\ Draft.open \in BOOLEAN
  BY DEF SchemaInv, MigrationInv, Draft, NoDraft, Fits, AtRevision

\* A release that starts begins at the schema of the revision it finds ...
LEMMA SchemaBegin ==
  ASSUME SchemaInv, MigrationInv, NEW app \in Releases, Begin(app) PROVE SchemaInv'
<1>1. app \in 0..7 /\ conn.pc = "quiet" /\ UNCHANGED <<db, torn>>
  BY MigrationsAssumption DEF Begin
<1>2. /\ Fits(db') /\ db' = db /\ (torn' => db'.dialect = "sqlite") /\ DbTyped(db)
      /\ db'.dialect = "postgresql" => AtRevision(db') /\ Draft.open
      /\ ~torn' => AtRevision(db)
      /\ db = (IF Draft.open THEN Draft.db ELSE db')
  BY <1>1, SchemaBefore
<1>3. CASE ~Knows(app, db.version)
  <2>1. conn' = [Quiet EXCEPT !.pc = "refused", !.app = app]
    BY <1>3 DEF Begin
  <2>2. conn'.pc = "refused" /\ conn'.draft = NoDraft
    BY <2>1, QuietIsTyped
  <2> QED
    BY <1>2, <2>2, SchemaRests
<1>4. CASE Knows(app, db.version)
  <2>1. PICK c : c = [Quiet EXCEPT !.app = app, !.before = db.version, !.draft = Draft]
    OBVIOUS
  <2>2. conn' = Running(c, TRUE, app, db.version, db)
    BY <1>4, <2>1 DEF Begin
  <2>3. DOMAIN c = {"pc", "app", "up", "goal", "before", "left", "draft"} /\ c.draft = Draft
    BY <2>1, QuietIsTyped
  <2>4. db.version =< app
    BY <1>4 DEF Knows
  <2> QED
    BY <1>1, <1>2, <2>2, <2>3, <2>4, SchemaRunning
<1> QED
  BY <1>3, <1>4

\* ... and so does a developer.
LEMMA SchemaAlembic ==
  ASSUME SchemaInv, MigrationInv, NEW goal \in 0..6, Alembic(goal) PROVE SchemaInv'
<1>1. goal \in 0..7 /\ conn.pc = "quiet" /\ UNCHANGED <<db, torn>> /\ goal # db.version
  BY DEF Alembic
<1>2. /\ Fits(db') /\ db' = db /\ (torn' => db'.dialect = "sqlite") /\ DbTyped(db)
      /\ db'.dialect = "postgresql" => AtRevision(db') /\ Draft.open
      /\ ~torn' => AtRevision(db)
      /\ db = (IF Draft.open THEN Draft.db ELSE db')
  BY <1>1, SchemaBefore
<1>3. PICK c : c = [Quiet EXCEPT !.draft = Draft]
  OBVIOUS
<1>4. PICK up \in BOOLEAN : up <=> goal > db.version
  OBVIOUS
<1>5. DOMAIN c = {"pc", "app", "up", "goal", "before", "left", "draft"} /\ c.draft = Draft
  BY <1>3, QuietIsTyped
<1>6. conn' = Running(c, goal > db.version, goal, db.version, db)
  BY <1>3 DEF Alembic
<1>7. goal \in 0..7 /\ db.version \in 0..7
  BY <1>1, <1>2 DEF DbTyped
<1>8. (goal > db.version) = up
  BY <1>4, <1>7, SMT
<1>9. conn' = Running(c, up, goal, db.version, db)
  BY <1>6, <1>8, Zenon
<1>10. IF up THEN db.version =< goal ELSE goal =< db.version
  BY <1>4, <1>7
<1> QED
  BY <1>1, <1>2, <1>5, <1>9, <1>10, SchemaRunning

\* A statement executes on the way, and what is left leads on.
LEMMA SchemaStatement ==
  ASSUME SchemaInv, MigrationInv, Statement PROVE SchemaInv'
<1>1. /\ conn.pc = "run" /\ conn.left # <<>> /\ ConnTyped /\ DbTyped(db)
  BY DEF MigrationInv, Statement
<1>2. DbTyped(Seen) /\ (~conn.draft.open => Seen = db) /\ conn.up \in BOOLEAN
  BY <1>1 DEF Seen, ConnTyped, MigrationInv, OnTheWay
<1>3. PICK op, n : op = Head(conn.left) /\ n = After(op, conn.up, Seen)
  OBVIOUS
<1>4. PICK inside \in BOOLEAN : inside <=> (\/ conn.draft.open
                                          \/ (op.do = "rows" /\ Updated(conn.up, Seen.rows) # {}))
  OBVIOUS
<1>5. /\ conn' = [conn EXCEPT !.left = Tail(conn.left),
                     !.draft = IF inside THEN [open |-> TRUE, db |-> n] ELSE conn.draft]
      /\ db' = IF inside THEN db ELSE n
      /\ torn' = torn
  BY <1>3, <1>4 DEF Statement
<1>6. /\ n.dialect = Seen.dialect /\ n.version = Seen.version
      /\ Seen.dialect = "sqlite" /\ Seen.types = {} => n.types = {}
  BY <1>2, <1>3, AfterIs
<1>7. PICK left : left = Tail(conn.left)
  OBVIOUS
<1>8. /\ conn'.left = left /\ conn'.pc = "run" /\ conn'.up = conn.up
      /\ conn'.draft = (IF inside THEN [open |-> TRUE, db |-> n] ELSE conn.draft)
  BY <1>1, <1>5, <1>7 DEF ConnTyped
<1>9. Seen' = n
  <2>1. CASE inside
    BY <1>8, <2>1 DEF Seen
  <2>2. CASE ~inside
    <3>1. conn'.draft = conn.draft /\ ~conn.draft.open /\ db' = n
      BY <1>4, <1>5, <1>8, <2>2
    <3> QED
      BY <3>1 DEF Seen
  <2> QED
    BY <2>1, <2>2
<1>10. Fits(n) /\ n.dialect = db.dialect
  BY <1>6 DEF SchemaInv, Fits
<1>11. Fits(db') /\ db'.dialect = db.dialect
  BY <1>5, <1>10 DEF SchemaInv, Fits
<1>12. db.dialect = "postgresql" => inside /\ db' = db /\ conn'.draft.open
  BY <1>1, <1>4, <1>5, <1>8 DEF SchemaInv
<1>13. ASSUME ~torn PROVE OnCourse'
  <2>1. PICK a, b, dialect : /\ a = Schema(Seen.tables, Seen.types) /\ dialect = db.dialect
                             /\ b = SchemaOf(db.dialect, Target(conn.up, Seen.version))
    OBVIOUS
  <2>2. Leads(conn.left, dialect, a, b)
    BY <1>1, <1>13, <2>1 DEF SchemaInv, OnCourse
  <2>3. PICK m : Does(op, dialect, a, m) /\ Leads(left, dialect, m, b)
    BY <1>1, <1>3, <1>7, <2>2, LeadsTail
  <2>4. HasSchema(Seen, a) /\ Seen.dialect = dialect
    BY <1>2, <2>1 DEF HasSchema, Schema, DbTyped, SchemaInv
  <2>5. HasSchema(n, m)
    BY <1>2, <1>3, <2>3, <2>4 DEF Does
  <2>6. Schema(n.tables, n.types) = m
    BY <2>3, <2>5 DEF Does, IsSchema, HasSchema
  <2> QED
    BY <1>5, <1>6, <1>8, <1>9, <1>11, <2>1, <2>3, <2>6 DEF OnCourse
<1> QED
  BY <1>1, <1>5, <1>8, <1>9, <1>10, <1>11, <1>12, <1>13 DEF SchemaInv, AtRevision

\* A statement fails only in a database that a crash has torn.
LEMMA FailsTorn ==
  ASSUME SchemaInv, MigrationInv, StatementFails PROVE torn
<1> SUFFICES ASSUME ~torn PROVE FALSE
  OBVIOUS
<1>1. /\ conn.pc = "run" /\ conn.left # <<>> /\ ~Executes(Head(conn.left), Seen)
      /\ ConnTyped /\ DbTyped(db)
  BY DEF MigrationInv, StatementFails
<1>2. DbTyped(Seen)
  BY <1>1 DEF Seen, ConnTyped
<1>3. PICK a, b, dialect : /\ a = Schema(Seen.tables, Seen.types) /\ dialect = db.dialect
                           /\ b = SchemaOf(db.dialect, Target(conn.up, Seen.version))
  OBVIOUS
<1>4. Leads(conn.left, dialect, a, b)
  BY <1>1, <1>3 DEF SchemaInv, OnCourse
<1>5. PICK m : Does(Head(conn.left), dialect, a, m)
  BY <1>1, <1>4, LeadsTail
<1>6. HasSchema(Seen, a) /\ Seen.dialect = dialect
  BY <1>2, <1>3 DEF HasSchema, Schema, DbTyped, SchemaInv
<1> QED
  BY <1>1, <1>5, <1>6 DEF Does

\* A statement that fails leaves what is committed.
LEMMA SchemaFails ==
  ASSUME SchemaInv, MigrationInv, StatementFails PROVE SchemaInv'
<1>1. torn /\ db' = db /\ torn' = torn /\ conn' = Ended("broken")
  BY FailsTorn DEF StatementFails
<1>2. conn'.draft = NoDraft /\ conn'.pc # "run"
  BY <1>1, RestsAt
<1>3. Seen' = db'
  BY <1>2 DEF Seen, NoDraft
<1> QED
  BY <1>1, <1>2, <1>3 DEF SchemaInv, Fits, AtRevision

\* The revision that ends has made the schema of its number.
LEMMA RevisionFits ==
  ASSUME SchemaInv, EndRevision, ~torn
  PROVE  /\ Seen.tables = TablesAt(Target(conn.up, Seen.version))
         /\ Seen.types = TypesAt(db.dialect, Target(conn.up, Seen.version))
<1>1. OnCourse /\ conn.left = <<>>
  BY DEF SchemaInv, EndRevision
<1>2. SchemaOf(db.dialect, Target(conn.up, Seen.version)) = Schema(Seen.tables, Seen.types)
  <2>1. PICK a, b, dialect : /\ a = Schema(Seen.tables, Seen.types) /\ dialect = db.dialect
                             /\ b = SchemaOf(db.dialect, Target(conn.up, Seen.version))
    OBVIOUS
  <2>2. Leads(<<>>, dialect, a, b)
    BY <1>1, <2>1 DEF OnCourse
  <2>3. b = a
    BY <2>2, LeadsNone
  <2> QED
    BY <2>1, <2>3
<1> QED
  BY <1>2 DEF SchemaOf, Schema

\* A revision ends at its schema, and the next one begins there.
LEMMA SchemaRevision ==
  ASSUME SchemaInv, MigrationInv, EndRevision PROVE SchemaInv'
<1>1. ConnTyped /\ conn.pc = "run" /\ DbTyped(db) /\ OnTheWay(Seen, <<>>)
  BY DEF MigrationInv, EndRevision
<1>2. PICK new : new = [Seen EXCEPT !.version = IF conn.up THEN Seen.version + 1
                                                ELSE Seen.version - 1]
  OBVIOUS
<1>3. PICK commits \in BOOLEAN : commits <=> (db.dialect = "sqlite" \/ new.version = conn.goal)
  OBVIOUS
<1>4. PICK c : c = [conn EXCEPT !.draft = IF commits THEN NoDraft ELSE [open |-> TRUE, db |-> new]]
  OBVIOUS
<1>5. /\ db' = IF commits THEN new ELSE db
      /\ conn' = Running(c, conn.up, conn.goal, new.version, new)
      /\ torn' = torn
  BY <1>2, <1>3, <1>4 DEF EndRevision
<1>6. DbTyped(Seen)
  BY <1>1 DEF Seen, ConnTyped
<1>7. /\ conn.up \in BOOLEAN /\ conn.goal \in 0..7
      /\ IF conn.up THEN Seen.version < conn.goal ELSE conn.goal < Seen.version
  BY <1>1 DEF OnTheWay
<1>8. /\ new.version = Target(conn.up, Seen.version) /\ DOMAIN new = DOMAIN Seen
      /\ new.tables = Seen.tables /\ new.types = Seen.types /\ new.dialect = Seen.dialect
      /\ new.rows = Seen.rows
  BY <1>2, <1>6 DEF DbTyped, Target
<1>9. DbTyped(new) /\ IF conn.up THEN new.version =< conn.goal ELSE conn.goal =< new.version
  BY <1>6, <1>7, <1>8 DEF DbTyped, Target
<1>10. /\ {"pc", "app", "up", "goal", "before", "left", "draft"} \subseteq DOMAIN c
       /\ c.draft = IF commits THEN NoDraft ELSE [open |-> TRUE, db |-> new]
  BY <1>1, <1>4 DEF ConnTyped
<1>11. new = IF c.draft.open THEN c.draft.db ELSE db'
  BY <1>5, <1>10 DEF NoDraft
<1>12. Fits(new) /\ Fits(db') /\ new.dialect = db'.dialect /\ db'.dialect = db.dialect
  BY <1>5, <1>8 DEF SchemaInv, Fits
<1>13. ~torn => AtRevision(new)
  BY <1>8, RevisionFits DEF AtRevision, SchemaInv
<1>14. db.dialect = "postgresql" => ~torn /\ AtRevision(db)
  BY DEF SchemaInv
<1>15. db'.dialect = "postgresql" => AtRevision(db') /\ (new.version # conn.goal => c.draft.open)
  BY <1>3, <1>5, <1>10, <1>12, <1>13, <1>14
<1>16. new.version = conn.goal => new = db'
  BY <1>3, <1>5
<1>17. torn' => db'.dialect = "sqlite"
  BY <1>5, <1>12 DEF SchemaInv
<1> QED
  BY <1>5, <1>7, <1>9, <1>10, <1>11, <1>12, <1>13, <1>15, <1>16, <1>17, SchemaRunning

\* The note of the release changes no table.
LEMMA SchemaStamp ==
  ASSUME SchemaInv, MigrationInv, Stamp PROVE SchemaInv'
<1>1. /\ conn.pc = "done" /\ conn' = Ended("migrated") /\ torn' = torn /\ DbTyped(db)
      /\ db' \in {db, [db EXCEPT !.stamp = conn.app]}
  BY DEF MigrationInv, Stamp
<1>2. /\ db'.dialect = db.dialect /\ db'.tables = db.tables /\ db'.types = db.types
      /\ db'.version = db.version
  BY <1>1 DEF DbTyped
<1>3. conn'.draft = NoDraft /\ conn'.pc \notin {"run", "broken"}
  BY <1>1, RestsAt
<1>4. /\ Fits(db') /\ (torn' => db'.dialect = "sqlite")
      /\ db'.dialect = "postgresql" => AtRevision(db')
      /\ ~torn' => AtRevision(db')
  BY <1>1, <1>2 DEF SchemaInv, Fits, AtRevision
<1> QED
  BY <1>3, <1>4, SchemaRests

\* PostgreSQL forgets what was not committed; SQLite is at its revision, or torn.
LEMMA SchemaCrash ==
  ASSUME SchemaInv, MigrationInv, Crash PROVE SchemaInv'
<1>1. /\ conn' = Quiet /\ db' = db
      /\ torn' = (torn \/ db.tables # TablesAt(db.version)) /\ db.version \in 0..7
  BY DEF Crash, MigrationInv, DbTyped
<1>2. conn'.draft = NoDraft /\ conn'.pc \notin {"run", "broken"}
  BY <1>1, RestsAt
<1>3. CASE db.dialect = "postgresql"
  <2>1. AtRevision(db) /\ ~torn /\ Fits(db)
    BY <1>3 DEF SchemaInv
  <2>2. ~torn' /\ AtRevision(db') /\ Fits(db')
    BY <1>1, <2>1 DEF AtRevision
  <2> QED
    BY <1>2, <2>2, SchemaRests
<1>4. CASE db.dialect = "sqlite"
  <2>1. db.types = {} /\ Fits(db) /\ db.types = TypesAt(db.dialect, db.version)
    <3>1. TypesAt("sqlite", db.version) = {}
      BY <1>1, TypesOf
    <3> QED
      BY <1>4, <3>1 DEF SchemaInv, Fits
  <2>2. ~torn' => AtRevision(db')
    BY <1>1, <2>1 DEF AtRevision
  <2>3. Fits(db') /\ db'.dialect = "sqlite"
    BY <1>1, <1>4, <2>1
  <2> QED
    BY <1>2, <2>2, <2>3, SchemaRests
<1> QED
  BY <1>3, <1>4 DEF SchemaInv, Fits

\* A database that a release of the time has left.
LEMMA SchemaInitially == MigrationInit => SchemaInv
<1> SUFFICES ASSUME MigrationInit PROVE SchemaInv
  OBVIOUS
<1>1. PICK d \in Dialects, v \in 0..6 : \E kinds \in {{}, IF v = 0 THEN {} ELSE RowsAt(v)} :
         db = [dialect |-> d, tables |-> TablesAt(v), types |-> TypesAt(d, v),
               version |-> v, rows |-> kinds, stamp |-> IF v < 5 THEN 0 ELSE v]
  BY Zenon DEF MigrationInit
<1>2. PICK kinds, stamp :
         db = [dialect |-> d, tables |-> TablesAt(v), types |-> TypesAt(d, v),
               version |-> v, rows |-> kinds, stamp |-> stamp]
  BY <1>1, Zenon
<1>3. /\ db.dialect = d /\ db.tables = TablesAt(v) /\ db.types = TypesAt(d, v) /\ db.version = v
      /\ d \in {"postgresql", "sqlite"} /\ conn = Quiet /\ ~torn
  BY <1>2, MigrationsAssumption DEF MigrationInit
<1>4. conn.pc = "quiet" /\ conn.draft = NoDraft
  BY <1>3, RestsAt
<1>5. Seen = db
  BY <1>4 DEF Seen, NoDraft
<1>6. AtRevision(db) /\ Fits(db)
  BY <1>3, TypesOf DEF AtRevision, Fits
<1> QED
  BY <1>3, <1>4, <1>5, <1>6 DEF SchemaInv

\* The schema stays on its course with every step of the server and of its developers.
LEMMA SchemaStep ==
  ASSUME SchemaInv, MigrationInv, StartInv, [Next]_vars PROVE SchemaInv'
<1>a. ASSUME UNCHANGED <<db, conn, torn>> PROVE SchemaInv'
  BY <1>a DEF SchemaInv, OnCourse, Fits, AtRevision, Seen
<1>1. CASE Launch
  BY <1>1, SchemaBegin DEF Launch
<1>2. CASE Migrate
  BY <1>2, SchemaStatement, SchemaFails, SchemaRevision, SchemaStamp DEF Migrate
<1>3. CASE \/ Migrated \/ ImportFails \/ NotMigrated \/ EnsureUser \/ ConnectRedis
           \/ SyncBackends \/ Administer \/ UNCHANGED vars
  BY <1>3, <1>a DEF Migrated, ImportFails, NotMigrated, EnsureUser, ConnectRedis, SyncBackends,
     Administer, vars, migrationVars
<1>4. CASE Stop
  <2>1. /\ conn.pc \in {"quiet", "migrated", "refused", "broken"}
        /\ UNCHANGED <<db, torn>> /\ conn' = Quiet
    BY <1>4 DEF Stop, StartInv, PhaseInv
  <2>2. conn'.draft = NoDraft /\ conn'.pc = "quiet"
    BY <2>1, RestsAt
  <2>3. /\ Fits(db') /\ (torn' => db'.dialect = "sqlite")
        /\ db'.dialect = "postgresql" => AtRevision(db')
        /\ ~torn' => AtRevision(db')
    BY <2>1 DEF SchemaInv, Fits, AtRevision
  <2> QED
    BY <2>2, <2>3, SchemaRests
<1>5. CASE CrashMigrating
  BY <1>5, SchemaCrash DEF CrashMigrating
<1>6. CASE Developer
  BY <1>6, SchemaAlembic DEF Developer
<1> QED
  BY <1>1, <1>2, <1>3, <1>4, <1>5, <1>6 DEF Next

----------------------------------------------------------------------------
(* The names of the tables, torn or not: a table is created by a revision   *)
(* that knows it, and the assignments of backends never outlive these.      *)

Linked == {names \in SUBSET Tables :
             "user_backends" \in names => "snakedispatch_backends" \in names}
Creatable(up, v) == IF up /\ v = 4 THEN Tables ELSE Tables \ {"app_info"}

Passes(op, may, a, b) ==
  /\ b \in Linked /\ (op.do = "create" => op.table \in may)
  /\ b = IF op.do = "create" THEN a \cup {op.table}
         ELSE IF op.do = "remove" THEN a \ {op.table} ELSE a

\* Statements that take the names of the tables from a to b.
Goes(ops, may, a, b) ==
  /\ IsSequence(ops)
  /\ \E s : /\ s[0] = a /\ s[Len(ops)] = b
            /\ \A k \in 1..Len(ops) : Passes(ops[k], may, s[k - 1], s[k])

\* No statement changes no name.
LEMMA GoesNone ==
  ASSUME NEW may, NEW a
  PROVE  Goes(<<>>, may, a, a) /\ \A b : Goes(<<>>, may, a, b) => b = a
<1>1. IsSequence(<<>>) /\ Len(<<>>) = 0
  BY OpsKeep DEF Keeps
<1>2. PICK s : s = [k \in {0} |-> a]
  OBVIOUS
<1>3. s[0] = a
  BY <1>2
<1> QED
  BY <1>1, <1>3 DEF Goes

\* One statement takes the names where it does.
LEMMA GoesOne ==
  ASSUME NEW op, NEW may, NEW a, NEW b, Passes(op, may, a, b)
  PROVE  Goes(<<op>>, may, a, b)
<1>1. PICK ops : ops = <<op>>
  OBVIOUS
<1>2. IsSequence(ops) /\ Len(ops) = 1 /\ ops[1] = op
  <2>1. ops \in Seq({op})
    BY <1>1
  <2> QED
    BY <1>1, <2>1 DEF IsSequence
<1>3. PICK s : s = [k \in {0, 1} |-> IF k = 0 THEN a ELSE b]
  OBVIOUS
<1>4. s[0] = a /\ s[1] = b
  BY <1>3
<1>5. \A k \in 1..Len(ops) : k = 1 /\ k - 1 = 0
  BY <1>2
<1>6. \A k \in 1..Len(ops) : Passes(ops[k], may, s[k - 1], s[k])
  BY <1>2, <1>4, <1>5
<1>7. Goes(ops, may, a, b)
  BY <1>2, <1>4, <1>6 DEF Goes
<1> QED
  BY <1>1, <1>7

\* Two lists take the names from the first to the last.
LEMMA GoesJoined ==
  ASSUME NEW s, NEW t, NEW may, NEW a, NEW b, NEW c,
         Goes(s, may, a, b), Goes(t, may, b, c)
  PROVE  Goes(s \o t, may, a, c)
<1>1. PICK f : /\ f[0] = a /\ f[Len(s)] = b
               /\ \A k \in 1..Len(s) : Passes(s[k], may, f[k - 1], f[k])
  BY DEF Goes
<1>2. PICK g : /\ g[0] = b /\ g[Len(t)] = c
               /\ \A k \in 1..Len(t) : Passes(t[k], may, g[k - 1], g[k])
  BY DEF Goes
<1>3. PICK u : u = s \o t
  OBVIOUS
<1>4. PICK m, n : m = Len(s) /\ n = Len(t)
  OBVIOUS
<1>5. /\ IsSequence(u) /\ m \in Nat /\ n \in Nat /\ Len(u) = m + n
      /\ \A i \in 1..Len(u) : u[i] = IF i =< m THEN s[i] ELSE t[i - m]
  <2>1. IsSequence(s) /\ IsSequence(t)
    BY DEF Goes
  <2> QED
    BY <1>3, <1>4, <2>1, JoinedOps
<1>6. PICK h : h = [k \in 0..(m + n) |-> IF k =< m THEN f[k] ELSE g[k - m]]
  OBVIOUS
<1>7. \A k \in 0..(m + n) : h[k] = IF k =< m THEN f[k] ELSE g[k - m]
  BY <1>6
<1>8. h[0] = a /\ h[m + n] = c
  <2>1. 0 \in 0..(m + n) /\ m + n \in 0..(m + n) /\ (m + n =< m => n = 0) /\ (m + n) - m = n
    BY <1>5
  <2> QED
    BY <1>1, <1>2, <1>4, <1>5, <1>7, <2>1
<1>9. ASSUME NEW k \in 1..(m + n) PROVE Passes(u[k], may, h[k - 1], h[k])
  <2>1. k \in 0..(m + n) /\ k - 1 \in 0..(m + n) /\ k \in 1..Len(u)
    BY <1>5
  <2>2. CASE k =< m
    <3>1. k \in 1..m /\ k - 1 =< m
      BY <1>5, <2>2
    <3>2. u[k] = s[k] /\ h[k] = f[k] /\ h[k - 1] = f[k - 1]
      BY <1>5, <1>7, <2>1, <2>2, <3>1
    <3> QED
      BY <1>1, <1>4, <3>1, <3>2
  <2>3. CASE ~(k =< m)
    <3>1. k - m \in 1..n /\ (k - 1) - m = (k - m) - 1
      BY <1>5, <2>3
    <3>2. u[k] = t[k - m] /\ h[k] = g[k - m]
      BY <1>5, <1>7, <2>1, <2>3
    <3>3. h[k - 1] = g[(k - m) - 1]
      <4>1. CASE k - 1 =< m
        <5>1. k - 1 = m /\ (k - m) - 1 = 0
          BY <1>5, <2>3, <4>1
        <5> QED
          BY <1>1, <1>2, <1>4, <1>7, <2>1, <4>1, <5>1
      <4>2. CASE ~(k - 1 =< m)
        BY <1>7, <2>1, <3>1, <4>2
      <4> QED
        BY <4>1, <4>2
    <3> QED
      BY <1>2, <1>4, <3>1, <3>2, <3>3
  <2> QED
    BY <2>2, <2>3
<1>10. Goes(u, may, a, c)
  BY <1>5, <1>8, <1>9 DEF Goes
<1> QED
  BY <1>3, <1>10

\* The first statement of a list, and the others.
LEMMA GoesTail ==
  ASSUME NEW ops, NEW may, NEW a, NEW b, Goes(ops, may, a, b), ops # <<>>
  PROVE  \E m : Passes(Head(ops), may, a, m) /\ Goes(Tail(ops), may, m, b)
<1>1. PICK s : /\ s[0] = a /\ s[Len(ops)] = b
               /\ \A k \in 1..Len(ops) : Passes(ops[k], may, s[k - 1], s[k])
  BY DEF Goes
<1>2. PICK S : ops \in Seq(S)
  BY DEF Goes, IsSequence
<1>3. PICK t, n : t = Tail(ops) /\ n = Len(ops)
  OBVIOUS
<1>4. /\ n \in Nat /\ n >= 1 /\ Head(ops) = ops[1] /\ t \in Seq(S)
      /\ Len(t) = n - 1 /\ \A i \in 1..(n - 1) : t[i] = ops[i + 1]
  BY <1>2, <1>3, HeadTailProperties, LenProperties
<1>5. Passes(Head(ops), may, a, s[1])
  <2>1. 1 \in 1..n /\ 1 - 1 = 0
    BY <1>4
  <2> QED
    BY <1>1, <1>3, <1>4, <2>1
<1>6. PICK r : r = [k \in 0..(n - 1) |-> s[k + 1]]
  OBVIOUS
<1>7. r[0] = s[1] /\ r[Len(t)] = b
  <2>1. 0 \in 0..(n - 1) /\ n - 1 \in 0..(n - 1) /\ (n - 1) + 1 = n /\ 0 + 1 = 1
    BY <1>4
  <2> QED
    BY <1>1, <1>3, <1>4, <1>6, <2>1
<1>8. ASSUME NEW k \in 1..Len(t) PROVE Passes(t[k], may, r[k - 1], r[k])
  <2>1. /\ k \in 1..(n - 1) /\ k \in 0..(n - 1) /\ k - 1 \in 0..(n - 1) /\ k + 1 \in 1..n
        /\ (k - 1) + 1 = k /\ (k + 1) - 1 = k
    BY <1>4
  <2>2. t[k] = ops[k + 1] /\ r[k] = s[k + 1] /\ r[k - 1] = s[k]
    BY <1>4, <1>6, <2>1
  <2> QED
    BY <1>1, <1>3, <2>1, <2>2
<1>9. Goes(t, may, s[1], b)
  BY <1>4, <1>7, <1>8 DEF Goes, IsSequence
<1> QED
  BY <1>3, <1>5, <1>9

\* What each operation of a revision does to the names.
LEMMA GoesAlong ==
  ASSUME NEW may, NEW a \in Linked
  PROVE  /\ Goes(<<>>, may, a, a)
         /\ \A t, column : Goes(Index(t, column), may, a, a)
         /\ \A t, column : Goes(DropIndex(t, column), may, a, a)
         /\ \A t, column, types : Goes(AddRequired(t, column, types), may, a, a)
         /\ \A t, column : Goes(AddOptional(t, column), may, a, a)
         /\ \A t, column : Goes(DropColumn(t, column), may, a, a)
         /\ \A t, column, new : Goes(RenameColumn(t, column, new), may, a, a)
         /\ \A old, new : Goes(RenameType(old, new), may, a, a)
         /\ \A types : Goes(DropTypes(types), may, a, a)
         /\ Goes(RewriteRows, may, a, a)
<1>1. ASSUME NEW do, NEW table, NEW arg, NEW arg2, do \notin {"create", "remove"}
      PROVE  Goes(<<Op(do, table, arg, arg2)>>, may, a, a)
  <2>1. PICK op : op = Op(do, table, arg, arg2)
    OBVIOUS
  <2>2. op.do = do
    BY <2>1 DEF Op
  <2>3. Passes(op, may, a, a)
    BY <1>1, <2>2 DEF Passes
  <2> QED
    BY <2>1, <2>3, GoesOne
<1>2. ASSUME NEW t, NEW column, NEW x
      PROVE  /\ Goes(Index(t, column), may, a, a) /\ Goes(DropIndex(t, column), may, a, a)
             /\ Goes(AddRequired(t, column, x), may, a, a)
             /\ Goes(AddOptional(t, column), may, a, a) /\ Goes(DropColumn(t, column), may, a, a)
             /\ Goes(RenameColumn(t, column, x), may, a, a)
  BY <1>1 DEF Index, DropIndex, AddRequired, AddOptional, DropColumn, RenameColumn
<1>3. ASSUME NEW x, NEW y
      PROVE  /\ Goes(RenameType(x, y), may, a, a) /\ Goes(DropTypes(x), may, a, a)
             /\ Goes(RewriteRows, may, a, a)
  BY <1>1 DEF RenameType, DropTypes, RewriteRows
<1> QED
  BY <1>2, <1>3, GoesNone

\* CREATE TABLE adds a name.
LEMMA GoesCreate ==
  ASSUME NEW may, NEW a, NEW t \in may, a \cup {t} \in Linked,
         NEW required, NEW optional, NEW types
  PROVE  Goes(Create(t, required, optional, types), may, a, a \cup {t})
<1>1. PICK op : op = Op("create", t, Tbl(required, optional, {}), types)
  OBVIOUS
<1>2. op.do = "create" /\ op.table = t
  BY <1>1 DEF Op
<1>3. PICK b : b = a \cup {t}
  OBVIOUS
<1>4. Passes(op, may, a, b)
  BY <1>2, <1>3 DEF Passes
<1>5. Goes(<<op>>, may, a, b)
  BY <1>4, GoesOne
<1> QED
  BY <1>1, <1>3, <1>5 DEF Create

\* DROP TABLE takes one away.
LEMMA GoesDrop ==
  ASSUME NEW may, NEW a, NEW t, a \ {t} \in Linked
  PROVE  Goes(DropTable(t), may, a, a \ {t})
<1>1. PICK op : op = Op("remove", t, "", {})
  OBVIOUS
<1>2. op.do = "remove" /\ op.table = t
  BY <1>1 DEF Op
<1>3. PICK b : b = a \ {t}
  OBVIOUS
<1>4. Passes(op, may, a, b)
  BY <1>2, <1>3 DEF Passes
<1>5. Goes(<<op>>, may, a, b)
  BY <1>4, GoesOne
<1> QED
  BY <1>1, <1>3, <1>5 DEF DropTable

\* The tables of 0001, created or there.
LEMMA GoesMade ==
  ASSUME NEW may, NEW a, Tables \ {"app_info"} \subseteq may
  PROVE  /\ a \cup {"snakedispatch_backends"} \in Linked =>
               Goes(CreateBackends, may, a, a \cup {"snakedispatch_backends"})
         /\ a \cup {"users"} \in Linked =>
               Goes(CreateUsers, may, a, a \cup {"users"})
         /\ a \cup {"user_oauth_providers"} \in Linked =>
               Goes(CreateLinks, may, a, a \cup {"user_oauth_providers"})
         /\ a \cup {"api_keys"} \in Linked =>
               Goes(CreateKeys, may, a, a \cup {"api_keys"})
         /\ a \cup {"user_backends"} \in Linked =>
               Goes(CreateAssigned, may, a, a \cup {"user_backends"})
         /\ a \cup {"runs"} \in Linked =>
               Goes(CreateRuns, may, a, a \cup {"runs"})
         /\ a \cup {"networks"} \in Linked =>
               Goes(CreateNetworks, may, a, a \cup {"networks"})
<1>1. \A t \in {"snakedispatch_backends", "users", "user_oauth_providers", "api_keys",
              "user_backends", "runs", "networks"} : t \in may
  BY TableNames
<1>2. ASSUME a \cup {"snakedispatch_backends"} \in Linked
      PROVE  Goes(CreateBackends, may, a, a \cup {"snakedispatch_backends"})
  <2>1. PICK b : b = a \cup {"snakedispatch_backends"}
    OBVIOUS
  <2>2. \A r, o, y : Goes(Create("snakedispatch_backends", r, o, y), may, a, b)
    BY <1>1, <1>2, <2>1, GoesCreate
  <2>3. b \in Linked
    BY <1>2, <2>1
  <2> QED
    BY <2>1, <2>2, <2>3, GoesAlong, GoesJoined DEF CreateBackends
<1>3. ASSUME a \cup {"users"} \in Linked
      PROVE  Goes(CreateUsers, may, a, a \cup {"users"})
  <2>1. PICK b : b = a \cup {"users"}
    OBVIOUS
  <2>2. \A r, o, y : Goes(Create("users", r, o, y), may, a, b)
    BY <1>1, <1>3, <2>1, GoesCreate
  <2>3. b \in Linked
    BY <1>3, <2>1
  <2> QED
    BY <2>1, <2>2, <2>3, GoesAlong, GoesJoined DEF CreateUsers
<1>4. ASSUME a \cup {"user_oauth_providers"} \in Linked
      PROVE  Goes(CreateLinks, may, a, a \cup {"user_oauth_providers"})
  <2>1. PICK b : b = a \cup {"user_oauth_providers"}
    OBVIOUS
  <2>2. \A r, o, y : Goes(Create("user_oauth_providers", r, o, y), may, a, b)
    BY <1>1, <1>4, <2>1, GoesCreate
  <2>3. b \in Linked
    BY <1>4, <2>1
  <2> QED
    BY <2>1, <2>2, <2>3, GoesAlong, GoesJoined DEF CreateLinks
<1>5. ASSUME a \cup {"api_keys"} \in Linked
      PROVE  Goes(CreateKeys, may, a, a \cup {"api_keys"})
  <2>1. PICK b : b = a \cup {"api_keys"}
    OBVIOUS
  <2>2. \A r, o, y : Goes(Create("api_keys", r, o, y), may, a, b)
    BY <1>1, <1>5, <2>1, GoesCreate
  <2>3. b \in Linked
    BY <1>5, <2>1
  <2> QED
    BY <2>1, <2>2, <2>3, GoesAlong, GoesJoined DEF CreateKeys
<1>6. ASSUME a \cup {"user_backends"} \in Linked
      PROVE  Goes(CreateAssigned, may, a, a \cup {"user_backends"})
  <2>1. PICK b : b = a \cup {"user_backends"}
    OBVIOUS
  <2>2. \A r, o, y : Goes(Create("user_backends", r, o, y), may, a, b)
    BY <1>1, <1>6, <2>1, GoesCreate
  <2>3. b \in Linked
    BY <1>6, <2>1
  <2> QED
    BY <2>1, <2>2, <2>3, GoesAlong, GoesJoined DEF CreateAssigned
<1>7. ASSUME a \cup {"runs"} \in Linked
      PROVE  Goes(CreateRuns, may, a, a \cup {"runs"})
  <2>1. PICK b : b = a \cup {"runs"}
    OBVIOUS
  <2>2. \A r, o, y : Goes(Create("runs", r, o, y), may, a, b)
    BY <1>1, <1>7, <2>1, GoesCreate
  <2>3. b \in Linked
    BY <1>7, <2>1
  <2> QED
    BY <2>1, <2>2, <2>3, GoesAlong, GoesJoined DEF CreateRuns
<1>8. ASSUME a \cup {"networks"} \in Linked
      PROVE  Goes(CreateNetworks, may, a, a \cup {"networks"})
  <2>1. PICK b : b = a \cup {"networks"}
    OBVIOUS
  <2>2. \A r, o, y : Goes(Create("networks", r, o, y), may, a, b)
    BY <1>1, <1>8, <2>1, GoesCreate
  <2>3. b \in Linked
    BY <1>8, <2>1
  <2> QED
    BY <2>1, <2>2, <2>3, GoesAlong, GoesJoined DEF CreateNetworks
<1> QED
  BY <1>2, <1>3, <1>4, <1>5, <1>6, <1>7, <1>8

\* A table of 0001 is made unless it was there; then its name is there anyway.
LEMMA GoesUnless ==
  ASSUME NEW may, NEW a \in Linked, NEW t, NEW ops, NEW present, present \subseteq a,
         Goes(ops, may, a, a \cup {t})
  PROVE  Goes(Unless(t, ops, present), may, a, a \cup {t})
<1>1. CASE t \in present
  <2>1. a \cup {t} = a
    BY <1>1
  <2>2. Unless(t, ops, present) = <<>>
    BY <1>1 DEF Unless
  <2>3. Goes(<<>>, may, a, a)
    BY GoesNone
  <2> QED
    BY <2>1, <2>2, <2>3
<1>2. CASE t \notin present
  BY <1>2 DEF Unless
<1> QED
  BY <1>1, <1>2

\* 0001 makes what is missing, in an order that its foreign keys allow.
LEMMA GoesUp1 ==
  ASSUME NEW may, Tables \ {"app_info"} \subseteq may, NEW present \in Linked
  PROVE  \E b : Goes(Up1(present), may, present, b)
<1>1. PICK a1, a2, a3, a4, a5, a6, a7 :
         /\ a1 = present \cup {"snakedispatch_backends"}
         /\ a2 = a1 \cup {"users"}
         /\ a3 = a2 \cup {"user_oauth_providers"}
         /\ a4 = a3 \cup {"api_keys"}
         /\ a5 = a4 \cup {"user_backends"}
         /\ a6 = a5 \cup {"runs"}
         /\ a7 = a6 \cup {"networks"}
  OBVIOUS
<1>2. /\ {a1, a2, a3, a4, a5, a6, a7} \subseteq Linked
      /\ present \subseteq a1 /\ present \subseteq a2 /\ present \subseteq a3
      /\ present \subseteq a4
      /\ present \subseteq a5 /\ present \subseteq a6 /\ present \subseteq a7
  BY <1>1, TableNames DEF Linked
<1>3. Goes(Unless("snakedispatch_backends", CreateBackends, present), may, present, a1)
  BY <1>1, <1>2, GoesMade, GoesUnless
<1>4. Goes(Unless("users", CreateUsers, present), may, a1, a2)
  BY <1>1, <1>2, GoesMade, GoesUnless
<1>5. Goes(Unless("user_oauth_providers", CreateLinks, present), may, a2, a3)
  BY <1>1, <1>2, GoesMade, GoesUnless
<1>6. Goes(Unless("api_keys", CreateKeys, present), may, a3, a4)
  BY <1>1, <1>2, GoesMade, GoesUnless
<1>7. Goes(Unless("user_backends", CreateAssigned, present), may, a4, a5)
  BY <1>1, <1>2, GoesMade, GoesUnless
<1>8. Goes(Unless("runs", CreateRuns, present), may, a5, a6)
  BY <1>1, <1>2, GoesMade, GoesUnless
<1>9. Goes(Unless("networks", CreateNetworks, present), may, a6, a7)
  BY <1>1, <1>2, GoesMade, GoesUnless
<1>10. Goes(Up1(present), may, present, a7)
  BY <1>3, <1>4, <1>5, <1>6, <1>7, <1>8, <1>9, GoesJoined DEF Up1
<1> QED
  BY <1>10

\* Its downgrade drops all, in an order that they allow.
LEMMA GoesDown1 ==
  ASSUME NEW may, NEW present \in Linked
  PROVE  \E b : Goes(Down1, may, present, b)
<1>1. PICK a1, a2, a3, a4, a5, a6, a7 :
         /\ a1 = present \ {"networks"}
         /\ a2 = a1 \ {"runs"}
         /\ a3 = a2 \ {"user_backends"}
         /\ a4 = a3 \ {"api_keys"}
         /\ a5 = a4 \ {"user_oauth_providers"}
         /\ a6 = a5 \ {"users"}
         /\ a7 = a6 \ {"snakedispatch_backends"}
  OBVIOUS
<1>2. {a1, a2, a3, a4, a5, a6, a7} \subseteq Linked
  BY <1>1 DEF Linked
<1>3. Goes(DropTable("networks"), may, present, a1)
  BY <1>1, <1>2, GoesDrop
<1>4. Goes(DropTable("runs"), may, a1, a2)
  BY <1>1, <1>2, GoesDrop
<1>5. Goes(DropTable("user_backends"), may, a2, a3)
  BY <1>1, <1>2, GoesDrop
<1>6. Goes(DropTable("api_keys"), may, a3, a4)
  BY <1>1, <1>2, GoesDrop
<1>7. Goes(DropTable("user_oauth_providers"), may, a4, a5)
  BY <1>1, <1>2, GoesDrop
<1>8. Goes(DropTable("users"), may, a5, a6)
  BY <1>1, <1>2, GoesDrop
<1>9. Goes(DropTable("snakedispatch_backends"), may, a6, a7)
  BY <1>1, <1>2, GoesDrop
<1>10. Goes(DropTypes({"network_visibility", "run_status", "user_role"}), may, a7, a7)
  BY <1>2, GoesAlong
<1>11. Goes(Down1, may, present, a7)
  BY <1>3, <1>4, <1>5, <1>6, <1>7, <1>8, <1>9, <1>10, GoesJoined DEF Down1
<1> QED
  BY <1>11

\* The other revisions keep the names, except 0005.
LEMMA GoesOthers ==
  ASSUME NEW may, NEW a \in Linked
  PROVE  /\ \A ops \in {Up2, Up3, Up4, Up6, Up7, Down2, Down3, Down4, Down6, Down7} :
              Goes(ops, may, a, a)
         /\ "app_info" \in may => Goes(Up5, may, a, a \cup {"app_info"})
         /\ Goes(Down5, may, a, a \ {"app_info"})
<1>1. Goes(Up2, may, a, a) /\ Goes(Down2, may, a, a)
  BY GoesAlong, GoesJoined DEF Up2, Down2
<1>2. Goes(Up3, may, a, a) /\ Goes(Down3, may, a, a)
  BY GoesAlong, GoesJoined DEF Up3, Down3
<1>3. /\ Goes(Up4, may, a, a) /\ Goes(Down4, may, a, a) /\ Goes(Up6, may, a, a)
      /\ Goes(Down6, may, a, a) /\ Goes(Up7, may, a, a) /\ Goes(Down7, may, a, a)
  BY GoesAlong DEF Up4, Down4, Up6, Down6, Up7, Down7
<1>4. a \cup {"app_info"} \in Linked /\ a \ {"app_info"} \in Linked
  BY TableNames DEF Linked
<1>5. ASSUME "app_info" \in may PROVE Goes(Up5, may, a, a \cup {"app_info"})
  BY <1>4, <1>5, GoesCreate DEF Up5
<1>6. Goes(Down5, may, a, a \ {"app_info"})
  BY <1>4, GoesDrop DEF Down5
<1> QED
  BY <1>1, <1>2, <1>3, <1>5, <1>6

\* Every revision takes the names on, from whatever names a torn one has left.
LEMMA TodoGoes ==
  ASSUME NEW up \in BOOLEAN, NEW v \in 0..7, Target(up, v) \in 0..7, NEW d,
         DOMAIN d.tables \in Linked
  PROVE  \E b : Goes(Todo(up, NextRevision(up, v), d), Creatable(up, v), DOMAIN d.tables, b)
<1>1. PICK n, may, names : /\ n = NextRevision(up, v) /\ may = Creatable(up, v)
                           /\ names = DOMAIN d.tables
  OBVIOUS
<1>2. PICK ops : ops = Todo(up, n, d)
  OBVIOUS
<1>3. n \in {1, 2, 3, 4, 5, 6, 7} /\ n # 0 /\ v = (IF up THEN n - 1 ELSE n)
  BY <1>1 DEF NextRevision, Target
<1>4. names \in Linked /\ Tables \ {"app_info"} \subseteq may /\ "app_info" \in Tables
  BY <1>1, TableNames DEF Creatable
<1>5. \E b : Goes(ops, may, names, b)
  <2>1. CASE up /\ n = 1
    <3>1. ops = Up1(DOMAIN d.tables)
      BY <1>2, <2>1 DEF Todo
    <3>2. \E b : Goes(Up1(names), may, names, b)
      BY <1>4, GoesUp1
    <3> QED
      BY <1>1, <3>1, <3>2
  <2>2. CASE up /\ n # 1
    <3>1. ops = Up[n]
      BY <1>2, <1>3, <2>2 DEF Todo
    <3>2. Up[2] = Up2 /\ Up[3] = Up3 /\ Up[4] = Up4 /\ Up[5] = Up5 /\ Up[6] = Up6 /\ Up[7] = Up7
      BY DEF Up
    <3>3. n = 5 => "app_info" \in may
      <4>1. n = 5 => v = 4
        BY <1>3, <2>2
      <4> QED
        BY <1>1, <1>4, <2>2, <4>1 DEF Creatable
    <3> QED
      BY <1>3, <1>4, <2>2, <3>1, <3>2, <3>3, GoesOthers
  <2>3. CASE ~up
    <3>1. ops = Down[n]
      BY <1>2, <1>3, <2>3 DEF Todo
    <3>2. /\ Down[1] = Down1 /\ Down[2] = Down2 /\ Down[3] = Down3 /\ Down[4] = Down4
          /\ Down[5] = Down5 /\ Down[6] = Down6 /\ Down[7] = Down7
      BY DEF Down
    <3>3. n = 1 => ops = Down1
      BY <3>1, <3>2
    <3>4. n # 1 => \E b : Goes(ops, may, names, b)
      BY <1>3, <1>4, <3>1, <3>2, GoesOthers
    <3> QED
      BY <1>4, <3>3, <3>4, GoesDown1
  <2> QED
    BY <2>1, <2>2, <2>3
<1> QED
  BY <1>1, <1>2, <1>5

----------------------------------------------------------------------------
(* What each action makes of what the migration sees.                      *)

Fields == {"pc", "app", "up", "goal", "before", "left", "draft"}

\* A revision that begins, or an upgrade that is at its goal.
RunsOn(app, up, before, d) ==
  /\ Seen' = d /\ conn'.pc \in {"run", "done"} /\ conn'.app = app /\ conn'.up = up
  /\ conn'.before = before
  /\ conn'.pc = "run" => /\ conn'.left = Todo(up, NextRevision(up, d.version), d)
                         /\ Target(up, d.version) \in 0..7

\* A migration that begins, or is at its goal, sees the database it was given.
LEMMA RunningSees ==
  ASSUME NEW c, Fields \subseteq DOMAIN c, NEW up \in BOOLEAN, NEW goal \in 0..7,
         NEW d, DbTyped(d), d = IF c.draft.open THEN c.draft.db ELSE db',
         conn' = Running(c, up, goal, d.version, d),
         IF up THEN d.version =< goal ELSE goal =< d.version
  PROVE  RunsOn(c.app, up, c.before, d)
<1>1. /\ conn'.draft = c.draft /\ conn'.up = up /\ conn'.app = c.app /\ conn'.before = c.before
      /\ conn'.pc = IF d.version = goal THEN "done" ELSE "run"
      /\ d.version # goal => conn'.left = Todo(up, NextRevision(up, d.version), d)
  BY DEF Running, DbTyped, Fields
<1>2. Seen' = d
  BY <1>1 DEF Seen
<1>3. d.version # goal => Target(up, d.version) \in 0..7
  BY DEF DbTyped, Target
<1> QED
  BY <1>1, <1>2, <1>3 DEF RunsOn

\* A start that is not refused upgrades from the revision it has found.
LEMMA BeginSees ==
  ASSUME MigrationInv, NEW app \in Releases, Begin(app)
  PROVE  /\ UNCHANGED <<db, torn, moved, late>> /\ app \in {6, 7} /\ conn.pc = "quiet"
         /\ \/ conn'.pc = "refused" /\ conn'.draft = NoDraft /\ conn'.app = app
            \/ RunsOn(app, TRUE, db.version, db)
<1>1. app \in {6, 7} /\ UNCHANGED <<db, torn, moved, late>> /\ DbTyped(db) /\ conn.pc = "quiet"
  BY MigrationsAssumption DEF Begin, MigrationInv
<1>2. CASE ~Knows(app, db.version)
  <2>1. conn' = [Quiet EXCEPT !.pc = "refused", !.app = app]
    BY <1>2 DEF Begin
  <2>2. conn'.pc = "refused" /\ conn'.draft = NoDraft /\ conn'.app = app
    BY <2>1, QuietIsTyped
  <2> QED
    BY <1>1, <2>2
<1>3. CASE Knows(app, db.version)
  <2>1. PICK c : c = [Quiet EXCEPT !.app = app, !.before = db.version, !.draft = Draft]
    OBVIOUS
  <2>2. conn' = Running(c, TRUE, app, db.version, db)
    BY <1>3, <2>1 DEF Begin
  <2>3. Fields \subseteq DOMAIN c /\ c.draft = Draft /\ c.app = app /\ c.before = db.version
    BY <2>1, QuietIsTyped DEF Fields
  <2>4. db = IF c.draft.open THEN c.draft.db ELSE db'
    BY <1>1, <2>3 DEF Draft, NoDraft
  <2>5. app \in 0..7 /\ db.version =< app
    BY <1>1, <1>3 DEF Knows
  <2>6. RunsOn(app, TRUE, db.version, db)
    BY <1>1, <2>2, <2>3, <2>4, <2>5, RunningSees
  <2> QED
    BY <1>1, <2>6
<1> QED
  BY <1>2, <1>3

\* A command of a developer goes up or down from the revision it finds.
LEMMA AlembicSees ==
  ASSUME MigrationInv, NEW goal \in 0..6, Alembic(goal)
  PROVE  /\ UNCHANGED <<db, torn, moved, late>> /\ conn.pc = "quiet"
         /\ \E before : \E up \in BOOLEAN : RunsOn(0, up, before, db)
<1>1. goal \in 0..7 /\ UNCHANGED <<db, torn, moved, late>> /\ DbTyped(db) /\ conn.pc = "quiet"
  BY DEF Alembic, MigrationInv
<1>2. PICK c : c = [Quiet EXCEPT !.draft = Draft]
  OBVIOUS
<1>3. PICK up \in BOOLEAN : up <=> goal > db.version
  OBVIOUS
<1>4. Fields \subseteq DOMAIN c /\ c.draft = Draft /\ c.app = 0
  BY <1>2, QuietIsTyped DEF Fields
<1>5. conn' = Running(c, goal > db.version, goal, db.version, db)
  BY <1>2 DEF Alembic
<1>6. goal \in 0..7 /\ db.version \in 0..7
  BY <1>1 DEF DbTyped
<1>7. (goal > db.version) = up
  BY <1>3, <1>6, SMT
<1>8. conn' = Running(c, up, goal, db.version, db)
  BY <1>5, <1>7, Zenon
<1>9. db = IF c.draft.open THEN c.draft.db ELSE db'
  BY <1>1, <1>4 DEF Draft, NoDraft
<1>10. IF up THEN db.version =< goal ELSE goal =< db.version
  BY <1>3, <1>6
<1>11. RunsOn(0, up, c.before, db)
  BY <1>1, <1>4, <1>8, <1>9, <1>10, RunningSees
<1> QED
  BY <1>1, <1>11

\* A statement changes what the migration sees, and commits it outside a transaction.
LEMMA StatementSees ==
  ASSUME MigrationInv, Statement, NEW n, n = After(Head(conn.left), conn.up, Seen)
  PROVE  /\ conn.pc = "run" /\ conn.left # <<>> /\ DbTyped(Seen) /\ Seen' = n /\ db' \in {db, n}
         /\ Executes(Head(conn.left), Seen) /\ (db' = db \/ (Seen = db /\ db' = n))
         /\ conn'.pc = "run" /\ conn'.left = Tail(conn.left) /\ conn'.up = conn.up
         /\ conn'.app = conn.app /\ conn'.before = conn.before
         /\ UNCHANGED <<torn, moved, late>>
<1>1. /\ conn.pc = "run" /\ conn.left # <<>> /\ ConnTyped /\ DbTyped(db)
      /\ UNCHANGED <<torn, moved, late>> /\ Executes(Head(conn.left), Seen)
  BY DEF MigrationInv, Statement
<1>2. DbTyped(Seen)
  BY <1>1 DEF Seen, ConnTyped
<1>3. PICK inside \in BOOLEAN :
        inside <=> (\/ conn.draft.open
                    \/ (Head(conn.left).do = "rows" /\ Updated(conn.up, Seen.rows) # {}))
  OBVIOUS
<1>4. /\ conn' = [conn EXCEPT !.left = Tail(conn.left),
                     !.draft = IF inside THEN [open |-> TRUE, db |-> n] ELSE conn.draft]
      /\ db' = IF inside THEN db ELSE n
  BY <1>3 DEF Statement
<1>5. PICK left : left = Tail(conn.left)
  OBVIOUS
<1>6. /\ conn'.left = left /\ conn'.pc = "run" /\ conn'.up = conn.up /\ conn'.app = conn.app
      /\ conn'.before = conn.before
      /\ conn'.draft = (IF inside THEN [open |-> TRUE, db |-> n] ELSE conn.draft)
  BY <1>1, <1>4, <1>5 DEF ConnTyped
<1>7. Seen' = n
  <2>1. CASE inside
    BY <1>6, <2>1 DEF Seen
  <2>2. CASE ~inside
    <3>1. conn'.draft = conn.draft /\ ~conn.draft.open /\ db' = n
      BY <1>3, <1>4, <1>6, <2>2
    <3> QED
      BY <3>1 DEF Seen
  <2> QED
    BY <2>1, <2>2
<1>8. db' = db \/ (Seen = db /\ db' = n)
  BY <1>3, <1>4 DEF Seen
<1> QED
  BY <1>1, <1>2, <1>4, <1>5, <1>6, <1>7, <1>8

\* A revision that ends is committed, or waits for the ones that follow.
EndsIn(new, commits) ==
  /\ DbTyped(Seen) /\ DbTyped(new) /\ conn.up \in BOOLEAN /\ conn.pc = "run"
  /\ new.version = Target(conn.up, Seen.version) /\ new.tables = Seen.tables
  /\ new.stamp = Seen.stamp
  /\ db' = (IF commits THEN new ELSE db)
  /\ RunsOn(conn.app, conn.up, conn.before, new)
  /\ moved' = (IF commits /\ conn.app # 0 THEN conn.app
               ELSE IF commits /\ new.version < 5 THEN 0 ELSE moved)
  /\ UNCHANGED <<torn, late>>

\* A revision that ends is one of these.
LEMMA RevisionSees ==
  ASSUME MigrationInv, EndRevision PROVE \E new : \E commits \in BOOLEAN : EndsIn(new, commits)
<1>1. ConnTyped /\ conn.pc = "run" /\ DbTyped(db) /\ OnTheWay(Seen, <<>>)
  BY DEF MigrationInv, EndRevision
<1>2. PICK new : new = [Seen EXCEPT !.version = IF conn.up THEN Seen.version + 1
                                                ELSE Seen.version - 1]
  OBVIOUS
<1>3. PICK commits \in BOOLEAN : commits <=> (db.dialect = "sqlite" \/ new.version = conn.goal)
  OBVIOUS
<1>4. PICK c : c = [conn EXCEPT !.draft = IF commits THEN NoDraft ELSE [open |-> TRUE, db |-> new]]
  OBVIOUS
<1>5. /\ db' = (IF commits THEN new ELSE db)
      /\ conn' = Running(c, conn.up, conn.goal, new.version, new)
      /\ moved' = (IF commits /\ conn.app # 0 THEN conn.app
                   ELSE IF commits /\ new.version < 5 THEN 0 ELSE moved)
      /\ UNCHANGED <<torn, late>>
  BY <1>2, <1>3, <1>4 DEF EndRevision
<1>6. DbTyped(Seen)
  BY <1>1 DEF Seen, ConnTyped
<1>7. /\ conn.up \in BOOLEAN /\ conn.goal \in 0..7
      /\ IF conn.up THEN Seen.version < conn.goal ELSE conn.goal < Seen.version
  BY <1>1 DEF OnTheWay
<1>8. /\ new.version = Target(conn.up, Seen.version) /\ DOMAIN new = DOMAIN Seen
      /\ new.tables = Seen.tables /\ new.stamp = Seen.stamp /\ new.rows = Seen.rows
  BY <1>2, <1>6 DEF DbTyped, Target
<1>9. DbTyped(new) /\ IF conn.up THEN new.version =< conn.goal ELSE conn.goal =< new.version
  BY <1>6, <1>7, <1>8 DEF DbTyped, Target
<1>10. /\ Fields \subseteq DOMAIN c /\ c.app = conn.app /\ c.before = conn.before
       /\ c.draft = IF commits THEN NoDraft ELSE [open |-> TRUE, db |-> new]
  BY <1>1, <1>4 DEF ConnTyped, Fields
<1>11. new = IF c.draft.open THEN c.draft.db ELSE db'
  BY <1>5, <1>10 DEF NoDraft
<1>12. RunsOn(conn.app, conn.up, conn.before, new)
  BY <1>5, <1>7, <1>9, <1>10, <1>11, RunningSees
<1>13. EndsIn(new, commits)
  BY <1>1, <1>5, <1>6, <1>7, <1>8, <1>9, <1>12 DEF EndsIn
<1> QED
  BY <1>13

----------------------------------------------------------------------------
(* The names of the tables and the release in app_info.                    *)

\* Without its table there is no release noted.
Named(d) ==
  /\ DOMAIN d.tables \in Linked /\ d.stamp \in 0..7
  /\ "app_info" \notin DOMAIN d.tables => d.stamp = 0
Going == \E b : Goes(conn.left, Creatable(conn.up, Seen.version), DOMAIN Seen.tables, b)
NamesInv ==
  /\ Named(db) /\ Named(Seen) /\ conn.app \in {0, 6, 7}
  /\ conn.pc = "run" => Going

\* A migration begins.
LEMMA NamesRun ==
  ASSUME NEW d, NEW app \in {0, 6, 7}, NEW up \in BOOLEAN, NEW before, RunsOn(app, up, before, d),
         DbTyped(d), Named(d), Named(db')
  PROVE  NamesInv'
<1>1. ASSUME conn'.pc = "run" PROVE Going'
  <2>1. PICK v : v = d.version
    OBVIOUS
  <2>2. v \in 0..7 /\ Target(up, v) \in 0..7 /\ DOMAIN d.tables \in Linked
    BY <1>1, <2>1 DEF RunsOn, DbTyped, Named
  <2>3. PICK ops : ops = Todo(up, NextRevision(up, v), d)
    OBVIOUS
  <2>4. \E b : Goes(ops, Creatable(up, v), DOMAIN d.tables, b)
    BY <2>2, <2>3, TodoGoes
  <2>5. conn'.left = ops /\ conn'.up = up /\ Seen' = d
    BY <1>1, <2>1, <2>3 DEF RunsOn
  <2> QED
    BY <2>1, <2>4, <2>5 DEF Going
<1>2. Seen' = d /\ conn'.app = app
  BY DEF RunsOn
<1>3. Named(Seen)'
  BY <1>2 DEF Named
<1>4. Named(db)'
  BY DEF Named
<1> QED
  BY <1>1, <1>2, <1>3, <1>4 DEF NamesInv

\* A connection at rest sees what is committed.
LEMMA NamesRest ==
  ASSUME conn'.pc # "run", conn'.draft = NoDraft, conn'.app \in {0, 6, 7}, Named(db')
  PROVE  NamesInv'
<1>1. Seen' = db'
  BY DEF Seen, NoDraft
<1>2. Named(Seen)' /\ Named(db)'
  BY <1>1 DEF Named
<1> QED
  BY <1>2 DEF NamesInv

\* A statement takes the names on.
LEMMA NamesStatement ==
  ASSUME NamesInv, MigrationInv, Statement PROVE NamesInv'
<1>1. PICK op, n : op = Head(conn.left) /\ n = After(Head(conn.left), conn.up, Seen)
  OBVIOUS
<1>2. /\ conn.pc = "run" /\ conn.left # <<>> /\ DbTyped(Seen) /\ Seen' = n /\ db' \in {db, n}
      /\ conn'.pc = "run" /\ conn'.left = Tail(conn.left) /\ conn'.up = conn.up
      /\ conn'.app = conn.app
  BY <1>1, StatementSees
<1>3. PICK may, names : may = Creatable(conn.up, Seen.version) /\ names = DOMAIN Seen.tables
  OBVIOUS
<1>4. PICK b : Goes(conn.left, may, names, b)
  BY <1>2, <1>3 DEF NamesInv, Going
<1>5. PICK m : Passes(op, may, names, m) /\ Goes(Tail(conn.left), may, m, b)
  BY <1>1, <1>2, <1>4, GoesTail
<1>6. /\ n.version = Seen.version
      /\ op.do = "create" => DOMAIN n.tables = names \cup {op.table}
      /\ op.do = "remove" => DOMAIN n.tables = names \ {op.table}
      /\ op.do \notin {"create", "remove"} => DOMAIN n.tables = names
      /\ n.stamp = IF op.do = "remove" /\ op.table = "app_info" THEN 0 ELSE Seen.stamp
  BY <1>1, <1>2, <1>3, AfterIs
<1>7. DOMAIN n.tables = m /\ m \in Linked
  BY <1>5, <1>6 DEF Passes
<1>8. Named(n)
  <2>1. Seen.stamp \in 0..7 /\ ("app_info" \notin names => Seen.stamp = 0)
    BY <1>3 DEF NamesInv, Named
  <2>2. n.stamp \in 0..7
    BY <1>6, <2>1
  <2>3. "app_info" \notin m => n.stamp = 0
    BY <1>6, <1>7, <2>1
  <2> QED
    BY <1>7, <2>2, <2>3 DEF Named
<1>9. Named(db)' /\ Named(Seen)'
  BY <1>2, <1>8 DEF NamesInv, Named
<1>10. Going'
  BY <1>2, <1>3, <1>5, <1>6, <1>7 DEF Going
<1> QED
  BY <1>2, <1>9, <1>10 DEF NamesInv

\* The names stay in order with every step.
LEMMA NamesStep ==
  ASSUME NamesInv, MigrationInv, [Next]_vars PROVE NamesInv'
<1>a. ASSUME UNCHANGED <<db, conn>> PROVE NamesInv'
  BY <1>a DEF NamesInv, Going, Named, Seen
<1>b. ASSUME conn' = Quiet, db' = db PROVE NamesInv'
  <2>1. conn'.draft = NoDraft /\ conn'.pc # "run" /\ conn'.app = 0
    BY <1>b, QuietIsTyped
  <2>2. Named(db')
    BY <1>b DEF NamesInv
  <2> QED
    BY <2>1, <2>2, NamesRest
<1>c. ASSUME NEW pc, pc # "run", conn' = Ended(pc), Named(db') PROVE NamesInv'
  <2>1. conn'.draft = NoDraft /\ conn'.pc # "run" /\ conn'.app \in {0, conn.app}
    BY <1>c, QuietIsTyped DEF Ended
  <2> QED
    BY <1>c, <2>1, NamesRest DEF NamesInv
<1>1. CASE Launch
  <2>1. PICK app \in Releases : Begin(app)
    BY <1>1 DEF Launch
  <2>2. /\ db' = db /\ app \in {0, 6, 7}
        /\ \/ conn'.pc = "refused" /\ conn'.draft = NoDraft /\ conn'.app = app
           \/ RunsOn(app, TRUE, db.version, db)
    BY <2>1, BeginSees
  <2>3. Named(db) /\ Named(db') /\ DbTyped(db)
    BY <2>2 DEF NamesInv, MigrationInv
  <2>4. CASE conn'.pc = "refused" /\ conn'.draft = NoDraft /\ conn'.app = app
    BY <2>2, <2>3, <2>4, NamesRest
  <2>5. CASE RunsOn(app, TRUE, db.version, db)
    BY <2>2, <2>3, <2>5, NamesRun
  <2> QED
    BY <2>2, <2>4, <2>5
<1>2. CASE Statement
  BY <1>2, NamesStatement
<1>3. CASE StatementFails
  BY <1>3, <1>c DEF StatementFails, NamesInv
<1>4. CASE EndRevision
  <2>1. PICK new, commits : commits \in BOOLEAN /\ EndsIn(new, commits)
    BY <1>4, RevisionSees
  <2>2. /\ DbTyped(new) /\ new.tables = Seen.tables /\ new.stamp = Seen.stamp /\ conn.up \in BOOLEAN
        /\ db' \in {db, new} /\ RunsOn(conn.app, conn.up, conn.before, new)
    BY <2>1 DEF EndsIn
  <2>3. Named(new) /\ conn.app \in {0, 6, 7}
    BY <2>2 DEF NamesInv, Named
  <2>4. Named(db')
    BY <2>2, <2>3 DEF NamesInv
  <2> QED
    BY <2>2, <2>3, <2>4, NamesRun
<1>5. CASE Stamp
  <2>1. DbTyped(db) /\ db' \in {db, [db EXCEPT !.stamp = conn.app]} /\ conn' = Ended("migrated")
    BY <1>5 DEF Stamp, MigrationInv
  <2>2. db' # db => "app_info" \in DOMAIN db.tables
    BY <1>5 DEF Stamp, Stamps
  <2>3. CASE db' # db
    <3>1. db'.tables = db.tables /\ db'.stamp = conn.app
      BY <2>1, <2>3 DEF DbTyped
    <3>2. Named(db')
      BY <2>2, <2>3, <3>1 DEF NamesInv, Named
    <3> QED
      BY <1>c, <2>1, <3>2
  <2>4. CASE db' = db
    BY <1>c, <2>1, <2>4 DEF NamesInv
  <2> QED
    BY <2>3, <2>4
<1>6. CASE \/ Migrated \/ ImportFails \/ NotMigrated \/ EnsureUser \/ ConnectRedis
           \/ SyncBackends \/ Administer \/ UNCHANGED vars
  BY <1>6, <1>a DEF Migrated, ImportFails, NotMigrated, EnsureUser, ConnectRedis, SyncBackends,
     Administer, vars, migrationVars
<1>7. CASE Stop \/ CrashMigrating
  BY <1>7, <1>b DEF Stop, CrashMigrating, Crash
<1>8. CASE Developer
  <2>1. PICK goal \in 0..6 : Alembic(goal)
    BY <1>8 DEF Developer
  <2>2. db' = db /\ \E before : \E up \in BOOLEAN : RunsOn(0, up, before, db)
    BY <2>1, AlembicSees
  <2>3. PICK before, up : up \in BOOLEAN /\ RunsOn(0, up, before, db)
    BY <2>2
  <2>4. Named(db) /\ Named(db') /\ DbTyped(db)
    BY <2>2 DEF NamesInv, MigrationInv
  <2> QED
    BY <2>3, <2>4, NamesRun
<1> QED
  BY <1>1, <1>2, <1>3, <1>4, <1>5, <1>6, <1>7, <1>8 DEF Next, Migrate

\* The names of one revision.
LEMMA NamesAt ==
  ASSUME NEW v \in 0..7
  PROVE  DOMAIN TablesAt(v) = IF v = 0 THEN {} ELSE Tables \ (IF v < 5 THEN {"app_info"} ELSE {})
<1>1. CASE v = 0
  BY <1>1, TableNames
<1>2. CASE v # 0
  <2>1. v \in 1..7
    BY <1>2
  <2>2. DOMAIN TablesAt(v) = Tables \ Until(5, v, {"app_info"})
    BY <2>1, TableNames
  <2> QED
    BY <1>2, <2>2 DEF Until
<1> QED
  BY <1>1, <1>2

\* A database that a release of the time has left has names in order.
LEMMA NamesInitially == MigrationInit => NamesInv
<1> SUFFICES ASSUME MigrationInit PROVE NamesInv
  OBVIOUS
<1>1. PICK d \in Dialects, v \in 0..6 : \E kinds \in {{}, IF v = 0 THEN {} ELSE RowsAt(v)} :
         db = [dialect |-> d, tables |-> TablesAt(v), types |-> TypesAt(d, v),
               version |-> v, rows |-> kinds, stamp |-> IF v < 5 THEN 0 ELSE v]
  BY Zenon DEF MigrationInit
<1>2. PICK kinds :
         db = [dialect |-> d, tables |-> TablesAt(v), types |-> TypesAt(d, v),
               version |-> v, rows |-> kinds, stamp |-> IF v < 5 THEN 0 ELSE v]
  BY <1>1, Zenon
<1>3. db.tables = TablesAt(v) /\ db.stamp = IF v < 5 THEN 0 ELSE v
  BY <1>2
<1>4. PICK names : names = DOMAIN db.tables
  OBVIOUS
<1>5. names = IF v = 0 THEN {} ELSE Tables \ (IF v < 5 THEN {"app_info"} ELSE {})
  <2>1. v \in 0..7
    OBVIOUS
  <2> QED
    BY <1>3, <1>4, <2>1, NamesAt
<1>6. names \in Linked
  BY <1>5, TableNames DEF Linked
<1>7. v >= 5 => "app_info" \in names
  BY <1>5, TableNames
<1>8. Named(db)
  BY <1>3, <1>4, <1>6, <1>7 DEF Named
<1>9. conn.pc = "quiet" /\ conn.app = 0 /\ Seen = db
  BY QuietIsTyped DEF MigrationInit, Seen
<1> QED
  BY <1>8, <1>9 DEF NamesInv

\* The release in app_info is the one that has moved the database, unless a crash came between
\* the two; while a release migrates, unless it has moved it already.
Noted(d) == "app_info" \in DOMAIN d.tables => d.stamp = moved
Fresh == /\ ~late /\ ~torn
         /\ conn.pc \notin {"run", "done"} \/ conn.app = 0 \/ db.version = conn.before
NotedInv ==
  /\ conn.pc \in {"run", "done"} /\ conn.app # 0 /\ db.version # conn.before => moved = conn.app
  /\ conn.pc = "run" /\ conn.up => db.version =< Seen.version
  /\ conn.pc = "run" /\ conn.app # 0 => conn.before \in 0..7 /\ conn.before =< Seen.version
  /\ Fresh => Noted(db) /\ Noted(Seen) /\ (db.version < 5 => moved = 0)

\* A revision has the table from 0005 on.
LEMMA NoteAt ==
  ASSUME NEW d, d.version \in 0..7, d.tables = TablesAt(d.version)
  PROVE  "app_info" \in DOMAIN d.tables <=> d.version >= 5
<1>1. PICK v : v = d.version
  OBVIOUS
<1>2. v \in 0..7 /\ d.tables = TablesAt(v)
  BY <1>1
<1>3. PICK names : names = DOMAIN TablesAt(v)
  OBVIOUS
<1>4. names = IF v = 0 THEN {} ELSE Tables \ (IF v < 5 THEN {"app_info"} ELSE {})
  BY <1>2, <1>3, NamesAt
<1>5. "app_info" \in names <=> v >= 5
  BY <1>2, <1>4, TableNames
<1> QED
  BY <1>1, <1>2, <1>3, <1>5

\* A connection at rest has nothing to note.
LEMMA NotedRest ==
  ASSUME conn'.pc \notin {"run", "done"}, conn'.draft = NoDraft,
         ~late' /\ ~torn' => Noted(db)' /\ (db'.version < 5 => moved' = 0)
  PROVE  NotedInv'
<1>1. Seen' = db'
  BY DEF Seen, NoDraft
<1>2. Noted(db)' => Noted(Seen)'
  BY <1>1 DEF Noted
<1> QED
  BY <1>2 DEF NotedInv, Fresh

\* What begins with the database as it is.
LEMMA NotedRun ==
  ASSUME NotedInv, conn.pc = "quiet", UNCHANGED <<db, torn, moved, late>>, DbTyped(db),
         NEW app, NEW up, NEW before, app # 0 => before = db.version, RunsOn(app, up, before, db)
  PROVE  NotedInv'
<1>1. Seen' = db /\ db' = db /\ conn'.app = app /\ conn'.before = before /\ db.version \in 0..7
  BY DEF RunsOn, DbTyped
<1>2. ~late /\ ~torn => Noted(db) /\ (db.version < 5 => moved = 0)
  BY DEF NotedInv, Fresh
<1>3. Fresh' => Noted(db)' /\ Noted(Seen)' /\ (db'.version < 5 => moved' = 0)
  BY <1>1, <1>2 DEF Fresh, Noted
<1>4. conn'.pc \in {"run", "done"} /\ conn'.app # 0 => db'.version = conn'.before
  BY <1>1
<1>5. db'.version =< Seen'.version
  BY <1>1
<1>6. conn'.app # 0 => conn'.before \in 0..7 /\ conn'.before =< Seen'.version
  BY <1>1
<1> QED
  BY <1>3, <1>4, <1>5, <1>6 DEF NotedInv

\* The table is made by 0005, of a database nobody has moved beyond 0004 and noted.
LEMMA NotedStatement ==
  ASSUME NotedInv, NamesInv, MigrationInv, Statement PROVE NotedInv'
<1>1. PICK op, n : op = Head(conn.left) /\ n = After(Head(conn.left), conn.up, Seen)
  OBVIOUS
<1>2. /\ conn.pc = "run" /\ conn.left # <<>> /\ DbTyped(Seen) /\ Seen' = n
      /\ Executes(op, Seen) /\ (db' = db \/ (Seen = db /\ db' = n))
      /\ conn'.pc = "run" /\ conn'.up = conn.up /\ conn'.app = conn.app
      /\ conn'.before = conn.before /\ UNCHANGED <<torn, moved, late>>
  BY <1>1, StatementSees
<1>3. PICK may, names : may = Creatable(conn.up, Seen.version) /\ names = DOMAIN Seen.tables
  OBVIOUS
<1>4. PICK b : Goes(conn.left, may, names, b)
  BY <1>2, <1>3 DEF NamesInv, Going
<1>5. PICK m : Passes(op, may, names, m)
  BY <1>1, <1>2, <1>4, GoesTail
<1>6. /\ n.version = Seen.version
      /\ op.do = "create" => DOMAIN n.tables = names \cup {op.table}
      /\ op.do = "remove" => DOMAIN n.tables = names \ {op.table}
      /\ op.do \notin {"create", "remove"} => DOMAIN n.tables = names
      /\ n.stamp = IF op.do = "remove" /\ op.table = "app_info" THEN 0 ELSE Seen.stamp
  BY <1>1, <1>2, <1>3, AfterIs
<1>7. db'.version = db.version
  BY <1>2, <1>6
<1>8. Fresh' => Fresh
  BY <1>2, <1>7 DEF Fresh
<1>9. ASSUME Fresh PROVE "app_info" \in DOMAIN n.tables => n.stamp = moved
  <2>1. CASE op.do = "create" /\ op.table = "app_info"
    <3>1. conn.up /\ Seen.version = 4
      BY <1>3, <1>5, <2>1 DEF Passes, Creatable
    <3>2. "app_info" \notin names
      BY <1>2, <1>3, <2>1 DEF Executes
    <3>3. n.stamp = 0
      BY <1>3, <1>6, <2>1, <3>2 DEF NamesInv, Named
    <3>4. db.version < 5
      BY <1>2, <3>1 DEF NotedInv, MigrationInv, DbTyped
    <3> QED
      BY <1>9, <3>3, <3>4 DEF NotedInv
  <2>2. CASE ~(op.do = "create" /\ op.table = "app_info")
    <3>1. ASSUME "app_info" \in DOMAIN n.tables PROVE "app_info" \in names /\ n.stamp = Seen.stamp
      BY <1>6, <2>2, <3>1
    <3> QED
      BY <1>3, <1>9, <3>1 DEF NotedInv, Noted
  <2> QED
    BY <2>1, <2>2
<1>10. Fresh' => Noted(Seen)' /\ Noted(db)' /\ (db'.version < 5 => moved' = 0)
  <2>1. Fresh' => Noted(Seen)'
    BY <1>2, <1>8, <1>9 DEF Noted
  <2>2. Fresh' => Noted(db)'
    BY <1>2, <1>8, <1>9 DEF Noted, NotedInv
  <2> QED
    BY <1>2, <1>7, <1>8, <2>1, <2>2 DEF NotedInv
<1>11. Seen'.version = Seen.version
  BY <1>2, <1>6
<1> QED
  BY <1>2, <1>7, <1>10, <1>11 DEF NotedInv

\* What a release commits is of a later revision than the one it has found; what a developer
\* commits has the table only from 0005 on.
LEMMA NotedRevision ==
  ASSUME NotedInv, NamesInv, SchemaInv, MigrationInv, EndRevision PROVE NotedInv'
<1>1. PICK new, commits : commits \in BOOLEAN /\ EndsIn(new, commits)
  BY RevisionSees
<1>2. /\ DbTyped(Seen) /\ DbTyped(new) /\ DbTyped(db) /\ conn.up \in BOOLEAN /\ conn.pc = "run"
      /\ new.version = Target(conn.up, Seen.version) /\ new.tables = Seen.tables
      /\ new.stamp = Seen.stamp
      /\ db' = (IF commits THEN new ELSE db)
      /\ moved' = (IF commits /\ conn.app # 0 THEN conn.app
                   ELSE IF commits /\ new.version < 5 THEN 0 ELSE moved)
      /\ UNCHANGED <<torn, late>>
  BY <1>1 DEF EndsIn, MigrationInv
<1>3. /\ Seen' = new /\ conn'.pc \in {"run", "done"} /\ conn'.app = conn.app
      /\ conn'.up = conn.up /\ conn'.before = conn.before
  BY <1>1 DEF EndsIn, RunsOn
<1>4. /\ Seen.version \in 0..7 /\ new.version \in 0..7 /\ db.version \in 0..7
      /\ (conn.up => new.version = Seen.version + 1)
  BY <1>2 DEF DbTyped, Target
<1>5. conn.app # 0 => conn.up /\ conn.before \in 0..7 /\ conn.before < new.version
  BY <1>2, <1>4 DEF MigrationInv, OnTheWay, NotedInv
<1>6. conn.up => db'.version =< new.version
  <2>1. CASE commits
    <3>1. db' = new
      BY <1>2, <2>1
    <3> QED
      BY <1>4, <3>1
  <2>2. CASE ~commits
    <3>1. db' = db
      BY <1>2, <2>2
    <3>2. conn.up => db.version =< Seen.version
      BY <1>2 DEF NotedInv
    <3> QED
      BY <1>4, <3>1, <3>2
  <2> QED
    BY <2>1, <2>2
<1>7. conn'.app # 0 /\ db'.version # conn'.before => moved' = conn'.app
  BY <1>2, <1>3 DEF NotedInv
<1>8. ASSUME Fresh' PROVE Noted(db)' /\ Noted(Seen)' /\ (db'.version < 5 => moved' = 0)
  <2>1. CASE commits /\ conn.app # 0
    BY <1>2, <1>3, <1>4, <1>5, <1>8, <2>1 DEF Fresh
  <2>2. CASE ~commits
    <3>1. Fresh /\ db' = db /\ moved' = moved
      BY <1>2, <1>3, <1>8, <2>2 DEF Fresh
    <3> QED
      BY <1>2, <1>3, <3>1 DEF NotedInv, Noted
  <2>3. CASE commits /\ conn.app = 0
    <3>1. Fresh /\ ~torn /\ db' = new
      BY <1>2, <1>8, <2>3 DEF Fresh
    <3>2. new.tables = TablesAt(new.version)
      BY <1>2, <3>1, RevisionFits
    <3>3. "app_info" \in DOMAIN new.tables <=> new.version >= 5
      BY <1>4, <3>2, NoteAt
    <3>4. moved' = IF new.version < 5 THEN 0 ELSE moved
      BY <1>2, <2>3
    <3>5. "app_info" \in DOMAIN new.tables => new.stamp = moved'
      BY <1>2, <1>4, <3>1, <3>3, <3>4 DEF NotedInv, Noted
    <3> QED
      BY <1>3, <3>1, <3>4, <3>5 DEF Noted
  <2> QED
    BY <2>1, <2>2, <2>3
<1>9. conn'.app # 0 => conn'.before \in 0..7 /\ conn'.before =< Seen'.version
  BY <1>3, <1>4, <1>5
<1> QED
  BY <1>3, <1>6, <1>7, <1>8, <1>9 DEF NotedInv

\* A release that has moved the database to its revision finds the table.
LEMMA NotedStamp ==
  ASSUME NotedInv, NamesInv, SchemaInv, MigrationInv, Stamp PROVE NotedInv'
<1>1. /\ conn.pc = "done" /\ conn' = Ended("migrated") /\ DbTyped(db)
      /\ db' = (IF Stamps THEN [db EXCEPT !.stamp = conn.app] ELSE db)
      /\ late' = (late /\ ~Stamps) /\ UNCHANGED <<torn, moved>>
  BY DEF Stamp, MigrationInv
<1>2. conn'.draft = NoDraft /\ conn'.pc \notin {"run", "done"}
  BY <1>1, QuietIsTyped DEF Ended
<1>3. CASE Stamps
  <2>1. moved = conn.app /\ db.version = conn.app /\ conn.app \in {6, 7}
    BY <1>1, <1>3 DEF Stamps, NotedInv, MigrationInv, NamesInv
  <2>2. db'.stamp = conn.app /\ db'.version = db.version
    BY <1>1, <1>3 DEF DbTyped
  <2>3. Noted(db)' /\ ~(db'.version < 5)
    BY <1>1, <2>1, <2>2 DEF Noted
  <2> QED
    BY <1>2, <2>3, NotedRest
<1>4. CASE ~Stamps
  <2>1. db' = db /\ (late' <=> late)
    BY <1>1, <1>4
  <2>2. ~late /\ ~torn => Fresh
    <3> SUFFICES ASSUME ~torn, conn.app # 0, db.version # conn.before PROVE FALSE
      BY DEF Fresh
    <3>1. db.version \in {6, 7}
      BY <1>1 DEF MigrationInv, NamesInv
    <3>2. db.tables = TablesAt(db.version)
      BY <1>1 DEF SchemaInv, AtRevision
    <3>3. "app_info" \in DOMAIN db.tables
      BY <3>1, <3>2, NoteAt
    <3> QED
      BY <1>4, <3>3 DEF Stamps
  <2>3. ~late' /\ ~torn' => Noted(db)' /\ (db'.version < 5 => moved' = 0)
    BY <1>1, <2>1, <2>2 DEF NotedInv, Noted
  <2> QED
    BY <1>2, <2>3, NotedRest
<1> QED
  BY <1>3, <1>4

\* A database that a release of the time has left names that release.
LEMMA NotedInitially == MigrationInit => NotedInv
<1> SUFFICES ASSUME MigrationInit PROVE NotedInv
  OBVIOUS
<1>1. PICK d \in Dialects, v \in 0..6 : \E kinds \in {{}, IF v = 0 THEN {} ELSE RowsAt(v)} :
         /\ db = [dialect |-> d, tables |-> TablesAt(v), types |-> TypesAt(d, v),
                  version |-> v, rows |-> kinds, stamp |-> IF v < 5 THEN 0 ELSE v]
         /\ moved = IF v < 5 THEN 0 ELSE v
  BY Zenon DEF MigrationInit
<1>2. PICK kinds :
         /\ db = [dialect |-> d, tables |-> TablesAt(v), types |-> TypesAt(d, v),
                  version |-> v, rows |-> kinds, stamp |-> IF v < 5 THEN 0 ELSE v]
         /\ moved = IF v < 5 THEN 0 ELSE v
  BY <1>1, Zenon
<1>3. db.version = v /\ db.stamp = IF v < 5 THEN 0 ELSE v
  BY <1>2
<1>4. db.stamp = moved /\ (db.version < 5 => moved = 0)
  BY <1>2, <1>3
<1>5. conn.pc = "quiet" /\ Seen = db
  BY QuietIsTyped DEF MigrationInit, Seen
<1> QED
  BY <1>4, <1>5 DEF NotedInv, Noted

\* The note stays true with every step.
LEMMA NotedStep ==
  ASSUME NotedInv, NamesInv, SchemaInv, MigrationInv, StartInv, [Next]_vars PROVE NotedInv'
<1>a. ASSUME UNCHANGED <<db, conn, torn, moved, late>> PROVE NotedInv'
  BY <1>a DEF NotedInv, Noted, Fresh, Seen
<1>1. CASE Launch
  <2>1. PICK app \in Releases : Begin(app)
    BY <1>1 DEF Launch
  <2>2. /\ UNCHANGED <<db, torn, moved, late>> /\ conn.pc = "quiet" /\ DbTyped(db)
        /\ \/ conn'.pc = "refused" /\ conn'.draft = NoDraft
           \/ RunsOn(app, TRUE, db.version, db)
    BY <2>1, BeginSees DEF MigrationInv
  <2>3. CASE conn'.pc = "refused" /\ conn'.draft = NoDraft
    <3>1. ~late' /\ ~torn' => Noted(db)' /\ (db'.version < 5 => moved' = 0)
      BY <2>2 DEF NotedInv, Noted, Fresh
    <3> QED
      BY <2>3, <3>1, NotedRest
  <2>4. CASE RunsOn(app, TRUE, db.version, db)
    BY <2>2, <2>4, NotedRun
  <2> QED
    BY <2>2, <2>3, <2>4
<1>2. CASE StatementFails
  <2>1. torn /\ torn' = torn /\ conn' = Ended("broken")
    BY <1>2, FailsTorn DEF StatementFails
  <2>2. conn'.draft = NoDraft /\ conn'.pc \notin {"run", "done"}
    BY <2>1, QuietIsTyped DEF Ended
  <2> QED
    BY <2>1, <2>2, NotedRest
<1>3. CASE Statement \/ EndRevision \/ Stamp
  BY <1>3, NotedStatement, NotedRevision, NotedStamp
<1>4. CASE \/ Migrated \/ ImportFails \/ NotMigrated \/ EnsureUser \/ ConnectRedis
           \/ SyncBackends \/ Administer \/ UNCHANGED vars
  BY <1>4, <1>a DEF Migrated, ImportFails, NotMigrated, EnsureUser, ConnectRedis, SyncBackends,
     Administer, vars, migrationVars
<1>5. CASE Stop \/ CrashMigrating
  <2>1. conn' = Quiet /\ UNCHANGED <<db, moved>>
    BY <1>5 DEF Stop, CrashMigrating, Crash
  <2>2. ~late' /\ ~torn' => Fresh
    <3>1. CASE Stop
      BY <3>1 DEF Stop, StartInv, PhaseInv, Fresh
    <3>2. CASE Crash
      BY <3>2 DEF Crash, Fresh
    <3> QED
      BY <1>5, <3>1, <3>2 DEF CrashMigrating
  <2>3. ~late' /\ ~torn' => Noted(db)' /\ (db'.version < 5 => moved' = 0)
    BY <2>1, <2>2 DEF NotedInv, Noted
  <2>4. conn'.draft = NoDraft /\ conn'.pc \notin {"run", "done"}
    BY <2>1, QuietIsTyped
  <2> QED
    BY <2>3, <2>4, NotedRest
<1>6. CASE Developer
  <2>1. PICK goal \in 0..6 : Alembic(goal)
    BY <1>6 DEF Developer
  <2>2. /\ UNCHANGED <<db, torn, moved, late>> /\ conn.pc = "quiet" /\ DbTyped(db)
        /\ \E before : \E up \in BOOLEAN : RunsOn(0, up, before, db)
    BY <2>1, AlembicSees DEF MigrationInv
  <2>3. PICK before, up : RunsOn(0, up, before, db)
    BY <2>2
  <2> QED
    BY <2>2, <2>3, NotedRun
<1> QED
  BY <1>1, <1>2, <1>3, <1>4, <1>5, <1>6 DEF Next, Migrate

----------------------------------------------------------------------------
(* The rest of the types, and the theorems about the schema.               *)

\* What the steps that leave the database alone keep: nobody is assigned to a backend that is
\* not there.
SettledInv ==
  /\ conn.pc \in {"quiet", "run", "done", "migrated", "refused", "broken"}
  /\ mode \in Settings /\ special \subseteq {"system", "demo"}
  /\ assigned \subseteq (Admins \cup Members) \X DOMAIN rows

\* The settings of no process.
LEMMA OffIsASetting == Off \in Settings
<1>1. <<>> \in [1..0 -> Entries] /\ 0 \in 0..MaxEntries
  BY StartupAssumption
<1>2. <<>> \in UNION {[1..k -> Entries] : k \in 0..MaxEntries}
  BY <1>1
<1> QED
  BY <1>2 DEF Off, Settings

\* Where a migration comes next.
LEMMA PcOfMigration ==
  ASSUME MigrationInv, Statement \/ StatementFails \/ EndRevision \/ Stamp
  PROVE  conn'.pc \in {"quiet", "run", "done", "migrated", "broken"}
<1>1. CASE Statement
  <2>1. PICK n : n = After(Head(conn.left), conn.up, Seen)
    OBVIOUS
  <2> QED
    BY <1>1, <2>1, StatementSees
<1>2. CASE StatementFails \/ Stamp
  BY <1>2, RestsAt DEF StatementFails, Stamp
<1>3. CASE EndRevision
  BY <1>3, RevisionSees DEF EndsIn, RunsOn
<1> QED
  BY <1>1, <1>2, <1>3

\* Nothing is assigned before the first start.
LEMMA SettledInitially == Init => SettledInv
  BY OffIsASetting, QuietIsTyped DEF Init, MigrationInit, BackendsInit, SettledInv

\* Assignments go with their backends, whatever a migration drops.
LEMMA SettledStep ==
  ASSUME SettledInv, StartInv, MigrationInv, NamesInv', [Next]_vars PROVE SettledInv'
<1> USE DEF backendVars, Same
<1>a. ASSUME conn'.pc \in {"quiet", "run", "done", "migrated", "refused", "broken"},
             mode' \in {mode, Off}, special' \subseteq {"system", "demo"},
             assigned' = assigned, DOMAIN rows \subseteq DOMAIN rows'
      PROVE  SettledInv'
  BY <1>a, OffIsASetting DEF SettledInv
<1>b. /\ special \subseteq {"system", "demo"}
      /\ conn.pc \in {"quiet", "run", "done", "migrated", "refused", "broken"}
  BY DEF SettledInv
<1>1. CASE Launch
  <2>1. PICK app \in Releases : Begin(app)
    BY <1>1 DEF Launch
  <2>2. conn'.pc \in {"refused", "run", "done"}
    BY <2>1, BeginSees DEF RunsOn
  <2> QED
    BY <1>1, <1>a, <1>b, <2>2 DEF Launch
<1>2. CASE Migrate
  <2>1. conn'.pc \in {"quiet", "run", "done", "migrated", "broken"}
    BY <1>2, PcOfMigration DEF Migrate
  <2>2. mode' = mode /\ KeepRows
    BY <1>2 DEF Migrate
  <2>3. special' \subseteq {"system", "demo"}
    BY <1>b, <2>2 DEF KeepRows, IfThere
  <2>4. CASE "snakedispatch_backends" \in DOMAIN db'.tables
    <3>1. rows' = rows /\ assigned' \in {assigned, {}}
      BY <2>2, <2>4 DEF KeepRows, IfThere
    <3> QED
      BY <2>1, <2>2, <2>3, <3>1 DEF SettledInv
  <2>5. CASE "snakedispatch_backends" \notin DOMAIN db'.tables
    <3>1. DOMAIN db'.tables \in Linked
      BY DEF NamesInv, Named
    <3>2. "user_backends" \notin DOMAIN db'.tables
      BY <2>5, <3>1 DEF Linked
    <3>3. assigned' = {}
      BY <2>2, <3>2 DEF KeepRows, IfThere
    <3> QED
      BY <2>1, <2>2, <2>3, <3>3 DEF SettledInv
  <2> QED
    BY <2>4, <2>5
<1>3. CASE Migrated \/ ImportFails
  BY <1>3, <1>b DEF Migrated, ImportFails, SettledInv, migrationVars
<1>4. CASE NotMigrated \/ ConnectRedis \/ UNCHANGED vars
  BY <1>4, <1>a, <1>b DEF NotMigrated, ConnectRedis, migrationVars, vars
<1>5. CASE EnsureUser
  BY <1>5, <1>a, <1>b DEF EnsureUser, Ensures, migrationVars
<1>6. CASE SyncBackends
  <2>1. UNCHANGED <<conn, mode, special>>
    BY <1>6 DEF SyncBackends, migrationVars
  <2>2. CASE UNCHANGED backendVars
    BY <1>a, <1>b, <2>1, <2>2
  <2>3. CASE SyncSucceeds(Configured(mode.backends))
    <3>1. assigned' = assigned /\ DOMAIN rows \subseteq DOMAIN rows'
      BY <2>3 DEF SyncSucceeds, Partly
    <3> QED
      BY <1>a, <1>b, <2>1, <3>1
  <2> QED
    BY <1>6, <2>2, <2>3 DEF SyncBackends, SyncFails
<1>7. CASE Administer
  <2>1. UNCHANGED <<conn, mode, special, rows>>
    BY <1>7 DEF Administer, migrationVars, Assign, Unassign
  <2>2. assigned \subseteq (Admins \cup Members) \X DOMAIN rows
    BY DEF SettledInv
  <2>3. CASE Assign
    <3>1. PICK u \in Members, n \in DOMAIN rows : assigned' = assigned \cup {<<u, n>>}
      BY <2>3 DEF Assign
    <3> QED
      BY <2>1, <2>2, <3>1 DEF SettledInv
  <2>4. CASE Unassign
    <3>1. assigned' \subseteq assigned
      BY <2>4 DEF Unassign
    <3> QED
      BY <2>1, <2>2, <3>1 DEF SettledInv
  <2> QED
    BY <1>7, <2>3, <2>4 DEF Administer
<1>8. CASE Stop \/ CrashMigrating
  <2>1. conn' = Quiet /\ mode' = Off /\ UNCHANGED <<rows, assigned, special>>
    BY <1>8 DEF Stop, CrashMigrating, Crash, Gone
  <2> QED
    BY <1>a, <1>b, <2>1, QuietIsTyped
<1>9. CASE Developer
  <2>1. PICK goal \in 0..6 : Alembic(goal)
    BY <1>9 DEF Developer
  <2>2. conn'.pc \in {"run", "done"}
    BY <2>1, AlembicSees DEF RunsOn
  <2> QED
    BY <1>9, <1>a, <1>b, <2>2 DEF Developer
<1> QED
  BY <1>1, <1>2, <1>3, <1>4, <1>5, <1>6, <1>7, <1>8, <1>9 DEF Next

\* The tables of revision 0006 are those of models.py.
LEMMA LastIsModels == TablesAt(6) = Models
<1>1. PICK tables : tables = TablesAt(6)
  OBVIOUS
<1>2. tables = [t \in Tables |-> IF t = "runs" THEN RunTableAt(6)
                                 ELSE IF t = "networks" THEN NetworkTableAt(6) ELSE Models[t]]
  BY <1>1 DEF TablesAt, Since, Until, Tables
<1>3. RunTableAt(6) = RunTable
  BY DEF RunTableAt, Until, RunTable, Tbl
<1>4. NetworkTableAt(6) = NetworkTable
  BY DEF NetworkTableAt, Until, Since, NetworkTable, Tbl
<1>5. Models["runs"] = RunTable /\ Models["networks"] = NetworkTable
  BY DEF Models
<1>6. Models = [t \in Tables |-> Models[t]]
  BY DEF Models, Tables
<1>7. \A t \in Tables : tables[t] = Models[t]
  BY <1>2, <1>3, <1>4, <1>5
<1>8. tables = [t \in Tables |-> tables[t]]
  BY <1>2
<1> QED
  BY <1>1, <1>6, <1>7, <1>8

\* All of it together.
DatabaseInv == MigrationInv /\ SchemaInv /\ NamesInv /\ NotedInv /\ SettledInv

\* The invariants of the database hold before the first start ...
LEMMA DatabaseInitially == Init => DatabaseInv
  BY MigrationInitially, SchemaInitially, NamesInitially, NotedInitially, SettledInitially
     DEF Init, DatabaseInv

\* ... and every step keeps them.
LEMMA DatabaseStep == StartInv /\ DatabaseInv /\ [Next]_vars => DatabaseInv'
<1> SUFFICES ASSUME StartInv, DatabaseInv, [Next]_vars PROVE DatabaseInv'
  OBVIOUS
<1>1. MigrationInv /\ SchemaInv /\ NamesInv /\ NotedInv /\ SettledInv
  BY DEF DatabaseInv
<1>2. MigrationInv'
  BY <1>1, MigrationStep
<1>3. SchemaInv'
  BY <1>1, SchemaStep
<1>4. NamesInv'
  BY <1>1, NamesStep
<1>5. NotedInv'
  BY <1>1, NotedStep
<1>6. SettledInv'
  BY <1>1, <1>4, SettledStep
<1> QED
  BY <1>2, <1>3, <1>4, <1>5, <1>6 DEF DatabaseInv

\* The invariant of the database and of the connection holds, for every value of the constants.
THEOREM DatabaseInvariant == Spec => []DatabaseInv
<1>1. StartInv /\ DatabaseInv /\ [Next]_vars => DatabaseInv'
  BY DatabaseStep
<1> QED
  BY <1>1, DatabaseInitially, StartInvariant, PTL DEF Spec

\* Whatever upgrades and downgrades of releases and developers came before, and however many
\* crashes, the database has the tables and types of its revision (0001 to 0006), those of
\* models.py for the last one, and rows its code can read; a crash between two statements of
\* SQLite is the one exception, and a release serves only its own revision.
THEOREM SchemaIsOfItsRevision == Spec => []SchemaFollowsVersion
<1>1. StartInv /\ DatabaseInv => SchemaFollowsVersion
  <2> SUFFICES ASSUME StartInv, DatabaseInv PROVE SchemaFollowsVersion
    OBVIOUS
  <2>1. MigrationInv /\ SchemaInv /\ NamesInv /\ SettledInv
    BY DEF DatabaseInv
  <2>2. TypeOK
    <3>1. DOMAIN db.tables \subseteq Tables /\ db.stamp \in 0..7
      BY <2>1 DEF NamesInv, Named, Linked
    <3>2. /\ db.version \in 0..7
          /\ db.rows \subseteq [dims : {"flat", "full", "none"}, times : {"aware", "naive"}]
      BY <2>1 DEF MigrationInv, DbTyped, RowKinds
    <3>3. /\ rows \in [DOMAIN rows -> [url : Urls, active : BOOLEAN]]
          /\ phase \in {"off", "migrating", "users", "redis", "backends", "serving", "failed"}
      BY DEF StartInv, RowsInv, RowsTyped, PhaseInv
    <3> QED
      BY <2>1, <3>1, <3>2, <3>3 DEF TypeOK, SettledInv
  <2>3. RowsFit /\ (phase = "serving" => db.version = conn.app)
    <3>1. phase = "serving" => conn.pc = "migrated"
      BY DEF StartInv, PhaseInv
    <3> QED
      BY <2>1, <3>1 DEF MigrationInv, FitAt, RowsFit
  <2>4. /\ conn.pc # "run" /\ ~torn =>
              db.tables = TablesAt(db.version) /\ db.types = TypesAt(db.dialect, db.version)
        /\ torn => db.dialect = "sqlite"
    BY <2>1 DEF SchemaInv, AtRevision
  <2>5. conn.pc # "run" /\ ~torn /\ db.version = 6 => db.tables = Models
    BY <2>4, LastIsModels
  <2> QED
    BY <2>2, <2>3, <2>4, <2>5 DEF SchemaFollowsVersion
<1> QED
  BY <1>1, DatabaseInvariant, StartInvariant, PTL

\* The release that app_info names (_stamp_app_info) is the last one that has migrated the
\* database, for every order of releases, downgrades and crashes, unless it died between the
\* upgrade and the note.
THEOREM NotesAreTrue == Spec => []AppInfoIsTrue
<1>1. DatabaseInv => AppInfoIsTrue
  <2> SUFFICES ASSUME DatabaseInv, conn.pc \in {"quiet", "migrated", "refused"}, ~late, ~torn
               PROVE  db.stamp = moved
    BY DEF AppInfoIsTrue
  <2>1. MigrationInv /\ SchemaInv /\ NamesInv /\ NotedInv
    BY DEF DatabaseInv
  <2>2. Noted(db) /\ (db.version < 5 => moved = 0)
    BY <2>1 DEF NotedInv, Fresh
  <2>3. db.tables = TablesAt(db.version) /\ db.version \in 0..7
    BY <2>1 DEF SchemaInv, AtRevision, MigrationInv, DbTyped
  <2>4. "app_info" \in DOMAIN db.tables <=> db.version >= 5
    BY <2>3, NoteAt
  <2>5. "app_info" \notin DOMAIN db.tables => db.stamp = 0
    BY <2>1 DEF NamesInv, Named
  <2> QED
    BY <2>2, <2>3, <2>4, <2>5 DEF Noted
<1> QED
  BY <1>1, DatabaseInvariant, PTL

\* A start fails only for a database of a later release, one a crash has torn, Redis, an entry
\* without "=" or a URL claimed twice: no upgrade stumbles over a statement otherwise, and the
\* order in which the rows are flushed never does it alone (lifespan, _sync_backends).
THEOREM FailuresHaveReasons == Spec => []StartFailsForAReason
<1>1. StartInv /\ DatabaseInv => StartFailsForAReason
  <2> SUFFICES ASSUME StartInv, DatabaseInv, phase = "failed"
               PROVE  \/ db.version > conn.app \/ torn \/ AuthEnabled(mode)
                      \/ ~Parses(mode.backends) \/ Conflict(Configured(mode.backends))
    BY DEF StartFailsForAReason
  <2>1. conn.pc \in {"quiet", "migrated", "refused", "broken"} /\ FailedInv
    BY DEF StartInv, PhaseInv
  <2>2. conn.pc = "broken" => torn
    BY DEF DatabaseInv, SchemaInv
  <2>3. conn.pc = "refused" => db.version > conn.app
    <3>1. db.version \in 0..7 /\ conn.app \in {0, 6, 7}
      BY DEF DatabaseInv, MigrationInv, DbTyped, NamesInv
    <3> QED
      BY <2>1, <3>1 DEF FailedInv, Knows
  <2> QED
    BY <2>1, <2>2, <2>3 DEF FailedInv
<1> QED
  BY <1>1, DatabaseInvariant, StartInvariant, PTL
=============================================================================
