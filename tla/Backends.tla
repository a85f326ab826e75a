------------------------------ MODULE Backends ------------------------------
(***************************************************************************)
(* Execution backends: the rows the start brings into line with the         *)
(* SNAKEDISPATCH_BACKENDS setting, the registry of clients in the process,  *)
(* the users each backend is assigned to, and the choice of a backend for   *)
(* a new run.  Rows are never removed or renamed, so a name stands for the  *)
(* id of its row.                                                          *)
(***************************************************************************)
EXTENDS Naturals, SequencesExt

CONSTANTS BackendNames, Urls,
          Admins, Members,  \* users with and without runs:manage_all
          Malformed         \* an entry without "="

NoChoice == "any"  \* the backend of a request that leaves the choice to the server
ASSUME BackendsAssumption == Admins \cap Members = {} /\ NoChoice \notin BackendNames

VARIABLES rows,      \* name -> [url, active]
          registry,  \* name -> url of its client
          assigned   \* user_backends

backendVars == <<rows, registry, assigned>>

NoBackends == [n \in {} |-> {}]
BackendsInit == rows = NoBackends /\ registry = NoBackends /\ assigned = {}

Entries == [name : BackendNames, url : Urls] \cup {Malformed}
Parses(entries) == \A i \in DOMAIN entries : entries[i] # Malformed

\* Of entries with the same name the last one counts.
Configured(entries) ==
    LET names == {entries[i].name : i \in DOMAIN entries}
        LastOf(n) == CHOOSE i \in DOMAIN entries :
            /\ entries[i].name = n
            /\ \A j \in DOMAIN entries : entries[j].name = n => j <= i
    IN [n \in names |-> entries[LastOf(n)].url]

KeepsActive(row) == row
Retired(row) == [row EXCEPT !.active = FALSE]
RowAfter(n, wanted) == IF n \in DOMAIN wanted THEN [url |-> wanted[n], active |-> TRUE]
                       ELSE Retired(rows[n])

\* The flush updates the rows in the order of their ids, then inserts; the unique URL is
\* checked statement by statement.
FlushOrders(wanted) ==
    {u \o i : u \in SetToSeqs(DOMAIN rows), i \in SetToSeqs(DOMAIN wanted \ DOMAIN rows)}
Partly(done, wanted) == [n \in DOMAIN rows \cup done |->
                           IF n \in done THEN RowAfter(n, wanted) ELSE rows[n]]
UrlsUnique(table) == \A m, n \in DOMAIN table : table[m].url = table[n].url => m = n
Flushes(order, wanted) ==
    \A k \in 1..Len(order) : UrlsUnique(Partly({order[i] : i \in 1..k}, wanted))

ActiveIn(table) == {n \in DOMAIN table : table[n].active}
Registered(table) == [n \in ActiveIn(table) |-> table[n].url]

SyncSucceeds(wanted) ==
    /\ \E order \in FlushOrders(wanted) : Flushes(order, wanted)
    /\ rows' = Partly(DOMAIN rows \cup DOMAIN wanted, wanted)
    /\ registry' = Registered(rows')
    /\ UNCHANGED assigned
SyncFails(wanted) ==
    /\ \E order \in FlushOrders(wanted) : ~Flushes(order, wanted)
    /\ UNCHANGED backendVars

\* A URL is configured twice, or for another name than the row that has it.
Conflict(wanted) == \E n \in DOMAIN wanted :
    \/ \E m \in DOMAIN rows : m # n /\ rows[m].url = wanted[n]
    \/ \E m \in DOMAIN wanted : m # n /\ wanted[m] = wanted[n]

\* The admin routes, from the side of the user and of the backend.  Administrators may be
\* assigned too, with no effect.
Assign == \E u \in Members, n \in DOMAIN rows :
    /\ <<u, n>> \notin assigned
    /\ assigned' = assigned \cup {<<u, n>>} /\ UNCHANGED <<rows, registry>>
Unassign == \E pair \in assigned : assigned' = assigned \ {pair} /\ UNCHANGED <<rows, registry>>

Available(u) == {n \in ActiveIn(rows) : u \in Admins \/ <<u, n>> \in assigned}

\* The answer to a new run, and the backend it goes to.
Refused(status) == [status |-> status, url |-> "none"]
SubmitsTo(u, asked) ==
    IF Available(u) = {} THEN Refused(503)
    ELSE IF asked # NoChoice /\ asked \notin Available(u) THEN Refused(403)
    ELSE IF asked = NoChoice /\ \A n \in Available(u) : Available(u) # {n} THEN Refused(400)
    ELSE LET n == IF asked = NoChoice THEN CHOOSE n \in Available(u) : TRUE ELSE asked IN
         IF n \in DOMAIN registry THEN [status |-> 201, url |-> registry[n]] ELSE Refused(503)

============================================================================
