----------------------------- MODULE ListPages -----------------------------
(***************************************************************************)
(* A list page (networks or runs) and the server's list route: the page    *)
(* asks for one page of the rows its user may read, in an order, by a      *)
(* filter, and shows the answer that comes last.  Requests of one page     *)
(* overlap: every user action starts one, the runs page polls, and the     *)
(* URL is changed between an action and its request.  Rows come, go and    *)
(* change meanwhile.                                                       *)
(***************************************************************************)
EXTENDS Integers, Sequences, FiniteSets, Functions, Permissions

CONSTANTS Rows, SortKey,        \* the rows there can be, and what they are sorted by
          Viewer, Other,        \* who looks at the page, and somebody else
          PageSize,
          AtFirst,              \* the table when the page is opened
          MaxAsked, MaxOpen,    \* bounds: requests, requests that wait at the same time
          MaxChanges            \* bound: changes of the rows

Row == [owner : {Viewer, Other}, visibility : {"private", "public"}]

ASSUME ListAssumption ==
    /\ IsFiniteSet(Rows) /\ SortKey \in [Rows -> Int] /\ PageSize \in Nat \ {0}
    /\ DOMAIN AtFirst \subseteq Rows /\ AtFirst \in [DOMAIN AtFirst -> Row]
    /\ MaxChanges \in Nat

VARIABLES rows,         \* the table; a row that is not in its domain does not exist
          changes,      \* how often it has changed
          role,         \* of the viewer
          filter, currentPage, descending,      \* what the page is set to
          loading, list, total,                 \* what it shows
          answered,     \* the request whose answer is shown
          asked,        \* the number of requests
          requests,     \* those without an answer
          handlers,     \* what goes on when the URL has changed, in order
          walk          \* the pages gone through one by one, and what was on them
db == <<rows, changes, role>>
settings == <<filter, currentPage, descending>>
view == <<loading, list, total, answered, walk>>
vars == <<rows, changes, role, filter, currentPage, descending, loading, list, total,
          answered, asked, requests, handlers, walk>>

Filters == {"none", "mine", "public"}
Matches(f, row) == CASE f = "none" -> TRUE
                     [] f = "mine" -> row.owner = Viewer
                     [] f = "public" -> row.visibility = "public"

User == [id |-> Viewer, role |-> role]
Manages == HasPermission(User, "networks:manage_all")

(***************************************************************************)
(* The list route.                                                         *)
(***************************************************************************)
OwnOnly(row) == Manages \/ row.owner = Viewer
Visible(row) == Manages \/ row.owner = Viewer \/ row.visibility = "public"
Result(f) == {r \in DOMAIN rows : Visible(rows[r]) /\ Matches(f, rows[r])}

\* The list of runs, the administrator's list, and a run's page for anybody.
RunResult(f) ==
    {r \in DOMAIN rows : /\ \/ HasPermission(User, "runs:manage_all")
                            \/ rows[r].owner = Viewer \/ rows[r].visibility = "public"
                         /\ Matches(f, rows[r])}
AdminResult(f) == {r \in DOMAIN rows : Matches(f, rows[r])}
PublicRun(row) == row.visibility = "public"

\* ORDER BY one column: rows with the same key come in any order, anew each time.
Sorted(ids, desc) ==
    {s \in [1..Cardinality(ids) -> ids] :
        /\ Range(s) = ids
        /\ \A i, j \in DOMAIN s : i < j => IF desc THEN SortKey[s[i]] >= SortKey[s[j]]
                                                  ELSE SortKey[s[i]] =< SortKey[s[j]]}
AtMost(n, max) == IF n < max THEN n ELSE max
OffsetFromZero(page) == page * PageSize
Offset(page) == (page - 1) * PageSize
Slice(s, page) == SubSeq(s, Offset(page) + 1, AtMost(Len(s), Offset(page) + PageSize))

Asked == [n |-> asked, filter |-> filter, page |-> currentPage, desc |-> descending]
NoAnswer == [n |-> 0, filter |-> "none", page |-> 1, desc |-> TRUE]
\* Counting and fetching are two statements, and other commits come in between.
Count(r) ==
    /\ r.state = "asked"
    /\ requests' = (requests \ {r}) \cup
          {[r EXCEPT !.state = "counted", !.total = Cardinality(Result(r.query.filter)), !.at = changes]}
    /\ UNCHANGED <<db, settings, view, asked, handlers>>
Fetch(r) ==
    /\ r.state = "counted"
    /\ \E s \in Sorted(Result(r.query.filter), r.query.desc) :
          requests' = (requests \ {r}) \cup
              {[r EXCEPT !.state = "served", !.rows = Slice(s, r.query.page),
                         !.at = IF @ = changes THEN @ ELSE -1]}
    /\ UNCHANGED <<db, settings, view, asked, handlers>>

(***************************************************************************)
(* The page.                                                               *)
(***************************************************************************)
Ceil(n) == (n + PageSize - 1) \div PageSize
TableShown == ~loading /\ (list # <<>> \/ filter # "none")

Ask(silent) ==
    /\ asked < MaxAsked /\ Cardinality(requests) + Len(handlers') < MaxOpen
    /\ asked' = asked + 1
    /\ requests' = requests \cup {[query |-> Asked', silent |-> silent, state |-> "asked",
                                   total |-> 0, rows |-> <<>>, at |-> 0]}

Init == /\ rows = AtFirst
        /\ changes = 0 /\ role \in {"user", "admin"}
        /\ filter = "none" /\ currentPage = 1 /\ descending = TRUE
        /\ loading = TRUE /\ list = <<>> /\ total = 0
        /\ answered = NoAnswer
        /\ asked = 1
        /\ requests = {[query |-> Asked, silent |-> FALSE, state |-> "asked",
                        total |-> 0, rows |-> <<>>, at |-> 0]}
        /\ handlers = <<>>
        /\ walk = [page |-> 0, at |-> 0, seen |-> <<>>]

\* A change of the filter or the page goes into the URL first.
After(what) == /\ Cardinality(requests') + Len(handlers) < MaxOpen
               /\ handlers' = Append(handlers, what)
HandleFilterChange ==
    /\ TableShown
    /\ \E f \in Filters \ {filter} : filter' = f
    /\ currentPage' = 1
    /\ UNCHANGED <<db, descending, view, asked, requests>>
    /\ After("load")
GoToPage ==
    /\ TableShown
    /\ \E p \in 1..Ceil(total) : p # currentPage /\ currentPage' = p
    /\ UNCHANGED <<db, filter, descending, view, asked, requests>>
    /\ After("load")
SortsOnly ==
    /\ TableShown
    /\ descending' = ~descending
    /\ currentPage' = 1
    /\ UNCHANGED <<db, filter, view, asked, requests, handlers>>
HandleSortingChange ==
    /\ TableShown
    /\ descending' = ~descending
    /\ currentPage' = 1
    /\ loading' = TRUE
    /\ UNCHANGED <<db, filter, list, total, answered, walk, handlers>>
    /\ Ask(FALSE)
\* A reload that takes the place of a clamped one ends the loading of both.
UrlShown ==
    /\ handlers # <<>>
    /\ handlers' = Tail(handlers)
    /\ loading' = (Head(handlers) = "load")
    /\ UNCHANGED <<db, settings, list, total, answered, walk>>
    /\ Ask(Head(handlers) = "silently")
Poll ==
    /\ list # <<>>
    /\ UNCHANGED <<db, settings, view, handlers>>
    /\ Ask(TRUE)

Walked(r) ==
    LET q == r.query
        first == q.page = 1
        next == /\ walk.page > 0 /\ q.page = walk.page + 1
                /\ q.filter = answered.filter /\ q.desc = answered.desc
                /\ r.at = walk.at
    IN  CASE r.at >= 0 /\ first -> [page |-> 1, at |-> r.at, seen |-> r.rows]
          [] r.at >= 0 /\ next -> [page |-> q.page, at |-> r.at, seen |-> walk.seen \o r.rows]
          [] OTHER -> [page |-> 0, at |-> 0, seen |-> <<>>]

\* The page of the answer may be past the end: the last one is asked for instead.
Clamps(page, n) == page > Ceil(n) /\ Ceil(n) > 0
Answer(r) ==
    /\ r.state = "served"
    /\ requests' = requests \ {r}
    /\ list' = r.rows /\ total' = r.total /\ answered' = r.query
    /\ walk' = Walked(r)
    /\ IF Clamps(currentPage, r.total)
       THEN /\ currentPage' = Ceil(r.total)
            /\ After(IF r.silent THEN "silently" ELSE "clamped")
            /\ UNCHANGED loading
       ELSE loading' = FALSE /\ UNCHANGED <<currentPage, handlers>>
    /\ UNCHANGED <<db, filter, descending, asked>>
Fails(r) ==
    /\ requests' = requests \ {r}
    /\ loading' = FALSE
    /\ UNCHANGED <<db, settings, list, total, answered, asked, handlers, walk>>

(***************************************************************************)
(* The rest of the world: rows are added, removed, published and hidden.   *)
(***************************************************************************)
RowsChange ==
    /\ changes < MaxChanges
    /\ changes' = changes + 1
    /\ \E r \in Rows :
          IF r \in DOMAIN rows
          THEN \/ rows' = [x \in DOMAIN rows \ {r} |-> rows[x]]
               \/ rows' = [rows EXCEPT ![r].visibility = IF @ = "public" THEN "private" ELSE "public"]
          ELSE \E o \in {Viewer, Other} :
                  rows' = [x \in DOMAIN rows \cup {r} |->
                              IF x = r THEN [owner |-> o, visibility |-> "private"] ELSE rows[x]]
    /\ UNCHANGED <<role, settings, view, asked, requests, handlers>>

Next == \/ HandleFilterChange \/ GoToPage \/ HandleSortingChange \/ UrlShown \/ Poll \/ RowsChange
        \/ \E r \in requests : Count(r) \/ Fetch(r) \/ Answer(r) \/ Fails(r)
Spec == Init /\ [][Next]_vars

(***************************************************************************)
(* Properties.                                                             *)
(***************************************************************************)
\* An answer has at most a page of rows and the page shows a number from one on.
TypeOK == /\ filter \in Filters /\ currentPage >= 1
          /\ Len(list) =< PageSize
          /\ total \in 0..Cardinality(Rows)
          /\ \A r \in requests : r.query.n =< asked

Quiet == requests = {} /\ handlers = <<>>
Latest == Quiet /\ answered.n = asked

\* However requests overlap, fail and come late, for whatever filter: the page is
\* one of those there are to choose from, if there are any, and it does not go on
\* loading when nothing is outstanding any more.  If then the last answer was the one
\* to the last request, the rows shown are those of the filter, order and page the
\* controls show: no handler forgets to load, and none loads before it has set them.
\* (An older answer that comes last stays on screen, and so does what was there
\* when the last request failed: nothing is promised about these.)
ShownIsAsked ==
    /\ TypeOK
    /\ total > 0 => currentPage =< Ceil(total)
    /\ Quiet => ~loading
    /\ Latest => <<answered.filter, answered.page, answered.desc>> = <<filter, currentPage, descending>>

\* The lists of networks and of runs, the routes of a single one, the public
\* page of a run and the administrator's list agree on who may read what.
ListedIffReadable ==
    /\ \A r \in DOMAIN rows :
          /\ (r \in Result("none")) <=> CanAccess(User, rows[r], "networks:manage_all")
          /\ (r \in RunResult("none")) <=> CanAccess(User, rows[r], "runs:manage_all")
          /\ PublicRun(rows[r]) => r \in RunResult("public")
    /\ Manages => \A f \in Filters : Result(f) = AdminResult(f)

\* Who goes through all the pages of an unchanged list, one by one, sees every
\* row exactly once, except for rows that sort the same as another.
PagesLoseOnlyTies ==
    walk.page > 0 /\ walk.page = Ceil(total) /\ walk.at = changes =>
        \A r \in Result(answered.filter) :
            (\A x \in Result(answered.filter) \ {r} : SortKey[x] # SortKey[r])
                => Cardinality({i \in DOMAIN walk.seen : walk.seen[i] = r}) = 1
=============================================================================
