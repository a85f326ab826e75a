-------------------------- MODULE ListPages_proofs --------------------------
(***************************************************************************)
(* A list page shows what it is set to, the list routes and the routes of  *)
(* one network or run agree on who may read it, and who walks through the  *)
(* pages of an unchanged list misses no row that sorts by itself: for any  *)
(* rows, sort keys and page size, and any number of requests under way.    *)
(***************************************************************************)
EXTENDS ListPages, FiniteSetTheorems, SequenceTheorems, TLAPS

Queries == [n : Nat, filter : Filters, page : Nat \ {0}, desc : BOOLEAN]
Requests == [query : Queries, silent : BOOLEAN, state : {"asked", "counted", "served"},
             total : 0..Cardinality(Rows), rows : Seq(Rows), at : Int]

\* The table, the settings of the page and what it shows, and its requests.
TableTyped == DOMAIN rows \subseteq Rows /\ changes \in Nat
SettingsTyped == filter \in Filters /\ currentPage \in Nat \ {0} /\ descending \in BOOLEAN
ViewTyped ==
  /\ total \in 0..Cardinality(Rows) /\ list \in Seq(Rows) /\ Len(list) =< PageSize
  /\ answered \in Queries /\ answered.n =< asked
  /\ walk \in [page : Nat, at : Nat, seen : Seq(Rows)]
RequestsTyped ==
  /\ asked \in Nat /\ handlers \in Seq({"load", "silently", "clamped"})
  /\ requests \subseteq Requests
  /\ \A r \in requests : r.query.n =< asked /\ Len(r.rows) =< PageSize

\* The page shown exists, and whoever made it load goes on to an answer.
SettledInv ==
  /\ total > 0 => currentPage =< Ceil(total)
  /\ loading => requests # {} \/ handlers # <<>>

\* The last request has the settings of the page, unless a handler waits to ask anew.
Set == <<filter, currentPage, descending>>
AsSet(q) == <<q.filter, q.page, q.desc>> = Set
SettingsInv ==
  handlers = <<>> =>
    /\ \A r \in requests : r.query.n = asked => AsSet(r.query)
    /\ answered.n = asked => AsSet(answered)

\* What an answer was counted and cut from, as long as the table stays as it was.
Fits(r) ==
  /\ r.at =< changes
  /\ r.state \in {"counted", "served"} /\ r.at = changes =>
       r.total = Cardinality(Result(r.query.filter))
  /\ r.state = "served" /\ r.at = changes =>
       \E s \in Sorted(Result(r.query.filter), r.query.desc) : r.rows = Slice(s, r.query.page)
RequestsInv == \A r \in requests : Fits(r)

\* A row that sorts by itself has one place in the list, however ties are broken.
Untied(r, ids) == \A x \in ids \ {r} : SortKey[x] # SortKey[r]
Before(r, ids, desc) ==
  {x \in ids : IF desc THEN SortKey[x] > SortKey[r] ELSE SortKey[x] < SortKey[r]}
Place(r, ids, desc) == Cardinality(Before(r, ids, desc)) + 1

\* k pages gone through are the beginning of the list, as far as untied rows tell.
Begins(seen, k, ids, desc) ==
  /\ Len(seen) = AtMost(Cardinality(ids), k * PageSize)
  /\ \A r \in ids : Untied(r, ids) =>
        \A i \in 1..Len(seen) : seen[i] = r <=> i = Place(r, ids, desc)
WalkInv ==
  /\ walk.at =< changes
  /\ walk.page > 0 /\ walk.at = changes =>
       /\ total = Cardinality(Result(answered.filter))
       /\ Begins(walk.seen, walk.page, Result(answered.filter), answered.desc)

\* The inductive invariant.
PageInv ==
  /\ TableTyped /\ SettingsTyped /\ ViewTyped /\ RequestsTyped
  /\ SettledInv /\ SettingsInv /\ RequestsInv /\ WalkInv

----------------------------------------------------------------------------
(* Pages of a sorted list.                                                 *)

\* A list is cut into pages that join without a gap, and the last one reaches its end.
LEMMA PagesJoin ==
  /\ Offset(1) = 0
  /\ \A k \in Nat \ {0} : Offset(k) \in Nat /\ Offset(k) + PageSize = k * PageSize
                          /\ Offset(k + 1) = k * PageSize
  /\ \A n \in Nat : /\ Ceil(n) \in Nat /\ Ceil(n) * PageSize >= n
                    /\ (n > 0 => Ceil(n) > 0)
<1> USE ListAssumption
<1>1. Offset(1) = 0
  BY DEF Offset
<1>2. ASSUME NEW k \in Nat \ {0}
      PROVE  Offset(k) \in Nat /\ Offset(k) + PageSize = k * PageSize
             /\ Offset(k + 1) = k * PageSize
  <2>1. PICK m \in Nat : k = m + 1
    <3>1. k - 1 \in Nat /\ k = (k - 1) + 1
      OBVIOUS
    <3> QED
      BY <3>1
  <2>2. m * PageSize \in Nat /\ (m + 1) * PageSize = m * PageSize + PageSize
    OBVIOUS
  <2>3. Offset(k) = m * PageSize /\ Offset(k + 1) = (m + 1) * PageSize
    BY <2>1 DEF Offset
  <2> QED
    BY <2>1, <2>2, <2>3
<1>3. ASSUME NEW n \in Nat
      PROVE  Ceil(n) \in Nat /\ Ceil(n) * PageSize >= n /\ (n > 0 => Ceil(n) > 0)
  BY DEF Ceil
<1> QED
  BY <1>1, <1>2, <1>3

\* A page has at most PageSize rows, those that come from its offset on.
LEMMA SliceIsCut ==
  ASSUME NEW n \in Nat, NEW S, NEW s \in [1..n -> S], NEW page \in Nat \ {0}
  PROVE  /\ Slice(s, page) \in Seq(S) /\ Len(Slice(s, page)) =< PageSize
         /\ Len(Slice(s, page)) = IF Offset(page) < n
                                  THEN AtMost(n, Offset(page) + PageSize) - Offset(page) ELSE 0
         /\ \A i \in 1..Len(Slice(s, page)) :
               Offset(page) + i \in 1..n /\ Slice(s, page)[i] = s[Offset(page) + i]
<1> DEFINE o == Offset(page)
           e == AtMost(n, o + PageSize)
<1>1. o \in Nat /\ PageSize \in Nat \ {0}
  BY PagesJoin, ListAssumption
<1>2. s \in Seq(S) /\ Len(s) = n
  OBVIOUS
<1>3. e \in Nat /\ e =< n /\ e =< o + PageSize /\ (o < n => e > o) /\ (o >= n => e = n)
  BY <1>1 DEF AtMost
<1>4. Slice(s, page) = SubSeq(s, o + 1, e)
  BY <1>2 DEF Slice
<1> HIDE DEF o, e
<1>5. CASE o < n
  <2>1. o + 1 \in 1..Len(s) + 1 /\ e \in o..Len(s)
    BY <1>1, <1>2, <1>3, <1>5
  <2>2. /\ SubSeq(s, o + 1, e) \in Seq(S) /\ Len(SubSeq(s, o + 1, e)) = e - o
        /\ \A i \in 1..e - o : SubSeq(s, o + 1, e)[i] = s[o + i]
    BY <1>1, <1>2, <1>3, <1>5
  <2>3. e - o \in Nat /\ e - o =< PageSize /\ \A i \in 1..e - o : o + i \in 1..n
    BY <1>1, <1>3, <1>5
  <2>4. Slice(s, page) \in Seq(S) /\ Len(Slice(s, page)) = e - o
    BY <1>4, <2>2
  <2> QED
    BY <1>4, <1>5, <2>2, <2>3, <2>4 DEF o, e
<1>6. CASE o >= n
  <2>1. SubSeq(s, o + 1, e) = << >>
    BY <1>1, <1>2, <1>3, <1>6
  <2>2. Slice(s, page) \in Seq(S) /\ Len(Slice(s, page)) = 0
    BY <1>4, <2>1, EmptySeq
  <2> QED
    BY <1>1, <1>6, <2>2 DEF o
<1> QED
  BY <1>1, <1>5, <1>6

\* In every order the list route may choose, an untied row comes after those before it.
LEMMA UntiedHasItsPlace ==
  ASSUME NEW ids, IsFiniteSet(ids), ids \subseteq Rows, NEW desc \in BOOLEAN,
         NEW s \in Sorted(ids, desc), NEW r \in ids, Untied(r, ids)
  PROVE  /\ Place(r, ids, desc) \in 1..Cardinality(ids)
         /\ \A i \in 1..Cardinality(ids) : s[i] = r <=> i = Place(r, ids, desc)
<1> DEFINE n == Cardinality(ids)
<1>1. n \in Nat
  BY FS_CardinalityType
<1>2. /\ s \in [1..n -> ids] /\ \A x \in ids : \E i \in 1..n : s[i] = x
      /\ \A i, j \in 1..n : i < j => IF desc THEN SortKey[s[i]] >= SortKey[s[j]]
                                             ELSE SortKey[s[i]] =< SortKey[s[j]]
  BY DEF Sorted, Range
<1>3. \A i, j \in 1..n : s[i] = s[j] => i = j
  <2>1. IsFiniteSet(1..n) /\ Cardinality(1..n) = n
    BY <1>1, FS_Interval
  <2>2. s \in Surjection(1..n, ids)
    BY <1>2 DEF Surjection
  <2>3. s \in Injection(1..n, ids)
    BY <2>1, <2>2, FS_SurjSameCardinalityImpliesInj
  <2> QED
    BY <2>3 DEF Injection, IsInjective
<1>4. PICK p \in 1..n : s[p] = r
  BY <1>2
<1>5. \A x \in ids : SortKey[x] \in Int
  BY ListAssumption
<1>6. \A x \in ids : x \in Before(r, ids, desc) <=> \E j \in 1..p-1 : s[j] = x
  <2>1. ASSUME NEW j \in 1..p-1 PROVE s[j] \in Before(r, ids, desc)
    <3>1. j \in 1..n /\ j < p /\ s[j] # r
      BY <1>1, <1>3, <1>4
    <3>2. SortKey[s[j]] # SortKey[r]
      BY <1>2, <3>1 DEF Untied
    <3>3. SortKey[s[j]] \in Int /\ SortKey[r] \in Int
      BY <1>2, <1>5, <3>1
    <3>4. IF desc THEN SortKey[s[j]] >= SortKey[r] ELSE SortKey[s[j]] =< SortKey[r]
      BY <1>2, <1>4, <3>1
    <3> QED
      BY <1>2, <3>1, <3>2, <3>3, <3>4 DEF Before
  <2>2. ASSUME NEW x \in Before(r, ids, desc) PROVE \E j \in 1..p-1 : s[j] = x
    <3>1. PICK j \in 1..n : s[j] = x
      BY <1>2 DEF Before
    <3>2. SortKey[x] \in Int /\ SortKey[r] \in Int
      BY <1>5 DEF Before
    <3>3. IF desc THEN SortKey[x] > SortKey[r] ELSE SortKey[x] < SortKey[r]
      BY DEF Before
    <3>4. ~(p < j)
      BY <1>2, <1>4, <3>1, <3>2, <3>3
    <3>5. j # p
      BY <1>4, <3>1, <3>2, <3>3
    <3> QED
      BY <1>1, <3>1, <3>4, <3>5
  <2> QED
    BY <2>1, <2>2
<1>7. Cardinality(Before(r, ids, desc)) = p - 1
  <2> DEFINE f == [j \in 1..p-1 |-> s[j]]
  <2>1. f \in Bijection(1..p-1, Before(r, ids, desc))
    <3>1. \A j \in 1..p-1 : j \in 1..n /\ s[j] \in ids
      BY <1>1, <1>2
    <3>2. f \in [1..p-1 -> Before(r, ids, desc)]
      BY <1>6, <3>1
    <3>3. \A x \in Before(r, ids, desc) : \E j \in 1..p-1 : f[j] = x
      BY <1>6 DEF Before
    <3>4. \A i, j \in 1..p-1 : f[i] = f[j] => i = j
      BY <1>3, <3>1
    <3> HIDE DEF f
    <3> QED
      BY <3>2, <3>3, <3>4 DEF Bijection, Injection, Surjection, IsInjective
  <2>2. IsFiniteSet(1..p-1) /\ Cardinality(1..p-1) = p - 1
    <3>1. p - 1 \in Nat
      BY <1>1
    <3> QED
      BY <3>1, FS_Interval
  <2>3. ExistsBijection(1..p-1, Before(r, ids, desc))
    BY <2>1 DEF ExistsBijection
  <2> QED
    BY <2>2, <2>3, FS_Bijection
<1>8. Place(r, ids, desc) = p
  BY <1>1, <1>7 DEF Place
<1> QED
  BY <1>3, <1>4, <1>8

----------------------------------------------------------------------------
(* The list of rows that the route returns.                                *)

\* The result is a set of rows, hence finite.
LEMMA ResultIsFinite ==
  ASSUME TableTyped, NEW f
  PROVE  /\ Result(f) \subseteq Rows /\ IsFiniteSet(Result(f))
         /\ Cardinality(Result(f)) \in 0..Cardinality(Rows)
<1>1. Result(f) \subseteq Rows
  BY DEF Result, TableTyped
<1>2. /\ IsFiniteSet(Result(f)) /\ Cardinality(Result(f)) =< Cardinality(Rows)
  BY <1>1, FS_Subset, ListAssumption
<1>3. Cardinality(Result(f)) \in Nat /\ Cardinality(Rows) \in Nat
  BY <1>2, FS_CardinalityType, ListAssumption
<1> QED
  BY <1>1, <1>2, <1>3

\* It changes with the table only.
LEMMA ResultStays ==
  ASSUME UNCHANGED <<rows, role>>, NEW f
  PROVE  Result(f)' = Result(f)
BY DEF Result, Visible, Manages, Matches, User, HasPermission

\* A new request asks for what the page is set to.
LEMMA AskIsTyped ==
  ASSUME RequestsTyped, SettingsTyped', NEW silent \in BOOLEAN, Ask(silent)
  PROVE  \E q \in Requests :
            /\ asked' = asked + 1 /\ requests' = requests \cup {q}
            /\ q.query.n = asked' /\ AsSet(q.query)'
            /\ q.state = "asked" /\ q.at = 0 /\ q.rows = << >>
<1> DEFINE q == [query |-> Asked', silent |-> silent, state |-> "asked",
                 total |-> 0, rows |-> << >>, at |-> 0]
<1>1. asked' = asked + 1 /\ requests' = requests \cup {q} /\ asked' \in Nat
  BY DEF Ask, RequestsTyped
<1>2. Asked' \in Queries
  BY <1>1 DEF Asked, Queries, SettingsTyped
<1>3. 0 \in 0..Cardinality(Rows)
  BY FS_CardinalityType, ListAssumption
<1>4. q \in Requests
  BY <1>2, <1>3, EmptySeq DEF Requests
<1>5. PICK p \in Requests : p = q /\ p.query = Asked'
  BY <1>4
<1>6. p.query.n = asked' /\ AsSet(p.query)'
  BY <1>5 DEF Asked, AsSet, Set
<1>7. p.state = "asked" /\ p.at = 0 /\ p.rows = << >>
  BY <1>5
<1> QED
  BY <1>1, <1>5, <1>6, <1>7

----------------------------------------------------------------------------
(* Types.                                                                  *)

\* The table and the settings of the page keep their types ...
LEMMA SettingsStep ==
  ASSUME PageInv, [Next]_vars
  PROVE  TableTyped' /\ SettingsTyped'
<1> USE DEF PageInv, TableTyped, SettingsTyped, db, settings, view
<1>1. CASE HandleFilterChange
  BY <1>1 DEF HandleFilterChange
<1>2. CASE GoToPage
  <2>1. Ceil(total) \in Nat
    BY PagesJoin DEF ViewTyped
  <2> QED
    BY <1>2, <2>1 DEF GoToPage
<1>3. CASE HandleSortingChange
  BY <1>3 DEF HandleSortingChange
<1>4. CASE UrlShown
  BY <1>4 DEF UrlShown
<1>5. CASE Poll
  BY <1>5 DEF Poll
<1>6. CASE RowsChange
  <2>1. DOMAIN rows' \subseteq Rows
    BY <1>6 DEF RowsChange
  <2>2. changes' \in Nat /\ UNCHANGED <<filter, currentPage, descending>>
    BY <1>6 DEF RowsChange
  <2> QED
    BY <2>1, <2>2
<1>7. ASSUME NEW r \in requests, Count(r) PROVE TableTyped' /\ SettingsTyped'
  BY <1>7 DEF Count
<1>8. ASSUME NEW r \in requests, Fetch(r) PROVE TableTyped' /\ SettingsTyped'
  BY <1>8 DEF Fetch
<1>9. ASSUME NEW r \in requests, Answer(r) PROVE TableTyped' /\ SettingsTyped'
  <2>1. r.total \in Nat
    BY ListAssumption, FS_CardinalityType DEF RequestsTyped, Requests
  <2>2. Ceil(r.total) \in Nat
    BY <2>1, PagesJoin
  <2> QED
    BY <1>9, <2>2 DEF Answer, Clamps
<1>10. ASSUME NEW r \in requests, Fails(r) PROVE TableTyped' /\ SettingsTyped'
  BY <1>10 DEF Fails
<1>11. CASE UNCHANGED vars
  BY <1>11 DEF vars
<1> QED
  BY <1>1, <1>2, <1>3, <1>4, <1>5, <1>6, <1>7, <1>8, <1>9, <1>10, <1>11 DEF Next

\* ... and so do the requests ...
LEMMA RequestsTypedStep ==
  ASSUME PageInv, [Next]_vars
  PROVE  RequestsTyped'
<1>0. SettingsTyped' /\ RequestsTyped
  BY SettingsStep DEF PageInv
<1>a. PageSize \in Nat /\ 0 =< PageSize
  BY ListAssumption
<1>b. ASSUME NEW silent \in BOOLEAN, Ask(silent),
             handlers' \in Seq({"load", "silently", "clamped"})
      PROVE  RequestsTyped'
  <2>1. PICK q \in Requests : /\ asked' = asked + 1 /\ requests' = requests \cup {q}
                              /\ q.query.n = asked' /\ q.rows = << >>
    BY <1>0, <1>b, AskIsTyped
  <2>2. \A r \in requests : r.query.n \in Nat
    BY <1>0 DEF RequestsTyped, Requests, Queries
  <2>3. Len(q.rows) =< PageSize /\ q.query.n =< asked' /\ asked' \in Nat
    BY <1>0, <1>a, <2>1 DEF RequestsTyped
  <2>4. \A r \in requests : r.query.n =< asked'
    BY <1>0, <2>1, <2>2 DEF RequestsTyped
  <2> QED
    BY <1>0, <1>b, <2>1, <2>3, <2>4 DEF RequestsTyped
<1>c. ASSUME NEW what \in {"load", "silently", "clamped"}, After(what)
      PROVE  handlers' \in Seq({"load", "silently", "clamped"})
  BY <1>0, <1>c DEF After, RequestsTyped
<1> USE DEF db, settings, view
<1>1. CASE HandleFilterChange
  BY <1>0, <1>1, <1>c DEF HandleFilterChange, RequestsTyped
<1>2. CASE GoToPage
  BY <1>0, <1>2, <1>c DEF GoToPage, RequestsTyped
<1>3. CASE HandleSortingChange
  BY <1>0, <1>3, <1>b DEF HandleSortingChange, RequestsTyped
<1>4. CASE UrlShown
  <2>1. handlers' \in Seq({"load", "silently", "clamped"})
    BY <1>0, <1>4 DEF UrlShown, RequestsTyped
  <2> QED
    BY <1>4, <2>1, <1>b DEF UrlShown
<1>5. CASE Poll
  BY <1>0, <1>5, <1>b DEF Poll, RequestsTyped
<1>6. CASE RowsChange
  BY <1>0, <1>6 DEF RowsChange, RequestsTyped
<1>7. ASSUME NEW r \in requests, Count(r) PROVE RequestsTyped'
  <2>1. Cardinality(Result(r.query.filter)) \in 0..Cardinality(Rows) /\ changes \in Int
    BY ResultIsFinite DEF PageInv, TableTyped
  <2> DEFINE q == [r EXCEPT !.state = "counted",
                            !.total = Cardinality(Result(r.query.filter)), !.at = changes]
  <2>2. r \in Requests
    BY <1>0 DEF RequestsTyped
  <2>3. q \in Requests /\ q.query = r.query /\ q.rows = r.rows
    BY <2>1, <2>2 DEF Requests
  <2>4. requests' = (requests \ {r}) \cup {q} /\ UNCHANGED <<asked, handlers>>
    BY <1>7 DEF Count
  <2> HIDE DEF q
  <2> QED
    BY <1>0, <2>3, <2>4 DEF RequestsTyped
<1>8. ASSUME NEW r \in requests, Fetch(r) PROVE RequestsTyped'
  <2> DEFINE ids == Result(r.query.filter)
  <2>1. PICK s \in Sorted(ids, r.query.desc) :
           requests' = (requests \ {r}) \cup
              {[r EXCEPT !.state = "served", !.rows = Slice(s, r.query.page),
                         !.at = IF @ = changes THEN @ ELSE -1]}
    BY <1>8 DEF Fetch
  <2>2. r \in Requests
    BY <1>0 DEF RequestsTyped
  <2>3. ids \subseteq Rows /\ Cardinality(ids) \in Nat
    BY ResultIsFinite DEF PageInv
  <2>4. s \in [1..Cardinality(ids) -> Rows]
    BY <2>3 DEF Sorted
  <2>5. r.query.page \in Nat \ {0}
    BY <2>2 DEF Requests, Queries
  <2>6. Slice(s, r.query.page) \in Seq(Rows) /\ Len(Slice(s, r.query.page)) =< PageSize
    BY <2>3, <2>4, <2>5, SliceIsCut
  <2> DEFINE q == [r EXCEPT !.state = "served", !.rows = Slice(s, r.query.page),
                            !.at = IF @ = changes THEN @ ELSE -1]
  <2>7. q \in Requests /\ q.query = r.query /\ Len(q.rows) =< PageSize
    <3> DEFINE a == IF r.at = changes THEN r.at ELSE -1
    <3>1. a \in Int
      BY <2>2 DEF Requests
    <3>2. q = [r EXCEPT !.state = "served", !.rows = Slice(s, r.query.page), !.at = a]
      OBVIOUS
    <3> HIDE DEF a, q
    <3> QED
      BY <2>2, <2>6, <3>1, <3>2 DEF Requests
  <2>8. UNCHANGED <<asked, handlers>>
    BY <1>8 DEF Fetch
  <2> HIDE DEF q
  <2> QED
    BY <1>0, <2>1, <2>7, <2>8 DEF RequestsTyped, q
<1>9. ASSUME NEW r \in requests, Answer(r) PROVE RequestsTyped'
  <2>1. handlers' \in Seq({"load", "silently", "clamped"})
    BY <1>0, <1>9, <1>c DEF Answer, RequestsTyped
  <2> QED
    BY <1>0, <1>9, <2>1 DEF Answer, RequestsTyped
<1>10. ASSUME NEW r \in requests, Fails(r) PROVE RequestsTyped'
  BY <1>0, <1>10 DEF Fails, RequestsTyped
<1>11. CASE UNCHANGED vars
  BY <1>0, <1>11 DEF vars, RequestsTyped
<1> QED
  BY <1>1, <1>2, <1>3, <1>4, <1>5, <1>6, <1>7, <1>8, <1>9, <1>10, <1>11 DEF Next

\* ... and what the page shows.
LEMMA ViewTypedStep ==
  ASSUME PageInv, [Next]_vars
  PROVE  ViewTyped'
<1>0. ViewTyped /\ RequestsTyped /\ asked' >= asked /\ asked \in Nat /\ asked' \in Nat
  <2>1. CASE UNCHANGED asked
    BY <2>1 DEF PageInv, RequestsTyped
  <2>2. CASE asked' = asked + 1
    BY <2>2 DEF PageInv, RequestsTyped
  <2> QED
    BY <2>1, <2>2 DEF Next, HandleFilterChange, GoToPage, HandleSortingChange, UrlShown, Poll,
       RowsChange, Count, Fetch, Answer, Fails, Ask, vars
<1>a. CASE UNCHANGED <<list, total, answered, walk>>
  <2>1. answered.n \in Nat
    BY <1>0 DEF ViewTyped, Queries
  <2> QED
    BY <1>0, <1>a, <2>1 DEF ViewTyped
<1>b. ASSUME NEW r \in requests, Answer(r) PROVE ViewTyped'
  <2>1. /\ r \in Requests /\ r.query.n =< asked /\ Len(r.rows) =< PageSize
        /\ r.query \in Queries /\ r.rows \in Seq(Rows) /\ r.total \in 0..Cardinality(Rows)
    BY <1>0 DEF RequestsTyped, Requests
  <2>2. /\ list' = r.rows /\ total' = r.total /\ answered' = r.query /\ asked' = asked
        /\ walk' = Walked(r)
    BY <1>b DEF Answer
  <2>3. Walked(r) \in [page : Nat, at : Nat, seen : Seq(Rows)]
    <3>1. /\ r.at \in Int /\ r.query.page \in Nat /\ walk.seen \in Seq(Rows)
          /\ walk.seen \o r.rows \in Seq(Rows) /\ << >> \in Seq(Rows)
      <4>1. r.at \in Int /\ r.query.page \in Nat /\ walk.seen \in Seq(Rows)
        BY <1>0, <2>1 DEF Requests, Queries, ViewTyped
      <4> QED
        BY <4>1, <2>1, ConcatProperties, EmptySeq
    <3> QED
      BY <2>1, <3>1 DEF Walked
  <2> QED
    BY <1>0, <2>1, <2>2, <2>3 DEF ViewTyped
<1> QED
  BY <1>a, <1>b DEF Next, HandleFilterChange, GoToPage, HandleSortingChange, UrlShown, Poll,
     RowsChange, Count, Fetch, Fails, vars, view

----------------------------------------------------------------------------
(* What is shown is what was asked for.                                    *)

\* Late answers and failures leave a page there is to choose from, and end the loading.
LEMMA SettledStep ==
  ASSUME PageInv, [Next]_vars
  PROVE  SettledInv'
<1>0. /\ SettledInv /\ RequestsTyped /\ total \in Nat /\ currentPage \in Nat /\ Ceil(total) \in Nat
      /\ (total > 0 => Ceil(total) >= 1)
      /\ \A r \in requests : r.total \in Nat /\ Ceil(r.total) \in Nat /\ (r.total > 0 => Ceil(r.total) >= 1)
  <2>1. total \in Nat /\ \A r \in requests : r.total \in Nat
    BY FS_CardinalityType, ListAssumption DEF PageInv, ViewTyped, RequestsTyped, Requests
  <2> QED
    BY <2>1, PagesJoin DEF PageInv, SettingsTyped
<1>a. ASSUME NEW what, After(what) PROVE handlers' # << >>
  <2>1. handlers' = Append(handlers, what) /\ handlers \in Seq({"load", "silently", "clamped"})
    BY <1>0, <1>a DEF After, RequestsTyped
  <2> QED
    BY <2>1, AppendProperties
<1>b. ASSUME NEW silent, Ask(silent) PROVE requests' # {}
  BY <1>b DEF Ask
<1>c. ASSUME UNCHANGED total PROVE Ceil(total)' = Ceil(total)
  BY <1>c DEF Ceil
<1> USE DEF db, settings, view, SettledInv
<1>1. CASE HandleFilterChange
  BY <1>0, <1>1, <1>a, <1>c DEF HandleFilterChange
<1>2. CASE GoToPage
  BY <1>0, <1>2, <1>a, <1>c DEF GoToPage
<1>3. CASE HandleSortingChange
  BY <1>0, <1>3, <1>b, <1>c DEF HandleSortingChange
<1>4. CASE UrlShown
  BY <1>0, <1>4, <1>b, <1>c DEF UrlShown
<1>5. CASE Poll
  BY <1>0, <1>5, <1>b, <1>c DEF Poll
<1>6. CASE RowsChange
  BY <1>0, <1>6, <1>c DEF RowsChange
<1>7. ASSUME NEW r \in requests, Count(r) PROVE SettledInv'
  BY <1>0, <1>7, <1>c DEF Count
<1>8. ASSUME NEW r \in requests, Fetch(r) PROVE SettledInv'
  BY <1>0, <1>8, <1>c DEF Fetch
<1>9. ASSUME NEW r \in requests, Answer(r) PROVE SettledInv'
  <2>1. total' = r.total /\ Ceil(total)' = Ceil(r.total)
    BY <1>9 DEF Answer, Ceil
  <2>2. CASE Clamps(currentPage, r.total)
    <3>1. currentPage' = Ceil(r.total) /\ handlers' # << >>
      BY <1>9, <2>2, <1>a DEF Answer
    <3> QED
      BY <1>0, <2>1, <3>1
  <2>3. CASE ~Clamps(currentPage, r.total)
    <3>1. currentPage' = currentPage /\ loading' = FALSE
      BY <1>9, <2>3 DEF Answer
    <3> QED
      BY <1>0, <2>1, <2>3, <3>1 DEF Clamps
  <2> QED
    BY <2>2, <2>3
<1>10. ASSUME NEW r \in requests, Fails(r) PROVE SettledInv'
  BY <1>0, <1>10, <1>c DEF Fails
<1>11. CASE UNCHANGED vars
  BY <1>0, <1>11, <1>c DEF vars
<1> QED
  BY <1>1, <1>2, <1>3, <1>4, <1>5, <1>6, <1>7, <1>8, <1>9, <1>10, <1>11 DEF Next

\* A handler waits whenever the settings have changed, and what it asks for has them.
LEMMA SettingsInvStep ==
  ASSUME PageInv, [Next]_vars
  PROVE  SettingsInv'
<1>0. /\ SettingsInv /\ RequestsTyped /\ SettingsTyped' /\ ViewTyped
      /\ \A r \in requests : r.query.n \in Nat /\ r.query.n =< asked
      /\ answered.n \in Nat /\ answered.n =< asked /\ asked \in Nat
  BY SettingsStep DEF PageInv, RequestsTyped, Requests, Queries, ViewTyped
<1>a. ASSUME NEW what, After(what) PROVE handlers' # << >>
  <2>1. handlers' = Append(handlers, what) /\ handlers \in Seq({"load", "silently", "clamped"})
    BY <1>0, <1>a DEF After, RequestsTyped
  <2> QED
    BY <2>1, AppendProperties
<1>b. ASSUME NEW silent \in BOOLEAN, Ask(silent), UNCHANGED answered
      PROVE  SettingsInv'
  <2>1. PICK q \in Requests : /\ asked' = asked + 1 /\ requests' = requests \cup {q}
                              /\ q.query.n = asked' /\ AsSet(q.query)'
    BY <1>0, <1>b, AskIsTyped
  <2>2. \A r \in requests' : r.query.n = asked' => r = q
    BY <1>0, <2>1
  <2>3. answered'.n # asked'
    BY <1>0, <1>b, <2>1
  <2> QED
    BY <2>1, <2>2, <2>3 DEF SettingsInv
<1>c. ASSUME UNCHANGED <<filter, currentPage, descending, handlers, asked, answered, total>>,
             \A r \in requests' : \E p \in requests : r.query = p.query
      PROVE  SettingsInv'
  BY <1>0, <1>c DEF SettingsInv, AsSet, Set
<1> USE DEF db, settings, view
<1>1. CASE HandleFilterChange
  BY <1>1, <1>a DEF HandleFilterChange, SettingsInv
<1>2. CASE GoToPage
  BY <1>2, <1>a DEF GoToPage, SettingsInv
<1>3. CASE HandleSortingChange
  BY <1>3, <1>b DEF HandleSortingChange
<1>4. CASE UrlShown
  BY <1>4, <1>b DEF UrlShown
<1>5. CASE Poll
  BY <1>5, <1>b DEF Poll
<1>6. CASE RowsChange
  BY <1>6, <1>c DEF RowsChange
<1>7. ASSUME NEW r \in requests, Count(r) PROVE SettingsInv'
  <2>1. r \in Requests
    BY <1>0 DEF RequestsTyped
  <2>2. \A p \in requests' : \E q \in requests : p.query = q.query
    BY <1>7, <2>1 DEF Count, Requests
  <2> QED
    BY <1>7, <2>2, <1>c DEF Count
<1>8. ASSUME NEW r \in requests, Fetch(r) PROVE SettingsInv'
  <2>1. r \in Requests
    BY <1>0 DEF RequestsTyped
  <2>2. \A p \in requests' : \E q \in requests : p.query = q.query
    BY <1>8, <2>1 DEF Fetch, Requests
  <2> QED
    BY <1>8, <2>2, <1>c DEF Fetch
<1>9. ASSUME NEW r \in requests, Answer(r) PROVE SettingsInv'
  <2>1. CASE Clamps(currentPage, r.total)
    BY <1>9, <2>1, <1>a DEF Answer, SettingsInv
  <2>2. CASE ~Clamps(currentPage, r.total)
    <3>1. /\ requests' = requests \ {r} /\ total' = r.total /\ answered' = r.query
          /\ UNCHANGED <<filter, currentPage, descending, handlers, asked>>
      BY <1>9, <2>2 DEF Answer
    <3>2. SettingsInv /\ r \in requests
      BY <1>0
    <3> QED
      BY <3>1, <3>2 DEF SettingsInv, AsSet, Set
  <2> QED
    BY <2>1, <2>2
<1>10. ASSUME NEW r \in requests, Fails(r) PROVE SettingsInv'
  BY <1>10, <1>c DEF Fails
<1>11. CASE UNCHANGED vars
  BY <1>11, <1>c DEF vars
<1> QED
  BY <1>1, <1>2, <1>3, <1>4, <1>5, <1>6, <1>7, <1>8, <1>9, <1>10, <1>11 DEF Next

----------------------------------------------------------------------------
(* Walking through the pages.                                              *)

\* What was counted and fetched fits the table until that changes.
LEMMA RequestsInvStep ==
  ASSUME PageInv, [Next]_vars
  PROVE  RequestsInv'
<1>0. /\ RequestsInv /\ RequestsTyped /\ SettingsTyped' /\ changes \in Nat
      /\ \A r \in requests : r \in Requests /\ r.at \in Int
  BY SettingsStep DEF PageInv, RequestsTyped, Requests, TableTyped
<1>a. ASSUME UNCHANGED <<rows, role, changes>>, NEW r \in requests PROVE Fits(r)'
  <2>1. Result(r.query.filter)' = Result(r.query.filter)
    BY <1>a, ResultStays
  <2>2. Fits(r)
    BY <1>0 DEF RequestsInv
  <2> QED
    BY <1>a, <2>1, <2>2 DEF Fits
<1>b. ASSUME UNCHANGED <<rows, role, changes>>, requests' \subseteq requests PROVE RequestsInv'
  BY <1>a, <1>b DEF RequestsInv
<1>c. ASSUME UNCHANGED <<rows, role, changes>>, NEW silent \in BOOLEAN, Ask(silent)
      PROVE  RequestsInv'
  <2>1. PICK q \in Requests : requests' = requests \cup {q} /\ q.state = "asked" /\ q.at = 0
    BY <1>0, <1>c, AskIsTyped
  <2>2. Fits(q)'
    BY <1>0, <1>c, <2>1 DEF Fits
  <2> QED
    BY <1>a, <1>c, <2>1, <2>2 DEF RequestsInv
<1> USE DEF db, settings, view
<1>1. CASE HandleFilterChange
  BY <1>1, <1>b DEF HandleFilterChange
<1>2. CASE GoToPage
  BY <1>2, <1>b DEF GoToPage
<1>3. CASE HandleSortingChange
  BY <1>3, <1>c DEF HandleSortingChange
<1>4. CASE UrlShown
  BY <1>4, <1>c DEF UrlShown
<1>5. CASE Poll
  BY <1>5, <1>c DEF Poll
<1>6. CASE RowsChange
  <2>1. changes' = changes + 1 /\ requests' = requests
    BY <1>6 DEF RowsChange
  <2> QED
    BY <1>0, <2>1 DEF RequestsInv, Fits
<1>7. ASSUME NEW r \in requests, Count(r) PROVE RequestsInv'
  <2> DEFINE c == Cardinality(Result(r.query.filter))
             q == [r EXCEPT !.state = "counted", !.total = c, !.at = changes]
  <2>1. requests' = (requests \ {r}) \cup {q} /\ UNCHANGED <<rows, role, changes>>
    BY <1>7 DEF Count
  <2>2. q.query = r.query /\ q.state = "counted" /\ q.total = c /\ q.at = changes
    BY <1>0 DEF Requests
  <2>3. Result(r.query.filter)' = Result(r.query.filter)
    BY <2>1, ResultStays
  <2> HIDE DEF q
  <2>4. PICK p : p = q
    OBVIOUS
  <2>5. Fits(p)'
    BY <1>0, <2>1, <2>2, <2>3, <2>4 DEF Fits
  <2> QED
    BY <1>a, <2>1, <2>4, <2>5 DEF RequestsInv
<1>8. ASSUME NEW r \in requests, Fetch(r) PROVE RequestsInv'
  <2> DEFINE ids == Result(r.query.filter)
             a == IF r.at = changes THEN r.at ELSE -1
  <2>1. PICK s \in Sorted(ids, r.query.desc) :
           requests' = (requests \ {r}) \cup
              {[r EXCEPT !.state = "served", !.rows = Slice(s, r.query.page), !.at = a]}
    BY <1>8 DEF Fetch
  <2>2. r.state = "counted" /\ UNCHANGED <<rows, role, changes>>
    BY <1>8 DEF Fetch
  <2>3. ids' = ids
    BY <2>2, ResultStays
  <2>4. Fits(r)
    BY <1>0 DEF RequestsInv
  <2>5. PICK q : q = [r EXCEPT !.state = "served", !.rows = Slice(s, r.query.page), !.at = a]
    OBVIOUS
  <2>6. /\ q.query = r.query /\ q.total = r.total /\ q.state = "served" /\ q.at = a
        /\ q.rows = Slice(s, r.query.page)
    BY <1>0, <2>5 DEF Requests
  <2>7. a =< changes /\ (a = changes => r.at = changes)
    BY <1>0
  <2> HIDE DEF a
  <2>8. Fits(q)'
    BY <2>1, <2>2, <2>3, <2>4, <2>6, <2>7 DEF Fits
  <2> QED
    BY <1>a, <2>1, <2>2, <2>5, <2>8 DEF RequestsInv
<1>9. ASSUME NEW r \in requests, Answer(r) PROVE RequestsInv'
  BY <1>9, <1>b DEF Answer
<1>10. ASSUME NEW r \in requests, Fails(r) PROVE RequestsInv'
  BY <1>10, <1>b DEF Fails
<1>11. CASE UNCHANGED vars
  BY <1>11, <1>b DEF vars
<1> QED
  BY <1>1, <1>2, <1>3, <1>4, <1>5, <1>6, <1>7, <1>8, <1>9, <1>10, <1>11 DEF Next

\* A page from the list, put behind the pages before it, continues them.
LEMMA PageContinues ==
  ASSUME NEW ids, IsFiniteSet(ids), ids \subseteq Rows, NEW desc \in BOOLEAN,
         NEW s \in Sorted(ids, desc), NEW k \in Nat, NEW seen \in Seq(Rows),
         Begins(seen, k, ids, desc), NEW new \in Seq(Rows), new = seen \o Slice(s, k + 1)
  PROVE  Begins(new, k + 1, ids, desc)
<1> DEFINE n == Cardinality(ids)
           cut == Slice(s, k + 1)
           o == Offset(k + 1)
<1>1. n \in Nat /\ PageSize \in Nat \ {0}
  BY FS_CardinalityType, ListAssumption
<1>2. o \in Nat /\ k * PageSize = o /\ (k + 1) * PageSize = o + PageSize
  <2>1. k + 1 \in Nat \ {0}
    OBVIOUS
  <2>2. o \in Nat /\ o + PageSize = (k + 1) * PageSize
    BY <2>1, PagesJoin
  <2>3. CASE k = 0
    <3>1. o = 0
      BY <2>3, PagesJoin
    <3>2. 0 * PageSize = 0
      BY <1>1
    <3> QED
      BY <2>2, <2>3, <3>1, <3>2
  <2>4. CASE k # 0
    BY <2>2, <2>4, PagesJoin
  <2> QED
    BY <2>3, <2>4
<1>3. s \in [1..n -> ids] /\ s \in [1..n -> Rows]
  BY DEF Sorted
<1>4. /\ cut \in Seq(Rows) /\ Len(cut) = IF o < n THEN AtMost(n, o + PageSize) - o ELSE 0
      /\ \A i \in 1..Len(cut) : o + i \in 1..n /\ cut[i] = s[o + i]
  <2>1. PICK p \in Nat \ {0} : p = k + 1
    OBVIOUS
  <2>2. PICK m \in Nat : m = n
    BY <1>1
  <2>3. s \in [1..m -> Rows]
    BY <1>3, <2>2
  <2>4. /\ Slice(s, p) \in Seq(Rows)
        /\ Len(Slice(s, p)) = IF Offset(p) < m THEN AtMost(m, Offset(p) + PageSize) - Offset(p)
                              ELSE 0
        /\ \A i \in 1..Len(Slice(s, p)) : Offset(p) + i \in 1..m
                                         /\ Slice(s, p)[i] = s[Offset(p) + i]
    <3> HIDE DEF n, cut, o
    <3> QED
      BY ONLY <2>3, SliceIsCut
  <2> QED
    BY ONLY <2>1, <2>2, <2>4
<1>5. Len(seen) = AtMost(n, o)
  BY <1>2 DEF Begins
<1>6. /\ Len(new) = Len(seen) + Len(cut)
      /\ \A i \in 1..Len(new) : new[i] = IF i =< Len(seen) THEN seen[i] ELSE cut[i - Len(seen)]
  BY <1>4, ConcatProperties
<1>a. \A r \in ids : Untied(r, ids) => \A i \in 1..n : s[i] = r <=> i = Place(r, ids, desc)
  <2> SUFFICES ASSUME NEW r \in ids, Untied(r, ids)
               PROVE  \A i \in 1..Cardinality(ids) : s[i] = r <=> i = Place(r, ids, desc)
    OBVIOUS
  <2> QED
    BY UntiedHasItsPlace
<1> HIDE DEF n, cut, o
<1>7. Len(new) = AtMost(n, o + PageSize)
  <2>1. CASE o < n
    <3>1. Len(seen) = o /\ Len(cut) = AtMost(n, o + PageSize) - o
      BY <1>1, <1>2, <1>4, <1>5, <2>1 DEF AtMost
    <3>2. AtMost(n, o + PageSize) \in Nat
      BY <1>1, <1>2 DEF AtMost
    <3> QED
      BY <1>2, <1>6, <3>1, <3>2
  <2>2. CASE ~(o < n)
    BY <1>1, <1>2, <1>4, <1>5, <1>6, <2>2 DEF AtMost
  <2> QED
    BY <2>1, <2>2
<1>8. ASSUME NEW i \in 1..Len(new), ~(i =< Len(seen))
      PROVE  i \in 1..n /\ new[i] = s[i]
  <2>1. Len(cut) > 0 /\ o < n
    BY <1>1, <1>4, <1>6, <1>8
  <2>2. Len(seen) = o
    BY <1>1, <1>2, <1>5, <2>1 DEF AtMost
  <2>3. i - o \in 1..Len(cut) /\ o + (i - o) = i
    BY <1>2, <1>4, <1>6, <1>8, <2>2
  <2>4. new[i] = cut[i - o]
    BY <1>6, <1>8, <2>2
  <2> QED
    BY <1>4, <2>3, <2>4
<1>9. ASSUME NEW r \in ids, Untied(r, ids), NEW i \in 1..Len(new)
      PROVE  new[i] = r <=> i = Place(r, ids, desc)
  <2>1. CASE i =< Len(seen)
    BY <1>6, <1>9, <2>1 DEF Begins
  <2>2. CASE ~(i =< Len(seen))
    <3>1. i \in 1..Cardinality(ids) /\ new[i] = s[i]
      BY <1>8, <2>2 DEF n
    <3>2. s[i] = r <=> i = Place(r, ids, desc)
      BY <1>8, <1>9, <1>a, <2>2
    <3> QED
      BY <3>1, <3>2
  <2> QED
    BY <2>1, <2>2
<1> QED
  BY <1>2, <1>7, <1>9 DEF n, Begins

\* What was gone through stays the beginning of the list until the table changes.
LEMMA WalkInvStep ==
  ASSUME PageInv, [Next]_vars
  PROVE  WalkInv'
<1>0. /\ TableTyped /\ ViewTyped /\ RequestsInv /\ WalkInv /\ changes \in Nat
      /\ \A r \in requests : r \in Requests /\ r.query \in Queries /\ r.at \in Int
      /\ walk.page \in Nat /\ walk.at \in Nat /\ walk.seen \in Seq(Rows)
  BY DEF PageInv, RequestsTyped, Requests, TableTyped, ViewTyped
<1>a. ASSUME UNCHANGED <<rows, role, changes, total, answered, walk>> PROVE WalkInv'
  <2>1. Result(answered.filter)' = Result(answered.filter)
    BY <1>a, ResultStays
  <2> QED
    BY <1>0, <1>a, <2>1 DEF WalkInv
<1> USE DEF db, settings, view
<1>1. CASE HandleFilterChange
  BY <1>1, <1>a DEF HandleFilterChange
<1>2. CASE GoToPage
  BY <1>2, <1>a DEF GoToPage
<1>3. CASE HandleSortingChange
  BY <1>3, <1>a DEF HandleSortingChange
<1>4. CASE UrlShown
  BY <1>4, <1>a DEF UrlShown
<1>5. CASE Poll
  BY <1>5, <1>a DEF Poll
<1>6. CASE RowsChange
  <2>1. changes' = changes + 1 /\ walk' = walk
    BY <1>6 DEF RowsChange
  <2> QED
    BY <1>0, <2>1 DEF WalkInv
<1>7. ASSUME NEW r \in requests, Count(r) PROVE WalkInv'
  BY <1>7, <1>a DEF Count
<1>8. ASSUME NEW r \in requests, Fetch(r) PROVE WalkInv'
  BY <1>8, <1>a DEF Fetch
<1>9. ASSUME NEW r \in requests, Answer(r) PROVE WalkInv'
  <2> DEFINE ids == Result(r.query.filter)
             desc == r.query.desc
  <2>1. /\ r.state = "served" /\ UNCHANGED <<rows, role, changes>>
        /\ total' = r.total /\ answered' = r.query /\ walk' = Walked(r)
    BY <1>9 DEF Answer
  <2>2. /\ ids' = ids /\ ids \subseteq Rows /\ IsFiniteSet(ids) /\ desc \in BOOLEAN
        /\ answered'.filter = r.query.filter /\ answered'.desc = desc
    BY <1>0, <2>1, ResultIsFinite, ResultStays DEF Queries
  <2>3. /\ r.at =< changes /\ (r.at = changes => r.total = Cardinality(ids))
        /\ (r.at = changes => \E s \in Sorted(ids, desc) : r.rows = Slice(s, r.query.page))
    BY <1>0, <2>1 DEF RequestsInv, Fits
  <2>4. Result(answered.filter)' = ids
    BY <2>1, <2>2 DEF Result, Visible, Manages, Matches, User, HasPermission
  <2> HIDE DEF ids
  <2>5. ASSUME NEW k \in Nat, NEW seen \in Seq(Rows), walk'.page = k + 1, walk'.at = r.at,
               r.query.page = k + 1, walk'.seen = seen \o r.rows,
               r.at = changes => Begins(seen, k, ids, desc)
        PROVE  WalkInv'
    <3>1. CASE r.at # changes
      BY <2>1, <2>3, <2>5, <3>1 DEF WalkInv
    <3>2. CASE r.at = changes
      <4>1. PICK s \in Sorted(ids, desc) : r.rows = Slice(s, k + 1)
        BY <2>3, <2>5, <3>2
      <4>2. r.rows \in Seq(Rows)
        BY <1>0 DEF Requests
      <4>3. PICK new \in Seq(Rows) : new = seen \o Slice(s, k + 1) /\ new = walk'.seen
        BY <2>5, <4>1, <4>2, ConcatProperties
      <4>4. Begins(new, k + 1, ids, desc)
        BY <2>2, <2>5, <3>2, <4>3, PageContinues
      <4>5. total' = Cardinality(ids)
        BY <2>1, <2>3, <3>2
      <4>6. /\ walk'.at = changes' /\ walk'.page = k + 1 /\ answered'.desc = desc
            /\ changes' = changes
        BY <2>1, <2>2, <2>5, <3>2
      <4>7. Begins(walk.seen, walk.page, Result(answered.filter), answered.desc)'
            <=> Begins(walk'.seen, walk'.page, Result(answered.filter)', answered'.desc)
        BY DEF Begins, Untied, Place, Before, AtMost
      <4>8. Begins(walk'.seen, walk'.page, Result(answered.filter)', answered'.desc)
        BY <2>4, <4>3, <4>4, <4>6
      <4>9. Begins(walk.seen, walk.page, Result(answered.filter), answered.desc)'
        BY <4>7, <4>8
      <4>10. walk'.at =< changes' /\ (total = Cardinality(Result(answered.filter)))'
        BY <1>0, <2>3, <2>4, <4>5, <4>6
      <4> QED
        BY <4>9, <4>10 DEF WalkInv
    <3> QED
      BY <3>1, <3>2
  <2>6. CASE r.at >= 0 /\ r.query.page = 1
    <3>1. walk' = [page |-> 1, at |-> r.at, seen |-> r.rows]
      BY <1>0, <2>1, <2>6 DEF Walked
    <3>2. /\ walk'.page = 0 + 1 /\ walk'.at = r.at /\ r.query.page = 0 + 1
          /\ walk'.seen = << >> \o r.rows
      <4>1. r.rows \in Seq(Rows)
        BY <1>0 DEF Requests
      <4> QED
        BY <2>6, <3>1, <4>1, ConcatEmptySeq
    <3>3. << >> \in Seq(Rows) /\ Len(<< >>) = 0 /\ 1..0 = {}
      BY EmptySeq
    <3>4. Cardinality(ids) \in Nat /\ AtMost(Cardinality(ids), 0 * PageSize) = 0
      BY <2>2, FS_CardinalityType, ListAssumption DEF AtMost
    <3>5. Begins(<< >>, 0, ids, desc)
      BY <3>3, <3>4 DEF Begins
    <3> QED
      BY <2>5, <3>2, <3>3, <3>5
  <2>7. CASE /\ r.at >= 0 /\ r.query.page # 1
             /\ walk.page > 0 /\ r.query.page = walk.page + 1
             /\ r.query.filter = answered.filter /\ desc = answered.desc /\ r.at = walk.at
    <3>1. walk' = [page |-> r.query.page, at |-> r.at, seen |-> walk.seen \o r.rows]
      BY <2>1, <2>7 DEF Walked
    <3>2. r.at = changes => Begins(walk.seen, walk.page, ids, desc)
      BY <1>0, <2>7 DEF WalkInv, ids
    <3>3. PICK k \in Nat : k = walk.page
      BY <1>0
    <3>4. PICK seen \in Seq(Rows) : seen = walk.seen
      BY <1>0
    <3>5. walk'.page = k + 1 /\ walk'.at = r.at /\ r.query.page = k + 1 /\ walk'.seen = seen \o r.rows
      BY <2>7, <3>1, <3>3, <3>4
    <3> QED
      BY <2>5, <3>2, <3>3, <3>4, <3>5
  <2>8. CASE walk' = [page |-> 0, at |-> 0, seen |-> << >>]
    BY <1>0, <2>1, <2>8 DEF WalkInv
  <2> QED
    BY <2>1, <2>6, <2>7, <2>8 DEF Walked
<1>10. ASSUME NEW r \in requests, Fails(r) PROVE WalkInv'
  BY <1>10, <1>a DEF Fails
<1>11. CASE UNCHANGED vars
  BY <1>11, <1>a DEF vars
<1> QED
  BY <1>1, <1>2, <1>3, <1>4, <1>5, <1>6, <1>7, <1>8, <1>9, <1>10, <1>11 DEF Next

----------------------------------------------------------------------------
(* The invariant and what it shows.                                        *)

\* The invariant holds when the page is opened ...
LEMMA PageInvInit == Init => PageInv
<1> SUFFICES ASSUME Init PROVE PageInv
  OBVIOUS
<1> DEFINE q == [query |-> Asked, silent |-> FALSE, state |-> "asked",
                 total |-> 0, rows |-> << >>, at |-> 0]
<1>1. 0 \in 0..Cardinality(Rows) /\ << >> \in Seq(Rows) /\ Len(<< >>) = 0
  BY FS_CardinalityType, ListAssumption, EmptySeq
<1>2. TableTyped /\ SettingsTyped
  BY ListAssumption DEF Init, TableTyped, SettingsTyped, Filters
<1>3. ViewTyped
  BY <1>1, ListAssumption DEF Init, ViewTyped, NoAnswer, Queries, Filters
<1>4. Asked \in Queries /\ Asked.n = asked /\ AsSet(Asked)
  BY DEF Init, Asked, Queries, Filters, AsSet, Set
<1>5. requests = {q} /\ q \in Requests /\ q.query = Asked /\ q.state = "asked" /\ q.at = 0
      /\ q.rows = << >>
  BY <1>1, <1>4 DEF Init, Requests
<1>6. handlers = << >> /\ asked = 1 /\ changes = 0 /\ total = 0 /\ walk.page = 0 /\ walk.at = 0
      /\ answered.n = 0
  BY DEF Init, NoAnswer
<1> HIDE DEF q
<1>7. RequestsTyped
  BY <1>1, <1>4, <1>5, <1>6, EmptySeq, ListAssumption DEF RequestsTyped
<1>8. SettingsInv /\ SettledInv
  BY <1>4, <1>5, <1>6 DEF SettingsInv, SettledInv
<1>9. RequestsInv /\ WalkInv
  BY <1>5, <1>6 DEF RequestsInv, Fits, WalkInv
<1> QED
  BY <1>2, <1>3, <1>7, <1>8, <1>9 DEF PageInv

\* ... and after every step.
LEMMA PageInvStep == PageInv /\ [Next]_vars => PageInv'
<1> SUFFICES ASSUME PageInv, [Next]_vars PROVE PageInv'
  OBVIOUS
<1> QED
  BY SettingsStep, ViewTypedStep, RequestsTypedStep, SettledStep, SettingsInvStep,
     RequestsInvStep, WalkInvStep DEF PageInv

\* The invariant of a list page holds, for any table, sort keys and page size.
THEOREM PageInvariant == Spec => []PageInv
BY PageInvInit, PageInvStep, PTL DEF Spec

\* However requests overlap, fail and come late, a list page stays on a page that there is to
\* choose from (the clamping in loadRuns) and ends its loading.  Once nothing is outstanding it
\* shows the rows of the filter, order and page its controls are set to (handleFilterChange,
\* goToPage, handleSortingChange), provided that the last request was answered, and last.
THEOREM PageShowsWhatItIsSetTo == Spec => []ShownIsAsked
<1>1. PageInv => ShownIsAsked
  <2> SUFFICES ASSUME PageInv PROVE ShownIsAsked
    OBVIOUS
  <2>1. TypeOK
    BY DEF PageInv, SettingsTyped, ViewTyped, RequestsTyped, TypeOK
  <2>2. Latest => handlers = << >> /\ answered.n = asked
    BY DEF Latest, Quiet
  <2> QED
    BY <2>1, <2>2 DEF PageInv, SettledInv, SettingsInv, AsSet, Set, ShownIsAsked, Quiet
<1> QED
  BY <1>1, PageInvariant, PTL

\* Whatever the rows are: the list of networks, the list of runs, the routes of one network or
\* run, the public page of a run and the administrator's list agree on who may read a row.
THEOREM ListsAgreeWithRoutes == Spec => []ListedIffReadable
<1>1. ASSUME NEW r \in DOMAIN rows
      PROVE  /\ (r \in Result("none")) <=> CanAccess(User, rows[r], "networks:manage_all")
             /\ (r \in RunResult("none")) <=> CanAccess(User, rows[r], "runs:manage_all")
             /\ PublicRun(rows[r]) => r \in RunResult("public")
  <2>1. Matches("none", rows[r]) /\ (PublicRun(rows[r]) => Matches("public", rows[r]))
    BY DEF Matches, PublicRun
  <2>2. User.id = Viewer
    BY DEF User
  <2> QED
    BY <2>1, <2>2 DEF Result, RunResult, Visible, Manages, CanAccess, PublicRun
<1>2. ASSUME Manages, NEW f \in Filters PROVE Result(f) = AdminResult(f)
  BY <1>2 DEF Result, AdminResult, Visible
<1>3. ListedIffReadable
  BY <1>1, <1>2 DEF ListedIffReadable
<1> QED
  BY <1>3, PTL

\* A row that sorts by itself is among the rows before the end.
LEMMA PlaceIsInTheList ==
  ASSUME NEW ids, IsFiniteSet(ids), NEW r \in ids, NEW desc \in BOOLEAN,
         ids \subseteq Rows
  PROVE  Place(r, ids, desc) \in 1..Cardinality(ids)
<1>1. SortKey[r] \in Int
  BY ListAssumption
<1>2. Before(r, ids, desc) \subseteq ids \ {r}
  BY <1>1 DEF Before
<1>3. IsFiniteSet(ids \ {r}) /\ Cardinality(ids \ {r}) = Cardinality(ids) - 1
  BY FS_RemoveElement
<1>4. /\ IsFiniteSet(Before(r, ids, desc))
      /\ Cardinality(Before(r, ids, desc)) =< Cardinality(ids) - 1
  BY <1>2, <1>3, FS_Subset
<1>5. Cardinality(Before(r, ids, desc)) \in Nat /\ Cardinality(ids) \in Nat
  BY <1>4, FS_CardinalityType
<1> QED
  BY <1>4, <1>5 DEF Place

\* Who walks through all the pages of a list that does not change meanwhile meets every row
\* exactly once, unless another has the same sort key (the offset and limit of the list
\* routes): for any number of rows, any page size and any choice the database makes.
THEOREM WalkMeetsEveryUntiedRow == Spec => []PagesLoseOnlyTies
<1>1. PageInv => PagesLoseOnlyTies
  <2> SUFFICES ASSUME PageInv, walk.page > 0, walk.page = Ceil(total), walk.at = changes,
                      NEW r \in Result(answered.filter),
                      \A x \in Result(answered.filter) \ {r} : SortKey[x] # SortKey[r]
               PROVE  Cardinality({i \in DOMAIN walk.seen : walk.seen[i] = r}) = 1
    BY DEF PagesLoseOnlyTies
  <2> DEFINE ids == Result(answered.filter)
             p == Place(r, ids, answered.desc)
  <2>1. /\ IsFiniteSet(ids) /\ ids \subseteq Rows /\ Cardinality(ids) \in Nat
        /\ answered.desc \in BOOLEAN /\ walk.seen \in Seq(Rows)
    <3>1. TableTyped /\ ViewTyped
      BY DEF PageInv
    <3> QED
      BY <3>1, ResultIsFinite, FS_CardinalityType DEF ViewTyped, Queries
  <2>2. total = Cardinality(ids) /\ Begins(walk.seen, walk.page, ids, answered.desc)
    BY DEF PageInv, WalkInv
  <2>3. walk.page * PageSize >= Cardinality(ids) /\ walk.page * PageSize \in Nat
    BY <2>1, <2>2, PagesJoin, ListAssumption
  <2>4. Len(walk.seen) = Cardinality(ids)
    BY <2>1, <2>2, <2>3 DEF Begins, AtMost
  <2>5. \A i \in 1..Len(walk.seen) : walk.seen[i] = r <=> i = p
    BY <2>2 DEF Begins, Untied
  <2>6. p \in 1..Len(walk.seen)
    BY <2>1, <2>4, PlaceIsInTheList
  <2>7. DOMAIN walk.seen = 1..Len(walk.seen)
    BY <2>1
  <2> HIDE DEF p
  <2>8. {i \in DOMAIN walk.seen : walk.seen[i] = r} = {p}
    BY <2>5, <2>6, <2>7
  <2> QED
    BY <2>8, FS_Singleton
<1> QED
  BY <1>1, PageInvariant, PTL

=============================================================================
