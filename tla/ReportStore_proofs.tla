------------------------- MODULE ReportStore_proofs -------------------------
(***************************************************************************)
(* Theorems about ReportStore, for any number of networks, edits and loads, *)
(* with lost, failed and reordered requests.                               *)
(***************************************************************************)
EXTENDS ReportStore, TLAPS

Reports == SUBSET (1..MaxEdits)
SaveRecord == [net : Networks \cup {NoNetwork}, reports : Reports]

LEMMA FlushedType ==
  ASSUME TypeOK PROVE Flushed \subseteq Message
<1>1. CASE pending.net = NoNetwork BY <1>1 DEF Flushed
<1>2. CASE pending.net # NoNetwork
  <2>1. sent + 1 \in Nat /\ pending.net \in Networks /\ pending.reports \in Reports
    BY <1>2 DEF TypeOK, Reports
  <2>2. Put(sent + 1, pending.net, pending.reports) \in Message
    BY <2>1 DEF Put, Message, Reports
  <2> QED BY <1>2, <2>2 DEF Flushed
<1> QED BY <1>1, <1>2

LEMMA SchedulesType ==
  ASSUME TypeOK, NEW n \in Networks, NEW reports \in Reports, Schedules(n, reports)
  PROVE  pending' \in SaveRecord /\ initialized' \in BOOLEAN
  BY DEF TypeOK, Schedules, SaveRecord, Reports

LEMMA NoSaveType == NoSave \in SaveRecord BY DEF NoSave, SaveRecord, Reports

LEMMA TypeStep == ASSUME ReportAssumption, TypeOK, [Next]_vars PROVE TypeOK'
<1> USE DEF TypeOK, ReportAssumption
<1>1. ASSUME NEW n \in Networks, LoadForNetwork(n) PROVE TypeOK'
  <2>1. Get(sent + 2, n) \in Message BY DEF Get, Message
  <2>2. requests' \subseteq Message BY <1>1, <2>1, FlushedType DEF LoadForNetwork
  <2>3. pending' \in SaveRecord /\ initialized' \in BOOLEAN
    BY <1>1, NoSaveType DEF LoadForNetwork, StartsOver
  <2> QED BY <1>1, <2>2, <2>3 DEF LoadForNetwork, SaveRecord, Reports
<1>2. ASSUME NEW a \in answers, LoadEnds(a) PROVE TypeOK'
  <2>1. a \in Message /\ a.net \in Networks /\ a.reports \in Reports
    BY DEF Message, Reports
  <2>2. CASE StillOpen(a)
    <3>1. pending' \in SaveRecord /\ initialized' \in BOOLEAN
      BY <1>2, <2>1, <2>2, SchedulesType DEF LoadEnds, StillOpen
    <3> QED BY <1>2, <2>1, <2>2, <3>1 DEF LoadEnds, SaveRecord, Reports
  <2>3. CASE ~StillOpen(a) BY <1>2, <2>3 DEF LoadEnds
  <2> QED BY <2>2, <2>3
<1>3. CASE Edit
  <2>1. edits' \in 1..MaxEdits /\ currentNetworkId \in Networks BY <1>3 DEF Edit
  <2>2. state' \in Reports BY <1>3, <2>1 DEF Edit, Reports
  <2>3. pending' \in SaveRecord /\ initialized' \in BOOLEAN
    BY <1>3, <2>1, <2>2, SchedulesType DEF Edit
  <2>4. met' \subseteq Mishaps BY <1>3 DEF Edit, Meets, Mishaps
  <2>5. home' \in [1..MaxEdits -> Networks \cup {NoNetwork}] BY <1>3, <2>1 DEF Edit
  <2> QED BY <1>3, <2>1, <2>2, <2>3, <2>4, <2>5 DEF Edit, SaveRecord, Reports
<1>4. CASE Flush
  BY <1>4, FlushedType, NoSaveType DEF Flush, SaveRecord, Reports
<1>5. CASE Reload
  <2>1. requests' \subseteq Message BY <1>5, FlushedType DEF Reload
  <2>2. pending' \in SaveRecord BY <1>5, NoSaveType DEF Reload
  <2>3. /\ state' = {} /\ currentNetworkId' = NoNetwork /\ initialized' = FALSE
        /\ answers' = {} /\ sent' = sent + 1 /\ loads < MaxLoads /\ loads' = loads + 1
        /\ UNCHANGED <<saved, home, edits, met>>
    BY <1>5 DEF Reload
  <2>4. sent' \in Nat /\ loads' \in 0..MaxLoads BY <2>3
  <2> QED BY <2>1, <2>2, <2>3, <2>4 DEF SaveRecord, Reports
<1>6. ASSUME NEW m \in requests, Serve(m) PROVE TypeOK'
  <2>0. m \in Message /\ m.net \in Networks /\ m.reports \in Reports
        /\ m.kind \in {"get", "put"}
    BY DEF Message, Reports
  <2>1. met' \subseteq Mishaps BY <1>6 DEF Serve, Meets, Mishaps
  <2>2. CASE m.kind = "get"
    <3>1. saved[m.net] \in Reports BY <2>0 DEF Reports
    <3>2. [m EXCEPT !.reports = saved[m.net]] \in Message
      BY <2>0, <3>1 DEF Message, Reports
    <3>3. [m EXCEPT !.reports = saved[m.net]].kind = "get" BY <2>0, <2>2 DEF Message
    <3> QED BY <1>6, <2>1, <2>2, <3>2, <3>3 DEF Serve, screen
  <2>3. CASE m.kind # "get"
    <3>1. saved' \in [Networks -> Reports] BY <1>6, <2>0, <2>3 DEF Serve, Reports
    <3> QED BY <1>6, <2>1, <2>3, <3>1 DEF Serve, screen, Reports
  <2> QED BY <2>2, <2>3
<1>7. ASSUME NEW m \in requests, Fail(m) PROVE TypeOK'
  <2>1. met' \subseteq Mishaps BY <1>7 DEF Fail, Meets, Mishaps
  <2> QED BY <1>7, <2>1 DEF Fail, screen
<1>8. CASE UNCHANGED vars BY <1>8 DEF vars
<1> QED BY <1>1, <1>2, <1>3, <1>4, <1>5, <1>6, <1>7, <1>8 DEF Next

\* The store, the messages and the server keep their types in every behaviour of the
\* editor and the server.
THEOREM ReportTypes == Spec => []TypeOK
<1>1. ASSUME Init PROVE TypeOK
  <2>1. 0 \in 0..MaxEdits /\ 0 \in 0..MaxLoads BY ReportAssumption DEF ReportAssumption
  <2>2. pending \in SaveRecord BY <1>1, NoSaveType DEF Init
  <2>3. saved \in [Networks -> Reports] BY <1>1 DEF Init, Reports
  <2>4. home \in [1..MaxEdits -> Networks \cup {NoNetwork}] BY <1>1 DEF Init
  <2> QED BY <1>1, <2>1, <2>2, <2>3, <2>4 DEF Init, TypeOK, SaveRecord, Reports
<1>2. TypeOK /\ [Next]_vars => TypeOK' BY ReportAssumption, TypeStep
<1> QED BY <1>1, <1>2, PTL DEF Spec

----------------------------------------------------------------------------
\* PendingIsShown holds because the skip of a change and a save in waiting exclude each
\* other: whoever sets initialized to FALSE has flushed.
ShownInv == PendingIsShown /\ (~initialized => pending = NoSave)

LEMMA ShownStep == ASSUME ReportAssumption, TypeOK, ShownInv, [Next]_vars PROVE ShownInv'
<1> USE DEF ShownInv, PendingIsShown
<1>1. ASSUME NEW n \in Networks, LoadForNetwork(n) PROVE ShownInv'
  BY <1>1 DEF LoadForNetwork, StartsOver, NoSave
<1>2. ASSUME NEW a \in answers, LoadEnds(a) PROVE ShownInv'
  BY <1>2 DEF LoadEnds, StillOpen, Schedules, NoSave, TypeOK
<1>3. CASE Edit BY <1>3 DEF Edit, Schedules, NoSave, TypeOK
<1>4. CASE Flush \/ Reload BY <1>4 DEF Flush, Reload, NoSave
<1>5. ASSUME NEW m \in requests, Serve(m) \/ Fail(m) PROVE ShownInv'
  BY <1>5 DEF Serve, Fail, screen, NoSave
<1>6. CASE UNCHANGED vars BY <1>6 DEF vars, NoSave
<1> QED BY <1>1, <1>2, <1>3, <1>4, <1>5, <1>6 DEF Next

\* A save in waiting is the report on screen for the network on screen, whatever loads,
\* failures and early edits came before (loadForNetwork, flush, schedule).
THEOREM PendingShown == Spec => []PendingIsShown
<1>1. Init => ShownInv BY DEF Init, ShownInv, PendingIsShown
<1>2. TypeOK /\ ShownInv /\ [Next]_vars => ShownInv' BY ReportAssumption, ShownStep
<1>3. ShownInv => PendingIsShown BY DEF ShownInv
<1> QED BY <1>1, <1>2, <1>3, ReportTypes, PTL DEF Spec

----------------------------------------------------------------------------
\* Edits are numbered as they are made, so a new one is in no report yet.
Numbered ==
    /\ state \cup pending.reports \subseteq 1..edits
    /\ \A m \in requests \cup answers : m.reports \subseteq 1..edits
    /\ \A n \in Networks : saved[n] \subseteq 1..edits

AtHome(reports, n) == \A e \in reports : home[e] = n

\* SavesStayHome speaks of what was sent; a step may send what waits, and wait for what
\* is shown or has arrived.  Only the screen may hold the reports of another network, and
\* only while the answer that replaces them is awaited.
HomeInv ==
    /\ Numbered
    /\ ~initialized => pending = NoSave
    /\ "early_edit" \notin met =>
         /\ \A n \in Networks : AtHome(saved[n], n)
         /\ \A m \in requests \cup answers : AtHome(m.reports, m.net)
         /\ pending # NoSave => AtHome(pending.reports, pending.net)
         /\ AtHome(state, currentNetworkId) \/ Awaited # {}

LEMMA FlushedHome ==
  ASSUME TypeOK, HomeInv, NEW m \in Flushed
  PROVE  /\ m.reports = pending.reports /\ m.net = pending.net /\ m.kind = "put"
         /\ pending # NoSave
  BY DEF Flushed, Put, NoSave

LEMMA HomeStep == ASSUME TypeOK, HomeInv, [Next]_vars PROVE HomeInv'
<1>1. ASSUME NEW n \in Networks, LoadForNetwork(n) PROVE HomeInv'
  <2> DEFINE g == Get(sent + 2, n)
  <2>0. g.reports = {} /\ g.net = n /\ g.kind = "get" BY DEF Get
  <2>1. /\ requests' = requests \cup Flushed \cup {g} /\ currentNetworkId' = n
        /\ pending' = NoSave /\ UNCHANGED <<state, answers, saved, home, edits, met>>
    BY <1>1 DEF LoadForNetwork, StartsOver
  <2> HIDE DEF g
  <2>2. Numbered' BY <2>0, <2>1, FlushedHome DEF HomeInv, Numbered, NoSave
  <2>3. Awaited' # {} BY <2>0, <2>1 DEF Awaited
  <2>4. "early_edit" \notin met => \A m \in requests' \cup answers : AtHome(m.reports, m.net)
    BY <2>0, <2>1, FlushedHome DEF HomeInv, AtHome
  <2> QED BY <2>1, <2>2, <2>3, <2>4 DEF HomeInv, AtHome
<1>2. ASSUME NEW a \in answers, LoadEnds(a) PROVE HomeInv'
  <2>1. /\ answers' = answers \ {a}
        /\ UNCHANGED <<currentNetworkId, requests, saved, home, edits, met>>
    BY <1>2 DEF LoadEnds
  <2>2. CASE StillOpen(a)
    <3>1. state' = a.reports /\ a.net = currentNetworkId
          /\ (pending' = pending \/ pending' = [net |-> currentNetworkId, reports |-> a.reports])
          /\ initialized' = TRUE
      BY <1>2, <2>2 DEF LoadEnds, StillOpen, Schedules
    <3>2. pending'.reports \subseteq 1..edits BY <3>1 DEF HomeInv, Numbered
    <3>3. Numbered' BY <2>1, <3>1, <3>2 DEF HomeInv, Numbered
    <3> QED BY <2>1, <3>1, <3>3 DEF HomeInv, AtHome
  <2>3. CASE ~StillOpen(a)
    <3>1. UNCHANGED <<state, initialized, pending>> BY <1>2, <2>3 DEF LoadEnds
    <3>2. Numbered' BY <2>1, <3>1 DEF HomeInv, Numbered
    <3>3. Awaited' = Awaited BY <2>1, <2>3 DEF Awaited, StillOpen
    <3> QED BY <2>1, <3>1, <3>2, <3>3 DEF HomeInv, AtHome
  <2> QED BY <2>2, <2>3
<1>3. CASE Edit
  <2>1. /\ edits' = edits + 1 /\ edits' \in 1..MaxEdits /\ edits \in Nat
        /\ state' = state \cup {edits'} /\ currentNetworkId \in Networks
        /\ home' = [home EXCEPT ![edits'] = currentNetworkId]
        /\ UNCHANGED <<currentNetworkId, requests, answers, saved>>
        /\ initialized' = TRUE
        /\ (pending' = pending \/ pending' = [net |-> currentNetworkId, reports |-> state'])
    <3>1. edits' = edits + 1 /\ edits' \in 1..MaxEdits /\ edits \in Nat
          /\ currentNetworkId \in Networks
      BY <1>3, ReportAssumption DEF Edit, TypeOK, ReportAssumption
    <3>2. initialized' = TRUE
          /\ (pending' = pending \/ pending' = [net |-> currentNetworkId, reports |-> state'])
      BY <1>3 DEF Edit, Schedules
    <3> QED BY <1>3, <3>1, <3>2 DEF Edit
  <2>2. ~initialized => pending = NoSave BY DEF HomeInv
  <2>3. edits' \notin 1..edits /\ 1..edits \subseteq 1..edits' /\ edits' \in 1..edits'
    BY <2>1
  <2>4. state' \subseteq 1..edits' /\ pending'.reports \subseteq 1..edits'
    <3>1. state \subseteq 1..edits /\ pending.reports \subseteq 1..edits
      BY DEF HomeInv, Numbered
    <3>2. state' \subseteq 1..edits'
      <4>1. state' = state \cup {edits'} BY <2>1
      <4> QED BY <2>3, <3>1, <4>1
    <3>3. CASE pending' = pending BY <2>3, <3>1, <3>2, <3>3
    <3>4. CASE pending' = [net |-> currentNetworkId, reports |-> state'] BY <3>2, <3>4
    <3> QED BY <2>1, <3>2, <3>3, <3>4
  <2>5. Numbered' BY <2>1, <2>3, <2>4 DEF HomeInv, Numbered
  <2>6. ASSUME NEW reports, reports \subseteq 1..edits, NEW n, AtHome(reports, n)
        PROVE  AtHome(reports, n)'
    BY <2>1, <2>3, <2>6 DEF AtHome, TypeOK
  <2>7. ASSUME "early_edit" \notin met'
        PROVE  /\ \A n \in Networks : AtHome(saved[n], n)'
               /\ \A m \in requests \cup answers : AtHome(m.reports, m.net)'
               /\ pending' # NoSave => AtHome(pending.reports, pending.net)'
               /\ AtHome(state, currentNetworkId)'
    <3>1. "early_edit" \notin met /\ Awaited = {} BY <1>3, <2>7 DEF Edit, Meets
    <3>2. AtHome(state, currentNetworkId) BY <3>1 DEF HomeInv
    <3>3. state \subseteq 1..edits BY DEF HomeInv, Numbered
    <3>4. \A e \in state : home'[e] = currentNetworkId
      BY <2>6, <3>2, <3>3 DEF AtHome
    <3>5. home'[edits'] = currentNetworkId BY <2>1 DEF TypeOK
    <3>6. AtHome(state, currentNetworkId)' BY <2>1, <3>4, <3>5 DEF AtHome
    <3>7. \A n \in Networks : AtHome(saved[n], n)'
      <4>1. \A n \in Networks : AtHome(saved[n], n) /\ saved[n] \subseteq 1..edits
        BY <3>1 DEF HomeInv, Numbered
      <4> QED BY <2>1, <2>6, <4>1 DEF AtHome
    <3>8. \A m \in requests \cup answers : AtHome(m.reports, m.net)'
      <4>1. \A m \in requests \cup answers :
              AtHome(m.reports, m.net) /\ m.reports \subseteq 1..edits
        BY <3>1 DEF HomeInv, Numbered
      <4> QED BY <2>6, <4>1 DEF AtHome
    <3>9. pending' # NoSave => AtHome(pending.reports, pending.net)'
      <4>1. CASE pending' = [net |-> currentNetworkId, reports |-> state']
        BY <2>1, <3>6, <4>1 DEF AtHome
      <4>2. CASE pending' = pending
        <5>1. pending # NoSave => AtHome(pending.reports, pending.net)
              /\ pending.reports \subseteq 1..edits
          BY <3>1 DEF HomeInv, Numbered
        <5> QED BY <2>6, <4>2, <5>1 DEF AtHome
      <4> QED BY <2>1, <4>1, <4>2
    <3> QED BY <3>6, <3>7, <3>8, <3>9
  <2> QED BY <2>1, <2>5, <2>7 DEF HomeInv
<1>4. CASE Flush
  <2>1. /\ requests' = requests \cup Flushed /\ pending' = NoSave
        /\ UNCHANGED <<state, currentNetworkId, initialized, answers, saved, home, edits, met>>
    BY <1>4 DEF Flush
  <2>2. Numbered' BY <2>1, FlushedHome DEF HomeInv, Numbered, NoSave
  <2>3. "early_edit" \notin met => \A m \in requests' \cup answers : AtHome(m.reports, m.net)
    BY <2>1, FlushedHome DEF HomeInv, AtHome
  <2>4. Awaited \subseteq Awaited' BY <2>1 DEF Awaited
  <2> QED BY <2>1, <2>2, <2>3, <2>4 DEF HomeInv, AtHome
<1>5. CASE Reload
  <2>1. /\ requests' \subseteq requests \cup Flushed /\ answers' = {} /\ pending' = NoSave
        /\ state' = {} /\ UNCHANGED <<saved, home, edits, met>>
    BY <1>5 DEF Reload
  <2>2. Numbered' BY <2>1, FlushedHome DEF HomeInv, Numbered, NoSave
  <2>3. "early_edit" \notin met => \A m \in requests' \cup answers' : AtHome(m.reports, m.net)
    BY <2>1, FlushedHome DEF HomeInv, AtHome
  <2> QED BY <2>1, <2>2, <2>3 DEF HomeInv, AtHome
<1>6. ASSUME NEW m \in requests, Serve(m) PROVE HomeInv'
  <2>0. m \in Message BY DEF TypeOK
  <2>1. /\ requests' = requests \ {m} /\ met \subseteq met'
        /\ UNCHANGED <<state, currentNetworkId, initialized, pending, home, edits>>
    BY <1>6 DEF Serve, Meets, screen
  <2>2. CASE m.kind = "get"
    <3> DEFINE a == [m EXCEPT !.reports = saved[m.net]]
    <3>1. a.kind = "get" /\ a.net = m.net /\ a.reports = saved[m.net] /\ m.net \in Networks
      BY <2>0, <2>2 DEF Message
    <3>2. answers' = answers \cup {a} /\ saved' = saved BY <1>6, <2>2 DEF Serve
    <3> HIDE DEF a
    <3>3. Numbered' BY <2>1, <3>1, <3>2 DEF HomeInv, Numbered
    <3>4. Awaited # {} => Awaited' # {}
      <4>1. ASSUME NEW k \in Awaited PROVE k \in Awaited' \/ a \in Awaited'
        BY <2>1, <3>1, <3>2 DEF Awaited
      <4> QED BY <4>1
    <3>5. "early_edit" \notin met =>
            \A k \in requests' \cup answers' : AtHome(k.reports, k.net)
      BY <2>1, <3>1, <3>2 DEF HomeInv
    <3> QED BY <2>1, <3>2, <3>3, <3>4, <3>5 DEF HomeInv, AtHome
  <2>3. CASE m.kind # "get"
    <3>1. answers' = answers BY <1>6, <2>3 DEF Serve
    <3>2. saved' = saved \/ saved' = [saved EXCEPT ![m.net] = m.reports]
      BY <1>6, <2>3 DEF Serve
    <3>3. \A n \in Networks : saved'[n] = saved[n] \/ (n = m.net /\ saved'[n] = m.reports)
      BY <3>2 DEF TypeOK
    <3>4. Numbered' BY <2>1, <3>1, <3>3 DEF HomeInv, Numbered
    <3>5. Awaited' = Awaited BY <2>1, <2>3, <3>1 DEF Awaited
    <3>6. "early_edit" \notin met => \A n \in Networks : AtHome(saved'[n], n)
      BY <3>3 DEF HomeInv
    <3> QED BY <2>1, <3>1, <3>4, <3>5, <3>6 DEF HomeInv, AtHome
  <2> QED BY <2>2, <2>3
<1>7. ASSUME NEW m \in requests, Fail(m) PROVE HomeInv'
  <2>1. /\ requests' = requests \ {m} /\ met \subseteq met'
        /\ answers' = (IF m.kind = "get" THEN answers \cup {m} ELSE answers)
        /\ UNCHANGED <<state, currentNetworkId, initialized, pending, saved, home, edits>>
    BY <1>7 DEF Fail, Meets, screen
  <2>2. requests' \cup answers' \subseteq requests \cup answers BY <2>1
  <2>3. Numbered' BY <2>1, <2>2 DEF HomeInv, Numbered
  <2>4. Awaited' = Awaited BY <2>1 DEF Awaited
  <2> QED BY <2>1, <2>2, <2>3, <2>4 DEF HomeInv, AtHome
<1>8. CASE UNCHANGED vars
  BY <1>8 DEF vars, HomeInv, Numbered, AtHome, Awaited
<1> QED BY <1>1, <1>2, <1>3, <1>4, <1>5, <1>6, <1>7, <1>8 DEF Next

\* As long as nobody edits before the reports are loaded, no report is ever saved for
\* another network, whatever fails or is reordered (loadForNetwork, "initialized").
THEOREM ReportsStayHome == Spec => []SavesStayHome
<1>1. ASSUME Init PROVE HomeInv
  BY <1>1 DEF Init, HomeInv, Numbered, AtHome, NoSave
<1>2. TypeOK /\ HomeInv /\ [Next]_vars => HomeInv' BY HomeStep
<1>3. HomeInv => SavesStayHome BY DEF HomeInv, SavesStayHome, AtHome
<1> QED BY <1>1, <1>2, <1>3, ReportTypes, PTL DEF Spec

----------------------------------------------------------------------------
\* Whoever has reports that cover those of a network can overwrite nothing with them.
Puts(n) == {m \in requests : m.kind = "put" /\ m.net = n}
Covers(reports, n) == saved[n] \subseteq reports /\ \A m \in Puts(n) : m.reports \subseteq reports

\* Requests are numbered as they are sent.
SentInOrder ==
    /\ \A m \in requests : m.id =< sent
    /\ \A k, m \in requests : k.id = m.id => k = m

\* The saves of a network grow, and while a load of it is under way nothing new is saved.
SavesGrow ==
    /\ \A m \in requests : m.kind = "put" => saved[m.net] \subseteq m.reports
    /\ \A k, m \in requests : m.kind = "put" /\ k.net = m.net /\ k.id < m.id =>
          IF k.kind = "put" THEN k.reports \subseteq m.reports ELSE m.reports \subseteq saved[m.net]

\* So what arrives, what waits and, once nothing is awaited, what is shown covers all that
\* was sent before.
ArrivalsCover == \A a \in answers : a.reports = saved[a.net] /\ Covers(a.reports, a.net)
PendingCovers ==
    pending # NoSave => /\ pending.net \in Networks /\ Covers(pending.reports, pending.net)
                        /\ Awaited # {} => pending.reports \subseteq saved[pending.net]
ScreenCovers ==
    currentNetworkId # NoNetwork /\ Awaited = {} => Covers(state, currentNetworkId)

Calm == met \subseteq {"lost_save"}
StayInv ==
    /\ SentInOrder
    /\ Calm => SavesGrow /\ ArrivalsCover /\ PendingCovers /\ ScreenCovers

LEMMA FlushedIs ==
  ASSUME TypeOK, PendingIsShown, NEW m \in Flushed
  PROVE  /\ m.reports = pending.reports /\ m.net = pending.net /\ m.kind = "put"
         /\ m.id = sent + 1 /\ pending # NoSave
         /\ pending.net = currentNetworkId /\ pending.reports = state
  BY DEF Flushed, Put, NoSave, PendingIsShown

\* A save that is sent covers the saves before it, and is nothing new while a load is under way.
LEMMA SendStays ==
  ASSUME TypeOK, ShownInv, StayInv, sent' \in Nat, sent' > sent, saved' = saved,
         \A m \in requests' : \/ m \in requests \/ m \in Flushed
                              \/ m.kind = "get" /\ m.id = sent + 2 /\ sent' = sent + 2,
         \A k, m \in requests' : k.kind = "get" /\ k.id = sent + 2 /\ m.id = k.id => k = m
  PROVE  /\ SentInOrder'
         /\ Calm => /\ SavesGrow'
                    /\ \A n \in Networks : \A reports :
                         /\ Covers(reports, n)
                         /\ n = currentNetworkId /\ pending # NoSave => state \subseteq reports
                         => Covers(reports, n)'
<1>1. /\ \A m \in requests : m.id \in Nat /\ m.id =< sent /\ m.net \in Networks
                             /\ m.kind \in {"get", "put"}
      /\ sent \in Nat /\ PendingIsShown
  BY DEF TypeOK, Message, StayInv, SentInOrder, ShownInv
<1>2. \A m \in requests' \ requests : m.id > sent /\ m.id =< sent' /\ m.id \in Nat
                                      /\ (m.id = sent + 1 \/ (m.kind = "get" /\ m.id = sent + 2))
  <2> SUFFICES ASSUME NEW m \in requests' \ requests
               PROVE  /\ m.id > sent /\ m.id =< sent' /\ m.id \in Nat
                      /\ (m.id = sent + 1 \/ (m.kind = "get" /\ m.id = sent + 2))
    OBVIOUS
  <2>1. CASE m \in Flushed
    <3>1. m.id = sent + 1
      BY <1>1, <2>1, FlushedIs
    <3>2. sent + 1 > sent /\ sent + 1 =< sent' /\ sent + 1 \in Nat
      BY <1>1
    <3> QED
      BY <3>1, <3>2
  <2>2. CASE m.kind = "get" /\ m.id = sent + 2 /\ sent' = sent + 2
    BY <1>1, <2>2
  <2> QED
    BY <2>1, <2>2
<1>3. \A k, m \in Flushed : k = m
  BY DEF Flushed
<1>4. SentInOrder'
  <2>1. \A m \in requests' : m.id =< sent'
    BY <1>1, <1>2
  <2>2. ASSUME NEW k \in requests', NEW m \in requests', k.id = m.id PROVE k = m
    <3>1. CASE k \in requests
      <4>1. m \in requests
        BY <1>1, <1>2, <2>2, <3>1
      <4> QED
        BY <2>2, <3>1, <4>1 DEF StayInv, SentInOrder
    <3>2. CASE k \in Flushed
      <4>1. k.id = sent + 1
        BY <1>1, <3>2, FlushedIs
      <4>2. m.id = sent + 1 /\ ~(m.id =< sent) /\ m.id # sent + 2
        BY <1>1, <2>2, <4>1
      <4>3. m \in Flushed
        BY <1>1, <4>2
      <4> QED
        BY <1>3, <3>2, <4>3
    <3>3. CASE k.kind = "get" /\ k.id = sent + 2
      BY <2>2, <3>3
    <3> QED
      BY <3>1, <3>2, <3>3
  <2> QED
    BY <2>1, <2>2 DEF SentInOrder
<1>5. ASSUME Calm PROVE SavesGrow'
  <2>0. SavesGrow /\ PendingCovers
    BY <1>5 DEF StayInv
  <2>1. ASSUME NEW m \in requests', m.kind = "put" PROVE saved[m.net] \subseteq m.reports
    <3>1. CASE m \in requests
      BY <2>0, <2>1, <3>1 DEF SavesGrow
    <3>2. CASE m \in Flushed
      BY <1>1, <2>0, <3>2, FlushedIs DEF PendingCovers, Covers
    <3> QED
      BY <2>1, <3>1, <3>2
  <2>2. ASSUME NEW k \in requests', NEW m \in requests', m.kind = "put", k.net = m.net, k.id < m.id
        PROVE  IF k.kind = "put" THEN k.reports \subseteq m.reports
                                 ELSE m.reports \subseteq saved[m.net]
    <3>1. CASE m \in requests
      <4>1. k \in requests
        BY <1>1, <1>2, <2>2, <3>1
      <4> QED
        BY <2>0, <2>2, <3>1, <4>1 DEF SavesGrow
    <3>2. CASE m \in Flushed
      <4>1. /\ m.reports = pending.reports /\ m.net = pending.net /\ m.id = sent + 1
            /\ pending # NoSave /\ pending.net = currentNetworkId
        BY <1>1, <3>2, FlushedIs
      <4>2. k \in requests
        BY <1>1, <1>2, <2>2, <4>1
      <4>3. CASE k.kind = "put"
        BY <2>0, <2>2, <4>1, <4>2, <4>3 DEF PendingCovers, Covers, Puts
      <4>4. CASE k.kind # "put"
        <5>1. k \in Awaited
          BY <1>1, <2>2, <4>1, <4>2, <4>4 DEF Awaited
        <5> QED
          BY <2>0, <4>1, <4>4, <5>1 DEF PendingCovers
      <4> QED
        BY <4>3, <4>4
    <3> QED
      BY <2>2, <3>1, <3>2
  <2> QED
    BY <2>1, <2>2 DEF SavesGrow
<1>6. ASSUME NEW n \in Networks, NEW reports, Covers(reports, n),
             n = currentNetworkId /\ pending # NoSave => state \subseteq reports
      PROVE  Covers(reports, n)'
  <2>1. ASSUME NEW m \in requests', m.kind = "put", m.net = n PROVE m.reports \subseteq reports
    <3>1. CASE m \in requests
      BY <1>6, <2>1, <3>1 DEF Covers, Puts
    <3>2. CASE m \in Flushed
      BY <1>1, <1>6, <2>1, <3>2, FlushedIs
    <3> QED
      BY <2>1, <3>1, <3>2
  <2> QED
    BY <1>6, <2>1 DEF Covers, Puts
<1> QED
  BY <1>4, <1>5, <1>6

LEMMA ArrivalsAreKnown ==
  ASSUME TypeOK, StayInv, Calm, ShownInv, NEW a \in answers
  PROVE  /\ a.net \in Networks /\ a.kind = "get" /\ a.reports = saved[a.net]
         /\ Covers(a.reports, a.net)
         /\ a.net = currentNetworkId /\ pending # NoSave => state \subseteq a.reports
<1>1. a.net \in Networks /\ a.kind = "get"
  BY DEF TypeOK, Message
<1>2. a.reports = saved[a.net] /\ Covers(a.reports, a.net)
  BY DEF StayInv, ArrivalsCover
<1>3. ASSUME a.net = currentNetworkId, pending # NoSave PROVE state \subseteq a.reports
  <2>1. a \in Awaited
    BY <1>1, <1>3 DEF Awaited
  <2> QED
    BY <1>2, <1>3, <2>1 DEF StayInv, PendingCovers, ShownInv, PendingIsShown
<1> QED
  BY <1>1, <1>2, <1>3

LEMMA StayLoad ==
  ASSUME TypeOK, ShownInv, StayInv, NEW n \in Networks, LoadForNetwork(n) PROVE StayInv'
<1> DEFINE g == Get(sent + 2, n)
<1>0. g.id = sent + 2 /\ g.net = n /\ g.kind = "get"
  BY DEF Get
<1>1. /\ requests' = requests \cup Flushed \cup {g} /\ currentNetworkId' = n
      /\ pending' = NoSave /\ sent' = sent + 2 /\ UNCHANGED <<state, answers, saved, met>>
  BY DEF LoadForNetwork, StartsOver
<1> HIDE DEF g
<1>2. sent \in Nat /\ sent' \in Nat /\ sent' > sent /\ saved' = saved
  BY <1>1 DEF TypeOK
<1>3. \A m \in requests' : \/ m \in requests \/ m \in Flushed
                           \/ m.kind = "get" /\ m.id = sent + 2 /\ sent' = sent + 2
  BY <1>0, <1>1
<1>4. \A k, m \in requests' : k.kind = "get" /\ k.id = sent + 2 /\ m.id = k.id => k = m
  <2>1. \A m \in requests : m.id \in Nat /\ m.id =< sent
    BY DEF TypeOK, Message, StayInv, SentInOrder
  <2>2. \A m \in Flushed : m.id = sent + 1
    BY FlushedIs DEF ShownInv
  <2>3. \A m \in requests' : m.id = sent + 2 => m = g
    BY <1>1, <1>2, <2>1, <2>2
  <2> QED
    BY <2>3
<1>5. /\ SentInOrder'
      /\ Calm => /\ SavesGrow'
                 /\ \A k \in Networks : \A reports :
                      /\ Covers(reports, k)
                      /\ k = currentNetworkId /\ pending # NoSave => state \subseteq reports
                      => Covers(reports, k)'
  BY <1>2, <1>3, <1>4, SendStays
<1>6. g \in Awaited'
  BY <1>0, <1>1 DEF Awaited
<1>7. Calm => ArrivalsCover'
  BY <1>1, <1>5, ArrivalsAreKnown DEF ArrivalsCover
<1> QED
  BY <1>1, <1>5, <1>6, <1>7 DEF StayInv, PendingCovers, ScreenCovers, Calm

LEMMA StaySend ==
  ASSUME TypeOK, ShownInv, StayInv, Flush \/ Reload PROVE StayInv'
<1>1. /\ requests' \subseteq requests \cup Flushed /\ sent' = sent + 1 /\ pending' = NoSave
      /\ answers' \subseteq answers /\ UNCHANGED <<saved, met>>
      /\ \/ currentNetworkId' = NoNetwork
         \/ /\ requests' = requests \cup Flushed /\ pending # NoSave
            /\ UNCHANGED <<state, currentNetworkId, answers>>
  BY DEF Flush, Reload
<1>2. sent \in Nat /\ sent' \in Nat /\ sent' > sent /\ saved' = saved
  BY <1>1 DEF TypeOK
<1>3. \A m \in requests' : m \in requests \/ m \in Flushed
  BY <1>1
<1>4. \A k, m \in requests' : k.kind = "get" /\ k.id = sent + 2 /\ m.id = k.id => k = m
  <2>1. \A m \in requests : m.id \in Nat /\ m.id =< sent
    BY DEF TypeOK, Message, StayInv, SentInOrder
  <2>2. \A m \in Flushed : m.id = sent + 1
    BY FlushedIs DEF ShownInv
  <2>3. \A m \in requests' : m.id # sent + 2
    BY <1>2, <1>3, <2>1, <2>2
  <2> QED
    BY <2>3
<1>5. /\ SentInOrder'
      /\ Calm => /\ SavesGrow'
                 /\ \A k \in Networks : \A reports :
                      /\ Covers(reports, k)
                      /\ k = currentNetworkId /\ pending # NoSave => state \subseteq reports
                      => Covers(reports, k)'
  BY <1>2, <1>3, <1>4, SendStays
<1>6. Calm => ArrivalsCover'
  BY <1>1, <1>5, ArrivalsAreKnown DEF ArrivalsCover
<1>7. ASSUME Calm, currentNetworkId' # NoNetwork, Awaited' = {}
      PROVE  Covers(state, currentNetworkId)'
  <2>1. UNCHANGED <<state, currentNetworkId>> /\ Awaited \subseteq Awaited'
    BY <1>1, <1>7 DEF Awaited
  <2>2. Covers(state, currentNetworkId) /\ currentNetworkId \in Networks
    BY <1>7, <2>1 DEF StayInv, ScreenCovers, TypeOK
  <2>3. \A reports : reports = state => Covers(reports, currentNetworkId)'
    BY <1>5, <1>7, <2>1, <2>2
  <2> QED
    BY <2>1, <2>3 DEF Covers
<1> QED
  BY <1>1, <1>5, <1>6, <1>7 DEF StayInv, PendingCovers, ScreenCovers, Calm

LEMMA StayArrival ==
  ASSUME TypeOK, ShownInv, StayInv, NEW a \in answers, LoadEnds(a) PROVE StayInv'
<1>1. /\ answers' = answers \ {a}
      /\ UNCHANGED <<currentNetworkId, requests, saved, sent, met>>
  BY DEF LoadEnds
<1>2. SentInOrder' /\ (Calm => SavesGrow' /\ ArrivalsCover')
  BY <1>1 DEF StayInv, SentInOrder, SavesGrow, ArrivalsCover, Covers, Puts
<1>3. CASE ~StillOpen(a)
  <2>1. UNCHANGED <<state, pending>>
    BY <1>3 DEF LoadEnds
  <2>2. Awaited' = Awaited
    BY <1>1, <1>3 DEF Awaited, StillOpen
  <2> QED
    BY <1>1, <1>2, <2>1, <2>2 DEF StayInv, PendingCovers, ScreenCovers, Covers, Puts, Calm
<1>4. CASE StillOpen(a)
  <2>1. /\ a.net = currentNetworkId /\ state' = a.reports
        /\ \/ pending' = [net |-> currentNetworkId, reports |-> a.reports]
           \/ pending' = NoSave
    BY <1>4 DEF LoadEnds, StillOpen, Schedules, ShownInv, TypeOK
  <2>2. Calm => a.net \in Networks /\ a.reports = saved[a.net] /\ Covers(a.reports, a.net)
    BY ArrivalsAreKnown
  <2>3. Calm => ScreenCovers'
    BY <1>1, <2>1, <2>2 DEF ScreenCovers, Covers, Puts
  <2>4. Calm => PendingCovers'
    BY <1>1, <2>1, <2>2 DEF PendingCovers, Covers, Puts, NoSave
  <2> QED
    BY <1>1, <1>2, <2>3, <2>4 DEF StayInv, Calm
<1> QED
  BY <1>3, <1>4

LEMMA StayEdit ==
  ASSUME TypeOK, ShownInv, StayInv, Edit PROVE StayInv'
<1>1. /\ state \subseteq state' /\ currentNetworkId # NoNetwork
      /\ met' = met \cup (IF Awaited = {} THEN {} ELSE {"early_edit"})
      /\ UNCHANGED <<currentNetworkId, requests, answers, saved, sent>>
      /\ \/ pending' = [net |-> currentNetworkId, reports |-> state']
         \/ pending' = NoSave
  BY DEF Edit, Meets, Schedules, ShownInv, TypeOK
<1>2. SentInOrder' /\ Awaited' = Awaited
  BY <1>1 DEF StayInv, SentInOrder, Awaited
<1>3. ASSUME Calm' PROVE Calm /\ Awaited = {}
  BY <1>1, <1>3 DEF Calm
<1>4. ASSUME Calm' PROVE SavesGrow' /\ ArrivalsCover'
  BY <1>1, <1>3, <1>4 DEF StayInv, SavesGrow, ArrivalsCover, Covers, Puts
<1>5. ASSUME Calm' PROVE Covers(state, currentNetworkId)'
  BY <1>1, <1>3, <1>5 DEF StayInv, ScreenCovers, Covers, Puts
<1>6. ASSUME Calm' PROVE PendingCovers'
  BY <1>1, <1>2, <1>3, <1>5, <1>6 DEF PendingCovers, Covers, Puts, TypeOK
<1> QED
  BY <1>2, <1>4, <1>5, <1>6 DEF StayInv, ScreenCovers

\* Requests that leave the way change nothing for those that stay.
LEMMA FewerRequests ==
  ASSUME StayInv, requests' \subseteq requests, sent' = sent, saved' = saved
  PROVE  /\ SentInOrder' /\ (Calm => SavesGrow')
         /\ \A reports, n : Covers(reports, n) => Covers(reports, n)'
  BY DEF StayInv, SentInOrder, SavesGrow, Covers, Puts

LEMMA StayServeGet ==
  ASSUME TypeOK, StayInv, NEW m \in requests, m.kind = "get", Serve(m) PROVE StayInv'
<1>0. m \in Message
  BY DEF TypeOK
<1>a. PICK a : a = [m EXCEPT !.reports = saved[m.net]]
  OBVIOUS
<1>1. a.kind = "get" /\ a.net = m.net /\ a.reports = saved[m.net] /\ m.net \in Networks
      /\ m.id \in Nat
  BY <1>0, <1>a DEF Message
<1>2. /\ requests' = requests \ {m} /\ answers' = answers \cup {a}
      /\ met' = met \cup (IF Overtakes(m) THEN {"reordered"} ELSE {})
      /\ UNCHANGED <<state, currentNetworkId, pending, saved, sent>>
  BY <1>a DEF Serve, Meets, screen
<1>3. SentInOrder' /\ (Calm => SavesGrow')
      /\ \A reports, n : Covers(reports, n) => Covers(reports, n)'
  BY <1>2, FewerRequests
<1>4. ASSUME Calm' PROVE Calm /\ ~Overtakes(m)
  BY <1>2, <1>4 DEF Calm
<1>5. Awaited # {} <=> Awaited' # {}
  <2>1. ASSUME NEW k \in Awaited PROVE k \in Awaited' \/ a \in Awaited'
    BY <1>1, <1>2 DEF Awaited
  <2>2. ASSUME NEW k \in Awaited' PROVE k \in Awaited \/ m \in Awaited
    BY <1>1, <1>2 DEF Awaited
  <2> QED
    BY <2>1, <2>2
<1>6. ASSUME Calm' PROVE Covers(a.reports, a.net)'
  <2>1. ASSUME NEW p \in Puts(m.net) PROVE p.reports \subseteq saved[m.net]
    <3>1. p \in requests /\ p.kind = "put" /\ p.net = m.net /\ p.id \in Nat
      BY DEF Puts, TypeOK, Message
    <3>2. ~(p.id < m.id)
      BY <1>4, <1>6, <3>1 DEF Overtakes
    <3>3. p.id # m.id
      BY <3>1 DEF StayInv, SentInOrder
    <3>4. m.id < p.id
      BY <1>1, <3>1, <3>2, <3>3
    <3> QED
      BY <1>4, <1>6, <3>1, <3>4 DEF StayInv, SavesGrow
  <2> QED
    BY <1>1, <1>2, <2>1 DEF Covers, Puts
<1>7. ASSUME Calm' PROVE ArrivalsCover'
  <2>1. ArrivalsCover
    BY <1>4, <1>7 DEF StayInv
  <2> QED
    BY <1>1, <1>2, <1>3, <1>6, <1>7, <2>1 DEF ArrivalsCover, Covers
<1>8. ASSUME Calm' PROVE PendingCovers' /\ ScreenCovers'
  <2>1. PendingCovers /\ ScreenCovers
    BY <1>4, <1>8 DEF StayInv
  <2> QED
    BY <1>2, <1>3, <1>5, <2>1 DEF PendingCovers, ScreenCovers, Covers
<1> QED
  BY <1>3, <1>4, <1>7, <1>8 DEF StayInv

LEMMA StayServePut ==
  ASSUME TypeOK, StayInv, NEW m \in requests, m.kind # "get", Serve(m)
  PROVE  /\ StayInv'
         /\ Calm' => \A n \in Networks : saved[n] \subseteq saved'[n]
<1>0. m.kind = "put" /\ m.net \in Networks /\ m.id \in Nat
  BY DEF TypeOK, Message
<1>1. /\ requests' = requests \ {m}
      /\ met' = met \cup (IF Overtakes(m) THEN {"reordered"} ELSE {})
      /\ UNCHANGED <<state, currentNetworkId, pending, answers, sent>>
      /\ saved' = saved \/ saved' = [saved EXCEPT ![m.net] = m.reports]
  BY DEF Serve, Meets, screen
<1>2. ASSUME Calm' PROVE Calm /\ ~Overtakes(m)
  BY <1>1, <1>2 DEF Calm
<1>3. SentInOrder'
  BY <1>1 DEF StayInv, SentInOrder
<1>4. Awaited' = Awaited
  BY <1>0, <1>1 DEF Awaited
<1>5. \A n \in Networks : saved'[n] = saved[n] \/ (n = m.net /\ saved'[n] = m.reports)
  BY <1>1 DEF TypeOK
<1>6. ASSUME Calm', NEW p \in Puts(m.net) PROVE m.reports \subseteq p.reports
  <2>1. p \in requests /\ p.kind = "put" /\ p.net = m.net /\ p.id \in Nat
    BY DEF Puts, TypeOK, Message
  <2>2. ~(p.id < m.id)
    BY <1>2, <1>6, <2>1 DEF Overtakes
  <2>3. CASE p.id = m.id
    BY <2>1, <2>3 DEF StayInv, SentInOrder
  <2>4. CASE p.id # m.id
    <3>1. m.id < p.id
      BY <1>0, <2>1, <2>2, <2>4
    <3> QED
      BY <1>0, <1>2, <1>6, <2>1, <3>1 DEF StayInv, SavesGrow
  <2> QED
    BY <2>3, <2>4
<1>7. ASSUME Calm' PROVE \A n \in Networks : saved[n] \subseteq saved'[n]
  <2>1. saved[m.net] \subseteq m.reports
    BY <1>0, <1>2, <1>7 DEF StayInv, SavesGrow
  <2> QED
    BY <1>5, <2>1
<1>8. ASSUME Calm', NEW reports, NEW n \in Networks, Covers(reports, n)
      PROVE  Covers(reports, n)'
  <2>1. m.net = n => m.reports \subseteq reports
    BY <1>0, <1>8 DEF Covers, Puts
  <2> QED
    BY <1>1, <1>5, <1>8, <2>1 DEF Covers, Puts
<1>9. ASSUME Calm' PROVE SavesGrow'
  <2>0. SavesGrow /\ requests \subseteq Message
    BY <1>2, <1>9 DEF StayInv, TypeOK
  <2>1. ASSUME NEW p \in requests', p.kind = "put" PROVE saved'[p.net] \subseteq p.reports
    <3>1. p \in requests /\ p.net \in Networks
      BY <1>1, <2>0 DEF Message
    <3>2. CASE saved'[p.net] = saved[p.net]
      BY <2>0, <2>1, <3>1, <3>2 DEF SavesGrow
    <3>3. CASE p.net = m.net /\ saved'[p.net] = m.reports
      BY <1>6, <1>9, <2>1, <3>1, <3>3 DEF Puts
    <3> QED
      BY <1>5, <3>1, <3>2, <3>3
  <2>2. ASSUME NEW k \in requests', NEW p \in requests', p.kind = "put", k.net = p.net,
               k.id < p.id
        PROVE  IF k.kind = "put" THEN k.reports \subseteq p.reports
                                 ELSE p.reports \subseteq saved'[p.net]
    <3>1. k \in requests /\ p \in requests /\ p.net \in Networks
      BY <1>1, <2>0 DEF Message
    <3>2. saved[p.net] \subseteq saved'[p.net]
      BY <1>7, <1>9, <3>1
    <3> QED
      BY <2>0, <2>2, <3>1, <3>2 DEF SavesGrow
  <2> QED
    BY <2>1, <2>2 DEF SavesGrow
<1>10. ASSUME Calm' PROVE ArrivalsCover'
  <2>1. ASSUME NEW b \in answers PROVE b.reports = saved'[b.net] /\ Covers(b.reports, b.net)'
    <3>1. b.net \in Networks
      BY DEF TypeOK, Message
    <3>2. b.reports = saved[b.net] /\ Covers(b.reports, b.net)
      BY <1>2, <1>10 DEF StayInv, ArrivalsCover
    <3>3. saved[b.net] \subseteq saved'[b.net]
      BY <1>7, <1>10, <3>1
    <3>4. b.net = m.net => m.reports \subseteq b.reports
      BY <1>0, <3>2 DEF Covers, Puts
    <3>5. b.reports = saved'[b.net]
      <4>1. CASE saved'[b.net] = saved[b.net]
        BY <3>2, <4>1
      <4>2. CASE b.net = m.net /\ saved'[b.net] = m.reports
        <5>1. saved'[b.net] \subseteq b.reports /\ b.reports \subseteq saved'[b.net]
          BY <3>2, <3>3, <3>4, <4>2
        <5>2. \A S, T : S \subseteq T /\ T \subseteq S => S = T
          OBVIOUS
        <5> QED
          BY <5>1, <5>2
      <4> QED
        BY <1>5, <3>1, <4>1, <4>2
    <3>6. \A p \in Puts(b.net)' : p.reports \subseteq b.reports
      BY <1>1, <3>2 DEF Covers, Puts
    <3> QED
      BY <3>5, <3>6 DEF Covers
  <2> QED
    BY <1>1, <2>1 DEF ArrivalsCover
<1>11. ASSUME Calm' PROVE PendingCovers'
  <2>1. ASSUME pending # NoSave
        PROVE  /\ pending.net \in Networks /\ Covers(pending.reports, pending.net)
               /\ Awaited # {} => pending.reports \subseteq saved[pending.net]
    BY <1>2, <1>11, <2>1 DEF StayInv, PendingCovers
  <2> QED
    BY <1>1, <1>4, <1>7, <1>8, <1>11, <2>1 DEF PendingCovers
<1>12. ASSUME Calm' PROVE ScreenCovers'
  <2>1. ASSUME currentNetworkId # NoNetwork, Awaited = {}
        PROVE  Covers(state, currentNetworkId) /\ currentNetworkId \in Networks
    BY <1>2, <1>12, <2>1 DEF StayInv, ScreenCovers, TypeOK
  <2> QED
    BY <1>1, <1>4, <1>8, <1>12, <2>1 DEF ScreenCovers
<1> QED
  BY <1>3, <1>7, <1>9, <1>10, <1>11, <1>12 DEF StayInv

LEMMA StayFail ==
  ASSUME TypeOK, StayInv, NEW m \in requests, Fail(m) PROVE StayInv'
<1>1. /\ requests' = requests \ {m} /\ UNCHANGED <<state, currentNetworkId, pending, saved, sent>>
      /\ IF m.kind = "get" THEN met' = met \cup {"failed_load"}
                           ELSE met' = met \cup {"lost_save"} /\ answers' = answers
  BY DEF Fail, Meets, screen
<1>2. SentInOrder' /\ (Calm => SavesGrow')
      /\ \A reports, n : Covers(reports, n) => Covers(reports, n)'
  BY <1>1, FewerRequests
<1>3. ASSUME Calm' PROVE Calm /\ answers' = answers /\ Awaited' = Awaited
  BY <1>1, <1>3 DEF Calm, Awaited
<1>4. ASSUME Calm' PROVE ArrivalsCover'
  BY <1>1, <1>2, <1>3, <1>4 DEF StayInv, ArrivalsCover, Covers
<1>5. ASSUME Calm' PROVE PendingCovers' /\ ScreenCovers'
  <2>1. PendingCovers /\ ScreenCovers
    BY <1>3, <1>5 DEF StayInv
  <2> QED
    BY <1>1, <1>2, <1>3, <1>5, <2>1 DEF PendingCovers, ScreenCovers, Covers
<1> QED
  BY <1>2, <1>3, <1>4, <1>5 DEF StayInv

LEMMA StayStep ==
  ASSUME TypeOK, ShownInv, StayInv, [Next]_vars
  PROVE  /\ StayInv'
         /\ Calm' => \A n \in Networks : saved[n] \subseteq saved'[n]
<1>1. ASSUME NEW n \in Networks, LoadForNetwork(n) PROVE StayInv' /\ saved' = saved
  BY <1>1, StayLoad DEF LoadForNetwork
<1>2. ASSUME NEW a \in answers, LoadEnds(a) PROVE StayInv' /\ saved' = saved
  BY <1>2, StayArrival DEF LoadEnds
<1>3. CASE Edit
  BY <1>3, StayEdit DEF Edit
<1>4. CASE Flush \/ Reload
  BY <1>4, StaySend DEF Flush, Reload
<1>5. ASSUME NEW m \in requests, Serve(m)
      PROVE  StayInv' /\ (Calm' => \A n \in Networks : saved[n] \subseteq saved'[n])
  <2>1. CASE m.kind = "get"
    BY <1>5, <2>1, StayServeGet DEF Serve
  <2>2. CASE m.kind # "get"
    BY <1>5, <2>2, StayServePut
  <2> QED
    BY <2>1, <2>2
<1>6. ASSUME NEW m \in requests, Fail(m) PROVE StayInv' /\ saved' = saved
  BY <1>6, StayFail DEF Fail
<1>7. CASE UNCHANGED vars
  BY <1>7 DEF vars, StayInv, SentInOrder, Calm, SavesGrow, ArrivalsCover, PendingCovers,
              ScreenCovers, Covers, Puts, Awaited
<1> QED
  BY <1>1, <1>2, <1>3, <1>4, <1>5, <1>6, <1>7 DEF Next

\* What the server has stored is never overwritten by a report that lacks it, although a
\* save, an automatic save and a load of the same network may be under way at once
\* (loadForNetwork, flush, schedule and save_network_reports): without reordering, failed
\* loads and early edits, every save covers all that was saved before it.
THEOREM SavesAreKept == Spec => SavedEditsStay
<1>1. ASSUME Init PROVE ShownInv /\ StayInv
  <2>1. requests = {} /\ answers = {} /\ pending = NoSave /\ currentNetworkId = NoNetwork
    BY <1>1 DEF Init
  <2> QED
    BY <2>1 DEF ShownInv, PendingIsShown, StayInv, SentInOrder, SavesGrow, ArrivalsCover,
                PendingCovers, ScreenCovers
<1>2. TypeOK /\ ShownInv /\ StayInv /\ [Next]_vars => ShownInv' /\ StayInv'
  BY ReportAssumption, ShownStep, StayStep
<1>3. TypeOK /\ ShownInv /\ StayInv /\ [Next]_vars
        => [met' \subseteq {"lost_save"}
              => \A n \in Networks : saved[n] \subseteq saved'[n]]_<<saved, met>>
  BY StayStep DEF Calm
<1> QED
  BY <1>1, <1>2, <1>3, ReportTypes, PTL DEF Spec, SavedEditsStay
=============================================================================
