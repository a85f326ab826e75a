---------------------------- MODULE ReportStore ----------------------------
(***************************************************************************)
(* The report editor of the front end (stores/reportStore.svelte.ts): one  *)
(* store for the network on screen, saved automatically 1.5 s after the    *)
(* last change, and the server that keeps the reports of each network.     *)
(*                                                                         *)
(* Reports are the set of edits they contain; the default report is {}.    *)
(* A handler runs to its end before the $effect that watches the state, and *)
(* both before the next event, so they are one step.  Requests and answers *)
(* are handled in any order.  "met" remembers the mishaps of a behaviour;  *)
(* the properties say which of them they can stand.                        *)
(***************************************************************************)
EXTENDS Naturals

CONSTANTS Networks,    \* networks the user visits
          Editable,    \* those the user may modify
          NoNetwork,   \* currentNetworkId = null
          MaxEdits,    \* bound on the edits of a behaviour
          MaxLoads     \* bound on the calls of loadForNetwork and on reloads

ASSUME ReportAssumption ==
    /\ Editable \subseteq Networks
    /\ NoNetwork \notin Networks
    /\ MaxEdits \in Nat /\ MaxLoads \in Nat

VARIABLES state,             \* the reports on screen
          currentNetworkId,
          initialized,       \* the next change is scheduled, not skipped
          pending,           \* what the timer will save, and for which network
          requests,          \* requests on their way to the server
          answers,           \* answers on their way back
          saved,             \* reports of each network on the server
          home,              \* the network on screen when each edit was made
          edits, sent, loads, \* edits made, requests sent, loads and reloads
          met                \* the mishaps so far

screen == <<state, currentNetworkId, initialized, pending>>
vars == <<state, currentNetworkId, initialized, pending, requests, answers, saved,
          home, edits, sent, loads, met>>

Mishaps == {"early_edit", "failed_load", "lost_save", "reordered"}
NoSave == [net |-> NoNetwork, reports |-> {}]

Init ==
    /\ state = {} /\ currentNetworkId = NoNetwork
    /\ initialized = FALSE /\ pending = NoSave
    /\ requests = {} /\ answers = {}
    /\ saved = [n \in Networks |-> {}]
    /\ home = [e \in 1..MaxEdits |-> NoNetwork]
    /\ edits = 0 /\ sent = 0 /\ loads = 0
    /\ met = {}

----------------------------------------------------------------------------
Meets(mishaps) == met' = met \cup mishaps

Get(id, n) == [id |-> id, kind |-> "get", net |-> n, reports |-> {}]
Put(id, n, reports) == [id |-> id, kind |-> "put", net |-> n, reports |-> reports]

\* flush: the requests it sends; the pending save is cleared by its callers.
ForgetsToSave == {}
SavesAnyway == {Put(sent + 1, pending.net, pending.reports)}
Flushed ==
    IF pending.net = NoNetwork THEN {} ELSE {Put(sent + 1, pending.net, pending.reports)}

\* schedule: the first change after a load is the load itself and is skipped.
Schedules(n, reports) ==
    /\ pending' = IF initialized THEN [net |-> n, reports |-> reports] ELSE pending
    /\ initialized' = TRUE

\* A load of the same network changes no state until its answer is there; the load
\* of another one triggers the effect at once, and that uses up the skip.
KeepsPending(n) ==
    /\ pending' = pending
    /\ initialized' = (n # currentNetworkId)
KeepsInitialized(n) ==
    /\ pending' = IF initialized /\ n # currentNetworkId
                    THEN [net |-> n, reports |-> state] ELSE NoSave
    /\ initialized' = (initialized \/ n # currentNetworkId)
StartsOver(n) ==
    /\ pending' = NoSave
    /\ initialized' = (n # currentNetworkId)

\* loadForNetwork, up to its await.
LoadForNetwork(n) ==
    /\ loads < MaxLoads
    /\ StartsOver(n)
    /\ currentNetworkId' = n
    /\ requests' = requests \cup Flushed \cup {Get(sent + 2, n)}
    /\ sent' = sent + 2 /\ loads' = loads + 1
    /\ UNCHANGED <<state, answers, saved, home, edits, met>>

\* loadForNetwork, after its await: a late answer for another network is dropped, a
\* failed load shows the default report.
Anyway(a) == TRUE
StillOpen(a) == a.net = currentNetworkId

LoadEnds(a) ==
    /\ a \in answers
    /\ answers' = answers \ {a}
    /\ IF StillOpen(a)
         THEN state' = a.reports /\ Schedules(currentNetworkId, a.reports)
         ELSE UNCHANGED <<state, initialized, pending>>
    /\ UNCHANGED <<currentNetworkId, requests, saved, home, edits, sent, loads, met>>

\* Reports of the network on screen that are still to come.
Awaited == {m \in requests \cup answers : m.kind = "get" /\ m.net = currentNetworkId}

\* addReport, removeReport, updateCard, ...: the editor is not hidden during a load.
Edit ==
    /\ currentNetworkId # NoNetwork /\ edits < MaxEdits
    /\ edits' = edits + 1
    /\ state' = state \cup {edits'}
    /\ home' = [home EXCEPT ![edits'] = currentNetworkId]
    /\ Schedules(currentNetworkId, state')
    /\ Meets(IF Awaited = {} THEN {} ELSE {"early_edit"})
    /\ UNCHANGED <<currentNetworkId, requests, answers, saved, sent, loads>>

\* The timer fires, or the page is hidden.
Flush ==
    /\ pending # NoSave
    /\ requests' = requests \cup Flushed
    /\ sent' = sent + 1
    /\ pending' = NoSave
    /\ UNCHANGED <<state, currentNetworkId, initialized, answers, saved, home, edits, loads, met>>

\* beforeunload flushes; the browser keeps the save alive and drops what it awaits.
Reload ==
    /\ currentNetworkId # NoNetwork /\ loads < MaxLoads /\ loads' = loads + 1
    /\ requests' = {m \in requests : m.kind = "put"} \cup Flushed
    /\ sent' = sent + 1
    /\ state' = {} /\ currentNetworkId' = NoNetwork
    /\ initialized' = FALSE /\ pending' = NoSave
    /\ answers' = {}
    /\ UNCHANGED <<saved, home, edits, met>>

----------------------------------------------------------------------------
(* The server and the way to it.                                           *)

Overtakes(m) == \E k \in requests : k.net = m.net /\ k.id < m.id

\* get_network_reports answers; save_network_reports stores the reports of a user who
\* may modify the network (a refusal is an answer nobody reads).
Serve(m) ==
    /\ m \in requests
    /\ requests' = requests \ {m}
    /\ Meets(IF Overtakes(m) THEN {"reordered"} ELSE {})
    /\ IF m.kind = "get"
         THEN /\ answers' = answers \cup {[m EXCEPT !.reports = saved[m.net]]}
              /\ UNCHANGED saved
         ELSE /\ saved' = IF m.net \in Editable
                            THEN [saved EXCEPT ![m.net] = m.reports] ELSE saved
              /\ UNCHANGED answers
    /\ UNCHANGED <<screen, home, edits, sent, loads>>

\* A request is lost; one such failure per behaviour is the bound.
Fail(m) ==
    /\ m \in requests
    /\ met \cap {"failed_load", "lost_save"} = {}
    /\ requests' = requests \ {m}
    /\ IF m.kind = "get"
         THEN answers' = answers \cup {m} /\ Meets({"failed_load"})
         ELSE UNCHANGED answers /\ Meets({"lost_save"})
    /\ UNCHANGED <<screen, saved, home, edits, sent, loads>>

----------------------------------------------------------------------------
Next ==
    \/ Edit \/ Flush \/ Reload
    \/ \E n \in Networks : LoadForNetwork(n)
    \/ \E a \in answers : LoadEnds(a)
    \/ \E m \in requests : Serve(m) \/ Fail(m)

Spec == Init /\ [][Next]_vars

\* The timer fires, requests are served and answers come back.
Fairness ==
    /\ WF_vars(Flush)
    /\ WF_vars(\E m \in requests : Serve(m))
    /\ WF_vars(\E a \in answers : LoadEnds(a))

FairSpec == Spec /\ Fairness

----------------------------------------------------------------------------
(* Properties.                                                             *)

Message == [id : Nat, kind : {"get", "put"}, net : Networks, reports : SUBSET (1..MaxEdits)]

\* Type invariant of the store, the messages and the server.
TypeOK ==
    /\ state \subseteq 1..MaxEdits
    /\ currentNetworkId \in Networks \cup {NoNetwork}
    /\ initialized \in BOOLEAN
    /\ pending \in [net : Networks \cup {NoNetwork}, reports : SUBSET (1..MaxEdits)]
    /\ requests \subseteq Message
    /\ answers \subseteq Message /\ (\A a \in answers : a.kind = "get")
    /\ saved \in [Networks -> SUBSET (1..MaxEdits)]
    /\ home \in [1..MaxEdits -> Networks \cup {NoNetwork}]
    /\ edits \in 0..MaxEdits /\ sent \in Nat /\ loads \in 0..MaxLoads
    /\ met \subseteq Mishaps

\* A save in waiting is always the report on screen for the network on screen, whatever
\* loads, failures and early edits came before: loadForNetwork flushes before it
\* switches, and every later change of the state goes through schedule.
PendingIsShown ==
    pending # NoSave => pending.net = currentNetworkId /\ pending.reports = state

\* Reports never end up with another network: while a load is in flight the state is
\* still that of the network before, and "initialized" keeps it from being saved under
\* the new id.  An edit made during the load defeats this.
SavesStayHome ==
    "early_edit" \notin met =>
        \A n \in Networks :
            /\ \A e \in saved[n] : home[e] = n
            /\ \A m \in requests : m.net = n => \A e \in m.reports : home[e] = n

\* What the server once stored is never overwritten by a report that lacks it: the
\* loads and saves of one page do not undo one another unless they are reordered, a
\* load fails or somebody edits too early.
SavedEditsStay ==
    [][met' \subseteq {"lost_save"} => \A n \in Networks : saved[n] \subseteq saved'[n]]_<<saved, met>>

\* An edit of a network the user may modify reaches the server and stays there, although
\* the user goes on to other networks or leaves the page before the timer fires.
EditIsSaved ==
    \A e \in 1..MaxEdits : \A n \in Editable :
        (home[e] = n) ~> (e \in saved[n] \/ met # {})
=============================================================================
