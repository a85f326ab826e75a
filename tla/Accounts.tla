------------------------------ MODULE Accounts ------------------------------
(***************************************************************************)
(* Users, their logins through an OAuth provider, their sessions and API    *)
(* keys, and what administrators do to other users.                         *)
(*                                                                         *)
(* A login and an administrator's request are handlers of several database *)
(* statements; a step ends where another handler gets in.  PostgreSQL reads *)
(* what is committed, and an insert of a name that another transaction has *)
(* inserted waits for the end of that transaction.  User ids are random and *)
(* never given out twice: here they are numbered.  "met" remembers which   *)
(* handlers ran together.                                                  *)
(***************************************************************************)
EXTENDS Naturals, FiniteSets, Permissions

CONSTANTS People,    \* accounts at the provider, each with its username
          BotNames,  \* usernames administrators give to bots
          NoName,    \* the name in a handler that needs none
          Offered,   \* roles administrators give
          Slots,     \* handlers that may run at a time
          MaxUsers   \* bound on the users ever inserted

ASSUME AccountsAssumption ==
    /\ MaxUsers \in Nat /\ Offered \subseteq Roles
    /\ NoName \notin People \cup BotNames

Ids == Nat \ {0}
NoUser == 0
Names == People \cup BotNames

Changes == {"role", "approve", "delete"}
Needed == [k \in Changes \cup {"bot", "key", "unkey"} |->
              IF k \in {"key", "unkey"} THEN "system:manage" ELSE "users:manage"]

VARIABLES users,     \* id -> [name, role] of the stored users
          links,     \* user_oauth_providers: person -> id
          keys,      \* owners of an API key that works
          sessions,  \* stored users some session in Redis names; a session that names a
                     \* deleted user resolves to nobody, and its id never comes back
          born,      \* ids given out
          req,       \* the handlers
          founders,  \* ids that registered as administrators
          met

vars == <<users, links, keys, sessions, born, req, founders, met>>
stored == <<users, links, keys, sessions, born, founders>>

Live == DOMAIN users
Idle == [pc |-> "idle", kind |-> "login", who |-> NoUser, name |-> NoName,
         target |-> NoUser, new |-> "pending"]
LoginPcs == {"link", "known", "register", "insert", "commit", "session"}

Init ==
    /\ users = [i \in {} |-> {}] /\ links = [p \in {} |-> NoUser]
    /\ keys = {} /\ sessions = {} /\ born = 0 /\ founders = {} /\ met = {}
    /\ req = [s \in Slots |-> Idle]

At(s, pc) == req[s].pc = pc
Goes(s, pc) == req' = [req EXCEPT ![s].pc = pc]
Ends(s) == req' = [req EXCEPT ![s] = Idle]
Only(ids, f) == [i \in ids |-> f[i]]
Others(s, pcs) == {t \in Slots \ {s} : req[t].pc \in pcs}

----------------------------------------------------------------------------
(* oauth_callback with login_or_register_oauth_user.                       *)

Room == born + Cardinality({t \in Slots : req[t].pc \in LoginPcs}) < MaxUsers

Login(s) == \E p \in People :
    /\ At(s, "idle") /\ Room
    /\ req' = [req EXCEPT ![s] = [Idle EXCEPT !.pc = "link", !.name = p,
                  !.who = IF p \in DOMAIN links THEN links[p] ELSE NoUser]]
    /\ UNCHANGED <<stored, met>>

\* A link whose user is gone is dropped, and the person registers again.
FindUser(s) ==
    /\ At(s, "link")
    /\ req' = [req EXCEPT ![s].pc = IF req[s].who \in Live THEN "known" ELSE "register",
                          ![s].who = IF req[s].who \in Live THEN req[s].who ELSE NoUser]
    /\ UNCHANGED <<stored, met>>

\* The first user becomes an administrator.
RoleIfNoneLoggedIn == IF sessions = {} THEN "admin" ELSE "pending"
FirstRole == IF Live = {} THEN "admin" ELSE "pending"
LookForUsers(s) ==
    /\ At(s, "register")
    /\ req' = [req EXCEPT ![s].pc = "insert", ![s].new = FirstRole]
    /\ met' = met \cup (IF Others(s, {"insert", "commit"}) # {} THEN {"rushed"} ELSE {})
    /\ UNCHANGED stored

\* username is unique; a person registers with one link, which is unique too.
Waits(s, n) == \E t \in Others(s, {"commit"}) : req[t].name = n
Taken(n) == \E i \in Live : users[i].name = n

InsertUser(s) ==
    /\ At(s, "insert")
    /\ ~Waits(s, req[s].name)
    /\ IF Taken(req[s].name) THEN Ends(s) ELSE Goes(s, "commit")
    /\ UNCHANGED <<stored, met>>

NewUser(n, r) == [i \in Live \cup {born + 1} |->
                    IF i = born + 1 THEN [name |-> n, role |-> r] ELSE users[i]]

CommitLogin(s) ==
    /\ At(s, "commit")
    /\ LET n == req[s].name IN
       /\ users' = NewUser(n, req[s].new)
       /\ links' = [p \in DOMAIN links \cup {n} |-> IF p = n THEN born + 1 ELSE links[p]]
    /\ born' = born + 1
    /\ founders' = IF req[s].new = "admin" THEN founders \cup {born + 1} ELSE founders
    /\ req' = [req EXCEPT ![s] = [Idle EXCEPT !.pc = "session", !.who = born + 1]]
    /\ UNCHANGED <<keys, sessions, met>>

\* last_login of a user deleted meanwhile can not be written.
CommitKnown(s) ==
    /\ At(s, "known")
    /\ IF req[s].who \in Live
         THEN req' = [req EXCEPT ![s].pc = "session", ![s].name = NoName] ELSE Ends(s)
    /\ UNCHANGED <<stored, met>>

\* The user is read again after the commit; one deleted by then gets no session.
OpenSession(s) ==
    /\ At(s, "session")
    /\ sessions' = sessions \cup ({req[s].who} \cap Live)
    /\ Ends(s)
    /\ UNCHANGED <<users, links, keys, born, founders, met>>

\* A session ends: delete_session, or its time to live is over.
Logout == \E i \in sessions : sessions' = sessions \ {i}
                              /\ UNCHANGED <<users, links, keys, born, founders, req, met>>

----------------------------------------------------------------------------
(* The admin routes.                                                       *)

\* resolve_current_user: whom a cookie or a bearer token stands for.
Resolved == sessions \cup keys
Permitted(kind) == {i \in Resolved : HasPermission(users[i], Needed[kind])}

\* What the routes check on the target they have loaded.
ChecksNothing(a, t, new) == TRUE
ChecksRole(a, t, new) == t # a \/ new = "admin"
Allows(kind, a, t, new) ==
    \/ kind = "role" /\ ChecksRole(a, t, new)
    \/ kind = "approve" /\ users[t].role = "pending"
    \/ kind = "delete" /\ t # a
    \/ kind = "key" /\ users[t].role = "bot"
    \/ kind = "unkey" /\ t \in keys

\* The actor is looked up by a middleware, in a session of its own, the target by the route.
Together(s, kind) ==
    IF kind \in Changes /\ \E t \in Others(s, {"load", "apply"}) : req[t].kind \in Changes
      THEN {"together"} ELSE {}

Requests == [kind : {"role"}, new : Offered] \cup [kind : {"approve"}, new : {"user"}]
            \cup [kind : {"delete", "key", "unkey"}, new : {"pending"}]

Enter(s) == \E r \in Requests, t \in Live : \E a \in Permitted(r.kind) :
    /\ At(s, "idle")
    /\ req' = [req EXCEPT ![s] = [Idle EXCEPT !.pc = "load", !.kind = r.kind, !.new = r.new,
                                              !.who = a, !.target = t]]
    /\ met' = met \cup Together(s, r.kind)
    /\ UNCHANGED stored

\* A role that is already there writes nothing.
LoadTarget(s) ==
    /\ At(s, "load")
    /\ LET r == req[s] IN
       IF r.target \in Live /\ Allows(r.kind, r.who, r.target, r.new)
                          /\ (r.kind = "role" => r.new # users[r.target].role)
         THEN req' = [req EXCEPT ![s].pc = "apply", ![s].who = NoUser]
         ELSE Ends(s)
    /\ UNCHANGED <<stored, met>>

Asked(s, kinds) == At(s, "apply") /\ req[s].kind \in kinds

WithRole(t, r) == IF t \in Live THEN [users EXCEPT ![t].role = r] ELSE users
SetRole(s) ==
    /\ Asked(s, {"role", "approve"})
    /\ users' = WithRole(req[s].target, req[s].new)
    /\ Ends(s)
    /\ UNCHANGED <<links, keys, sessions, born, founders, met>>

\* Links and keys go with their user.
LinksAsTheyAre(t) == links
LinksWithout(t) == Only({p \in DOMAIN links : links[p] # t}, links)
DeleteUser(s) ==
    /\ Asked(s, {"delete"})
    /\ LET t == req[s].target IN
       /\ users' = Only(Live \ {t}, users)
       /\ links' = LinksWithout(t)
       /\ keys' = keys \ {t} /\ sessions' = sessions \ {t}
    /\ Ends(s)
    /\ UNCHANGED <<born, founders, met>>

\* The key refers to its user: none for one deleted meanwhile.
CreateKey(s) ==
    /\ Asked(s, {"key"})
    /\ keys' = keys \cup ({req[s].target} \cap Live)
    /\ Ends(s)
    /\ UNCHANGED <<users, links, sessions, born, founders, met>>

\* delete_api_key, or the key has expired.
DropKey(i) == keys' = keys \ {i} /\ UNCHANGED <<users, links, sessions, born, founders, met>>
DeleteKey(s) == Asked(s, {"unkey"}) /\ DropKey(req[s].target) /\ Ends(s)
KeyExpires == \E i \in keys : DropKey(i) /\ UNCHANGED req

\* create_user, bots only.
CreateBot(s) == \E n \in BotNames, a \in Permitted("bot") :
    /\ At(s, "idle") /\ ~Waits(s, n) /\ ~Taken(n) /\ Room
    /\ users' = NewUser(n, "bot") /\ born' = born + 1
    /\ UNCHANGED <<links, keys, sessions, req, founders, met>>

----------------------------------------------------------------------------
LoginStep(s) == FindUser(s) \/ LookForUsers(s) \/ InsertUser(s)
                \/ CommitLogin(s) \/ CommitKnown(s) \/ OpenSession(s)
AdminStep(s) == LoadTarget(s) \/ SetRole(s) \/ DeleteUser(s) \/ CreateKey(s) \/ DeleteKey(s)

Next ==
    \/ Logout \/ KeyExpires
    \/ \E s \in Slots : Login(s) \/ LoginStep(s) \/ Enter(s) \/ AdminStep(s) \/ CreateBot(s)

Spec == Init /\ [][Next]_vars
----------------------------------------------------------------------------
Handler == [pc : LoginPcs \cup {"idle", "load", "apply"}, kind : DOMAIN Needed \cup {"login"},
            who : Ids \cup {NoUser}, name : Names \cup {NoName}, target : Ids \cup {NoUser},
            new : Roles]

\* Users, links, keys, sessions and handlers have their types; ids given out are below "born".
TypeOK ==
    /\ born \in Nat /\ Live \subseteq 1..born /\ founders \subseteq 1..born
    /\ users \in [Live -> [name : Names, role : Roles]]
    /\ DOMAIN links \subseteq People /\ links \in [DOMAIN links -> Ids]
    /\ keys \subseteq Ids /\ sessions \subseteq Ids
    /\ req \in [Slots -> Handler] /\ met \subseteq {"rushed", "together"}

\* Once somebody was made administrator by registering first, somebody is administrator, as
\* long as no two requests that change users run together: update_user_role and delete_user
\* refuse only what an administrator does to himself.
AdminRemains ==
    founders # {} /\ "together" \notin met => \E i \in Live : users[i].role = "admin"

\* login_or_register_oauth_user makes one person administrator, unless two register at the
\* same time, or two administrators have deleted each other and left no user.
OneFounder == met = {} => Cardinality(founders) <= 1

\* However often a person logs in at the same time, and whatever administrators delete
\* meanwhile: usernames are unique, links and keys are those of stored users, and who has
\* registered finds his user again.
AccountsAreWhole ==
    /\ \A i, j \in Live : users[i].name = users[j].name => i = j
    /\ \A p \in DOMAIN links : links[p] \in Live /\ users[links[p]].name = p
    /\ \A i \in Live : users[i].name \in People \ BotNames =>
            users[i].name \in DOMAIN links
    /\ keys \cup sessions \subseteq Live

============================================================================
