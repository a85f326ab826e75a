-------------------------- MODULE Accounts_proofs --------------------------
(***************************************************************************)
(* Theorems about users, logins and administrators, for any people, any    *)
(* number of handlers and any order of their statements.                   *)
(***************************************************************************)
EXTENDS Accounts, FiniteSetTheorems, TLAPS

Pcs == LoginPcs \cup {"idle", "load", "apply"}
Kinds == Changes \cup {"bot", "key", "unkey", "login"}

(* Types.                                                                  *)

LEMMA NeededKinds == DOMAIN Needed = Changes \cup {"bot", "key", "unkey"} BY DEF Needed

LEMMA HandlerIs ==
  Handler = [pc : Pcs, kind : Kinds, who : Nat, name : Names \cup {NoName}, target : Nat, new : Roles]
<1>1. Ids \cup {NoUser} = Nat BY DEF Ids, NoUser
<1>2. DOMAIN Needed \cup {"login"} = Kinds BY NeededKinds DEF Kinds
<1> QED BY <1>1, <1>2 DEF Handler, Pcs

LEMMA IdleIs == Idle \in Handler
<1>1. "idle" \in Pcs /\ "login" \in Kinds /\ "pending" \in Roles /\ 0 \in Nat
  BY DEF Pcs, Kinds, Roles
<1>2. NoName \in Names \cup {NoName} OBVIOUS
<1>3. Idle = [pc |-> "idle", kind |-> "login", who |-> 0, name |-> NoName, target |-> 0, new |-> "pending"]
  BY DEF Idle, NoUser
<1> QED BY <1>1, <1>2, <1>3, HandlerIs, Zenon

\* One handler changes.
LEMMA ReqSet ==
  ASSUME req \in [Slots -> Handler], NEW s \in Slots, NEW h \in Handler,
         req' = [req EXCEPT ![s] = h]
  PROVE  /\ req' \in [Slots -> Handler] /\ req'[s] = h
         /\ \A t \in Slots \ {s} : req'[t] = req[t]
  OBVIOUS

\* What every action may do to the users and the links.
LEMMA NewUserType ==
  ASSUME TypeOK, NEW n \in Names, NEW r \in Roles, users' = NewUser(n, r)
  PROVE  /\ Live' = Live \cup {born + 1} /\ born + 1 \notin Live
         /\ users' \in [Live' -> [name : Names, role : Roles]]
         /\ users'[born + 1].name = n /\ users'[born + 1].role = r
         /\ \A i \in Live : users'[i] = users[i]
<1>1. born + 1 \notin 1..born /\ Live \subseteq 1..born /\ born \in Nat BY DEF TypeOK
<1>2. born + 1 \notin Live BY <1>1
<1>3. Live' = Live \cup {born + 1} BY DEF NewUser, Live
<1>4. [name |-> n, role |-> r] \in [name : Names, role : Roles] OBVIOUS
<1>5. \A i \in Live : users[i] \in [name : Names, role : Roles] BY DEF TypeOK
<1>6. users' = [i \in Live \cup {born + 1} |-> IF i = born + 1 THEN [name |-> n, role |-> r] ELSE users[i]]
  BY DEF NewUser
<1>7. users' \in [Live \cup {born + 1} -> [name : Names, role : Roles]] BY <1>4, <1>5, <1>6
<1>8. users'[born + 1] = [name |-> n, role |-> r] BY <1>6
<1>9. users'[born + 1].name = n /\ users'[born + 1].role = r BY <1>8
<1>10. \A i \in Live : users'[i] = users[i] BY <1>2, <1>6
<1> QED BY <1>2, <1>3, <1>7, <1>9, <1>10

LEMMA LoginType == ASSUME TypeOK, NEW s \in Slots, Login(s) PROVE TypeOK'
<1>1. PICK p \in People :
        req' = [req EXCEPT ![s] = [Idle EXCEPT !.pc = "link", !.name = p,
                  !.who = IF p \in DOMAIN links THEN links[p] ELSE NoUser]]
  BY DEF Login
<1> DEFINE w == IF p \in DOMAIN links THEN links[p] ELSE NoUser
<1>2. w \in Nat BY DEF TypeOK, Ids, NoUser
<1>4. "link" \in Pcs /\ "login" \in Kinds /\ "pending" \in Roles /\ p \in Names \cup {NoName}
  BY DEF Pcs, LoginPcs, Kinds, Roles, Names
<1>5. [Idle EXCEPT !.pc = "link", !.name = p, !.who = w] \in Handler
  <2> HIDE DEF w
  <2> QED BY <1>2, <1>4, IdleIs, HandlerIs, Zenon
<1>6. req' \in [Slots -> Handler] BY <1>1, <1>5, ReqSet DEF TypeOK
<1>7. UNCHANGED <<stored, met>> BY DEF Login
<1> QED BY <1>6, <1>7 DEF TypeOK, stored, Live

LEMMA Moved ==
  ASSUME NEW h \in Handler, NEW pc \in Pcs PROVE [h EXCEPT !.pc = pc] \in Handler
  BY HandlerIs, Zenon

LEMMA MovedWho ==
  ASSUME NEW h \in Handler, NEW pc \in Pcs, NEW w \in Nat
  PROVE  [h EXCEPT !.pc = pc, !.who = w] \in Handler
  BY HandlerIs, Zenon

LEMMA MovedNew ==
  ASSUME NEW h \in Handler, NEW pc \in Pcs, NEW r \in Roles
  PROVE  [h EXCEPT !.pc = pc, !.new = r] \in Handler
  BY HandlerIs, Zenon

LEMMA MovedName ==
  ASSUME NEW h \in Handler, NEW pc \in Pcs
  PROVE  [h EXCEPT !.pc = pc, !.name = NoName] \in Handler
  BY HandlerIs, Zenon

\* A handler changes, or ends, and nothing is stored.
LEMMA OnlyReqType ==
  ASSUME TypeOK, NEW s \in Slots, NEW h \in Handler, req' = [req EXCEPT ![s] = h],
         UNCHANGED stored, met' \subseteq {"rushed", "together"}
  PROVE  TypeOK'
<1>1. req' \in [Slots -> Handler] BY ReqSet DEF TypeOK
<1> QED BY <1>1 DEF TypeOK, stored, Live

LEMMA FirstRoleIs == FirstRole \in Roles BY DEF FirstRole, Roles

LEMMA LoginStepsType ==
  ASSUME TypeOK, NEW s \in Slots,
         FindUser(s) \/ LookForUsers(s) \/ InsertUser(s) \/ CommitKnown(s)
  PROVE  TypeOK'
<1>h. req[s] \in Handler /\ req[s].who \in Nat BY HandlerIs DEF TypeOK
<1>p. {"known", "register", "insert", "commit", "session"} \subseteq Pcs BY DEF Pcs, LoginPcs
<1>m. met \subseteq {"rushed", "together"} BY DEF TypeOK
<1>1. CASE FindUser(s)
  <2> DEFINE pc == IF req[s].who \in Live THEN "known" ELSE "register"
             w == IF req[s].who \in Live THEN req[s].who ELSE NoUser
  <2>1. pc \in Pcs BY <1>p
  <2>2. w \in Nat BY <1>h DEF NoUser
  <2>3. [req[s] EXCEPT !.pc = pc, !.who = w] \in Handler
    <3> HIDE DEF pc, w
    <3> QED BY <1>h, <2>1, <2>2, MovedWho
  <2>4. req' = [req EXCEPT ![s] = [req[s] EXCEPT !.pc = pc, !.who = w]]
    BY <1>1 DEF FindUser
  <2>5. UNCHANGED <<stored, met>> BY <1>1 DEF FindUser
  <2> HIDE DEF pc, w
  <2> QED BY <1>m, <2>3, <2>4, <2>5, OnlyReqType
<1>2. CASE LookForUsers(s)
  <2>1. req' = [req EXCEPT ![s] = [req[s] EXCEPT !.pc = "insert", !.new = FirstRole]]
    BY <1>2 DEF LookForUsers
  <2>2. [req[s] EXCEPT !.pc = "insert", !.new = FirstRole] \in Handler
    BY <1>h, <1>p, FirstRoleIs, MovedNew
  <2>3. met' \subseteq {"rushed", "together"} /\ UNCHANGED stored BY <1>2, <1>m DEF LookForUsers
  <2> QED BY <2>1, <2>2, <2>3, OnlyReqType
<1>3. CASE InsertUser(s)
  <2>1. PICK h \in Handler : req' = [req EXCEPT ![s] = h]
    <3>1. CASE Taken(req[s].name) BY <1>3, <3>1, IdleIs DEF InsertUser, Ends
    <3>2. CASE ~Taken(req[s].name)
      <4>1. req' = [req EXCEPT ![s] = [req[s] EXCEPT !.pc = "commit"]]
        BY <1>3, <3>2 DEF InsertUser, Goes
      <4>2. [req[s] EXCEPT !.pc = "commit"] \in Handler BY <1>h, <1>p, Moved
      <4> QED BY <4>1, <4>2
    <3> QED BY <3>1, <3>2
  <2>2. UNCHANGED <<stored, met>> BY <1>3 DEF InsertUser
  <2> QED BY <1>m, <2>1, <2>2, OnlyReqType
<1>4. CASE CommitKnown(s)
  <2>1. PICK h \in Handler : req' = [req EXCEPT ![s] = h]
    <3>1. CASE req[s].who \notin Live BY <1>4, <3>1, IdleIs DEF CommitKnown, Ends
    <3>2. CASE req[s].who \in Live
      <4>1. req' = [req EXCEPT ![s] = [req[s] EXCEPT !.pc = "session", !.name = NoName]]
        BY <1>4, <3>2 DEF CommitKnown
      <4>2. [req[s] EXCEPT !.pc = "session", !.name = NoName] \in Handler BY <1>h, <1>p, MovedName
      <4> QED BY <4>1, <4>2
    <3> QED BY <3>1, <3>2
  <2>2. UNCHANGED <<stored, met>> BY <1>4 DEF CommitKnown
  <2> QED BY <1>m, <2>1, <2>2, OnlyReqType
<1> QED BY <1>1, <1>2, <1>3, <1>4

\* The names in handlers are those of people where a person logs in.
LogsIn(s) == req[s].pc \in {"link", "known", "register", "insert", "commit"}
NamesOK ==
    \A s \in Slots :
       /\ LogsIn(s) => req[s].name \in People
       /\ At(s, "commit") => /\ \A i \in Live : users[i].name # req[s].name
                             /\ \A t \in Slots \ {s} : At(t, "commit") => req[t].name # req[s].name

LEMMA CommitLoginReq ==
  ASSUME TypeOK, NEW s \in Slots, CommitLogin(s)
  PROVE  req' = [req EXCEPT ![s] = [Idle EXCEPT !.pc = "session", !.who = born + 1]]
         /\ [Idle EXCEPT !.pc = "session", !.who = born + 1] \in Handler
<1>1. "session" \in Pcs /\ born + 1 \in Nat BY DEF Pcs, LoginPcs, TypeOK
<1> QED BY <1>1, IdleIs, MovedWho DEF CommitLogin

LEMMA CommitLoginType ==
  ASSUME TypeOK, NamesOK, NEW s \in Slots, CommitLogin(s)
  PROVE  TypeOK'
<1> DEFINE n == req[s].name
<1>1. n \in People /\ req[s].new \in Roles BY HandlerIs DEF NamesOK, LogsIn, CommitLogin, At, TypeOK
<1>2. n \in Names BY <1>1 DEF Names
<1>3. users' = NewUser(n, req[s].new) BY DEF CommitLogin
<1>4. /\ Live' = Live \cup {born + 1}
      /\ users' \in [Live' -> [name : Names, role : Roles]]
  <2> HIDE DEF n
  <2> QED BY <1>1, <1>2, <1>3, NewUserType
<1>5. links' = [p \in DOMAIN links \cup {n} |-> IF p = n THEN born + 1 ELSE links[p]]
  BY DEF CommitLogin
<1>6. DOMAIN links' \subseteq People /\ links' \in [DOMAIN links' -> Ids]
  <2>1. born + 1 \in Ids BY DEF TypeOK, Ids
  <2>2. \A p \in DOMAIN links : links[p] \in Ids BY DEF TypeOK
  <2>3. DOMAIN links \subseteq People BY DEF TypeOK
  <2> HIDE DEF n
  <2>4. DOMAIN links' = DOMAIN links \cup {n} BY <1>5
  <2> QED BY <1>1, <1>5, <2>1, <2>2, <2>3, <2>4
<1>7. req' \in [Slots -> Handler] BY CommitLoginReq, ReqSet DEF TypeOK
<1>8. born' = born + 1 /\ UNCHANGED <<keys, sessions, met>>
      /\ founders' \subseteq founders \cup {born + 1} BY DEF CommitLogin
<1>9. Live \cup founders \cup {born + 1} \subseteq 1..(born + 1) /\ born + 1 \in Nat BY DEF TypeOK
<1>10. Live' \subseteq 1..born' /\ founders' \subseteq 1..born' /\ born' \in Nat BY <1>4, <1>8, <1>9
<1>11. keys' \subseteq Ids /\ sessions' \subseteq Ids /\ met' \subseteq {"rushed", "together"}
  BY <1>8 DEF TypeOK
<1> QED BY <1>4, <1>6, <1>7, <1>10, <1>11 DEF TypeOK

LEMMA EnterType == ASSUME TypeOK, NEW s \in Slots, Enter(s) PROVE TypeOK'
<1>0. PICK r \in Requests : \E t \in Live : \E a \in Permitted(r.kind) :
        /\ req' = [req EXCEPT ![s] = [Idle EXCEPT !.pc = "load", !.kind = r.kind, !.new = r.new,
                                              !.who = a, !.target = t]]
        /\ met' = met \cup Together(s, r.kind)
        /\ UNCHANGED stored
  BY Zenon DEF Enter
<1>1. PICK t \in Live, a \in Permitted(r.kind) :
        /\ req' = [req EXCEPT ![s] = [Idle EXCEPT !.pc = "load", !.kind = r.kind, !.new = r.new,
                                              !.who = a, !.target = t]]
        /\ met' = met \cup Together(s, r.kind)
        /\ UNCHANGED stored
  BY <1>0, Zenon
<1>2. r.kind \in Kinds /\ r.new \in Roles
  BY AccountsAssumption DEF Requests, Kinds, Changes, Roles
<1>3. a \in Nat BY DEF Permitted, Resolved, TypeOK, Ids
<1>4. t \in Nat BY DEF TypeOK
<1>6. "load" \in Pcs /\ NoName \in Names \cup {NoName} BY DEF Pcs
<1>7. [Idle EXCEPT !.pc = "load", !.kind = r.kind, !.new = r.new, !.who = a, !.target = t] \in Handler
  BY <1>2, <1>3, <1>4, <1>6, IdleIs, HandlerIs, Zenon
<1>8. met' \subseteq {"rushed", "together"} BY <1>1 DEF Together, TypeOK
<1> QED BY <1>1, <1>7, <1>8, OnlyReqType

LEMMA LoadTargetType == ASSUME TypeOK, NEW s \in Slots, LoadTarget(s) PROVE TypeOK'
<1>1. "apply" \in Pcs /\ NoUser \in Nat BY DEF Pcs, NoUser
<1>2. req[s] \in Handler /\ met \subseteq {"rushed", "together"} BY DEF TypeOK
<1>3. [req[s] EXCEPT !.pc = "apply", !.who = NoUser] \in Handler BY <1>1, <1>2, MovedWho
<1>4. \/ req' = [req EXCEPT ![s] = [req[s] EXCEPT !.pc = "apply", !.who = NoUser]]
      \/ req' = [req EXCEPT ![s] = Idle]
  BY DEF LoadTarget, Ends
<1>5. UNCHANGED <<stored, met>> BY DEF LoadTarget
<1> QED BY <1>2, <1>3, <1>4, <1>5, IdleIs, OnlyReqType

\* A handler ends with a change of what is stored.
LEMMA EndsType ==
  ASSUME TypeOK, NEW s \in Slots, Ends(s) PROVE req' \in [Slots -> Handler]
  BY IdleIs, ReqSet DEF Ends, TypeOK

LEMMA SetRoleType ==
  ASSUME TypeOK, NEW s \in Slots, SetRole(s)
  PROVE  TypeOK' /\ Live' = Live
         /\ \A i \in Live : /\ users'[i].name = users[i].name
                            /\ users'[i].role = IF i = req[s].target THEN req[s].new ELSE users[i].role
<1> DEFINE t == req[s].target
           r == req[s].new
<1>1. r \in Roles /\ t \in Nat BY HandlerIs DEF TypeOK
<1>2. users' = WithRole(t, r) BY DEF SetRole
<1>3. \A i \in Live : users[i] \in [name : Names, role : Roles] BY DEF TypeOK
<1>4. users \in [Live -> [name : Names, role : Roles]] BY DEF TypeOK
<1> HIDE DEF t, r
<1>5. /\ users' \in [Live -> [name : Names, role : Roles]]
      /\ \A i \in Live : /\ users'[i].name = users[i].name
                         /\ users'[i].role = IF i = t THEN r ELSE users[i].role
  <2>1. CASE t \notin Live BY <1>2, <1>4, <2>1 DEF WithRole
  <2>2. CASE t \in Live
    <3>1. users' = [users EXCEPT ![t] = [users[t] EXCEPT !.role = r]] BY <1>2, <2>2 DEF WithRole
    <3>2. [users[t] EXCEPT !.role = r] \in [name : Names, role : Roles]
      BY <1>1, <1>3, <2>2, Zenon
    <3>3. [users[t] EXCEPT !.role = r].name = users[t].name /\ [users[t] EXCEPT !.role = r].role = r
      BY <1>3, <2>2
    <3> QED BY <1>4, <2>2, <3>1, <3>2, <3>3
  <2> QED BY <2>1, <2>2
<1>6. Live' = Live BY <1>5 DEF Live
<1>7. req' \in [Slots -> Handler] BY EndsType DEF SetRole
<1>8. UNCHANGED <<links, keys, sessions, born, founders, met>> BY DEF SetRole
<1>9. TypeOK' BY <1>5, <1>6, <1>7, <1>8 DEF TypeOK
<1> QED BY <1>5, <1>6, <1>9 DEF t, r

LEMMA DeleteUserType ==
  ASSUME TypeOK, NEW s \in Slots, DeleteUser(s)
  PROVE  TypeOK' /\ Live' = Live \ {req[s].target}
         /\ (\A i \in Live' : users'[i] = users[i])
         /\ DOMAIN links' = {p \in DOMAIN links : links[p] # req[s].target}
         /\ (\A p \in DOMAIN links' : links'[p] = links[p])
<1> DEFINE t == req[s].target
<1>1. /\ users' = [i \in Live \ {t} |-> users[i]]
      /\ links' = [p \in {p \in DOMAIN links : links[p] # t} |-> links[p]]
      /\ keys' = keys \ {t} /\ sessions' = sessions \ {t}
      /\ Ends(s) /\ UNCHANGED <<born, founders, met>>
  BY DEF DeleteUser, Only, LinksWithout
<1>2. req' \in [Slots -> Handler] BY <1>1, EndsType
<1> HIDE DEF t
<1>3. Live' = Live \ {t} /\ \A i \in Live' : users'[i] = users[i] BY <1>1 DEF Live
<1>4. users' \in [Live' -> [name : Names, role : Roles]] BY <1>1, <1>3 DEF TypeOK
<1>5. /\ DOMAIN links' = {p \in DOMAIN links : links[p] # t}
      /\ \A p \in DOMAIN links' : links'[p] = links[p] BY <1>1
<1>6. links' \in [DOMAIN links' -> Ids] /\ DOMAIN links' \subseteq People BY <1>1, <1>5 DEF TypeOK
<1>7. TypeOK' BY <1>1, <1>2, <1>3, <1>4, <1>6 DEF TypeOK
<1> QED BY <1>3, <1>5, <1>7 DEF t

LEMMA CreateBotType == ASSUME TypeOK, NEW s \in Slots, CreateBot(s) PROVE TypeOK'
<1>1. PICK n \in BotNames : users' = NewUser(n, "bot")
  BY DEF CreateBot
<1>2. n \in Names /\ "bot" \in Roles BY DEF Names, Roles
<1>3. Live' = Live \cup {born + 1} /\ users' \in [Live' -> [name : Names, role : Roles]]
  BY <1>1, <1>2, NewUserType
<1>4. born' = born + 1 /\ UNCHANGED <<links, keys, sessions, req, founders, met>> BY DEF CreateBot
<1>5. Live' \subseteq 1..born' /\ founders' \subseteq 1..born' /\ born' \in Nat
  BY <1>3, <1>4 DEF TypeOK
<1> QED BY <1>3, <1>4, <1>5 DEF TypeOK

LEMMA OthersType ==
  ASSUME TypeOK, NEW s \in Slots, OpenSession(s) \/ CreateKey(s) \/ DeleteKey(s)
  PROVE  TypeOK'
<1>1. Ends(s) BY DEF OpenSession, CreateKey, DeleteKey
<1>2. req' \in [Slots -> Handler] BY <1>1, EndsType
<1>3. UNCHANGED <<users, links, born, founders, met>> BY DEF OpenSession, CreateKey, DeleteKey, DropKey
<1>4. Live \subseteq Ids BY DEF TypeOK, Ids
<1>5. keys' \subseteq keys \cup Live /\ sessions' \subseteq sessions \cup Live
  BY DEF OpenSession, CreateKey, DeleteKey, DropKey
<1> QED BY <1>2, <1>3, <1>4, <1>5 DEF TypeOK, Live

LEMMA EndingsType ==
  ASSUME TypeOK, Logout \/ KeyExpires PROVE TypeOK'
<1>1. /\ UNCHANGED <<users, links, born, req, founders, met>>
      /\ keys' \subseteq keys /\ sessions' \subseteq sessions
  BY DEF Logout, KeyExpires, DropKey
<1> QED BY <1>1 DEF TypeOK, Live

LEMMA InitType == ASSUME Init PROVE TypeOK
<1>1. Live = {} /\ DOMAIN links = {} BY DEF Init, Live
<1>2. users \in [Live -> [name : Names, role : Roles]] /\ links \in [DOMAIN links -> Ids]
  BY <1>1 DEF Init
<1>3. req \in [Slots -> Handler] BY IdleIs DEF Init
<1> QED BY <1>1, <1>2, <1>3 DEF Init, TypeOK

LEMMA StepType == ASSUME TypeOK, NamesOK, [Next]_vars PROVE TypeOK'
<1>1. CASE UNCHANGED vars BY <1>1 DEF TypeOK, vars, Live
<1>2. CASE Logout \/ KeyExpires BY <1>2, EndingsType
<1>3. ASSUME NEW s \in Slots, Login(s) \/ LoginStep(s) \/ Enter(s) \/ AdminStep(s) \/ CreateBot(s)
      PROVE  TypeOK'
  BY <1>3, LoginType, LoginStepsType, CommitLoginType, EnterType, LoadTargetType, SetRoleType,
     DeleteUserType, CreateBotType, OthersType DEF LoginStep, AdminStep
<1> QED BY <1>1, <1>2, <1>3 DEF Next

(* Names, links and keys.                                                  *)

LEMMA NamesKept ==
  ASSUME TypeOK, NamesOK, NEW s \in Slots, NEW h \in Handler, req' = [req EXCEPT ![s] = h],
         \A i \in Live' : i \in Live /\ users'[i].name = users[i].name,
         h.pc \in {"link", "known", "register", "insert"} => h.name \in People,
         h.pc # "commit"
  PROVE  NamesOK'
<1>1. req'[s] = h /\ \A t \in Slots \ {s} : req'[t] = req[t] BY ReqSet DEF TypeOK
<1>3. LogsIn(s)' => req'[s].name \in People BY <1>1 DEF LogsIn
<1>4. ~At(s, "commit")' BY <1>1 DEF At
<1>5. ASSUME NEW t \in Slots \ {s}
      PROVE  /\ LogsIn(t)' => req'[t].name \in People
             /\ At(t, "commit")' => /\ \A i \in Live' : users'[i].name # req'[t].name
                                    /\ \A u \in Slots \ {t} : At(u, "commit")' => req'[u].name # req'[t].name
  BY <1>1, <1>4 DEF NamesOK, LogsIn, At
<1> QED BY <1>3, <1>4, <1>5 DEF NamesOK

LEMMA NamesUnchanged ==
  ASSUME NamesOK, req' = req, Live' = Live, \A i \in Live : users'[i].name = users[i].name
  PROVE  NamesOK'
  BY DEF NamesOK, LogsIn, At

LEMMA InsertNames ==
  ASSUME TypeOK, NamesOK, NEW s \in Slots, InsertUser(s)
  PROVE  NamesOK'
<1>1. UNCHANGED users /\ Live' = Live BY DEF InsertUser, stored, Live
<1>2. CASE Taken(req[s].name)
  <2>1. req' = [req EXCEPT ![s] = Idle] BY <1>2 DEF InsertUser, Ends
  <2>2. Idle.pc = "idle" BY DEF Idle
  <2> QED BY <1>1, <2>1, <2>2, IdleIs, NamesKept
<1>3. CASE ~Taken(req[s].name)
  <2>1. req' = [req EXCEPT ![s].pc = "commit"] BY <1>3 DEF InsertUser, Goes
  <2>2. req[s] \in Handler BY DEF TypeOK
  <2>3. req'[s].name = req[s].name /\ req'[s].pc = "commit" /\ \A t \in Slots \ {s} : req'[t] = req[t]
    BY <2>1, <2>2, HandlerIs DEF TypeOK
  <2>4. req[s].name \in People BY DEF InsertUser, At, NamesOK, LogsIn
  <2>5. \A t \in Slots \ {s} : req[t].pc = "commit" => req[t].name # req[s].name
    BY DEF InsertUser, Waits, Others
  <2>6. \A i \in Live' : users'[i].name # req[s].name BY <1>1, <1>3 DEF Taken
  <2>7. ASSUME NEW t \in Slots
        PROVE  /\ LogsIn(t)' => req'[t].name \in People
               /\ At(t, "commit")' => /\ \A i \in Live' : users'[i].name # req'[t].name
                                      /\ \A u \in Slots \ {t} : At(u, "commit")' => req'[u].name # req'[t].name
    <3>1. CASE t = s BY <3>1, <2>3, <2>4, <2>5, <2>6 DEF LogsIn, At
    <3>2. CASE t # s BY <3>2, <1>1, <2>3, <2>5 DEF NamesOK, LogsIn, At
    <3> QED BY <3>1, <3>2
  <2> QED BY <2>7 DEF NamesOK
<1> QED BY <1>2, <1>3

LEMMA LoginEnters ==
  ASSUME TypeOK, NEW s \in Slots, Login(s)
  PROVE  \E p \in People : req'[s].pc = "link" /\ req'[s].name = p
<1>1. PICK p \in People :
        req' = [req EXCEPT ![s] = [Idle EXCEPT !.pc = "link", !.name = p,
                  !.who = IF p \in DOMAIN links THEN links[p] ELSE NoUser]]
  BY DEF Login
<1> DEFINE w == IF p \in DOMAIN links THEN links[p] ELSE NoUser
<1> HIDE DEF w
<1>2. req'[s] = [Idle EXCEPT !.pc = "link", !.name = p, !.who = w] BY <1>1 DEF TypeOK, w
<1> QED BY <1>2 DEF Idle

\* The login steps that neither insert nor write.
LEMMA LoginNames ==
  ASSUME TypeOK, NamesOK, NEW s \in Slots,
         Login(s) \/ FindUser(s) \/ LookForUsers(s) \/ CommitKnown(s)
  PROVE  NamesOK'
<1>1. UNCHANGED users /\ Live' = Live
  BY DEF Login, FindUser, LookForUsers, CommitKnown, stored, Live
<1>2. req[s] \in Handler BY DEF TypeOK
<1>3. Idle.pc = "idle" BY DEF Idle
<1>4. \E h \in Handler : /\ req' = [req EXCEPT ![s] = h] /\ h.pc # "commit"
                         /\ h.pc \in {"link", "known", "register", "insert"} => h.name \in People
  <2>1. CASE Login(s)
    <3>1. \E p \in People : req'[s].pc = "link" /\ req'[s].name = p BY <2>1, LoginEnters
    <3>2. req' = [req EXCEPT ![s] = req'[s]] BY <2>1 DEF Login, TypeOK
    <3>3. req'[s] \in Handler BY <2>1, LoginType DEF TypeOK
    <3> QED BY <3>1, <3>2, <3>3
  <2>2. CASE FindUser(s)
    <3>1. req'[s].pc \in {"known", "register"} /\ req'[s].name = req[s].name
      BY <2>2, <1>2, HandlerIs DEF FindUser, TypeOK
    <3>2. req' = [req EXCEPT ![s] = req'[s]] BY <2>2 DEF FindUser, TypeOK
    <3>3. req'[s] \in Handler BY <2>2, LoginStepsType DEF TypeOK
    <3>4. req[s].name \in People BY <2>2 DEF FindUser, At, NamesOK, LogsIn
    <3> QED BY <3>1, <3>2, <3>3, <3>4
  <2>3. CASE LookForUsers(s)
    <3>1. req'[s].pc = "insert" /\ req'[s].name = req[s].name
      BY <2>3, <1>2, HandlerIs DEF LookForUsers, TypeOK
    <3>2. req' = [req EXCEPT ![s] = req'[s]] BY <2>3 DEF LookForUsers, TypeOK
    <3>3. req'[s] \in Handler BY <2>3, LoginStepsType DEF TypeOK
    <3>4. req[s].name \in People BY <2>3 DEF LookForUsers, At, NamesOK, LogsIn
    <3> QED BY <3>1, <3>2, <3>3, <3>4
  <2>4. CASE CommitKnown(s)
    <3>1. req'[s].pc \in {"session", "idle"}
      BY <2>4, <1>2, <1>3, HandlerIs DEF CommitKnown, Ends, TypeOK
    <3>2. req' = [req EXCEPT ![s] = req'[s]] BY <2>4 DEF CommitKnown, Ends, TypeOK
    <3>3. req'[s] \in Handler BY <2>4, LoginStepsType DEF TypeOK
    <3> QED BY <3>1, <3>2, <3>3
  <2> QED BY <2>1, <2>2, <2>3, <2>4
<1> QED BY <1>1, <1>4, NamesKept

\* A user is inserted, by a login or by an administrator.
LEMMA InsertedNames ==
  ASSUME TypeOK, NamesOK, NEW s \in Slots, NEW n \in Names, NEW r \in Roles,
         users' = NewUser(n, r), \A t \in Slots \ {s} : req'[t] = req[t],
         \A t \in Slots \ {s} : At(t, "commit") => req[t].name # n,
         req'[s].pc \in {"idle", "session"}
  PROVE  NamesOK'
<1>1. /\ Live' = Live \cup {born + 1} /\ users'[born + 1].name = n
      /\ \A i \in Live : users'[i] = users[i]
  BY NewUserType
<1>2. ~LogsIn(s)' /\ ~At(s, "commit")' BY DEF LogsIn, At
<1>3. ASSUME NEW t \in Slots \ {s}
      PROVE  /\ LogsIn(t)' => req'[t].name \in People
             /\ At(t, "commit")' => /\ \A i \in Live' : users'[i].name # req'[t].name
                                    /\ \A u \in Slots \ {t} : At(u, "commit")' => req'[u].name # req'[t].name
  BY <1>1, <1>2 DEF NamesOK, LogsIn, At
<1> QED BY <1>2, <1>3 DEF NamesOK

LEMMA InsertedWhole ==
  ASSUME TypeOK, AccountsAreWhole, NEW n \in Names, NEW r \in Roles, users' = NewUser(n, r),
         ~Taken(n), UNCHANGED <<keys, sessions>>,
         \/ n \in BotNames /\ UNCHANGED links
         \/ n \in People /\ links' = [p \in DOMAIN links \cup {n} |-> IF p = n THEN born + 1 ELSE links[p]]
  PROVE  AccountsAreWhole'
<1>1. /\ Live' = Live \cup {born + 1} /\ users'[born + 1].name = n /\ born + 1 \notin Live
      /\ \A i \in Live : users'[i] = users[i]
  BY NewUserType
<1>2. \A i \in Live : users[i].name # n BY DEF Taken
<1>3. \A i, j \in Live' : users'[i].name = users'[j].name => i = j
  BY <1>1, <1>2 DEF AccountsAreWhole
<1>4. \A p \in DOMAIN links' : links'[p] \in Live' /\ users'[links'[p]].name = p
  BY <1>1 DEF AccountsAreWhole
<1>5. \A i \in Live' : users'[i].name \in People \ BotNames => users'[i].name \in DOMAIN links'
  BY <1>1 DEF AccountsAreWhole
<1>6. keys' \cup sessions' \subseteq Live' BY <1>1 DEF AccountsAreWhole
<1> QED BY <1>3, <1>4, <1>5, <1>6 DEF AccountsAreWhole

LEMMA CommitLoginWhole ==
  ASSUME TypeOK, NamesOK, AccountsAreWhole, NEW s \in Slots, CommitLogin(s)
  PROVE  NamesOK' /\ AccountsAreWhole'
<1>1. /\ req[s].name \in People /\ req[s].name \in Names
      /\ \A i \in Live : users[i].name # req[s].name
      /\ \A t \in Slots \ {s} : At(t, "commit") => req[t].name # req[s].name
  BY DEF NamesOK, LogsIn, CommitLogin, At, Names
<1>2. req[s].new \in Roles BY HandlerIs DEF TypeOK
<1>3. users' = NewUser(req[s].name, req[s].new) /\ UNCHANGED <<keys, sessions>> BY DEF CommitLogin
<1>4. links' = [p \in DOMAIN links \cup {req[s].name} |-> IF p = req[s].name THEN born + 1 ELSE links[p]]
  BY DEF CommitLogin
<1>5. \A t \in Slots \ {s} : req'[t] = req[t]
  <2>1. req' = [req EXCEPT ![s] = [Idle EXCEPT !.pc = "session", !.who = born + 1]]
        /\ [Idle EXCEPT !.pc = "session", !.who = born + 1] \in Handler
    BY CommitLoginReq
  <2> QED BY <2>1, ReqSet DEF TypeOK
<1>6. req'[s].pc = "session"
  BY DEF CommitLogin, Idle, TypeOK
<1>7. NamesOK' BY <1>1, <1>2, <1>3, <1>5, <1>6, InsertedNames
<1>8. ~Taken(req[s].name) BY <1>1 DEF Taken
<1>9. AccountsAreWhole' BY <1>1, <1>2, <1>3, <1>4, <1>8, InsertedWhole
<1> QED BY <1>7, <1>9

LEMMA CreateBotWhole ==
  ASSUME TypeOK, NamesOK, AccountsAreWhole, NEW s \in Slots, CreateBot(s)
  PROVE  NamesOK' /\ AccountsAreWhole'
<1>1. PICK n \in BotNames : ~Waits(s, n) /\ ~Taken(n) /\ users' = NewUser(n, "bot")
  BY DEF CreateBot
<1>2. /\ At(s, "idle") /\ UNCHANGED <<links, keys, sessions, req>> BY DEF CreateBot
<1>3. n \in Names /\ "bot" \in Roles BY DEF Names, Roles
<1>4. \A t \in Slots \ {s} : At(t, "commit") => req[t].name # n BY <1>1 DEF Waits, Others, At
<1>5. req'[s].pc = "idle" BY <1>2 DEF At
<1>6. NamesOK' BY <1>1, <1>2, <1>3, <1>4, <1>5, InsertedNames
<1>7. AccountsAreWhole' BY <1>1, <1>2, <1>3, InsertedWhole
<1> QED BY <1>6, <1>7

\* Neither users nor links change but for a role.
LEMMA WholeKept ==
  ASSUME AccountsAreWhole, Live' = Live, \A i \in Live : users'[i].name = users[i].name,
         UNCHANGED links, keys' \cup sessions' \subseteq keys \cup sessions \cup Live
  PROVE  AccountsAreWhole'
  BY DEF AccountsAreWhole

LEMMA DeleteUserWhole ==
  ASSUME TypeOK, NamesOK, AccountsAreWhole, NEW s \in Slots, DeleteUser(s)
  PROVE  NamesOK' /\ AccountsAreWhole'
<1> DEFINE t == req[s].target
<1>1. /\ Live' = Live \ {t} /\ (\A i \in Live' : users'[i] = users[i])
      /\ DOMAIN links' = {p \in DOMAIN links : links[p] # t}
      /\ (\A p \in DOMAIN links' : links'[p] = links[p])
  BY DeleteUserType
<1>2. keys' = keys \ {t} /\ sessions' = sessions \ {t} BY DEF DeleteUser
<1>3. NamesOK'
  <2>1. req' = [req EXCEPT ![s] = Idle] BY DEF DeleteUser, Ends
  <2>2. Idle.pc = "idle" BY DEF Idle
  <2>3. \A i \in Live' : i \in Live /\ users'[i].name = users[i].name BY <1>1
  <2> QED BY <2>1, <2>2, <2>3, IdleIs, NamesKept
<1> HIDE DEF t
<1>4. \A i, j \in Live' : users'[i].name = users'[j].name => i = j BY <1>1 DEF AccountsAreWhole
<1>5. \A p \in DOMAIN links' : links'[p] \in Live' /\ users'[links'[p]].name = p
  BY <1>1 DEF AccountsAreWhole
<1>6. ASSUME NEW i \in Live', users'[i].name \in People \ BotNames
      PROVE  users'[i].name \in DOMAIN links'
  <2>1. i \in Live /\ i # t /\ users'[i].name = users[i].name BY <1>1
  <2>2. users[i].name \in DOMAIN links BY <1>6, <2>1 DEF AccountsAreWhole
  <2>3. links[users[i].name] = i BY <2>1, <2>2 DEF AccountsAreWhole
  <2> QED BY <1>1, <2>1, <2>2, <2>3
<1>7. keys' \cup sessions' \subseteq Live' BY <1>1, <1>2 DEF AccountsAreWhole
<1>8. AccountsAreWhole' BY <1>4, <1>5, <1>6, <1>7 DEF AccountsAreWhole
<1> QED BY <1>3, <1>8

Whole == TypeOK /\ NamesOK /\ AccountsAreWhole

\* A handler ends, or moves outside a login, and users keep their names.
LEMMA EndsNames ==
  ASSUME TypeOK, NamesOK, NEW s \in Slots, Ends(s),
         Live' = Live, \A i \in Live : users'[i].name = users[i].name
  PROVE  NamesOK'
<1>1. Idle.pc = "idle" BY DEF Idle
<1> QED BY <1>1, IdleIs, NamesKept DEF Ends

LEMMA AdminNames ==
  ASSUME TypeOK, NamesOK, NEW s \in Slots, Enter(s) \/ LoadTarget(s)
  PROVE  NamesOK'
<1>1. UNCHANGED users /\ Live' = Live BY DEF Enter, LoadTarget, stored, Live
<1>2. req[s] \in Handler /\ req' = [req EXCEPT ![s] = req'[s]]
  BY DEF Enter, LoadTarget, Ends, TypeOK
<1>3. req'[s] \in Handler BY EnterType, LoadTargetType DEF TypeOK
<1>4. req'[s].pc \in {"load", "apply", "idle"}
  <2>1. CASE Enter(s) BY <2>1 DEF Enter, Idle, TypeOK
  <2>2. CASE LoadTarget(s) BY <2>2, <1>2, HandlerIs DEF LoadTarget, Ends, Idle, TypeOK
  <2> QED BY <2>1, <2>2
<1> QED BY <1>1, <1>2, <1>3, <1>4, NamesKept

LEMMA StepWhole == ASSUME Whole, [Next]_vars PROVE Whole'
<1>1. TypeOK /\ NamesOK /\ AccountsAreWhole BY DEF Whole
<1>2. TypeOK' BY <1>1, StepType
<1>3. NamesOK' /\ AccountsAreWhole'
  <2>1. CASE UNCHANGED vars
    <3>1. UNCHANGED <<users, links, keys, sessions, req>> /\ Live' = Live BY <2>1 DEF vars, Live
    <3> QED BY <1>1, <3>1, NamesUnchanged, WholeKept
  <2>2. CASE Logout \/ KeyExpires
    <3>1. UNCHANGED <<users, links, req>> /\ keys' \cup sessions' \subseteq keys \cup sessions /\ Live' = Live
      BY <2>2 DEF Logout, KeyExpires, DropKey, Live
    <3> QED BY <1>1, <3>1, NamesUnchanged, WholeKept
  <2>3. ASSUME NEW s \in Slots, Login(s) \/ FindUser(s) \/ LookForUsers(s) \/ CommitKnown(s)
        PROVE  NamesOK' /\ AccountsAreWhole'
    <3>1. UNCHANGED <<users, links, keys, sessions>> /\ Live' = Live
      BY <2>3 DEF Login, FindUser, LookForUsers, CommitKnown, stored, Live
    <3> QED BY <1>1, <2>3, <3>1, LoginNames, WholeKept
  <2>4. ASSUME NEW s \in Slots, InsertUser(s) PROVE NamesOK' /\ AccountsAreWhole'
    <3>1. UNCHANGED <<users, links, keys, sessions>> /\ Live' = Live
      BY <2>4 DEF InsertUser, stored, Live
    <3> QED BY <1>1, <2>4, <3>1, InsertNames, WholeKept
  <2>5. ASSUME NEW s \in Slots, Enter(s) \/ LoadTarget(s) PROVE NamesOK' /\ AccountsAreWhole'
    <3>1. UNCHANGED <<users, links, keys, sessions>> /\ Live' = Live
      BY <2>5 DEF Enter, LoadTarget, stored, Live
    <3> QED BY <1>1, <2>5, <3>1, AdminNames, WholeKept
  <2>6. ASSUME NEW s \in Slots, SetRole(s) PROVE NamesOK' /\ AccountsAreWhole'
    <3>1. Live' = Live /\ \A i \in Live : users'[i].name = users[i].name
      BY <1>1, <2>6, SetRoleType
    <3>2. Ends(s) /\ UNCHANGED <<links, keys, sessions>> BY <2>6 DEF SetRole
    <3> QED BY <1>1, <3>1, <3>2, EndsNames, WholeKept
  <2>7. ASSUME NEW s \in Slots, OpenSession(s) \/ CreateKey(s) \/ DeleteKey(s)
        PROVE  NamesOK' /\ AccountsAreWhole'
    <3>1. UNCHANGED <<users, links>> /\ Ends(s) /\ Live' = Live
          /\ keys' \cup sessions' \subseteq keys \cup sessions \cup Live
      BY <2>7 DEF OpenSession, CreateKey, DeleteKey, DropKey, Live
    <3> QED BY <1>1, <3>1, EndsNames, WholeKept
  <2> QED BY <1>1, <2>1, <2>2, <2>3, <2>4, <2>5, <2>6, <2>7,
             CommitLoginWhole, CreateBotWhole, DeleteUserWhole DEF Next, LoginStep, AdminStep
<1> QED BY <1>2, <1>3 DEF Whole

LEMMA InitWhole == ASSUME Init PROVE Whole
<1>1. Live = {} /\ DOMAIN links = {} /\ keys = {} /\ sessions = {} BY DEF Init, Live
<1>2. AccountsAreWhole BY <1>1 DEF AccountsAreWhole
<1>3. \A s \in Slots : req[s].pc = "idle" BY DEF Init, Idle
<1>4. NamesOK BY <1>3 DEF NamesOK, LogsIn, At
<1> QED BY <1>2, <1>4, InitType DEF Whole

LEMMA AlwaysWhole == Spec => []Whole
<1> QED BY InitWhole, StepWhole, PTL DEF Spec

\* Users, sessions, keys and handlers keep their types.
THEOREM AccountTypes == Spec => []TypeOK
<1>1. Whole => TypeOK BY DEF Whole
<1> QED BY <1>1, AlwaysWhole, PTL

\* Whatever logins and administrators do together: usernames are unique, links, keys and
\* sessions are those of stored users, and whoever registered has a link to his user.
THEOREM WholeAccounts == Spec => []AccountsAreWhole
<1>1. Whole => AccountsAreWhole BY DEF Whole
<1> QED BY <1>1, AlwaysWhole, PTL

(* Administrators.                                                         *)

SomeAdmin == \E i \in Live : users[i].role = "admin"
Changing(s) == req[s].pc \in {"load", "apply"} /\ req[s].kind \in Changes

\* An administrator is left whatever this handler does.
Spares(s) == \/ \E i \in Live : i # req[s].target /\ users[i].role = "admin"
             \/ req[s].kind = "role" /\ req[s].new = "admin"

AdminSafe == "together" \notin met =>
    /\ founders # {} => SomeAdmin
    /\ \A s, t \in Slots : Changing(s) /\ Changing(t) => s = t
    /\ \A s \in Slots : req[s].pc = "load" /\ req[s].kind \in Changes =>
            req[s].who \in Live /\ users[req[s].who].role = "admin"
    /\ \A s \in Slots : req[s].pc = "apply" /\ req[s].kind \in Changes => Spares(s)

LEMMA OnlyAdminsManage ==
  ASSUME NEW user, user.role \in Roles, HasPermission(user, "users:manage")
  PROVE  user.role = "admin"
<1>1. "users:manage" \in RolePermissions[user.role] BY DEF HasPermission
<1>2. "users:manage" \notin Member BY DEF Member
<1>3. CASE user.role \in {"user", "bot"}
  <2>1. RolePermissions[user.role] = Member BY <1>3 DEF RolePermissions, Roles
  <2> QED BY <1>1, <1>2, <2>1
<1>4. CASE user.role = "pending"
  <2>1. RolePermissions[user.role] = {} BY <1>4 DEF RolePermissions, Roles
  <2> QED BY <1>1, <2>1
<1> QED BY <1>3, <1>4 DEF Roles

\* Nobody loses a role, and the handler that moves does not change users.
LEMMA Calm ==
  ASSUME TypeOK, AdminSafe, NEW s \in Slots, NEW h \in Handler, req' = [req EXCEPT ![s] = h],
         h.pc \in {"load", "apply"} => h.kind \notin Changes,
         met \subseteq met',
         \A i \in Live : i \in Live' /\ users'[i].role = users[i].role,
         founders' = founders \/ SomeAdmin'
  PROVE  AdminSafe'
<1>1. req'[s] = h /\ \A t \in Slots \ {s} : req'[t] = req[t] BY ReqSet DEF TypeOK
<1>2. SUFFICES ASSUME "together" \notin met'
               PROVE  /\ founders' # {} => SomeAdmin'
                      /\ \A t, u \in Slots : Changing(t)' /\ Changing(u)' => t = u
                      /\ \A t \in Slots : req'[t].pc = "load" /\ req'[t].kind \in Changes =>
                            req'[t].who \in Live' /\ users'[req'[t].who].role = "admin"
                      /\ \A t \in Slots : req'[t].pc = "apply" /\ req'[t].kind \in Changes => Spares(t)'
  BY DEF AdminSafe
<1>3. "together" \notin met BY <1>2
<1>4. ~Changing(s)' BY <1>1 DEF Changing
<1>5. SomeAdmin => SomeAdmin' BY DEF SomeAdmin
<1>6. founders' # {} => SomeAdmin' BY <1>3, <1>5 DEF AdminSafe
<1>7. \A t, u \in Slots : Changing(t)' /\ Changing(u)' => t = u
  BY <1>1, <1>3, <1>4 DEF AdminSafe, Changing
<1>8. ASSUME NEW t \in Slots, req'[t].pc = "load", req'[t].kind \in Changes
      PROVE  req'[t].who \in Live' /\ users'[req'[t].who].role = "admin"
  <2>1. t # s BY <1>1, <1>8
  <2> QED BY <1>1, <1>3, <1>8, <2>1 DEF AdminSafe
<1>9. ASSUME NEW t \in Slots, req'[t].pc = "apply", req'[t].kind \in Changes
      PROVE  Spares(t)'
  <2>1. t # s BY <1>1, <1>9
  <2>2. req'[t] = req[t] BY <1>1, <2>1
  <2>3. Spares(t) BY <1>3, <1>9, <2>2 DEF AdminSafe
  <2> QED BY <2>2, <2>3 DEF Spares
<1> QED BY <1>6, <1>7, <1>8, <1>9

LEMMA CommitLoginAdmin ==
  ASSUME Whole, AdminSafe, NEW s \in Slots, CommitLogin(s)
  PROVE  AdminSafe'
<1>1. TypeOK /\ NamesOK BY DEF Whole
<1>2. req[s].new \in Roles /\ req[s].name \in Names
  BY <1>1, HandlerIs DEF TypeOK, NamesOK, LogsIn, CommitLogin, At, Names
<1>3. users' = NewUser(req[s].name, req[s].new) /\ UNCHANGED met BY DEF CommitLogin
<1>4. /\ Live' = Live \cup {born + 1} /\ users'[born + 1].role = req[s].new
      /\ \A i \in Live : users'[i] = users[i]
  BY <1>1, <1>2, <1>3, NewUserType
<1>5. founders' = founders \/ SomeAdmin' BY <1>4 DEF CommitLogin, SomeAdmin
<1>6. PICK h \in Handler : req' = [req EXCEPT ![s] = h] /\ h.pc = "session"
  BY <1>1, CommitLoginReq DEF Idle
<1> QED BY <1>1, <1>3, <1>4, <1>5, <1>6, Calm

LEMMA EnterAdmin ==
  ASSUME Whole, AdminSafe, NEW s \in Slots, Enter(s)
  PROVE  AdminSafe'
<1>1. TypeOK /\ AccountsAreWhole /\ TypeOK' BY EnterType DEF Whole
<1>2. req' = [req EXCEPT ![s] = req'[s]] /\ req'[s] \in Handler BY <1>1 DEF Enter, TypeOK
<1>3. /\ UNCHANGED <<users, founders>> /\ Live' = Live BY DEF Enter, stored, Live
<1>4. /\ req'[s].pc = "load" /\ req'[s].who \in Permitted(req'[s].kind)
      /\ met' = met \cup Together(s, req'[s].kind)
  BY <1>1 DEF Enter, Idle, TypeOK
<1>5. CASE req'[s].kind \notin Changes BY <1>1, <1>2, <1>3, <1>4, <1>5, Calm
<1>6. CASE req'[s].kind \in Changes
  <2>1. SUFFICES ASSUME "together" \notin met' PROVE AdminSafe' BY DEF AdminSafe
  <2>2. "together" \notin met BY <1>4, <2>1
  <2>3. \A t \in Slots \ {s} : req'[t] = req[t] BY <1>1, <1>2, ReqSet DEF TypeOK
  <2>4. \A t \in Slots \ {s} : ~Changing(t)
    BY <1>4, <1>6, <2>1 DEF Together, Others, Changing
  <2>5. \A t \in Slots \ {s} : ~Changing(t)' BY <2>3, <2>4 DEF Changing
  <2>6. req'[s].who \in Live /\ HasPermission(users[req'[s].who], "users:manage")
    <3>1. Needed[req'[s].kind] = "users:manage" BY <1>6 DEF Needed, Changes
    <3> QED BY <1>1, <1>4, <3>1 DEF Permitted, Resolved, AccountsAreWhole
  <2>7. users[req'[s].who].role = "admin"
    <3>1. users[req'[s].who].role \in Roles BY <1>1, <2>6 DEF TypeOK
    <3> QED BY <2>6, <3>1, OnlyAdminsManage
  <2>8. \A t \in Slots : req'[t].pc = "load" /\ req'[t].kind \in Changes =>
            req'[t].who \in Live' /\ users'[req'[t].who].role = "admin"
    BY <1>3, <2>5, <2>6, <2>7 DEF Changing
  <2>9. \A t \in Slots : req'[t].pc = "apply" => req'[t].kind \notin Changes
    BY <1>4, <2>5 DEF Changing
  <2>10. founders' # {} => SomeAdmin' BY <1>3, <2>2 DEF AdminSafe, SomeAdmin
  <2> QED BY <2>5, <2>8, <2>9, <2>10 DEF AdminSafe
<1> QED BY <1>5, <1>6

LEMMA LoadTargetAdmin ==
  ASSUME Whole, AdminSafe, NEW s \in Slots, LoadTarget(s)
  PROVE  AdminSafe'
<1>1. TypeOK /\ TypeOK' BY LoadTargetType DEF Whole
<1>2. /\ req' = [req EXCEPT ![s] = req'[s]] /\ req'[s] \in Handler
      /\ UNCHANGED <<users, founders, met>> /\ Live' = Live
  BY <1>1 DEF LoadTarget, Ends, TypeOK, stored, Live
<1>3. \A t \in Slots \ {s} : req'[t] = req[t] BY <1>1, <1>2, ReqSet DEF TypeOK
<1>4. req[s] \in Handler /\ req[s].pc = "load" BY <1>1 DEF LoadTarget, At, TypeOK
<1>5. \/ req'[s] = Idle
      \/ /\ req'[s].pc = "apply" /\ req'[s].kind = req[s].kind
         /\ req'[s].target = req[s].target /\ req'[s].new = req[s].new
         /\ req[s].target \in Live
         /\ Allows(req[s].kind, req[s].who, req[s].target, req[s].new)
  BY <1>1, <1>4, HandlerIs DEF LoadTarget, Ends, TypeOK
<1>6. CASE req'[s] = Idle \/ req[s].kind \notin Changes
  <2>1. req'[s].pc \in {"load", "apply"} => req'[s].kind \notin Changes BY <1>5, <1>6 DEF Idle
  <2> QED BY <1>1, <1>2, <2>1, Calm
<1>7. CASE req'[s] # Idle /\ req[s].kind \in Changes
  <2>1. SUFFICES ASSUME "together" \notin met' PROVE AdminSafe' BY DEF AdminSafe
  <2>2. "together" \notin met BY <1>2, <2>1
  <2>3. Changing(s) BY <1>4, <1>7 DEF Changing
  <2>4. \A t \in Slots \ {s} : ~Changing(t) BY <2>2, <2>3 DEF AdminSafe
  <2>5. \A t \in Slots \ {s} : ~Changing(t)' BY <1>3, <2>4 DEF Changing
  <2>6. req[s].who \in Live /\ users[req[s].who].role = "admin" BY <1>4, <1>7, <2>2 DEF AdminSafe
  <2>7. Spares(s)'
    <3>1. CASE req[s].kind = "role" /\ req[s].new = "admin" BY <1>5, <1>7, <3>1 DEF Spares
    <3>2. CASE ~(req[s].kind = "role" /\ req[s].new = "admin")
      <4>1. req[s].who # req[s].target
        BY <1>5, <1>7, <2>6, <3>2 DEF Allows, ChecksRole, Changes
      <4> QED BY <1>2, <1>5, <1>7, <2>6, <4>1 DEF Spares
    <3> QED BY <3>1, <3>2
  <2>8. founders' # {} => SomeAdmin' BY <1>2, <2>2 DEF AdminSafe, SomeAdmin
  <2>9. \A t \in Slots : req'[t].pc = "load" => req'[t].kind \notin Changes
    BY <1>5, <1>7, <2>5 DEF Changing
  <2>10. \A t \in Slots : req'[t].pc = "apply" /\ req'[t].kind \in Changes => Spares(t)'
    BY <2>5, <2>7 DEF Changing
  <2> QED BY <2>5, <2>8, <2>9, <2>10 DEF AdminSafe
<1> QED BY <1>6, <1>7

\* The only handler that changes users ends.
LEMMA AppliedAdmin ==
  ASSUME Whole, AdminSafe, NEW s \in Slots, SetRole(s) \/ DeleteUser(s)
  PROVE  AdminSafe'
<1>1. TypeOK BY DEF Whole
<1>2. SUFFICES ASSUME "together" \notin met' PROVE AdminSafe' BY DEF AdminSafe
<1>3. "together" \notin met /\ UNCHANGED founders BY <1>2 DEF SetRole, DeleteUser
<1>4. req[s].pc = "apply" /\ req[s].kind \in Changes
  BY DEF SetRole, DeleteUser, Asked, At, Changes
<1>5. Spares(s) /\ Changing(s) BY <1>3, <1>4 DEF AdminSafe, Changing
<1>6. \A t \in Slots \ {s} : ~Changing(t) BY <1>3, <1>5 DEF AdminSafe
<1>7. req' = [req EXCEPT ![s] = Idle] BY DEF SetRole, DeleteUser, Ends
<1>8. req'[s].pc = "idle" /\ \A t \in Slots \ {s} : req'[t] = req[t]
  BY <1>1, <1>7, IdleIs, ReqSet DEF TypeOK, Idle
<1>9. \A t \in Slots : ~Changing(t)' BY <1>6, <1>8 DEF Changing
<1>10. founders # {} => SomeAdmin'
  <2>1. CASE SetRole(s)
    <3>1. /\ Live' = Live
          /\ \A i \in Live : users'[i].role = IF i = req[s].target THEN req[s].new ELSE users[i].role
      BY <1>1, <2>1, SetRoleType
    <3>2. founders # {} => SomeAdmin BY <1>3 DEF AdminSafe
    <3>3. CASE \E i \in Live : i # req[s].target /\ users[i].role = "admin"
      BY <3>1, <3>3 DEF SomeAdmin
    <3>4. CASE req[s].new = "admin" BY <3>1, <3>2, <3>4 DEF SomeAdmin
    <3> QED BY <1>5, <3>3, <3>4 DEF Spares
  <2>2. CASE DeleteUser(s)
    <3>1. Live' = Live \ {req[s].target} /\ \A i \in Live' : users'[i] = users[i]
      BY <1>1, <2>2, DeleteUserType
    <3>2. req[s].kind = "delete" BY <2>2 DEF DeleteUser, Asked
    <3> QED BY <1>5, <3>1, <3>2 DEF Spares, SomeAdmin
  <2> QED BY <2>1, <2>2
<1> QED BY <1>3, <1>9, <1>10 DEF AdminSafe, Changing

LEMMA EntersAt ==
  ASSUME TypeOK, NEW s \in Slots
  PROVE  (Login(s) => req'[s].pc = "link") /\ (Enter(s) => req'[s].pc = "load")
<1>1. ASSUME Login(s) PROVE req'[s].pc = "link" BY <1>1, LoginEnters
<1>2. ASSUME Enter(s) PROVE req'[s].pc = "load" BY <1>2 DEF Enter, Idle, TypeOK
<1> QED BY <1>1, <1>2

\* The other handlers neither change a user nor check an administrator.
LEMMA QuietAdmin ==
  ASSUME Whole, AdminSafe, NEW s \in Slots,
         \/ Login(s) \/ FindUser(s) \/ LookForUsers(s) \/ InsertUser(s) \/ CommitKnown(s)
         \/ OpenSession(s) \/ CreateKey(s) \/ DeleteKey(s)
  PROVE  AdminSafe'
<1>1. TypeOK /\ TypeOK' BY LoginType, LoginStepsType, OthersType DEF Whole
<1>2. /\ UNCHANGED <<users, founders>> /\ Live' = Live /\ met \subseteq met'
      /\ req' = [req EXCEPT ![s] = req'[s]]
  BY <1>1 DEF Login, FindUser, LookForUsers, InsertUser, CommitKnown, OpenSession, CreateKey,
              DeleteKey, DropKey, Goes, Ends, stored, Live, TypeOK
<1>3. req'[s] \in Handler /\ req[s] \in Handler BY <1>1 DEF TypeOK
<1>4. req'[s].pc \notin {"load", "apply"}
  <2>1. CASE Login(s) BY <1>1, <2>1, EntersAt
  <2>2. CASE FindUser(s) BY <1>1, <1>3, <2>2, HandlerIs DEF FindUser, TypeOK
  <2>3. CASE LookForUsers(s) BY <1>1, <1>3, <2>3, HandlerIs DEF LookForUsers, TypeOK
  <2>4. CASE InsertUser(s) BY <1>1, <1>3, <2>4, HandlerIs DEF InsertUser, Goes, Ends, Idle, TypeOK
  <2>5. CASE CommitKnown(s) BY <1>1, <1>3, <2>5, HandlerIs DEF CommitKnown, Ends, Idle, TypeOK
  <2>6. CASE OpenSession(s) \/ CreateKey(s) \/ DeleteKey(s)
    BY <1>1, <2>6 DEF OpenSession, CreateKey, DeleteKey, Ends, Idle, TypeOK
  <2> QED BY <2>1, <2>2, <2>3, <2>4, <2>5, <2>6
<1> QED BY <1>1, <1>2, <1>3, <1>4, Calm

LEMMA StepAdmin == ASSUME Whole, AdminSafe, [Next]_vars PROVE AdminSafe'
<1>1. CASE UNCHANGED <<users, founders, met, req>>
  BY <1>1 DEF AdminSafe, SomeAdmin, Changing, Spares, Live
<1>2. ASSUME NEW s \in Slots, CreateBot(s) PROVE AdminSafe'
  <2>1. TypeOK BY DEF Whole
  <2>2. PICK n \in BotNames : users' = NewUser(n, "bot") BY <1>2 DEF CreateBot
  <2>3. n \in Names /\ "bot" \in Roles BY DEF Names, Roles
  <2>4. \A i \in Live : i \in Live' /\ users'[i].role = users[i].role
    BY <2>1, <2>2, <2>3, NewUserType
  <2>5. UNCHANGED <<req, founders, met>> /\ req[s].pc = "idle" BY <1>2 DEF CreateBot, At
  <2>6. req' = [req EXCEPT ![s] = req[s]] /\ req[s] \in Handler BY <2>1, <2>5 DEF TypeOK
  <2> QED BY <2>1, <2>4, <2>5, <2>6, Calm
<1>3. CASE Logout \/ KeyExpires BY <1>1, <1>3 DEF Logout, KeyExpires, DropKey
<1> QED BY <1>1, <1>2, <1>3, CommitLoginAdmin, EnterAdmin, LoadTargetAdmin, AppliedAdmin, QuietAdmin
        DEF Next, LoginStep, AdminStep, vars

LEMMA AlwaysAdmin == Spec => []AdminSafe
<1>1. Init => AdminSafe
  <2>1. ASSUME Init PROVE \A s \in Slots : req[s].pc = "idle" BY <2>1 DEF Init, Idle
  <2> QED BY <2>1 DEF Init, AdminSafe, Changing
<1> QED BY <1>1, StepAdmin, AlwaysWhole, PTL DEF Spec

\* The first to register is administrator, and administrators remain as long as no two requests
\* that change users run together: one request refuses to touch the administrator who made it.
THEOREM AdminStays == Spec => []AdminRemains
<1>1. AdminSafe => AdminRemains BY DEF AdminSafe, AdminRemains, SomeAdmin
<1> QED BY <1>1, AlwaysAdmin, PTL

(* The first to register.                                                  *)

Registers(s) == req[s].pc \in {"insert", "commit"}
FounderSafe == met = {} =>
    /\ founders = {} \/ \E i \in founders : founders = {i}
    /\ \A s, t \in Slots : Registers(s) /\ Registers(t) => s = t
    /\ \A s \in Slots : Registers(s) /\ req[s].new = "admin" => founders = {}

\* The handler that moves neither looks for users nor writes one.
LEMMA FounderKept ==
  ASSUME TypeOK, FounderSafe, NEW s \in Slots, NEW h \in Handler, req' = [req EXCEPT ![s] = h],
         h.pc \in {"insert", "commit"} => Registers(s) /\ h.new = req[s].new,
         met \subseteq met', UNCHANGED founders
  PROVE  FounderSafe'
<1>1. req'[s] = h /\ \A t \in Slots \ {s} : req'[t] = req[t] BY ReqSet DEF TypeOK
<1>2. \A t \in Slots : Registers(t)' => Registers(t) /\ req'[t].new = req[t].new
  BY <1>1 DEF Registers
<1>3. met' = {} => met = {} OBVIOUS
<1> QED BY <1>2, <1>3 DEF FounderSafe

LEMMA LookFounder ==
  ASSUME Whole, AdminSafe, FounderSafe, NEW s \in Slots, LookForUsers(s)
  PROVE  FounderSafe'
<1>1. TypeOK BY DEF Whole
<1>2. SUFFICES ASSUME met' = {} PROVE FounderSafe' BY DEF FounderSafe
<1>3. met = {} /\ Others(s, {"insert", "commit"}) = {} /\ UNCHANGED founders
  BY <1>2 DEF LookForUsers, stored
<1>4. req[s] \in Handler /\ req' = [req EXCEPT ![s].pc = "insert", ![s].new = FirstRole]
  BY <1>1 DEF LookForUsers, TypeOK
<1>5. req'[s].new = FirstRole /\ \A t \in Slots \ {s} : req'[t] = req[t]
  BY <1>1, <1>4, HandlerIs DEF TypeOK
<1>6. \A t \in Slots \ {s} : ~Registers(t)' BY <1>3, <1>5 DEF Registers, Others
<1>7. FirstRole = "admin" => Live = {} BY DEF FirstRole
<1>8. Live = {} => founders = {} BY <1>3 DEF AdminSafe, SomeAdmin
<1> QED BY <1>3, <1>5, <1>6, <1>7, <1>8 DEF FounderSafe

LEMMA CommitFounder ==
  ASSUME Whole, FounderSafe, NEW s \in Slots, CommitLogin(s)
  PROVE  FounderSafe'
<1>1. TypeOK BY DEF Whole
<1>2. SUFFICES ASSUME met' = {} PROVE FounderSafe' BY DEF FounderSafe
<1>3. met = {} /\ Registers(s) BY <1>2 DEF CommitLogin, At, Registers
<1>4. \A t \in Slots \ {s} : ~Registers(t) BY <1>3 DEF FounderSafe
<1>5. PICK h \in Handler : req' = [req EXCEPT ![s] = h] /\ h.pc = "session"
  BY <1>1, CommitLoginReq DEF Idle
<1>6. req'[s] = h /\ \A t \in Slots \ {s} : req'[t] = req[t] BY <1>1, <1>5, ReqSet DEF TypeOK
<1>7. \A t \in Slots : ~Registers(t)' BY <1>4, <1>5, <1>6 DEF Registers
<1>8. founders' = {} \/ \E i \in founders' : founders' = {i}
  <2>1. CASE req[s].new = "admin"
    <3>1. founders' = {born + 1} BY <1>3, <2>1 DEF CommitLogin, FounderSafe
    <3> QED BY <3>1
  <2>2. CASE req[s].new # "admin" BY <1>3, <2>2 DEF CommitLogin, FounderSafe
  <2> QED BY <2>1, <2>2
<1> QED BY <1>7, <1>8 DEF FounderSafe

LEMMA QuietFounder ==
  ASSUME Whole, FounderSafe, NEW s \in Slots,
         \/ Login(s) \/ FindUser(s) \/ InsertUser(s) \/ CommitKnown(s) \/ OpenSession(s)
         \/ Enter(s) \/ AdminStep(s)
  PROVE  FounderSafe'
<1>1. TypeOK BY DEF Whole
<1>2. TypeOK'
  BY <1>1, LoginType, LoginStepsType, OthersType, EnterType, LoadTargetType, SetRoleType, DeleteUserType
     DEF AdminStep
<1>3. UNCHANGED founders /\ met \subseteq met'
  BY DEF Login, FindUser, InsertUser, CommitKnown, OpenSession, Enter, AdminStep, LoadTarget,
         SetRole, DeleteUser, CreateKey, DeleteKey, DropKey, stored
<1>4. req' = [req EXCEPT ![s] = req'[s]] /\ req'[s] \in Handler /\ req[s] \in Handler
  BY <1>1, <1>2 DEF Login, FindUser, InsertUser, CommitKnown, OpenSession, Enter, AdminStep, LoadTarget,
         SetRole, DeleteUser, CreateKey, DeleteKey, Goes, Ends, TypeOK
<1>5. req'[s].pc \in {"insert", "commit"} => Registers(s) /\ req'[s].new = req[s].new
  <2>1. CASE Login(s) \/ Enter(s) BY <1>1, <2>1, EntersAt
  <2>2. CASE FindUser(s) BY <1>1, <1>4, <2>2, HandlerIs DEF FindUser, TypeOK
  <2>3. CASE InsertUser(s)
    <3>1. Registers(s) BY <2>3 DEF InsertUser, At, Registers
    <3> QED BY <1>1, <1>4, <2>3, <3>1, HandlerIs DEF InsertUser, Goes, Ends, Idle, TypeOK
  <2>4. CASE CommitKnown(s) BY <1>1, <1>4, <2>4, HandlerIs DEF CommitKnown, Ends, Idle, TypeOK
  <2>5. CASE LoadTarget(s) BY <1>1, <1>4, <2>5, HandlerIs DEF LoadTarget, Ends, Idle, TypeOK
  <2>6. CASE Ends(s) BY <1>1, <2>6 DEF Ends, Idle, TypeOK
  <2> QED BY <2>1, <2>2, <2>3, <2>4, <2>5, <2>6
          DEF OpenSession, AdminStep, SetRole, DeleteUser, CreateKey, DeleteKey
<1> QED BY <1>1, <1>3, <1>4, <1>5, FounderKept

LEMMA StepFounder == ASSUME Whole, AdminSafe, FounderSafe, [Next]_vars PROVE FounderSafe'
<1>1. CASE UNCHANGED <<founders, met, req>> BY <1>1 DEF FounderSafe, Registers
<1>2. CASE Logout \/ KeyExpires BY <1>1, <1>2 DEF Logout, KeyExpires, DropKey
<1>3. ASSUME NEW s \in Slots, CreateBot(s) PROVE FounderSafe' BY <1>1, <1>3 DEF CreateBot
<1> QED BY <1>1, <1>2, <1>3, LookFounder, CommitFounder, QuietFounder DEF Next, LoginStep, vars

\* At most one person becomes administrator by registering first, as long as no two register at
\* the same time and no two administrators' requests run together.
THEOREM FirstIsOnly == Spec => []OneFounder
<1>1. Init => FounderSafe
  <2>1. ASSUME Init PROVE \A s \in Slots : req[s].pc = "idle" BY <2>1 DEF Init, Idle
  <2> QED BY <2>1 DEF Init, FounderSafe, Registers
<1>2. FounderSafe => OneFounder
  <2>1. SUFFICES ASSUME FounderSafe, met = {} PROVE Cardinality(founders) <= 1 BY DEF OneFounder
  <2>2. CASE founders = {}
    <3>1. Cardinality(founders) = 0 BY <2>2, FS_EmptySet
    <3> QED BY <3>1
  <2>3. CASE founders # {}
    <3>1. PICK i : founders = {i} BY <2>1, <2>3 DEF FounderSafe
    <3>2. Cardinality(founders) = 1 BY <3>1, FS_Singleton
    <3> QED BY <3>2
  <2> QED BY <2>2, <2>3
<1> QED BY <1>1, <1>2, StepFounder, AlwaysWhole, AlwaysAdmin, PTL DEF Spec
=============================================================================
