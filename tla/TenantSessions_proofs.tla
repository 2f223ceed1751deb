------------------------- MODULE TenantSessions_proofs -------------------------
(***************************************************************************)
(* Proofs about TenantSessions, for any users, organisations, memberships,  *)
(* connections and requests.                                               *)
(*                                                                         *)
(* A connection is held by one request at a time, and a request that carries *)
(* a token has the organisation of the token in the settings of its          *)
(* connection in each of its transactions.  What the settings hold besides,  *)
(* perhaps of the request before, the policies read as NULL or the queries   *)
(* do not depend on.  What a transaction has flushed stays acceptable or is  *)
(* rejected by the constraints, while others commit.                        *)
(***************************************************************************)
EXTENDS TenantSessions, SequenceTheorems, FiniteSetTheorems, WellFoundedInduction, TLAPS

Row == [user : Users, org : Organisations, role : Roles, status : Statuses]
Token == [user : Users, org : Organisations, role : Roles]
Setting == [org : Organisations \cup {NULL, Residue}, user : Users \cup {NULL, Residue}]

Kinds == {"register", "login", "switch", "invite", "update", "create", "list"}
WithToken == {"switch", "invite", "update", "create", "list"}
Phases == {"idle", "arrived", "open", "flushed", "committed", "refreshing", "done"}
Holding == {"open", "flushed", "refreshing"}

Shapes ==
  /\ settings \in [Connections -> Setting]
  /\ request = [r \in Requests |-> request[r]]
  /\ conn = [r \in Requests |-> conn[r]]
  /\ plan = [r \in Requests |-> plan[r]]
  /\ pc \in [Requests -> Phases]
  /\ answer = [r \in Requests |-> answer[r]]

\* The committed tables; a member has an account.
Tables ==
  /\ accounts \subseteq Users
  /\ members \in Seq(Row)
  /\ tokens \subseteq Token
  /\ suppliers \subseteq [by : Requests, org : Organisations]
  /\ \A i \in DOMAIN members : members[i].user \in accounts

\* The fields of a membership that may be sent.
Changes(to) ==
  /\ DOMAIN to \subseteq {"role", "status"}
  /\ "role" \in DOMAIN to => to["role"] \in Roles
  /\ "status" \in DOMAIN to => to["status"] \in Statuses

\* What may be asked.
Question(q) ==
  /\ q.kind \in Kinds
  /\ q.kind \in {"register", "login", "invite", "update"} => q.user \in Users
  /\ q.kind = "switch" => q.org \in Organisations
  /\ q.kind \in WithToken => q.claims \in Token
  /\ q.kind = "invite" => q.to.role \in Roles
  /\ q.kind = "update" => Changes(q.to)

IsOf(m, t) == m.user = t.user /\ m.org = t.org

\* The rows that a transaction has flushed fit each other and the tables.
PlanFits(r, p) ==
  /\ p.accounts \subseteq Users
  /\ p.add \in Seq(Row) /\ Len(p.add) <= 1
  /\ \A u \in p.accounts : \E k \in DOMAIN p.add : p.add[k].user = u
  /\ \A k \in DOMAIN p.add : p.add[k].user \in accounts \cup p.accounts
  /\ \A w \in p.change : request[r].kind = "update" /\ w[2] \in DOMAIN request[r].to
  /\ p.token \subseteq Token
  /\ \A t \in p.token : \/ \E i \in DOMAIN members : IsOf(members[i], t)
                        \/ \E k \in DOMAIN p.add : IsOf(p.add[k], t)

\* Only create writes suppliers, and nothing else, for the organisation of its token.
Supplies(r, p) ==
  IF request[r].kind = "create"
    THEN p.accounts = {} /\ p.add = <<>> /\ p.supplier = {[by |-> r, org |-> request[r].claims.org]}
    ELSE p.supplier = {}

\* The connection of a request is its own and acts for the organisation of its token.
Connected(r) ==
  /\ pc[r] \notin Holding => conn[r] = NULL
  /\ pc[r] \in Holding =>
       /\ conn[r] \in Connections /\ conn[r] # NULL
       /\ \A t \in Requests : conn[t] = conn[r] => t = r
       /\ Info(r) # NULL => settings[conn[r]].org = Info(r)

InFlight(r) ==
  /\ Connected(r)
  /\ pc[r] # "idle" => Question(request[r])
  /\ pc[r] # "done" => answer[r] = NULL
  /\ pc[r] = "flushed" => PlanFits(r, plan[r]) /\ Supplies(r, plan[r])
  /\ pc[r] \in {"committed", "refreshing"} =>
       request[r].kind = "create" /\ Supplies(r, plan[r])
  /\ pc[r] = "done" /\ request[r].kind = "create" => answer[r] = "ok"

IInv ==
  /\ Shapes
  /\ Tables
  /\ MembershipsAreWhole
  /\ \A r \in Requests : InFlight(r)

-----------------------------------------------------------------------------
(* Frames                                                                   *)

\* Memberships are added and changed, never removed or given to another.
MembersStay ==
  \A i \in DOMAIN members :
    i \in DOMAIN members' /\ members'[i].user = members[i].user /\ members'[i].org = members[i].org

\* A request that takes no part in a step is where it was.
LEMMA OthersStay ==
  ASSUME NEW r \in Requests, InFlight(r), accounts \subseteq accounts', MembersStay,
         request'[r] = request[r], conn'[r] = conn[r], plan'[r] = plan[r], pc'[r] = pc[r],
         answer'[r] = answer[r],
         pc[r] \in Holding => settings'[conn[r]] = settings[conn[r]],
         pc[r] \in Holding => \A t \in Requests : conn'[t] = conn[r] => t = r
  PROVE  InFlight(r)'
PROOF
  <1>1. Connected(r)'
    BY DEF InFlight, Connected, Info
  <1>2. pc[r] # "idle" => Question(request[r])'
    BY DEF InFlight, Question
  <1>3. ASSUME pc[r] = "flushed" PROVE PlanFits(r, plan[r])' /\ Supplies(r, plan[r])'
    <2>1. PlanFits(r, plan[r]) /\ Supplies(r, plan[r])
      BY <1>3 DEF InFlight
    <2>2. \A t \in plan[r].token :
            (\E i \in DOMAIN members : IsOf(members[i], t))
              => (\E i \in DOMAIN members' : IsOf(members'[i], t))
      BY DEF MembersStay, IsOf
    <2> QED
      BY <2>1, <2>2 DEF PlanFits, Supplies
  <1>4. pc[r] \in {"committed", "refreshing"} => Supplies(r, plan[r])'
    BY DEF InFlight, Supplies
  <1> QED
    BY <1>1, <1>2, <1>3, <1>4 DEF InFlight

\* A step of one request, which may use its own connection or one that is free.
LEMMA OneRequest ==
  ASSUME IInv, NEW r \in Requests, Shapes', Tables', MembershipsAreWhole', InFlight(r)',
         accounts \subseteq accounts', MembersStay,
         \A t \in Requests \ {r} : /\ request'[t] = request[t] /\ conn'[t] = conn[t]
                                   /\ plan'[t] = plan[t] /\ pc'[t] = pc[t] /\ answer'[t] = answer[t],
         \A c \in Connections : c # conn[r] /\ c \notin Free => settings'[c] = settings[c],
         conn'[r] \in Free \cup {conn[r], NULL}
  PROVE  IInv'
PROOF
  <1>1. ASSUME NEW t \in Requests \ {r} PROVE InFlight(t)'
    <2>1. InFlight(t) /\ Connected(t)
      BY DEF IInv, InFlight
    <2>2. ASSUME pc[t] \in Holding
          PROVE  /\ settings'[conn[t]] = settings[conn[t]]
                 /\ \A s \in Requests : conn'[s] = conn[t] => s = t
      <3>1. conn[t] \in Connections /\ conn[t] # NULL /\ \A s \in Requests : conn[s] = conn[t] => s = t
        BY <2>1, <2>2 DEF Connected
      <3>2. conn[t] # conn[r] /\ conn[t] \notin Free
        BY <3>1 DEF Free
      <3> QED
        BY <3>1, <3>2
    <2> QED
      BY <2>1, <2>2, OthersStay
  <1> QED
    BY <1>1 DEF IInv

\* Nothing that was committed changes.
LEMMA TablesStay ==
  ASSUME IInv, UNCHANGED data
  PROVE  Tables' /\ MembershipsAreWhole' /\ accounts \subseteq accounts' /\ MembersStay
PROOF
  BY DEF IInv, data, Tables, MembershipsAreWhole, MembersStay

-----------------------------------------------------------------------------
(* Settings                                                                 *)

\* What the end of a transaction leaves is no organisation and no user.
LEMMA EndedIs ==
  ASSUME NEW s \in Setting
  PROVE  Ended(s) \in Setting
PROOF
  BY DEF Ended, Setting

\* NULLIF: no statement fails on a setting that was left behind.
LEMMA CastNeverFails ==
  ASSUME NEW s \in Setting
  PROVE  /\ ~CastFails(s)
         /\ \A o \in Organisations : s.org = o => \A x : OfTenant(s, x) <=> x = o
         /\ \A u \in Users : s.user = u => Cast(s.user) = u
PROOF
  BY TenantAssumption DEF Setting, CastFails, Cast, OfTenant

\* The connection of a request at work.
LEMMA Holds ==
  ASSUME IInv, NEW r \in Requests, pc[r] \in Holding
  PROVE  /\ conn[r] \in Connections /\ conn[r] # NULL
         /\ \A t \in Requests : conn[t] = conn[r] => t = r
         /\ Current(r) \in Setting
         /\ request[r].kind \in {"invite", "update", "create", "list"} =>
              Current(r).org = request[r].claims.org
         /\ Question(request[r]) /\ answer[r] = NULL
PROOF
  <1>1. /\ conn[r] \in Connections /\ conn[r] # NULL
        /\ \A t \in Requests : conn[t] = conn[r] => t = r
        /\ Info(r) # NULL => settings[conn[r]].org = Info(r)
    BY DEF IInv, InFlight, Connected
  <1>2. Question(request[r]) /\ answer[r] = NULL
    BY DEF IInv, InFlight, Holding
  <1>3. Current(r) \in Setting
    BY <1>1 DEF IInv, Shapes, Current
  <1>4. request[r].kind \in {"invite", "update", "create", "list"} =>
          Info(r) = request[r].claims.org /\ Info(r) # NULL
    BY <1>2, TenantAssumption DEF Info, Question, WithToken, Token
  <1> QED
    BY <1>1, <1>2, <1>3, <1>4 DEF Current

-----------------------------------------------------------------------------
(* Steps that write no table                                                *)

\* A transaction that is rolled back, whatever its request is told, unless it created.
LEMMA RefuseKeeps ==
  ASSUME IInv, NEW r \in Requests, NEW how, Refuse(r, how), pc[r] \in Holding,
         request[r].kind = "create" => how = "ok"
  PROVE  IInv' /\ answer'[r] = how
PROOF
  <1>1. /\ settings' = [settings EXCEPT ![conn[r]] = Ended(settings[conn[r]])]
        /\ conn' = [conn EXCEPT ![r] = NULL] /\ pc' = [pc EXCEPT ![r] = "done"]
        /\ answer' = [answer EXCEPT ![r] = how] /\ plan' = [plan EXCEPT ![r] = Nothing]
        /\ UNCHANGED data /\ UNCHANGED request
    BY DEF Refuse, Release
  <1>2. conn[r] \in Connections /\ Ended(settings[conn[r]]) \in Setting
    BY Holds, EndedIs DEF Current
  <1>3. Shapes'
    BY <1>1, <1>2 DEF IInv, Shapes, Phases
  <1>4. conn'[r] = NULL /\ pc'[r] = "done" /\ answer'[r] = how /\ request'[r] = request[r]
    BY <1>1 DEF IInv, Shapes
  <1>5. \A t \in Requests \ {r} : /\ request'[t] = request[t] /\ conn'[t] = conn[t]
                                  /\ plan'[t] = plan[t] /\ pc'[t] = pc[t] /\ answer'[t] = answer[t]
    BY <1>1 DEF IInv, Shapes
  <1>6. \A c \in Connections : c # conn[r] /\ c \notin Free => settings'[c] = settings[c]
    BY <1>1 DEF IInv, Shapes
  <1>7. InFlight(r)'
    <2>1. Question(request[r])'
      BY <1>4, Holds DEF Question
    <2> QED
      BY <2>1, <1>4 DEF InFlight, Connected, Holding
  <1>8. Tables' /\ MembershipsAreWhole' /\ accounts \subseteq accounts' /\ MembersStay
    BY <1>1, TablesStay
  <1> QED
    BY <1>3, <1>4, <1>5, <1>6, <1>7, <1>8, OneRequest

\* Statements that fit leave a transaction that fits.
LEMMA FlushKeeps ==
  ASSUME IInv, NEW r \in Requests, NEW p, NEW s \in Setting, Flush(r, p, s), pc[r] = "open",
         PlanFits(r, p), Supplies(r, p), Info(r) # NULL => s.org = Info(r)
  PROVE  IInv' /\ answer'[r] = NULL
PROOF
  <1>1. /\ plan' = [plan EXCEPT ![r] = p] /\ settings' = [settings EXCEPT ![conn[r]] = s]
        /\ pc' = [pc EXCEPT ![r] = "flushed"]
        /\ UNCHANGED data /\ UNCHANGED <<request, conn, answer>>
    BY DEF Flush
  <1>2. /\ conn[r] \in Connections /\ conn[r] # NULL
        /\ \A t \in Requests : conn[t] = conn[r] => t = r
        /\ Question(request[r]) /\ answer[r] = NULL
    BY Holds DEF Holding
  <1>3. Shapes'
    BY <1>1, <1>2 DEF IInv, Shapes, Phases
  <1>4. /\ plan'[r] = p /\ pc'[r] = "flushed" /\ settings'[conn[r]] = s
        /\ request'[r] = request[r] /\ conn'[r] = conn[r] /\ answer'[r] = NULL
    BY <1>1, <1>2 DEF IInv, Shapes
  <1>5. \A t \in Requests \ {r} : /\ request'[t] = request[t] /\ conn'[t] = conn[t]
                                  /\ plan'[t] = plan[t] /\ pc'[t] = pc[t] /\ answer'[t] = answer[t]
    BY <1>1 DEF IInv, Shapes
  <1>6. \A c \in Connections : c # conn[r] /\ c \notin Free => settings'[c] = settings[c]
    BY <1>1 DEF IInv, Shapes
  <1>7. InFlight(r)'
    <2>1. Question(request[r])'
      BY <1>1, <1>2 DEF Question
    <2>2. Connected(r)'
      <3>1. conn' = conn /\ (Info(r)' # NULL => settings'[conn'[r]].org = Info(r)')
        BY <1>1, <1>4 DEF Info
      <3> QED
        BY <3>1, <1>2, <1>4 DEF Connected, Holding
    <2>3. PlanFits(r, plan[r])' /\ Supplies(r, plan[r])'
      BY <1>1, <1>4 DEF PlanFits, Supplies, data
    <2> QED
      BY <2>1, <2>2, <2>3, <1>4 DEF InFlight
  <1>8. Tables' /\ MembershipsAreWhole' /\ accounts \subseteq accounts' /\ MembersStay
    BY <1>1, TablesStay
  <1> QED
    BY <1>3, <1>4, <1>5, <1>6, <1>7, <1>8, OneRequest

\* A request that arrives has no connection and no plan yet.
LEMMA ArriveKeeps ==
  ASSUME IInv, NEW r \in Requests, NEW q \in Inputs, Arrive(r, q)
  PROVE  IInv'
PROOF
  <1>1. /\ pc[r] = "idle"
        /\ request' = [request EXCEPT ![r] = q] /\ pc' = [pc EXCEPT ![r] = "arrived"]
        /\ UNCHANGED data /\ UNCHANGED <<settings, conn, plan, answer>>
    BY DEF Arrive
  <1>2. Question(q)
    <2>1. tokens \subseteq Token
      BY DEF IInv, Tables
    <2>2. q.kind \in Kinds
      BY DEF Inputs, Kinds
    <2>3. q.kind \in {"register", "login", "invite", "update"} => q.user \in Users
      BY DEF Inputs
    <2>4. /\ q.kind = "switch" => q.org \in Organisations
          /\ q.kind = "invite" => q.to.role \in Roles
      BY DEF Inputs, Roles
    <2>5. q.kind \in WithToken => q.claims \in Token
      BY <2>1 DEF Inputs, WithToken
    <2>6. ASSUME q.kind = "update" PROVE Changes(q.to)
      <3>1. q.to \in [status : {"active", "suspended"}] \cup [role : {"viewer"}]
                      \cup [role : {"viewer"}, status : {"suspended"}]
        BY <2>6 DEF Inputs
      <3> QED
        BY <3>1 DEF Changes, Roles, Statuses
    <2> QED
      BY <2>2, <2>3, <2>4, <2>5, <2>6 DEF Question
  <1>3. Shapes'
    BY <1>1 DEF IInv, Shapes, Phases
  <1>4. request'[r] = q /\ pc'[r] = "arrived" /\ conn'[r] = NULL /\ answer'[r] = NULL
    BY <1>1 DEF IInv, Shapes, InFlight, Connected, Holding
  <1>5. \A t \in Requests \ {r} : /\ request'[t] = request[t] /\ conn'[t] = conn[t]
                                  /\ plan'[t] = plan[t] /\ pc'[t] = pc[t] /\ answer'[t] = answer[t]
    BY <1>1 DEF IInv, Shapes
  <1>6. InFlight(r)'
    <2>1. Question(request[r])'
      BY <1>2, <1>4 DEF Question
    <2> QED
      BY <2>1, <1>4 DEF InFlight, Connected, Holding
  <1>7. Tables' /\ MembershipsAreWhole' /\ accounts \subseteq accounts' /\ MembersStay
    BY <1>1, TablesStay
  <1> QED
    BY <1>1, <1>3, <1>4, <1>5, <1>6, <1>7, OneRequest

\* The first transaction of a request, and the one after its commit.
LEMMA BeginKeeps ==
  ASSUME IInv, NEW r \in Requests, Open(r) \/ Reopen(r)
  PROVE  IInv'
PROOF
  <1>1. PICK c \in Free, to \in {"open", "refreshing"} :
          /\ pc[r] \in {"arrived", "committed"} /\ (to = "refreshing" => pc[r] = "committed")
          /\ conn' = [conn EXCEPT ![r] = c] /\ settings' = Begun(r, c)
          /\ pc' = [pc EXCEPT ![r] = to]
          /\ UNCHANGED data /\ UNCHANGED <<request, plan, answer>>
    BY DEF Open, Reopen
  <1>2. conn[r] = NULL /\ Question(request[r]) /\ answer[r] = NULL
    BY <1>1 DEF IInv, InFlight, Connected, Holding
  <1>3. c \in Connections /\ c # NULL /\ \A t \in Requests : conn[t] # c
    BY <1>2 DEF Free
  <1>4. Info(r) # NULL => Info(r) \in Organisations
    BY <1>2 DEF Info, Question, WithToken, Token
  <1>5. /\ settings' \in [Connections -> Setting]
        /\ Info(r) # NULL => settings'[c].org = Info(r)
        /\ \A d \in Connections \ {c} : settings'[d] = settings[d]
    <2>1. CASE Info(r) = NULL
      BY <2>1, <1>1 DEF Begun, IInv, Shapes
    <2>2. CASE Info(r) # NULL
      <3>1. settings' = [settings EXCEPT ![c] = [settings[c] EXCEPT !.org = Info(r)]]
        BY <2>2, <1>1 DEF Begun
      <3>2. settings[c] \in Setting
        BY <1>3 DEF IInv, Shapes
      <3>3. /\ [settings[c] EXCEPT !.org = Info(r)] \in Setting
            /\ [settings[c] EXCEPT !.org = Info(r)].org = Info(r)
        BY <3>2, <2>2, <1>4 DEF Setting
      <3> QED
        BY <3>1, <3>3, <1>3 DEF IInv, Shapes
    <2> QED
      BY <2>1, <2>2
  <1>6. Shapes'
    BY <1>1, <1>5 DEF IInv, Shapes, Phases
  <1>7. /\ conn'[r] = c /\ pc'[r] = to /\ request'[r] = request[r] /\ answer'[r] = NULL
        /\ plan'[r] = plan[r]
    BY <1>1, <1>2 DEF IInv, Shapes
  <1>8. \A t \in Requests \ {r} : /\ request'[t] = request[t] /\ conn'[t] = conn[t]
                                  /\ plan'[t] = plan[t] /\ pc'[t] = pc[t] /\ answer'[t] = answer[t]
    BY <1>1 DEF IInv, Shapes
  <1>9. InFlight(r)'
    <2>1. Question(request[r])'
      BY <1>2, <1>7 DEF Question
    <2>2. Connected(r)'
      BY <1>1, <1>3, <1>5, <1>7, <1>8 DEF Connected, Info, Holding
    <2>3. to = "refreshing" => request[r].kind = "create" /\ Supplies(r, plan[r])
      BY <1>1 DEF IInv, InFlight
    <2>4. to = "refreshing" => Supplies(r, plan[r])'
      BY <2>3, <1>7 DEF Supplies
    <2> QED
      BY <2>1, <2>2, <2>3, <2>4, <1>1, <1>7 DEF InFlight
  <1>10. Tables' /\ MembershipsAreWhole' /\ accounts \subseteq accounts' /\ MembersStay
    BY <1>1, TablesStay
  <1>11. \A d \in Connections : d # conn[r] /\ d \notin Free => settings'[d] = settings[d]
    BY <1>5
  <1> QED
    BY <1>6, <1>7, <1>8, <1>9, <1>10, <1>11, OneRequest

-----------------------------------------------------------------------------
(* Statements                                                               *)

\* A membership of the user in one of the organisations, with one of the statuses.
Has(u, orgs, stats) ==
  \E i \in DOMAIN members :
    members[i].user = u /\ members[i].org \in orgs /\ members[i].status \in stats

\* The answer that the tables call for, by what is asked.
LEMMA DueIs ==
  ASSUME NEW r
  PROVE  LET q == request[r]
         IN  /\ q.kind = "register" =>
                  Due(r) = IF ~SelfRegistration THEN "disabled"
                           ELSE IF q.user \in accounts THEN "conflict" ELSE NULL
             /\ q.kind = "login" =>
                  Due(r) = IF Has(q.user, Organisations, {"active"}) /\ q.user \notin Inactive
                             THEN NULL ELSE "denied"
             /\ q.kind = "switch" =>
                  Due(r) = IF Has(q.claims.user, {q.org}, {"active"}) THEN NULL ELSE "denied"
             /\ q.kind = "invite" =>
                  Due(r) = IF Has(q.user, {q.claims.org}, Statuses) THEN "conflict" ELSE NULL
             /\ q.kind = "update" =>
                  Due(r) = IF Has(q.user, {q.claims.org}, Statuses) THEN NULL ELSE "not_found"
             /\ q.kind = "create" => Due(r) = NULL
             /\ q.kind = "list" => Due(r) = {x \in suppliers : x.org = q.claims.org}
PROOF
  BY DEF Due, Has

\* The settings that register, login and switch_organisation set.
LEMMA SettingsAre ==
  ASSUME IInv, NEW r \in Requests, pc[r] \in Holding, NEW u \in Users, NEW o \in Organisations
  PROVE  /\ AsUser(r, u) \in Setting /\ AsUser(r, u).user = u
         /\ AsMember(u, o) \in Setting /\ ~CastFails(AsUser(r, u))
         /\ Active(u, AsUser(r, u)) =
              {i \in DOMAIN members : members[i].user = u /\ members[i].status = "active"}
PROOF
  <1>1. Current(r) \in Setting
    BY Holds
  <1>2. /\ AsUser(r, u) \in Setting /\ AsUser(r, u).user = u
        /\ AsMember(u, o) \in Setting
    BY <1>1 DEF AsUser, AsMember, Setting
  <1>3. ~CastFails(AsUser(r, u)) /\ Cast(AsUser(r, u).user) = u
    BY <1>2, CastNeverFails
  <1> QED
    BY <1>2, <1>3 DEF Active, Visible

\* Every membership that invite_user and update_membership ask for can be seen.
LEMMA AskedIs ==
  ASSUME IInv, NEW r \in Requests, pc[r] \in Holding, request[r].kind \in {"invite", "update"}
  PROVE  /\ ~CastFails(Current(r))
         /\ Asked(r) = {i \in DOMAIN members : /\ members[i].user = request[r].user
                                               /\ members[i].org = request[r].claims.org}
PROOF
  <1>1. Current(r) \in Setting /\ Current(r).org = request[r].claims.org /\ Question(request[r])
    BY Holds
  <1>2. request[r].claims.org \in Organisations
    BY <1>1 DEF Question, WithToken, Token
  <1>3. ~CastFails(Current(r)) /\ \A x : OfTenant(Current(r), x) <=> x = request[r].claims.org
    BY <1>1, <1>2, CastNeverFails
  <1> QED
    BY <1>3 DEF Asked, Visible

\* The rows of the table.
LEMMA MembersAre ==
  ASSUME IInv
  PROVE  /\ DOMAIN members = 1 .. Len(members) /\ Len(members) \in Nat
         /\ \A i \in DOMAIN members : members[i] \in Row /\ members[i].user \in accounts
PROOF
  BY LenProperties, ElementOfSeq DEF IInv, Tables

\* A set of naturals has a least member.
LEMMA Least ==
  ASSUME NEW S, S \subseteq Nat, S # {}
  PROVE  \E i \in S : \A j \in S : i <= j
PROOF
  <1>1. PICK i \in S : \A j \in S : <<j, i>> \notin OpToRel(<, Nat)
    BY WFMin, NatLessThanWellFounded, Zenon
  <1>2. \A j \in S : ~(j < i)
    BY <1>1, Zenon DEF OpToRel
  <1> QED
    BY <1>2

\* A plan that only issues a token fits if its user is a member.
LEMMA TokenFits ==
  ASSUME NEW r, NEW t \in Token, NEW i \in DOMAIN members, IsOf(members[i], t),
         request[r].kind \notin {"create", "update"}
  PROVE  /\ PlanFits(r, [Nothing EXCEPT !.token = {t}])
         /\ Supplies(r, [Nothing EXCEPT !.token = {t}])
PROOF
  <1> DEFINE p == [Nothing EXCEPT !.token = {t}]
  <1>1. p.accounts = {} /\ p.add = <<>> /\ p.change = {} /\ p.supplier = {} /\ p.token = {t}
    BY DEF Nothing
  <1> HIDE DEF p
  <1>2. <<>> \in Seq(Row) /\ Len(<<>>) = 0 /\ DOMAIN <<>> = {}
    OBVIOUS
  <1>3. PlanFits(r, p) /\ Supplies(r, p)
    BY <1>1, <1>2 DEF PlanFits, Supplies
  <1> QED
    BY <1>3 DEF p

\* A plan that adds one membership, perhaps with the account and the token of its user.
LEMMA MembershipFits ==
  ASSUME IInv, NEW r, NEW u \in Users, NEW o \in Organisations, NEW role \in Roles,
         NEW status \in Statuses, NEW p,
         p.accounts \subseteq {u}, u \in accounts \cup p.accounts,
         p.add = <<Membership(u, o, role, status)>>, p.change = {}, p.supplier = {},
         p.token \subseteq {Claims(u, o, role)}, request[r].kind # "create"
  PROVE  PlanFits(r, p) /\ Supplies(r, p)
PROOF
  <1> DEFINE m == Membership(u, o, role, status)
  <1>1. m \in Row /\ m.user = u /\ m.org = o
    BY DEF Membership, Row
  <1>2. Claims(u, o, role) \in Token /\ IsOf(m, Claims(u, o, role))
    BY <1>1 DEF Claims, Token, IsOf
  <1> HIDE DEF m
  <1>3. p.add \in Seq(Row) /\ Len(p.add) = 1 /\ DOMAIN p.add = {1} /\ p.add[1] = m
    BY <1>1 DEF m
  <1>4. /\ \A x \in p.accounts : \E k \in DOMAIN p.add : p.add[k].user = x
        /\ \A k \in DOMAIN p.add : p.add[k].user \in accounts \cup p.accounts
        /\ \A t \in p.token : \E k \in DOMAIN p.add : IsOf(p.add[k], t)
    BY <1>1, <1>2, <1>3
  <1> QED
    BY <1>2, <1>3, <1>4 DEF PlanFits, Supplies

-----------------------------------------------------------------------------
(* Requests                                                                 *)

\* register answers what is due, and plans an account with its membership.
LEMMA RegisterServes ==
  ASSUME IInv, NEW r \in Requests, Register(r)
  PROVE  IInv' /\ answer'[r] = Due(r)
PROOF
  <1> DEFINE u == request[r].user
             o == FoundsOf[u]
             p == [Nothing EXCEPT !.accounts = {u},
                                  !.add = <<Membership(u, o, "owner", "active")>>,
                                  !.token = {Claims(u, o, "owner")}]
  <1>1. pc[r] = "open" /\ request[r].kind = "register"
    BY DEF Register, Serving
  <1>2. Question(request[r])
    BY <1>1, Holds DEF Holding
  <1>3. u \in Users /\ o \in Organisations
    BY <1>1, <1>2, TenantAssumption DEF Question
  <1>4. Due(r) = IF ~SelfRegistration THEN "disabled"
                 ELSE IF u \in accounts THEN "conflict" ELSE NULL
    BY <1>1, DueIs
  <1>0. CASE ~SelfRegistration
    <2>1. Refuse(r, "disabled")
      BY <1>0 DEF Register
    <2> QED
      BY <2>1, <1>0, <1>1, <1>4, RefuseKeeps DEF Holding
  <1>5. CASE SelfRegistration /\ u \in accounts
    <2>1. Refuse(r, "conflict")
      BY <1>5 DEF Register
    <2> QED
      BY <2>1, <1>1, <1>4, <1>5, RefuseKeeps DEF Holding
  <1>6. CASE SelfRegistration /\ u \notin accounts
    <2>1. Flush(r, p, AsMember(u, o))
      BY <1>6 DEF Register
    <2>2. /\ p.accounts = {u} /\ p.add = <<Membership(u, o, "owner", "active")>>
          /\ p.change = {} /\ p.supplier = {} /\ p.token = {Claims(u, o, "owner")}
      BY DEF Nothing
    <2> HIDE DEF p, u, o
    <2>3. PlanFits(r, p) /\ Supplies(r, p)
      <3>1. "owner" \in Roles /\ "active" \in Statuses
        BY DEF Roles, Statuses
      <3>2. /\ p.accounts \subseteq {u} /\ u \in accounts \cup p.accounts
            /\ p.token \subseteq {Claims(u, o, "owner")} /\ request[r].kind # "create"
        BY <2>2, <1>1
      <3> QED
        BY <2>2, <3>1, <3>2, <1>3, MembershipFits, Zenon
    <2>4. AsMember(u, o) \in Setting
      BY <1>3 DEF AsMember, Setting
    <2>5. Info(r) = NULL
      BY <1>1 DEF Info
    <2> QED
      BY <2>1, <2>3, <2>4, <2>5, <1>1, <1>4, <1>6, FlushKeeps
  <1> QED
    BY <1>0, <1>5, <1>6

\* login answers what is due, and plans a token of an active membership.
LEMMA LoginServes ==
  ASSUME IInv, NEW r \in Requests, Login(r)
  PROVE  IInv' /\ answer'[r] = Due(r)
PROOF
  <1> DEFINE u == request[r].user
             s == AsUser(r, u)
             own == Active(u, s)
  <1>1. pc[r] = "open" /\ request[r].kind = "login" /\ pc[r] \in Holding
    BY DEF Login, Serving, Holding
  <1>2. u \in Users
    BY <1>1, Holds DEF Question
  <1>3. \E o \in Organisations : TRUE
    BY <1>2, TenantAssumption
  <1>4. /\ s \in Setting /\ ~CastFails(s)
        /\ own = {i \in DOMAIN members : members[i].user = u /\ members[i].status = "active"}
    BY <1>1, <1>2, <1>3, SettingsAre
  <1>5. own = {} <=> ~Has(u, Organisations, {"active"})
    BY <1>4, MembersAre DEF Has, Row
  <1>6. Due(r) = IF own = {} \/ u \in Inactive THEN "denied" ELSE NULL
    BY <1>1, <1>5, DueIs
  <1>7. CASE u \notin accounts \/ u \in Inactive
    <2>1. Refuse(r, "denied")
      BY <1>7 DEF Login
    <2>2. own = {} \/ u \in Inactive
      BY <1>4, <1>7, MembersAre
    <2> QED
      BY <2>1, <2>2, <1>1, <1>6, RefuseKeeps
  <1>8. CASE u \in accounts \ Inactive /\ own = {}
    <2>1. Refuse(r, "denied")
      BY <1>4, <1>8 DEF Login, Under
    <2> QED
      BY <2>1, <1>1, <1>6, <1>8, RefuseKeeps
  <1>9. CASE u \in accounts \ Inactive /\ own # {}
    <2> DEFINE first == CHOOSE i \in own : \A j \in own : i <= j
               m == members[first]
               p == [Nothing EXCEPT !.token = {Claims(u, m.org, m.role)}]
    <2>1. Flush(r, p, s)
      BY <1>4, <1>9 DEF Login, Under
    <2>2. own \subseteq Nat
      BY <1>4, MembersAre
    <2>3. \E i \in own : \A j \in own : i <= j
      BY <2>2, <1>9, Least
    <2>4. first \in own
      BY <2>3
    <2>5. first \in DOMAIN members /\ m.user = u /\ m \in Row
      BY <2>4, <1>4, MembersAre
    <2> HIDE DEF first
    <2>6. Claims(u, m.org, m.role) \in Token /\ IsOf(m, Claims(u, m.org, m.role))
      BY <2>5 DEF Row, Claims, Token, IsOf
    <2>7. PlanFits(r, p) /\ Supplies(r, p)
      BY <2>5, <2>6, <1>1, TokenFits
    <2>8. Info(r) = NULL
      BY <1>1 DEF Info
    <2> QED
      BY <2>1, <2>7, <2>8, <1>1, <1>4, <1>6, <1>9, FlushKeeps
  <1> QED
    BY <1>7, <1>8, <1>9

\* switch_organisation answers what is due, and plans a token of an active membership.
LEMMA SwitchServes ==
  ASSUME IInv, NEW r \in Requests, Switch(r)
  PROVE  IInv' /\ answer'[r] = Due(r)
PROOF
  <1> DEFINE u == request[r].claims.user
             o == request[r].org
             s == AsUser(r, u)
             mine == {i \in Active(u, s) : members[i].org = o}
  <1>1. pc[r] = "open" /\ request[r].kind = "switch" /\ pc[r] \in Holding
    BY DEF Switch, Serving, Holding
  <1>2. u \in Users /\ o \in Organisations
    BY <1>1, Holds DEF Question, WithToken, Token
  <1>3. /\ AsMember(u, o) \in Setting /\ ~CastFails(s)
        /\ Active(u, s) = {i \in DOMAIN members : members[i].user = u /\ members[i].status = "active"}
    BY <1>1, <1>2, SettingsAre
  <1>4. mine = {i \in DOMAIN members : /\ members[i].user = u /\ members[i].org = o
                                       /\ members[i].status = "active"}
    BY <1>3
  <1>5. Due(r) = IF mine = {} THEN "denied" ELSE NULL
    <2>1. mine = {} <=> ~Has(u, {o}, {"active"})
      BY <1>4 DEF Has
    <2> QED
      BY <2>1, <1>1, DueIs
  <1>6. CASE mine = {}
    <2>1. Refuse(r, "denied")
      BY <1>3, <1>6 DEF Switch, Under
    <2> QED
      BY <2>1, <1>1, <1>5, <1>6, RefuseKeeps
  <1>7. CASE mine # {}
    <2>1. PICK i \in mine : Flush(r, [Nothing EXCEPT !.token = {Claims(u, o, members[i].role)}],
                                  AsMember(u, o))
      BY <1>3, <1>7 DEF Switch, Under
    <2>2. i \in DOMAIN members /\ members[i] \in Row /\ members[i].user = u /\ members[i].org = o
      BY <1>4, MembersAre
    <2>3. /\ Claims(u, o, members[i].role) \in Token
          /\ IsOf(members[i], Claims(u, o, members[i].role))
      BY <2>2, <1>2 DEF Row, Claims, Token, IsOf
    <2> DEFINE p == [Nothing EXCEPT !.token = {Claims(u, o, members[i].role)}]
    <2>4. PlanFits(r, p) /\ Supplies(r, p)
      BY <2>2, <2>3, <1>1, TokenFits
    <2>5. Info(r) = NULL
      BY <1>1 DEF Info
    <2> QED
      BY <2>1, <2>4, <2>5, <1>1, <1>3, <1>5, <1>7, FlushKeeps
  <1> QED
    BY <1>6, <1>7

\* invite_user answers what is due, and plans a membership that was not there.
LEMMA InviteServes ==
  ASSUME IInv, NEW r \in Requests, Invite(r)
  PROVE  IInv' /\ answer'[r] = Due(r)
PROOF
  <1> DEFINE u == request[r].user
             o == request[r].claims.org
             p == [Nothing EXCEPT !.accounts = {u} \ accounts,
                                  !.add = <<Membership(u, o, request[r].to.role, "invited")>>]
  <1>1. pc[r] = "open" /\ request[r].kind = "invite" /\ pc[r] \in Holding
    BY DEF Invite, Serving, Holding
  <1>2. u \in Users /\ o \in Organisations /\ request[r].to.role \in Roles
    BY <1>1, Holds DEF Question, WithToken, Token
  <1>3. ~CastFails(Current(r)) /\ Current(r) \in Setting /\ Current(r).org = o
    BY <1>1, Holds, AskedIs
  <1>4. Due(r) = IF Asked(r) = {} THEN NULL ELSE "conflict"
    <2>1. Asked(r) = {} <=> ~Has(u, {o}, Statuses)
      BY <1>1, AskedIs, MembersAre DEF Has, Row
    <2> QED
      BY <2>1, <1>1, DueIs
  <1>5. CASE Asked(r) # {}
    <2>1. Refuse(r, "conflict")
      BY <1>3, <1>5 DEF Invite, Under
    <2> QED
      BY <2>1, <1>1, <1>4, <1>5, RefuseKeeps
  <1>6. CASE Asked(r) = {}
    <2>1. Flush(r, p, Current(r))
      BY <1>3, <1>6 DEF Invite, Under
    <2>2. /\ p.accounts = {u} \ accounts
          /\ p.add = <<Membership(u, o, request[r].to.role, "invited")>>
          /\ p.change = {} /\ p.supplier = {} /\ p.token = {}
      BY DEF Nothing
    <2> HIDE DEF p
    <2>3. PlanFits(r, p) /\ Supplies(r, p)
      <3> DEFINE role == request[r].to.role
      <3>1. u \in Users /\ o \in Organisations /\ role \in Roles /\ "invited" \in Statuses
        BY <1>2 DEF Statuses
      <3>2. /\ p.accounts \subseteq {u} /\ u \in accounts \cup p.accounts
            /\ p.add = <<Membership(u, o, role, "invited")>>
            /\ p.change = {} /\ p.supplier = {} /\ p.token \subseteq {Claims(u, o, role)}
        BY <2>2
      <3>3. request[r].kind # "create"
        BY <1>1
      <3> HIDE DEF u, o, role
      <3> QED
        BY <3>1, <3>2, <3>3, MembershipFits
    <2>4. Info(r) = Current(r).org
      BY <1>1, <1>3 DEF Info
    <2> QED
      BY <2>1, <2>3, <2>4, <1>1, <1>3, <1>4, <1>6, FlushKeeps
  <1> QED
    BY <1>5, <1>6

\* update_membership answers what is due, and plans a change of one membership.
LEMMA UpdateServes ==
  ASSUME IInv, NEW r \in Requests, Update(r)
  PROVE  IInv' /\ answer'[r] = Due(r)
PROOF
  <1> DEFINE u == request[r].user
             o == request[r].claims.org
             to == request[r].to
             p == [Nothing EXCEPT !.change =
                     {w \in Asked(r) \X DOMAIN to : to[w[2]] # members[w[1]][w[2]]}]
  <1>1. pc[r] = "open" /\ request[r].kind = "update" /\ pc[r] \in Holding
    BY DEF Update, Serving, Holding
  <1>2. ~CastFails(Current(r)) /\ Current(r) \in Setting /\ Current(r).org = o
    BY <1>1, Holds, AskedIs
  <1>3. Due(r) = IF Asked(r) = {} THEN "not_found" ELSE NULL
    <2>1. Asked(r) = {} <=> ~Has(u, {o}, Statuses)
      BY <1>1, AskedIs, MembersAre DEF Has, Row
    <2> QED
      BY <2>1, <1>1, DueIs
  <1>4. CASE Asked(r) = {}
    <2>1. Refuse(r, "not_found")
      BY <1>2, <1>4 DEF Update, Under
    <2> QED
      BY <2>1, <1>1, <1>3, <1>4, RefuseKeeps
  <1>5. CASE Asked(r) # {}
    <2>1. Flush(r, p, Current(r))
      BY <1>2, <1>5 DEF Update, Under
    <2>2. /\ p.accounts = {} /\ p.add = <<>> /\ p.supplier = {} /\ p.token = {}
          /\ \A w \in p.change : w[2] \in DOMAIN to
      BY DEF Nothing
    <2> HIDE DEF p
    <2>3. <<>> \in Seq(Row) /\ Len(<<>>) = 0 /\ DOMAIN <<>> = {}
      OBVIOUS
    <2>4. PlanFits(r, p) /\ Supplies(r, p)
      BY <2>2, <2>3, <1>1 DEF PlanFits, Supplies
    <2>5. Info(r) = Current(r).org
      BY <1>1, <1>2 DEF Info
    <2> QED
      BY <2>1, <2>4, <2>5, <1>1, <1>2, <1>3, <1>5, FlushKeeps
  <1> QED
    BY <1>4, <1>5

\* A create answers what is due, and plans a row of the organisation of its token.
LEMMA CreateServes ==
  ASSUME IInv, NEW r \in Requests, Create(r)
  PROVE  IInv' /\ answer'[r] = Due(r)
PROOF
  <1> DEFINE p == [Nothing EXCEPT !.supplier = {[by |-> r, org |-> request[r].claims.org]}]
  <1>1. pc[r] = "open" /\ request[r].kind = "create" /\ pc[r] \in Holding /\ Flush(r, p, Current(r))
    BY DEF Create, Serving, Holding
  <1>2. Current(r) \in Setting /\ Current(r).org = request[r].claims.org
    BY <1>1, Holds
  <1>3. /\ p.accounts = {} /\ p.add = <<>> /\ p.change = {} /\ p.token = {}
        /\ p.supplier = {[by |-> r, org |-> request[r].claims.org]}
    BY DEF Nothing
  <1> HIDE DEF p
  <1>4. <<>> \in Seq(Row) /\ Len(<<>>) = 0 /\ DOMAIN <<>> = {}
    OBVIOUS
  <1>5. PlanFits(r, p) /\ Supplies(r, p)
    BY <1>1, <1>3, <1>4 DEF PlanFits, Supplies
  <1>6. Info(r) = Current(r).org
    BY <1>1, <1>2 DEF Info
  <1>7. Due(r) = NULL
    BY <1>1, DueIs
  <1> QED
    BY <1>1, <1>2, <1>5, <1>6, <1>7, FlushKeeps

\* The organisation of the session is the only condition, and it is that of the token.
LEMMA ListServes ==
  ASSUME IInv, NEW r \in Requests, List(r)
  PROVE  IInv' /\ answer'[r] = Due(r)
PROOF
  <1>1. /\ pc[r] = "open" /\ request[r].kind = "list" /\ pc[r] \in Holding
        /\ Refuse(r, {s \in suppliers : OfTenant(Current(r), s.org)})
    BY DEF List, Serving, Holding
  <1>2. /\ Current(r) \in Setting /\ Current(r).org = request[r].claims.org
        /\ request[r].claims.org \in Organisations
    BY <1>1, Holds DEF Question, WithToken, Token
  <1>3. \A x : OfTenant(Current(r), x) <=> x = request[r].claims.org
    BY <1>2, CastNeverFails
  <1>4. Due(r) = {s \in suppliers : OfTenant(Current(r), s.org)}
    BY <1>1, <1>3, DueIs, ZenonT(60)
  <1> QED
    BY <1>1, <1>4, RefuseKeeps

\* The read of what was written, in the transaction after the commit.
LEMMA RefreshKeeps ==
  ASSUME IInv, NEW r \in Requests, Refresh(r)
  PROVE  IInv'
PROOF
  <1>1. pc[r] = "refreshing" /\ pc[r] \in Holding
    BY DEF Refresh, Holding
  <1>2. request[r].kind = "create" /\ plan[r].supplier = {[by |-> r, org |-> request[r].claims.org]}
    BY <1>1 DEF IInv, InFlight, Supplies
  <1>3. /\ Current(r) \in Setting /\ Current(r).org = request[r].claims.org
        /\ request[r].claims.org \in Organisations
    BY <1>1, <1>2, Holds DEF Question, WithToken, Token
  <1>4. \A x \in plan[r].supplier : OfTenant(Current(r), x.org)
    BY <1>2, <1>3, CastNeverFails
  <1>5. Refuse(r, "ok")
    BY <1>4 DEF Refresh
  <1> QED
    BY <1>1, <1>5, RefuseKeeps

-----------------------------------------------------------------------------
(* Commits                                                                  *)

\* What create has flushed is of its own tenant, and collides with nothing.
LEMMA CreatesAreAccepted ==
  ASSUME IInv, NEW r \in Requests, pc[r] = "flushed", request[r].kind = "create"
  PROVE  Accepted(r)
PROOF
  <1>1. /\ plan[r].accounts = {} /\ plan[r].add = <<>>
        /\ plan[r].supplier = {[by |-> r, org |-> request[r].claims.org]}
    BY DEF IInv, InFlight, Supplies
  <1>2. /\ Current(r) \in Setting /\ Current(r).org = request[r].claims.org
        /\ request[r].claims.org \in Organisations
    BY Holds DEF Question, WithToken, Token, Holding
  <1>3. \A x \in plan[r].supplier : OfTenant(Current(r), x.org)
    BY <1>1, <1>2, CastNeverFails
  <1> QED
    BY <1>1, <1>3 DEF Accepted

\* A failed COMMIT leaves the tables as they were committed before.
LEMMA CommitFailsKeeps ==
  ASSUME IInv, NEW r \in Requests, CommitFails(r)
  PROVE  IInv'
PROOF
  BY CreatesAreAccepted, RefuseKeeps DEF CommitFails, Holding

\* A membership keeps its user and its organisation.
LEMMA AssignedIs ==
  ASSUME NEW i, members[i] \in Row, NEW change, NEW to,
         \A w \in change : Changes(to) /\ w[2] \in DOMAIN to
  PROVE  /\ Assigned(i, change, to) \in Row
         /\ Assigned(i, change, to).user = members[i].user
         /\ Assigned(i, change, to).org = members[i].org
PROOF
  <1>1. PICK u \in Users, o \in Organisations, role \in Roles, status \in Statuses :
          members[i] = [user |-> u, org |-> o, role |-> role, status |-> status]
    BY DEF Row
  <1>2. ASSUME NEW f, <<i, f>> \in change PROVE Changes(to) /\ f \in DOMAIN to
    <2>1. PICK w \in change : w = <<i, f>>
      BY <1>2
    <2> QED
      BY <2>1
  <1>3. PICK a \in Roles, b \in Statuses :
          Assigned(i, change, to) = [user |-> u, org |-> o, role |-> a, status |-> b]
    <2>1. Assigned(i, change, to) = [f \in {"user", "org", "role", "status"} |->
                                      IF <<i, f>> \in change THEN to[f] ELSE members[i][f]]
      BY <1>1 DEF Assigned
    <2>2. <<i, "user">> \notin change /\ <<i, "org">> \notin change
      BY <1>2 DEF Changes
    <2> DEFINE a == IF <<i, "role">> \in change THEN to["role"] ELSE role
               b == IF <<i, "status">> \in change THEN to["status"] ELSE status
    <2>3. a \in Roles
      BY <1>2 DEF Changes
    <2>4. b \in Statuses
      BY <1>2 DEF Changes
    <2>5. Assigned(i, change, to) = [user |-> u, org |-> o, role |-> a, status |-> b]
      BY <1>1, <2>1, <2>2
    <2> HIDE DEF a, b
    <2> QED
      BY <2>3, <2>4, <2>5
  <1> QED
    BY <1>1, <1>3 DEF Row

\* The rows after a commit: those of before, with their users and organisations, and the new.
LEMMA MembersAfter ==
  ASSUME IInv, NEW r \in Requests, Commit(r)
  PROVE  /\ members' \in Seq(Row) /\ MembersStay
         /\ DOMAIN members' = 1 .. (Len(members) + Len(plan[r].add))
         /\ \A k \in DOMAIN plan[r].add : members'[Len(members) + k] = plan[r].add[k]
PROOF
  <1> DEFINE n == Len(members)
             add == plan[r].add
             Row1(i) == Assigned(i, plan[r].change, request[r].to)
             changed == [i \in DOMAIN members |-> Row1(i)]
  <1>1. pc[r] = "flushed" /\ members' = changed \o add
    BY DEF Commit
  <1>2. PlanFits(r, plan[r]) /\ Question(request[r])
    BY <1>1 DEF IInv, InFlight
  <1>3. add \in Seq(Row) /\ Len(add) \in Nat /\ DOMAIN add = 1 .. Len(add)
    BY <1>2 DEF PlanFits
  <1>4. DOMAIN members = 1 .. n /\ n \in Nat /\ \A i \in 1 .. n : members[i] \in Row
    BY MembersAre
  <1>5. \A w \in plan[r].change : Changes(request[r].to) /\ w[2] \in DOMAIN request[r].to
    BY <1>2 DEF PlanFits, Question
  <1>6. \A i \in 1 .. n : /\ Row1(i) \in Row /\ Row1(i).user = members[i].user
                          /\ Row1(i).org = members[i].org
    BY <1>4, <1>5, AssignedIs
  <1> HIDE DEF Row1
  <1>7. changed \in [1 .. n -> Row]
    BY <1>4, <1>6
  <1>8. changed \in Seq(Row) /\ Len(changed) = n /\ \A i \in 1 .. n : changed[i] = Row1(i)
    BY <1>4, <1>7
  <1> HIDE DEF changed, add, n
  <1>9. /\ changed \o add \in Seq(Row) /\ Len(changed \o add) = n + Len(add)
        /\ \A i \in 1 .. n + Len(add) :
             (changed \o add)[i] = IF i <= n THEN changed[i] ELSE add[i - n]
    BY <1>3, <1>8, ConcatProperties, Zenon
  <1>10. members' \in Seq(Row) /\ Len(members') = n + Len(add)
    BY <1>1, <1>9
  <1>11. DOMAIN members' = 1 .. n + Len(add)
    BY <1>10
  <1>12. \A i \in 1 .. n : members'[i] = Row1(i)
    BY <1>1, <1>3, <1>4, <1>8, <1>9
  <1>13. MembersStay
    BY <1>3, <1>4, <1>6, <1>11, <1>12 DEF MembersStay
  <1>14. \A k \in DOMAIN add : members'[n + k] = add[k]
    <2> TAKE k \in DOMAIN add
    <2>1. k \in 1 .. Len(add) /\ n + k \in 1 .. n + Len(add) /\ ~(n + k <= n) /\ (n + k) - n = k
      BY <1>3, <1>4
    <2> QED
      BY <2>1, <1>1, <1>9
  <1> QED
    BY <1>10, <1>11, <1>13, <1>14 DEF n, add

\* COMMIT keeps memberships whole: an account and its membership become visible together.
LEMMA CommitKeeps ==
  ASSUME IInv, NEW r \in Requests, Commit(r)
  PROVE  IInv'
PROOF
  <1> DEFINE p == plan[r]
             n == Len(members)
  <1>1. /\ pc[r] = "flushed" /\ Accepted(r)
        /\ accounts' = accounts \cup p.accounts /\ suppliers' = suppliers \cup p.supplier
        /\ tokens' = tokens \cup p.token
        /\ settings' = [settings EXCEPT ![conn[r]] = Ended(settings[conn[r]])]
        /\ conn' = [conn EXCEPT ![r] = NULL]
        /\ IF p.supplier # {}
             THEN pc' = [pc EXCEPT ![r] = "committed"] /\ UNCHANGED answer
             ELSE pc' = [pc EXCEPT ![r] = "done"] /\ answer' = [answer EXCEPT ![r] = "ok"]
        /\ UNCHANGED <<request, plan>>
    BY DEF Commit, Release
  <1>2. /\ PlanFits(r, p) /\ Supplies(r, p) /\ Question(request[r])
        /\ conn[r] \in Connections /\ Current(r) \in Setting /\ answer[r] = NULL
    BY <1>1, Holds DEF IInv, InFlight, Holding
  <1>3. /\ members' \in Seq(Row) /\ MembersStay
        /\ DOMAIN members' = 1 .. (n + Len(p.add))
        /\ \A k \in DOMAIN p.add : members'[n + k] = p.add[k]
    BY MembersAfter
  <1>4. /\ n \in Nat /\ DOMAIN members = 1 .. n
        /\ Len(p.add) \in {0, 1} /\ DOMAIN p.add = 1 .. Len(p.add)
    <2> DEFINE a == p.add
    <2>1. a \in Seq(Row) /\ Len(a) <= 1
      BY <1>2 DEF PlanFits
    <2> HIDE DEF a
    <2>2. Len(a) \in Nat /\ DOMAIN a = 1 .. Len(a)
      BY <2>1
    <2>3. Len(a) \in {0, 1}
      BY <2>1, <2>2
    <2> QED
      BY <2>2, <2>3, MembersAre DEF a
  \* A row is one of before or the one that was added.
  <1>5. \A j \in DOMAIN members' : j \in DOMAIN members \/ (1 \in DOMAIN p.add /\ j = n + 1)
    <2> DEFINE a == Len(p.add)
    <2>1. /\ DOMAIN members' = 1 .. (n + a) /\ n \in Nat /\ DOMAIN members = 1 .. n
          /\ a \in {0, 1} /\ DOMAIN p.add = 1 .. a
      BY <1>3, <1>4
    <2> HIDE DEF a, n
    <2> QED
      BY <2>1
  <1>6. 1 \in DOMAIN p.add => n + 1 \in DOMAIN members' /\ members'[n + 1] = p.add[1]
    BY <1>3, <1>4
  <1>7. request[r].kind = "create" <=> p.supplier # {}
    BY <1>2 DEF Supplies
  <1> HIDE DEF p, n
  <1>8. Tables'
    <2>1. accounts' \subseteq Users /\ tokens' \subseteq Token
      BY <1>1, <1>2 DEF IInv, Tables, PlanFits
    <2>2. suppliers' \subseteq [by : Requests, org : Organisations]
      <3>1. p.supplier \subseteq [by : Requests, org : Organisations]
        BY <1>2 DEF Supplies, Question, WithToken, Token
      <3> QED
        BY <3>1, <1>1 DEF IInv, Tables
    <2>3. \A j \in DOMAIN members' : members'[j].user \in accounts'
      <3>1. \A j \in DOMAIN members : members'[j].user \in accounts'
        BY <1>1, <1>3 DEF IInv, Tables, MembersStay
      <3>2. 1 \in DOMAIN p.add => p.add[1].user \in accounts'
        BY <1>1, <1>2 DEF PlanFits
      <3> QED
        BY <3>1, <3>2, <1>5, <1>6
    <2> QED
      BY <2>1, <2>2, <2>3, <1>3 DEF Tables
  <1>9. MembershipsAreWhole'
    <2>1. \A u \in accounts' : \E i \in DOMAIN members' : members'[i].user = u
      <3>1. \A u \in accounts : \E i \in DOMAIN members' : members'[i].user = u
        BY <1>3 DEF IInv, MembershipsAreWhole, MembersStay
      <3>2. \A u \in p.accounts : 1 \in DOMAIN p.add /\ p.add[1].user = u
        BY <1>2, <1>4 DEF PlanFits
      <3> QED
        BY <3>1, <3>2, <1>1, <1>6
    <2>2. ASSUME NEW i \in DOMAIN members', NEW j \in DOMAIN members',
                 members'[i].user = members'[j].user, members'[i].org = members'[j].org
          PROVE  i = j
      <3>1. 1 \in DOMAIN p.add => \A k \in DOMAIN members :
              members'[k].user # p.add[1].user \/ members'[k].org # p.add[1].org
        BY <1>1, <1>3 DEF Accepted, MembersStay, p
      <3>2. i \in DOMAIN members /\ j \in DOMAIN members => i = j
        BY <2>2, <1>3 DEF IInv, MembershipsAreWhole, MembersStay
      <3> QED
        BY <3>1, <3>2, <2>2, <1>5, <1>6
    <2>3. \A t \in tokens' : \E i \in DOMAIN members' : members'[i].user = t.user /\ members'[i].org = t.org
      <3>1. \A t \in tokens : \E i \in DOMAIN members' : members'[i].user = t.user /\ members'[i].org = t.org
        BY <1>3 DEF IInv, MembershipsAreWhole, MembersStay
      <3>2. ASSUME NEW t \in p.token
            PROVE  \E i \in DOMAIN members' : members'[i].user = t.user /\ members'[i].org = t.org
        <4>1. CASE \E i \in DOMAIN members : IsOf(members[i], t)
          BY <4>1, <1>3 DEF IsOf, MembersStay
        <4>2. CASE \E k \in DOMAIN p.add : IsOf(p.add[k], t)
          <5>1. 1 \in DOMAIN p.add /\ IsOf(p.add[1], t)
            BY <4>2, <1>4
          <5> QED
            BY <5>1, <1>6 DEF IsOf
        <4> QED
          BY <4>1, <4>2, <1>2 DEF PlanFits
      <3> QED
        BY <3>1, <3>2, <1>1
    <2> QED
      BY <2>1, <2>2, <2>3 DEF MembershipsAreWhole
  <1>10. Ended(settings[conn[r]]) \in Setting
    BY <1>2, EndedIs DEF Current
  <1>11. Shapes'
    BY <1>1, <1>2, <1>10 DEF IInv, Shapes, Phases
  <1>12. \A t \in Requests \ {r} : /\ request'[t] = request[t] /\ conn'[t] = conn[t]
                                   /\ plan'[t] = plan[t] /\ pc'[t] = pc[t] /\ answer'[t] = answer[t]
    BY <1>1 DEF IInv, Shapes
  <1>13. \A c \in Connections : c # conn[r] /\ c \notin Free => settings'[c] = settings[c]
    BY <1>1 DEF IInv, Shapes
  <1>14. conn'[r] = NULL /\ request' = request /\ plan' = plan
    BY <1>1 DEF IInv, Shapes
  <1>15. InFlight(r)'
    <2>1. Connected(r)' <=> pc'[r] \notin Holding \/ Connected(r)'
      BY <1>14 DEF Connected
    <2>2. Question(request[r])' /\ (Supplies(r, plan[r])' <=> Supplies(r, plan[r]))
      BY <1>2, <1>14 DEF Question, Supplies
    <2>3. CASE request[r].kind = "create"
      <3>1. pc'[r] = "committed" /\ answer'[r] = NULL
        BY <2>3, <1>1, <1>2, <1>7 DEF IInv, Shapes
      <3> QED
        BY <3>1, <2>2, <2>3, <1>2, <1>14 DEF InFlight, Connected, Holding, p
    <2>4. CASE request[r].kind # "create"
      <3>1. pc'[r] = "done"
        BY <2>4, <1>1, <1>7 DEF IInv, Shapes
      <3> QED
        BY <3>1, <2>2, <2>4, <1>14 DEF InFlight, Connected, Holding
    <2> QED
      BY <2>3, <2>4
  <1>16. accounts \subseteq accounts'
    BY <1>1
  <1> QED
    BY <1>3, <1>8, <1>9, <1>11, <1>12, <1>13, <1>14, <1>15, <1>16, OneRequest

-----------------------------------------------------------------------------
(* The specification                                                        *)

\* The memberships at the beginning, their users and their tokens.
LEMMA InitInvariant == Init => IInv
PROOF
  <1> SUFFICES ASSUME Init PROVE IInv
    OBVIOUS
  <1>1. /\ DOMAIN Members = 1 .. Len(Members) /\ Len(Members) \in Nat
        /\ \A i \in DOMAIN Members : Members[i] \in Row
    <2>1. Members \in Seq(Row)
      BY TenantAssumption DEF Row
    <2> QED
      BY <2>1, LenProperties, ElementOfSeq
  <1>2. Shapes
    BY DEF Init, Shapes, Unset, Setting, Phases
  <1>3. Tables
    <2>1. \A i \in DOMAIN Members :
            Claims(Members[i].user, Members[i].org, Members[i].role) \in Token
      BY <1>1 DEF Row, Claims, Token
    <2> QED
      BY <2>1, <1>1, TenantAssumption DEF Init, Tables, Row
  <1>4. MembershipsAreWhole
    BY TenantAssumption DEF Init, MembershipsAreWhole, Claims
  <1>5. \A r \in Requests : InFlight(r)
    BY DEF Init, InFlight, Connected, Holding
  <1> QED
    BY <1>2, <1>3, <1>4, <1>5 DEF IInv

\* Each step of Next by what it does; a request that is served gets the answer that is due.
LEMMA StepInvariant ==
  ASSUME IInv, [Next]_vars
  PROVE  IInv' /\ \A r \in Requests : pc[r] = "open" /\ pc'[r] # "open" => answer'[r] = Due(r)
PROOF
  <1> DEFINE Answered == \A r \in Requests : pc[r] = "open" /\ pc'[r] # "open" => answer'[r] = Due(r)
  <1> SUFFICES IInv' /\ Answered
    OBVIOUS
  <1>1. CASE UNCHANGED vars
    <2>1. IInv'
      <3>1. UNCHANGED data /\ UNCHANGED <<settings, request, conn, plan, pc, answer>>
        BY <1>1 DEF vars, data
      <3>2. Tables' /\ MembershipsAreWhole' /\ accounts \subseteq accounts' /\ MembersStay
        BY <3>1, TablesStay
      <3>3. Shapes'
        BY <3>1 DEF IInv, Shapes
      <3>4. \A r \in Requests : InFlight(r)'
        <4> TAKE r \in Requests
        <4>1. InFlight(r) /\ (pc[r] \in Holding => \A t \in Requests : conn'[t] = conn[r] => t = r)
          BY <3>1 DEF IInv, InFlight, Connected
        <4> QED
          BY <4>1, <3>1, <3>2, OthersStay
      <3> QED
        BY <3>2, <3>3, <3>4 DEF IInv
    <2> QED
      BY <2>1, <1>1 DEF vars
  \* Steps of a request that is not being served.
  <1>2. ASSUME NEW r \in Requests, pc[r] # "open", IInv',
               \A t \in Requests \ {r} : pc'[t] = pc[t]
        PROVE  Answered
    BY <1>2
  <1>3. ASSUME NEW r \in Requests, IInv' /\ answer'[r] = Due(r),
               \A t \in Requests \ {r} : pc'[t] = pc[t]
        PROVE  Answered
    BY <1>3
  <1>4. ASSUME NEW r \in Requests, NEW q \in Inputs, Arrive(r, q)
        PROVE  IInv' /\ Answered
    <2>1. pc[r] # "open" /\ pc' = [pc EXCEPT ![r] = "arrived"]
      BY <1>4 DEF Arrive
    <2>2. \A t \in Requests \ {r} : pc'[t] = pc[t]
      BY <2>1 DEF IInv, Shapes
    <2> QED
      BY <2>1, <2>2, <1>2, <1>4, ArriveKeeps
  <1>5. ASSUME NEW r \in Requests, Open(r) \/ Reopen(r)
        PROVE  IInv' /\ Answered
    <2>1. pc[r] # "open" /\ \E to : pc' = [pc EXCEPT ![r] = to]
      BY <1>5 DEF Open, Reopen
    <2>2. \A t \in Requests \ {r} : pc'[t] = pc[t]
      BY <2>1 DEF IInv, Shapes
    <2> QED
      BY <2>1, <2>2, <1>2, <1>5, BeginKeeps
  <1>6. ASSUME NEW r \in Requests, Refresh(r) \/ CommitFails(r)
        PROVE  IInv' /\ Answered
    <2>1. pc[r] # "open" /\ pc' = [pc EXCEPT ![r] = "done"]
      BY <1>6 DEF Refresh, CommitFails, Refuse
    <2>2. \A t \in Requests \ {r} : pc'[t] = pc[t]
      BY <2>1 DEF IInv, Shapes
    <2> QED
      BY <2>1, <2>2, <1>2, <1>6, RefreshKeeps, CommitFailsKeeps
  <1>7. ASSUME NEW r \in Requests, Commit(r)
        PROVE  IInv' /\ Answered
    <2>1. pc[r] # "open" /\ \E to : pc' = [pc EXCEPT ![r] = to]
      BY <1>7 DEF Commit
    <2>2. \A t \in Requests \ {r} : pc'[t] = pc[t]
      BY <2>1 DEF IInv, Shapes
    <2> QED
      BY <2>1, <2>2, <1>2, <1>7, CommitKeeps
  <1>8. ASSUME NEW r \in Requests,
               \/ Register(r) \/ Login(r) \/ Switch(r)
               \/ Invite(r) \/ Update(r) \/ Create(r) \/ List(r)
        PROVE  IInv' /\ Answered
    <2>1. IInv' /\ answer'[r] = Due(r)
      BY <1>8, RegisterServes, LoginServes, SwitchServes, InviteServes, UpdateServes,
         CreateServes, ListServes
    <2>2. \E to : pc' = [pc EXCEPT ![r] = to]
      <3>1. \/ \E how : Refuse(r, how)
            \/ \E p, s : Flush(r, p, s)
        <4>1. CASE Register(r)
          BY <4>1 DEF Register
        <4>2. CASE Login(r)
          BY <4>2 DEF Login, Under
        <4>3. CASE Switch(r)
          BY <4>3 DEF Switch, Under
        <4>4. CASE Invite(r)
          BY <4>4 DEF Invite, Under
        <4>5. CASE Update(r)
          BY <4>5 DEF Update, Under
        <4>6. CASE Create(r)
          BY <4>6 DEF Create
        <4>7. CASE List(r)
          BY <4>7 DEF List
        <4> QED
          BY <1>8, <4>1, <4>2, <4>3, <4>4, <4>5, <4>6, <4>7
      <3> QED
        BY <3>1 DEF Refuse, Flush
    <2>3. \A t \in Requests \ {r} : pc'[t] = pc[t]
      BY <2>2 DEF IInv, Shapes
    <2> QED
      BY <2>1, <2>3, <1>3
  <1>9. CASE Done
    <2>1. UNCHANGED vars
      BY <1>9 DEF Done
    <2> QED
      BY <2>1, <1>1
  <1> HIDE DEF Answered
  <1> QED
    BY <1>1, <1>4, <1>5, <1>6, <1>7, <1>8, <1>9 DEF Next

\* The invariant of the sessions and of what they have committed.
LEMMA Invariant == Spec => []IInv
PROOF
  <1>1. IInv /\ [Next]_vars => IInv'
    BY StepInvariant
  <1> QED
    BY <1>1, InitInvariant, PTL DEF Spec

\* The tables, the settings and the connections have their types; no two requests hold
\* one connection (the pool, get_db).
THEOREM TypeCorrect == Spec => []TypeOK
PROOF
  <1>1. IInv => TypeOK
    <2> SUFFICES ASSUME IInv PROVE TypeOK
      OBVIOUS
    <2>1. ASSUME NEW r \in Requests, NEW s \in Requests, conn[r] = conn[s], conn[r] # NULL
          PROVE  r = s
      BY <2>1 DEF IInv, InFlight, Connected
    <2> QED
      BY <2>1 DEF IInv, Tables, Shapes, TypeOK, Row, Token, Setting
  <1> QED
    BY <1>1, Invariant, PTL

\* No account without an organisation, no membership twice and no token without a
\* membership, for any number of registrations, invitations and changes at once
\* (register, invite_user, uq_user_org).
THEOREM MembershipsHold == Spec => []MembershipsAreWhole
PROOF
  <1>1. IInv => MembershipsAreWhole
    BY DEF IInv
  <1> QED
    BY <1>1, Invariant, PTL

\* A request that writes a row of its tenant is told so: its commit is accepted and the
\* row can be read after it, on whichever connection (_apply_tenant_context, db.refresh).
THEOREM CreatesSucceed == Spec => []CreatesAreReadBack
PROOF
  <1>1. IInv => CreatesAreReadBack
    BY DEF IInv, InFlight, CreatesAreReadBack
  <1> QED
    BY <1>1, Invariant, PTL

\* Whoever used its connection before, a request gets the answer that the tables and its
\* token call for (tenant_isolation, self_membership_select, the guard of migration 0022).
THEOREM TenantsAreIsolated == Spec => AnswersComeFromTheTables
PROOF
  <1> DEFINE Answered == \A r \in Requests : pc[r] = "open" /\ pc'[r] # "open" => answer'[r] = Due(r)
  <1>1. IInv /\ [Next]_vars => [Answered]_vars
    BY StepInvariant
  <1>2. Spec => [][Answered]_vars
    <2> HIDE DEF Answered
    <2> QED
      BY <1>1, Invariant, PTL DEF Spec
  <1> QED
    BY <1>2 DEF AnswersComeFromTheTables

===============================================================================
