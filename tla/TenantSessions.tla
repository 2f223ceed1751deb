----------------------------- MODULE TenantSessions -----------------------------
(***************************************************************************)
(* Sessions of the database and the tenant that each of them acts for       *)
(* (db/session, services/auth_service, api/v1/auth, api/v1/users).          *)
(*                                                                         *)
(* Requests borrow connections from one pool.  The organisation and the     *)
(* user of a transaction are settings of its connection (set_config with    *)
(* is_local), which the policies of row level security read; when the       *)
(* transaction ends, a setting that was set once is left as an empty        *)
(* string.  A session that commits and reads on does so in a second         *)
(* transaction, perhaps on another connection.                              *)
(***************************************************************************)
EXTENDS Integers, Sequences, FiniteSets

CONSTANTS
  NULL,
  Users, Organisations,
  FoundsOf,      \* the organisation that a user's registration would create
  Members,       \* the memberships at the beginning
  Inactive,      \* the users whose account is not active; no handler makes it so
  SelfRegistration,  \* allow_self_registration
  Connections,
  Requests

Roles == {"owner", "procurement_manager", "viewer"}
Statuses == {"invited", "active", "suspended", "removed"}

\* ROLE_PERMISSIONS, read the other way round.
Holders(permission) ==
  CASE permission = "manage_users" -> {"owner"}
    [] permission = "edit_suppliers" -> {"owner", "procurement_manager"}
    [] permission = "view_financials" -> Roles

\* The empty string that a setting is left with.
Residue == "residue"

ASSUME TenantAssumption ==
  /\ FoundsOf \in [Users -> Organisations]
  /\ \A u, v \in Users : FoundsOf[u] = FoundsOf[v] => u = v
  /\ Members \in Seq([user : Users, org : Organisations, role : Roles, status : Statuses])
  \* uq_user_org
  /\ \A i, j \in DOMAIN Members :
       Members[i].user = Members[j].user /\ Members[i].org = Members[j].org => i = j
  /\ NULL \notin Users \cup Organisations /\ Residue \notin Users \cup Organisations
  /\ NULL # Residue
  /\ SelfRegistration \in BOOLEAN

VARIABLES
  accounts,    \* users: the e-mail addresses that have an account
  members,     \* organisation_memberships, in the order of their creation
  suppliers,   \* a table with a tenant: who wrote each row, and for which organisation
  tokens,      \* the access tokens that have been issued, with the claims they carry
  settings,    \* of each connection: app.current_org_id and app.current_user_id
  request,     \* what each request asks, by which token
  conn,        \* the connection that a request holds
  plan,        \* what its transaction has flushed and not committed
  pc, answer

vars == <<accounts, members, suppliers, tokens, settings, request, conn, plan, pc, answer>>
data == <<accounts, members, suppliers, tokens>>

Membership(u, o, role, status) == [user |-> u, org |-> o, role |-> role, status |-> status]
Claims(u, o, role) == [user |-> u, org |-> o, role |-> role]
Nothing == [accounts |-> {}, add |-> <<>>, change |-> {}, supplier |-> {}, token |-> {}]

-----------------------------------------------------------------------------
(* Connections and policies                                                 *)

\* A new connection.
Unset == [org |-> NULL, user |-> NULL]

\* Mutant: the policy casts the setting as it is, as before migration 0022.
Cast_Unguarded(value) == value

\* NULLIF(current_setting(...), '')::bigint
Cast(value) == IF value = Residue THEN NULL ELSE value

\* The end of a transaction, however it ends.
Ended(s) == [k \in DOMAIN s |-> IF s[k] = NULL THEN NULL ELSE Residue]

\* tenant_isolation
OfTenant(s, org) == org = Cast(s.org)

\* tenant_isolation or, for a SELECT, self_membership_select
Visible(s) ==
  {i \in DOMAIN members : OfTenant(s, members[i].org) \/ members[i].user = Cast(s.user)}

\* ''::bigint is an error of the statement.
CastFails(s) == Residue \in {Cast(s.org), Cast(s.user)}

Free == Connections \ {conn[r] : r \in Requests}

\* get_db keeps the organisation of the token in session.info.
Info(r) ==
  IF request[r].kind \in {"invite", "update", "create", "list"} THEN request[r].claims.org ELSE NULL

\* Mutant: the organisation is set once, when the session opens.
Begun_Once(r, c) ==
  IF Info(r) # NULL /\ pc[r] = "arrived"
    THEN [settings EXCEPT ![c].org = Info(r)] ELSE settings

\* _apply_tenant_context, at the start of every transaction.
Begun(r, c) == IF Info(r) # NULL THEN [settings EXCEPT ![c].org = Info(r)] ELSE settings

Release(r) ==
  /\ settings' = [settings EXCEPT ![conn[r]] = Ended(@)]
  /\ conn' = [conn EXCEPT ![r] = NULL]

\* The transaction is rolled back and the request answered.
Refuse(r, how) ==
  /\ Release(r)
  /\ pc' = [pc EXCEPT ![r] = "done"]
  /\ answer' = [answer EXCEPT ![r] = how]
  /\ plan' = [plan EXCEPT ![r] = Nothing]
  /\ UNCHANGED <<data, request>>

\* The statements of the transaction up to its commit, and the settings they leave.
Flush(r, p, s) ==
  /\ plan' = [plan EXCEPT ![r] = p]
  /\ settings' = [settings EXCEPT ![conn[r]] = s]
  /\ pc' = [pc EXCEPT ![r] = "flushed"]
  /\ UNCHANGED <<data, request, conn, answer>>

\* A statement under the settings s.
Under(r, s, Statement) == IF CastFails(s) THEN Refuse(r, "failed") ELSE Statement

Current(r) == settings[conn[r]]
AsUser(r, u) == [Current(r) EXCEPT !.user = u]
AsMember(u, o) == [org |-> o, user |-> u]

-----------------------------------------------------------------------------
(* Requests                                                                 *)

\* require_permission, on the role in the token.
Permitted(q) ==
  CASE q.kind \in {"invite", "update"} -> q.claims.role \in Holders("manage_users")
    [] q.kind = "create" -> q.claims.role \in Holders("edit_suppliers")
    [] q.kind = "list" -> q.claims.role \in Holders("view_financials")
    [] OTHER -> TRUE

\* user: whose account it is about; org: the organisation to switch to.
Inputs ==
  [kind : {"register", "login"}, claims : {NULL}, user : Users, org : {NULL}, to : {NULL}]
    \cup [kind : {"switch"}, claims : tokens, user : {NULL}, org : Organisations, to : {NULL}]
    \cup [kind : {"invite"}, claims : tokens, user : Users, org : {NULL},
          to : [role : {"viewer", "owner"}]]
    \cup [kind : {"update"}, claims : tokens, user : Users, org : {NULL},
          to : [status : {"active", "suspended"}] \cup [role : {"viewer"}]
                 \cup [role : {"viewer"}, status : {"suspended"}]]
    \cup [kind : {"create", "list"}, claims : tokens, user : {NULL}, org : {NULL}, to : {NULL}]

Arrive(r, q) ==
  /\ pc[r] = "idle"
  /\ Permitted(q)
  /\ request' = [request EXCEPT ![r] = q]
  /\ pc' = [pc EXCEPT ![r] = "arrived"]
  /\ UNCHANGED <<data, settings, conn, plan, answer>>

\* session.connection(), which begins the first transaction.
Open(r) ==
  /\ pc[r] = "arrived"
  /\ \E c \in Free :
       /\ conn' = [conn EXCEPT ![r] = c]
       /\ settings' = Begun(r, c)
  /\ pc' = [pc EXCEPT ![r] = "open"]
  /\ UNCHANGED <<data, request, plan, answer>>

Serving(r, kind) == pc[r] = "open" /\ request[r].kind = kind

\* register: the settings are the ids of rows that this transaction has written.
Register(r) ==
  LET u == request[r].user
      o == FoundsOf[u]
  IN  /\ Serving(r, "register")
      /\ IF ~SelfRegistration THEN Refuse(r, "disabled")
         ELSE IF u \in accounts THEN Refuse(r, "conflict")
         ELSE Flush(r, [Nothing EXCEPT !.accounts = {u},
                            !.add = <<Membership(u, o, "owner", "active")>>,
                            !.token = {Claims(u, o, "owner")}],
                      AsMember(u, o))

Active(u, s) == {i \in Visible(s) : members[i].user = u /\ members[i].status = "active"}

\* login with the right password: the first of the active memberships.
Login(r) ==
  LET u == request[r].user
      s == AsUser(r, u)
  IN  /\ Serving(r, "login")
      /\ IF u \notin accounts \/ u \in Inactive THEN Refuse(r, "denied")
         ELSE Under(r, s,
                IF Active(u, s) = {} THEN Refuse(r, "denied")
                ELSE LET m == members[CHOOSE i \in Active(u, s) : \A j \in Active(u, s) : i <= j]
                     IN  Flush(r, [Nothing EXCEPT !.token = {Claims(u, m.org, m.role)}], s))

\* switch_organisation
Switch(r) ==
  LET u == request[r].claims.user
      o == request[r].org
      s == AsUser(r, u)
      mine == {i \in Active(u, s) : members[i].org = o}
  IN  /\ Serving(r, "switch")
      /\ Under(r, s,
           IF mine = {} THEN Refuse(r, "denied")
           ELSE \E i \in mine :
                  Flush(r, [Nothing EXCEPT !.token = {Claims(u, o, members[i].role)}],
                        AsMember(u, o)))

Asked(r) ==
  {i \in Visible(Current(r)) :
     members[i].user = request[r].user /\ members[i].org = request[r].claims.org}

\* invite_user
Invite(r) ==
  LET u == request[r].user
  IN  /\ Serving(r, "invite")
      /\ Under(r, Current(r),
           IF Asked(r) # {} THEN Refuse(r, "conflict")
           ELSE Flush(r, [Nothing EXCEPT !.accounts = {u} \ accounts,
                            !.add = <<Membership(u, request[r].claims.org,
                                                 request[r].to.role, "invited")>>],
                      Current(r)))

\* update_membership: of the fields that were sent, those that differ from the row as it
\* was loaded.
Update(r) ==
  LET to == request[r].to
  IN  /\ Serving(r, "update")
      /\ Under(r, Current(r),
           IF Asked(r) = {} THEN Refuse(r, "not_found")
           ELSE Flush(r, [Nothing EXCEPT !.change =
                            {w \in Asked(r) \X DOMAIN to : to[w[2]] # members[w[1]][w[2]]}],
                      Current(r)))

\* create of supplier_service, as every service that commits and refreshes.
Create(r) ==
  /\ Serving(r, "create")
  /\ Flush(r, [Nothing EXCEPT !.supplier = {[by |-> r, org |-> request[r].claims.org]}],
           Current(r))

\* list_suppliers names no organisation: the policy is its only condition.
List(r) ==
  /\ Serving(r, "list")
  /\ Refuse(r, {s \in suppliers : OfTenant(Current(r), s.org)})

\* Mutant: no constraint on the pair of user and organisation.
Accepted_AnyPair(r) ==
  LET p == plan[r]
  IN  /\ p.accounts \cap accounts = {}
      /\ \A k \in DOMAIN p.add : OfTenant(Current(r), p.add[k].org)
      /\ \A x \in p.supplier : OfTenant(Current(r), x.org)

\* The unique e-mail address, uq_user_org, and the policy for what is inserted.
Accepted(r) ==
  LET p == plan[r]
  IN  /\ p.accounts \cap accounts = {}
      /\ \A k \in DOMAIN p.add :
           /\ OfTenant(Current(r), p.add[k].org)
           /\ \A i \in DOMAIN members :
                members[i].user # p.add[k].user \/ members[i].org # p.add[k].org
      /\ \A x \in p.supplier : OfTenant(Current(r), x.org)

\* The row i that COMMIT leaves: only the columns of change are written.
Assigned(i, change, to) ==
  [f \in DOMAIN members[i] |-> IF <<i, f>> \in change THEN to[f] ELSE members[i][f]]

Commit(r) ==
  LET p == plan[r]
  IN  /\ pc[r] = "flushed"
      /\ Accepted(r)
      /\ accounts' = accounts \cup p.accounts
      /\ members' = [i \in DOMAIN members |-> Assigned(i, p.change, request[r].to)] \o p.add
      /\ suppliers' = suppliers \cup p.supplier
      /\ tokens' = tokens \cup p.token
      /\ Release(r)
      /\ IF p.supplier # {}
           THEN pc' = [pc EXCEPT ![r] = "committed"] /\ UNCHANGED answer
           ELSE pc' = [pc EXCEPT ![r] = "done"] /\ answer' = [answer EXCEPT ![r] = "ok"]
      /\ UNCHANGED <<request, plan>>

CommitFails(r) ==
  /\ pc[r] = "flushed"
  /\ ~Accepted(r)
  /\ Refuse(r, "failed")

\* The transaction after the commit begins on the first statement.
Reopen(r) ==
  /\ pc[r] = "committed"
  /\ \E c \in Free :
       /\ conn' = [conn EXCEPT ![r] = c]
       /\ settings' = Begun(r, c)
  /\ pc' = [pc EXCEPT ![r] = "refreshing"]
  /\ UNCHANGED <<data, request, plan, answer>>

\* db.refresh: InvalidRequestError if the row is not visible.
Refresh(r) ==
  /\ pc[r] = "refreshing"
  /\ Refuse(r, IF \A x \in plan[r].supplier : OfTenant(Current(r), x.org) THEN "ok" ELSE "failed")

-----------------------------------------------------------------------------
Init ==
  /\ accounts = {Members[i].user : i \in DOMAIN Members}
  /\ members = Members
  /\ suppliers = {}
  /\ tokens = {Claims(Members[i].user, Members[i].org, Members[i].role) : i \in DOMAIN Members}
  /\ settings = [c \in Connections |-> Unset]
  /\ request = [r \in Requests |-> NULL]
  /\ conn = [r \in Requests |-> NULL]
  /\ plan = [r \in Requests |-> Nothing]
  /\ pc = [r \in Requests |-> "idle"]
  /\ answer = [r \in Requests |-> NULL]

Done == (\A r \in Requests : pc[r] = "done") /\ UNCHANGED vars

Next ==
  \/ \E r \in Requests :
       \/ \E q \in Inputs : Arrive(r, q)
       \/ Open(r) \/ Reopen(r) \/ Refresh(r)
       \/ Register(r) \/ Login(r) \/ Switch(r)
       \/ Invite(r) \/ Update(r) \/ Create(r) \/ List(r)
       \/ Commit(r) \/ CommitFails(r)
  \/ Done

Spec == Init /\ [][Next]_vars

-----------------------------------------------------------------------------
(* Properties                                                               *)

TypeOK ==
  /\ accounts \subseteq Users
  /\ members \in Seq([user : Users, org : Organisations, role : Roles, status : Statuses])
  /\ tokens \subseteq [user : Users, org : Organisations, role : Roles]
  /\ suppliers \subseteq [by : Requests, org : Organisations]
  /\ \A c \in Connections : settings[c].org \in Organisations \cup {NULL, Residue}
                             /\ settings[c].user \in Users \cup {NULL, Residue}
  /\ \A r, s \in Requests : conn[r] = conn[s] /\ conn[r] # NULL => r = s

\* The answer that the tables alone call for, whatever connection was borrowed; a
\* request that is still at work has none.
Due(r) ==
  LET q == request[r]
      Has(u, o, Status) ==
        \E i \in DOMAIN members :
          members[i].user = u /\ members[i].org \in o /\ members[i].status \in Status
  IN  CASE q.kind = "register" ->
             IF ~SelfRegistration THEN "disabled"
             ELSE IF q.user \in accounts THEN "conflict" ELSE NULL
        [] q.kind = "login" ->
             IF Has(q.user, Organisations, {"active"}) /\ q.user \notin Inactive
               THEN NULL ELSE "denied"
        [] q.kind = "switch" -> IF Has(q.claims.user, {q.org}, {"active"}) THEN NULL ELSE "denied"
        [] q.kind = "invite" ->
             IF Has(q.user, {q.claims.org}, Statuses) THEN "conflict" ELSE NULL
        [] q.kind = "update" ->
             IF Has(q.user, {q.claims.org}, Statuses) THEN NULL ELSE "not_found"
        [] q.kind = "create" -> NULL
        [] q.kind = "list" -> {x \in suppliers : x.org = q.claims.org}

\* What a request sees is settled by the tables and its token, never by the requests
\* that used its connection before: no row of another tenant, no missing row, and no
\* failed statement (get_db, get_db_unauthenticated, the policies of 0022 and 0023).
AnswersComeFromTheTables ==
  [][\A r \in Requests : pc[r] = "open" /\ pc'[r] # "open" => answer'[r] = Due(r)]_vars

\* A request that writes rows of its own tenant succeeds, including the read of those
\* rows in the transaction after its commit (_apply_tenant_context, "on EVERY
\* transaction").
CreatesAreReadBack ==
  \A r \in Requests : pc[r] = "done" /\ request[r].kind = "create" => answer[r] = "ok"

\* Racing registrations and invitations leave no account without an organisation, no
\* two memberships of one user in one organisation, and no token without a membership
\* (register, invite_user).
MembershipsAreWhole ==
  /\ \A u \in accounts : \E i \in DOMAIN members : members[i].user = u
  /\ \A i, j \in DOMAIN members :
       members[i].user = members[j].user /\ members[i].org = members[j].org => i = j
  /\ \A t \in tokens : \E i \in DOMAIN members : members[i].user = t.user /\ members[i].org = t.org

=============================================================================
