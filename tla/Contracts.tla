------------------------------- MODULE Contracts -------------------------------
(***************************************************************************)
(* Contracts, their alerts and the extractions staged for them             *)
(* (services/contract_service.py, api/v1/contracts.py,                     *)
(* ai/contract_extraction_service.py, ai/extraction_guardrails.py).        *)
(*                                                                         *)
(* A request resolves its business date and loads what it works on when it *)
(* begins; it writes and commits later, when the date may have changed and *)
(* other requests may have committed.                                      *)
(***************************************************************************)
EXTENDS ContractCalculations, FiniteSets

CONSTANTS
  NULL,
  ContractIds,    \* rows of contracts
  Offered,        \* the [expiry, notice, autoRenew] that ContractCreate accepts
  Extractions,    \* documents whose terms may be extracted
  FieldsOf,       \* the fields that the model found in each
  TextFields,     \* the fields of the allowlist that hold text or a Numeric
  TypedFields,    \* its dates, integers and Booleans
  OtherFields,    \* names outside ALLOWED_PROMOTION_FIELDS
  Selections,     \* field_names_to_promote, as users choose them
  Requests,       \* concurrent requests
  ReviewTool,     \* TRUE: a person sets verification_status outside src/
  LastDay         \* bound: the last business date

ASSUME ContractsAssumption ==
  /\ Thresholds \subseteq Nat \ {NoticeAlert} /\ SoonDays \in Nat
  /\ Offered \subseteq [expiry : Nat, notice : Nat, autoRenew : BOOLEAN]
  /\ FieldsOf \in [Extractions -> SUBSET (TextFields \cup TypedFields)]
  /\ TextFields \cap TypedFields = {} /\ OtherFields \cap (TextFields \cup TypedFields) = {}
  /\ Selections \subseteq SUBSET (TextFields \cup TypedFields \cup OtherFields)
  /\ {} \notin Selections
  /\ ReviewTool \in BOOLEAN /\ LastDay \in Nat
  /\ IsFiniteSet(Requests)

VARIABLES
  today,          \* the business date of the organisation
  contracts,      \* the committed row of each contract, or NULL
  alerts,         \* the committed rows of contract_alerts
  extractions,    \* [contract, status] of each staged extraction, or NULL
  request,        \* what each request asked for and loaded
  pc              \* idle, loaded, or how it was answered

vars == <<today, contracts, alerts, extractions, request, pc>>

-----------------------------------------------------------------------------
(* Rows                                                                     *)

Statuses == {"active", "expiring_soon", "notice_period_open", "auto_renewing", "expired"}

\* contracts.promoted names the extraction that each promoted field came from.
Rows ==
  [terms : Offered, status : Statuses, promoted : [TextFields -> Extractions \cup {NULL}]]

ExtractionStatuses == {"pending", "human_verified", "rejected"}

Staged == [contract : ContractIds \cup {NULL}, status : ExtractionStatuses]

AlertTypes == Thresholds \cup {NoticeAlert}

ASSUME NullAssumption == NULL \notin ContractIds \cup Extractions \cup Rows \cup Staged

\* Mutant: the status is that of the server's clock, a day ahead of the organisation.
NewContract_ServerDay(terms, day) ==
  [terms |-> terms, status |-> StatusOn(day + 1, terms),
   promoted |-> [f \in TextFields |-> NULL]]

\* create_contract and refresh_status: the row of a new contract.
NewContract(terms, day) ==
  [terms |-> terms, status |-> StatusOn(day, terms),
   promoted |-> [f \in TextFields |-> NULL]]

\* The rows that the check of request r adds.
Alerts(r, c, day, types) == [check : {r}, contract : {c}, type : types, day : {day}]

\* The alert types that a session sees for a contract.
Fired(c) == {a.type : a \in {b \in alerts : b.contract = c}}

\* Mutant: what the extraction is worth is not asked.
EnsureVerified_Always(x) == TRUE

\* ensure_verified
EnsureVerified(x) == x.status = "human_verified"

\* select_promotable_fields, after its check for unknown names.
Promotable(x, names) == names \cap FieldsOf[x]

\* list_contracts: the stored status is what the filter asks.
ListBy(status) ==
  {c \in ContractIds : contracts[c] # NULL /\ contracts[c].status = status}

-----------------------------------------------------------------------------
(* Requests                                                                 *)

CreateRequests ==
  [kind : {"create"}, contract : ContractIds, day : 0 .. LastDay, terms : Offered]
CheckRequests ==
  [kind : {"check"}, contract : ContractIds, day : 0 .. LastDay, terms : Offered,
   fired : SUBSET AlertTypes]
VerifyRequests ==
  [kind : {"verify"}, contract : ContractIds, day : 0 .. LastDay, extraction : Extractions,
   status : ExtractionStatuses, row : Rows, names : Selections]

Begin(r, asked) ==
  /\ pc[r] = "idle"
  /\ request' = [request EXCEPT ![r] = asked]
  /\ pc' = [pc EXCEPT ![r] = "loaded"]
  /\ UNCHANGED <<today, contracts, alerts, extractions>>

Answer(r, how) ==
  /\ pc' = [pc EXCEPT ![r] = how]
  /\ UNCHANGED <<today, request>>

Loaded(r, kind) == pc[r] = "loaded" /\ request[r].kind = kind

BeginCreate(r, c, terms) ==
  Begin(r, [kind |-> "create", contract |-> c, day |-> today, terms |-> terms])

\* The identity of the new row is the database's to choose: it is free.
Create(r) ==
  LET q == request[r]
  IN  /\ Loaded(r, "create")
      /\ contracts[q.contract] = NULL
      /\ contracts' = [contracts EXCEPT ![q.contract] = NewContract(q.terms, q.day)]
      /\ Answer(r, "answered")
      /\ UNCHANGED <<alerts, extractions>>

BeginCheck(r, c) ==
  /\ contracts[c] # NULL
  /\ Begin(r, [kind |-> "check", contract |-> c, day |-> today,
               terms |-> contracts[c].terms, fired |-> Fired(c)])

\* The alerts that run_alert_check adds, from what it read.
Batch(q) == DueAlerts(q.day, q.terms, q.fired)

\* Mutant: contract_alerts without uq_contract_alert_type.
Insertable_Anything(c, types) == TRUE

\* uq_contract_alert_type of migration 0003
Insertable(c, types) == types \cap Fired(c) = {}

\* run_alert_check commits its batch as a whole.
Check(r) ==
  LET q == request[r]
  IN  /\ Loaded(r, "check")
      /\ Insertable(q.contract, Batch(q))
      /\ alerts' = alerts \cup Alerts(r, q.contract, q.day, Batch(q))
      /\ Answer(r, "answered")
      /\ UNCHANGED <<contracts, extractions>>

\* Another check fired one of its alerts: the flush raises, nothing is kept.
CheckFails(r) ==
  LET q == request[r]
  IN  /\ Loaded(r, "check")
      /\ ~Insertable(q.contract, Batch(q))
      /\ Answer(r, "failed")
      /\ UNCHANGED <<contracts, alerts, extractions>>

\* stage_extraction, and the commit of whoever calls it.
Stage(x, c) ==
  /\ extractions[x] = NULL
  /\ c # NULL => contracts[c] # NULL
  /\ extractions' = [extractions EXCEPT ![x] = [contract |-> c, status |-> "pending"]]
  /\ UNCHANGED <<today, contracts, alerts, request, pc>>

\* External: the "explicit human action" of ADR-004.  Nothing under src/ performs
\* it; verify_contract_extraction only writes the status after it has tested it.
Review(x, status) ==
  /\ ReviewTool
  /\ extractions[x] # NULL /\ extractions[x].status = "pending"
  /\ extractions' = [extractions EXCEPT ![x].status = status]
  /\ UNCHANGED <<today, contracts, alerts, request, pc>>

\* verify_contract_extraction loads the contract and the extraction; it does not
\* ask whether they belong together.
BeginVerify(r, c, x, names) ==
  /\ contracts[c] # NULL /\ extractions[x] # NULL
  /\ Begin(r, [kind |-> "verify", contract |-> c, day |-> today, extraction |-> x,
               status |-> extractions[x].status, row |-> contracts[c], names |-> names])

\* promote_extraction_fields.  Only a column that changes is written.
Verify(r) ==
  LET q   == request[r]
      put == Promotable(q.extraction, q.names)
      new == StatusOn(q.day, q.row.terms)
  IN  /\ Loaded(r, "verify")
      /\ EnsureVerified(q)
      /\ q.names \cap OtherFields = {}
      /\ put \subseteq TextFields
      /\ contracts' = [contracts EXCEPT
           ![q.contract].promoted =
              [f \in TextFields |-> IF f \in put THEN q.extraction ELSE @[f]],
           ![q.contract].status = IF new = q.row.status THEN @ ELSE new]
      /\ Answer(r, "answered")
      /\ UNCHANGED <<alerts, extractions>>

VerifyDenied(r) ==
  /\ Loaded(r, "verify")
  /\ ~EnsureVerified(request[r])
  /\ Answer(r, "denied")
  /\ UNCHANGED <<contracts, alerts, extractions>>

\* An unknown name is rejected.  An extracted value is a string, which
\* refresh_status cannot subtract from and the driver cannot bind to a date, an
\* integer or a Boolean.
VerifyFails(r) ==
  LET q == request[r]
  IN  /\ Loaded(r, "verify")
      /\ EnsureVerified(q)
      /\ \/ q.names \cap OtherFields # {}
         \/ ~(Promotable(q.extraction, q.names) \subseteq TextFields)
      /\ Answer(r, "failed")
      /\ UNCHANGED <<contracts, alerts, extractions>>

Midnight ==
  /\ today < LastDay
  /\ today' = today + 1
  /\ UNCHANGED <<contracts, alerts, extractions, request, pc>>

-----------------------------------------------------------------------------
Init ==
  /\ today = 0
  /\ contracts = [c \in ContractIds |-> NULL]
  /\ alerts = {}
  /\ extractions = [x \in Extractions |-> NULL]
  /\ request = [r \in Requests |-> NULL]
  /\ pc = [r \in Requests |-> "idle"]

Next ==
  \/ \E r \in Requests :
       \/ \E c \in ContractIds, terms \in Offered : BeginCreate(r, c, terms)
       \/ \E c \in ContractIds : BeginCheck(r, c)
       \/ \E c \in ContractIds, x \in Extractions, names \in Selections : BeginVerify(r, c, x, names)
       \/ Create(r) \/ Check(r) \/ CheckFails(r)
       \/ Verify(r) \/ VerifyDenied(r) \/ VerifyFails(r)
  \/ \E x \in Extractions, c \in ContractIds \cup {NULL} : Stage(x, c)
  \/ \E x \in Extractions, status \in {"human_verified", "rejected"} : Review(x, status)
  \/ Midnight

Spec == Init /\ [][Next]_vars

-----------------------------------------------------------------------------
(* Properties                                                               *)

TypeOK ==
  /\ today \in 0 .. LastDay
  /\ contracts \in [ContractIds -> Rows \cup {NULL}]
  /\ alerts \subseteq [check : Requests, contract : ContractIds, type : AlertTypes,
                       day : 0 .. LastDay]
  /\ extractions \in [Extractions -> Staged \cup {NULL}]
  /\ request \in [Requests -> CreateRequests \cup CheckRequests \cup VerifyRequests \cup {NULL}]
  /\ pc \in [Requests -> {"idle", "loaded", "answered", "failed", "denied"}]

\* What a check reports as done is on record, by itself or by the check that it
\* raced with: after an answered check no threshold that was crossed on its
\* business date is without an alert, nor is a notice deadline of that very date
\* (run_alert_check, determine_due_alerts).
AnsweredCheckIsComplete ==
  \A r \in Requests : pc[r] = "answered" /\ request[r].kind = "check" =>
    LET q == request[r]
    IN  /\ \A n \in Thresholds : q.terms.expiry - q.day <= n => n \in Fired(q.contract)
        /\ q.day = q.terms.expiry - q.terms.notice => NoticeAlert \in Fired(q.contract)

\* An alert is given once for a contract, however many checks run at once and
\* whatever day each of them believes it is (run_alert_check and
\* uq_contract_alert_type).
AlertsAreGivenOnce ==
  \A a, b \in alerts : a.contract = b.contract /\ a.type = b.type => a = b

Progress(status) ==
  CASE status = "active" -> 0
    [] status = "expiring_soon" -> 1
    [] status \in {"notice_period_open", "auto_renewing"} -> 2
    [] status = "expired" -> 3

\* The stored status, which list_contracts and the canvas filter on, may be behind
\* the calendar but is never ahead of it: a contract listed as expired has expired
\* (refresh_status on the business date of the organisation).
StoredStatusIsNeverAhead ==
  \A status \in Statuses : \A c \in ListBy(status) :
    Progress(status) <= Progress(StatusOn(today, contracts[c].terms))

\* The gate of ADR-004 over every interleaving of staging, reviewing and verifying:
\* a term of a contract never comes from an extraction that nobody has verified.
OnlyVerifiedTermsArePromoted ==
  \A c \in ContractIds, f \in TextFields :
    contracts[c] # NULL /\ contracts[c].promoted[f] # NULL =>
      extractions[contracts[c].promoted[f]].status = "human_verified"

=============================================================================
