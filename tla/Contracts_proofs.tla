--------------------------- MODULE Contracts_proofs ---------------------------
(***************************************************************************)
(* Proofs about Contracts, for any number of contracts, extractions and    *)
(* requests, any alert thresholds and any last day.                        *)
(*                                                                         *)
(* A request works on what it loaded.  That is sound because of what other *)
(* requests never do: they do not change the dates of a contract, take an  *)
(* alert back, turn the clock back or withdraw a verification.  InFlight    *)
(* says so of every copy, whether its request is still at work or answered. *)
(***************************************************************************)
EXTENDS Contracts, TLAPS

Verified(x) == extractions[x] \in Staged /\ extractions[x].status = "human_verified"

\* What the copy of a request still says of the tables.
CopyHolds(q) ==
  /\ q \in CreateRequests \cup CheckRequests \cup VerifyRequests
  /\ q.day <= today
  /\ q.kind # "create" => contracts[q.contract] \in Rows
  /\ q.kind = "check" => /\ q.terms = contracts[q.contract].terms
                         /\ q.fired \subseteq Fired(q.contract)
  /\ q.kind = "verify" => /\ q.row.terms = contracts[q.contract].terms
                          /\ q.status = "human_verified" => Verified(q.extraction)

InFlight == \A r \in Requests : pc[r] # "idle" => CopyHolds(request[r])

\* The status of a contract is that of some day that has come.
StatusOfADay ==
  \A c \in ContractIds : contracts[c] \in Rows =>
    \E day \in 0 .. today : contracts[c].status = StatusOn(day, contracts[c].terms)

PromotedAreVerified ==
  \A c \in ContractIds, f \in TextFields :
    contracts[c] \in Rows /\ contracts[c].promoted[f] # NULL => Verified(contracts[c].promoted[f])

IInv ==
  /\ TypeOK
  /\ InFlight
  /\ StatusOfADay
  /\ PromotedAreVerified
  /\ AlertsAreGivenOnce
  /\ AnsweredCheckIsComplete

-----------------------------------------------------------------------------
(* Dates                                                                    *)

\* classify_contract_status, arm by arm.
LEMMA StatusOnIs ==
  ASSUME NEW day \in Int, NEW terms \in Offered
  PROVE  /\ terms.expiry \in Int /\ terms.notice \in Nat /\ terms.autoRenew \in BOOLEAN
         /\ day > terms.expiry => StatusOn(day, terms) = "expired"
         /\ day <= terms.expiry /\ day > terms.expiry - terms.notice =>
              StatusOn(day, terms) = IF terms.autoRenew THEN "auto_renewing" ELSE "notice_period_open"
         /\ day <= terms.expiry - terms.notice /\ terms.expiry - day <= SoonDays =>
              StatusOn(day, terms) = "expiring_soon"
         /\ day <= terms.expiry - terms.notice /\ terms.expiry - day > SoonDays =>
              StatusOn(day, terms) = "active"
PROOF
  <1>1. terms.expiry \in Int /\ terms.notice \in Nat /\ terms.autoRenew \in BOOLEAN
    BY ContractsAssumption
  <1>2. SoonDays \in Nat
    BY ContractsAssumption
  <1>3. CASE day > terms.expiry
    BY <1>1, <1>2, <1>3 DEF StatusOn, NoticeDeadline
  <1>4. CASE day <= terms.expiry /\ day > terms.expiry - terms.notice
    BY <1>1, <1>2, <1>4 DEF StatusOn, NoticeDeadline
  <1>5. CASE day <= terms.expiry - terms.notice
    BY <1>1, <1>2, <1>5 DEF StatusOn, NoticeDeadline
  <1> QED
    BY <1>1, <1>2, <1>3, <1>4, <1>5

\* classify_contract_status gives one of the five statuses.
LEMMA StatusOnType ==
  ASSUME NEW day \in Int, NEW terms \in Offered
  PROVE  StatusOn(day, terms) \in Statuses
PROOF
  BY StatusOnIs, ContractsAssumption DEF Statuses

\* How far a status is on the way to the end of the contract.
LEMMA ProgressIs ==
  /\ Progress("active") = 0
  /\ Progress("expiring_soon") = 1
  /\ Progress("notice_period_open") = 2
  /\ Progress("auto_renewing") = 2
  /\ Progress("expired") = 3
PROOF
  BY DEF Progress

\* A contract never goes back: its status on a later day is as far or further.
LEMMA ProgressIsMonotone ==
  ASSUME NEW terms \in Offered, NEW d \in Int, NEW e \in Int, d <= e
  PROVE  Progress(StatusOn(d, terms)) <= Progress(StatusOn(e, terms))
PROOF
  BY StatusOnIs, ProgressIs, ContractsAssumption

-----------------------------------------------------------------------------
(* Who writes what                                                          *)

Asked == CreateRequests \cup CheckRequests \cup VerifyRequests

\* What no step ever undoes.
Grows ==
  /\ today' \in Int /\ today <= today'
  /\ \A c \in ContractIds : contracts[c] \in Rows =>
       contracts'[c] \in Rows /\ contracts'[c].terms = contracts[c].terms
  /\ alerts \subseteq alerts'
  /\ \A x \in Extractions : Verified(x) =>
       extractions'[x] \in Staged /\ extractions'[x].status = "human_verified"

\* A request that begins leaves the tables alone and copies what they say.
LEMMA BeginCopies ==
  ASSUME TypeOK, NEW r \in Requests,
         \/ \E c \in ContractIds, terms \in Offered : BeginCreate(r, c, terms)
         \/ \E c \in ContractIds : BeginCheck(r, c)
         \/ \E c \in ContractIds, x \in Extractions, names \in Selections : BeginVerify(r, c, x, names)
  PROVE  \E q \in Asked : CopyHolds(q) /\ Begin(r, q)
PROOF
  <1>1. today \in 0 .. LastDay /\ today <= today
    BY ContractsAssumption DEF TypeOK
  <1>2. ASSUME NEW c \in ContractIds, NEW terms \in Offered, BeginCreate(r, c, terms)
        PROVE  \E q \in Asked : CopyHolds(q) /\ Begin(r, q)
    <2> DEFINE q == [kind |-> "create", contract |-> c, day |-> today, terms |-> terms]
    <2>1. q \in CreateRequests
      BY <1>1 DEF CreateRequests
    <2>2. CopyHolds(q)
      BY <1>1, <2>1 DEF CopyHolds
    <2> QED
      BY <1>2, <2>1, <2>2 DEF BeginCreate, Asked
  <1>3. ASSUME NEW c \in ContractIds, BeginCheck(r, c)
        PROVE  \E q \in Asked : CopyHolds(q) /\ Begin(r, q)
    <2> DEFINE q == [kind |-> "check", contract |-> c, day |-> today,
                     terms |-> contracts[c].terms, fired |-> Fired(c)]
    <2>1. contracts[c] \in Rows /\ contracts[c].terms \in Offered
      BY <1>3 DEF BeginCheck, TypeOK, Rows
    <2>2. Fired(c) \subseteq AlertTypes
      BY DEF Fired, TypeOK
    <2>3. q \in CheckRequests
      BY <1>1, <2>1, <2>2 DEF CheckRequests
    <2>4. CopyHolds(q)
      BY <1>1, <2>1, <2>3 DEF CopyHolds
    <2> QED
      BY <1>3, <2>3, <2>4 DEF BeginCheck, Asked
  <1>4. ASSUME NEW c \in ContractIds, NEW x \in Extractions, NEW names \in Selections,
               BeginVerify(r, c, x, names)
        PROVE  \E q \in Asked : CopyHolds(q) /\ Begin(r, q)
    <2> DEFINE q == [kind |-> "verify", contract |-> c, day |-> today, extraction |-> x,
                     status |-> extractions[x].status, row |-> contracts[c], names |-> names]
    <2>1. contracts[c] \in Rows /\ extractions[x] \in Staged
      BY <1>4 DEF BeginVerify, TypeOK
    <2>2. extractions[x].status \in ExtractionStatuses
      BY <2>1 DEF Staged
    <2>3. q \in VerifyRequests
      BY <1>1, <2>1, <2>2 DEF VerifyRequests
    <2>4. CopyHolds(q)
      BY <1>1, <2>1, <2>3 DEF CopyHolds, Verified
    <2> QED
      BY <1>4, <2>3, <2>4 DEF BeginVerify, Asked
  <1> QED
    BY <1>2, <1>3, <1>4

\* Each table has one or two writers, and a request only begins or is answered.
LEMMA Writers ==
  ASSUME TypeOK, [Next]_vars
  PROVE  /\ contracts' = contracts \/ \E r \in Requests : Create(r) \/ Verify(r)
         /\ alerts' = alerts \/ \E r \in Requests : Check(r)
         /\ \/ extractions' = extractions
            \/ \E x \in Extractions, c \in ContractIds \cup {NULL} : Stage(x, c)
            \/ \E x \in Extractions, status \in {"human_verified", "rejected"} : Review(x, status)
         /\ today' = today \/ Midnight
         /\ \/ request' = request /\ pc' = pc
            \/ \E r \in Requests, q \in Asked : CopyHolds(q) /\ Begin(r, q)
            \/ \E r \in Requests, how \in {"answered", "failed", "denied"} :
                 /\ pc[r] = "loaded" /\ Answer(r, how)
                 /\ how = "answered" /\ request[r].kind = "check" => Check(r)
PROOF
  <1>1. CASE UNCHANGED vars
    BY <1>1 DEF vars
  <1>2. ASSUME NEW r \in Requests,
               \/ \E c \in ContractIds, terms \in Offered : BeginCreate(r, c, terms)
               \/ \E c \in ContractIds : BeginCheck(r, c)
               \/ \E c \in ContractIds, x \in Extractions, names \in Selections :
                    BeginVerify(r, c, x, names)
        PROVE  /\ UNCHANGED <<today, contracts, alerts, extractions>>
               /\ \E q \in Asked : CopyHolds(q) /\ Begin(r, q)
    <2>1. PICK q \in Asked : CopyHolds(q) /\ Begin(r, q)
      BY <1>2, BeginCopies
    <2> QED
      BY <2>1 DEF Begin
  <1>3. ASSUME NEW r \in Requests, Create(r) \/ Verify(r)
        PROVE  /\ UNCHANGED <<today, alerts, extractions>>
               /\ pc[r] = "loaded" /\ Answer(r, "answered") /\ request[r].kind # "check"
    BY <1>3 DEF Create, Verify, Answer, Loaded
  <1>4. ASSUME NEW r \in Requests, Check(r)
        PROVE  /\ UNCHANGED <<today, contracts, extractions>>
               /\ pc[r] = "loaded" /\ Answer(r, "answered")
    BY <1>4 DEF Check, Answer, Loaded
  <1>5. ASSUME NEW r \in Requests, CheckFails(r) \/ VerifyDenied(r) \/ VerifyFails(r)
        PROVE  /\ UNCHANGED <<today, contracts, alerts, extractions>>
               /\ pc[r] = "loaded" /\ \E how \in {"failed", "denied"} : Answer(r, how)
    BY <1>5 DEF CheckFails, VerifyDenied, VerifyFails, Answer, Loaded
  <1>6. ASSUME \/ \E x \in Extractions, c \in ContractIds \cup {NULL} : Stage(x, c)
               \/ \E x \in Extractions, status \in {"human_verified", "rejected"} : Review(x, status)
        PROVE  UNCHANGED <<today, contracts, alerts, request, pc>>
    BY <1>6 DEF Stage, Review
  <1>7. CASE Midnight
    BY <1>7 DEF Midnight
  <1> QED
    BY <1>1, <1>2, <1>3, <1>4, <1>5, <1>6, <1>7 DEF Next

-----------------------------------------------------------------------------
(* Types, and what only grows                                               *)

\* The types hold initially.
LEMMA InitType == Init => TypeOK
PROOF
  BY ContractsAssumption DEF Init, TypeOK

\* A row that is created or verified is a row, and keeps its dates.
LEMMA ContractStep ==
  ASSUME TypeOK, InFlight, NEW r \in Requests, Create(r) \/ Verify(r)
  PROVE  /\ contracts' \in [ContractIds -> Rows \cup {NULL}]
         /\ \A c \in ContractIds : contracts[c] \in Rows =>
              contracts'[c] \in Rows /\ contracts'[c].terms = contracts[c].terms
PROOF
  <1> DEFINE q == request[r]
  <1>1. contracts \in [ContractIds -> Rows \cup {NULL}] /\ NULL \notin Rows
    BY NullAssumption DEF TypeOK
  <1>2. CopyHolds(q)
    BY DEF InFlight, Create, Verify, Loaded
  <1>3. q.contract \in ContractIds /\ q.day \in Int
    BY <1>2, ContractsAssumption DEF CopyHolds, CreateRequests, CheckRequests, VerifyRequests
  <1>4. CASE Create(r)
    <2>1. q \in CreateRequests
      BY <1>2, <1>4 DEF CopyHolds, Create, Loaded, CheckRequests, VerifyRequests
    <2>2. q.terms \in Offered
      BY <2>1 DEF CreateRequests
    <2>3. StatusOn(q.day, q.terms) \in Statuses
      BY <1>3, <2>2, StatusOnType
    <2>4. NewContract(q.terms, q.day) \in Rows
      BY <2>2, <2>3, Zenon DEF NewContract, Rows
    <2> QED
      BY <1>1, <1>3, <1>4, <2>4 DEF Create
  <1>5. CASE Verify(r)
    <2>1. q \in VerifyRequests /\ contracts[q.contract] \in Rows
      BY <1>2, <1>5 DEF CopyHolds, Verify, Loaded, CheckRequests, CreateRequests
    <2>2. q.extraction \in Extractions /\ q.row.terms \in Offered
      BY <2>1 DEF VerifyRequests, Rows
    <2>3. StatusOn(q.day, q.row.terms) \in Statuses
      BY <1>3, <2>2, StatusOnType, Zenon
    <2> DEFINE old == contracts[q.contract]
               put == Promotable(q.extraction, q.names)
               new == StatusOn(q.day, q.row.terms)
               row == [[old EXCEPT !.promoted =
                          [f \in TextFields |-> IF f \in put THEN q.extraction ELSE @[f]]]
                         EXCEPT !.status = IF new = q.row.status THEN @ ELSE new]
    <2>4. row \in Rows /\ row.terms = old.terms
      BY <2>1, <2>2, <2>3, Zenon DEF Rows
    <2>5. contracts' = [contracts EXCEPT ![q.contract] = row]
      <3>1. PICK c, names : c \in ContractIds /\ c = q.contract /\ names = put
        BY <1>3
      <3>2. contracts' = [contracts EXCEPT
              ![c].promoted = [f \in TextFields |-> IF f \in names THEN q.extraction ELSE @[f]],
              ![c].status = IF new = q.row.status THEN @ ELSE new]
        BY <1>5, <3>1, Zenon DEF Verify
      <3>3. row = [old EXCEPT
              !.promoted = [f \in TextFields |-> IF f \in names THEN q.extraction ELSE @[f]],
              !.status = IF new = q.row.status THEN @ ELSE new]
        BY <3>1, Zenon
      <3>4. old = contracts[c]
        BY <3>1
      <3> HIDE DEF old, put, new, row
      <3> QED
        BY <1>1, <3>1, <3>2, <3>3, <3>4
    <2> QED
      BY <1>1, <1>3, <2>4, <2>5
  <1> QED
    BY <1>4, <1>5

\* The types are preserved.
LEMMA TypeStep ==
  ASSUME TypeOK, InFlight, [Next]_vars
  PROVE  TypeOK'
PROOF
  <1>1. today' \in 0 .. LastDay
    BY Writers, ContractsAssumption DEF TypeOK, Midnight
  <1>2. contracts' \in [ContractIds -> Rows \cup {NULL}]
    BY Writers, ContractStep DEF TypeOK
  <1>3. ASSUME NEW r \in Requests, Check(r)
        PROVE  alerts' \subseteq [check : Requests, contract : ContractIds, type : AlertTypes,
                                  day : 0 .. LastDay]
    <2> DEFINE q == request[r]
    <2>1. CopyHolds(q) /\ q.kind = "check"
      BY <1>3 DEF InFlight, Check, Loaded
    <2>2. q.contract \in ContractIds /\ q.day \in 0 .. LastDay
      BY <2>1 DEF CopyHolds, CreateRequests, CheckRequests, VerifyRequests
    <2>3. Batch(q) \subseteq AlertTypes
      BY DEF Batch, DueAlerts, AlertTypes
    <2>4. Alerts(r, q.contract, q.day, Batch(q)) \subseteq
            [check : Requests, contract : ContractIds, type : AlertTypes, day : 0 .. LastDay]
      BY <2>2, <2>3 DEF Alerts
    <2> QED
      BY <1>3, <2>4 DEF Check, TypeOK
  <1>4. extractions' \in [Extractions -> Staged \cup {NULL}]
    <2>1. ASSUME NEW x \in Extractions, NEW c \in ContractIds \cup {NULL}, Stage(x, c)
          PROVE  extractions' \in [Extractions -> Staged \cup {NULL}]
      <3>1. [contract |-> c, status |-> "pending"] \in Staged
        BY DEF Staged, ExtractionStatuses
      <3> QED
        BY <2>1, <3>1 DEF Stage, TypeOK
    <2>2. ASSUME NEW x \in Extractions, NEW status \in {"human_verified", "rejected"},
                 Review(x, status)
          PROVE  extractions' \in [Extractions -> Staged \cup {NULL}]
      <3>1. extractions[x] \in Staged
        BY <2>2 DEF Review, TypeOK
      <3>2. [extractions[x] EXCEPT !.status = status] \in Staged
        BY <3>1 DEF Staged, ExtractionStatuses
      <3> QED
        BY <2>2, <3>2 DEF Review, TypeOK
    <2> QED
      BY <2>1, <2>2, Writers DEF TypeOK
  <1>5. request' \in [Requests -> CreateRequests \cup CheckRequests \cup VerifyRequests \cup {NULL}]
    BY Writers DEF TypeOK, Begin, Answer, Asked
  <1>6. pc' \in [Requests -> {"idle", "loaded", "answered", "failed", "denied"}]
    BY Writers DEF TypeOK, Begin, Answer
  <1>7. alerts' \subseteq [check : Requests, contract : ContractIds, type : AlertTypes,
                           day : 0 .. LastDay]
    BY Writers, <1>3 DEF TypeOK
  <1> QED
    BY <1>1, <1>2, <1>4, <1>5, <1>6, <1>7 DEF TypeOK

\* No step changes the dates of a contract, takes an alert back, turns the clock
\* back or withdraws a verification.
LEMMA StepGrows ==
  ASSUME TypeOK, InFlight, [Next]_vars
  PROVE  Grows
PROOF
  <1>1. today' \in Int /\ today <= today'
    BY Writers, ContractsAssumption DEF TypeOK, Midnight
  <1>2. \A c \in ContractIds : contracts[c] \in Rows =>
          contracts'[c] \in Rows /\ contracts'[c].terms = contracts[c].terms
    BY Writers, ContractStep
  <1>3. alerts \subseteq alerts'
    BY Writers DEF Check
  <1>4. ASSUME NEW x \in Extractions, Verified(x)
        PROVE  extractions'[x] \in Staged /\ extractions'[x].status = "human_verified"
    <2>1. extractions[x] # NULL /\ extractions[x].status = "human_verified"
      BY <1>4, NullAssumption DEF Verified
    <2>2. extractions'[x] = extractions[x]
      BY <2>1, Writers DEF Stage, Review, TypeOK
    <2> QED
      BY <1>4, <2>2 DEF Verified
  <1> QED
    BY <1>1, <1>2, <1>3, <1>4 DEF Grows

\* So what a copy says of the tables stays true.
LEMMA CopyStays ==
  ASSUME TypeOK, Grows, NEW q, CopyHolds(q)
  PROVE  CopyHolds(q)'
PROOF
  <1>1. q \in CreateRequests \cup CheckRequests \cup VerifyRequests /\ q.day \in Int
    BY ContractsAssumption DEF CopyHolds, CreateRequests, CheckRequests, VerifyRequests
  <1>2. q.contract \in ContractIds /\ (q.kind = "verify" => q.extraction \in Extractions)
    BY <1>1 DEF CreateRequests, CheckRequests, VerifyRequests
  <1>3. q.day <= today'
    BY <1>1, ContractsAssumption DEF CopyHolds, Grows, TypeOK
  <1>4. Fired(q.contract) \subseteq Fired(q.contract)'
    BY DEF Fired, Grows
  <1>5. q.kind = "verify" /\ Verified(q.extraction) => Verified(q.extraction)'
    BY <1>2 DEF Grows, Verified
  <1> QED
    BY <1>1, <1>2, <1>3, <1>4, <1>5 DEF CopyHolds, Grows

\* Every copy, those that are made included, says what is true.
LEMMA InFlightStep ==
  ASSUME TypeOK, InFlight, [Next]_vars
  PROVE  InFlight'
PROOF
  <1>1. Grows
    BY StepGrows
  <1>2. ASSUME NEW s \in Requests, pc'[s] # "idle"
        PROVE  CopyHolds(request'[s])
    BY <1>2, Writers DEF InFlight, Begin, Answer, TypeOK, Asked
  <1>3. ASSUME NEW s \in Requests, pc'[s] # "idle"
        PROVE  CopyHolds(request[s])'
    <2>1. PICK q : q = request'[s] /\ CopyHolds(q)
      BY <1>2, <1>3
    <2>2. CopyHolds(q)'
      BY <1>1, <2>1, CopyStays
    <2> QED
      BY <2>1, <2>2
  <1> QED
    BY <1>3 DEF InFlight

-----------------------------------------------------------------------------
(* The invariants                                                           *)

\* A status is computed on a day that has come, from dates that do not change.
LEMMA StatusStep ==
  ASSUME TypeOK, InFlight, StatusOfADay, [Next]_vars
  PROVE  StatusOfADay'
PROOF
  <1> SUFFICES ASSUME NEW c \in ContractIds, contracts'[c] \in Rows
               PROVE  \E day \in 0 .. today' : contracts'[c].status = StatusOn(day, contracts'[c].terms)
    BY DEF StatusOfADay
  <1> DEFINE Holds(row) == \E day \in 0 .. today' : row.status = StatusOn(day, row.terms)
  <1>1. Grows
    BY StepGrows
  <1>2. today \in Int /\ 0 <= today
    BY ContractsAssumption DEF TypeOK
  <1>3. CASE contracts'[c] = contracts[c]
    <2>1. PICK day \in 0 .. today : contracts[c].status = StatusOn(day, contracts[c].terms)
      BY <1>3 DEF StatusOfADay
    <2>2. day \in 0 .. today'
      BY <1>1, <1>2, <2>1 DEF Grows
    <2> QED
      BY <1>3, <2>1, <2>2
  <1>4. ASSUME NEW r \in Requests, Create(r), contracts'[c] # contracts[c]
        PROVE  Holds(contracts'[c])
    <2> DEFINE q == request[r]
    <2>1. CopyHolds(q) /\ q.kind = "create"
      BY <1>4 DEF InFlight, Create, Loaded
    <2>2. q.day \in 0 .. today'
      BY <1>1, <1>2, <2>1 DEF CopyHolds, CreateRequests, CheckRequests, VerifyRequests, Grows
    <2>3. contracts'[c] = NewContract(q.terms, q.day)
      BY <1>4 DEF Create, TypeOK
    <2> QED
      BY <2>2, <2>3 DEF NewContract
  <1>5. ASSUME NEW r \in Requests, Verify(r), contracts'[c] # contracts[c]
        PROVE  Holds(contracts'[c])
    <2> DEFINE q == request[r]
               new == StatusOn(q.day, q.row.terms)
    <2>1. CopyHolds(q) /\ q.kind = "verify"
      BY <1>5 DEF InFlight, Verify, Loaded
    <2>2. q.day \in 0 .. today'
      BY <1>1, <1>2, <2>1, Z3 DEF CopyHolds, CreateRequests, CheckRequests, VerifyRequests, Grows
    <2>3. c = q.contract
      BY <1>5 DEF Verify, TypeOK
    <2>4. contracts[c] \in Rows /\ contracts[c].terms = q.row.terms
      BY <2>1, <2>3 DEF CopyHolds
    <2>5. contracts'[c].terms = q.row.terms
      BY <1>1, <2>4, Zenon DEF Grows
    <2>6. contracts'[c].status = IF new = q.row.status THEN contracts[c].status ELSE new
      BY <1>5, <2>3, <2>4 DEF Verify, TypeOK, Rows
    <2>7. CASE new = q.row.status
      <3>1. PICK day \in 0 .. today : contracts[c].status = StatusOn(day, contracts[c].terms)
        BY <2>4 DEF StatusOfADay
      <3>2. day \in 0 .. today'
        BY <1>1, <1>2, <3>1 DEF Grows
      <3> QED
        BY <2>4, <2>5, <2>6, <2>7, <3>1, <3>2
    <2>8. CASE new # q.row.status
      BY <2>2, <2>5, <2>6, <2>8
    <2> QED
      BY <2>7, <2>8, Zenon
  <1> QED
    BY <1>3, <1>4, <1>5, Writers

\* A field is promoted from an extraction that was found verified, and stays so.
LEMMA PromotedStep ==
  ASSUME TypeOK, InFlight, PromotedAreVerified, [Next]_vars
  PROVE  PromotedAreVerified'
PROOF
  <1> SUFFICES ASSUME NEW c \in ContractIds, NEW f \in TextFields,
                      contracts'[c] \in Rows, contracts'[c].promoted[f] # NULL
               PROVE  Verified(contracts[c].promoted[f])'
    BY DEF PromotedAreVerified
  <1>1. Grows
    BY StepGrows
  <1>2. ASSUME NEW x \in Extractions, Verified(x), x = contracts'[c].promoted[f]
        PROVE  Verified(contracts[c].promoted[f])'
    BY <1>1, <1>2 DEF Grows, Verified
  <1>3. CASE contracts'[c] = contracts[c]
    <2>1. contracts[c].promoted[f] \in Extractions
      BY <1>3 DEF Rows
    <2>2. Verified(contracts[c].promoted[f])
      BY <1>3 DEF PromotedAreVerified
    <2> QED
      BY <1>2, <1>3, <2>1, <2>2
  <1>4. ASSUME NEW r \in Requests, Create(r), contracts'[c] # contracts[c]
        PROVE  FALSE
    BY <1>4 DEF Create, NewContract, TypeOK
  <1>5. ASSUME NEW r \in Requests, Verify(r), contracts'[c] # contracts[c]
        PROVE  Verified(contracts[c].promoted[f])'
    <2> DEFINE q == request[r]
               put == Promotable(q.extraction, q.names)
    <2>1. CopyHolds(q) /\ q.kind = "verify" /\ q.status = "human_verified"
      BY <1>5 DEF InFlight, Verify, Loaded, EnsureVerified
    <2>2. Verified(q.extraction) /\ q.extraction \in Extractions
      BY <2>1, Zenon DEF CopyHolds, CreateRequests, CheckRequests, VerifyRequests
    <2>3. c = q.contract
      BY <1>5 DEF Verify, TypeOK
    <2>4. contracts[c] \in Rows
      BY <2>1, <2>3, Zenon DEF CopyHolds
    <2>5. contracts'[c].promoted[f] = IF f \in put THEN q.extraction ELSE contracts[c].promoted[f]
      BY <1>5, <2>3, <2>4 DEF Verify, TypeOK, Rows
    <2>6. CASE f \in put
      BY <1>2, <2>2, <2>5, <2>6
    <2>7. CASE f \notin put
      <3>1. contracts[c].promoted[f] \in Extractions
        BY <2>4, <2>5, <2>7 DEF Rows
      <3>2. Verified(contracts[c].promoted[f])
        BY <2>4, <2>5, <2>7 DEF PromotedAreVerified
      <3> QED
        BY <1>2, <2>5, <2>7, <3>1, <3>2
    <2> QED
      BY <2>6, <2>7, Zenon
  <1> QED
    BY <1>3, <1>4, <1>5, Writers

\* A check only adds alerts of types that the contract has none of.
LEMMA OnceStep ==
  ASSUME AlertsAreGivenOnce, TypeOK, InFlight, [Next]_vars
  PROVE  AlertsAreGivenOnce'
PROOF
  <1>1. ASSUME NEW r \in Requests, Check(r)
        PROVE  AlertsAreGivenOnce'
    <2> DEFINE q == request[r]
               new == Alerts(r, q.contract, q.day, Batch(q))
    <2>1. alerts' = alerts \cup new
      BY <1>1 DEF Check
    <2>2. \A a \in new, b \in alerts : a.contract = b.contract => a.type # b.type
      BY <1>1 DEF Check, Insertable, Fired, Alerts
    <2>3. \A a, b \in new : a.type = b.type => a = b
      BY DEF Alerts
    <2> QED
      BY <2>1, <2>2, <2>3 DEF AlertsAreGivenOnce
  <1> QED
    BY <1>1, Writers DEF AlertsAreGivenOnce

\* What a check was to report is what had been fired and what it adds.
LEMMA CompleteStep ==
  ASSUME AnsweredCheckIsComplete, TypeOK, InFlight, [Next]_vars
  PROVE  AnsweredCheckIsComplete'
PROOF
  <1> DEFINE Complete(q, fired) ==
               /\ \A n \in Thresholds : q.terms.expiry - q.day <= n => n \in fired
               /\ q.day = q.terms.expiry - q.terms.notice => NoticeAlert \in fired
  <1> SUFFICES ASSUME NEW s \in Requests, pc'[s] = "answered", request'[s].kind = "check"
               PROVE  Complete(request'[s], Fired(request[s].contract)')
    BY DEF AnsweredCheckIsComplete
  <1>1. \A c : Fired(c) \subseteq Fired(c)'
    BY StepGrows DEF Fired, Grows
  <1>2. CASE request'[s] = request[s] /\ pc[s] = "answered"
    <2>1. Complete(request[s], Fired(request[s].contract))
      BY <1>2 DEF AnsweredCheckIsComplete
    <2> QED
      BY <1>1, <1>2, <2>1
  <1>3. ASSUME Check(s)
        PROVE  Complete(request'[s], Fired(request[s].contract)')
    <2> DEFINE q == request[s]
    <2>1. q.fired \subseteq Fired(q.contract)
      BY <1>3 DEF Check, Loaded, InFlight, CopyHolds
    <2>2. request'[s] = q
      BY <1>3 DEF Check, Answer
    <2>3. ASSUME NEW t \in Batch(q)
          PROVE  t \in Fired(q.contract)'
      <3> DEFINE a == [check |-> s, contract |-> q.contract, type |-> t, day |-> q.day]
      <3>1. a \in alerts'
        BY <1>3 DEF Check, Alerts
      <3>2. a.type = t /\ a.contract = q.contract
        OBVIOUS
      <3> HIDE DEF a
      <3> QED
        BY <2>2, <3>1, <3>2 DEF Fired
    <2>4. Complete(q, q.fired \cup Batch(q))
      BY DEF Batch, DueAlerts, NoticeDeadline
    <2> QED
      BY <1>1, <2>1, <2>2, <2>3, <2>4
  <1>4. request'[s] = request[s] /\ (pc[s] = "answered" \/ Check(s))
    BY Writers DEF Begin, Answer, TypeOK
  <1> QED
    BY <1>2, <1>3, <1>4

-----------------------------------------------------------------------------
(* Theorems                                                                 *)

\* The initial states satisfy the invariant.
LEMMA InitInvariant == Init => IInv
PROOF
  <1> SUFFICES ASSUME Init PROVE IInv
    OBVIOUS
  <1>1. contracts \in [ContractIds -> {NULL}] /\ NULL \notin Rows
    BY NullAssumption DEF Init
  <1> QED
    BY <1>1, InitType DEF Init, IInv, InFlight, StatusOfADay, PromotedAreVerified,
       AlertsAreGivenOnce, AnsweredCheckIsComplete

\* Every step keeps the invariant.
LEMMA StepInvariant == IInv /\ [Next]_vars => IInv'
PROOF
  BY TypeStep, InFlightStep, StatusStep, PromotedStep, OnceStep, CompleteStep DEF IInv

\* IInv is an invariant of the contracts.
LEMMA Invariant == Spec => []IInv
PROOF
  BY InitInvariant, StepInvariant, PTL DEF Spec

\* Every variable keeps its type: no request leaves a contract, an alert or an
\* extraction of another shape, whatever copy it worked on.
THEOREM TypeCorrect == Spec => []TypeOK
PROOF
  <1>1. IInv => TypeOK
    BY DEF IInv
  <1> QED
    BY <1>1, Invariant, PTL

\* An alert is given once for a contract, however many checks race, for any
\* thresholds (run_alert_check, uq_contract_alert_type).
THEOREM EveryAlertOnce == Spec => []AlertsAreGivenOnce
PROOF
  <1>1. IInv => AlertsAreGivenOnce
    BY DEF IInv
  <1> QED
    BY <1>1, Invariant, PTL

\* After a check that was answered no threshold that had been crossed is without an
\* alert, its own or one that it found (run_alert_check, determine_due_alerts).
THEOREM ChecksAreComplete == Spec => []AnsweredCheckIsComplete
PROOF
  <1>1. IInv => AnsweredCheckIsComplete
    BY DEF IInv
  <1> QED
    BY <1>1, Invariant, PTL

\* The stored status is that of a day that has come, so it is not ahead of today's
\* (refresh_status).
THEOREM StatusNeverAhead == Spec => []StoredStatusIsNeverAhead
PROOF
  <1>1. IInv => StoredStatusIsNeverAhead
    <2> SUFFICES ASSUME IInv, NEW status \in Statuses, NEW c \in ListBy(status)
                 PROVE  Progress(status) <= Progress(StatusOn(today, contracts[c].terms))
      BY DEF StoredStatusIsNeverAhead
    <2>1. c \in ContractIds /\ contracts[c] \in Rows /\ contracts[c].status = status
      BY DEF ListBy, IInv, TypeOK
    <2>2. PICK day \in 0 .. today : status = StatusOn(day, contracts[c].terms)
      BY <2>1 DEF IInv, StatusOfADay
    <2>3. contracts[c].terms \in Offered /\ today \in Int
      BY <2>1, ContractsAssumption DEF Rows, IInv, TypeOK
    <2> QED
      BY <2>2, <2>3, ProgressIsMonotone
  <1> QED
    BY <1>1, Invariant, PTL

\* The gate of ADR-004: a term never comes from an extraction that nobody has
\* verified (verify_contract_extraction, ensure_verified).
THEOREM OnlyVerified == Spec => []OnlyVerifiedTermsArePromoted
PROOF
  <1>1. IInv => OnlyVerifiedTermsArePromoted
    BY DEF IInv, TypeOK, PromotedAreVerified, OnlyVerifiedTermsArePromoted, Verified
  <1> QED
    BY <1>1, Invariant, PTL

\* No step changes the dates of a contract, takes back an alert, turns the clock back
\* or withdraws a verification: what a request loaded is still so when it writes.
THEOREM NothingIsUndone == Spec => [][Grows]_vars
PROOF
  <1>1. IInv /\ [Next]_vars => [Grows]_vars
    BY StepGrows DEF IInv
  <1> QED
    BY <1>1, Invariant, PTL DEF Spec

===============================================================================
