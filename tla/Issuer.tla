------------------------------- MODULE Issuer -------------------------------
(***************************************************************************)
(* The Issuer Service of the identity hub: the credential catalog, the     *)
(* holder registry, the table of issuance processes, the delivery tasks,   *)
(* the issued-credential records with their status list, the Issuer Admin  *)
(* API and the issuing half of OID4VCI.                                    *)
(*                                                                         *)
(* One action is one critical section (a stretch of code run under the     *)
(* locks it holds) or one network call; everything the handlers do between *)
(* two of them touches only local state. The handlers run on a multi-      *)
(* threaded runtime, so the critical sections of any two of them interleave*)
(* freely.  A request that is refused without changing any state is a      *)
(* stuttering step and has no action.                                      *)
(*                                                                         *)
(* Abstractions: a holder is named by its DID in `holder_key` form, the    *)
(* key of the registry's index; a definition is its id; a process id is    *)
(* its arrival number, so that the smallest is the oldest of the table's   *)
(* `order`; timestamps, names, properties and signatures are left out.     *)
(***************************************************************************)
EXTENDS StatusList, Sequences, FiniteSets

CONSTANTS
    Definitions,            \* credential definition ids an operator may use
    Seeded,                 \* the definition the catalog starts with
    Holders,                \* DIDs, in holder_key form
    Redemptions,            \* OID4VCI credential requests served at one time
    HolderApproval,         \* --holder-approval: "auto" or "manual"
    MaxDefinitions,         \* MAX_CREDENTIAL_DEFINITIONS
    MaxHolders,             \* MAX_HOLDERS
    MaxRequestCredentials,  \* MAX_REQUEST_CREDENTIALS
    MaxPendingPerHolder,    \* MAX_PENDING_PROCESSES_PER_HOLDER
    MaxPending,             \* MAX_PENDING_PROCESSES
    MaxTracked,             \* MAX_TRACKED_REQUESTS
    MaxInFlight,            \* MAX_IN_FLIGHT_DELIVERIES
    MaxProcesses            \* bound of the model: processes ever created

ASSUME IssuerAssumption ==
    /\ Seeded \in Definitions
    /\ HolderApproval \in {"auto", "manual"}
    /\ MaxDefinitions \in Nat \ {0}
    /\ MaxHolders \in Nat
    /\ MaxRequestCredentials \in Nat
    /\ MaxPendingPerHolder \in Nat
    /\ MaxPending \in Nat
    /\ MaxTracked \in Nat \ {0}
    /\ MaxInFlight \in Nat \ {0}
    /\ MaxProcesses \in Nat

VARIABLES
    catalog,      \* DefinitionCatalog: the ids it holds
    holders,      \* HolderRegistry: status of each DID, "absent" if unknown
    requests,     \* RequestTable: the tracked processes, by id
    nextPid,      \* the id the next process gets
    tasks,        \* the delivery tasks spawned for each process, in order
    permits,      \* delivery_semaphore: permits left
    records,      \* IssuedCredentials.records
    statusList,   \* IssuedCredentials.status_list
    redemptions   \* OID4VCI credential requests past their nonce check

vars == <<catalog, holders, requests, nextPid, tasks, permits, records,
          statusList, redemptions>>

-----------------------------------------------------------------------------
(* Types *)

Pids == 1 .. MaxProcesses

HolderStatus == {"pending", "approved", "rejected"}

Active   == {"SUBMITTED", "APPROVED"}
Terminal == {"DELIVERED", "ERRORED", "REJECTED"}

IssuanceProcess == [state   : Active \cup Terminal,
                    holder  : Holders,
                    defs    : SUBSET Definitions,
                    started : BOOLEAN]

\* A credential signed by a delivery that has not been recorded yet.
Minted == [def : Definitions, idx : Indexes]

\* Where a delivery task is in deliver_issued_credential.
TaskPc == {"queued",      \* waiting on the delivery semaphore
           "permitted",   \* holds a permit, process not claimed yet
           "claimed",     \* process claimed, definitions not read yet
           "resolving",   \* resolving the holder's DID document
           "allocating",  \* signing one credential per definition
           "recording",   \* the Storage API accepted the message
           "releasing",   \* delivery failed, indexes still allocated
           "delivered",   \* about to move the process to DELIVERED
           "errored",     \* about to move the process to ERRORED
           "done"}

\* `todo` are the definitions still to be signed, `minted` the credentials
\* signed so far, whose indexes are what the code collects in `allocated`.
Task == [pc : TaskPc, todo : SUBSET Definitions, minted : SUBSET Minted]

IssuedCredential == [pid : Pids, def : Definitions, idx : Indexes,
                     status : {"active", "revoked"}]

Redemption == [id     : Redemptions,
               pc     : {"looking", "allowed", "indexed", "inserted",
                         "releasing"},
               holder : Holders,
               def    : Definitions,
               idx    : Indexes,
               pid    : Pids \cup {0}]

TypeOK ==
    /\ catalog \in SUBSET Definitions
    /\ holders \in [Holders -> HolderStatus \cup {"absent"}]
    /\ nextPid \in 1 .. MaxProcesses + 1
    /\ DOMAIN requests \in SUBSET (1 .. nextPid - 1)
    /\ requests \in [DOMAIN requests -> IssuanceProcess]
    /\ tasks \in [Pids -> Seq(Task)]
    /\ permits \in Nat
    /\ records \in SUBSET IssuedCredential
    /\ statusList \in StatusLists
    /\ redemptions \in SUBSET Redemption
    /\ \A r \in redemptions : r.pc = "inserted" => r.pid \in Pids

Init ==
    /\ catalog = {Seeded}
    /\ holders = [h \in Holders |-> "absent"]
    /\ requests = [p \in {} |-> [state |-> "SUBMITTED"]]
    /\ nextPid = 1
    /\ tasks = [p \in Pids |-> <<>>]
    /\ permits = MaxInFlight
    /\ records = {}
    /\ statusList = EmptyStatusList
    /\ redemptions = {}

-----------------------------------------------------------------------------
(* The issuance process table (state.rs, RequestTable) *)

\* The processes of holder h (or of every holder) that wait for a decision.
Pending(t) == {p \in DOMAIN t : t[p].state = "SUBMITTED"}
PendingOf(t, h) == {p \in Pending(t) : t[p].holder = h}

Evictable(t) == {p \in DOMAIN t : t[p].state \in Terminal}

Full(t) == Cardinality(DOMAIN t) >= MaxTracked

\* insert() fails (TableFull) when the table is full of active processes.
CanInsert(t) == ~Full(t) \/ Evictable(t) # {}

\* insert(): the oldest terminal process makes room. The table never exceeds
\* its capacity, so the code's loop runs at most once.
Insert(t, p, process) ==
    LET evicted == IF Full(t) THEN {Lowest(Evictable(t))} ELSE {}
    IN  [q \in (DOMAIN t \ evicted) \cup {p} |->
            IF q = p THEN process ELSE t[q]]

-----------------------------------------------------------------------------
(* Credential definitions (Issuer Admin API) *)

CreateDefinition(d) ==
    /\ d \notin catalog
    /\ Cardinality(catalog) < MaxDefinitions
    /\ catalog' = catalog \cup {d}
    /\ UNCHANGED <<holders, requests, nextPid, tasks, permits, records,
                   statusList, redemptions>>

\* SUBMITTED and APPROVED processes still need their definitions.
InUse(d) ==
    \E p \in DOMAIN requests :
        requests[p].state \in Active /\ d \in requests[p].defs

\* The catalog stays locked while the process table is searched.
DeleteDefinition(d) ==
    /\ d \in catalog
    /\ ~ InUse(d)
    /\ catalog' = catalog \ {d}
    /\ UNCHANGED <<holders, requests, nextPid, tasks, permits, records,
                   statusList, redemptions>>

-----------------------------------------------------------------------------
(* Holders *)

Registered == {h \in Holders : holders[h] # "absent"}

\* HolderRegistry::insert refuses a known DID and a full registry.
CanRegister(h) == holders[h] = "absent" /\ Cardinality(Registered) < MaxHolders

\* The status of a holder when it asks for a credential: a first-time caller
\* gets a record whose status --holder-approval chooses.
StatusOnContact(h) ==
    IF holders[h] # "absent" THEN holders[h]
    ELSE IF HolderApproval = "auto" THEN "approved" ELSE "pending"

\* The registry knows the caller, or can take it in.
KnownOrRegistrable(h) == holders[h] # "absent" \/ CanRegister(h)

\* The operator registers a holder: that is its approval.
RegisterHolder(h) ==
    /\ CanRegister(h)
    /\ holders' = [holders EXCEPT ![h] = "approved"]
    /\ UNCHANGED <<catalog, requests, nextPid, tasks, permits, records,
                   statusList, redemptions>>

\* A variant in which a rejection leaves queued APPROVED processes alone.
MovedSubmittedOnly(h, next) ==
    {p \in DOMAIN requests : /\ requests[p].holder = h
                             /\ requests[p].state = "SUBMITTED"}

\* A variant in which an approval revives rejected processes.
MovedRevives(h, next) ==
    {p \in DOMAIN requests :
        /\ requests[p].holder = h
        /\ \/ requests[p].state \in {"SUBMITTED", "REJECTED"}
           \/ /\ next = "REJECTED"
              /\ requests[p].state = "APPROVED"
              /\ ~ requests[p].started}

\* A variant in which a rejection also takes the process of a delivery that is
\* under way.
MovedStarted(h, next) ==
    {p \in DOMAIN requests :
        /\ requests[p].holder = h
        /\ \/ requests[p].state = "SUBMITTED"
           \/ next = "REJECTED" /\ requests[p].state = "APPROVED"}

\* The processes decide_holder moves to state `next`.
Moved(h, next) ==
    {p \in DOMAIN requests :
        /\ requests[p].holder = h
        /\ \/ requests[p].state = "SUBMITTED"
           \/ /\ next = "REJECTED"
              /\ requests[p].state = "APPROVED"
              /\ ~ requests[p].started}

\* decide_holder: both locks are held for the whole of it.
DecideHolder(h, status, next) ==
    /\ holders[h] # "absent"
    /\ holders' = [holders EXCEPT ![h] = status]
    /\ requests' = [p \in DOMAIN requests |->
                       IF p \in Moved(h, next)
                       THEN [requests[p] EXCEPT !.state = next]
                       ELSE requests[p]]

NewTask == [pc |-> "queued", todo |-> {}, minted |-> {}]

\* spawn_delivery for every process of P. No handler awaits anything between
\* releasing its locks and spawning, and a task spawned later is one that
\* queues longer.
Spawn(P) ==
    tasks' = [p \in Pids |-> IF p \in P THEN Append(tasks[p], NewTask)
                                        ELSE tasks[p]]

ApproveHolder(h) ==
    /\ DecideHolder(h, "approved", "APPROVED")
    /\ Spawn(Moved(h, "APPROVED"))
    /\ UNCHANGED <<catalog, nextPid, permits, records, statusList, redemptions>>

RejectHolder(h) ==
    /\ DecideHolder(h, "rejected", "REJECTED")
    /\ UNCHANGED <<catalog, nextPid, tasks, permits, records, statusList,
                   redemptions>>

-----------------------------------------------------------------------------
(* Credential Request API (DCP) *)

\* The distinct ids of a request that passes the checks on the message: at
\* least one, at most MaxRequestCredentials, each in the catalog.
ValidRequest(ds) ==
    /\ ds # {}
    /\ Cardinality(ds) <= MaxRequestCredentials
    /\ ds \subseteq catalog

\* A variant with the off-by-one of testing the counts after the insertion.
WithinPendingCapsLoose(h) ==
    /\ Cardinality(PendingOf(requests, h)) <= MaxPendingPerHolder
    /\ Cardinality(Pending(requests)) <= MaxPending

\* The caps on processes that wait for the operator.
WithinPendingCaps(h) ==
    /\ Cardinality(PendingOf(requests, h)) < MaxPendingPerHolder
    /\ Cardinality(Pending(requests)) < MaxPending

\* 503 is not the answer: the pending caps and the table have room.
Admissible(h) ==
    /\ StatusOnContact(h) = "pending" => WithinPendingCaps(h)
    /\ CanInsert(requests)

\* definitions, holders and requests are locked together; the delivery task
\* of an approved holder's process is spawned before the handler returns.
CredentialRequestAccepted(h, ds) ==
    /\ nextPid <= MaxProcesses
    /\ ValidRequest(ds)
    /\ KnownOrRegistrable(h)
    /\ StatusOnContact(h) # "rejected"
    /\ Admissible(h)
    /\ LET state == IF StatusOnContact(h) = "pending" THEN "SUBMITTED"
                                                      ELSE "APPROVED"
       IN  /\ requests' = Insert(requests, nextPid,
                                 [state |-> state, holder |-> h, defs |-> ds,
                                  started |-> FALSE])
           /\ Spawn(IF state = "APPROVED" THEN {nextPid} ELSE {})
    /\ holders' = [holders EXCEPT ![h] = StatusOnContact(h)]
    /\ nextPid' = nextPid + 1
    /\ UNCHANGED <<catalog, permits, records, statusList, redemptions>>

\* A first-time caller refused with 503 keeps the holder record it was given.
CredentialRequestRefused(h, ds) ==
    /\ ValidRequest(ds)
    /\ CanRegister(h)
    /\ ~ Admissible(h)
    /\ holders' = [holders EXCEPT ![h] = StatusOnContact(h)]
    /\ UNCHANGED <<catalog, requests, nextPid, tasks, permits, records,
                   statusList, redemptions>>

-----------------------------------------------------------------------------
(* Delivery tasks (deliver_issued_credential) of process p, n-th task *)

At(p, n, pc) == n \in DOMAIN tasks[p] /\ tasks[p][n].pc = pc

\* The task's new local state is t.
Update(p, n, t) == tasks' = [tasks EXCEPT ![p] = [@ EXCEPT ![n] = t]]

GoTo(p, n, pc) == Update(p, n, [tasks[p][n] EXCEPT !.pc = pc])

\* The task is over: its locals are gone.
Exit(p, n) == Update(p, n, [NewTask EXCEPT !.pc = "done"])

AcquirePermit(p, n) ==
    /\ At(p, n, "queued")
    /\ permits > 0
    /\ permits' = permits - 1
    /\ GoTo(p, n, "permitted")
    /\ UNCHANGED <<catalog, holders, requests, nextPid, records, statusList,
                   redemptions>>

\* A variant that claims whatever process it finds, rejected ones included.
ClaimableAnyState(p) == p \in DOMAIN requests

\* Only a process that is still APPROVED is delivered.
Claimable(p) == p \in DOMAIN requests /\ requests[p].state = "APPROVED"

ClaimProcess(p, n) ==
    /\ At(p, n, "permitted")
    /\ Claimable(p)
    /\ requests' = [requests EXCEPT ![p].started = TRUE]
    /\ Update(p, n, [pc |-> "claimed", todo |-> requests[p].defs, minted |-> {}])
    /\ UNCHANGED <<catalog, holders, nextPid, permits, records, statusList,
                   redemptions>>

\* A variant whose early return leaks the permit.
AbandonProcessLeaks(p, n) ==
    /\ At(p, n, "permitted")
    /\ ~ Claimable(p)
    /\ Exit(p, n)
    /\ UNCHANGED <<catalog, holders, requests, nextPid, permits, records,
                   statusList, redemptions>>

\* The process was rejected while the task was queued: the task returns, and
\* with it goes its permit.
AbandonProcess(p, n) ==
    /\ At(p, n, "permitted")
    /\ ~ Claimable(p)
    /\ Exit(p, n)
    /\ permits' = permits + 1
    /\ UNCHANGED <<catalog, holders, requests, nextPid, records, statusList,
                   redemptions>>

\* Reads the definitions the process asked for, in one critical section; one
\* that is gone is an error, before any index is allocated.
LookUpDefinitions(p, n) ==
    /\ At(p, n, "claimed")
    /\ GoTo(p, n, IF tasks[p][n].todo \subseteq catalog THEN "resolving"
                                                        ELSE "errored")
    /\ UNCHANGED <<catalog, holders, requests, nextPid, permits, records,
                   statusList, redemptions>>

\* Outbound policy, DID resolution and the CredentialService endpoint: each
\* may fail, and resolution is a network call.
ResolveHolder(p, n) ==
    /\ At(p, n, "resolving")
    /\ \E pc \in {"allocating", "releasing"} : GoTo(p, n, pc)
    /\ UNCHANGED <<catalog, holders, requests, nextPid, permits, records,
                   statusList, redemptions>>

\* Takes an index for one more definition and signs its credential.
AllocateIndex(p, n) ==
    /\ At(p, n, "allocating")
    /\ CanAllocate(statusList)
    /\ \E d \in tasks[p][n].todo :
          Update(p, n, [tasks[p][n] EXCEPT
                          !.todo = @ \ {d},
                          !.minted = @ \cup
                              {[def |-> d, idx |-> AllocatedIndex(statusList)]}])
    /\ statusList' = Allocate(statusList)
    /\ UNCHANGED <<catalog, holders, requests, nextPid, permits, records,
                   redemptions>>

\* The status list is exhausted.
AllocationFails(p, n) ==
    /\ At(p, n, "allocating")
    /\ tasks[p][n].todo # {}
    /\ ~ CanAllocate(statusList)
    /\ GoTo(p, n, "releasing")
    /\ UNCHANGED <<catalog, holders, requests, nextPid, permits, records,
                   statusList, redemptions>>

\* POST to the holder's Storage API: a 2xx answer, or anything else (another
\* status, a timeout, a lost answer).
PostCredentials(p, n) ==
    /\ At(p, n, "allocating")
    /\ tasks[p][n].todo = {}
    /\ \E pc \in {"recording", "releasing"} : GoTo(p, n, pc)
    /\ UNCHANGED <<catalog, holders, requests, nextPid, permits, records,
                   statusList, redemptions>>

RecordsOf(p, n) ==
    {[pid |-> p, def |-> m.def, idx |-> m.idx, status |-> "active"] :
        m \in tasks[p][n].minted}

\* The issued-credential records of a delivery the holder accepted.
RecordIssued(p, n) ==
    /\ At(p, n, "recording")
    /\ records' = records \cup RecordsOf(p, n)
    /\ Update(p, n, [NewTask EXCEPT !.pc = "delivered"])
    /\ UNCHANGED <<catalog, holders, requests, nextPid, permits, statusList,
                   redemptions>>

\* A failed delivery hands every index it took back.
ReleaseIndexes(p, n) ==
    /\ At(p, n, "releasing")
    /\ statusList' = Release(statusList, {m.idx : m \in tasks[p][n].minted})
    /\ Update(p, n, [NewTask EXCEPT !.pc = "errored"])
    /\ UNCHANGED <<catalog, holders, requests, nextPid, permits, records,
                   redemptions>>

\* A variant that reports every delivery as a success.
OutcomeIgnoresError(pc) == "DELIVERED"

Outcome(pc) == IF pc = "delivered" THEN "DELIVERED" ELSE "ERRORED"

\* The process, if it is still in the table, gets the outcome; the task ends
\* and its permit returns.
FinishDelivery(p, n) ==
    /\ \E pc \in {"delivered", "errored"} :
          /\ At(p, n, pc)
          /\ requests' = IF p \in DOMAIN requests
                         THEN [requests EXCEPT ![p].state = Outcome(pc)]
                         ELSE requests
    /\ Exit(p, n)
    /\ permits' = permits + 1
    /\ UNCHANGED <<catalog, holders, nextPid, records, statusList, redemptions>>

-----------------------------------------------------------------------------
(* Issued credentials and the status list *)

RevokeCredential(r) ==
    /\ records' = (records \ {r}) \cup {[r EXCEPT !.status = "revoked"]}
    /\ statusList' = SetBit(statusList, r.idx)
    /\ UNCHANGED <<catalog, holders, requests, nextPid, tasks, permits,
                   redemptions>>

ServeStatusList ==
    /\ statusList' = Publish(statusList)
    /\ UNCHANGED <<catalog, holders, requests, nextPid, tasks, permits, records,
                   redemptions>>

-----------------------------------------------------------------------------
(* OID4VCI: a credential request past its access token, key proof and      *)
(* nonce. Unlike the DCP handler it takes each lock on its own.            *)

Replace(r, s) == redemptions' = (redemptions \ {r}) \cup {s}

\* The definition is looked up after the nonce is taken.
RedeemStart(id, h, d) ==
    /\ id \notin {r.id : r \in redemptions}
    /\ d \in catalog
    /\ redemptions' = redemptions \cup
          {[id |-> id, pc |-> "looking", holder |-> h, def |-> d, idx |-> 0,
            pid |-> 0]}
    /\ UNCHANGED <<catalog, holders, requests, nextPid, tasks, permits, records,
                   statusList>>

\* record_and_mint refuses a rejected holder and a full registry; a pending
\* holder is served, since the operator's offer stands in for approval.
RedeemHolder(r) ==
    /\ r.pc = "looking"
    /\ IF KnownOrRegistrable(r.holder) /\ StatusOnContact(r.holder) # "rejected"
       THEN /\ holders' = [holders EXCEPT ![r.holder] = StatusOnContact(r.holder)]
            /\ Replace(r, [r EXCEPT !.pc = "allowed"])
       ELSE /\ redemptions' = redemptions \ {r}
            /\ UNCHANGED holders
    /\ UNCHANGED <<catalog, requests, nextPid, tasks, permits, records,
                   statusList>>

RedeemAllocate(r) ==
    /\ r.pc = "allowed"
    /\ IF CanAllocate(statusList)
       THEN /\ Replace(r, [r EXCEPT !.pc = "indexed",
                                    !.idx = AllocatedIndex(statusList)])
            /\ statusList' = Allocate(statusList)
       ELSE /\ redemptions' = redemptions \ {r}
            /\ UNCHANGED statusList
    /\ UNCHANGED <<catalog, holders, requests, nextPid, tasks, permits, records>>

\* The process is born DELIVERED, before its credential is recorded.
RedeemInsert(r) ==
    /\ r.pc = "indexed"
    /\ IF CanInsert(requests)
       THEN /\ nextPid <= MaxProcesses
            /\ requests' = Insert(requests, nextPid,
                                  [state |-> "DELIVERED", holder |-> r.holder,
                                   defs |-> {r.def}, started |-> TRUE])
            /\ nextPid' = nextPid + 1
            /\ Replace(r, [r EXCEPT !.pc = "inserted", !.pid = nextPid])
       ELSE /\ Replace(r, [r EXCEPT !.pc = "releasing"])
            /\ UNCHANGED <<requests, nextPid>>
    /\ UNCHANGED <<catalog, holders, tasks, permits, records, statusList>>

RedeemRelease(r) ==
    /\ r.pc = "releasing"
    /\ statusList' = Release(statusList, {r.idx})
    /\ redemptions' = redemptions \ {r}
    /\ UNCHANGED <<catalog, holders, requests, nextPid, tasks, permits, records>>

RedeemRecord(r) ==
    /\ r.pc = "inserted"
    /\ records' = records \cup {[pid |-> r.pid, def |-> r.def, idx |-> r.idx,
                                 status |-> "active"]}
    /\ redemptions' = redemptions \ {r}
    /\ UNCHANGED <<catalog, holders, requests, nextPid, tasks, permits,
                   statusList>>

-----------------------------------------------------------------------------
Admin ==
    \/ \E d \in Definitions : CreateDefinition(d) \/ DeleteDefinition(d)
    \/ \E h \in Holders : RegisterHolder(h) \/ ApproveHolder(h) \/ RejectHolder(h)
    \/ \E r \in records : RevokeCredential(r)

Request ==
    \E h \in Holders, ds \in SUBSET Definitions :
        CredentialRequestAccepted(h, ds) \/ CredentialRequestRefused(h, ds)

\* What the delivery task n of process p does once it holds a permit.
Deliver(p, n) ==
    \/ ClaimProcess(p, n)      \/ AbandonProcess(p, n)
    \/ LookUpDefinitions(p, n) \/ ResolveHolder(p, n)
    \/ AllocateIndex(p, n)     \/ AllocationFails(p, n)
    \/ PostCredentials(p, n)   \/ RecordIssued(p, n)
    \/ ReleaseIndexes(p, n)    \/ FinishDelivery(p, n)

Delivery ==
    \E p \in Pids : \E n \in DOMAIN tasks[p] :
        AcquirePermit(p, n) \/ Deliver(p, n)

Redeem ==
    \/ \E id \in Redemptions, h \in Holders, d \in Definitions :
          RedeemStart(id, h, d)
    \/ \E r \in redemptions :
          \/ RedeemHolder(r)  \/ RedeemAllocate(r) \/ RedeemInsert(r)
          \/ RedeemRelease(r) \/ RedeemRecord(r)

Next == Admin \/ Request \/ Delivery \/ ServeStatusList \/ Redeem

Spec == Init /\ [][Next]_vars

(***************************************************************************)
(* Fairness. A spawned task is polled until it ends and each of its        *)
(* network calls ends by the client's connect and total timeouts, hence    *)
(* weak fairness; tokio's semaphore hands permits out first come, first    *)
(* served, so a waiting task is not overtaken for ever, hence strong       *)
(* fairness of AcquirePermit. Nothing is assumed of callers or operators.  *)
(***************************************************************************)
Fairness ==
    \A p \in Pids : /\ SF_vars(1 \in DOMAIN tasks[p] /\ AcquirePermit(p, 1))
                    /\ WF_vars(1 \in DOMAIN tasks[p] /\ Deliver(p, 1))

-----------------------------------------------------------------------------
(* What a process looks like from outside *)

\* An APPROVED process whose delivery has started is past every decision; one
\* that left the table is forgotten.
Phase(p) ==
    IF p >= nextPid THEN "unborn"
    ELSE IF p \notin DOMAIN requests THEN "forgotten"
    ELSE IF requests[p].state = "APPROVED" /\ requests[p].started
         THEN "delivering"
    ELSE requests[p].state

Owner(p) == IF p \in DOMAIN requests THEN requests[p].holder ELSE {}

OnRecord(p) == {r.def : r \in {s \in records : s.pid = p}}

Lifecycle == INSTANCE IssuanceLifecycle WITH
                 Processes   <- Pids,
                 Owners      <- Holders,
                 Credentials <- Definitions,
                 Nobody      <- {},
                 phase       <- [p \in Pids |-> Phase(p)],
                 owner       <- [p \in Pids |-> Owner(p)],
                 issued      <- [p \in Pids |-> OnRecord(p)]

-----------------------------------------------------------------------------
(* Properties *)

\* The tasks spawned so far, as <<process, number>>.
Spawned == UNION {{p} \X DOMAIN tasks[p] : p \in Pids}

WithPermit == TaskPc \ {"queued", "done"}
Claimed    == WithPermit \ {"permitted"}

\* Every definition an active process asked for stays in the catalog, so a
\* holder approved later still gets what it asked for: delete_definition
\* refuses with 409, and the Credential Request API checks and inserts under
\* the same locks. The delivery's "no longer exists" error is unreachable.
ActiveDefinitionsExist ==
    \A p \in DOMAIN requests :
        requests[p].state \in Active => requests[p].defs \subseteq catalog

\* A process waits for a decision only while its holder is pending, and one
\* whose delivery may still start belongs to an approved holder: decide_holder
\* and credential_request never miss each other's change, whatever sequence of
\* approvals and rejections the operator makes.
StateFollowsHolder ==
    \A p \in DOMAIN requests :
        LET status == holders[requests[p].holder]
        IN  /\ requests[p].state = "SUBMITTED" => status = "pending"
            /\ requests[p].state = "APPROVED" /\ ~ requests[p].started
                  => status = "approved"

\* At most one delivery task is ever spawned for a process. The claim does not
\* look at delivery_started, so a second task of an APPROVED process would
\* deliver it a second time.
OneDeliveryTask == \A p \in Pids : Len(tasks[p]) <= 1

\* From the moment a task claims its process until it reports the outcome, the
\* process is in the table, APPROVED and marked started: neither a rejection
\* nor the eviction of old processes touches it.
ClaimedProcessStays ==
    \A p \in Pids : \A n \in DOMAIN tasks[p] :
        tasks[p][n].pc \in Claimed =>
            /\ p \in DOMAIN requests
            /\ requests[p].state = "APPROVED"
            /\ requests[p].started
            /\ tasks[p][n].todo \subseteq requests[p].defs

\* An APPROVED process has a delivery task that will settle it: none is
\* stranded by an approval, a rejection or an early return.
ApprovedHasTask ==
    \A p \in DOMAIN requests :
        requests[p].state = "APPROVED" =>
            \E n \in DOMAIN tasks[p] :
                tasks[p][n].pc \in IF requests[p].started
                                   THEN Claimed ELSE {"queued", "permitted"}

\* A process no task was spawned for: one not created yet, or one that waits
\* for its holder's approval.
NotSpawnedYet ==
    /\ \A p \in Pids : p >= nextPid => Len(tasks[p]) = 0
    /\ \A p \in DOMAIN requests :
          requests[p].state = "SUBMITTED" =>
              Len(tasks[p]) = 0 /\ ~ requests[p].started

\* What an active process counts on stays as it is until the process settles:
\* its definitions, the decision on its holder and, once its delivery has
\* started, the process itself.
ActiveProcessesSafe ==
    /\ ActiveDefinitionsExist
    /\ StateFollowsHolder
    /\ ClaimedProcessStays

\* A process has its delivery task from the moment of its approval, and never
\* a second one.
TasksFitProcesses ==
    /\ OneDeliveryTask
    /\ NotSpawnedYet
    /\ ApprovedHasTask

\* The control of issuance as one inductive invariant: which states of a
\* process go with which state of its holder, of its definitions and of its
\* delivery task.
ProcessInv ==
    /\ ActiveDefinitionsExist
    /\ StateFollowsHolder
    /\ OneDeliveryTask
    /\ NotSpawnedYet
    /\ ClaimedProcessStays
    /\ ApprovedHasTask

\* A process that reads DELIVERED has a record for each definition it asked
\* for (an OID4VCI redemption is about to add its own), one that reads ERRORED
\* or REJECTED has none, and no definition of a process is recorded twice: the
\* admin API's two lists agree.
RecordsMatchOutcome ==
    /\ \A r, s \in records : r.pid = s.pid /\ r.def = s.def => r = s
    /\ \A p \in DOMAIN requests :
           LET recorded == OnRecord(p)
               redeeming == \E r \in redemptions : r.pc = "inserted" /\ r.pid = p
           IN  /\ requests[p].state = "DELIVERED"
                     => recorded = requests[p].defs \/ redeeming
               /\ requests[p].state \in {"ERRORED", "REJECTED", "SUBMITTED"}
                     => recorded = {}

\* Indexes held by a delivery in progress and by a redemption in progress.
TaskIndexes(p, n) == {m.idx : m \in tasks[p][n].minted}
Redeeming == {r \in redemptions : r.pc \in {"indexed", "inserted", "releasing"}}

\* No index of the status list has two owners. The owners are the records, the
\* credentials of deliveries in progress, the redemptions in progress and the
\* free list; two credentials sharing an index could not be revoked one
\* without the other.
IndexHasOneOwner ==
    /\ \A r, s \in records : r.idx = s.idx => r = s
    /\ \A r, s \in Redeeming : r.idx = s.idx => r = s
    /\ \A r \in records, s \in Redeeming : r.idx # s.idx
    /\ \A p \in Pids : \A n \in DOMAIN tasks[p] :
          /\ \A m, k \in tasks[p][n].minted : m.idx = k.idx => m = k
          /\ \A r \in records \cup Redeeming : r.idx \notin TaskIndexes(p, n)
          /\ TaskIndexes(p, n) \cap statusList.free = {}
          /\ \A q \in Pids : \A k \in DOMAIN tasks[q] :
                <<p, n>> # <<q, k>> =>
                    TaskIndexes(p, n) \cap TaskIndexes(q, k) = {}
    /\ \A r \in records \cup Redeeming : r.idx \notin statusList.free

\* Every index handed out and not recorded is either free again or held by an
\* operation in progress: failed deliveries do not exhaust the list.
NoIndexLeaks ==
    0 .. statusList.next - 1 =
        statusList.free \cup {r.idx : r \in records \cup Redeeming}
            \cup UNION {TaskIndexes(t[1], t[2]) : t \in Spawned}

\* Every index has exactly one owner: none is shared and none is lost, however
\* deliveries and redemptions overlap and fail.
IndexesAccounted == IndexHasOneOwner /\ NoIndexLeaks

\* A bit is set exactly for the revoked records, so a credential that was
\* never revoked does not read as revoked although indexes are reused.
BitsMatchRevocations ==
    statusList.bits = {r.idx : r \in {s \in records : s.status = "revoked"}}

\* The public endpoint never answers a signed list from before a revocation.
CachedListIsCurrent ==
    statusList.cached \in {{}, {statusList.bits}}

\* A verifier reads a credential as revoked if and only if it was revoked, in
\* the list itself and in the signed copy that is served from the cache.
ListMatchesRevocations == BitsMatchRevocations /\ CachedListIsCurrent

\* The caps hold: pending processes per holder and in total, the table, the
\* registry and the catalog.
CapsHold ==
    /\ Cardinality(DOMAIN requests) <= MaxTracked
    /\ Cardinality(Pending(requests)) <= MaxPending
    /\ \A h \in Holders :
          Cardinality(PendingOf(requests, h)) <= MaxPendingPerHolder
    /\ Cardinality(Registered) <= MaxHolders
    /\ Cardinality(catalog) <= MaxDefinitions

\* No exit of a delivery task loses a permit or returns one too many.
PermitsConserved ==
    permits + Cardinality({t \in Spawned : tasks[t[1]][t[2]].pc \in WithPermit})
        = MaxInFlight

\* The limits of the Issuer Service hold at once, with a process moving from
\* one that counts as pending to one that waits for a permit and holds it.
LimitsHold == CapsHold /\ PermitsConserved

\* DELIVERED, ERRORED and REJECTED never change again; an evicted process
\* never returns.
TerminalStaysStep ==
    /\ \A p \in DOMAIN requests \cap DOMAIN requests' :
          requests[p].state \in Terminal => requests'[p] = requests[p]
    /\ \A p \in 1 .. nextPid - 1 :
          p \notin DOMAIN requests => p \notin DOMAIN requests'
TerminalStays == [][TerminalStaysStep]_vars

\* Delivery never starts for a holder that is not approved at that moment.
ClaimNeedsApprovalStep ==
    \A p \in DOMAIN requests \cap DOMAIN requests' :
        requests'[p].started /\ ~ requests[p].started =>
            holders[requests[p].holder] = "approved"
ClaimNeedsApproval == [][ClaimNeedsApprovalStep]_vars

\* Every APPROVED process is settled: delivered, errored or rejected.
ApprovedSettles ==
    \A p \in Pids :
        (p \in DOMAIN requests /\ requests[p].state = "APPROVED") ~>
            ~ (p \in DOMAIN requests /\ requests[p].state = "APPROVED")

\* The Issuer Service keeps the promises of IssuanceLifecycle: a decision takes
\* all the processes of its holder at once and none of another, a delivery that
\* started is not stopped, credentials go on record together and before
\* DELIVERED is reported, and only settled processes are forgotten.
ImplementsLifecycle == Lifecycle!Spec
=============================================================================
