---------------------------- MODULE IssuerProofs ----------------------------
(***************************************************************************)
(* Safety of the Issuer Service for every value of its constants.  First   *)
(* its processes and tasks; then what it has handed out: indexes of the    *)
(* status list, revocation bits, records of issued credentials, permits    *)
(* and places in its tables; and that it implements the issuance           *)
(* lifecycle, which the agreement of records and outcomes makes possible.  *)
(***************************************************************************)
EXTENDS Issuer, TLAPS, SequenceTheorems, FiniteSetTheorems, WellFoundedInduction

-----------------------------------------------------------------------------
(* The helpers the actions are built from. *)

\* The minimum of a nonempty set of naturals is one of its elements: the
\* oldest evictable process and the lowest freed index exist.
LEMMA LowestIsMember ==
    ASSUME NEW S \in SUBSET Nat, S # {}
    PROVE  /\ Lowest(S) \in S
           /\ \A j \in S : Lowest(S) <= j
<1>. DEFINE R == {ss \in Nat \X Nat : ss[1] < ss[2]}
<1>1. \E i \in S : \A j \in S : ~ (<<j, i>> \in R)
  <2>. HIDE DEF R
  <2>1. IsWellFoundedOn(R, Nat)
    BY NatLessThanWellFounded, Zenon DEF R, OpToRel
  <2>. QED
    BY <2>1, WFMin
<1>2. \E i \in S : \A j \in S : i <= j
  <2>1. \A i, j \in Nat : <<j, i>> \notin R => i <= j
    OBVIOUS
  <2>. QED
    BY <1>1, <2>1
<1>. QED
  BY <1>2 DEF Lowest

\* Allocation yields an index of the list and keeps the list well formed.
LEMMA AllocateType ==
    ASSUME NEW sl \in StatusLists, CanAllocate(sl)
    PROVE  /\ AllocatedIndex(sl) \in Indexes
           /\ Allocate(sl) \in StatusLists
<1>. USE StatusListBitsAssumption
<1>1. CASE sl.free # {}
  <2>1. sl.free \in SUBSET Nat
    BY DEF StatusLists, Indexes
  <2>2. AllocatedIndex(sl) \in sl.free
    BY <1>1, <2>1, LowestIsMember DEF AllocatedIndex
  <2>. QED
    BY <1>1, <2>2 DEF StatusLists, Allocate
<1>2. CASE sl.free = {}
  BY <1>2 DEF StatusLists, Indexes, Allocate, AllocatedIndex, CanAllocate
<1>. QED
  BY <1>1, <1>2

\* Releasing indexes, setting a bit and publishing keep it well formed.
LEMMA ReleaseType ==
    ASSUME NEW sl \in StatusLists, NEW I \in SUBSET Indexes
    PROVE  Release(sl, I) \in StatusLists
  BY DEF StatusLists, Release

\* Setting a bit keeps the list well typed.
LEMMA SetBitType ==
    ASSUME NEW sl \in StatusLists, NEW i \in Indexes
    PROVE  SetBit(sl, i) \in StatusLists
  BY DEF StatusLists, SetBit

\* Publishing keeps the list well typed.
LEMMA PublishType ==
    ASSUME NEW sl \in StatusLists
    PROVE  Publish(sl) \in StatusLists
  BY DEF StatusLists, Publish

\* Inserting a process into the table keeps the others, but for the one
\* evicted, which was terminal.
LEMMA InsertEffect ==
    ASSUME NEW t, NEW S \in SUBSET Nat, t \in [S -> IssuanceProcess],
           NEW p \in Nat, NEW process \in IssuanceProcess, CanInsert(t)
    PROVE  /\ Insert(t, p, process) \in [DOMAIN Insert(t, p, process) -> IssuanceProcess]
           /\ DOMAIN Insert(t, p, process) \subseteq S \cup {p}
           /\ p \in DOMAIN Insert(t, p, process)
           /\ Insert(t, p, process)[p] = process
           /\ \A q \in DOMAIN Insert(t, p, process) :
                 q # p => q \in S /\ Insert(t, p, process)[q] = t[q]
           /\ \A q \in S : t[q].state \in Active =>
                 q \in DOMAIN Insert(t, p, process)
<1>1. DOMAIN t = S
  OBVIOUS
<1>. DEFINE gone == IF Full(t) THEN {Lowest(Evictable(t))} ELSE {}
<1>2. \A q \in gone : q \in Evictable(t)
  <2>1. CASE Full(t)
    <3>1. Evictable(t) \in SUBSET Nat /\ Evictable(t) # {}
      BY <1>1, <2>1 DEF CanInsert, Evictable
    <3>. QED
      BY <3>1, LowestIsMember
  <2>. QED
    BY <2>1
<1>3. Insert(t, p, process) =
        [q \in (S \ gone) \cup {p} |-> IF q = p THEN process ELSE t[q]]
  BY <1>1 DEF Insert
<1>4. \A q \in S : t[q].state \in Active => q \notin gone
  BY <1>2, <1>1 DEF Evictable, Active, Terminal
<1>. HIDE DEF gone
<1>. QED
  BY <1>3, <1>4

\* A task's step replaces its own local state and no other.
LEMMA UpdateEffect ==
    ASSUME tasks \in [Pids -> Seq(Task)], NEW p \in Pids,
           NEW n \in DOMAIN tasks[p], NEW t \in Task, Update(p, n, t)
    PROVE  /\ tasks' \in [Pids -> Seq(Task)]
           /\ \A q \in Pids : Len(tasks'[q]) = Len(tasks[q])
           /\ tasks'[p][n] = t
           /\ \A q \in Pids : \A k \in DOMAIN tasks[q] :
                 q # p \/ k # n => tasks'[q][k] = tasks[q][k]
<1>1. n \in 1 .. Len(tasks[p]) /\ tasks[p] \in Seq(Task)
  BY LenProperties
<1>. DEFINE s == [tasks[p] EXCEPT ![n] = t]
<1>2. /\ s \in Seq(Task)
      /\ Len(s) = Len(tasks[p])
      /\ \A j \in 1 .. Len(tasks[p]) : s[j] = IF j = n THEN t ELSE tasks[p][j]
  BY <1>1, ExceptSeq
<1>3. tasks' = [tasks EXCEPT ![p] = s]
  BY DEF Update
<1>4. \A k \in DOMAIN tasks[p] : k \in 1 .. Len(tasks[p])
  BY <1>1, LenProperties
<1>. HIDE DEF s
<1>. QED
  BY <1>1, <1>2, <1>3, <1>4

\* The same for a step that only moves a task on.
LEMMA GoToEffect ==
    ASSUME tasks \in [Pids -> Seq(Task)], NEW p \in Pids,
           NEW n \in DOMAIN tasks[p], NEW pc \in TaskPc, GoTo(p, n, pc)
    PROVE  /\ [tasks[p][n] EXCEPT !.pc = pc] \in Task
           /\ Update(p, n, [tasks[p][n] EXCEPT !.pc = pc])
<1>1. tasks[p][n] \in Task
  BY ElementOfSeq, LenProperties
<1>. QED
  BY <1>1 DEF GoTo, Task

\* Spawning adds one queued task to each of the processes.
LEMMA SpawnEffect ==
    ASSUME tasks \in [Pids -> Seq(Task)], NEW P, Spawn(P)
    PROVE  /\ tasks' \in [Pids -> Seq(Task)]
           /\ \A q \in Pids : q \notin P => tasks'[q] = tasks[q]
           /\ \A q \in Pids : q \in P =>
                 /\ Len(tasks'[q]) = Len(tasks[q]) + 1
                 /\ tasks'[q][Len(tasks[q]) + 1] = NewTask
                 /\ \A k \in DOMAIN tasks[q] : tasks'[q][k] = tasks[q][k]
<1>1. NewTask \in Task
  BY DEF NewTask, Task, TaskPc
<1>2. \A q \in Pids :
        /\ tasks[q] \in Seq(Task)
        /\ DOMAIN tasks[q] = 1 .. Len(tasks[q])
        /\ Append(tasks[q], NewTask) \in Seq(Task)
        /\ Len(Append(tasks[q], NewTask)) = Len(tasks[q]) + 1
        /\ \A i \in 1 .. Len(tasks[q]) : Append(tasks[q], NewTask)[i] = tasks[q][i]
        /\ Append(tasks[q], NewTask)[Len(tasks[q]) + 1] = NewTask
  BY <1>1, AppendProperties, LenProperties
<1>. QED
  BY <1>2 DEF Spawn

-----------------------------------------------------------------------------
(* Type correctness *)

\* The table stays a table of known processes through an insertion.
LEMMA InsertType ==
    ASSUME TypeOK, nextPid <= MaxProcesses, CanInsert(requests),
           NEW process \in IssuanceProcess,
           requests' = Insert(requests, nextPid, process),
           nextPid' = nextPid + 1
    PROVE  /\ nextPid' \in 1 .. MaxProcesses + 1
           /\ DOMAIN requests' \in SUBSET (1 .. nextPid' - 1)
           /\ requests' \in [DOMAIN requests' -> IssuanceProcess]
<1>. USE IssuerAssumption
<1>1. DOMAIN requests \in SUBSET Nat /\ nextPid \in Nat
  BY DEF TypeOK
<1>2. /\ requests' \in [DOMAIN requests' -> IssuanceProcess]
      /\ DOMAIN requests' \subseteq DOMAIN requests \cup {nextPid}
  <2>1. requests \in [DOMAIN requests -> IssuanceProcess]
    BY DEF TypeOK
  <2>. QED
    BY <1>1, <2>1, InsertEffect
<1>. QED
  BY <1>2, SMTT(30) DEF TypeOK

\* Local state of a task after each kind of step.
LEMMA TaskTypes ==
    ASSUME TypeOK, NEW p \in Pids, NEW n \in DOMAIN tasks[p]
    PROVE  /\ tasks[p][n] \in Task
           /\ \A pc \in TaskPc : [NewTask EXCEPT !.pc = pc] \in Task
           /\ {m.idx : m \in tasks[p][n].minted} \in SUBSET Indexes
<1>1. tasks[p][n] \in Task
  BY ElementOfSeq, LenProperties DEF TypeOK
<1>2. \A pc \in TaskPc : [NewTask EXCEPT !.pc = pc] \in Task
  BY DEF NewTask, Task
<1>. QED
  BY <1>1, <1>2 DEF Task, Minted

\* A redemption that moves on leaves the others alone.
LEMMA ReplaceType ==
    ASSUME TypeOK, NEW r \in redemptions, NEW s \in Redemption, Replace(r, s),
           s.pc = "inserted" => s.pid \in Pids
    PROVE  /\ redemptions' \in SUBSET Redemption
           /\ \A u \in redemptions' : u.pc = "inserted" => u.pid \in Pids
  BY DEF TypeOK, Replace

\* Every reachable state of the Issuer Service has its type: the tables hold
\* what the Rust types say, status-list indexes stay below STATUS_LIST_BITS
\* and the semaphore never goes below zero.
THEOREM TypeCorrect == Spec => []TypeOK
<1>. USE IssuerAssumption, StatusListBitsAssumption
<1>1. Init => TypeOK
  <2>. HAVE Init
  <2>1. tasks \in [Pids -> Seq(Task)]
    BY EmptySeq DEF Init
  <2>. QED
    BY <2>1 DEF Init, TypeOK, EmptyStatusList, StatusLists
<1>2. TypeOK /\ [Next]_vars => TypeOK'
  <2>. SUFFICES ASSUME TypeOK, [Next]_vars
                PROVE  TypeOK'
    OBVIOUS
  <2>1. ASSUME NEW d \in Definitions, CreateDefinition(d)
        PROVE  TypeOK'
    BY <2>1 DEF TypeOK, CreateDefinition
  <2>2. ASSUME NEW d \in Definitions, DeleteDefinition(d)
        PROVE  TypeOK'
    BY <2>2 DEF TypeOK, DeleteDefinition
  <2>3. ASSUME NEW h \in Holders, RegisterHolder(h)
        PROVE  TypeOK'
    BY <2>3 DEF TypeOK, RegisterHolder, HolderStatus
  <2>4. ASSUME NEW h \in Holders, ApproveHolder(h)
        PROVE  TypeOK'
    <3>1. tasks' \in [Pids -> Seq(Task)]
      BY <2>4, SpawnEffect DEF TypeOK, ApproveHolder
    <3>2. /\ DOMAIN requests' = DOMAIN requests
          /\ requests' \in [DOMAIN requests -> IssuanceProcess]
      BY <2>4 DEF TypeOK, ApproveHolder, DecideHolder, IssuanceProcess, Active
    <3>. QED
      BY <2>4, <3>1, <3>2 DEF TypeOK, ApproveHolder, DecideHolder, HolderStatus
  <2>5. ASSUME NEW h \in Holders, RejectHolder(h)
        PROVE  TypeOK'
    <3>1. /\ DOMAIN requests' = DOMAIN requests
          /\ requests' \in [DOMAIN requests -> IssuanceProcess]
      BY <2>5 DEF TypeOK, RejectHolder, DecideHolder, IssuanceProcess, Terminal
    <3>. QED
      BY <2>5, <3>1 DEF TypeOK, RejectHolder, DecideHolder, HolderStatus
  <2>6. ASSUME NEW r \in records, RevokeCredential(r)
        PROVE  TypeOK'
    <3>1. statusList' \in StatusLists
      BY <2>6, SetBitType DEF TypeOK, RevokeCredential, IssuedCredential
    <3>. QED
      BY <2>6, <3>1 DEF TypeOK, RevokeCredential, IssuedCredential
  <2>7. ASSUME NEW h \in Holders, NEW ds \in SUBSET Definitions,
               CredentialRequestAccepted(h, ds)
        PROVE  TypeOK'
    <3>1. PICK state \in {"SUBMITTED", "APPROVED"} :
            /\ requests' = Insert(requests, nextPid,
                                  [state |-> state, holder |-> h, defs |-> ds,
                                   started |-> FALSE])
            /\ Spawn(IF state = "APPROVED" THEN {nextPid} ELSE {})
      BY <2>7 DEF CredentialRequestAccepted
    <3>2. [state |-> state, holder |-> h, defs |-> ds, started |-> FALSE]
             \in IssuanceProcess
      BY DEF IssuanceProcess, Active
    <3>3. /\ nextPid' \in 1 .. MaxProcesses + 1
          /\ DOMAIN requests' \in SUBSET (1 .. nextPid' - 1)
          /\ requests' \in [DOMAIN requests' -> IssuanceProcess]
      BY <2>7, <3>1, <3>2, InsertType
         DEF CredentialRequestAccepted, Admissible
    <3>4. tasks' \in [Pids -> Seq(Task)]
      BY <3>1, SpawnEffect DEF TypeOK
    <3>5. holders' \in [Holders -> HolderStatus \cup {"absent"}]
      BY <2>7 DEF TypeOK, CredentialRequestAccepted, StatusOnContact, HolderStatus
    <3>. QED
      BY <2>7, <3>3, <3>4, <3>5 DEF TypeOK, CredentialRequestAccepted
  <2>8. ASSUME NEW h \in Holders, NEW ds \in SUBSET Definitions,
               CredentialRequestRefused(h, ds)
        PROVE  TypeOK'
    BY <2>8 DEF TypeOK, CredentialRequestRefused, StatusOnContact, HolderStatus
  <2>9. ASSUME NEW p \in Pids, NEW n \in DOMAIN tasks[p],
               AcquirePermit(p, n) \/ Deliver(p, n)
        PROVE  TypeOK'
    <3>. DEFINE Moves == \E pc \in TaskPc : GoTo(p, n, pc)
    <3>1. ASSUME Moves
          PROVE  tasks' \in [Pids -> Seq(Task)]
      BY <3>1, GoToEffect, UpdateEffect DEF TypeOK
    <3>2. ASSUME \E pc \in TaskPc : Update(p, n, [NewTask EXCEPT !.pc = pc])
          PROVE  tasks' \in [Pids -> Seq(Task)]
      BY <3>2, TaskTypes, UpdateEffect DEF TypeOK
    <3>3. ASSUME Exit(p, n)
          PROVE  tasks' \in [Pids -> Seq(Task)]
      BY <3>2, <3>3 DEF Exit, TaskPc
    <3>4. CASE AcquirePermit(p, n)
      <4>1. permits' \in Nat
        BY <3>4, SMTT(30) DEF TypeOK, AcquirePermit
      <4>2. tasks' \in [Pids -> Seq(Task)]
        BY <3>1, <3>4 DEF AcquirePermit, TaskPc
      <4>. QED
        BY <3>4, <4>1, <4>2 DEF TypeOK, AcquirePermit
    <3>5. CASE ClaimProcess(p, n)
      <4>1. p \in DOMAIN requests /\ requests[p] \in IssuanceProcess
        BY <3>5 DEF ClaimProcess, Claimable, TypeOK
      <4>2. [pc |-> "claimed", todo |-> requests[p].defs, minted |-> {}] \in Task
        BY <4>1 DEF Task, TaskPc, IssuanceProcess
      <4>3. tasks' \in [Pids -> Seq(Task)]
        BY <3>5, <4>2, UpdateEffect DEF TypeOK, ClaimProcess
      <4>4. /\ DOMAIN requests' = DOMAIN requests
            /\ requests' \in [DOMAIN requests -> IssuanceProcess]
        BY <3>5, <4>1 DEF TypeOK, ClaimProcess, IssuanceProcess
      <4>. QED
        BY <3>5, <4>3, <4>4 DEF TypeOK, ClaimProcess
    <3>6. CASE AbandonProcess(p, n)
      <4>1. permits' \in Nat
        BY <3>6 DEF TypeOK, AbandonProcess
      <4>2. tasks' \in [Pids -> Seq(Task)]
        BY <3>3, <3>6 DEF AbandonProcess
      <4>. QED
        BY <3>6, <4>1, <4>2 DEF TypeOK, AbandonProcess
    <3>7. CASE LookUpDefinitions(p, n)
      BY <3>1, <3>7 DEF TypeOK, LookUpDefinitions, TaskPc
    <3>8. CASE ResolveHolder(p, n)
      BY <3>1, <3>8 DEF TypeOK, ResolveHolder, TaskPc
    <3>9. CASE AllocateIndex(p, n)
      <4>1. /\ AllocatedIndex(statusList) \in Indexes
            /\ Allocate(statusList) \in StatusLists
        BY <3>9, AllocateType DEF TypeOK, AllocateIndex
      <4>2. PICK d \in tasks[p][n].todo :
              Update(p, n, [tasks[p][n] EXCEPT
                              !.todo = @ \ {d},
                              !.minted = @ \cup
                                  {[def |-> d, idx |-> AllocatedIndex(statusList)]}])
        BY <3>9 DEF AllocateIndex
      <4>3. [tasks[p][n] EXCEPT
               !.todo = @ \ {d},
               !.minted = @ \cup {[def |-> d, idx |-> AllocatedIndex(statusList)]}]
              \in Task
        <5>1. [def |-> d, idx |-> AllocatedIndex(statusList)] \in Minted
          BY <4>1, TaskTypes DEF Task, Minted
        <5>. QED
          BY <5>1, TaskTypes DEF Task
      <4>4. tasks' \in [Pids -> Seq(Task)]
        BY <4>2, <4>3, UpdateEffect DEF TypeOK
      <4>. QED
        BY <3>9, <4>1, <4>4 DEF TypeOK, AllocateIndex
    <3>10. CASE AllocationFails(p, n)
      BY <3>1, <3>10 DEF TypeOK, AllocationFails, TaskPc
    <3>11. CASE PostCredentials(p, n)
      BY <3>1, <3>11 DEF TypeOK, PostCredentials, TaskPc
    <3>12. CASE RecordIssued(p, n)
      <4>1. tasks[p][n].minted \in SUBSET Minted
        BY TaskTypes DEF Task
      <4>2. records' \in SUBSET IssuedCredential
        BY <3>12, <4>1
           DEF TypeOK, RecordIssued, RecordsOf, Minted, IssuedCredential
      <4>. QED
        BY <3>2, <3>12, <4>2 DEF TypeOK, RecordIssued, TaskPc
    <3>13. CASE ReleaseIndexes(p, n)
      <4>1. statusList' \in StatusLists
        BY <3>13, TaskTypes, ReleaseType DEF TypeOK, ReleaseIndexes
      <4>. QED
        BY <3>2, <3>13, <4>1 DEF TypeOK, ReleaseIndexes, TaskPc
    <3>14. CASE FinishDelivery(p, n)
      <4>1. /\ DOMAIN requests' = DOMAIN requests
            /\ requests' \in [DOMAIN requests -> IssuanceProcess]
        <5>1. \A pc : Outcome(pc) \in Terminal
          BY DEF Outcome, Terminal
        <5>2. \A pc : p \in DOMAIN requests =>
                 [requests[p] EXCEPT !.state = Outcome(pc)] \in IssuanceProcess
          BY <5>1 DEF TypeOK, IssuanceProcess
        <5>3. PICK pc \in {"delivered", "errored"} :
                 requests' = IF p \in DOMAIN requests
                             THEN [requests EXCEPT ![p].state = Outcome(pc)]
                             ELSE requests
          BY <3>14 DEF FinishDelivery
        <5>. QED
          BY <5>2, <5>3 DEF TypeOK
      <4>2. permits' \in Nat
        BY <3>14, SMTT(30) DEF TypeOK, FinishDelivery
      <4>3. tasks' \in [Pids -> Seq(Task)]
        BY <3>3, <3>14 DEF FinishDelivery
      <4>. QED
        BY <3>14, <4>1, <4>2, <4>3 DEF TypeOK, FinishDelivery
    <3>. QED
      BY <2>9, <3>4, <3>5, <3>6, <3>7, <3>8, <3>9, <3>10, <3>11, <3>12, <3>13,
         <3>14 DEF Deliver
  <2>10. CASE ServeStatusList
    <3>1. statusList' \in StatusLists
      BY <2>10, PublishType DEF TypeOK, ServeStatusList
    <3>. QED
      BY <2>10, <3>1 DEF TypeOK, ServeStatusList
  <2>11. ASSUME NEW id \in Redemptions, NEW h \in Holders, NEW d \in Definitions,
                RedeemStart(id, h, d)
         PROVE  TypeOK'
    BY <2>11 DEF TypeOK, RedeemStart, Redemption, Indexes
  <2>12. ASSUME NEW r \in redemptions, RedeemHolder(r)
         PROVE  TypeOK'
    <3>1. [r EXCEPT !.pc = "allowed"] \in Redemption
      BY DEF TypeOK, Redemption
    <3>2. /\ redemptions' \in SUBSET Redemption
          /\ \A u \in redemptions' : u.pc = "inserted" => u.pid \in Pids
      BY <2>12, <3>1, ReplaceType DEF TypeOK, RedeemHolder, Redemption
    <3>. QED
      BY <2>12, <3>2 DEF TypeOK, RedeemHolder, StatusOnContact, HolderStatus
  <2>13. ASSUME NEW r \in redemptions, RedeemAllocate(r)
         PROVE  TypeOK'
    <3>1. CASE CanAllocate(statusList)
      <4>1. /\ AllocatedIndex(statusList) \in Indexes
            /\ Allocate(statusList) \in StatusLists
        BY <3>1, AllocateType DEF TypeOK
      <4>2. [r EXCEPT !.pc = "indexed", !.idx = AllocatedIndex(statusList)]
              \in Redemption
        BY <4>1 DEF TypeOK, Redemption
      <4>3. /\ redemptions' \in SUBSET Redemption
            /\ \A u \in redemptions' : u.pc = "inserted" => u.pid \in Pids
        BY <2>13, <3>1, <4>2, ReplaceType DEF RedeemAllocate, TypeOK, Redemption
      <4>. QED
        BY <2>13, <3>1, <4>1, <4>3 DEF TypeOK, RedeemAllocate
    <3>2. CASE ~ CanAllocate(statusList)
      BY <2>13, <3>2 DEF TypeOK, RedeemAllocate
    <3>. QED
      BY <3>1, <3>2
  <2>14. ASSUME NEW r \in redemptions, RedeemInsert(r)
         PROVE  TypeOK'
    <3>. r \in Redemption
      BY DEF TypeOK
    <3>1. CASE CanInsert(requests)
      <4>1. [state |-> "DELIVERED", holder |-> r.holder, defs |-> {r.def},
             started |-> TRUE] \in IssuanceProcess
        BY DEF IssuanceProcess, Redemption, Terminal
      <4>2. /\ nextPid' \in 1 .. MaxProcesses + 1
            /\ DOMAIN requests' \in SUBSET (1 .. nextPid' - 1)
            /\ requests' \in [DOMAIN requests' -> IssuanceProcess]
        BY <2>14, <3>1, <4>1, InsertType DEF RedeemInsert
      <4>3. nextPid \in Pids
        BY <2>14, <3>1 DEF TypeOK, RedeemInsert, Pids
      <4>4. [r EXCEPT !.pc = "inserted", !.pid = nextPid] \in Redemption
        BY <4>3 DEF Redemption
      <4>5. /\ redemptions' \in SUBSET Redemption
            /\ \A u \in redemptions' : u.pc = "inserted" => u.pid \in Pids
        BY <2>14, <3>1, <4>3, <4>4, ReplaceType DEF RedeemInsert, Redemption
      <4>. QED
        BY <2>14, <4>2, <4>5 DEF TypeOK, RedeemInsert
    <3>2. CASE ~ CanInsert(requests)
      <4>1. [r EXCEPT !.pc = "releasing"] \in Redemption
        BY DEF Redemption
      <4>2. /\ redemptions' \in SUBSET Redemption
            /\ \A u \in redemptions' : u.pc = "inserted" => u.pid \in Pids
        BY <2>14, <3>2, <4>1, ReplaceType DEF RedeemInsert, Redemption
      <4>. QED
        BY <2>14, <3>2, <4>2 DEF TypeOK, RedeemInsert
    <3>. QED
      BY <3>1, <3>2
  <2>15. ASSUME NEW r \in redemptions, RedeemRelease(r)
         PROVE  TypeOK'
    <3>1. statusList' \in StatusLists
      BY <2>15, ReleaseType DEF TypeOK, RedeemRelease, Redemption
    <3>. QED
      BY <2>15, <3>1 DEF TypeOK, RedeemRelease
  <2>16. ASSUME NEW r \in redemptions, RedeemRecord(r)
         PROVE  TypeOK'
    BY <2>16, SMTT(30) DEF TypeOK, RedeemRecord, Redemption, IssuedCredential
  <2>17. CASE UNCHANGED vars
    BY <2>17 DEF TypeOK, vars
  <2>. QED
    BY <2>1, <2>2, <2>3, <2>4, <2>5, <2>6, <2>7, <2>8, <2>9, <2>10, <2>11,
       <2>12, <2>13, <2>14, <2>15, <2>16, <2>17
       DEF Next, Admin, Request, Delivery, Redeem
<1>. QED
  BY <1>1, <1>2, PTL DEF Spec

-----------------------------------------------------------------------------
(* The control of issuance *)

\* There are no processes at first.
LEMMA ProcessInvInit == Init => ProcessInv
  BY EmptySeq DEF Init, ProcessInv, ActiveDefinitionsExist, StateFollowsHolder,
     OneDeliveryTask, NotSpawnedYet, ClaimedProcessStays, ApprovedHasTask

\* What TypeOK says about one process and one task.
LEMMA Shapes ==
    ASSUME TypeOK
    PROVE  /\ \A p \in DOMAIN requests :
                 /\ p \in Pids
                 /\ p < nextPid
                 /\ requests[p] \in IssuanceProcess
                 /\ requests[p].holder \in Holders
           /\ \A p \in Pids :
                 /\ Len(tasks[p]) \in Nat
                 /\ DOMAIN tasks[p] = 1 .. Len(tasks[p])
                 /\ \A n \in DOMAIN tasks[p] : tasks[p][n] \in Task
<1>. USE IssuerAssumption
<1>1. \A p \in DOMAIN requests :
         /\ p \in Pids
         /\ p < nextPid
         /\ requests[p] \in IssuanceProcess
         /\ requests[p].holder \in Holders
  BY DEF TypeOK, Pids, IssuanceProcess
<1>2. \A p \in Pids :
         /\ Len(tasks[p]) \in Nat
         /\ DOMAIN tasks[p] = 1 .. Len(tasks[p])
         /\ \A n \in DOMAIN tasks[p] : tasks[p][n] \in Task
  BY LenProperties, ElementOfSeq DEF TypeOK
<1>. QED
  BY <1>1, <1>2

\* A step that gives a caller the record its first contact creates, or
\* changes no holder, keeps every process in step with its holder.
LEMMA ContactKeepsHolders ==
    ASSUME TypeOK, StateFollowsHolder, NEW h \in Holders,
           StatusOnContact(h) # "rejected",
           holders' = [holders EXCEPT ![h] = StatusOnContact(h)]
    PROVE  \A p \in DOMAIN requests :
              /\ requests[p].state = "SUBMITTED" =>
                    holders'[requests[p].holder] = "pending"
              /\ requests[p].state = "APPROVED" /\ ~ requests[p].started =>
                    holders'[requests[p].holder] = "approved"
<1>1. \A p \in DOMAIN requests : requests[p].holder \in Holders
  BY Shapes
<1>2. holders \in [Holders -> HolderStatus \cup {"absent"}]
  BY DEF TypeOK
<1>. QED
  BY <1>1, <1>2 DEF StateFollowsHolder, StatusOnContact

\* Steps that touch neither the tables nor the tasks.
LEMMA ProcessInvFrame ==
    ASSUME TypeOK, ProcessInv,
           UNCHANGED <<catalog, holders, requests, nextPid, tasks>>
    PROVE  ProcessInv'
  BY DEF ProcessInv, ActiveDefinitionsExist, StateFollowsHolder,
     OneDeliveryTask, NotSpawnedYet, ClaimedProcessStays, ApprovedHasTask

\* Steps of the catalog and of the registry alone.
LEMMA ProcessInvTables ==
    ASSUME TypeOK, ProcessInv, UNCHANGED <<requests, nextPid, tasks>>,
           ActiveDefinitionsExist', StateFollowsHolder'
    PROVE  ProcessInv'
  BY DEF ProcessInv, OneDeliveryTask, NotSpawnedYet, ClaimedProcessStays,
     ApprovedHasTask

\* A rejection: nothing waits any more, nothing unclaimed is left to deliver.
LEMMA RejectKeepsInv ==
    ASSUME TypeOK, ProcessInv, NEW h \in Holders, RejectHolder(h)
    PROVE  ProcessInv'
<1>. USE DEF ProcessInv
<1>1. /\ DOMAIN requests' = DOMAIN requests
      /\ \A p \in DOMAIN requests :
            requests'[p] = IF p \in Moved(h, "REJECTED")
                           THEN [requests[p] EXCEPT !.state = "REJECTED"]
                           ELSE requests[p]
      /\ UNCHANGED <<catalog, nextPid, tasks>>
      /\ holders' = [holders EXCEPT ![h] = "rejected"]
  BY DEF RejectHolder, DecideHolder
<1>2. \A p \in DOMAIN requests :
         /\ requests'[p].defs = requests[p].defs
         /\ requests'[p].holder = requests[p].holder
         /\ requests'[p].started = requests[p].started
         /\ requests'[p].state = IF p \in Moved(h, "REJECTED")
                                 THEN "REJECTED" ELSE requests[p].state
  BY <1>1, Shapes DEF IssuanceProcess
<1>3. ActiveDefinitionsExist'
  BY <1>1, <1>2 DEF ActiveDefinitionsExist, Active
<1>4. StateFollowsHolder'
  <2>1. holders \in [Holders -> HolderStatus \cup {"absent"}]
    BY DEF TypeOK
  <2>. QED
    BY <1>1, <1>2, <2>1, Shapes DEF StateFollowsHolder, Moved
<1>5. OneDeliveryTask' /\ NotSpawnedYet'
  BY <1>1, <1>2 DEF OneDeliveryTask, NotSpawnedYet
<1>6. ClaimedProcessStays'
  BY <1>1, <1>2 DEF ClaimedProcessStays, Moved
<1>7. ApprovedHasTask'
  BY <1>1, <1>2 DEF ApprovedHasTask
<1>. QED
  BY <1>3, <1>4, <1>5, <1>6, <1>7

\* An approval: each process that waited gets its one delivery task.
LEMMA ApproveKeepsInv ==
    ASSUME TypeOK, ProcessInv, NEW h \in Holders, ApproveHolder(h)
    PROVE  ProcessInv'
<1>. USE DEF ProcessInv
<1>. DEFINE M == Moved(h, "APPROVED")
<1>1. /\ DOMAIN requests' = DOMAIN requests
      /\ \A p \in DOMAIN requests :
            requests'[p] = IF p \in M
                           THEN [requests[p] EXCEPT !.state = "APPROVED"]
                           ELSE requests[p]
      /\ UNCHANGED <<catalog, nextPid>>
      /\ holders' = [holders EXCEPT ![h] = "approved"]
      /\ Spawn(M)
  BY DEF ApproveHolder, DecideHolder
<1>2. \A p \in DOMAIN requests :
         /\ requests'[p].defs = requests[p].defs
         /\ requests'[p].holder = requests[p].holder
         /\ requests'[p].started = requests[p].started
         /\ requests'[p].state = IF p \in M THEN "APPROVED" ELSE requests[p].state
  BY <1>1, Shapes DEF IssuanceProcess
<1>3. M = {p \in DOMAIN requests : /\ requests[p].holder = h
                                   /\ requests[p].state = "SUBMITTED"}
  BY DEF Moved
<1>. HIDE DEF M
<1>4. /\ \A q \in Pids : q \notin M => tasks'[q] = tasks[q]
      /\ \A q \in M :
            /\ Len(tasks[q]) = 0
            /\ Len(tasks'[q]) = 1
            /\ tasks'[q][1] = NewTask
            /\ DOMAIN tasks'[q] = {1}
  <2>1. tasks \in [Pids -> Seq(Task)] /\ M \subseteq Pids
    BY <1>3, Shapes DEF TypeOK
  <2>2. \A q \in M : Len(tasks[q]) = 0
    BY <1>3 DEF NotSpawnedYet
  <2>3. /\ tasks' \in [Pids -> Seq(Task)]
        /\ \A q \in Pids : q \notin M => tasks'[q] = tasks[q]
        /\ \A q \in M : Len(tasks'[q]) = 1 /\ tasks'[q][1] = NewTask
    <3>1. /\ tasks' \in [Pids -> Seq(Task)]
          /\ \A q \in Pids : q \notin M => tasks'[q] = tasks[q]
          /\ \A q \in Pids : q \in M =>
                /\ Len(tasks'[q]) = Len(tasks[q]) + 1
                /\ tasks'[q][Len(tasks[q]) + 1] = NewTask
      BY <1>1, <2>1, SpawnEffect
    <3>2. \A q \in M : Len(tasks[q]) + 1 = 1
      BY <2>2
    <3>. QED
      BY <2>1, <3>1, <3>2
  <2>4. \A q \in M : DOMAIN tasks'[q] = 1 .. Len(tasks'[q])
    BY <2>1, <2>3, LenProperties
  <2>. QED
    BY <2>2, <2>3, <2>4
<1>5. ActiveDefinitionsExist'
  BY <1>1, <1>2, <1>3 DEF ActiveDefinitionsExist, Active
<1>6. StateFollowsHolder'
  <2>1. holders \in [Holders -> HolderStatus \cup {"absent"}]
    BY DEF TypeOK
  <2>. QED
    BY <1>1, <1>2, <1>3, <2>1, Shapes DEF StateFollowsHolder
<1>7. OneDeliveryTask'
  <2>1. \A q \in Pids : Len(tasks'[q]) <= 1
    <3>1. ASSUME NEW q \in Pids, q \in M
          PROVE  Len(tasks'[q]) <= 1
      <4>1. Len(tasks'[q]) = 1
        BY <1>4, <3>1
      <4>. QED
        BY <4>1
    <3>2. ASSUME NEW q \in Pids, q \notin M
          PROVE  Len(tasks'[q]) <= 1
      BY <1>4, <3>2 DEF OneDeliveryTask
    <3>. QED
      BY <3>1, <3>2
  <2>. QED
    BY <2>1 DEF OneDeliveryTask
<1>8. NotSpawnedYet'
  <2>1. \A p \in Pids : p >= nextPid => p \notin M
    BY <1>3, Shapes DEF TypeOK
  <2>2. \A p \in DOMAIN requests : p \in Pids
    BY Shapes
  <2>. QED
    BY <1>1, <1>2, <1>4, <2>1, <2>2 DEF NotSpawnedYet
<1>9. ClaimedProcessStays'
  <2>1. NewTask.pc \notin Claimed
    BY DEF NewTask, Claimed, WithPermit, TaskPc
  <2>2. SUFFICES ASSUME NEW p \in Pids, NEW n \in DOMAIN tasks'[p],
                        tasks'[p][n].pc \in Claimed
                 PROVE  /\ p \in DOMAIN requests'
                        /\ requests'[p].state = "APPROVED"
                        /\ requests'[p].started
                        /\ tasks'[p][n].todo \subseteq requests'[p].defs
    BY DEF ClaimedProcessStays
  <2>3. p \notin M
    BY <1>4, <2>1, <2>2
  <2>. QED
    BY <1>1, <1>2, <1>4, <2>2, <2>3 DEF ClaimedProcessStays
<1>10. ApprovedHasTask'
  <2>1. SUFFICES ASSUME NEW p \in DOMAIN requests, requests'[p].state = "APPROVED"
                 PROVE  \E n \in DOMAIN tasks'[p] :
                           tasks'[p][n].pc \in IF requests'[p].started
                               THEN Claimed ELSE {"queued", "permitted"}
    BY <1>1 DEF ApprovedHasTask
  <2>2. CASE p \in M
    BY <1>2, <1>3, <1>4, <2>2 DEF NotSpawnedYet, NewTask
  <2>3. CASE p \notin M
    BY <1>2, <1>4, <2>1, <2>3, Shapes DEF ApprovedHasTask
  <2>. QED
    BY <2>2, <2>3
<1>. QED
  BY <1>5, <1>6, <1>7, <1>8, <1>9, <1>10

\* A new process, and the task it gets if its holder is already approved.
LEMMA InsertKeepsInv ==
    ASSUME TypeOK, ProcessInv, nextPid <= MaxProcesses, CanInsert(requests),
           NEW process \in IssuanceProcess, NEW P,
           requests' = Insert(requests, nextPid, process),
           nextPid' = nextPid + 1,
           UNCHANGED catalog,
           Spawn(P),
           P = IF process.state = "APPROVED" THEN {nextPid} ELSE {},
           process.state \in Active => /\ process.defs \subseteq catalog
                                       /\ ~ process.started,
           \A p \in DOMAIN requests :
              /\ requests[p].state = "SUBMITTED" =>
                    holders'[requests[p].holder] = "pending"
              /\ requests[p].state = "APPROVED" /\ ~ requests[p].started =>
                    holders'[requests[p].holder] = "approved",
           process.state = "SUBMITTED" => holders'[process.holder] = "pending",
           process.state = "APPROVED" => holders'[process.holder] = "approved"
    PROVE  ProcessInv'
<1>. USE DEF ProcessInv
<1>1. /\ nextPid \in Pids
      /\ nextPid \notin DOMAIN requests
      /\ Len(tasks[nextPid]) = 0
      /\ nextPid \in Nat
      /\ DOMAIN requests \in SUBSET Nat
      /\ tasks \in [Pids -> Seq(Task)]
  <2>. USE IssuerAssumption
  <2>1. nextPid \in Pids /\ nextPid \in Nat
    BY DEF TypeOK, Pids
  <2>2. nextPid \notin DOMAIN requests /\ DOMAIN requests \in SUBSET Nat
    BY DEF TypeOK
  <2>. QED
    BY <2>1, <2>2 DEF TypeOK, NotSpawnedYet
<1>2. /\ nextPid \in DOMAIN requests'
      /\ requests'[nextPid] = process
      /\ \A q \in DOMAIN requests' : q # nextPid =>
            q \in DOMAIN requests /\ requests'[q] = requests[q]
      /\ \A q \in DOMAIN requests : requests[q].state \in Active =>
            q \in DOMAIN requests'
  BY <1>1, InsertEffect DEF TypeOK
<1>3. /\ \A q \in Pids : q # nextPid => tasks'[q] = tasks[q]
      /\ process.state # "APPROVED" => tasks'[nextPid] = tasks[nextPid]
      /\ process.state = "APPROVED" =>
            /\ Len(tasks'[nextPid]) = 1
            /\ tasks'[nextPid][1] = NewTask
            /\ DOMAIN tasks'[nextPid] = {1}
  <2>1. /\ tasks' \in [Pids -> Seq(Task)]
        /\ \A q \in Pids : q \notin P => tasks'[q] = tasks[q]
        /\ \A q \in Pids : q \in P =>
              /\ Len(tasks'[q]) = Len(tasks[q]) + 1
              /\ tasks'[q][Len(tasks[q]) + 1] = NewTask
    BY <1>1, SpawnEffect, ZenonT(30)
  <2>2. ASSUME process.state = "APPROVED"
        PROVE  /\ Len(tasks'[nextPid]) = 1
               /\ tasks'[nextPid][1] = NewTask
    <3>1. Len(tasks[nextPid]) + 1 = 1
      BY <1>1
    <3>2. nextPid \in P
      BY <2>2
    <3>. QED
      BY <1>1, <2>1, <3>1, <3>2
  <2>3. DOMAIN tasks'[nextPid] = 1 .. Len(tasks'[nextPid])
    BY <1>1, <2>1, LenProperties
  <2>. QED
    BY <1>1, <2>1, <2>2, <2>3
<1>4. ActiveDefinitionsExist'
  BY <1>2 DEF ActiveDefinitionsExist
<1>5. StateFollowsHolder'
  BY <1>2 DEF StateFollowsHolder
<1>6. OneDeliveryTask'
  <2>1. Len(tasks'[nextPid]) <= 1
    <3>1. CASE process.state = "APPROVED"
      <4>1. Len(tasks'[nextPid]) = 1
        BY <1>3, <3>1
      <4>. QED
        BY <4>1
    <3>2. CASE process.state # "APPROVED"
      BY <1>1, <1>3, <3>2
    <3>. QED
      BY <3>1, <3>2
  <2>. QED
    BY <1>3, <2>1 DEF OneDeliveryTask
<1>7. NotSpawnedYet'
  <2>1. ASSUME NEW p \in Pids, p >= nextPid'
        PROVE  Len(tasks'[p]) = 0
    <3>1. p >= nextPid /\ p # nextPid
      BY <2>1, <1>1 DEF Pids
    <3>. QED
      BY <1>3, <3>1 DEF NotSpawnedYet
  <2>2. ASSUME NEW p \in DOMAIN requests', requests'[p].state = "SUBMITTED"
        PROVE  Len(tasks'[p]) = 0 /\ ~ requests'[p].started
    <3>1. CASE p = nextPid
      BY <1>1, <1>2, <1>3, <2>2, <3>1 DEF Active
    <3>2. CASE p # nextPid
      BY <1>2, <1>3, <2>2, <3>2, Shapes DEF NotSpawnedYet
    <3>. QED
      BY <3>1, <3>2
  <2>. QED
    BY <2>1, <2>2 DEF NotSpawnedYet
<1>8. ClaimedProcessStays'
  <2>1. SUFFICES ASSUME NEW p \in Pids, NEW n \in DOMAIN tasks'[p],
                        tasks'[p][n].pc \in Claimed
                 PROVE  /\ p \in DOMAIN requests'
                        /\ requests'[p].state = "APPROVED"
                        /\ requests'[p].started
                        /\ tasks'[p][n].todo \subseteq requests'[p].defs
    BY DEF ClaimedProcessStays
  <2>2. p # nextPid
    <3>1. NewTask.pc \notin Claimed
      BY DEF NewTask, Claimed, WithPermit, TaskPc
    <3>2. DOMAIN tasks[nextPid] = {}
      BY <1>1, Shapes
    <3>. QED
      BY <1>3, <2>1, <3>1, <3>2
  <2>3. /\ p \in DOMAIN requests
        /\ requests[p].state = "APPROVED"
        /\ requests[p].started
        /\ tasks'[p][n].todo \subseteq requests[p].defs
    BY <1>3, <2>1, <2>2 DEF ClaimedProcessStays
  <2>. QED
    BY <1>2, <2>2, <2>3 DEF Active
<1>9. ApprovedHasTask'
  <2>1. SUFFICES ASSUME NEW p \in DOMAIN requests', requests'[p].state = "APPROVED"
                 PROVE  \E n \in DOMAIN tasks'[p] :
                           tasks'[p][n].pc \in IF requests'[p].started
                               THEN Claimed ELSE {"queued", "permitted"}
    BY DEF ApprovedHasTask
  <2>2. CASE p = nextPid
    BY <1>2, <1>3, <2>1, <2>2 DEF NewTask, Active
  <2>3. CASE p # nextPid
    BY <1>2, <1>3, <2>1, <2>3, Shapes DEF ApprovedHasTask
  <2>. QED
    BY <2>2, <2>3
<1>. QED
  BY <1>4, <1>5, <1>6, <1>7, <1>8, <1>9

\* A step of a delivery task, given what it does to its own process.
LEMMA TaskKeepsInv ==
    ASSUME TypeOK, ProcessInv, NEW p \in Pids, NEW n \in DOMAIN tasks[p],
           NEW t \in Task, Update(p, n, t),
           UNCHANGED <<catalog, holders, nextPid>>,
           DOMAIN requests' = DOMAIN requests,
           \A q \in DOMAIN requests : q # p => requests'[q] = requests[q],
           p \in DOMAIN requests =>
              /\ requests'[p].holder = requests[p].holder
              /\ requests'[p].defs = requests[p].defs
              /\ requests'[p].state \in Active =>
                    requests'[p].state = requests[p].state
              /\ requests[p].started => requests'[p].started
              /\ requests'[p].state = "APPROVED" =>
                    t.pc \in IF requests'[p].started
                             THEN Claimed ELSE {"queued", "permitted"},
           t.pc \in Claimed => /\ p \in DOMAIN requests
                               /\ requests'[p].state = "APPROVED"
                               /\ requests'[p].started
                               /\ t.todo \subseteq requests'[p].defs
    PROVE  ProcessInv'
<1>. USE DEF ProcessInv
<1>1. /\ \A q \in Pids : Len(tasks'[q]) = Len(tasks[q])
      /\ tasks' \in [Pids -> Seq(Task)]
      /\ tasks'[p][n] = t
      /\ \A q \in Pids : \A k \in DOMAIN tasks[q] :
            q # p \/ k # n => tasks'[q][k] = tasks[q][k]
  BY UpdateEffect DEF TypeOK
<1>2. \A q \in Pids : DOMAIN tasks'[q] = DOMAIN tasks[q]
  <2>1. \A q \in Pids : DOMAIN tasks'[q] = 1 .. Len(tasks'[q])
    BY <1>1, LenProperties
  <2>. QED
    BY <1>1, <2>1, Shapes
<1>3. Len(tasks[p]) = 1 /\ n = 1
  <2>1. Len(tasks[p]) \in Nat /\ n \in 1 .. Len(tasks[p])
    BY Shapes
  <2>2. Len(tasks[p]) <= 1
    BY DEF OneDeliveryTask
  <2>3. \A len \in Nat : \A k \in 1 .. len : len <= 1 => len = 1 /\ k = 1
    OBVIOUS
  <2>. QED
    BY <2>1, <2>2, <2>3, Zenon
<1>4. p \in DOMAIN requests => requests[p].state # "SUBMITTED"
  BY <1>3 DEF NotSpawnedYet
<1>5. ActiveDefinitionsExist'
  BY DEF ActiveDefinitionsExist
<1>6. StateFollowsHolder'
  BY DEF StateFollowsHolder, Active
<1>7. OneDeliveryTask'
  BY <1>1 DEF OneDeliveryTask
<1>8. NotSpawnedYet'
  BY <1>1, <1>4, Shapes DEF NotSpawnedYet, Active
<1>9. ClaimedProcessStays'
  <2>1. SUFFICES ASSUME NEW q \in Pids, NEW k \in DOMAIN tasks'[q],
                        tasks'[q][k].pc \in Claimed
                 PROVE  /\ q \in DOMAIN requests'
                        /\ requests'[q].state = "APPROVED"
                        /\ requests'[q].started
                        /\ tasks'[q][k].todo \subseteq requests'[q].defs
    BY DEF ClaimedProcessStays
  <2>2. k \in DOMAIN tasks[q]
    BY <1>2
  <2>3. CASE q = p
    <3>1. k = n
      BY <1>3, <2>2, <2>3, Shapes
    <3>. QED
      BY <1>1, <2>1, <2>3, <3>1
  <2>4. CASE q # p
    BY <1>1, <2>1, <2>2, <2>4 DEF ClaimedProcessStays
  <2>. QED
    BY <2>3, <2>4
<1>10. ApprovedHasTask'
  <2>1. SUFFICES ASSUME NEW q \in DOMAIN requests, requests'[q].state = "APPROVED"
                 PROVE  \E k \in DOMAIN tasks'[q] :
                           tasks'[q][k].pc \in IF requests'[q].started
                               THEN Claimed ELSE {"queued", "permitted"}
    BY DEF ApprovedHasTask
  <2>2. CASE q = p
    BY <1>1, <1>2, <2>1, <2>2
  <2>3. CASE q # p
    BY <1>1, <1>2, <2>1, <2>3, Shapes DEF ApprovedHasTask
  <2>. QED
    BY <2>2, <2>3
<1>. QED
  BY <1>5, <1>6, <1>7, <1>8, <1>9, <1>10

\* A step that only moves a claimed task on within its delivery.
LEMMA MoveKeepsInv ==
    ASSUME TypeOK, ProcessInv, NEW p \in Pids, NEW n \in DOMAIN tasks[p],
           NEW t \in Task, Update(p, n, t),
           UNCHANGED <<catalog, holders, requests, nextPid>>,
           tasks[p][n].pc \in Claimed, t.pc \in Claimed,
           t.todo \subseteq tasks[p][n].todo
    PROVE  ProcessInv'
<1>1. /\ p \in DOMAIN requests
      /\ requests[p].state = "APPROVED"
      /\ requests[p].started
      /\ tasks[p][n].todo \subseteq requests[p].defs
  BY DEF ProcessInv, ClaimedProcessStays
<1>. QED
  BY <1>1, TaskKeepsInv

\* Every step of a delivery task.
LEMMA DeliverKeepsInv ==
    ASSUME TypeOK, ProcessInv, NEW p \in Pids, NEW n \in DOMAIN tasks[p],
           AcquirePermit(p, n) \/ Deliver(p, n)
    PROVE  ProcessInv'
<1>. DEFINE old == tasks[p][n]
<1>0. /\ old \in Task
      /\ \A pc \in TaskPc : [NewTask EXCEPT !.pc = pc] \in Task
  BY TaskTypes
<1>1. \A pc \in TaskPc :
        /\ [NewTask EXCEPT !.pc = pc].pc = pc
        /\ [NewTask EXCEPT !.pc = pc].todo = {}
        /\ [old EXCEPT !.pc = pc] \in Task
        /\ [old EXCEPT !.pc = pc].pc = pc
        /\ [old EXCEPT !.pc = pc].todo = old.todo
  BY <1>0 DEF NewTask, Task
<1>2. p \in DOMAIN requests /\ requests[p].state = "APPROVED" =>
        old.pc \in IF requests[p].started THEN Claimed ELSE {"queued", "permitted"}
  BY Shapes DEF ProcessInv, ApprovedHasTask, OneDeliveryTask
<1>3. {"queued", "permitted", "done"} \cap Claimed = {}
  BY DEF Claimed, WithPermit
<1>4. {"claimed", "resolving", "allocating", "recording", "releasing",
       "delivered", "errored"} = Claimed
  BY DEF Claimed, WithPermit, TaskPc
<1>5. CASE AcquirePermit(p, n)
  <2>1. /\ old.pc = "queued"
        /\ Update(p, n, [old EXCEPT !.pc = "permitted"])
        /\ UNCHANGED <<catalog, holders, requests, nextPid>>
    BY <1>5 DEF AcquirePermit, At, GoTo
  <2>2. "permitted" \in TaskPc
    BY DEF TaskPc
  <2>. DEFINE t == [old EXCEPT !.pc = "permitted"]
  <2>3. t \in Task /\ t.pc = "permitted" /\ t.pc \notin Claimed
    BY <1>1, <1>3, <2>2
  <2>4. p \in DOMAIN requests /\ requests[p].state = "APPROVED" =>
          ~ requests[p].started
    BY <1>2, <1>3, <2>1
  <2>. HIDE DEF t, old
  <2>5. Update(p, n, t)
    BY <2>1 DEF t
  <2>. QED
    BY <2>1, <2>3, <2>4, <2>5, TaskKeepsInv
<1>6. CASE ClaimProcess(p, n)
  <2>. DEFINE t == [pc |-> "claimed", todo |-> requests[p].defs, minted |-> {}]
  <2>1. /\ Update(p, n, t)
        /\ p \in DOMAIN requests
        /\ requests[p].state = "APPROVED"
        /\ requests' = [requests EXCEPT ![p].started = TRUE]
        /\ UNCHANGED <<catalog, holders, nextPid>>
    BY <1>6 DEF ClaimProcess, Claimable
  <2>2. requests[p] \in IssuanceProcess
    BY <2>1, Shapes
  <2>3. t \in Task
    BY <2>2 DEF Task, TaskPc, IssuanceProcess
  <2>4. /\ DOMAIN requests' = DOMAIN requests
        /\ \A q \in DOMAIN requests : q # p => requests'[q] = requests[q]
        /\ requests'[p].holder = requests[p].holder
        /\ requests'[p].defs = requests[p].defs
        /\ requests'[p].state = requests[p].state
        /\ requests'[p].started = TRUE
    BY <2>1, <2>2 DEF TypeOK, IssuanceProcess
  <2>5. t.pc \in Claimed /\ t.todo = requests[p].defs
    BY <1>4
  <2>. HIDE DEF t
  <2>. QED
    BY <2>1, <2>3, <2>4, <2>5, TaskKeepsInv
<1>7. CASE AbandonProcess(p, n)
  <2>1. /\ Update(p, n, [NewTask EXCEPT !.pc = "done"])
        /\ ~ (p \in DOMAIN requests /\ requests[p].state = "APPROVED")
        /\ UNCHANGED <<catalog, holders, requests, nextPid>>
    BY <1>7 DEF AbandonProcess, Exit, Claimable
  <2>2. "done" \in TaskPc
    BY DEF TaskPc
  <2>. QED
    BY <1>0, <1>1, <1>3, <2>1, <2>2, TaskKeepsInv
<1>8. CASE \/ LookUpDefinitions(p, n) \/ ResolveHolder(p, n)
           \/ AllocationFails(p, n)   \/ PostCredentials(p, n)
  <2>1. PICK pc \in Claimed : Update(p, n, [old EXCEPT !.pc = pc])
    BY <1>4, <1>8 DEF LookUpDefinitions, ResolveHolder, AllocationFails,
                      PostCredentials, GoTo
  <2>2. old.pc \in Claimed /\ UNCHANGED <<catalog, holders, requests, nextPid>>
    BY <1>4, <1>8 DEF LookUpDefinitions, ResolveHolder, AllocationFails,
                      PostCredentials, At
  <2>3. pc \in TaskPc
    BY DEF Claimed, WithPermit
  <2>. DEFINE t == [old EXCEPT !.pc = pc]
  <2>4. t \in Task /\ t.pc \in Claimed /\ t.todo \subseteq old.todo
    BY <1>1, <2>3
  <2>. HIDE DEF t
  <2>5. Update(p, n, t)
    BY <2>1 DEF t
  <2>. QED
    BY <2>2, <2>4, <2>5, MoveKeepsInv
<1>9. CASE AllocateIndex(p, n)
  <2>1. PICK d \in old.todo :
          Update(p, n, [old EXCEPT
                          !.todo = @ \ {d},
                          !.minted = @ \cup
                              {[def |-> d, idx |-> AllocatedIndex(statusList)]}])
    BY <1>9 DEF AllocateIndex
  <2>. DEFINE t == [old EXCEPT
                      !.todo = @ \ {d},
                      !.minted = @ \cup
                          {[def |-> d, idx |-> AllocatedIndex(statusList)]}]
  <2>2. AllocatedIndex(statusList) \in Indexes
    BY <1>9, AllocateType DEF TypeOK, AllocateIndex
  <2>3. [def |-> d, idx |-> AllocatedIndex(statusList)] \in Minted
    BY <1>0, <2>2 DEF Task, Minted
  <2>4. t \in Task /\ t.pc = old.pc /\ t.todo \subseteq old.todo
    BY <1>0, <2>3 DEF Task
  <2>5. /\ old.pc \in Claimed
        /\ UNCHANGED <<catalog, holders, requests, nextPid>>
    BY <1>4, <1>9 DEF AllocateIndex, At
  <2>. HIDE DEF t, old
  <2>6. Update(p, n, t)
    BY <2>1 DEF t
  <2>. QED
    BY <2>4, <2>5, <2>6, MoveKeepsInv DEF old
<1>10. CASE RecordIssued(p, n) \/ ReleaseIndexes(p, n)
  <2>1. PICK pc \in Claimed : Update(p, n, [NewTask EXCEPT !.pc = pc])
    BY <1>4, <1>10 DEF RecordIssued, ReleaseIndexes
  <2>2. old.pc \in Claimed /\ UNCHANGED <<catalog, holders, requests, nextPid>>
    BY <1>4, <1>10 DEF RecordIssued, ReleaseIndexes, At
  <2>3. pc \in TaskPc
    BY DEF Claimed, WithPermit
  <2>. QED
    BY <1>0, <1>1, <2>1, <2>2, <2>3, MoveKeepsInv
<1>11. CASE FinishDelivery(p, n)
  <2>1. PICK pc \in {"delivered", "errored"} :
          /\ old.pc = pc
          /\ requests' = IF p \in DOMAIN requests
                         THEN [requests EXCEPT ![p].state = Outcome(pc)]
                         ELSE requests
    BY <1>11 DEF FinishDelivery, At
  <2>2. /\ Update(p, n, [NewTask EXCEPT !.pc = "done"])
        /\ UNCHANGED <<catalog, holders, nextPid>>
    BY <1>11 DEF FinishDelivery, Exit
  <2>3. p \in DOMAIN requests /\ requests[p] \in IssuanceProcess
    BY <1>4, <2>1, Shapes DEF ProcessInv, ClaimedProcessStays
  <2>4. Outcome(pc) \notin Active
    BY DEF Outcome, Active
  <2>5. /\ DOMAIN requests' = DOMAIN requests
        /\ \A q \in DOMAIN requests : q # p => requests'[q] = requests[q]
        /\ requests'[p].holder = requests[p].holder
        /\ requests'[p].defs = requests[p].defs
        /\ requests'[p].state = Outcome(pc)
        /\ requests'[p].started = requests[p].started
    BY <2>1, <2>3 DEF TypeOK, IssuanceProcess
  <2>6. "done" \in TaskPc
    BY DEF TaskPc
  <2>. DEFINE t == [NewTask EXCEPT !.pc = "done"]
  <2>7. t \in Task /\ t.pc \notin Claimed
    BY <1>0, <1>1, <1>3, <2>6
  <2>8. requests'[p].state \notin Active /\ requests'[p].state # "APPROVED"
    BY <2>4, <2>5 DEF Active
  <2>. HIDE DEF t
  <2>9. Update(p, n, t)
    BY <2>2 DEF t
  <2>. QED
    BY <2>2, <2>5, <2>7, <2>8, <2>9, TaskKeepsInv
<1>. QED
  BY <1>5, <1>6, <1>7, <1>8, <1>9, <1>10, <1>11 DEF Deliver

\* Every reachable state satisfies the invariant of the issuance processes.
THEOREM ProcessesSafe == Spec => []ProcessInv
<1>1. TypeOK /\ ProcessInv /\ [Next]_vars => ProcessInv'
  <2>. SUFFICES ASSUME TypeOK, ProcessInv, [Next]_vars
                PROVE  ProcessInv'
    OBVIOUS
  <2>1. ASSUME NEW d \in Definitions, CreateDefinition(d)
        PROVE  ProcessInv'
    <3>1. ActiveDefinitionsExist' /\ StateFollowsHolder'
      BY <2>1 DEF ProcessInv, CreateDefinition, ActiveDefinitionsExist,
                  StateFollowsHolder
    <3>. QED
      BY <2>1, <3>1, ProcessInvTables DEF CreateDefinition
  <2>2. ASSUME NEW d \in Definitions, DeleteDefinition(d)
        PROVE  ProcessInv'
    <3>1. ActiveDefinitionsExist' /\ StateFollowsHolder'
      BY <2>2 DEF ProcessInv, DeleteDefinition, InUse, ActiveDefinitionsExist,
                  StateFollowsHolder
    <3>. QED
      BY <2>2, <3>1, ProcessInvTables DEF DeleteDefinition
  <2>3. ASSUME NEW h \in Holders, RegisterHolder(h)
        PROVE  ProcessInv'
    <3>1. holders \in [Holders -> HolderStatus \cup {"absent"}]
      BY DEF TypeOK
    <3>2. ActiveDefinitionsExist' /\ StateFollowsHolder'
      BY <2>3, <3>1, Shapes
         DEF ProcessInv, RegisterHolder, CanRegister, ActiveDefinitionsExist,
             StateFollowsHolder
    <3>. QED
      BY <2>3, <3>2, ProcessInvTables DEF RegisterHolder
  <2>4. ASSUME NEW h \in Holders, ApproveHolder(h) \/ RejectHolder(h)
        PROVE  ProcessInv'
    BY <2>4, ApproveKeepsInv, RejectKeepsInv
  <2>5. ASSUME NEW h \in Holders, NEW ds \in SUBSET Definitions,
               CredentialRequestAccepted(h, ds)
        PROVE  ProcessInv'
    <3>1. PICK state \in {"SUBMITTED", "APPROVED"} :
            /\ requests' = Insert(requests, nextPid,
                                  [state |-> state, holder |-> h, defs |-> ds,
                                   started |-> FALSE])
            /\ Spawn(IF state = "APPROVED" THEN {nextPid} ELSE {})
            /\ state = IF StatusOnContact(h) = "pending" THEN "SUBMITTED"
                                                         ELSE "APPROVED"
      BY <2>5 DEF CredentialRequestAccepted
    <3>. DEFINE process == [state |-> state, holder |-> h, defs |-> ds,
                            started |-> FALSE]
                P == IF state = "APPROVED" THEN {nextPid} ELSE {}
    <3>2. /\ process \in IssuanceProcess
          /\ process.state = state
          /\ process.holder = h
          /\ process.defs = ds
          /\ ~ process.started
      BY DEF IssuanceProcess, Active
    <3>3. StatusOnContact(h) \in {"pending", "approved"}
      BY <2>5 DEF TypeOK, StatusOnContact, CredentialRequestAccepted, HolderStatus
    <3>4. holders' = [holders EXCEPT ![h] = StatusOnContact(h)]
      BY <2>5 DEF CredentialRequestAccepted
    <3>5. \A p \in DOMAIN requests :
              /\ requests[p].state = "SUBMITTED" =>
                    holders'[requests[p].holder] = "pending"
              /\ requests[p].state = "APPROVED" /\ ~ requests[p].started =>
                    holders'[requests[p].holder] = "approved"
      BY <3>3, <3>4, ContactKeepsHolders DEF ProcessInv
    <3>6. holders'[h] = StatusOnContact(h)
      BY <3>4 DEF TypeOK
    <3>7. /\ nextPid <= MaxProcesses
          /\ CanInsert(requests)
          /\ nextPid' = nextPid + 1
          /\ UNCHANGED catalog
          /\ ds \subseteq catalog
      BY <2>5 DEF CredentialRequestAccepted, Admissible, ValidRequest
    <3>8. P = IF process.state = "APPROVED" THEN {nextPid} ELSE {}
      BY <3>2
    <3>. HIDE DEF process, P
    <3>9. requests' = Insert(requests, nextPid, process) /\ Spawn(P)
      BY <3>1 DEF process, P
    <3>10. /\ process.state = "SUBMITTED" => holders'[process.holder] = "pending"
           /\ process.state = "APPROVED" => holders'[process.holder] = "approved"
      BY <3>1, <3>2, <3>3, <3>6
    <3>. QED
      BY <3>2, <3>5, <3>7, <3>8, <3>9, <3>10, InsertKeepsInv
  <2>6. ASSUME NEW h \in Holders, NEW ds \in SUBSET Definitions,
               CredentialRequestRefused(h, ds)
        PROVE  ProcessInv'
    <3>1. /\ StatusOnContact(h) # "rejected"
          /\ holders' = [holders EXCEPT ![h] = StatusOnContact(h)]
          /\ UNCHANGED <<catalog, requests, nextPid, tasks>>
      BY <2>6 DEF CredentialRequestRefused, StatusOnContact, CanRegister
    <3>2. ActiveDefinitionsExist' /\ StateFollowsHolder'
      BY <3>1, ContactKeepsHolders
         DEF ProcessInv, ActiveDefinitionsExist, StateFollowsHolder
    <3>. QED
      BY <3>1, <3>2, ProcessInvTables
  <2>7. ASSUME NEW p \in Pids, NEW n \in DOMAIN tasks[p],
               AcquirePermit(p, n) \/ Deliver(p, n)
        PROVE  ProcessInv'
    BY <2>7, DeliverKeepsInv
  <2>8. ASSUME NEW r \in redemptions, RedeemHolder(r)
        PROVE  ProcessInv'
    <3>1. r.holder \in Holders
      BY DEF TypeOK, Redemption
    <3>2. UNCHANGED <<catalog, requests, nextPid, tasks>>
      BY <2>8 DEF RedeemHolder
    <3>3. CASE UNCHANGED holders
      BY <3>2, <3>3, ProcessInvFrame
    <3>4. CASE /\ StatusOnContact(r.holder) # "rejected"
               /\ holders' = [holders EXCEPT ![r.holder] = StatusOnContact(r.holder)]
      <4>1. ActiveDefinitionsExist' /\ StateFollowsHolder'
        BY <3>1, <3>2, <3>4, ContactKeepsHolders
           DEF ProcessInv, ActiveDefinitionsExist, StateFollowsHolder
      <4>. QED
        BY <3>2, <4>1, ProcessInvTables
    <3>. QED
      BY <2>8, <3>3, <3>4 DEF RedeemHolder
  <2>9. ASSUME NEW r \in redemptions, RedeemInsert(r)
        PROVE  ProcessInv'
    <3>1. CASE ~ CanInsert(requests)
      BY <2>9, <3>1, ProcessInvFrame DEF RedeemInsert
    <3>2. CASE CanInsert(requests)
      <4>. DEFINE process == [state |-> "DELIVERED", holder |-> r.holder,
                              defs |-> {r.def}, started |-> TRUE]
      <4>1. /\ process \in IssuanceProcess
            /\ process.state = "DELIVERED"
            /\ process.state \notin Active
        BY DEF TypeOK, Redemption, IssuanceProcess, Terminal, Active
      <4>2. Spawn({})
        BY <2>9 DEF RedeemInsert, Spawn, TypeOK
      <4>3. \A p \in DOMAIN requests :
              /\ requests[p].state = "SUBMITTED" =>
                    holders'[requests[p].holder] = "pending"
              /\ requests[p].state = "APPROVED" /\ ~ requests[p].started =>
                    holders'[requests[p].holder] = "approved"
        BY <2>9 DEF RedeemInsert, ProcessInv, StateFollowsHolder
      <4>4. /\ nextPid <= MaxProcesses
            /\ nextPid' = nextPid + 1
            /\ UNCHANGED catalog
            /\ requests' = Insert(requests, nextPid, process)
        BY <2>9, <3>2 DEF RedeemInsert
      <4>5. {} = IF process.state = "APPROVED" THEN {nextPid} ELSE {}
        BY <4>1
      <4>. HIDE DEF process
      <4>. QED
        BY <3>2, <4>1, <4>2, <4>3, <4>4, <4>5, InsertKeepsInv
    <3>. QED
      BY <3>1, <3>2
  <2>10. CASE \/ \E r \in records : RevokeCredential(r)
              \/ ServeStatusList
              \/ \E id \in Redemptions, h \in Holders, d \in Definitions :
                    RedeemStart(id, h, d)
              \/ \E r \in redemptions :
                    RedeemAllocate(r) \/ RedeemRelease(r) \/ RedeemRecord(r)
              \/ UNCHANGED vars
    <3>1. UNCHANGED <<catalog, holders, requests, nextPid, tasks>>
      BY <2>10 DEF RevokeCredential, ServeStatusList, RedeemStart,
                   RedeemAllocate, RedeemRelease, RedeemRecord, vars
    <3>. QED
      BY <3>1, ProcessInvFrame
  <2>. QED
    BY <2>1, <2>2, <2>3, <2>4, <2>5, <2>6, <2>7, <2>8, <2>9, <2>10
       DEF Next, Admin, Request, Delivery, Redeem
<1>. QED
  BY <1>1, ProcessInvInit, TypeCorrect, PTL DEF Spec

\* Whatever the operator deletes, approves or rejects, and whoever asks for
\* credentials meanwhile: an active process keeps its definitions, follows its
\* holder's status and, once claimed, is neither rejected nor evicted.
COROLLARY ActiveProcessesAreSafe ==
    Spec => []ActiveProcessesSafe
  BY ProcessesSafe, PTL DEF ProcessInv, ActiveProcessesSafe

\* A process has at most one delivery task, and an APPROVED one has one that
\* is still to report: it is neither delivered twice nor forgotten.
COROLLARY DeliveredOnce == Spec => []TasksFitProcesses
  BY ProcessesSafe, PTL DEF ProcessInv, TasksFitProcesses

-----------------------------------------------------------------------------
(* What a step may never do *)

\* An insertion changes no process that stays and brings none back.
LEMMA InsertStep ==
    ASSUME TypeOK, CanInsert(requests), NEW process \in IssuanceProcess,
           requests' = Insert(requests, nextPid, process)
    PROVE  TerminalStaysStep /\ ClaimNeedsApprovalStep
<1>. USE IssuerAssumption
<1>1. DOMAIN requests \in SUBSET Nat /\ nextPid \in Nat
  BY DEF TypeOK
<1>2. /\ \A q \in DOMAIN requests' : q # nextPid =>
            q \in DOMAIN requests /\ requests'[q] = requests[q]
      /\ DOMAIN requests' \subseteq DOMAIN requests \cup {nextPid}
  BY <1>1, InsertEffect DEF TypeOK
<1>3. \A q \in DOMAIN requests : q < nextPid
  BY Shapes
<1>4. \A q \in 1 .. nextPid - 1 : q # nextPid
  BY <1>1
<1>5. \A q \in DOMAIN requests : q # nextPid
  BY <1>1, <1>3
<1>6. TerminalStaysStep
  BY <1>2, <1>4, <1>5 DEF TerminalStaysStep
<1>7. ClaimNeedsApprovalStep
  BY <1>2, <1>5 DEF ClaimNeedsApprovalStep
<1>. QED
  BY <1>6, <1>7

\* A decision about a holder moves only what is still active.
LEMMA DecideStep ==
    ASSUME TypeOK, NEW h \in Holders,
           NEW status, NEW next, DecideHolder(h, status, next)
    PROVE  TerminalStaysStep /\ ClaimNeedsApprovalStep
<1>1. /\ DOMAIN requests' = DOMAIN requests
      /\ \A p \in DOMAIN requests :
            /\ requests[p].state \in Terminal => p \notin Moved(h, next)
            /\ p \notin Moved(h, next) => requests'[p] = requests[p]
            /\ p \in Moved(h, next) =>
                  requests'[p] = [requests[p] EXCEPT !.state = next]
  BY DEF DecideHolder, Moved, Terminal
<1>2. \A p \in DOMAIN requests : requests'[p].started = requests[p].started
  <2>1. \A p \in DOMAIN requests : requests[p] \in IssuanceProcess
    BY Shapes
  <2>2. \A p \in DOMAIN requests :
          [requests[p] EXCEPT !.state = next].started = requests[p].started
    BY <2>1 DEF IssuanceProcess
  <2>. QED
    BY <1>1, <2>2
<1>. QED
  BY <1>1, <1>2 DEF TerminalStaysStep, ClaimNeedsApprovalStep

\* A claim finds an approved holder and an outcome finds a claimed process.
LEMMA DeliverStep ==
    ASSUME TypeOK, ProcessInv, NEW p \in Pids, NEW n \in DOMAIN tasks[p],
           AcquirePermit(p, n) \/ Deliver(p, n)
    PROVE  TerminalStaysStep /\ ClaimNeedsApprovalStep
<1>1. CASE UNCHANGED requests
  BY <1>1 DEF TerminalStaysStep, ClaimNeedsApprovalStep
<1>2. CASE ClaimProcess(p, n)
  <2>1. /\ p \in DOMAIN requests
        /\ requests[p].state = "APPROVED"
        /\ requests' = [requests EXCEPT ![p].started = TRUE]
    BY <1>2 DEF ClaimProcess, Claimable
  <2>2. ~ requests[p].started => holders[requests[p].holder] = "approved"
    BY <2>1 DEF ProcessInv, StateFollowsHolder
  <2>. QED
    BY <2>1, <2>2 DEF TerminalStaysStep, ClaimNeedsApprovalStep, Terminal
<1>3. CASE FinishDelivery(p, n)
  <2>1. p \in DOMAIN requests /\ requests[p].state = "APPROVED"
    BY <1>3 DEF FinishDelivery, At, ProcessInv, ClaimedProcessStays, Claimed,
                WithPermit, TaskPc
  <2>2. PICK pc \in {"delivered", "errored"} :
          requests' = [requests EXCEPT ![p].state = Outcome(pc)]
    BY <1>3, <2>1 DEF FinishDelivery
  <2>3. requests[p] \in IssuanceProcess
    BY <2>1, Shapes
  <2>4. /\ DOMAIN requests' = DOMAIN requests
        /\ \A q \in DOMAIN requests : q # p => requests'[q] = requests[q]
        /\ requests'[p].started = requests[p].started
    BY <2>1, <2>2, <2>3 DEF IssuanceProcess
  <2>. QED
    BY <2>1, <2>4 DEF TerminalStaysStep, ClaimNeedsApprovalStep, Terminal
<1>. QED
  BY <1>1, <1>2, <1>3
     DEF Deliver, AcquirePermit, AbandonProcess, LookUpDefinitions,
         ResolveHolder, AllocateIndex, AllocationFails, PostCredentials,
         RecordIssued, ReleaseIndexes

\* No step of the Issuer Service revisits a finished process or starts a
\* delivery behind the operator's back.
LEMMA EveryStep ==
    ASSUME TypeOK, ProcessInv, [Next]_vars
    PROVE  TerminalStaysStep /\ ClaimNeedsApprovalStep
<1>1. CASE UNCHANGED requests
  BY <1>1 DEF TerminalStaysStep, ClaimNeedsApprovalStep
<1>2. ASSUME NEW h \in Holders, ApproveHolder(h) \/ RejectHolder(h)
      PROVE  TerminalStaysStep /\ ClaimNeedsApprovalStep
  BY <1>2, DecideStep DEF ApproveHolder, RejectHolder
<1>3. ASSUME NEW h \in Holders, NEW ds \in SUBSET Definitions,
             CredentialRequestAccepted(h, ds)
      PROVE  TerminalStaysStep /\ ClaimNeedsApprovalStep
  <2>1. PICK state \in Active :
          requests' = Insert(requests, nextPid,
                             [state |-> state, holder |-> h, defs |-> ds,
                              started |-> FALSE])
    BY <1>3 DEF CredentialRequestAccepted, Active
  <2>2. [state |-> state, holder |-> h, defs |-> ds, started |-> FALSE]
           \in IssuanceProcess
    BY DEF IssuanceProcess
  <2>. QED
    BY <1>3, <2>1, <2>2, InsertStep DEF CredentialRequestAccepted, Admissible
<1>4. ASSUME NEW p \in Pids, NEW n \in DOMAIN tasks[p],
             AcquirePermit(p, n) \/ Deliver(p, n)
      PROVE  TerminalStaysStep /\ ClaimNeedsApprovalStep
  BY <1>4, DeliverStep
<1>5. ASSUME NEW r \in redemptions, RedeemInsert(r), CanInsert(requests)
      PROVE  TerminalStaysStep /\ ClaimNeedsApprovalStep
  <2>1. [state |-> "DELIVERED", holder |-> r.holder, defs |-> {r.def},
         started |-> TRUE] \in IssuanceProcess
    BY DEF TypeOK, Redemption, IssuanceProcess, Terminal
  <2>. QED
    BY <1>5, <2>1, InsertStep DEF RedeemInsert
<1>6. ASSUME NEW r \in redemptions, RedeemInsert(r), ~ CanInsert(requests)
      PROVE  UNCHANGED requests
  BY <1>6 DEF RedeemInsert
<1>7. ASSUME \/ \E d \in Definitions : CreateDefinition(d) \/ DeleteDefinition(d)
             \/ \E h \in Holders : RegisterHolder(h)
             \/ \E r \in records : RevokeCredential(r)
             \/ \E h \in Holders, ds \in SUBSET Definitions :
                   CredentialRequestRefused(h, ds)
             \/ ServeStatusList
             \/ \E id \in Redemptions, h \in Holders, d \in Definitions :
                   RedeemStart(id, h, d)
             \/ \E r \in redemptions :
                   \/ RedeemHolder(r) \/ RedeemAllocate(r)
                   \/ RedeemRelease(r) \/ RedeemRecord(r)
             \/ UNCHANGED vars
      PROVE  UNCHANGED requests
  BY <1>7 DEF CreateDefinition, DeleteDefinition, RegisterHolder,
              RevokeCredential, CredentialRequestRefused, ServeStatusList,
              RedeemStart, RedeemHolder, RedeemAllocate, RedeemRelease,
              RedeemRecord, vars
<1>. QED
  BY <1>1, <1>2, <1>3, <1>4, <1>5, <1>6, <1>7
     DEF Next, Admin, Request, Delivery, Redeem

\* The outcome of a process is final: DELIVERED, ERRORED and REJECTED are never
\* left, whichever decision, delivery or insertion comes later, and an evicted
\* process never reappears.
THEOREM OutcomesAreFinal == Spec => TerminalStays
<1>1. TypeOK /\ ProcessInv /\ [Next]_vars => [TerminalStaysStep]_vars
  BY EveryStep
<1>. QED
  BY <1>1, TypeCorrect, ProcessesSafe, PTL DEF Spec, TerminalStays

\* A delivery starts only for a holder the operator has approved and not
\* rejected since, although the claim itself looks at the process alone.
THEOREM ClaimsAreApproved == Spec => ClaimNeedsApproval
<1>1. TypeOK /\ ProcessInv /\ [Next]_vars => [ClaimNeedsApprovalStep]_vars
  BY EveryStep
<1>. QED
  BY <1>1, TypeCorrect, ProcessesSafe, PTL DEF Spec, ClaimNeedsApproval

-----------------------------------------------------------------------------
(* Owners of status-list indexes *)

\* Records, redemptions in progress and credentials of deliveries in progress,
\* in one form, so that what an operation does to the status list is what it
\* does to one set.
RecordOwner(r)       == [kind |-> "record", who |-> r, idx |-> r.idx]
RedemptionOwner(r)   == [kind |-> "redemption", who |-> r, idx |-> r.idx]
TaskOwner(p, n, m)   == [kind |-> "task", who |-> <<p, n, m>>, idx |-> m.idx]

RecordOwners     == {RecordOwner(r) : r \in records}
RedemptionOwners == {RedemptionOwner(r) : r \in Redeeming}
TaskOwners       == UNION {UNION {{TaskOwner(p, n, m) :
                                      m \in tasks[p][n].minted} :
                                  n \in DOMAIN tasks[p]} : p \in Pids}

Owners == RecordOwners \cup RedemptionOwners \cup TaskOwners

\* No two owners of O share an index, and the indexes the list handed out so
\* far are the free ones and the owned ones.
Accounted(O, sl) ==
    /\ \A o, u \in O : o.idx = u.idx => o = u
    /\ \A o \in O : /\ o.idx \in 0 .. sl.next - 1
                    /\ o.idx \notin sl.free
    /\ sl.free \subseteq 0 .. sl.next - 1
    /\ \A i \in 0 .. sl.next - 1 : i \in sl.free \/ \E o \in O : o.idx = i

OwnersInv == Accounted(Owners, statusList)

\* Only a task that signs, delivers or hands back holds credentials: the
\* others have no local state that could be lost.
HoldsNothing ==
    \A p \in Pids : \A n \in DOMAIN tasks[p] :
        tasks[p][n].pc \notin {"allocating", "recording", "releasing"} =>
            tasks[p][n].minted = {}

IndexInv == OwnersInv /\ HoldsNothing /\ ListMatchesRevocations

\* The owners among the tasks, one by one.
LEMMA TaskOwnersAre ==
    \A o : o \in TaskOwners <=>
        \E p \in Pids : \E n \in DOMAIN tasks[p] :
            \E m \in tasks[p][n].minted : o = TaskOwner(p, n, m)
  BY DEF TaskOwners

\* Owners of different kinds differ, and an owner names what it stands for.
LEMMA OwnersDiffer ==
    /\ \A r, s : RecordOwner(r) = RecordOwner(s) => r = s
    /\ \A r, s : RedemptionOwner(r) = RedemptionOwner(s) => r = s
    /\ \A p, n, m, q, k, l :
          TaskOwner(p, n, m) = TaskOwner(q, k, l) => p = q /\ n = k /\ m = l
    /\ \A r, s : RecordOwner(r) # RedemptionOwner(s)
    /\ \A r, p, n, m : RecordOwner(r) # TaskOwner(p, n, m)
    /\ \A r, p, n, m : RedemptionOwner(r) # TaskOwner(p, n, m)
    /\ \A r : RecordOwner(r).idx = r.idx
    /\ \A r : RedemptionOwner(r).idx = r.idx
    /\ \A p, n, m : TaskOwner(p, n, m).idx = m.idx
  BY DEF RecordOwner, RedemptionOwner, TaskOwner

\* The one set of owners says what the properties say kind by kind.
LEMMA OwnersInvImplies ==
    ASSUME TypeOK, OwnersInv
    PROVE  IndexesAccounted
<1>1. /\ \A r \in records : RecordOwner(r) \in Owners
      /\ \A r \in Redeeming : RedemptionOwner(r) \in Owners
      /\ \A p \in Pids : \A n \in DOMAIN tasks[p] :
            \A m \in tasks[p][n].minted : TaskOwner(p, n, m) \in Owners
  BY TaskOwnersAre DEF Owners, RecordOwners, RedemptionOwners
<1>2. \A o \in Owners :
         \/ \E r \in records : o = RecordOwner(r)
         \/ \E r \in Redeeming : o = RedemptionOwner(r)
         \/ \E p \in Pids : \E n \in DOMAIN tasks[p] :
               \E m \in tasks[p][n].minted : o = TaskOwner(p, n, m)
  BY TaskOwnersAre DEF Owners, RecordOwners, RedemptionOwners
<1>4. \A p \in Pids : \A n \in DOMAIN tasks[p] :
         \A i : i \in TaskIndexes(p, n) <=>
            \E m \in tasks[p][n].minted : i = m.idx
  BY DEF TaskIndexes
<1>5. IndexHasOneOwner
  <2>0. \A o, u \in Owners : o.idx = u.idx => o = u
    BY DEF OwnersInv, Accounted
  <2>1. /\ \A r, s \in records : r.idx = s.idx => r = s
        /\ \A r, s \in Redeeming : r.idx = s.idx => r = s
        /\ \A r \in records, s \in Redeeming : r.idx # s.idx
    <3>1. ASSUME NEW r \in records, NEW s \in records, r.idx = s.idx
          PROVE  r = s
      <4>1. RecordOwner(r) = RecordOwner(s)
        BY <1>1, OwnersDiffer, <2>0, <3>1
      <4>. QED
        BY OwnersDiffer, <4>1
    <3>2. ASSUME NEW r \in Redeeming, NEW s \in Redeeming, r.idx = s.idx
          PROVE  r = s
      <4>1. RedemptionOwner(r) = RedemptionOwner(s)
        BY <1>1, OwnersDiffer, <2>0, <3>2
      <4>. QED
        BY OwnersDiffer, <4>1
    <3>3. ASSUME NEW r \in records, NEW s \in Redeeming, r.idx = s.idx
          PROVE  FALSE
      <4>1. RecordOwner(r) = RedemptionOwner(s)
        BY <1>1, OwnersDiffer, <2>0, <3>3
      <4>. QED
        BY OwnersDiffer, <4>1
    <3>. QED
      BY <3>1, <3>2, <3>3
  <2>2. \A r \in records \cup Redeeming : r.idx \notin statusList.free
    BY <1>1, OwnersDiffer DEF OwnersInv, Accounted
  <2>3. ASSUME NEW p \in Pids, NEW n \in DOMAIN tasks[p]
        PROVE  /\ \A m, k \in tasks[p][n].minted : m.idx = k.idx => m = k
               /\ \A r \in records \cup Redeeming : r.idx \notin TaskIndexes(p, n)
               /\ TaskIndexes(p, n) \cap statusList.free = {}
               /\ \A q \in Pids : \A k \in DOMAIN tasks[q] :
                     <<p, n>> # <<q, k>> =>
                         TaskIndexes(p, n) \cap TaskIndexes(q, k) = {}
    <3>1. ASSUME NEW m \in tasks[p][n].minted, NEW k \in tasks[p][n].minted,
                 m.idx = k.idx
          PROVE  m = k
      <4>1. TaskOwner(p, n, m) = TaskOwner(p, n, k)
        BY <1>1, OwnersDiffer, <2>0, <3>1
      <4>. QED
        BY OwnersDiffer, <4>1
    <3>2. ASSUME NEW r \in records \cup Redeeming, NEW m \in tasks[p][n].minted,
                 r.idx = m.idx
          PROVE  FALSE
      <4>1. CASE r \in records
        <5>1. RecordOwner(r) = TaskOwner(p, n, m)
          BY <1>1, OwnersDiffer, <2>0, <3>2, <4>1
        <5>. QED
          BY OwnersDiffer, <5>1
      <4>2. CASE r \in Redeeming
        <5>1. RedemptionOwner(r) = TaskOwner(p, n, m)
          BY <1>1, OwnersDiffer, <2>0, <3>2, <4>2
        <5>. QED
          BY OwnersDiffer, <5>1
      <4>. QED
        BY <4>1, <4>2
    <3>3. \A m \in tasks[p][n].minted : m.idx \notin statusList.free
      BY <1>1, OwnersDiffer DEF OwnersInv, Accounted
    <3>4. ASSUME NEW q \in Pids, NEW k \in DOMAIN tasks[q], <<p, n>> # <<q, k>>,
                 NEW m \in tasks[p][n].minted, NEW l \in tasks[q][k].minted,
                 m.idx = l.idx
          PROVE  FALSE
      <4>1. TaskOwner(p, n, m) = TaskOwner(q, k, l)
        BY <1>1, OwnersDiffer, <3>4 DEF OwnersInv, Accounted
      <4>. QED
        BY OwnersDiffer, <3>4, <4>1
    <3>. QED
      BY <1>4, <3>1, <3>2, <3>3, <3>4
  <2>. QED
    BY <2>1, <2>2, <2>3 DEF IndexHasOneOwner
<1>6. NoIndexLeaks
  <2>. DEFINE T == UNION {TaskIndexes(t[1], t[2]) : t \in Spawned}
  <2>1. \A t : t \in Spawned <=>
          \E p \in Pids : \E n \in DOMAIN tasks[p] : t = <<p, n>>
    BY DEF Spawned
  <2>2. \A i : i \in T <=> \E p \in Pids : \E n \in DOMAIN tasks[p] :
                              \E m \in tasks[p][n].minted : i = m.idx
    <3>1. \A p \in Pids : \A n \in DOMAIN tasks[p] :
            /\ <<p, n>> \in Spawned
            /\ TaskIndexes(<<p, n>>[1], <<p, n>>[2]) = TaskIndexes(p, n)
      BY <2>1
    <3>2. \A t \in Spawned : \E p \in Pids : \E n \in DOMAIN tasks[p] :
            TaskIndexes(t[1], t[2]) = TaskIndexes(p, n)
      BY <2>1
    <3>3. \A i : i \in T <=> \E t \in Spawned : i \in TaskIndexes(t[1], t[2])
      OBVIOUS
    <3>. HIDE DEF T
    <3>4. ASSUME NEW i \in T
          PROVE  \E p \in Pids : \E n \in DOMAIN tasks[p] :
                     \E m \in tasks[p][n].minted : i = m.idx
      <4>1. PICK t \in Spawned : i \in TaskIndexes(t[1], t[2])
        BY <3>3, <3>4
      <4>2. PICK p \in Pids : \E n \in DOMAIN tasks[p] : i \in TaskIndexes(p, n)
        BY <3>2, <4>1
      <4>. QED
        BY <1>4, <4>2
    <3>5. ASSUME NEW p \in Pids, NEW n \in DOMAIN tasks[p],
                 NEW m \in tasks[p][n].minted
          PROVE  m.idx \in T
      <4>1. m.idx \in TaskIndexes(p, n)
        BY <1>4
      <4>. QED
        BY <3>1, <3>3, <4>1
    <3>. QED
      BY <3>4, <3>5
  <2>. HIDE DEF T
  <2>3. \A i \in 0 .. statusList.next - 1 :
          i \in statusList.free \cup {r.idx : r \in records \cup Redeeming} \cup T
    BY <1>2, OwnersDiffer, <2>2 DEF OwnersInv, Accounted
  <2>4. \A i \in statusList.free \cup {r.idx : r \in records \cup Redeeming} \cup T :
          i \in 0 .. statusList.next - 1
    BY <1>1, OwnersDiffer, <2>2 DEF OwnersInv, Accounted
  <2>. QED
    BY <2>3, <2>4 DEF NoIndexLeaks, T
<1>. QED
  BY <1>5, <1>6 DEF IndexesAccounted

-----------------------------------------------------------------------------
(* What the operations of the status list do to its owners *)

\* allocate(): the index handed out had no owner, and has one now.
LEMMA AllocateAccounts ==
    ASSUME NEW sl \in StatusLists, CanAllocate(sl), NEW O, Accounted(O, sl),
           NEW o, o.idx = AllocatedIndex(sl)
    PROVE  Accounted(O \cup {o}, Allocate(sl))
<1>. USE StatusListBitsAssumption
<1>0. sl.next \in Nat /\ sl.free \in SUBSET Nat
  BY DEF StatusLists, Indexes
<1>1. CASE sl.free # {}
  <2>1. AllocatedIndex(sl) \in sl.free
    BY <1>0, <1>1, LowestIsMember DEF AllocatedIndex
  <2>2. /\ Allocate(sl).next = sl.next
        /\ Allocate(sl).free = sl.free \ {AllocatedIndex(sl)}
    BY <1>1 DEF StatusLists, Allocate
  <2>. QED
    BY <1>0, <2>1, <2>2 DEF Accounted
<1>2. CASE sl.free = {}
  <2>1. /\ Allocate(sl).next = sl.next + 1
        /\ Allocate(sl).free = {}
        /\ AllocatedIndex(sl) = sl.next
    BY <1>2 DEF StatusLists, Allocate, AllocatedIndex
  <2>. QED
    BY <1>0, <1>2, <2>1 DEF Accounted
<1>. QED
  BY <1>1, <1>2

\* release(): the indexes of A lose their owners and become free, provided
\* none of them has its bit set.
LEMMA ReleaseAccounts ==
    ASSUME NEW sl \in StatusLists, NEW O, Accounted(O, sl), NEW A \in SUBSET O,
           NEW I, \A i : i \in I <=> \E o \in A : o.idx = i, I \cap sl.bits = {}
    PROVE  Accounted(O \ A, Release(sl, I))
<1>0. sl.next \in Nat /\ sl.free \in SUBSET Nat
  BY DEF StatusLists, Indexes
<1>1. \A i \in I : i \in 0 .. sl.next - 1
  BY DEF Accounted
<1>2. /\ Release(sl, I).next = sl.next
      /\ Release(sl, I).free = sl.free \cup I
  BY <1>0, <1>1 DEF StatusLists, Release
<1>. QED
  BY <1>0, <1>1, <1>2 DEF Accounted

\* Handing indexes over from A to B, one to one, changes nothing for the list.
LEMMA HandOverAccounts ==
    ASSUME NEW sl, NEW O, Accounted(O, sl), NEW A \in SUBSET O, NEW B,
           \A b \in B : \E o \in A : o.idx = b.idx,
           \A o \in A : \E b \in B : o.idx = b.idx,
           \A b, c \in B : b.idx = c.idx => b = c
    PROVE  Accounted((O \ A) \cup B, sl)
<1>1. \A o \in O \ A, b \in B : o.idx # b.idx
  BY DEF Accounted
<1>2. \A o, u \in (O \ A) \cup B : o.idx = u.idx => o = u
  BY <1>1 DEF Accounted
<1>3. \A i \in 0 .. sl.next - 1 :
        i \in sl.free \/ \E o \in (O \ A) \cup B : o.idx = i
  BY DEF Accounted
<1>4. \A o \in (O \ A) \cup B : /\ o.idx \in 0 .. sl.next - 1
                                /\ o.idx \notin sl.free
  BY DEF Accounted
<1>. QED
  BY <1>2, <1>3, <1>4 DEF Accounted

\* A step that leaves next and free alone, such as revoking or publishing.
LEMMA SameListAccounts ==
    ASSUME NEW sl, NEW tl, NEW O, Accounted(O, sl),
           tl.next = sl.next, tl.free = sl.free
    PROVE  Accounted(O, tl)
  BY DEF Accounted

-----------------------------------------------------------------------------
(* What a step does to the owners *)

\* The owners task n of process p stands for.
Mine(p, n) == {TaskOwner(p, n, m) : m \in tasks[p][n].minted}

\* Owners of one kind are never of another.
LEMMA KindsDisjoint ==
    /\ RecordOwners \cap RedemptionOwners = {}
    /\ RecordOwners \cap TaskOwners = {}
    /\ RedemptionOwners \cap TaskOwners = {}
  BY OwnersDiffer, TaskOwnersAre DEF RecordOwners, RedemptionOwners

\* A task's step exchanges the owners it stands for.
LEMMA UpdateOwners ==
    ASSUME tasks \in [Pids -> Seq(Task)], NEW p \in Pids,
           NEW n \in DOMAIN tasks[p], NEW t \in Task, Update(p, n, t)
    PROVE  /\ Mine(p, n) \subseteq TaskOwners
           /\ TaskOwners' = (TaskOwners \ Mine(p, n))
                                \cup {TaskOwner(p, n, m) : m \in t.minted}
<1>1. /\ tasks'[p][n] = t
      /\ \A q \in Pids : \A k \in DOMAIN tasks[q] :
            q # p \/ k # n => tasks'[q][k] = tasks[q][k]
      /\ \A q \in Pids : DOMAIN tasks'[q] = DOMAIN tasks[q]
  <2>1. /\ tasks' \in [Pids -> Seq(Task)]
        /\ \A q \in Pids : Len(tasks'[q]) = Len(tasks[q])
    BY UpdateEffect
  <2>2. \A q \in Pids : DOMAIN tasks'[q] = DOMAIN tasks[q]
    BY <2>1, LenProperties
  <2>. QED
    BY <2>2, UpdateEffect
<1>2. \A o : o \in Mine(p, n) <=>
         \E m \in tasks[p][n].minted : o = TaskOwner(p, n, m)
  BY DEF Mine
<1>3. \A o : o \in TaskOwners' <=>
        \E q \in Pids : \E k \in DOMAIN tasks[q] :
            \E m \in tasks'[q][k].minted : o = TaskOwner(q, k, m)
  BY <1>1 DEF TaskOwners
<1>4. ASSUME NEW o \in TaskOwners'
      PROVE  o \in (TaskOwners \ Mine(p, n)) \cup {TaskOwner(p, n, m) : m \in t.minted}
  <2>1. PICK q \in Pids : \E k \in DOMAIN tasks[q] :
            \E m \in tasks'[q][k].minted : o = TaskOwner(q, k, m)
    BY <1>3, <1>4
  <2>2. PICK k \in DOMAIN tasks[q] :
            \E m \in tasks'[q][k].minted : o = TaskOwner(q, k, m)
    BY <2>1
  <2>3. CASE q = p /\ k = n
    BY <1>1, <2>2, <2>3
  <2>4. CASE q # p \/ k # n
    BY <1>1, <1>2, <2>2, <2>4, TaskOwnersAre, OwnersDiffer
  <2>. QED
    BY <2>3, <2>4
<1>5. ASSUME NEW o \in TaskOwners, o \notin Mine(p, n)
      PROVE  o \in TaskOwners'
  <2>1. PICK q \in Pids : \E k \in DOMAIN tasks[q] :
            \E m \in tasks[q][k].minted : o = TaskOwner(q, k, m)
    BY <1>5, TaskOwnersAre
  <2>2. PICK k \in DOMAIN tasks[q] :
            \E m \in tasks[q][k].minted : o = TaskOwner(q, k, m)
    BY <2>1
  <2>3. q # p \/ k # n
    BY <1>2, <1>5, <2>2
  <2>. QED
    BY <1>1, <1>3, <2>2, <2>3
<1>6. ASSUME NEW m \in t.minted
      PROVE  TaskOwner(p, n, m) \in TaskOwners'
  BY <1>1, <1>3
<1>7. Mine(p, n) \subseteq TaskOwners
  BY <1>2, TaskOwnersAre
<1>. QED
  BY <1>4, <1>5, <1>6, <1>7

\* A task that moves on without touching its credentials stands for the same.
LEMMA UpdateKeepsOwners ==
    ASSUME tasks \in [Pids -> Seq(Task)], NEW p \in Pids,
           NEW n \in DOMAIN tasks[p], NEW t \in Task, Update(p, n, t),
           t.minted = tasks[p][n].minted
    PROVE  TaskOwners' = TaskOwners
<1>1. {TaskOwner(p, n, m) : m \in t.minted} = Mine(p, n)
  BY DEF Mine
<1>. QED
  BY <1>1, UpdateOwners

\* A new task stands for nothing.
LEMMA SpawnKeepsOwners ==
    ASSUME tasks \in [Pids -> Seq(Task)], NEW P, Spawn(P)
    PROVE  TaskOwners' = TaskOwners
<1>1. /\ tasks' \in [Pids -> Seq(Task)]
      /\ \A q \in Pids : q \notin P => tasks'[q] = tasks[q]
      /\ \A q \in Pids : q \in P =>
            /\ Len(tasks'[q]) = Len(tasks[q]) + 1
            /\ tasks'[q][Len(tasks[q]) + 1] = NewTask
            /\ \A k \in DOMAIN tasks[q] : tasks'[q][k] = tasks[q][k]
  BY SpawnEffect
<1>2. \A q \in Pids : /\ Len(tasks[q]) \in Nat
                      /\ DOMAIN tasks[q] = 1 .. Len(tasks[q])
                      /\ DOMAIN tasks'[q] = 1 .. Len(tasks'[q])
  BY <1>1, LenProperties
<1>3. \A o : o \in TaskOwners' <=>
        \E q \in Pids : \E k \in DOMAIN tasks'[q] :
            \E m \in tasks'[q][k].minted : o = TaskOwner(q, k, m)
  BY DEF TaskOwners
<1>4. ASSUME NEW q \in Pids
      PROVE  /\ \A k \in DOMAIN tasks[q] :
                    k \in DOMAIN tasks'[q] /\ tasks'[q][k] = tasks[q][k]
             /\ \A k \in DOMAIN tasks'[q] :
                    k \in DOMAIN tasks[q] \/ tasks'[q][k].minted = {}
  BY <1>1, <1>2 DEF NewTask
<1>5. ASSUME NEW o \in TaskOwners'
      PROVE  o \in TaskOwners
  <2>1. PICK q \in Pids : \E k \in DOMAIN tasks'[q] :
            \E m \in tasks'[q][k].minted : o = TaskOwner(q, k, m)
    BY <1>3, <1>5
  <2>. QED
    BY <1>4, <2>1, TaskOwnersAre
<1>6. ASSUME NEW o \in TaskOwners
      PROVE  o \in TaskOwners'
  <2>1. PICK q \in Pids : \E k \in DOMAIN tasks[q] :
            \E m \in tasks[q][k].minted : o = TaskOwner(q, k, m)
    BY <1>6, TaskOwnersAre
  <2>. QED
    BY <1>3, <1>4, <2>1
<1>. QED
  BY <1>5, <1>6

\* HoldsNothing survives a task's step that ends with what its place allows.
LEMMA UpdateHolds ==
    ASSUME TypeOK, HoldsNothing, NEW p \in Pids, NEW n \in DOMAIN tasks[p],
           NEW t \in Task, Update(p, n, t),
           t.pc \notin {"allocating", "recording", "releasing"} => t.minted = {}
    PROVE  HoldsNothing'
<1>1. /\ tasks' \in [Pids -> Seq(Task)]
      /\ \A q \in Pids : Len(tasks'[q]) = Len(tasks[q])
      /\ tasks'[p][n] = t
      /\ \A q \in Pids : \A k \in DOMAIN tasks[q] :
            q # p \/ k # n => tasks'[q][k] = tasks[q][k]
  BY UpdateEffect DEF TypeOK
<1>2. \A q \in Pids : DOMAIN tasks'[q] = DOMAIN tasks[q]
  BY <1>1, LenProperties DEF TypeOK
<1>. QED
  BY <1>1, <1>2 DEF HoldsNothing

\* Steps that change neither the list nor who owns its indexes.
LEMMA IndexInvFrame ==
    ASSUME IndexInv, HoldsNothing', TaskOwners' = TaskOwners,
           Redeeming' = Redeeming, UNCHANGED <<records, statusList>>
    PROVE  IndexInv'
<1>1. Owners' = Owners
  BY DEF Owners, RecordOwners, RedemptionOwners
<1>2. OwnersInv'
  BY <1>1 DEF IndexInv, OwnersInv
<1>3. ListMatchesRevocations'
  BY DEF IndexInv, ListMatchesRevocations, BitsMatchRevocations,
         CachedListIsCurrent
<1>. QED
  BY <1>2, <1>3 DEF IndexInv

\* Steps outside the tasks and the redemptions keep what they hold.
LEMMA SameTasksHold ==
    ASSUME HoldsNothing, UNCHANGED tasks
    PROVE  HoldsNothing' /\ TaskOwners' = TaskOwners
  BY DEF HoldsNothing, TaskOwners

\* Spawning tasks disturbs nothing either.
LEMMA SpawnKeepsIndexes ==
    ASSUME TypeOK, IndexInv, NEW P, Spawn(P),
           UNCHANGED <<records, statusList, redemptions>>
    PROVE  IndexInv'
<1>1. tasks \in [Pids -> Seq(Task)]
  BY DEF TypeOK
<1>2. TaskOwners' = TaskOwners
  BY <1>1, SpawnKeepsOwners
<1>3. HoldsNothing'
  <2>1. /\ tasks' \in [Pids -> Seq(Task)]
        /\ \A q \in Pids : q \notin P => tasks'[q] = tasks[q]
        /\ \A q \in Pids : q \in P =>
              /\ Len(tasks'[q]) = Len(tasks[q]) + 1
              /\ tasks'[q][Len(tasks[q]) + 1] = NewTask
              /\ \A k \in DOMAIN tasks[q] : tasks'[q][k] = tasks[q][k]
    BY <1>1, SpawnEffect
  <2>2. \A q \in Pids : /\ Len(tasks[q]) \in Nat
                        /\ DOMAIN tasks[q] = 1 .. Len(tasks[q])
                        /\ DOMAIN tasks'[q] = 1 .. Len(tasks'[q])
    BY <1>1, <2>1, LenProperties
  <2>. QED
    BY <2>1, <2>2, SMTT(30) DEF IndexInv, HoldsNothing, NewTask
<1>4. Redeeming' = Redeeming
  BY DEF Redeeming
<1>. QED
  BY <1>2, <1>3, <1>4, IndexInvFrame

\* Steps of a task that leave its credentials alone.
LEMMA MoveKeepsIndexes ==
    ASSUME TypeOK, IndexInv, NEW p \in Pids, NEW n \in DOMAIN tasks[p],
           NEW t \in Task, Update(p, n, t), t.minted = tasks[p][n].minted,
           t.pc \notin {"allocating", "recording", "releasing"} => t.minted = {},
           UNCHANGED <<records, statusList, redemptions>>
    PROVE  IndexInv'
<1>1. TaskOwners' = TaskOwners
  BY UpdateKeepsOwners DEF TypeOK
<1>2. HoldsNothing'
  BY UpdateHolds DEF IndexInv
<1>3. Redeeming' = Redeeming
  BY DEF Redeeming
<1>. QED
  BY <1>1, <1>2, <1>3, IndexInvFrame

\* A credential nobody revoked has no bit, so its index can be released.
LEMMA OwnersBits ==
    ASSUME IndexInv, NEW o \in RedemptionOwners \cup TaskOwners
    PROVE  o.idx \notin statusList.bits
<1>1. ASSUME o.idx \in statusList.bits
      PROVE  FALSE
  <2>1. PICK r \in records : r.idx = o.idx
    BY <1>1 DEF IndexInv, ListMatchesRevocations, BitsMatchRevocations
  <2>2. RecordOwner(r) \in Owners /\ o \in Owners /\ RecordOwner(r).idx = o.idx
    BY <2>1, OwnersDiffer DEF Owners, RecordOwners
  <2>3. RecordOwner(r) = o
    BY <2>2 DEF IndexInv, OwnersInv, Accounted
  <2>. QED
    BY <2>3, KindsDisjoint DEF RecordOwners
<1>. QED
  BY <1>1

\* Operations of the list that keep its bits keep what verifiers read.
LEMMA SameBits ==
    ASSUME ListMatchesRevocations, UNCHANGED records,
           statusList'.bits = statusList.bits,
           statusList'.cached = statusList.cached
    PROVE  ListMatchesRevocations'
  BY DEF ListMatchesRevocations, BitsMatchRevocations, CachedListIsCurrent

\* What each operation of the status list does to its counters, bits and cached list.
LEMMA ListEffects ==
    ASSUME NEW sl \in StatusLists
    PROVE  /\ Allocate(sl).bits = sl.bits
           /\ Allocate(sl).cached = sl.cached
           /\ \A I : /\ Release(sl, I).bits = sl.bits
                     /\ Release(sl, I).cached = sl.cached
           /\ \A i : /\ SetBit(sl, i).next = sl.next
                     /\ SetBit(sl, i).free = sl.free
           /\ Publish(sl).next = sl.next
           /\ Publish(sl).free = sl.free
           /\ Publish(sl).bits = sl.bits
  BY DEF StatusLists, Allocate, Release, SetBit, Publish

\* A delivery signs one more credential.
LEMMA AllocateKeepsIndexes ==
    ASSUME TypeOK, IndexInv, NEW p \in Pids, NEW n \in DOMAIN tasks[p],
           AllocateIndex(p, n)
    PROVE  IndexInv'
<1>. DEFINE i == AllocatedIndex(statusList)
<1>1. PICK d \in tasks[p][n].todo :
        Update(p, n, [tasks[p][n] EXCEPT
                        !.todo = @ \ {d}, !.minted = @ \cup {[def |-> d, idx |-> i]}])
  BY DEF AllocateIndex
<1>. DEFINE t == [tasks[p][n] EXCEPT
                    !.todo = @ \ {d}, !.minted = @ \cup {[def |-> d, idx |-> i]}]
            new == TaskOwner(p, n, [def |-> d, idx |-> i])
<1>2. /\ i \in Indexes
      /\ tasks[p][n] \in Task
  BY TaskTypes, AllocateType DEF TypeOK, AllocateIndex
<1>3. /\ t \in Task
      /\ t.minted = tasks[p][n].minted \cup {[def |-> d, idx |-> i]}
      /\ t.pc = "allocating"
  <2>1. tasks[p][n].pc = "allocating"
    BY DEF AllocateIndex, At
  <2>2. [def |-> d, idx |-> i] \in Minted
    BY <1>2 DEF Task, Minted
  <2>. HIDE DEF i
  <2>. QED
    BY <1>2, <2>1, <2>2 DEF Task
<1>4. TaskOwners' = TaskOwners \cup {new}
  <2>. HIDE DEF t
  <2>1. /\ Mine(p, n) \subseteq TaskOwners
        /\ TaskOwners' = (TaskOwners \ Mine(p, n))
                             \cup {TaskOwner(p, n, m) : m \in t.minted}
    BY <1>1, <1>3, UpdateOwners DEF TypeOK, t
  <2>2. {TaskOwner(p, n, m) : m \in t.minted} = Mine(p, n) \cup {new}
    BY <1>3 DEF Mine
  <2>. QED
    BY <2>1, <2>2
<1>5. new.idx = i
  BY DEF TaskOwner
<1>6. HoldsNothing'
  BY <1>1, <1>3, UpdateHolds DEF IndexInv
<1>. HIDE DEF t, new, i
<1>7. Owners' = Owners \cup {new}
  BY <1>4 DEF Owners, RecordOwners, RedemptionOwners, Redeeming, AllocateIndex
<1>8. OwnersInv'
  BY <1>5, <1>7, AllocateAccounts DEF TypeOK, IndexInv, OwnersInv, AllocateIndex, i
<1>9. ListMatchesRevocations'
  BY ListEffects, SameBits DEF TypeOK, IndexInv, AllocateIndex
<1>. QED
  BY <1>6, <1>8, <1>9 DEF IndexInv

\* The credentials of an accepted delivery become records: each index passes
\* from the task to one record.
LEMMA RecordKeepsIndexes ==
    ASSUME TypeOK, IndexInv, NEW p \in Pids, NEW n \in DOMAIN tasks[p],
           RecordIssued(p, n)
    PROVE  IndexInv'
<1>. DEFINE B == {RecordOwner(r) : r \in RecordsOf(p, n)}
            t == [NewTask EXCEPT !.pc = "delivered"]
<1>1. t \in Task /\ t.minted = {} /\ t.pc = "delivered" /\ Update(p, n, t)
  BY TaskTypes DEF NewTask, TaskPc, RecordIssued
<1>2. /\ Mine(p, n) \subseteq TaskOwners
      /\ TaskOwners' = TaskOwners \ Mine(p, n)
  <2>. HIDE DEF t
  <2>1. {TaskOwner(p, n, m) : m \in t.minted} = {}
    BY <1>1
  <2>. QED
    BY <1>1, <2>1, UpdateOwners DEF TypeOK
<1>3. HoldsNothing'
  BY <1>1, UpdateHolds DEF IndexInv
<1>. HIDE DEF t
<1>4. RecordOwners' = RecordOwners \cup B
  BY DEF RecordOwners, RecordIssued
<1>5. Owners' = (Owners \ Mine(p, n)) \cup B
  BY <1>2, <1>4, KindsDisjoint
     DEF Owners, RedemptionOwners, Redeeming, RecordIssued
<1>6. /\ \A b \in B : \E o \in Mine(p, n) : o.idx = b.idx
      /\ \A o \in Mine(p, n) : \E b \in B : o.idx = b.idx
      /\ \A b, c \in B : b.idx = c.idx => b = c
  <2>. DEFINE Rec(m) == [pid |-> p, def |-> m.def, idx |-> m.idx, status |-> "active"]
  <2>1. \A b : b \in B <=> \E m \in tasks[p][n].minted : b = RecordOwner(Rec(m))
    BY DEF RecordsOf
  <2>2. \A o : o \in Mine(p, n) <=>
           \E m \in tasks[p][n].minted : o = TaskOwner(p, n, m)
    BY DEF Mine
  <2>3. \A m : RecordOwner(Rec(m)).idx = m.idx /\ TaskOwner(p, n, m).idx = m.idx
    BY DEF RecordOwner, TaskOwner
  <2>4. \A m, k \in tasks[p][n].minted : m.idx = k.idx => m = k
    <3>1. IndexHasOneOwner
      BY OwnersInvImplies DEF IndexInv, IndexesAccounted
    <3>. QED
      BY <3>1 DEF IndexHasOneOwner
  <2>. HIDE DEF B, Rec
  <2>5. \A b \in B : \E o \in Mine(p, n) : o.idx = b.idx
    BY <2>1, <2>2, <2>3
  <2>6. \A o \in Mine(p, n) : \E b \in B : o.idx = b.idx
    BY <2>1, <2>2, <2>3
  <2>7. \A b, c \in B : b.idx = c.idx => b = c
    BY <2>1, <2>3, <2>4
  <2>. QED
    BY <2>5, <2>6, <2>7
<1>. HIDE DEF B
<1>7. OwnersInv'
  <2>1. /\ Accounted(Owners, statusList)
        /\ Mine(p, n) \in SUBSET Owners
        /\ statusList' = statusList
    BY <1>2 DEF IndexInv, OwnersInv, Owners, RecordIssued
  <2>2. Accounted((Owners \ Mine(p, n)) \cup B, statusList)
    BY <1>6, <2>1, HandOverAccounts
  <2>. QED
    BY <1>5, <2>1, <2>2 DEF OwnersInv
<1>8. ListMatchesRevocations'
  <2>1. statusList' = statusList
    BY DEF RecordIssued
  <2>2. {r.idx : r \in {s \in records' : s.status = "revoked"}}
          = {r.idx : r \in {s \in records : s.status = "revoked"}}
    <3>1. \A r \in RecordsOf(p, n) : r.status = "active"
      BY DEF RecordsOf
    <3>2. {s \in records' : s.status = "revoked"}
            = {s \in records : s.status = "revoked"}
      BY <3>1 DEF RecordIssued
    <3>. QED
      BY <3>2
  <2>. QED
    BY <2>1, <2>2
       DEF IndexInv, ListMatchesRevocations, BitsMatchRevocations, CachedListIsCurrent
<1>. QED
  BY <1>3, <1>7, <1>8 DEF IndexInv

\* A failed delivery hands back the indexes of its credentials, all of them.
LEMMA ReleaseKeepsIndexes ==
    ASSUME TypeOK, IndexInv, NEW p \in Pids, NEW n \in DOMAIN tasks[p],
           ReleaseIndexes(p, n)
    PROVE  IndexInv'
<1>. DEFINE I == {m.idx : m \in tasks[p][n].minted}
            t == [NewTask EXCEPT !.pc = "errored"]
<1>1. t \in Task /\ t.minted = {} /\ t.pc = "errored" /\ Update(p, n, t)
  BY TaskTypes DEF NewTask, TaskPc, ReleaseIndexes
<1>2. /\ Mine(p, n) \subseteq TaskOwners
      /\ TaskOwners' = TaskOwners \ Mine(p, n)
  <2>. HIDE DEF t
  <2>1. {TaskOwner(p, n, m) : m \in t.minted} = {}
    BY <1>1
  <2>. QED
    BY <1>1, <2>1, UpdateOwners DEF TypeOK
<1>3. HoldsNothing'
  BY <1>1, UpdateHolds DEF IndexInv
<1>. HIDE DEF t
<1>4. Owners' = Owners \ Mine(p, n)
  BY <1>2, KindsDisjoint
     DEF Owners, RecordOwners, RedemptionOwners, Redeeming, ReleaseIndexes
<1>5. \A i : i \in I <=> \E o \in Mine(p, n) : o.idx = i
  BY OwnersDiffer DEF Mine
<1>6. I \cap statusList.bits = {}
  BY <1>2, <1>5, OwnersBits
<1>7. OwnersInv'
  <2>1. /\ Accounted(Owners, statusList)
        /\ Mine(p, n) \in SUBSET Owners
        /\ statusList \in StatusLists
        /\ statusList' = Release(statusList, I)
    BY <1>2 DEF IndexInv, OwnersInv, Owners, ReleaseIndexes, TypeOK
  <2>. HIDE DEF I
  <2>2. Accounted(Owners \ Mine(p, n), Release(statusList, I))
    BY <1>5, <1>6, <2>1, ReleaseAccounts
  <2>. QED
    BY <1>4, <2>1, <2>2 DEF OwnersInv
<1>8. ListMatchesRevocations'
  BY ListEffects, SameBits DEF TypeOK, IndexInv, ReleaseIndexes
<1>. QED
  BY <1>3, <1>7, <1>8 DEF IndexInv
\* A redemption takes its index, moves on, becomes a record or gives up.
LEMMA RedeemKeepsIndexes ==
    ASSUME TypeOK, IndexInv, NEW r \in redemptions,
           \/ RedeemHolder(r)  \/ RedeemAllocate(r) \/ RedeemInsert(r)
           \/ RedeemRelease(r) \/ RedeemRecord(r)
    PROVE  IndexInv'
<1>. DEFINE A == {RedemptionOwner(r)}
            Holding == {"indexed", "inserted", "releasing"}
<1>1. \A x : x \in RedemptionOwners' <=>
         \E s \in redemptions' : s.pc \in Holding /\ x = RedemptionOwner(s)
  BY DEF RedemptionOwners, Redeeming
<1>2. \A x : x \in RedemptionOwners <=>
         \E s \in redemptions : s.pc \in Holding /\ x = RedemptionOwner(s)
  BY DEF RedemptionOwners, Redeeming
<1>3. HoldsNothing' /\ TaskOwners' = TaskOwners
  BY SameTasksHold
     DEF IndexInv, RedeemHolder, RedeemAllocate, RedeemInsert, RedeemRelease,
         RedeemRecord
<1>4. r \in Redemption
  BY DEF TypeOK
<1>5. ASSUME r.pc \in Holding
      PROVE  /\ A \in SUBSET Owners
             /\ \A x : x \in RedemptionOwners \ A <=>
                   \E s \in redemptions \ {r} :
                       s.pc \in Holding /\ x = RedemptionOwner(s)
             /\ r.idx \notin statusList.bits
  <2>1. RedemptionOwner(r) \in RedemptionOwners
    BY <1>2, <1>5
  <2>2. r.idx \notin statusList.bits
    BY <2>1, OwnersBits, OwnersDiffer
  <2>3. \A x : x \in RedemptionOwners \ A <=>
          \E s \in redemptions \ {r} : s.pc \in Holding /\ x = RedemptionOwner(s)
    BY <1>2, OwnersDiffer
  <2>. QED
    BY <2>1, <2>2, <2>3 DEF Owners
<1>. HIDE DEF Holding
<1>6. CASE RedeemHolder(r)
  <2>1. r.pc \notin Holding
    BY <1>6 DEF RedeemHolder, Holding
  <2>2. [r EXCEPT !.pc = "allowed"].pc \notin Holding
    BY <1>4 DEF Holding, Redemption
  <2>3. Redeeming' = Redeeming
    <3>1. \A s : s.pc \in Holding => (s \in redemptions' <=> s \in redemptions)
      BY <1>6, <2>1, <2>2 DEF RedeemHolder, Replace
    <3>. QED
      BY <3>1 DEF Redeeming, Holding
  <2>. QED
    BY <1>3, <1>6, <2>3, IndexInvFrame DEF RedeemHolder
<1>7. CASE RedeemAllocate(r)
  <2>1. r.pc \notin Holding
    BY <1>7 DEF RedeemAllocate, Holding
  <2>2. CASE CanAllocate(statusList)
    <3>. DEFINE s == [r EXCEPT !.pc = "indexed", !.idx = AllocatedIndex(statusList)]
    <3>1. /\ s.pc \in Holding
          /\ s.idx = AllocatedIndex(statusList)
          /\ redemptions' = (redemptions \ {r}) \cup {s}
          /\ statusList' = Allocate(statusList)
      BY <1>4, <1>7, <2>2 DEF RedeemAllocate, Replace, Holding, Redemption
    <3>. HIDE DEF s
    <3>2. RedemptionOwners' = RedemptionOwners \cup {RedemptionOwner(s)}
      BY <1>1, <1>2, <2>1, <3>1
    <3>3. Owners' = Owners \cup {RedemptionOwner(s)}
      BY <1>3, <1>7, <3>2 DEF Owners, RecordOwners, RedeemAllocate
    <3>4. Accounted(Owners \cup {RedemptionOwner(s)}, Allocate(statusList))
      <4>1. RedemptionOwner(s).idx = AllocatedIndex(statusList)
        BY <3>1, OwnersDiffer
      <4>. QED
        BY <2>2, <4>1, AllocateAccounts DEF TypeOK, IndexInv, OwnersInv
    <3>5. ListMatchesRevocations'
      BY <1>7, <3>1, ListEffects, SameBits DEF TypeOK, IndexInv, RedeemAllocate
    <3>. QED
      BY <1>3, <3>1, <3>3, <3>4, <3>5 DEF IndexInv, OwnersInv
  <2>3. CASE ~ CanAllocate(statusList)
    <3>1. Redeeming' = Redeeming
      BY <1>7, <2>1, <2>3 DEF RedeemAllocate, Redeeming, Holding
    <3>. QED
      BY <1>3, <1>7, <2>3, <3>1, IndexInvFrame DEF RedeemAllocate
  <2>. QED
    BY <2>2, <2>3
<1>8. CASE RedeemInsert(r)
  <2>1. r.pc \in Holding
    BY <1>8 DEF RedeemInsert, Holding
  <2>2. PICK s : s.pc \in Holding /\ s.idx = r.idx /\ Replace(r, s)
    <3>1. CASE CanInsert(requests)
      BY <1>4, <1>8, <3>1 DEF RedeemInsert, Holding, Redemption
    <3>2. CASE ~ CanInsert(requests)
      BY <1>4, <1>8, <3>2 DEF RedeemInsert, Holding, Redemption
    <3>. QED
      BY <3>1, <3>2
  <2>3. RedemptionOwners' = (RedemptionOwners \ A) \cup {RedemptionOwner(s)}
    BY <1>1, <1>5, <2>1, <2>2 DEF Replace
  <2>4. Owners' = (Owners \ A) \cup {RedemptionOwner(s)}
    BY <1>3, <1>8, <2>3, OwnersDiffer, TaskOwnersAre
       DEF Owners, RecordOwners, RedeemInsert
  <2>5. Accounted((Owners \ A) \cup {RedemptionOwner(s)}, statusList)
    <3>. DEFINE B == {RedemptionOwner(s)}
    <3>1. /\ \A b \in B : \E o \in A : o.idx = b.idx
          /\ \A o \in A : \E b \in B : o.idx = b.idx
          /\ \A b, c \in B : b.idx = c.idx => b = c
      BY <2>2, OwnersDiffer
    <3>2. Accounted(Owners, statusList) /\ A \in SUBSET Owners
      BY <1>5, <2>1 DEF IndexInv, OwnersInv
    <3>. HIDE DEF A, B
    <3>3. Accounted((Owners \ A) \cup B, statusList)
      BY <3>1, <3>2, HandOverAccounts
    <3>. QED
      BY <3>3 DEF B
  <2>6. ListMatchesRevocations'
    BY <1>8, SameBits DEF RedeemInsert, IndexInv
  <2>. QED
    BY <1>3, <1>8, <2>4, <2>5, <2>6 DEF IndexInv, OwnersInv, RedeemInsert
<1>9. CASE RedeemRelease(r)
  <2>1. r.pc \in Holding
    BY <1>9 DEF RedeemRelease, Holding
  <2>2. RedemptionOwners' = RedemptionOwners \ A
    BY <1>1, <1>5, <1>9, <2>1 DEF RedeemRelease
  <2>3. Owners' = Owners \ A
    BY <1>3, <1>9, <2>2, OwnersDiffer, TaskOwnersAre
       DEF Owners, RecordOwners, RedeemRelease
  <2>4. Accounted(Owners \ A, Release(statusList, {r.idx}))
    <3>1. \A i : i \in {r.idx} <=> \E o \in A : o.idx = i
      BY OwnersDiffer
    <3>2. {r.idx} \cap statusList.bits = {}
      BY <1>5, <2>1
    <3>. QED
      BY <1>5, <2>1, <3>1, <3>2, ReleaseAccounts DEF TypeOK, IndexInv, OwnersInv
  <2>5. ListMatchesRevocations'
    BY <1>9, ListEffects, SameBits DEF TypeOK, IndexInv, RedeemRelease
  <2>. QED
    BY <1>3, <1>9, <2>3, <2>4, <2>5 DEF IndexInv, OwnersInv, RedeemRelease
<1>10. CASE RedeemRecord(r)
  <2>1. r.pc \in Holding
    BY <1>10 DEF RedeemRecord, Holding
  <2>. DEFINE rec == [pid |-> r.pid, def |-> r.def, idx |-> r.idx,
                      status |-> "active"]
  <2>2. rec.idx = r.idx /\ rec.status = "active"
    OBVIOUS
  <2>3. records' = records \cup {rec} /\ redemptions' = redemptions \ {r}
        /\ statusList' = statusList
    BY <1>10 DEF RedeemRecord
  <2>. HIDE DEF rec
  <2>4. RedemptionOwners' = RedemptionOwners \ A
    BY <1>1, <1>5, <2>1, <2>3
  <2>5. RecordOwners' = RecordOwners \cup {RecordOwner(rec)}
    BY <2>3 DEF RecordOwners
  <2>6. Owners' = (Owners \ A) \cup {RecordOwner(rec)}
    BY <1>3, <2>4, <2>5, OwnersDiffer, TaskOwnersAre DEF Owners, RecordOwners
  <2>7. Accounted((Owners \ A) \cup {RecordOwner(rec)}, statusList)
    <3>. DEFINE B == {RecordOwner(rec)}
    <3>1. /\ \A b \in B : \E o \in A : o.idx = b.idx
          /\ \A o \in A : \E b \in B : o.idx = b.idx
          /\ \A b, c \in B : b.idx = c.idx => b = c
      BY <2>2, OwnersDiffer
    <3>2. Accounted(Owners, statusList) /\ A \in SUBSET Owners
      BY <1>5, <2>1 DEF IndexInv, OwnersInv
    <3>. HIDE DEF A, B
    <3>3. Accounted((Owners \ A) \cup B, statusList)
      BY <3>1, <3>2, HandOverAccounts
    <3>. QED
      BY <3>3 DEF B
  <2>8. ListMatchesRevocations'
    <3>1. {s \in records' : s.status = "revoked"}
            = {s \in records : s.status = "revoked"}
      BY <2>2, <2>3
    <3>. QED
      BY <2>3, <3>1 DEF IndexInv, ListMatchesRevocations, BitsMatchRevocations,
                        CachedListIsCurrent
  <2>. QED
    BY <1>3, <2>3, <2>6, <2>7, <2>8 DEF IndexInv, OwnersInv
<1>. QED
  BY <1>6, <1>7, <1>8, <1>9, <1>10
\* A revocation sets the bit of its record and of no other credential.
LEMMA RevokeKeepsIndexes ==
    ASSUME TypeOK, IndexInv, NEW r \in records, RevokeCredential(r)
    PROVE  IndexInv'
<1>. DEFINE s == [r EXCEPT !.status = "revoked"]
            A == {RecordOwner(r)}
            B == {RecordOwner(s)}
<1>1. /\ s.idx = r.idx
      /\ s.status = "revoked"
      /\ records' = (records \ {r}) \cup {s}
      /\ statusList' = SetBit(statusList, r.idx)
      /\ statusList \in StatusLists
  BY DEF TypeOK, IssuedCredential, RevokeCredential
<1>. HIDE DEF s
<1>2. HoldsNothing' /\ TaskOwners' = TaskOwners
  BY SameTasksHold DEF IndexInv, RevokeCredential
<1>3. RecordOwners' = (RecordOwners \ A) \cup B
  BY <1>1, OwnersDiffer DEF RecordOwners
<1>4. Owners' = (Owners \ A) \cup B
  <2>1. RedemptionOwners' = RedemptionOwners
    BY DEF RedemptionOwners, Redeeming, RevokeCredential
  <2>. QED
    BY <1>2, <1>3, <2>1, OwnersDiffer, TaskOwnersAre DEF Owners, RedemptionOwners
<1>5. Accounted((Owners \ A) \cup B, statusList)
  <2>1. /\ \A b \in B : \E o \in A : o.idx = b.idx
        /\ \A o \in A : \E b \in B : o.idx = b.idx
        /\ \A b, c \in B : b.idx = c.idx => b = c
    BY <1>1, OwnersDiffer
  <2>2. Accounted(Owners, statusList) /\ A \in SUBSET Owners
    BY DEF IndexInv, OwnersInv, Owners, RecordOwners
  <2>. HIDE DEF A, B
  <2>. QED
    BY <2>1, <2>2, HandOverAccounts
<1>. HIDE DEF A, B
<1>6. OwnersInv'
  BY <1>1, <1>4, <1>5, ListEffects, SameListAccounts DEF OwnersInv
<1>7. BitsMatchRevocations'
  <2>. DEFINE Revoked(R) == {u.idx : u \in {v \in R : v.status = "revoked"}}
  <2>1. statusList.bits = Revoked(records)
    BY DEF IndexInv, ListMatchesRevocations, BitsMatchRevocations
  <2>2. statusList'.bits = statusList.bits \cup {r.idx}
    BY <1>1 DEF SetBit, StatusLists
  <2>3. \A i : i \in Revoked(records') <=> i \in Revoked(records) \/ i = r.idx
    BY <1>1
  <2>. QED
    BY <2>1, <2>2, <2>3 DEF BitsMatchRevocations
<1>8. CachedListIsCurrent'
  BY <1>1 DEF IndexInv, ListMatchesRevocations, CachedListIsCurrent, SetBit,
              StatusLists
<1>. QED
  BY <1>2, <1>6, <1>7, <1>8 DEF IndexInv, ListMatchesRevocations

\* The steps of a delivery task.
LEMMA DeliverKeepsIndexes ==
    ASSUME TypeOK, IndexInv, NEW p \in Pids, NEW n \in DOMAIN tasks[p],
           AcquirePermit(p, n) \/ Deliver(p, n)
    PROVE  IndexInv'
<1>. DEFINE Holding == {"allocating", "recording", "releasing"}
<1>1. /\ tasks[p][n] \in Task
      /\ \A pc \in TaskPc : [NewTask EXCEPT !.pc = pc] \in Task
      /\ tasks[p][n].pc \notin Holding => tasks[p][n].minted = {}
  BY TaskTypes DEF IndexInv, HoldsNothing
<1>2. ASSUME UNCHANGED <<records, statusList, redemptions>>,
             NEW pc \in TaskPc, GoTo(p, n, pc),
             tasks[p][n].pc \in Holding => pc \in Holding
      PROVE  IndexInv'
  <2>1. /\ [tasks[p][n] EXCEPT !.pc = pc] \in Task
        /\ Update(p, n, [tasks[p][n] EXCEPT !.pc = pc])
    BY <1>2, GoToEffect DEF TypeOK
  <2>2. /\ [tasks[p][n] EXCEPT !.pc = pc].minted = tasks[p][n].minted
        /\ [tasks[p][n] EXCEPT !.pc = pc].pc = pc
    BY <1>1 DEF Task
  <2>. QED
    BY <1>1, <1>2, <2>1, <2>2, MoveKeepsIndexes
<1>3. ASSUME UNCHANGED <<records, statusList, redemptions>>,
             NEW t \in Task, Update(p, n, t), t.minted = {},
             tasks[p][n].pc \notin Holding
      PROVE  IndexInv'
  BY <1>1, <1>3, MoveKeepsIndexes
<1>4. \A pc : At(p, n, pc) => tasks[p][n].pc = pc
  BY DEF At
<1>5. CASE AcquirePermit(p, n)
  BY <1>2, <1>4, <1>5 DEF AcquirePermit, TaskPc
<1>6. CASE ClaimProcess(p, n)
  <2>1. [pc |-> "claimed", todo |-> requests[p].defs, minted |-> {}] \in Task
    BY <1>6 DEF ClaimProcess, Claimable, TypeOK, IssuanceProcess, Task, TaskPc
  <2>. QED
    BY <1>3, <1>4, <1>6, <2>1 DEF ClaimProcess
<1>7. ASSUME Exit(p, n), UNCHANGED <<records, statusList, redemptions>>,
             tasks[p][n].pc \notin Holding
      PROVE  IndexInv'
  <2>1. /\ [NewTask EXCEPT !.pc = "done"] \in Task
        /\ [NewTask EXCEPT !.pc = "done"].minted = {}
    BY <1>1 DEF TaskPc, NewTask
  <2>. QED
    BY <1>3, <1>7, <2>1 DEF Exit
<1>8. CASE AbandonProcess(p, n)
  BY <1>4, <1>7, <1>8 DEF AbandonProcess
<1>9. CASE LookUpDefinitions(p, n)
  BY <1>2, <1>4, <1>9 DEF LookUpDefinitions, TaskPc
<1>10. CASE ResolveHolder(p, n)
  BY <1>2, <1>4, <1>10 DEF ResolveHolder, TaskPc
<1>11. CASE AllocationFails(p, n)
  BY <1>2, <1>4, <1>11 DEF AllocationFails, TaskPc
<1>12. CASE PostCredentials(p, n)
  BY <1>2, <1>4, <1>12 DEF PostCredentials, TaskPc
<1>13. CASE FinishDelivery(p, n)
  BY <1>4, <1>7, <1>13 DEF FinishDelivery
<1>. QED
  BY <1>5, <1>6, <1>8, <1>9, <1>10, <1>11, <1>12, <1>13, AllocateKeepsIndexes,
     RecordKeepsIndexes, ReleaseKeepsIndexes DEF Deliver

\* The indexes of the status list are accounted for at every moment: each one
\* handed out has exactly one owner, and the published bits are those of the
\* revoked records, however deliveries, redemptions, failures and revocations
\* interleave.
THEOREM IndexesSafe == Spec => []IndexInv
<1>1. Init => IndexInv
  <2>. SUFFICES ASSUME Init PROVE IndexInv
    OBVIOUS
  <2>1. \A p \in Pids : DOMAIN tasks[p] = {}
    BY DEF Init
  <2>2. Owners = {}
    BY <2>1 DEF Init, Owners, RecordOwners, RedemptionOwners, Redeeming, TaskOwners
  <2>. QED
    BY <2>1, <2>2 DEF Init, IndexInv, OwnersInv, Accounted, EmptyStatusList,
         HoldsNothing, ListMatchesRevocations, BitsMatchRevocations,
         CachedListIsCurrent
<1>2. TypeOK /\ IndexInv /\ [Next]_vars => IndexInv'
  <2>. SUFFICES ASSUME TypeOK, IndexInv, [Next]_vars
                PROVE  IndexInv'
    OBVIOUS
  <2>1. ASSUME UNCHANGED <<tasks, records, statusList, redemptions>>
        PROVE  IndexInv'
    <3>1. HoldsNothing' /\ TaskOwners' = TaskOwners /\ Redeeming' = Redeeming
      BY <2>1, SameTasksHold DEF IndexInv, Redeeming
    <3>. QED
      BY <2>1, <3>1, IndexInvFrame
  <2>2. CASE Admin
    <3>1. CASE \E d \in Definitions : CreateDefinition(d) \/ DeleteDefinition(d)
      BY <2>1, <3>1 DEF CreateDefinition, DeleteDefinition
    <3>2. ASSUME NEW h \in Holders, RegisterHolder(h) \/ RejectHolder(h)
          PROVE  IndexInv'
      BY <2>1, <3>2 DEF RegisterHolder, RejectHolder
    <3>3. ASSUME NEW h \in Holders, ApproveHolder(h)
          PROVE  IndexInv'
      BY <3>3, SpawnKeepsIndexes DEF ApproveHolder
    <3>. QED
      BY <2>2, <3>1, <3>2, <3>3, RevokeKeepsIndexes DEF Admin
  <2>3. ASSUME NEW h \in Holders, NEW ds \in SUBSET Definitions,
               CredentialRequestAccepted(h, ds)
        PROVE  IndexInv'
    <3>1. PICK P : Spawn(P)
      BY <2>3 DEF CredentialRequestAccepted
    <3>. QED
      BY <2>3, <3>1, SpawnKeepsIndexes DEF CredentialRequestAccepted
  <2>4. ASSUME NEW h \in Holders, NEW ds \in SUBSET Definitions,
               CredentialRequestRefused(h, ds)
        PROVE  IndexInv'
    BY <2>1, <2>4 DEF CredentialRequestRefused
  <2>5. CASE ServeStatusList
    <3>1. HoldsNothing' /\ TaskOwners' = TaskOwners
      BY <2>5, SameTasksHold DEF IndexInv, ServeStatusList
    <3>2. Owners' = Owners
      BY <2>5, <3>1 DEF Owners, RecordOwners, RedemptionOwners, Redeeming,
                        ServeStatusList
    <3>3. OwnersInv'
      BY <2>5, <3>2, ListEffects, SameListAccounts
         DEF OwnersInv, IndexInv, ServeStatusList, TypeOK
    <3>4. ListMatchesRevocations'
      BY <2>5 DEF ServeStatusList, Publish, IndexInv, ListMatchesRevocations,
           BitsMatchRevocations, CachedListIsCurrent, TypeOK, StatusLists
    <3>. QED
      BY <3>1, <3>3, <3>4 DEF IndexInv
  <2>6. ASSUME NEW id \in Redemptions, NEW h \in Holders, NEW d \in Definitions,
               RedeemStart(id, h, d)
        PROVE  IndexInv'
    <3>1. HoldsNothing' /\ TaskOwners' = TaskOwners
      BY <2>6, SameTasksHold DEF IndexInv, RedeemStart
    <3>2. Redeeming' = Redeeming
      BY <2>6 DEF RedeemStart, Redeeming
    <3>. QED
      BY <2>6, <3>1, <3>2, IndexInvFrame DEF RedeemStart
  <2>7. CASE UNCHANGED vars
    BY <2>1, <2>7 DEF vars
  <2>. QED
    BY <2>2, <2>3, <2>4, <2>5, <2>6, <2>7, DeliverKeepsIndexes,
       RedeemKeepsIndexes DEF Next, Request, Delivery, Redeem
<1>. QED
  BY <1>1, <1>2, TypeCorrect, PTL DEF Spec

\* No status-list index is ever shared between two credentials, lost by a
\* failed delivery or free while a credential uses it.
THEOREM IndexesAlwaysAccounted == Spec => []IndexesAccounted
<1>1. TypeOK /\ IndexInv => IndexesAccounted
  BY OwnersInvImplies DEF IndexInv
<1>. QED
  BY <1>1, TypeCorrect, IndexesSafe, PTL

\* A verifier reads a credential as revoked exactly when its record is.
THEOREM RevocationsPublished == Spec => []ListMatchesRevocations
<1>1. IndexInv => ListMatchesRevocations
  BY DEF IndexInv
<1>. QED
  BY <1>1, IndexesSafe, PTL

-----------------------------------------------------------------------------
(* Records and outcomes *)

\* The definitions process p has a record for, among the records R.
RecordedIn(R, p) == {r.def : r \in {s \in R : s.pid = p}}

\* The redemptions of D that are about to record a credential of process p.
InsertedFor(D, p) == {r \in D : r.pc = "inserted" /\ r.pid = p}

\* The definitions a task has signed a credential for.
Signed(t) == {m.def : m \in t.minted}

\* A process x with these definitions on record, R being its redemptions.
ProcessFits(x, recorded, R) ==
    /\ x.defs # {}
    /\ x.state = "DELIVERED" => recorded = x.defs \/ R # {}
    /\ x.state \in {"ERRORED", "REJECTED", "SUBMITTED"} => recorded = {}
    /\ x.state = "APPROVED" /\ ~ x.started => recorded = {}

\* A task t of a process that asked for ds: it signs each definition once, and
\* nothing is on record until it has recorded everything.
TaskFits(t, ds, recorded) ==
    /\ t.pc = "delivered" => recorded = ds
    /\ t.pc \in Claimed \ {"delivered"} => recorded = {}
    /\ t.pc \in {"claimed", "resolving", "allocating"} => t.todo \cup Signed(t) = ds
    /\ t.pc = "recording" => Signed(t) = ds
    /\ t.todo \cap Signed(t) = {}
    /\ \A m, k \in t.minted : m.def = k.def => m = k

RecordsUnique(R) == \A r, s \in R : r.pid = s.pid /\ r.def = s.def => r = s

\* A redemption about to record its credential is the only one that ever will
\* for its process, which has no delivery task.
RedemptionsFit ==
    \A r \in redemptions : r.pc = "inserted" =>
        /\ r.pid < nextPid
        /\ RecordedIn(records, r.pid) = {}
        /\ Len(tasks[r.pid]) = 0
        /\ r.pid \in DOMAIN requests => /\ requests[r.pid].state = "DELIVERED"
                                        /\ requests[r.pid].defs = {r.def}
        /\ InsertedFor(redemptions, r.pid) = {r}

\* Who has which records, as one inductive invariant.
RecordInv ==
    /\ RecordsUnique(records)
    /\ \A r \in records : r.pid < nextPid
    /\ RedemptionsFit
    /\ \A p \in DOMAIN requests :
          ProcessFits(requests[p], RecordedIn(records, p), InsertedFor(redemptions, p))
    /\ \A p \in Pids : \A n \in DOMAIN tasks[p] :
          TaskFits(tasks[p][n], requests[p].defs, RecordedIn(records, p))

\* What the runs check follows.
LEMMA RecordInvImplies == RecordInv => RecordsMatchOutcome
  BY DEF RecordInv, RecordsUnique, ProcessFits, RecordedIn, InsertedFor,
     RecordsMatchOutcome, OnRecord

\* Steps that touch no process, task or record, nor a redemption about to
\* record.
LEMMA RecordFrame ==
    ASSUME RecordInv, UNCHANGED <<requests, nextPid, tasks, records>>,
           \A r : r.pc = "inserted" => (r \in redemptions' <=> r \in redemptions)
    PROVE  RecordInv'
<1>1. \A p : InsertedFor(redemptions', p) = InsertedFor(redemptions, p)
  BY DEF InsertedFor
<1>. QED
  BY <1>1 DEF RecordInv, RedemptionsFit

\* A task's step.
LEMMA TaskStepKeepsRecords ==
    ASSUME TypeOK, ProcessInv, RecordInv, NEW p \in Pids, NEW n \in DOMAIN tasks[p],
           NEW t \in Task, Update(p, n, t), UNCHANGED <<nextPid, redemptions>>,
           DOMAIN requests' = DOMAIN requests,
           \A q \in DOMAIN requests : q # p => requests'[q] = requests[q],
           \A q : q # p => RecordedIn(records', q) = RecordedIn(records, q),
           RecordsUnique(records'), \A r \in records' : r.pid < nextPid,
           TaskFits(t, requests'[p].defs, RecordedIn(records', p)),
           p \in DOMAIN requests =>
               ProcessFits(requests'[p], RecordedIn(records', p),
                           InsertedFor(redemptions, p))
    PROVE  RecordInv'
<1>1. /\ tasks' \in [Pids -> Seq(Task)]
      /\ \A q \in Pids : Len(tasks'[q]) = Len(tasks[q])
      /\ tasks'[p][n] = t
      /\ \A q \in Pids : \A k \in DOMAIN tasks[q] :
            q # p \/ k # n => tasks'[q][k] = tasks[q][k]
  BY UpdateEffect DEF TypeOK
<1>2. \A q \in Pids : DOMAIN tasks'[q] = DOMAIN tasks[q]
  BY <1>1, Shapes, LenProperties
<1>3. \A k \in DOMAIN tasks[p] : k = n
  BY Shapes DEF ProcessInv, OneDeliveryTask
<1>4. RedemptionsFit'
  <2>1. SUFFICES ASSUME NEW r \in redemptions, r.pc = "inserted"
                 PROVE  /\ r.pid < nextPid
                        /\ RecordedIn(records', r.pid) = {}
                        /\ Len(tasks'[r.pid]) = 0
                        /\ r.pid \in DOMAIN requests' =>
                              /\ requests'[r.pid].state = "DELIVERED"
                              /\ requests'[r.pid].defs = {r.def}
                        /\ InsertedFor(redemptions, r.pid) = {r}
    BY DEF RedemptionsFit
  <2>2. r.pid # p /\ r.pid \in Pids
    BY <2>1, Shapes DEF RecordInv, RedemptionsFit, TypeOK
  <2>3. /\ r.pid < nextPid
        /\ RecordedIn(records, r.pid) = {}
        /\ Len(tasks[r.pid]) = 0
        /\ r.pid \in DOMAIN requests => /\ requests[r.pid].state = "DELIVERED"
                                        /\ requests[r.pid].defs = {r.def}
        /\ InsertedFor(redemptions, r.pid) = {r}
    BY <2>1 DEF RecordInv, RedemptionsFit
  <2>4. RecordedIn(records', r.pid) = {}
    BY <2>2, <2>3
  <2>5. Len(tasks'[r.pid]) = 0
    BY <1>1, <2>2, <2>3
  <2>. QED
    BY <2>2, <2>3, <2>4, <2>5
<1>5. \A q \in DOMAIN requests' :
        ProcessFits(requests'[q], RecordedIn(records', q), InsertedFor(redemptions', q))
  BY DEF RecordInv
<1>6. \A q \in Pids : \A k \in DOMAIN tasks'[q] :
        TaskFits(tasks'[q][k], requests'[q].defs, RecordedIn(records', q))
  <2>1. ASSUME NEW q \in Pids, NEW k \in DOMAIN tasks'[q]
        PROVE  TaskFits(tasks'[q][k], requests'[q].defs, RecordedIn(records', q))
    <3>1. CASE q = p
      BY <1>1, <1>2, <1>3, <3>1
    <3>2. CASE q # p /\ q \in DOMAIN requests
      BY <1>1, <1>2, <3>2 DEF RecordInv
    <3>3. CASE q # p /\ q \notin DOMAIN requests
      <4>1. tasks'[q][k] = tasks[q][k] /\ k \in DOMAIN tasks[q]
        BY <1>1, <1>2, <3>3
      <4>2. tasks[q][k].pc \notin Claimed
        BY <3>3, <4>1 DEF ProcessInv, ClaimedProcessStays
      <4>3. TaskFits(tasks[q][k], requests[q].defs, RecordedIn(records, q))
        BY <4>1 DEF RecordInv
      <4>. QED
        BY <4>1, <4>2, <4>3 DEF TaskFits, Claimed, WithPermit, TaskPc
    <3>. QED
      BY <3>1, <3>2, <3>3
  <2>. QED
    BY <2>1
<1>. QED
  BY <1>4, <1>5, <1>6 DEF RecordInv

\* A task that moves on, with no record or process changed.
LEMMA MoveKeepsRecords ==
    ASSUME TypeOK, ProcessInv, RecordInv, NEW p \in Pids, NEW n \in DOMAIN tasks[p],
           NEW t \in Task, Update(p, n, t),
           UNCHANGED <<requests, nextPid, records, redemptions>>,
           TaskFits(t, requests[p].defs, RecordedIn(records, p))
    PROVE  RecordInv'
<1>1. /\ RecordsUnique(records')
      /\ \A r \in records' : r.pid < nextPid
      /\ \A q \in DOMAIN requests :
            ProcessFits(requests[q], RecordedIn(records, q), InsertedFor(redemptions, q))
  BY DEF RecordInv
<1>. QED
  BY <1>1, TaskStepKeepsRecords

\* The records of an accepted delivery: all that its process asked for, and the
\* first that its process gets.
LEMMA RecordIssuedEffect ==
    ASSUME TypeOK, ProcessInv, RecordInv, NEW p \in Pids,
           NEW n \in DOMAIN tasks[p], RecordIssued(p, n)
    PROVE  /\ p \in DOMAIN requests
           /\ requests[p].state = "APPROVED" /\ requests[p].started
           /\ RecordedIn(records, p) = {}
           /\ RecordedIn(records', p) = requests[p].defs
           /\ \A q : q # p => RecordedIn(records', q) = RecordedIn(records, q)
           /\ RecordsUnique(records')
           /\ \A r \in records' : r.pid < nextPid
<1>. DEFINE old == tasks[p][n]
            ds == requests[p].defs
            on == RecordedIn(records, p)
<1>1. TaskFits(old, ds, on)
  BY DEF RecordInv
<1>2. /\ old.pc = "recording"
      /\ records' = records \cup RecordsOf(p, n)
  BY DEF RecordIssued, At
<1>3. /\ p \in DOMAIN requests /\ requests[p].state = "APPROVED"
      /\ requests[p].started /\ on = {} /\ Signed(old) = ds
  BY <1>1, <1>2 DEF TaskFits, Claimed, WithPermit, TaskPc, ProcessInv,
                    ClaimedProcessStays
<1>. HIDE DEF old, ds, on
<1>4. \A r : r \in RecordsOf(p, n) <=>
        \E m \in old.minted : r = [pid |-> p, def |-> m.def, idx |-> m.idx,
                                   status |-> "active"]
  BY DEF RecordsOf, old
<1>5. \A q : q # p => RecordedIn(records', q) = RecordedIn(records, q)
  <2>1. \A r \in RecordsOf(p, n) : r.pid = p
    BY <1>4
  <2>. QED
    BY <1>2, <2>1 DEF RecordedIn
<1>6. RecordedIn(records', p) = ds
  <2>1. \A d : d \in RecordedIn(records', p) <=> \E r \in records' : r.pid = p /\ r.def = d
    BY DEF RecordedIn
  <2>2. \A r \in records : r.pid # p
    BY <1>3 DEF RecordedIn, on
  <2>3. \A r \in RecordsOf(p, n) : r.pid = p /\ r.def \in Signed(old)
    BY <1>4 DEF Signed
  <2>4. ASSUME NEW d \in Signed(old)
        PROVE  \E r \in RecordsOf(p, n) : r.pid = p /\ r.def = d
    <3>1. PICK m \in old.minted : d = m.def
      BY <2>4 DEF Signed
    <3>. DEFINE r == [pid |-> p, def |-> m.def, idx |-> m.idx, status |-> "active"]
    <3>2. r \in RecordsOf(p, n) /\ r.pid = p /\ r.def = d
      BY <1>4, <3>1
    <3>. QED
      BY <3>2
  <2>5. \A d : d \in RecordedIn(records', p) <=> d \in Signed(old)
    BY <1>2, <2>1, <2>2, <2>3, <2>4
  <2>. QED
    BY <1>3, <2>5
<1>7. RecordsUnique(records')
  <2>1. \A r \in records : r.pid # p
    BY <1>3 DEF RecordedIn, on
  <2>2. \A r, s \in RecordsOf(p, n) : r.def = s.def => r = s
    BY <1>1, <1>4 DEF TaskFits
  <2>3. \A r \in RecordsOf(p, n) : r.pid = p
    BY <1>4
  <2>4. RecordsUnique(records)
    BY DEF RecordInv
  <2>. QED
    BY <1>2, <2>1, <2>2, <2>3, <2>4 DEF RecordsUnique
<1>8. \A r \in records' : r.pid < nextPid
  BY <1>2, <1>3, <1>4, Shapes DEF RecordInv
<1>. QED
  BY <1>3, <1>5, <1>6, <1>7, <1>8 DEF ds, on

\* The steps of a delivery task: signing, recording, reporting.
LEMMA DeliverKeepsRecords ==
    ASSUME TypeOK, ProcessInv, RecordInv, HoldsNothing,
           NEW p \in Pids, NEW n \in DOMAIN tasks[p],
           AcquirePermit(p, n) \/ Deliver(p, n)
    PROVE  RecordInv'
<1>. DEFINE old == tasks[p][n]
            ds == requests[p].defs
            on == RecordedIn(records, p)
<1>1. /\ old \in Task
      /\ \A pc \in TaskPc : [NewTask EXCEPT !.pc = pc] \in Task
      /\ old.pc \notin {"allocating", "recording", "releasing"} => old.minted = {}
      /\ TaskFits(old, ds, on)
      /\ \A pc : At(p, n, pc) => old.pc = pc
  BY TaskTypes DEF HoldsNothing, RecordInv, At
<1>2. old.pc \in Claimed =>
         /\ p \in DOMAIN requests
         /\ requests[p].state = "APPROVED"
         /\ requests[p].started
         /\ old.todo \subseteq ds
  BY DEF ProcessInv, ClaimedProcessStays
<1>3. p \in DOMAIN requests =>
         /\ ProcessFits(requests[p], on, InsertedFor(redemptions, p))
         /\ requests[p] \in IssuanceProcess
  BY Shapes DEF RecordInv
<1>. HIDE DEF old, ds, on
<1>4. ASSUME NEW pc \in TaskPc, GoTo(p, n, pc),
             UNCHANGED <<requests, nextPid, records, redemptions>>,
             TaskFits([old EXCEPT !.pc = pc], ds, on)
      PROVE  RecordInv'
  BY <1>4, GoToEffect, MoveKeepsRecords DEF TypeOK, old, ds, on
<1>5. \A pc \in TaskPc : LET t == [NewTask EXCEPT !.pc = pc]
                         IN  /\ t \in Task
                             /\ t.pc = pc
                             /\ t.minted = {}
                             /\ t.todo = {}
                             /\ Signed(t) = {}
  BY <1>1 DEF NewTask, Signed
<1>6. CASE AcquirePermit(p, n)
  <2>1. TaskFits([old EXCEPT !.pc = "permitted"], ds, on)
    BY <1>1, <1>6 DEF AcquirePermit, TaskFits, Signed, Claimed, WithPermit, Task
  <2>. QED
    BY <1>4, <1>6, <2>1 DEF AcquirePermit, TaskPc
<1>7. CASE ClaimProcess(p, n)
  <2>. DEFINE t == [pc |-> "claimed", todo |-> requests[p].defs, minted |-> {}]
  <2>1. /\ p \in DOMAIN requests
        /\ requests[p].state = "APPROVED"
        /\ old.pc = "permitted"
        /\ requests' = [requests EXCEPT ![p].started = TRUE]
    BY <1>1, <1>7 DEF ClaimProcess, Claimable
  <2>2. t \in Task
    BY <1>3, <2>1 DEF IssuanceProcess, Task, TaskPc
  <2>3. ~ requests[p].started
    <3>1. \A k \in DOMAIN tasks[p] : k = n
      BY Shapes DEF ProcessInv, OneDeliveryTask
    <3>. QED
      BY <2>1, <3>1 DEF ProcessInv, ApprovedHasTask, Claimed, WithPermit, old
  <2>4. on = {}
    BY <1>3, <2>1, <2>3 DEF ProcessFits
  <2>5. /\ DOMAIN requests' = DOMAIN requests
        /\ \A q \in DOMAIN requests : q # p => requests'[q] = requests[q]
        /\ requests'[p].defs = ds
        /\ requests'[p].state = "APPROVED"
    BY <1>3, <2>1 DEF IssuanceProcess, ds
  <2>6. TaskFits(t, ds, on)
    BY <2>4 DEF TaskFits, Signed, Claimed, WithPermit, TaskPc, ds
  <2>7. ProcessFits(requests'[p], on, InsertedFor(redemptions, p))
    BY <1>3, <2>1, <2>4, <2>5 DEF ProcessFits, ds
  <2>8. /\ Update(p, n, t)
        /\ UNCHANGED <<nextPid, redemptions, records>>
        /\ RecordsUnique(records)
        /\ \A r \in records : r.pid < nextPid
    BY <1>7 DEF ClaimProcess, RecordInv
  <2>. HIDE DEF t
  <2>. QED
    BY <2>2, <2>5, <2>6, <2>7, <2>8, TaskStepKeepsRecords DEF on
<1>8. CASE AbandonProcess(p, n)
  <2>. DEFINE t == [NewTask EXCEPT !.pc = "done"]
  <2>1. t \in Task /\ t.pc = "done" /\ t.minted = {} /\ Signed(t) = {} /\ t.todo = {}
    BY <1>5 DEF TaskPc
  <2>. HIDE DEF t
  <2>2. TaskFits(t, ds, on)
    BY <2>1 DEF TaskFits, Claimed, WithPermit
  <2>. QED
    BY <1>8, <2>1, <2>2, MoveKeepsRecords DEF AbandonProcess, Exit, t, ds, on
<1>9. CASE LookUpDefinitions(p, n)
  <2>1. \A pc \in {"resolving", "errored"} : TaskFits([old EXCEPT !.pc = pc], ds, on)
    BY <1>1, <1>9 DEF LookUpDefinitions, TaskFits, Signed, Claimed, WithPermit,
                      TaskPc, Task
  <2>. QED
    BY <1>4, <1>9, <2>1 DEF LookUpDefinitions, TaskPc
<1>10. CASE ResolveHolder(p, n)
  <2>1. \A pc \in {"allocating", "releasing"} : TaskFits([old EXCEPT !.pc = pc], ds, on)
    BY <1>1, <1>10 DEF ResolveHolder, TaskFits, Signed, Claimed, WithPermit,
                       TaskPc, Task
  <2>. QED
    BY <1>4, <1>10, <2>1 DEF ResolveHolder, TaskPc
<1>11. CASE AllocationFails(p, n)
  <2>1. TaskFits([old EXCEPT !.pc = "releasing"], ds, on)
    BY <1>1, <1>11 DEF AllocationFails, TaskFits, Signed, Claimed, WithPermit,
                       TaskPc, Task
  <2>. QED
    BY <1>4, <1>11, <2>1 DEF AllocationFails, TaskPc
<1>12. CASE PostCredentials(p, n)
  <2>1. old.todo = {}
    BY <1>12 DEF PostCredentials, old
  <2>2. \A pc \in {"recording", "releasing"} : TaskFits([old EXCEPT !.pc = pc], ds, on)
    BY <1>1, <1>12, <2>1 DEF PostCredentials, TaskFits, Signed, Claimed,
                             WithPermit, TaskPc, Task
  <2>. QED
    BY <1>4, <1>12, <2>2 DEF PostCredentials, TaskPc
<1>13. CASE AllocateIndex(p, n)
  <2>. DEFINE i == AllocatedIndex(statusList)
  <2>1. PICK d \in old.todo :
          Update(p, n, [old EXCEPT
                        !.todo = @ \ {d}, !.minted = @ \cup {[def |-> d, idx |-> i]}])
    BY <1>13 DEF AllocateIndex, old
  <2>. DEFINE t == [old EXCEPT
                      !.todo = @ \ {d}, !.minted = @ \cup {[def |-> d, idx |-> i]}]
  <2>2. i \in Indexes
    BY <1>13, AllocateType DEF TypeOK, AllocateIndex
  <2>. HIDE DEF i
  <2>3. /\ t \in Task
        /\ t.pc = "allocating"
        /\ t.todo = old.todo \ {d}
        /\ t.minted = old.minted \cup {[def |-> d, idx |-> i]}
    <3>1. [def |-> d, idx |-> i] \in Minted
      BY <1>1, <2>2 DEF Task, Minted
    <3>2. old.pc = "allocating"
      BY <1>1, <1>13 DEF AllocateIndex
    <3>. QED
      BY <1>1, <3>1, <3>2 DEF Task
  <2>4. Update(p, n, t)
    BY <2>1
  <2>. HIDE DEF t
  <2>5. Signed(t) = Signed(old) \cup {d}
    <3>1. [def |-> d, idx |-> i].def = d
      OBVIOUS
    <3>2. \A x : x \in Signed(t) <=> \E m \in t.minted : x = m.def
      BY DEF Signed
    <3>3. \A x : x \in Signed(old) <=> \E m \in old.minted : x = m.def
      BY DEF Signed
    <3>4. \A x : x \in Signed(t) <=> x \in Signed(old) \/ x = d
      BY <2>3, <3>1, <3>2, <3>3
    <3>. QED
      BY <3>4
  <2>6. d \notin Signed(old)
    BY <1>1 DEF TaskFits
  <2>7. old.pc = "allocating" /\ UNCHANGED <<requests, nextPid, records, redemptions>>
    BY <1>1, <1>13 DEF AllocateIndex
  <2>8. \A m, k \in t.minted : m.def = k.def => m = k
    BY <1>1, <2>3, <2>6 DEF TaskFits, Signed
  <2>9. TaskFits(t, ds, on)
    BY <1>1, <2>3, <2>5, <2>7, <2>8 DEF TaskFits, Claimed, WithPermit, TaskPc
  <2>. QED
    BY <2>3, <2>4, <2>7, <2>9, MoveKeepsRecords DEF ds, on
<1>14. CASE ReleaseIndexes(p, n)
  <2>. DEFINE t == [NewTask EXCEPT !.pc = "errored"]
  <2>1. t \in Task /\ t.pc = "errored" /\ t.minted = {} /\ Signed(t) = {} /\ t.todo = {}
    BY <1>5 DEF TaskPc
  <2>. HIDE DEF t
  <2>2. on = {}
    BY <1>1, <1>14 DEF ReleaseIndexes, TaskFits, Claimed, WithPermit, TaskPc
  <2>3. TaskFits(t, ds, on)
    BY <2>1, <2>2 DEF TaskFits, Claimed, WithPermit
  <2>. QED
    BY <1>14, <2>1, <2>3, MoveKeepsRecords DEF ReleaseIndexes, t, ds, on
<1>15. CASE RecordIssued(p, n)
  <2>. DEFINE t == [NewTask EXCEPT !.pc = "delivered"]
  <2>1. t \in Task /\ t.pc = "delivered" /\ t.minted = {} /\ Signed(t) = {} /\ t.todo = {}
    BY <1>5 DEF TaskPc
  <2>2. /\ Update(p, n, t)
        /\ UNCHANGED <<requests, nextPid, redemptions>>
    BY <1>15 DEF RecordIssued
  <2>. HIDE DEF t
  <2>3. /\ p \in DOMAIN requests
        /\ requests[p].state = "APPROVED" /\ requests[p].started
        /\ RecordedIn(records', p) = ds
        /\ \A q : q # p => RecordedIn(records', q) = RecordedIn(records, q)
        /\ RecordsUnique(records')
        /\ \A r \in records' : r.pid < nextPid
    BY <1>15, RecordIssuedEffect DEF ds
  <2>4. TaskFits(t, ds, RecordedIn(records', p))
    BY <2>1, <2>3 DEF TaskFits, Claimed, WithPermit
  <2>5. ProcessFits(requests[p], RecordedIn(records', p), InsertedFor(redemptions, p))
    BY <1>3, <2>3 DEF ProcessFits
  <2>. QED
    BY <2>1, <2>2, <2>3, <2>4, <2>5, TaskStepKeepsRecords DEF ds
<1>16. CASE FinishDelivery(p, n)
  <2>. DEFINE t == [NewTask EXCEPT !.pc = "done"]
  <2>1. t \in Task /\ t.pc = "done" /\ t.minted = {} /\ Signed(t) = {} /\ t.todo = {}
    BY <1>5 DEF TaskPc
  <2>2. /\ old.pc \in {"delivered", "errored"}
        /\ requests' = IF p \in DOMAIN requests
                       THEN [requests EXCEPT ![p].state = Outcome(old.pc)]
                       ELSE requests
        /\ Update(p, n, t)
        /\ UNCHANGED <<nextPid, records, redemptions>>
    BY <1>1, <1>16 DEF FinishDelivery, Exit
  <2>. HIDE DEF t
  <2>3. p \in DOMAIN requests
    BY <1>2, <2>2 DEF Claimed, WithPermit, TaskPc
  <2>4. /\ DOMAIN requests' = DOMAIN requests
        /\ \A q \in DOMAIN requests : q # p => requests'[q] = requests[q]
        /\ requests'[p].defs = ds
        /\ requests'[p].state = Outcome(old.pc)
    BY <1>3, <2>2, <2>3 DEF IssuanceProcess, ds
  <2>5. /\ old.pc = "delivered" => on = ds
        /\ old.pc = "errored" => on = {}
    BY <1>1 DEF TaskFits, Claimed, WithPermit, TaskPc
  <2>6. ProcessFits(requests'[p], on, InsertedFor(redemptions, p))
    BY <1>3, <2>2, <2>3, <2>4, <2>5 DEF ProcessFits, Outcome, ds
  <2>7. TaskFits(t, ds, on)
    BY <2>1 DEF TaskFits, Claimed, WithPermit
  <2>8. /\ RecordsUnique(records)
        /\ \A r \in records : r.pid < nextPid
    BY DEF RecordInv
  <2>. QED
    BY <2>1, <2>2, <2>4, <2>6, <2>7, <2>8, TaskStepKeepsRecords DEF on
<1>. QED
  BY <1>6, <1>7, <1>8, <1>9, <1>10, <1>11, <1>12, <1>13, <1>14, <1>15, <1>16
     DEF Deliver

\* A new process has no records, whichever process it evicts; `new` are the
\* redemptions it is created by, if it is born DELIVERED.
LEMMA InsertKeepsRecords ==
    ASSUME TypeOK, ProcessInv, RecordInv, nextPid <= MaxProcesses,
           CanInsert(requests), NEW process \in IssuanceProcess,
           requests' = Insert(requests, nextPid, process),
           nextPid' = nextPid + 1, UNCHANGED records,
           \A q \in Pids : q # nextPid => tasks'[q] = tasks[q],
           \A k \in DOMAIN tasks'[nextPid] : tasks'[nextPid][k] = NewTask,
           NEW new, \A r \in new : /\ r.pc = "inserted"
                                   /\ r.pid = nextPid
                                   /\ new = {r}
                                   /\ process.defs = {r.def}
                                   /\ Len(tasks'[nextPid]) = 0,
           \A r : r.pc = "inserted" =>
               (r \in redemptions' <=> r \in redemptions \/ r \in new),
           process.defs # {},
           \/ process.state = "DELIVERED" /\ new # {}
           \/ process.state \in Active /\ ~ process.started /\ new = {}
    PROVE  RecordInv'
<1>1. nextPid \in Nat /\ nextPid \in Pids /\ DOMAIN requests \in SUBSET Nat
      /\ nextPid \notin DOMAIN requests
  BY IssuerAssumption DEF TypeOK, Pids
<1>2. /\ DOMAIN requests' \subseteq DOMAIN requests \cup {nextPid}
      /\ nextPid \in DOMAIN requests'
      /\ requests'[nextPid] = process
      /\ \A q \in DOMAIN requests' : q # nextPid =>
            q \in DOMAIN requests /\ requests'[q] = requests[q]
      /\ \A q \in DOMAIN requests : requests[q].state \in Active =>
            q \in DOMAIN requests'
  <2>1. requests \in [DOMAIN requests -> IssuanceProcess]
    BY DEF TypeOK
  <2>. QED
    BY <1>1, <2>1, InsertEffect
<1>3. RecordedIn(records, nextPid) = {}
  <2>1. \A r \in records : r.pid < nextPid /\ r.pid \in Pids
    BY DEF RecordInv, TypeOK, IssuedCredential
  <2>2. \A r \in records : r.pid # nextPid
    BY <1>1, <2>1, IssuerAssumption DEF Pids
  <2>. QED
    BY <2>2 DEF RecordedIn
<1>4. \A r \in redemptions : r.pc = "inserted" => r.pid < nextPid /\ r.pid \in Nat
  BY IssuerAssumption DEF RecordInv, RedemptionsFit, TypeOK, Pids
<1>5. /\ \A q : q # nextPid => InsertedFor(redemptions', q) = InsertedFor(redemptions, q)
      /\ InsertedFor(redemptions', nextPid) = new
  <2>1. \A r \in redemptions : r.pc = "inserted" => r.pid # nextPid
    BY <1>1, <1>4
  <2>. QED
    BY <2>1 DEF InsertedFor
<1>6. \A r \in records' : r.pid < nextPid'
  BY <1>1, IssuerAssumption DEF RecordInv, TypeOK, IssuedCredential, Pids
<1>7. RedemptionsFit'
  <2>1. SUFFICES ASSUME NEW r \in redemptions', r.pc = "inserted"
                 PROVE  /\ r.pid < nextPid'
                        /\ RecordedIn(records', r.pid) = {}
                        /\ Len(tasks'[r.pid]) = 0
                        /\ r.pid \in DOMAIN requests' =>
                              /\ requests'[r.pid].state = "DELIVERED"
                              /\ requests'[r.pid].defs = {r.def}
                        /\ InsertedFor(redemptions', r.pid) = {r}
    BY DEF RedemptionsFit
  <2>2. CASE r \in new
    <3>1. r.pid = nextPid /\ new = {r} /\ process.defs = {r.def}
          /\ Len(tasks'[nextPid]) = 0 /\ process.state = "DELIVERED"
      BY <2>2
    <3>. QED
      BY <1>1, <1>2, <1>3, <1>5, <3>1
  <2>3. CASE r \in redemptions
    <3>1. r.pid # nextPid /\ r.pid < nextPid + 1 /\ r.pid \in Pids
      BY <1>1, <1>4, <2>1, <2>3 DEF TypeOK
    <3>2. /\ RecordedIn(records, r.pid) = {}
          /\ Len(tasks[r.pid]) = 0
          /\ r.pid \in DOMAIN requests => /\ requests[r.pid].state = "DELIVERED"
                                          /\ requests[r.pid].defs = {r.def}
          /\ InsertedFor(redemptions, r.pid) = {r}
      BY <2>1, <2>3 DEF RecordInv, RedemptionsFit
    <3>3. tasks'[r.pid] = tasks[r.pid]
      BY <3>1
    <3>. QED
      BY <1>2, <1>5, <3>1, <3>2, <3>3
  <2>. QED
    BY <2>1, <2>2, <2>3
<1>8. \A q \in DOMAIN requests' :
        ProcessFits(requests'[q], RecordedIn(records', q), InsertedFor(redemptions', q))
  <2>1. ProcessFits(process, RecordedIn(records, nextPid), new)
    BY <1>3 DEF ProcessFits, Active
  <2>2. ASSUME NEW q \in DOMAIN requests', q # nextPid
        PROVE  ProcessFits(requests'[q], RecordedIn(records', q),
                           InsertedFor(redemptions', q))
    <3>1. requests'[q] = requests[q] /\ q \in DOMAIN requests
      BY <1>2, <2>2
    <3>2. InsertedFor(redemptions', q) = InsertedFor(redemptions, q)
      BY <1>5, <2>2
    <3>. QED
      BY <3>1, <3>2 DEF RecordInv
  <2>. QED
    BY <1>2, <1>5, <2>1, <2>2
<1>9. \A q \in Pids : \A k \in DOMAIN tasks'[q] :
        TaskFits(tasks'[q][k], requests'[q].defs, RecordedIn(records', q))
  <2>1. ASSUME NEW q \in Pids, NEW k \in DOMAIN tasks'[q]
        PROVE  TaskFits(tasks'[q][k], requests'[q].defs, RecordedIn(records', q))
    <3>1. CASE q = nextPid
      <4>1. TaskFits(NewTask, requests'[q].defs, RecordedIn(records', q))
        BY DEF TaskFits, NewTask, Signed, Claimed, WithPermit
      <4>. QED
        BY <3>1, <4>1
    <3>2. CASE q # nextPid
      <4>1. tasks'[q][k] = tasks[q][k] /\ k \in DOMAIN tasks[q]
        BY <3>2
      <4>2. TaskFits(tasks[q][k], requests[q].defs, RecordedIn(records, q))
        BY <4>1 DEF RecordInv
      <4>3. CASE tasks[q][k].pc \in Claimed
        <5>1. q \in DOMAIN requests /\ requests[q].state \in Active
          BY <4>1, <4>3 DEF ProcessInv, ClaimedProcessStays, Active
        <5>2. requests'[q] = requests[q]
          BY <1>2, <3>2, <5>1
        <5>. QED
          BY <4>1, <4>2, <5>2
      <4>4. CASE tasks[q][k].pc \notin Claimed
        BY <4>1, <4>2, <4>4 DEF TaskFits, Claimed, WithPermit, TaskPc
      <4>. QED
        BY <4>3, <4>4
    <3>. QED
      BY <3>1, <3>2
  <2>. QED
    BY <2>1
<1>. QED
  BY <1>6, <1>7, <1>8, <1>9 DEF RecordInv

\* A decision moves processes that have no record.
LEMMA DecideKeepsRecords ==
    ASSUME TypeOK, ProcessInv, RecordInv, NEW h \in Holders,
           ApproveHolder(h) \/ RejectHolder(h)
    PROVE  RecordInv'
<1>1. PICK next \in {"APPROVED", "REJECTED"} :
         /\ requests' = [p \in DOMAIN requests |->
                            IF p \in Moved(h, next)
                            THEN [requests[p] EXCEPT !.state = next]
                            ELSE requests[p]]
         /\ UNCHANGED <<nextPid, records, redemptions>>
         /\ \/ UNCHANGED tasks
            \/ next = "APPROVED" /\ Spawn(Moved(h, next))
  <2>1. CASE ApproveHolder(h)
    <3>. WITNESS "APPROVED" \in {"APPROVED", "REJECTED"}
    <3>. QED
      BY <2>1 DEF ApproveHolder, DecideHolder
  <2>2. CASE RejectHolder(h)
    <3>. WITNESS "REJECTED" \in {"APPROVED", "REJECTED"}
    <3>. QED
      BY <2>2 DEF RejectHolder, DecideHolder
  <2>. QED
    BY <2>1, <2>2
<1>. DEFINE M == Moved(h, next)
<1>2. \A p \in M : /\ p \in DOMAIN requests
                   /\ \/ requests[p].state = "SUBMITTED"
                      \/ /\ next = "REJECTED"
                         /\ requests[p].state = "APPROVED"
                         /\ ~ requests[p].started
  BY DEF Moved
<1>3. /\ DOMAIN requests' = DOMAIN requests
      /\ \A p \in DOMAIN requests :
            /\ requests'[p].defs = requests[p].defs
            /\ requests'[p].started = requests[p].started
            /\ requests'[p].state = IF p \in M THEN next ELSE requests[p].state
  BY <1>1, Shapes DEF IssuanceProcess
<1>4. \A q \in Pids : q \notin M => tasks'[q] = tasks[q]
  BY <1>1, SpawnEffect DEF TypeOK
<1>5. \A q \in M : \A k \in DOMAIN tasks'[q] :
         \/ tasks'[q][k] = NewTask
         \/ k \in DOMAIN tasks[q] /\ tasks'[q][k] = tasks[q][k]
  <2>1. CASE UNCHANGED tasks
    BY <2>1
  <2>2. CASE next = "APPROVED" /\ Spawn(M)
    <3>1. \A q \in M : requests[q].state = "SUBMITTED" /\ q \in Pids
      BY <1>2, <2>2, Shapes
    <3>2. \A q \in M : Len(tasks[q]) = 0
      BY <1>2, <3>1 DEF ProcessInv, NotSpawnedYet
    <3>3. /\ tasks' \in [Pids -> Seq(Task)]
          /\ \A q \in Pids : q \in M =>
                /\ Len(tasks'[q]) = Len(tasks[q]) + 1
                /\ tasks'[q][Len(tasks[q]) + 1] = NewTask
      BY <2>2, SpawnEffect DEF TypeOK
    <3>4. \A q \in M : Len(tasks'[q]) = 1 /\ tasks'[q][1] = NewTask
      <4>1. \A q \in M : Len(tasks[q]) + 1 = 1
        BY <3>2
      <4>. QED
        BY <3>1, <3>3, <4>1
    <3>5. \A q \in M : DOMAIN tasks'[q] = 1 .. Len(tasks'[q])
      BY <3>1, <3>3, LenProperties
    <3>. QED
      BY <3>4, <3>5
  <2>. QED
    BY <1>1, <2>1, <2>2
<1>. HIDE DEF M
<1>6. \A p \in M : RecordedIn(records, p) = {}
  BY <1>2 DEF RecordInv, ProcessFits
<1>7. RedemptionsFit'
  <2>1. SUFFICES ASSUME NEW r \in redemptions, r.pc = "inserted"
                 PROVE  /\ r.pid < nextPid
                        /\ RecordedIn(records, r.pid) = {}
                        /\ Len(tasks'[r.pid]) = 0
                        /\ r.pid \in DOMAIN requests' =>
                              /\ requests'[r.pid].state = "DELIVERED"
                              /\ requests'[r.pid].defs = {r.def}
                        /\ InsertedFor(redemptions, r.pid) = {r}
    BY <1>1 DEF RedemptionsFit
  <2>2. /\ r.pid < nextPid
        /\ RecordedIn(records, r.pid) = {}
        /\ Len(tasks[r.pid]) = 0
        /\ r.pid \in DOMAIN requests => /\ requests[r.pid].state = "DELIVERED"
                                        /\ requests[r.pid].defs = {r.def}
        /\ InsertedFor(redemptions, r.pid) = {r}
        /\ r.pid \in Pids
    BY <2>1 DEF RecordInv, RedemptionsFit, TypeOK
  <2>3. r.pid \notin M
    BY <1>2, <2>2
  <2>. QED
    BY <1>3, <1>4, <2>2, <2>3
<1>8. \A q \in DOMAIN requests :
        ProcessFits(requests'[q], RecordedIn(records, q), InsertedFor(redemptions, q))
  BY <1>3, <1>6 DEF RecordInv, ProcessFits
<1>9. \A q \in Pids : \A k \in DOMAIN tasks'[q] :
        TaskFits(tasks'[q][k], requests'[q].defs, RecordedIn(records, q))
  <2>1. ASSUME NEW q \in Pids, NEW k \in DOMAIN tasks'[q]
        PROVE  TaskFits(tasks'[q][k], requests'[q].defs, RecordedIn(records, q))
    <3>1. CASE tasks'[q][k] = NewTask
      BY <3>1 DEF TaskFits, NewTask, Signed, Claimed, WithPermit
    <3>2. CASE k \in DOMAIN tasks[q] /\ tasks'[q][k] = tasks[q][k]
      <4>1. TaskFits(tasks[q][k], requests[q].defs, RecordedIn(records, q))
        BY <3>2 DEF RecordInv
      <4>2. CASE q \in DOMAIN requests
        BY <1>3, <3>2, <4>1, <4>2
      <4>3. CASE q \notin DOMAIN requests
        <5>1. tasks[q][k].pc \notin Claimed
          BY <3>2, <4>3 DEF ProcessInv, ClaimedProcessStays
        <5>. QED
          BY <3>2, <4>1, <5>1 DEF TaskFits, Claimed, WithPermit, TaskPc
      <4>. QED
        BY <4>2, <4>3
    <3>. QED
      BY <1>4, <1>5, <3>1, <3>2
  <2>. QED
    BY <2>1
<1>. QED
  BY <1>1, <1>3, <1>7, <1>8, <1>9 DEF RecordInv
\* A redemption records its credential, the first of its process.
LEMMA RedeemRecordEffect ==
    ASSUME TypeOK, RecordInv, NEW r \in redemptions, RedeemRecord(r)
    PROVE  /\ \A s \in records : s.pid # r.pid
           /\ RecordedIn(records', r.pid) = {r.def}
           /\ \A q : q # r.pid => RecordedIn(records', q) = RecordedIn(records, q)
<1>. DEFINE rec == [pid |-> r.pid, def |-> r.def, idx |-> r.idx, status |-> "active"]
<1>1. /\ r.pc = "inserted"
      /\ records' = records \cup {rec}
      /\ rec.pid = r.pid /\ rec.def = r.def
  BY DEF RedeemRecord
<1>. HIDE DEF rec
<1>2. RecordedIn(records, r.pid) = {}
  BY <1>1 DEF RecordInv, RedemptionsFit
<1>3. ASSUME NEW s \in records, s.pid = r.pid
      PROVE  FALSE
  <2>1. s.def \in RecordedIn(records, r.pid)
    BY <1>3 DEF RecordedIn
  <2>. QED
    BY <1>2, <2>1
<1>4. /\ RecordedIn(records', r.pid) = {r.def}
      /\ \A q : q # r.pid => RecordedIn(records', q) = RecordedIn(records, q)
  BY <1>1, <1>3 DEF RecordedIn
<1>. QED
  BY <1>3, <1>4

\* The process it was inserted for then has what it asked for.
LEMMA RedeemRecordKeepsRecords ==
    ASSUME TypeOK, RecordInv, NEW r \in redemptions, RedeemRecord(r)
    PROVE  RecordInv'
<1>. DEFINE rec == [pid |-> r.pid, def |-> r.def, idx |-> r.idx, status |-> "active"]
<1>1. /\ r.pc = "inserted"
      /\ records' = records \cup {rec}
      /\ redemptions' = redemptions \ {r}
      /\ UNCHANGED <<requests, nextPid, tasks>>
      /\ rec.pid = r.pid /\ rec.def = r.def
  BY DEF RedeemRecord
<1>. HIDE DEF rec
<1>2. /\ r.pid < nextPid
      /\ RecordedIn(records, r.pid) = {}
      /\ Len(tasks[r.pid]) = 0
      /\ r.pid \in DOMAIN requests => /\ requests[r.pid].state = "DELIVERED"
                                      /\ requests[r.pid].defs = {r.def}
      /\ InsertedFor(redemptions, r.pid) = {r}
      /\ r.pid \in Pids
  BY <1>1 DEF RecordInv, RedemptionsFit, TypeOK
<1>3. /\ \A s \in records : s.pid # r.pid
      /\ RecordedIn(records', r.pid) = {r.def}
      /\ \A q : q # r.pid => RecordedIn(records', q) = RecordedIn(records, q)
  BY RedeemRecordEffect
<1>5. \A q : q # r.pid => InsertedFor(redemptions', q) = InsertedFor(redemptions, q)
  BY <1>1 DEF InsertedFor
<1>6. RecordsUnique(records') /\ \A s \in records' : s.pid < nextPid
  BY <1>1, <1>2, <1>3 DEF RecordInv, RecordsUnique
<1>7. \A s \in redemptions' : s.pc = "inserted" => s.pid # r.pid
  BY <1>1, <1>2 DEF InsertedFor
<1>8. RedemptionsFit'
  <2>1. SUFFICES ASSUME NEW s \in redemptions', s.pc = "inserted"
                 PROVE  /\ s.pid < nextPid
                        /\ RecordedIn(records', s.pid) = {}
                        /\ Len(tasks[s.pid]) = 0
                        /\ s.pid \in DOMAIN requests =>
                              /\ requests[s.pid].state = "DELIVERED"
                              /\ requests[s.pid].defs = {s.def}
                        /\ InsertedFor(redemptions', s.pid) = {s}
    BY <1>1 DEF RedemptionsFit
  <2>2. s.pid # r.pid /\ s \in redemptions
    BY <1>1, <1>7, <2>1
  <2>. QED
    BY <1>3, <1>5, <2>1, <2>2 DEF RecordInv, RedemptionsFit
<1>9. \A q \in DOMAIN requests :
        ProcessFits(requests[q], RecordedIn(records', q), InsertedFor(redemptions', q))
  <2>1. ASSUME r.pid \in DOMAIN requests
        PROVE  ProcessFits(requests[r.pid], RecordedIn(records', r.pid),
                           InsertedFor(redemptions', r.pid))
    BY <1>2, <1>3, <2>1 DEF ProcessFits
  <2>. QED
    BY <1>3, <1>5, <2>1 DEF RecordInv
<1>10. \A q \in Pids : \A k \in DOMAIN tasks[q] :
        TaskFits(tasks[q][k], requests[q].defs, RecordedIn(records', q))
  <2>1. DOMAIN tasks[r.pid] = {}
    BY <1>2, Shapes
  <2>. QED
    BY <1>3, <2>1 DEF RecordInv
<1>. QED
  BY <1>1, <1>6, <1>8, <1>9, <1>10 DEF RecordInv

\* Revoking a credential leaves its record in place.
LEMMA RevokeEffect ==
    ASSUME TypeOK, NEW r \in records, RevokeCredential(r)
    PROVE  \A q : RecordedIn(records', q) = RecordedIn(records, q)
<1>. DEFINE s == [r EXCEPT !.status = "revoked"]
<1>1. /\ s.pid = r.pid /\ s.def = r.def
      /\ records' = (records \ {r}) \cup {s}
  BY DEF TypeOK, IssuedCredential, RevokeCredential
<1>. HIDE DEF s
<1>2. \A q : RecordedIn(records', q) = RecordedIn(records, q)
  <2>1. ASSUME NEW q, NEW d
        PROVE  d \in RecordedIn(records', q) <=> d \in RecordedIn(records, q)
    <3>1. d \in RecordedIn(records', q) <=> \E u \in records' : u.pid = q /\ u.def = d
      BY DEF RecordedIn
    <3>2. d \in RecordedIn(records, q) <=> \E u \in records : u.pid = q /\ u.def = d
      BY DEF RecordedIn
    <3>. QED
      BY <1>1, <3>1, <3>2
  <2>. QED
    BY <2>1
<1>. QED
  BY <1>2

\* So revocation changes nothing about outcomes.
LEMMA RevokeKeepsRecords ==
    ASSUME TypeOK, RecordInv, NEW r \in records, RevokeCredential(r)
    PROVE  RecordInv'
<1>. DEFINE s == [r EXCEPT !.status = "revoked"]
<1>1. /\ s.pid = r.pid /\ s.def = r.def
      /\ records' = (records \ {r}) \cup {s}
      /\ UNCHANGED <<requests, nextPid, tasks, redemptions>>
  BY DEF TypeOK, IssuedCredential, RevokeCredential
<1>. HIDE DEF s
<1>2. \A q : RecordedIn(records', q) = RecordedIn(records, q)
  BY RevokeEffect
<1>3. RecordsUnique(records') /\ \A u \in records' : u.pid < nextPid
  BY <1>1 DEF RecordInv, RecordsUnique
<1>. QED
  BY <1>1, <1>2, <1>3 DEF RecordInv, RedemptionsFit

\* Records and reported outcomes agree throughout: records appear all at once,
\* before DELIVERED is reported, and a failed or rejected process has none.
THEOREM RecordsSafe == Spec => []RecordInv
<1>1. Init => RecordInv
  <2>. SUFFICES ASSUME Init PROVE RecordInv
    OBVIOUS
  <2>1. \A p \in Pids : DOMAIN tasks[p] = {}
    BY DEF Init
  <2>. QED
    BY <2>1 DEF Init, RecordInv, RecordsUnique, RedemptionsFit
<1>2. TypeOK /\ ProcessInv /\ IndexInv /\ RecordInv /\ [Next]_vars => RecordInv'
  <2>. SUFFICES ASSUME TypeOK, ProcessInv, IndexInv, RecordInv, [Next]_vars
                PROVE  RecordInv'
    OBVIOUS
  <2>1. ASSUME UNCHANGED <<requests, nextPid, tasks, records, redemptions>>
        PROVE  RecordInv'
    BY <2>1, RecordFrame
  <2>2. CASE Admin
    <3>1. CASE \E d \in Definitions : CreateDefinition(d) \/ DeleteDefinition(d)
      BY <2>1, <3>1 DEF CreateDefinition, DeleteDefinition
    <3>2. ASSUME NEW h \in Holders, RegisterHolder(h)
          PROVE  RecordInv'
      BY <2>1, <3>2 DEF RegisterHolder
    <3>. QED
      BY <2>2, <3>1, <3>2, DecideKeepsRecords, RevokeKeepsRecords DEF Admin
  <2>3. ASSUME NEW h \in Holders, NEW ds \in SUBSET Definitions,
               CredentialRequestAccepted(h, ds)
        PROVE  RecordInv'
    <3>1. PICK state \in {"SUBMITTED", "APPROVED"} :
            /\ requests' = Insert(requests, nextPid,
                                  [state |-> state, holder |-> h, defs |-> ds,
                                   started |-> FALSE])
            /\ Spawn(IF state = "APPROVED" THEN {nextPid} ELSE {})
      BY <2>3 DEF CredentialRequestAccepted
    <3>. DEFINE process == [state |-> state, holder |-> h, defs |-> ds,
                            started |-> FALSE]
                P == IF state = "APPROVED" THEN {nextPid} ELSE {}
    <3>2. /\ process \in IssuanceProcess
          /\ process.defs # {}
          /\ process.state \in Active
          /\ ~ process.started
      BY <2>3 DEF IssuanceProcess, Active, CredentialRequestAccepted, ValidRequest
    <3>3. /\ nextPid <= MaxProcesses
          /\ CanInsert(requests)
          /\ nextPid' = nextPid + 1
          /\ UNCHANGED <<records, redemptions>>
      BY <2>3 DEF CredentialRequestAccepted, Admissible
    <3>4. \A q \in P : q = nextPid
      OBVIOUS
    <3>. HIDE DEF process, P
    <3>5. requests' = Insert(requests, nextPid, process) /\ Spawn(P)
      BY <3>1 DEF process, P
    <3>6. nextPid \in Pids
      BY <3>3, IssuerAssumption DEF TypeOK, Pids
    <3>7. Len(tasks[nextPid]) = 0
      BY <3>6 DEF ProcessInv, NotSpawnedYet, TypeOK
    <3>8. /\ tasks' \in [Pids -> Seq(Task)]
          /\ \A q \in Pids : q \notin P => tasks'[q] = tasks[q]
          /\ \A q \in Pids : q \in P =>
                /\ Len(tasks'[q]) = Len(tasks[q]) + 1
                /\ tasks'[q][Len(tasks[q]) + 1] = NewTask
      BY <3>5, SpawnEffect DEF TypeOK
    <3>9. \A q \in Pids : q # nextPid => tasks'[q] = tasks[q]
      BY <3>4, <3>8
    <3>10. \A k \in DOMAIN tasks'[nextPid] : tasks'[nextPid][k] = NewTask
      <4>1. CASE nextPid \in P
        <5>1. Len(tasks[nextPid]) + 1 = 1
          BY <3>7
        <5>2. Len(tasks'[nextPid]) = 1 /\ tasks'[nextPid][1] = NewTask
          BY <3>6, <3>8, <4>1, <5>1
        <5>3. DOMAIN tasks'[nextPid] = 1 .. Len(tasks'[nextPid])
          BY <3>6, <3>8, LenProperties
        <5>. QED
          BY <5>2, <5>3
      <4>2. CASE nextPid \notin P
        <5>1. tasks'[nextPid] = tasks[nextPid]
          BY <3>6, <3>8, <4>2
        <5>. QED
          BY <3>6, <3>7, <5>1, Shapes
      <4>. QED
        BY <4>1, <4>2
    <3>. DEFINE new == {}
    <3>11. /\ \A r \in new : /\ r.pc = "inserted"
                            /\ r.pid = nextPid
                            /\ new = {r}
                            /\ process.defs = {r.def}
                            /\ Len(tasks'[nextPid]) = 0
           /\ \A r : r.pc = "inserted" =>
                 (r \in redemptions' <=> r \in redemptions \/ r \in new)
           /\ process.state \in Active /\ ~ process.started /\ new = {}
      BY <3>2, <3>3
    <3>. HIDE DEF new
    <3>. QED
      BY <3>2, <3>3, <3>5, <3>9, <3>10, <3>11, InsertKeepsRecords
  <2>4. ASSUME NEW h \in Holders, NEW ds \in SUBSET Definitions,
               CredentialRequestRefused(h, ds)
        PROVE  RecordInv'
    BY <2>1, <2>4 DEF CredentialRequestRefused
  <2>5. CASE ServeStatusList
    BY <2>1, <2>5 DEF ServeStatusList
  <2>6. ASSUME NEW p \in Pids, NEW n \in DOMAIN tasks[p],
               AcquirePermit(p, n) \/ Deliver(p, n)
        PROVE  RecordInv'
    BY <2>6, DeliverKeepsRecords DEF IndexInv
  <2>7. ASSUME NEW id \in Redemptions, NEW h \in Holders, NEW d \in Definitions,
               RedeemStart(id, h, d)
        PROVE  RecordInv'
    <3>1. \A r : r.pc = "inserted" => (r \in redemptions' <=> r \in redemptions)
      BY <2>7 DEF RedeemStart
    <3>. QED
      BY <2>7, <3>1, RecordFrame DEF RedeemStart
  <2>8. ASSUME NEW r \in redemptions,
               RedeemHolder(r) \/ RedeemAllocate(r) \/ RedeemRelease(r)
        PROVE  RecordInv'
    <3>1. r \in Redemption
      BY DEF TypeOK
    <3>0. /\ r.pc # "inserted"
          /\ [r EXCEPT !.pc = "allowed"].pc = "allowed"
          /\ [r EXCEPT !.pc = "indexed", !.idx = AllocatedIndex(statusList)].pc
                = "indexed"
      BY <2>8, <3>1 DEF RedeemHolder, RedeemAllocate, RedeemRelease, Redemption
    <3>2. \A s : s.pc = "inserted" => (s \in redemptions' <=> s \in redemptions)
      <4>1. CASE RedeemHolder(r)
        BY <3>0, <4>1 DEF RedeemHolder, Replace
      <4>2. CASE RedeemAllocate(r)
        BY <3>0, <4>2 DEF RedeemAllocate, Replace
      <4>3. CASE RedeemRelease(r)
        BY <3>0, <4>3 DEF RedeemRelease
      <4>. QED
        BY <2>8, <4>1, <4>2, <4>3
    <3>. QED
      BY <2>8, <3>2, RecordFrame DEF RedeemHolder, RedeemAllocate, RedeemRelease
  <2>9. ASSUME NEW r \in redemptions, RedeemInsert(r)
        PROVE  RecordInv'
    <3>0. r \in Redemption /\ r.pc = "indexed"
      BY <2>9 DEF TypeOK, RedeemInsert
    <3>1. CASE ~ CanInsert(requests)
      <4>1. \A s : s.pc = "inserted" => (s \in redemptions' <=> s \in redemptions)
        BY <2>9, <3>0, <3>1 DEF RedeemInsert, Replace, Redemption
      <4>. QED
        BY <2>9, <3>1, <4>1, RecordFrame DEF RedeemInsert
    <3>2. CASE CanInsert(requests)
      <4>. DEFINE process == [state |-> "DELIVERED", holder |-> r.holder,
                              defs |-> {r.def}, started |-> TRUE]
                  s == [r EXCEPT !.pc = "inserted", !.pid = nextPid]
      <4>1. /\ process \in IssuanceProcess
            /\ process.state = "DELIVERED"
            /\ process.defs = {r.def}
            /\ process.defs # {}
        BY <3>0 DEF Redemption, IssuanceProcess, Terminal
      <4>2. s.pc = "inserted" /\ s.pid = nextPid /\ s.def = r.def
        BY <3>0 DEF Redemption
      <4>3. /\ nextPid <= MaxProcesses
            /\ nextPid' = nextPid + 1
            /\ requests' = Insert(requests, nextPid, process)
            /\ redemptions' = (redemptions \ {r}) \cup {s}
            /\ UNCHANGED <<records, tasks>>
        BY <2>9, <3>2 DEF RedeemInsert, Replace
      <4>4. nextPid \in Pids
        BY <4>3, IssuerAssumption DEF TypeOK, Pids
      <4>5. Len(tasks[nextPid]) = 0
        BY <4>4 DEF ProcessInv, NotSpawnedYet, TypeOK
      <4>6. DOMAIN tasks'[nextPid] = {} /\ Len(tasks'[nextPid]) = 0
        BY <4>3, <4>4, <4>5, Shapes
      <4>. DEFINE new == {s}
      <4>. HIDE DEF process, s
      <4>7. /\ \A u \in new : /\ u.pc = "inserted"
                              /\ u.pid = nextPid
                              /\ new = {u}
                              /\ process.defs = {u.def}
                              /\ Len(tasks'[nextPid]) = 0
            /\ \A u : u.pc = "inserted" =>
                  (u \in redemptions' <=> u \in redemptions \/ u \in new)
            /\ process.state = "DELIVERED" /\ new # {}
        BY <3>0, <4>1, <4>2, <4>3, <4>6
      <4>8. /\ \A q \in Pids : q # nextPid => tasks'[q] = tasks[q]
            /\ \A k \in DOMAIN tasks'[nextPid] : tasks'[nextPid][k] = NewTask
        BY <4>3, <4>6
      <4>. HIDE DEF new
      <4>. QED
        BY <3>2, <4>1, <4>3, <4>7, <4>8, InsertKeepsRecords
    <3>. QED
      BY <3>1, <3>2
  <2>10. CASE UNCHANGED vars
    BY <2>1, <2>10 DEF vars
  <2>. QED
    BY <2>2, <2>3, <2>4, <2>5, <2>6, <2>7, <2>8, <2>9, <2>10,
       RedeemRecordKeepsRecords DEF Next, Request, Delivery, Redeem
<1>. QED
  BY <1>1, <1>2, TypeCorrect, ProcessesSafe, IndexesSafe, PTL DEF Spec

\* A process that reads DELIVERED has a record for each definition it asked
\* for or a redemption about to add its own, one that reads ERRORED, REJECTED
\* or SUBMITTED has none, and no definition is recorded twice.
THEOREM RecordsAgreeWithOutcomes == Spec => []RecordsMatchOutcome
  BY RecordInvImplies, RecordsSafe, PTL

-----------------------------------------------------------------------------
(* The Issuer Service implements IssuanceLifecycle *)

\* The abstract state of module IssuanceLifecycle that a table t of processes,
\* the next process id and the records R stand for.
PhaseIn(t, next, p) ==
    IF p >= next THEN "unborn"
    ELSE IF p \notin DOMAIN t THEN "forgotten"
    ELSE IF t[p].state = "APPROVED" /\ t[p].started THEN "delivering"
    ELSE t[p].state
OwnerIn(t, p) == IF p \in DOMAIN t THEN t[p].holder ELSE {}

Phases(t, next) == [p \in Pids |-> PhaseIn(t, next, p)]
OwnersOf(t)     == [p \in Pids |-> OwnerIn(t, p)]
Issued(R)       == [p \in Pids |-> RecordedIn(R, p)]

\* The refinement mapping of Issuer, in these terms, in both states of a step.
LEMMA MappingIs ==
    /\ [p \in Pids |-> Phase(p)] = Phases(requests, nextPid)
    /\ [p \in Pids |-> Owner(p)] = OwnersOf(requests)
    /\ [p \in Pids |-> OnRecord(p)] = Issued(records)
    /\ [p \in Pids |-> Phase(p)]' = Phases(requests', nextPid')
    /\ [p \in Pids |-> Owner(p)]' = OwnersOf(requests')
    /\ [p \in Pids |-> OnRecord(p)]' = Issued(records')
  BY DEF Phase, Owner, OnRecord, Phases, OwnersOf, Issued, PhaseIn, OwnerIn,
     RecordedIn

\* A step that changes no process and no record stutters; so does one that
\* only rewrites a record.
LEMMA Stutters ==
    ASSUME UNCHANGED <<requests, nextPid>>,
           \A q \in Pids : RecordedIn(records', q) = RecordedIn(records, q)
    PROVE  UNCHANGED Lifecycle!lifecycle
  BY MappingIs DEF Lifecycle!lifecycle, Issued

\* A process that stays as it is keeps its phase.
LEMMA SamePhase ==
    ASSUME NEW t, NEW u, NEW n, NEW m, NEW p, ~ (p >= m), ~ (p >= n),
           p \in DOMAIN u <=> p \in DOMAIN t, p \in DOMAIN t => u[p] = t[p]
    PROVE  PhaseIn(u, m, p) = PhaseIn(t, n, p)
  BY DEF PhaseIn

\* Creating a process: Create of the abstract specification, forgetting the
\* process the table evicts.
LEMMA InsertCreates ==
    ASSUME TypeOK, nextPid <= MaxProcesses, CanInsert(requests),
           NEW process \in IssuanceProcess,
           process.state \in {"SUBMITTED", "APPROVED", "DELIVERED"},
           process.state = "APPROVED" => ~ process.started,
           requests' = Insert(requests, nextPid, process),
           nextPid' = nextPid + 1, UNCHANGED records
    PROVE  Lifecycle!Next
<1>. DEFINE gone == IF Full(requests) THEN {Lowest(Evictable(requests))} ELSE {}
            h == process.holder
            first == process.state
            phase == Phases(requests, nextPid)
            phaseNext == Phases(requests', nextPid')
<1>1. /\ nextPid \in Nat /\ nextPid \in Pids
      /\ DOMAIN requests \in SUBSET Nat
      /\ \A q \in DOMAIN requests : q < nextPid /\ q \in Pids
      /\ h \in Holders
      /\ Pids \subseteq Nat
  <2>1. Pids \subseteq Nat /\ nextPid \in Nat /\ nextPid \in Pids
    BY IssuerAssumption DEF TypeOK, Pids
  <2>2. \A q \in DOMAIN requests : q < nextPid /\ q \in Pids
    BY Shapes
  <2>3. h \in Holders
    BY DEF IssuanceProcess
  <2>. QED
    BY <2>1, <2>2, <2>3
<1>2. \A q \in gone : q \in Evictable(requests)
  <2>1. CASE Full(requests)
    <3>1. Evictable(requests) \in SUBSET Nat /\ Evictable(requests) # {}
      BY <1>1, <2>1 DEF CanInsert, Evictable
    <3>. QED
      BY <3>1, LowestIsMember
  <2>. QED
    BY <2>1
<1>3. \A q, r \in gone : q = r
  OBVIOUS
<1>4. requests' = [q \in (DOMAIN requests \ gone) \cup {nextPid} |->
                      IF q = nextPid THEN process ELSE requests[q]]
  BY DEF Insert
<1>. HIDE DEF gone
<1>5. \A q \in gone : q \in DOMAIN requests /\ requests[q].state \in Terminal
  BY <1>2 DEF Evictable
<1>6. gone \in SUBSET {q \in Pids : phase[q] \in Lifecycle!Settled}
  <2>1. \A q \in gone : q \in Pids /\ ~ (q >= nextPid)
    BY <1>1, <1>5
  <2>2. \A q \in gone : phase[q] = requests[q].state
    BY <1>5, <2>1 DEF Phases, PhaseIn, Terminal
  <2>. QED
    BY <1>5, <2>1, <2>2 DEF Lifecycle!Settled, Terminal
<1>7. phase[nextPid] = "unborn"
  BY <1>1 DEF Phases, PhaseIn
<1>8. phaseNext = [q \in Pids |-> IF q = nextPid THEN first
                                 ELSE IF q \in gone THEN "forgotten"
                                 ELSE phase[q]]
  <2>1. ASSUME NEW q \in Pids
        PROVE  PhaseIn(requests', nextPid', q) =
                  IF q = nextPid THEN first
                  ELSE IF q \in gone THEN "forgotten"
                  ELSE PhaseIn(requests, nextPid, q)
    <3>0. q \in Nat
      BY <1>1
    <3>1. CASE q = nextPid
      <4>1. ~ (q >= nextPid') /\ q \in DOMAIN requests' /\ requests'[q] = process
        BY <1>1, <1>4, <3>1
      <4>. QED
        BY <3>1, <4>1 DEF PhaseIn
    <3>2. CASE q > nextPid
      <4>1. q >= nextPid' /\ q >= nextPid /\ q # nextPid
        BY <1>1, <3>0, <3>2
      <4>2. q \notin gone
        BY <1>1, <1>5, <4>1
      <4>. QED
        BY <4>1, <4>2 DEF PhaseIn
    <3>3. CASE q < nextPid
      <4>1. ~ (q >= nextPid') /\ ~ (q >= nextPid) /\ q # nextPid
        BY <1>1, <3>0, <3>3
      <4>2. q \in gone => q \notin DOMAIN requests'
        BY <1>4, <4>1
      <4>3. q \notin gone =>
              /\ q \in DOMAIN requests' <=> q \in DOMAIN requests
              /\ q \in DOMAIN requests => requests'[q] = requests[q]
        BY <1>4, <4>1
      <4>4. CASE q \in gone
        BY <4>1, <4>2, <4>4 DEF PhaseIn
      <4>5. CASE q \notin gone
        <5>1. PhaseIn(requests', nextPid', q) = PhaseIn(requests, nextPid, q)
          BY <4>1, <4>3, <4>5, SamePhase
        <5>. QED
          BY <4>1, <4>5, <5>1
      <4>. QED
        BY <4>4, <4>5
    <3>. QED
      BY <1>1, <3>0, <3>1, <3>2, <3>3
  <2>. QED
    BY <2>1 DEF Phases
<1>9. OwnersOf(requests') = [q \in Pids |-> IF q = nextPid THEN h
                                           ELSE IF q \in gone THEN {}
                                           ELSE OwnersOf(requests)[q]]
  <2>1. ASSUME NEW q \in Pids
        PROVE  OwnerIn(requests', q) = IF q = nextPid THEN h
                                       ELSE IF q \in gone THEN {}
                                       ELSE OwnerIn(requests, q)
    BY <1>1, <1>4, <1>5 DEF OwnerIn
  <2>. QED
    BY <2>1 DEF OwnersOf
<1>10. Issued(records') = Issued(records)
  OBVIOUS
<1>. HIDE DEF phase, phaseNext, h, first
<1>11. Lifecycle!Create(nextPid, h, first)
  <2>. DEFINE P == [p \in Pids |-> Phase(p)]
              O == [p \in Pids |-> Owner(p)]
              Q == [p \in Pids |-> OnRecord(p)]
  <2>1. /\ P = phase /\ P' = phaseNext
        /\ O = OwnersOf(requests) /\ O' = OwnersOf(requests')
        /\ Q' = Q
    BY <1>10, MappingIs DEF phase, phaseNext
  <2>2. /\ gone \in SUBSET {q \in Pids : P[q] \in Lifecycle!Settled}
        /\ P' = [q \in Pids |-> IF q = nextPid THEN first
                                ELSE IF q \in gone THEN "forgotten" ELSE P[q]]
        /\ O' = [q \in Pids |-> IF q = nextPid THEN h
                                ELSE IF q \in gone THEN {} ELSE O[q]]
    BY <1>6, <1>8, <1>9, <2>1
  <2>3. P[nextPid] = "unborn"
    BY <1>7, <2>1
  <2>. HIDE DEF P, O, Q
  <2>4. \E g \in SUBSET {q \in Pids : P[q] \in Lifecycle!Settled} :
          /\ \A q, r \in g : q = r
          /\ P' = [q \in Pids |-> IF q = nextPid THEN first
                                  ELSE IF q \in g THEN "forgotten" ELSE P[q]]
          /\ O' = [q \in Pids |-> IF q = nextPid THEN h
                                  ELSE IF q \in g THEN {} ELSE O[q]]
    BY <1>3, <2>2
  <2>. QED
    BY <2>1, <2>3, <2>4 DEF Lifecycle!Create, P, O, Q
<1>12. first \in {"SUBMITTED", "APPROVED", "DELIVERED"}
  BY DEF first
<1>. QED
  BY <1>1, <1>11, <1>12 DEF Lifecycle!Next

\* An approval or a rejection: Decide, for the processes of one holder.
LEMMA DecideDecides ==
    ASSUME TypeOK, ProcessInv, NEW h \in Holders,
           ApproveHolder(h) \/ RejectHolder(h)
    PROVE  Lifecycle!Next
<1>. DEFINE P == [p \in Pids |-> Phase(p)]
            O == [p \in Pids |-> Owner(p)]
            Q == [p \in Pids |-> OnRecord(p)]
<1>1. ASSUME NEW next \in {"APPROVED", "REJECTED"}, NEW from,
             from = IF next = "APPROVED" THEN {"SUBMITTED"}
                                         ELSE {"SUBMITTED", "APPROVED"},
             requests' = [p \in DOMAIN requests |->
                            IF p \in Moved(h, next)
                            THEN [requests[p] EXCEPT !.state = next]
                            ELSE requests[p]],
             UNCHANGED <<nextPid, records>>
      PROVE  /\ P' = [p \in Pids |-> IF O[p] = h /\ P[p] \in from THEN next ELSE P[p]]
             /\ UNCHANGED <<O, Q>>
  <2>1. /\ DOMAIN requests' = DOMAIN requests
        /\ \A p \in DOMAIN requests :
              /\ requests'[p].holder = requests[p].holder
              /\ requests'[p].started = requests[p].started
              /\ requests'[p].state = IF p \in Moved(h, next) THEN next
                                                              ELSE requests[p].state
              /\ requests[p].state \in Active \cup Terminal
              /\ p \in Pids
              /\ ~ (p >= nextPid)
    <3>1. \A p \in DOMAIN requests : p \in Nat /\ nextPid \in Nat
      BY DEF TypeOK
    <3>. QED
      BY <1>1, <3>1, Shapes DEF IssuanceProcess
  <2>2. \A p \in DOMAIN requests : p \in Moved(h, next) <=>
          requests[p].holder = h /\ PhaseIn(requests, nextPid, p) \in from
    <3>1. ASSUME NEW p \in DOMAIN requests
          PROVE  p \in Moved(h, next) <=>
                    requests[p].holder = h /\ PhaseIn(requests, nextPid, p) \in from
      <4>1. p \in Moved(h, next) <=>
              /\ requests[p].holder = h
              /\ \/ requests[p].state = "SUBMITTED"
                 \/ /\ next = "REJECTED"
                    /\ requests[p].state = "APPROVED"
                    /\ ~ requests[p].started
        BY DEF Moved
      <4>2. PhaseIn(requests, nextPid, p) =
              IF requests[p].state = "APPROVED" /\ requests[p].started
              THEN "delivering" ELSE requests[p].state
        BY <2>1 DEF PhaseIn
      <4>. QED
        BY <1>1, <4>1, <4>2
    <3>. QED
      BY <3>1
  <2>3. ASSUME NEW p \in Pids
        PROVE  PhaseIn(requests', nextPid, p) =
                  IF OwnerIn(requests, p) = h /\ PhaseIn(requests, nextPid, p) \in from
                  THEN next ELSE PhaseIn(requests, nextPid, p)
    <3>1. CASE p \notin DOMAIN requests
      <4>1. /\ PhaseIn(requests', nextPid, p) = PhaseIn(requests, nextPid, p)
            /\ PhaseIn(requests, nextPid, p) \in {"unborn", "forgotten"}
        BY <2>1, <3>1 DEF PhaseIn
      <4>. QED
        BY <1>1, <4>1
    <3>2. CASE p \in Moved(h, next)
      <4>1. p \in DOMAIN requests /\ OwnerIn(requests, p) = h
            /\ PhaseIn(requests, nextPid, p) \in from
        BY <2>2, <3>2 DEF Moved, OwnerIn
      <4>2. requests'[p].state = next /\ ~ requests'[p].started
        BY <2>1, <3>2, <4>1 DEF Moved, ProcessInv, NotSpawnedYet
      <4>3. PhaseIn(requests', nextPid, p) = next
        BY <2>1, <4>1, <4>2 DEF PhaseIn
      <4>. QED
        BY <4>1, <4>3
    <3>3. CASE p \in DOMAIN requests /\ p \notin Moved(h, next)
      <4>1. ~ (OwnerIn(requests, p) = h /\ PhaseIn(requests, nextPid, p) \in from)
        BY <2>2, <3>3 DEF OwnerIn
      <4>2. requests'[p] = requests[p]
        BY <1>1, <3>3
      <4>3. PhaseIn(requests', nextPid, p) = PhaseIn(requests, nextPid, p)
        BY <2>1, <3>3, <4>2 DEF PhaseIn
      <4>. QED
        BY <4>1, <4>3
    <3>. QED
      BY <3>1, <3>2, <3>3 DEF Moved
  <2>4. \A p \in Pids : OwnerIn(requests', p) = OwnerIn(requests, p)
    BY <2>1 DEF OwnerIn
  <2>5. /\ Phases(requests', nextPid') =
              [p \in Pids |-> IF OwnersOf(requests)[p] = h
                                 /\ Phases(requests, nextPid)[p] \in from
                              THEN next ELSE Phases(requests, nextPid)[p]]
        /\ OwnersOf(requests') = OwnersOf(requests)
        /\ Issued(records') = Issued(records)
    BY <1>1, <2>3, <2>4 DEF Phases, OwnersOf
  <2>. QED
    BY <2>5, MappingIs
<1>2. CASE ApproveHolder(h)
  <2>1. Lifecycle!Decide(h, {"SUBMITTED"}, "APPROVED")
    BY <1>1, <1>2 DEF ApproveHolder, DecideHolder, Lifecycle!Decide
  <2>. QED
    BY <2>1 DEF Lifecycle!Next, Lifecycle!Waiting
<1>3. CASE RejectHolder(h)
  <2>1. Lifecycle!Decide(h, {"SUBMITTED", "APPROVED"}, "REJECTED")
    BY <1>1, <1>3 DEF RejectHolder, DecideHolder, Lifecycle!Decide
  <2>. QED
    BY <2>1 DEF Lifecycle!Next, Lifecycle!Waiting
<1>. QED
  BY <1>2, <1>3

\* Records of one process: PutOnRecord.
LEMMA RecordingPuts ==
    ASSUME NEW p \in Pids, NEW ds \in SUBSET Definitions, ds # {},
           PhaseIn(requests, nextPid, p) \in {"delivering", "DELIVERED", "forgotten"},
           RecordedIn(records, p) = {}, RecordedIn(records', p) = ds,
           \A q : q # p => RecordedIn(records', q) = RecordedIn(records, q),
           UNCHANGED <<requests, nextPid>>
    PROVE  Lifecycle!Next
<1>1. /\ Phases(requests, nextPid)[p] \in {"delivering", "DELIVERED", "forgotten"}
      /\ Issued(records)[p] = {}
      /\ Issued(records') = [Issued(records) EXCEPT ![p] = ds]
  BY DEF Phases, Issued
<1>2. Lifecycle!PutOnRecord(p, ds)
  BY <1>1, MappingIs DEF Lifecycle!PutOnRecord
<1>. QED
  BY <1>2 DEF Lifecycle!Next

\* A step of one process that has records already or gets none.
LEMMA MovesOne ==
    ASSUME TypeOK, NEW p \in DOMAIN requests, UNCHANGED <<nextPid, records>>,
           DOMAIN requests' = DOMAIN requests,
           \A q \in DOMAIN requests : q # p => requests'[q] = requests[q],
           requests'[p].holder = requests[p].holder
    PROVE  /\ Phases(requests', nextPid') =
                 [Phases(requests, nextPid) EXCEPT ![p] = PhaseIn(requests', nextPid, p)]
           /\ OwnersOf(requests') = OwnersOf(requests)
           /\ Issued(records') = Issued(records)
<1>1. ASSUME NEW q \in Pids, q # p
      PROVE  PhaseIn(requests', nextPid, q) = PhaseIn(requests, nextPid, q)
  BY <1>1 DEF PhaseIn
<1>2. \A q \in Pids : OwnerIn(requests', q) = OwnerIn(requests, q)
  BY DEF OwnerIn
<1>. QED
  BY <1>1, <1>2 DEF Phases, OwnersOf

\* A delivery task starts, records or reports for its process, or stutters.
LEMMA DeliverRefines ==
    ASSUME TypeOK, ProcessInv, RecordInv, NEW p \in Pids, NEW n \in DOMAIN tasks[p],
           AcquirePermit(p, n) \/ Deliver(p, n)
    PROVE  Lifecycle!Next \/ UNCHANGED Lifecycle!lifecycle
<1>1. CASE UNCHANGED <<requests, nextPid, records>>
  BY <1>1, Stutters
<1>2. CASE ClaimProcess(p, n)
  <2>1. /\ p \in DOMAIN requests
        /\ requests[p].state = "APPROVED"
        /\ tasks[p][n].pc = "permitted"
        /\ requests' = [requests EXCEPT ![p].started = TRUE]
        /\ requests[p] \in IssuanceProcess
        /\ UNCHANGED <<nextPid, records>>
    BY <1>2, Shapes DEF ClaimProcess, Claimable, At
  <2>2. ~ requests[p].started
    <3>1. \A k \in DOMAIN tasks[p] : k = n
      BY Shapes DEF ProcessInv, OneDeliveryTask
    <3>. QED
      BY <2>1, <3>1 DEF ProcessInv, ApprovedHasTask, Claimed, WithPermit
  <2>3. /\ DOMAIN requests' = DOMAIN requests
        /\ \A q \in DOMAIN requests : q # p => requests'[q] = requests[q]
        /\ requests'[p].holder = requests[p].holder
        /\ requests'[p].started
        /\ requests'[p].state = "APPROVED"
    BY <2>1 DEF IssuanceProcess
  <2>4. /\ PhaseIn(requests, nextPid, p) = "APPROVED"
        /\ PhaseIn(requests', nextPid, p) = "delivering"
    <3>1. ~ (p >= nextPid)
      BY <2>1, Shapes DEF TypeOK, Pids
    <3>. QED
      BY <2>1, <2>2, <2>3, <3>1 DEF PhaseIn
  <2>5. /\ Phases(requests', nextPid') =
              [Phases(requests, nextPid) EXCEPT ![p] = "delivering"]
        /\ OwnersOf(requests') = OwnersOf(requests)
        /\ Issued(records') = Issued(records)
    BY <2>1, <2>3, <2>4, MovesOne, ZenonT(30)
  <2>6. Phases(requests, nextPid)[p] = "APPROVED"
    BY <2>4 DEF Phases
  <2>7. Lifecycle!StartDelivery(p)
    BY <2>5, <2>6, MappingIs DEF Lifecycle!StartDelivery
  <2>. QED
    BY <2>7 DEF Lifecycle!Next
<1>3. CASE RecordIssued(p, n)
  <2>1. /\ p \in DOMAIN requests
        /\ requests[p].state = "APPROVED" /\ requests[p].started
        /\ RecordedIn(records, p) = {}
        /\ RecordedIn(records', p) = requests[p].defs
        /\ \A q : q # p => RecordedIn(records', q) = RecordedIn(records, q)
        /\ UNCHANGED <<requests, nextPid>>
    <3>1. UNCHANGED <<requests, nextPid>>
      BY <1>3 DEF RecordIssued
    <3>. QED
      BY <1>3, <3>1, RecordIssuedEffect
  <2>2. requests[p].defs \in SUBSET Definitions /\ requests[p].defs # {}
    BY <2>1, Shapes DEF IssuanceProcess, RecordInv, ProcessFits
  <2>3. PhaseIn(requests, nextPid, p) = "delivering"
    <3>1. ~ (p >= nextPid)
      BY <2>1, Shapes DEF TypeOK, Pids
    <3>. QED
      BY <2>1, <3>1 DEF PhaseIn
  <2>. QED
    BY <2>1, <2>2, <2>3, RecordingPuts
<1>4. CASE FinishDelivery(p, n)
  <2>1. PICK pc \in {"delivered", "errored"} :
          /\ tasks[p][n].pc = pc
          /\ requests' = IF p \in DOMAIN requests
                         THEN [requests EXCEPT ![p].state = Outcome(pc)]
                         ELSE requests
    BY <1>4 DEF FinishDelivery, At
  <2>2. /\ p \in DOMAIN requests
        /\ requests[p].state = "APPROVED" /\ requests[p].started
        /\ requests[p] \in IssuanceProcess
        /\ UNCHANGED <<nextPid, records>>
    BY <1>4, <2>1, Shapes DEF FinishDelivery, ProcessInv, ClaimedProcessStays,
                              Claimed, WithPermit, TaskPc
  <2>3. /\ pc = "delivered" <=> RecordedIn(records, p) # {}
    BY <2>1, <2>2 DEF RecordInv, ProcessFits, TaskFits, Claimed, WithPermit, TaskPc
  <2>4. /\ DOMAIN requests' = DOMAIN requests
        /\ \A q \in DOMAIN requests : q # p => requests'[q] = requests[q]
        /\ requests'[p].holder = requests[p].holder
        /\ requests'[p].state = Outcome(pc)
    BY <2>1, <2>2 DEF IssuanceProcess
  <2>5. /\ PhaseIn(requests, nextPid, p) = "delivering"
        /\ PhaseIn(requests', nextPid, p) = Outcome(pc)
    <3>1. ~ (p >= nextPid)
      BY <2>2, Shapes DEF TypeOK, Pids
    <3>. QED
      BY <2>2, <2>4, <3>1 DEF PhaseIn, Outcome
  <2>6. /\ Phases(requests', nextPid') =
              [Phases(requests, nextPid) EXCEPT ![p] = Outcome(pc)]
        /\ OwnersOf(requests') = OwnersOf(requests)
        /\ Issued(records') = Issued(records)
    BY <2>2, <2>4, <2>5, MovesOne
  <2>7. /\ Phases(requests, nextPid)[p] = "delivering"
        /\ Outcome(pc) = IF Issued(records)[p] # {} THEN "DELIVERED" ELSE "ERRORED"
    BY <2>3, <2>5 DEF Phases, Issued, Outcome
  <2>8. Lifecycle!ReportOutcome(p)
    BY <2>6, <2>7, MappingIs DEF Lifecycle!ReportOutcome
  <2>. QED
    BY <2>8 DEF Lifecycle!Next
<1>. QED
  BY <1>1, <1>2, <1>3, <1>4
     DEF Deliver, AcquirePermit, AbandonProcess, LookUpDefinitions, ResolveHolder,
         AllocateIndex, AllocationFails, PostCredentials, ReleaseIndexes

\* The Issuer Service implements IssuanceLifecycle: seen through the status
\* endpoint and the Admin API, every critical section of every handler and
\* delivery task is one step of the abstract specification or none.
THEOREM Refinement == Spec => ImplementsLifecycle
<1>1. Init => Lifecycle!Init
  <2>. SUFFICES ASSUME Init PROVE Lifecycle!Init
    OBVIOUS
  <2>1. /\ Phases(requests, nextPid) = [p \in Pids |-> "unborn"]
        /\ OwnersOf(requests) = [p \in Pids |-> {}]
        /\ Issued(records) = [p \in Pids |-> {}]
    BY IssuerAssumption DEF Init, Phases, OwnersOf, Issued, PhaseIn, OwnerIn,
       RecordedIn, Pids
  <2>. QED
    BY <2>1, MappingIs DEF Lifecycle!Init
<1>2. TypeOK /\ ProcessInv /\ RecordInv /\ [Next]_vars
         => [Lifecycle!Next]_(Lifecycle!lifecycle)
  <2>. SUFFICES ASSUME TypeOK, ProcessInv, RecordInv, [Next]_vars
                PROVE  Lifecycle!Next \/ UNCHANGED Lifecycle!lifecycle
    OBVIOUS
  <2>1. ASSUME UNCHANGED <<requests, nextPid, records>>
        PROVE  UNCHANGED Lifecycle!lifecycle
    BY <2>1, Stutters
  <2>2. ASSUME NEW r \in records, RevokeCredential(r)
        PROVE  UNCHANGED Lifecycle!lifecycle
    <3>1. \A q : RecordedIn(records', q) = RecordedIn(records, q)
      BY <2>2, RevokeEffect
    <3>. QED
      BY <2>2, <3>1, Stutters DEF RevokeCredential
  <2>3. ASSUME NEW h \in Holders, NEW ds \in SUBSET Definitions,
               CredentialRequestAccepted(h, ds)
        PROVE  Lifecycle!Next
    <3>1. PICK state \in {"SUBMITTED", "APPROVED"} :
            requests' = Insert(requests, nextPid,
                               [state |-> state, holder |-> h, defs |-> ds,
                                started |-> FALSE])
      BY <2>3 DEF CredentialRequestAccepted
    <3>. DEFINE process == [state |-> state, holder |-> h, defs |-> ds,
                            started |-> FALSE]
    <3>2. /\ process \in IssuanceProcess
          /\ process.state \in {"SUBMITTED", "APPROVED", "DELIVERED"}
          /\ ~ process.started
      BY DEF IssuanceProcess, Active
    <3>3. /\ nextPid <= MaxProcesses
          /\ CanInsert(requests)
          /\ nextPid' = nextPid + 1
          /\ UNCHANGED records
          /\ requests' = Insert(requests, nextPid, process)
      BY <2>3, <3>1 DEF CredentialRequestAccepted, Admissible
    <3>. HIDE DEF process
    <3>. QED
      BY <3>2, <3>3, InsertCreates
  <2>4. ASSUME NEW r \in redemptions, RedeemInsert(r)
        PROVE  Lifecycle!Next \/ UNCHANGED Lifecycle!lifecycle
    <3>1. CASE ~ CanInsert(requests)
      BY <2>1, <2>4, <3>1 DEF RedeemInsert
    <3>2. CASE CanInsert(requests)
      <4>. DEFINE process == [state |-> "DELIVERED", holder |-> r.holder,
                              defs |-> {r.def}, started |-> TRUE]
      <4>1. process \in IssuanceProcess /\ process.state = "DELIVERED"
        BY DEF TypeOK, Redemption, IssuanceProcess, Terminal
      <4>2. /\ nextPid <= MaxProcesses
            /\ nextPid' = nextPid + 1
            /\ UNCHANGED records
            /\ requests' = Insert(requests, nextPid, process)
        BY <2>4, <3>2 DEF RedeemInsert
      <4>. HIDE DEF process
      <4>. QED
        BY <3>2, <4>1, <4>2, InsertCreates
    <3>. QED
      BY <3>1, <3>2
  <2>5. ASSUME NEW r \in redemptions, RedeemRecord(r)
        PROVE  Lifecycle!Next
    <3>1. /\ r.pid < nextPid /\ r.pid \in Pids
          /\ RecordedIn(records, r.pid) = {}
          /\ r.pid \in DOMAIN requests => requests[r.pid].state = "DELIVERED"
          /\ {r.def} \in SUBSET Definitions
      BY <2>5 DEF RedeemRecord, RecordInv, RedemptionsFit, TypeOK, Redemption
    <3>2. /\ RecordedIn(records', r.pid) = {r.def}
          /\ \A q : q # r.pid => RecordedIn(records', q) = RecordedIn(records, q)
      BY <2>5, RedeemRecordEffect
    <3>3. PhaseIn(requests, nextPid, r.pid) \in {"DELIVERED", "forgotten"}
      <4>1. ~ (r.pid >= nextPid)
        BY <3>1 DEF TypeOK, Pids
      <4>. QED
        BY <3>1, <4>1 DEF PhaseIn
    <3>4. UNCHANGED <<requests, nextPid>>
      BY <2>5 DEF RedeemRecord
    <3>. QED
      BY <3>1, <3>2, <3>3, <3>4, RecordingPuts
  <2>6. CASE UNCHANGED vars
    BY <2>1, <2>6 DEF vars
  <2>7. CASE Admin
    BY <2>1, <2>2, <2>7, DecideDecides
       DEF Admin, CreateDefinition, DeleteDefinition, RegisterHolder
  <2>8. CASE Request
    BY <2>1, <2>3, <2>8 DEF Request, CredentialRequestRefused
  <2>9. CASE Redeem
    BY <2>1, <2>4, <2>5, <2>9
       DEF Redeem, RedeemStart, RedeemHolder, RedeemAllocate, RedeemRelease
  <2>10. CASE ServeStatusList
    BY <2>1, <2>10 DEF ServeStatusList
  <2>. QED
    BY <2>6, <2>7, <2>8, <2>9, <2>10, DeliverRefines DEF Next, Delivery
<1>. QED
  BY <1>1, <1>2, TypeCorrect, ProcessesSafe, RecordsSafe, PTL
     DEF Spec, ImplementsLifecycle, Lifecycle!Spec

-----------------------------------------------------------------------------
(* Limits *)

\* The tasks that hold a permit of the delivery semaphore.
Permitted == {t \in Spawned : tasks[t[1]][t[2]].pc \in WithPermit}

\* The sets the limits count are finite although nothing bounds the sets of
\* DIDs and definition ids an operator may use.
LimitInv ==
    /\ LimitsHold
    /\ IsFiniteSet(Registered)
    /\ IsFiniteSet(catalog)
    /\ IsFiniteSet(Permitted)

\* Counting a subset, and a set with one element more.
LEMMA CountSubset ==
    ASSUME NEW S, IsFiniteSet(S), NEW T, T \subseteq S
    PROVE  /\ IsFiniteSet(T)
           /\ Cardinality(S) \in Nat
           /\ Cardinality(T) \in Nat
           /\ Cardinality(T) <= Cardinality(S)
  BY FS_Subset, FS_CardinalityType

\* At most one element more counts at most one more.
LEMMA CountOneMore ==
    ASSUME NEW S, IsFiniteSet(S), NEW x, NEW T, T \subseteq S \cup {x}
    PROVE  /\ IsFiniteSet(T)
           /\ Cardinality(S) \in Nat
           /\ Cardinality(T) \in Nat
           /\ Cardinality(T) <= Cardinality(S) + 1
<1>1. /\ IsFiniteSet(S \cup {x})
      /\ Cardinality(S \cup {x}) = IF x \in S THEN Cardinality(S) ELSE Cardinality(S) + 1
      /\ Cardinality(S) \in Nat
  BY FS_AddElement, FS_CardinalityType
<1>2. /\ IsFiniteSet(T)
      /\ Cardinality(T) \in Nat
      /\ Cardinality(T) <= Cardinality(S \cup {x})
  BY <1>1, CountSubset
<1>. QED
  BY <1>1, <1>2

\* The process table is finite, and so is what waits in it.
LEMMA TablesFinite ==
    ASSUME TypeOK
    PROVE  /\ IsFiniteSet(DOMAIN requests)
           /\ IsFiniteSet(Pending(requests))
           /\ \A h : IsFiniteSet(PendingOf(requests, h))
<1>1. IsFiniteSet(1 .. nextPid - 1)
  <2>1. 1 \in Int /\ nextPid - 1 \in Int
    BY IssuerAssumption DEF TypeOK
  <2>. QED
    BY <2>1, FS_Interval
<1>2. IsFiniteSet(DOMAIN requests)
  BY <1>1, FS_Subset DEF TypeOK
<1>. QED
  BY <1>2, FS_Subset DEF Pending, PendingOf

\* Permits and the tables of holders and definitions are counted apart from
\* the process table.
ProcessCaps ==
    /\ Cardinality(DOMAIN requests) <= MaxTracked
    /\ Cardinality(Pending(requests)) <= MaxPending
    /\ \A h \in Holders :
          Cardinality(PendingOf(requests, h)) <= MaxPendingPerHolder
HolderCap  == Cardinality(Registered) <= MaxHolders /\ IsFiniteSet(Registered)
CatalogCap == Cardinality(catalog) <= MaxDefinitions /\ IsFiniteSet(catalog)
PermitInv  == PermitsConserved /\ IsFiniteSet(Permitted)

\* What LimitInv says, part by part.
LEMMA LimitParts ==
    /\ LimitInv <=> ProcessCaps /\ HolderCap /\ CatalogCap /\ PermitInv
    /\ LimitInv' <=> ProcessCaps' /\ HolderCap' /\ CatalogCap' /\ PermitInv'
  BY DEF LimitInv, LimitsHold, CapsHold, ProcessCaps, HolderCap, CatalogCap,
     PermitInv

\* An insertion keeps the caps of the process table: when the table is full it
\* evicts one, and a process that will wait is admitted only below its caps.
LEMMA InsertKeepsCaps ==
    ASSUME TypeOK, ProcessCaps, nextPid <= MaxProcesses, CanInsert(requests),
           NEW process \in IssuanceProcess,
           process.state = "SUBMITTED" => WithinPendingCaps(process.holder),
           requests' = Insert(requests, nextPid, process)
    PROVE  ProcessCaps'
<1>. USE IssuerAssumption
<1>. DEFINE D == DOMAIN requests
<1>1. /\ D \in SUBSET Nat
      /\ nextPid \in Nat
      /\ nextPid \notin D
      /\ process.holder \in Holders
  BY DEF TypeOK, IssuanceProcess
<1>2. /\ DOMAIN requests' \subseteq D \cup {nextPid}
      /\ requests'[nextPid] = process
      /\ \A q \in DOMAIN requests' : q # nextPid => q \in D /\ requests'[q] = requests[q]
  BY <1>1, InsertEffect DEF TypeOK
<1>3. Cardinality(DOMAIN requests') <= MaxTracked
  <2>1. CASE Full(requests)
    <3>1. Evictable(requests) \in SUBSET Nat /\ Evictable(requests) # {}
      BY <1>1, <2>1 DEF CanInsert, Evictable
    <3>2. PICK x \in D : DOMAIN requests' = (D \ {x}) \cup {nextPid}
      <4>1. Lowest(Evictable(requests)) \in D
        BY <3>1, LowestIsMember DEF Evictable
      <4>. QED
        BY <2>1, <4>1 DEF Insert
    <3>3. /\ IsFiniteSet(D \ {x})
          /\ Cardinality(D \ {x}) = Cardinality(D) - 1
          /\ Cardinality(D) \in Nat
      BY TablesFinite, FS_RemoveElement, FS_CardinalityType
    <3>4. Cardinality(DOMAIN requests') <= Cardinality(D \ {x}) + 1
          /\ Cardinality(DOMAIN requests') \in Nat
      BY <3>2, <3>3, CountOneMore
    <3>. QED
      BY <3>3, <3>4 DEF ProcessCaps
  <2>2. CASE ~ Full(requests)
    <3>1. /\ Cardinality(DOMAIN requests') <= Cardinality(D) + 1
          /\ Cardinality(D) \in Nat
          /\ Cardinality(DOMAIN requests') \in Nat
      BY <1>2, TablesFinite, CountOneMore
    <3>2. Cardinality(D) < MaxTracked
      BY <2>2, <3>1 DEF Full
    <3>. QED
      BY <3>1, <3>2
  <2>. QED
    BY <2>1, <2>2
<1>4. ASSUME NEW S, IsFiniteSet(S), NEW T, NEW max \in Nat, Cardinality(S) <= max,
             T \subseteq S \/ (T \subseteq S \cup {nextPid} /\ Cardinality(S) < max)
      PROVE  Cardinality(T) <= max
  <2>1. CASE T \subseteq S
    BY <1>4, <2>1, CountSubset
  <2>2. CASE T \subseteq S \cup {nextPid} /\ Cardinality(S) < max
    <3>1. /\ Cardinality(T) <= Cardinality(S) + 1
          /\ Cardinality(S) \in Nat
          /\ Cardinality(T) \in Nat
      BY <1>4, <2>2, CountOneMore
    <3>. QED
      BY <2>2, <3>1
  <2>. QED
    BY <1>4, <2>1, <2>2
<1>5. Cardinality(Pending(requests')) <= MaxPending
  <2>1. \/ Pending(requests') \subseteq Pending(requests)
        \/ /\ Pending(requests') \subseteq Pending(requests) \cup {nextPid}
           /\ Cardinality(Pending(requests)) < MaxPending
    BY <1>2 DEF Pending, WithinPendingCaps
  <2>. QED
    BY <1>4, <2>1, TablesFinite DEF ProcessCaps
<1>6. ASSUME NEW h \in Holders
      PROVE  Cardinality(PendingOf(requests', h)) <= MaxPendingPerHolder
  <2>1. \/ PendingOf(requests', h) \subseteq PendingOf(requests, h)
        \/ /\ PendingOf(requests', h) \subseteq PendingOf(requests, h) \cup {nextPid}
           /\ Cardinality(PendingOf(requests, h)) < MaxPendingPerHolder
    <3>1. PendingOf(requests', h) \subseteq PendingOf(requests, h) \cup {nextPid}
      BY <1>2 DEF Pending, PendingOf
    <3>2. CASE process.state = "SUBMITTED" /\ process.holder = h
      BY <3>1, <3>2 DEF WithinPendingCaps
    <3>3. CASE ~ (process.state = "SUBMITTED" /\ process.holder = h)
      <4>1. nextPid \notin PendingOf(requests', h)
        BY <1>2, <3>3 DEF Pending, PendingOf
      <4>. QED
        BY <3>1, <4>1
    <3>. QED
      BY <3>2, <3>3
  <2>. QED
    BY <1>4, <2>1, TablesFinite DEF ProcessCaps
<1>. QED
  BY <1>3, <1>5, <1>6 DEF ProcessCaps

\* A decision, a claim and a report leave the table no fuller than it was.
LEMMA ShrinkKeepsCaps ==
    ASSUME TypeOK, ProcessCaps, DOMAIN requests' = DOMAIN requests,
           \A p \in DOMAIN requests :
              /\ requests'[p].holder = requests[p].holder
              /\ requests'[p].state = "SUBMITTED" => requests[p].state = "SUBMITTED"
    PROVE  ProcessCaps'
<1>. USE IssuerAssumption
<1>1. /\ Pending(requests') \subseteq Pending(requests)
      /\ \A h : PendingOf(requests', h) \subseteq PendingOf(requests, h)
  BY DEF Pending, PendingOf
<1>2. /\ Cardinality(Pending(requests')) <= MaxPending
      /\ \A h \in Holders : Cardinality(PendingOf(requests', h)) <= MaxPendingPerHolder
  <2>1. \A S, T : IsFiniteSet(S) /\ T \subseteq S =>
          /\ Cardinality(S) \in Nat /\ Cardinality(T) \in Nat
          /\ Cardinality(T) <= Cardinality(S)
    BY CountSubset
  <2>2. /\ Cardinality(Pending(requests)) \in Nat
        /\ Cardinality(Pending(requests')) \in Nat
        /\ Cardinality(Pending(requests')) <= Cardinality(Pending(requests))
        /\ \A h : /\ Cardinality(PendingOf(requests, h)) \in Nat
                  /\ Cardinality(PendingOf(requests', h)) \in Nat
                  /\ Cardinality(PendingOf(requests', h))
                        <= Cardinality(PendingOf(requests, h))
    BY <1>1, <2>1, TablesFinite
  <2>. QED
    BY <2>2 DEF ProcessCaps
<1>. QED
  BY <1>2 DEF ProcessCaps

\* A holder record is made only for a known DID or below MAX_HOLDERS.
LEMMA HolderCapKept ==
    ASSUME TypeOK, HolderCap, NEW h \in Holders, NEW status,
           holders' = [holders EXCEPT ![h] = status],
           holders[h] # "absent" \/ CanRegister(h)
    PROVE  HolderCap'
<1>. USE IssuerAssumption
<1>1. holders \in [Holders -> HolderStatus \cup {"absent"}]
  BY DEF TypeOK
<1>2. CASE holders[h] # "absent"
  <2>1. Registered' \subseteq Registered
    BY <1>1, <1>2 DEF Registered
  <2>. QED
    BY <2>1, CountSubset DEF HolderCap
<1>3. CASE CanRegister(h)
  <2>1. Registered' \subseteq Registered \cup {h}
    BY <1>1 DEF Registered
  <2>2. /\ IsFiniteSet(Registered')
        /\ Cardinality(Registered) \in Nat
        /\ Cardinality(Registered') \in Nat
        /\ Cardinality(Registered') <= Cardinality(Registered) + 1
    BY <2>1, CountOneMore DEF HolderCap
  <2>. QED
    BY <1>3, <2>2 DEF CanRegister, HolderCap
<1>. QED
  BY <1>2, <1>3

\* The catalog grows by one below MAX_CREDENTIAL_DEFINITIONS.
LEMMA CatalogCapKept ==
    ASSUME TypeOK, CatalogCap, NEW d \in Definitions,
           CreateDefinition(d) \/ DeleteDefinition(d)
    PROVE  CatalogCap'
<1>. USE IssuerAssumption
<1>1. CASE CreateDefinition(d)
  <2>1. catalog' \subseteq catalog \cup {d}
    BY <1>1 DEF CreateDefinition
  <2>2. /\ IsFiniteSet(catalog')
        /\ Cardinality(catalog) \in Nat
        /\ Cardinality(catalog') \in Nat
        /\ Cardinality(catalog') <= Cardinality(catalog) + 1
    BY <2>1, CountOneMore DEF CatalogCap
  <2>. QED
    BY <1>1, <2>2 DEF CreateDefinition, CatalogCap
<1>2. CASE DeleteDefinition(d)
  <2>1. catalog' \subseteq catalog
    BY <1>2 DEF DeleteDefinition
  <2>. QED
    BY <2>1, CountSubset DEF CatalogCap
<1>. QED
  BY <1>1, <1>2

\* Which tasks hold a permit.
LEMMA PermittedAre ==
    /\ \A t : t \in Permitted <=>
          \E p \in Pids : \E n \in DOMAIN tasks[p] :
             t = <<p, n>> /\ tasks[p][n].pc \in WithPermit
    /\ \A t : t \in Permitted' <=>
          \E p \in Pids : \E n \in DOMAIN tasks'[p] :
             t = <<p, n>> /\ tasks'[p][n].pc \in WithPermit
  BY DEF Permitted, Spawned

\* Spawned tasks queue: they hold no permit yet.
LEMMA SpawnKeepsPermits ==
    ASSUME TypeOK, PermitInv, NEW P, Spawn(P), UNCHANGED permits
    PROVE  PermitInv'
<1>1. /\ \A q \in Pids : q \notin P => tasks'[q] = tasks[q]
      /\ \A q \in Pids : q \in P =>
            /\ Len(tasks'[q]) = Len(tasks[q]) + 1
            /\ tasks'[q][Len(tasks[q]) + 1] = NewTask
            /\ \A k \in DOMAIN tasks[q] : tasks'[q][k] = tasks[q][k]
      /\ tasks' \in [Pids -> Seq(Task)]
      /\ tasks \in [Pids -> Seq(Task)]
  BY SpawnEffect DEF TypeOK
<1>2. \A q \in Pids : /\ DOMAIN tasks[q] = 1 .. Len(tasks[q])
                      /\ DOMAIN tasks'[q] = 1 .. Len(tasks'[q])
                      /\ Len(tasks[q]) \in Nat
  BY <1>1, LenProperties
<1>3. ASSUME NEW q \in Pids, NEW k
      PROVE  k \in DOMAIN tasks[q] /\ tasks[q][k].pc \in WithPermit <=>
                k \in DOMAIN tasks'[q] /\ tasks'[q][k].pc \in WithPermit
  <2>1. CASE q \notin P
    BY <1>1, <2>1
  <2>2. CASE q \in P
    <3>1. NewTask.pc \notin WithPermit
      BY DEF NewTask, WithPermit
    <3>2. \A j : j \in DOMAIN tasks'[q] <=>
                    j \in DOMAIN tasks[q] \/ j = Len(tasks[q]) + 1
      BY <1>1, <1>2, <2>2
    <3>3. Len(tasks[q]) + 1 \notin DOMAIN tasks[q]
      BY <1>2
    <3>. QED
      BY <1>1, <2>2, <3>1, <3>2, <3>3
  <2>. QED
    BY <2>1, <2>2
<1>4. Permitted' = Permitted
  <2>1. \A t : t \in Permitted' <=> t \in Permitted
    BY <1>3, PermittedAre
  <2>. QED
    BY <2>1 DEF Permitted
<1>. QED
  BY <1>4 DEF PermitInv, PermitsConserved, Permitted

\* A task's step keeps the count when it takes a permit on leaving the queue,
\* keeps it while it works, and returns it when it is done.
LEMMA TaskStepKeepsPermits ==
    ASSUME TypeOK, PermitInv, NEW p \in Pids, NEW n \in DOMAIN tasks[p],
           NEW t \in Task, Update(p, n, t),
           \/ /\ tasks[p][n].pc \notin WithPermit
              /\ t.pc \in WithPermit
              /\ permits' = permits - 1
           \/ /\ tasks[p][n].pc \in WithPermit
              /\ t.pc \in WithPermit
              /\ UNCHANGED permits
           \/ /\ tasks[p][n].pc \in WithPermit
              /\ t.pc \notin WithPermit
              /\ permits' = permits + 1
    PROVE  PermitInv'
<1>. USE IssuerAssumption
<1>1. /\ \A q \in Pids : Len(tasks'[q]) = Len(tasks[q])
      /\ tasks'[p][n] = t
      /\ \A q \in Pids : \A k \in DOMAIN tasks[q] :
            q # p \/ k # n => tasks'[q][k] = tasks[q][k]
      /\ tasks' \in [Pids -> Seq(Task)]
      /\ tasks \in [Pids -> Seq(Task)]
  BY UpdateEffect DEF TypeOK
<1>2. \A q \in Pids : DOMAIN tasks'[q] = DOMAIN tasks[q]
  BY <1>1, LenProperties
<1>3. <<p, n>> \in Permitted <=> tasks[p][n].pc \in WithPermit
  BY PermittedAre
<1>4. <<p, n>> \in Permitted' <=> t.pc \in WithPermit
  <2>1. n \in DOMAIN tasks'[p]
    BY <1>2
  <2>. QED
    BY <1>1, <2>1, PermittedAre
<1>5. \A u : u # <<p, n>> => (u \in Permitted <=> u \in Permitted')
  <2>. SUFFICES ASSUME NEW u, u # <<p, n>>
                PROVE  u \in Permitted <=> u \in Permitted'
    OBVIOUS
  <2>1. ASSUME NEW q \in Pids, NEW k, u = <<q, k>>
        PROVE  /\ k \in DOMAIN tasks[q] <=> k \in DOMAIN tasks'[q]
               /\ k \in DOMAIN tasks[q] => tasks'[q][k] = tasks[q][k]
    BY <1>1, <1>2, <2>1
  <2>. QED
    BY <2>1, PermittedAre
<1>6. /\ t.pc \in WithPermit => Permitted' = Permitted \cup {<<p, n>>}
      /\ t.pc \notin WithPermit => Permitted' = Permitted \ {<<p, n>>}
  <2>1. /\ t.pc \in WithPermit =>
              \A u : u \in Permitted' <=> u \in Permitted \cup {<<p, n>>}
        /\ t.pc \notin WithPermit =>
              \A u : u \in Permitted' <=> u \in Permitted \ {<<p, n>>}
    BY <1>4, <1>5
  <2>. QED
    BY <2>1 DEF Permitted
<1>7. /\ permits \in Nat
      /\ IsFiniteSet(Permitted)
      /\ Cardinality(Permitted) \in Nat
      /\ permits + Cardinality(Permitted) = MaxInFlight
  BY FS_CardinalityType DEF PermitInv, PermitsConserved, Permitted, TypeOK
<1>8. /\ IsFiniteSet(Permitted')
      /\ Cardinality(Permitted') =
            IF t.pc \in WithPermit
            THEN IF tasks[p][n].pc \in WithPermit THEN Cardinality(Permitted)
                                                  ELSE Cardinality(Permitted) + 1
            ELSE IF tasks[p][n].pc \in WithPermit THEN Cardinality(Permitted) - 1
                                                  ELSE Cardinality(Permitted)
  BY <1>3, <1>6, <1>7, FS_AddElement, FS_RemoveElement
<1>9. permits' + Cardinality(Permitted') = MaxInFlight
  BY <1>7, <1>8
<1>. QED
  BY <1>8, <1>9 DEF PermitInv, PermitsConserved, Permitted

\* Every step and every exit of a delivery task, the early return for a
\* process that was rejected meanwhile included.
LEMMA DeliverKeepsPermits ==
    ASSUME TypeOK, PermitInv, NEW p \in Pids, NEW n \in DOMAIN tasks[p],
           AcquirePermit(p, n) \/ Deliver(p, n)
    PROVE  PermitInv'
<1>1. /\ tasks[p][n] \in Task
      /\ \A pc \in TaskPc : /\ [NewTask EXCEPT !.pc = pc] \in Task
                            /\ [NewTask EXCEPT !.pc = pc].pc = pc
                            /\ [tasks[p][n] EXCEPT !.pc = pc] \in Task
                            /\ [tasks[p][n] EXCEPT !.pc = pc].pc = pc
  BY TaskTypes DEF NewTask, Task
<1>2. \A pc : At(p, n, pc) => tasks[p][n].pc = pc
  BY DEF At
<1>3. CASE AcquirePermit(p, n)
  BY <1>1, <1>2, <1>3, TaskStepKeepsPermits
     DEF AcquirePermit, GoTo, TaskPc, WithPermit
<1>4. CASE ClaimProcess(p, n)
  <2>1. [pc |-> "claimed", todo |-> requests[p].defs, minted |-> {}] \in Task
    BY <1>4 DEF ClaimProcess, Claimable, TypeOK, IssuanceProcess, Task, TaskPc
  <2>. QED
    BY <1>2, <1>4, <2>1, TaskStepKeepsPermits DEF ClaimProcess, TaskPc, WithPermit
<1>5. CASE AbandonProcess(p, n)
  BY <1>1, <1>2, <1>5, TaskStepKeepsPermits
     DEF AbandonProcess, Exit, TaskPc, WithPermit
<1>6. ASSUME NEW pc \in WithPermit, GoTo(p, n, pc), UNCHANGED permits,
             tasks[p][n].pc \in WithPermit
      PROVE  PermitInv'
  BY <1>1, <1>6, TaskStepKeepsPermits DEF GoTo, WithPermit
<1>7. CASE LookUpDefinitions(p, n)
  BY <1>2, <1>6, <1>7 DEF LookUpDefinitions, TaskPc, WithPermit
<1>8. CASE ResolveHolder(p, n)
  BY <1>2, <1>6, <1>8 DEF ResolveHolder, TaskPc, WithPermit
<1>9. CASE AllocationFails(p, n)
  BY <1>2, <1>6, <1>9 DEF AllocationFails, TaskPc, WithPermit
<1>10. CASE PostCredentials(p, n)
  BY <1>2, <1>6, <1>10 DEF PostCredentials, TaskPc, WithPermit
<1>11. CASE RecordIssued(p, n)
  BY <1>1, <1>2, <1>11, TaskStepKeepsPermits DEF RecordIssued, TaskPc, WithPermit
<1>12. CASE ReleaseIndexes(p, n)
  BY <1>1, <1>2, <1>12, TaskStepKeepsPermits DEF ReleaseIndexes, TaskPc, WithPermit
<1>13. CASE FinishDelivery(p, n)
  <2>1. tasks[p][n].pc \in WithPermit /\ Exit(p, n) /\ permits' = permits + 1
    <3>1. PICK pc \in {"delivered", "errored"} : At(p, n, pc)
      BY <1>13 DEF FinishDelivery
    <3>2. Exit(p, n) /\ permits' = permits + 1
      BY <1>13 DEF FinishDelivery
    <3>3. tasks[p][n].pc = pc
      BY <3>1 DEF At
    <3>4. pc \in WithPermit
      BY <3>1 DEF WithPermit, TaskPc
    <3>. QED
      BY <3>2, <3>3, <3>4
  <2>2. "done" \in TaskPc /\ "done" \notin WithPermit
    BY DEF TaskPc, WithPermit
  <2>. DEFINE t == [NewTask EXCEPT !.pc = "done"]
  <2>3. t \in Task /\ t.pc \notin WithPermit /\ Update(p, n, t)
    BY <1>1, <2>1, <2>2 DEF Exit
  <2>. HIDE DEF t
  <2>. QED
    BY <2>1, <2>3, TaskStepKeepsPermits
<1>14. CASE AllocateIndex(p, n)
  <2>1. PICK d \in tasks[p][n].todo :
          Update(p, n, [tasks[p][n] EXCEPT
                          !.todo = @ \ {d},
                          !.minted = @ \cup
                              {[def |-> d, idx |-> AllocatedIndex(statusList)]}])
    BY <1>14 DEF AllocateIndex
  <2>2. AllocatedIndex(statusList) \in Indexes /\ d \in Definitions
    BY <1>1, <1>14, AllocateType DEF AllocateIndex, TypeOK, Task
  <2>. DEFINE minting == {[def |-> d, idx |-> AllocatedIndex(statusList)]}
              t == [tasks[p][n] EXCEPT !.todo = @ \ {d}, !.minted = @ \cup minting]
  <2>3. t \in Task /\ t.pc = tasks[p][n].pc
    <3>1. minting \subseteq Minted
      BY <2>2 DEF Minted
    <3>. HIDE DEF minting
    <3>. QED
      BY <1>1, <3>1 DEF Task
  <2>4. UNCHANGED permits /\ tasks[p][n].pc = "allocating"
    BY <1>2, <1>14 DEF AllocateIndex
  <2>. HIDE DEF t
  <2>. QED
    BY <2>1, <2>3, <2>4, TaskStepKeepsPermits DEF t, minting, WithPermit, TaskPc
<1>. QED
  BY <1>3, <1>4, <1>5, <1>7, <1>8, <1>9, <1>10, <1>11, <1>12, <1>13, <1>14
     DEF Deliver

\* The caps of the Issuer Service and the count of delivery permits hold in
\* every reachable state, whatever the limits are configured to.
THEOREM LimitsSafe == Spec => []LimitInv
<1>. USE IssuerAssumption
<1>1. Init => LimitInv
  <2>. SUFFICES ASSUME Init PROVE LimitInv
    OBVIOUS
  <2>1. /\ DOMAIN requests = {}
        /\ Pending(requests) = {}
        /\ \A h : PendingOf(requests, h) = {}
        /\ Registered = {}
        /\ catalog = {Seeded}
    BY DEF Init, Pending, PendingOf, Registered
  <2>2. Permitted = {}
    <3>1. \A p \in Pids : DOMAIN tasks[p] = {}
      BY DEF Init
    <3>. QED
      BY <3>1, PermittedAre
  <2>3. /\ IsFiniteSet({}) /\ Cardinality({}) = 0
        /\ IsFiniteSet({Seeded}) /\ Cardinality({Seeded}) = 1
    BY FS_EmptySet, FS_Singleton
  <2>4. ProcessCaps /\ HolderCap /\ CatalogCap
    <3>1. ProcessCaps
      <4>1. /\ Cardinality(DOMAIN requests) = 0
            /\ Cardinality(Pending(requests)) = 0
            /\ \A h : Cardinality(PendingOf(requests, h)) = 0
        BY <2>1, <2>3, Zenon
      <4>. QED
        BY <4>1 DEF ProcessCaps
    <3>2. HolderCap
      BY <2>1, <2>3 DEF HolderCap
    <3>3. CatalogCap
      BY <2>1, <2>3 DEF CatalogCap
    <3>. QED
      BY <3>1, <3>2, <3>3
  <2>5. PermitInv
    <3>1. permits + Cardinality(Permitted) = MaxInFlight
      BY <2>2, <2>3 DEF Init
    <3>. QED
      BY <2>2, <2>3, <3>1 DEF PermitInv, PermitsConserved, Permitted
  <2>. QED
    BY <2>4, <2>5, LimitParts
<1>2. TypeOK /\ LimitInv /\ [Next]_vars => LimitInv'
  <2>. SUFFICES ASSUME TypeOK, LimitInv, [Next]_vars
                PROVE  LimitInv'
    OBVIOUS
  <2>1. ProcessCaps /\ HolderCap /\ CatalogCap /\ PermitInv
    BY LimitParts
  <2>2. /\ UNCHANGED requests => ProcessCaps'
        /\ UNCHANGED holders => HolderCap'
        /\ UNCHANGED catalog => CatalogCap'
        /\ UNCHANGED <<tasks, permits>> => PermitInv'
    <3>1. UNCHANGED requests => ProcessCaps'
      BY <2>1 DEF ProcessCaps
    <3>2. UNCHANGED holders => HolderCap'
      BY <2>1 DEF HolderCap, Registered
    <3>3. UNCHANGED catalog => CatalogCap'
      BY <2>1 DEF CatalogCap
    <3>4. UNCHANGED <<tasks, permits>> => PermitInv'
      BY <2>1 DEF PermitInv, PermitsConserved, Permitted, Spawned
    <3>. QED
      BY <3>1, <3>2, <3>3, <3>4
  <2>3. CASE UNCHANGED vars
    BY <2>2, <2>3, LimitParts DEF vars
  <2>4. CASE ServeStatusList
    BY <2>2, <2>4, LimitParts DEF ServeStatusList
  <2>5. ASSUME NEW d \in Definitions, CreateDefinition(d) \/ DeleteDefinition(d)
        PROVE  LimitInv'
    BY <2>1, <2>2, <2>5, CatalogCapKept, LimitParts
       DEF CreateDefinition, DeleteDefinition
  <2>6. ASSUME NEW h \in Holders, RegisterHolder(h)
        PROVE  LimitInv'
    BY <2>1, <2>2, <2>6, HolderCapKept, LimitParts DEF RegisterHolder
  <2>7. ASSUME NEW h \in Holders, ApproveHolder(h) \/ RejectHolder(h)
        PROVE  LimitInv'
    <3>1. PICK status \in HolderStatus, next \in {"APPROVED", "REJECTED"} :
            DecideHolder(h, status, next)
      BY <2>7 DEF ApproveHolder, RejectHolder, HolderStatus
    <3>2. HolderCap'
      BY <2>1, <3>1, HolderCapKept DEF DecideHolder
    <3>3. /\ DOMAIN requests' = DOMAIN requests
          /\ \A p \in DOMAIN requests :
                /\ requests[p] \in IssuanceProcess
                /\ requests'[p] = IF p \in Moved(h, next)
                                  THEN [requests[p] EXCEPT !.state = next]
                                  ELSE requests[p]
      BY <3>1 DEF DecideHolder, TypeOK
    <3>4. ProcessCaps'
      <4>1. \A p \in DOMAIN requests :
               /\ requests'[p].holder = requests[p].holder
               /\ requests'[p].state = "SUBMITTED" => requests[p].state = "SUBMITTED"
        BY <3>3 DEF IssuanceProcess
      <4>. QED
        BY <2>1, <3>3, <4>1, ShrinkKeepsCaps
    <3>5. PermitInv'
      BY <2>1, <2>2, <2>7, SpawnKeepsPermits DEF ApproveHolder, RejectHolder
    <3>. QED
      BY <2>2, <2>7, <3>2, <3>4, <3>5, LimitParts DEF ApproveHolder, RejectHolder
  <2>8. ASSUME NEW r \in records, RevokeCredential(r)
        PROVE  LimitInv'
    BY <2>2, <2>8, LimitParts DEF RevokeCredential
  <2>9. ASSUME NEW h \in Holders, NEW ds \in SUBSET Definitions,
               CredentialRequestAccepted(h, ds)
        PROVE  LimitInv'
    <3>. DEFINE state == IF StatusOnContact(h) = "pending" THEN "SUBMITTED"
                                                           ELSE "APPROVED"
                process == [state |-> state, holder |-> h, defs |-> ds,
                            started |-> FALSE]
    <3>1. /\ process \in IssuanceProcess
          /\ process.state = "SUBMITTED" => WithinPendingCaps(process.holder)
      BY <2>9 DEF IssuanceProcess, Active, CredentialRequestAccepted, Admissible
    <3>2. /\ requests' = Insert(requests, nextPid, process)
          /\ Spawn(IF state = "APPROVED" THEN {nextPid} ELSE {})
          /\ nextPid <= MaxProcesses
          /\ CanInsert(requests)
          /\ UNCHANGED <<catalog, permits>>
      BY <2>9 DEF CredentialRequestAccepted, Admissible
    <3>3. ProcessCaps'
      <4>. HIDE DEF process
      <4>. QED
        BY <2>1, <3>1, <3>2, InsertKeepsCaps
    <3>4. PermitInv'
      BY <2>1, <3>2, SpawnKeepsPermits
    <3>5. HolderCap'
      BY <2>1, <2>9, HolderCapKept DEF CredentialRequestAccepted, KnownOrRegistrable
    <3>. QED
      BY <2>2, <3>2, <3>3, <3>4, <3>5, LimitParts
  <2>10. ASSUME NEW h \in Holders, NEW ds \in SUBSET Definitions,
                CredentialRequestRefused(h, ds)
         PROVE  LimitInv'
    BY <2>1, <2>2, <2>10, HolderCapKept, LimitParts DEF CredentialRequestRefused
  <2>11. ASSUME NEW p \in Pids, NEW n \in DOMAIN tasks[p],
                AcquirePermit(p, n) \/ Deliver(p, n)
         PROVE  LimitInv'
    <3>1. PermitInv'
      BY <2>1, <2>11, DeliverKeepsPermits
    <3>2. UNCHANGED <<catalog, holders>>
      BY <2>11 DEF AcquirePermit, Deliver, ClaimProcess, AbandonProcess,
           LookUpDefinitions, ResolveHolder, AllocateIndex, AllocationFails,
           PostCredentials, RecordIssued, ReleaseIndexes, FinishDelivery
    <3>3. CASE UNCHANGED requests
      BY <2>2, <3>1, <3>2, <3>3, LimitParts
    <3>4. CASE ClaimProcess(p, n) \/ FinishDelivery(p, n)
      <4>1. /\ DOMAIN requests' = DOMAIN requests
            /\ \A q \in DOMAIN requests :
                  /\ requests'[q].holder = requests[q].holder
                  /\ requests'[q].state = "SUBMITTED" => requests[q].state = "SUBMITTED"
        <5>1. requests \in [DOMAIN requests -> IssuanceProcess]
          BY DEF TypeOK
        <5>2. CASE requests' = [requests EXCEPT ![p].started = TRUE]
          BY <5>1, <5>2 DEF IssuanceProcess
        <5>3. ASSUME NEW outcome \in Terminal,
                     requests' = [requests EXCEPT ![p].state = outcome]
              PROVE  /\ DOMAIN requests' = DOMAIN requests
                     /\ \A q \in DOMAIN requests :
                           /\ requests'[q].holder = requests[q].holder
                           /\ requests'[q].state # "SUBMITTED" \/ q # p
                           /\ q # p => requests'[q] = requests[q]
          BY <5>1, <5>3 DEF IssuanceProcess, Terminal
        <5>. QED
          BY <3>4, <5>2, <5>3 DEF ClaimProcess, FinishDelivery, Outcome, Terminal
      <4>. QED
        BY <2>1, <2>2, <3>1, <3>2, <4>1, ShrinkKeepsCaps, LimitParts
    <3>. QED
      BY <2>11, <3>3, <3>4
         DEF AcquirePermit, Deliver, AbandonProcess, LookUpDefinitions,
             ResolveHolder, AllocateIndex, AllocationFails, PostCredentials,
             RecordIssued, ReleaseIndexes
  <2>12. ASSUME NEW id \in Redemptions, NEW h \in Holders, NEW d \in Definitions,
                RedeemStart(id, h, d)
         PROVE  LimitInv'
    BY <2>2, <2>12, LimitParts DEF RedeemStart
  <2>13. ASSUME NEW r \in redemptions, RedeemHolder(r)
         PROVE  LimitInv'
    <3>1. r.holder \in Holders
      BY DEF TypeOK, Redemption
    <3>2. HolderCap'
      BY <2>1, <2>2, <2>13, <3>1, HolderCapKept DEF RedeemHolder, KnownOrRegistrable
    <3>. QED
      BY <2>2, <2>13, <3>2, LimitParts DEF RedeemHolder
  <2>14. ASSUME NEW r \in redemptions, RedeemInsert(r)
         PROVE  LimitInv'
    <3>. DEFINE process == [state |-> "DELIVERED", holder |-> r.holder,
                            defs |-> {r.def}, started |-> TRUE]
    <3>1. /\ process \in IssuanceProcess
          /\ process.state # "SUBMITTED"
      BY DEF IssuanceProcess, Terminal, TypeOK, Redemption
    <3>2. ProcessCaps'
      <4>1. CASE UNCHANGED requests
        BY <2>2, <4>1
      <4>2. CASE /\ CanInsert(requests)
                 /\ nextPid <= MaxProcesses
                 /\ requests' = Insert(requests, nextPid, process)
        <5>. HIDE DEF process
        <5>. QED
          BY <2>1, <3>1, <4>2, InsertKeepsCaps
      <4>. QED
        BY <2>14, <4>1, <4>2 DEF RedeemInsert
    <3>. QED
      BY <2>2, <2>14, <3>2, LimitParts DEF RedeemInsert
  <2>15. ASSUME NEW r \in redemptions,
                RedeemAllocate(r) \/ RedeemRelease(r) \/ RedeemRecord(r)
         PROVE  LimitInv'
    BY <2>2, <2>15, LimitParts DEF RedeemAllocate, RedeemRelease, RedeemRecord
  <2>. QED
    BY <2>3, <2>4, <2>5, <2>6, <2>7, <2>8, <2>9, <2>10, <2>11, <2>12, <2>13,
       <2>14, <2>15
       DEF Next, Admin, Request, Delivery, Redeem
<1>. QED
  BY <1>1, <1>2, TypeCorrect, PTL DEF Spec

\* MAX_TRACKED_REQUESTS, MAX_PENDING_PROCESSES, its per-holder cap,
\* MAX_HOLDERS and MAX_CREDENTIAL_DEFINITIONS are never exceeded, and no exit
\* of a delivery task loses or gains a permit of the delivery semaphore.
COROLLARY LimitsAlwaysHold == Spec => []LimitsHold
<1>1. LimitInv => LimitsHold
  BY DEF LimitInv
<1>. QED
  BY <1>1, LimitsSafe, PTL
=============================================================================
