------------------------- MODULE IssuerHolderProofs -------------------------
(***************************************************************************)
(* The Issuer Service with the holders it delivers to, over a network that *)
(* loses and delays messages and answers: what the issuer has on record    *)
(* and what the holders have stored agree, for any number of processes,    *)
(* holders and definitions. Everything IssuerProofs proves holds here too, *)
(* since the composition is an Issuer Service whose deliveries succeed     *)
(* less often.                                                             *)
(***************************************************************************)
EXTENDS IssuerHolder, IssuerProofs

\* The issuer's side of the composition takes only steps of module Issuer.
LEMMA HolderIsIssuer == HolderSpec => Spec
<1>1. HolderInit => Init
  BY DEF HolderInit
<1>2. [HolderNext]_allVars => [Next]_vars
  BY DEF HolderNext, IssuerStep, Transmit, HolderStores, HolderRefuses, allVars
<1>. QED
  BY <1>1, <1>2, PTL DEF HolderSpec, Spec

-----------------------------------------------------------------------------
(* Mail, tasks and records *)

\* A record as its holder sees it, and a credential that is on record in R.
CopyOf(r)    == [pid |-> r.pid, def |-> r.def, idx |-> r.idx]
OnFile(R, c) == \E r \in R : CopyOf(r) = c

\* What the message of a task t of process p carries.
Copies(p, t) == {[pid |-> p, def |-> m.def, idx |-> m.idx] : m \in t.minted}

\* Where a task can be once its message has left.
Posted == {"allocating", "recording", "releasing", "delivered", "errored", "done"}

\* A message that left: it carries what its task signed, which stays as it is;
\* the process cannot be rejected any more, and what reads DELIVERED is on
\* record, credential by credential.
SentFits(p) ==
    /\ 1 \in DOMAIN tasks[p]
    /\ tasks[p][1].pc \in Posted
    /\ tasks[p][1].pc = "allocating" => tasks[p][1].todo = {}
    /\ tasks[p][1].pc \in {"allocating", "recording", "releasing"} =>
          mail[p].credentials = Copies(p, tasks[p][1])
    /\ tasks[p][1].pc = "delivered" =>
          \A c \in mail[p].credentials : OnFile(records, c)
    /\ p \in DOMAIN requests =>
          /\ \/ requests[p].state \in {"DELIVERED", "ERRORED"}
             \/ requests[p].state = "APPROVED" /\ requests[p].started
          /\ requests[p].state = "DELIVERED" =>
                \A c \in mail[p].credentials : OnFile(records, c)

MailFits(p) ==
    /\ mail[p].fate # "unsent" => SentFits(p)
    /\ \A c \in mail[p].credentials : c.pid = p
    /\ \A n \in DOMAIN tasks[p] :
          tasks[p][n].pc = "recording" => mail[p].fate = "stored"
    /\ mail[p].fate = "stored" => mail[p].credentials \subseteq held

MailInv ==
    /\ HolderTypeOK
    /\ \A p \in Pids : MailFits(p)
    /\ \A c \in held : mail[c.pid].fate = "stored" /\ c \in mail[c.pid].credentials
    /\ RecordedIsHeld

\* A process has one task at most, so it is the first.
LEMMA FirstTask ==
    ASSUME TypeOK, ProcessInv, NEW p \in Pids, NEW n \in DOMAIN tasks[p]
    PROVE  n = 1
  BY Shapes DEF ProcessInv, OneDeliveryTask

\* A step of the issuer that keeps each message in order, or does not touch
\* the process and task of a message that left.
LEMMA IssuerKeepsMail ==
    ASSUME TypeOK, TypeOK', MailInv, UNCHANGED holderVars,
           \A c : OnFile(records, c) => OnFile(records', c),
           \A r \in records' : Len(tasks'[r.pid]) > 0 => CopyOf(r) \in held,
           \A p \in Pids :
              \/ MailFits(p)'
              \/ /\ \/ tasks'[p] = tasks[p]
                    \/ /\ mail[p].fate = "unsent"
                       /\ \A n \in DOMAIN tasks'[p] : tasks'[p][n].pc # "recording"
                 /\ \/ mail[p].fate = "unsent"
                    \/ p \notin DOMAIN requests'
                    \/ p \in DOMAIN requests /\ requests'[p] = requests[p]
    PROVE  MailInv'
<1>1. UNCHANGED <<mail, held>>
  BY DEF holderVars
<1>2. RecordedIsHeld'
  BY <1>1 DEF RecordedIsHeld, CopyOf
<1>3. ASSUME NEW p \in Pids
      PROVE  MailFits(p)'
  <2>1. CASE mail[p].fate = "unsent"
    BY <1>1, <2>1 DEF MailFits, MailInv
  <2>2. CASE mail[p].fate # "unsent" /\ ~ MailFits(p)'
    <3>1. /\ tasks'[p] = tasks[p]
          /\ p \in DOMAIN requests' => p \in DOMAIN requests /\ requests'[p] = requests[p]
      BY <2>2
    <3>2. SentFits(p) /\ MailFits(p)
      BY <2>2 DEF MailFits, MailInv
    <3>3. SentFits(p)'
      BY <1>1, <3>1, <3>2 DEF SentFits
    <3>. QED
      BY <1>1, <3>1, <3>2, <3>3 DEF MailFits
  <2>. QED
    BY <2>1, <2>2
<1>. QED
  BY <1>1, <1>2, <1>3 DEF MailInv, HolderTypeOK

\* The same for a step that changes no record.
LEMMA SameRecords ==
    ASSUME TypeOK, TypeOK', MailInv, UNCHANGED holderVars, UNCHANGED records,
           \A p \in Pids : Len(tasks'[p]) > 0 =>
              Len(tasks[p]) > 0 \/ \A r \in records : r.pid # p,
           \A p \in Pids :
              \/ MailFits(p)'
              \/ /\ \/ tasks'[p] = tasks[p]
                    \/ /\ mail[p].fate = "unsent"
                       /\ \A n \in DOMAIN tasks'[p] : tasks'[p][n].pc # "recording"
                 /\ \/ mail[p].fate = "unsent"
                    \/ p \notin DOMAIN requests'
                    \/ p \in DOMAIN requests /\ requests'[p] = requests[p]
    PROVE  MailInv'
<1>1. \A r \in records : r.pid \in Pids
  BY DEF TypeOK, IssuedCredential
<1>2. \A r \in records' : Len(tasks'[r.pid]) > 0 => CopyOf(r) \in held
  BY <1>1 DEF MailInv, RecordedIsHeld, CopyOf
<1>. QED
  BY <1>2, IssuerKeepsMail

\* A message leaves; the holder stores it or refuses it.
LEMMA MailMovesOn ==
    ASSUME TypeOK, ProcessInv, MailInv, NEW p \in Pids,
           \/ \E n \in DOMAIN tasks[p] : Transmit(p, n)
           \/ HolderStores(p)
           \/ HolderRefuses(p)
    PROVE  MailInv'
<1>1. /\ mail \in [Pids -> CredentialMessage]
      /\ held \in SUBSET HeldCredential
      /\ \A q \in Pids : MailFits(q)
      /\ \A c \in held : mail[c.pid].fate = "stored" /\ c \in mail[c.pid].credentials
      /\ \A c \in held : c.pid \in Pids
  BY DEF MailInv, HolderTypeOK, HeldCredential
<1>2. UNCHANGED <<tasks, requests, records>>
  BY DEF Transmit, HolderStores, HolderRefuses, vars
<1>3. ASSUME NEW message \in CredentialMessage,
             mail' = [mail EXCEPT ![p] = message],
             \A c \in message.credentials : c.pid = p,
             message.fate # "unsent",
             held \subseteq held',
             held' \subseteq held \cup message.credentials,
             message.fate = "stored" => message.credentials \subseteq held',
             held' # held => message.fate = "stored",
             \A c \in held : c.pid = p => message.fate = "stored" /\ c \in message.credentials,
             \A n \in DOMAIN tasks[p] : tasks[p][n].pc = "recording" => message.fate = "stored",
             SentFits(p)'
      PROVE  MailInv'
  <2>1. /\ mail'[p] = message
        /\ \A q \in Pids : q # p => mail'[q] = mail[q]
        /\ mail' \in [Pids -> CredentialMessage]
    BY <1>1, <1>3
  <2>2. held' \in SUBSET HeldCredential
    BY <1>1, <1>3 DEF CredentialMessage
  <2>3. \A q \in Pids : MailFits(q)'
    <3>1. MailFits(p)'
      BY <1>2, <1>3, <2>1 DEF MailFits
    <3>2. ASSUME NEW q \in Pids, q # p PROVE MailFits(q)'
      <4>1. MailFits(q) /\ mail'[q] = mail[q]
        BY <1>1, <2>1, <3>2
      <4>. QED
        BY <1>2, <1>3, <4>1 DEF MailFits, SentFits
    <3>. QED
      BY <3>1, <3>2
  <2>4. \A c \in held' : mail'[c.pid].fate = "stored" /\ c \in mail'[c.pid].credentials
    <3>. SUFFICES ASSUME NEW c \in held'
                  PROVE  mail'[c.pid].fate = "stored" /\ c \in mail'[c.pid].credentials
      OBVIOUS
    <3>1. CASE c \in held
      BY <1>1, <1>3, <2>1, <3>1
    <3>2. CASE c \notin held
      BY <1>3, <2>1, <3>2
    <3>. QED
      BY <3>1, <3>2
  <2>5. RecordedIsHeld'
    BY <1>2, <1>3 DEF MailInv, RecordedIsHeld
  <2>. QED
    BY <2>1, <2>2, <2>3, <2>4, <2>5 DEF MailInv, HolderTypeOK
<1>4. ASSUME NEW n \in DOMAIN tasks[p], Transmit(p, n)
      PROVE  MailInv'
  <2>. DEFINE message == [fate |-> "sent", credentials |-> Copies(p, tasks[p][1])]
  <2>1. /\ n = 1
        /\ tasks[p][1].pc = "allocating"
        /\ tasks[p][1].todo = {}
        /\ tasks[p][1] \in Task
        /\ mail[p].fate = "unsent"
        /\ mail' = [mail EXCEPT ![p] = message]
        /\ UNCHANGED held
    BY <1>4, FirstTask, Shapes DEF Transmit, At, Copies
  <2>2. message \in CredentialMessage
    BY <2>1 DEF CredentialMessage, Copies, HeldCredential, Task, Minted
  <2>3. \A c \in message.credentials : c.pid = p
    BY DEF Copies
  <2>4. SentFits(p)'
    <3>1. p \in DOMAIN requests /\ requests[p].state = "APPROVED" /\ requests[p].started
      BY <1>4, <2>1 DEF ProcessInv, ClaimedProcessStays, Claimed, WithPermit, TaskPc
    <3>2. mail'[p].credentials = Copies(p, tasks[p][1])
      BY <1>1, <2>1
    <3>. QED
      BY <1>2, <1>4, <2>1, <3>1, <3>2 DEF SentFits, Posted
  <2>5. /\ message.fate = "sent"
        /\ \A c \in held : c.pid # p
        /\ \A k \in DOMAIN tasks[p] : tasks[p][k].pc # "recording"
    BY <1>1, <2>1, FirstTask
  <2>. HIDE DEF message
  <2>. QED
    BY <1>3, <2>1, <2>2, <2>3, <2>4, <2>5
<1>5. ASSUME HolderStores(p) \/ HolderRefuses(p)
      PROVE  MailInv'
  <2>. DEFINE fate == IF HolderStores(p) THEN "stored" ELSE "refused"
              message == [mail[p] EXCEPT !.fate = fate]
  <2>1. /\ mail[p].fate = "sent"
        /\ mail[p] \in CredentialMessage
        /\ SentFits(p) /\ MailFits(p)
    BY <1>1, <1>5 DEF HolderStores, HolderRefuses, MailFits
  <2>2. /\ message \in CredentialMessage
        /\ message.fate = fate
        /\ message.credentials = mail[p].credentials
        /\ fate # "unsent"
    BY <2>1 DEF CredentialMessage
  <2>3. /\ mail' = [mail EXCEPT ![p] = message]
        /\ held' = IF HolderStores(p) THEN held \cup message.credentials ELSE held
    BY <1>5, <2>2 DEF HolderStores, HolderRefuses
  <2>4. \A k \in DOMAIN tasks[p] : tasks[p][k].pc # "recording"
    BY <2>1 DEF MailFits
  <2>5. \A c \in held : c.pid # p
    BY <1>1, <2>1
  <2>6. SentFits(p)'
    <3>1. mail'[p].credentials = mail[p].credentials
      BY <1>1, <2>2, <2>3
    <3>. QED
      BY <1>2, <2>1, <3>1 DEF SentFits
  <2>7. \A c \in message.credentials : c.pid = p
    BY <2>1, <2>2 DEF MailFits
  <2>8. HolderStores(p) <=> fate = "stored"
    OBVIOUS
  <2>. HIDE DEF message, fate
  <2>. QED
    BY <1>3, <2>2, <2>3, <2>4, <2>5, <2>6, <2>7, <2>8
<1>. QED
  BY <1>4, <1>5

\* The steps of a delivery task. Before its message leaves, whatever it does
\* is nothing to the holder; after that it records what the message carries,
\* if the holder answered for it, or hands the indexes back.
LEMMA DeliverKeepsMail ==
    ASSUME TypeOK, TypeOK', ProcessInv, MailInv, UNCHANGED holderVars,
           NEW p \in Pids, NEW n \in DOMAIN tasks[p],
           AcquirePermit(p, n) \/ Deliver(p, n),
           At(p, n, "allocating") /\ tasks'[p][n].pc = "recording" => Acknowledged(p)
    PROVE  MailInv'
<1>1. /\ n = 1 /\ 1 \in DOMAIN tasks[p]
      /\ tasks[p][1] \in Task
      /\ \A k \in DOMAIN tasks[p] : k = 1
      /\ Len(tasks[p]) > 0
      /\ UNCHANGED <<mail, held>>
  BY FirstTask, Shapes DEF holderVars
<1>2. ASSUME NEW t \in Task, Update(p, 1, t)
      PROVE  /\ tasks'[p][1] = t
             /\ DOMAIN tasks'[p] = DOMAIN tasks[p]
             /\ \A q \in Pids : Len(tasks'[q]) = Len(tasks[q])
             /\ \A q \in Pids : q # p => tasks'[q] = tasks[q]
  <2>1. /\ tasks'[p][1] = t
        /\ \A q \in Pids : Len(tasks'[q]) = Len(tasks[q])
        /\ tasks' \in [Pids -> Seq(Task)]
    BY <1>1, <1>2, UpdateEffect DEF TypeOK
  <2>2. DOMAIN tasks'[p] = DOMAIN tasks[p]
    BY <2>1, LenProperties DEF TypeOK
  <2>3. \A q \in Pids : q # p => tasks'[q] = tasks[q]
    BY <1>2 DEF Update, TypeOK
  <2>. QED
    BY <2>1, <2>2, <2>3
<1>3. MailFits(p) /\ (mail[p].fate # "unsent" => SentFits(p))
  BY DEF MailInv, MailFits
\* Before the message leaves.
<1>4. ASSUME NEW t \in Task, Update(p, 1, t), UNCHANGED records,
             mail[p].fate = "unsent", t.pc # "recording",
             \A q \in DOMAIN requests' :
                 q # p => q \in DOMAIN requests /\ requests'[q] = requests[q]
      PROVE  MailInv'
  <2>1. \A k \in DOMAIN tasks'[p] : tasks'[p][k].pc # "recording"
    BY <1>1, <1>2, <1>4
  <2>. QED
    BY <1>2, <1>4, <2>1, SameRecords
<1>5. tasks[p][1].pc \notin Posted => mail[p].fate = "unsent"
  BY <1>3 DEF SentFits
<1>6. /\ \A pc : At(p, n, pc) => tasks[p][1].pc = pc
      /\ \A pc \in TaskPc : /\ [NewTask EXCEPT !.pc = pc] \in Task
                            /\ [NewTask EXCEPT !.pc = pc].pc = pc
                            /\ [tasks[p][1] EXCEPT !.pc = pc] \in Task
                            /\ [tasks[p][1] EXCEPT !.pc = pc].pc = pc
                            /\ [tasks[p][1] EXCEPT !.pc = pc].minted = tasks[p][1].minted
                            /\ [tasks[p][1] EXCEPT !.pc = pc].todo = tasks[p][1].todo
  BY <1>1, TaskTypes DEF At, NewTask, Task
<1>7. ASSUME NEW pc \in TaskPc, GoTo(p, 1, pc), UNCHANGED <<records, requests>>,
             mail[p].fate = "unsent", pc # "recording"
      PROVE  MailInv'
  BY <1>4, <1>6, <1>7 DEF GoTo
<1>8. CASE AcquirePermit(p, n)
  BY <1>1, <1>5, <1>6, <1>7, <1>8 DEF AcquirePermit, TaskPc, Posted
<1>9. CASE ClaimProcess(p, n)
  <2>1. [pc |-> "claimed", todo |-> requests[p].defs, minted |-> {}] \in Task
    BY <1>9 DEF ClaimProcess, Claimable, TypeOK, IssuanceProcess, Task, TaskPc
  <2>2. \A q \in DOMAIN requests' :
           q # p => q \in DOMAIN requests /\ requests'[q] = requests[q]
    BY <1>9 DEF ClaimProcess, TypeOK
  <2>. QED
    BY <1>1, <1>4, <1>5, <1>6, <1>9, <2>1, <2>2 DEF ClaimProcess, Posted
<1>10. CASE AbandonProcess(p, n)
  BY <1>1, <1>4, <1>5, <1>6, <1>10 DEF AbandonProcess, Exit, TaskPc, Posted
<1>11. CASE LookUpDefinitions(p, n)
  BY <1>1, <1>5, <1>6, <1>7, <1>11 DEF LookUpDefinitions, TaskPc, Posted
<1>12. CASE ResolveHolder(p, n)
  BY <1>1, <1>5, <1>6, <1>7, <1>12 DEF ResolveHolder, TaskPc, Posted
<1>13. CASE AllocationFails(p, n)
  <2>1. mail[p].fate = "unsent"
    BY <1>1, <1>3, <1>6, <1>13 DEF AllocationFails, SentFits
  <2>. QED
    BY <1>1, <1>7, <1>13, <2>1 DEF AllocationFails, TaskPc
<1>14. CASE AllocateIndex(p, n)
  <2>1. PICK d \in tasks[p][1].todo :
          Update(p, 1, [tasks[p][1] EXCEPT
                          !.todo = @ \ {d},
                          !.minted = @ \cup
                              {[def |-> d, idx |-> AllocatedIndex(statusList)]}])
    BY <1>1, <1>14 DEF AllocateIndex
  <2>2. mail[p].fate = "unsent" /\ tasks[p][1].pc = "allocating"
    BY <1>3, <1>6, <1>14, <2>1 DEF AllocateIndex, SentFits
  <2>. DEFINE minting == {[def |-> d, idx |-> AllocatedIndex(statusList)]}
              t == [tasks[p][1] EXCEPT !.todo = @ \ {d}, !.minted = @ \cup minting]
  <2>3. t \in Task /\ t.pc = tasks[p][1].pc
    <3>1. minting \subseteq Minted
      BY <1>1, <1>14, AllocateType DEF Minted, AllocateIndex, TypeOK, Task
    <3>. HIDE DEF minting
    <3>. QED
      BY <1>1, <3>1 DEF Task
  <2>4. UNCHANGED <<records, requests>> /\ Update(p, 1, t)
    BY <1>14, <2>1 DEF AllocateIndex
  <2>. HIDE DEF t
  <2>. QED
    BY <1>4, <2>2, <2>3, <2>4
\* After it has left.
<1>15. CASE PostCredentials(p, n)
  <2>1. PICK pc \in {"recording", "releasing"} :
          Update(p, 1, [tasks[p][1] EXCEPT !.pc = pc])
    BY <1>1, <1>15 DEF PostCredentials, GoTo
  <2>. DEFINE t == [tasks[p][1] EXCEPT !.pc = pc]
  <2>2. /\ t \in Task /\ t.pc = pc /\ t.minted = tasks[p][1].minted
        /\ tasks[p][1].pc = "allocating"
        /\ UNCHANGED <<records, requests>>
        /\ Update(p, 1, t)
    BY <1>6, <1>15, <2>1 DEF PostCredentials, TaskPc
  <2>. HIDE DEF t
  <2>3. Copies(p, t) = Copies(p, tasks[p][1])
    BY <2>2 DEF Copies
  <2>4. t.pc = "recording" => mail[p].fate = "stored"
    BY <1>1, <1>2, <2>2 DEF At, Acknowledged
  <2>5. mail[p].fate # "unsent" => SentFits(p)'
    BY <1>1, <1>2, <1>3, <2>2, <2>3 DEF SentFits, Posted
  <2>6. MailFits(p)'
    BY <1>1, <1>2, <1>3, <2>2, <2>4, <2>5 DEF MailFits
  <2>. QED
    BY <1>2, <2>2, <2>6, SameRecords
<1>16. CASE ReleaseIndexes(p, n)
  <2>. DEFINE t == [NewTask EXCEPT !.pc = "errored"]
  <2>1. /\ t \in Task /\ t.pc = "errored"
        /\ tasks[p][1].pc = "releasing"
        /\ UNCHANGED <<records, requests>>
        /\ Update(p, 1, t)
    BY <1>1, <1>6, <1>16 DEF ReleaseIndexes, TaskPc
  <2>. HIDE DEF t
  <2>2. mail[p].fate # "unsent" => SentFits(p)'
    BY <1>1, <1>2, <1>3, <2>1 DEF SentFits, Posted
  <2>3. MailFits(p)'
    BY <1>1, <1>2, <1>3, <2>1, <2>2 DEF MailFits
  <2>. QED
    BY <1>2, <2>1, <2>3, SameRecords
<1>17. CASE RecordIssued(p, n)
  <2>. DEFINE t == [NewTask EXCEPT !.pc = "delivered"]
  <2>1. /\ t \in Task /\ t.pc = "delivered"
        /\ tasks[p][1].pc = "recording"
        /\ UNCHANGED requests
        /\ records' = records \cup RecordsOf(p, 1)
        /\ Update(p, 1, t)
    BY <1>1, <1>6, <1>17 DEF RecordIssued, TaskPc
  <2>. HIDE DEF t
  <2>2. /\ mail[p].fate = "stored"
        /\ SentFits(p)
        /\ mail[p].credentials = Copies(p, tasks[p][1])
        /\ mail[p].credentials \subseteq held
    BY <1>1, <1>3, <2>1 DEF MailFits, SentFits
  <2>3. \A c : OnFile(records, c) => OnFile(records', c)
    BY <2>1 DEF OnFile
  <2>4. \A c \in Copies(p, tasks[p][1]) : OnFile(records', c)
    <3>1. ASSUME NEW m \in tasks[p][1].minted
          PROVE  OnFile(records', [pid |-> p, def |-> m.def, idx |-> m.idx])
      <4>. DEFINE r == [pid |-> p, def |-> m.def, idx |-> m.idx, status |-> "active"]
      <4>1. r \in records' /\ CopyOf(r) = [pid |-> p, def |-> m.def, idx |-> m.idx]
        BY <2>1 DEF RecordsOf, CopyOf
      <4>. QED
        BY <4>1 DEF OnFile
    <3>. QED
      BY <3>1 DEF Copies
  <2>5. ASSUME NEW r \in records', Len(tasks'[r.pid]) > 0
        PROVE  CopyOf(r) \in held
    <3>1. CASE r \in records
      <4>1. r.pid \in Pids
        BY <3>1 DEF TypeOK, IssuedCredential
      <4>2. Len(tasks[r.pid]) > 0
        BY <1>2, <2>1, <2>5, <4>1
      <4>. QED
        BY <3>1, <4>2 DEF MailInv, RecordedIsHeld, CopyOf
    <3>2. CASE r \in RecordsOf(p, 1)
      <4>1. CopyOf(r) \in Copies(p, tasks[p][1])
        BY <3>2 DEF RecordsOf, CopyOf, Copies
      <4>. QED
        BY <2>2, <4>1
    <3>. QED
      BY <2>1, <3>1, <3>2
  <2>6. MailFits(p)'
    <3>1. SentFits(p)'
      BY <1>1, <1>2, <2>1, <2>2, <2>3, <2>4 DEF SentFits, Posted
    <3>. QED
      BY <1>1, <1>2, <1>3, <2>1, <3>1 DEF MailFits
  <2>. QED
    BY <1>2, <2>1, <2>3, <2>5, <2>6, IssuerKeepsMail
<1>18. CASE FinishDelivery(p, n)
  <2>. DEFINE t == [NewTask EXCEPT !.pc = "done"]
  <2>1. PICK pc \in {"delivered", "errored"} :
          /\ tasks[p][1].pc = pc
          /\ requests' = IF p \in DOMAIN requests
                         THEN [requests EXCEPT ![p].state = Outcome(pc)]
                         ELSE requests
    BY <1>6, <1>18 DEF FinishDelivery
  <2>2. /\ t \in Task /\ t.pc = "done"
        /\ UNCHANGED records
        /\ Update(p, 1, t)
    BY <1>1, <1>6, <1>18 DEF FinishDelivery, Exit, TaskPc
  <2>. HIDE DEF t
  <2>3. /\ \A q \in DOMAIN requests' :
              q # p => q \in DOMAIN requests /\ requests'[q] = requests[q]
        /\ p \in DOMAIN requests' => requests'[p].state = Outcome(pc)
    BY <2>1 DEF TypeOK, IssuanceProcess
  <2>4. mail[p].fate # "unsent" => SentFits(p)'
    BY <1>1, <1>2, <1>3, <2>1, <2>2, <2>3 DEF SentFits, Posted, Outcome
  <2>5. MailFits(p)'
    BY <1>1, <1>2, <1>3, <2>2, <2>4 DEF MailFits
  <2>. QED
    BY <1>2, <2>2, <2>3, <2>5, SameRecords
<1>. QED
  BY <1>8, <1>9, <1>10, <1>11, <1>12, <1>13, <1>14, <1>15, <1>16, <1>17, <1>18
     DEF Deliver

\* New tasks are spawned for processes that had none, and so no mail.
LEMMA SpawnKeepsMail ==
    ASSUME TypeOK, TypeOK', MailInv, UNCHANGED holderVars, UNCHANGED records,
           NEW P, Spawn(P),
           \A p \in Pids : p \in P =>
              Len(tasks[p]) = 0 /\ \A r \in records : r.pid # p,
           \A p \in Pids :
              \/ mail[p].fate = "unsent"
              \/ p \notin DOMAIN requests'
              \/ p \in DOMAIN requests /\ requests'[p] = requests[p]
    PROVE  MailInv'
<1>1. /\ tasks' \in [Pids -> Seq(Task)]
      /\ \A q \in Pids : q \notin P => tasks'[q] = tasks[q]
      /\ \A q \in Pids : q \in P => /\ Len(tasks'[q]) = Len(tasks[q]) + 1
                                    /\ tasks'[q][Len(tasks[q]) + 1] = NewTask
  BY SpawnEffect DEF TypeOK
<1>2. ASSUME NEW p \in Pids, p \in P
      PROVE  /\ mail[p].fate = "unsent"
             /\ \A n \in DOMAIN tasks'[p] : tasks'[p][n].pc # "recording"
  <2>1. 1 \notin DOMAIN tasks[p]
    BY <1>2, Shapes
  <2>2. mail[p].fate = "unsent"
    BY <2>1 DEF MailInv, MailFits, SentFits
  <2>3. Len(tasks'[p]) = 1 /\ tasks'[p][1] = NewTask
    <3>1. Len(tasks[p]) + 1 = 1
      BY <1>2
    <3>. QED
      BY <1>1, <1>2, <3>1
  <2>4. DOMAIN tasks'[p] = {1}
    BY <1>1, <2>3, LenProperties
  <2>. QED
    BY <2>2, <2>3, <2>4 DEF NewTask
<1>3. \A p \in Pids : Len(tasks'[p]) > 0 =>
         Len(tasks[p]) > 0 \/ \A r \in records : r.pid # p
  BY <1>1
<1>. QED
  BY <1>1, <1>2, <1>3, SameRecords

\* A process that waits for its holder's decision has neither mail nor records.
LEMMA WaitingHasNothing ==
    ASSUME TypeOK, ProcessInv, RecordInv, MailInv, NEW p \in DOMAIN requests,
           \/ requests[p].state = "SUBMITTED"
           \/ requests[p].state = "APPROVED" /\ ~ requests[p].started
    PROVE  /\ mail[p].fate = "unsent"
           /\ \A r \in records : r.pid # p
           /\ requests[p].state = "SUBMITTED" => Len(tasks[p]) = 0
<1>1. p \in Pids
  BY Shapes
<1>2. mail[p].fate = "unsent"
  BY <1>1 DEF MailInv, MailFits, SentFits
<1>3. RecordedIn(records, p) = {}
  BY DEF RecordInv, ProcessFits
<1>4. ASSUME NEW r \in records, r.pid = p PROVE FALSE
  <2>1. r.def \in RecordedIn(records, p)
    BY <1>4 DEF RecordedIn
  <2>. QED
    BY <1>3, <2>1
<1>5. requests[p].state = "SUBMITTED" => Len(tasks[p]) = 0
  BY DEF ProcessInv, NotSpawnedYet
<1>. QED
  BY <1>2, <1>4, <1>5

\* A process that is inserted has neither.
LEMMA InsertKeepsMail ==
    ASSUME TypeOK, TypeOK', ProcessInv, RecordInv, MailInv, UNCHANGED holderVars,
           UNCHANGED records, nextPid <= MaxProcesses, CanInsert(requests),
           NEW process \in IssuanceProcess,
           requests' = Insert(requests, nextPid, process),
           UNCHANGED tasks \/ Spawn({nextPid}) \/ Spawn({})
    PROVE  MailInv'
<1>. USE IssuerAssumption
<1>1. /\ DOMAIN requests \in SUBSET Nat
      /\ nextPid \in Nat
      /\ nextPid \in Pids
  BY SMTT(30) DEF TypeOK, Pids
<1>2. \A q \in DOMAIN requests' :
         q # nextPid => q \in DOMAIN requests /\ requests'[q] = requests[q]
  <2>1. requests \in [DOMAIN requests -> IssuanceProcess]
    BY DEF TypeOK
  <2>. QED
    BY <1>1, <2>1, InsertEffect
<1>3. /\ Len(tasks[nextPid]) = 0
      /\ \A r \in records : r.pid # nextPid
  <2>1. Len(tasks[nextPid]) = 0
    BY <1>1 DEF ProcessInv, NotSpawnedYet
  <2>2. \A r \in records : r.pid < nextPid /\ r.pid \in Nat
    BY SMTT(30) DEF RecordInv, TypeOK, IssuedCredential, Pids
  <2>. QED
    BY <1>1, <2>1, <2>2
<1>4. mail[nextPid].fate = "unsent"
  <2>1. 1 \notin DOMAIN tasks[nextPid]
    BY <1>1, <1>3, Shapes
  <2>. QED
    BY <1>1, <2>1 DEF MailInv, MailFits, SentFits
<1>5. \A p \in Pids :
         \/ mail[p].fate = "unsent"
         \/ p \notin DOMAIN requests'
         \/ p \in DOMAIN requests /\ requests'[p] = requests[p]
  BY <1>2, <1>4
<1>6. CASE UNCHANGED tasks
  BY <1>5, <1>6, SameRecords
<1>7. CASE Spawn({nextPid})
  BY <1>3, <1>5, <1>7, SpawnKeepsMail
<1>8. CASE Spawn({})
  BY <1>5, <1>8, SpawnKeepsMail
<1>. QED
  BY <1>6, <1>7, <1>8

\* A decision takes only processes that have neither.
LEMMA DecideKeepsMail ==
    ASSUME TypeOK, TypeOK', ProcessInv, RecordInv, MailInv, UNCHANGED holderVars,
           NEW h \in Holders, ApproveHolder(h) \/ RejectHolder(h)
    PROVE  MailInv'
<1>1. PICK next \in {"APPROVED", "REJECTED"} :
        /\ requests' = [p \in DOMAIN requests |->
                          IF p \in Moved(h, next)
                          THEN [requests[p] EXCEPT !.state = next]
                          ELSE requests[p]]
        /\ \/ UNCHANGED tasks
           \/ next = "APPROVED" /\ Spawn(Moved(h, next))
        /\ UNCHANGED records
  BY DEF ApproveHolder, RejectHolder, DecideHolder
<1>2. \A p \in Moved(h, next) :
         /\ mail[p].fate = "unsent"
         /\ \A r \in records : r.pid # p
         /\ next = "APPROVED" => Len(tasks[p]) = 0
  BY WaitingHasNothing DEF Moved
<1>3. \A p \in Pids :
         \/ mail[p].fate = "unsent"
         \/ p \notin DOMAIN requests'
         \/ p \in DOMAIN requests /\ requests'[p] = requests[p]
  BY <1>1, <1>2
<1>4. CASE UNCHANGED tasks
  BY <1>1, <1>3, <1>4, SameRecords
<1>5. CASE next = "APPROVED" /\ Spawn(Moved(h, next))
  BY <1>1, <1>2, <1>3, <1>5, SpawnKeepsMail
<1>. QED
  BY <1>1, <1>4, <1>5

\* Revocations and redemptions change no record of a delivery.
LEMMA RecordStepsKeepMail ==
    ASSUME TypeOK, TypeOK', ProcessInv, RecordInv, MailInv, UNCHANGED holderVars,
           \/ \E r \in records : RevokeCredential(r)
           \/ \E r \in redemptions : RedeemRecord(r)
    PROVE  MailInv'
<1>1. UNCHANGED <<tasks, requests>>
  BY DEF RevokeCredential, RedeemRecord
<1>2. ASSUME NEW r \in records, RevokeCredential(r)
      PROVE  MailInv'
  <2>. DEFINE s == [r EXCEPT !.status = "revoked"]
  <2>1. CopyOf(s) = CopyOf(r) /\ s.pid = r.pid
    BY DEF TypeOK, IssuedCredential, CopyOf
  <2>2. records' = (records \ {r}) \cup {s}
    BY <1>2 DEF RevokeCredential
  <2>. HIDE DEF s
  <2>3. \A c : OnFile(records, c) => OnFile(records', c)
    BY <2>1, <2>2 DEF OnFile
  <2>4. \A u \in records' : Len(tasks'[u.pid]) > 0 => CopyOf(u) \in held
    BY <1>1, <2>1, <2>2 DEF MailInv, RecordedIsHeld, CopyOf
  <2>. QED
    BY <1>1, <2>3, <2>4, IssuerKeepsMail
<1>3. ASSUME NEW r \in redemptions, RedeemRecord(r)
      PROVE  MailInv'
  <2>. DEFINE rec == [pid |-> r.pid, def |-> r.def, idx |-> r.idx, status |-> "active"]
  <2>1. records' = records \cup {rec} /\ rec.pid = r.pid
    BY <1>3 DEF RedeemRecord
  <2>2. Len(tasks[r.pid]) = 0
    BY <1>3 DEF RedeemRecord, RecordInv, RedemptionsFit
  <2>. HIDE DEF rec
  <2>3. \A c : OnFile(records, c) => OnFile(records', c)
    BY <2>1 DEF OnFile
  <2>4. \A u \in records' : Len(tasks'[u.pid]) > 0 => CopyOf(u) \in held
    BY <1>1, <2>1, <2>2 DEF MailInv, RecordedIsHeld, CopyOf
  <2>. QED
    BY <1>1, <2>3, <2>4, IssuerKeepsMail
<1>. QED
  BY <1>2, <1>3

\* Mail, tasks, records and what the holders have stored stay in step however
\* the network and the timeouts order what happens.
THEOREM MailSafe == HolderSpec => []MailInv
<1>1. HolderInit => MailInv
  <2>. SUFFICES ASSUME HolderInit PROVE MailInv
    OBVIOUS
  <2>1. \A p \in Pids : DOMAIN tasks[p] = {}
    BY DEF HolderInit, Init
  <2>2. HolderTypeOK
    BY DEF HolderInit, HolderTypeOK, CredentialMessage
  <2>3. \A p \in Pids : MailFits(p)
    BY <2>1 DEF HolderInit, MailFits
  <2>. QED
    BY <2>2, <2>3 DEF HolderInit, Init, MailInv, RecordedIsHeld
<1>2. /\ TypeOK /\ TypeOK' /\ ProcessInv /\ RecordInv
      /\ MailInv
      /\ [HolderNext]_allVars
      => MailInv'
  <2>. SUFFICES ASSUME TypeOK, TypeOK', ProcessInv, RecordInv, MailInv,
                       [HolderNext]_allVars
                PROVE  MailInv'
    OBVIOUS
  <2>1. ASSUME UNCHANGED <<tasks, requests, records, holderVars>>
        PROVE  MailInv'
    BY <2>1, SameRecords
  <2>2. CASE UNCHANGED allVars
    BY <2>1, <2>2 DEF allVars, vars
  <2>3. CASE IssuerStep
    <3>0. /\ Next /\ UNCHANGED holderVars
          /\ \A p \in Pids : \A n \in DOMAIN tasks[p] :
                At(p, n, "allocating") /\ tasks'[p][n].pc = "recording"
                    => Acknowledged(p)
      BY <2>3 DEF IssuerStep
    <3>1. CASE Admin
      <4>1. CASE \E d \in Definitions : CreateDefinition(d) \/ DeleteDefinition(d)
        BY <2>1, <3>0, <4>1 DEF CreateDefinition, DeleteDefinition
      <4>2. CASE \E h \in Holders : RegisterHolder(h)
        BY <2>1, <3>0, <4>2 DEF RegisterHolder
      <4>. QED
        BY <3>0, <3>1, <4>1, <4>2, DecideKeepsMail, RecordStepsKeepMail DEF Admin
    <3>2. ASSUME NEW h \in Holders, NEW ds \in SUBSET Definitions,
                 CredentialRequestAccepted(h, ds)
          PROVE  MailInv'
      <4>1. PICK state \in {"SUBMITTED", "APPROVED"} :
              /\ requests' = Insert(requests, nextPid,
                                    [state |-> state, holder |-> h, defs |-> ds,
                                     started |-> FALSE])
              /\ Spawn({nextPid}) \/ Spawn({})
        BY <3>2 DEF CredentialRequestAccepted
      <4>. DEFINE process == [state |-> state, holder |-> h, defs |-> ds,
                              started |-> FALSE]
      <4>2. process \in IssuanceProcess
        BY DEF IssuanceProcess, Active
      <4>3. /\ nextPid <= MaxProcesses
            /\ CanInsert(requests)
            /\ UNCHANGED records
        BY <3>2 DEF CredentialRequestAccepted, Admissible
      <4>. HIDE DEF process
      <4>4. requests' = Insert(requests, nextPid, process)
        BY <4>1 DEF process
      <4>. QED
        BY <3>0, <4>1, <4>2, <4>3, <4>4, InsertKeepsMail
    <3>3. ASSUME NEW h \in Holders, NEW ds \in SUBSET Definitions,
                 CredentialRequestRefused(h, ds)
          PROVE  MailInv'
      BY <2>1, <3>0, <3>3 DEF CredentialRequestRefused
    <3>4. ASSUME NEW p \in Pids, NEW n \in DOMAIN tasks[p],
                 AcquirePermit(p, n) \/ Deliver(p, n)
          PROVE  MailInv'
      BY <3>0, <3>4, DeliverKeepsMail
    <3>5. CASE ServeStatusList
      BY <2>1, <3>0, <3>5 DEF ServeStatusList
    <3>6. CASE \E id \in Redemptions, h \in Holders, d \in Definitions :
                  RedeemStart(id, h, d)
      BY <2>1, <3>0, <3>6 DEF RedeemStart
    <3>7. CASE \E r \in redemptions :
                  RedeemHolder(r) \/ RedeemAllocate(r) \/ RedeemRelease(r)
      BY <2>1, <3>0, <3>7 DEF RedeemHolder, RedeemAllocate, RedeemRelease
    <3>8. ASSUME NEW r \in redemptions, RedeemInsert(r)
          PROVE  MailInv'
      <4>1. CASE UNCHANGED requests
        BY <2>1, <3>0, <3>8, <4>1 DEF RedeemInsert
      <4>. DEFINE process == [state |-> "DELIVERED", holder |-> r.holder,
                              defs |-> {r.def}, started |-> TRUE]
      <4>2. CASE /\ CanInsert(requests)
                 /\ nextPid <= MaxProcesses
                 /\ requests' = Insert(requests, nextPid, process)
        <5>1. process \in IssuanceProcess
          BY DEF TypeOK, Redemption, IssuanceProcess, Terminal
        <5>2. UNCHANGED <<tasks, records>>
          BY <3>8 DEF RedeemInsert
        <5>. HIDE DEF process
        <5>. QED
          BY <3>0, <4>2, <5>1, <5>2, InsertKeepsMail
      <4>. QED
        BY <3>8, <4>1, <4>2 DEF RedeemInsert
    <3>. QED
      BY <3>0, <3>1, <3>2, <3>3, <3>4, <3>5, <3>6, <3>7, <3>8,
         RecordStepsKeepMail DEF Next, Request, Delivery, Redeem
  <2>4. CASE \E p \in Pids : \/ \E n \in DOMAIN tasks[p] : Transmit(p, n)
                             \/ HolderStores(p)
                             \/ HolderRefuses(p)
    BY <2>4, MailMovesOn
  <2>. QED
    BY <2>2, <2>3, <2>4 DEF HolderNext
<1>. QED
  BY <1>1, <1>2, HolderIsIssuer, TypeCorrect, ProcessesSafe, RecordsSafe, PTL
     DEF HolderSpec

\* Issuer and holder agree on what was issued: what is on record was stored by
\* its holder, and a stored credential without a record is one of a delivery
\* not reported DELIVERED, whose index at most one recorded credential has.
THEOREM HeldAgreesWithRecords == HolderSpec => []HeldMatchesRecords
<1>1. TypeOK /\ MailInv /\ IndexInv => HeldMatchesRecords
  <2>. SUFFICES ASSUME TypeOK, MailInv, IndexInv PROVE HeldMatchesRecords
    OBVIOUS
  <2>1. ASSUME NEW c \in held, RecordOf(c) = {}, c.pid \in DOMAIN requests,
               requests[c.pid].state = "DELIVERED"
        PROVE  FALSE
    <3>1. /\ c.pid \in Pids
          /\ c \in mail[c.pid].credentials
          /\ mail[c.pid].fate = "stored"
      BY DEF MailInv, HolderTypeOK, HeldCredential
    <3>2. SentFits(c.pid)
      BY <3>1 DEF MailInv, MailFits
    <3>3. OnFile(records, c)
      BY <2>1, <3>1, <3>2 DEF SentFits
    <3>4. PICK r \in records : CopyOf(r) = c
      BY <3>3 DEF OnFile
    <3>. QED
      BY <2>1, <3>4 DEF RecordOf, CopyOf
  <2>2. ASSUME NEW c \in held
        PROVE  Cardinality({r \in records : r.idx = c.idx}) <= 1
    <3>. DEFINE S == {r \in records : r.idx = c.idx}
    <3>1. \A r, s \in S : r = s
      BY OwnersInvImplies DEF IndexInv, IndexesAccounted, IndexHasOneOwner
    <3>2. CASE S = {}
      <4>1. Cardinality(S) = 0
        BY <3>2, FS_EmptySet
      <4>. QED
        BY <4>1
    <3>3. CASE \E r \in S : S = {r}
      <4>1. Cardinality(S) = 1
        BY <3>3, FS_Singleton
      <4>. QED
        BY <4>1
    <3>. QED
      BY <3>1, <3>2, <3>3
  <2>. QED
    BY <2>1, <2>2 DEF HeldMatchesRecords, MailInv, CopiesAreOfFailures
<1>. QED
  BY <1>1, HolderIsIssuer, TypeCorrect, IndexesSafe, MailSafe, PTL

\* No message leaves for a process that waits for a decision or was rejected
\* (decide_holder and the claim in deliver_issued_credential).
THEOREM NothingForTheRejected == HolderSpec => []RejectedGetsNothing
<1>1. TypeOK /\ MailInv => RejectedGetsNothing
  BY Shapes DEF MailInv, MailFits, SentFits, RejectedGetsNothing
<1>. QED
  BY <1>1, HolderIsIssuer, TypeCorrect, MailSafe, PTL

\* The bit of a credential the issuer stands by is its own: it is set if and
\* only if that credential was revoked, copies left by failed deliveries or not.
THEOREM RevocationsHitTheirOwn == HolderSpec => []RevocationHitsItsOwn
<1>1. TypeOK /\ IndexInv => RevocationHitsItsOwn
  <2>. SUFFICES ASSUME TypeOK, IndexInv, NEW r \in records
                PROVE  r.idx \in statusList.bits <=> r.status = "revoked"
    BY DEF RevocationHitsItsOwn, RecordOf
  <2>1. \A u, s \in records : u.idx = s.idx => u = s
    BY OwnersInvImplies DEF IndexInv, IndexesAccounted, IndexHasOneOwner
  <2>2. statusList.bits = {u.idx : u \in {s \in records : s.status = "revoked"}}
    BY DEF IndexInv, ListMatchesRevocations, BitsMatchRevocations
  <2>. QED
    BY <2>1, <2>2
<1>. QED
  BY <1>1, HolderIsIssuer, TypeCorrect, IndexesSafe, PTL

\* The composition keeps the promises of IssuanceLifecycle as well.
COROLLARY CompositionRefines == HolderSpec => ImplementsLifecycle
  BY HolderIsIssuer, Refinement, PTL
=============================================================================
