--------------------------- MODULE AdminRegistries ---------------------------
(***************************************************************************)
(* The two registries of the Issuer Admin API (issuer.rs, admin.rs) in     *)
(* full: the holder registry with its index by DID, and the catalog of     *)
(* credential definitions; and a client that reads the holders page by     *)
(* page while operators and credential requests change them.               *)
(*                                                                         *)
(* Each handler holds the registry's mutex for one step.  It reads the     *)
(* clock before it waits for the mutex, so the time it writes down may be  *)
(* any earlier one.  What the issuance processes do with both registries   *)
(* is module Issuer's; this one is about the records themselves.           *)
(*                                                                         *)
(* Abstractions: a DID is its method, the document it resolves to, and its *)
(* spelling: whether the host is made of letters, digits, dots and hyphens *)
(* only (dns), the case of the host and of the percent escapes, and the    *)
(* form, for all else that resolution, which is not part of the            *)
(* repository, reads alike: a default port that is written out, a letter   *)
(* that is escaped.                                                        *)
(***************************************************************************)
EXTENDS QuerySpec, SequencesExt

CONSTANTS
    Dids,           \* DIDs in use
    HolderIds,      \* holder ids, given by operators or drawn at random
    DefinitionIds,  \* ids of credential definitions
    Names,          \* names of holders, as numbers
    MaxHolders,     \* MAX_HOLDERS
    MaxDefinitions, \* MAX_CREDENTIAL_DEFINITIONS
    DefaultValidity,\* DEFAULT_VALIDITY_SECS
    Specs,          \* queries the client reads pages with
    MaxTime         \* bound of the model: seconds

\* A criterion and the body of a query, as they are sent.  Queries by DID and
\* by the operator's own properties are left out, as those are not in Item.
FieldName == STRING \ {"did", "properties"}

Criterion == [left : FieldName, operator : STRING,
              right : [t : STRING, v : Int \cup HolderIds]]

Query == [offset : Int \cup {Absent}, limit : Int \cup {Absent},
          sortField : FieldName \cup {Absent}, sortOrder : STRING \cup {Absent},
          criteria : Seq(Criterion)]

DidSpelling == [method : {"web", "other"}, doc : Nat,
                form : {"plain", "explicit"}, dns : BOOLEAN,
                host : {"lower", "mixed"}, escapes : {"upper", "lower"}]

\* Holder ids need an order only if a query sorts by them.
ASSUME RegistriesAssumption ==
    /\ Dids \subseteq DidSpelling
    /\ DefinitionIds # {}
    /\ Names \subseteq Int
    /\ Specs \subseteq Query
    /\ \A spec \in Specs : spec.sortField = "holderId" => HolderIds \subseteq Int
    /\ MaxHolders \in Nat
    /\ MaxDefinitions \in Nat \ {0}
    /\ DefaultValidity \in Nat \ {0}
    /\ MaxTime \in Nat

VARIABLES
    now,            \* now_secs()
    holders,        \* HolderRegistry.holders
    byDid,          \* HolderRegistry.by_did
    order,          \* HolderRegistry.order
    definitions,    \* DefinitionCatalog.definitions
    walk            \* the client that reads pages

holderVars == <<holders, byDid, order>>
vars == <<now, holderVars, definitions, walk>>

-----------------------------------------------------------------------------
Statuses == {"pending", "approved", "rejected"}

Holder == [did : Dids, name : Names \cup {Absent}, status : Statuses,
           created : 0 .. MaxTime]

Definition == [id : DefinitionIds, validity : Nat \ {0}, created : 0 .. MaxTime]

NoWalk == [pc |-> "idle", spec |-> Absent, offset |-> 0, seen |-> <<>>,
           start |-> {}]

TypeOK ==
    /\ now \in 0 .. MaxTime
    /\ DOMAIN holders \subseteq HolderIds
    /\ holders \in [DOMAIN holders -> Holder]
    /\ byDid \in [DOMAIN byDid -> HolderIds]
    /\ order \in Seq(HolderIds)
    /\ definitions \in Seq(Definition)
    /\ walk.pc \in {"idle", "paging", "done"}
    /\ walk.seen \in Seq(HolderIds)
    /\ walk.start \in SUBSET HolderIds
    /\ walk.offset \in Nat

\* `DefinitionCatalog::seeded` puts one definition in.
Init ==
    /\ now = 0
    /\ holders = <<>>
    /\ byDid = <<>>
    /\ order = <<>>
    /\ definitions = << [id |-> CHOOSE d \in DefinitionIds : TRUE,
                         validity |-> DefaultValidity, created |-> 0] >>
    /\ walk = NoWalk

Tick ==
    /\ now < MaxTime
    /\ now' = now + 1
    /\ UNCHANGED <<holderVars, definitions, walk>>

-----------------------------------------------------------------------------
(* Holders *)

Extend(f, k, v) == [x \in DOMAIN f \cup {k} |-> IF x = k THEN v ELSE f[x]]

\* A variant that takes the DID as it is spelled.
HolderKeyAsIs(did) == did

\* The host of a did:web is lowercased if it looks like a DNS name, and its
\* escapes are uppercased; nothing is decoded.
HolderKey(did) ==
    IF did.method = "web"
    THEN [did EXCEPT !.host = IF did.dns THEN "lower" ELSE did.host,
                     !.escapes = "upper"]
    ELSE did

Known(did) == HolderKey(did) \in DOMAIN byDid

ByDid(did) == byDid[HolderKey(did)]

HasRoom == Cardinality(DOMAIN holders) < MaxHolders

\* A variant that does not look the DID up.
CanInsertAnyDid(id, did) == id \notin DOMAIN holders /\ HasRoom

\* `insert` refuses a known id, a known DID, and a holder too many.
CanInsert(id, did) ==
    /\ id \notin DOMAIN holders
    /\ ~ Known(did)
    /\ HasRoom

\* The record itself, once it may go in.
Insert(id, did, name, status, t) ==
    /\ holders' = Extend(holders, id, [did |-> did, name |-> name,
                                       status |-> status, created |-> t])
    /\ byDid' = Extend(byDid, HolderKey(did), id)
    /\ order' = Append(order, id)

RegisterHolder(id, did, name, t) ==
    /\ CanInsert(id, did)
    /\ Insert(id, did, name, "approved", t)
    /\ UNCHANGED <<now, definitions, walk>>

\* Whether a credential request or an OID4VCI redemption is let in.
Welcome(did) ==
    IF Known(did) THEN holders[ByDid(did)].status # "rejected" ELSE HasRoom

\* One of an unknown DID registers it, with the status `holder_approval`
\* says; the new id is one nobody has.
FirstContact(id, did, status, t) ==
    /\ Welcome(did)
    /\ CanInsert(id, did)
    /\ Insert(id, did, Absent, status, t)
    /\ UNCHANGED <<now, definitions, walk>>

\* `decide_holder`, as far as the holder goes.
DecideHolder(id, status) ==
    /\ id \in DOMAIN holders
    /\ holders' = [holders EXCEPT ![id].status = status]
    /\ UNCHANGED <<now, byDid, order, definitions, walk>>

\* A name that is left out of the update changes nothing.
UpdateHolder(id, name) ==
    /\ id \in DOMAIN holders
    /\ holders' = [holders EXCEPT ![id].name = name]
    /\ UNCHANGED <<now, byDid, order, definitions, walk>>

-----------------------------------------------------------------------------
(* The catalog *)

DefinitionsOf(ds) == {ds[i].id : i \in DOMAIN ds}

Acceptable(validity) == IF validity = Absent THEN TRUE ELSE validity > 0

\* The definition an acceptable input stands for.
IntoDefinition(id, validity, t) ==
    [id |-> id, created |-> t,
     validity |-> IF validity = Absent THEN DefaultValidity ELSE validity]

CreateDefinition(id, validity, t) ==
    /\ Acceptable(validity)
    /\ id \notin DefinitionsOf(definitions)
    /\ Len(definitions) < MaxDefinitions
    /\ definitions' = Append(definitions, IntoDefinition(id, validity, t))
    /\ UNCHANGED <<now, holderVars, walk>>

\* A variant that takes the old definition out and adds the new one.
UpdatedMoves(new) ==
    Append(Kept(definitions, {i \in DOMAIN definitions :
                                  definitions[i].id # new.id}), new)

\* The catalog with a definition replaced, which keeps its place and its
\* `createdAt`.
Updated(new) ==
    [i \in DOMAIN definitions |->
        IF definitions[i].id = new.id
        THEN [new EXCEPT !.created = definitions[i].created]
        ELSE definitions[i]]

UpdateDefinition(id, validity, t) ==
    /\ Acceptable(validity)
    /\ id \in DefinitionsOf(definitions)
    /\ definitions' = Updated(IntoDefinition(id, validity, t))
    /\ UNCHANGED <<now, holderVars, walk>>

\* Not while an active process needs it (module Issuer).
DeleteDefinition(id) ==
    /\ id \in DefinitionsOf(definitions)
    /\ definitions' = Kept(definitions, {i \in DOMAIN definitions :
                                            definitions[i].id # id})
    /\ UNCHANGED <<now, holderVars, walk>>

-----------------------------------------------------------------------------
(* Reading the holders page by page *)

\* Statuses in the order of their names.
StatusRank == [approved |-> 0, pending |-> 1, rejected |-> 2]

Item(id) ==
    [holderId  |-> [t |-> "string", v |-> id],
     name      |-> IF holders[id].name = Absent THEN Null
                   ELSE String(holders[id].name),
     status    |-> String(StatusRank[holders[id].status]),
     createdAt |-> Number(holders[id].created)]

\* A variant that lists the newest holder first.
AllNewestFirst == [i \in DOMAIN order |-> Item(Reverse(order)[i])]

\* `all`: the holders in the order they were inserted.
All == [i \in DOMAIN order |-> Item(order[i])]

IdsOf(items) == [i \in DOMAIN items |-> items[i].holderId.v]

\* How a client reads that wants each holder once: in insertion order, by
\* what never changes of a holder, and in pages that are not empty.  A holder
\* that is registered, decided or renamed would otherwise move the others from
\* page to page.
ReadsInOrder(spec) ==
    /\ spec.sortField = Absent
    /\ spec.sortOrder # "DESC"
    /\ spec.limit # 0
    /\ \A i \in DOMAIN spec.criteria : spec.criteria[i].left \notin {"name", "status"}

\* The client asks for the first page.
StartWalk(spec) ==
    /\ walk.pc # "paging"
    /\ ReadsInOrder(spec)
    /\ walk' = IF Refused(spec) THEN NoWalk
               ELSE [NoWalk EXCEPT !.pc = "paging", !.spec = spec,
                        !.start = ToSet(IdsOf(Matched(spec, All)))]
    /\ UNCHANGED <<now, holderVars, definitions>>

\* `query_holders` answers; the client goes on behind what it received and
\* stops at an empty page.
NextPage ==
    /\ walk.pc = "paging"
    /\ LET page == Apply([walk.spec EXCEPT !.offset = walk.offset], All)
       IN  walk' = [walk EXCEPT !.offset = @ + Len(page),
                                !.seen = @ \o IdsOf(page),
                                !.pc = IF page = <<>> THEN "done" ELSE @]
    /\ UNCHANGED <<now, holderVars, definitions>>

-----------------------------------------------------------------------------
Validities == {Absent, 0, 1}

HolderStep ==
    \/ \E id \in HolderIds, did \in Dids, t \in 0 .. now :
          \/ \E name \in Names \cup {Absent} : RegisterHolder(id, did, name, t)
          \/ \E status \in {"pending", "approved"} :
                FirstContact(id, did, status, t)
    \/ \E id \in HolderIds, status \in {"approved", "rejected"} :
          DecideHolder(id, status)
    \/ \E id \in HolderIds, name \in Names : UpdateHolder(id, name)

CatalogStep ==
    \/ \E id \in DefinitionIds, validity \in Validities, t \in 0 .. now :
          \/ CreateDefinition(id, validity, t)
          \/ UpdateDefinition(id, validity, t)
    \/ \E id \in DefinitionIds : DeleteDefinition(id)

WalkStep == NextPage \/ \E spec \in Specs : StartWalk(spec)

Next == Tick \/ HolderStep \/ CatalogStep \/ WalkStep

Spec == Init /\ [][Next]_vars

-----------------------------------------------------------------------------
(* Properties *)

\* The map, the index and the order of the registry agree: every holder is
\* found by its own DID and listed once.
IndexAgrees ==
    /\ \A id \in DOMAIN holders : Known(holders[id].did)
                                  /\ ByDid(holders[id].did) = id
    /\ {byDid[k] : k \in DOMAIN byDid} = DOMAIN holders
    /\ ToSet(order) = DOMAIN holders
    /\ Len(order) = Cardinality(DOMAIN holders)

\* "two spellings that resolve to the same DID document are one holder", in
\* whatever spelling it was registered by an operator or came in by itself.
\* Not true of spellings that differ in more than case.
OneHolderPerDocument ==
    \A a, b \in DOMAIN holders :
        /\ holders[a].did.method = "web"
        /\ holders[b].did.method = "web"
        /\ holders[a].did.doc = holders[b].did.doc
        => a = b

\* Two DIDs that differ in the case of a DNS name or of escapes at most.
DifferInCase(a, b) ==
    \/ a = b
    \/ /\ a.method = "web" /\ b.method = "web"
       /\ a.doc = b.doc /\ a.form = b.form /\ a.dns = b.dns
       /\ ~ a.dns => a.host = b.host

\* Nobody has two records, one for each spelling it was registered under or
\* came in with, if the spellings differ in case.
OneRecordEach ==
    \A a, b \in DOMAIN holders :
        DifferInCase(holders[a].did, holders[b].did) => a = b

\* A rejection is never forgotten: a rejected holder is let in under no other
\* case of its DID either, also when the registry is full.
RejectedStaysOut ==
    \A id \in DOMAIN holders, did \in Dids :
        /\ holders[id].status = "rejected"
        /\ DifferInCase(holders[id].did, did)
        => ~ Welcome(did)

\* A party is one party to the operator, however it varies the case of its
\* DID: it has one record, and a decision on that record is a decision on the
\* party.  (Of all its spellings this is not true: OneHolderPerDocument.)
OnePartyOneDecision == OneRecordEach /\ RejectedStaysOut

\* Both registries refuse what exceeds their caps.
RegistriesBounded ==
    /\ Cardinality(DOMAIN holders) <= MaxHolders
    /\ Len(definitions) <= MaxDefinitions

\* The registry is consistent and within its caps.
RegistryConsistent == TypeOK /\ IndexAgrees /\ RegistriesBounded

\* A walk in insertion order returns every holder that was there when it
\* began, and none twice, whatever is registered, decided and renamed
\* between two pages.
WalkReturnsEachOnce ==
    /\ IsInjective(walk.seen)
    /\ walk.pc = "done" => walk.start \subseteq ToSet(walk.seen)

\* What a field of the holders may hold: no name, names, statuses, the times
\* so far.
Columns == { {Null} \cup {String(n) : n \in 0 .. 2},
             {Number(t) : t \in 0 .. now} }

\* The comparison `sort_by` gets orders what a field of the holders may
\* hold, also between holders with and without a name: Rust's sort may panic
\* when a comparison is not an order.
ComparesConsistently ==
    \A column \in Columns : \A a, b \in column :
        IF Less(a, b)
        THEN ~ Less(b, a)
        ELSE \A c \in column : Less(a, c) => Less(b, c)

\* Sorting by a field is stable: holders with the same value stay in the
\* order they were inserted in, ascending or descending.
SortIsStable ==
    \A spec \in Specs :
        ~ Refused(spec) /\ spec.sortField # Absent =>
            LET all == Sorted(spec, All)
                rank(item) == CHOOSE i \in DOMAIN order :
                                  order[i] = item.holderId.v
            IN  \A i, j \in DOMAIN all :
                    /\ i < j
                    /\ Field(all[i], spec.sortField)
                         = Field(all[j], spec.sortField)
                    => rank(all[i]) < rank(all[j])

\* A page of the holders, whatever the query: no more than the limit, only
\* registered holders that match, none twice, and in the order asked for.
PagesSound ==
    \A spec \in Specs : ~ Refused(spec) =>
        LET page == Apply(spec, All)
            v(i) == Field(page[i], spec.sortField)
        IN  /\ Len(page) <= Limit(spec)
            /\ \A i \in DOMAIN page : /\ page[i].holderId.v \in DOMAIN holders
                                      /\ Matches(spec, page[i])
            /\ \A i, j \in DOMAIN page :
                  page[i].holderId.v = page[j].holderId.v => i = j
            /\ spec.sortField # Absent =>
                  \A i, j \in DOMAIN page : i < j =>
                      IF spec.sortOrder = "DESC" THEN ~ Less(v(i), v(j))
                      ELSE ~ Less(v(j), v(i))

\* A query on the holders is well defined and answered as asked, and equal
\* holders do not change places from one page to the next.
QueriesSound == ComparesConsistently /\ SortIsStable /\ PagesSound

\* Records keep their identity: no holder disappears or changes its DID or
\* the time it was created at, and a definition that stays in the catalog
\* keeps its time of creation and its place among the others.
RecordsKeepIdentity ==
    [][ /\ \A id \in DOMAIN holders :
              /\ id \in DOMAIN holders'
              /\ holders'[id].did = holders[id].did
              /\ holders'[id].created = holders[id].created
        /\ \A i, j \in DOMAIN definitions : \A k, l \in DOMAIN definitions' :
              /\ definitions[i].id = definitions'[k].id
              /\ definitions[j].id = definitions'[l].id
              => /\ definitions[i].created = definitions'[k].created
                 /\ i < j => k < l ]_vars
=============================================================================
