# A TLA+ development of the identity hub

`ds-identity-hub-rs` is a Rust implementation of the Decentralized Claims
Protocol: one binary that runs as a *Credential Service* (it holds a
participant's credentials and presents them) or as an *Issuer Service* (it
decides who gets credentials, signs and delivers them, and revokes them), with
an OID4VCI front on both. All state is in memory and shared by handlers on a
multi-threaded tokio runtime; nothing is persisted, so a crash loses everything
and there is no recovery to model.

This directory holds TLA+ modules translated from that source, the TLC
configurations that check them on small instances, and TLAPS proofs of its
safety properties for every value of the constants. `PROJECT.json` records
which lines each definition stands for, the runs, the mutants that show what
each property would catch, the findings, and the hazards the properties are
aimed at. Paths below are relative to `src/crates/`; `http/` is
`identity-hub-http/src/`, `core/` is `identity-hub-core/src/`.

## 1. Inventory

| Part | State it keeps | Operations | What makes it correct |
|---|---|---|---|
| Credential catalog (`http/issuer.rs`, `admin.rs`) | definitions by id, capped | create, update, delete (409 while in use) | an active process never loses a definition it asked for; a definition keeps its creation time and place |
| Holder registry (`http/issuer.rs`, `admin.rs`) | records by id, an index by canonical DID, insertion order, capped | register, first contact, update, approve, reject | one holder per party, however the case of its DID varies; every decision reaches every process of the holder, whatever order requests and decisions come in |
| Issuance processes (`http/handlers.rs`, `state.rs`) | `RequestTable`: state, holder, definitions, `delivery_started`; arrival order | Credential Request API, status query, eviction | outcomes are final, caps hold, eviction spares active processes |
| Delivery tasks (`http/handlers.rs`) | semaphore of permits; local state of each spawned task | claim, sign, POST, record or release, report | at most one delivery per process, only for an approved holder; permits and indexes come back; every approved process settles |
| Issued credentials and status list (`http/issuer.rs`) | records; next index, free list, bits, cached signed list | allocate, release, revoke, publish | one owner per index, bits mean revocations, the published list is current |
| OID4VCI issuer (`http/oid4vci.rs`) | four expiring tables: offers, codes, access tokens, nonces | create offer, token, nonce, credential | codes and nonces single-use, transaction codes guessed a bounded number of times, tables bounded |
| OID4VCI wallet (`http/oid4vci.rs`, `core/oid4vci.rs`) | none that outlives a redemption; writes one batch to the store | resolve an offer, discover, token, nonce, credential, store | all of an offer is stored or nothing; nonces and assertions serve once; every redemption ends |
| Bearer tokens (`http/auth.rs`, `state.rs`) | `SeenJtiCache`, capped, oldest evicted | verify a Self-Issued ID Token | no replay while the jti is remembered |
| Embedded STS (`core/sts.rs`) | none | mint a token with a nested grant | the grant is bound to the party that presents it |
| Presentation API (`http/handlers.rs`, `core/scope.rs`) | reads the store | query by scope | only granted, sound and currently valid credentials are presented |
| Storage and Offer API (`http/handlers.rs`, `validation.rs`) | write to the store | store a delivery, record an offer | only vetted messages are stored |
| Credential graph (`identity-hub-graph/src/store.rs`) | RDF quads, an order counter | add, query, evict beyond the cap | a bounded store of whole records, the newest kept |
| Trusted issuers registry (`http/registry_trust.rs`) | one cached snapshot | check an issuer, refresh, fall back | fails closed, suspensions arrive in time |
| Admin queries (`http/issuer.rs`: `QuerySpec`) | none | filter, sort, page | an order the sort can rely on; a page-by-page reader misses nothing and sees nothing twice |
| Outbound policy (`http/outbound.rs`, `state.rs`) | an allow-list of hosts | check a URL, check a redirect | no request and no redirect leaves the list |
| Configuration, identity, messages, Contreforts connector | none that changes after start-up | parsing, signing, read-only access to the graph | – |

How they interact. The Credential Request API checks catalog and holder and
inserts a process under the locks *definitions → holders → requests*; the admin
API's decisions and deletions take the same locks, so those critical sections
exclude each other. An accepted or approved process gets a spawned task, which
waits for a permit of `delivery_semaphore`, claims the process under the table's
lock, and from there alternates critical sections (catalog; `issued`) with
network calls (the holder's DID document, its Storage API). OID4VCI's
`record_and_mint` touches the same registry, table, list and records, taking
each lock on its own. On the Credential Service every write passes
`verify_bearer_token` (network, then the jti cache), the trust check (static
list or registry), validation (network), and ends in `CredentialGraph`, which
has no lock across the steps of an addition; `presentation_query` reads it.

What is hard here, and hard to test:

* decisions, requests, deletions and eviction interleaving with deliveries that
  are queued or under way;
* a delivery failing half way, with some indexes of the status list taken;
* tables, caches, lists and semaphores at their limits;
* clock readings used after a wait, or taken twice under one lock;
* tokens replayed, forwarded or used concurrently;
* a delivery whose answer is lost, so that issuer and holder disagree;
* a redemption of many calls, each of which may fail, be challenged or redirected;
* one party under several spellings of its DID;
* additions to the graph that overlap each other, eviction and queries.

The hazards, each at its line, are in `PROJECT.json`.

## 2. Modules

| Module | Stands for | Uses |
|---|---|---|
| `StatusList` | the bit-string status list: allocation, release, revocation, cached signed list | |
| `Issuer` | catalog, holders, processes, delivery tasks, records, admin API, `record_and_mint` | `StatusList`, `IssuanceLifecycle` |
| `IssuanceLifecycle` | abstract: what a process promises to those who ask for its status | |
| `IssuerHolder` | delivery tasks, a lossy network and the holders' Storage API together | `Issuer` |
| `IssuerProofs` | theorems about `Issuer`: processes and their tasks, indexes, records, limits, refinement | `Issuer`, `TLAPS` |
| `IssuerHolderProofs` | theorems about `IssuerHolder` | `IssuerHolder`, `IssuerProofs` |
| `ExpiringTable` | `ExpiringTable<V>` of `oid4vci.rs` as operators on records | |
| `Oid4vci` | offers, token, nonce and credential endpoints of the issuer | `ExpiringTable` |
| `Wallet` | `redeem`, the holder's side of OID4VCI, and the outbound policy | |
| `CredentialGraph` | the RDF store, quad by quad | |
| `RegistryTrust` | the snapshot cache of the trusted issuers registry | |
| `CredentialService` | bearer tokens, STS, Presentation, Storage and Offer API | |
| `QuerySpec` | filter, sort and page as operators | |
| `AdminRegistries` | records of holders and definitions, DID spellings, a client that pages | `QuerySpec` |
| `Oid4vciProofs`, `WalletProofs`, `CredentialGraphProofs`, `RegistryTrustProofs`, `CredentialServiceProofs`, `AdminRegistriesProofs` | theorems about the module named | that module, `TLAPS` |
| `MC*` | instances for TLC: model values, symmetry, enumerated messages | the module named |

**Grain.** One action is one critical section or one network call. What a
handler does between two of them is local. A request refused without changing
state is a stuttering step; a refusal that leaves something behind (a first-time
holder that was registered and then refused with 503) is an action,
`CredentialRequestRefused`.

**`Issuer`.** `catalog`, `holders`, `requests`, `permits`, `records` and
`statusList` are the fields of `AppState`; `tasks[p]` are the tasks spawned for
process `p`, with a program counter that names the place in
`deliver_issued_credential`; `redemptions` are the OID4VCI requests inside
`record_and_mint`. Process ids are arrival numbers, so the table's `order` is
the order of the ids. `HolderApproval` is the `--holder-approval` flag.
`DecideHolder` moves the processes of the holder and `Spawn` starts the tasks,
in the one action each that the two admin handlers are under their locks.

**`Oid4vci`.** The key of a random token is fresh. The token endpoint reads the
clock twice under one lock (`get_mut`, then `take`): `TokenCheck` and
`TokenTake` are two actions although the lock is held, since the clock is what
moves between them. `CreateOffer` puts the code and the offer into their tables
under two locks, one after the other; it is one step, as nobody has either key
before the response and the two tables share nothing. The credential endpoint
copies the grant, resolves the key proof over the network and only then takes
the nonce: `CredentialRequest`, `CredentialNonce`, `CredentialDefinition`. What
follows is `Redeem…` in `Issuer`.

**`CredentialGraph`.** Quads that no query tells apart are one place in the
order of insertion; counting and deleting are two actions, as in `trim_oldest`.
`overlapped` is a history variable: it says whether two additions were ever in
progress together.

**`RegistryTrust`.** The lock is held from the look at the cache to the end of
the fetch, the clock is read before the fetch and used after it. The registry
(outside this repository) suspends and accredits the issuer and signs snapshots.
An answer is any snapshot in `signed`, the newest or an old one: it may come late,
from a cache on the way (a test of `needs_refresh` has that case), and the code
compares no `iat`. `MaxFetch` is what two requests of the HTTP client may take.
`shown` is a history variable: since when all answers agree with the registry.
`decision` is the last decision of the current second.

**`CredentialService`.** A call waits for the DID document of its token's
issuer, then is checked for expiry and replay, then served; the clock moves and
other calls run between these steps. Tokens are records; what a party can put
into an envelope is what it signs itself and any nested token the STS has
minted, whoever it was for. A jti is optional in the code, and in the model. The
presentation recorded in `presented` is the last one.

**`IssuanceLifecycle`, and how `Issuer` implements it.** The abstract
specification knows a phase, an owner and the credentials on record of each
process: a decision on a holder moves all processes of that holder it can still
affect at once and nobody else's, from the start of its delivery no decision
stops a process, credentials go on record together and once, the outcome
reported is whether they did, and only settled processes are ever forgotten. The
refinement mapping is in `Issuer`: `Phase` tells an APPROVED process that is
queued from one that is `delivering` by `delivery_started`; a process that left
the table is `forgotten`; `OnRecord` reads the records. `ImplementsLifecycle` is
checked in `issuer_holder`.

**`IssuerHolder`.** The POST of a delivery is split into `Transmit`, the holder's
`HolderStores` or `HolderRefuses`, and the moment the task sees a result. The
task may see a failure at any time (before anything was sent, or after the
holder stored everything and the answer was lost); it sees a success only after
the holder stored the message. A message that was sent may be stored after the
issuer gave up on it. Nothing is retried, as in the code. `RecordedIsHeld` is
about processes with a delivery task: a redemption hands its credential over in
its response, without a message to the holder's Storage API.

**`Wallet`.** One step per `await` of `redeem`. A request is a route, the host
it is sent to followed by the hosts it is redirected to; `Followed` says whether
the allow-list and the redirect limit let it arrive, and that is all the list
decides here: no property restates it. The servers do what they like:
any answer at any step, in any combination of metadata, token type,
authorization details, challenges, rotated nonces, and lists of credentials good
or not, or no answer at all. History variables (`attempts`, `posts`, `proofs`,
`given`, `issued`) record what was sent and received; they are cleared when the
redemption is answered, as redemptions share nothing but the store.

**`AdminRegistries` and `QuerySpec`.** The registries' records, as far as they
are told apart by id, DID, name, status and time of creation. A handler reads
the clock before it waits for the mutex, so a creation time is any time up to
now. A DID is its method, the document it resolves to, and its spelling:
`holder_key` folds the case of a did:web's escapes, and of its host if that is
made of letters, digits, dots and hyphens (`dns`); it keeps everything else that
resolution, external to this repository, may read alike (`form`: a default port
written out, a letter escaped) and the case of other hosts. A JSON value is its type and a number.
`Kept` is what `filter` and `retain` leave of a vector and `Sorted` what `sort_by`
makes of it; both put each element behind those that go before it (`Arranged`),
which says what the result is without an algorithm. Any query may be asked but
those by DID or by an operator's own properties, which no `Item` has. The client
reads the holders page by page with the query it started with, going on behind
what it received; `ReadsInOrder` says which queries it does that with: no sort, no
reversal, a limit other than 0, and a filter by what never changes of a holder
(section 4 says what goes wrong with others).

## 3. Runs

| Run | Instance | Shows |
|---|---|---|
| `issuance_approval` | 2 holders, 2 definitions, 3 processes of one credential through a table of 2, 1 permit, manual approval | the control of issuance: definitions stay, decisions reach every process, one task per process, claimed processes stay, none stranded, caps, permits, final outcomes |
| `status_indexes` | auto approval, 2 processes of 2 credentials and one redemption, 3 indexes, 2 permits | indexes are neither shared nor lost, bits are revocations, the published list is current, records agree with processes |
| `issuer_holder` | 2 holders, 2 processes of one credential, manual approval, 1 permit, 2 indexes, messages and answers lost or late | recorded credentials are held, rejected processes deliver nothing, left-over copies never affect a recorded credential, every approved process settles (liveness), issuance implements `IssuanceLifecycle` (refinement) |
| `oid4vci_grant` | 2 definitions, 2 requests, 3 keys, tables of 2, lifetimes of 1 | single use, bounded guessing, only what was offered is issued, entries bounded, no live entry evicted while an expired one stays |
| `graph_additions` | 2 writers, cap 2, 5 records | the store is bounded by the cap and the additions under way, eviction takes the oldest of the right class, listed records are whole once inserted, exact when nothing overlaps |
| `registry_trust` | 2 callers, lifetime 8 (quarter 2, margin 1), fetches of up to 1, one suspension, answers of any age | fails closed but for one fetch; a suspension arrives once what was signed before it has expired, and within a quarter of the lifetime of the last answer that hid it; refreshes take effect in order |
| `credential_service` | a trusted and an untrusted party, 2 calls, 1 minted token, caches of 1, 7 messages, 2 offers | replay only after eviction, presentations granted and sound, the STS's own tokens verify, caches bounded |
| `wallet` | offers of up to 2 of 4 configurations (two formats, both key bindings, one undescribed), up to 2 identifiers and 2 credentials per answer, one redirect, a host off the list | all or nothing is stored, none is lost, nothing unacceptable is kept, nonces and assertions serve once, retries are bounded, every redemption ends (liveness) |
| `admin_registries` | 2 of 3 holder ids, 5 DIDs (one document under three spellings, two of which differ in case only; a host that is no DNS name; another method), 2 of 3 definitions, 7 queries (filters, sorts both ways, two that are refused) with pages of 1 and 2 | registry, index and order agree, one record per party and a rejection that lasts however the case of the DID varies, caps, paging misses and repeats nobody, the comparison is an order, sorting is stable, pages are within the limit, of matching holders and in order, records keep their identity |
| `oid4vci_fixed_capacity` | violation | finding 1 |
| `oid4vci_grant_panic` | violation | finding 2 |
| `graph_overeviction` | violation | finding 3 |

**Why the bounds are enough.** Each is the smallest at which the case in
question happens, plus one where that is affordable. Two holders, writers, calls
or callers are what an interleaving takes; the code never relates three. A table
of 2 with 3 processes evicts; a jti cache of 1 with 3 acceptances evicts and
accepts again; 5 graph records of two classes with cap 2 overflow one class by
two; 3 indexes are fewer than the 5 credentials that want one; two configurations
with two identifiers each and two credentials per answer fail at any place after
any success; a registry of 2 is full with a third party asking; a snapshot of
lifetime 8 is due for a refresh after 2, may be answered again at any age up to 7,
at which its margin of 1 counts too, and a clock up to 11 lets it expire during
the fetch of a check that falls back on it. `MaxProcesses`,
`MaxKeys`, `MaxOffered`, `MaxHandedOver`, `MaxRecords`, `MaxMinted`, `MaxAccepted`, `MaxTime`, `MaxChanges`
bound the model and are guards of the actions that count; every other constant
is one of the program. Deadlock is checked except where the system may be at rest
within the bounds, which the `.cfg` then says (`CredentialGraph`,
`RegistryTrust`, `CredentialService`).

`admin_registries` has the action constraint `OneRegistryAtATime`: holders and
definitions share nothing but the clock in that module, so each action's effect
and every property depend on one of them only, and the interleavings of changes
to both would multiply the states without showing anything else. Its symmetry is
over holder ids, which the code draws at random and only compares.

**Fairness.** `Fairness` of `Issuer`, used by `issuer_holder`: a spawned
task is polled until it ends, and each of its network calls ends by the HTTP
client's timeouts: weak fairness of `Deliver`. Tokio's semaphore serves waiters
in order, so a queued task is not overtaken for ever: strong fairness of
`AcquirePermit`. Nothing is assumed of callers, holders, operators or the
network. In `Wallet`, weak fairness of `Local`, what `redeem` does between two
calls, and of `CallEnds` for the calls that are `Timed`: those of the client built
with `OUTBOUND_CONNECT_TIMEOUT` and `OUTBOUND_REQUEST_TIMEOUT` (`state.rs:341-343`).
A server owes no answer, a call to a silent one ends by the timeout, and which
calls have one is part of the model: with one call that has none, TLC finds a
redemption that never ends. Fairness does not cut a sequence of calls short
either; that challenges do not go on for ever is `redeem`'s doing. Callers may
leave (`Dropped`) but need not.

**Named conjunctions.** Parts that state one idea together are checked as one
property; each part has its own definition and comment in the module.

| Property | Parts |
|---|---|
| `ActiveProcessesSafe` | `ActiveDefinitionsExist`, `StateFollowsHolder`, `ClaimedProcessStays` |
| `TasksFitProcesses` | `OneDeliveryTask`, `NotSpawnedYet`, `ApprovedHasTask` |
| `LimitsHold` | `CapsHold`, `PermitsConserved` |
| `IndexesAccounted` | `IndexHasOneOwner`, `NoIndexLeaks` |
| `ListMatchesRevocations` | `BitsMatchRevocations`, `CachedListIsCurrent` |
| `HeldMatchesRecords` | `HolderTypeOK`, `RecordedIsHeld`, `CopiesAreOfFailures` |
| `ReplayCacheSound` | `TypeOK`, `CachesBounded`, `ReplayNeedsEviction` |
| `StoresWhatWasOffered` | `AllOrNothing`, `NoneLost`, `StoredIsAcceptable` |
| `ProofsServeOnce` | `NonceServesOneRequest`, `NoAssertionReplayed` |
| `RetriesAreSound` | `TypeOK`, `AttemptsBounded`, `LatestNonceSent` |
| `RegistryConsistent` | `TypeOK`, `IndexAgrees`, `RegistriesBounded` |
| `OnePartyOneDecision` | `OneRecordEach`, `RejectedStaysOut` |
| `QueriesSound` | `ComparesConsistently`, `SortIsStable`, `PagesSound` |

**Mutants.** For each property of a passing run `PROJECT.json` names a variant of
a definition, a plausible slip in that code, that TLC finds to violate the
property. The variants stand in the modules before the definitions they vary
and nothing else uses them.

## 4. Findings

1. *`ExpiringTable` is not of fixed capacity.* `take` and an expired `get_mut`
   leave the key in `order`, which insertion pops only while `entries` is over
   the capacity. Used-up codes and nonces make the queue grow without bound.
2. *A panic in the token endpoint.* `get_mut` and `take` read the clock
   separately; a code that expires between the readings makes
   `expect("grant was live under this same lock")` panic and poisons the mutex.
3. *Overlapping additions evict too much.* Both count the same excess, both
   delete it, and a record the cap had room for is gone.

Observations that no run is about:

* One document, two holders. `holder_key` folds case. `%3A443`, an escaped
  letter, or a host with characters outside `[A-Za-z0-9.-]` in another case is a
  second key for the document, so that a rejected party may come back, although
  `issuer.rs:310-311` says that "two spellings that resolve to the same DID
  document are one holder". That both URLs are one is the URL library's doing,
  outside this repository. `OneHolderPerDocument` in `AdminRegistries` states the
  comment's claim; put in place of `OnePartyOneDecision` in
  `MCAdminRegistries.cfg`, TLC finds it violated.
* A suspension may take longer than a quarter of the TTL, which
  `registry_trust.rs:12-15` promises ("about a quarter"): the quarter is counted
  from the fetch, and a snapshot that was signed earlier and is answered late, as
  `registry_trust.rs:222` expects, is filed like any other. `WithinAQuarter` in
  `RegistryTrust` states the promise; put in place of `SuspensionReaches` in
  `MCRegistryTrust.cfg`, TLC finds it violated. What holds is `SuspensionReaches`:
  a quarter from the last answer that hid the suspension, and in any case until
  what was signed before it has expired, but for a fetch.
* Overlapping additions may leave orphans: a record evicted between two of its
  insertions gets the rest of its quads (`store.rs:324`), which no cap counts any
  more, although `store.rs:152-156` has eviction take every quad. `NoOrphans` in
  `CredentialGraph` states it; put in place of `NewestKept` in
  `MCCredentialGraph_overeviction.cfg`, TLC finds it violated.
* `handlers.rs:800` says that nothing was issued when a delivery fails; after a
  lost answer the holder keeps what it stored. `CopiesAreOfFailures` and
  `RevocationHitsItsOwn` show how far that goes: the copy may read as revoked
  with the credential that got its index, never the other way round.
* Wallet: a redemption that fails after earlier configurations were issued loses
  those credentials with the code spent, since nothing is stored before the end
  and a pre-authorized code serves once.
* Wallet: any 400 that carries a `DPoP-Nonce` is taken for a challenge
  (`oid4vci.rs:1368`) and the token request is repeated, so a wrong transaction
  code may cost two guesses. The two "repeated use_dpop_nonce challenge" errors
  cannot be reached: a second challenge is read as an error response.
* Wallet: ARCHITECTURE.md:1245 has "one `use_dpop_nonce` challenge per endpoint"
  answered; the code answers one per credential request.
* Wallet: a credential is checked for expiry when it arrives and stored at the
  end; it may have expired by then. Presentations check again.
* `MAX_OUTBOUND_REDIRECTS` is 10 and documented as how many redirects may be
  followed; `previous()` includes the first URL, so 9 are followed (`Followed`).
* `compare_values` is no order on a column of mixed types, such as `jsonSchema`
  of the definitions, where `sort_by` may panic; `ComparesConsistently` is about
  the columns of the holders, so that this hazard is covered by no property.
* `createdAt` is read before the mutex is taken, so holders are not listed in
  the order of their times, and a walk sorted by `createdAt`, or filtered by a
  status that changes, may repeat or miss a holder. `WalkReturnsEachOnce` is
  about unsorted walks over what does not change. A limit above 500 is cut
  silently: a client must go on behind what it received.
* `trust_list` compares no `iat`: an older snapshot that has not expired replaces a
  newer one, and with it an issuer suspended in the meantime is trusted again,
  within the limits of `SuspensionReaches`. `RefreshedInOrder` is about the times
  of the fetches, not of the snapshots.
* Two paragraphs of ARCHITECTURE.md are out of date: 1207-1210 has credentials
  issued over OID4VCI not recorded, 1327 has indexes never reused. The code, and
  1384-1390 and 1358-1362 of the same file, say otherwise; the model follows the
  code.
* `issuer.rs:524-527` says itself that an index may be shared when the holder
  keeps a credential although its answer was not a success.
* After a failed refresh `registry_trust.rs:97` compares the expiry with the
  clock from before the fetch: a snapshot may serve for the time of that fetch
  after its expiry. `FailsClosed` is stated with that allowance.
* A query during an addition shows a batch without some of its credentials
  (`store.rs:344`); `ListedIsWhole` says that it is never so afterwards.
* The comment on `StsTokenRequest::audience` (`sts.rs:81-84`) has the STS party
  present the nested grant in the hand-off case; `issue_token` and its own
  comment bind it to the audience, and the model follows the code.
* `scope.rs:41` promises "every distinct" type and removes consecutive
  duplicates only; the lists are used for membership alone.
* `state.rs:225-228` describes a delivery that finds its process evicted;
  `ClaimedProcessStays` shows that this cannot happen.

## 5. Proofs

Every theorem holds for all constants that satisfy the named assumptions of its
module, which say no more than that caps, lifetimes and bounds are natural
numbers (positive where the code's constant is) and that sets fit each other:
any number of holders, processes, definitions, calls, writers, hosts, records.
`RegistriesAssumption` says besides what a DID's spelling consists of, without
relating spellings to documents, that names have an order, and holder ids too if
some query sorts by them; the strings of the code have one.
Theorems about an `…Inv` state the inductive invariant that the others of the
module follow from.

| Module (assumptions) | Theorem | States `Spec => []` of |
|---|---|---|
| `IssuerProofs` (`IssuerAssumption`, `StatusListBitsAssumption`) | `TypeCorrect` | `TypeOK` |
| | `ProcessesSafe` | `ProcessInv` |
| | `ActiveProcessesAreSafe` | `ActiveProcessesSafe` |
| | `DeliveredOnce` | `TasksFitProcesses` |
| | `OutcomesAreFinal` | `TerminalStays` (action property) |
| | `ClaimsAreApproved` | `ClaimNeedsApproval` (action property) |
| | `IndexesSafe` | `IndexInv` |
| | `IndexesAlwaysAccounted` | `IndexesAccounted` |
| | `RevocationsPublished` | `ListMatchesRevocations` |
| | `RecordsSafe` | `RecordInv` |
| | `RecordsAgreeWithOutcomes` | `RecordsMatchOutcome` |
| | `LimitsSafe`, `LimitsAlwaysHold` | `LimitInv`, `LimitsHold` |
| | `Refinement` | `ImplementsLifecycle` (the abstract specification) |
| `IssuerHolderProofs` (the same) | `MailSafe` | `MailInv` |
| | `HeldAgreesWithRecords` | `HeldMatchesRecords` |
| | `NothingForTheRejected` | `RejectedGetsNothing` |
| | `RevocationsHitTheirOwn` | `RevocationHitsItsOwn` |
| | `CompositionRefines` | `ImplementsLifecycle`, of the composition |
| `Oid4vciProofs` (`Oid4vciAssumption`, `CapacityAssumption`) | `TypeCorrect` | `TypeOK` |
| | `GrantsSafe` | `GrantInv` |
| | `ServedOnce`, `GuessesAreBounded`, `OnlyTheOffered` | `SingleUse`, `GuessesBounded`, `IssuedWasOffered` |
| | `EvictionAlwaysFair` | `EvictionIsFair` (action property) |
| `WalletProofs` (`WalletAssumption`) | `WalletSafe` | `WalletInv` |
| | `OfferStoredWholeOrNotAtAll` | `StoresWhatWasOffered` |
| | `NoncesAndAssertionsServeOnce` | `ProofsServeOnce` |
| | `RetriesEndAndAreSound` | `RetriesAreSound` |
| `CredentialGraphProofs` (`GraphAssumption`) | `GraphSafe` | `GraphInv` |
| | `StoreIsBounded`, `ListedRecordsAreWhole` | `CapPlusBusy`, `ListedIsWhole` |
| | `EvictionGoesByAge` | `OldestGoFirst` (action property) |
| | `OneAtATimeIsExact` | `SequentialIsExact` |
| `RegistryTrustProofs` (`RegistryAssumption`) | `TypeCorrect`, `TrustSafe` | `TypeOK`, `TrustInv` |
| | `TrustFailsClosed`, `SuspensionsArrive` | `FailsClosed`, `SuspensionReaches` |
| | `RefreshesInOrder` | `RefreshedInOrder` (action property) |
| `CredentialServiceProofs` (`CredentialServiceAssumption`) | `ServiceSafe` | `ServiceInv` |
| | `ReplaysNeedEviction` | `ReplayCacheSound` |
| | `OnlyTheGranted`, `OnlyTheSound` | `PresentedWasGranted`, `PresentedIsSound` |
| | `OwnTokensAlwaysVerify` | `OwnTokensVerify` |
| `AdminRegistriesProofs` (`RegistriesAssumption`, `QueryAssumption`) | `RegistryIsConsistent` | `RegistryConsistent` |
| | `PartyIsOne` | `OnePartyOneDecision` |
| | `WalkIsComplete` | `WalkReturnsEachOnce` |
| | `QueriesAlwaysSound` | `QueriesSound` |
| | `IdentityIsKept` | `RecordsKeepIdentity` (action property) |

Each proof has a lemma per operator of the model that several actions use, one
per kind of step, and one that puts the steps of `Next` together; parts of an
invariant whose variables a step leaves alone are discharged by a frame lemma.

**Processes (`ProcessInv`).** None of the invariants is inductive alone. That a
process has one task ever needs that approval moves only SUBMITTED processes and
that those have no task (`NotSpawnedYet`); that a claimed process is not rejected
or evicted needs that a claim sets `started` and that an APPROVED process whose
flag is down has its task before the claim (`ApprovedHasTask`); that a claim
finds an approved holder needs `StateFollowsHolder`, since the claim looks at the
process only. Their conjunction is inductive together with `TypeOK`.

**Indexes (`IndexInv`).** Records, redemptions under way and signed credentials
of deliveries under way are put into one set of owners, so that an operation of
the status list is one on that set: the indexes handed out are the free ones and
those of the owners, and no two owners share one (`Accounted`). The set must be
exact: a task outside the steps between allocation and record or release holds
nothing (`HoldsNothing`), or indexes could leak through it. Bits and the cached
list follow.

**Records (`RecordInv`).** A task's signed credentials, what is left to sign and
the process's definitions fit each other at every step (`TaskFits`), records are
unique per process and definition, and a redemption that has inserted its
DELIVERED process and not yet recorded its credential is the only one that ever
will (`RedemptionsFit`). That is what makes "DELIVERED means on record" true
up to that gap.

**Refinement.** `Init` maps to the abstract `Init` and each kind of step to one
action of `IssuanceLifecycle` or to a stutter: an insertion is `Create` and
forgets the process it evicts; a decision moves all processes of the holder at
once; a claim, a record, an outcome move one process (`MovesOne`). It uses
`ProcessInv` (who may still be moved) and `RecordInv` (an outcome agrees with the
records). Fairness is not part of the abstract specification.

**Limits (`LimitInv`).** Free permits and tasks past `AcquirePermit` add up to
`MaxInFlight`; the tables are finite and within their caps.

**The composition (`MailInv`).** A step of `IssuerHolder` is one of `Issuer` or
leaves its variables alone, so everything above carries over (`HolderIsIssuer`).
`MailInv` relates the message of a process to its task: what was sent is what the
task signed, its process cannot be rejected any more, and what is held was sent. With the one task per
process and the ownership of indexes, recorded credentials are held and
revocation reaches exactly them.

**OID4VCI issuer (`GrantInv`).** The tables first (`TableFits`): every entry has
its place in `order`, keys and expiry times rise along it, so evicting from the
front spares live entries while there are expired ones. Then the grants: a key in
use is unspent (`Unspent`), a code is in a table or with one exchange, a nonce in
a table or with one request (`OneUser`), and what is carried on is part of what
was offered (`GrantsAreOffered`). The table that leaves keys behind in `order`
(finding 1) is the one that is proved about.

**Wallet (`WalletInv`).** Four parts: the token request has attempts left while it
is being made, and attempt *i* carries assertion *i* (`TokenInv`); each proof's
nonce is the number of its own request, or none where the issuer has no nonce
endpoint, and the remembered DPoP nonce is the last one sent (`NonceInv`); a
request that may be posted has a post left (`PostInv`); unless the redemption has
failed, what was handed over is what was kept, skipped or is still to be examined,
and nothing is stored before the end (`ResultInv`). `FlattenType` shows, by least
counterexample, that joining identifier lists gives a list of identifiers.

**Credential graph (`GraphInv`, `SequentialInv`).** `CapPlusBusy` is not
inductive: it is strengthened to count, per class, the additions that have
inserted their type quad and not yet deleted (`Owing`). A deletion removes as many
records as were counted in excess, unless some cannot be sorted by then; those
belong to other additions under way, which are mapped one to one into the owing
ones. `SequentialInv` describes the store at every step of an addition that nothing
overlaps: the newest records of each class, up to the cap, and the one being
added.

**Registry (`TrustInv`).** One fetch at a time (`OneFetch`). An answer is a signed
snapshot, so one that trusts a suspended issuer is older than the suspension, and
it was asked for before answers began to show the suspension (`AnswerIsSigned`);
both go on to the cache, which is moreover no newer than a fetch under way
(`CacheIsSigned`). The first gives the limit by expiry, the second the quarter,
counted from the fetch, and the third that refreshes take effect in order.
Decisions are within those limits (`DecisionsInTime`).

**Credential Service (`ServiceInv`).** The jti cache is the end of the sequence of
accepted tokens, as long as the cap allows (`Remembers`); the
STS nests grants to the party that will present them (`TokensMinted`), a nested
token that names the STS as its issuer is one it minted (`CallsGranted`), and
stored batches passed the checks of the Storage API (`BatchesSound`).

**Admin registries (`RegistryInv`).** Three parts. `HolderInv`: the index by
canonical DID, the records and `order` list the same holders, and `order` lists
each once. One record per party and the lasting rejection follow, as spellings
that differ in case have one `HolderKey` (`CaseIsFolded`). `CatalogInv`:
the catalog is typed, within its cap, and its ids are unique; without that an
update could change two definitions. `WalkInv`: what the client has received is
what its query finds up to the client's offset, in that order, and what was there
at the start is still found. It is inductive because `order` only grows at its end
and a match by what never changes stays one (`MatchStays`), so that what is found
keeps its places (`FoundGrows`); an empty page means that the offset is past all of
it. What sorting gives is proved without induction over the items: the place of an
item is the number of those that go before it, `compare_values` is a strict weak
order on a column (`LessOrdersColumn`) and becomes a strict total one with the
positions (`GoesBeforeOrders`), in a finite set ordered like that no two elements
have the same number before them, and so, as many places as elements, every
place is taken once (`PlaceTaken`, `SortIsPermutation`).

**Only model-checked.**

* Liveness, which this prover does not do: `ApprovedSettles`, `RedemptionEnds`.
* The three runs that show a violation.

## 6. Not modelled

* What is stored and echoed back only: a definition's schema, mappings, rules and
  attestations, a holder's properties.
* Cryptography, wire formats, RDF terms, DID documents: accepted or refused.
* Configuration, command line, routing and the Contreforts
  connector: no state that changes. The benchmark tools under `bench/`: clients.
* `known_holder_pids` (empty by default, which refuses nothing).

## 7. Plan

Done, in this order: `StatusList` and `Issuer` with its proofs; `ExpiringTable`
and `Oid4vci`; `CredentialGraph`; `RegistryTrust`; `CredentialService`;
`IssuanceLifecycle` and its refinement; `IssuerHolder`; `Wallet`; `QuerySpec` and
`AdminRegistries`. What has state and decides something is modelled.

All safety properties and action properties of the passing runs are proved for
every value of the constants, the refinement of `IssuanceLifecycle` included. What
remains with TLC is liveness (section 5), and nothing else is planned.
