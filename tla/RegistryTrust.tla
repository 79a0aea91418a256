---------------------------- MODULE RegistryTrust ----------------------------
(***************************************************************************)
(* The trusted issuers registry as a Credential Service sees it            *)
(* (registry_trust.rs): a signed snapshot is fetched, cached and fetched   *)
(* again after a quarter of its lifetime; a failed refresh falls back on   *)
(* the cached one until it expires.  Every check of an issuer holds one    *)
(* asynchronous lock from looking at the cache to the end of the fetch.    *)
(*                                                                         *)
(* Time is in the model's units. A fetch is two requests of the shared     *)
(* HTTP client, so the clock moves at most MaxFetch while one is under     *)
(* way. The code reads the clock before the fetch and uses that reading    *)
(* after it; the decision that follows reads the clock again.              *)
(*                                                                         *)
(* The registry itself is not part of the repository: it accredits and     *)
(* suspends the issuer in question, for the credential type in question,   *)
(* and signs snapshots of that.  An answer is any of those, as it may come *)
(* late, from a cache on the way (the test of `needs_refresh` has that     *)
(* case); the code compares no answer with what it holds.                  *)
(***************************************************************************)
EXTENDS Naturals

CONSTANTS
    Callers,        \* requests that check an issuer at one time
    Ttl,            \* lifetime of a snapshot, the registry's choice
    Margin,         \* REFRESH_MARGIN_SECS
    MaxFetch,       \* twice OUTBOUND_REQUEST_TIMEOUT
    MaxTime,        \* bound of the model: the clock
    MaxChanges      \* bound of the model: accreditations and suspensions

ASSUME RegistryAssumption ==
    /\ Ttl \in Nat \ {0}
    /\ Margin \in Nat
    /\ MaxFetch \in Nat
    /\ MaxTime \in Nat
    /\ MaxChanges \in Nat

VARIABLES
    now,        \* now_secs()
    accredited, \* the registry trusts the issuer
    since,      \* when `accredited` last changed
    changes,    \* how often it changed
    signed,     \* the snapshots signed so far
    shown,      \* history: since when all answers show `accredited` as it is
    cached,     \* RegistryTrust.cached, a set of at most one snapshot
    callers,    \* the local state of each check
    outage,     \* history: a fetch failed since `accredited` last changed
    decision    \* history: the last decision of this second, if any

registry == <<accredited, since, changes, signed, shown>>
vars == <<now, registry, cached, callers, outage, decision>>

-----------------------------------------------------------------------------
Times == 0 .. MaxTime + Ttl

TrustList == [iat : Times, exp : Times, trusted : BOOLEAN]
Cached    == [list : TrustList, fetchedAt : Times]

Snapshot(t, trusted) == [iat |-> t, exp |-> t + Ttl, trusted |-> trusted]

\* `at` is the clock as the check read it with the lock held, `answer` what the
\* registry sent.
Caller == [pc     : {"idle", "fetching", "fetched", "deciding"},
           at     : Times,
           answer : SUBSET TrustList]

Idle == [pc |-> "idle", at |-> 0, answer |-> {}]

TypeOK ==
    /\ now \in 0 .. MaxTime
    /\ accredited \in BOOLEAN
    /\ since \in 0 .. MaxTime
    /\ changes \in 0 .. MaxChanges
    /\ signed \in SUBSET TrustList
    /\ shown \in 0 .. MaxTime
    /\ cached \in SUBSET Cached
    /\ callers \in [Callers -> Caller]
    /\ \A c \in Callers : callers[c].pc = "deciding" => callers[c].answer # {}
    /\ outage \in BOOLEAN
    /\ decision \in SUBSET [list : TrustList, at : Times]

Init ==
    /\ now = 0
    /\ accredited = TRUE
    /\ since = 0
    /\ changes = 0
    /\ signed = {Snapshot(0, TRUE)}
    /\ shown = 0
    /\ cached = {}
    /\ callers = [c \in Callers |-> Idle]
    /\ outage = FALSE
    /\ decision = {}

-----------------------------------------------------------------------------
(* The surroundings *)

Fetching == {c \in Callers : callers[c].pc \in {"fetching", "fetched"}}
Deciding == {c \in Callers : callers[c].pc = "deciding"}

\* A fetch ends by the client's timeouts; a decision follows its list at once.
Tick ==
    /\ now < MaxTime
    /\ Deciding = {}
    /\ \A c \in Fetching : now < callers[c].at + MaxFetch
    /\ now' = now + 1
    /\ signed' = signed \cup {Snapshot(now + 1, accredited)}
    /\ decision' = {}
    /\ UNCHANGED <<accredited, since, changes, shown, cached, callers, outage>>

\* The registry suspends the issuer, or accredits it again.
ChangeAccreditation ==
    /\ changes < MaxChanges
    /\ accredited' = ~ accredited
    /\ since' = now
    /\ changes' = changes + 1
    /\ signed' = signed \cup {Snapshot(now, ~ accredited)}
    /\ shown' = now
    /\ outage' = FALSE
    /\ UNCHANGED <<now, cached, callers, decision>>

\* The request of caller c is answered, by the registry or on the way to it.
Serve(c, list) ==
    /\ callers[c].pc = "fetching"
    /\ callers' = [callers EXCEPT ![c].pc = "fetched", ![c].answer = {list}]
    /\ shown' = IF list.trusted = accredited THEN shown ELSE now
    /\ UNCHANGED <<now, accredited, since, changes, signed, cached, outage,
                   decision>>

-----------------------------------------------------------------------------
(* trust_list *)

\* A variant that releases the lock while it fetches.
LockFreeAlways == TRUE

\* The lock is held while a fetch is under way.
LockFree == Fetching = {}

\* A variant that waits for the margin before the expiry.
NeedsRefreshLate(c, t) == t + Margin >= c.list.exp

\* needs_refresh: a quarter of the lifetime since the fetch, or the margin.
NeedsRefresh(c, t) ==
    \/ t >= c.fetchedAt + (c.list.exp - c.list.iat) \div 4
    \/ t + Margin >= c.list.exp

\* The list a check goes on with, if any; the caller decides by it next.
Use(c, lists) ==
    callers' = [callers EXCEPT
                  ![c] = IF lists = {} THEN Idle
                         ELSE [pc |-> "deciding", at |-> 0, answer |-> lists]]

UseCached(c) ==
    /\ callers[c].pc = "idle"
    /\ LockFree
    /\ \E s \in cached : /\ ~ NeedsRefresh(s, now)
                         /\ Use(c, {s.list})
    /\ UNCHANGED <<now, registry, cached, outage, decision>>

StartFetch(c) ==
    /\ callers[c].pc = "idle"
    /\ LockFree
    /\ \A s \in cached : NeedsRefresh(s, now)
    /\ callers' = [callers EXCEPT ![c] = [Idle EXCEPT !.pc = "fetching",
                                                      !.at = now]]
    /\ UNCHANGED <<now, registry, cached, outage, decision>>

\* The snapshot verifies: it is signed by the registry and had not expired when
\* the check began.
FetchSucceeds(c) ==
    /\ callers[c].pc = "fetched"
    /\ \A list \in callers[c].answer : callers[c].at < list.exp
    /\ cached' = {[list |-> list, fetchedAt |-> callers[c].at] :
                     list \in callers[c].answer}
    /\ Use(c, callers[c].answer)
    /\ UNCHANGED <<now, registry, outage, decision>>

\* A variant that falls back on the cached snapshot whatever its age.
StillValidAlways(s, at) == TRUE

\* The cached snapshot had not expired when the check began.
StillValid(s, at) == at < s.list.exp

\* The registry cannot be reached, or its answer does not verify: the cached
\* snapshot serves, otherwise nobody is trusted.
FetchFails(c) ==
    /\ callers[c].pc \in {"fetching", "fetched"}
    /\ Use(c, {s.list : s \in {x \in cached : StillValid(x, callers[c].at)}})
    /\ outage' = TRUE
    /\ UNCHANGED <<now, registry, cached, decision>>

\* check: the list says whether the issuer is trusted. It is given the clock,
\* read again, which can only make it refuse more.
Decide(c) ==
    /\ callers[c].pc = "deciding"
    /\ decision' = {[list |-> list, at |-> now] : list \in callers[c].answer}
    /\ callers' = [callers EXCEPT ![c] = Idle]
    /\ UNCHANGED <<now, registry, cached, outage>>

-----------------------------------------------------------------------------
Next ==
    \/ Tick
    \/ ChangeAccreditation
    \/ \E c \in Callers :
          \/ \E list \in signed : Serve(c, list)
          \/ UseCached(c)
          \/ StartFetch(c)
          \/ FetchSucceeds(c)
          \/ FetchFails(c)
          \/ Decide(c)

Spec == Init /\ [][Next]_vars

-----------------------------------------------------------------------------
(* Properties *)

\* "Fails closed": no check decides without a snapshot (see TypeOK), and nobody
\* is trusted by one that has expired, but for the time one failed fetch takes,
\* since the fallback compares the expiry with the clock as it was before the
\* fetch.
FailsClosed ==
    /\ TypeOK
    /\ \A d \in decision : d.list.trusted => d.at < d.list.exp + MaxFetch

\* A suspension reaches every check.  At the latest when what was signed
\* before it has expired, but for one fetch, whatever is answered and whatever
\* fails.  And while no fetch fails, within a quarter of the lifetime of the
\* last answer that did not show it, or when the fetch ends that got it.
SuspensionReaches ==
    \A d \in decision : d.list.trusted /\ ~ accredited =>
        /\ d.at < since + Ttl + MaxFetch
        /\ ~ outage => d.at <= shown + Ttl \div 4 \/ d.at <= shown + MaxFetch

\* The answer to a check that began earlier never replaces the answer to one
\* that began later, although several checks want a fetch at one time: the
\* cache is as old as its last refresh.
RefreshedInOrderStep ==
    \A s \in cached, t \in cached' : s.fetchedAt <= t.fetchedAt
RefreshedInOrder == [][RefreshedInOrderStep]_vars

\* "so a suspension reaches this service within about a quarter of the
\* snapshot TTL": of the suspension, that is, with a fetch allowed for.
\* Not true when an answer comes late: the quarter is counted from the fetch.
WithinAQuarter ==
    \A d \in decision :
        d.list.trusted /\ ~ accredited /\ ~ outage =>
            d.at <= since + Ttl \div 4 + MaxFetch
=============================================================================
