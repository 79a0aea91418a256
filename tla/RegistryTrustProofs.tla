------------------------- MODULE RegistryTrustProofs -------------------------
(***************************************************************************)
(* The trusted issuers registry, for any number of checks at one time and  *)
(* any lifetime, margin and timeout, and whatever old snapshots are        *)
(* answered: trust fails closed, a suspension arrives in time and          *)
(* refreshes take effect in the order they were asked for.                 *)
(***************************************************************************)
EXTENDS RegistryTrust, TLAPS

\* A snapshot the registry has signed by now: it lives for Ttl, and it trusts
\* a suspended issuer only if it is older than the suspension.
Signed(list) ==
    /\ list.exp = list.iat + Ttl
    /\ list.iat <= now
    /\ list.trusted /\ ~ accredited => list.iat <= since

\* A list that was asked for at `t`: if it trusts a suspended issuer, it came
\* in before answers began to show the suspension.
AskedBefore(list, t) == list.trusted /\ ~ accredited => t <= shown

\* The clock of a decision by `list` at the moment `at` is within all limits.
InTime(list, at) ==
    /\ Signed(list)
    /\ at < list.exp + MaxFetch
    /\ list.trusted /\ ~ accredited /\ ~ outage =>
          at <= shown + Ttl \div 4 \/ at <= shown + MaxFetch

\* The lock admits one fetch, which lasts at most MaxFetch.
OneFetch ==
    /\ \A c, d \in Fetching : c = d
    /\ \A c \in Fetching : callers[c].at <= now /\ now <= callers[c].at + MaxFetch

\* What a fetch brought is one signed snapshot.
AnswerIsSigned ==
    \A c \in Callers : callers[c].pc = "fetched" =>
        /\ \A l, m \in callers[c].answer : l = m
        /\ \A l \in callers[c].answer :
              Signed(l) /\ AskedBefore(l, callers[c].at)

\* So is what is cached, and no fetch under way is older.
CacheIsSigned ==
    /\ \A s, t \in cached : s = t
    /\ \A s \in cached : /\ Signed(s.list) /\ AskedBefore(s.list, s.fetchedAt)
                         /\ s.fetchedAt <= now
                         /\ \A c \in Fetching : s.fetchedAt <= callers[c].at

DecisionsInTime ==
    /\ \A c \in Deciding : \A l \in callers[c].answer : InTime(l, now)
    /\ \A d \in decision : d.at = now /\ InTime(d.list, d.at)

TrustInv ==
    /\ since <= shown /\ shown <= now
    /\ \A l \in signed : Signed(l)
    /\ OneFetch
    /\ AnswerIsSigned
    /\ CacheIsSigned
    /\ DecisionsInTime

\* The types the arithmetic needs.
LEMMA Sorts ==
    ASSUME TypeOK
    PROVE  /\ now \in Nat /\ since \in Nat /\ shown \in Nat
           /\ Ttl \in Nat /\ Margin \in Nat /\ MaxFetch \in Nat
           /\ MaxTime \in Nat /\ MaxChanges \in Nat
           /\ Ttl \div 4 \in Nat
           /\ accredited \in BOOLEAN /\ outage \in BOOLEAN
           /\ \A c \in Callers :
                 /\ callers[c].at \in Nat
                 /\ callers[c].answer \in SUBSET TrustList
                 /\ callers[c] \in Caller
           /\ \A l \in TrustList :
                 l.iat \in Nat /\ l.exp \in Nat /\ l.trusted \in BOOLEAN
           /\ \A s \in cached : s.list \in TrustList /\ s.fetchedAt \in Nat
           /\ \A d \in decision : d.list \in TrustList /\ d.at \in Nat
  BY RegistryAssumption DEF TypeOK, Times, Caller, TrustList, Cached

\* A check that goes on with some lists, or ends without one.
LEMMA UseEffect ==
    ASSUME TypeOK, NEW c \in Callers, NEW lists \in SUBSET TrustList,
           Use(c, lists)
    PROVE  /\ callers' \in [Callers -> Caller]
           /\ \A d \in Callers : d # c => callers'[d] = callers[d]
           /\ callers'[c].pc \in {"idle", "deciding"}
           /\ callers'[c].pc = "deciding" =>
                 callers'[c].answer = lists /\ lists # {}
  BY RegistryAssumption DEF TypeOK, Use, Caller, Idle, Times

\* A check that begins, and a request that is answered.
LEMMA StartEffect ==
    ASSUME TypeOK, NEW c \in Callers, StartFetch(c)
    PROVE  /\ callers' \in [Callers -> Caller]
           /\ \A d \in Callers : d # c => callers'[d] = callers[d]
           /\ callers'[c].pc = "fetching" /\ callers'[c].at = now
<1>1. [Idle EXCEPT !.pc = "fetching", !.at = now] \in Caller
  <2>1. now \in Times
    BY RegistryAssumption DEF TypeOK, Times
  <2>. QED
    BY <2>1 DEF Caller, Idle
<1>2. /\ [Idle EXCEPT !.pc = "fetching", !.at = now].pc = "fetching"
      /\ [Idle EXCEPT !.pc = "fetching", !.at = now].at = now
  BY DEF Idle
<1>. QED
  BY <1>1, <1>2 DEF TypeOK, StartFetch

\* What the registry signs is a list that lives for Ttl.
LEMMA SnapshotType ==
    ASSUME NEW t \in 0 .. MaxTime, NEW b \in BOOLEAN
    PROVE  /\ Snapshot(t, b) \in TrustList
           /\ Snapshot(t, b).iat = t
           /\ Snapshot(t, b).exp = t + Ttl
           /\ Snapshot(t, b).trusted = b
<1>1. t \in Times /\ t + Ttl \in Times
  BY RegistryAssumption DEF Times
<1>. QED
  BY <1>1 DEF Snapshot, TrustList

\* The answer is one of the snapshots that were signed.
LEMMA ServeEffect ==
    ASSUME TypeOK, NEW c \in Callers, NEW list \in signed, Serve(c, list)
    PROVE  /\ callers' \in [Callers -> Caller]
           /\ \A d \in Callers : d # c => callers'[d] = callers[d]
           /\ callers'[c].pc = "fetched" /\ callers'[c].at = callers[c].at
           /\ callers'[c].answer = {list}
           /\ shown' = shown \/ shown' = now
<1>1. list \in TrustList
  BY DEF TypeOK
<1>. QED
  BY <1>1 DEF TypeOK, Serve, Caller

\* Every reachable state has its type: in particular no check decides without
\* a snapshot, however its fetch ended.
THEOREM TypeCorrect == Spec => []TypeOK
<1>. USE RegistryAssumption
<1>1. Init => TypeOK
  <2>1. Idle \in Caller /\ Idle.pc = "idle"
    BY DEF Caller, Idle, Times
  <2>2. Init => accredited \in BOOLEAN /\ outage \in BOOLEAN
    BY Zenon DEF Init
  <2>3. 0 \in 0 .. MaxTime /\ 0 \in 0 .. MaxChanges
    OBVIOUS
  <2>4. Snapshot(0, TRUE) \in TrustList
    BY <2>3, SnapshotType
  <2>. QED
    BY <2>1, <2>2, <2>3, <2>4 DEF Init, TypeOK
<1>2. TypeOK /\ [Next]_vars => TypeOK'
  <2>. SUFFICES ASSUME TypeOK, [Next]_vars PROVE TypeOK'
    OBVIOUS
  <2>1. CASE Tick
    <3>1. now + 1 \in 0 .. MaxTime /\ accredited \in BOOLEAN
      BY <2>1 DEF Tick, TypeOK
    <3>2. signed' \in SUBSET TrustList
      BY <2>1, <3>1, SnapshotType DEF Tick, TypeOK
    <3>. QED
      BY <2>1, <3>1, <3>2 DEF Tick, TypeOK
  <2>2. CASE ChangeAccreditation
    <3>1. accredited' \in BOOLEAN /\ outage' \in BOOLEAN
      BY <2>2, Zenon DEF ChangeAccreditation
    <3>2. since' \in 0 .. MaxTime /\ changes' \in 0 .. MaxChanges
      BY <2>2 DEF ChangeAccreditation, TypeOK
    <3>3. now \in 0 .. MaxTime /\ (~ accredited) \in BOOLEAN
      BY DEF TypeOK
    <3>4. Snapshot(now, ~ accredited) \in TrustList
      BY <3>3, SnapshotType
    <3>5. signed' \in SUBSET TrustList /\ shown' \in 0 .. MaxTime
      BY <2>2, <3>3, <3>4 DEF ChangeAccreditation, TypeOK
    <3>. QED
      BY <2>2, <3>1, <3>2, <3>5 DEF ChangeAccreditation, TypeOK
  <2>3. ASSUME NEW c \in Callers, NEW list \in signed, Serve(c, list)
        PROVE  TypeOK'
    BY <2>3, ServeEffect DEF Serve, TypeOK
  <2>4. ASSUME NEW c \in Callers, StartFetch(c)
        PROVE  TypeOK'
    BY <2>4, StartEffect DEF StartFetch, TypeOK, registry
  <2>5. ASSUME NEW c \in Callers, UseCached(c)
        PROVE  TypeOK'
    <3>1. PICK s \in cached : Use(c, {s.list})
      BY <2>5 DEF UseCached
    <3>2. {s.list} \in SUBSET TrustList
      BY DEF TypeOK, Cached
    <3>. QED
      BY <2>5, <3>1, <3>2, UseEffect DEF UseCached, TypeOK, registry
  <2>6. ASSUME NEW c \in Callers, FetchSucceeds(c)
        PROVE  TypeOK'
    <3>1. callers[c].answer \in SUBSET TrustList /\ callers[c].at \in Times
      BY DEF TypeOK, Caller
    <3>2. cached' \in SUBSET Cached
      BY <2>6, <3>1 DEF FetchSucceeds, Cached
    <3>. QED
      BY <2>6, <3>1, <3>2, UseEffect DEF FetchSucceeds, TypeOK, registry
  <2>7. ASSUME NEW c \in Callers, FetchFails(c)
        PROVE  TypeOK'
    <3>1. {s.list : s \in {x \in cached : StillValid(x, callers[c].at)}}
             \in SUBSET TrustList
      BY DEF TypeOK, Cached
    <3>. QED
      BY <2>7, <3>1, UseEffect DEF FetchFails, TypeOK, registry
  <2>8. ASSUME NEW c \in Callers, Decide(c)
        PROVE  TypeOK'
    <3>1. callers[c].answer \in SUBSET TrustList /\ now \in Times
      BY DEF TypeOK, Caller, Times
    <3>2. decision' \in SUBSET [list : TrustList, at : Times]
      BY <2>8, <3>1 DEF Decide
    <3>3. Idle \in Caller
      BY DEF Idle, Caller, Times
    <3>. QED
      BY <2>8, <3>2, <3>3 DEF Decide, TypeOK, registry, Idle
  <2>9. CASE UNCHANGED vars
    BY <2>9 DEF vars, registry, TypeOK
  <2>. QED
    BY <2>1, <2>2, <2>3, <2>4, <2>5, <2>6, <2>7, <2>8, <2>9 DEF Next
<1>. QED
  BY <1>1, <1>2, PTL DEF Spec

\* No step of a check takes the registry's past away: what was signed and what
\* was in time stays so while the clock stands and no news comes.
LEMMA SameNews ==
    ASSUME UNCHANGED <<now, registry>>, outage' = outage \/ outage'
    PROVE  /\ \A l : Signed(l) => Signed(l)'
           /\ \A l, at : InTime(l, at) => InTime(l, at)'
           /\ \A l, t : AskedBefore(l, t) => AskedBefore(l, t)'
  BY DEF Signed, InTime, AskedBefore, registry

\* Nor does an answer that hides the news: it puts off what is measured by it.
LEMMA LaterShown ==
    ASSUME TypeOK, TypeOK', UNCHANGED <<now, accredited, since, outage>>,
           shown <= shown'
    PROVE  \A l \in TrustList : \A t \in Nat :
              /\ Signed(l) => Signed(l)'
              /\ InTime(l, t) => InTime(l, t)'
              /\ AskedBefore(l, t) => AskedBefore(l, t)'
<1>1. shown \in Nat /\ shown' \in Nat /\ Ttl \div 4 \in Nat /\ MaxFetch \in Nat
  BY Sorts DEF TypeOK
<1>2. \A l : Signed(l) => Signed(l)'
  BY DEF Signed
<1>3. \A t, q \in Nat : t <= shown + q => t <= shown' + q
  <2>1. \A m, n, t, q \in Nat : m <= n /\ t <= m + q => t <= n + q
    OBVIOUS
  <2>. QED
    BY <1>1, <2>1
<1>. QED
  <2>. SUFFICES ASSUME NEW l \in TrustList, NEW t \in Nat
                PROVE  /\ InTime(l, t) => InTime(l, t)'
                       /\ AskedBefore(l, t) => AskedBefore(l, t)'
    BY <1>2
  <2>1. AskedBefore(l, t) => AskedBefore(l, t)'
    BY <1>1 DEF AskedBefore
  <2>2. InTime(l, t) => InTime(l, t)'
    <3>. SUFFICES ASSUME InTime(l, t), l.trusted, ~ accredited, ~ outage
                  PROVE  t <= shown' + Ttl \div 4 \/ t <= shown' + MaxFetch
      BY <1>2 DEF InTime
    <3>1. t <= shown + Ttl \div 4 \/ t <= shown + MaxFetch
      BY DEF InTime
    <3>. QED
      BY <1>1, <1>3, <3>1
  <2>. QED
    BY <2>1, <2>2

\* A check that goes on with lists that are in time, and holds no lock then.
LEMMA UseKeepsInv ==
    ASSUME TypeOK, TrustInv, NEW c \in Callers, NEW lists \in SUBSET TrustList,
           Use(c, lists), UNCHANGED <<now, registry, decision>>,
           outage' = outage \/ outage',
           \A l \in lists : InTime(l, now)',
           CacheIsSigned',
           cached' = cached \/ c \in Fetching
    PROVE  TrustInv'
<1>1. /\ \A d \in Callers : d # c => callers'[d] = callers[d]
      /\ callers'[c].pc \in {"idle", "deciding"}
      /\ callers'[c].pc = "deciding" => callers'[c].answer = lists
  BY UseEffect
<1>2. OneFetch'
  BY <1>1 DEF TrustInv, OneFetch, Fetching
<1>3. AnswerIsSigned'
  <2>. SUFFICES ASSUME NEW d \in Callers, callers'[d].pc = "fetched"
                PROVE  /\ \A l, m \in callers'[d].answer : l = m
                       /\ \A l \in callers'[d].answer :
                             Signed(l)' /\ AskedBefore(l, callers[d].at)'
                       /\ callers'[d].at = callers[d].at
    BY DEF AnswerIsSigned, AskedBefore
  <2>1. callers'[d] = callers[d] /\ callers[d].pc = "fetched"
    BY <1>1
  <2>. QED
    BY <2>1, SameNews DEF TrustInv, AnswerIsSigned
<1>4. DecisionsInTime'
  <2>1. \A d \in Deciding' : \A l \in callers'[d].answer : InTime(l, now)'
    BY <1>1, SameNews DEF TrustInv, DecisionsInTime, Deciding
  <2>2. \A d \in decision' : d.at = now' /\ InTime(d.list, d.at)'
    BY SameNews DEF TrustInv, DecisionsInTime
  <2>. QED
    BY <2>1, <2>2 DEF DecisionsInTime
<1>. QED
  BY <1>2, <1>3, <1>4, SameNews DEF TrustInv, registry

\* The invariant of the registry's cache.
THEOREM TrustSafe == Spec => []TrustInv
<1>. USE RegistryAssumption
<1>1. Init => TrustInv
  <2>. SUFFICES ASSUME Init PROVE TrustInv
    OBVIOUS
  <2>1. \A l \in signed : Signed(l)
    <3>1. Snapshot(0, TRUE).exp = 0 + Ttl /\ Snapshot(0, TRUE).iat = 0
      BY DEF Snapshot
    <3>2. signed = {Snapshot(0, TRUE)} /\ now = 0
      BY DEF Init
    <3>5. accredited
      BY Zenon DEF Init
    <3>6. 0 <= 0
      OBVIOUS
    <3>3. PICK first : first = Snapshot(0, TRUE)
      OBVIOUS
    <3>4. Signed(first)
      BY <3>1, <3>2, <3>3, <3>5, <3>6 DEF Signed
    <3>. QED
      BY <3>2, <3>3, <3>4
  <2>2. OneFetch /\ AnswerIsSigned /\ CacheIsSigned /\ DecisionsInTime
    BY DEF Init, OneFetch, AnswerIsSigned, CacheIsSigned, DecisionsInTime,
       Fetching, Deciding, Idle
  <2>. QED
    <3>1. since = 0 /\ shown = 0 /\ now = 0 /\ 0 <= 0
      BY DEF Init
    <3>. QED
      BY <2>1, <2>2, <3>1 DEF TrustInv
<1>2. TypeOK /\ TypeOK' /\ TrustInv /\ [Next]_vars => TrustInv'
  <2>. SUFFICES ASSUME TypeOK, TypeOK', TrustInv, [Next]_vars
                PROVE  TrustInv'
    OBVIOUS
  <2>1. CASE Tick
    <3>1. now' = now + 1 /\ now \in Nat /\ Deciding' = {} /\ decision' = {}
          /\ UNCHANGED <<accredited, since, shown, outage, cached, callers>>
      BY <2>1, Sorts DEF Tick, Deciding
    <3>2. \A l \in TrustList : Signed(l) => Signed(l)'
      BY <3>1, Sorts DEF Signed
    <3>3. OneFetch'
      BY <2>1, <3>1, Sorts DEF TrustInv, OneFetch, Fetching, Tick
    <3>4. AnswerIsSigned'
      BY <3>1, <3>2, Sorts DEF TrustInv, AnswerIsSigned, AskedBefore
    <3>5. CacheIsSigned'
      BY <3>1, <3>2, Sorts DEF TrustInv, CacheIsSigned, AskedBefore, Fetching
    <3>6. DecisionsInTime'
      BY <3>1 DEF DecisionsInTime
    <3>7. \A l \in signed' : Signed(l)'
      <4>0. PICK new : new = Snapshot(now + 1, accredited)
        OBVIOUS
      <4>1. /\ new = Snapshot(now + 1, accredited)
            /\ new.iat = now + 1 /\ new.exp = now + 1 + Ttl
            /\ new.trusted = accredited
        BY <4>0 DEF Snapshot
      <4>2. signed' = signed \cup {new}
        BY <2>1, <4>1 DEF Tick
      <4>3. Signed(new)'
        <5>1. accredited \in BOOLEAN
          BY DEF TypeOK
        <5>. QED
          BY <3>1, <4>1, <5>1, Sorts DEF Signed
      <4>4. signed \in SUBSET TrustList
        BY DEF TypeOK
      <4>. QED
        BY <3>2, <4>2, <4>3, <4>4 DEF TrustInv
    <3>. QED
      BY <3>1, <3>3, <3>4, <3>5, <3>6, <3>7, Sorts DEF TrustInv
  <2>2. CASE ChangeAccreditation
    <3>1. /\ since' = now /\ shown' = now /\ now \in Nat
          /\ accredited' = ~ accredited
          /\ UNCHANGED <<now, cached, callers, decision>>
      BY <2>2, Sorts DEF ChangeAccreditation
    <3>2. \A l : Signed(l) => Signed(l)'
      BY <3>1 DEF Signed
    <3>3. \A l : InTime(l, now) => InTime(l, now)'
      BY <3>1, <3>2, Sorts DEF InTime
    <3>4. \A l : \A t \in Nat : t <= now => AskedBefore(l, t)'
      BY <3>1 DEF AskedBefore
    <3>5. OneFetch'
      BY <3>1 DEF TrustInv, OneFetch, Fetching
    <3>6. AnswerIsSigned'
      <4>. SUFFICES ASSUME NEW c \in Callers, callers[c].pc = "fetched"
                    PROVE  /\ \A l, m \in callers[c].answer : l = m
                           /\ \A l \in callers[c].answer :
                                 Signed(l)' /\ AskedBefore(l, callers[c].at)'
        BY <3>1 DEF AnswerIsSigned, AskedBefore
      <4>1. callers[c].at \in Nat /\ callers[c].at <= now
        BY Sorts DEF TrustInv, OneFetch, Fetching
      <4>2. callers'[c].at = callers[c].at
        BY <3>1
      <4>. QED
        BY <3>2, <3>4, <4>1, <4>2 DEF TrustInv, AnswerIsSigned
    <3>7. CacheIsSigned'
      <4>1. \A s \in cached : s.fetchedAt \in Nat /\ s.fetchedAt <= now
        BY Sorts DEF TrustInv, CacheIsSigned
      <4>2. \A s \in cached : Signed(s.list)' /\ AskedBefore(s.list, s.fetchedAt)'
        BY <3>2, <3>4, <4>1 DEF TrustInv, CacheIsSigned
      <4>. QED
        BY <3>1, <4>1, <4>2 DEF TrustInv, CacheIsSigned, Fetching, AskedBefore
    <3>8. DecisionsInTime'
      BY <3>1, <3>3 DEF TrustInv, DecisionsInTime, Deciding
    <3>9. \A l \in signed' : Signed(l)'
      <4>0. PICK new : new = Snapshot(now, ~ accredited)
        OBVIOUS
      <4>1. /\ new = Snapshot(now, ~ accredited)
            /\ new.iat = now /\ new.exp = now + Ttl
        BY <4>0 DEF Snapshot
      <4>2. signed' = signed \cup {new}
        BY <2>2, <4>1 DEF ChangeAccreditation
      <4>3. Signed(new)'
        BY <3>1, <4>1, Sorts DEF Signed
      <4>. QED
        BY <3>2, <4>2, <4>3 DEF TrustInv
    <3>. QED
      BY <3>1, <3>5, <3>6, <3>7, <3>8, <3>9 DEF TrustInv
  <2>3. ASSUME NEW c \in Callers, NEW list \in signed, Serve(c, list)
        PROVE  TrustInv'
    <3>1. /\ \A d \in Callers : d # c => callers'[d] = callers[d]
          /\ callers'[c].pc = "fetched"
          /\ callers'[c].at = callers[c].at
          /\ callers'[c].answer = {list}
          /\ callers[c].pc = "fetching"
          /\ UNCHANGED <<now, accredited, since, signed, cached, outage, decision>>
          /\ list \in TrustList
      BY <2>3, ServeEffect DEF Serve, TypeOK
    <3>2. shown <= shown' /\ shown' <= now
      BY <2>3, ServeEffect, Sorts DEF TrustInv
    <3>3. \A l \in TrustList : \A t \in Nat :
             /\ Signed(l) => Signed(l)'
             /\ InTime(l, t) => InTime(l, t)'
             /\ AskedBefore(l, t) => AskedBefore(l, t)'
      BY <3>1, <3>2, LaterShown
    <3>4. OneFetch'
      BY <3>1 DEF TrustInv, OneFetch, Fetching
    <3>5. Signed(list)' /\ AskedBefore(list, callers[c].at)'
      <4>1. Signed(list)'
        BY <3>1, <3>3, Sorts DEF TrustInv
      <4>2. callers[c].at \in Nat /\ callers[c].at <= now
        BY <3>1, Sorts DEF TrustInv, OneFetch, Fetching
      <4>3. list.trusted /\ ~ accredited => shown' = now
        BY <2>3, <3>1, Sorts DEF Serve
      <4>. QED
        BY <3>1, <4>1, <4>2, <4>3 DEF AskedBefore
    <3>6. AnswerIsSigned'
      <4>. SUFFICES ASSUME NEW d \in Callers, callers'[d].pc = "fetched"
                    PROVE  /\ \A l, m \in callers'[d].answer : l = m
                           /\ \A l \in callers'[d].answer :
                                 Signed(l)' /\ AskedBefore(l, callers[d].at)'
                           /\ callers'[d].at = callers[d].at
        BY DEF AnswerIsSigned, AskedBefore
      <4>1. CASE d = c
        BY <3>1, <3>5, <4>1
      <4>2. CASE d # c
        <5>1. callers'[d] = callers[d] /\ callers[d].pc = "fetched"
          BY <3>1, <4>2
        <5>. QED
          BY <3>3, <5>1, Sorts DEF TrustInv, AnswerIsSigned
      <4>. QED
        BY <4>1, <4>2
    <3>7. CacheIsSigned'
      <4>1. \A s \in cached : Signed(s.list)' /\ AskedBefore(s.list, s.fetchedAt)'
        BY <3>3, Sorts DEF TrustInv, CacheIsSigned
      <4>2. \A d \in Fetching' : d \in Fetching /\ callers'[d].at = callers[d].at
        BY <3>1 DEF Fetching
      <4>. QED
        BY <3>1, <4>1, <4>2 DEF TrustInv, CacheIsSigned, AskedBefore
    <3>8. DecisionsInTime'
      <4>1. \A d \in Deciding' : d \in Deciding /\ callers'[d] = callers[d]
        BY <3>1 DEF Deciding
      <4>2. \A d \in Deciding : \A l \in callers[d].answer : InTime(l, now)'
        BY <3>1, <3>3, Sorts DEF TrustInv, DecisionsInTime, Deciding
      <4>3. \A d \in decision : InTime(d.list, d.at)'
        BY <3>3, Sorts DEF TrustInv, DecisionsInTime
      <4>. QED
        BY <3>1, <4>1, <4>2, <4>3 DEF TrustInv, DecisionsInTime
    <3>9. \A l \in signed' : Signed(l)'
      BY <3>1, <3>3, Sorts DEF TrustInv, TypeOK
    <3>10. since' <= shown' /\ shown' <= now'
      BY <3>1, <3>2, Sorts DEF TrustInv, TypeOK
    <3>. QED
      BY <3>4, <3>6, <3>7, <3>8, <3>9, <3>10 DEF TrustInv
  <2>4. ASSUME NEW c \in Callers, StartFetch(c)
        PROVE  TrustInv'
    <3>1. /\ \A d \in Callers : d # c => callers'[d] = callers[d]
          /\ callers'[c].pc = "fetching" /\ callers'[c].at = now
          /\ Fetching = {}
          /\ UNCHANGED <<now, registry, cached, outage, decision>>
      BY <2>4, StartEffect DEF StartFetch, LockFree
    <3>2. OneFetch'
      BY <3>1, Sorts DEF OneFetch, Fetching
    <3>3. AnswerIsSigned'
      BY <3>1, SameNews DEF TrustInv, AnswerIsSigned
    <3>4. CacheIsSigned'
      <4>1. \A d \in Fetching' : callers'[d].at = now
        BY <3>1 DEF Fetching
      <4>. QED
        BY <3>1, <4>1, SameNews DEF TrustInv, CacheIsSigned
    <3>5. DecisionsInTime'
      BY <3>1, SameNews DEF TrustInv, DecisionsInTime, Deciding
    <3>. QED
      BY <3>1, <3>2, <3>3, <3>4, <3>5, SameNews DEF TrustInv, registry
  <2>5. ASSUME NEW c \in Callers, UseCached(c)
        PROVE  TrustInv'
    <3>1. PICK s \in cached : ~ NeedsRefresh(s, now) /\ Use(c, {s.list})
      BY <2>5 DEF UseCached
    <3>2. UNCHANGED <<now, registry, cached, outage, decision>>
      BY <2>5 DEF UseCached
    <3>5. {s.list} \in SUBSET TrustList
      BY Sorts
    <3>3. InTime(s.list, now)
      <4>1. Signed(s.list) /\ AskedBefore(s.list, s.fetchedAt)
        BY DEF TrustInv, CacheIsSigned
      <4>2. s.list.exp - s.list.iat = Ttl
        BY <4>1, Sorts DEF Signed
      <4>3. /\ now < s.fetchedAt + Ttl \div 4
            /\ now + Margin < s.list.exp
        BY <3>1, <4>2, Sorts DEF NeedsRefresh
      <4>. QED
        BY <4>1, <4>3, Sorts DEF InTime, AskedBefore
    <3>4. InTime(s.list, now)' /\ CacheIsSigned'
      <4>1. Fetching' = {}
        <5>1. Fetching = {}
          BY <2>5 DEF UseCached, LockFree
        <5>. QED
          BY <3>1, <3>5, <5>1, UseEffect DEF Fetching
      <4>. QED
        BY <3>2, <3>3, <4>1, SameNews DEF TrustInv, CacheIsSigned
    <3>. QED
      BY <3>1, <3>2, <3>4, <3>5, UseKeepsInv
  <2>6. ASSUME NEW c \in Callers, FetchSucceeds(c)
        PROVE  TrustInv'
    <3>1. /\ callers[c].pc = "fetched"
          /\ UNCHANGED <<now, registry, outage, decision>>
          /\ Use(c, callers[c].answer)
          /\ callers[c].answer \in SUBSET TrustList
          /\ c \in Fetching
      BY <2>6, Sorts DEF FetchSucceeds, Fetching
    <3>2. \A l \in callers[c].answer :
             /\ Signed(l)
             /\ AskedBefore(l, callers[c].at)
             /\ callers[c].at < l.exp
      BY <2>6, <3>1 DEF FetchSucceeds, TrustInv, AnswerIsSigned
    <3>3. \A l \in callers[c].answer : InTime(l, now)
      <4>1. callers[c].at <= now /\ now <= callers[c].at + MaxFetch
        BY <3>1 DEF TrustInv, OneFetch
      <4>. QED
        BY <3>1, <3>2, <4>1, Sorts DEF InTime, AskedBefore
    <3>4. CacheIsSigned'
      <4>1. \A s \in cached' : /\ s.list \in callers[c].answer
                               /\ s.fetchedAt = callers[c].at
                               /\ s = [list |-> s.list, fetchedAt |-> s.fetchedAt]
        BY <2>6 DEF FetchSucceeds
      <4>2. \A s, t \in cached' : s = t
        BY <3>1, <4>1 DEF TrustInv, AnswerIsSigned
      <4>3. Fetching' = {}
        <5>1. \A d \in Fetching : d = c
          BY <3>1 DEF TrustInv, OneFetch
        <5>. QED
          BY <3>1, <5>1, UseEffect DEF Fetching
      <4>4. callers[c].at <= now
        BY <3>1 DEF TrustInv, OneFetch
      <4>5. \A at : at = callers[c].at =>
               \A l \in callers[c].answer : Signed(l)' /\ AskedBefore(l, at)'
        BY <3>1, <3>2, SameNews
      <4>6. \A s \in cached' : /\ Signed(s.list)'
                               /\ AskedBefore(s.list, s.fetchedAt)'
                               /\ s.fetchedAt <= now'
        BY <3>1, <4>1, <4>4, <4>5
      <4>. QED
        BY <4>2, <4>3, <4>6 DEF CacheIsSigned, AskedBefore
    <3>5. \A l \in callers[c].answer : InTime(l, now)'
      BY <3>1, <3>3, SameNews
    <3>. QED
      BY <3>1, <3>4, <3>5, UseKeepsInv
  <2>7. ASSUME NEW c \in Callers, FetchFails(c)
        PROVE  TrustInv'
    <3>. DEFINE lists == {s.list : s \in {x \in cached : StillValid(x, callers[c].at)}}
    <3>1. /\ c \in Fetching
          /\ outage'
          /\ Use(c, lists)
          /\ UNCHANGED <<now, registry, cached, decision>>
      BY <2>7 DEF FetchFails, Fetching
    <3>2. lists \in SUBSET TrustList
      BY Sorts
    <3>3. \A l \in lists : InTime(l, now)'
      <4>1. \A l \in lists : callers[c].at < l.exp /\ Signed(l)'
        BY <3>1, SameNews DEF StillValid, TrustInv, CacheIsSigned
      <4>. HIDE DEF lists
      <4>. QED
        BY <3>1, <3>2, <4>1, Sorts DEF TrustInv, OneFetch, InTime, registry
    <3>4. CacheIsSigned'
      <4>1. \A d \in Fetching' : d \in Fetching /\ callers'[d] = callers[d]
        BY <3>1, <3>2, UseEffect DEF Fetching
      <4>. QED
        BY <3>1, <4>1, SameNews DEF TrustInv, CacheIsSigned
    <3>. HIDE DEF lists
    <3>. QED
      BY <3>1, <3>2, <3>3, <3>4, UseKeepsInv
  <2>8. ASSUME NEW c \in Callers, Decide(c)
        PROVE  TrustInv'
    <3>1. /\ callers[c].pc = "deciding"
          /\ \A d \in Callers : d # c => callers'[d] = callers[d]
          /\ callers'[c].pc = "idle"
          /\ UNCHANGED <<now, registry, cached, outage>>
      BY <2>8 DEF Decide, TypeOK, Idle
    <3>2. \A d \in decision' : d.list \in callers[c].answer /\ d.at = now
      BY <2>8 DEF Decide
    <3>3. OneFetch'
      BY <3>1 DEF TrustInv, OneFetch, Fetching
    <3>4. AnswerIsSigned'
      BY <3>1, SameNews DEF TrustInv, AnswerIsSigned
    <3>5. CacheIsSigned'
      <4>1. \A d \in Fetching' : d \in Fetching /\ callers'[d] = callers[d]
        BY <3>1 DEF Fetching
      <4>. QED
        BY <3>1, <4>1, SameNews DEF TrustInv, CacheIsSigned
    <3>6. DecisionsInTime'
      BY <3>1, <3>2, SameNews, Sorts DEF TrustInv, DecisionsInTime, Deciding
    <3>. QED
      BY <3>1, <3>3, <3>4, <3>5, <3>6, SameNews DEF TrustInv, registry
  <2>9. CASE UNCHANGED vars
    BY <2>9 DEF vars, registry, TrustInv, OneFetch, AnswerIsSigned, CacheIsSigned,
         DecisionsInTime, Fetching, Deciding, Signed, InTime, AskedBefore
  <2>. QED
    BY <2>1, <2>2, <2>3, <2>4, <2>5, <2>6, <2>7, <2>8, <2>9 DEF Next
<1>. QED
  BY <1>1, <1>2, TypeCorrect, PTL DEF Spec

\* Nobody is trusted by an expired snapshot for longer than one failed fetch
\* takes, whatever fails and whenever (trust_list's fallback, check).
COROLLARY TrustFailsClosed == Spec => []FailsClosed
<1>1. TypeOK /\ TrustInv => FailsClosed
  BY DEF TrustInv, DecisionsInTime, InTime, FailsClosed
<1>. QED
  BY <1>1, TypeCorrect, TrustSafe, PTL

\* A suspension reaches every decision before the last older snapshot's expiry,
\* but for one fetch, and within a quarter of a lifetime, or one fetch, of the
\* last answer that hid it as long as no fetch fails (needs_refresh, and the
\* fallback of trust_list).
COROLLARY SuspensionsArrive == Spec => []SuspensionReaches
<1>1. TypeOK /\ TrustInv => SuspensionReaches
  <2>. SUFFICES ASSUME TypeOK, TrustInv, NEW d \in decision,
                       d.list.trusted, ~ accredited
                PROVE  /\ d.at < since + Ttl + MaxFetch
                       /\ ~ outage => \/ d.at <= shown + Ttl \div 4
                                      \/ d.at <= shown + MaxFetch
    BY DEF SuspensionReaches
  <2>1. InTime(d.list, d.at)
    BY DEF TrustInv, DecisionsInTime
  <2>2. d.list.exp = d.list.iat + Ttl /\ d.list.iat <= since
    BY <2>1 DEF InTime, Signed
  <2>3. /\ d.at \in Nat /\ d.list.iat \in Nat /\ since \in Nat
        /\ Ttl \in Nat /\ MaxFetch \in Nat
    BY Sorts
  <2>. QED
    BY <2>1, <2>2, <2>3 DEF InTime
<1>. QED
  BY <1>1, TypeCorrect, TrustSafe, PTL

\* Refreshes take effect in the order in which they were asked for: the lock
\* spans the fetch (trust_list).
THEOREM RefreshesInOrder == Spec => RefreshedInOrder
<1>1. TypeOK /\ TrustInv /\ [Next]_vars => [RefreshedInOrderStep]_vars
  <2>. SUFFICES ASSUME TypeOK, TrustInv, Next PROVE RefreshedInOrderStep
    OBVIOUS
  <2>1. CASE UNCHANGED cached
    BY <2>1, Sorts DEF RefreshedInOrderStep, TrustInv, CacheIsSigned
  <2>2. ASSUME NEW c \in Callers, FetchSucceeds(c)
        PROVE  RefreshedInOrderStep
    <3>1. \A t \in cached' : t.fetchedAt = callers[c].at
      BY <2>2 DEF FetchSucceeds
    <3>2. c \in Fetching
      BY <2>2 DEF FetchSucceeds, Fetching
    <3>. QED
      BY <3>1, <3>2 DEF RefreshedInOrderStep, TrustInv, CacheIsSigned
  <2>. QED
    BY <2>1, <2>2 DEF Next, Tick, ChangeAccreditation, Serve, UseCached,
       StartFetch, FetchFails, Decide
<1>. QED
  BY <1>1, TypeCorrect, TrustSafe, PTL DEF Spec, RefreshedInOrder
=============================================================================
