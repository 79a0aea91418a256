----------------------- MODULE CredentialServiceProofs -----------------------
(***************************************************************************)
(* A Credential Service for any parties, messages, calls and capacities:   *)
(* the jti cache lets a token through twice only once it had to forget it, *)
(* nothing is presented that was not granted, delivered and valid, and the *)
(* STS's own tokens verify.                                                *)
(***************************************************************************)
EXTENDS CredentialService, TLAPS, SequenceTheorems, FiniteSetTheorems, FunctionTheorems

-----------------------------------------------------------------------------
(* Bounded queues *)

\* s is the end of the history h, as long as n allows.
Slides(s, h, n) ==
    /\ Len(s) <= n /\ Len(s) <= Len(h)
    /\ Len(s) < Len(h) => Len(s) = n
    /\ \A i \in 1 .. Len(s) : s[i] = h[Len(h) - Len(s) + i]

\* u is s with x at its end and, when s has n elements, without its oldest.
Shifts(u, s, x, n) ==
    /\ Len(u) = IF Len(s) < n THEN Len(s) + 1 ELSE n
    /\ u[Len(u)] = x
    /\ \A i \in 1 .. Len(u) - 1 :
          /\ i + (Len(s) + 1 - Len(u)) \in 1 .. Len(s)
          /\ u[i] = s[i + (Len(s) + 1 - Len(u))]

\* Appending to a queue of at most n elements: the oldest leaves when it is
\* full.
LEMMA NewestFits ==
    ASSUME NEW S, NEW s \in Seq(S), NEW x \in S, NEW n \in Nat \ {0}, Len(s) <= n,
           NEW u, u = Newest(Append(s, x), n)
    PROVE  u \in Seq(S) /\ Shifts(u, s, x, n)
<1>. DEFINE m == Len(s)
            a == Append(s, x)
<1>1. /\ m \in Nat /\ m <= n
      /\ a \in Seq(S) /\ Len(a) = m + 1
      /\ \A i \in 1 .. m : a[i] = s[i]
      /\ a[m + 1] = x
      /\ \A i \in 1 .. m + 1 : a[i] \in S
  <2>1. m \in Nat
    BY LenProperties
  <2>2. a \in Seq(S) /\ Len(a) = m + 1 /\ a[m + 1] = x /\ \A i \in 1 .. m : a[i] = s[i]
    BY AppendProperties
  <2>3. \A i \in 1 .. m + 1 : a[i] \in S
    BY <2>2, ElementOfSeq
  <2>. QED
    BY <2>1, <2>2, <2>3
<1>0. u = Newest(a, n)
  BY DEF a
<1>. HIDE DEF m, a
<1>2. CASE m < n
  <2>1. m + 1 <= n
    BY <1>1, <1>2
  <2>2. u = a
    BY <1>0, <1>1, <2>1 DEF Newest
  <2>3. \A i \in 1 .. (m + 1) - 1 : i + (m + 1 - (m + 1)) = i /\ i \in 1 .. m
    BY <1>1
  <2>4. \A i \in 1 .. (m + 1) - 1 :
           i + (m + 1 - (m + 1)) \in 1 .. m /\ a[i] = s[i + (m + 1 - (m + 1))]
    BY <1>1, <2>3
  <2>. QED
    BY <1>1, <1>2, <2>2, <2>4 DEF m, a, Shifts
<1>3. CASE m = n
  <2>1. ~ (m + 1 <= n) /\ (m + 1) - n + 1 = 2
    BY <1>1, <1>3
  <2>2. u = SubSeq(a, 2, m + 1)
    BY <1>0, <1>1, <2>1 DEF Newest
  <2>3. 2 \in Int /\ m + 1 \in Int /\ \A i \in 2 .. m + 1 : a[i] \in S
    BY <1>1
  <2>4. /\ u \in Seq(S)
        /\ Len(u) = IF 2 <= m + 1 THEN (m + 1) - 2 + 1 ELSE 0
        /\ \A i \in 1 .. (m + 1) - 2 + 1 : u[i] = a[2 + i - 1]
    BY <2>2, <2>3, SubSeqProperties
  <2>5. (IF 2 <= m + 1 THEN (m + 1) - 2 + 1 ELSE 0) = n /\ (m + 1) - 2 + 1 = n
    BY <1>1, <1>3
  <2>6. Len(u) = n
    BY <2>4, <2>5
  <2>7. n \in 1 .. (m + 1) - 2 + 1 /\ 2 + n - 1 = m + 1
    BY <1>1, <1>3
  <2>8. u[n] = x
    BY <1>1, <2>4, <2>7
  <2>9. ASSUME NEW i \in 1 .. n - 1
        PROVE  i + (m + 1 - n) \in 1 .. m /\ u[i] = s[i + (m + 1 - n)]
    <3>1. /\ i \in 1 .. (m + 1) - 2 + 1 /\ 2 + i - 1 = i + 1
          /\ i + (m + 1 - n) = i + 1 /\ i + 1 \in 1 .. m
      BY <1>1, <1>3
    <3>2. u[i] = a[i + 1]
      BY <2>4, <3>1
    <3>. QED
      BY <1>1, <3>1, <3>2
  <2>10. ~ (m < n)
    BY <1>1, <1>3
  <2>. QED
    BY <2>4, <2>6, <2>8, <2>9, <2>10 DEF m, a, Shifts
<1>. QED
  BY <1>1, <1>2, <1>3

\* What such a queue holds, it held before or was just given.
LEMMA NewestElements ==
    ASSUME NEW S, NEW s \in Seq(S), NEW x \in S, NEW n \in Nat \ {0}, Len(s) <= n,
           NEW u, u = Newest(Append(s, x), n)
    PROVE  /\ u \in Seq(S)
           /\ Len(u) <= n
           /\ \A i \in DOMAIN u : u[i] = x \/ \E j \in DOMAIN s : u[i] = s[j]
<1>1. /\ u \in Seq(S)
      /\ Len(u) = IF Len(s) < n THEN Len(s) + 1 ELSE n
      /\ u[Len(u)] = x
      /\ \A i \in 1 .. Len(u) - 1 :
            /\ i + (Len(s) + 1 - Len(u)) \in 1 .. Len(s)
            /\ u[i] = s[i + (Len(s) + 1 - Len(u))]
  <2>1. u \in Seq(S) /\ Shifts(u, s, x, n)
    BY NewestFits
  <2>. QED
    BY <2>1 DEF Shifts
<1>2. /\ Len(s) \in Nat /\ DOMAIN s = 1 .. Len(s)
      /\ Len(u) \in Nat /\ DOMAIN u = 1 .. Len(u)
  BY <1>1, LenProperties
<1>3. Len(u) <= n
  BY <1>1, <1>2
<1>4. ASSUME NEW i \in DOMAIN u
      PROVE  u[i] = x \/ \E j \in DOMAIN s : u[i] = s[j]
  <2>1. CASE i = Len(u)
    BY <1>1, <2>1
  <2>2. CASE i # Len(u)
    <3>1. i \in 1 .. Len(u) - 1
      BY <1>2, <2>2
    <3>. QED
      BY <1>1, <1>2, <3>1
  <2>. QED
    BY <2>1, <2>2
<1>. QED
  BY <1>1, <1>3, <1>4

\* A queue and its history grow together.
LEMMA AppendSlides ==
    ASSUME NEW S, NEW s \in Seq(S), NEW h \in Seq(S), NEW x \in S,
           NEW n \in Nat \ {0}, Slides(s, h, n),
           NEW u, u = Newest(Append(s, x), n)
    PROVE  Slides(u, Append(h, x), n)
<1>. DEFINE g == Append(h, x)
            m == Len(s)
            k == Len(h)
            l == Len(u)
<1>1. /\ m \in Nat /\ k \in Nat /\ m <= n /\ m <= k /\ (m < k => m = n)
      /\ \A i \in 1 .. m : s[i] = h[k - m + i]
  BY LenProperties DEF Slides
<1>2. /\ u \in Seq(S)
      /\ l = IF m < n THEN m + 1 ELSE n
      /\ u[l] = x
      /\ \A i \in 1 .. l - 1 : i + (m + 1 - l) \in 1 .. m /\ u[i] = s[i + (m + 1 - l)]
  <2>1. u \in Seq(S) /\ Shifts(u, s, x, n)
    BY <1>1, NewestFits
  <2>. QED
    BY <2>1 DEF Shifts
<1>3. Len(g) = k + 1 /\ g[k + 1] = x /\ \A i \in 1 .. k : g[i] = h[i]
  BY AppendProperties
<1>. HIDE DEF g, m, k, l
<1>4. l \in Nat \ {0} /\ l <= n /\ l <= k + 1 /\ (l < k + 1 => l = n)
  BY <1>1, <1>2
<1>5. ASSUME NEW i \in 1 .. l PROVE u[i] = g[(k + 1) - l + i]
  <2>1. CASE i = l
    <3>1. (k + 1) - l + i = k + 1
      BY <1>1, <1>4, <2>1
    <3>. QED
      BY <1>2, <1>3, <2>1, <3>1
  <2>2. CASE i # l
    <3>. DEFINE j == i + (m + 1 - l)
    <3>1. i \in 1 .. l - 1
      BY <1>4, <2>2
    <3>2. j \in 1 .. m /\ u[i] = s[j]
      BY <1>2, <3>1
    <3>3. k - m + j = (k + 1) - l + i /\ k - m + j \in 1 .. k
      BY <1>1, <1>4, <3>2
    <3>. HIDE DEF j
    <3>4. u[i] = h[k - m + j]
      BY <1>1, <3>2
    <3>. QED
      BY <1>3, <3>3, <3>4
  <2>. QED
    BY <2>1, <2>2
<1>6. Slides(u, g, n)
  BY <1>3, <1>4, <1>5 DEF Slides, l
<1>. QED
  BY <1>6 DEF g

-----------------------------------------------------------------------------
(* The inductive invariant *)

\* The jti cache is the end of what was accepted.
Remembers == Slides(seen, accepted, MaxSeenJti)

StoresBounded == Len(batches) <= MaxBatches /\ Len(offers) <= MaxOffers

\* Tokens of the STS nest grants to the party that will present them, and have
\* numbers of their own.
TokensMinted ==
    /\ IsFiniteSet(minted)
    /\ \A t \in minted :
          /\ t.iss = Sts
          /\ t.jti \in 1 .. Jtis + MaxMinted
          /\ \A nested \in t.token : /\ nested.iss = Sts
                                     /\ nested.exp = t.exp
                                     /\ nested.aud = Presenter(t.aud)

\* A nested token that names the STS as its issuer is one the STS minted.
CallsGranted ==
    \A c \in calls :
        /\ c.token.jti \in 0 .. Jtis + MaxMinted
        /\ \A nested \in c.token.token : nested.iss = Sts => nested \in Grants

\* What is stored passed the checks of the Storage API.
BatchesSound ==
    \A i \in DOMAIN batches : \A vc \in batches[i].credentials :
        vc.proof /\ vc.typed /\ vc.own /\ vc.issuer \in Trusted

ServiceInv ==
    /\ TypeOK
    /\ Remembers
    /\ StoresBounded
    /\ TokensMinted
    /\ CallsGranted
    /\ BatchesSound
    /\ ReplayNeedsEviction
    /\ PresentedWasGranted
    /\ PresentedIsSound

\* A fresh Credential Service has accepted, minted and stored nothing.
LEMMA InitService == Init => ServiceInv
<1>. SUFFICES ASSUME Init PROVE ServiceInv
  OBVIOUS
<1>. USE CredentialServiceAssumption
<1>1. \A S : << >> \in Seq(S)
  BY EmptySeq
<1>2. Len(<< >>) = 0 /\ DOMAIN << >> = {}
  OBVIOUS
<1>3. TypeOK
  BY <1>1 DEF Init, TypeOK
<1>4. Remembers /\ StoresBounded
  BY <1>2 DEF Init, Remembers, Slides, StoresBounded
<1>5. TokensMinted
  BY FS_EmptySet DEF Init, TokensMinted
<1>6. /\ CallsGranted /\ BatchesSound /\ ReplayNeedsEviction
      /\ PresentedWasGranted /\ PresentedIsSound
  BY <1>2 DEF Init, CallsGranted, BatchesSound, ReplayNeedsEviction,
              PresentedWasGranted, PresentedIsSound
<1>. QED
  BY <1>3, <1>4, <1>5, <1>6 DEF ServiceInv

\* What a caller can send.
LEMMA SendableFits ==
    ASSUME ServiceInv, NEW token \in Sendable
    PROVE  /\ token \in IdToken
           /\ token.jti \in 0 .. Jtis + MaxMinted
           /\ \A nested \in token.token : nested.iss = Sts => nested \in Grants
<1>. USE CredentialServiceAssumption
<1>1. now \in Nat /\ now + TokenTtl \in Times /\ minted \in SUBSET IdToken
  BY DEF ServiceInv, TypeOK, Times
<1>2. Grants \in SUBSET AccessToken
  BY <1>1 DEF Grants, IdToken
<1>3. CASE token \in minted
  <2>1. token.jti \in 0 .. Jtis + MaxMinted
    BY <1>3 DEF ServiceInv, TokensMinted
  <2>2. \A nested \in token.token : nested \in Grants
    BY <1>3 DEF Grants
  <2>. QED
    BY <1>1, <1>3, <2>1, <2>2
<1>4. ASSUME NEW p \in Parties,
             token \in [iss : {p}, aud : {Self}, exp : {now + TokenTtl},
                       jti : {NoJti} \cup 1 .. Jtis,
                       token : {{}} \cup {{n} : n \in Nestable(p)}]
      PROVE  /\ token \in IdToken
             /\ token.jti \in 0 .. Jtis + MaxMinted
             /\ \A nested \in token.token : nested.iss = Sts => nested \in Grants
  <2>. DEFINE own == [iss |-> p, aud |-> p, types |-> Types, exp |-> now + TokenTtl]
  <2>1. own \in AccessToken /\ own.iss = p /\ p # Sts
    BY <1>1 DEF AccessToken, Signers
  <2>2. Nestable(p) = Grants \cup {own}
    BY DEF Nestable
  <2>. HIDE DEF own
  <2>3. \A nested \in token.token : nested \in Grants \cup {own}
    BY <1>4, <2>2
  <2>4. /\ token.iss = p /\ token.aud = Self /\ token.exp = now + TokenTtl
        /\ token.jti \in {0} \cup 1 .. Jtis
    BY <1>4 DEF NoJti
  <2>5. token.token \in SUBSET AccessToken
    BY <1>2, <2>1, <2>3
  <2>6. token = [iss |-> token.iss, aud |-> token.aud, exp |-> token.exp,
                 jti |-> token.jti, token |-> token.token]
    BY <1>4
  <2>7. token \in IdToken
    BY <1>1, <2>4, <2>5, <2>6 DEF IdToken, Signers
  <2>. QED
    BY <2>1, <2>3, <2>4, <2>7
<1>. QED
  BY <1>3, <1>4 DEF Sendable

\* Time alone changes nothing but the clock.
LEMMA TickStep ==
    ASSUME ServiceInv, Tick
    PROVE  ServiceInv'
<1>. USE CredentialServiceAssumption
<1>1. TypeOK'
  BY DEF ServiceInv, TypeOK, Tick
<1>2. UNCHANGED <<seen, batches, offers, minted, calls, accepted, presented>>
  BY DEF Tick
<1>. QED
  BY <1>1, <1>2 DEF ServiceInv, Remembers, StoresBounded, TokensMinted, CallsGranted,
                    BatchesSound, ReplayNeedsEviction, PresentedWasGranted,
                    PresentedIsSound, Grants

\* The STS mints a token.
LEMMA IssueStep ==
    ASSUME ServiceInv, NEW audience \in Parties \cup {Self}, NEW types \in SUBSET Types,
           IssueToken(audience, types)
    PROVE  ServiceInv'
<1>. USE CredentialServiceAssumption
<1>. DEFINE n == Cardinality(minted)
            nested == [iss |-> Sts, aud |-> Presenter(audience), types |-> types,
                       exp |-> now + TokenTtl]
            inner == IF types = {} THEN {} ELSE {nested}
            new == [iss |-> Sts, aud |-> audience, exp |-> now + TokenTtl,
                    jti |-> Jtis + n + 1, token |-> inner]
<1>1. /\ UNCHANGED <<now, seen, batches, offers, calls, accepted, presented>>
      /\ minted' = minted \cup {new}
      /\ n < MaxMinted
  BY DEF IssueToken
<1>2. n \in Nat /\ Jtis + n + 1 \in 1 .. Jtis + MaxMinted /\ Jtis + n + 1 \in Nat
  <2>1. n \in Nat
    BY FS_CardinalityType DEF ServiceInv, TokensMinted
  <2>. HIDE DEF n
  <2>. QED
    BY <1>1, <2>1
<1>. HIDE DEF n
<1>3. now + TokenTtl \in Times
  BY DEF ServiceInv, TypeOK, Times
<1>4. Presenter(audience) \in Signers
  BY DEF Presenter, Signers
<1>5. inner \in SUBSET AccessToken
  BY <1>3, <1>4 DEF AccessToken, Signers
<1>6. \A q \in inner : q.iss = Sts /\ q.exp = now + TokenTtl /\ q.aud = Presenter(audience)
  OBVIOUS
<1>. HIDE DEF inner
<1>7. /\ new \in IdToken
      /\ new.iss = Sts /\ new.jti \in 1 .. Jtis + MaxMinted /\ new.token = inner
      /\ new.exp = now + TokenTtl /\ new.aud = audience
  BY <1>2, <1>3, <1>5 DEF IdToken, Signers
<1>. HIDE DEF new
<1>8. TypeOK'
  BY <1>1, <1>7 DEF ServiceInv, TypeOK
<1>9. TokensMinted'
  <2>1. IsFiniteSet(minted \cup {new})
    BY FS_AddElement DEF ServiceInv, TokensMinted
  <2>2. ASSUME NEW t \in minted'
        PROVE  /\ t.iss = Sts
               /\ t.jti \in 1 .. Jtis + MaxMinted
               /\ \A q \in t.token : q.iss = Sts /\ q.exp = t.exp /\ q.aud = Presenter(t.aud)
    <3>1. CASE t \in minted
      BY <3>1 DEF ServiceInv, TokensMinted
    <3>2. CASE t = new
      BY <1>6, <1>7, <3>2
    <3>. QED
      BY <1>1, <3>1, <3>2
  <2>. QED
    BY <1>1, <2>1, <2>2 DEF TokensMinted
<1>10. Grants \subseteq Grants'
  BY <1>1 DEF Grants
<1>11. CallsGranted'
  BY <1>1, <1>10 DEF ServiceInv, CallsGranted
<1>12. PresentedWasGranted'
  BY <1>1 DEF ServiceInv, PresentedWasGranted
<1>. QED
  BY <1>1, <1>8, <1>9, <1>11, <1>12 DEF ServiceInv, Remembers, StoresBounded,
     BatchesSound, ReplayNeedsEviction, PresentedIsSound

\* A call comes in.
LEMMA ArriveStep ==
    ASSUME ServiceInv, NEW id \in Calls, NEW token \in Sendable,
           NEW api \in {"presentation", "storage", "offer"}, Arrive(id, api, token)
    PROVE  ServiceInv'
<1>. DEFINE new == [id |-> id, pc |-> "resolving", api |-> api, token |-> token]
<1>1. /\ UNCHANGED <<now, seen, batches, offers, minted, accepted, presented>>
      /\ calls' = calls \cup {new}
      /\ \A c \in calls : c.id # id
  BY DEF Arrive
<1>2. /\ token \in IdToken
      /\ token.jti \in 0 .. Jtis + MaxMinted
      /\ \A nested \in token.token : nested.iss = Sts => nested \in Grants
  BY SendableFits
<1>3. new \in Call /\ new.id = id /\ new.token = token
  BY <1>2 DEF Call
<1>. HIDE DEF new
<1>4. TypeOK'
  BY <1>1, <1>3 DEF ServiceInv, TypeOK
<1>5. CallsGranted'
  BY <1>1, <1>2, <1>3 DEF ServiceInv, CallsGranted, Grants
<1>. QED
  BY <1>1, <1>4, <1>5 DEF ServiceInv, Remembers, StoresBounded, TokensMinted,
     BatchesSound, ReplayNeedsEviction, PresentedWasGranted, PresentedIsSound

\* A call that ends without a trace.
LEMMA RefuseStep ==
    ASSUME ServiceInv, NEW c \in calls, Refuse(c)
    PROVE  ServiceInv'
<1>1. /\ UNCHANGED <<now, seen, batches, offers, minted, accepted, presented>>
      /\ calls' = calls \ {c}
  BY DEF Refuse
<1>2. TypeOK'
  BY <1>1 DEF ServiceInv, TypeOK
<1>. QED
  BY <1>1, <1>2 DEF ServiceInv, Remembers, StoresBounded, TokensMinted, CallsGranted,
     BatchesSound, ReplayNeedsEviction, PresentedWasGranted, PresentedIsSound, Grants

\* A token that is not in the cache was accepted MaxSeenJti tokens ago, if ever.
LEMMA FreshIsFar ==
    ASSUME NEW S, NEW s \in Seq(S), NEW h \in Seq(S), NEW x \in S,
           NEW n \in Nat \ {0}, Slides(s, h, n), x \notin Elements(s),
           NEW i \in 1 .. Len(h), h[i] = x
    PROVE  Len(h) + 1 - i > n
<1>. DEFINE m == Len(s)
            k == Len(h)
            j == i - (k - m)
<1>1. m \in Nat /\ k \in Nat /\ DOMAIN s = 1 .. m /\ i \in 1 .. k
  BY LenProperties
<1>2. m <= k /\ (m < k => m = n) /\ \A q \in 1 .. m : s[q] = h[k - m + q]
  BY DEF Slides
<1>. HIDE DEF m, k
<1>3. ~ (j \in 1 .. m)
  <2>1. SUFFICES ASSUME j \in 1 .. m PROVE FALSE
    OBVIOUS
  <2>2. k - m + j = i
    BY <1>1
  <2>3. s[j] = h[i]
    BY <1>2, <2>1, <2>2
  <2>. QED
    BY <1>1, <2>1, <2>3 DEF Elements
<1>4. i <= k - m
  BY <1>1, <1>2, <1>3
<1>5. m < k
  BY <1>1, <1>4
<1>. QED
  BY <1>1, <1>2, <1>4, <1>5 DEF k

\* The token is valid now and not a replay.
LEMMA VerifyStep ==
    ASSUME ServiceInv, NEW c \in calls, VerifyBearerToken(c)
    PROVE  ServiceInv'
<1>. USE CredentialServiceAssumption
<1>. DEFINE done == [c EXCEPT !.pc = "verified"]
            J == 1 .. Jtis + MaxMinted
<1>1. /\ UNCHANGED <<now, batches, offers, minted, presented>>
      /\ calls' = (calls \ {c}) \cup {done}
      /\ CheckReplay(c.token.jti)
  BY DEF VerifyBearerToken
<1>2. c \in Call /\ done \in Call /\ done.id = c.id /\ done.token = c.token
  BY DEF ServiceInv, TypeOK, Call
<1>. HIDE DEF done
<1>3. CallsGranted'
  BY <1>1, <1>2 DEF ServiceInv, CallsGranted, Grants
<1>4. /\ calls' \in SUBSET Call
      /\ \A a, b \in calls' : a.id = b.id => a = b
  BY <1>1, <1>2 DEF ServiceInv, TypeOK
<1>5. seen \in Seq(J) /\ accepted \in Seq(J)
  BY DEF ServiceInv, TypeOK
<1>6. CASE c.token.jti = NoJti
  <2>1. UNCHANGED <<seen, accepted>>
    BY <1>1, <1>6 DEF CheckReplay
  <2>. QED
    BY <1>1, <1>3, <1>4, <2>1 DEF ServiceInv, TypeOK, Remembers, StoresBounded,
       TokensMinted, BatchesSound, ReplayNeedsEviction, PresentedWasGranted,
       PresentedIsSound
<1>7. CASE c.token.jti # NoJti
  <2>. DEFINE x == c.token.jti
  <2>1. x \in J
    BY <1>7 DEF ServiceInv, CallsGranted, NoJti
  <2>2. /\ x \notin Elements(seen)
        /\ seen' = Newest(Append(seen, x), MaxSeenJti)
        /\ accepted' = Append(accepted, x)
    BY <1>1, <1>7 DEF CheckReplay, Remember
  <2>. HIDE DEF x, J
  <2>3. Slides(seen, accepted, MaxSeenJti) /\ Len(seen) <= MaxSeenJti
    BY DEF ServiceInv, Remembers, Slides
  <2>4. seen' \in Seq(J)
    BY <1>5, <2>1, <2>2, <2>3, NewestElements
  <2>5. Remembers'
    BY <1>5, <2>1, <2>2, <2>3, AppendSlides DEF Remembers
  <2>6. /\ accepted' \in Seq(J)
        /\ Len(accepted') = Len(accepted) + 1
        /\ accepted'[Len(accepted) + 1] = x
        /\ \A i \in 1 .. Len(accepted) : accepted'[i] = accepted[i]
    BY <1>5, <2>1, <2>2, AppendProperties
  <2>7. /\ DOMAIN accepted = 1 .. Len(accepted) /\ Len(accepted) \in Nat
        /\ DOMAIN accepted' = 1 .. Len(accepted) + 1
    BY <1>5, <2>6, LenProperties
  <2>8. ReplayNeedsEviction'
    <3>1. ASSUME NEW i \in DOMAIN accepted', NEW j \in DOMAIN accepted',
                 i < j, accepted'[i] = accepted'[j]
          PROVE  j - i > MaxSeenJti
      <4>1. i \in 1 .. Len(accepted)
        BY <2>7, <3>1
      <4>2. CASE j \in 1 .. Len(accepted)
        <5>1. accepted[i] = accepted[j]
          BY <2>6, <3>1, <4>1, <4>2
        <5>2. i \in DOMAIN accepted /\ j \in DOMAIN accepted
          BY <2>7, <4>1, <4>2
        <5>3. ReplayNeedsEviction
          BY DEF ServiceInv
        <5>. QED
          BY <3>1, <5>1, <5>2, <5>3 DEF ReplayNeedsEviction
      <4>3. CASE j = Len(accepted) + 1
        <5>1. accepted[i] = x
          BY <2>6, <3>1, <4>1, <4>3
        <5>2. Len(accepted) + 1 - i > MaxSeenJti
          BY <1>5, <2>1, <2>2, <2>3, <4>1, <5>1, FreshIsFar
        <5>. QED
          BY <2>7, <4>1, <4>3, <5>2
      <4>. QED
        BY <2>7, <4>2, <4>3
    <3>. QED
      BY <3>1 DEF ReplayNeedsEviction
  <2>9. TypeOK'
    BY <1>1, <1>4, <2>4, <2>6 DEF ServiceInv, TypeOK, J
  <2>. QED
    BY <1>1, <1>3, <2>5, <2>8, <2>9 DEF ServiceInv, StoresBounded, TokensMinted,
       BatchesSound, PresentedWasGranted, PresentedIsSound
<1>. QED
  BY <1>6, <1>7

\* A presentation is made.
LEMMA QueryStep ==
    ASSUME ServiceInv, NEW c \in calls, NEW types \in SUBSET Types,
           PresentationQuery(c, types)
    PROVE  ServiceInv'
<1>. USE CredentialServiceAssumption
<1>1. /\ UNCHANGED <<now, seen, batches, offers, minted, accepted>>
      /\ calls' = calls \ {c}
      /\ presented' = Presentation(c.token.iss, types \cap Granted(c.token))
      /\ \A nested \in c.token.token : NestedValid(nested, c.token.iss)
  BY DEF PresentationQuery
<1>2. c.token \in IdToken /\ c.token.iss \in Signers
  BY DEF ServiceInv, TypeOK, Call, IdToken
<1>3. now \in Times /\ batches \in Seq(Messages)
  BY DEF ServiceInv, TypeOK, Times
<1>4. ASSUME NEW p \in presented'
      PROVE  \E i \in DOMAIN batches : \E vc \in batches[i].credentials :
                /\ p = [to |-> c.token.iss, credential |-> vc,
                        status |-> batches[i].status, at |-> now]
                /\ batches[i].status = "ISSUED"
                /\ now < vc.exp
                /\ vc.type \in types \cap Granted(c.token)
  BY <1>1, <1>4 DEF Presentation, Held, Presentable, Elements
<1>5. ASSUME NEW p \in presented'
      PROVE  /\ p \in [to : Signers, credential : Credential,
                       status : {"ISSUED", "REJECTED"}, at : Times]
             /\ p.status = "ISSUED"
             /\ p.credential.issuer \in Trusted
             /\ p.credential.proof /\ p.credential.typed /\ p.credential.own
             /\ p.at < p.credential.exp
             /\ \E t \in minted' : \E nested \in t.token :
                   /\ nested.aud = p.to
                   /\ p.credential.type \in nested.types
                   /\ p.at < nested.exp
  <2>1. PICK i \in DOMAIN batches : \E vc \in batches[i].credentials :
                /\ p = [to |-> c.token.iss, credential |-> vc,
                        status |-> batches[i].status, at |-> now]
                /\ batches[i].status = "ISSUED"
                /\ now < vc.exp
                /\ vc.type \in types \cap Granted(c.token)
    BY <1>4
  <2>2. PICK vc \in batches[i].credentials :
                /\ p = [to |-> c.token.iss, credential |-> vc,
                        status |-> batches[i].status, at |-> now]
                /\ batches[i].status = "ISSUED"
                /\ now < vc.exp
                /\ vc.type \in types \cap Granted(c.token)
    BY <2>1
  <2>3. /\ p.to = c.token.iss /\ p.credential = vc /\ p.status = "ISSUED" /\ p.at = now
        /\ p = [to |-> c.token.iss, credential |-> vc, status |-> "ISSUED", at |-> now]
    BY <2>2
  <2>4. batches[i] \in Messages
    BY <1>3, ElementOfSeq, LenProperties
  <2>5. vc \in Credential
    BY <2>4 DEF CredentialMessage
  <2>6. vc.issuer \in Trusted /\ vc.proof /\ vc.typed /\ vc.own
    BY DEF ServiceInv, BatchesSound
  <2>7. PICK nested \in c.token.token : vc.type \in nested.types
    BY <2>2 DEF Granted
  <2>8. nested.iss = Sts /\ nested.exp > now /\ nested.aud = c.token.iss
    BY <1>1 DEF NestedValid
  <2>9. nested \in Grants
    BY <2>8 DEF ServiceInv, CallsGranted
  <2>10. PICK t \in minted : nested \in t.token
    BY <2>9 DEF Grants
  <2>11. nested.exp \in Times
    BY <1>2 DEF IdToken, AccessToken
  <2>12. now < nested.exp
    BY <1>3, <2>8, <2>11 DEF Times
  <2>13. p \in [to : Signers, credential : Credential,
                status : {"ISSUED", "REJECTED"}, at : Times]
    BY <1>2, <1>3, <2>3, <2>5
  <2>14. \E t2 \in minted' : \E nested2 \in t2.token :
                   /\ nested2.aud = p.to
                   /\ p.credential.type \in nested2.types
                   /\ p.at < nested2.exp
    BY <1>1, <2>3, <2>7, <2>8, <2>10, <2>12
  <2>. QED
    BY <2>2, <2>3, <2>6, <2>13, <2>14
<1>6. TypeOK'
  <2>1. presented' \in SUBSET [to : Signers, credential : Credential,
                               status : {"ISSUED", "REJECTED"}, at : Times]
    BY <1>5
  <2>. QED
    BY <1>1, <2>1 DEF ServiceInv, TypeOK
<1>7. PresentedWasGranted'
  BY <1>5 DEF PresentedWasGranted
<1>8. PresentedIsSound'
  BY <1>5 DEF PresentedIsSound
<1>. QED
  BY <1>1, <1>6, <1>7, <1>8 DEF ServiceInv, Remembers, StoresBounded, TokensMinted,
     CallsGranted, BatchesSound, ReplayNeedsEviction, Grants

\* A message is stored.
LEMMA StorageStep ==
    ASSUME ServiceInv, NEW c \in calls, NEW message \in Messages,
           StorageWrite(c, message)
    PROVE  ServiceInv'
<1>. USE CredentialServiceAssumption
<1>1. /\ UNCHANGED <<now, seen, offers, minted, accepted, presented>>
      /\ calls' = calls \ {c}
      /\ batches' = Newest(Append(batches, message), MaxBatches)
      /\ \A vc \in message.credentials :
            vc.proof /\ vc.typed /\ vc.own /\ vc.issuer \in Trusted
  BY DEF StorageWrite, Stored, ProofVerifies, ClaimsHold
<1>2. batches \in Seq(Messages) /\ Len(batches) <= MaxBatches
  BY DEF ServiceInv, TypeOK, StoresBounded
<1>3. /\ batches' \in Seq(Messages)
      /\ Len(batches') <= MaxBatches
      /\ \A i \in DOMAIN batches' :
            batches'[i] = message \/ \E j \in DOMAIN batches : batches'[i] = batches[j]
  BY <1>1, <1>2, NewestElements
<1>4. BatchesSound'
  BY <1>1, <1>3 DEF ServiceInv, BatchesSound
<1>5. TypeOK'
  BY <1>1, <1>3 DEF ServiceInv, TypeOK
<1>. QED
  BY <1>1, <1>3, <1>4, <1>5 DEF ServiceInv, Remembers, StoresBounded, TokensMinted,
     CallsGranted, ReplayNeedsEviction, PresentedWasGranted, PresentedIsSound, Grants

\* An offer is recorded.
LEMMA OfferStep ==
    ASSUME ServiceInv, NEW c \in calls, NEW message \in Offers,
           CredentialOffer(c, message)
    PROVE  ServiceInv'
<1>. USE CredentialServiceAssumption
<1>1. /\ UNCHANGED <<now, seen, batches, minted, accepted, presented>>
      /\ calls' = calls \ {c}
      /\ offers' = Newest(Append(offers, message), MaxOffers)
  BY DEF CredentialOffer
<1>2. offers \in Seq(Offers) /\ Len(offers) <= MaxOffers
  BY DEF ServiceInv, TypeOK, StoresBounded
<1>3. offers' \in Seq(Offers) /\ Len(offers') <= MaxOffers
  BY <1>1, <1>2, NewestElements
<1>4. TypeOK'
  BY <1>1, <1>3 DEF ServiceInv, TypeOK
<1>. QED
  BY <1>1, <1>3, <1>4 DEF ServiceInv, Remembers, StoresBounded, TokensMinted,
     CallsGranted, BatchesSound, ReplayNeedsEviction, PresentedWasGranted,
     PresentedIsSound, Grants

\* Every handler and the clock keep the invariant.
LEMMA ServiceStep == ServiceInv /\ [Next]_vars => ServiceInv'
<1>. SUFFICES ASSUME ServiceInv, [Next]_vars
              PROVE  ServiceInv'
  OBVIOUS
<1>1. CASE UNCHANGED vars
  BY <1>1 DEF vars, ServiceInv, TypeOK, Remembers, StoresBounded, TokensMinted,
     CallsGranted, BatchesSound, ReplayNeedsEviction, PresentedWasGranted,
     PresentedIsSound, Grants
<1>2. ASSUME NEW id \in Calls, NEW token \in Sendable,
             \/ Arrive(id, "presentation", token)
             \/ Arrive(id, "storage", token)
             \/ Arrive(id, "offer", token)
      PROVE  ServiceInv'
  BY <1>2, ArriveStep
<1>. QED
  BY <1>1, <1>2, TickStep, IssueStep, RefuseStep, VerifyStep, QueryStep, StorageStep,
     OfferStep DEF Next

\* The inductive invariant of a Credential Service.
THEOREM ServiceSafe == Spec => []ServiceInv
  BY InitService, ServiceStep, PTL DEF Spec

-----------------------------------------------------------------------------
(* What follows *)

\* A cache that remembers no token twice has as many values as entries.
LEMMA CacheIsASet == ServiceInv => Cardinality(Elements(seen)) = Len(seen)
<1>. SUFFICES ASSUME ServiceInv PROVE Cardinality(Elements(seen)) = Len(seen)
  OBVIOUS
<1>. USE CredentialServiceAssumption
<1>. DEFINE m == Len(seen)
            k == Len(accepted)
            S == Elements(seen)
<1>1. /\ m \in Nat /\ DOMAIN seen = 1 .. m
      /\ k \in Nat /\ DOMAIN accepted = 1 .. k
      /\ seen \in [1 .. m -> 1 .. Jtis + MaxMinted]
  BY LenProperties DEF ServiceInv, TypeOK
<1>2. /\ m <= MaxSeenJti /\ m <= k
      /\ \A i \in 1 .. m : seen[i] = accepted[k - m + i]
  BY DEF ServiceInv, Remembers, Slides
<1>. HIDE DEF m, k
<1>3. ASSUME NEW i \in 1 .. m, NEW j \in 1 .. m, i < j, seen[i] = seen[j]
      PROVE  FALSE
  <2>1. /\ k - m + i \in 1 .. k /\ k - m + j \in 1 .. k
        /\ k - m + i < k - m + j
        /\ ~ ((k - m + j) - (k - m + i) > MaxSeenJti)
    BY <1>1, <1>2, <1>3
  <2>2. accepted[k - m + i] = accepted[k - m + j]
    BY <1>2, <1>3
  <2>. QED
    BY <1>1, <2>1, <2>2 DEF ServiceInv, ReplayNeedsEviction
<1>4. \A i, j \in 1 .. m : seen[i] = seen[j] => i = j
  BY <1>1, <1>3
<1>5. seen \in [1 .. m -> S] /\ \A t \in S : \E i \in 1 .. m : seen[i] = t
  BY <1>1 DEF Elements
<1>6. seen \in Bijection(1 .. m, S)
  BY <1>4, <1>5, Fun_IsBij
<1>7. ExistsBijection(1 .. m, S)
  BY <1>6, Fun_ExistsBij
<1>8. Cardinality(S) = m
  BY <1>1, <1>7, FS_CountingElements
<1>. QED
  BY <1>8 DEF m

\* SeenJtiCache and the stores stay within their capacities, and a token whose
\* jti was accepted passes again only after MaxSeenJti others.
THEOREM ReplaysNeedEviction == Spec => []ReplayCacheSound
<1>1. ServiceInv => ReplayCacheSound
  BY CacheIsASet DEF ServiceInv, ReplayCacheSound, CachesBounded, Remembers, Slides,
                     StoresBounded
<1>. QED
  BY ServiceSafe, <1>1, PTL

\* Whatever the Presentation API hands to a party, the STS granted that party.
THEOREM OnlyTheGranted == Spec => []PresentedWasGranted
<1>1. ServiceInv => PresentedWasGranted
  BY DEF ServiceInv
<1>. QED
  BY ServiceSafe, <1>1, PTL

\* Whatever the Presentation API hands out was checked when it was stored and is
\* still valid.
THEOREM OnlyTheSound == Spec => []PresentedIsSound
<1>1. ServiceInv => PresentedIsSound
  BY DEF ServiceInv
<1>. QED
  BY ServiceSafe, <1>1, PTL

\* verify_nested_access_token accepts what the STS minted for this service.
THEOREM OwnTokensAlwaysVerify == Spec => []OwnTokensVerify
<1>1. ServiceInv => OwnTokensVerify
  BY DEF ServiceInv, TokensMinted, OwnTokensVerify, NestedValid, Presenter
<1>. QED
  BY ServiceSafe, <1>1, PTL
=============================================================================
