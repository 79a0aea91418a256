----------------------------- MODULE WalletProofs -----------------------------
(***************************************************************************)
(* The wallet's redemption of an offer, for any configurations, hosts,     *)
(* offers and answers: all of an offer is stored or nothing, nonces and    *)
(* assertions serve once, and retries are bounded and use the nonce that   *)
(* was asked for.                                                          *)
(***************************************************************************)
EXTENDS Wallet, TLAPS, SequenceTheorems, FiniteSetTheorems, WellFoundedInduction

-----------------------------------------------------------------------------
(* Sequences *)

\* A nonempty set of numbers has a smallest.
LEMMA SmallestExists ==
    ASSUME NEW S \in SUBSET Nat, S # {}
    PROVE  \E n \in S : \A m \in S : n <= m
<1>. DEFINE R == {ss \in Nat \X Nat : ss[1] < ss[2]}
<1>1. \E i \in S : \A j \in S : ~ (<<j, i>> \in R)
  <2>. HIDE DEF R
  <2>1. IsWellFoundedOn(R, Nat)
    BY NatLessThanWellFounded, Zenon DEF R, OpToRel
  <2>. QED
    BY <2>1, WFMin
<1>2. \A i, j \in Nat : <<j, i>> \notin R => i <= j
  OBVIOUS
<1>. QED
  BY <1>1, <1>2

\* f joins the first k sequences of s, one after the other.
Joins(f, s, k) == f = [i \in 1 .. k |-> IF i = 1 THEN s[i] ELSE f[i - 1] \o s[i]]

\* What flat_map collects: such an f exists, so FlattenSeq is its last value.
LEMMA JoinExists ==
    ASSUME NEW s, NEW n \in Nat
    PROVE  \E f : Joins(f, s, n)
<1>. DEFINE Bad == {k \in Nat : ~ \E f : Joins(f, s, k)}
<1>1. SUFFICES ASSUME Bad # {} PROVE FALSE
  OBVIOUS
<1>2. PICK k \in Bad : \A m \in Bad : k <= m
  <2>. HIDE DEF Bad
  <2>1. Bad \in SUBSET Nat
    BY DEF Bad
  <2>. QED
    BY <1>1, <2>1, SmallestExists
<1>3. k \in Nat /\ ~ \E f : Joins(f, s, k)
  OBVIOUS
<1>4. CASE k = 0
  <2>1. Joins([i \in 1 .. 0 |-> {}], s, 0)
    BY DEF Joins
  <2>. QED
    BY <1>3, <1>4, <2>1
<1>5. CASE k > 0
  <2>1. k - 1 \in Nat /\ k - 1 \notin Bad
    BY <1>2, <1>3, <1>5
  <2>2. PICK g : Joins(g, s, k - 1)
    BY <2>1
  <2>. DEFINE f == [i \in 1 .. k |-> IF i < k THEN g[i]
                                     ELSE IF i = 1 THEN s[i] ELSE g[i - 1] \o s[i]]
  <2>3. ASSUME NEW i \in 1 .. k
        PROVE  f[i] = IF i = 1 THEN s[i] ELSE f[i - 1] \o s[i]
    <3>1. CASE i < k
      <4>1. i \in 1 .. k - 1 /\ f[i] = g[i]
        BY <1>3, <3>1
      <4>2. g[i] = IF i = 1 THEN s[i] ELSE g[i - 1] \o s[i]
        BY <2>2, <4>1 DEF Joins
      <4>3. i # 1 => i - 1 \in 1 .. k /\ i - 1 < k /\ f[i - 1] = g[i - 1]
        BY <1>3, <3>1
      <4>. HIDE DEF f
      <4>. QED
        BY <4>1, <4>2, <4>3
    <3>2. CASE i = k
      <4>1. f[i] = IF i = 1 THEN s[i] ELSE g[i - 1] \o s[i]
        BY <1>3, <3>2
      <4>2. i # 1 => i - 1 \in 1 .. k /\ i - 1 < k /\ f[i - 1] = g[i - 1]
        BY <1>3, <3>2
      <4>. HIDE DEF f
      <4>. QED
        BY <4>1, <4>2
    <3>. QED
      BY <1>3, <3>1, <3>2
  <2>4. f = [i \in 1 .. k |-> f[i]]
    OBVIOUS
  <2>. HIDE DEF f
  <2>5. Joins(f, s, k)
    BY <2>3, <2>4 DEF Joins
  <2>. QED
    BY <1>3, <2>5
<1>. QED
  BY <1>3, <1>4, <1>5

\* Joining sequences over S gives a sequence over S.
LEMMA FlattenType ==
    ASSUME NEW S, NEW s \in Seq(Seq(S))
    PROVE  FlattenSeq(s) \in Seq(S)
<1>. DEFINE n == Len(s)
<1>1. n \in Nat /\ \A i \in 1 .. n : s[i] \in Seq(S)
  BY LenProperties, ElementOfSeq
<1>2. CASE n = 0
  <2>1. s = <<>>
    BY <1>2, EmptySeq
  <2>2. FlattenSeq(s) = s
    BY <1>2 DEF FlattenSeq
  <2>. QED
    BY <2>1, <2>2, EmptySeq
<1>3. CASE n # 0
  <2>. DEFINE f == CHOOSE h : Joins(h, s, n)
  <2>1. FlattenSeq(s) =
          (CHOOSE h : h = [i \in 1 .. n |-> IF i = 1 THEN s[i] ELSE h[i - 1] \o s[i]])[n]
    BY <1>3 DEF FlattenSeq
  <2>2. FlattenSeq(s) = f[n]
    BY <2>1 DEF Joins
  <2>3. \E h : Joins(h, s, n)
    BY <1>1, JoinExists
  <2>4. Joins(f, s, n)
    BY <2>3
  <2>. HIDE DEF f, n
  <2>. DEFINE Bad == {i \in 1 .. n : f[i] \notin Seq(S)}
  <2>5. ASSUME Bad # {} PROVE FALSE
    <3>1. Bad \in SUBSET Nat
      BY <1>1
    <3>2. PICK i \in Bad : \A j \in Bad : i <= j
      <4>. HIDE DEF Bad
      <4>. QED
        BY <2>5, <3>1, SmallestExists
    <3>3. i \in 1 .. n /\ f[i] \notin Seq(S)
      OBVIOUS
    <3>4. f[i] = IF i = 1 THEN s[i] ELSE f[i - 1] \o s[i]
      BY <2>4, <3>3 DEF Joins
    <3>5. CASE i = 1
      BY <1>1, <3>3, <3>4, <3>5
    <3>6. CASE i # 1
      <4>1. i - 1 \in 1 .. n /\ ~ (i <= i - 1)
        BY <1>1, <3>3, <3>6
      <4>2. f[i - 1] \in Seq(S)
        BY <3>2, <4>1
      <4>3. f[i - 1] \o s[i] \in Seq(S)
        BY <1>1, <3>3, <4>2, ConcatProperties
      <4>. QED
        BY <3>3, <3>4, <3>6, <4>3
    <3>. QED
      BY <3>5, <3>6
  <2>6. n \in 1 .. n
    BY <1>1, <1>3
  <2>. QED
    BY <2>2, <2>5, <2>6
<1>. QED
  BY <1>2, <1>3

\* Bounded sequences are sequences.
LEMMA BoundedIsSeq ==
    ASSUME NEW S, NEW n \in Nat, NEW s \in SeqOf(S, n)
    PROVE  /\ s \in Seq(S)
           /\ Len(s) \in 0 .. n
           /\ DOMAIN s = 1 .. Len(s)
           /\ \A i \in DOMAIN s : s[i] \in S
<1>1. PICK m \in 0 .. n : s \in [1 .. m -> S]
  BY DEF SeqOf
<1>2. m \in Nat /\ s \in Seq(S)
  BY <1>1, SeqDef
<1>3. Len(s) = m
  BY <1>1, <1>2
<1>. QED
  BY <1>1, <1>2, <1>3

\* What is left of a bounded sequence is bounded.
LEMMA BoundedTail ==
    ASSUME NEW S, NEW n \in Nat, NEW s \in SeqOf(S, n), s # <<>>
    PROVE  Head(s) \in S /\ Tail(s) \in SeqOf(S, n)
<1>1. s \in Seq(S) /\ Len(s) \in 0 .. n
  BY BoundedIsSeq
<1>2. /\ Head(s) \in S /\ Tail(s) \in Seq(S) /\ Len(Tail(s)) = Len(s) - 1
  BY <1>1, HeadTailProperties
<1>. DEFINE t == Tail(s)
            m == Len(t)
<1>3. t \in [1 .. m -> S] /\ m \in Nat
  BY <1>2, LenProperties
<1>4. m = Len(s) - 1 /\ Len(s) \in Nat /\ Len(s) <= n
  BY <1>1, <1>2
<1>. HIDE DEF t, m
<1>5. m \in 0 .. n
  BY <1>3, <1>4
<1>6. t \in SeqOf(S, n)
  BY <1>3, <1>5 DEF SeqOf
<1>. QED
  BY <1>2, <1>6 DEF t

\* The elements of a sequence are finitely many.
LEMMA FinitelyMany ==
    ASSUME NEW S, NEW s \in Seq(S)
    PROVE  IsFiniteSet(ToSet(s))
<1>1. Len(s) \in Nat /\ s \in [1 .. Len(s) -> S] /\ DOMAIN s = 1 .. Len(s)
  BY LenProperties
<1>2. s \in Surjection(1 .. Len(s), ToSet(s))
  BY <1>1 DEF Surjection, ToSet
<1>3. IsFiniteSet(1 .. Len(s))
  BY <1>1, FS_Interval
<1>. QED
  BY <1>2, <1>3, FS_Surjection

\* A nonempty sequence is its first element and the others.
LEMMA SetOfTail ==
    ASSUME NEW S, NEW s \in Seq(S), s # <<>>
    PROVE  /\ ToSet(s) = {Head(s)} \cup ToSet(Tail(s))
           /\ Len(s) = 1 <=> Tail(s) = <<>>
<1>1. Len(s) \in Nat \ {0} /\ DOMAIN s = 1 .. Len(s)
  BY EmptySeq, LenProperties
<1>. DEFINE t == Tail(s)
<1>2. /\ t \in Seq(S) /\ Len(t) = Len(s) - 1
      /\ \A i \in 1 .. Len(t) : t[i] = s[i + 1]
      /\ DOMAIN t = 1 .. Len(t)
  BY HeadTailProperties, LenProperties
<1>3. Head(s) = s[1]
  BY <1>1
<1>4. Len(s) = 1 <=> t = <<>>
  <2>1. t = <<>> => Len(t) = 0
    BY EmptySeq
  <2>2. Len(t) = 0 => t = <<>>
    BY <1>2, EmptySeq
  <2>. QED
    BY <1>1, <1>2, <2>1, <2>2
<1>. HIDE DEF t
<1>5. ASSUME NEW x PROVE x \in ToSet(s) <=> x = s[1] \/ x \in ToSet(t)
  <2>1. ASSUME NEW i \in DOMAIN s, x = s[i] PROVE x = s[1] \/ x \in ToSet(t)
    <3>1. CASE i = 1
      BY <2>1, <3>1
    <3>2. CASE i # 1
      <4>1. i - 1 \in 1 .. Len(t) /\ (i - 1) + 1 = i
        BY <1>1, <1>2, <3>2
      <4>2. t[i - 1] = s[i]
        BY <1>2, <4>1
      <4>. QED
        BY <1>2, <2>1, <4>1, <4>2 DEF ToSet
    <3>. QED
      BY <3>1, <3>2
  <2>2. ASSUME NEW i \in DOMAIN t, x = t[i] PROVE x \in ToSet(s)
    <3>1. i \in 1 .. Len(t) /\ i + 1 \in DOMAIN s
      BY <1>1, <1>2
    <3>. QED
      BY <1>2, <2>2, <3>1 DEF ToSet
  <2>3. 1 \in DOMAIN s
    BY <1>1
  <2>. QED
    BY <2>1, <2>2, <2>3 DEF ToSet
<1>6. ToSet(s) = {Head(s)} \cup ToSet(t)
  BY <1>3, <1>5
<1>. QED
  BY <1>4, <1>6 DEF t

-----------------------------------------------------------------------------
(* The inductive invariant *)

\* The steps before the first credential request, and those of a request.
Opening    == {"idle", "issuer", "server", "token"}
Requesting == {"nonce", "credential", "accepting"}

\* `post_token` runs out of attempts and gives each its own assertion.
TokenInv ==
    /\ useDpop \in BOOLEAN
    /\ bound \in BOOLEAN
    /\ nonceEndpoint \in BOOLEAN
    /\ details \in AuthorizationDetails \cup {<<>>}
    /\ attempts \in Seq(Nat)
    /\ pc \in {"idle", "issuer", "server"} => attempts = <<>>
    /\ pc = "token" => Len(attempts) <= IF useDpop THEN 1 ELSE 0
    /\ Len(attempts) <= IF useDpop THEN 2 ELSE 1
    /\ ClientId => \A i \in 1 .. Len(attempts) : attempts[i] = i

\* A request knows its configuration and its nonce, and every proof carries
\* the nonce fetched for its own request.
NonceInv ==
    /\ config \in Configs \cup {ByConfig}
    /\ targets \in Seq(Identifiers \cup {ByConfig})
    /\ targets # <<>> => config \in Configs
    /\ request \in Nat
    /\ pc \in Requesting => targets # <<>> /\ request > 0
    /\ pc = "nonce" => nonceEndpoint
    /\ cNonce \in 0 .. request
    /\ pc = "credential" => cNonce = IF nonceEndpoint THEN request ELSE 0
    /\ ~ nonceEndpoint => cNonce = 0
    /\ pc \in Opening => proofs = {} /\ cNonce = 0
    /\ proofs \subseteq [request : 1 .. request, nonce : 0 .. request,
                         key : {"kid", "jwk"}]
    /\ \A p \in proofs : p.nonce = IF nonceEndpoint THEN p.request ELSE 0
    /\ given \in 0 .. 2
    /\ rsNonce = given

\* `post_json` runs out of attempts for every request.
PostInv ==
    /\ posts \in Seq(Nat)
    /\ Len(posts) = request
    /\ pc \in Opening => posts = <<>>
    /\ pc = "nonce" => posts[request] = 0
    /\ pc = "credential" => posts[request] <= IF bound THEN 1 ELSE 0
    /\ \A i \in 1 .. Len(posts) : posts[i] <= IF bound THEN 2 ELSE 1

\* What was handed over is kept, skipped or still to be examined, and is
\* filed only when there is nothing left to ask for.
ResultInv ==
    /\ answer \in Seq(Credential)
    /\ batch \cup skipped \cup issued \cup store \subseteq Credential
    /\ pc = "accepting" => answer # <<>>
    /\ pc \notin {"accepting", "failed"} => answer = <<>>
    /\ pc # "failed" => issued = (batch \cup skipped) \cup ToSet(answer)
    /\ \A c \in batch \cup ToSet(answer) : c.config \in JwtConfigs
    /\ \A c \in batch : c.flaw = NoFlaw
    /\ pc # "done" => store = {}
    /\ pc = "done" => store = batch /\ todo = <<>> /\ targets = <<>>
    /\ IsFiniteSet(issued)

WalletInv ==
    /\ pc \in Steps
    /\ todo \in Offered
    /\ TokenInv
    /\ NonceInv
    /\ PostInv
    /\ ResultInv

-----------------------------------------------------------------------------
(* Parts that a step leaves alone *)

\* A token phase that is over, or that has not begun, stays as it is.
LEMMA TokenFrame ==
    ASSUME TokenInv, UNCHANGED tokenVars,
           \/ pc' = pc
           \/ pc' \notin Opening
           \/ pc = "idle" /\ pc' = "issuer"
    PROVE  TokenInv'
BY DEF TokenInv, tokenVars, Opening

\* Nonces and proofs stay sound when the redemption moves on or fails.
LEMMA NonceFrame ==
    ASSUME NonceInv, UNCHANGED <<targetVars, nonceEndpoint>>,
           \/ pc' = pc
           \/ pc' \notin Opening \cup Requesting
           \/ pc \in Opening /\ pc' \in Opening
    PROVE  NonceInv'
BY DEF NonceInv, targetVars, nonceVars, Opening, Requesting

\* So do the counts of what was posted.
LEMMA PostFrame ==
    ASSUME PostInv, UNCHANGED <<posts, request, bound>>,
           \/ pc' = pc
           \/ pc' \notin Opening \cup {"nonce", "credential"}
           \/ pc \in Opening /\ pc' \in Opening
    PROVE  PostInv'
BY DEF PostInv, Opening

\* A step that hands nothing over and files nothing keeps the accounts.
LEMMA ResultFrame ==
    ASSUME ResultInv, UNCHANGED resultVars,
           \/ pc' = "failed" /\ pc # "done"
           \/ /\ pc  \notin {"accepting", "failed", "done"}
              /\ pc' \notin {"accepting", "failed", "done"}
    PROVE  ResultInv'
BY DEF ResultInv, resultVars

\* A request that arrives, redirected or not, has reached its first host.
LEMMA RouteFacts ==
    ASSUME NEW r \in Routes
    PROVE  Arrives(r) => 1 \in Followed(r)
<1>1. MaxRedirects + 1 \in Nat /\ r \in SeqOf(Hosts, MaxRedirects + 1) /\ r # <<>>
  BY WalletAssumption DEF Routes
<1>2. r \in Seq(Hosts) /\ DOMAIN r = 1 .. Len(r)
  BY <1>1, BoundedIsSeq
<1>3. 1 \in DOMAIN r
  BY <1>1, <1>2, EmptySeq
<1>. QED
  BY <1>3 DEF Arrives

-----------------------------------------------------------------------------
(* Discovery *)

\* Before the first redemption there is nothing to account for.
LEMMA InitKept == Init => WalletInv
<1>1. SUFFICES ASSUME Init PROVE WalletInv
  OBVIOUS
<1>2. todo \in Offered
  <2>1. <<>> \in [1 .. 0 -> Configs] /\ 0 \in 0 .. MaxOffered
    BY WalletAssumption
  <2>. QED
    BY <1>1, <2>1 DEF Init, Offered, SeqOf
<1>3. TokenInv /\ PostInv
  <2>1. <<>> \in Seq(Nat) /\ Len(<<>>) = 0
    BY EmptySeq
  <2>2. TokenInv
    <3>1. \A i \in 1 .. Len(attempts) : attempts[i] = i
      BY <1>1, <2>1 DEF Init
    <3>2. Len(attempts) <= (IF useDpop THEN 2 ELSE 1) /\ pc # "token"
      BY <1>1, <2>1 DEF Init
    <3>. QED
      BY <1>1, <2>1, <3>1, <3>2 DEF Init, TokenInv
  <2>3. PostInv
    BY <1>1, <2>1 DEF Init, PostInv
  <2>. QED
    BY <2>2, <2>3
<1>4. NonceInv
  BY <1>1, EmptySeq DEF Init, NonceInv, Requesting
<1>5. ResultInv
  <2>1. ToSet(<<>>) = {} /\ <<>> \in Seq(Credential)
    BY EmptySeq DEF ToSet
  <2>. QED
    BY <1>1, <2>1, FS_EmptySet DEF Init, ResultInv
<1>. QED
  BY <1>1, <1>2, <1>3, <1>4, <1>5 DEF Init, WalletInv, Steps

\* A redemption begins, or is turned away at once.
LEMMA RedeemKept ==
    ASSUME WalletInv, NEW offered \in Offered, NEW usable, Redeem(offered, usable)
    PROVE  WalletInv'
<1>1. pc = "idle" /\ pc' \in {"issuer", "failed"}
  BY DEF Redeem
<1>2. todo' \in Offered
  <2>1. <<>> \in [1 .. 0 -> Configs] /\ 0 \in 0 .. MaxOffered
    BY WalletAssumption
  <2>2. <<>> \in Offered
    BY <2>1 DEF Offered, SeqOf
  <2>. QED
    BY <2>2 DEF Redeem
<1>3. TokenInv'
  BY <1>1, TokenFrame DEF WalletInv, Redeem, Opening
<1>4. NonceInv'
  BY <1>1, NonceFrame DEF WalletInv, Redeem, tokenVars, Opening, Requesting
<1>5. PostInv'
  BY <1>1, PostFrame DEF WalletInv, Redeem, tokenVars, targetVars, Opening
<1>6. ResultInv'
  BY <1>1, ResultFrame DEF WalletInv, Redeem
<1>. QED
  BY <1>1, <1>2, <1>3, <1>4, <1>5, <1>6 DEF WalletInv, Steps, Calling

\* Giving up, at whatever call, leaves everything as it is.
LEMMA FailureKept ==
    ASSUME WalletInv, pc # "done", pc' = "failed",
           UNCHANGED <<todo, tokenVars, targetVars, resultVars>>
    PROVE  WalletInv'
<1>1. TokenInv'
  BY TokenFrame DEF WalletInv, Opening
<1>2. NonceInv'
  BY NonceFrame DEF WalletInv, tokenVars, Opening, Requesting
<1>3. PostInv'
  BY PostFrame DEF WalletInv, tokenVars, targetVars, Opening
<1>4. ResultInv'
  BY ResultFrame DEF WalletInv
<1>. QED
  BY <1>1, <1>2, <1>3, <1>4 DEF WalletInv, Steps

\* Metadata is read before a request is made, so it changes no account.
LEMMA IssuerMetadataKept ==
    ASSUME WalletInv, NEW r \in Routes, NEW same \in BOOLEAN,
           NEW nonces \in BOOLEAN, IssuerMetadata(r, same, nonces)
    PROVE  WalletInv'
<1>1. pc = "issuer" /\ pc' \in {"server", "failed"}
  BY DEF IssuerMetadata
<1>2. TokenInv'
  BY <1>1 DEF WalletInv, TokenInv, IssuerMetadata
<1>3. NonceInv'
  BY <1>1 DEF WalletInv, NonceInv, IssuerMetadata, targetVars, nonceVars,
              Opening, Requesting
<1>4. PostInv'
  BY <1>1, PostFrame DEF WalletInv, IssuerMetadata, targetVars, Opening
<1>5. ResultInv'
  BY <1>1, ResultFrame DEF WalletInv, IssuerMetadata
<1>. QED
  BY <1>1, <1>2, <1>3, <1>4, <1>5
  DEF WalletInv, IssuerMetadata, Steps, Calling

\* The authorization server tells whether it takes DPoP proofs.
LEMMA ServerMetadataKept ==
    ASSUME WalletInv, NEW r \in Routes, NEW es256 \in BOOLEAN,
           ServerMetadata(r, es256)
    PROVE  WalletInv'
<1>1. pc = "server" /\ pc' = "token"
  BY DEF ServerMetadata
<1>2. TokenInv'
  <2>1. attempts = <<>> /\ Len(attempts) = 0
    BY <1>1, EmptySeq DEF WalletInv, TokenInv
  <2>. QED
    BY <1>1, <2>1 DEF WalletInv, TokenInv, ServerMetadata
<1>3. NonceInv'
  BY <1>1, NonceFrame DEF WalletInv, ServerMetadata, Opening
<1>4. PostInv'
  BY <1>1, PostFrame DEF WalletInv, ServerMetadata, targetVars, Opening
<1>5. ResultInv'
  BY <1>1, ResultFrame DEF WalletInv, ServerMetadata
<1>. QED
  BY <1>1, <1>2, <1>3, <1>4, <1>5
  DEF WalletInv, ServerMetadata, Steps, Calling

-----------------------------------------------------------------------------
(* The access token *)

\* One more attempt carries one more assertion.
LEMMA AttemptNumbered ==
    ASSUME TokenInv, NEW r \in Routes, PostToken(r)
    PROVE  /\ attempts' \in Seq(Nat)
           /\ Len(attempts') \in Nat
           /\ Len(attempts') <= IF useDpop THEN 2 ELSE 1
           /\ Arrives(r) => Len(attempts') = Len(attempts) + 1
           /\ Len(attempts) \in Nat
           /\ ClientId => \A i \in 1 .. Len(attempts') : attempts'[i] = i
<1>. DEFINE n == Len(attempts)
<1>1. /\ attempts \in Seq(Nat) /\ n \in Nat
      /\ n <= IF useDpop THEN 1 ELSE 0
      /\ ClientId => \A i \in 1 .. n : attempts[i] = i
  BY LenProperties DEF TokenInv, PostToken
<1>2. CASE 1 \in Followed(r)
  <2>. DEFINE a == ClientAssertion
  <2>1. attempts' = Append(attempts, a)
    BY <1>2 DEF PostToken
  <2>2. a \in Nat /\ (ClientId => a = n + 1)
    BY <1>1 DEF ClientAssertion
  <2>. HIDE DEF a
  <2>3. /\ attempts' \in Seq(Nat) /\ Len(attempts') = n + 1
        /\ \A i \in 1 .. n : attempts'[i] = attempts[i]
        /\ attempts'[n + 1] = a
    BY <1>1, <2>1, <2>2, AppendProperties
  <2>. HIDE DEF n
  <2>4. ASSUME ClientId, NEW i \in 1 .. n + 1 PROVE attempts'[i] = i
    BY <1>1, <2>2, <2>3, <2>4
  <2>5. n + 1 <= IF useDpop THEN 2 ELSE 1
    BY <1>1
  <2>. QED
    BY <1>1, <2>3, <2>4, <2>5 DEF n
<1>3. CASE 1 \notin Followed(r)
  <2>1. attempts' = attempts /\ ~ Arrives(r)
    BY <1>3, RouteFacts DEF PostToken
  <2>2. n <= IF useDpop THEN 2 ELSE 1
    BY <1>1
  <2>. QED
    BY <1>1, <2>1, <2>2
<1>. QED
  BY <1>2, <1>3

\* The token endpoint challenges or refuses.
LEMMA TokenFailsKept ==
    ASSUME WalletInv, NEW r \in Routes, TokenChallenged(r) \/ TokenRefused(r)
    PROVE  WalletInv'
<1>1. /\ pc = "token" /\ pc' \in {"token", "failed"} /\ PostToken(r)
      /\ UNCHANGED <<todo, useDpop, details, bound, nonceEndpoint, targetVars,
                     resultVars>>
      /\ pc' = "token" => useDpop /\ Len(attempts') = 1
  BY DEF TokenChallenged, TokenRefused, PostToken, AnswersChallenge
<1>2. TokenInv'
  <2>1. /\ attempts' \in Seq(Nat)
        /\ Len(attempts') <= IF useDpop THEN 2 ELSE 1
        /\ ClientId => \A i \in 1 .. Len(attempts') : attempts'[i] = i
    BY <1>1, AttemptNumbered DEF WalletInv
  <2>2. ASSUME pc' = "token" PROVE Len(attempts') <= IF useDpop THEN 1 ELSE 0
    <3>1. useDpop /\ Len(attempts') = 1
      BY <1>1, <2>2
    <3>2. (IF useDpop THEN 1 ELSE 0) = 1
      BY <3>1, Zenon
    <3>. QED
      BY <3>1, <3>2
  <2>3. UNCHANGED <<useDpop, details, bound, nonceEndpoint>>
    BY <1>1
  <2>4. pc' \notin {"idle", "issuer", "server"}
    BY <1>1
  <2>. QED
    BY <2>1, <2>2, <2>3, <2>4 DEF WalletInv, TokenInv
<1>3. NonceInv'
  BY <1>1, NonceFrame DEF WalletInv, Opening, Requesting
<1>4. PostInv'
  BY <1>1, PostFrame DEF WalletInv, targetVars, Opening
<1>5. ResultInv'
  BY <1>1, ResultFrame DEF WalletInv
<1>. QED
  BY <1>1, <1>2, <1>3, <1>4, <1>5 DEF WalletInv, Steps, Calling

\* The token is granted, or is of a type the wallet did not ask for.
LEMMA TokenGrantedKept ==
    ASSUME WalletInv, NEW r \in Routes, NEW dpopToken \in BOOLEAN,
           NEW auth \in AuthorizationDetails, TokenGranted(r, dpopToken, auth)
    PROVE  WalletInv'
<1>1. /\ pc = "token" /\ pc' \in {"selecting", "failed"} /\ PostToken(r)
      /\ UNCHANGED <<todo, useDpop, nonceEndpoint, targetVars, resultVars>>
      /\ bound' = dpopToken /\ details' = auth
  BY DEF TokenGranted, PostToken
<1>2. TokenInv'
  BY <1>1, AttemptNumbered DEF WalletInv, TokenInv
<1>3. NonceInv'
  BY <1>1, NonceFrame DEF WalletInv, Opening, Requesting
<1>4. PostInv'
  <2>1. posts = <<>> /\ Len(posts) = 0
    BY <1>1, EmptySeq DEF WalletInv, PostInv, Opening
  <2>. QED
    BY <1>1, <2>1 DEF WalletInv, PostInv, targetVars, Opening
<1>5. ResultInv'
  BY <1>1, ResultFrame DEF WalletInv
<1>. QED
  BY <1>1, <1>2, <1>3, <1>4, <1>5 DEF WalletInv, Steps

-----------------------------------------------------------------------------
(* The credentials *)

\* A configuration has at least one target, whatever the token's
\* authorization_details say of it.
LEMMA TargetsGiven ==
    ASSUME TokenInv, NEW c
    PROVE  TargetsOf(c) \in Seq(Identifiers \cup {ByConfig}) /\ TargetsOf(c) # <<>>
<1>. DEFINE D == [type : STRING, config : STRING, ids : Seq(STRING)]
            T == Identifiers \cup {ByConfig}
            s == [i \in DOMAIN details |->
                    IF /\ details[i].type = "openid_credential"
                       /\ details[i].config = c
                    THEN details[i].ids ELSE <<>>]
<1>1. details \in Seq(D) /\ (details \in AuthorizationDetails \/ details = <<>>)
  BY WalletAssumption, EmptySeq DEF TokenInv
<1>2. /\ Len(details) \in Nat
      /\ DOMAIN details = 1 .. Len(details)
      /\ \A i \in DOMAIN details : details[i] \in D
  BY <1>1, LenProperties, ElementOfSeq
<1>3. ASSUME NEW i \in DOMAIN details PROVE details[i].ids \in Seq(T)
  <2>. DEFINE ids == details[i].ids
  <2>1. ids \in Seq(STRING)
    BY <1>2
  <2>2. details \in AuthorizationDetails /\ details[i] \in ToSet(details)
    BY <1>1, <1>2, <1>3, EmptySeq DEF ToSet
  <2>3. ToSet(ids) \subseteq Identifiers
    BY <2>2 DEF Identifiers
  <2>. HIDE DEF ids
  <2>4. Len(ids) \in Nat /\ DOMAIN ids = 1 .. Len(ids) /\ ids \in [1 .. Len(ids) -> STRING]
    BY <2>1, LenProperties
  <2>5. \A j \in 1 .. Len(ids) : ids[j] \in T
    BY <2>3, <2>4 DEF ToSet
  <2>6. ids \in [1 .. Len(ids) -> T]
    BY <2>4, <2>5
  <2>7. ids \in Seq(T)
    BY <2>4, <2>6, SeqDef
  <2>. QED
    BY <2>7 DEF ids
<1>4. s \in [1 .. Len(details) -> Seq(T)]
  <2>1. <<>> \in Seq(T)
    BY EmptySeq
  <2>. HIDE DEF T
  <2>2. \A i \in DOMAIN details : s[i] \in Seq(T)
    BY <1>3, <2>1
  <2>. QED
    BY <1>2, <2>2
<1>5. CredentialIdentifiersFor(c) = FlattenSeq(s)
  BY DEF CredentialIdentifiersFor
<1>. HIDE DEF s, T
<1>6. s \in Seq(Seq(T))
  BY <1>2, <1>4, SeqDef
<1>7. CredentialIdentifiersFor(c) \in Seq(T)
  BY <1>5, <1>6, FlattenType
<1>8. <<ByConfig>> \in Seq(T) /\ <<ByConfig>> # <<>>
  BY DEF T
<1>. QED
  BY <1>7, <1>8 DEF TargetsOf, T

\* A request begins with no post and, where there is a nonce endpoint, with a
\* nonce to be fetched.
LEMMA StartKept ==
    ASSUME TokenInv, NonceInv, PostInv, StartRequest, pc = "selecting",
           UNCHANGED <<tokenVars, cNonce, nonceVars, proofs>>,
           targets' \in Seq(Identifiers \cup {ByConfig}), targets' # <<>>,
           config' \in Configs
    PROVE  NonceInv' /\ PostInv' /\ pc' \in {"nonce", "credential"}
<1>1. /\ request' = request + 1 /\ request \in Nat /\ request' > 0
      /\ posts' = Append(posts, 0)
      /\ UNCHANGED <<bound, nonceEndpoint, cNonce, rsNonce, given, proofs>>
  BY DEF StartRequest, NonceInv, tokenVars, nonceVars
<1>2. /\ pc' \in {"nonce", "credential"}
      /\ pc' = "nonce" => nonceEndpoint
      /\ pc' = "credential" => ~ nonceEndpoint
  BY DEF StartRequest, NeedsNonce
<1>3. NonceInv'
  <2>1. cNonce' \in 0 .. request'
    BY <1>1 DEF NonceInv
  <2>2. proofs' \subseteq [request : 1 .. request', nonce : 0 .. request',
                           key : {"kid", "jwk"}]
    <3>1. \A i \in 1 .. request : i \in 1 .. request'
      BY <1>1
    <3>2. \A i \in 0 .. request : i \in 0 .. request'
      BY <1>1
    <3>. QED
      BY <1>1, <3>1, <3>2 DEF NonceInv
  <2>3. /\ \A p \in proofs' : p.nonce = IF nonceEndpoint' THEN p.request ELSE 0
        /\ given' \in 0 .. 2
        /\ rsNonce' = given'
    BY <1>1 DEF NonceInv
  <2>4. ~ nonceEndpoint' => cNonce' = 0
    BY <1>1 DEF NonceInv
  <2>5. ASSUME pc' = "credential"
        PROVE  cNonce' = IF nonceEndpoint' THEN request' ELSE 0
    <3>1. ~ nonceEndpoint' /\ cNonce' = 0
      BY <1>1, <1>2, <2>4, <2>5
    <3>. QED
      BY <3>1
  <2>6. pc' \notin Opening /\ (pc' = "nonce" => nonceEndpoint')
    BY <1>1, <1>2 DEF Opening
  <2>. QED
    BY <1>1, <2>1, <2>2, <2>3, <2>4, <2>5, <2>6 DEF NonceInv
<1>4. PostInv'
  <2>1. /\ posts' \in Seq(Nat) /\ Len(posts') = request + 1 /\ Len(posts) = request
        /\ \A i \in 1 .. request : posts'[i] = posts[i]
        /\ posts'[request + 1] = 0
    BY <1>1, AppendProperties DEF PostInv
  <2>2. ASSUME NEW i \in 1 .. Len(posts')
        PROVE  posts'[i] <= IF bound' THEN 2 ELSE 1
    <3>1. CASE i = request + 1
      BY <2>1, <3>1
    <3>2. CASE i \in 1 .. request
      BY <1>1, <2>1, <3>2 DEF PostInv
    <3>. QED
      BY <1>1, <2>1, <3>1, <3>2
  <2>3. posts'[request'] = 0 /\ posts'[request'] <= IF bound' THEN 1 ELSE 0
    BY <1>1, <2>1
  <2>4. pc' \notin Opening
    BY <1>2 DEF Opening
  <2>. QED
    BY <1>1, <2>1, <2>2, <2>3, <2>4 DEF PostInv
<1>. QED
  BY <1>2, <1>3, <1>4

\* The next configuration of the offer is taken up, or is not described.
LEMMA SelectConfigKept ==
    ASSUME WalletInv, SelectConfig
    PROVE  WalletInv'
<1>1. /\ pc = "selecting" /\ targets = <<>> /\ todo # <<>>
      /\ todo' = Tail(todo) /\ config' = Head(todo)
      /\ UNCHANGED <<tokenVars, cNonce, nonceVars, proofs, resultVars>>
  BY DEF SelectConfig
<1>2. Head(todo) \in Configs /\ todo' \in Offered
  <2>1. MaxOffered \in Nat /\ todo \in SeqOf(Configs, MaxOffered)
    BY WalletAssumption DEF WalletInv, Offered
  <2>. QED
    BY <1>1, <2>1, BoundedTail DEF Offered
<1>3. CASE Head(todo) \in Described
  <2>1. targets' = TargetsOf(Head(todo)) /\ StartRequest
    BY <1>3 DEF SelectConfig
  <2>2. targets' \in Seq(Identifiers \cup {ByConfig}) /\ targets' # <<>>
    BY <2>1, TargetsGiven DEF WalletInv
  <2>3. NonceInv' /\ PostInv' /\ pc' \in {"nonce", "credential"}
    BY <1>1, <1>2, <2>1, <2>2, StartKept DEF WalletInv
  <2>4. TokenInv'
    BY <1>1, <2>3, TokenFrame DEF WalletInv, Opening
  <2>5. ResultInv'
    BY <1>1, <2>3, ResultFrame DEF WalletInv
  <2>. QED
    BY <1>1, <1>2, <2>3, <2>4, <2>5 DEF WalletInv, Steps, Calling
<1>4. CASE Head(todo) \notin Described
  <2>1. pc' = "failed" /\ UNCHANGED <<targets, request, posts>>
    BY <1>4 DEF SelectConfig
  <2>2. TokenInv'
    BY <1>1, <2>1, TokenFrame DEF WalletInv, Opening
  <2>3. NonceInv'
    BY <1>1, <1>2, <2>1 DEF WalletInv, NonceInv, tokenVars, nonceVars, Opening,
                            Requesting
  <2>4. PostInv'
    BY <1>1, <2>1, PostFrame DEF WalletInv, tokenVars, Opening
  <2>5. ResultInv'
    BY <1>1, <2>1, ResultFrame DEF WalletInv
  <2>. QED
    BY <1>1, <1>2, <2>1, <2>2, <2>3, <2>4, <2>5 DEF WalletInv, Steps
<1>. QED
  BY <1>3, <1>4

\* The next identifier of a configuration is taken up.
LEMMA SelectTargetKept ==
    ASSUME WalletInv, SelectTarget
    PROVE  WalletInv'
<1>1. /\ pc = "selecting" /\ targets # <<>> /\ StartRequest
      /\ UNCHANGED <<todo, tokenVars, config, targets, cNonce, nonceVars, proofs,
                     resultVars>>
  BY DEF SelectTarget
<1>2. /\ targets' \in Seq(Identifiers \cup {ByConfig}) /\ targets' # <<>>
      /\ config' \in Configs
  BY <1>1 DEF WalletInv, NonceInv
<1>3. NonceInv' /\ PostInv' /\ pc' \in {"nonce", "credential"}
  BY <1>1, <1>2, StartKept DEF WalletInv
<1>4. TokenInv'
  BY <1>1, <1>3, TokenFrame DEF WalletInv, Opening
<1>5. ResultInv'
  BY <1>1, <1>3, ResultFrame DEF WalletInv
<1>. QED
  BY <1>1, <1>3, <1>4, <1>5 DEF WalletInv, Steps, Calling

\* The c_nonce is fetched for the request that is about to be posted.
LEMMA FetchNonceKept ==
    ASSUME WalletInv, NEW r \in Routes, NEW carried \in BOOLEAN,
           FetchNonce(r, carried)
    PROVE  WalletInv'
<1>1. /\ pc = "nonce" /\ pc' = "credential" /\ cNonce' = request
      /\ Carries(carried) /\ RememberNonce(carried)
      /\ UNCHANGED <<todo, tokenVars, config, targets, request, posts, proofs,
                     resultVars>>
  BY DEF FetchNonce
<1>2. TokenInv'
  BY <1>1, TokenFrame DEF WalletInv, Opening
<1>3. given' \in 0 .. 2 /\ rsNonce' = given'
  BY <1>1 DEF WalletInv, NonceInv, Carries, RememberNonce
<1>4. NonceInv'
  <2>1. nonceEndpoint /\ request \in Nat /\ request > 0 /\ targets # <<>>
    BY <1>1 DEF WalletInv, NonceInv, Requesting
  <2>2. cNonce' \in 0 .. request' /\ nonceEndpoint' /\ request' = request
    BY <1>1, <2>1 DEF tokenVars
  <2>3. cNonce' = IF nonceEndpoint' THEN request' ELSE 0
    BY <1>1, <2>2
  <2>. QED
    BY <1>1, <1>3, <2>1, <2>2, <2>3 DEF WalletInv, NonceInv, tokenVars, Opening
<1>5. PostInv'
  <2>1. posts[request] = 0 /\ posts' = posts /\ request' = request /\ bound' = bound
    BY <1>1 DEF WalletInv, PostInv, tokenVars
  <2>. QED
    BY <1>1, <2>1 DEF WalletInv, PostInv, Opening
<1>6. ResultInv'
  BY <1>1, ResultFrame DEF WalletInv
<1>. QED
  BY <1>1, <1>2, <1>4, <1>5, <1>6 DEF WalletInv, Steps, Calling

\* A post is counted for its request and carries that request's nonce.
LEMMA PostCounted ==
    ASSUME WalletInv, NEW r \in Routes, PostCredential(r)
    PROVE  /\ posts' \in Seq(Nat)
           /\ Len(posts') = Len(posts)
           /\ \A i \in 1 .. Len(posts') : posts'[i] <= IF bound THEN 2 ELSE 1
           /\ proofs' \subseteq [request : 1 .. request, nonce : 0 .. request,
                                 key : {"kid", "jwk"}]
           /\ \A p \in proofs' : p.nonce = IF nonceEndpoint THEN p.request ELSE 0
<1>1. /\ posts \in Seq(Nat) /\ Len(posts) = request /\ pc = "credential"
      /\ posts[request] <= IF bound THEN 1 ELSE 0
      /\ \A i \in 1 .. Len(posts) : posts[i] <= IF bound THEN 2 ELSE 1
  BY DEF WalletInv, PostInv, PostCredential
<1>2. /\ request \in Nat /\ request > 0 /\ request \in 1 .. request
      /\ cNonce \in 0 .. request
      /\ cNonce = IF nonceEndpoint THEN request ELSE 0
      /\ proofs \subseteq [request : 1 .. request, nonce : 0 .. request,
                           key : {"kid", "jwk"}]
      /\ \A p \in proofs : p.nonce = IF nonceEndpoint THEN p.request ELSE 0
  BY <1>1 DEF WalletInv, NonceInv, Requesting
<1>3. /\ DOMAIN posts = 1 .. request /\ \A i \in 1 .. request : posts[i] \in Nat
      /\ posts \in [1 .. request -> Nat]
  BY <1>1, LenProperties, ElementOfSeq
<1>4. CASE 1 \in Followed(r)
  <2>1. posts' = [posts EXCEPT ![request] = @ + 1] /\ proofs' = proofs \cup {KeyProof}
    BY <1>4 DEF PostCredential
  <2>2. posts' \in [1 .. request -> Nat]
    BY <1>2, <1>3, <2>1
  <2>3. posts' \in Seq(Nat) /\ Len(posts') = request
    BY <1>2, <2>2, SeqDef
  <2>4. ASSUME NEW i \in 1 .. request PROVE posts'[i] <= IF bound THEN 2 ELSE 1
    <3>1. CASE i = request
      <4>1. posts'[i] = posts[request] + 1 /\ posts[request] \in Nat
        BY <1>2, <1>3, <2>1, <3>1
      <4>. QED
        BY <1>1, <4>1
    <3>2. CASE i # request
      BY <1>1, <1>3, <2>1, <3>2
    <3>. QED
      BY <3>1, <3>2
  <2>5. /\ KeyProof \in [request : 1 .. request, nonce : 0 .. request,
                         key : {"kid", "jwk"}]
        /\ KeyProof.nonce = cNonce /\ KeyProof.request = request
    BY <1>2 DEF KeyProof, ProofKeyRef
  <2>6. ASSUME NEW p \in proofs'
        PROVE  p.nonce = IF nonceEndpoint THEN p.request ELSE 0
    BY <1>2, <2>1, <2>5
  <2>. QED
    BY <1>1, <1>2, <2>1, <2>3, <2>4, <2>5, <2>6
<1>5. CASE 1 \notin Followed(r)
  BY <1>1, <1>2, <1>5 DEF PostCredential
<1>. QED
  BY <1>4, <1>5

\* A post of a credential request: the request fails, is answered, or is
\* challenged for the first time by a server that gets DPoP proofs.
LEMMA PostKept ==
    ASSUME WalletInv, NEW r \in Routes, PostCredential(r),
           UNCHANGED <<tokenVars, config, request, cNonce>>,
           given' \in 0 .. 2, rsNonce' = given',
           targets' \in Seq(Identifiers \cup {ByConfig}),
           \/ targets' = targets /\ pc' \in {"failed", "accepting"}
           \/ pc' = "selecting"
           \/ targets' = targets /\ pc' = "credential" /\ bound /\ posts'[request] = 1
    PROVE  TokenInv' /\ NonceInv' /\ PostInv'
<1>1. /\ pc = "credential" /\ request \in Nat /\ request > 0
      /\ targets # <<>> /\ config \in Configs
      /\ cNonce = IF nonceEndpoint THEN request ELSE 0
      /\ Len(posts) = request
      /\ pc' \in {"failed", "accepting", "selecting", "credential"}
  BY DEF WalletInv, NonceInv, PostInv, PostCredential, Requesting
<1>2. UNCHANGED <<bound, nonceEndpoint, request, config, cNonce>>
  BY DEF tokenVars
<1>3. TokenInv'
  BY <1>1, TokenFrame DEF WalletInv, Opening
<1>4. NonceInv'
  <2>1. /\ proofs' \subseteq [request : 1 .. request', nonce : 0 .. request',
                              key : {"kid", "jwk"}]
        /\ \A p \in proofs' : p.nonce = IF nonceEndpoint' THEN p.request ELSE 0
    BY <1>2, PostCounted
  <2>2. /\ config' \in Configs \cup {ByConfig} /\ config' \in Configs
        /\ pc' \in Requesting => targets' # <<>> /\ request' > 0
        /\ pc' \notin Opening /\ pc' # "nonce"
    BY <1>1, <1>2 DEF Requesting, Opening
  <2>3. /\ cNonce' = IF nonceEndpoint' THEN request' ELSE 0
        /\ cNonce' \in 0 .. request' /\ request' \in Nat
        /\ ~ nonceEndpoint' => cNonce' = 0
    BY <1>1, <1>2
  <2>. QED
    BY <2>1, <2>2, <2>3 DEF NonceInv
<1>5. PostInv'
  <2>1. /\ posts' \in Seq(Nat) /\ Len(posts') = request'
        /\ \A i \in 1 .. Len(posts') : posts'[i] <= IF bound' THEN 2 ELSE 1
    BY <1>1, <1>2, PostCounted
  <2>2. ASSUME pc' = "credential" PROVE posts'[request'] <= IF bound' THEN 1 ELSE 0
    <3>1. bound' /\ posts'[request'] = 1
      BY <1>2, <2>2
    <3>2. (IF bound' THEN 1 ELSE 0) = 1
      BY <3>1, Zenon
    <3>. QED
      BY <3>1, <3>2
  <2>3. pc' \notin Opening /\ pc' # "nonce"
    BY <1>1 DEF Opening
  <2>. QED
    BY <2>1, <2>2, <2>3 DEF PostInv
<1>. QED
  BY <1>3, <1>4, <1>5

\* What is handed over are finitely many credentials of the configuration.
LEMMA HandedOverType ==
    ASSUME WalletInv, pc = "credential", NEW flaws \in Answers
    PROVE  /\ HandedOver(flaws) \in Seq(Credential)
           /\ flaws # <<>> => HandedOver(flaws) # <<>>
           /\ ToSet(HandedOver(flaws)) \subseteq Credential
           /\ \A c \in ToSet(HandedOver(flaws)) : c.config = config
           /\ IsFiniteSet(issued \cup ToSet(HandedOver(flaws)))
<1>1. config \in Configs /\ IsFiniteSet(issued) /\ Cardinality(issued) \in Nat
  BY FS_CardinalityType DEF WalletInv, NonceInv, ResultInv, Requesting
<1>2. /\ DOMAIN flaws = 1 .. Len(flaws) /\ Len(flaws) \in Nat
      /\ flaws \in Seq(Flaws \cup {NoFlaw})
      /\ \A i \in DOMAIN flaws : flaws[i] \in Flaws \cup {NoFlaw}
  BY WalletAssumption, BoundedIsSeq DEF Answers
<1>. DEFINE n == Cardinality(issued)
            s == HandedOver(flaws)
<1>3. s = [i \in 1 .. Len(flaws) |-> [id |-> n + i, config |-> config, flaw |-> flaws[i]]]
  BY <1>2 DEF HandedOver
<1>. HIDE DEF n, s
<1>4. ASSUME NEW i \in 1 .. Len(flaws)
      PROVE  s[i] \in Credential /\ s[i].config = config
  <2>1. s[i] = [id |-> n + i, config |-> config, flaw |-> flaws[i]]
    BY <1>3
  <2>2. n + i \in Nat /\ flaws[i] \in Flaws \cup {NoFlaw}
    BY <1>1, <1>2 DEF n
  <2>. QED
    BY <1>1, <2>1, <2>2 DEF Credential
<1>5. s \in [1 .. Len(flaws) -> Credential] /\ DOMAIN s = 1 .. Len(flaws)
  BY <1>3, <1>4
<1>6. s \in Seq(Credential) /\ Len(s) = Len(flaws)
  BY <1>2, <1>5, SeqDef
<1>7. flaws # <<>> => s # <<>>
  BY <1>2, <1>6, EmptySeq
<1>8. \A c \in ToSet(s) : c \in Credential /\ c.config = config
  BY <1>4, <1>5 DEF ToSet
<1>9. IsFiniteSet(ToSet(s))
  BY <1>6, FinitelyMany
<1>10. IsFiniteSet(issued \cup ToSet(s))
  BY <1>1, <1>9, FS_Union
<1>. QED
  BY <1>6, <1>7, <1>8, <1>10 DEF s

\* The issuer challenges a credential request.
LEMMA CredentialChallengedKept ==
    ASSUME WalletInv, NEW r \in Routes, CredentialChallenged(r)
    PROVE  WalletInv'
<1>1. /\ pc = "credential" /\ PostCredential(r)
      /\ given' = (given % 2) + 1 /\ rsNonce' = given'
      /\ UNCHANGED <<todo, tokenVars, config, targets, request, cNonce, resultVars>>
  BY DEF CredentialChallenged, PostCredential, Carries
<1>2. \/ pc' = "failed"
      \/ pc' = "credential" /\ bound /\ posts'[request] = 1
  BY DEF CredentialChallenged, AnswersChallenge
<1>3. given' \in 0 .. 2 /\ targets' \in Seq(Identifiers \cup {ByConfig})
  BY <1>1 DEF WalletInv, NonceInv
<1>4. TokenInv' /\ NonceInv' /\ PostInv'
  BY <1>1, <1>2, <1>3, PostKept
<1>5. ResultInv'
  BY <1>1, <1>2, ResultFrame DEF WalletInv
<1>. QED
  BY <1>1, <1>2, <1>4, <1>5 DEF WalletInv, Steps, Calling

\* A credential request fails, its answer with it.
LEMMA CredentialRefusedKept ==
    ASSUME WalletInv, NEW r \in Routes, NEW flaws \in Answers,
           CredentialRefused(r, flaws)
    PROVE  WalletInv'
<1>1. /\ pc = "credential" /\ PostCredential(r) /\ pc' = "failed"
      /\ issued' = issued \cup ToSet(HandedOver(flaws))
      /\ UNCHANGED <<todo, tokenVars, config, targets, request, cNonce, rsNonce,
                     given, answer, batch, skipped, store>>
  BY DEF CredentialRefused, PostCredential, nonceVars
<1>2. /\ given' \in 0 .. 2 /\ rsNonce' = given'
      /\ targets' \in Seq(Identifiers \cup {ByConfig})
  BY <1>1 DEF WalletInv, NonceInv
<1>3. TokenInv' /\ NonceInv' /\ PostInv'
  BY <1>1, <1>2, PostKept
<1>4. /\ ToSet(HandedOver(flaws)) \subseteq Credential
      /\ IsFiniteSet(issued')
  BY <1>1, HandedOverType
<1>5. ResultInv'
  BY <1>1, <1>4 DEF WalletInv, ResultInv
<1>. QED
  BY <1>1, <1>3, <1>5 DEF WalletInv, Steps

\* Credentials are handed over, to be examined or to be skipped.
LEMMA CredentialAnsweredKept ==
    ASSUME WalletInv, NEW r \in Routes, NEW flaws \in Answers,
           NEW carried \in BOOLEAN, CredentialAnswered(r, flaws, carried)
    PROVE  WalletInv'
<1>. DEFINE new == ToSet(HandedOver(flaws))
<1>1. /\ pc = "credential" /\ PostCredential(r) /\ flaws # <<>>
      /\ Carries(carried) /\ RememberNonce(carried)
      /\ issued' = issued \cup new
      /\ UNCHANGED <<todo, tokenVars, config, request, cNonce, batch, store>>
  BY DEF CredentialAnswered, PostCredential
<1>2. given' \in 0 .. 2 /\ rsNonce' = given'
  BY <1>1 DEF WalletInv, NonceInv, Carries, RememberNonce
<1>3. /\ HandedOver(flaws) \in Seq(Credential) /\ HandedOver(flaws) # <<>>
      /\ new \subseteq Credential
      /\ \A c \in new : c.config = config
      /\ IsFiniteSet(issued')
  BY <1>1, HandedOverType
<1>4. targets \in Seq(Identifiers \cup {ByConfig}) /\ targets # <<>>
  BY <1>1 DEF WalletInv, NonceInv, Requesting
<1>5. ResultInv /\ answer = <<>> /\ ToSet(answer) = {} /\ store = {}
  <2>1. ResultInv /\ answer = <<>> /\ store = {}
    BY <1>1 DEF WalletInv, ResultInv
  <2>. QED
    BY <2>1, EmptySeq DEF ToSet
<1>6. CASE config \in JwtConfigs
  <2>1. answer' = HandedOver(flaws) /\ pc' = "accepting" /\ UNCHANGED <<targets, skipped>>
    BY <1>6 DEF CredentialAnswered
  <2>2. TokenInv' /\ NonceInv' /\ PostInv'
    BY <1>1, <1>2, <1>4, <2>1, PostKept
  <2>3. ToSet(answer') = new
    BY <2>1
  <2>. HIDE DEF new
  <2>4. ResultInv'
    BY <1>1, <1>3, <1>5, <1>6, <2>1, <2>3 DEF ResultInv
  <2>. QED
    BY <1>1, <2>1, <2>2, <2>4, RouteFacts DEF WalletInv, Steps, Calling
<1>7. CASE config \notin JwtConfigs
  <2>1. /\ skipped' = skipped \cup new /\ pc' = "selecting"
        /\ targets' = Tail(targets) /\ UNCHANGED answer
    BY <1>7 DEF CredentialAnswered, NextTarget
  <2>2. targets' \in Seq(Identifiers \cup {ByConfig})
    BY <1>4, <2>1, HeadTailProperties
  <2>3. TokenInv' /\ NonceInv' /\ PostInv'
    BY <1>1, <1>2, <2>1, <2>2, PostKept
  <2>. HIDE DEF new
  <2>4. ResultInv'
    <3>1. issued = batch \cup skipped
      BY <1>1, <1>5 DEF ResultInv
    <3>2. issued' = (batch' \cup skipped') \cup ToSet(answer')
      BY <1>1, <1>5, <2>1, <3>1
    <3>. QED
      BY <1>1, <1>3, <1>5, <2>1, <3>2 DEF ResultInv
  <2>. QED
    BY <1>1, <2>1, <2>3, <2>4, RouteFacts DEF WalletInv, Steps
<1>. QED
  BY <1>6, <1>7

\* One credential of an answer is examined and kept, or ends the redemption.
LEMMA AcceptKept ==
    ASSUME WalletInv, NEW r \in Routes, AcceptIssuedCredential(r)
    PROVE  WalletInv'
<1>1. /\ pc = "accepting"
      /\ UNCHANGED <<todo, tokenVars, config, request, cNonce, nonceVars, posts,
                     proofs, skipped, issued, store>>
  BY DEF AcceptIssuedCredential
<1>3. CASE ~ Accepts(Head(answer))
  <2>1. pc' = "failed" /\ UNCHANGED <<batch, answer, targets>>
    BY <1>3 DEF AcceptIssuedCredential
  <2>. QED
    BY <1>1, <2>1, FailureKept DEF targetVars, resultVars
<1>4. CASE Accepts(Head(answer))
  <2>. DEFINE c == Head(answer)
  <2>1. /\ batch' = batch \cup {c} /\ answer' = Tail(answer) /\ c.flaw = NoFlaw
        /\ IF Len(answer) = 1
           THEN pc' = "selecting" /\ targets' = Tail(targets)
           ELSE UNCHANGED <<pc, targets>>
    BY <1>4 DEF AcceptIssuedCredential, Keep, Accepts, NextTarget
  <2>2. /\ ResultInv /\ answer \in Seq(Credential) /\ answer # <<>> /\ store = {}
        /\ issued = (batch \cup skipped) \cup ToSet(answer)
    BY <1>1 DEF WalletInv, ResultInv
  <2>3. /\ ToSet(answer) = {c} \cup ToSet(answer')
        /\ Len(answer) = 1 <=> answer' = <<>>
    BY <2>1, <2>2, SetOfTail
  <2>4. answer' \in Seq(Credential) /\ c \in Credential
    BY <2>1, <2>2, HeadTailProperties
  <2>. HIDE DEF c
  <2>5. /\ targets \in Seq(Identifiers \cup {ByConfig}) /\ targets # <<>>
        /\ Tail(targets) \in Seq(Identifiers \cup {ByConfig})
    BY <1>1, HeadTailProperties DEF WalletInv, NonceInv, Requesting
  <2>6. pc' \in {"selecting", "accepting"}
    BY <1>1, <2>1
  <2>7. TokenInv'
    BY <1>1, <2>6, TokenFrame DEF WalletInv, Opening
  <2>8. NonceInv'
    BY <1>1, <2>1, <2>5, <2>6 DEF WalletInv, NonceInv, tokenVars, nonceVars,
                                   Opening, Requesting
  <2>9. PostInv'
    BY <1>1, <2>6, PostFrame DEF WalletInv, tokenVars, Opening
  <2>10. ResultInv'
    <3>1. issued' = (batch' \cup skipped') \cup ToSet(answer')
      BY <1>1, <2>1, <2>2, <2>3
    <3>2. pc' = "selecting" => answer' = <<>>
      BY <1>1, <2>1, <2>3
    <3>3. pc' = "accepting" => answer' # <<>>
      BY <1>1, <2>1, <2>3
    <3>4. \A b \in batch' \cup ToSet(answer') : b.config \in JwtConfigs
      BY <2>1, <2>2, <2>3 DEF ResultInv
    <3>5. \A b \in batch' : b.flaw = NoFlaw
      BY <2>1, <2>2 DEF ResultInv
    <3>. QED
      BY <1>1, <2>1, <2>2, <2>4, <2>6, <3>1, <3>2, <3>3, <3>4, <3>5 DEF ResultInv
  <2>. QED
    BY <1>1, <2>6, <2>7, <2>8, <2>9, <2>10 DEF WalletInv, Steps, Calling
<1>. QED
  BY <1>3, <1>4

-----------------------------------------------------------------------------
(* The end of a redemption *)

\* Everything that was kept is filed at once.
LEMMA FinishKept ==
    ASSUME WalletInv, Finish
    PROVE  WalletInv'
<1>1. /\ pc = "selecting" /\ pc' = "done" /\ store' = batch
      /\ todo = <<>> /\ targets = <<>>
      /\ UNCHANGED <<todo, tokenVars, targetVars, answer, batch, skipped, issued>>
  BY DEF Finish, NothingLeft
<1>2. TokenInv'
  BY <1>1, TokenFrame DEF WalletInv, Opening
<1>3. NonceInv'
  BY <1>1, NonceFrame DEF WalletInv, tokenVars, Opening, Requesting
<1>4. PostInv'
  BY <1>1, PostFrame DEF WalletInv, tokenVars, targetVars, Opening
<1>5. ResultInv'
  BY <1>1 DEF WalletInv, ResultInv, targetVars
<1>. QED
  BY <1>1, <1>2, <1>3, <1>4, <1>5 DEF WalletInv, Steps

\* The next redemption begins as the first one did.
LEMMA RespondKept ==
    ASSUME WalletInv, Respond
    PROVE  WalletInv'
<1>1. /\ pc' = "idle" /\ todo' = <<>> /\ useDpop' = FALSE /\ bound' = FALSE
      /\ nonceEndpoint' = FALSE /\ details' = <<>> /\ attempts' = <<>>
      /\ config' = ByConfig /\ targets' = <<>> /\ request' = 0 /\ cNonce' = 0
      /\ rsNonce' = 0 /\ given' = 0 /\ posts' = <<>> /\ proofs' = {}
      /\ answer' = <<>> /\ batch' = {} /\ skipped' = {} /\ issued' = {}
      /\ store' = {}
  BY DEF Respond
<1>2. todo' \in Offered
  <2>1. <<>> \in [1 .. 0 -> Configs] /\ 0 \in 0 .. MaxOffered
    BY WalletAssumption
  <2>. QED
    BY <1>1, <2>1 DEF Offered, SeqOf
<1>3. <<>> \in Seq(Nat) /\ Len(<<>>) = 0
  BY EmptySeq
<1>4. TokenInv'
  <2>1. \A i \in 1 .. Len(attempts') : attempts'[i] = i
    BY <1>1, <1>3
  <2>2. Len(attempts') <= (IF useDpop' THEN 2 ELSE 1) /\ pc' # "token"
    BY <1>1, <1>3
  <2>. QED
    BY <1>1, <1>3, <2>1, <2>2 DEF TokenInv
<1>5. PostInv'
  BY <1>1, <1>3 DEF PostInv
<1>6. NonceInv'
  BY <1>1, EmptySeq DEF NonceInv, Requesting
<1>7. ResultInv'
  <2>1. ToSet(<<>>) = {} /\ <<>> \in Seq(Credential)
    BY EmptySeq DEF ToSet
  <2>. QED
    BY <1>1, <2>1, FS_EmptySet DEF ResultInv
<1>. QED
  BY <1>1, <1>2, <1>4, <1>5, <1>6, <1>7 DEF WalletInv, Steps

-----------------------------------------------------------------------------
(* Every step *)

\* The invariant of a redemption, over every step of it and of the servers.
LEMMA StepKeepsWallet == WalletInv /\ [Next]_vars => WalletInv'
<1>1. SUFFICES ASSUME WalletInv, [Next]_vars PROVE WalletInv'
  OBVIOUS
<1>2. CASE Start
  <2>1. ASSUME NEW offered \in Offered, NEW grant \in Grants, NEW txCode \in BOOLEAN,
               RedeemByValue(offered, grant, txCode)
        PROVE  WalletInv'
    BY <1>1, <2>1, RedeemKept DEF RedeemByValue
  <2>2. ASSUME NEW offered \in Offered, NEW grant \in Grants, NEW txCode \in BOOLEAN,
               NEW r \in Routes, RedeemByReference(r, offered, grant, txCode)
        PROVE  WalletInv'
    BY <1>1, <2>2, RedeemKept DEF RedeemByReference
  <2>3. CASE RedeemNoOffer
    <3>1. <<>> \in Offered
      <4>1. <<>> \in [1 .. 0 -> Configs] /\ 0 \in 0 .. MaxOffered
        BY WalletAssumption
      <4>. QED
        BY <4>1 DEF Offered, SeqOf
    <3>. QED
      BY <1>1, <2>3, <3>1, RedeemKept DEF RedeemNoOffer
  <2>. QED
    BY <1>2, <2>1, <2>2, <2>3 DEF Start
<1>3. CASE Dropped
  BY <1>1, <1>3, FailureKept DEF Dropped, Calling
<1>4. CASE Local
  BY <1>1, <1>4, SelectConfigKept, SelectTargetKept, FinishKept, RespondKept
  DEF Local
<1>5. CASE CallEnds
  <2>1. CASE CallFails
    BY <1>1, <2>1, FailureKept DEF CallFails, Calling
  <2>2. ASSUME NEW r \in Routes,
               \/ TokenRefused(r)
               \/ TokenChallenged(r)
               \/ CredentialChallenged(r)
               \/ AcceptIssuedCredential(r)
        PROVE  WalletInv'
    BY <1>1, <2>2, TokenFailsKept, CredentialChallengedKept, AcceptKept
  <2>3. ASSUME NEW r \in Routes, NEW same \in BOOLEAN, NEW nonces \in BOOLEAN,
               IssuerMetadata(r, same, nonces)
        PROVE  WalletInv'
    BY <1>1, <2>3, IssuerMetadataKept
  <2>4. ASSUME NEW r \in Routes, NEW es256 \in BOOLEAN, ServerMetadata(r, es256)
        PROVE  WalletInv'
    BY <1>1, <2>4, ServerMetadataKept
  <2>5. ASSUME NEW r \in Routes, NEW dpopToken \in BOOLEAN,
               NEW auth \in AuthorizationDetails, TokenGranted(r, dpopToken, auth)
        PROVE  WalletInv'
    BY <1>1, <2>5, TokenGrantedKept
  <2>6. ASSUME NEW r \in Routes, NEW carried \in BOOLEAN, FetchNonce(r, carried)
        PROVE  WalletInv'
    BY <1>1, <2>6, FetchNonceKept
  <2>7. ASSUME NEW r \in Routes, NEW flaws \in Answers, CredentialRefused(r, flaws)
         PROVE  WalletInv'
    BY <1>1, <2>7, CredentialRefusedKept
  <2>8. ASSUME NEW r \in Routes, NEW flaws \in Answers, NEW carried \in BOOLEAN,
                CredentialAnswered(r, flaws, carried)
         PROVE  WalletInv'
    BY <1>1, <2>8, CredentialAnsweredKept
  <2>. QED
    BY <1>5, <2>1, <2>2, <2>3, <2>4, <2>5, <2>6, <2>7,
       <2>8, Zenon DEF CallEnds
<1>6. CASE UNCHANGED vars
  <2>1. /\ UNCHANGED <<pc, todo>>
        /\ UNCHANGED tokenVars /\ UNCHANGED targetVars /\ UNCHANGED resultVars
    BY <1>6 DEF vars
  <2>2. UNCHANGED <<nonceEndpoint, bound, posts, request, targets>>
    BY <2>1 DEF tokenVars, targetVars
  <2>3. TokenInv'
    BY <1>1, <2>1, TokenFrame DEF WalletInv
  <2>4. NonceInv'
    BY <1>1, <2>1, <2>2, NonceFrame DEF WalletInv
  <2>5. PostInv'
    BY <1>1, <2>1, <2>2, PostFrame DEF WalletInv
  <2>6. ResultInv'
    BY <1>1, <2>1, <2>2 DEF WalletInv, ResultInv, resultVars
  <2>. QED
    BY <1>1, <2>1, <2>3, <2>4, <2>5, <2>6 DEF WalletInv
<1>. QED
  BY <1>1, <1>2, <1>3, <1>4, <1>5, <1>6 DEF Next

-----------------------------------------------------------------------------
(* Theorems *)

\* The invariant that all of the wallet's properties follow from.
THEOREM WalletSafe == Spec => []WalletInv
<1>1. Init => WalletInv
  BY InitKept
<1>2. WalletInv /\ [Next]_vars => WalletInv'
  BY StepKeepsWallet
<1>. QED
  BY <1>1, <1>2, PTL DEF Spec

\* `redeem` stores all of what it was offered and could present, at its end, or
\* nothing: whatever the servers answer and wherever it is dropped.
THEOREM OfferStoredWholeOrNotAtAll == Spec => []StoresWhatWasOffered
<1>1. WalletInv => StoresWhatWasOffered
  <2>1. SUFFICES ASSUME WalletInv PROVE StoresWhatWasOffered
    OBVIOUS
  <2>2. CASE pc = "done"
    <3>1. /\ store = batch /\ todo = <<>> /\ targets = <<>> /\ answer = <<>>
          /\ issued = (batch \cup skipped) \cup ToSet(answer)
          /\ \A c \in batch \cup ToSet(answer) : c.config \in JwtConfigs
          /\ \A c \in batch : c.flaw = NoFlaw
      BY <2>1, <2>2 DEF WalletInv, ResultInv
    <3>2. ToSet(answer) = {}
      BY <3>1, EmptySeq DEF ToSet
    <3>3. issued = store \cup skipped
      BY <3>1, <3>2
    <3>. QED
      BY <2>2, <3>1, <3>3
      DEF StoresWhatWasOffered, AllOrNothing, NoneLost, StoredIsAcceptable
  <2>3. CASE pc # "done"
    <3>1. store = {}
      BY <2>1, <2>3 DEF WalletInv, ResultInv
    <3>. QED
      BY <2>3, <3>1
      DEF StoresWhatWasOffered, AllOrNothing, NoneLost, StoredIsAcceptable
  <2>. QED
    BY <2>2, <2>3
<1>. QED
  BY <1>1, WalletSafe, PTL

\* No c_nonce is used for two credential requests and no client assertion for
\* two token requests, over all retries of `post_json` and `post_token`.
THEOREM NoncesAndAssertionsServeOnce == Spec => []ProofsServeOnce
<1>1. WalletInv => ProofsServeOnce
  <2>1. SUFFICES ASSUME WalletInv PROVE ProofsServeOnce
    OBVIOUS
  <2>2. NonceServesOneRequest
    <3>1. SUFFICES ASSUME NEW p \in proofs, NEW q \in proofs
                   PROVE  /\ nonceEndpoint => p.nonce # 0
                          /\ p.nonce = q.nonce /\ p.nonce # 0 => p.request = q.request
      BY DEF NonceServesOneRequest
    <3>2. /\ p.request \in 1 .. request /\ request \in Nat
          /\ p.nonce = IF nonceEndpoint THEN p.request ELSE 0
          /\ q.nonce = IF nonceEndpoint THEN q.request ELSE 0
      BY <2>1 DEF WalletInv, NonceInv
    <3>. QED
      BY <3>2
  <2>3. NoAssertionReplayed
    <3>1. SUFFICES ASSUME ClientId, NEW i \in DOMAIN attempts,
                          NEW j \in DOMAIN attempts, attempts[i] = attempts[j]
                   PROVE  i = j
      BY DEF NoAssertionReplayed
    <3>2. /\ attempts \in Seq(Nat)
          /\ \A k \in 1 .. Len(attempts) : attempts[k] = k
      BY <2>1, <3>1 DEF WalletInv, TokenInv
    <3>3. DOMAIN attempts = 1 .. Len(attempts)
      BY <3>2, LenProperties
    <3>. QED
      BY <3>1, <3>2, <3>3
  <2>. QED
    BY <2>2, <2>3 DEF ProofsServeOnce
<1>. QED
  BY <1>1, WalletSafe, PTL

\* A server that challenges for ever is given up after the second attempt, and
\* an attempt is made with the DPoP nonce that was asked for last.
THEOREM RetriesEndAndAreSound == Spec => []RetriesAreSound
<1>1. WalletInv => RetriesAreSound
  <2>1. SUFFICES ASSUME WalletInv PROVE RetriesAreSound
    OBVIOUS
  <2>2. TypeOK
    <3>1. /\ pc \in Steps /\ todo \in Offered
      BY <2>1, WalletAssumption DEF WalletInv
    <3>2. /\ useDpop \in BOOLEAN /\ attempts \in Seq(Nat) /\ bound \in BOOLEAN
          /\ details \in AuthorizationDetails \cup {<<>>}
          /\ nonceEndpoint \in BOOLEAN
      BY <2>1 DEF WalletInv, TokenInv
    <3>3. /\ config \in Configs \cup {ByConfig}
          /\ targets \in Seq(Identifiers \cup {ByConfig})
          /\ pc \in {"nonce", "credential", "accepting"} => targets # <<>>
          /\ request \in Nat /\ cNonce \in 0 .. request
          /\ rsNonce \in 0 .. 2 /\ given \in 0 .. 2
          /\ \A p \in proofs : p \in [request : 1 .. request, nonce : 0 .. request,
                                      key : {"kid", "jwk"}]
      BY <2>1 DEF WalletInv, NonceInv, Requesting
    <3>4. posts \in Seq(Nat) /\ Len(posts) = request
      BY <2>1 DEF WalletInv, PostInv
    <3>5. /\ answer \in Seq(Credential)
          /\ \A c \in batch \cup skipped \cup issued \cup store : c \in Credential
      BY <2>1 DEF WalletInv, ResultInv
    <3>. QED
      BY <3>1, <3>2, <3>3, <3>4, <3>5, Zenon DEF TypeOK
  <2>3. AttemptsBounded
    <3>1. posts \in Seq(Nat) /\ DOMAIN posts = 1 .. Len(posts)
      BY <2>1, LenProperties DEF WalletInv, PostInv
    <3>. QED
      BY <2>1, <3>1 DEF WalletInv, TokenInv, PostInv, AttemptsBounded
  <2>4. LatestNonceSent
    BY <2>1 DEF WalletInv, NonceInv, LatestNonceSent
  <2>. QED
    BY <2>2, <2>3, <2>4 DEF RetriesAreSound
<1>. QED
  BY <1>1, WalletSafe, PTL
===============================================================================
