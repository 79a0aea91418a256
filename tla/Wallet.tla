-------------------------------- MODULE Wallet --------------------------------
(***************************************************************************)
(* The wallet half of OID4VCI (`redeem` in oid4vci.rs): a credential offer *)
(* is resolved, its issuer and authorization server are discovered, the    *)
(* pre-authorized code is exchanged for an access token, and every offered *)
(* configuration is requested with a proof over a fresh c_nonce.  What the *)
(* issuer hands over is examined credential by credential and stored in    *)
(* one batch at the very end.                                              *)
(*                                                                         *)
(* Every `await` ends a step.  The servers are arbitrary: any endpoint may *)
(* refuse, answer too late, challenge for a DPoP nonce, redirect, or hand  *)
(* over credentials this service must not keep.  Redemptions share nothing *)
(* but the credential store, which each writes once, so one redemption at  *)
(* a time is modelled; its state is fresh when the next one begins.        *)
(*                                                                         *)
(* Abstractions: a URL is its host, and a request a route: the host it is  *)
(* sent to, then the hosts it is redirected to.  A credential is the       *)
(* number it was handed over under, its configuration and its flaw.  The   *)
(* issuer's DPoP nonces alternate between two values.                      *)
(***************************************************************************)
EXTENDS Naturals, Sequences, FiniteSets, SequencesExt

CONSTANTS
    Configs,                \* credential configuration ids an offer may name
    Described,              \* those the issuer's metadata describes
    JwtConfigs,             \* those of format jwt_vc_json
    DidConfigs,             \* those that accept a DID as the bound key
    AuthorizationDetails,   \* the authorization_details a token may carry
    Flaws,                  \* why an issued credential must not be kept
    Hosts,                  \* hosts of the network
    AllowedHosts,           \* OutboundPolicy.allowed_hosts
    ClientId,               \* Config.oid4vci_client_id is set
    MaxRedirects,           \* MAX_OUTBOUND_REDIRECTS
    MaxOffered,             \* bound of the model: configurations in an offer
    MaxHandedOver           \* bound of the model: credentials in one answer

NoFlaw == "none"

ASSUME WalletAssumption ==
    /\ Described \subseteq Configs
    /\ JwtConfigs \subseteq Configs
    /\ DidConfigs \subseteq Configs
    /\ AuthorizationDetails \subseteq
          Seq([type : STRING, config : STRING, ids : Seq(STRING)])
    /\ AllowedHosts \subseteq Hosts
    /\ NoFlaw \notin Flaws
    /\ ClientId \in BOOLEAN
    /\ MaxRedirects \in Nat \ {0}
    /\ MaxOffered \in Nat
    /\ MaxHandedOver \in Nat \ {0}

VARIABLES
    pc,             \* the call `redeem` awaits
    todo,           \* configurations of the offer not requested yet
    useDpop,        \* the authorization server takes DPoP proofs
    attempts,       \* history: client assertions of the token requests sent
    details,        \* TokenResponse.authorization_details
    bound,          \* ResourceClient.dpop: the access token is DPoP-bound
    nonceEndpoint,  \* CredentialIssuerMetadata.nonce_endpoint is given
    config,         \* the configuration being requested
    targets,        \* its targets not answered yet
    request,        \* number of the credential request being made
    cNonce,         \* c_nonce of that request (0: none)
    rsNonce,        \* ResourceClient.nonce (0: none)
    given,          \* history: the last DPoP-Nonce the issuer sent
    posts,          \* history: how often each credential request was posted
    proofs,         \* history: the key proofs sent
    answer,         \* credentials handed over and not examined yet
    batch,          \* containers
    skipped,        \* not_stored
    issued,         \* history: every credential the issuer handed over
    store           \* the batch filed under this redemption's issuer_pid

tokenVars  == <<useDpop, attempts, details, bound, nonceEndpoint>>
nonceVars  == <<rsNonce, given>>
targetVars == <<config, targets, request, cNonce, nonceVars, posts, proofs>>
resultVars == <<answer, batch, skipped, issued, store>>
vars == <<pc, todo, tokenVars, targetVars, resultVars>>

-----------------------------------------------------------------------------
Offered == SeqOf(Configs, MaxOffered)

\* The steps at which an answer from the network is awaited.
Calling == {"issuer", "server", "token", "nonce", "credential", "accepting"}

Steps == Calling \cup {"idle", "selecting", "done", "failed"}

\* The target of a request that names its configuration.
ByConfig == "credential_configuration_id"

Identifiers == UNION {ToSet(d.ids) : d \in UNION {ToSet(a) :
                                              a \in AuthorizationDetails}}

Credential == [id : Nat, config : Configs, flaw : Flaws \cup {NoFlaw}]

TypeOK ==
    /\ pc \in Steps
    /\ todo \in Offered
    /\ useDpop \in BOOLEAN
    /\ attempts \in Seq(Nat)
    /\ details \in AuthorizationDetails \cup {<<>>}
    /\ bound \in BOOLEAN
    /\ nonceEndpoint \in BOOLEAN
    /\ config \in Configs \cup {ByConfig}
    /\ targets \in Seq(Identifiers \cup {ByConfig})
    /\ pc \in {"nonce", "credential", "accepting"} => targets # <<>>
    /\ request \in Nat
    /\ cNonce \in 0 .. request
    /\ rsNonce \in 0 .. 2
    /\ given \in 0 .. 2
    /\ posts \in Seq(Nat)
    /\ Len(posts) = request
    /\ \A p \in proofs : p \in [request : 1 .. request, nonce : 0 .. request,
                                key : {"kid", "jwk"}]
    /\ answer \in Seq(Credential)
    /\ \A c \in batch \cup skipped \cup issued \cup store : c \in Credential

Init ==
    /\ pc = "idle"
    /\ todo = <<>>
    /\ useDpop = FALSE
    /\ attempts = <<>>
    /\ details = <<>>
    /\ bound = FALSE
    /\ nonceEndpoint = FALSE
    /\ config = ByConfig
    /\ targets = <<>>
    /\ request = 0
    /\ cNonce = 0
    /\ rsNonce = 0
    /\ given = 0
    /\ posts = <<>>
    /\ proofs = {}
    /\ answer = <<>>
    /\ batch = {}
    /\ skipped = {}
    /\ issued = {}
    /\ store = {}

-----------------------------------------------------------------------------
(* The outbound policy *)

Routes == SeqOf(Hosts, MaxRedirects + 1) \ {<<>>}

\* `check_url` of the destination, then `redirect_policy` at every hop: the
\* host must be allowed, and `previous()`, which counts the first URL, must
\* be shorter than the limit.
Followed(route) ==
    {i \in DOMAIN route :
        /\ i <= MaxRedirects
        /\ \A j \in 1 .. i : route[j] \in AllowedHosts}

Arrives(route) == Followed(route) = DOMAIN route

-----------------------------------------------------------------------------
(* Discovery *)

\* The grant of an offer, and whether the caller gave a transaction code.
Usable(grant, txCode) ==
    /\ grant # "absent"
    /\ grant = "with_tx_code" => txCode

\* `redeem_offer` or `credential_offer_endpoint` starts a redemption; what
\* the fields of the body and `parse_offer_uri` convey is taken together.
Redeem(offered, usable) ==
    /\ pc = "idle"
    /\ pc' = IF usable THEN "issuer" ELSE "failed"
    /\ todo' = IF usable THEN offered ELSE <<>>
    /\ UNCHANGED <<tokenVars, targetVars, resultVars>>

RedeemByValue(offered, grant, txCode) ==
    Redeem(offered, Usable(grant, txCode))

RedeemByReference(route, offered, grant, txCode) ==
    Redeem(offered, Arrives(route) /\ Usable(grant, txCode))

\* Neither or both ways of conveying an offer, or an offer that cannot be
\* fetched or read.
RedeemNoOffer == Redeem(<<>>, FALSE)

\* The caller closes its connection and the server drops the handler.
Dropped ==
    /\ pc \in Calling
    /\ pc' = "failed"
    /\ UNCHANGED <<todo, tokenVars, targetVars, resultVars>>

\* A call is refused, fails, times out or is answered with an error.
CallFails ==
    /\ pc \in Calling \ {"token", "credential"}
    /\ pc' = "failed"
    /\ UNCHANGED <<todo, tokenVars, targetVars, resultVars>>

IssuerMetadata(route, same, nonces) ==
    /\ pc = "issuer"
    /\ Arrives(route)
    /\ pc' = IF same THEN "server" ELSE "failed"
    /\ nonceEndpoint' = nonces
    /\ UNCHANGED <<todo, useDpop, attempts, details, bound, targetVars,
                   resultVars>>

ServerMetadata(route, es256) ==
    /\ pc = "server"
    /\ Arrives(route)
    /\ pc' = "token"
    /\ useDpop' = es256
    /\ UNCHANGED <<todo, attempts, details, bound, nonceEndpoint, targetVars,
                   resultVars>>

-----------------------------------------------------------------------------
(* The access token *)

\* A fresh assertion per attempt: its jti is single-use.
ClientAssertion == IF ClientId THEN Len(attempts) + 1 ELSE 0

\* Only the first of the two attempts may be answered by another one.
AnswersChallenge(dpop, attempt) == dpop /\ attempt = 1

PostToken(route) ==
    /\ pc = "token"
    /\ attempts' = IF 1 \in Followed(route)
                   THEN Append(attempts, ClientAssertion)
                   ELSE attempts

\* A 400 or 401 with a DPoP-Nonce: answered once, then read as an error.
TokenChallenged(route) ==
    /\ PostToken(route)
    /\ Arrives(route)
    /\ pc' = IF AnswersChallenge(useDpop, Len(attempts'))
             THEN "token" ELSE "failed"
    /\ UNCHANGED <<todo, useDpop, details, bound, nonceEndpoint, targetVars,
                   resultVars>>

TokenRefused(route) ==
    /\ PostToken(route)
    /\ pc' = "failed"
    /\ UNCHANGED <<todo, useDpop, details, bound, nonceEndpoint, targetVars,
                   resultVars>>

TokenGranted(route, dpopToken, auth) ==
    /\ PostToken(route)
    /\ Arrives(route)
    /\ pc' = IF dpopToken /\ ~useDpop THEN "failed" ELSE "selecting"
    /\ bound' = dpopToken
    /\ details' = auth
    /\ UNCHANGED <<todo, useDpop, nonceEndpoint, targetVars, resultVars>>

-----------------------------------------------------------------------------
(* The credentials *)

CredentialIdentifiersFor(c) ==
    FlattenSeq([i \in DOMAIN details |->
                  IF /\ details[i].type = "openid_credential"
                     /\ details[i].config = c
                  THEN details[i].ids ELSE <<>>])

\* Identifiers of the token replace the configuration id in the request.
TargetsOf(c) ==
    IF CredentialIdentifiersFor(c) = <<>>
    THEN <<ByConfig>> ELSE CredentialIdentifiersFor(c)

\* A variant that fetches one c_nonce and keeps it.
NeedsNonceOnce == nonceEndpoint /\ cNonce = 0

NeedsNonce == nonceEndpoint

\* The nonce of a request is named by the request it was fetched for.
StartRequest ==
    /\ request' = request + 1
    /\ posts' = Append(posts, 0)
    /\ pc' = IF NeedsNonce THEN "nonce" ELSE "credential"

SelectConfig ==
    /\ pc = "selecting"
    /\ targets = <<>>
    /\ todo # <<>>
    /\ todo' = Tail(todo)
    /\ config' = Head(todo)
    /\ IF Head(todo) \in Described
       THEN targets' = TargetsOf(Head(todo)) /\ StartRequest
       ELSE pc' = "failed" /\ UNCHANGED <<targets, request, posts>>
    /\ UNCHANGED <<tokenVars, cNonce, nonceVars, proofs, resultVars>>

SelectTarget ==
    /\ pc = "selecting"
    /\ targets # <<>>
    /\ StartRequest
    /\ UNCHANGED <<todo, tokenVars, config, targets, cNonce, nonceVars, proofs,
                   resultVars>>

\* A variant that keeps the first nonce it is given.
RememberNonceOnce(carried) ==
    rsNonce' = IF carried /\ rsNonce = 0 THEN given' ELSE rsNonce

\* `remember_nonce` of the DPoP-Nonce a response does or does not carry.
RememberNonce(carried) == rsNonce' = IF carried THEN given' ELSE rsNonce

\* The issuer's response carries a DPoP-Nonce unlike the one before.
Carries(carried) == given' = IF carried THEN (given % 2) + 1 ELSE given

FetchNonce(route, carried) ==
    /\ pc = "nonce"
    /\ Arrives(route)
    /\ pc' = "credential"
    /\ cNonce' = request
    /\ Carries(carried)
    /\ RememberNonce(carried)
    /\ UNCHANGED <<todo, tokenVars, config, targets, request, posts, proofs,
                   resultVars>>

ProofKeyRef == IF config \in DidConfigs THEN "kid" ELSE "jwk"

\* `build_jwt_proof_for_client`: the proof names the key and the c_nonce.
KeyProof == [request |-> request, nonce |-> cNonce, key |-> ProofKeyRef]

\* Both attempts of `post_json` send the same body, hence the same proof.
PostCredential(route) ==
    /\ pc = "credential"
    /\ posts' = IF 1 \in Followed(route)
                THEN [posts EXCEPT ![request] = @ + 1] ELSE posts
    /\ proofs' = IF 1 \in Followed(route)
                 THEN proofs \cup {KeyProof} ELSE proofs

CredentialChallenged(route) ==
    /\ PostCredential(route)
    /\ Arrives(route)
    /\ pc' = IF AnswersChallenge(bound, posts'[request])
             THEN "credential" ELSE "failed"
    /\ Carries(TRUE)
    /\ rsNonce' = given'
    /\ UNCHANGED <<todo, tokenVars, config, targets, request, cNonce,
                   resultVars>>

\* What an answer hands over, `credentials` and the older `credential`
\* together, is numbered after what was handed over before.
HandedOver(flaws) ==
    [i \in DOMAIN flaws |-> [id |-> Cardinality(issued) + i,
                             config |-> config, flaw |-> flaws[i]]]

\* The request fails or is deferred, or its answer is empty or is lost.
CredentialRefused(route, flaws) ==
    /\ PostCredential(route)
    /\ flaws # <<>> => 1 \in Followed(route)
    /\ issued' = issued \cup ToSet(HandedOver(flaws))
    /\ pc' = "failed"
    /\ UNCHANGED <<todo, tokenVars, config, targets, request, cNonce,
                   nonceVars, answer, batch, skipped, store>>

NextTarget == pc' = "selecting" /\ targets' = Tail(targets)

CredentialAnswered(route, flaws, carried) ==
    /\ PostCredential(route)
    /\ Arrives(route)
    /\ flaws # <<>>
    /\ Carries(carried)
    /\ RememberNonce(carried)
    /\ issued' = issued \cup ToSet(HandedOver(flaws))
    /\ IF config \in JwtConfigs
       THEN /\ answer' = HandedOver(flaws)
            /\ pc' = "accepting"
            /\ UNCHANGED <<targets, skipped>>
       ELSE /\ skipped' = skipped \cup ToSet(HandedOver(flaws))
            /\ NextTarget
            /\ UNCHANGED answer
    /\ UNCHANGED <<todo, tokenVars, config, request, cNonce, batch, store>>

\* `accept_issued_credential` found nothing to object to.
Accepts(c) == c.flaw = NoFlaw

\* A variant that keeps one credential per configuration.
KeepLast(c) == {c} \cup {b \in batch : b.config # c.config}

\* What is kept of an accepted credential, beside the ones before it.
Keep(c) == batch \cup {c}

AcceptIssuedCredential(route) ==
    /\ pc = "accepting"
    /\ Arrives(route)
    /\ IF Accepts(Head(answer))
       THEN /\ batch' = Keep(Head(answer))
            /\ answer' = Tail(answer)
            /\ IF Len(answer) = 1 THEN NextTarget ELSE UNCHANGED <<pc, targets>>
       ELSE pc' = "failed" /\ UNCHANGED <<batch, answer, targets>>
    /\ UNCHANGED <<todo, tokenVars, config, request, cNonce, nonceVars, posts,
                   proofs, skipped, issued, store>>

\* Whether `redeem` may return.
NothingLeft == todo = <<>> /\ targets = <<>>

Finish ==
    /\ pc = "selecting"
    /\ NothingLeft
    /\ store' = batch
    /\ pc' = "done"
    /\ UNCHANGED <<todo, tokenVars, targetVars, answer, batch, skipped, issued>>

\* `redemption_response` answers the caller and the redemption is over; the
\* next one knows nothing of it.
Respond ==
    /\ pc \in {"done", "failed"}
    /\ pc' = "idle"
    /\ todo' = <<>>
    /\ useDpop' = FALSE
    /\ attempts' = <<>>
    /\ details' = <<>>
    /\ bound' = FALSE
    /\ nonceEndpoint' = FALSE
    /\ config' = ByConfig
    /\ targets' = <<>>
    /\ request' = 0
    /\ cNonce' = 0
    /\ rsNonce' = 0
    /\ given' = 0
    /\ posts' = <<>>
    /\ proofs' = {}
    /\ answer' = <<>>
    /\ batch' = {}
    /\ skipped' = {}
    /\ issued' = {}
    /\ store' = {}

-----------------------------------------------------------------------------
Answers == SeqOf(Flaws \cup {NoFlaw}, MaxHandedOver)

\* What `redeem` does between two calls.
Local == SelectConfig \/ SelectTarget \/ Finish \/ Respond

\* The call under way ends, by an answer or without one.
CallEnds ==
    \/ CallFails
    \/ \E r \in Routes :
          \/ TokenRefused(r)
          \/ TokenChallenged(r)
          \/ CredentialChallenged(r)
          \/ AcceptIssuedCredential(r)
          \/ \E same, nonces \in BOOLEAN : IssuerMetadata(r, same, nonces)
          \/ \E es256 \in BOOLEAN : ServerMetadata(r, es256)
          \/ \E dpopToken \in BOOLEAN, auth \in AuthorizationDetails :
                TokenGranted(r, dpopToken, auth)
          \/ \E carried \in BOOLEAN : FetchNonce(r, carried)
          \/ \E flaws \in Answers : CredentialRefused(r, flaws)
          \/ \E flaws \in Answers, carried \in BOOLEAN :
                CredentialAnswered(r, flaws, carried)

Grants == {"absent", "plain", "with_tx_code"}

Start ==
    \/ RedeemNoOffer
    \/ \E offered \in Offered, grant \in Grants, txCode \in BOOLEAN :
          \/ RedeemByValue(offered, grant, txCode)
          \/ \E r \in Routes : RedeemByReference(r, offered, grant, txCode)

Next == Start \/ Local \/ CallEnds \/ Dropped

\* A variant that resolves the issuer's DID by a client without timeouts.
TimedButDids(step) == step \in Calling \ {"accepting"}

\* The calls of the shared client, which is built with connect_timeout and
\* timeout: it gives up a server that is silent.
Timed(step) == step \in Calling

\* A server owes no answer: a call ends because the client gives it up in the
\* end.  How many calls follow one another is left to `redeem`.
Fairness == WF_vars(Local) /\ WF_vars(Timed(pc) /\ CallEnds)

Spec == Init /\ [][Next]_vars /\ Fairness

-----------------------------------------------------------------------------
(* Properties *)

\* Nothing is stored before everything the offer names was handed over and
\* examined: a redemption that fails half-way, or is dropped, leaves no
\* credential behind (the single `store` call at the end of `redeem`).
AllOrNothing ==
    store # {} =>
        /\ pc = "done"
        /\ todo = <<>> /\ targets = <<>> /\ answer = <<>>
        /\ {c.config : c \in store} \subseteq {c.config : c \in issued}

\* A redemption that succeeds accounts for every credential the issuer ever
\* handed over, as stored or as not stored, however many configurations,
\* identifiers and challenges it took.
NoneLost == pc = "done" => issued = store \cup skipped

\* What is stored can be presented: it is a jwt_vc_json credential, and each
\* one was accepted, not just one of its answer or of its batch.
StoredIsAcceptable ==
    \A c \in store : c.config \in JwtConfigs /\ c.flaw = NoFlaw

\* The store after a redemption: all of what the offer names that can be
\* presented, and nothing when the redemption failed at any of its steps.
StoresWhatWasOffered ==
    /\ AllOrNothing
    /\ NoneLost
    /\ StoredIsAcceptable

\* A c_nonce proves possession for one credential request only, also when a
\* configuration has several identifiers or a request is posted twice, and
\* no proof lacks one when the issuer has a nonce endpoint.
NonceServesOneRequest ==
    \A p, q \in proofs :
        /\ nonceEndpoint => p.nonce # 0
        /\ p.nonce = q.nonce /\ p.nonce # 0 => p.request = q.request

\* A client assertion's jti is single-use: the answer to a DPoP challenge of
\* the token endpoint carries another assertion than the first attempt.
NoAssertionReplayed ==
    ClientId => \A i, j \in DOMAIN attempts :
                    attempts[i] = attempts[j] => i = j

\* What may serve only once serves only once, across all requests and retries
\* of a redemption.
ProofsServeOnce == NonceServesOneRequest /\ NoAssertionReplayed

\* A server that goes on challenging is given up: the token endpoint and
\* each credential request are tried twice at most, and only once when the
\* wallet does not use DPoP there.
AttemptsBounded ==
    /\ Len(attempts) <= IF useDpop THEN 2 ELSE 1
    /\ \A i \in DOMAIN posts : posts[i] <= IF bound THEN 2 ELSE 1

\* A credential request goes out with the last DPoP-Nonce the issuer sent,
\* be it with a challenge, with a credential or with a c_nonce.
LatestNonceSent == pc = "credential" => rsNonce = given

\* A retry is made once and with the nonce that was asked for.
RetriesAreSound == TypeOK /\ AttemptsBounded /\ LatestNonceSent

\* Every redemption ends, with the offer redeemed or with an error: no server
\* can hold it up, by silence at any of the calls or by answering every one
\* with another challenge.
RedemptionEnds ==
    pc \notin {"idle", "done", "failed"} ~> pc \in {"done", "failed"}
=============================================================================
