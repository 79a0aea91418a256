-------------------------- MODULE CredentialService --------------------------
(***************************************************************************)
(* A Credential Service: the verification of Self-Issued ID Tokens with    *)
(* its jti cache (auth.rs, state.rs), the embedded Secure Token Service    *)
(* (sts.rs), the Presentation API, the Storage API and the Credential      *)
(* Offer API (handlers.rs, validation.rs).                                 *)
(*                                                                         *)
(* A call is served in several steps: it waits for the caller's DID        *)
(* document, and a write waits again for what it must fetch to check the   *)
(* message. The clock moves and other calls are served meanwhile. A call   *)
(* refused at any step ends without changing anything else.                *)
(*                                                                         *)
(* Abstractions: tokens are records and a signature is what only the named *)
(* issuer can produce; a party addresses its tokens to this service, says  *)
(* sub = iss and lists its key (the others are refused); a scope names a   *)
(* set of credential types; a write goes to the graph in one step (module  *)
(* CredentialGraph has the steps); issuers are trusted by the static list  *)
(* (module RegistryTrust has the registry); known_holder_pids is empty.    *)
(***************************************************************************)
EXTENDS Naturals, Sequences, FiniteSets

CONSTANTS
    Self,           \* this service's own DID
    Sts,            \* the DID of its STS party
    Parties,        \* DIDs of everybody else
    Trusted,        \* trusted_issuer_dids
    Types,          \* credential types
    Messages,       \* CredentialMessages a party may deliver
    Offers,         \* CredentialOfferMessages a party may make
    Calls,          \* calls served at one time
    MaxSeenJti,     \* MAX_SEEN_JTI
    MaxBatches,     \* MAX_CREDENTIAL_BATCHES
    MaxOffers,      \* MAX_ACCEPTED_OFFERS
    TokenTtl,       \* TOKEN_TTL_SECS, and what parties give their own tokens
    Jtis,           \* bound of the model: the jti values are 1 .. Jtis
    MaxMinted,      \* bound of the model: tokens the STS mints
    MaxAccepted,    \* bound of the model: calls whose token is accepted
    MaxTime         \* bound of the model: the clock

Signers == Parties \cup {Sts}
Times   == 0 .. MaxTime + TokenTtl

\* A credential: the issuer it names, whether it is a JWT that issuer signed,
\* the type of its container, whether that is one of its own types, whether it
\* is bound to this service, when it expires.
Credential == [issuer : Parties, proof : BOOLEAN, type : Types, typed : BOOLEAN,
               own : BOOLEAN, exp : Nat]

CredentialMessage == [status : {"ISSUED", "REJECTED", "INVALID"},
                      credentials : SUBSET Credential]

\* An entry of an offer carries its type, or names an id that is, or is not, in
\* the catalog its issuer publishes.
CredentialOfferMessage == [issuer : Parties,
                           credentials : SUBSET {"typed", "listed", "unlisted"}]

ASSUME CredentialServiceAssumption ==
    /\ Trusted \subseteq Parties
    /\ Self \notin Signers
    /\ Sts \notin Parties
    /\ Messages \subseteq CredentialMessage
    /\ Offers \subseteq CredentialOfferMessage
    /\ MaxSeenJti \in Nat \ {0}
    /\ MaxBatches \in Nat \ {0}
    /\ MaxOffers \in Nat \ {0}
    /\ TokenTtl \in Nat \ {0}
    /\ Jtis \in Nat /\ MaxMinted \in Nat /\ MaxAccepted \in Nat /\ MaxTime \in Nat

VARIABLES
    now,        \* now_secs()
    seen,       \* SeenJtiCache.order, whose elements are SeenJtiCache.seen
    batches,    \* the stored batches, oldest first
    offers,     \* the recorded offers, oldest first
    minted,     \* the tokens the STS minted
    calls,      \* the calls being served
    accepted,   \* history: the jti of every token accepted, in order
    presented   \* history: the credentials in the last presentation

vars == <<now, seen, batches, offers, minted, calls, accepted, presented>>

-----------------------------------------------------------------------------
(* Types *)

\* The nested `token` claim: a grant to read credentials of some types.
AccessToken == [iss : Signers, aud : Signers \cup {Self}, types : SUBSET Types,
                exp : Times]

\* The jti claim is optional: NoJti stands for its absence.
NoJti == 0

\* A Self-Issued ID Token; `token` holds its nested token, if it has one.
IdToken == [iss : Signers, aud : Signers \cup {Self}, exp : Times, jti : Nat,
            token : SUBSET AccessToken]

\* What else a call carries is read, and so chosen, after its token is verified.
Call == [id    : Calls,
         pc    : {"resolving", "verified"},
         api   : {"presentation", "storage", "offer"},
         token : IdToken]

TypeOK ==
    /\ now \in 0 .. MaxTime
    /\ seen \in Seq(1 .. Jtis + MaxMinted)
    /\ batches \in Seq(Messages)
    /\ offers \in Seq(Offers)
    /\ minted \in SUBSET IdToken
    /\ calls \in SUBSET Call
    /\ \A c, d \in calls : c.id = d.id => c = d
    /\ accepted \in Seq(1 .. Jtis + MaxMinted)
    /\ presented \in SUBSET [to : Signers, credential : Credential,
                             status : {"ISSUED", "REJECTED"}, at : Times]

Init ==
    /\ now = 0
    /\ seen = <<>>
    /\ batches = <<>>
    /\ offers = <<>>
    /\ minted = {}
    /\ calls = {}
    /\ accepted = <<>>
    /\ presented = {}

Elements(s) == {s[i] : i \in DOMAIN s}

\* The newest n elements of s.
Newest(s, n) == IF Len(s) <= n THEN s ELSE SubSeq(s, Len(s) - n + 1, Len(s))

Tick ==
    /\ now < MaxTime
    /\ now' = now + 1
    /\ UNCHANGED <<seen, batches, offers, minted, calls, accepted, presented>>

-----------------------------------------------------------------------------
(* The Secure Token Service *)

\* A variant that addresses the nested token like its envelope.
PresenterIsAudience(audience) == audience

\* Who presents the nested token: the STS party itself to this service, and
\* otherwise the party the envelope is addressed to.
Presenter(audience) == IF audience = Self THEN Sts ELSE audience

\* The operator's client asks for a token with a grant to read `types`; there is
\* no nested token without bearer_access_scope, which stands for no types.
IssueToken(audience, types) ==
    /\ Cardinality(minted) < MaxMinted
    /\ minted' = minted \cup
          {[iss |-> Sts, aud |-> audience, exp |-> now + TokenTtl,
            jti |-> Jtis + Cardinality(minted) + 1,
            token |-> IF types = {}
                      THEN {}
                      ELSE {[iss |-> Sts, aud |-> Presenter(audience),
                             types |-> types, exp |-> now + TokenTtl]}]}
    /\ UNCHANGED <<now, seen, batches, offers, calls, accepted, presented>>

-----------------------------------------------------------------------------
(* Verification of the bearer token *)

\* The nested tokens anyone can put into an envelope: those the STS minted and
\* those the sender signs itself.
Grants == UNION {t.token : t \in minted}
Nestable(p) ==
    Grants \cup {[iss |-> p, aud |-> p, types |-> Types, exp |-> now + TokenTtl]}

\* The envelopes addressed to this service: those the STS minted, and those a
\* party signs.
Sendable ==
    {t \in minted : t.aud = Self} \cup
    UNION {[iss : {p}, aud : {Self}, exp : {now + TokenTtl}, jti : {NoJti} \cup 1 .. Jtis,
            token : {{}} \cup {{n} : n \in Nestable(p)}] : p \in Parties}

\* A call arrives and waits for the DID document of its token's issuer.
Arrive(id, api, token) ==
    /\ id \notin {c.id : c \in calls}
    /\ calls' = calls \cup {[id |-> id, pc |-> "resolving", api |-> api,
                             token |-> token]}
    /\ UNCHANGED <<now, seen, batches, offers, minted, accepted, presented>>

\* The call is refused, or its network calls fail.
Refuse(c) ==
    /\ calls' = calls \ {c}
    /\ UNCHANGED <<now, seen, batches, offers, minted, accepted, presented>>

\* A variant that drops the entry just inserted.
RememberOldest(jti) == IF Len(seen) = MaxSeenJti THEN seen ELSE Append(seen, jti)

\* SeenJtiCache::insert: the oldest entries leave.
Remember(jti) == Newest(Append(seen, jti), MaxSeenJti)

\* The replay check, for tokens that carry a jti.
CheckReplay(jti) ==
    IF jti = NoJti
    THEN UNCHANGED <<seen, accepted>>
    ELSE /\ Len(accepted) < MaxAccepted
         /\ jti \notin Elements(seen)
         /\ seen' = Remember(jti)
         /\ accepted' = Append(accepted, jti)

\* The rest of verify_bearer_token: expiry by the clock as it is now, then the
\* replay check.
VerifyBearerToken(c) ==
    /\ c.pc = "resolving"
    /\ c.token.exp > now
    /\ CheckReplay(c.token.jti)
    /\ calls' = (calls \ {c}) \cup {[c EXCEPT !.pc = "verified"]}
    /\ UNCHANGED <<now, batches, offers, minted, presented>>

-----------------------------------------------------------------------------
(* The Presentation API *)

\* A variant that accepts a nested token from whoever brings it.
NestedValidForwarded(nested, caller) == nested.iss = Sts /\ nested.exp > now

\* verify_nested_access_token: minted by this service's STS, not expired, and
\* bound to the party that presents it.
NestedValid(nested, caller) ==
    nested.iss = Sts /\ nested.exp > now /\ nested.aud = caller

\* granted_credential_types; without a nested token nothing is granted.
Granted(token) == UNION {nested.types : nested \in token.token}

\* A variant that leaves expired credentials in.
PresentableAnyAge(batch) == batch.credentials

\* presentable: a credential outside its validity is left out. A credential
\* stored twice is presented once.
Presentable(batch) == {vc \in batch.credentials : now < vc.exp}

\* credentials_of_types looks at batches with status ISSUED only.
Held == {b \in Elements(batches) : b.status = "ISSUED"}

\* The presentation of the credentials of some types, addressed to a party.
Presentation(to, types) ==
    UNION {{[to |-> to, credential |-> vc, status |-> b.status, at |-> now] :
               vc \in {v \in Presentable(b) : v.type \in types}} : b \in Held}

\* A query without scope is refused, a wrong nested token refuses it as a whole.
PresentationQuery(c, types) ==
    /\ c.pc = "verified" /\ c.api = "presentation"
    /\ types # {}
    /\ \A nested \in c.token.token : NestedValid(nested, c.token.iss)
    /\ presented' = Presentation(c.token.iss, types \cap Granted(c.token))
    /\ calls' = calls \ {c}
    /\ UNCHANGED <<now, seen, batches, offers, minted, accepted>>

-----------------------------------------------------------------------------
(* The Storage API *)

\* check_trusted_issuer.
CallerTrusted(c) == c.token.iss \in Trusted

\* verify_credential_proofs: a JWT, signed by a key of the issuer it names.
ProofVerifies(vc) == vc.proof

\* check_credential_claims: what a credential says about itself.
ClaimsHold(vc) == vc.typed /\ vc.issuer \in Trusted /\ vc.own /\ now < vc.exp

\* InMemoryCredentialStore::store.
Stored(message) == Newest(Append(batches, message), MaxBatches)

\* The caller is trusted and the message valid by the clock as it is once the
\* proofs are verified.
StorageWrite(c, message) ==
    /\ c.pc = "verified" /\ c.api = "storage"
    /\ CallerTrusted(c)
    /\ message.status \in {"ISSUED", "REJECTED"}
    /\ \A vc \in message.credentials : ProofVerifies(vc) /\ ClaimsHold(vc)
    /\ batches' = Stored(message)
    /\ calls' = calls \ {c}
    /\ UNCHANGED <<now, seen, offers, minted, accepted, presented>>

-----------------------------------------------------------------------------
(* The Credential Offer API *)

\* validate_offer_credentials: something is offered, and whatever is offered by
\* id alone is in the catalog of the issuer the message names.
OfferResolves(offer) ==
    offer.credentials # {} /\ "unlisted" \notin offer.credentials

CredentialOffer(c, message) ==
    /\ c.pc = "verified" /\ c.api = "offer"
    /\ CallerTrusted(c)
    /\ OfferResolves(message)
    /\ offers' = Newest(Append(offers, message), MaxOffers)
    /\ calls' = calls \ {c}
    /\ UNCHANGED <<now, seen, batches, minted, accepted, presented>>

-----------------------------------------------------------------------------
\* Only the Presentation API reads a nested token.
Next ==
    \/ Tick
    \/ \E audience \in Parties \cup {Self}, types \in SUBSET Types :
          IssueToken(audience, types)
    \/ \E id \in Calls, token \in Sendable :
          \/ Arrive(id, "presentation", token)
          \/ /\ token.token = {}
             /\ Arrive(id, "storage", token) \/ Arrive(id, "offer", token)
    \/ \E c \in calls :
          \/ Refuse(c)
          \/ VerifyBearerToken(c)
          \/ \E types \in SUBSET Types : PresentationQuery(c, types)
          \/ \E message \in Messages : StorageWrite(c, message)
          \/ \E message \in Offers : CredentialOffer(c, message)

Spec == Init /\ [][Next]_vars

-----------------------------------------------------------------------------
(* Properties *)

\* A jti is accepted again only after MaxSeenJti other tokens were accepted
\* since: calls that overlap, and the order their DID documents arrive in, do
\* not let a token through twice.
ReplayNeedsEviction ==
    \A i, j \in DOMAIN accepted :
        i < j /\ accepted[i] = accepted[j] => j - i > MaxSeenJti

\* What is presented to a party was granted to it: a nested token the STS
\* minted for that party as presenter, not expired when the presentation is
\* made, names the type.
PresentedWasGranted ==
    \A p \in presented :
        \E t \in minted : \E nested \in t.token :
            /\ nested.aud = p.to
            /\ p.credential.type \in nested.types
            /\ p.at < nested.exp

\* A presented credential was delivered as ISSUED, was signed by a trusted
\* issuer, whoever delivered it, is bound to this service and is still valid when it is presented,
\* however long ago it was stored.
PresentedIsSound ==
    \A p \in presented :
        /\ p.status = "ISSUED"
        /\ p.credential.issuer \in Trusted
        /\ p.credential.proof /\ p.credential.typed /\ p.credential.own
        /\ p.at < p.credential.exp

\* A token the STS minted for use with this service passes this service's own
\* check of the nested token for as long as it is valid.
OwnTokensVerify ==
    \A t \in minted : t.aud = Self /\ t.exp > now =>
        \A nested \in t.token : NestedValid(nested, t.iss)

\* The jti cache and the store stay within their capacities, and the cache
\* holds no value twice.
CachesBounded ==
    /\ Len(seen) <= MaxSeenJti
    /\ Cardinality(Elements(seen)) = Len(seen)
    /\ Len(batches) <= MaxBatches
    /\ Len(offers) <= MaxOffers

\* The jti cache does its work within its bounds: it remembers as many tokens
\* as it has room for and forgets the oldest first.
ReplayCacheSound == TypeOK /\ CachesBounded /\ ReplayNeedsEviction
=============================================================================
