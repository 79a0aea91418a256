------------------------------- MODULE Oid4vci -------------------------------
(***************************************************************************)
(* The issuing half of OID4VCI (oid4vci.rs): the operator's credential     *)
(* offers, the pre-authorized code grant of the token endpoint, nonces,    *)
(* and the credential endpoint up to the point where `record_and_mint`     *)
(* takes over (the Redeem actions of module Issuer).                       *)
(*                                                                         *)
(* Each of the four tables has a mutex of its own.  A handler's critical   *)
(* sections are separate actions, and so are the two clock reads of the    *)
(* token endpoint, between which the second may turn.                      *)
(*                                                                         *)
(* Abstractions: a random token is a key nobody drew before; the key of a  *)
(* code also names the offer that carries it, since both are drawn before  *)
(* anyone learns either; a wrong transaction code is any other than the    *)
(* right one; proofs and signatures are accepted or refused.               *)
(***************************************************************************)
EXTENDS ExpiringTable

CONSTANTS
    Definitions,            \* credential configurations (definition ids)
    Requests,               \* credential requests served at one time
    OfferTtl,               \* OFFER_TTL_SECS
    AccessTokenTtl,         \* ACCESS_TOKEN_TTL_SECS
    NonceTtl,               \* NONCE_TTL_SECS
    MaxTxCodeAttempts,      \* MAX_TX_CODE_ATTEMPTS
    MaxKeys,                \* bound of the model: random tokens drawn
    MaxTime                 \* bound of the model: seconds

ASSUME Oid4vciAssumption ==
    /\ OfferTtl \in Nat \ {0}
    /\ AccessTokenTtl \in Nat \ {0}
    /\ NonceTtl \in Nat \ {0}
    /\ MaxTxCodeAttempts \in Nat \ {0}
    /\ MaxKeys \in Nat
    /\ MaxTime \in Nat

VARIABLES
    now,        \* now_secs()
    catalog,    \* the definitions of the Issuer Service
    offers,     \* IssuerState.offers
    codes,      \* IssuerState.pre_authorized_codes
    tokens,     \* IssuerState.access_tokens
    nonces,     \* IssuerState.nonces
    nextKey,    \* the key the next random token gets
    exchanges,  \* token requests past the checks on their code
    requests,   \* credential requests past their access token
    poisoned,   \* the mutex of `codes` is poisoned by a panic
    offered,    \* history: what the operator offered with each code
    guesses,    \* history: wrong transaction codes sent for each code
    uses,       \* history: tokens granted for each code, credentials issued
                \*          for each nonce
    issued      \* history: the credentials issued, as <<code, definition>>

tables  == <<offers, codes, tokens, nonces>>
history == <<offered, guesses, uses, issued>>
vars    == <<now, catalog, tables, nextKey, exchanges, requests, poisoned,
             history>>

-----------------------------------------------------------------------------
Keys == 1 .. MaxKeys
Times == 0 .. MaxTime + OfferTtl + AccessTokenTtl + NonceTtl

PreAuthorizedGrant == [ids : SUBSET Definitions, txCode : BOOLEAN,
                       failed : 0 .. MaxTxCodeAttempts - 1]

\* `code` is the code the token was granted for; the program does not keep it.
AccessGrant == [ids : SUBSET Definitions, code : Keys]

IsTable(t, Val) ==
    /\ DOMAIN t.entries \in SUBSET (1 .. nextKey - 1)
    /\ t.entries \in [DOMAIN t.entries -> [exp : Times, val : Val]]
    /\ Cardinality(DOMAIN t.entries) <= Capacity
    /\ t.order \in Seq(1 .. nextKey - 1)

TypeOK ==
    /\ now \in 0 .. MaxTime
    /\ catalog \in SUBSET Definitions
    /\ nextKey \in 1 .. MaxKeys + 1
    /\ IsTable(offers, {{}})
    /\ IsTable(codes, PreAuthorizedGrant)
    /\ IsTable(tokens, AccessGrant)
    /\ IsTable(nonces, {{}})
    /\ exchanges \in SUBSET [code : Keys, ids : SUBSET Definitions,
                             pc : {"taking", "granting"}]
    /\ requests \in SUBSET [id : Requests, code : Keys, def : Definitions,
                            nonce : Keys \cup {0},
                            pc : {"proving", "defining"}]
    /\ poisoned \in BOOLEAN
    /\ offered \in [Keys -> SUBSET Definitions]
    /\ guesses \in [Keys -> Nat]
    /\ uses \in [Keys -> Nat]
    /\ issued \in SUBSET (Keys \X Definitions)

Init ==
    /\ now = 0
    /\ catalog = Definitions
    /\ offers = EmptyTable
    /\ codes = EmptyTable
    /\ tokens = EmptyTable
    /\ nonces = EmptyTable
    /\ nextKey = 1
    /\ exchanges = {}
    /\ requests = {}
    /\ poisoned = FALSE
    /\ offered = [k \in Keys |-> {}]
    /\ guesses = [k \in Keys |-> 0]
    /\ uses = [k \in Keys |-> 0]
    /\ issued = {}

-----------------------------------------------------------------------------
(* The surroundings *)

Tick ==
    /\ now < MaxTime
    /\ now' = now + 1
    /\ UNCHANGED <<catalog, tables, nextKey, exchanges, requests, poisoned,
                   history>>

\* The Issuer Admin API creates or deletes a definition (module Issuer).
ChangeCatalog(d) ==
    /\ catalog' = IF d \in catalog THEN catalog \ {d} ELSE catalog \cup {d}
    /\ UNCHANGED <<now, tables, nextKey, exchanges, requests, poisoned, history>>

-----------------------------------------------------------------------------
(* Offers *)

\* The mutex of `codes` can be taken. A poisoned one panics its next taker.
CodesFree == ~ poisoned /\ \A x \in exchanges : x.pc # "taking"

\* A new random token.
DrawKey == nextKey <= MaxKeys /\ nextKey' = nextKey + 1

\* Code and offer go in under two locks, one after the other: one step, since
\* nobody has either key before the response.
CreateOffer(ids, txCode) ==
    /\ CodesFree
    /\ ids # {} /\ ids \subseteq catalog
    /\ DrawKey
    /\ codes' = Put(codes, nextKey, now + OfferTtl,
                    [ids |-> ids, txCode |-> txCode, failed |-> 0])
    /\ offers' = Put(offers, nextKey, now + OfferTtl, {})
    /\ offered' = [offered EXCEPT ![nextKey] = ids]
    /\ UNCHANGED <<now, catalog, tokens, nonces, exchanges, requests, poisoned,
                   guesses, uses, issued>>

\* Single use: served or expired, the offer is gone; an unknown one is a 404.
OfferByReference(k) ==
    /\ offers' = Drop(offers, k)
    /\ UNCHANGED <<now, catalog, codes, tokens, nonces, nextKey, exchanges,
                   requests, poisoned, history>>

-----------------------------------------------------------------------------
(* The token endpoint *)

TokenExpiredCode(c) ==
    /\ CodesFree
    /\ Expired(codes, c, now)
    /\ codes' = Drop(codes, c)
    /\ UNCHANGED <<now, catalog, offers, tokens, nonces, nextKey, exchanges,
                   requests, poisoned, history>>

\* A variant that burns the code one guess late.
BurnedLate(attempts) == attempts > MaxTxCodeAttempts

Burned(attempts) == attempts >= MaxTxCodeAttempts

\* A wrong transaction code counts, and the last one tolerated burns the code.
TokenWrongTxCode(c) ==
    /\ CodesFree
    /\ Live(codes, c, now)
    /\ Value(codes, c).txCode
    /\ LET attempts == Value(codes, c).failed + 1
       IN  codes' = IF Burned(attempts) THEN Drop(codes, c)
                    ELSE SetValue(codes, c,
                                  [Value(codes, c) EXCEPT !.failed = attempts])
    /\ guesses' = [guesses EXCEPT ![c] = @ + 1]
    /\ UNCHANGED <<now, catalog, offers, tokens, nonces, nextKey, exchanges,
                   requests, poisoned, offered, uses, issued>>

\* The code is live and its transaction code, if it has one, is right: the
\* mutex stays locked until the code is taken.
TokenCheck(c) ==
    /\ CodesFree
    /\ Live(codes, c, now)
    /\ exchanges' = exchanges \cup
          {[code |-> c, ids |-> Value(codes, c).ids, pc |-> "taking"]}
    /\ UNCHANGED <<now, catalog, tables, nextKey, requests, poisoned, history>>

\* A variant that reads the code and leaves it in the table.
TokenTakeKeeps(x) ==
    /\ x.pc = "taking"
    /\ exchanges' = (exchanges \ {x}) \cup {[x EXCEPT !.pc = "granting"]}
    /\ UNCHANGED <<now, catalog, tables, nextKey, requests, poisoned, history>>

\* take() reads the clock again: an entry that expired since the check makes
\* `expect` panic with the mutex held.
TokenTake(x) ==
    /\ x.pc = "taking"
    /\ codes' = Drop(codes, x.code)
    /\ IF Live(codes, x.code, now)
       THEN /\ exchanges' = (exchanges \ {x}) \cup {[x EXCEPT !.pc = "granting"]}
            /\ UNCHANGED poisoned
       ELSE /\ exchanges' = exchanges \ {x}
            /\ poisoned' = TRUE
    /\ UNCHANGED <<now, catalog, offers, tokens, nonces, nextKey, requests,
                   history>>

TokenGrant(x) ==
    /\ x.pc = "granting"
    /\ DrawKey
    /\ tokens' = Put(tokens, nextKey, now + AccessTokenTtl,
                     [ids |-> x.ids, code |-> x.code])
    /\ exchanges' = exchanges \ {x}
    /\ uses' = [uses EXCEPT ![x.code] = @ + 1]
    /\ UNCHANGED <<now, catalog, offers, codes, nonces, requests, poisoned,
                   offered, guesses, issued>>

-----------------------------------------------------------------------------
(* Nonces and the credential endpoint *)

Nonce ==
    /\ DrawKey
    /\ nonces' = Put(nonces, nextKey, now + NonceTtl, {})
    /\ UNCHANGED <<now, catalog, offers, codes, tokens, exchanges, requests,
                   poisoned, history>>

CredentialExpiredToken(t) ==
    /\ Expired(tokens, t, now)
    /\ tokens' = Drop(tokens, t)
    /\ UNCHANGED <<now, catalog, offers, codes, nonces, nextKey, exchanges,
                   requests, poisoned, history>>

\* A variant that does not compare the configuration with the grant.
CoversAnything(grant, d) == TRUE

Covers(grant, d) == d \in grant.ids

\* The access token is live and covers the configuration, which the catalog
\* still holds. The token stays usable until it expires.
CredentialRequest(id, t, d) ==
    /\ id \notin {r.id : r \in requests}
    /\ Live(tokens, t, now)
    /\ d \in catalog
    /\ Covers(Value(tokens, t), d)
    /\ requests' = requests \cup
          {[id |-> id, code |-> Value(tokens, t).code, def |-> d, nonce |-> 0,
            pc |-> "proving"]}
    /\ UNCHANGED <<now, catalog, tables, nextKey, exchanges, poisoned, history>>

\* Resolving the prover's DID fails, or the signature does not verify.
CredentialBadProof(r) ==
    /\ r.pc = "proving"
    /\ requests' = requests \ {r}
    /\ UNCHANGED <<now, catalog, tables, nextKey, exchanges, poisoned, history>>

\* The proof verifies and carries n as its c_nonce.
CredentialNonce(r, n) ==
    /\ r.pc = "proving"
    /\ nonces' = Drop(nonces, n)
    /\ requests' = IF Live(nonces, n, now)
                   THEN (requests \ {r}) \cup
                            {[r EXCEPT !.pc = "defining", !.nonce = n]}
                   ELSE requests \ {r}
    /\ UNCHANGED <<now, catalog, offers, codes, tokens, nextKey, exchanges,
                   poisoned, history>>

\* The definition may be gone by now; record_and_mint may refuse (Issuer,
\* RedeemHolder to RedeemInsert), which the choice of `served` stands for.
CredentialDefinition(r, served) ==
    /\ r.pc = "defining"
    /\ requests' = requests \ {r}
    /\ IF served /\ r.def \in catalog
       THEN /\ uses' = [uses EXCEPT ![r.nonce] = @ + 1]
            /\ issued' = issued \cup {<<r.code, r.def>>}
       ELSE UNCHANGED <<uses, issued>>
    /\ UNCHANGED <<now, catalog, tables, nextKey, exchanges, poisoned, offered,
                   guesses>>

-----------------------------------------------------------------------------
Offer ==
    \/ \E ids \in SUBSET Definitions, txCode \in BOOLEAN : CreateOffer(ids, txCode)
    \/ \E k \in Keys : OfferByReference(k)

Token ==
    \/ \E c \in Keys :
          TokenExpiredCode(c) \/ TokenWrongTxCode(c) \/ TokenCheck(c)
    \/ \E x \in exchanges : TokenTake(x) \/ TokenGrant(x)

Credential ==
    \/ \E t \in Keys : CredentialExpiredToken(t)
    \/ \E id \in Requests, t \in Keys, d \in Definitions :
          CredentialRequest(id, t, d)
    \/ \E r \in requests :
          \/ CredentialBadProof(r)
          \/ \E n \in Keys : CredentialNonce(r, n)
          \/ \E served \in BOOLEAN : CredentialDefinition(r, served)

Next ==
    \/ Tick
    \/ \E d \in Definitions : ChangeCatalog(d)
    \/ Offer
    \/ Token
    \/ Nonce
    \/ Credential

Spec == Init /\ [][Next]_vars

-----------------------------------------------------------------------------
(* Properties *)

\* A pre-authorized code yields at most one access token and a c_nonce backs
\* at most one credential, however many token and credential requests that
\* name them are in flight.
SingleUse == \A k \in Keys : uses[k] <= 1

\* Guessing a transaction code gets MaxTxCodeAttempts tries, and a code burned
\* by them never yields a token.
GuessesBounded ==
    \A c \in Keys : /\ guesses[c] <= MaxTxCodeAttempts
                    /\ guesses[c] = MaxTxCodeAttempts => uses[c] = 0

\* A credential issued over OID4VCI is one the operator offered, with the code
\* its access token was granted for.
IssuedWasOffered == \A i \in issued : i[2] \in offered[i[1]]

\* "fixed-capacity": the table's own bookkeeping is bounded by it too.
FixedCapacity ==
    /\ Len(offers.order) <= Capacity
    /\ Len(codes.order) <= Capacity
    /\ Len(tokens.order) <= Capacity
    /\ Len(nonces.order) <= Capacity

\* "grant was live under this same lock": the token endpoint never panics.
GrantStaysLive == ~ poisoned

\* Insertion into t costs an entry only when t is full, and a live entry only
\* when every entry is live: since all entries of a table have one lifetime,
\* the oldest is the first to expire.
EvictsExpiredFirst(t, u) ==
    LET gone == DOMAIN t.entries \ DOMAIN u.entries
        new  == DOMAIN u.entries \ DOMAIN t.entries
    IN  new # {} /\ gone # {} =>
            /\ Cardinality(DOMAIN t.entries) = Capacity
            /\ \A k \in gone, j \in DOMAIN u.entries :
                  Live(t, k, now) => Live(u, j, now)
EvictionStep ==
    /\ EvictsExpiredFirst(offers, offers')
    /\ EvictsExpiredFirst(codes, codes')
    /\ EvictsExpiredFirst(tokens, tokens')
    /\ EvictsExpiredFirst(nonces, nonces')
EvictionIsFair == [][EvictionStep]_vars
=============================================================================
