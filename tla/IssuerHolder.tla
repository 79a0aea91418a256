---------------------------- MODULE IssuerHolder ----------------------------
(***************************************************************************)
(* The delivery tasks of module Issuer composed with the Storage API of    *)
(* the holders they deliver to, over a network that loses and delays       *)
(* messages and answers: the POST of a delivery task is sent, the holder   *)
(* stores or refuses what arrives, and the task sees the answer or an      *)
(* error, in whatever order the network and the client's timeout allow.    *)
(* The client sends a POST once: nothing retries it.                       *)
(***************************************************************************)
EXTENDS Issuer

VARIABLES
    mail,   \* the CredentialMessage of each process, and what became of it
    held    \* the credentials the holders' Credential Services have stored

holderVars == <<mail, held>>
allVars    == <<vars, holderVars>>

\* A credential as the holder sees it: who it is for, and which bit of the
\* issuer's status list a verifier reads for it.
HeldCredential == [pid : Pids, def : Definitions, idx : Indexes]

\* "sent" includes a message that never arrives.
CredentialMessage == [fate : {"unsent", "sent", "stored", "refused"},
                      credentials : SUBSET HeldCredential]

HolderTypeOK ==
    /\ mail \in [Pids -> CredentialMessage]
    /\ held \in SUBSET HeldCredential

HolderInit ==
    /\ Init
    /\ mail = [p \in Pids |-> [fate |-> "unsent", credentials |-> {}]]
    /\ held = {}

\* The request leaves: one message with every credential of the delivery.
Transmit(p, n) ==
    /\ At(p, n, "allocating")
    /\ tasks[p][n].todo = {}
    /\ mail[p].fate = "unsent"
    /\ mail' = [mail EXCEPT ![p] =
                   [fate |-> "sent",
                    credentials |-> {[pid |-> p, def |-> m.def, idx |-> m.idx] :
                                        m \in tasks[p][n].minted}]]
    /\ UNCHANGED <<vars, held>>

\* storage_write stores all the credentials of a message or refuses it. The
\* issuer may have given up on the answer by then.
HolderStores(p) ==
    /\ mail[p].fate = "sent"
    /\ held' = held \cup mail[p].credentials
    /\ mail' = [mail EXCEPT ![p].fate = "stored"]
    /\ UNCHANGED vars

HolderRefuses(p) ==
    /\ mail[p].fate = "sent"
    /\ mail' = [mail EXCEPT ![p].fate = "refused"]
    /\ UNCHANGED <<vars, held>>

\* A variant that takes a request that was sent for one that was served.
AcknowledgedWhenSent(p) == mail[p].fate \in {"sent", "stored"}

\* A 2xx can only be the answer of a holder that stored the message.
Acknowledged(p) == mail[p].fate = "stored"

\* The issuer goes on as in module Issuer, except that PostCredentials sees a
\* success only when there was one. It fails at any time: refused, timed out,
\* never sent, or answered with the answer lost.
IssuerStep ==
    /\ Next
    /\ \A p \in Pids : \A n \in DOMAIN tasks[p] :
          At(p, n, "allocating") /\ tasks'[p][n].pc = "recording"
              => Acknowledged(p)
    /\ UNCHANGED holderVars

HolderNext ==
    \/ IssuerStep
    \/ \E p \in Pids : \/ \E n \in DOMAIN tasks[p] : Transmit(p, n)
                       \/ HolderStores(p)
                       \/ HolderRefuses(p)

\* The holders and the network owe the issuer nothing: its own timeouts are
\* all that ends a delivery (see Fairness).
HolderSpec == HolderInit /\ [][HolderNext]_allVars /\ Fairness

-----------------------------------------------------------------------------
(* Properties *)

\* The record of a held credential.
RecordOf(c) == {r \in records : r.pid = c.pid /\ r.def = c.def /\ r.idx = c.idx}

\* What is in the holder's store when the issuer says DELIVERED is what the
\* issuer has on record, credential by credential: a delivery is not reported
\* before the holder answered for all of it. (An OID4VCI redemption has no
\* delivery task: its credential travels in the response to its request.)
RecordedIsHeld ==
    \A r \in records :
        Len(tasks[r.pid]) > 0 => [pid |-> r.pid, def |-> r.def, idx |-> r.idx] \in held

\* Nothing reaches a holder for a process an operator rejected, not even after
\* the rejection: decide_holder leaves a claimed process alone, and a task
\* that claims later sees the rejection.
RejectedGetsNothing ==
    \A p \in DOMAIN requests :
        requests[p].state \in {"SUBMITTED", "REJECTED"} => mail[p].fate = "unsent"

\* A credential the issuer stands by reads as revoked exactly when it was
\* revoked, although a delivery that failed on our side and succeeded on the
\* holder's leaves a copy behind whose index is handed out again. The copy may
\* read as revoked with the credential that got its index, never the other way
\* round ("fail-safe", issuer.rs).
RevocationHitsItsOwn ==
    \A c \in held : \A r \in RecordOf(c) :
        r.idx \in statusList.bits <=> r.status = "revoked"

\* A copy nobody has on record is one of a delivery that was not reported as a
\* success, and its index belongs to at most one credential on record.
CopiesAreOfFailures ==
    \A c \in held : RecordOf(c) = {} =>
        /\ c.pid \in DOMAIN requests => requests[c.pid].state # "DELIVERED"
        /\ Cardinality({r \in records : r.idx = c.idx}) <= 1

\* Issuer and holder agree on what was issued, but for the copies of
\* deliveries whose success never reached the issuer.
HeldMatchesRecords ==
    /\ HolderTypeOK
    /\ RecordedIsHeld
    /\ CopiesAreOfFailures
=============================================================================
