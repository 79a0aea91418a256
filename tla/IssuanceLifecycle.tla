------------------------- MODULE IssuanceLifecycle --------------------------
(***************************************************************************)
(* What the Issuer Service promises about one issuance process, whatever   *)
(* its table, its locks and its delivery tasks do: the states the status   *)
(* endpoint and the Admin API report, when they change and together with   *)
(* which credentials.  Module Issuer is shown to implement it.             *)
(***************************************************************************)
CONSTANTS Processes, Owners, Credentials, Nobody

VARIABLES
    phase,   \* phase[p]: how far p is
    owner,   \* owner[p]: the holder p issues to, Nobody if p is not tracked
    issued   \* issued[p]: the definitions p has a credential on record for

lifecycle == <<phase, owner, issued>>

Waiting  == "SUBMITTED"
Settled  == {"DELIVERED", "ERRORED", "REJECTED"}

Init ==
    /\ phase = [p \in Processes |-> "unborn"]
    /\ owner = [p \in Processes |-> Nobody]
    /\ issued = [p \in Processes |-> {}]

\* p is created for h in state `first`; the oldest settled process may be
\* forgotten to make room for it, and no other ever is.
Create(p, h, first) ==
    /\ phase[p] = "unborn"
    /\ \E gone \in SUBSET {q \in Processes : phase[q] \in Settled} :
          /\ \A q, r \in gone : q = r
          /\ phase' = [q \in Processes |-> IF q = p THEN first
                                           ELSE IF q \in gone THEN "forgotten"
                                           ELSE phase[q]]
          /\ owner' = [q \in Processes |-> IF q = p THEN h
                                           ELSE IF q \in gone THEN Nobody
                                           ELSE owner[q]]
    /\ UNCHANGED issued

\* A decision on h moves every process of h it can still affect, at once, and
\* no process of anybody else.
Decide(h, from, next) ==
    /\ phase' = [p \in Processes |->
                    IF owner[p] = h /\ phase[p] \in from THEN next ELSE phase[p]]
    /\ UNCHANGED <<owner, issued>>

\* From here on no decision stops p.
StartDelivery(p) ==
    /\ phase[p] = "APPROVED"
    /\ phase' = [phase EXCEPT ![p] = "delivering"]
    /\ UNCHANGED <<owner, issued>>

\* All credentials of p go on record in one step, once.
PutOnRecord(p, ds) ==
    /\ phase[p] \in {"delivering", "DELIVERED", "forgotten"}
    /\ issued[p] = {}
    /\ issued' = [issued EXCEPT ![p] = ds]
    /\ UNCHANGED <<phase, owner>>

\* The outcome reported is whether there are credentials on record.
ReportOutcome(p) ==
    /\ phase[p] = "delivering"
    /\ phase' = [phase EXCEPT ![p] = IF issued[p] # {} THEN "DELIVERED"
                                                       ELSE "ERRORED"]
    /\ UNCHANGED <<owner, issued>>

Next ==
    \/ \E p \in Processes, h \in Owners :
          \E first \in {"SUBMITTED", "APPROVED", "DELIVERED"} :
              Create(p, h, first)
    \/ \E h \in Owners :
          \/ Decide(h, {Waiting}, "APPROVED")
          \/ Decide(h, {Waiting, "APPROVED"}, "REJECTED")
    \/ \E p \in Processes :
          \/ StartDelivery(p)
          \/ ReportOutcome(p)
          \/ \E ds \in (SUBSET Credentials) \ {{}} : PutOnRecord(p, ds)

Spec == Init /\ [][Next]_lifecycle
=============================================================================
