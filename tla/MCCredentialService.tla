------------------------- MODULE MCCredentialService -------------------------
(* Small instances of the Credential Service for TLC. *)
EXTENDS CredentialService, TLC

CONSTANTS p1, p2, t1, t2

\* A credential that passes every check until it expires at time 1, and one
\* that outlasts the clock.
Good == [issuer |-> p1, proof |-> TRUE, type |-> t1, typed |-> TRUE, own |-> TRUE,
         exp |-> 1]
Lasting == [Good EXCEPT !.type = t2, !.exp = MaxTime + 1]

\* The messages: acceptable ones, one that is REJECTED, one of an unknown
\* status, and one for each check of a credential.
MCMessages ==
    {[status |-> "ISSUED", credentials |-> {Good, Lasting}],
     [status |-> "REJECTED", credentials |-> {Lasting}],
     [status |-> "INVALID", credentials |-> {Lasting}],
     [status |-> "ISSUED", credentials |-> {[Lasting EXCEPT !.issuer = p2]}],
     [status |-> "ISSUED", credentials |-> {[Lasting EXCEPT !.proof = FALSE]}],
     [status |-> "ISSUED", credentials |-> {Lasting, [Lasting EXCEPT !.own = FALSE]}],
     [status |-> "ISSUED", credentials |-> {[Lasting EXCEPT !.typed = FALSE]}]}

MCOffers ==
    {[issuer |-> p1, credentials |-> {"typed", "listed"}],
     [issuer |-> p2, credentials |-> {"listed", "unlisted"}]}

Interchangeable == Permutations(Calls)
=============================================================================
