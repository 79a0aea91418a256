------------------------------ MODULE MCWallet -------------------------------
(* An instance of Wallet for TLC. *)
EXTENDS Wallet, TLC

\* No details, identifiers for two of the configurations, and details that
\* `credential_identifiers_for` must pass over.
Detail(type, id, ids) == [type |-> type, config |-> id, ids |-> ids]

MCAuthorizationDetails ==
    { <<>>,
      << Detail("openid_credential", "c1", <<"i1", "i2">>) >>,
      << Detail("openid_credential", "c2", <<"i3">>),
         Detail("other", "c1", <<"i4">>),
         Detail("openid_credential", "c1", <<>>) >> }
=============================================================================
