--------------------------- MODULE MCIssuerHolder ---------------------------
(* An instance of IssuerHolder for TLC. *)
EXTENDS IssuerHolder

CONSTANTS d1, d2, h1, h2
=============================================================================
