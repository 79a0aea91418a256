------------------------------ MODULE MCIssuer ------------------------------
(* Instances of Issuer for TLC. *)
EXTENDS Issuer, TLC

CONSTANTS d1, d2, h1, h2, r1

\* Holders are interchangeable.
Interchangeable == Permutations(Holders)
=============================================================================
