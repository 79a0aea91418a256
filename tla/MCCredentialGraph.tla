-------------------------- MODULE MCCredentialGraph --------------------------
(* Instances of CredentialGraph for TLC. *)
EXTENDS CredentialGraph, TLC

CONSTANTS w1, w2

\* The requests are interchangeable.
Interchangeable == Permutations(Writers)
=============================================================================
