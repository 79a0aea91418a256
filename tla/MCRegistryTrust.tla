--------------------------- MODULE MCRegistryTrust ---------------------------
(* An instance of RegistryTrust for TLC. *)
EXTENDS RegistryTrust, TLC

CONSTANTS c1, c2

\* The checks are interchangeable.
Interchangeable == Permutations(Callers)
=============================================================================
