----------------------------- MODULE MCOid4vci ------------------------------
(* Instances of Oid4vci for TLC. *)
EXTENDS Oid4vci, TLC

CONSTANTS d1, d2, q1, q2

\* Definitions and concurrent requests are interchangeable.
Interchangeable == Permutations(Definitions) \cup Permutations(Requests)
=============================================================================
