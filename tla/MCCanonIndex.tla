----------------------------- MODULE MCCanonIndex -----------------------------
(* Instances of CanonIndex for TLC. *)
EXTENDS CanonIndex, TLC

CONSTANTS r1, r2, o1, o2, a, b

MCCallers == Retrievals \cup {Indexer}
==============================================================================
