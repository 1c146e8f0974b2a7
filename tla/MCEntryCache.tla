---------------------------- MODULE MCEntryCache ----------------------------
(* An instance of EntryCache for TLC.                                        *)
EXTENDS EntryCache, TLC

CONSTANTS h1, h2, k1, k2

MCSymmetry == Permutations({h1, h2}) \cup Permutations({k1, k2})
=============================================================================
