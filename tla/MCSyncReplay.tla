----------------------------- MODULE MCSyncReplay -----------------------------
(* Instances of SyncReplay for TLC. *)
EXTENDS SyncReplay, TLC

\* Workers, tokens and fingerprints are interchangeable: no definition names
\* one of them, and no liveness property is checked.
Symmetry == Permutations(Workers) \cup Permutations(Tokens) \cup Permutations(Fingerprints)
=============================================================================
