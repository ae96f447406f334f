-------------------------- MODULE MCMetadataCache --------------------------
(* Small instances of MetadataCache for TLC. *)
EXTENDS MetadataCache, TLC

Symmetry == Permutations(Sessions)
=============================================================================
