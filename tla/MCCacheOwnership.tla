-------------------------- MODULE MCCacheOwnership --------------------------
(***************************************************************************)
(* Model values for checking CacheOwnership with TLC: two of each object,  *)
(* enough for two builders to share one cache (with_cache) while another  *)
(* cache borrows or owns a second interner.  Objects of one kind are      *)
(* interchangeable, so each set is a symmetry set.                         *)
(***************************************************************************)
EXTENDS CacheOwnership, TLC

CONSTANTS i1, i2, c1, c2, b1, b2

MCInterners == {i1, i2}
MCCaches == {c1, c2}
MCBuilders == {b1, b2}

Symmetry ==
    Permutations(MCInterners) \cup Permutations(MCCaches) \cup Permutations(MCBuilders)

=============================================================================
