-------------------------- MODULE MCSiteLogUpload --------------------------
(* SiteLogUpload with the symmetry of its interchangeable values. *)
EXTENDS SiteLogUpload, TLC

Interchangeable ==
    Permutations(Requests) \cup Permutations(EvidenceIds) \cup Permutations(Jobs)
=============================================================================
