---------------------------- MODULE MCEvidencePut ----------------------------
(* S3 puts on small instances.                                              *)
EXTENDS EvidencePut, TLC

FirstEarlier == Evidences \X Contents \X {1}

SameBytes == Permutations(Contents)
=============================================================================
