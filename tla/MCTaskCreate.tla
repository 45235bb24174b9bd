---------------------------- MODULE MCTaskCreate -----------------------------
(* One wished-for task on small instances.                                  *)
EXTENDS TaskCreate, TLC

NewKeys == Permutations(Keys)
=============================================================================
