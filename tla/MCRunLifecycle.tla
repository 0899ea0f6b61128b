--------------------------- MODULE MCRunLifecycle ---------------------------
(* Instances of RunLifecycle for TLC; executors are interchangeable.       *)
EXTENDS RunLifecycle, TLC

ExecutorSymmetry == Permutations(Executors)
=============================================================================
