--------------------------- MODULE MCNetworkPath ---------------------------
(* Instances of NetworkPath: one or two socket tasks, a pool of messages     *)
(* that is smaller or larger than the mailbox.                               *)
EXTENDS NetworkPath, TLC

PbufSymmetry == Permutations(Pbufs)
=============================================================================
