----------------------------- MODULE MCFtpQueue -----------------------------
(* Instances of FtpQueue for TLC. *)
EXTENDS FtpQueue, TLC

OpSymmetry == Permutations(Op)
=============================================================================
