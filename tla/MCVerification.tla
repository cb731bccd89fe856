--------------------------- MODULE MCVerification ---------------------------
(* Small instances of VerificationStage for TLC: a pull request whose head   *)
(* moves while it is verified.                                               *)
EXTENDS VerificationStage

TwoHeads == [head : {1, 2}, base : {1}]
=============================================================================
