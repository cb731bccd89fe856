------------------------------ MODULE MCReview ------------------------------
(* Small instances of ReviewStage for TLC: a pull request whose head people  *)
(* move while it is reviewed.                                                *)
EXTENDS ReviewStage

TwoModes == {"preview", "automatic"}
TwoHeads == [head : {1, 2}, base : {1}]
=============================================================================
