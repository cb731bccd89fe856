------------------------------ MODULE MCTriage ------------------------------
(* Small instances of TriageStage for TLC: r1 moves the issue on the board,  *)
(* the other routes only label it.                                           *)
EXTENDS TriageStage

CONSTANTS r1, r2, r3, inbox, ready, t1

MCRouteColumn == [r \in Routes |-> IF r = r1 THEN ready ELSE NoColumn]

\* Off the board, on it with the labels of two earlier routes.
MCIssues ==
    {[labels |-> {Intake}, column |-> NoColumn, text |-> t1],
     [labels |-> {Intake, r2, r3}, column |-> inbox, text |-> t1]}
=============================================================================
