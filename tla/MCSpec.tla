------------------------------- MODULE MCSpec -------------------------------
(* Small instances of SpecStage for TLC. *)
EXTENDS SpecStage

\* In the intake of this stage, and perhaps still in that of triage.
MCLabels == {{Intake}, {Intake, Triage}}
=============================================================================
