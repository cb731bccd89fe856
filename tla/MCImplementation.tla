-------------------------- MODULE MCImplementation --------------------------
(* Small instances of ImplementationStage for TLC. *)
EXTENDS ImplementationStage

Local(enabled, mode) == [enabled |-> enabled, mode |-> mode, docker |-> FALSE]

\* An operator who turns the stage on and off and changes its mode.
MCConfigurations ==
    {Local(TRUE, "automatic"), Local(FALSE, "automatic"), Local(TRUE, "preview"),
     [enabled |-> TRUE, mode |-> "preview", docker |-> TRUE]}
MCAutomatic == {Local(TRUE, "automatic")}

\* Deletions are all that people do.
MCDeletions == {"comment"}
MCEdits == EditKinds
=============================================================================
