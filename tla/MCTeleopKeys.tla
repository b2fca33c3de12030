---------------------------- MODULE MCTeleopKeys ----------------------------
(* TeleopKeys for TLC.                                                       *)
EXTENDS TeleopKeys

MCSeconds == {0}

\* The commands come from the client, not from a constant.
MCCommands == {}

=============================================================================
