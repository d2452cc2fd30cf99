-------------------------- MODULE MCCommandHandoff --------------------------
(* The command handoff on two cameras, or one, with bounded submissions.   *)
EXTENDS CommandHandoff
=============================================================================
