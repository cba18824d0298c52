------------------------------- MODULE MCCli --------------------------------
(* Small instances of Cli, with the faults of MCPipeline, for TLC. *)
EXTENDS Cli, MCPipeline
=============================================================================
