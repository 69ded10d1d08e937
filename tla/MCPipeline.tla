----------------------------- MODULE MCPipeline -----------------------------
(* The programs of MCCpu, executed by cycles and by whole instructions.      *)
EXTENDS Pipeline, MCCpu
=============================================================================
