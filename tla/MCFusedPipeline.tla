-------------------------- MODULE MCFusedPipeline --------------------------
(* Small instance of FusedPipeline.  Four messages, a queue of three and   *)
(* batches of two: the queue fills, a batch takes part of it, a message is *)
(* coalesced while another is being processed.                             *)
EXTENDS FusedPipeline

MCPolicies == AllPolicies
MCQueued == {"latest"}
=============================================================================
