-------------------------------- MODULE MCVpu --------------------------------
(* VpuPipeline for TLC: small queues, a short film and few seeks.            *)
EXTENDS VpuPipeline
=============================================================================
