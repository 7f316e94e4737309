------------------------------- MODULE MCApi -------------------------------
(* Two clients of one VPU, with two instances. *)
EXTENDS VpuApi
=============================================================================
