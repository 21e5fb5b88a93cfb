-------------------------- MODULE MCNetworkBuffers --------------------------
(* NetworkBuffers for TLC: two tasks, the interrupt handlers, few buffers. *)
EXTENDS NetworkBuffers
=============================================================================
