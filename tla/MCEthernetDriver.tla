-------------------------- MODULE MCEthernetDriver --------------------------
(* EthernetDriver for TLC, with the firmware's two receive and two         *)
(* transmit descriptors and its five buffers, which are interchangeable.   *)
EXTENDS EthernetDriver, TLC

Symmetry == Permutations(Buffers)
=============================================================================
