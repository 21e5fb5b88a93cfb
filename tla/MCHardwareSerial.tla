-------------------------- MODULE MCHardwareSerial --------------------------
(* HardwareSerial for TLC: rings of two slots, counters that wrap at 4.    *)
EXTENDS HardwareSerial
=============================================================================
