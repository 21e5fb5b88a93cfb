---------------------------- MODULE MCUsbSerial -----------------------------
(* UsbSerial for TLC: packets of two bytes.                                *)
EXTENDS UsbSerial
=============================================================================
