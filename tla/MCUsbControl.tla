---------------------------- MODULE MCUsbControl ----------------------------
(* UsbControl for TLC: a string between the configuration's descriptors,   *)
(* which are six bytes in packets of two.                                  *)
EXTENDS UsbControl, TLC

MCDescriptors == <<"device", "conf", "string", "if", "ep">>
MCLengthOf == "device" :> 3 @@ "conf" :> 3 @@ "string" :> 2 @@ "if" :> 2 @@ "ep" :> 1
=============================================================================
