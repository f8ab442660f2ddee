---------------------------- MODULE MCDiscovery ----------------------------
(* The instance of Discovery for TLC: the devices of the repository. The   *)
(* flash of one answers with bytes of one and of two digits, that of the   *)
(* other not at all.                                                       *)
EXTENDS Discovery

Response == <<255, 255, 255, 255, 255, 230, 103, 12, 87, 0, 83, 111, 171>>

AllDevices ==
  [moondancer |-> MoondancerDescriptors(Response),
   unread |-> MoondancerDescriptors(<<>>),
   acm |-> AcmDescriptors,
   speed_test |-> SpeedTestDescriptors,
   usb_hal |-> UsbHalDescriptors]
=============================================================================
