---------------------------- MODULE MCDeviceList ----------------------------
(* A small instance of DeviceList.                                          *)
EXTENDS DeviceList, TLC

=============================================================================
