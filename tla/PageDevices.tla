----------------------------- MODULE PageDevices -----------------------------
(***************************************************************************)
(* The devices that are paired, as the operator's page lists them          *)
(* (SubDeviceProvider), and the selection of none of them (null).          *)
(***************************************************************************)
CONSTANTS Devices, NoDevice

ASSUME NoDeviceAssumption == NoDevice \notin Devices
=============================================================================
