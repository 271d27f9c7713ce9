-------------------------- MODULE MCHostAdmission --------------------------
(* HostAdmission on two connections of one device.                          *)
EXTENDS HostAdmission

CONSTANTS p1, p2, k1
=============================================================================
