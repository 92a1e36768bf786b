------------------------ MODULE MCDeviceAuthorization ------------------------
(* DeviceAuthorization on a small instance.                                *)
EXTENDS DeviceAuthorization, TLC

RowSymmetry == Permutations(Requests) \cup Permutations(Users)
=============================================================================
