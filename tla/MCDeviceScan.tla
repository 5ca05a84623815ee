------------------------------ MODULE MCDeviceScan ------------------------------
(* Two pairs the scan looks for and one it does not.  Devices one and two are *)
(* of one pair, and sort against their ports; three has no serial number and  *)
(* may take the port of two; four is of another pair.                         *)
EXTENDS DeviceScan

Dev(vp, port, sn, named) == [vp |-> vp, port |-> port, sn |-> sn, named |-> named]

SomeDevices ==
    { Dev("k1", 1, 2, TRUE), Dev("k1", 2, 1, TRUE),
      Dev("k1", 2, 0, FALSE), Dev("k2", 3, 1, TRUE), Dev("k2", 5, 3, TRUE), Dev("other", 4, 1, TRUE) }

SomeKnown == {"k1", "k2"}
=============================================================================
