------------------------------ MODULE MCUsbHid ------------------------------
(* UsbHid on small instances; the constants are in the .cfg files.         *)
EXTENDS UsbHid

=============================================================================
