---------------------------- MODULE MCSerialLink ----------------------------
(* SerialLink on small instances; the constants are in the .cfg files.     *)
EXTENDS SerialLink

=============================================================================
