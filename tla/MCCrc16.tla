-------------------------------- MODULE MCCrc16 --------------------------------
(* Packets of the bytes 0x00, 0x01, 0x5A, 0x80, 0xA4 and 0xFF.               *)
EXTENDS Crc16

MCBytes == {{}, {0}, {1, 3, 4, 6}, {7}, {2, 5, 7}, 0 .. 7}
=============================================================================
