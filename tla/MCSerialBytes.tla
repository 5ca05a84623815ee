----------------------------- MODULE MCSerialBytes -----------------------------
(* SerialBytes with a status of SUCCESS (0) and an error (7), responses     *)
(* with and without a value, and payloads with and without a 0x5A.          *)
EXTENDS SerialBytes

SomeResponses == {<<1, 0>>, <<1, 0, 7>>, <<1, 7, START>>}
SomePackets   == {<<7>>, <<START, 7>>}

=============================================================================
