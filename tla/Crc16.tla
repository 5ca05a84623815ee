--------------------------------- MODULE Crc16 ---------------------------------
(***************************************************************************)
(* crc16 of tool.py, the checksum genPacket puts in every frame.  A number *)
(* is the set of the positions of its 1 bits, so that it has no width, as  *)
(* a Python int: the register of crc16 grows by 8 bits with each byte and  *)
(* is masked once, at the end.  The bootloader, external, has a register   *)
(* of 16 bits; the two must agree, or no frame is ever accepted.           *)
(***************************************************************************)
EXTENDS Naturals, Sequences

CONSTANTS
    Bytes,     \* the bytes of a packet, each a set of bits 0 .. 7
    MaxBytes,  \* bound: bytes in a packet
    BurstBits  \* bits of the longest burst of errors

ASSUME BytesAssumption == Bytes \subseteq SUBSET (0 .. 7)
\* The generator is of degree 16: there are bursts of 17 bits it divides.
ASSUME BurstBitsAssumption == BurstBits \in 1 .. 16

VARIABLES
    data,   \* the bytes so far
    crc,    \* crc of crc16
    reg     \* the register of the device

vars == <<data, crc, reg>>

Poly == {0, 5, 12}   \* 0x1021

Xor(a, b)   == (a \ b) \cup (b \ a)
Shl(a, n)   == {i + n : i \in a}
Mask(a)     == {i \in a : i < 16}   \* & 0xFFFF

\* Mutants of Turn: the bit is tested after the shift; the number is compared with
\* 0x8000; the polynomial is lost.
TurnTestsLate(a) == IF 15 \in Shl(a, 1) THEN Xor(Shl(a, 1), Poly) ELSE Shl(a, 1)
TurnCompares(a)  == IF \E i \in a : i >= 15 THEN Xor(Shl(a, 1), Poly) ELSE Shl(a, 1)
TurnNoPoly(a)    == Shl(a, 1)

\* One turn of the inner loop: crc << 1, and ^ poly if crc & 0x8000.
Turn(a) == IF 15 \in a THEN Xor(Shl(a, 1), Poly) ELSE Shl(a, 1)

\* The eight turns for one byte.
Turns(a) == Turn(Turn(Turn(Turn(Turn(Turn(Turn(Turn(a))))))))
AddByte(a, byte) == Turns(Xor(a, Shl(byte, 8)))

\* The same in a register of 16 bits.
Turn16(a)  == Mask(Turn(a))
Turns16(a) == Turn16(Turn16(Turn16(Turn16(Turn16(Turn16(Turn16(Turn16(a))))))))
DeviceAddByte(a, byte) == Turns16(Xor(a, Shl(byte, 8)))

Init == data = <<>> /\ crc = {} /\ reg = {}

NextByte(byte) ==
    /\ Len(data) < MaxBytes
    /\ data' = Append(data, byte)
    /\ crc' = AddByte(crc, byte)
    /\ reg' = DeviceAddByte(reg, byte)

Next == \E byte \in Bytes : NextByte(byte)

Spec == Init /\ [][Next]_vars

\* crc16(data), from data.
crc16(bytes) ==
    LET after[n \in 0 .. Len(bytes)] ==
          IF n = 0 THEN {} ELSE AddByte(after[n - 1], bytes[n])
    IN  Mask(after[Len(bytes)])

-----------------------------------------------------------------------------

\* Bit i of the packet as a number, its last byte lowest.
Number(bytes) ==
    UNION {Shl(bytes[n], 8 * (Len(bytes) - n)) : n \in DOMAIN bytes}

Generator == {16, 12, 5, 0}   \* x^16 + x^12 + x^5 + 1

\* The remainder of number * x^16 by it, by long division from the highest power, top.
Remainder(number, top) ==
    LET rest[i \in 16 .. top + 1] ==
          IF i = top + 1 THEN Shl(number, 16)
          ELSE LET r == rest[i + 1]
               IN  IF i \in r THEN Xor(r, Shl(Generator, i - 16)) ELSE r
    IN  rest[16]

\* The crc of a packet is the remainder of its division by the polynomial, the
\* CRC-16/XMODEM its docstring names (tool.py:39-45).
CrcIsRemainder ==
    Mask(crc) = Remainder(Number(data), 8 * Len(data) + 15)

\* The number without a width, masked once at the end, and the register of 16 bits
\* that loses its carry at each turn agree, however long the packet: what has gone
\* above bit 15 never comes back (tool.py:46-52).
AgreesWithDevice == Mask(crc) = reg

\* Errors next to each other: a burst of up to BurstBits bits, the first one wrong.
Bursts ==
    UNION {{Shl({0} \cup p, k) : p \in SUBSET (1 .. BurstBits - 1)} :
             k \in 0 .. 8 * Len(data) - 1}

\* number as a packet of as many bytes as data.
Packet(number) ==
    [n \in DOMAIN data |->
        {i \in 0 .. 7 : i + 8 * (Len(data) - n) \in number}]

\* Two packets that differ by such a burst never have the same crc, so that the device
\* refuses the damaged one (genPacket, protocol.py:43-52).
BurstsDetected ==
    \A e \in Bursts :
        LET damaged == Packet(Xor(Number(data), e))
        IN  damaged # data => crc16(damaged) # Mask(crc)
=============================================================================
