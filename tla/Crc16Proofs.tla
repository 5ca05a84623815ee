------------------------------ MODULE Crc16Proofs ------------------------------
(***************************************************************************)
(* What goes above bit 15 of crc16's number never comes back: one turn of  *)
(* the loop commutes with the mask, so do the eight turns of a byte, and   *)
(* the mask at the end gives what a register of 16 bits holds.             *)
(*                                                                         *)
(* That register is the remainder of the packet so far: Dividing, the      *)
(* inductive invariant, holds a division that ends in it, and a byte more  *)
(* carries that division on, eight bits up, with a turn of the register    *)
(* for each of its last eight steps.                                       *)
(*                                                                         *)
(* A burst is seen because the remainder of what two packets differ in is  *)
(* what their remainders differ in, and that of a burst is never empty.    *)
(***************************************************************************)
EXTENDS Crc16, NaturalsInduction, WellFoundedInduction, TLAPS

\* One turn sees bits 0 to 15 only: masking before it changes nothing of what is
\* below bit 16 after it (tool.py:49-52).
LEMMA TurnMask ==
    ASSUME NEW a \in SUBSET Nat
    PROVE  /\ Mask(Turn(a)) = Turn16(Mask(a))
           /\ Turn(a) \in SUBSET Nat
  <1>1. Shl(a, 1) \in SUBSET Nat
    BY DEF Shl
  <1>2. \A j : j \in Mask(Shl(a, 1)) <=> j \in Mask(Shl(Mask(a), 1))
    BY DEF Shl, Mask
  <1>3. 15 \in a <=> 15 \in Mask(a)
    BY DEF Mask
  <1>4. \A b, c : Mask(Xor(b, c)) = Xor(Mask(b), Mask(c))
    BY DEF Mask, Xor
  <1>5. Mask(Shl(a, 1)) = Mask(Shl(Mask(a), 1))
    BY <1>2
  <1>6. Mask(Turn(a)) = Mask(Turn(Mask(a)))
    BY <1>3, <1>4, <1>5 DEF Turn
  <1>7. Turn(a) \in SUBSET Nat
    BY <1>1 DEF Turn, Xor, Poly
  <1> QED BY <1>6, <1>7 DEF Turn16

\* So do the eight turns of a byte (tool.py:48-52).
LEMMA TurnsMask ==
    ASSUME NEW a \in SUBSET Nat
    PROVE  /\ Mask(Turns(a)) = Turns16(Mask(a))
           /\ Turns(a) \in SUBSET Nat
  <1> DEFINE a1 == Turn(a)   a2 == Turn(a1)  a3 == Turn(a2)  a4 == Turn(a3)
             a5 == Turn(a4)  a6 == Turn(a5)  a7 == Turn(a6)  a8 == Turn(a7)
  <1>1. a1 \in SUBSET Nat /\ Mask(a1) = Turn16(Mask(a))   BY TurnMask
  <1>2. a2 \in SUBSET Nat /\ Mask(a2) = Turn16(Mask(a1))  BY <1>1, TurnMask
  <1>3. a3 \in SUBSET Nat /\ Mask(a3) = Turn16(Mask(a2))  BY <1>2, TurnMask
  <1>4. a4 \in SUBSET Nat /\ Mask(a4) = Turn16(Mask(a3))  BY <1>3, TurnMask
  <1>5. a5 \in SUBSET Nat /\ Mask(a5) = Turn16(Mask(a4))  BY <1>4, TurnMask
  <1>6. a6 \in SUBSET Nat /\ Mask(a6) = Turn16(Mask(a5))  BY <1>5, TurnMask
  <1>7. a7 \in SUBSET Nat /\ Mask(a7) = Turn16(Mask(a6))  BY <1>6, TurnMask
  <1>8. a8 \in SUBSET Nat /\ Mask(a8) = Turn16(Mask(a7))  BY <1>7, TurnMask
  <1>9. Turns(a) = a8
    BY DEF Turns
  <1> HIDE DEF a1, a2, a3, a4, a5, a6, a7, a8
  <1>10. Mask(a8) = Turns16(Mask(a))
    BY <1>1, <1>2, <1>3, <1>4, <1>5, <1>6, <1>7, <1>8 DEF Turns16
  <1> QED BY <1>8, <1>9, <1>10

\* The inductive form of AgreesWithDevice: crc is a number.
Agreement ==
    /\ crc \in SUBSET Nat
    /\ AgreesWithDevice

\* A byte commutes with the mask (tool.py:47-52).
LEMMA AddByteMask ==
    ASSUME NEW a \in SUBSET Nat, NEW byte \in SUBSET (0 .. 7)
    PROVE  /\ AddByte(a, byte) \in SUBSET Nat
           /\ Mask(AddByte(a, byte)) = DeviceAddByte(Mask(a), byte)
  <1> DEFINE fed == Xor(a, Shl(byte, 8))
  <1>1. Shl(byte, 8) \in SUBSET Nat /\ Mask(Shl(byte, 8)) = Shl(byte, 8)
    <2>1. \A j \in Shl(byte, 8) : j \in Nat /\ j < 16
      <3> SUFFICES ASSUME NEW i \in byte PROVE i + 8 \in Nat /\ i + 8 < 16
        BY DEF Shl
      <3> QED BY i \in 0 .. 7
    <2> QED BY <2>1 DEF Mask
  <1>2. fed \in SUBSET Nat
    BY <1>1 DEF Xor
  <1>3. Mask(fed) = Xor(Mask(a), Shl(byte, 8))
    BY <1>1 DEF Mask, Xor
  <1>4. AddByte(a, byte) = Turns(fed) /\ DeviceAddByte(Mask(a), byte) = Turns16(Mask(fed))
    BY <1>3 DEF AddByte, DeviceAddByte
  <1> HIDE DEF fed
  <1> QED BY <1>2, <1>4, TurnsMask

\* One byte keeps the two in agreement (tool.py:46-52).
LEMMA ByteAgrees ==
    ASSUME NEW byte \in SUBSET (0 .. 7), Agreement,
           crc' = AddByte(crc, byte), reg' = DeviceAddByte(reg, byte)
    PROVE  Agreement'
  <1> QED BY AddByteMask DEF Agreement, AgreesWithDevice

\* For packets of any length and any bytes, crc16 masked once at the end is what the
\* device's register of 16 bits holds (tool.py:46-53).
THEOREM MaskAtTheEnd == Spec => []AgreesWithDevice
  <1>1. Init => Agreement
    BY DEF Init, Agreement, AgreesWithDevice, Mask
  <1>2. Agreement /\ [Next]_vars => Agreement'
    <2> SUFFICES ASSUME Agreement, [Next]_vars PROVE Agreement'
      OBVIOUS
    <2>1. CASE Next
      <3>1. PICK byte \in Bytes : NextByte(byte)
        BY <2>1 DEF Next
      <3>2. byte \in SUBSET (0 .. 7)
        BY <3>1, BytesAssumption
      <3> QED BY <3>1, <3>2, ByteAgrees DEF NextByte
    <2>2. CASE UNCHANGED vars
      BY <2>2 DEF vars, Agreement, AgreesWithDevice, Mask
    <2> QED BY <2>1, <2>2
  <1>3. Agreement => AgreesWithDevice
    BY DEF Agreement
  <1> QED BY <1>1, <1>2, <1>3, PTL DEF Spec

-----------------------------------------------------------------------------
(* The remainder.                                                           *)

\* A set of naturals has a least one.
LEMMA Least ==
    ASSUME NEW T \in SUBSET Nat, T # {}
    PROVE  \E m \in T : \A k \in T : m <= k
  <1> DEFINE R == OpToRel(<, Nat)
  <1>1. IsWellFoundedOn(R, Nat)
    BY NatLessThanWellFounded
  <1>2. \A k, m \in Nat : k < m => <<k, m>> \in R
    BY DEF OpToRel
  <1> HIDE DEF R
  <1>3. PICK m \in T : \A k \in T : ~ (<<k, m>> \in R)
    BY <1>1, WFMin, Zenon
  <1>4. m \in Nat /\ \A k \in T : k \in Nat
    OBVIOUS
  <1>5. \A k \in T : ~ (k < m)
    BY <1>2, <1>3, <1>4, Zenon
  <1> QED BY <1>4, <1>5

\* One step of the long division: the generator is taken off at bit i.
Divided(i, r) == IF i \in r THEN Xor(r, Shl(Generator, i - 16)) ELSE r

\* f is the rest at each bit of the division of number * x^16 from top on.
Divides(f, number, top) ==
    f = [i \in 16 .. top + 1 |->
           IF i = top + 1 THEN Shl(number, 16) ELSE Divided(i, f[i + 1])]

\* There is only one such division: the highest bit at which two would differ has a
\* next one at which they would too.
LEMMA DivisionIsOne ==
    ASSUME NEW f, NEW g, NEW number, NEW top \in Nat, top >= 15,
           Divides(f, number, top), Divides(g, number, top)
    PROVE  f[16] = g[16]
  <1> DEFINE Bad == {n \in 0 .. top - 15 : f[top + 1 - n] # g[top + 1 - n]}
  <1>1. SUFFICES ASSUME Bad # {} PROVE FALSE
    <2>1. top - 15 \in 0 .. top - 15 /\ top + 1 - (top - 15) = 16
      OBVIOUS
    <2> QED BY <2>1
  <1>2. Bad \in SUBSET Nat
    OBVIOUS
  <1>3. PICK m \in Bad : \A k \in Bad : m <= k
    <2> HIDE DEF Bad
    <2> QED BY <1>1, <1>2, Least
  <1>4. m \in 0 .. top - 15 /\ f[top + 1 - m] # g[top + 1 - m]
    BY <1>3
  <1>5. PICK i \in 16 .. top + 1 : i = top + 1 - m
    BY <1>4
  <1>6. f[i] # g[i]
    BY <1>4, <1>5
  <1>7. i # top + 1
    BY <1>6 DEF Divides
  <1>8. m - 1 \in 0 .. top - 15 /\ ~ (m <= m - 1) /\ i + 1 = top + 1 - (m - 1)
    BY <1>4, <1>5, <1>7
  <1>9. m - 1 \notin Bad
    <2> HIDE DEF Bad
    <2> QED BY <1>3, <1>8
  <1>10. f[i + 1] = g[i + 1]
    BY <1>8, <1>9
  <1>11. f[i] = Divided(i, f[i + 1]) /\ g[i] = Divided(i, g[i + 1])
    BY <1>5, <1>7 DEF Divides
  <1> QED BY <1>6, <1>10, <1>11

\* So that any division ends in Remainder.
LEMMA RemainderIs ==
    ASSUME NEW f, NEW number, NEW top \in Nat, top >= 15, Divides(f, number, top)
    PROVE  Remainder(number, top) = f[16]
  <1> DEFINE rest == CHOOSE g : Divides(g, number, top)
  <1>1. Divides(rest, number, top)
    BY Zenon
  <1>2. Remainder(number, top) = rest[16]
    BY DEF Remainder, Divides, Divided
  <1> HIDE DEF rest
  <1> QED BY <1>1, <1>2, DivisionIsOne

\* Shifts, by the bits they leave.
LEMMA ShlBits ==
    ASSUME NEW a \in SUBSET Nat, NEW n \in Nat
    PROVE  /\ Shl(a, n) \in SUBSET Nat
           /\ \A j \in Nat : j \in Shl(a, n) <=> (j >= n /\ j - n \in a)
  <1>1. \A i \in a : i \in Nat
    OBVIOUS
  <1>2. Shl(a, n) \in SUBSET Nat
    BY <1>1 DEF Shl
  <1>3. ASSUME NEW j \in Nat, j \in Shl(a, n) PROVE j >= n /\ j - n \in a
    <2>1. PICK i \in a : j = i + n
      BY <1>3 DEF Shl
    <2>2. i \in Nat /\ j - n = i
      BY <2>1
    <2> QED BY <2>1, <2>2
  <1>4. ASSUME NEW j \in Nat, j >= n, j - n \in a PROVE j \in Shl(a, n)
    <2>1. j = (j - n) + n
      OBVIOUS
    <2> QED BY <2>1, <1>4 DEF Shl
  <1> QED BY <1>2, <1>3, <1>4

\* A step of the division of a number with a byte under it is the step of the number
\* alone, eight bits up: the byte is below the bit that is looked at.
LEMMA DividedOn ==
    ASSUME NEW r \in SUBSET Nat, NEW byte \in SUBSET (0 .. 7), NEW i \in Nat, i >= 16
    PROVE  /\ Divided(i, r) \in SUBSET Nat
           /\ Divided(i + 8, Xor(Shl(r, 8), Shl(byte, 16)))
                = Xor(Shl(Divided(i, r), 8), Shl(byte, 16))
  <1> DEFINE G == Shl(Generator, i - 16)   H == Shl(Generator, i - 8)
             R == Shl(r, 8)                B == Shl(byte, 16)
             D == Shl(Divided(i, r), 8)
  <1>1. i - 16 \in Nat /\ i - 8 \in Nat /\ Generator \in SUBSET Nat /\ byte \in SUBSET Nat
    BY DEF Generator
  <1>2. G \in SUBSET Nat /\ \A j \in Nat : j \in G <=> j >= i - 16 /\ j - (i - 16) \in Generator
    BY <1>1, ShlBits
  <1>3. H \in SUBSET Nat /\ \A j \in Nat : j \in H <=> j >= i - 8 /\ j - (i - 8) \in Generator
    BY <1>1, ShlBits
  <1>4. R \in SUBSET Nat /\ \A j \in Nat : j \in R <=> j >= 8 /\ j - 8 \in r
    BY ShlBits
  <1>5. B \in SUBSET Nat /\ \A j \in Nat : j \in B <=> j >= 16 /\ j - 16 \in byte
    BY <1>1, ShlBits
  <1>6. Divided(i, r) \in SUBSET Nat
    BY <1>2 DEF Divided, Xor
  <1>7. D \in SUBSET Nat /\ \A j \in Nat : j \in D <=> j >= 8 /\ j - 8 \in Divided(i, r)
    BY <1>6, ShlBits
  <1>8. i + 8 \in R <=> i \in r
    <2>1. i + 8 \in Nat /\ i + 8 >= 8 /\ (i + 8) - 8 = i
      OBVIOUS
    <2> HIDE DEF R
    <2> QED BY <2>1, <1>4
  <1>9. i + 8 \notin B
    <2>1. i + 8 \in Nat /\ (i + 8) - 16 = i - 8 /\ i - 8 \notin 0 .. 7
      OBVIOUS
    <2>2. i - 8 \notin byte
      BY <2>1
    <2> HIDE DEF B
    <2> QED BY <2>1, <2>2, <1>5
  <1>10. (i + 8) - 16 = i - 8
    OBVIOUS
  <1>11. CASE i \in r
    <2>1. Divided(i, r) = Xor(r, G)
      BY <1>11 DEF Divided
    <2>2. Divided(i + 8, Xor(R, B)) = Xor(Xor(R, B), H)
      BY <1>8, <1>9, <1>10, <1>11 DEF Divided, Xor
    <2>3. ASSUME NEW j \in Nat PROVE j \in D <=> j \in Xor(R, H)
      <3> HIDE DEF D, R, G, H
      <3>1. CASE j < 8
        BY <3>1, <1>3, <1>4, <1>7 DEF Xor
      <3>2. CASE j >= 8
        <4>1. PICK l \in Nat : l = j - 8
          BY <3>2
        <4>2. j \in D <=> l \in Xor(r, G)
          BY <3>2, <4>1, <1>7, <2>1
        <4>3. j \in R <=> l \in r
          BY <3>2, <4>1, <1>4
        <4>4. j \in H <=> l \in G
          <5>1. j - (i - 8) = l - (i - 16) /\ (j >= i - 8 <=> l >= i - 16)
            BY <4>1
          <5> QED BY <5>1, <1>2, <1>3
        <4> QED BY <4>2, <4>3, <4>4 DEF Xor
      <3> QED BY <3>1, <3>2
    <2>4. D = Xor(R, H)
      <3> HIDE DEF D, R, H
      <3> QED BY <2>3, <1>3, <1>4, <1>7 DEF Xor
    <2>5. Xor(Xor(R, B), H) = Xor(Xor(R, H), B)
      <3> HIDE DEF R, B, H
      <3> QED BY DEF Xor
    <2> QED BY <1>6, <2>2, <2>4, <2>5
  <1>12. CASE i \notin r
    <2>1. Divided(i, r) = r
      BY <1>12 DEF Divided
    <2>2. Divided(i + 8, Xor(R, B)) = Xor(R, B)
      BY <1>8, <1>9, <1>12 DEF Divided, Xor
    <2> QED BY <1>6, <2>1, <2>2
  <1> QED BY <1>11, <1>12

\* A step of the division of 16 bits is a turn of the device's register.
LEMMA DividedTurn ==
    ASSUME NEW a \in SUBSET (0 .. 15), NEW k \in 0 .. 7
    PROVE  /\ Turn16(a) \in SUBSET (0 .. 15)
           /\ Divided(16 + k, Shl(a, k + 1)) = Shl(Turn16(a), k)
  <1> DEFINE S == Shl(a, 1)   G == Shl(Generator, k)   A == Shl(a, k + 1)
             T == Shl(Turn16(a), k)
  <1>1. a \in SUBSET Nat /\ k \in Nat /\ k + 1 \in Nat /\ Generator \in SUBSET Nat
    BY DEF Generator
  <1>2. S \in SUBSET Nat /\ \A j \in Nat : j \in S <=> j >= 1 /\ j - 1 \in a
    BY <1>1, ShlBits
  <1>3. G \in SUBSET Nat /\ \A j \in Nat : j \in G <=> j >= k /\ j - k \in Generator
    BY <1>1, ShlBits
  <1>4. A \in SUBSET Nat /\ \A j \in Nat : j \in A <=> j >= k + 1 /\ j - (k + 1) \in a
    BY <1>1, ShlBits
  <1>5. Turn16(a) \in SUBSET (0 .. 15)
    <2> HIDE DEF S
    <2>1. Turn16(a) \subseteq Nat
      BY <1>2 DEF Turn16, Turn, Mask, Xor, Poly, S
    <2> QED BY <2>1 DEF Turn16, Mask
  <1>6. T \in SUBSET Nat /\ \A j \in Nat : j \in T <=> j >= k /\ j - k \in Turn16(a)
    BY <1>1, <1>5, ShlBits
  <1>7. 16 + k \in A <=> 15 \in a
    <2>1. 16 + k \in Nat /\ 16 + k >= k + 1 /\ (16 + k) - (k + 1) = 15
      OBVIOUS
    <2> HIDE DEF A
    <2> QED BY <2>1, <1>4
  <1>8. \A l \in Nat : l \in Turn16(a) <=>
           IF 15 \in a THEN l \in Xor(S, Generator) ELSE l \in S
    <2>1. 16 \in S <=> 15 \in a
      <3> HIDE DEF S
      <3> QED BY <1>2
    <2>2. \A l \in Nat : l \in S => l <= 16
      <3>1. \A l \in a : l <= 15
        OBVIOUS
      <3> HIDE DEF S
      <3> QED BY <3>1, <1>2
    <2>3. CASE 15 \in a
      <3>1. Turn16(a) = Mask(Xor(S, Poly))
        BY <2>3 DEF Turn16, Turn
      <3> HIDE DEF S
      <3> QED BY <3>1, <2>1, <2>2, <2>3, <1>2 DEF Mask, Xor, Poly, Generator
    <2>4. CASE 15 \notin a
      <3>1. Turn16(a) = Mask(S)
        BY <2>4 DEF Turn16, Turn
      <3> HIDE DEF S
      <3> QED BY <3>1, <2>1, <2>2, <2>4, <1>2 DEF Mask
    <2> QED BY <2>3, <2>4
  <1>9. \A j \in Nat : j \in A <=> j >= k /\ j - k \in S
    <2> SUFFICES ASSUME NEW j \in Nat PROVE j \in A <=> j >= k /\ j - k \in S
      OBVIOUS
    <2> HIDE DEF A, S
    <2>1. CASE j < k
      BY <2>1, <1>4
    <2>2. CASE j >= k
      <3>1. PICK l \in Nat : l = j - k
        BY <2>2
      <3>2. l - 1 = j - (k + 1) /\ (l >= 1 <=> j >= k + 1)
        BY <3>1
      <3> QED BY <2>2, <3>1, <3>2, <1>2, <1>4
    <2> QED BY <2>1, <2>2
  <1>10. (16 + k) - 16 = k
    OBVIOUS
  <1>11. CASE 15 \in a
    <2>1. Divided(16 + k, A) = Xor(A, G)
      BY <1>7, <1>10, <1>11 DEF Divided
    <2>2. ASSUME NEW j \in Nat PROVE j \in T <=> j \in Xor(A, G)
      <3> HIDE DEF A, G, T, S
      <3>1. CASE j < k
        BY <3>1, <1>3, <1>6, <1>9 DEF Xor
      <3>2. CASE j >= k
        <4>1. PICK l \in Nat : l = j - k
          BY <3>2
        <4> QED BY <3>2, <4>1, <1>3, <1>6, <1>8, <1>9, <1>11 DEF Xor
      <3> QED BY <3>1, <3>2
    <2>3. T = Xor(A, G)
      <3> HIDE DEF A, G, T
      <3> QED BY <2>2, <1>3, <1>4, <1>6 DEF Xor
    <2> QED BY <1>5, <2>1, <2>3
  <1>12. CASE 15 \notin a
    <2>1. Divided(16 + k, A) = A
      BY <1>7, <1>12 DEF Divided
    <2>2. ASSUME NEW j \in Nat PROVE j \in T <=> j \in A
      <3> HIDE DEF A, T, S
      <3>1. CASE j < k
        BY <3>1, <1>6, <1>9
      <3>2. CASE j >= k
        <4>1. PICK l \in Nat : l = j - k
          BY <3>2
        <4> QED BY <3>2, <4>1, <1>6, <1>8, <1>9, <1>12
      <3> QED BY <3>1, <3>2
    <2>3. T = A
      <3> HIDE DEF A, T
      <3> QED BY <2>2, <1>4, <1>6
    <2> QED BY <1>5, <2>1, <2>3
  <1> QED BY <1>11, <1>12

\* The number of a packet, and of one with a byte more.
LEMMA NumberOf ==
    ASSUME NEW bytes \in Seq(SUBSET (0 .. 7)), NEW byte \in SUBSET (0 .. 7)
    PROVE  /\ Number(bytes) \in SUBSET Nat
           /\ Number(Append(bytes, byte)) = Xor(Shl(Number(bytes), 8), byte)
  <1> DEFINE m == Len(bytes)   more == Append(bytes, byte)
             N == Number(bytes)   M == Number(more)   S == Shl(N, 8)
  <1>1. /\ m \in Nat /\ DOMAIN bytes = 1 .. m
        /\ \A n \in 1 .. m : bytes[n] \in SUBSET Nat
        /\ \A n \in 1 .. m : \A i \in bytes[n] : i \in 0 .. 7
    OBVIOUS
  <1>2. /\ Len(more) = m + 1 /\ DOMAIN more = 1 .. m + 1 /\ more[m + 1] = byte
        /\ \A n \in 1 .. m : more[n] = bytes[n]
    OBVIOUS
  <1>3. /\ N \in SUBSET Nat
        /\ \A j \in Nat : j \in N <=> \E n \in 1 .. m : j \in Shl(bytes[n], 8 * (m - n))
    <2>1. \A n \in 1 .. m : 8 * (m - n) \in Nat
      BY <1>1
    <2>2. \A n \in 1 .. m : Shl(bytes[n], 8 * (m - n)) \in SUBSET Nat
      BY <1>1, <2>1, ShlBits
    <2> QED BY <1>1, <2>2 DEF Number
  <1>4. S \in SUBSET Nat /\ \A j \in Nat : j \in S <=> j >= 8 /\ j - 8 \in N
    BY <1>3, ShlBits
  <1>5. M = UNION {Shl(more[n], 8 * ((m + 1) - n)) : n \in 1 .. m + 1}
    BY <1>2 DEF Number
  <1> HIDE DEF m, more, N, S, M
  <1>6. \A n \in 1 .. m, j \in Nat :
           j \in Shl(bytes[n], 8 * ((m + 1) - n))
             <=> j >= 8 /\ j - 8 \in Shl(bytes[n], 8 * (m - n))
    <2> SUFFICES ASSUME NEW n \in 1 .. m, NEW j \in Nat
                 PROVE  j \in Shl(bytes[n], 8 * ((m + 1) - n))
                          <=> j >= 8 /\ j - 8 \in Shl(bytes[n], 8 * (m - n))
      OBVIOUS
    <2>1. PICK o \in Nat : o = 8 * (m - n)
      BY <1>1
    <2>2. 8 * ((m + 1) - n) = o + 8
      BY <1>1, <2>1
    <2>3. bytes[n] \in SUBSET Nat
      BY <1>1
    <2>4. j \in Shl(bytes[n], o + 8) <=> j >= o + 8 /\ j - (o + 8) \in bytes[n]
      BY <2>3, ShlBits
    <2>5. CASE j < 8
      BY <2>2, <2>4, <2>5
    <2>6. CASE j >= 8
      <3>1. PICK l \in Nat : l = j - 8
        BY <2>6
      <3>2. l \in Shl(bytes[n], o) <=> l >= o /\ l - o \in bytes[n]
        BY <2>3, ShlBits
      <3>3. l - o = j - (o + 8) /\ (l >= o <=> j >= o + 8)
        BY <3>1
      <3> QED BY <2>1, <2>2, <2>4, <2>6, <3>1, <3>2, <3>3
    <2> QED BY <2>5, <2>6
  <1>7. Shl(more[m + 1], 8 * ((m + 1) - (m + 1))) = byte
    <2>1. 8 * ((m + 1) - (m + 1)) = 0
      BY <1>1
    <2>2. byte \in SUBSET Nat /\ 0 \in Nat
      OBVIOUS
    <2>3. Shl(byte, 0) \in SUBSET Nat /\ \A j \in Nat : j \in Shl(byte, 0) <=> j >= 0 /\ j - 0 \in byte
      BY <2>2, ShlBits
    <2>4. \A j \in Nat : j >= 0 /\ j - 0 = j
      OBVIOUS
    <2>5. Shl(byte, 0) = byte
      BY <2>2, <2>3, <2>4
    <2> QED BY <1>2, <2>1, <2>5
  <1>8. \A n \in 1 .. m + 1 : n \in 1 .. m \/ n = m + 1
    BY <1>1
  <1>9. \A j : j \in M <=> j \in S \/ j \in byte
    <2>1. ASSUME NEW j, j \in M PROVE j \in S \/ j \in byte
      <3>1. PICK n \in 1 .. m + 1 : j \in Shl(more[n], 8 * ((m + 1) - n))
        BY <1>5, <2>1
      <3>2. CASE n = m + 1
        BY <3>1, <3>2, <1>7
      <3>3. CASE n \in 1 .. m
        <4>1. 8 * ((m + 1) - n) \in Nat /\ more[n] = bytes[n] /\ bytes[n] \in SUBSET Nat
          BY <1>1, <1>2, <3>3
        <4>2. j \in Nat
          BY <3>1, <4>1, ShlBits
        <4>3. j >= 8 /\ j - 8 \in Shl(bytes[n], 8 * (m - n))
          BY <1>6, <3>1, <3>3, <4>1, <4>2
        <4>4. j - 8 \in Nat
          BY <4>2, <4>3
        <4> QED BY <1>3, <1>4, <3>3, <4>2, <4>3, <4>4
      <3> QED BY <1>8, <3>2, <3>3
    <2>2. ASSUME NEW j, j \in S PROVE j \in M
      <3>1. j \in Nat /\ j >= 8 /\ j - 8 \in N
        BY <1>4, <2>2
      <3>2. j - 8 \in Nat
        BY <3>1
      <3>3. PICK n \in 1 .. m : j - 8 \in Shl(bytes[n], 8 * (m - n))
        BY <1>3, <3>1, <3>2
      <3>4. j \in Shl(more[n], 8 * ((m + 1) - n)) /\ n \in 1 .. m + 1
        BY <1>1, <1>2, <1>6, <3>1, <3>3
      <3> QED BY <1>5, <3>4
    <2>3. ASSUME NEW j, j \in byte PROVE j \in M
      <3>1. m + 1 \in 1 .. m + 1
        BY <1>1
      <3> QED BY <1>5, <1>7, <2>3, <3>1
    <2> QED BY <2>1, <2>2, <2>3
  <1>10. \A j \in byte : j \notin S
    <2>1. \A j \in byte : j \in Nat /\ ~ (j >= 8)
      OBVIOUS
    <2> QED BY <1>4, <2>1
  <1>11. M = Xor(S, byte)
    BY <1>9, <1>10 DEF Xor
  <1> QED BY <1>3, <1>11 DEF N, S, M, more

\* Turned n times, the register fed with a byte.
Turning(a) ==
    [i \in 16 .. 24 |->
        IF i = 24 THEN a
        ELSE IF i = 23 THEN Turn16(a)
        ELSE IF i = 22 THEN Turn16(Turn16(a))
        ELSE IF i = 21 THEN Turn16(Turn16(Turn16(a)))
        ELSE IF i = 20 THEN Turn16(Turn16(Turn16(Turn16(a))))
        ELSE IF i = 19 THEN Turn16(Turn16(Turn16(Turn16(Turn16(a)))))
        ELSE IF i = 18 THEN Turn16(Turn16(Turn16(Turn16(Turn16(Turn16(a))))))
        ELSE IF i = 17 THEN Turn16(Turn16(Turn16(Turn16(Turn16(Turn16(Turn16(a)))))))
        ELSE Turns16(a)]

\* Each turn is one of the device's register.
LEMMA TurningTurns ==
    ASSUME NEW a \in SUBSET (0 .. 15)
    PROVE  /\ Turning(a) \in [16 .. 24 -> SUBSET (0 .. 15)]
           /\ Turning(a)[24] = a /\ Turning(a)[16] = Turns16(a)
           /\ \A i \in 16 .. 23 : Turning(a)[i] = Turn16(Turning(a)[i + 1])
  <1> DEFINE t == Turning(a)
  <1>1. \A b \in SUBSET (0 .. 15) : Turn16(b) \in SUBSET (0 .. 15)
    <2>1. 0 \in 0 .. 7
      OBVIOUS
    <2> QED BY <2>1, DividedTurn
  <1>2. /\ t[24] = a /\ t[23] = Turn16(t[24]) /\ t[22] = Turn16(t[23])
        /\ t[21] = Turn16(t[22]) /\ t[20] = Turn16(t[21]) /\ t[19] = Turn16(t[20])
        /\ t[18] = Turn16(t[19]) /\ t[17] = Turn16(t[18]) /\ t[16] = Turns16(a)
    BY DEF Turning
  <1>3. DOMAIN t = 16 .. 24 /\ t = [i \in DOMAIN t |-> t[i]]
    BY DEF Turning
  <1> HIDE DEF t
  <1>4. t[16] = Turn16(t[17])
    BY <1>2 DEF Turns16
  <1>5. /\ t[24] \in SUBSET (0 .. 15) /\ t[23] \in SUBSET (0 .. 15)
        /\ t[22] \in SUBSET (0 .. 15) /\ t[21] \in SUBSET (0 .. 15)
        /\ t[20] \in SUBSET (0 .. 15) /\ t[19] \in SUBSET (0 .. 15)
        /\ t[18] \in SUBSET (0 .. 15) /\ t[17] \in SUBSET (0 .. 15)
        /\ t[16] \in SUBSET (0 .. 15)
    BY <1>1, <1>2, <1>4
  <1>6. \A i \in 16 .. 24 : i \in {16, 17, 18, 19, 20, 21, 22, 23, 24}
    OBVIOUS
  <1>7. \A i \in 16 .. 24 : t[i] \in SUBSET (0 .. 15)
    BY <1>5, <1>6
  <1>8. \A i \in 16 .. 23 : t[i] = Turn16(t[i + 1])
    <2>1. \A i \in 16 .. 23 : i \in {16, 17, 18, 19, 20, 21, 22, 23}
      OBVIOUS
    <2>2. /\ 16 + 1 = 17 /\ 17 + 1 = 18 /\ 18 + 1 = 19 /\ 19 + 1 = 20
          /\ 20 + 1 = 21 /\ 21 + 1 = 22 /\ 22 + 1 = 23 /\ 23 + 1 = 24
      OBVIOUS
    <2> QED BY <1>2, <1>4, <2>1, <2>2
  <1>9. t \in [16 .. 24 -> SUBSET (0 .. 15)]
    BY <1>3, <1>7
  <1> QED BY <1>2, <1>8, <1>9 DEF t

\* A shift goes through an exclusive or.
LEMMA ShlXor ==
    ASSUME NEW a \in SUBSET Nat, NEW b \in SUBSET Nat, NEW n \in Nat
    PROVE  Shl(Xor(a, b), n) = Xor(Shl(a, n), Shl(b, n))
  <1> DEFINE A == Shl(a, n)   B == Shl(b, n)   C == Shl(Xor(a, b), n)
  <1>1. A \in SUBSET Nat /\ \A j \in Nat : j \in A <=> j >= n /\ j - n \in a
    BY ShlBits
  <1>2. B \in SUBSET Nat /\ \A j \in Nat : j \in B <=> j >= n /\ j - n \in b
    BY ShlBits
  <1>3. Xor(a, b) \in SUBSET Nat
    BY DEF Xor
  <1>4. C \in SUBSET Nat /\ \A j \in Nat : j \in C <=> j >= n /\ j - n \in Xor(a, b)
    BY <1>3, ShlBits
  <1> HIDE DEF A, B, C
  <1>5. \A j \in Nat : j \in C <=> j \in Xor(A, B)
    BY <1>1, <1>2, <1>4 DEF Xor
  <1>6. C = Xor(A, B)
    BY <1>1, <1>2, <1>4, <1>5 DEF Xor
  <1> QED BY <1>6 DEF A, B, C

\* f divides number, and the rests are numbers.
Division(f, number, top) ==
    /\ Divides(f, number, top)
    /\ \A i \in 16 .. top + 1 : f[i] \in SUBSET Nat

\* A division that ends in the register goes on, with a byte, to one that ends in the
\* register fed with the byte (tool.py:46-52).
LEMMA DivisionGrows ==
    ASSUME NEW f, NEW number \in SUBSET Nat, NEW top \in Nat, top >= 15,
           Division(f, number, top), f[16] \in SUBSET (0 .. 15),
           NEW byte \in SUBSET (0 .. 7)
    PROVE  \E g : /\ Division(g, Xor(Shl(number, 8), byte), top + 8)
                  /\ g[16] = DeviceAddByte(f[16], byte)
                  /\ g[16] \in SUBSET (0 .. 15)
  <1> DEFINE B   == Shl(byte, 16)
             fed == Xor(f[16], Shl(byte, 8))
             t   == Turning(fed)
             g   == [i \in 16 .. top + 9 |->
                       IF i >= 24 THEN Xor(Shl(f[i - 8], 8), B) ELSE Shl(t[i], i - 16)]
             grown == Xor(Shl(number, 8), byte)
  <1>1. byte \in SUBSET Nat /\ f[16] \in SUBSET Nat
    OBVIOUS
  <1>2. B \in SUBSET Nat /\ \A j \in Nat : j \in B <=> j >= 16 /\ j - 16 \in byte
    BY <1>1, ShlBits
  <1>3. fed \in SUBSET (0 .. 15)
    <2>1. \A j \in Shl(byte, 8) : j \in 0 .. 15
      <3> SUFFICES ASSUME NEW i \in byte PROVE i + 8 \in 0 .. 15
        BY DEF Shl
      <3> QED BY i \in 0 .. 7
    <2> QED BY <2>1 DEF Xor
  <1>4. /\ t \in [16 .. 24 -> SUBSET (0 .. 15)]
        /\ t[24] = fed /\ t[16] = Turns16(fed)
        /\ \A i \in 16 .. 23 : t[i] = Turn16(t[i + 1])
    BY <1>3, TurningTurns
  <1>5. /\ \A i \in 16 .. top : f[i] = Divided(i, f[i + 1])
        /\ f[top + 1] = Shl(number, 16)
        /\ \A i \in 16 .. top + 1 : f[i] \in SUBSET Nat
    BY DEF Division, Divides
  <1> HIDE DEF B, fed, t
  <1>6. ASSUME NEW i \in 24 .. top + 9
        PROVE  i - 8 \in 16 .. top + 1 /\ g[i] = Xor(Shl(f[i - 8], 8), B)
    OBVIOUS
  <1>7. ASSUME NEW i \in 16 .. 23 PROVE i \in 16 .. top + 9 /\ g[i] = Shl(t[i], i - 16)
    OBVIOUS
  <1>8. DOMAIN g = 16 .. top + 9 /\ g = [i \in DOMAIN g |-> g[i]]
    OBVIOUS
  <1> HIDE DEF g
  <1>9. g[24] = Shl(t[24], 8)
    <2>1. 24 \in 24 .. top + 9 /\ 24 - 8 = 16
      OBVIOUS
    <2>2. g[24] = Xor(Shl(f[16], 8), B)
      BY <1>6, <2>1
    <2>3. Shl(Shl(byte, 8), 8) = B
      <3>1. Shl(byte, 8) \in SUBSET Nat /\ \A j \in Nat : j \in Shl(byte, 8) <=> j >= 8 /\ j - 8 \in byte
        BY <1>1, ShlBits
      <3>2. Shl(Shl(byte, 8), 8) \in SUBSET Nat
            /\ \A j \in Nat : j \in Shl(Shl(byte, 8), 8) <=> j >= 8 /\ j - 8 \in Shl(byte, 8)
        BY <3>1, ShlBits
      <3>3. ASSUME NEW j \in Nat PROVE j \in Shl(Shl(byte, 8), 8) <=> j \in B
        <4>1. CASE j < 8
          BY <4>1, <3>2, <1>2
        <4>2. CASE j >= 8
          <5>1. PICK l \in Nat : l = j - 8
            BY <4>2
          <5>2. l - 8 = j - 16 /\ (l >= 8 <=> j >= 16)
            BY <5>1
          <5> QED BY <4>2, <5>1, <5>2, <3>1, <3>2, <1>2
        <4> QED BY <4>1, <4>2
      <3> QED BY <3>2, <3>3, <1>2
    <2>4. Shl(byte, 8) \in SUBSET Nat
      BY <1>1, ShlBits
    <2>5. Shl(fed, 8) = Xor(Shl(f[16], 8), Shl(Shl(byte, 8), 8))
      BY <1>1, <2>4, ShlXor DEF fed
    <2> QED BY <1>4, <2>2, <2>3, <2>5
  <1>10. g[top + 9] = Shl(grown, 16)
    <2>1. top + 9 \in 24 .. top + 9 /\ (top + 9) - 8 = top + 1
      OBVIOUS
    <2>2. g[top + 9] = Xor(Shl(Shl(number, 16), 8), B)
      BY <1>5, <1>6, <2>1
    <2>3. Shl(number, 8) \in SUBSET Nat /\ \A j \in Nat : j \in Shl(number, 8) <=> j >= 8 /\ j - 8 \in number
      BY ShlBits
    <2>4. Shl(number, 16) \in SUBSET Nat /\ \A j \in Nat : j \in Shl(number, 16) <=> j >= 16 /\ j - 16 \in number
      BY ShlBits
    <2>5. Shl(Shl(number, 8), 16) \in SUBSET Nat
          /\ \A j \in Nat : j \in Shl(Shl(number, 8), 16) <=> j >= 16 /\ j - 16 \in Shl(number, 8)
      BY <2>3, ShlBits
    <2>6. Shl(Shl(number, 16), 8) \in SUBSET Nat
          /\ \A j \in Nat : j \in Shl(Shl(number, 16), 8) <=> j >= 8 /\ j - 8 \in Shl(number, 16)
      BY <2>4, ShlBits
    <2>7. ASSUME NEW j \in Nat PROVE j \in Shl(Shl(number, 8), 16) <=> j \in Shl(Shl(number, 16), 8)
      <3>1. CASE j < 16
        BY <3>1, <2>4, <2>5, <2>6
      <3>2. CASE j >= 16
        <4>1. PICK l \in Nat : l = j - 16
          BY <3>2
        <4>2. PICK k \in Nat : k = j - 8
          BY <3>2
        <4>3. l - 8 = k - 16 /\ (l >= 8 <=> k >= 16)
          BY <4>1, <4>2
        <4> QED BY <3>2, <4>1, <4>2, <4>3, <2>3, <2>4, <2>5, <2>6
      <3> QED BY <3>1, <3>2
    <2>8. Shl(Shl(number, 8), 16) = Shl(Shl(number, 16), 8)
      BY <2>5, <2>6, <2>7
    <2>9. Shl(grown, 16) = Xor(Shl(Shl(number, 8), 16), B)
      BY <1>1, <2>3, ShlXor DEF B
    <2> QED BY <2>2, <2>8, <2>9
  <1>11. ASSUME NEW i \in 16 .. top + 8
         PROVE  g[i] = Divided(i, g[i + 1]) /\ g[i] \in SUBSET Nat
    <2>1. CASE i >= 24
      <3>1. PICK l \in 16 .. top : l = i - 8
        BY <2>1
      <3>2. i \in 24 .. top + 9 /\ i + 1 \in 24 .. top + 9 /\ (i + 1) - 8 = l + 1 /\ i = l + 8
            /\ l + 1 \in 16 .. top + 1 /\ l \in Nat /\ l >= 16
        BY <2>1, <3>1
      <3>3. g[i] = Xor(Shl(f[l], 8), B) /\ g[i + 1] = Xor(Shl(f[l + 1], 8), B)
        BY <1>6, <3>1, <3>2
      <3>4. f[l + 1] \in SUBSET Nat
        BY <1>5, <3>2
      <3>5. Divided(l + 8, Xor(Shl(f[l + 1], 8), B)) = Xor(Shl(Divided(l, f[l + 1]), 8), B)
            /\ Divided(l, f[l + 1]) \in SUBSET Nat
        BY <3>2, <3>4, DividedOn DEF B
      <3>6. f[l] = Divided(l, f[l + 1])
        BY <1>5, <3>1
      <3>7. Shl(f[l], 8) \in SUBSET Nat
        BY <3>5, <3>6, ShlBits
      <3> QED BY <1>2, <3>2, <3>3, <3>5, <3>6, <3>7 DEF Xor
    <2>2. CASE i < 24
      <3>1. PICK k \in 0 .. 7 : k = i - 16
        BY <2>2
      <3>2. i \in 16 .. 23 /\ i + 1 \in 16 .. 24 /\ i = 16 + k /\ (i + 1) - 16 = k + 1 /\ k \in Nat
        BY <2>2, <3>1
      <3>3. g[i] = Shl(t[i], k)
        BY <1>7, <3>1, <3>2
      <3>4. g[i + 1] = Shl(t[i + 1], k + 1)
        <4>1. CASE i = 23
          <5>1. i + 1 = 24 /\ k + 1 = 8
            BY <3>1, <4>1
          <5> QED BY <1>9, <5>1
        <4>2. CASE i # 23
          <5>1. i + 1 \in 16 .. 23
            BY <3>2, <4>2
          <5> QED BY <1>7, <3>2, <5>1
        <4> QED BY <4>1, <4>2
      <3>5. t[i + 1] \in SUBSET (0 .. 15) /\ t[i] = Turn16(t[i + 1]) /\ t[i] \in SUBSET Nat
        <4>1. t[i + 1] \in SUBSET (0 .. 15) /\ t[i] = Turn16(t[i + 1]) /\ t[i] \in SUBSET (0 .. 15)
          BY <1>4, <3>2
        <4> QED BY <4>1
      <3>6. Divided(16 + k, Shl(t[i + 1], k + 1)) = Shl(Turn16(t[i + 1]), k)
        BY <3>5, DividedTurn
      <3>7. Shl(t[i], k) \in SUBSET Nat
        BY <3>2, <3>5, ShlBits
      <3> QED BY <3>2, <3>3, <3>4, <3>5, <3>6, <3>7
    <2> QED BY <2>1, <2>2
  <1>12. Divides(g, grown, top + 8)
    <2>1. (top + 8) + 1 = top + 9 /\ \A i \in 16 .. top + 9 : i = top + 9 \/ i \in 16 .. top + 8
      OBVIOUS
    <2>2. \A i \in 16 .. top + 9 :
             g[i] = IF i = top + 9 THEN Shl(grown, 16) ELSE Divided(i, g[i + 1])
      BY <1>10, <1>11, <2>1
    <2> HIDE DEF grown
    <2>3. g = [i \in 16 .. top + 9 |->
                 IF i = top + 9 THEN Shl(grown, 16) ELSE Divided(i, g[i + 1])]
      BY <1>8, <2>2
    <2> QED BY <2>1, <2>3 DEF Divides
  <1>13. \A i \in 16 .. (top + 8) + 1 : g[i] \in SUBSET Nat
    <2>1. g[top + 9] \in SUBSET Nat
      <3>1. Shl(number, 8) \in SUBSET Nat
        BY ShlBits
      <3>2. grown \in SUBSET Nat
        BY <3>1, <1>1 DEF Xor
      <3> HIDE DEF grown
      <3> QED BY <1>10, <3>2, ShlBits
    <2>2. \A i \in 16 .. (top + 8) + 1 : i = top + 9 \/ i \in 16 .. top + 8
      OBVIOUS
    <2> QED BY <1>11, <2>1, <2>2
  <1>14. g[16] = Turns16(fed) /\ g[16] \in SUBSET (0 .. 15)
    <2>1. 16 \in 16 .. 23 /\ 16 - 16 = 0 /\ 16 \in 16 .. 24
      OBVIOUS
    <2>2. g[16] = Shl(t[16], 0) /\ t[16] \in SUBSET (0 .. 15)
      BY <1>4, <1>7, <2>1
    <2>3. Shl(t[16], 0) = t[16]
      BY <2>2 DEF Shl
    <2> QED BY <1>4, <2>2, <2>3
  <1>15. Turns16(fed) = DeviceAddByte(f[16], byte)
    BY DEF fed, DeviceAddByte
  <1> QED BY <1>12, <1>13, <1>14, <1>15 DEF Division

\* The inductive form of CrcIsRemainder: the division of the packet so far ends in
\* what the register of 16 bits holds.
Dividing ==
    /\ Agreement
    /\ data \in Seq(SUBSET (0 .. 7))
    /\ reg \in SUBSET (0 .. 15)
    /\ \E f : Division(f, Number(data), 8 * Len(data) + 15) /\ f[16] = reg

\* A byte carries the division on (tool.py:46-52).
LEMMA ByteDivides ==
    ASSUME NEW byte \in SUBSET (0 .. 7), Dividing,
           data' = Append(data, byte),
           crc' = AddByte(crc, byte), reg' = DeviceAddByte(reg, byte)
    PROVE  Dividing'
  <1>1. Agreement'
    BY ByteAgrees DEF Dividing
  <1>2. data \in Seq(SUBSET (0 .. 7))
    BY DEF Dividing
  <1>3. data' \in Seq(SUBSET (0 .. 7)) /\ Len(data') = Len(data) + 1 /\ Len(data) \in Nat
    BY <1>2
  <1>4. Number(data) \in SUBSET Nat /\ Number(data') = Xor(Shl(Number(data), 8), byte)
    BY <1>2, NumberOf
  <1>5. PICK top \in Nat : top = 8 * Len(data) + 15
    BY <1>3
  <1>6. top >= 15 /\ 8 * Len(data') + 15 = top + 8
    BY <1>3, <1>5
  <1>7. PICK f : Division(f, Number(data), top) /\ f[16] = reg
    BY <1>5 DEF Dividing
  <1>8. f[16] \in SUBSET (0 .. 15)
    BY <1>7 DEF Dividing
  <1>9. PICK g : /\ Division(g, Xor(Shl(Number(data), 8), byte), top + 8)
                 /\ g[16] = DeviceAddByte(f[16], byte)
                 /\ g[16] \in SUBSET (0 .. 15)
    BY <1>4, <1>6, <1>7, <1>8, DivisionGrows
  <1>10. Division(g, Number(data'), 8 * Len(data') + 15) /\ g[16] = reg'
    BY <1>4, <1>6, <1>7, <1>9
  <1> QED BY <1>1, <1>3, <1>9, <1>10 DEF Dividing

\* The division of every packet ends in the register (tool.py:46-53).
THEOREM DividingInvariant == Spec => []Dividing
  <1>1. Init => Dividing
    <2> SUFFICES ASSUME Init PROVE Dividing
      OBVIOUS
    <2> DEFINE f == [i \in 16 .. 16 |-> {}]
    <2>1. Agreement
      BY DEF Init, Agreement, AgreesWithDevice, Mask
    <2>2. data = <<>> /\ reg = {} /\ Len(data) = 0 /\ 8 * Len(data) + 15 = 15
      BY DEF Init
    <2>3. Number(data) = {}
      BY <2>2 DEF Number
    <2>4. Division(f, {}, 15) /\ f[16] = {}
      <3>1. Shl({}, 16) = {}
        BY DEF Shl
      <3>2. 16 .. 15 + 1 = {16} /\ 16 .. 16 = {16} /\ 15 + 1 = 16
        OBVIOUS
      <3>3. f = [i \in 16 .. 15 + 1 |->
                   IF i = 15 + 1 THEN Shl({}, 16) ELSE Divided(i, f[i + 1])]
        BY <3>1, <3>2
      <3>4. \A i \in 16 .. 15 + 1 : f[i] \in SUBSET Nat
        BY <3>2
      <3>5. f[16] = {}
        BY <3>2
      <3> HIDE DEF f
      <3>6. Divides(f, {}, 15)
        BY <3>3, Zenon DEF Divides
      <3> QED BY <3>4, <3>5, <3>6, Zenon DEF Division
    <2>5. Division(f, Number(data), 8 * Len(data) + 15) /\ f[16] = reg
      BY <2>2, <2>3, <2>4, Zenon
    <2>6. data \in Seq(SUBSET (0 .. 7)) /\ reg \in SUBSET (0 .. 15)
      BY <2>2
    <2> HIDE DEF f
    <2> QED BY <2>1, <2>5, <2>6, Zenon DEF Dividing
  <1>2. Dividing /\ [Next]_vars => Dividing'
    <2> SUFFICES ASSUME Dividing, [Next]_vars PROVE Dividing'
      OBVIOUS
    <2>1. CASE Next
      <3>1. PICK byte \in Bytes : NextByte(byte)
        BY <2>1 DEF Next
      <3>2. byte \in SUBSET (0 .. 7)
        BY <3>1, BytesAssumption
      <3> QED BY <3>1, <3>2, ByteDivides DEF NextByte
    <2>2. CASE UNCHANGED vars
      <3>1. data' = data /\ crc' = crc /\ reg' = reg
        BY <2>2 DEF vars
      <3> QED BY <3>1 DEF Dividing, Agreement, AgreesWithDevice, Mask
    <2> QED BY <2>1, <2>2
  <1> QED BY <1>1, <1>2, PTL DEF Spec

\* For packets of any length and any bytes, crc16 is the remainder of the packet's
\* division by x^16 + x^12 + x^5 + 1, the CRC-16/XMODEM of its docstring
\* (tool.py:38-53).
THEOREM CrcIsXmodem == Spec => []CrcIsRemainder
  <1>1. Dividing => CrcIsRemainder
    <2> SUFFICES ASSUME Dividing PROVE CrcIsRemainder
      OBVIOUS
    <2>1. Len(data) \in Nat
      BY DEF Dividing
    <2>2. PICK top \in Nat : top = 8 * Len(data) + 15
      BY <2>1
    <2>3. PICK f : Division(f, Number(data), top) /\ f[16] = reg
      BY <2>2 DEF Dividing
    <2>4. top >= 15 /\ Divides(f, Number(data), top)
      BY <2>1, <2>2, <2>3 DEF Division
    <2>5. Remainder(Number(data), top) = reg
      BY <2>3, <2>4, RemainderIs
    <2>6. Mask(crc) = reg
      BY DEF Dividing, Agreement, AgreesWithDevice
    <2> QED BY <2>2, <2>5, <2>6 DEF CrcIsRemainder
  <1>2. Spec => []Dividing
    BY DividingInvariant
  <1> QED BY <1>1, <1>2, PTL

-----------------------------------------------------------------------------
(* Bursts.                                                                  *)

\* The division of what two packets differ in is what their divisions differ in.
LEMMA DivisionsDiffer ==
    ASSUME NEW f, NEW g, NEW a \in SUBSET Nat, NEW b \in SUBSET Nat,
           NEW top \in Nat, top >= 15, Division(f, a, top), Division(g, b, top)
    PROVE  \E h : Division(h, Xor(a, b), top) /\ h[16] = Xor(f[16], g[16])
  <1> DEFINE h == [i \in 16 .. top + 1 |-> Xor(f[i], g[i])]
  <1>1. /\ f[top + 1] = Shl(a, 16) /\ g[top + 1] = Shl(b, 16)
        /\ \A i \in 16 .. top + 1 : f[i] \in SUBSET Nat /\ g[i] \in SUBSET Nat
        /\ \A i \in 16 .. top : f[i] = Divided(i, f[i + 1]) /\ g[i] = Divided(i, g[i + 1])
    BY DEF Division, Divides
  <1>2. \A i, r, s : Divided(i, Xor(r, s)) = Xor(Divided(i, r), Divided(i, s))
    BY DEF Divided, Xor
  <1>3. Shl(Xor(a, b), 16) = Xor(Shl(a, 16), Shl(b, 16))
    BY ShlXor
  <1>4. /\ \A i \in 16 .. top : i \in 16 .. top + 1 /\ i + 1 \in 16 .. top + 1 /\ i # top + 1
        /\ \A i \in 16 .. top + 1 : i = top + 1 \/ i \in 16 .. top
        /\ 16 \in 16 .. top + 1 /\ top + 1 \in 16 .. top + 1
    OBVIOUS
  <1>5. /\ DOMAIN h = 16 .. top + 1 /\ h = [i \in DOMAIN h |-> h[i]]
        /\ \A i \in 16 .. top + 1 : h[i] = Xor(f[i], g[i])
    OBVIOUS
  <1> HIDE DEF h
  <1>6. ASSUME NEW i \in 16 .. top + 1
        PROVE  h[i] = IF i = top + 1 THEN Shl(Xor(a, b), 16) ELSE Divided(i, h[i + 1])
    <2>1. CASE i = top + 1
      BY <2>1, <1>1, <1>3, <1>5
    <2>2. CASE i \in 16 .. top
      BY <2>2, <1>1, <1>2, <1>4, <1>5
    <2> QED BY <1>4, <2>1, <2>2
  <1>7. Divides(h, Xor(a, b), top)
    <2>1. h = [i \in 16 .. top + 1 |->
                 IF i = top + 1 THEN Shl(Xor(a, b), 16) ELSE Divided(i, h[i + 1])]
      BY <1>5, <1>6
    <2> QED BY <2>1, Zenon DEF Divides
  <1>8. \A i \in 16 .. top + 1 : h[i] \in SUBSET Nat
    BY <1>1, <1>5 DEF Xor
  <1> QED BY <1>4, <1>5, <1>7, <1>8 DEF Division

\* A burst of up to 16 bits, however high, does not divide by the generator: each time it
\* is taken off, its lowest bit is below all that is left.
LEMMA BurstLeaves ==
    ASSUME NEW f, NEW e \in SUBSET Nat, e # {}, NEW top \in Nat, top >= 15,
           NEW k \in Nat, \A j \in e : k <= j /\ j <= k + 15 /\ j + 16 <= top,
           Division(f, e, top)
    PROVE  f[16] # {}
  <1> DEFINE E == Shl(e, 16)
             Whole(i) == f[i] = E /\ \A j \in E : j < i
             Low(i)   == \E low \in f[i] : i <= low + 16 /\ \A j \in f[i] : low <= j
             Bad == {n \in 0 .. top - 15 : ~ (Whole(top + 1 - n) \/ Low(top + 1 - n))}
  <1>1. E \in SUBSET Nat /\ \A j \in Nat : j \in E <=> j >= 16 /\ j - 16 \in e
    BY ShlBits
  <1>2. \A j \in E : j >= k + 16 /\ j <= k + 31 /\ j <= top
    <2> SUFFICES ASSUME NEW j \in E PROVE j >= k + 16 /\ j <= k + 31 /\ j <= top
      OBVIOUS
    <2>1. j \in Nat /\ j >= 16 /\ j - 16 \in e
      BY <1>1
    <2>2. PICK l \in e : l = j - 16
      BY <2>1
    <2>3. k <= l /\ l <= k + 15 /\ l + 16 <= top /\ l \in Nat
      OBVIOUS
    <2> QED BY <2>1, <2>2, <2>3
  <1>3. E # {} /\ \A j \in E : j >= 16
    <2>1. PICK l \in e : l \in Nat
      OBVIOUS
    <2>2. l + 16 \in Nat /\ l + 16 >= 16 /\ (l + 16) - 16 = l
      BY <2>1
    <2> HIDE DEF E
    <2> QED BY <2>1, <2>2, <1>1
  <1>4. /\ f[top + 1] = E
        /\ \A i \in 16 .. top + 1 : f[i] \in SUBSET Nat
        /\ \A i \in 16 .. top : f[i] = Divided(i, f[i + 1])
    BY DEF Division, Divides
  <1> HIDE DEF E
  <1>5. Bad = {}
    <2> SUFFICES ASSUME Bad # {} PROVE FALSE
      OBVIOUS
    <2>1. Bad \in SUBSET Nat
      OBVIOUS
    <2>2. PICK m \in Bad : \A n \in Bad : m <= n
      <3> HIDE DEF Bad
      <3> QED BY <2>1, Least
    <2>3. m \in 0 .. top - 15 /\ ~ (Whole(top + 1 - m) \/ Low(top + 1 - m))
      BY <2>2
    <2> HIDE DEF Whole, Low
    <2>4. m # 0
      <3>1. Whole(top + 1)
        BY <1>1, <1>2, <1>4 DEF Whole
      <3> QED BY <3>1, <2>3
    <2>5. PICK i \in 16 .. top : i = top + 1 - m
      BY <2>3, <2>4
    <2>6. m - 1 \in 0 .. top - 15 /\ ~ (m <= m - 1) /\ top + 1 - (m - 1) = i + 1
      BY <2>3, <2>4, <2>5
    <2>7. m - 1 \notin Bad
      <3> HIDE DEF Bad
      <3> QED BY <2>2, <2>6
    <2>8. Whole(i + 1) \/ Low(i + 1)
      BY <2>6, <2>7
    <2> HIDE DEF Bad
    <2> DEFINE r == f[i + 1]   G == Shl(Generator, i - 16)
    <2>9. r \in SUBSET Nat /\ f[i] = IF i \in r THEN Xor(r, G) ELSE r
      BY <1>4 DEF Divided
    <2>10. /\ G \in SUBSET Nat /\ i - 16 \in G
           /\ \A j \in G : i - 16 <= j
      <3>1. i - 16 \in Nat /\ Generator \in SUBSET Nat /\ 0 \in Generator
        BY DEF Generator
      <3>2. G \in SUBSET Nat /\ \A j \in Nat : j \in G <=> j >= i - 16 /\ j - (i - 16) \in Generator
        BY <3>1, ShlBits
      <3>3. (i - 16) - (i - 16) = 0
        BY <3>1
      <3> HIDE DEF G
      <3> QED BY <3>1, <3>2, <3>3
    <2> HIDE DEF r, G
    <2>11. CASE i \notin r
      <3>1. f[i] = r
        BY <2>9, <2>11
      <3>2. CASE Whole(i + 1)
        <4>1. \A j \in E : j < i
          <5> SUFFICES ASSUME NEW j \in E PROVE j < i
            OBVIOUS
          <5>1. r = E /\ j < i + 1 /\ j \in Nat
            BY <3>2, <1>1 DEF Whole, r
          <5>2. j # i
            BY <5>1, <2>11
          <5> QED BY <5>1, <5>2
        <4>2. Whole(i)
          BY <3>1, <3>2, <4>1 DEF Whole, r
        <4> QED BY <4>2, <2>3, <2>5
      <3>3. CASE Low(i + 1)
        <4>1. PICK low \in r : i + 1 <= low + 16 /\ \A j \in r : low <= j
          BY <3>3 DEF Low, r
        <4>2. i <= low + 16
          BY <4>1, <2>9
        <4>3. Low(i)
          BY <3>1, <4>1, <4>2 DEF Low
        <4> QED BY <4>3, <2>3, <2>5
      <3> QED BY <2>8, <3>2, <3>3
    <2>12. CASE i \in r
      <3>1. f[i] = Xor(r, G)
        BY <2>9, <2>12
      <3>2. ASSUME \A j \in r : i - 16 < j
            PROVE  FALSE
        <4>1. i - 16 \in f[i]
          BY <3>1, <3>2, <2>10 DEF Xor
        <4>2. \A j \in f[i] : i - 16 <= j
          <5> SUFFICES ASSUME NEW j \in f[i] PROVE i - 16 <= j
            OBVIOUS
          <5>1. j \in r \/ j \in G
            BY <3>1 DEF Xor
          <5>2. j \in Nat
            BY <5>1, <2>9, <2>10
          <5> QED BY <5>1, <5>2, <3>2, <2>10
        <4>3. i <= (i - 16) + 16
          OBVIOUS
        <4>4. Low(i)
          BY <4>1, <4>2, <4>3 DEF Low
        <4> QED BY <4>4, <2>3, <2>5
      <3>3. CASE Whole(i + 1)
        <4>1. r = E /\ i \in E
          BY <3>3, <2>12 DEF Whole, r
        <4>2. i <= k + 31
          BY <4>1, <1>2
        <4>3. \A j \in r : i - 16 < j
          <5> SUFFICES ASSUME NEW j \in r PROVE i - 16 < j
            OBVIOUS
          <5>1. j >= k + 16 /\ j \in Nat
            BY <4>1, <1>1, <1>2
          <5> QED BY <4>2, <5>1
        <4> QED BY <3>2, <4>3
      <3>4. CASE Low(i + 1)
        <4>1. PICK low \in r : i + 1 <= low + 16 /\ \A j \in r : low <= j
          BY <3>4 DEF Low, r
        <4>2. \A j \in r : i - 16 < j
          <5> SUFFICES ASSUME NEW j \in r PROVE i - 16 < j
            OBVIOUS
          <5>1. j \in Nat /\ low \in Nat /\ low <= j
            BY <4>1, <2>9
          <5> QED BY <4>1, <5>1
        <4> QED BY <3>2, <4>2
      <3> QED BY <2>8, <3>3, <3>4
    <2> QED BY <2>11, <2>12
  <1>6. Whole(16) \/ Low(16)
    <2>1. top - 15 \in 0 .. top - 15 /\ top + 1 - (top - 15) = 16
      OBVIOUS
    <2>2. top - 15 \notin Bad
      BY <1>5
    <2> QED BY <2>1, <2>2
  <1>7. ~ Whole(16)
    <2>1. PICK j \in E : j >= 16 /\ j \in Nat
      BY <1>1, <1>3
    <2>2. ~ (j < 16)
      BY <2>1
    <2> QED BY <2>2
  <1> QED BY <1>6, <1>7

\* h is crc16's number after each of the first n bytes of the packet.
Feeds(h, bytes, n) ==
    h = [i \in 0 .. n |-> IF i = 0 THEN {} ELSE AddByte(h[i - 1], bytes[i])]

\* After the first n bytes crc16's number, masked, is what their division ends in.
Fed(bytes, n) ==
    \E h, f : /\ Feeds(h, bytes, n) /\ h[n] \in SUBSET Nat
              /\ Division(f, Number(SubSeq(bytes, 1, n)), 8 * n + 15)
              /\ f[16] = Mask(h[n]) /\ f[16] \in SUBSET (0 .. 15)

\* A byte more (tool.py:46-52).
LEMMA FedOn ==
    ASSUME NEW bytes \in Seq(SUBSET (0 .. 7)), NEW n \in Nat, n < Len(bytes), Fed(bytes, n)
    PROVE  Fed(bytes, n + 1)
  <1> DEFINE first == SubSeq(bytes, 1, n)   byte == bytes[n + 1]
  <1>1. PICK h, f : /\ Feeds(h, bytes, n) /\ h[n] \in SUBSET Nat
                    /\ Division(f, Number(first), 8 * n + 15)
                    /\ f[16] = Mask(h[n]) /\ f[16] \in SUBSET (0 .. 15)
    BY DEF Fed
  <1>2. Len(bytes) \in Nat /\ n + 1 \in 1 .. Len(bytes) /\ byte \in SUBSET (0 .. 7)
    OBVIOUS
  <1>3. first \in Seq(SUBSET (0 .. 7)) /\ Len(first) = n
    BY <1>2
  <1>4. SubSeq(bytes, 1, n + 1) = Append(first, byte)
    BY <1>2
  <1> DEFINE g == [i \in 0 .. n + 1 |-> IF i = n + 1 THEN AddByte(h[n], byte) ELSE h[i]]
  <1>5. /\ DOMAIN g = 0 .. n + 1 /\ g = [i \in DOMAIN g |-> g[i]]
        /\ g[n + 1] = AddByte(h[n], byte)
        /\ \A i \in 0 .. n : g[i] = h[i]
    OBVIOUS
  <1> HIDE DEF g, first, byte
  <1>6. Feeds(g, bytes, n + 1)
    <2>1. \A i \in 0 .. n : h[i] = IF i = 0 THEN {} ELSE AddByte(h[i - 1], bytes[i])
      BY <1>1 DEF Feeds
    <2>2. ASSUME NEW i \in 0 .. n + 1
          PROVE  g[i] = IF i = 0 THEN {} ELSE AddByte(g[i - 1], bytes[i])
      <3>1. CASE i = n + 1
        <4>1. i # 0 /\ i - 1 = n /\ n \in 0 .. n
          BY <3>1
        <4> QED BY <3>1, <4>1, <1>5 DEF byte
      <3>2. CASE i # n + 1
        <4>1. i \in 0 .. n /\ (i = 0 \/ i - 1 \in 0 .. n)
          BY <3>2
        <4> QED BY <4>1, <2>1, <1>5
      <3> QED BY <3>1, <3>2
    <2>3. g = [i \in 0 .. n + 1 |-> IF i = 0 THEN {} ELSE AddByte(g[i - 1], bytes[i])]
      BY <1>5, <2>2
    <2> QED BY <2>3, Zenon DEF Feeds
  <1>7. g[n + 1] \in SUBSET Nat /\ Mask(g[n + 1]) = DeviceAddByte(f[16], byte)
    BY <1>1, <1>2, <1>5, AddByteMask
  <1>8. Number(first) \in SUBSET Nat
        /\ Number(Append(first, byte)) = Xor(Shl(Number(first), 8), byte)
    BY <1>2, <1>3, NumberOf
  <1>9. PICK top \in Nat : top = 8 * n + 15
    OBVIOUS
  <1>10. top >= 15 /\ 8 * (n + 1) + 15 = top + 8
    BY <1>9
  <1>11. PICK d : /\ Division(d, Xor(Shl(Number(first), 8), byte), top + 8)
                  /\ d[16] = DeviceAddByte(f[16], byte)
                  /\ d[16] \in SUBSET (0 .. 15)
    <2>1. Division(f, Number(first), top)
      BY <1>1, <1>9
    <2> QED BY <1>1, <1>2, <1>8, <1>10, <2>1, DivisionGrows
  <1>12. Division(d, Number(SubSeq(bytes, 1, n + 1)), 8 * (n + 1) + 15)
    BY <1>4, <1>8, <1>10, <1>11
  <1> QED BY <1>6, <1>7, <1>11, <1>12, Zenon DEF Fed

\* For every packet crc16 is what its division ends in (tool.py:38-53).
LEMMA Crc16Divides ==
    ASSUME NEW bytes \in Seq(SUBSET (0 .. 7))
    PROVE  \E f : /\ Division(f, Number(bytes), 8 * Len(bytes) + 15)
                  /\ f[16] = crc16(bytes)
  <1>1. PICK len \in Nat : len = Len(bytes)
    OBVIOUS
  <1>2. Fed(bytes, 0)
    <2> DEFINE h == [i \in 0 .. 0 |-> {}]   f == [i \in 16 .. 16 |-> {}]
    <2>1. 0 .. 0 = {0} /\ 16 .. 16 = {16} /\ 16 .. 15 + 1 = {16} /\ 15 + 1 = 16
      OBVIOUS
    <2>2. h = [i \in 0 .. 0 |-> IF i = 0 THEN {} ELSE AddByte(h[i - 1], bytes[i])]
      BY <2>1
    <2>3. h[0] = {} /\ f[16] = {}
      BY <2>1
    <2>4. SubSeq(bytes, 1, 0) = <<>> /\ 8 * 0 + 15 = 15
      OBVIOUS
    <2>5. Number(SubSeq(bytes, 1, 0)) = {}
      BY <2>4 DEF Number
    <2>6. Shl({}, 16) = {} /\ Mask({}) = {}
      BY DEF Shl, Mask
    <2>7. f = [i \in 16 .. 15 + 1 |->
                 IF i = 15 + 1 THEN Shl({}, 16) ELSE Divided(i, f[i + 1])]
      BY <2>1, <2>6
    <2>8. \A i \in 16 .. 15 + 1 : f[i] \in SUBSET Nat
      BY <2>1
    <2> HIDE DEF h, f
    <2>9. Feeds(h, bytes, 0)
      BY <2>2, Zenon DEF Feeds
    <2>10. Division(f, {}, 15)
      <3>1. Divides(f, {}, 15)
        BY <2>7, Zenon DEF Divides
      <3> QED BY <3>1, <2>8, Zenon DEF Division
    <2>11. /\ Feeds(h, bytes, 0) /\ h[0] \in SUBSET Nat
           /\ Division(f, Number(SubSeq(bytes, 1, 0)), 8 * 0 + 15)
           /\ f[16] = Mask(h[0]) /\ f[16] \in SUBSET (0 .. 15)
      BY <2>3, <2>4, <2>5, <2>6, <2>9, <2>10
    <2> QED BY <2>11, Zenon DEF Fed
  <1>3. Fed(bytes, len)
    <2> DEFINE Bad == {n \in 0 .. len : ~ Fed(bytes, n)}
    <2> SUFFICES ASSUME Bad # {} PROVE FALSE
      OBVIOUS
    <2>1. Bad \in SUBSET Nat
      OBVIOUS
    <2>2. PICK m \in Bad : \A n \in Bad : m <= n
      <3> HIDE DEF Bad
      <3> QED BY <2>1, Least
    <2>3. m \in 0 .. len /\ ~ Fed(bytes, m)
      BY <2>2
    <2>4. m # 0
      BY <1>2, <2>3
    <2>5. PICK n \in Nat : n = m - 1
      BY <2>3, <2>4
    <2>6. n \in 0 .. len /\ ~ (m <= n) /\ n < len /\ n + 1 = m
      BY <2>3, <2>5
    <2>7. Fed(bytes, n)
      <3>1. n \notin Bad
        <4> HIDE DEF Bad
        <4> QED BY <2>2, <2>6
      <3> QED BY <3>1, <2>6
    <2> QED BY <1>1, <2>3, <2>6, <2>7, FedOn
  <1>4. PICK h, f : /\ Feeds(h, bytes, len)
                    /\ Division(f, Number(SubSeq(bytes, 1, len)), 8 * len + 15)
                    /\ f[16] = Mask(h[len])
    BY <1>3 DEF Fed
  <1>5. SubSeq(bytes, 1, len) = bytes
    BY <1>1
  <1>6. crc16(bytes) = Mask(h[len])
    <2> DEFINE after == CHOOSE g : Feeds(g, bytes, len)
    <2>1. Feeds(after, bytes, len)
      BY <1>4, Zenon
    <2>2. crc16(bytes) = Mask(after[len])
      BY <1>1 DEF crc16, Feeds
    <2> HIDE DEF after
    <2>3. after[len] = h[len]
      <3> DEFINE Bad == {n \in 0 .. len : after[n] # h[n]}
      <3> SUFFICES ASSUME Bad # {} PROVE FALSE
        OBVIOUS
      <3>1. Bad \in SUBSET Nat
        OBVIOUS
      <3>2. PICK m \in Bad : \A n \in Bad : m <= n
        <4> HIDE DEF Bad
        <4> QED BY <3>1, Least
      <3>3. m \in 0 .. len /\ after[m] # h[m]
        BY <3>2
      <3>4. /\ after[m] = IF m = 0 THEN {} ELSE AddByte(after[m - 1], bytes[m])
            /\ h[m] = IF m = 0 THEN {} ELSE AddByte(h[m - 1], bytes[m])
        BY <1>4, <2>1, <3>3 DEF Feeds
      <3>5. m # 0
        BY <3>3, <3>4
      <3>6. m - 1 \in 0 .. len /\ ~ (m <= m - 1)
        BY <3>3, <3>5
      <3>7. m - 1 \notin Bad
        <4> HIDE DEF Bad
        <4> QED BY <3>2, <3>6
      <3> QED BY <3>3, <3>4, <3>5, <3>6, <3>7
    <2> QED BY <2>2, <2>3
  <1> QED BY <1>1, <1>4, <1>5, <1>6

\* The bits of a packet's number are those of its bytes.
LEMMA NumberBits ==
    ASSUME NEW bytes \in Seq(SUBSET (0 .. 7))
    PROVE  /\ Number(bytes) \in SUBSET Nat
           /\ \A n \in 1 .. Len(bytes) : \A i \in bytes[n] :
                 i + 8 * (Len(bytes) - n) \in Number(bytes)
           /\ \A j \in Number(bytes) : \E n \in 1 .. Len(bytes) : \E i \in bytes[n] :
                 j = i + 8 * (Len(bytes) - n)
           /\ \A j \in Number(bytes) : j < 8 * Len(bytes)
  <1> DEFINE m == Len(bytes)
  <1>1. /\ m \in Nat /\ DOMAIN bytes = 1 .. m
        /\ \A n \in 1 .. m : \A i \in bytes[n] : i \in 0 .. 7
    OBVIOUS
  <1>2. Number(bytes) = UNION {Shl(bytes[n], 8 * (m - n)) : n \in 1 .. m}
    BY <1>1 DEF Number
  <1> HIDE DEF m
  <1>3. \A n \in 1 .. m : \A i \in bytes[n] : i + 8 * (m - n) \in Number(bytes)
    BY <1>2 DEF Shl
  <1>4. \A j \in Number(bytes) : \E n \in 1 .. m : \E i \in bytes[n] : j = i + 8 * (m - n)
    BY <1>2 DEF Shl
  <1>5. \A j \in Number(bytes) : j \in Nat /\ j < 8 * m
    <2> SUFFICES ASSUME NEW j \in Number(bytes) PROVE j \in Nat /\ j < 8 * m
      OBVIOUS
    <2>1. PICK n \in 1 .. m : \E i \in bytes[n] : j = i + 8 * (m - n)
      BY <1>4
    <2>2. PICK i \in 0 .. 7 : j = i + 8 * (m - n)
      BY <1>1, <2>1
    <2> QED BY <1>1, <2>2
  <1> QED BY <1>3, <1>4, <1>5 DEF m

\* The packet of a number has the bits of the number that fit in it.
LEMMA PacketNumber ==
    ASSUME data \in Seq(SUBSET (0 .. 7)), NEW x \in SUBSET Nat
    PROVE  /\ Packet(x) \in Seq(SUBSET (0 .. 7)) /\ Len(Packet(x)) = Len(data)
           /\ Number(Packet(x)) = {j \in x : j < 8 * Len(data)}
  <1> DEFINE m == Len(data)   p == Packet(x)
  <1>1. m \in Nat /\ DOMAIN data = 1 .. m
    OBVIOUS
  <1>2. p = [n \in 1 .. m |-> {i \in 0 .. 7 : i + 8 * (m - n) \in x}]
    BY <1>1 DEF Packet
  <1> HIDE DEF m, p
  <1>3. p \in Seq(SUBSET (0 .. 7)) /\ Len(p) = m
    BY <1>1, <1>2
  <1>4. \A n \in 1 .. m : p[n] = {i \in 0 .. 7 : i + 8 * (m - n) \in x}
    BY <1>2
  <1>5. /\ \A n \in 1 .. m : \A i \in p[n] : i + 8 * (m - n) \in Number(p)
        /\ \A j \in Number(p) : \E n \in 1 .. m : \E i \in p[n] : j = i + 8 * (m - n)
    BY <1>3, NumberBits
  <1>6. ASSUME NEW j \in Number(p) PROVE j \in x /\ j < 8 * m
    <2>1. PICK n \in 1 .. m : \E i \in p[n] : j = i + 8 * (m - n)
      BY <1>5
    <2>2. j < 8 * m
      BY <1>3, NumberBits
    <2> QED BY <1>4, <2>1, <2>2
  <1>7. ASSUME NEW j \in x, j < 8 * m PROVE j \in Number(p)
    <2>1. j \in Nat /\ j < 8 * m
      BY <1>7
    <2>2. PICK q \in Nat : 8 * q <= j /\ j <= 8 * q + 7
      <3>1. j \div 8 \in Nat /\ 8 * (j \div 8) <= j /\ j <= 8 * (j \div 8) + 7
        BY <2>1
      <3> QED BY <3>1
    <2>3. PICK n \in 1 .. m : n = m - q
      BY <1>1, <2>1, <2>2
    <2>4. PICK i \in 0 .. 7 : i = j - 8 * q
      BY <2>1, <2>2
    <2>5. m - n = q /\ j = i + 8 * q
      BY <1>1, <2>1, <2>2, <2>3, <2>4
    <2>6. i \in p[n]
      BY <1>4, <2>5
    <2> QED BY <1>5, <2>5, <2>6
  <1>8. Number(p) = {j \in x : j < 8 * m}
    BY <1>6, <1>7
  <1> QED BY <1>3, <1>8 DEF m, p

\* A packet as long as data that differs from it by a burst has another crc.
LEMMA BurstSeen ==
    ASSUME data \in Seq(SUBSET (0 .. 7)), NEW e \in Bursts,
           NEW f, Division(f, Number(data), 8 * Len(data) + 15)
    PROVE  crc16(Packet(Xor(Number(data), e))) # f[16]
  <1> DEFINE m == Len(data)   N == Number(data)   damaged == Packet(Xor(N, e))
             D == Number(damaged)   hit == Xor(N, D)
  <1>1. N \in SUBSET Nat /\ m \in Nat /\ \A j \in N : j < 8 * m
    BY NumberBits
  <1>2. PICK k \in 0 .. 8 * m - 1, p \in SUBSET (1 .. BurstBits - 1) :
           e = Shl({0} \cup p, k)
    <2>1. PICK k \in 0 .. 8 * m - 1 :
             e \in {Shl({0} \cup p, k) : p \in SUBSET (1 .. BurstBits - 1)}
      BY DEF Bursts
    <2> QED BY <2>1
  <1>3. /\ e \in SUBSET Nat /\ k \in Nat /\ k < 8 * m /\ k \in e
        /\ \A j \in e : k <= j /\ j <= k + 15
    <2>1. {0} \cup p \in SUBSET Nat /\ k \in Nat /\ k < 8 * m
          /\ \A l \in {0} \cup p : l \in 0 .. 15
      BY <1>1, <1>2, BurstBitsAssumption
    <2>2. e \in SUBSET Nat
          /\ \A j \in Nat : j \in e <=> j >= k /\ j - k \in {0} \cup p
      BY <1>2, <2>1, ShlBits
    <2>3. k \in e
      <3>1. k - k = 0
        BY <2>1
      <3> QED BY <2>1, <2>2, <3>1
    <2>4. ASSUME NEW j \in e PROVE k <= j /\ j <= k + 15
      <3>1. j \in Nat /\ j >= k /\ j - k \in {0} \cup p
        BY <2>2
      <3>2. j - k \in 0 .. 15
        BY <2>1, <3>1
      <3> QED BY <2>1, <3>1, <3>2
    <2> QED BY <2>1, <2>2, <2>3, <2>4
  <1>4. Xor(N, e) \in SUBSET Nat
    BY <1>1, <1>3 DEF Xor
  <1>5. /\ damaged \in Seq(SUBSET (0 .. 7)) /\ Len(damaged) = m
        /\ D = {j \in Xor(N, e) : j < 8 * m}
    BY <1>4, PacketNumber
  <1> HIDE DEF N, damaged, D
  <1>6. D \in SUBSET Nat
    BY <1>4, <1>5
  <1>7. PICK top \in Nat : top = 8 * m + 15
    BY <1>1
  <1>8. top >= 15
    BY <1>1, <1>7
  <1>9. Division(f, N, top)
    BY <1>7 DEF N
  <1>10. PICK g : Division(g, D, top) /\ g[16] = crc16(damaged)
    <2>1. \E g : /\ Division(g, Number(damaged), 8 * Len(damaged) + 15)
                 /\ g[16] = crc16(damaged)
      BY <1>5, Crc16Divides
    <2> QED BY <1>5, <1>7, <2>1 DEF D
  <1>11. PICK h : Division(h, hit, top) /\ h[16] = Xor(f[16], g[16])
    BY <1>1, <1>6, <1>8, <1>9, <1>10, DivisionsDiffer
  <1>12. hit \in SUBSET Nat /\ k \in hit /\ \A j \in hit : j \in e /\ j < 8 * m
    BY <1>1, <1>3, <1>5, <1>6 DEF Xor
  <1> HIDE DEF hit
  <1>13. \A j \in hit : k <= j /\ j <= k + 15 /\ j + 16 <= top
    <2> SUFFICES ASSUME NEW j \in hit PROVE k <= j /\ j <= k + 15 /\ j + 16 <= top
      OBVIOUS
    <2>1. j \in Nat /\ k <= j /\ j <= k + 15 /\ j < 8 * m
      BY <1>3, <1>12
    <2> QED BY <1>1, <1>3, <1>7, <2>1
  <1>14. h[16] # {}
    BY <1>3, <1>8, <1>11, <1>12, <1>13, BurstLeaves
  <1>15. f[16] # g[16]
    BY <1>11, <1>14 DEF Xor
  <1> QED BY <1>10, <1>15 DEF damaged, N

\* For packets of any length and any bytes, no burst of up to 16 bits leaves the crc as
\* it was, so that the device refuses the damaged packet (genPacket, protocol.py:43-52).
THEOREM BurstsAreSeen == Spec => []BurstsDetected
  <1>1. Dividing => BurstsDetected
    <2> SUFFICES ASSUME Dividing, NEW e \in Bursts
                 PROVE  crc16(Packet(Xor(Number(data), e))) # Mask(crc)
      BY DEF BurstsDetected
    <2>1. data \in Seq(SUBSET (0 .. 7)) /\ Mask(crc) = reg
      BY DEF Dividing, Agreement, AgreesWithDevice
    <2>2. PICK f : Division(f, Number(data), 8 * Len(data) + 15) /\ f[16] = reg
      BY DEF Dividing
    <2> QED BY <2>1, <2>2, BurstSeen
  <1>2. Spec => []Dividing
    BY DividingInvariant
  <1> QED BY <1>1, <1>2, PTL
=============================================================================
