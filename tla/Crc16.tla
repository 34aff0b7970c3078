------------------------------- MODULE Crc16 -------------------------------
(***************************************************************************)
(* crc16() of protocol.cpp, the reflected CRC that closes every frame, for *)
(* bytes of BITS bits and a register twice as wide.                        *)
(***************************************************************************)
EXTENDS Integers, Sequences, Functions

CONSTANTS
    BITS,           \* of a byte
    POLY            \* the reflected polynomial

Registers == 0 .. 2^(2 * BITS) - 1
ByteValues == 0 .. 2^BITS - 1

ASSUME Crc16Assumption == BITS \in Nat \ {0} /\ POLY \in Registers

Bit(x, i) == (x \div 2^i) % 2

Xor(x, y) ==
    SumFunction([i \in 0 .. 2 * BITS - 1 |->
                    IF Bit(x, i) # Bit(y, i) THEN 2^i ELSE 0])

Shifted(r) == IF r % 2 = 1 THEN Xor(r \div 2, POLY) ELSE r \div 2

ShiftedBy ==
    LET shifted[n \in 0 .. BITS] ==
            [r \in Registers |->
                IF n = 0 THEN r ELSE Shifted(shifted[n - 1][r])]
    IN  shifted[BITS]

\* Mutant of CrcByte: the register is overwritten, not combined.
CrcByteOverwrites == [r \in Registers, b \in ByteValues |-> ShiftedBy[b]]

\* One turn of the loop over the bytes.
CrcByte == [r \in Registers, b \in ByteValues |-> ShiftedBy[Xor(r, b)]]

\* The register starts with all ones.
crc16(s) ==
    LET crc[n \in 0 .. Len(s)] ==
            IF n = 0 THEN 2^(2 * BITS) - 1 ELSE CrcByte[crc[n - 1], s[n]]
    IN  crc[Len(s)]
=============================================================================
