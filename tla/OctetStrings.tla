---------------------------- MODULE OctetStrings ----------------------------
(* Strings of octets, at the offsets the code uses, which start from 0.     *)
EXTENDS Naturals, Sequences

Octet == 0..255

At(b, i) == b[i + 1]
Slice(b, i, j) == SubSeq(b, i + 1, j)

\* encoding/binary, big endian, up to four octets
Place == <<16777216, 65536, 256, 1>>
Octets(n, w) == [i \in 1..w |-> (n \div Place[4 - w + i]) % 256]
Uint16(b, i) == 256 * At(b, i) + At(b, i + 1)
Uint32(b, i) == 65536 * Uint16(b, i) + Uint16(b, i + 2)

\* The numbers that two octets hold, and four
Uint16s == {n \in Nat : n < 65536}
Uint32s == {n \in Nat : n \div 65536 < 65536}

Zeros(n) == [i \in 1..n |-> 0]

\* The sum of the 16-bit words of b; a last odd octet is the upper half of one.
WordSum(b) ==
    LET sum[i \in Nat] ==
          CASE i >= Len(b) -> 0
            [] i = Len(b) - 1 -> 256 * At(b, i)
            [] OTHER -> Uint16(b, i) + sum[i + 2]
    IN sum[0]
=============================================================================
