------------------------------- MODULE IPCodec -------------------------------
(***************************************************************************)
(* The packets inside the tunnels: src/internal/gtpu/ip.go and ip6.go.  An *)
(* address is its octets, four or sixteen of them.                         *)
(***************************************************************************)
EXTENDS OctetStrings

ICMP == 1
UDP == 17
ICMPv6 == 58

Is4(a) == Len(a) = 4
SameFamily(src, dst) == Len(src) = Len(dst)

\* RFC 1071: the carries are added back in until there are none.
onesComplementSum(b) ==
    LET fold[s \in Nat] == IF s < 65536 THEN s ELSE fold[(s % 65536) + (s \div 65536)]
    IN 65535 - fold[WordSum(b)]

PseudoHeader(src, dst, proto, upper) ==
    src \o dst \o Octets(Len(upper), 4) \o <<0, 0, 0, proto>>

checksum6(src, dst, proto, upper) ==
    onesComplementSum(PseudoHeader(src, dst, proto, upper) \o upper)

\* The header up to and after its checksum, of a packet of the given length
HeaderIPv4(total, proto, checksum, src, dst) ==
    <<69, 0>> \o Octets(total, 2) \o <<0, 0, 0, 0, 64, proto>> \o checksum \o src \o dst

buildIPv4(proto, src, dst, l4) ==
    LET header(checksum) == HeaderIPv4(20 + Len(l4), proto, checksum, src, dst)
    IN header(Octets(onesComplementSum(header(<<0, 0>>)), 2)) \o l4

buildIPv6(proto, src, dst, upper) ==
    <<96, 0, 0, 0>> \o Octets(Len(upper), 2) \o <<proto, 64>> \o src \o dst \o upper

ICMPEcho(type, checksum, id, seq, payload) ==
    <<type, 0>> \o checksum \o Octets(id, 2) \o Octets(seq, 2) \o payload

\* SameFamily(src, dst), or the request is refused
BuildICMPEcho(src, dst, id, seq, payload) ==
    LET type == IF Is4(src) THEN 8 ELSE 128
        echo(checksum) == ICMPEcho(type, checksum, id, seq, payload)
        sum == IF Is4(src) THEN onesComplementSum(echo(<<0, 0>>))
                           ELSE checksum6(src, dst, ICMPv6, echo(<<0, 0>>))
    IN IF Is4(src) THEN buildIPv4(ICMP, src, dst, echo(Octets(sum, 2)))
                   ELSE buildIPv6(ICMPv6, src, dst, echo(Octets(sum, 2)))

\* Mutant of AsComputed: a sum of zero is sent as it is.
EvenIfZero(sum) == sum

\* "A zero checksum field means "not computed", illegal over IPv6"
AsComputed(sum) == IF sum = 0 THEN 65535 ELSE sum

UDPDatagram(checksum, srcPort, dstPort, payload) ==
    Octets(srcPort, 2) \o Octets(dstPort, 2) \o Octets(8 + Len(payload), 2)
        \o checksum \o payload

\* Over IPv4 the checksum stays zero.
BuildUDP(src, dst, srcPort, dstPort, payload) ==
    LET udp(checksum) == UDPDatagram(checksum, srcPort, dstPort, payload)
        sum == checksum6(src, dst, UDP, udp(<<0, 0>>))
    IN IF Is4(src) THEN buildIPv4(UDP, src, dst, udp(<<0, 0>>))
                   ELSE buildIPv6(UDP, src, dst, udp(Octets(AsComputed(sum), 2)))

-----------------------------------------------------------------------------
(* Parsing.  The result is a set of at most one: no packet, no "inner".     *)

\* What is told of the upper layer: the fields of a whole header of the
\* protocol the family knows, nothing otherwise
Upper(proto, icmp, l4) ==
    CASE proto = icmp /\ Len(l4) >= 8 ->
           {<<"icmp", At(l4, 0), Uint16(l4, 4), Uint16(l4, 6)>>}
      [] proto = UDP /\ Len(l4) >= 8 ->
           {<<"udp", Uint16(l4, 0), Uint16(l4, 2), Slice(l4, 8, Len(l4))>>}
      [] OTHER -> {}

Inner(src, dst, proto, upper) ==
    [src |-> src, dst |-> dst, protocol |-> proto, upper |-> upper]

ParseIPv4(b) ==
    LET ihl == 4 * (At(b, 0) % 16)
    IN IF Len(b) < 20 \/ Len(b) < ihl THEN {}
       ELSE {Inner(Slice(b, 12, 16), Slice(b, 16, 20), At(b, 9),
                   Upper(At(b, 9), ICMP, Slice(b, ihl, Len(b))))}

ParseIPv6(b) ==
    IF Len(b) < 40 THEN {}
    ELSE {Inner(Slice(b, 8, 24), Slice(b, 24, 40), At(b, 6),
                Upper(At(b, 6), ICMPv6, Slice(b, 40, Len(b))))}

ParseInner(b) ==
    CASE b # <<>> /\ At(b, 0) \div 16 = 4 -> ParseIPv4(b)
      [] b # <<>> /\ At(b, 0) \div 16 = 6 -> ParseIPv6(b)
      [] OTHER -> {}
=============================================================================
