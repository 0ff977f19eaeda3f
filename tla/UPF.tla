--------------------------------- MODULE UPF ---------------------------------
(***************************************************************************)
(* The other end of the tunnels, a UPF or an S-GW.  It is external: what   *)
(* is here is a reference, written from the formats and not from the code, *)
(* of what such a peer may send and of how it reads what it is sent.       *)
(***************************************************************************)
EXTENDS GTPUCodec, IPCodec, NASAddress

\* What precedes the body of a message, and how many octets of padding follow it:
\* seq is a set of at most one, an extension header <<type, content>>.
Plain == [seq |-> {}, exts |-> <<>>, pad |-> 0]

\* The downlink PDU Session Container, with its QFI and without RQI
Container(qfi) == <<133, <<0, qfi>>>>

\* What an extension header can be; of a container, the downlink's without RQI
ExtensionHeaders ==
    {h \in (1..255) \X Seq(Octet) :
       /\ (Len(h[2]) + 2) % 4 = 0 /\ Len(h[2]) + 2 <= 4 * 255
       /\ h[1] = 133 => h[2][1] < 16 /\ h[2][2] < 64}

\* The types and the octets of a chain of extension headers
Chain(exts) ==
    LET next(i) == IF i \in DOMAIN exts THEN exts[i][1] ELSE 0
        header(i) == <<(Len(exts[i][2]) + 2) \div 4>> \o exts[i][2] \o <<next(i + 1)>>
        chain[i \in Nat] == IF i \in DOMAIN exts THEN header(i) \o chain[i + 1] ELSE <<>>
    IN <<next(1)>> \o chain[1]

\* The flags of the header, and what they announce between it and the body
Flags(shape) ==
    48 + (IF shape.exts # <<>> THEN 4 ELSE 0) + (IF shape.seq # {} THEN 2 ELSE 0)

Announced(shape) ==
    LET seq == IF shape.seq = {} THEN 0 ELSE CHOOSE n \in shape.seq : TRUE
    IN IF shape.seq # {} \/ shape.exts # <<>>
         THEN Octets(seq, 2) \o <<0>> \o Chain(shape.exts) ELSE <<>>

GTPUMessage(type, teid, shape, body) ==
    <<Flags(shape), type>> \o Octets(Len(Announced(shape)) + Len(body), 2) \o Octets(teid, 4)
        \o (Announced(shape) \o body \o Zeros(shape.pad))

EchoResponse(seq, counter) ==
    GTPUMessage(MsgEchoResponse, 0, [Plain EXCEPT !.seq = {seq}], <<14, counter>>)

\* The UDP port that the datagram in error came from
PortHeader == <<64, <<8, 104>>>>

\* The last IE is a private one.
ErrorIndication(teid, address) ==
    GTPUMessage(MsgErrorIndication, 0, [Plain EXCEPT !.seq = {0}, !.exts = <<PortHeader>>],
            <<16>> \o Octets(teid, 4) \o <<133>> \o Octets(Len(address), 2) \o address
                \o <<255, 0, 2, 0, 0>>)

-----------------------------------------------------------------------------
(* Packets to a UE: [src, dst, options, proto, l4], the options of IPv4 in  *)
(* words.  The node reads no checksum of a downlink, and they are left 0.   *)

\* One family, no more options than the header length can give, and a whole header of
\* the upper layer
WellFormed(p) ==
    /\ {p.src, p.dst, p.l4} \subseteq Seq(Octet) /\ p.options \in 0..10
    /\ SameFamily(p.src, p.dst) /\ Len(p.dst) \in {4, 16}
    /\ p.proto \in {UDP, IF Is4(p.dst) THEN ICMP ELSE ICMPv6} /\ Len(p.l4) >= 8

Packet(p) ==
    IF Is4(p.dst)
      THEN <<69 + p.options, 0>> \o Octets(20 + 4 * p.options + Len(p.l4), 2)
             \o <<0, 0, 0, 0, 64, p.proto, 0, 0>> \o p.src \o p.dst
             \o [i \in 1..(4 * p.options) |-> 1] \o p.l4
      ELSE <<96, 0, 0, 0>> \o Octets(Len(p.l4), 2) \o <<p.proto, 64>> \o p.src \o p.dst \o p.l4

-----------------------------------------------------------------------------
(* The addresses of a session in the accept that sets it up, [type, v4,     *)
(* iid]: iid is the interface identifier of IPv6, eight octets.             *)

\* An accept without an address, or one that could not be read
NoAddress == [type |-> 0, v4 |-> <<>>, iid |-> <<>>]

\* The IE of 5GS, as long as its longest form, and that of EPS
PDUAddressIE(a) ==
    LET octets == a.iid \o a.v4 IN octets \o Zeros(12 - Len(octets))
PDNAddressIE(a) == <<a.type>> \o a.iid \o a.v4

-----------------------------------------------------------------------------
(* How an uplink is read: a set of at most one, empty for a datagram that   *)
(* the peer has to discard.                                                 *)

\* RFC 1071: the sum over all words, the checksum's own included, is minus zero.
Verifies(b) == WordSum(b) % 65535 = 0

\* Flags and type of a G-PDU on S1-U; on N3, with those of an uplink container behind
\* them.  Length, TEID and QFI are left out.
PlainStart == <<48, 255>>
UplinkStart == <<52, 255, 0, 0, 0, 133, 1, 16, 0>>

\* The T-PDU of a G-PDU, behind an uplink container with N3 and without on S1-U
TPDU(b, n3) ==
    LET header == Slice(b, 0, 2) \o Slice(b, 8, 14) \o Slice(b, 15, 16)
        sound == Len(b) >= 36 /\ Uint16(b, 2) = Len(b) - 8
    IN CASE sound /\ n3 /\ header = UplinkStart -> {Slice(b, 16, Len(b))}
         [] sound /\ ~n3 /\ Slice(b, 0, 2) = PlainStart -> {Slice(b, 8, Len(b))}
         [] OTHER -> {}

\* The payload of an IP packet, if the packet is well formed
IPPayload(t) ==
    CASE At(t, 0) = 69 /\ Uint16(t, 2) = Len(t) /\ Verifies(Slice(t, 0, 20)) ->
           {Slice(t, 20, Len(t))}
      [] At(t, 0) = 96 /\ Uint16(t, 4) = Len(t) - 40 -> {Slice(t, 40, Len(t))}
      [] OTHER -> {}

\* Only UDP over IPv4 goes without a checksum.
UpperReads(src, dst, proto, u) ==
    LET pseudo == src \o dst \o Octets(Len(u), 4) \o <<0, 0, 0, proto>>
        sound == Verifies(IF proto = ICMP THEN u ELSE pseudo \o u)
    IN CASE proto = UDP /\ Uint16(u, 4) = Len(u)
              /\ IF Uint16(u, 6) = 0 THEN Is4(src) ELSE ~Is4(src) /\ sound ->
              {<<"udp", Uint16(u, 0), Uint16(u, 2), Slice(u, 8, Len(u))>>}
         [] proto \in {ICMP, ICMPv6} /\ At(u, 0) = (IF proto = ICMP THEN 8 ELSE 128)
              /\ sound ->
              {<<"icmp", Uint16(u, 4), Uint16(u, 6), Slice(u, 8, Len(u))>>}
         [] OTHER -> {}

Reads(b, n3) ==
    LET of(t) == IF At(t, 0) = 69
                   THEN [src |-> Slice(t, 12, 16), dst |-> Slice(t, 16, 20), proto |-> At(t, 9)]
                   ELSE [src |-> Slice(t, 8, 24), dst |-> Slice(t, 24, 40), proto |-> At(t, 6)]
        read(t, u) ==
          {[teid |-> Uint32(b, 4), qfi |-> IF n3 THEN {At(b, 14)} ELSE {},
            src |-> of(t).src, dst |-> of(t).dst, upper |-> r] :
              r \in UpperReads(of(t).src, of(t).dst, of(t).proto, u)}
    IN UNION {UNION {read(t, u) : u \in IPPayload(t)} : t \in TPDU(b, n3)}

\* The sequence number of an echo request, as a set of at most one
EchoReads(b) ==
    IF Len(b) = 12 /\ Slice(b, 0, 8) = <<50, 1, 0, 4, 0, 0, 0, 0>> THEN {Uint16(b, 8)} ELSE {}
=============================================================================
