------------------------------ MODULE GTPUCodec ------------------------------
(***************************************************************************)
(* GTP-U messages as octets: src/internal/gtpu/message.go.  Offsets are    *)
(* the code's, from 0.  The loops over extension headers and over IEs are  *)
(* recursive functions of the offset they have reached.                    *)
(***************************************************************************)
EXTENDS OctetStrings

MsgEchoRequest == 1
MsgEchoResponse == 2
MsgErrorIndication == 26
MsgGPDU == 255

ExtPDUSessionContainer == 133   \* 0x85
PduTypeDL == 0
PduTypeUL == 1

IERecovery == 14
IETEIDDataI == 16
IEPeerAddress == 133

-----------------------------------------------------------------------------
(* Encoding.  A message starts with flags, type, the length after the first *)
(* eight octets, and the TEID.                                              *)

Header(flags, type, length, teid) ==
    <<flags, type>> \o Octets(length, 2) \o Octets(teid, 4)

\* 0x30: version 1, protocol type GTP, nothing optional
EncodeGPDU(teid, tpdu) == Header(48, MsgGPDU, Len(tpdu), teid) \o tpdu

\* 0x34: with an extension header, the PDU Session Container of an uplink
EncodeGPDUWithQFI(teid, qfi, tpdu) ==
    Header(52, MsgGPDU, Len(tpdu) + 8, teid)
        \o <<0, 0, 0, ExtPDUSessionContainer, 1, PduTypeUL * 16, qfi % 64, 0>> \o tpdu

\* 0x32: with a sequence number
EncodeEchoRequest(seq) == Header(50, MsgEchoRequest, 4, 0) \o Octets(seq, 2) \o <<0, 0>>

-----------------------------------------------------------------------------
(* Decoding *)

Optional(b) == At(b, 0) % 8 # 0
HasSeq(b) == (At(b, 0) \div 2) % 2 = 1

\* Decode returns no error: eight octets, version 1, and twelve octets if any
\* optional field is flagged.
Decodes(b) ==
    /\ Len(b) >= 8 /\ At(b, 0) \div 32 = 1
    /\ Optional(b) => Len(b) >= 12

\* The octet before offset p says if an extension header starts there; one of
\* length 0, or that the datagram is too short for, ends the chain.
ExtLen(b, p) == 4 * At(b, p)
HasExt(b, p) ==
    /\ At(b, p - 1) # 0 /\ p < Len(b)
    /\ ExtLen(b, p) # 0 /\ p + ExtLen(b, p) <= Len(b)

\* Mutant of Extensions: only the first extension header is stepped over.
FirstExtension(b) == IF Optional(b) /\ HasExt(b, 12) THEN <<12>> ELSE <<>>

\* The offsets of the extension headers, in order
Extensions(b) ==
    LET walk[p \in Nat] == IF HasExt(b, p) THEN <<p>> \o walk[p + ExtLen(b, p)] ELSE <<>>
    IN IF Optional(b) THEN walk[12] ELSE <<>>

Min2(m, n) == IF m < n THEN m ELSE n

\* What follows the headers, up to the end the length field gives
Payload(b) ==
    LET exts == Extensions(b)
        last == exts[Len(exts)]
        start == CASE ~Optional(b) -> 8
                   [] Optional(b) /\ exts = <<>> -> 12
                   [] OTHER -> last + ExtLen(b, last)
        end == Min2(8 + Uint16(b, 2), Len(b))
    IN Slice(b, Min2(start, end), end)

\* rqi: only of a downlink
DecodePDUSessionContainer(b) ==
    [pduType |-> At(b, 0) \div 16, qfi |-> At(b, 1) % 64,
     rqi |-> IF At(b, 0) \div 16 = PduTypeDL THEN {(At(b, 1) \div 64) % 2 = 1} ELSE {}]

\* The last container of the chain, as a set of at most one
PDUSession(b) ==
    LET exts == Extensions(b)
        hits == {i \in DOMAIN exts : At(b, exts[i] - 1) = ExtPDUSessionContainer}
        at(i) == exts[i]
    IN {DecodePDUSessionContainer(Slice(b, at(i) + 1, at(i) + ExtLen(b, at(i)) - 1)) :
          i \in {i \in hits : \A j \in hits : j <= i}}

-----------------------------------------------------------------------------
(* Information elements of all but G-PDUs: a type below 128 has a length of *)
(* its own, and an unknown one ends the reading; others carry theirs.       *)

TVLength == [t \in {IERecovery, IETEIDDataI} |-> IF t = IERecovery THEN 1 ELSE 4]

ValueAt(b, i) == IF At(b, i) < 128 THEN i + 1 ELSE i + 3

ValueEnd(b, i) ==
    IF At(b, i) < 128 THEN i + 1 + TVLength[At(b, i)] ELSE i + 3 + Uint16(b, i + 1)

HasIE(b, i) ==
    /\ i < Len(b)
    /\ IF At(b, i) < 128 THEN At(b, i) \in DOMAIN TVLength ELSE i + 3 <= Len(b)
    /\ ValueEnd(b, i) <= Len(b)

IEs(b) ==
    LET walk[i \in Nat] ==
          IF HasIE(b, i)
            THEN <<[type |-> At(b, i), value |-> Slice(b, ValueAt(b, i), ValueEnd(b, i))]>>
                   \o walk[ValueEnd(b, i)]
            ELSE <<>>
    IN walk[0]

\* setIE: an address of neither family leaves an earlier one in place.
Valid(ie) == ie.type = IEPeerAddress => Len(ie.value) \in {4, 16}

\* The value of the last valid IE of a type, as a set of at most one
IEValue(ies, type) ==
    LET hits == {i \in DOMAIN ies : ies[i].type = type /\ Valid(ies[i])}
    IN {ies[i].value : i \in {i \in hits : \A j \in hits : j <= i}}

\* netip.Addr.Unmap: an IPv4 address in the form of an IPv6 one
Unmapped(a) ==
    IF Len(a) = 16 /\ Slice(a, 0, 12) = Zeros(10) \o <<255, 255>> THEN Slice(a, 12, 16) ELSE a

Decode(b) ==
    LET ies == IF At(b, 1) = MsgGPDU THEN <<>> ELSE IEs(Payload(b)) IN
    [type |-> At(b, 1), teid |-> Uint32(b, 4),
     seq |-> IF HasSeq(b) THEN Uint16(b, 8) ELSE 0,
     payload |-> Payload(b), pduSession |-> PDUSession(b),
     recovery |-> {At(v, 0) : v \in IEValue(ies, IERecovery)},
     teidDataI |-> {Uint32(v, 0) : v \in IEValue(ies, IETEIDDataI)},
     peerAddress |-> {Unmapped(v) : v \in IEValue(ies, IEPeerAddress)}]
=============================================================================
