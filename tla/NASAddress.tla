------------------------------ MODULE NASAddress ------------------------------
(***************************************************************************)
(* The UE's address in the NAS message that sets a session up, and what of *)
(* it becomes the source of the UE's uplinks.  Addresses are octets: the   *)
(* empty string is no text, and a text that netip.ParseAddr does not read  *)
(* is a string of neither length.                                          *)
(***************************************************************************)
EXTENDS OctetStrings

\* PDU session types and PDN types are numbered alike.
IPv4 == 1
IPv6 == 2
IPv4v6 == 3

IsAddress(a) == Len(a) \in {4, 16}

\* decodePDUSessionEstablishmentAccept, of the twelve octets of the IE.  Those of
\* IPv6 are printed in hex, which is an address of no family.
PDUAddress(type, info) ==
    CASE type = IPv4 -> Slice(info, 0, 4)
      [] type = IPv6 -> info
      [] type = IPv4v6 -> Slice(info, 8, 12)
      [] OTHER -> <<>>

\* Of the octets of the PDN address, which start with its type
ueIPFromPDNAddress(b) ==
    IF Len(b) < 5 \/ At(b, 0) # IPv4 THEN <<>> ELSE Slice(b, 1, 5)
=============================================================================
