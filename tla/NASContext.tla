----------------------------- MODULE NASContext -----------------------------
(***************************************************************************)
(* The 5G NAS security context a UE keeps (store.UEContext) and what the   *)
(* server does with it: protect an uplink, unwrap a downlink, install the  *)
(* keys a SECURITY MODE COMMAND calls for.                                 *)
(*                                                                         *)
(* Keys are numbered by the authentication that yields them.  A MAC is     *)
(* ideal: it verifies iff it was made with the same key and NAS COUNT.     *)
(* Only a COUNT's low octet is on the wire; Octet is 256 in the code.     *)
(* The COUNTs are uint32 in the code and far from wrapping.                *)
(***************************************************************************)
EXTENDS Naturals

CONSTANT Octet

ASSUME OctetAssumption == Octet \in Nat \ {0}

NoKey == 0

\* kamf: Kamf; keys: KnasEnc/KnasInt, by the Kamf they were derived from;
\* active: SecurityActive; ul, dl: ULCount, DLCount
Context == [kamf : Nat, keys : Nat, active : BOOLEAN, ul : Nat, dl : Nat]

FreshContext == [kamf |-> NoKey, keys |-> NoKey, active |-> FALSE, ul |-> 0, dl |-> 0]

\* Security header types: none, integrity only, integrity and ciphering, and
\* the two with which a new context is taken into use.
Protections == {"plain", "integrity", "ciphered", "new"}

-----------------------------------------------------------------------------
(* Uplink: encodeGNBUplinkNAS *)

NextUL(s) == [s EXCEPT !.ul = @ + 1]

CanProtect(s) == s.active \/ s.kamf # NoKey

Rewound(s, prot) == IF prot = "new" THEN [s EXCEPT !.ul = 0, !.dl = 0] ELSE s

\* The context after an uplink went out; a plain or raw one leaves it alone.
AfterUplink(s, prot) == IF prot = "plain" THEN s ELSE NextUL(Rewound(s, prot))

-----------------------------------------------------------------------------
(* Downlink: decodeGNBDownlinkNAS *)

Base(d) == d - (d % Octet)

\* Mutant of EstimateDL: the octet's wrap-around is not carried.
EstimateDLNoCarry(d, seq) == Base(d) + seq

\* Mutant of EstimateDL: the nearest such COUNT, on either side of d.
EstimateDLNearest(d, seq) ==
    IF d % Octet >= seq THEN Base(d) + seq
    ELSE IF 2 * (seq - (d % Octet)) >= Octet THEN Base(d) + seq - Octet ELSE Base(d) + seq

\* The smallest COUNT that is not below d and ends in the octet received.
EstimateDL(d, seq) == IF d % Octet > seq THEN Base(d) + Octet + seq ELSE Base(d) + seq

NextDL(s, seq) == [s EXCEPT !.dl = EstimateDL(@, seq)]

\* Mutant of Establish: it starts the UL COUNT over too, as the EPS twin does.
EstablishRewound(s) ==
    [s EXCEPT !.keys = s.kamf, !.ul = 0, !.dl = 0, !.active = TRUE]

Establish(s) == [s EXCEPT !.keys = s.kamf, !.dl = 0, !.active = TRUE]

\* The COUNT is taken first, the new context established after.
AfterDownlink(s, nas) ==
    CASE nas.prot = "plain" -> s
      [] nas.prot = "new" -> Establish(NextDL(s, nas.count % Octet))
      [] OTHER -> NextDL(s, nas.count % Octet)

\* mac_verified: absent for a plain downlink or without a context, else whether
\* the MAC is the one for the keys now in place and the COUNT taken first.
MACVerified(s, nas) ==
    IF nas.prot = "plain" \/ ~AfterDownlink(s, nas).active THEN "absent"
    ELSE IF /\ nas.key = AfterDownlink(s, nas).keys
            /\ nas.count = NextDL(s, nas.count % Octet).dl THEN "true"
    ELSE "false"

\* A ciphered message comes out readable only under the right key and COUNT.
Readable(s, nas) == nas.prot = "ciphered" => MACVerified(s, nas) = "true"
=============================================================================
