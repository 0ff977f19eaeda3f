------------------------------ MODULE UserPlane ------------------------------
(***************************************************************************)
(* The GTP-U endpoint of one node (gtpu.Endpoint) and the user-plane       *)
(* requests that share it: uplink, await of a downlink packet, echo, await *)
(* of an error indication.  A session here is a PDU session of a gNB or a  *)
(* bearer of an eNB; GNBUE and ENBUE say which DL TEIDs it gets, and their *)
(* theorems that no other session gets one of them.                        *)
(*                                                                         *)
(* WaitForDownlink and WaitForControl are the wait of Framed, mutex,       *)
(* watcher and all, with one key and no match: here they are atomic, as    *)
(* Mailbox.  The UPF (S-GW) is external, and UDP loses what it likes.      *)
(***************************************************************************)
EXTENDS UPF, FiniteSets

CONSTANTS
    Nodes,              \* kinds of node: "gNB" (N3), "eNB" (S1-U)
    Sessions, DLTeids,  \* per session: the DL TEIDs it may have in its life
    Accepts,            \* per session: the addresses it may be accepted with
    Traffic,            \* per session: the packet that is sent to its UE
    Shapes,             \* per DL TEID: the forms in which its G-PDUs come, a sequence
    ULTeids,            \* UL TEIDs an uplink may carry, with Unknown among them
    Unknown,            \* a UL TEID without a context at the UPF
    Uplinks,            \* bodies of uplink requests
    UPFIP,              \* the UPF's address
    Peers, Restarts,    \* nodes that echo requests are sent to, and their counters
    Requests,           \* HTTP requests that can be under way at once
    MaxArrivals,        \* bound: datagrams that arrive
    MaxEchoes           \* bound: echo requests ever sent

Teids == UNION {DLTeids[s] : s \in Sessions}

\* A queue of the endpoint: gpdus per TEID, control per message type
Keys == {<<MsgGPDU, d>> : d \in Teids} \cup {<<MsgEchoResponse, 0>>, <<MsgErrorIndication, 0>>}

\* Addresses of four or sixteen octets, ports and TEIDs that fit their fields
ASSUME UserPlaneAssumption ==
    /\ Nodes \subseteq {"gNB", "eNB"}
    /\ \A s, t \in Sessions : s # t => DLTeids[s] \cap DLTeids[t] = {}
    /\ Teids \subseteq Uint32s
    /\ \A s \in Sessions : \A a \in Accepts[s] :
         /\ a.type \in Octet /\ {a.v4, a.iid} \subseteq Seq(Octet)
         /\ Len(a.v4) = IF a.type \in {IPv4, IPv4v6} THEN 4 ELSE 0
         /\ Len(a.iid) = IF a.type \in {IPv6, IPv4v6} THEN 8 ELSE 0
    /\ Sessions \cap (Peers \cup {"UPF"}) = {}
    /\ ULTeids \subseteq Uint32s /\ Unknown \in ULTeids
    /\ \A q \in Uplinks :
         /\ q.src \cup {q.dst, q.payload} \subseteq Seq(Octet) /\ Len(q.dst) \in {4, 16}
         /\ {q.first, q.second, Len(q.payload) + 56} \subseteq Uint16s
    /\ MaxArrivals \in Nat /\ MaxEchoes \in Nat

-----------------------------------------------------------------------------
(* What comes from outside.  The tables are of what the code computes from  *)
(* each datagram of the instance: how it is decoded, and told to a client.  *)

\* to: the session a packet is for, or the peer a control message is from
Datagrams ==
    (UNION {[type : {MsgGPDU}, teid : {d}, to : {s \in Sessions : d \in DLTeids[s]},
             form : DOMAIN Shapes[d]] : d \in Teids})
      \cup [type : {MsgEchoResponse}, teid : {0}, to : Peers, form : {1}]
      \cup [type : {MsgErrorIndication}, teid : {0}, to : {"UPF"}, form : {1}]

ShapeOf(x) == Shapes[x.teid][x.form]

\* The formats of what is sent: extension headers of 4n octets that a length octet
\* can give, with one container at most, an address that is written in one way only,
\* and no more octets than the length field can count.
ASSUME WireAssumption ==
    /\ \A x \in Datagrams : x.type = MsgGPDU =>
         LET shape == ShapeOf(x)  p == Traffic[x.to] IN
         /\ shape.seq \subseteq Uint16s /\ shape.pad \in Nat
         /\ shape.exts \in Seq(ExtensionHeaders)
         /\ \A i, j \in DOMAIN shape.exts :
              shape.exts[i][1] = 133 /\ shape.exts[j][1] = 133 => i = j
         /\ WellFormed(p) /\ Len(Announced(shape)) + Len(Packet(p)) \in Uint16s
    /\ \A peer \in Peers : Restarts[peer] \in Octet
    /\ UPFIP \in Seq(Octet) /\ Len(UPFIP) \in {4, 16} /\ Unmapped(UPFIP) = UPFIP

AsOctets(x) ==
    CASE x.type = MsgGPDU -> GTPUMessage(MsgGPDU, x.teid, ShapeOf(x), Packet(Traffic[x.to]))
      [] x.type = MsgEchoResponse -> EchoResponse(1, Restarts[x.to])
      [] OTHER -> ErrorIndication(Unknown, UPFIP)

Decodable == {x \in Datagrams : Decodes(AsOctets(x))}
Decoded == [x \in Decodable |-> Decode(AsOctets(x))]

\* The body of a response: AwaitGNBDownlink, AwaitENBDownlink (which does not
\* tell the container), SendGTPUEcho, errorIndicationJSON
Told(m, kind) ==
    CASE m.type = MsgGPDU ->
           [raw |-> m.payload, inner |-> ParseInner(m.payload),
            container |-> IF kind = "gNB" THEN m.pduSession ELSE {}]
      [] m.type = MsgEchoResponse -> [seq |-> m.seq, recovery |-> m.recovery]
      [] OTHER -> [header |-> m.teid, teidDataI |-> m.teidDataI, peer |-> m.peerAddress]

Telling == [kind \in Nodes |-> [x \in Decodable |-> Told(Decoded[x], kind)]]

\* What the sender meant, for the properties
UpperOf(p) ==
    IF p.proto = UDP THEN <<"udp", Uint16(p.l4, 0), Uint16(p.l4, 2), Slice(p.l4, 8, Len(p.l4))>>
                     ELSE <<"icmp", At(p.l4, 0), Uint16(p.l4, 4), Uint16(p.l4, 6)>>

QFIsOf(x) ==
    LET exts == ShapeOf(x).exts
    IN {exts[i][2][2] : i \in {i \in DOMAIN exts : exts[i][1] = 133}}

WithContainer == {x \in Datagrams : x.type = MsgGPDU /\ QFIsOf(x) # {}}

Meant(x, kind) ==
    CASE x.type = MsgGPDU ->
           LET p == Traffic[x.to] IN
           [raw |-> Packet(p), inner |-> {Inner(p.src, p.dst, p.proto, {UpperOf(p)})},
            container |-> IF kind = "gNB"
                            THEN {[pduType |-> 0, qfi |-> q, rqi |-> {FALSE}] : q \in QFIsOf(x)}
                            ELSE {}]
      [] x.type = MsgEchoResponse -> [seq |-> 1, recovery |-> {Restarts[x.to]}]
      [] OTHER -> [header |-> 0, teidDataI |-> {Unknown}, peer |-> {UPFIP}]

Meaning == [kind \in Nodes |-> [x \in Datagrams |-> Meant(x, kind)]]

-----------------------------------------------------------------------------
(* What goes out: SendGNBUplink, SendENBUplink                              *)

\* []byte("3gpp-server")
PingPayload == <<51, 103, 112, 112, 45, 115, 101, 114, 118, 101, 114>>

\* The UE's address as the node keeps it, PDUSessionInfo.UEIP or EPSBearer.UEIP
KeptIP(kind, a) ==
    IF kind = "gNB" THEN PDUAddress(a.type, PDUAddressIE(a)) ELSE ueIPFromPDNAddress(PDNAddressIE(a))

AllAccepts == UNION {Accepts[s] : s \in Sessions}
UEIP == [kind \in Nodes |-> [a \in AllAccepts |-> KeptIP(kind, a)]]

\* A request q: udp with ports first and second, or icmp with id and sequence
\* number; src is a set of at most one that stands for the UE's own address.
Source(ip, q) == IF q.src = {} THEN ip ELSE CHOOSE a \in q.src : TRUE
SourcePort(q) == IF q.first = 0 THEN 12345 ELSE q.first

\* Every PDU session has it.
QFI == 1

InnerPacket(src, q) ==
    IF q.kind = "udp"
      THEN BuildUDP(src, q.dst, SourcePort(q), q.second, q.payload)
      ELSE BuildICMPEcho(src, q.dst, q.first, q.second, PingPayload)

\* SendUplink, SendUplinkPlain
Uplink(kind, src, t, q) ==
    IF kind = "gNB" THEN EncodeGPDUWithQFI(t, QFI, InnerPacket(src, q))
                    ELSE EncodeGPDU(t, InnerPacket(src, q))

\* A request is refused when its source is no address, or of another family.
Sendable(src, q) == IsAddress(src) /\ SameFamily(src, q.dst)

\* What the client asked for; the UE's own address is the one the core gave it.
Asked(kind, a, t, q) ==
    [teid |-> t, qfi |-> IF kind = "gNB" THEN {QFI} ELSE {},
     src |-> Source(a.v4, q), dst |-> q.dst,
     upper |-> IF q.kind = "udp" THEN <<"udp", SourcePort(q), q.second, q.payload>>
                                 ELSE <<"icmp", q.first, q.second, PingPayload>>]

\* Per kind of node and accept of the session: each request that is sent, and
\* whether the UPF reads out of it what was asked for
SentFrom(kind, a) ==
    LET src(q) == Source(UEIP[kind][a], q) IN
    {[teid |-> t, request |-> q,
      understood |-> Reads(Uplink(kind, src(q), t, q), kind = "gNB") = {Asked(kind, a, t, q)}] :
       t \in ULTeids, q \in {q \in Uplinks : Sendable(src(q), q)}}

Sent == [kind \in Nodes |-> [a \in AllAccepts |-> SentFrom(kind, a)]]

-----------------------------------------------------------------------------
VARIABLES
    node,       \* the kind of the node, which it keeps
    tunnel,     \* per session: its DL TEID and address as captured, {} before
    queue,      \* gpdus and control: per key, what came and was not fetched
    closed,     \* the endpoint is closed
    call,       \* per request: the wait under way, as a set of at most one
    answer,     \* per request: what it returned, as a set of at most one
    asked,      \* external: the echo requests on the wire, peer by number
    owed,       \* external: the UPF has met an unknown TEID
    misread,    \* external: uplinks that the UPF discarded, or misunderstood
    arrived,    \* history, per key: all that came, in order
    returned    \* history, per key: all that requests returned, in order

local == <<tunnel, queue, closed, call, answer>>
outside == <<asked, owed, misread>>
history == <<arrived, returned>>
vars == <<node, local, outside, history>>

Init ==
    /\ node \in Nodes
    /\ tunnel = [s \in Sessions |-> {}]
    /\ queue = [k \in Keys |-> <<>>]
    /\ arrived = [k \in Keys |-> <<>>] /\ returned = [k \in Keys |-> <<>>]
    /\ closed = FALSE
    /\ call = [p \in Requests |-> {}] /\ answer = [p \in Requests |-> {}]
    /\ asked = <<>> /\ owed = FALSE /\ misread = {}

\* Mutant of Capture: the TEID of another session.
CaptureOther(s) ==
    /\ \E d \in Teids, a \in Accepts[s] : tunnel' = [tunnel EXCEPT ![s] = {[teid |-> d, accept |-> a]}]
    /\ UNCHANGED <<node, queue, closed, call, answer, outside, history>>

\* captureTunnel, acceptAdditionalBearer and the attach: the set-up of a session, or
\* its renewal.  Of the accept, UEIP is kept.
Capture(s) ==
    /\ \E d \in DLTeids[s], a \in Accepts[s] :
         tunnel' = [tunnel EXCEPT ![s] = {[teid |-> d, accept |-> a]}]
    /\ UNCHANGED <<node, queue, closed, call, answer, outside, history>>

-----------------------------------------------------------------------------
(* The requests.  One that waits fixes its key before it does.              *)

\* enbBearer, gnbGTPU: the request is refused without a tunnel, and by a gNB
\* without an address too.  A tunnel of UL TEID 0 is as good as none.
Established(s) == \E t \in tunnel[s] : node = "gNB" => UEIP[node][t.accept] # <<>>

\* sendTo: a closed endpoint sends nothing, and the request fails
CanSend == ~closed

SendUplink(s) ==
    /\ Established(s) /\ CanSend
    /\ \E t \in tunnel[s] : \E u \in Sent[node][t.accept] :
         /\ owed' = (owed \/ (u.understood /\ u.teid = Unknown))
         /\ misread' = misread \cup (IF u.understood THEN {} ELSE {u.request})
    /\ UNCHANGED <<node, local, asked, history>>

Wait(p, k, about) ==
    /\ call[p] = {}
    /\ call' = [call EXCEPT ![p] = {[key |-> k, about |-> about]}]
    /\ answer' = [answer EXCEPT ![p] = {}]
    /\ UNCHANGED <<node, tunnel, queue, closed, owed, misread, history>>

AwaitDownlink(p, s) ==
    /\ Established(s)
    /\ \E t \in tunnel[s] : Wait(p, <<MsgGPDU, t.teid>>, s)
    /\ UNCHANGED asked

\* SendEchoRequest with sequence number 1, then WaitForControl
SendGTPUEcho(p, peer) ==
    /\ CanSend /\ Len(asked) < MaxEchoes
    /\ Wait(p, <<MsgEchoResponse, 0>>, peer)
    /\ asked' = IF EchoReads(EncodeEchoRequest(1)) = {1} THEN Append(asked, peer) ELSE asked

AwaitErrorIndication(p) ==
    /\ Wait(p, <<MsgErrorIndication, 0>>, "UPF")
    /\ UNCHANGED asked

\* Mutant of Taken: the entry of the TEID goes with the first packet taken.
TakenAll(q) == <<>>

Taken(q) == Tail(q)

Fetch(p) ==
    \E c \in call[p] :
      /\ queue[c.key] # <<>>
      /\ queue' = [queue EXCEPT ![c.key] = Taken(@)]
      /\ returned' = [returned EXCEPT ![c.key] = Append(@, Head(queue[c.key]))]
      /\ LET got == Head(queue[c.key])
         IN answer' = [answer EXCEPT ![p] = {[about |-> c.about, got |-> got.sent,
                                              tells |-> Telling[node][got.sent]]}]
      /\ call' = [call EXCEPT ![p] = {}]
      /\ UNCHANGED <<node, tunnel, closed, outside, arrived>>

TimeOut(p) ==
    /\ \E c \in call[p] : queue[c.key] = <<>>
    /\ call' = [call EXCEPT ![p] = {}]
    /\ UNCHANGED <<node, tunnel, queue, closed, answer, outside, history>>

\* The DELETE of the node; requests that hold the endpoint go on with it.
Close ==
    /\ ~closed
    /\ closed' = TRUE
    /\ UNCHANGED <<node, tunnel, queue, call, answer, outside, history>>

-----------------------------------------------------------------------------
(* Receiving *)

\* Mutant of KeyOf: the G-PDUs of all TEIDs in one queue.
KeyOfType(m) == IF m.type = MsgGPDU THEN <<m.type, CHOOSE d \in Teids : TRUE>> ELSE <<m.type, 0>>

\* G-PDUs are filed under their TEID, all else under its message type.
KeyOf(m) == IF m.type = MsgGPDU THEN <<m.type, m.teid>> ELSE <<m.type, 0>>

Arrivals == UNION {{k} \X DOMAIN arrived[k] : k \in Keys}

\* runReceiver, which ends when the socket is closed; a datagram that does not
\* decode changes nothing.
Receive(x) ==
    /\ ~closed /\ x \in Decodable /\ Cardinality(Arrivals) < MaxArrivals
    /\ LET m == [sent |-> x, number |-> Len(arrived[<<x.type, x.teid>>]) + 1]
       IN /\ queue' = [queue EXCEPT ![KeyOf(Decoded[x])] = Append(@, m)]
          /\ arrived' = [arrived EXCEPT ![<<x.type, x.teid>>] = Append(@, m)]
    /\ UNCHANGED <<node, tunnel, closed, call, answer, misread, returned>>

\* External: a packet of the session's traffic, on a DL TEID of its own, which may
\* be one that it had before; a UPF sends containers, an S-GW none.
UPFSends(x) ==
    /\ x.type = MsgGPDU /\ tunnel[x.to] # {}
    /\ node = "eNB" => x \notin WithContainer
    /\ Receive(x)
    /\ UNCHANGED <<asked, owed>>

\* External: the answer to an echo request, or a second copy of it
PeerAnswers(x) ==
    /\ x.type = MsgEchoResponse /\ \E i \in DOMAIN asked : asked[i] = x.to
    /\ Receive(x)
    /\ UNCHANGED <<asked, owed>>

UPFIndicatesError(x) ==
    /\ x.type = MsgErrorIndication /\ owed
    /\ Receive(x)
    /\ owed' = FALSE
    /\ UNCHANGED asked

-----------------------------------------------------------------------------
Next ==
    \/ \E s \in Sessions : Capture(s) \/ SendUplink(s)
    \/ \E p \in Requests : \/ \E s \in Sessions : AwaitDownlink(p, s)
                           \/ \E peer \in Peers : SendGTPUEcho(p, peer)
                           \/ AwaitErrorIndication(p) \/ Fetch(p) \/ TimeOut(p)
    \/ \E x \in Datagrams : UPFSends(x) \/ PeerAnswers(x) \/ UPFIndicatesError(x)
    \/ Close

Spec == Init /\ [][Next]_vars

-----------------------------------------------------------------------------
TypeOK ==
    /\ node \in Nodes
    /\ \A s \in Sessions : tunnel[s] \subseteq [teid : DLTeids[s], accept : Accepts[s]]
    /\ \A k \in Keys : queue[k] \in Seq([sent : Datagrams, number : 1..MaxArrivals])
    /\ \A p \in Requests : \A c \in call[p] : call[p] = {c} /\ c.key \in Keys
    /\ closed \in BOOLEAN /\ owed \in BOOLEAN /\ asked \in Seq(Peers)
    /\ misread \subseteq Uplinks

\* Whatever arrives on a TEID, or of a control type, is returned by one request or
\* is still queued, in the order it came, however many requests wait on the key.
InOrderOnce == \A k \in Keys : arrived[k] = returned[k] \o queue[k]

\* An await on a session returns a packet sent to that session, although all
\* share the socket, sessions are renewed while requests wait, and packets for a
\* TEID that was given up are still on their way or in the queue.
OwnSessionOnly ==
    \A p \in Requests : \A a \in answer[p] : a.about \in Sessions => a.got.to = a.about

\* What a response tells of a datagram is what its sender put there: the packet
\* and its QoS flow, the restart counter, the offending TEID and the peer, whatever
\* sequence numbers, extension headers, IP options and padding lie around them.
ReadAsSent ==
    \A p \in Requests : \A a \in answer[p] : a.tells = Meaning[node][a.got]

\* A peer that checks lengths and checksums reads out of every uplink the packet
\* that the client asked for, in either family, at either kind of node, and from the
\* address the core has given the UE unless the client named another.
UplinksUnderstood == misread = {}

\* openapi.yaml:952 "Sends a GTP-U Echo Request ... to upf_ip and returns the Echo
\* Response": it is the response of the peer that was asked.
EchoFromAsked ==
    \A p \in Requests : \A a \in answer[p] : a.about \in Peers => a.got.to = a.about
=============================================================================
