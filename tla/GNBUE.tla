-------------------------------- MODULE GNBUE --------------------------------
(***************************************************************************)
(* The emulated 5G UEs of one gNB and their signalling with the AMF over   *)
(* the gNB's one N2 association: the UE-level requests of SendGNBUENGAP    *)
(* and AwaitGNBUEMessage, with the whole of what each does to the UE.      *)
(*                                                                         *)
(* A request sends at most one uplink, then waits for one downlink.  The   *)
(* transport is the atomic mailbox that Framed is shown to implement: a    *)
(* wait takes the first qualifying frame or, when there is none, may time  *)
(* out and leave the answer to whoever asks next.  Each UE is driven by    *)
(* one request at a time; the requests of different UEs interleave.        *)
(* The AMF is external: it may answer late, twice, or never.               *)
(***************************************************************************)
EXTENDS NASContext, NGAPDecode, FiniteSets

CONSTANTS
    UEs,            \* the UEs created on this gNB
    Sessions,       \* PDU session identities used, a uint8 in the code
    Overrides,      \* TRUE: requests may carry amf_ue_ngap_id_override
    Used,           \* bound: the requests the client makes, of Requests
    Procedures,     \* bound: the same for those with an action of their own
    AMFTypes,       \* bound: the message types the AMF sends
    MaxKeys,        \* bound: authentications per UE
    MaxCount,       \* bound: protected downlinks per key
    MaxUL,          \* bound: protected uplinks per UE
    MaxRan, MaxAmf, \* bound: RAN and AMF ids ever allocated
    MaxQueued       \* bound: downlinks waiting to be fetched

Unassigned == 0     \* AMFUENGAPID before the AMF's first answer

Dnt == "DownlinkNASTransport"
Ics == "InitialContextSetupRequest"
Setup == "PDUSessionResourceSetupRequest"
Modify == "PDUSessionResourceModifyRequest"
Drop == "PDUSessionResourceReleaseCommand"
Release == "UEContextReleaseCommand"
CancelAck == "HandoverCancelAcknowledge"
Command == "HandoverCommand"
NotPrepared == "HandoverPreparationFailure"
Status == "DownlinkRANStatusTransfer"
Page == "Paging"
Err == "ErrorIndication"

NASBearers == {Dnt, Ics, Setup, Modify, Drop}
HandoverTypes == {CancelAck, Command, NotPrepared, Status}
MessageTypes == NASBearers \cup HandoverTypes \cup {Release, Page, Err}

\* rand: the challenge an AUTHENTICATION REQUEST carries
NAS == [kind : {"none", "challenge", "command", "confirm", "other"},
        prot : Protections, key : Nat, count : Nat, rand : Nat]

NoNAS == [kind |-> "none", prot |-> "plain", key |-> NoKey, count |-> 0, rand |-> 0]

\* to: the UE the AMF means, which no message says; {} if it is not about one
Downlink == [to : SUBSET UEs, ran : Int, amf : Int, nas : NAS]

INSTANCE FrameQueues WITH Types <- MessageTypes, Labels <- Downlink, Requests <- {}

VARIABLES
    sec,        \* per UE: its NAS security context
    ran, amf,   \* per UE: RANUENGAPID, AMFUENGAPID
    rand,       \* per UE: RAND/AUTN, as the number of the challenge
    sessions,   \* per UE: PDUSessions, [id, teid]
    call,       \* per UE: the request under way, as a set of at most one
    answer,     \* per UE: what its last request returned, or {}
    lastRan,    \* the gNB's RAN id counter
    frames,     \* downlinks received and not fetched
    core,       \* external: the AMF's view of each UE
    lastAmf,    \* external: the AMF's id counter
    track       \* history, per UE: see Tracked

vars == <<sec, ran, amf, rand, sessions, call, answer, lastRan, frames, core,
          lastAmf, track>>

-----------------------------------------------------------------------------
(* The requests.  carrier: "initial" (INITIAL UE MESSAGE), "uplink" (UPLINK *)
(* NAS TRANSPORT), "ngap" (no NAS) or "none".  prot: how the NAS PDU is     *)
(* protected; "ifKamf": only once there is a Kamf.  match: whose messages   *)
(* are taken.  The answer's NAS is unwrapped always, never, or only with a  *)
(* Kamf; its AMF id and its challenge are kept or not.                      *)

\* The common tail: sendUplinkAndWait, sendAndWait, sendRawAndWait
Request(carrier, prot, waits) ==
    [carrier |-> carrier, prot |-> prot, ifKamf |-> FALSE, waits |-> waits,
     match |-> "ids", unwraps |-> "withKamf", learns |-> TRUE, stores |-> TRUE,
     acks |-> FALSE, session |-> 0]

\* The handlers that unwrap for themselves and keep nothing of the answer
Bare(r) == [r EXCEPT !.unwraps = "always", !.learns = FALSE, !.stores = FALSE]

\* The handlers that return the NGAP message as it is
Opaque(r) == [Bare(r) EXCEPT !.unwraps = "never"]

Raw(r) == [r EXCEPT !.prot = "plain"]

RegistrationRequest == Request("initial", "plain", <<Dnt, Ics, Err>>)
MobilityUpdate == [Request("initial", "integrity", <<Dnt, Ics, Err>>) EXCEPT !.ifKamf = TRUE]
OnExistingConnection(r) == [r EXCEPT !.carrier = "uplink", !.waits = <<Dnt, Err>>]
AuthenticationResponse == Request("uplink", "plain", <<Dnt, Err>>)
SecurityModeComplete == Request("uplink", "new", <<Ics, Dnt, Err>>)
RegistrationComplete ==
    [Request("uplink", "ciphered", <<Dnt, Err, Release>>) EXCEPT !.acks = TRUE]
DeregistrationRequest == Bare(Request("uplink", "ciphered", <<Dnt, Release, Err>>))
UEContextReleaseRequest == Opaque(Request("ngap", "plain", <<Release, Err>>))
IdentityResponse ==
    [Request("uplink", "ciphered", <<Dnt, Ics, Err>>) EXCEPT !.ifKamf = TRUE]
AuthenticationFailure == Request("uplink", "plain", <<Dnt, Err>>)
SecurityModeReject == Request("uplink", "plain", <<Release, Dnt, Err>>)
ServiceRequest ==
    [Bare(Request("initial", "integrity", <<Ics, Dnt, Setup, Err>>))
        EXCEPT !.ifKamf = TRUE, !.learns = TRUE]
ServiceRequestConnected ==
    [Request("uplink", "integrity", <<Ics, Dnt, Setup, Err>>) EXCEPT !.ifKamf = TRUE]
InjectNAS == [Opaque(Request("uplink", "plain", <<Dnt, Err, Release>>)) EXCEPT !.match = "any"]
UECapabilityInfo == Opaque(Request("ngap", "plain", <<Err>>))
ErrorIndication == Request("ngap", "plain", <<Release, Err>>)
HandoverCancel == [Opaque(Request("ngap", "plain", <<CancelAck, Err>>)) EXCEPT !.match = "any"]
\* InitialContextSetupFailure, HandoverRequired, RANStatusTransfer
FireAndForget == Request("ngap", "plain", <<>>)
PDUSessionEstablishment(id) ==
    [Bare(Request("uplink", "ciphered", <<Setup, Dnt, Err>>)) EXCEPT !.session = id]
PDUSessionEstablishmentRaw == Request("uplink", "plain", <<Setup, Dnt, Err>>)
PDUSessionRelease == Request("uplink", "ciphered", <<Drop, Dnt, Err>>)
PDUSessionModification == Request("uplink", "ciphered", <<Modify, Dnt, Err>>)
\* PDUSessionReleaseComplete, -ModificationComplete, -CommandReject, Status5GSM
SessionMessage == Request("uplink", "ciphered", <<>>)
Await(t) == Bare(Request("none", "plain", <<t>>))

Requests ==
    {RegistrationRequest, MobilityUpdate, OnExistingConnection(RegistrationRequest),
     OnExistingConnection(MobilityUpdate), SecurityModeComplete,
     Raw(SecurityModeComplete), RegistrationComplete, Raw(RegistrationComplete),
     DeregistrationRequest, Raw(DeregistrationRequest), UEContextReleaseRequest,
     IdentityResponse, Raw(IdentityResponse), AuthenticationFailure,
     SecurityModeReject, ServiceRequestConnected, Raw(ServiceRequestConnected),
     InjectNAS, UECapabilityInfo, ErrorIndication, HandoverCancel, FireAndForget,
     PDUSessionEstablishmentRaw, PDUSessionRelease, PDUSessionModification,
     SessionMessage}
    \cup {PDUSessionEstablishment(id) : id \in Sessions}
    \cup {Await(t) : t \in MessageTypes}

ASSUME GNBUEAssumption ==
    /\ IsFiniteSet(UEs) /\ Sessions \subseteq 1..255 /\ Overrides \in BOOLEAN
    /\ Used \subseteq Requests
    /\ Procedures \subseteq {"authentication", "service", "reestablishment"}
    /\ AMFTypes \subseteq MessageTypes
    /\ {MaxKeys, MaxCount, MaxUL, MaxRan, MaxAmf, MaxQueued} \subseteq Nat
    /\ Cardinality(UEs) <= MaxRan /\ MaxRan < 16777216

\* Sent under a fresh RAN id; waits for the release of the old connection only.
Reestablishment(r) ==
    [Opaque(r) EXCEPT !.waits = <<Release, Err>>, !.match = "ran"]

-----------------------------------------------------------------------------
Init ==
    /\ sec = [u \in UEs |-> FreshContext]
    /\ lastRan = Cardinality(UEs)
    /\ ran \in {f \in [UEs -> 1..lastRan] : \A u, v \in UEs : u # v => f[u] # f[v]}
    /\ amf = [u \in UEs |-> Unassigned]
    /\ rand = [u \in UEs |-> NoKey]
    /\ sessions = [u \in UEs |-> {}]
    /\ call = [u \in UEs |-> {}] /\ answer = [u \in UEs |-> {}]
    /\ frames = EmptyQueues
    /\ core = [u \in UEs |-> [ran |-> 0, amf |-> 0, key |-> NoKey, dl |-> 0,
                              ul |-> 0, chal |-> NoKey, res |-> NoKey,
                              secured |-> FALSE, again |-> FALSE,
                              echo |-> <<NoId, NoId>>]]
    /\ lastAmf = 0
    /\ track = [u \in UEs |-> [ok |-> FALSE, at |-> 0]]

-----------------------------------------------------------------------------
(* Sending *)

AllocateRANUENGAPID == lastRan + 1

Protection(u, r) == IF r.ifKamf /\ sec[u].kamf = NoKey THEN "plain" ELSE r.prot

\* amf_ue_ngap_id_override: another UE's id in the place of one's own
EffectiveAmfIDs(u, r) ==
    IF Overrides /\ r.carrier \in {"uplink", "ngap"} THEN {amf[v] : v \in UEs} ELSE {amf[u]}

\* External: the AMF's UL COUNT.  A first SECURITY MODE COMPLETE under its keys
\* takes them into use, from COUNT 0; again: it came more than once.
Counted(c, keys, prot) ==
    IF prot = "plain" \/ keys # c.key \/ keys = NoKey THEN c
    ELSE IF prot = "new" THEN [c EXCEPT !.ul = 1, !.secured = TRUE, !.again = c.secured]
    ELSE [c EXCEPT !.ul = @ + 1]

\* External: an INITIAL UE MESSAGE opens a connection, under a new AMF id; the
\* first is 0, which the code takes for none.
Heard(c, carrier, i, a) ==
    CASE carrier = "none" -> c
      [] carrier = "initial" -> [c EXCEPT !.ran = i, !.amf = lastAmf, !.echo = <<i, NoId>>]
      [] OTHER -> [c EXCEPT !.echo = <<i, a>>]

\* Protect, send with RAN id i and AMF id a, and start the wait if there is one.
Emit(u, r, i, a) ==
    /\ call[u] = {}
    /\ LET p == Protection(u, r) IN
         /\ p # "plain" => CanProtect(sec[u])
         /\ AfterUplink(sec[u], p).ul <= MaxUL
         /\ sec' = [sec EXCEPT ![u] = AfterUplink(@, p)]
         /\ track' = IF p = "new" THEN [track EXCEPT ![u] = [ok |-> TRUE, at |-> 0]] ELSE track
         /\ core' = [core EXCEPT ![u] = Counted(Heard(@, r.carrier, i, a), sec[u].keys, p)]
    /\ r.carrier = "initial" => lastAmf < MaxAmf
    /\ lastAmf' = IF r.carrier = "initial" THEN lastAmf + 1 ELSE lastAmf
    /\ call' = [call EXCEPT ![u] = IF r.waits = <<>> THEN {} ELSE {[req |-> r, amf |-> a]}]
    /\ answer' = [answer EXCEPT ![u] = {}]
    /\ UNCHANGED <<amf, rand, sessions, frames>>

Send(u, r) ==
    /\ \E a \in EffectiveAmfIDs(u, r) : Emit(u, r, ran[u], a)
    /\ UNCHANGED <<ran, lastRan>>

\* Without a challenge, with res_star_override or raw_nas_pdu: no Kamf, and the
\* AMF gets a RES* that it does not expect.
SendAuthenticationResponse(u) ==
    /\ "authentication" \in Procedures /\ call[u] = {}
    /\ \E g \in {rand[u], NoKey}, a \in EffectiveAmfIDs(u, AuthenticationResponse) :
         /\ sec' = [sec EXCEPT ![u].kamf = IF g = NoKey THEN @ ELSE g]
         /\ core' = [core EXCEPT ![u] = [Heard(@, "uplink", ran[u], a) EXCEPT !.res = g]]
         /\ call' = [call EXCEPT ![u] = {[req |-> AuthenticationResponse, amf |-> a]}]
    /\ answer' = [answer EXCEPT ![u] = {}]
    /\ UNCHANGED <<ran, amf, rand, sessions, lastRan, lastAmf, frames, track>>

\* Not on an existing connection: the UE moves to a fresh RAN id first.
SendServiceRequest(u, r) ==
    /\ "service" \in Procedures /\ lastRan < MaxRan
    /\ lastRan' = AllocateRANUENGAPID
    /\ ran' = [ran EXCEPT ![u] = AllocateRANUENGAPID]
    /\ Emit(u, r, AllocateRANUENGAPID, amf[u])

\* The fresh RAN id is the AMF's to use; the UE keeps the old one.
Reestablish(u, r) ==
    /\ "reestablishment" \in Procedures /\ lastRan < MaxRan
    /\ lastRan' = AllocateRANUENGAPID
    /\ Emit(u, Reestablishment(r), AllocateRANUENGAPID, amf[u])
    /\ UNCHANGED ran

-----------------------------------------------------------------------------
(* Waiting *)

\* Mutant of Matches: an AMF id not assigned yet is matched like any other.
MatchesUnassigned(u, w, l) ==
    \/ w.req.match = "any"
    \/ w.req.match = "ids" /\ l.ran = NoId /\ l.amf = NoId
    \/ l.ran = ran[u]
    \/ w.req.match = "ids" /\ l.amf = w.amf

\* ueNGAPMatcher, and the matches of the waits that do not use it
Matches(u, w, l) ==
    \/ w.req.match = "any"
    \/ w.req.match = "ids" /\ l.ran = NoId /\ l.amf = NoId
    \/ l.ran = ran[u]
    \/ w.req.match = "ids" /\ w.amf # Unassigned /\ l.amf = w.amf

Wanted(u, w) == [types |-> w.req.waits, accept |-> {l \in Downlink : Matches(u, w, l)}]

Unwraps(u, w, nas) ==
    /\ nas.kind # "none"
    /\ w.req.unwraps = "always" \/ (w.req.unwraps = "withKamf" /\ sec[u].kamf # NoKey)

\* What is read of the NAS message: unwrapped, or decoded as it came
Read(u, w, nas) == IF Unwraps(u, w, nas) THEN Readable(sec[u], nas) ELSE nas.prot = "plain"

\* History: the COUNT of the last protected downlink unwrapped, and whether all
\* since the context (re)started came under its keys, in the order they were
\* sent and fewer than Octet apart.
Tracked(u, nas) ==
    CASE nas.prot = "plain" -> track[u]
      [] nas.prot = "new" -> [ok |-> TRUE, at |-> 0]
      [] OTHER -> [ok |-> /\ track[u].ok /\ nas.key = sec[u].keys
                          /\ nas.count \in track[u].at .. track[u].at + Octet - 1,
                   at |-> nas.count]

Learns(w, f) == w.req.learns /\ f.label.amf # NoId /\ f.type # Err

\* Mutant of DLTeid: the RAN id is not shifted out of the way of the session's.
DLTeidUnshifted(i, id) == i + id

\* uint32(RANUENGAPID)<<8 | id, of RAN ids below 2^24
DLTeid(i, id) == i * 256 + id

\* captureTunnel: the session that was asked for, in the place of an older one
CaptureTunnel(u, id) ==
    [sessions EXCEPT ![u] = {s \in @ : s.id # id} \cup {[id |-> id, teid |-> DLTeid(ran[u], id)]}]

\* ackConfigurationUpdate: an uplink of its own for a command that asks for one
Acknowledges(u, w, nas) == w.req.acks /\ nas.kind = "confirm" /\ Read(u, w, nas)

Fetch(u) ==
    \E w \in call[u] :
      /\ Hits(frames, Wanted(u, w)) # {}
      /\ LET p == FirstHit(frames, Wanted(u, w))
             f == FrameAt(frames, Wanted(u, w), p)
             nas == f.label.nas
             after == IF Unwraps(u, w, nas) THEN AfterDownlink(sec[u], nas) ELSE sec[u]
         IN /\ frames' = Without(frames, Wanted(u, w), p)
            /\ amf' = IF Learns(w, f) THEN [amf EXCEPT ![u] = f.label.amf] ELSE amf
            /\ LET prot == IF Acknowledges(u, w, nas) THEN "ciphered" ELSE "plain"
               IN /\ sec' = [sec EXCEPT ![u] = AfterUplink(after, prot)]
                  /\ core' = [core EXCEPT ![u] = Counted(@, after.keys, prot)]
            /\ rand' = IF w.req.stores /\ nas.kind = "challenge" /\ Read(u, w, nas)
                         THEN [rand EXCEPT ![u] = nas.rand] ELSE rand
            /\ sessions' = IF w.req.session \in Sessions /\ f.type = Setup
                            THEN CaptureTunnel(u, w.req.session) ELSE sessions
            /\ track' = IF Unwraps(u, w, nas) THEN [track EXCEPT ![u] = Tracked(u, nas)] ELSE track
            /\ answer' = [answer EXCEPT ![u] =
                  {[kind |-> nas.kind, match |-> w.req.match,
                    foreign |-> f.label.to # {} /\ u \notin f.label.to,
                    agrees |-> after.keys = nas.key,
                    mac |-> IF Unwraps(u, w, nas) THEN MACVerified(sec[u], nas) ELSE "absent"]}]
            /\ call' = [call EXCEPT ![u] = {}]
      /\ UNCHANGED <<ran, lastRan, lastAmf>>

\* ErrTimeout, which the transport reports only when nothing qualifies
TimeOut(u) ==
    /\ \E w \in call[u] : Hits(frames, Wanted(u, w)) = {}
    /\ call' = [call EXCEPT ![u] = {}]
    /\ UNCHANGED <<sec, ran, amf, rand, sessions, answer, lastRan, frames, core, lastAmf, track>>

\* The gNB-level requests (await, raw_ngap_pdu, path_switch_request, ng_reset)
\* take the next message of a type, whoever it is for, and return it as it is.
AwaitGNBMessage(t) ==
    /\ frames[t] # <<>>
    /\ frames' = [frames EXCEPT ![t] = Tail(@)]
    /\ UNCHANGED <<sec, ran, amf, rand, sessions, call, answer, lastRan, core, lastAmf, track>>

-----------------------------------------------------------------------------
(* External: the AMF *)

Room == Cardinality(UNION {{t} \X DOMAIN frames[t] : t \in MessageTypes}) < MaxQueued

\* The PDU of each message
ProcedureOf ==
    [DownlinkNASTransport |-> <<"initiating_message", "DownlinkNASTransport">>,
     InitialContextSetupRequest |-> <<"initiating_message", "InitialContextSetup">>,
     PDUSessionResourceSetupRequest |-> <<"initiating_message", "PDUSessionResourceSetup">>,
     PDUSessionResourceModifyRequest |-> <<"initiating_message", "PDUSessionResourceModify">>,
     PDUSessionResourceReleaseCommand |-> <<"initiating_message", "PDUSessionResourceRelease">>,
     UEContextReleaseCommand |-> <<"initiating_message", "UEContextRelease">>,
     HandoverCancelAcknowledge |-> <<"successful_outcome", "HandoverCancel">>,
     HandoverCommand |-> <<"successful_outcome", "HandoverPreparation">>,
     HandoverPreparationFailure |-> <<"unsuccessful_outcome", "HandoverPreparation">>,
     DownlinkRANStatusTransfer |-> <<"initiating_message", "DownlinkRANStatusTransfer">>,
     Paging |-> <<"initiating_message", "Paging">>,
     ErrorIndication |-> <<"initiating_message", "ErrorIndication">>]

NASCarrier(t) ==
    CASE t = Setup -> {"SetupListSUReq"}
      [] t = Modify -> {"ModifyListModReq"}
      [] t \in {Dnt, Ics, Drop} -> {"NASPDU"}
      [] OTHER -> {}

\* With the ids that are not NoId; a list has an item without a NAS PDU first.
PDU(t, r, a, nas) ==
    LET id(x) == IF x = "RANUENGAPID" THEN r ELSE a
        ids == {x \in Ids : id(x) # NoId}
        value(x) == CASE x \in Ids -> id(x)
                      [] x = "UENGAPIDs" -> [y \in ids |-> id(y)]
                      [] x = "NASPDU" -> nas
                      [] OTHER -> <<[nas |-> {}], [nas |-> {nas}]>>
        carried == IF t = Release THEN {"UENGAPIDs"} ELSE ids \cup NASCarrier(t)
    IN [kind |-> ProcedureOf[t][1], procedure |-> ProcedureOf[t][2],
        ies |-> [x \in carried |-> value(x)]]

\* The receiver of the association files a PDU as it decodes it.
Filed(pdu, to) ==
    LET d == Decode(pdu)
        nas == IF d.nas = {} THEN NoNAS ELSE CHOOSE n \in d.nas : TRUE
    IN [type |-> d.type, label |-> [to |-> to, ran |-> d.ran, amf |-> d.amf, nas |-> nas]]

AMFSends(u, t, r, a, nas) ==
    /\ core[u].ran # 0 /\ t \in AMFTypes /\ Room
    /\ frames' = File(frames, Filed(PDU(t, r, a, nas),
                                    IF r = NoId /\ a = NoId THEN {} ELSE {u}))
    /\ UNCHANGED <<sec, ran, amf, rand, sessions, call, answer, lastRan, lastAmf, track>>

Protected(u, kind, g) ==
    [kind |-> kind, prot |-> "ciphered", key |-> core[u].key, count |-> core[u].dl, rand |-> g]

\* AUTHENTICATION REQUEST, plain or, under a current context, protected
AMFChallenges(u) ==
    LET g == core[u].chal + 1 IN
    /\ g <= MaxKeys
    /\ \/ /\ AMFSends(u, Dnt, core[u].ran, core[u].amf,
                      [NoNAS EXCEPT !.kind = "challenge", !.rand = g])
          /\ core' = [core EXCEPT ![u].chal = g]
       \/ /\ core[u].secured /\ core[u].dl <= MaxCount
          /\ AMFSends(u, Dnt, core[u].ran, core[u].amf, Protected(u, "challenge", g))
          /\ core' = [core EXCEPT ![u].chal = g, ![u].dl = @ + 1]

\* SECURITY MODE COMMAND once RES* is right, COUNT 0 under the new keys; or its
\* retransmission, with the next COUNT.
AMFCommands(u) ==
    LET again == core[u].key = core[u].chal
        count == IF again THEN core[u].dl ELSE 0
    IN
    /\ core[u].chal # NoKey /\ core[u].res = core[u].chal /\ count <= MaxCount
    /\ ~(again /\ core[u].secured)
    /\ AMFSends(u, Dnt, core[u].ran, core[u].amf,
                [NoNAS EXCEPT !.kind = "command", !.prot = "new",
                              !.key = core[u].chal, !.count = count])
    /\ core' = [core EXCEPT ![u].key = core[u].chal, ![u].dl = count + 1,
                            ![u].secured = FALSE, ![u].again = FALSE]

AMFInforms(u, t, kind) ==
    /\ core[u].secured /\ core[u].dl <= MaxCount
    /\ AMFSends(u, t, core[u].ran, core[u].amf, Protected(u, kind, NoKey))
    /\ core' = [core EXCEPT ![u].dl = @ + 1]

\* UE CONTEXT RELEASE COMMAND: by both ids, or by the AMF's alone
AMFReleases(u) ==
    /\ \E r \in {core[u].ran, NoId} : AMFSends(u, Release, r, core[u].amf, NoNAS)
    /\ core' = [core EXCEPT ![u].ran = 0]

\* The messages of a handover at its source
AMFHandsOver(u) ==
    /\ \E t \in HandoverTypes : AMFSends(u, t, core[u].ran, core[u].amf, NoNAS)
    /\ UNCHANGED core

AMFPages(u) ==
    /\ AMFSends(u, Page, NoId, NoId, NoNAS)
    /\ UNCHANGED core

\* ERROR INDICATION: echoes the ids of the UE's last uplink, or carries none
AMFErrs(u) ==
    /\ \/ AMFSends(u, Err, core[u].echo[1], core[u].echo[2], NoNAS)
       \/ AMFSends(u, Err, NoId, NoId, NoNAS)
    /\ UNCHANGED core

-----------------------------------------------------------------------------
UEStep(u) ==
    \/ \E r \in Used : Send(u, r)
    \/ SendAuthenticationResponse(u)
    \/ \E r \in {ServiceRequest, Raw(ServiceRequest)} : SendServiceRequest(u, r)
    \/ \E r \in {RegistrationRequest, MobilityUpdate} : Reestablish(u, r)
    \/ Fetch(u) \/ TimeOut(u)

AMFStep(u) ==
    \/ AMFChallenges(u) \/ AMFCommands(u)
    \/ \E t \in NASBearers : AMFInforms(u, t, "other")
    \/ AMFInforms(u, Dnt, "confirm")
    \/ AMFReleases(u) \/ AMFHandsOver(u) \/ AMFPages(u) \/ AMFErrs(u)

Next ==
    \/ \E u \in UEs : UEStep(u) \/ AMFStep(u)
    \/ \E t \in MessageTypes : AwaitGNBMessage(t)

Spec == Init /\ [][Next]_vars

-----------------------------------------------------------------------------
Answer == [kind : {"none", "challenge", "command", "confirm", "other"},
           match : {"ids", "ran", "any"}, foreign : BOOLEAN,
           agrees : BOOLEAN, mac : {"absent", "true", "false"}]

TypeOK ==
    /\ sec \in [UEs -> Context]
    /\ ran \in [UEs -> 1..lastRan] /\ amf \in [UEs -> Nat] /\ rand \in [UEs -> Nat]
    /\ sessions \in [UEs -> SUBSET [id : Sessions, teid : Nat]]
    /\ \A u \in UEs : \A w \in call[u] : call[u] = {w} /\ w.amf \in Nat
    /\ \A u \in UEs : \A x \in answer[u] : answer[u] = {x} /\ x \in Answer
    /\ lastRan \in Nat /\ lastAmf \in Nat
    /\ \A t \in MessageTypes : \A i \in DOMAIN frames[t] :
         frames[t][i].type = t /\ frames[t][i].label \in Downlink
    /\ track \in [UEs -> [ok : BOOLEAN, at : Nat]]

\* While a UE's protected downlinks are fetched in the order they were sent, and
\* fewer than an octet's worth apart, its DL COUNT is the AMF's and every MAC
\* but that of a SECURITY MODE COMMAND verifies (NextDL), across timeouts,
\* late answers and handlers of all kinds.
InStepDownlinksVerify ==
    \A u \in UEs : track[u].ok =>
        /\ sec[u].dl = track[u].at
        /\ \A x \in answer[u] : x.kind # "command" => x.mac # "false"

\* Once a UE answered the AMF's command, and only once, its UL COUNT is the one
\* the AMF expects next, whatever was retransmitted, fetched late or re-keyed.
UplinksInStep ==
    \A u \in UEs :
        core[u].secured /\ ~core[u].again /\ sec[u].keys = core[u].key
            => sec[u].ul = core[u].ul

\* A SECURITY MODE COMMAND installs the keys it was made with: no late answer to
\* a timed-out request makes the UE answer it under another Kamf.
CommandsMeetTheirKeys ==
    \A u \in UEs : \A x \in answer[u] :
        x.kind = "command" /\ x.mac # "absent" => x.agrees

\* A wait by AP ids returns no downlink of another UE, however the ids of both
\* have changed since the message was sent.
OwnDownlinksOnly ==
    \A u \in UEs : \A x \in answer[u] : x.match # "any" => ~x.foreign

\* No two PDU sessions on the gNB's N3 address listen on the same DL TEID,
\* though TEIDs outlive the RAN ids they are made from.
TunnelsDistinct ==
    \A u, v \in UEs : \A s \in sessions[u], t \in sessions[v] :
        s.teid = t.teid => u = v /\ s = t

\* gnb_security.go:49 "reports whether the downlink was successfully integrity
\* checked": a command made with the keys it installs is reported verified.
GenuineCommandVerifies ==
    \A u \in UEs : \A x \in answer[u] :
        x.kind = "command" /\ x.agrees => x.mac # "false"
=============================================================================
