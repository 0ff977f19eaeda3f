-------------------------------- MODULE ENBUE --------------------------------
(***************************************************************************)
(* The emulated EPS UEs of one eNB and their signalling with the MME over  *)
(* the eNB's one S1-MME association: the requests of SendENBUES1AP and     *)
(* AwaitENBUEMessage, with the whole of what each does to the UE.          *)
(*                                                                         *)
(* As in GNBUE, a request sends an uplink, then waits on the atomic        *)
(* mailbox that Framed implements; a UE is driven by one request at a      *)
(* time and those of different UEs interleave.  Unlike there, a UE keeps   *)
(* its eNB id for life, a command read starts the UL COUNT over, few       *)
(* requests learn the MME's id, and two answer a downlink by themselves.   *)
(* The MME is external: it may answer late, twice, or never.               *)
(***************************************************************************)
EXTENDS NASContext, S1APDecode, FiniteSets

CONSTANTS
    UEs,            \* the UEs of this eNB that take part
    ENBUES1APID,    \* per UE: the id the eNB's counter gave it
    EBIs,           \* EPS bearer identities of additional PDN connections
    Overrides,      \* TRUE: requests may carry mme_ue_s1ap_id_override
    Used,           \* bound: the requests the client makes, of Requests
    MMETypes,       \* bound: the message types the MME sends
    MaxKeys,        \* bound: authentications per UE
    MaxCount,       \* bound: protected downlinks per key
    MaxUL,          \* bound: protected uplinks per UE
    MaxENB, MaxMME, \* bound: eNB and MME ids ever allocated
    MaxQueued       \* bound: downlinks waiting to be fetched

Unassigned == 0     \* MMEUES1APID before the MME's first answer
DefaultBearer == 0  \* stands for the bearer of the attach, kept apart

Dnt == "DownlinkNASTransport"
Ics == "InitialContextSetupRequest"
Setup == "ERABSetupRequest"
Modify == "ERABModifyRequest"
Drop == "ERABReleaseCommand"
Release == "UEContextReleaseCommand"
CancelAck == "HandoverCancelAcknowledge"
Command == "HandoverCommand"
NotPrepared == "HandoverPreparationFailure"
Status == "MMEStatusTransfer"
Page == "Paging"
Err == "ErrorIndication"

HandoverTypes == {CancelAck, Command, NotPrepared, Status}
MessageTypes == {Dnt, Ics, Setup, Modify, Drop, Release, Page, Err} \cup HandoverTypes

\* guti: an accept that assigns one; activate, deactivate: of a bearer
Kinds == {"none", "challenge", "command", "guti", "activate", "deactivate", "other"}

\* arg: the challenge, or the EPS bearer identity
NAS == [kind : Kinds, prot : Protections, key : Nat, count : Nat, arg : Nat]

NoNAS == [kind |-> "none", prot |-> "plain", key |-> NoKey, count |-> 0, arg |-> 0]

\* to: the UE the MME means, which no message says; {} if it is not about one
Downlink == [to : SUBSET UEs, enb : Int, mme : Int, nas : NAS]

INSTANCE FrameQueues WITH Types <- MessageTypes, Labels <- Downlink, Requests <- {}

VARIABLES
    sec,        \* per UE: its NAS security context, Kasme as kamf
    mme,        \* per UE: MMEUES1APID
    rand,       \* per UE: RAND/AUTN, as the number of the challenge
    bearers,    \* per UE: the default bearer and Bearers, [ebi, teid]
    call,       \* per UE: the request under way, as a set of at most one
    answer,     \* per UE: what its last request returned, or {}
    lastENB,    \* the eNB's UE id counter
    frames,     \* downlinks received and not fetched
    core,       \* external: the MME's view of each UE
    lastMME,    \* external: the MME's id counter
    track       \* history, per UE: see Tracked

vars == <<sec, mme, rand, bearers, call, answer, lastENB, frames, core, lastMME, track>>

-----------------------------------------------------------------------------
(* The EPS NAS security context: a new one starts both COUNTs over when the *)
(* command is read, and an uplink never does.                               *)

\* Mutant of AfterUplinkEPS: SECURITY MODE COMPLETE rewinds, as in the 5G twin.
AfterUplinkEPSRewound(s, prot) == AfterUplink(s, prot)

AfterUplinkEPS(s, prot) == IF prot = "plain" THEN s ELSE NextUL(s)

EstablishEPS(s) == [Establish(s) EXCEPT !.ul = 0]

AfterDownlinkEPS(s, nas) ==
    IF nas.prot = "new" THEN EstablishEPS(NextDL(s, nas.count % Octet)) ELSE AfterDownlink(s, nas)

-----------------------------------------------------------------------------
(* The requests.  carrier: "initial" (INITIAL UE MESSAGE), "uplink" (UPLINK *)
(* NAS TRANSPORT), "s1ap" (no NAS) or "none".  secured: refused without an  *)
(* active context.  match: "enb", the eNB id alone; "ids", either id;       *)
(* "await", also messages without ids; "any".  The answer's NAS is          *)
(* unwrapped always, only from a DOWNLINK NAS TRANSPORT, or never.          *)
(* keeps: RAND is set by any plain answer, by a challenge only, or never.   *)
(* acts: what the handler does about the message it reads.                  *)

Request(carrier, prot, waits) ==
    [carrier |-> carrier, prot |-> prot, secured |-> FALSE,
     forges |-> carrier \in {"uplink", "s1ap"}, waits |-> waits, match |-> "enb",
     unwraps |-> "never", learns |-> FALSE, keeps |-> "never", acts |-> "none"]

Unwrapping(r) == [r EXCEPT !.unwraps = "always"]
Secured(r) == [r EXCEPT !.secured = TRUE]
ByIds(r) == [r EXCEPT !.match = "ids"]
Raw(r) == [r EXCEPT !.prot = "plain"]

AttachRequest == [Request("initial", "plain", <<Dnt>>) EXCEPT !.learns = TRUE, !.keeps = "any"]
AttachRequestRaw == [Request("initial", "plain", <<Dnt, Release, Err>>) EXCEPT !.learns = TRUE]
AuthenticationResponse == ByIds(Unwrapping(Request("uplink", "plain", <<Dnt, Err>>)))
\* identity_response, and authentication_failure, which does the same
IdentityResponse == [ByIds(Request("uplink", "plain", <<Dnt, Err>>)) EXCEPT !.keeps = "challenge"]
SecurityModeComplete ==
    [ByIds(Unwrapping(Secured(Request("uplink", "new", <<Ics, Err>>)))) EXCEPT !.acts = "attach"]
SecurityModeReject == ByIds(Request("uplink", "plain", <<Release, Err>>))
AttachComplete == ByIds(Unwrapping(Request("uplink", "ciphered", <<Dnt, Err>>)))
UECapabilityInfo == [Request("s1ap", "plain", <<Err>>) EXCEPT !.match = "any"]
ErrorIndication == Request("s1ap", "plain", <<Release, Err>>)
\* initial_context_setup_failure, handover_required, enb_status_transfer, modify_response
FireAndForget == Request("s1ap", "plain", <<>>)
TrackingAreaUpdate ==
    [Unwrapping(Secured(Request("initial", "ciphered", <<Dnt>>)))
        EXCEPT !.learns = TRUE, !.acts = "update"]
UEContextReleaseRequest == [Request("s1ap", "plain", <<Release, Err>>) EXCEPT !.forges = FALSE]
UEContextReleaseForged == [Request("s1ap", "plain", <<Err, Release>>) EXCEPT !.match = "any"]
ServiceRequest ==
    [Secured(Request("initial", "integrity", <<Ics, Dnt>>))
        EXCEPT !.unwraps = "dnt", !.learns = TRUE]
OnExistingConnection(r) == [r EXCEPT !.carrier = "uplink", !.forges = TRUE]
Detach == Unwrapping(Secured(Request("uplink", "ciphered", <<Dnt>>)))
DetachSwitchOff == Secured(Request("uplink", "ciphered", <<Release>>))
InjectNAS == [Request("uplink", "plain", <<Dnt, Err, Release>>) EXCEPT !.match = "any"]
HandoverCancel == [Request("s1ap", "plain", <<CancelAck, Err>>) EXCEPT !.match = "any"]
PdnConnectivity ==
    [Unwrapping(Secured(Request("uplink", "ciphered", <<Setup, Dnt>>))) EXCEPT !.acts = "connect"]
PdnDisconnect ==
    [Unwrapping(Secured(Request("uplink", "ciphered", <<Drop, Dnt>>))) EXCEPT !.acts = "disconnect"]
WithholdAccept(r) == [r EXCEPT !.acts = "none"]
\* The ESM messages that are sent and not waited for
SendESM == Secured(Request("uplink", "ciphered", <<>>))
Await(t) == [Unwrapping(Request("none", "plain", <<t>>)) EXCEPT !.match = "await"]

Requests ==
    {AttachRequest, AttachRequestRaw, AuthenticationResponse, IdentityResponse, SecurityModeComplete,
     Raw(SecurityModeComplete), SecurityModeReject, AttachComplete, Raw(AttachComplete),
     UECapabilityInfo, ErrorIndication, FireAndForget, TrackingAreaUpdate,
     OnExistingConnection(TrackingAreaUpdate), UEContextReleaseRequest,
     UEContextReleaseForged, ServiceRequest, Raw(ServiceRequest),
     OnExistingConnection(ServiceRequest), OnExistingConnection(Raw(ServiceRequest)),
     Detach, Raw(Detach), DetachSwitchOff, Raw(DetachSwitchOff), InjectNAS, HandoverCancel,
     PdnConnectivity, WithholdAccept(PdnConnectivity), PdnDisconnect,
     WithholdAccept(PdnDisconnect), SendESM}
    \cup {Await(t) : t \in MessageTypes}

ASSUME ENBUEAssumption ==
    /\ IsFiniteSet(UEs) /\ EBIs \subseteq 1..15 /\ Overrides \in BOOLEAN
    /\ ENBUES1APID \in [UEs -> 1..MaxENB]
    /\ \A u, v \in UEs : ENBUES1APID[u] = ENBUES1APID[v] => u = v
    /\ Used \subseteq Requests /\ MMETypes \subseteq MessageTypes
    /\ {MaxKeys, MaxCount, MaxUL, MaxENB, MaxMME, MaxQueued} \subseteq Nat

-----------------------------------------------------------------------------
Init ==
    /\ sec = [u \in UEs |-> FreshContext]
    /\ mme = [u \in UEs |-> Unassigned]
    /\ rand = [u \in UEs |-> NoKey]
    /\ bearers = [u \in UEs |-> {}]
    /\ call = [u \in UEs |-> {}] /\ answer = [u \in UEs |-> {}]
    /\ lastENB = Max({0} \cup {ENBUES1APID[u] : u \in UEs})
    /\ frames = EmptyQueues
    /\ core = [u \in UEs |-> [enb |-> 0, mme |-> 0, key |-> NoKey, dl |-> 0, ul |-> 0,
                              chal |-> NoKey, res |-> NoKey, secured |-> FALSE,
                              echo |-> <<NoId, NoId>>, live |-> {}, ending |-> {}]]
    /\ lastMME = 0
    /\ track = [u \in UEs |-> [ok |-> FALSE, at |-> 0, replayed |-> FALSE]]

-----------------------------------------------------------------------------
(* Sending *)

AllocateENBUES1APID == lastENB + 1

\* forgeIDs: another UE's id in the place of one's own
EffectiveMMEIDs(u, r) ==
    IF Overrides /\ r.forges THEN {mme[v] : v \in UEs} ELSE {mme[u]}

\* External: the uplinks the MME had under its newest keys; the SECURITY MODE
\* COMPLETE takes these into use.
Counted(c, keys, prot) ==
    IF prot = "plain" \/ keys # c.key \/ keys = NoKey THEN c
    ELSE [c EXCEPT !.ul = @ + 1, !.secured = @ \/ prot = "new"]

\* External: an INITIAL UE MESSAGE opens a connection, under a new MME id; the
\* first is 0, which the code takes for none.
Heard(c, carrier, i, a) ==
    CASE carrier = "none" -> c
      [] carrier = "initial" -> [c EXCEPT !.enb = i, !.mme = lastMME, !.echo = <<i, NoId>>]
      [] OTHER -> [c EXCEPT !.echo = <<i, a>>]

Answered(c, res) == [c EXCEPT !.res = res]

\* A deactivation of bearer e, by the keys and COUNT it came under
Deactivation(e, keys, count) == [ebi |-> e, key |-> keys, count |-> count]

\* External: the MME drops a bearer when it gets the accept of a deactivation that
\* it waits for; gone: the deactivations that were accepted. An accept names only the
\* bearer: an MME that tells accepts apart by the deactivation they answer is assumed.
Dropped(c, gone) ==
    LET over == {d.ebi : d \in gone \cap c.ending}
    IN [c EXCEPT !.live = @ \ over, !.ending = {d \in @ : d.ebi \notin over}]

\* Protect, send with eNB id i and MME id a, and start the wait if there is one.
Emit(u, r, i, a) ==
    /\ call[u] = {}
    /\ r.secured => sec[u].active
    /\ r.prot # "plain" => CanProtect(sec[u]) /\ sec[u].ul < MaxUL
    /\ sec' = [sec EXCEPT ![u] = AfterUplinkEPS(@, r.prot)]
    /\ core' = [core EXCEPT ![u] = Counted(Heard(@, r.carrier, i, a), sec[u].keys, r.prot)]
    /\ r.carrier = "initial" => lastMME < MaxMME
    /\ lastMME' = IF r.carrier = "initial" THEN lastMME + 1 ELSE lastMME
    /\ call' = [call EXCEPT ![u] = IF r.waits = <<>> THEN {} ELSE {[req |-> r, mme |-> a]}]
    /\ answer' = [answer EXCEPT ![u] = {}]
    /\ UNCHANGED <<mme, rand, bearers, frames, track>>

Send(u, r) ==
    /\ \E a \in EffectiveMMEIDs(u, r) : Emit(u, r, ENBUES1APID[u], a)
    /\ UNCHANGED lastENB

\* authentication_response, as the Kasme kept and the RES sent: after a challenge,
\* or with res_override for another RES, or as a raw PDU, which keeps no Kasme
AuthenticationChoices(u) ==
    {<<sec[u].kamf, NoKey>>}
        \cup IF rand[u] = NoKey THEN {} ELSE {<<rand[u], rand[u]>>, <<rand[u], NoKey>>}

SendAuthenticationResponse(u) ==
    /\ AuthenticationResponse \in Used /\ call[u] = {}
    /\ \E k \in AuthenticationChoices(u), a \in EffectiveMMEIDs(u, AuthenticationResponse) :
         /\ sec' = [sec EXCEPT ![u].kamf = k[1]]
         /\ core' = [core EXCEPT ![u] =
                       Answered(Heard(@, "uplink", ENBUES1APID[u], a), k[2])]
         /\ call' = [call EXCEPT ![u] = {[req |-> AuthenticationResponse, mme |-> a]}]
    /\ answer' = [answer EXCEPT ![u] = {}]
    /\ UNCHANGED <<mme, rand, bearers, lastENB, lastMME, frames, track>>

\* tracking_area_update with reestablish: the MME gets a fresh eNB id, the UE
\* keeps its own and waits for the release of the old connection only.
Reestablish(u) ==
    /\ TrackingAreaUpdate \in Used /\ lastENB < MaxENB
    /\ lastENB' = AllocateENBUES1APID
    /\ Emit(u, Secured(Request("initial", "ciphered", <<Release, Err>>)), AllocateENBUES1APID, mme[u])

\* deactivate_eps_bearer_context_accept for a request that was withheld
SendDeactivateAccept(u) ==
    /\ SendESM \in Used /\ call[u] = {} /\ sec[u].active /\ sec[u].ul < MaxUL
    /\ \E x \in answer[u] :
         /\ x.kind = "deactivate" /\ x.read /\ ~x.acted
         /\ core' = [core EXCEPT ![u] =
                       Dropped(Counted(@, sec[u].keys, "ciphered"),
                               {Deactivation(x.arg, sec[u].keys, sec[u].dl)})]
    /\ sec' = [sec EXCEPT ![u] = AfterUplinkEPS(@, "ciphered")]
    /\ answer' = [answer EXCEPT ![u] = {}]
    /\ UNCHANGED <<mme, rand, bearers, call, lastENB, lastMME, frames, track>>

-----------------------------------------------------------------------------
(* Waiting *)

\* Mutant of Matches: an MME id not assigned yet is matched like any other.
MatchesUnassigned(u, w, l) ==
    \/ w.req.match = "any"
    \/ w.req.match = "await" /\ l.enb = NoId /\ l.mme = NoId
    \/ l.enb = ENBUES1APID[u]
    \/ w.req.match \in {"ids", "await"} /\ l.mme = w.mme

\* waitDownlink, waitDownlinkReq, s1apUEMatcher and the waits without a match
Matches(u, w, l) ==
    \/ w.req.match = "any"
    \/ w.req.match = "await" /\ l.enb = NoId /\ l.mme = NoId
    \/ l.enb = ENBUES1APID[u]
    \/ w.req.match \in {"ids", "await"} /\ w.mme # Unassigned /\ l.mme = w.mme

Wanted(u, w) == [types |-> w.req.waits, accept |-> {l \in Downlink : Matches(u, w, l)}]

Unwraps(w, f) ==
    /\ f.label.nas.kind # "none"
    /\ w.req.unwraps = "always" \/ (w.req.unwraps = "dnt" /\ f.type = Dnt)

\* History: the COUNT of the last protected downlink unwrapped, and whether all
\* since the context started came under its keys, in the order they were sent
\* and fewer than Octet apart; replayed: the context started over, from a
\* command read again after uplinks went out under its keys.
Tracked(u, nas) ==
    LET replayed == nas.key = core[u].key /\ core[u].ul > 0 IN
    CASE nas.prot = "plain" -> track[u]
      [] nas.prot = "new" -> [ok |-> ~replayed, at |-> 0, replayed |-> replayed]
      [] OTHER -> [track[u] EXCEPT
                     !.ok = /\ @ /\ nas.key = sec[u].keys
                            /\ nas.count \in track[u].at .. track[u].at + Octet - 1,
                     !.at = nas.count]

\* RAND after an answer decoded as it came, which fails for a protected one
KeptRAND(u, w, nas) ==
    LET decoded == nas.kind # "none" /\ nas.prot = "plain" IN
    CASE decoded /\ nas.kind = "challenge" /\ w.req.keeps # "never" -> nas.arg
      [] decoded /\ nas.kind # "challenge" /\ w.req.keeps = "any" -> NoKey
      [] OTHER -> rand[u]

DLTeid(i, e) == i * 256 + e

\* Mutant of Acts: the S1AP message alone decides, as in the 5G twin.
ActsOnS1AP(w, f, read) ==
    IF f.label.nas.kind = "none" \/ (w.req.acts = "connect" /\ f.type # Setup) THEN "none" ELSE w.req.acts

\* What the handler does once it can read the message; "none" otherwise, and
\* for a bearer message that names no bearer
Acts(w, f, read) ==
    LET nas == f.label.nas
        act == w.req.acts
        meant == \/ act = "attach" /\ nas.kind # "none"
                 \/ act = "update" /\ nas.kind = "guti"
                 \/ /\ act = "connect" /\ f.type = Setup
                    /\ nas.kind = "activate" /\ nas.arg \in EBIs
                 \/ act = "disconnect" /\ nas.kind = "deactivate" /\ nas.arg \in EBIs
    IN IF read /\ meant THEN act ELSE "none"

\* The bearer of the attach listens on the eNB id itself.
AfterActing(u, act, e) ==
    CASE act = "attach" ->
           {b \in bearers[u] : b.ebi # DefaultBearer}
               \cup {[ebi |-> DefaultBearer, teid |-> ENBUES1APID[u]]}
      [] act = "connect" ->
           {b \in bearers[u] : b.ebi # e} \cup {[ebi |-> e, teid |-> DLTeid(ENBUES1APID[u], e)]}
      [] act = "disconnect" -> {b \in bearers[u] : b.ebi # e}
      [] OTHER -> bearers[u]

\* The rest of the handler, given the frame it waited for.  A TRACKING AREA
\* UPDATE COMPLETE or a bearer accept follows by itself.
Handle(u, w, f) ==
    LET nas == f.label.nas
        read == Unwraps(w, f) /\ Readable(sec[u], nas)
        after == IF Unwraps(w, f) THEN AfterDownlinkEPS(sec[u], nas) ELSE sec[u]
        act == Acts(w, f, read)
        prot == IF act \in {"update", "connect", "disconnect"} THEN "ciphered" ELSE "plain"
    IN
    /\ mme' = IF w.req.learns /\ f.label.mme # NoId THEN [mme EXCEPT ![u] = f.label.mme] ELSE mme
    /\ sec' = [sec EXCEPT ![u] = AfterUplinkEPS(after, prot)]
    /\ core' = [core EXCEPT ![u] = Dropped(Counted(@, after.keys, prot),
               IF act = "disconnect" THEN {Deactivation(nas.arg, after.keys, after.dl)} ELSE {})]
    /\ rand' = [rand EXCEPT ![u] = KeptRAND(u, w, nas)]
    /\ bearers' = [bearers EXCEPT ![u] = AfterActing(u, act, nas.arg)]
    /\ track' = IF Unwraps(w, f) THEN [track EXCEPT ![u] = Tracked(u, nas)] ELSE track
    /\ answer' = [answer EXCEPT ![u] =
          {[kind |-> nas.kind, arg |-> nas.arg, read |-> read, acted |-> act # "none",
            match |-> w.req.match, foreign |-> f.label.to # {} /\ u \notin f.label.to,
            mac |-> IF Unwraps(w, f) THEN MACVerified(sec[u], nas) ELSE "absent"]}]
    /\ call' = [call EXCEPT ![u] = {}]
    /\ UNCHANGED <<lastENB, lastMME>>

Fetch(u) ==
    \E w \in call[u] :
      /\ Hits(frames, Wanted(u, w)) # {}
      /\ LET p == FirstHit(frames, Wanted(u, w))
         IN /\ Handle(u, w, FrameAt(frames, Wanted(u, w), p))
            /\ frames' = Without(frames, Wanted(u, w), p)

\* ErrTimeout, which the transport reports only when nothing qualifies
TimeOut(u) ==
    /\ \E w \in call[u] : Hits(frames, Wanted(u, w)) = {}
    /\ call' = [call EXCEPT ![u] = {}]
    /\ UNCHANGED <<sec, mme, rand, bearers, answer, lastENB, frames, core, lastMME, track>>

\* The eNB-level requests (await, raw_s1ap_pdu, reset, path_switch_request) take
\* the next message of a type, whoever it is for, and return it as it is.
AwaitENBMessage(t) ==
    /\ frames[t] # <<>>
    /\ frames' = [frames EXCEPT ![t] = Tail(@)]
    /\ UNCHANGED <<sec, mme, rand, bearers, call, answer, lastENB, core, lastMME, track>>

-----------------------------------------------------------------------------
(* External: the MME *)

Room == Cardinality(UNION {{t} \X DOMAIN frames[t] : t \in MessageTypes}) < MaxQueued

\* The PDU of each message
ProcedureOf ==
    [DownlinkNASTransport |-> <<"initiating_message", "DownlinkNASTransport">>,
     InitialContextSetupRequest |-> <<"initiating_message", "InitialContextSetup">>,
     ERABSetupRequest |-> <<"initiating_message", "ERABSetup">>,
     ERABModifyRequest |-> <<"initiating_message", "ERABModify">>,
     ERABReleaseCommand |-> <<"initiating_message", "ERABRelease">>,
     UEContextReleaseCommand |-> <<"initiating_message", "UEContextRelease">>,
     HandoverCancelAcknowledge |-> <<"successful_outcome", "HandoverCancel">>,
     HandoverCommand |-> <<"successful_outcome", "HandoverPreparation">>,
     HandoverPreparationFailure |-> <<"unsuccessful_outcome", "HandoverPreparation">>,
     MMEStatusTransfer |-> <<"initiating_message", "MMEStatusTransfer">>,
     Paging |-> <<"initiating_message", "Paging">>,
     ErrorIndication |-> <<"initiating_message", "ErrorIndication">>]

NASCarrier(t) ==
    CASE t \in {Ics, Setup} -> {"ERABToBeSetup"}
      [] t = Modify -> {"ERABToBeModified"}
      [] t \in {Dnt, Drop} -> {"NASPDU"}
      [] OTHER -> {}

\* With the ids that are not NoId; a list has an item without a NAS PDU first.
PDU(t, i, a, nas) ==
    LET id(x) == IF x = "ENBUES1APID" THEN i ELSE a
        ids == {x \in setUEIDs : id(x) # NoId}
        value(x) == CASE x \in setUEIDs -> id(x)
                      [] x = "UES1APIDs" -> [y \in ids |-> id(y)]
                      [] x = "NASPDU" -> nas
                      [] OTHER -> <<[nas |-> {}], [nas |-> {nas}]>>
        carried == IF t = Release THEN {"UES1APIDs"} ELSE ids \cup NASCarrier(t)
    IN [kind |-> ProcedureOf[t][1], procedure |-> ProcedureOf[t][2],
        ies |-> [x \in carried |-> value(x)]]

\* The receiver of the association files a PDU as it decodes it.
Filed(pdu, to) ==
    LET d == Decode(pdu)
        nas == IF d.nas = {} THEN NoNAS ELSE CHOOSE n \in d.nas : TRUE
    IN [type |-> d.type, label |-> [to |-> to, enb |-> d.enb, mme |-> d.mme, nas |-> nas]]

MMESends(u, t, i, a, nas) ==
    /\ core[u].enb # 0 /\ t \in MMETypes /\ Room
    /\ frames' = File(frames, Filed(PDU(t, i, a, nas),
                                    IF i = NoId /\ a = NoId THEN {} ELSE {u}))
    /\ UNCHANGED <<sec, mme, rand, bearers, call, answer, lastENB, lastMME, track>>

\* A message under the context in use, with the next DL COUNT
MMEInforms(u, t, kind, arg) ==
    /\ core[u].secured /\ core[u].dl <= MaxCount
    /\ MMESends(u, t, core[u].enb, core[u].mme,
                [kind |-> kind, prot |-> "ciphered", key |-> core[u].key,
                 count |-> core[u].dl, arg |-> arg])

\* AUTHENTICATION REQUEST, plain or, under a current context, protected
MMEChallenges(u) ==
    LET g == core[u].chal + 1 IN
    /\ g <= MaxKeys
    /\ \/ /\ MMESends(u, Dnt, core[u].enb, core[u].mme,
                      [NoNAS EXCEPT !.kind = "challenge", !.arg = g])
          /\ core' = [core EXCEPT ![u].chal = g]
       \/ /\ MMEInforms(u, Dnt, "challenge", g)
          /\ core' = [core EXCEPT ![u].chal = g, ![u].dl = @ + 1]

\* SECURITY MODE COMMAND once RES is right, COUNT 0 under the new keys; or its
\* retransmission, with the next COUNT.
MMECommands(u) ==
    LET again == core[u].key = core[u].chal
        count == IF again THEN core[u].dl ELSE 0
    IN
    /\ core[u].chal # NoKey /\ core[u].res = core[u].chal /\ count <= MaxCount
    /\ ~(again /\ core[u].secured)
    /\ MMESends(u, Dnt, core[u].enb, core[u].mme,
                [NoNAS EXCEPT !.kind = "command", !.prot = "new",
                              !.key = core[u].chal, !.count = count])
    /\ core' = [core EXCEPT ![u].key = core[u].chal, ![u].dl = count + 1,
                            ![u].ul = IF again THEN @ ELSE 0, ![u].secured = FALSE]

MMEAnswers(u, t, kind) ==
    /\ MMEInforms(u, t, kind, 0)
    /\ core' = [core EXCEPT ![u].dl = @ + 1]

\* ACTIVATE DEFAULT EPS BEARER CONTEXT REQUEST, or its retransmission
MMEActivates(u, e) ==
    /\ \A d \in core[u].ending : d.ebi # e
    /\ MMEInforms(u, Setup, "activate", e)
    /\ core' = [core EXCEPT ![u].dl = @ + 1, ![u].live = @ \cup {e}]

\* DEACTIVATE EPS BEARER CONTEXT REQUEST, or its retransmission
MMEDeactivates(u, t, e) ==
    /\ e \in core[u].live
    /\ MMEInforms(u, t, "deactivate", e)
    /\ core' = [core EXCEPT ![u].dl = @ + 1,
                            ![u].ending = @ \cup {Deactivation(e, core[u].key, core[u].dl)}]

\* UE CONTEXT RELEASE COMMAND: by both ids, or by the MME's alone
MMEReleases(u) ==
    /\ \E i \in {core[u].enb, NoId} : MMESends(u, Release, i, core[u].mme, NoNAS)
    /\ core' = [core EXCEPT ![u].enb = 0]

\* The messages of a handover at its source
MMEHandsOver(u) ==
    /\ \E t \in HandoverTypes : MMESends(u, t, core[u].enb, core[u].mme, NoNAS)
    /\ UNCHANGED core

MMEPages(u) ==
    /\ MMESends(u, Page, NoId, NoId, NoNAS)
    /\ UNCHANGED core

\* ERROR INDICATION: echoes the ids of the UE's last uplink, or carries none
MMEErrs(u) ==
    /\ \/ MMESends(u, Err, core[u].echo[1], core[u].echo[2], NoNAS)
       \/ MMESends(u, Err, NoId, NoId, NoNAS)
    /\ UNCHANGED core

-----------------------------------------------------------------------------
UEStep(u) ==
    \/ \E r \in Used \ {AuthenticationResponse} : Send(u, r)
    \/ SendAuthenticationResponse(u) \/ SendDeactivateAccept(u)
    \/ Reestablish(u)
    \/ Fetch(u) \/ TimeOut(u)

MMEStep(u) ==
    \/ MMEChallenges(u) \/ MMECommands(u)
    \/ \E t \in {Dnt, Ics, Modify} : MMEAnswers(u, t, "other")
    \/ MMEAnswers(u, Dnt, "guti")
    \/ \E e \in EBIs : MMEActivates(u, e) \/ \E t \in {Drop, Dnt} : MMEDeactivates(u, t, e)
    \/ MMEReleases(u) \/ MMEHandsOver(u) \/ MMEPages(u) \/ MMEErrs(u)

Next ==
    \/ \E u \in UEs : UEStep(u) \/ MMEStep(u)
    \/ \E t \in MessageTypes : AwaitENBMessage(t)

Spec == Init /\ [][Next]_vars

-----------------------------------------------------------------------------
Answer == [kind : Kinds, arg : Nat, read : BOOLEAN, acted : BOOLEAN,
           match : {"enb", "ids", "await", "any"}, foreign : BOOLEAN,
           mac : {"absent", "true", "false"}]

TypeOK ==
    /\ sec \in [UEs -> Context]
    /\ mme \in [UEs -> Nat] /\ rand \in [UEs -> Nat]
    /\ bearers \in [UEs -> SUBSET [ebi : EBIs \cup {DefaultBearer}, teid : Nat]]
    /\ \A u \in UEs : \A w \in call[u] : call[u] = {w} /\ w.mme \in Nat
    /\ \A u \in UEs : \A x \in answer[u] : answer[u] = {x} /\ x \in Answer
    /\ lastENB \in Nat /\ lastMME \in Nat
    /\ \A t \in MessageTypes : \A i \in DOMAIN frames[t] :
         frames[t][i].type = t /\ frames[t][i].label \in Downlink
    /\ track \in [UEs -> [ok : BOOLEAN, at : Nat, replayed : BOOLEAN]]

\* While a UE's protected downlinks are fetched in the order they were sent, and
\* fewer than an octet's worth apart, its DL COUNT is the MME's and every MAC
\* but that of a SECURITY MODE COMMAND verifies, whichever handlers,
\* timeouts and late answers come between.
InStepDownlinksVerify ==
    \A u \in UEs : track[u].ok =>
        /\ sec[u].dl = track[u].at
        /\ \A x \in answer[u] : x.kind # "command" => x.mac # "false"

\* The UL COUNT is the number of uplinks protected under the MME's newest keys:
\* none is skipped and, since a COUNT is never used twice with one key, none is
\* taken for a replay; unless the command itself is read again later.
UplinksInStep ==
    \A u \in UEs :
        sec[u].keys = core[u].key /\ sec[u].keys # NoKey /\ ~track[u].replayed
            => sec[u].ul = core[u].ul

\* A UE takes up no bearer that the MME has dropped since it set it up, though
\* set-up requests are retransmitted and may be fetched after the deactivation;
\* unless the security context itself was started over by a replayed command.
NoResurrectedBearer ==
    [][\A u \in UEs : \A b \in bearers'[u] \ bearers[u] :
          b.ebi = DefaultBearer \/ track[u].replayed \/ b.ebi \in core[u].live]_vars

\* A wait by AP ids returns no downlink of another UE, whichever of its MME's
\* ids a UE has and has not learnt.
OwnDownlinksOnly ==
    \A u \in UEs : \A x \in answer[u] : x.match # "any" => ~x.foreign

\* No two bearers on the eNB's S1-U address listen on the same DL TEID, though those of
\* default bearers are made otherwise than the rest.  In ENBUEProofs, for any UEs.
TunnelsDistinct ==
    \A u, v \in UEs : \A b \in bearers[u], c \in bearers[v] :
        b.teid = c.teid => u = v /\ b = c
=============================================================================
