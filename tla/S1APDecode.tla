----------------------------- MODULE S1APDecode -----------------------------
(***************************************************************************)
(* What the receiver of an S1-MME association makes of a PDU before it     *)
(* files it: src/internal/s1ap/decode.go.  Unmarshal and the Parse         *)
(* functions are external: a PDU is its kind, its procedure and what was   *)
(* parsed, a function from field names; one that does not parse is         *)
(* dropped.  As in NGAPDecode, type, ids and NAS PDU matter to the server, *)
(* and the rest is only told to the client.                                *)
(***************************************************************************)
EXTENDS Integers, Sequences

NoId == -1          \* an AP id that is nil

\* procedureName: for what the three tables below do not rename; of what it
\* leaves out it makes ProcedureCode(n).
Procedures ==
    {"S1Setup", "ErrorIndication", "Reset", "InitialContextSetup", "DownlinkNASTransport",
     "UEContextRelease", "UEContextReleaseRequest", "Paging", "InitialUEMessage",
     "UplinkNASTransport", "PathSwitchRequest", "ERABSetup", "ERABRelease",
     "HandoverPreparation", "HandoverResourceAllocation", "HandoverNotify",
     "HandoverCancel", "ENBStatusTransfer", "MMEStatusTransfer"}

procedureName(p) == IF p \in Procedures THEN p ELSE "ProcedureCode"

\* decodeInitiatingMessage
InitiatingName ==
    [DownlinkNASTransport |-> "DownlinkNASTransport",
     InitialContextSetup |-> "InitialContextSetupRequest", ERABSetup |-> "ERABSetupRequest",
     ERABRelease |-> "ERABReleaseCommand", ERABModify |-> "ERABModifyRequest",
     UEContextRelease |-> "UEContextReleaseCommand", ErrorIndication |-> "ErrorIndication",
     Paging |-> "Paging", HandoverResourceAllocation |-> "HandoverRequest",
     MMEStatusTransfer |-> "MMEStatusTransfer"]

\* decodeSuccessfulOutcome
SuccessfulName ==
    [S1Setup |-> "S1SetupResponse", PathSwitchRequest |-> "PathSwitchRequestAcknowledge",
     Reset |-> "ResetAcknowledge", HandoverPreparation |-> "HandoverCommand",
     HandoverCancel |-> "HandoverCancelAcknowledge"]

\* decodeUnsuccessfulOutcome
UnsuccessfulName ==
    [S1Setup |-> "S1SetupFailure", PathSwitchRequest |-> "PathSwitchRequestFailure",
     HandoverPreparation |-> "HandoverPreparationFailure"]

MessageType(pdu) ==
    LET names == CASE pdu.kind = "initiating_message" -> InitiatingName
                   [] pdu.kind = "successful_outcome" -> SuccessfulName
                   [] pdu.kind = "unsuccessful_outcome" -> UnsuccessfulName
    IN IF pdu.procedure \in DOMAIN names THEN names[pdu.procedure] ELSE procedureName(pdu.procedure)

-----------------------------------------------------------------------------
(* What each decoder takes over                                             *)

setUEIDs == {"MMEUES1APID", "ENBUES1APID"}

decodeDownlinkNASTransport == setUEIDs \cup {"NASPDU"}
decodeInitialContextSetupRequest ==
    setUEIDs \cup {"UEAggregateMaximumBitRate", "ERABToBeSetup", "UERadioCapability"}
decodeERABSetupRequest == setUEIDs \cup {"ERABToBeSetup"}
decodeERABModifyRequest == setUEIDs \cup {"ERABToBeModified"}
decodeERABReleaseCommand == setUEIDs \cup {"ERABToBeReleased", "NASPDU"}
decodeUEContextReleaseCommand == {"UES1APIDs", "Cause"}
decodeErrorIndication == setUEIDs \cup {"Cause", "CriticalityDiagnostics"}
decodePaging == {"STMSI", "UEIdentityIndexValue", "CNDomain"}
decodeMMEStatusTransfer == setUEIDs \cup {"Container"}
\* The bearers of a HANDOVER REQUEST carry no NAS PDU that is read.
decodeHandoverRequest ==
    {"MMEUES1APID", "ERABToBeSetupHO", "SecurityContext", "UEAMBR",
     "UESecurityCapabilities", "SourceToTarget"}
decodeHandoverCommand == setUEIDs \cup {"ERABToRelease"}
decodeHandoverPreparationFailure == setUEIDs \cup {"Cause"}
decodeHandoverCancelAcknowledge == setUEIDs
decodePathSwitchRequestAcknowledge == setUEIDs \cup {"SecurityContext", "UESecurityCapabilities"}
decodePathSwitchRequestFailure == setUEIDs \cup {"Cause"}
decodeResetAcknowledge == {"ConnectionList"}
decodeS1SetupResponse == {"MMEName", "RelativeMMECapacity", "ServedGUMMEIs"}
decodeS1SetupFailure == {"Cause", "TimeToWait", "CriticalityDiagnostics"}

Decoders ==
    [DownlinkNASTransport |-> decodeDownlinkNASTransport,
     InitialContextSetupRequest |-> decodeInitialContextSetupRequest,
     ERABSetupRequest |-> decodeERABSetupRequest, ERABReleaseCommand |-> decodeERABReleaseCommand,
     ERABModifyRequest |-> decodeERABModifyRequest,
     UEContextReleaseCommand |-> decodeUEContextReleaseCommand,
     ErrorIndication |-> decodeErrorIndication, Paging |-> decodePaging,
     HandoverRequest |-> decodeHandoverRequest, MMEStatusTransfer |-> decodeMMEStatusTransfer,
     S1SetupResponse |-> decodeS1SetupResponse,
     PathSwitchRequestAcknowledge |-> decodePathSwitchRequestAcknowledge,
     ResetAcknowledge |-> decodeResetAcknowledge, HandoverCommand |-> decodeHandoverCommand,
     HandoverCancelAcknowledge |-> decodeHandoverCancelAcknowledge,
     S1SetupFailure |-> decodeS1SetupFailure,
     PathSwitchRequestFailure |-> decodePathSwitchRequestFailure,
     HandoverPreparationFailure |-> decodeHandoverPreparationFailure]

Seen(pdu) ==
    LET type == MessageType(pdu)
    IN IF type \in DOMAIN Decoders THEN DOMAIN pdu.ies \cap Decoders[type] ELSE {}

\* Mutant of FromChoice: the ids are read from a pair only.
FromPair(ids, id) == IF DOMAIN ids = setUEIDs THEN ids[id] ELSE NoId

\* UES1APIDs is a pair of ids, or the MME's alone.
FromChoice(ids, id) == IF id \in DOMAIN ids THEN ids[id] ELSE NoId

IdOf(pdu, id) ==
    CASE id \in Seen(pdu) -> pdu.ies[id]
      [] id \notin Seen(pdu) /\ "UES1APIDs" \in Seen(pdu) -> FromChoice(pdu.ies["UES1APIDs"], id)
      [] OTHER -> NoId

\* The lists whose items carry a NAS PDU, {} or a set of one; the first is taken.
ItemLists == {"ERABToBeSetup", "ERABToBeModified"}

ItemNAS(pdu) ==
    UNION {LET with == {i \in DOMAIN pdu.ies[l] : pdu.ies[l][i].nas # {}}
           IN UNION {pdu.ies[l][i].nas : i \in {i \in with : \A j \in with : i <= j}} :
             l \in ItemLists \cap Seen(pdu)}

NASOf(pdu) == IF "NASPDU" \in Seen(pdu) THEN {pdu.ies["NASPDU"]} ELSE ItemNAS(pdu)

Decode(pdu) ==
    [type |-> MessageType(pdu), enb |-> IdOf(pdu, "ENBUES1APID"),
     mme |-> IdOf(pdu, "MMEUES1APID"), nas |-> NASOf(pdu)]
=============================================================================
