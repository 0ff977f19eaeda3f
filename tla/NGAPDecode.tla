----------------------------- MODULE NGAPDecode -----------------------------
(***************************************************************************)
(* What the receiver of an N2 association makes of a PDU before it files   *)
(* it: src/internal/ngap/decode.go.  The APER decoder is external: a PDU   *)
(* is its kind, its procedure and its IEs, a function from their names.    *)
(* The message type is what waits ask for, the ids are whose message it    *)
(* is, and the NAS PDU is what the UE unwraps; other IEs are only told to  *)
(* the client, here as names.                                              *)
(***************************************************************************)
EXTENDS Integers, Sequences

NoId == -1          \* an AP id that is nil

\* initiatingMessageName, and ProcedureCode(n) for what has no name
InitiatingName ==
    [DownlinkNASTransport |-> "DownlinkNASTransport",
     InitialContextSetup |-> "InitialContextSetupRequest",
     PDUSessionResourceSetup |-> "PDUSessionResourceSetupRequest",
     PDUSessionResourceRelease |-> "PDUSessionResourceReleaseCommand",
     PDUSessionResourceModify |-> "PDUSessionResourceModifyRequest",
     HandoverResourceAllocation |-> "HandoverRequest",
     UEContextRelease |-> "UEContextReleaseCommand", Paging |-> "Paging",
     DownlinkRANStatusTransfer |-> "DownlinkRANStatusTransfer",
     ErrorIndication |-> "ErrorIndication", NGSetup |-> "NGSetupRequest",
     NGReset |-> "NGReset", InitialUEMessage |-> "InitialUEMessage",
     UplinkNASTransport |-> "UplinkNASTransport"]

successfulOutcomeName ==
    [NGSetup |-> "NGSetupResponse", NGReset |-> "NGResetAcknowledge",
     HandoverPreparation |-> "HandoverCommand", HandoverCancel |-> "HandoverCancelAcknowledge",
     InitialContextSetup |-> "InitialContextSetupResponse",
     PDUSessionResourceSetup |-> "PDUSessionResourceSetupResponse",
     UEContextRelease |-> "UEContextReleaseComplete",
     PathSwitchRequest |-> "PathSwitchRequestAcknowledge"]

unsuccessfulOutcomeName ==
    [NGSetup |-> "NGSetupFailure", HandoverPreparation |-> "HandoverPreparationFailure",
     PathSwitchRequest |-> "PathSwitchRequestFailure",
     InitialContextSetup |-> "InitialContextSetupFailure"]

NameOf(names, procedure) ==
    IF procedure \in DOMAIN names THEN names[procedure] ELSE "ProcedureCode"

MessageType(pdu) ==
    CASE pdu.kind = "initiating_message" -> NameOf(InitiatingName, pdu.procedure)
      [] pdu.kind = "successful_outcome" -> NameOf(successfulOutcomeName, pdu.procedure)
      [] pdu.kind = "unsuccessful_outcome" -> NameOf(unsuccessfulOutcomeName, pdu.procedure)

-----------------------------------------------------------------------------
(* The IEs each decoder reads; the others are kept as UnknownIEs.           *)

Ids == {"AMFUENGAPID", "RANUENGAPID"}

decodeDownlinkNASTransport ==
    Ids \cup {"NASPDU", "OldAMF", "RANPagingPriority", "MobilityRestrictionList",
              "IndexToRFSP", "UEAggregateMaximumBitRate", "AllowedNSSAI"}
decodeInitialContextSetupRequest ==
    Ids \cup {"NASPDU", "UEAggregateMaximumBitRate", "AllowedNSSAI", "UERadioCapability",
              "SetupListCxtReq"}
decodePDUSessionResourceSetupRequest ==
    Ids \cup {"NASPDU", "UEAggregateMaximumBitRate", "SetupListSUReq"}
decodePDUSessionResourceModifyRequest == Ids \cup {"ModifyListModReq"}
decodePDUSessionResourceReleaseCommand == Ids \cup {"NASPDU"}
decodeUEContextReleaseCommand == {"UENGAPIDs", "Cause"}
decodeErrorIndication == Ids \cup {"Cause", "CriticalityDiagnostics"}
decodePaging == {"UEPagingIdentity"}
decodeDownlinkRANStatusTransfer == Ids \cup {"RANStatusTransferTransparentContainer"}
decodeHandoverRequest ==
    {"AMFUENGAPID", "SetupListHOReq", "UEAggregateMaximumBitRate", "SecurityContext",
     "UESecurityCapabilities", "SourceToTargetTransparentContainer"}
decodeHandoverCommand == Ids \cup {"HandoverList", "ToReleaseListHOCmd"}
decodeHandoverCancelAcknowledge == Ids
decodeHandoverPreparationFailure == Ids \cup {"Cause"}
decodePathSwitchRequestAcknowledge ==
    Ids \cup {"UESecurityCapabilities", "SwitchedList", "ReleasedListPSAck",
              "SecurityContext", "AllowedNSSAI"}
decodePathSwitchRequestFailure == Ids \cup {"ReleasedListPSFail"}
decodeNGResetAcknowledge == {"UEAssociatedLogicalNGConnectionList"}
decodeNGSetupResponse ==
    {"AMFName", "ServedGUAMIList", "RelativeAMFCapacity", "PLMNSupportList",
     "CriticalityDiagnostics", "UERetentionInformation"}
decodeNGSetupFailure == {"Cause", "TimeToWait", "CriticalityDiagnostics"}

\* decodeInitiatingMessage, decodeSuccessfulOutcome, decodeUnsuccessfulOutcome
Decoders ==
    [DownlinkNASTransport |-> decodeDownlinkNASTransport,
     InitialContextSetupRequest |-> decodeInitialContextSetupRequest,
     PDUSessionResourceSetupRequest |-> decodePDUSessionResourceSetupRequest,
     UEContextReleaseCommand |-> decodeUEContextReleaseCommand,
     PDUSessionResourceReleaseCommand |-> decodePDUSessionResourceReleaseCommand,
     PDUSessionResourceModifyRequest |-> decodePDUSessionResourceModifyRequest,
     HandoverRequest |-> decodeHandoverRequest, ErrorIndication |-> decodeErrorIndication,
     Paging |-> decodePaging, DownlinkRANStatusTransfer |-> decodeDownlinkRANStatusTransfer,
     NGSetupResponse |-> decodeNGSetupResponse, NGResetAcknowledge |-> decodeNGResetAcknowledge,
     HandoverCommand |-> decodeHandoverCommand,
     HandoverCancelAcknowledge |-> decodeHandoverCancelAcknowledge,
     PathSwitchRequestAcknowledge |-> decodePathSwitchRequestAcknowledge,
     NGSetupFailure |-> decodeNGSetupFailure,
     HandoverPreparationFailure |-> decodeHandoverPreparationFailure,
     PathSwitchRequestFailure |-> decodePathSwitchRequestFailure]

Seen(pdu) ==
    LET type == MessageType(pdu)
    IN IF type \in DOMAIN Decoders THEN DOMAIN pdu.ies \cap Decoders[type] ELSE {}

\* Mutant of FromChoice: an AMF id without a RAN id is passed over.
FromPair(ids, id) == IF DOMAIN ids = Ids THEN ids[id] ELSE NoId

\* UENGAPIDs is a pair of ids, or the AMF id alone.
FromChoice(ids, id) == IF id \in DOMAIN ids THEN ids[id] ELSE NoId

IdOf(pdu, id) ==
    CASE id \in Seen(pdu) -> pdu.ies[id]
      [] id \notin Seen(pdu) /\ "UENGAPIDs" \in Seen(pdu) -> FromChoice(pdu.ies["UENGAPIDs"], id)
      [] OTHER -> NoId

\* The lists whose items carry a NAS PDU, {} or a set of one; the first is taken.
ItemLists == {"SetupListSUReq", "ModifyListModReq"}

ItemNAS(pdu) ==
    UNION {LET with == {i \in DOMAIN pdu.ies[l] : pdu.ies[l][i].nas # {}}
           IN UNION {pdu.ies[l][i].nas : i \in {i \in with : \A j \in with : i <= j}} :
             l \in ItemLists \cap Seen(pdu)}

\* A message's own NAS PDU comes before its list.
NASOf(pdu) == IF "NASPDU" \in Seen(pdu) THEN {pdu.ies["NASPDU"]} ELSE ItemNAS(pdu)

Decode(pdu) ==
    [type |-> MessageType(pdu), ran |-> IdOf(pdu, "RANUENGAPID"),
     amf |-> IdOf(pdu, "AMFUENGAPID"), nas |-> NASOf(pdu)]
=============================================================================
