------------------------------- MODULE MCENBUE -------------------------------
(* Small instances of ENBUE for TLC. *)
EXTENDS ENBUE, TLC

\* The eNB's first UEs, in some order
FirstIds ==
    CHOOSE f \in [UEs -> 1..Cardinality(UEs)] : \A u, v \in UEs : f[u] = f[v] => u = v

\* The attach, security mode and bearer procedures
NASRequests ==
    {AttachRequest, AuthenticationResponse, SecurityModeComplete, PdnConnectivity,
     PdnDisconnect, WithholdAccept(PdnDisconnect), SendESM, OnExistingConnection(TrackingAreaUpdate)}

NASTypes == {Dnt, Ics, Setup, Drop}

\* What matters to AP ids: waits of each kind, ids learned and not
IdRequests ==
    {AttachRequest, AuthenticationResponse, TrackingAreaUpdate, Await(Release)}

IdTypes == {Dnt, Release, CancelAck, Page, Err}

\* track is written and never read, and of an answer only whose it was matters.
WhoseAnswers ==
    <<sec, mme, rand, bearers, call, lastENB, frames, core, lastMME,
      [u \in UEs |-> {<<x.match = "any", x.foreign>> : x \in answer[u]}]>>
=============================================================================
