------------------------------- MODULE MCGNBUE -------------------------------
(* Small instances of GNBUE for TLC. *)
EXTENDS GNBUE, TLC

\* The registration, security mode and session procedures
NASRequests ==
    {RegistrationRequest, SecurityModeComplete, RegistrationComplete,
     Await(Dnt), InjectNAS} \cup {PDUSessionEstablishment(id) : id \in Sessions}

NASTypes == {Dnt, Ics, Setup}

\* What matters to AP ids: waits of each kind, ids learned and not
IdRequests ==
    {RegistrationRequest, UEContextReleaseRequest, HandoverCancel}

IdTypes == {Dnt, Release, CancelAck, Page, Err}

\* Of an answer, which no step reads, all that the properties look at
Verdicts ==
    <<sec, ran, amf, rand, sessions, call, lastRan, frames, core, lastAmf, track,
      [u \in UEs |-> {<<x.kind = "command", x.agrees, x.mac>> : x \in answer[u]}]>>

Symmetric == Permutations(UEs)
=============================================================================
