------------------------------- MODULE Mailbox -------------------------------
(***************************************************************************)
(* What a transport of 3gpp-server promises to the HTTP handlers, with no  *)
(* goroutine, lock or condition variable in sight: decoded frames are      *)
(* filed by key in arrival order; a call that waits for some keys, in an   *)
(* order of preference and under a match predicate, atomically takes the   *)
(* first frame that qualifies, and gives up only when none does.           *)
(* Framed, the SCTP transport, implements this module.                     *)
(***************************************************************************)
EXTENDS FrameQueues

CONSTANT Calls      \* invocations of Send / WaitForMessageMatching, each used once

VARIABLES
    arrived,    \* number of decoded messages filed so far
    frames,     \* the queues
    status,     \* per call: "idle", "waiting", "returned", "timedout", "failed"
    req,        \* per call: what it waits for
    got         \* per call: the frames it returned (at most one)

vars == <<arrived, frames, status, req, got>>

Init ==
    /\ arrived = 0
    /\ frames = EmptyQueues
    /\ status = [c \in Calls |-> "idle"]
    /\ req \in [Calls -> Requests]
    /\ got = [c \in Calls |-> {}]

\* A message is read, decoded and filed; one that does not decode leaves no trace.
Arrive(t, l) ==
    /\ arrived' = arrived + 1
    /\ frames' = File(frames, [id |-> arrived + 1, type |-> t, label |-> l])
    /\ UNCHANGED <<status, req, got>>

Submit(c) ==
    /\ status[c] = "idle"
    /\ status' = [status EXCEPT ![c] = "waiting"]
    /\ UNCHANGED <<arrived, frames, req, got>>

\* Nothing was sent, so nothing is waited for.
Reject(c) ==
    /\ status[c] = "idle"
    /\ status' = [status EXCEPT ![c] = "failed"]
    /\ UNCHANGED <<arrived, frames, req, got>>

Take(c) ==
    /\ status[c] = "waiting"
    /\ Hits(frames, req[c]) # {}
    /\ LET p == FirstHit(frames, req[c]) IN
         /\ got' = [got EXCEPT ![c] = {FrameAt(frames, req[c], p)}]
         /\ frames' = Without(frames, req[c], p)
    /\ status' = [status EXCEPT ![c] = "returned"]
    /\ UNCHANGED <<arrived, req>>

GiveUp(c) ==
    /\ status[c] = "waiting"
    /\ Hits(frames, req[c]) = {}
    /\ status' = [status EXCEPT ![c] = "timedout"]
    /\ UNCHANGED <<arrived, frames, req, got>>

Next ==
    \/ \E t \in Types, l \in Labels : Arrive(t, l)
    \/ \E c \in Calls : Submit(c) \/ Reject(c) \/ Take(c) \/ GiveUp(c)

Spec == Init /\ [][Next]_vars

\* Every call that waits is answered, one way or the other.
FairSpec == Spec /\ \A c \in Calls : WF_vars(Take(c) \/ GiveUp(c))
=============================================================================
