-------------------------------- MODULE Framed --------------------------------
(***************************************************************************)
(* The SCTP transport of the N2 (NGAP) and S1 (S1AP) associations:         *)
(* src/internal/transport/framed.go.  One goroutine reads and decodes      *)
(* messages and files them by message type; handlers send and wait from    *)
(* goroutines of their own; each wait starts a watcher goroutine that      *)
(* turns the expiry of the caller's context into a Broadcast, because the  *)
(* receiver broadcasts only on new frames.  Everything meets at one mutex  *)
(* and one condition variable.                                             *)
(*                                                                         *)
(* Steps are the code's, cut wherever something outside the mutex can come *)
(* between: the critical sections of the receiver and of the watcher are   *)
(* one step each; a waiter's is three (search, look at the context, park)  *)
(* since the context can expire in the middle of it.                       *)
(***************************************************************************)
EXTENDS FrameQueues

CONSTANTS
    Calls,      \* invocations, one per goroutine: send first or only wait
    NoCall,     \* "the mutex is free"
    MaxFrames   \* bound: decoded messages read from the association

ASSUME FramedAssumption == NoCall \notin Calls /\ MaxFrames \in Nat

VARIABLES
    frames,     \* framed.frames
    mu,         \* the holder of framed.mu across steps: a waiter, or NoCall
    closed,     \* framed.closed
    conn,       \* the association: "up", "down" (by the peer or by Close)
    rx,         \* runReceiver: "read", "lock" (frame in hand), "exited"
    inHand,     \* the decoded frame the receiver is about to file
    nread,      \* decoded messages read so far
    pc,         \* per call: its place in Send / WaitForMessageMatching
    req,        \* per call: its message types and match predicate
    expired,    \* per call: ctx.Err() # nil
    watcher,    \* per call: its watcher goroutine
    got,        \* per call: the frames it returned
    sent        \* calls whose message was written to the association

vars == <<frames, mu, closed, conn, rx, inHand, nread, pc, req, expired,
          watcher, got, sent>>

callVars == <<pc, req, expired, watcher, got, sent>>
rxVars == <<rx, inHand, nread>>

Init ==
    /\ frames = EmptyQueues
    /\ mu = NoCall
    /\ closed = FALSE /\ conn = "up"
    /\ rx = "read" /\ inHand = {} /\ nread = 0
    /\ pc = [c \in Calls |-> "idle"]
    /\ req \in [Calls -> Requests]
    /\ expired = [c \in Calls |-> FALSE]
    /\ watcher = [c \in Calls |-> "none"]
    /\ got = [c \in Calls |-> {}]
    /\ sent = {}

-----------------------------------------------------------------------------
(* runReceiver.  An empty read and a message that does not decode go back   *)
(* to the read and leave no trace: nread counts the others.                 *)

Read(t, l) ==
    /\ rx = "read" /\ conn = "up" /\ nread < MaxFrames
    /\ nread' = nread + 1
    /\ inHand' = {[id |-> nread + 1, type |-> t, label |-> l]}
    /\ rx' = "lock"
    /\ UNCHANGED <<frames, mu, closed, conn>> /\ UNCHANGED callVars

\* Any read error ends the goroutine; nobody is woken.
ReadError ==
    /\ rx = "read" /\ conn = "down"
    /\ rx' = "exited"
    /\ UNCHANGED <<frames, mu, closed, conn, inHand, nread>> /\ UNCHANGED callVars

\* cond.Broadcast: every parked waiter goes back to compete for the mutex.
Woken == [c \in Calls |-> IF pc[c] = "parked" THEN "lock" ELSE pc[c]]

\* Mutant of Deliver: the frame is filed but nobody is woken.
DeliverSilently ==
    /\ rx = "lock" /\ mu = NoCall
    /\ \E f \in inHand : frames' = File(frames, f)
    /\ rx' = "read" /\ inHand' = {}
    /\ UNCHANGED <<mu, closed, conn, nread>> /\ UNCHANGED callVars

Deliver ==
    /\ rx = "lock" /\ mu = NoCall
    /\ \E f \in inHand : frames' = File(frames, f)
    /\ pc' = Woken
    /\ rx' = "read" /\ inHand' = {}
    /\ UNCHANGED <<mu, closed, conn, nread, req, expired, watcher, got, sent>>

-----------------------------------------------------------------------------
(* Send: the closed flag is read first, the write comes later. *)

SendCheck(c) ==
    /\ pc[c] = "idle"
    /\ pc' = [pc EXCEPT ![c] = IF closed THEN "failed" ELSE "write"]
    /\ UNCHANGED <<frames, mu, closed, conn, req, expired, watcher, got, sent>>
    /\ UNCHANGED rxVars

SendWrite(c) ==
    /\ pc[c] = "write"
    /\ IF conn = "up"
         THEN /\ sent' = sent \cup {c}
              /\ pc' = [pc EXCEPT ![c] = "enter"]
         ELSE /\ pc' = [pc EXCEPT ![c] = "failed"]
              /\ UNCHANGED sent
    /\ UNCHANGED <<frames, mu, closed, conn, req, expired, watcher, got>>
    /\ UNCHANGED rxVars

-----------------------------------------------------------------------------
(* WaitForMessageMatching, entered after a send or on its own *)

\* Starts the watcher; the handlers that only await come straight here.
Enter(c) ==
    /\ pc[c] \in {"idle", "enter"}
    /\ pc' = [pc EXCEPT ![c] = "lock"]
    /\ watcher' = [watcher EXCEPT ![c] = "select"]
    /\ UNCHANGED <<frames, mu, closed, conn, req, expired, got, sent>>
    /\ UNCHANGED rxVars

\* Mutant of Search: the context is looked at before the queues.
SearchContextFirst(c) ==
    /\ pc[c] = "lock" /\ mu = NoCall
    /\ pc' = [pc EXCEPT ![c] = IF expired[c] THEN "timedout" ELSE "check"]
    /\ mu' = IF expired[c] THEN NoCall ELSE c
    /\ UNCHANGED <<frames, closed, conn, req, expired, watcher, got, sent>>
    /\ UNCHANGED rxVars

\* Lock (or re-lock after cond.Wait) and search; a hit returns at once.
Search(c) ==
    /\ pc[c] = "lock" /\ mu = NoCall
    /\ IF Hits(frames, req[c]) # {}
         THEN LET p == FirstHit(frames, req[c]) IN
                /\ got' = [got EXCEPT ![c] = {FrameAt(frames, req[c], p)}]
                /\ frames' = Without(frames, req[c], p)
                /\ pc' = [pc EXCEPT ![c] = "returned"]
                /\ UNCHANGED mu
         ELSE /\ pc' = [pc EXCEPT ![c] = "check"]
              /\ mu' = c
              /\ UNCHANGED <<frames, got>>
    /\ UNCHANGED <<closed, conn, req, expired, watcher, sent>> /\ UNCHANGED rxVars

\* ctx.Err(), with the mutex held
CheckContext(c) ==
    /\ pc[c] = "check"
    /\ IF expired[c]
         THEN /\ pc' = [pc EXCEPT ![c] = "timedout"]
              /\ mu' = NoCall
         ELSE /\ pc' = [pc EXCEPT ![c] = "park"]
              /\ UNCHANGED mu
    /\ UNCHANGED <<frames, closed, conn, req, expired, watcher, got, sent>>
    /\ UNCHANGED rxVars

\* cond.Wait joins the wait list before it releases the mutex.
Park(c) ==
    /\ pc[c] = "park"
    /\ pc' = [pc EXCEPT ![c] = "parked"]
    /\ mu' = NoCall
    /\ UNCHANGED <<frames, closed, conn, req, expired, watcher, got, sent>>
    /\ UNCHANGED rxVars

Returned(c) == pc[c] \in {"returned", "timedout", "failed"}

-----------------------------------------------------------------------------
(* The context of a call and its watcher *)

\* The deadline passes, the HTTP client goes away, or the handler returned.
Expire(c) ==
    /\ ~expired[c]
    /\ expired' = [expired EXCEPT ![c] = TRUE]
    /\ UNCHANGED <<frames, mu, closed, conn, pc, req, watcher, got, sent>>
    /\ UNCHANGED rxVars

WatcherFires(c) ==
    /\ watcher[c] = "select" /\ expired[c]
    /\ watcher' = [watcher EXCEPT ![c] = "lock"]
    /\ UNCHANGED <<frames, mu, closed, conn, pc, req, expired, got, sent>>
    /\ UNCHANGED rxVars

\* Mutant of WatcherBroadcasts: Broadcast without taking the mutex first.
WatcherBroadcastsUnlocked(c) ==
    /\ watcher[c] = "lock"
    /\ pc' = Woken
    /\ watcher' = [watcher EXCEPT ![c] = "exited"]
    /\ UNCHANGED <<frames, mu, closed, conn, req, expired, got, sent>>
    /\ UNCHANGED rxVars

WatcherBroadcasts(c) ==
    /\ watcher[c] = "lock" /\ mu = NoCall
    /\ pc' = Woken
    /\ watcher' = [watcher EXCEPT ![c] = "exited"]
    /\ UNCHANGED <<frames, mu, closed, conn, req, expired, got, sent>>
    /\ UNCHANGED rxVars

\* The deferred close(stop)
WatcherStops(c) ==
    /\ watcher[c] = "select" /\ Returned(c)
    /\ watcher' = [watcher EXCEPT ![c] = "exited"]
    /\ UNCHANGED <<frames, mu, closed, conn, pc, req, expired, got, sent>>
    /\ UNCHANGED rxVars

-----------------------------------------------------------------------------
(* Close, and the peer's end of the association *)

\* closed.Swap(true); a second Close finds it set and returns.
CloseFlag ==
    /\ ~closed
    /\ closed' = TRUE
    /\ UNCHANGED <<frames, mu, conn>> /\ UNCHANGED rxVars /\ UNCHANGED callVars

CloseConn ==
    /\ closed /\ conn = "up"
    /\ conn' = "down"
    /\ UNCHANGED <<frames, mu, closed>> /\ UNCHANGED rxVars /\ UNCHANGED callVars

PeerDown ==
    /\ conn = "up"
    /\ conn' = "down"
    /\ UNCHANGED <<frames, mu, closed>> /\ UNCHANGED rxVars /\ UNCHANGED callVars
-----------------------------------------------------------------------------
\* Every goroutine has returned and the server sits idle.
AllQuiet ==
    /\ rx = "exited" /\ closed
    /\ \A c \in Calls : Returned(c) /\ expired[c] /\ watcher[c] \in {"none", "exited"}
    /\ UNCHANGED vars

Waiter(c) == Enter(c) \/ Search(c) \/ CheckContext(c) \/ Park(c)

Sender(c) == SendCheck(c) \/ SendWrite(c)

Watcher(c) == Expire(c) \/ WatcherFires(c) \/ WatcherBroadcasts(c) \/ WatcherStops(c)

Receiver == (\E t \in Types, l \in Labels : Read(t, l)) \/ ReadError \/ Deliver

Next ==
    \/ Receiver
    \/ \E c \in Calls : Sender(c) \/ Waiter(c) \/ Watcher(c)
    \/ CloseFlag \/ CloseConn \/ PeerDown
    \/ AllQuiet

Spec == Init /\ [][Next]_vars

(***************************************************************************)
(* Runnable goroutines run and every context ends: waitTimeout puts a      *)
(* deadline on each one.  Nothing is assumed of the peer, of Close, or of  *)
(* a caller that has not called yet.                                       *)
(***************************************************************************)
Fairness ==
    /\ WF_vars(Deliver)
    /\ \A c \in Calls :
         /\ WF_vars(SendWrite(c))
         /\ WF_vars(pc[c] = "enter" /\ Enter(c))
         /\ WF_vars(Search(c)) /\ WF_vars(CheckContext(c)) /\ WF_vars(Park(c))
         /\ WF_vars(Expire(c))
         /\ WF_vars(WatcherFires(c)) /\ WF_vars(WatcherBroadcasts(c))
         /\ WF_vars(WatcherStops(c))

FairSpec == Spec /\ Fairness

-----------------------------------------------------------------------------
TypeOK ==
    /\ frames \in [Types -> Seq(Frame)]
    /\ \A t \in Types : \A i \in DOMAIN frames[t] : frames[t][i].type = t
    /\ mu \in Calls \cup {NoCall}
    /\ closed \in BOOLEAN
    /\ conn \in {"up", "down"}
    /\ rx \in {"read", "lock", "exited"}
    /\ inHand \in SUBSET Frame
    /\ nread \in Nat
    /\ pc \in [Calls -> {"idle", "write", "enter", "lock", "check", "park",
                         "parked", "returned", "timedout", "failed"}]
    /\ req \in [Calls -> Requests]
    /\ expired \in [Calls -> BOOLEAN]
    /\ watcher \in [Calls -> {"none", "select", "lock", "exited"}]
    /\ got \in [Calls -> SUBSET Frame]
    /\ sent \in SUBSET Calls

\* Every decoded message is in exactly one place: in the receiver's hand, once
\* in one queue, or returned by one call (concurrent waiters share the queues).
ExactlyOnce ==
    /\ {f.id : f \in inHand \cup Queued(frames) \cup UNION {got[c] : c \in Calls}}
         = 1..nread
    /\ inHand \cap Queued(frames) = {}
    /\ \A c \in Calls :
         /\ got[c] \cap (inHand \cup Queued(frames)) = {}
         /\ \A d \in Calls \ {c} : got[c] \cap got[d] = {}
    /\ \A t \in Types : \A i, j \in DOMAIN frames[t] :
         i # j => frames[t][i] # frames[t][j]

\* A call never returns a frame and leaves an older one of that type, which it
\* would have accepted, behind in the queue.
NoOvertaking ==
    \A c \in Calls : \A g \in got[c] : \A f \in Queued(frames) :
        f.type = g.type /\ f.label \in req[c].accept => g.id < f.id

\* No waiter sleeps in cond.Wait while a frame it accepts is queued: the
\* receiver's append and Broadcast are one critical section.
NoMissedFrame ==
    \A c \in Calls : pc[c] = "parked" => Hits(frames, req[c]) = {}

\* No waiter sleeps past its deadline with nobody left to wake it: its watcher
\* broadcasts under the mutex, so not between ctx.Err() and cond.Wait.
NoMissedExpiry ==
    \A c \in Calls : pc[c] = "parked" /\ expired[c] => watcher[c] \in {"select", "lock"}

\* A call reports ErrTimeout only when no queued frame qualifies at that very
\* step, though its deadline may have passed long before it got the mutex.
TimeoutOnlyWhenNothingQualifies ==
    [][\A c \in Calls : pc[c] # "timedout" /\ pc'[c] = "timedout"
                            => Hits(frames, req[c]) = {}]_vars

\* Every call that entered returns and its watcher ends with it, even if the
\* association is gone, the receiver dead, and nobody ever broadcasts a frame.
EveryGoroutineEnds ==
    \A c \in Calls :
        pc[c] # "idle" ~> [](Returned(c) /\ watcher[c] \in {"none", "exited"})

-----------------------------------------------------------------------------
(* The transport implements the mailbox. *)

StatusOf(c) ==
    CASE pc[c] \in {"idle", "write", "enter"} -> "idle"
      [] pc[c] \in {"lock", "check", "park", "parked"} -> "waiting"
      [] OTHER -> pc[c]

MB == INSTANCE Mailbox WITH
        arrived <- IF rx = "lock" THEN nread - 1 ELSE nread,
        status <- [c \in Calls |-> StatusOf(c)]

\* Lock, condition variable, watchers and partial steps are invisible: what the
\* handlers see is one atomic mailbox, and each waiting call is answered.
ImplementsMailbox == MB!FairSpec
=============================================================================
