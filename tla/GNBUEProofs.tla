----------------------------- MODULE GNBUEProofs -----------------------------
(***************************************************************************)
(* TLAPS proofs about GNBUE, for any number of UEs, requests and messages. *)
(***************************************************************************)
EXTENDS GNBUE, NASContextProofs, FiniteSetTheorems, SequenceTheorems, WellFoundedInduction

(***************************************************************************)
(* Downlink TEIDs                                                          *)
(***************************************************************************)

\* What the proofs use of the constants
LEMMA Constants ==
    /\ IsFiniteSet(UEs) /\ \A id \in Sessions : id \in 1..255
    /\ Used \subseteq Requests
<1>1. IsFiniteSet(UEs) /\ Sessions \subseteq 1..255 /\ Used \subseteq Requests
  BY GNBUEAssumption, SMT
<1> QED BY <1>1

\* A TEID determines the RAN id and the session id it was made from.
LEMMA TeidInjective ==
    \A i, j \in Nat : \A a, b \in Sessions : DLTeid(i, a) = DLTeid(j, b) => i = j /\ a = b
<1>1. \A i, j \in Nat : \A a, b \in 1..255 : DLTeid(i, a) = DLTeid(j, b) => i = j /\ a = b
  BY DEF DLTeid
<1>2. \A id \in Sessions : id \in 1..255
  BY Constants
<1> QED BY <1>1, <1>2

\* No two UEs have the same RAN id, and the counter is ahead of them all.
RanInv ==
    /\ lastRan \in Nat
    /\ ran \in [UEs -> 1..lastRan]
    /\ \A u, v \in UEs : u # v => ran[u] # ran[v]

\* A session's TEID is made of its id and of a RAN id handed out before.
TeidInv ==
    /\ sessions \in [UEs -> SUBSET [id : Sessions, teid : Nat]]
    /\ \A u \in UEs : \A s \in sessions[u] : \E i \in 1..lastRan : s.teid = DLTeid(i, s.id)

\* A UE keeps one session per id; a RAN id that one UE's session was made from
\* is not another UE's, now or in a session.
ApartInv ==
    /\ \A u \in UEs : \A s, t \in sessions[u] : s.id = t.id => s = t
    /\ \A u, v \in UEs : u # v =>
         \A s \in sessions[u] :
            /\ \A t \in sessions[v] : s.teid # t.teid
            /\ \A id \in Sessions : s.teid # DLTeid(ran[v], id)

TunnelInv == RanInv /\ TeidInv /\ ApartInv

\* The id of a stored session is a session id.
LEMMA SessionIds ==
    ASSUME TunnelInv, NEW u \in UEs, NEW s \in sessions[u]
    PROVE  s.id \in Sessions
<1>1. sessions[u] \subseteq [id : Sessions, teid : Nat]
  BY DEF TunnelInv, TeidInv
<1>2. s \in [id : Sessions, teid : Nat]
  BY <1>1
<1> QED BY <1>2

\* A RAN id that is handed out now is in no TEID yet.
LEMMA FreshTeid ==
    ASSUME TunnelInv, NEW u \in UEs, NEW s \in sessions[u], NEW id \in Sessions
    PROVE  s.teid # DLTeid(lastRan + 1, id)
<1>1. PICK i \in 1..lastRan : s.teid = DLTeid(i, s.id)
  BY DEF TunnelInv, TeidInv
<1>2. i \in Nat /\ lastRan + 1 \in Nat /\ i # lastRan + 1
  BY DEF TunnelInv, RanInv
<1>3. s.id \in Sessions
  BY SessionIds
<1> SUFFICES ASSUME s.teid = DLTeid(lastRan + 1, id) PROVE FALSE
  OBVIOUS
<1>4. DLTeid(i, s.id) = DLTeid(lastRan + 1, id)
  BY <1>1
<1> QED BY <1>2, <1>3, <1>4, TeidInjective

\* UEs get distinct RAN ids when they are created, and no sessions.
LEMMA TunnelInit == Init => TunnelInv
<1> SUFFICES ASSUME Init PROVE TunnelInv
  OBVIOUS
<1>1. lastRan \in Nat
  BY Constants, FS_CardinalityType DEF Init
<1>2. RanInv
  BY <1>1 DEF Init, RanInv
<1>3. \A u \in UEs : sessions[u] = {}
  BY DEF Init
<1>4. TeidInv /\ ApartInv
  BY <1>3 DEF Init, TeidInv, ApartInv
<1> QED BY <1>2, <1>4 DEF TunnelInv

\* A step that leaves RAN ids and sessions alone, but for the counter.
LEMMA TunnelFrame ==
    ASSUME TunnelInv, ran' = ran, sessions' = sessions, lastRan' \in {lastRan, lastRan + 1}
    PROVE  TunnelInv'
<1>1. RanInv'
  BY DEF TunnelInv, RanInv
<1>2. 1..lastRan \subseteq 1..lastRan'
  BY DEF TunnelInv, RanInv
<1>3. TeidInv'
  BY <1>2 DEF TunnelInv, TeidInv, DLTeid
<1>4. ApartInv'
  BY DEF TunnelInv, ApartInv, DLTeid
<1> QED BY <1>1, <1>3, <1>4 DEF TunnelInv

\* A UE moves to a fresh RAN id and keeps the sessions made from the old one.
LEMMA TunnelService ==
    ASSUME TunnelInv, NEW u \in UEs, NEW r, SendServiceRequest(u, r)
    PROVE  TunnelInv'
<1>1. /\ lastRan' = lastRan + 1 /\ sessions' = sessions
      /\ ran' = [ran EXCEPT ![u] = lastRan + 1]
  BY DEF SendServiceRequest, Emit, AllocateRANUENGAPID
<1>2. RanInv'
  BY <1>1 DEF TunnelInv, RanInv
<1>3. 1..lastRan \subseteq 1..lastRan'
  BY <1>1 DEF TunnelInv, RanInv
<1>4. TeidInv'
  BY <1>1, <1>3 DEF TunnelInv, TeidInv, DLTeid
<1>5. ASSUME NEW v \in UEs, NEW w \in UEs, v # w, NEW s \in sessions[v], NEW id \in Sessions
      PROVE  s.teid # DLTeid(ran'[w], id)
  <2>1. CASE w = u
    BY <2>1, <1>1, FreshTeid DEF TunnelInv, RanInv
  <2>2. CASE w # u
    BY <2>2, <1>1, <1>5 DEF TunnelInv, RanInv, ApartInv
  <2> QED BY <2>1, <2>2
<1>6. ApartInv'
  BY <1>1, <1>5 DEF TunnelInv, ApartInv, DLTeid
<1> QED BY <1>2, <1>4, <1>6 DEF TunnelInv

\* captureTunnel replaces the session of that id by one under the UE's RAN id.
LEMMA TunnelCapture ==
    ASSUME TunnelInv, NEW u \in UEs, NEW id \in Sessions,
           sessions' = CaptureTunnel(u, id), ran' = ran, lastRan' = lastRan
    PROVE  TunnelInv'
<1> DEFINE new == [id |-> id, teid |-> DLTeid(ran[u], id)]
<1>1. /\ sessions'[u] = {s \in sessions[u] : s.id # id} \cup {new}
      /\ \A v \in UEs \ {u} : sessions'[v] = sessions[v]
      /\ DOMAIN sessions' = UEs
  BY DEF CaptureTunnel, TunnelInv, TeidInv
<1>2. ran[u] \in 1..lastRan /\ ran[u] \in Nat /\ DLTeid(ran[u], id) \in Nat
  BY Constants DEF TunnelInv, RanInv, DLTeid
<1>3. new \in [id : Sessions, teid : Nat] /\ new.id = id /\ new.teid = DLTeid(ran[u], id)
  BY <1>2
<1>4. \A v \in UEs : \A s \in sessions[v] : s \in [id : Sessions, teid : Nat]
  BY DEF TunnelInv, TeidInv
<1> HIDE DEF new
<1>5. RanInv'
  BY DEF TunnelInv, RanInv
<1>6. TeidInv'
  <2>1. sessions' \in [UEs -> SUBSET [id : Sessions, teid : Nat]]
    <3>1. \A v \in UEs : sessions'[v] \subseteq [id : Sessions, teid : Nat]
      BY <1>1, <1>3, <1>4
    <3>2. sessions' = [v \in UEs |-> sessions'[v]]
      BY DEF CaptureTunnel, TunnelInv, TeidInv
    <3> QED BY <3>1, <3>2
  <2>2. ASSUME NEW v \in UEs, NEW s \in sessions'[v]
        PROVE  \E i \in 1..lastRan : s.teid = DLTeid(i, s.id)
    <3>1. CASE s \in sessions[v]
      BY <3>1 DEF TunnelInv, TeidInv
    <3>2. CASE s = new
      BY <3>2, <1>2, <1>3
    <3> QED BY <3>1, <3>2, <1>1
  <2> QED BY <2>1, <2>2 DEF TeidInv, DLTeid
<1>7. ApartInv'
  <2>1. ASSUME NEW v \in UEs, NEW s \in sessions'[v], NEW t \in sessions'[v], s.id = t.id
        PROVE  s = t
    <3>1. CASE v = u
      BY <3>1, <2>1, <1>1, <1>3 DEF TunnelInv, ApartInv
    <3>2. CASE v # u
      BY <3>2, <2>1, <1>1 DEF TunnelInv, ApartInv
    <3> QED BY <3>1, <3>2
  <2>2. ASSUME NEW v \in UEs, NEW w \in UEs, v # w, NEW s \in sessions'[v], NEW i \in Sessions
        PROVE  s.teid # DLTeid(ran[w], i)
    <3>1. CASE s \in sessions[v]
      BY <3>1, <2>2 DEF TunnelInv, ApartInv
    <3>2. CASE s = new /\ v = u
      <4>1. ran[w] \in Nat /\ ran[w] # ran[u]
        BY <2>2, <3>2 DEF TunnelInv, RanInv
      <4>2. s.teid = DLTeid(ran[u], id)
        BY <3>2, <1>3
      <4>3. DLTeid(ran[u], id) # DLTeid(ran[w], i)
        BY <4>1, <1>2, TeidInjective
      <4> QED BY <4>2, <4>3
    <3> QED BY <3>1, <3>2, <1>1
  <2>3. ASSUME NEW v \in UEs, NEW w \in UEs, v # w,
               NEW s \in sessions'[v], NEW t \in sessions'[w]
        PROVE  s.teid # t.teid
    <3>1. CASE s \in sessions[v] /\ t \in sessions[w]
      BY <3>1, <2>3 DEF TunnelInv, ApartInv
    <3>2. CASE s = new /\ v = u /\ t \in sessions[w]
      BY <3>2, <2>3, <1>3 DEF TunnelInv, ApartInv
    <3>3. CASE t = new /\ w = u /\ s \in sessions[v]
      BY <3>3, <2>3, <1>3 DEF TunnelInv, ApartInv
    <3> QED BY <3>1, <3>2, <3>3, <2>3, <1>1
  <2> QED BY <2>1, <2>2, <2>3 DEF ApartInv, DLTeid
<1> QED BY <1>5, <1>6, <1>7 DEF TunnelInv

\* Every step of a UE or of the AMF, and every gNB-level wait.
LEMMA TunnelStep == TunnelInv /\ [Next]_vars => TunnelInv'
<1> SUFFICES ASSUME TunnelInv, [Next]_vars PROVE TunnelInv'
  OBVIOUS
<1>1. ASSUME NEW u \in UEs, NEW r, Send(u, r) PROVE TunnelInv'
  BY <1>1, TunnelFrame DEF Send, Emit
<1>2. ASSUME NEW u \in UEs, SendAuthenticationResponse(u) PROVE TunnelInv'
  BY <1>2, TunnelFrame DEF SendAuthenticationResponse
<1>3. ASSUME NEW u \in UEs, NEW r, SendServiceRequest(u, r) PROVE TunnelInv'
  BY <1>3, TunnelService
<1>4. ASSUME NEW u \in UEs, NEW r, Reestablish(u, r) PROVE TunnelInv'
  BY <1>4, TunnelFrame DEF Reestablish, Emit, AllocateRANUENGAPID
<1>5. ASSUME NEW u \in UEs, Fetch(u) PROVE TunnelInv'
  <2>1. ran' = ran /\ lastRan' = lastRan
    BY <1>5 DEF Fetch
  <2>2. sessions' = sessions \/ \E id \in Sessions : sessions' = CaptureTunnel(u, id)
    BY <1>5 DEF Fetch
  <2> QED BY <2>1, <2>2, TunnelFrame, TunnelCapture
<1>6. ASSUME NEW u \in UEs, TimeOut(u) PROVE TunnelInv'
  BY <1>6, TunnelFrame DEF TimeOut
<1>7. ASSUME NEW u \in UEs, AMFStep(u) PROVE TunnelInv'
  BY <1>7, TunnelFrame DEF AMFStep, AMFChallenges, AMFCommands, AMFInforms, AMFReleases,
                          AMFHandsOver, AMFPages, AMFErrs, AMFSends
<1>8. ASSUME NEW t, AwaitGNBMessage(t) PROVE TunnelInv'
  BY <1>8, TunnelFrame DEF AwaitGNBMessage
<1>9. CASE UNCHANGED vars
  BY <1>9, TunnelFrame DEF vars
<1> QED BY <1>1, <1>2, <1>3, <1>4, <1>5, <1>6, <1>7, <1>8, <1>9 DEF Next, UEStep

\* A TEID belongs to one session of one UE.
LEMMA TunnelInvDistinct == TunnelInv => TunnelsDistinct
<1> SUFFICES ASSUME TunnelInv, NEW u \in UEs, NEW v \in UEs,
                    NEW s \in sessions[u], NEW t \in sessions[v], s.teid = t.teid
             PROVE  u = v /\ s = t
  BY DEF TunnelsDistinct
<1>1. u = v
  BY DEF TunnelInv, ApartInv
<1>2. PICK i \in 1..lastRan : s.teid = DLTeid(i, s.id)
  BY DEF TunnelInv, TeidInv
<1>3. PICK j \in 1..lastRan : t.teid = DLTeid(j, t.id)
  BY DEF TunnelInv, TeidInv
<1>4. i \in Nat /\ j \in Nat
  BY DEF TunnelInv, RanInv
<1>5. s.id = t.id
  <2>1. DLTeid(i, s.id) = DLTeid(j, t.id)
    BY <1>2, <1>3, Zenon
  <2>2. s.id \in Sessions /\ t.id \in Sessions
    BY SessionIds
  <2> QED BY <2>1, <2>2, <1>4, TeidInjective
<1>6. t \in sessions[u]
  BY <1>1
<1>7. \A a, b \in sessions[u] : a.id = b.id => a = b
  BY DEF TunnelInv, ApartInv
<1> QED BY <1>1, <1>5, <1>6, <1>7

\* No two PDU sessions of a gNB share a downlink TEID, for any number of UEs and
\* sessions, though UEs change their RAN ids and TEIDs outlive them.
THEOREM TunnelsStayDistinct == Spec => []TunnelsDistinct
<1>1. Spec => []TunnelInv
  BY TunnelInit, TunnelStep, PTL DEF Spec
<1> QED BY <1>1, TunnelInvDistinct, PTL

(***************************************************************************)
(* Lemmas about the queues                                                 *)
(***************************************************************************)

\* Every non-empty set of naturals has a least element.
LEMMA LeastNatural ==
    ASSUME NEW S \in SUBSET Nat, S # {}
    PROVE  \E m \in S : \A n \in S : m <= n
<1> DEFINE R == OpToRel(<, Nat)
<1>1. IsWellFoundedOn(R, Nat)
  BY NatLessThanWellFounded
<1>2. PICK m \in S : \A n \in S : ~ (<<n, m>> \in R)
  <2> HIDE DEF R
  <2> QED BY <1>1, WFMin
<1>3. \A n \in S : ~ (n < m)
  BY <1>2 DEF OpToRel
<1> QED BY <1>3

\* What is queued under a type was filed as that type, with ids or without.
APIds == Nat \cup {NoId}

\* A SECURITY MODE COMMAND takes a new context into use, and nothing else does.
Genuine == {n \in NAS : n.prot = "new" <=> n.kind = "command"}

Label == [to : SUBSET UEs, ran : APIds, amf : APIds, nas : Genuine]

FrameOf(t) == [type : {t}, label : Label]

QueueInv ==
    /\ frames = [t \in MessageTypes |-> frames[t]]
    /\ \A t \in MessageTypes : frames[t] \in Seq(FrameOf(t))

\* Filing adds the new frame at the end of its queue, and that only.
LEMMA FileFrame ==
    ASSUME QueueInv, NEW t \in MessageTypes, NEW l \in Label,
           frames' = File(frames, [type |-> t, label |-> l])
    PROVE  /\ QueueInv'
           /\ \A s \in MessageTypes : \A i \in DOMAIN frames'[s] :
                \/ i \in DOMAIN frames[s] /\ frames'[s][i] = frames[s][i]
                \/ /\ s = t /\ frames'[s][i] = [type |-> t, label |-> l]
                   /\ \A j \in DOMAIN frames'[s] : j <= i
<1> DEFINE f == [type |-> t, label |-> l]
<1>1. f \in FrameOf(t) /\ f.type = t
  BY DEF FrameOf
<1> HIDE DEF f
<1>2. frames' = [frames EXCEPT ![t] = Append(@, f)]
  BY <1>1 DEF File, f
<1>3. /\ frames' = [s \in MessageTypes |-> frames'[s]]
      /\ frames'[t] = Append(frames[t], f) /\ \A s \in MessageTypes \ {t} : frames'[s] = frames[s]
  BY <1>2 DEF QueueInv
<1>4. Append(frames[t], f) \in Seq(FrameOf(t))
  BY <1>1 DEF QueueInv
<1>5. QueueInv'
  BY <1>3, <1>4 DEF QueueInv
<1>6. ASSUME NEW i \in DOMAIN frames'[t]
      PROVE  \/ i \in DOMAIN frames[t] /\ frames'[t][i] = frames[t][i]
             \/ frames'[t][i] = f /\ \A j \in DOMAIN frames'[t] : j <= i
  <2>1. /\ frames[t] \in Seq(FrameOf(t)) /\ Len(frames[t]) \in Nat
        /\ DOMAIN frames'[t] = 1..(Len(frames[t]) + 1) /\ i \in 1..(Len(frames[t]) + 1)
    BY <1>3, <1>1, <1>6 DEF QueueInv
  <2>2. CASE i = Len(frames[t]) + 1
    BY <2>1, <2>2, <1>1, <1>3
  <2>3. CASE i # Len(frames[t]) + 1
    <3>1. i \in 1..Len(frames[t]) /\ i \in DOMAIN frames[t]
      BY <2>1, <2>3
    <3> QED BY <2>1, <3>1, <1>1, <1>3
  <2> QED BY <2>2, <2>3
<1> QED BY <1>3, <1>5, <1>6 DEF f

\* Where the i-th frame was before the m-th was taken out
Shift(i, m) == IF i < m THEN i ELSE i + 1

\* Taking a position out leaves the others, in their order.
LEMMA RemoveFrame ==
    ASSUME QueueInv, NEW t \in MessageTypes, NEW m \in 1..Len(frames[t]),
           frames' = [frames EXCEPT ![t] = RemoveAt(@, m)]
    PROVE  /\ QueueInv'
           /\ \A s \in MessageTypes \ {t} : frames'[s] = frames[s]
           /\ \A i \in DOMAIN frames'[t] :
                Shift(i, m) \in DOMAIN frames[t] /\ frames'[t][i] = frames[t][Shift(i, m)]
<1> DEFINE q == frames[t]
           a == SubSeq(q, 1, m - 1)
           b == SubSeq(q, m + 1, Len(q))
<1>1. q \in Seq(FrameOf(t)) /\ Len(q) \in Nat /\ DOMAIN q = 1..Len(q) /\ m \in 1..Len(q)
  BY DEF QueueInv
<1> HIDE DEF q
<1>2. /\ a \in Seq(FrameOf(t)) /\ Len(a) = m - 1
      /\ \A k \in 1..(m - 1) : a[k] = q[k]
  BY <1>1 DEF q
<1>3. /\ b \in Seq(FrameOf(t)) /\ Len(b) = Len(q) - m
      /\ \A k \in 1..(Len(q) - m) : b[k] = q[m + k]
  BY <1>1 DEF q
<1>4. RemoveAt(q, m) = a \o b
  BY DEF RemoveAt
<1> HIDE DEF a, b
<1>5. /\ a \o b \in Seq(FrameOf(t)) /\ DOMAIN (a \o b) = 1..(Len(a) + Len(b))
      /\ \A k \in 1..(Len(a) + Len(b)) :
           (a \o b)[k] = IF k <= Len(a) THEN a[k] ELSE b[k - Len(a)]
  <2>1. /\ a \o b \in Seq(FrameOf(t)) /\ Len(a \o b) = Len(a) + Len(b)
        /\ \A k \in 1..(Len(a) + Len(b)) :
             (a \o b)[k] = IF k <= Len(a) THEN a[k] ELSE b[k - Len(a)]
    BY <1>2, <1>3, ConcatProperties
  <2>2. DOMAIN (a \o b) = 1..Len(a \o b)
    BY <2>1, LenProperties
  <2> QED BY <2>1, <2>2
<1>6. /\ frames' = [s \in MessageTypes |-> frames'[s]]
      /\ frames'[t] = a \o b /\ \A s \in MessageTypes \ {t} : frames'[s] = frames[s]
  BY <1>4 DEF QueueInv, q
<1>7. QueueInv'
  BY <1>5, <1>6 DEF QueueInv
<1>8. ASSUME NEW i \in 1..(Len(a) + Len(b))
      PROVE  Shift(i, m) \in DOMAIN q /\ (a \o b)[i] = q[Shift(i, m)]
  <2>1. CASE i <= Len(a)
    <3>1. i \in 1..(m - 1) /\ i \in DOMAIN q /\ (a \o b)[i] = a[i] /\ Shift(i, m) = i
      BY <2>1, <1>1, <1>2, <1>5 DEF Shift
    <3> QED BY <3>1, <1>2
  <2>2. CASE ~(i <= Len(a))
    <3>1. /\ i - Len(a) \in 1..(Len(q) - m) /\ m + (i - Len(a)) \in DOMAIN q
          /\ Shift(i, m) = m + (i - Len(a))
      BY <2>2, <1>1, <1>2, <1>3 DEF Shift
    <3> QED BY <2>2, <3>1, <1>3, <1>5
  <2> QED BY <2>1, <2>2
<1> QED BY <1>5, <1>6, <1>7, <1>8 DEF q

\* The search finds the first frame of a wanted type that is accepted.
LEMMA SearchHit ==
    ASSUME QueueInv, NEW r, r.types \in Seq(MessageTypes), Hits(frames, r) # {},
           NEW p, p = FirstHit(frames, r)
    PROVE  /\ r.types[p[1]] \in MessageTypes /\ p[2] \in 1..Len(frames[r.types[p[1]]])
           /\ FrameAt(frames, r, p).label \in r.accept
           /\ \A k \in 1..(p[2] - 1) : frames[r.types[p[1]]][k].label \notin r.accept
<1> DEFINE H == Hits(frames, r)
<1>1. \A x \in H : /\ x \in Nat \X Nat /\ r.types[x[1]] \in MessageTypes
                   /\ x[2] \in 1..Len(frames[r.types[x[1]]])
                   /\ FrameAt(frames, r, x).label \in r.accept
  <2>1. \A t \in MessageTypes : DOMAIN frames[t] = 1..Len(frames[t]) /\ Len(frames[t]) \in Nat
    BY DEF QueueInv
  <2>2. \A i \in DOMAIN r.types : i \in Nat /\ r.types[i] \in MessageTypes
    OBVIOUS
  <2> QED BY <2>1, <2>2 DEF Hits, FrameAt
<1> HIDE DEF H
<1> DEFINE I == {x[1] : x \in H}
<1>2. PICK i \in I : \A k \in I : i <= k
  <2>1. I \in SUBSET Nat /\ I # {}
    BY <1>1 DEF H
  <2> QED BY <2>1, LeastNatural
<1> DEFINE J == {x[2] : x \in {q \in H : q[1] = i}}
<1>3. PICK j \in J : \A k \in J : j <= k
  <2>1. J \in SUBSET Nat /\ J # {}
    BY <1>1, <1>2
  <2> QED BY <2>1, LeastNatural
<1>4. PICK x \in H : x[1] = i /\ x[2] = j
  BY <1>3
<1>5. \A q \in H : Before(x, q)
  <2> SUFFICES ASSUME NEW q \in H PROVE Before(x, q)
    OBVIOUS
  <2>1. q[1] \in Nat /\ q[2] \in Nat /\ x[1] \in Nat /\ x[2] \in Nat /\ i <= q[1]
    BY <1>1, <1>2
  <2>2. q[1] = i => j <= q[2]
    BY <1>3
  <2> QED BY <1>4, <2>1, <2>2 DEF Before
<1>6. FirstHit(frames, r) \in H /\ \A q \in H : Before(FirstHit(frames, r), q)
  BY <1>5 DEF FirstHit, H
<1> DEFINE h == FirstHit(frames, r)
<1>7. ASSUME NEW k \in 1..(h[2] - 1), frames[r.types[h[1]]][k].label \in r.accept PROVE FALSE
  <2> HIDE DEF h
  <2>0. h \in H /\ (\A q \in H : Before(h, q))
    BY <1>6 DEF h
  <2>1. h \in H /\ (\A q \in H : Before(h, q)) /\ h[1] \in Nat /\ h[2] \in Nat
    BY <2>0, <1>1
  <2>2. h[1] \in DOMAIN r.types /\ h[2] \in DOMAIN frames[r.types[h[1]]]
    <3>1. \A q \in H : \E n \in DOMAIN r.types : q \in {n} \X DOMAIN frames[r.types[n]]
      BY DEF H, Hits
    <3>2. PICK n \in DOMAIN r.types : h \in {n} \X DOMAIN frames[r.types[n]]
      BY <2>1, <3>1
    <3> QED BY <3>2
  <2>3. k \in DOMAIN frames[r.types[h[1]]]
    BY <2>1, <2>2, <1>1 DEF QueueInv
  <2>4. <<h[1], k>> \in H
    <3>1. \A n \in DOMAIN r.types : \A l \in DOMAIN frames[r.types[n]] :
            frames[r.types[n]][l].label \in r.accept => <<n, l>> \in H
      BY DEF H, Hits
    <3> QED BY <2>2, <2>3, <1>7, <3>1
  <2>5. <<h[1], k>>[1] = h[1] /\ <<h[1], k>>[2] = k
    OBVIOUS
  <2> QED BY <2>1, <2>4, <2>5 DEF Before
<1>8. p = h
  OBVIOUS
<1> QED BY <1>1, <1>6, <1>7, <1>8

(***************************************************************************)
(* What the decoder makes of the AMF's messages                            *)
(***************************************************************************)

\* Every message of the AMF is named by its procedure.
LEMMA Named ==
    ASSUME NEW t \in MessageTypes, NEW r, NEW a, NEW nas
    PROVE  MessageType(PDU(t, r, a, nas)) = t
<1>1. PDU(t, r, a, nas).kind = ProcedureOf[t][1] /\ PDU(t, r, a, nas).procedure = ProcedureOf[t][2]
  BY DEF PDU
<1>2. t \in {Dnt, Ics, Setup, Modify, Drop, Release, Status, Page, Err} =>
        /\ ProcedureOf[t][1] = "initiating_message"
        /\ ProcedureOf[t][2] \in DOMAIN InitiatingName /\ InitiatingName[ProcedureOf[t][2]] = t
  BY DEF ProcedureOf, InitiatingName, Dnt, Ics, Setup, Modify, Drop, Release, Status, Page, Err
<1>3. t \in {CancelAck, Command} =>
        /\ ProcedureOf[t][1] = "successful_outcome"
        /\ ProcedureOf[t][2] \in DOMAIN successfulOutcomeName
        /\ successfulOutcomeName[ProcedureOf[t][2]] = t
  BY DEF ProcedureOf, successfulOutcomeName, CancelAck, Command
<1>4. t = NotPrepared =>
        /\ ProcedureOf[t][1] = "unsuccessful_outcome"
        /\ ProcedureOf[t][2] \in DOMAIN unsuccessfulOutcomeName
        /\ unsuccessfulOutcomeName[ProcedureOf[t][2]] = t
  BY DEF ProcedureOf, unsuccessfulOutcomeName, NotPrepared
<1> QED BY <1>1, <1>2, <1>3, <1>4 DEF MessageTypes, NASBearers, HandoverTypes, MessageType, NameOf

\* The messages that say whose they are by a pair of ids
Addressed == MessageTypes \ {Release, Page}

\* Which messages carry a NAS PDU, and where
LEMMA Carries ==
    /\ \A t \in {Dnt, Ics, Drop} : NASCarrier(t) = {"NASPDU"}
    /\ NASCarrier(Setup) = {"SetupListSUReq"} /\ NASCarrier(Modify) = {"ModifyListModReq"}
    /\ \A t \in HandoverTypes \cup {Release, Page, Err} : NASCarrier(t) = {}
<1>1. \A t \in {Dnt, Ics, Drop} : NASCarrier(t) = {"NASPDU"}
  BY DEF NASCarrier, Dnt, Ics, Drop, Setup, Modify
<1>2. NASCarrier(Setup) = {"SetupListSUReq"} /\ NASCarrier(Modify) = {"ModifyListModReq"}
  BY DEF NASCarrier, Dnt, Ics, Drop, Setup, Modify
<1>3. \A t \in HandoverTypes \cup {Release, Page, Err} : NASCarrier(t) = {}
  BY DEF NASCarrier, Dnt, Ics, Drop, Setup, Modify, HandoverTypes, CancelAck, Command, NotPrepared,
         Status, Release, Page, Err
<1> QED BY <1>1, <1>2, <1>3

\* The decoders of the others read the ids and the NAS PDU wherever it is.
LEMMA ReadsAddressed ==
    ASSUME NEW t \in Addressed
    PROVE  /\ t \in DOMAIN Decoders /\ Ids \cup NASCarrier(t) \subseteq Decoders[t]
           /\ NASCarrier(t) \cap (Ids \cup {"UENGAPIDs"}) = {}
<1>1. t \in {Dnt, Ics, Drop} => t \in DOMAIN Decoders /\ Ids \cup {"NASPDU"} \subseteq Decoders[t]
  BY DEF Decoders, Dnt, Ics, Drop, decodeDownlinkNASTransport, decodeInitialContextSetupRequest,
         decodePDUSessionResourceReleaseCommand
<1>2. t = Setup => t \in DOMAIN Decoders /\ Ids \cup {"SetupListSUReq"} \subseteq Decoders[t]
  BY DEF Decoders, Setup, decodePDUSessionResourceSetupRequest
<1>3. t = Modify => t \in DOMAIN Decoders /\ Ids \cup {"ModifyListModReq"} \subseteq Decoders[t]
  BY DEF Decoders, Modify, decodePDUSessionResourceModifyRequest
<1>4. t \in {CancelAck, Command, NotPrepared} => t \in DOMAIN Decoders /\ Ids \subseteq Decoders[t]
  BY DEF Decoders, CancelAck, Command, NotPrepared, decodeHandoverCancelAcknowledge,
         decodeHandoverCommand, decodeHandoverPreparationFailure
<1>5. t \in {Status, Err} => t \in DOMAIN Decoders /\ Ids \subseteq Decoders[t]
  BY DEF Decoders, Status, Err, decodeDownlinkRANStatusTransfer, decodeErrorIndication
<1>6. t \in NASBearers \cup HandoverTypes \cup {Err}
  BY DEF Addressed, MessageTypes
<1>7. t \in DOMAIN Decoders /\ Ids \cup NASCarrier(t) \subseteq Decoders[t]
  BY <1>1, <1>2, <1>3, <1>4, <1>5, <1>6, Carries DEF NASBearers, HandoverTypes
<1>8. NASCarrier(t) \subseteq {"NASPDU", "SetupListSUReq", "ModifyListModReq"}
  BY <1>6, Carries DEF NASBearers
<1>9. {"NASPDU", "SetupListSUReq", "ModifyListModReq"} \cap (Ids \cup {"UENGAPIDs"}) = {}
  BY DEF Ids
<1> QED BY <1>7, <1>8, <1>9

LEMMA ReadsOthers ==
    /\ Release \in DOMAIN Decoders /\ Decoders[Release] = {"UENGAPIDs", "Cause"}
    /\ Page \in DOMAIN Decoders /\ Decoders[Page] = {"UEPagingIdentity"}
BY DEF Decoders, Release, Page, decodeUEContextReleaseCommand, decodePaging

\* A message is filed under its type, as of the UE and under the ids that the AMF
\* gave it, with a NAS PDU that the AMF put into it or none.
LEMMA FiledAs ==
    ASSUME NEW t \in MessageTypes, NEW r, NEW a, t = Page => r = NoId /\ a = NoId,
           NEW nas \in NAS, NEW to
    PROVE  \E n \in {nas, NoNAS} :
             Filed(PDU(t, r, a, nas), to) =
               [type |-> t, label |-> [to |-> to, ran |-> r, amf |-> a, nas |-> n]]
<1> DEFINE pdu == PDU(t, r, a, nas)
           ids == {x \in Ids : (IF x = "RANUENGAPID" THEN r ELSE a) # NoId}
           carried == IF t = Release THEN {"UENGAPIDs"} ELSE ids \cup NASCarrier(t)
<1>1. /\ DOMAIN pdu.ies = carried
      /\ \A x \in carried \cap Ids : pdu.ies[x] = IF x = "RANUENGAPID" THEN r ELSE a
      /\ "UENGAPIDs" \in carried =>
           pdu.ies["UENGAPIDs"] = [x \in ids |-> IF x = "RANUENGAPID" THEN r ELSE a]
      /\ "NASPDU" \in carried => pdu.ies["NASPDU"] = nas
      /\ \A x \in carried \cap ItemLists : pdu.ies[x] = <<[nas |-> {}], [nas |-> {nas}]>>
  BY DEF PDU, ItemLists, Ids
<1>2. MessageType(pdu) = t
  BY Named
<1> HIDE DEF pdu
<1>3. Seen(pdu) = IF t = Page THEN {} ELSE carried
  <2>1. CASE t \in Addressed
    BY <2>1, <1>1, <1>2, ReadsAddressed DEF Seen, Addressed
  <2>2. CASE t = Release
    BY <2>2, <1>1, <1>2, ReadsOthers DEF Seen, Release, Page
  <2>3. CASE t = Page
    BY <2>3, <1>1, <1>2, ReadsOthers, Carries DEF Seen, Ids, Release, Page
  <2> QED BY <2>1, <2>2, <2>3 DEF Addressed
<1>4. IdOf(pdu, "RANUENGAPID") = r /\ IdOf(pdu, "AMFUENGAPID") = a
  <2>1. CASE t \in Addressed
    <3>1. Seen(pdu) = ids \cup NASCarrier(t) /\ NASCarrier(t) \cap (Ids \cup {"UENGAPIDs"}) = {}
      BY <2>1, <1>3, ReadsAddressed DEF Addressed
    <3>2. "UENGAPIDs" \notin Seen(pdu)
      BY <3>1 DEF Ids
    <3>3. \A x \in Ids : x \in Seen(pdu) <=> x \in ids
      BY <3>1
    <3> QED BY <2>1, <3>2, <3>3, <1>1, <1>3 DEF IdOf, Ids, Addressed
  <2>2. CASE t = Release
    <3>1. Seen(pdu) = {"UENGAPIDs"}
      BY <2>2, <1>3 DEF Release, Page
    <3>2. pdu.ies["UENGAPIDs"] = [x \in ids |-> IF x = "RANUENGAPID" THEN r ELSE a]
      BY <2>2, <1>1
    <3>3. \A x \in Ids : IdOf(pdu, x) = FromChoice(pdu.ies["UENGAPIDs"], x)
      BY <3>1 DEF IdOf, Ids
    <3> QED BY <3>2, <3>3 DEF FromChoice, Ids
  <2>3. CASE t = Page
    BY <2>3, <1>3 DEF IdOf
  <2> QED BY <2>1, <2>2, <2>3 DEF Addressed
<1>5. NASOf(pdu) \subseteq {nas}
  <2>1. "NASPDU" \in Seen(pdu) => NASOf(pdu) = {nas}
    BY <1>1, <1>3 DEF NASOf
  <2>2. \A l \in ItemLists \cap Seen(pdu) : \A i \in DOMAIN pdu.ies[l] : pdu.ies[l][i].nas \subseteq {nas}
    <3>1. \A l \in ItemLists \cap Seen(pdu) : pdu.ies[l] = <<[nas |-> {}], [nas |-> {nas}]>>
      BY <1>1, <1>3
    <3>2. \A i \in 1..2 : <<[nas |-> {}], [nas |-> {nas}]>>[i].nas \subseteq {nas}
      OBVIOUS
    <3>3. DOMAIN <<[nas |-> {}], [nas |-> {nas}]>> = 1..2
      OBVIOUS
    <3> QED BY <3>1, <3>2, <3>3
  <2>3. ItemNAS(pdu) \subseteq {nas}
    BY <2>2 DEF ItemNAS
  <2> QED BY <2>1, <2>3 DEF NASOf
<1>6. NASOf(pdu) = {} \/ NASOf(pdu) = {nas}
  BY <1>5
<1>7. Decode(pdu) = [type |-> t, ran |-> r, amf |-> a, nas |-> NASOf(pdu)]
  BY <1>2, <1>4 DEF Decode
<1>8. /\ Decode(pdu).type = t /\ Decode(pdu).ran = r /\ Decode(pdu).amf = a
      /\ Decode(pdu).nas = NASOf(pdu)
  BY <1>7
<1>9. CASE NASOf(pdu) = {}
  BY <1>8, <1>9 DEF Filed, pdu
<1>10. CASE NASOf(pdu) = {nas}
  <2>1. Decode(pdu).nas = {nas} /\ Decode(pdu).nas # {}
    BY <1>8, <1>10
  <2>2. (CHOOSE n \in Decode(pdu).nas : TRUE) = nas
    BY <2>1
  <2>3. Filed(pdu, to) = [type |-> t, label |-> [to |-> to, ran |-> r, amf |-> a, nas |-> nas]]
    BY <1>8, <2>1, <2>2 DEF Filed
  <2> QED BY <2>3 DEF pdu
<1> QED BY <1>6, <1>9, <1>10

(***************************************************************************)
(* Types                                                                   *)
(***************************************************************************)

\* The form of a request; one that does not wait by ids keeps nothing of the answer.
Form ==
    [carrier : {"initial", "uplink", "ngap", "none"}, prot : Protections, ifKamf : BOOLEAN,
     waits : Seq(MessageTypes), match : {"ids", "ran", "any"},
     unwraps : {"always", "withKamf", "never"}, learns : BOOLEAN, stores : BOOLEAN,
     acks : BOOLEAN, session : Nat]

Silent(r) == ~r.learns /\ ~r.stores /\ r.unwraps = "never"

Formed == {r \in Form : r.match # "ids" => Silent(r)}

\* Requests are formed, and stay so when a handler differs from the common tail.
LEMMA FormedParts ==
    /\ \A c \in {"initial", "uplink", "ngap", "none"}, p \in Protections, w \in Seq(MessageTypes) :
         /\ Request(c, p, w) \in Formed /\ Bare(Request(c, p, w)) \in Formed
         /\ Bare(Request(c, p, w)).match = "ids"
    /\ \A r \in Formed :
         /\ Opaque(r) \in Formed /\ Silent(Opaque(r)) /\ Raw(r) \in Formed
         /\ [r EXCEPT !.ifKamf = TRUE] \in Formed /\ [r EXCEPT !.acks = TRUE] \in Formed
         /\ r.match = "ids" => [r EXCEPT !.ifKamf = TRUE, !.learns = TRUE] \in Formed
         /\ \A w \in Seq(MessageTypes) :
              /\ [r EXCEPT !.carrier = "uplink", !.waits = w] \in Formed
              /\ Silent(r) => [r EXCEPT !.waits = w, !.match = "ran"] \in Formed
         /\ \A id \in Nat : [r EXCEPT !.session = id] \in Formed
         /\ Silent(r) => [r EXCEPT !.match = "any"] \in Formed
<1>1. ASSUME NEW c \in {"initial", "uplink", "ngap", "none"}, NEW p \in Protections,
             NEW w \in Seq(MessageTypes)
      PROVE  /\ Request(c, p, w) \in Formed /\ Bare(Request(c, p, w)) \in Formed
             /\ Bare(Request(c, p, w)).match = "ids"
  <2>1. Request(c, p, w) \in Form /\ Request(c, p, w).match = "ids"
    BY DEF Request, Form, Protections
  <2>2. \A r \in Form : Bare(r) \in Form /\ Bare(r).match = r.match
    BY DEF Bare, Form
  <2> QED BY <2>1, <2>2 DEF Formed
<1> SUFFICES ASSUME NEW r \in Formed
             PROVE  /\ Opaque(r) \in Formed /\ Silent(Opaque(r)) /\ Raw(r) \in Formed
                    /\ [r EXCEPT !.ifKamf = TRUE] \in Formed /\ [r EXCEPT !.acks = TRUE] \in Formed
                    /\ r.match = "ids" => [r EXCEPT !.ifKamf = TRUE, !.learns = TRUE] \in Formed
                    /\ \A w \in Seq(MessageTypes) :
                         /\ [r EXCEPT !.carrier = "uplink", !.waits = w] \in Formed
                         /\ Silent(r) => [r EXCEPT !.waits = w, !.match = "ran"] \in Formed
                    /\ \A id \in Nat : [r EXCEPT !.session = id] \in Formed
                    /\ Silent(r) => [r EXCEPT !.match = "any"] \in Formed
  BY <1>1
<1> USE DEF Silent
<1>2. Raw(r) \in Formed
  BY DEF Raw, Formed, Form, Protections
<1>3. Opaque(r) \in Formed /\ Silent(Opaque(r))
  <2>1. Bare(r) \in Form /\ ~Bare(r).learns /\ ~Bare(r).stores
    BY DEF Bare, Formed, Form
  <2> QED BY <2>1 DEF Opaque, Formed, Form
<1>4. [r EXCEPT !.ifKamf = TRUE] \in Formed /\ [r EXCEPT !.acks = TRUE] \in Formed
  BY DEF Formed, Form
<1>5. r.match = "ids" => [r EXCEPT !.ifKamf = TRUE, !.learns = TRUE] \in Formed
  BY DEF Formed, Form
<1>6. \A w \in Seq(MessageTypes) :
        /\ [r EXCEPT !.carrier = "uplink", !.waits = w] \in Formed
        /\ Silent(r) => [r EXCEPT !.waits = w, !.match = "ran"] \in Formed
  BY DEF Formed, Form
<1>7. \A id \in Nat : [r EXCEPT !.session = id] \in Formed
  BY DEF Formed, Form
<1>8. Silent(r) => [r EXCEPT !.match = "any"] \in Formed
  BY DEF Formed, Form
<1> QED BY <1>2, <1>3, <1>4, <1>5, <1>6, <1>7, <1>8

\* What the requests wait for are message types.
LEMMA Waits ==
    /\ <<>> \in Seq(MessageTypes)
    /\ \A t \in MessageTypes : <<t>> \in Seq(MessageTypes)
    /\ \A s, t \in MessageTypes : <<s, t>> \in Seq(MessageTypes)
    /\ \A s, t, v \in MessageTypes : <<s, t, v>> \in Seq(MessageTypes)
    /\ \A s, t, v, x \in MessageTypes : <<s, t, v, x>> \in Seq(MessageTypes)
    /\ {Dnt, Ics, Setup, Modify, Drop, Release, Err, CancelAck} \subseteq MessageTypes
BY DEF MessageTypes, NASBearers, HandoverTypes

LEMMA RequestsFormed ==
    /\ Requests \subseteq Formed /\ AuthenticationResponse \in Formed
    /\ ServiceRequest \in Formed /\ Raw(ServiceRequest) \in Formed
    /\ \A r \in {RegistrationRequest, MobilityUpdate} : Reestablishment(r) \in Formed
<1> USE FormedParts, Waits
<1>1. RegistrationRequest \in Formed /\ MobilityUpdate \in Formed
  BY Zenon DEF RegistrationRequest, MobilityUpdate, Protections
<1>2. \A r \in {RegistrationRequest, MobilityUpdate} : OnExistingConnection(r) \in Formed
  BY <1>1, Zenon DEF OnExistingConnection
<1>3. AuthenticationResponse \in Formed /\ SecurityModeComplete \in Formed
  BY Zenon DEF AuthenticationResponse, SecurityModeComplete, Protections
<1>4. RegistrationComplete \in Formed
  BY Zenon DEF RegistrationComplete, Protections
<1>5. DeregistrationRequest \in Formed /\ UEContextReleaseRequest \in Formed
  BY Zenon DEF DeregistrationRequest, UEContextReleaseRequest, Protections
<1>6. IdentityResponse \in Formed /\ AuthenticationFailure \in Formed /\ SecurityModeReject \in Formed
  BY Zenon DEF IdentityResponse, AuthenticationFailure, SecurityModeReject, Protections
<1>7. ServiceRequest \in Formed
  BY Zenon DEF ServiceRequest, Protections
<1>8. ServiceRequestConnected \in Formed
  BY Zenon DEF ServiceRequestConnected, Protections
<1>9. InjectNAS \in Formed
  BY Zenon DEF InjectNAS, Protections
<1>10. HandoverCancel \in Formed
  BY Zenon DEF HandoverCancel, Protections
<1>11. \A r \in Formed : Raw(r) \in Formed
  BY Zenon
<1>12. UECapabilityInfo \in Formed /\ ErrorIndication \in Formed /\ FireAndForget \in Formed
  BY Zenon DEF UECapabilityInfo, ErrorIndication, FireAndForget, Protections
<1>13. \A id \in Sessions : PDUSessionEstablishment(id) \in Formed
  <2>1. Bare(Request("uplink", "ciphered", <<Setup, Dnt, Err>>)) \in Formed
    BY Zenon DEF Protections
  <2> HIDE FormedParts, Waits
  <2>2. \A id \in Sessions : id \in Nat
    BY Constants
  <2>3. \A r \in Formed, id \in Nat : [r EXCEPT !.session = id] \in Formed
    BY FormedParts, Zenon
  <2> QED BY <2>1, <2>2, <2>3, Zenon DEF PDUSessionEstablishment
<1>14. PDUSessionEstablishmentRaw \in Formed /\ PDUSessionRelease \in Formed
  BY Zenon DEF PDUSessionEstablishmentRaw, PDUSessionRelease, Protections
<1>15. PDUSessionModification \in Formed /\ SessionMessage \in Formed
  BY Zenon DEF PDUSessionModification, SessionMessage, Protections
<1>16. \A t \in MessageTypes : Await(t) \in Formed
  <2> SUFFICES ASSUME NEW t \in MessageTypes PROVE Await(t) \in Formed
    BY Zenon
  <2>1. Bare(Request("none", "plain", <<t>>)) \in Formed
    BY Zenon DEF Protections
  <2> QED BY <2>1, Zenon DEF Await
<1>18. \A r \in {RegistrationRequest, MobilityUpdate} : Reestablishment(r) \in Formed
  <2>1. \A r \in {RegistrationRequest, MobilityUpdate} : Opaque(r) \in Formed /\ Silent(Opaque(r))
    BY <1>1, Zenon
  <2>2. <<Release, Err>> \in Seq(MessageTypes)
    BY Zenon
  <2> HIDE FormedParts, Waits
  <2>3. \A r \in Formed, w \in Seq(MessageTypes) :
          Silent(r) => [r EXCEPT !.waits = w, !.match = "ran"] \in Formed
    BY FormedParts, Zenon
  <2> QED BY <2>1, <2>2, <2>3, Zenon DEF Reestablishment
<1> HIDE FormedParts, Waits
<1>17. Requests \subseteq Formed
  BY <1>1, <1>2, <1>3, <1>4, <1>5, <1>6, <1>8, <1>9, <1>10, <1>11, <1>12, <1>13, <1>14, <1>15, <1>16
     DEF Requests
<1> QED BY <1>3, <1>7, <1>11, <1>17, <1>18

Core ==
    [ran : Nat, amf : Nat, key : Nat, dl : Nat, ul : Nat, chal : Nat, res : Nat,
     secured : BOOLEAN, again : BOOLEAN, echo : APIds \X APIds]

ShapeInv ==
    /\ sec \in [UEs -> Context] /\ amf \in [UEs -> Nat] /\ rand \in [UEs -> Nat]
    /\ call \in [UEs -> SUBSET [req : Formed, amf : Nat]]
    /\ answer \in [UEs -> SUBSET Answer]
    /\ \A u \in UEs : /\ \A w \in call[u] : call[u] = {w}
                      /\ \A x \in answer[u] : answer[u] = {x}
    /\ lastAmf \in Nat
    /\ QueueInv
    /\ core \in [UEs -> Core]
    /\ track \in [UEs -> [ok : BOOLEAN, at : Nat]]

\* A context stays one under any uplink and any downlink.
LEMMA ContextType ==
    /\ \A s \in Context, p \in Protections : AfterUplink(s, p) \in Context
    /\ \A s \in Context, n \in NAS : AfterDownlink(s, n) \in Context
<1>1. \A s \in Context, p \in Protections : AfterUplink(s, p) \in Context
  <2>1. \A s \in Context, p \in Protections : Rewound(s, p) \in Context
    BY DEF Rewound, Context
  <2>2. \A s \in Context : NextUL(s) \in Context
    BY DEF NextUL, Context
  <2> QED BY <2>1, <2>2 DEF AfterUplink
<1>2. \A s \in Context, c \in Nat : EstimateDL(s.dl, c % Octet) \in Nat
  BY EstimateType DEF Context
<1>3. \A s \in Context, c \in Nat : NextDL(s, c % Octet) \in Context
  BY <1>2 DEF NextDL, Context
<1>4. \A s \in Context : Establish(s) \in Context
  BY DEF Establish, Context
<1>5. \A n \in NAS : n.count \in Nat
  BY DEF NAS
<1> QED BY <1>1, <1>3, <1>4, <1>5 DEF AfterDownlink

\* And so does the AMF's side of it.
LEMMA CoreStays ==
    ASSUME lastAmf \in Nat, NEW c \in Core, NEW k \in Nat, NEW p \in Protections,
           NEW t \in {"initial", "uplink", "ngap", "none"}, NEW i \in Nat, NEW a \in Nat
    PROVE  /\ Heard(c, t, i, a) \in Core /\ Counted(c, k, p) \in Core
<1>1. <<i, NoId>> \in APIds \X APIds /\ <<i, a>> \in APIds \X APIds
  BY DEF APIds
<1>2. Heard(c, t, i, a) \in Core
  BY <1>1 DEF Heard, Core
<1>3. Counted(c, k, p) \in Core
  <2>1. c.secured \in BOOLEAN /\ c.ul + 1 \in Nat
    BY DEF Core
  <2>2. [c EXCEPT !.ul = 1, !.secured = TRUE, !.again = c.secured] \in Core
    BY <2>1 DEF Core
  <2>3. [c EXCEPT !.ul = @ + 1] \in Core
    BY <2>1 DEF Core
  <2> QED BY <2>2, <2>3 DEF Counted
<1> QED BY <1>2, <1>3

LEMMA ShapeInit == Init => ShapeInv
<1> SUFFICES ASSUME Init PROVE ShapeInv
  OBVIOUS
<1>1. QueueInv
  <2>1. frames = [t \in MessageTypes |-> <<>>]
    BY DEF Init, EmptyQueues
  <2>2. \A t \in MessageTypes : frames[t] = <<>>
    BY <2>1
  <2> QED BY <2>1, <2>2 DEF QueueInv
<1>2. sec \in [UEs -> Context]
  BY DEF Init, FreshContext, Context, NoKey
<1>3. core \in [UEs -> Core]
  <2>1. <<NoId, NoId>> \in APIds \X APIds
    BY DEF APIds
  <2> QED BY <2>1 DEF Init, Core, NoKey
<1> QED BY <1>1, <1>2, <1>3 DEF Init, ShapeInv, Unassigned, NoKey

\* A request that sends
LEMMA ShapeEmit ==
    ASSUME ShapeInv, NEW u \in UEs, NEW r \in Formed, NEW i \in Nat, NEW a \in Nat, Emit(u, r, i, a)
    PROVE  ShapeInv'
<1> DEFINE p == Protection(u, r)
<1>1. p \in Protections
  BY DEF Protection, Protections, Formed, Form
<1>2. sec[u] \in Context /\ sec[u].keys \in Nat
  BY DEF ShapeInv, Context
<1> HIDE DEF p
<1>3. /\ sec' = [sec EXCEPT ![u] = AfterUplink(@, p)]
      /\ core' = [core EXCEPT ![u] = Counted(Heard(@, r.carrier, i, a), sec[u].keys, p)]
      /\ track' \in {track, [track EXCEPT ![u] = [ok |-> TRUE, at |-> 0]]}
      /\ call' \in {[call EXCEPT ![u] = {}], [call EXCEPT ![u] = {[req |-> r, amf |-> a]}]}
      /\ answer' = [answer EXCEPT ![u] = {}]
      /\ lastAmf' \in {lastAmf, lastAmf + 1}
      /\ UNCHANGED <<amf, rand, frames>>
  BY DEF Emit, p
<1>4. sec' \in [UEs -> Context]
  BY <1>1, <1>2, <1>3, ContextType DEF ShapeInv
<1>5. core' \in [UEs -> Core]
  <2>1. core[u] \in Core /\ lastAmf \in Nat /\ r.carrier \in {"initial", "uplink", "ngap", "none"}
    BY DEF ShapeInv, Formed, Form
  <2>2. Counted(Heard(core[u], r.carrier, i, a), sec[u].keys, p) \in Core
    BY <2>1, <1>1, <1>2, CoreStays
  <2> QED BY <2>2, <1>3 DEF ShapeInv
<1>6. /\ call' \in [UEs -> SUBSET [req : Formed, amf : Nat]]
      /\ \A v \in UEs : \A w \in call'[v] : call'[v] = {w}
  <2>1. [req |-> r, amf |-> a] \in [req : Formed, amf : Nat]
    OBVIOUS
  <2> QED BY <2>1, <1>3 DEF ShapeInv
<1>7. answer' \in [UEs -> SUBSET Answer] /\ \A v \in UEs : \A x \in answer'[v] : answer'[v] = {x}
  BY <1>3 DEF ShapeInv
<1>8. track' \in [UEs -> [ok : BOOLEAN, at : Nat]] /\ lastAmf' \in Nat
  <2>1. [ok |-> TRUE, at |-> 0] \in [ok : BOOLEAN, at : Nat]
    OBVIOUS
  <2>2. [track EXCEPT ![u] = [ok |-> TRUE, at |-> 0]] \in [UEs -> [ok : BOOLEAN, at : Nat]]
    BY <2>1 DEF ShapeInv
  <2>3. track \in [UEs -> [ok : BOOLEAN, at : Nat]] /\ lastAmf \in Nat
    BY DEF ShapeInv
  <2>4. lastAmf' \in Nat
    BY <2>3, <1>3
  <2> QED BY <2>2, <2>3, <2>4, <1>3
<1>9. QueueInv'
  BY <1>3 DEF ShapeInv, QueueInv
<1> QED BY <1>3, <1>4, <1>5, <1>6, <1>7, <1>8, <1>9 DEF ShapeInv

LEMMA ShapeAuthentication ==
    ASSUME ShapeInv, TunnelInv, NEW u \in UEs, SendAuthenticationResponse(u)
    PROVE  ShapeInv'
<1>1. PICK g \in {rand[u], NoKey}, a \in EffectiveAmfIDs(u, AuthenticationResponse) :
        /\ sec' = [sec EXCEPT ![u].kamf = IF g = NoKey THEN @ ELSE g]
        /\ core' = [core EXCEPT ![u] = [Heard(@, "uplink", ran[u], a) EXCEPT !.res = g]]
        /\ call' = [call EXCEPT ![u] = {[req |-> AuthenticationResponse, amf |-> a]}]
  BY DEF SendAuthenticationResponse
<1>2. /\ g \in Nat /\ a \in Nat /\ ran[u] \in Nat
      /\ answer' = [answer EXCEPT ![u] = {}] /\ UNCHANGED <<amf, rand, lastAmf, frames, track>>
  <2>1. a \in Nat
    BY DEF EffectiveAmfIDs, ShapeInv
  <2> QED BY <2>1 DEF SendAuthenticationResponse, ShapeInv, TunnelInv, RanInv, NoKey
<1>3. sec' \in [UEs -> Context]
  BY <1>1, <1>2 DEF ShapeInv, Context
<1>4. core' \in [UEs -> Core]
  <2>1. core[u] \in Core /\ lastAmf \in Nat
    BY DEF ShapeInv
  <2>2. Heard(core[u], "uplink", ran[u], a) \in Core
    BY <2>1, <1>2, CoreStays DEF Protections
  <2>3. [Heard(core[u], "uplink", ran[u], a) EXCEPT !.res = g] \in Core
    BY <2>2, <1>2 DEF Core
  <2> QED BY <2>3, <1>1 DEF ShapeInv
<1>5. /\ call' \in [UEs -> SUBSET [req : Formed, amf : Nat]]
      /\ \A v \in UEs : \A w \in call'[v] : call'[v] = {w}
  <2>1. [req |-> AuthenticationResponse, amf |-> a] \in [req : Formed, amf : Nat]
    BY <1>2, RequestsFormed
  <2> QED BY <2>1, <1>1 DEF ShapeInv
<1>6. answer' \in [UEs -> SUBSET Answer] /\ \A v \in UEs : \A x \in answer'[v] : answer'[v] = {x}
  BY <1>2 DEF ShapeInv
<1>7. QueueInv'
  BY <1>2 DEF ShapeInv, QueueInv
<1> QED BY <1>2, <1>3, <1>4, <1>5, <1>6, <1>7 DEF ShapeInv

\* What a wait that has found a frame does: w is the wait, f the frame.
Outcome(u, w, f) ==
    LET nas == f.label.nas
        after == IF Unwraps(u, w, nas) THEN AfterDownlink(sec[u], nas) ELSE sec[u]
        prot == IF Acknowledges(u, w, nas) THEN "ciphered" ELSE "plain"
    IN /\ amf' = IF Learns(w, f) THEN [amf EXCEPT ![u] = f.label.amf] ELSE amf
       /\ sec' = [sec EXCEPT ![u] = AfterUplink(after, prot)]
       /\ core' = [core EXCEPT ![u] = Counted(@, after.keys, prot)]
       /\ rand' = IF w.req.stores /\ nas.kind = "challenge" /\ Read(u, w, nas)
                    THEN [rand EXCEPT ![u] = nas.rand] ELSE rand
       /\ track' = IF Unwraps(u, w, nas) THEN [track EXCEPT ![u] = Tracked(u, nas)] ELSE track
       /\ answer' = [answer EXCEPT ![u] =
             {[kind |-> nas.kind, match |-> w.req.match,
               foreign |-> f.label.to # {} /\ u \notin f.label.to,
               agrees |-> after.keys = nas.key,
               mac |-> IF Unwraps(u, w, nas) THEN MACVerified(sec[u], nas) ELSE "absent"]}]
       /\ call' = [call EXCEPT ![u] = {}]
       /\ UNCHANGED <<ran, lastRan, lastAmf>>

\* A wait takes out of its queue a frame that matches.
LEMMA FetchOutcome ==
    ASSUME ShapeInv, NEW u \in UEs, Fetch(u)
    PROVE  \E w \in call[u], t \in MessageTypes : \E m \in 1..Len(frames[t]) :
             /\ frames' = [frames EXCEPT ![t] = RemoveAt(@, m)]
             /\ frames[t][m] \in FrameOf(t) /\ Matches(u, w, frames[t][m].label)
             /\ \A k \in 1..(m - 1) : ~Matches(u, w, frames[t][k].label)
             /\ Outcome(u, w, frames[t][m])
<1>1. PICK w \in call[u] :
        /\ Hits(frames, Wanted(u, w)) # {}
        /\ frames' = Without(frames, Wanted(u, w), FirstHit(frames, Wanted(u, w)))
        /\ Outcome(u, w, FrameAt(frames, Wanted(u, w), FirstHit(frames, Wanted(u, w))))
  BY DEF Fetch, Outcome
<1> DEFINE r == Wanted(u, w)
           p == FirstHit(frames, r)
           t == r.types[p[1]]
           m == p[2]
<1>2. r.types = w.req.waits /\ r.accept = {l \in Downlink : Matches(u, w, l)}
  BY DEF Wanted
<1>3. r.types \in Seq(MessageTypes) /\ QueueInv
  BY <1>2 DEF ShapeInv, Formed, Form
<1> HIDE DEF r
<1>4. /\ t \in MessageTypes /\ m \in 1..Len(frames[t]) /\ FrameAt(frames, r, p).label \in r.accept
      /\ \A k \in 1..(m - 1) : frames[t][k].label \notin r.accept
  <2>1. Hits(frames, r) # {} /\ p = FirstHit(frames, r)
    BY <1>1 DEF r
  <2> HIDE DEF p
  <2> QED BY <2>1, <1>3, SearchHit, Zenon
<1>5. FrameAt(frames, r, p) = frames[t][m] /\ Without(frames, r, p) = [frames EXCEPT ![t] = RemoveAt(@, m)]
  BY DEF FrameAt, Without
<1>6. frames[t][m] \in FrameOf(t)
  <2>1. t \in MessageTypes /\ m \in 1..Len(frames[t])
    BY <1>4
  <2> HIDE DEF t, m
  <2>2. frames[t] \in Seq(FrameOf(t))
    BY <2>1, <1>3 DEF QueueInv
  <2> QED BY <2>1, <2>2
<1>7. Matches(u, w, frames[t][m].label)
  BY <1>2, <1>4, <1>5
<1>8. frames' = [frames EXCEPT ![t] = RemoveAt(@, m)] /\ Outcome(u, w, frames[t][m])
  BY <1>1, <1>5 DEF r
<1>9. t \in MessageTypes /\ m \in 1..Len(frames[t])
  BY <1>4
<1>10. \A k \in 1..(m - 1) : frames[t][k].label \notin r.accept
  BY <1>4
<1> HIDE DEF p, t, m
<1>11. ASSUME NEW k \in 1..(m - 1) PROVE ~Matches(u, w, frames[t][k].label)
  <2>1. k \in DOMAIN frames[t] /\ frames[t][k] \in FrameOf(t)
    BY <1>3, <1>9 DEF QueueInv
  <2>2. frames[t][k].label \in Downlink
    BY <2>1 DEF FrameOf, Label, Genuine, Downlink, APIds, NoId
  <2> QED BY <2>2, <1>2, <1>10
<1> QED BY <1>6, <1>7, <1>8, <1>9, <1>11

LEMMA ShapeFetch ==
    ASSUME ShapeInv, NEW u \in UEs, Fetch(u)
    PROVE  ShapeInv'
<1>1. PICK w \in call[u], t \in MessageTypes : \E m \in 1..Len(frames[t]) :
        /\ frames' = [frames EXCEPT ![t] = RemoveAt(@, m)]
        /\ frames[t][m] \in FrameOf(t) /\ Outcome(u, w, frames[t][m])
  BY FetchOutcome
<1>2. PICK m \in 1..Len(frames[t]) :
        /\ frames' = [frames EXCEPT ![t] = RemoveAt(@, m)]
        /\ frames[t][m] \in FrameOf(t) /\ Outcome(u, w, frames[t][m])
  BY <1>1
<1> DEFINE f == frames[t][m]
           nas == f.label.nas
           after == IF Unwraps(u, w, nas) THEN AfterDownlink(sec[u], nas) ELSE sec[u]
           prot == IF Acknowledges(u, w, nas) THEN "ciphered" ELSE "plain"
<1>3. /\ nas \in NAS /\ f.label.amf \in APIds /\ w.req \in Form
      /\ sec[u] \in Context /\ core[u] \in Core /\ prot \in Protections
  BY <1>2 DEF FrameOf, Label, Genuine, ShapeInv, Formed, Protections
<1>4. after \in Context /\ after.keys \in Nat
  BY <1>3, ContextType DEF Context
<1>5. /\ amf' \in {amf, [amf EXCEPT ![u] = f.label.amf]}
      /\ amf' = [amf EXCEPT ![u] = f.label.amf] => f.label.amf # NoId \/ amf' = amf
      /\ sec' = [sec EXCEPT ![u] = AfterUplink(after, prot)]
      /\ core' = [core EXCEPT ![u] = Counted(@, after.keys, prot)]
      /\ rand' \in {rand, [rand EXCEPT ![u] = nas.rand]}
      /\ track' \in {track, [track EXCEPT ![u] = Tracked(u, nas)]}
      /\ call' = [call EXCEPT ![u] = {}] /\ lastAmf' = lastAmf
  BY <1>2 DEF Outcome, Learns
<1>6. answer' = [answer EXCEPT ![u] =
         {[kind |-> nas.kind, match |-> w.req.match,
           foreign |-> f.label.to # {} /\ u \notin f.label.to,
           agrees |-> after.keys = nas.key,
           mac |-> IF Unwraps(u, w, nas) THEN MACVerified(sec[u], nas) ELSE "absent"]}]
  BY <1>2 DEF Outcome
<1> HIDE DEF f, nas, after, prot
<1>7. sec' \in [UEs -> Context]
  BY <1>3, <1>4, <1>5, ContextType DEF ShapeInv
<1>8. core' \in [UEs -> Core]
  <2>1. Counted(core[u], after.keys, prot) \in Core
    BY <1>3, <1>4, CoreStays DEF ShapeInv
  <2> QED BY <2>1, <1>5 DEF ShapeInv
<1>9. amf' \in [UEs -> Nat] /\ rand' \in [UEs -> Nat]
  <2>1. amf \in [UEs -> Nat] /\ rand \in [UEs -> Nat]
    BY DEF ShapeInv
  <2>2. nas.rand \in Nat /\ (f.label.amf # NoId => f.label.amf \in Nat)
    BY <1>3 DEF NAS, APIds
  <2> QED BY <2>1, <2>2, <1>5
<1>10. track' \in [UEs -> [ok : BOOLEAN, at : Nat]]
  <2>1. Tracked(u, nas) \in [ok : BOOLEAN, at : Nat]
    <3>1. nas.count \in Nat /\ track[u] \in [ok : BOOLEAN, at : Nat]
      BY <1>3 DEF NAS, ShapeInv
    <3> QED BY <3>1 DEF Tracked
  <2>2. track \in [UEs -> [ok : BOOLEAN, at : Nat]]
    BY DEF ShapeInv
  <2>3. [track EXCEPT ![u] = Tracked(u, nas)] \in [UEs -> [ok : BOOLEAN, at : Nat]]
    BY <2>1, <2>2
  <2> QED BY <2>2, <2>3, <1>5
<1>11. answer' \in [UEs -> SUBSET Answer] /\ \A v \in UEs : \A x \in answer'[v] : answer'[v] = {x}
  <2> DEFINE x == [kind |-> nas.kind, match |-> w.req.match,
                   foreign |-> f.label.to # {} /\ u \notin f.label.to,
                   agrees |-> after.keys = nas.key,
                   mac |-> IF Unwraps(u, w, nas) THEN MACVerified(sec[u], nas) ELSE "absent"]
  <2>1. nas.kind \in {"none", "challenge", "command", "confirm", "other"}
    BY <1>3 DEF NAS
  <2>2. w.req.match \in {"ids", "ran", "any"}
    BY <1>3 DEF Form
  <2>3. (IF Unwraps(u, w, nas) THEN MACVerified(sec[u], nas) ELSE "absent") \in {"absent", "true", "false"}
    BY DEF MACVerified
  <2>4. x \in Answer
    BY <2>1, <2>2, <2>3 DEF Answer
  <2> HIDE DEF x
  <2>5. answer' = [answer EXCEPT ![u] = {x}]
    BY <1>6 DEF x
  <2> QED BY <2>4, <2>5 DEF ShapeInv
<1>12. /\ call' \in [UEs -> SUBSET [req : Formed, amf : Nat]]
       /\ \A v \in UEs : \A z \in call'[v] : call'[v] = {z}
  BY <1>5 DEF ShapeInv
<1>13. QueueInv'
  BY <1>2, RemoveFrame DEF ShapeInv
<1> QED BY <1>5, <1>7, <1>8, <1>9, <1>10, <1>11, <1>12, <1>13 DEF ShapeInv

\* What the AMF files of a message, and for whom
LEMMA AMFFiles ==
    ASSUME ShapeInv, NEW u \in UEs, NEW t \in MessageTypes, NEW r \in APIds, NEW a \in APIds,
           t = Page => r = NoId /\ a = NoId, NEW nas \in Genuine, AMFSends(u, t, r, a, nas)
    PROVE  \E n \in {nas, NoNAS} :
             LET l == [to |-> IF r = NoId /\ a = NoId THEN {} ELSE {u}, ran |-> r, amf |-> a, nas |-> n]
             IN l \in Label /\ frames' = File(frames, [type |-> t, label |-> l])
<1> DEFINE to == IF r = NoId /\ a = NoId THEN {} ELSE {u}
<1>1. PICK n \in {nas, NoNAS} :
        Filed(PDU(t, r, a, nas), to) =
          [type |-> t, label |-> [to |-> to, ran |-> r, amf |-> a, nas |-> n]]
  <2>1. nas \in NAS
    BY DEF Genuine
  <2> QED BY <2>1, FiledAs
<1>2. frames' = File(frames, Filed(PDU(t, r, a, nas), to))
  BY DEF AMFSends
<1>3. to \in SUBSET UEs /\ n \in Genuine
  BY DEF NoNAS, Genuine, NAS, Protections, NoKey
<1>4. [to |-> to, ran |-> r, amf |-> a, nas |-> n] \in Label
  BY <1>3 DEF Label
<1> QED BY <1>1, <1>2, <1>4

LEMMA ShapeAMFSends ==
    ASSUME ShapeInv, NEW u \in UEs, NEW t \in MessageTypes, NEW r \in APIds, NEW a \in APIds,
           t = Page => r = NoId /\ a = NoId, NEW nas \in Genuine, AMFSends(u, t, r, a, nas),
           core' \in [UEs -> Core]
    PROVE  ShapeInv'
<1>1. UNCHANGED <<sec, amf, rand, call, answer, lastAmf, track>>
  BY DEF AMFSends
<1>2. QueueInv'
  <2>1. PICK l \in Label : frames' = File(frames, [type |-> t, label |-> l])
    BY AMFFiles
  <2> QED BY <2>1, FileFrame DEF ShapeInv
<1> QED BY <1>1, <1>2 DEF ShapeInv

\* x is what the AMF has of a UE after a step that found c.
Keeps(c, x) == x \in Core /\ x.amf = c.amf /\ x.echo = c.echo /\ x.ran \in {c.ran, 0}

LEMMA CoreFields ==
    \A c \in Core, n \in Nat, k \in Nat :
      /\ Keeps(c, [c EXCEPT !.chal = n])
      /\ Keeps(c, [c EXCEPT !.chal = n, !.dl = @ + 1])
      /\ Keeps(c, [c EXCEPT !.key = n, !.dl = k + 1, !.secured = FALSE, !.again = FALSE])
      /\ Keeps(c, [c EXCEPT !.dl = @ + 1])
      /\ Keeps(c, [c EXCEPT !.ran = 0])
<1> SUFFICES ASSUME NEW c \in Core, NEW n \in Nat, NEW k \in Nat
             PROVE  /\ Keeps(c, [c EXCEPT !.chal = n])
                    /\ Keeps(c, [c EXCEPT !.chal = n, !.dl = @ + 1])
                    /\ Keeps(c, [c EXCEPT !.key = n, !.dl = k + 1, !.secured = FALSE, !.again = FALSE])
                    /\ Keeps(c, [c EXCEPT !.dl = @ + 1])
                    /\ Keeps(c, [c EXCEPT !.ran = 0])
  OBVIOUS
<1>1. c.dl + 1 \in Nat /\ k + 1 \in Nat
  BY DEF Core
<1>2. Keeps(c, [c EXCEPT !.chal = n])
  BY DEF Core, Keeps
<1>3. Keeps(c, [c EXCEPT !.chal = n, !.dl = @ + 1])
  BY <1>1 DEF Core, Keeps
<1>4. Keeps(c, [c EXCEPT !.key = n, !.dl = k + 1, !.secured = FALSE, !.again = FALSE])
  BY <1>1 DEF Core, Keeps
<1>5. Keeps(c, [c EXCEPT !.dl = @ + 1])
  BY <1>1 DEF Core, Keeps
<1>6. Keeps(c, [c EXCEPT !.ran = 0])
  BY DEF Core, Keeps
<1> QED BY <1>2, <1>3, <1>4, <1>5, <1>6

\* A step of the AMF changes what it has of one UE, and none of its ids but to
\* release the connection.
LEMMA CoreUpdate ==
    ASSUME ShapeInv, NEW u \in UEs, NEW c, Keeps(core[u], c), core' = [core EXCEPT ![u] = c]
    PROVE  /\ core' \in [UEs -> Core]
           /\ \A v \in UEs : core'[v].amf = core[v].amf /\ core'[v].echo = core[v].echo
           /\ \A v \in UEs : core'[v].ran \in {core[v].ran, 0}
BY DEF ShapeInv, Keeps

\* What the AMF sends when: t, r, a and nas of each of its steps
LEMMA AMFCases ==
    ASSUME ShapeInv, NEW u \in UEs, AMFStep(u)
    PROVE  /\ core' \in [UEs -> Core]
           /\ \E t \in MessageTypes, r \in APIds, a \in APIds, nas \in Genuine :
                /\ t = Page => r = NoId /\ a = NoId
                /\ AMFSends(u, t, r, a, nas)
                /\ \/ a = core[u].amf /\ r \in {core[u].ran, NoId}
                   \/ <<r, a>> \in {core[u].echo, <<NoId, NoId>>}
           /\ \A v \in UEs : core'[v].amf = core[v].amf /\ core'[v].echo = core[v].echo
           /\ \A v \in UEs : core'[v].ran \in {core[v].ran, 0}
<1> USE DEF MessageTypes, NASBearers
<1>1. /\ core[u] \in Core /\ core[u].ran \in APIds /\ core[u].amf \in APIds
      /\ core[u].echo[1] \in APIds /\ core[u].echo[2] \in APIds
      /\ core[u].echo = <<core[u].echo[1], core[u].echo[2]>>
      /\ core[u].key \in Nat /\ core[u].dl \in Nat /\ core[u].chal \in Nat
  <2>1. core[u] \in Core
    BY DEF ShapeInv
  <2>2. core[u].echo \in APIds \X APIds
    BY <2>1 DEF Core
  <2> QED BY <2>1, <2>2 DEF Core, APIds
<1>2. NoNAS \in Genuine /\ NoId \in APIds
  BY DEF NoNAS, Genuine, NAS, Protections, NoKey, APIds
<1>3. \A k \in {"challenge", "other", "confirm"}, g \in Nat : Protected(u, k, g) \in Genuine
  BY <1>1 DEF Protected, Genuine, NAS, Protections
<1>4. CASE AMFChallenges(u)
  <2> DEFINE g == core[u].chal + 1
             plain == [NoNAS EXCEPT !.kind = "challenge", !.rand = g]
  <2>1. g \in Nat /\ plain \in Genuine
    <3>1. g \in Nat
      BY <1>1
    <3> HIDE DEF g
    <3> QED BY <3>1 DEF NoNAS, Genuine, NAS, Protections, NoKey
  <2>2. \/ /\ AMFSends(u, Dnt, core[u].ran, core[u].amf, plain)
           /\ core' = [core EXCEPT ![u] = [core[u] EXCEPT !.chal = g]]
        \/ /\ AMFSends(u, Dnt, core[u].ran, core[u].amf, Protected(u, "challenge", g))
           /\ core' = [core EXCEPT ![u] = [core[u] EXCEPT !.chal = g, !.dl = @ + 1]]
    BY <1>4 DEF AMFChallenges, ShapeInv
  <2> HIDE DEF g, plain
  <2>3. PICK nas \in Genuine : AMFSends(u, Dnt, core[u].ran, core[u].amf, nas)
    BY <2>1, <2>2, <1>3
  <2>4. PICK c : Keeps(core[u], c) /\ core' = [core EXCEPT ![u] = c]
    BY <2>1, <2>2, <1>1, CoreFields
  <2> QED BY <2>3, <2>4, <1>1, CoreUpdate DEF Dnt, Page
<1>5. CASE AMFCommands(u)
  <2> DEFINE count == IF core[u].key = core[u].chal THEN core[u].dl ELSE 0
             nas == [NoNAS EXCEPT !.kind = "command", !.prot = "new",
                                  !.key = core[u].chal, !.count = count]
  <2>1. count \in Nat /\ nas \in Genuine
    BY <1>1 DEF NoNAS, Genuine, NAS, Protections, NoKey
  <2>2. /\ AMFSends(u, Dnt, core[u].ran, core[u].amf, nas)
        /\ core' = [core EXCEPT ![u] = [core[u] EXCEPT !.key = core[u].chal, !.dl = count + 1,
                                                       !.secured = FALSE, !.again = FALSE]]
    BY <1>5 DEF AMFCommands, ShapeInv
  <2> HIDE DEF count, nas
  <2>3. PICK c : Keeps(core[u], c) /\ core' = [core EXCEPT ![u] = c]
    BY <2>1, <2>2, <1>1, CoreFields
  <2> QED BY <2>1, <2>2, <2>3, <1>1, CoreUpdate DEF Dnt, Page
<1>6. ASSUME NEW t \in NASBearers, NEW k \in {"other", "confirm"}, AMFInforms(u, t, k)
      PROVE  /\ core' \in [UEs -> Core]
             /\ AMFSends(u, t, core[u].ran, core[u].amf, Protected(u, k, NoKey))
             /\ Protected(u, k, NoKey) \in Genuine /\ t # Page
             /\ \A v \in UEs : core'[v].amf = core[v].amf /\ core'[v].echo = core[v].echo
             /\ \A v \in UEs : core'[v].ran \in {core[v].ran, 0}
  <2>1. /\ AMFSends(u, t, core[u].ran, core[u].amf, Protected(u, k, NoKey))
        /\ core' = [core EXCEPT ![u] = [core[u] EXCEPT !.dl = @ + 1]]
    BY <1>6 DEF AMFInforms, ShapeInv
  <2>2. Protected(u, k, NoKey) \in Genuine
    BY <1>3 DEF NoKey
  <2>3. t # Page
    BY DEF Page, Dnt, Ics, Setup, Modify, Drop
  <2>4. PICK c : Keeps(core[u], c) /\ core' = [core EXCEPT ![u] = c]
    BY <2>1, <1>1, CoreFields
  <2> QED BY <2>1, <2>2, <2>3, <2>4, CoreUpdate
<1>7. CASE AMFReleases(u)
  <2>1. PICK r \in {core[u].ran, NoId} : AMFSends(u, Release, r, core[u].amf, NoNAS)
    BY <1>7 DEF AMFReleases
  <2>2. core' = [core EXCEPT ![u] = [core[u] EXCEPT !.ran = 0]]
    BY <1>7 DEF AMFReleases, ShapeInv
  <2>3. PICK c : Keeps(core[u], c) /\ core' = [core EXCEPT ![u] = c]
    BY <2>2, <1>1, CoreFields
  <2> QED BY <2>1, <2>3, <1>1, <1>2, CoreUpdate DEF Release, Page
<1>8. CASE AMFHandsOver(u)
  <2>1. PICK t \in HandoverTypes : AMFSends(u, t, core[u].ran, core[u].amf, NoNAS)
    BY <1>8 DEF AMFHandsOver
  <2>2. core' = core
    BY <1>8 DEF AMFHandsOver
  <2>3. t # Page
    BY DEF HandoverTypes, CancelAck, Command, NotPrepared, Status, Page
  <2> QED BY <2>1, <2>2, <2>3, <1>1, <1>2 DEF ShapeInv
<1>9. CASE AMFPages(u)
  BY <1>9, <1>2 DEF AMFPages, ShapeInv
<1>10. CASE AMFErrs(u)
  <2>1. PICK r \in APIds, a \in APIds :
          AMFSends(u, Err, r, a, NoNAS) /\ <<r, a>> \in {core[u].echo, <<NoId, NoId>>}
    BY <1>10, <1>1, <1>2 DEF AMFErrs
  <2>2. core' = core /\ Err # Page
    BY <1>10 DEF AMFErrs, Err, Page
  <2> QED BY <2>1, <2>2, <1>2 DEF ShapeInv
<1>11. ASSUME NEW t \in NASBearers, NEW k \in {"other", "confirm"}, AMFInforms(u, t, k)
       PROVE  \E s \in MessageTypes, r \in APIds, a \in APIds, nas \in Genuine :
                /\ s = Page => r = NoId /\ a = NoId
                /\ AMFSends(u, s, r, a, nas)
                /\ a = core[u].amf /\ r \in {core[u].ran, NoId}
  BY <1>6, <1>11, <1>1
<1> HIDE DEF MessageTypes
<1> QED BY <1>4, <1>5, <1>6, <1>7, <1>8, <1>9, <1>10, <1>11 DEF AMFStep

\* A gNB-level wait takes the first frame of a type.
LEMMA TailFrame ==
    ASSUME QueueInv, NEW t \in MessageTypes, frames[t] # <<>>,
           frames' = [frames EXCEPT ![t] = Tail(@)]
    PROVE  /\ QueueInv'
           /\ \A s \in MessageTypes \ {t} : frames'[s] = frames[s]
           /\ \A i \in DOMAIN frames'[t] :
                Shift(i, 1) \in DOMAIN frames[t] /\ frames'[t][i] = frames[t][Shift(i, 1)]
<1> DEFINE q == frames[t]
<1>1. q \in Seq(FrameOf(t)) /\ q # <<>>
  BY DEF QueueInv
<1>2. /\ frames' = [s \in MessageTypes |-> frames'[s]]
      /\ frames'[t] = Tail(q) /\ \A s \in MessageTypes \ {t} : frames'[s] = frames[s]
  BY DEF QueueInv
<1> HIDE DEF q
<1>3. /\ Tail(q) \in Seq(FrameOf(t)) /\ Len(q) \in Nat /\ DOMAIN q = 1..Len(q)
      /\ DOMAIN Tail(q) = 1..(Len(q) - 1) /\ \A i \in 1..(Len(q) - 1) : Tail(q)[i] = q[i + 1]
  BY <1>1
<1>4. ASSUME NEW i \in DOMAIN Tail(q) PROVE Shift(i, 1) \in DOMAIN q /\ Tail(q)[i] = q[Shift(i, 1)]
  <2>1. i + 1 \in DOMAIN q /\ Tail(q)[i] = q[i + 1] /\ Shift(i, 1) = i + 1
    BY <1>3 DEF Shift
  <2> QED BY <2>1
<1>5. QueueInv'
  BY <1>2, <1>3 DEF QueueInv
<1> QED BY <1>2, <1>4, <1>5 DEF q

\* The AP ids of a request that sends are AP ids.
LEMMA SentUnder ==
    ASSUME ShapeInv, TunnelInv, NEW u \in UEs
    PROVE  /\ ran[u] \in Nat /\ AllocateRANUENGAPID \in Nat /\ amf[u] \in Nat
           /\ \A r : EffectiveAmfIDs(u, r) \subseteq Nat
BY DEF ShapeInv, TunnelInv, RanInv, AllocateRANUENGAPID, EffectiveAmfIDs

LEMMA ShapeStep == TunnelInv /\ ShapeInv /\ [Next]_vars => ShapeInv'
<1> SUFFICES ASSUME TunnelInv, ShapeInv, [Next]_vars PROVE ShapeInv'
  OBVIOUS
<1>1. ASSUME NEW u \in UEs, NEW r \in Used, Send(u, r) PROVE ShapeInv'
  BY <1>1, SentUnder, ShapeEmit, RequestsFormed, Constants DEF Send
<1>2. ASSUME NEW u \in UEs, SendAuthenticationResponse(u) PROVE ShapeInv'
  BY <1>2, ShapeAuthentication
<1>3. ASSUME NEW u \in UEs, NEW r \in {ServiceRequest, Raw(ServiceRequest)}, SendServiceRequest(u, r)
      PROVE  ShapeInv'
  BY <1>3, SentUnder, ShapeEmit, RequestsFormed DEF SendServiceRequest
<1>4. ASSUME NEW u \in UEs, NEW r \in {RegistrationRequest, MobilityUpdate}, Reestablish(u, r)
      PROVE  ShapeInv'
  BY <1>4, SentUnder, ShapeEmit, RequestsFormed DEF Reestablish
<1>5. ASSUME NEW u \in UEs, Fetch(u) PROVE ShapeInv'
  BY <1>5, ShapeFetch
<1>6. ASSUME NEW u \in UEs, TimeOut(u) PROVE ShapeInv'
  <2>1. /\ call' = [call EXCEPT ![u] = {}]
        /\ UNCHANGED <<sec, amf, rand, answer, frames, core, lastAmf, track>>
    BY <1>6 DEF TimeOut
  <2>2. QueueInv'
    BY <2>1 DEF ShapeInv, QueueInv
  <2> QED BY <2>1, <2>2 DEF ShapeInv
<1>7. ASSUME NEW u \in UEs, AMFStep(u) PROVE ShapeInv'
  BY <1>7, AMFCases, ShapeAMFSends
<1>8. ASSUME NEW t \in MessageTypes, AwaitGNBMessage(t) PROVE ShapeInv'
  <2>1. UNCHANGED <<sec, amf, rand, call, answer, core, lastAmf, track>>
    BY <1>8 DEF AwaitGNBMessage
  <2>2. QueueInv'
    BY <1>8, TailFrame DEF AwaitGNBMessage, ShapeInv
  <2> QED BY <2>1, <2>2 DEF ShapeInv
<1>9. CASE UNCHANGED vars
  BY <1>9 DEF vars, ShapeInv, QueueInv
<1> QED BY <1>1, <1>2, <1>3, <1>4, <1>5, <1>6, <1>7, <1>8, <1>9 DEF Next, UEStep

LEMMA Shaped == Spec => [](TunnelInv /\ ShapeInv)
<1>1. Init => TunnelInv /\ ShapeInv
  BY TunnelInit, ShapeInit
<1>2. (TunnelInv /\ ShapeInv) /\ [Next]_vars => (TunnelInv /\ ShapeInv)'
  BY TunnelStep, ShapeStep
<1> QED BY <1>1, <1>2, PTL DEF Spec

\* UE contexts, queues and answers keep their shape, with forged ids too: ids,
\* COUNTs and keys are numbers, an AMF id that is kept is never nil, and what the
\* decoder makes of a PDU is queued under its type.
THEOREM TypeCorrect == Spec => []TypeOK
<1>1. TunnelInv /\ ShapeInv => TypeOK
  <2> SUFFICES ASSUME TunnelInv, ShapeInv PROVE TypeOK
    OBVIOUS
  <2>1. ASSUME NEW t \in MessageTypes, NEW i \in DOMAIN frames[t]
        PROVE  frames[t][i].type = t /\ frames[t][i].label \in Downlink
    <3>1. frames[t] \in Seq(FrameOf(t)) /\ frames[t][i] \in FrameOf(t)
      BY DEF ShapeInv, QueueInv
    <3>2. frames[t][i].type = t /\ frames[t][i].label \in Label
      BY <3>1 DEF FrameOf
    <3>3. Label \subseteq Downlink
      BY DEF Label, Genuine, Downlink, APIds, NoId
    <3> QED BY <3>2, <3>3
  <2>2. \A u \in UEs : \A w \in call[u] : call[u] = {w} /\ w.amf \in Nat
    BY DEF ShapeInv
  <2>3. \A u \in UEs : \A x \in answer[u] : answer[u] = {x} /\ x \in Answer
    BY DEF ShapeInv
  <2> QED BY <2>1, <2>2, <2>3 DEF TypeOK, ShapeInv, TunnelInv, RanInv, TeidInv
<1> QED BY <1>1, Shaped, PTL

(***************************************************************************)
(* The DL COUNT                                                            *)
(***************************************************************************)

\* Uplinks leave the DL COUNT alone, but for the one that starts both over.
LEMMA UplinkCounts ==
    \A s \in Context :
      /\ \A p \in Protections \ {"new"} : AfterUplink(s, p).dl = s.dl
      /\ AfterUplink(s, "new").dl = 0
<1> SUFFICES ASSUME NEW s \in Context
             PROVE  /\ \A p \in Protections \ {"new"} : AfterUplink(s, p).dl = s.dl
                    /\ AfterUplink(s, "new").dl = 0
  OBVIOUS
<1>1. \A p \in Protections \ {"new"} : AfterUplink(s, p).dl = s.dl
  BY DEF AfterUplink, NextUL, Rewound, Protections, Context
<1>2. Rewound(s, "new") \in Context /\ Rewound(s, "new").dl = 0
  BY DEF Rewound, Context
<1>3. AfterUplink(s, "new").dl = 0
  BY <1>2 DEF AfterUplink, NextUL, Context
<1> QED BY <1>1, <1>3

\* A downlink in step, protected under the keys in place, is given the COUNT it
\* was sent with, and verifies.
LEMMA InStepDownlink ==
    ASSUME NEW s \in Context, NEW n \in NAS, n.prot \notin {"plain", "new"},
           n.key = s.keys, n.count \in s.dl .. s.dl + Octet - 1
    PROVE  AfterDownlink(s, n).dl = n.count /\ MACVerified(s, n) # "false"
<1>1. EstimateDL(s.dl, n.count % Octet) = n.count
  BY CountRecovered DEF Context
<1>2. AfterDownlink(s, n) = [s EXCEPT !.dl = n.count] /\ NextDL(s, n.count % Octet).dl = n.count
  BY <1>1 DEF AfterDownlink, NextDL, Context
<1>3. AfterDownlink(s, n).dl = n.count /\ AfterDownlink(s, n).keys = s.keys
  BY <1>2 DEF Context
<1> QED BY <1>2, <1>3 DEF MACVerified

\* One UE's part of InStepDownlinksVerify
InStep(u) ==
    track[u].ok =>
        /\ sec[u].dl = track[u].at
        /\ \A x \in answer[u] : x.kind # "command" => x.mac # "false"

LEMMA InStepFetch ==
    ASSUME ShapeInv, NEW u \in UEs, InStep(u), Fetch(u)
    PROVE  InStep(u)'
<1>1. PICK w \in call[u], t \in MessageTypes : \E m \in 1..Len(frames[t]) :
        frames[t][m] \in FrameOf(t) /\ Outcome(u, w, frames[t][m])
  BY FetchOutcome
<1>2. PICK m \in 1..Len(frames[t]) : frames[t][m] \in FrameOf(t) /\ Outcome(u, w, frames[t][m])
  BY <1>1
<1> DEFINE f == frames[t][m]
           nas == f.label.nas
           after == IF Unwraps(u, w, nas) THEN AfterDownlink(sec[u], nas) ELSE sec[u]
           prot == IF Acknowledges(u, w, nas) THEN "ciphered" ELSE "plain"
           mac == IF Unwraps(u, w, nas) THEN MACVerified(sec[u], nas) ELSE "absent"
<1>3. nas \in Genuine /\ nas \in NAS /\ sec[u] \in Context /\ track[u] \in [ok : BOOLEAN, at : Nat]
  BY <1>2 DEF FrameOf, Label, Genuine, ShapeInv
<1>4. after \in Context /\ prot \in Protections \ {"new"}
  BY <1>3, ContextType DEF Protections
<1>5. sec'[u] = AfterUplink(after, prot) /\ (\A x \in answer'[u] : x.kind = nas.kind /\ x.mac = mac)
      /\ track'[u] = IF Unwraps(u, w, nas) THEN Tracked(u, nas) ELSE track[u]
  <2>1. /\ sec' = [sec EXCEPT ![u] = AfterUplink(after, prot)]
        /\ track' = IF Unwraps(u, w, nas) THEN [track EXCEPT ![u] = Tracked(u, nas)] ELSE track
        /\ answer' = [answer EXCEPT ![u] =
             {[kind |-> nas.kind, match |-> w.req.match,
               foreign |-> f.label.to # {} /\ u \notin f.label.to,
               agrees |-> after.keys = nas.key, mac |-> mac]}]
    BY <1>2 DEF Outcome
  <2> HIDE DEF f, nas, after, prot, mac
  <2> QED BY <2>1 DEF ShapeInv
<1>6. sec'[u].dl = after.dl
  BY <1>4, <1>5, UplinkCounts
<1> HIDE DEF f, nas, prot
<1>7. CASE ~Unwraps(u, w, nas) \/ nas.prot = "plain"
  <2>1. after = sec[u] /\ mac = "absent" /\ track'[u] = track[u]
    BY <1>5, <1>7 DEF AfterDownlink, MACVerified, Tracked
  <2> QED BY <2>1, <1>5, <1>6 DEF InStep
<1>8. CASE Unwraps(u, w, nas) /\ nas.prot = "new"
  <2>1. track'[u].at = 0 /\ nas.kind = "command"
    BY <1>3, <1>5, <1>8 DEF Tracked, Genuine
  <2>2. NextDL(sec[u], nas.count % Octet) \in Context
    <3>1. EstimateDL(sec[u].dl, nas.count % Octet) \in Nat
      BY <1>3, EstimateType DEF Context, NAS
    <3> QED BY <3>1, <1>3 DEF NextDL, Context
  <2>3. after.dl = 0
    BY <2>2, <1>8 DEF AfterDownlink, Establish, Context
  <2> QED BY <2>1, <2>3, <1>5, <1>6 DEF InStep
<1>9. CASE Unwraps(u, w, nas) /\ nas.prot \notin {"plain", "new"}
  <2> SUFFICES ASSUME track'[u].ok
               PROVE  /\ sec'[u].dl = track'[u].at
                      /\ \A x \in answer'[u] : x.kind # "command" => x.mac # "false"
    BY DEF InStep
  <2>1. /\ track[u].ok /\ nas.key = sec[u].keys /\ track'[u].at = nas.count
        /\ nas.count \in track[u].at .. track[u].at + Octet - 1
    BY <1>5, <1>9 DEF Tracked
  <2>2. sec[u].dl = track[u].at
    BY <2>1 DEF InStep
  <2>3. AfterDownlink(sec[u], nas).dl = nas.count /\ MACVerified(sec[u], nas) # "false"
    BY <2>1, <2>2, <1>3, <1>9, InStepDownlink
  <2> QED BY <2>1, <2>3, <1>5, <1>6, <1>9
<1> QED BY <1>7, <1>8, <1>9

LEMMA InStepEmit ==
    ASSUME ShapeInv, NEW u \in UEs, NEW r \in Formed, NEW i, NEW a, InStep(u), Emit(u, r, i, a)
    PROVE  InStep(u)'
<1> DEFINE p == Protection(u, r)
<1>1. p \in Protections /\ sec[u] \in Context
  BY DEF Protection, Protections, Formed, Form, ShapeInv
<1>2. /\ sec'[u] = AfterUplink(sec[u], p) /\ answer'[u] = {}
      /\ track'[u] = IF p = "new" THEN [ok |-> TRUE, at |-> 0] ELSE track[u]
  BY DEF Emit, ShapeInv
<1> HIDE DEF p
<1>3. CASE p = "new"
  BY <1>1, <1>2, <1>3, UplinkCounts DEF InStep
<1>4. CASE p # "new"
  BY <1>1, <1>2, <1>4, UplinkCounts DEF InStep
<1> QED BY <1>3, <1>4

\* What a request of one UE does is that UE's alone.
LEMMA Untouched ==
    ASSUME ShapeInv, NEW u \in UEs, UEStep(u) \/ AMFStep(u), NEW v \in UEs, v # u
    PROVE  /\ sec'[v] = sec[v] /\ ran'[v] = ran[v] /\ amf'[v] = amf[v] /\ rand'[v] = rand[v]
           /\ call'[v] = call[v] /\ answer'[v] = answer[v] /\ track'[v] = track[v]
<1>1. ASSUME NEW r, NEW i, NEW a, Emit(u, r, i, a)
      PROVE  /\ sec'[v] = sec[v] /\ amf'[v] = amf[v] /\ rand'[v] = rand[v]
             /\ call'[v] = call[v] /\ answer'[v] = answer[v] /\ track'[v] = track[v]
  BY <1>1 DEF Emit, ShapeInv
<1>2. ASSUME NEW r, Send(u, r) \/ Reestablish(u, r)
      PROVE  /\ sec'[v] = sec[v] /\ ran'[v] = ran[v] /\ amf'[v] = amf[v] /\ rand'[v] = rand[v]
             /\ call'[v] = call[v] /\ answer'[v] = answer[v] /\ track'[v] = track[v]
  BY <1>1, <1>2 DEF Send, Reestablish
<1>3. ASSUME NEW r, SendServiceRequest(u, r)
      PROVE  /\ sec'[v] = sec[v] /\ ran'[v] = ran[v] /\ amf'[v] = amf[v] /\ rand'[v] = rand[v]
             /\ call'[v] = call[v] /\ answer'[v] = answer[v] /\ track'[v] = track[v]
  BY <1>1, <1>3 DEF SendServiceRequest
<1>4. CASE SendAuthenticationResponse(u)
  BY <1>4 DEF SendAuthenticationResponse, ShapeInv
<1>5. CASE Fetch(u)
  <2>1. PICK w \in call[u], t \in MessageTypes : \E m \in 1..Len(frames[t]) : Outcome(u, w, frames[t][m])
    BY <1>5, FetchOutcome
  <2>2. PICK f : Outcome(u, w, f)
    BY <2>1
  <2> QED BY <2>2 DEF Outcome, ShapeInv
<1>6. CASE TimeOut(u)
  BY <1>6 DEF TimeOut, ShapeInv
<1>7. CASE AMFStep(u)
  <2>1. PICK t, r, a, nas : AMFSends(u, t, r, a, nas)
    BY <1>7, AMFCases
  <2> QED BY <2>1 DEF AMFSends
<1> QED BY <1>2, <1>3, <1>4, <1>5, <1>6, <1>7 DEF UEStep

LEMMA InStepStep ==
    TunnelInv /\ ShapeInv /\ InStepDownlinksVerify /\ [Next]_vars => InStepDownlinksVerify'
<1> SUFFICES ASSUME TunnelInv, ShapeInv, \A u \in UEs : InStep(u), [Next]_vars
             PROVE  \A u \in UEs : InStep(u)'
  BY DEF InStepDownlinksVerify, InStep
<1>1. ASSUME NEW u \in UEs, UEStep(u) \/ AMFStep(u), NEW v \in UEs, v # u PROVE InStep(v)'
  BY <1>1, Untouched DEF InStep
<1>2. ASSUME NEW u \in UEs, NEW r \in Used, Send(u, r) PROVE InStep(u)'
  BY <1>2, InStepEmit, RequestsFormed, Constants DEF Send
<1>3. ASSUME NEW u \in UEs, SendAuthenticationResponse(u) PROVE InStep(u)'
  <2>1. sec[u] \in Context
    BY DEF ShapeInv
  <2>2. PICK g : sec' = [sec EXCEPT ![u].kamf = IF g = NoKey THEN @ ELSE g]
    BY <1>3 DEF SendAuthenticationResponse
  <2>3. sec'[u].dl = sec[u].dl
    BY <2>1, <2>2 DEF Context, ShapeInv
  <2>4. answer'[u] = {} /\ track'[u] = track[u]
    BY <1>3 DEF SendAuthenticationResponse, ShapeInv
  <2> QED BY <2>3, <2>4 DEF InStep
<1>4. ASSUME NEW u \in UEs, NEW r \in {ServiceRequest, Raw(ServiceRequest)}, SendServiceRequest(u, r)
      PROVE  InStep(u)'
  BY <1>4, InStepEmit, RequestsFormed DEF SendServiceRequest
<1>5. ASSUME NEW u \in UEs, NEW r \in {RegistrationRequest, MobilityUpdate}, Reestablish(u, r)
      PROVE  InStep(u)'
  BY <1>5, InStepEmit, RequestsFormed DEF Reestablish
<1>6. ASSUME NEW u \in UEs, Fetch(u) PROVE InStep(u)'
  BY <1>6, InStepFetch
<1>7. ASSUME NEW u \in UEs, TimeOut(u) PROVE InStep(u)'
  BY <1>7 DEF TimeOut, InStep
<1>8. ASSUME NEW u \in UEs, AMFStep(u) PROVE InStep(u)'
  <2>1. PICK t, r, a, nas : AMFSends(u, t, r, a, nas)
    BY <1>8, AMFCases
  <2> QED BY <2>1 DEF AMFSends, InStep
<1>9. ASSUME NEW t \in MessageTypes, AwaitGNBMessage(t) PROVE \A u \in UEs : InStep(u)'
  BY <1>9 DEF AwaitGNBMessage, InStep
<1>10. CASE UNCHANGED vars
  BY <1>10 DEF vars, InStep
<1> QED BY <1>1, <1>2, <1>3, <1>4, <1>5, <1>6, <1>7, <1>8, <1>9, <1>10 DEF Next, UEStep

\* While a UE fetches its protected downlinks in the order they were sent, fewer
\* than an octet's worth apart, NextDL has the AMF's COUNT and every MAC but
\* that of a SECURITY MODE COMMAND verifies: for any number of UEs, with forged ids, late answers and timeouts, and for any
\* width of the octet that is on the wire.
THEOREM DownlinksVerify == Spec => []InStepDownlinksVerify
<1>1. Init => InStepDownlinksVerify
  BY DEF Init, InStepDownlinksVerify
<1>2. TunnelInv /\ ShapeInv /\ InStepDownlinksVerify /\ [Next]_vars => InStepDownlinksVerify'
  BY InStepStep
<1> QED BY <1>1, <1>2, Shaped, PTL DEF Spec

(***************************************************************************)
(* Whose ids, whose messages                                               *)
(***************************************************************************)

\* The AMF ids that are, or may become, a UE's: in its context and its request
\* under way, in what the AMF has of it, and in what is queued for it.
OwnsAmf(u, a) ==
    \/ a = amf[u] \/ a = core[u].amf \/ a = core[u].echo[2]
    \/ \E w \in call[u] : a = w.amf
    \/ \E t \in MessageTypes : \E i \in DOMAIN frames[t] :
         frames[t][i].label.to = {u} /\ a = frames[t][i].label.amf

\* The same for RAN ids
OwnsRan(u, n) ==
    \/ n = ran[u] \/ n = core[u].ran \/ n = core[u].echo[1]
    \/ \E t \in MessageTypes : \E i \in DOMAIN frames[t] :
         frames[t][i].label.to = {u} /\ n = frames[t][i].label.ran

\* What is queued is for the one UE whose ids it carries, or carries none.
ToInv ==
    \A t \in MessageTypes : \A i \in DOMAIN frames[t] :
      LET l == frames[t][i].label IN
        IF l.ran = NoId /\ l.amf = NoId THEN l.to = {} ELSE \E v \in UEs : l.to = {v}

\* No id is two UEs', and the counters are ahead of them all.
IdInv ==
    /\ \A u \in UEs : \A a \in Nat \ {0} :
         OwnsAmf(u, a) => a < lastAmf /\ \A v \in UEs : OwnsAmf(v, a) => v = u
    /\ \A u \in UEs : \A n \in Nat \ {0} :
         OwnsRan(u, n) => n <= lastRan /\ \A v \in UEs : OwnsRan(v, n) => v = u

\* A step that at most gives one UE an id that is fresh keeps the ids apart.
LEMMA IdsCarry ==
    ASSUME IdInv, lastAmf \in Nat, lastRan \in Nat, NEW u,
           lastAmf' \in {lastAmf, lastAmf + 1}, lastRan' \in {lastRan, lastRan + 1},
           \A v \in UEs, a \in Nat \ {0} : OwnsAmf(v, a)' =>
             OwnsAmf(v, a) \/ (v = u /\ a = lastAmf /\ lastAmf' = lastAmf + 1),
           \A v \in UEs, n \in Nat \ {0} : OwnsRan(v, n)' =>
             OwnsRan(v, n) \/ (v = u /\ n = lastRan + 1 /\ lastRan' = lastRan + 1)
    PROVE  IdInv'
<1>1. ASSUME NEW v \in UEs, NEW a \in Nat \ {0}, OwnsAmf(v, a)'
      PROVE  a < lastAmf' /\ \A x \in UEs : OwnsAmf(x, a)' => x = v
  <2>1. OwnsAmf(v, a) => a < lastAmf
    BY DEF IdInv
  <2>2. \A x \in UEs : OwnsAmf(x, a) => a < lastAmf
    BY DEF IdInv
  <2>3. \A x \in UEs : OwnsAmf(x, a) /\ OwnsAmf(v, a) => x = v
    BY DEF IdInv
  <2> QED BY <1>1, <2>1, <2>2, <2>3
<1>2. ASSUME NEW v \in UEs, NEW n \in Nat \ {0}, OwnsRan(v, n)'
      PROVE  n <= lastRan' /\ \A x \in UEs : OwnsRan(x, n)' => x = v
  <2>1. OwnsRan(v, n) => n <= lastRan
    BY DEF IdInv
  <2>2. \A x \in UEs : OwnsRan(x, n) => n <= lastRan
    BY DEF IdInv
  <2>3. \A x \in UEs : OwnsRan(x, n) /\ OwnsRan(v, n) => x = v
    BY DEF IdInv
  <2> QED BY <1>2, <2>1, <2>2, <2>3
<1> QED BY <1>1, <1>2 DEF IdInv

\* What the AMF keeps of the ids of an uplink
LEMMA CoreIds ==
    ASSUME NEW c \in Core, NEW k \in Nat, NEW p \in Protections
    PROVE  /\ Counted(c, k, p).ran = c.ran /\ Counted(c, k, p).amf = c.amf
           /\ Counted(c, k, p).echo = c.echo
           /\ \A t \in {"initial", "uplink", "ngap", "none"} : \A i, a :
                /\ Heard(c, t, i, a).ran \in {c.ran, i}
                /\ Heard(c, t, i, a).amf = IF t = "initial" THEN lastAmf ELSE c.amf
                /\ Heard(c, t, i, a).echo \in {c.echo, <<i, a>>, <<i, NoId>>}
<1>1. /\ Counted(c, k, p).ran = c.ran /\ Counted(c, k, p).amf = c.amf
      /\ Counted(c, k, p).echo = c.echo
  BY DEF Counted, Core
<1>2. ASSUME NEW t \in {"initial", "uplink", "ngap", "none"}, NEW i, NEW a
      PROVE  /\ Heard(c, t, i, a).ran \in {c.ran, i}
             /\ Heard(c, t, i, a).amf = IF t = "initial" THEN lastAmf ELSE c.amf
             /\ Heard(c, t, i, a).echo \in {c.echo, <<i, a>>, <<i, NoId>>}
  <2>1. CASE t = "none"
    BY <2>1 DEF Heard
  <2>2. CASE t = "initial"
    BY <2>2 DEF Heard, Core
  <2>3. CASE t \in {"uplink", "ngap"}
    BY <2>3 DEF Heard, Core
  <2> QED BY <2>1, <2>2, <2>3
<1> QED BY <1>1, <1>2

\* A UE sends under RAN id i, its own or a fresh one.
SendsUnder(u, i) ==
    \/ i = ran[u] /\ UNCHANGED <<ran, lastRan>>
    \/ i = lastRan + 1 /\ lastRan' = lastRan + 1 /\ ran' \in {ran, [ran EXCEPT ![u] = i]}

\* What the AMF hears of the ids, c, is what was sent.
HeardUnder(u, t, i, c) ==
    /\ c \in Core
    /\ c.ran = Heard(core[u], t, i, amf[u]).ran /\ c.amf = Heard(core[u], t, i, amf[u]).amf
    /\ c.echo = Heard(core[u], t, i, amf[u]).echo
    /\ core' = [core EXCEPT ![u] = c]
    /\ lastAmf' = IF t = "initial" THEN lastAmf + 1 ELSE lastAmf
    /\ \A v \in UEs : \A w \in call'[v] : w \in call[v] \/ (v = u /\ w.amf = amf[u])
    /\ UNCHANGED <<amf, frames>>

LEMMA IdsSend ==
    ASSUME ShapeInv, TunnelInv, IdInv, NEW u \in UEs, NEW i \in Nat,
           NEW t \in {"initial", "uplink", "ngap", "none"}, NEW c,
           HeardUnder(u, t, i, c), SendsUnder(u, i)
    PROVE  IdInv'
<1> USE DEF HeardUnder, SendsUnder
<1>1. /\ core'[u] = c /\ \A v \in UEs : v # u => core'[v] = core[v]
      /\ core[u] \in Core /\ lastAmf \in Nat /\ lastRan \in Nat
  BY DEF ShapeInv, TunnelInv, RanInv
<1>2. /\ c.ran \in {core[u].ran, i} /\ c.amf = (IF t = "initial" THEN lastAmf ELSE core[u].amf)
      /\ c.echo \in {core[u].echo, <<i, amf[u]>>, <<i, NoId>>}
  BY <1>1, CoreIds DEF Protections
<1>3. c.echo[1] \in {core[u].echo[1], i} /\ c.echo[2] \in {core[u].echo[2], amf[u], NoId}
  BY <1>2
<1>4. NoId \notin Nat
  BY DEF NoId
<1>5. ASSUME NEW v \in UEs, NEW a \in Nat \ {0}, OwnsAmf(v, a)'
      PROVE  OwnsAmf(v, a) \/ (v = u /\ a = lastAmf /\ lastAmf' = lastAmf + 1)
  <2>1. CASE a = amf'[v] \/ \E w \in call'[v] : a = w.amf
    BY <2>1 DEF OwnsAmf
  <2>2. CASE a = core'[v].amf \/ a = core'[v].echo[2]
    BY <2>2, <1>1, <1>2, <1>3, <1>4 DEF OwnsAmf
  <2>3. CASE \E s \in MessageTypes : \E j \in DOMAIN frames'[s] :
               frames'[s][j].label.to = {v} /\ a = frames'[s][j].label.amf
    BY <2>3 DEF OwnsAmf
  <2> QED BY <1>5, <2>1, <2>2, <2>3 DEF OwnsAmf
<1>6. ASSUME NEW v \in UEs, NEW n \in Nat \ {0}, OwnsRan(v, n)'
      PROVE  OwnsRan(v, n) \/ (v = u /\ n = lastRan + 1 /\ lastRan' = lastRan + 1)
  <2>1. CASE n = ran'[v]
    BY <2>1 DEF OwnsRan, TunnelInv, RanInv
  <2>2. CASE n = core'[v].ran \/ n = core'[v].echo[1]
    BY <2>2, <1>1, <1>2, <1>3 DEF OwnsRan
  <2>3. CASE \E s \in MessageTypes : \E j \in DOMAIN frames'[s] :
               frames'[s][j].label.to = {v} /\ n = frames'[s][j].label.ran
    BY <2>3 DEF OwnsRan
  <2> QED BY <1>6, <2>1, <2>2, <2>3 DEF OwnsRan
<1>7. lastAmf' \in {lastAmf, lastAmf + 1} /\ lastRan' \in {lastRan, lastRan + 1}
  BY <1>1
<1> QED BY <1>1, <1>5, <1>6, <1>7, IdsCarry

\* The answers stay one's own, but for those of the step.
OwnInv == IdInv /\ ToInv /\ OwnDownlinksOnly

LEMMA OwnEmit ==
    ASSUME ShapeInv, TunnelInv, OwnInv, NEW u \in UEs, NEW r \in Formed, NEW i \in Nat,
           Emit(u, r, i, amf[u]), SendsUnder(u, i)
    PROVE  OwnInv'
<1> DEFINE p == Protection(u, r)
           h == Heard(core[u], r.carrier, i, amf[u])
           c == Counted(h, sec[u].keys, p)
<1>1. p \in Protections /\ sec[u].keys \in Nat /\ core[u] \in Core /\ lastAmf \in Nat /\ amf[u] \in Nat
  BY DEF Protection, Protections, Formed, Form, ShapeInv, Context
<1>2. r.carrier \in {"initial", "uplink", "ngap", "none"}
  BY DEF Formed, Form
<1>3. h \in Core
  BY <1>1, <1>2, CoreStays
<1>4. /\ core' = [core EXCEPT ![u] = c]
      /\ lastAmf' = IF r.carrier = "initial" THEN lastAmf + 1 ELSE lastAmf
      /\ call' \in {[call EXCEPT ![u] = {}], [call EXCEPT ![u] = {[req |-> r, amf |-> amf[u]]}]}
      /\ answer' = [answer EXCEPT ![u] = {}] /\ UNCHANGED <<amf, frames>>
  BY DEF Emit
<1> HIDE DEF h, p
<1>5. c \in Core /\ c.ran = h.ran /\ c.amf = h.amf /\ c.echo = h.echo
  <2>1. c \in Core
    BY <1>1, <1>2, <1>3, CoreStays
  <2>2. c.ran = h.ran /\ c.amf = h.amf /\ c.echo = h.echo
    BY <1>1, <1>3, CoreIds
  <2> QED BY <2>1, <2>2
<1> HIDE DEF c
<1>6. \A v \in UEs : \A w \in call'[v] : w \in call[v] \/ (v = u /\ w.amf = amf[u])
  BY <1>4 DEF ShapeInv
<1>7. IdInv'
  <2>1. HeardUnder(u, r.carrier, i, c)
    BY <1>4, <1>5, <1>6 DEF h, HeardUnder
  <2> QED BY <2>1, <1>2, IdsSend DEF OwnInv
<1>8. ToInv' /\ OwnDownlinksOnly'
  BY <1>4 DEF OwnInv, ToInv, OwnDownlinksOnly, ShapeInv
<1> QED BY <1>7, <1>8 DEF OwnInv

LEMMA OwnAuthentication ==
    ASSUME ~Overrides, ShapeInv, TunnelInv, OwnInv, NEW u \in UEs, SendAuthenticationResponse(u)
    PROVE  OwnInv'
<1>1. EffectiveAmfIDs(u, AuthenticationResponse) = {amf[u]}
  BY DEF EffectiveAmfIDs
<1>2. PICK g \in {rand[u], NoKey} :
        /\ core' = [core EXCEPT ![u] = [Heard(@, "uplink", ran[u], amf[u]) EXCEPT !.res = g]]
        /\ call' = [call EXCEPT ![u] = {[req |-> AuthenticationResponse, amf |-> amf[u]]}]
  BY <1>1 DEF SendAuthenticationResponse
<1>3. answer' = [answer EXCEPT ![u] = {}] /\ UNCHANGED <<ran, amf, lastRan, lastAmf, frames>>
  BY DEF SendAuthenticationResponse
<1> DEFINE h == Heard(core[u], "uplink", ran[u], amf[u])
           c == [h EXCEPT !.res = g]
<1>4. /\ core[u] \in Core /\ amf[u] \in Nat /\ ran[u] \in Nat /\ lastAmf \in Nat /\ g \in Nat
  BY DEF ShapeInv, TunnelInv, RanInv, NoKey
<1>5. h \in Core
  BY <1>4, CoreStays DEF Protections
<1>6. core' = [core EXCEPT ![u] = c]
  BY <1>2
<1> HIDE DEF h
<1>7. c \in Core /\ c.ran = h.ran /\ c.amf = h.amf /\ c.echo = h.echo
  BY <1>4, <1>5 DEF Core
<1> HIDE DEF c
<1>8. \A v \in UEs : \A w \in call'[v] : w \in call[v] \/ (v = u /\ w.amf = amf[u])
  BY <1>2 DEF ShapeInv
<1>9. IdInv'
  <2>1. HeardUnder(u, "uplink", ran[u], c) /\ SendsUnder(u, ran[u])
    BY <1>3, <1>6, <1>7, <1>8 DEF h, HeardUnder, SendsUnder
  <2> QED BY <2>1, <1>4, IdsSend DEF OwnInv
<1>10. ToInv' /\ OwnDownlinksOnly'
  BY <1>3 DEF OwnInv, ToInv, OwnDownlinksOnly, ShapeInv
<1> QED BY <1>9, <1>10 DEF OwnInv

\* Steps that take no new id from anywhere: what they leave queued was queued.
NoNewIds ==
    /\ \A s \in MessageTypes : \A i \in DOMAIN frames'[s] :
         \E j \in DOMAIN frames[s] : frames'[s][i] = frames[s][j]
    /\ \A v \in UEs : /\ core'[v].ran = core[v].ran /\ core'[v].amf = core[v].amf
                      /\ core'[v].echo = core[v].echo
                      /\ call'[v] \subseteq call[v]
                      /\ amf'[v] # amf[v] => OwnsAmf(v, amf'[v])
    /\ UNCHANGED <<ran, lastRan, lastAmf>>

LEMMA OwnLess ==
    ASSUME ShapeInv, TunnelInv, OwnInv, NoNewIds
    PROVE  IdInv' /\ ToInv'
<1> USE DEF NoNewIds
<1>1. ToInv'
  BY DEF ToInv, OwnInv
<1>2. ASSUME NEW v \in UEs, NEW a \in Nat \ {0}, OwnsAmf(v, a)' PROVE OwnsAmf(v, a)
  <2>1. CASE a = amf'[v]
    BY <2>1 DEF OwnsAmf
  <2>2. CASE a = core'[v].amf \/ a = core'[v].echo[2] \/ \E w \in call'[v] : a = w.amf
    BY <2>2 DEF OwnsAmf
  <2>3. CASE \E s \in MessageTypes : \E j \in DOMAIN frames'[s] :
               frames'[s][j].label.to = {v} /\ a = frames'[s][j].label.amf
    BY <2>3 DEF OwnsAmf
  <2> QED BY <1>2, <2>1, <2>2, <2>3 DEF OwnsAmf
<1>3. ASSUME NEW v \in UEs, NEW n \in Nat \ {0}, OwnsRan(v, n)' PROVE OwnsRan(v, n)
  <2>1. CASE n = ran'[v] \/ n = core'[v].ran \/ n = core'[v].echo[1]
    BY <2>1 DEF OwnsRan
  <2>2. CASE \E s \in MessageTypes : \E j \in DOMAIN frames'[s] :
               frames'[s][j].label.to = {v} /\ n = frames'[s][j].label.ran
    BY <2>2 DEF OwnsRan
  <2> QED BY <1>3, <2>1, <2>2 DEF OwnsRan
<1>4. lastAmf \in Nat /\ lastRan \in Nat
  BY DEF ShapeInv, TunnelInv, RanInv
<1>5. IdInv'
  <2> HIDE DEF NoNewIds
  <2>1. ASSUME NEW u PROVE IdInv'
    BY <1>2, <1>3, <1>4, IdsCarry DEF OwnInv, NoNewIds
  <2> QED BY <2>1
<1> QED BY <1>1, <1>5

\* A wait by ids takes nobody else's message.
LEMMA MatchedOwn ==
    ASSUME ShapeInv, TunnelInv, OwnInv, NEW u \in UEs, NEW w \in call[u], w.req.match # "any",
           NEW t \in MessageTypes, NEW m \in DOMAIN frames[t], Matches(u, w, frames[t][m].label)
    PROVE  frames[t][m].label.to \in {{}, {u}}
<1> DEFINE l == frames[t][m].label
<1>1. ASSUME NEW v \in UEs, l.to = {v}, l.ran = ran[u] PROVE v = u
  <2>1. OwnsRan(v, ran[u]) /\ OwnsRan(u, ran[u])
    BY <1>1 DEF OwnsRan
  <2>2. ran[u] \in Nat \ {0}
    BY DEF TunnelInv, RanInv
  <2> QED BY <2>1, <2>2 DEF OwnInv, IdInv
<1>2. ASSUME NEW v \in UEs, l.to = {v}, l.amf = w.amf, w.amf # Unassigned PROVE v = u
  <2>1. OwnsAmf(v, w.amf) /\ OwnsAmf(u, w.amf)
    BY <1>2 DEF OwnsAmf
  <2>2. w.amf \in Nat \ {0}
    BY <1>2 DEF ShapeInv, Unassigned
  <2> QED BY <2>1, <2>2 DEF OwnInv, IdInv
<1>3. IF l.ran = NoId /\ l.amf = NoId THEN l.to = {} ELSE \E v \in UEs : l.to = {v}
  BY DEF OwnInv, ToInv
<1> QED BY <1>1, <1>2, <1>3 DEF Matches

LEMMA OwnFetch ==
    ASSUME ShapeInv, TunnelInv, OwnInv, NEW u \in UEs, Fetch(u)
    PROVE  OwnInv'
<1>1. PICK w \in call[u], t \in MessageTypes : \E m \in 1..Len(frames[t]) :
        /\ frames' = [frames EXCEPT ![t] = RemoveAt(@, m)]
        /\ frames[t][m] \in FrameOf(t) /\ Matches(u, w, frames[t][m].label)
        /\ Outcome(u, w, frames[t][m])
  BY FetchOutcome
<1>2. PICK m \in 1..Len(frames[t]) :
        /\ frames' = [frames EXCEPT ![t] = RemoveAt(@, m)]
        /\ frames[t][m] \in FrameOf(t) /\ Matches(u, w, frames[t][m].label)
        /\ Outcome(u, w, frames[t][m])
  BY <1>1
<1> DEFINE f == frames[t][m]
           nas == f.label.nas
           after == IF Unwraps(u, w, nas) THEN AfterDownlink(sec[u], nas) ELSE sec[u]
           prot == IF Acknowledges(u, w, nas) THEN "ciphered" ELSE "plain"
<1>3. /\ m \in DOMAIN frames[t] /\ nas \in NAS /\ sec[u] \in Context /\ core[u] \in Core
      /\ prot \in Protections /\ w.req \in Formed
  BY <1>2 DEF ShapeInv, QueueInv, FrameOf, Label, Genuine, Protections
<1>4. after.keys \in Nat
  BY <1>3, ContextType DEF Context
<1>5. /\ amf' = IF Learns(w, f) THEN [amf EXCEPT ![u] = f.label.amf] ELSE amf
      /\ core' = [core EXCEPT ![u] = Counted(@, after.keys, prot)]
      /\ call' = [call EXCEPT ![u] = {}]
      /\ \A v \in UEs : \A x \in answer'[v] :
           \/ v # u /\ x \in answer[v]
           \/ /\ v = u /\ x.match = w.req.match
              /\ x.foreign = (f.label.to # {} /\ u \notin f.label.to)
      /\ UNCHANGED <<ran, lastRan, lastAmf>>
  <2>1. /\ amf' = IF Learns(w, f) THEN [amf EXCEPT ![u] = f.label.amf] ELSE amf
        /\ core' = [core EXCEPT ![u] = Counted(@, after.keys, prot)]
        /\ call' = [call EXCEPT ![u] = {}]
        /\ \E k, g, c : answer' = [answer EXCEPT ![u] =
             {[kind |-> k, match |-> w.req.match,
               foreign |-> f.label.to # {} /\ u \notin f.label.to,
               agrees |-> g, mac |-> c]}]
        /\ UNCHANGED <<ran, lastRan, lastAmf>>
    BY <1>2 DEF Outcome
  <2> HIDE DEF f, nas, after, prot
  <2>2. PICK k, g, c : answer' = [answer EXCEPT ![u] =
             {[kind |-> k, match |-> w.req.match,
               foreign |-> f.label.to # {} /\ u \notin f.label.to,
               agrees |-> g, mac |-> c]}]
    BY <2>1
  <2> QED BY <2>1, <2>2 DEF ShapeInv
<1> HIDE DEF nas, after, prot
<1>6. w.req.match # "any" => f.label.to \in {{}, {u}}
  BY <1>2, <1>3, MatchedOwn
<1>7. \A v \in UEs : amf'[v] # amf[v] => OwnsAmf(v, amf'[v])
  <2> SUFFICES ASSUME NEW v \in UEs, amf'[v] # amf[v] PROVE OwnsAmf(v, amf'[v])
    OBVIOUS
  <2>1. v = u /\ Learns(w, f) /\ amf'[u] = f.label.amf
    BY <1>5 DEF ShapeInv
  <2>2. w.req.match # "any" /\ f.label.amf # NoId
    BY <2>1, <1>3 DEF Learns, Formed, Silent
  <2>3. f.label.to # {}
    BY <2>2, <1>3 DEF OwnInv, ToInv
  <2>4. f.label.to = {u}
    BY <2>2, <2>3, <1>6
  <2> QED BY <2>1, <2>4, <1>3 DEF OwnsAmf
<1>8. \A s \in MessageTypes : \A i \in DOMAIN frames'[s] :
        \E j \in DOMAIN frames[s] : frames'[s][i] = frames[s][j]
  <2>1. /\ \A s \in MessageTypes \ {t} : frames'[s] = frames[s]
        /\ \A i \in DOMAIN frames'[t] : \E j \in DOMAIN frames[t] : frames'[t][i] = frames[t][j]
    <3>1. /\ \A s \in MessageTypes \ {t} : frames'[s] = frames[s]
          /\ \A i \in DOMAIN frames'[t] :
               Shift(i, m) \in DOMAIN frames[t] /\ frames'[t][i] = frames[t][Shift(i, m)]
      BY <1>2, RemoveFrame DEF ShapeInv
    <3> QED BY <3>1
  <2> QED BY <2>1
<1>9. \A v \in UEs : /\ core'[v].ran = core[v].ran /\ core'[v].amf = core[v].amf
                     /\ core'[v].echo = core[v].echo
                     /\ call'[v] \subseteq call[v]
  <2>1. /\ Counted(core[u], after.keys, prot).ran = core[u].ran
        /\ Counted(core[u], after.keys, prot).amf = core[u].amf
        /\ Counted(core[u], after.keys, prot).echo = core[u].echo
    BY <1>3, <1>4, CoreIds
  <2> QED BY <2>1, <1>5 DEF ShapeInv
<1>10. IdInv' /\ ToInv'
  <2>1. NoNewIds
    BY <1>5, <1>7, <1>8, <1>9 DEF NoNewIds
  <2> QED BY <2>1, OwnLess
<1>11. OwnDownlinksOnly'
  <2>1. \A v \in UEs : \A x \in answer[v] : x.match # "any" => ~x.foreign
    BY DEF OwnInv, OwnDownlinksOnly
  <2> HIDE DEF f
  <2>2. ASSUME NEW v \in UEs, NEW x \in answer'[v], x.match # "any" PROVE ~x.foreign
    <3>1. \/ x \in answer[v]
          \/ x.match = w.req.match /\ x.foreign = (f.label.to # {} /\ u \notin f.label.to)
      BY <2>2, <1>5
    <3>2. w.req.match # "any" => ~(f.label.to # {} /\ u \notin f.label.to)
      BY <1>6
    <3> QED BY <2>1, <2>2, <3>1, <3>2
  <2> QED BY <2>2 DEF OwnDownlinksOnly
<1> QED BY <1>10, <1>11 DEF OwnInv

\* What the AMF sends of a UE carries ids that are the UE's already.
LEMMA OwnAMF ==
    ASSUME ShapeInv, TunnelInv, OwnInv, NEW u \in UEs, AMFStep(u)
    PROVE  OwnInv'
<1>1. /\ \A v \in UEs : core'[v].amf = core[v].amf /\ core'[v].echo = core[v].echo
      /\ \A v \in UEs : core'[v].ran \in {core[v].ran, 0}
  BY AMFCases
<1>2. PICK t \in MessageTypes, r \in APIds, a \in APIds, nas \in Genuine :
        /\ t = Page => r = NoId /\ a = NoId
        /\ AMFSends(u, t, r, a, nas)
        /\ \/ a = core[u].amf /\ r \in {core[u].ran, NoId}
           \/ <<r, a>> \in {core[u].echo, <<NoId, NoId>>}
  BY AMFCases
<1>3. UNCHANGED <<ran, amf, call, answer, lastRan, lastAmf>>
  BY <1>2 DEF AMFSends
<1>4. PICK n \in {nas, NoNAS} :
        LET l == [to |-> IF r = NoId /\ a = NoId THEN {} ELSE {u}, ran |-> r, amf |-> a, nas |-> n]
        IN l \in Label /\ frames' = File(frames, [type |-> t, label |-> l])
  BY <1>2, AMFFiles
<1> DEFINE l == [to |-> IF r = NoId /\ a = NoId THEN {} ELSE {u}, ran |-> r, amf |-> a, nas |-> n]
<1>5. /\ l \in Label /\ l.to = (IF r = NoId /\ a = NoId THEN {} ELSE {u}) /\ l.ran = r /\ l.amf = a
      /\ frames' = File(frames, [type |-> t, label |-> l])
  BY <1>4
<1> HIDE DEF l
<1>6. \A s \in MessageTypes : \A i \in DOMAIN frames'[s] :
        \/ frames'[s][i].label = l
        \/ \E j \in DOMAIN frames[s] : frames'[s][i] = frames[s][j]
  <2>1. \A s \in MessageTypes : \A i \in DOMAIN frames'[s] :
          \/ frames'[s][i] = [type |-> t, label |-> l]
          \/ \E j \in DOMAIN frames[s] : frames'[s][i] = frames[s][j]
    BY <1>5, FileFrame DEF ShapeInv
  <2> QED BY <2>1
<1>7. NoId \notin Nat
  BY DEF NoId
<1>8. r \in {core[u].ran, core[u].echo[1], NoId} /\ a \in {core[u].amf, core[u].echo[2], NoId}
  <2>1. core[u].echo = <<r, a>> => core[u].echo[1] = r /\ core[u].echo[2] = a
    OBVIOUS
  <2>2. <<r, a>> = <<NoId, NoId>> => r = NoId /\ a = NoId
    OBVIOUS
  <2> QED BY <2>1, <2>2, <1>2
<1>9. ToInv'
  <2> SUFFICES ASSUME NEW s \in MessageTypes, NEW i \in DOMAIN frames'[s]
               PROVE  LET k == frames'[s][i].label IN
                        IF k.ran = NoId /\ k.amf = NoId THEN k.to = {} ELSE \E v \in UEs : k.to = {v}
    BY DEF ToInv
  <2>1. CASE frames'[s][i].label = l
    BY <2>1, <1>5
  <2>2. CASE \E j \in DOMAIN frames[s] : frames'[s][i] = frames[s][j]
    BY <2>2 DEF OwnInv, ToInv
  <2> QED BY <2>1, <2>2, <1>6
<1>10. ASSUME NEW v \in UEs, NEW x \in Nat \ {0}, OwnsAmf(v, x)' PROVE OwnsAmf(v, x)
  <2>1. CASE x = amf'[v] \/ x = core'[v].amf \/ x = core'[v].echo[2] \/ \E w \in call'[v] : x = w.amf
    BY <2>1, <1>1, <1>3 DEF OwnsAmf
  <2>2. ASSUME NEW s \in MessageTypes, NEW j \in DOMAIN frames'[s],
               frames'[s][j].label.to = {v}, x = frames'[s][j].label.amf
        PROVE  OwnsAmf(v, x)
    <3>1. CASE frames'[s][j].label = l
      <4>1. v = u /\ x = a
        BY <2>2, <3>1, <1>5
      <4> QED BY <4>1, <1>7, <1>8 DEF OwnsAmf
    <3>2. CASE \E k \in DOMAIN frames[s] : frames'[s][j] = frames[s][k]
      BY <2>2, <3>2 DEF OwnsAmf
    <3> QED BY <3>1, <3>2, <1>6
  <2> QED BY <1>10, <2>1, <2>2 DEF OwnsAmf
<1>11. ASSUME NEW v \in UEs, NEW x \in Nat \ {0}, OwnsRan(v, x)' PROVE OwnsRan(v, x)
  <2>1. CASE x = ran'[v] \/ x = core'[v].ran \/ x = core'[v].echo[1]
    BY <2>1, <1>1, <1>3 DEF OwnsRan
  <2>2. ASSUME NEW s \in MessageTypes, NEW j \in DOMAIN frames'[s],
               frames'[s][j].label.to = {v}, x = frames'[s][j].label.ran
        PROVE  OwnsRan(v, x)
    <3>1. CASE frames'[s][j].label = l
      <4>1. v = u /\ x = r
        BY <2>2, <3>1, <1>5
      <4> QED BY <4>1, <1>7, <1>8 DEF OwnsRan
    <3>2. CASE \E k \in DOMAIN frames[s] : frames'[s][j] = frames[s][k]
      BY <2>2, <3>2 DEF OwnsRan
    <3> QED BY <3>1, <3>2, <1>6
  <2> QED BY <1>11, <2>1, <2>2 DEF OwnsRan
<1>12. lastAmf \in Nat /\ lastRan \in Nat
  BY DEF ShapeInv, TunnelInv, RanInv
<1>13. IdInv'
  BY <1>3, <1>10, <1>11, <1>12, IdsCarry DEF OwnInv
<1>14. OwnDownlinksOnly'
  BY <1>3 DEF OwnInv, OwnDownlinksOnly
<1> QED BY <1>9, <1>13, <1>14 DEF OwnInv

LEMMA OwnStep ==
    ASSUME ~Overrides
    PROVE  TunnelInv /\ ShapeInv /\ OwnInv /\ [Next]_vars => OwnInv'
<1> SUFFICES ASSUME TunnelInv, ShapeInv, OwnInv, [Next]_vars PROVE OwnInv'
  OBVIOUS
<1>1. ASSUME NEW u \in UEs, NEW r \in Used, Send(u, r) PROVE OwnInv'
  <2>1. EffectiveAmfIDs(u, r) = {amf[u]}
    BY DEF EffectiveAmfIDs
  <2>2. Emit(u, r, ran[u], amf[u]) /\ UNCHANGED <<ran, lastRan>>
    BY <1>1, <2>1 DEF Send
  <2>3. r \in Formed /\ ran[u] \in Nat
    BY RequestsFormed, Constants, SentUnder
  <2> QED BY <2>2, <2>3, OwnEmit DEF SendsUnder
<1>2. ASSUME NEW u \in UEs, SendAuthenticationResponse(u) PROVE OwnInv'
  BY <1>2, OwnAuthentication
<1>3. ASSUME NEW u \in UEs, NEW r \in {ServiceRequest, Raw(ServiceRequest)}, SendServiceRequest(u, r)
      PROVE  OwnInv'
  <2>1. lastRan + 1 \in Nat /\ r \in Formed
    BY SentUnder, RequestsFormed DEF AllocateRANUENGAPID
  <2>2. /\ Emit(u, r, lastRan + 1, amf[u]) /\ lastRan' = lastRan + 1
        /\ ran' = [ran EXCEPT ![u] = lastRan + 1]
    BY <1>3 DEF SendServiceRequest, AllocateRANUENGAPID
  <2> QED BY <2>1, <2>2, OwnEmit DEF SendsUnder
<1>4. ASSUME NEW u \in UEs, NEW r \in {RegistrationRequest, MobilityUpdate}, Reestablish(u, r)
      PROVE  OwnInv'
  <2>1. lastRan + 1 \in Nat /\ Reestablishment(r) \in Formed
    BY SentUnder, RequestsFormed DEF AllocateRANUENGAPID
  <2>2. /\ Emit(u, Reestablishment(r), lastRan + 1, amf[u]) /\ lastRan' = lastRan + 1 /\ ran' = ran
    BY <1>4 DEF Reestablish, AllocateRANUENGAPID
  <2> QED BY <2>1, <2>2, OwnEmit DEF SendsUnder
<1>5. ASSUME NEW u \in UEs, Fetch(u) PROVE OwnInv'
  BY <1>5, OwnFetch
<1>6. ASSUME NEW u \in UEs, TimeOut(u) PROVE OwnInv'
  <2>1. /\ call' = [call EXCEPT ![u] = {}]
        /\ UNCHANGED <<ran, amf, answer, lastRan, frames, core, lastAmf>>
    BY <1>6 DEF TimeOut
  <2>2. \A v \in UEs : call'[v] \subseteq call[v]
    BY <2>1 DEF ShapeInv
  <2>3. IdInv' /\ ToInv'
    BY <2>1, <2>2, OwnLess DEF NoNewIds
  <2> QED BY <2>1, <2>3 DEF OwnInv, OwnDownlinksOnly
<1>7. ASSUME NEW u \in UEs, AMFStep(u) PROVE OwnInv'
  BY <1>7, OwnAMF
<1>8. ASSUME NEW t \in MessageTypes, AwaitGNBMessage(t) PROVE OwnInv'
  <2>1. UNCHANGED <<ran, amf, call, answer, lastRan, core, lastAmf>>
    BY <1>8 DEF AwaitGNBMessage
  <2>2. \A s \in MessageTypes : \A i \in DOMAIN frames'[s] :
          \E j \in DOMAIN frames[s] : frames'[s][i] = frames[s][j]
    <3>1. /\ \A s \in MessageTypes \ {t} : frames'[s] = frames[s]
          /\ \A i \in DOMAIN frames'[t] : \E j \in DOMAIN frames[t] : frames'[t][i] = frames[t][j]
      BY <1>8, TailFrame DEF AwaitGNBMessage, ShapeInv
    <3> QED BY <3>1
  <2>3. IdInv' /\ ToInv'
    BY <2>1, <2>2, OwnLess DEF NoNewIds
  <2> QED BY <2>1, <2>3 DEF OwnInv, OwnDownlinksOnly
<1>9. CASE UNCHANGED vars
  <2>1. UNCHANGED <<ran, amf, call, answer, lastRan, frames, core, lastAmf>>
    BY <1>9 DEF vars
  <2>2. \A v \in UEs, n \in Nat \ {0} :
          (OwnsAmf(v, n)' <=> OwnsAmf(v, n)) /\ (OwnsRan(v, n)' <=> OwnsRan(v, n))
    BY <2>1 DEF OwnsAmf, OwnsRan
  <2>3. IdInv'
    BY <2>1, <2>2 DEF OwnInv, IdInv
  <2> QED BY <2>1, <2>3 DEF OwnInv, ToInv, OwnDownlinksOnly
<1> QED BY <1>1, <1>2, <1>3, <1>4, <1>5, <1>6, <1>7, <1>8, <1>9 DEF Next, UEStep

LEMMA OwnInit == Init => OwnInv
<1> SUFFICES ASSUME Init PROVE OwnInv
  OBVIOUS
<1>1. \A t \in MessageTypes : frames[t] = <<>>
  BY DEF Init, EmptyQueues
<1>2. \A t \in MessageTypes : DOMAIN frames[t] = {}
  BY <1>1
<1>3. NoId \notin Nat
  BY DEF NoId
<1>4. \A u \in UEs : /\ amf[u] = 0 /\ call[u] = {} /\ core[u].amf = 0 /\ core[u].ran = 0
                     /\ core[u].echo[1] = NoId /\ core[u].echo[2] = NoId
  BY DEF Init, Unassigned
<1>5. \A u \in UEs, a \in Nat \ {0} : ~OwnsAmf(u, a)
  BY <1>2, <1>3, <1>4 DEF OwnsAmf
<1>6. \A u \in UEs, n \in Nat \ {0} : OwnsRan(u, n) => n = ran[u]
  BY <1>2, <1>3, <1>4 DEF OwnsRan
<1>7. RanInv
  BY TunnelInit DEF TunnelInv
<1>8. IdInv
  BY <1>5, <1>6, <1>7 DEF IdInv, RanInv
<1> QED BY <1>2, <1>8 DEF OwnInv, ToInv, OwnDownlinksOnly, Init

\* A wait by AP ids returns no other UE's downlink (ueNGAPMatcher), for any number
\* of UEs and however their ids change, as long as no request forges an AMF id
\* (amf_ue_ngap_id_override): then no id is ever two UEs', and an id that a UE
\* learns is its own.
THEOREM OwnDownlinks ==
    ASSUME ~Overrides
    PROVE  Spec => []OwnDownlinksOnly
<1>1. Init => OwnInv
  BY OwnInit
<1>2. TunnelInv /\ ShapeInv /\ OwnInv /\ [Next]_vars => OwnInv'
  BY OwnStep
<1>3. OwnInv => OwnDownlinksOnly
  BY DEF OwnInv
<1> QED BY <1>1, <1>2, <1>3, Shaped, PTL DEF Spec
(***************************************************************************)
(* Whose keys                                                              *)
(***************************************************************************)

\* The labels of the messages queued for u; an error echoes ids of any age.
For(u) ==
    {l \in Label : /\ l.to = {u}
                   /\ \E t \in MessageTypes \ {Err} : \E i \in DOMAIN frames[t] :
                        frames[t][i].label = l}

\* Two NAS messages queued for u in this order
Precedes(u, l, k) ==
    /\ l.to = {u} /\ k.to = {u}
    /\ \E i, j \in DOMAIN frames[Dnt] :
         i < j /\ frames[Dnt][i].label = l /\ frames[Dnt][j].label = k

\* A wait by ids of u would take what is labelled l.
Reaches(u, l) == l.ran = ran[u] \/ (amf[u] # Unassigned /\ l.amf = amf[u])

\* Challenges and commands are carried by DOWNLINK NAS TRANSPORTs with both ids.
CarrierInv ==
    \A t \in MessageTypes : \A i \in DOMAIN frames[t] :
      LET l == frames[t][i].label
      IN l.nas.kind \in {"challenge", "command"} => t = Dnt /\ l.ran # NoId /\ l.amf # NoId

\* Messages under one AMF id were sent under one RAN id: each connection has its own.
PairInv(u) ==
    /\ \A l, k \in For(u) : l.amf = k.amf /\ l.ran # NoId /\ k.ran # NoId => l.ran = k.ran
    /\ \A l \in For(u) :
         /\ l.amf # NoId /\ l.amf < lastAmf
         /\ l.amf = core[u].amf /\ l.ran # NoId /\ core[u].ran # 0 => l.ran = core[u].ran
    /\ core[u].ran # 0 => core[u].amf < lastAmf

\* Challenges are queued in the order of their numbers, a command after its own.
OrderInv(u) ==
    \A l, k \in Label : Precedes(u, l, k) /\ l.nas.kind = "challenge" =>
      /\ k.nas.kind = "challenge" => l.nas.rand < k.nas.rand
      /\ k.nas.kind = "command" => l.nas.rand <= k.nas.key

\* A challenge that the UE can still get is newer than the one it has; a command
\* that it can still get is for the Kamf that it has.
AheadInv(u) ==
    \A l \in For(u) :
      /\ l.nas.kind = "challenge" =>
           l.nas.rand <= core[u].chal /\ (Reaches(u, l) => rand[u] < l.nas.rand)
      /\ l.nas.kind = "command" =>
           /\ l.nas.key <= core[u].key
           /\ Reaches(u, l) => rand[u] = l.nas.key /\ sec[u].kamf = l.nas.key

\* Once the core has heard of a UE under its keys, these are the UE's, and the UL
\* COUNTs are the same.
Agree(s, c) ==
    c.secured => /\ c.key # NoKey /\ s.keys = c.key
                 /\ ~c.again => s.ul = c.ul

\* The core's keys are those of a challenge that the UE has had; a RES* that is right
\* is of the challenge and the Kamf that the UE has.
KeyInv(u) ==
    /\ core[u].key <= rand[u] /\ rand[u] <= core[u].chal /\ core[u].res <= core[u].chal
    /\ core[u].res = core[u].chal /\ core[u].chal # NoKey =>
         rand[u] = core[u].chal /\ sec[u].kamf = core[u].chal
    /\ Agree(sec[u], core[u])

\* A request under way went out under the UE's AMF id.
CallInv(u) == \A w \in call[u] : w.amf = amf[u]

Keyed(u) == PairInv(u) /\ OrderInv(u) /\ AheadInv(u) /\ KeyInv(u) /\ CallInv(u)

KeyedInv == CarrierInv /\ (\A u \in UEs : Keyed(u)) /\ CommandsMeetTheirKeys

\* Nothing was queued for v.
Thinner(v) ==
    /\ For(v)' \subseteq For(v)
    /\ \A l, k \in Label : Precedes(v, l, k)' => Precedes(v, l, k)

\* Taking a frame out keeps the order of the others.
LEMMA ThinnedOut ==
    ASSUME QueueInv, QueueInv', NEW t \in MessageTypes, NEW m \in Nat,
           \A s \in MessageTypes \ {t} : frames'[s] = frames[s],
           \A i \in DOMAIN frames'[t] :
             Shift(i, m) \in DOMAIN frames[t] /\ frames'[t][i] = frames[t][Shift(i, m)]
    PROVE  (\A v \in UEs : Thinner(v)) /\ (CarrierInv => CarrierInv')
<1>1. \A s \in MessageTypes : \A i \in DOMAIN frames'[s] :
        \E j \in DOMAIN frames[s] : frames'[s][i] = frames[s][j]
  OBVIOUS
<1>2. CarrierInv => CarrierInv'
  BY <1>1 DEF CarrierInv
<1>3. \A v \in UEs : For(v)' \subseteq For(v)
  BY <1>1 DEF For
<1>4. \A i, j \in DOMAIN frames'[Dnt] : i < j =>
        \E k, n \in DOMAIN frames[Dnt] :
          k < n /\ frames'[Dnt][i] = frames[Dnt][k] /\ frames'[Dnt][j] = frames[Dnt][n]
  <2>1. CASE t = Dnt
    <3>1. DOMAIN frames'[Dnt] \subseteq Nat
      BY <2>1 DEF QueueInv
    <3>2. \A i, j \in Nat : i < j => Shift(i, m) < Shift(j, m)
      BY DEF Shift
    <3> QED BY <2>1, <3>1, <3>2
  <2>2. CASE t # Dnt
    BY <2>2, Waits
  <2> QED BY <2>1, <2>2
<1>5. \A v \in UEs : \A l, k \in Label : Precedes(v, l, k)' => Precedes(v, l, k)
  BY <1>4 DEF Precedes
<1> QED BY <1>2, <1>3, <1>5 DEF Thinner

\* Nor does a step that leaves the queues alone.
LEMMA ThinnedNone ==
    ASSUME frames' = frames
    PROVE  (\A v \in UEs : Thinner(v)) /\ (CarrierInv => CarrierInv')
BY DEF Thinner, For, Precedes, CarrierInv

\* A new frame comes last, and for its UE only.
LEMMA Thickened ==
    ASSUME QueueInv, NEW t \in MessageTypes, NEW l \in Label, NEW v \in UEs,
           frames' = File(frames, [type |-> t, label |-> l])
    PROVE  /\ l.to # {v} => Thinner(v)
           /\ For(v)' \subseteq IF t = Err THEN For(v) ELSE For(v) \cup {l}
           /\ \A x, y \in Label : Precedes(v, x, y)' =>
                Precedes(v, x, y) \/ (x \in For(v) /\ y = l /\ t = Dnt)
<1>1. \A s \in MessageTypes : \A i \in DOMAIN frames'[s] :
        \/ i \in DOMAIN frames[s] /\ frames'[s][i].label = frames[s][i].label
        \/ s = t /\ frames'[s][i].label = l /\ \A j \in DOMAIN frames'[s] : j <= i
  <2>1. [type |-> t, label |-> l].label = l
    OBVIOUS
  <2> QED BY <2>1, FileFrame
<1>2. For(v)' \subseteq IF t = Err THEN For(v) ELSE For(v) \cup {l}
  BY <1>1 DEF For
<1>3. l.to # {v} => For(v)' \subseteq For(v)
  BY <1>2 DEF For
<1>4. ASSUME NEW x \in Label, NEW y \in Label, Precedes(v, x, y)'
      PROVE  Precedes(v, x, y) \/ (x \in For(v) /\ y = l /\ t = Dnt)
  <2>1. PICK i \in DOMAIN frames'[Dnt], j \in DOMAIN frames'[Dnt] :
          i < j /\ frames'[Dnt][i].label = x /\ frames'[Dnt][j].label = y
    BY <1>4 DEF Precedes
  <2>2. x.to = {v} /\ y.to = {v} /\ Dnt \in MessageTypes \ {Err}
    BY <1>4, Waits DEF Precedes, Dnt, Err
  <2>3. i \in Nat /\ j \in Nat
    <3>1. QueueInv'
      BY FileFrame
    <3> QED BY <3>1, <2>2 DEF QueueInv
  <2>4. i \in DOMAIN frames[Dnt] /\ frames[Dnt][i].label = x
    BY <2>1, <2>2, <2>3, <1>1
  <2>5. x \in For(v)
    BY <2>2, <2>4 DEF For
  <2>6. CASE j \in DOMAIN frames[Dnt] /\ frames[Dnt][j].label = y
    BY <2>1, <2>2, <2>4, <2>6 DEF Precedes
  <2>7. CASE y = l /\ t = Dnt
    BY <2>5, <2>7
  <2> QED BY <2>1, <2>2, <2>6, <2>7, <1>1
<1>5. l.to # {v} => \A x, y \in Label : Precedes(v, x, y)' => Precedes(v, x, y)
  <2>1. \A x, y \in Label : Precedes(v, x, y)' => y.to = {v}
    BY DEF Precedes
  <2> QED BY <2>1, <1>4
<1> QED BY <1>2, <1>3, <1>4, <1>5 DEF Thinner

LEMMA LabelParts ==
    ASSUME NEW l \in Label
    PROVE  /\ l.ran \in APIds /\ l.amf \in APIds /\ l.nas \in Genuine
           /\ l.nas.key \in Nat /\ l.nas.rand \in Nat /\ l.nas.prot \in Protections
           /\ l.nas.prot = "new" <=> l.nas.kind = "command"
BY DEF Label, Genuine, NAS

LEMMA PairKept ==
    ASSUME ShapeInv, ShapeInv', NEW u \in UEs, PairInv(u), Thinner(u), lastAmf <= lastAmf',
           \/ core'[u].amf = core[u].amf /\ core'[u].ran \in {core[u].ran, 0}
           \/ core'[u].amf = lastAmf /\ lastAmf' = lastAmf + 1
    PROVE  PairInv(u)'
<1>1. lastAmf \in Nat /\ lastAmf' \in Nat /\ core[u].amf \in Nat
  BY DEF ShapeInv, Core
<1>2. core'[u].ran # 0 => core'[u].amf < lastAmf'
  BY <1>1 DEF PairInv
<1>3. \A l, k \in For(u)' : l.amf = k.amf /\ l.ran # NoId /\ k.ran # NoId => l.ran = k.ran
  BY DEF PairInv, Thinner
<1>4. ASSUME NEW l \in For(u)'
      PROVE  /\ l.amf # NoId /\ l.amf < lastAmf'
             /\ l.amf = core'[u].amf /\ l.ran # NoId /\ core'[u].ran # 0 => l.ran = core'[u].ran
  <2>1. l \in For(u)
    BY DEF Thinner
  <2>2. /\ l.amf # NoId /\ l.amf < lastAmf
        /\ l.amf = core[u].amf /\ l.ran # NoId /\ core[u].ran # 0 => l.ran = core[u].ran
    BY <2>1 DEF PairInv
  <2>3. l.amf \in Nat
    BY <2>1, <2>2, LabelParts DEF For, APIds
  <2> QED BY <1>1, <2>2, <2>3
<1> QED BY <1>2, <1>3, <1>4 DEF PairInv

LEMMA OrderKept ==
    ASSUME NEW u \in UEs, OrderInv(u), Thinner(u)
    PROVE  OrderInv(u)'
BY DEF OrderInv, Thinner

LEMMA AheadKept ==
    ASSUME ShapeInv, ShapeInv', NEW u \in UEs, AheadInv(u), Thinner(u),
           core[u].chal <= core'[u].chal, core[u].key <= core'[u].key, rand'[u] = rand[u],
           sec'[u].kamf \in {sec[u].kamf, rand[u]},
           \A l \in For(u) : l.nas.kind \in {"challenge", "command"} /\ Reaches(u, l)' => Reaches(u, l)
    PROVE  AheadInv(u)'
<1>1. /\ core[u].chal \in Nat /\ core'[u].chal \in Nat /\ core[u].key \in Nat
      /\ core'[u].key \in Nat /\ rand[u] \in Nat
  BY DEF ShapeInv, Core
<1> SUFFICES ASSUME NEW l \in For(u)'
             PROVE  /\ l.nas.kind = "challenge" =>
                         l.nas.rand <= core'[u].chal /\ (Reaches(u, l)' => rand'[u] < l.nas.rand)
                    /\ l.nas.kind = "command" =>
                         /\ l.nas.key <= core'[u].key
                         /\ Reaches(u, l)' => rand'[u] = l.nas.key /\ sec'[u].kamf = l.nas.key
  BY DEF AheadInv
<1>2. l \in For(u) /\ l \in Label
  BY DEF Thinner, For
<1>3. l.nas.rand \in Nat /\ l.nas.key \in Nat
  BY <1>2, LabelParts
<1>4. l.nas.kind \in {"challenge", "command"} /\ Reaches(u, l)' => Reaches(u, l)
  BY <1>2
<1>5. CASE l.nas.kind = "challenge"
  <2>1. l.nas.rand <= core[u].chal /\ (Reaches(u, l) => rand[u] < l.nas.rand)
    BY <1>2, <1>5 DEF AheadInv
  <2> QED BY <1>1, <1>3, <1>4, <1>5, <2>1
<1>6. CASE l.nas.kind = "command"
  <2>1. l.nas.key <= core[u].key /\ (Reaches(u, l) => rand[u] = l.nas.key /\ sec[u].kamf = l.nas.key)
    BY <1>2, <1>6 DEF AheadInv
  <2> QED BY <1>1, <1>3, <1>4, <1>6, <2>1
<1> QED BY <1>5, <1>6

\* A step that is not about v
LEMMA OthersKept ==
    ASSUME ShapeInv, ShapeInv', NEW v \in UEs, Keyed(v), Thinner(v), lastAmf <= lastAmf',
           sec'[v] = sec[v], ran'[v] = ran[v], amf'[v] = amf[v], rand'[v] = rand[v],
           core'[v] = core[v], call'[v] \subseteq call[v]
    PROVE  Keyed(v)'
<1>1. \A l \in For(v) : Reaches(v, l)' => Reaches(v, l)
  BY DEF Reaches
<1>2. core[v].chal \in Nat /\ core[v].key \in Nat
  BY DEF ShapeInv, Core
<1>3. AheadInv(v)'
  BY <1>1, <1>2, AheadKept DEF Keyed
<1>4. PairInv(v)' /\ OrderInv(v)'
  BY PairKept, OrderKept DEF Keyed
<1>5. KeyInv(v)' /\ CallInv(v)'
  BY DEF Keyed, KeyInv, CallInv, Agree
<1> QED BY <1>3, <1>4, <1>5 DEF Keyed

\* What a UE does reaches no other UE, in the core either.
LEMMA CoreApart ==
    ASSUME ShapeInv, NEW u \in UEs, UEStep(u) \/ AMFStep(u), NEW v \in UEs, v # u
    PROVE  core'[v] = core[v] /\ lastAmf' \in {lastAmf, lastAmf + 1}
<1>1. ASSUME NEW r, NEW i, NEW a, Emit(u, r, i, a)
      PROVE  core'[v] = core[v] /\ lastAmf' \in {lastAmf, lastAmf + 1}
  BY <1>1 DEF Emit, ShapeInv
<1>2. ASSUME NEW r, Send(u, r) \/ Reestablish(u, r) \/ SendServiceRequest(u, r)
      PROVE  core'[v] = core[v] /\ lastAmf' \in {lastAmf, lastAmf + 1}
  BY <1>1, <1>2 DEF Send, Reestablish, SendServiceRequest
<1>3. CASE SendAuthenticationResponse(u)
  BY <1>3 DEF SendAuthenticationResponse, ShapeInv
<1>4. CASE Fetch(u)
  <2>1. PICK w \in call[u], t \in MessageTypes : \E m \in 1..Len(frames[t]) : Outcome(u, w, frames[t][m])
    BY <1>4, FetchOutcome
  <2>2. PICK f : Outcome(u, w, f)
    BY <2>1
  <2> QED BY <2>2 DEF Outcome, ShapeInv
<1>5. CASE TimeOut(u)
  BY <1>5 DEF TimeOut
<1>6. CASE AMFStep(u)
  BY <1>6 DEF AMFStep, AMFChallenges, AMFCommands, AMFInforms, AMFReleases, AMFHandsOver,
              AMFPages, AMFErrs, AMFSends, ShapeInv
<1> QED BY <1>2, <1>3, <1>4, <1>5, <1>6 DEF UEStep

\* Both sides count an uplink, or neither does.
LEMMA Agreement ==
    ASSUME NEW s \in Context, NEW c \in Core, NEW p \in Protections, Agree(s, c)
    PROVE  /\ Agree(AfterUplink(s, p), Counted(c, s.keys, p))
           /\ AfterUplink(s, p).kamf = s.kamf /\ AfterUplink(s, p).keys = s.keys
           /\ Counted(c, s.keys, p).key = c.key /\ Counted(c, s.keys, p).chal = c.chal
           /\ Counted(c, s.keys, p).res = c.res
<1> DEFINE x == AfterUplink(s, p)
           y == Counted(c, s.keys, p)
<1>1. /\ p = "plain" => x = s
      /\ p = "new" => x.kamf = s.kamf /\ x.keys = s.keys /\ x.ul = 1
      /\ p \notin {"plain", "new"} => x.kamf = s.kamf /\ x.keys = s.keys /\ x.ul = s.ul + 1
  <2>1. p = "plain" => x = s
    BY DEF AfterUplink
  <2>2. CASE p = "new"
    <3>1. /\ Rewound(s, p) \in Context /\ Rewound(s, p).kamf = s.kamf /\ Rewound(s, p).keys = s.keys
          /\ Rewound(s, p).ul = 0
      BY <2>2 DEF Rewound, Context
    <3> QED BY <2>2, <3>1 DEF AfterUplink, NextUL, Context
  <2>3. CASE p \notin {"plain", "new"}
    BY <2>3 DEF AfterUplink, NextUL, Rewound, Context
  <2> QED BY <2>1, <2>2, <2>3
<1>2. y.key = c.key /\ y.chal = c.chal /\ y.res = c.res
  BY DEF Counted, Core
<1>3. /\ p = "plain" \/ s.keys # c.key \/ s.keys = NoKey => y = c
      /\ p = "new" /\ s.keys = c.key /\ s.keys # NoKey => y.ul = 1
      /\ p \notin {"plain", "new"} /\ s.keys = c.key /\ s.keys # NoKey =>
           y.ul = c.ul + 1 /\ y.secured = c.secured /\ y.again = c.again
  BY DEF Counted, Core
<1> HIDE DEF x, y
<1>4. Agree(x, y)
  BY <1>1, <1>2, <1>3 DEF Agree
<1>5. x.kamf = s.kamf /\ x.keys = s.keys
  BY <1>1
<1> QED BY <1>2, <1>4, <1>5 DEF x, y

\* A connection that is opened or used says nothing of keys.
LEMMA HeardKeys ==
    ASSUME NEW c \in Core, NEW t \in {"initial", "uplink", "ngap", "none"}, NEW i, NEW a
    PROVE  LET h == Heard(c, t, i, a)
           IN /\ h.key = c.key /\ h.chal = c.chal /\ h.res = c.res
              /\ \A s \in Context : Agree(s, c) => Agree(s, h)
<1> DEFINE h == Heard(c, t, i, a)
<1>1. /\ h.key = c.key /\ h.chal = c.chal /\ h.res = c.res /\ h.secured = c.secured
      /\ h.again = c.again /\ h.ul = c.ul
  <2>1. CASE t = "none"
    BY <2>1 DEF Heard
  <2>2. CASE t = "initial"
    BY <2>2 DEF Heard, Core
  <2>3. CASE t \in {"uplink", "ngap"}
    BY <2>3 DEF Heard, Core
  <2> QED BY <2>1, <2>2, <2>3
<1> HIDE DEF h
<1>2. \A s \in Context : Agree(s, c) => Agree(s, h)
  BY <1>1 DEF Agree
<1> QED BY <1>1, <1>2 DEF h

\* A fresh RAN id is in no message that is queued.
LEMMA SendReaches ==
    ASSUME TunnelInv, OwnInv, NEW u \in UEs, NEW i \in Nat, SendsUnder(u, i), amf' = amf
    PROVE  \A l \in For(u) : Reaches(u, l)' => Reaches(u, l)
<1> SUFFICES ASSUME NEW l \in For(u), Reaches(u, l)' PROVE Reaches(u, l)
  OBVIOUS
<1>1. ran'[u] \in {ran[u], lastRan + 1} /\ lastRan \in Nat
  BY DEF SendsUnder, TunnelInv, RanInv
<1>2. l.ran # lastRan + 1
  <2> SUFFICES ASSUME l.ran = lastRan + 1 PROVE FALSE
    OBVIOUS
  <2>1. OwnsRan(u, lastRan + 1)
    BY DEF For, OwnsRan
  <2>2. lastRan + 1 \in Nat \ {0} /\ ~(lastRan + 1 <= lastRan)
    BY <1>1
  <2> QED BY <2>1, <2>2 DEF OwnInv, IdInv
<1> QED BY <1>1, <1>2 DEF Reaches

LEMMA KeyedEmit ==
    ASSUME ShapeInv, ShapeInv', TunnelInv, OwnInv, NEW u \in UEs, Keyed(u), NEW r \in Formed,
           NEW i \in Nat, Emit(u, r, i, amf[u]), SendsUnder(u, i)
    PROVE  Keyed(u)' /\ answer'[u] = {}
<1> DEFINE p == Protection(u, r)
           h == Heard(core[u], r.carrier, i, amf[u])
<1>1. /\ p \in Protections /\ sec[u] \in Context /\ core[u] \in Core
      /\ r.carrier \in {"initial", "uplink", "ngap", "none"}
      /\ lastAmf \in Nat /\ amf[u] \in Nat /\ sec[u].keys \in Nat
  BY DEF Protection, Protections, Formed, Form, ShapeInv, Context
<1>2. /\ sec'[u] = AfterUplink(sec[u], p) /\ core'[u] = Counted(h, sec[u].keys, p)
      /\ lastAmf' = (IF r.carrier = "initial" THEN lastAmf + 1 ELSE lastAmf)
      /\ call'[u] \in {{}, {[req |-> r, amf |-> amf[u]]}}
      /\ answer'[u] = {} /\ UNCHANGED <<amf, rand, frames>>
  BY DEF Emit, ShapeInv
<1> HIDE DEF p
<1>3. /\ h \in Core /\ h.key = core[u].key /\ h.chal = core[u].chal /\ h.res = core[u].res
      /\ Agree(sec[u], h) /\ h.amf = IF r.carrier = "initial" THEN lastAmf ELSE core[u].amf
  <2>1. h \in Core
    BY <1>1, CoreStays
  <2>2. h.key = core[u].key /\ h.chal = core[u].chal /\ h.res = core[u].res /\ Agree(sec[u], h)
    BY <1>1, HeardKeys DEF Keyed, KeyInv
  <2>3. h.amf = IF r.carrier = "initial" THEN lastAmf ELSE core[u].amf
    BY <1>1, CoreIds
  <2> QED BY <2>1, <2>2, <2>3
<1>4. r.carrier # "initial" => h.ran = core[u].ran
  BY DEF Heard, Core, ShapeInv
<1> HIDE DEF h
<1>5. /\ Agree(sec'[u], core'[u]) /\ sec'[u].kamf = sec[u].kamf
      /\ core'[u].key = core[u].key /\ core'[u].chal = core[u].chal /\ core'[u].res = core[u].res
  BY <1>1, <1>2, <1>3, Agreement
<1>6. core'[u].amf = h.amf /\ core'[u].ran = h.ran
  BY <1>1, <1>2, <1>3, CoreIds
<1>7. Thinner(u)
  BY <1>2, ThinnedNone
<1>8. PairInv(u)'
  <2>1. lastAmf <= lastAmf'
    BY <1>1, <1>2
  <2> QED BY <2>1, <1>2, <1>3, <1>4, <1>6, <1>7, PairKept DEF Keyed
<1>9. AheadInv(u)'
  <2>1. core[u].chal \in Nat /\ core[u].key \in Nat
    BY <1>1 DEF Core
  <2>2. \A l \in For(u) : Reaches(u, l)' => Reaches(u, l)
    BY <1>2, SendReaches
  <2> QED BY <2>1, <2>2, <1>2, <1>5, <1>7, AheadKept DEF Keyed
<1>10. KeyInv(u)'
  BY <1>2, <1>5 DEF Keyed, KeyInv
<1>11. OrderInv(u)' /\ CallInv(u)'
  BY <1>2, <1>7, OrderKept DEF Keyed, CallInv
<1> QED BY <1>2, <1>8, <1>9, <1>10, <1>11 DEF Keyed

\* The UE takes the Kamf of the challenge that it has.
LEMMA KeyedAuthentication ==
    ASSUME ~Overrides, ShapeInv, ShapeInv', TunnelInv, OwnInv, NEW u \in UEs, Keyed(u),
           SendAuthenticationResponse(u)
    PROVE  Keyed(u)' /\ answer'[u] = {}
<1>1. EffectiveAmfIDs(u, AuthenticationResponse) = {amf[u]}
  BY DEF EffectiveAmfIDs
<1> DEFINE h == Heard(core[u], "uplink", ran[u], amf[u])
<1>2. PICK g \in {rand[u], NoKey} :
        /\ sec' = [sec EXCEPT ![u].kamf = IF g = NoKey THEN @ ELSE g]
        /\ core' = [core EXCEPT ![u] = [h EXCEPT !.res = g]]
        /\ call' = [call EXCEPT ![u] = {[req |-> AuthenticationResponse, amf |-> amf[u]]}]
  BY <1>1 DEF SendAuthenticationResponse
<1>3. answer'[u] = {} /\ UNCHANGED <<ran, amf, rand, lastRan, lastAmf, frames>>
  BY DEF SendAuthenticationResponse, ShapeInv
<1>4. /\ core[u] \in Core /\ sec[u] \in Context /\ ran[u] \in Nat /\ amf[u] \in Nat
      /\ lastAmf \in Nat /\ rand[u] \in Nat
  BY DEF ShapeInv, TunnelInv, RanInv
<1>5. /\ h \in Core /\ h.key = core[u].key /\ h.chal = core[u].chal /\ h.amf = core[u].amf
      /\ h.ran = core[u].ran /\ Agree(sec[u], h)
  <2>1. h \in Core
    BY <1>4, CoreStays DEF Protections
  <2>2. h.key = core[u].key /\ h.chal = core[u].chal /\ Agree(sec[u], h)
    BY <1>4, HeardKeys DEF Keyed, KeyInv
  <2>3. h.amf = core[u].amf /\ h.ran = core[u].ran
    BY <1>4 DEF Heard, Core
  <2> QED BY <2>1, <2>2, <2>3
<1> HIDE DEF h
<1>6. /\ core'[u].key = core[u].key /\ core'[u].chal = core[u].chal /\ core'[u].res = g
      /\ core'[u].amf = core[u].amf /\ core'[u].ran = core[u].ran
      /\ core'[u].secured = h.secured /\ core'[u].again = h.again /\ core'[u].ul = h.ul
  BY <1>2, <1>5 DEF Core, ShapeInv
<1>7. /\ sec'[u].kamf = (IF g = NoKey THEN sec[u].kamf ELSE g)
      /\ sec'[u].keys = sec[u].keys /\ sec'[u].ul = sec[u].ul
  BY <1>2, <1>4 DEF Context, ShapeInv
<1>8. Thinner(u)
  BY <1>3, ThinnedNone
<1>9. PairInv(u)' /\ OrderInv(u)'
  BY <1>3, <1>4, <1>6, <1>8, PairKept, OrderKept DEF Keyed
<1>10. AheadInv(u)'
  <2>1. core[u].chal \in Nat /\ core[u].key \in Nat
    BY <1>4 DEF Core
  <2>2. \A l \in For(u) : Reaches(u, l)' => Reaches(u, l)
    BY <1>3 DEF Reaches
  <2> QED BY <2>1, <2>2, <1>3, <1>6, <1>7, <1>8, AheadKept DEF Keyed
<1>11. KeyInv(u)'
  <2>1. core[u].chal \in Nat /\ core[u].key <= rand[u] /\ rand[u] <= core[u].chal
    BY <1>4 DEF Core, Keyed, KeyInv
  <2>2. Agree(sec'[u], core'[u])
    BY <1>5, <1>6, <1>7 DEF Agree
  <2>3. g <= core[u].chal /\ (g = core[u].chal /\ g # NoKey => rand[u] = g /\ sec'[u].kamf = g)
    BY <2>1, <1>4, <1>7 DEF NoKey
  <2> QED BY <2>1, <2>2, <2>3, <1>3, <1>6 DEF KeyInv
<1>12. CallInv(u)'
  BY <1>2, <1>3 DEF CallInv, ShapeInv
<1> QED BY <1>3, <1>9, <1>10, <1>11, <1>12 DEF Keyed

\* A wait finds a message: the challenge it may bring is the next one, and the
\* command is for the Kamf that the UE has.
LEMMA KeyedFetch ==
    ASSUME ShapeInv, ShapeInv', TunnelInv, OwnInv, CarrierInv, NEW u \in UEs, Keyed(u), Fetch(u)
    PROVE  /\ Keyed(u)' /\ CarrierInv' /\ \A v \in UEs : Thinner(v)
           /\ \A x \in answer'[u] : x.kind = "command" /\ x.mac # "absent" => x.agrees
<1>1. PICK w \in call[u], t \in MessageTypes : \E m \in 1..Len(frames[t]) :
        /\ frames' = [frames EXCEPT ![t] = RemoveAt(@, m)]
        /\ frames[t][m] \in FrameOf(t) /\ Matches(u, w, frames[t][m].label)
        /\ \A k \in 1..(m - 1) : ~Matches(u, w, frames[t][k].label)
        /\ Outcome(u, w, frames[t][m])
  BY FetchOutcome
<1>2. PICK m \in 1..Len(frames[t]) :
        /\ frames' = [frames EXCEPT ![t] = RemoveAt(@, m)]
        /\ frames[t][m] \in FrameOf(t) /\ Matches(u, w, frames[t][m].label)
        /\ \A k \in 1..(m - 1) : ~Matches(u, w, frames[t][k].label)
        /\ Outcome(u, w, frames[t][m])
  BY <1>1
<1> DEFINE f == frames[t][m]
           l == f.label
           nas == l.nas
           after == IF Unwraps(u, w, nas) THEN AfterDownlink(sec[u], nas) ELSE sec[u]
           prot == IF Acknowledges(u, w, nas) THEN "ciphered" ELSE "plain"
           kept == w.req.stores /\ nas.kind = "challenge" /\ Read(u, w, nas)
           mac == IF Unwraps(u, w, nas) THEN MACVerified(sec[u], nas) ELSE "absent"
<1>3. /\ m \in DOMAIN frames[t] /\ m \in Nat /\ f.type = t /\ l \in Label /\ nas \in Genuine /\ nas \in NAS
      /\ sec[u] \in Context /\ core[u] \in Core /\ rand[u] \in Nat
      /\ prot \in Protections /\ w.req \in Formed /\ w.amf = amf[u]
  BY <1>2 DEF ShapeInv, QueueInv, FrameOf, Label, Genuine, Protections, Keyed, CallInv
<1>4. /\ \A v \in UEs : Thinner(v)
      /\ CarrierInv'
  BY <1>2, <1>3, RemoveFrame, ThinnedOut DEF ShapeInv
<1>5. /\ amf'[u] = (IF Learns(w, f) THEN l.amf ELSE amf[u])
      /\ sec'[u] = AfterUplink(after, prot) /\ core'[u] = Counted(core[u], after.keys, prot)
      /\ rand'[u] = (IF kept THEN nas.rand ELSE rand[u])
      /\ \A x \in answer'[u] : x.kind = nas.kind /\ x.agrees = (after.keys = nas.key) /\ x.mac = mac
      /\ call'[u] = {} /\ UNCHANGED <<ran, lastRan, lastAmf>>
  <2>1. /\ amf' = IF Learns(w, f) THEN [amf EXCEPT ![u] = l.amf] ELSE amf
        /\ sec' = [sec EXCEPT ![u] = AfterUplink(after, prot)]
        /\ core' = [core EXCEPT ![u] = Counted(@, after.keys, prot)]
        /\ rand' = IF kept THEN [rand EXCEPT ![u] = nas.rand] ELSE rand
        /\ answer' = [answer EXCEPT ![u] =
             {[kind |-> nas.kind, match |-> w.req.match, foreign |-> l.to # {} /\ u \notin l.to,
               agrees |-> after.keys = nas.key, mac |-> mac]}]
        /\ call' = [call EXCEPT ![u] = {}] /\ UNCHANGED <<ran, lastRan, lastAmf>>
    BY <1>2 DEF Outcome
  <2> HIDE DEF f, l, nas, after, prot, kept, mac
  <2> QED BY <2>1 DEF ShapeInv
<1>6. Unwraps(u, w, nas) \/ kept \/ Learns(w, f) => w.req.match = "ids"
  BY <1>3 DEF Unwraps, Learns, Formed, Silent
<1>7. ASSUME w.req.match = "ids", NEW x, x.ran # NoId \/ x.amf # NoId
      PROVE  Matches(u, w, x) <=> Reaches(u, x)
  BY <1>3, <1>7 DEF Matches, Reaches
<1>8. ASSUME w.req.match = "ids", l.ran # NoId \/ l.amf # NoId, t # Err
      PROVE  l \in For(u) /\ Reaches(u, l)
  <2>1. l.to # {} /\ l.to \in {{}, {u}}
    BY <1>2, <1>3, <1>8, MatchedOwn DEF OwnInv, ToInv
  <2>2. Matches(u, w, l)
    BY <1>2
  <2>3. l \in For(u)
    BY <2>1, <1>3, <1>8 DEF For
  <2> QED BY <2>2, <2>3, <1>7, <1>8
<1>9. nas.kind \in {"challenge", "command"} => t = Dnt /\ l.ran # NoId /\ t # Err
  BY <1>3 DEF CarrierInv, Dnt, Err
<1>10. nas.prot = "new" <=> nas.kind = "command"
  BY <1>3 DEF Genuine
<1>11. mac # "absent" => Unwraps(u, w, nas)
  OBVIOUS
<1>12. ASSUME Unwraps(u, w, nas), nas.kind = "command"
       PROVE  sec[u].kamf = nas.key /\ core[u].key = nas.key
  <2>1. l \in For(u) /\ Reaches(u, l)
    BY <1>6, <1>8, <1>9, <1>12
  <2>2. nas.key <= core[u].key /\ rand[u] = nas.key /\ sec[u].kamf = nas.key
    BY <2>1, <1>12 DEF Keyed, AheadInv
  <2>3. core[u].key <= rand[u] /\ core[u].key \in Nat
    BY <1>3 DEF Keyed, KeyInv, Core
  <2> QED BY <2>2, <2>3, <1>3
<1>13. /\ after \in Context /\ after.kamf = sec[u].kamf /\ after.ul = sec[u].ul
       /\ after.keys = IF Unwraps(u, w, nas) /\ nas.prot = "new" THEN sec[u].kamf ELSE sec[u].keys
  <2>1. after \in Context
    BY <1>3, ContextType
  <2>2. EstimateDL(sec[u].dl, nas.count % Octet) \in Nat
    BY <1>3, EstimateType DEF Context, NAS
  <2>3. /\ NextDL(sec[u], nas.count % Octet) \in Context
        /\ NextDL(sec[u], nas.count % Octet).kamf = sec[u].kamf
        /\ NextDL(sec[u], nas.count % Octet).keys = sec[u].keys
        /\ NextDL(sec[u], nas.count % Octet).ul = sec[u].ul
    BY <2>2, <1>3 DEF NextDL, Context
  <2> QED BY <2>1, <2>3 DEF AfterDownlink, Establish, Context
<1>14. Agree(after, core[u])
  <2>1. Agree(sec[u], core[u])
    BY DEF Keyed, KeyInv
  <2>2. CASE Unwraps(u, w, nas) /\ nas.prot = "new"
    <3>1. after.keys = core[u].key
      BY <2>2, <1>10, <1>12, <1>13
    <3> QED BY <2>1, <3>1, <1>13 DEF Agree
  <2>3. CASE ~(Unwraps(u, w, nas) /\ nas.prot = "new")
    BY <2>1, <2>3, <1>13 DEF Agree
  <2> QED BY <2>2, <2>3
<1>15. \A x \in answer'[u] : x.kind = "command" /\ x.mac # "absent" => x.agrees
  BY <1>5, <1>10, <1>11, <1>12, <1>13
<1> HIDE DEF f, nas, after, prot, kept, mac
<1>16. /\ Agree(sec'[u], core'[u]) /\ sec'[u].kamf = sec[u].kamf
       /\ core'[u].key = core[u].key /\ core'[u].chal = core[u].chal /\ core'[u].res = core[u].res
  BY <1>3, <1>5, <1>13, <1>14, Agreement
<1>17. core'[u].amf = core[u].amf /\ core'[u].ran = core[u].ran
  <2>1. after.keys \in Nat
    BY <1>13 DEF Context
  <2> QED BY <2>1, <1>3, <1>5, CoreIds
<1>18. PairInv(u)' /\ OrderInv(u)' /\ CallInv(u)'
  <2>1. lastAmf <= lastAmf'
    BY <1>5 DEF ShapeInv
  <2> QED BY <2>1, <1>4, <1>5, <1>17, PairKept, OrderKept DEF Keyed, CallInv
<1>19. ASSUME NEW x \in For(u), x.ran # NoId, Reaches(u, x)' PROVE Reaches(u, x)
  <2>1. CASE x.ran = ran[u] \/ amf'[u] = amf[u]
    BY <2>1, <1>5, <1>19 DEF Reaches
  <2>2. CASE x.ran # ran[u] /\ amf'[u] # amf[u]
    <3>1. Learns(w, f) /\ amf'[u] = l.amf /\ x.amf = l.amf
      BY <2>2, <1>5, <1>19 DEF Reaches
    <3>2. l \in For(u) /\ Reaches(u, l)
      BY <3>1, <1>3, <1>6, <1>8 DEF Learns, f
    <3>3. l.ran # NoId => x.ran = l.ran
      BY <3>1, <3>2, <1>19 DEF Keyed, PairInv
    <3>4. ran[u] # NoId
      BY DEF TunnelInv, RanInv, NoId
    <3> QED BY <2>2, <3>1, <3>2, <3>3, <3>4 DEF Reaches
  <2> QED BY <2>1, <2>2
<1>20. \A x \in For(u) : x.nas.kind \in {"challenge", "command"} => x.ran # NoId
  BY DEF For, CarrierInv
<1>21. CASE ~kept
  <2>1. core[u].chal \in Nat /\ core[u].key \in Nat
    BY <1>3 DEF Core
  <2>2. AheadInv(u)'
    BY <2>1, <1>4, <1>5, <1>16, <1>19, <1>20, <1>21, AheadKept DEF Keyed
  <2>3. KeyInv(u)'
    BY <1>5, <1>16, <1>21 DEF Keyed, KeyInv
  <2> QED BY <2>2, <2>3, <1>4, <1>15, <1>18 DEF Keyed
<1>22. CASE kept
  <2>1. nas.kind = "challenge" /\ w.req.match = "ids"
    BY <1>6, <1>22 DEF kept
  <2>2. t = Dnt /\ l \in For(u) /\ Reaches(u, l) /\ l.nas = nas
    BY <2>1, <1>8, <1>9 DEF nas
  <2>3. rand'[u] = nas.rand /\ rand[u] < nas.rand /\ nas.rand <= core[u].chal
    BY <2>1, <2>2, <1>5, <1>22 DEF Keyed, AheadInv
  <2>4. /\ nas.rand \in Nat /\ core[u].chal \in Nat /\ core[u].key \in Nat /\ core[u].res \in Nat
    BY <1>3 DEF NAS, Core
  <2>5. KeyInv(u)'
    <3>1. core[u].key <= rand[u] /\ rand[u] <= core[u].chal /\ core[u].res <= core[u].chal
      BY DEF Keyed, KeyInv
    <3>2. ~(core[u].res = core[u].chal /\ core[u].chal # NoKey)
      <4> SUFFICES ASSUME core[u].res = core[u].chal, core[u].chal # NoKey PROVE FALSE
        OBVIOUS
      <4>1. rand[u] = core[u].chal
        BY DEF Keyed, KeyInv
      <4> QED BY <4>1, <2>3, <2>4
    <3>3. core[u].key <= nas.rand
      BY <3>1, <2>3, <2>4, <1>3
    <3> QED BY <3>1, <3>2, <3>3, <2>3, <1>16 DEF KeyInv
  <2>6. ASSUME NEW x \in For(u)', x.nas.kind \in {"challenge", "command"}, Reaches(u, x)'
        PROVE  Precedes(u, l, x) /\ x \in For(u) /\ Reaches(u, x)
    <3>1. x \in For(u) /\ x.ran # NoId /\ Reaches(u, x)
      BY <2>6, <1>4, <1>19, <1>20 DEF Thinner
    <3>2. \E i \in DOMAIN frames'[Dnt] : frames'[Dnt][i].label = x
      <4>1. \E s \in MessageTypes : \E i \in DOMAIN frames'[s] : frames'[s][i].label = x
        BY DEF For
      <4>2. \A s \in MessageTypes : \A i \in DOMAIN frames'[s] :
              frames'[s][i].label.nas.kind \in {"challenge", "command"} => s = Dnt
        BY <1>4 DEF CarrierInv
      <4> QED BY <4>1, <4>2, <2>6
    <3>3. PICK i \in DOMAIN frames'[Dnt] : frames'[Dnt][i].label = x
      BY <3>2
    <3>4. Shift(i, m) \in DOMAIN frames[Dnt] /\ frames[Dnt][Shift(i, m)].label = x
      <4>1. \A n \in DOMAIN frames'[t] :
              Shift(n, m) \in DOMAIN frames[t] /\ frames'[t][n] = frames[t][Shift(n, m)]
        BY <1>2, RemoveFrame DEF ShapeInv
      <4> QED BY <2>2, <3>3, <4>1
    <3>5. i \in Nat /\ Shift(i, m) \in Nat \ {0}
      <4>1. DOMAIN frames'[Dnt] \subseteq Nat \ {0}
        BY <2>2 DEF ShapeInv, QueueInv
      <4> QED BY <4>1, <3>3, <1>3 DEF Shift
    <3>6. Matches(u, w, x)
      BY <2>1, <3>1, <1>7
    <3>7. Shift(i, m) \notin 1..(m - 1)
      BY <2>2, <3>4, <3>6, <1>2
    <3>8. m < Shift(i, m)
      BY <3>5, <3>7, <1>3 DEF Shift
    <3>9. m \in DOMAIN frames[Dnt] /\ frames[Dnt][m].label = l
      BY <2>2, <1>3 DEF f
    <3>10. l.to = {u} /\ x.to = {u}
      BY <2>2, <3>1 DEF For
    <3> QED BY <3>1, <3>4, <3>8, <3>9, <3>10 DEF Precedes
  <2>7. AheadInv(u)'
    <3> SUFFICES ASSUME NEW x \in For(u)'
                 PROVE  /\ x.nas.kind = "challenge" =>
                             /\ x.nas.rand <= core'[u].chal
                             /\ Reaches(u, x)' => rand'[u] < x.nas.rand
                        /\ x.nas.kind = "command" =>
                             /\ x.nas.key <= core'[u].key
                             /\ Reaches(u, x)' => rand'[u] = x.nas.key /\ sec'[u].kamf = x.nas.key
      BY DEF AheadInv
    <3>1. x \in For(u) /\ x \in Label /\ x.nas.key \in Nat /\ x.nas.rand \in Nat
      BY <1>4, LabelParts DEF Thinner, For
    <3>2. CASE x.nas.kind = "challenge"
      <4>1. x.nas.rand <= core[u].chal
        BY <3>1, <3>2 DEF Keyed, AheadInv
      <4>2. Reaches(u, x)' => nas.rand < x.nas.rand
        BY <2>1, <2>2, <2>6, <3>1, <3>2, <1>3 DEF Keyed, OrderInv
      <4> QED BY <4>1, <4>2, <2>3, <3>2, <1>16
    <3>3. CASE x.nas.kind = "command"
      <4>1. x.nas.key <= core[u].key
        BY <3>1, <3>3 DEF Keyed, AheadInv
      <4>2. ASSUME Reaches(u, x)' PROVE FALSE
        <5>1. Precedes(u, l, x) /\ Reaches(u, x)
          BY <4>2, <2>6, <3>3
        <5>2. nas.rand <= x.nas.key
          BY <5>1, <2>1, <2>2, <3>1, <3>3, <1>3 DEF Keyed, OrderInv
        <5>3. rand[u] = x.nas.key
          BY <5>1, <3>1, <3>3 DEF Keyed, AheadInv
        <5> QED BY <5>2, <5>3, <2>3, <2>4, <3>1
      <4> QED BY <4>1, <4>2, <3>3, <1>16
    <3> QED BY <3>2, <3>3
  <2> QED BY <2>5, <2>7, <1>4, <1>15, <1>18 DEF Keyed
<1> QED BY <1>21, <1>22

\* What a step of the AMF says of keys: a new challenge, the command for a challenge
\* that was answered rightly, or nothing.
Moves(u, t, r, a, nas) ==
    LET c == core[u]
        d == core'[u]
    IN \/ /\ nas.kind \notin {"challenge", "command"}
          /\ t = Err \/ t = Page \/ (a = c.amf /\ r \in {c.ran, NoId})
          /\ d.key = c.key /\ d.chal = c.chal /\ d.res = c.res
          /\ d.secured = c.secured /\ d.again = c.again /\ d.ul = c.ul
       \/ /\ t = Dnt /\ a = c.amf /\ r = c.ran
          /\ nas.kind = "challenge" /\ nas.rand = c.chal + 1
          /\ d.key = c.key /\ d.chal = c.chal + 1 /\ d.res = c.res
          /\ d.secured = c.secured /\ d.again = c.again /\ d.ul = c.ul
       \/ /\ t = Dnt /\ a = c.amf /\ r = c.ran
          /\ nas.kind = "command" /\ nas.key = c.chal /\ c.res = c.chal /\ c.chal # NoKey
          /\ d.key = c.chal /\ d.chal = c.chal /\ d.res = c.res /\ d.secured = FALSE

LEMMA AMFMoves ==
    ASSUME ShapeInv, NEW u \in UEs, AMFStep(u)
    PROVE  \E t \in MessageTypes, r \in APIds, a \in APIds, nas \in Genuine :
             /\ t = Page => r = NoId /\ a = NoId
             /\ AMFSends(u, t, r, a, nas) /\ Moves(u, t, r, a, nas)
<1>1. /\ core[u] \in Core /\ core[u].ran \in APIds /\ core[u].amf \in APIds
      /\ core[u].echo[1] \in APIds /\ core[u].echo[2] \in APIds
      /\ core[u].key \in Nat /\ core[u].dl \in Nat /\ core[u].chal \in Nat
  <2>1. core[u] \in Core
    BY DEF ShapeInv
  <2>2. core[u].echo \in APIds \X APIds
    BY <2>1 DEF Core
  <2> QED BY <2>1, <2>2 DEF Core, APIds
<1>2. NoNAS \in Genuine /\ NoNAS.kind = "none" /\ NoId \in APIds
  BY DEF NoNAS, Genuine, NAS, Protections, NoKey, APIds
<1>3. \A k \in {"challenge", "other", "confirm"}, g \in Nat :
        Protected(u, k, g) \in Genuine /\ Protected(u, k, g).kind = k /\ Protected(u, k, g).rand = g
  BY <1>1 DEF Protected, Genuine, NAS, Protections
<1>4. /\ NASBearers \subseteq MessageTypes /\ HandoverTypes \subseteq MessageTypes
      /\ {Dnt, Release, Page, Err} \subseteq MessageTypes
  BY DEF MessageTypes, NASBearers
<1>5. Page \notin NASBearers \cup HandoverTypes \cup {Release, Err, Dnt}
  BY DEF NASBearers, HandoverTypes, CancelAck, Command, NotPrepared, Status, Page, Dnt, Ics, Setup,
         Modify, Drop, Release, Err
<1>6. CASE AMFChallenges(u)
  <2> DEFINE g == core[u].chal + 1
             plain == [NoNAS EXCEPT !.kind = "challenge", !.rand = g]
  <2>1. g \in Nat
    BY <1>1
  <2>2. plain \in Genuine /\ plain.kind = "challenge" /\ plain.rand = g
    <3> HIDE DEF g
    <3> QED BY <2>1 DEF NoNAS, Genuine, NAS, Protections, NoKey
  <2>3. \/ /\ AMFSends(u, Dnt, core[u].ran, core[u].amf, plain)
           /\ core'[u] = [core[u] EXCEPT !.chal = g]
        \/ /\ AMFSends(u, Dnt, core[u].ran, core[u].amf, Protected(u, "challenge", g))
           /\ core'[u] = [core[u] EXCEPT !.chal = g, !.dl = @ + 1]
    BY <1>6 DEF AMFChallenges, ShapeInv
  <2> HIDE DEF plain
  <2>4. /\ core'[u].key = core[u].key /\ core'[u].chal = g /\ core'[u].res = core[u].res
        /\ core'[u].secured = core[u].secured /\ core'[u].again = core[u].again
        /\ core'[u].ul = core[u].ul
    BY <2>3, <1>1 DEF Core
  <2>5. PICK nas \in Genuine : /\ AMFSends(u, Dnt, core[u].ran, core[u].amf, nas)
                               /\ nas.kind = "challenge" /\ nas.rand = g
    BY <2>1, <2>2, <2>3, <1>3
  <2>6. Moves(u, Dnt, core[u].ran, core[u].amf, nas)
    BY <2>4, <2>5 DEF Moves
  <2> QED BY <2>5, <2>6, <1>1, <1>4, <1>5
<1>7. CASE AMFCommands(u)
  <2> DEFINE count == IF core[u].key = core[u].chal THEN core[u].dl ELSE 0
             nas == [NoNAS EXCEPT !.kind = "command", !.prot = "new",
                                  !.key = core[u].chal, !.count = count]
  <2>1. count \in Nat
    BY <1>1
  <2>2. /\ AMFSends(u, Dnt, core[u].ran, core[u].amf, nas)
        /\ core'[u] = [core[u] EXCEPT !.key = core[u].chal, !.dl = count + 1,
                                      !.secured = FALSE, !.again = FALSE]
        /\ core[u].chal # NoKey /\ core[u].res = core[u].chal
    BY <1>7 DEF AMFCommands, ShapeInv
  <2>3. nas \in Genuine /\ nas.kind = "command" /\ nas.key = core[u].chal
    <3> HIDE DEF count
    <3> QED BY <1>1, <2>1 DEF NoNAS, Genuine, NAS, Protections, NoKey
  <2> HIDE DEF count, nas
  <2>4. /\ core'[u].key = core[u].chal /\ core'[u].chal = core[u].chal
        /\ core'[u].res = core[u].res /\ core'[u].secured = FALSE
    BY <2>2, <1>1 DEF Core
  <2>5. Moves(u, Dnt, core[u].ran, core[u].amf, nas)
    BY <2>2, <2>3, <2>4 DEF Moves
  <2> QED BY <2>2, <2>3, <2>5, <1>1, <1>4, <1>5
<1>8. ASSUME NEW t \in NASBearers, NEW k \in {"other", "confirm"}, AMFInforms(u, t, k)
      PROVE  \E nas \in Genuine : AMFSends(u, t, core[u].ran, core[u].amf, nas)
                                  /\ Moves(u, t, core[u].ran, core[u].amf, nas)
  <2>1. /\ AMFSends(u, t, core[u].ran, core[u].amf, Protected(u, k, NoKey))
        /\ core'[u] = [core[u] EXCEPT !.dl = @ + 1]
    BY <1>8 DEF AMFInforms, ShapeInv
  <2>2. Protected(u, k, NoKey) \in Genuine /\ Protected(u, k, NoKey).kind = k
    BY <1>3 DEF NoKey
  <2>3. /\ core'[u].key = core[u].key /\ core'[u].chal = core[u].chal /\ core'[u].res = core[u].res
        /\ core'[u].secured = core[u].secured /\ core'[u].again = core[u].again
        /\ core'[u].ul = core[u].ul
    BY <2>1, <1>1 DEF Core
  <2>4. Moves(u, t, core[u].ran, core[u].amf, Protected(u, k, NoKey))
    BY <2>2, <2>3 DEF Moves
  <2> QED BY <2>1, <2>2, <2>4
<1>9. CASE AMFReleases(u)
  <2>1. PICK r \in {core[u].ran, NoId} : AMFSends(u, Release, r, core[u].amf, NoNAS)
    BY <1>9 DEF AMFReleases
  <2>2. core'[u] = [core[u] EXCEPT !.ran = 0]
    BY <1>9 DEF AMFReleases, ShapeInv
  <2>3. Moves(u, Release, r, core[u].amf, NoNAS)
    BY <2>2, <1>1, <1>2 DEF Moves, Core
  <2> QED BY <2>1, <2>3, <1>1, <1>2, <1>4, <1>5
<1>10. CASE AMFHandsOver(u)
  <2>1. PICK t \in HandoverTypes : AMFSends(u, t, core[u].ran, core[u].amf, NoNAS)
    BY <1>10 DEF AMFHandsOver
  <2>2. Moves(u, t, core[u].ran, core[u].amf, NoNAS)
    BY <1>10, <1>2 DEF AMFHandsOver, Moves
  <2> QED BY <2>1, <2>2, <1>1, <1>2, <1>4, <1>5
<1>11. CASE AMFPages(u)
  <2>1. AMFSends(u, Page, NoId, NoId, NoNAS) /\ Moves(u, Page, NoId, NoId, NoNAS)
    BY <1>11, <1>2 DEF AMFPages, Moves
  <2> QED BY <2>1, <1>2, <1>4
<1>12. CASE AMFErrs(u)
  <2>1. PICK r \in APIds, a \in APIds : AMFSends(u, Err, r, a, NoNAS)
    BY <1>12, <1>1, <1>2 DEF AMFErrs
  <2>2. Moves(u, Err, r, a, NoNAS)
    BY <1>12, <1>2 DEF AMFErrs, Moves
  <2> QED BY <2>1, <2>2, <1>2, <1>4, <1>5
<1>13. ASSUME NEW t \in NASBearers, NEW k \in {"other", "confirm"}, AMFInforms(u, t, k)
       PROVE  \E s \in MessageTypes, r \in APIds, a \in APIds, nas \in Genuine :
                /\ s = Page => r = NoId /\ a = NoId
                /\ AMFSends(u, s, r, a, nas) /\ Moves(u, s, r, a, nas)
  <2>1. t \in MessageTypes /\ t # Page
    BY <1>4, <1>5
  <2> QED BY <2>1, <1>1, <1>8, <1>13
<1>14. Dnt \in NASBearers
  BY DEF NASBearers
<1> QED BY <1>6, <1>7, <1>9, <1>10, <1>11, <1>12, <1>13, <1>14 DEF AMFStep

\* The AMF sends a UE the next challenge, or the command for the last one.
LEMMA KeyedAMF ==
    ASSUME ShapeInv, ShapeInv', NEW u \in UEs, Keyed(u), CarrierInv, AMFStep(u)
    PROVE  Keyed(u)' /\ CarrierInv' /\ \A v \in UEs \ {u} : Thinner(v)
<1>1. PICK t \in MessageTypes, r \in APIds, a \in APIds, nas \in Genuine :
        /\ t = Page => r = NoId /\ a = NoId
        /\ AMFSends(u, t, r, a, nas) /\ Moves(u, t, r, a, nas)
  BY AMFMoves
<1>2. /\ UNCHANGED <<sec, ran, amf, rand, call, lastAmf>> /\ core[u].ran # 0
      /\ core'[u].amf = core[u].amf /\ core'[u].ran \in {core[u].ran, 0}
  BY <1>1, AMFCases DEF AMFSends
<1>3. PICK n \in {nas, NoNAS} :
        LET l == [to |-> IF r = NoId /\ a = NoId THEN {} ELSE {u}, ran |-> r, amf |-> a, nas |-> n]
        IN l \in Label /\ frames' = File(frames, [type |-> t, label |-> l])
  BY <1>1, AMFFiles
<1> DEFINE l == [to |-> IF r = NoId /\ a = NoId THEN {} ELSE {u}, ran |-> r, amf |-> a, nas |-> n]
<1>4. /\ l \in Label /\ l.to = (IF r = NoId /\ a = NoId THEN {} ELSE {u}) /\ l.ran = r /\ l.amf = a
      /\ l.nas = n /\ frames' = File(frames, [type |-> t, label |-> l])
  BY <1>3
<1> HIDE DEF l
<1>5. /\ core[u].ran \in Nat /\ core[u].amf \in Nat /\ core[u].chal \in Nat /\ core[u].key \in Nat
      /\ core[u].res \in Nat /\ rand[u] \in Nat /\ lastAmf \in Nat /\ NoId \notin Nat
  BY DEF ShapeInv, Core, NoId
<1>6. n.kind \in {"challenge", "command"} => n = nas
  BY DEF NoNAS
<1>7. /\ For(u)' \subseteq IF t = Err THEN For(u) ELSE For(u) \cup {l}
      /\ \A x, y \in Label : Precedes(u, x, y)' =>
           Precedes(u, x, y) \/ (x \in For(u) /\ y = l /\ t = Dnt)
      /\ \A v \in UEs \ {u} : Thinner(v)
  <2>1. QueueInv
    BY DEF ShapeInv
  <2>2. \A v \in UEs \ {u} : l.to # {v}
    BY <1>4
  <2> QED BY <2>1, <2>2, <1>4, Thickened
<1>8. CarrierInv'
  <2>1. n.kind \in {"challenge", "command"} => t = Dnt /\ l.ran # NoId /\ l.amf # NoId
    BY <1>1, <1>4, <1>5, <1>6 DEF Moves
  <2>2. \A s \in MessageTypes : \A i \in DOMAIN frames'[s] :
          \/ i \in DOMAIN frames[s] /\ frames'[s][i] = frames[s][i]
          \/ s = t /\ frames'[s][i].label = l
    <3>1. [type |-> t, label |-> l].label = l
      OBVIOUS
    <3> QED BY <3>1, <1>4, FileFrame DEF ShapeInv
  <2> QED BY <2>1, <2>2, <1>4 DEF CarrierInv
<1>9. ASSUME NEW x \in For(u)', x \notin For(u)
      PROVE  x = l /\ l.amf = core[u].amf /\ l.ran \in {core[u].ran, NoId}
  <2>1. x = l /\ t # Err
    BY <1>7, <1>9
  <2>2. l.to = {u}
    BY <2>1 DEF For
  <2>3. t # Page
    BY <2>2, <1>1, <1>4
  <2> QED BY <2>1, <2>3, <1>1, <1>4 DEF Moves
<1>10. PairInv(u)'
  <2>1. core'[u].ran # 0 => core'[u].amf < lastAmf'
    BY <1>2 DEF Keyed, PairInv
  <2>2. core[u].amf < lastAmf
    BY <1>2 DEF Keyed, PairInv
  <2>3. ASSUME NEW x \in For(u)'
        PROVE  /\ x.amf # NoId /\ x.amf < lastAmf
               /\ x.amf = core[u].amf /\ x.ran # NoId => x.ran = core[u].ran
    <3>1. CASE x \in For(u)
      BY <3>1, <1>2 DEF Keyed, PairInv
    <3>2. CASE x \notin For(u)
      BY <3>2, <2>2, <1>5, <1>9
    <3> QED BY <3>1, <3>2
  <2>4. ASSUME NEW x \in For(u)', NEW y \in For(u)', x.amf = y.amf, x.ran # NoId, y.ran # NoId
        PROVE  x.ran = y.ran
    <3>1. CASE x \in For(u) /\ y \in For(u)
      BY <2>4, <3>1 DEF Keyed, PairInv
    <3>2. CASE x \notin For(u) \/ y \notin For(u)
      BY <2>3, <2>4, <3>2, <1>9
    <3> QED BY <3>1, <3>2
  <2> QED BY <2>1, <2>3, <2>4, <1>2 DEF PairInv
<1>11. /\ core[u].key <= rand[u] /\ rand[u] <= core[u].chal /\ core[u].res <= core[u].chal
       /\ core[u].res = core[u].chal /\ core[u].chal # NoKey =>
            rand[u] = core[u].chal /\ sec[u].kamf = core[u].chal
       /\ Agree(sec[u], core[u])
  BY DEF Keyed, KeyInv
<1>12. /\ core[u].key <= core'[u].key /\ core[u].chal <= core'[u].chal
       /\ core'[u].key \in Nat /\ core'[u].chal \in Nat
  BY <1>1, <1>5, <1>11 DEF Moves
<1>13. KeyInv(u)'
  <2>1. /\ core'[u].key <= rand[u] /\ rand[u] <= core'[u].chal /\ core'[u].res <= core'[u].chal
        /\ core'[u].res = core'[u].chal /\ core'[u].chal # NoKey =>
             rand[u] = core'[u].chal /\ sec[u].kamf = core'[u].chal
    BY <1>1, <1>5, <1>11 DEF Moves
  <2>2. Agree(sec[u], core'[u])
    BY <1>1, <1>11 DEF Moves, Agree
  <2> QED BY <2>1, <2>2, <1>2 DEF KeyInv
<1>14. AheadInv(u)'
  <2> SUFFICES ASSUME NEW x \in For(u)'
               PROVE  /\ x.nas.kind = "challenge" =>
                           x.nas.rand <= core'[u].chal /\ (Reaches(u, x) => rand[u] < x.nas.rand)
                      /\ x.nas.kind = "command" =>
                           /\ x.nas.key <= core'[u].key
                           /\ Reaches(u, x) => rand[u] = x.nas.key /\ sec[u].kamf = x.nas.key
    BY <1>2 DEF AheadInv, Reaches
  <2>1. CASE x \in For(u)
    <3>1. x.nas.rand \in Nat /\ x.nas.key \in Nat
      BY <2>1, LabelParts DEF For
    <3>2. x.nas.kind = "challenge" =>
            x.nas.rand <= core[u].chal /\ (Reaches(u, x) => rand[u] < x.nas.rand)
      BY <2>1 DEF Keyed, AheadInv
    <3>3. x.nas.kind = "command" =>
            /\ x.nas.key <= core[u].key
            /\ Reaches(u, x) => rand[u] = x.nas.key /\ sec[u].kamf = x.nas.key
      BY <2>1 DEF Keyed, AheadInv
    <3> QED BY <3>1, <3>2, <3>3, <1>5, <1>12
  <2>2. CASE x \notin For(u)
    <3>1. x = l
      BY <2>2, <1>9
    <3>2. x.nas = n
      BY <3>1, <1>4
    <3>3. CASE n.kind = "challenge"
      <4>1. n.rand = core[u].chal + 1 /\ core'[u].chal = core[u].chal + 1
        BY <3>3, <1>1, <1>6 DEF Moves
      <4> QED BY <3>2, <3>3, <4>1, <1>5, <1>11
    <3>4. CASE n.kind = "command"
      <4>1. /\ n.key = core[u].chal /\ core'[u].key = core[u].chal
            /\ core[u].res = core[u].chal /\ core[u].chal # NoKey
        BY <3>4, <1>1, <1>6 DEF Moves
      <4> QED BY <3>2, <3>4, <4>1, <1>5, <1>11
    <3> QED BY <3>2, <3>3, <3>4
  <2> QED BY <2>1, <2>2
<1>15. OrderInv(u)'
  <2> SUFFICES ASSUME NEW x \in Label, NEW y \in Label, Precedes(u, x, y)', x.nas.kind = "challenge"
               PROVE  /\ y.nas.kind = "challenge" => x.nas.rand < y.nas.rand
                      /\ y.nas.kind = "command" => x.nas.rand <= y.nas.key
    BY DEF OrderInv
  <2>1. CASE Precedes(u, x, y)
    BY <2>1 DEF Keyed, OrderInv
  <2>2. CASE x \in For(u) /\ y = l
    <3>1. x.nas.rand <= core[u].chal /\ x.nas.rand \in Nat
      BY <2>2, LabelParts DEF Keyed, AheadInv
    <3>2. y.nas = n
      BY <2>2, <1>4
    <3>3. n.kind = "challenge" => n.rand = core[u].chal + 1
      BY <1>1, <1>6 DEF Moves
    <3>4. n.kind = "command" => n.key = core[u].chal
      BY <1>1, <1>6 DEF Moves
    <3> QED BY <3>1, <3>2, <3>3, <3>4, <1>5
  <2> QED BY <2>1, <2>2, <1>7
<1>16. CallInv(u)'
  BY <1>2 DEF Keyed, CallInv
<1> QED BY <1>7, <1>8, <1>10, <1>13, <1>14, <1>15, <1>16 DEF Keyed

\* A step that changes nothing of v but its queue, which got no longer
LEMMA KeyedLess ==
    ASSUME ShapeInv, ShapeInv', KeyedInv, CarrierInv', \A v \in UEs : Thinner(v),
           UNCHANGED <<sec, ran, amf, rand, core, answer, lastAmf>>,
           \A v \in UEs : call'[v] \subseteq call[v]
    PROVE  KeyedInv'
<1>1. lastAmf <= lastAmf'
  BY DEF ShapeInv
<1>2. \A v \in UEs : Keyed(v)'
  BY <1>1, OthersKept DEF KeyedInv
<1>3. CommandsMeetTheirKeys'
  BY DEF KeyedInv, CommandsMeetTheirKeys
<1> QED BY <1>2, <1>3 DEF KeyedInv

\* The rest of the invariant, after a step of u that is shown to keep u's part
LEMMA KeyedRest ==
    ASSUME ShapeInv, ShapeInv', KeyedInv, NEW u \in UEs, UEStep(u) \/ AMFStep(u),
           Keyed(u)', CarrierInv', \A v \in UEs \ {u} : Thinner(v),
           \A x \in answer'[u] : x.kind = "command" /\ x.mac # "absent" => x.agrees
    PROVE  KeyedInv'
<1>1. ASSUME NEW v \in UEs \ {u}
      PROVE  Keyed(v)' /\ answer'[v] = answer[v]
  <2>1. /\ sec'[v] = sec[v] /\ ran'[v] = ran[v] /\ amf'[v] = amf[v] /\ rand'[v] = rand[v]
        /\ call'[v] = call[v] /\ answer'[v] = answer[v]
    BY Untouched
  <2>2. core'[v] = core[v] /\ lastAmf' \in {lastAmf, lastAmf + 1}
    BY CoreApart
  <2>3. lastAmf <= lastAmf'
    BY <2>2 DEF ShapeInv
  <2>4. Keyed(v) /\ Thinner(v)
    BY DEF KeyedInv
  <2>5. Keyed(v)'
    BY <2>1, <2>2, <2>3, <2>4, OthersKept
  <2> QED BY <2>1, <2>5
<1>2. CommandsMeetTheirKeys'
  BY <1>1 DEF KeyedInv, CommandsMeetTheirKeys
<1> QED BY <1>1, <1>2 DEF KeyedInv

LEMMA KeyedStep ==
    ASSUME ~Overrides
    PROVE  TunnelInv /\ ShapeInv /\ OwnInv /\ KeyedInv /\ [Next]_vars => KeyedInv'
<1> SUFFICES ASSUME TunnelInv, ShapeInv, OwnInv, KeyedInv, [Next]_vars PROVE KeyedInv'
  OBVIOUS
<1>1. ShapeInv'
  BY ShapeStep
<1>2. CarrierInv /\ \A u \in UEs : Keyed(u)
  BY DEF KeyedInv
<1>3. ASSUME NEW u \in UEs, NEW r \in Formed, NEW i \in Nat, Emit(u, r, i, amf[u]), SendsUnder(u, i),
             UEStep(u)
      PROVE  KeyedInv'
  <2>1. Keyed(u)' /\ answer'[u] = {}
    BY <1>1, <1>2, <1>3, KeyedEmit
  <2>2. frames' = frames
    BY <1>3 DEF Emit
  <2> QED BY <1>1, <1>2, <1>3, <2>1, <2>2, ThinnedNone, KeyedRest
<1>4. ASSUME NEW u \in UEs, NEW r \in Used, Send(u, r) PROVE KeyedInv'
  <2>1. EffectiveAmfIDs(u, r) = {amf[u]}
    BY DEF EffectiveAmfIDs
  <2>2. Emit(u, r, ran[u], amf[u]) /\ SendsUnder(u, ran[u])
    BY <1>4, <2>1 DEF Send, SendsUnder
  <2>3. r \in Formed /\ ran[u] \in Nat /\ UEStep(u)
    BY <1>4, RequestsFormed, Constants, SentUnder DEF UEStep
  <2> QED BY <2>2, <2>3, <1>3
<1>5. ASSUME NEW u \in UEs, SendAuthenticationResponse(u) PROVE KeyedInv'
  <2>1. Keyed(u)' /\ answer'[u] = {}
    BY <1>1, <1>2, <1>5, KeyedAuthentication
  <2>2. frames' = frames /\ UEStep(u)
    BY <1>5 DEF SendAuthenticationResponse, UEStep
  <2> QED BY <1>1, <1>2, <2>1, <2>2, ThinnedNone, KeyedRest
<1>6. ASSUME NEW u \in UEs, NEW r \in {ServiceRequest, Raw(ServiceRequest)}, SendServiceRequest(u, r)
      PROVE  KeyedInv'
  <2>1. lastRan + 1 \in Nat /\ r \in Formed /\ UEStep(u)
    BY <1>6, SentUnder, RequestsFormed DEF AllocateRANUENGAPID, UEStep
  <2>2. Emit(u, r, lastRan + 1, amf[u]) /\ SendsUnder(u, lastRan + 1)
    BY <1>6 DEF SendServiceRequest, AllocateRANUENGAPID, SendsUnder
  <2> QED BY <2>1, <2>2, <1>3
<1>7. ASSUME NEW u \in UEs, NEW r \in {RegistrationRequest, MobilityUpdate}, Reestablish(u, r)
      PROVE  KeyedInv'
  <2>1. lastRan + 1 \in Nat /\ Reestablishment(r) \in Formed /\ UEStep(u)
    BY <1>7, SentUnder, RequestsFormed DEF AllocateRANUENGAPID, UEStep
  <2>2. Emit(u, Reestablishment(r), lastRan + 1, amf[u]) /\ SendsUnder(u, lastRan + 1)
    BY <1>7 DEF Reestablish, AllocateRANUENGAPID, SendsUnder
  <2> QED BY <2>1, <2>2, <1>3
<1>8. ASSUME NEW u \in UEs, Fetch(u) PROVE KeyedInv'
  <2>1. UEStep(u)
    BY <1>8 DEF UEStep
  <2>2. /\ Keyed(u)' /\ CarrierInv' /\ \A v \in UEs : Thinner(v)
        /\ \A x \in answer'[u] : x.kind = "command" /\ x.mac # "absent" => x.agrees
    BY <1>1, <1>2, <1>8, KeyedFetch
  <2> QED BY <1>1, <2>1, <2>2, KeyedRest
<1>9. ASSUME NEW u \in UEs, TimeOut(u) PROVE KeyedInv'
  <2>1. /\ UNCHANGED <<sec, ran, amf, rand, core, answer, lastAmf, frames>>
        /\ \A v \in UEs : call'[v] \subseteq call[v]
    BY <1>9 DEF TimeOut, ShapeInv
  <2> QED BY <1>1, <1>2, <2>1, ThinnedNone, KeyedLess
<1>10. ASSUME NEW u \in UEs, AMFStep(u) PROVE KeyedInv'
  <2>1. Keyed(u)' /\ CarrierInv' /\ \A v \in UEs \ {u} : Thinner(v)
    BY <1>1, <1>2, <1>10, KeyedAMF
  <2>2. answer'[u] = answer[u]
    <3>1. PICK t, r, a, nas : AMFSends(u, t, r, a, nas)
      BY <1>10, AMFCases
    <3> QED BY <3>1 DEF AMFSends
  <2>3. \A x \in answer'[u] : x.kind = "command" /\ x.mac # "absent" => x.agrees
    BY <2>2 DEF KeyedInv, CommandsMeetTheirKeys
  <2> QED BY <1>1, <1>10, <2>1, <2>3, KeyedRest
<1>11. ASSUME NEW t \in MessageTypes, AwaitGNBMessage(t) PROVE KeyedInv'
  <2>1. UNCHANGED <<sec, ran, amf, rand, core, answer, lastAmf, call>>
    BY <1>11 DEF AwaitGNBMessage
  <2>2. QueueInv /\ QueueInv'
    BY <1>1 DEF ShapeInv
  <2>3. /\ \A s \in MessageTypes \ {t} : frames'[s] = frames[s]
        /\ \A i \in DOMAIN frames'[t] :
             Shift(i, 1) \in DOMAIN frames[t] /\ frames'[t][i] = frames[t][Shift(i, 1)]
    BY <1>11, <2>2, TailFrame DEF AwaitGNBMessage
  <2>4. (\A v \in UEs : Thinner(v)) /\ CarrierInv'
    BY <1>2, <2>2, <2>3, ThinnedOut
  <2> QED BY <1>1, <2>1, <2>4, KeyedLess
<1>12. CASE UNCHANGED vars
  <2>1. UNCHANGED <<sec, ran, amf, rand, core, answer, lastAmf, call, frames>>
    BY <1>12 DEF vars
  <2> QED BY <1>1, <1>2, <2>1, ThinnedNone, KeyedLess
<1> QED BY <1>4, <1>5, <1>6, <1>7, <1>8, <1>9, <1>10, <1>11, <1>12 DEF Next, UEStep

LEMMA KeyedInit == Init => KeyedInv
<1> SUFFICES ASSUME Init PROVE KeyedInv
  OBVIOUS
<1>1. \A t \in MessageTypes : DOMAIN frames[t] = {}
  <2>1. \A t \in MessageTypes : frames[t] = <<>>
    BY DEF Init, EmptyQueues
  <2> QED BY <2>1
<1>2. \A u \in UEs : /\ core[u].ran = 0 /\ core[u].key = 0 /\ core[u].chal = 0 /\ core[u].res = 0
                     /\ core[u].secured = FALSE /\ rand[u] = 0 /\ call[u] = {} /\ answer[u] = {}
  BY DEF Init, NoKey
<1>3. \A u \in UEs : For(u) = {} /\ \A l, k : ~Precedes(u, l, k)
  BY <1>1, Waits DEF For, Precedes
<1>4. ASSUME NEW u \in UEs PROVE Keyed(u)
  <2>1. PairInv(u) /\ OrderInv(u) /\ AheadInv(u)
    BY <1>2, <1>3 DEF PairInv, OrderInv, AheadInv
  <2>2. KeyInv(u) /\ CallInv(u)
    BY <1>2 DEF KeyInv, CallInv, Agree, NoKey
  <2> QED BY <2>1, <2>2 DEF Keyed
<1>5. CarrierInv /\ CommandsMeetTheirKeys
  BY <1>1, <1>2 DEF CarrierInv, CommandsMeetTheirKeys
<1> QED BY <1>4, <1>5 DEF KeyedInv

LEMMA KeyedAlways ==
    ASSUME ~Overrides
    PROVE  Spec => []KeyedInv
<1>1. Init => OwnInv /\ KeyedInv
  BY OwnInit, KeyedInit
<1>2. TunnelInv /\ ShapeInv /\ (OwnInv /\ KeyedInv) /\ [Next]_vars => (OwnInv /\ KeyedInv)'
  BY OwnStep, KeyedStep
<1> QED BY <1>1, <1>2, Shaped, PTL DEF Spec

\* A SECURITY MODE COMMAND that a handler unwraps installs the keys it was made with
\* (gnb_security.go), for any number of UEs, challenges, retransmissions, timeouts
\* and late answers: as long as no request forges an AMF id, a challenge that can
\* still be taken is newer than the one the UE has, and no command that can still be
\* taken is for another Kamf than the UE's.
THEOREM CommandsMeet ==
    ASSUME ~Overrides
    PROVE  Spec => []CommandsMeetTheirKeys
<1>1. KeyedInv => CommandsMeetTheirKeys
  BY DEF KeyedInv
<1> QED BY <1>1, KeyedAlways, PTL

\* Once the AMF has heard a UE under its keys, and only once, the UE's UL COUNT is
\* the one it expects (encodeGNBUplinkNAS), for any number of UEs and uplinks, over
\* re-authentications, retransmitted commands and acknowledgements.
THEOREM UplinksStayInStep ==
    ASSUME ~Overrides
    PROVE  Spec => []UplinksInStep
<1>1. KeyedInv => UplinksInStep
  BY DEF KeyedInv, Keyed, KeyInv, Agree, UplinksInStep
<1> QED BY <1>1, KeyedAlways, PTL
=============================================================================
