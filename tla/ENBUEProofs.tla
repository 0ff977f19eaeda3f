----------------------------- MODULE ENBUEProofs -----------------------------
(***************************************************************************)
(* TLAPS proofs about ENBUE, for any number of UEs, requests and messages. *)
(***************************************************************************)
EXTENDS ENBUE, NASContextProofs, FiniteSetTheorems, SequenceTheorems, WellFoundedInduction

(***************************************************************************)
(* Downlink TEIDs                                                          *)
(***************************************************************************)

\* The eNB's counter has not passed the first 255 UEs.
FewUEs == \A u \in UEs : ENBUES1APID[u] < 256

\* A bearer of UE u: the default one under its eNB id, any other under the id
\* shifted out of the bearer identity's way.
BearerOf(u) ==
    {b \in [ebi : EBIs \cup {DefaultBearer}, teid : Nat] :
        b.teid = IF b.ebi = DefaultBearer THEN ENBUES1APID[u] ELSE DLTeid(ENBUES1APID[u], b.ebi)}

BearerInv == bearers \in [UEs -> SUBSET [ebi : EBIs \cup {DefaultBearer}, teid : Nat]]
             /\ \A u \in UEs : bearers[u] \subseteq BearerOf(u)

\* Bearer identities are four bits wide, and none stands for the default bearer.
LEMMA Identities ==
    /\ \A u \in UEs : ENBUES1APID[u] \in Nat \ {0}
    /\ \A e \in EBIs : e \in 1..15 /\ e # DefaultBearer
BY ENBUEAssumption DEF DefaultBearer

\* Every bearer a handler leaves behind is one of the UE's (AfterActing).
LEMMA ActingKeeps ==
    ASSUME BearerInv, NEW u \in UEs, NEW act, NEW e, act = "connect" => e \in EBIs
    PROVE  AfterActing(u, act, e) \subseteq BearerOf(u)
<1>1. bearers[u] \subseteq BearerOf(u)
  BY DEF BearerInv
<1>2. CASE act = "attach"
  <2>1. [ebi |-> DefaultBearer, teid |-> ENBUES1APID[u]] \in BearerOf(u)
    BY Identities DEF BearerOf
  <2> QED BY <1>1, <1>2, <2>1 DEF AfterActing
<1>3. CASE act = "connect"
  <2>1. e \in EBIs /\ DLTeid(ENBUES1APID[u], e) \in Nat
    BY <1>3, Identities DEF DLTeid
  <2>2. [ebi |-> e, teid |-> DLTeid(ENBUES1APID[u], e)] \in BearerOf(u)
    BY <2>1, Identities DEF BearerOf
  <2> QED BY <1>1, <1>3, <2>2 DEF AfterActing
<1>4. CASE act \notin {"attach", "connect"}
  BY <1>1, <1>4 DEF AfterActing
<1> QED BY <1>2, <1>3, <1>4

\* A handler takes up a bearer only when the message names one.
LEMMA ConnectNamesBearer ==
    ASSUME NEW w, NEW f, NEW read, Acts(w, f, read) = "connect"
    PROVE  f.label.nas.arg \in EBIs
BY DEF Acts

\* The bearers of a UE change when a wait finds a message, and only then.
LEMMA OnlyFetch == [Next]_vars => bearers' = bearers \/ \E u \in UEs : Fetch(u)
<1> SUFFICES ASSUME [Next]_vars, \A u \in UEs : ~Fetch(u) PROVE bearers' = bearers
  OBVIOUS
<1>1. ASSUME NEW u \in UEs, NEW r, Send(u, r) PROVE bearers' = bearers
  BY <1>1 DEF Send, Emit
<1>2. ASSUME NEW u \in UEs, SendAuthenticationResponse(u) \/ SendDeactivateAccept(u) \/ TimeOut(u)
      PROVE  bearers' = bearers
  BY <1>2 DEF SendAuthenticationResponse, SendDeactivateAccept, TimeOut
<1>3. ASSUME NEW u \in UEs, Reestablish(u) PROVE bearers' = bearers
  BY <1>3 DEF Reestablish, Emit
<1>4. ASSUME NEW u \in UEs, MMEStep(u) PROVE bearers' = bearers
  BY <1>4 DEF MMEStep, MMEChallenges, MMECommands, MMEAnswers, MMEActivates, MMEDeactivates,
              MMEInforms, MMEReleases, MMEHandsOver, MMEPages, MMEErrs, MMESends
<1>5. ASSUME NEW t, AwaitENBMessage(t) PROVE bearers' = bearers
  BY <1>5 DEF AwaitENBMessage
<1>6. CASE UNCHANGED vars
  BY <1>6 DEF vars
<1> QED BY <1>1, <1>2, <1>3, <1>4, <1>5, <1>6 DEF Next, UEStep

LEMMA BearerStep == BearerInv /\ [Next]_vars => BearerInv'
<1> SUFFICES ASSUME BearerInv, [Next]_vars PROVE BearerInv'
  OBVIOUS
<1>1. CASE bearers' = bearers
  BY <1>1 DEF BearerInv, BearerOf, DLTeid
<1>2. ASSUME NEW u \in UEs, Fetch(u) PROVE BearerInv'
  <2>0. PICK w, f : Handle(u, w, f)
    BY <1>2 DEF Fetch
  <2> DEFINE read == Unwraps(w, f) /\ Readable(sec[u], f.label.nas)
  <2>1. bearers' = [bearers EXCEPT ![u] = AfterActing(u, Acts(w, f, read), f.label.nas.arg)]
    BY <2>0 DEF Handle
  <2> HIDE DEF read
  <2>2. AfterActing(u, Acts(w, f, read), f.label.nas.arg) \subseteq BearerOf(u)
    BY ActingKeeps, ConnectNamesBearer
  <2>3. BearerOf(u) \subseteq [ebi : EBIs \cup {DefaultBearer}, teid : Nat]
    BY DEF BearerOf
  <2>4. /\ bearers' \in [UEs -> SUBSET [ebi : EBIs \cup {DefaultBearer}, teid : Nat]]
        /\ \A v \in UEs : bearers'[v] \subseteq BearerOf(v)
    BY <2>1, <2>2, <2>3 DEF BearerInv
  <2> QED BY <2>4 DEF BearerInv, BearerOf, DLTeid
<1> QED BY <1>1, <1>2, OnlyFetch

\* While the eNB ids stay below 256, a default bearer's TEID is below every
\* other's, and these name the UE and the bearer.
LEMMA BearerInvDistinct == FewUEs /\ BearerInv => TunnelsDistinct
<1> SUFFICES ASSUME FewUEs, BearerInv, NEW u \in UEs, NEW v \in UEs,
                    NEW b \in bearers[u], NEW c \in bearers[v], b.teid = c.teid
             PROVE  u = v /\ b = c
  BY DEF TunnelsDistinct
<1> DEFINE i == ENBUES1APID[u]
           j == ENBUES1APID[v]
<1>1. b \in BearerOf(u) /\ c \in BearerOf(v)
  BY DEF BearerInv
<1>2. /\ b \in [ebi : EBIs \cup {DefaultBearer}, teid : Nat]
      /\ c \in [ebi : EBIs \cup {DefaultBearer}, teid : Nat]
      /\ b.teid = IF b.ebi = DefaultBearer THEN i ELSE i * 256 + b.ebi
      /\ c.teid = IF c.ebi = DefaultBearer THEN j ELSE j * 256 + c.ebi
  BY <1>1 DEF BearerOf, DLTeid
<1>3. i \in 1..255 /\ j \in 1..255
  BY Identities DEF FewUEs
<1>4. /\ b.ebi = DefaultBearer \/ b.ebi \in 1..15
      /\ c.ebi = DefaultBearer \/ c.ebi \in 1..15
  BY <1>2, Identities
<1> HIDE DEF i, j
<1>5. i = j /\ b.ebi = c.ebi
  <2> DEFINE x == b.ebi
             y == c.ebi
  <2>0. x \in 0..15 /\ y \in 0..15
    BY <1>4 DEF DefaultBearer
  <2>1. (IF x = 0 THEN i ELSE i * 256 + x) = (IF y = 0 THEN j ELSE j * 256 + y)
    <3>1. b.teid = c.teid
      OBVIOUS
    <3> QED BY <1>2, <3>1, Zenon DEF DefaultBearer
  <2> HIDE DEF x, y
  <2>2. i = j /\ x = y
    BY <1>3, <2>0, <2>1
  <2> QED BY <2>2 DEF x, y
<1>6. u = v
  BY <1>5, ENBUEAssumption DEF i, j
<1>7. b = [ebi |-> b.ebi, teid |-> b.teid] /\ c = [ebi |-> c.ebi, teid |-> c.teid]
  BY <1>2
<1> QED BY <1>5, <1>6, <1>7

\* No two bearers of an eNB with fewer than 256 UE ids handed out share a
\* downlink TEID, for any number of PDN connections set up and dropped.
THEOREM BearersStayDistinct == FewUEs => (Spec => []TunnelsDistinct)
<1>1. Init => BearerInv
  BY DEF Init, BearerInv
<1>2. Spec => []BearerInv
  BY <1>1, BearerStep, PTL DEF Spec
<1>3. FewUEs /\ []BearerInv => []TunnelsDistinct
  <2> SUFFICES ASSUME FewUEs PROVE []BearerInv => []TunnelsDistinct
    OBVIOUS
  <2>1. BearerInv => TunnelsDistinct
    BY BearerInvDistinct
  <2> QED BY <2>1, PTL
<1> QED BY <1>2, <1>3

(***************************************************************************)
(* Lemmas about the queues                                                 *)
(***************************************************************************)

\* Every non-empty set of naturals has a least element.
LEMMA LeastNatural ==
    ASSUME NEW S \in SUBSET Nat, S # {}
    PROVE  \E m \in S : \A n \in S : m <= n
<1> DEFINE R == OpToRel(<, Nat)
<1>1. IsWellFoundedOn(R, Nat)
  BY NatLessThanWellFounded
<1>2. PICK m \in S : \A n \in S : ~ (<<n, m>> \in R)
  <2> HIDE DEF R
  <2> QED BY <1>1, WFMin
<1>3. \A n \in S : ~ (n < m)
  BY <1>2 DEF OpToRel
<1> QED BY <1>3

\* What is queued under a type was filed as that type, with ids or without.
APIds == Nat \cup {NoId}

\* A SECURITY MODE COMMAND takes a new context into use, and nothing else does.
Genuine == {n \in NAS : n.prot = "new" <=> n.kind = "command"}

Label == [to : SUBSET UEs, enb : APIds, mme : APIds, nas : Genuine]

FrameOf(t) == [type : {t}, label : Label]

QueueInv ==
    /\ frames = [t \in MessageTypes |-> frames[t]]
    /\ \A t \in MessageTypes : frames[t] \in Seq(FrameOf(t))

\* Filing adds the new frame at the end of its queue, and that only.
LEMMA FileFrame ==
    ASSUME QueueInv, NEW t \in MessageTypes, NEW l \in Label,
           frames' = File(frames, [type |-> t, label |-> l])
    PROVE  /\ QueueInv'
           /\ \A s \in MessageTypes : \A i \in DOMAIN frames'[s] :
                \/ i \in DOMAIN frames[s] /\ frames'[s][i] = frames[s][i]
                \/ /\ s = t /\ frames'[s][i] = [type |-> t, label |-> l]
                   /\ \A j \in DOMAIN frames'[s] : j <= i
<1> DEFINE f == [type |-> t, label |-> l]
<1>1. f \in FrameOf(t) /\ f.type = t
  BY DEF FrameOf
<1> HIDE DEF f
<1>2. frames' = [frames EXCEPT ![t] = Append(@, f)]
  BY <1>1 DEF File, f
<1>3. /\ frames' = [s \in MessageTypes |-> frames'[s]]
      /\ frames'[t] = Append(frames[t], f) /\ \A s \in MessageTypes \ {t} : frames'[s] = frames[s]
  BY <1>2 DEF QueueInv
<1>4. Append(frames[t], f) \in Seq(FrameOf(t))
  BY <1>1 DEF QueueInv
<1>5. QueueInv'
  BY <1>3, <1>4 DEF QueueInv
<1>6. ASSUME NEW i \in DOMAIN frames'[t]
      PROVE  \/ i \in DOMAIN frames[t] /\ frames'[t][i] = frames[t][i]
             \/ frames'[t][i] = f /\ \A j \in DOMAIN frames'[t] : j <= i
  <2>1. /\ frames[t] \in Seq(FrameOf(t)) /\ Len(frames[t]) \in Nat
        /\ DOMAIN frames'[t] = 1..(Len(frames[t]) + 1) /\ i \in 1..(Len(frames[t]) + 1)
    BY <1>3, <1>1, <1>6 DEF QueueInv
  <2>2. CASE i = Len(frames[t]) + 1
    BY <2>1, <2>2, <1>1, <1>3
  <2>3. CASE i # Len(frames[t]) + 1
    <3>1. i \in 1..Len(frames[t]) /\ i \in DOMAIN frames[t]
      BY <2>1, <2>3
    <3> QED BY <2>1, <3>1, <1>1, <1>3
  <2> QED BY <2>2, <2>3
<1> QED BY <1>3, <1>5, <1>6 DEF f

\* Where the i-th frame was before the m-th was taken out
Shift(i, m) == IF i < m THEN i ELSE i + 1

\* Taking a position out leaves the others, in their order.
LEMMA RemoveFrame ==
    ASSUME QueueInv, NEW t \in MessageTypes, NEW m \in 1..Len(frames[t]),
           frames' = [frames EXCEPT ![t] = RemoveAt(@, m)]
    PROVE  /\ QueueInv'
           /\ \A s \in MessageTypes \ {t} : frames'[s] = frames[s]
           /\ \A i \in DOMAIN frames'[t] :
                Shift(i, m) \in DOMAIN frames[t] /\ frames'[t][i] = frames[t][Shift(i, m)]
<1> DEFINE q == frames[t]
           a == SubSeq(q, 1, m - 1)
           b == SubSeq(q, m + 1, Len(q))
<1>1. q \in Seq(FrameOf(t)) /\ Len(q) \in Nat /\ DOMAIN q = 1..Len(q) /\ m \in 1..Len(q)
  BY DEF QueueInv
<1> HIDE DEF q
<1>2. /\ a \in Seq(FrameOf(t)) /\ Len(a) = m - 1
      /\ \A k \in 1..(m - 1) : a[k] = q[k]
  BY <1>1 DEF q
<1>3. /\ b \in Seq(FrameOf(t)) /\ Len(b) = Len(q) - m
      /\ \A k \in 1..(Len(q) - m) : b[k] = q[m + k]
  BY <1>1 DEF q
<1>4. RemoveAt(q, m) = a \o b
  BY DEF RemoveAt
<1> HIDE DEF a, b
<1>5. /\ a \o b \in Seq(FrameOf(t)) /\ DOMAIN (a \o b) = 1..(Len(a) + Len(b))
      /\ \A k \in 1..(Len(a) + Len(b)) :
           (a \o b)[k] = IF k <= Len(a) THEN a[k] ELSE b[k - Len(a)]
  <2>1. /\ a \o b \in Seq(FrameOf(t)) /\ Len(a \o b) = Len(a) + Len(b)
        /\ \A k \in 1..(Len(a) + Len(b)) :
             (a \o b)[k] = IF k <= Len(a) THEN a[k] ELSE b[k - Len(a)]
    BY <1>2, <1>3, ConcatProperties
  <2>2. DOMAIN (a \o b) = 1..Len(a \o b)
    BY <2>1, LenProperties
  <2> QED BY <2>1, <2>2
<1>6. /\ frames' = [s \in MessageTypes |-> frames'[s]]
      /\ frames'[t] = a \o b /\ \A s \in MessageTypes \ {t} : frames'[s] = frames[s]
  BY <1>4 DEF QueueInv, q
<1>7. QueueInv'
  BY <1>5, <1>6 DEF QueueInv
<1>8. ASSUME NEW i \in 1..(Len(a) + Len(b))
      PROVE  Shift(i, m) \in DOMAIN q /\ (a \o b)[i] = q[Shift(i, m)]
  <2>1. CASE i <= Len(a)
    <3>1. i \in 1..(m - 1) /\ i \in DOMAIN q /\ (a \o b)[i] = a[i] /\ Shift(i, m) = i
      BY <2>1, <1>1, <1>2, <1>5 DEF Shift
    <3> QED BY <3>1, <1>2
  <2>2. CASE ~(i <= Len(a))
    <3>1. /\ i - Len(a) \in 1..(Len(q) - m) /\ m + (i - Len(a)) \in DOMAIN q
          /\ Shift(i, m) = m + (i - Len(a))
      BY <2>2, <1>1, <1>2, <1>3 DEF Shift
    <3> QED BY <2>2, <3>1, <1>3, <1>5
  <2> QED BY <2>1, <2>2
<1> QED BY <1>5, <1>6, <1>7, <1>8 DEF q

\* The search finds the first frame of a wanted type that is accepted.
LEMMA SearchHit ==
    ASSUME QueueInv, NEW r, r.types \in Seq(MessageTypes), Hits(frames, r) # {},
           NEW p, p = FirstHit(frames, r)
    PROVE  /\ r.types[p[1]] \in MessageTypes /\ p[2] \in 1..Len(frames[r.types[p[1]]])
           /\ FrameAt(frames, r, p).label \in r.accept
           /\ \A k \in 1..(p[2] - 1) : frames[r.types[p[1]]][k].label \notin r.accept
<1> DEFINE H == Hits(frames, r)
<1>1. \A x \in H : /\ x \in Nat \X Nat /\ r.types[x[1]] \in MessageTypes
                   /\ x[2] \in 1..Len(frames[r.types[x[1]]])
                   /\ FrameAt(frames, r, x).label \in r.accept
  <2>1. \A t \in MessageTypes : DOMAIN frames[t] = 1..Len(frames[t]) /\ Len(frames[t]) \in Nat
    BY DEF QueueInv
  <2>2. \A i \in DOMAIN r.types : i \in Nat /\ r.types[i] \in MessageTypes
    OBVIOUS
  <2> QED BY <2>1, <2>2 DEF Hits, FrameAt
<1> HIDE DEF H
<1> DEFINE I == {x[1] : x \in H}
<1>2. PICK i \in I : \A k \in I : i <= k
  <2>1. I \in SUBSET Nat /\ I # {}
    BY <1>1 DEF H
  <2> QED BY <2>1, LeastNatural
<1> DEFINE J == {x[2] : x \in {q \in H : q[1] = i}}
<1>3. PICK j \in J : \A k \in J : j <= k
  <2>1. J \in SUBSET Nat /\ J # {}
    BY <1>1, <1>2
  <2> QED BY <2>1, LeastNatural
<1>4. PICK x \in H : x[1] = i /\ x[2] = j
  BY <1>3
<1>5. \A q \in H : Before(x, q)
  <2> SUFFICES ASSUME NEW q \in H PROVE Before(x, q)
    OBVIOUS
  <2>1. q[1] \in Nat /\ q[2] \in Nat /\ x[1] \in Nat /\ x[2] \in Nat /\ i <= q[1]
    BY <1>1, <1>2
  <2>2. q[1] = i => j <= q[2]
    BY <1>3
  <2> QED BY <1>4, <2>1, <2>2 DEF Before
<1>6. FirstHit(frames, r) \in H /\ \A q \in H : Before(FirstHit(frames, r), q)
  BY <1>5 DEF FirstHit, H
<1> DEFINE h == FirstHit(frames, r)
<1>7. ASSUME NEW k \in 1..(h[2] - 1), frames[r.types[h[1]]][k].label \in r.accept PROVE FALSE
  <2> HIDE DEF h
  <2>0. h \in H /\ (\A q \in H : Before(h, q))
    BY <1>6 DEF h
  <2>1. h \in H /\ (\A q \in H : Before(h, q)) /\ h[1] \in Nat /\ h[2] \in Nat
    BY <2>0, <1>1
  <2>2. h[1] \in DOMAIN r.types /\ h[2] \in DOMAIN frames[r.types[h[1]]]
    <3>1. \A q \in H : \E n \in DOMAIN r.types : q \in {n} \X DOMAIN frames[r.types[n]]
      BY DEF H, Hits
    <3>2. PICK n \in DOMAIN r.types : h \in {n} \X DOMAIN frames[r.types[n]]
      BY <2>1, <3>1
    <3> QED BY <3>2
  <2>3. k \in DOMAIN frames[r.types[h[1]]]
    BY <2>1, <2>2, <1>1 DEF QueueInv
  <2>4. <<h[1], k>> \in H
    <3>1. \A n \in DOMAIN r.types : \A l \in DOMAIN frames[r.types[n]] :
            frames[r.types[n]][l].label \in r.accept => <<n, l>> \in H
      BY DEF H, Hits
    <3> QED BY <2>2, <2>3, <1>7, <3>1
  <2>5. <<h[1], k>>[1] = h[1] /\ <<h[1], k>>[2] = k
    OBVIOUS
  <2> QED BY <2>1, <2>4, <2>5 DEF Before
<1>8. p = h
  OBVIOUS
<1> QED BY <1>1, <1>6, <1>7, <1>8

\* An eNB-level wait takes the first frame of a type.
LEMMA TailFrame ==
    ASSUME QueueInv, NEW t \in MessageTypes, frames[t] # <<>>,
           frames' = [frames EXCEPT ![t] = Tail(@)]
    PROVE  /\ QueueInv'
           /\ \A s \in MessageTypes \ {t} : frames'[s] = frames[s]
           /\ \A i \in DOMAIN frames'[t] :
                Shift(i, 1) \in DOMAIN frames[t] /\ frames'[t][i] = frames[t][Shift(i, 1)]
<1> DEFINE q == frames[t]
<1>1. q \in Seq(FrameOf(t)) /\ q # <<>>
  BY DEF QueueInv
<1>2. /\ frames' = [s \in MessageTypes |-> frames'[s]]
      /\ frames'[t] = Tail(q) /\ \A s \in MessageTypes \ {t} : frames'[s] = frames[s]
  BY DEF QueueInv
<1> HIDE DEF q
<1>3. /\ Tail(q) \in Seq(FrameOf(t)) /\ Len(q) \in Nat /\ DOMAIN q = 1..Len(q)
      /\ DOMAIN Tail(q) = 1..(Len(q) - 1) /\ \A i \in 1..(Len(q) - 1) : Tail(q)[i] = q[i + 1]
  BY <1>1
<1>4. ASSUME NEW i \in DOMAIN Tail(q) PROVE Shift(i, 1) \in DOMAIN q /\ Tail(q)[i] = q[Shift(i, 1)]
  <2>1. i + 1 \in DOMAIN q /\ Tail(q)[i] = q[i + 1] /\ Shift(i, 1) = i + 1
    BY <1>3 DEF Shift
  <2> QED BY <2>1
<1>5. QueueInv'
  BY <1>2, <1>3 DEF QueueInv
<1> QED BY <1>2, <1>4, <1>5 DEF q

(***************************************************************************)
(* What the decoder makes of the MME's messages                            *)
(***************************************************************************)

\* Every message of the MME is named by its procedure.
LEMMA Named ==
    ASSUME NEW t \in MessageTypes, NEW e, NEW a, NEW nas
    PROVE  MessageType(PDU(t, e, a, nas)) = t
<1>1. PDU(t, e, a, nas).kind = ProcedureOf[t][1] /\ PDU(t, e, a, nas).procedure = ProcedureOf[t][2]
  BY DEF PDU
<1>2. t \in {Dnt, Ics, Setup, Modify, Drop, Release, Status, Page, Err} =>
        /\ ProcedureOf[t][1] = "initiating_message"
        /\ ProcedureOf[t][2] \in DOMAIN InitiatingName /\ InitiatingName[ProcedureOf[t][2]] = t
  BY DEF ProcedureOf, InitiatingName, Dnt, Ics, Setup, Modify, Drop, Release, Status, Page, Err
<1>3. t \in {CancelAck, Command} =>
        /\ ProcedureOf[t][1] = "successful_outcome"
        /\ ProcedureOf[t][2] \in DOMAIN SuccessfulName
        /\ SuccessfulName[ProcedureOf[t][2]] = t
  BY DEF ProcedureOf, SuccessfulName, CancelAck, Command
<1>4. t = NotPrepared =>
        /\ ProcedureOf[t][1] = "unsuccessful_outcome"
        /\ ProcedureOf[t][2] \in DOMAIN UnsuccessfulName
        /\ UnsuccessfulName[ProcedureOf[t][2]] = t
  BY DEF ProcedureOf, UnsuccessfulName, NotPrepared
<1> QED BY <1>1, <1>2, <1>3, <1>4 DEF MessageTypes, HandoverTypes, MessageType

\* The messages that say whose they are by a pair of ids
Addressed == MessageTypes \ {Release, Page}

\* The messages that may carry a NAS PDU
NASBearers == {Dnt, Ics, Setup, Modify, Drop}

\* Which messages carry a NAS PDU, and where
LEMMA Carries ==
    /\ \A t \in {Dnt, Drop} : NASCarrier(t) = {"NASPDU"}
    /\ \A t \in {Ics, Setup} : NASCarrier(t) = {"ERABToBeSetup"}
    /\ NASCarrier(Modify) = {"ERABToBeModified"}
    /\ \A t \in HandoverTypes \cup {Release, Page, Err} : NASCarrier(t) = {}
<1>1. \A t \in {Dnt, Drop} : NASCarrier(t) = {"NASPDU"}
  BY DEF NASCarrier, Dnt, Ics, Drop, Setup, Modify
<1>2. \A t \in {Ics, Setup} : NASCarrier(t) = {"ERABToBeSetup"}
  BY DEF NASCarrier, Dnt, Ics, Drop, Setup, Modify
<1>3. NASCarrier(Modify) = {"ERABToBeModified"}
  BY DEF NASCarrier, Dnt, Ics, Drop, Setup, Modify
<1>4. \A t \in HandoverTypes \cup {Release, Page, Err} : NASCarrier(t) = {}
  BY DEF NASCarrier, Dnt, Ics, Drop, Setup, Modify, HandoverTypes, CancelAck, Command, NotPrepared,
         Status, Release, Page, Err
<1> QED BY <1>1, <1>2, <1>3, <1>4

\* The decoders of the others read the ids and the NAS PDU wherever it is.
LEMMA ReadsAddressed ==
    ASSUME NEW t \in Addressed
    PROVE  /\ t \in DOMAIN Decoders /\ setUEIDs \cup NASCarrier(t) \subseteq Decoders[t]
           /\ NASCarrier(t) \cap (setUEIDs \cup {"UES1APIDs"}) = {}
<1>1. t \in {Dnt, Drop} => t \in DOMAIN Decoders /\ setUEIDs \cup {"NASPDU"} \subseteq Decoders[t]
  BY DEF Decoders, Dnt, Drop, decodeDownlinkNASTransport, decodeERABReleaseCommand
<1>2. t \in {Ics, Setup} => t \in DOMAIN Decoders /\ setUEIDs \cup {"ERABToBeSetup"} \subseteq Decoders[t]
  BY DEF Decoders, Ics, Setup, decodeInitialContextSetupRequest, decodeERABSetupRequest
<1>3. t = Modify => t \in DOMAIN Decoders /\ setUEIDs \cup {"ERABToBeModified"} \subseteq Decoders[t]
  BY DEF Decoders, Modify, decodeERABModifyRequest
<1>4. t \in {CancelAck, Command, NotPrepared} => t \in DOMAIN Decoders /\ setUEIDs \subseteq Decoders[t]
  BY DEF Decoders, CancelAck, Command, NotPrepared, decodeHandoverCancelAcknowledge,
         decodeHandoverCommand, decodeHandoverPreparationFailure
<1>5. t \in {Status, Err} => t \in DOMAIN Decoders /\ setUEIDs \subseteq Decoders[t]
  BY DEF Decoders, Status, Err, decodeMMEStatusTransfer, decodeErrorIndication
<1>6. t \in NASBearers \cup HandoverTypes \cup {Err}
  BY DEF Addressed, MessageTypes, NASBearers
<1>7. t \in DOMAIN Decoders /\ setUEIDs \cup NASCarrier(t) \subseteq Decoders[t]
  BY <1>1, <1>2, <1>3, <1>4, <1>5, <1>6, Carries DEF NASBearers, HandoverTypes
<1>8. NASCarrier(t) \subseteq {"NASPDU", "ERABToBeSetup", "ERABToBeModified"}
  BY <1>6, Carries DEF NASBearers
<1>9. {"NASPDU", "ERABToBeSetup", "ERABToBeModified"} \cap (setUEIDs \cup {"UES1APIDs"}) = {}
  BY DEF setUEIDs
<1> QED BY <1>7, <1>8, <1>9

LEMMA ReadsOthers ==
    /\ Release \in DOMAIN Decoders /\ Decoders[Release] = {"UES1APIDs", "Cause"}
    /\ Page \in DOMAIN Decoders /\ Decoders[Page] = {"STMSI", "UEIdentityIndexValue", "CNDomain"}
BY DEF Decoders, Release, Page, decodeUEContextReleaseCommand, decodePaging

\* A message is filed under its type, as of the UE and under the ids that the MME
\* gave it, with a NAS PDU that the MME put into it or none.
LEMMA FiledAs ==
    ASSUME NEW t \in MessageTypes, NEW e, NEW a, t = Page => e = NoId /\ a = NoId,
           NEW nas \in NAS, NEW to
    PROVE  \E n \in {nas, NoNAS} :
             Filed(PDU(t, e, a, nas), to) =
               [type |-> t, label |-> [to |-> to, enb |-> e, mme |-> a, nas |-> n]]
<1> DEFINE pdu == PDU(t, e, a, nas)
           ids == {x \in setUEIDs : (IF x = "ENBUES1APID" THEN e ELSE a) # NoId}
           carried == IF t = Release THEN {"UES1APIDs"} ELSE ids \cup NASCarrier(t)
<1>1. /\ DOMAIN pdu.ies = carried
      /\ \A x \in carried \cap setUEIDs : pdu.ies[x] = IF x = "ENBUES1APID" THEN e ELSE a
      /\ "UES1APIDs" \in carried =>
           pdu.ies["UES1APIDs"] = [x \in ids |-> IF x = "ENBUES1APID" THEN e ELSE a]
      /\ "NASPDU" \in carried => pdu.ies["NASPDU"] = nas
      /\ \A x \in carried \cap ItemLists : pdu.ies[x] = <<[nas |-> {}], [nas |-> {nas}]>>
  BY DEF PDU, ItemLists, setUEIDs
<1>2. MessageType(pdu) = t
  BY Named
<1> HIDE DEF pdu
<1>3. Seen(pdu) = IF t = Page THEN {} ELSE carried
  <2>1. CASE t \in Addressed
    BY <2>1, <1>1, <1>2, ReadsAddressed DEF Seen, Addressed
  <2>2. CASE t = Release
    BY <2>2, <1>1, <1>2, ReadsOthers DEF Seen, Release, Page
  <2>3. CASE t = Page
    BY <2>3, <1>1, <1>2, ReadsOthers, Carries DEF Seen, setUEIDs, Release, Page
  <2> QED BY <2>1, <2>2, <2>3 DEF Addressed
<1>4. IdOf(pdu, "ENBUES1APID") = e /\ IdOf(pdu, "MMEUES1APID") = a
  <2>1. CASE t \in Addressed
    <3>1. Seen(pdu) = ids \cup NASCarrier(t) /\ NASCarrier(t) \cap (setUEIDs \cup {"UES1APIDs"}) = {}
      BY <2>1, <1>3, ReadsAddressed DEF Addressed
    <3>2. "UES1APIDs" \notin Seen(pdu)
      BY <3>1 DEF setUEIDs
    <3>3. \A x \in setUEIDs : x \in Seen(pdu) <=> x \in ids
      BY <3>1
    <3> QED BY <2>1, <3>2, <3>3, <1>1, <1>3 DEF IdOf, setUEIDs, Addressed
  <2>2. CASE t = Release
    <3>1. Seen(pdu) = {"UES1APIDs"}
      BY <2>2, <1>3 DEF Release, Page
    <3>2. pdu.ies["UES1APIDs"] = [x \in ids |-> IF x = "ENBUES1APID" THEN e ELSE a]
      BY <2>2, <1>1
    <3>3. \A x \in setUEIDs : IdOf(pdu, x) = FromChoice(pdu.ies["UES1APIDs"], x)
      BY <3>1 DEF IdOf, setUEIDs
    <3> QED BY <3>2, <3>3 DEF FromChoice, setUEIDs
  <2>3. CASE t = Page
    BY <2>3, <1>3 DEF IdOf
  <2> QED BY <2>1, <2>2, <2>3 DEF Addressed
<1>5. NASOf(pdu) \subseteq {nas}
  <2>1. "NASPDU" \in Seen(pdu) => NASOf(pdu) = {nas}
    BY <1>1, <1>3 DEF NASOf
  <2>2. \A l \in ItemLists \cap Seen(pdu) : \A i \in DOMAIN pdu.ies[l] : pdu.ies[l][i].nas \subseteq {nas}
    <3>1. \A l \in ItemLists \cap Seen(pdu) : pdu.ies[l] = <<[nas |-> {}], [nas |-> {nas}]>>
      BY <1>1, <1>3
    <3>2. \A i \in 1..2 : <<[nas |-> {}], [nas |-> {nas}]>>[i].nas \subseteq {nas}
      OBVIOUS
    <3>3. DOMAIN <<[nas |-> {}], [nas |-> {nas}]>> = 1..2
      OBVIOUS
    <3> QED BY <3>1, <3>2, <3>3
  <2>3. ItemNAS(pdu) \subseteq {nas}
    BY <2>2 DEF ItemNAS
  <2> QED BY <2>1, <2>3 DEF NASOf
<1>6. NASOf(pdu) = {} \/ NASOf(pdu) = {nas}
  BY <1>5
<1>7. Decode(pdu) = [type |-> t, enb |-> e, mme |-> a, nas |-> NASOf(pdu)]
  BY <1>2, <1>4 DEF Decode
<1>8. /\ Decode(pdu).type = t /\ Decode(pdu).enb = e /\ Decode(pdu).mme = a
      /\ Decode(pdu).nas = NASOf(pdu)
  BY <1>7
<1>9. CASE NASOf(pdu) = {}
  BY <1>8, <1>9 DEF Filed, pdu
<1>10. CASE NASOf(pdu) = {nas}
  <2>1. Decode(pdu).nas = {nas} /\ Decode(pdu).nas # {}
    BY <1>8, <1>10
  <2>2. (CHOOSE n \in Decode(pdu).nas : TRUE) = nas
    BY <2>1
  <2>3. Filed(pdu, to) = [type |-> t, label |-> [to |-> to, enb |-> e, mme |-> a, nas |-> nas]]
    BY <1>8, <2>1, <2>2 DEF Filed
  <2> QED BY <2>3 DEF pdu
<1> QED BY <1>6, <1>9, <1>10

(***************************************************************************)
(* Types                                                                   *)
(***************************************************************************)

\* The form of a request; one that takes whatever comes does nothing about it, and one
\* that also takes what has no ids changes nothing but the context; an MME id is learnt
\* only from a message under the UE's own eNB id.
Form ==
    [carrier : {"initial", "uplink", "s1ap", "none"}, prot : Protections, secured : BOOLEAN,
     forges : BOOLEAN, waits : Seq(MessageTypes), match : {"enb", "ids", "await", "any"},
     unwraps : {"always", "dnt", "never"}, learns : BOOLEAN,
     keeps : {"any", "challenge", "never"},
     acts : {"none", "attach", "update", "connect", "disconnect"}]

Silent(r) == r.unwraps = "never" /\ r.keeps = "never" /\ r.acts = "none"

Formed ==
    {r \in Form : /\ r.match = "any" => Silent(r)
                  /\ r.match = "await" => r.acts = "none"
                  /\ r.learns => r.match = "enb"}

\* What the requests wait for are message types.
LEMMA Waits ==
    /\ <<>> \in Seq(MessageTypes)
    /\ \A t \in MessageTypes : <<t>> \in Seq(MessageTypes)
    /\ \A s, t \in MessageTypes : <<s, t>> \in Seq(MessageTypes)
    /\ \A s, t, v \in MessageTypes : <<s, t, v>> \in Seq(MessageTypes)
    /\ {Dnt, Ics, Setup, Modify, Drop, Release, Err, CancelAck} \subseteq MessageTypes
BY DEF MessageTypes, HandoverTypes

\* The waits of the common tails; what a handler adds to one keeps its form.
Plain == {r \in Form : r.match = "enb" /\ ~r.learns}

LEMMA PlainParts ==
    /\ \A c \in {"initial", "uplink", "s1ap", "none"}, p \in Protections, w \in Seq(MessageTypes) :
         Request(c, p, w) \in Plain /\ Silent(Request(c, p, w))
    /\ \A r \in Plain : Unwrapping(r) \in Plain /\ Secured(r) \in Plain /\ r \in Formed
                        /\ (Silent(r) => Unwrapping(r).acts = "none")
    /\ \A r \in Formed : Raw(r) \in Formed /\ OnExistingConnection(r) \in Formed
                         /\ WithholdAccept(r) \in Formed
    /\ \A r \in Plain : Raw(r) \in Plain /\ ByIds(r) \in Formed
                        /\ \A a \in {"connect", "disconnect"} : [r EXCEPT !.acts = a] \in Plain
<1>1. \A c \in {"initial", "uplink", "s1ap", "none"}, p \in Protections, w \in Seq(MessageTypes) :
        Request(c, p, w) \in Plain /\ Silent(Request(c, p, w))
  BY DEF Request, Plain, Form, Silent
<1>2. \A r \in Plain : Unwrapping(r) \in Plain /\ Secured(r) \in Plain /\ r \in Formed
                      /\ (Silent(r) => Unwrapping(r).acts = "none")
  BY DEF Unwrapping, Secured, Plain, Form, Formed, Silent
<1>3. \A r \in Formed : Raw(r) \in Formed /\ OnExistingConnection(r) \in Formed
                        /\ WithholdAccept(r) \in Formed
  <2> USE DEF Form, Formed, Silent
  <2>1. \A r \in Formed : Raw(r) \in Formed
    BY DEF Raw, Protections
  <2>2. \A r \in Formed : OnExistingConnection(r) \in Formed
    BY DEF OnExistingConnection
  <2>3. \A r \in Formed : WithholdAccept(r) \in Formed
    BY DEF WithholdAccept
  <2> HIDE DEF Formed
  <2> QED BY <2>1, <2>2, <2>3, Zenon
<1>4. \A r \in Plain : Raw(r) \in Plain /\ ByIds(r) \in Formed
                       /\ \A a \in {"connect", "disconnect"} : [r EXCEPT !.acts = a] \in Plain
  BY DEF Raw, ByIds, Plain, Form, Formed, Protections
<1> QED BY <1>1, <1>2, <1>3, <1>4

\* What the handlers add to a wait that is not by the eNB id alone, or that learns
LEMMA AddedParts ==
    /\ \A r \in Plain :
         /\ Silent(r) => [r EXCEPT !.match = "any"] \in Formed
         /\ r.acts = "none" => [r EXCEPT !.match = "await"] \in Formed
         /\ [r EXCEPT !.forges = FALSE] \in Formed
         /\ [r EXCEPT !.learns = TRUE] \in Formed /\ [r EXCEPT !.learns = TRUE, !.keeps = "any"] \in Formed
         /\ [r EXCEPT !.learns = TRUE, !.acts = "update"] \in Formed
         /\ [r EXCEPT !.unwraps = "dnt", !.learns = TRUE] \in Formed
    /\ \A r \in Formed : r.match = "ids" => /\ [r EXCEPT !.keeps = "challenge"] \in Formed
                                            /\ [r EXCEPT !.acts = "attach"] \in Formed
    /\ \A r \in Plain : ByIds(r).match = "ids"
<1> USE DEF Plain, Formed, Form, Silent
<1>1. \A r \in Plain :
        /\ Silent(r) => [r EXCEPT !.match = "any"] \in Formed
        /\ r.acts = "none" => [r EXCEPT !.match = "await"] \in Formed
        /\ [r EXCEPT !.forges = FALSE] \in Formed
  OBVIOUS
<1>2. \A r \in Plain :
        /\ [r EXCEPT !.learns = TRUE] \in Formed /\ [r EXCEPT !.learns = TRUE, !.keeps = "any"] \in Formed
        /\ [r EXCEPT !.learns = TRUE, !.acts = "update"] \in Formed
        /\ [r EXCEPT !.unwraps = "dnt", !.learns = TRUE] \in Formed
  <2>1. \A r \in Plain : [r EXCEPT !.learns = TRUE] \in Formed
    OBVIOUS
  <2>2. \A r \in Plain : [r EXCEPT !.learns = TRUE, !.keeps = "any"] \in Formed
    OBVIOUS
  <2>3. \A r \in Plain : [r EXCEPT !.learns = TRUE, !.acts = "update"] \in Formed
    OBVIOUS
  <2>4. \A r \in Plain : [r EXCEPT !.unwraps = "dnt", !.learns = TRUE] \in Formed
    OBVIOUS
  <2> HIDE DEF Plain, Formed
  <2> QED BY <2>1, <2>2, <2>3, <2>4, Zenon
<1>3. \A r \in Formed : r.match = "ids" => /\ [r EXCEPT !.keeps = "challenge"] \in Formed
                                           /\ [r EXCEPT !.acts = "attach"] \in Formed
  OBVIOUS
<1>4. \A r \in Plain : ByIds(r).match = "ids"
  BY DEF ByIds
<1> HIDE DEF Plain, Formed
<1> QED BY <1>1, <1>2, <1>3, <1>4, Zenon

LEMMA RequestsFormed ==
    /\ Requests \subseteq Formed /\ AuthenticationResponse \in Formed
    /\ AuthenticationResponse.match = "ids"
    /\ Secured(Request("initial", "ciphered", <<Release, Err>>)) \in Formed
<1> USE PlainParts, AddedParts, Waits
<1>1. AttachRequest \in Formed /\ AttachRequestRaw \in Formed
  BY Zenon DEF AttachRequest, AttachRequestRaw, Protections
<1>2. AuthenticationResponse \in Formed /\ AuthenticationResponse.match = "ids"
  BY Zenon DEF AuthenticationResponse, Protections
<1>3. IdentityResponse \in Formed /\ SecurityModeReject \in Formed
  BY Zenon DEF IdentityResponse, SecurityModeReject, Protections
<1>4. SecurityModeComplete \in Formed
  BY Zenon DEF SecurityModeComplete, Protections
<1>5. AttachComplete \in Formed
  BY Zenon DEF AttachComplete, Protections
<1>6. UECapabilityInfo \in Formed /\ ErrorIndication \in Formed /\ FireAndForget \in Formed
  BY Zenon DEF UECapabilityInfo, ErrorIndication, FireAndForget, Protections
<1>7. TrackingAreaUpdate \in Formed
  BY Zenon DEF TrackingAreaUpdate, Protections
<1>8. UEContextReleaseRequest \in Formed /\ UEContextReleaseForged \in Formed
  BY Zenon DEF UEContextReleaseRequest, UEContextReleaseForged, Protections
<1>9. ServiceRequest \in Formed
  BY Zenon DEF ServiceRequest, Protections
<1>10. Detach \in Formed /\ DetachSwitchOff \in Formed
  BY Zenon DEF Detach, DetachSwitchOff, Protections
<1>11. InjectNAS \in Formed /\ HandoverCancel \in Formed
  BY Zenon DEF InjectNAS, HandoverCancel, Protections
<1>12. PdnConnectivity \in Formed /\ PdnDisconnect \in Formed
  BY Zenon DEF PdnConnectivity, PdnDisconnect, Protections
<1>13. SendESM \in Formed
  BY Zenon DEF SendESM, Protections
<1>14. \A t \in MessageTypes : Await(t) \in Formed
  BY Zenon DEF Await, Protections
<1>15. \A r \in Formed : Raw(r) \in Formed /\ OnExistingConnection(r) \in Formed /\ WithholdAccept(r) \in Formed
  BY Zenon
<1>16. Secured(Request("initial", "ciphered", <<Release, Err>>)) \in Formed
  BY Zenon DEF Protections
<1> HIDE PlainParts, AddedParts, Waits
<1>17. Requests \subseteq Formed
  BY <1>1, <1>2, <1>3, <1>4, <1>5, <1>6, <1>7, <1>8, <1>9, <1>10, <1>11, <1>12, <1>13, <1>14, <1>15
     DEF Requests
<1> QED BY <1>2, <1>16, <1>17

Deactivations == [ebi : Nat, key : Nat, count : Nat]

Core ==
    [enb : Nat, mme : Nat, key : Nat, dl : Nat, ul : Nat, chal : Nat, res : Nat,
     secured : BOOLEAN, echo : APIds \X APIds, live : SUBSET Nat, ending : SUBSET Deactivations]

\* The eNB's counter is at or after every UE's id.
CounterInv == lastENB \in Nat /\ \A u \in UEs : ENBUES1APID[u] \in 1..lastENB

ShapeInv ==
    /\ sec \in [UEs -> Context] /\ mme \in [UEs -> Nat] /\ rand \in [UEs -> Nat]
    /\ call \in [UEs -> SUBSET [req : Formed, mme : Nat]]
    /\ answer \in [UEs -> SUBSET Answer]
    /\ \A u \in UEs : /\ \A w \in call[u] : call[u] = {w}
                      /\ \A x \in answer[u] : answer[u] = {x}
    /\ lastMME \in Nat /\ CounterInv
    /\ QueueInv
    /\ core \in [UEs -> Core]
    /\ track \in [UEs -> [ok : BOOLEAN, at : Nat, replayed : BOOLEAN]]

\* A context stays one under any uplink and any downlink.
LEMMA ContextType ==
    /\ \A s \in Context, p \in Protections : AfterUplinkEPS(s, p) \in Context
    /\ \A s \in Context, n \in NAS : AfterDownlinkEPS(s, n) \in Context
<1>1. \A s \in Context, p \in Protections : AfterUplinkEPS(s, p) \in Context
  <2>1. \A s \in Context : NextUL(s) \in Context
    BY DEF NextUL, Context
  <2> QED BY <2>1 DEF AfterUplinkEPS
<1>2. \A s \in Context, c \in Nat : EstimateDL(s.dl, c % Octet) \in Nat
  BY EstimateType DEF Context
<1>3. \A s \in Context, c \in Nat : NextDL(s, c % Octet) \in Context
  BY <1>2 DEF NextDL, Context
<1>4. \A s \in Context : Establish(s) \in Context /\ EstablishEPS(s) \in Context
  BY DEF EstablishEPS, Establish, Context
<1>5. \A n \in NAS : n.count \in Nat
  BY DEF NAS
<1>6. \A s \in Context, n \in NAS : AfterDownlink(s, n) \in Context
  BY <1>3, <1>4, <1>5 DEF AfterDownlink
<1> QED BY <1>1, <1>3, <1>4, <1>5, <1>6 DEF AfterDownlinkEPS

\* And so does the MME's side of it.
LEMMA CoreStays ==
    ASSUME lastMME \in Nat, NEW c \in Core, NEW k \in Nat, NEW p \in Protections,
           NEW t \in {"initial", "uplink", "s1ap", "none"}, NEW i \in Nat, NEW a \in Nat, NEW gone
    PROVE  /\ Heard(c, t, i, a) \in Core /\ Counted(c, k, p) \in Core
           /\ Answered(c, k) \in Core /\ Dropped(c, gone) \in Core
<1>1. <<i, NoId>> \in APIds \X APIds /\ <<i, a>> \in APIds \X APIds
  BY DEF APIds
<1>2. Heard(c, t, i, a) \in Core
  BY <1>1 DEF Heard, Core
<1>3. Counted(c, k, p) \in Core
  <2>1. c.secured \in BOOLEAN /\ c.ul + 1 \in Nat
    BY DEF Core
  <2>2. [c EXCEPT !.ul = @ + 1, !.secured = @ \/ p = "new"] \in Core
    BY <2>1 DEF Core
  <2> QED BY <2>2 DEF Counted
<1>4. Answered(c, k) \in Core
  BY DEF Answered, Core
<1>5. Dropped(c, gone) \in Core
  BY DEF Dropped, Core
<1> QED BY <1>2, <1>3, <1>4, <1>5

\* A finite set of ids with 0 in it has a greatest one.
LEMMA GreatestId ==
    LET S == {0} \cup {ENBUES1APID[u] : u \in UEs}
    IN Max(S) \in Nat /\ \A n \in S : n <= Max(S)
<1> DEFINE S == {0} \cup {ENBUES1APID[u] : u \in UEs}
           B == {n \in Nat : \A k \in S : k <= n}
<1>1. S \in SUBSET Nat /\ 0 \in S
  BY Identities
<1>2. MaxENB \in Nat /\ \A u \in UEs : ENBUES1APID[u] \in 1..MaxENB
  BY ENBUEAssumption
<1>3. B \in SUBSET Nat /\ MaxENB \in B
  BY <1>2
<1>4. PICK b \in B : \A n \in B : b <= n
  BY <1>3, LeastNatural
<1>5. b \in S
  <2> SUFFICES ASSUME b \notin S PROVE FALSE
    OBVIOUS
  <2>1. \A k \in S : k \in Nat /\ k <= b /\ k # b
    BY <1>1, <1>4
  <2>2. b \in Nat /\ b - 1 \in Nat /\ \A k \in S : k <= b - 1
    <3>1. b \in Nat /\ 0 # b
      BY <1>1, <1>4, <2>1
    <3> HIDE DEF S
    <3> QED BY <2>1, <3>1
  <2>3. b - 1 \in B
    BY <2>2
  <2> QED BY <2>2, <2>3, <1>4
<1>6. \A k \in S : b >= k
  BY <1>1, <1>4, <1>5
<1> HIDE DEF S
<1>7. Max(S) \in S /\ \A k \in S : Max(S) >= k
  BY <1>5, <1>6 DEF Max
<1>8. Max(S) \in Nat /\ \A k \in S : k <= Max(S)
  BY <1>1, <1>7
<1> QED BY <1>8 DEF S

LEMMA ShapeInit == Init => ShapeInv
<1> SUFFICES ASSUME Init PROVE ShapeInv
  OBVIOUS
<1>1. QueueInv
  <2>1. frames = [t \in MessageTypes |-> <<>>]
    BY DEF Init, EmptyQueues
  <2>2. \A t \in MessageTypes : frames[t] = <<>>
    BY <2>1
  <2> QED BY <2>1, <2>2 DEF QueueInv
<1>2. sec \in [UEs -> Context]
  BY DEF Init, FreshContext, Context, NoKey
<1>3. core \in [UEs -> Core]
  <2>1. <<NoId, NoId>> \in APIds \X APIds
    BY DEF APIds
  <2> QED BY <2>1 DEF Init, Core, NoKey
<1>4. CounterInv
  <2>1. lastENB \in Nat /\ \A u \in UEs : ENBUES1APID[u] <= lastENB
    BY GreatestId DEF Init
  <2> QED BY <2>1, Identities DEF CounterInv
<1> QED BY <1>1, <1>2, <1>3, <1>4 DEF Init, ShapeInv, Unassigned, NoKey

\* A request that sends
LEMMA ShapeEmit ==
    ASSUME ShapeInv, NEW u \in UEs, NEW r \in Formed, NEW i \in Nat, NEW a \in Nat, Emit(u, r, i, a),
           lastENB' \in {lastENB, lastENB + 1}
    PROVE  ShapeInv'
<1> DEFINE p == r.prot
<1>1. p \in Protections
  BY DEF Formed, Form
<1>2. sec[u] \in Context /\ sec[u].keys \in Nat
  BY DEF ShapeInv, Context
<1> HIDE DEF p
<1>3. /\ sec' = [sec EXCEPT ![u] = AfterUplinkEPS(@, p)]
      /\ core' = [core EXCEPT ![u] = Counted(Heard(@, r.carrier, i, a), sec[u].keys, p)]
      /\ call' \in {[call EXCEPT ![u] = {}], [call EXCEPT ![u] = {[req |-> r, mme |-> a]}]}
      /\ answer' = [answer EXCEPT ![u] = {}]
      /\ lastMME' \in {lastMME, lastMME + 1}
      /\ UNCHANGED <<mme, rand, frames, track>>
  BY DEF Emit, p
<1>4. sec' \in [UEs -> Context]
  BY <1>1, <1>2, <1>3, ContextType DEF ShapeInv
<1>5. core' \in [UEs -> Core]
  <2>1. core[u] \in Core /\ lastMME \in Nat /\ r.carrier \in {"initial", "uplink", "s1ap", "none"}
    BY DEF ShapeInv, Formed, Form
  <2>2. Counted(Heard(core[u], r.carrier, i, a), sec[u].keys, p) \in Core
    BY <2>1, <1>1, <1>2, CoreStays
  <2> QED BY <2>2, <1>3 DEF ShapeInv
<1>6. /\ call' \in [UEs -> SUBSET [req : Formed, mme : Nat]]
      /\ \A v \in UEs : \A w \in call'[v] : call'[v] = {w}
  <2> DEFINE W == [req : Formed, mme : Nat]
             z == [req |-> r, mme |-> a]
  <2>1. z \in W
    OBVIOUS
  <2>2. call \in [UEs -> SUBSET W] /\ \A v \in UEs : \A w \in call[v] : call[v] = {w}
    BY DEF ShapeInv
  <2>3. call' \in {[call EXCEPT ![u] = {}], [call EXCEPT ![u] = {z}]}
    BY <1>3
  <2> HIDE DEF W, z
  <2>4. call' \in [UEs -> SUBSET W] /\ \A v \in UEs : \A w \in call'[v] : call'[v] = {w}
    BY <2>1, <2>2, <2>3
  <2> QED BY <2>4 DEF W
<1>7. answer' \in [UEs -> SUBSET Answer] /\ \A v \in UEs : \A x \in answer'[v] : answer'[v] = {x}
  BY <1>3 DEF ShapeInv
<1>8. lastMME' \in Nat /\ CounterInv'
  <2>1. lastMME \in Nat /\ lastENB \in Nat /\ \A v \in UEs : ENBUES1APID[v] \in 1..lastENB
    BY DEF ShapeInv, CounterInv
  <2>2. lastMME' \in Nat
    BY <2>1, <1>3
  <2>3. lastENB' \in Nat /\ \A v \in UEs : ENBUES1APID[v] \in 1..lastENB'
    BY <2>1
  <2> QED BY <2>2, <2>3 DEF CounterInv
<1>9. QueueInv'
  BY <1>3 DEF ShapeInv, QueueInv
<1> QED BY <1>3, <1>4, <1>5, <1>6, <1>7, <1>8, <1>9 DEF ShapeInv

LEMMA ShapeAuthentication ==
    ASSUME ShapeInv, NEW u \in UEs, SendAuthenticationResponse(u)
    PROVE  ShapeInv'
<1>1. PICK k \in AuthenticationChoices(u), a \in EffectiveMMEIDs(u, AuthenticationResponse) :
        /\ sec' = [sec EXCEPT ![u].kamf = k[1]]
        /\ core' = [core EXCEPT ![u] = Answered(Heard(@, "uplink", ENBUES1APID[u], a), k[2])]
        /\ call' = [call EXCEPT ![u] = {[req |-> AuthenticationResponse, mme |-> a]}]
  BY DEF SendAuthenticationResponse
<1>2. /\ k[1] \in Nat /\ k[2] \in Nat /\ a \in Nat
      /\ answer' = [answer EXCEPT ![u] = {}] /\ UNCHANGED <<mme, rand, lastENB, lastMME, frames, track>>
  <2>1. a \in Nat
    BY DEF EffectiveMMEIDs, ShapeInv
  <2>2. sec[u].kamf \in Nat /\ rand[u] \in Nat
    BY DEF ShapeInv, Context
  <2> QED BY <2>1, <2>2 DEF SendAuthenticationResponse, AuthenticationChoices, NoKey
<1>3. sec' \in [UEs -> Context]
  <2>1. sec[u] \in Context /\ [sec[u] EXCEPT !.kamf = k[1]] \in Context
    BY <1>2 DEF ShapeInv, Context
  <2>2. sec' = [sec EXCEPT ![u] = [sec[u] EXCEPT !.kamf = k[1]]]
    BY <1>1
  <2> QED BY <2>1, <2>2 DEF ShapeInv
<1>4. core' \in [UEs -> Core]
  <2>1. core[u] \in Core /\ lastMME \in Nat /\ ENBUES1APID[u] \in Nat
    BY Identities DEF ShapeInv
  <2>2. Heard(core[u], "uplink", ENBUES1APID[u], a) \in Core
    BY <2>1, <1>2, CoreStays DEF Protections
  <2>3. Answered(Heard(core[u], "uplink", ENBUES1APID[u], a), k[2]) \in Core
    BY <2>2, <1>2 DEF Answered, Core
  <2> QED BY <2>3, <1>1 DEF ShapeInv
<1>5. /\ call' \in [UEs -> SUBSET [req : Formed, mme : Nat]]
      /\ \A v \in UEs : \A w \in call'[v] : call'[v] = {w}
  <2>1. [req |-> AuthenticationResponse, mme |-> a] \in [req : Formed, mme : Nat]
    BY <1>2, RequestsFormed
  <2> QED BY <2>1, <1>1 DEF ShapeInv
<1>6. answer' \in [UEs -> SUBSET Answer] /\ \A v \in UEs : \A x \in answer'[v] : answer'[v] = {x}
  BY <1>2 DEF ShapeInv
<1>7. QueueInv' /\ CounterInv'
  BY <1>2 DEF ShapeInv, QueueInv, CounterInv
<1> QED BY <1>2, <1>3, <1>4, <1>5, <1>6, <1>7 DEF ShapeInv

LEMMA ShapeDeactivate ==
    ASSUME ShapeInv, NEW u \in UEs, SendDeactivateAccept(u)
    PROVE  ShapeInv'
<1>1. PICK gone : core' = [core EXCEPT ![u] = Dropped(Counted(@, sec[u].keys, "ciphered"), gone)]
  BY DEF SendDeactivateAccept
<1>2. /\ sec' = [sec EXCEPT ![u] = AfterUplinkEPS(@, "ciphered")]
      /\ answer' = [answer EXCEPT ![u] = {}]
      /\ UNCHANGED <<mme, rand, call, lastENB, lastMME, frames, track>>
  BY DEF SendDeactivateAccept
<1>3. sec[u] \in Context /\ sec[u].keys \in Nat /\ core[u] \in Core /\ lastMME \in Nat
      /\ "ciphered" \in Protections
  BY DEF ShapeInv, Context, Protections
<1>4. sec' \in [UEs -> Context]
  BY <1>2, <1>3, ContextType DEF ShapeInv
<1>5. core' \in [UEs -> Core]
  <2>1. Counted(core[u], sec[u].keys, "ciphered") \in Core
    BY <1>3, CoreStays
  <2>2. Dropped(Counted(core[u], sec[u].keys, "ciphered"), gone) \in Core
    BY <2>1 DEF Dropped, Core
  <2> QED BY <2>2, <1>1 DEF ShapeInv
<1>6. answer' \in [UEs -> SUBSET Answer] /\ \A v \in UEs : \A z \in answer'[v] : answer'[v] = {z}
  BY <1>2 DEF ShapeInv
<1>7. QueueInv' /\ CounterInv'
  BY <1>2 DEF ShapeInv, QueueInv, CounterInv
<1> QED BY <1>2, <1>4, <1>5, <1>6, <1>7 DEF ShapeInv

\* A wait takes out of its queue a frame that matches.
LEMMA FetchOutcome ==
    ASSUME ShapeInv, NEW u \in UEs, Fetch(u)
    PROVE  \E w \in call[u], t \in MessageTypes : \E m \in 1..Len(frames[t]) :
             /\ frames' = [frames EXCEPT ![t] = RemoveAt(@, m)]
             /\ frames[t][m] \in FrameOf(t) /\ Matches(u, w, frames[t][m].label)
             /\ \A k \in 1..(m - 1) : ~Matches(u, w, frames[t][k].label)
             /\ Handle(u, w, frames[t][m])
<1>1. PICK w \in call[u] :
        /\ Hits(frames, Wanted(u, w)) # {}
        /\ frames' = Without(frames, Wanted(u, w), FirstHit(frames, Wanted(u, w)))
        /\ Handle(u, w, FrameAt(frames, Wanted(u, w), FirstHit(frames, Wanted(u, w))))
  BY DEF Fetch
<1> DEFINE r == Wanted(u, w)
           p == FirstHit(frames, r)
           t == r.types[p[1]]
           m == p[2]
<1>2. r.types = w.req.waits /\ r.accept = {l \in Downlink : Matches(u, w, l)}
  BY DEF Wanted
<1>3. r.types \in Seq(MessageTypes) /\ QueueInv
  BY <1>2 DEF ShapeInv, Formed, Form
<1> HIDE DEF r
<1>4. /\ t \in MessageTypes /\ m \in 1..Len(frames[t]) /\ FrameAt(frames, r, p).label \in r.accept
      /\ \A k \in 1..(m - 1) : frames[t][k].label \notin r.accept
  <2>1. Hits(frames, r) # {} /\ p = FirstHit(frames, r)
    BY <1>1 DEF r
  <2> HIDE DEF p
  <2> QED BY <2>1, <1>3, SearchHit, Zenon
<1>5. FrameAt(frames, r, p) = frames[t][m] /\ Without(frames, r, p) = [frames EXCEPT ![t] = RemoveAt(@, m)]
  BY DEF FrameAt, Without
<1>6. frames[t][m] \in FrameOf(t)
  <2>1. t \in MessageTypes /\ m \in 1..Len(frames[t])
    BY <1>4
  <2> HIDE DEF t, m
  <2>2. frames[t] \in Seq(FrameOf(t))
    BY <2>1, <1>3 DEF QueueInv
  <2> QED BY <2>1, <2>2
<1>7. Matches(u, w, frames[t][m].label)
  BY <1>2, <1>4, <1>5
<1>8. frames' = [frames EXCEPT ![t] = RemoveAt(@, m)] /\ Handle(u, w, frames[t][m])
  BY <1>1, <1>5 DEF r
<1>9. t \in MessageTypes /\ m \in 1..Len(frames[t])
  BY <1>4
<1>10. \A k \in 1..(m - 1) : frames[t][k].label \notin r.accept
  BY <1>4
<1> HIDE DEF p, t, m
<1>11. ASSUME NEW k \in 1..(m - 1) PROVE ~Matches(u, w, frames[t][k].label)
  <2>1. k \in DOMAIN frames[t] /\ frames[t][k] \in FrameOf(t)
    BY <1>3, <1>9 DEF QueueInv
  <2>2. frames[t][k].label \in Downlink
    BY <2>1 DEF FrameOf, Label, Genuine, Downlink, APIds, NoId
  <2> QED BY <2>2, <1>2, <1>10
<1> QED BY <1>6, <1>7, <1>8, <1>9, <1>11

\* What a handler makes of the frame it waited for: the context after it has
\* unwrapped it or not, how the uplink that follows is protected, which deactivations
\* it accepts, and the answer.
Outcome(u, w, f, after, prot, gone, x) ==
    /\ after = IF Unwraps(w, f) THEN AfterDownlinkEPS(sec[u], f.label.nas) ELSE sec[u]
    /\ sec' = [sec EXCEPT ![u] = AfterUplinkEPS(after, prot)]
    /\ core' = [core EXCEPT ![u] = Dropped(Counted(@, after.keys, prot), gone)]
    /\ answer' = [answer EXCEPT ![u] = {x}]
    /\ x.kind = f.label.nas.kind /\ x.match = w.req.match
    /\ x.foreign = (f.label.to # {} /\ u \notin f.label.to)
    /\ x.mac = IF Unwraps(w, f) THEN MACVerified(sec[u], f.label.nas) ELSE "absent"
    /\ prot # "plain" => Unwraps(w, f)
    /\ \A d \in gone : prot = "ciphered" /\ d.key = after.keys /\ d.count = after.dl

LEMMA HandleParts ==
    ASSUME ShapeInv, NEW u \in UEs, NEW w \in call[u], NEW t, NEW f \in FrameOf(t), Handle(u, w, f)
    PROVE  \E after \in Context, prot \in {"plain", "ciphered"}, gone \in SUBSET Deactivations, x \in Answer :
             Outcome(u, w, f, after, prot, gone, x)
<1> DEFINE nas == f.label.nas
           after == IF Unwraps(w, f) THEN AfterDownlinkEPS(sec[u], nas) ELSE sec[u]
           read == Unwraps(w, f) /\ Readable(sec[u], nas)
           act == Acts(w, f, read)
           prot == IF act \in {"update", "connect", "disconnect"} THEN "ciphered" ELSE "plain"
           gone == IF act = "disconnect" THEN {Deactivation(nas.arg, after.keys, after.dl)} ELSE {}
           mac == IF Unwraps(w, f) THEN MACVerified(sec[u], nas) ELSE "absent"
           x == [kind |-> nas.kind, arg |-> nas.arg, read |-> read, acted |-> act # "none",
                 match |-> w.req.match, foreign |-> f.label.to # {} /\ u \notin f.label.to, mac |-> mac]
<1>1. nas \in NAS /\ nas.kind \in Kinds /\ nas.arg \in Nat /\ sec[u] \in Context
  BY DEF FrameOf, Label, Genuine, NAS, ShapeInv
<1>2. after \in Context
  BY <1>1, ContextType
<1>3. prot \in {"plain", "ciphered"} /\ gone \in SUBSET Deactivations
  <2>1. after.keys \in Nat /\ after.dl \in Nat
    BY <1>2 DEF Context
  <2> HIDE DEF after, act, nas
  <2> QED BY <1>1, <2>1 DEF Deactivation, Deactivations
<1>4. act # "none" => read
  BY DEF Acts
<1>5. x \in Answer
  <2>1. read \in BOOLEAN /\ mac \in {"absent", "true", "false"}
    BY DEF MACVerified
  <2>2. w.req.match \in {"enb", "ids", "await", "any"}
    BY DEF ShapeInv, Formed, Form
  <2> HIDE DEF read, mac, act, nas
  <2> QED BY <1>1, <2>1, <2>2 DEF Answer
<1>6. /\ sec' = [sec EXCEPT ![u] = AfterUplinkEPS(after, prot)]
      /\ core' = [core EXCEPT ![u] = Dropped(Counted(@, after.keys, prot), gone)]
      /\ answer' = [answer EXCEPT ![u] = {x}]
  BY DEF Handle
<1>7. /\ prot # "plain" => Unwraps(w, f)
      /\ \A d \in gone : prot = "ciphered" /\ d.key = after.keys /\ d.count = after.dl
  <2>1. prot # "plain" => Unwraps(w, f)
    BY <1>4
  <2> HIDE DEF after, act, nas
  <2>2. \A d \in gone : prot = "ciphered" /\ d.key = after.keys /\ d.count = after.dl
    BY DEF Deactivation
  <2> QED BY <2>1, <2>2
<1>8. /\ x.kind = nas.kind /\ x.match = w.req.match
      /\ x.foreign = (f.label.to # {} /\ u \notin f.label.to) /\ x.mac = mac
  OBVIOUS
<1>9. Outcome(u, w, f, after, prot, gone, x)
  <2>1. after = IF Unwraps(w, f) THEN AfterDownlinkEPS(sec[u], f.label.nas) ELSE sec[u]
    OBVIOUS
  <2>2. mac = IF Unwraps(w, f) THEN MACVerified(sec[u], f.label.nas) ELSE "absent"
    OBVIOUS
  <2>3. nas = f.label.nas
    OBVIOUS
  <2> HIDE DEF nas, after, prot, gone, x, mac
  <2> QED BY <1>6, <1>7, <1>8, <2>1, <2>2, <2>3 DEF Outcome
<1> HIDE DEF after, prot, gone, x
<1> QED BY <1>2, <1>3, <1>5, <1>9

LEMMA ShapeFetch ==
    ASSUME ShapeInv, NEW u \in UEs, Fetch(u)
    PROVE  ShapeInv'
<1>1. PICK w \in call[u], t \in MessageTypes : \E m \in 1..Len(frames[t]) :
        /\ frames' = [frames EXCEPT ![t] = RemoveAt(@, m)]
        /\ frames[t][m] \in FrameOf(t) /\ Handle(u, w, frames[t][m])
  BY FetchOutcome
<1>2. PICK m \in 1..Len(frames[t]) :
        /\ frames' = [frames EXCEPT ![t] = RemoveAt(@, m)]
        /\ frames[t][m] \in FrameOf(t) /\ Handle(u, w, frames[t][m])
  BY <1>1
<1> DEFINE f == frames[t][m]
           nas == f.label.nas
<1>3. nas \in NAS /\ f.label.mme \in APIds /\ sec[u] \in Context /\ core[u] \in Core
  BY <1>2 DEF FrameOf, Label, Genuine, ShapeInv
<1>4. PICK after \in Context, prot \in {"plain", "ciphered"}, gone \in SUBSET Deactivations, x \in Answer :
         Outcome(u, w, f, after, prot, gone, x)
  <2>1. f \in FrameOf(t) /\ Handle(u, w, f)
    BY <1>2
  <2> HIDE DEF f
  <2> QED BY <2>1, HandleParts
<1>5. /\ sec' = [sec EXCEPT ![u] = AfterUplinkEPS(after, prot)]
      /\ core' = [core EXCEPT ![u] = Dropped(Counted(@, after.keys, prot), gone)]
      /\ answer' = [answer EXCEPT ![u] = {x}]
  BY <1>4 DEF Outcome
<1>6. /\ mme' \in {mme, [mme EXCEPT ![u] = f.label.mme]} /\ (f.label.mme = NoId => mme' = mme)
      /\ rand' = [rand EXCEPT ![u] = KeptRAND(u, w, nas)]
      /\ track' \in {track, [track EXCEPT ![u] = Tracked(u, nas)]}
      /\ call' = [call EXCEPT ![u] = {}] /\ lastMME' = lastMME /\ lastENB' = lastENB
  BY <1>2 DEF Handle
<1> HIDE DEF f, nas
<1>7. prot \in Protections /\ after.keys \in Nat
  BY DEF Protections, Context
<1>8. sec' \in [UEs -> Context]
  BY <1>5, <1>7, ContextType DEF ShapeInv
<1>9. core' \in [UEs -> Core]
  <2>1. Counted(core[u], after.keys, prot) \in Core
    BY <1>3, <1>7, CoreStays DEF ShapeInv
  <2>2. Dropped(Counted(core[u], after.keys, prot), gone) \in Core
    BY <2>1 DEF Dropped, Core
  <2> QED BY <2>2, <1>5 DEF ShapeInv
<1>10. mme' \in [UEs -> Nat] /\ rand' \in [UEs -> Nat]
  <2>1. mme \in [UEs -> Nat] /\ rand \in [UEs -> Nat]
    BY DEF ShapeInv
  <2>2. nas.arg \in Nat /\ (f.label.mme # NoId => f.label.mme \in Nat)
    BY <1>3 DEF NAS, APIds
  <2>3. KeptRAND(u, w, nas) \in Nat
    BY <2>1, <2>2 DEF KeptRAND, NoKey
  <2> QED BY <2>1, <2>2, <2>3, <1>6
<1>11. track' \in [UEs -> [ok : BOOLEAN, at : Nat, replayed : BOOLEAN]]
  <2> DEFINE T == [ok : BOOLEAN, at : Nat, replayed : BOOLEAN]
  <2>1. nas.count \in Nat /\ track[u] \in T
    BY <1>3 DEF NAS, ShapeInv
  <2>2. Tracked(u, nas) \in T
    BY <2>1 DEF Tracked
  <2>3. track \in [UEs -> T]
    BY DEF ShapeInv
  <2> HIDE DEF T
  <2>4. track' \in [UEs -> T]
    BY <2>2, <2>3, <1>6
  <2> QED BY <2>4 DEF T
<1>12. answer' \in [UEs -> SUBSET Answer] /\ \A v \in UEs : \A y \in answer'[v] : answer'[v] = {y}
  BY <1>5 DEF ShapeInv
<1>13. /\ call' \in [UEs -> SUBSET [req : Formed, mme : Nat]]
       /\ \A v \in UEs : \A z \in call'[v] : call'[v] = {z}
  BY <1>6 DEF ShapeInv
<1>14. QueueInv' /\ CounterInv'
  <2>1. QueueInv'
    BY <1>2, RemoveFrame DEF ShapeInv
  <2> QED BY <2>1, <1>6 DEF ShapeInv, CounterInv
<1> QED BY <1>6, <1>8, <1>9, <1>10, <1>11, <1>12, <1>13, <1>14 DEF ShapeInv

\* What the MME files of a message, and for whom
LEMMA MMEFiles ==
    ASSUME NEW u \in UEs, NEW t \in MessageTypes, NEW i \in APIds, NEW a \in APIds,
           t = Page => i = NoId /\ a = NoId, NEW nas \in Genuine, MMESends(u, t, i, a, nas)
    PROVE  \E n \in {nas, NoNAS} :
             LET l == [to |-> IF i = NoId /\ a = NoId THEN {} ELSE {u}, enb |-> i, mme |-> a, nas |-> n]
             IN l \in Label /\ frames' = File(frames, [type |-> t, label |-> l])
<1> DEFINE to == IF i = NoId /\ a = NoId THEN {} ELSE {u}
<1>1. PICK n \in {nas, NoNAS} :
        Filed(PDU(t, i, a, nas), to) =
          [type |-> t, label |-> [to |-> to, enb |-> i, mme |-> a, nas |-> n]]
  <2>1. nas \in NAS
    BY DEF Genuine
  <2> QED BY <2>1, FiledAs
<1>2. frames' = File(frames, Filed(PDU(t, i, a, nas), to))
  BY DEF MMESends
<1>3. to \in SUBSET UEs /\ n \in Genuine
  BY DEF NoNAS, Genuine, NAS, Protections, NoKey, Kinds
<1>4. [to |-> to, enb |-> i, mme |-> a, nas |-> n] \in Label
  BY <1>3 DEF Label
<1> QED BY <1>1, <1>2, <1>4

LEMMA ShapeMMESends ==
    ASSUME ShapeInv, NEW u \in UEs, NEW t \in MessageTypes, NEW i \in APIds, NEW a \in APIds,
           t = Page => i = NoId /\ a = NoId, NEW nas \in Genuine, MMESends(u, t, i, a, nas),
           core' \in [UEs -> Core]
    PROVE  ShapeInv'
<1>1. UNCHANGED <<sec, mme, rand, call, answer, lastENB, lastMME, track>>
  BY DEF MMESends
<1>2. QueueInv'
  <2>1. PICK l \in Label : frames' = File(frames, [type |-> t, label |-> l])
    BY MMEFiles
  <2> QED BY <2>1, FileFrame DEF ShapeInv
<1> QED BY <1>1, <1>2 DEF ShapeInv, CounterInv

\* x is what the MME has of a UE after a step that found c: it may have released the
\* connection, and it has said nothing of keys.
Keeps(c, x) ==
    /\ x \in Core /\ x.mme = c.mme /\ x.echo = c.echo /\ x.enb \in {c.enb, 0} /\ x.res = c.res
    /\ x.secured => c.secured

Still(c, x) == x.live = c.live /\ x.ending = c.ending

Quiet(c, x) == Keeps(c, x) /\ x.chal = c.chal /\ x.key = c.key /\ x.ul = c.ul

LEMMA CoreFields ==
    ASSUME NEW c \in Core, NEW n \in Nat, NEW k \in Nat
    PROVE  /\ LET x == [c EXCEPT !.chal = n] IN Keeps(c, x) /\ x.chal = n /\ x.key = c.key /\ x.ul = c.ul
           /\ LET x == [c EXCEPT !.chal = n, !.dl = @ + 1]
              IN Keeps(c, x) /\ x.chal = n /\ x.key = c.key /\ x.ul = c.ul
           /\ \A b \in BOOLEAN :
                LET x == [c EXCEPT !.key = c.chal, !.dl = k + 1, !.ul = IF b THEN @ ELSE 0, !.secured = FALSE]
                IN Keeps(c, x) /\ x.chal = c.chal /\ x.key = c.chal /\ x.ul = IF b THEN c.ul ELSE 0
           /\ Quiet(c, [c EXCEPT !.dl = @ + 1])
           /\ Quiet(c, [c EXCEPT !.dl = @ + 1, !.live = @ \cup {n}])
           /\ Quiet(c, [c EXCEPT !.dl = @ + 1, !.ending = @ \cup {Deactivation(n, c.key, c.dl)}])
           /\ Quiet(c, [c EXCEPT !.enb = 0])
           /\ Quiet(c, c)
<1> USE DEF Core, Keeps, Quiet
<1>1. c.dl + 1 \in Nat /\ k + 1 \in Nat
  OBVIOUS
<1>2. LET x == [c EXCEPT !.chal = n] IN Keeps(c, x) /\ x.chal = n /\ x.key = c.key /\ x.ul = c.ul
  OBVIOUS
<1>3. LET x == [c EXCEPT !.chal = n, !.dl = @ + 1]
      IN Keeps(c, x) /\ x.chal = n /\ x.key = c.key /\ x.ul = c.ul
  BY <1>1
<1>4. ASSUME NEW b \in BOOLEAN
      PROVE
           LET x == [c EXCEPT !.key = c.chal, !.dl = k + 1, !.ul = IF b THEN @ ELSE 0, !.secured = FALSE]
           IN Keeps(c, x) /\ x.chal = c.chal /\ x.key = c.chal /\ x.ul = IF b THEN c.ul ELSE 0
  BY <1>1
<1>5. Quiet(c, [c EXCEPT !.dl = @ + 1])
  BY <1>1
<1>6. Quiet(c, [c EXCEPT !.dl = @ + 1, !.live = @ \cup {n}])
  BY <1>1
<1>7. Quiet(c, [c EXCEPT !.dl = @ + 1, !.ending = @ \cup {Deactivation(n, c.key, c.dl)}])
  <2>1. Deactivation(n, c.key, c.dl) \in Deactivations
    BY DEF Deactivation, Deactivations
  <2> QED BY <1>1, <2>1
<1>8. Quiet(c, [c EXCEPT !.enb = 0]) /\ Quiet(c, c)
  OBVIOUS
<1> HIDE DEF Core, Keeps, Quiet
<1> QED BY <1>2, <1>3, <1>4, <1>5, <1>6, <1>7, <1>8

\* The bearers and DL COUNT of the same
LEMMA CoreBearers ==
    ASSUME NEW c \in Core, NEW n \in Nat, NEW k \in Nat
    PROVE  /\ LET x == [c EXCEPT !.chal = n] IN Still(c, x) /\ x.dl = c.dl
           /\ LET x == [c EXCEPT !.chal = n, !.dl = @ + 1] IN Still(c, x) /\ x.dl = c.dl + 1
           /\ \A b \in BOOLEAN :
                LET x == [c EXCEPT !.key = c.chal, !.dl = k + 1, !.ul = IF b THEN @ ELSE 0, !.secured = FALSE]
                IN Still(c, x) /\ x.dl = k + 1
           /\ LET x == [c EXCEPT !.dl = @ + 1] IN Still(c, x) /\ x.dl = c.dl + 1
           /\ LET x == [c EXCEPT !.dl = @ + 1, !.live = @ \cup {n}]
              IN x.live = c.live \cup {n} /\ x.ending = c.ending /\ x.dl = c.dl + 1
           /\ LET x == [c EXCEPT !.dl = @ + 1, !.ending = @ \cup {Deactivation(n, c.key, c.dl)}]
              IN /\ x.live = c.live /\ x.dl = c.dl + 1
                 /\ x.ending = c.ending \cup {Deactivation(n, c.key, c.dl)}
           /\ LET x == [c EXCEPT !.enb = 0] IN Still(c, x) /\ x.dl = c.dl
           /\ Still(c, c) /\ c.dl \in Nat
BY DEF Core, Still

\* What becomes of challenge and key with a message that carries nas
Advances(c, x, nas) ==
    CASE nas.kind = "challenge" ->
           nas.arg = c.chal + 1 /\ x.chal = c.chal + 1 /\ x.key = c.key /\ x.ul = c.ul
      [] nas.kind = "command" ->
           /\ nas.key = c.chal /\ c.res = c.chal /\ c.chal # NoKey
           /\ x.chal = c.chal /\ x.key = c.chal /\ x.ul = IF c.key = c.chal THEN c.ul ELSE 0
      [] OTHER -> x.chal = c.chal /\ x.key = c.key /\ x.ul = c.ul

\* What becomes of the bearers with it: one is set up under the context in use while
\* none of its deactivations is waited for, or one more deactivation is sent.
Bears(c, x, nas) ==
    /\ x.live = c.live \cup (IF nas.kind = "activate" THEN {nas.arg} ELSE {})
    /\ nas.kind = "activate" =>
         /\ c.secured /\ nas.prot = "ciphered" /\ nas.key = c.key /\ nas.count = c.dl
         /\ x.dl = c.dl + 1 /\ x.ending = c.ending /\ \A d \in c.ending : d.ebi # nas.arg
    /\ x.ending = c.ending \/ \E e \in Nat : x.ending = c.ending \cup {Deactivation(e, c.key, c.dl)}
    /\ x.key = c.key => c.dl <= x.dl

\* A step of the MME sends one message, under the ids of the connection, under those
\* of an earlier uplink (an error), or under none.
Moves(u, t, i, a, nas) ==
    /\ MMESends(u, t, i, a, nas)
    /\ t = Page => i = NoId /\ a = NoId
    /\ \/ a = core[u].mme /\ i \in {core[u].enb, NoId}
       \/ t = Err /\ <<i, a>> = core[u].echo
       \/ i = NoId /\ a = NoId
    /\ nas.kind \in {"challenge", "command"} => t = Dnt /\ i = core[u].enb /\ a = core[u].mme
    /\ \E x \in Core : /\ Keeps(core[u], x) /\ Advances(core[u], x, nas) /\ Bears(core[u], x, nas)
                       /\ core' = [core EXCEPT ![u] = x]

Informing(u, k, g) ==
    [kind |-> k, prot |-> "ciphered", key |-> core[u].key, count |-> core[u].dl, arg |-> g]

\* A message under the context in use, of which the MME says nothing of keys
LEMMA MMETells ==
    ASSUME ShapeInv, NEW u \in UEs, NEW t \in {Dnt, Ics, Setup, Modify, Drop},
           NEW k \in {"other", "guti", "activate", "deactivate"}, NEW g \in Nat,
           MMEInforms(u, t, k, g), NEW x, Quiet(core[u], x), core' = [core EXCEPT ![u] = x],
           Bears(core[u], x, Informing(u, k, g))
    PROVE  \E s \in MessageTypes, i \in APIds, a \in APIds, nas \in Genuine : Moves(u, s, i, a, nas)
<1> DEFINE nas == Informing(u, k, g)
<1>1. core[u] \in Core
  BY DEF ShapeInv
<1>2. nas \in Genuine /\ nas.kind \notin {"challenge", "command"}
  <2>1. k \in Kinds /\ "ciphered" \in Protections /\ core[u].key \in Nat /\ core[u].dl \in Nat
    BY <1>1 DEF Kinds, Protections, Core
  <2>2. nas \in NAS
    BY <2>1 DEF NAS, Informing
  <2> QED BY <2>2 DEF Genuine, Informing
<1>3. core[u].enb \in APIds /\ core[u].mme \in APIds
  BY <1>1 DEF Core, APIds
<1>4. t \in MessageTypes /\ t # Page
  BY DEF MessageTypes, Dnt, Ics, Setup, Modify, Drop, Page
<1>5. MMESends(u, t, core[u].enb, core[u].mme, nas)
  BY DEF MMEInforms, Informing
<1> HIDE DEF nas
<1>6. Keeps(core[u], x) /\ Advances(core[u], x, nas) /\ x \in Core
  BY <1>2 DEF Quiet, Keeps, Advances
<1>7. Moves(u, t, core[u].enb, core[u].mme, nas)
  <2>1. Bears(core[u], x, nas)
    BY DEF nas
  <2> QED BY <2>1, <1>2, <1>4, <1>5, <1>6 DEF Moves
<1> QED BY <1>2, <1>3, <1>4, <1>7

LEMMA MMECases ==
    ASSUME ShapeInv, NEW u \in UEs, MMEStep(u)
    PROVE  \E t \in MessageTypes, i \in APIds, a \in APIds, nas \in Genuine : Moves(u, t, i, a, nas)
<1>1. /\ core[u] \in Core /\ core[u].enb \in APIds /\ core[u].mme \in APIds
      /\ core[u].echo[1] \in APIds /\ core[u].echo[2] \in APIds
      /\ core[u].echo = <<core[u].echo[1], core[u].echo[2]>>
      /\ core[u].key \in Nat /\ core[u].dl \in Nat /\ core[u].chal \in Nat
  <2>1. core[u] \in Core
    BY DEF ShapeInv
  <2>2. core[u].echo \in APIds \X APIds
    BY <2>1 DEF Core
  <2> QED BY <2>1, <2>2 DEF Core, APIds
<1>2. NoNAS \in Genuine /\ NoId \in APIds /\ NoNAS.kind = "none"
  BY DEF NoNAS, Genuine, NAS, Protections, NoKey, APIds, Kinds
<1>3. /\ {Dnt, Ics, Setup, Modify, Drop, Release, Page, Err} \cup HandoverTypes \subseteq MessageTypes
      /\ Page \notin {Dnt, Ics, Setup, Modify, Drop, Release, Err} \cup HandoverTypes
  BY DEF MessageTypes, HandoverTypes, Dnt, Ics, Setup, Modify, Drop, Release, Page, Err, CancelAck,
         Command, NotPrepared, Status
<1>4. ASSUME NEW x, Quiet(core[u], x), Still(core[u], x), core[u].dl <= x.dl
      PROVE  /\ Keeps(core[u], x) /\ Advances(core[u], x, NoNAS) /\ Bears(core[u], x, NoNAS)
             /\ x \in Core
  BY <1>2, <1>4 DEF Quiet, Keeps, Still, Advances, Bears
<1>5. ASSUME core' = core
      PROVE  /\ Quiet(core[u], core[u]) /\ Still(core[u], core[u]) /\ core[u].dl <= core[u].dl
             /\ core' = [core EXCEPT ![u] = core[u]]
  <2>1. core' = [core EXCEPT ![u] = core[u]]
    BY <1>5 DEF ShapeInv
  <2>2. Quiet(core[u], core[u]) /\ Still(core[u], core[u]) /\ core[u].dl \in Nat
    BY <1>1, CoreFields, CoreBearers
  <2> QED BY <2>1, <2>2
<1>6. CASE MMEChallenges(u)
  <2> DEFINE g == core[u].chal + 1
             plain == [NoNAS EXCEPT !.kind = "challenge", !.arg = g]
             under == [kind |-> "challenge", prot |-> "ciphered", key |-> core[u].key,
                       count |-> core[u].dl, arg |-> g]
  <2>1. g \in Nat /\ plain \in Genuine /\ under \in Genuine
    <3>1. g \in Nat
      BY <1>1
    <3> HIDE DEF g
    <3> QED BY <3>1, <1>1 DEF NoNAS, Genuine, NAS, Protections, NoKey, Kinds
  <2>2. plain.kind = "challenge" /\ plain.arg = g /\ under.kind = "challenge" /\ under.arg = g
    BY DEF NoNAS
  <2>3. \/ /\ MMESends(u, Dnt, core[u].enb, core[u].mme, plain)
           /\ core' = [core EXCEPT ![u] = [core[u] EXCEPT !.chal = g]]
        \/ /\ MMESends(u, Dnt, core[u].enb, core[u].mme, under)
           /\ core' = [core EXCEPT ![u] = [core[u] EXCEPT !.chal = g, !.dl = @ + 1]]
    BY <1>6 DEF MMEChallenges, MMEInforms, ShapeInv
  <2> DEFINE y == [core[u] EXCEPT !.chal = g]
             z == [core[u] EXCEPT !.chal = g, !.dl = @ + 1]
  <2> HIDE DEF plain, under
  <2>4. PICK nas \in Genuine : /\ MMESends(u, Dnt, core[u].enb, core[u].mme, nas)
                               /\ nas.kind = "challenge" /\ nas.arg = g
    BY <2>1, <2>2, <2>3
  <2>5. PICK x : /\ Keeps(core[u], x) /\ x.chal = g /\ x.key = core[u].key /\ x.ul = core[u].ul
                 /\ Still(core[u], x) /\ core[u].dl <= x.dl /\ core' = [core EXCEPT ![u] = x]
    <3>1. /\ Keeps(core[u], y) /\ y.chal = g /\ y.key = core[u].key /\ y.ul = core[u].ul
          /\ Keeps(core[u], z) /\ z.chal = g /\ z.key = core[u].key /\ z.ul = core[u].ul
      <4> HIDE DEF g
      <4> QED BY <2>1, <1>1, CoreFields
    <3>2. Still(core[u], y) /\ core[u].dl <= y.dl /\ Still(core[u], z) /\ core[u].dl <= z.dl
      <4> HIDE DEF g
      <4>1. Still(core[u], y) /\ y.dl = core[u].dl /\ Still(core[u], z) /\ z.dl = core[u].dl + 1
        BY <2>1, <1>1, CoreBearers
      <4> HIDE DEF y, z
      <4> QED BY <4>1, <1>1
    <3>3. core' = [core EXCEPT ![u] = y] \/ core' = [core EXCEPT ![u] = z]
      BY <2>3
    <3> HIDE DEF y, z
    <3> QED BY <3>1, <3>2, <3>3
  <2>6. Moves(u, Dnt, core[u].enb, core[u].mme, nas)
    <3>1. Advances(core[u], x, nas) /\ Bears(core[u], x, nas) /\ x \in Core
      BY <2>4, <2>5 DEF Advances, Keeps, Still, Bears
    <3> QED BY <2>4, <2>5, <3>1, <1>3 DEF Moves
  <2> QED BY <2>6, <1>1, <1>3
<1>7. CASE MMECommands(u)
  <2> DEFINE count == IF core[u].key = core[u].chal THEN core[u].dl ELSE 0
             nas == [NoNAS EXCEPT !.kind = "command", !.prot = "new",
                                  !.key = core[u].chal, !.count = count]
             again == core[u].key = core[u].chal
             x == [core[u] EXCEPT !.key = core[u].chal, !.dl = count + 1,
                                  !.ul = IF again THEN @ ELSE 0, !.secured = FALSE]
  <2>1. count \in Nat /\ nas \in Genuine /\ nas.kind = "command" /\ nas.key = core[u].chal
    BY <1>1 DEF NoNAS, Genuine, NAS, Protections, NoKey, Kinds
  <2>2. /\ MMESends(u, Dnt, core[u].enb, core[u].mme, nas)
        /\ core' = [core EXCEPT ![u] = x]
        /\ core[u].chal # NoKey /\ core[u].res = core[u].chal
    BY <1>7 DEF MMECommands, ShapeInv
  <2>3. /\ Keeps(core[u], x) /\ x.chal = core[u].chal /\ x.key = core[u].chal
        /\ x.ul = IF again THEN core[u].ul ELSE 0
        /\ Still(core[u], x) /\ x.dl = count + 1
    <3>1. again \in BOOLEAN /\ core[u] \in Core /\ count \in Nat
      BY <2>1, <1>1
    <3>2. \A c \in Core, k \in Nat, b \in BOOLEAN :
            LET z == [c EXCEPT !.key = c.chal, !.dl = k + 1, !.ul = IF b THEN @ ELSE 0, !.secured = FALSE]
            IN Keeps(c, z) /\ z.chal = c.chal /\ z.key = c.chal /\ z.ul = IF b THEN c.ul ELSE 0
      BY CoreFields
    <3>3. \A c \in Core, k \in Nat, b \in BOOLEAN :
            LET z == [c EXCEPT !.key = c.chal, !.dl = k + 1, !.ul = IF b THEN @ ELSE 0, !.secured = FALSE]
            IN Still(c, z) /\ z.dl = k + 1
      BY CoreBearers
    <3> HIDE DEF count, again
    <3>4. /\ Keeps(core[u], x) /\ x.chal = core[u].chal /\ x.key = core[u].chal
          /\ x.ul = IF again THEN core[u].ul ELSE 0
      BY <3>1, <3>2
    <3>5. Still(core[u], x) /\ x.dl = count + 1
      BY <3>1, <3>3
    <3> HIDE DEF x
    <3> QED BY <3>4, <3>5
  <2> HIDE DEF nas, x
  <2>4. core[u].key = core[u].chal => core[u].dl <= x.dl
    BY <2>3, <1>1
  <2>5. Moves(u, Dnt, core[u].enb, core[u].mme, nas)
    <3>1. Advances(core[u], x, nas) /\ Bears(core[u], x, nas) /\ x \in Core
      BY <2>1, <2>2, <2>3, <2>4 DEF Advances, Keeps, Still, Bears
    <3> QED BY <2>1, <2>2, <2>3, <3>1, <1>3 DEF Moves
  <2> QED BY <2>1, <2>5, <1>1, <1>3
<1>8. ASSUME NEW t \in {Dnt, Ics, Modify}, NEW k \in {"other", "guti"}, MMEAnswers(u, t, k)
      PROVE  \E s \in MessageTypes, i \in APIds, a \in APIds, nas \in Genuine : Moves(u, s, i, a, nas)
  <2>1. MMEInforms(u, t, k, 0) /\ core' = [core EXCEPT ![u] = [core[u] EXCEPT !.dl = @ + 1]]
    BY <1>8 DEF MMEAnswers, ShapeInv
  <2>2. LET x == [core[u] EXCEPT !.dl = @ + 1]
        IN Quiet(core[u], x) /\ Still(core[u], x) /\ x.dl = core[u].dl + 1
    BY <1>1, CoreFields, CoreBearers
  <2> DEFINE x == [core[u] EXCEPT !.dl = @ + 1]
  <2>3. Bears(core[u], x, Informing(u, k, 0))
    <3> HIDE DEF x
    <3> QED BY <2>2, <1>1 DEF Bears, Still, Informing, x
  <2> QED BY <2>1, <2>2, <2>3, MMETells
<1>9. ASSUME NEW e \in EBIs, MMEActivates(u, e)
      PROVE  \E s \in MessageTypes, i \in APIds, a \in APIds, nas \in Genuine : Moves(u, s, i, a, nas)
  <2> DEFINE x == [core[u] EXCEPT !.dl = @ + 1, !.live = @ \cup {e}]
  <2>1. /\ MMEInforms(u, Setup, "activate", e) /\ e \in Nat /\ core' = [core EXCEPT ![u] = x]
        /\ core[u].secured /\ \A d \in core[u].ending : d.ebi # e
    <3>1. e \in Nat
      BY Identities
    <3> QED BY <3>1, <1>9 DEF MMEActivates, MMEInforms, ShapeInv
  <2>2. /\ Quiet(core[u], x) /\ x.live = core[u].live \cup {e} /\ x.ending = core[u].ending
        /\ x.dl = core[u].dl + 1
    BY <2>1, <1>1, CoreFields, CoreBearers
  <2> HIDE DEF x
  <2>3. Bears(core[u], x, Informing(u, "activate", e))
    BY <2>1, <2>2, <1>1 DEF Bears, Informing
  <2> QED BY <2>1, <2>2, <2>3, MMETells
<1>10. ASSUME NEW e \in EBIs, NEW t \in {Drop, Dnt}, MMEDeactivates(u, t, e)
       PROVE  \E s \in MessageTypes, i \in APIds, a \in APIds, nas \in Genuine : Moves(u, s, i, a, nas)
  <2> DEFINE x == [core[u] EXCEPT !.dl = @ + 1,
                                  !.ending = @ \cup {Deactivation(e, core[u].key, core[u].dl)}]
  <2>1. MMEInforms(u, t, "deactivate", e) /\ e \in Nat /\ core' = [core EXCEPT ![u] = x]
    <3>1. e \in Nat
      BY Identities
    <3> QED BY <3>1, <1>10 DEF MMEDeactivates, ShapeInv
  <2>2. /\ Quiet(core[u], x) /\ x.live = core[u].live /\ x.dl = core[u].dl + 1
        /\ x.ending = core[u].ending \cup {Deactivation(e, core[u].key, core[u].dl)}
    BY <2>1, <1>1, CoreFields, CoreBearers
  <2> HIDE DEF x
  <2>3. Bears(core[u], x, Informing(u, "deactivate", e))
    <3>1. core[u].dl <= x.dl
      BY <2>2, <1>1
    <3>2. \E d \in Nat : x.ending = core[u].ending \cup {Deactivation(d, core[u].key, core[u].dl)}
      BY <2>1, <2>2
    <3>3. x.live = core[u].live \cup {}
      BY <2>2
    <3>4. Informing(u, "deactivate", e).kind = "deactivate"
      BY DEF Informing
    <3> QED BY <3>1, <3>2, <3>3, <3>4, Zenon DEF Bears
  <2> QED BY <2>1, <2>2, <2>3, MMETells
<1>11. CASE MMEReleases(u)
  <2>1. PICK i \in {core[u].enb, NoId} : MMESends(u, Release, i, core[u].mme, NoNAS)
    BY <1>11 DEF MMEReleases
  <2> DEFINE x == [core[u] EXCEPT !.enb = 0]
  <2>2. core' = [core EXCEPT ![u] = x]
    BY <1>11 DEF MMEReleases, ShapeInv
  <2>3. Quiet(core[u], x) /\ Still(core[u], x) /\ core[u].dl <= x.dl
    <3>1. Quiet(core[u], x)
      BY <1>1, CoreFields
    <3>2. Still(core[u], x) /\ x.dl = core[u].dl
      BY <1>1, CoreBearers
    <3> HIDE DEF x
    <3> QED BY <3>1, <3>2, <1>1
  <2> HIDE DEF x
  <2>4. Moves(u, Release, i, core[u].mme, NoNAS)
    BY <2>1, <2>2, <2>3, <1>2, <1>3, <1>4 DEF Moves
  <2> QED BY <2>4, <1>1, <1>2, <1>3
<1>12. CASE MMEHandsOver(u)
  <2>1. PICK t \in HandoverTypes : MMESends(u, t, core[u].enb, core[u].mme, NoNAS) /\ core' = core
    BY <1>12 DEF MMEHandsOver
  <2>2. Moves(u, t, core[u].enb, core[u].mme, NoNAS)
    BY <2>1, <1>2, <1>3, <1>4, <1>5 DEF Moves
  <2> QED BY <2>2, <1>1, <1>2, <1>3
<1>13. CASE MMEPages(u)
  <2>1. MMESends(u, Page, NoId, NoId, NoNAS) /\ core' = core
    BY <1>13 DEF MMEPages
  <2>2. Moves(u, Page, NoId, NoId, NoNAS)
    BY <2>1, <1>2, <1>3, <1>4, <1>5 DEF Moves
  <2> QED BY <2>2, <1>2, <1>3
<1>14. CASE MMEErrs(u)
  <2>1. PICK i \in APIds, a \in APIds : /\ MMESends(u, Err, i, a, NoNAS) /\ core' = core
                                        /\ <<i, a>> = core[u].echo \/ (i = NoId /\ a = NoId)
    BY <1>14, <1>1, <1>2 DEF MMEErrs
  <2>2. Moves(u, Err, i, a, NoNAS)
    BY <2>1, <1>2, <1>3, <1>4, <1>5 DEF Moves
  <2> QED BY <2>2, <1>2, <1>3
<1> QED BY <1>6, <1>7, <1>8, <1>9, <1>10, <1>11, <1>12, <1>13, <1>14 DEF MMEStep

LEMMA MMECore ==
    ASSUME ShapeInv, NEW u \in UEs, NEW t, NEW i, NEW a, NEW nas, Moves(u, t, i, a, nas)
    PROVE  /\ core' \in [UEs -> Core] /\ \A v \in UEs \ {u} : core'[v] = core[v]
           /\ Keeps(core[u], core'[u]) /\ Advances(core[u], core'[u], nas) /\ Bears(core[u], core'[u], nas)
BY DEF Moves, ShapeInv

\* The AP ids of a request that sends are AP ids.
LEMMA SentUnder ==
    ASSUME ShapeInv, NEW u \in UEs
    PROVE  /\ ENBUES1APID[u] \in Nat /\ AllocateENBUES1APID \in Nat /\ mme[u] \in Nat
           /\ \A r : EffectiveMMEIDs(u, r) \subseteq Nat
<1>1. mme[u] \in Nat /\ (\A v \in UEs : mme[v] \in Nat) /\ lastENB \in Nat
  BY DEF ShapeInv, CounterInv
<1>2. ENBUES1APID[u] \in Nat
  BY Identities
<1>3. \A r : EffectiveMMEIDs(u, r) \subseteq Nat
  BY <1>1 DEF EffectiveMMEIDs
<1> QED BY <1>1, <1>2, <1>3 DEF AllocateENBUES1APID

LEMMA ShapeStep == ShapeInv /\ [Next]_vars => ShapeInv'
<1> SUFFICES ASSUME ShapeInv, [Next]_vars PROVE ShapeInv'
  OBVIOUS
<1>0. Used \subseteq Formed
  BY RequestsFormed, ENBUEAssumption
<1>1. ASSUME NEW u \in UEs, NEW r \in Used, Send(u, r) PROVE ShapeInv'
  <2>1. PICK a \in EffectiveMMEIDs(u, r) : Emit(u, r, ENBUES1APID[u], a) /\ lastENB' = lastENB
    BY <1>1 DEF Send
  <2>2. a \in Nat /\ ENBUES1APID[u] \in Nat
    BY SentUnder
  <2> QED BY <1>0, <2>1, <2>2, ShapeEmit
<1>2. ASSUME NEW u \in UEs, SendAuthenticationResponse(u) PROVE ShapeInv'
  BY <1>2, ShapeAuthentication
<1>3. ASSUME NEW u \in UEs, SendDeactivateAccept(u) PROVE ShapeInv'
  BY <1>3, ShapeDeactivate
<1>4. ASSUME NEW u \in UEs, Reestablish(u) PROVE ShapeInv'
  <2>1. /\ Emit(u, Secured(Request("initial", "ciphered", <<Release, Err>>)), AllocateENBUES1APID, mme[u])
        /\ lastENB' = lastENB + 1
    BY <1>4 DEF Reestablish, AllocateENBUES1APID
  <2> QED BY <2>1, SentUnder, ShapeEmit, RequestsFormed
<1>5. ASSUME NEW u \in UEs, Fetch(u) PROVE ShapeInv'
  BY <1>5, ShapeFetch
<1>6. ASSUME NEW u \in UEs, TimeOut(u) PROVE ShapeInv'
  <2>1. /\ call' = [call EXCEPT ![u] = {}]
        /\ UNCHANGED <<sec, mme, rand, answer, lastENB, frames, core, lastMME, track>>
    BY <1>6 DEF TimeOut
  <2>2. QueueInv' /\ CounterInv'
    BY <2>1 DEF ShapeInv, QueueInv, CounterInv
  <2> QED BY <2>1, <2>2 DEF ShapeInv
<1>7. ASSUME NEW u \in UEs, MMEStep(u) PROVE ShapeInv'
  <2>1. PICK t \in MessageTypes, i \in APIds, a \in APIds, nas \in Genuine : Moves(u, t, i, a, nas)
    BY <1>7, MMECases
  <2>2. MMESends(u, t, i, a, nas) /\ (t = Page => i = NoId /\ a = NoId)
    BY <2>1 DEF Moves
  <2> QED BY <2>1, <2>2, MMECore, ShapeMMESends
<1>8. ASSUME NEW t \in MessageTypes, AwaitENBMessage(t) PROVE ShapeInv'
  <2>1. UNCHANGED <<sec, mme, rand, call, answer, lastENB, core, lastMME, track>>
    BY <1>8 DEF AwaitENBMessage
  <2>2. QueueInv'
    BY <1>8, TailFrame DEF AwaitENBMessage, ShapeInv
  <2> QED BY <2>1, <2>2 DEF ShapeInv, CounterInv
<1>9. CASE UNCHANGED vars
  BY <1>9 DEF vars, ShapeInv, QueueInv, CounterInv
<1> QED BY <1>1, <1>2, <1>3, <1>4, <1>5, <1>6, <1>7, <1>8, <1>9 DEF Next, UEStep

LEMMA Shaped == Spec => [](BearerInv /\ ShapeInv)
<1>1. Init => BearerInv /\ ShapeInv
  <2>1. Init => BearerInv
    BY DEF Init, BearerInv
  <2> QED BY <2>1, ShapeInit
<1>2. (BearerInv /\ ShapeInv) /\ [Next]_vars => (BearerInv /\ ShapeInv)'
  BY BearerStep, ShapeStep
<1> QED BY <1>1, <1>2, PTL DEF Spec

\* UE contexts, bearers, queues and answers keep their shape, with forged ids too:
\* ids, COUNTs and keys are numbers, an MME id that is kept is never nil, and what the
\* decoder makes of a PDU is queued under its type.
THEOREM TypeCorrect == Spec => []TypeOK
<1>1. BearerInv /\ ShapeInv => TypeOK
  <2> SUFFICES ASSUME BearerInv, ShapeInv PROVE TypeOK
    OBVIOUS
  <2>1. ASSUME NEW t \in MessageTypes, NEW i \in DOMAIN frames[t]
        PROVE  frames[t][i].type = t /\ frames[t][i].label \in Downlink
    <3>1. frames[t] \in Seq(FrameOf(t)) /\ frames[t][i] \in FrameOf(t)
      BY DEF ShapeInv, QueueInv
    <3>2. frames[t][i].type = t /\ frames[t][i].label \in Label
      BY <3>1 DEF FrameOf
    <3>3. Label \subseteq Downlink
      BY DEF Label, Genuine, Downlink, APIds, NoId
    <3> QED BY <3>2, <3>3
  <2>2. \A u \in UEs : \A w \in call[u] : call[u] = {w} /\ w.mme \in Nat
    BY DEF ShapeInv
  <2>3. \A u \in UEs : \A x \in answer[u] : answer[u] = {x} /\ x \in Answer
    BY DEF ShapeInv
  <2>4. lastENB \in Nat
    BY DEF ShapeInv, CounterInv
  <2> QED BY <2>1, <2>2, <2>3, <2>4 DEF TypeOK, ShapeInv, BearerInv
<1> QED BY <1>1, Shaped, PTL

(***************************************************************************)
(* The DL COUNT                                                            *)
(***************************************************************************)

\* An uplink moves the UL COUNT on, and nothing else.
LEMMA UplinkMoves ==
    ASSUME NEW s \in Context, NEW p
    PROVE  LET x == AfterUplinkEPS(s, p)
           IN /\ x.dl = s.dl /\ x.keys = s.keys /\ x.kamf = s.kamf
              /\ x.ul = IF p = "plain" THEN s.ul ELSE s.ul + 1
BY DEF AfterUplinkEPS, NextUL, Context

\* A downlink in step, protected under the keys in place, is given the COUNT it was
\* sent with, and verifies.
LEMMA InStepDownlink ==
    ASSUME NEW s \in Context, NEW n \in NAS, n.prot \notin {"plain", "new"},
           n.key = s.keys, n.count \in s.dl .. s.dl + Octet - 1
    PROVE  AfterDownlinkEPS(s, n).dl = n.count /\ MACVerified(s, n) # "false"
<1>1. EstimateDL(s.dl, n.count % Octet) = n.count
  BY CountRecovered DEF Context
<1>2. AfterDownlink(s, n) = [s EXCEPT !.dl = n.count] /\ NextDL(s, n.count % Octet).dl = n.count
  BY <1>1 DEF AfterDownlink, NextDL, Context
<1>3. AfterDownlink(s, n).dl = n.count /\ AfterDownlink(s, n).keys = s.keys
  BY <1>2 DEF Context
<1>4. AfterDownlinkEPS(s, n) = AfterDownlink(s, n)
  BY DEF AfterDownlinkEPS
<1> QED BY <1>2, <1>3, <1>4 DEF MACVerified

\* A command starts both COUNTs over, under the Kasme that the UE has.
LEMMA CommandEstablishes ==
    ASSUME NEW s \in Context, NEW n \in NAS
    PROVE  LET x == AfterDownlinkEPS(s, n)
           IN /\ x.kamf = s.kamf
              /\ n.prot = "new" => x.dl = 0 /\ x.ul = 0 /\ x.keys = s.kamf
              /\ n.prot # "new" => x.ul = s.ul /\ x.keys = s.keys
              /\ n.prot = "plain" => x = s
<1> DEFINE d == NextDL(s, n.count % Octet)
<1>1. EstimateDL(s.dl, n.count % Octet) \in Nat
  BY EstimateType DEF Context, NAS
<1>2. d \in Context /\ d.kamf = s.kamf /\ d.keys = s.keys /\ d.ul = s.ul
  BY <1>1 DEF NextDL, Context
<1> HIDE DEF d
<1>3. EstablishEPS(d).dl = 0 /\ EstablishEPS(d).ul = 0 /\ EstablishEPS(d).keys = s.kamf
      /\ EstablishEPS(d).kamf = s.kamf
  BY <1>2 DEF EstablishEPS, Establish, Context
<1>4. CASE n.prot = "new"
  BY <1>3, <1>4 DEF AfterDownlinkEPS, d
<1>5. CASE n.prot = "plain"
  BY <1>5 DEF AfterDownlinkEPS, AfterDownlink
<1>6. CASE n.prot \notin {"new", "plain"}
  BY <1>2, <1>6 DEF AfterDownlinkEPS, AfterDownlink, d
<1> QED BY <1>4, <1>5, <1>6

\* One UE's part of InStepDownlinksVerify
InStep(u) ==
    track[u].ok =>
        /\ sec[u].dl = track[u].at
        /\ \A x \in answer[u] : x.kind # "command" => x.mac # "false"

LEMMA InStepFetch ==
    ASSUME ShapeInv, NEW u \in UEs, InStep(u), Fetch(u)
    PROVE  InStep(u)'
<1>1. PICK w \in call[u], t \in MessageTypes : \E m \in 1..Len(frames[t]) :
        frames[t][m] \in FrameOf(t) /\ Handle(u, w, frames[t][m])
  BY FetchOutcome
<1>2. PICK f \in FrameOf(t) : Handle(u, w, f)
  BY <1>1
<1>3. PICK after \in Context, prot \in {"plain", "ciphered"}, gone \in SUBSET Deactivations, x \in Answer :
        Outcome(u, w, f, after, prot, gone, x)
  BY <1>2, HandleParts
<1> DEFINE nas == f.label.nas
<1>4. nas \in Genuine /\ nas \in NAS /\ sec[u] \in Context
      /\ track[u] \in [ok : BOOLEAN, at : Nat, replayed : BOOLEAN]
  BY DEF FrameOf, Label, Genuine, ShapeInv
<1>5. /\ after = (IF Unwraps(w, f) THEN AfterDownlinkEPS(sec[u], nas) ELSE sec[u])
      /\ sec'[u] = AfterUplinkEPS(after, prot) /\ answer'[u] = {x} /\ x.kind = nas.kind
      /\ x.mac = IF Unwraps(w, f) THEN MACVerified(sec[u], nas) ELSE "absent"
  BY <1>3 DEF Outcome, ShapeInv
<1>6. track'[u] = IF Unwraps(w, f) THEN Tracked(u, nas) ELSE track[u]
  BY <1>2 DEF Handle, ShapeInv
<1>7. sec'[u].dl = after.dl
  BY <1>5, UplinkMoves
<1> HIDE DEF nas
<1>8. CASE ~Unwraps(w, f) \/ nas.prot = "plain"
  <2>1. track'[u] = track[u] /\ x.mac = "absent" /\ after = sec[u]
    BY <1>4, <1>5, <1>6, <1>8, CommandEstablishes DEF MACVerified, Tracked
  <2> QED BY <2>1, <1>5, <1>7 DEF InStep
<1>9. CASE Unwraps(w, f) /\ nas.prot = "new"
  <2>1. track'[u].at = 0 /\ nas.kind = "command"
    BY <1>4, <1>6, <1>9 DEF Tracked, Genuine
  <2>2. after.dl = 0
    BY <1>4, <1>5, <1>9, CommandEstablishes
  <2> QED BY <2>1, <2>2, <1>5, <1>7 DEF InStep
<1>10. CASE Unwraps(w, f) /\ nas.prot \notin {"plain", "new"}
  <2> SUFFICES ASSUME track'[u].ok
               PROVE  /\ sec'[u].dl = track'[u].at
                      /\ \A y \in answer'[u] : y.kind # "command" => y.mac # "false"
    BY DEF InStep
  <2>1. /\ track[u].ok /\ nas.key = sec[u].keys /\ track'[u].at = nas.count
        /\ nas.count \in track[u].at .. track[u].at + Octet - 1
    BY <1>4, <1>6, <1>10 DEF Tracked
  <2>2. sec[u].dl = track[u].at
    BY <2>1 DEF InStep
  <2>3. AfterDownlinkEPS(sec[u], nas).dl = nas.count /\ MACVerified(sec[u], nas) # "false"
    BY <2>1, <2>2, <1>4, <1>10, InStepDownlink
  <2> QED BY <2>1, <2>3, <1>5, <1>7, <1>10
<1> QED BY <1>8, <1>9, <1>10

LEMMA InStepEmit ==
    ASSUME ShapeInv, NEW u \in UEs, NEW r, NEW i, NEW a, InStep(u), Emit(u, r, i, a)
    PROVE  InStep(u)'
<1>1. sec'[u] = AfterUplinkEPS(sec[u], r.prot) /\ sec[u] \in Context
      /\ answer'[u] = {} /\ track'[u] = track[u]
  BY DEF Emit, ShapeInv
<1> QED BY <1>1, UplinkMoves DEF InStep

\* What a request of one UE does is that UE's alone.
LEMMA Untouched ==
    ASSUME ShapeInv, NEW u \in UEs, UEStep(u) \/ MMEStep(u), NEW v \in UEs, v # u
    PROVE  /\ sec'[v] = sec[v] /\ mme'[v] = mme[v] /\ rand'[v] = rand[v] /\ core'[v] = core[v]
           /\ call'[v] = call[v] /\ answer'[v] = answer[v] /\ track'[v] = track[v]
<1> USE DEF ShapeInv
<1>1. ASSUME NEW r, NEW i, NEW a, Emit(u, r, i, a)
      PROVE  /\ sec'[v] = sec[v] /\ mme'[v] = mme[v] /\ rand'[v] = rand[v] /\ core'[v] = core[v]
             /\ call'[v] = call[v] /\ answer'[v] = answer[v] /\ track'[v] = track[v]
  BY <1>1 DEF Emit
<1>2. ASSUME NEW r, Send(u, r)
      PROVE  /\ sec'[v] = sec[v] /\ mme'[v] = mme[v] /\ rand'[v] = rand[v] /\ core'[v] = core[v]
             /\ call'[v] = call[v] /\ answer'[v] = answer[v] /\ track'[v] = track[v]
  BY <1>1, <1>2 DEF Send
<1>3. CASE Reestablish(u)
  BY <1>1, <1>3 DEF Reestablish
<1>4. CASE SendAuthenticationResponse(u)
  BY <1>4 DEF SendAuthenticationResponse
<1>5. CASE SendDeactivateAccept(u)
  BY <1>5 DEF SendDeactivateAccept
<1>6. CASE Fetch(u)
  <2>1. PICK w, f : Handle(u, w, f)
    BY <1>6 DEF Fetch
  <2> QED BY <2>1 DEF Handle
<1>7. CASE TimeOut(u)
  BY <1>7 DEF TimeOut
<1>8. CASE MMEStep(u)
  <2>1. PICK t \in MessageTypes, i \in APIds, a \in APIds, nas \in Genuine : Moves(u, t, i, a, nas)
    BY <1>8, MMECases
  <2>2. core'[v] = core[v]
    BY <2>1, MMECore
  <2> QED BY <2>1, <2>2 DEF Moves, MMESends
<1> QED BY <1>2, <1>3, <1>4, <1>5, <1>6, <1>7, <1>8 DEF UEStep

LEMMA InStepStep == ShapeInv /\ InStepDownlinksVerify /\ [Next]_vars => InStepDownlinksVerify'
<1> SUFFICES ASSUME ShapeInv, \A u \in UEs : InStep(u), [Next]_vars
             PROVE  \A u \in UEs : InStep(u)'
  BY DEF InStepDownlinksVerify, InStep
<1>1. ASSUME NEW u \in UEs, UEStep(u) \/ MMEStep(u), NEW v \in UEs, v # u PROVE InStep(v)'
  BY <1>1, Untouched DEF InStep
<1>2. ASSUME NEW u \in UEs, NEW r, Send(u, r) PROVE InStep(u)'
  BY <1>2, InStepEmit DEF Send
<1>3. ASSUME NEW u \in UEs, SendAuthenticationResponse(u) PROVE InStep(u)'
  <2>1. sec[u] \in Context
    BY DEF ShapeInv
  <2>2. PICK k : sec' = [sec EXCEPT ![u].kamf = k]
    BY <1>3 DEF SendAuthenticationResponse
  <2>3. sec'[u].dl = sec[u].dl
    BY <2>1, <2>2 DEF Context, ShapeInv
  <2>4. answer'[u] = {} /\ track'[u] = track[u]
    BY <1>3 DEF SendAuthenticationResponse, ShapeInv
  <2> QED BY <2>3, <2>4 DEF InStep
<1>4. ASSUME NEW u \in UEs, SendDeactivateAccept(u) PROVE InStep(u)'
  <2>1. /\ sec[u] \in Context /\ sec'[u] = AfterUplinkEPS(sec[u], "ciphered")
        /\ answer'[u] = {} /\ track'[u] = track[u]
    BY <1>4 DEF SendDeactivateAccept, ShapeInv
  <2> QED BY <2>1, UplinkMoves DEF InStep
<1>5. ASSUME NEW u \in UEs, Reestablish(u) PROVE InStep(u)'
  BY <1>5, InStepEmit DEF Reestablish
<1>6. ASSUME NEW u \in UEs, Fetch(u) PROVE InStep(u)'
  BY <1>6, InStepFetch
<1>7. ASSUME NEW u \in UEs, TimeOut(u) PROVE InStep(u)'
  BY <1>7 DEF TimeOut, InStep
<1>8. ASSUME NEW u \in UEs, MMEStep(u) PROVE InStep(u)'
  <2>1. PICK t, i, a, nas : Moves(u, t, i, a, nas)
    BY <1>8, MMECases
  <2> QED BY <2>1 DEF Moves, MMESends, InStep
<1>9. ASSUME NEW t \in MessageTypes, AwaitENBMessage(t) PROVE \A u \in UEs : InStep(u)'
  BY <1>9 DEF AwaitENBMessage, InStep
<1>10. CASE UNCHANGED vars
  BY <1>10 DEF vars, InStep
<1> QED BY <1>1, <1>2, <1>3, <1>4, <1>5, <1>6, <1>7, <1>8, <1>9, <1>10 DEF Next, UEStep

\* While a UE fetches its protected downlinks in the order they were sent, fewer
\* than an octet's worth apart, the estimate has the MME's COUNT and every MAC
\* but that of a SECURITY MODE COMMAND verifies (enb_security.go): for any number of UEs and bearers, with forged ids, late
\* answers and timeouts, and for any width of the octet that is on the wire.
THEOREM DownlinksVerify == Spec => []InStepDownlinksVerify
<1>1. Init => InStepDownlinksVerify
  BY DEF Init, InStepDownlinksVerify
<1>2. (BearerInv /\ ShapeInv) /\ InStepDownlinksVerify /\ [Next]_vars => InStepDownlinksVerify'
  BY InStepStep
<1> QED BY <1>1, <1>2, Shaped, PTL DEF Spec

(***************************************************************************)
(* Whose ids, whose messages                                               *)
(***************************************************************************)

\* Where MME id a occurs as one of u's, together with eNB id n: in the UE's context
\* and its request under way, in what the MME has of it, and in what is queued for it.
Knows(u, n, a) ==
    \/ n = ENBUES1APID[u] /\ (a = mme[u] \/ \E w \in call[u] : a = w.mme)
    \/ n = core[u].enb /\ a = core[u].mme
    \/ n = core[u].echo[1] /\ a = core[u].echo[2]
    \/ \E t \in MessageTypes : \E i \in DOMAIN frames[t] :
         /\ frames[t][i].label.to = {u}
         /\ n = frames[t][i].label.enb /\ a = frames[t][i].label.mme

\* The eNB ids that are a UE's
OwnsENB(u, n) ==
    \/ n = ENBUES1APID[u] \/ n = core[u].enb \/ n = core[u].echo[1]
    \/ \E t \in MessageTypes : \E i \in DOMAIN frames[t] :
         frames[t][i].label.to = {u} /\ n = frames[t][i].label.enb

\* What is queued is for the one UE whose ids it carries, or carries none.
ToInv ==
    \A t \in MessageTypes : \A i \in DOMAIN frames[t] :
      LET l == frames[t][i].label IN
        IF l.enb = NoId /\ l.mme = NoId THEN l.to = {} ELSE \E v \in UEs : l.to = {v}

\* An MME id is one UE's, and of one connection of it; an eNB id is one UE's; and the
\* counters are ahead of them all.
MMEIdInv ==
    \A u \in UEs, a \in Nat \ {0} : \A n : Knows(u, n, a) =>
      /\ a < lastMME
      /\ \A v \in UEs : \A m : Knows(v, m, a) =>
           v = u /\ (n \notin {NoId, 0} /\ m \notin {NoId, 0} => n = m)

ENBIdInv ==
    \A u \in UEs, n \in Nat \ {0} : OwnsENB(u, n) =>
      n <= lastENB /\ \A v \in UEs : OwnsENB(v, n) => v = u

\* A pair of ids that was known, or an MME id that was, with no eNB id now
Knew(v, n, a) == Knows(v, n, a) \/ (n \in {NoId, 0} /\ \E k : Knows(v, k, a))

\* The step at most opens a connection of u, with eNB id i and fresh ids.
AtMostOpens(u, i) ==
    /\ lastMME \in Nat /\ lastMME' \in {lastMME, lastMME + 1}
    /\ lastENB \in Nat /\ lastENB' \in {lastENB, lastENB + 1}
    /\ \A v \in UEs, a \in Nat \ {0} : \A n : Knows(v, n, a)' =>
         Knew(v, n, a) \/ (v = u /\ n = i /\ a = lastMME /\ lastMME' = lastMME + 1)
    /\ \A v \in UEs, n \in Nat \ {0} : OwnsENB(v, n)' =>
         OwnsENB(v, n) \/ (v = u /\ n = lastENB + 1 /\ lastENB' = lastENB + 1)

\* A step that at most opens a connection of one UE under a fresh id keeps the ids apart.
LEMMA IdsCarry ==
    ASSUME MMEIdInv, ENBIdInv, NEW u, NEW i, AtMostOpens(u, i)
    PROVE  MMEIdInv' /\ ENBIdInv'
<1> USE DEF AtMostOpens
<1>1. \A v \in UEs, a \in Nat \ {0} : \A n : Knew(v, n, a) => a < lastMME
  BY DEF Knew, MMEIdInv
<1>2. \A v, x \in UEs, a \in Nat \ {0} : \A n, m : Knew(v, n, a) /\ Knew(x, m, a) =>
        x = v /\ (n \notin {NoId, 0} /\ m \notin {NoId, 0} => n = m)
  BY DEF Knew, MMEIdInv
<1>3. ASSUME NEW v \in UEs, NEW a \in Nat \ {0}, NEW n, Knows(v, n, a)'
      PROVE  /\ a < lastMME'
             /\ \A x \in UEs : \A m : Knows(x, m, a)' =>
                  x = v /\ (n \notin {NoId, 0} /\ m \notin {NoId, 0} => n = m)
  <2>1. Knew(v, n, a) \/ (v = u /\ n = i /\ a = lastMME /\ lastMME' = lastMME + 1)
    BY <1>3
  <2>2. a < lastMME'
    BY <2>1, <1>1
  <2>3. ASSUME NEW x \in UEs, NEW m, Knows(x, m, a)'
        PROVE  x = v /\ (n \notin {NoId, 0} /\ m \notin {NoId, 0} => n = m)
    <3>1. Knew(x, m, a) \/ (x = u /\ m = i /\ a = lastMME /\ lastMME' = lastMME + 1)
      BY <2>3
    <3>2. ~(lastMME < lastMME)
      OBVIOUS
    <3> QED BY <2>1, <3>1, <3>2, <1>1, <1>2
  <2> QED BY <2>2, <2>3
<1>4. ASSUME NEW v \in UEs, NEW n \in Nat \ {0}, OwnsENB(v, n)'
      PROVE  n <= lastENB' /\ \A x \in UEs : OwnsENB(x, n)' => x = v
  <2>1. \A x \in UEs : OwnsENB(x, n) => n <= lastENB
    BY DEF ENBIdInv
  <2>2. \A x \in UEs : OwnsENB(x, n) /\ OwnsENB(v, n) => x = v
    BY DEF ENBIdInv
  <2> QED BY <1>4, <2>1, <2>2
<1>5. MMEIdInv'
  BY <1>3 DEF MMEIdInv
<1> QED BY <1>4, <1>5 DEF ENBIdInv

\* What the MME keeps of the ids of an uplink
LEMMA CoreIds ==
    ASSUME NEW c \in Core
    PROVE  /\ \A k, p, g : LET x == Dropped(Counted(c, k, p), g)
                           IN x.enb = c.enb /\ x.mme = c.mme /\ x.echo = c.echo
           /\ \A k, p : LET x == Counted(c, k, p)
                        IN x.enb = c.enb /\ x.mme = c.mme /\ x.echo = c.echo
           /\ \A k : LET x == Answered(c, k)
                     IN x.enb = c.enb /\ x.mme = c.mme /\ x.echo = c.echo
           /\ \A i, a : LET x == Heard(c, "initial", i, a)
                        IN x.enb = i /\ x.mme = lastMME /\ x.echo = <<i, NoId>>
           /\ \A t, i, a : LET x == Heard(c, t, i, a)
                           IN t # "initial" => /\ x.enb = c.enb /\ x.mme = c.mme
                                               /\ x.echo \in {c.echo, <<i, a>>}
<1>1. ASSUME NEW k, NEW p, NEW g
      PROVE  /\ Counted(c, k, p).enb = c.enb /\ Counted(c, k, p).mme = c.mme
             /\ Counted(c, k, p).echo = c.echo
             /\ LET x == Dropped(Counted(c, k, p), g)
                IN x.enb = c.enb /\ x.mme = c.mme /\ x.echo = c.echo
  <2> DEFINE y == [c EXCEPT !.ul = @ + 1, !.secured = @ \/ p = "new"]
             over(z) == {d.ebi : d \in g \cap z.ending}
             F(z) == [z EXCEPT !.live = @ \ over(z), !.ending = {d \in @ : d.ebi \notin over(z)}]
  <2>1. /\ y.enb = c.enb /\ y.mme = c.mme /\ y.echo = c.echo
        /\ F(c).enb = c.enb /\ F(c).mme = c.mme /\ F(c).echo = c.echo
        /\ F(y).enb = c.enb /\ F(y).mme = c.mme /\ F(y).echo = c.echo
    BY DEF Core
  <2>2. Counted(c, k, p) \in {c, y}
    BY DEF Counted
  <2>3. Dropped(Counted(c, k, p), g) = F(Counted(c, k, p))
    BY DEF Dropped
  <2> HIDE DEF y, F
  <2> QED BY <2>1, <2>2, <2>3
<1>2. \A k : LET x == Answered(c, k)
             IN x.enb = c.enb /\ x.mme = c.mme /\ x.echo = c.echo
  BY DEF Answered, Core
<1>3. \A i, a : LET x == Heard(c, "initial", i, a)
                IN x.enb = i /\ x.mme = lastMME /\ x.echo = <<i, NoId>>
  BY DEF Heard, Core
<1>4. ASSUME NEW t, NEW i, NEW a, t # "initial"
      PROVE  LET x == Heard(c, t, i, a)
             IN x.enb = c.enb /\ x.mme = c.mme /\ x.echo \in {c.echo, <<i, a>>}
  <2>1. CASE t = "none"
    BY <2>1 DEF Heard
  <2>2. CASE t # "none"
    BY <1>4, <2>2 DEF Heard, Core
  <2> QED BY <2>1, <2>2
<1> QED BY <1>1, <1>2, <1>3, <1>4

\* A UE sends under its own eNB id, or opens a connection under a fresh one.
SendsUnder(u, t, i) ==
    \/ i = ENBUES1APID[u] /\ lastENB' = lastENB
    \/ t = "initial" /\ i = lastENB + 1 /\ lastENB' = lastENB + 1

\* What the MME hears of the ids, c, is what was sent.
HeardUnder(u, t, i, c) ==
    /\ c.enb = Heard(core[u], t, i, mme[u]).enb /\ c.mme = Heard(core[u], t, i, mme[u]).mme
    /\ c.echo = Heard(core[u], t, i, mme[u]).echo
    /\ core' = [core EXCEPT ![u] = c]
    /\ lastMME' = IF t = "initial" THEN lastMME + 1 ELSE lastMME
    /\ \A v \in UEs : \A w \in call'[v] : w \in call[v] \/ (v = u /\ w.mme = mme[u])
    /\ UNCHANGED <<mme, frames>>

LEMMA IdsSend ==
    ASSUME ShapeInv, MMEIdInv, ENBIdInv, NEW u \in UEs, NEW i \in Nat, NEW t, NEW c,
           HeardUnder(u, t, i, c), SendsUnder(u, t, i)
    PROVE  MMEIdInv' /\ ENBIdInv'
<1> USE DEF HeardUnder, SendsUnder
<1>1. /\ core'[u] = c /\ \A v \in UEs : v # u => core'[v] = core[v]
      /\ core[u] \in Core /\ lastMME \in Nat /\ lastENB \in Nat
  BY DEF ShapeInv, CounterInv
<1>2. /\ t = "initial" => c.enb = i /\ c.mme = lastMME /\ c.echo[1] = i /\ c.echo[2] = NoId
      /\ t # "initial" => /\ c.enb = core[u].enb /\ c.mme = core[u].mme
                          /\ \/ c.echo = core[u].echo
                             \/ c.echo[1] = i /\ c.echo[2] = mme[u]
  <2>1. t = "initial" => c.enb = i /\ c.mme = lastMME /\ c.echo = <<i, NoId>>
    BY <1>1, CoreIds
  <2>2. t # "initial" => /\ c.enb = core[u].enb /\ c.mme = core[u].mme
                         /\ c.echo \in {core[u].echo, <<i, mme[u]>>}
    BY <1>1, CoreIds
  <2>3. <<i, NoId>>[1] = i /\ <<i, NoId>>[2] = NoId /\ <<i, mme[u]>>[1] = i /\ <<i, mme[u]>>[2] = mme[u]
    OBVIOUS
  <2> QED BY <2>1, <2>2, <2>3
<1>3. NoId \notin Nat
  BY DEF NoId
<1>4. ASSUME NEW v \in UEs, NEW a \in Nat \ {0}, NEW n, Knows(v, n, a)'
      PROVE  Knows(v, n, a) \/ (v = u /\ n = i /\ a = lastMME /\ lastMME' = lastMME + 1)
  <2>1. CASE n = ENBUES1APID[v] /\ (a = mme'[v] \/ \E w \in call'[v] : a = w.mme)
    BY <2>1 DEF Knows
  <2>2. CASE n = core'[v].enb /\ a = core'[v].mme
    BY <2>2, <1>1, <1>2 DEF Knows
  <2>3. CASE n = core'[v].echo[1] /\ a = core'[v].echo[2]
    BY <2>3, <1>1, <1>2, <1>3 DEF Knows
  <2>4. CASE \E s \in MessageTypes : \E j \in DOMAIN frames'[s] :
               /\ frames'[s][j].label.to = {v}
               /\ n = frames'[s][j].label.enb /\ a = frames'[s][j].label.mme
    BY <2>4 DEF Knows
  <2> QED BY <1>4, <2>1, <2>2, <2>3, <2>4 DEF Knows
<1>5. ASSUME NEW v \in UEs, NEW n \in Nat \ {0}, OwnsENB(v, n)'
      PROVE  OwnsENB(v, n) \/ (v = u /\ n = lastENB + 1 /\ lastENB' = lastENB + 1)
  <2>1. CASE n = ENBUES1APID[v]
    BY <2>1 DEF OwnsENB
  <2>2. CASE n = core'[v].enb \/ n = core'[v].echo[1]
    BY <2>2, <1>1, <1>2 DEF OwnsENB
  <2>3. CASE \E s \in MessageTypes : \E j \in DOMAIN frames'[s] :
               frames'[s][j].label.to = {v} /\ n = frames'[s][j].label.enb
    BY <2>3 DEF OwnsENB
  <2> QED BY <1>5, <2>1, <2>2, <2>3 DEF OwnsENB
<1>6. lastMME' \in {lastMME, lastMME + 1} /\ lastENB' \in {lastENB, lastENB + 1}
  BY <1>1
<1>7. \A v \in UEs, a \in Nat \ {0} : \A n : Knows(v, n, a)' =>
        Knew(v, n, a) \/ (v = u /\ n = i /\ a = lastMME /\ lastMME' = lastMME + 1)
  BY <1>4 DEF Knew
<1>8. \A v \in UEs, n \in Nat \ {0} : OwnsENB(v, n)' =>
        OwnsENB(v, n) \/ (v = u /\ n = lastENB + 1 /\ lastENB' = lastENB + 1)
  BY <1>5
<1>9. lastMME \in Nat /\ lastENB \in Nat
  BY <1>1
<1>10. AtMostOpens(u, i)
  BY <1>6, <1>7, <1>8, <1>9, Zenon DEF AtMostOpens
<1>11. MMEIdInv /\ ENBIdInv
  OBVIOUS
<1> QED BY <1>10, <1>11, IdsCarry, Zenon

\* The answers stay one's own, but for those of the step.
OwnInv == MMEIdInv /\ ENBIdInv /\ ToInv /\ OwnDownlinksOnly

LEMMA OwnEmit ==
    ASSUME ShapeInv, OwnInv, NEW u \in UEs, NEW r \in Formed, NEW i \in Nat,
           Emit(u, r, i, mme[u]), SendsUnder(u, r.carrier, i)
    PROVE  OwnInv'
<1> DEFINE h == Heard(core[u], r.carrier, i, mme[u])
           c == Counted(h, sec[u].keys, r.prot)
<1>1. /\ core' = [core EXCEPT ![u] = c]
      /\ lastMME' = IF r.carrier = "initial" THEN lastMME + 1 ELSE lastMME
      /\ call' \in {[call EXCEPT ![u] = {}], [call EXCEPT ![u] = {[req |-> r, mme |-> mme[u]]}]}
      /\ answer' = [answer EXCEPT ![u] = {}] /\ UNCHANGED <<mme, frames>>
  BY DEF Emit
<1>2. c.enb = h.enb /\ c.mme = h.mme /\ c.echo = h.echo
  <2>1. h \in Core
    BY CoreStays DEF Protections, Formed, Form, ShapeInv
  <2> HIDE DEF h
  <2> QED BY <2>1, CoreIds
<1> HIDE DEF h, c
<1>3. \A v \in UEs : \A w \in call'[v] : w \in call[v] \/ (v = u /\ w.mme = mme[u])
  BY <1>1 DEF ShapeInv
<1>4. MMEIdInv' /\ ENBIdInv'
  <2>1. HeardUnder(u, r.carrier, i, c)
    BY <1>1, <1>2, <1>3 DEF h, HeardUnder
  <2> QED BY <2>1, IdsSend DEF OwnInv
<1>5. ToInv' /\ OwnDownlinksOnly'
  BY <1>1 DEF OwnInv, ToInv, OwnDownlinksOnly, ShapeInv
<1> QED BY <1>4, <1>5 DEF OwnInv

LEMMA OwnAuthentication ==
    ASSUME ~Overrides, ShapeInv, OwnInv, NEW u \in UEs, SendAuthenticationResponse(u)
    PROVE  OwnInv'
<1>1. EffectiveMMEIDs(u, AuthenticationResponse) = {mme[u]}
  BY DEF EffectiveMMEIDs
<1> DEFINE i == ENBUES1APID[u]
           h == Heard(core[u], "uplink", i, mme[u])
<1>2. PICK k \in AuthenticationChoices(u) :
        /\ core' = [core EXCEPT ![u] = Answered(h, k[2])]
        /\ call' = [call EXCEPT ![u] = {[req |-> AuthenticationResponse, mme |-> mme[u]]}]
  BY <1>1 DEF SendAuthenticationResponse
<1>3. answer' = [answer EXCEPT ![u] = {}] /\ UNCHANGED <<mme, lastENB, lastMME, frames>>
  BY DEF SendAuthenticationResponse
<1>4. h \in Core
  <2>1. core[u] \in Core /\ lastMME \in Nat /\ i \in Nat /\ mme[u] \in Nat
    BY SentUnder DEF ShapeInv
  <2> QED BY <2>1, CoreStays DEF Protections
<1> HIDE DEF h
<1>5. /\ Answered(h, k[2]).enb = h.enb /\ Answered(h, k[2]).mme = h.mme
      /\ Answered(h, k[2]).echo = h.echo
  BY <1>4, CoreIds
<1>6. \A v \in UEs : \A w \in call'[v] : w \in call[v] \/ (v = u /\ w.mme = mme[u])
  BY <1>2 DEF ShapeInv
<1>7. MMEIdInv' /\ ENBIdInv'
  <2>1. HeardUnder(u, "uplink", i, Answered(h, k[2])) /\ SendsUnder(u, "uplink", i)
    BY <1>2, <1>3, <1>5, <1>6 DEF h, HeardUnder, SendsUnder
  <2> QED BY <2>1, SentUnder, IdsSend DEF OwnInv
<1>8. ToInv' /\ OwnDownlinksOnly'
  BY <1>3 DEF OwnInv, ToInv, OwnDownlinksOnly, ShapeInv
<1> QED BY <1>7, <1>8 DEF OwnInv

\* Steps that take no new id from anywhere: what they leave queued was queued.
NoNewIds ==
    /\ \A s \in MessageTypes : \A i \in DOMAIN frames'[s] :
         \E j \in DOMAIN frames[s] : frames'[s][i] = frames[s][j]
    /\ \A v \in UEs : /\ core'[v].enb = core[v].enb /\ core'[v].mme = core[v].mme
                      /\ core'[v].echo = core[v].echo
                      /\ call'[v] \subseteq call[v]
                      /\ mme'[v] # mme[v] => Knows(v, ENBUES1APID[v], mme'[v])
    /\ UNCHANGED <<lastENB, lastMME>>

LEMMA OwnLess ==
    ASSUME ShapeInv, OwnInv, NoNewIds
    PROVE  MMEIdInv' /\ ENBIdInv' /\ ToInv'
<1> USE DEF NoNewIds
<1>1. ToInv'
  BY DEF ToInv, OwnInv
<1>2. ASSUME NEW v \in UEs, NEW a \in Nat \ {0}, NEW n, Knows(v, n, a)' PROVE Knows(v, n, a)
  <2>1. CASE n = ENBUES1APID[v] /\ (a = mme'[v] \/ \E w \in call'[v] : a = w.mme)
    BY <2>1 DEF Knows
  <2>2. CASE \/ n = core'[v].enb /\ a = core'[v].mme
             \/ n = core'[v].echo[1] /\ a = core'[v].echo[2]
    BY <2>2 DEF Knows
  <2>3. CASE \E s \in MessageTypes : \E j \in DOMAIN frames'[s] :
               /\ frames'[s][j].label.to = {v}
               /\ n = frames'[s][j].label.enb /\ a = frames'[s][j].label.mme
    BY <2>3 DEF Knows
  <2> QED BY <1>2, <2>1, <2>2, <2>3 DEF Knows
<1>3. ASSUME NEW v \in UEs, NEW n \in Nat \ {0}, OwnsENB(v, n)' PROVE OwnsENB(v, n)
  <2>1. CASE n = ENBUES1APID[v] \/ n = core'[v].enb \/ n = core'[v].echo[1]
    BY <2>1 DEF OwnsENB
  <2>2. CASE \E s \in MessageTypes : \E j \in DOMAIN frames'[s] :
               frames'[s][j].label.to = {v} /\ n = frames'[s][j].label.enb
    BY <2>2 DEF OwnsENB
  <2> QED BY <1>3, <2>1, <2>2 DEF OwnsENB
<1>4. lastMME \in Nat /\ lastENB \in Nat /\ lastMME' = lastMME /\ lastENB' = lastENB
  BY DEF ShapeInv, CounterInv
<1>5. MMEIdInv' /\ ENBIdInv'
  <2> HIDE DEF NoNewIds
  <2>1. ASSUME NEW u, NEW i PROVE MMEIdInv' /\ ENBIdInv'
    <3>1. AtMostOpens(u, i)
      BY <1>2, <1>3, <1>4 DEF AtMostOpens, Knew
    <3> QED BY <3>1, IdsCarry, Zenon DEF OwnInv
  <2> QED BY <2>1
<1> QED BY <1>1, <1>5

\* A wait by ids takes nobody else's message.
LEMMA MatchedOwn ==
    ASSUME ShapeInv, OwnInv, NEW u \in UEs, NEW w \in call[u], w.req.match # "any",
           NEW t \in MessageTypes, NEW m \in DOMAIN frames[t], Matches(u, w, frames[t][m].label)
    PROVE  frames[t][m].label.to \in {{}, {u}}
<1> DEFINE l == frames[t][m].label
<1>1. ASSUME NEW v \in UEs, l.to = {v}, l.enb = ENBUES1APID[u] PROVE v = u
  <2>1. OwnsENB(v, ENBUES1APID[u]) /\ OwnsENB(u, ENBUES1APID[u])
    BY <1>1 DEF OwnsENB
  <2>2. ENBUES1APID[u] \in Nat \ {0}
    BY Identities
  <2> QED BY <2>1, <2>2 DEF OwnInv, ENBIdInv
<1>2. ASSUME NEW v \in UEs, l.to = {v}, l.mme = w.mme, w.mme # Unassigned PROVE v = u
  <2>1. Knows(v, l.enb, w.mme) /\ Knows(u, ENBUES1APID[u], w.mme)
    BY <1>2 DEF Knows
  <2>2. w.mme \in Nat \ {0}
    BY <1>2 DEF ShapeInv, Unassigned
  <2> QED BY <2>1, <2>2 DEF OwnInv, MMEIdInv
<1>3. IF l.enb = NoId /\ l.mme = NoId THEN l.to = {} ELSE \E v \in UEs : l.to = {v}
  BY DEF OwnInv, ToInv
<1> QED BY <1>1, <1>2, <1>3 DEF Matches

LEMMA OwnFetch ==
    ASSUME ShapeInv, OwnInv, NEW u \in UEs, Fetch(u)
    PROVE  OwnInv'
<1>1. PICK w \in call[u], t \in MessageTypes : \E m \in 1..Len(frames[t]) :
        /\ frames' = [frames EXCEPT ![t] = RemoveAt(@, m)]
        /\ frames[t][m] \in FrameOf(t) /\ Matches(u, w, frames[t][m].label)
        /\ Handle(u, w, frames[t][m])
  BY FetchOutcome
<1>2. PICK m \in 1..Len(frames[t]) :
        /\ frames' = [frames EXCEPT ![t] = RemoveAt(@, m)]
        /\ frames[t][m] \in FrameOf(t) /\ Matches(u, w, frames[t][m].label)
        /\ Handle(u, w, frames[t][m])
  BY <1>1
<1> DEFINE f == frames[t][m]
           l == f.label
<1>3. m \in DOMAIN frames[t] /\ core[u] \in Core /\ w.req \in Formed
  BY <1>2 DEF ShapeInv, QueueInv
<1>4. PICK after \in Context, prot \in {"plain", "ciphered"}, gone \in SUBSET Deactivations, x \in Answer :
        Outcome(u, w, f, after, prot, gone, x)
  <2>1. f \in FrameOf(t) /\ Handle(u, w, f)
    BY <1>2
  <2> HIDE DEF f
  <2> QED BY <2>1, HandleParts
<1>5. /\ core' = [core EXCEPT ![u] = Dropped(Counted(@, after.keys, prot), gone)]
      /\ answer' = [answer EXCEPT ![u] = {x}] /\ x.match = w.req.match
      /\ x.foreign = (l.to # {} /\ u \notin l.to)
  BY <1>4 DEF Outcome
<1>6. /\ mme' = (IF w.req.learns /\ l.mme # NoId THEN [mme EXCEPT ![u] = l.mme] ELSE mme)
      /\ call' = [call EXCEPT ![u] = {}] /\ UNCHANGED <<lastENB, lastMME>>
  BY <1>2 DEF Handle
<1> HIDE DEF f, l
<1>7. w.req.match # "any" => l.to \in {{}, {u}}
  BY <1>2, <1>3, MatchedOwn DEF f, l
<1>8. \A v \in UEs : mme'[v] # mme[v] => Knows(v, ENBUES1APID[v], mme'[v])
  <2> SUFFICES ASSUME NEW v \in UEs, mme'[v] # mme[v] PROVE Knows(v, ENBUES1APID[v], mme'[v])
    OBVIOUS
  <2>1. v = u /\ w.req.learns /\ l.mme # NoId /\ mme'[u] = l.mme
    BY <1>6 DEF ShapeInv
  <2>2. w.req.match = "enb"
    BY <2>1, <1>3 DEF Formed
  <2>3. l.enb = ENBUES1APID[u]
    BY <2>2, <1>2 DEF Matches, f, l
  <2>4. l.to # {}
    BY <2>1, <1>3 DEF OwnInv, ToInv, f, l
  <2>5. l.to = {u}
    BY <2>2, <2>4, <1>7
  <2> QED BY <2>1, <2>3, <2>5, <1>3 DEF Knows, f, l
<1>9. \A s \in MessageTypes : \A i \in DOMAIN frames'[s] :
        \E j \in DOMAIN frames[s] : frames'[s][i] = frames[s][j]
  <2>1. /\ \A s \in MessageTypes \ {t} : frames'[s] = frames[s]
        /\ \A i \in DOMAIN frames'[t] : \E j \in DOMAIN frames[t] : frames'[t][i] = frames[t][j]
    <3>1. /\ \A s \in MessageTypes \ {t} : frames'[s] = frames[s]
          /\ \A i \in DOMAIN frames'[t] :
               Shift(i, m) \in DOMAIN frames[t] /\ frames'[t][i] = frames[t][Shift(i, m)]
      BY <1>2, RemoveFrame DEF ShapeInv
    <3> QED BY <3>1
  <2> QED BY <2>1
<1>10. MMEIdInv' /\ ENBIdInv' /\ ToInv'
  <2>1. \A v \in UEs : /\ core'[v].enb = core[v].enb /\ core'[v].mme = core[v].mme
                       /\ core'[v].echo = core[v].echo /\ call'[v] \subseteq call[v]
    BY <1>3, <1>5, <1>6, CoreIds DEF ShapeInv
  <2>2. NoNewIds
    BY <2>1, <1>6, <1>8, <1>9 DEF NoNewIds
  <2> QED BY <2>2, OwnLess
<1>11. OwnDownlinksOnly'
  <2>1. \A v \in UEs : \A y \in answer[v] : y.match # "any" => ~y.foreign
    BY DEF OwnInv, OwnDownlinksOnly
  <2>2. x.match # "any" => ~x.foreign
    BY <1>5, <1>7
  <2> QED BY <2>1, <2>2, <1>5 DEF OwnDownlinksOnly, ShapeInv
<1> QED BY <1>10, <1>11 DEF OwnInv

\* What the MME sends of a UE carries ids that are the UE's already.
LEMMA OwnMME ==
    ASSUME ShapeInv, OwnInv, NEW u \in UEs, MMEStep(u)
    PROVE  OwnInv'
<1>1. PICK t \in MessageTypes, i \in APIds, a \in APIds, nas \in Genuine : Moves(u, t, i, a, nas)
  BY MMECases
<1>2. /\ MMESends(u, t, i, a, nas) /\ (t = Page => i = NoId /\ a = NoId)
      /\ \/ a = core[u].mme /\ i \in {core[u].enb, NoId}
         \/ <<i, a>> = core[u].echo
         \/ i = NoId /\ a = NoId
  BY <1>1 DEF Moves
<1>3. /\ \A v \in UEs \ {u} : core'[v] = core[v]
      /\ core'[u].mme = core[u].mme /\ core'[u].echo = core[u].echo /\ core'[u].enb \in {core[u].enb, 0}
  BY <1>1, MMECore DEF Keeps
<1>4. UNCHANGED <<mme, call, answer, lastENB, lastMME>>
  BY <1>2 DEF MMESends
<1>5. PICK n \in {nas, NoNAS} :
        LET l == [to |-> IF i = NoId /\ a = NoId THEN {} ELSE {u}, enb |-> i, mme |-> a, nas |-> n]
        IN l \in Label /\ frames' = File(frames, [type |-> t, label |-> l])
  BY <1>2, MMEFiles
<1> DEFINE l == [to |-> IF i = NoId /\ a = NoId THEN {} ELSE {u}, enb |-> i, mme |-> a, nas |-> n]
<1>6. /\ l \in Label /\ l.to = (IF i = NoId /\ a = NoId THEN {} ELSE {u}) /\ l.enb = i /\ l.mme = a
      /\ frames' = File(frames, [type |-> t, label |-> l])
  BY <1>5
<1> HIDE DEF l
<1>7. \A s \in MessageTypes : \A k \in DOMAIN frames'[s] :
        \/ frames'[s][k].label = l
        \/ \E j \in DOMAIN frames[s] : frames'[s][k] = frames[s][j]
  <2>1. \A s \in MessageTypes : \A k \in DOMAIN frames'[s] :
          \/ frames'[s][k] = [type |-> t, label |-> l]
          \/ \E j \in DOMAIN frames[s] : frames'[s][k] = frames[s][j]
    BY <1>6, FileFrame DEF ShapeInv
  <2> QED BY <2>1
<1>8. NoId \notin Nat
  BY DEF NoId
<1>9. /\ \A x \in Nat \ {0} : x = a => Knew(u, i, a)
      /\ \A x \in Nat \ {0} : x = i => OwnsENB(u, i)
  <2>1. CASE a = core[u].mme /\ i \in {core[u].enb, NoId}
    BY <2>1, <1>8 DEF Knew, Knows, OwnsENB
  <2>2. CASE <<i, a>> = core[u].echo
    <3>1. i = core[u].echo[1] /\ a = core[u].echo[2]
      BY <2>2
    <3> QED BY <3>1 DEF Knew, Knows, OwnsENB
  <2>3. CASE i = NoId /\ a = NoId
    BY <2>3, <1>8
  <2> QED BY <2>1, <2>2, <2>3, <1>2
<1>10. ToInv'
  <2> SUFFICES ASSUME NEW s \in MessageTypes, NEW k \in DOMAIN frames'[s]
               PROVE  LET z == frames'[s][k].label IN
                        IF z.enb = NoId /\ z.mme = NoId THEN z.to = {} ELSE \E v \in UEs : z.to = {v}
    BY DEF ToInv
  <2>1. CASE frames'[s][k].label = l
    BY <2>1, <1>6
  <2>2. CASE \E j \in DOMAIN frames[s] : frames'[s][k] = frames[s][j]
    BY <2>2 DEF OwnInv, ToInv
  <2> QED BY <2>1, <2>2, <1>7
<1>11. ASSUME NEW v \in UEs, NEW x \in Nat \ {0}, NEW y, Knows(v, y, x)' PROVE Knew(v, y, x)
  <2>1. CASE \/ y = ENBUES1APID[v] /\ (x = mme'[v] \/ \E w \in call'[v] : x = w.mme)
             \/ y = core'[v].echo[1] /\ x = core'[v].echo[2]
    BY <2>1, <1>3, <1>4 DEF Knows, Knew
  <2>2. CASE y = core'[v].enb /\ x = core'[v].mme
    BY <2>2, <1>3 DEF Knows, Knew
  <2>3. ASSUME NEW s \in MessageTypes, NEW j \in DOMAIN frames'[s],
               frames'[s][j].label.to = {v}, y = frames'[s][j].label.enb, x = frames'[s][j].label.mme
        PROVE  Knew(v, y, x)
    <3>1. CASE frames'[s][j].label = l
      <4>1. v = u /\ x = a /\ y = i
        BY <2>3, <3>1, <1>6
      <4> QED BY <4>1, <1>9
    <3>2. CASE \E k \in DOMAIN frames[s] : frames'[s][j] = frames[s][k]
      BY <2>3, <3>2 DEF Knows, Knew
    <3> QED BY <3>1, <3>2, <1>7
  <2> QED BY <1>11, <2>1, <2>2, <2>3 DEF Knows
<1>12. ASSUME NEW v \in UEs, NEW x \in Nat \ {0}, OwnsENB(v, x)' PROVE OwnsENB(v, x)
  <2>1. CASE x = ENBUES1APID[v] \/ x = core'[v].enb \/ x = core'[v].echo[1]
    BY <2>1, <1>3 DEF OwnsENB
  <2>2. ASSUME NEW s \in MessageTypes, NEW j \in DOMAIN frames'[s],
               frames'[s][j].label.to = {v}, x = frames'[s][j].label.enb
        PROVE  OwnsENB(v, x)
    <3>1. CASE frames'[s][j].label = l
      <4>1. v = u /\ x = i
        BY <2>2, <3>1, <1>6
      <4> QED BY <4>1, <1>9
    <3>2. CASE \E k \in DOMAIN frames[s] : frames'[s][j] = frames[s][k]
      BY <2>2, <3>2 DEF OwnsENB
    <3> QED BY <3>1, <3>2, <1>7
  <2> QED BY <1>12, <2>1, <2>2 DEF OwnsENB
<1>13. lastMME \in Nat /\ lastENB \in Nat /\ lastMME' = lastMME /\ lastENB' = lastENB
  BY <1>4 DEF ShapeInv, CounterInv
<1>14. MMEIdInv' /\ ENBIdInv'
  <2>1. ASSUME NEW w, NEW m PROVE AtMostOpens(w, m)
    BY <1>11, <1>12, <1>13 DEF AtMostOpens
  <2> QED BY <2>1, IdsCarry, Zenon DEF OwnInv
<1>15. OwnDownlinksOnly'
  BY <1>4 DEF OwnInv, OwnDownlinksOnly
<1> QED BY <1>10, <1>14, <1>15 DEF OwnInv

\* The downlink that a handler answers by itself says nothing of ids.
LEMMA OwnDeactivate ==
    ASSUME ShapeInv, OwnInv, NEW u \in UEs, SendDeactivateAccept(u)
    PROVE  OwnInv'
<1>1. PICK gone : core' = [core EXCEPT ![u] = Dropped(Counted(@, sec[u].keys, "ciphered"), gone)]
  BY DEF SendDeactivateAccept
<1>2. answer' = [answer EXCEPT ![u] = {}] /\ UNCHANGED <<mme, call, lastENB, lastMME, frames>>
  BY DEF SendDeactivateAccept
<1>3. core[u] \in Core
  BY DEF ShapeInv
<1>4. \A v \in UEs : core'[v].enb = core[v].enb /\ core'[v].mme = core[v].mme /\ core'[v].echo = core[v].echo
  BY <1>1, <1>3, CoreIds DEF ShapeInv
<1>5. MMEIdInv' /\ ENBIdInv' /\ ToInv'
  BY <1>2, <1>4, OwnLess DEF NoNewIds
<1> QED BY <1>2, <1>5 DEF OwnInv, OwnDownlinksOnly, ShapeInv

LEMMA OwnStep ==
    ASSUME ~Overrides
    PROVE  ShapeInv /\ OwnInv /\ [Next]_vars => OwnInv'
<1> SUFFICES ASSUME ShapeInv, OwnInv, [Next]_vars PROVE OwnInv'
  OBVIOUS
<1>1. ASSUME NEW u \in UEs, NEW r \in Used, Send(u, r) PROVE OwnInv'
  <2>1. EffectiveMMEIDs(u, r) = {mme[u]}
    BY DEF EffectiveMMEIDs
  <2>2. Emit(u, r, ENBUES1APID[u], mme[u]) /\ lastENB' = lastENB
    BY <1>1, <2>1 DEF Send
  <2>3. r \in Formed /\ ENBUES1APID[u] \in Nat
    BY RequestsFormed, ENBUEAssumption, SentUnder
  <2> QED BY <2>2, <2>3, OwnEmit DEF SendsUnder
<1>2. ASSUME NEW u \in UEs, SendAuthenticationResponse(u) PROVE OwnInv'
  BY <1>2, OwnAuthentication
<1>3. ASSUME NEW u \in UEs, SendDeactivateAccept(u) PROVE OwnInv'
  BY <1>3, OwnDeactivate
<1>4. ASSUME NEW u \in UEs, Reestablish(u) PROVE OwnInv'
  <2> DEFINE r == Secured(Request("initial", "ciphered", <<Release, Err>>))
  <2>1. r \in Formed /\ r.carrier = "initial" /\ lastENB + 1 \in Nat
    BY SentUnder, RequestsFormed DEF Secured, Request, AllocateENBUES1APID
  <2>2. Emit(u, r, lastENB + 1, mme[u]) /\ lastENB' = lastENB + 1
    BY <1>4 DEF Reestablish, AllocateENBUES1APID
  <2> HIDE DEF r
  <2> QED BY <2>1, <2>2, OwnEmit DEF SendsUnder
<1>5. ASSUME NEW u \in UEs, Fetch(u) PROVE OwnInv'
  BY <1>5, OwnFetch
<1>6. ASSUME NEW u \in UEs, TimeOut(u) PROVE OwnInv'
  <2>1. /\ call' = [call EXCEPT ![u] = {}]
        /\ UNCHANGED <<mme, answer, lastENB, frames, core, lastMME>>
    BY <1>6 DEF TimeOut
  <2>2. \A v \in UEs : call'[v] \subseteq call[v]
    BY <2>1 DEF ShapeInv
  <2>3. MMEIdInv' /\ ENBIdInv' /\ ToInv'
    BY <2>1, <2>2, OwnLess DEF NoNewIds
  <2> QED BY <2>1, <2>3 DEF OwnInv, OwnDownlinksOnly
<1>7. ASSUME NEW u \in UEs, MMEStep(u) PROVE OwnInv'
  BY <1>7, OwnMME
<1>8. ASSUME NEW t \in MessageTypes, AwaitENBMessage(t) PROVE OwnInv'
  <2>1. UNCHANGED <<mme, call, answer, lastENB, core, lastMME>>
    BY <1>8 DEF AwaitENBMessage
  <2>2. \A s \in MessageTypes : \A i \in DOMAIN frames'[s] :
          \E j \in DOMAIN frames[s] : frames'[s][i] = frames[s][j]
    <3>1. /\ \A s \in MessageTypes \ {t} : frames'[s] = frames[s]
          /\ \A i \in DOMAIN frames'[t] : \E j \in DOMAIN frames[t] : frames'[t][i] = frames[t][j]
      BY <1>8, TailFrame DEF AwaitENBMessage, ShapeInv
    <3> QED BY <3>1
  <2>3. MMEIdInv' /\ ENBIdInv' /\ ToInv'
    BY <2>1, <2>2, OwnLess DEF NoNewIds
  <2> QED BY <2>1, <2>3 DEF OwnInv, OwnDownlinksOnly
<1>9. CASE UNCHANGED vars
  <2>1. UNCHANGED <<mme, call, answer, lastENB, frames, core, lastMME>>
    BY <1>9 DEF vars
  <2>2. \A v \in UEs : call'[v] \subseteq call[v]
    BY <2>1
  <2>3. MMEIdInv' /\ ENBIdInv' /\ ToInv'
    BY <2>1, <2>2, OwnLess DEF NoNewIds
  <2> QED BY <2>1, <2>3 DEF OwnInv, OwnDownlinksOnly
<1> QED BY <1>1, <1>2, <1>3, <1>4, <1>5, <1>6, <1>7, <1>8, <1>9 DEF Next, UEStep

LEMMA OwnInit == Init => OwnInv
<1> SUFFICES ASSUME Init PROVE OwnInv
  OBVIOUS
<1>1. \A t \in MessageTypes : DOMAIN frames[t] = {}
  <2>1. \A t \in MessageTypes : frames[t] = <<>>
    BY DEF Init, EmptyQueues
  <2> QED BY <2>1
<1>2. NoId \notin Nat
  BY DEF NoId
<1>3. \A u \in UEs : /\ mme[u] = 0 /\ call[u] = {} /\ core[u].mme = 0 /\ core[u].enb = 0
                     /\ core[u].echo[1] = NoId /\ core[u].echo[2] = NoId
  BY DEF Init, Unassigned
<1>4. MMEIdInv
  <2>1. \A u \in UEs, a \in Nat \ {0} : \A n : ~Knows(u, n, a)
    BY <1>1, <1>2, <1>3 DEF Knows
  <2> QED BY <2>1 DEF MMEIdInv
<1>5. ENBIdInv
  <2>1. \A u \in UEs, n \in Nat \ {0} : OwnsENB(u, n) => n = ENBUES1APID[u]
    BY <1>1, <1>2, <1>3 DEF OwnsENB
  <2>2. CounterInv
    BY ShapeInit DEF ShapeInv
  <2> QED BY <2>1, <2>2, ENBUEAssumption DEF ENBIdInv, CounterInv
<1> QED BY <1>1, <1>4, <1>5 DEF OwnInv, ToInv, OwnDownlinksOnly, Init

LEMMA Owned ==
    ASSUME ~Overrides
    PROVE  Spec => []OwnInv
<1>1. (BearerInv /\ ShapeInv) /\ OwnInv /\ [Next]_vars => OwnInv'
  BY OwnStep
<1> QED BY <1>1, OwnInit, Shaped, PTL DEF Spec

\* A wait by AP ids returns no other UE's downlink (s1apUEMatcher), for any number of
\* UEs and whichever of its MME's ids a UE has learnt, as long as no request forges an
\* MME id (mme_ue_s1ap_id_override): then no id is ever two UEs', and an id that a UE
\* learns is its own.
THEOREM OwnDownlinks ==
    ASSUME ~Overrides
    PROVE  Spec => []OwnDownlinksOnly
<1>1. OwnInv => OwnDownlinksOnly
  BY DEF OwnInv
<1> QED BY <1>1, Owned, PTL

(***************************************************************************)
(* Whose keys                                                              *)
(***************************************************************************)

\* The labels of the messages queued for u as DOWNLINK NAS TRANSPORTs
For(u) ==
    {l \in Label : l.to = {u} /\ \E i \in DOMAIN frames[Dnt] : frames[Dnt][i].label = l}

\* Two of them, queued in this order
Precedes(u, l, k) ==
    /\ l.to = {u} /\ k.to = {u}
    /\ \E i, j \in DOMAIN frames[Dnt] :
         i < j /\ frames[Dnt][i].label = l /\ frames[Dnt][j].label = k

\* What is labelled l was sent on a connection under the UE's own eNB id.
Reaches(u, l) == l.enb = ENBUES1APID[u]

\* Challenges and commands are carried by DOWNLINK NAS TRANSPORTs with an eNB id.
CarrierInv ==
    \A t \in MessageTypes : \A i \in DOMAIN frames[t] :
      LET l == frames[t][i].label
      IN l.nas.kind \in {"challenge", "command"} => t = Dnt /\ l.enb \notin {NoId, 0}

\* Challenges are queued in the order of their numbers, a command after its own.
OrderInv(u) ==
    \A l, k \in Label : Precedes(u, l, k) /\ l.nas.kind = "challenge" =>
      /\ k.nas.kind = "challenge" => l.nas.arg < k.nas.arg
      /\ k.nas.kind = "command" => l.nas.arg <= k.nas.key

\* A challenge that the UE can still get is newer than what it has; a command that it
\* can still get is for the Kasme that it has.
AheadInv(u) ==
    \A l \in For(u) :
      /\ l.nas.kind = "challenge" =>
           /\ l.nas.arg <= core[u].chal
           /\ Reaches(u, l) => rand[u] < l.nas.arg /\ sec[u].kamf < l.nas.arg
      /\ l.nas.kind = "command" =>
           /\ l.nas.key <= core[u].key
           /\ Reaches(u, l) => sec[u].kamf = l.nas.key /\ rand[u] \in {NoKey, l.nas.key}

\* Under the same keys the UL COUNTs are the same, unless a command was read again late.
Agree(s, c, replayed) == s.keys = c.key /\ s.keys # NoKey /\ ~replayed => s.ul = c.ul

\* The UE's keys are no newer than the MME's; a RES that is right is of the Kasme that
\* the UE has.
KeyInv(u) ==
    /\ sec[u].keys <= core[u].key /\ core[u].key <= core[u].chal
    /\ rand[u] <= core[u].chal /\ core[u].res <= core[u].chal /\ sec[u].kamf <= core[u].chal
    /\ core[u].res = core[u].chal /\ core[u].chal # NoKey =>
         sec[u].kamf = core[u].chal /\ rand[u] \in {NoKey, core[u].chal}
    /\ Agree(sec[u], core[u], track[u].replayed)

Keyed(u) == OrderInv(u) /\ AheadInv(u) /\ KeyInv(u)

KeyedInv == CarrierInv /\ \A u \in UEs : Keyed(u)

\* Nothing was queued for v.
Thinner(v) ==
    /\ For(v)' \subseteq For(v)
    /\ \A l, k \in Label : Precedes(v, l, k)' => Precedes(v, l, k)

\* Taking a frame out keeps the order of the others.
LEMMA ThinnedOut ==
    ASSUME QueueInv, QueueInv', NEW t \in MessageTypes, NEW m \in Nat,
           \A s \in MessageTypes \ {t} : frames'[s] = frames[s],
           \A i \in DOMAIN frames'[t] :
             Shift(i, m) \in DOMAIN frames[t] /\ frames'[t][i] = frames[t][Shift(i, m)]
    PROVE  (\A v \in UEs : Thinner(v)) /\ (CarrierInv => CarrierInv')
<1>1. \A s \in MessageTypes : \A i \in DOMAIN frames'[s] :
        \E j \in DOMAIN frames[s] : frames'[s][i] = frames[s][j]
  OBVIOUS
<1>2. CarrierInv => CarrierInv'
  BY <1>1 DEF CarrierInv
<1>3. Dnt \in MessageTypes
  BY Waits
<1>4. \A v \in UEs : For(v)' \subseteq For(v)
  BY <1>1, <1>3 DEF For
<1>5. \A i, j \in DOMAIN frames'[Dnt] : i < j =>
        \E k, n \in DOMAIN frames[Dnt] :
          k < n /\ frames'[Dnt][i] = frames[Dnt][k] /\ frames'[Dnt][j] = frames[Dnt][n]
  <2>1. CASE t = Dnt
    <3>1. DOMAIN frames'[Dnt] \subseteq Nat
      BY <2>1 DEF QueueInv
    <3>2. \A i, j \in Nat : i < j => Shift(i, m) < Shift(j, m)
      BY DEF Shift
    <3> QED BY <2>1, <3>1, <3>2
  <2>2. CASE t # Dnt
    BY <2>2, <1>3
  <2> QED BY <2>1, <2>2
<1>6. \A v \in UEs : \A l, k \in Label : Precedes(v, l, k)' => Precedes(v, l, k)
  BY <1>5 DEF Precedes
<1> QED BY <1>2, <1>4, <1>6 DEF Thinner

\* Nor does a step that leaves the queues alone.
LEMMA ThinnedNone ==
    ASSUME frames' = frames
    PROVE  (\A v \in UEs : Thinner(v)) /\ (CarrierInv => CarrierInv')
BY DEF Thinner, For, Precedes, CarrierInv

\* A new frame comes last, and for its UE only.
LEMMA Thickened ==
    ASSUME QueueInv, NEW t \in MessageTypes, NEW l \in Label, NEW v \in UEs,
           frames' = File(frames, [type |-> t, label |-> l])
    PROVE  /\ l.to # {v} => Thinner(v)
           /\ For(v)' \subseteq For(v) \cup {l}
           /\ \A x, y \in Label : Precedes(v, x, y)' =>
                Precedes(v, x, y) \/ (x \in For(v) /\ y = l)
<1>1. \A s \in MessageTypes : \A i \in DOMAIN frames'[s] :
        \/ i \in DOMAIN frames[s] /\ frames'[s][i].label = frames[s][i].label
        \/ s = t /\ frames'[s][i].label = l /\ \A j \in DOMAIN frames'[s] : j <= i
  <2>1. [type |-> t, label |-> l].label = l
    OBVIOUS
  <2> QED BY <2>1, FileFrame
<1>2. Dnt \in MessageTypes
  BY Waits
<1>3. For(v)' \subseteq For(v) \cup {l}
  BY <1>1, <1>2 DEF For
<1>4. l.to # {v} => For(v)' \subseteq For(v)
  BY <1>3 DEF For
<1>5. ASSUME NEW x \in Label, NEW y \in Label, Precedes(v, x, y)'
      PROVE  Precedes(v, x, y) \/ (x \in For(v) /\ y = l)
  <2>1. PICK i \in DOMAIN frames'[Dnt], j \in DOMAIN frames'[Dnt] :
          i < j /\ frames'[Dnt][i].label = x /\ frames'[Dnt][j].label = y
    BY <1>5 DEF Precedes
  <2>2. x.to = {v} /\ y.to = {v}
    BY <1>5 DEF Precedes
  <2>3. i \in Nat /\ j \in Nat
    <3>1. QueueInv'
      BY FileFrame
    <3> QED BY <3>1, <1>2 DEF QueueInv
  <2>4. i \in DOMAIN frames[Dnt] /\ frames[Dnt][i].label = x
    BY <2>1, <2>3, <1>1, <1>2
  <2>5. x \in For(v)
    BY <2>2, <2>4 DEF For
  <2>6. CASE j \in DOMAIN frames[Dnt] /\ frames[Dnt][j].label = y
    BY <2>1, <2>2, <2>4, <2>6 DEF Precedes
  <2>7. CASE y = l
    BY <2>5, <2>7
  <2> QED BY <2>1, <2>6, <2>7, <1>1, <1>2
<1>6. l.to # {v} => \A x, y \in Label : Precedes(v, x, y)' => Precedes(v, x, y)
  <2>1. \A x, y \in Label : Precedes(v, x, y)' => y.to = {v}
    BY DEF Precedes
  <2> QED BY <2>1, <1>5
<1> QED BY <1>3, <1>4, <1>5, <1>6 DEF Thinner

LEMMA LabelParts ==
    ASSUME NEW l \in Label
    PROVE  /\ l.enb \in APIds /\ l.mme \in APIds /\ l.nas \in Genuine
           /\ l.nas.key \in Nat /\ l.nas.arg \in Nat /\ l.nas.prot \in Protections
           /\ l.nas.prot = "new" <=> l.nas.kind = "command"
BY DEF Label, Genuine, NAS

LEMMA OrderKept ==
    ASSUME NEW u \in UEs, OrderInv(u), Thinner(u)
    PROVE  OrderInv(u)'
BY DEF OrderInv, Thinner

\* A UE that takes the Kasme of its challenge, or forgets the challenge
LEMMA AheadKept ==
    ASSUME ShapeInv, ShapeInv', NEW u \in UEs, AheadInv(u), Thinner(u),
           core[u].chal <= core'[u].chal, core[u].key <= core'[u].key,
           rand'[u] \in {rand[u], NoKey},
           sec'[u].kamf = sec[u].kamf \/ (sec'[u].kamf = rand[u] /\ rand[u] # NoKey)
    PROVE  AheadInv(u)'
<1>1. /\ core[u].chal \in Nat /\ core'[u].chal \in Nat /\ core[u].key \in Nat
      /\ core'[u].key \in Nat /\ rand[u] \in Nat
  BY DEF ShapeInv, Core
<1> SUFFICES ASSUME NEW l \in For(u)'
             PROVE  /\ l.nas.kind = "challenge" =>
                         /\ l.nas.arg <= core'[u].chal
                         /\ Reaches(u, l) => rand'[u] < l.nas.arg /\ sec'[u].kamf < l.nas.arg
                    /\ l.nas.kind = "command" =>
                         /\ l.nas.key <= core'[u].key
                         /\ Reaches(u, l) => sec'[u].kamf = l.nas.key /\ rand'[u] \in {NoKey, l.nas.key}
  BY DEF AheadInv, Reaches
<1>2. l \in For(u) /\ l \in Label
  BY DEF Thinner, For
<1>3. l.nas.arg \in Nat /\ l.nas.key \in Nat
  BY <1>2, LabelParts
<1>4. CASE l.nas.kind = "challenge"
  <2>1. /\ l.nas.arg <= core[u].chal
        /\ Reaches(u, l) => rand[u] < l.nas.arg /\ sec[u].kamf < l.nas.arg
    BY <1>2, <1>4 DEF AheadInv
  <2> QED BY <1>1, <1>3, <1>4, <2>1 DEF NoKey
<1>5. CASE l.nas.kind = "command"
  <2>1. /\ l.nas.key <= core[u].key
        /\ Reaches(u, l) => sec[u].kamf = l.nas.key /\ rand[u] \in {NoKey, l.nas.key}
    BY <1>2, <1>5 DEF AheadInv
  <2> QED BY <1>1, <1>3, <1>5, <2>1
<1> QED BY <1>4, <1>5

\* A step that is not about v
LEMMA OthersKept ==
    ASSUME ShapeInv, ShapeInv', NEW v \in UEs, Keyed(v), Thinner(v),
           sec'[v] = sec[v], rand'[v] = rand[v], core'[v] = core[v], track'[v] = track[v]
    PROVE  Keyed(v)'
<1>1. core[v].chal \in Nat /\ core[v].key \in Nat
  BY DEF ShapeInv, Core
<1>2. AheadInv(v)' /\ OrderInv(v)'
  BY <1>1, AheadKept, OrderKept DEF Keyed
<1>3. KeyInv(v)'
  BY DEF Keyed, KeyInv, Agree
<1> QED BY <1>2, <1>3 DEF Keyed

\* Both sides count an uplink, or neither does.
LEMMA Agreement ==
    ASSUME NEW s \in Context, NEW c \in Core, NEW p, NEW b, Agree(s, c, b)
    PROVE  LET x == AfterUplinkEPS(s, p)
               y == Counted(c, s.keys, p)
           IN /\ x.kamf = s.kamf /\ x.keys = s.keys
              /\ y \in Core /\ y.key = c.key /\ y.chal = c.chal /\ y.res = c.res /\ Agree(x, y, b)
<1> DEFINE x == AfterUplinkEPS(s, p)
           y == Counted(c, s.keys, p)
<1>1. x.kamf = s.kamf /\ x.keys = s.keys /\ x.ul = IF p = "plain" THEN s.ul ELSE s.ul + 1
  BY UplinkMoves
<1>2. y \in Core /\ y.key = c.key /\ y.chal = c.chal /\ y.res = c.res
  <2>1. c.secured \in BOOLEAN /\ c.ul + 1 \in Nat /\ (c.secured \/ p = "new") \in BOOLEAN
    BY DEF Core
  <2> DEFINE d == [c EXCEPT !.ul = @ + 1, !.secured = @ \/ p = "new"]
  <2>2. d \in Core /\ d.key = c.key /\ d.chal = c.chal /\ d.res = c.res
    BY <2>1 DEF Core
  <2>3. y \in {c, d}
    BY DEF Counted
  <2> QED BY <2>2, <2>3
<1>3. /\ p = "plain" \/ s.keys # c.key \/ s.keys = NoKey => y = c
      /\ p # "plain" /\ s.keys = c.key /\ s.keys # NoKey => y.ul = c.ul + 1
  BY DEF Counted, Core
<1> HIDE DEF x, y
<1>4. Agree(x, y, b)
  BY <1>1, <1>2, <1>3 DEF Agree
<1> QED BY <1>1, <1>2, <1>4 DEF x, y

\* Dropping a bearer, and opening or using a connection, say nothing of keys.
LEMMA HeardKeys ==
    ASSUME NEW c \in Core
    PROVE  /\ \A t, i, a :
                LET h == Heard(c, t, i, a)
                IN h.key = c.key /\ h.chal = c.chal /\ h.res = c.res /\ h.ul = c.ul
           /\ \A g : LET h == Dropped(c, g)
                     IN h.key = c.key /\ h.chal = c.chal /\ h.res = c.res /\ h.ul = c.ul
           /\ \A k : LET h == Answered(c, k)
                     IN h.key = c.key /\ h.chal = c.chal /\ h.res = k /\ h.ul = c.ul
<1>1. ASSUME NEW t, NEW i, NEW a
      PROVE  LET h == Heard(c, t, i, a)
             IN h.key = c.key /\ h.chal = c.chal /\ h.res = c.res /\ h.ul = c.ul
  <2>1. CASE t = "none"
    BY <2>1 DEF Heard
  <2>2. CASE t = "initial"
    BY <2>2 DEF Heard, Core
  <2>3. CASE t \notin {"none", "initial"}
    BY <2>3 DEF Heard, Core
  <2> QED BY <2>1, <2>2, <2>3
<1>2. \A g : LET h == Dropped(c, g)
             IN h.key = c.key /\ h.chal = c.chal /\ h.res = c.res /\ h.ul = c.ul
  BY DEF Dropped, Core
<1>3. \A k : LET h == Answered(c, k)
             IN h.key = c.key /\ h.chal = c.chal /\ h.res = k /\ h.ul = c.ul
  BY DEF Answered, Core
<1> QED BY <1>1, <1>2, <1>3

\* A step in which the UE takes nothing from the queues and the MME learns no more than
\* a RES of it
LEMMA KeyedUplink ==
    ASSUME ShapeInv, ShapeInv', NEW u \in UEs, Keyed(u), Thinner(u),
           sec'[u].kamf = sec[u].kamf, sec'[u].keys = sec[u].keys,
           rand'[u] = rand[u], track'[u] = track[u],
           core'[u].key = core[u].key, core'[u].chal = core[u].chal, core'[u].res = core[u].res,
           Agree(sec'[u], core'[u], track[u].replayed)
    PROVE  Keyed(u)'
<1>1. core[u].chal \in Nat /\ core[u].key \in Nat
  BY DEF ShapeInv, Core
<1>2. OrderInv(u)' /\ AheadInv(u)'
  BY <1>1, OrderKept, AheadKept DEF Keyed
<1>3. KeyInv(u)'
  BY DEF Keyed, KeyInv
<1> QED BY <1>2, <1>3 DEF Keyed

LEMMA KeyedEmit ==
    ASSUME ShapeInv, ShapeInv', NEW u \in UEs, Keyed(u), NEW r \in Formed,
           NEW i \in Nat, NEW a \in Nat, Emit(u, r, i, a)
    PROVE  Keyed(u)'
<1> DEFINE h == Heard(core[u], r.carrier, i, a)
<1>1. /\ sec[u] \in Context /\ core[u] \in Core /\ lastMME \in Nat
      /\ r.carrier \in {"initial", "uplink", "s1ap", "none"}
  BY DEF Formed, Form, ShapeInv
<1>2. /\ sec'[u] = AfterUplinkEPS(sec[u], r.prot) /\ core'[u] = Counted(h, sec[u].keys, r.prot)
      /\ UNCHANGED <<rand, track, frames>>
  BY DEF Emit, ShapeInv
<1>3. h \in Core
  BY <1>1, CoreStays DEF Protections
<1>4. h.key = core[u].key /\ h.chal = core[u].chal /\ h.res = core[u].res /\ h.ul = core[u].ul
  BY <1>1, HeardKeys
<1> HIDE DEF h
<1>5. Agree(sec[u], h, track[u].replayed)
  BY <1>4 DEF Keyed, KeyInv, Agree
<1>6. /\ sec'[u].kamf = sec[u].kamf /\ sec'[u].keys = sec[u].keys
      /\ core'[u].key = core[u].key /\ core'[u].chal = core[u].chal /\ core'[u].res = core[u].res
      /\ Agree(sec'[u], core'[u], track[u].replayed)
  BY <1>1, <1>2, <1>3, <1>4, <1>5, Agreement
<1>7. Thinner(u)
  BY <1>2, ThinnedNone
<1> QED BY <1>2, <1>6, <1>7, KeyedUplink

LEMMA KeyedDeactivate ==
    ASSUME ShapeInv, ShapeInv', NEW u \in UEs, Keyed(u), SendDeactivateAccept(u)
    PROVE  Keyed(u)'
<1> DEFINE y == Counted(core[u], sec[u].keys, "ciphered")
<1>1. sec[u] \in Context /\ core[u] \in Core /\ Agree(sec[u], core[u], track[u].replayed)
  BY DEF ShapeInv, Keyed, KeyInv
<1>2. PICK g : core'[u] = Dropped(y, g)
  BY DEF SendDeactivateAccept, ShapeInv
<1>3. sec'[u] = AfterUplinkEPS(sec[u], "ciphered") /\ UNCHANGED <<rand, track, frames>>
  BY DEF SendDeactivateAccept, ShapeInv
<1>4. /\ sec'[u].kamf = sec[u].kamf /\ sec'[u].keys = sec[u].keys
      /\ y \in Core /\ y.key = core[u].key /\ y.chal = core[u].chal /\ y.res = core[u].res
      /\ Agree(sec'[u], y, track[u].replayed)
  BY <1>1, <1>3, Agreement
<1> HIDE DEF y
<1>5. /\ core'[u].key = core[u].key /\ core'[u].chal = core[u].chal /\ core'[u].res = core[u].res
      /\ Agree(sec'[u], core'[u], track[u].replayed)
  BY <1>2, <1>4, HeardKeys DEF Agree
<1>6. Thinner(u)
  BY <1>3, ThinnedNone
<1> QED BY <1>3, <1>4, <1>5, <1>6, KeyedUplink

\* The UE takes the Kasme of the challenge that it has.
LEMMA KeyedAuthentication ==
    ASSUME ShapeInv, ShapeInv', NEW u \in UEs, Keyed(u), SendAuthenticationResponse(u)
    PROVE  Keyed(u)'
<1>1. PICK k \in AuthenticationChoices(u), a \in EffectiveMMEIDs(u, AuthenticationResponse) :
        /\ sec' = [sec EXCEPT ![u].kamf = k[1]]
        /\ core'[u] = Answered(Heard(core[u], "uplink", ENBUES1APID[u], a), k[2])
  <2>1. PICK k \in AuthenticationChoices(u), a \in EffectiveMMEIDs(u, AuthenticationResponse) :
          /\ sec' = [sec EXCEPT ![u].kamf = k[1]]
          /\ core' = [core EXCEPT ![u] = Answered(Heard(@, "uplink", ENBUES1APID[u], a), k[2])]
    BY DEF SendAuthenticationResponse
  <2>2. core'[u] = Answered(Heard(core[u], "uplink", ENBUES1APID[u], a), k[2])
    BY <2>1 DEF ShapeInv
  <2> QED BY <2>1, <2>2
<1> DEFINE h == Heard(core[u], "uplink", ENBUES1APID[u], a)
<1>2. UNCHANGED <<rand, track, frames>>
  BY DEF SendAuthenticationResponse
<1>3. /\ sec[u] \in Context /\ core[u] \in Core /\ lastMME \in Nat /\ rand[u] \in Nat
      /\ a \in Nat /\ ENBUES1APID[u] \in Nat
  BY SentUnder DEF ShapeInv
<1>4. h \in Core
  BY <1>3, CoreStays DEF Protections
<1>5. h.key = core[u].key /\ h.chal = core[u].chal /\ h.ul = core[u].ul
  BY <1>3, HeardKeys
<1> HIDE DEF h
<1>6. /\ core'[u].key = core[u].key /\ core'[u].chal = core[u].chal /\ core'[u].res = k[2]
      /\ core'[u].ul = core[u].ul
  BY <1>1, <1>4, <1>5, HeardKeys DEF h
<1>7. sec'[u].kamf = k[1] /\ sec'[u].keys = sec[u].keys /\ sec'[u].ul = sec[u].ul
  BY <1>1, <1>3 DEF Context, ShapeInv
<1>8. \/ k[1] = sec[u].kamf /\ k[2] = NoKey
      \/ k[1] = rand[u] /\ rand[u] # NoKey /\ k[2] \in {rand[u], NoKey}
  <2>1. CASE k = <<sec[u].kamf, NoKey>>
    BY <2>1
  <2>2. CASE rand[u] # NoKey /\ k \in {<<rand[u], rand[u]>>, <<rand[u], NoKey>>}
    BY <2>2
  <2> QED BY <2>1, <2>2 DEF AuthenticationChoices
<1>9. Thinner(u)
  BY <1>2, ThinnedNone
<1>10. OrderInv(u)' /\ AheadInv(u)'
  <2>1. core[u].chal \in Nat /\ core[u].key \in Nat
    BY <1>3 DEF Core
  <2> QED BY <2>1, <1>2, <1>6, <1>7, <1>8, <1>9, OrderKept, AheadKept DEF Keyed
<1>11. KeyInv(u)'
  <2>1. /\ core[u].chal \in Nat /\ core[u].key <= core[u].chal /\ rand[u] <= core[u].chal
        /\ sec[u].keys <= core[u].key /\ sec[u].kamf <= core[u].chal
        /\ Agree(sec[u], core[u], track[u].replayed)
    BY <1>3 DEF Core, Keyed, KeyInv
  <2>2. Agree(sec'[u], core'[u], track[u].replayed)
    BY <2>1, <1>6, <1>7 DEF Agree
  <2>3. /\ k[1] <= core[u].chal /\ k[2] <= core[u].chal
        /\ k[2] = core[u].chal /\ core[u].chal # NoKey =>
             k[1] = core[u].chal /\ rand[u] \in {NoKey, core[u].chal}
    BY <2>1, <1>3, <1>8 DEF NoKey
  <2> QED BY <2>1, <2>2, <2>3, <1>2, <1>6, <1>7 DEF KeyInv
<1> QED BY <1>10, <1>11 DEF Keyed

\* A wait by ids that takes a challenge or a command takes it under the UE's own eNB
\* id: an MME id that the UE has learnt was on that connection only.
LEMMA MatchedReaches ==
    ASSUME ShapeInv, OwnInv, NEW u \in UEs, NEW w \in call[u], w.req.match # "any",
           NEW t \in MessageTypes, NEW m \in DOMAIN frames[t], Matches(u, w, frames[t][m].label),
           frames[t][m].label.enb \notin {NoId, 0}
    PROVE  frames[t][m].label.to = {u} /\ Reaches(u, frames[t][m].label)
<1> DEFINE l == frames[t][m].label
<1>1. l.to = {u}
  <2>1. l.to \in {{}, {u}}
    BY MatchedOwn
  <2>2. l.to # {}
    BY DEF OwnInv, ToInv
  <2> QED BY <2>1, <2>2
<1>2. ASSUME l.mme = w.mme, w.mme # Unassigned PROVE Reaches(u, l)
  <2>1. Knows(u, l.enb, w.mme) /\ Knows(u, ENBUES1APID[u], w.mme)
    BY <1>1, <1>2 DEF Knows
  <2>2. w.mme \in Nat \ {0}
    BY <1>2 DEF ShapeInv, Unassigned
  <2>3. ENBUES1APID[u] \notin {NoId, 0}
    BY Identities DEF NoId
  <2>4. l.enb = ENBUES1APID[u]
    BY <2>1, <2>2, <2>3 DEF OwnInv, MMEIdInv
  <2> QED BY <2>4 DEF Reaches
<1> QED BY <1>1, <1>2 DEF Matches, Reaches

\* A wait finds a message: a challenge that it brings is older than any that is left
\* for the UE, and a command is for the Kasme that the UE has.
LEMMA KeyedFetch ==
    ASSUME ShapeInv, ShapeInv', OwnInv, CarrierInv, NEW u \in UEs, Keyed(u), Fetch(u)
    PROVE  Keyed(u)' /\ CarrierInv' /\ \A v \in UEs : Thinner(v)
<1>1. PICK w \in call[u], t \in MessageTypes : \E m \in 1..Len(frames[t]) :
        /\ frames' = [frames EXCEPT ![t] = RemoveAt(@, m)]
        /\ frames[t][m] \in FrameOf(t) /\ Matches(u, w, frames[t][m].label)
        /\ \A k \in 1..(m - 1) : ~Matches(u, w, frames[t][k].label)
        /\ Handle(u, w, frames[t][m])
  BY FetchOutcome
<1>2. PICK m \in 1..Len(frames[t]) :
        /\ frames' = [frames EXCEPT ![t] = RemoveAt(@, m)]
        /\ frames[t][m] \in FrameOf(t) /\ Matches(u, w, frames[t][m].label)
        /\ \A k \in 1..(m - 1) : ~Matches(u, w, frames[t][k].label)
        /\ Handle(u, w, frames[t][m])
  BY <1>1
<1> DEFINE f == frames[t][m]
           l == f.label
           nas == l.nas
           kept == nas.kind = "challenge" /\ nas.prot = "plain" /\ w.req.keeps # "never"
<1>3. /\ m \in DOMAIN frames[t] /\ m \in Nat /\ f.type = t /\ l \in Label /\ nas \in Genuine /\ nas \in NAS
      /\ sec[u] \in Context /\ core[u] \in Core /\ rand[u] \in Nat /\ w.req \in Formed
      /\ track[u] \in [ok : BOOLEAN, at : Nat, replayed : BOOLEAN]
  BY <1>2 DEF ShapeInv, QueueInv, FrameOf, Label, Genuine
<1>4. (\A v \in UEs : Thinner(v)) /\ CarrierInv'
  BY <1>2, <1>3, RemoveFrame, ThinnedOut DEF ShapeInv
<1>5. PICK after \in Context, prot \in {"plain", "ciphered"}, gone \in SUBSET Deactivations, x \in Answer :
        Outcome(u, w, f, after, prot, gone, x)
  <2>1. f \in FrameOf(t) /\ Handle(u, w, f)
    BY <1>2
  <2> HIDE DEF f
  <2> QED BY <2>1, HandleParts
<1>6. /\ after = (IF Unwraps(w, f) THEN AfterDownlinkEPS(sec[u], nas) ELSE sec[u])
      /\ sec'[u] = AfterUplinkEPS(after, prot)
      /\ core'[u] = Dropped(Counted(core[u], after.keys, prot), gone)
  BY <1>5 DEF Outcome, ShapeInv
<1>7. /\ track'[u] = (IF Unwraps(w, f) THEN Tracked(u, nas) ELSE track[u])
      /\ rand'[u] = KeptRAND(u, w, nas)
  <2>1. /\ track' = IF Unwraps(w, f) THEN [track EXCEPT ![u] = Tracked(u, nas)] ELSE track
        /\ rand' = [rand EXCEPT ![u] = KeptRAND(u, w, nas)]
    BY <1>2 DEF Handle
  <2> HIDE DEF f, l, nas
  <2> QED BY <2>1 DEF ShapeInv
<1>8. IF kept THEN rand'[u] = nas.arg ELSE rand'[u] \in {rand[u], NoKey}
  BY <1>7 DEF KeptRAND
<1>9. Unwraps(w, f) \/ kept => w.req.match # "any"
  BY <1>3 DEF Unwraps, Formed, Silent
<1>10. nas.kind \in {"challenge", "command"} => t = Dnt /\ l.enb \notin {NoId, 0}
  BY <1>3 DEF CarrierInv
<1>11. ASSUME w.req.match # "any", nas.kind \in {"challenge", "command"}
       PROVE  t = Dnt /\ l \in For(u) /\ Reaches(u, l)
  <2>1. t = Dnt /\ l.to = {u} /\ Reaches(u, l)
    BY <1>2, <1>3, <1>10, <1>11, MatchedReaches
  <2> QED BY <2>1, <1>3 DEF For
<1>12. nas.prot = "new" <=> nas.kind = "command"
  BY <1>3 DEF Genuine
<1>13. /\ core[u].chal \in Nat /\ core[u].key \in Nat /\ core[u].res \in Nat /\ core[u].ul \in Nat
       /\ sec[u].kamf \in Nat /\ sec[u].keys \in Nat /\ nas.arg \in Nat /\ nas.key \in Nat
  BY <1>3 DEF Core, Context, NAS
<1>14. /\ sec[u].keys <= core[u].key /\ core[u].key <= core[u].chal
       /\ rand[u] <= core[u].chal /\ core[u].res <= core[u].chal /\ sec[u].kamf <= core[u].chal
       /\ core[u].res = core[u].chal /\ core[u].chal # NoKey =>
            sec[u].kamf = core[u].chal /\ rand[u] \in {NoKey, core[u].chal}
       /\ Agree(sec[u], core[u], track[u].replayed)
  BY DEF Keyed, KeyInv
<1> HIDE DEF f, nas, kept
<1>15. /\ after.kamf = sec[u].kamf /\ after.keys <= core[u].key
       /\ Agree(after, core[u], track'[u].replayed)
  <2>1. CASE Unwraps(w, f) /\ nas.kind = "command"
    <3>1. sec[u].kamf = nas.key /\ nas.key <= core[u].key
      BY <2>1, <1>9, <1>11 DEF Keyed, AheadInv, nas
    <3>2. after.kamf = sec[u].kamf /\ after.keys = sec[u].kamf /\ after.ul = 0
      BY <2>1, <1>3, <1>6, <1>12, CommandEstablishes
    <3>3. ~track'[u].replayed /\ nas.key = core[u].key => core[u].ul = 0
      <4> DEFINE late == nas.key = core[u].key /\ core[u].ul > 0
      <4>1. track'[u] = [ok |-> ~late, at |-> 0, replayed |-> late]
        BY <2>1, <1>7, <1>12 DEF Tracked
      <4> HIDE DEF late
      <4>2. track'[u].replayed = late
        BY <4>1
      <4>3. ~late /\ nas.key = core[u].key => core[u].ul = 0
        BY <1>13 DEF late
      <4> QED BY <4>2, <4>3
    <3> QED BY <3>1, <3>2, <3>3 DEF Agree
  <2>2. CASE Unwraps(w, f) /\ nas.kind # "command"
    <3>1. after.kamf = sec[u].kamf /\ after.keys = sec[u].keys /\ after.ul = sec[u].ul
      BY <2>2, <1>3, <1>6, <1>12, CommandEstablishes
    <3>2. track'[u].replayed = track[u].replayed
      BY <2>2, <1>3, <1>7, <1>12 DEF Tracked
    <3> QED BY <3>1, <3>2, <1>14 DEF Agree
  <2>3. CASE ~Unwraps(w, f)
    BY <2>3, <1>6, <1>7, <1>14
  <2> QED BY <2>1, <2>2, <2>3
<1>16. /\ sec'[u].kamf = sec[u].kamf /\ sec'[u].keys <= core[u].key
       /\ core'[u].key = core[u].key /\ core'[u].chal = core[u].chal /\ core'[u].res = core[u].res
       /\ Agree(sec'[u], core'[u], track'[u].replayed)
  <2> DEFINE y == Counted(core[u], after.keys, prot)
  <2>1. /\ sec'[u].kamf = after.kamf /\ sec'[u].keys = after.keys
        /\ y \in Core /\ y.key = core[u].key /\ y.chal = core[u].chal /\ y.res = core[u].res
        /\ Agree(sec'[u], y, track'[u].replayed)
    BY <1>3, <1>6, <1>15, Agreement
  <2> HIDE DEF y
  <2>2. core'[u] = Dropped(y, gone)
    BY <1>6 DEF y
  <2>3. /\ core'[u].key = y.key /\ core'[u].chal = y.chal /\ core'[u].res = y.res /\ core'[u].ul = y.ul
    BY <2>1, <2>2, HeardKeys
  <2>4. Agree(sec'[u], core'[u], track'[u].replayed)
    BY <2>1, <2>3 DEF Agree
  <2> QED BY <2>1, <2>3, <2>4, <1>15
<1>17. OrderInv(u)'
  BY <1>4, OrderKept DEF Keyed
<1>18. CASE ~kept
  <2>1. rand'[u] \in {rand[u], NoKey}
    BY <1>8, <1>18
  <2>2. AheadInv(u)'
    BY <2>1, <1>4, <1>13, <1>16, AheadKept DEF Keyed
  <2>3. KeyInv(u)'
    BY <2>1, <1>13, <1>14, <1>16 DEF KeyInv, NoKey
  <2> QED BY <2>2, <2>3, <1>4, <1>17 DEF Keyed
<1>19. CASE kept
  <2>1. /\ nas.kind = "challenge" /\ w.req.match # "any" /\ t = Dnt
        /\ l \in For(u) /\ Reaches(u, l) /\ l.nas = nas
    BY <1>9, <1>11, <1>19 DEF kept, nas
  <2>2. /\ rand'[u] = nas.arg /\ nas.arg <= core[u].chal
        /\ rand[u] < nas.arg /\ sec[u].kamf < nas.arg
    BY <2>1, <1>8, <1>19 DEF Keyed, AheadInv
  <2>3. KeyInv(u)'
    <3>1. ~(core[u].res = core[u].chal /\ core[u].chal # NoKey)
      BY <2>2, <1>13, <1>14
    <3> QED BY <2>2, <3>1, <1>13, <1>14, <1>16 DEF KeyInv
  <2>4. ASSUME NEW z \in For(u)', Reaches(u, z)
        PROVE  Precedes(u, l, z) /\ z \in For(u)
    <3>1. z \in For(u)
      BY <1>4 DEF Thinner
    <3>2. PICK i \in DOMAIN frames'[Dnt] : frames'[Dnt][i].label = z
      BY DEF For
    <3>3. Shift(i, m) \in DOMAIN frames[Dnt] /\ frames[Dnt][Shift(i, m)].label = z
      <4>1. \A n \in DOMAIN frames'[t] :
              Shift(n, m) \in DOMAIN frames[t] /\ frames'[t][n] = frames[t][Shift(n, m)]
        BY <1>2, RemoveFrame DEF ShapeInv
      <4> QED BY <2>1, <3>2, <4>1
    <3>4. i \in Nat /\ Shift(i, m) \in Nat \ {0}
      <4>1. DOMAIN frames'[Dnt] \subseteq Nat \ {0}
        BY <2>1 DEF ShapeInv, QueueInv
      <4> QED BY <4>1, <3>2, <1>3 DEF Shift
    <3>5. Matches(u, w, z)
      BY <2>4 DEF Matches, Reaches
    <3>6. Shift(i, m) \notin 1..(m - 1)
      BY <2>1, <3>3, <3>5, <1>2
    <3>7. m < Shift(i, m)
      BY <3>4, <3>6, <1>3 DEF Shift
    <3>8. m \in DOMAIN frames[Dnt] /\ frames[Dnt][m].label = l
      BY <2>1, <1>3 DEF f
    <3>9. l.to = {u} /\ z.to = {u}
      BY <2>1, <3>1 DEF For
    <3> QED BY <3>1, <3>3, <3>7, <3>8, <3>9 DEF Precedes
  <2>5. AheadInv(u)'
    <3> SUFFICES ASSUME NEW z \in For(u)'
                 PROVE  /\ z.nas.kind = "challenge" =>
                             /\ z.nas.arg <= core'[u].chal
                             /\ Reaches(u, z) => rand'[u] < z.nas.arg /\ sec'[u].kamf < z.nas.arg
                        /\ z.nas.kind = "command" =>
                             /\ z.nas.key <= core'[u].key
                             /\ Reaches(u, z) => sec'[u].kamf = z.nas.key /\ rand'[u] \in {NoKey, z.nas.key}
      BY DEF AheadInv, Reaches
    <3>1. z \in For(u) /\ z \in Label /\ z.nas.key \in Nat /\ z.nas.arg \in Nat
      BY <1>4, LabelParts DEF Thinner, For
    <3>2. CASE z.nas.kind = "challenge"
      <4>1. z.nas.arg <= core[u].chal
        BY <3>1, <3>2 DEF Keyed, AheadInv
      <4>2. Reaches(u, z) => nas.arg < z.nas.arg
        BY <2>1, <2>4, <3>1, <3>2, <1>3 DEF Keyed, OrderInv
      <4> QED BY <4>1, <4>2, <2>2, <3>1, <3>2, <1>13, <1>16
    <3>3. CASE z.nas.kind = "command"
      <4>1. z.nas.key <= core[u].key
        BY <3>1, <3>3 DEF Keyed, AheadInv
      <4>2. ASSUME Reaches(u, z) PROVE FALSE
        <5>1. Precedes(u, l, z)
          BY <4>2, <2>4
        <5>2. nas.arg <= z.nas.key
          BY <5>1, <2>1, <3>1, <3>3, <1>3 DEF Keyed, OrderInv
        <5>3. sec[u].kamf = z.nas.key
          BY <4>2, <3>1, <3>3 DEF Keyed, AheadInv
        <5> QED BY <5>2, <5>3, <2>2, <1>13, <3>1
      <4> QED BY <4>1, <4>2, <3>3, <1>16
    <3> QED BY <3>2, <3>3
  <2> QED BY <2>3, <2>5, <1>4, <1>17 DEF Keyed
<1> QED BY <1>18, <1>19

\* The MME sends a UE the next challenge, or the command for the last one.
LEMMA KeyedMME ==
    ASSUME ShapeInv, ShapeInv', NEW u \in UEs, Keyed(u), CarrierInv, MMEStep(u)
    PROVE  Keyed(u)' /\ CarrierInv' /\ \A v \in UEs \ {u} : Thinner(v)
<1>1. PICK t \in MessageTypes, i \in APIds, a \in APIds, nas \in Genuine : Moves(u, t, i, a, nas)
  BY MMECases
<1>2. /\ MMESends(u, t, i, a, nas) /\ (t = Page => i = NoId /\ a = NoId)
      /\ nas.kind \in {"challenge", "command"} => t = Dnt /\ i = core[u].enb /\ a = core[u].mme
      /\ Keeps(core[u], core'[u]) /\ Advances(core[u], core'[u], nas)
  BY <1>1, MMECore DEF Moves
<1>3. UNCHANGED <<sec, rand, track>> /\ core[u].enb # 0
  BY <1>2 DEF MMESends
<1>4. PICK n \in {nas, NoNAS} :
        LET l == [to |-> IF i = NoId /\ a = NoId THEN {} ELSE {u}, enb |-> i, mme |-> a, nas |-> n]
        IN l \in Label /\ frames' = File(frames, [type |-> t, label |-> l])
  BY <1>2, MMEFiles
<1> DEFINE l == [to |-> IF i = NoId /\ a = NoId THEN {} ELSE {u}, enb |-> i, mme |-> a, nas |-> n]
<1>5. /\ l \in Label /\ l.to = (IF i = NoId /\ a = NoId THEN {} ELSE {u}) /\ l.enb = i
      /\ l.nas = n /\ frames' = File(frames, [type |-> t, label |-> l])
  BY <1>4
<1> HIDE DEF l
<1>6. /\ core[u].enb \in Nat /\ core[u].chal \in Nat /\ core[u].key \in Nat
      /\ core[u].res \in Nat /\ core[u].ul \in Nat
      /\ rand[u] \in Nat /\ sec[u].kamf \in Nat /\ sec[u].keys \in Nat /\ NoId \notin Nat
  BY DEF ShapeInv, Core, Context, NoId
<1>7. n.kind \in {"challenge", "command"} => n = nas
  BY DEF NoNAS
<1>8. /\ For(u)' \subseteq For(u) \cup {l}
      /\ \A x, y \in Label : Precedes(u, x, y)' => Precedes(u, x, y) \/ (x \in For(u) /\ y = l)
      /\ \A v \in UEs \ {u} : Thinner(v)
  <2>1. QueueInv
    BY DEF ShapeInv
  <2>2. \A v \in UEs \ {u} : l.to # {v}
    BY <1>5
  <2> QED BY <2>1, <2>2, <1>5, Thickened
<1>9. CarrierInv'
  <2>1. n.kind \in {"challenge", "command"} => t = Dnt /\ l.enb \notin {NoId, 0}
    BY <1>2, <1>3, <1>5, <1>6, <1>7
  <2>2. \A s \in MessageTypes : \A k \in DOMAIN frames'[s] :
          \/ k \in DOMAIN frames[s] /\ frames'[s][k] = frames[s][k]
          \/ s = t /\ frames'[s][k].label = l
    <3>1. [type |-> t, label |-> l].label = l
      OBVIOUS
    <3> QED BY <3>1, <1>5, FileFrame DEF ShapeInv
  <2> QED BY <2>1, <2>2, <1>5 DEF CarrierInv
<1>10. /\ sec[u].keys <= core[u].key /\ core[u].key <= core[u].chal
       /\ rand[u] <= core[u].chal /\ core[u].res <= core[u].chal /\ sec[u].kamf <= core[u].chal
       /\ core[u].res = core[u].chal /\ core[u].chal # NoKey =>
            sec[u].kamf = core[u].chal /\ rand[u] \in {NoKey, core[u].chal}
       /\ Agree(sec[u], core[u], track[u].replayed)
  BY DEF Keyed, KeyInv
<1>11. core'[u].res = core[u].res
  BY <1>2 DEF Keeps
<1>12. /\ nas.kind = "challenge" =>
            /\ nas.arg = core[u].chal + 1 /\ core'[u].chal = core[u].chal + 1
            /\ core'[u].key = core[u].key /\ core'[u].ul = core[u].ul
       /\ nas.kind = "command" =>
            /\ nas.key = core[u].chal /\ core[u].res = core[u].chal /\ core[u].chal # NoKey
            /\ core'[u].chal = core[u].chal /\ core'[u].key = core[u].chal
            /\ core[u].key = core[u].chal => core'[u].ul = core[u].ul
       /\ nas.kind \notin {"challenge", "command"} =>
            core'[u].chal = core[u].chal /\ core'[u].key = core[u].key /\ core'[u].ul = core[u].ul
  BY <1>2 DEF Advances
<1>13. /\ core[u].key <= core'[u].key /\ core[u].chal <= core'[u].chal
       /\ core'[u].key \in Nat /\ core'[u].chal \in Nat
  BY <1>6, <1>10, <1>12
<1>14. KeyInv(u)'
  <2>1. /\ sec[u].keys <= core'[u].key /\ core'[u].key <= core'[u].chal
        /\ rand[u] <= core'[u].chal /\ core[u].res <= core'[u].chal /\ sec[u].kamf <= core'[u].chal
        /\ core[u].res = core'[u].chal /\ core'[u].chal # NoKey =>
             sec[u].kamf = core'[u].chal /\ rand[u] \in {NoKey, core'[u].chal}
    BY <1>6, <1>10, <1>12
  <2>2. Agree(sec[u], core'[u], track[u].replayed)
    BY <1>6, <1>10, <1>12 DEF Agree
  <2> QED BY <2>1, <2>2, <1>3, <1>11 DEF KeyInv
<1>15. AheadInv(u)'
  <2> SUFFICES ASSUME NEW x \in For(u)'
               PROVE  /\ x.nas.kind = "challenge" =>
                           /\ x.nas.arg <= core'[u].chal
                           /\ Reaches(u, x) => rand[u] < x.nas.arg /\ sec[u].kamf < x.nas.arg
                      /\ x.nas.kind = "command" =>
                           /\ x.nas.key <= core'[u].key
                           /\ Reaches(u, x) => sec[u].kamf = x.nas.key /\ rand[u] \in {NoKey, x.nas.key}
    BY <1>3 DEF AheadInv, Reaches
  <2>1. CASE x \in For(u)
    <3>1. x.nas.arg \in Nat /\ x.nas.key \in Nat
      BY <2>1, LabelParts DEF For
    <3>2. x.nas.kind = "challenge" =>
            /\ x.nas.arg <= core[u].chal
            /\ Reaches(u, x) => rand[u] < x.nas.arg /\ sec[u].kamf < x.nas.arg
      BY <2>1 DEF Keyed, AheadInv
    <3>3. x.nas.kind = "command" =>
            /\ x.nas.key <= core[u].key
            /\ Reaches(u, x) => sec[u].kamf = x.nas.key /\ rand[u] \in {NoKey, x.nas.key}
      BY <2>1 DEF Keyed, AheadInv
    <3> QED BY <3>1, <3>2, <3>3, <1>6, <1>13
  <2>2. CASE x = l
    <3>1. x.nas = n
      BY <2>2, <1>5
    <3>2. CASE n.kind = "challenge"
      <4>1. n.arg = core[u].chal + 1 /\ core'[u].chal = core[u].chal + 1
        BY <3>2, <1>7, <1>12
      <4> QED BY <3>1, <3>2, <4>1, <1>6, <1>10
    <3>3. CASE n.kind = "command"
      <4>1. /\ n.key = core[u].chal /\ core'[u].key = core[u].chal
            /\ core[u].res = core[u].chal /\ core[u].chal # NoKey
        BY <3>3, <1>7, <1>12
      <4> QED BY <3>1, <3>3, <4>1, <1>6, <1>10
    <3> QED BY <3>1, <3>2, <3>3
  <2> QED BY <2>1, <2>2, <1>8
<1>16. OrderInv(u)'
  <2> SUFFICES ASSUME NEW x \in Label, NEW y \in Label, Precedes(u, x, y)', x.nas.kind = "challenge"
               PROVE  /\ y.nas.kind = "challenge" => x.nas.arg < y.nas.arg
                      /\ y.nas.kind = "command" => x.nas.arg <= y.nas.key
    BY DEF OrderInv
  <2>1. CASE Precedes(u, x, y)
    BY <2>1 DEF Keyed, OrderInv
  <2>2. CASE x \in For(u) /\ y = l
    <3>1. x.nas.arg <= core[u].chal /\ x.nas.arg \in Nat
      BY <2>2, LabelParts DEF Keyed, AheadInv
    <3>2. y.nas = n
      BY <2>2, <1>5
    <3>3. /\ n.kind = "challenge" => n.arg = core[u].chal + 1
          /\ n.kind = "command" => n.key = core[u].chal
      BY <1>7, <1>12
    <3> QED BY <3>1, <3>2, <3>3, <1>6
  <2> QED BY <2>1, <2>2, <1>8
<1> QED BY <1>8, <1>9, <1>14, <1>15, <1>16 DEF Keyed

\* A step that changes nothing of v but its queue, which got no longer
LEMMA KeyedLess ==
    ASSUME ShapeInv, ShapeInv', KeyedInv, CarrierInv', \A v \in UEs : Thinner(v),
           UNCHANGED <<sec, rand, core, track>>
    PROVE  KeyedInv'
BY OthersKept DEF KeyedInv

\* The rest of the invariant, after a step of u that is shown to keep u's part
LEMMA KeyedRest ==
    ASSUME ShapeInv, ShapeInv', KeyedInv, NEW u \in UEs, UEStep(u) \/ MMEStep(u),
           Keyed(u)', CarrierInv', \A v \in UEs \ {u} : Thinner(v)
    PROVE  KeyedInv'
<1>1. ASSUME NEW v \in UEs \ {u} PROVE Keyed(v)'
  <2>1. sec'[v] = sec[v] /\ rand'[v] = rand[v] /\ core'[v] = core[v] /\ track'[v] = track[v]
    BY Untouched
  <2>2. Keyed(v) /\ Thinner(v)
    BY DEF KeyedInv
  <2> QED BY <2>1, <2>2, OthersKept
<1> QED BY <1>1 DEF KeyedInv

LEMMA KeyedStep == ShapeInv /\ OwnInv /\ KeyedInv /\ [Next]_vars => KeyedInv'
<1> SUFFICES ASSUME ShapeInv, OwnInv, KeyedInv, [Next]_vars PROVE KeyedInv'
  OBVIOUS
<1>1. ShapeInv'
  BY ShapeStep
<1>2. CarrierInv /\ \A u \in UEs : Keyed(u)
  BY DEF KeyedInv
<1>3. ASSUME NEW u \in UEs, UEStep(u), frames' = frames, Keyed(u)' PROVE KeyedInv'
  BY <1>1, <1>2, <1>3, ThinnedNone, KeyedRest
<1>4. ASSUME NEW u \in UEs, NEW r \in Used \ {AuthenticationResponse}, Send(u, r) PROVE KeyedInv'
  <2>1. PICK a \in EffectiveMMEIDs(u, r) : Emit(u, r, ENBUES1APID[u], a)
    BY <1>4 DEF Send
  <2>2. r \in Formed /\ ENBUES1APID[u] \in Nat /\ a \in Nat
    BY RequestsFormed, ENBUEAssumption, SentUnder
  <2>3. Keyed(u)'
    BY <1>1, <1>2, <2>1, <2>2, KeyedEmit
  <2>4. frames' = frames /\ UEStep(u)
    BY <1>4, <2>1 DEF Emit, UEStep
  <2> QED BY <1>3, <2>3, <2>4
<1>5. ASSUME NEW u \in UEs, SendAuthenticationResponse(u) PROVE KeyedInv'
  <2>1. frames' = frames /\ UEStep(u)
    BY <1>5 DEF SendAuthenticationResponse, UEStep
  <2> QED BY <1>1, <1>2, <1>3, <1>5, <2>1, KeyedAuthentication
<1>6. ASSUME NEW u \in UEs, SendDeactivateAccept(u) PROVE KeyedInv'
  <2>1. frames' = frames /\ UEStep(u)
    BY <1>6 DEF SendDeactivateAccept, UEStep
  <2> QED BY <1>1, <1>2, <1>3, <1>6, <2>1, KeyedDeactivate
<1>7. ASSUME NEW u \in UEs, Reestablish(u) PROVE KeyedInv'
  <2> DEFINE r == Secured(Request("initial", "ciphered", <<Release, Err>>))
  <2>1. Emit(u, r, AllocateENBUES1APID, mme[u])
    BY <1>7 DEF Reestablish
  <2>2. r \in Formed /\ AllocateENBUES1APID \in Nat /\ mme[u] \in Nat
    BY RequestsFormed, SentUnder
  <2> HIDE DEF r
  <2>3. Keyed(u)'
    BY <1>1, <1>2, <2>1, <2>2, KeyedEmit
  <2>4. frames' = frames /\ UEStep(u)
    BY <1>7, <2>1 DEF Emit, UEStep
  <2> QED BY <1>3, <2>3, <2>4
<1>8. ASSUME NEW u \in UEs, Fetch(u) PROVE KeyedInv'
  <2>1. UEStep(u)
    BY <1>8 DEF UEStep
  <2>2. Keyed(u)' /\ CarrierInv' /\ \A v \in UEs : Thinner(v)
    BY <1>1, <1>2, <1>8, KeyedFetch
  <2> QED BY <1>1, <2>1, <2>2, KeyedRest
<1>9. ASSUME NEW u \in UEs, TimeOut(u) PROVE KeyedInv'
  <2>1. UNCHANGED <<sec, rand, core, track, frames>>
    BY <1>9 DEF TimeOut
  <2> QED BY <1>1, <1>2, <2>1, ThinnedNone, KeyedLess
<1>10. ASSUME NEW u \in UEs, MMEStep(u) PROVE KeyedInv'
  <2>1. Keyed(u)' /\ CarrierInv' /\ \A v \in UEs \ {u} : Thinner(v)
    BY <1>1, <1>2, <1>10, KeyedMME
  <2> QED BY <1>1, <1>10, <2>1, KeyedRest
<1>11. ASSUME NEW t \in MessageTypes, AwaitENBMessage(t) PROVE KeyedInv'
  <2>1. UNCHANGED <<sec, rand, core, track>>
    BY <1>11 DEF AwaitENBMessage
  <2>2. QueueInv /\ QueueInv'
    BY <1>1 DEF ShapeInv
  <2>3. /\ \A s \in MessageTypes \ {t} : frames'[s] = frames[s]
        /\ \A i \in DOMAIN frames'[t] :
             Shift(i, 1) \in DOMAIN frames[t] /\ frames'[t][i] = frames[t][Shift(i, 1)]
    BY <1>11, <2>2, TailFrame DEF AwaitENBMessage
  <2>4. (\A v \in UEs : Thinner(v)) /\ CarrierInv'
    BY <1>2, <2>2, <2>3, ThinnedOut
  <2> QED BY <1>1, <2>1, <2>4, KeyedLess
<1>12. CASE UNCHANGED vars
  <2>1. UNCHANGED <<sec, rand, core, track, frames>>
    BY <1>12 DEF vars
  <2> QED BY <1>1, <1>2, <2>1, ThinnedNone, KeyedLess
<1> QED BY <1>4, <1>5, <1>6, <1>7, <1>8, <1>9, <1>10, <1>11, <1>12 DEF Next, UEStep

LEMMA KeyedInit == Init => KeyedInv
<1> SUFFICES ASSUME Init PROVE KeyedInv
  OBVIOUS
<1>1. \A t \in MessageTypes : DOMAIN frames[t] = {}
  <2>1. \A t \in MessageTypes : frames[t] = <<>>
    BY DEF Init, EmptyQueues
  <2> QED BY <2>1
<1>2. \A u \in UEs : /\ core[u].key = 0 /\ core[u].chal = 0 /\ core[u].res = 0
                     /\ sec[u].keys = 0 /\ sec[u].kamf = 0 /\ rand[u] = 0
  BY DEF Init, NoKey, FreshContext
<1>3. \A u \in UEs : For(u) = {} /\ \A l, k : ~Precedes(u, l, k)
  BY <1>1, Waits DEF For, Precedes
<1>4. ASSUME NEW u \in UEs PROVE Keyed(u)
  <2>1. OrderInv(u) /\ AheadInv(u)
    BY <1>3 DEF OrderInv, AheadInv
  <2>2. KeyInv(u)
    BY <1>2 DEF KeyInv, Agree, NoKey
  <2> QED BY <2>1, <2>2 DEF Keyed
<1>5. CarrierInv
  BY <1>1 DEF CarrierInv
<1> QED BY <1>4, <1>5 DEF KeyedInv

\* While a UE has the MME's newest keys, its UL COUNT is the number of uplinks the MME
\* had under them (encodeENBUplinkNAS), for any number of UEs and uplinks, over
\* re-authentications and retransmissions, unless a command was read again after
\* uplinks went out: as long as no request forges an MME id, no command that can still
\* be taken is for another Kasme than the UE's, so the COUNT starts over on both sides.
THEOREM UplinksStayInStep ==
    ASSUME ~Overrides
    PROVE  Spec => []UplinksInStep
<1>1. Init => OwnInv /\ KeyedInv
  BY OwnInit, KeyedInit
<1>2. (BearerInv /\ ShapeInv) /\ (OwnInv /\ KeyedInv) /\ [Next]_vars => (OwnInv /\ KeyedInv)'
  BY OwnStep, KeyedStep
<1>3. OwnInv /\ KeyedInv => UplinksInStep
  BY DEF KeyedInv, Keyed, KeyInv, Agree, UplinksInStep
<1> QED BY <1>1, <1>2, <1>3, Shaped, PTL DEF Spec

(***************************************************************************)
(* Which bearers                                                           *)
(***************************************************************************)

\* A message under keys k with COUNT n was sent before one under keys j with COUNT m.
Sooner(k, n, j, m) == k < j \/ (k = j /\ n < m)

\* The set-up requests of bearers queued for u
Activations(u) ==
    {l \in Label : /\ l.to = {u} /\ l.nas.kind = "activate"
                   /\ \E t \in MessageTypes : \E i \in DOMAIN frames[t] : frames[t][i].label = l}

\* The UE has read something later than nas since, and answered it.
Passed(s, c, replayed, nas) ==
    /\ Sooner(nas.key, nas.count, s.keys, s.dl) \/ (nas.key = s.keys /\ replayed)
    /\ nas.key = c.key => c.ul > 0

\* A set-up request is older than the deactivations that the MME waits for; one of a
\* bearer that was dropped is past.
QueuedInv(u) ==
    \A l \in Activations(u) :
      /\ l.nas.prot = "ciphered" /\ l.nas.key # NoKey
      /\ Sooner(l.nas.key, l.nas.count, core[u].key, core[u].dl)
      /\ \A d \in core[u].ending :
           d.ebi = l.nas.arg => Sooner(l.nas.key, l.nas.count, d.key, d.count)
      /\ l.nas.arg \notin core[u].live => Passed(sec[u], core[u], track[u].replayed, l.nas)

\* The UE's Kasme is never one from before the MME's keys, its own, or its RAND.
GrowInv(u) ==
    /\ core[u].secured => core[u].key # NoKey
    /\ core[u].key <= sec[u].kamf /\ sec[u].keys <= sec[u].kamf
    /\ rand[u] # NoKey => sec[u].kamf <= rand[u]

LiveInv == \A u \in UEs : QueuedInv(u) /\ GrowInv(u)

\* What the MME keeps of a UE's bearers when it gets something from the UE
LEMMA CoreLives ==
    ASSUME NEW c \in Core
    PROVE  /\ \A t, i, a :
                LET h == Heard(c, t, i, a)
                IN /\ h.key = c.key /\ h.dl = c.dl /\ h.ul = c.ul /\ h.secured = c.secured
                   /\ h.live = c.live /\ h.ending = c.ending
           /\ \A k : LET h == Answered(c, k)
                     IN /\ h.key = c.key /\ h.dl = c.dl /\ h.ul = c.ul /\ h.secured = c.secured
                        /\ h.live = c.live /\ h.ending = c.ending
           /\ \A g : LET h == Dropped(c, g)
                         over == {d.ebi : d \in g \cap c.ending}
                     IN /\ h.key = c.key /\ h.dl = c.dl /\ h.ul = c.ul /\ h.secured = c.secured
                        /\ h.live = c.live \ over /\ h.ending \subseteq c.ending
           /\ \A k, p : LET h == Counted(c, k, p)
                        IN /\ h.key = c.key /\ h.dl = c.dl /\ c.ul <= h.ul
                           /\ h.live = c.live /\ h.ending = c.ending
                           /\ h.secured => c.secured \/ c.key # NoKey
                           /\ p # "plain" /\ k = c.key /\ k # NoKey => h.ul > 0
<1>1. ASSUME NEW t, NEW i, NEW a
      PROVE  LET h == Heard(c, t, i, a)
             IN /\ h.key = c.key /\ h.dl = c.dl /\ h.ul = c.ul /\ h.secured = c.secured
                /\ h.live = c.live /\ h.ending = c.ending
  <2>1. CASE t = "none"
    BY <2>1 DEF Heard
  <2>2. CASE t = "initial"
    BY <2>2 DEF Heard, Core
  <2>3. CASE t \notin {"none", "initial"}
    BY <2>3 DEF Heard, Core
  <2> QED BY <2>1, <2>2, <2>3
<1>2. \A k : LET h == Answered(c, k)
             IN /\ h.key = c.key /\ h.dl = c.dl /\ h.ul = c.ul /\ h.secured = c.secured
                /\ h.live = c.live /\ h.ending = c.ending
  BY DEF Answered, Core
<1>3. \A g : LET h == Dropped(c, g)
                 over == {d.ebi : d \in g \cap c.ending}
             IN /\ h.key = c.key /\ h.dl = c.dl /\ h.ul = c.ul /\ h.secured = c.secured
                /\ h.live = c.live \ over /\ h.ending \subseteq c.ending
  BY DEF Dropped, Core
<1>4. ASSUME NEW k, NEW p
      PROVE  LET h == Counted(c, k, p)
             IN /\ h.key = c.key /\ h.dl = c.dl /\ c.ul <= h.ul
                /\ h.live = c.live /\ h.ending = c.ending
                /\ h.secured => c.secured \/ c.key # NoKey
                /\ p # "plain" /\ k = c.key /\ k # NoKey => h.ul > 0
  <2> DEFINE d == [c EXCEPT !.ul = @ + 1, !.secured = @ \/ p = "new"]
  <2>1. c.ul \in Nat
    BY DEF Core
  <2>2. /\ d.key = c.key /\ d.dl = c.dl /\ d.ul = c.ul + 1
        /\ d.live = c.live /\ d.ending = c.ending
    BY DEF Core
  <2> HIDE DEF d
  <2>3. IF p = "plain" \/ k # c.key \/ k = NoKey THEN Counted(c, k, p) = c ELSE Counted(c, k, p) = d
    BY DEF Counted, d
  <2>4. CASE p = "plain" \/ k # c.key \/ k = NoKey
    BY <2>1, <2>3, <2>4
  <2>5. CASE ~(p = "plain" \/ k # c.key \/ k = NoKey)
    BY <2>1, <2>2, <2>3, <2>5
  <2> QED BY <2>4, <2>5
<1> QED BY <1>1, <1>2, <1>3, <1>4

LEMMA ActivationParts ==
    ASSUME NEW u \in UEs, NEW l \in Activations(u)
    PROVE  /\ l \in Label /\ l.nas.kind = "activate" /\ l.to = {u}
           /\ l.nas.key \in Nat /\ l.nas.count \in Nat /\ l.nas.arg \in Nat
BY DEF Activations, Label, Genuine, NAS

\* What has passed stays past while the keys are the same and nothing starts over.
LEMMA PassedKept ==
    ASSUME NEW s \in Context, NEW x \in Context, NEW c \in Core, NEW y \in Core, NEW b, NEW n \in NAS,
           Passed(s, c, b, n), x.keys = s.keys, s.dl <= x.dl, y.key = c.key, c.ul <= y.ul
    PROVE  Passed(x, y, b, n)
<1>1. /\ s.keys \in Nat /\ s.dl \in Nat /\ x.dl \in Nat /\ c.ul \in Nat /\ y.ul \in Nat
      /\ n.key \in Nat /\ n.count \in Nat
  BY DEF Context, Core, NAS
<1>2. Sooner(n.key, n.count, s.keys, s.dl) => Sooner(n.key, n.count, x.keys, x.dl)
  BY <1>1 DEF Sooner
<1> QED BY <1>1, <1>2 DEF Passed

\* A step after which nothing more is queued for u, and no more is waited for
LEMMA QueuedKept ==
    ASSUME NEW u \in UEs, QueuedInv(u), Activations(u)' \subseteq Activations(u),
           core'[u].key = core[u].key, core'[u].dl = core[u].dl, core'[u].ending \subseteq core[u].ending,
           \A l \in Activations(u) :
             l.nas.arg \notin core[u].live => Passed(sec'[u], core'[u], track'[u].replayed, l.nas),
           \A l \in Activations(u) : l.nas.arg \in core[u].live /\ l.nas.arg \notin core'[u].live =>
             Passed(sec'[u], core'[u], track'[u].replayed, l.nas)
    PROVE  QueuedInv(u)'
<1> SUFFICES ASSUME NEW l \in Activations(u)'
             PROVE  /\ l.nas.prot = "ciphered" /\ l.nas.key # NoKey
                    /\ Sooner(l.nas.key, l.nas.count, core'[u].key, core'[u].dl)
                    /\ \A d \in core'[u].ending :
                         d.ebi = l.nas.arg => Sooner(l.nas.key, l.nas.count, d.key, d.count)
                    /\ l.nas.arg \notin core'[u].live =>
                         Passed(sec'[u], core'[u], track'[u].replayed, l.nas)
  BY DEF QueuedInv
<1>1. l \in Activations(u)
  OBVIOUS
<1> QED BY <1>1 DEF QueuedInv

\* Taking frames out of the queues queues nothing.
LEMMA FewerActivations ==
    ASSUME \A s \in MessageTypes : \A i \in DOMAIN frames'[s] :
             \E j \in DOMAIN frames[s] : frames'[s][i] = frames[s][j]
    PROVE  \A v \in UEs : Activations(v)' \subseteq Activations(v)
<1> SUFFICES ASSUME NEW v \in UEs, NEW l \in Activations(v)' PROVE l \in Activations(v)
  OBVIOUS
<1>1. PICK t \in MessageTypes : \E i \in DOMAIN frames'[t] : frames'[t][i].label = l
  BY DEF Activations
<1>2. \E j \in DOMAIN frames[t] : frames[t][j].label = l
  BY <1>1
<1>3. l \in Label /\ l.to = {v} /\ l.nas.kind = "activate"
  BY DEF Activations
<1> QED BY <1>2, <1>3 DEF Activations

\* A step in which the UE reads nothing and the MME drops nothing
LEMMA LiveUplink ==
    ASSUME ShapeInv, ShapeInv', NEW u \in UEs, QueuedInv(u), frames' = frames, track'[u] = track[u],
           sec'[u].keys = sec[u].keys, sec'[u].dl = sec[u].dl,
           core'[u].key = core[u].key, core'[u].dl = core[u].dl, core[u].ul <= core'[u].ul,
           core'[u].live = core[u].live, core'[u].ending = core[u].ending
    PROVE  QueuedInv(u)'
<1>1. /\ sec[u] \in Context /\ sec'[u] \in Context /\ core[u] \in Core /\ core'[u] \in Core
      /\ sec[u].dl <= sec'[u].dl
  BY DEF ShapeInv, Context
<1>2. Activations(u)' \subseteq Activations(u)
  BY FewerActivations
<1>3. ASSUME NEW l \in Activations(u), l.nas.arg \notin core[u].live
      PROVE  Passed(sec'[u], core'[u], track'[u].replayed, l.nas)
  <2>1. Passed(sec[u], core[u], track[u].replayed, l.nas) /\ l.nas \in NAS
    BY <1>3 DEF QueuedInv, Activations, Label, Genuine
  <2> QED BY <2>1, <1>1, PassedKept
<1> QED BY <1>2, <1>3, QueuedKept

LEMMA LiveEmit ==
    ASSUME ShapeInv, ShapeInv', NEW u \in UEs, QueuedInv(u), GrowInv(u), NEW r \in Formed,
           NEW i \in Nat, NEW a \in Nat, Emit(u, r, i, a)
    PROVE  QueuedInv(u)' /\ GrowInv(u)'
<1> DEFINE h == Heard(core[u], r.carrier, i, a)
<1>1. /\ sec[u] \in Context /\ core[u] \in Core /\ lastMME \in Nat
      /\ r.carrier \in {"initial", "uplink", "s1ap", "none"}
  BY DEF Formed, Form, ShapeInv
<1>2. /\ sec'[u] = AfterUplinkEPS(sec[u], r.prot) /\ core'[u] = Counted(h, sec[u].keys, r.prot)
      /\ UNCHANGED <<rand, track, frames>>
  BY DEF Emit, ShapeInv
<1>3. h \in Core
  BY <1>1, CoreStays DEF Protections
<1>4. /\ h.key = core[u].key /\ h.dl = core[u].dl /\ h.ul = core[u].ul /\ h.secured = core[u].secured
      /\ h.live = core[u].live /\ h.ending = core[u].ending
  BY <1>1, CoreLives
<1> HIDE DEF h
<1>5. /\ core'[u].key = core[u].key /\ core'[u].dl = core[u].dl /\ core[u].ul <= core'[u].ul
      /\ core'[u].live = core[u].live /\ core'[u].ending = core[u].ending
      /\ core'[u].secured => core[u].secured \/ core[u].key # NoKey
  BY <1>2, <1>3, <1>4, CoreLives
<1>6. sec'[u].keys = sec[u].keys /\ sec'[u].dl = sec[u].dl /\ sec'[u].kamf = sec[u].kamf
  BY <1>1, <1>2, UplinkMoves
<1>7. QueuedInv(u)'
  BY <1>2, <1>5, <1>6, LiveUplink
<1> QED BY <1>2, <1>5, <1>6, <1>7 DEF GrowInv

LEMMA LiveAuthentication ==
    ASSUME ShapeInv, ShapeInv', NEW u \in UEs, QueuedInv(u), GrowInv(u), SendAuthenticationResponse(u)
    PROVE  QueuedInv(u)' /\ GrowInv(u)'
<1>1. PICK k \in AuthenticationChoices(u), a \in EffectiveMMEIDs(u, AuthenticationResponse) :
        /\ sec'[u] = [sec[u] EXCEPT !.kamf = k[1]]
        /\ core'[u] = Answered(Heard(core[u], "uplink", ENBUES1APID[u], a), k[2])
  <2>1. PICK k \in AuthenticationChoices(u), a \in EffectiveMMEIDs(u, AuthenticationResponse) :
          /\ sec' = [sec EXCEPT ![u].kamf = k[1]]
          /\ core' = [core EXCEPT ![u] = Answered(Heard(@, "uplink", ENBUES1APID[u], a), k[2])]
    BY DEF SendAuthenticationResponse
  <2>2. /\ sec'[u] = [sec[u] EXCEPT !.kamf = k[1]]
        /\ core'[u] = Answered(Heard(core[u], "uplink", ENBUES1APID[u], a), k[2])
    BY <2>1 DEF ShapeInv
  <2> QED BY <2>2
<1> DEFINE h == Heard(core[u], "uplink", ENBUES1APID[u], a)
<1>2. UNCHANGED <<rand, track, frames>>
  BY DEF SendAuthenticationResponse
<1>3. /\ sec[u] \in Context /\ core[u] \in Core /\ lastMME \in Nat /\ rand[u] \in Nat
      /\ a \in Nat /\ ENBUES1APID[u] \in Nat
  BY SentUnder DEF ShapeInv
<1>4. h \in Core
  BY <1>3, CoreStays DEF Protections
<1>5. /\ h.key = core[u].key /\ h.dl = core[u].dl /\ h.ul = core[u].ul /\ h.secured = core[u].secured
      /\ h.live = core[u].live /\ h.ending = core[u].ending
  BY <1>3, CoreLives
<1>6. core'[u] = Answered(h, k[2])
  BY <1>1
<1> HIDE DEF h
<1>7. /\ core'[u].key = core[u].key /\ core'[u].dl = core[u].dl /\ core'[u].ul = core[u].ul
      /\ core'[u].live = core[u].live /\ core'[u].ending = core[u].ending
      /\ core'[u].secured = core[u].secured
  BY <1>4, <1>5, <1>6, CoreLives
<1>8. sec'[u].kamf = k[1] /\ sec'[u].keys = sec[u].keys /\ sec'[u].dl = sec[u].dl
  BY <1>1, <1>3 DEF Context
<1>9. k[1] = sec[u].kamf \/ (k[1] = rand[u] /\ rand[u] # NoKey)
  <2>1. CASE k = <<sec[u].kamf, NoKey>>
    BY <2>1
  <2>2. CASE rand[u] # NoKey /\ k \in {<<rand[u], rand[u]>>, <<rand[u], NoKey>>}
    BY <2>2
  <2> QED BY <2>1, <2>2 DEF AuthenticationChoices
<1>10. QueuedInv(u)'
  <2>1. core[u].ul <= core'[u].ul
    BY <1>3, <1>7 DEF Core
  <2> QED BY <2>1, <1>2, <1>7, <1>8, LiveUplink
<1>11. GrowInv(u)'
  <2>1. /\ core[u].key \in Nat /\ sec[u].keys \in Nat /\ sec[u].kamf \in Nat
        /\ core[u].key <= sec[u].kamf /\ sec[u].keys <= sec[u].kamf
        /\ rand[u] # NoKey => sec[u].kamf <= rand[u]
    BY <1>3 DEF GrowInv, Core, Context
  <2>2. /\ core[u].key <= k[1] /\ sec[u].keys <= k[1]
        /\ rand[u] # NoKey => k[1] <= rand[u]
    BY <2>1, <1>3, <1>9
  <2> QED BY <2>2, <1>2, <1>7, <1>8 DEF GrowInv
<1> QED BY <1>10, <1>11

\* A bearer whose deactivation the UE answers: what was queued to set it up is past.
LEMMA Accepted ==
    ASSUME NEW u \in UEs, QueuedInv(u), core[u] \in Core, NEW l \in Activations(u),
           NEW d \in core[u].ending, d.ebi = l.nas.arg,
           NEW x, x.keys = d.key, x.dl = d.count, x.keys <= core[u].key,
           NEW y, y.key = core[u].key, x.keys = core[u].key /\ x.keys # NoKey => y.ul > 0,
           NEW b
    PROVE  Passed(x, y, b, l.nas)
<1>1. Sooner(l.nas.key, l.nas.count, d.key, d.count) /\ l.nas.key # NoKey
  BY DEF QueuedInv
<1>2. l.nas.key \in Nat /\ core[u].key \in Nat /\ d.key \in Nat
  BY ActivationParts DEF Core, Deactivations
<1>3. l.nas.key <= d.key
  BY <1>1, <1>2 DEF Sooner
<1>4. l.nas.key = y.key => y.ul > 0
  BY <1>1, <1>2, <1>3
<1> QED BY <1>1, <1>4 DEF Passed

LEMMA LiveDeactivate ==
    ASSUME ShapeInv, ShapeInv', NEW u \in UEs, QueuedInv(u), GrowInv(u), Keyed(u),
           SendDeactivateAccept(u)
    PROVE  QueuedInv(u)' /\ GrowInv(u)'
<1> DEFINE y == Counted(core[u], sec[u].keys, "ciphered")
<1>1. sec[u] \in Context /\ core[u] \in Core /\ sec'[u] \in Context /\ core'[u] \in Core
  BY DEF ShapeInv
<1>2. PICK e : core'[u] = Dropped(y, {Deactivation(e, sec[u].keys, sec[u].dl)})
  <2>1. PICK x \in answer[u] :
          core' = [core EXCEPT ![u] = Dropped(Counted(@, sec[u].keys, "ciphered"),
                                              {Deactivation(x.arg, sec[u].keys, sec[u].dl)})]
    BY DEF SendDeactivateAccept
  <2>2. core'[u] = Dropped(y, {Deactivation(x.arg, sec[u].keys, sec[u].dl)})
    BY <2>1 DEF ShapeInv
  <2> HIDE DEF y
  <2> QED BY <2>2
<1>3. sec'[u] = AfterUplinkEPS(sec[u], "ciphered") /\ UNCHANGED <<rand, track, frames>>
  BY DEF SendDeactivateAccept, ShapeInv
<1>4. /\ y.key = core[u].key /\ y.dl = core[u].dl /\ core[u].ul <= y.ul
      /\ y.live = core[u].live /\ y.ending = core[u].ending
      /\ y.secured => core[u].secured \/ core[u].key # NoKey
      /\ sec[u].keys = core[u].key /\ sec[u].keys # NoKey => y.ul > 0
  BY <1>1, CoreLives
<1>5. y \in Core
  <2>1. Agree(sec[u], core[u], track[u].replayed)
    BY DEF Keyed, KeyInv
  <2> QED BY <2>1, <1>1, Agreement
<1> HIDE DEF y
<1> DEFINE over == {d.ebi : d \in {Deactivation(e, sec[u].keys, sec[u].dl)} \cap y.ending}
<1>6. /\ core'[u].key = core[u].key /\ core'[u].dl = core[u].dl /\ core[u].ul <= core'[u].ul
      /\ core'[u].live = core[u].live \ over /\ core'[u].ending \subseteq core[u].ending
      /\ core'[u].secured => core[u].secured \/ core[u].key # NoKey
      /\ sec[u].keys = core[u].key /\ sec[u].keys # NoKey => core'[u].ul > 0
  BY <1>2, <1>4, <1>5, CoreLives
<1>7. sec'[u].keys = sec[u].keys /\ sec'[u].dl = sec[u].dl /\ sec'[u].kamf = sec[u].kamf
  BY <1>1, <1>3, UplinkMoves
<1>8. Activations(u)' \subseteq Activations(u)
  BY <1>3, FewerActivations
<1>9. ASSUME NEW l \in Activations(u), l.nas.arg \notin core[u].live
      PROVE  Passed(sec'[u], core'[u], track'[u].replayed, l.nas)
  <2>1. Passed(sec[u], core[u], track[u].replayed, l.nas) /\ l.nas \in NAS
    BY <1>9 DEF QueuedInv, Activations, Label, Genuine
  <2>2. sec[u].dl <= sec'[u].dl
    BY <1>1, <1>7 DEF Context
  <2> QED BY <2>1, <2>2, <1>1, <1>3, <1>6, <1>7, PassedKept
<1>10. ASSUME NEW l \in Activations(u), l.nas.arg \in core[u].live, l.nas.arg \notin core'[u].live
       PROVE  Passed(sec'[u], core'[u], track'[u].replayed, l.nas)
  <2>1. PICK d \in {Deactivation(e, sec[u].keys, sec[u].dl)} \cap core[u].ending : d.ebi = l.nas.arg
    BY <1>4, <1>6, <1>10
  <2>2. d.key = sec'[u].keys /\ d.count = sec'[u].dl
    BY <2>1, <1>7 DEF Deactivation
  <2>3. sec'[u].keys <= core[u].key
    BY <1>7 DEF Keyed, KeyInv
  <2>4. sec'[u].keys = core[u].key /\ sec'[u].keys # NoKey => core'[u].ul > 0
    BY <1>6, <1>7
  <2> QED BY <2>1, <2>2, <2>3, <2>4, <1>1, <1>6, Accepted
<1>11. QueuedInv(u)'
  BY <1>6, <1>8, <1>9, <1>10, QueuedKept
<1>12. GrowInv(u)'
  BY <1>3, <1>6, <1>7 DEF GrowInv
<1> QED BY <1>11, <1>12

\* Reading a message leaves behind what was: a command that starts the COUNT over is for
\* newer keys, or is found to be read again.
LEMMA ReadPasses ==
    ASSUME NEW u \in UEs, ShapeInv, GrowInv(u), Keyed(u), NEW n \in NAS,
           n.prot = "new" => n.key = sec[u].kamf /\ n.key <= core[u].key,
           NEW m \in NAS, Passed(sec[u], core[u], track[u].replayed, m)
    PROVE  Passed(AfterDownlinkEPS(sec[u], n), core[u], Tracked(u, n).replayed, m)
<1> DEFINE x == AfterDownlinkEPS(sec[u], n)
<1>1. /\ sec[u] \in Context /\ core[u] \in Core
      /\ track[u] \in [ok : BOOLEAN, at : Nat, replayed : BOOLEAN]
  BY DEF ShapeInv
<1>2. /\ sec[u].keys \in Nat /\ sec[u].kamf \in Nat /\ sec[u].dl \in Nat /\ core[u].key \in Nat
      /\ core[u].ul \in Nat /\ m.key \in Nat /\ m.count \in Nat /\ n.key \in Nat /\ n.count \in Nat
  BY <1>1 DEF Context, Core, NAS
<1>3. /\ Sooner(m.key, m.count, sec[u].keys, sec[u].dl) \/ (m.key = sec[u].keys /\ track[u].replayed)
      /\ m.key = core[u].key => core[u].ul > 0
  BY DEF Passed
<1>4. sec[u].keys <= sec[u].kamf /\ core[u].key <= sec[u].kamf
  BY DEF GrowInv
<1>5. CASE n.prot = "new"
  <2> DEFINE late == n.key = core[u].key /\ core[u].ul > 0
  <2>1. x.keys = sec[u].kamf
    BY <1>1, <1>5, CommandEstablishes
  <2>2. Tracked(u, n).replayed = late
    <3>1. Tracked(u, n) = [ok |-> ~late, at |-> 0, replayed |-> late]
      BY <1>5 DEF Tracked
    <3> HIDE DEF late
    <3> QED BY <3>1
  <2>3. m.key < sec[u].kamf \/ m.key = sec[u].kamf
    BY <1>2, <1>3, <1>4 DEF Sooner
  <2>4. m.key = sec[u].kamf => late
    BY <1>2, <1>3, <1>4, <1>5
  <2> HIDE DEF x, late
  <2> QED BY <2>1, <2>2, <2>3, <2>4, <1>3 DEF Passed, Sooner, x
<1>6. CASE n.prot # "new"
  <2>1. x.keys = sec[u].keys /\ Tracked(u, n).replayed = track[u].replayed
    BY <1>1, <1>6, CommandEstablishes DEF Tracked
  <2>2. sec[u].dl <= x.dl /\ x \in Context
    <3>1. x \in Context
      BY <1>1, ContextType
    <3>2. n.prot = "plain" => x = sec[u]
      BY <1>1, CommandEstablishes
    <3>3. n.prot # "plain" => x.dl = EstimateDL(sec[u].dl, n.count % Octet)
      <4>1. n.prot # "plain" => x = NextDL(sec[u], n.count % Octet)
        BY <1>6 DEF AfterDownlinkEPS, AfterDownlink
      <4> QED BY <4>1, <1>1 DEF NextDL, Context
    <3>4. sec[u].dl <= EstimateDL(sec[u].dl, n.count % Octet)
      BY <1>2, EstimateAhead
    <3> HIDE DEF x
    <3> QED BY <3>1, <3>2, <3>3, <3>4, <1>2
  <2>3. core[u].ul <= core[u].ul
    BY <1>2
  <2> HIDE DEF x
  <2>4. Passed(x, core[u], track[u].replayed, m)
    BY <2>1, <2>2, <2>3, <1>1, PassedKept
  <2> QED BY <2>1, <2>4 DEF x
<1> QED BY <1>5, <1>6

\* A wait finds a message: what is past stays so, and so becomes what was queued for a
\* bearer whose deactivation is answered.
LEMMA LiveFetch ==
    ASSUME ShapeInv, ShapeInv', OwnInv, CarrierInv, NEW u \in UEs, Keyed(u), QueuedInv(u), GrowInv(u),
           Fetch(u)
    PROVE  QueuedInv(u)' /\ GrowInv(u)'
<1>1. PICK w \in call[u], t \in MessageTypes : \E m \in 1..Len(frames[t]) :
        /\ frames' = [frames EXCEPT ![t] = RemoveAt(@, m)]
        /\ frames[t][m] \in FrameOf(t) /\ Matches(u, w, frames[t][m].label)
        /\ Handle(u, w, frames[t][m])
  BY FetchOutcome
<1>2. PICK m \in 1..Len(frames[t]) :
        /\ frames' = [frames EXCEPT ![t] = RemoveAt(@, m)]
        /\ frames[t][m] \in FrameOf(t) /\ Matches(u, w, frames[t][m].label)
        /\ Handle(u, w, frames[t][m])
  BY <1>1
<1> DEFINE f == frames[t][m]
           l == f.label
           nas == l.nas
           kept == nas.kind = "challenge" /\ nas.prot = "plain" /\ w.req.keeps # "never"
<1>3. /\ m \in DOMAIN frames[t] /\ l \in Label /\ nas \in Genuine /\ nas \in NAS
      /\ sec[u] \in Context /\ sec'[u] \in Context /\ core[u] \in Core /\ core'[u] \in Core
      /\ rand[u] \in Nat /\ w.req \in Formed /\ lastMME \in Nat
  BY <1>2 DEF ShapeInv, QueueInv, FrameOf, Label, Genuine
<1>4. Activations(u)' \subseteq Activations(u)
  <2>1. /\ \A s \in MessageTypes \ {t} : frames'[s] = frames[s]
        /\ \A i \in DOMAIN frames'[t] :
             Shift(i, m) \in DOMAIN frames[t] /\ frames'[t][i] = frames[t][Shift(i, m)]
    BY <1>2, RemoveFrame DEF ShapeInv
  <2> QED BY <2>1, FewerActivations
<1>5. PICK after \in Context, prot \in {"plain", "ciphered"}, gone \in SUBSET Deactivations, x \in Answer :
        Outcome(u, w, f, after, prot, gone, x)
  <2>1. f \in FrameOf(t) /\ Handle(u, w, f)
    BY <1>2
  <2> HIDE DEF f
  <2> QED BY <2>1, HandleParts
<1>6. /\ after = (IF Unwraps(w, f) THEN AfterDownlinkEPS(sec[u], nas) ELSE sec[u])
      /\ sec'[u] = AfterUplinkEPS(after, prot)
      /\ core'[u] = Dropped(Counted(core[u], after.keys, prot), gone)
      /\ \A d \in gone : prot = "ciphered" /\ d.key = after.keys /\ d.count = after.dl
  BY <1>5 DEF Outcome, ShapeInv
<1>7. /\ track'[u] = (IF Unwraps(w, f) THEN Tracked(u, nas) ELSE track[u])
      /\ rand'[u] = KeptRAND(u, w, nas)
  <2>1. /\ track' = IF Unwraps(w, f) THEN [track EXCEPT ![u] = Tracked(u, nas)] ELSE track
        /\ rand' = [rand EXCEPT ![u] = KeptRAND(u, w, nas)]
    BY <1>2 DEF Handle
  <2> HIDE DEF f, l, nas
  <2> QED BY <2>1 DEF ShapeInv
<1>8. IF kept THEN rand'[u] = nas.arg ELSE rand'[u] \in {rand[u], NoKey}
  BY <1>7 DEF KeptRAND
<1>9. Unwraps(w, f) \/ kept => w.req.match # "any"
  BY <1>3 DEF Unwraps, Formed, Silent
<1>10. nas.kind \in {"challenge", "command"} => t = Dnt /\ l.enb \notin {NoId, 0}
  BY <1>3 DEF CarrierInv
<1>11. ASSUME w.req.match # "any", nas.kind \in {"challenge", "command"}
       PROVE  l \in For(u) /\ Reaches(u, l)
  <2>1. t = Dnt /\ l.to = {u} /\ Reaches(u, l)
    BY <1>2, <1>3, <1>10, <1>11, MatchedReaches
  <2> QED BY <2>1, <1>3 DEF For
<1>12. Unwraps(w, f) /\ nas.prot = "new" => nas.key = sec[u].kamf /\ nas.key <= core[u].key
  <2>1. nas.prot = "new" => nas.kind = "command"
    BY <1>3 DEF Genuine
  <2> QED BY <2>1, <1>9, <1>11 DEF Keyed, AheadInv
<1>13. kept => sec[u].kamf < nas.arg
  BY <1>9, <1>11 DEF Keyed, AheadInv
<1> HIDE DEF f, l, nas, kept
<1>14. /\ after.kamf = sec[u].kamf /\ after.keys \in {sec[u].keys, sec[u].kamf}
       /\ after.keys <= core[u].key
  <2>1. CASE Unwraps(w, f) /\ nas.prot = "new"
    BY <2>1, <1>3, <1>6, <1>12, CommandEstablishes
  <2>2. CASE Unwraps(w, f) /\ nas.prot # "new"
    BY <2>2, <1>3, <1>6, CommandEstablishes DEF Keyed, KeyInv
  <2>3. CASE ~Unwraps(w, f)
    BY <2>3, <1>6 DEF Keyed, KeyInv
  <2> QED BY <2>1, <2>2, <2>3
<1>15. ASSUME NEW n \in NAS, Passed(sec[u], core[u], track[u].replayed, n)
       PROVE  Passed(after, core[u], track'[u].replayed, n)
  <2>1. CASE Unwraps(w, f)
    BY <2>1, <1>3, <1>6, <1>7, <1>12, <1>15, ReadPasses
  <2>2. CASE ~Unwraps(w, f)
    BY <2>2, <1>6, <1>7, <1>15
  <2> QED BY <2>1, <2>2
<1> DEFINE y == Counted(core[u], after.keys, prot)
           over == {d.ebi : d \in gone \cap core[u].ending}
<1>16. /\ core'[u].key = core[u].key /\ core'[u].dl = core[u].dl /\ core[u].ul <= core'[u].ul
       /\ core'[u].live = core[u].live \ over /\ core'[u].ending \subseteq core[u].ending
       /\ core'[u].secured => core[u].secured \/ core[u].key # NoKey
       /\ prot # "plain" /\ after.keys = core[u].key /\ after.keys # NoKey => core'[u].ul > 0
  <2>1. y \in Core
    <3>1. after.keys \in Nat /\ prot \in Protections
      BY DEF Context, Protections
    <3> QED BY <3>1, <1>3, CoreStays
  <2>2. /\ y.key = core[u].key /\ y.dl = core[u].dl /\ core[u].ul <= y.ul
        /\ y.live = core[u].live /\ y.ending = core[u].ending
        /\ y.secured => core[u].secured \/ core[u].key # NoKey
        /\ prot # "plain" /\ after.keys = core[u].key /\ after.keys # NoKey => y.ul > 0
    BY <1>3, CoreLives
  <2> HIDE DEF y
  <2>3. core'[u] = Dropped(y, gone)
    BY <1>6 DEF y
  <2> QED BY <2>1, <2>2, <2>3, CoreLives
<1> HIDE DEF y
<1>17. sec'[u].keys = after.keys /\ sec'[u].dl = after.dl /\ sec'[u].kamf = after.kamf
  BY <1>6, UplinkMoves
<1>18. ASSUME NEW z \in Activations(u), z.nas.arg \notin core[u].live
       PROVE  Passed(sec'[u], core'[u], track'[u].replayed, z.nas)
  <2>1. z.nas \in NAS /\ Passed(sec[u], core[u], track[u].replayed, z.nas)
    BY <1>18 DEF QueuedInv, Activations, Label, Genuine
  <2>2. Passed(after, core[u], track'[u].replayed, z.nas) /\ after.dl <= sec'[u].dl
    BY <2>1, <1>15, <1>17 DEF Context
  <2> QED BY <2>1, <2>2, <1>3, <1>16, <1>17, PassedKept
<1>19. ASSUME NEW z \in Activations(u), z.nas.arg \in core[u].live, z.nas.arg \notin core'[u].live
       PROVE  Passed(sec'[u], core'[u], track'[u].replayed, z.nas)
  <2>1. PICK d \in gone \cap core[u].ending : d.ebi = z.nas.arg
    BY <1>16, <1>19
  <2>2. prot # "plain" /\ d.key = sec'[u].keys /\ d.count = sec'[u].dl
    BY <2>1, <1>6, <1>17
  <2>3. sec'[u].keys <= core[u].key
    BY <1>14, <1>17
  <2>4. sec'[u].keys = core[u].key /\ sec'[u].keys # NoKey => core'[u].ul > 0
    BY <2>2, <1>16, <1>17
  <2> QED BY <2>1, <2>2, <2>3, <2>4, <1>3, <1>16, Accepted
<1>20. QueuedInv(u)'
  BY <1>4, <1>16, <1>18, <1>19, QueuedKept
<1>21. GrowInv(u)'
  <2>1. /\ core[u].secured => core[u].key # NoKey
        /\ core[u].key <= sec[u].kamf /\ sec[u].keys <= sec[u].kamf
        /\ rand[u] # NoKey => sec[u].kamf <= rand[u]
        /\ sec[u].kamf \in Nat /\ nas.arg \in Nat
    BY <1>3 DEF GrowInv, Context, NAS
  <2>2. rand'[u] # NoKey => sec[u].kamf <= rand'[u]
    BY <2>1, <1>8, <1>13
  <2>3. sec'[u].kamf = sec[u].kamf /\ sec'[u].keys <= sec[u].kamf
    BY <2>1, <1>14, <1>17
  <2> QED BY <2>1, <2>2, <2>3, <1>16 DEF GrowInv
<1> QED BY <1>20, <1>21

\* The MME sends a set-up request of a bearer that it has from then on, or a
\* deactivation, which is later than all of them.
LEMMA LiveMME ==
    ASSUME ShapeInv, ShapeInv', NEW u \in UEs, Keyed(u), QueuedInv(u), GrowInv(u), MMEStep(u)
    PROVE  /\ QueuedInv(u)' /\ GrowInv(u)'
           /\ \A v \in UEs \ {u} : Activations(v)' \subseteq Activations(v)
<1>1. PICK t \in MessageTypes, i \in APIds, a \in APIds, nas \in Genuine : Moves(u, t, i, a, nas)
  BY MMECases
<1>2. /\ MMESends(u, t, i, a, nas) /\ (t = Page => i = NoId /\ a = NoId)
      /\ Keeps(core[u], core'[u]) /\ Advances(core[u], core'[u], nas) /\ Bears(core[u], core'[u], nas)
  BY <1>1, MMECore DEF Moves
<1>3. UNCHANGED <<sec, rand, track>>
  BY <1>2 DEF MMESends
<1>4. PICK n \in {nas, NoNAS} :
        LET l == [to |-> IF i = NoId /\ a = NoId THEN {} ELSE {u}, enb |-> i, mme |-> a, nas |-> n]
        IN l \in Label /\ frames' = File(frames, [type |-> t, label |-> l])
  BY <1>2, MMEFiles
<1> DEFINE l == [to |-> IF i = NoId /\ a = NoId THEN {} ELSE {u}, enb |-> i, mme |-> a, nas |-> n]
<1>5. /\ l \in Label /\ l.to \in {{}, {u}} /\ l.nas = n
      /\ frames' = File(frames, [type |-> t, label |-> l])
  BY <1>4
<1> HIDE DEF l
<1>6. /\ sec[u] \in Context /\ core[u] \in Core /\ core'[u] \in Core
      /\ core[u].key \in Nat /\ core[u].dl \in Nat /\ core[u].ul \in Nat /\ core[u].chal \in Nat
      /\ core'[u].key \in Nat /\ core'[u].dl \in Nat /\ sec[u].kamf \in Nat
  BY DEF ShapeInv, Core, Context
<1>7. n.kind = "activate" => n = nas
  BY DEF NoNAS
<1>8. \A v \in UEs : Activations(v)' \subseteq Activations(v) \cup {l}
  <2>1. \A s \in MessageTypes : \A k \in DOMAIN frames'[s] :
          \/ k \in DOMAIN frames[s] /\ frames'[s][k] = frames[s][k]
          \/ s = t /\ frames'[s][k].label = l
    <3>1. [type |-> t, label |-> l].label = l
      OBVIOUS
    <3> QED BY <3>1, <1>5, FileFrame DEF ShapeInv
  <2> SUFFICES ASSUME NEW v \in UEs, NEW z \in Activations(v)', z # l PROVE z \in Activations(v)
    OBVIOUS
  <2>2. PICK s \in MessageTypes : \E k \in DOMAIN frames'[s] : frames'[s][k].label = z
    BY DEF Activations
  <2>3. \E k \in DOMAIN frames[s] : frames[s][k].label = z
    BY <2>1, <2>2
  <2>4. z \in Label /\ z.to = {v} /\ z.nas.kind = "activate"
    BY DEF Activations
  <2> QED BY <2>3, <2>4 DEF Activations
<1>9. \A v \in UEs \ {u} : Activations(v)' \subseteq Activations(v)
  <2>1. \A v \in UEs \ {u} : l \notin Activations(v)'
    BY <1>5 DEF Activations
  <2> QED BY <2>1, <1>8
<1>10. /\ core[u].key <= core[u].chal
       /\ core[u].res = core[u].chal /\ core[u].chal # NoKey => sec[u].kamf = core[u].chal
  BY DEF Keyed, KeyInv
<1>11. /\ nas.kind = "command" =>
            /\ core[u].res = core[u].chal /\ core[u].chal # NoKey /\ core'[u].key = core[u].chal
            /\ core[u].key = core[u].chal => core'[u].ul = core[u].ul
       /\ nas.kind # "command" => core'[u].key = core[u].key /\ core'[u].ul = core[u].ul
  BY <1>2 DEF Advances
<1>12. \/ core[u].key < core'[u].key
       \/ core'[u].key = core[u].key /\ core'[u].ul = core[u].ul /\ core[u].dl <= core'[u].dl
  BY <1>2, <1>6, <1>10, <1>11 DEF Bears
<1>13. ASSUME NEW x \in Activations(u)'
       PROVE  /\ x.nas.prot = "ciphered" /\ x.nas.key # NoKey
              /\ Sooner(x.nas.key, x.nas.count, core'[u].key, core'[u].dl)
              /\ \A d \in core'[u].ending :
                   d.ebi = x.nas.arg => Sooner(x.nas.key, x.nas.count, d.key, d.count)
              /\ x.nas.arg \notin core'[u].live => Passed(sec'[u], core'[u], track'[u].replayed, x.nas)
  <2>1. CASE x \in Activations(u)
    <3>1. /\ x.nas.prot = "ciphered" /\ x.nas.key # NoKey
          /\ Sooner(x.nas.key, x.nas.count, core[u].key, core[u].dl)
          /\ \A d \in core[u].ending :
               d.ebi = x.nas.arg => Sooner(x.nas.key, x.nas.count, d.key, d.count)
          /\ x.nas.arg \notin core[u].live => Passed(sec[u], core[u], track[u].replayed, x.nas)
      BY <2>1 DEF QueuedInv
    <3>2. x.nas.key \in Nat /\ x.nas.count \in Nat /\ x.nas.key <= core[u].key
      BY <2>1, <3>1, <1>6, ActivationParts DEF Sooner
    <3>3. Sooner(x.nas.key, x.nas.count, core'[u].key, core'[u].dl)
      <4>1. \/ core[u].key < core'[u].key
            \/ core[u].key = core'[u].key /\ core[u].dl <= core'[u].dl
        BY <1>12
      <4>2. Sooner(x.nas.key, x.nas.count, core[u].key, core[u].dl)
        BY <3>1
      <4> QED BY <4>1, <4>2, <3>2, <1>6 DEF Sooner
    <3>4. ASSUME NEW d \in core'[u].ending, d.ebi = x.nas.arg
          PROVE  Sooner(x.nas.key, x.nas.count, d.key, d.count)
      <4>1. CASE d \in core[u].ending
        BY <4>1, <3>1, <3>4
      <4>2. CASE d \notin core[u].ending
        <5>1. PICK e : d = Deactivation(e, core[u].key, core[u].dl)
          BY <3>4, <4>2, <1>2 DEF Bears
        <5> QED BY <5>1, <3>1 DEF Deactivation
      <4> QED BY <4>1, <4>2
    <3>5. ASSUME x.nas.arg \notin core'[u].live
          PROVE  Passed(sec'[u], core'[u], track'[u].replayed, x.nas)
      <4>1. Passed(sec[u], core[u], track[u].replayed, x.nas)
        BY <3>1, <3>5, <1>2 DEF Bears
      <4>2. x.nas.key = core'[u].key => core'[u].ul > 0
        BY <4>1, <3>2, <1>6, <1>12 DEF Passed
      <4> QED BY <4>1, <4>2, <1>3 DEF Passed
    <3> QED BY <3>1, <3>3, <3>4, <3>5
  <2>2. CASE x = l
    <3>1. n.kind = "activate" /\ n = nas /\ x.nas = nas
      BY <2>2, <1>5, <1>7, <1>13 DEF Activations
    <3>2. /\ core[u].secured /\ nas.prot = "ciphered" /\ nas.key = core[u].key /\ nas.count = core[u].dl
          /\ core'[u].dl = core[u].dl + 1 /\ core'[u].ending = core[u].ending
          /\ \A d \in core[u].ending : d.ebi # nas.arg
          /\ nas.arg \in core'[u].live
      BY <3>1, <1>2 DEF Bears
    <3>3. core'[u].key = core[u].key /\ core[u].key # NoKey
      BY <3>1, <3>2, <1>11 DEF GrowInv
    <3>4. Sooner(nas.key, nas.count, core'[u].key, core'[u].dl)
      BY <3>2, <3>3, <1>6 DEF Sooner
    <3> QED BY <3>1, <3>2, <3>3, <3>4
  <2> QED BY <2>1, <2>2, <1>8
<1>14. QueuedInv(u)'
  BY <1>13 DEF QueuedInv
<1>15. GrowInv(u)'
  <2>1. core'[u].secured => core[u].secured
    BY <1>2 DEF Keeps
  <2>2. core'[u].key <= sec[u].kamf /\ (core'[u].key = core[u].key \/ core'[u].key # NoKey)
    BY <1>6, <1>10, <1>11 DEF GrowInv
  <2> QED BY <2>1, <2>2, <1>3 DEF GrowInv
<1> QED BY <1>9, <1>14, <1>15

\* A step that is not about v
LEMMA LiveOthers ==
    ASSUME ShapeInv, ShapeInv', NEW v \in UEs, QueuedInv(v), GrowInv(v),
           Activations(v)' \subseteq Activations(v),
           sec'[v] = sec[v], rand'[v] = rand[v], core'[v] = core[v], track'[v] = track[v]
    PROVE  QueuedInv(v)' /\ GrowInv(v)'
BY DEF QueuedInv, GrowInv

\* The rest of the invariant, after a step of u that is shown to keep u's part
LEMMA LiveRest ==
    ASSUME ShapeInv, ShapeInv', LiveInv, NEW u \in UEs, UEStep(u) \/ MMEStep(u),
           QueuedInv(u)', GrowInv(u)', \A v \in UEs \ {u} : Activations(v)' \subseteq Activations(v)
    PROVE  LiveInv'
<1>1. ASSUME NEW v \in UEs \ {u} PROVE QueuedInv(v)' /\ GrowInv(v)'
  <2>1. sec'[v] = sec[v] /\ rand'[v] = rand[v] /\ core'[v] = core[v] /\ track'[v] = track[v]
    BY Untouched
  <2>2. QueuedInv(v) /\ GrowInv(v)
    BY DEF LiveInv
  <2> QED BY <2>1, <2>2, LiveOthers
<1> QED BY <1>1 DEF LiveInv

\* A step that takes at most messages out of the queues
LEMMA LiveLess ==
    ASSUME ShapeInv, ShapeInv', LiveInv, \A v \in UEs : Activations(v)' \subseteq Activations(v),
           UNCHANGED <<sec, rand, core, track>>
    PROVE  LiveInv'
BY LiveOthers DEF LiveInv

LEMMA LiveStep == ShapeInv /\ OwnInv /\ KeyedInv /\ LiveInv /\ [Next]_vars => LiveInv'
<1> SUFFICES ASSUME ShapeInv, OwnInv, KeyedInv, LiveInv, [Next]_vars PROVE LiveInv'
  OBVIOUS
<1>1. ShapeInv'
  BY ShapeStep
<1>2. CarrierInv /\ \A u \in UEs : Keyed(u) /\ QueuedInv(u) /\ GrowInv(u)
  BY DEF KeyedInv, LiveInv
<1>3. ASSUME frames' = frames PROVE \A v \in UEs : Activations(v)' \subseteq Activations(v)
  BY <1>3, FewerActivations
<1>4. ASSUME NEW u \in UEs, UEStep(u), frames' = frames, QueuedInv(u)' /\ GrowInv(u)' PROVE LiveInv'
  BY <1>1, <1>3, <1>4, LiveRest
<1>5. ASSUME NEW u \in UEs, NEW r \in Used \ {AuthenticationResponse}, Send(u, r) PROVE LiveInv'
  <2>1. PICK a \in EffectiveMMEIDs(u, r) : Emit(u, r, ENBUES1APID[u], a)
    BY <1>5 DEF Send
  <2>2. r \in Formed /\ ENBUES1APID[u] \in Nat /\ a \in Nat
    BY RequestsFormed, ENBUEAssumption, SentUnder
  <2>3. QueuedInv(u)' /\ GrowInv(u)'
    BY <1>1, <1>2, <2>1, <2>2, LiveEmit
  <2>4. frames' = frames /\ UEStep(u)
    BY <1>5, <2>1 DEF Emit, UEStep
  <2> QED BY <1>4, <2>3, <2>4
<1>6. ASSUME NEW u \in UEs, SendAuthenticationResponse(u) PROVE LiveInv'
  <2>1. frames' = frames /\ UEStep(u)
    BY <1>6 DEF SendAuthenticationResponse, UEStep
  <2> QED BY <1>1, <1>2, <1>4, <1>6, <2>1, LiveAuthentication
<1>7. ASSUME NEW u \in UEs, SendDeactivateAccept(u) PROVE LiveInv'
  <2>1. frames' = frames /\ UEStep(u)
    BY <1>7 DEF SendDeactivateAccept, UEStep
  <2> QED BY <1>1, <1>2, <1>4, <1>7, <2>1, LiveDeactivate
<1>8. ASSUME NEW u \in UEs, Reestablish(u) PROVE LiveInv'
  <2> DEFINE r == Secured(Request("initial", "ciphered", <<Release, Err>>))
  <2>1. Emit(u, r, AllocateENBUES1APID, mme[u])
    BY <1>8 DEF Reestablish
  <2>2. r \in Formed /\ AllocateENBUES1APID \in Nat /\ mme[u] \in Nat
    BY RequestsFormed, SentUnder
  <2> HIDE DEF r
  <2>3. QueuedInv(u)' /\ GrowInv(u)'
    BY <1>1, <1>2, <2>1, <2>2, LiveEmit
  <2>4. frames' = frames /\ UEStep(u)
    BY <1>8, <2>1 DEF Emit, UEStep
  <2> QED BY <1>4, <2>3, <2>4
<1>9. ASSUME NEW u \in UEs, Fetch(u) PROVE LiveInv'
  <2>1. UEStep(u)
    BY <1>9 DEF UEStep
  <2>2. QueuedInv(u)' /\ GrowInv(u)'
    BY <1>1, <1>2, <1>9, LiveFetch
  <2>3. \A v \in UEs : Activations(v)' \subseteq Activations(v)
    <3>1. PICK t \in MessageTypes : \E m \in 1..Len(frames[t]) :
            frames' = [frames EXCEPT ![t] = RemoveAt(@, m)]
      BY <1>9, FetchOutcome
    <3>2. PICK m \in 1..Len(frames[t]) : frames' = [frames EXCEPT ![t] = RemoveAt(@, m)]
      BY <3>1
    <3>3. /\ \A s \in MessageTypes \ {t} : frames'[s] = frames[s]
          /\ \A i \in DOMAIN frames'[t] :
               Shift(i, m) \in DOMAIN frames[t] /\ frames'[t][i] = frames[t][Shift(i, m)]
      BY <3>2, RemoveFrame DEF ShapeInv
    <3> QED BY <3>3, FewerActivations
  <2> QED BY <1>1, <2>1, <2>2, <2>3, LiveRest
<1>10. ASSUME NEW u \in UEs, TimeOut(u) PROVE LiveInv'
  <2>1. UNCHANGED <<sec, rand, core, track, frames>>
    BY <1>10 DEF TimeOut
  <2> QED BY <1>1, <1>3, <2>1, LiveLess
<1>11. ASSUME NEW u \in UEs, MMEStep(u) PROVE LiveInv'
  BY <1>1, <1>2, <1>11, LiveMME, LiveRest
<1>12. ASSUME NEW t \in MessageTypes, AwaitENBMessage(t) PROVE LiveInv'
  <2>1. UNCHANGED <<sec, rand, core, track>>
    BY <1>12 DEF AwaitENBMessage
  <2>2. /\ \A s \in MessageTypes \ {t} : frames'[s] = frames[s]
        /\ \A i \in DOMAIN frames'[t] :
             Shift(i, 1) \in DOMAIN frames[t] /\ frames'[t][i] = frames[t][Shift(i, 1)]
    BY <1>12, TailFrame DEF AwaitENBMessage, ShapeInv
  <2>3. \A v \in UEs : Activations(v)' \subseteq Activations(v)
    BY <2>2, FewerActivations
  <2> QED BY <1>1, <2>1, <2>3, LiveLess
<1>13. CASE UNCHANGED vars
  <2>1. UNCHANGED <<sec, rand, core, track, frames>>
    BY <1>13 DEF vars
  <2> QED BY <1>1, <1>3, <2>1, LiveLess
<1> QED BY <1>5, <1>6, <1>7, <1>8, <1>9, <1>10, <1>11, <1>12, <1>13 DEF Next, UEStep

LEMMA LiveInit == Init => LiveInv
<1> SUFFICES ASSUME Init, NEW u \in UEs PROVE QueuedInv(u) /\ GrowInv(u)
  BY DEF LiveInv
<1>1. \A t \in MessageTypes : DOMAIN frames[t] = {}
  <2>1. \A t \in MessageTypes : frames[t] = <<>>
    BY DEF Init, EmptyQueues
  <2> QED BY <2>1
<1>2. ~core[u].secured /\ core[u].key = 0 /\ sec[u].keys = 0 /\ sec[u].kamf = 0 /\ rand[u] = 0
  BY DEF Init, NoKey, FreshContext
<1>3. QueuedInv(u)
  BY <1>1 DEF QueuedInv, Activations
<1> QED BY <1>2, <1>3 DEF GrowInv, NoKey

\* A message that a UE can read was not sent before what it has read, under its keys.
LEMMA ReadableNotPassed ==
    ASSUME NEW s \in Context, NEW n \in NAS, n.prot = "ciphered", Readable(s, n), NEW c, NEW b,
           Passed(s, c, b, n)
    PROVE  b
<1> DEFINE d == NextDL(s, n.count % Octet)
<1>1. s.keys \in Nat /\ s.dl \in Nat /\ n.key \in Nat /\ n.count \in Nat
  BY DEF Context, NAS
<1>2. d.keys = s.keys /\ d.dl = EstimateDL(s.dl, n.count % Octet)
  BY EstimateType DEF NextDL, Context, NAS
<1>3. AfterDownlink(s, n) = d
  BY DEF AfterDownlink
<1>4. n.key = s.keys /\ n.count = d.dl
  BY <1>2, <1>3 DEF Readable, MACVerified
<1>5. s.dl <= n.count
  BY <1>1, <1>2, <1>4, EstimateAhead
<1>6. ~Sooner(n.key, n.count, s.keys, s.dl)
  BY <1>1, <1>4, <1>5 DEF Sooner
<1> QED BY <1>6 DEF Passed

\* What a wait takes up is a bearer of the MME's.
LEMMA TakesUpLive ==
    ASSUME ShapeInv, OwnInv, NEW u \in UEs, QueuedInv(u), Fetch(u), NEW b \in bearers'[u] \ bearers[u],
           bearers \in [UEs -> SUBSET [ebi : EBIs \cup {DefaultBearer}, teid : Nat]]
    PROVE  b.ebi = DefaultBearer \/ track[u].replayed \/ b.ebi \in core[u].live
<1>1. PICK w \in call[u], t \in MessageTypes : \E m \in 1..Len(frames[t]) :
        frames[t][m] \in FrameOf(t) /\ Matches(u, w, frames[t][m].label) /\ Handle(u, w, frames[t][m])
  BY FetchOutcome
<1>2. PICK m \in 1..Len(frames[t]) :
        frames[t][m] \in FrameOf(t) /\ Matches(u, w, frames[t][m].label) /\ Handle(u, w, frames[t][m])
  BY <1>1
<1> DEFINE f == frames[t][m]
           l == f.label
           nas == l.nas
           read == Unwraps(w, f) /\ Readable(sec[u], nas)
           act == Acts(w, f, read)
<1>3. /\ m \in DOMAIN frames[t] /\ l \in Label /\ nas \in NAS /\ sec[u] \in Context
      /\ w.req \in Formed /\ w.mme \in Nat
  BY <1>2 DEF ShapeInv, QueueInv, FrameOf, Label, Genuine
<1>4. bearers'[u] = AfterActing(u, act, nas.arg)
  <2>1. bearers' = [bearers EXCEPT ![u] = AfterActing(u, act, nas.arg)]
    BY <1>2 DEF Handle
  <2> HIDE DEF act, nas
  <2> QED BY <2>1
<1>5. act = "connect" => /\ w.req.acts = "connect" /\ Readable(sec[u], nas)
                         /\ nas.kind = "activate"
  BY DEF Acts
<1>6. ASSUME act = "connect" PROVE l \in Activations(u)
  <2>1. w.req.match \notin {"any", "await"}
    BY <1>3, <1>5, <1>6 DEF Formed, Silent
  <2>2. ~(l.enb = NoId /\ l.mme = NoId)
    BY <2>1, <1>2, <1>3, Identities DEF Matches, NoId
  <2>3. l.to # {}
    BY <2>2, <1>3 DEF OwnInv, ToInv
  <2>4. l.to = {u}
    BY <2>1, <2>3, <1>2, <1>3, MatchedOwn
  <2> QED BY <2>4, <1>3, <1>5, <1>6 DEF Activations
<1> HIDE DEF act
<1>7. CASE act = "attach"
  BY <1>4, <1>7 DEF AfterActing
<1>8. CASE act = "connect"
  <2>1. b.ebi = nas.arg
    BY <1>4, <1>8 DEF AfterActing
  <2>2. nas.prot = "ciphered" /\ (nas.arg \notin core[u].live =>
          Passed(sec[u], core[u], track[u].replayed, nas))
    BY <1>6, <1>8 DEF QueuedInv
  <2> HIDE DEF nas
  <2> QED BY <2>1, <2>2, <1>3, <1>5, <1>8, ReadableNotPassed
<1>9. CASE act \notin {"attach", "connect"}
  BY <1>4, <1>9 DEF AfterActing
<1> QED BY <1>7, <1>8, <1>9

\* No UE takes up a bearer that its MME has dropped, for any number of bearers, UEs and
\* retransmissions of set-ups and deactivations fetched in any order, over
\* re-authentications, unless a command was read again after uplinks went out: what was
\* queued to set it up is before the COUNT or the keys of the deactivation that the UE
\* has accepted, and no longer deciphers (pdn_connectivity_request).
THEOREM NoneResurrected ==
    ASSUME ~Overrides
    PROVE  Spec => NoResurrectedBearer
<1> DEFINE I == (BearerInv /\ ShapeInv) /\ (OwnInv /\ KeyedInv /\ LiveInv)
           A == \A u \in UEs : \A b \in bearers'[u] \ bearers[u] :
                  b.ebi = DefaultBearer \/ track[u].replayed \/ b.ebi \in core[u].live
<1>1. Init => OwnInv /\ KeyedInv /\ LiveInv
  BY OwnInit, KeyedInit, LiveInit
<1>2. (BearerInv /\ ShapeInv) /\ (OwnInv /\ KeyedInv /\ LiveInv) /\ [Next]_vars
        => (OwnInv /\ KeyedInv /\ LiveInv)'
  BY OwnStep, KeyedStep, LiveStep
<1>3. I /\ [Next]_vars => A
  <2> SUFFICES ASSUME I, [Next]_vars, NEW u \in UEs, NEW b \in bearers'[u] \ bearers[u]
               PROVE  b.ebi = DefaultBearer \/ track[u].replayed \/ b.ebi \in core[u].live
    OBVIOUS
  <2>1. PICK v \in UEs : Fetch(v)
    BY OnlyFetch
  <2>2. v = u
    <3>1. PICK w, f : Handle(v, w, f)
      BY <2>1 DEF Fetch
    <3>2. v # u => bearers'[u] = bearers[u]
      BY <3>1 DEF Handle, BearerInv
    <3> QED BY <3>2
  <2>3. QueuedInv(u)
    BY DEF LiveInv
  <2> QED BY <2>1, <2>2, <2>3, TakesUpLive DEF BearerInv
<1>4. A => [A]_vars
  OBVIOUS
<1>5. I /\ [Next]_vars => [A]_vars
  BY <1>3
<1> HIDE DEF A
<1>6. Spec => [](BearerInv /\ ShapeInv)
  BY Shaped
<1>7. Spec => [][A]_vars
  BY <1>1, <1>2, <1>5, <1>6, PTL DEF Spec, I
<1> QED BY <1>7 DEF A, NoResurrectedBearer
=============================================================================
