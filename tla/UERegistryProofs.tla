--------------------------- MODULE UERegistryProofs ---------------------------
(***************************************************************************)
(* TLAPS proofs about UERegistry, for any number of nodes, UEs and         *)
(* overlapping requests.                                                   *)
(***************************************************************************)
EXTENDS UERegistry, SequenceTheorems, TLAPS

(***************************************************************************)
(* The inductive invariant                                                 *)
(***************************************************************************)

Ops == {"create", "patch", "migrate", "arrive"}
JobType == [op : Ops, node : Nodes, id : Numbers, ue : Nat]

\* A request has at most one job; one that is past the making of its UE has a
\* UE, and knows its number.
JobInv ==
    /\ job \in [Requests -> SUBSET JobType]
    /\ \A p \in Requests : \A j \in job[p] :
         /\ job[p] = {j}
         /\ j.op # "create" => j.ue \in DOMAIN ue /\ ue[j.ue].id = j.id

\* A number of a node that a request is at, or that has a UE, was handed out and
\* is of one UE, or of one create.
SlotInv ==
    /\ \A n \in Nodes, i \in Numbers : ues[n][i] # NoUE => i <= last[n]
    /\ \A p \in Requests : \A j \in job[p] :
         /\ j.id <= last[j.node]
         /\ ues[j.node][j.id] # NoUE => j.op # "create" /\ ues[j.node][j.id] = j.ue
    /\ \A p, q \in Requests : \A j \in job[p], k \in job[q] :
         p # q /\ j.node = k.node /\ j.id = k.id =>
           j.op # "create" /\ k.op # "create" /\ j.ue = k.ue

\* The UEs that are between two maps
Arriving == {o \in DOMAIN ue : \E p \in Requests : \E j \in job[p] : j.op = "arrive" /\ j.ue = o}

\* A UE that was not deleted is in a map or on its way into one.
KeptInv ==
    \A o \in DOMAIN ue : home[o].at # Nowhere =>
      o \in Arriving \/ \E n \in Nodes : ues[n][ue[o].id] = o

\* One request at a time moves a UE that was never raced for; until that request
\* takes it out, the UE is where it was found, and then it is nowhere.
OneMoverInv ==
    \A p \in Requests : \A j \in job[p] :
      j.op \in {"migrate", "arrive"} /\ ~home[j.ue].raced =>
        /\ \A q \in Requests \ {p} : \A k \in job[q] :
             ~(k.op \in {"migrate", "arrive"} /\ k.ue = j.ue)
        /\ j.op = "migrate" => ues[j.node][j.id] = j.ue
        /\ j.op = "arrive" => \A n \in Nodes : ues[n][j.id] # j.ue

\* Otherwise it is where the last answer said, and nowhere else.
HomeInv ==
    \A o \in DOMAIN ue : ~home[o].raced /\ o \notin Arriving =>
      \A n \in Nodes : (home[o].at = n) <=> (ues[n][ue[o].id] = o)

\* The RAN id of a UE is its number, or was handed out at the node and is
\* nobody's number there.
RANFreeInv ==
    \A n \in Nodes, o \in DOMAIN ue :
      ues[n][ue[o].id] = o /\ ~home[o].raced =>
        /\ ue[o].ran <= last[n]
        /\ ue[o].ran # ue[o].id =>
             /\ ues[n][ue[o].ran] = NoUE
             /\ \A p \in Requests : \A j \in job[p] : ~(j.node = n /\ j.id = ue[o].ran)

\* Nobody else at the node has it as RAN id.
RANAloneInv ==
    \A n \in Nodes, o, x \in DOMAIN ue :
      /\ o # x /\ ues[n][ue[o].id] = o /\ ues[n][ue[x].id] = x
      /\ ~home[o].raced /\ ~home[x].raced
      => ue[o].ran # ue[x].ran

IInv ==
    /\ TypeOK /\ JobInv /\ SlotInv /\ KeptInv /\ OneMoverInv /\ HomeInv
    /\ RANFreeInv /\ RANAloneInv

(***************************************************************************)
(* Lemmas                                                                  *)
(***************************************************************************)

UEType == [id : Numbers, ran : Numbers, amf : AMFIDs]
HomeType == [at : Nodes \cup {Nowhere}, moved : BOOLEAN, raced : BOOLEAN]

\* What the types say of the parts of the state
Types ==
    /\ NoUE \notin DOMAIN ue /\ Numbers \subseteq Nat
    /\ \A o \in DOMAIN ue : ue[o].id \in Numbers /\ ue[o].ran \in Numbers
    /\ \A n \in Nodes, i \in Numbers :
         ues[n][i] # NoUE => ues[n][i] \in DOMAIN ue /\ ue[ues[n][i]].id = i
    /\ \A n \in Nodes : last[n] \in Nat
    /\ \A p \in Requests : \A j \in job[p] :
         /\ job[p] = {j} /\ j.op \in Ops /\ j.node \in Nodes /\ j.id \in Numbers
         /\ j.op # "create" => j.ue \in DOMAIN ue /\ j.ue # NoUE /\ ue[j.ue].id = j.id

\* The UE contexts and the history are sequences with an entry per UE.
LEMMA UESeq ==
    ASSUME TypeOK
    PROVE  /\ ue \in Seq(UEType) /\ DOMAIN ue = 1..Len(ue) /\ Len(ue) \in Nat
           /\ \A o \in DOMAIN ue : ue[o] \in UEType
           /\ home \in Seq(HomeType) /\ Len(home) = Len(ue) /\ home \in [DOMAIN ue -> HomeType]
<1>1. ue \in Seq(UEType) /\ Len(ue) \in Nat /\ DOMAIN ue = 1..Len(ue)
  BY DEF TypeOK, UEType
<1>2. \A o \in DOMAIN ue : ue[o] \in UEType
  BY <1>1, ElementOfSeq
<1>3. home \in [1..Len(ue) -> HomeType]
  BY <1>1 DEF TypeOK, HomeType
<1>4. home \in Seq(HomeType) /\ Len(home) = Len(ue)
  BY <1>1, <1>3
<1> QED BY <1>1, <1>2, <1>3, <1>4

\* Types follows from the invariant.
LEMMA TypesHold == ASSUME TypeOK, JobInv PROVE Types
<1>1. NoUE \notin DOMAIN ue
  BY UESeq DEF NoUE
<1>2. \A o \in DOMAIN ue : ue[o].id \in Numbers /\ ue[o].ran \in Numbers
  BY UESeq DEF UEType
<1>3. \A n \in Nodes, i \in Numbers :
        ues[n][i] # NoUE => ues[n][i] \in DOMAIN ue /\ ue[ues[n][i]].id = i
  BY DEF TypeOK
<1>4. Numbers \subseteq Nat /\ \A n \in Nodes : last[n] \in Nat
  BY UERegistryAssumption DEF TypeOK, Numbers
<1>5. \A p \in Requests : \A j \in job[p] :
        /\ job[p] = {j} /\ j.op \in Ops /\ j.node \in Nodes /\ j.id \in Numbers
        /\ j.op # "create" => j.ue \in DOMAIN ue /\ j.ue # NoUE /\ ue[j.ue].id = j.id
  BY <1>1 DEF JobInv, JobType
<1> QED BY <1>1, <1>2, <1>3, <1>4, <1>5 DEF Types

\* One UE context is changed.
LEMMA UEUpdate ==
    ASSUME ue \in Seq(UEType), NEW o \in DOMAIN ue, NEW u \in UEType, ue' = [ue EXCEPT ![o] = u]
    PROVE  /\ ue' \in Seq(UEType) /\ DOMAIN ue' = DOMAIN ue
           /\ \A x \in DOMAIN ue : ue'[x] = IF x = o THEN u ELSE ue[x]
<1>1. DOMAIN ue = 1..Len(ue)
  OBVIOUS
<1> QED BY <1>1, ExceptSeq

\* The parts of TypeOK that a step may change, put together again.
LEMMA TypeAgain ==
    ASSUME JobInv', stored' \subseteq Nodes, last' \in [Nodes -> 0..MaxId], ue' \in Seq(UEType),
           ues' \in [Nodes -> [Numbers -> {NoUE} \cup DOMAIN ue']],
           \A n \in Nodes, i \in Numbers : ues'[n][i] # NoUE => ue'[ues'[n][i]].id = i,
           home' \in [DOMAIN ue' -> HomeType]
    PROVE  TypeOK'
<1>1. \A p \in Requests : \A j \in job'[p] : job'[p] = {j} /\ j.id \in Numbers
  BY DEF JobInv, JobType
<1> QED BY <1>1 DEF TypeOK, UEType, HomeType

(***************************************************************************)
(* Every action preserves the invariant                                    *)
(***************************************************************************)

\* The number of a create that fails is given up.
LEMMA NewContextFailsPreserves ==
    ASSUME Careful, IInv, NEW p \in Requests, NewContextFails(p)
    PROVE  IInv'
<1>0. Types
  BY TypesHold DEF IInv
<1>1. PICK j \in job[p] : /\ j.op = "create" /\ job' = [job EXCEPT ![p] = {}]
                          /\ UNCHANGED <<stored, last, ues, ue, home>>
  BY DEF NewContextFails
<1>2. /\ job[p] = {j} /\ j.node \in Nodes /\ j.id \in Numbers
      /\ job'[p] = {} /\ \A q \in Requests \ {p} : job'[q] = job[q]
      /\ j.op = "create" /\ UNCHANGED <<last, ues, ue, home>>
  BY <1>0, <1>1 DEF IInv, JobInv, Types
<1>3. JobInv'
  BY <1>1 DEF IInv, JobInv
<1>4. TypeOK'
  BY <1>1, <1>3, TypeAgain, UESeq DEF IInv, TypeOK
<1>5. SlotInv'
  BY <1>0, <1>2 DEF IInv, Types, SlotInv
<1>6. KeptInv'
  BY <1>0, <1>2 DEF IInv, Types, KeptInv, Arriving
<1>7. OneMoverInv'
  BY <1>0, <1>2 DEF IInv, Types, OneMoverInv
<1>8. HomeInv'
  BY <1>0, <1>2 DEF IInv, Types, HomeInv, Arriving
<1>9. RANFreeInv'
  BY <1>0, <1>2 DEF IInv, Types, RANFreeInv, SlotInv
<1>10. RANAloneInv'
  BY <1>0, <1>2 DEF IInv, Types, RANAloneInv
<1> QED BY <1>3, <1>4, <1>5, <1>6, <1>7, <1>8, <1>9, <1>10 DEF IInv

\* A refused request leaves its UE where it is.
LEMMA RefusePreserves ==
    ASSUME Careful, IInv, NEW p \in Requests, Refuse(p)
    PROVE  IInv'
<1>0. Types
  BY TypesHold DEF IInv
<1>1. PICK j \in job[p] : /\ j.op \in {"patch", "migrate"} /\ job' = [job EXCEPT ![p] = {}]
                          /\ UNCHANGED <<stored, last, ues, ue, home>>
  BY DEF Refuse
<1>2. /\ job[p] = {j} /\ j.node \in Nodes /\ j.id \in Numbers
      /\ job'[p] = {} /\ \A q \in Requests \ {p} : job'[q] = job[q]
      /\ j.op \in {"patch", "migrate"} /\ UNCHANGED <<last, ues, ue, home>>
  BY <1>0, <1>1 DEF IInv, JobInv, Types
<1>3. JobInv'
  BY <1>1 DEF IInv, JobInv
<1>4. TypeOK'
  BY <1>1, <1>3, TypeAgain, UESeq DEF IInv, TypeOK
<1>5. SlotInv'
  BY <1>0, <1>2 DEF IInv, Types, SlotInv
<1>6. KeptInv'
  BY <1>0, <1>2 DEF IInv, Types, KeptInv, Arriving
<1>7. OneMoverInv'
  BY <1>0, <1>2 DEF IInv, Types, OneMoverInv
<1>8. HomeInv'
  BY <1>0, <1>2 DEF IInv, Types, HomeInv, Arriving
<1>9. RANFreeInv'
  BY <1>0, <1>2 DEF IInv, Types, RANFreeInv, SlotInv
<1>10. RANAloneInv'
  BY <1>0, <1>2 DEF IInv, Types, RANAloneInv
<1> QED BY <1>3, <1>4, <1>5, <1>6, <1>7, <1>8, <1>9, <1>10 DEF IInv

\* A node that leaves the store keeps its map.
LEMMA DeleteNodePreserves ==
    ASSUME Careful, IInv, NEW n \in Nodes, DeleteNode(n)
    PROVE  IInv'
<1>0. Types
  BY TypesHold DEF IInv
<1>1. stored' \subseteq Nodes /\ UNCHANGED <<last, ues, ue, job, home>>
  BY DEF DeleteNode, IInv, TypeOK
<1>2. JobInv'
  BY <1>1 DEF IInv, JobInv
<1>3. TypeOK'
  BY <1>1 DEF IInv, TypeOK
<1>4. SlotInv'
  BY <1>0, <1>1 DEF IInv, Types, SlotInv
<1>5. KeptInv'
  BY <1>0, <1>1 DEF IInv, Types, KeptInv, Arriving
<1>6. OneMoverInv'
  BY <1>0, <1>1 DEF IInv, Types, OneMoverInv
<1>7. HomeInv'
  BY <1>0, <1>1 DEF IInv, Types, HomeInv, Arriving
<1>8. RANFreeInv'
  BY <1>0, <1>1 DEF IInv, Types, RANFreeInv, SlotInv
<1>9. RANAloneInv'
  BY <1>0, <1>1 DEF IInv, Types, RANAloneInv
<1> QED BY <1>2, <1>3, <1>4, <1>5, <1>6, <1>7, <1>8, <1>9 DEF IInv

\* A number that is handed out is above all that are in use.
LEMMA AllocatePreserves ==
    ASSUME Careful, IInv, NEW p \in Requests, NEW n \in Nodes, Allocate(p, n)
    PROVE  IInv'
<1>0. Types
  BY TypesHold DEF IInv
<1> DEFINE i == last[n] + 1
           j == [op |-> "create", node |-> n, id |-> i, ue |-> NoUE]
<1>1. /\ job[p] = {} /\ i \in Numbers /\ last' = [last EXCEPT ![n] = i]
      /\ job' = [job EXCEPT ![p] = {j}] /\ UNCHANGED <<stored, ues, ue, home>>
  BY UERegistryAssumption DEF Allocate, AllocateID, IInv, TypeOK, Numbers
<1>2. j \in JobType /\ last' \in [Nodes -> 0..MaxId]
  BY <1>1, UERegistryAssumption DEF JobType, Ops, NoUE, IInv, TypeOK, Numbers
<1>3. /\ job[p] = {} /\ job'[p] = {j} /\ \A q \in Requests \ {p} : job'[q] = job[q]
      /\ j.op = "create" /\ j.node = n /\ j.id = i /\ i \in Numbers
      /\ last[n] < i /\ last'[n] = i /\ \A m \in Nodes : m # n => last'[m] = last[m]
      /\ UNCHANGED <<ues, ue, home>>
  BY <1>0, <1>1 DEF IInv, JobInv, TypeOK, Types
<1> HIDE DEF i, j
<1>4. JobInv'
  <2>1. job' \in [Requests -> SUBSET JobType]
    BY <1>1, <1>2 DEF IInv, JobInv
  <2>2. \A q \in Requests : \A l \in job'[q] :
          job'[q] = {l} /\ (l.op # "create" => l.ue \in DOMAIN ue' /\ ue'[l.ue].id = l.id)
    BY <1>0, <1>3 DEF Types
  <2> QED BY <2>1, <2>2 DEF JobInv
<1>5. TypeOK'
  BY <1>1, <1>2, <1>4, TypeAgain, UESeq DEF IInv, TypeOK
<1>6. SlotInv'
  <2>1. \A m \in Nodes, x \in Numbers : ues'[m][x] # NoUE => x <= last'[m]
    BY <1>0, <1>3 DEF IInv, Types, SlotInv
  <2>2. ASSUME NEW q \in Requests, NEW l \in job'[q]
        PROVE  /\ l.id <= last'[l.node]
               /\ ues'[l.node][l.id] # NoUE => l.op # "create" /\ ues'[l.node][l.id] = l.ue
    <3>1. CASE q = p
      <4>1. /\ l = j /\ l.node = n /\ l.id = i /\ n \in Nodes
            /\ last'[n] = i /\ last[n] < i /\ i \in Numbers
        BY <1>3, <3>1
      <4>2. ues'[n][i] = NoUE
        BY <1>0, <1>3, <4>1 DEF IInv, SlotInv, Types
      <4> QED BY <1>0, <4>1, <4>2 DEF Types
    <3>2. CASE q # p
      <4>1. l \in job[q] /\ l.node \in Nodes /\ l.id \in Numbers
        BY <1>0, <1>3, <3>2 DEF Types
      <4>2. l.id <= last[l.node] /\ last[l.node] <= last'[l.node]
        BY <1>0, <1>3, <4>1 DEF IInv, SlotInv, Types
      <4>3. last[l.node] \in Nat /\ last'[l.node] \in Nat /\ l.id \in Nat
        BY <1>0, <1>3, <4>1 DEF Types
      <4> QED BY <1>3, <4>1, <4>2, <4>3 DEF IInv, SlotInv
    <3> QED BY <3>1, <3>2
  <2>3. ASSUME NEW q \in Requests, NEW s \in Requests, NEW l \in job'[q], NEW k \in job'[s],
               q # s, l.node = k.node, l.id = k.id
        PROVE  l.op # "create" /\ k.op # "create" /\ l.ue = k.ue
    <3>1. CASE q = p
      BY <1>0, <1>3, <2>3, <3>1 DEF IInv, Types, SlotInv
    <3>2. CASE s = p
      BY <1>0, <1>3, <2>3, <3>2 DEF IInv, Types, SlotInv
    <3>3. CASE q # p /\ s # p
      BY <1>0, <1>3, <2>3, <3>3 DEF IInv, Types, SlotInv
    <3> QED BY <3>1, <3>2, <3>3
  <2> QED BY <2>1, <2>2, <2>3 DEF SlotInv
<1>7. KeptInv'
  BY <1>0, <1>3 DEF IInv, Types, KeptInv, Arriving
<1>8. OneMoverInv'
  BY <1>0, <1>3 DEF IInv, Types, OneMoverInv
<1>9. HomeInv'
  BY <1>0, <1>3 DEF IInv, Types, HomeInv, Arriving
<1>10. RANFreeInv'
  <2> SUFFICES ASSUME NEW m \in Nodes, NEW x \in DOMAIN ue', ues'[m][ue'[x].id] = x,
                      ~home'[x].raced
               PROVE  /\ ue'[x].ran <= last'[m]
                      /\ ue'[x].ran # ue'[x].id =>
                           /\ ues'[m][ue'[x].ran] = NoUE
                           /\ \A q \in Requests : \A l \in job'[q] :
                                ~(l.node = m /\ l.id = ue'[x].ran)
    BY DEF RANFreeInv
  <2>1. /\ ues[m][ue[x].id] = x /\ ~home[x].raced /\ x \in DOMAIN ue
        /\ ue[x].ran \in Nat /\ last[m] \in Nat /\ last'[m] \in Nat
    <3>1. x \in DOMAIN ue /\ ue[x].ran \in Nat /\ last[m] \in Nat
      BY <1>0, <1>3 DEF Types
    <3>2. last'[m] \in Nat
      BY <1>0, <1>3 DEF Types
    <3> QED BY <1>3, <3>1, <3>2
  <2>2. /\ ue[x].ran <= last[m]
        /\ ue[x].ran # ue[x].id =>
             /\ ues[m][ue[x].ran] = NoUE
             /\ \A q \in Requests : \A l \in job[q] : ~(l.node = m /\ l.id = ue[x].ran)
    BY <2>1 DEF IInv, RANFreeInv
  <2>3. last[m] <= last'[m] /\ (m = n => ue[x].ran # i)
    BY <1>0, <1>3, <2>1, <2>2 DEF Types
  <2>4. ASSUME ue[x].ran # ue[x].id, NEW q \in Requests, NEW l \in job'[q]
        PROVE  ~(l.node = m /\ l.id = ue[x].ran)
    BY <1>3, <2>2, <2>3, <2>4
  <2> QED BY <1>3, <2>1, <2>2, <2>3, <2>4
<1>11. RANAloneInv'
  BY <1>0, <1>3 DEF IInv, Types, RANAloneInv
<1> QED BY <1>4, <1>5, <1>6, <1>7, <1>8, <1>9, <1>10, <1>11 DEF IInv

\* A new UE is the only one under its number.
LEMMA CreateUEPreserves ==
    ASSUME Careful, IInv, NEW p \in Requests, CreateUE(p)
    PROVE  IInv'
<1>0. Types
  BY TypesHold DEF IInv
<1> DEFINE o == Len(ue) + 1
<1>1. PICK j \in job[p] :
        /\ j.op = "create" /\ ue' = Append(ue, [id |-> j.id, ran |-> j.id, amf |-> 0])
        /\ ues' = [ues EXCEPT ![j.node][j.id] = o]
        /\ home' = Append(home, [at |-> j.node, moved |-> FALSE, raced |-> FALSE])
        /\ job' = [job EXCEPT ![p] = {}] /\ UNCHANGED <<stored, last>>
  BY DEF CreateUE
<1>2. /\ job[p] = {j} /\ j.node \in Nodes /\ j.id \in Numbers
      /\ job'[p] = {} /\ \A q \in Requests \ {p} : job'[q] = job[q]
      /\ j.op = "create" /\ UNCHANGED last
  BY <1>0, <1>1 DEF IInv, JobInv, Types
<1>3. /\ ue' \in Seq(UEType) /\ Len(ue') = o /\ DOMAIN ue' = DOMAIN ue \cup {o}
      /\ o \notin DOMAIN ue /\ o # NoUE /\ \A x \in DOMAIN ue : ue'[x] = ue[x]
      /\ ue'[o].id = j.id /\ ue'[o].ran = j.id
  <2> DEFINE u == [id |-> j.id, ran |-> j.id, amf |-> 0]
  <2>1. u \in UEType /\ u.id = j.id /\ u.ran = j.id
    BY <1>2, UERegistryAssumption DEF UEType
  <2>2. ue \in Seq(UEType) /\ DOMAIN ue = 1..Len(ue) /\ Len(ue) \in Nat
    BY UESeq DEF IInv
  <2> HIDE DEF u
  <2>3. /\ ue' \in Seq(UEType) /\ Len(ue') = Len(ue) + 1
        /\ \A x \in 1..Len(ue) : ue'[x] = ue[x]
        /\ ue'[Len(ue) + 1] = u
    BY <1>1, <2>1, <2>2, AppendProperties DEF u
  <2>4. DOMAIN ue' = 1..(Len(ue) + 1)
    BY <2>3
  <2> QED BY <2>1, <2>2, <2>3, <2>4 DEF NoUE
<1>4. /\ home' \in [DOMAIN ue' -> HomeType]
      /\ \A x \in DOMAIN ue : home'[x] = home[x]
      /\ home'[o].at = j.node /\ home'[o].raced = FALSE
  <2> DEFINE h == [at |-> j.node, moved |-> FALSE, raced |-> FALSE]
  <2>1. h \in HomeType /\ h.at = j.node /\ h.raced = FALSE
    BY <1>2 DEF HomeType
  <2>2. home \in Seq(HomeType) /\ Len(home) = Len(ue) /\ DOMAIN ue = 1..Len(ue) /\ Len(ue) \in Nat
    BY UESeq DEF IInv
  <2> HIDE DEF h
  <2>3. /\ home' \in Seq(HomeType) /\ Len(home') = Len(home) + 1
        /\ \A x \in 1..Len(home) : home'[x] = home[x]
        /\ home'[Len(home) + 1] = h
    BY <1>1, <2>1, <2>2, AppendProperties DEF h
  <2>4. DOMAIN ue' = 1..Len(home')
    BY <1>3, <2>2, <2>3
  <2>5. home' \in [1..Len(home') -> HomeType]
    BY <2>3
  <2> QED BY <2>1, <2>2, <2>3, <2>4, <2>5
<1>5. /\ ues' \in [Nodes -> [Numbers -> {NoUE} \cup DOMAIN ue']]
      /\ \A n \in Nodes, i \in Numbers :
           ues'[n][i] = IF n = j.node /\ i = j.id THEN o ELSE ues[n][i]
  <2>1. ues \in [Nodes -> [Numbers -> {NoUE} \cup DOMAIN ue]]
    BY DEF IInv, TypeOK
  <2> QED BY <1>1, <1>2, <1>3, <2>1
<1> HIDE DEF o
<1>6. /\ DOMAIN ue' = DOMAIN ue \cup {o} /\ o \notin DOMAIN ue /\ o # NoUE
      /\ \A x \in DOMAIN ue : ue'[x] = ue[x] /\ home'[x] = home[x]
      /\ ue'[o].id = j.id /\ ue'[o].ran = j.id /\ home'[o].at = j.node /\ home'[o].raced = FALSE
      /\ \A n \in Nodes, i \in Numbers :
           ues'[n][i] = IF n = j.node /\ i = j.id THEN o ELSE ues[n][i]
  BY <1>3, <1>4, <1>5
<1>7. \A n \in Nodes, i \in Numbers : ues[n][i] # o
  <2>1. \A n \in Nodes, i \in Numbers : ues[n][i] \in {NoUE} \cup DOMAIN ue
    BY DEF IInv, TypeOK
  <2> QED BY <1>6, <2>1
<1>8. JobInv'
  BY <1>1, <1>2, <1>3 DEF IInv, JobInv
<1>9. TypeOK'
  <2>1. ASSUME NEW n \in Nodes, NEW i \in Numbers, ues'[n][i] # NoUE
        PROVE  ue'[ues'[n][i]].id = i
    <3>1. CASE n = j.node /\ i = j.id
      BY <1>6, <3>1
    <3>2. CASE ~(n = j.node /\ i = j.id)
      BY <1>0, <1>6, <2>1, <3>2 DEF Types
    <3> QED BY <3>1, <3>2
  <2>2. stored' \subseteq Nodes /\ last' \in [Nodes -> 0..MaxId]
    BY <1>1 DEF IInv, TypeOK
  <2>3. /\ ue' \in Seq(UEType) /\ ues' \in [Nodes -> [Numbers -> {NoUE} \cup DOMAIN ue']]
        /\ home' \in [DOMAIN ue' -> HomeType]
    BY <1>1, <1>3, <1>4, <1>5, UESeq DEF IInv
  <2> QED BY <1>8, <2>1, <2>2, <2>3, TypeAgain
<1>10. SlotInv'
  <2>1. \A m \in Nodes, x \in Numbers : ues'[m][x] # NoUE => x <= last'[m]
    BY <1>0, <1>2, <1>6 DEF IInv, Types, SlotInv
  <2>2. ASSUME NEW q \in Requests, NEW l \in job'[q]
        PROVE  /\ l.id <= last'[l.node]
               /\ ues'[l.node][l.id] # NoUE => l.op # "create" /\ ues'[l.node][l.id] = l.ue
    <3>1. q # p /\ l \in job[q] /\ l.node \in Nodes /\ l.id \in Numbers
      BY <1>0, <1>2 DEF Types
    <3>2. ~(l.node = j.node /\ l.id = j.id)
      BY <1>2, <3>1 DEF IInv, SlotInv
    <3>3. ues'[l.node][l.id] = ues[l.node][l.id]
      BY <1>6, <3>1, <3>2
    <3> QED BY <1>2, <3>1, <3>3 DEF IInv, SlotInv
  <2>3. ASSUME NEW q \in Requests, NEW s \in Requests, NEW l \in job'[q], NEW k \in job'[s],
               q # s, l.node = k.node, l.id = k.id
        PROVE  l.op # "create" /\ k.op # "create" /\ l.ue = k.ue
    BY <1>2, <2>3 DEF IInv, SlotInv
  <2> QED BY <2>1, <2>2, <2>3 DEF SlotInv
<1>11. KeptInv'
  <2> SUFFICES ASSUME NEW x \in DOMAIN ue', home'[x].at # Nowhere
               PROVE  x \in Arriving' \/ \E n \in Nodes : ues'[n][ue'[x].id] = x
    BY DEF KeptInv
  <2>1. CASE x = o
    BY <1>2, <1>6, <2>1
  <2>2. CASE x \in DOMAIN ue
    <3>1. ue'[x] = ue[x] /\ home'[x] = home[x] /\ ue[x].id \in Numbers /\ x # NoUE
      BY <1>0, <1>6, <2>2 DEF Types
    <3>2. CASE x \in Arriving
      BY <1>2, <1>6, <3>2 DEF Arriving
    <3>3. CASE x \notin Arriving
      <4>1. PICK n \in Nodes : ues[n][ue[x].id] = x
        BY <2>2, <3>1, <3>3 DEF IInv, KeptInv
      <4>2. ~(n = j.node /\ ue[x].id = j.id)
        BY <1>2, <3>1, <4>1 DEF IInv, SlotInv
      <4> QED BY <1>6, <3>1, <4>1, <4>2
    <3> QED BY <3>2, <3>3
  <2> QED BY <1>6, <2>1, <2>2
<1>12. OneMoverInv'
  <2> SUFFICES ASSUME NEW q \in Requests, NEW l \in job'[q], l.op \in {"migrate", "arrive"},
                      ~home'[l.ue].raced
               PROVE  /\ \A s \in Requests \ {q} : \A k \in job'[s] :
                           ~(k.op \in {"migrate", "arrive"} /\ k.ue = l.ue)
                      /\ l.op = "migrate" => ues'[l.node][l.id] = l.ue
                      /\ l.op = "arrive" => \A n \in Nodes : ues'[n][l.id] # l.ue
    BY DEF OneMoverInv
  <2>1. q # p /\ l \in job[q] /\ l.ue \in DOMAIN ue /\ l.node \in Nodes /\ l.id \in Numbers
    BY <1>0, <1>2 DEF Types
  <2>2. l.ue # o /\ ~home[l.ue].raced /\ \A s \in Requests : \A k \in job'[s] : k \in job[s]
    BY <1>2, <1>6, <2>1
  <2>3. ~(l.node = j.node /\ l.id = j.id)
    BY <1>2, <2>1 DEF IInv, SlotInv
  <2>4. ues'[l.node][l.id] = ues[l.node][l.id]
    BY <1>6, <2>1, <2>3
  <2>5. \A n \in Nodes : ues'[n][l.id] \in {o, ues[n][l.id]}
    BY <1>6, <2>1
  <2> QED BY <2>1, <2>2, <2>4, <2>5 DEF IInv, OneMoverInv
<1>13. HomeInv'
  <2> SUFFICES ASSUME NEW x \in DOMAIN ue', ~home'[x].raced, x \notin Arriving', NEW n \in Nodes
               PROVE  (home'[x].at = n) <=> (ues'[n][ue'[x].id] = x)
    BY DEF HomeInv
  <2>1. CASE x = o
    <3>1. n # j.node => ues[n][j.id] # o
      BY <1>2, <1>7
    <3> QED BY <1>2, <1>6, <2>1, <3>1
  <2>2. CASE x \in DOMAIN ue
    <3>1. ue'[x] = ue[x] /\ home'[x] = home[x] /\ ue[x].id \in Numbers /\ x # NoUE /\ x # o
      BY <1>0, <1>6, <2>2 DEF Types
    <3>2. x \notin Arriving
      BY <1>2, <1>6, <2>2 DEF Arriving
    <3>3. (home[x].at = n) <=> (ues[n][ue[x].id] = x)
      BY <2>2, <3>1, <3>2 DEF IInv, HomeInv
    <3>4. n = j.node /\ ue[x].id = j.id => ues[n][ue[x].id] # x
      BY <1>2, <3>1 DEF IInv, SlotInv
    <3> QED BY <1>6, <3>1, <3>3, <3>4
  <2> QED BY <1>6, <2>1, <2>2
<1>14. RANFreeInv'
  <2> SUFFICES ASSUME NEW m \in Nodes, NEW x \in DOMAIN ue', ues'[m][ue'[x].id] = x,
                      ~home'[x].raced
               PROVE  /\ ue'[x].ran <= last'[m]
                      /\ ue'[x].ran # ue'[x].id =>
                           /\ ues'[m][ue'[x].ran] = NoUE
                           /\ \A q \in Requests : \A l \in job'[q] :
                                ~(l.node = m /\ l.id = ue'[x].ran)
    BY DEF RANFreeInv
  <2>1. CASE x = o
    <3>1. ue'[x].ran = j.id /\ ue'[x].id = j.id /\ j.id <= last[j.node] /\ UNCHANGED last
      BY <1>2, <1>6, <2>1 DEF IInv, SlotInv
    <3>2. m = j.node
      BY <1>2, <1>6, <1>7, <2>1
    <3> QED BY <3>1, <3>2
  <2>2. CASE x \in DOMAIN ue
    <3>1. /\ ue'[x] = ue[x] /\ home'[x] = home[x] /\ x # NoUE /\ x # o
          /\ ue[x].id \in Numbers /\ ue[x].ran \in Numbers
      BY <1>0, <1>6, <2>2 DEF Types
    <3>2. ues[m][ue[x].id] = x
      BY <1>6, <3>1
    <3>3. /\ ue[x].ran <= last[m]
          /\ ue[x].ran # ue[x].id =>
               /\ ues[m][ue[x].ran] = NoUE
               /\ \A q \in Requests : \A l \in job[q] : ~(l.node = m /\ l.id = ue[x].ran)
      BY <2>2, <3>1, <3>2 DEF IInv, RANFreeInv
    <3>4. ue[x].ran # ue[x].id => ues'[m][ue[x].ran] = NoUE
      BY <1>2, <1>6, <3>1, <3>3
    <3>5. \A q \in Requests : \A l \in job'[q] : l \in job[q]
      BY <1>2
    <3> QED BY <1>2, <3>1, <3>3, <3>4, <3>5
  <2> QED BY <1>6, <2>1, <2>2
<1>15. RANAloneInv'
  <2> SUFFICES ASSUME NEW m \in Nodes, NEW x \in DOMAIN ue', NEW y \in DOMAIN ue', x # y,
                      ues'[m][ue'[x].id] = x, ues'[m][ue'[y].id] = y,
                      ~home'[x].raced, ~home'[y].raced, ue'[x].ran = ue'[y].ran
               PROVE  FALSE
    BY DEF RANAloneInv
  <2>1. \A z \in DOMAIN ue : ues'[m][ue'[z].id] = z /\ ~home'[z].raced =>
          /\ ues[m][ue[z].id] = z /\ ~home[z].raced /\ ue'[z] = ue[z] /\ z # NoUE
          /\ ue[z].id \in Numbers /\ ue[z].ran \in Numbers
    <3> TAKE z \in DOMAIN ue
    <3>1. ue[z].id \in Numbers /\ ue[z].ran \in Numbers /\ z # NoUE /\ z # o
      BY <1>0, <1>6 DEF Types
    <3> QED BY <1>6, <3>1
  <2>2. ues'[m][ue'[o].id] = o => m = j.node
    BY <1>2, <1>6, <1>7
  <2>3. \A z \in DOMAIN ue :
          ues'[m][ue'[z].id] = z /\ ~home'[z].raced /\ m = j.node => ue[z].ran # j.id
    <3> SUFFICES ASSUME NEW z \in DOMAIN ue, ues[m][ue[z].id] = z, ~home[z].raced, m = j.node,
                        ue[z].ran = j.id, z # NoUE
                 PROVE  FALSE
      BY <2>1
    <3>1. CASE ue[z].id = j.id
      BY <1>2, <3>1 DEF IInv, SlotInv
    <3>2. CASE ue[z].id # j.id
      BY <1>2, <3>2 DEF IInv, RANFreeInv
    <3> QED BY <3>1, <3>2
  <2>4. CASE x \in DOMAIN ue /\ y \in DOMAIN ue
    BY <2>1, <2>4 DEF IInv, RANAloneInv
  <2>5. CASE x = o /\ y \in DOMAIN ue
    BY <1>6, <2>1, <2>2, <2>3, <2>5
  <2>6. CASE y = o /\ x \in DOMAIN ue
    BY <1>6, <2>1, <2>2, <2>3, <2>6
  <2> QED BY <1>6, <2>4, <2>5, <2>6
<1> QED BY <1>8, <1>9, <1>10, <1>11, <1>12, <1>13, <1>14, <1>15 DEF IInv

\* A request that finds a UE agrees with all others at its number.
LEMMA GetUEPreserves ==
    ASSUME Careful, IInv, NEW p \in Requests, NEW n \in Nodes, NEW i \in Numbers,
           NEW op \in {"patch", "migrate"}, GetUE(p, n, i, op)
    PROVE  IInv'
<1>0. Types
  BY TypesHold DEF IInv
<1> DEFINE o == ues[n][i]
           j == [op |-> op, node |-> n, id |-> i, ue |-> o]
<1>1. /\ o # NoUE /\ o \in DOMAIN ue /\ ue[o].id = i /\ job[p] = {}
      /\ job' = [job EXCEPT ![p] = {j}] /\ UNCHANGED <<stored, last, ues, ue>>
  BY <1>0 DEF GetUE, Types
<1>2. j \in JobType
  BY <1>1, UESeq DEF JobType, Ops, IInv
<1>3. /\ home' \in [DOMAIN ue -> HomeType]
      /\ \A x \in DOMAIN ue : home'[x].at = home[x].at /\ (home[x].raced => home'[x].raced)
      /\ op = "migrate" /\ ~home'[o].raced =>
           \A q \in Requests : \A k \in job[q] : k.ue = o => k.op = "patch"
  <2>1. PICK b \in BOOLEAN : /\ home' = [home EXCEPT ![o].raced = @ \/ b]
                             /\ b <=> (op = "migrate" /\ Moving(o))
    BY DEF GetUE, Moving
  <2>2. op = "migrate" /\ ~b => \A q \in Requests : \A k \in job[q] : k.ue = o => k.op = "patch"
    BY <2>1 DEF Moving, Jobs
  <2>3. home \in [DOMAIN ue -> HomeType]
    BY UESeq DEF IInv
  <2> QED BY <1>1, <2>1, <2>2, <2>3 DEF HomeType
<1>4. /\ job[p] = {} /\ job'[p] = {j} /\ \A q \in Requests \ {p} : job'[q] = job[q]
      /\ j.op = op /\ j.node = n /\ j.id = i /\ j.ue = o /\ op \in {"patch", "migrate"}
      /\ o # NoUE /\ o \in DOMAIN ue /\ ue[o].id = i /\ ues[n][i] = o
      /\ \A x \in DOMAIN ue : home'[x].at = home[x].at /\ (home[x].raced => home'[x].raced)
      /\ op = "migrate" /\ ~home'[o].raced =>
           \A q \in Requests : \A k \in job[q] : k.ue = o => k.op = "patch"
      /\ UNCHANGED <<last, ues, ue>>
  BY <1>1, <1>3 DEF IInv, JobInv
<1> HIDE DEF o, j
<1>5. JobInv'
  BY <1>0, <1>1, <1>2, <1>4 DEF IInv, JobInv
<1>6. TypeOK'
  BY <1>1, <1>3, <1>5, TypeAgain, UESeq DEF IInv, TypeOK
<1>7. SlotInv'
  BY <1>0, <1>4 DEF IInv, Types, SlotInv
<1>8. KeptInv'
  BY <1>0, <1>4 DEF IInv, Types, KeptInv, Arriving
<1>9. OneMoverInv'
  BY <1>0, <1>4 DEF IInv, Types, OneMoverInv
<1>10. HomeInv'
  BY <1>0, <1>4 DEF IInv, Types, HomeInv, Arriving
<1>11. RANFreeInv'
  BY <1>0, <1>4 DEF IInv, Types, RANFreeInv, SlotInv
<1>12. RANAloneInv'
  BY <1>0, <1>4 DEF IInv, Types, RANAloneInv
<1> QED BY <1>5, <1>6, <1>7, <1>8, <1>9, <1>10, <1>11, <1>12 DEF IInv

\* PATCH changes no number and no RAN id.
LEMMA PatchUEPreserves ==
    ASSUME Careful, IInv, NEW p \in Requests, PatchUE(p)
    PROVE  IInv'
<1>0. Types
  BY TypesHold DEF IInv
<1>1. PICK j \in job[p], a \in AMFIDs :
        /\ j.op = "patch" /\ ue' = [ue EXCEPT ![j.ue].amf = a] /\ job' = [job EXCEPT ![p] = {}]
        /\ UNCHANGED <<stored, last, ues, home>>
  BY DEF PatchUE
<1>2. /\ job[p] = {j} /\ j.node \in Nodes /\ j.id \in Numbers
      /\ job'[p] = {} /\ \A q \in Requests \ {p} : job'[q] = job[q]
      /\ j.ue \in DOMAIN ue /\ j.ue # NoUE /\ ue[j.ue].id = j.id
      /\ j.op = "patch" /\ UNCHANGED <<last, ues, home>>
  BY <1>0, <1>1 DEF IInv, JobInv, Types
<1>3. /\ ue' \in Seq(UEType) /\ DOMAIN ue' = DOMAIN ue
      /\ \A o \in DOMAIN ue : ue'[o].id = ue[o].id /\ ue'[o].ran = ue[o].ran
  <2> DEFINE u == [ue[j.ue] EXCEPT !.amf = a]
  <2>1. ue \in Seq(UEType) /\ ue[j.ue] \in UEType
    BY <1>2, UESeq DEF IInv
  <2>2. u \in UEType /\ u.id = ue[j.ue].id /\ u.ran = ue[j.ue].ran
    BY <2>1 DEF UEType
  <2>3. ue' = [ue EXCEPT ![j.ue] = u]
    BY <1>1
  <2> HIDE DEF u
  <2> QED BY <1>2, <2>1, <2>2, <2>3, UEUpdate
<1>4. /\ DOMAIN ue' = DOMAIN ue
      /\ \A o \in DOMAIN ue : ue'[o].id = ue[o].id /\ ue'[o].ran = ue[o].ran
  BY <1>3
<1>5. JobInv'
  BY <1>1, <1>2, <1>4 DEF IInv, JobInv
<1>6. TypeOK'
  <2>1. \A n \in Nodes, i \in Numbers : ues'[n][i] # NoUE => ue'[ues'[n][i]].id = i
    BY <1>0, <1>2, <1>4 DEF Types
  <2>2. stored' \subseteq Nodes /\ last' \in [Nodes -> 0..MaxId]
    BY <1>1 DEF IInv, TypeOK
  <2>3. /\ ue' \in Seq(UEType) /\ ues' \in [Nodes -> [Numbers -> {NoUE} \cup DOMAIN ue']]
        /\ home' \in [DOMAIN ue' -> HomeType]
    BY <1>1, <1>3, UESeq DEF IInv, TypeOK
  <2> QED BY <1>5, <2>1, <2>2, <2>3, TypeAgain
<1>7. SlotInv'
  BY <1>0, <1>2, <1>4 DEF IInv, Types, SlotInv
<1>8. KeptInv'
  BY <1>0, <1>2, <1>4 DEF IInv, Types, KeptInv, Arriving
<1>9. OneMoverInv'
  BY <1>0, <1>2, <1>4 DEF IInv, Types, OneMoverInv
<1>10. HomeInv'
  BY <1>0, <1>2, <1>4 DEF IInv, Types, HomeInv, Arriving
<1>11. RANFreeInv'
  BY <1>0, <1>2, <1>4 DEF IInv, Types, RANFreeInv, SlotInv
<1>12. RANAloneInv'
  BY <1>0, <1>2, <1>4 DEF IInv, Types, RANAloneInv
<1> QED BY <1>5, <1>6, <1>7, <1>8, <1>9, <1>10, <1>11, <1>12 DEF IInv

\* What a request takes out of a map is its own UE, if anything.
LEMMA DepartPreserves ==
    ASSUME Careful, IInv, NEW p \in Requests, NEW target \in Nodes, Depart(p, target)
    PROVE  IInv'
<1>0. Types
  BY TypesHold DEF IInv
<1>1. PICK j \in job[p] :
        /\ j.op = "migrate" /\ (target = j.node \/ Free(target, ue[j.ue].id))
        /\ ues' = [ues EXCEPT ![j.node][ue[j.ue].id] = NoUE]
        /\ job' = [job EXCEPT ![p] = {[j EXCEPT !.op = "arrive", !.node = target]}]
        /\ UNCHANGED <<stored, last, ue, home>>
  BY DEF Depart, WithoutUE
<1>2. /\ job[p] = {j} /\ j.node \in Nodes /\ j.id \in Numbers
      /\ j.ue \in DOMAIN ue /\ j.ue # NoUE /\ ue[j.ue].id = j.id
      /\ j.op = "migrate" /\ UNCHANGED <<last, ue, home>>
  BY <1>0, <1>1 DEF Types
<1> DEFINE k == [j EXCEPT !.op = "arrive", !.node = target]
<1>3. k \in JobType /\ k.op = "arrive" /\ k.node = target /\ k.id = j.id /\ k.ue = j.ue
  <2>1. j \in JobType
    BY DEF IInv, JobInv
  <2> QED BY <2>1 DEF JobType, Ops
<1>4. /\ job'[p] = {k} /\ \A q \in Requests \ {p} : job'[q] = job[q]
      /\ k.op = "arrive" /\ k.node = target /\ k.id = j.id /\ k.ue = j.ue
  BY <1>1, <1>3 DEF IInv, JobInv
<1>5. /\ ues' \in [Nodes -> [Numbers -> {NoUE} \cup DOMAIN ue]]
      /\ \A n \in Nodes, i \in Numbers :
           ues'[n][i] = IF n = j.node /\ i = j.id THEN NoUE ELSE ues[n][i]
  <2>1. ues \in [Nodes -> [Numbers -> {NoUE} \cup DOMAIN ue]]
    BY DEF IInv, TypeOK
  <2> QED BY <1>1, <1>2, <2>1
<1>6. \A n \in Nodes, i \in Numbers :
        ues'[n][i] = IF n = j.node /\ i = j.id THEN NoUE ELSE ues[n][i]
  BY <1>5
<1>7. target # j.node =>
        /\ j.id <= last[target] /\ ues[target][j.id] = NoUE
        /\ \A i \in Numbers : ues[target][i] # NoUE => ue[ues[target][i]].ran # j.id
        /\ \A q \in Requests : \A l \in job[q] : ~(l.node = target /\ l.id = j.id)
  <2> SUFFICES ASSUME Free(target, j.id)
               PROVE  /\ j.id <= last[target] /\ ues[target][j.id] = NoUE
                      /\ \A i \in Numbers : ues[target][i] # NoUE => ue[ues[target][i]].ran # j.id
                      /\ \A q \in Requests : \A l \in job[q] : ~(l.node = target /\ l.id = j.id)
    BY <1>1, <1>2
  <2> QED BY DEF Free, Jobs
<1> HIDE DEF k
<1>8. JobInv'
  <2>1. job' \in [Requests -> SUBSET JobType]
    BY <1>1, <1>3 DEF IInv, JobInv, k
  <2>2. \A q \in Requests : \A l \in job'[q] :
          job'[q] = {l} /\ (l.op # "create" => l.ue \in DOMAIN ue' /\ ue'[l.ue].id = l.id)
    BY <1>0, <1>2, <1>4 DEF Types
  <2> QED BY <2>1, <2>2 DEF JobInv
<1>9. TypeOK'
  <2>1. ASSUME NEW n \in Nodes, NEW i \in Numbers, ues'[n][i] # NoUE
        PROVE  ue'[ues'[n][i]].id = i
    <3>1. ues'[n][i] = ues[n][i] /\ UNCHANGED ue
      BY <1>2, <1>6, <2>1
    <3> QED BY <1>0, <2>1, <3>1 DEF Types
  <2>2. stored' \subseteq Nodes /\ last' \in [Nodes -> 0..MaxId]
    BY <1>1 DEF IInv, TypeOK
  <2>3. /\ ue' \in Seq(UEType) /\ ues' \in [Nodes -> [Numbers -> {NoUE} \cup DOMAIN ue']]
        /\ home' \in [DOMAIN ue' -> HomeType]
    BY <1>1, <1>5, UESeq DEF IInv
  <2> QED BY <1>8, <2>1, <2>2, <2>3, TypeAgain
<1>10. SlotInv'
  <2>1. \A m \in Nodes, x \in Numbers : ues'[m][x] # NoUE => x <= last'[m]
    BY <1>0, <1>2, <1>6 DEF IInv, Types, SlotInv
  <2>2. ASSUME NEW q \in Requests, NEW l \in job'[q]
        PROVE  /\ l.id <= last'[l.node]
               /\ ues'[l.node][l.id] # NoUE => l.op # "create" /\ ues'[l.node][l.id] = l.ue
    <3>1. CASE q = p
      <4>1. l = k /\ l.node = target /\ l.id = j.id /\ l.ue = j.ue /\ l.op # "create"
        BY <1>4, <3>1
      <4>2. CASE target = j.node
        BY <1>2, <1>6, <4>1, <4>2 DEF IInv, SlotInv
      <4>3. CASE target # j.node
        BY <1>2, <1>6, <1>7, <4>1, <4>3
      <4> QED BY <4>2, <4>3
    <3>2. CASE q # p
      <4>1. l \in job[q] /\ l.node \in Nodes /\ l.id \in Numbers
        BY <1>0, <1>4, <3>2 DEF Types
      <4>2. ues'[l.node][l.id] \in {NoUE, ues[l.node][l.id]}
        BY <1>6, <4>1
      <4> QED BY <1>2, <4>1, <4>2 DEF IInv, SlotInv
    <3> QED BY <3>1, <3>2
  <2>3. ASSUME NEW q \in Requests, NEW s \in Requests, NEW l \in job'[q], NEW w \in job'[s],
               q # s, l.node = w.node, l.id = w.id
        PROVE  l.op # "create" /\ w.op # "create" /\ l.ue = w.ue
    <3>1. ASSUME NEW t \in Requests, NEW z \in job'[t], t # p, z.node = target, z.id = j.id
          PROVE  z.op # "create" /\ z.ue = j.ue
      <4>1. z \in job[t]
        BY <1>4, <3>1
      <4>2. target = j.node
        BY <1>7, <3>1, <4>1
      <4> QED BY <1>2, <3>1, <4>1, <4>2 DEF IInv, SlotInv
    <3>2. CASE q = p
      BY <1>4, <2>3, <3>1, <3>2
    <3>3. CASE s = p
      BY <1>4, <2>3, <3>1, <3>3
    <3>4. CASE q # p /\ s # p
      BY <1>4, <2>3, <3>4 DEF IInv, SlotInv
    <3> QED BY <3>2, <3>3, <3>4
  <2> QED BY <2>1, <2>2, <2>3 DEF SlotInv
<1>11. KeptInv'
  <2> SUFFICES ASSUME NEW x \in DOMAIN ue, home[x].at # Nowhere
               PROVE  x \in Arriving' \/ \E n \in Nodes : ues'[n][ue[x].id] = x
    BY <1>2 DEF KeptInv
  <2>1. CASE x = j.ue
    BY <1>2, <1>4, <2>1 DEF Arriving
  <2>2. CASE x # j.ue
    <3>1. CASE x \in Arriving
      <4>1. PICK q \in Requests : \E l \in job[q] : l.op = "arrive" /\ l.ue = x
        BY <3>1 DEF Arriving
      <4>2. q # p /\ job'[q] = job[q]
        BY <1>2, <1>4, <4>1
      <4> QED BY <1>2, <4>1, <4>2 DEF Arriving
    <3>2. CASE x \notin Arriving
      <4>1. PICK n \in Nodes : ues[n][ue[x].id] = x
        BY <3>2 DEF IInv, KeptInv
      <4>2. ue[x].id \in Numbers /\ x # NoUE
        BY <1>0 DEF Types
      <4>3. ~(n = j.node /\ ue[x].id = j.id)
        BY <1>2, <2>2, <4>1, <4>2 DEF IInv, SlotInv
      <4> QED BY <1>6, <4>1, <4>2, <4>3
    <3> QED BY <3>1, <3>2
  <2> QED BY <2>1, <2>2
<1>12. OneMoverInv'
  <2> SUFFICES ASSUME NEW q \in Requests, NEW l \in job'[q], l.op \in {"migrate", "arrive"},
                      ~home[l.ue].raced
               PROVE  /\ \A s \in Requests \ {q} : \A w \in job'[s] :
                           ~(w.op \in {"migrate", "arrive"} /\ w.ue = l.ue)
                      /\ l.op = "migrate" => ues'[l.node][l.id] = l.ue
                      /\ l.op = "arrive" => \A n \in Nodes : ues'[n][l.id] # l.ue
    BY <1>2 DEF OneMoverInv
  <2>1. ~home[j.ue].raced =>
          /\ \A s \in Requests \ {p} : \A w \in job[s] :
               ~(w.op \in {"migrate", "arrive"} /\ w.ue = j.ue)
          /\ ues[j.node][j.id] = j.ue
    BY <1>2 DEF IInv, OneMoverInv
  <2>2. CASE q = p
    <3>1. l.op = "arrive" /\ l.id = j.id /\ l.ue = j.ue
      BY <1>4, <2>2
    <3>2. \A s \in Requests \ {p} : \A w \in job'[s] :
            ~(w.op \in {"migrate", "arrive"} /\ w.ue = l.ue)
      BY <1>4, <2>1, <3>1
    <3>3. j.ue \notin Arriving
      BY <1>2, <2>1, <3>1 DEF Arriving
    <3>4. \A n \in Nodes : (home[j.ue].at = n) <=> (ues[n][j.id] = j.ue)
      BY <1>2, <3>1, <3>3 DEF IInv, HomeInv
    <3>5. \A n \in Nodes : ues'[n][j.id] # j.ue
      BY <1>2, <1>6, <2>1, <3>1, <3>4
    <3> QED BY <2>2, <3>1, <3>2, <3>5
  <2>3. CASE q # p
    <3>1. l \in job[q] /\ l.ue \in DOMAIN ue /\ l.node \in Nodes /\ l.id \in Numbers /\ l.ue # NoUE
      BY <1>0, <1>4, <2>3 DEF Types
    <3>2. l.ue # j.ue
      BY <1>2, <2>1, <2>3, <3>1
    <3>3. /\ \A s \in Requests \ {q} : \A w \in job[s] :
               ~(w.op \in {"migrate", "arrive"} /\ w.ue = l.ue)
          /\ l.op = "migrate" => ues[l.node][l.id] = l.ue
          /\ l.op = "arrive" => \A n \in Nodes : ues[n][l.id] # l.ue
      BY <3>1 DEF IInv, OneMoverInv
    <3>4. \A s \in Requests \ {q} : \A w \in job'[s] :
            ~(w.op \in {"migrate", "arrive"} /\ w.ue = l.ue)
      BY <1>4, <3>2, <3>3
    <3>5. l.op = "migrate" => ~(l.node = j.node /\ l.id = j.id)
      BY <1>2, <3>1, <3>2, <3>3 DEF IInv, SlotInv
    <3> QED BY <1>6, <3>1, <3>3, <3>4, <3>5
  <2> QED BY <2>2, <2>3
<1>13. HomeInv'
  <2> SUFFICES ASSUME NEW x \in DOMAIN ue, ~home[x].raced, x \notin Arriving', NEW n \in Nodes
               PROVE  (home[x].at = n) <=> (ues'[n][ue[x].id] = x)
    BY <1>2 DEF HomeInv
  <2>1. x # j.ue
    BY <1>2, <1>4 DEF Arriving
  <2>2. x \notin Arriving
    <3> SUFFICES ASSUME NEW q \in Requests, NEW l \in job[q], l.op = "arrive", l.ue = x
                 PROVE  FALSE
      BY DEF Arriving
    <3>1. q # p /\ l \in job'[q]
      BY <1>2, <1>4
    <3> QED BY <1>2, <3>1 DEF Arriving
  <2>3. (home[x].at = n) <=> (ues[n][ue[x].id] = x)
    BY <2>2 DEF IInv, HomeInv
  <2>4. ue[x].id \in Numbers /\ x # NoUE
    BY <1>0 DEF Types
  <2>5. n = j.node /\ ue[x].id = j.id => ues[n][ue[x].id] # x
    BY <1>2, <2>1, <2>4 DEF IInv, SlotInv
  <2> QED BY <1>6, <2>3, <2>4, <2>5
<1>14. RANFreeInv'
  <2> SUFFICES ASSUME NEW m \in Nodes, NEW x \in DOMAIN ue', ues'[m][ue'[x].id] = x,
                      ~home'[x].raced
               PROVE  /\ ue'[x].ran <= last'[m]
                      /\ ue'[x].ran # ue'[x].id =>
                           /\ ues'[m][ue'[x].ran] = NoUE
                           /\ \A q \in Requests : \A l \in job'[q] :
                                ~(l.node = m /\ l.id = ue'[x].ran)
    BY DEF RANFreeInv
  <2>1. /\ x \in DOMAIN ue /\ ~home[x].raced /\ x # NoUE /\ UNCHANGED <<ue, last>>
        /\ ue[x].id \in Numbers /\ ue[x].ran \in Numbers
    BY <1>0, <1>2 DEF Types
  <2>2. ues[m][ue[x].id] = x
    BY <1>6, <2>1
  <2>3. /\ ue[x].ran <= last[m]
        /\ ue[x].ran # ue[x].id =>
             /\ ues[m][ue[x].ran] = NoUE
             /\ \A q \in Requests : \A l \in job[q] : ~(l.node = m /\ l.id = ue[x].ran)
    BY <2>1, <2>2 DEF IInv, RANFreeInv
  <2>4. ue[x].ran # ue[x].id => ues'[m][ue[x].ran] = NoUE
    BY <1>6, <2>1, <2>3
  <2>5. ASSUME ue[x].ran # ue[x].id, NEW q \in Requests, NEW l \in job'[q],
               l.node = m, l.id = ue[x].ran
        PROVE  FALSE
    <3>1. CASE q = p /\ target = j.node
      BY <1>4, <2>3, <2>5, <3>1
    <3>2. CASE q = p /\ target # j.node
      BY <1>4, <1>7, <2>1, <2>2, <2>5, <3>2
    <3>3. CASE q # p
      BY <1>4, <2>3, <2>5, <3>3
    <3> QED BY <3>1, <3>2, <3>3
  <2> QED BY <2>1, <2>3, <2>4, <2>5
<1>15. RANAloneInv'
  <2> SUFFICES ASSUME NEW m \in Nodes, NEW x \in DOMAIN ue', NEW y \in DOMAIN ue', x # y,
                      ues'[m][ue'[x].id] = x, ues'[m][ue'[y].id] = y,
                      ~home'[x].raced, ~home'[y].raced, ue'[x].ran = ue'[y].ran
               PROVE  FALSE
    BY DEF RANAloneInv
  <2>1. \A z \in DOMAIN ue : ues'[m][ue[z].id] = z => ues[m][ue[z].id] = z
    <3> TAKE z \in DOMAIN ue
    <3>1. ue[z].id \in Numbers /\ z # NoUE
      BY <1>0 DEF Types
    <3> QED BY <1>6, <3>1
  <2> QED BY <1>2, <2>1 DEF IInv, RANAloneInv
<1> QED BY <1>8, <1>9, <1>10, <1>11, <1>12, <1>13, <1>14, <1>15 DEF IInv

\* What a request puts into a map meets nothing there but the same UE.
LEMMA ArrivePreserves ==
    ASSUME Careful, IInv, NEW p \in Requests, Arrive(p)
    PROVE  IInv'
<1>0. Types
  BY TypesHold DEF IInv
<1>1. PICK j \in job[p] :
        /\ j.op = "arrive"
        /\ \E r \in Numbers \cup {ue[j.ue].ran}, a \in AMFIDs \cup {ue[j.ue].amf} :
             /\ Careful => r = ue[j.ue].id \/ Free(j.node, r)
             /\ ue' = [ue EXCEPT ![j.ue].ran = r, ![j.ue].amf = a]
             /\ ues' = [ues EXCEPT ![j.node][Key(ue'[j.ue])] = j.ue]
        /\ home' = [home EXCEPT ![j.ue].at = j.node, ![j.ue].moved = TRUE]
        /\ job' = [job EXCEPT ![p] = {}] /\ UNCHANGED <<stored, last>>
  BY DEF Arrive
<1>2. /\ job[p] = {j} /\ j.node \in Nodes /\ j.id \in Numbers
      /\ job'[p] = {} /\ \A q \in Requests \ {p} : job'[q] = job[q]
      /\ j.ue \in DOMAIN ue /\ j.ue # NoUE /\ ue[j.ue].id = j.id
      /\ j.op = "arrive" /\ UNCHANGED last
  BY <1>0, <1>1 DEF IInv, JobInv, Types
<1>3. /\ ue \in Seq(UEType) /\ ue[j.ue] \in UEType
      /\ ue[j.ue].ran \in Numbers /\ ue[j.ue].amf \in AMFIDs
  BY <1>2, UESeq DEF IInv, UEType
<1>4. PICK r \in Numbers, a \in AMFIDs :
        /\ r = j.id \/ Free(j.node, r)
        /\ ue' = [ue EXCEPT ![j.ue].ran = r, ![j.ue].amf = a]
        /\ ues' = [ues EXCEPT ![j.node][Key(ue'[j.ue])] = j.ue]
  <2>1. PICK r \in Numbers \cup {ue[j.ue].ran}, a \in AMFIDs \cup {ue[j.ue].amf} :
          /\ Careful => r = ue[j.ue].id \/ Free(j.node, r)
          /\ ue' = [ue EXCEPT ![j.ue].ran = r, ![j.ue].amf = a]
          /\ ues' = [ues EXCEPT ![j.node][Key(ue'[j.ue])] = j.ue]
    BY <1>1
  <2>2. r \in Numbers /\ a \in AMFIDs /\ (r = j.id \/ Free(j.node, r))
    BY <1>2, <1>3, <2>1
  <2> QED BY <2>1, <2>2
<1>5. /\ ue' \in Seq(UEType) /\ DOMAIN ue' = DOMAIN ue /\ ue'[j.ue].ran = r
      /\ \A o \in DOMAIN ue : ue'[o].id = ue[o].id /\ (o # j.ue => ue'[o].ran = ue[o].ran)
  <2> DEFINE u == [ue[j.ue] EXCEPT !.ran = r, !.amf = a]
  <2>1. u \in UEType /\ u.ran = r /\ u.id = ue[j.ue].id
    BY <1>3, <1>4 DEF UEType
  <2>2. ue' = [ue EXCEPT ![j.ue] = u]
    BY <1>4
  <2> HIDE DEF u
  <2> QED BY <1>2, <1>3, <2>1, <2>2, UEUpdate
<1>6. /\ ues' \in [Nodes -> [Numbers -> {NoUE} \cup DOMAIN ue]]
      /\ \A n \in Nodes, i \in Numbers :
           ues'[n][i] = IF n = j.node /\ i = j.id THEN j.ue ELSE ues[n][i]
  <2>1. ues \in [Nodes -> [Numbers -> {NoUE} \cup DOMAIN ue]]
    BY DEF IInv, TypeOK
  <2>2. ues' = [ues EXCEPT ![j.node][j.id] = j.ue]
    BY <1>2, <1>4, <1>5 DEF Key
  <2> QED BY <1>2, <2>1, <2>2
<1>7. /\ home' \in [DOMAIN ue -> HomeType]
      /\ \A o \in DOMAIN ue : /\ home'[o].raced = home[o].raced
                              /\ home'[o].at = IF o = j.ue THEN j.node ELSE home[o].at
  <2>1. home \in [DOMAIN ue -> HomeType]
    BY UESeq DEF IInv
  <2> QED BY <1>1, <1>2, <2>1 DEF HomeType
<1>8. /\ DOMAIN ue' = DOMAIN ue /\ ue'[j.ue].ran = r
      /\ \A o \in DOMAIN ue : ue'[o].id = ue[o].id /\ (o # j.ue => ue'[o].ran = ue[o].ran)
      /\ \A n \in Nodes, i \in Numbers :
           ues'[n][i] = IF n = j.node /\ i = j.id THEN j.ue ELSE ues[n][i]
      /\ \A o \in DOMAIN ue : /\ home'[o].raced = home[o].raced
                              /\ home'[o].at = IF o = j.ue THEN j.node ELSE home[o].at
  BY <1>5, <1>6, <1>7
<1>9. r # j.id =>
        /\ r <= last[j.node] /\ ues[j.node][r] = NoUE
        /\ \A i \in Numbers : ues[j.node][i] # NoUE => ue[ues[j.node][i]].ran # r
        /\ \A q \in Requests : \A l \in job[q] : ~(l.node = j.node /\ l.id = r)
  BY <1>4 DEF Free, Jobs
<1>10. JobInv'
  BY <1>1, <1>2, <1>8 DEF IInv, JobInv
<1>11. TypeOK'
  <2>1. \A n \in Nodes, i \in Numbers : ues'[n][i] # NoUE => ue'[ues'[n][i]].id = i
    BY <1>0, <1>2, <1>8 DEF Types
  <2>2. stored' \subseteq Nodes /\ last' \in [Nodes -> 0..MaxId]
    BY <1>1 DEF IInv, TypeOK
  <2>3. /\ ue' \in Seq(UEType) /\ ues' \in [Nodes -> [Numbers -> {NoUE} \cup DOMAIN ue']]
        /\ home' \in [DOMAIN ue' -> HomeType]
    BY <1>1, <1>5, <1>6, <1>7, UESeq DEF IInv
  <2> QED BY <1>10, <2>1, <2>2, <2>3, TypeAgain
<1>12. SlotInv'
  <2>1. \A m \in Nodes, x \in Numbers : ues'[m][x] # NoUE => x <= last'[m]
    BY <1>0, <1>2, <1>8 DEF IInv, Types, SlotInv
  <2>2. ASSUME NEW q \in Requests, NEW l \in job'[q]
        PROVE  /\ l.id <= last'[l.node]
               /\ ues'[l.node][l.id] # NoUE => l.op # "create" /\ ues'[l.node][l.id] = l.ue
    <3>1. q # p /\ l \in job[q] /\ l.node \in Nodes /\ l.id \in Numbers
      BY <1>0, <1>2 DEF Types
    <3>2. CASE l.node = j.node /\ l.id = j.id
      BY <1>2, <1>8, <3>1, <3>2 DEF IInv, SlotInv
    <3>3. CASE ~(l.node = j.node /\ l.id = j.id)
      BY <1>2, <1>8, <3>1, <3>3 DEF IInv, SlotInv
    <3> QED BY <3>2, <3>3
  <2>3. ASSUME NEW q \in Requests, NEW s \in Requests, NEW l \in job'[q], NEW k \in job'[s],
               q # s, l.node = k.node, l.id = k.id
        PROVE  l.op # "create" /\ k.op # "create" /\ l.ue = k.ue
    BY <1>2, <2>3 DEF IInv, SlotInv
  <2> QED BY <2>1, <2>2, <2>3 DEF SlotInv
<1>13. KeptInv'
  <2> SUFFICES ASSUME NEW x \in DOMAIN ue, home'[x].at # Nowhere
               PROVE  x \in Arriving' \/ \E n \in Nodes : ues'[n][ue[x].id] = x
    BY <1>8 DEF KeptInv
  <2>1. CASE x = j.ue
    BY <1>2, <1>8, <2>1
  <2>2. CASE x # j.ue
    <3>1. CASE x \in Arriving
      <4>1. PICK q \in Requests : \E l \in job[q] : l.op = "arrive" /\ l.ue = x
        BY <3>1 DEF Arriving
      <4>2. q # p /\ job'[q] = job[q]
        BY <1>2, <2>2, <4>1
      <4> QED BY <1>8, <4>1, <4>2 DEF Arriving
    <3>2. CASE x \notin Arriving
      <4>1. home[x].at # Nowhere
        BY <1>8, <2>2
      <4>2. PICK n \in Nodes : ues[n][ue[x].id] = x
        BY <3>2, <4>1 DEF IInv, KeptInv
      <4>3. ue[x].id \in Numbers /\ x # NoUE
        BY <1>0 DEF Types
      <4>4. ~(n = j.node /\ ue[x].id = j.id)
        BY <1>2, <2>2, <4>2, <4>3 DEF IInv, SlotInv
      <4> QED BY <1>8, <4>2, <4>3, <4>4
    <3> QED BY <3>1, <3>2
  <2> QED BY <2>1, <2>2
<1>14. OneMoverInv'
  <2> SUFFICES ASSUME NEW q \in Requests, NEW l \in job'[q], l.op \in {"migrate", "arrive"},
                      ~home'[l.ue].raced
               PROVE  /\ \A s \in Requests \ {q} : \A w \in job'[s] :
                           ~(w.op \in {"migrate", "arrive"} /\ w.ue = l.ue)
                      /\ l.op = "migrate" => ues'[l.node][l.id] = l.ue
                      /\ l.op = "arrive" => \A n \in Nodes : ues'[n][l.id] # l.ue
    BY DEF OneMoverInv
  <2>1. q # p /\ l \in job[q] /\ l.ue \in DOMAIN ue /\ l.node \in Nodes /\ l.id \in Numbers
    BY <1>0, <1>2 DEF Types
  <2>2. ~home[l.ue].raced
    BY <1>8, <2>1
  <2>3. /\ \A s \in Requests \ {q} : \A w \in job[s] :
             ~(w.op \in {"migrate", "arrive"} /\ w.ue = l.ue)
        /\ l.op = "migrate" => ues[l.node][l.id] = l.ue
        /\ l.op = "arrive" => \A n \in Nodes : ues[n][l.id] # l.ue
    BY <2>1, <2>2 DEF IInv, OneMoverInv
  <2>4. l.ue # j.ue
    BY <1>2, <2>1, <2>3
  <2>5. \A s \in Requests \ {q} : \A w \in job'[s] :
            ~(w.op \in {"migrate", "arrive"} /\ w.ue = l.ue)
    BY <1>2, <2>3
  <2>6. l.op = "migrate" => ~(l.node = j.node /\ l.id = j.id)
    BY <1>2, <2>1, <2>4 DEF IInv, SlotInv
  <2> QED BY <1>8, <2>1, <2>3, <2>4, <2>5, <2>6
<1>15. HomeInv'
  <2> SUFFICES ASSUME NEW x \in DOMAIN ue, ~home[x].raced, x \notin Arriving', NEW n \in Nodes
               PROVE  (home'[x].at = n) <=> (ues'[n][ue[x].id] = x)
    BY <1>8 DEF HomeInv
  <2>1. CASE x = j.ue
    <3>1. \A m \in Nodes : ues[m][j.id] # j.ue
      BY <1>2, <2>1 DEF IInv, OneMoverInv
    <3> QED BY <1>2, <1>8, <2>1, <3>1
  <2>2. CASE x # j.ue
    <3>1. x \notin Arriving
      <4> SUFFICES ASSUME NEW q \in Requests, NEW l \in job[q], l.op = "arrive", l.ue = x
                   PROVE  FALSE
        BY DEF Arriving
      <4>1. q # p /\ l \in job'[q]
        BY <1>2, <2>2
      <4> QED BY <1>8, <4>1 DEF Arriving
    <3>2. (home[x].at = n) <=> (ues[n][ue[x].id] = x)
      BY <3>1 DEF IInv, HomeInv
    <3>3. ue[x].id \in Numbers /\ x # NoUE
      BY <1>0 DEF Types
    <3>4. n = j.node /\ ue[x].id = j.id => ues[n][ue[x].id] # x
      BY <1>2, <2>2, <3>3 DEF IInv, SlotInv
    <3> QED BY <1>8, <2>2, <3>2, <3>3, <3>4
  <2> QED BY <2>1, <2>2
<1>16. RANFreeInv'
  <2> SUFFICES ASSUME NEW m \in Nodes, NEW x \in DOMAIN ue', ues'[m][ue'[x].id] = x,
                      ~home'[x].raced
               PROVE  /\ ue'[x].ran <= last'[m]
                      /\ ue'[x].ran # ue'[x].id =>
                           /\ ues'[m][ue'[x].ran] = NoUE
                           /\ \A q \in Requests : \A l \in job'[q] :
                                ~(l.node = m /\ l.id = ue'[x].ran)
    BY DEF RANFreeInv
  <2>1. /\ x \in DOMAIN ue /\ ~home[x].raced /\ x # NoUE /\ ue'[x].id = ue[x].id
        /\ ue[x].id \in Numbers /\ ue[x].ran \in Numbers
        /\ \A q \in Requests : \A l \in job'[q] : q # p /\ l \in job[q]
    BY <1>0, <1>2, <1>8 DEF Types
  <2>2. CASE x = j.ue
    <3>1. m = j.node
      <4>1. ues[m][j.id] # j.ue
        BY <1>2, <2>1, <2>2 DEF IInv, OneMoverInv
      <4> QED BY <1>2, <1>8, <2>1, <2>2, <4>1
    <3>2. CASE r = j.id
      BY <1>2, <1>8, <2>1, <2>2, <3>1, <3>2 DEF IInv, SlotInv
    <3>3. CASE r # j.id
      BY <1>2, <1>4, <1>8, <1>9, <2>1, <2>2, <3>1, <3>3
    <3> QED BY <3>2, <3>3
  <2>3. CASE x # j.ue
    <3>1. ues[m][ue[x].id] = x /\ ue'[x].ran = ue[x].ran
      BY <1>2, <1>8, <2>1, <2>3
    <3>2. /\ ue[x].ran <= last[m]
          /\ ue[x].ran # ue[x].id =>
               /\ ues[m][ue[x].ran] = NoUE
               /\ \A q \in Requests : \A l \in job[q] : ~(l.node = m /\ l.id = ue[x].ran)
      BY <2>1, <3>1 DEF IInv, RANFreeInv
    <3>3. ue[x].ran # ue[x].id => ~(m = j.node /\ ue[x].ran = j.id)
      BY <1>2, <3>2
    <3> QED BY <1>2, <1>8, <2>1, <3>1, <3>2, <3>3
  <2> QED BY <2>2, <2>3
<1>17. RANAloneInv'
  <2> SUFFICES ASSUME NEW m \in Nodes, NEW x \in DOMAIN ue', NEW y \in DOMAIN ue', x # y,
                      ues'[m][ue'[x].id] = x, ues'[m][ue'[y].id] = y,
                      ~home'[x].raced, ~home'[y].raced, ue'[x].ran = ue'[y].ran
               PROVE  FALSE
    BY DEF RANAloneInv
  <2>1. ASSUME NEW z \in DOMAIN ue, z # j.ue, ues'[m][ue'[z].id] = z, ~home'[z].raced
        PROVE  /\ ues[m][ue[z].id] = z /\ ~home[z].raced /\ ue'[z].ran = ue[z].ran /\ z # NoUE
               /\ ue[z].id \in Numbers /\ ue[z].ran \in Numbers
    <3>1. ue[z].id \in Numbers /\ ue[z].ran \in Numbers /\ z # NoUE
      BY <1>0 DEF Types
    <3> QED BY <1>8, <2>1, <3>1
  <2>2. ASSUME ues'[m][ue'[j.ue].id] = j.ue, ~home'[j.ue].raced
        PROVE  m = j.node
    <3>1. ues[m][j.id] # j.ue
      BY <1>2, <1>8, <2>2 DEF IInv, OneMoverInv
    <3> QED BY <1>2, <1>8, <2>2, <3>1
  <2>3. ASSUME NEW z \in DOMAIN ue, z # j.ue, ues'[m][ue'[z].id] = z, ~home'[z].raced, m = j.node
        PROVE  ue[z].ran # r
    <3>0. /\ ues[m][ue[z].id] = z /\ ~home[z].raced /\ z # NoUE
          /\ ue[z].id \in Numbers /\ ue[z].ran \in Numbers
      BY <2>1, <2>3
    <3>1. CASE r # j.id
      BY <1>9, <2>3, <3>0, <3>1
    <3>2. CASE r = j.id
      <4>1. ue[z].id # j.id
        BY <1>2, <2>3, <3>0 DEF IInv, SlotInv
      <4> QED BY <1>2, <2>3, <3>0, <3>2, <4>1 DEF IInv, RANFreeInv
    <3> QED BY <3>1, <3>2
  <2>4. x \in DOMAIN ue /\ y \in DOMAIN ue
    BY <1>8
  <2>5. CASE x # j.ue /\ y # j.ue
    BY <2>1, <2>4, <2>5 DEF IInv, RANAloneInv
  <2>6. CASE x = j.ue
    BY <1>8, <2>1, <2>2, <2>3, <2>4, <2>6
  <2>7. CASE y = j.ue
    BY <1>8, <2>1, <2>2, <2>3, <2>4, <2>7
  <2> QED BY <2>5, <2>6, <2>7
<1> QED BY <1>10, <1>11, <1>12, <1>13, <1>14, <1>15, <1>16, <1>17 DEF IInv

\* A UE that is deleted while it moves counts as raced for.
LEMMA DeleteUEPreserves ==
    ASSUME Careful, IInv, NEW n \in Nodes, NEW i \in Numbers, DeleteUE(n, i)
    PROVE  IInv'
<1>0. Types
  BY TypesHold DEF IInv
<1> DEFINE o == ues[n][i]
<1>1. /\ o # NoUE /\ o \in DOMAIN ue /\ ue[o].id = i /\ ues[n][i] = o
      /\ UNCHANGED <<stored, last, ue, job>>
  BY <1>0 DEF DeleteUE, Types
<1>2. /\ ues' \in [Nodes -> [Numbers -> {NoUE} \cup DOMAIN ue]]
      /\ \A m \in Nodes, k \in Numbers :
           ues'[m][k] = IF m = n /\ k = i THEN NoUE ELSE ues[m][k]
  <2>1. ues \in [Nodes -> [Numbers -> {NoUE} \cup DOMAIN ue]]
    BY DEF IInv, TypeOK
  <2> QED BY <2>1 DEF DeleteUE, WithoutUE
<1>3. /\ home' \in [DOMAIN ue -> HomeType]
      /\ \A x \in DOMAIN ue : /\ home'[x].at = IF x = o THEN Nowhere ELSE home[x].at
                              /\ home[x].raced => home'[x].raced
      /\ ~home'[o].raced => \A q \in Requests : \A k \in job[q] : k.ue = o => k.op = "patch"
  <2>1. PICK b \in BOOLEAN : /\ home' = [home EXCEPT ![o].at = Nowhere, ![o].raced = @ \/ b]
                             /\ b <=> Moving(o)
    BY DEF DeleteUE, Moving
  <2>2. ~b => \A q \in Requests : \A k \in job[q] : k.ue = o => k.op = "patch"
    BY <2>1 DEF Moving, Jobs
  <2>3. home \in [DOMAIN ue -> HomeType]
    BY UESeq DEF IInv
  <2> QED BY <1>1, <2>1, <2>2, <2>3 DEF HomeType
<1> HIDE DEF o
<1>4. /\ \A m \in Nodes, k \in Numbers :
           ues'[m][k] = IF m = n /\ k = i THEN NoUE ELSE ues[m][k]
      /\ \A x \in DOMAIN ue : /\ home'[x].at = IF x = o THEN Nowhere ELSE home[x].at
                              /\ home[x].raced => home'[x].raced
      /\ ~home'[o].raced => \A q \in Requests : \A k \in job[q] : k.ue = o => k.op = "patch"
  BY <1>2, <1>3
<1>5. JobInv'
  BY <1>1 DEF IInv, JobInv
<1>6. TypeOK'
  <2>1. ASSUME NEW m \in Nodes, NEW k \in Numbers, ues'[m][k] # NoUE
        PROVE  ue'[ues'[m][k]].id = k
    <3>1. ues'[m][k] = ues[m][k] /\ UNCHANGED ue
      BY <1>1, <1>4, <2>1
    <3> QED BY <1>0, <2>1, <3>1 DEF Types
  <2>2. stored' \subseteq Nodes /\ last' \in [Nodes -> 0..MaxId]
    BY <1>1 DEF IInv, TypeOK
  <2>3. /\ ue' \in Seq(UEType) /\ ues' \in [Nodes -> [Numbers -> {NoUE} \cup DOMAIN ue']]
        /\ home' \in [DOMAIN ue' -> HomeType]
    BY <1>1, <1>2, <1>3, UESeq DEF IInv
  <2> QED BY <1>5, <2>1, <2>2, <2>3, TypeAgain
<1>7. SlotInv'
  <2>1. \A m \in Nodes, k \in Numbers : ues'[m][k] \in {NoUE, ues[m][k]}
    BY <1>4
  <2>2. \A m \in Nodes, k \in Numbers : ues'[m][k] # NoUE => k <= last[m]
    BY <2>1 DEF IInv, SlotInv
  <2>3. ASSUME NEW q \in Requests, NEW l \in job[q]
        PROVE  /\ l.id <= last[l.node]
               /\ ues'[l.node][l.id] # NoUE => l.op # "create" /\ ues'[l.node][l.id] = l.ue
    <3>1. l.node \in Nodes /\ l.id \in Numbers
      BY <1>0 DEF Types
    <3> QED BY <2>1, <3>1 DEF IInv, SlotInv
  <2>4. \A q, s \in Requests : \A l \in job[q], k \in job[s] :
          q # s /\ l.node = k.node /\ l.id = k.id =>
            l.op # "create" /\ k.op # "create" /\ l.ue = k.ue
    BY DEF IInv, SlotInv
  <2> QED BY <1>1, <2>2, <2>3, <2>4 DEF SlotInv
<1>8. KeptInv'
  <2> SUFFICES ASSUME NEW x \in DOMAIN ue, home'[x].at # Nowhere
               PROVE  x \in Arriving' \/ \E m \in Nodes : ues'[m][ue[x].id] = x
    BY <1>1 DEF KeptInv
  <2>1. x # o /\ home[x].at # Nowhere /\ ue[x].id \in Numbers
    BY <1>0, <1>4 DEF Types
  <2>2. CASE x \in Arriving
    BY <1>1, <2>2 DEF Arriving
  <2>3. CASE x \notin Arriving
    <3>1. PICK m \in Nodes : ues[m][ue[x].id] = x
      BY <2>1, <2>3 DEF IInv, KeptInv
    <3> QED BY <1>1, <1>4, <2>1, <3>1
  <2> QED BY <2>2, <2>3
<1>9. OneMoverInv'
  <2> SUFFICES ASSUME NEW q \in Requests, NEW l \in job[q], l.op \in {"migrate", "arrive"},
                      ~home'[l.ue].raced
               PROVE  /\ \A s \in Requests \ {q} : \A w \in job[s] :
                           ~(w.op \in {"migrate", "arrive"} /\ w.ue = l.ue)
                      /\ l.op = "migrate" => ues'[l.node][l.id] = l.ue
                      /\ l.op = "arrive" => \A m \in Nodes : ues'[m][l.id] # l.ue
    BY <1>1 DEF OneMoverInv
  <2>1. l.ue \in DOMAIN ue /\ l.ue # NoUE /\ l.node \in Nodes /\ l.id \in Numbers
    BY <1>0 DEF Types
  <2>2. ~home[l.ue].raced /\ l.ue # o
    BY <1>4, <2>1
  <2>3. /\ \A s \in Requests \ {q} : \A w \in job[s] :
             ~(w.op \in {"migrate", "arrive"} /\ w.ue = l.ue)
        /\ l.op = "migrate" => ues[l.node][l.id] = l.ue
        /\ l.op = "arrive" => \A m \in Nodes : ues[m][l.id] # l.ue
    BY <2>2 DEF IInv, OneMoverInv
  <2> QED BY <1>1, <1>4, <2>1, <2>2, <2>3
<1>10. HomeInv'
  <2> SUFFICES ASSUME NEW x \in DOMAIN ue, ~home'[x].raced, x \notin Arriving', NEW m \in Nodes
               PROVE  (home'[x].at = m) <=> (ues'[m][ue[x].id] = x)
    BY <1>1 DEF HomeInv
  <2>1. x \notin Arriving /\ ~home[x].raced
    BY <1>1, <1>4 DEF Arriving
  <2>2. \A t \in Nodes : (home[x].at = t) <=> (ues[t][ue[x].id] = x)
    BY <2>1 DEF IInv, HomeInv
  <2>3. ue[x].id \in Numbers /\ x # NoUE /\ m # Nowhere
    BY <1>0, UERegistryAssumption DEF Types
  <2>4. CASE x = o
    BY <1>1, <1>4, <2>2, <2>3, <2>4
  <2>5. CASE x # o
    BY <1>1, <1>4, <2>2, <2>3, <2>5
  <2> QED BY <2>4, <2>5
<1>11. RANFreeInv'
  <2> SUFFICES ASSUME NEW m \in Nodes, NEW x \in DOMAIN ue', ues'[m][ue'[x].id] = x,
                      ~home'[x].raced
               PROVE  /\ ue'[x].ran <= last'[m]
                      /\ ue'[x].ran # ue'[x].id =>
                           /\ ues'[m][ue'[x].ran] = NoUE
                           /\ \A q \in Requests : \A l \in job'[q] :
                                ~(l.node = m /\ l.id = ue'[x].ran)
    BY DEF RANFreeInv
  <2>1. /\ x \in DOMAIN ue /\ ~home[x].raced /\ x # NoUE
        /\ ue[x].id \in Numbers /\ ue[x].ran \in Numbers
    BY <1>0, <1>1, <1>4 DEF Types
  <2>2. ues[m][ue[x].id] = x
    BY <1>1, <1>4, <2>1
  <2>3. /\ ue[x].ran <= last[m]
        /\ ue[x].ran # ue[x].id =>
             /\ ues[m][ue[x].ran] = NoUE
             /\ \A q \in Requests : \A l \in job[q] : ~(l.node = m /\ l.id = ue[x].ran)
    BY <2>1, <2>2 DEF IInv, RANFreeInv
  <2>4. ue[x].ran # ue[x].id => ues'[m][ue[x].ran] = NoUE
    BY <1>4, <2>1, <2>3
  <2> QED BY <1>1, <2>3, <2>4
<1>12. RANAloneInv'
  <2> SUFFICES ASSUME NEW m \in Nodes, NEW x \in DOMAIN ue', NEW y \in DOMAIN ue', x # y,
                      ues'[m][ue'[x].id] = x, ues'[m][ue'[y].id] = y,
                      ~home'[x].raced, ~home'[y].raced, ue'[x].ran = ue'[y].ran
               PROVE  FALSE
    BY DEF RANAloneInv
  <2>1. \A z \in DOMAIN ue : ues'[m][ue[z].id] = z => ues[m][ue[z].id] = z
    <3> TAKE z \in DOMAIN ue
    <3>1. ue[z].id \in Numbers /\ z # NoUE
      BY <1>0 DEF Types
    <3> QED BY <1>4, <3>1
  <2>2. \A z \in DOMAIN ue : ~home'[z].raced => ~home[z].raced
    BY <1>4
  <2> QED BY <1>1, <2>1, <2>2 DEF IInv, RANAloneInv
<1> QED BY <1>5, <1>6, <1>7, <1>8, <1>9, <1>10, <1>11, <1>12 DEF IInv

(***************************************************************************)
(* The invariant and what follows from it                                  *)
(***************************************************************************)

\* Nobody is created and nothing is under way at first.
LEMMA InitEstablishes == Init => IInv
<1> SUFFICES ASSUME Init PROVE IInv
  OBVIOUS
<1>1. ue = <<>> /\ home = <<>> /\ DOMAIN ue = {} /\ DOMAIN home = {}
  BY DEF Init
<1>2. \A p \in Requests : job[p] = {}
  BY DEF Init
<1>3. \A n \in Nodes, i \in Numbers : ues[n][i] = NoUE
  BY DEF Init
<1>4. TypeOK
  <2>1. stored \subseteq Nodes /\ last \in [Nodes -> 0..MaxId]
    BY UERegistryAssumption DEF Init
  <2>2. ue \in Seq([id : Numbers, ran : Numbers, amf : AMFIDs])
    BY <1>1
  <2>3. ues \in [Nodes -> [Numbers -> {NoUE} \cup DOMAIN ue]]
    BY DEF Init
  <2>4. home \in [DOMAIN ue -> [at : Nodes \cup {Nowhere}, moved : BOOLEAN, raced : BOOLEAN]]
    BY <1>1
  <2> QED BY <1>2, <1>3, <2>1, <2>2, <2>3, <2>4 DEF TypeOK
<1>5. JobInv
  BY <1>2 DEF JobInv, Init
<1>6. SlotInv /\ OneMoverInv
  BY <1>2, <1>3 DEF SlotInv, OneMoverInv
<1>7. KeptInv /\ HomeInv /\ RANFreeInv /\ RANAloneInv
  BY <1>1 DEF KeptInv, HomeInv, RANFreeInv, RANAloneInv
<1> QED BY <1>4, <1>5, <1>6, <1>7 DEF IInv

\* A step that changes nothing
LEMMA StutterPreserves == ASSUME IInv, UNCHANGED vars PROVE IInv'
<1>1. UNCHANGED <<stored, last, ues, ue, job, home>>
  BY DEF vars
<1>2. TypeOK' /\ JobInv' /\ SlotInv'
  BY <1>1 DEF IInv, TypeOK, JobInv, SlotInv
<1>3. KeptInv' /\ OneMoverInv' /\ HomeInv'
  BY <1>1 DEF IInv, KeptInv, OneMoverInv, HomeInv, Arriving
<1>4. RANFreeInv' /\ RANAloneInv'
  BY <1>1 DEF IInv, RANFreeInv, RANAloneInv
<1> QED BY <1>2, <1>3, <1>4 DEF IInv

\* Every step preserves the invariant, as long as UEs are moved only to free ids.
LEMMA NextPreserves == ASSUME Careful, IInv, [Next]_vars PROVE IInv'
<1>1. CASE UNCHANGED vars
  BY <1>1, StutterPreserves
<1>2. ASSUME NEW p \in Requests, Step(p) PROVE IInv'
  <2>1. CASE \E n \in Nodes : Allocate(p, n)
    BY <2>1, AllocatePreserves
  <2>2. CASE NewContextFails(p)
    BY <2>2, NewContextFailsPreserves
  <2>3. CASE CreateUE(p)
    BY <2>3, CreateUEPreserves
  <2>4. CASE \E n \in Nodes, i \in Numbers, op \in {"patch", "migrate"} : GetUE(p, n, i, op)
    BY <2>4, GetUEPreserves
  <2>5. CASE PatchUE(p)
    BY <2>5, PatchUEPreserves
  <2>6. CASE Refuse(p)
    BY <2>6, RefusePreserves
  <2>7. CASE \E n \in Nodes : Depart(p, n)
    BY <2>7, DepartPreserves
  <2>8. CASE Arrive(p)
    BY <2>8, ArrivePreserves
  <2> QED BY <1>2, <2>1, <2>2, <2>3, <2>4, <2>5, <2>6, <2>7, <2>8 DEF Step
<1>3. ASSUME NEW n \in Nodes, DeleteNode(n) PROVE IInv'
  BY <1>3, DeleteNodePreserves
<1>4. ASSUME NEW n \in Nodes, NEW i \in Numbers, DeleteUE(n, i) PROVE IInv'
  BY <1>4, DeleteUEPreserves
<1> QED BY <1>1, <1>2, <1>3, <1>4 DEF Next

\* The invariant holds as long as the client moves UEs, and sets RAN ids, only to
\* ids that MigrateUE can give them without a clash.
THEOREM Invariance == ASSUME Careful PROVE Spec => []IInv
<1>1. Init => IInv
  BY InitEstablishes
<1>2. IInv /\ [Next]_vars => IInv'
  BY NextPreserves
<1> QED BY <1>1, <1>2, PTL DEF Spec

\* The registries are well typed, and a UE is in a map only under its own number.
THEOREM TypeCorrect == ASSUME Careful PROVE Spec => []TypeOK
<1>1. IInv => TypeOK
  BY DEF IInv
<1> QED BY <1>1, Invariance, PTL

\* An entry in a map is a UE under its own number.
LEMMA EntryAtNumber ==
    ASSUME IInv, NEW o \in DOMAIN ue, NEW n \in Nodes, NEW i \in Numbers, ues[n][i] = o
    PROVE  i = ue[o].id
<1>1. Types
  BY TypesHold DEF IInv
<1> QED BY <1>1 DEF Types

\* A UE that no request is at work on is found exactly where the last answer about
\* it put it (create, MigrateUE, DELETE), unless two requests have raced for it.
THEOREM FoundWhereAnsweredHolds == ASSUME Careful PROVE Spec => []FoundWhereAnswered
<1>1. ASSUME IInv PROVE FoundWhereAnswered
  <2> SUFFICES ASSUME NEW o \in DOMAIN ue, ~Busy(o), ~home[o].raced, NEW n \in stored
               PROVE  (home[o].at = n) <=> (\E i \in Numbers : ues[n][i] = o)
    BY DEF FoundWhereAnswered
  <2>1. n \in Nodes
    BY <1>1 DEF IInv, TypeOK
  <2>2. o \notin Arriving
    BY DEF Arriving, Busy, Jobs
  <2>3. (home[o].at = n) <=> (ues[n][ue[o].id] = o)
    BY <1>1, <2>1, <2>2 DEF IInv, HomeInv
  <2>4. ue[o].id \in Numbers
    BY <1>1, UESeq DEF IInv, UEType
  <2> QED BY <1>1, <2>1, <2>3, <2>4, EntryAtNumber
<1> QED BY <1>1, Invariance, PTL

\* A UE that no DELETE has named last is at some node once the requests for it are
\* done, however many have moved it at once: what MigrateUE takes out of a map is
\* the UE it then puts into one.
THEOREM NeverLostHolds == ASSUME Careful PROVE Spec => []NeverLost
<1>1. ASSUME IInv PROVE NeverLost
  <2> SUFFICES ASSUME NEW o \in DOMAIN ue, ~Busy(o), home[o].at # Nowhere
               PROVE  \E n \in Nodes, i \in Numbers : ues[n][i] = o
    BY DEF NeverLost
  <2>1. o \notin Arriving
    BY DEF Arriving, Busy, Jobs
  <2>2. ue[o].id \in Numbers
    BY <1>1, UESeq DEF IInv, UEType
  <2> QED BY <1>1, <2>1, <2>2 DEF IInv, KeptInv
<1> QED BY <1>1, Invariance, PTL

\* No two UEs of a node have the same RAN UE NGAP id (eNB UE S1AP id), whether they
\* were created there or moved in under an id of their own.
THEOREM RANIdsDistinctHolds == ASSUME Careful PROVE Spec => []RANIdsDistinct
<1>1. ASSUME IInv PROVE RANIdsDistinct
  <2> SUFFICES ASSUME NEW n \in Nodes, NEW i \in Numbers, NEW k \in Numbers,
                      ues[n][i] # NoUE, ~home[ues[n][i]].raced,
                      ues[n][k] # NoUE, ~home[ues[n][k]].raced,
                      ue[ues[n][i]].ran = ue[ues[n][k]].ran, i # k
               PROVE  FALSE
    BY DEF RANIdsDistinct
  <2>1. Types
    BY <1>1, TypesHold DEF IInv
  <2>2. PICK o \in DOMAIN ue : ues[n][i] = o /\ ue[o].id = i
    BY <2>1 DEF Types
  <2>3. PICK x \in DOMAIN ue : ues[n][k] = x /\ ue[x].id = k
    BY <2>1 DEF Types
  <2> QED BY <1>1, <2>2, <2>3 DEF IInv, RANAloneInv
<1> QED BY <1>1, Invariance, PTL
=============================================================================
