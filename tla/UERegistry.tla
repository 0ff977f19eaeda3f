------------------------------ MODULE UERegistry ------------------------------
(***************************************************************************)
(* The UEs of several nodes of one kind (GNBContext or ENBContext, which   *)
(* are alike): each node numbers its UEs by an atomic counter and keeps    *)
(* them in a map under that number; MigrateUE moves a UE to another node's *)
(* map under the number it has.  Requests are goroutines: what lies        *)
(* between the two locks a request takes is open to the others.            *)
(***************************************************************************)
EXTENDS Naturals, Sequences, FiniteSets

CONSTANTS
    Nodes,      \* the nodes created so far
    Requests,   \* HTTP requests that can be under way at once
    AMFIDs,     \* AMF (MME) ids that PATCH and migrate may set
    Careful,    \* TRUE: the client moves UEs only to ids that are Free
    MaxId,      \* bound: numbers a node's counter hands out
    MaxUEs      \* bound: UEs ever created

Numbers == 1..MaxId
NoUE == 0           \* no entry in a node's map
Nowhere == "nowhere"

ASSUME UERegistryAssumption ==
    /\ Careful \in BOOLEAN /\ MaxId \in Nat /\ MaxUEs \in Nat /\ 0 \in AMFIDs
    /\ Nowhere \notin Nodes

VARIABLES
    stored,     \* the nodes still in the store
    last,       \* per node: nextRanUeID (nextENBUEID)
    ues,        \* per node: the map from numbers to UEs
    ue,         \* the UE contexts ever made, in that order: [id, ran, amf]
    job,        \* per request: what it does next, as a set of at most one
    home        \* history, per UE: where the last answer about it put it, whether
                \* that was a migration, and whether two requests have ever
                \* overlapped in moving it, or in moving and deleting it

vars == <<stored, last, ues, ue, job, home>>

Init ==
    /\ stored = Nodes
    /\ last = [n \in Nodes |-> 0]
    /\ ues = [n \in Nodes |-> [i \in Numbers |-> NoUE]]
    /\ ue = <<>> /\ home = <<>>
    /\ job = [p \in Requests |-> {}]

Jobs == UNION {job[p] : p \in Requests}

\* A request is at work on UE o.
Busy(o) == \E j \in Jobs : j.ue = o
Moving(o) == \E j \in Jobs : j.ue = o /\ j.op # "patch"

\* Number or RAN id i of node n was handed out and is nobody's any more, so that
\* a UE can move in under it.
Free(n, i) ==
    /\ i <= last[n] /\ ues[n][i] = NoUE
    /\ \A k \in Numbers : ues[n][k] # NoUE => ue[ues[n][k]].ran # i
    /\ \A j \in Jobs : j.node = n => j.id # i

-----------------------------------------------------------------------------
(* Create: the number, then the UE context, which may be refused and has    *)
(* used up its number by then, then the entry in the map.                   *)

\* Mutant of AllocateID: the number after those in the map.
AllocateByCount(n) == Cardinality({i \in Numbers : ues[n][i] # NoUE}) + 1

AllocateID(n) == last[n] + 1

Allocate(p, n) ==
    /\ job[p] = {} /\ n \in stored /\ AllocateID(n) <= MaxId
    /\ last' = [last EXCEPT ![n] = AllocateID(n)]
    /\ job' = [job EXCEPT ![p] =
                 {[op |-> "create", node |-> n, id |-> AllocateID(n), ue |-> NoUE]}]
    /\ UNCHANGED <<stored, ues, ue, home>>

NewContextFails(p) ==
    /\ \E j \in job[p] : j.op = "create"
    /\ job' = [job EXCEPT ![p] = {}]
    /\ UNCHANGED <<stored, last, ues, ue, home>>

CreateUE(p) ==
    \E j \in job[p] :
      /\ j.op = "create" /\ Len(ue) < MaxUEs
      /\ ue' = Append(ue, [id |-> j.id, ran |-> j.id, amf |-> 0])
      /\ ues' = [ues EXCEPT ![j.node][j.id] = Len(ue) + 1]
      /\ home' = Append(home, [at |-> j.node, moved |-> FALSE, raced |-> FALSE])
      /\ job' = [job EXCEPT ![p] = {}]
      /\ UNCHANGED <<stored, last>>

-----------------------------------------------------------------------------
(* Patch and migrate find the UE, then read their body.                     *)

GetUE(p, n, i, op) ==
    /\ job[p] = {} /\ n \in stored /\ ues[n][i] # NoUE
    /\ job' = [job EXCEPT ![p] = {[op |-> op, node |-> n, id |-> i, ue |-> ues[n][i]]}]
    /\ home' = [home EXCEPT ![ues[n][i]].raced = @ \/ (op = "migrate" /\ Moving(ues[n][i]))]
    /\ UNCHANGED <<stored, last, ues, ue>>

PatchUE(p) ==
    \E j \in job[p], a \in AMFIDs :
      /\ j.op = "patch"
      /\ ue' = [ue EXCEPT ![j.ue].amf = a]
      /\ job' = [job EXCEPT ![p] = {}]
      /\ UNCHANGED <<stored, last, ues, home>>

\* Mutant of WithoutUE: the UE is copied to the target, not moved.
StillWithUE(n, i) == ues

WithoutUE(n, i) == [ues EXCEPT ![n][i] = NoUE]

\* Mutant of Refuse: the target is looked up after the UE has left its source.
RefuseLate(p) ==
    /\ \E j \in job[p] : j.op \in {"patch", "migrate", "arrive"}
    /\ job' = [job EXCEPT ![p] = {}]
    /\ UNCHANGED <<stored, last, ues, ue, home>>

\* An ill-formed body, or a target that is not in the store
Refuse(p) ==
    /\ \E j \in job[p] : j.op \in {"patch", "migrate"}
    /\ job' = [job EXCEPT ![p] = {}]
    /\ UNCHANGED <<stored, last, ues, ue, home>>

\* MigrateUE, under the source's lock: whatever the source has under the number
Depart(p, target) ==
    \E j \in job[p] :
      /\ j.op = "migrate" /\ target \in stored
      /\ Careful => target = j.node \/ Free(target, ue[j.ue].id)
      /\ ues' = WithoutUE(j.node, ue[j.ue].id)
      /\ job' = [job EXCEPT ![p] = {[j EXCEPT !.op = "arrive", !.node = target]}]
      /\ UNCHANGED <<stored, last, ue, home>>

\* Mutant of Key: the map is keyed by the RAN id of the UE.
KeyByRAN(u) == u.ran

\* The number a UE is kept under, which migration leaves as it is
Key(u) == u.id

\* ... the AP ids, if the request gives any, and the target's map
Arrive(p) ==
    \E j \in job[p] :
      /\ j.op = "arrive"
      /\ \E r \in Numbers \cup {ue[j.ue].ran}, a \in AMFIDs \cup {ue[j.ue].amf} :
           /\ Careful => r = ue[j.ue].id \/ Free(j.node, r)
           /\ ue' = [ue EXCEPT ![j.ue].ran = r, ![j.ue].amf = a]
           /\ ues' = [ues EXCEPT ![j.node][Key(ue'[j.ue])] = j.ue]
      /\ home' = [home EXCEPT ![j.ue].at = j.node, ![j.ue].moved = TRUE]
      /\ job' = [job EXCEPT ![p] = {}]
      /\ UNCHANGED <<stored, last>>

-----------------------------------------------------------------------------
DeleteUE(n, i) ==
    /\ n \in stored /\ ues[n][i] # NoUE
    /\ home' = [home EXCEPT ![ues[n][i]].at = Nowhere,
                             ![ues[n][i]].raced = @ \/ Moving(ues[n][i])]
    /\ ues' = WithoutUE(n, i)
    /\ UNCHANGED <<stored, last, ue, job>>

\* The node leaves the store; requests that have found it go on with it.
DeleteNode(n) ==
    /\ n \in stored
    /\ stored' = stored \ {n}
    /\ UNCHANGED <<last, ues, ue, job, home>>

Step(p) ==
    \/ \E n \in Nodes : Allocate(p, n)
    \/ NewContextFails(p) \/ CreateUE(p)
    \/ \E n \in Nodes, i \in Numbers, op \in {"patch", "migrate"} : GetUE(p, n, i, op)
    \/ PatchUE(p) \/ Refuse(p)
    \/ \E n \in Nodes : Depart(p, n)
    \/ Arrive(p)

Next ==
    \/ \E p \in Requests : Step(p)
    \/ \E n \in Nodes : DeleteNode(n) \/ \E i \in Numbers : DeleteUE(n, i)

Spec == Init /\ [][Next]_vars

-----------------------------------------------------------------------------
\* Every node keeps a UE under the number the client knows it by.
TypeOK ==
    /\ stored \subseteq Nodes /\ last \in [Nodes -> 0..MaxId]
    /\ ue \in Seq([id : Numbers, ran : Numbers, amf : AMFIDs])
    /\ ues \in [Nodes -> [Numbers -> {NoUE} \cup DOMAIN ue]]
    /\ \A n \in Nodes, i \in Numbers : ues[n][i] # NoUE => ue[ues[n][i]].id = i
    /\ \A p \in Requests : \A j \in job[p] : job[p] = {j} /\ j.id \in Numbers
    /\ home \in [DOMAIN ue -> [at : Nodes \cup {Nowhere}, moved : BOOLEAN, raced : BOOLEAN]]

\* A UE no request is at work on is found where the last answer about it put it,
\* nowhere else, and nowhere once a DELETE was answered, although create and
\* migrate make and move it in several steps under two nodes' locks.  Not so a UE
\* that two requests have moved at once: it may end in both their targets.
FoundWhereAnswered ==
    \A o \in DOMAIN ue : ~Busy(o) /\ ~home[o].raced =>
        \A n \in stored : (home[o].at = n) <=> (\E i \in Numbers : ues[n][i] = o)

\* A UE that no DELETE has named last is at some node, however many requests have
\* moved it at once, to the node it was at among others: what one request takes
\* out of a map it also puts into one.
NeverLost ==
    \A o \in DOMAIN ue :
        ~Busy(o) /\ home[o].at # Nowhere => \E n \in Nodes, i \in Numbers : ues[n][i] = o

\* No two UEs of a node have the same RAN UE NGAP id (eNB UE S1AP id): what the
\* matching of downlinks to UEs, and the TEIDs made of the ids, rest on.  A UE
\* that is at two nodes after a race has an id of only one of them.
RANIdsDistinct ==
    \A n \in Nodes : \A i, k \in {i \in Numbers : ues[n][i] # NoUE /\ ~home[ues[n][i]].raced} :
        ue[ues[n][i]].ran = ue[ues[n][k]].ran => i = k

\* A UE that was moved to a node can be reached there under the number the answer
\* gave, until it is deleted or moved on.
MovedCanBeReached ==
    \A o \in DOMAIN ue :
        ~Busy(o) /\ ~home[o].raced /\ home[o].moved /\ home[o].at \in stored => ues[home[o].at][ue[o].id] = o
=============================================================================
