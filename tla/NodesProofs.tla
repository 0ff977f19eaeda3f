----------------------------- MODULE NodesProofs -----------------------------
(***************************************************************************)
(* TLAPS proofs about Nodes, for any number of overlapping creates and     *)
(* deletes of both kinds.                                                  *)
(***************************************************************************)
EXTENDS Nodes, TLAPS, FiniteSetTheorems

(***************************************************************************)
(* The inductive invariant                                                 *)
(***************************************************************************)

CreateJobs ==
    [op : {"create"}, kind : Kinds, id : {0} \cup Ids, setup : {"skip", "build", "raw"},
     n3 : SUBSET N3Addrs]
DeleteJobs == [op : {"delete"}, kind : Kinds, id : Ids]

\* The places a create goes through while it succeeds, before and after its
\* association is in the map, and when it fails
Early == {"start", "dialled", "stored"}
Building == {"listen", "listening", "ready", "waiting", "created"}
Failing == {"teardown", "teardownN3", "teardownGTPU", "teardownStore", "teardownMap", "failed"}
Deleting == {"deleteMap", "deleteN3", "deleteGTPU", "deleteStore"}

IsCreate(r) == job[r].op = "create"
IsDelete(r) == job[r].op = "delete"

\* Creates and deletes stay what they are and keep to their own code.
PlaceInv ==
    /\ job \in [Reqs -> CreateJobs \cup DeleteJobs]
    /\ pc \in [Reqs -> Early \cup Building \cup Failing \cup Deleting \cup {"deleted", "notFound"}]
    /\ \A r \in Reqs : IsCreate(r) => pc[r] \in Early \cup Building \cup Failing
    /\ \A r \in Reqs : IsDelete(r) => pc[r] \in {"start", "deleted", "notFound"} \cup Deleting

Numbered == {r \in Reqs : IsCreate(r) /\ job[r].id # 0}

\* The counter has numbered as many creates as it says, each its own way.
NumberInv ==
    /\ nextID \in Nat /\ Cardinality(Numbered) = nextID
    /\ \A r \in Numbered : job[r].id \in 1..nextID
    /\ \A r, s \in Numbered : job[r].id = job[s].id => r = s
    /\ \A r \in Reqs : IsCreate(r) =>
         /\ pc[r] \in {"start", "dialled"} => job[r].id = 0
         /\ pc[r] \notin {"start", "dialled", "failed"} => job[r].id # 0

\* What the maps and the store hold is of the create that has the id.
TransportsInv ==
    \A k \in Kinds, i \in Ids, r \in Reqs : transports[k][i] = r =>
      /\ IsCreate(r) /\ job[r].kind = k /\ job[r].id = i
      /\ pc[r] \in Building \cup (Failing \ {"failed"})

GTPUInv ==
    \A i \in Ids, r \in Reqs : gtpu[i] = r =>
      /\ IsCreate(r) /\ job[r].id = i
      /\ pc[r] \in {"ready", "waiting", "created", "teardown", "teardownN3", "teardownGTPU"}

StoredInv ==
    \A k \in Kinds : \A i \in stored[k] : \E r \in Reqs :
      /\ IsCreate(r) /\ job[r].kind = k /\ job[r].id = i
      /\ pc[r] \in {"stored"} \cup Building \cup (Failing \ {"teardownMap", "failed"})

\* A create's sockets: where it is sure to have them open, where it is sure not
\* to, and in between an open one is in the map.
AssocInv ==
    \A r \in Reqs : IsCreate(r) =>
      /\ pc[r] \in {"dialled", "stored"} => assoc[r] = "open"
      /\ pc[r] \in Building \cup {"teardown"} /\ assoc[r] = "open" =>
           transports[job[r].kind][job[r].id] = r
      /\ pc[r] \in {"start"} \cup (Failing \ {"teardown"}) => assoc[r] # "open"

N3Inv ==
    \A r \in Reqs : IsCreate(r) =>
      /\ pc[r] \in Early \cup {"listen"} => n3[r] = "none"
      /\ pc[r] = "listening" => n3[r] = "open"
      /\ pc[r] \in {"ready", "waiting", "created", "teardown", "teardownN3"} /\ n3[r] = "open" =>
           gtpu[job[r].id] = r
      /\ pc[r] \in Failing \ {"teardown", "teardownN3"} => n3[r] # "open"

\* A delete forgets a socket only after it was closed.
DeleteInv ==
    \A d \in Reqs : IsDelete(d) =>
      /\ pc[d] = "deleteMap" => \E r \in Reqs :
           IsCreate(r) /\ job[r].kind = job[d].kind /\ job[r].id = job[d].id /\ assoc[r] = "closed"
      /\ pc[d] = "deleteGTPU" => \E r \in Reqs :
           IsCreate(r) /\ job[r].id = job[d].id /\ n3[r] = "closed"

\* The nodes that a delete is at, those of BeingDeleted, and those that one has
\* named.
DeletedNodes ==
    {<<job[d].kind, job[d].id>> : d \in {e \in Reqs : IsDelete(e) /\ pc[e] \in Deleting}}
NamedNodes ==
    {<<job[d].kind, job[d].id>> : d \in {e \in Reqs : IsDelete(e) /\ pc[e] # "start"}}

\* As long as a node is in the store and nobody deletes it, it has its sockets.
Connected(r) ==
    /\ pc[r] \in Building => assoc[r] = "open" /\ transports[job[r].kind][job[r].id] = r
    /\ /\ pc[r] \in {"ready", "waiting", "created"} /\ job[r].n3 # {}
       /\ \A k \in Kinds \ {job[r].kind} : <<k, job[r].id>> \notin NamedNodes
       => n3[r] = "open" /\ gtpu[job[r].id] = r

ConnectedInv ==
    \A r \in Reqs :
      /\ IsCreate(r) /\ job[r].id \in stored[job[r].kind]
      /\ <<job[r].kind, job[r].id>> \notin DeletedNodes
      => Connected(r)

IInv ==
    /\ TypeOK /\ PlaceInv /\ NumberInv
    /\ TransportsInv /\ GTPUInv /\ StoredInv
    /\ AssocInv /\ N3Inv /\ DeleteInv /\ ConnectedInv

(***************************************************************************)
(* Lemmas                                                                  *)
(***************************************************************************)

\* What every job has, whichever of the two it is.
JobTypes ==
    \A r \in Reqs :
      /\ IsCreate(r) <=> ~IsDelete(r)
      /\ job[r].kind \in Kinds
      /\ IsCreate(r) => job[r].id \in {0} \cup Ids
      /\ IsDelete(r) => job[r].id \in Ids

\* The fields of a job, and 0 names no node.
LEMMA JobFacts == ASSUME PlaceInv PROVE JobTypes /\ 0 \notin Ids
BY DEF JobTypes, PlaceInv, IsCreate, IsDelete, CreateJobs, DeleteJobs, Ids

\* Nobody else is numbered as a numbered create is.
LEMMA IdsUnique ==
    ASSUME PlaceInv, NumberInv, NEW r \in Reqs, NEW s \in Reqs, IsCreate(r), IsCreate(s),
           job[r].id = job[s].id, job[r].id \in Ids
    PROVE  r = s
BY JobFacts DEF NumberInv, Numbered

\* A create that moves on changes nothing about who is being deleted.
LEMMA CreateMoves ==
    ASSUME PlaceInv, NEW r \in Reqs, IsCreate(r), job' = job, NEW l, pc' = [pc EXCEPT ![r] = l]
    PROVE  DeletedNodes' = DeletedNodes /\ NamedNodes' = NamedNodes
<1>1. \A d \in Reqs : IsDelete(d) => pc'[d] = pc[d]
  BY DEF PlaceInv, IsCreate, IsDelete
<1> QED BY <1>1 DEF DeletedNodes, NamedNodes, IsDelete

\* A delete that moves on counts against the node it names, until it is done,
\* and against no other.
LEMMA DeleteMoves ==
    ASSUME PlaceInv, NEW r \in Reqs, IsDelete(r), job' = job,
           NEW l, l # "start", pc' = [pc EXCEPT ![r] = l]
    PROVE  /\ DeletedNodes \subseteq DeletedNodes' \cup {<<job[r].kind, job[r].id>>}
           /\ l \in Deleting => <<job[r].kind, job[r].id>> \in DeletedNodes'
           /\ NamedNodes \cup {<<job[r].kind, job[r].id>>} \subseteq NamedNodes'
<1>1. pc'[r] = l /\ \A d \in Reqs \ {r} : pc'[d] = pc[d]
  BY DEF PlaceInv
<1>2. DeletedNodes \subseteq DeletedNodes' \cup {<<job[r].kind, job[r].id>>}
  BY <1>1 DEF DeletedNodes, IsDelete
<1>3. l \in Deleting => <<job[r].kind, job[r].id>> \in DeletedNodes'
  BY <1>1 DEF DeletedNodes, IsDelete
<1>4. NamedNodes \cup {<<job[r].kind, job[r].id>>} \subseteq NamedNodes'
  BY <1>1 DEF NamedNodes, IsDelete
<1> QED BY <1>2, <1>3, <1>4

(***************************************************************************)
(* Every action preserves the invariant                                    *)
(***************************************************************************)
USE DEF Early, Building, Failing, Deleting, IsCreate, IsDelete

\* An association just dialled is its create's own.
LEMMA DialPreserves == ASSUME IInv, NEW r \in Reqs, Dial(r) PROVE IInv'
<1>1. JobTypes /\ 0 \notin Ids
  BY JobFacts DEF IInv
<1>2. IsCreate(r) /\ pc[r] = "start"
  BY DEF Dial, At
<1>3. PICK l \in {"dialled", "failed"} : pc' = [pc EXCEPT ![r] = l]
           /\ assoc' = IF l = "dialled" THEN [assoc EXCEPT ![r] = "open"] ELSE assoc
  BY DEF Dial, Goto
<1>4. UNCHANGED <<up, nextID, job, stored, transports, gtpu, n3>>
  BY DEF Dial
<1>5. TypeOK'
  BY <1>3, <1>4 DEF IInv, TypeOK, Sockets
<1>6. PlaceInv'
  BY <1>2, <1>3, <1>4 DEF IInv, PlaceInv
<1>7. NumberInv'
  BY <1>2, <1>3, <1>4 DEF IInv, PlaceInv, NumberInv, Numbered
<1>8. TransportsInv'
  BY <1>2, <1>3, <1>4 DEF IInv, PlaceInv, TransportsInv
<1>9. GTPUInv'
  BY <1>2, <1>3, <1>4 DEF IInv, PlaceInv, GTPUInv
<1>10. StoredInv'
  BY <1>2, <1>3, <1>4 DEF IInv, PlaceInv, StoredInv
<1>11. AssocInv'
  BY <1>2, <1>3, <1>4 DEF IInv, TypeOK, PlaceInv, AssocInv
<1>12. N3Inv'
  BY <1>2, <1>3, <1>4 DEF IInv, PlaceInv, N3Inv
<1>13. DeleteInv'
  BY <1>1, <1>2, <1>3, <1>4, NodesAssumption DEF IInv, TypeOK, JobTypes, PlaceInv, NumberInv,
     Numbered, TransportsInv, GTPUInv, StoredInv, AssocInv, N3Inv, DeleteInv, Sockets
<1>14. ConnectedInv'
  <2>1. DeletedNodes' = DeletedNodes /\ NamedNodes' = NamedNodes
    BY <1>2, <1>3, <1>4, CreateMoves DEF IInv
  <2> SUFFICES ASSUME NEW s \in Reqs, IsCreate(s), job[s].id \in stored'[job[s].kind],
                      <<job[s].kind, job[s].id>> \notin DeletedNodes'
               PROVE  Connected(s)'
    BY <1>4 DEF ConnectedInv
  <2>2. job[s].id \in stored[job[s].kind] /\ <<job[s].kind, job[s].id>> \notin DeletedNodes
    BY <1>1, <1>2, <1>3, <1>4, <2>1 DEF IInv, TypeOK, JobTypes
  <2>3. Connected(s)
    BY <2>2 DEF IInv, ConnectedInv
  <2>4. CASE s = r
    BY <1>2, <1>3, <1>4, <2>1, <2>3, <2>4 DEF Connected, IInv, PlaceInv
  <2>5. CASE s # r
    BY <1>2, <1>3, <1>4, <2>1, <2>3, <2>5 DEF Connected, IInv, PlaceInv
  <2> QED BY <2>4, <2>5
<1> QED BY <1>5, <1>6, <1>7, <1>8, <1>9, <1>10, <1>11, <1>12, <1>13, <1>14 DEF IInv

\* The entry that RegisterTransport writes is under an id of its own.
LEMMA RegisterTransportPreserves == ASSUME IInv, NEW r \in Reqs, RegisterTransport(r) PROVE IInv'
<1>1. JobTypes /\ 0 \notin Ids
  BY JobFacts DEF IInv
<1>2. IsCreate(r) /\ pc[r] = "stored"
  BY DEF RegisterTransport, At
<1>3. PICK l \in {"ready", "listen"} :
        /\ pc' = [pc EXCEPT ![r] = l] /\ l = (IF job[r].n3 = {} THEN "ready" ELSE "listen")
        /\ transports' = [transports EXCEPT ![job[r].kind][job[r].id] = r]
  BY DEF RegisterTransport, Goto
<1>4. UNCHANGED <<up, nextID, job, stored, gtpu, assoc, n3>>
  BY DEF RegisterTransport
<1>5. TypeOK'
  BY <1>3, <1>4 DEF IInv, TypeOK, Sockets
<1>6. PlaceInv'
  BY <1>2, <1>3, <1>4 DEF IInv, PlaceInv
<1>7. NumberInv'
  BY <1>2, <1>3, <1>4 DEF IInv, PlaceInv, NumberInv, Numbered
<1>8. TransportsInv'
  BY <1>2, <1>3, <1>4 DEF IInv, PlaceInv, TransportsInv
<1>9. GTPUInv'
  BY <1>2, <1>3, <1>4 DEF IInv, PlaceInv, GTPUInv
<1>10. StoredInv'
  BY <1>2, <1>3, <1>4 DEF IInv, PlaceInv, StoredInv
<1>11. AssocInv'
  BY <1>1, <1>2, <1>3, <1>4, NodesAssumption DEF IInv, TypeOK, JobTypes, PlaceInv, NumberInv,
     Numbered, TransportsInv, AssocInv, DeleteInv
<1>12. N3Inv'
  BY <1>2, <1>3, <1>4 DEF IInv, PlaceInv, N3Inv
<1>13. DeleteInv'
  BY <1>2, <1>3, <1>4 DEF IInv, PlaceInv, DeleteInv
<1>14. ConnectedInv'
  <2>1. DeletedNodes' = DeletedNodes /\ NamedNodes' = NamedNodes
    BY <1>2, <1>3, <1>4, CreateMoves DEF IInv
  <2> SUFFICES ASSUME NEW s \in Reqs, IsCreate(s), job[s].id \in stored'[job[s].kind],
                      <<job[s].kind, job[s].id>> \notin DeletedNodes'
               PROVE  Connected(s)'
    BY <1>4 DEF ConnectedInv
  <2>2. job[s].id \in stored[job[s].kind] /\ <<job[s].kind, job[s].id>> \notin DeletedNodes
    BY <1>1, <1>2, <1>3, <1>4, <2>1 DEF IInv, TypeOK, JobTypes
  <2>3. Connected(s)
    BY <2>2 DEF IInv, ConnectedInv
  <2>4. CASE s = r
    BY <1>1, <1>2, <1>3, <1>4, <2>1, <2>2, <2>3, <2>4 DEF Connected, IInv, TypeOK, JobTypes,
       PlaceInv, TransportsInv, AssocInv, N3Inv
  <2>5. CASE s # r
    BY <1>1, <1>2, <1>3, <1>4, <2>1, <2>2, <2>3, <2>5, IdsUnique DEF Connected, IInv, TypeOK,
       JobTypes, PlaceInv
  <2> QED BY <2>4, <2>5
<1> QED BY <1>5, <1>6, <1>7, <1>8, <1>9, <1>10, <1>11, <1>12, <1>13, <1>14 DEF IInv

\* An endpoint is bound once, before its create has one.
LEMMA ListenPreserves == ASSUME IInv, NEW r \in Reqs, Listen(r) PROVE IInv'
<1>1. JobTypes /\ 0 \notin Ids
  BY JobFacts DEF IInv
<1>2. IsCreate(r) /\ pc[r] = "listen"
  BY DEF Listen, At
<1>3. PICK l \in {"teardown", "listening"} : pc' = [pc EXCEPT ![r] = l]
           /\ n3' = IF l = "listening" THEN [n3 EXCEPT ![r] = "open"] ELSE n3
  BY DEF Listen, Goto
<1>4. UNCHANGED <<up, nextID, job, stored, transports, gtpu, assoc>>
  BY DEF Listen
<1>5. TypeOK'
  BY <1>3, <1>4 DEF IInv, TypeOK, Sockets
<1>6. PlaceInv'
  BY <1>2, <1>3, <1>4 DEF IInv, PlaceInv
<1>7. NumberInv'
  BY <1>2, <1>3, <1>4 DEF IInv, PlaceInv, NumberInv, Numbered
<1>8. TransportsInv'
  BY <1>2, <1>3, <1>4 DEF IInv, PlaceInv, TransportsInv
<1>9. GTPUInv'
  BY <1>2, <1>3, <1>4 DEF IInv, PlaceInv, GTPUInv
<1>10. StoredInv'
  BY <1>2, <1>3, <1>4 DEF IInv, PlaceInv, StoredInv
<1>11. AssocInv'
  BY <1>2, <1>3, <1>4 DEF IInv, PlaceInv, AssocInv
<1>12. N3Inv'
  BY <1>2, <1>3, <1>4 DEF IInv, TypeOK, PlaceInv, N3Inv
<1>13. DeleteInv'
  <2>1. \A s \in Reqs : /\ assoc[s] = "closed" => assoc'[s] = "closed"
                        /\ n3[s] = "closed" => n3'[s] = "closed"
    BY <1>2, <1>3, <1>4 DEF IInv, TypeOK, N3Inv, AssocInv, Closed, Sockets
  <2> SUFFICES ASSUME NEW d \in Reqs, IsDelete(d)
               PROVE  /\ pc'[d] = "deleteMap" => \E s \in Reqs :
                           /\ IsCreate(s) /\ job[s].kind = job[d].kind
                           /\ job[s].id = job[d].id /\ assoc'[s] = "closed"
                      /\ pc'[d] = "deleteGTPU" => \E s \in Reqs :
                           IsCreate(s) /\ job[s].id = job[d].id /\ n3'[s] = "closed"
    BY <1>4 DEF DeleteInv
  <2>2. pc'[d] = pc[d]
    BY <1>2, <1>3 DEF IInv, PlaceInv
  <2>3. ASSUME pc[d] = "deleteMap"
        PROVE  \E s \in Reqs : /\ IsCreate(s) /\ job[s].kind = job[d].kind
                               /\ job[s].id = job[d].id /\ assoc'[s] = "closed"
    <3>1. PICK s \in Reqs : /\ IsCreate(s) /\ job[s].kind = job[d].kind
                            /\ job[s].id = job[d].id /\ assoc[s] = "closed"
      BY <2>3 DEF IInv, DeleteInv
    <3> QED BY <2>1, <3>1
  <2>4. ASSUME pc[d] = "deleteGTPU"
        PROVE  \E s \in Reqs : IsCreate(s) /\ job[s].id = job[d].id /\ n3'[s] = "closed"
    <3>1. PICK s \in Reqs : IsCreate(s) /\ job[s].id = job[d].id /\ n3[s] = "closed"
      BY <2>4 DEF IInv, DeleteInv
    <3> QED BY <2>1, <3>1
  <2> QED BY <2>2, <2>3, <2>4
<1>14. ConnectedInv'
  <2>1. DeletedNodes' = DeletedNodes /\ NamedNodes' = NamedNodes
    BY <1>2, <1>3, <1>4, CreateMoves DEF IInv
  <2> SUFFICES ASSUME NEW s \in Reqs, IsCreate(s), job[s].id \in stored'[job[s].kind],
                      <<job[s].kind, job[s].id>> \notin DeletedNodes'
               PROVE  Connected(s)'
    BY <1>4 DEF ConnectedInv
  <2>2. job[s].id \in stored[job[s].kind] /\ <<job[s].kind, job[s].id>> \notin DeletedNodes
    BY <1>1, <1>2, <1>3, <1>4, <2>1 DEF IInv, TypeOK, JobTypes
  <2>3. Connected(s)
    BY <2>2 DEF IInv, ConnectedInv
  <2>4. CASE s = r
    BY <1>2, <1>3, <1>4, <2>1, <2>3, <2>4 DEF Connected, IInv, PlaceInv
  <2>5. CASE s # r
    BY <1>2, <1>3, <1>4, <2>1, <2>3, <2>5 DEF Connected, IInv, PlaceInv
  <2> QED BY <2>4, <2>5
<1> QED BY <1>5, <1>6, <1>7, <1>8, <1>9, <1>10, <1>11, <1>12, <1>13, <1>14 DEF IInv

\* The endpoint goes into the map under an id no other create has.
LEMMA RegisterGTPUPreserves == ASSUME IInv, NEW r \in Reqs, RegisterGTPU(r) PROVE IInv'
<1>1. JobTypes /\ 0 \notin Ids
  BY JobFacts DEF IInv
<1>2. IsCreate(r) /\ pc[r] = "listening"
  BY DEF RegisterGTPU, At
<1>3. PICK l \in {"ready"} : pc' = [pc EXCEPT ![r] = l]
           /\ gtpu' = [gtpu EXCEPT ![job[r].id] = r]
  BY DEF RegisterGTPU, Goto
<1>4. UNCHANGED <<up, nextID, job, stored, transports, assoc, n3>>
  BY DEF RegisterGTPU
<1>5. TypeOK'
  BY <1>3, <1>4 DEF IInv, TypeOK, Sockets
<1>6. PlaceInv'
  BY <1>2, <1>3, <1>4 DEF IInv, PlaceInv
<1>7. NumberInv'
  BY <1>2, <1>3, <1>4 DEF IInv, PlaceInv, NumberInv, Numbered
<1>8. TransportsInv'
  BY <1>2, <1>3, <1>4 DEF IInv, PlaceInv, TransportsInv
<1>9. GTPUInv'
  BY <1>2, <1>3, <1>4 DEF IInv, PlaceInv, GTPUInv
<1>10. StoredInv'
  BY <1>2, <1>3, <1>4 DEF IInv, PlaceInv, StoredInv
<1>11. AssocInv'
  BY <1>2, <1>3, <1>4 DEF IInv, PlaceInv, AssocInv
<1>12. N3Inv'
  BY <1>1, <1>2, <1>3, <1>4, NodesAssumption DEF IInv, TypeOK, JobTypes, PlaceInv, NumberInv,
     Numbered, GTPUInv, N3Inv, DeleteInv
<1>13. DeleteInv'
  BY <1>2, <1>3, <1>4 DEF IInv, PlaceInv, DeleteInv
<1>14. ConnectedInv'
  <2>1. DeletedNodes' = DeletedNodes /\ NamedNodes' = NamedNodes
    BY <1>2, <1>3, <1>4, CreateMoves DEF IInv
  <2> SUFFICES ASSUME NEW s \in Reqs, IsCreate(s), job[s].id \in stored'[job[s].kind],
                      <<job[s].kind, job[s].id>> \notin DeletedNodes'
               PROVE  Connected(s)'
    BY <1>4 DEF ConnectedInv
  <2>2. job[s].id \in stored[job[s].kind] /\ <<job[s].kind, job[s].id>> \notin DeletedNodes
    BY <1>1, <1>2, <1>3, <1>4, <2>1 DEF IInv, TypeOK, JobTypes
  <2>3. Connected(s)
    BY <2>2 DEF IInv, ConnectedInv
  <2>4. CASE s = r
    BY <1>1, <1>2, <1>3, <1>4, <2>1, <2>2, <2>3, <2>4 DEF Connected, IInv, TypeOK, JobTypes,
       PlaceInv, TransportsInv, AssocInv, N3Inv
  <2>5. CASE s # r
    BY <1>1, <1>2, <1>3, <1>4, <2>1, <2>2, <2>3, <2>5, IdsUnique DEF Connected, IInv, TypeOK,
       JobTypes, PlaceInv
  <2> QED BY <2>4, <2>5
<1> QED BY <1>5, <1>6, <1>7, <1>8, <1>9, <1>10, <1>11, <1>12, <1>13, <1>14 DEF IInv

\* The setup request moves its create only.
LEMMA SendSetupPreserves == ASSUME IInv, NEW r \in Reqs, SendSetup(r) PROVE IInv'
<1>1. JobTypes /\ 0 \notin Ids
  BY JobFacts DEF IInv
<1>2. IsCreate(r) /\ pc[r] = "ready"
  BY DEF SendSetup, At
<1>3. PICK l \in {"created", "waiting", "teardown"} : pc' = [pc EXCEPT ![r] = l]
  BY DEF SendSetup, Goto
<1>4. UNCHANGED <<up, nextID, job, stored, transports, gtpu, assoc, n3>>
  BY DEF SendSetup
<1>5. TypeOK'
  BY <1>3, <1>4 DEF IInv, TypeOK, Sockets
<1>6. PlaceInv'
  BY <1>2, <1>3, <1>4 DEF IInv, PlaceInv
<1>7. NumberInv'
  BY <1>2, <1>3, <1>4 DEF IInv, PlaceInv, NumberInv, Numbered
<1>8. TransportsInv'
  BY <1>2, <1>3, <1>4 DEF IInv, PlaceInv, TransportsInv
<1>9. GTPUInv'
  BY <1>2, <1>3, <1>4 DEF IInv, PlaceInv, GTPUInv
<1>10. StoredInv'
  BY <1>2, <1>3, <1>4 DEF IInv, PlaceInv, StoredInv
<1>11. AssocInv'
  BY <1>2, <1>3, <1>4 DEF IInv, PlaceInv, AssocInv
<1>12. N3Inv'
  BY <1>2, <1>3, <1>4 DEF IInv, PlaceInv, N3Inv
<1>13. DeleteInv'
  BY <1>2, <1>3, <1>4 DEF IInv, PlaceInv, DeleteInv
<1>14. ConnectedInv'
  <2>1. DeletedNodes' = DeletedNodes /\ NamedNodes' = NamedNodes
    BY <1>2, <1>3, <1>4, CreateMoves DEF IInv
  <2> SUFFICES ASSUME NEW s \in Reqs, IsCreate(s), job[s].id \in stored'[job[s].kind],
                      <<job[s].kind, job[s].id>> \notin DeletedNodes'
               PROVE  Connected(s)'
    BY <1>4 DEF ConnectedInv
  <2>2. job[s].id \in stored[job[s].kind] /\ <<job[s].kind, job[s].id>> \notin DeletedNodes
    BY <1>1, <1>2, <1>3, <1>4, <2>1 DEF IInv, TypeOK, JobTypes
  <2>3. Connected(s)
    BY <2>2 DEF IInv, ConnectedInv
  <2>4. CASE s = r
    BY <1>2, <1>3, <1>4, <2>1, <2>3, <2>4 DEF Connected, IInv, PlaceInv
  <2>5. CASE s # r
    BY <1>2, <1>3, <1>4, <2>1, <2>3, <2>5 DEF Connected, IInv, PlaceInv
  <2> QED BY <2>4, <2>5
<1> QED BY <1>5, <1>6, <1>7, <1>8, <1>9, <1>10, <1>11, <1>12, <1>13, <1>14 DEF IInv

\* The wait for the setup answer moves its create only.
LEMMA AwaitSetupPreserves == ASSUME IInv, NEW r \in Reqs, AwaitSetup(r) PROVE IInv'
<1>1. JobTypes /\ 0 \notin Ids
  BY JobFacts DEF IInv
<1>2. IsCreate(r) /\ pc[r] = "waiting"
  BY DEF AwaitSetup, At
<1>3. PICK l \in {"created", "teardown"} : pc' = [pc EXCEPT ![r] = l]
  BY DEF AwaitSetup, Goto
<1>4. UNCHANGED <<up, nextID, job, stored, transports, gtpu, assoc, n3>>
  BY DEF AwaitSetup
<1>5. TypeOK'
  BY <1>3, <1>4 DEF IInv, TypeOK, Sockets
<1>6. PlaceInv'
  BY <1>2, <1>3, <1>4 DEF IInv, PlaceInv
<1>7. NumberInv'
  BY <1>2, <1>3, <1>4 DEF IInv, PlaceInv, NumberInv, Numbered
<1>8. TransportsInv'
  BY <1>2, <1>3, <1>4 DEF IInv, PlaceInv, TransportsInv
<1>9. GTPUInv'
  BY <1>2, <1>3, <1>4 DEF IInv, PlaceInv, GTPUInv
<1>10. StoredInv'
  BY <1>2, <1>3, <1>4 DEF IInv, PlaceInv, StoredInv
<1>11. AssocInv'
  BY <1>2, <1>3, <1>4 DEF IInv, PlaceInv, AssocInv
<1>12. N3Inv'
  BY <1>2, <1>3, <1>4 DEF IInv, PlaceInv, N3Inv
<1>13. DeleteInv'
  BY <1>2, <1>3, <1>4 DEF IInv, PlaceInv, DeleteInv
<1>14. ConnectedInv'
  <2>1. DeletedNodes' = DeletedNodes /\ NamedNodes' = NamedNodes
    BY <1>2, <1>3, <1>4, CreateMoves DEF IInv
  <2> SUFFICES ASSUME NEW s \in Reqs, IsCreate(s), job[s].id \in stored'[job[s].kind],
                      <<job[s].kind, job[s].id>> \notin DeletedNodes'
               PROVE  Connected(s)'
    BY <1>4 DEF ConnectedInv
  <2>2. job[s].id \in stored[job[s].kind] /\ <<job[s].kind, job[s].id>> \notin DeletedNodes
    BY <1>1, <1>2, <1>3, <1>4, <2>1 DEF IInv, TypeOK, JobTypes
  <2>3. Connected(s)
    BY <2>2 DEF IInv, ConnectedInv
  <2>4. CASE s = r
    BY <1>2, <1>3, <1>4, <2>1, <2>3, <2>4 DEF Connected, IInv, PlaceInv
  <2>5. CASE s # r
    BY <1>2, <1>3, <1>4, <2>1, <2>3, <2>5 DEF Connected, IInv, PlaceInv
  <2> QED BY <2>4, <2>5
<1> QED BY <1>5, <1>6, <1>7, <1>8, <1>9, <1>10, <1>11, <1>12, <1>13, <1>14 DEF IInv

\* The association that teardown closes is its create's own.
LEMMA TeardownTransportPreserves == ASSUME IInv, NEW r \in Reqs, TeardownTransport(r) PROVE IInv'
<1>1. JobTypes /\ 0 \notin Ids
  BY JobFacts DEF IInv
<1>2. IsCreate(r) /\ pc[r] = "teardown"
  BY DEF TeardownTransport, At
<1>3. PICK l \in {"teardownN3"} : pc' = [pc EXCEPT ![r] = l]
           /\ assoc' = [assoc EXCEPT ![r] = "closed"]
  BY DEF TeardownTransport, Goto
<1>4. UNCHANGED <<up, nextID, job, stored, transports, gtpu, n3>>
  BY DEF TeardownTransport
<1>5. TypeOK'
  BY <1>3, <1>4 DEF IInv, TypeOK, Sockets
<1>6. PlaceInv'
  BY <1>2, <1>3, <1>4 DEF IInv, PlaceInv
<1>7. NumberInv'
  BY <1>2, <1>3, <1>4 DEF IInv, PlaceInv, NumberInv, Numbered
<1>8. TransportsInv'
  BY <1>2, <1>3, <1>4 DEF IInv, PlaceInv, TransportsInv
<1>9. GTPUInv'
  BY <1>2, <1>3, <1>4 DEF IInv, PlaceInv, GTPUInv
<1>10. StoredInv'
  BY <1>2, <1>3, <1>4 DEF IInv, PlaceInv, StoredInv
<1>11. AssocInv'
  BY <1>2, <1>3, <1>4 DEF IInv, TypeOK, PlaceInv, AssocInv
<1>12. N3Inv'
  BY <1>2, <1>3, <1>4 DEF IInv, PlaceInv, N3Inv
<1>13. DeleteInv'
  BY <1>2, <1>3, <1>4 DEF IInv, PlaceInv, DeleteInv
<1>14. ConnectedInv'
  <2>1. DeletedNodes' = DeletedNodes /\ NamedNodes' = NamedNodes
    BY <1>2, <1>3, <1>4, CreateMoves DEF IInv
  <2> SUFFICES ASSUME NEW s \in Reqs, IsCreate(s), job[s].id \in stored'[job[s].kind],
                      <<job[s].kind, job[s].id>> \notin DeletedNodes'
               PROVE  Connected(s)'
    BY <1>4 DEF ConnectedInv
  <2>2. job[s].id \in stored[job[s].kind] /\ <<job[s].kind, job[s].id>> \notin DeletedNodes
    BY <1>1, <1>2, <1>3, <1>4, <2>1 DEF IInv, TypeOK, JobTypes
  <2>3. Connected(s)
    BY <2>2 DEF IInv, ConnectedInv
  <2>4. CASE s = r
    BY <1>2, <1>3, <1>4, <2>1, <2>3, <2>4 DEF Connected, IInv, PlaceInv
  <2>5. CASE s # r
    BY <1>2, <1>3, <1>4, <2>1, <2>3, <2>5 DEF Connected, IInv, PlaceInv
  <2> QED BY <2>4, <2>5
<1> QED BY <1>5, <1>6, <1>7, <1>8, <1>9, <1>10, <1>11, <1>12, <1>13, <1>14 DEF IInv

\* What the map holds under the id of a create is that create's endpoint.
LEMMA TeardownN3Preserves == ASSUME IInv, NEW r \in Reqs, TeardownN3(r) PROVE IInv'
<1>1. JobTypes /\ 0 \notin Ids
  BY JobFacts DEF IInv
<1>2. IsCreate(r) /\ pc[r] = "teardownN3"
  BY DEF TeardownN3, At
<1>3. PICK l \in {"teardownStore", "teardownGTPU"} : pc' = [pc EXCEPT ![r] = l]
           /\ n3' = Closed(n3, gtpu[job[r].id])
           /\ l = IF gtpu[job[r].id] = NoReq THEN "teardownStore" ELSE "teardownGTPU"
  BY DEF TeardownN3, Goto
<1>4. UNCHANGED <<up, nextID, job, stored, transports, gtpu, assoc>>
  BY DEF TeardownN3
<1>5. TypeOK'
  BY <1>3, <1>4 DEF IInv, TypeOK, Sockets, Closed
<1>6. PlaceInv'
  BY <1>2, <1>3, <1>4 DEF IInv, PlaceInv
<1>7. NumberInv'
  BY <1>2, <1>3, <1>4 DEF IInv, PlaceInv, NumberInv, Numbered
<1>8. TransportsInv'
  BY <1>2, <1>3, <1>4 DEF IInv, PlaceInv, TransportsInv
<1>9. GTPUInv'
  BY <1>1, <1>2, <1>3, <1>4, NodesAssumption DEF IInv, TypeOK, JobTypes, PlaceInv, NumberInv,
     GTPUInv
<1>10. StoredInv'
  BY <1>2, <1>3, <1>4 DEF IInv, PlaceInv, StoredInv
<1>11. AssocInv'
  BY <1>2, <1>3, <1>4 DEF IInv, PlaceInv, AssocInv, Closed
<1>12. N3Inv'
  BY <1>1, <1>2, <1>3, <1>4 DEF IInv, TypeOK, JobTypes, PlaceInv, NumberInv, GTPUInv, N3Inv,
     Closed
<1>13. DeleteInv'
  BY <1>2, <1>3, <1>4 DEF IInv, TypeOK, PlaceInv, DeleteInv, Closed
<1>14. ConnectedInv'
  <2>1. DeletedNodes' = DeletedNodes /\ NamedNodes' = NamedNodes
    BY <1>2, <1>3, <1>4, CreateMoves DEF IInv
  <2> SUFFICES ASSUME NEW s \in Reqs, IsCreate(s), job[s].id \in stored'[job[s].kind],
                      <<job[s].kind, job[s].id>> \notin DeletedNodes'
               PROVE  Connected(s)'
    BY <1>4 DEF ConnectedInv
  <2>2. job[s].id \in stored[job[s].kind] /\ <<job[s].kind, job[s].id>> \notin DeletedNodes
    BY <1>1, <1>2, <1>3, <1>4, <2>1 DEF IInv, TypeOK, JobTypes
  <2>3. Connected(s)
    BY <2>2 DEF IInv, ConnectedInv
  <2>4. CASE s = r
    BY <1>2, <1>3, <1>4, <2>1, <2>3, <2>4 DEF Connected, IInv, PlaceInv
  <2>5. CASE s # r
    <3>1. job[s].id \in Ids /\ job[s].id # job[r].id
      <4>1. job[s].id \in Ids
        BY <1>1, <2>2 DEF IInv, TypeOK, JobTypes
      <4> QED BY <1>2, <2>5, <4>1, IdsUnique DEF IInv
    <3>2. n3[s] = "open" => n3'[s] = "open"
      BY <1>1, <1>2, <1>3, <3>1 DEF IInv, GTPUInv, JobTypes, NumberInv, Closed
    <3> QED BY <1>3, <1>4, <2>1, <2>3, <2>5, <3>2 DEF Connected, IInv, PlaceInv
  <2> QED BY <2>4, <2>5
<1> QED BY <1>5, <1>6, <1>7, <1>8, <1>9, <1>10, <1>11, <1>12, <1>13, <1>14 DEF IInv

\* The entry is forgotten after its endpoint was closed.
LEMMA TeardownGTPUPreserves == ASSUME IInv, NEW r \in Reqs, TeardownGTPU(r) PROVE IInv'
<1>1. JobTypes /\ 0 \notin Ids
  BY JobFacts DEF IInv
<1>2. IsCreate(r) /\ pc[r] = "teardownGTPU"
  BY DEF TeardownGTPU, At
<1>3. PICK l \in {"teardownStore"} : pc' = [pc EXCEPT ![r] = l]
           /\ gtpu' = [gtpu EXCEPT ![job[r].id] = NoReq]
  BY DEF TeardownGTPU, Goto
<1>4. UNCHANGED <<up, nextID, job, stored, transports, assoc, n3>>
  BY DEF TeardownGTPU
<1>5. TypeOK'
  BY <1>3, <1>4 DEF IInv, TypeOK, Sockets
<1>6. PlaceInv'
  BY <1>2, <1>3, <1>4 DEF IInv, PlaceInv
<1>7. NumberInv'
  BY <1>2, <1>3, <1>4 DEF IInv, PlaceInv, NumberInv, Numbered
<1>8. TransportsInv'
  BY <1>2, <1>3, <1>4 DEF IInv, PlaceInv, TransportsInv
<1>9. GTPUInv'
  BY <1>1, <1>2, <1>3, <1>4, NodesAssumption DEF IInv, TypeOK, JobTypes, PlaceInv, NumberInv,
     GTPUInv
<1>10. StoredInv'
  BY <1>2, <1>3, <1>4 DEF IInv, PlaceInv, StoredInv
<1>11. AssocInv'
  BY <1>2, <1>3, <1>4 DEF IInv, PlaceInv, AssocInv
<1>12. N3Inv'
  BY <1>1, <1>2, <1>3, <1>4, NodesAssumption DEF IInv, TypeOK, JobTypes, PlaceInv, NumberInv,
     Numbered, GTPUInv, N3Inv, DeleteInv
<1>13. DeleteInv'
  BY <1>2, <1>3, <1>4 DEF IInv, PlaceInv, DeleteInv
<1>14. ConnectedInv'
  <2>1. DeletedNodes' = DeletedNodes /\ NamedNodes' = NamedNodes
    BY <1>2, <1>3, <1>4, CreateMoves DEF IInv
  <2> SUFFICES ASSUME NEW s \in Reqs, IsCreate(s), job[s].id \in stored'[job[s].kind],
                      <<job[s].kind, job[s].id>> \notin DeletedNodes'
               PROVE  Connected(s)'
    BY <1>4 DEF ConnectedInv
  <2>2. job[s].id \in stored[job[s].kind] /\ <<job[s].kind, job[s].id>> \notin DeletedNodes
    BY <1>1, <1>2, <1>3, <1>4, <2>1 DEF IInv, TypeOK, JobTypes
  <2>3. Connected(s)
    BY <2>2 DEF IInv, ConnectedInv
  <2>4. CASE s = r
    BY <1>2, <1>3, <1>4, <2>1, <2>3, <2>4 DEF Connected, IInv, PlaceInv
  <2>5. CASE s # r
    BY <1>1, <1>2, <1>3, <1>4, <2>1, <2>2, <2>3, <2>5, IdsUnique DEF Connected, IInv, TypeOK,
       JobTypes, PlaceInv
  <2> QED BY <2>4, <2>5
<1> QED BY <1>5, <1>6, <1>7, <1>8, <1>9, <1>10, <1>11, <1>12, <1>13, <1>14 DEF IInv

\* The node that teardown forgets is its create's own.
LEMMA TeardownStorePreserves == ASSUME IInv, NEW r \in Reqs, TeardownStore(r) PROVE IInv'
<1>1. JobTypes /\ 0 \notin Ids
  BY JobFacts DEF IInv
<1>2. IsCreate(r) /\ pc[r] = "teardownStore"
  BY DEF TeardownStore, At
<1>3. PICK l \in {"teardownMap"} : pc' = [pc EXCEPT ![r] = l]
           /\ stored' = [stored EXCEPT ![job[r].kind] = @ \ {job[r].id}]
  BY DEF TeardownStore, Goto
<1>4. UNCHANGED <<up, nextID, job, transports, gtpu, assoc, n3>>
  BY DEF TeardownStore
<1>5. TypeOK'
  BY <1>3, <1>4 DEF IInv, TypeOK, Sockets
<1>6. PlaceInv'
  BY <1>2, <1>3, <1>4 DEF IInv, PlaceInv
<1>7. NumberInv'
  BY <1>2, <1>3, <1>4 DEF IInv, PlaceInv, NumberInv, Numbered
<1>8. TransportsInv'
  BY <1>2, <1>3, <1>4 DEF IInv, PlaceInv, TransportsInv
<1>9. GTPUInv'
  BY <1>2, <1>3, <1>4 DEF IInv, PlaceInv, GTPUInv
<1>10. StoredInv'
  BY <1>1, <1>2, <1>3, <1>4 DEF IInv, TypeOK, JobTypes, PlaceInv, NumberInv, StoredInv
<1>11. AssocInv'
  BY <1>2, <1>3, <1>4 DEF IInv, PlaceInv, AssocInv
<1>12. N3Inv'
  BY <1>2, <1>3, <1>4 DEF IInv, PlaceInv, N3Inv
<1>13. DeleteInv'
  BY <1>2, <1>3, <1>4 DEF IInv, PlaceInv, DeleteInv
<1>14. ConnectedInv'
  <2>1. DeletedNodes' = DeletedNodes /\ NamedNodes' = NamedNodes
    BY <1>2, <1>3, <1>4, CreateMoves DEF IInv
  <2> SUFFICES ASSUME NEW s \in Reqs, IsCreate(s), job[s].id \in stored'[job[s].kind],
                      <<job[s].kind, job[s].id>> \notin DeletedNodes'
               PROVE  Connected(s)'
    BY <1>4 DEF ConnectedInv
  <2>2. job[s].id \in stored[job[s].kind] /\ <<job[s].kind, job[s].id>> \notin DeletedNodes
    BY <1>1, <1>2, <1>3, <1>4, <2>1 DEF IInv, TypeOK, JobTypes
  <2>3. Connected(s)
    BY <2>2 DEF IInv, ConnectedInv
  <2>4. CASE s = r
    BY <1>2, <1>3, <1>4, <2>1, <2>3, <2>4 DEF Connected, IInv, PlaceInv
  <2>5. CASE s # r
    BY <1>2, <1>3, <1>4, <2>1, <2>3, <2>5 DEF Connected, IInv, PlaceInv
  <2> QED BY <2>4, <2>5
<1> QED BY <1>5, <1>6, <1>7, <1>8, <1>9, <1>10, <1>11, <1>12, <1>13, <1>14 DEF IInv

\* The entry is forgotten after its association was closed.
LEMMA TeardownMapPreserves == ASSUME IInv, NEW r \in Reqs, TeardownMap(r) PROVE IInv'
<1>1. JobTypes /\ 0 \notin Ids
  BY JobFacts DEF IInv
<1>2. IsCreate(r) /\ pc[r] = "teardownMap"
  BY DEF TeardownMap, At
<1>3. PICK l \in {"failed"} : pc' = [pc EXCEPT ![r] = l]
           /\ transports' = [transports EXCEPT ![job[r].kind][job[r].id] = NoReq]
  BY DEF TeardownMap, Goto
<1>4. UNCHANGED <<up, nextID, job, stored, gtpu, assoc, n3>>
  BY DEF TeardownMap
<1>5. TypeOK'
  BY <1>3, <1>4 DEF IInv, TypeOK, Sockets
<1>6. PlaceInv'
  BY <1>2, <1>3, <1>4 DEF IInv, PlaceInv
<1>7. NumberInv'
  BY <1>2, <1>3, <1>4 DEF IInv, PlaceInv, NumberInv, Numbered
<1>8. TransportsInv'
  <2>1. \A k \in Kinds, i \in Ids, s \in Reqs : transports'[k][i] = s =>
           transports[k][i] = s /\ ~(k = job[r].kind /\ i = job[r].id)
    BY <1>1, <1>2, <1>3, <1>4, NodesAssumption DEF IInv, TypeOK, JobTypes
  <2> QED BY <1>2, <1>3, <1>4, <2>1 DEF IInv, TransportsInv, PlaceInv
<1>9. GTPUInv'
  BY <1>2, <1>3, <1>4 DEF IInv, PlaceInv, GTPUInv
<1>10. StoredInv'
  BY <1>2, <1>3, <1>4 DEF IInv, PlaceInv, StoredInv
<1>11. AssocInv'
  BY <1>1, <1>2, <1>3, <1>4, NodesAssumption DEF IInv, TypeOK, JobTypes, PlaceInv, NumberInv,
     Numbered, TransportsInv, AssocInv, DeleteInv
<1>12. N3Inv'
  BY <1>2, <1>3, <1>4 DEF IInv, PlaceInv, N3Inv
<1>13. DeleteInv'
  BY <1>2, <1>3, <1>4 DEF IInv, PlaceInv, DeleteInv
<1>14. ConnectedInv'
  <2>1. DeletedNodes' = DeletedNodes /\ NamedNodes' = NamedNodes
    BY <1>2, <1>3, <1>4, CreateMoves DEF IInv
  <2> SUFFICES ASSUME NEW s \in Reqs, IsCreate(s), job[s].id \in stored'[job[s].kind],
                      <<job[s].kind, job[s].id>> \notin DeletedNodes'
               PROVE  Connected(s)'
    BY <1>4 DEF ConnectedInv
  <2>2. job[s].id \in stored[job[s].kind] /\ <<job[s].kind, job[s].id>> \notin DeletedNodes
    BY <1>1, <1>2, <1>3, <1>4, <2>1 DEF IInv, TypeOK, JobTypes
  <2>3. Connected(s)
    BY <2>2 DEF IInv, ConnectedInv
  <2>4. CASE s = r
    BY <1>2, <1>3, <1>4, <2>1, <2>3, <2>4 DEF Connected, IInv, PlaceInv
  <2>5. CASE s # r
    BY <1>1, <1>2, <1>3, <1>4, <2>1, <2>2, <2>3, <2>5, IdsUnique DEF Connected, IInv, TypeOK,
       JobTypes, PlaceInv
  <2> QED BY <2>4, <2>5
<1> QED BY <1>5, <1>6, <1>7, <1>8, <1>9, <1>10, <1>11, <1>12, <1>13, <1>14 DEF IInv

\* A delete that has closed an association is at the node that had it.
LEMMA DeleteTransportPreserves == ASSUME IInv, NEW r \in Reqs, DeleteTransport(r) PROVE IInv'
<1>1. JobTypes /\ 0 \notin Ids
  BY JobFacts DEF IInv
<1>2. IsDelete(r) /\ pc[r] = "start"
  BY DEF DeleteTransport, At
<1>3. PICK l \in {"deleteN3", "deleteMap"} : pc' = [pc EXCEPT ![r] = l]
           /\ assoc' = Closed(assoc, Entry(r))
           /\ l = IF Entry(r) = NoReq THEN "deleteN3" ELSE "deleteMap"
  BY DEF DeleteTransport, Goto
<1>4. UNCHANGED <<up, nextID, job, stored, transports, gtpu, n3>>
  BY DEF DeleteTransport
<1>5. TypeOK'
  BY <1>3, <1>4 DEF IInv, TypeOK, Sockets, Closed, Entry
<1>6. PlaceInv'
  BY <1>2, <1>3, <1>4 DEF IInv, PlaceInv
<1>7. NumberInv'
  BY <1>2, <1>3, <1>4 DEF IInv, PlaceInv, NumberInv, Numbered
<1>8. TransportsInv'
  BY <1>2, <1>3, <1>4 DEF IInv, PlaceInv, TransportsInv
<1>9. GTPUInv'
  BY <1>2, <1>3, <1>4 DEF IInv, PlaceInv, GTPUInv
<1>10. StoredInv'
  BY <1>2, <1>3, <1>4 DEF IInv, PlaceInv, StoredInv
<1>11. AssocInv'
  <2>1. \A s \in Reqs : assoc'[s] = "open" => assoc[s] = "open"
    BY <1>3 DEF Closed
  <2>2. \A s \in Reqs : IsCreate(s) /\ pc[s] \in {"dialled", "stored"} => assoc'[s] = assoc[s]
    BY <1>1, <1>2, <1>3 DEF IInv, TransportsInv, JobTypes, Closed, Entry
  <2> QED BY <1>1, <1>2, <1>3, <1>4, <2>1, <2>2 DEF IInv, AssocInv, PlaceInv, JobTypes
<1>12. N3Inv'
  BY <1>2, <1>3, <1>4 DEF IInv, PlaceInv, N3Inv, Closed, Entry
<1>13. DeleteInv'
  <2>1. \A s \in Reqs : /\ assoc[s] = "closed" => assoc'[s] = "closed"
                        /\ n3[s] = "closed" => n3'[s] = "closed"
    BY <1>2, <1>3, <1>4 DEF IInv, TypeOK, N3Inv, AssocInv, Closed, Sockets
  <2>2. l = "deleteMap" =>
          \E s \in Reqs : /\ IsCreate(s) /\ job[s].kind = job[r].kind
                          /\ job[s].id = job[r].id /\ assoc'[s] = "closed"
    <3>1. CASE Entry(r) = NoReq
      BY <1>3, <3>1
    <3>2. CASE Entry(r) # NoReq
      <4>1. Entry(r) \in Reqs
        BY <1>1, <1>2, <3>2 DEF IInv, TypeOK, JobTypes, Entry
      <4>2. /\ IsCreate(Entry(r)) /\ job[Entry(r)].kind = job[r].kind
            /\ job[Entry(r)].id = job[r].id
        BY <1>1, <1>2, <4>1 DEF IInv, TransportsInv, JobTypes, Entry
      <4>3. assoc'[Entry(r)] = "closed"
        BY <1>3, <4>1 DEF Closed
      <4> QED BY <4>1, <4>2, <4>3
    <3> QED BY <3>1, <3>2
  <2> SUFFICES ASSUME NEW d \in Reqs, IsDelete(d)
               PROVE  /\ pc'[d] = "deleteMap" => \E s \in Reqs :
                           /\ IsCreate(s) /\ job[s].kind = job[d].kind
                           /\ job[s].id = job[d].id /\ assoc'[s] = "closed"
                      /\ pc'[d] = "deleteGTPU" => \E s \in Reqs :
                           IsCreate(s) /\ job[s].id = job[d].id /\ n3'[s] = "closed"
    BY <1>4 DEF DeleteInv
  <2>3. CASE d = r
    BY <1>3, <2>2, <2>3 DEF IInv, PlaceInv
  <2>4. CASE d # r
    <3>0. pc'[d] = pc[d]
      BY <1>3, <2>4 DEF IInv, PlaceInv
    <3>1. ASSUME pc[d] = "deleteMap"
          PROVE  \E s \in Reqs : /\ IsCreate(s) /\ job[s].kind = job[d].kind
                                 /\ job[s].id = job[d].id /\ assoc'[s] = "closed"
      <4>1. PICK s \in Reqs : /\ IsCreate(s) /\ job[s].kind = job[d].kind
                              /\ job[s].id = job[d].id /\ assoc[s] = "closed"
        BY <3>1 DEF IInv, DeleteInv
      <4> QED BY <2>1, <4>1
    <3>2. ASSUME pc[d] = "deleteGTPU"
          PROVE  \E s \in Reqs : IsCreate(s) /\ job[s].id = job[d].id /\ n3'[s] = "closed"
      <4>1. PICK s \in Reqs : IsCreate(s) /\ job[s].id = job[d].id /\ n3[s] = "closed"
        BY <3>2 DEF IInv, DeleteInv
      <4> QED BY <2>1, <4>1
    <3> QED BY <3>0, <3>1, <3>2
  <2> QED BY <2>3, <2>4
<1>14. ConnectedInv'
  <2>1. /\ DeletedNodes \subseteq DeletedNodes' \cup {<<job[r].kind, job[r].id>>}
        /\ NamedNodes \cup {<<job[r].kind, job[r].id>>} \subseteq NamedNodes'
        /\ <<job[r].kind, job[r].id>> \in DeletedNodes'
    BY <1>2, <1>3, <1>4, DeleteMoves DEF IInv
  <2> SUFFICES ASSUME NEW s \in Reqs, IsCreate(s), job[s].id \in stored'[job[s].kind],
                      <<job[s].kind, job[s].id>> \notin DeletedNodes'
               PROVE  Connected(s)'
    BY <1>4 DEF ConnectedInv
  <2>2. job[s].id \in stored[job[s].kind] /\ <<job[s].kind, job[s].id>> \notin DeletedNodes
    BY <1>1, <1>2, <1>3, <1>4, <2>1 DEF IInv, TypeOK, JobTypes
  <2>3. Connected(s)
    BY <2>2 DEF IInv, ConnectedInv
  <2>4. job[s].id \in Ids /\ ~(job[s].kind = job[r].kind /\ job[s].id = job[r].id)
    BY <1>1, <2>1, <2>2 DEF IInv, TypeOK, JobTypes
  <2>5. (pc[s] \in Building => assoc[s] = "open" /\ transports[job[s].kind][job[s].id] = s)'
    BY <1>1, <1>2, <1>3, <1>4, <2>3, <2>4, NodesAssumption
    DEF Connected, IInv, TypeOK, JobTypes, PlaceInv, TransportsInv, Closed, Entry
  <2>6. ASSUME (pc[s] \in {"ready", "waiting", "created"} /\ job[s].n3 # {})',
               \A k \in Kinds \ {job[s].kind} : <<k, job[s].id>> \notin NamedNodes'
        PROVE  (n3[s] = "open" /\ gtpu[job[s].id] = s)'
    <3>1. job[s].id # job[r].id
      BY <1>1, <2>1, <2>4, <2>6 DEF JobTypes
    <3>2. n3[s] = "open" /\ gtpu[job[s].id] = s
      BY <1>2, <1>3, <1>4, <2>1, <2>3, <2>6 DEF Connected, IInv, PlaceInv
    <3> QED BY <1>1, <1>2, <1>3, <1>4, <2>4, <3>1, <3>2 DEF IInv, TypeOK, JobTypes, GTPUInv, Closed
  <2> QED BY <1>4, <2>5, <2>6 DEF Connected
<1> QED BY <1>5, <1>6, <1>7, <1>8, <1>9, <1>10, <1>11, <1>12, <1>13, <1>14 DEF IInv

\* The entry a delete forgets is of the association it closed.
LEMMA DeleteMapPreserves == ASSUME IInv, NEW r \in Reqs, DeleteMap(r) PROVE IInv'
<1>1. JobTypes /\ 0 \notin Ids
  BY JobFacts DEF IInv
<1>2. IsDelete(r) /\ pc[r] = "deleteMap"
  BY DEF DeleteMap, At
<1>3. PICK l \in {"deleteN3"} : pc' = [pc EXCEPT ![r] = l]
           /\ transports' = [transports EXCEPT ![job[r].kind][job[r].id] = NoReq]
  BY DEF DeleteMap, Goto
<1>4. UNCHANGED <<up, nextID, job, stored, gtpu, assoc, n3>>
  BY DEF DeleteMap
<1>5. TypeOK'
  BY <1>3, <1>4 DEF IInv, TypeOK, Sockets
<1>6. PlaceInv'
  BY <1>2, <1>3, <1>4 DEF IInv, PlaceInv
<1>7. NumberInv'
  BY <1>2, <1>3, <1>4 DEF IInv, PlaceInv, NumberInv, Numbered
<1>8. TransportsInv'
  <2>1. \A k \in Kinds, i \in Ids, s \in Reqs : transports'[k][i] = s =>
           transports[k][i] = s /\ ~(k = job[r].kind /\ i = job[r].id)
    BY <1>1, <1>2, <1>3, <1>4, NodesAssumption DEF IInv, TypeOK, JobTypes
  <2> QED BY <1>2, <1>3, <1>4, <2>1 DEF IInv, TransportsInv, PlaceInv
<1>9. GTPUInv'
  BY <1>2, <1>3, <1>4 DEF IInv, PlaceInv, GTPUInv
<1>10. StoredInv'
  BY <1>2, <1>3, <1>4 DEF IInv, PlaceInv, StoredInv
<1>11. AssocInv'
  BY <1>1, <1>2, <1>3, <1>4, NodesAssumption DEF IInv, TypeOK, JobTypes, PlaceInv, NumberInv,
     Numbered, TransportsInv, AssocInv, DeleteInv
<1>12. N3Inv'
  BY <1>2, <1>3, <1>4 DEF IInv, PlaceInv, N3Inv
<1>13. DeleteInv'
  BY <1>2, <1>3, <1>4 DEF IInv, PlaceInv, DeleteInv
<1>14. ConnectedInv'
  <2>1. /\ DeletedNodes \subseteq DeletedNodes' \cup {<<job[r].kind, job[r].id>>}
        /\ NamedNodes \cup {<<job[r].kind, job[r].id>>} \subseteq NamedNodes'
        /\ <<job[r].kind, job[r].id>> \in DeletedNodes'
    BY <1>2, <1>3, <1>4, DeleteMoves DEF IInv
  <2> SUFFICES ASSUME NEW s \in Reqs, IsCreate(s), job[s].id \in stored'[job[s].kind],
                      <<job[s].kind, job[s].id>> \notin DeletedNodes'
               PROVE  Connected(s)'
    BY <1>4 DEF ConnectedInv
  <2>2. job[s].id \in stored[job[s].kind] /\ <<job[s].kind, job[s].id>> \notin DeletedNodes
    BY <1>1, <1>2, <1>3, <1>4, <2>1 DEF IInv, TypeOK, JobTypes
  <2>3. Connected(s)
    BY <2>2 DEF IInv, ConnectedInv
  <2>4. job[s].id \in Ids /\ ~(job[s].kind = job[r].kind /\ job[s].id = job[r].id)
    BY <1>1, <2>1, <2>2 DEF IInv, TypeOK, JobTypes
  <2>5. (pc[s] \in Building => assoc[s] = "open" /\ transports[job[s].kind][job[s].id] = s)'
    BY <1>1, <1>2, <1>3, <1>4, <2>3, <2>4, NodesAssumption
    DEF Connected, IInv, TypeOK, JobTypes, PlaceInv, TransportsInv, Closed, Entry
  <2>6. ASSUME (pc[s] \in {"ready", "waiting", "created"} /\ job[s].n3 # {})',
               \A k \in Kinds \ {job[s].kind} : <<k, job[s].id>> \notin NamedNodes'
        PROVE  (n3[s] = "open" /\ gtpu[job[s].id] = s)'
    <3>1. job[s].id # job[r].id
      BY <1>1, <2>1, <2>4, <2>6 DEF JobTypes
    <3>2. n3[s] = "open" /\ gtpu[job[s].id] = s
      BY <1>2, <1>3, <1>4, <2>1, <2>3, <2>6 DEF Connected, IInv, PlaceInv
    <3> QED BY <1>1, <1>2, <1>3, <1>4, <2>4, <3>1, <3>2 DEF IInv, TypeOK, JobTypes, GTPUInv, Closed
  <2> QED BY <1>4, <2>5, <2>6 DEF Connected
<1> QED BY <1>5, <1>6, <1>7, <1>8, <1>9, <1>10, <1>11, <1>12, <1>13, <1>14 DEF IInv

\* A delete closes the endpoint of the node it names, or, under the other kind,
\* of a node that counts as named.
LEMMA DeleteN3Preserves == ASSUME IInv, NEW r \in Reqs, DeleteN3(r) PROVE IInv'
<1>1. JobTypes /\ 0 \notin Ids
  BY JobFacts DEF IInv
<1>2. IsDelete(r) /\ pc[r] = "deleteN3"
  BY DEF DeleteN3, At
<1>3. PICK l \in {"deleteStore", "deleteGTPU"} : pc' = [pc EXCEPT ![r] = l]
           /\ n3' = Closed(n3, gtpu[job[r].id])
           /\ l = IF gtpu[job[r].id] = NoReq THEN "deleteStore" ELSE "deleteGTPU"
  BY DEF DeleteN3, Goto
<1>4. UNCHANGED <<up, nextID, job, stored, transports, gtpu, assoc>>
  BY DEF DeleteN3
<1>5. TypeOK'
  BY <1>3, <1>4 DEF IInv, TypeOK, Sockets, Closed
<1>6. PlaceInv'
  BY <1>2, <1>3, <1>4 DEF IInv, PlaceInv
<1>7. NumberInv'
  BY <1>2, <1>3, <1>4 DEF IInv, PlaceInv, NumberInv, Numbered
<1>8. TransportsInv'
  BY <1>2, <1>3, <1>4 DEF IInv, PlaceInv, TransportsInv
<1>9. GTPUInv'
  BY <1>2, <1>3, <1>4 DEF IInv, PlaceInv, GTPUInv
<1>10. StoredInv'
  BY <1>2, <1>3, <1>4 DEF IInv, PlaceInv, StoredInv
<1>11. AssocInv'
  BY <1>2, <1>3, <1>4 DEF IInv, PlaceInv, AssocInv, Closed
<1>12. N3Inv'
  BY <1>1, <1>2, <1>3, <1>4 DEF IInv, TypeOK, JobTypes, PlaceInv, NumberInv, GTPUInv, N3Inv,
     Closed
<1>13. DeleteInv'
  BY <1>1, <1>2, <1>3, <1>4, NodesAssumption DEF IInv, TypeOK, JobTypes, PlaceInv, NumberInv,
     Numbered, TransportsInv, GTPUInv, StoredInv, AssocInv, N3Inv, DeleteInv, Closed, Sockets
<1>14. ConnectedInv'
  <2>1. /\ DeletedNodes \subseteq DeletedNodes' \cup {<<job[r].kind, job[r].id>>}
        /\ NamedNodes \cup {<<job[r].kind, job[r].id>>} \subseteq NamedNodes'
        /\ <<job[r].kind, job[r].id>> \in DeletedNodes'
    BY <1>2, <1>3, <1>4, DeleteMoves DEF IInv
  <2> SUFFICES ASSUME NEW s \in Reqs, IsCreate(s), job[s].id \in stored'[job[s].kind],
                      <<job[s].kind, job[s].id>> \notin DeletedNodes'
               PROVE  Connected(s)'
    BY <1>4 DEF ConnectedInv
  <2>2. job[s].id \in stored[job[s].kind] /\ <<job[s].kind, job[s].id>> \notin DeletedNodes
    BY <1>1, <1>2, <1>3, <1>4, <2>1 DEF IInv, TypeOK, JobTypes
  <2>3. Connected(s)
    BY <2>2 DEF IInv, ConnectedInv
  <2>4. job[s].id \in Ids /\ ~(job[s].kind = job[r].kind /\ job[s].id = job[r].id)
    BY <1>1, <2>1, <2>2 DEF IInv, TypeOK, JobTypes
  <2>5. (pc[s] \in Building => assoc[s] = "open" /\ transports[job[s].kind][job[s].id] = s)'
    BY <1>1, <1>2, <1>3, <1>4, <2>3, <2>4, NodesAssumption
    DEF Connected, IInv, TypeOK, JobTypes, PlaceInv, TransportsInv, Closed, Entry
  <2>6. ASSUME (pc[s] \in {"ready", "waiting", "created"} /\ job[s].n3 # {})',
               \A k \in Kinds \ {job[s].kind} : <<k, job[s].id>> \notin NamedNodes'
        PROVE  (n3[s] = "open" /\ gtpu[job[s].id] = s)'
    <3>1. job[s].id # job[r].id
      BY <1>1, <2>1, <2>4, <2>6 DEF JobTypes
    <3>2. n3[s] = "open" /\ gtpu[job[s].id] = s
      BY <1>2, <1>3, <1>4, <2>1, <2>3, <2>6 DEF Connected, IInv, PlaceInv
    <3> QED BY <1>1, <1>2, <1>3, <1>4, <2>4, <3>1, <3>2 DEF IInv, TypeOK, JobTypes, GTPUInv, Closed
  <2> QED BY <1>4, <2>5, <2>6 DEF Connected
<1> QED BY <1>5, <1>6, <1>7, <1>8, <1>9, <1>10, <1>11, <1>12, <1>13, <1>14 DEF IInv

\* The entry a delete forgets is of the endpoint it closed.
LEMMA DeleteGTPUPreserves == ASSUME IInv, NEW r \in Reqs, DeleteGTPU(r) PROVE IInv'
<1>1. JobTypes /\ 0 \notin Ids
  BY JobFacts DEF IInv
<1>2. IsDelete(r) /\ pc[r] = "deleteGTPU"
  BY DEF DeleteGTPU, At
<1>3. PICK l \in {"deleteStore"} : pc' = [pc EXCEPT ![r] = l]
           /\ gtpu' = [gtpu EXCEPT ![job[r].id] = NoReq]
  BY DEF DeleteGTPU, Goto
<1>4. UNCHANGED <<up, nextID, job, stored, transports, assoc, n3>>
  BY DEF DeleteGTPU
<1>5. TypeOK'
  BY <1>3, <1>4 DEF IInv, TypeOK, Sockets
<1>6. PlaceInv'
  BY <1>2, <1>3, <1>4 DEF IInv, PlaceInv
<1>7. NumberInv'
  BY <1>2, <1>3, <1>4 DEF IInv, PlaceInv, NumberInv, Numbered
<1>8. TransportsInv'
  BY <1>2, <1>3, <1>4 DEF IInv, PlaceInv, TransportsInv
<1>9. GTPUInv'
  BY <1>1, <1>2, <1>3, <1>4, NodesAssumption DEF IInv, TypeOK, JobTypes, PlaceInv, NumberInv,
     GTPUInv
<1>10. StoredInv'
  BY <1>2, <1>3, <1>4 DEF IInv, PlaceInv, StoredInv
<1>11. AssocInv'
  BY <1>2, <1>3, <1>4 DEF IInv, PlaceInv, AssocInv
<1>12. N3Inv'
  BY <1>1, <1>2, <1>3, <1>4, NodesAssumption DEF IInv, TypeOK, JobTypes, PlaceInv, NumberInv,
     Numbered, GTPUInv, N3Inv, DeleteInv
<1>13. DeleteInv'
  BY <1>2, <1>3, <1>4 DEF IInv, PlaceInv, DeleteInv
<1>14. ConnectedInv'
  <2>1. /\ DeletedNodes \subseteq DeletedNodes' \cup {<<job[r].kind, job[r].id>>}
        /\ NamedNodes \cup {<<job[r].kind, job[r].id>>} \subseteq NamedNodes'
        /\ <<job[r].kind, job[r].id>> \in DeletedNodes'
    BY <1>2, <1>3, <1>4, DeleteMoves DEF IInv
  <2> SUFFICES ASSUME NEW s \in Reqs, IsCreate(s), job[s].id \in stored'[job[s].kind],
                      <<job[s].kind, job[s].id>> \notin DeletedNodes'
               PROVE  Connected(s)'
    BY <1>4 DEF ConnectedInv
  <2>2. job[s].id \in stored[job[s].kind] /\ <<job[s].kind, job[s].id>> \notin DeletedNodes
    BY <1>1, <1>2, <1>3, <1>4, <2>1 DEF IInv, TypeOK, JobTypes
  <2>3. Connected(s)
    BY <2>2 DEF IInv, ConnectedInv
  <2>4. job[s].id \in Ids /\ ~(job[s].kind = job[r].kind /\ job[s].id = job[r].id)
    BY <1>1, <2>1, <2>2 DEF IInv, TypeOK, JobTypes
  <2>5. (pc[s] \in Building => assoc[s] = "open" /\ transports[job[s].kind][job[s].id] = s)'
    BY <1>1, <1>2, <1>3, <1>4, <2>3, <2>4, NodesAssumption
    DEF Connected, IInv, TypeOK, JobTypes, PlaceInv, TransportsInv, Closed, Entry
  <2>6. ASSUME (pc[s] \in {"ready", "waiting", "created"} /\ job[s].n3 # {})',
               \A k \in Kinds \ {job[s].kind} : <<k, job[s].id>> \notin NamedNodes'
        PROVE  (n3[s] = "open" /\ gtpu[job[s].id] = s)'
    <3>1. job[s].id # job[r].id
      BY <1>1, <2>1, <2>4, <2>6 DEF JobTypes
    <3>2. n3[s] = "open" /\ gtpu[job[s].id] = s
      BY <1>2, <1>3, <1>4, <2>1, <2>3, <2>6 DEF Connected, IInv, PlaceInv
    <3> QED BY <1>1, <1>2, <1>3, <1>4, <2>4, <3>1, <3>2 DEF IInv, TypeOK, JobTypes, GTPUInv, Closed
  <2> QED BY <1>4, <2>5, <2>6 DEF Connected
<1> QED BY <1>5, <1>6, <1>7, <1>8, <1>9, <1>10, <1>11, <1>12, <1>13, <1>14 DEF IInv

\* A delete is done when the node it was at is out of the store.
LEMMA StoreDeletePreserves == ASSUME IInv, NEW r \in Reqs, StoreDelete(r) PROVE IInv'
<1>1. JobTypes /\ 0 \notin Ids
  BY JobFacts DEF IInv
<1>2. IsDelete(r) /\ pc[r] = "deleteStore"
  BY DEF StoreDelete, At
<1>3. PICK l \in {"deleted", "notFound"} : pc' = [pc EXCEPT ![r] = l]
           /\ stored' = [stored EXCEPT ![job[r].kind] = @ \ {job[r].id}]
  BY DEF StoreDelete, Goto
<1>4. UNCHANGED <<up, nextID, job, transports, gtpu, assoc, n3>>
  BY DEF StoreDelete
<1>5. TypeOK'
  BY <1>3, <1>4 DEF IInv, TypeOK, Sockets
<1>6. PlaceInv'
  BY <1>2, <1>3, <1>4 DEF IInv, PlaceInv
<1>7. NumberInv'
  BY <1>2, <1>3, <1>4 DEF IInv, PlaceInv, NumberInv, Numbered
<1>8. TransportsInv'
  BY <1>2, <1>3, <1>4 DEF IInv, PlaceInv, TransportsInv
<1>9. GTPUInv'
  BY <1>2, <1>3, <1>4 DEF IInv, PlaceInv, GTPUInv
<1>10. StoredInv'
  BY <1>2, <1>3, <1>4 DEF IInv, PlaceInv, StoredInv
<1>11. AssocInv'
  BY <1>2, <1>3, <1>4 DEF IInv, PlaceInv, AssocInv
<1>12. N3Inv'
  BY <1>2, <1>3, <1>4 DEF IInv, PlaceInv, N3Inv
<1>13. DeleteInv'
  BY <1>2, <1>3, <1>4 DEF IInv, DeleteInv, PlaceInv
<1>14. ConnectedInv'
  <2>1. /\ DeletedNodes \subseteq DeletedNodes' \cup {<<job[r].kind, job[r].id>>}
        /\ NamedNodes \cup {<<job[r].kind, job[r].id>>} \subseteq NamedNodes'
    BY <1>2, <1>3, <1>4, DeleteMoves DEF IInv
  <2> SUFFICES ASSUME NEW s \in Reqs, IsCreate(s), job[s].id \in stored'[job[s].kind],
                      <<job[s].kind, job[s].id>> \notin DeletedNodes'
               PROVE  Connected(s)'
    BY <1>4 DEF ConnectedInv
  <2>2. job[s].id \in stored[job[s].kind] /\ <<job[s].kind, job[s].id>> \notin DeletedNodes
    BY <1>1, <1>2, <1>3, <1>4, <2>1 DEF IInv, TypeOK, JobTypes
  <2>3. Connected(s)
    BY <2>2 DEF IInv, ConnectedInv
  <2> QED
    BY <1>1, <1>2, <1>3, <1>4, <2>1, <2>2, <2>3, NodesAssumption
    DEF Connected, IInv, TypeOK, JobTypes, PlaceInv, TransportsInv, GTPUInv, Closed, Entry, Sockets
<1> QED BY <1>5, <1>6, <1>7, <1>8, <1>9, <1>10, <1>11, <1>12, <1>13, <1>14 DEF IInv

\* StoreCreate numbers its create and touches no other job.
LEMMA StoreCreateJob ==
    ASSUME PlaceInv, NumberInv, NEW r \in Reqs, StoreCreate(r)
    PROVE  /\ IsCreate(r) /\ pc[r] = "dialled" /\ job[r].id = 0
           /\ job'[r].id = nextID + 1 /\ nextID' = nextID + 1
           /\ \A s \in Reqs : /\ job'[s].op = job[s].op /\ job'[s].kind = job[s].kind
                              /\ s # r => job'[s] = job[s]
           /\ job'[r] = [job[r] EXCEPT !.id = nextID + 1]
<1>1. IsCreate(r) /\ pc[r] = "dialled" /\ job[r].id = 0
  BY DEF StoreCreate, At, NumberInv, IsCreate
<1>2. job' = [job EXCEPT ![r].id = nextID + 1] /\ nextID' = nextID + 1
  BY DEF StoreCreate, AllocateID
<1>3. job[r] \in CreateJobs
  BY <1>1 DEF PlaceInv, DeleteJobs, IsCreate
<1> QED BY <1>1, <1>2, <1>3 DEF PlaceInv, CreateJobs

\* The counter stays within the number of requests: as many creates as it says
\* have a number, and r has none yet.
LEMMA StoreCreateNumbers ==
    ASSUME PlaceInv, NumberInv, NEW r \in Reqs, StoreCreate(r)
    PROVE  /\ Numbered' = Numbered \cup {r} /\ Cardinality(Numbered') = nextID + 1
           /\ nextID + 1 \in Ids
<1>1. Numbered' = Numbered \cup {r} /\ r \notin Numbered
  <2>1. /\ job[r].op = "create" /\ job[r].id = 0 /\ job'[r].id = nextID + 1
        /\ \A s \in Reqs : job'[s].op = job[s].op /\ (s # r => job'[s] = job[s])
    BY StoreCreateJob
  <2>2. nextID + 1 # 0
    BY DEF NumberInv
  <2> QED BY <2>1, <2>2 DEF Numbered
<1>2. IsFiniteSet(Numbered) /\ Numbered \cup {r} \subseteq Reqs
  BY NodesAssumption, FS_Subset DEF Numbered
<1>3. Cardinality(Numbered') = nextID + 1
  BY <1>1, <1>2, FS_AddElement DEF NumberInv
<1>4. Cardinality(Numbered') <= Cardinality(Reqs) /\ Cardinality(Reqs) \in Nat
  BY <1>1, <1>2, NodesAssumption, FS_Subset, FS_CardinalityType
<1> QED BY <1>1, <1>3, <1>4 DEF Ids, NumberInv

\* A new node has a number of its own and nothing else yet.
LEMMA StoreCreatePreserves == ASSUME IInv, NEW r \in Reqs, StoreCreate(r) PROVE IInv'
<1>1. JobTypes /\ 0 \notin Ids
  BY JobFacts DEF IInv
<1>2. /\ IsCreate(r) /\ pc[r] = "dialled" /\ job[r].id = 0
      /\ job'[r].id = nextID + 1 /\ nextID' = nextID + 1
      /\ \A s \in Reqs : /\ job'[s].op = job[s].op /\ job'[s].kind = job[s].kind
                         /\ s # r => job'[s] = job[s]
      /\ job'[r] = [job[r] EXCEPT !.id = nextID + 1]
  BY StoreCreateJob DEF IInv
<1>3. /\ Numbered' = Numbered \cup {r} /\ Cardinality(Numbered') = nextID + 1
      /\ nextID + 1 \in Ids
  BY StoreCreateNumbers DEF IInv
<1>4. /\ pc' = [pc EXCEPT ![r] = "stored"]
      /\ stored' = [stored EXCEPT ![job[r].kind] = @ \cup {nextID + 1}]
      /\ UNCHANGED <<up, transports, gtpu, assoc, n3>>
  BY DEF StoreCreate, Goto, AllocateID
<1>5. TypeOK'
  BY <1>1, <1>2, <1>3, <1>4 DEF IInv, TypeOK, JobTypes, Ids
<1>6. PlaceInv'
  <2>1. job' \in [Reqs -> CreateJobs \cup DeleteJobs]
    <3>1. job[r] \in CreateJobs
      BY <1>2 DEF IInv, PlaceInv, DeleteJobs
    <3>2. job'[r] \in CreateJobs
      BY <1>2, <1>3, <3>1 DEF CreateJobs
    <3>3. job' = [job EXCEPT ![r].id = nextID + 1]
      BY DEF StoreCreate, AllocateID
    <3> QED BY <1>2, <3>2, <3>3 DEF IInv, PlaceInv
  <2> QED BY <1>2, <1>4, <2>1 DEF IInv, PlaceInv
<1>7. NumberInv'
  <2>1. nextID' \in Nat /\ Cardinality(Numbered') = nextID'
    BY <1>2, <1>3 DEF IInv, NumberInv
  <2>2. \A s \in Numbered : s # r /\ job'[s] = job[s] /\ job[s].id \in 1..nextID
    BY <1>2 DEF IInv, NumberInv, Numbered
  <2>3. \A s \in Numbered' : job'[s].id \in 1..nextID'
    <3>1. \A i \in 1..nextID : i \in 1..(nextID + 1)
      BY DEF IInv, NumberInv
    <3>2. nextID + 1 \in 1..(nextID + 1)
      BY DEF IInv, NumberInv
    <3> QED BY <1>2, <1>3, <2>2, <3>1, <3>2
  <2>4. \A s, t \in Numbered' : job'[s].id = job'[t].id => s = t
    <3>1. \A s, t \in Numbered : job[s].id = job[t].id => s = t
      BY DEF IInv, NumberInv
    <3>2. \A s \in Numbered : job'[s].id # job'[r].id
      BY <1>2, <2>1, <2>2 DEF IInv, NumberInv
    <3> QED BY <1>3, <2>2, <3>1, <3>2
  <2>5. \A s \in Reqs : IsCreate(s) =>
          /\ pc'[s] \in {"start", "dialled"} => job'[s].id = 0
          /\ pc'[s] \notin {"start", "dialled", "failed"} => job'[s].id # 0
    <3>1. job'[r].id # 0 /\ pc'[r] = "stored"
      BY <1>1, <1>2, <1>3, <1>4 DEF IInv, PlaceInv
    <3>2. \A s \in Reqs \ {r} : job'[s] = job[s] /\ pc'[s] = pc[s]
      BY <1>2, <1>4 DEF IInv, PlaceInv
    <3> QED BY <3>1, <3>2 DEF IInv, NumberInv
  <2> QED BY <1>2, <2>1, <2>3, <2>4, <2>5 DEF NumberInv
<1>8. TransportsInv' /\ GTPUInv'
  BY <1>1, <1>2, <1>4 DEF IInv, PlaceInv, TransportsInv, GTPUInv
<1>9. StoredInv'
  <2> SUFFICES ASSUME NEW k \in Kinds, NEW i \in stored'[k]
               PROVE  \E s \in Reqs :
                        /\ (IsCreate(s) /\ job[s].kind = k /\ job[s].id = i)'
                        /\ pc'[s] \in {"stored"} \cup Building
                                      \cup (Failing \ {"teardownMap", "failed"})
    BY DEF StoredInv
  <2>1. CASE i \in stored[k]
    <3>1. PICK s \in Reqs : /\ IsCreate(s) /\ job[s].kind = k /\ job[s].id = i
                            /\ pc[s] \in {"stored"} \cup Building
                                         \cup (Failing \ {"teardownMap", "failed"})
      BY <2>1 DEF IInv, StoredInv
    <3> QED BY <1>2, <1>4, <3>1 DEF IInv, PlaceInv
  <2>2. CASE i \notin stored[k]
    <3>1. k = job[r].kind /\ i = nextID + 1
      BY <1>1, <1>4, <2>2 DEF IInv, TypeOK, JobTypes
    <3> QED BY <1>2, <1>4, <3>1 DEF IInv, PlaceInv
  <2> QED BY <2>1, <2>2
<1>10. AssocInv'
  BY <1>1, <1>2, <1>4 DEF IInv, AssocInv, PlaceInv
<1>11. N3Inv'
  BY <1>1, <1>2, <1>4 DEF IInv, N3Inv, PlaceInv
<1>12. DeleteInv'
  BY <1>1, <1>2, <1>3, <1>4 DEF IInv, DeleteInv, PlaceInv, JobTypes
<1>13. ConnectedInv'
  <2>1. DeletedNodes' = DeletedNodes /\ NamedNodes' = NamedNodes
    BY <1>2, <1>4 DEF DeletedNodes, NamedNodes, IInv, PlaceInv
  <2> SUFFICES ASSUME NEW s \in Reqs, s # r, IsCreate(s), job[s].id \in stored'[job[s].kind],
                      <<job[s].kind, job[s].id>> \notin DeletedNodes
               PROVE  Connected(s)'
    BY <1>2, <1>4, <2>1 DEF ConnectedInv, Connected, IInv, PlaceInv
  <2>2. job[s].id \in stored[job[s].kind]
    BY <1>1, <1>2, <1>4, <1>3 DEF IInv, TypeOK, JobTypes, NumberInv, Numbered
  <2> QED BY <1>2, <1>4, <2>1, <2>2 DEF IInv, ConnectedInv, Connected, PlaceInv
<1> QED BY <1>5, <1>6, <1>7, <1>8, <1>9, <1>10, <1>11, <1>12, <1>13 DEF IInv

\* A fault stops the process and moves nothing; nor does a step outside the model.
LEMMA OtherPreserves == ASSUME IInv, MapFault \/ UNCHANGED vars PROVE IInv'
<1>1. UNCHANGED <<nextID, stored, transports, gtpu, assoc, n3, job, pc>> /\ up' \in BOOLEAN
  BY DEF MapFault, vars, IInv, TypeOK
<1>2. TypeOK' /\ PlaceInv' /\ NumberInv'
  BY <1>1 DEF IInv, TypeOK, PlaceInv, NumberInv, Numbered
<1>3. TransportsInv' /\ GTPUInv' /\ StoredInv'
  BY <1>1 DEF IInv, TransportsInv, GTPUInv, StoredInv
<1>4. AssocInv' /\ N3Inv' /\ DeleteInv'
  BY <1>1 DEF IInv, AssocInv, N3Inv, DeleteInv
<1>5. ConnectedInv'
  BY <1>1 DEF IInv, ConnectedInv, Connected, DeletedNodes, NamedNodes
<1> QED BY <1>2, <1>3, <1>4, <1>5 DEF IInv

(***************************************************************************)
(* The theorems                                                            *)
(***************************************************************************)

\* Before the first request there is nothing in the store, in the maps or open.
LEMMA InitIInv == Init => IInv
<1> SUFFICES ASSUME Init PROVE IInv
  OBVIOUS
<1>1. Cardinality(Reqs) \in Nat /\ Cardinality({}) = 0
  BY NodesAssumption, FS_CardinalityType, FS_EmptySet
<1>2. \A r \in Reqs : /\ job[r] \in CreateJobs \cup DeleteJobs
                      /\ IsCreate(r) => job[r].id = 0
  BY DEF Init, Jobs, Creates, CreateJobs, DeleteJobs, Kinds
<1>3. Numbered = {}
  BY <1>2 DEF Numbered
<1>4. TypeOK /\ PlaceInv
  BY <1>1, <1>2 DEF Init, TypeOK, PlaceInv, Sockets, Kinds, Jobs, Creates
<1>5. NumberInv
  BY <1>1, <1>2, <1>3 DEF Init, NumberInv
<1>6. TransportsInv /\ GTPUInv /\ StoredInv
  BY NodesAssumption DEF Init, TransportsInv, GTPUInv, StoredInv
<1>7. AssocInv /\ N3Inv /\ DeleteInv
  BY DEF Init, AssocInv, N3Inv, DeleteInv
<1>8. ConnectedInv
  BY <1>4, JobFacts DEF Init, ConnectedInv, JobTypes
<1> QED BY <1>4, <1>5, <1>6, <1>7, <1>8 DEF IInv

\* One case per action of Next.
LEMMA NextIInv == IInv /\ [Next]_vars => IInv'
<1> SUFFICES ASSUME IInv, [Next]_vars PROVE IInv'
  OBVIOUS
<1>1. ASSUME NEW r \in Reqs, Create(r) PROVE IInv'
  BY <1>1, DialPreserves, StoreCreatePreserves, RegisterTransportPreserves, ListenPreserves,
     RegisterGTPUPreserves, SendSetupPreserves, AwaitSetupPreserves DEF Create
<1>2. ASSUME NEW r \in Reqs, Teardown(r) PROVE IInv'
  BY <1>2, TeardownTransportPreserves, TeardownN3Preserves, TeardownGTPUPreserves,
     TeardownStorePreserves, TeardownMapPreserves DEF Teardown
<1>3. ASSUME NEW r \in Reqs, Delete(r) PROVE IInv'
  BY <1>3, DeleteTransportPreserves, DeleteMapPreserves, DeleteN3Preserves,
     DeleteGTPUPreserves, StoreDeletePreserves DEF Delete
<1> QED BY <1>1, <1>2, <1>3, OtherPreserves DEF Next

\* The inductive invariant holds throughout.
THEOREM Invariance == Spec => []IInv
BY InitIInv, NextIInv, PTL DEF Spec

\* The counter of node ids never leaves the ids there are, the store holds only
\* such ids, and the maps hold requests: Store.nextID and the Handler's maps.
THEOREM TypeCorrect == Spec => []TypeOK
<1>1. IInv => TypeOK
  BY DEF IInv
<1> QED BY <1>1, Invariance, PTL

\* However creates and deletes overlap, a socket that is still open when its
\* create has answered is in the map where a DELETE finds it.
THEOREM SocketsStayReachable == Spec => []NoOrphanSocket
<1>1. IInv => NoOrphanSocket
  BY JobFacts DEF IInv, NoOrphanSocket, PlaceInv, JobTypes, AssocInv, N3Inv
<1> QED BY <1>1, Invariance, PTL

\* teardownGNB and teardownENB undo all that their create had done, also when a
\* DELETE took some of it first.
THEOREM FailedCreatesUndone == Spec => []FailedCreateLeavesNothing
<1>1. IInv => FailedCreateLeavesNothing
  <2> SUFFICES ASSUME IInv, NEW r \in Reqs, pc[r] = "failed"
               PROVE  /\ assoc[r] # "open" /\ n3[r] # "open"
                      /\ job[r].id \notin stored[job[r].kind]
                      /\ \A i \in Ids, k \in Kinds : transports[k][i] # r /\ gtpu[i] # r
    BY DEF FailedCreateLeavesNothing
  <2>1. JobTypes /\ IsCreate(r)
    BY JobFacts DEF IInv, PlaceInv, JobTypes
  <2>2. assoc[r] # "open" /\ n3[r] # "open"
    BY <2>1 DEF IInv, AssocInv, N3Inv
  <2>3. \A i \in Ids, k \in Kinds : transports[k][i] # r /\ gtpu[i] # r
    BY DEF IInv, TransportsInv, GTPUInv
  <2>4. ASSUME job[r].id \in stored[job[r].kind] PROVE FALSE
    <3>1. PICK s \in Reqs : /\ IsCreate(s) /\ job[s].id = job[r].id /\ pc[s] # "failed"
      BY <2>1, <2>4 DEF IInv, StoredInv, JobTypes
    <3>2. job[r].id \in Ids
      BY <2>1, <2>4 DEF IInv, TypeOK, JobTypes
    <3>3. r = s
      BY <2>1, <3>1, <3>2, IdsUnique DEF IInv
    <3> QED BY <3>1, <3>3
  <2> QED BY <2>2, <2>3, <2>4
<1> QED BY <1>1, Invariance, PTL

\* A node that CreateGNB or CreateENB reported, that is in the store and that no
\* DELETE is at has its association, and its GTP-U endpoint too unless a DELETE
\* of the other kind has named its id.
THEOREM StoredNodesConnected == Spec => []StoredIsConnected
<1>1. IInv => StoredIsConnected
  <2> SUFFICES ASSUME IInv, NEW r \in Reqs, Created(r), ~BeingDeleted(r)
               PROVE  /\ assoc[r] = "open" /\ transports[job[r].kind][job[r].id] = r
                      /\ job[r].n3 # {} /\ ~NamedByOtherKind(r) =>
                           n3[r] = "open" /\ gtpu[job[r].id] = r
    BY DEF StoredIsConnected
  <2>1. JobTypes /\ IsCreate(r) /\ pc[r] = "created" /\ job[r].id \in stored[job[r].kind]
    BY JobFacts DEF IInv, PlaceInv, JobTypes, Created
  <2>2. <<job[r].kind, job[r].id>> \notin DeletedNodes
    BY DEF DeletedNodes, BeingDeleted
  <2>3. ~NamedByOtherKind(r) =>
          \A k \in Kinds \ {job[r].kind} : <<k, job[r].id>> \notin NamedNodes
    BY DEF NamedNodes, NamedByOtherKind
  <2>4. Connected(r)
    BY <2>1, <2>2 DEF IInv, ConnectedInv
  <2> QED BY <2>1, <2>3, <2>4 DEF Connected
<1> QED BY <1>1, Invariance, PTL
=============================================================================
