-------------------------------- MODULE Nodes --------------------------------
(***************************************************************************)
(* The life of gNBs and eNBs: POST and DELETE on /gnb and /enb, the store  *)
(* that holds them, and the Handler's three maps from node id to socket    *)
(* (src/internal/api/gnb_handlers.go, enb_handlers.go, store/store.go).    *)
(*                                                                         *)
(* Each request runs on a goroutine of its own and does its work in many   *)
(* steps.  Only the store has a lock.  The maps have none: two goroutines  *)
(* in one map at once, one of them writing, make Go abort the process, or  *)
(* by luck do not; then each access takes effect at once.                  *)
(***************************************************************************)
EXTENDS Naturals, FiniteSets

CONSTANTS
    Reqs,       \* HTTP requests, each served once
    NoReq,      \* the absence of a map entry
    N3Addrs     \* addresses GTP-U endpoints can be bound to

ASSUME NodesAssumption == IsFiniteSet(Reqs) /\ NoReq \notin Reqs

Kinds == {"gnb", "enb"}

\* bound: node ids, one per request
Ids == 1..Cardinality(Reqs)

\* n3: enable_gtpu, as the set of at most one address.  setup: whether the setup
\* request is skipped, built, or, for an eNB, raw_s1ap_pdu.
Creates(k, setups) ==
    [op : {"create"}, kind : {k}, id : {0}, setup : setups,
     n3 : {{}} \cup {{a} : a \in N3Addrs}]

Jobs ==
    Creates("gnb", {"skip", "build"}) \cup Creates("enb", {"skip", "build", "raw"})
    \cup [op : {"delete"}, kind : Kinds, id : Ids]

VARIABLES
    up,         \* the server process lives
    nextID,     \* Store.nextID, common to both kinds
    stored,     \* per kind: the ids in Store.gnbs, Store.enbs
    transports, \* per kind: Transports, S1APTransports: id -> the create that dialled
    gtpu,       \* Handler.GTPU, common to both kinds: id -> the create that bound it
    assoc, n3,  \* per create: its SCTP association, its GTP-U socket
    job, pc     \* per request: what it asks, how far it got

vars == <<up, nextID, stored, transports, gtpu, assoc, n3, job, pc>>

Sockets == {"none", "open", "closed"}

Init ==
    /\ up = TRUE /\ nextID = 0
    /\ stored = [k \in Kinds |-> {}]
    /\ transports = [k \in Kinds |-> [i \in Ids |-> NoReq]]
    /\ gtpu = [i \in Ids |-> NoReq]
    /\ assoc = [r \in Reqs |-> "none"] /\ n3 = [r \in Reqs |-> "none"]
    /\ job \in [Reqs -> Jobs]
    /\ pc = [r \in Reqs |-> "start"]

Goto(r, l) == pc' = [pc EXCEPT ![r] = l]

At(r, op, l) == up /\ job[r].op = op /\ pc[r] = l

-----------------------------------------------------------------------------
(* CreateGNB, CreateENB *)

\* An invalid request or a failed dial leaves nothing behind.
Dial(r) ==
    /\ At(r, "create", "start")
    /\ \/ /\ assoc' = [assoc EXCEPT ![r] = "open"] /\ Goto(r, "dialled")
       \/ Goto(r, "failed") /\ UNCHANGED assoc
    /\ UNCHANGED <<up, nextID, stored, transports, gtpu, n3, job>>

\* Mutant of AllocateID: a node is numbered by how many there are.
AllocateByCount(k) == Cardinality(stored[k]) + 1

\* Mutant of AllocateID: the counter is read before it moves on.
AllocateStale(k) == nextID

AllocateID(k) == nextID + 1

StoreCreate(r) ==
    /\ At(r, "create", "dialled")
    /\ LET i == AllocateID(job[r].kind) IN
         /\ nextID' = nextID + 1
         /\ job' = [job EXCEPT ![r].id = i]
         /\ stored' = [stored EXCEPT ![job[r].kind] = @ \cup {i}]
    /\ Goto(r, "stored")
    /\ UNCHANGED <<up, transports, gtpu, assoc, n3>>

RegisterTransport(r) ==
    /\ At(r, "create", "stored")
    /\ transports' = [transports EXCEPT ![job[r].kind][job[r].id] = r]
    /\ Goto(r, IF job[r].n3 = {} THEN "ready" ELSE "listen")
    /\ UNCHANGED <<up, nextID, stored, gtpu, assoc, n3, job>>

\* One socket per address: the GTP-U port is fixed.
Bound(a) == \E s \in Reqs : n3[s] = "open" /\ a \in job[s].n3

\* It fails on a bound address, and may for other reasons.
Listen(r) ==
    /\ At(r, "create", "listen")
    /\ \/ /\ \A a \in job[r].n3 : ~Bound(a)
          /\ n3' = [n3 EXCEPT ![r] = "open"] /\ Goto(r, "listening")
       \/ Goto(r, "teardown") /\ UNCHANGED n3
    /\ UNCHANGED <<up, nextID, stored, transports, gtpu, assoc, job>>

RegisterGTPU(r) ==
    /\ At(r, "create", "listening")
    /\ gtpu' = [gtpu EXCEPT ![job[r].id] = r]
    /\ Goto(r, "ready")
    /\ UNCHANGED <<up, nextID, stored, transports, assoc, n3, job>>

\* Build and send the setup request; the build or the send may fail, and the
\* send does once the association is closed.
SendSetup(r) ==
    /\ At(r, "create", "ready")
    /\ \/ job[r].setup = "skip" /\ Goto(r, "created")
       \/ job[r].setup # "skip" /\ assoc[r] = "open" /\ Goto(r, "waiting")
       \/ job[r].setup # "skip" /\ Goto(r, "teardown")
    /\ UNCHANGED <<up, nextID, stored, transports, gtpu, assoc, n3, job>>

\* An answer came, or none; to a raw S1AP PDU none is expected.
AwaitSetup(r) ==
    /\ At(r, "create", "waiting")
    /\ \/ Goto(r, "created")
       \/ job[r].setup # "raw" /\ Goto(r, "teardown")
    /\ UNCHANGED <<up, nextID, stored, transports, gtpu, assoc, n3, job>>

-----------------------------------------------------------------------------
(* teardownGNB, teardownENB: close the association; look up, close and      *)
(* forget the GTP-U socket; forget the node; forget the association.        *)

TeardownTransport(r) ==
    /\ At(r, "create", "teardown")
    /\ assoc' = [assoc EXCEPT ![r] = "closed"]
    /\ Goto(r, "teardownN3")
    /\ UNCHANGED <<up, nextID, stored, transports, gtpu, n3, job>>

\* Close what the map holds for id, if anything.
Closed(sockets, entry) ==
    [s \in Reqs |-> IF s = entry THEN "closed" ELSE sockets[s]]

\* Mutant of TeardownN3: the failed create leaves its GTP-U socket alone.
TeardownKeepsN3(r) ==
    /\ At(r, "create", "teardownN3")
    /\ Goto(r, "teardownStore")
    /\ UNCHANGED <<up, nextID, stored, transports, gtpu, assoc, n3, job>>

TeardownN3(r) ==
    /\ At(r, "create", "teardownN3")
    /\ n3' = Closed(n3, gtpu[job[r].id])
    /\ Goto(r, IF gtpu[job[r].id] = NoReq THEN "teardownStore" ELSE "teardownGTPU")
    /\ UNCHANGED <<up, nextID, stored, transports, gtpu, assoc, job>>

TeardownGTPU(r) ==
    /\ At(r, "create", "teardownGTPU")
    /\ gtpu' = [gtpu EXCEPT ![job[r].id] = NoReq]
    /\ Goto(r, "teardownStore")
    /\ UNCHANGED <<up, nextID, stored, transports, assoc, n3, job>>

TeardownStore(r) ==
    /\ At(r, "create", "teardownStore")
    /\ stored' = [stored EXCEPT ![job[r].kind] = @ \ {job[r].id}]
    /\ Goto(r, "teardownMap")
    /\ UNCHANGED <<up, nextID, transports, gtpu, assoc, n3, job>>

TeardownMap(r) ==
    /\ At(r, "create", "teardownMap")
    /\ transports' = [transports EXCEPT ![job[r].kind][job[r].id] = NoReq]
    /\ Goto(r, "failed")
    /\ UNCHANGED <<up, nextID, stored, gtpu, assoc, n3, job>>

-----------------------------------------------------------------------------
(* DeleteGNB, DeleteENB: the maps come first, under any id at all; the      *)
(* store says last whether there is such a node.                            *)

Entry(r) == transports[job[r].kind][job[r].id]

DeleteTransport(r) ==
    /\ At(r, "delete", "start")
    /\ assoc' = Closed(assoc, Entry(r))
    /\ Goto(r, IF Entry(r) = NoReq THEN "deleteN3" ELSE "deleteMap")
    /\ UNCHANGED <<up, nextID, stored, transports, gtpu, n3, job>>

DeleteMap(r) ==
    /\ At(r, "delete", "deleteMap")
    /\ transports' = [transports EXCEPT ![job[r].kind][job[r].id] = NoReq]
    /\ Goto(r, "deleteN3")
    /\ UNCHANGED <<up, nextID, stored, gtpu, assoc, n3, job>>

\* Mutant of DeleteN3: the map entry goes, the socket is never closed.
DeleteN3Unclosed(r) ==
    /\ At(r, "delete", "deleteN3")
    /\ Goto(r, IF gtpu[job[r].id] = NoReq THEN "deleteStore" ELSE "deleteGTPU")
    /\ UNCHANGED <<up, nextID, stored, transports, gtpu, assoc, n3, job>>

DeleteN3(r) ==
    /\ At(r, "delete", "deleteN3")
    /\ n3' = Closed(n3, gtpu[job[r].id])
    /\ Goto(r, IF gtpu[job[r].id] = NoReq THEN "deleteStore" ELSE "deleteGTPU")
    /\ UNCHANGED <<up, nextID, stored, transports, gtpu, assoc, job>>

DeleteGTPU(r) ==
    /\ At(r, "delete", "deleteGTPU")
    /\ gtpu' = [gtpu EXCEPT ![job[r].id] = NoReq]
    /\ Goto(r, "deleteStore")
    /\ UNCHANGED <<up, nextID, stored, transports, assoc, n3, job>>

\* 204 or 404
StoreDelete(r) ==
    /\ At(r, "delete", "deleteStore")
    /\ stored' = [stored EXCEPT ![job[r].kind] = @ \ {job[r].id}]
    /\ Goto(r, IF job[r].id \in stored[job[r].kind] THEN "deleted" ELSE "notFound")
    /\ UNCHANGED <<up, nextID, transports, gtpu, assoc, n3, job>>

-----------------------------------------------------------------------------
(* The unlocked maps *)

Writes(r, map) ==
    IF map = "gtpu" THEN pc[r] \in {"listening", "teardownGTPU", "deleteGTPU"}
    ELSE job[r].kind = map /\ pc[r] \in {"stored", "teardownMap", "deleteMap"}

Reads(r, map) ==
    IF map = "gtpu" THEN pc[r] \in {"teardownN3", "deleteN3"}
    ELSE job[r].kind = map /\ job[r].op = "delete" /\ pc[r] = "start"

\* Go throws "concurrent map writes" or "concurrent map read and map write".
MapFault ==
    /\ up
    /\ \E r, s \in Reqs, m \in Kinds \cup {"gtpu"} :
         r # s /\ Writes(r, m) /\ (Writes(s, m) \/ Reads(s, m))
    /\ up' = FALSE
    /\ UNCHANGED <<nextID, stored, transports, gtpu, assoc, n3, job, pc>>

Create(r) ==
    \/ Dial(r) \/ StoreCreate(r) \/ RegisterTransport(r) \/ Listen(r) \/ RegisterGTPU(r)
    \/ SendSetup(r) \/ AwaitSetup(r)

Teardown(r) ==
    \/ TeardownTransport(r) \/ TeardownN3(r) \/ TeardownGTPU(r) \/ TeardownStore(r)
    \/ TeardownMap(r)

Delete(r) ==
    \/ DeleteTransport(r) \/ DeleteMap(r) \/ DeleteN3(r) \/ DeleteGTPU(r) \/ StoreDelete(r)

Next == (\E r \in Reqs : Create(r) \/ Teardown(r) \/ Delete(r)) \/ MapFault

Spec == Init /\ [][Next]_vars

-----------------------------------------------------------------------------
TypeOK ==
    /\ up \in BOOLEAN /\ nextID \in 0..Cardinality(Reqs)
    /\ stored \in [Kinds -> SUBSET Ids]
    /\ transports \in [Kinds -> [Ids -> Reqs \cup {NoReq}]]
    /\ gtpu \in [Ids -> Reqs \cup {NoReq}]
    /\ assoc \in [Reqs -> Sockets] /\ n3 \in [Reqs -> Sockets]

\* A socket that is open is either in the hands of the create that opened it or
\* in its map, where a DELETE finds it, however creates and deletes interleave.
NoOrphanSocket ==
    \A r \in Reqs : pc[r] \in {"created", "failed"} =>
        /\ assoc[r] = "open" => transports[job[r].kind][job[r].id] = r
        /\ n3[r] = "open" => gtpu[job[r].id] = r

\* A create that reported failure has left nothing: no socket, no map entry, no
\* node, and its N3 address is free again, even if a DELETE got in between.
FailedCreateLeavesNothing ==
    \A r \in Reqs : pc[r] = "failed" =>
        /\ assoc[r] # "open" /\ n3[r] # "open"
        /\ job[r].id \notin stored[job[r].kind]
        /\ \A i \in Ids, k \in Kinds : transports[k][i] # r /\ gtpu[i] # r

Created(r) == pc[r] = "created" /\ job[r].id \in stored[job[r].kind]

BeingDeleted(r) ==
    \E s \in Reqs : /\ job[s].op = "delete" /\ pc[s] \notin {"start", "deleted", "notFound"}
                    /\ job[s].kind = job[r].kind /\ job[s].id = job[r].id

\* A DELETE under the other kind has named the id of r's node: it closes the
\* endpoint it finds in the map common to both before it answers 404.
NamedByOtherKind(r) ==
    \E s \in Reqs : /\ job[s].op = "delete" /\ pc[s] # "start"
                    /\ job[s].kind # job[r].kind /\ job[s].id = job[r].id

\* A node that was created, is in the store and is not being deleted has its
\* association open and registered, where later requests find it, and so has it
\* its GTP-U endpoint, if no DELETE under the other kind has named its id.
StoredIsConnected ==
    \A r \in Reqs : Created(r) /\ ~BeingDeleted(r) =>
        /\ assoc[r] = "open" /\ transports[job[r].kind][job[r].id] = r
        /\ job[r].n3 # {} /\ ~NamedByOtherKind(r) => n3[r] = "open" /\ gtpu[job[r].id] = r
=============================================================================
