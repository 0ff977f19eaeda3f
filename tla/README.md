# A TLA+ model of 3gpp-server

3gpp-server is an HTTP service that plays the radio side of a mobile network
towards a core under test: emulated gNBs with 5G UEs towards an AMF (NGAP over
SCTP) and a UPF (GTP-U), emulated eNBs with EPS UEs towards an MME (S1AP over
SCTP) and an S-GW (GTP-U). A client of the API sends one protocol message per
request and says which answer it waits for. The server keeps what a real UE
would keep between messages: identities, keys, NAS COUNTs, tunnels.

This directory models the parts of the server that keep state and share it.
TLC checks the models on small instances, TLAPS proves the theorems for every
value of the constants. `PROJECT.json` has the lines of source behind each
definition, the runs, a mutant for each property, the hazards and the findings.

    tlc -workers 2 -config framed.cfg MCFramed            # a run
    tlapm FramedProofs.tla                                # a proof module

## 1. The system

| Component | State | Operations | Shares with |
|---|---|---|---|
| SCTP transport, `transport/framed.go` | queues of decoded frames by message type, a mutex, a condition variable, a closed flag | receiver goroutine, Send, WaitForMessage(Matching) with a watcher goroutine per wait, Close | all requests on the node |
| 5G NAS context, `store/gnb_ue_context.go`, `api/gnb_security.go` | UL and DL COUNT, Kamf, NAS keys, algorithms | protect, estimate the COUNT, establish keys, verify | the requests of a UE; no lock |
| gNB UE procedures, `api/gnb_{nas,ngap,await,pdu_session,handover}_handlers.go` | AP ids, RAND/AUTN, GUTI, PDU sessions and their TEIDs | 24 message types, await | one N2 association for all UEs |
| EPS NAS context and eNB UE procedures, `api/enb_*_handlers.go`, `store/enb_ue_context.go` | the same for EPS, default bearer and further bearers | 27 message types, await | one S1-MME association for all UEs |
| Node lifecycle, `api/{gnb,enb}_handlers.go`, `store/store.go` | store (with a lock), one id counter, three maps from node id to socket (without a lock) | create, delete, teardown of a failed create | every other request reads the maps |
| UE registry, `store/{gnb,enb}_context.go`, `api/*_ue*_handlers.go` | per node a counter and a map of UEs | create, get, patch, delete, migrate to another node | UE and node requests |
| GTP-U endpoint, `gtpu/transport.go`, `api/*_gtpu_handlers.go` | queues of packets by TEID, of control messages by type | receiver goroutine, uplink, await, echo, Close | all sessions of the node |
| Codecs, `gtpu/{message,ip,ip6}.go`, `{ngap,s1ap}/decode.go`, `nas5gs`, `naseps` | none | encode, decode | what a receiver files, what an uplink carries |
| Cryptography, HTTP routing | none | derive keys, route | - |

What is hard in it:

* every HTTP request is a goroutine. Requests meet in the frame queues, in the
  unlocked maps, in the UE contexts and between the two locks of a migration;
* a wait that times out leaves its answer in the queue, where a later request
  finds it and applies it to a UE in another state;
* frames of one association are for many UEs, and are told apart by AP ids that
  are assigned, learned late, changed and forged;
* a NAS COUNT travels as its low octet, so a message that is read late, twice or
  not at all can shift every later one;
* one UE may be driven by several requests at once, and its context has no lock;
* user-plane datagrams are put together and taken apart by hand: lengths,
  checksums, chains of extension headers;
* nodes open three sockets in steps that may each fail while a DELETE runs.

## 2. Modules

| Module | Models | Built on |
|---|---|---|
| `FrameQueues` | frames, queues, the search of a wait | |
| `Mailbox` | what the transport promises: an atomic take of the oldest qualifying frame, or a timeout when there is none | `FrameQueues` |
| `Framed` | the transport goroutine by goroutine, lock by lock | `FrameQueues`; implements `Mailbox` |
| `NASContext` | COUNTs, keys, protection and verification | |
| `NGAPDecode`, `S1APDecode` | what a received PDU is filed as: message type, ids, NAS PDU, decoder by decoder | |
| `GNBUE` | the 5G UEs of one gNB, their requests, the AMF as environment | `NASContext`, `FrameQueues`, `NGAPDecode` |
| `ENBUE` | the EPS UEs of one eNB, their requests, the MME as environment | `NASContext`, `FrameQueues`, `S1APDecode` |
| `SharedUE` | one UE, 5G or EPS, driven by several requests at once, load by load and store by store | `NASContext` |
| `Nodes` | create and delete of gNBs and eNBs | |
| `UERegistry` | UEs of several nodes: create, patch, delete, migrate | |
| `OctetStrings` | strings of octets, big-endian integers, the sum of words | |
| `GTPUCodec`, `IPCodec` | GTP-U messages and the packets inside, octet by octet | `OctetStrings` |
| `NASAddress` | the UE's address in the accept of a session | `OctetStrings` |
| `UPF` | external: a reference for the other end, what it sends and how it reads | the codecs, `NASAddress` |
| `UserPlane` | a GTP-U endpoint, its sessions and requests | `UPF` |
| `MC*` | instances for TLC: request sets, views, symmetries | the module of the name |
| `FramedProofs`, `GNBUEProofs`, `ENBUEProofs`, `SharedUEProofs`, `NodesProofs`, `UERegistryProofs`, `UserPlaneProofs` | theorems and proofs | the module of the name |
| `NASContextProofs` | what `NextDL` recovers | `NASContext`; used by `GNBUEProofs`, `ENBUEProofs`, `SharedUEProofs` |

`GNBUE` and `ENBUE` use the transport as `Mailbox` describes it: `Fetch` is
`Take`, `TimeOut` is `GiveUp`. That this is sound is `RefinesMailbox`.
`UserPlane` takes from `TunnelsStayDistinct` and `BearersStayDistinct` that the
DL TEIDs of different sessions differ (`UserPlaneAssumption`).

### How state and actions correspond to the code

**Framed.** `frames`, `closed` are the fields; `mu` is held across steps only by
a waiter, since the critical sections of the receiver and the watcher are one
step each. `pc` is a call's place: `write` (between the closed check and the
SCTP write), `enter` (before the watcher is started), `lock`, `check` (searched,
found nothing), `park` (looked at the context), `parked` (in `cond.Wait`),
`returned`. The context may expire between any two steps. A frame is its type,
a label that stands for its contents, and a number; a match predicate is a set
of labels.

**NASContext.** A key is the number of the authentication it derives from, 0 for
none. A MAC verifies, and a ciphered message can be read, when key and COUNT
agree. The width of the octet is the constant `Octet` (256 in the code).

**GNBUE, ENBUE.** Each message type is a record of what its handler does: which
carrier, which protection, which types it waits for and in which order, how
it matches, whether it unwraps the answer, learns the AP id, keeps a challenge
or a session, acknowledges. `Send` interprets the record. Handlers that do more
have actions of their own: authentication response, service request and
re-establishment (5G), tracking area update and the withheld bearer accept
(EPS). `Fetch` is the rest of the handler after the wait: it runs in the goroutine of the
one request that drives the UE, so no other step can touch its state between.
gNB and eNB level requests (await, raw PDU, path switch, reset) keep nothing and
appear as takers of frames.
The core is external and modelled by what it may send: challenges, commands and
their retransmissions, protected messages, releases, error indications, each at
any time and under any ids it has; it never forges a MAC. It sends PDUs,
and the receiver (`Filed`) puts into the queues what the decoder makes of them.

**NGAPDecode, S1APDecode.** The ASN.1 libraries are external: a PDU is its kind, its
procedure and its IEs, a function from their names. Each decoder is the set of
IEs it reads. What the waits and the matchers use is derived from it: a type
(`ProcedureCode` for a procedure without a name), ids that may be nil, from the
message or from the `UENGAPIDs`/`UES1APIDs` choice, and the NAS PDU, which may be
the message's own or that of the first item of a list.

**SharedUE.** `pc` is the next load or store of a request on the context: the rewind
of a new context, `NextUL` (load, store), the keys, the send; the wait, `NextDL`
(load, store, load again), the keys of a command, the MAC. A store of `ULCount++`
writes the value loaded plus one or the current one plus one, as the build may do
either. `raced` records which half of the context two requests have been in at
once, `misread` that a MAC failed; both start over when one request alone starts
the COUNTs over. The client completes a security mode command before it sends
under the new keys, and does so once.

**Nodes.** One action for each access to a map, the store or a socket. `MapFault` is the
abort of the Go runtime when it notices two requests in one map; when it does
not notice, each access takes effect at once.

**UERegistry.** gNBs and eNBs do the same, so one module stands for both, and a
run has several nodes of one kind. `ues` maps numbers to UEs, `ue` holds the
contexts, which outlive their entry in a map as pointers do. Requests may overlap on
one UE; `home.raced` records that two of them have moved it, or moved and deleted
it, at once.

**UserPlane.** A session is a PDU session or a bearer. The wait of the endpoint
is the protocol of `Framed` with one key and no match, and atomic here. Datagrams
are octets: the UPF's messages are built by `UPF`, decoded by `GTPUCodec`, and told
to the client (`Told`); uplinks are built by the codecs and read by `UPF`. Both are
functions of the datagram alone, so they are computed once, as tables (`Decoded`,
`Telling`, `Meaning`, `Sent`), and the steps look them up. The address an uplink
leaves from is the client's, or what the node has kept of the accept: a gNB keeps
the IPv4 address of a dual-stack session and prints that of an IPv6 session as
hex, which no uplink can use; an eNB keeps pure IPv4 only.

## 3. Runs

Twelve; nine must pass, three must find the violation.

| Run | Question | Bounds |
|---|---|---|
| `framed` | are frames lost, doubled or overtaken, wake-ups missed, timeouts false; does every wait and its watcher end; is `Mailbox` implemented, liveness included? | 2 calls, 2 types, 2 labels, 2 frames |
| `gnbue_nas` | do the COUNTs and keys stay those of the AMF; do sessions have tunnels of their own though the UE changes its RAN id? | 1 UE, 2 RAN ids, 2 sessions, 2 authentications, octet 2, 3 protected downlinks a key, 2 queued |
| `gnbue_ids` | does a wait by ids take another UE's message? | 2 UEs, 3 RAN ids, 3 AMF ids, 1 queued |
| `enbue_nas` | do the COUNTs and keys stay those of the MME; does a dropped bearer come back? | 1 UE, 1 further bearer, 2 authentications, octet 3, 4 downlinks a key, 6 uplinks |
| `enbue_ids` | the same as `gnbue_ids` for EPS | 2 UEs, 3 eNB ids, 3 MME ids |
| `nodes_lifecycle` | are sockets orphaned, do failed creates leave something, is a stored node connected? | 3 requests of any kind, 1 N3 address |
| `sharedue` | do COUNTs and MACs survive requests that overlap on one UE? | 3 requests at once, 2 authentications, octet 2, UL COUNTs below 3, 3 protected downlinks a key, 1 queued; both kinds of UE |
| `ues_registry` | is a UE where the last answer put it, is one moved twice at once lost, are AP ids distinct? | 2 nodes, 2 requests at once, on one UE too, 2 numbers a node, 3 UEs |
| `userplane` | do packets come out once, in order, to their session, and as they were sent; does the peer read what the client asked for? | both kinds of node, 2 sessions, 3 TEIDs, 2 requests at once, 3 datagrams in, of 7 forms; 5 uplinks of both families |
| `gnbue_rekey` | violation: is a genuine second SECURITY MODE COMMAND reported verified? | 1 UE, 2 authentications |
| `ues_migration` | violation: can a moved UE be reached? | as `ues_registry`, any client |
| `userplane_echo` | violation: is an echo answered by the peer asked? | 2 peers, 2 echoes |

Why the bounds are enough. In `Framed` the races are between one waiter, its
watcher, the receiver and one rival for a frame; two calls and two frames,
one of which one of them skips, have them all, and the theorems lift the
bounds. COUNTs need to pass the wrap of the octet and to skip a message: octets
of 2 and 3 with 3 or 4 downlinks a key do. Ids need two UEs, one id that changes
and one that is not learned. TEIDs need a RAN id
that changes between two sessions. A node has three sockets and maps; two creates with
one delete, or one create with two deletes, meet in each. A lost update of a COUNT needs two requests, and a third to
unwrap a downlink meanwhile. The datagrams of `userplane` have one of each thing
that moves an offset: padding, a sequence number, one and two extension headers, of one and two
words, IP options; and one uplink whose UDP checksum over IPv6 comes out as zero.
Requests in the cfgs
are chosen sets (`NASRequests`, `IdRequests`): one for each combination of
protection, wait and effect that a property tells apart; requests alike in these
respects differ only in what is data here. `VIEW`s leave out the history of
answers as far as neither a step nor a property reads it, UEs that are gone, and
what is fixed by the rest of the state; symmetry is over
requests, UEs, peers and nodes that no definition tells apart (not over UEs in
`ENBUE`, where `FirstIds` does).

`CHECK_DEADLOCK FALSE` stands where a client stops: all requests answered
(`nodes_lifecycle`), all nodes deleted (`ues_*`), the bound on COUNTs reached
(`sharedue`).

**Fairness.** Only `framed` needs it. Weak fairness on the steps of
goroutines that can run (Go schedules every runnable goroutine), on the mutex
(Go's is starvation free), and on `Expire`: `waitTimeout` gives every wait a
deadline. None on the peer, on the receiver's read, on sends or on Close. The models
above it have no liveness of their own: every request ends because its wait does.

**What the properties leave out, and why.** `InStepDownlinksVerify` speaks of
messages read in order and less than an octet apart, and not of the MAC of the
command itself (that is `gnbue_rekey`); `UplinksInStep` of GNBUE leaves out a second SECURITY
MODE COMPLETE under the same keys, that of ENBUE a command that is read again
late: it starts both COUNTs over before its MAC is looked at
(`enb_security.go:103`), so COUNTs are used twice. `StoredIsConnected` leaves
out a GTP-U endpoint whose id a DELETE under the other kind has named: that
DELETE closes the endpoint and answers 404. `ues_registry` has a client that
moves UEs only to numbers that are spent and free on the target;
`FoundWhereAnswered` and `RANIdsDistinct` leave out a UE that two requests have
moved at once, of which `NeverLost` says what remains. `UplinksFresh` and
`CipheredDownlinksVerify` speak of the half of a context that no two requests have been in
at once, and the second of ciphered downlinks only: the MAC of the SECURITY MODE COMMAND of a
second authentication fails in `sharedue` as in `gnbue_rekey`, without any race. Sends
that overlap do use a COUNT twice (`gnb_ue_context.go:214`), and two that unwrap at once
do misread; what is checked is that the damage stays within its half and ends with the
next context.

### Findings

* `gnbue_rekey`: the COUNT of a SECURITY MODE COMMAND is estimated from the old
  context before the new one is established, so a genuine command of a second
  authentication is reported `mac_verified: false` (`gnb_security.go:67`;
  `enb_security.go:100` alike).
* `ues_migration`: a moved UE keeps the number of its old node, and the target
  gives the same number to its next UE (`gnb_context.go:100`).
* `userplane_echo`: Echo Requests all have sequence number 1 and any queued Echo
  Response answers (`gtpu/transport.go:167`).

Behaviours met and not made runs, as nothing in the repository says otherwise or
a property would restate one line: a request with `amf_ue_ngap_id_override`
makes the UE keep the other UE's AMF id (`gnb_ngap_handlers.go:240`);
`inject_nas` and `handover_cancel` wait for a type whoever it is for; two
migrations of one UE at once put it into two nodes; a DELETE between the store
and the map of a create answers 204 while the create goes on; an attach with a raw NAS PDU learns an MME
id even from an ERROR INDICATION; nothing removes a bearer
from `ue.Bearers` but the accept that `pdn_disconnect` sends (neither a detach,
a release nor a later `deactivate_eps_bearer_context_accept`).

One that a document does contradict is not a run either, since the modelled AMF and MME send
no such message: a UE-associated message that has no decoder carries no ids for the
matchers, which then take it for any UE (`gnb_await_handlers.go:22`), while
`openapi.yaml:915` says that the await of a UE "only returns a downlink PDU addressed to this
UE" and lets only a PDU "that carries no UE NGAP ID" match any waiter.

## 4. Proofs

All are about the specifications TLC runs, for every value of the constants.

**FramedProofs.** From `FramedAssumption` and `RequestsAssumption`. The
properties are not inductive; the invariant is `IInv`:
`TypeOK`; `MutexInv` (a call is between search and park exactly while it holds
the mutex); `SearchInv` (a call that holds it has found nothing that qualifies,
and nor has one that is parked: filing a frame wakes it); `WatchInv` (a watcher
that is gone before its call returned has left it before its look at the
expired context); `HandInv` (the receiver holds a frame exactly while it waits
for the mutex, the newest one); `FrameInv` (queued and returned frames are
apart, in order, and all that were filed); `NoOvertaking`; `ResultInv` (nothing is
returned before the return). One lemma per action; the quiet ones share
`QuietStep`. From it: `TypeCorrect`, `FramesExactlyOnce`, `OldestFirst`,
`NoLostWakeUp` (frames), `NoLostExpiry`, `TimeoutIsHonest` (an action property) and
`RefinesMailbox`: each step is a step of `Mailbox` or leaves its state alone.
The linearization point of a wait is its search, that of a timeout the look at
the context.

**NASContextProofs.** `CountRecovered`, from `OctetAssumption`: `NextDL` recovers a
COUNT less than one octet ahead, for any width; `EstimateAhead`: it never goes back.

**GNBUEProofs.** `TunnelsStayDistinct`, from
`GNBUEAssumption`: the invariant is `RanInv` (RAN ids are distinct and the
counter is ahead), `TeidInv` (a TEID is made of its session id and a RAN id
handed out before) and `ApartInv` (no RAN id that a session of one UE was made
from is another UE's). The last is what carries it: a session outlives the RAN id of its
UE. `gnbue_nas` has one UE that moves to a second RAN id; the theorem is for any number
of either. RAN ids are
below 2^24 (`MaxRan`), where `<< 8` loses nothing.
`TypeCorrect` adds `ShapeInv`: the form of requests, answers, queues and of the AMF's view.
It rests on the decoder: `FiledAs` shows that each message of the AMF is filed under its
type, its ids and the UE it is for, whichever IEs carry these. `DownlinksVerify` (`InStepDownlinksVerify`)
is inductive over `ShapeInv`; `CountRecovered` carries the COUNT over the octet. Both hold with
forged ids. `OwnDownlinks`, under `~Overrides` (with them a wait may well match another
UE's messages): `IdInv` gathers the RAN and the AMF ids that are, or may become, a
UE's (in its context, its request under way, what the AMF has of it, and
every message queued for it) and says that none is two UEs' and that the counters are ahead;
`ToInv` says that a message is for the UE whose ids it carries. So an id that a late
answer teaches is the UE's own, and the next wait matches no other's messages.
`CommandsMeet` (`CommandsMeetTheirKeys`) and `UplinksStayInStep` (`UplinksInStep`) come on top of that, also
under `~Overrides`, from one invariant, `KeyedInv`, which TLC found invariant on three
instances before it was proved. Nothing in a command says which challenge it belongs to; what keeps the two
together is the order of the queue and what the ids let through: a retransmitted challenge
or command of an old connection may stay queued for ever, but the UE's ids moved on.
So `PairInv` says that the messages of one connection carry one pair of ids (the RAN id alone
or the AMF id alone lets the same through), `OrderInv` that a UE's challenges are
queued in the order of their numbers and a command behind its challenge, `AheadInv` that
what can still be taken is a newer challenge than the UE's, or a command for
the Kamf it has, `KeyInv` that a RES* which the core accepts is of the UE's present
challenge and that, once the core has heard the UE under its keys, both have the same
keys and UL COUNT (`Agree`), and `CarrierInv` that challenges and commands all travel in one
queue.

**ENBUEProofs.** `BearersStayDistinct`, from `ENBUEAssumption` and `FewUEs` (fewer than
256 eNB ids): the default bearer's TEID is the eNB id, the others' are
`id << 8 | ebi`, and from 256 on these meet. What tells these apart is arithmetic on the ids, which an
instance fixes, so `TunnelsDistinct` of ENBUE is proved and in no run. It, `TypeCorrect` (`ShapeInv`, over the S1AP
decoder) and `DownlinksVerify` (`InStepDownlinksVerify`, over `CountRecovered`) hold with
and without forged ids; the rest is under `~Overrides`, as for 5G. `OwnDownlinks`: an MME
id is of one UE and of one connection of it (`MMEIdInv`), an eNB id of one UE
(`ENBIdInv`), and a message is for the UE whose ids it carries (`ToInv`).
`UplinksStayInStep` (`UplinksInStep`) comes on top, from `KeyedInv`: a UE keeps its eNB id through all
its connections, so messages of old ones stay readable, and what keeps keys and
COUNTs together is the order of the one queue that challenges and commands travel in
(`CarrierInv`, `OrderInv`), that what can still be taken is not older than what the UE
has (`AheadInv`), and `KeyInv` with `Agree`, the agreement of UE and MME that the
property needs, and what it becomes when a command is read again.
`NoneResurrected` (`NoResurrectedBearer`, an action property) adds `LiveInv`: a queued set-up
request is older than each deactivation of its bearer that the MME waits for (`Sooner`), and one of a
bearer that the MME has dropped is `Passed`: the UE has read and answered something later, so
the request no longer deciphers (`QueuedInv`); and the UE's Kasme is never older than the keys
in use on either side (`GrowInv`). `EstimateAhead` is why a COUNT that has passed stays past.
TLC found `KeyedInv` and `LiveInv` invariant before they were proved. The
first attempt at this proof failed for a good reason: the model's MME took the accept
of an old, retransmitted deactivation for that of a newer one, and gave a bearer up that the UE
still set up; only the bound on the COUNT had hidden it. The MME now takes an accept for the
deactivation that it answers (`Deactivation`, `Dropped`). That is what the theorem assumes of an
MME: NAS names only the bearer in an accept, so an MME has to let a deactivation's
retransmissions run out before it reuses the bearer's identity.

**SharedUEProofs.** `UplinksStayFresh` and `CipheredDownlinksStayVerified`, for any number of
requests, authentications and downlinks, from `SharedUEAssumption` and an octet of more than
one value (256 in the code; an octet of one value carries nothing of a COUNT, and
nothing could be recovered). The invariant follows a context through a change of keys:
`ApartInv` (a half that is not raced has one user), `KeyInv` (the UE's Kamf is
the core's; keys taken into use are the same on both sides), `CommandInv` (the keys of
an authentication wait for their one command, which is last in the queue; ciphered
downlinks are under the keys in place, consecutive, and the core's next COUNT
follows the last), `CompleteInv` (one request completes the exchange, before
anything is taken into use), `ULInv` (a UL COUNT in hand, at each load and store, is
at or above the one that the core expects), `DLInv` (the stored DL COUNT, or that in the hand of
the one request that unwraps, is the one before the next downlink's; `CountRecovered`
carries it over the octet) and `FormInv`. What makes it hard is that the two
halves share the rewind: a request that starts both COUNTs over is in both halves.

**NodesProofs.** From `NodesAssumption`, for any number of overlapping creates and
deletes: `SocketsStayReachable`, `FailedCreatesUndone`, `StoredNodesConnected`.
`PlaceInv` keeps creates and deletes in their own code, `NumberInv` makes ids
unique (the counter equals the number of creates that have one, which is also why
it never leaves `Ids`); `TransportsInv`, `GTPUInv`, `StoredInv` say whose the
entries are and where their owner can be; `AssocInv`, `N3Inv` at which steps a
create's socket must be open, must not be, or is in the map if open;
`DeleteInv` that a delete forgets only what is closed; `ConnectedInv` what a stored
node has at each step while nobody deletes it. That a teardown and a DELETE may
close and forget the same socket in any order is in the last four.

**UERegistryProofs.** From `UERegistryAssumption` and `Careful`, the client of
`ues_registry` (without it the properties fail, as `ues_migration` shows):
`FoundWhereAnsweredHolds`, `NeverLostHolds`, `RANIdsDistinctHolds`, for any number of
nodes, UEs and overlapping requests. `SlotInv`: a number that has a UE, or that a
request is at, was handed out and is of one UE; `KeptInv`: a UE that was not deleted is in a map or
between two; `OneMoverInv`: a UE that was never raced for has one mover, and is out of
every map exactly from its removal to its arrival; `HomeInv`: otherwise it is where
the last answer said; `RANFreeInv`, `RANAloneInv`: a RAN id is the UE's number, or
one that was handed out at the node and is nobody's number, nor about to be, and
of one UE.

**UserPlaneProofs.** From octets to answers, for any sessions, packets, peers and
requests. First the codec, octet by octet, for messages of any type, TEID, sequence
number, chain of extension headers, body and padding: `Decode` accepts such a message
and reads each of these where the peer wrote it (`MessageLaid`, `WalkMeets`: the
walk over the octets meets the headers of the chain and ends where it does;
`BodyRead`, `ContainerRead`, `EchoBodyRead`, `ErrorBodyRead`), and `ParseInner` reads
the packet in it, of either family and with any number of options (`PacketRead`). The
loops of the code are recursive functions; that they define something, and what,
is proved by induction over what is left of the octets. The library's induction
theorems cannot be used for it, but a set can stand for the predicate and a function for the step
(`SetInduction`, `Computed`, both from the well-foundedness of `<`), and those are
ordinary lemmas. Hence `TellingMeant`: what is told of a datagram is what its sender
meant, and with `ToldInv` (an answer is told of a datagram that was queued) `ToldAsSent`,
which is `ReadAsSent`. And `FiledWhereSent`: the receiver files a datagram under the key it
was sent to. On that rest `ReturnedInOrderOnce` and `PacketsStayApart`, with the
invariant `TableInv` and `OthersInv` (shapes), `FiledInv` (what is queued was sent to its key),
`CallInv` (a wait about a session is on a TEID of that session, also after the
session has moved on to another) and `CountInv` (no key has more arrivals than there
were). From `UserPlaneAssumption` (TEIDs are 32-bit and those of different sessions
differ, which `TunnelsStayDistinct` and `BearersStayDistinct` provide) and
`WireAssumption`, which is the format of what a peer sends: extension headers of 4n octets with
one PDU Session Container at most, packets with a whole header of their upper layer, fields
that fit.

The way out is proved as the way in: `UplinksAreUnderstood` is `UplinksUnderstood` for
any payload, ports or echo identifiers, destination, source and uplink TEID, either family
and either kind of node. The peer of `UPF` refuses a wrong length, flag, next header or
checksum, so each has to be right. The sum of a string's words is that of its
halves if the first is of an even length (`SumJoined`, by the same induction), so
a header's sum is that of its fields wherever the checksum lies (`HeaderParts`,
`WordsLaid`); folding the carries ends with 16 bits that are the sum modulo 65535
(`FoldComputed`), so the complement put in place of zero makes the whole verify, also
when UDP has to send 65535 for zero (`ChecksumVerifies`). Around it, `BuiltFour`,
`BuiltSix`, `GPDUCarries` and `GPDUWithQFICarries` say that each layer can be cut out again
where the one below says it is. `SourceIs` adds whose address it comes from: the one of the
accept, kept over the PDU address of 5GS (`KeptByGNB`) and that of EPS (`KeptByENB`).
`UserPlaneAssumption` bounds the requests: ports and identifiers of 16 bits, a payload
that leaves room for the headers in 16-bit lengths (the socket takes no longer
datagram), addresses of 4 or 16 octets, and accepts whose address has the parts their
type (an octet) announces.

**Only model-checked.** Every invariant of the passing runs is stated by a theorem. What
stays with TLC:
* Liveness (`EveryGoroutineEnds`, that of `Mailbox`): fairness is out of the prover's reach here.

## 5. Not modelled

* NAS messages beyond their type, protection and the session's address: they are
  built and read by two libraries, and the code renames their fields for the
  client. The uplink builders of `ngap` and `s1ap`: they copy the ids and the NAS
  PDU they are given, as `Emit` does, into PDUs that the library encodes.
* Cryptography: functions of keys and messages, covered by test vectors. Routing,
  JSON, start-up: I/O.
* Several requests on one UE at once beyond its security context (AP ids,
  sessions, bearers): `GNBUE` and `ENBUE` exclude it.
* Overrides of RAN and eNB ids and of COUNTs, corrupted MACs, forged ids in runs
  (`Overrides` is FALSE in all of them); GUTI and KSI contents; null ciphering; reuse
  of AP ids by the core; failing sends in `GNBUE` and `ENBUE`; the target side of a
  handover, which sends what the client gives and keeps nothing.
* Growth without bound of queues that nobody reads.

## 6. Plan

Done in this order: transport and its proof, because everything waits on it; the
security context and the 5G UEs; nodes; EPS; registry; user plane; then the codecs
under the user plane and under the receivers, several requests on one UE, and
overlapping migrations.

Next:
1. forged ids in runs; the core's view of path switch and reset, with `UERegistry`
   composed;
2. AP ids and sessions of a UE under several requests at once;
3. wider request sets in `gnbue_nas` and `enbue_nas`.
