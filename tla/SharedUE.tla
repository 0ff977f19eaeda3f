------------------------------ MODULE SharedUE ------------------------------
(***************************************************************************)
(* One UE driven by several requests at once.  Its context has no lock:    *)
(* each request is a goroutine that loads and stores the fields of         *)
(* UEContext (UEEPSContext) one after the other, in encodeGNBUplinkNAS     *)
(* (encodeENBUplinkNAS) up to the send of the uplink, and in               *)
(* decodeGNBDownlinkNAS (decodeENBDownlinkNAS) once its wait has returned. *)
(* Everything may overlap; the properties say what survives it.  GNBUE and *)
(* ENBUE take for granted that a request has the UE to itself.             *)
(*                                                                         *)
(* The context has two halves: "ul", which uplinks use, and "dl".  The     *)
(* keys are in both.  The wait is atomic, as Framed shows, and downlinks   *)
(* come in one queue.  The core network is external.                       *)
(***************************************************************************)
EXTENDS NASContext, Integers, Sequences

CONSTANTS
    Requests,   \* HTTP requests that can be under way at once
    Systems,    \* "5GS", "EPS" or both, to be checked in one run
    MaxKeys,    \* bound: authentications
    MaxUL,      \* bound: the UL COUNTs used, below it
    MaxCount,   \* bound: protected downlinks per key
    MaxQueued   \* bound: downlinks not fetched yet

ASSUME SharedUEAssumption ==
    Systems \subseteq {"5GS", "EPS"} /\ {MaxKeys, MaxUL, MaxCount, MaxQueued} \subseteq Nat

Halves == {"ul", "dl"}

VARIABLES
    system,     \* the kind of UE
    ctx,        \* its security context
    job,        \* per request: where it is, and its locals
    inbox,      \* downlinks received and not fetched, [prot, key, count]
    core,       \* external: the AMF's (MME's) side of the context
    raced,      \* history: the halves on which two requests have overlapped
                \* since the COUNTs were last started over by one alone
    misread     \* history: the MAC of a ciphered downlink failed since then

vars == <<system, ctx, job, inbox, core, raced, misread>>

Protected == [prot : {"plain", "ciphered", "new"}, key : Nat, count : Nat]

NoNAS == [prot |-> "plain", key |-> NoKey, count |-> 0]

\* pc: the step the request takes next; prot: of the uplink; c: the COUNT it
\* has in hand; key: the keys it protected with; nas: the downlink it unwraps
Idle == [pc |-> "idle", prot |-> "plain", c |-> 0, key |-> NoKey, nas |-> NoNAS]

Sending == {"rewind", "loadUL", "storeUL", "protect", "transmit"}
Unwrapping == {"loadDL", "storeDL", "returnDL", "establish", "verify"}

Init ==
    /\ system \in Systems
    /\ ctx = FreshContext
    /\ job = [p \in Requests |-> Idle]
    /\ inbox = <<>>
    /\ core = [key |-> NoKey, dl |-> 0, ul |-> 0, secured |-> FALSE, stale |-> FALSE]
    /\ raced = {} /\ misread = FALSE

-----------------------------------------------------------------------------
(* What overlaps                                                            *)

\* Which half of the context the request is at work on.  A new 5GS context
\* starts both COUNTs over with the uplink, a new EPS one with the downlink.
Section(j) ==
    LET both == \/ j.pc \in Sending /\ j.prot = "new" /\ system = "5GS"
                \/ j.pc \in Unwrapping /\ j.nas.prot = "new"
    IN CASE both -> Halves
         [] j.pc \in Sending /\ ~both -> {"ul"}
         [] j.pc \in Unwrapping /\ ~both -> {"dl"}
         [] OTHER -> {}

StartsOver(j) ==
    \/ j.pc \in Sending /\ j.prot = "new" /\ system = "5GS"
    \/ j.pc \in Unwrapping /\ j.nas.prot = "new" /\ system = "EPS"

\* History, as request p goes on to j
Enter(p, j) ==
    LET overlap == Section(j) \cap UNION {Section(job[q]) : q \in Requests \ {p}}
        afresh == StartsOver(j) /\ overlap = {}
    IN /\ job' = [job EXCEPT ![p] = j]
       /\ raced' = IF afresh THEN {} ELSE raced \cup overlap
       /\ misread' = (misread /\ ~afresh)

Continue(p, j) ==
    /\ job' = [job EXCEPT ![p] = j]
    /\ UNCHANGED <<raced, misread>>

-----------------------------------------------------------------------------
(* encodeGNBUplinkNAS, encodeENBUplinkNAS, and the send                     *)

\* A client that got a command completes the exchange before it sends anything
\* else, and does so once.
Awaited(prot) ==
    /\ (prot = "new") <=> (ctx.keys = core.key /\ ~core.secured)
    /\ \A q \in Requests : job[q].pc \in Sending => job[q].prot # "new"

\* Mutant of Begins: every uplink starts the COUNTs over.
BeginsAfresh(prot) == "rewind"

\* Only an uplink that takes a new 5GS context into use starts the COUNTs over.
Begins(prot) == IF prot = "new" /\ system = "5GS" THEN "rewind" ELSE "loadUL"

Begin(p, prot) ==
    /\ job[p] = Idle
    /\ CanProtect(ctx) /\ Awaited(prot)
    /\ ctx.ul < MaxUL \/ (prot = "new" /\ ctx.ul = MaxUL)
    /\ Enter(p, [Idle EXCEPT !.pc = Begins(prot), !.prot = prot])
    /\ UNCHANGED <<system, ctx, inbox, core>>

Rewind(p) ==
    /\ job[p].pc = "rewind"
    /\ ctx' = Rewound(ctx, "new")
    /\ Continue(p, [job[p] EXCEPT !.pc = "loadUL"])
    /\ UNCHANGED <<system, inbox, core>>

LoadUL(p) ==
    /\ job[p].pc = "loadUL"
    /\ Continue(p, [job[p] EXCEPT !.pc = "storeUL", !.c = ctx.ul])
    /\ UNCHANGED <<system, ctx, inbox, core>>

\* ULCount++, of the value loaded or of the one there is now
StoreUL(p) ==
    /\ job[p].pc = "storeUL"
    /\ \E c \in {job[p].c, ctx.ul} : ctx' = [ctx EXCEPT !.ul = c + 1]
    /\ Continue(p, [job[p] EXCEPT !.pc = "protect"])
    /\ UNCHANGED <<system, inbox, core>>

Protect(p) ==
    /\ job[p].pc = "protect"
    /\ Continue(p, [job[p] EXCEPT !.pc = "transmit", !.key = ctx.keys])
    /\ UNCHANGED <<system, ctx, inbox, core>>

\* External: what an uplink is to the core network.  Under other keys it is
\* dropped; the first completion of the exchange takes the keys into use; after
\* that a COUNT below the one expected is a replay.
Received(a, prot, key, c) ==
    CASE key = a.key /\ prot = "new" /\ ~a.secured -> [a EXCEPT !.secured = TRUE, !.ul = c + 1]
      [] key = a.key /\ prot # "new" /\ a.secured ->
           [a EXCEPT !.ul = IF c < @ THEN @ ELSE c + 1, !.stale = @ \/ c < a.ul]
      [] OTHER -> a

\* Send, which may fail and has used up its COUNT by then
Transmit(p) ==
    LET j == job[p] IN
    /\ j.pc = "transmit"
    /\ core' = Received(core, j.prot, j.key, j.c) \/ UNCHANGED core
    /\ Continue(p, Idle)
    /\ UNCHANGED <<system, ctx, inbox>>

\* authentication_response: a plain uplink, and a new Kamf (Kasme) to go with it
Authenticate ==
    /\ core.key < MaxKeys
    /\ core.key # NoKey => core.secured
    /\ ctx' = [ctx EXCEPT !.kamf = core.key + 1]
    /\ core' = [core EXCEPT !.key = @ + 1, !.dl = 0, !.secured = FALSE, !.stale = FALSE]
    /\ UNCHANGED <<system, job, inbox, raced, misread>>

-----------------------------------------------------------------------------
(* The wait, decodeGNBDownlinkNAS and decodeENBDownlinkNAS                  *)

\* A request that waits holds nothing of the context, so that the wait matters
\* only once it returns a frame.
Fetch(p) ==
    /\ job[p] = Idle /\ inbox # <<>>
    /\ Enter(p, [Idle EXCEPT !.pc = "loadDL", !.nas = Head(inbox)])
    /\ inbox' = Tail(inbox)
    /\ UNCHANGED <<system, ctx, core>>

LoadDL(p) ==
    /\ job[p].pc = "loadDL"
    /\ Continue(p, [job[p] EXCEPT !.pc = "storeDL", !.c = ctx.dl])
    /\ UNCHANGED <<system, ctx, inbox, core>>

StoreDL(p) ==
    /\ job[p].pc = "storeDL"
    /\ ctx' = [ctx EXCEPT !.dl = EstimateDL(job[p].c, job[p].nas.count % Octet)]
    /\ Continue(p, [job[p] EXCEPT !.pc = "returnDL", !.c = 0])
    /\ UNCHANGED <<system, inbox, core>>

\* NextDL returns DLCount, which it loads again.
ReturnDL(p) ==
    /\ job[p].pc = "returnDL"
    /\ Continue(p, [job[p] EXCEPT !.pc = IF job[p].nas.prot = "new" THEN "establish" ELSE "verify",
                                  !.c = ctx.dl])
    /\ UNCHANGED <<system, ctx, inbox, core>>

\* Mutant of Installed: the COUNTs go on under the new keys.
InstalledGoingOn(s) == [s EXCEPT !.keys = s.kamf, !.active = TRUE]

Installed(s) == IF system = "EPS" THEN [Establish(s) EXCEPT !.ul = 0] ELSE Establish(s)

EstablishKeys(p) ==
    /\ job[p].pc = "establish"
    /\ ctx' = Installed(ctx)
    /\ Continue(p, [job[p] EXCEPT !.pc = "verify"])
    /\ UNCHANGED <<system, inbox, core>>

\* Of a SECURITY MODE COMMAND the outcome is not recorded.
Verify(p) ==
    LET j == job[p]
        verified == ctx.keys = j.nas.key /\ j.c = j.nas.count
    IN
    /\ j.pc = "verify"
    /\ job' = [job EXCEPT ![p] = Idle]
    /\ misread' = (misread \/ (j.nas.prot = "ciphered" /\ ~verified))
    /\ UNCHANGED <<system, ctx, inbox, core, raced>>

-----------------------------------------------------------------------------
(* External: the AMF (MME)                                                  *)

CoreSends(prot) ==
    /\ core.key # NoKey /\ core.dl <= MaxCount /\ Len(inbox) < MaxQueued
    /\ inbox' = Append(inbox, [prot |-> prot, key |-> core.key, count |-> core.dl])
    /\ core' = [core EXCEPT !.dl = @ + 1]
    /\ UNCHANGED <<system, ctx, job, raced, misread>>

CoreCommands == core.dl = 0 /\ CoreSends("new")

CoreInforms == core.secured /\ CoreSends("ciphered")

-----------------------------------------------------------------------------
Step(p) ==
    \/ \E prot \in {"ciphered", "new"} : Begin(p, prot)
    \/ Rewind(p) \/ LoadUL(p) \/ StoreUL(p) \/ Protect(p) \/ Transmit(p)
    \/ Fetch(p)
    \/ LoadDL(p) \/ StoreDL(p) \/ ReturnDL(p) \/ EstablishKeys(p) \/ Verify(p)

Next == (\E p \in Requests : Step(p)) \/ Authenticate \/ CoreCommands \/ CoreInforms

Spec == Init /\ [][Next]_vars

-----------------------------------------------------------------------------
Job == [pc : {"idle"} \cup Sending \cup Unwrapping, prot : {"plain", "ciphered", "new"},
        c : Nat, key : Nat,
        nas : Protected]

TypeOK ==
    /\ system \in {"5GS", "EPS"} /\ ctx \in Context
    /\ job \in [Requests -> Job] /\ inbox \in Seq(Protected)
    /\ raced \subseteq Halves /\ misread \in BOOLEAN

\* As long as no two sends overlap, no uplink repeats a COUNT under its keys or
\* falls behind one already sent, whatever downlinks are unwrapped meanwhile and
\* however those race; and after a race, once a new context was taken into use.
UplinksFresh == "ul" \notin raced => ~core.stale

\* As long as no two requests unwrap a downlink at once, the MAC of every ciphered
\* downlink verifies, whatever uplinks go out meanwhile and however those race.  The
\* SECURITY MODE COMMAND is left out: the COUNT of a second one is estimated from the
\* context it replaces, and its MAC does fail without any race
\* (GenuineCommandVerifies of GNBUE).
CipheredDownlinksVerify == "dl" \notin raced => ~misread
=============================================================================
