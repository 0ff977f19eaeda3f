---------------------------- MODULE SharedUEProofs ----------------------------
(***************************************************************************)
(* TLAPS proofs about SharedUE, for any number of requests, downlinks and  *)
(* authentications.                                                        *)
(***************************************************************************)
EXTENDS SharedUE, NASContextProofs, SequenceTheorems

(***************************************************************************)
(* The inductive invariant                                                 *)
(***************************************************************************)

Core == [key : Nat, dl : Nat, ul : Nat, secured : BOOLEAN, stale : BOOLEAN]

\* What is protected, and what only a new context goes through
FormInv ==
    /\ core \in Core
    /\ \A i \in DOMAIN inbox : inbox[i].prot \in {"ciphered", "new"}
    /\ \A p \in Requests :
         /\ job[p].pc \in Sending => job[p].prot \in {"ciphered", "new"}
         /\ job[p].pc \in Unwrapping => job[p].nas.prot \in {"ciphered", "new"}
         /\ job[p].pc = "rewind" => job[p].prot = "new" /\ system = "5GS"
         /\ job[p].pc = "establish" => job[p].nas.prot = "new"

\* The requests at work on a half of the context
UsesUL ==
    {p \in Requests : \/ job[p].pc \in Sending
                      \/ job[p].pc \in Unwrapping /\ job[p].nas.prot = "new"}
UsesDL ==
    {p \in Requests : \/ job[p].pc \in Unwrapping
                      \/ job[p].pc \in Sending /\ job[p].prot = "new" /\ system = "5GS"}

\* The requests that will install keys, that complete the exchange, that start the
\* COUNTs over next, and that unwrap a ciphered downlink
Installing == {p \in Requests : job[p].pc \in Unwrapping \ {"verify"} /\ job[p].nas.prot = "new"}
Completing == {p \in Requests : job[p].pc \in Sending /\ job[p].prot = "new"}
Rewinding == {p \in Requests : job[p].pc = "rewind"}
Deciphering == {p \in Requests : job[p].pc \in Unwrapping /\ job[p].nas.prot = "ciphered"}

\* Who has been alone is alone.
ApartInv ==
    /\ "ul" \notin raced => \A p, q \in UsesUL : p = q
    /\ "dl" \notin raced => \A p, q \in UsesDL : p = q

KeyInv ==
    /\ ctx.kamf = core.key
    /\ core.key = NoKey => ctx.keys = NoKey /\ ~ctx.active
    /\ core.secured => ctx.keys = core.key /\ core.key # NoKey
    /\ core.stale => core.secured

\* The keys of the last authentication wait for their one command, which is the
\* last downlink before they are in use on both sides; ciphered downlinks are
\* under the keys in place, and in order.
CommandInv ==
    /\ \A p \in Installing :
         /\ ctx.keys # core.key /\ core.key # NoKey /\ core.dl = 1 /\ inbox = <<>>
         /\ \A q \in Installing : p = q
    /\ \A i \in DOMAIN inbox :
         /\ inbox[i].prot = "new" =>
              i = Len(inbox) /\ ctx.keys # core.key /\ core.key # NoKey /\ core.dl = 1
         /\ inbox[i].prot = "ciphered" =>
              /\ inbox[i].key = ctx.keys
              /\ i > 1 => inbox[i].count = inbox[i - 1].count + 1
              /\ core.secured /\ i = Len(inbox) => core.dl = inbox[i].count + 1
    /\ core.key = NoKey => inbox = <<>>
    /\ core.key # NoKey /\ core.dl = 0 => ctx.keys # core.key
    /\ core.key # NoKey /\ ctx.keys = core.key /\ ~core.secured => inbox = <<>> /\ core.dl = 1

\* One request completes the exchange, and nothing is taken into use before it has.
CompleteInv ==
    \A p \in Completing :
      /\ core.key # NoKey /\ ctx.keys = core.key /\ ~core.secured
      /\ \A q \in Completing : p = q

\* A UL COUNT in hand is the next that the core network expects, or above it.
ULInv == "ul" \notin raced =>
    /\ ~core.stale /\ (core.secured => core.ul <= ctx.ul)
    /\ \A p \in Requests :
         /\ job[p].pc = "storeUL" => job[p].c = ctx.ul
         /\ job[p].pc \in {"protect", "transmit"} =>
              job[p].c + 1 = ctx.ul /\ (core.secured => core.ul <= job[p].c)
         /\ job[p].pc = "transmit" => job[p].key = ctx.keys

\* The DL COUNT d is the one before that of the next ciphered downlink.
Behind(d) ==
    /\ inbox # <<>> /\ inbox[1].prot = "ciphered" => inbox[1].count = d + 1
    /\ inbox = <<>> /\ core.secured => core.dl = d + 1

DLInv == "dl" \notin raced =>
    /\ ~misread
    /\ \A p \in Deciphering :
         /\ job[p].nas.key = ctx.keys /\ (ctx.keys = core.key => core.secured)
         /\ job[p].pc = "loadDL" => job[p].nas.count = ctx.dl + 1
         /\ job[p].pc = "storeDL" => job[p].c = ctx.dl /\ job[p].nas.count = ctx.dl + 1
         /\ job[p].pc \in {"returnDL", "verify"} => job[p].nas.count = ctx.dl
         /\ job[p].pc = "verify" => job[p].c = ctx.dl
         /\ Behind(job[p].nas.count)
    /\ Deciphering = {} => Behind(ctx.dl)
    /\ core.key # NoKey /\ ctx.keys = core.key /\ ~core.secured /\ Rewinding = {} => ctx.dl = 0

IInv ==
    /\ TypeOK /\ FormInv /\ ApartInv /\ KeyInv /\ CommandInv /\ CompleteInv /\ ULInv /\ DLInv

(***************************************************************************)
(* Lemmas                                                                  *)
(***************************************************************************)

\* Of the next COUNT the octet is enough, as it has room for two.
LEMMA EstimateNext ==
    ASSUME Octet > 1, NEW d \in Nat
    PROVE  EstimateDL(d, (d + 1) % Octet) = d + 1
<1>1. d + 1 \in d .. d + Octet - 1
  BY OctetAssumption
<1> QED BY <1>1, CountRecovered

\* The types, field by field
Fields ==
    /\ system \in {"5GS", "EPS"} /\ raced \subseteq Halves /\ misread \in BOOLEAN
    /\ ctx.kamf \in Nat /\ ctx.keys \in Nat /\ ctx.active \in BOOLEAN
    /\ ctx.ul \in Nat /\ ctx.dl \in Nat
    /\ core.key \in Nat /\ core.dl \in Nat /\ core.ul \in Nat
    /\ core.secured \in BOOLEAN /\ core.stale \in BOOLEAN
    /\ \A p \in Requests : /\ job[p].c \in Nat /\ job[p].key \in Nat
                           /\ job[p].nas.key \in Nat /\ job[p].nas.count \in Nat

\* Fields follows from the invariant.
LEMMA FieldsHold == ASSUME TypeOK, FormInv PROVE Fields
<1>1. ctx \in Context /\ core \in Core /\ \A p \in Requests : job[p] \in Job
  BY DEF TypeOK, FormInv
<1>2. \A p \in Requests : job[p].c \in Nat /\ job[p].key \in Nat /\ job[p].nas \in Protected
  BY <1>1 DEF Job
<1>3. \A p \in Requests : job[p].nas.key \in Nat /\ job[p].nas.count \in Nat
  BY <1>2 DEF Protected
<1> QED BY <1>1, <1>2, <1>3 DEF Fields, TypeOK, Context, Core

\* A new job and its next step
LEMMA JobSteps ==
    /\ Idle \in Job /\ Idle.pc = "idle" /\ Idle.c = 0 /\ Idle.key = NoKey /\ Idle.nas = NoNAS
    /\ \A j \in Job, l \in {"idle"} \cup Sending \cup Unwrapping : [j EXCEPT !.pc = l] \in Job
    /\ \A j \in Job, l \in {"idle"} \cup Sending \cup Unwrapping, c \in Nat :
         [j EXCEPT !.pc = l, !.c = c] \in Job
<1>1. NoNAS \in Protected
  BY DEF NoNAS, Protected, NoKey
<1>2. Idle \in Job /\ Idle.pc = "idle" /\ Idle.c = 0 /\ Idle.key = NoKey /\ Idle.nas = NoNAS
  BY <1>1 DEF Idle, Job, NoKey
<1>3. \A j \in Job, l \in {"idle"} \cup Sending \cup Unwrapping : [j EXCEPT !.pc = l] \in Job
  BY DEF Job
<1>4. \A j \in Job, l \in {"idle"} \cup Sending \cup Unwrapping, c \in Nat :
        [j EXCEPT !.pc = l, !.c = c] \in Job
  BY DEF Job
<1> QED BY <1>2, <1>3, <1>4

\* What the roles have to do with each other
LEMMA RoleFacts ==
    ASSUME FormInv
    PROVE  /\ \A p \in Requests : job[p].pc \in {"storeUL", "protect", "transmit"} => p \in UsesUL
           /\ \A p \in Installing : p \in Requests /\ p \in UsesUL /\ p \in UsesDL
           /\ \A p \in Deciphering : p \in Requests /\ p \in UsesDL /\ p \notin Installing
           /\ \A p \in Completing : p \in Requests /\ p \in UsesUL
           /\ \A p \in Rewinding : p \in UsesDL /\ p \in Completing
<1>1. "storeUL" \in Sending /\ "protect" \in Sending /\ "transmit" \in Sending
      /\ "rewind" \in Sending
  BY DEF Sending
<1>2. \A p \in Requests : job[p].pc = "rewind" => job[p].prot = "new" /\ system = "5GS"
  BY DEF FormInv
<1> QED BY <1>1, <1>2 DEF UsesUL, UsesDL, Installing, Deciphering, Completing, Rewinding

\* The roles after request p has gone on to j
LEMMA RoleChange ==
    ASSUME NEW p \in Requests, NEW j, job \in [Requests -> Job], job' = [job EXCEPT ![p] = j],
           system' = system
    PROVE  /\ job'[p] = j /\ \A q \in Requests \ {p} : job'[q] = job[q]
           /\ UsesUL' = {q \in UsesUL : q # p} \cup
                {q \in {p} : j.pc \in Sending \/ (j.pc \in Unwrapping /\ j.nas.prot = "new")}
           /\ UsesDL' = {q \in UsesDL : q # p} \cup
                {q \in {p} : j.pc \in Unwrapping
                             \/ (j.pc \in Sending /\ j.prot = "new" /\ system = "5GS")}
           /\ Installing' = {q \in Installing : q # p} \cup
                {q \in {p} : j.pc \in Unwrapping \ {"verify"} /\ j.nas.prot = "new"}
           /\ Completing' = {q \in Completing : q # p} \cup
                {q \in {p} : j.pc \in Sending /\ j.prot = "new"}
           /\ Rewinding' = {q \in Rewinding : q # p} \cup {q \in {p} : j.pc = "rewind"}
           /\ Deciphering' = {q \in Deciphering : q # p} \cup
                {q \in {p} : j.pc \in Unwrapping /\ j.nas.prot = "ciphered"}
<1>1. job'[p] = j /\ \A q \in Requests \ {p} : job'[q] = job[q]
  OBVIOUS
<1>2. UsesUL' = {q \in UsesUL : q # p} \cup
        {q \in {p} : j.pc \in Sending \/ (j.pc \in Unwrapping /\ j.nas.prot = "new")}
  BY <1>1 DEF UsesUL
<1>3. UsesDL' = {q \in UsesDL : q # p} \cup
        {q \in {p} : j.pc \in Unwrapping \/ (j.pc \in Sending /\ j.prot = "new" /\ system = "5GS")}
  BY <1>1 DEF UsesDL
<1>4. Installing' = {q \in Installing : q # p} \cup
        {q \in {p} : j.pc \in Unwrapping \ {"verify"} /\ j.nas.prot = "new"}
  BY <1>1 DEF Installing
<1>5. Completing' = {q \in Completing : q # p} \cup
        {q \in {p} : j.pc \in Sending /\ j.prot = "new"}
  BY <1>1 DEF Completing
<1>6. Rewinding' = {q \in Rewinding : q # p} \cup {q \in {p} : j.pc = "rewind"}
  BY <1>1 DEF Rewinding
<1>7. Deciphering' = {q \in Deciphering : q # p} \cup
        {q \in {p} : j.pc \in Unwrapping /\ j.nas.prot = "ciphered"}
  BY <1>1 DEF Deciphering
<1> QED BY <1>1, <1>2, <1>3, <1>4, <1>5, <1>6, <1>7

\* A request goes on within its section, installing nothing and rewinding nothing.
LEMMA RolesKept ==
    ASSUME NEW p \in Requests, NEW j, job \in [Requests -> Job], job' = [job EXCEPT ![p] = j],
           system' = system, j.prot = job[p].prot, j.nas = job[p].nas,
           \/ j.pc \in Sending /\ job[p].pc \in Sending
           \/ j.pc \in Unwrapping /\ job[p].pc \in Unwrapping,
           (j.pc = "verify") = (job[p].pc = "verify") \/ j.nas.prot # "new",
           (j.pc = "rewind") = (job[p].pc = "rewind")
    PROVE  UNCHANGED <<UsesUL, UsesDL, Installing, Completing, Rewinding, Deciphering>>
<1>1. Sending \cap Unwrapping = {}
  BY DEF Sending, Unwrapping
<1>2. job'[p] = j /\ \A q \in Requests \ {p} : job'[q] = job[q]
  OBVIOUS
<1>3. UNCHANGED UsesUL /\ UNCHANGED UsesDL
  BY <1>1, <1>2 DEF UsesUL, UsesDL
<1>4. UNCHANGED Installing /\ UNCHANGED Completing
  BY <1>1, <1>2 DEF Installing, Completing
<1>5. UNCHANGED Rewinding /\ UNCHANGED Deciphering
  BY <1>1, <1>2 DEF Rewinding, Deciphering
<1> QED BY <1>3, <1>4, <1>5

(***************************************************************************)
(* What keeps a part of the invariant                                      *)
(***************************************************************************)

\* A step of a request that does not use the uplink half
LEMMA ULKept ==
    ASSUME ULInv, "ul" \notin raced' => "ul" \notin raced,
           NEW p, \A q \in Requests \ {p} : job'[q] = job[q],
           job'[p].pc \notin {"storeUL", "protect", "transmit"},
           ctx'.ul = ctx.ul, ctx'.keys = ctx.keys, core'.ul = core.ul,
           core'.secured => core.secured, core'.stale => core.stale
    PROVE  ULInv'
BY DEF ULInv

\* A step of a request that does not use the downlink half
LEMMA DLKept ==
    ASSUME FormInv, DLInv, "dl" \notin raced' => "dl" \notin raced, misread' = misread,
           NEW p, \A q \in Requests \ {p} : job'[q] = job[q], p \notin Deciphering,
           Deciphering' = Deciphering, Rewinding' = {} => Rewinding = {},
           ctx'.dl = ctx.dl, ctx'.keys = ctx.keys, inbox' = inbox,
           core'.key = core.key, core'.dl = core.dl, core'.secured = core.secured
    PROVE  DLInv'
<1>1. \A q \in Deciphering : job'[q] = job[q]
  BY RoleFacts
<1>2. \A d : Behind(d)' <=> Behind(d)
  BY DEF Behind
<1> SUFFICES ASSUME "dl" \notin raced' PROVE DLInv'
  BY DEF DLInv
<1>3. \A q \in Deciphering' :
         /\ job'[q].nas.key = ctx'.keys /\ (ctx'.keys = core'.key => core'.secured)
         /\ job'[q].pc = "loadDL" => job'[q].nas.count = ctx'.dl + 1
         /\ job'[q].pc = "storeDL" => job'[q].c = ctx'.dl /\ job'[q].nas.count = ctx'.dl + 1
         /\ job'[q].pc \in {"returnDL", "verify"} => job'[q].nas.count = ctx'.dl
         /\ job'[q].pc = "verify" => job'[q].c = ctx'.dl
         /\ Behind(job[q].nas.count)'
  BY <1>1, <1>2 DEF DLInv, Behind
<1> QED BY <1>2, <1>3 DEF DLInv, Behind

\* No key, command or downlink comes or goes.
LEMMA CommandKept ==
    ASSUME CommandInv, Installing' \subseteq Installing, ctx'.keys = ctx.keys, inbox' = inbox,
           core'.key = core.key, core'.dl = core.dl, core'.secured = core.secured
    PROVE  CommandInv'
BY DEF CommandInv

\* The requests at work are the same, or fewer.
LEMMA ApartKept ==
    ASSUME ApartInv, raced \subseteq raced', UsesUL' \subseteq UsesUL, UsesDL' \subseteq UsesDL
    PROVE  ApartInv'
BY DEF ApartInv

\* The completion of the exchange goes on.
LEMMA CompleteKept ==
    ASSUME CompleteInv, Completing' \subseteq Completing, ctx'.keys = ctx.keys,
           core'.key = core.key, core'.secured = core.secured
    PROVE  CompleteInv'
BY DEF CompleteInv

\* The section of a job, half by half
LEMMA SectionIs ==
    ASSUME NEW j
    PROVE  /\ Section(j) \subseteq Halves
           /\ "ul" \in Section(j) <=>
                j.pc \in Sending \/ (j.pc \in Unwrapping /\ j.nas.prot = "new")
           /\ "dl" \in Section(j) <=>
                j.pc \in Unwrapping \/ (j.pc \in Sending /\ j.prot = "new" /\ system = "5GS")
           /\ StartsOver(j) => Section(j) = Halves
<1>1. Sending \cap Unwrapping = {}
  BY DEF Sending, Unwrapping
<1>2. CASE j.pc \in Sending /\ j.prot = "new" /\ system = "5GS"
  <2>1. Section(j) = Halves
    BY <1>2 DEF Section
  <2> QED BY <1>1, <1>2, <2>1 DEF Halves
<1>3. CASE j.pc \in Sending /\ ~(j.prot = "new" /\ system = "5GS")
  <2>1. Section(j) = {"ul"}
    BY <1>1, <1>3 DEF Section
  <2>2. j.pc \notin Unwrapping
    BY <1>1, <1>3
  <2> QED BY <1>3, <2>1, <2>2 DEF Halves, StartsOver
<1>4. CASE j.pc \in Unwrapping /\ j.nas.prot = "new"
  <2>1. Section(j) = Halves
    BY <1>1, <1>4 DEF Section
  <2> QED BY <1>1, <1>4, <2>1 DEF Halves
<1>5. CASE j.pc \in Unwrapping /\ j.nas.prot # "new"
  <2>1. Section(j) = {"dl"}
    BY <1>1, <1>5 DEF Section
  <2>2. j.pc \notin Sending
    BY <1>1, <1>5
  <2> QED BY <1>5, <2>1, <2>2 DEF Halves, StartsOver
<1>6. CASE j.pc \notin Sending /\ j.pc \notin Unwrapping
  <2>1. Section(j) = {}
    BY <1>6 DEF Section
  <2> QED BY <1>6, <2>1 DEF StartsOver
<1> QED BY <1>2, <1>3, <1>4, <1>5, <1>6

\* A request that goes to work on a half is alone on it, or the half is raced; the
\* history starts over when all others are idle.
LEMMA EnterEffect ==
    ASSUME NEW p \in Requests, NEW j, job \in [Requests -> Job], job[p] = Idle, Enter(p, j),
           raced \subseteq Halves, misread \in BOOLEAN
    PROVE  /\ job' = [job EXCEPT ![p] = j] /\ raced' \subseteq Halves /\ misread' \in BOOLEAN
           /\ "ul" \notin raced' /\ "ul" \in Section(j) => UsesUL = {}
           /\ "dl" \notin raced' /\ "dl" \in Section(j) => UsesDL = {}
           /\ \/ raced \subseteq raced' /\ misread' = misread
              \/ StartsOver(j) /\ misread' = FALSE /\ UsesUL = {} /\ UsesDL = {}
<1> DEFINE others == UNION {Section(job[q]) : q \in Requests \ {p}}
           overlap == Section(j) \cap others
           afresh == StartsOver(j) /\ overlap = {}
<1>1. /\ job' = [job EXCEPT ![p] = j] /\ raced' = IF afresh THEN {} ELSE raced \cup overlap
      /\ misread' = (misread /\ ~afresh)
  BY DEF Enter
<1>2. p \notin UsesUL /\ p \notin UsesDL
  BY JobSteps DEF UsesUL, UsesDL, Sending, Unwrapping
<1>3. \A q \in UsesUL : "ul" \in others
  <2> TAKE q \in UsesUL
  <2>1. q \in Requests \ {p} /\ "ul" \in Section(job[q])
    BY <1>2, SectionIs DEF UsesUL
  <2> QED BY <2>1
<1>4. \A q \in UsesDL : "dl" \in others
  <2> TAKE q \in UsesDL
  <2>1. q \in Requests \ {p} /\ "dl" \in Section(job[q])
    BY <1>2, SectionIs DEF UsesDL
  <2> QED BY <2>1
<1> HIDE DEF others
<1>5. overlap \subseteq Halves /\ (StartsOver(j) => Section(j) = Halves)
  BY SectionIs
<1>6. CASE afresh
  <2>1. "ul" \notin others /\ "dl" \notin others
    BY <1>5, <1>6 DEF Halves
  <2>2. UsesUL = {} /\ UsesDL = {}
    BY <1>3, <1>4, <2>1
  <2> QED BY <1>1, <1>6, <2>2
<1>7. CASE ~afresh
  <2>1. raced' = raced \cup overlap /\ misread' = misread
    BY <1>1, <1>7
  <2>2. /\ "ul" \notin raced' /\ "ul" \in Section(j) => UsesUL = {}
        /\ "dl" \notin raced' /\ "dl" \in Section(j) => UsesDL = {}
    BY <1>3, <1>4, <2>1
  <2> QED BY <1>1, <1>5, <2>1, <2>2
<1> QED BY <1>6, <1>7

(***************************************************************************)
(* Every action preserves the invariant                                    *)
(***************************************************************************)

\* The UL COUNT is loaded.
LEMMA LoadULPreserves ==
    ASSUME Octet > 1, IInv, NEW p \in Requests, LoadUL(p)
    PROVE  IInv'
<1>0. Fields
  BY FieldsHold DEF IInv
<1> DEFINE j == [job[p] EXCEPT !.pc = "storeUL", !.c = ctx.ul]
<1>1. /\ job[p].pc = "loadUL" /\ job' = [job EXCEPT ![p] = j]
      /\ UNCHANGED <<system, ctx, inbox, core, raced, misread>>
  BY DEF LoadUL, Continue
<1>2. /\ job \in [Requests -> Job] /\ j \in Job /\ j.prot = job[p].prot /\ j.nas = job[p].nas
      /\ j.pc = "storeUL" /\ j.c = ctx.ul
  <2>1. job \in [Requests -> Job] /\ job[p] \in Job
    BY DEF IInv, TypeOK
  <2> QED BY <1>0, <2>1 DEF Job, Fields, Sending, Unwrapping
<1> HIDE DEF j
<1>3. /\ job'[p] = j /\ \A q \in Requests \ {p} : job'[q] = job[q]
      /\ \A q \in Requests : job'[q].prot = job[q].prot /\ job'[q].nas = job[q].nas
  BY <1>1, <1>2
<1>4. UNCHANGED <<UsesUL, UsesDL, Installing, Completing, Rewinding, Deciphering>>
  <2>1. "loadUL" \in Sending /\ j.pc \in Sending /\ j.pc # "rewind" /\ j.pc # "verify"
        /\ system' = system
    BY <1>1, <1>2 DEF Sending, Unwrapping
  <2> QED BY <1>1, <1>2, <2>1, RolesKept
<1>5. TypeOK'
  BY <1>1, <1>2 DEF IInv, TypeOK
<1>6. FormInv'
  <2>1. job[p].pc \in Sending /\ j.pc # "rewind"
    BY <1>1, <1>2 DEF Sending
  <2> QED BY <1>1, <1>2, <1>3, <2>1 DEF IInv, FormInv, Sending, Unwrapping
<1>7. ApartInv'
  BY <1>1, <1>4, ApartKept DEF IInv
<1>8. KeyInv'
  BY <1>1 DEF IInv, KeyInv
<1>9. CommandInv'
  BY <1>1, <1>4, CommandKept DEF IInv
<1>10. CompleteInv'
  BY <1>1, <1>4, CompleteKept DEF IInv
<1>11. ULInv'
  <2> SUFFICES ASSUME "ul" \notin raced PROVE ULInv'
    BY <1>1 DEF ULInv
  <2>1. p \in UsesUL
    BY <1>1 DEF UsesUL, Sending
  <2>2. \A q \in Requests \ {p} : job[q].pc \notin {"storeUL", "protect", "transmit"}
    BY <2>1, RoleFacts DEF IInv, ApartInv
  <2> QED BY <1>1, <1>2, <1>3, <2>2 DEF IInv, ULInv
<1>12. DLInv'
  <2>1. p \notin Deciphering
    BY <1>1 DEF Deciphering, Unwrapping
  <2> QED BY <1>1, <1>2, <1>3, <1>4, <2>1, DLKept DEF IInv
<1> QED BY <1>5, <1>6, <1>7, <1>8, <1>9, <1>10, <1>11, <1>12 DEF IInv

\* The UL COUNT stored is the one after that in hand, if no other request sends.
LEMMA StoreULPreserves ==
    ASSUME Octet > 1, IInv, NEW p \in Requests, StoreUL(p)
    PROVE  IInv'
<1>0. Fields
  BY FieldsHold DEF IInv
<1> DEFINE j == [job[p] EXCEPT !.pc = "protect"]
<1>1. /\ job[p].pc = "storeUL" /\ job' = [job EXCEPT ![p] = j]
      /\ UNCHANGED <<system, inbox, core, raced, misread>>
  BY DEF StoreUL, Continue
<1>2. /\ job \in [Requests -> Job] /\ j \in Job /\ j.prot = job[p].prot /\ j.nas = job[p].nas
      /\ j.pc = "protect" /\ j.c = job[p].c
  <2>1. job \in [Requests -> Job] /\ job[p] \in Job
    BY DEF IInv, TypeOK
  <2> QED BY <1>0, <2>1 DEF Job, Fields, Sending, Unwrapping
<1> HIDE DEF j
<1>3. /\ job'[p] = j /\ \A q \in Requests \ {p} : job'[q] = job[q]
      /\ \A q \in Requests : job'[q].prot = job[q].prot /\ job'[q].nas = job[q].nas
  BY <1>1, <1>2
<1>4. UNCHANGED <<UsesUL, UsesDL, Installing, Completing, Rewinding, Deciphering>>
  <2>1. "storeUL" \in Sending /\ j.pc \in Sending /\ j.pc # "rewind" /\ j.pc # "verify"
        /\ system' = system
    BY <1>1, <1>2 DEF Sending, Unwrapping
  <2> QED BY <1>1, <1>2, <2>1, RolesKept
<1>5. /\ ctx' \in Context /\ ctx'.kamf = ctx.kamf /\ ctx'.keys = ctx.keys
      /\ ctx'.active = ctx.active /\ ctx'.dl = ctx.dl
      /\ ctx'.ul = job[p].c + 1 \/ ctx'.ul = ctx.ul + 1
  <2>1. PICK c \in {job[p].c, ctx.ul} : ctx' = [ctx EXCEPT !.ul = c + 1]
    BY DEF StoreUL
  <2>2. ctx \in Context /\ c \in Nat
    BY <1>0, <2>1 DEF IInv, TypeOK, Fields
  <2> QED BY <2>1, <2>2 DEF Context
<1>6. TypeOK'
  BY <1>1, <1>2, <1>5 DEF IInv, TypeOK
<1>7. FormInv'
  <2>1. job[p].pc \in Sending /\ j.pc # "rewind"
    BY <1>1, <1>2 DEF Sending
  <2> QED BY <1>1, <1>2, <1>3, <2>1 DEF IInv, FormInv, Sending, Unwrapping
<1>8. ApartInv'
  BY <1>1, <1>4, ApartKept DEF IInv
<1>9. KeyInv'
  BY <1>1, <1>5 DEF IInv, KeyInv
<1>10. CommandInv'
  BY <1>1, <1>4, <1>5, CommandKept DEF IInv
<1>11. CompleteInv'
  BY <1>1, <1>4, <1>5, CompleteKept DEF IInv
<1>12. ULInv'
  <2> SUFFICES ASSUME "ul" \notin raced PROVE ULInv'
    BY <1>1 DEF ULInv
  <2>1. p \in UsesUL
    BY <1>1 DEF UsesUL, Sending
  <2>2. \A q \in Requests \ {p} : job[q].pc \notin {"storeUL", "protect", "transmit"}
    BY <2>1, RoleFacts DEF IInv, ApartInv
  <2>3. job[p].c = ctx.ul /\ ~core.stale /\ (core.secured => core.ul <= ctx.ul)
    BY <1>1 DEF IInv, ULInv
  <2>4. ctx'.ul = job[p].c + 1 /\ ctx.ul \in Nat /\ core.ul \in Nat /\ job[p].c \in Nat
    BY <1>0, <1>5, <2>3 DEF Fields
  <2>5. \A q \in Requests :
          /\ job'[q].pc # "storeUL" /\ job'[q].pc # "transmit"
          /\ job'[q].pc = "protect" => q = p
    BY <1>2, <1>3, <2>2
  <2> QED BY <1>1, <1>2, <1>3, <2>3, <2>4, <2>5 DEF ULInv
<1>13. DLInv'
  <2>1. p \notin Deciphering
    BY <1>1 DEF Deciphering, Unwrapping
  <2> QED BY <1>1, <1>2, <1>3, <1>4, <1>5, <2>1, DLKept DEF IInv
<1> QED BY <1>6, <1>7, <1>8, <1>9, <1>10, <1>11, <1>12, <1>13 DEF IInv

\* The uplink is protected with the keys there are.
LEMMA ProtectPreserves ==
    ASSUME Octet > 1, IInv, NEW p \in Requests, Protect(p)
    PROVE  IInv'
<1>0. Fields
  BY FieldsHold DEF IInv
<1> DEFINE j == [job[p] EXCEPT !.pc = "transmit", !.key = ctx.keys]
<1>1. /\ job[p].pc = "protect" /\ job' = [job EXCEPT ![p] = j]
      /\ UNCHANGED <<system, ctx, inbox, core, raced, misread>>
  BY DEF Protect, Continue
<1>2. /\ job \in [Requests -> Job] /\ j \in Job /\ j.prot = job[p].prot /\ j.nas = job[p].nas
      /\ j.pc = "transmit" /\ j.c = job[p].c /\ j.key = ctx.keys
  <2>1. job \in [Requests -> Job] /\ job[p] \in Job
    BY DEF IInv, TypeOK
  <2> QED BY <1>0, <2>1 DEF Job, Fields, Sending, Unwrapping
<1> HIDE DEF j
<1>3. /\ job'[p] = j /\ \A q \in Requests \ {p} : job'[q] = job[q]
      /\ \A q \in Requests : job'[q].prot = job[q].prot /\ job'[q].nas = job[q].nas
  BY <1>1, <1>2
<1>4. UNCHANGED <<UsesUL, UsesDL, Installing, Completing, Rewinding, Deciphering>>
  <2>1. "protect" \in Sending /\ j.pc \in Sending /\ j.pc # "rewind" /\ j.pc # "verify"
        /\ system' = system
    BY <1>1, <1>2 DEF Sending, Unwrapping
  <2> QED BY <1>1, <1>2, <2>1, RolesKept
<1>5. TypeOK'
  BY <1>1, <1>2 DEF IInv, TypeOK
<1>6. FormInv'
  <2>1. job[p].pc \in Sending /\ j.pc # "rewind"
    BY <1>1, <1>2 DEF Sending
  <2> QED BY <1>1, <1>2, <1>3, <2>1 DEF IInv, FormInv, Sending, Unwrapping
<1>7. ApartInv'
  BY <1>1, <1>4, ApartKept DEF IInv
<1>8. KeyInv'
  BY <1>1 DEF IInv, KeyInv
<1>9. CommandInv'
  BY <1>1, <1>4, CommandKept DEF IInv
<1>10. CompleteInv'
  BY <1>1, <1>4, CompleteKept DEF IInv
<1>11. ULInv'
  <2> SUFFICES ASSUME "ul" \notin raced PROVE ULInv'
    BY <1>1 DEF ULInv
  <2>1. p \in UsesUL
    BY <1>1 DEF UsesUL, Sending
  <2>2. \A q \in Requests \ {p} : job[q].pc \notin {"storeUL", "protect", "transmit"}
    BY <2>1, RoleFacts DEF IInv, ApartInv
  <2> QED BY <1>1, <1>2, <1>3, <2>2 DEF IInv, ULInv
<1>12. DLInv'
  <2>1. p \notin Deciphering
    BY <1>1 DEF Deciphering, Unwrapping
  <2> QED BY <1>1, <1>2, <1>3, <1>4, <2>1, DLKept DEF IInv
<1> QED BY <1>5, <1>6, <1>7, <1>8, <1>9, <1>10, <1>11, <1>12 DEF IInv

\* The DL COUNT is loaded.
LEMMA LoadDLPreserves ==
    ASSUME Octet > 1, IInv, NEW p \in Requests, LoadDL(p)
    PROVE  IInv'
<1>0. Fields
  BY FieldsHold DEF IInv
<1> DEFINE j == [job[p] EXCEPT !.pc = "storeDL", !.c = ctx.dl]
<1>1. /\ job[p].pc = "loadDL" /\ job' = [job EXCEPT ![p] = j]
      /\ UNCHANGED <<system, ctx, inbox, core, raced, misread>>
  BY DEF LoadDL, Continue
<1>2. /\ job \in [Requests -> Job] /\ j \in Job /\ j.prot = job[p].prot /\ j.nas = job[p].nas
      /\ j.pc = "storeDL" /\ j.c = ctx.dl
  <2>1. job \in [Requests -> Job] /\ job[p] \in Job
    BY DEF IInv, TypeOK
  <2> QED BY <1>0, <2>1 DEF Job, Fields, Sending, Unwrapping
<1> HIDE DEF j
<1>3. /\ job'[p] = j /\ \A q \in Requests \ {p} : job'[q] = job[q]
      /\ \A q \in Requests : job'[q].prot = job[q].prot /\ job'[q].nas = job[q].nas
  BY <1>1, <1>2
<1>4. UNCHANGED <<UsesUL, UsesDL, Installing, Completing, Rewinding, Deciphering>>
  <2>1. "loadDL" \in Unwrapping /\ j.pc \in Unwrapping /\ j.pc # "rewind" /\ j.pc # "verify"
        /\ system' = system
    BY <1>1, <1>2 DEF Sending, Unwrapping
  <2> QED BY <1>1, <1>2, <2>1, RolesKept
<1>5. TypeOK'
  BY <1>1, <1>2 DEF IInv, TypeOK
<1>6. FormInv'
  <2>1. job[p].pc \in Unwrapping /\ j.pc # "rewind"
    BY <1>1, <1>2 DEF Unwrapping
  <2> QED BY <1>1, <1>2, <1>3, <2>1 DEF IInv, FormInv, Sending, Unwrapping
<1>7. ApartInv'
  BY <1>1, <1>4, ApartKept DEF IInv
<1>8. KeyInv'
  BY <1>1 DEF IInv, KeyInv
<1>9. CommandInv'
  BY <1>1, <1>4, CommandKept DEF IInv
<1>10. CompleteInv'
  BY <1>1, <1>4, CompleteKept DEF IInv
<1>11. ULInv'
  BY <1>1, <1>2, <1>3, ULKept DEF IInv
<1>12. DLInv'
  <2> SUFFICES ASSUME "dl" \notin raced PROVE DLInv'
    BY <1>1 DEF DLInv
  <2>1. p \in UsesDL
    BY <1>1 DEF UsesDL, Unwrapping
  <2>2. \A q \in Deciphering : q = p
    BY <2>1, RoleFacts DEF IInv, ApartInv
  <2>3. \A d : Behind(d)' <=> Behind(d)
    BY <1>1 DEF Behind
  <2>4. p \in Deciphering => job[p].nas.count = ctx.dl + 1 /\ Behind(job[p].nas.count)
    BY <1>1 DEF IInv, DLInv
  <2> QED BY <1>1, <1>2, <1>3, <1>4, <2>2, <2>3, <2>4 DEF IInv, DLInv, Behind
<1> QED BY <1>5, <1>6, <1>7, <1>8, <1>9, <1>10, <1>11, <1>12 DEF IInv

\* The DL COUNT stored is that of the downlink, if no other request unwraps.
LEMMA StoreDLPreserves ==
    ASSUME Octet > 1, IInv, NEW p \in Requests, StoreDL(p)
    PROVE  IInv'
<1>0. Fields
  BY FieldsHold DEF IInv
<1> DEFINE j == [job[p] EXCEPT !.pc = "returnDL", !.c = 0]
<1>1. /\ job[p].pc = "storeDL" /\ job' = [job EXCEPT ![p] = j]
      /\ UNCHANGED <<system, inbox, core, raced, misread>>
  BY DEF StoreDL, Continue
<1>2. /\ job \in [Requests -> Job] /\ j \in Job /\ j.prot = job[p].prot /\ j.nas = job[p].nas
      /\ j.pc = "returnDL"
  <2>1. job \in [Requests -> Job] /\ job[p] \in Job
    BY DEF IInv, TypeOK
  <2> QED BY <1>0, <2>1 DEF Job, Fields, Sending, Unwrapping
<1> HIDE DEF j
<1>3. /\ job'[p] = j /\ \A q \in Requests \ {p} : job'[q] = job[q]
      /\ \A q \in Requests : job'[q].prot = job[q].prot /\ job'[q].nas = job[q].nas
  BY <1>1, <1>2
<1>4. UNCHANGED <<UsesUL, UsesDL, Installing, Completing, Rewinding, Deciphering>>
  <2>1. "storeDL" \in Unwrapping /\ j.pc \in Unwrapping /\ j.pc # "rewind" /\ j.pc # "verify"
        /\ system' = system
    BY <1>1, <1>2 DEF Sending, Unwrapping
  <2> QED BY <1>1, <1>2, <2>1, RolesKept
<1>5. /\ ctx' \in Context /\ ctx'.kamf = ctx.kamf /\ ctx'.keys = ctx.keys
      /\ ctx'.active = ctx.active /\ ctx'.ul = ctx.ul
      /\ ctx'.dl = EstimateDL(job[p].c, job[p].nas.count % Octet)
  <2>1. ctx' = [ctx EXCEPT !.dl = EstimateDL(job[p].c, job[p].nas.count % Octet)]
    BY DEF StoreDL
  <2>2. ctx \in Context /\ job[p].c \in Nat /\ job[p].nas.count \in Nat
    BY <1>0 DEF IInv, TypeOK, Fields
  <2>3. EstimateDL(job[p].c, job[p].nas.count % Octet) \in Nat
    BY <2>2, EstimateType
  <2> QED BY <2>1, <2>2, <2>3 DEF Context
<1>6. TypeOK'
  BY <1>1, <1>2, <1>5 DEF IInv, TypeOK
<1>7. FormInv'
  <2>1. job[p].pc \in Unwrapping /\ j.pc # "rewind"
    BY <1>1, <1>2 DEF Unwrapping
  <2> QED BY <1>1, <1>2, <1>3, <2>1 DEF IInv, FormInv, Sending, Unwrapping
<1>8. ApartInv'
  BY <1>1, <1>4, ApartKept DEF IInv
<1>9. KeyInv'
  BY <1>1, <1>5 DEF IInv, KeyInv
<1>10. CommandInv'
  BY <1>1, <1>4, <1>5, CommandKept DEF IInv
<1>11. CompleteInv'
  BY <1>1, <1>4, <1>5, CompleteKept DEF IInv
<1>12. ULInv'
  BY <1>1, <1>2, <1>3, <1>5, ULKept DEF IInv
<1>13. DLInv'
  <2> SUFFICES ASSUME "dl" \notin raced PROVE DLInv'
    BY <1>1 DEF DLInv
  <2>1. p \in UsesDL
    BY <1>1 DEF UsesDL, Unwrapping
  <2>2. \A q \in Deciphering : q = p
    BY <2>1, RoleFacts DEF IInv, ApartInv
  <2>3. \A d : Behind(d)' <=> Behind(d)
    BY <1>1 DEF Behind
  <2>4. CASE p \in Deciphering
    <3>1. /\ job[p].c = ctx.dl /\ job[p].nas.count = ctx.dl + 1 /\ Behind(job[p].nas.count)
          /\ job[p].nas.key = ctx.keys /\ (ctx.keys = core.key => core.secured)
      BY <1>1, <2>4 DEF IInv, DLInv
    <3>2. ctx'.dl = job[p].nas.count
      BY <1>0, <1>5, <3>1, EstimateNext DEF Fields
    <3> QED BY <1>1, <1>2, <1>3, <1>4, <1>5, <2>2, <2>3, <2>4, <3>1, <3>2 DEF IInv, DLInv, Behind
  <2>5. CASE p \notin Deciphering
    <3>1. p \in Installing /\ Deciphering = {}
      BY <1>1, <2>2, <2>5 DEF IInv, FormInv, Deciphering, Installing, Unwrapping
    <3>2. ctx.keys # core.key /\ inbox = <<>> /\ ~core.secured
      BY <3>1 DEF IInv, CommandInv, KeyInv
    <3> QED BY <1>1, <1>4, <1>5, <3>1, <3>2 DEF IInv, DLInv, Behind
  <2> QED BY <2>4, <2>5
<1> QED BY <1>6, <1>7, <1>8, <1>9, <1>10, <1>11, <1>12, <1>13 DEF IInv

\* The COUNT in hand is the one stored, if no other request unwraps.
LEMMA ReturnDLPreserves ==
    ASSUME Octet > 1, IInv, NEW p \in Requests, ReturnDL(p)
    PROVE  IInv'
<1>0. Fields
  BY FieldsHold DEF IInv
<1> DEFINE j == [job[p] EXCEPT !.pc = IF job[p].nas.prot = "new" THEN "establish" ELSE "verify",
                               !.c = ctx.dl]
<1>1. /\ job[p].pc = "returnDL" /\ job' = [job EXCEPT ![p] = j]
      /\ UNCHANGED <<system, ctx, inbox, core, raced, misread>>
  BY DEF ReturnDL, Continue
<1>2. /\ job \in [Requests -> Job] /\ j \in Job /\ j.prot = job[p].prot /\ j.nas = job[p].nas
      /\ j.pc = (IF job[p].nas.prot = "new" THEN "establish" ELSE "verify") /\ j.c = ctx.dl
  <2>1. job \in [Requests -> Job] /\ job[p] \in Job
    BY DEF IInv, TypeOK
  <2> QED BY <1>0, <2>1 DEF Job, Fields, Sending, Unwrapping
<1> HIDE DEF j
<1>3. /\ job'[p] = j /\ \A q \in Requests \ {p} : job'[q] = job[q]
      /\ \A q \in Requests : job'[q].prot = job[q].prot /\ job'[q].nas = job[q].nas
  BY <1>1, <1>2
<1>4. UNCHANGED <<UsesUL, UsesDL, Installing, Completing, Rewinding, Deciphering>>
  <2>1. /\ "returnDL" \in Unwrapping /\ j.pc \in Unwrapping /\ j.pc # "rewind" /\ system' = system
        /\ j.nas.prot = "new" => j.pc # "verify"
    BY <1>1, <1>2 DEF Unwrapping
  <2> QED BY <1>1, <1>2, <2>1, RolesKept
<1>5. TypeOK'
  BY <1>1, <1>2 DEF IInv, TypeOK
<1>6. FormInv'
  <2>1. job[p].pc \in Unwrapping /\ j.pc # "rewind"
    BY <1>1, <1>2 DEF Unwrapping
  <2> QED BY <1>1, <1>2, <1>3, <2>1 DEF IInv, FormInv, Sending, Unwrapping
<1>7. ApartInv'
  BY <1>1, <1>4, ApartKept DEF IInv
<1>8. KeyInv'
  BY <1>1 DEF IInv, KeyInv
<1>9. CommandInv'
  BY <1>1, <1>4, CommandKept DEF IInv
<1>10. CompleteInv'
  BY <1>1, <1>4, CompleteKept DEF IInv
<1>11. ULInv'
  BY <1>1, <1>2, <1>3, ULKept DEF IInv
<1>12. DLInv'
  <2> SUFFICES ASSUME "dl" \notin raced PROVE DLInv'
    BY <1>1 DEF DLInv
  <2>1. p \in UsesDL
    BY <1>1 DEF UsesDL, Unwrapping
  <2>2. \A q \in Deciphering : q = p
    BY <2>1, RoleFacts DEF IInv, ApartInv
  <2>3. \A d : Behind(d)' <=> Behind(d)
    BY <1>1 DEF Behind
  <2>4. p \in Deciphering => /\ job[p].nas.count = ctx.dl /\ Behind(job[p].nas.count)
                             /\ job[p].nas.prot = "ciphered"
    BY <1>1 DEF IInv, DLInv, Deciphering
  <2> QED BY <1>1, <1>2, <1>3, <1>4, <2>2, <2>3, <2>4 DEF IInv, DLInv, Behind
<1> QED BY <1>5, <1>6, <1>7, <1>8, <1>9, <1>10, <1>11, <1>12 DEF IInv

\* The COUNTs start over while nothing but the completion is under way.
LEMMA RewindPreserves ==
    ASSUME Octet > 1, IInv, NEW p \in Requests, Rewind(p)
    PROVE  IInv'
<1>0. Fields
  BY FieldsHold DEF IInv
<1> DEFINE j == [job[p] EXCEPT !.pc = "loadUL"]
<1>1. /\ job[p].pc = "rewind" /\ job' = [job EXCEPT ![p] = j]
      /\ UNCHANGED <<system, inbox, core, raced, misread>>
  BY DEF Rewind, Continue
<1>2. /\ job \in [Requests -> Job] /\ j \in Job
      /\ j.pc = "loadUL" /\ j.prot = job[p].prot /\ j.nas = job[p].nas
  <2>1. job \in [Requests -> Job] /\ job[p] \in Job
    BY DEF IInv, TypeOK
  <2> QED BY <1>0, <2>1, JobSteps DEF Job, Sending, Unwrapping
<1> HIDE DEF j
<1>3. /\ job'[p] = j /\ \A q \in Requests \ {p} : job'[q] = job[q]
  BY <1>1, <1>2
<1>4. /\ UsesUL' = UsesUL /\ UsesDL' = UsesDL /\ Installing' = Installing
      /\ Completing' = Completing /\ Rewinding' = Rewinding \ {p} /\ Deciphering' = Deciphering
  <2>1. UsesUL \subseteq Requests /\ UsesDL \subseteq Requests
    BY DEF UsesUL, UsesDL
  <2> QED BY <1>1, <1>2, RoleChange
         DEF Sending, Unwrapping, UsesUL, UsesDL, Installing, Completing, Rewinding, Deciphering
<1>5. /\ ctx' \in Context /\ ctx'.kamf = ctx.kamf /\ ctx'.keys = ctx.keys
      /\ ctx'.active = ctx.active
      /\ ctx'.ul = 0 /\ ctx'.dl = 0
  <2>1. ctx \in Context /\ ctx' = [ctx EXCEPT !.ul = 0, !.dl = 0]
    BY DEF IInv, TypeOK, Rewind, Rewound
  <2> QED BY <2>1 DEF Context
<1>6. /\ p \in UsesUL /\ p \in UsesDL /\ core.key # NoKey /\ ctx.keys = core.key /\ ~core.secured
      /\ inbox = <<>>
  <2>1. p \in Rewinding
    BY <1>1 DEF Rewinding
  <2>2. p \in UsesDL /\ p \in Completing
    BY <2>1, RoleFacts DEF IInv
  <2> QED BY <2>2, RoleFacts DEF IInv, CompleteInv, CommandInv
<1>7. TypeOK'
  BY <1>1, <1>2, <1>5 DEF IInv, TypeOK
<1>8. FormInv'
  <2>1. job[p].pc \in Sending
    BY <1>1 DEF Sending
  <2> QED BY <1>1, <1>2, <1>3, <2>1 DEF IInv, FormInv, Unwrapping
<1>9. ApartInv'
  BY <1>1, <1>4, ApartKept DEF IInv
<1>10. KeyInv'
  BY <1>1, <1>5 DEF IInv, KeyInv
<1>11. CommandInv'
  BY <1>1, <1>4, <1>5, CommandKept DEF IInv
<1>12. CompleteInv'
  BY <1>1, <1>4, <1>5, CompleteKept DEF IInv
<1>13. ULInv'
  <2> SUFFICES ASSUME "ul" \notin raced PROVE ULInv'
    BY <1>1 DEF ULInv
  <2>1. \A q \in Requests : job'[q].pc \notin {"storeUL", "protect", "transmit"}
    BY <1>2, <1>3, <1>6, RoleFacts DEF IInv, ApartInv
  <2> QED BY <1>1, <1>6, <2>1 DEF IInv, ULInv
<1>14. DLInv'
  <2> SUFFICES ASSUME "dl" \notin raced PROVE DLInv'
    BY <1>1 DEF DLInv
  <2>1. Deciphering \subseteq {p}
    BY <1>6, RoleFacts DEF IInv, ApartInv
  <2>2. Deciphering' = {}
    BY <1>1, <1>4, <2>1 DEF Deciphering, Unwrapping
  <2> QED BY <1>1, <1>5, <1>6, <2>2 DEF IInv, DLInv, Behind
<1> QED BY <1>7, <1>8, <1>9, <1>10, <1>11, <1>12, <1>13, <1>14 DEF IInv

\* The keys are installed after all downlinks under the ones before.
LEMMA EstablishKeysPreserves ==
    ASSUME Octet > 1, IInv, NEW p \in Requests, EstablishKeys(p)
    PROVE  IInv'
<1>0. Fields
  BY FieldsHold DEF IInv
<1> DEFINE j == [job[p] EXCEPT !.pc = "verify"]
<1>1. /\ job[p].pc = "establish" /\ job' = [job EXCEPT ![p] = j]
      /\ UNCHANGED <<system, inbox, core, raced, misread>>
  BY DEF EstablishKeys, Continue
<1>2. /\ job \in [Requests -> Job] /\ j \in Job
      /\ j.pc = "verify" /\ j.prot = job[p].prot /\ j.nas = job[p].nas
  <2>1. job \in [Requests -> Job] /\ job[p] \in Job
    BY DEF IInv, TypeOK
  <2> QED BY <1>0, <2>1, JobSteps DEF Job, Sending, Unwrapping
<1> HIDE DEF j
<1>3. /\ job'[p] = j /\ \A q \in Requests \ {p} : job'[q] = job[q]
  BY <1>1, <1>2
<1>4. /\ UsesUL' = UsesUL /\ UsesDL' = UsesDL /\ Installing' = Installing \ {p}
      /\ Completing' = Completing /\ Rewinding' = Rewinding /\ Deciphering' = Deciphering
  <2>1. UsesUL \subseteq Requests /\ UsesDL \subseteq Requests
    BY DEF UsesUL, UsesDL
  <2> QED BY <1>1, <1>2, RoleChange
         DEF Sending, Unwrapping, UsesUL, UsesDL, Installing, Completing, Rewinding, Deciphering
<1>5. /\ ctx' \in Context /\ ctx'.kamf = ctx.kamf /\ ctx'.keys = ctx.kamf /\ ctx'.active = TRUE
      /\ ctx'.dl = 0
  <2>1. ctx \in Context
    BY DEF IInv, TypeOK
  <2>2. ctx' = Installed(ctx)
    BY DEF EstablishKeys
  <2>3. CASE system = "EPS"
    BY <2>1, <2>2, <2>3 DEF Context, Installed, Establish
  <2>4. CASE system # "EPS"
    BY <2>1, <2>2, <2>4 DEF Context, Installed, Establish
  <2> QED BY <2>3, <2>4
<1>6. /\ p \in UsesUL /\ p \in UsesDL /\ core.key # NoKey /\ ctx.keys # core.key /\ ~core.secured
      /\ core.dl = 1 /\ inbox = <<>> /\ Installing = {p} /\ p \notin Deciphering
  <2>1. p \in Installing /\ p \notin Deciphering
    BY <1>1 DEF IInv, FormInv, Installing, Deciphering, Unwrapping
  <2> QED BY <2>1, RoleFacts DEF IInv, CommandInv, KeyInv
<1>7. TypeOK'
  BY <1>1, <1>2, <1>5 DEF IInv, TypeOK
<1>8. FormInv'
  <2>1. job[p].pc \in Unwrapping
    BY <1>1 DEF Unwrapping
  <2> QED BY <1>1, <1>2, <1>3, <2>1 DEF IInv, FormInv, Sending
<1>9. ApartInv'
  BY <1>1, <1>4, ApartKept DEF IInv
<1>10. KeyInv'
  BY <1>1, <1>5, <1>6 DEF IInv, KeyInv
<1>11. CommandInv'
  BY <1>1, <1>4, <1>5, <1>6 DEF IInv, CommandInv, KeyInv
<1>12. CompleteInv'
  BY <1>1, <1>4, <1>6 DEF IInv, CompleteInv
<1>13. ULInv'
  <2> SUFFICES ASSUME "ul" \notin raced PROVE ULInv'
    BY <1>1 DEF ULInv
  <2>1. \A q \in Requests : job'[q].pc \notin {"storeUL", "protect", "transmit"}
    BY <1>2, <1>3, <1>6, RoleFacts DEF IInv, ApartInv
  <2> QED BY <1>1, <1>6, <2>1 DEF IInv, ULInv
<1>14. DLInv'
  <2> SUFFICES ASSUME "dl" \notin raced PROVE DLInv'
    BY <1>1 DEF DLInv
  <2>1. Deciphering' = {}
    BY <1>4, <1>6, RoleFacts DEF IInv, ApartInv
  <2> QED BY <1>1, <1>5, <1>6, <2>1 DEF IInv, DLInv, Behind
<1> QED BY <1>7, <1>8, <1>9, <1>10, <1>11, <1>12, <1>13, <1>14 DEF IInv

\* An uplink that goes out is new to the core network, if no other request sends.
LEMMA TransmitPreserves ==
    ASSUME Octet > 1, IInv, NEW p \in Requests, Transmit(p)
    PROVE  IInv'
<1>0. Fields
  BY FieldsHold DEF IInv
<1> DEFINE j == Idle
<1>1. /\ job[p].pc = "transmit" /\ job' = [job EXCEPT ![p] = j]
      /\ UNCHANGED <<system, ctx, inbox, raced, misread>>
  BY DEF Transmit, Continue
<1>2. /\ job \in [Requests -> Job] /\ j \in Job
      /\ j.pc = "idle"
  <2>1. job \in [Requests -> Job] /\ job[p] \in Job
    BY DEF IInv, TypeOK
  <2> QED BY <1>0, <2>1, JobSteps DEF Job, Sending, Unwrapping
<1> HIDE DEF j
<1>3. /\ job'[p] = j /\ \A q \in Requests \ {p} : job'[q] = job[q]
  BY <1>1, <1>2
<1>4. /\ UsesUL' = UsesUL \ {p} /\ UsesDL' = UsesDL \ {p} /\ Installing' = Installing
      /\ Completing' = Completing \ {p} /\ Rewinding' = Rewinding /\ Deciphering' = Deciphering
  <2>1. UsesUL \subseteq Requests /\ UsesDL \subseteq Requests
    BY DEF UsesUL, UsesDL
  <2> QED BY <1>1, <1>2, RoleChange
         DEF Sending, Unwrapping, UsesUL, UsesDL, Installing, Completing, Rewinding, Deciphering
<1>5. /\ core' \in Core /\ core'.key = core.key /\ core'.dl = core.dl
      /\ \/ core' = core
         \/ /\ job[p].key = core.key /\ job[p].prot = "new" /\ ~core.secured
            /\ core'.secured = TRUE /\ core'.ul = job[p].c + 1 /\ core'.stale = core.stale
         \/ /\ job[p].key = core.key /\ job[p].prot # "new" /\ core.secured
            /\ core'.secured = TRUE
            /\ core.ul <= job[p].c => core'.ul = job[p].c + 1 /\ core'.stale = core.stale
  <2>1. core' = core \/ core' = Received(core, job[p].prot, job[p].key, job[p].c)
    BY DEF Transmit
  <2>2. core \in Core /\ job[p].c \in Nat /\ core.ul \in Nat
    BY <1>0 DEF IInv, FormInv, Fields
  <2>3. CASE core' = core
    BY <2>2, <2>3
  <2>4. CASE core' # core /\ job[p].prot = "new"
    <3>1. /\ job[p].key = core.key /\ ~core.secured
          /\ core' = [core EXCEPT !.secured = TRUE, !.ul = job[p].c + 1]
      BY <2>1, <2>4 DEF Received
    <3>2. job[p].c + 1 \in Nat
      BY <2>2
    <3>3. /\ core' \in Core /\ core'.key = core.key /\ core'.dl = core.dl
          /\ core'.stale = core.stale
          /\ core'.secured = TRUE /\ core'.ul = job[p].c + 1
      BY <2>2, <3>1, <3>2 DEF Core
    <3> QED BY <2>4, <3>1, <3>3
  <2>5. CASE core' # core /\ job[p].prot # "new"
    <3>1. PICK n \in {core.ul, job[p].c + 1}, b \in BOOLEAN :
            /\ job[p].key = core.key /\ core.secured
            /\ core' = [core EXCEPT !.ul = n, !.stale = b]
            /\ core.ul <= job[p].c => n = job[p].c + 1 /\ b = core.stale
      <4>1. /\ job[p].key = core.key /\ core.secured
            /\ core' = [core EXCEPT !.ul = IF job[p].c < @ THEN @ ELSE job[p].c + 1,
                                    !.stale = @ \/ job[p].c < core.ul]
        BY <2>1, <2>5 DEF Received
      <4>2. core.stale \in BOOLEAN
        BY <1>0 DEF Fields
      <4>3. CASE job[p].c < core.ul
        <5>1. core' = [core EXCEPT !.ul = core.ul, !.stale = TRUE]
          BY <2>2, <4>1, <4>3 DEF Core
        <5>2. ~(core.ul <= job[p].c)
          BY <2>2, <4>3
        <5> QED BY <4>1, <5>1, <5>2
      <4>4. CASE ~(job[p].c < core.ul)
        <5>1. core' = [core EXCEPT !.ul = job[p].c + 1, !.stale = core.stale]
          BY <2>2, <4>1, <4>2, <4>4 DEF Core
        <5> QED BY <4>1, <4>2, <5>1
      <4> QED BY <4>3, <4>4
    <3>2. n \in Nat
      BY <2>2
    <3>3. /\ core' \in Core /\ core'.key = core.key /\ core'.dl = core.dl
          /\ core'.secured = core.secured /\ core'.ul = n /\ core'.stale = b
      BY <2>2, <3>1, <3>2 DEF Core
    <3>4. core.secured = TRUE
      BY <1>0, <3>1 DEF Fields
    <3> QED BY <2>5, <3>1, <3>3, <3>4
  <2> QED BY <2>3, <2>4, <2>5
<1>6. core'.secured # core.secured =>
        /\ core'.secured /\ core.key # NoKey /\ ctx.keys = core.key /\ ~core.secured
        /\ inbox = <<>> /\ core.dl = 1 /\ Completing = {p} /\ Installing = {} /\ Rewinding = {}
  <2> SUFFICES ASSUME core'.secured # core.secured
               PROVE  /\ core'.secured /\ core.key # NoKey /\ ctx.keys = core.key /\ ~core.secured
                      /\ inbox = <<>> /\ core.dl = 1 /\ Completing = {p} /\ Installing = {}
                      /\ Rewinding = {}
    OBVIOUS
  <2>1. core'.secured /\ ~core.secured /\ p \in Completing /\ p \notin Rewinding
    BY <1>0, <1>1, <1>5 DEF Completing, Rewinding, Sending, Fields
  <2>2. core.key # NoKey /\ ctx.keys = core.key /\ Completing = {p}
    BY <2>1 DEF IInv, CompleteInv
  <2>3. Rewinding = {}
    BY <2>1, <2>2, RoleFacts DEF IInv
  <2> QED BY <2>1, <2>2, <2>3 DEF IInv, CommandInv
<1>7. TypeOK'
  BY <1>1, <1>2 DEF IInv, TypeOK
<1>8. FormInv'
  BY <1>1, <1>2, <1>3, <1>5 DEF IInv, FormInv, Sending, Unwrapping
<1>9. ApartInv'
  BY <1>1, <1>4, ApartKept DEF IInv
<1>10. KeyInv'
  BY <1>0, <1>1, <1>5, <1>6 DEF IInv, KeyInv, Fields, Core
<1>11. CommandInv'
  <2>1. CASE core'.secured = core.secured
    BY <1>1, <1>4, <1>5, <2>1, CommandKept DEF IInv
  <2>2. CASE core'.secured # core.secured
    BY <1>1, <1>4, <1>5, <1>6, <2>2 DEF CommandInv
  <2> QED BY <2>1, <2>2
<1>12. CompleteInv'
  <2>1. CASE core'.secured = core.secured
    BY <1>1, <1>4, <1>5, <2>1, CompleteKept DEF IInv
  <2>2. CASE core'.secured # core.secured
    BY <1>4, <1>6, <2>2 DEF CompleteInv
  <2> QED BY <2>1, <2>2
<1>13. ULInv'
  <2> SUFFICES ASSUME "ul" \notin raced PROVE ULInv'
    BY <1>1 DEF ULInv
  <2>1. p \in UsesUL
    BY <1>1 DEF UsesUL, Sending
  <2>2. \A q \in Requests \ {p} : job[q].pc \notin {"storeUL", "protect", "transmit"}
    BY <2>1, RoleFacts DEF IInv, ApartInv
  <2>3. \A q \in Requests : job'[q].pc \notin {"storeUL", "protect", "transmit"}
    BY <1>2, <1>3, <2>2
  <2>4. /\ ~core.stale /\ (core.secured => core.ul <= ctx.ul) /\ job[p].c + 1 = ctx.ul
        /\ core.secured => core.ul <= job[p].c
    BY <1>1 DEF IInv, ULInv
  <2>5. ctx.ul <= ctx.ul
    BY <1>0 DEF Fields
  <2>6. ~core'.stale /\ (core'.secured => core'.ul <= ctx.ul)
    BY <1>5, <2>4, <2>5
  <2> QED BY <1>1, <2>3, <2>6 DEF ULInv
<1>14. DLInv'
  <2>0. p \notin Deciphering
    BY <1>1 DEF Deciphering, Unwrapping
  <2>1. CASE core'.secured = core.secured
    BY <1>1, <1>2, <1>3, <1>4, <1>5, <2>0, <2>1, DLKept DEF IInv
  <2>2. CASE core'.secured # core.secured
    <3> SUFFICES ASSUME "dl" \notin raced PROVE DLInv'
      BY <1>1 DEF DLInv
    <3>1. Deciphering = {} /\ ctx.dl = 0 /\ ~misread
      BY <1>6, <2>2 DEF IInv, DLInv
    <3> QED BY <1>1, <1>4, <1>5, <1>6, <2>2, <3>1 DEF DLInv, Behind
  <2> QED BY <2>1, <2>2
<1> QED BY <1>7, <1>8, <1>9, <1>10, <1>11, <1>12, <1>13, <1>14 DEF IInv

\* The MAC of a ciphered downlink verifies, if no other request unwraps.
LEMMA VerifyPreserves ==
    ASSUME Octet > 1, IInv, NEW p \in Requests, Verify(p)
    PROVE  IInv'
<1>0. Fields
  BY FieldsHold DEF IInv
<1> DEFINE j == Idle
<1>1. /\ job[p].pc = "verify" /\ job' = [job EXCEPT ![p] = j]
      /\ UNCHANGED <<system, ctx, inbox, core, raced>>
  BY DEF Verify
<1>2. /\ job \in [Requests -> Job] /\ j \in Job
      /\ j.pc = "idle"
  <2>1. job \in [Requests -> Job] /\ job[p] \in Job
    BY DEF IInv, TypeOK
  <2> QED BY <1>0, <2>1, JobSteps DEF Job, Sending, Unwrapping
<1> HIDE DEF j
<1>3. /\ job'[p] = j /\ \A q \in Requests \ {p} : job'[q] = job[q]
  BY <1>1, <1>2
<1>4. /\ UsesUL' = UsesUL \ {p} /\ UsesDL' = UsesDL \ {p} /\ Installing' = Installing
      /\ Completing' = Completing /\ Rewinding' = Rewinding /\ Deciphering' = Deciphering \ {p}
  <2>1. UsesUL \subseteq Requests /\ UsesDL \subseteq Requests
    BY DEF UsesUL, UsesDL
  <2> QED BY <1>1, <1>2, RoleChange
         DEF Sending, Unwrapping, UsesUL, UsesDL, Installing, Completing, Rewinding, Deciphering
<1>5. /\ misread' \in BOOLEAN
      /\ p \notin Deciphering \/ (ctx.keys = job[p].nas.key /\ job[p].c = job[p].nas.count)
           => misread' = misread
  <2>1. PICK b \in BOOLEAN :
          /\ misread' = (misread \/ b)
          /\ b <=> (job[p].nas.prot = "ciphered"
                    /\ ~(ctx.keys = job[p].nas.key /\ job[p].c = job[p].nas.count))
    BY DEF Verify
  <2>2. p \in Deciphering <=> job[p].nas.prot = "ciphered"
    BY <1>1 DEF Deciphering, Unwrapping
  <2> QED BY <1>0, <2>1, <2>2 DEF Fields
<1>6. TypeOK'
  BY <1>1, <1>2, <1>5 DEF IInv, TypeOK
<1>7. FormInv'
  BY <1>1, <1>2, <1>3 DEF IInv, FormInv, Sending, Unwrapping
<1>8. ApartInv'
  BY <1>1, <1>4, ApartKept DEF IInv
<1>9. KeyInv'
  BY <1>1 DEF IInv, KeyInv
<1>10. CommandInv'
  BY <1>1, <1>4, CommandKept DEF IInv
<1>11. CompleteInv'
  BY <1>1, <1>4, CompleteKept DEF IInv
<1>12. ULInv'
  BY <1>1, <1>2, <1>3, ULKept DEF IInv
<1>13. DLInv'
  <2> SUFFICES ASSUME "dl" \notin raced PROVE DLInv'
    BY <1>1 DEF DLInv
  <2>1. CASE p \notin Deciphering
    <3>1. Deciphering' = Deciphering /\ misread' = misread
      BY <1>4, <1>5, <2>1
    <3> QED BY <1>1, <1>2, <1>3, <1>4, <2>1, <3>1, DLKept DEF IInv
  <2>2. CASE p \in Deciphering
    <3>1. /\ ctx.keys = job[p].nas.key /\ (ctx.keys = core.key => core.secured)
          /\ job[p].nas.count = ctx.dl /\ job[p].c = ctx.dl /\ Behind(ctx.dl) /\ ~misread
      BY <1>1, <2>2 DEF IInv, DLInv, Behind
    <3>2. Deciphering' = {}
      BY <1>4, <2>2, RoleFacts DEF IInv, ApartInv
    <3> QED BY <1>1, <1>5, <3>1, <3>2 DEF DLInv, Behind
  <2> QED BY <2>1, <2>2
<1> QED BY <1>6, <1>7, <1>8, <1>9, <1>10, <1>11, <1>12, <1>13 DEF IInv

\* An uplink begins as one of the keys in use, or as the one that completes the exchange.
LEMMA BeginPreserves ==
    ASSUME Octet > 1, IInv, NEW p \in Requests,
           NEW prot \in {"ciphered", "new"}, Begin(p, prot)
    PROVE  IInv'
<1>0. Fields
  BY FieldsHold DEF IInv
<1> DEFINE j == [Idle EXCEPT !.pc = Begins(prot), !.prot = prot]
           afresh == prot = "new" /\ system = "5GS"
<1>1. /\ job[p] = Idle /\ CanProtect(ctx) /\ Awaited(prot) /\ Enter(p, j)
      /\ UNCHANGED <<system, ctx, inbox, core>>
  BY DEF Begin
<1>2. /\ job \in [Requests -> Job] /\ j \in Job /\ j.prot = prot
      /\ j.pc = (IF afresh THEN "rewind" ELSE "loadUL")
  <2>1. job \in [Requests -> Job]
    BY DEF IInv, TypeOK
  <2> QED BY <2>1, JobSteps DEF Job, Begins, Sending, Unwrapping
<1> HIDE DEF j, afresh
<1>3. j.pc \in Sending /\ j.pc \notin Unwrapping /\ (j.pc = "rewind" <=> afresh)
  BY <1>2 DEF Sending, Unwrapping
<1>4. /\ job' = [job EXCEPT ![p] = j] /\ raced' \subseteq Halves /\ misread' \in BOOLEAN
      /\ "ul" \notin raced' => UsesUL = {}
      /\ "dl" \notin raced' /\ afresh => UsesDL = {}
      /\ \/ raced \subseteq raced' /\ misread' = misread
         \/ afresh /\ misread' = FALSE /\ UsesUL = {} /\ UsesDL = {}
  <2>1. "ul" \in Section(j) /\ (afresh => "dl" \in Section(j)) /\ (StartsOver(j) => afresh)
    BY <1>2, <1>3, SectionIs DEF StartsOver, afresh
  <2>2. raced \subseteq Halves /\ misread \in BOOLEAN
    BY <1>0 DEF Fields
  <2> QED BY <1>1, <1>2, <2>1, <2>2, EnterEffect
<1>5. /\ job'[p] = j /\ \A q \in Requests \ {p} : job'[q] = job[q]
  BY <1>2, <1>4
<1>6. /\ UsesUL' = UsesUL \cup {p} /\ UsesDL' = (IF afresh THEN UsesDL \cup {p} ELSE UsesDL)
      /\ Installing' = Installing /\ Deciphering' = Deciphering
      /\ Completing' = (IF prot = "new" THEN Completing \cup {p} ELSE Completing)
      /\ Rewinding' = (IF afresh THEN Rewinding \cup {p} ELSE Rewinding) /\ p \notin Deciphering
  <2>1. /\ p \notin UsesUL /\ p \notin UsesDL /\ p \notin Installing
        /\ p \notin Completing /\ p \notin Rewinding /\ p \notin Deciphering
    BY <1>1, JobSteps
    DEF UsesUL, UsesDL, Installing, Completing, Rewinding, Deciphering, Sending, Unwrapping
  <2>2. system' = system
    BY <1>1
  <2>3. UsesUL' = UsesUL \cup {p}
    BY <1>2, <1>3, <1>5, <2>1 DEF UsesUL
  <2>4. UsesDL' = (IF afresh THEN UsesDL \cup {p} ELSE UsesDL)
    BY <1>2, <1>3, <1>5, <2>1, <2>2 DEF UsesDL, afresh
  <2>5. Installing' = Installing /\ Deciphering' = Deciphering
    BY <1>3, <1>5, <2>1 DEF Installing, Deciphering
  <2>6. Completing' = (IF prot = "new" THEN Completing \cup {p} ELSE Completing)
    BY <1>2, <1>3, <1>5, <2>1 DEF Completing
  <2>7. Rewinding' = (IF afresh THEN Rewinding \cup {p} ELSE Rewinding)
    BY <1>3, <1>5, <2>1 DEF Rewinding
  <2> QED BY <2>1, <2>3, <2>4, <2>5, <2>6, <2>7
<1>7. /\ core.key # NoKey /\ Completing = {}
      /\ prot = "new" => ctx.keys = core.key /\ ~core.secured /\ ~core.stale /\ inbox = <<>>
  <2>1. core.key # NoKey
    BY <1>1 DEF CanProtect, IInv, KeyInv
  <2>2. Completing = {}
    BY <1>1 DEF Awaited, Completing
  <2>3. prot = "new" => ctx.keys = core.key /\ ~core.secured
    BY <1>1 DEF Awaited
  <2> QED BY <2>1, <2>2, <2>3 DEF IInv, KeyInv, CommandInv
<1>8. TypeOK'
  BY <1>1, <1>2, <1>4 DEF IInv, TypeOK
<1>9. FormInv'
  <2>1. j.pc # "establish" /\ (j.pc = "rewind" => prot = "new" /\ system = "5GS")
    BY <1>2, <1>3 DEF afresh, Sending
  <2> QED BY <1>1, <1>2, <1>3, <1>5, <2>1 DEF IInv, FormInv
<1>10. ApartInv'
  BY <1>4, <1>6 DEF IInv, ApartInv
<1>11. KeyInv'
  BY <1>1 DEF IInv, KeyInv
<1>12. CommandInv'
  BY <1>1, <1>6, CommandKept DEF IInv
<1>13. CompleteInv'
  BY <1>1, <1>6, <1>7 DEF IInv, CompleteInv
<1>14. ULInv'
  <2> SUFFICES ASSUME "ul" \notin raced' PROVE ULInv'
    BY DEF ULInv
  <2>1. \A q \in Requests : job'[q].pc \notin {"storeUL", "protect", "transmit"}
    BY <1>2, <1>4, <1>5, RoleFacts DEF IInv
  <2>2. CASE "ul" \notin raced
    BY <1>1, <2>1, <2>2 DEF IInv, ULInv
  <2>3. CASE "ul" \in raced
    BY <1>1, <1>4, <1>7, <2>1, <2>3 DEF ULInv, afresh
  <2> QED BY <2>2, <2>3
<1>15. DLInv'
  <2>1. CASE raced \subseteq raced' /\ misread' = misread
    BY <1>1, <1>5, <1>6, <2>1, DLKept DEF IInv
  <2>2. CASE afresh /\ misread' = FALSE /\ UsesDL = {}
    <3>1. Deciphering' = {} /\ Rewinding' # {} /\ inbox = <<>> /\ ~core.secured
      BY <1>6, <1>7, <2>2, RoleFacts DEF IInv, afresh
    <3> QED BY <1>1, <2>2, <3>1 DEF DLInv, Behind
  <2> QED BY <1>4, <2>1, <2>2
<1> QED BY <1>8, <1>9, <1>10, <1>11, <1>12, <1>13, <1>14, <1>15 DEF IInv

\* The downlink that is fetched is the next one, under the keys in place.
LEMMA FetchPreserves ==
    ASSUME Octet > 1, IInv, NEW p \in Requests, Fetch(p)
    PROVE  IInv'
<1>0. Fields
  BY FieldsHold DEF IInv
<1> DEFINE m == Head(inbox)
           j == [Idle EXCEPT !.pc = "loadDL", !.nas = m]
<1>1. /\ job[p] = Idle /\ inbox # <<>> /\ Enter(p, j) /\ inbox' = Tail(inbox)
      /\ UNCHANGED <<system, ctx, core>>
  BY DEF Fetch
<1>2. /\ inbox \in Seq(Protected) /\ Len(inbox) \in Nat /\ Len(inbox) > 0 /\ 1 \in DOMAIN inbox
      /\ DOMAIN inbox = 1..Len(inbox) /\ m = inbox[1] /\ m \in Protected
      /\ inbox' \in Seq(Protected) /\ Len(inbox') = Len(inbox) - 1 /\ DOMAIN inbox' = 1..Len(inbox')
      /\ \A i \in DOMAIN inbox' : i + 1 \in DOMAIN inbox /\ inbox'[i] = inbox[i + 1]
  <2>1. inbox \in Seq(Protected)
    BY DEF IInv, TypeOK
  <2>2. /\ Head(inbox) = inbox[1] /\ Tail(inbox) \in Seq(Protected)
        /\ Len(Tail(inbox)) = Len(inbox) - 1
        /\ \A i \in 1..Len(Tail(inbox)) : Tail(inbox)[i] = inbox[i + 1]
        /\ Head(inbox) \in Protected
    BY <1>1, <2>1, HeadTailProperties
  <2>3. Len(inbox) \in Nat /\ Len(inbox) > 0 /\ DOMAIN inbox = 1..Len(inbox)
    BY <1>1, <2>1, EmptySeq
  <2> QED BY <1>1, <2>1, <2>2, <2>3
<1>3. /\ job \in [Requests -> Job] /\ j \in Job /\ j.pc = "loadDL" /\ j.nas = m
      /\ m.prot \in {"ciphered", "new"}
  <2>1. job \in [Requests -> Job]
    BY DEF IInv, TypeOK
  <2>2. j \in Job /\ j.pc = "loadDL" /\ j.nas = m
    BY <1>2, JobSteps DEF Job, Unwrapping
  <2> QED BY <1>2, <2>1, <2>2 DEF IInv, FormInv
<1> HIDE DEF j, m
<1>4. /\ job' = [job EXCEPT ![p] = j] /\ raced' \subseteq Halves /\ misread' \in BOOLEAN
      /\ "ul" \notin raced' /\ m.prot = "new" => UsesUL = {}
      /\ "dl" \notin raced' => UsesDL = {}
      /\ \/ raced \subseteq raced' /\ misread' = misread
         \/ m.prot = "new" /\ misread' = FALSE /\ UsesUL = {} /\ UsesDL = {}
  <2>1. /\ "dl" \in Section(j) /\ (m.prot = "new" => "ul" \in Section(j))
        /\ StartsOver(j) => m.prot = "new"
    BY <1>3, SectionIs DEF StartsOver, Sending, Unwrapping
  <2>2. raced \subseteq Halves /\ misread \in BOOLEAN
    BY <1>0 DEF Fields
  <2> QED BY <1>1, <1>3, <2>1, <2>2, EnterEffect
<1>5. /\ job'[p] = j /\ \A q \in Requests \ {p} : job'[q] = job[q]
  BY <1>3, <1>4
<1>6. /\ UsesUL' = (IF m.prot = "new" THEN UsesUL \cup {p} ELSE UsesUL) /\ UsesDL' = UsesDL \cup {p}
      /\ Installing' = (IF m.prot = "new" THEN Installing \cup {p} ELSE Installing)
      /\ Deciphering' = (IF m.prot = "new" THEN Deciphering ELSE Deciphering \cup {p})
      /\ Completing' = Completing /\ Rewinding' = Rewinding
  <2>1. /\ p \notin UsesUL /\ p \notin UsesDL /\ p \notin Installing
        /\ p \notin Completing /\ p \notin Rewinding /\ p \notin Deciphering
    BY <1>1, JobSteps
    DEF UsesUL, UsesDL, Installing, Completing, Rewinding, Deciphering, Sending, Unwrapping
  <2>2. system' = system
    BY <1>1
  <2>3. j.pc \in Unwrapping \ {"verify"} /\ j.pc \notin Sending /\ j.pc # "rewind"
    BY <1>3 DEF Sending, Unwrapping
  <2>4. /\ UsesUL' = {q \in UsesUL : q # p} \cup
             {q \in {p} : j.pc \in Sending \/ (j.pc \in Unwrapping /\ j.nas.prot = "new")}
        /\ UsesDL' = {q \in UsesDL : q # p} \cup
             {q \in {p} : j.pc \in Unwrapping
                             \/ (j.pc \in Sending /\ j.prot = "new" /\ system = "5GS")}
        /\ Installing' = {q \in Installing : q # p} \cup
             {q \in {p} : j.pc \in Unwrapping \ {"verify"} /\ j.nas.prot = "new"}
        /\ Completing' = {q \in Completing : q # p} \cup
             {q \in {p} : j.pc \in Sending /\ j.prot = "new"}
        /\ Rewinding' = {q \in Rewinding : q # p} \cup
             {q \in {p} : j.pc = "rewind"}
        /\ Deciphering' = {q \in Deciphering : q # p} \cup
             {q \in {p} : j.pc \in Unwrapping /\ j.nas.prot = "ciphered"}
    BY <1>3, <1>4, <2>2, RoleChange
  <2>5. UsesUL' = (IF m.prot = "new" THEN UsesUL \cup {p} ELSE UsesUL) /\ UsesDL' = UsesDL \cup {p}
    BY <1>3, <2>1, <2>3, <2>4
  <2>6. Installing' = (IF m.prot = "new" THEN Installing \cup {p} ELSE Installing)
    BY <1>3, <2>1, <2>3, <2>4
  <2>7. Deciphering' = (IF m.prot = "new" THEN Deciphering ELSE Deciphering \cup {p})
    BY <1>3, <2>1, <2>3, <2>4
  <2>8. Completing' = Completing /\ Rewinding' = Rewinding
    BY <1>3, <2>1, <2>3, <2>4
  <2> QED BY <2>1, <2>5, <2>6, <2>7, <2>8
<1>7. core.key # NoKey /\ Installing = {} /\ (ctx.keys = core.key => core.secured)
  BY <1>1 DEF IInv, CommandInv
<1>8. m.prot = "new" =>
        /\ inbox' = <<>> /\ ctx.keys # core.key /\ core.dl = 1 /\ ~core.secured /\ ~core.stale
  <2> SUFFICES ASSUME m.prot = "new"
               PROVE  /\ inbox' = <<>> /\ ctx.keys # core.key /\ core.dl = 1
                      /\ ~core.secured /\ ~core.stale
    OBVIOUS
  <2>1. 1 = Len(inbox) /\ ctx.keys # core.key /\ core.dl = 1
    BY <1>2 DEF IInv, CommandInv
  <2>2. inbox' = <<>>
    BY <1>2, <2>1, EmptySeq
  <2> QED BY <2>1, <2>2 DEF IInv, KeyInv
<1>9. TypeOK'
  BY <1>1, <1>2, <1>3, <1>4 DEF IInv, TypeOK
<1>10. FormInv'
  <2>1. j.pc \notin Sending /\ j.pc # "establish" /\ j.pc # "rewind"
    BY <1>3 DEF Sending
  <2>2. \A i \in DOMAIN inbox' : inbox'[i].prot \in {"ciphered", "new"}
    BY <1>2 DEF IInv, FormInv
  <2> QED BY <1>1, <1>3, <1>5, <2>1, <2>2 DEF IInv, FormInv
<1>11. ApartInv'
  BY <1>4, <1>6 DEF IInv, ApartInv
<1>12. KeyInv'
  BY <1>1 DEF IInv, KeyInv
<1>13. CommandInv'
  <2>1. CASE m.prot = "new"
    BY <1>1, <1>6, <1>7, <1>8, <2>1 DEF CommandInv
  <2>2. CASE m.prot # "new"
    <3>1. ASSUME NEW i \in DOMAIN inbox', inbox'[i].prot = "new"
          PROVE  i = Len(inbox') /\ ctx.keys # core.key /\ core.key # NoKey /\ core.dl = 1
      <4>1. i + 1 = Len(inbox) /\ ctx.keys # core.key /\ core.key # NoKey /\ core.dl = 1
        BY <1>2, <3>1 DEF IInv, CommandInv
      <4> QED BY <1>2, <4>1
    <3>2. ASSUME NEW i \in DOMAIN inbox', inbox'[i].prot = "ciphered"
          PROVE  /\ inbox'[i].key = ctx.keys
                 /\ i > 1 => inbox'[i].count = inbox'[i - 1].count + 1
                 /\ core.secured /\ i = Len(inbox') => core.dl = inbox'[i].count + 1
      <4>1. i \in Nat /\ i + 1 > 1 /\ i + 1 \in DOMAIN inbox /\ inbox'[i] = inbox[i + 1]
            /\ (i + 1) - 1 = i
        BY <1>2
      <4>2. /\ inbox[i + 1].key = ctx.keys
            /\ inbox[i + 1].count = inbox[i].count + 1
            /\ core.secured /\ i + 1 = Len(inbox) => core.dl = inbox[i + 1].count + 1
        BY <3>2, <4>1 DEF IInv, CommandInv
      <4>3. i > 1 => i - 1 \in DOMAIN inbox' /\ inbox'[i - 1] = inbox[(i - 1) + 1]
            /\ (i - 1) + 1 = i
        BY <1>2, <4>1
      <4> QED BY <1>2, <4>1, <4>2, <4>3
    <3> QED BY <1>1, <1>6, <1>7, <2>2, <3>1, <3>2 DEF IInv, CommandInv
  <2> QED BY <2>1, <2>2
<1>14. CompleteInv'
  BY <1>1, <1>6, CompleteKept DEF IInv
<1>15. ULInv'
  <2>1. CASE m.prot # "new"
    BY <1>1, <1>3, <1>4, <1>5, <2>1, ULKept DEF IInv
  <2>2. CASE m.prot = "new"
    <3> SUFFICES ASSUME "ul" \notin raced' PROVE ULInv'
      BY DEF ULInv
    <3>1. \A q \in Requests : job'[q].pc \notin {"storeUL", "protect", "transmit"}
      BY <1>3, <1>4, <1>5, <2>2, RoleFacts DEF IInv
    <3> QED BY <1>1, <1>8, <2>2, <3>1 DEF ULInv
  <2> QED BY <2>1, <2>2
<1>16. DLInv'
  <2> SUFFICES ASSUME "dl" \notin raced' PROVE DLInv'
    BY DEF DLInv
  <2>1. Deciphering = {} /\ ~misread'
    BY <1>4, RoleFacts DEF IInv, DLInv
  <2>2. CASE m.prot = "new"
    BY <1>1, <1>6, <1>8, <2>1, <2>2 DEF DLInv, Behind
  <2>3. CASE m.prot # "new"
    <3>1. m.count = ctx.dl + 1 /\ m.key = ctx.keys
      BY <1>1, <1>2, <1>3, <1>4, <2>1, <2>3 DEF IInv, DLInv, Behind, CommandInv
    <3>2. inbox' # <<>> /\ inbox'[1].prot = "ciphered" => inbox'[1].count = m.count + 1
      <4> SUFFICES ASSUME inbox' # <<>>, inbox'[1].prot = "ciphered"
                   PROVE  inbox'[1].count = m.count + 1
        OBVIOUS
      <4>1. 1 \in DOMAIN inbox' /\ 2 \in DOMAIN inbox /\ inbox'[1] = inbox[2]
        BY <1>2, EmptySeq
      <4>2. inbox[2].count = inbox[2 - 1].count + 1
        BY <4>1 DEF IInv, CommandInv
      <4> QED BY <1>2, <4>1, <4>2
    <3>3. inbox' = <<>> /\ core.secured => core.dl = m.count + 1
      <4> SUFFICES ASSUME inbox' = <<>>, core.secured PROVE core.dl = m.count + 1
        OBVIOUS
      <4>1. Len(inbox) = 1
        BY <1>2, EmptySeq
      <4> QED BY <1>2, <1>3, <2>3, <4>1 DEF IInv, CommandInv
    <3>4. Deciphering' = {p} /\ job'[p].pc = "loadDL" /\ job'[p].nas = m
      BY <1>3, <1>5, <1>6, <2>1, <2>3
    <3> QED BY <1>1, <1>7, <2>1, <3>1, <3>2, <3>3, <3>4 DEF DLInv, Behind
  <2> QED BY <2>2, <2>3
<1> QED BY <1>9, <1>10, <1>11, <1>12, <1>13, <1>14, <1>15, <1>16 DEF IInv

\* A new key finds no command and no completion under way.
LEMMA AuthenticatePreserves ==
    ASSUME IInv, Authenticate
    PROVE  IInv'
<1>0. Fields
  BY FieldsHold DEF IInv
<1>1. /\ core.key = NoKey \/ core.secured
      /\ UNCHANGED <<system, job, inbox, raced, misread>>
  BY DEF Authenticate
<1>2. /\ ctx' \in Context /\ ctx'.kamf = core.key + 1 /\ ctx'.keys = ctx.keys
      /\ ctx'.active = ctx.active /\ ctx'.ul = ctx.ul /\ ctx'.dl = ctx.dl
      /\ core' \in Core /\ core'.key = core.key + 1 /\ core'.dl = 0 /\ core'.ul = core.ul
      /\ ~core'.secured /\ ~core'.stale
  <2>1. /\ ctx' = [ctx EXCEPT !.kamf = core.key + 1]
        /\ core' = [core EXCEPT !.key = core.key + 1, !.dl = 0, !.secured = FALSE, !.stale = FALSE]
    BY DEF Authenticate
  <2>2. ctx \in Context /\ core \in Core /\ core.key + 1 \in Nat
    BY <1>0 DEF IInv, TypeOK, FormInv, Fields
  <2>3. /\ ctx' \in Context /\ ctx'.kamf = core.key + 1 /\ ctx'.keys = ctx.keys
        /\ ctx'.active = ctx.active /\ ctx'.ul = ctx.ul /\ ctx'.dl = ctx.dl
    BY <2>1, <2>2 DEF Context
  <2>4. /\ core' \in Core /\ core'.key = core.key + 1 /\ core'.dl = 0 /\ core'.ul = core.ul
        /\ ~core'.secured /\ ~core'.stale
    BY <2>1, <2>2 DEF Core
  <2> QED BY <2>3, <2>4
<1>3. job' = job /\ UNCHANGED <<UsesUL, UsesDL, Installing, Completing, Rewinding, Deciphering>>
  BY <1>1 DEF UsesUL, UsesDL, Installing, Completing, Rewinding, Deciphering
<1>4. /\ core'.key # NoKey /\ ctx.keys # core'.key /\ Installing = {} /\ Completing = {}
      /\ \A i \in DOMAIN inbox : inbox[i].prot # "new"
  <2>1. ctx.keys = core.key
    BY <1>1 DEF IInv, KeyInv
  <2>2. core'.key # core.key /\ core'.key # NoKey
    BY <1>0, <1>2 DEF Fields, NoKey
  <2> QED BY <1>1, <2>1, <2>2 DEF IInv, CommandInv, CompleteInv
<1>5. TypeOK'
  BY <1>1, <1>2 DEF IInv, TypeOK
<1>6. FormInv'
  BY <1>1, <1>2 DEF IInv, FormInv
<1>7. ApartInv'
  BY <1>1, <1>3, ApartKept DEF IInv
<1>8. KeyInv'
  BY <1>2, <1>4 DEF KeyInv
<1>9. CommandInv'
  BY <1>1, <1>2, <1>3, <1>4 DEF IInv, CommandInv
<1>10. CompleteInv'
  BY <1>3, <1>4 DEF CompleteInv
<1>11. ULInv'
  BY <1>1, <1>2 DEF IInv, ULInv
<1>12. DLInv'
  BY <1>1, <1>2, <1>3, <1>4 DEF IInv, DLInv, Behind
<1> QED BY <1>5, <1>6, <1>7, <1>8, <1>9, <1>10, <1>11, <1>12 DEF IInv

\* The command is the last downlink before its keys are in use.
LEMMA CoreCommandsPreserves ==
    ASSUME IInv, CoreCommands
    PROVE  IInv'
<1>0. Fields
  BY FieldsHold DEF IInv
<1>1. /\ core.key # NoKey /\ UNCHANGED <<system, ctx, job, raced, misread>>
      /\ core.dl = 0
  BY DEF CoreCommands, CoreSends
<1> DEFINE m == [prot |-> "new", key |-> core.key, count |-> core.dl]
<1>2. /\ core' \in Core /\ core'.key = core.key /\ core'.dl = core.dl + 1 /\ core'.ul = core.ul
      /\ core'.secured = core.secured /\ core'.stale = core.stale
  <2>1. core \in Core /\ core.dl + 1 \in Nat /\ core' = [core EXCEPT !.dl = core.dl + 1]
    BY <1>0 DEF IInv, FormInv, Fields, CoreCommands, CoreSends
  <2> QED BY <2>1 DEF Core
<1>3. /\ m \in Protected /\ m.prot = "new" /\ m.key = core.key /\ m.count = core.dl
      /\ inbox' = Append(inbox, m)
  BY <1>0 DEF Protected, Fields, CoreCommands, CoreSends
<1> HIDE DEF m
<1>4. /\ inbox \in Seq(Protected) /\ Len(inbox) \in Nat /\ DOMAIN inbox = 1..Len(inbox)
      /\ inbox' \in Seq(Protected) /\ Len(inbox') = Len(inbox) + 1
      /\ DOMAIN inbox' = 1..(Len(inbox) + 1)
      /\ \A i \in DOMAIN inbox : inbox'[i] = inbox[i]
      /\ inbox'[Len(inbox) + 1] = m /\ inbox' # <<>>
  <2>1. inbox \in Seq(Protected)
    BY DEF IInv, TypeOK
  <2>2. /\ inbox' \in Seq(Protected) /\ Len(inbox') = Len(inbox) + 1
        /\ \A i \in 1..Len(inbox) : inbox'[i] = inbox[i]
        /\ inbox'[Len(inbox) + 1] = m
    BY <1>3, <2>1, AppendProperties
  <2>3. Len(inbox) \in Nat /\ DOMAIN inbox = 1..Len(inbox) /\ DOMAIN inbox' = 1..(Len(inbox) + 1)
    BY <2>1, <2>2
  <2> QED BY <2>2, <2>3, <2>1, EmptySeq
<1>5. job' = job /\ UNCHANGED <<UsesUL, UsesDL, Installing, Completing, Rewinding, Deciphering>>
  BY <1>1 DEF UsesUL, UsesDL, Installing, Completing, Rewinding, Deciphering
<1>6. /\ ctx.keys # core.key /\ ~core.secured /\ Installing = {} /\ core'.dl = 1
      /\ \A i \in DOMAIN inbox : inbox[i].prot = "ciphered"
  <2>1. ctx.keys # core.key /\ core'.dl = 1
    BY <1>1, <1>2 DEF IInv, CommandInv
  <2> QED BY <1>1, <2>1 DEF IInv, KeyInv, CommandInv, FormInv
<1>7. TypeOK'
  BY <1>1, <1>4 DEF IInv, TypeOK
<1>8. FormInv'
  <2>1. ASSUME NEW i \in DOMAIN inbox' PROVE inbox'[i].prot \in {"ciphered", "new"}
    <3>1. i \in DOMAIN inbox \/ i = Len(inbox) + 1
      BY <1>4
    <3> QED BY <1>3, <1>4, <3>1 DEF IInv, FormInv
  <2> QED BY <1>1, <1>2, <2>1 DEF IInv, FormInv
<1>9. ApartInv'
  BY <1>1, <1>5, ApartKept DEF IInv
<1>10. KeyInv'
  BY <1>1, <1>2 DEF IInv, KeyInv
<1>11. CommandInv'
  <2>1. ASSUME NEW i \in DOMAIN inbox
        PROVE  /\ inbox'[i].prot = "new" =>
                    i = Len(inbox') /\ ctx.keys # core.key /\ core.key # NoKey /\ core'.dl = 1
               /\ inbox'[i].prot = "ciphered" =>
                    /\ inbox'[i].key = ctx.keys
                    /\ i > 1 => inbox'[i].count = inbox'[i - 1].count + 1
                    /\ core.secured /\ i = Len(inbox') => core'.dl = inbox'[i].count + 1
    <3>1. inbox'[i] = inbox[i] /\ inbox[i].prot = "ciphered" /\ i # Len(inbox')
      BY <1>4, <1>6
    <3>2. i > 1 => i - 1 \in DOMAIN inbox /\ inbox'[i - 1] = inbox[i - 1]
      BY <1>4
    <3> QED BY <3>1, <3>2 DEF IInv, CommandInv
  <2>2. ASSUME NEW i, i = Len(inbox) + 1
        PROVE  /\ inbox'[i].prot = "new" =>
                    i = Len(inbox') /\ ctx.keys # core.key /\ core.key # NoKey /\ core'.dl = 1
               /\ inbox'[i].prot = "ciphered" =>
                    /\ inbox'[i].key = ctx.keys
                    /\ i > 1 => inbox'[i].count = inbox'[i - 1].count + 1
                    /\ core.secured /\ i = Len(inbox') => core'.dl = inbox'[i].count + 1
    <3>1. i = Len(inbox') /\ inbox'[i].prot = "new"
      BY <1>3, <1>4, <2>2
    <3> QED BY <1>1, <1>6, <3>1
  <2>3. \A i \in DOMAIN inbox' : i \in DOMAIN inbox \/ i = Len(inbox) + 1
    BY <1>4
  <2> QED BY <1>1, <1>2, <1>5, <1>6, <2>1, <2>2, <2>3 DEF IInv, CommandInv
<1>12. CompleteInv'
  BY <1>1, <1>2, <1>5, CompleteKept DEF IInv
<1>13. ULInv'
  BY <1>1, <1>2 DEF IInv, ULInv
<1>14. DLInv'
  <2>1. \A d : Behind(d) => Behind(d)'
    <3>1. inbox = <<>> => inbox'[1] = m
      BY <1>4, EmptySeq
    <3>2. inbox # <<>> => inbox'[1] = inbox[1]
      BY <1>4, EmptySeq
    <3> QED BY <1>1, <1>2, <1>3, <1>4, <3>1, <3>2 DEF Behind
  <2>2. core'.key = core.key /\ core'.secured = core.secured
    BY <1>2
  <2> QED BY <1>1, <1>5, <2>1, <2>2 DEF IInv, DLInv, Behind
<1> QED BY <1>7, <1>8, <1>9, <1>10, <1>11, <1>12, <1>13, <1>14 DEF IInv

\* A ciphered downlink is the one after the last.
LEMMA CoreInformsPreserves ==
    ASSUME IInv, CoreInforms
    PROVE  IInv'
<1>0. Fields
  BY FieldsHold DEF IInv
<1>1. /\ core.key # NoKey /\ UNCHANGED <<system, ctx, job, raced, misread>>
      /\ core.secured
  BY DEF CoreInforms, CoreSends
<1> DEFINE m == [prot |-> "ciphered", key |-> core.key, count |-> core.dl]
<1>2. /\ core' \in Core /\ core'.key = core.key /\ core'.dl = core.dl + 1 /\ core'.ul = core.ul
      /\ core'.secured = core.secured /\ core'.stale = core.stale
  <2>1. core \in Core /\ core.dl + 1 \in Nat /\ core' = [core EXCEPT !.dl = core.dl + 1]
    BY <1>0 DEF IInv, FormInv, Fields, CoreInforms, CoreSends
  <2> QED BY <2>1 DEF Core
<1>3. /\ m \in Protected /\ m.prot = "ciphered" /\ m.key = core.key /\ m.count = core.dl
      /\ inbox' = Append(inbox, m)
  BY <1>0 DEF Protected, Fields, CoreInforms, CoreSends
<1> HIDE DEF m
<1>4. /\ inbox \in Seq(Protected) /\ Len(inbox) \in Nat /\ DOMAIN inbox = 1..Len(inbox)
      /\ inbox' \in Seq(Protected) /\ Len(inbox') = Len(inbox) + 1
      /\ DOMAIN inbox' = 1..(Len(inbox) + 1)
      /\ \A i \in DOMAIN inbox : inbox'[i] = inbox[i]
      /\ inbox'[Len(inbox) + 1] = m /\ inbox' # <<>>
  <2>1. inbox \in Seq(Protected)
    BY DEF IInv, TypeOK
  <2>2. /\ inbox' \in Seq(Protected) /\ Len(inbox') = Len(inbox) + 1
        /\ \A i \in 1..Len(inbox) : inbox'[i] = inbox[i]
        /\ inbox'[Len(inbox) + 1] = m
    BY <1>3, <2>1, AppendProperties
  <2>3. Len(inbox) \in Nat /\ DOMAIN inbox = 1..Len(inbox) /\ DOMAIN inbox' = 1..(Len(inbox) + 1)
    BY <2>1, <2>2
  <2> QED BY <2>2, <2>3, <2>1, EmptySeq
<1>5. job' = job /\ UNCHANGED <<UsesUL, UsesDL, Installing, Completing, Rewinding, Deciphering>>
  BY <1>1 DEF UsesUL, UsesDL, Installing, Completing, Rewinding, Deciphering
<1>6. /\ ctx.keys = core.key /\ Installing = {} /\ core'.dl # 0
      /\ \A i \in DOMAIN inbox : inbox[i].prot = "ciphered"
  <2>1. ctx.keys = core.key /\ core'.dl # 0
    BY <1>0, <1>1, <1>2 DEF IInv, KeyInv, Fields
  <2> QED BY <2>1 DEF IInv, CommandInv, FormInv
<1>7. TypeOK'
  BY <1>1, <1>4 DEF IInv, TypeOK
<1>8. FormInv'
  <2>1. ASSUME NEW i \in DOMAIN inbox' PROVE inbox'[i].prot \in {"ciphered", "new"}
    <3>1. i \in DOMAIN inbox \/ i = Len(inbox) + 1
      BY <1>4
    <3> QED BY <1>3, <1>4, <3>1 DEF IInv, FormInv
  <2> QED BY <1>1, <1>2, <2>1 DEF IInv, FormInv
<1>9. ApartInv'
  BY <1>1, <1>5, ApartKept DEF IInv
<1>10. KeyInv'
  BY <1>1, <1>2 DEF IInv, KeyInv
<1>11. CommandInv'
  <2>1. ASSUME NEW i \in DOMAIN inbox
        PROVE  /\ inbox'[i].prot = "new" =>
                    i = Len(inbox') /\ ctx.keys # core.key /\ core.key # NoKey /\ core'.dl = 1
               /\ inbox'[i].prot = "ciphered" =>
                    /\ inbox'[i].key = ctx.keys
                    /\ i > 1 => inbox'[i].count = inbox'[i - 1].count + 1
                    /\ core.secured /\ i = Len(inbox') => core'.dl = inbox'[i].count + 1
    <3>1. inbox'[i] = inbox[i] /\ inbox[i].prot = "ciphered" /\ i # Len(inbox')
      BY <1>4, <1>6
    <3>2. i > 1 => i - 1 \in DOMAIN inbox /\ inbox'[i - 1] = inbox[i - 1]
      BY <1>4
    <3> QED BY <3>1, <3>2 DEF IInv, CommandInv
  <2>2. ASSUME NEW i, i = Len(inbox) + 1
        PROVE  /\ inbox'[i].prot = "new" =>
                    i = Len(inbox') /\ ctx.keys # core.key /\ core.key # NoKey /\ core'.dl = 1
               /\ inbox'[i].prot = "ciphered" =>
                    /\ inbox'[i].key = ctx.keys
                    /\ i > 1 => inbox'[i].count = inbox'[i - 1].count + 1
                    /\ core.secured /\ i = Len(inbox') => core'.dl = inbox'[i].count + 1
    <3>1. inbox'[i] = m /\ i = Len(inbox')
      BY <1>4, <2>2
    <3>2. ASSUME i > 1
          PROVE  m.count = inbox'[i - 1].count + 1
      <4>1. i - 1 = Len(inbox) /\ Len(inbox) \in DOMAIN inbox /\ inbox'[i - 1] = inbox[Len(inbox)]
        BY <1>4, <2>2, <3>2
      <4>2. core.dl = inbox[Len(inbox)].count + 1
        BY <1>1, <1>6, <4>1 DEF IInv, CommandInv
      <4> QED BY <1>3, <4>1, <4>2
    <3> QED BY <1>1, <1>2, <1>3, <1>6, <3>1, <3>2
  <2>3. \A i \in DOMAIN inbox' : i \in DOMAIN inbox \/ i = Len(inbox) + 1
    BY <1>4
  <2> QED BY <1>1, <1>2, <1>5, <1>6, <2>1, <2>2, <2>3 DEF IInv, CommandInv
<1>12. CompleteInv'
  BY <1>1, <1>2, <1>5, CompleteKept DEF IInv
<1>13. ULInv'
  BY <1>1, <1>2 DEF IInv, ULInv
<1>14. DLInv'
  <2>1. \A d : Behind(d) => Behind(d)'
    <3>1. inbox = <<>> => inbox'[1] = m
      BY <1>4, EmptySeq
    <3>2. inbox # <<>> => inbox'[1] = inbox[1]
      BY <1>4, EmptySeq
    <3> QED BY <1>1, <1>2, <1>3, <1>4, <3>1, <3>2 DEF Behind
  <2>2. core'.key = core.key /\ core'.secured = core.secured
    BY <1>2
  <2> QED BY <1>1, <1>5, <2>1, <2>2 DEF IInv, DLInv, Behind
<1> QED BY <1>7, <1>8, <1>9, <1>10, <1>11, <1>12, <1>13, <1>14 DEF IInv

\* In the beginning there are no keys, and nothing is under way.
LEMMA InitEstablishes == Init => IInv
<1> SUFFICES ASSUME Init PROVE IInv
  OBVIOUS
<1>1. /\ system \in Systems /\ ctx = FreshContext /\ job = [p \in Requests |-> Idle] /\ inbox = <<>>
      /\ core = [key |-> NoKey, dl |-> 0, ul |-> 0, secured |-> FALSE, stale |-> FALSE]
      /\ raced = {} /\ misread = FALSE
  BY DEF Init
<1>2. Idle \in Job /\ Idle.pc = "idle" /\ Idle.pc \notin Sending /\ Idle.pc \notin Unwrapping
  BY DEF Idle, Job, NoNAS, NoKey, Protected, Sending, Unwrapping
<1>3. \A p \in Requests : job[p].pc = "idle" /\ job[p].pc \notin Sending
                           /\ job[p].pc \notin Unwrapping
  BY <1>1, <1>2
<1>4. /\ UsesUL = {} /\ UsesDL = {} /\ Installing = {} /\ Completing = {} /\ Rewinding = {}
      /\ Deciphering = {}
  BY <1>3 DEF UsesUL, UsesDL, Installing, Completing, Rewinding, Deciphering
<1>5. TypeOK
  <2>1. system \in {"5GS", "EPS"}
    BY <1>1, SharedUEAssumption
  <2>2. ctx \in Context
    BY <1>1 DEF FreshContext, Context, NoKey
  <2>3. job \in [Requests -> Job]
    BY <1>1, <1>2
  <2>4. inbox \in Seq(Protected)
    BY <1>1
  <2> QED BY <1>1, <2>1, <2>2, <2>3, <2>4 DEF TypeOK
<1>6. core \in Core /\ core.key = NoKey /\ ~core.secured /\ ~core.stale
  BY <1>1 DEF Core, NoKey
<1>7. ctx.kamf = NoKey /\ ctx.keys = NoKey /\ ~ctx.active
  BY <1>1 DEF FreshContext
<1>8. DOMAIN inbox = {}
  BY <1>1
<1>9. FormInv
  BY <1>3, <1>6, <1>8 DEF FormInv
<1>10. ApartInv
  BY <1>4 DEF ApartInv
<1>11. KeyInv
  BY <1>6, <1>7 DEF KeyInv
<1>12. CommandInv
  BY <1>1, <1>4, <1>6, <1>8 DEF CommandInv
<1>13. CompleteInv
  BY <1>4 DEF CompleteInv
<1>14. ULInv
  BY <1>3, <1>6 DEF ULInv
<1>15. DLInv
  BY <1>1, <1>4, <1>6 DEF DLInv, Behind
<1> QED BY <1>5, <1>9, <1>10, <1>11, <1>12, <1>13, <1>14, <1>15 DEF IInv

\* A step that changes nothing preserves the invariant.
LEMMA StutterPreserves == IInv /\ UNCHANGED vars => IInv'
<1> SUFFICES ASSUME IInv, UNCHANGED vars PROVE IInv'
  OBVIOUS
<1>1. UNCHANGED <<system, ctx, job, inbox, core, raced, misread>>
  BY DEF vars
<1>2. UNCHANGED <<UsesUL, UsesDL, Installing, Completing, Rewinding, Deciphering>>
  BY <1>1 DEF UsesUL, UsesDL, Installing, Completing, Rewinding, Deciphering
<1>3. TypeOK' /\ FormInv' /\ KeyInv'
  BY <1>1 DEF IInv, TypeOK, FormInv, KeyInv
<1>4. ApartInv' /\ CommandInv' /\ CompleteInv'
  BY <1>1, <1>2 DEF IInv, ApartInv, CommandInv, CompleteInv
<1>5. ULInv'
  BY <1>1 DEF IInv, ULInv
<1>6. DLInv'
  BY <1>1, <1>2 DEF IInv, DLInv, Behind
<1> QED BY <1>3, <1>4, <1>5, <1>6 DEF IInv

\* So does every step: one lemma per action.
LEMMA NextPreserves ==
    ASSUME Octet > 1
    PROVE  IInv /\ [Next]_vars => IInv'
<1> SUFFICES ASSUME IInv, [Next]_vars PROVE IInv'
  OBVIOUS
<1>1. ASSUME NEW p \in Requests, Step(p) PROVE IInv'
  <2>1. CASE \E prot \in {"ciphered", "new"} : Begin(p, prot)
    BY <2>1, BeginPreserves
  <2>2. CASE Rewind(p)
    BY <2>2, RewindPreserves
  <2>3. CASE LoadUL(p)
    BY <2>3, LoadULPreserves
  <2>4. CASE StoreUL(p)
    BY <2>4, StoreULPreserves
  <2>5. CASE Protect(p)
    BY <2>5, ProtectPreserves
  <2>6. CASE Transmit(p)
    BY <2>6, TransmitPreserves
  <2>7. CASE Fetch(p)
    BY <2>7, FetchPreserves
  <2>8. CASE LoadDL(p)
    BY <2>8, LoadDLPreserves
  <2>9. CASE StoreDL(p)
    BY <2>9, StoreDLPreserves
  <2>10. CASE ReturnDL(p)
    BY <2>10, ReturnDLPreserves
  <2>11. CASE EstablishKeys(p)
    BY <2>11, EstablishKeysPreserves
  <2>12. CASE Verify(p)
    BY <2>12, VerifyPreserves
  <2> QED BY <1>1, <2>1, <2>2, <2>3, <2>4, <2>5, <2>6, <2>7, <2>8, <2>9, <2>10, <2>11, <2>12
          DEF Step
<1>2. CASE Authenticate
  BY <1>2, AuthenticatePreserves
<1>3. CASE CoreCommands
  BY <1>3, CoreCommandsPreserves
<1>4. CASE CoreInforms
  BY <1>4, CoreInformsPreserves
<1>5. CASE UNCHANGED vars
  BY <1>5, StutterPreserves
<1> QED BY <1>1, <1>2, <1>3, <1>4, <1>5 DEF Next

(***************************************************************************)
(* Theorems                                                                *)
(***************************************************************************)

\* The inductive invariant holds in every reachable state, however many
\* requests share the UE and however their loads and stores interleave.
THEOREM Invariance ==
    ASSUME Octet > 1
    PROVE  Spec => []IInv
<1>1. Init => IInv
  BY InitEstablishes
<1>2. IInv /\ [Next]_vars => IInv'
  BY NextPreserves
<1> QED BY <1>1, <1>2, PTL DEF Spec

\* Every request of a UE is at a step of encodeGNBUplinkNAS or
\* decodeGNBDownlinkNAS (or their EPS twins), with locals of their types.
THEOREM TypeCorrect ==
    ASSUME Octet > 1
    PROVE  Spec => []TypeOK
<1>1. IInv => TypeOK
  BY DEF IInv
<1> QED BY <1>1, Invariance, PTL

\* encodeGNBUplinkNAS (encodeENBUplinkNAS): while no two sends have overlapped
\* since the COUNTs were last started over, no uplink is a replay to the core
\* network, whatever requests unwrap meanwhile.
THEOREM UplinksStayFresh ==
    ASSUME Octet > 1
    PROVE  Spec => []UplinksFresh
<1>1. IInv => UplinksFresh
  BY DEF IInv, ULInv, UplinksFresh
<1> QED BY <1>1, Invariance, PTL

\* decodeGNBDownlinkNAS (decodeENBDownlinkNAS): while no two unwraps have
\* overlapped since the COUNTs were last started over, the MAC of every ciphered
\* downlink verifies, whatever requests send meanwhile.  Nothing is said of the MAC
\* of a SECURITY MODE COMMAND, which fails after a second authentication.
THEOREM CipheredDownlinksStayVerified ==
    ASSUME Octet > 1
    PROVE  Spec => []CipheredDownlinksVerify
<1>1. IInv => CipheredDownlinksVerify
  BY DEF IInv, DLInv, CipheredDownlinksVerify
<1> QED BY <1>1, Invariance, PTL
=============================================================================
